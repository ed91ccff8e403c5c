-------------------------- MODULE QuizSessionProofs --------------------------
(* Proofs about QuizSession, for every number of questions, every score,     *)
(* every number of attempts and hints and every setting.                     *)
EXTENDS QuizSession, TLAPS

----------------------------------------------------------------------------
(* Type correctness *)

LEMMA InitType == Init => TypeOK
<1> SUFFICES ASSUME Init PROVE TypeOK
  OBVIOUS
<1>1. 0 \in Questions /\ InitHints \in 0..InitHints
  BY QuizAssumption DEF Questions
<1>2. 0 \in Nat /\ InitAttempts \in Int /\ 0 \in Int
  BY QuizAssumption
<1>3. "menu" \in Screens
  BY DEF Screens
<1> QED BY <1>1, <1>2, <1>3, Zenon DEF Init, TypeOK

LEMMA JudgeType ==
  ASSUME TypeOK, NEW text, Judge(text)
  PROVE  /\ questionNumber' \in Questions /\ score' \in Nat /\ counter' \in Nat
         /\ CorrectAnswersCounter' \in Nat /\ UnCorrectAnswersCounter' \in Nat
         /\ AttemptsCounter' \in Int /\ saved' \in Saves \cup {NoSave}
         /\ updateSoon' \in Nat /\ updateLoose' \in Nat /\ totalRequested' \in BOOLEAN
<1> USE QuizAssumption DEF TypeOK, Questions, Points, Saves
<1>1. CASE UNCHANGED <<gameVars, laterVars>>
  BY <1>1 DEF gameVars, laterVars
<1>2. CASE JudgeRight
  BY <1>2 DEF JudgeRight, Credit, write, PresentTotalScreen, nextQuestion, ScheduleLoose
<1>3. CASE JudgeFull
  BY <1>3 DEF JudgeFull, laterVars
<1>4. CASE JudgeWrong
  BY <1>4 DEF JudgeWrong, LoseAttempt, write, PresentTotalScreen, ScheduleLoose
<1> QED BY <1>1, <1>2, <1>3, <1>4 DEF Judge

LEMMA TapType ==
  ASSUME TypeOK, answerSelected
  PROVE  TypeOK'
<1> USE QuizAssumption DEF TypeOK, Questions, Points, Saves, flowVars, write
<1>1. CASE TapRight
  BY <1>1 DEF answerSelected, TapRight, Credit, RestartTimer, PresentTotalScreen,
              nextQuestion, ScheduleSoon
<1>2. CASE TapFull
  BY <1>2 DEF answerSelected, TapFull, nextQuestion, ScheduleLoose
<1>3. CASE TapWrong
  BY <1>3 DEF answerSelected, TapWrong, LoseAttempt, RestartTimer, PresentTotalScreen,
              nextQuestion, ScheduleSoon
<1> QED BY <1>1, <1>2, <1>3 DEF answerSelected

LEMMA TimerType ==
  ASSUME TypeOK, timerClass
  PROVE  TypeOK'
<1> USE QuizAssumption DEF TypeOK, Questions, Points, Saves, flowVars, timerClass
<1>1. CASE Timeout
  BY <1>1 DEF Timeout, LoseAttempt, PresentTotalScreen, nextQuestion, ScheduleSoon
<1>2. CASE UNCHANGED <<gameVars, laterVars>>
  BY <1>2 DEF gameVars, laterVars
<1> QED BY <1>1, <1>2

LEMMA ScreenType ==
  ASSUME TypeOK,
         OpenIntro \/ OpenQuiz \/ LeaveResults \/ Pause \/ Resume \/ restart \/ exit
            \/ GoToStart \/ ExitToMenu
  PROVE  TypeOK'
<1> USE QuizAssumption DEF TypeOK, OfPauseSheet, Questions, Screens, Saves, StayInGame, gameVars, uiVars, laterVars
<1>1. CASE OpenIntro BY <1>1 DEF OpenIntro
<1>2. CASE OpenQuiz BY <1>2 DEF OpenQuiz, Redraw
<1>3. CASE LeaveResults BY <1>3 DEF LeaveResults
<1>4. CASE Pause BY <1>4 DEF Pause
<1>5. CASE Resume BY <1>5 DEF Resume
<1>6. CASE restart BY <1>6 DEF restart
<1>7. CASE exit BY <1>7 DEF exit
<1>8. CASE GoToStart BY <1>8 DEF GoToStart
<1>9. CASE ExitToMenu BY <1>9 DEF ExitToMenu, QuizInWindow
<1> QED BY <1>1, <1>2, <1>3, <1>4, <1>5, <1>6, <1>7, <1>8, <1>9

LEMMA NextType == TypeOK /\ [Next]_vars => TypeOK'
<1> SUFFICES ASSUME TypeOK, [Next]_vars PROVE TypeOK'
  OBVIOUS
<1> USE QuizAssumption
<1>1. CASE answerSelected BY <1>1, TapType
<1>2. CASE AdvancedSpeechRecognition
  <2>1. PICK text \in Choices[questionNumber] : Judge(text)
    BY <1>2 DEF AdvancedSpeechRecognition
  <2> QED BY <1>2, <2>1, JudgeType DEF AdvancedSpeechRecognition, TypeOK, flowVars, uiVars
<1>3. CASE SayOther BY <1>3 DEF SayOther, TypeOK, flowVars, gameVars, uiVars, laterVars
<1>4. CASE OpenCamera BY <1>4 DEF OpenCamera, TypeOK, Screens, gameVars, uiVars, laterVars
<1>5. CASE CancelCamera BY <1>5 DEF CancelCamera, TypeOK, Screens, gameVars, uiVars, laterVars
<1>6. CASE recognizeText BY <1>6 DEF recognizeText, TypeOK, Screens, gameVars, uiVars, laterVars
<1>7. CASE CheckPhotoAnswer
  <2>1. Judge(check2) BY <1>7 DEF CheckPhotoAnswer
  <2> QED BY <1>7, <2>1, JudgeType DEF CheckPhotoAnswer, TypeOK, flowVars, uiVars
<1>8. CASE ShowAnswer BY <1>8 DEF ShowAnswer, TypeOK, flowVars, gameVars, laterVars
<1>9. CASE SkipQuestion
  BY <1>9 DEF SkipQuestion, Redraw, TypeOK, Questions, flowVars, laterVars
<1>10. CASE timerClass BY <1>10, TimerType
<1>11. CASE updateUI BY <1>11 DEF updateUI, Redraw, TypeOK, flowVars, gameVars
<1>12. CASE ShowTotalScreen
  BY <1>12 DEF ShowTotalScreen, QuizInWindow, TypeOK, OfPauseSheet, Screens, gameVars, uiVars
<1>13. CASE OpenIntro \/ OpenQuiz \/ LeaveResults \/ Pause \/ Resume \/ restart \/ exit
              \/ GoToStart \/ ExitToMenu
  BY <1>13, ScreenType
<1>14. CASE UNCHANGED vars
  BY <1>14 DEF vars, TypeOK, flowVars, gameVars, uiVars, laterVars
<1> QED
  BY <1>1, <1>2, <1>3, <1>4, <1>5, <1>6, <1>7, <1>8, <1>9, <1>10, <1>11, <1>12, <1>13, <1>14
     DEF Next, Player, Callback

\* Type correctness: in particular questionNumber and the question drawn always
\* index questions(), and the hints never go below zero.
THEOREM TypeCorrect == Spec => []TypeOK
  BY InitType, NextType, PTL DEF Spec

----------------------------------------------------------------------------
(* The quiz implements GameLedger, and the invariants of the books *)

\* A step of the quiz that the ledger does not see.
OffBooks == UNCHANGED <<counter, CorrectAnswersCounter, UnCorrectAnswersCounter,
                        AttemptsCounter, saved>>

LEMMA OffBooksStutters == OffBooks => UNCHANGED Ledger!books
  BY DEF OffBooks, Ledger!books

LEMMA JudgeLedger ==
  ASSUME TypeOK, NEW text, Judge(text)
  PROVE  [Ledger!Next]_(Ledger!books)
<1>1. CASE UNCHANGED <<gameVars, laterVars>>
  BY <1>1 DEF gameVars, Ledger!books
<1>2. CASE JudgeRight
  <2>1. Ledger!Win
    BY <1>2 DEF JudgeRight, Credit, write, Ledger!Win, Ledger!Save
  <2> QED BY <2>1 DEF Ledger!Next
<1>3. CASE JudgeFull
  BY <1>3 DEF JudgeFull, Ledger!books
<1>4. CASE JudgeWrong
  <2>1. Ledger!Lose
    BY <1>4 DEF JudgeWrong, LoseAttempt, write, Ledger!Lose, Ledger!Save
  <2> QED BY <2>1 DEF Ledger!Next
<1> QED BY <1>1, <1>2, <1>3, <1>4 DEF Judge

LEMMA TapLedger ==
  ASSUME TypeOK, answerSelected
  PROVE  [Ledger!Next]_(Ledger!books)
<1>0. write
  BY DEF answerSelected
<1>1. CASE TapRight
  <2>1. Ledger!Win
    BY <1>0, <1>1 DEF TapRight, Credit, write, Ledger!Win, Ledger!Save
  <2> QED BY <2>1 DEF Ledger!Next
<1>2. CASE TapFull
  <2>1. Ledger!SaveAgain
    BY <1>0, <1>2 DEF TapFull, write, Ledger!SaveAgain, Ledger!Save
  <2> QED BY <2>1 DEF Ledger!Next
<1>3. CASE TapWrong
  <2>1. Ledger!Lose
    BY <1>0, <1>3 DEF TapWrong, LoseAttempt, write, Ledger!Lose, Ledger!Save
  <2> QED BY <2>1 DEF Ledger!Next
<1> QED BY <1>1, <1>2, <1>3 DEF answerSelected

LEMMA TimerLedger ==
  ASSUME TypeOK, timerClass
  PROVE  [Ledger!Next]_(Ledger!books)
<1>1. CASE Timeout
  <2>1. Ledger!Expire
    BY <1>1 DEF Timeout, LoseAttempt, Ledger!Expire
  <2> QED BY <2>1 DEF Ledger!Next
<1>2. CASE UNCHANGED <<gameVars, laterVars>>
  BY <1>2 DEF gameVars, Ledger!books
<1> QED BY <1>1, <1>2 DEF timerClass

\* Everything but answers and the timer leaves the books alone.
LEMMA OtherStepsOffBooks ==
  ASSUME SayOther \/ OpenCamera \/ CancelCamera \/ recognizeText \/ ShowAnswer \/ SkipQuestion
            \/ OpenIntro \/ OpenQuiz \/ LeaveResults \/ Pause \/ Resume \/ restart \/ exit
            \/ updateUI \/ ShowTotalScreen \/ GoToStart \/ ExitToMenu
  PROVE  OffBooks
<1> USE DEF OffBooks, gameVars
<1>1. CASE SayOther \/ OpenCamera \/ CancelCamera \/ recognizeText
  BY <1>1 DEF SayOther, OpenCamera, CancelCamera, recognizeText
<1>2. CASE ShowAnswer \/ SkipQuestion \/ updateUI \/ ShowTotalScreen
  BY <1>2 DEF ShowAnswer, SkipQuestion, updateUI, ShowTotalScreen
<1>3. CASE OpenIntro \/ LeaveResults \/ Pause \/ Resume \/ exit \/ GoToStart \/ ExitToMenu
  BY <1>3 DEF StayInGame, OpenIntro, LeaveResults, Pause, Resume, exit, GoToStart, ExitToMenu
<1>4. CASE OpenQuiz \/ restart
  BY <1>4 DEF OpenQuiz, restart
<1> QED BY <1>1, <1>2, <1>3, <1>4

LEMMA LedgerStep == TypeOK /\ [Next]_vars => [Ledger!Next]_(Ledger!books)
<1> SUFFICES ASSUME TypeOK, [Next]_vars PROVE [Ledger!Next]_(Ledger!books)
  OBVIOUS
<1>1. CASE answerSelected BY <1>1, TapLedger
<1>2. CASE AdvancedSpeechRecognition
  <2>1. PICK text \in Choices[questionNumber] : Judge(text)
    BY <1>2 DEF AdvancedSpeechRecognition
  <2> QED BY <2>1, JudgeLedger
<1>3. CASE CheckPhotoAnswer
  BY <1>3, JudgeLedger DEF CheckPhotoAnswer
<1>4. CASE timerClass BY <1>4, TimerLedger
<1>5. CASE SayOther \/ OpenCamera \/ CancelCamera \/ recognizeText \/ ShowAnswer \/ SkipQuestion
            \/ OpenIntro \/ OpenQuiz \/ LeaveResults \/ Pause \/ Resume \/ restart \/ exit
            \/ updateUI \/ ShowTotalScreen \/ GoToStart \/ ExitToMenu
  BY <1>5, OtherStepsOffBooks, OffBooksStutters
<1>6. CASE UNCHANGED vars
  BY <1>6 DEF vars, gameVars, Ledger!books
<1> QED
  BY <1>1, <1>2, <1>3, <1>4, <1>5, <1>6 DEF Next, Player, Callback

\* The quiz implements the ledger: the initial states map to the ledger's, and
\* every step to one of its four actions or to a stutter.
THEOREM QuizKeepsLedger == Spec => KeepsLedger
<1>1. Init => Ledger!Init
  BY DEF Init, Ledger!Init
<1> QED BY <1>1, LedgerStep, TypeCorrect, PTL DEF Spec, KeepsLedger, Ledger!Spec

\* The score shown is five points per right answer and never passes the
\* maximum, in any number of games on the same view model.
THEOREM ScoreAlwaysConsistent == Spec => []ScoreConsistent
<1> USE QuizAssumption DEF ScoreConsistent, Points
<1>1. Init => ScoreConsistent
  BY DEF Init
<1>2. TypeOK /\ ScoreConsistent /\ [Ledger!Next]_(Ledger!books) => ScoreConsistent'
  BY DEF TypeOK, Ledger!Next, Ledger!Win, Ledger!Lose, Ledger!Expire, Ledger!SaveAgain,
         Ledger!books
<1> QED BY <1>1, <1>2, LedgerStep, TypeCorrect, PTL DEF Spec

\* Each wrong touch that is counted took one of the attempts.
THEOREM WrongAnswersAlwaysPaid == Spec => []WrongAnswersPaid
<1>1. Init => WrongAnswersPaid
  BY QuizAssumption DEF Init, WrongAnswersPaid
<1>2. TypeOK /\ WrongAnswersPaid /\ [Ledger!Next]_(Ledger!books) => WrongAnswersPaid'
  BY QuizAssumption
     DEF TypeOK, WrongAnswersPaid, Ledger!Next, Ledger!Win, Ledger!Lose, Ledger!Expire,
         Ledger!SaveAgain, Ledger!books
<1> QED BY <1>1, <1>2, LedgerStep, TypeCorrect, PTL DEF Spec

\* What the cloud holds of this game is always its present score.
THEOREM SavedAlwaysMatches == Spec => []SavedMatchesGame
<1>1. Init => SavedMatchesGame
  BY DEF Init, SavedMatchesGame
<1>2. SavedMatchesGame /\ [Ledger!Next]_(Ledger!books) => SavedMatchesGame'
  BY DEF SavedMatchesGame, Ledger!Next, Ledger!Win, Ledger!Lose, Ledger!Expire,
         Ledger!SaveAgain, Ledger!Save, Ledger!books
<1> QED BY <1>1, <1>2, LedgerStep, TypeCorrect, PTL DEF Spec

----------------------------------------------------------------------------
(* What is drawn, and when the time runs out *)

\* Every step that changes the question schedules a redraw or redraws at once,
\* except the restart of the pause screen; only a redraw takes one off.
DisplayInv == DisplayFresh /\ HintKeepsAnswer

\* The three kinds of steps, as far as the drawing is concerned.
Schedules == updateSoon' > 0 \/ updateLoose' > 0
Redraws == Redraw(questionNumber')
LeavesDrawing == UNCHANGED <<questionNumber, shown, titles, updateSoon, updateLoose>>

LEMMA JudgeDraws ==
  ASSUME TypeOK, NEW text, Judge(text), UNCHANGED uiVars
  PROVE  Schedules \/ LeavesDrawing
<1> USE DEF TypeOK, uiVars, Schedules, LeavesDrawing
<1>1. CASE UNCHANGED <<gameVars, laterVars>>
  BY <1>1 DEF gameVars, laterVars
<1>2. CASE JudgeRight BY <1>2 DEF JudgeRight, ScheduleLoose
<1>3. CASE JudgeFull BY <1>3 DEF JudgeFull, laterVars
<1>4. CASE JudgeWrong BY <1>4 DEF JudgeWrong, ScheduleLoose
<1> QED BY <1>1, <1>2, <1>3, <1>4 DEF Judge

LEMMA TapDraws ==
  ASSUME TypeOK, answerSelected
  PROVE  Schedules
<1> USE DEF TypeOK, Schedules
<1>1. CASE TapRight BY <1>1 DEF TapRight, ScheduleSoon
<1>2. CASE TapFull BY <1>2 DEF TapFull, ScheduleLoose
<1>3. CASE TapWrong BY <1>3 DEF TapWrong, ScheduleSoon
<1> QED BY <1>1, <1>2, <1>3 DEF answerSelected

LEMMA TimerDraws ==
  ASSUME TypeOK, timerClass
  PROVE  Schedules \/ LeavesDrawing
<1> USE DEF TypeOK, timerClass, Schedules, LeavesDrawing
<1>1. CASE Timeout BY <1>1 DEF Timeout, ScheduleSoon
<1>2. CASE UNCHANGED <<gameVars, laterVars>> BY <1>2 DEF gameVars, laterVars
<1> QED BY <1>1, <1>2

LEMMA QuietSteps ==
  ASSUME SayOther \/ OpenCamera \/ CancelCamera \/ recognizeText \/ ShowTotalScreen
            \/ OpenIntro \/ LeaveResults \/ Pause \/ Resume \/ exit \/ GoToStart \/ ExitToMenu
            \/ UNCHANGED vars
  PROVE  LeavesDrawing
<1> USE DEF LeavesDrawing, gameVars, uiVars, laterVars
<1>1. CASE SayOther \/ OpenCamera \/ CancelCamera \/ recognizeText \/ ShowTotalScreen
  BY <1>1 DEF SayOther, OpenCamera, CancelCamera, recognizeText, ShowTotalScreen
<1>2. CASE OpenIntro \/ LeaveResults \/ Pause \/ Resume \/ exit \/ GoToStart \/ ExitToMenu
  BY <1>2 DEF StayInGame, OpenIntro, LeaveResults, Pause, Resume, exit, GoToStart, ExitToMenu
<1>3. CASE UNCHANGED vars
  BY <1>3 DEF vars
<1> QED BY <1>1, <1>2, <1>3

LEMMA DrawingStep ==
  ASSUME TypeOK, [Next]_vars
  PROVE  Schedules \/ Redraws \/ LeavesDrawing \/ restart \/ ShowAnswer
<1>1. CASE answerSelected BY <1>1, TapDraws
<1>2. CASE AdvancedSpeechRecognition
  <2>1. PICK text \in Choices[questionNumber] : Judge(text)
    BY <1>2 DEF AdvancedSpeechRecognition
  <2> QED BY <1>2, <2>1, JudgeDraws DEF AdvancedSpeechRecognition
<1>3. CASE CheckPhotoAnswer
  BY <1>3, JudgeDraws DEF CheckPhotoAnswer
<1>4. CASE timerClass BY <1>4, TimerDraws
<1>5. CASE SkipQuestion
  BY <1>5 DEF SkipQuestion, Redraws, TypeOK, laterVars
<1>6. CASE updateUI
  BY <1>6 DEF updateUI, Redraws, Redraw, TypeOK, gameVars
<1>7. CASE OpenQuiz
  BY <1>7 DEF OpenQuiz, Redraws, Redraw, TypeOK, gameVars, laterVars
<1>8. CASE SayOther \/ OpenCamera \/ CancelCamera \/ recognizeText \/ ShowTotalScreen
            \/ OpenIntro \/ LeaveResults \/ Pause \/ Resume \/ exit \/ GoToStart \/ ExitToMenu
            \/ UNCHANGED vars
  BY <1>8, QuietSteps
<1> QED
  BY <1>1, <1>2, <1>3, <1>4, <1>5, <1>6, <1>7, <1>8 DEF Next, Player, Callback

LEMMA DisplayStep == TypeOK /\ TypeOK' /\ DisplayInv /\ [Next]_vars => DisplayInv'
<1> SUFFICES ASSUME TypeOK, TypeOK', DisplayInv, [Next]_vars PROVE DisplayInv'
  OBVIOUS
<1>1. CASE Schedules
  BY <1>1 DEF Schedules, TypeOK, DisplayInv, DisplayFresh, HintKeepsAnswer
<1>2. CASE Redraws
  <2>1. \A q \in Questions : Answer[q] \in Choices[q]
    BY QuizAssumption
  <2>2. questionNumber' \in Questions
    BY DEF TypeOK
  <2>3. shown' = questionNumber' /\ titles' = Choices[questionNumber']
    BY <1>2 DEF Redraws, Redraw
  <2> QED BY <2>1, <2>2, <2>3 DEF DisplayInv, DisplayFresh, HintKeepsAnswer
<1>3. CASE LeavesDrawing
  BY <1>3 DEF LeavesDrawing, DisplayInv, DisplayFresh, HintKeepsAnswer
<1>4. CASE restart
  BY <1>4 DEF restart, uiVars, laterVars, TypeOK, DisplayInv, DisplayFresh, HintKeepsAnswer
<1>5. CASE ShowAnswer
  BY <1>5 DEF ShowAnswer, gameVars, laterVars, TypeOK, DisplayInv, DisplayFresh, HintKeepsAnswer
<1> QED BY <1>1, <1>2, <1>3, <1>4, <1>5, DrawingStep

LEMMA DisplayInvariant == Spec => []DisplayInv
<1>1. Init => DisplayInv
  BY QuizAssumption DEF Init, DisplayInv, DisplayFresh, HintKeepsAnswer, Questions
<1> QED BY <1>1, DisplayStep, TypeCorrect, PTL DEF Spec

\* A question that is asked but not drawn has a redraw on its way, or is the
\* first question, put there by the restart of the pause screen.
THEOREM DisplayAlwaysFresh == Spec => []DisplayFresh
  BY DisplayInvariant, PTL DEF DisplayInv

\* A hint never takes the right answer off the buttons for good.
THEOREM HintAlwaysKeepsAnswer == Spec => []HintKeepsAnswer
  BY DisplayInvariant, PTL DEF DisplayInv

----------------------------------------------------------------------------
(* What a step may never do *)

LEMMA JudgeRules ==
  ASSUME TypeOK, NEW text, Judge(text)
  PROVE  /\ AttemptsOn /\ AttemptsCounter = 0 /\ AttemptsCounter' < 0 => totalRequested'
         /\ questionNumber = LastQuestion /\ questionNumber' = 0 /\ counter < MaxScore
              => totalRequested'
         /\ counter' # counter => questionNumber' # questionNumber /\ UNCHANGED AttemptsCounter
<1> USE QuizAssumption DEF TypeOK, Questions
<1>1. CASE UNCHANGED <<gameVars, laterVars>>
  BY <1>1 DEF gameVars
<1>2. CASE JudgeRight
  <2>1. UNCHANGED AttemptsCounter
    BY <1>2 DEF JudgeRight, Credit
  <2>2. questionNumber = LastQuestion => totalRequested'
    BY <1>2 DEF JudgeRight, PresentTotalScreen
  <2>3. questionNumber' # questionNumber
    BY <1>2 DEF JudgeRight, nextQuestion
  <2>4. ~(AttemptsCounter = 0 /\ AttemptsCounter' < 0)
    BY <2>1
  <2> QED BY <2>1, <2>2, <2>3, <2>4
<1>3. CASE JudgeFull
  BY <1>3 DEF JudgeFull
<1>4. CASE JudgeWrong
  BY <1>4 DEF JudgeWrong, LoseAttempt, PresentTotalScreen, OutOfAttempts
<1> QED BY <1>1, <1>2, <1>3, <1>4 DEF Judge

LEMMA TapRules ==
  ASSUME TypeOK, answerSelected
  PROVE  /\ AttemptsOn /\ AttemptsCounter = 0 /\ AttemptsCounter' < 0 => totalRequested'
         /\ questionNumber = LastQuestion /\ questionNumber' = 0 /\ counter < MaxScore
              => totalRequested'
         /\ counter' # counter => questionNumber' # questionNumber /\ UNCHANGED AttemptsCounter
<1> USE QuizAssumption DEF TypeOK, Questions
<1>1. CASE TapRight
  <2>1. UNCHANGED AttemptsCounter
    BY <1>1 DEF TapRight, Credit
  <2>2. questionNumber = LastQuestion => totalRequested'
    BY <1>1 DEF TapRight, PresentTotalScreen
  <2>3. questionNumber' # questionNumber
    BY <1>1 DEF TapRight, nextQuestion
  <2>4. ~(AttemptsCounter = 0 /\ AttemptsCounter' < 0)
    BY <2>1
  <2> QED BY <2>1, <2>2, <2>3, <2>4
<1>2. CASE TapFull
  BY <1>2 DEF TapFull, Points
<1>3. CASE TapWrong
  BY <1>3 DEF TapWrong, LoseAttempt, PresentTotalScreen, OutOfAttempts
<1> QED BY <1>1, <1>2, <1>3 DEF answerSelected

LEMMA TimerRules ==
  ASSUME TypeOK, timerClass
  PROVE  /\ AttemptsOn /\ AttemptsCounter = 0 /\ AttemptsCounter' < 0 => totalRequested'
         /\ questionNumber = LastQuestion /\ questionNumber' = 0 /\ counter < MaxScore
              => totalRequested'
         /\ counter' = counter
<1> USE QuizAssumption DEF TypeOK, Questions
<1>1. CASE Timeout
  BY <1>1 DEF Timeout, LoseAttempt, PresentTotalScreen, OutOfAttempts
<1>2. CASE UNCHANGED <<gameVars, laterVars>>
  BY <1>2 DEF gameVars
<1> QED BY <1>1, <1>2 DEF timerClass

\* The other steps lose no attempt and win no point, and none but restart goes
\* from the last question to the first.
LEMMA OtherRules ==
  ASSUME TypeOK,
         SayOther \/ OpenCamera \/ CancelCamera \/ recognizeText \/ ShowAnswer \/ SkipQuestion
            \/ OpenIntro \/ OpenQuiz \/ LeaveResults \/ Pause \/ Resume \/ restart \/ exit
            \/ updateUI \/ ShowTotalScreen \/ GoToStart \/ ExitToMenu
  PROVE  /\ UNCHANGED <<counter, AttemptsCounter>>
         /\ questionNumber = LastQuestion /\ questionNumber' = 0 => restart
<1>1. UNCHANGED <<counter, AttemptsCounter>>
  BY OtherStepsOffBooks DEF OffBooks
<1>2. CASE SkipQuestion
  BY <1>1, <1>2 DEF SkipQuestion, TypeOK, Questions
<1>3. CASE updateUI \/ OpenQuiz
  BY <1>1, <1>3, QuizAssumption DEF updateUI, OpenQuiz, gameVars
<1>4. CASE ShowAnswer
  BY <1>1, <1>4, QuizAssumption DEF ShowAnswer, gameVars
<1>5. CASE restart
  BY <1>1, <1>5
<1>6. CASE SayOther \/ OpenCamera \/ CancelCamera \/ recognizeText \/ ShowTotalScreen
            \/ OpenIntro \/ LeaveResults \/ Pause \/ Resume \/ exit \/ GoToStart \/ ExitToMenu
  BY <1>1, <1>6, QuietSteps, QuizAssumption DEF LeavesDrawing
<1> QED BY <1>2, <1>3, <1>4, <1>5, <1>6

LEMMA StepRules ==
  ASSUME TypeOK, [Next]_vars
  PROVE  /\ AttemptsOn /\ AttemptsCounter = 0 /\ AttemptsCounter' < 0 => totalRequested'
         /\ questionNumber = LastQuestion /\ questionNumber' = 0 /\ counter < MaxScore /\ ~restart
              => totalRequested'
         /\ counter' # counter => questionNumber' # questionNumber /\ UNCHANGED AttemptsCounter
<1>1. CASE answerSelected BY <1>1, TapRules
<1>2. CASE AdvancedSpeechRecognition
  <2>1. PICK text \in Choices[questionNumber] : Judge(text)
    BY <1>2 DEF AdvancedSpeechRecognition
  <2> QED BY <2>1, JudgeRules
<1>3. CASE CheckPhotoAnswer
  BY <1>3, JudgeRules DEF CheckPhotoAnswer
<1>4. CASE timerClass BY <1>4, TimerRules
<1>5. CASE SayOther \/ OpenCamera \/ CancelCamera \/ recognizeText \/ ShowAnswer \/ SkipQuestion
            \/ OpenIntro \/ OpenQuiz \/ LeaveResults \/ Pause \/ Resume \/ restart \/ exit
            \/ updateUI \/ ShowTotalScreen \/ GoToStart \/ ExitToMenu
  <2>1. /\ UNCHANGED <<counter, AttemptsCounter>>
        /\ questionNumber = LastQuestion /\ questionNumber' = 0 => restart
    BY <1>5, OtherRules
  <2> QED BY <2>1
<1>6. CASE UNCHANGED vars
  BY <1>6, QuizAssumption DEF vars, gameVars
<1> QED
  BY <1>1, <1>2, <1>3, <1>4, <1>5, <1>6 DEF Next, Player, Callback

\* Whichever handler takes the attempt below zero asks for the results screen.
THEOREM AttemptsAlwaysRespected == Spec => AttemptsRespected
<1>1. TypeOK /\ [Next]_vars
        => [AttemptsOn /\ AttemptsCounter = 0 /\ AttemptsCounter' < 0 => totalRequested']_vars
  BY StepRules
<1> QED BY <1>1, TypeCorrect, PTL DEF Spec, AttemptsRespected

\* While points can still be won, only restart goes from the last question to
\* the first without asking for the results screen.
THEOREM LastQuestionAlwaysEnds == Spec => LastQuestionEnds
<1>1. TypeOK /\ [Next]_vars
        => [questionNumber = LastQuestion /\ questionNumber' = 0 /\ counter < MaxScore /\ ~restart
               => totalRequested']_vars
  BY StepRules
<1> QED BY <1>1, TypeCorrect, PTL DEF Spec, LastQuestionEnds

\* Points are won only by a step that leaves the question.
THEOREM CreditAlwaysMovesOn == Spec => CreditMovesOn
<1>1. TypeOK /\ [Next]_vars
        => [counter' # counter => /\ questionNumber' # questionNumber
                                  /\ UNCHANGED AttemptsCounter]_vars
  BY StepRules
<1> QED BY <1>1, TypeCorrect, PTL DEF Spec, CreditMovesOn

\* Only the timer counts down; every other step leaves the seconds or resets them.
LEMMA SecondsStep ==
  ASSUME TypeOK, [Next]_vars
  PROVE  timerClass \/ seconds' = seconds \/ seconds' >= 2
<1> USE QuizAssumption DEF uiVars
<1>1. CASE answerSelected
  <2>1. CASE TapRight \/ TapWrong
    BY <2>1 DEF TapRight, TapWrong, RestartTimer
  <2>2. CASE TapFull
    BY <2>2 DEF TapFull
  <2> QED BY <1>1, <2>1, <2>2 DEF answerSelected
<1>2. CASE AdvancedSpeechRecognition \/ CheckPhotoAnswer \/ SayOther
  BY <1>2 DEF AdvancedSpeechRecognition, CheckPhotoAnswer, SayOther
<1>3. CASE OpenCamera \/ CancelCamera \/ recognizeText \/ ShowTotalScreen \/ ShowAnswer
  BY <1>3 DEF OpenCamera, CancelCamera, recognizeText, ShowTotalScreen, ShowAnswer
<1>4. CASE SkipQuestion \/ updateUI \/ OpenQuiz
  BY <1>4 DEF SkipQuestion, updateUI, OpenQuiz, Redraw
<1>5. CASE OpenIntro \/ LeaveResults \/ Pause \/ Resume \/ exit \/ GoToStart \/ ExitToMenu \/ restart
  BY <1>5 DEF StayInGame, OpenIntro, LeaveResults, Pause, Resume, exit, GoToStart, ExitToMenu, restart
<1>6. CASE UNCHANGED vars
  BY <1>6 DEF vars
<1> QED
  BY <1>1, <1>2, <1>3, <1>4, <1>5, <1>6 DEF Next, Player, Callback

\* The time never runs out on a question that is not drawn, but for a redraw
\* left pending by an answer that did not restart the timer, or a restart.
THEOREM TimeoutAlwaysOnShown == Spec => TimeoutOnlyOnShown
<1>1. TypeOK /\ DisplayInv /\ [Next]_vars
        => [seconds = 1 /\ seconds' = 0 =>
               shown = questionNumber \/ updateLoose > 0 \/ questionNumber = 0]_vars
  <2> SUFFICES ASSUME TypeOK, DisplayInv, [Next]_vars, seconds = 1, seconds' = 0
               PROVE  shown = questionNumber \/ updateLoose > 0 \/ questionNumber = 0
    OBVIOUS
  <2>1. timerClass
    BY SecondsStep
  <2>2. ~(updateSoon > 0)
    BY <2>1 DEF timerClass
  <2> QED BY <2>2 DEF DisplayInv, DisplayFresh
<1> QED BY <1>1, TypeCorrect, DisplayInvariant, PTL DEF Spec, TimeoutOnlyOnShown

----------------------------------------------------------------------------
(* When the claims hold that the code breaks *)

\* The model's own score counts questions that were passed, so that it is out
\* of 100 on every question.
ScoreBehind == score <= Points * questionNumber

LEMMA ScoreStep ==
  ASSUME TypeOK, ScoreBehind, [Next]_vars, ~restart, counter < MaxScore
  PROVE  ScoreBehind'
<1> USE QuizAssumption DEF ScoreBehind, TypeOK, Questions, Points
<1>1. ASSUME UNCHANGED <<questionNumber, score>> PROVE ScoreBehind'
  BY <1>1
<1>2. ASSUME nextQuestion(Points) \/ nextQuestion(0) PROVE ScoreBehind'
  BY <1>2 DEF nextQuestion
<1>3. ASSUME NEW text, Judge(text) PROVE ScoreBehind'
  BY <1>1, <1>2, <1>3 DEF Judge, JudgeRight, JudgeFull, JudgeWrong, gameVars
<1>4. CASE answerSelected
  BY <1>2, <1>4 DEF answerSelected, TapRight, TapFull, TapWrong
<1>5. CASE AdvancedSpeechRecognition \/ CheckPhotoAnswer
  BY <1>3, <1>5 DEF AdvancedSpeechRecognition, CheckPhotoAnswer
<1>6. CASE SkipQuestion
  BY <1>6 DEF SkipQuestion
<1>7. CASE timerClass
  BY <1>1, <1>2, <1>7 DEF timerClass, Timeout, gameVars
<1>8. CASE SayOther \/ OpenCamera \/ CancelCamera \/ recognizeText \/ ShowAnswer \/ OpenIntro
            \/ OpenQuiz \/ LeaveResults \/ Pause \/ Resume \/ exit \/ updateUI \/ ShowTotalScreen
            \/ GoToStart \/ ExitToMenu
  <2>1. UNCHANGED gameVars
    BY <1>8 DEF SayOther, OpenCamera, CancelCamera, recognizeText, ShowAnswer, OpenIntro, OpenQuiz,
          LeaveResults, Pause, Resume, exit, updateUI, ShowTotalScreen, GoToStart, ExitToMenu,
          StayInGame
  <2> QED BY <1>1, <2>1 DEF gameVars
<1>9. CASE UNCHANGED vars
  BY <1>1, <1>9 DEF vars, gameVars
<1> QED BY <1>4, <1>5, <1>6, <1>7, <1>8, <1>9 DEF Next, Player, Callback

\* The pause screen's "score/100" is right as long as nobody restarts from the
\* pause screen, which keeps the score for a game that begins again, and the
\* score is not full, after which voice and photo answers go on adding to it.
THEOREM PauseScoreWithoutRestart ==
  Spec /\ [][~restart /\ counter < MaxScore]_vars => PauseScoreInRange
<1>1. Init => ScoreBehind
  BY DEF Init, ScoreBehind, Points
<1>2. TypeOK /\ ScoreBehind /\ [Next]_vars /\ [~restart /\ counter < MaxScore]_vars => ScoreBehind'
  <2>1. CASE UNCHANGED vars
    BY <2>1 DEF vars, gameVars, ScoreBehind
  <2> QED BY <2>1, ScoreStep
<1>3. TypeOK /\ ScoreBehind => [screen = "quiz" /\ screen' = "pause" => score <= MaxScore]_vars
  <2>1. TypeOK /\ ScoreBehind => score <= MaxScore
    BY QuizAssumption DEF TypeOK, ScoreBehind, Questions, Points
  <2> QED BY <2>1
<1> QED BY <1>1, <1>2, <1>3, TypeCorrect, PTL DEF Spec, PauseScoreInRange

\* A category's games give nothing back: no restart takes points away or
\* returns attempts and hints, because all of them share one view model.  A game
\* "restarted" after points were won is never a fresh one.
NothingGivenBack ==
  [][counter' >= counter /\ AttemptsCounter' <= AttemptsCounter
        /\ AnswersCounter' <= AnswersCounter]_vars

LEMMA SpendingStep ==
  ASSUME TypeOK, [Next]_vars
  PROVE  counter' >= counter /\ AttemptsCounter' <= AttemptsCounter /\ AnswersCounter' <= AnswersCounter
<1> USE DEF TypeOK
<1>1. AnswersCounter' <= AnswersCounter
  <2>1. UNCHANGED AnswersCounter \/ ShowAnswer
    BY DEF Next, Player, Callback, vars, answerSelected, AdvancedSpeechRecognition, SayOther,
           OpenCamera, CancelCamera, recognizeText, CheckPhotoAnswer, SkipQuestion, timerClass,
           updateUI, ShowTotalScreen, StayInGame, OpenIntro, OpenQuiz, LeaveResults, Pause, Resume,
           restart, exit, GoToStart, ExitToMenu
  <2> QED BY <2>1, QuizAssumption DEF ShowAnswer
<1>2. counter' >= counter /\ AttemptsCounter' <= AttemptsCounter
  <2>1. CASE Ledger!Next
    BY <2>1 DEF Ledger!Next, Ledger!Win, Ledger!Lose, Ledger!Expire, Ledger!SaveAgain, Points
  <2>2. CASE UNCHANGED Ledger!books
    BY <2>2 DEF Ledger!books
  <2> QED BY <2>1, <2>2, LedgerStep
<1> QED BY <1>1, <1>2

THEOREM NothingEverGivenBack == Spec => NothingGivenBack
<1>1. TypeOK /\ [Next]_vars
        => [counter' >= counter /\ AttemptsCounter' <= AttemptsCounter
               /\ AnswersCounter' <= AnswersCounter]_vars
  BY SpendingStep
<1> QED BY <1>1, TypeCorrect, PTL DEF Spec, NothingGivenBack
=============================================================================
