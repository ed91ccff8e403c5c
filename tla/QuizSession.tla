----------------------------- MODULE QuizSession -----------------------------
(***************************************************************************)
(* One quiz category of iQuiz X as it is played: the view model            *)
(* QuizBaseViewModel, which is a static object shared by every game of the *)
(* category, and the screens that show it.  A player answers by touching a *)
(* button, by voice or by photographing a written number; a one-second     *)
(* timer, delayed redraws, a delayed photo check and delayed screen        *)
(* changes run in between.  All of this runs on the main thread, one       *)
(* callback at a time, so each handler is one action; what interleaves is  *)
(* the callbacks that handlers schedule for later.                         *)
(*                                                                         *)
(* Delays are abstracted to their order: a scheduled callback may run at   *)
(* any later time, except where the code's own delays fix the order (a     *)
(* redraw 0.2 s after the timer was restarted, or 0.1 s after it fired,    *)
(* runs before the timer fires again).                                     *)
(***************************************************************************)
EXTENDS Integers

CONSTANTS
    LastQuestion,   \* index of the last question: the literal 19 of the code
    Choices,        \* Choices[q]: the answers offered by question q
    Answer,         \* Answer[q]: the right one
    Limit,          \* seconds given to a question (60, 30 or 15 in the code)
    MaxScore,       \* the literal 100 of the code
    InitAttempts,   \* wrong answers and timeouts a fresh view model allows: 5
    InitHints,      \* hints a fresh view model holds: 5
    TimerOn,        \* the setting "onstatustimer"
    AttemptsOn,     \* the setting "onstatusattempts"
    Inputs,         \* the ways of answering the player uses
    NoText,         \* the empty string: a blanked button, no recognised answer
    NoSave,         \* nothing saved yet by this view model
    MaxGames,       \* bound: quiz screens opened
    MaxScheduled,   \* bound: redraws of one kind scheduled at once
    MaxOverdraft,   \* bound: how far AttemptsCounter is followed below zero
    MaxShownScore   \* bound: how far score is followed past MaxScore

Questions == 0..LastQuestion

Points == 5

ASSUME QuizAssumption ==
    /\ LastQuestion \in Nat \ {0}
    /\ MaxScore = Points * (LastQuestion + 1)
    /\ InitAttempts \in Nat /\ InitHints \in Nat
    /\ Limit \in Nat /\ Limit >= 3
    /\ TimerOn \in BOOLEAN /\ AttemptsOn \in BOOLEAN
    /\ Inputs \subseteq {"touch", "voice", "camera"}
    /\ \A q \in Questions : Answer[q] \in Choices[q] /\ NoText \notin Choices[q]
    /\ NoSave \notin [counter : Int, correct : Int, incorrect : Int]
    /\ MaxGames \in Nat /\ MaxScheduled \in Nat
    /\ MaxOverdraft \in Nat \ {0} /\ MaxShownScore \in Nat

VARIABLES
    screen,                     \* the window's root, or what is presented on it
    nav,                        \* delayed screen changes not yet run
    games,                      \* quiz screens opened so far
    questionNumber, score,      \* the question asked, and the model's own score
    counter,                    \* the score shown on the quiz screen and saved
    CorrectAnswersCounter, UnCorrectAnswersCounter,
    AttemptsCounter, AnswersCounter,
    check2,                     \* the answer last recognised (voice or photo)
    photoCheck,                 \* a CheckPhotoAnswer is scheduled
    shown, titles,              \* question drawn, and texts on its buttons
    seconds, timer,             \* seconds left, and whether the timer is valid
    updateSoon, updateLoose,    \* redraws due before the next tick / any time
    totalRequested,             \* the results screen is queued on the main queue
    saved                       \* the game as last written to the cloud

gameVars == <<questionNumber, score, counter, CorrectAnswersCounter,
              UnCorrectAnswersCounter, AttemptsCounter, saved>>
uiVars == <<shown, titles, seconds, timer>>
laterVars == <<updateSoon, updateLoose, totalRequested>>
flowVars == <<screen, nav, games>>
vars == <<flowVars, gameVars, AnswersCounter, check2, photoCheck, uiVars, laterVars>>

Screens == {"menu", "intro", "quiz", "pause", "camera", "results"}
Saves == [counter : Int, correct : Int, incorrect : Int]

\* Mutant of QuizInWindow: the results find the quiz only when nothing covers it.
QuizOnTop == screen = "quiz"

\* A navigation block or the results block finds a window only while the quiz
\* is on screen; the pause sheet leaves it there, the camera covers it.
QuizInWindow == screen \in {"quiz", "pause"}

\* What the pause sheet schedules finds no window once the sheet is gone.
OfPauseSheet == {"restart", "exit"}

Blanked == titles # Choices[shown]

----------------------------------------------------------------------------
(* Pieces shared by the handlers *)

Init ==
    /\ screen = "menu" /\ nav = {} /\ games = 0
    /\ questionNumber = 0 /\ score = 0 /\ counter = 0
    /\ CorrectAnswersCounter = 0 /\ UnCorrectAnswersCounter = 0
    /\ AttemptsCounter = InitAttempts /\ AnswersCounter = InitHints
    /\ check2 = NoText /\ photoCheck = FALSE
    /\ shown = 0 /\ titles = Choices[0] /\ seconds = 0 /\ timer = FALSE
    /\ updateSoon = 0 /\ updateLoose = 0 /\ totalRequested = FALSE
    /\ saved = NoSave

\* Mutant of nextQuestion: the index runs past the last question.
nextQuestionUnbounded(gain) == questionNumber' = questionNumber + 1 /\ score' = score + gain

nextQuestion(gain) ==
    /\ questionNumber' = IF questionNumber = LastQuestion THEN 0 ELSE questionNumber + 1
    /\ score' = IF questionNumber = LastQuestion THEN 0 ELSE score + gain

\* Mutant of PresentTotalScreen: nothing is asked for while the quiz is covered.
PresentTotalScreenOnTop(asked) ==
    totalRequested' = (totalRequested \/ (asked /\ screen = "quiz"))

PresentTotalScreen(asked) == totalRequested' = (totalRequested \/ asked)

\* Mutant of write: saved before the answer is counted.
writeBefore == saved' = [counter |-> counter, correct |-> CorrectAnswersCounter,
                         incorrect |-> UnCorrectAnswersCounter]

write == saved' = [counter |-> counter', correct |-> CorrectAnswersCounter',
                   incorrect |-> UnCorrectAnswersCounter']

\* Mutant of OutOfAttempts: off by one.
OutOfAttemptsLate == AttemptsCounter < 0 /\ AttemptsOn

\* The check made where an attempt is lost, before the attempt is taken.
OutOfAttempts == AttemptsCounter = 0 /\ AttemptsOn

\* Mutant of LoseAttempt: the counter is clamped at zero.
LoseAttemptClamped ==
    AttemptsCounter' = IF AttemptsCounter > 0 THEN AttemptsCounter - 1 ELSE AttemptsCounter

LoseAttempt ==
    /\ AttemptsCounter > -MaxOverdraft
    /\ AttemptsCounter' = AttemptsCounter - 1

Credit ==
    /\ counter' = counter + Points
    /\ CorrectAnswersCounter' = CorrectAnswersCounter + 1
    /\ UNCHANGED <<UnCorrectAnswersCounter, AttemptsCounter>>

ScheduleSoon ==
    /\ updateSoon < MaxScheduled /\ updateSoon' = updateSoon + 1
    /\ UNCHANGED updateLoose

ScheduleLoose ==
    /\ updateLoose < MaxScheduled /\ updateLoose' = updateLoose + 1
    /\ UNCHANGED updateSoon

\* Mutant of Redraw: blanked buttons are not restored.
RedrawKeepingBlanks(q) == shown' = q /\ UNCHANGED titles /\ seconds' = Limit

Redraw(q) == shown' = q /\ titles' = Choices[q] /\ seconds' = Limit

\* timer.invalidate, level, one call of timerClass, startTimer.
RestartTimer == seconds' = Limit - 1 /\ timer' = TRUE

----------------------------------------------------------------------------
(* Answering by touch *)

TapRight ==
    /\ counter < MaxScore
    /\ Credit /\ RestartTimer
    /\ PresentTotalScreen(questionNumber = LastQuestion)
    /\ nextQuestion(Points) /\ ScheduleSoon

\* Mutant of TapWrong: the redraw is forgotten.
TapWrongUndrawn ==
    /\ RestartTimer /\ LoseAttempt
    /\ UnCorrectAnswersCounter' = UnCorrectAnswersCounter + 1
    /\ PresentTotalScreen(questionNumber = LastQuestion \/ OutOfAttempts)
    /\ nextQuestion(0)
    /\ UNCHANGED <<counter, CorrectAnswersCounter, updateSoon, updateLoose>>

TapWrong ==
    /\ RestartTimer /\ LoseAttempt
    /\ UnCorrectAnswersCounter' = UnCorrectAnswersCounter + 1
    /\ PresentTotalScreen(questionNumber = LastQuestion \/ OutOfAttempts)
    /\ nextQuestion(0) /\ ScheduleSoon
    /\ UNCHANGED <<counter, CorrectAnswersCounter>>

\* A right answer once the score is full: neither branch of the handler runs.
TapFull ==
    /\ counter >= MaxScore /\ score <= MaxShownScore
    /\ nextQuestion(Points) /\ ScheduleLoose
    /\ UNCHANGED <<counter, CorrectAnswersCounter, UnCorrectAnswersCounter,
                   AttemptsCounter, seconds, timer, totalRequested>>

answerSelected ==
    /\ screen = "quiz" /\ "touch" \in Inputs
    /\ \E title \in titles \cup (IF Blanked THEN {NoText} ELSE {}) :
          IF title = Answer[questionNumber] THEN TapRight \/ TapFull ELSE TapWrong
    /\ write
    /\ UNCHANGED <<flowVars, AnswersCounter, check2, photoCheck, shown, titles>>

----------------------------------------------------------------------------
(* Answering by voice and by photograph: the answer is check2 *)

\* Mutants of JudgeRight: the guard on a full score is dropped; the question is kept.
JudgeRightUnguarded ==
    /\ Credit /\ write
    /\ PresentTotalScreen(questionNumber = LastQuestion)
    /\ nextQuestion(Points) /\ ScheduleLoose

JudgeRightStaying ==
    /\ counter < MaxScore
    /\ Credit /\ write
    /\ PresentTotalScreen(questionNumber = LastQuestion)
    /\ UNCHANGED questionNumber /\ score' = score + Points /\ ScheduleLoose

JudgeRight ==
    /\ counter < MaxScore
    /\ Credit /\ write
    /\ PresentTotalScreen(questionNumber = LastQuestion)
    /\ nextQuestion(Points) /\ ScheduleLoose

JudgeWrong ==
    /\ LoseAttempt
    /\ PresentTotalScreen(questionNumber = LastQuestion \/ OutOfAttempts)
    /\ UNCHANGED <<questionNumber, score, counter, CorrectAnswersCounter,
                   UnCorrectAnswersCounter>>
    /\ ScheduleLoose /\ write

\* A right answer once the score is full: checkAnswer has already added to score.
JudgeFull ==
    /\ counter >= MaxScore /\ score <= MaxShownScore
    /\ score' = score + Points
    /\ UNCHANGED <<questionNumber, counter, CorrectAnswersCounter,
                   UnCorrectAnswersCounter, AttemptsCounter, saved, laterVars>>

Judge(text) ==
    IF text = NoText THEN UNCHANGED <<gameVars, laterVars>>
    ELSE IF text = Answer[questionNumber] THEN JudgeRight \/ JudgeFull
    ELSE JudgeWrong

\* The microphone is closed when the quiz disappears, but an answer or a command
\* given just before reopens it 1.5 s later: once a quiz has been opened the view
\* model can hear on every screen.  (MediaSession has when it does.)
Listening == "voice" \in Inputs /\ games > 0

\* "one", "two", "three", "random": a choice of the current question.
AdvancedSpeechRecognition ==
    /\ Listening
    /\ \E text \in Choices[questionNumber] : check2' = text /\ Judge(text)
    /\ UNCHANGED <<flowVars, AnswersCounter, photoCheck, uiVars>>

\* Words that name no command, and commands with nothing to do here (read the
\* question or the score aloud), leave an empty answer, which is not judged.
SayOther ==
    /\ Listening
    /\ check2' = NoText
    /\ UNCHANGED <<flowVars, gameVars, AnswersCounter, photoCheck, uiVars, laterVars>>

OpenCamera ==
    /\ screen = "quiz" /\ "camera" \in Inputs
    /\ screen' = "camera"
    /\ check2' \in {check2} \cup (IF Listening THEN {NoText} ELSE {})
    /\ UNCHANGED <<nav, games, gameVars, AnswersCounter, photoCheck, uiVars, laterVars>>

CancelCamera ==
    /\ screen = "camera" /\ screen' = "quiz"
    /\ UNCHANGED <<nav, games, gameVars, AnswersCounter, check2, photoCheck, uiVars, laterVars>>

\* A number is read as a choice of the current question, other text as none;
\* when recognition fails check2 keeps what it held.
recognizeText ==
    /\ screen = "camera" /\ ~photoCheck
    /\ screen' = "quiz" /\ photoCheck' = TRUE
    /\ check2' \in Choices[questionNumber] \cup {NoText, check2}
    /\ UNCHANGED <<nav, games, gameVars, AnswersCounter, uiVars, laterVars>>

CheckPhotoAnswer ==
    /\ photoCheck /\ photoCheck' = FALSE
    /\ Judge(check2)
    /\ UNCHANGED <<flowVars, AnswersCounter, check2, uiVars>>

----------------------------------------------------------------------------
(* Hints, skipping, the timer, redraws, the results screen *)

\* By the button or by voice; the voice command also empties check2.
Asked == \/ screen = "quiz" /\ UNCHANGED check2
         \/ Listening /\ check2' = NoText

ShowAnswer ==
    /\ Asked /\ AnswersCounter > 0 /\ ~Blanked
    /\ AnswersCounter' = AnswersCounter - 1
    /\ titles' = titles \cap {Answer[questionNumber]}
    /\ UNCHANGED <<flowVars, gameVars, photoCheck, shown, seconds, timer, laterVars>>

SkipQuestion ==
    /\ Asked /\ questionNumber < LastQuestion
    /\ questionNumber' = questionNumber + 1
    /\ Redraw(questionNumber')
    /\ UNCHANGED <<flowVars, score, counter, CorrectAnswersCounter, UnCorrectAnswersCounter,
                   AttemptsCounter, saved, AnswersCounter, photoCheck, timer, laterVars>>

\* Mutants of Timeout: the redraw is forgotten; a wrong answer is counted too.
TimeoutUndrawn ==
    /\ LoseAttempt
    /\ PresentTotalScreen(questionNumber = LastQuestion \/ OutOfAttempts)
    /\ nextQuestion(0)
    /\ UNCHANGED <<counter, CorrectAnswersCounter, UnCorrectAnswersCounter, saved,
                   updateSoon, updateLoose>>

TimeoutCounted ==
    /\ LoseAttempt
    /\ UnCorrectAnswersCounter' = UnCorrectAnswersCounter + 1
    /\ PresentTotalScreen(questionNumber = LastQuestion \/ OutOfAttempts)
    /\ nextQuestion(0) /\ ScheduleSoon
    /\ UNCHANGED <<counter, CorrectAnswersCounter, saved>>

Timeout ==
    /\ LoseAttempt
    /\ PresentTotalScreen(questionNumber = LastQuestion \/ OutOfAttempts)
    /\ nextQuestion(0) /\ ScheduleSoon
    /\ UNCHANGED <<counter, CorrectAnswersCounter, UnCorrectAnswersCounter, saved>>

timerClass ==
    /\ timer /\ updateSoon = 0
    /\ seconds' = seconds - 1 /\ timer' = TimerOn
    /\ IF seconds = 1 THEN Timeout ELSE UNCHANGED <<gameVars, laterVars>>
    /\ UNCHANGED <<flowVars, AnswersCounter, check2, photoCheck, shown, titles>>

updateUI ==
    /\ \/ updateSoon > 0 /\ updateSoon' = updateSoon - 1 /\ UNCHANGED updateLoose
       \/ updateLoose > 0 /\ updateLoose' = updateLoose - 1 /\ UNCHANGED updateSoon
    /\ Redraw(questionNumber)
    /\ UNCHANGED <<flowVars, gameVars, AnswersCounter, check2, photoCheck, timer, totalRequested>>

ShowTotalScreen ==
    /\ totalRequested /\ totalRequested' = FALSE
    /\ \/ QuizInWindow /\ screen' = "results" /\ nav' = nav \ OfPauseSheet
       \/ ~QuizInWindow /\ UNCHANGED <<screen, nav>>
    /\ UNCHANGED <<games, gameVars, AnswersCounter, check2, photoCheck, uiVars,
                   updateSoon, updateLoose>>

----------------------------------------------------------------------------
(* Moving between screens *)

StayInGame == UNCHANGED <<games, gameVars, AnswersCounter, photoCheck, uiVars, laterVars>>

OpenIntro ==
    /\ screen = "menu" /\ games < MaxGames
    /\ screen' = "intro" /\ UNCHANGED <<nav, check2>> /\ StayInGame

\* viewDidLoad of the quiz screen, reached from the intro or by the results
\* screen's restart, which finds the category by the saved game.
OpenQuiz ==
    /\ games < MaxGames
    /\ screen = "intro" \/ (screen = "results" /\ saved # NoSave)
    /\ screen' = "quiz" /\ games' = games + 1
    /\ Redraw(questionNumber) /\ timer' = TRUE
    /\ UNCHANGED <<nav, gameVars, AnswersCounter, check2, photoCheck, laterVars>>

LeaveResults ==
    /\ screen = "results" /\ screen' = "menu"
    /\ UNCHANGED <<nav, check2>> /\ StayInGame

Pause ==
    /\ screen = "quiz" /\ screen' = "pause"
    /\ UNCHANGED <<nav, check2>> /\ StayInGame

\* The sheet is swiped away.
Resume ==
    /\ screen = "pause" /\ screen' = "quiz"
    /\ nav' = nav \ OfPauseSheet
    /\ UNCHANGED check2 /\ StayInGame

restart ==
    /\ screen = "pause" /\ nav' = nav \cup {"restart"}
    /\ questionNumber' = 0
    /\ UNCHANGED <<screen, games, score, counter, CorrectAnswersCounter, UnCorrectAnswersCounter,
                   AttemptsCounter, saved, AnswersCounter, check2, photoCheck, uiVars, laterVars>>

exit ==
    /\ \/ screen = "pause" /\ nav' = nav \cup {"exit"} /\ UNCHANGED check2
       \/ Listening /\ nav' = nav \cup {"quizExit"} /\ check2' = NoText
    /\ UNCHANGED screen /\ StayInGame

GoToStart ==
    /\ "restart" \in nav /\ nav' = nav \ OfPauseSheet
    /\ screen' = "intro"
    /\ UNCHANGED check2 /\ StayInGame

ExitToMenu ==
    /\ \/ "exit" \in nav /\ nav' = nav \ OfPauseSheet /\ screen' = "menu"
       \/ /\ "quizExit" \in nav
          /\ IF QuizInWindow THEN screen' = "menu" /\ nav' = nav \ (OfPauseSheet \cup {"quizExit"})
             ELSE UNCHANGED screen /\ nav' = nav \ {"quizExit"}
    /\ UNCHANGED check2 /\ StayInGame

----------------------------------------------------------------------------

Player ==
    \/ answerSelected \/ AdvancedSpeechRecognition \/ SayOther
    \/ OpenCamera \/ CancelCamera \/ recognizeText
    \/ ShowAnswer \/ SkipQuestion
    \/ OpenIntro \/ OpenQuiz \/ LeaveResults
    \/ Pause \/ Resume \/ restart \/ exit

Callback ==
    \/ CheckPhotoAnswer \/ timerClass \/ updateUI \/ ShowTotalScreen
    \/ GoToStart \/ ExitToMenu

Next == Player \/ Callback

Spec == Init /\ [][Next]_vars

\* The run loop runs every callback that is due; the player is free to stop.
FairSpec ==
    /\ Spec
    /\ WF_vars(timerClass) /\ WF_vars(updateUI) /\ WF_vars(ShowTotalScreen)
    /\ WF_vars(CheckPhotoAnswer) /\ WF_vars(GoToStart) /\ WF_vars(ExitToMenu)

----------------------------------------------------------------------------
(* Properties *)

Ledger == INSTANCE GameLedger WITH
    correct <- CorrectAnswersCounter, incorrect <- UnCorrectAnswersCounter,
    attempts <- AttemptsCounter

\* The quiz keeps the books GameLedger promises: no interleaving of answers,
\* timeouts, redraws and screen changes moves them in any other way.
KeepsLedger == Ledger!Spec

\* Every variable has its type; in particular the question number never
\* leaves the range of questions(), which checkAnswer and updateUI index, and
\* what the pause sheet scheduled never outlives it.
TypeOK ==
    /\ nav \cap OfPauseSheet # {} => screen = "pause"
    /\ screen \in Screens /\ nav \subseteq OfPauseSheet \cup {"quizExit"} /\ games \in Nat
    /\ questionNumber \in Questions /\ score \in Nat /\ counter \in Nat
    /\ CorrectAnswersCounter \in Nat /\ UnCorrectAnswersCounter \in Nat
    /\ AttemptsCounter \in Int /\ AnswersCounter \in 0..InitHints
    /\ photoCheck \in BOOLEAN /\ shown \in Questions
    /\ seconds \in Int /\ timer \in BOOLEAN
    /\ updateSoon \in Nat /\ updateLoose \in Nat /\ totalRequested \in BOOLEAN
    /\ saved \in Saves \cup {NoSave}

\* The score shown is five points for each right answer, whichever way it was
\* given, and never passes 100 however many games the view model lives through.
ScoreConsistent ==
    /\ counter = Points * CorrectAnswersCounter
    /\ counter <= MaxScore

\* No wrong touch is free: each one counted took an attempt (answerSelected is
\* the only handler that counts one, four handlers take attempts).
WrongAnswersPaid == UnCorrectAnswersCounter + AttemptsCounter <= InitAttempts

\* What was last written to the cloud is the game as it stands, so the results
\* screen and the category list never show an older score of this game.
SavedMatchesGame ==
    saved # NoSave => saved = [counter |-> counter, correct |-> CorrectAnswersCounter,
                               incorrect |-> UnCorrectAnswersCounter]

\* When the question drawn is not the question asked, a redraw is on its way;
\* the exception is the restart of the pause screen, which goes back to the
\* first question without redrawing.
DisplayFresh ==
    shown # questionNumber => updateSoon > 0 \/ updateLoose > 0 \/ questionNumber = 0

\* Once the redraws have run, the buttons still offer the right answer of the
\* question drawn, whatever hints were used while they were pending.
HintKeepsAnswer ==
    updateSoon = 0 /\ updateLoose = 0 /\ shown = questionNumber => Answer[questionNumber] \in titles

\* The step that takes the attempt below zero asks for the results screen:
\* touch, voice, photo and timeout all end the game at the same point.
AttemptsRespected ==
    [][AttemptsOn /\ AttemptsCounter = 0 /\ AttemptsCounter' < 0 => totalRequested']_vars

\* While points can still be won, the quiz never runs over from the last
\* question to the first without asking for the results screen (the pause
\* screen's restart goes back to the first question on purpose).
LastQuestionEnds ==
    [][questionNumber = LastQuestion /\ questionNumber' = 0 /\ counter < MaxScore /\ ~restart
          => totalRequested']_vars

\* Points are won only by a step that leaves the question: no question is
\* credited again by a late voice or photo answer while it is still asked.
CreditMovesOn ==
    [][counter' # counter => /\ questionNumber' # questionNumber
                             /\ UNCHANGED AttemptsCounter]_vars

\* The time never runs out on a question that is not drawn yet, unless a voice,
\* photo or full-score answer (which do not restart the timer) left its redraw
\* pending or the pause screen restarted the quiz.
TimeoutOnlyOnShown ==
    [][seconds = 1 /\ seconds' = 0 =>
          shown = questionNumber \/ updateLoose > 0 \/ questionNumber = 0]_vars

\* With the timer and the attempts on, the first game leaves the quiz screen
\* whatever the player does or fails to do, unless restart is pressed on the
\* pause screen at some time (a restarted quiz can be kept going for ever).
FirstGameEnds ==
    []("restart" \notin nav) =>
        ((games = 1 /\ screen = "quiz") ~> screen \notin {"quiz", "pause", "camera"})

\* The pause screen is opened with a score out of 100 ("score/100").
PauseScoreInRange ==
    [][screen = "quiz" /\ screen' = "pause" => score <= MaxScore]_vars

\* A restarted game begins with no points (the results screen's restart is
\* commented "restart the quiz").
RestartIsFresh == [][games' > games /\ screen = "results" => counter' = 0]_vars
=============================================================================
