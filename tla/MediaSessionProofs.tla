-------------------------- MODULE MediaSessionProofs --------------------------
(***************************************************************************)
(* Theorems about MediaSession.  MicInv and SoundInv strengthen the        *)
(* invariants of the microphone and of the theme to inductive ones.        *)
(***************************************************************************)
EXTENDS MediaSession, TLAPS

\* The parts of TypeOK.
ScreenType ==
    /\ screen \in {"off", "menu", "quiz", "paused", "camera"} /\ crashed \in BOOLEAN
    /\ late \in BOOLEAN /\ audio \in BOOLEAN

CountType ==
    /\ starts \in Nat /\ closes \in Nat /\ heard \in Nat /\ photos \in Nat
    /\ themes \in Nat /\ totals \in Nat /\ exits \in Nat

BoolType ==
    /\ tap \in BOOLEAN /\ hasty \in BOOLEAN /\ muted \in BOOLEAN /\ pictured \in BOOLEAN
    /\ isPlaying \in BOOLEAN /\ asked \in BOOLEAN /\ stray \in BOOLEAN /\ leaving \in BOOLEAN

SoundType == status \in [Checked -> BOOLEAN] /\ sound \in {"none", "theme", "effect"}

LEMMA TypeParts ==
    TypeOK <=> SettingsTypeOK /\ ScreenType /\ CountType /\ BoolType /\ SoundType
BY DEF TypeOK, ScreenType, CountType, BoolType, SoundType

LEMMA InitType == Init => TypeOK
<1> SUFFICES ASSUME Init PROVE TypeOK
  OBVIOUS
<1>1. SettingsTypeOK
  BY DEF Init, SettingsInit, SettingsTypeOK
<1>2. ScreenType
  BY DEF Init, ScreenType
<1>3. CountType
  BY DEF Init, CountType
<1>4. BoolType
  BY DEF Init, BoolType
<1>5. SoundType
  BY DEF Init, SoundType
<1> QED BY <1>1, <1>2, <1>3, <1>4, <1>5, TypeParts

LEMMA SettingsStep == SettingsTypeOK /\ [Next]_vars => SettingsTypeOK'
<1> SUFFICES ASSUME SettingsTypeOK, [Next]_vars PROVE SettingsTypeOK'
  OBVIOUS
<1>1. CASE UNCHANGED settings
  BY <1>1 DEF settings, SettingsTypeOK
<1>2. CASE ChangeSettings
  <2>1. ASSUME NEW k \in Keys, switchAction(k) PROVE SettingsTypeOK'
    BY <2>1 DEF switchAction, SettingsTypeOK
  <2>2. CASE ResetSettings
    BY <2>2 DEF ResetSettings, SettingsTypeOK
  <2>3. CASE Register
    BY <2>3 DEF Register, SettingsTypeOK
  <2> QED BY <1>2, <2>1, <2>2, <2>3 DEF ChangeSettings
<1> QED BY <1>1, <1>2 DEF Next, vars, Block, Player, Restart, ClosePicker, CheckVoiceCommands,
      SayCommand, SayCamera, SayExit, SayNothing, Present, CheckPhotoAnswer, ThemeAgain,
      PresentTotalScreen, exit, LeaveSheet, Launch, OpenQuiz, answerSelected, ShowAnswer,
      OnOffSound, OpenCamera, CancelPicker, PickPhoto, Pause, Resume, PressRestart, PressExit,
      Quit, Crash, Hear, timerClass

LEMMA ScreenStep == TypeOK /\ [Next]_vars => ScreenType'
<1> SUFFICES ASSUME TypeOK, [Next]_vars PROVE ScreenType'
  OBVIOUS
<1>1. screen' \in {"off", "menu", "quiz", "paused", "camera"}
  BY TypeParts DEF ScreenType, Next, vars, Block, Player, Restart, ClosePicker,
      CheckVoiceCommands, SayCommand, SayCamera, SayExit, SayNothing, Present, CheckPhotoAnswer,
      ThemeAgain, PresentTotalScreen, exit, LeaveSheet, Launch, OpenQuiz, answerSelected,
      ShowAnswer, OnOffSound, OpenCamera, CancelPicker, PickPhoto, Pause, Resume, PressRestart,
      PressExit, ChangeSettings, Quit, Crash, Gone, Hear, timerClass
<1>2. crashed' \in BOOLEAN /\ late' \in BOOLEAN /\ audio' \in BOOLEAN
  BY KeysAssumption, TypeParts DEF ScreenType, SettingsTypeOK, flags, Next, vars, Block, Player,
      Restart, ClosePicker,
      CheckVoiceCommands, SayCommand, SayCamera, SayExit, SayNothing, Present, CheckPhotoAnswer,
      ThemeAgain, PresentTotalScreen, exit, LeaveSheet, Launch, OpenQuiz, answerSelected,
      ShowAnswer, OnOffSound, OpenCamera, CancelPicker, PickPhoto, Pause, Resume, PressRestart,
      PressExit, ChangeSettings, Quit, Crash, Gone, Hear, timerClass
<1> QED BY <1>1, <1>2 DEF ScreenType

LEMMA CountStep == TypeOK /\ [Next]_vars => CountType'
<1> SUFFICES ASSUME TypeOK, [Next]_vars PROVE CountType'
  OBVIOUS
<1>1. CASE UNCHANGED <<starts, closes, heard, photos, themes, totals, exits>>
  BY <1>1, TypeParts DEF CountType
<1>2. CASE Gone
  BY <1>2 DEF Gone, CountType
<1>3. ASSUME Judge PROVE themes' \in Nat /\ totals' \in Nat /\ exits' \in Nat
  BY <1>3, TypeParts DEF Judge, CountType
<1>4. ASSUME Hint PROVE themes' \in Nat
  BY <1>4, TypeParts DEF Hint, CountType, soundVars
<1>5. ASSUME Reschedule \/ Listening PROVE starts' \in Nat
  BY <1>5, TypeParts DEF Reschedule, Listening, CountType
<1>6. CASE Restart \/ Hear \/ ThemeAgain \/ ClosePicker \/ CancelPicker \/ PickPhoto
  BY <1>2, <1>6, TypeParts DEF Restart, Hear, ThemeAgain, quiztheme, ClosePicker, CancelPicker,
        PickPhoto, Crash, CountType, micVars, soundVars, wayVars
<1>7. CASE answerSelected \/ ShowAnswer
  BY <1>3, <1>4, <1>5, <1>7, TypeParts DEF answerSelected, ShowAnswer, CountType, micVars, wayVars
<1>8. CASE CheckVoiceCommands
  <2>1. heard' \in Nat
    BY <1>8, TypeParts DEF CheckVoiceCommands, CountType
  <2>2. CASE SayCommand
    BY <1>3, <1>4, <1>5, <2>1, <2>2, TypeParts DEF SayCommand, stopMusic, CountType, wayVars
  <2>3. CASE SayCamera \/ SayExit \/ SayNothing
    BY <2>1, <2>3, TypeParts DEF SayCamera, Present, SayExit, SayNothing, CountType, soundVars, wayVars
  <2> QED BY <1>8, <2>2, <2>3 DEF CheckVoiceCommands
<1>9. CASE CheckPhotoAnswer
  BY <1>3, <1>5, <1>9, TypeParts DEF CheckPhotoAnswer, CountType, soundVars, wayVars
<1>10. CASE PresentTotalScreen \/ exit \/ timerClass
  BY <1>10, TypeParts DEF PresentTotalScreen, exit, timerClass, CountType, micVars, soundVars
<1>11. CASE Launch \/ OpenQuiz \/ OnOffSound \/ OpenCamera \/ LeaveSheet \/ Pause \/ Resume
            \/ PressRestart \/ PressExit \/ ChangeSettings \/ Quit \/ UNCHANGED vars
  BY <1>1, <1>2, <1>11 DEF Launch, OpenQuiz, Crash, OnOffSound, stopMusic, OpenCamera, Present,
        LeaveSheet, Pause, Resume, PressRestart, PressExit, ChangeSettings, Quit, vars, micVars,
        soundVars, wayVars
<1> QED BY <1>6, <1>7, <1>8, <1>9, <1>10, <1>11 DEF Next, Block, Player

LEMMA BoolStep == TypeOK /\ [Next]_vars => BoolType'
<1> SUFFICES ASSUME TypeOK, [Next]_vars PROVE BoolType'
  OBVIOUS
<1> USE TypeParts
<1>1. tap' \in BOOLEAN /\ hasty' \in BOOLEAN
  BY DEF BoolType, micVars, startRecognize, cancelSpeechRecognition, Disappear, Reschedule, Listening,
      Pending, Next, vars, Block, Player, Restart,
      ClosePicker, CheckVoiceCommands, SayCommand, SayCamera, SayExit, SayNothing, Present,
      CheckPhotoAnswer, ThemeAgain, PresentTotalScreen, exit, LeaveSheet, Launch, OpenQuiz,
      answerSelected, ShowAnswer, OnOffSound, OpenCamera, CancelPicker, PickPhoto, Pause, Resume,
      PressRestart, PressExit, ChangeSettings, Quit, Crash, Gone, Hear, timerClass
<1>2. muted' \in BOOLEAN /\ pictured' \in BOOLEAN /\ leaving' \in BOOLEAN
  BY DEF BoolType, micVars, wayVars, Disappear, Reschedule, Listening, Judge, Next, vars, Block, Player, Restart,
      ClosePicker, CheckVoiceCommands, SayCommand, SayCamera, SayExit, SayNothing, Present,
      CheckPhotoAnswer, ThemeAgain, PresentTotalScreen, exit, LeaveSheet, Launch, OpenQuiz,
      answerSelected, ShowAnswer, OnOffSound, OpenCamera, CancelPicker, PickPhoto, Pause, Resume,
      PressRestart, PressExit, ChangeSettings, Quit, Crash, Gone, Hear, timerClass
<1>3. isPlaying' \in BOOLEAN /\ asked' \in BOOLEAN
  BY DEF BoolType, soundVars, Judge, Hint, stopMusic, quiztheme, Next, vars, Block, Player, Restart,
      ClosePicker, CheckVoiceCommands, SayCommand, SayCamera, SayExit, SayNothing, Present,
      CheckPhotoAnswer, ThemeAgain, PresentTotalScreen, exit, LeaveSheet, Launch, OpenQuiz,
      answerSelected, ShowAnswer, OnOffSound, OpenCamera, CancelPicker, PickPhoto, Pause, Resume,
      PressRestart, PressExit, ChangeSettings, Quit, Crash, Gone, Hear, timerClass
<1>4. stray' \in BOOLEAN
  BY DEF BoolType, soundVars, Judge, Hint, stopMusic, quiztheme, Strays, Next, vars, Block, Player, Restart,
      ClosePicker, CheckVoiceCommands, SayCommand, SayCamera, SayExit, SayNothing, Present,
      CheckPhotoAnswer, ThemeAgain, PresentTotalScreen, exit, LeaveSheet, Launch, OpenQuiz,
      answerSelected, ShowAnswer, OnOffSound, OpenCamera, CancelPicker, PickPhoto, Pause, Resume,
      PressRestart, PressExit, ChangeSettings, Quit, Crash, Gone, Hear, timerClass
<1> QED BY <1>1, <1>2, <1>3, <1>4 DEF BoolType

LEMMA ThemeType == SoundType /\ quiztheme => SoundType'
BY KeysAssumption DEF SoundType, quiztheme, Checked

LEMMA SoundStep == TypeOK /\ [Next]_vars => SoundType'
<1> SUFFICES ASSUME TypeOK, [Next]_vars PROVE SoundType'
  OBVIOUS
<1> USE TypeParts
<1>1. CASE ThemeAgain
  BY <1>1, ThemeType DEF ThemeAgain
<1>2. CASE OpenQuiz
  BY <1>2 DEF OpenQuiz, checkSettings, SoundType, SettingsTypeOK, Crash, Gone, Checked
<1>3. CASE UNCHANGED status /\ sound' \in {"none", "theme", "effect"}
  BY <1>3 DEF SoundType
<1>4. CASE Gone
  BY <1>4 DEF Gone, SoundType
<1>5. CASE ~ThemeAgain /\ ~OpenQuiz /\ ~Gone
  <2>1. UNCHANGED status
    BY <1>5 DEF flags, Next, vars, Block, Player, Restart,
      ClosePicker, CheckVoiceCommands, SayCommand, SayCamera, SayExit, SayNothing, Present,
      CheckPhotoAnswer, ThemeAgain, PresentTotalScreen, exit, LeaveSheet, Launch, OpenQuiz,
      answerSelected, ShowAnswer, OnOffSound, OpenCamera, CancelPicker, PickPhoto, Pause, Resume,
      PressRestart, PressExit, ChangeSettings, Quit, Crash, Hear, timerClass
  <2>2. sound' \in {"none", "theme", "effect"}
    BY <1>5 DEF SoundType, soundVars, Judge, Hint, stopMusic, Next, vars, Block, Player, Restart,
      ClosePicker, CheckVoiceCommands, SayCommand, SayCamera, SayExit, SayNothing, Present,
      CheckPhotoAnswer, ThemeAgain, PresentTotalScreen, exit, LeaveSheet, Launch, OpenQuiz,
      answerSelected, ShowAnswer, OnOffSound, OpenCamera, CancelPicker, PickPhoto, Pause, Resume,
      PressRestart, PressExit, ChangeSettings, Quit, Crash, Hear, timerClass
  <2> QED BY <1>3, <2>1, <2>2
<1> QED BY <1>1, <1>2, <1>4, <1>5

\* Every variable keeps its type, whatever is answered, said or scheduled.
THEOREM TypeCorrect == Spec => []TypeOK
<1>1. TypeOK /\ [Next]_vars => TypeOK'
  <2> SUFFICES ASSUME TypeOK, [Next]_vars PROVE TypeOK'
    OBVIOUS
  <2>1. SettingsTypeOK' /\ ScreenType' /\ CountType' /\ BoolType' /\ SoundType'
    BY SettingsStep, ScreenStep, CountStep, BoolStep, SoundStep, TypeParts
  <2> QED BY <2>1 DEF TypeOK, ScreenType, CountType, BoolType, SoundType
<1> QED BY <1>1, InitType, PTL DEF Spec

\* A switch shows what the quiz reads, except for the timer and the attempts
\* after SettingsManager.ResetSettings.
THEOREM SwitchesTruthfulHolds == Spec => []SwitchesTruthful
<1>1. Init => SwitchesTruthful
  BY DEF Init, SettingsInit, SwitchesTruthful
<1>2. TypeOK /\ SwitchesTruthful /\ [Next]_vars => SwitchesTruthful'
  <2> SUFFICES ASSUME TypeOK, SwitchesTruthful, [Next]_vars PROVE SwitchesTruthful'
    OBVIOUS
  <2> USE DEF SwitchesTruthful
  <2>1. CASE UNCHANGED settings
    BY <2>1 DEF settings
  <2>2. CASE ChangeSettings
    <3>1. ASSUME NEW k \in Keys, switchAction(k) PROVE SwitchesTruthful'
      BY <3>1, TypeParts DEF switchAction, SettingsTypeOK
    <3>2. CASE ResetSettings
      <4> SUFFICES ASSUME NEW k \in Keys, shown'[k] # on'[k]
                   PROVE  k \in {"timer", "attempts"} /\ wiped' /\ on'[k]
        OBVIOUS
      <4>1. on'[k] /\ k \notin Reset
        BY <3>2, TypeParts DEF ResetSettings, SettingsTypeOK
      <4> QED BY <3>2, <4>1, KeysAssumption DEF ResetSettings, Reset, AllKeys
    <3>3. CASE Register
      BY <3>3 DEF Register
    <3> QED BY <2>2, <3>1, <3>2, <3>3 DEF ChangeSettings
  <2> QED BY <2>1, <2>2 DEF Next, vars, Block, Player, Restart,
      ClosePicker, CheckVoiceCommands, SayCommand, SayCamera, SayExit, SayNothing, Present,
      CheckPhotoAnswer, ThemeAgain, PresentTotalScreen, exit, LeaveSheet, Launch, OpenQuiz,
      answerSelected, ShowAnswer, OnOffSound, OpenCamera, CancelPicker, PickPhoto, Pause, Resume,
      PressRestart, PressExit, Quit, Crash, Hear, timerClass
<1> QED BY <1>1, <1>2, TypeCorrect, PTL DEF Spec

----------------------------------------------------------------------------
(* The microphone *)

\* Without an overlap at most one start of recognition is scheduled, while it
\* does not run, and nothing at all outside the quiz or behind the camera.
Quiet ==
    ~hasty =>
        /\ starts + closes <= 1 /\ (starts + closes = 1 => ~tap)
        /\ screen \in {"off", "menu", "camera"} => ~tap /\ starts = 0 /\ heard = 0 /\ photos = 0
        /\ screen # "camera" => closes = 0

\* Without the audio setting only a picker starts recognition, and nothing is
\* ever heard.
Deaf ==
    /\ ~audio /\ ~pictured => ~tap /\ starts = 0 /\ closes = 0 /\ photos = 0
    /\ heard > 0 => audio
    /\ screen = "off" => ~audio /\ ~pictured /\ ~hasty

MicInv == Quiet /\ Deaf /\ VoiceStaysOn

LEMMA GoneMic == Gone => MicInv'
BY DEF Gone, MicInv, Quiet, Deaf, VoiceStaysOn, InQuiz

LEMMA MicKept == MicInv /\ UNCHANGED <<micVars, screen, audio>> => MicInv'
BY DEF MicInv, Quiet, Deaf, VoiceStaysOn, InQuiz, micVars

LEMMA NotPending == TypeOK => (~Pending <=> starts = 0 /\ closes = 0 /\ heard = 0 /\ photos = 0)
BY TypeParts DEF CountType, Pending

\* A screen that disappears cancels recognition; what is pending then overlaps
\* the change.
LEMMA DisappearMic ==
    ASSUME TypeOK, MicInv, InQuiz, cancelSpeechRecognition,
           screen' \in {"menu", "camera"} \/ (screen' = screen /\ muted'),
           UNCHANGED <<starts, closes, photos, pictured, audio>>,
           heard' = heard \/ (heard > 0 /\ heard' = heard - 1)
    PROVE  MicInv'
<1>1. starts \in Nat /\ closes \in Nat /\ heard \in Nat /\ photos \in Nat /\ heard' \in Nat
      /\ (heard = 0 => heard' = 0)
  BY TypeParts DEF CountType
<1>2. tap' = FALSE /\ (~hasty' => ~hasty /\ starts = 0 /\ closes = 0 /\ heard = 0 /\ photos = 0)
  <2>1. tap' = FALSE /\ hasty' = (hasty \/ Pending)
    BY DEF cancelSpeechRecognition
  <2> QED BY <2>1, NotPending
<1>3. Quiet'
  BY <1>1, <1>2 DEF Quiet
<1>4. Deaf'
  BY <1>1, <1>2 DEF Deaf, MicInv, InQuiz
<1>5. VoiceStaysOn'
  BY DEF VoiceStaysOn, InQuiz
<1> QED BY <1>3, <1>4, <1>5 DEF MicInv

LEMMA RescheduleMic ==
    ASSUME TypeOK, MicInv, Reschedule, audio \/ pictured,
           UNCHANGED <<closes, screen, audio>>,
           \/ heard > 0 /\ heard' = heard - 1 /\ UNCHANGED photos
           \/ photos > 0 /\ photos' = photos - 1 /\ UNCHANGED heard
           \/ screen = "quiz" /\ UNCHANGED <<heard, photos>>
    PROVE  MicInv'
<1>1. starts \in Nat /\ closes \in Nat /\ heard \in Nat /\ photos \in Nat
  BY TypeParts DEF CountType
<1>2. starts' = starts + 1 /\ tap' = FALSE /\ pictured' = pictured
      /\ (~hasty' => ~hasty /\ starts + closes = 0)
  <2> DEFINE more == starts + closes > 0
  <2>1. hasty' = (hasty \/ more)
    BY DEF Reschedule
  <2>2. ~more <=> starts + closes = 0
    BY <1>1
  <2>3. ~hasty' => ~hasty /\ ~more
    BY <2>1
  <2> HIDE DEF more
  <2> QED BY <2>2, <2>3 DEF Reschedule
<1>3. ~hasty => screen \in {"quiz", "paused"}
  BY <1>1 DEF MicInv, Quiet, Deaf, TypeOK
<1>4. Quiet'
  BY <1>1, <1>2, <1>3 DEF Quiet
<1>5. Deaf'
  BY <1>1, <1>2 DEF MicInv, Deaf
<1>6. VoiceStaysOn'
  BY <1>1, <1>2 DEF VoiceStaysOn
<1> QED BY <1>4, <1>5, <1>6 DEF MicInv

LEMMA CommandMic == TypeOK /\ MicInv /\ CheckVoiceCommands => MicInv'
<1> SUFFICES ASSUME TypeOK, MicInv, CheckVoiceCommands PROVE MicInv'
  OBVIOUS
<1>1. heard > 0 /\ heard' = heard - 1 /\ heard \in Nat /\ audio
  BY TypeParts DEF CheckVoiceCommands, CountType, MicInv, Deaf
<1>2. CASE SayCommand
  BY <1>1, <1>2, RescheduleMic DEF SayCommand, flags
<1>3. CASE SayCamera /\ screen = "quiz"
  BY <1>1, <1>3, DisappearMic DEF SayCamera, Present, Disappear, flags, InQuiz
<1>4. CASE UNCHANGED <<screen, audio, tap, starts, closes, photos, hasty, muted, pictured>>
  BY <1>1, <1>4 DEF MicInv, Quiet, Deaf, VoiceStaysOn, InQuiz
<1> QED BY <1>2, <1>3, <1>4 DEF CheckVoiceCommands, SayCamera, SayExit, SayNothing, flags

LEMMA MicStep == TypeOK /\ MicInv /\ [Next]_vars => MicInv'
<1> SUFFICES ASSUME TypeOK, MicInv, [Next]_vars PROVE MicInv'
  OBVIOUS
<1>0. starts \in Nat /\ closes \in Nat /\ heard \in Nat /\ photos \in Nat
  BY TypeParts DEF CountType
<1>1. CASE Restart
  <2>1. CASE Crash
    BY <2>1, GoneMic DEF Crash
  <2>2. CASE starts > 0 /\ startRecognize /\ starts' = starts - 1
             /\ UNCHANGED <<screen, audio, closes, heard, photos, hasty, muted, pictured>>
    BY <1>0, <2>2 DEF startRecognize, MicInv, Quiet, Deaf, VoiceStaysOn, InQuiz
  <2> QED BY <1>1, <2>1, <2>2 DEF Restart, flags
<1>2. CASE ClosePicker
  <2>1. CASE Crash
    BY <2>1, GoneMic DEF Crash
  <2>2. CASE /\ closes > 0 /\ startRecognize /\ closes' = closes - 1
             /\ screen' = IF screen = "camera" THEN "quiz" ELSE screen
             /\ UNCHANGED <<audio, starts, heard, photos, hasty, muted, pictured>>
    <3>1. Quiet'
      BY <1>0, <2>2 DEF startRecognize, MicInv, Quiet
    <3>2. Deaf'
      BY <1>0, <2>2 DEF startRecognize, MicInv, Deaf
    <3>3. VoiceStaysOn'
      BY <2>2 DEF startRecognize, VoiceStaysOn
    <3> QED BY <3>1, <3>2, <3>3 DEF MicInv
  <2> QED BY <1>2, <2>1, <2>2 DEF ClosePicker, flags
<1>3. CASE CheckVoiceCommands
  BY <1>3, CommandMic
<1>4. CASE CheckPhotoAnswer
  <2>1. photos > 0 /\ photos' = photos - 1 /\ UNCHANGED <<screen, audio, closes, heard>>
    BY <1>4 DEF CheckPhotoAnswer, flags
  <2>2. CASE Reschedule
    BY <1>0, <2>1, <2>2, RescheduleMic DEF MicInv, Deaf
  <2>3. CASE UNCHANGED <<tap, starts, hasty, muted, pictured>>
    BY <1>0, <2>1, <2>3 DEF MicInv, Quiet, Deaf, VoiceStaysOn, InQuiz
  <2> QED BY <1>4, <2>2, <2>3 DEF CheckPhotoAnswer, Listening
<1>5. CASE PresentTotalScreen \/ exit
  <2>1. CASE InQuiz /\ screen' = "menu" /\ Disappear
    BY <1>5, <2>1, DisappearMic DEF PresentTotalScreen, exit, Disappear, flags
  <2>2. CASE UNCHANGED <<screen, tap, hasty, leaving>>
    BY <1>5, <2>2, MicKept DEF PresentTotalScreen, exit, flags, micVars
  <2> QED BY <1>5, <2>1, <2>2 DEF PresentTotalScreen, exit
<1>6. CASE LeaveSheet \/ OpenCamera \/ PressRestart
  BY <1>6, DisappearMic DEF LeaveSheet, OpenCamera, PressRestart, Present, Disappear, flags, InQuiz
<1>7. CASE ThemeAgain \/ ShowAnswer \/ OnOffSound \/ PressExit \/ ChangeSettings \/ timerClass
           \/ UNCHANGED vars
  BY <1>7, MicKept DEF ThemeAgain, ShowAnswer, OnOffSound, PressExit, ChangeSettings, timerClass,
        vars, flags
<1>8. CASE Pause \/ Resume
  BY <1>8 DEF Pause, Resume, flags, micVars, MicInv, Quiet, Deaf, VoiceStaysOn, InQuiz
<1>9. CASE answerSelected
  <2>1. CASE audio /\ Reschedule
    BY <1>9, <2>1, RescheduleMic DEF answerSelected, Listening, flags, MicInv, Deaf
  <2>2. CASE UNCHANGED <<tap, starts, hasty, muted, pictured>>
    BY <1>9, <2>2, MicKept DEF answerSelected, flags, micVars
  <2> QED BY <1>9, <2>1, <2>2 DEF answerSelected, Listening
<1>10. CASE CancelPicker
  <2>1. ~hasty' => ~hasty /\ starts = 0 /\ closes = 0
    <3>1. hasty' = (hasty \/ Pending)
      BY <1>10 DEF CancelPicker
    <3> QED BY <3>1, NotPending
  <2>2. Quiet'
    BY <1>0, <1>10, <2>1 DEF CancelPicker, flags, MicInv, Quiet
  <2> QED BY <1>10, <2>2 DEF CancelPicker, flags, MicInv, Deaf, VoiceStaysOn, InQuiz
<1>11. CASE PickPhoto
  <2>1. ~hasty' => ~hasty /\ starts = 0 /\ closes = 0
    <3>1. hasty' = (hasty \/ Pending)
      BY <1>11 DEF PickPhoto
    <3> QED BY <3>1, NotPending
  <2>2. Quiet'
    BY <1>0, <1>11, <2>1 DEF PickPhoto, flags, MicInv, Quiet
  <2> QED BY <1>0, <1>11, <2>2 DEF PickPhoto, flags, MicInv, Deaf, VoiceStaysOn, InQuiz
<1>12. CASE Launch
  BY <1>0, <1>12 DEF Launch, micVars, MicInv, Quiet, Deaf, VoiceStaysOn, InQuiz
<1>13. CASE OpenQuiz
  <2>1. CASE Crash
    BY <2>1, GoneMic DEF Crash
  <2>2. CASE /\ screen = "menu" /\ screen' = "quiz" /\ muted' = FALSE
             /\ IF audio THEN startRecognize ELSE UNCHANGED tap
             /\ UNCHANGED <<audio, starts, closes, heard, photos, hasty, pictured>>
    BY <2>2 DEF startRecognize, MicInv, Quiet, Deaf, VoiceStaysOn, InQuiz
  <2> QED BY <1>13, <2>1, <2>2 DEF OpenQuiz
<1>14. CASE Quit
  BY <1>14, GoneMic DEF Quit
<1>15. CASE Hear
  BY <1>0, <1>15 DEF Hear, flags, MicInv, Quiet, Deaf, VoiceStaysOn, InQuiz
<1> QED BY <1>1, <1>2, <1>3, <1>4, <1>5, <1>6, <1>7, <1>8, <1>9, <1>10, <1>11, <1>12, <1>13,
           <1>14, <1>15 DEF Next, Block, Player

LEMMA MicInvariant == Spec => [](TypeOK /\ MicInv)
<1>1. Init => MicInv
  BY DEF Init, MicInv, Quiet, Deaf, VoiceStaysOn, InQuiz
<1> QED BY <1>1, MicStep, TypeCorrect, PTL DEF Spec

\* Outside the quiz nothing listens or will, unless starts overlapped a change
\* of screen: viewDidDisappear cancels recognition and none of its restarts.
THEOREM SilentOutsideHolds == Spec => []SilentOutside
<1>1. MicInv => SilentOutside
  BY DEF MicInv, Quiet, SilentOutside
<1> QED BY <1>1, MicInvariant, PTL

\* Voice control, once asked for, survives every answer, command and photo.
THEOREM VoiceStaysOnHolds == Spec => []VoiceStaysOn
<1>1. MicInv => VoiceStaysOn
  BY DEF MicInv
<1> QED BY <1>1, MicInvariant, PTL

\* Without the audio setting only the closing of a picker starts recognition.
THEOREM MicNeedsSettingHolds == Spec => []MicNeedsSetting
<1>1. TypeOK /\ MicInv => MicNeedsSetting
  BY TypeParts DEF MicInv, Deaf, MicNeedsSetting, CountType
<1> QED BY <1>1, MicInvariant, PTL

\* The second tap of startRecognize, which ends the application, needs starts
\* that overlapped each other or a change of screen.
THEOREM CrashNeedsOverlapHolds == Spec => CrashNeedsOverlap
<1>1. ASSUME TypeOK, MicInv, [Next]_vars, crashed' /\ ~crashed PROVE hasty
  <2>1. tap /\ (starts > 0 \/ closes > 0 \/ screen = "menu")
    BY <1>1 DEF Restart, ClosePicker, OpenQuiz, Crash,
      Next, vars, flags, Block, Player, CheckVoiceCommands, SayCommand, SayCamera, SayExit,
      SayNothing, Present, CheckPhotoAnswer, ThemeAgain, PresentTotalScreen, exit, LeaveSheet,
      Launch, answerSelected, ShowAnswer, OnOffSound, OpenCamera, CancelPicker, PickPhoto,
      Pause, Resume, PressRestart, PressExit, ChangeSettings, Quit, Hear, timerClass
  <2> QED BY <1>1, <2>1, TypeParts DEF MicInv, Quiet, CountType
<1>2. TypeOK /\ MicInv /\ [Next]_vars => [crashed' /\ ~crashed => hasty]_vars
  BY <1>1
<1> QED BY <1>2, MicInvariant, PTL DEF Spec, CrashNeedsOverlap
----------------------------------------------------------------------------
(* The theme *)

\* A quiz comes back from behind the camera as well.
Opened == screen \in {"quiz", "paused", "camera"}

Heeded == Opened /\ ~late => \A k \in Checked : status[k] => on[k]

Still == Opened /\ ~on["music"] /\ Listed /\ ~asked /\ ~late => sound # "theme"

\* Out of the quiz, and on the way out by voice, only a stray block has it play.
Ended ==
    /\ (screen \in {"menu", "paused"} \/ exits > 0) /\ sound = "theme" => stray
    /\ screen = "off" => sound = "none" /\ themes = 0

SoundInv == Heeded /\ Still /\ Ended

LEMMA MusicKey == "music" \in Checked /\ "music" \in Keys
BY KeysAssumption DEF Checked

LEMMA HeededStep == TypeOK /\ Heeded /\ [Next]_vars => Heeded'
<1> SUFFICES ASSUME TypeOK, Heeded, [Next]_vars PROVE Heeded'
  OBVIOUS
<1>1. CASE UNCHANGED <<status, on, late>> /\ (Opened' => Opened)
  BY <1>1 DEF Heeded
<1>2. CASE ThemeAgain
  <2>1. UNCHANGED <<on, late, screen>> /\ \A k \in Checked : status'[k] => status[k]
    BY <1>2, TypeParts DEF ThemeAgain, quiztheme, settings, SoundType
  <2> QED BY <2>1 DEF Heeded, Opened
<1>3. CASE OpenQuiz
  <2>1. CASE Crash
    BY <2>1 DEF Crash, Gone, Heeded, Opened
  <2>2. CASE status' = checkSettings /\ UNCHANGED on
    BY <2>2 DEF checkSettings, Heeded
  <2> QED BY <1>3, <2>1, <2>2 DEF OpenQuiz, settings
<1>4. CASE ChangeSettings
  BY <1>4 DEF ChangeSettings, Heeded, Opened
<1>5. CASE screen' \in {"off", "menu"}
  BY <1>5 DEF Heeded, Opened
<1> QED BY <1>1, <1>2, <1>3, <1>4, <1>5 DEF settings, flags, InQuiz, Opened, Next, vars, Block,
      Player, Restart,
      ClosePicker, CheckVoiceCommands, SayCommand, SayCamera, SayExit, SayNothing, Present,
      CheckPhotoAnswer, PresentTotalScreen, exit, LeaveSheet, Launch,
      answerSelected, ShowAnswer, OnOffSound, OpenCamera, CancelPicker, PickPhoto, Pause, Resume,
      PressRestart, PressExit, Quit, Crash, Gone, Hear, timerClass

\* What an answer, a hint or the music button does to the player.
LEMMA SoundSteps ==
    /\ Judge => sound' = "effect"
    /\ Hint => sound' = "effect" \/ UNCHANGED <<sound, asked>>
BY DEF Judge, Hint, soundVars

LEMMA StillStep == TypeOK /\ Heeded /\ Still /\ [Next]_vars => Still'
<1> SUFFICES ASSUME TypeOK, Heeded, Still, [Next]_vars PROVE Still'
  OBVIOUS
<1>1. CASE sound' # "theme"
  BY <1>1 DEF Still
<1>2. CASE UNCHANGED <<sound, asked, on, late>> /\ (Opened' => Opened)
  BY <1>2 DEF Still
<1>3. CASE ThemeAgain
  BY <1>3 DEF ThemeAgain, quiztheme, settings, Still
<1>4. CASE OnOffSound
  BY <1>2, <1>4, MusicKey DEF OnOffSound, stopMusic, settings, Heeded, Opened, Still
<1>5. CASE OpenQuiz
  <2>1. CASE Crash
    BY <2>1 DEF Crash, Gone, Still, Opened
  <2>2. CASE /\ status' = checkSettings /\ UNCHANGED on
             /\ sound' = IF status'["music"] \/ ~Listed THEN "theme" ELSE "none"
    BY <2>2, MusicKey DEF checkSettings, Still
  <2> QED BY <1>5, <2>1, <2>2 DEF OpenQuiz, settings
<1>6. CASE ChangeSettings
  BY <1>6 DEF ChangeSettings, Still, Opened
<1>7. CASE screen' \in {"off", "menu"}
  BY <1>7 DEF Still, Opened
<1>8. CASE CheckVoiceCommands
  <2>1. CASE SayCommand
    <3>1. CASE asked' = TRUE
      BY <3>1 DEF Still
    <3>2. CASE Judge \/ Hint
      BY <1>1, <1>2, <2>1, <3>2, SoundSteps DEF SayCommand, settings, Opened
    <3> QED BY <2>1, <3>1, <3>2 DEF SayCommand
  <2>2. CASE SayCamera \/ SayExit \/ SayNothing
    BY <1>1, <1>2, <2>2 DEF SayCamera, SayExit, SayNothing, Present, soundVars, settings, Opened
  <2> QED BY <1>8, <2>1, <2>2 DEF CheckVoiceCommands
<1>9. CASE answerSelected \/ ShowAnswer \/ CheckPhotoAnswer
  BY <1>1, <1>2, <1>9, SoundSteps DEF answerSelected, ShowAnswer, CheckPhotoAnswer, soundVars,
        settings, Opened
<1> QED BY <1>1, <1>2, <1>3, <1>4, <1>5, <1>6, <1>7, <1>8, <1>9 DEF settings, soundVars, InQuiz,
      Opened, Next, vars, Block, Player, Restart, ClosePicker, Present,
      PresentTotalScreen, exit, LeaveSheet, Launch, OpenCamera, CancelPicker, PickPhoto, Pause,
      Resume, PressRestart, PressExit, Quit, Crash, Gone, Hear, timerClass

\* Whoever starts the theme out of the quiz, or on the way out, is stray.
LEMMA ThemeStrays == (quiztheme \/ stopMusic) /\ sound' = "theme" => stray' = (stray \/ Strays)
BY DEF quiztheme, stopMusic

LEMMA EndedStep == TypeOK /\ MicInv /\ Ended /\ [Next]_vars => Ended'
<1> SUFFICES ASSUME TypeOK, MicInv, Ended, [Next]_vars PROVE Ended'
  OBVIOUS
<1> DEFINE away == exits > 0
<1> DEFINE astray == totals + exits > 0
<1>0. exits \in Nat /\ totals \in Nat /\ themes \in Nat /\ (away => astray)
  BY TypeParts DEF CountType
<1>1. screen = "off" => heard = 0 /\ photos = 0
  BY DEF MicInv, Deaf, Quiet
<1>2. CASE Gone
  BY <1>2 DEF Gone, Ended
<1>3. CASE sound' # "theme" /\ screen # "off" /\ screen' # "off"
  BY <1>3 DEF Ended
<1>4. ASSUME UNCHANGED <<sound, stray, themes>>, exits' > 0 => exits > 0,
             screen' \in {"menu", "paused"} => screen \in {"off", "menu", "paused"} \/ exits > 0,
             screen' = "off" => screen = "off"
      PROVE  Ended'
  BY <1>4 DEF Ended
<1>5. ASSUME quiztheme \/ stopMusic, UNCHANGED <<screen, exits>>, screen # "off" PROVE Ended'
  <2>1. CASE sound' = "theme"
    <3>1. stray' = (stray \/ Strays)
      BY <1>5, <2>1, ThemeStrays
    <3>2. screen \in {"menu", "paused"} \/ exits > 0 => Strays
      BY <1>0 DEF Strays
    <3> QED BY <1>5, <3>1, <3>2 DEF Ended
  <2> QED BY <1>3, <1>5, <2>1
<1>6. CASE ThemeAgain
  <2>1. screen # "off"
    BY <1>0, <1>6 DEF ThemeAgain, Ended
  <2> QED BY <1>5, <1>6, <2>1 DEF ThemeAgain, wayVars
<1>7. CASE OnOffSound
  BY <1>5, <1>7 DEF OnOffSound, wayVars
<1>8. CASE OpenQuiz
  <2>1. CASE Crash
    BY <1>2, <2>1 DEF Crash
  <2>2. CASE screen' = "quiz" /\ stray' = (stray \/ astray) /\ UNCHANGED <<exits, themes>>
    BY <1>0, <2>2 DEF Ended
  <2> QED BY <1>8, <2>1, <2>2 DEF OpenQuiz, wayVars
<1>9. CASE CheckVoiceCommands
  <2>1. screen # "off"
    BY <1>1, <1>9 DEF CheckVoiceCommands
  <2>2. CASE SayCommand
    <3>1. UNCHANGED <<screen, exits>>
      BY <2>2 DEF SayCommand, Judge, wayVars
    <3>2. CASE sound' = "effect"
      BY <1>3, <2>1, <3>1, <3>2
    <3>3. CASE UNCHANGED soundVars
      BY <1>4, <3>1, <3>3 DEF soundVars
    <3>4. CASE stopMusic
      BY <1>5, <2>1, <3>1, <3>4
    <3> QED BY <2>2, <3>2, <3>3, <3>4, SoundSteps DEF SayCommand, Hint
  <2>3. CASE SayExit
    BY <1>3, <2>1, <2>3 DEF SayExit
  <2>4. CASE SayCamera \/ SayNothing
    BY <1>4, <2>4 DEF SayCamera, SayNothing, Present, soundVars, wayVars
  <2> QED BY <1>9, <2>2, <2>3, <2>4 DEF CheckVoiceCommands
<1>10. CASE answerSelected \/ ShowAnswer \/ CheckPhotoAnswer
  <2>1. screen # "off" /\ UNCHANGED <<screen, exits>>
    BY <1>1, <1>10 DEF answerSelected, ShowAnswer, CheckPhotoAnswer, Judge, wayVars
  <2>2. CASE sound' = "effect"
    BY <1>3, <2>1, <2>2
  <2>3. CASE UNCHANGED soundVars
    BY <1>4, <2>1, <2>3 DEF soundVars
  <2> QED BY <1>10, <2>2, <2>3, SoundSteps DEF answerSelected, ShowAnswer, CheckPhotoAnswer, Hint
<1>11. CASE PresentTotalScreen
  <2>1. CASE screen # "off"
    BY <1>3, <1>11, <2>1 DEF PresentTotalScreen, InQuiz
  <2>2. CASE screen = "off"
    BY <1>11, <2>2 DEF PresentTotalScreen, InQuiz, Ended
  <2> QED BY <2>1, <2>2
<1>12. CASE exit
  BY <1>0, <1>4, <1>12 DEF exit, soundVars, InQuiz
<1>13. CASE Restart \/ ClosePicker
  BY <1>2, <1>4, <1>13 DEF Restart, ClosePicker, Crash, soundVars, wayVars
<1>14. CASE Launch \/ OpenCamera \/ CancelPicker \/ PickPhoto \/ Resume \/ LeaveSheet
            \/ PressRestart \/ PressExit \/ ChangeSettings \/ Hear \/ timerClass \/ UNCHANGED vars
  BY <1>4, <1>14 DEF Launch, OpenCamera, CancelPicker, PickPhoto, Resume, LeaveSheet, Present,
        PressRestart, PressExit, ChangeSettings, Hear, timerClass, vars, soundVars, wayVars
<1>15. CASE Pause \/ Quit
  BY <1>2, <1>3, <1>15 DEF Pause, Quit
<1> QED BY <1>6, <1>7, <1>8, <1>9, <1>10, <1>11, <1>12, <1>13, <1>14, <1>15 DEF Next, Block, Player

LEMMA SoundInvariant == Spec => []SoundInv
<1>1. Init => SoundInv
  BY DEF Init, SoundInv, Heeded, Still, Ended, Opened
<1>2. TypeOK /\ MicInv /\ SoundInv /\ [Next]_vars => SoundInv'
  BY HeededStep, StillStep, EndedStep DEF SoundInv
<1> QED BY <1>1, <1>2, MicInvariant, PTL DEF Spec

\* What the player switched off is off in every quiz opened afterwards, though
\* the settings are looked at only when a quiz opens.
THEOREM OffHonouredHolds == Spec => []OffHonoured
<1>1. SoundInv => OffHonoured
  BY DEF SoundInv, Heeded, Opened, OffHonoured, InQuiz
<1> QED BY <1>1, SoundInvariant, PTL

\* No answer or hint brings the theme back to a quiz opened with the music off.
THEOREM MusicOffHolds == Spec => []MusicOff
<1>1. SoundInv => MusicOff
  BY DEF SoundInv, Still, Opened, MusicOff, InQuiz
<1> QED BY <1>1, SoundInvariant, PTL

\* Leaving a quiz ends its theme; only a block that was pending starts it later.
THEOREM ThemeEndsHolds == Spec => []ThemeEnds
<1>1. SoundInv => ThemeEnds
  BY DEF SoundInv, Ended, ThemeEnds
<1> QED BY <1>1, SoundInvariant, PTL
----------------------------------------------------------------------------
(* What one quiz switched off *)

\* As long as the process lives, a status that is off stays off.
NotAgain == screen' = "off" \/ \A k \in Checked : status'[k] => status[k]

LEMMA StatusStep == TypeOK /\ [Next]_vars => NotAgain
<1> SUFFICES ASSUME TypeOK, [Next]_vars PROVE NotAgain
  OBVIOUS
<1>1. CASE UNCHANGED status
  BY <1>1 DEF NotAgain
<1>2. CASE ThemeAgain
  BY <1>2, TypeParts DEF ThemeAgain, quiztheme, SoundType, NotAgain
<1>3. CASE OpenQuiz
  <2>1. CASE status' = checkSettings
    BY <2>1 DEF checkSettings, NotAgain
  <2>2. CASE Crash
    BY <2>2 DEF Crash, Gone, NotAgain
  <2> QED BY <1>3, <2>1, <2>2 DEF OpenQuiz
<1>4. CASE Gone
  BY <1>4 DEF Gone, NotAgain
<1> QED BY <1>1, <1>2, <1>3, <1>4 DEF flags, Next, vars, Block, Player, Restart, ClosePicker,
      CheckVoiceCommands, SayCommand, SayCamera, SayExit, SayNothing, Present,
      CheckPhotoAnswer, PresentTotalScreen, exit, LeaveSheet, Launch, answerSelected,
      ShowAnswer, OnOffSound, OpenCamera, CancelPicker, PickPhoto, Pause, Resume, PressRestart,
      PressExit, ChangeSettings, Quit, Crash, Hear, timerClass

\* checkSettings and the theme only ever clear the flags of the view model that
\* all quizzes of a category share: what was off in one quiz is off in all the
\* later ones of the same launch, although it was switched on again in between.
THEOREM OffForTheLaunch == Spec => [][NotAgain]_vars
<1>1. TypeOK /\ [Next]_vars => [NotAgain]_vars
  BY StatusStep
<1> QED BY <1>1, TypeCorrect, PTL DEF Spec

\* Once the music of a listed category is off, no answer, hint, photo, button or
\* new quiz brings its theme back: only a spoken command does.
Unasked == Listed /\ ~status["music"] /\ sound # "theme" /\ sound' = "theme" => asked'

LEMMA UnaskedStep == TypeOK /\ [Next]_vars => Unasked
<1> SUFFICES ASSUME TypeOK, [Next]_vars PROVE Unasked
  OBVIOUS
<1>1. CASE sound' # "theme" \/ UNCHANGED sound
  BY <1>1 DEF Unasked
<1>2. CASE ThemeAgain
  BY <1>2 DEF ThemeAgain, quiztheme, Unasked
<1>3. CASE OnOffSound
  BY <1>3 DEF OnOffSound, Unasked
<1>4. CASE OpenQuiz
  BY <1>1, <1>4, MusicKey DEF OpenQuiz, checkSettings, Crash, Gone, Unasked
<1>5. CASE CheckVoiceCommands
  <2>1. CASE SayCommand
    BY <1>1, <2>1, SoundSteps DEF SayCommand, Unasked
  <2>2. CASE SayCamera \/ SayExit \/ SayNothing
    BY <1>1, <2>2 DEF SayCamera, SayExit, SayNothing, Present, soundVars
  <2> QED BY <1>5, <2>1, <2>2 DEF CheckVoiceCommands
<1>6. CASE answerSelected \/ ShowAnswer \/ CheckPhotoAnswer
  BY <1>1, <1>6, SoundSteps DEF answerSelected, ShowAnswer, CheckPhotoAnswer, soundVars
<1> QED BY <1>1, <1>2, <1>3, <1>4, <1>5, <1>6 DEF soundVars, Next, vars, Block, Player, Restart,
      ClosePicker, PresentTotalScreen, exit, LeaveSheet, Launch, OpenCamera, CancelPicker,
      PickPhoto, Present, Pause, Resume, PressRestart, PressExit, ChangeSettings, Quit, Crash,
      Gone, Hear, timerClass

\* A cleared music flag silences the theme for the launch, unless it is asked
\* for by voice.
THEOREM ThemeOnlyByVoice == Spec => [][Unasked]_vars
<1>1. TypeOK /\ [Next]_vars => [Unasked]_vars
  BY UnaskedStep
<1> QED BY <1>1, TypeCorrect, PTL DEF Spec
=============================================================================
