----------------------------- MODULE MediaSession -----------------------------
(***************************************************************************)
(* What a quiz hears and plays, as its switches say: recognition, which    *)
(* every answer and command cancels and starts again 1.5 seconds later,    *)
(* the camera that answers a question with a photo, and the theme, which   *)
(* every answer interrupts and starts again a second later.                *)
(*                                                                         *)
(* The view model of a category lives as long as the process; its screens  *)
(* come and go.  Which answer is right, which one is the last, and when    *)
(* attempts or time run out is in QuizSession, and here any of them.       *)
(* Blocks scheduled for later run in any order.                            *)
(***************************************************************************)
EXTENDS Integers, Settings

CONSTANTS
    Listed,         \* the category is among the 17 of checkMusicSetting
    MaxPending      \* bound: texts, starts, themes, photos, results and exits pending

ASSUME MediaAssumption == Listed \in BOOLEAN /\ MaxPending \in Nat

\* The settings kept in HintsStatus, MusicStatus, ...; the one for audio is read
\* when the view model is created.
Checked == Keys \ {"audio", "base", "attempts"}

VARIABLES
    screen,         \* "off", "menu" (any screen but the quiz), "quiz", "paused"
                    \* (the sheet over it) or "camera" (the quiz in no window)
    crashed,        \* the application ended with an exception
    audio,          \* isRecordOnAudio: the setting as it was at launch
    status,         \* HintsStatus, SpeachStatus, MusicStatus, TimerStatus
    tap,            \* a tap is installed and recognition runs
    starts,         \* startRecognize calls scheduled by answers, commands and photos
    closes,         \* cancelled pickers: blocks that dismiss one and start recognition
    heard,          \* recognised texts queued on the main queue
    photos,         \* photos being read, to be judged two seconds later
    sound,          \* what the player plays: "none", "theme" or "effect"
    isPlaying,      \* what the music button believes
    themes,         \* SetQuizTheme calls scheduled
    totals,         \* PresentTotalScreen blocks queued
    exits,          \* exits by voice scheduled
    leaving,        \* restart or exit of the pause sheet is scheduled
    \* history
    hasty,          \* starts of recognition overlapped each other or a change of screen
    muted,          \* the pause sheet was told to restart the quiz on screen
    pictured,       \* a picker was closed since launch
    asked,          \* the music was switched by voice since launch
    late,           \* an account was deleted, or another registered, in the quiz on screen
    stray           \* the theme was started out of the quiz, or on the way out of it

micVars == <<tap, starts, closes, heard, photos, hasty, muted, pictured>>
soundVars == <<sound, isPlaying, themes, asked, stray>>
wayVars == <<totals, exits, leaving>>
flags == <<audio, status>>
vars == <<settings, screen, crashed, flags, micVars, soundVars, wayVars, late>>

InQuiz == screen \in {"quiz", "paused"}
Bounded == starts + closes + heard + photos + themes + totals + exits <= MaxPending

\* What a process that ends loses.
Gone ==
    /\ screen' = "off"
    /\ audio' = FALSE /\ status' = [k \in Checked |-> TRUE]
    /\ tap' = FALSE /\ starts' = 0 /\ closes' = 0 /\ heard' = 0 /\ photos' = 0
    /\ hasty' = FALSE /\ muted' = FALSE /\ pictured' = FALSE
    /\ sound' = "none" /\ isPlaying' = TRUE /\ themes' = 0 /\ asked' = FALSE /\ stray' = FALSE
    /\ totals' = 0 /\ exits' = 0 /\ leaving' = FALSE /\ late' = FALSE

Init ==
    /\ SettingsInit /\ screen = "off" /\ crashed = FALSE
    /\ audio = FALSE /\ status = [k \in Checked |-> TRUE]
    /\ tap = FALSE /\ starts = 0 /\ closes = 0 /\ heard = 0 /\ photos = 0
    /\ hasty = FALSE /\ muted = FALSE /\ pictured = FALSE
    /\ sound = "none" /\ isPlaying = TRUE /\ themes = 0 /\ asked = FALSE /\ stray = FALSE
    /\ totals = 0 /\ exits = 0 /\ leaving = FALSE /\ late = FALSE

----------------------------------------------------------------------------
(* Recognition *)

\* A second tap on the audio input ends the application.
Crash == tap /\ Gone /\ crashed' = TRUE /\ UNCHANGED settings

startRecognize == ~tap /\ tap' = TRUE

Pending == starts + closes + heard + photos > 0

\* Mutant of cancelSpeechRecognition: the tap is not removed.
cancelSpeechRecognitionTapped == hasty' = (hasty \/ Pending) /\ UNCHANGED tap

\* Nothing that is scheduled is cancelled with it.
cancelSpeechRecognition == hasty' = (hasty \/ Pending) /\ tap' = FALSE

\* Mutant of Reschedule: recognition is not started again.
RescheduleNever ==
    /\ tap' = FALSE /\ hasty' = (hasty \/ starts + closes > 0)
    /\ UNCHANGED <<starts, muted, pictured>>

\* Mutant of Reschedule: recognition is not cancelled first.
RescheduleListening ==
    /\ starts' = starts + 1 /\ hasty' = (hasty \/ starts + closes > 0)
    /\ UNCHANGED <<tap, muted, pictured>>

\* An answer or a command cancels recognition and starts it 1.5 seconds later.
Reschedule ==
    /\ tap' = FALSE /\ starts' = starts + 1
    /\ hasty' = (hasty \/ starts + closes > 0)
    /\ UNCHANGED <<muted, pictured>>

Restart ==
    /\ starts > 0
    /\ \/ Crash
       \/ /\ startRecognize /\ starts' = starts - 1
          /\ UNCHANGED <<settings, screen, crashed, flags, closes, heard, photos, hasty, muted,
                         pictured, soundVars, wayVars, late>>

\* A handler is registered only where the audio setting was on at launch.
\* Bound: MaxPending.
Hear ==
    /\ tap /\ audio /\ heard' = heard + 1
    /\ UNCHANGED <<settings, screen, crashed, flags, tap, starts, closes, photos, hasty, muted,
                   pictured, soundVars, wayVars, late>>
    /\ Bounded'

----------------------------------------------------------------------------
(* The theme *)

Strays == screen # "quiz" \/ totals + exits > 0

\* Mutant of quiztheme: the setting is not asked for.
quizthemeLoud ==
    /\ status' = status /\ sound' = "theme" /\ stray' = (stray \/ Strays)
    /\ UNCHANGED <<isPlaying, asked>>

\* Played, and stopped at once where the setting is off and the category is
\* listed.
quiztheme ==
    LET music == status["music"] /\ on["music"]
        plays == music \/ ~Listed
    IN  /\ status' = [status EXCEPT !["music"] = music]
        /\ sound' = IF plays THEN "theme" ELSE "none"
        /\ stray' = (stray \/ (plays /\ Strays))
        /\ UNCHANGED <<isPlaying, asked>>

ThemeAgain ==
    /\ themes > 0 /\ themes' = themes - 1 /\ quiztheme
    /\ UNCHANGED <<settings, screen, crashed, audio, micVars, wayVars, late>>

\* Whatever plays, the button only looks at its own flag.
stopMusic ==
    /\ isPlaying' = ~isPlaying /\ sound' = IF isPlaying THEN "none" ELSE "theme"
    /\ stray' = (stray \/ (~isPlaying /\ Strays))
    /\ UNCHANGED themes

\* The button is removed where quiztheme has stopped the theme.
OnOffSound ==
    /\ screen = "quiz" /\ (status["music"] \/ ~Listed) /\ stopMusic
    /\ UNCHANGED <<settings, screen, crashed, flags, micVars, asked, wayVars, late>>

----------------------------------------------------------------------------
(* Answers and commands *)

\* A right or wrong answer; the last one, and a wrong one without attempts
\* left, present the results, and only the last one leaves the theme out.
Judge ==
    /\ sound' = "effect"
    /\ \E last, out \in BOOLEAN :
           /\ totals' = totals + (IF last THEN 1 ELSE 0) + IF out THEN 1 ELSE 0
           /\ themes' = themes + IF last THEN 0 ELSE 1
    /\ UNCHANGED <<isPlaying, asked, stray, exits, leaving>>

\* Mutant of Listening: every answer starts recognition.
ListeningAlways == Reschedule

\* Only where the audio setting was on at launch.
Listening ==
    \/ audio /\ Reschedule
    \/ ~audio /\ UNCHANGED <<tap, starts, hasty, muted, pictured>>

\* Bound: MaxPending.
answerSelected ==
    /\ screen = "quiz" /\ Judge /\ Listening
    /\ UNCHANGED <<settings, screen, crashed, flags, closes, heard, photos, late>>
    /\ Bounded'

\* A hint, until there are none left; the theme is restarted.
Hint ==
    \/ /\ sound' = "effect" /\ themes' = themes + 1
       /\ UNCHANGED <<isPlaying, asked, stray>>
    \/ UNCHANGED soundVars

\* Bound: MaxPending.
ShowAnswer ==
    /\ screen = "quiz" /\ Hint
    /\ UNCHANGED <<settings, screen, crashed, flags, micVars, wayVars, late>>
    /\ Bounded'

\* viewDidDisappear
Disappear == cancelSpeechRecognition /\ leaving' = FALSE

Present(s) ==
    /\ screen' = s /\ Disappear
    /\ UNCHANGED <<settings, crashed, flags, starts, closes, photos, pictured, soundVars,
                   totals, exits>>

OpenCamera == screen = "quiz" /\ Present("camera") /\ UNCHANGED <<heard, muted, late>>

SayCamera ==
    \/ screen = "quiz" /\ Present("camera") /\ UNCHANGED <<muted, late>>
    \/ /\ screen # "quiz"
       /\ UNCHANGED <<settings, screen, crashed, flags, tap, starts, closes, photos, hasty, muted,
                      pictured, soundVars, wayVars, late>>

\* Mutant of SayExit: the theme is not stopped.
SayExitPlaying ==
    /\ exits' = exits + 1
    /\ UNCHANGED <<settings, screen, crashed, flags, tap, starts, closes, photos, hasty, muted,
                   pictured, sound, isPlaying, themes, asked, stray, totals, leaving, late>>

SayExit ==
    /\ sound' = "none" /\ exits' = exits + 1
    /\ UNCHANGED <<settings, screen, crashed, flags, tap, starts, closes, photos, hasty, muted,
                   pictured, isPlaying, themes, asked, stray, totals, leaving, late>>

\* An answer, a hint, the next question, the question, the score, the music.
SayCommand ==
    /\ \/ Judge
       \/ Hint /\ UNCHANGED wayVars
       \/ stopMusic /\ asked' = TRUE /\ UNCHANGED wayVars
    /\ Reschedule
    /\ UNCHANGED <<settings, screen, crashed, flags, closes, photos, late>>

SayNothing ==
    UNCHANGED <<settings, screen, crashed, flags, tap, starts, closes, photos, hasty, muted,
                pictured, soundVars, wayVars, late>>

\* Bound: MaxPending.
CheckVoiceCommands ==
    /\ heard > 0 /\ heard' = heard - 1
    /\ SayCommand \/ SayCamera \/ SayExit \/ SayNothing
    /\ Bounded'

----------------------------------------------------------------------------
(* The camera *)

\* The picker stays for another second, so that it may be cancelled twice.
\* Bound: MaxPending.
CancelPicker ==
    /\ screen = "camera" /\ closes' = closes + 1 /\ pictured' = TRUE
    /\ hasty' = (hasty \/ Pending)
    /\ UNCHANGED <<settings, screen, crashed, flags, tap, starts, heard, photos, muted,
                   soundVars, wayVars, late>>
    /\ Bounded'

\* Recognition starts whatever the audio setting was.
ClosePicker ==
    /\ closes > 0
    /\ \/ Crash
       \/ /\ startRecognize /\ closes' = closes - 1
          /\ screen' = IF screen = "camera" THEN "quiz" ELSE screen
          /\ UNCHANGED <<settings, crashed, flags, starts, heard, photos, hasty, muted, pictured,
                         soundVars, wayVars, late>>

\* Bound: MaxPending.
PickPhoto ==
    /\ screen = "camera" /\ screen' = "quiz"
    /\ photos' = photos + 1 /\ starts' = starts + 1 /\ pictured' = TRUE
    /\ hasty' = (hasty \/ Pending)
    /\ UNCHANGED <<settings, crashed, flags, tap, closes, heard, muted, soundVars, wayVars, late>>
    /\ Bounded'

\* A photo that reads as no choice changes nothing.  Bound: MaxPending.
CheckPhotoAnswer ==
    /\ photos > 0 /\ photos' = photos - 1
    /\ \/ Judge /\ Listening
       \/ UNCHANGED <<soundVars, wayVars, tap, starts, hasty, muted, pictured>>
    /\ UNCHANGED <<settings, screen, crashed, flags, closes, heard, late>>
    /\ Bounded'

----------------------------------------------------------------------------
(* Screens *)

Launch ==
    /\ screen = "off" /\ screen' = "menu" /\ crashed' = FALSE
    /\ audio' = on["audio"]
    /\ UNCHANGED <<settings, status, micVars, soundVars, wayVars, late>>

\* Mutant of checkSettings: the settings are not read again.
checkSettingsOnce == status

\* A status that is off stays off, whatever the setting says now.
checkSettings == [k \in Checked |-> status[k] /\ on[k]]

\* viewDidLoad
OpenQuiz ==
    /\ screen = "menu"
    /\ \/ audio /\ Crash
       \/ /\ IF audio THEN startRecognize ELSE UNCHANGED tap
          /\ screen' = "quiz"
          /\ status' = checkSettings
          /\ sound' = IF status'["music"] \/ ~Listed THEN "theme" ELSE "none"
          /\ muted' = FALSE /\ late' = FALSE
          /\ stray' = (stray \/ totals + exits > 0)
          /\ UNCHANGED <<settings, crashed, audio, starts, closes, heard, photos, hasty,
                         pictured, isPlaying, themes, asked, wayVars>>

Pause ==
    /\ screen = "quiz" /\ screen' = "paused" /\ sound' = "effect"
    /\ UNCHANGED <<settings, crashed, flags, micVars, isPlaying, themes, asked, stray,
                   wayVars, late>>

Resume ==
    /\ screen = "paused" /\ screen' = "quiz" /\ leaving' = FALSE
    /\ UNCHANGED <<settings, crashed, flags, micVars, soundVars, totals, exits, late>>

\* The restart of the pause sheet cancels recognition at once.
PressRestart ==
    /\ screen = "paused" /\ leaving' = TRUE
    /\ cancelSpeechRecognition /\ muted' = TRUE
    /\ UNCHANGED <<settings, screen, crashed, flags, starts, closes, heard, photos, pictured,
                   soundVars, totals, exits, late>>

PressExit ==
    /\ screen = "paused" /\ leaving' = TRUE
    /\ UNCHANGED <<settings, screen, crashed, flags, micVars, soundVars, totals, exits, late>>

LeaveSheet ==
    /\ screen = "paused" /\ leaving /\ Present("menu")
    /\ UNCHANGED <<heard, muted, late>>

\* The block of PresentTotalScreen.
PresentTotalScreen ==
    /\ totals > 0 /\ totals' = totals - 1
    /\ sound' = "none" /\ UNCHANGED <<isPlaying, themes, asked, stray>>
    /\ \/ InQuiz /\ screen' = "menu" /\ Disappear
       \/ ~InQuiz /\ UNCHANGED <<screen, tap, hasty, leaving>>
    /\ UNCHANGED <<settings, crashed, flags, starts, closes, heard, photos, muted, pictured,
                   exits, late>>

exit ==
    /\ exits > 0 /\ exits' = exits - 1
    /\ \/ InQuiz /\ screen' = "menu" /\ Disappear
       \/ ~InQuiz /\ UNCHANGED <<screen, tap, hasty, leaving>>
    /\ UNCHANGED <<settings, crashed, flags, starts, closes, heard, photos, muted, pictured,
                   soundVars, totals, late>>

\* Attempts or time run out with nothing answered.  Bound: MaxPending.
timerClass ==
    /\ screen # "off" /\ totals' = totals + 1
    /\ UNCHANGED <<settings, screen, crashed, flags, micVars, soundVars, exits, leaving, late>>
    /\ Bounded'

\* The switches are in the menu; the cloud deletes and registers an account
\* whenever it answers.
ChangeSettings ==
    /\ \/ screen = "menu" /\ (\E k \in Keys : switchAction(k)) /\ UNCHANGED late
       \/ screen # "off" /\ (ResetSettings \/ Register) /\ late' = (screen # "menu")
    /\ UNCHANGED <<screen, crashed, flags, micVars, soundVars, wayVars>>

\* The player ends the application.
Quit == screen # "off" /\ Gone /\ UNCHANGED <<settings, crashed>>

Block ==
    Restart \/ ClosePicker \/ CheckVoiceCommands \/ CheckPhotoAnswer \/ ThemeAgain
        \/ PresentTotalScreen \/ exit \/ LeaveSheet

Player ==
    Launch \/ OpenQuiz \/ answerSelected \/ ShowAnswer \/ OnOffSound \/ OpenCamera
        \/ CancelPicker \/ PickPhoto \/ Pause \/ Resume \/ PressRestart \/ PressExit
        \/ ChangeSettings \/ Quit

Next == Block \/ Player \/ Hear \/ timerClass

Spec == Init /\ [][Next]_vars
----------------------------------------------------------------------------
(* Properties *)

\* Every variable keeps its type, the switches and the flags copied from them
\* for every key.
TypeOK ==
    /\ SettingsTypeOK
    /\ screen \in {"off", "menu", "quiz", "paused", "camera"} /\ crashed \in BOOLEAN
    /\ audio \in BOOLEAN /\ status \in [Checked -> BOOLEAN]
    /\ tap \in BOOLEAN /\ starts \in Nat /\ closes \in Nat /\ heard \in Nat /\ photos \in Nat
    /\ hasty \in BOOLEAN /\ muted \in BOOLEAN /\ pictured \in BOOLEAN
    /\ sound \in {"none", "theme", "effect"} /\ isPlaying \in BOOLEAN /\ themes \in Nat
    /\ asked \in BOOLEAN /\ stray \in BOOLEAN
    /\ totals \in Nat /\ exits \in Nat /\ leaving \in BOOLEAN /\ late \in BOOLEAN

\* Outside the quiz the microphone is off and stays off, unless starts of
\* recognition were pending as the quiz disappeared: viewDidDisappear cancels
\* recognition and nothing that is scheduled.
SilentOutside ==
    screen \in {"off", "menu"} /\ ~hasty => ~tap /\ starts = 0 /\ closes = 0 /\ heard = 0

\* A quiz whose player asked for voice control keeps listening, whatever was
\* answered, said or photographed; the exception is a pause sheet told to
\* restart, which cancels recognition two seconds before it acts.
VoiceStaysOn ==
    audio /\ InQuiz /\ ~muted => tap \/ starts > 0

\* Without the audio setting the microphone is off, until a picker is closed.
MicNeedsSetting ==
    ~audio /\ ~pictured => ~tap /\ starts = 0 /\ heard = 0

\* The application ends with an exception only if starts of recognition
\* overlapped each other or a change of screen.
CrashNeedsOverlap ==
    [][crashed' /\ ~crashed => hasty]_vars

\* A status that is on in the quiz is on in the settings: what was switched off
\* is off in every quiz opened afterwards.
OffHonoured ==
    InQuiz /\ ~late => \A k \in Checked : status[k] => on[k]

\* A quiz opened with the music switched off is without its theme, from every
\* answer and hint that restarts it, unless the player asks for it by voice.
MusicOff ==
    InQuiz /\ ~on["music"] /\ Listed /\ ~asked /\ ~late => sound # "theme"

\* Leaving a quiz ends its theme, unless a block that was pending starts it on
\* the way out or later.
ThemeEnds ==
    screen = "menu" /\ sound = "theme" => stray
=============================================================================
