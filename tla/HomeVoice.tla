------------------------------ MODULE HomeVoice ------------------------------
(***************************************************************************)
(* The start screen with the quiz of the day and the home screen with its  *)
(* voice commands.  A home screen listens while its button is on; a        *)
(* recognised text runs the first case of a switch that matches it, and    *)
(* most cases cancel recognition and start it again a second later.        *)
(*                                                                         *)
(* Every return from a quiz makes a new home screen; the ones before stay  *)
(* alive, with what they scheduled.  Blocks scheduled for later run in any *)
(* order.  Starting recognition where a tap is still installed raises an   *)
(* exception that ends the application.                                    *)
(***************************************************************************)
EXTENDS Integers, Sequences, FiniteSets, Functions

CONSTANTS
    NCategories,    \* length of QuizCategories.categories, indexed from 0
    Draws,          \* indices the quiz of the day is drawn from
    Touched,        \* tabs the player may touch
    Named,          \* categories the player may name or touch
    Texts,          \* what recognition may report
    MaxHomes,       \* bound: home screens made between two launches
    MaxPending,     \* bound: texts, restarts, countdowns, loads and timers pending
    None

Tabs == 0..4
Categories == 0..(NCategories - 1)
Homes == 1..MaxHomes

\* What a text contains: the words the switch looks for, in its order, the
\* categories whose voice command or, after the question for a score, whose
\* name it contains, and the number of news categories.
Order == <<"news", "search", "quiz", "category", "league", "profile">>
Says == {Order[i] : i \in 1..6} \cup {"last", "score"}
TextType == [says : SUBSET Says, names : SUBSET Named, found : Nat]

ASSUME HomeAssumption ==
    /\ NCategories \in Nat /\ NCategories > 4
    /\ Draws \subseteq 0..(NCategories - 2) /\ Named \subseteq Categories
    /\ IsFiniteSet(Named) /\ Touched \subseteq Tabs
    /\ MaxHomes \in Nat /\ MaxPending \in Nat
    /\ Texts \subseteq TextType
    /\ None \notin Int

VARIABLES
    \* kept in UserDefaults
    index,          \* the key index: quiz of the day, or selected tab
    today,          \* the quiz of this day is drawn (saveddate is the current date)
    \* the application
    window,         \* "off", "start", "home", "covered" (home, out of sight) or
                    \* "away" (intro, quiz, results)
    crashed,        \* it ended with an exception
    shown,          \* start screen: the quiz of the day it shows
    going,          \* start screen: the buttons pressed, acting two seconds later
    opened,         \* the category the home or start screen was left for
    home,           \* the last home screen made
    on,             \* isStart: its button is on
    loads,          \* its score questions waiting for the cloud
    timers, seconds,    \* its score timers running, and the counter they share
    \* each home screen
    tap,            \* a tap is installed and recognition runs
    restarts,       \* startRecognize calls scheduled
    heard,          \* recognised texts queued on the main queue
    tab,            \* selectedIndex
    countdowns,     \* timers of six seconds and GoToStart blocks, by category
    \* history
    drawn,          \* the category drawn for this day
    fresh,          \* it was drawn when the start screen was made last
    tabbed,         \* a tab has been stored under the key index since
    hasty,          \* restarts of the home screen overlapped each other or a switch
    twice,          \* two score timers ran at once on the last home screen
    covered         \* the last home screen was covered while its button was on

stored == <<index, today, drawn, tabbed>>
startVars == <<shown, going, fresh>>
micVars == <<on, tap, restarts, heard, hasty, covered>>
scoreVars == <<loads, timers, seconds, twice>>
later == <<countdowns, scoreVars>>
vars == <<stored, window, crashed, startVars, opened, home, micVars, tab, later>>

ForHomes(v) == [h \in Homes |-> v]
Current(h) == window = "home" /\ h = home
Empty == [c \in Named |-> 0]

Total(f) == FoldFunction(+, 0, f)
Waiting == loads + timers + Total(restarts)
           + Total([h \in Homes |-> Len(heard[h]) + Total(countdowns[h])])
Bounded == Waiting <= MaxPending

\* What a process that ends loses.
Gone ==
    /\ window' = "off" /\ shown' = None /\ going' = {} /\ fresh' = FALSE
    /\ opened' = None /\ home' = 0
    /\ on' = FALSE /\ tap' = ForHomes(FALSE) /\ restarts' = ForHomes(0)
    /\ heard' = ForHomes(<<>>) /\ tab' = ForHomes(0)
    /\ countdowns' = ForHomes(Empty)
    /\ loads' = 0 /\ timers' = 0 /\ seconds' = 0 /\ twice' = FALSE
    /\ hasty' = ForHomes(FALSE) /\ covered' = FALSE

Init ==
    /\ index = 0 /\ today = FALSE /\ drawn = None /\ tabbed = FALSE
    /\ window = "off" /\ crashed = FALSE
    /\ shown = None /\ going = {} /\ fresh = FALSE /\ opened = None /\ home = 0
    /\ on = FALSE /\ tap = ForHomes(FALSE) /\ restarts = ForHomes(0)
    /\ heard = ForHomes(<<>>) /\ tab = ForHomes(0)
    /\ countdowns = ForHomes(Empty)
    /\ loads = 0 /\ timers = 0 /\ seconds = 0 /\ twice = FALSE
    /\ hasty = ForHomes(FALSE) /\ covered = FALSE

----------------------------------------------------------------------------
(* The start screen *)

\* Mutant of DrawnFrom: a closed range in the place of a half-open one.
DrawnFromClosed == Draws \cup {NCategories}

\* GenerateRandomIndex: never the last category.
DrawnFrom == Draws

\* Mutant of ShowStart: the index drawn is not stored.
ShowStartUnsaved ==
    /\ window = "off" /\ window' = "start" /\ crashed' = FALSE
    /\ shown' = index /\ today' = TRUE /\ fresh' = ~today
    /\ UNCHANGED index
    /\ IF today
       THEN UNCHANGED <<drawn, tabbed>>
       ELSE \E r \in DrawnFrom : drawn' = r /\ tabbed' = FALSE
    /\ UNCHANGED <<going, opened, home, micVars, tab, later>>

\* The index is read when the screen is made; only then, if the day has
\* changed, is another one drawn.
ShowStart ==
    /\ window = "off" /\ window' = "start" /\ crashed' = FALSE
    /\ shown' = index /\ today' = TRUE /\ fresh' = ~today
    /\ IF today
       THEN UNCHANGED <<index, drawn, tabbed>>
       ELSE \E r \in DrawnFrom : index' = r /\ drawn' = r /\ tabbed' = FALSE
    /\ UNCHANGED <<going, opened, home, micVars, tab, later>>

PressStart(b) ==
    /\ window = "start" /\ b \notin going /\ going' = going \cup {b}
    /\ UNCHANGED <<stored, window, crashed, shown, fresh, opened, home, micVars, tab, later>>

\* A block of the other button finds the start screen gone.
LeaveStart == going' = {} /\ shown' = None /\ fresh' = FALSE

GoToDailyQuiz ==
    /\ window = "start" /\ "daily" \in going
    /\ window' = "away" /\ opened' = shown
    /\ LeaveStart
    /\ UNCHANGED <<stored, crashed, home, micVars, tab, later>>

\* Mutant of SelectTab: the tab is stored before it changes (willSet).
SelectTabBefore(h, t) ==
    /\ tab' = [tab EXCEPT ![h] = t] /\ index' = tab[h] /\ tabbed' = TRUE
    /\ UNCHANGED <<today, drawn>>

\* Selecting a tab, whoever selects it, stores it.
SelectTab(h, t) ==
    /\ tab' = [tab EXCEPT ![h] = t] /\ index' = t /\ tabbed' = TRUE
    /\ UNCHANGED <<today, drawn>>

\* A home screen opens on the tab stored, or on the first one; the category
\* drawn may be no tab.  Bound: MaxHomes.
OpenHome ==
    /\ home < MaxHomes /\ home' = home + 1
    /\ window' = "home" /\ opened' = None
    /\ \E t \in Tabs : (index \in Tabs => t \in {index, 0}) /\ SelectTab(home + 1, t)
    /\ on' = FALSE /\ covered' = FALSE
    /\ loads' = 0 /\ timers' = 0 /\ seconds' = 0 /\ twice' = FALSE
    /\ UNCHANGED <<crashed, tap, restarts, heard, hasty, countdowns>>

GoToQuizApp == window = "start" /\ "app" \in going /\ OpenHome /\ LeaveStart

\* The results, the pause sheet and a voice command of the quiz end here.
ReturnHome == window = "away" /\ OpenHome /\ UNCHANGED startVars

----------------------------------------------------------------------------
(* The microphone *)

Pending(h) == restarts[h] > 0 \/ heard[h] # <<>>

\* A second tap on the audio input ends the application.
Crash == Gone /\ crashed' = TRUE /\ UNCHANGED stored

startRecognize(h) ==
    /\ ~tap[h] /\ tap' = [tap EXCEPT ![h] = TRUE]
    /\ UNCHANGED <<stored, window, crashed, startVars, opened, home, tab, later>>

\* Mutant of cancelSpeechRecognition: the tap is not removed.
cancelSpeechRecognitionTapped(h) ==
    /\ hasty' = [hasty EXCEPT ![h] = @ \/ Pending(h)]
    /\ UNCHANGED <<tap, restarts, heard>>

\* Switching off and leaving cancel recognition, but nothing that is scheduled.
cancelSpeechRecognition(h) ==
    /\ tap' = [tap EXCEPT ![h] = FALSE]
    /\ hasty' = [hasty EXCEPT ![h] = @ \/ Pending(h)]
    /\ UNCHANGED <<restarts, heard>>

\* The button of the home screen.
VoiceCommands(h) ==
    /\ Current(h)
    /\ \/ ~on /\ tap[h] /\ Crash
       \/ /\ ~on /\ startRecognize(h)
          /\ on' = TRUE /\ covered' = FALSE
          /\ UNCHANGED <<restarts, heard, hasty>>
       \/ /\ on /\ cancelSpeechRecognition(h)
          /\ on' = FALSE
          /\ UNCHANGED <<stored, window, crashed, startVars, opened, home, covered, tab, later>>

\* A block scheduled by a command, whatever happened since.
Restart(h) ==
    /\ restarts[h] > 0
    /\ \/ tap[h] /\ Crash
       \/ /\ startRecognize(h) /\ restarts' = [restarts EXCEPT ![h] = @ - 1]
          /\ UNCHANGED <<on, heard, hasty, covered>>

\* The recogniser reports what was said so far.  Bound: MaxPending.
Hear(h) ==
    /\ tap[h]
    /\ \E t \in Texts : heard' = [heard EXCEPT ![h] = Append(@, t)]
    /\ UNCHANGED <<stored, window, crashed, startVars, opened, home, on, tap, restarts,
                   hasty, covered, tab, later>>
    /\ Bounded'

----------------------------------------------------------------------------
(* The commands *)

\* The first case that matches; the search only counts on the news tab.
Case(h, t) ==
    LET matches == {i \in 1..6 : Order[i] \in t.says /\ (Order[i] = "search" => tab[h] = 0)}
    IN  IF matches = {} THEN "text" ELSE Order[CHOOSE i \in matches : \A j \in matches : i <= j]

TabOf == [news |-> 0, quiz |-> 1, league |-> 3, profile |-> 4]

\* Mutant of Reschedule: recognition is not started again.
RescheduleNever(h, n) ==
    /\ tap' = [tap EXCEPT ![h] = @ /\ n = 0]
    /\ UNCHANGED <<restarts, hasty, on, covered>>

\* Mutant of Reschedule: recognition is not cancelled first.
RescheduleListening(h, n) ==
    /\ restarts' = [restarts EXCEPT ![h] = @ + n]
    /\ hasty' = [hasty EXCEPT ![h] = @ \/ n > 1 \/ (n = 1 /\ restarts[h] > 0)]
    /\ UNCHANGED <<tap, on, covered>>

\* Each branch that matches cancels and schedules a restart of its own.
Reschedule(h, n) ==
    /\ restarts' = [restarts EXCEPT ![h] = @ + n]
    /\ tap' = [tap EXCEPT ![h] = @ /\ n = 0]
    /\ hasty' = [hasty EXCEPT ![h] = @ \/ n > 1 \/ (n = 1 /\ restarts[h] > 0)]
    /\ UNCHANGED <<on, covered>>

SayTab(h, case) ==
    /\ case \in DOMAIN TabOf /\ SelectTab(h, TabOf[case])
    /\ Reschedule(h, 1)
    /\ UNCHANGED later

Search(h, t) == Reschedule(h, t.found) /\ UNCHANGED <<stored, tab, later>>

\* The last category is shown; the scores asked for are loaded.
AskCategory(h, t) ==
    LET asked == IF "score" \in t.says THEN Cardinality(t.names) ELSE 0
    IN  /\ loads' = IF h = home THEN loads + asked ELSE loads
        /\ Reschedule(h, asked + IF "last" \in t.says THEN 1 ELSE 0)
        /\ UNCHANGED <<stored, tab, timers, seconds, twice, countdowns>>

\* Any other text: a countdown for each category named, recognition goes on.
Countdown(h, t) ==
    /\ countdowns' = [countdowns EXCEPT ![h] =
           [c \in Named |-> @[c] + IF c \in t.names THEN 1 ELSE 0]]
    /\ UNCHANGED <<stored, tab, on, tap, restarts, hasty, covered, scoreVars>>

\* Bound: MaxPending.
CheckVoiceCommands(h) ==
    /\ heard[h] # <<>> /\ heard' = [heard EXCEPT ![h] = Tail(@)]
    /\ LET t == Head(heard[h])
           case == Case(h, t)
       IN  \/ SayTab(h, case)
           \/ case = "search" /\ Search(h, t)
           \/ case = "category" /\ AskCategory(h, t)
           \/ case = "text" /\ Countdown(h, t)
    /\ UNCHANGED <<window, crashed, startVars, opened, home>>
    /\ Bounded'

\* Mutant of ScoreLoaded: the counter is not set.
ScoreLoadedUnset ==
    /\ loads > 0 /\ loads' = loads - 1
    /\ timers' = timers + 1 /\ twice' = (twice \/ timers > 0)
    /\ UNCHANGED <<stored, window, crashed, startVars, opened, home, micVars, tab, countdowns, seconds>>

\* The score arrives: a timer starts, and sets the counter of all of them.
ScoreLoaded ==
    /\ loads > 0 /\ loads' = loads - 1
    /\ timers' = timers + 1 /\ seconds' = 2 /\ twice' = (twice \/ timers > 0)
    /\ UNCHANGED <<stored, window, crashed, startVars, opened, home, micVars, tab, countdowns>>

\* The timer that takes the shared counter to zero stops.  Bound: everything
\* below zero is -1.
ScoreTick ==
    /\ timers > 0
    /\ seconds' = IF seconds < 0 THEN seconds ELSE seconds - 1
    /\ timers' = IF seconds = 1 THEN timers - 1 ELSE timers
    /\ UNCHANGED <<stored, window, crashed, startVars, opened, home, micVars, tab, countdowns,
                   loads, twice>>

----------------------------------------------------------------------------
(* Leaving the home screen *)

\* viewDidDisappear
Leave(h, w) ==
    /\ Current(h) /\ window' = w
    /\ cancelSpeechRecognition(h)
    /\ covered' = on
    /\ UNCHANGED <<stored, crashed, startVars, home, on, tab, scoreVars>>

\* A category chosen by touch.
ChooseCategory(h) ==
    Leave(h, "away") /\ opened' \in Named /\ UNCHANGED countdowns

\* An article shown over the home screen, and closed again.
Cover(h) == Leave(h, "covered") /\ UNCHANGED <<opened, countdowns>>

Uncover ==
    /\ window = "covered" /\ window' = "home"
    /\ UNCHANGED <<stored, crashed, startVars, opened, home, micVars, tab, later>>

\* Mutant of GoToStart: the window is not asked for.
GoToStartAnyway(h, c) ==
    /\ countdowns[h][c] > 0
    /\ countdowns' = [countdowns EXCEPT ![h][c] = @ - 1]
    /\ \/ Leave(h, "away") /\ opened' = c
       \/ /\ ~Current(h) /\ window' = "away" /\ opened' = c
          /\ UNCHANGED <<stored, crashed, startVars, home, micVars, tab, scoreVars>>

\* The end of a countdown, in GoToStart: a home screen that is in no window
\* opens nothing.
GoToStart(h, c) ==
    /\ countdowns[h][c] > 0
    /\ countdowns' = [countdowns EXCEPT ![h][c] = @ - 1]
    /\ \/ Leave(h, "away") /\ opened' = c
       \/ /\ ~Current(h)
          /\ UNCHANGED <<stored, window, crashed, startVars, opened, home, micVars, tab, scoreVars>>

TouchTab(h) ==
    /\ Current(h) /\ \E t \in Touched : SelectTab(h, t)
    /\ UNCHANGED <<window, crashed, startVars, opened, home, micVars, later>>

\* The player ends the application; the date changes before the next launch.
Quit == window # "off" /\ Gone /\ UNCHANGED <<stored, crashed>>

NewDay ==
    /\ window = "off" /\ today /\ today' = FALSE
    /\ UNCHANGED <<index, drawn, tabbed, window, crashed, startVars, opened, home, micVars,
                   tab, later>>

Callback(h) ==
    \/ Restart(h) \/ CheckVoiceCommands(h) \/ \E c \in Named : GoToStart(h, c)

Player ==
    \/ ShowStart \/ \E b \in {"app", "daily"} : PressStart(b)
    \/ GoToDailyQuiz \/ GoToQuizApp \/ ReturnHome \/ Uncover \/ Quit \/ NewDay
    \/ \E h \in Homes : VoiceCommands(h) \/ Hear(h) \/ ChooseCategory(h)
                        \/ Cover(h) \/ TouchTab(h)

Next == Player \/ ScoreLoaded \/ ScoreTick \/ \E h \in Homes : Callback(h)

Spec == Init /\ [][Next]_vars
----------------------------------------------------------------------------
(* Properties *)

\* Every variable keeps its type; the key index always points into the array
\* of categories, by which the start screen indexes it without a check.
TypeOK ==
    /\ index \in Categories /\ today \in BOOLEAN /\ tabbed \in BOOLEAN
    /\ drawn \in Categories \cup {None}
    /\ window \in {"off", "start", "home", "covered", "away"} /\ crashed \in BOOLEAN
    /\ shown \in Categories \cup {None} /\ going \subseteq {"app", "daily"} /\ fresh \in BOOLEAN
    /\ opened \in Categories \cup {None} /\ home \in 0..MaxHomes
    /\ on \in BOOLEAN /\ covered \in BOOLEAN /\ tap \in [Homes -> BOOLEAN]
    /\ restarts \in [Homes -> Nat] /\ heard \in [Homes -> Seq(Texts)]
    /\ hasty \in [Homes -> BOOLEAN]
    /\ tab \in [Homes -> Tabs]
    /\ countdowns \in [Homes -> [Named -> Nat]]
    /\ loads \in Nat /\ timers \in Nat /\ seconds \in -1..2 /\ twice \in BOOLEAN

\* A home screen that is switched off or out of sight does not listen and will
\* not listen again, unless restarts of its recognition overlapped each other
\* or a switch: cancelSpeechRecognition leaves the restarts that the switch of
\* CheckVoiceCommands has scheduled.
SilentWhenOff ==
    \A h \in Homes : ~hasty[h] /\ ~(on /\ Current(h))
                        => ~tap[h] /\ restarts[h] = 0 /\ heard[h] = <<>>

\* A button that is on means that the home screen listens or is about to, from
\* any sequence of commands; the exception is a home screen that was covered
\* by another one, whose viewDidDisappear cancels and leaves the button on.
ListensWhileOn ==
    \A h \in Homes : Current(h) /\ on /\ ~covered => tap[h] \/ restarts[h] > 0

\* The tab stored for the next launch is the one the player sees, unless an
\* earlier home screen still hears commands.
TabStored ==
    window = "home" /\ (\A h \in Homes : h < home => ~hasty[h]) => index = tab[home]

\* The quiz of the day stays the same for the day: a start screen that does not
\* itself draw shows the one drawn, as long as no tab was stored in its place.
DailyQuizKept ==
    window = "start" /\ ~fresh /\ ~tabbed => shown = drawn

\* The application ends with an exception only if restarts of recognition
\* overlapped each other or a switch on the same home screen.
CrashNeedsOverlap ==
    [][crashed' /\ ~crashed => \E h \in Homes : hasty[h]]_vars

\* Of several countdowns one opens its quiz; the ones that end later, of this
\* home screen or of an earlier one, do not replace it.
OneQuizAtATime ==
    [][window = "away" /\ window' = "away" => opened' = opened]_vars

\* The score asked for is shown and its timer stops: the counter of a timer that
\* runs alone is on its way to zero.  Two timers share the counter, so that one
\* of them misses zero and runs on for ever.
ScoreTimerStops ==
    timers > 0 /\ ~twice => timers = 1 /\ seconds \in 1..2
=============================================================================
