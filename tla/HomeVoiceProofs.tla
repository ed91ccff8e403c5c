--------------------------- MODULE HomeVoiceProofs ---------------------------
(* Theorems about HomeVoice.  The microphone invariant MicInv carries the   *)
(* argument: restarts that never overlapped are one at a time, so that a   *)
(* screen which is off or hidden has none left.                            *)
EXTENDS HomeVoice, SequenceTheorems, FiniteSetTheorems, TLAPS

LEMMA Facts ==
    /\ NCategories \in Nat /\ NCategories > 4
    /\ Tabs \subseteq Categories /\ Draws \subseteq Categories
    /\ Named \subseteq Categories /\ Touched \subseteq Tabs
    /\ MaxHomes \in Nat
BY HomeAssumption DEF Tabs, Categories

LEMMA InitTypeOK == Init => TypeOK
<1> SUFFICES ASSUME Init PROVE TypeOK
  OBVIOUS
<1>1. index \in Categories /\ home \in 0..MaxHomes /\ seconds \in -1..2
  BY Facts DEF Init, Categories
<1>2. heard \in [Homes -> Seq(Texts)]
  BY DEF Init, ForHomes
<1>3. tab \in [Homes -> Tabs] /\ countdowns \in [Homes -> [Named -> Nat]]
  BY DEF Init, ForHomes, Tabs, Empty
<1>4. /\ tap \in [Homes -> BOOLEAN] /\ hasty \in [Homes -> BOOLEAN]
      /\ restarts \in [Homes -> Nat]
  BY DEF Init, ForHomes
<1>5. /\ today \in BOOLEAN /\ tabbed \in BOOLEAN /\ crashed \in BOOLEAN
      /\ fresh \in BOOLEAN /\ on \in BOOLEAN /\ covered \in BOOLEAN /\ twice \in BOOLEAN
  BY DEF Init
<1>6. /\ drawn \in Categories \cup {None} /\ shown \in Categories \cup {None}
      /\ opened \in Categories \cup {None}
      /\ window \in {"off", "start", "home", "covered", "away"}
      /\ going \subseteq {"app", "daily"} /\ loads \in Nat /\ timers \in Nat 
  BY DEF Init
<1> QED BY <1>1, <1>2, <1>3, <1>4, <1>5, <1>6 DEF TypeOK

\* The parts of TypeOK that most actions leave alone or change together.
StoredType ==
    /\ index \in Categories /\ today \in BOOLEAN /\ tabbed \in BOOLEAN
    /\ drawn \in Categories \cup {None} /\ tab \in [Homes -> Tabs]

ScreenType ==
    /\ window \in {"off", "start", "home", "covered", "away"} /\ crashed \in BOOLEAN
    /\ shown \in Categories \cup {None} /\ going \subseteq {"app", "daily"} /\ fresh \in BOOLEAN
    /\ opened \in Categories \cup {None} /\ home \in 0..MaxHomes

MicType ==
    /\ on \in BOOLEAN /\ covered \in BOOLEAN /\ tap \in [Homes -> BOOLEAN]
    /\ restarts \in [Homes -> Nat] /\ heard \in [Homes -> Seq(Texts)]
    /\ hasty \in [Homes -> BOOLEAN]

LaterType ==
    /\ countdowns \in [Homes -> [Named -> Nat]]
    /\ loads \in Nat /\ timers \in Nat /\ seconds \in -1..2 /\ twice \in BOOLEAN

LEMMA TypeParts == TypeOK <=> StoredType /\ ScreenType /\ MicType /\ LaterType
BY DEF TypeOK, StoredType, ScreenType, MicType, LaterType

LEMMA InitParts == Init => StoredType /\ ScreenType /\ MicType /\ LaterType
BY InitTypeOK, TypeParts

LEMMA Kept ==
    /\ StoredType /\ UNCHANGED <<stored, tab>> => StoredType'
    /\ ScreenType /\ UNCHANGED <<window, crashed, startVars, opened, home>> => ScreenType'
    /\ MicType /\ UNCHANGED micVars => MicType'
    /\ LaterType /\ UNCHANGED later => LaterType'
<1>1. StoredType /\ UNCHANGED <<stored, tab>> => StoredType'
  BY DEF StoredType, stored
<1>2. ScreenType /\ UNCHANGED <<window, crashed, startVars, opened, home>> => ScreenType'
  BY DEF ScreenType, startVars
<1>3. MicType /\ UNCHANGED micVars => MicType'
  BY DEF MicType, micVars
<1>4. LaterType /\ UNCHANGED later => LaterType'
  BY DEF LaterType, later, scoreVars
<1> QED BY <1>1, <1>2, <1>3, <1>4

LEMMA SelectTabType ==
    ASSUME StoredType, NEW h \in Homes, NEW t \in Tabs, SelectTab(h, t)
    PROVE  StoredType'
BY Facts DEF StoredType, SelectTab

LEMMA OpenHomeType ==
    ASSUME TypeOK, OpenHome
    PROVE  /\ StoredType' /\ MicType' /\ LaterType'
           /\ home' \in 0..MaxHomes /\ opened' = None /\ window' = "home" /\ crashed' = crashed
<1>1. home + 1 \in Homes /\ home' = home + 1 /\ home' \in 0..MaxHomes
  BY Facts DEF OpenHome, TypeOK, Homes
<1>2. StoredType'
  <2>1. PICK t \in Tabs : SelectTab(home + 1, t)
    BY DEF OpenHome
  <2> QED BY <1>1, <2>1, SelectTabType, TypeParts
<1>3. MicType'
  BY TypeParts DEF OpenHome, MicType
<1>4. LaterType'
  <2>1. loads' \in Nat /\ timers' \in Nat /\ seconds' \in -1..2
    BY DEF OpenHome
  <2>3. twice' \in BOOLEAN
    BY DEF OpenHome
  <2>2. countdowns' \in [Homes -> [Named -> Nat]]
    BY TypeParts DEF OpenHome, LaterType
  <2> QED BY <2>1, <2>2, <2>3 DEF LaterType
<1> QED BY <1>1, <1>2, <1>3, <1>4 DEF OpenHome

LEMMA GoneType ==
    ASSUME TypeOK, Gone, UNCHANGED stored, crashed' \in BOOLEAN
    PROVE  TypeOK'
<1>1. tab' \in [Homes -> Tabs] /\ StoredType'
  BY TypeParts DEF Gone, StoredType, stored, ForHomes, Tabs
<1>2. ScreenType'
  <2>1. home' \in 0..MaxHomes
    BY Facts DEF Gone
  <2>2. /\ window' \in {"off", "start", "home", "covered", "away"}
        /\ going' \subseteq {"app", "daily"}
        /\ shown' \in Categories \cup {None} /\ opened' \in Categories \cup {None}
    BY DEF Gone
  <2>3. fresh' \in BOOLEAN
    BY DEF Gone
  <2> QED BY <2>1, <2>2, <2>3 DEF ScreenType
<1>3. MicType'
  <2>1. /\ tap' \in [Homes -> BOOLEAN] /\ hasty' \in [Homes -> BOOLEAN]
        /\ restarts' \in [Homes -> Nat]
    BY DEF Gone, ForHomes
  <2>2. heard' \in [Homes -> Seq(Texts)]
    BY DEF Gone, ForHomes
  <2>3. on' \in BOOLEAN /\ covered' \in BOOLEAN
    BY DEF Gone
  <2> QED BY <2>1, <2>2, <2>3 DEF MicType
<1>4. LaterType'
  <2>1. loads' \in Nat /\ timers' \in Nat /\ seconds' \in -1..2
    BY DEF Gone
  <2>3. twice' \in BOOLEAN
    BY DEF Gone
  <2>2. countdowns' \in [Homes -> [Named -> Nat]]
    BY DEF Gone, ForHomes, Empty
  <2> QED BY <2>1, <2>2, <2>3 DEF LaterType
<1> QED BY <1>1, <1>2, <1>3, <1>4, TypeParts DEF TypeOK, StoredType, ScreenType, MicType, LaterType

LEMMA CancelType ==
    ASSUME MicType, NEW h \in Homes, cancelSpeechRecognition(h),
           on' \in BOOLEAN, covered' \in BOOLEAN
    PROVE  MicType'
<1>1. Pending(h) \in BOOLEAN
  BY DEF Pending
<1>2. tap' \in [Homes -> BOOLEAN] /\ hasty' \in [Homes -> BOOLEAN]
  BY <1>1 DEF MicType, cancelSpeechRecognition
<1> QED BY <1>2 DEF MicType, cancelSpeechRecognition

LEMMA NamesCount ==
    ASSUME NEW t \in Texts
    PROVE  Cardinality(t.names) \in Nat /\ t.found \in Nat
<1>1. t.names \in SUBSET Named /\ IsFiniteSet(Named) /\ t.found \in Nat
  BY HomeAssumption DEF TextType
<1> QED BY <1>1, FS_Subset, FS_CardinalityType

\* The actions by what they share: the screens around the home screen, the
\* commands, the rest of a home screen, and the score timers.
ScreenStep ==
    \/ ShowStart \/ (\E b \in {"app", "daily"} : PressStart(b))
    \/ GoToDailyQuiz \/ GoToQuizApp \/ ReturnHome \/ Uncover \/ Quit \/ NewDay

HomeStep(h) ==
    \/ VoiceCommands(h) \/ Hear(h) \/ ChooseCategory(h) \/ Cover(h) \/ TouchTab(h)
    \/ Restart(h) \/ \E c \in Named : GoToStart(h, c)

LEMMA NextCases ==
    Next <=> \/ ScreenStep \/ ScoreLoaded \/ ScoreTick
             \/ \E h \in Homes : HomeStep(h) \/ CheckVoiceCommands(h)
BY DEF Next, Player, Callback, ScreenStep, HomeStep

LEMMA LeaveType ==
    ASSUME TypeOK, NEW h \in Homes, NEW w \in {"away", "covered"}, Leave(h, w),
           opened' \in Categories \cup {None}, countdowns' \in [Homes -> [Named -> Nat]]
    PROVE  TypeOK'
<1>1. StoredType' /\ MicType'
  <2>1. on' \in BOOLEAN /\ covered' \in BOOLEAN
    BY TypeParts DEF Leave, MicType
  <2> QED BY <2>1, TypeParts, Kept, CancelType DEF Leave
<1>2. ScreenType'
  <2>1. window' \in {"off", "start", "home", "covered", "away"}
    BY DEF Leave
  <2> QED BY <2>1, TypeParts DEF Leave, ScreenType, startVars
<1>3. LaterType'
  BY TypeParts DEF Leave, LaterType, scoreVars
<1> QED BY <1>1, <1>2, <1>3, TypeParts DEF TypeOK, StoredType, ScreenType, MicType, LaterType

LEMMA ScreenStepType ==
    ASSUME TypeOK, ScreenStep
    PROVE  TypeOK'
<1> USE TypeParts
<1>1. CASE ShowStart
  <2>1. MicType' /\ LaterType'
    BY <1>1, Kept DEF ShowStart
  <2>2. ScreenType'
    <3>1. window' \in {"off", "start", "home", "covered", "away"} /\ shown' \in Categories \cup {None}
      BY <1>1 DEF ShowStart, ScreenType, StoredType
    <3>2. crashed' \in BOOLEAN /\ fresh' \in BOOLEAN
      BY <1>1 DEF ShowStart, StoredType
    <3> QED BY <1>1, <3>1, <3>2 DEF ShowStart, ScreenType
  <2>3. StoredType'
    <3>1. index' \in Categories /\ drawn' \in Categories \cup {None}
      BY <1>1, Facts DEF ShowStart, StoredType, DrawnFrom
    <3>2. today' \in BOOLEAN /\ tabbed' \in BOOLEAN
      BY <1>1 DEF ShowStart, StoredType
    <3> QED BY <1>1, <3>1, <3>2 DEF ShowStart, StoredType
  <2> QED BY <2>1, <2>2, <2>3 DEF TypeOK, StoredType, ScreenType, MicType, LaterType
<1>2. ASSUME NEW b \in {"app", "daily"}, PressStart(b) PROVE TypeOK'
  <2>1. StoredType' /\ MicType' /\ LaterType'
    BY <1>2, Kept DEF PressStart
  <2>2. ScreenType'
    BY <1>2 DEF PressStart, ScreenType
  <2> QED BY <2>1, <2>2 DEF TypeOK, StoredType, ScreenType, MicType, LaterType
<1>3. CASE GoToDailyQuiz
  <2>1. StoredType' /\ MicType' /\ LaterType'
    BY <1>3, Kept DEF GoToDailyQuiz
  <2>2. ScreenType'
    <3>1. fresh' \in BOOLEAN
      BY <1>3 DEF GoToDailyQuiz, LeaveStart
    <3> QED BY <1>3, <3>1 DEF GoToDailyQuiz, LeaveStart, ScreenType
  <2> QED BY <2>1, <2>2 DEF TypeOK, StoredType, ScreenType, MicType, LaterType
<1>4. ASSUME OpenHome, \/ LeaveStart \/ UNCHANGED startVars PROVE TypeOK'
  <2>1. /\ StoredType' /\ MicType' /\ LaterType' /\ home' \in 0..MaxHomes
        /\ opened' = None /\ window' = "home" /\ crashed' = crashed
    BY <1>4, OpenHomeType
  <2>2. fresh' \in BOOLEAN /\ crashed' \in BOOLEAN
    BY <1>4, <2>1 DEF LeaveStart, ScreenType, startVars
  <2>3. going' \subseteq {"app", "daily"} /\ shown' \in Categories \cup {None}
    BY <1>4 DEF LeaveStart, ScreenType, startVars
  <2>4. window' \in {"off", "start", "home", "covered", "away"} /\ opened' \in Categories \cup {None}
    BY <2>1
  <2>5. ScreenType'
    BY <2>1, <2>2, <2>3, <2>4 DEF ScreenType
  <2> QED BY <2>1, <2>5 DEF TypeOK, StoredType, ScreenType, MicType, LaterType
<1>5. CASE Uncover
  <2>1. StoredType' /\ MicType' /\ LaterType'
    BY <1>5, Kept DEF Uncover
  <2>2. ScreenType'
    BY <1>5 DEF Uncover, ScreenType, startVars
  <2> QED BY <2>1, <2>2 DEF TypeOK, StoredType, ScreenType, MicType, LaterType
<1>6. CASE Quit
  <2>1. crashed' \in BOOLEAN
    BY <1>6 DEF Quit, ScreenType
  <2> QED BY <1>6, <2>1, GoneType DEF Quit
<1>7. CASE NewDay
  <2>1. ScreenType' /\ MicType' /\ LaterType'
    BY <1>7, Kept DEF NewDay
  <2>2. StoredType'
    BY <1>7 DEF NewDay, StoredType
  <2> QED BY <2>1, <2>2 DEF TypeOK, StoredType, ScreenType, MicType, LaterType
<1> QED BY <1>1, <1>2, <1>3, <1>4, <1>5, <1>6, <1>7 DEF ScreenStep, GoToQuizApp, ReturnHome

LEMMA CrashType == TypeOK /\ Crash => TypeOK'
BY GoneType DEF Crash

LEMMA StartType ==
    ASSUME TypeOK, NEW h \in Homes, startRecognize(h)
    PROVE  /\ StoredType' /\ ScreenType' /\ LaterType'
           /\ tap' \in [Homes -> BOOLEAN]
<1>1. StoredType' /\ ScreenType' /\ LaterType'
  BY TypeParts, Kept DEF startRecognize
<1>2. tap' \in [Homes -> BOOLEAN]
  BY DEF startRecognize, TypeOK
<1> QED BY <1>1, <1>2

LEMMA RescheduleType ==
    ASSUME MicType, NEW h \in Homes, NEW n \in Nat, Reschedule(h, n), heard' \in [Homes -> Seq(Texts)]
    PROVE  MicType'
<1>1. tap' \in [Homes -> BOOLEAN]
  BY DEF Reschedule, MicType
<1>2. hasty' \in [Homes -> BOOLEAN]
  BY DEF Reschedule, MicType
<1>3. restarts' \in [Homes -> Nat]
  BY DEF Reschedule, MicType
<1>4. on' \in BOOLEAN /\ covered' \in BOOLEAN
  BY DEF Reschedule, MicType
<1> QED BY <1>1, <1>2, <1>3, <1>4 DEF MicType

LEMMA CommandType ==
    ASSUME TypeOK, NEW h \in Homes, CheckVoiceCommands(h)
    PROVE  TypeOK'
<1> USE TypeParts
<1> DEFINE t == Head(heard[h])
<1>1. /\ heard[h] \in Seq(Texts) /\ heard[h] # <<>>
  BY DEF CheckVoiceCommands, TypeOK
<1>2. t \in Texts /\ Tail(heard[h]) \in Seq(Texts)
  BY <1>1, HeadTailProperties
<1>3. heard' \in [Homes -> Seq(Texts)]
  BY <1>2 DEF CheckVoiceCommands, TypeOK
<1>4. ScreenType'
  BY Kept DEF CheckVoiceCommands
<1>5. CASE SayTab(h, Case(h, t))
  <2>1. TabOf[Case(h, t)] \in Tabs
    BY <1>5 DEF SayTab, TabOf, Tabs
  <2>2. StoredType' /\ LaterType'
    BY <1>5, <2>1, SelectTabType, Kept DEF SayTab
  <2>3. MicType'
    BY <1>3, <1>5, RescheduleType DEF SayTab
  <2> QED BY <1>4, <2>2, <2>3 DEF TypeOK, StoredType, ScreenType, MicType, LaterType
<1>6. CASE Search(h, t)
  <2>1. StoredType' /\ LaterType'
    BY <1>6, Kept DEF Search
  <2>2. MicType'
    BY <1>2, <1>3, <1>6, NamesCount, RescheduleType DEF Search
  <2> QED BY <1>4, <2>1, <2>2 DEF TypeOK, StoredType, ScreenType, MicType, LaterType
<1>7. CASE AskCategory(h, t)
  <2> DEFINE asked == IF "score" \in t.says THEN Cardinality(t.names) ELSE 0
             n == asked + IF "last" \in t.says THEN 1 ELSE 0
  <2>1. asked \in Nat /\ n \in Nat
    BY <1>2, NamesCount
  <2>2. Reschedule(h, n) /\ loads' = IF h = home THEN loads + asked ELSE loads
    BY <1>7 DEF AskCategory
  <2>3. MicType'
    <3> HIDE DEF n
    <3> QED BY <1>3, <2>1, <2>2, RescheduleType
  <2>4. LaterType'
    <3> HIDE DEF asked
    <3>1. loads' \in Nat
      BY <2>1, <2>2 DEF LaterType
    <3> QED BY <1>7, <3>1 DEF AskCategory, LaterType
  <2>5. StoredType'
    BY <1>7, Kept DEF AskCategory
  <2> QED BY <1>4, <2>3, <2>4, <2>5 DEF TypeOK, StoredType, ScreenType, MicType, LaterType
<1>8. CASE Countdown(h, t)
  <2>1. StoredType'
    BY <1>8, Kept DEF Countdown
  <2>2. MicType'
    BY <1>3, <1>8 DEF Countdown, MicType
  <2>3. countdowns' \in [Homes -> [Named -> Nat]]
    BY <1>8 DEF Countdown, LaterType
  <2>4. LaterType'
    BY <1>8, <2>3 DEF Countdown, LaterType, scoreVars
  <2> QED BY <1>4, <2>1, <2>2, <2>4 DEF TypeOK, StoredType, ScreenType, MicType, LaterType
<1> QED BY <1>5, <1>6, <1>7, <1>8 DEF CheckVoiceCommands

LEMMA HomeStepType ==
    ASSUME TypeOK, NEW h \in Homes, HomeStep(h)
    PROVE  TypeOK'
<1> USE TypeParts
<1>1. CASE VoiceCommands(h)
  <2>1. CASE Crash
    BY <2>1, CrashType
  <2>2. CASE /\ ~on /\ startRecognize(h)
             /\ on' = TRUE /\ covered' = FALSE
             /\ UNCHANGED <<restarts, heard, hasty>>
    <3>1. MicType'
      BY <2>2, StartType DEF MicType
    <3> QED BY <2>2, <3>1, StartType DEF TypeOK, StoredType, ScreenType, MicType, LaterType
  <2>3. CASE /\ on /\ cancelSpeechRecognition(h)
             /\ on' = FALSE
             /\ UNCHANGED <<stored, window, crashed, startVars, opened, home, covered, tab, later>>
    <3>1. covered' \in BOOLEAN /\ on' \in BOOLEAN
      BY <2>3 DEF MicType
    <3>2. MicType'
      BY <2>3, <3>1, CancelType
    <3>3. StoredType' /\ ScreenType' /\ LaterType'
      BY <2>3, Kept
    <3> QED BY <3>2, <3>3 DEF TypeOK, StoredType, ScreenType, MicType, LaterType
  <2> QED BY <1>1, <2>1, <2>2, <2>3 DEF VoiceCommands
<1>2. CASE Hear(h)
  <2>1. PICK t \in Texts : heard' = [heard EXCEPT ![h] = Append(@, t)]
    BY <1>2 DEF Hear
  <2>2. heard' \in [Homes -> Seq(Texts)]
    BY <2>1, AppendProperties DEF MicType
  <2>3. MicType'
    BY <1>2, <2>2 DEF Hear, MicType
  <2>4. StoredType' /\ ScreenType' /\ LaterType'
    BY <1>2, Kept DEF Hear
  <2> QED BY <2>3, <2>4 DEF TypeOK, StoredType, ScreenType, MicType, LaterType
<1>3. CASE ChooseCategory(h) \/ Cover(h)
  <2>1. countdowns' \in [Homes -> [Named -> Nat]] /\ opened' \in Categories \cup {None}
    BY <1>3, Facts DEF ChooseCategory, Cover, LaterType, ScreenType
  <2> QED BY <1>3, <2>1, LeaveType DEF ChooseCategory, Cover
<1>4. CASE TouchTab(h)
  <2>1. PICK t \in Tabs : SelectTab(h, t)
    BY <1>4, Facts DEF TouchTab
  <2>2. StoredType'
    BY <2>1, SelectTabType
  <2>3. ScreenType' /\ MicType' /\ LaterType'
    BY <1>4, Kept DEF TouchTab
  <2> QED BY <2>2, <2>3 DEF TypeOK, StoredType, ScreenType, MicType, LaterType
<1>5. CASE Restart(h)
  <2>1. CASE Crash
    BY <2>1, CrashType
  <2>2. CASE /\ startRecognize(h) /\ restarts' = [restarts EXCEPT ![h] = @ - 1]
             /\ UNCHANGED <<on, heard, hasty, covered>>
    <3>1. restarts' \in [Homes -> Nat]
      BY <1>5, <2>2 DEF Restart, MicType
    <3>2. MicType'
      BY <2>2, <3>1, StartType DEF MicType
    <3> QED BY <2>2, <3>2, StartType DEF TypeOK, StoredType, ScreenType, MicType, LaterType
  <2> QED BY <1>5, <2>1, <2>2 DEF Restart
<1>6. ASSUME NEW c \in Named, GoToStart(h, c) PROVE TypeOK'
  <2>1. countdowns' \in [Homes -> [Named -> Nat]]
    BY <1>6 DEF GoToStart, LaterType
  <2>2. CASE Leave(h, "away") /\ opened' = c
    BY <2>1, <2>2, Facts, LeaveType
  <2>3. CASE UNCHANGED <<stored, window, crashed, startVars, opened, home, micVars, tab, scoreVars>>
    <3>1. StoredType' /\ ScreenType' /\ MicType'
      BY <2>3, Kept
    <3>2. LaterType'
      BY <2>1, <2>3 DEF LaterType, scoreVars
    <3> QED BY <3>1, <3>2 DEF TypeOK, StoredType, ScreenType, MicType, LaterType
  <2> QED BY <1>6, <2>2, <2>3 DEF GoToStart
<1> QED BY <1>1, <1>2, <1>3, <1>4, <1>5, <1>6 DEF HomeStep

LEMMA ScoreType == TypeOK /\ (ScoreLoaded \/ ScoreTick) => TypeOK'
<1> USE TypeParts
<1>1. ASSUME TypeOK, ScoreLoaded PROVE TypeOK'
  <2>1. StoredType' /\ ScreenType' /\ MicType'
    BY <1>1, Kept DEF ScoreLoaded
  <2>2. loads' \in Nat /\ timers' \in Nat /\ seconds' \in -1..2
    BY <1>1 DEF ScoreLoaded, LaterType
  <2>3. twice' \in BOOLEAN /\ countdowns' \in [Homes -> [Named -> Nat]]
    BY <1>1 DEF ScoreLoaded, LaterType
  <2>4. LaterType'
    BY <2>2, <2>3 DEF LaterType
  <2> QED BY <2>1, <2>4 DEF TypeOK, StoredType, ScreenType, MicType, LaterType
<1>2. ASSUME TypeOK, ScoreTick PROVE TypeOK'
  <2>1. StoredType' /\ ScreenType' /\ MicType'
    BY <1>2, Kept DEF ScoreTick
  <2>2. timers' \in Nat /\ seconds' \in -1..2
    BY <1>2 DEF ScoreTick, LaterType
  <2>3. LaterType'
    BY <1>2, <2>2 DEF ScoreTick, LaterType
  <2> QED BY <2>1, <2>3 DEF TypeOK, StoredType, ScreenType, MicType, LaterType
<1> QED BY <1>1, <1>2

LEMMA StutterType == TypeOK /\ UNCHANGED vars => TypeOK'
BY TypeParts, Kept DEF vars, TypeOK, StoredType, ScreenType, MicType, LaterType

\* Every variable keeps its type: in particular the key index, written by the
\* draw of the quiz of the day and by every tab selected, always points into
\* QuizCategories.categories, by which the start screen indexes it unchecked.
THEOREM TypeCorrect == Spec => []TypeOK
<1>1. Init => TypeOK
  BY InitTypeOK
<1>2. TypeOK /\ [Next]_vars => TypeOK'
  <2> SUFFICES ASSUME TypeOK, [Next]_vars PROVE TypeOK'
    OBVIOUS
  <2>1. CASE ScreenStep
    BY <2>1, ScreenStepType
  <2>2. ASSUME NEW h \in Homes, HomeStep(h) \/ CheckVoiceCommands(h) PROVE TypeOK'
    BY <2>2, CommandType, HomeStepType
  <2>3. CASE ScoreLoaded \/ ScoreTick
    BY <2>3, ScoreType
  <2>4. CASE UNCHANGED vars
    BY <2>4, StutterType
  <2> QED BY <2>1, <2>2, <2>3, <2>4, NextCases
<1> QED BY <1>1, <1>2, PTL DEF Spec

----------------------------------------------------------------------------
(* The microphone *)

\* A home screen whose restarts never overlapped has at most one restart
\* scheduled, does not listen meanwhile, and is silent unless its button is on
\* and the player sees it.
Quiet(h) ==
    ~hasty[h] =>
        /\ restarts[h] = 0 \/ (restarts[h] = 1 /\ ~tap[h])
        /\ ~(on /\ Current(h)) => ~tap[h] /\ restarts[h] = 0 /\ heard[h] = <<>>

\* Overlaps happen on home screens that were made; a covered one that is on
\* was covered while it was on.
MicInv ==
    /\ \A h \in Homes : Quiet(h) /\ (h > home => ~hasty[h])
    /\ ListensWhileOn
    /\ window = "covered" /\ on => covered

LEMMA MicKept == MicInv /\ UNCHANGED <<micVars, window, home>> => MicInv'
BY DEF MicInv, Quiet, ListensWhileOn, Current, micVars

LEMMA GoneMic == Gone => MicInv'
BY DEF Gone, MicInv, Quiet, ListensWhileOn, Current, ForHomes

LEMMA OpenHomeMic ==
    ASSUME TypeOK, MicInv, OpenHome, window # "home"
    PROVE  MicInv'
<1>1. home \in Int /\ home' = home + 1 /\ window' = "home" /\ on' = FALSE
      /\ UNCHANGED <<tap, restarts, heard, hasty>>
  BY Facts DEF OpenHome, TypeOK
<1>2. \A h \in Homes : ~Current(h)
  BY DEF Current
<1>3. \A h \in Homes : Quiet(h)'
  BY <1>1, <1>2 DEF MicInv, Quiet
<1>4. \A h \in Homes : h > home' => ~hasty'[h]
  BY <1>1 DEF MicInv, Homes
<1>5. ListensWhileOn' /\ (window' = "covered" /\ on' => covered')
  BY <1>1 DEF ListensWhileOn
<1> QED BY <1>3, <1>4, <1>5 DEF MicInv

\* Cancelling leaves what is scheduled: then the switch overlaps a restart.
LEMMA CancelMic ==
    ASSUME TypeOK, MicInv, NEW h \in Homes, Current(h), cancelSpeechRecognition(h),
           home' = home, ~on' \/ window' # "home"
    PROVE  \A k \in Homes : Quiet(k)' /\ (k > home' => ~hasty'[k])
<1> SUFFICES ASSUME NEW k \in Homes PROVE Quiet(k)' /\ (k > home' => ~hasty'[k])
  OBVIOUS
<1>1. CASE k = h
  <2>1. tap'[h] = FALSE /\ restarts'[h] = restarts[h] /\ heard'[h] = heard[h]
    BY DEF cancelSpeechRecognition, TypeOK
  <2>2. hasty'[h] <=> hasty[h] \/ Pending(h)
    BY DEF cancelSpeechRecognition, TypeOK
  <2>3. restarts[h] \in Nat
    BY DEF TypeOK
  <2>4. ~hasty'[h] => restarts[h] = 0 /\ heard[h] = <<>>
    BY <2>2, <2>3 DEF Pending
  <2>5. h = home
    BY DEF Current
  <2> QED BY <1>1, <2>1, <2>4, <2>5 DEF Quiet, Homes
<1>2. CASE k # h
  <2>1. tap'[k] = tap[k] /\ restarts'[k] = restarts[k] /\ heard'[k] = heard[k] /\ hasty'[k] = hasty[k]
    BY <1>2 DEF cancelSpeechRecognition, TypeOK
  <2>2. ~Current(k) /\ ~Current(k)'
    BY <1>2 DEF Current
  <2> QED BY <2>1, <2>2 DEF MicInv, Quiet
<1> QED BY <1>1, <1>2

LEMMA LeaveMic ==
    ASSUME TypeOK, MicInv, NEW h \in Homes, NEW w \in {"away", "covered"}, Leave(h, w)
    PROVE  MicInv'
<1>1. /\ window' = w /\ home' = home /\ on' = on /\ covered' = on
  BY DEF Leave
<1>2. ListensWhileOn' /\ (window' = "covered" /\ on' => covered')
  BY <1>1 DEF ListensWhileOn, Current
<1>3. \A k \in Homes : Quiet(k)' /\ (k > home' => ~hasty'[k])
  BY <1>1, CancelMic DEF Leave
<1> QED BY <1>2, <1>3 DEF MicInv

LEMMA StartMic ==
    ASSUME TypeOK, MicInv, NEW h \in Homes, startRecognize(h),
           on' \in BOOLEAN, UNCHANGED <<heard, hasty>>,
           \/ /\ Current(h) /\ ~on /\ on' = TRUE /\ covered' = FALSE
              /\ UNCHANGED restarts
           \/ /\ restarts[h] > 0 /\ restarts' = [restarts EXCEPT ![h] = @ - 1]
              /\ UNCHANGED <<on, covered>>
    PROVE  MicInv'
<1> USE DEF startRecognize
<1>0. window' = window /\ home' = home /\ restarts[h] \in Nat /\ Current(h)' = Current(h)
  BY DEF TypeOK, Current
<1>1. \A k \in Homes : k # h => tap'[k] = tap[k] /\ restarts'[k] = restarts[k]
  BY DEF TypeOK
<1>2. tap'[h] = TRUE
  BY DEF TypeOK
<1>3. Quiet(h)'
  <2>1. CASE Current(h) /\ ~on /\ on' = TRUE /\ UNCHANGED restarts
    BY <1>0, <2>1 DEF MicInv, Quiet
  <2>2. CASE restarts[h] > 0 /\ restarts' = [restarts EXCEPT ![h] = @ - 1] /\ UNCHANGED on
    <3>1. restarts'[h] = restarts[h] - 1
      BY <2>2 DEF TypeOK
    <3>2. ~hasty[h] => restarts[h] = 1 /\ on /\ Current(h)
      BY <1>0, <2>2 DEF MicInv, Quiet
    <3> QED BY <1>0, <2>2, <3>1, <3>2 DEF Quiet
  <2> QED BY <2>1, <2>2
<1>4. ASSUME NEW k \in Homes, k # h PROVE Quiet(k)'
  <2>1. on' /\ Current(k)' <=> on /\ Current(k)
    BY <1>0, <1>4 DEF Current
  <2> QED BY <1>1, <1>4, <2>1 DEF MicInv, Quiet
<1>5. \A k \in Homes : k > home' => ~hasty'[k]
  BY <1>0 DEF MicInv
<1>6. ListensWhileOn'
  <2> SUFFICES ASSUME NEW k \in Homes, Current(k)', on', ~covered' PROVE tap'[k] \/ restarts'[k] > 0
    BY DEF ListensWhileOn
  <2>1. CASE k = h
    BY <1>2, <2>1
  <2>2. CASE k # h
    <3>0. h # home
      BY <1>0, <2>2 DEF Current
    <3>1. ~Current(h)
      BY <3>0 DEF Current
    <3>2. on' = on /\ covered' = covered
      BY <3>1
    <3>4. on /\ ~covered
      BY <3>2
    <3>3. Current(k)
      BY <1>0 DEF Current
    <3> QED BY <1>1, <2>2, <3>3, <3>4 DEF MicInv, ListensWhileOn
  <2> QED BY <2>1, <2>2
<1>7. window' = "covered" /\ on' => covered'
  BY <1>0 DEF MicInv, Current
<1> QED BY <1>3, <1>4, <1>5, <1>6, <1>7 DEF MicInv

LEMMA RescheduleMic ==
    ASSUME TypeOK, MicInv, NEW h \in Homes, NEW n \in Nat, Reschedule(h, n),
           heard[h] # <<>>, heard' = [heard EXCEPT ![h] = Tail(@)],
           UNCHANGED <<window, home>>
    PROVE  MicInv'
<1>1. \A k \in Homes : Current(k)' = Current(k)
  BY DEF Current
<1>2. \A k \in Homes : k # h =>
         /\ tap'[k] = tap[k] /\ restarts'[k] = restarts[k]
         /\ hasty'[k] = hasty[k] /\ heard'[k] = heard[k]
  BY DEF Reschedule, TypeOK
<1>3. restarts[h] \in Nat /\ restarts'[h] = restarts[h] + n
  BY DEF Reschedule, TypeOK
<1>4. /\ tap'[h] <=> tap[h] /\ n = 0
      /\ hasty'[h] <=> hasty[h] \/ n > 1 \/ (n = 1 /\ restarts[h] > 0)
  BY DEF Reschedule, TypeOK
<1>5. on' = on /\ covered' = covered
  BY DEF Reschedule
<1>6. ~hasty[h] => on /\ Current(h)
  BY DEF MicInv, Quiet
<1>7. Quiet(h)'
  <2> SUFFICES ASSUME ~hasty'[h]
               PROVE  /\ restarts'[h] = 0 \/ (restarts'[h] = 1 /\ ~tap'[h])
                      /\ on' /\ Current(h)'
    BY DEF Quiet
  <2>1. ~hasty[h] /\ (n = 0 \/ (n = 1 /\ restarts[h] = 0))
    BY <1>3, <1>4
  <2>2. on' /\ Current(h)'
    BY <1>1, <1>5, <1>6, <2>1
  <2>3. restarts[h] = 0 \/ (restarts[h] = 1 /\ ~tap[h])
    BY <2>1 DEF MicInv, Quiet
  <2> QED BY <1>3, <1>4, <2>1, <2>2, <2>3
<1>8. ASSUME NEW k \in Homes, k # h PROVE Quiet(k)'
  BY <1>1, <1>2, <1>5, <1>8 DEF MicInv, Quiet
<1>9. ASSUME NEW k \in Homes, k > home' PROVE ~hasty'[k]
  <2>1. k # h
    <3>1. CASE hasty[h]
      BY <1>9, <3>1 DEF MicInv
    <3>2. CASE ~hasty[h]
      <4>1. h = home /\ home \in Int
        BY <1>6, <3>2 DEF Current, TypeOK
      <4> QED BY <1>9, <4>1
    <3> QED BY <3>1, <3>2
  <2> QED BY <1>2, <1>9, <2>1 DEF MicInv
<1>10. ASSUME NEW k \in Homes, Current(k)', on', ~covered'
       PROVE  tap'[k] \/ restarts'[k] > 0
  <2>1. tap[k] \/ restarts[k] > 0
    BY <1>1, <1>5, <1>10 DEF MicInv, ListensWhileOn
  <2>2. CASE k = h
    BY <1>3, <1>4, <2>1, <2>2
  <2>3. CASE k # h
    BY <1>2, <2>1, <2>3
  <2> QED BY <2>2, <2>3
<1>11. window' = "covered" /\ on' => covered'
  BY <1>5 DEF MicInv
<1> QED BY <1>7, <1>8, <1>9, <1>10, <1>11 DEF MicInv, ListensWhileOn

LEMMA CommandMic ==
    ASSUME TypeOK, MicInv, NEW h \in Homes, CheckVoiceCommands(h)
    PROVE  MicInv'
<1> DEFINE t == Head(heard[h])
<1>1. /\ heard[h] # <<>> /\ heard' = [heard EXCEPT ![h] = Tail(@)]
      /\ UNCHANGED <<window, home>>
  BY DEF CheckVoiceCommands
<1>2. t \in Texts
  BY <1>1, HeadTailProperties DEF TypeOK
<1>3. ASSUME NEW n \in Nat, Reschedule(h, n) PROVE MicInv'
  BY <1>1, <1>3, RescheduleMic
<1>4. CASE SayTab(h, Case(h, t))
  BY <1>3, <1>4 DEF SayTab
<1>5. CASE Search(h, t)
  BY <1>2, <1>3, <1>5, NamesCount DEF Search
<1>6. CASE AskCategory(h, t)
  BY <1>2, <1>3, <1>6, NamesCount DEF AskCategory
<1>7. CASE Countdown(h, t)
  <2>1. \A k \in Homes : heard[k] = <<>> => heard'[k] = <<>>
    BY <1>1 DEF TypeOK
  <2>2. UNCHANGED <<on, covered, tap, restarts, hasty, window, home>>
    BY <1>1, <1>7 DEF Countdown
  <2> QED BY <2>1, <2>2 DEF MicInv, Quiet, ListensWhileOn, Current
<1> QED BY <1>4, <1>5, <1>6, <1>7 DEF CheckVoiceCommands

LEMMA MicStep == TypeOK /\ MicInv /\ [Next]_vars => MicInv'
<1> SUFFICES ASSUME TypeOK, MicInv, [Next]_vars PROVE MicInv'
  OBVIOUS
<1>1. CASE ScreenStep
  <2>1. CASE ShowStart
    BY <2>1 DEF ShowStart, MicInv, Quiet, ListensWhileOn, Current, micVars
  <2>2. ASSUME NEW b \in {"app", "daily"}, PressStart(b) PROVE MicInv'
    BY <2>2, MicKept DEF PressStart
  <2>3. CASE GoToDailyQuiz
    BY <2>3 DEF GoToDailyQuiz, MicInv, Quiet, ListensWhileOn, Current, micVars
  <2>4. CASE GoToQuizApp \/ ReturnHome
    BY <2>4, OpenHomeMic DEF GoToQuizApp, ReturnHome
  <2>5. CASE Uncover
    BY <2>5 DEF Uncover, MicInv, Quiet, ListensWhileOn, Current, micVars
  <2>6. CASE Quit
    BY <2>6, GoneMic DEF Quit
  <2>7. CASE NewDay
    BY <2>7, MicKept DEF NewDay
  <2> QED BY <1>1, <2>1, <2>2, <2>3, <2>4, <2>5, <2>6, <2>7 DEF ScreenStep
<1>2. ASSUME NEW h \in Homes, HomeStep(h) PROVE MicInv'
  <2>1. CASE VoiceCommands(h)
    <3>1. CASE Crash
      BY <3>1, GoneMic DEF Crash
    <3>2. CASE /\ ~on /\ startRecognize(h)
               /\ on' = TRUE /\ covered' = FALSE
               /\ UNCHANGED <<restarts, heard, hasty>>
      BY <2>1, <3>2, StartMic DEF VoiceCommands
    <3>3. CASE /\ on /\ cancelSpeechRecognition(h)
               /\ on' = FALSE
               /\ UNCHANGED <<stored, window, crashed, startVars, opened, home, covered, tab, later>>
      <4>1. Current(h) /\ home' = home /\ window' = window
        BY <2>1, <3>3 DEF VoiceCommands
      <4>2. \A k \in Homes : Quiet(k)' /\ (k > home' => ~hasty'[k])
        BY <3>3, <4>1, CancelMic
      <4> QED BY <3>3, <4>2 DEF MicInv, ListensWhileOn
    <3> QED BY <2>1, <3>1, <3>2, <3>3 DEF VoiceCommands
  <2>2. CASE Hear(h)
    <3>1. \A k \in Homes : heard'[k] = <<>> \/ heard'[k] = heard[k] \/ tap[k]
      BY <2>2 DEF Hear, TypeOK
    <3>2. UNCHANGED <<on, covered, tap, restarts, hasty, window, home>>
      BY <2>2 DEF Hear
    <3> QED BY <3>1, <3>2 DEF MicInv, Quiet, ListensWhileOn, Current
  <2>3. CASE ChooseCategory(h) \/ Cover(h)
    BY <2>3, LeaveMic DEF ChooseCategory, Cover
  <2>4. CASE TouchTab(h)
    BY <2>4, MicKept DEF TouchTab
  <2>5. CASE Restart(h)
    <3>1. CASE Crash
      BY <3>1, GoneMic DEF Crash
    <3>2. CASE /\ startRecognize(h) /\ restarts' = [restarts EXCEPT ![h] = @ - 1]
               /\ UNCHANGED <<on, heard, hasty, covered>>
      <4>1. on' \in BOOLEAN
        BY <3>2 DEF TypeOK
      <4> QED BY <2>5, <3>2, <4>1, StartMic DEF Restart
    <3> QED BY <2>5, <3>1, <3>2 DEF Restart
  <2>6. ASSUME NEW c \in Named, GoToStart(h, c) PROVE MicInv'
    BY <2>6, LeaveMic, MicKept DEF GoToStart
  <2> QED BY <1>2, <2>1, <2>2, <2>3, <2>4, <2>5, <2>6 DEF HomeStep
<1>3. ASSUME NEW h \in Homes, CheckVoiceCommands(h) PROVE MicInv'
  BY <1>3, CommandMic
<1>4. CASE ScoreLoaded \/ ScoreTick
  BY <1>4, MicKept DEF ScoreLoaded, ScoreTick
<1>5. CASE UNCHANGED vars
  BY <1>5, MicKept DEF vars
<1> QED BY <1>1, <1>2, <1>3, <1>4, <1>5, NextCases

LEMMA MicInvariant == Spec => [](TypeOK /\ MicInv)
<1>1. Init => MicInv
  BY DEF Init, MicInv, Quiet, ListensWhileOn, Current, ForHomes
<1>2. TypeOK /\ MicInv /\ [Next]_vars => MicInv'
  BY MicStep
<1> QED BY <1>1, <1>2, TypeCorrect, PTL DEF Spec

\* A home screen that is switched off or out of sight neither listens nor will,
\* unless its restarts overlapped: cancelling recognition leaves the restarts
\* that a command has scheduled (QuizTabBarController, SpeechRecognitionManager).
THEOREM SilentWhenOffHolds == Spec => []SilentWhenOff
<1>1. MicInv => SilentWhenOff
  BY DEF MicInv, Quiet, SilentWhenOff
<1> QED BY <1>1, MicInvariant, PTL

\* Whatever was said, a home screen whose button is on listens or is about to.
THEOREM ListensWhileOnHolds == Spec => []ListensWhileOn
<1>1. MicInv => ListensWhileOn
  BY DEF MicInv
<1> QED BY <1>1, MicInvariant, PTL

\* An exception ends the application only where restarts of recognition
\* overlapped: the second tap of startRecognize needs a restart left by an
\* earlier command or switch.
THEOREM CrashNeedsOverlapHolds == Spec => CrashNeedsOverlap
<1>1. ASSUME TypeOK, MicInv, [Next]_vars, crashed' /\ ~crashed
      PROVE  \E h \in Homes : hasty[h]
  <2>1. \E h \in Homes : \/ Current(h) /\ ~on /\ tap[h]
                         \/ restarts[h] > 0 /\ tap[h]
    <3>1. ~ScreenStep
      BY <1>1 DEF ScreenStep, ShowStart, PressStart, GoToDailyQuiz, GoToQuizApp, ReturnHome,
                  OpenHome, Uncover, Quit, NewDay
    <3>2. ~UNCHANGED vars /\ ~ScoreLoaded /\ ~ScoreTick
      BY <1>1 DEF vars, ScoreLoaded, ScoreTick
    <3>3. PICK h \in Homes : HomeStep(h) \/ CheckVoiceCommands(h)
      BY <1>1, <3>1, <3>2, NextCases
    <3>4. VoiceCommands(h) \/ Restart(h)
      BY <1>1, <3>3 DEF HomeStep, CheckVoiceCommands, Hear, ChooseCategory, Cover, TouchTab,
                        GoToStart, Leave
    <3> QED BY <1>1, <3>4 DEF VoiceCommands, Restart, startRecognize
  <2> QED BY <1>1, <2>1 DEF MicInv, Quiet, TypeOK
<1>2. TypeOK /\ MicInv /\ [Next]_vars => [crashed' /\ ~crashed => \E h \in Homes : hasty[h]]_vars
  BY <1>1
<1> QED BY <1>2, MicInvariant, PTL DEF Spec, CrashNeedsOverlap

----------------------------------------------------------------------------
(* The key index *)

\* While no earlier home screen hears commands, the tab stored is the one of
\* the home screen made last, covered or not.
TabInv ==
    window \in {"home", "covered"} =>
        /\ home \in Homes
        /\ (\A h \in Homes : h < home => ~hasty[h]) => index = tab[home]

LEMMA TabKept == TabInv /\ UNCHANGED <<index, tab, window, home, hasty>> => TabInv'
BY DEF TabInv

\* A home screen that hears a command is the one made last, or its restarts
\* have overlapped.
LEMMA OneListens ==
    ASSUME TypeOK, MicInv, NEW h \in Homes, heard[h] # <<>>, h # home
    PROVE  h < home /\ hasty[h]
<1>1. hasty[h]
  BY DEF MicInv, Quiet, Current
<1>2. ~(h > home) /\ h \in Int /\ home \in Int
  BY <1>1 DEF MicInv, Homes, TypeOK
<1> QED BY <1>1, <1>2

LEMMA TabStep == TypeOK /\ MicInv /\ TabInv /\ [Next]_vars => TabInv'
<1> SUFFICES ASSUME TypeOK, MicInv, TabInv, [Next]_vars PROVE TabInv'
  OBVIOUS
<1>1. CASE ScreenStep
  <2>1. CASE GoToQuizApp \/ ReturnHome
    <3>1. OpenHome
      BY <2>1 DEF GoToQuizApp, ReturnHome
    <3>2. home + 1 \in Homes /\ home' = home + 1
      BY <3>1, Facts DEF OpenHome, TypeOK, Homes
    <3>3. PICK t \in Tabs : SelectTab(home + 1, t)
      BY <3>1 DEF OpenHome
    <3>4. index' = t /\ tab'[home'] = t
      BY <3>2, <3>3 DEF SelectTab, TypeOK
    <3> QED BY <3>2, <3>4 DEF TabInv
  <2>2. CASE ~(window' \in {"home", "covered"})
    BY <2>2 DEF TabInv
  <2>3. CASE Uncover
    BY <2>3 DEF Uncover, TabInv, stored, micVars
  <2>4. CASE NewDay
    BY <2>4, TabKept DEF NewDay, micVars
  <2>5. CASE ShowStart \/ (\E b \in {"app", "daily"} : PressStart(b)) \/ GoToDailyQuiz \/ Quit
    <3>1. ~(window' \in {"home", "covered"})
      BY <2>5 DEF ShowStart, PressStart, GoToDailyQuiz, Quit, Gone
    <3> QED BY <2>2, <3>1
  <2> QED BY <1>1, <2>1, <2>3, <2>4, <2>5 DEF ScreenStep
<1>2. ASSUME NEW h \in Homes, HomeStep(h) PROVE TabInv'
  <2>1. CASE Gone
    BY <2>1 DEF Gone, TabInv
  <2>2. CASE TouchTab(h)
    <3>1. PICK t \in Tabs : SelectTab(h, t)
      BY <2>2, Facts DEF TouchTab
    <3>2. index' = t /\ tab'[h] = t /\ h = home /\ home' = home
      BY <2>2, <3>1 DEF SelectTab, TypeOK, TouchTab, Current
    <3> QED BY <3>2 DEF TabInv
  <2>3. CASE /\ UNCHANGED <<index, tab, home>>
             /\ window' \in {"home", "covered"} => window \in {"home", "covered"}
             /\ \A k \in Homes : hasty[k] => hasty'[k]
    BY <2>3 DEF TabInv
  <2>4. ASSUME cancelSpeechRecognition(h) PROVE \A k \in Homes : hasty[k] => hasty'[k]
    BY <2>4 DEF cancelSpeechRecognition, TypeOK
  <2>5. CASE Current(h) /\ (ChooseCategory(h) \/ Cover(h) \/ \E c \in Named : GoToStart(h, c))
    <3>1. Leave(h, "away") \/ Leave(h, "covered")
      BY <2>5 DEF ChooseCategory, Cover, GoToStart
    <3>2. /\ UNCHANGED <<index, tab, home>> /\ window = "home"
          /\ cancelSpeechRecognition(h)
      BY <3>1 DEF Leave, Current, stored
    <3> QED BY <2>3, <2>4, <3>2
  <2>6. CASE VoiceCommands(h) /\ ~Crash
    <3>1. UNCHANGED <<index, tab, home, window>>
      BY <2>6 DEF VoiceCommands, startRecognize, stored
    <3>2. \A k \in Homes : hasty[k] => hasty'[k]
      BY <2>4, <2>6 DEF VoiceCommands
    <3> QED BY <2>3, <3>1, <3>2
  <2>7. CASE Hear(h) \/ (Restart(h) /\ ~Crash) \/ (~Current(h) /\ \E c \in Named : GoToStart(h, c))
    BY <2>7, TabKept DEF Hear, Restart, startRecognize, GoToStart, Leave, stored, micVars
  <2> QED BY <1>2, <2>1, <2>2, <2>5, <2>6, <2>7
          DEF HomeStep, Crash, ChooseCategory, Cover, Leave, VoiceCommands, Restart
<1>3. ASSUME NEW h \in Homes, CheckVoiceCommands(h) PROVE TabInv'
  <2> DEFINE t == Head(heard[h])
  <2>1. heard[h] # <<>> /\ UNCHANGED <<window, home>>
    BY <1>3 DEF CheckVoiceCommands
  <2>2. \A k \in Homes : hasty[k] => hasty'[k]
    BY <1>3 DEF CheckVoiceCommands, SayTab, Search, AskCategory, Countdown, Reschedule, TypeOK
  <2>3. CASE UNCHANGED <<index, tab>>
    BY <2>1, <2>2, <2>3 DEF TabInv
  <2>4. CASE SayTab(h, Case(h, t))
    <3> DEFINE u == TabOf[Case(h, t)]
    <3>1. SelectTab(h, u)
      BY <2>4 DEF SayTab
    <3>2. CASE h = home
      <4>1. index' = u /\ tab'[h] = u
        BY <3>1 DEF SelectTab, TypeOK
      <4> QED BY <2>1, <3>2, <4>1 DEF TabInv
    <3>3. CASE h # home
      <4>1. h < home /\ hasty[h]
        BY <2>1, <3>3, OneListens
      <4>2. ~(\A k \in Homes : k < home' => ~hasty'[k])
        BY <2>1, <2>2, <4>1
      <4> QED BY <2>1, <4>2 DEF TabInv
    <3> QED BY <3>2, <3>3
  <2> QED BY <1>3, <2>3, <2>4 DEF CheckVoiceCommands, Search, AskCategory, Countdown, stored
<1>4. CASE ScoreLoaded \/ ScoreTick \/ UNCHANGED vars
  BY <1>4, TabKept DEF ScoreLoaded, ScoreTick, vars, stored, micVars
<1> QED BY <1>1, <1>2, <1>3, <1>4, NextCases

\* The tab the player sees is the one the next launch opens, and not the tab
\* before it, nor one that an earlier home screen selected out of sight.
THEOREM TabStoredHolds == Spec => []TabStored
<1>1. Init => TabInv
  BY DEF Init, TabInv
<1>2. TypeOK /\ MicInv /\ TabInv /\ [Next]_vars => TabInv'
  BY TabStep
<1>3. TabInv => TabStored
  BY DEF TabInv, TabStored
<1> QED BY <1>1, <1>2, <1>3, MicInvariant, PTL DEF Spec

----------------------------------------------------------------------------
(* The quiz of the day, the score timers, and the quiz that is open *)

\* Until a tab is stored, the key index is the category drawn for the day.
DailyInv ==
    /\ today /\ ~tabbed => index = drawn
    /\ window = "start" => today
    /\ DailyQuizKept

LEMMA DailyStep == TypeOK /\ DailyInv /\ [Next]_vars => DailyInv'
<1> SUFFICES ASSUME TypeOK, DailyInv, [Next]_vars PROVE DailyInv'
  OBVIOUS
<1> USE DEF DailyInv, DailyQuizKept
<1>0. CASE UNCHANGED <<stored, window, shown, fresh>>
  BY <1>0 DEF stored
<1>1. CASE ShowStart
  <2>1. today' /\ (~tabbed' => index' = drawn')
    BY <1>1 DEF ShowStart, stored
  <2>2. ~fresh' => today /\ shown' = index /\ index' = index
    BY <1>1 DEF ShowStart, TypeOK
  <2> QED BY <2>1, <2>2
<1>2. ASSUME window' # "start", UNCHANGED stored \/ (tabbed' /\ UNCHANGED <<today, drawn>>)
      PROVE  DailyInv'
  BY <1>2 DEF stored
<1>3. CASE GoToQuizApp \/ ReturnHome
  <2>1. window' # "start" /\ tabbed' /\ UNCHANGED <<today, drawn>>
    BY <1>3 DEF GoToQuizApp, ReturnHome, OpenHome, SelectTab
  <2> QED BY <1>2, <2>1
<1>4. CASE GoToDailyQuiz \/ Uncover \/ Quit
  BY <1>2, <1>4 DEF GoToDailyQuiz, Uncover, Quit, Gone
<1>5. CASE NewDay
  BY <1>5 DEF NewDay
<1>6. ASSUME NEW b \in {"app", "daily"}, PressStart(b) PROVE DailyInv'
  BY <1>0, <1>6 DEF PressStart
<1>7. ASSUME NEW h \in Homes, HomeStep(h) \/ CheckVoiceCommands(h) PROVE DailyInv'
  <2>1. CASE TouchTab(h)
    <3>1. window' # "start" /\ tabbed' /\ UNCHANGED <<today, drawn>>
      BY <2>1 DEF TouchTab, SelectTab, Current
    <3> QED BY <1>2, <3>1
  <2>2. CASE CheckVoiceCommands(h)
    <3>1. CASE UNCHANGED stored
      BY <1>0, <2>2, <3>1 DEF CheckVoiceCommands, startVars
    <3>2. CASE tabbed' /\ UNCHANGED <<today, drawn>>
      BY <2>2, <3>2 DEF CheckVoiceCommands, startVars
    <3> QED BY <2>2, <3>1, <3>2 DEF CheckVoiceCommands, SayTab, SelectTab, Search, AskCategory, Countdown
  <2>3. CASE Crash \/ Leave(h, "away") \/ Leave(h, "covered")
    BY <1>2, <2>3 DEF Crash, Gone, Leave
  <2>4. CASE UNCHANGED <<stored, window, startVars>>
    BY <1>0, <2>4 DEF startVars
  <2> QED BY <1>7, <2>1, <2>2, <2>3, <2>4
          DEF HomeStep, VoiceCommands, startRecognize, Hear, ChooseCategory, Cover, Restart, GoToStart
<1>8. CASE ScoreLoaded \/ ScoreTick \/ UNCHANGED vars
  BY <1>0, <1>8 DEF ScoreLoaded, ScoreTick, vars, startVars
<1> QED BY <1>1, <1>3, <1>4, <1>5, <1>6, <1>7, <1>8, NextCases DEF ScreenStep

\* The quiz of the day stays the same for the day, until a tab is stored under
\* the key it is kept in (StartViewController, QuizTabBarController.selectedIndex).
THEOREM DailyQuizKeptHolds == Spec => []DailyQuizKept
<1>1. Init => DailyInv
  BY DEF Init, DailyInv, DailyQuizKept
<1>2. TypeOK /\ DailyInv /\ [Next]_vars => DailyInv'
  BY DailyStep
<1>3. DailyInv => DailyQuizKept
  BY DEF DailyInv
<1> QED BY <1>1, <1>2, <1>3, TypeCorrect, PTL DEF Spec

\* As long as two never ran at once, there is one timer at most and its counter
\* is above zero.
ScoreInv == ~twice => timers = 0 \/ (timers = 1 /\ seconds \in 1..2)

LEMMA ScoreStep == TypeOK /\ ScoreInv /\ [Next]_vars => ScoreInv'
<1> SUFFICES ASSUME TypeOK, ScoreInv, [Next]_vars PROVE ScoreInv'
  OBVIOUS
<1>0. CASE UNCHANGED <<timers, seconds, twice>>
  BY <1>0 DEF ScoreInv
<1>1. CASE ScoreLoaded
  <2>1. timers \in Nat /\ timers' = timers + 1 /\ seconds' = 2
    BY <1>1 DEF ScoreLoaded, TypeOK
  <2>2. ~twice' => ~(timers > 0)
    BY <1>1 DEF ScoreLoaded
  <2> QED BY <2>1, <2>2 DEF ScoreInv
<1>2. CASE ScoreTick
  <2>1. ~twice' => timers = 1 /\ seconds \in 1..2
    BY <1>2 DEF ScoreTick, ScoreInv
  <2>2. /\ timers' = IF seconds = 1 THEN timers - 1 ELSE timers
        /\ seconds' = IF seconds < 0 THEN seconds ELSE seconds - 1
    BY <1>2 DEF ScoreTick
  <2> QED BY <2>1, <2>2 DEF ScoreInv
<1>3. CASE timers' = 0
  BY <1>3 DEF ScoreInv
<1>4. CASE ScreenStep
  BY <1>0, <1>3, <1>4 DEF ScreenStep, ShowStart, PressStart, GoToDailyQuiz, GoToQuizApp, ReturnHome,
                          OpenHome, Uncover, Quit, Gone, NewDay, later, scoreVars
<1>5. ASSUME NEW h \in Homes, HomeStep(h) PROVE ScoreInv'
  BY <1>0, <1>3, <1>5 DEF HomeStep, VoiceCommands, Crash, Gone, startRecognize, Hear, ChooseCategory,
                          Cover, Leave, TouchTab, Restart, GoToStart, later, scoreVars
<1>6. ASSUME NEW h \in Homes, CheckVoiceCommands(h) PROVE ScoreInv'
  BY <1>0, <1>6 DEF CheckVoiceCommands, SayTab, Search, AskCategory, Countdown, later, scoreVars
<1>7. CASE UNCHANGED vars
  BY <1>0, <1>7 DEF vars, later, scoreVars
<1> QED BY <1>1, <1>2, <1>4, <1>5, <1>6, <1>7, NextCases

\* The timer that shows a score ends, unless another one ran at the same time:
\* they share the counter, and one of them then misses zero.
THEOREM ScoreTimerStopsHolds == Spec => []ScoreTimerStops
<1>1. Init => ScoreInv
  BY DEF Init, ScoreInv
<1>2. TypeOK /\ ScoreInv /\ [Next]_vars => ScoreInv'
  BY ScoreStep
<1>3. TypeOK /\ ScoreInv => ScoreTimerStops
  BY DEF ScoreInv, ScoreTimerStops, TypeOK
<1> QED BY <1>1, <1>2, <1>3, TypeCorrect, PTL DEF Spec

\* Of the countdowns that run at once one opens its quiz; those that end later
\* find their home screen out of its window and open nothing.
THEOREM OneQuizAtATimeHolds == Spec => OneQuizAtATime
<1>1. ASSUME [Next]_vars, window = "away", window' = "away" PROVE opened' = opened
  <2>1. CASE ScreenStep
    BY <1>1, <2>1 DEF ScreenStep, ShowStart, PressStart, GoToDailyQuiz, GoToQuizApp, ReturnHome,
                      OpenHome, Uncover, Quit, Gone, NewDay
  <2>2. ASSUME NEW h \in Homes, HomeStep(h) PROVE opened' = opened
    BY <1>1, <2>2 DEF HomeStep, VoiceCommands, Crash, Gone, startRecognize, Hear, ChooseCategory,
                      Cover, Leave, TouchTab, Restart, GoToStart, Current
  <2>3. ASSUME NEW h \in Homes, CheckVoiceCommands(h) PROVE opened' = opened
    BY <2>3 DEF CheckVoiceCommands
  <2>4. CASE ScoreLoaded \/ ScoreTick \/ UNCHANGED vars
    BY <2>4 DEF ScoreLoaded, ScoreTick, vars
  <2> QED BY <1>1, <2>1, <2>2, <2>3, <2>4, NextCases
<1>2. [Next]_vars => [window = "away" /\ window' = "away" => opened' = opened]_vars
  BY <1>1
<1> QED BY <1>2, PTL DEF Spec, OneQuizAtATime
=============================================================================
