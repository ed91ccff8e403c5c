------------------------- MODULE CloudProfileProofs -------------------------
(***************************************************************************)
(* Theorems about CloudProfile, for all accounts, categories and commands, *)
(* any number of saves in flight and any bound on right answers.           *)
(***************************************************************************)
EXTENDS CloudProfile, TLAPS

\* What the constants are, in the form the proofs use.
LEMMA Typing ==
    /\ MaxScore \in Nat /\ Points = 5 /\ None \notin Accounts
    /\ None \notin Categories /\ None \notin Nat
    /\ None \notin Records /\ None \notin LastGames /\ None \notin Saves
    /\ Default \in [Categories -> Commands]
BY CloudAssumption DEF Points

LEMMA InitTypeOK == Init => TypeOK
BY Typing DEF Init, TypeOK, Screens, NoRecords, Fresh, LastGames

\* Both kinds of record have the type of a record.
LEMMA WrittenRecords ==
    ASSUME TypeOK
    PROVE  /\ \A seen \in Records, text \in Commands : WithCommand(seen, text) \in Records
           /\ \A n, k \in Nat, text \in Commands :
                 [best |-> n, score |-> None, correct |-> k, voiceCommand |-> text] \in Records
           /\ \A n, k \in Nat, c \in Categories :
                 [category |-> c, best |-> n, correct |-> k] \in LastGames
BY DEF WithCommand, Records, LastGames

\* One cell of a table of tables changes.
LEMMA CellUpdate ==
    ASSUME NEW A, NEW C, NEW T, NEW f \in [A -> [C -> T]],
           NEW a \in A, NEW c \in C, NEW v \in T
    PROVE  [f EXCEPT ![a][c] = v] \in [A -> [C -> T]]
<1>1. [f[a] EXCEPT ![c] = v] \in [C -> T]
  OBVIOUS
<1> QED BY <1>1

LEMMA CellRead ==
    ASSUME NEW A, NEW C, NEW T, NEW f \in [A -> [C -> T]],
           NEW a \in A, NEW c \in C, NEW v, NEW b \in A, NEW d \in C
    PROVE  [f EXCEPT ![a][c] = v][b][d] = IF b = a /\ d = c THEN v ELSE f[b][d]
<1>1. CASE b = a
  BY <1>1
<1>2. CASE b # a
  BY <1>2
<1> QED BY <1>1, <1>2

\* Coming and going.
LEMMA TypeOKEntering ==
    ASSUME TypeOK,
           \/ \E a \in Accounts : Register(a) \/ Login(a)
           \/ \E a \in Accounts : UserDeleted(a) \/ DocumentDeleted(a)
           \/ LeaveSplash \/ SignOutAction \/ DeleteAccount
    PROVE  TypeOK'
<1> USE Typing DEF TypeOK, Screens, NoRecords, EnterHome, SignOut,
        vars, deviceVars, docVars, history
<1>1. ASSUME NEW a \in Accounts, Register(a) PROVE TypeOK'
  <2>0. NoRecords \in [Categories -> Records \cup {None}]
    OBVIOUS
  <2>a. record' = record \/ record' = [record EXCEPT ![a] = NoRecords]
    BY <1>1 DEF Register
  <2>1. record' \in [Accounts -> [Categories -> Records \cup {None}]]
    BY <2>0, <2>a
  <2>2. lastquiz' \in [Accounts -> LastGames \cup {None}] /\ achievement' \in [Accounts -> Nat \cup {None}]
    BY <1>1 DEF Register
  <2>3. docs' \subseteq Accounts /\ registered' \subseteq Accounts
    BY <1>1 DEF Register
  <2> QED BY <1>1, <2>1, <2>2, <2>3 DEF Register
<1>2. ASSUME NEW a \in Accounts, Login(a) PROVE TypeOK'
  BY <1>2 DEF Login
<1>3. CASE LeaveSplash
  BY <1>3 DEF LeaveSplash
<1>4. CASE SignOutAction \/ DeleteAccount
  BY <1>4 DEF SignOutAction, DeleteAccount
<1>5. ASSUME NEW a \in Accounts, UserDeleted(a) PROVE TypeOK'
  BY <1>5 DEF UserDeleted
<1>6. ASSUME NEW a \in Accounts, DocumentDeleted(a) PROVE TypeOK'
  BY <1>6 DEF DocumentDeleted
<1> QED BY <1>1, <1>2, <1>3, <1>4, <1>5, <1>6

\* Playing.
LEMMA TypeOKPlaying ==
    ASSUME TypeOK,
           \/ \E c \in Categories : OpenQuiz(c)
           \/ Relaunch \/ RestartQuiz \/ LeaveQuiz \/ Answer
    PROVE  TypeOK'
<1> USE Typing DEF TypeOK, Screens, EnterHome, deviceVars, docVars, history
<1>1. CASE Relaunch
  BY <1>1 DEF Relaunch, Fresh
<1>2. ASSUME NEW c \in Categories, OpenQuiz(c) PROVE TypeOK'
  BY <1>2 DEF OpenQuiz
<1>3. CASE RestartQuiz
  <2>1. user \in Accounts /\ lastquiz[user] \in LastGames
    BY <1>3 DEF RestartQuiz, HasLastGame
  <2>2. lastquiz[user].category \in Categories
    BY <2>1 DEF LastGames
  <2> QED BY <1>3, <2>2 DEF RestartQuiz
<1>4. CASE LeaveQuiz
  BY <1>4 DEF LeaveQuiz
<1>5. CASE Answer
  <2>1. user \in Accounts /\ playing \in Categories /\ held \in Commands
    BY <1>5 DEF Answer
  <2>2. counters' \in [Categories -> [counter : Nat, correct : Nat]]
    <3>1. counters[playing].counter \in Nat /\ counters[playing].correct \in Nat
      BY <2>1
    <3>2. [counter |-> counters[playing].counter + Points,
           correct |-> counters[playing].correct + 1] \in [counter : Nat, correct : Nat]
      BY <3>1
    <3>3. \/ counters' = counters
          \/ counters' = [counters EXCEPT ![playing] =
                [counter |-> counters[playing].counter + Points,
                 correct |-> counters[playing].correct + 1]]
      BY <1>5 DEF Answer
    <3> QED BY <2>1, <3>2, <3>3
  <2>3. counters'[playing].counter \in Nat /\ counters'[playing].correct \in Nat
    BY <2>1, <2>2
  <2>4. GameRecord \in Records /\ LastGame \in LastGames
    BY <2>1, <2>3, WrittenRecords DEF GameRecord, LastGame
  <2>5. record' \in [Accounts -> [Categories -> Records \cup {None}]]
    <3>1. record' = record \/ record' = [record EXCEPT ![user][playing] = GameRecord]
      BY <1>5 DEF Answer, write
    <3>2. record \in [Accounts -> [Categories -> Records \cup {None}]]
      OBVIOUS
    <3> HIDE DEF TypeOK
    <3>3. [record EXCEPT ![user][playing] = GameRecord]
             \in [Accounts -> [Categories -> Records \cup {None}]]
      BY <2>1, <2>4, <3>2, CellUpdate
    <3> QED BY <3>1, <3>2, <3>3
  <2>6. lastquiz' \in [Accounts -> LastGames \cup {None}]
    <3>1. lastquiz' = lastquiz \/ lastquiz' = [lastquiz EXCEPT ![user] = LastGame]
      BY <1>5 DEF Answer, write
    <3> QED BY <2>1, <2>4, <3>1
  <2>7. achievement' \in [Accounts -> Nat \cup {None}]
    BY <1>5, <2>1, <2>3 DEF Answer, write, CheckAchievement
  <2>8. won' \in [Accounts -> [Categories -> Nat]]
    <3>1. won' = won \/ won' = [won EXCEPT ![user][playing] = won[user][playing] + 1]
      BY <1>5 DEF Answer
    <3>2. won[user][playing] + 1 \in Nat
      BY <2>1
    <3>3. won \in [Accounts -> [Categories -> Nat]]
      OBVIOUS
    <3> HIDE DEF TypeOK
    <3>4. [won EXCEPT ![user][playing] = won[user][playing] + 1]
             \in [Accounts -> [Categories -> Nat]]
      BY <2>1, <3>2, <3>3, CellUpdate
    <3> QED BY <3>1, <3>3, <3>4
  <2>9. UNCHANGED <<user, screen, playing, held, list, saves, deleting, registered,
                    docs, chosen>>
    BY <1>5 DEF Answer
  <2> QED BY <2>2, <2>5, <2>6, <2>7, <2>8, <2>9
<1> QED BY <1>1, <1>2, <1>3, <1>4, <1>5

\* Lists and voice commands.
LEMMA TypeOKCommands ==
    ASSUME TypeOK,
           \/ \E c \in Categories : LoadCategory(c) \/ SaveCustomVoiceCommand(c)
           \/ \E r \in Requests : ReadForSave(r) \/ WriteSaved(r)
    PROVE  TypeOK'
<1> USE Typing DEF TypeOK, Screens, deviceVars, docVars, history
<1>1. ASSUME NEW c \in Categories, LoadCategory(c) PROVE TypeOK'
  <2>1. user \in Accounts /\ record[user][c] \in Records
    BY <1>1 DEF LoadCategory, HasRecord
  <2>2. record[user][c].voiceCommand \in Commands
    BY <2>1 DEF Records
  <2> QED BY <1>1, <2>2 DEF LoadCategory
<1>2. ASSUME NEW c \in Categories, SaveCustomVoiceCommand(c) PROVE TypeOK'
  <2>1. user \in Accounts
    BY <1>2 DEF SaveCustomVoiceCommand
  <2>2. \A text \in Commands :
           [account |-> user, category |-> c, command |-> text, seen |-> None] \in Saves
    BY <2>1 DEF Saves
  <2> QED BY <1>2, <2>1, <2>2 DEF SaveCustomVoiceCommand
<1>3. ASSUME NEW r \in Requests, ReadForSave(r) PROVE TypeOK'
  <2>1. saves[r] \in Saves
    BY <1>3 DEF ReadForSave
  <2>2. saves[r].account \in Accounts /\ saves[r].category \in Categories
    BY <2>1 DEF Saves
  <2>3. \A rec \in Records : [saves[r] EXCEPT !.seen = rec] \in Saves
    BY <2>1 DEF Saves
  <2>4. saves' \in [Requests -> Saves \cup {None}]
    BY <1>3, <2>2, <2>3 DEF ReadForSave, HasRecord
  <2> QED BY <1>3, <2>4 DEF ReadForSave
<1>4. ASSUME NEW r \in Requests, WriteSaved(r) PROVE TypeOK'
  <2>1. saves[r] \in Saves
    BY <1>4 DEF WriteSaved
  <2>2. /\ saves[r].account \in Accounts /\ saves[r].category \in Categories
        /\ saves[r].command \in Commands /\ saves[r].seen \in Records
    BY <1>4, <2>1 DEF Saves, WriteSaved
  <2>3. WithCommand(saves[r].seen, saves[r].command) \in Records
    BY <2>2, WrittenRecords
  <2> QED BY <1>4, <2>2, <2>3 DEF WriteSaved
<1> QED BY <1>1, <1>2, <1>3, <1>4

LEMMA NextTypeOK ==
    ASSUME TypeOK, [Next]_vars
    PROVE  TypeOK'
<1>1. CASE Next
  BY <1>1, TypeOKEntering, TypeOKPlaying, TypeOKCommands DEF Next, Player, Cloud
<1>2. CASE UNCHANGED vars
  BY <1>2 DEF TypeOK, vars, deviceVars, docVars, history
<1> QED BY <1>1, <1>2

\* Every variable keeps its type, there is a user wherever the code takes one by
\* force, and a category in every quiz.
THEOREM TypeCorrect == Spec => []TypeOK
BY InitTypeOK, NextTypeOK, PTL DEF Spec

----------------------------------------------------------------------------
(* Records and the points in them *)

\* What a step can do to the records and to all that is put into them.
LEMMA Writers ==
    ASSUME [Next]_vars
    PROVE  \/ UNCHANGED <<counters, saves, record, won>>
           \/ \E a \in Accounts : /\ record' = [record EXCEPT ![a] = NoRecords]
                                 /\ UNCHANGED <<counters, saves, won>>
           \/ \E c \in Categories : SaveCustomVoiceCommand(c)
           \/ \E r \in Requests : ReadForSave(r) \/ WriteSaved(r)
           \/ Relaunch \/ Answer
BY DEF Next, Player, Cloud, Register, Login, LeaveSplash, SignOutAction, DeleteAccount, SignOut,
       UserDeleted, DocumentDeleted, OpenQuiz, RestartQuiz, LeaveQuiz, LoadCategory,
       vars, deviceVars, docVars, history

CountersSound ==
    \A c \in Categories : /\ counters[c].counter = Points * counters[c].correct
                          /\ counters[c].counter < MaxScore + Points

ReadsSound ==
    \A r \in Requests : saves[r] # None /\ saves[r].seen # None => WellKept(saves[r].seen)

RecordInv == RecordConsistent /\ CountersSound /\ ReadsSound

LEMMA InitRecordInv == Init => RecordInv
BY Typing DEF Init, RecordInv, RecordConsistent, CountersSound, ReadsSound, NoRecords, Fresh

\* An answer counts points and right answers together and saves both.
LEMMA AnswerRecordInv ==
    ASSUME TypeOK, RecordInv, Answer
    PROVE  RecordInv'
<1>1. user \in Accounts /\ playing \in Categories
  BY DEF TypeOK, Answer
<1>2. CountersSound'
  <2>1. /\ counters[playing] \in [counter : Nat, correct : Nat]
        /\ counters[playing].counter = Points * counters[playing].correct
    BY <1>1 DEF TypeOK, RecordInv, CountersSound
  <2>2. \/ counters' = counters
        \/ /\ counters[playing].counter < MaxScore
           /\ counters' = [counters EXCEPT ![playing] =
                 [counter |-> counters[playing].counter + Points,
                  correct |-> counters[playing].correct + 1]]
    BY DEF Answer
  <2> QED BY <1>1, <2>1, <2>2, Typing DEF RecordInv, CountersSound, TypeOK
<1>3. WellKept(GameRecord)
  BY <1>1, <1>2 DEF GameRecord, WellKept, CountersSound
<1>4. RecordConsistent'
  <2>1. record' = record \/ record' = [record EXCEPT ![user][playing] = GameRecord]
    BY DEF Answer, write
  <2>2. record \in [Accounts -> [Categories -> Records \cup {None}]]
    BY DEF TypeOK
  <2>3. \A a \in Accounts, c \in Categories :
           record'[a][c] = record[a][c] \/ record'[a][c] = GameRecord
    BY <1>1, <2>1, <2>2, CellRead
  <2>4. ASSUME NEW a \in Accounts, NEW c \in Categories, record'[a][c] # None
        PROVE  WellKept(record'[a][c])
    BY <1>3, <2>3, <2>4 DEF RecordInv, RecordConsistent
  <2> QED BY <2>4 DEF RecordConsistent, WellKept
<1>5. ReadsSound'
  BY DEF Answer, RecordInv, ReadsSound, WellKept
<1> QED BY <1>2, <1>4, <1>5 DEF RecordInv

\* A save reads a record and writes it back with a zero in the place of the points.
LEMMA SaveRecordInv ==
    ASSUME TypeOK, RecordInv,
           \/ \E c \in Categories : SaveCustomVoiceCommand(c)
           \/ \E r \in Requests : ReadForSave(r) \/ WriteSaved(r)
    PROVE  RecordInv'
<1>1. ASSUME NEW c \in Categories, SaveCustomVoiceCommand(c) PROVE RecordInv'
  <2>1. PICK r \in Requests, text \in Commands :
           saves' = [saves EXCEPT ![r] =
               [account |-> user, category |-> c, command |-> text, seen |-> None]]
    BY <1>1 DEF SaveCustomVoiceCommand
  <2>2. \A q \in Requests : saves'[q] = saves[q] \/ saves'[q].seen = None
    BY <2>1 DEF TypeOK
  <2>3. ReadsSound'
    BY <2>2 DEF RecordInv, ReadsSound, WellKept
  <2> QED BY <1>1, <2>3 DEF SaveCustomVoiceCommand, docVars, RecordInv, RecordConsistent,
                            CountersSound, WellKept
<1>2. ASSUME NEW r \in Requests, ReadForSave(r) PROVE RecordInv'
  <2>1. saves[r] \in Saves
    BY <1>2 DEF ReadForSave, TypeOK
  <2>2. saves[r].account \in Accounts /\ saves[r].category \in Categories
    BY <2>1 DEF Saves
  <2>3. ASSUME NEW q \in Requests, saves'[q] # None, saves'[q].seen # None
        PROVE  WellKept(saves'[q].seen)
    <3>1. CASE saves'[q] = saves[q]
      BY <2>3, <3>1 DEF RecordInv, ReadsSound
    <3>2. CASE saves'[q] # saves[q]
      <4>1. q = r /\ saves' = [saves EXCEPT ![r].seen =
                                  record[saves[r].account][saves[r].category]]
        BY <1>2, <2>3, <3>2 DEF ReadForSave, TypeOK
      <4>2. saves'[q].seen = record[saves[r].account][saves[r].category]
        BY <2>1, <4>1 DEF TypeOK, Saves
      <4> QED BY <2>2, <2>3, <4>2 DEF RecordInv, RecordConsistent
    <3> QED BY <3>1, <3>2
  <2>4. ReadsSound'
    BY <2>3 DEF ReadsSound, WellKept
  <2> QED BY <1>2, <2>4 DEF ReadForSave, docVars, RecordInv, RecordConsistent,
                            CountersSound, WellKept
<1>3. ASSUME NEW r \in Requests, WriteSaved(r) PROVE RecordInv'
  <2>1. saves[r] \in Saves /\ saves[r].seen # None
    BY <1>3 DEF WriteSaved, TypeOK
  <2>2. /\ saves[r].account \in Accounts /\ saves[r].category \in Categories
        /\ WellKept(saves[r].seen) /\ saves[r].seen \in Records
    BY <1>3, <2>1 DEF Saves, WriteSaved, RecordInv, ReadsSound
  <2>3. WellKept(WithCommand(saves[r].seen, saves[r].command))
    BY <2>2, Typing DEF WellKept, WithCommand, Records
  <2>4. \/ record' = record
        \/ record' = [record EXCEPT ![saves[r].account][saves[r].category] =
                          WithCommand(saves[r].seen, saves[r].command)]
    BY <1>3 DEF WriteSaved
  <2>5. RecordConsistent'
    <3>1. record \in [Accounts -> [Categories -> Records \cup {None}]]
      BY DEF TypeOK
    <3>2. \A a \in Accounts, c \in Categories :
             \/ record'[a][c] = record[a][c]
             \/ record'[a][c] = WithCommand(saves[r].seen, saves[r].command)
      BY <2>2, <2>4, <3>1, CellRead
    <3>3. ASSUME NEW a \in Accounts, NEW c \in Categories, record'[a][c] # None
          PROVE  WellKept(record'[a][c])
      BY <2>3, <3>2, <3>3 DEF RecordInv, RecordConsistent
    <3> QED BY <3>3 DEF RecordConsistent, WellKept
  <2>6. ReadsSound' /\ CountersSound'
    BY <1>3 DEF WriteSaved, TypeOK, RecordInv, ReadsSound, CountersSound, WellKept
  <2> QED BY <2>5, <2>6 DEF RecordInv
<1> QED BY <1>1, <1>2, <1>3

LEMMA NextRecordInv ==
    ASSUME TypeOK, RecordInv, [Next]_vars
    PROVE  RecordInv'
<1> USE DEF RecordInv, RecordConsistent, CountersSound, ReadsSound, WellKept
<1>1. CASE UNCHANGED <<counters, saves, record, won>>
  BY <1>1
<1>2. ASSUME NEW a \in Accounts, record' = [record EXCEPT ![a] = NoRecords],
             UNCHANGED <<counters, saves, won>>
      PROVE  RecordInv'
  <2>1. \A b \in Accounts, c \in Categories : record'[b][c] = None \/ record'[b][c] = record[b][c]
    BY <1>2 DEF TypeOK, NoRecords
  <2> QED BY <1>2, <2>1
<1>3. CASE Relaunch
  BY <1>3, Typing DEF Relaunch, Fresh, docVars
<1> QED BY <1>1, <1>2, <1>3, Writers, AnswerRecordInv, SaveRecordInv

\* Points in the cloud are five for each right answer, never over the maximum,
\* and never under the key that the readers of a category look for.
THEOREM RecordAlwaysConsistent == Spec => []RecordConsistent
<1>1. RecordInv => RecordConsistent
  BY DEF RecordInv
<1> QED BY <1>1, InitRecordInv, NextRecordInv, TypeCorrect, PTL DEF Spec

----------------------------------------------------------------------------
(* Whose points a record holds *)

\* Nobody but a has scored in c.
Alone(a, c) == \A b \in Accounts \ {a} : won[b][c] = 0

CountersEarned ==
    \A a \in Accounts, c \in Categories : Alone(a, c) => counters[c].correct <= won[a][c]

ReadsEarned ==
    \A r \in Requests : saves[r] # None /\ saves[r].seen # None =>
        (Alone(saves[r].account, saves[r].category) =>
            saves[r].seen.correct <= won[saves[r].account][saves[r].category])

PointsInv == PointsEarned /\ CountersEarned /\ ReadsEarned

LEMMA InitPointsInv == Init => PointsInv
BY Typing DEF Init, PointsInv, PointsEarned, CountersEarned, ReadsEarned, NoRecords, Fresh

\* An answer that scores is counted for its player, so that nobody else is
\* alone in the category any more.
LEMMA AnswerPointsInv ==
    ASSUME TypeOK, PointsInv, Answer
    PROVE  PointsInv'
<1>1. /\ user \in Accounts /\ playing \in Categories
      /\ record \in [Accounts -> [Categories -> Records \cup {None}]]
      /\ won \in [Accounts -> [Categories -> Nat]]
      /\ counters \in [Categories -> [counter : Nat, correct : Nat]]
  BY DEF TypeOK, Answer
<1>2. ASSUME NEW a \in Accounts, NEW c \in Categories, Alone(a, c)'
      PROVE  /\ Alone(a, c)
             /\ counters'[c].correct <= won'[a][c]
             /\ won[a][c] <= won'[a][c]
  <2>0. (\A b \in Accounts : won[b][c] \in Nat) /\ counters[c].correct \in Nat
    BY <1>1
  <2>1. CASE UNCHANGED <<counters, won>>
    BY <1>2, <2>0, <2>1 DEF Alone, PointsInv, CountersEarned
  <2>2. CASE /\ counters' = [counters EXCEPT ![playing] =
                   [counter |-> counters[playing].counter + Points,
                    correct |-> counters[playing].correct + 1]]
             /\ won' = [won EXCEPT ![user][playing] = won[user][playing] + 1]
    <3>1. \A b \in Accounts :
             won'[b][c] = IF b = user /\ c = playing THEN won[user][playing] + 1 ELSE won[b][c]
      BY <1>1, <2>2, CellRead
    <3>2. Alone(a, c)
      BY <1>2, <2>0, <3>1 DEF Alone
    <3>3. c = playing => a = user
      BY <1>1, <1>2, <2>0, <3>1 DEF Alone
    <3>4. counters[c].correct <= won[a][c]
      BY <3>2 DEF PointsInv, CountersEarned
    <3>5. counters'[c].correct = IF c = playing THEN counters[c].correct + 1
                                               ELSE counters[c].correct
      BY <1>1, <2>2
    <3> QED BY <2>0, <3>1, <3>2, <3>3, <3>4, <3>5
  <2> QED BY <2>1, <2>2 DEF Answer
<1>3. CountersEarned'
  BY <1>2 DEF CountersEarned, Alone
<1>4. ASSUME NEW a \in Accounts, NEW c \in Categories, Alone(a, c)', record'[a][c] # None
      PROVE  record'[a][c].correct <= won'[a][c]
  <2>1. record' = record \/ record' = [record EXCEPT ![user][playing] = GameRecord]
    BY DEF Answer, write
  <2>2. \/ record'[a][c] = record[a][c]
        \/ a = user /\ c = playing /\ record'[a][c] = GameRecord
    BY <1>1, <2>1, CellRead
  <2>3. CASE record'[a][c] = record[a][c]
    <3>1. record[a][c] \in Records
      BY <1>1, <1>4, <2>3
    <3>2. record[a][c].correct \in Nat /\ won[a][c] \in Nat
      BY <1>1, <3>1 DEF Records
    <3>3. won'[a][c] \in Nat
      BY NextTypeOK DEF TypeOK, Next, Player
    <3> QED BY <1>2, <1>4, <2>3, <3>1, <3>2, <3>3 DEF PointsInv, PointsEarned, Alone
  <2>4. CASE a = user /\ c = playing /\ record'[a][c] = GameRecord
    BY <1>2, <1>4, <2>4 DEF GameRecord
  <2> QED BY <2>2, <2>3, <2>4
<1>5. PointsEarned'
  BY <1>4 DEF PointsEarned, Alone
<1>6. ASSUME NEW r \in Requests, saves'[r] # None, saves'[r].seen # None,
             \A b \in Accounts \ {saves'[r].account} : won'[b][saves'[r].category] = 0
      PROVE  saves'[r].seen.correct <= won'[saves'[r].account][saves'[r].category]
  <2>1. saves'[r] = saves[r] /\ saves[r] \in Saves
    BY <1>6 DEF Answer, TypeOK
  <2>2. /\ saves[r].account \in Accounts /\ saves[r].category \in Categories
        /\ saves[r].seen \in Records
    BY <1>6, <2>1 DEF Saves
  <2>3. saves[r].seen.correct \in Nat /\ won[saves[r].account][saves[r].category] \in Nat
    BY <1>1, <2>2 DEF Records
  <2>4. won'[saves[r].account][saves[r].category] \in Nat
    BY <2>2, NextTypeOK DEF TypeOK, Next, Player
  <2>5. \A b \in Accounts \ {saves[r].account} : won'[b][saves[r].category] = 0
    BY <1>6, <2>1
  <2>6. /\ Alone(saves[r].account, saves[r].category)
        /\ won[saves[r].account][saves[r].category] <= won'[saves[r].account][saves[r].category]
    BY <1>2, <2>2, <2>5 DEF Alone
  <2> QED BY <1>6, <2>1, <2>2, <2>3, <2>4, <2>6 DEF PointsInv, ReadsEarned
<1>7. ReadsEarned'
  BY <1>6 DEF ReadsEarned, Alone
<1> QED BY <1>3, <1>5, <1>7 DEF PointsInv

\* A save carries the right answers it has read, no more.
LEMMA SavePointsInv ==
    ASSUME TypeOK, PointsInv,
           \/ \E c \in Categories : SaveCustomVoiceCommand(c)
           \/ \E r \in Requests : ReadForSave(r) \/ WriteSaved(r)
    PROVE  PointsInv'
<1>1. UNCHANGED <<counters, won>>
  BY DEF SaveCustomVoiceCommand, ReadForSave, WriteSaved, history
<1>2. CountersEarned'
  BY <1>1 DEF PointsInv, CountersEarned, Alone
<1>3. ASSUME NEW c \in Categories, SaveCustomVoiceCommand(c) PROVE PointsInv'
  <2>1. PICK r \in Requests, text \in Commands :
           saves' = [saves EXCEPT ![r] =
               [account |-> user, category |-> c, command |-> text, seen |-> None]]
    BY <1>3 DEF SaveCustomVoiceCommand
  <2>2. \A q \in Requests : saves'[q] = saves[q] \/ saves'[q].seen = None
    BY <2>1 DEF TypeOK
  <2>3. ReadsEarned'
    BY <1>1, <2>2 DEF PointsInv, ReadsEarned, Alone
  <2>4. PointsEarned'
    BY <1>1, <1>3 DEF SaveCustomVoiceCommand, docVars, PointsInv, PointsEarned
  <2> QED BY <1>2, <2>3, <2>4 DEF PointsInv
<1>4. ASSUME NEW r \in Requests, ReadForSave(r) PROVE PointsInv'
  <2>1. saves[r] \in Saves
    BY <1>4 DEF ReadForSave, TypeOK
  <2>2. saves[r].account \in Accounts /\ saves[r].category \in Categories
    BY <2>1 DEF Saves
  <2>3. ASSUME NEW q \in Requests, saves'[q] # None, saves'[q].seen # None,
               \A b \in Accounts \ {saves'[q].account} : won[b][saves'[q].category] = 0
        PROVE  saves'[q].seen.correct <= won[saves'[q].account][saves'[q].category]
    <3>1. CASE saves'[q] = saves[q]
      BY <2>3, <3>1 DEF PointsInv, ReadsEarned, Alone
    <3>2. CASE saves'[q] # saves[q]
      <4>1. q = r /\ saves' = [saves EXCEPT ![r].seen =
                                  record[saves[r].account][saves[r].category]]
        BY <1>4, <2>3, <3>2 DEF ReadForSave, TypeOK
      <4>2. /\ saves'[q].seen = record[saves[r].account][saves[r].category]
            /\ saves'[q].account = saves[r].account /\ saves'[q].category = saves[r].category
        BY <2>1, <4>1 DEF TypeOK, Saves
      <4> QED BY <2>2, <2>3, <4>2 DEF PointsInv, PointsEarned
    <3> QED BY <3>1, <3>2
  <2>4. ReadsEarned'
    BY <1>1, <2>3 DEF ReadsEarned, Alone
  <2>5. PointsEarned'
    BY <1>1, <1>4 DEF ReadForSave, docVars, PointsInv, PointsEarned
  <2> QED BY <1>2, <2>4, <2>5 DEF PointsInv
<1>5. ASSUME NEW r \in Requests, WriteSaved(r) PROVE PointsInv'
  <2>1. saves[r] \in Saves /\ saves[r] # None /\ saves[r].seen # None
    BY <1>5 DEF WriteSaved, TypeOK
  <2>2. saves[r].account \in Accounts /\ saves[r].category \in Categories
    BY <2>1 DEF Saves
  <2>3. \/ record' = record
        \/ record' = [record EXCEPT ![saves[r].account][saves[r].category] =
                          WithCommand(saves[r].seen, saves[r].command)]
    BY <1>5 DEF WriteSaved
  <2>4. record \in [Accounts -> [Categories -> Records \cup {None}]]
    BY DEF TypeOK
  <2>5. \A a \in Accounts, c \in Categories :
           \/ record'[a][c] = record[a][c]
           \/ /\ a = saves[r].account /\ c = saves[r].category
              /\ record'[a][c] = WithCommand(saves[r].seen, saves[r].command)
    BY <2>2, <2>3, <2>4, CellRead
  <2>6. WithCommand(saves[r].seen, saves[r].command).correct = saves[r].seen.correct
    BY DEF WithCommand
  <2>7. PointsEarned'
    BY <1>1, <2>1, <2>2, <2>5, <2>6 DEF PointsInv, PointsEarned, ReadsEarned, Alone
  <2>8. ReadsEarned'
    BY <1>1, <1>5 DEF WriteSaved, TypeOK, PointsInv, ReadsEarned, Alone
  <2> QED BY <1>2, <2>7, <2>8 DEF PointsInv
<1> QED BY <1>3, <1>4, <1>5

LEMMA NextPointsInv ==
    ASSUME TypeOK, PointsInv, [Next]_vars
    PROVE  PointsInv'
<1> USE DEF PointsInv, PointsEarned, CountersEarned, ReadsEarned, Alone
<1>1. CASE UNCHANGED <<counters, saves, record, won>>
  BY <1>1
<1>2. ASSUME NEW a \in Accounts, record' = [record EXCEPT ![a] = NoRecords],
             UNCHANGED <<counters, saves, won>>
      PROVE  PointsInv'
  <2>1. \A b \in Accounts, c \in Categories : record'[b][c] = None \/ record'[b][c] = record[b][c]
    BY <1>2 DEF TypeOK, NoRecords
  <2> QED BY <1>2, <2>1
<1>3. CASE Relaunch
  BY <1>3, Typing DEF Relaunch, Fresh, docVars, history, TypeOK
<1> QED BY <1>1, <1>2, <1>3, Writers, AnswerPointsInv, SavePointsInv

\* A record has no more right answers than its account's player gave, as long as
\* nobody else has scored in the category on this device.
THEOREM PointsAlwaysEarned == Spec => []PointsEarned
<1>1. PointsInv => PointsEarned
  BY DEF PointsInv
<1> QED BY <1>1, InitPointsInv, NextPointsInv, TypeCorrect, PTL DEF Spec

----------------------------------------------------------------------------
(* Whose voice command a record holds *)

Own(a, c) == {Default[c]} \cup chosen[a][c]

\* The list is filled only while a player is on the home screen.
ListOwn ==
    /\ screen # "home" => list = Default
    /\ screen = "home" => \A c \in Categories : list[c] \in Own(user, c)

HeldOwn == screen = "quiz" => held \in Own(user, playing)

SavesOwn ==
    \A r \in Requests :
        saves[r] # None => saves[r].command \in Own(saves[r].account, saves[r].category)

CommandInv == CommandsOwn /\ ListOwn /\ HeldOwn /\ SavesOwn

LEMMA InitCommandInv == Init => CommandInv
BY Typing DEF Init, CommandInv, CommandsOwn, ListOwn, HeldOwn, SavesOwn, NoRecords

\* A step of saving adds to the commands a player chose, nothing takes one away.
LEMMA ChosenGrows ==
    ASSUME TypeOK, [Next]_vars
    PROVE  \A a \in Accounts, c \in Categories : chosen[a][c] \subseteq chosen'[a][c]
<1>1. ASSUME NEW c \in Categories, SaveCustomVoiceCommand(c)
      PROVE  \A a \in Accounts, d \in Categories : chosen[a][d] \subseteq chosen'[a][d]
  <2>1. PICK more : chosen' = [chosen EXCEPT ![user][c] = chosen[user][c] \cup more]
    BY <1>1 DEF SaveCustomVoiceCommand
  <2>2. user \in Accounts /\ chosen \in [Accounts -> [Categories -> SUBSET Commands]]
    BY <1>1 DEF SaveCustomVoiceCommand, TypeOK
  <2>3. \A a \in Accounts, d \in Categories :
           chosen'[a][d] = IF a = user /\ d = c THEN chosen[user][c] \cup more ELSE chosen[a][d]
    BY <2>1, <2>2, CellRead
  <2> QED BY <2>3
<1>2. CASE UNCHANGED chosen
  BY <1>2
<1>3. UNCHANGED chosen \/ \E c \in Categories : SaveCustomVoiceCommand(c)
  BY DEF Next, Player, Cloud, Register, Login, LeaveSplash, SignOutAction, DeleteAccount, SignOut,
         UserDeleted, DocumentDeleted, Relaunch, OpenQuiz, RestartQuiz, LeaveQuiz, Answer,
         LoadCategory, ReadForSave, WriteSaved, vars, deviceVars, docVars, history
<1> QED BY <1>1, <1>2, <1>3

LEMMA NextSavesOwn ==
    ASSUME TypeOK, CommandInv, [Next]_vars
    PROVE  SavesOwn'
<1> DEFINE Kept(q) ==
             /\ saves[q] # None /\ saves'[q].account = saves[q].account
             /\ saves'[q].category = saves[q].category /\ saves'[q].command = saves[q].command
           Good(q) ==
             \/ saves'[q].command = Default[saves'[q].category]
             \/ saves'[q].command \in chosen'[saves'[q].account][saves'[q].category]
<1>1. ASSUME NEW q \in Requests, Kept(q) PROVE Good(q)
  <2>1. saves[q].account \in Accounts /\ saves[q].category \in Categories
    BY <1>1 DEF TypeOK, Saves
  <2> QED BY <1>1, <2>1, ChosenGrows DEF CommandInv, SavesOwn, Own
<1>2. ASSUME NEW q \in Requests, NEW c \in Categories, SaveCustomVoiceCommand(c),
             saves'[q] # saves[q]
      PROVE  Good(q)
  <2>1. PICK r \in Requests, text \in Commands :
           /\ saves' = [saves EXCEPT ![r] =
                 [account |-> user, category |-> c, command |-> text, seen |-> None]]
           /\ chosen' = [chosen EXCEPT ![user][c] = chosen[user][c] \cup ({text} \ {Default[c]})]
    BY <1>2 DEF SaveCustomVoiceCommand
  <2>2. user \in Accounts /\ chosen \in [Accounts -> [Categories -> SUBSET Commands]]
    BY <1>2 DEF SaveCustomVoiceCommand, TypeOK
  <2>3. saves'[q] = [account |-> user, category |-> c, command |-> text, seen |-> None]
    BY <1>2, <2>1 DEF TypeOK
  <2>4. chosen'[user][c] = chosen[user][c] \cup ({text} \ {Default[c]})
    BY <2>1, <2>2, CellRead
  <2>5. /\ saves'[q].account = user /\ saves'[q].category = c /\ saves'[q].command = text
    BY <2>3
  <2> QED BY <2>4, <2>5
<1>3. ASSUME NEW q \in Requests, NEW r \in Requests, ReadForSave(r) \/ WriteSaved(r),
             saves'[q] # saves[q], saves'[q] # None
      PROVE  Kept(q)
  <2>1. saves[r] \in Saves
    BY <1>3 DEF TypeOK, ReadForSave, WriteSaved
  <2>2. q = r /\ saves' = [saves EXCEPT ![r].seen = record[saves[r].account][saves[r].category]]
    BY <1>3 DEF TypeOK, ReadForSave, WriteSaved
  <2>3. saves'[q] = [saves[q] EXCEPT !.seen = record[saves[r].account][saves[r].category]]
    BY <2>2 DEF TypeOK
  <2>4. saves[q] \in Saves /\ saves[q] # None
    BY <1>3, <2>1, <2>2 DEF ReadForSave, WriteSaved
  <2> QED BY <2>3, <2>4 DEF Saves
<1>4. \/ UNCHANGED saves \/ Relaunch
      \/ \E c \in Categories : SaveCustomVoiceCommand(c)
      \/ \E r \in Requests : ReadForSave(r) \/ WriteSaved(r)
  BY Writers DEF Answer
<1>5. ASSUME NEW q \in Requests, saves'[q] # None PROVE Good(q)
  <2>1. CASE saves'[q] = saves[q]
    BY <1>1, <1>5, <2>1
  <2>2. CASE saves'[q] # saves[q]
    <3>1. ~ Relaunch
      BY <1>5 DEF Relaunch
    <3> QED BY <1>1, <1>2, <1>3, <1>4, <1>5, <2>2, <3>1
  <2> QED BY <2>1, <2>2
<1> QED BY <1>5 DEF SavesOwn, Own

\* What the list and the quiz hold comes from the static categories or from the
\* records of whoever is signed in.
LEMMA NextHeldOwn ==
    ASSUME TypeOK, CommandInv, [Next]_vars
    PROVE  ListOwn' /\ HeldOwn'
<1>1. CASE UNCHANGED <<screen, user, playing, held, list>>
  <2>1. screen = "home" => user \in Accounts
    BY DEF TypeOK
  <2>2. screen = "quiz" => user \in Accounts /\ playing \in Categories
    BY DEF TypeOK
  <2> QED BY <1>1, <2>1, <2>2, ChosenGrows DEF CommandInv, ListOwn, HeldOwn, Own
<1>2. CASE EnterHome \/ (screen' \in {"login", "splash"} /\ list' = Default)
  BY <1>2 DEF EnterHome, ListOwn, HeldOwn, Own
<1>3. ASSUME NEW a \in Accounts, Login(a) PROVE ListOwn' /\ HeldOwn'
  BY <1>3, <1>2 DEF Login, CommandInv, ListOwn
<1>4. ASSUME NEW c \in Categories, OpenQuiz(c) PROVE ListOwn' /\ HeldOwn'
  BY <1>4 DEF OpenQuiz, CommandInv, ListOwn, HeldOwn, Own, history
<1>5. CASE RestartQuiz
  BY <1>5 DEF RestartQuiz, CommandInv, ListOwn, HeldOwn, Own
<1>6. ASSUME NEW c \in Categories, LoadCategory(c) PROVE ListOwn' /\ HeldOwn'
  <2>1. user \in Accounts /\ record[user][c].voiceCommand \in Own(user, c)
    BY <1>6 DEF LoadCategory, HasRecord, TypeOK, CommandInv, CommandsOwn, Own
  <2>2. list' = [list EXCEPT ![c] = record[user][c].voiceCommand]
    BY <1>6 DEF LoadCategory
  <2>3. \A d \in Categories : list'[d] \in Own(user, d)
    BY <1>6, <2>1, <2>2 DEF TypeOK, LoadCategory, CommandInv, ListOwn
  <2> QED BY <1>6, <2>3 DEF LoadCategory, ListOwn, HeldOwn, Own, history
<1>7. \/ UNCHANGED <<screen, user, playing, held, list>>
      \/ EnterHome \/ (screen' \in {"login", "splash"} /\ list' = Default)
      \/ \E a \in Accounts : Login(a)
      \/ \E c \in Categories : OpenQuiz(c) \/ LoadCategory(c)
      \/ RestartQuiz
  BY DEF Next, Player, Cloud, Register, LeaveSplash, SignOutAction, DeleteAccount, SignOut,
         UserDeleted, DocumentDeleted, Relaunch, LeaveQuiz, Answer, SaveCustomVoiceCommand,
         ReadForSave, WriteSaved, vars, deviceVars
<1> QED BY <1>1, <1>2, <1>3, <1>4, <1>5, <1>6, <1>7

LEMMA NextCommandsOwn ==
    ASSUME TypeOK, CommandInv, [Next]_vars
    PROVE  CommandsOwn'
<1> DEFINE Good(a, c) == record'[a][c].voiceCommand \in {Default[c]} \cup chosen'[a][c]
<1>0. record \in [Accounts -> [Categories -> Records \cup {None}]]
  BY DEF TypeOK
<1>1. ASSUME NEW a \in Accounts, NEW c \in Categories, record[a][c] # None,
             record'[a][c] = record[a][c]
      PROVE  Good(a, c)
  BY <1>1, ChosenGrows DEF CommandInv, CommandsOwn
<1>2. ASSUME Answer, NEW a \in Accounts, NEW c \in Categories, record'[a][c] # record[a][c]
      PROVE  Good(a, c)
  <2>1. user \in Accounts /\ playing \in Categories /\ held \in Own(user, playing)
    BY <1>2 DEF Answer, TypeOK, CommandInv, HeldOwn
  <2>2. record' = record \/ record' = [record EXCEPT ![user][playing] = GameRecord]
    BY <1>2 DEF Answer, write
  <2>3. a = user /\ c = playing /\ record'[a][c] = GameRecord
    BY <1>0, <1>2, <2>1, <2>2, CellRead
  <2>4. record'[a][c].voiceCommand = held
    BY <2>3 DEF GameRecord
  <2> QED BY <1>2, <2>1, <2>3, <2>4 DEF Answer, Own
<1>3. ASSUME NEW r \in Requests, WriteSaved(r), NEW a \in Accounts, NEW c \in Categories,
             record'[a][c] # record[a][c]
      PROVE  Good(a, c)
  <2>1. saves[r] \in Saves /\ saves[r].command \in Own(saves[r].account, saves[r].category)
    BY <1>3 DEF WriteSaved, TypeOK, CommandInv, SavesOwn
  <2>2. saves[r].account \in Accounts /\ saves[r].category \in Categories
    BY <2>1 DEF Saves
  <2>3. \/ record' = record
        \/ record' = [record EXCEPT ![saves[r].account][saves[r].category] =
                          WithCommand(saves[r].seen, saves[r].command)]
    BY <1>3 DEF WriteSaved
  <2>4. /\ a = saves[r].account /\ c = saves[r].category
        /\ record'[a][c] = WithCommand(saves[r].seen, saves[r].command)
    BY <1>0, <1>3, <2>2, <2>3, CellRead
  <2>5. record'[a][c].voiceCommand = saves[r].command
    BY <2>4 DEF WithCommand
  <2> QED BY <1>3, <2>1, <2>4, <2>5 DEF WriteSaved, Own, history
<1>4. ASSUME NEW b \in Accounts, record' = [record EXCEPT ![b] = NoRecords],
             NEW a \in Accounts, NEW c \in Categories, record'[a][c] # record[a][c]
      PROVE  record'[a][c] = None
  BY <1>0, <1>4 DEF NoRecords
<1>5. \/ UNCHANGED record \/ Answer
      \/ \E b \in Accounts : record' = [record EXCEPT ![b] = NoRecords]
      \/ \E r \in Requests : WriteSaved(r)
  BY Writers DEF Relaunch, SaveCustomVoiceCommand, ReadForSave, docVars
<1>6. ASSUME NEW a \in Accounts, NEW c \in Categories, record'[a][c] # None
      PROVE  Good(a, c)
  BY <1>1, <1>2, <1>3, <1>4, <1>5, <1>6
<1> QED BY <1>6 DEF CommandsOwn

\* A command in an account's document is the category's own or one its player
\* saved for this category, whoever else uses the device.
THEOREM CommandsAlwaysOwn == Spec => []CommandsOwn
<1>1. TypeOK /\ CommandInv /\ [Next]_vars => CommandInv'
  BY NextCommandsOwn, NextHeldOwn, NextSavesOwn DEF CommandInv
<1>2. CommandInv => CommandsOwn
  BY DEF CommandInv
<1> QED BY <1>1, <1>2, InitCommandInv, TypeCorrect, PTL DEF Spec

----------------------------------------------------------------------------
(* Documents come and go *)

\* A document that was not there is there only after its account's registration.
THEOREM OnlyRegistrationEverCreates == Spec => OnlyRegistrationCreates
<1>1. [Next]_vars => [\A a \in Accounts : a \notin docs /\ a \in docs' => Register(a)]_vars
  <2> SUFFICES ASSUME [Next]_vars, NEW a \in Accounts, a \notin docs, a \in docs'
               PROVE  Register(a)
    OBVIOUS
  <2>1. PICK b \in Accounts : Register(b)
    BY DEF Next, Player, Cloud, Login, LeaveSplash, SignOutAction, DeleteAccount, SignOut,
           UserDeleted, DocumentDeleted, Relaunch, OpenQuiz, RestartQuiz, LeaveQuiz, Answer,
           LoadCategory, SaveCustomVoiceCommand, ReadForSave, WriteSaved,
           vars, deviceVars, docVars
  <2>2. a = b
    BY <2>1 DEF Register, docVars
  <2> QED BY <2>1, <2>2
<1> QED BY <1>1, PTL DEF Spec, OnlyRegistrationCreates

----------------------------------------------------------------------------
(* Why the claims fail that the code breaks, and when they hold *)

\* Nobody ever has the achievement, whatever is scored: checkAchievement writes
\* it only for an account whose document already has a record of it.
NeverEarned == \A a \in Accounts : achievement[a] = None

LEMMA NextNeverEarned == TypeOK /\ NeverEarned /\ [Next]_vars => NeverEarned'
<1> SUFFICES ASSUME TypeOK, NeverEarned, [Next]_vars PROVE NeverEarned'
  OBVIOUS
<1>1. achievement \in [Accounts -> Nat \cup {None}]
  BY DEF TypeOK
<1>2. CASE UNCHANGED achievement
  BY <1>2 DEF NeverEarned
<1>3. ASSUME NEW b \in Accounts, achievement' = [achievement EXCEPT ![b] = None] PROVE NeverEarned'
  BY <1>1, <1>3 DEF NeverEarned
<1>4. CASE Answer
  <2>1. \A owner \in Accounts : CheckAchievement(owner) => UNCHANGED achievement
    BY DEF CheckAchievement, NeverEarned, TypeOK
  <2> QED BY <1>2, <1>4, <2>1 DEF Answer, write
<1> QED BY <1>2, <1>3, <1>4 DEF Next, Player, Cloud, Register, Login, LeaveSplash, SignOutAction,
      DeleteAccount, SignOut, UserDeleted, DocumentDeleted, Relaunch, OpenQuiz, RestartQuiz,
      LeaveQuiz, LoadCategory, SaveCustomVoiceCommand, ReadForSave, WriteSaved,
      vars, deviceVars, docVars

THEOREM AchievementNeverEarned == Spec => []NeverEarned
<1>1. Init => NeverEarned
  BY DEF Init, NeverEarned
<1> QED BY <1>1, NextNeverEarned, TypeCorrect, PTL DEF Spec

\* Whoever signs in without a last quiz is let in and stays on the splash
\* screen for ever: closing the application does not help, since Auth remembers
\* the user, and no quiz can be played from there.
Stuck == screen = "splash" /\ ~HasLastGame(user)

LEMMA NextStuck == TypeOK /\ Stuck /\ [Next]_vars => Stuck'
<1> SUFFICES ASSUME TypeOK, Stuck, [Next]_vars PROVE Stuck'
  OBVIOUS
<1>1. user \in Accounts /\ docs \subseteq Accounts /\ lastquiz \in [Accounts -> LastGames \cup {None}]
  BY DEF TypeOK, Stuck
<1>2. screen' = "splash" /\ user' = user
  BY <1>1, Typing DEF Stuck, Next, Player, Cloud, Register, Login, LeaveSplash, SignOutAction,
     DeleteAccount, SignOut, UserDeleted, DocumentDeleted, Relaunch, OpenQuiz, RestartQuiz,
     LeaveQuiz, Answer, LoadCategory, SaveCustomVoiceCommand, ReadForSave, WriteSaved,
     vars, deviceVars
<1>3. \/ UNCHANGED <<docs, lastquiz>>
      \/ \E a \in Accounts : docs' = docs \ {a} /\ lastquiz' = [lastquiz EXCEPT ![a] = None]
  BY DEF Stuck, Next, Player, Cloud, Register, Login, LeaveSplash, SignOutAction,
     DeleteAccount, SignOut, UserDeleted, DocumentDeleted, Relaunch, OpenQuiz, RestartQuiz,
     LeaveQuiz, Answer, LoadCategory, SaveCustomVoiceCommand, ReadForSave, WriteSaved,
     vars, deviceVars, docVars
<1> QED BY <1>1, <1>2, <1>3 DEF Stuck, HasLastGame

THEOREM SplashForEver == Spec => [](Stuck => []Stuck)
BY NextStuck, TypeCorrect, PTL DEF Spec

\* The last quiz is not ahead of the view model of its category.
LastGameBehind ==
    \A a \in Accounts :
        lastquiz[a] # None => lastquiz[a].best <= counters[lastquiz[a].category].counter

LEMMA NextLastGame ==
    ASSUME TypeOK, LastGameBehind, [Next]_vars, ~Relaunch
    PROVE  /\ LastGameBehind'
           /\ \A a \in Accounts :
                 /\ lastquiz[a] # None /\ lastquiz'[a] # None
                 /\ lastquiz'[a].category = lastquiz[a].category
                 => lastquiz'[a].best >= lastquiz[a].best
<1> DEFINE Kept == \A a \in Accounts :
                      /\ lastquiz[a] # None /\ lastquiz'[a] # None
                      /\ lastquiz'[a].category = lastquiz[a].category
                      => lastquiz'[a].best >= lastquiz[a].best
<1>1. /\ lastquiz \in [Accounts -> LastGames \cup {None}]
      /\ counters \in [Categories -> [counter : Nat, correct : Nat]]
  BY DEF TypeOK
<1>2. \A a \in Accounts : lastquiz[a] # None => /\ lastquiz[a].category \in Categories
                                                /\ lastquiz[a].best \in Nat
  BY <1>1 DEF LastGames
<1>3. CASE UNCHANGED <<lastquiz, counters>>
  BY <1>2, <1>3 DEF LastGameBehind
<1>4. ASSUME NEW b \in Accounts, lastquiz' = [lastquiz EXCEPT ![b] = None], UNCHANGED counters
      PROVE  LastGameBehind' /\ Kept
  BY <1>1, <1>2, <1>4 DEF LastGameBehind
<1>5. CASE Answer
  <2>1. user \in Accounts /\ playing \in Categories
    BY <1>5 DEF Answer, TypeOK
  <2>2. \A c \in Categories : counters[c].counter \in Nat /\ counters'[c].counter \in Nat
                              /\ counters'[c].counter >= counters[c].counter
    <3>1. CASE UNCHANGED counters
      BY <1>1, <3>1
    <3>2. CASE counters' = [counters EXCEPT ![playing] =
                  [counter |-> @.counter + Points, correct |-> @.correct + 1]]
      BY <1>1, <2>1, <3>2 DEF Points
    <3> QED BY <1>5, <3>1, <3>2 DEF Answer
  <2>3. UNCHANGED lastquiz \/ lastquiz' = [lastquiz EXCEPT ![user] = LastGame]
    BY <1>5 DEF Answer, write
  <2>4. LastGame.category = playing /\ LastGame.best = counters'[playing].counter
    BY DEF LastGame
  <2>5. ASSUME NEW a \in Accounts
        PROVE  /\ lastquiz'[a] # None => lastquiz'[a].best <= counters'[lastquiz'[a].category].counter
               /\ lastquiz[a] # None /\ lastquiz'[a] # None
                      /\ lastquiz'[a].category = lastquiz[a].category
                   => lastquiz'[a].best >= lastquiz[a].best
    <3>1. CASE lastquiz'[a] = lastquiz[a]
      BY <1>2, <2>2, <3>1 DEF LastGameBehind
    <3>2. CASE lastquiz'[a] = LastGame
      <4>1. lastquiz'[a].best <= counters'[lastquiz'[a].category].counter
        BY <2>1, <2>2, <2>4, <3>2
      <4>2. lastquiz[a] # None /\ lastquiz[a].category = playing
               => lastquiz[a].best <= counters[playing].counter
        BY DEF LastGameBehind
      <4> QED BY <1>2, <2>1, <2>2, <2>4, <3>2, <4>1, <4>2
    <3> QED BY <1>1, <2>1, <2>3, <3>1, <3>2
  <2> QED BY <2>5 DEF LastGameBehind
<1>6. \/ UNCHANGED <<lastquiz, counters>> \/ Answer
      \/ \E b \in Accounts : lastquiz' = [lastquiz EXCEPT ![b] = None] /\ UNCHANGED counters
  BY DEF Next, Player, Cloud, Register, Login, LeaveSplash, SignOutAction, DeleteAccount, SignOut,
     UserDeleted, DocumentDeleted, OpenQuiz, RestartQuiz, LeaveQuiz, LoadCategory,
     SaveCustomVoiceCommand, ReadForSave, WriteSaved, vars, deviceVars, docVars
<1> QED BY <1>3, <1>4, <1>5, <1>6

\* The best score gets worse only by a relaunch, which makes new view models
\* that start from zero and do not read the document: whatever accounts share
\* the device, however often they sign in and out.
THEOREM BestScoreWithoutRelaunch == Spec /\ [][~Relaunch]_vars => BestScoreKept
<1>1. Init => LastGameBehind
  BY DEF Init, LastGameBehind
<1>2. TypeOK /\ LastGameBehind /\ [Next]_vars /\ [~Relaunch]_vars => LastGameBehind'
  <2>1. CASE UNCHANGED vars
    BY <2>1 DEF vars, deviceVars, docVars, LastGameBehind
  <2> QED BY <2>1, NextLastGame
<1>3. TypeOK /\ LastGameBehind /\ [Next]_vars /\ [~Relaunch]_vars
        => [\A a \in Accounts :
               /\ lastquiz[a] # None /\ lastquiz'[a] # None
               /\ lastquiz'[a].category = lastquiz[a].category
               => lastquiz'[a].best >= lastquiz[a].best]_vars
  BY NextLastGame
<1> QED BY <1>1, <1>2, <1>3, TypeCorrect, PTL DEF Spec, BestScoreKept

\* A stored command changes only by a save of its own account for its own
\* category, or by an answer in that category, which writes the command the quiz
\* has held since it was opened.
CommandFollows ==
    [][\A a \in Accounts, c \in Categories :
          record[a][c] # None /\ record'[a][c] # None =>
              \/ record'[a][c].voiceCommand = record[a][c].voiceCommand
              \/ \E r \in Requests : /\ WriteSaved(r) /\ saves[r].account = a /\ saves[r].category = c
                                     /\ record'[a][c].voiceCommand = saves[r].command
              \/ Answer /\ user = a /\ playing = c /\ record'[a][c].voiceCommand = held]_vars

LEMMA NextCommandFollows ==
    ASSUME TypeOK, [Next]_vars, NEW a \in Accounts, NEW c \in Categories,
           record'[a][c] # None, record'[a][c] # record[a][c]
    PROVE  \/ \E r \in Requests : /\ WriteSaved(r) /\ saves[r].account = a /\ saves[r].category = c
                                  /\ record'[a][c].voiceCommand = saves[r].command
           \/ Answer /\ user = a /\ playing = c /\ record'[a][c].voiceCommand = held
<1>0. record \in [Accounts -> [Categories -> Records \cup {None}]]
  BY DEF TypeOK
<1>1. CASE Answer
  <2>1. user \in Accounts /\ playing \in Categories
    BY <1>1 DEF Answer, TypeOK
  <2>2. record' = record \/ record' = [record EXCEPT ![user][playing] = GameRecord]
    BY <1>1 DEF Answer, write
  <2>3. a = user /\ c = playing /\ record'[a][c] = GameRecord
    BY <1>0, <2>1, <2>2, CellRead
  <2> QED BY <1>1, <2>3 DEF GameRecord
<1>2. ASSUME NEW r \in Requests, WriteSaved(r)
      PROVE  /\ saves[r].account = a /\ saves[r].category = c
             /\ record'[a][c].voiceCommand = saves[r].command
  <2>1. saves[r].account \in Accounts /\ saves[r].category \in Categories
    BY <1>2 DEF WriteSaved, TypeOK, Saves
  <2>2. \/ record' = record
        \/ record' = [record EXCEPT ![saves[r].account][saves[r].category] =
                          WithCommand(saves[r].seen, saves[r].command)]
    BY <1>2 DEF WriteSaved
  <2>3. /\ a = saves[r].account /\ c = saves[r].category
        /\ record'[a][c] = WithCommand(saves[r].seen, saves[r].command)
    BY <1>0, <2>1, <2>2, CellRead
  <2> QED BY <2>3 DEF WithCommand
<1>3. ASSUME NEW b \in Accounts, record' = [record EXCEPT ![b] = NoRecords]
      PROVE  FALSE
  BY <1>0, <1>3 DEF NoRecords
<1>4. \/ UNCHANGED record \/ Answer
      \/ \E b \in Accounts : record' = [record EXCEPT ![b] = NoRecords]
      \/ \E r \in Requests : WriteSaved(r)
  BY Writers DEF Relaunch, SaveCustomVoiceCommand, ReadForSave, docVars
<1> QED BY <1>1, <1>2, <1>3, <1>4

THEOREM CommandAlwaysFollows == Spec => CommandFollows
<1>1. TypeOK /\ [Next]_vars =>
        [\A a \in Accounts, c \in Categories :
            record[a][c] # None /\ record'[a][c] # None =>
                \/ record'[a][c].voiceCommand = record[a][c].voiceCommand
                \/ \E r \in Requests : /\ WriteSaved(r) /\ saves[r].account = a /\ saves[r].category = c
                                       /\ record'[a][c].voiceCommand = saves[r].command
                \/ Answer /\ user = a /\ playing = c /\ record'[a][c].voiceCommand = held]_vars
  BY NextCommandFollows
<1> QED BY <1>1, TypeCorrect, PTL DEF Spec, CommandFollows

\* Neither a record nor what a save has read of one is ahead of the view model.
RecordsBehind ==
    \A a \in Accounts, c \in Categories :
        record[a][c] # None => record[a][c].correct <= counters[c].correct

ReadsBehind ==
    \A r \in Requests :
        saves[r] # None /\ saves[r].seen # None
            => saves[r].seen.correct <= counters[saves[r].category].correct

\* A record loses right answers only to the save of a voice command that read it
\* before they were given.
StaleLoss ==
    \A a \in Accounts, c \in Categories :
        /\ record[a][c] # None /\ record'[a][c] # None
        /\ record'[a][c].correct < record[a][c].correct
        => \E r \in Requests : /\ WriteSaved(r) /\ saves[r].account = a /\ saves[r].category = c
                               /\ saves[r].seen.correct < record[a][c].correct

\* What an answer writes is the view model's, and that only grows.
LEMMA AnswerWrites ==
    ASSUME TypeOK, Answer
    PROVE  /\ \A c \in Categories : /\ counters[c].correct \in Nat /\ counters'[c].correct \in Nat
                                    /\ counters[c].correct <= counters'[c].correct
           /\ \A a \in Accounts, c \in Categories :
                 record'[a][c] # record[a][c] => record'[a][c].correct = counters'[c].correct
           /\ UNCHANGED saves
<1>1. user \in Accounts /\ playing \in Categories
  BY DEF TypeOK, Answer
<1>2. counters \in [Categories -> [counter : Nat, correct : Nat]]
  BY DEF TypeOK
<1>3. \A c \in Categories : /\ counters[c].correct \in Nat /\ counters'[c].correct \in Nat
                            /\ counters[c].correct <= counters'[c].correct
  <2>1. CASE UNCHANGED counters
    BY <1>2, <2>1
  <2>2. CASE counters' = [counters EXCEPT ![playing] =
                [counter |-> @.counter + Points, correct |-> @.correct + 1]]
    BY <1>1, <1>2, <2>2
  <2> QED BY <2>1, <2>2 DEF Answer
<1>4. record' = record \/ record' = [record EXCEPT ![user][playing] = GameRecord]
  BY DEF Answer, write
<1>5. record \in [Accounts -> [Categories -> Records \cup {None}]]
  BY DEF TypeOK
<1>6. ASSUME NEW a \in Accounts, NEW c \in Categories, record'[a][c] # record[a][c]
      PROVE  record'[a][c].correct = counters'[c].correct
  <2>1. c = playing /\ record'[a][c] = GameRecord
    BY <1>1, <1>4, <1>5, <1>6, CellRead
  <2> QED BY <2>1 DEF GameRecord
<1> QED BY <1>3, <1>6 DEF Answer

\* What a save writes is what it has read.
LEMMA SaveWrites ==
    ASSUME TypeOK, NEW r \in Requests, WriteSaved(r)
    PROVE  /\ saves[r] # None /\ saves[r].seen # None
           /\ \A a \in Accounts, c \in Categories : record'[a][c] # record[a][c] =>
                 /\ saves[r].account = a /\ saves[r].category = c
                 /\ record'[a][c].correct = saves[r].seen.correct
           /\ \A q \in Requests : saves'[q] = None \/ saves'[q] = saves[q]
<1>1. saves[r] \in Saves /\ saves[r] # None /\ saves[r].seen # None
  BY DEF WriteSaved, TypeOK
<1>2. saves[r].account \in Accounts /\ saves[r].category \in Categories
  BY <1>1 DEF Saves
<1>3. \/ record' = record
      \/ record' = [record EXCEPT ![saves[r].account][saves[r].category] =
                        WithCommand(saves[r].seen, saves[r].command)]
  BY DEF WriteSaved
<1>4. record \in [Accounts -> [Categories -> Records \cup {None}]]
  BY DEF TypeOK
<1>5. \A a \in Accounts, c \in Categories : record'[a][c] # record[a][c] =>
         /\ saves[r].account = a /\ saves[r].category = c
         /\ record'[a][c] = WithCommand(saves[r].seen, saves[r].command)
  BY <1>2, <1>3, <1>4, CellRead
<1> QED BY <1>1, <1>5 DEF WithCommand, WriteSaved, TypeOK

LEMMA NextBehind ==
    ASSUME TypeOK, RecordsBehind, ReadsBehind, [Next]_vars, ~Relaunch
    PROVE  RecordsBehind' /\ ReadsBehind'
<1> USE DEF RecordsBehind, ReadsBehind
<1>0. /\ \A a \in Accounts, c \in Categories :
            record[a][c] # None => record[a][c].correct \in Nat
      /\ \A q \in Requests : saves[q] # None /\ saves[q].seen # None =>
            saves[q].category \in Categories /\ saves[q].seen.correct \in Nat
  BY DEF TypeOK, Records, Saves
<1>1. CASE UNCHANGED <<counters, saves, record>>
  BY <1>1
<1>2. ASSUME NEW a \in Accounts, record' = [record EXCEPT ![a] = NoRecords],
             UNCHANGED <<counters, saves>>
      PROVE  RecordsBehind' /\ ReadsBehind'
  <2>1. \A b \in Accounts, c \in Categories : record'[b][c] = None \/ record'[b][c] = record[b][c]
    BY <1>2 DEF TypeOK, NoRecords
  <2> QED BY <1>2, <2>1
<1>3. ASSUME NEW c \in Categories, SaveCustomVoiceCommand(c) PROVE RecordsBehind' /\ ReadsBehind'
  <2>1. PICK r \in Requests, text \in Commands :
           saves' = [saves EXCEPT ![r] =
               [account |-> user, category |-> c, command |-> text, seen |-> None]]
    BY <1>3 DEF SaveCustomVoiceCommand
  <2>2. \A q \in Requests : saves'[q] = saves[q] \/ saves'[q].seen = None
    BY <2>1 DEF TypeOK
  <2>3. UNCHANGED <<counters, record>>
    BY <1>3 DEF SaveCustomVoiceCommand, docVars
  <2> QED BY <2>2, <2>3
<1>4. ASSUME NEW r \in Requests, ReadForSave(r) PROVE RecordsBehind' /\ ReadsBehind'
  <2>1. saves[r] \in Saves
    BY <1>4 DEF ReadForSave, TypeOK
  <2>2. saves[r].account \in Accounts /\ saves[r].category \in Categories
    BY <2>1 DEF Saves
  <2>3. UNCHANGED <<counters, record>>
    BY <1>4 DEF ReadForSave, docVars
  <2>4. ASSUME NEW q \in Requests, saves'[q] # None, saves'[q].seen # None
        PROVE  saves'[q].seen.correct <= counters[saves'[q].category].correct
    <3>1. CASE saves'[q] = saves[q]
      BY <2>4, <3>1
    <3>2. CASE saves'[q] # saves[q]
      <4>1. q = r /\ saves' = [saves EXCEPT ![r].seen =
                                  record[saves[r].account][saves[r].category]]
        BY <1>4, <2>4, <3>2 DEF ReadForSave, TypeOK
      <4>2. /\ saves'[q].seen = record[saves[r].account][saves[r].category]
            /\ saves'[q].category = saves[r].category
        BY <2>1, <4>1 DEF TypeOK, Saves
      <4> QED BY <2>2, <2>4, <4>2
    <3> QED BY <3>1, <3>2
  <2> QED BY <2>3, <2>4
<1>5. ASSUME NEW r \in Requests, WriteSaved(r) PROVE RecordsBehind' /\ ReadsBehind'
  <2>1. UNCHANGED counters
    BY <1>5 DEF WriteSaved
  <2>2. ASSUME NEW a \in Accounts, NEW c \in Categories, record'[a][c] # None
        PROVE  record'[a][c].correct <= counters[c].correct
    BY <1>5, <2>2, SaveWrites
  <2>3. ReadsBehind'
    BY <1>5, <2>1, SaveWrites
  <2> QED BY <2>1, <2>2, <2>3
<1>6. CASE Answer
  <2>1. ASSUME NEW a \in Accounts, NEW c \in Categories, record'[a][c] # None
        PROVE  record'[a][c].correct <= counters'[c].correct
    BY <1>0, <1>6, <2>1, AnswerWrites
  <2>2. ASSUME NEW q \in Requests, saves[q] # None, saves[q].seen # None
        PROVE  saves[q].seen.correct <= counters'[saves[q].category].correct
    BY <1>0, <1>6, <2>2, AnswerWrites
  <2> QED BY <1>6, <2>1, <2>2, AnswerWrites
<1> QED BY <1>1, <1>2, <1>3, <1>4, <1>5, <1>6, Writers

LEMMA NextLoss ==
    ASSUME TypeOK, RecordsBehind, [Next]_vars, ~Relaunch,
           NEW a \in Accounts, NEW c \in Categories, record[a][c] # None, record'[a][c] # None,
           record'[a][c].correct < record[a][c].correct
    PROVE  \E r \in Requests : /\ WriteSaved(r) /\ saves[r].account = a /\ saves[r].category = c
                               /\ saves[r].seen.correct < record[a][c].correct
<1>0. record[a][c].correct \in Nat
  BY DEF TypeOK, Records
<1>1. record'[a][c] # record[a][c]
  BY <1>0
<1>2. ASSUME Answer PROVE FALSE
  BY <1>0, <1>1, <1>2, AnswerWrites DEF RecordsBehind
<1>3. ASSUME NEW b \in Accounts, record' = [record EXCEPT ![b] = NoRecords] PROVE FALSE
  BY <1>1, <1>3 DEF TypeOK, NoRecords
<1>4. ASSUME UNCHANGED record PROVE FALSE
  BY <1>1, <1>4
<1>5. PICK r \in Requests : WriteSaved(r)
  BY <1>2, <1>3, <1>4, Writers DEF SaveCustomVoiceCommand, ReadForSave, docVars
<1> QED BY <1>1, <1>5, SaveWrites

\* The other way to lose points: while the application lives, neither answers nor
\* accounts that take turns make a record worse, only the read-modify-write of a
\* voice command that a game has overtaken.
THEOREM LossOnlyByStaleSave == Spec /\ [][~Relaunch]_vars => [][StaleLoss]_vars
<1>1. Init => RecordsBehind /\ ReadsBehind
  BY DEF Init, RecordsBehind, ReadsBehind, NoRecords
<1>2. TypeOK /\ RecordsBehind /\ ReadsBehind /\ [Next]_vars /\ [~Relaunch]_vars
        => RecordsBehind' /\ ReadsBehind'
  <2>1. CASE UNCHANGED vars
    BY <2>1 DEF vars, deviceVars, docVars, RecordsBehind, ReadsBehind
  <2> QED BY <2>1, NextBehind
<1>3. TypeOK /\ RecordsBehind /\ [Next]_vars /\ [~Relaunch]_vars => [StaleLoss]_vars
  BY NextLoss DEF StaleLoss
<1> QED BY <1>1, <1>2, <1>3, TypeCorrect, PTL DEF Spec
=============================================================================
