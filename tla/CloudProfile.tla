----------------------------- MODULE CloudProfile -----------------------------
(***************************************************************************)
(* The player's document in Firestore and everything that reads or writes  *)
(* it: registration, the quiz saving each answer, the home screen loading  *)
(* the categories, the screen of voice commands, achievements, login and   *)
(* the deletion of an account.  One device, several accounts.              *)
(*                                                                         *)
(* A reply of the cloud arrives at any later time.  setData replaces a     *)
(* document, updateData replaces one field of a document that exists and   *)
(* does nothing to one that does not (the code only logs the error).       *)
(***************************************************************************)
EXTENDS Integers

CONSTANTS
    Accounts,       \* e-mail addresses used on the device
    Categories,     \* quiz categories
    Astronomy,      \* the category the achievement asks for
    Commands,       \* voice commands, the ones of QuizCategories and the typed ones
    Default,        \* Default[c]: the voice command QuizCategories gives to c
    MaxScore,       \* the literal 100 of the code
    Requests,       \* bound: saves of voice commands in flight at once
    MaxWon,         \* bound: right answers followed for an account and a category
    None            \* no user, no field, no record, no reply yet

Points == 5

Records == [best : Nat \cup {None}, score : Nat \cup {None}, correct : Nat, voiceCommand : Commands]
LastGames == [category : Categories, best : Nat, correct : Nat]
Saves == [account : Accounts, category : Categories, command : Commands,
          seen : Records \cup {None}]

ASSUME CloudAssumption ==
    /\ Astronomy \in Categories
    /\ Default \in [Categories -> Commands]
    /\ MaxScore \in Nat /\ MaxWon \in Nat
    /\ None \notin Accounts \cup Categories \cup Commands \cup Nat
    /\ None \notin Records \cup LastGames \cup Saves

VARIABLES
    \* the device
    user,           \* Auth.auth().currentUser
    screen,         \* "login", "splash", "home" or "quiz" (with its results)
    playing, held,  \* the category of the quiz, and the command its copy holds
    list,           \* the commands of the categories the player chooses from
    counters,       \* the points and right answers of the static view models
    saves,          \* SaveCustomVoiceCommand waiting for its read
    deleting,       \* how far the deletion of an account is
    \* the cloud
    registered,     \* accounts known to Auth
    docs,           \* accounts that have a document
    record, lastquiz, achievement,      \* the fields of the documents
    \* history
    chosen,         \* commands an account's player saved for a category, but for its own
    won             \* right answers an account's player gave in a category

deviceVars == <<user, screen, playing, held, list, counters, saves, deleting>>
docVars == <<docs, record, lastquiz, achievement>>
history == <<chosen, won>>
vars == <<deviceVars, registered, docVars, history>>

Screens == {"login", "splash", "home", "quiz"}
NoRecords == [c \in Categories |-> None]
Fresh == [c \in Categories |-> [counter |-> 0, correct |-> 0]]

HasRecord(a, c) == a \in docs /\ record[a][c] # None
HasLastGame(a) == a \in docs /\ lastquiz[a] # None

Init ==
    /\ user = None /\ screen = "login" /\ playing = None /\ held = None
    /\ list = Default /\ counters = Fresh
    /\ saves = [r \in Requests |-> None]
    /\ deleting = [a \in Accounts |-> "no"]
    /\ registered = {} /\ docs = {}
    /\ record = [a \in Accounts |-> NoRecords]
    /\ lastquiz = [a \in Accounts |-> None] /\ achievement = [a \in Accounts |-> None]
    /\ chosen = [a \in Accounts |-> [c \in Categories |-> {}]]
    /\ won = [a \in Accounts |-> [c \in Categories |-> 0]]

----------------------------------------------------------------------------
(* Getting in and out *)

\* A new home screen, with a new list.
EnterHome == screen' = "home" /\ playing' = None /\ held' = None /\ list' = Default

\* Without a name the user is created but no document is written.
Register(a) ==
    /\ screen = "login" /\ user = None /\ a \notin registered
    /\ registered' = registered \cup {a} /\ user' = a
    /\ EnterHome
    /\ \/ /\ docs' = docs \cup {a}
          /\ record' = [record EXCEPT ![a] = NoRecords]
          /\ lastquiz' = [lastquiz EXCEPT ![a] = None]
          /\ achievement' = [achievement EXCEPT ![a] = None]
       \/ UNCHANGED docVars
    /\ UNCHANGED <<counters, saves, deleting, history>>

Login(a) ==
    /\ screen = "login" /\ user = None /\ a \in registered
    /\ user' = a /\ screen' = "splash"
    /\ UNCHANGED <<playing, held, list, counters, saves, deleting,
                   registered, docVars, history>>

\* The splash screen goes on from the completion of LoadLastQuizCategoryData,
\* which is called only if there is a last quiz.
LeaveSplash ==
    /\ screen = "splash" /\ HasLastGame(user)
    /\ EnterHome
    /\ UNCHANGED <<user, counters, saves, deleting, registered, docVars, history>>

SignOut ==
    /\ screen = "home" /\ user' = None /\ screen' = "login" /\ list' = Default
    /\ UNCHANGED <<playing, held, counters, saves, registered,
                   docVars, history>>

\* Bound: one deletion at a time.
DeleteAccount ==
    /\ \A a \in Accounts : deleting[a] = "no"
    /\ SignOut /\ deleting' = [deleting EXCEPT ![user] = "asked"]

SignOutAction == SignOut /\ UNCHANGED deleting

\* Auth deletes the user, or refuses.
UserDeleted(a) ==
    /\ deleting[a] = "asked"
    /\ \/ registered' = registered \ {a} /\ deleting' = [deleting EXCEPT ![a] = "deleted"]
       \/ UNCHANGED registered /\ deleting' = [deleting EXCEPT ![a] = "no"]
    /\ UNCHANGED <<user, screen, playing, held, list, counters, saves,
                   docVars, history>>

\* Its completion deletes the document.
DocumentDeleted(a) ==
    /\ deleting[a] = "deleted" /\ deleting' = [deleting EXCEPT ![a] = "no"]
    /\ docs' = docs \ {a}
    /\ record' = [record EXCEPT ![a] = NoRecords]
    /\ lastquiz' = [lastquiz EXCEPT ![a] = None]
    /\ achievement' = [achievement EXCEPT ![a] = None]
    /\ UNCHANGED <<user, screen, playing, held, list, counters, saves,
                   registered, history>>

\* Mutant of Relaunch: the scene opens on the home screen without asking Auth.
RelaunchUnasked ==
    /\ screen' = "home"
    /\ playing' = None /\ held' = None /\ list' = Default
    /\ counters' = Fresh
    /\ saves' = [r \in Requests |-> None]
    /\ deleting' = [a \in Accounts |-> "no"]
    /\ UNCHANGED <<user, registered, docVars, history>>

\* The application is closed and opened again: Auth remembers the user, all
\* that was in memory is gone, and a deletion asked for may have been done.
Relaunch ==
    /\ screen' = IF user = None THEN "login" ELSE "splash"
    /\ playing' = None /\ held' = None /\ list' = Default
    /\ counters' = Fresh
    /\ saves' = [r \in Requests |-> None]
    /\ deleting' = [a \in Accounts |-> "no"]
    /\ \E gone \in SUBSET {a \in Accounts : deleting[a] = "asked"} :
          registered' = registered \ gone
    /\ UNCHANGED <<user, docVars, history>>

----------------------------------------------------------------------------
(* Playing *)

OpenQuiz(c) ==
    /\ screen = "home" /\ screen' = "quiz" /\ playing' = c
    /\ held' \in {Default[c], list[c]} /\ list' = Default
    /\ UNCHANGED <<user, counters, saves, deleting, registered,
                   docVars, history>>

\* The results screen's restart looks the category up in a list of its own.
RestartQuiz ==
    /\ screen = "quiz" /\ HasLastGame(user)
    /\ playing' = lastquiz[user].category /\ held' = Default[playing']
    /\ UNCHANGED <<user, screen, list, counters, saves, deleting, registered,
                   docVars, history>>

LeaveQuiz ==
    /\ screen = "quiz" /\ EnterHome
    /\ UNCHANGED <<user, counters, saves, deleting, registered, docVars, history>>

\* Mutant of GameRecord: it reads one of the counters before it is updated.
GameRecordBefore == [best |-> counters'[playing].counter, score |-> None,
                     correct |-> counters[playing].correct, voiceCommand |-> held]

\* The game as write and LastQuiz put it into the document.
GameRecord == [best |-> counters'[playing].counter, score |-> None,
               correct |-> counters'[playing].correct, voiceCommand |-> held]

LastGame == [category |-> playing, best |-> counters'[playing].counter,
             correct |-> counters'[playing].correct]

\* The achievement is written from the completion of a read, which is called
\* only if some account's document (that of whoever was signed in when the view
\* model was created) has a record of it.  The delay of that read is left out.
CheckAchievement(owner) ==
    achievement' = IF owner \in docs /\ achievement[owner] \notin {None, MaxScore}
                   THEN [achievement EXCEPT ![user] = counters'[playing].counter]
                   ELSE achievement

write ==
    IF user \in docs
    THEN /\ record' = [record EXCEPT ![user][playing] = GameRecord]
         /\ lastquiz' = [lastquiz EXCEPT ![user] = LastGame]
         /\ \E owner \in Accounts : CheckAchievement(owner)
    ELSE UNCHANGED <<record, lastquiz, achievement>>

\* Mutant of Answer: every answer wins points.
AnswerGenerous ==
    /\ screen = "quiz"
    /\ counters[playing].counter < MaxScore
    /\ counters' = [counters EXCEPT ![playing] =
           [counter |-> @.counter + Points, correct |-> @.correct + 1]]
    /\ \/ won[user][playing] < MaxWon /\ won' = [won EXCEPT ![user][playing] = @ + 1]
       \/ UNCHANGED won
    /\ write
    /\ UNCHANGED <<user, screen, playing, held, list, saves, deleting, registered,
                   docs, chosen>>

\* A right answer that still wins points, or any other answer (QuizSession
\* has the answers in detail): each one saves the game.
Answer ==
    /\ screen = "quiz"
    /\ \/ /\ counters[playing].counter < MaxScore /\ won[user][playing] < MaxWon
          /\ counters' = [counters EXCEPT ![playing] =
                 [counter |-> @.counter + Points, correct |-> @.correct + 1]]
          /\ won' = [won EXCEPT ![user][playing] = @ + 1]
       \/ UNCHANGED <<counters, won>>
    /\ write
    /\ UNCHANGED <<user, screen, playing, held, list, saves, deleting, registered,
                   docs, chosen>>

----------------------------------------------------------------------------
(* Lists and voice commands *)

\* A list of categories takes the command of a record that exists.
LoadCategory(c) ==
    /\ screen = "home" /\ HasRecord(user, c)
    /\ list' = [list EXCEPT ![c] = record[user][c].voiceCommand]
    /\ UNCHANGED <<user, screen, playing, held, counters, saves, deleting,
                   registered, docVars, history>>

\* SaveCustomVoiceCommand begins by reading the record of the category.
SaveCustomVoiceCommand(c) ==
    /\ screen = "home"
    /\ \E r \in Requests, text \in Commands :
          /\ saves[r] = None
          /\ saves' = [saves EXCEPT ![r] =
                [account |-> user, category |-> c, command |-> text, seen |-> None]]
          /\ chosen' = [chosen EXCEPT ![user][c] = @ \cup ({text} \ {Default[c]})]
    /\ UNCHANGED <<user, screen, playing, held, list, counters, deleting,
                   registered, docVars, won>>

\* The reply: without a record the completion is not called.
ReadForSave(r) ==
    /\ saves[r] # None /\ saves[r].seen = None
    /\ saves' = IF HasRecord(saves[r].account, saves[r].category)
                THEN [saves EXCEPT ![r].seen = record[saves[r].account][saves[r].category]]
                ELSE [saves EXCEPT ![r] = None]
    /\ UNCHANGED <<user, screen, playing, held, list, counters, deleting,
                   registered, docVars, history>>

\* The record rebuilt from what was read: it has the key score, not bestscore.
WithCommand(seen, text) ==
    [best |-> None, score |-> IF seen.score = None THEN 0 ELSE seen.score,
     correct |-> seen.correct, voiceCommand |-> text]

\* Mutant of WriteSaved: it writes for whoever is signed in by now.
WriteSavedForUser(r) ==
    /\ saves[r] # None /\ saves[r].seen # None
    /\ saves' = [saves EXCEPT ![r] = None]
    /\ record' = IF user \in docs
                 THEN [record EXCEPT ![user][saves[r].category] =
                          WithCommand(saves[r].seen, saves[r].command)]
                 ELSE record
    /\ UNCHANGED <<user, screen, playing, held, list, counters, deleting,
                   registered, docs, lastquiz, achievement, history>>

\* Mutant of WriteSaved: setData in the place of updateData.
WriteSavedWhole(r) ==
    /\ saves[r] # None /\ saves[r].seen # None
    /\ saves' = [saves EXCEPT ![r] = None]
    /\ docs' = docs \cup {saves[r].account}
    /\ record' = [record EXCEPT ![saves[r].account] = [NoRecords EXCEPT
                     ![saves[r].category] = WithCommand(saves[r].seen, saves[r].command)]]
    /\ UNCHANGED <<user, screen, playing, held, list, counters, deleting,
                   registered, lastquiz, achievement, history>>

\* The completion writes the record back.
WriteSaved(r) ==
    /\ saves[r] # None /\ saves[r].seen # None
    /\ saves' = [saves EXCEPT ![r] = None]
    /\ record' = IF saves[r].account \in docs
                 THEN [record EXCEPT ![saves[r].account][saves[r].category] =
                          WithCommand(saves[r].seen, saves[r].command)]
                 ELSE record
    /\ UNCHANGED <<user, screen, playing, held, list, counters, deleting,
                   registered, docs, lastquiz, achievement, history>>

----------------------------------------------------------------------------

Player ==
    \/ \E a \in Accounts : Register(a) \/ Login(a)
    \/ \E c \in Categories : OpenQuiz(c) \/ SaveCustomVoiceCommand(c)
    \/ SignOutAction \/ DeleteAccount \/ Relaunch
    \/ RestartQuiz \/ LeaveQuiz \/ Answer

Cloud ==
    \/ LeaveSplash
    \/ \E a \in Accounts : UserDeleted(a) \/ DocumentDeleted(a)
    \/ \E c \in Categories : LoadCategory(c)
    \/ \E r \in Requests : ReadForSave(r) \/ WriteSaved(r)

Next == Player \/ Cloud

Spec == Init /\ [][Next]_vars

\* Every reply of the cloud arrives; the player is free to do nothing.
FairSpec ==
    /\ Spec /\ WF_vars(LeaveSplash)
    /\ \A r \in Requests : WF_vars(ReadForSave(r)) /\ WF_vars(WriteSaved(r))

----------------------------------------------------------------------------
(* Properties *)

\* Every variable has its type; inside the application there is a user, and in
\* a quiz a category (write unwraps both by force).
TypeOK ==
    /\ user \in Accounts \cup {None} /\ screen \in Screens
    /\ screen # "login" => user \in Accounts
    /\ screen = "quiz" => playing \in Categories /\ held \in Commands
    /\ list \in [Categories -> Commands]
    /\ counters \in [Categories -> [counter : Nat, correct : Nat]]
    /\ saves \in [Requests -> Saves \cup {None}]
    /\ deleting \in [Accounts -> {"no", "asked", "deleted"}]
    /\ registered \subseteq Accounts /\ docs \subseteq Accounts
    /\ record \in [Accounts -> [Categories -> Records \cup {None}]]
    /\ lastquiz \in [Accounts -> LastGames \cup {None}]
    /\ achievement \in [Accounts -> Nat \cup {None}]
    /\ chosen \in [Accounts -> [Categories -> SUBSET Commands]]
    /\ won \in [Accounts -> [Categories -> Nat]]

\* Points are those of the right answers, and only under bestscore.
WellKept(rec) ==
    /\ Points * rec.correct < MaxScore + Points
    /\ \/ rec.best = Points * rec.correct /\ rec.score = None
       \/ rec.best = None /\ rec.score = 0

\* A record was written by the quiz, with the points of its right answers under
\* bestscore, or by saving a voice command, with a zero under score: the key
\* that every reader of a category looks for never holds points.
RecordConsistent ==
    \A a \in Accounts, c \in Categories :
        record[a][c] # None => WellKept(record[a][c])

\* A command in an account's document is the category's own or one that this
\* account's player saved for this category: neither a save that outlives its
\* session nor a list loaded for another account brings in a foreign one.
CommandsOwn ==
    \A a \in Accounts, c \in Categories :
        record[a][c] # None => record[a][c].voiceCommand \in {Default[c]} \cup chosen[a][c]

\* Points come from answers: as long as nobody else has scored in a category on
\* this device, an account's record has no more right answers than its player
\* gave, through relaunches, deletions and stale saves of commands.  (The view
\* models do not change with the user, hence the condition.)
PointsEarned ==
    \A a \in Accounts, c \in Categories :
        (\A b \in Accounts \ {a} : won[b][c] = 0) =>
            (record[a][c] # None => record[a][c].correct <= won[a][c])

\* Only registration brings a document into being: nothing still in flight when
\* an account is deleted (a game, a save) makes its document come back.
OnlyRegistrationCreates ==
    [][\A a \in Accounts : a \notin docs /\ a \in docs' => Register(a)]_vars

\* What the quiz calls the best score of the last category never gets worse
\* while that category stays the last one ("лучший счет").
BestScoreKept ==
    [][\A a \in Accounts :
          /\ lastquiz[a] # None /\ lastquiz'[a] # None
          /\ lastquiz'[a].category = lastquiz[a].category
          => lastquiz'[a].best >= lastquiz[a].best]_vars

\* A voice command in the cloud changes only when the player saves another one
\* ("save your own voice command").
CommandKept ==
    [][\A a \in Accounts, c \in Categories :
          record[a][c] # None /\ record'[a][c] # None =>
              \/ record'[a][c].voiceCommand = record[a][c].voiceCommand
              \/ \E r \in Requests : WriteSaved(r)]_vars

\* Full marks in Astronomy earn the achievement ("complete the category
\* Astronomy with 100 points").
AchievementEarned ==
    \A a \in Accounts :
        record[a][Astronomy] # None /\ record[a][Astronomy].best = MaxScore
            => achievement[a] # None

\* Whoever is registered with a name and signed in gets in: the splash screen is
\* left for the application.  Behaviours in which an account is deleted, and
\* accounts without a document, are set aside: they have other ways of failing.
LoginGetsIn ==
    [](\A a \in Accounts : deleting[a] = "no") =>
        ((screen = "splash" /\ user \in docs) ~> (screen = "home"))
=============================================================================
