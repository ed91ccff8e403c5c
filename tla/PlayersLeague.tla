---------------------------- MODULE PlayersLeague -----------------------------
(***************************************************************************)
(* The league of players: every snapshot of the collection "users" has it  *)
(* loaded again, a load shows it once for each document, growing from one  *)
(* to the next, and a tap opens the player found at its row two seconds    *)
(* later.                                                                  *)
(*                                                                         *)
(* The documents are those Firestore on the device knows: it answers a     *)
(* query from the view its listener keeps, so that answers never go back   *)
(* in time, and snapshots that are due may come as one (an assumption      *)
(* about Firestore, which this module does not question).                  *)
(***************************************************************************)
EXTENDS Integers, Sequences, FiniteSets

CONSTANTS
    Users,          \* how many documents there may be, numbered in their order
    MaxBest,        \* bound: scores of last quizzes
    MaxLoads,       \* bound: loads asked for at once
    MaxQueued,      \* bound: lists queued to be shown
    Absent, Unplayed, \* no document; a document without a last quiz
    NoPlayer        \* no player was opened

Documents == 1..Users
Scores == 0..MaxBest
Views == [Documents -> Scores \cup {Absent, Unplayed}]
Rows == [name : Documents, counter : Scores]

ASSUME LeagueAssumption ==
    /\ Users \in Nat /\ MaxBest \in Nat /\ MaxLoads \in Nat /\ MaxQueued \in Nat
    /\ Absent \notin Scores /\ Unplayed \notin Scores /\ Absent # Unplayed
    /\ NoPlayer \notin Documents

VARIABLES
    cloud,          \* the best score in the last quiz of each document
    observing,      \* the snapshot listener has not ended with an error
    changed,        \* a snapshot is due
    loads,          \* getDocuments not answered yet
    blocks,         \* lists queued to be shown
    players,        \* the list shown
    taps,           \* the row tapped, opened two seconds later, and who was at it
    opened,         \* the player of the detail screen above the league
    leagueCrashed,  \* the application ended with an index out of range
    \* history
    failed          \* the last load that was answered failed

cloudVars == <<cloud, observing, changed>>
listVars == <<loads, blocks, players, failed>>
tapVars == <<taps, opened, leagueCrashed>>
leagueVars == <<cloudVars, listVars, tapVars>>

\* The elements of S from the first to the last in the order R, each at the
\* position that counts those up to it.
Sorted(S, R) ==
    [i \in 1..Cardinality(S) |-> CHOOSE x \in S : Cardinality({y \in S : <<y, x>> \in R}) = i]

Played(view, n) == {d \in 1..n : view[d] \in Scores}

\* The best first, and of two as good the one that was answered first.
Better(view, n) ==
    {r \in Played(view, n) \X Played(view, n) :
         view[r[1]] > view[r[2]] \/ (view[r[1]] = view[r[2]] /\ r[1] <= r[2])}

\* The players among the first n documents, the best first.
Ranking(view, n) ==
    LET order == Sorted(Played(view, n), Better(view, n))
    IN  [i \in DOMAIN order |-> [name |-> order[i], counter |-> view[order[i]]]]

Found(view) == {d \in Documents : view[d] # Absent}

InOrder == {r \in Documents \X Documents : r[1] <= r[2]}

\* The completions of a load: one for every document.
LoadPlayers(view) ==
    LET found == Sorted(Found(view), InOrder)
    IN  [i \in DOMAIN found |-> Ranking(view, found[i])]

\* The view loads the players and observes them; the first snapshot is due.
LeagueInit ==
    /\ cloud \in Views /\ observing = TRUE /\ changed = TRUE
    /\ loads = 1 /\ blocks = <<>> /\ players = <<>> /\ failed = FALSE
    /\ taps = {} /\ opened = NoPlayer /\ leagueCrashed = FALSE

\* A quiz of some player is saved, someone registers, an account is deleted.
UsersChange ==
    /\ ~leagueCrashed
    /\ \E d \in Documents :
           \/ cloud[d] # Absent /\ \E n \in Scores : cloud' = [cloud EXCEPT ![d] = n]
           \/ cloud[d] = Absent /\ cloud' = [cloud EXCEPT ![d] = Unplayed]
           \/ cloud[d] # Absent /\ cloud' = [cloud EXCEPT ![d] = Absent]
    /\ changed' = observing
    /\ UNCHANGED <<observing, listVars, tapVars>>

\* Mutant of ObservePlayers: the snapshot is not followed by a load.
ObservePlayersUnloaded ==
    /\ ~leagueCrashed /\ changed /\ changed' = FALSE
    /\ loads < MaxLoads /\ UNCHANGED loads
    /\ UNCHANGED <<cloud, observing, blocks, players, failed, tapVars>>

\* Bound: MaxLoads.
ObservePlayers ==
    /\ ~leagueCrashed /\ changed /\ changed' = FALSE
    /\ loads < MaxLoads /\ loads' = loads + 1
    /\ UNCHANGED <<cloud, observing, blocks, players, failed, tapVars>>

\* The block runs for an error as well, and never again.
ListenerEnds ==
    /\ ~leagueCrashed /\ observing /\ observing' = FALSE /\ changed' = FALSE
    /\ loads < MaxLoads /\ loads' = loads + 1
    /\ UNCHANGED <<cloud, blocks, players, failed, tapVars>>

\* The loop over the documents queues a list for each.
\* Bound: MaxQueued.
GetPlayers ==
    /\ ~leagueCrashed /\ loads > 0 /\ loads' = loads - 1
    /\ blocks' = blocks \o LoadPlayers(cloud) /\ Len(blocks') <= MaxQueued
    /\ failed' = FALSE
    /\ UNCHANGED <<cloudVars, players, tapVars>>

\* An error is printed.
LoadFails ==
    /\ ~leagueCrashed /\ loads > 0 /\ loads' = loads - 1 /\ failed' = TRUE
    /\ UNCHANGED <<cloudVars, blocks, players, tapVars>>

ShowPlayers ==
    /\ ~leagueCrashed /\ blocks # <<>>
    /\ players' = Head(blocks) /\ blocks' = Tail(blocks)
    /\ taps' = {[t EXCEPT !.moved = TRUE] : t \in taps}
    /\ UNCHANGED <<cloudVars, loads, failed, opened, leagueCrashed>>

\* Bound: one tap is followed at once.
didSelectPlayer ==
    /\ ~leagueCrashed /\ taps = {} /\ opened = NoPlayer
    /\ \E i \in DOMAIN players :
           taps' = {[row |-> i, name |-> players[i].name, moved |-> FALSE]}
    /\ UNCHANGED <<cloudVars, listVars, opened, leagueCrashed>>

\* Mutant of playerWasSelected: the header counts as a row.
playerWasSelectedNext ==
    /\ ~leagueCrashed
    /\ \E t \in taps :
           /\ taps' = taps \ {t}
           /\ \/ t.row + 1 \in DOMAIN players
                 /\ opened' = players[t.row + 1].name /\ UNCHANGED leagueCrashed
              \/ t.row + 1 \notin DOMAIN players /\ leagueCrashed' = TRUE /\ UNCHANGED opened
    /\ UNCHANGED <<cloudVars, listVars>>

\* Whoever is at the row by now.
playerWasSelected ==
    /\ ~leagueCrashed
    /\ \E t \in taps :
           /\ taps' = taps \ {t}
           /\ \/ t.row \in DOMAIN players
                 /\ opened' = players[t.row].name /\ UNCHANGED leagueCrashed
              \/ t.row \notin DOMAIN players /\ leagueCrashed' = TRUE /\ UNCHANGED opened
    /\ UNCHANGED <<cloudVars, listVars>>

BackToLeague ==
    /\ ~leagueCrashed /\ opened # NoPlayer /\ opened' = NoPlayer
    /\ UNCHANGED <<cloudVars, listVars, taps, leagueCrashed>>

LeagueNext ==
    UsersChange \/ ObservePlayers \/ ListenerEnds \/ GetPlayers \/ LoadFails \/ ShowPlayers
        \/ didSelectPlayer \/ playerWasSelected \/ BackToLeague

LeagueTypeOK ==
    /\ cloud \in Views /\ observing \in BOOLEAN /\ changed \in BOOLEAN
    /\ loads \in Nat /\ blocks \in Seq(Seq(Rows)) /\ players \in Seq(Rows) /\ failed \in BOOLEAN
    /\ taps \subseteq [row : Nat, name : Documents, moved : BOOLEAN]
    /\ opened \in Documents \cup {NoPlayer} /\ leagueCrashed \in BOOLEAN

\* With nothing on the way the league is the ranking of the players in the
\* cloud, whatever changed while it was loaded; but for a listener or a last
\* load that failed, and for a collection without documents, of which
\* LoadPlayers says nothing.
LeagueCurrent ==
    ~changed /\ loads = 0 /\ blocks = <<>> /\ observing /\ ~failed
        /\ (\E d \in Documents : cloud[d] # Absent)
    => players = Ranking(cloud, Users)

\* A tap opens the player that was tapped, and its row exists, unless the
\* league was shown again in the two seconds between.
OpensTapped ==
    [][\A t \in taps : taps' = {} =>
           (opened' = t.name /\ ~leagueCrashed') \/ t.moved]_leagueVars
=============================================================================
