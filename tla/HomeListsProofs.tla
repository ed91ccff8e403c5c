--------------------------- MODULE HomeListsProofs ----------------------------
(***************************************************************************)
(* Theorems about HomeLists.  Each list has an inductive invariant of its  *)
(* own; a step of another list leaves it alone.                            *)
(***************************************************************************)
EXTENDS HomeLists, PlayersLeagueProofs

(* The list of categories *)

\* The parts of CategoriesTypeOK.
LoadType ==
    listed \in BOOLEAN /\ emptying \in Nat /\ loading \in Nat /\ results \in [Categories -> Nat]

RowType == selected \in Categories \cup {None} /\ tapped \in Categories \cup {None} /\ segues \in Nat

FlagType ==
    /\ stale \in BOOLEAN /\ swept \in BOOLEAN /\ overtaken \in BOOLEAN /\ listCrashed \in BOOLEAN
    /\ detail \in Categories \cup {None, Blank}

LEMMA CategoriesParts == CategoriesTypeOK <=> LoadType /\ RowType /\ FlagType
BY DEF CategoriesTypeOK, LoadType, RowType, FlagType

LEMMA CategoriesSteps ==
    [Next]_listVisits =>
        \/ refresh \/ Empty \/ Reload \/ LoadCategoriesResults \/ prepare \/ dismiss
        \/ \E c \in Categories : configure(c) \/ didSelectRow(c)
        \/ UNCHANGED categoriesVars
BY DEF Next, VisitCategories, VisitLeague, VisitNews, listVisits, CategoriesNext

LEMMA CategoriesType == Spec => []CategoriesTypeOK
<1>1. Init => CategoriesTypeOK
  <2> SUFFICES ASSUME CategoriesInit PROVE LoadType /\ RowType /\ FlagType
    BY CategoriesParts DEF Init
  <2>1. LoadType
    BY DEF CategoriesInit, LoadType
  <2>2. RowType /\ FlagType
    BY DEF CategoriesInit, RowType, FlagType
  <2> QED BY <2>1, <2>2
<1>2. CategoriesTypeOK /\ [Next]_listVisits => CategoriesTypeOK'
  <2> SUFFICES ASSUME LoadType, RowType, FlagType, [Next]_listVisits
               PROVE  LoadType' /\ RowType' /\ FlagType'
    BY CategoriesParts DEF CategoriesTypeOK, LoadType, RowType, FlagType
  <2>1. LoadType'
    <3> USE DEF LoadType, categoriesVars, loadVars, refresh, Empty, Reload, LoadCategoriesResults,
            configure, didSelectRow, prepare, dismiss
    <3>1. listed' \in BOOLEAN
      BY CategoriesSteps
    <3>2. emptying' \in Nat
      BY CategoriesSteps
    <3>3. loading' \in Nat
      BY CategoriesSteps
    <3>4. results' \in [Categories -> Nat]
      BY CategoriesSteps
    <3> QED BY <3>1, <3>2, <3>3, <3>4
  <2>2. RowType'
    BY CategoriesSteps DEF RowType, categoriesVars, loadVars, rowVars, reloadData, refresh, Empty,
          Reload, LoadCategoriesResults, configure, didSelectRow, prepare, dismiss
  <2>3. stale' \in BOOLEAN /\ swept' \in BOOLEAN /\ listCrashed' \in BOOLEAN
    BY CategoriesSteps DEF FlagType, categoriesVars, loadVars, rowVars, reloadData, refresh, Empty,
          Reload, LoadCategoriesResults, configure, didSelectRow, prepare, dismiss
  <2>4. overtaken' \in BOOLEAN
    BY CategoriesSteps DEF FlagType, categoriesVars, loadVars, refresh, Empty, Reload,
          LoadCategoriesResults, configure, didSelectRow, prepare, dismiss
  <2>5. detail' \in Categories \cup {None, Blank}
    BY CategoriesSteps DEF FlagType, RowType, categoriesVars, rowVars, refresh, Empty, Reload,
          LoadCategoriesResults, configure, didSelectRow, prepare, dismiss
  <2> QED BY <2>1, <2>2, <2>3, <2>4, <2>5 DEF FlagType
<1> QED BY <1>1, <1>2, PTL DEF Spec

\* What is on its way to an emptied list was on its way as it was emptied.
Outrun == ~listed /\ OnTheWay => overtaken

\* The selected row is listed and is the one tapped last; none is selected for
\* a detail screen that is going to open only after a reload.
RowInv ==
    /\ selected # None => listed /\ selected = tapped
    /\ segues > 0 /\ selected = None => swept

ListInv == Outrun /\ RowInv

LEMMA ListStep == CategoriesTypeOK /\ ListInv /\ [Next]_listVisits => ListInv'
<1> SUFFICES ASSUME CategoriesTypeOK, ListInv, [Next]_listVisits PROVE ListInv'
  OBVIOUS
<1> USE DEF CategoriesTypeOK, ListInv, Outrun, RowInv
<1>1. CASE UNCHANGED categoriesVars
  BY <1>1 DEF categoriesVars, loadVars, rowVars, OnTheWay
<1>2. CASE refresh
  BY <1>2 DEF refresh, rowVars, OnTheWay
<1>3. CASE Empty
  BY <1>3 DEF Empty, reloadData, OnTheWay
<1>4. CASE Reload
  BY <1>4 DEF Reload, reloadData, loadVars, OnTheWay
<1>5. CASE LoadCategoriesResults
  BY <1>5 DEF LoadCategoriesResults, rowVars, OnTheWay
<1>6. ASSUME NEW c \in Categories, configure(c) PROVE ListInv'
  <2>1. OnTheWay' => OnTheWay
    BY <1>6 DEF configure, OnTheWay
  <2> QED BY <1>6, <2>1 DEF configure
<1>7. ASSUME NEW c \in Categories, didSelectRow(c) PROVE ListInv'
  BY <1>7, CategoriesAssumption DEF didSelectRow, loadVars, OnTheWay
<1>8. CASE prepare
  BY <1>8 DEF prepare, loadVars, OnTheWay
<1>9. CASE dismiss
  BY <1>9 DEF dismiss, loadVars, OnTheWay
<1> QED BY <1>1, <1>2, <1>3, <1>4, <1>5, <1>6, <1>7, <1>8, <1>9 DEF Next, VisitCategories,
      VisitLeague, VisitNews, CategoriesNext, listVisits

LEMMA ListInvariant == Spec => [](CategoriesTypeOK /\ ListInv)
<1>1. Init => ListInv
  BY DEF Init, CategoriesInit, ListInv, Outrun, RowInv
<1> QED BY <1>1, ListStep, CategoriesType, PTL DEF Spec

\* Only a refresh that overtakes its results has the index run over; the row of
\* a detail screen never does.
THEOREM OverrunNeedsRefreshHolds == Spec => OverrunNeedsRefresh
<1>1. ASSUME ListInv, [Next]_listVisits, listCrashed' /\ ~listCrashed PROVE overtaken
  <2>1. prepare \/ \E c \in Categories : configure(c)
    BY <1>1, CategoriesSteps DEF categoriesVars, refresh, Empty, Reload,
          LoadCategoriesResults, dismiss, didSelectRow
  <2> QED BY <1>1, <2>1 DEF configure, prepare, OnTheWay, ListInv, Outrun, RowInv
<1>2. ListInv /\ [Next]_listVisits => [listCrashed' /\ ~listCrashed => overtaken]_categoriesVars
  BY <1>1
<1> QED BY <1>2, ListInvariant, PTL DEF Spec, OverrunNeedsRefresh

\* The detail screen opens for the category tapped last, or without one after a
\* reload of the table.
THEOREM DetailOfTappedHolds == Spec => DetailOfTapped
<1>1. ASSUME ListInv, [Next]_listVisits, detail' # detail, detail' # None
      PROVE  detail' = tapped \/ (detail' = Blank /\ swept)
  <2>1. prepare
    BY <1>1, CategoriesSteps DEF categoriesVars, rowVars, refresh, Empty, Reload,
          LoadCategoriesResults, configure, dismiss, didSelectRow
  <2> QED BY <1>1, <2>1 DEF prepare, ListInv, RowInv
<1>2. ListInv /\ [Next]_listVisits =>
          [detail' # detail /\ detail' # None =>
               detail' = tapped \/ (detail' = Blank /\ swept)]_categoriesVars
  BY <1>1
<1> QED BY <1>2, ListInvariant, PTL DEF Spec, DetailOfTapped

----------------------------------------------------------------------------
(* The league *)

\* A queue keeps its type, and its last element until that is taken.
LEMMA Queued ==
    ASSUME NEW S, NEW q \in Seq(S)
    PROVE  /\ q # <<>> => /\ Head(q) \in S /\ Tail(q) \in Seq(S)
                          /\ IF Tail(q) = <<>> THEN Head(q) = q[Len(q)]
                             ELSE Tail(q)[Len(Tail(q))] = q[Len(q)]
           /\ \A r \in Seq(S) : /\ q \o r \in Seq(S)
                                /\ r # <<>> => q \o r # <<>> /\ (q \o r)[Len(q \o r)] = r[Len(r)]
<1>1. ASSUME q # <<>>
      PROVE  /\ Head(q) \in S /\ Tail(q) \in Seq(S)
             /\ IF Tail(q) = <<>> THEN Head(q) = q[Len(q)]
                ELSE Tail(q)[Len(Tail(q))] = q[Len(q)]
  <2> SUFFICES ASSUME NEW t, t = Tail(q)
               PROVE  /\ Head(q) \in S /\ t \in Seq(S)
                      /\ IF t = <<>> THEN Head(q) = q[Len(q)] ELSE t[Len(t)] = q[Len(q)]
    OBVIOUS
  <2>1. Head(q) = q[1] /\ Len(q) \in Nat \ {0} /\ Len(t) = Len(q) - 1 /\ t \in Seq(S)
    BY <1>1
  <2>2. CASE t = <<>>
    BY <2>1, <2>2
  <2>3. CASE t # <<>>
    BY <2>1, <2>3
  <2> QED BY <2>1, <2>2, <2>3
<1>2. ASSUME NEW r \in Seq(S)
      PROVE  /\ q \o r \in Seq(S)
             /\ r # <<>> => q \o r # <<>> /\ (q \o r)[Len(q \o r)] = r[Len(r)]
  OBVIOUS
<1> QED BY <1>1, <1>2

\* The row tapped is the player's for as long as the league is not shown again.
TapInv ==
    \A t \in taps :
        /\ t = [row |-> t.row, name |-> t.name, moved |-> t.moved]
        /\ t.moved \/ (t.row \in DOMAIN players /\ players[t.row].name = t.name)
        /\ taps = {t}

LEMMA LeagueSteps == [Next]_listVisits => LeagueNext \/ UNCHANGED leagueVars
BY DEF Next, VisitCategories, VisitLeague, VisitNews, listVisits

\* The parts of LeagueTypeOK.
CloudType == cloud \in Views /\ observing \in BOOLEAN /\ changed \in BOOLEAN

ShownType ==
    loads \in Nat /\ blocks \in Seq(Seq(Rows)) /\ players \in Seq(Rows) /\ failed \in BOOLEAN

TapType == taps \subseteq [row : Nat, name : Documents, moved : BOOLEAN]

OpenedType == opened \in Documents \cup {NoPlayer} /\ leagueCrashed \in BOOLEAN

LEMMA LeagueParts == LeagueTypeOK <=> CloudType /\ ShownType /\ TapType /\ OpenedType
BY DEF LeagueTypeOK, CloudType, ShownType, TapType, OpenedType

LEMMA LeagueType == Spec => []LeagueTypeOK
<1>1. Init => LeagueTypeOK
  <2> SUFFICES ASSUME LeagueInit PROVE CloudType /\ ShownType /\ TapType /\ OpenedType
    BY LeagueParts DEF Init
  <2>1. \A S : <<>> \in Seq(S)
    OBVIOUS
  <2>2. ShownType
    BY <2>1 DEF LeagueInit, ShownType
  <2> QED BY <2>2 DEF LeagueInit, CloudType, TapType, OpenedType
<1>2. LeagueTypeOK /\ [Next]_listVisits => LeagueTypeOK'
  <2> SUFFICES ASSUME CloudType, ShownType, TapType, OpenedType, [Next]_listVisits
               PROVE  CloudType' /\ ShownType' /\ TapType' /\ OpenedType'
    BY LeagueParts DEF LeagueTypeOK, CloudType, ShownType, TapType, OpenedType
  <2>1. CloudType'
    <3>1. CASE UsersChange
      <4>1. PICK d \in Documents :
                 \/ \E n \in Scores : cloud' = [cloud EXCEPT ![d] = n]
                 \/ cloud' = [cloud EXCEPT ![d] = Unplayed]
                 \/ cloud' = [cloud EXCEPT ![d] = Absent]
        BY <3>1 DEF UsersChange
      <4>2. cloud' \in Views
        BY <4>1 DEF CloudType, Views
      <4> QED BY <3>1, <4>2 DEF UsersChange, CloudType
    <3> QED BY <3>1, LeagueSteps DEF LeagueNext, ObservePlayers, ListenerEnds, GetPlayers, LoadFails,
          ShowPlayers, didSelectPlayer, playerWasSelected, BackToLeague, leagueVars, cloudVars,
          CloudType
  <2>2. ShownType'
    <3> USE DEF ShownType
    <3>1. CASE GetPlayers
      <4>1. LoadPlayers(cloud) \in Seq(Seq(Rows))
        BY LoadEndsComplete DEF CloudType
      <4>2. blocks' \in Seq(Seq(Rows))
        BY <3>1, <4>1, Queued DEF GetPlayers
      <4>3. loads' \in Nat /\ players' = players /\ failed' = FALSE
        BY <3>1 DEF GetPlayers
      <4> QED BY <4>2, <4>3
    <3>2. CASE ShowPlayers
      <4>1. players' \in Seq(Rows) /\ blocks' \in Seq(Seq(Rows))
        BY <3>2, Queued DEF ShowPlayers
      <4> QED BY <3>2, <4>1 DEF ShowPlayers
    <3>3. ASSUME UNCHANGED <<blocks, players>>, loads' \in Nat, failed' \in BOOLEAN PROVE ShownType'
      BY <3>3
    <3>4. CASE ObservePlayers \/ ListenerEnds
      BY <3>3, <3>4 DEF ObservePlayers, ListenerEnds
    <3>5. CASE LoadFails
      BY <3>3, <3>5 DEF LoadFails
    <3>6. CASE UNCHANGED listVars
      BY <3>6 DEF listVars
    <3> QED BY <3>1, <3>2, <3>4, <3>5, <3>6, LeagueSteps DEF LeagueNext, UsersChange,
          didSelectPlayer, playerWasSelected, BackToLeague, leagueVars
  <2>3. \A i \in DOMAIN players : i \in Nat /\ players[i].name \in Documents
    <3>1. \A i \in DOMAIN players : i \in Nat /\ players[i] \in Rows
      BY DEF ShownType
    <3> QED BY <3>1 DEF Rows
  <2>4. TapType'
    <3>1. CASE ShowPlayers
      BY <3>1 DEF ShowPlayers, TapType
    <3>2. CASE didSelectPlayer
      BY <2>3, <3>2 DEF didSelectPlayer, TapType
    <3> QED BY <3>1, <3>2, LeagueSteps DEF LeagueNext, UsersChange, ObservePlayers, ListenerEnds,
          GetPlayers, LoadFails, playerWasSelected, BackToLeague, leagueVars, tapVars, TapType
  <2>5. OpenedType'
    BY <2>3, LeagueSteps DEF LeagueNext, UsersChange, ObservePlayers, ListenerEnds, GetPlayers,
          LoadFails, ShowPlayers, didSelectPlayer, playerWasSelected, BackToLeague, leagueVars,
          tapVars, OpenedType
  <2> QED BY <2>1, <2>2, <2>4, <2>5
<1> QED BY <1>1, <1>2, PTL DEF Spec

\* With every change loaded, the list shown or queued last is the ranking of
\* the players in the cloud.
LeagueInv ==
    ~changed /\ loads = 0 /\ observing /\ ~failed /\ Found(cloud) # {}
    => IF blocks = <<>> THEN players = Ranking(cloud, Users)
       ELSE blocks[Len(blocks)] = Ranking(cloud, Users)

LEMMA LeagueStep == LeagueTypeOK /\ LeagueInv /\ [Next]_listVisits => LeagueInv'
<1> SUFFICES ASSUME LeagueTypeOK, LeagueInv, [Next]_listVisits PROVE LeagueInv'
  OBVIOUS
<1> USE DEF LeagueInv
<1>1. CASE UNCHANGED <<cloudVars, listVars>>
  BY <1>1 DEF cloudVars, listVars
<1>2. CASE UsersChange
  BY <1>2 DEF UsersChange
<1>3. CASE ObservePlayers
  BY <1>3 DEF ObservePlayers, LeagueTypeOK
<1>4. CASE ListenerEnds
  BY <1>4 DEF ListenerEnds
<1>5. CASE GetPlayers
  <2> DEFINE lists == LoadPlayers(cloud)
  <2>1. blocks' = blocks \o lists /\ UNCHANGED cloud
    BY <1>5 DEF GetPlayers, cloudVars
  <2>2. /\ lists \in Seq(Seq(Rows))
        /\ Found(cloud) # {} => lists # <<>> /\ lists[Len(lists)] = Ranking(cloud, Users)
    BY LoadEndsComplete DEF LeagueTypeOK
  <2> HIDE DEF lists
  <2>3. lists # <<>> => blocks' # <<>> /\ blocks'[Len(blocks')] = lists[Len(lists)]
    BY <2>1, <2>2, Queued DEF LeagueTypeOK
  <2> QED BY <2>1, <2>2, <2>3
<1>6. CASE LoadFails
  BY <1>6 DEF LoadFails
<1>7. CASE ShowPlayers
  <2>1. /\ blocks # <<>> /\ players' = Head(blocks) /\ blocks' = Tail(blocks)
        /\ UNCHANGED <<cloudVars, loads, failed>>
    BY <1>7 DEF ShowPlayers
  <2>2. IF blocks' = <<>> THEN players' = blocks[Len(blocks)]
        ELSE blocks'[Len(blocks')] = blocks[Len(blocks)]
    BY <2>1, Queued DEF LeagueTypeOK
  <2> QED BY <2>1, <2>2 DEF cloudVars
<1> QED BY <1>1, <1>2, <1>3, <1>4, <1>5, <1>6, <1>7, LeagueSteps DEF LeagueNext, didSelectPlayer,
      playerWasSelected, BackToLeague, leagueVars

\* Whatever snapshots, loads, failures and changes overlap, the league settles
\* on the ranking of all the players in the cloud.
THEOREM LeagueCurrentHolds == Spec => []LeagueCurrent
<1>1. Init => LeagueInv
  BY DEF Init, LeagueInit, LeagueInv
<1>2. LeagueInv => LeagueCurrent
  BY DEF LeagueInv, LeagueCurrent, Found
<1> QED BY <1>1, <1>2, LeagueStep, LeagueType, PTL DEF Spec

\* What is shown and what is queued.
Ranked == players \in Lists /\ blocks \in Seq(Lists)

\* At every moment, while lists of several loads are still queued behind it, the
\* league shows nobody twice and nobody above somebody better.
THEOREM LeagueRanked == Spec => [](BestFirst(players))
<1>1. Init => Ranked
  <2>1. <<>> \in Seq(Rows) /\ BestFirst(<<>>) /\ <<>> \in Seq(Lists)
    BY DEF BestFirst
  <2> QED BY <2>1 DEF Init, LeagueInit, Ranked, Lists
<1>2. LeagueTypeOK /\ Ranked /\ [Next]_listVisits => Ranked'
  <2> SUFFICES ASSUME LeagueTypeOK, Ranked, [Next]_listVisits PROVE Ranked'
    OBVIOUS
  <2>1. CASE UNCHANGED <<blocks, players>>
    BY <2>1 DEF Ranked
  <2>2. CASE GetPlayers
    <3>1. LoadPlayers(cloud) \in Seq(Lists)
      BY LoadEndsComplete DEF LeagueTypeOK
    <3>2. blocks \o LoadPlayers(cloud) \in Seq(Lists)
      BY <3>1, Queued DEF Ranked
    <3> QED BY <2>2, <3>2 DEF GetPlayers, Ranked
  <2>3. CASE ShowPlayers
    <3>1. Head(blocks) \in Lists /\ Tail(blocks) \in Seq(Lists)
      BY <2>3, Queued DEF ShowPlayers, Ranked
    <3> QED BY <2>3, <3>1 DEF ShowPlayers, Ranked
  <2> QED BY <2>1, <2>2, <2>3, LeagueSteps DEF LeagueNext, UsersChange, ObservePlayers, ListenerEnds,
        LoadFails, didSelectPlayer, playerWasSelected, BackToLeague, leagueVars, listVars
<1>3. Ranked => BestFirst(players)
  BY DEF Ranked, Lists
<1> QED BY <1>1, <1>2, <1>3, LeagueType, PTL DEF Spec

LEMMA TapInvariant == Spec => []TapInv
<1>1. Init => TapInv
  BY DEF Init, LeagueInit, TapInv
<1>2. TapInv /\ [Next]_listVisits => TapInv'
  <2> SUFFICES ASSUME TapInv, [Next]_listVisits PROVE TapInv'
    OBVIOUS
  <2>1. CASE UNCHANGED <<taps, players>>
    BY <2>1 DEF TapInv
  <2>2. CASE ShowPlayers
    <3> SUFFICES ASSUME NEW t \in taps'
                 PROVE  /\ t = [row |-> t.row, name |-> t.name, moved |-> t.moved]
                        /\ t.moved /\ taps' = {t}
      BY DEF TapInv
    <3>1. PICK u \in taps : t = [u EXCEPT !.moved = TRUE]
      BY <2>2 DEF ShowPlayers
    <3>2. u = [row |-> u.row, name |-> u.name, moved |-> u.moved] /\ taps = {u}
      BY DEF TapInv
    <3>3. t = [row |-> u.row, name |-> u.name, moved |-> TRUE]
      BY <3>1, <3>2
    <3>4. taps' = {t}
      BY <2>2, <3>1, <3>2 DEF ShowPlayers
    <3> QED BY <3>3, <3>4
  <2>3. CASE didSelectPlayer
    <3>1. PICK i \in DOMAIN players :
              taps' = {[row |-> i, name |-> players[i].name, moved |-> FALSE]}
      BY <2>3 DEF didSelectPlayer
    <3>2. UNCHANGED players
      BY <2>3 DEF didSelectPlayer, listVars
    <3> DEFINE r == [row |-> i, name |-> players[i].name, moved |-> FALSE]
    <3>3. r.row = i /\ r.name = players[i].name /\ r.moved = FALSE /\ i \in DOMAIN players
      OBVIOUS
    <3>4. taps' = {r}
      BY <3>1
    <3> HIDE DEF r
    <3>5. r = [row |-> r.row, name |-> r.name, moved |-> r.moved]
      BY <3>3 DEF r
    <3> QED BY <3>2, <3>3, <3>4, <3>5 DEF TapInv
  <2>4. CASE playerWasSelected
    <3>1. taps' = {}
      BY <2>4 DEF playerWasSelected, TapInv
    <3> QED BY <3>1 DEF TapInv
  <2> QED BY <2>1, <2>2, <2>3, <2>4, LeagueSteps DEF LeagueNext, UsersChange, ObservePlayers,
        ListenerEnds, GetPlayers, LoadFails, BackToLeague, leagueVars, listVars, tapVars
<1> QED BY <1>1, <1>2, PTL DEF Spec

\* The player opened is the one tapped, and the row is there, unless the league
\* was shown again meanwhile: the index is read two seconds after the tap.
THEOREM OpensTappedHolds == Spec => OpensTapped
<1>1. ASSUME TapInv, [Next]_listVisits, NEW t \in taps, taps' = {}
      PROVE  (opened' = t.name /\ ~leagueCrashed') \/ t.moved
  <2>1. playerWasSelected
    BY <1>1, LeagueSteps DEF LeagueNext, UsersChange, ObservePlayers, ListenerEnds, GetPlayers,
          LoadFails, ShowPlayers, didSelectPlayer, BackToLeague, leagueVars, tapVars
  <2>2. taps = {t} /\ (t.moved \/ (t.row \in DOMAIN players /\ players[t.row].name = t.name))
    BY <1>1 DEF TapInv
  <2>3. t.row \in DOMAIN players =>
            opened' = players[t.row].name /\ leagueCrashed' = leagueCrashed /\ ~leagueCrashed
    BY <2>1, <2>2 DEF playerWasSelected
  <2> QED BY <2>2, <2>3
<1>2. TapInv /\ [Next]_listVisits =>
          [\A t \in taps : taps' = {} =>
               (opened' = t.name /\ ~leagueCrashed') \/ t.moved]_leagueVars
  BY <1>1
<1> QED BY <1>2, TapInvariant, PTL DEF Spec, OpensTapped

----------------------------------------------------------------------------
(* The news *)

\* The last event queued is of the topic of the title, unless it came from
\* elsewhere.
FeedInv ==
    /\ events \in Seq(Topics)
    /\ ~foreign => IF events = <<>> THEN title = news ELSE events[Len(events)] = title

LEMMA NewsSteps == [Next]_listVisits => NewsNext \/ UNCHANGED newsVars
BY DEF Next, VisitCategories, VisitLeague, VisitNews, listVisits

LEMMA FeedInvariant == Spec => []FeedInv
<1>1. Init => FeedInv
  BY DEF Init, NewsInit, FeedInv
<1>2. FeedInv /\ [Next]_listVisits => FeedInv'
  <2> SUFFICES ASSUME FeedInv, [Next]_listVisits PROVE FeedInv'
    OBVIOUS
  <2>1. CASE UNCHANGED <<events, news, title, foreign>>
    BY <2>1 DEF FeedInv
  <2>2. ASSUME NEW t \in Topics, publish(t) PROVE FeedInv'
    <3>1. events' = Append(events, t) /\ title' = t
      BY <2>2 DEF publish
    <3>2. events' \in Seq(Topics) /\ events' # <<>> /\ events'[Len(events')] = t
      BY <3>1 DEF FeedInv
    <3> QED BY <3>1, <3>2 DEF FeedInv
  <2>3. ASSUME NEW t \in Topics, publishElsewhere(t) PROVE FeedInv'
    BY <2>3 DEF publishElsewhere, FeedInv
  <2>4. CASE ShowNews
    <3>1. events # <<>> /\ news' = Head(events) /\ events' = Tail(events)
          /\ UNCHANGED <<title, foreign>>
      BY <2>4 DEF ShowNews
    <3>2. events' \in Seq(Topics) /\ Len(events') = Len(events) - 1
      BY <3>1 DEF FeedInv
    <3>3. CASE events' = <<>>
      <4>1. Len(events) = 1
        BY <3>2, <3>3 DEF FeedInv
      <4> QED BY <3>1, <3>2, <3>3, <4>1 DEF FeedInv
    <3>4. CASE events' # <<>>
      <4>1. events'[Len(events')] = events[Len(events)]
        BY <3>1, <3>2, <3>4 DEF FeedInv
      <4> QED BY <3>1, <3>2, <3>4, <4>1 DEF FeedInv
    <3> QED BY <3>3, <3>4
  <2>5. CASE ReplaceScreen
    BY <2>5 DEF ReplaceScreen, FeedInv
  <2> QED BY <2>1, <2>2, <2>3, <2>4, <2>5, NewsSteps DEF NewsNext, SelectNewsCategory,
        GenerateRandomNews, refreshNews, GetNews, SearchNews, NoNews, newsVars
<1> QED BY <1>1, <1>2, PTL DEF Spec

\* The parts of NewsTypeOK.
AskType == asking \in [Topics -> Nat] /\ elsewhere \in [Topics -> Nat]

FeedType ==
    events \in Seq(Topics) /\ news \in Topics \cup {NoTopic} /\ title \in Topics \cup {NoTopic}

LEMMA NewsType == Spec => []NewsTypeOK
<1>1. Init => NewsTypeOK
  <2> SUFFICES ASSUME NewsInit PROVE AskType /\ FeedType /\ foreign \in BOOLEAN
    BY DEF Init, NewsTypeOK, AskType, FeedType
  <2>1. AskType
    BY DEF NewsInit, AskType
  <2>2. FeedType
    BY DEF NewsInit, FeedType
  <2> QED BY <2>1, <2>2 DEF NewsInit
<1>2. NewsTypeOK /\ [Next]_listVisits => NewsTypeOK'
  <2> SUFFICES ASSUME AskType, FeedType, foreign \in BOOLEAN, [Next]_listVisits
               PROVE  AskType' /\ FeedType' /\ foreign' \in BOOLEAN
    BY DEF NewsTypeOK, AskType, FeedType
  <2>1. AskType'
    <3> USE DEF AskType
    <3>1. ASSUME NEW t \in Topics, GetNews(t) PROVE AskType'
      BY <3>1 DEF GetNews
    <3>2. ASSUME NEW t \in Topics, publish(t) PROVE AskType'
      BY <3>2 DEF publish
    <3>3. ASSUME NEW t \in Topics, publishElsewhere(t) PROVE AskType'
      BY <3>3 DEF publishElsewhere
    <3>4. ASSUME NEW t \in Topics, NoNews(t) PROVE AskType'
      BY <3>4 DEF NoNews
    <3>5. CASE SearchNews
      BY <3>5 DEF SearchNews
    <3>6. CASE ReplaceScreen
      BY <3>6 DEF ReplaceScreen
    <3>7. CASE ShowNews
      BY <3>7 DEF ShowNews
    <3> QED BY <3>1, <3>2, <3>3, <3>4, <3>5, <3>6, <3>7, NewsSteps, NewsAssumption DEF NewsNext,
          SelectNewsCategory, GenerateRandomNews, refreshNews, newsVars
  <2>2. FeedType'
    <3>1. CASE ShowNews
      <4>1. Head(events) \in Topics /\ Tail(events) \in Seq(Topics)
        BY <3>1, Queued DEF ShowNews, FeedType
      <4> QED BY <3>1, <4>1 DEF ShowNews, FeedType
    <3>2. ASSUME NEW t \in Topics, publish(t) \/ publishElsewhere(t) PROVE FeedType'
      BY <3>2 DEF publish, publishElsewhere, FeedType
    <3>3. CASE ReplaceScreen
      BY <3>3 DEF ReplaceScreen, FeedType
    <3> QED BY <3>1, <3>2, <3>3, NewsSteps DEF NewsNext, SelectNewsCategory, GenerateRandomNews, refreshNews,
          GetNews, SearchNews, NoNews, newsVars, FeedType
  <2>3. foreign' \in BOOLEAN
    BY NewsSteps DEF NewsNext, SelectNewsCategory, GenerateRandomNews, refreshNews, GetNews,
          SearchNews, publish, publishElsewhere, NoNews, ShowNews, ReplaceScreen, newsVars
  <2> QED BY <2>1, <2>2, <2>3
<1> QED BY <1>1, <1>2, PTL DEF Spec

\* The lists keep their types: the lists queued and shown are lists of players
\* with scores, and no request is answered more often than asked.
THEOREM TypeCorrect == Spec => []TypeOK
<1>1. CategoriesTypeOK /\ LeagueTypeOK /\ NewsTypeOK <=> TypeOK
  BY DEF TypeOK
<1> QED BY <1>1, CategoriesType, LeagueType, NewsType, PTL

\* The title is that of the articles, unless the last answer was asked for by
\* the voice or by the screen of an earlier home.
THEOREM TitleOfNewsHolds == Spec => []TitleOfNews
<1>1. FeedInv => TitleOfNews
  BY DEF FeedInv, TitleOfNews
<1> QED BY <1>1, FeedInvariant, PTL
=============================================================================
