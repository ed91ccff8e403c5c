------------------------- MODULE PlayersLeagueProofs --------------------------
(***************************************************************************)
(* What the league's sorting yields: the positions that count the elements *)
(* up to one are those of an enumeration, so that every list of the league *)
(* has its players once each, the best first.                              *)
(***************************************************************************)
EXTENDS PlayersLeague, FunctionTheorems, FiniteSetTheorems, TLAPS

\* R orders S: of any two elements one comes first.
Orders(R, S) ==
    /\ \A x \in S : <<x, x>> \in R
    /\ \A x, y \in S : <<x, y>> \in R \/ <<y, x>> \in R
    /\ \A x, y \in S : <<x, y>> \in R /\ <<y, x>> \in R => x = y
    /\ \A x, y, z \in S : <<x, y>> \in R /\ <<y, z>> \in R => <<x, z>> \in R

UpTo(S, R, x) == {y \in S : <<y, x>> \in R}

LEMMA Positions ==
    ASSUME NEW S, IsFiniteSet(S), NEW R, Orders(R, S)
    PROVE  /\ \A x \in S : Cardinality(UpTo(S, R, x)) \in 1..Cardinality(S)
           /\ \A x, y \in S : <<x, y>> \in R /\ x # y =>
                  Cardinality(UpTo(S, R, x)) < Cardinality(UpTo(S, R, y))
<1>1. \A x \in S : IsFiniteSet(UpTo(S, R, x)) /\ Cardinality(UpTo(S, R, x)) \in Nat
  <2> SUFFICES ASSUME NEW x \in S
               PROVE  IsFiniteSet(UpTo(S, R, x)) /\ Cardinality(UpTo(S, R, x)) \in Nat
    OBVIOUS
  <2>1. UpTo(S, R, x) \in SUBSET S
    BY DEF UpTo
  <2>2. IsFiniteSet(UpTo(S, R, x))
    BY <2>1, FS_Subset
  <2> QED BY <2>2, FS_CardinalityType
<1>2. \A x \in S : Cardinality(UpTo(S, R, x)) \in 1..Cardinality(S)
  <2> SUFFICES ASSUME NEW x \in S PROVE Cardinality(UpTo(S, R, x)) \in 1..Cardinality(S)
    OBVIOUS
  <2>1. UpTo(S, R, x) \in SUBSET S
    BY DEF UpTo
  <2>2. Cardinality(UpTo(S, R, x)) <= Cardinality(S)
    BY <2>1, FS_Subset
  <2>3. x \in UpTo(S, R, x)
    BY DEF UpTo, Orders
  <2>4. Cardinality(UpTo(S, R, x)) # 0
    BY <1>1, <2>3, FS_EmptySet
  <2>5. Cardinality(S) \in Nat
    BY FS_CardinalityType
  <2> QED BY <1>1, <2>2, <2>4, <2>5
<1>3. ASSUME NEW x \in S, NEW y \in S, <<x, y>> \in R, x # y
      PROVE  Cardinality(UpTo(S, R, x)) < Cardinality(UpTo(S, R, y))
  <2>1. UpTo(S, R, x) \in SUBSET UpTo(S, R, y)
    BY <1>3 DEF UpTo, Orders
  <2>2. y \in UpTo(S, R, y) /\ y \notin UpTo(S, R, x)
    BY <1>3 DEF UpTo, Orders
  <2>3. Cardinality(UpTo(S, R, x)) <= Cardinality(UpTo(S, R, y))
    BY <1>1, <2>1, FS_Subset
  <2>4. Cardinality(UpTo(S, R, x)) # Cardinality(UpTo(S, R, y))
    BY <1>1, <2>1, <2>2, FS_Subset
  <2> QED BY <1>1, <2>3, <2>4
<1> QED BY <1>2, <1>3

\* Every position is that of one element.
LEMMA Placed ==
    ASSUME NEW S, IsFiniteSet(S), NEW R, Orders(R, S)
    PROVE  /\ Cardinality(S) \in Nat
           /\ \A i \in 1..Cardinality(S) : \E x \in S : Cardinality(UpTo(S, R, x)) = i
<1> DEFINE N == Cardinality(S)
           position == [x \in S |-> Cardinality(UpTo(S, R, x))]
<1>1. N \in Nat
  BY FS_CardinalityType
<1>2. position \in [S -> 1..N]
  BY Positions
<1>3. ASSUME NEW x \in S, NEW y \in S, position[x] = position[y] PROVE x = y
  <2>1. <<x, y>> \in R \/ <<y, x>> \in R
    BY DEF Orders
  <2>2. position[x] \in Int /\ position[y] \in Int
    BY <1>1, <1>2
  <2> QED BY <1>3, <2>1, <2>2, Positions
<1>4. position \in Injection(S, 1..N)
  BY <1>2, <1>3 DEF Injection, IsInjective
<1>5. IsFiniteSet(1..N) /\ Cardinality(1..N) = N
  BY <1>1, FS_Interval
<1>6. position \in Surjection(S, 1..N)
  BY <1>4, <1>5, FS_Injection
<1> QED BY <1>1, <1>6 DEF Surjection

\* Sorted enumerates the set in its order.
LEMMA SortedEnumerates ==
    ASSUME NEW S, IsFiniteSet(S), NEW R, Orders(R, S)
    PROVE  /\ Sorted(S, R) \in Seq(S) /\ Len(Sorted(S, R)) = Cardinality(S)
           /\ \A x \in S : \E i \in DOMAIN Sorted(S, R) : Sorted(S, R)[i] = x
           /\ \A i, j \in DOMAIN Sorted(S, R) :
                  i < j => <<Sorted(S, R)[i], Sorted(S, R)[j]>> \in R /\ Sorted(S, R)[i] # Sorted(S, R)[j]
<1> DEFINE N == Cardinality(S)
           s == Sorted(S, R)
<1>1. N \in Nat
  BY Placed
<1>2. s = [i \in 1..N |-> CHOOSE x \in S : Cardinality(UpTo(S, R, x)) = i]
  BY DEF Sorted, UpTo
<1> HIDE DEF s
<1>3. ASSUME NEW i \in 1..N PROVE s[i] \in S /\ Cardinality(UpTo(S, R, s[i])) = i
  <2>1. s[i] = CHOOSE x \in S : Cardinality(UpTo(S, R, x)) = i
    BY <1>2
  <2>2. \E x \in S : Cardinality(UpTo(S, R, x)) = i
    BY Placed
  <2> QED BY <2>1, <2>2
<1>4. DOMAIN s = 1..N
  BY <1>2
<1>5. s \in Seq(S) /\ Len(s) = N
  BY <1>1, <1>2, <1>3, <1>4
<1>6. ASSUME NEW x \in S PROVE \E i \in 1..N : s[i] = x
  <2> DEFINE i == Cardinality(UpTo(S, R, x))
  <2>1. i \in 1..N
    BY Positions
  <2> HIDE DEF i
  <2>2. s[i] \in S /\ Cardinality(UpTo(S, R, s[i])) = i
    BY <1>3, <2>1
  <2>3. <<x, s[i]>> \in R \/ <<s[i], x>> \in R
    BY <2>2 DEF Orders
  <2>4. s[i] = x
    BY <1>1, <2>1, <2>2, <2>3, Positions DEF i
  <2> QED BY <2>1, <2>4
<1>7. ASSUME NEW i \in 1..N, NEW j \in 1..N, i < j PROVE <<s[i], s[j]>> \in R /\ s[i] # s[j]
  <2>1. /\ s[i] \in S /\ Cardinality(UpTo(S, R, s[i])) = i
        /\ s[j] \in S /\ Cardinality(UpTo(S, R, s[j])) = j
    BY <1>3
  <2>2. s[i] # s[j]
    BY <1>7, <2>1
  <2>3. ~ <<s[j], s[i]>> \in R
    BY <1>1, <1>7, <2>1, <2>2, Positions
  <2> QED BY <2>1, <2>2, <2>3 DEF Orders
<1> QED BY <1>4, <1>5, <1>6, <1>7 DEF s

----------------------------------------------------------------------------
(* One list of the league *)

\* Lists with nobody twice, and nobody above somebody better.
BestFirst(list) ==
    \A i, j \in DOMAIN list :
        i < j => list[i].name # list[j].name /\ list[i].counter >= list[j].counter

Lists == {list \in Seq(Rows) : BestFirst(list)}

\* The list has every player of the first n documents once, with the score of
\* the last quiz, and nobody above somebody better.
IsRanking(list, view, n) ==
    /\ list \in Seq(Rows) /\ Len(list) = Cardinality(Played(view, n))
    /\ \A i \in DOMAIN list :
           list[i].name \in Played(view, n) /\ list[i].counter = view[list[i].name]
    /\ \A d \in Played(view, n) : \E i \in DOMAIN list : list[i].name = d
    /\ BestFirst(list)

LEMMA IsSequence ==
    ASSUME NEW S, NEW n \in Nat, NEW f \in [1..n -> S]
    PROVE  f \in Seq(S) /\ Len(f) = n
OBVIOUS

LEMMA PlayedFinite ==
    ASSUME NEW view \in Views, NEW n \in 0..Users
    PROVE  /\ Played(view, n) \subseteq Documents /\ IsFiniteSet(Played(view, n))
           /\ \A d \in Played(view, n) : view[d] \in Scores
<1>1. Played(view, n) \in SUBSET (1..n)
  BY DEF Played
<1>2. IsFiniteSet(1..n)
  BY LeagueAssumption, FS_Interval
<1> QED BY <1>1, <1>2, LeagueAssumption, FS_Subset DEF Played, Documents

LEMMA BetterOrders ==
    ASSUME NEW view \in Views, NEW n \in 0..Users
    PROVE  Orders(Better(view, n), Played(view, n))
<1> DEFINE P == Played(view, n)
<1>1. \A x, y \in P : <<x, y>> \in Better(view, n) <=>
          view[x] > view[y] \/ (view[x] = view[y] /\ x <= y)
  BY DEF Better
<1>2. \A x \in P : x \in Int /\ view[x] \in Int
  BY PlayedFinite DEF Documents, Scores
<1> HIDE DEF P
<1> QED BY <1>1, <1>2 DEF Orders, P

\* Every list of the league is a ranking: what players.sort is there for,
\* whatever the documents and their order.
THEOREM RankingSorted ==
    ASSUME NEW view \in Views, NEW n \in 0..Users
    PROVE  IsRanking(Ranking(view, n), view, n)
<1> DEFINE P == Played(view, n)
           order == Sorted(P, Better(view, n))
           list == Ranking(view, n)
<1>1. /\ order \in Seq(P) /\ Len(order) = Cardinality(P)
      /\ \A x \in P : \E i \in DOMAIN order : order[i] = x
      /\ \A i, j \in DOMAIN order :
             i < j => <<order[i], order[j]>> \in Better(view, n) /\ order[i] # order[j]
  BY PlayedFinite, BetterOrders, SortedEnumerates
<1>2. list = [i \in DOMAIN order |-> [name |-> order[i], counter |-> view[order[i]]]]
  BY DEF Ranking
<1>3. P \subseteq Documents /\ \A d \in P : view[d] \in Scores
  BY PlayedFinite
<1>4. \A x, y \in P : <<x, y>> \in Better(view, n) => view[x] >= view[y]
  BY <1>3 DEF Better, Scores
<1> HIDE DEF P, order, list
<1>5. DOMAIN order = 1..Len(order) /\ Len(order) \in Nat /\ \A i \in DOMAIN order : order[i] \in P
  BY <1>1
<1>6. \A i \in DOMAIN list : /\ list[i].name = order[i] /\ list[i].counter = view[order[i]]
                             /\ list[i] \in Rows
  BY <1>2, <1>3, <1>5 DEF Rows
<1>7. DOMAIN list = DOMAIN order
  BY <1>2
<1>8. list \in Seq(Rows) /\ Len(list) = Cardinality(P)
  <2>1. list \in [1..Cardinality(P) -> Rows] /\ Cardinality(P) \in Nat
    BY <1>1, <1>2, <1>5, <1>6, <1>7
  <2> QED BY <2>1, IsSequence
<1>9. /\ \A i \in DOMAIN list : list[i].name \in P /\ list[i].counter = view[list[i].name]
      /\ \A d \in P : \E i \in DOMAIN list : list[i].name = d
  BY <1>1, <1>5, <1>6, <1>7
<1>10. BestFirst(list)
  <2> SUFFICES ASSUME NEW i \in DOMAIN list, NEW j \in DOMAIN list, i < j
               PROVE  list[i].name # list[j].name /\ list[i].counter >= list[j].counter
    BY DEF BestFirst
  <2>1. <<order[i], order[j]>> \in Better(view, n) /\ order[i] # order[j]
    BY <1>1, <1>7
  <2>2. order[i] \in P /\ order[j] \in P
    BY <1>5, <1>7
  <2>3. view[order[i]] >= view[order[j]]
    BY <1>4, <2>1, <2>2
  <2> QED BY <1>6, <2>1, <2>3
<1> QED BY <1>8, <1>9, <1>10 DEF list, P, IsRanking

----------------------------------------------------------------------------
(* The lists of one load *)

LEMMA FoundFinite ==
    ASSUME NEW view \in Views
    PROVE  /\ Found(view) \subseteq Documents /\ IsFiniteSet(Found(view))
           /\ Orders(InOrder, Found(view))
<1>1. Found(view) \in SUBSET Documents
  BY DEF Found
<1>2. IsFiniteSet(Documents)
  BY LeagueAssumption, FS_Interval DEF Documents
<1>3. \A x, y \in Found(view) : <<x, y>> \in InOrder <=> x <= y
  BY <1>1 DEF InOrder
<1>4. \A x \in Found(view) : x \in Int
  BY <1>1 DEF Documents
<1> QED BY <1>1, <1>2, <1>3, <1>4, FS_Subset DEF Orders

\* A load completes once for every document, each time with a ranking, and its
\* last list has every player: nobody behind the last document has played.
THEOREM LoadEndsComplete ==
    ASSUME NEW view \in Views
    PROVE  LET lists == LoadPlayers(view)
           IN  /\ lists \in Seq(Seq(Rows)) /\ lists \in Seq(Lists)
               /\ Len(lists) = Cardinality(Found(view))
               /\ Found(view) # {} => lists # <<>> /\ lists[Len(lists)] = Ranking(view, Users)
<1> DEFINE F == Found(view)
           found == Sorted(F, InOrder)
           lists == LoadPlayers(view)
<1>1. /\ found \in Seq(F) /\ Len(found) = Cardinality(F)
      /\ \A x \in F : \E i \in DOMAIN found : found[i] = x
      /\ \A i, j \in DOMAIN found : i < j => <<found[i], found[j]>> \in InOrder
  BY FoundFinite, SortedEnumerates
<1>2. lists = [i \in DOMAIN found |-> Ranking(view, found[i])]
  BY DEF LoadPlayers
<1>3. F \subseteq 0..Users
  BY FoundFinite DEF Documents
<1>4. \A i, j \in DOMAIN found : i < j => found[i] <= found[j]
  BY <1>1 DEF InOrder
<1> HIDE DEF found, lists
<1>5. DOMAIN found = 1..Len(found) /\ Len(found) \in Nat /\ \A i \in DOMAIN found : found[i] \in F
  BY <1>1
<1>6. \A i \in DOMAIN found : Ranking(view, found[i]) \in Seq(Rows) /\ Ranking(view, found[i]) \in Lists
  BY <1>3, <1>5, RankingSorted DEF IsRanking, Lists
<1>7. lists \in Seq(Seq(Rows)) /\ lists \in Seq(Lists) /\ Len(lists) = Cardinality(F)
  <2>1. /\ lists \in [1..Cardinality(F) -> Seq(Rows)] /\ lists \in [1..Cardinality(F) -> Lists]
        /\ Cardinality(F) \in Nat
    BY <1>1, <1>2, <1>5, <1>6
  <2> QED BY <2>1, IsSequence
<1>8. ASSUME F # {} PROVE lists # <<>> /\ lists[Len(lists)] = Ranking(view, Users)
  <2> DEFINE last == found[Len(found)]
  <2>1. Len(found) \in DOMAIN found
    BY <1>1, <1>5, <1>8
  <2>2. last \in F
    BY <1>5, <2>1
  <2>3. \A d \in F : d <= last
    <3> SUFFICES ASSUME NEW d \in F PROVE d <= last
      OBVIOUS
    <3>1. PICK i \in DOMAIN found : found[i] = d
      BY <1>1
    <3>2. d \in Int /\ i <= Len(found)
      BY <1>3, <1>5
    <3> QED BY <1>4, <1>5, <2>1, <3>1, <3>2
  <2> HIDE DEF last
  <2>4. \A d \in Documents : view[d] \in Scores => d \in F
    BY LeagueAssumption DEF Found
  <2>5. Played(view, last) = Played(view, Users)
    BY <1>3, <2>2, <2>3, <2>4, LeagueAssumption DEF Played, Documents
  <2>6. Better(view, last) = Better(view, Users)
    BY <2>5 DEF Better
  <2>7. Ranking(view, last) = Ranking(view, Users)
    BY <2>5, <2>6 DEF Ranking
  <2>8. lists[Len(found)] = Ranking(view, last)
    BY <1>2, <2>1 DEF last
  <2> QED BY <1>1, <1>5, <1>7, <2>1, <2>7, <2>8
<1> QED BY <1>7, <1>8 DEF lists
=============================================================================
