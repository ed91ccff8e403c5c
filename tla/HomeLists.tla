------------------------------ MODULE HomeLists -------------------------------
(***************************************************************************)
(* The lists of the home screen.  They share the main queue and nothing    *)
(* else, so that each is looked at alone: a behaviour visits one of them.  *)
(***************************************************************************)
EXTENDS CategoriesList, PlayersLeague, NewsFeed

VARIABLE visited    \* "categories", "league" or "news"

listVisits == <<visited, categoriesVars, leagueVars, newsVars>>

Init ==
    /\ visited \in {"categories", "league", "news"}
    /\ CategoriesInit /\ NewsInit
    /\ LeagueInit /\ (visited # "league" => \A d \in Documents : cloud[d] = Absent)

VisitCategories ==
    visited = "categories" /\ CategoriesNext /\ UNCHANGED <<visited, leagueVars, newsVars>>

VisitLeague ==
    visited = "league" /\ LeagueNext /\ UNCHANGED <<visited, categoriesVars, newsVars>>

VisitNews ==
    visited = "news" /\ NewsNext /\ UNCHANGED <<visited, categoriesVars, leagueVars>>

Next == VisitCategories \/ VisitLeague \/ VisitNews

Spec == Init /\ [][Next]_listVisits

\* Every list keeps its type; no request is answered more often than asked.
TypeOK == CategoriesTypeOK /\ LeagueTypeOK /\ NewsTypeOK
=============================================================================
