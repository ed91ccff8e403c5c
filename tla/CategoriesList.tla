---------------------------- MODULE CategoriesList ----------------------------
(***************************************************************************)
(* One visit to the list of categories: the results loaded into its        *)
(* elements by index two seconds after it opens, the refresh that empties  *)
(* it, and the detail screen that opens two seconds after a tap for the    *)
(* row that is selected by then.  What a row shows is in CloudProfile.     *)
(***************************************************************************)
EXTENDS Integers

CONSTANTS
    Categories,     \* QuizCategories.categories
    MaxRefreshes,   \* bound: refreshes whose results are not loaded yet
    None, Blank     \* no row or screen; a detail screen without its category

ASSUME CategoriesAssumption ==
    MaxRefreshes \in Nat /\ None \notin Categories /\ Blank \notin Categories

VARIABLES
    listed,         \* quizcategories is not empty
    emptying,       \* blocks of refresh that empty it
    loading,        \* blocks of ShowLoading that load the results
    results,        \* results asked for and not answered, by category
    stale,          \* the table is going to be reloaded
    selected,       \* the row that is selected
    segues,         \* the detail screen is going to open
    detail,         \* the category of the detail screen
    listCrashed,    \* the application ended with an index out of range
    \* history
    tapped,         \* the row tapped last
    swept,          \* the table was reloaded since
    overtaken       \* the list was emptied while results were on the way

loadVars == <<listed, emptying, loading, results, overtaken>>
rowVars == <<stale, selected, segues, detail, tapped, swept>>
categoriesVars == <<loadVars, rowVars, listCrashed>>

\* viewDidLoad
CategoriesInit ==
    /\ listed = TRUE /\ emptying = 0 /\ loading = 1 /\ results = [c \in Categories |-> 0]
    /\ stale = TRUE /\ selected = None /\ segues = 0 /\ detail = None /\ listCrashed = FALSE
    /\ tapped = None /\ swept = FALSE /\ overtaken = FALSE

OnTheWay == \E c \in Categories : results[c] > 0

\* Bound: MaxRefreshes.
refresh ==
    /\ ~listCrashed /\ detail = None /\ loading <= MaxRefreshes
    /\ emptying' = emptying + 1 /\ loading' = loading + 1
    /\ UNCHANGED <<listed, results, overtaken, rowVars, listCrashed>>

\* The table is reloaded at once, and again by the observer of the list.
reloadData == selected' = None /\ swept' = TRUE

Empty ==
    /\ ~listCrashed /\ emptying > 0 /\ emptying' = emptying - 1
    /\ listed' = FALSE /\ reloadData /\ stale' = TRUE
    /\ overtaken' = (overtaken \/ OnTheWay)
    /\ UNCHANGED <<loading, results, segues, detail, tapped, listCrashed>>

Reload ==
    /\ ~listCrashed /\ stale /\ stale' = FALSE /\ reloadData
    /\ UNCHANGED <<loadVars, segues, detail, tapped, listCrashed>>

\* Mutant of LoadCategoriesResults: every category is asked for, whatever is listed.
LoadAllResults ==
    /\ ~listCrashed /\ loading > emptying /\ loading' = loading - 1
    /\ results' = [c \in Categories |-> results[c] + 1]
    /\ UNCHANGED <<listed, emptying, overtaken, rowVars, listCrashed>>

\* A refresh empties the list long before it loads; an emptied list asks for
\* nothing.
LoadCategoriesResults ==
    /\ ~listCrashed /\ loading > emptying /\ loading' = loading - 1
    /\ results' = [c \in Categories |-> IF listed THEN results[c] + 1 ELSE results[c]]
    /\ UNCHANGED <<listed, emptying, overtaken, rowVars, listCrashed>>

\* The completion of LoadQuizCategoriesData; it is not called for an error or
\* for a document without the record.
configure(c) ==
    /\ ~listCrashed /\ results[c] > 0 /\ results' = [results EXCEPT ![c] = @ - 1]
    /\ \/ UNCHANGED <<stale, listCrashed>>
       \/ listed /\ stale' = TRUE /\ UNCHANGED listCrashed
       \/ ~listed /\ listCrashed' = TRUE /\ UNCHANGED stale
    /\ UNCHANGED <<listed, emptying, loading, overtaken, selected, segues, detail, tapped, swept>>

\* Mutant of didSelectRow: the row is deselected again.
didSelectRowOnce(c) ==
    /\ ~listCrashed /\ listed /\ detail = None /\ segues < 2
    /\ selected' = None /\ segues' = segues + 1 /\ tapped' = c /\ swept' = FALSE
    /\ UNCHANGED <<loadVars, stale, detail, listCrashed>>

\* Bound: two taps are followed at once.
didSelectRow(c) ==
    /\ ~listCrashed /\ listed /\ detail = None /\ segues < 2
    /\ selected' = c /\ segues' = segues + 1 /\ tapped' = c /\ swept' = FALSE
    /\ UNCHANGED <<loadVars, stale, detail, listCrashed>>

\* showCategoryDetail and prepare: the row is the one selected by now, and a
\* screen is presented only where none is.
prepare ==
    /\ ~listCrashed /\ segues > 0 /\ segues' = segues - 1
    /\ \/ selected # None /\ ~listed /\ listCrashed' = TRUE /\ UNCHANGED detail
       \/ /\ selected = None \/ listed
          /\ detail' = IF detail # None THEN detail
                       ELSE IF selected = None THEN Blank ELSE selected
          /\ UNCHANGED listCrashed
    /\ UNCHANGED <<loadVars, stale, selected, tapped, swept>>

dismiss ==
    /\ ~listCrashed /\ detail # None /\ detail' = None
    /\ UNCHANGED <<loadVars, stale, selected, segues, tapped, swept, listCrashed>>

CategoriesNext ==
    \/ refresh \/ Empty \/ Reload \/ LoadCategoriesResults \/ prepare \/ dismiss
    \/ \E c \in Categories : configure(c) \/ didSelectRow(c)

CategoriesTypeOK ==
    /\ listed \in BOOLEAN /\ emptying \in Nat /\ loading \in Nat
    /\ results \in [Categories -> Nat]
    /\ stale \in BOOLEAN /\ selected \in Categories \cup {None} /\ segues \in Nat
    /\ detail \in Categories \cup {None, Blank} /\ listCrashed \in BOOLEAN
    /\ tapped \in Categories \cup {None} /\ swept \in BOOLEAN /\ overtaken \in BOOLEAN

\* An index of the list is out of range only if a refresh emptied it while
\* results were on the way: a row that is selected is listed, and an emptied
\* list asks for nothing.
OverrunNeedsRefresh ==
    [][listCrashed' /\ ~listCrashed => overtaken]_categoriesVars

\* The detail screen opens for the category tapped last; it opens without any
\* only if the table was reloaded in the two seconds since.
DetailOfTapped ==
    [][detail' # detail /\ detail' # None =>
           detail' = tapped \/ (detail' = Blank /\ swept)]_categoriesVars
=============================================================================
