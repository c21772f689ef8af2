---------------------------- MODULE ProjectPages ----------------------------
(***************************************************************************)
(* The pages of the project list (dispatch.py, _list_projects): ordered by *)
(* id, continued after the last id of the page, while HELLO messages make  *)
(* projects available and unavailable in between.                          *)
(*   shown    the pages so far, each the set of its ids                    *)
(*   after    the id in the cursor (0 before the first page)               *)
(*   more     the last page came with a cursor                             *)
(*   there    the available ids                                            *)
(*   always   history: ids that were available all the time                *)
(***************************************************************************)
EXTENDS Naturals, Sequences, FiniteSets

CONSTANTS
    NProjects,    \* project ids are numbered in their order
    PageLimits,   \* limits a caller may ask for
    MaxFlips      \* bound: projects that come or go

ASSUME ListAssumption == {NProjects, MaxFlips} \subseteq Nat /\ PageLimits \subseteq Nat \ {0}

VARIABLES shown, after, more, there, always, flips

pageListVars == <<shown, after, more, there, always, flips>>

Ids == 1 .. NProjects

ListInit ==
    /\ shown = <<>> /\ after = 0 /\ more = TRUE /\ flips = 0
    /\ there \in SUBSET Ids /\ always = there

Following == {i \in there : i > after}
Rank(i) == Cardinality({j \in Following : j < i})

\* page[:limit] of the rows in the order of their ids.
Page(limit) == {i \in Following : Rank(i) < limit}

\* The id of page[limit - 1].
Cursor(limit) == CHOOSE i \in Page(limit) : \A j \in Page(limit) : j <= i

ListProjects(limit) ==
    /\ more
    /\ more' = (Cardinality(Following) > limit)
    /\ shown' = Append(shown, Page(limit))
    /\ after' = IF more' THEN Cursor(limit) ELSE after
    /\ UNCHANGED <<there, always, flips>>

CatalogueFlips ==
    /\ flips < MaxFlips /\ flips' = flips + 1
    /\ \E i \in Ids : /\ there' = IF i \in there THEN there \ {i} ELSE there \cup {i}
                      /\ always' = always \ {i}
    /\ UNCHANGED <<shown, after, more>>

ListNext == (\E limit \in PageLimits : ListProjects(limit)) \/ CatalogueFlips

\* However the catalogue changes between the pages, no project is listed twice, the
\* pages are in the order of the ids, and a project that was there all along is not
\* left out (_list_projects).
EachListedOnce ==
    /\ \A i, j \in DOMAIN shown : i < j => \A a \in shown[i] : \A b \in shown[j] : a < b
    /\ ~more => \A i \in always : \E k \in DOMAIN shown : i \in shown[k]
=============================================================================
