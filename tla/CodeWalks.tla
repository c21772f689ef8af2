------------------------------ MODULE CodeWalks ------------------------------
(***************************************************************************)
(* The bounded searches of code intelligence: call and type hierarchies    *)
(* from the language server (lsp_provider.py, walk) and from the graph     *)
(* (cbm_provider.py, _walk), and the files that depend on a file or that   *)
(* it depends on (impact, dependencies).  Each asks its provider once per  *)
(* symbol, or per level, has limits on depth, results and requests, and    *)
(* says of most of what it leaves out that the answer is truncated.  Nodes *)
(* outside of the project are not returned.                                *)
(***************************************************************************)
EXTENDS Integers, Sequences, FiniteSets, SequencesExt

CONSTANTS
    Nodes, External,    \* symbols or files, numbers; those outside of the project
    Pairs2,             \* the pairs that edges are taken from
    Limits,             \* limits that requests ask for (max_nodes)
    MaxRequests,        \* requests of one walk in the graph (24 in the code)
    MaxLevels,          \* levels of impact and dependencies (4 in the code)
    Declared            \* numbers of dependencies that manifests declare

Root == 1
NoWalk == [pc |-> "none"]

ASSUME WalkAssumption ==
    /\ Root \in Nodes \ External /\ External \subseteq Nodes /\ Nodes \subseteq Nat
    /\ Pairs2 \subseteq Nodes \X Nodes /\ Limits \cup Declared \subseteq Nat
    /\ {MaxRequests, MaxLevels} \subseteq Nat \ {0}

VARIABLE walk

Hierarchies == {"lsp", "graph"}
WalkInit == walk = NoWalk

\* What the provider answers for a node: it is in no particular order, but the
\* same each time.
Neighbors(dir, n) ==
    SetToSortSeq({m \in Nodes : IF dir = "out" THEN <<n, m>> \in walk.edges ELSE <<m, n>> \in walk.edges}, <)
\* The graph keeps an edge under one of the labels of the request.
Label(n, m) == ((n + m) % 2) + 1
Labels == 2

Known(n) == n \notin External
Found(dir) == {r \in walk.found : r.dir = dir}
Count == Cardinality(walk.found)

BeginHierarchy(kind, edges, dirs, depth, limit) ==
    walk' = [pc |-> kind, kind |-> kind, edges |-> edges, dirs |-> dirs, depth |-> depth,
             limit |-> limit, queue |-> <<<<Root, 0>>>>, seen |-> {Root}, found |-> {},
             trunc |-> FALSE, label |-> 1, requests |-> 0, asked |-> ToSet(dirs)]

\* Impact is of one file.
BeginImpact(edges, limit) ==
    walk' = [pc |-> "impact", kind |-> "impact", edges |-> edges, dirs |-> <<"in">>,
             depth |-> MaxLevels, limit |-> limit, level |-> 0, frontier |-> {Root},
             seen |-> {Root}, found |-> {}, trunc |-> FALSE, skip |-> FALSE]

\* Dependencies are of a file, of the files of a directory, or of no file but the
\* project; with them come those that manifests declare, which are direct ones.
BeginDependencies(edges, limit, roots, direction, declared) ==
    walk' = [pc |-> "dependencies", kind |-> "dependencies", edges |-> edges, dirs |-> <<"out">>,
             depth |-> IF direction = "direct" THEN 1 ELSE MaxLevels, limit |-> limit, level |-> 0,
             frontier |-> roots, seen |-> roots, roots |-> roots, found |-> {},
             skip |-> direction = "transitive",
             declared |-> IF direction = "transitive" THEN 0 ELSE declared, listed |-> 0,
             trunc |-> direction # "transitive" /\ declared > limit]

-----------------------------------------------------------------------------
(* Hierarchies.                                                            *)

Dir == Head(walk.dirs)
Current == Head(walk.queue)
Rest == Tail(walk.queue)
Fresh2(n) == n \notin walk.seen /\ Known(n)

\* The nodes of an answer that are new, as far as there is room for them.
Taken(answer, room) ==
    LET fresh == SelectSeq(answer, Fresh2) IN SubSeq(fresh, 1, IF Len(fresh) < room THEN Len(fresh) ELSE room)
Queued(taken) == [i \in DOMAIN taken |-> <<taken[i], Current[2] + 1>>]
Results(taken) == {[dir |-> Dir, node |-> n, depth |-> Current[2] + 1] : n \in ToSet(taken)}

TooDeep == Current[2] >= walk.depth

\* A node at the depth limit is not asked about.
SkipDeep ==
    /\ walk.pc \in Hierarchies /\ walk.queue # <<>> /\ walk.label = 1 /\ TooDeep
    /\ IF walk.pc = "lsp" THEN Count + 1 < walk.limit
       ELSE Count < walk.limit /\ walk.requests < MaxRequests
    /\ walk' = [walk EXCEPT !.queue = Rest]

\* The server's answers to one request; the root counts as a node.  What has no
\* room makes the answer truncated, and so do nodes that will not be asked.
LeftOutQuietly(queue, total) == FALSE
LeftOut(queue, total) == total >= walk.limit /\ queue # <<>>

LspStep ==
    /\ walk.pc = "lsp" /\ walk.queue # <<>> /\ Count + 1 < walk.limit /\ ~TooDeep
    /\ LET taken == Taken(Neighbors(Dir, Current[1]), walk.limit - (Count + 1))
           queue == Rest \o Queued(taken)
       IN  walk' = [walk EXCEPT !.queue = queue, !.seen = @ \cup ToSet(taken),
                                !.found = @ \cup Results(taken),
                                !.trunc = @ \/ LeftOut(queue, Count + 1 + Len(taken))]

\* The second direction, if there is room left; it may return the same nodes.
LspTurn ==
    /\ walk.pc = "lsp" /\ (walk.queue = <<>> \/ Count + 1 >= walk.limit)
    /\ IF Len(walk.dirs) > 1 /\ Count + 1 < walk.limit
       THEN walk' = [walk EXCEPT !.dirs = Tail(@), !.queue = <<<<Root, 0>>>>, !.seen = {Root}]
       ELSE walk' = [walk EXCEPT !.pc = "done", !.trunc = @ \/ (Last(walk.dirs) = "out" /\ Count + 1 >= walk.limit)]

\* One request for one label.  The graph is asked for one row more than there is
\* room for, before rows that are known or not of the project are dropped.
GraphStep ==
    /\ walk.pc = "graph" /\ walk.queue # <<>> /\ Count < walk.limit /\ walk.requests < MaxRequests
    /\ walk.label > 1 \/ ~TooDeep
    /\ LET room == walk.limit - Count
           labelled == SelectSeq(Neighbors(Dir, Current[1]),
                                 LAMBDA m : Label(Current[1], m) = walk.label)
           rows == SubSeq(labelled, 1, IF Len(labelled) < room + 1 THEN Len(labelled) ELSE room + 1)
           taken == Taken(rows, room)
           full == Len(taken) = room \/ walk.requests + 1 = MaxRequests
           next == IF full \/ walk.label = Labels THEN Rest ELSE walk.queue
       IN  walk' = [walk EXCEPT !.queue = next \o Queued(taken), !.seen = @ \cup ToSet(taken),
                                !.found = @ \cup Results(taken),
                                !.trunc = @ \/ Len(SelectSeq(rows, Fresh2)) > room,
                                !.label = IF full \/ @ = Labels THEN 1 ELSE @ + 1,
                                !.requests = @ + 1]

\* The next direction has its own requests.
GraphTurn ==
    /\ walk.pc = "graph"
    /\ walk.queue = <<>> \/ Count >= walk.limit \/ walk.requests >= MaxRequests
    /\ LET trunc == walk.trunc \/ (walk.queue # <<>> /\ walk.requests >= MaxRequests)
       IN  IF Len(walk.dirs) > 1
           THEN walk' = [walk EXCEPT !.dirs = Tail(@), !.queue = <<<<Root, 0>>>>, !.seen = {Root},
                                     !.requests = 0, !.trunc = trunc]
           ELSE walk' = [walk EXCEPT !.pc = "done", !.trunc = trunc]

-----------------------------------------------------------------------------
(* Impact and dependencies: level by level.                                *)

\* _file_neighbors: the files next to a set of files, at most limit of them.
FileNeighbors ==
    {m \in Nodes \ (walk.frontier \cup External) : \E n \in walk.frontier : m \in ToSet(Neighbors(Dir, n))}
FirstOf(S, k) ==
    LET sorted == SetToSortSeq(S, <) IN ToSet(SubSeq(sorted, 1, IF Len(sorted) < k THEN Len(sorted) ELSE k))

\* The end of impact: the levels may have been too few.  The last level of
\* dependencies is not said to be the last.
LevelsShort(frontier, level) == walk.pc = "impact" /\ frontier # {} /\ level = MaxLevels

\* One level: its new files, what is found with them (transitive dependencies
\* leave out the first level), and whether it is the last one.
Level == walk.level + 1
Frontier == FirstOf(FileNeighbors, walk.limit) \ walk.seen
FoundNow ==
    walk.found \cup {[dir |-> Dir, node |-> n, depth |-> Level] :
                         n \in {m \in Frontier : ~walk.skip \/ Level > 1}}
LastLevel == Frontier = {} \/ Cardinality(FoundNow) >= walk.limit \/ Level = walk.depth
\* The items are in the order of level and name.
FirstFound ==
    {r \in FoundNow : Cardinality({q \in FoundNow : q.depth < r.depth \/
                          (q.depth = r.depth /\ q.node < r.node)}) < walk.limit}

NextLevel ==
    walk' = [walk EXCEPT !.frontier = Frontier, !.seen = @ \cup Frontier, !.level = Level,
                         !.found = IF LastLevel THEN FirstFound ELSE FoundNow,
                         !.trunc = \/ @ \/ Cardinality(FileNeighbors) > walk.limit
                                   \/ LastLevel /\ Cardinality(FoundNow) > walk.limit
                                   \/ LevelsShort(Frontier, Level),
                         !.pc = IF LastLevel THEN "listing" ELSE @]

ImpactStep == walk.pc = "impact" /\ NextLevel
DependenciesStep == walk.pc = "dependencies" /\ NextLevel

\* The end: declared dependencies fill what room the files leave, and those that
\* find none are dropped without a word.
Listing ==
    /\ walk.pc = "listing"
    /\ walk' = IF walk.kind = "impact" THEN [walk EXCEPT !.pc = "done"]
               ELSE LET room == walk.limit - Count
                    IN  [walk EXCEPT !.pc = "done",
                                     !.listed = IF walk.declared < room THEN walk.declared ELSE room]

Begin ==
    /\ walk = NoWalk
    /\ \E edges \in SUBSET Pairs2 : \E limit \in Limits :
           \/ \E kind \in Hierarchies : \E dirs \in {<<"in">>, <<"out">>, <<"in", "out">>} :
                  \E depth \in 1 .. 2 : BeginHierarchy(kind, edges, dirs, depth, limit)
           \/ BeginImpact(edges, limit)
           \/ \E roots \in {{}, {Root}, {Root, 2}} : \E direction \in {"direct", "transitive", "all"} :
                  \E declared \in Declared : BeginDependencies(edges, limit, roots, direction, declared)

WalkNext ==
    \/ Begin \/ SkipDeep \/ LspStep \/ LspTurn \/ GraphStep \/ GraphTurn
    \/ ImpactStep \/ DependenciesStep \/ Listing

-----------------------------------------------------------------------------
Roots == IF walk.kind = "dependencies" THEN walk.roots ELSE {Root}

\* The nodes of the project at a distance of exactly k steps from the roots, and
\* those that k or fewer steps reach, along known nodes.
AtDistance(dir, k) ==
    LET reach[i \in 0 .. k] ==
            IF i = 0 THEN Roots
            ELSE reach[i - 1] \cup {m \in Nodes \ External :
                     \E n \in reach[i - 1] : m \in ToSet(Neighbors(dir, n))}
    IN  IF k = 0 THEN Roots ELSE reach[k] \ reach[k - 1]
Depths(dir, k) ==
    UNION {{[dir |-> dir, node |-> n, depth |-> d] : n \in AtDistance(dir, d)} : d \in 1 .. k}

\* Every result is a node of the project other than the roots, listed once for a
\* direction, that a path of its depth leads to, within the limits of the
\* request, whatever cycles there are and wherever the search was cut.
WalkSound ==
    walk.pc = "done" =>
        /\ Count + (IF walk.kind = "dependencies" THEN walk.listed ELSE 0) <= walk.limit
        /\ \A r \in walk.found :
            /\ r.node \notin External \cup Roots /\ r.depth <= walk.depth
            /\ \E d \in 1 .. r.depth : r.node \in AtDistance(r.dir, d)
            /\ \A q \in walk.found : q.dir = r.dir /\ q.node = r.node => q = r

\* What a search that does not say it was truncated still promises.  Call
\* hierarchies of the server return every node within the depth, with its
\* shortest distance, if the request allows more nodes than the root.  Impact
\* with fewer files than the limit returns all dependents.  Dependencies with
\* room left return all files of the first four levels (of the first for direct
\* ones, below it for transitive ones) and all that manifests declare.  There is
\* no promise where the code cuts without saying so: the server's hierarchy of
\* one node, impact and dependencies that fill their limit, dependencies below
\* the fourth level, and all hierarchies of the graph, whose rows are cut before
\* the known ones among them are dropped.
NothingLeftOut ==
    walk.pc = "done" /\ ~walk.trunc =>
        /\ walk.kind = "lsp" /\ walk.limit > 1 => \A dir \in walk.asked : Found(dir) = Depths(dir, walk.depth)
        /\ walk.kind = "impact" /\ Count < walk.limit =>
               walk.found = Depths("in", Cardinality(Nodes))
        /\ walk.kind = "dependencies" /\ Count + walk.listed < walk.limit =>
               /\ walk.found = {r \in Depths("out", walk.depth) : ~walk.skip \/ r.depth > 1}
               /\ walk.listed = walk.declared
=============================================================================
