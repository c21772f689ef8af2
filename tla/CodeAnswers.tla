----------------------------- MODULE CodeAnswers -----------------------------
(***************************************************************************)
(* How an answer of code intelligence is put together (agent               *)
(* code_intelligence/manager.py _execute_ready, _context and _verified,    *)
(* lsp_provider.py, cbm_provider.py and graph_provider.py): the columns of *)
(* locations, the symbols of several servers, the provider that answers,   *)
(* and what the answer says of its own completeness.                       *)
(***************************************************************************)
EXTENDS Integers, Sequences, FiniteSets, SequencesExt

CONSTANTS
    MaxManifests,       \* manifests of a summary (128 in the code)
    MaxBuildRoots       \* build roots of a summary (32 in the code)

ASSUME SummaryAssumption == {MaxManifests, MaxBuildRoots} \subseteq Nat \ {0}

-----------------------------------------------------------------------------
(* Columns.  A line is a sequence of characters; the public column counts  *)
(* characters from 1, the server counts UTF-16 code units from 0.          *)

Invalid == -1
Units(ch) == IF ch = "astral" THEN 2 ELSE 1

\* The code units before each character, and before the end of the line.
Offsets(line) ==
    LET upto[k \in 0 .. Len(line)] == IF k = 0 THEN 0 ELSE upto[k - 1] + Units(line[k]) IN upto

\* unicode_scalar_to_utf16_offset
ToUtf16(line, col) ==
    IF col < 1 \/ col > Len(line) + 1 THEN Invalid ELSE Offsets(line)[col - 1]

\* utf16_offset_to_unicode_scalar: no column is inside of a character.
ToScalar(line, offset) ==
    LET fits == {k \in 0 .. Len(line) : Offsets(line)[k] = offset}
    IN  IF fits = {} THEN Invalid ELSE 1 + CHOOSE k \in fits : TRUE

-----------------------------------------------------------------------------
(* Symbols of the workspace.                                               *)

\* One server: its symbols that are in the project, up to the limit.
ServerSymbols(raw, limit) ==
    [symbols |-> SubSeq(raw, 1, IF Len(raw) < limit THEN Len(raw) ELSE limit),
     total |-> Len(raw), truncated |-> Len(raw) > limit]

Once(seq) == SelectSeq([i \in DOMAIN seq |-> <<i, seq[i]>>],
                       LAMBDA p : \A j \in 1 .. p[1] - 1 : seq[j] # p[2])

\* All servers: a symbol that two of them know counts once.
Overflow(known, limit) == Len(known) > limit
MergeSymbols(answers, limit) ==
    LET known == Once(FlattenSeq([i \in DOMAIN answers |-> answers[i].symbols]))
    IN  [symbols |-> {known[i][2] : i \in {j \in DOMAIN known : j <= limit}},
         truncated |-> \/ \E i \in DOMAIN answers : answers[i].truncated
                       \/ Overflow(known, limit)]

-----------------------------------------------------------------------------
(* The provider of an answer.  A case is a record of what the call found:  *)
(*   op         the operation                                              *)
(*   server     a server for the language that can do the operation        *)
(*   graph      the graph is ready                                         *)
(*   empty      the server returned nothing                                *)
(*   external   it returned locations outside of the project               *)
(*   loading    it was still analysing at the end of the wait              *)
(*   more       there are more results than the limit                      *)
(*   state      of diagnostics                                             *)

Answered(provider, precision, warned, truncated, state) ==
    [provider |-> provider, precision |-> precision, warned |-> warned,
     truncated |-> truncated, state |-> state]

\* _normalize_lsp_locations warns of what it leaves out; definition and hover do
\* not wait for the analysis.
Warned(case) ==
    CASE case.op = "definition" -> case.external
      [] case.op = "hover" -> FALSE
      [] case.op = "diagnostics" -> case.loading \/ case.state # "ready"
      [] OTHER -> case.external \/ case.loading

FromServer(case) ==
    Answered("lsp", "exact", Warned(case),
             case.more /\ case.op \notin {"definition", "hover"},
             IF case.op = "diagnostics" THEN case.state ELSE "none")
FromGraph(case) == Answered("graph", "structural", TRUE, case.more, "none")
FromNobody(case) ==
    IF case.op \in {"dependencies", "related_tests", "architecture"}
    THEN Answered("manifest", "structural", case.op = "architecture", case.more, "none")
    ELSE Answered("none", "unavailable", TRUE, FALSE, IF case.op = "diagnostics" THEN "unavailable" ELSE "none")

GraphOnly == {"impact", "dependencies", "related_tests", "architecture"}

\* _execute_ready.  References that the server does not find are looked for in
\* the graph.
ExecuteReady(case) ==
    CASE case.op \in GraphOnly -> IF case.graph THEN FromGraph(case) ELSE FromNobody(case)
      [] case.op = "diagnostics" -> IF case.server THEN FromServer(case) ELSE FromNobody(case)
      [] case.op = "references" /\ case.server /\ case.empty ->
             IF case.graph THEN FromGraph(case)
             ELSE [FromServer(case) EXCEPT !.warned = TRUE]
      [] OTHER -> IF case.server THEN FromServer(case)
                  ELSE IF case.graph THEN FromGraph(case) ELSE FromNobody(case)

\* _verified, after the files were found to be the same: what the answer says of
\* its freshness and completeness.
Verified(case, result) ==
    [freshness |-> IF case.op = "diagnostics" /\ result.state # "ready" THEN "unknown" ELSE "verified",
     complete |->
         CASE case.op \in {"definition", "hover"} -> result.precision = "exact" /\ ~result.warned
           [] case.op = "diagnostics" ->
                  /\ result.state = "ready" /\ result.precision = "exact"
                  /\ ~result.truncated /\ ~result.warned
           [] OTHER -> FALSE]

\* _context: the sections of definition, hover, references and diagnostics, each
\* from the server or else from the graph, are judged one by one.
ContextSections == {"definition", "hover", "references", "diagnostics"}
Context(case) ==
    [op \in ContextSections |->
        LET part == [case EXCEPT !.op = op]
        IN  IF case.server THEN FromServer(part)
            ELSE IF case.graph /\ op # "diagnostics" THEN FromGraph(part)
            ELSE Answered("none", "unavailable", FALSE, FALSE, "none")]

-----------------------------------------------------------------------------
(* The summary of a workspace, from the directories of its manifests; 0 is *)
(* the top directory.                                                      *)

\* A build root is the directory of a manifest, at the top the manifest itself.
BuildRoots(manifests) ==
    {IF manifests[i] = 0 THEN <<"manifest", i>> ELSE <<"directory", manifests[i]>> : i \in DOMAIN manifests}

UpTo(seq, limit) == SubSeq(seq, 1, IF Len(seq) < limit THEN Len(seq) ELSE limit)

\* build_workspace_summary cuts both lists; _verified counts the manifests that
\* are left.
Summary(manifests) ==
    LET kept == UpTo(manifests, MaxManifests)
    IN  [manifests |-> kept, roots |-> ToSet(UpTo(SetToSeq(BuildRoots(manifests)), MaxBuildRoots)),
         complete |-> Len(kept) < MaxManifests]

-----------------------------------------------------------------------------
\* A public column becomes the number of code units before it and comes back as
\* the same column; every other offset of the server is refused, so that no
\* location points into the middle of a character.
ColumnsAgree(line) ==
    /\ \A col \in 0 .. Len(line) + 2 :
        LET offset == ToUtf16(line, col)
        IN  IF col \in 1 .. Len(line) + 1
            THEN /\ offset = Cardinality({<<i, u>> \in (1 .. Len(line)) \X (1 .. 2) :
                                              i < col /\ u <= Units(line[i])})
                 /\ ToScalar(line, offset) = col
            ELSE offset = Invalid
    /\ \A offset \in -1 .. 2 * Len(line) + 1 :
        ToScalar(line, offset) # Invalid => ToUtf16(line, ToScalar(line, offset)) = offset

\* Symbols that several servers found are within the limit, and all there if the
\* answer does not say that it is truncated.
SymbolsWhole(raws, limit) ==
    LET merged == MergeSymbols([i \in DOMAIN raws |-> ServerSymbols(raws[i], limit)], limit)
        all == UNION {ToSet(raws[i]) : i \in DOMAIN raws}
    IN  /\ Cardinality(merged.symbols) <= limit /\ merged.symbols \subseteq all
        /\ ~merged.truncated => merged.symbols = all

\* A summary that says it is complete has every manifest, also when there are as
\* many as the limit, and its build roots are all those of the manifests unless
\* they are more than their own limit, of which complete says nothing.
SummaryWhole(manifests) ==
    LET summary == Summary(manifests)
    IN  summary.complete =>
            /\ summary.manifests = manifests
            /\ summary.roots \subseteq BuildRoots(manifests)
            /\ \/ summary.roots = BuildRoots(manifests)
               \/ Cardinality(summary.roots) = MaxBuildRoots

\* Only definitions, hovers and diagnostics say that they are complete, and such
\* an answer is the server's; a definition has no target outside of the project,
\* diagnostics are within the limit and of an analysis that ended.  The same
\* holds for each section of a context.
CompleteIsWhole(case) ==
    LET Honest(c, result) ==
            Verified(c, result).complete =>
                /\ c.op \in {"definition", "hover", "diagnostics"}
                /\ result.provider = "lsp" /\ c.server
                /\ c.op = "definition" => ~c.external
                /\ c.op = "diagnostics" => c.state = "ready" /\ ~c.loading /\ ~c.more
    IN  IF case.op # "context" THEN Honest(case, ExecuteReady(case))
        ELSE \A op \in ContextSections : Honest([case EXCEPT !.op = op], Context(case)[op])
=============================================================================
