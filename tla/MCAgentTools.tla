---------------------------- MODULE MCAgentTools -----------------------------
(***************************************************************************)
(* The tools that read and operate on the user's screen, code and files,   *)
(* side by side: each behaviour is of one of them.  They share no state.   *)
(*   code    CodeQueries: the snapshots and providers of one project       *)
(*   server  LspSession: one language server                               *)
(*   walk    CodeWalks: the bounded searches                               *)
(*   file    ReadPages: a read of a file, page by page                     *)
(*   search  ReadPages: a search of a tree, page by page                   *)
(*   output  ShellOutput: the output of one shell job                      *)
(*   sample  SemanticElements and CodeAnswers: algorithms, one input each  *)
(***************************************************************************)
EXTENDS SemanticElements, CodeQueries, LspSession, CodeWalks, CodeAnswers,
        ReadPages, ShellOutput

VARIABLES part, sample

toolVars == <<codeVars, sessionVars, walk, readVars, outputVars, part, sample>>

MCPairs == {<<1, 2>>, <<2, 1>>, <<1, 3>>, <<3, 1>>, <<2, 3>>, <<3, 2>>, <<1, 4>>, <<4, 1>>, <<2, 4>>, <<4, 2>>}

MCTexts == {<<<<1, 2, 1>>, <<1>>, <<2, 1>>>>, <<<<2, 1>>, <<1, 1, 1, 1>>>>, <<>>}

File(size, lines) == [size |-> size, lines |-> lines]
MCTrees ==
    {<<>>,
     <<File(9, <<"no">>)>>,
     <<File(3, <<"no">>), File(1, <<>>), File(3, <<"literal", "no", "match">>)>>,
     <<File(2, <<"match", "no", "match">>), File(9, <<"match">>), File(2, <<"no">>),
       File(3, <<"literal", "match">>), File(1, <<"match">>)>>}

-----------------------------------------------------------------------------
(* Samples.                                                                *)

NoSample == [of |-> "none"]

NodeKinds == {<<"button", <<3, 2>>>>, <<"div", <<1, 9>>>>, <<"button", <<0, 2>>>>,
              <<"script", <<3, 1>>>>, <<"#text", <<3, 1>>>>}
Parents == {f \in [2 .. 4 -> 1 .. 3] : \A i \in 2 .. 4 : f[i] < i}
Node(parent, kind) ==
    [parent |-> parent, tag |-> kind[1], box |-> kind[2], hidden |-> FALSE, role |-> "", source |-> FALSE]
Documents ==
    {[nodes |-> [i \in 1 .. 4 |-> IF i = 1 THEN Node(0, <<"div", <<2, 4>>>>) ELSE Node(f[i], k[i])],
      scroll |-> 2, view |-> 4] : f \in Parents, k \in [2 .. 4 -> NodeKinds]}

Lines == UNION {[1 .. n -> {"plain", "astral"}] : n \in 0 .. 4}
Manifests == UNION {[1 .. n -> 0 .. 3] : n \in 0 .. 5}
Raws == {<<>>, <<1>>, <<1, 2>>, <<2, 1, 3>>, <<3, 4>>}
Cases ==
    [op : GraphOnly \cup ContextSections \cup {"implementations", "context"},
     server : BOOLEAN, graph : BOOLEAN, empty : BOOLEAN, external : BOOLEAN, loading : BOOLEAN,
     more : BOOLEAN, state : {"ready", "pending", "partial", "stale"}]

PickSample ==
    /\ sample = NoSample
    /\ \/ \E doc \in Documents : \E limit \in 1 .. 3 : sample' = [of |-> "page", doc |-> doc, limit |-> limit]
       \/ \E line \in Lines : sample' = [of |-> "line", line |-> line]
       \/ \E a, b \in Raws : \E limit \in 1 .. 3 : sample' = [of |-> "symbols", raws |-> <<a, b>>, limit |-> limit]
       \/ \E case \in Cases : sample' = [of |-> "case", case |-> case]
       \/ \E manifests \in Manifests : sample' = [of |-> "summary", manifests |-> manifests]

-----------------------------------------------------------------------------
\* No read and no search, while another part moves.
Nothing == [at |-> "none"]

Init ==
    /\ part \in {"code", "server", "walk", "file", "search", "output", "sample"} /\ sample = NoSample
    /\ CodeInit /\ SessionInit /\ WalkInit /\ OutputInit
    /\ IF part = "file" THEN ReadInit ELSE reader = Nothing
    /\ IF part = "search" THEN SearchInit ELSE search = Nothing

Next ==
    /\ UNCHANGED part
    /\ \/ /\ part = "code" /\ CodeNext
          /\ UNCHANGED <<sessionVars, walk, readVars, outputVars, sample>>
       \/ /\ part = "server" /\ SessionNext
          /\ UNCHANGED <<codeVars, walk, readVars, outputVars, sample>>
       \/ /\ part = "walk" /\ WalkNext
          /\ UNCHANGED <<codeVars, sessionVars, readVars, outputVars, sample>>
       \/ /\ part = "file" /\ ReadPage
          /\ UNCHANGED <<codeVars, sessionVars, walk, outputVars, sample>>
       \/ /\ part = "search" /\ SearchPage
          /\ UNCHANGED <<codeVars, sessionVars, walk, outputVars, sample>>
       \/ /\ part = "output" /\ OutputNext
          /\ UNCHANGED <<codeVars, sessionVars, walk, readVars, sample>>
       \/ /\ part = "sample" /\ PickSample
          /\ UNCHANGED <<codeVars, sessionVars, walk, readVars, outputVars>>

Spec == Init /\ [][Next]_toolVars

\* The elements of a page that are returned are the useful ones first, with the
\* ancestors that give them their place, up to the limit, and the answer says if
\* some were left out (frontend_playwright.py, _semantic_elements).
ElementsPreferred == sample.of = "page" => Preferred(sample.doc, sample.limit)

\* Columns survive the way to the language server and back (lsp_provider.py).
ColumnsRoundTrip == sample.of = "line" => ColumnsAgree(sample.line)

\* Symbols of several servers are merged without loss (manager.py, _execute_ready).
SymbolsMerged == sample.of = "symbols" => SymbolsWhole(sample.raws, sample.limit)

\* Definitions, hovers, diagnostics and summaries claim to be complete only under
\* the conditions of CompleteIsWhole and SummaryWhole (manager.py, _verified).
AnswersHonest ==
    /\ sample.of = "case" => CompleteIsWhole(sample.case)
    /\ sample.of = "summary" => SummaryWhole(sample.manifests)

\* What answers that are cut or converted promise (frontend_playwright.py,
\* cbm_provider.py, lsp_provider.py, manager.py): the elements of a page are the
\* useful ones; results of walks are sound, and whole when they are not called
\* truncated in the cases that NothingLeftOut lists, which are those the code
\* covers and not all; columns survive both encodings; symbols of several servers
\* are merged whole; and a claim of completeness means what AnswersHonest says,
\* which leaves out the build roots beyond their limit.
AnswersSound ==
    ElementsPreferred /\ WalkSound /\ NothingLeftOut /\ ColumnsRoundTrip /\ SymbolsMerged /\ AnswersHonest
=============================================================================
