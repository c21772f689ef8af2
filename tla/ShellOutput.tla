---------------------------- MODULE ShellOutput -----------------------------
(***************************************************************************)
(* The output of one shell job (shell.py): two readers append chunks up to *)
(* the job's limit while a client polls page after page by its cursor.     *)
(* The job ends, is cancelled or times out; its first page goes into the   *)
(* terminal row; later the job itself is dropped from memory.              *)
(*   out    the ShellJob: chunk sizes, bytes kept, output_truncated and    *)
(*          state; reading while the pipes are open; task while _run_job   *)
(*          has not ended; kept while the job is in memory; stored, the    *)
(*          chunks of the terminal row; produced, the bytes read from the  *)
(*          pipes.  "completed" stands for an exit with either code        *)
(*   tail   the client: cursor, sequence numbers got, and how the last     *)
(*          answer ended: "more", "live" or "done", from "row" or "job"    *)
(***************************************************************************)
EXTENDS Naturals, Sequences, FiniteSets, FiniteSetsExt, SequencesExt

CONSTANTS
    ChunkSizes,   \* bytes of one read of a pipe
    OutputLimit,  \* output_limit_bytes
    PageSizes,    \* values of max_output_bytes
    RowPage,      \* the page of the terminal row (256 KiB)
    MaxProduced   \* bound: bytes the process writes

ASSUME OutputAssumption ==
    {OutputLimit, RowPage, MaxProduced} \subseteq Nat /\ ChunkSizes \cup PageSizes \subseteq Nat \ {0}

VARIABLES out, tail

outputVars == <<out, tail>>

Final == {"completed", "failed", "cancelled"}

OutputInit ==
    /\ out = [chunks |-> <<>>, bytes |-> 0, cut |-> FALSE, state |-> "running", reading |-> TRUE,
              task |-> TRUE, kept |-> TRUE, stored |-> <<>>, produced |-> 0]
    /\ tail = [cursor |-> 0, got |-> <<>>, told |-> "live", state |-> "running", by |-> "job"]

Total(chunks) == FoldSeq(LAMBDA x, sum : x + sum, 0, chunks)

AppendOutput(o, size) ==
    LET room == OutputLimit - o.bytes
        keep == IF size < room THEN size ELSE room
    IN IF room = 0 THEN [o EXCEPT !.cut = TRUE]
       ELSE [o EXCEPT !.chunks = Append(@, keep), !.bytes = @ + keep, !.cut = @ \/ keep < size]

\* A page: at least one chunk, then as many as fit.
Page(chunks, cursor, size) ==
    LET start == IF cursor < Len(chunks) THEN cursor ELSE Len(chunks)
        fits == {n \in 1 .. Len(chunks) - start : n = 1 \/ Total(SubSeq(chunks, start + 1, start + n)) <= size}
    IN [i \in 1 .. (IF fits = {} THEN 0 ELSE Max(fits)) |-> start + i]

-----------------------------------------------------------------------------
CaptureOutput(size) ==
    /\ out.reading /\ out.produced + size <= MaxProduced
    /\ out' = [AppendOutput(out, size) EXCEPT !.produced = @ + size]
    /\ UNCHANGED tail

\* The process has ended, or was terminated, and the pipes are empty.
PipesEnd ==
    /\ out.reading
    /\ out' = [out EXCEPT !.reading = FALSE]
    /\ UNCHANGED tail

\* The state is set as soon as the process has exited.
MayCompleteAtExit == TRUE

MayComplete == ~out.reading

Completes ==
    /\ out.task /\ out.state = "running" /\ MayComplete
    /\ out' = [out EXCEPT !.state = "completed"]
    /\ UNCHANGED tail

\* The job is failed as soon as the process is terminated; the readers go on.
TimesOut ==
    /\ out.task /\ out.state = "running"
    /\ out' = [AppendOutput(out, 1) EXCEPT !.state = "failed", !.produced = @ + 1]
    /\ UNCHANGED tail

\* cancel stores a page of its own and does not wait for the readers.
CancelJob ==
    /\ out.task /\ out.state = "running"
    /\ out' = [out EXCEPT !.state = "cancelled", !.stored = SubSeq(out.chunks, 1, Len(Page(out.chunks, 0, RowPage)))]
    /\ UNCHANGED tail

\* The finally clause of _run_job.
FinishJob ==
    /\ out.task /\ out.state \in Final /\ (out.state = "cancelled" \/ ~out.reading)
    /\ out' = [out EXCEPT !.task = FALSE, !.stored = SubSeq(out.chunks, 1, Len(Page(out.chunks, 0, RowPage)))]
    /\ UNCHANGED tail

DropJob ==
    /\ ~out.task /\ out.kept
    /\ out' = [out EXCEPT !.kept = FALSE]
    /\ UNCHANGED tail

-----------------------------------------------------------------------------

NextSequence(chunks, page) == IF page = <<>> THEN tail.cursor ELSE Last(page)

\* The client polls until a terminal answer has no more output.
Poll(size) ==
    /\ tail.told # "done"
    /\ LET chunks == IF out.kept THEN out.chunks ELSE out.stored
           page == Page(chunks, tail.cursor, size)
           next == NextSequence(chunks, page)
       IN tail' = [cursor |-> next, got |-> tail.got \o page, state |-> out.state,
                   told |-> IF next < Len(chunks) THEN "more" ELSE IF out.state \in Final THEN "done" ELSE "live",
                   by |-> IF out.kept THEN "job" ELSE "row"]
    /\ UNCHANGED out

OutputNext ==
    \/ \E size \in ChunkSizes : CaptureOutput(size)
    \/ PipesEnd \/ Completes \/ TimesOut \/ CancelJob \/ FinishJob \/ DropJob
    \/ \E size \in PageSizes : Poll(size)

OutputSpec == OutputInit /\ [][OutputNext]_outputVars

-----------------------------------------------------------------------------
\* However the pages are cut and whoever answers, the client gets the chunks in
\* order, none twice and none skipped (_poll_result, _page_durable_result).
TailInOrder == \A i \in DOMAIN tail.got : tail.got[i] = i

\* When the answer for a completed job says there is no more, the client has the
\* whole output, as long as the job is in memory (_run_job, _poll_result).
CompletedWhole ==
    tail.told = "done" /\ tail.state = "completed" /\ tail.by = "job" => Len(tail.got) = Len(out.chunks)

\* What was kept is all there was, or output_truncated says it is not, and the limit
\* holds over both pipes together (_append).
OutputHonest == out.bytes <= OutputLimit /\ (~out.cut => out.bytes = out.produced)

\* The output of a job (shell.py): tails arrive in order, a completed job has all of
\* its output, and output beyond the limit is dropped only with a word about it.
OutputSafe == TailInOrder /\ CompletedWhole /\ OutputHonest
=============================================================================
