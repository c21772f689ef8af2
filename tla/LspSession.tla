----------------------------- MODULE LspSession ------------------------------
(***************************************************************************)
(* One language server and its client (agent code_intelligence/            *)
(* lsp_client.py, the document overlay of lsp_router.py, diagnostics of    *)
(* lsp_provider.py): the open documents and their versions, diagnostics    *)
(* that the server publishes late or answers on request, the progress it   *)
(* reports while it analyses, and requests that wait for all of these.     *)
(* Calls hold the query lock of the workspace.  A call that finds a        *)
(* changed file starts a new server (workspace.py, _refresh).              *)
(***************************************************************************)
EXTENDS Integers, Sequences, FiniteSets, SequencesExt

CONSTANTS
    Uris,           \* documents
    Tokens,         \* tokens of the progress that the server reports
    MaxOpen,        \* documents that stay open (128 in the code)
    MaxTexts,       \* bound: texts of a document
    MaxEpoch        \* bound: progress messages of one server

NoText == 0
NoDoc == [version |-> 0, text |-> NoText]
NoReport == [version |-> 0, text |-> NoText]
NoLookup == [pc |-> "idle"]

ASSUME SessionAssumption ==
    MaxOpen \in Nat \ {0} /\ {MaxTexts, MaxEpoch} \subseteq Nat /\ NoText \notin 1 .. MaxTexts

VARIABLES
    text, dirty,    \* text of each file; whether a file changed since the last refresh
    running, pulls, \* the server; whether it answers requests for diagnostics
    docs, order,    \* _documents of the client: version and text, and the order of opening
    push, pull,     \* _push_diagnostics and _pull_diagnostics
    late,           \* diagnostics that the server computed and did not send yet
    active, idle, epoch,  \* _active_progress, _progress_idle, _progress_epoch
    lookup          \* the call that asks for diagnostics

overlay == <<docs, order, push, pull>>
progress == <<active, idle, epoch>>
sessionVars == <<text, dirty, running, pulls, overlay, late, progress, lookup>>

Emptied == [d \in Uris |-> NoDoc]
SessionInit ==
    /\ text = [d \in Uris |-> 1] /\ dirty = FALSE
    /\ running = FALSE /\ pulls = FALSE
    /\ docs = Emptied /\ order = <<>> /\ push = Emptied /\ pull = Emptied /\ late = {}
    /\ active = {} /\ idle = TRUE /\ epoch = 0
    /\ lookup = NoLookup

\* The wait in wait_for_analysis_ready is for an event that is already set: it
\* does not suspend, and nothing else of the agent runs until the deadline.
Spinning == lookup.pc = "quiet" /\ active # {} /\ idle

\* _force_stop: the client forgets everything; the old server can tell it nothing.
Forget ==
    /\ docs' = Emptied /\ order' = <<>> /\ push' = Emptied /\ pull' = Emptied /\ late' = {}
    /\ active' = {} /\ idle' = TRUE /\ epoch' = 0

-----------------------------------------------------------------------------
(* Outside of the client.                                                  *)

ChangeText(d) ==
    /\ lookup = NoLookup /\ text[d] < MaxTexts
    /\ text' = [text EXCEPT ![d] = @ + 1] /\ dirty' = TRUE
    /\ UNCHANGED <<running, pulls, overlay, late, progress, lookup>>

ServerDies ==
    /\ running /\ ~Spinning /\ running' = FALSE /\ late' = {}
    /\ UNCHANGED <<text, dirty, pulls, overlay, progress, lookup>>

\* publish_diagnostics.  Servers may send a report twice, late, and without a
\* version.
Publish(report, versioned) ==
    /\ running /\ ~Spinning /\ report \in late
    /\ late' \in {late, late \ {report}}
    /\ LET d == report.doc
           seen == [version |-> IF versioned THEN report.version ELSE 0, text |-> report.text]
       IN  push' = IF docs[d] # NoDoc THEN [push EXCEPT ![d] = seen] ELSE push
    /\ UNCHANGED <<text, dirty, running, pulls, docs, order, pull, progress, lookup>>

\* accept_progress_token: the event is set although another token may be active.
CreateProgress(t) ==
    /\ running /\ ~Spinning /\ epoch < MaxEpoch /\ epoch' = epoch + 1
    /\ idle' = (idle \/ t \notin active)
    /\ UNCHANGED <<text, dirty, running, pulls, overlay, late, active, lookup>>

\* ignore_progress
BeginProgress(t) ==
    /\ running /\ ~Spinning /\ epoch < MaxEpoch /\ epoch' = epoch + 1
    /\ active' = active \cup {t} /\ idle' = FALSE
    /\ UNCHANGED <<text, dirty, running, pulls, overlay, late, lookup>>
EndProgress(t) ==
    /\ running /\ ~Spinning /\ epoch < MaxEpoch /\ epoch' = epoch + 1
    /\ active' = active \ {t}
    /\ idle' = (idle \/ active' = {})
    /\ UNCHANGED <<text, dirty, running, pulls, overlay, late, lookup>>

-----------------------------------------------------------------------------
(* A call for the diagnostics of a document.                               *)

\* A changed file stops the server; so does one that exited.
NeedsServerLazily == ~running
NeedsServer == dirty \/ ~running

BeginLookup(d) ==
    /\ lookup = NoLookup
    /\ lookup' = [pc |-> "open", doc |-> d, warned |-> FALSE, epoch |-> 0, state |-> "none", of |-> NoText]
    /\ dirty' = FALSE /\ running' = TRUE
    /\ IF NeedsServer THEN pulls' \in BOOLEAN /\ Forget
       ELSE UNCHANGED <<pulls, overlay, late, progress>>
    /\ UNCHANGED text

Opened(d, version) == [docs EXCEPT ![d] = [version |-> version, text |-> text[d]]]
Sent(d, version) == late \cup {[doc |-> d, version |-> version, text |-> text[d]]}

\* trim_documents, with the document that is being opened
TooMany == Len(order) >= MaxOpen

\* ensure_document and trim_documents, which do not suspend.  The oldest document
\* is closed when there are too many.  A text that differs from the open one gets a
\* new version; as every change starts a new server, no call meets one.
EnsureDocument ==
    /\ lookup.pc = "open" /\ running
    /\ LET d == lookup.doc
           oldest == Head(order)
       IN  \/ /\ docs[d] = NoDoc /\ TooMany
              /\ docs' = [Opened(d, 1) EXCEPT ![oldest] = NoDoc]
              /\ push' = [push EXCEPT ![oldest] = NoReport]
              /\ pull' = [pull EXCEPT ![oldest] = NoReport]
              /\ order' = Append(Tail(order), d) /\ late' = Sent(d, 1)
           \/ /\ docs[d] = NoDoc /\ ~TooMany
              /\ docs' = Opened(d, 1) /\ order' = Append(order, d) /\ late' = Sent(d, 1)
              /\ UNCHANGED <<push, pull>>
           \/ /\ docs[d] # NoDoc /\ UNCHANGED order
              /\ IF docs[d].text = text[d] THEN UNCHANGED <<docs, push, pull, late>>
                 ELSE /\ docs' = Opened(d, docs[d].version + 1)
                      /\ late' = Sent(d, docs[d].version + 1)
                      /\ push' = [push EXCEPT ![d] = NoReport]
                      /\ pull' = [pull EXCEPT ![d] = NoReport]
    /\ lookup' = [lookup EXCEPT !.pc = "quiet", !.epoch = epoch]
    /\ UNCHANGED <<text, dirty, running, pulls, progress>>

\* wait_for_analysis_ready: no progress during a quiet period, or the deadline.
WaitAgain ==
    /\ lookup.pc = "quiet" /\ ~Spinning /\ epoch # lookup.epoch
    /\ lookup' = [lookup EXCEPT !.epoch = epoch]
    /\ UNCHANGED <<text, dirty, running, pulls, overlay, late, progress>>
AnalysisQuiet ==
    /\ lookup.pc = "quiet" /\ active = {} /\ epoch = lookup.epoch
    /\ lookup' = [lookup EXCEPT !.pc = "report"]
    /\ UNCHANGED <<text, dirty, running, pulls, overlay, late, progress>>
AnalysisSlow ==
    /\ lookup.pc = "quiet"
    /\ lookup' = [lookup EXCEPT !.pc = "report", !.warned = TRUE]
    /\ UNCHANGED <<text, dirty, running, pulls, overlay, late, progress>>

\* diagnostic_snapshot, on request.  The server may say that nothing changed
\* since the result that the client names, or nothing that is understood.
PullReport ==
    /\ lookup.pc = "report" /\ running /\ pulls
    /\ LET d == lookup.doc
       IN  \/ /\ pull' = [pull EXCEPT ![d] = [version |-> 1, text |-> docs[d].text]]
              /\ lookup' = [lookup EXCEPT !.pc = "done", !.state = "ready", !.of = docs[d].text]
           \/ /\ pull[d] # NoReport \* result of the same server for the same text
              /\ lookup' = [lookup EXCEPT !.pc = "done", !.state = "ready", !.of = pull[d].text]
              /\ UNCHANGED pull
           \/ /\ lookup' = [lookup EXCEPT !.pc = "done", !.state = "unavailable"]
              /\ UNCHANGED pull
    /\ UNCHANGED <<text, dirty, running, pulls, docs, order, push, late, progress>>

\* diagnostic_snapshot, with what was published.
Judge(report, doc) ==
    IF report.version = 0 THEN "partial"
    ELSE IF report.version # doc.version THEN "stale" ELSE "ready"

PushReport ==
    /\ lookup.pc = "report" /\ ~pulls /\ push[lookup.doc] # NoReport
    /\ LET report == push[lookup.doc]
       IN  lookup' = [lookup EXCEPT !.pc = "done", !.state = Judge(report, docs[lookup.doc]),
                                    !.of = report.text]
    /\ UNCHANGED <<text, dirty, running, pulls, overlay, late, progress>>
NothingPushed ==
    /\ lookup.pc = "report" /\ ~pulls /\ push[lookup.doc] = NoReport
    /\ lookup' = [lookup EXCEPT !.pc = "done", !.state = "pending"]
    /\ UNCHANGED <<text, dirty, running, pulls, overlay, late, progress>>

\* A request times out, or finds that the server exited: the call fails and the
\* server is stopped.
LookupFails ==
    /\ lookup.pc \in {"open", "report"} /\ ~(lookup.pc = "open" /\ running)
    /\ lookup' = NoLookup /\ running' = FALSE /\ Forget
    /\ UNCHANGED <<text, dirty, pulls>>

EndLookup ==
    /\ lookup.pc = "done" /\ lookup' = NoLookup
    /\ UNCHANGED <<text, dirty, running, pulls, overlay, late, progress>>

SessionNext ==
    \/ \E d \in Uris : ChangeText(d) \/ BeginLookup(d)
    \/ ServerDies
    \/ \E report \in late : \E versioned \in BOOLEAN : Publish(report, versioned)
    \/ \E t \in Tokens : CreateProgress(t) \/ BeginProgress(t) \/ EndProgress(t)
    \/ EnsureDocument \/ WaitAgain \/ AnalysisQuiet \/ AnalysisSlow
    \/ PullReport \/ PushReport \/ NothingPushed \/ LookupFails \/ EndLookup

SessionSpec == SessionInit /\ [][SessionNext]_sessionVars

-----------------------------------------------------------------------------
\* Diagnostics that are reported as ready are those of the text that the file
\* has, although the server publishes late, a document that is closed and
\* opened again starts at version 1 again, and a report is kept between calls
\* (lsp_client.py, diagnostic_snapshot).
ReadyIsCurrent ==
    lookup.pc = "done" /\ lookup.state = "ready" => lookup.of = text[lookup.doc]

\* The open documents stay within their limit, and the one that a call asks about
\* is among them (trim_documents).
OverlayBounded ==
    lookup.pc \in {"quiet", "report", "done"} =>
        /\ Len(order) <= MaxOpen
        /\ ToSet(order) = {d \in Uris : docs[d] # NoDoc}
        /\ lookup.doc \in ToSet(order)

\* Diagnostics that are served as ready are those of the current text,
\* and the documents open at the server stay bounded (lsp_provider.py).
DiagnosticsCurrent == ReadyIsCurrent /\ OverlayBounded
=============================================================================
