---------------------------- MODULE CodeQueries -----------------------------
(***************************************************************************)
(* Code intelligence of one project (agent code_intelligence/: manager.py  *)
(* execute, _reindex, _idle_reaper and close, workspace.py, snapshot.py,   *)
(* lsp_router.py, cbm_provider.py; the cancellation by protocol_adapter).  *)
(* A call holds query_lock.  It captures the files, synchronizes the       *)
(* language server and the graph with them, asks one of the two, and       *)
(* captures the files again before the answer is called verified; the user *)
(* edits files between any two steps, and the server reads files when it   *)
(* likes.  A version of a file stands for its time stamp, size and         *)
(* content; versions do not come back.                                     *)
(***************************************************************************)
EXTENDS Integers, Sequences, FiniteSets

CONSTANTS
    NFiles,         \* files of the project
    MaxEdits,       \* bound: edits by the user
    MaxGens         \* bound: generations of snapshots

CodeFiles == 1 .. NFiles
Doc == 1                                    \* the file that requests ask about
NoQuery == [op |-> "none", pc |-> "idle"]
NoServer == [up |-> FALSE, seen |-> {}]
NoLatest == [gen |-> 0, files |-> <<>>]

ASSUME CodeAssumption == NFiles \in Nat \ {0} /\ {MaxEdits, MaxGens} \subseteq Nat

VARIABLES
    disk, edits,    \* version of each file, 0 if there is none; edits so far
    latest, synced, \* _snapshot and _synchronized_id of the workspace
    gens,           \* generations that were given to snapshots
    server,         \* the language server, from its start on, and what it read
    abandoned,      \* a process of a start that was cancelled runs
    refused,        \* _failures of the router
    mirror, mirrored, index,  \* the graph: its source mirror, its files, and its content
    graphGen, graphErr,       \* generation of its _snapshot; _graph_error
    down,           \* a shutdown of the workspace is running
    query,          \* the call that holds query_lock
    closed          \* close() of the manager is over

graphVars == <<mirror, mirrored, index, graphGen>>
spaceVars == <<latest, synced, gens, graphErr>>
serverVars == <<server, refused, abandoned>>
codeVars == <<disk, edits, spaceVars, serverVars, graphVars, down, query, closed>>

CodeInit ==
    /\ disk = [f \in CodeFiles |-> 1] /\ edits = 1
    /\ latest = NoLatest /\ synced = 0 /\ gens = 0 /\ graphErr = FALSE
    /\ server = NoServer /\ refused = FALSE /\ abandoned = FALSE
    \* the mirror of an earlier run of the agent, which this one knows nothing of
    /\ mirror = [f \in CodeFiles |-> 1] /\ mirrored = {}
    /\ index = [f \in CodeFiles |-> 0] /\ graphGen = 0
    /\ down = FALSE /\ query = NoQuery /\ closed = FALSE

Present(files) == {f \in CodeFiles : files[f] # 0}
Pairs(files) == {<<f, files[f]>> : f \in Present(files)}

-----------------------------------------------------------------------------
(* The files and the server.                                               *)

Edit(f) ==
    /\ edits < MaxEdits /\ edits' = edits + 1
    /\ \E v \in {0, edits + 1} : v # disk[f] /\ disk' = [disk EXCEPT ![f] = v]
    /\ query' = IF query = NoQuery THEN query ELSE [query EXCEPT !.past = @ \cup {disk'}]
    /\ UNCHANGED <<spaceVars, serverVars, graphVars, down, closed>>

ServerReads(f) ==
    /\ server.up /\ disk[f] # 0
    /\ server' = [server EXCEPT !.seen = @ \cup {<<f, disk[f]>>}]
    /\ UNCHANGED <<disk, edits, spaceVars, refused, abandoned, graphVars, down, query, closed>>

ServerExits ==
    /\ \/ server.up /\ server' = NoServer /\ UNCHANGED abandoned
       \/ abandoned /\ abandoned' = FALSE /\ UNCHANGED server
    /\ UNCHANGED <<disk, edits, spaceVars, refused, graphVars, down, query, closed>>

-----------------------------------------------------------------------------
(* Captures.  scan_workspace reads one file after the other.               *)

BeginQuery(op) ==
    /\ query = NoQuery /\ ~closed /\ gens < MaxGens
    /\ query' = [op |-> op, pc |-> "scan", attempt |-> 1, round |-> 1, force |-> op = "reindex",
                 reads |-> <<>>, cand |-> NoLatest, empty |-> FALSE, saw |-> {},
                 verified |-> FALSE, past |-> {disk}]
    /\ UNCHANGED <<disk, edits, spaceVars, serverVars, graphVars, down, closed>>

Scanning == query.pc \in {"scan", "verify", "after"}
Scanned == Scanning /\ Len(query.reads) = NFiles

\* A refresh waits for the lock of a shutdown that is still running.
Scan ==
    /\ Scanning /\ ~Scanned /\ (query.pc = "after" \/ ~down)
    /\ query' = [query EXCEPT !.reads = Append(@, disk[Len(@) + 1])]
    /\ UNCHANGED <<disk, edits, spaceVars, serverVars, graphVars, down, closed>>

\* The end of a call with an error: execute() shuts the workspace down.
FailCall ==
    /\ query' = [query EXCEPT !.pc = "fail"] /\ down' = TRUE

\* path_race: execute() tries once more.
TryAgain ==
    IF query.attempt = 1
    THEN /\ query' = [query EXCEPT !.pc = "scan", !.attempt = 2, !.round = 1, !.reads = <<>>,
                                   !.force = FALSE, !.empty = FALSE, !.saw = {}]
         /\ UNCHANGED down
    ELSE FailCall

\* An exception leaves _refresh; _reindex turns it into an answer.
LeaveRefresh(race) ==
    /\ synced' = 0
    /\ IF query.op = "reindex" THEN query' = [query EXCEPT !.pc = "deliver"] /\ UNCHANGED down
       ELSE IF race THEN TryAgain ELSE FailCall

\* The capture fails: a path changed under it, or a limit is exceeded.
ScanFails(race) ==
    /\ Scanning
    /\ IF query.pc # "after" THEN LeaveRefresh(race)
       ELSE /\ IF race /\ query.op # "reindex" THEN TryAgain ELSE FailCall
            /\ UNCHANGED synced
    /\ UNCHANGED <<disk, edits, latest, gens, graphErr, serverVars, graphVars, closed>>

-----------------------------------------------------------------------------
(* _refresh.                                                               *)

\* Nothing changed since the last snapshot: it is kept, with its generation.
Candidate ==
    IF latest # NoLatest /\ latest.files = query.reads /\ ~query.force THEN latest
    ELSE [gen |-> gens + 1, files |-> query.reads]

\* The candidate is compared with what the providers are synchronized with.  A
\* metadata request never starts a provider.
EndScan ==
    /\ query.pc = "scan" /\ Scanned
    /\ gens' = IF Candidate = latest THEN gens ELSE gens + 1
    /\ IF query.op # "status" /\ (query.force \/ synced # Candidate.gen)
       THEN query' = [query EXCEPT !.pc = "restart", !.cand = Candidate, !.reads = <<>>] /\ UNCHANGED latest
       ELSE query' = [query EXCEPT !.pc = "run", !.cand = Candidate, !.reads = <<>>] /\ latest' = Candidate
    /\ UNCHANGED <<disk, edits, synced, graphErr, serverVars, graphVars, down, closed>>

\* restart_all: the servers are stopped, their failures forgotten.
Restart ==
    /\ query.pc = "restart"
    /\ server' = NoServer /\ refused' = FALSE /\ graphErr' = FALSE
    /\ query' = [query EXCEPT !.pc = "mirror"]
    /\ UNCHANGED <<disk, edits, latest, synced, gens, abandoned, graphVars, down, closed>>

\* _prepare_mirror, without an await: files that left are removed if this agent
\* wrote them, then every file is read again and compared with its hash.
PrepareMirror ==
    /\ query.pc = "mirror" /\ graphGen' = 0
    /\ LET files == query.cand.files
           kept == [f \in CodeFiles |-> IF f \in mirrored \ Present(files) THEN 0 ELSE mirror[f]]
       IN  IF \A f \in Present(files) : disk[f] = files[f]
           THEN /\ mirror' = [f \in CodeFiles |-> IF f \in Present(files) THEN files[f] ELSE kept[f]]
                /\ mirrored' = Present(files)
                /\ query' = [query EXCEPT !.pc = "index"]
                /\ UNCHANGED <<synced, down>>
           ELSE \* the files before the one that changed are written
                LET bad == CHOOSE f \in Present(files) :
                               /\ disk[f] # files[f]
                               /\ \A g \in Present(files) : g < f => disk[g] = files[g]
                IN  /\ mirror' = [f \in CodeFiles |->
                                      IF f \in Present(files) /\ f < bad THEN files[f] ELSE kept[f]]
                    /\ UNCHANGED mirrored
                    /\ LeaveRefresh(TRUE)
    /\ UNCHANGED <<disk, edits, latest, gens, graphErr, serverVars, index, closed>>

\* ensure_indexed: the graph runtime indexes all of the mirror, or fails.
EndIndex ==
    /\ query.pc = "index"
    /\ \/ index' = mirror /\ graphGen' = query.cand.gen /\ UNCHANGED graphErr
       \/ graphErr' = TRUE /\ UNCHANGED <<index, graphGen>>
    /\ query' = [query EXCEPT !.pc = "verify"]
    /\ UNCHANGED <<disk, edits, latest, synced, gens, serverVars, mirror, mirrored, down, closed>>

\* _reindex reports what the graph could not do.
Completed == ~graphErr

\* The second capture of _refresh: the files are as they were, or it starts
\* again, or gives up.
EndVerify ==
    /\ query.pc = "verify" /\ Scanned
    /\ IF query.reads = query.cand.files
       THEN /\ synced' = query.cand.gen /\ latest' = query.cand
            /\ query' = [query EXCEPT !.pc = IF query.op # "reindex" THEN "run"
                                             ELSE IF Completed THEN "after" ELSE "deliver",
                                      !.reads = <<>>]
            /\ UNCHANGED down
       ELSE /\ UNCHANGED latest
            /\ IF query.round = 1
               THEN /\ query' = [query EXCEPT !.pc = "scan", !.round = 2, !.force = TRUE, !.reads = <<>>]
                    /\ UNCHANGED <<synced, down>>
               ELSE LeaveRefresh(TRUE)
    /\ UNCHANGED <<disk, edits, gens, graphErr, serverVars, graphVars, closed>>

-----------------------------------------------------------------------------
(* _execute_ready.                                                         *)

GraphReady == latest # NoLatest /\ synced = latest.gen /\ ~graphErr

\* document_provider reads the document again, and has no provider if it
\* changed.
NoProvider == refused \/ query.empty \/ disk[Doc] # query.cand.files[Doc]

\* The file of the request is not in the snapshot.
Absent ==
    /\ query.pc = "run" /\ query.op \in {"code", "impact"} /\ query.cand.files[Doc] = 0
    /\ FailCall
    /\ UNCHANGED <<disk, edits, spaceVars, serverVars, graphVars, closed>>
Answering == query.pc = "run" /\ (query.op = "status" \/ query.cand.files[Doc] # 0)

\* start() has the process before the first await of the handshake, in which
\* the server may read files; the router has no session of it yet.
StartServer ==
    /\ Answering /\ query.op = "code" /\ ~refused /\ ~server.up /\ ~query.empty
    /\ query' = [query EXCEPT !.pc = "starting"] /\ server' = [up |-> TRUE, seen |-> {}]
    /\ UNCHANGED <<disk, edits, spaceVars, refused, abandoned, graphVars, down, closed>>

\* start() returns, or stops the process and raises LspClientError.
Started ==
    /\ query.pc = "starting"
    /\ \/ server.up /\ UNCHANGED <<server, refused>>
       \/ server' = NoServer /\ refused' = TRUE
    /\ query' = [query EXCEPT !.pc = "run"]
    /\ UNCHANGED <<disk, edits, spaceVars, abandoned, graphVars, down, closed>>

\* The answer of the server, or an empty set of references.
AskServer ==
    /\ Answering /\ query.op = "code" /\ server.up /\ ~NoProvider
    /\ \/ query' = [query EXCEPT !.pc = "after", !.saw = server.seen]
       \/ query' = [query EXCEPT !.empty = TRUE, !.saw = server.seen]
    /\ UNCHANGED <<disk, edits, spaceVars, serverVars, graphVars, down, closed>>

\* _node and _file_neighbors drop what is not a file of the snapshot.
EveryNode == {<<f, index[f]>> : f \in Present(index)}
KnownNodes == {<<f, index[f]>> : f \in Present(query.cand.files)}

\* The graph, if it has the snapshot of the call; else nobody answers.
AskGraph ==
    /\ Answering /\ (query.op = "impact" \/ (query.op = "code" /\ NoProvider))
    /\ GraphReady /\ graphGen = query.cand.gen
    /\ query' = [query EXCEPT !.pc = "after", !.saw = @ \cup KnownNodes]
    /\ UNCHANGED <<disk, edits, spaceVars, serverVars, graphVars, down, closed>>
AskNobody ==
    /\ Answering
    /\ \/ query.op = "status"
       \/ (query.op = "impact" \/ (query.op = "code" /\ NoProvider)) /\ ~GraphReady
    /\ query' = [query EXCEPT !.pc = "after"]
    /\ UNCHANGED <<disk, edits, spaceVars, serverVars, graphVars, down, closed>>

\* A provider fails or takes too long; a server that did is stopped.
AskFails ==
    /\ Answering /\ query.op \in {"code", "impact"} /\ (server.up \/ GraphReady)
    /\ server' \in {server, NoServer}
    /\ FailCall
    /\ UNCHANGED <<disk, edits, spaceVars, refused, abandoned, graphVars, closed>>

-----------------------------------------------------------------------------
(* The end of a call.                                                      *)

\* snapshot_is_current
StillSameSize == Cardinality(Present(query.reads)) = Cardinality(Present(query.cand.files))
StillSame == query.reads = query.cand.files

EndAfter ==
    /\ query.pc = "after" /\ Scanned
    /\ IF StillSame THEN query' = [query EXCEPT !.pc = "deliver", !.verified = TRUE] /\ UNCHANGED down
       ELSE IF query.op = "reindex" THEN query' = [query EXCEPT !.pc = "deliver"] /\ UNCHANGED down
       ELSE TryAgain
    /\ UNCHANGED <<disk, edits, spaceVars, serverVars, graphVars, closed>>

Deliver ==
    /\ query.pc = "deliver" /\ query' = NoQuery
    /\ UNCHANGED <<disk, edits, spaceVars, serverVars, graphVars, down, closed>>

\* wait_for cancels force_reindex.
ReindexTimeout ==
    /\ query.op = "reindex" /\ query.pc \in {"scan", "restart", "index", "verify"}
    /\ synced' = 0 /\ query' = [query EXCEPT !.pc = "deliver"]
    /\ server' = IF query.pc = "restart" THEN NoServer ELSE server
    /\ refused' = (refused /\ query.pc # "restart")
    /\ UNCHANGED <<disk, edits, latest, gens, graphErr, abandoned, graphVars, down, closed>>

\* The adapter cancels the call: access was revoked, the deadline passed, the
\* operation was cancelled.  start() stops its process for an Exception, which a
\* cancellation is not, and the router drops the client: nobody knows of the
\* process any more.
CancelQuery ==
    /\ query.pc \notin {"idle", "fail", "deliver"}
    /\ FailCall
    /\ IF query.pc = "starting" THEN server' = NoServer /\ abandoned' = (abandoned \/ server.up)
       ELSE UNCHANGED <<server, abandoned>>
    /\ UNCHANGED <<disk, edits, spaceVars, refused, graphVars, closed>>

\* The call waits for the shutdown, unless it is cancelled once more.
EndFailed ==
    /\ query.pc = "fail" /\ query' = NoQuery
    /\ UNCHANGED <<disk, edits, spaceVars, serverVars, graphVars, down, closed>>

Shutdown ==
    /\ server' = NoServer /\ refused' = FALSE /\ synced' = 0
    /\ UNCHANGED <<latest, gens, graphErr, abandoned, graphVars, disk, edits>>

EndShutdown == down /\ down' = FALSE /\ Shutdown /\ UNCHANGED <<query, closed>>

\* The idle reaper, with query_lock, and close(), when every operation was
\* cancelled and awaited.
IdleReap == query = NoQuery /\ ~down /\ ~closed /\ Shutdown /\ UNCHANGED <<down, query, closed>>
CloseCode == query = NoQuery /\ ~down /\ ~closed /\ closed' = TRUE /\ Shutdown /\ UNCHANGED <<down, query>>

CodeNext ==
    \/ \E f \in CodeFiles : Edit(f) \/ ServerReads(f)
    \/ ServerExits
    \/ \E op \in {"status", "code", "impact", "reindex"} : BeginQuery(op)
    \/ Scan \/ (\E race \in BOOLEAN : ScanFails(race))
    \/ EndScan \/ Restart \/ PrepareMirror \/ EndIndex \/ EndVerify
    \/ Absent \/ StartServer \/ Started \/ AskServer \/ AskGraph \/ AskNobody \/ AskFails
    \/ EndAfter \/ Deliver \/ ReindexTimeout \/ CancelQuery \/ EndFailed
    \/ EndShutdown \/ IdleReap \/ CloseCode

CodeSpec == CodeInit /\ [][CodeNext]_codeVars

-----------------------------------------------------------------------------
\* The files of a verified answer are files that the project really had, all at one
\* moment of the call, although each capture reads them one after the other while
\* they are edited (manager.py, execute and _verified).  A file that is absent in
\* both captures may have come and gone between them.
VerifiedOfOneMoment ==
    query.pc = "deliver" /\ query.verified =>
        \E files \in query.past :
            \A f \in Present(query.cand.files) : files[f] = query.cand.files[f]

\* What the server or the graph used of these files for a verified answer is their
\* content: no warm server that read an older version, no index with another one
\* (workspace.py, _refresh).
ProvidersAgree ==
    query.pc = "deliver" /\ query.verified =>
        \A read \in query.saw : query.cand.files[read[1]] \in {0, read[2]}

\* A reindex that is reported as completed has synchronized the providers with
\* the files, and nothing undid that before the answer.
CompletedIsSynchronized ==
    query.pc = "deliver" /\ query.verified /\ query.op = "reindex" =>
        /\ latest = query.cand /\ synced = latest.gen
        /\ graphGen = latest.gen /\ Pairs(latest.files) \subseteq Pairs(index)

\* No server that the agent still knows is left when it has closed code
\* intelligence, also after failed, cancelled and repeated calls (lsp_router.py).
NoServerAfterClose == closed => ~server.up

\* Code answers while the project is edited (manager.py, workspace.py): a verified
\* answer is of one moment of the files, the server and the graph that gave it had
\* read those files, "completed" means synchronized, and no server that the router
\* knows outlives close.  One whose start was cancelled during its handshake may: the
\* code forgets it, and nothing here is said of it (abandoned; start, lsp_client.py).
CodeSafe == VerifiedOfOneMoment /\ ProvidersAgree /\ CompletedIsSynchronized /\ NoServerAfterClose
=============================================================================
