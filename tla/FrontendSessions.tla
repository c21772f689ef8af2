-------------------------- MODULE FrontendSessions --------------------------
(***************************************************************************)
(* Managed frontend sessions (agent frontend_sessions.py, dev_servers.py,  *)
(* the life cycle part of frontend_playwright.py and the disconnect fence  *)
(* of daemon.py): start tasks, their cancellation, sessions, closing,      *)
(* cleanup of partial starts, the development server, the browser context, *)
(* the reaper and the shutdown.  One session per project exists at a time, *)
(* so the registries of the managers are functions of the project.         *)
(* Generations (of the approvals, of the life cycle, of a project's record)*)
(* are only compared with the present one, so a start and a session carry  *)
(* whether theirs is still the present one.                                *)
(***************************************************************************)
EXTENDS Integers, FiniteSets

CONSTANTS
    Projects,
    Requests,       \* session_start requests
    ProjectOf,      \* the project of each request
    KeyOf,          \* grant, link, project and idempotency key of each request
    OwnerOf,        \* grant and link of each request
    DigestOf,       \* action_digest of each request
    Full,           \* projects in full access mode: no prompt
    External,       \* projects whose configured server already runs
    Files,          \* the configuration files of each project
    MaxSessions,
    MaxEpoch,       \* bound: connections
    MaxEvents,      \* bound: revocations, and changes of a project
    MaxFaults       \* bound: browsers and servers that fail to close

\* discover(): the first of .codito/frontend.json, codito.frontend.json and
\* package.json#codito.frontend that exists decides, also when it is invalid.
\* Without one, package.json gives a command and a port, if it is not ambiguous.
Discover(f) ==
    LET present == {i \in 1 .. 3 : f.config[i] # "absent"}
        first == CHOOSE i \in present : \A j \in present : i <= j
    IN  IF present # {} THEN IF f.config[first] = "valid" THEN "explicit" ELSE "error"
        ELSE IF /\ f.scripts \cap {"dev", "start"} # {}
                /\ Cardinality(f.lockfiles) <= 1
                /\ f.dependencies \cap {"@angular/core", "vite", "next", "react-scripts"} # {}
        THEN "auto" ELSE "error"
Guessed == {p \in Projects : Discover(Files[p]) = "auto"}

NoStart == [stage |-> "none"]
NoSession == [phase |-> "none"]
NoCleanup == [phase |-> "none"]

ASSUME FrontendAssumption ==
    /\ \A r \in Requests : ProjectOf[r] \in Projects
    /\ \A r, s \in Requests :
           KeyOf[r] = KeyOf[s] => ProjectOf[r] = ProjectOf[s] /\ OwnerOf[r] = OwnerOf[s]
    /\ {MaxSessions, MaxEvents, MaxFaults} \subseteq Nat /\ MaxEpoch \in Nat \ {0}

VARIABLES
    up, epoch,      \* the tunnel connection
    fence,          \* _frontend_cleanup_task: "none", "queued", "waiting", "done"
    closing,        \* progress of close(), "no" before
    req,            \* progress of each request, and its connection
    start,          \* _start_tasks and _project_starts
    sess,           \* _sessions, _closing and _project_sessions
    clean,          \* the cleanup of a closing session, or _partial_cleanups
    ctx,            \* browser context on the profile of each project
    reg, proc,      \* _servers and _stopping; the process that they name runs
    aborting, lost, \* launches that the broker undoes; processes that it could not end
    guard,          \* projects whose acquire() holds DevServerManager._guard
    events, faults

connVars == <<up, epoch, fence>>
launchVars == <<aborting, lost>>
srvVars == <<reg, proc, guard, launchVars>>
vars == <<connVars, closing, req, start, sess, clean, ctx, srvVars,
          events, faults>>

Init ==
    /\ up = TRUE /\ epoch = 1 /\ fence = "none" /\ closing = "no"
    /\ req = [r \in Requests |-> [pc |-> "new", epoch |-> 0]]
    /\ start = [p \in Projects |-> NoStart] /\ sess = [p \in Projects |-> NoSession]
    /\ clean = [p \in Projects |-> NoCleanup]
    /\ ctx = [p \in Projects |-> "none"]
    /\ reg = [p \in Projects |-> "none"] /\ proc = [p \in Projects |-> FALSE]
    /\ aborting = [p \in Projects |-> 0] /\ lost = [p \in Projects |-> 0]
    /\ guard = {} /\ events = 0 /\ faults = 0

MayFail == faults < MaxFaults

-----------------------------------------------------------------------------
(* The tunnel and the fence of the daemon.                                 *)

\* The approvals take a new generation: no start and no session of the
\* projects ps has the present one any more.
Outdate(ps) ==
    /\ start' = [p \in Projects |-> IF p \in ps /\ start[p] # NoStart
                                   THEN [start[p] EXCEPT !.current = FALSE] ELSE start[p]]
    /\ sess' = [p \in Projects |-> IF p \in ps /\ sess[p] # NoSession
                                  THEN [sess[p] EXCEPT !.current = FALSE] ELSE sess[p]]

\* _connection_changed(False): a fence is created unless one is still running,
\* and invalidate_pending() raises the generation of the approvals.
Disconnect ==
    /\ up /\ closing = "no"
    /\ up' = FALSE /\ Outdate(Projects)
    /\ fence' = IF fence \in {"none", "done"} THEN "queued" ELSE fence
    /\ UNCHANGED <<epoch, closing, req, clean, ctx, srvVars, events, faults>>

Reconnect ==
    /\ ~up /\ closing = "no" /\ epoch < MaxEpoch
    /\ up' = TRUE /\ epoch' = epoch + 1
    /\ UNCHANGED <<fence, closing, req, start, sess, clean, ctx, srvVars,
                   events, faults>>

\* _cancel_pending_starts: a new life cycle generation, then cancel().
Cancelled == [p \in Projects |->
    IF start[p] # NoStart
    THEN [start[p] EXCEPT !.alive = FALSE, !.cancelled = TRUE] ELSE NoStart]
StartsEnded == \A p \in Projects : start[p].stage \in {"none", "stranded"}

\* disconnected() cancels the starts it finds and waits for them.
FenceStarts ==
    /\ fence = "queued" /\ closing = "no"
    /\ fence' = "waiting" /\ start' = Cancelled
    /\ UNCHANGED <<up, epoch, closing, req, sess, clean, ctx, srvVars, events, faults>>

FenceDone ==
    /\ fence = "waiting" /\ StartsEnded
    /\ fence' = "done"
    /\ UNCHANGED <<up, epoch, closing, req, start, sess, clean, ctx,
                   srvVars, events, faults>>

\* Permissions are revoked, or 60 seconds without a connection (clear()), or
\* the user changes the mode, the availability or the root of a project.
Revoke(ps) ==
    /\ closing = "no" /\ events < MaxEvents
    /\ events' = events + 1 /\ Outdate(ps)
    /\ UNCHANGED <<connVars, closing, req, clean, ctx, srvVars, faults>>

-----------------------------------------------------------------------------
(* session_start.                                                          *)

\* A request is received; a frontend request waits for the fence.
Arrive(r) ==
    /\ up /\ closing = "no" /\ req[r].pc = "new"
    /\ req' = [req EXCEPT ![r] = [pc |-> "fenced", epoch |-> epoch]]
    /\ UNCHANGED <<connVars, closing, start, sess, clean, ctx, srvVars,
                   events, faults>>

Live(p) == sess[p].phase = "live"

\* len(_sessions) + len(_closing) + len(_project_starts) + len(_partial_cleanups)
Load ==
    Cardinality({p \in Projects : start[p] # NoStart})
    + Cardinality({p \in Projects : sess[p] # NoSession})
    + Cardinality({p \in Projects : clean[p] # NoCleanup /\ clean[p].kind = "start"})

Done == [pc |-> "done", epoch |-> 0]
Answered(r) == req' = [req EXCEPT ![r] = Done]

\* A start key that belongs to a live session; the key is forgotten when the
\* session begins to close.
Known(r, p) == Live(p) /\ \E k \in sess[p].keys : k[1] = KeyOf[r]

AdmitKnown(r, p) ==
    /\ Known(r, p)
    /\ IF /\ <<KeyOf[r], DigestOf[r]>> \in sess[p].keys
          /\ sess[p].current /\ req[r].epoch >= sess[p].epoch
       THEN sess' = [sess EXCEPT ![p].epoch = req[r].epoch] ELSE UNCHANGED sess
    /\ Answered(r) /\ UNCHANGED start

\* A start with this key is running: wait for the same task.
AdmitPending(r, p) ==
    /\ ~Known(r, p)
    /\ start[p] # NoStart /\ start[p].key = KeyOf[r]
    /\ IF start[p].digest # DigestOf[r] \/ start[p].stage = "stranded"
       THEN Answered(r) ELSE req' = [req EXCEPT ![r].pc = "waiting"]
    /\ UNCHANGED <<start, sess>>

\* A new key: the owner finds his session after a reconnect, or the project is
\* taken, or the limit is reached, or a start task is created.
Recoverable(r, p) ==
    Live(p) /\ sess[p].owner = OwnerOf[r] /\ req[r].epoch > sess[p].epoch
Taken(p) == start[p] # NoStart \/ sess[p] # NoSession \/ clean[p] # NoCleanup

AdmitNew(r, p) ==
    /\ ~Known(r, p)
    /\ ~(start[p] # NoStart /\ start[p].key = KeyOf[r])
    /\ \/ /\ Recoverable(r, p)
          /\ sess' = IF sess[p].current
                     THEN [sess EXCEPT ![p].epoch = req[r].epoch,
                                       ![p].keys = @ \cup {<<KeyOf[r], DigestOf[r]>>}]
                     ELSE sess
          /\ Answered(r) /\ UNCHANGED start
       \/ /\ ~Recoverable(r, p) /\ (Taken(p) \/ Load >= MaxSessions)
          /\ Answered(r) /\ UNCHANGED <<start, sess>>
       \/ /\ ~Recoverable(r, p) /\ ~Taken(p) /\ Load < MaxSessions
          /\ start' = [start EXCEPT ![p] =
                 [stage |-> "created", key |-> KeyOf[r], digest |-> DigestOf[r],
                  owner |-> OwnerOf[r], epoch |-> req[r].epoch, alive |-> TRUE,
                  current |-> TRUE, cancelled |-> FALSE]]
          /\ req' = [req EXCEPT ![r].pc = "waiting"] /\ UNCHANGED sess

\* _start_session, under self._guard, which is never held across an await.
Admit(r) ==
    LET p == ProjectOf[r] IN
    /\ req[r].pc = "fenced" /\ fence \in {"none", "done"}
    /\ fence' = "none"
    /\ IF closing # "no" THEN Answered(r) /\ UNCHANGED <<start, sess>>
       ELSE AdmitKnown(r, p) \/ AdmitPending(r, p) \/ AdmitNew(r, p)
    /\ UNCHANGED <<up, epoch, closing, clean, ctx, srvVars, events, faults>>

\* The request is cancelled while it waits: it cancels the shared task.
CancelRequest(r) ==
    LET p == ProjectOf[r] IN
    /\ req[r].pc = "waiting"
    /\ Answered(r)
    /\ start' = [start EXCEPT ![p].cancelled = TRUE]
    /\ UNCHANGED <<connVars, closing, sess, clean, ctx, srvVars, events,
                   faults>>

-----------------------------------------------------------------------------
(* The start task, _run_start.                                             *)

\* Every request that waits for the task of p learns how it ended.
Tell(p) == req' = [r \in Requests |->
    IF req[r].pc = "waiting" /\ ProjectOf[r] = p THEN Done ELSE req[r]]

FailForgets(p, page, server) ==
    start' = [start EXCEPT ![p] = NoStart] /\ Tell(p) /\ UNCHANGED clean

\* The exception path: what is held goes to a cleanup task, for which the start
\* task waits before it gives up the reservation.
Fail(p, page, server) ==
    IF page \/ server
    THEN /\ clean' = [clean EXCEPT ![p] =
                [phase |-> "browser", kind |-> "start", page |-> page, server |-> server,
                 failed |-> FALSE]]
         /\ start' = [start EXCEPT ![p].stage = "cleaning", ![p].cancelled = FALSE]
         /\ UNCHANGED req
    ELSE start' = [start EXCEPT ![p] = NoStart] /\ Tell(p) /\ UNCHANGED clean

Go(p, stage) == start' = [start EXCEPT ![p].stage = stage] /\ UNCHANGED <<req, clean>>

\* _ensure_lifecycle, ensure_current and _same_project.
Current(p) == start[p].alive /\ start[p].current

\* The first step of the task.  A task that is cancelled before it never runs,
\* so the finally clause that gives up the reservation does not run either.
Begin(p) ==
    /\ start[p].stage = "created"
    /\ IF start[p].cancelled
       THEN /\ start' = [start EXCEPT ![p].stage = "stranded"]
            /\ Tell(p) /\ UNCHANGED clean
       ELSE IF ~start[p].alive \/ Discover(Files[p]) = "error" THEN Fail(p, FALSE, FALSE)
       ELSE /\ start' = [start EXCEPT ![p].stage = IF p \in Full THEN "acquire" ELSE "approving",
                                      ![p].current = TRUE]
            /\ UNCHANGED <<req, clean>>
    /\ UNCHANGED <<connVars, closing, sess, ctx, srvVars, events, faults>>

\* The prompt is answered, runs out of time, or the task is cancelled.
Approved(p) ==
    /\ start[p].stage = "approving" /\ ~start[p].cancelled
    /\ IF Current(p) THEN Go(p, "acquire") ELSE Fail(p, FALSE, FALSE)
    /\ UNCHANGED <<connVars, closing, sess, ctx, srvVars, events, faults>>

NotApproved(p) ==
    /\ start[p].stage = "approving"
    /\ Fail(p, FALSE, FALSE)
    /\ UNCHANGED <<connVars, closing, sess, ctx, srvVars, events, faults>>

\* acquire() waits for a server that is stopping.  It fails on one that could
\* not be stopped, on a guessed port that is in use, when the broker is not
\* there, and when it is cancelled before the launch.
AcquireFails(p) ==
    /\ start[p].stage = "acquire"
    /\ Fail(p, FALSE, FALSE)
    /\ UNCHANGED <<connVars, closing, sess, ctx, srvVars, events, faults>>

\* After acquire() the authority is checked again, and the browser is launched.
Acquired(p) ==
    IF Current(p) THEN Go(p, "opening") ELSE Fail(p, FALSE, TRUE)

AcquireReused(p) ==
    /\ start[p].stage = "acquire" /\ ~start[p].cancelled
    /\ reg[p] = "none" /\ guard = {} /\ p \in External \ Guessed
    /\ reg' = [reg EXCEPT ![p] = "reused"]
    /\ Acquired(p)
    /\ UNCHANGED <<connVars, closing, sess, ctx, proc, guard, launchVars, events, faults>>

\* The broker is asked for a process, while the guard is held: until it answers
\* the process may run, and only the task of the broker knows it.
AcquireLaunches(p) ==
    /\ start[p].stage = "acquire" /\ ~start[p].cancelled
    /\ reg[p] = "none" /\ guard = {} /\ p \notin External
    /\ guard' = {p} /\ Go(p, "launching")
    /\ UNCHANGED <<connVars, closing, sess, ctx, reg, proc, launchVars, events, faults>>

\* The process is registered, and probed.
AcquireBoots(p) ==
    /\ start[p].stage = "launching" /\ ~start[p].cancelled
    /\ reg' = [reg EXCEPT ![p] = "serving"] /\ proc' = [proc EXCEPT ![p] = TRUE]
    /\ Go(p, "booting")
    /\ UNCHANGED <<connVars, closing, sess, ctx, guard, launchVars, events, faults>>

\* The broker cannot start it, or cannot end what it started in part.
LaunchFails(p) ==
    /\ start[p].stage = "launching" /\ ~start[p].cancelled
    /\ guard' = {} /\ Fail(p, FALSE, FALSE)
    /\ \/ UNCHANGED <<lost, faults>>
       \/ MayFail /\ lost' = [lost EXCEPT ![p] = @ + 1] /\ faults' = faults + 1
    /\ UNCHANGED <<connVars, closing, sess, ctx, reg, proc, aborting, events>>

LaunchForgotten(p) ==
    /\ start[p].stage = "launching" /\ start[p].cancelled
    /\ lost' = [lost EXCEPT ![p] = @ + 1]
    /\ start' = [start EXCEPT ![p].stage = "unlaunching", ![p].cancelled = FALSE]
    /\ UNCHANGED <<connVars, closing, req, sess, clean, ctx, reg, proc, aborting, guard, events, faults>>

\* start_process is cancelled: a task of the broker undoes the launch, for which
\* it waits until it is cancelled again.
LaunchCancelled(p) ==
    /\ start[p].stage = "launching" /\ start[p].cancelled
    /\ aborting' = [aborting EXCEPT ![p] = @ + 1]
    /\ start' = [start EXCEPT ![p].stage = "unlaunching", ![p].cancelled = FALSE]
    /\ UNCHANGED <<connVars, closing, req, sess, clean, ctx, reg, proc, lost, guard, events, faults>>

Unlaunched(p) ==
    /\ start[p].stage = "unlaunching"
    /\ aborting[p] = 0 \/ start[p].cancelled
    /\ guard' = {} /\ Fail(p, FALSE, FALSE)
    /\ UNCHANGED <<connVars, closing, sess, ctx, reg, proc, launchVars, events, faults>>

\* _recover_cancelled_start
RecoverStart(p) ==
    /\ aborting[p] > 0
    /\ aborting' = [aborting EXCEPT ![p] = @ - 1]
    /\ \/ UNCHANGED <<lost, faults>>
       \/ MayFail /\ lost' = [lost EXCEPT ![p] = @ + 1] /\ faults' = faults + 1
    /\ UNCHANGED <<connVars, closing, req, start, sess, clean, ctx, reg, proc, guard, events>>

Ready(p) ==
    /\ start[p].stage = "booting" /\ ~start[p].cancelled /\ proc[p]
    /\ guard' = {}
    /\ Acquired(p)
    /\ UNCHANGED <<connVars, closing, sess, ctx, reg, proc, launchVars, events, faults>>

\* It exits, is not ready in time, or the task is cancelled: it is stopped by a
\* task of its own, for which acquire() waits with the guard held.
NotReady(p) ==
    /\ start[p].stage = "booting"
    /\ reg' = [reg EXCEPT ![p] = "stopping"]
    /\ start' = [start EXCEPT ![p].stage = "unbooting", ![p].cancelled = FALSE]
    /\ UNCHANGED <<connVars, closing, req, sess, clean, ctx, proc, guard,
                   launchVars, events, faults>>

Unbooted(p) ==
    /\ start[p].stage = "unbooting"
    /\ reg[p] # "stopping" \/ start[p].cancelled
    /\ guard' = {}
    /\ Fail(p, FALSE, FALSE)
    /\ UNCHANGED <<connVars, closing, sess, ctx, reg, proc, launchVars, events, faults>>

\* browser.open(): a context is launched on the profile of the project, which
\* a browser that is still there does not share.
Opened(p) ==
    /\ start[p].stage = "opening" /\ ~start[p].cancelled /\ ctx[p] = "none"
    /\ ctx' = [ctx EXCEPT ![p] = "open"]
    /\ IF Current(p)
       THEN /\ sess' = [sess EXCEPT ![p] =
                   [phase |-> "live", keys |-> {<<start[p].key, start[p].digest>>},
                    owner |-> start[p].owner, epoch |-> start[p].epoch, current |-> TRUE]]
            /\ start' = [start EXCEPT ![p] = NoStart]
            /\ Tell(p) /\ UNCHANGED clean
       ELSE Fail(p, TRUE, TRUE) /\ UNCHANGED sess
    /\ UNCHANGED <<connVars, closing, srvVars, events, faults>>

\* open() fails and closes its context, or leaves it in _orphan_contexts.
NotOpened(p) ==
    /\ start[p].stage = "opening" /\ (start[p].cancelled => ctx[p] # "none")
    /\ \/ UNCHANGED <<ctx, faults>>
       \/ /\ MayFail /\ ctx[p] = "none"
          /\ ctx' = [ctx EXCEPT ![p] = "orphan"] /\ faults' = faults + 1
    /\ Fail(p, FALSE, TRUE)
    /\ UNCHANGED <<connVars, closing, sess, srvVars, events>>

\* The launch is cancelled: a cleanup task waits for the browser and closes it.
OpenCancelled(p) ==
    /\ start[p].stage = "opening" /\ start[p].cancelled /\ ctx[p] = "none"
    /\ ctx' = [ctx EXCEPT ![p] = "recovering"]
    /\ start' = [start EXCEPT ![p].stage = "unopening", ![p].cancelled = FALSE]
    /\ UNCHANGED <<connVars, closing, req, sess, clean, srvVars, events,
                   faults>>

Unopened(p) ==
    /\ start[p].stage = "unopening"
    /\ ctx[p] # "recovering" \/ start[p].cancelled
    /\ Fail(p, FALSE, TRUE)
    /\ UNCHANGED <<connVars, closing, sess, ctx, srvVars, events, faults>>

\* _recover_cancelled_launch
RecoverLaunch(p) ==
    /\ ctx[p] = "recovering"
    /\ \/ ctx' = [ctx EXCEPT ![p] = "none"] /\ UNCHANGED faults
       \/ MayFail /\ ctx' = [ctx EXCEPT ![p] = "orphan"] /\ faults' = faults + 1
    /\ UNCHANGED <<connVars, closing, req, start, sess, clean, srvVars,
                   events>>

StartEndsClean(p) ==
    /\ start[p].stage = "cleaning"
    /\ clean[p].phase = "none" \/ start[p].cancelled
    /\ start' = [start EXCEPT ![p] = NoStart] /\ Tell(p)
    /\ UNCHANGED <<connVars, closing, sess, clean, ctx, srvVars, events,
                   faults>>

\* The start task stops waiting for its cleanup.
StartEnds(p) ==
    /\ start[p].stage = "cleaning"
    /\ clean[p].phase \in {"none", "failed"} \/ start[p].cancelled
    /\ start' = [start EXCEPT ![p] = NoStart] /\ Tell(p)
    /\ UNCHANGED <<connVars, closing, sess, clean, ctx, srvVars, events,
                   faults>>

-----------------------------------------------------------------------------
(* The development server.                                                 *)

ServerExits(p) ==
    /\ proc[p]
    /\ proc' = [proc EXCEPT ![p] = FALSE]
    /\ UNCHANGED <<connVars, closing, req, start, sess, clean, ctx, reg,
                   guard, launchVars, events, faults>>

\* The task of _start_stop_locked: a server that does not die stays in
\* _stopping.
StopServer(p) ==
    /\ reg[p] = "stopping"
    /\ \/ /\ reg' = [reg EXCEPT ![p] = "none"] /\ proc' = [proc EXCEPT ![p] = FALSE]
          /\ UNCHANGED faults
       \/ /\ proc[p] /\ MayFail
          /\ reg' = [reg EXCEPT ![p] = "failed"] /\ faults' = faults + 1
          /\ UNCHANGED proc
    /\ UNCHANGED <<connVars, closing, req, start, sess, clean, ctx, guard,
                   launchVars, events>>

-----------------------------------------------------------------------------
(* Closing: _finish_close of a session and _finish_partial_cleanup of a     *)
(* start that failed.  Both close the page, then release the server, and    *)
(* fail when one of the two failed; a later task repeats what is left.      *)

\* _begin_close_locked: a new task unless one is running.
BeginClose(p) ==
    /\ sess' = [sess EXCEPT ![p].phase = "closing", ![p].keys = {}]
    /\ clean' = [clean EXCEPT ![p] =
           IF sess[p].phase = "live"
           THEN [phase |-> "browser", kind |-> "session", page |-> TRUE, server |-> TRUE,
                 failed |-> FALSE]
           ELSE IF @.phase = "failed" THEN [@ EXCEPT !.phase = "browser", !.failed = FALSE]
           ELSE @]

ClosePage(p) ==
    /\ clean[p].phase = "browser"
    /\ \/ /\ clean' = [clean EXCEPT ![p].phase = "server", ![p].page = FALSE]
          /\ ctx' = [ctx EXCEPT ![p] = IF clean[p].page THEN "none" ELSE @]
          /\ UNCHANGED faults
       \/ /\ clean[p].page /\ MayFail
          /\ clean' = [clean EXCEPT ![p].phase = "server", ![p].failed = TRUE]
          /\ faults' = faults + 1 /\ UNCHANGED ctx
    /\ UNCHANGED <<connVars, closing, req, start, sess, srvVars, events>>

ReleaseServerOnce(p) ==
    /\ clean[p].phase = "server" /\ clean[p].server /\ guard = {}
    /\ reg' = [reg EXCEPT ![p] = CASE @ = "reused" -> "none" [] @ = "failed" -> "failed"
                                   [] OTHER -> "stopping"]
    /\ clean' = [clean EXCEPT ![p].phase = "stopping"]
    /\ UNCHANGED <<connVars, closing, req, start, sess, ctx, proc, guard,
                   launchVars, events, faults>>

\* release(), up to the wait for the task that stops the server.
ReleaseServer(p) ==
    /\ clean[p].phase = "server" /\ clean[p].server /\ guard = {}
    /\ reg' = [reg EXCEPT ![p] = IF @ = "reused" THEN "none" ELSE "stopping"]
    /\ clean' = [clean EXCEPT ![p].phase = "stopping"]
    /\ UNCHANGED <<connVars, closing, req, start, sess, ctx, proc, guard,
                   launchVars, events, faults>>

\* The end of the task: the project is free again, or the failure is kept.
EndCleanup(p) ==
    LET released == clean[p].phase = "server" \/ reg[p] = "none" IN
    /\ \/ clean[p].phase = "server" /\ ~clean[p].server
       \/ clean[p].phase = "stopping" /\ reg[p] # "stopping"
    /\ IF released /\ ~clean[p].failed
       THEN /\ clean' = [clean EXCEPT ![p] = NoCleanup]
            /\ sess' = [sess EXCEPT ![p] = NoSession]
       ELSE /\ clean' = [clean EXCEPT ![p].phase = "failed", ![p].server = ~released]
            /\ UNCHANGED sess
    /\ UNCHANGED <<connVars, closing, req, start, ctx, srvVars, events,
                   faults>>

\* session_stop, by the owner and not from an older connection; close_project;
\* close_invalid_sessions and the reaper, also for a session that expired.
CloseSession(p) ==
    /\ closing = "no" /\ sess[p] # NoSession
    /\ BeginClose(p)
    /\ UNCHANGED <<connVars, closing, req, start, ctx, srvVars, events,
                   faults>>

\* The reaper retries what failed.
RetryCleanup(p) ==
    /\ closing = "no" /\ clean[p].phase = "failed"
    /\ clean' = [clean EXCEPT ![p].phase = "browser", ![p].failed = FALSE]
    /\ UNCHANGED <<connVars, closing, req, start, sess, ctx, srvVars, events,
                   faults>>

-----------------------------------------------------------------------------
(* close(): the starts are cancelled, then everything that is registered is *)
(* closed, then the servers that are left, then the contexts that are left. *)

Shutdown ==
    /\ closing = "no"
    /\ closing' = "starts" /\ start' = Cancelled
    /\ UNCHANGED <<connVars, req, sess, clean, ctx, srvVars, events, faults>>

\* _close_all_sessions
CloseAll ==
    /\ closing = "starts" /\ StartsEnded
    /\ closing' = "sessions"
    /\ sess' = [p \in Projects |->
           IF sess[p] = NoSession THEN NoSession
           ELSE [sess[p] EXCEPT !.phase = "closing", !.keys = {}]]
    /\ clean' = [p \in Projects |->
           IF sess[p].phase = "live"
           THEN [phase |-> "browser", kind |-> "session", page |-> TRUE, server |-> TRUE,
                 failed |-> FALSE]
           ELSE IF clean[p].phase = "failed"
           THEN [clean[p] EXCEPT !.phase = "browser", !.failed = FALSE]
           ELSE clean[p]]
    /\ UNCHANGED <<connVars, req, start, ctx, srvVars, events, faults>>

\* DevServerManager.close
CloseServers ==
    /\ closing = "sessions" /\ guard = {}
    /\ \A p \in Projects : clean[p].phase \in {"none", "failed"}
    /\ closing' = "servers"
    /\ reg' = [p \in Projects |-> CASE reg[p] \in {"serving", "failed"} -> "stopping"
                                  [] reg[p] = "reused" -> "none"
                                  [] OTHER -> reg[p]]
    /\ UNCHANGED <<connVars, req, start, sess, clean, ctx, proc, guard,
                   launchVars, events, faults>>

\* PlaywrightAdapter.close, after the cleanup tasks: the contexts that are left
\* and the driver, which may fail to stop.
CloseBrowser ==
    /\ closing = "servers"
    /\ \A p \in Projects : reg[p] # "stopping" /\ ctx[p] # "recovering"
    /\ closing' = "done"
    /\ \/ ctx' = [p \in Projects |-> "none"] /\ UNCHANGED faults
       \/ MayFail /\ faults' = faults + 1 /\ UNCHANGED ctx
    /\ UNCHANGED <<connVars, req, start, sess, clean, srvVars, events>>

-----------------------------------------------------------------------------
StartStep(p) ==
    \/ Begin(p) \/ Approved(p) \/ NotApproved(p) \/ AcquireFails(p) \/ AcquireReused(p)
    \/ AcquireLaunches(p) \/ AcquireBoots(p) \/ LaunchFails(p) \/ LaunchCancelled(p)
    \/ Unlaunched(p) \/ Ready(p) \/ NotReady(p) \/ Unbooted(p) \/ Opened(p)
    \/ NotOpened(p) \/ OpenCancelled(p) \/ Unopened(p) \/ StartEnds(p)

CleanupStep(p) ==
    \/ RecoverStart(p) \/ RecoverLaunch(p)
    \/ StopServer(p) \/ ClosePage(p) \/ ReleaseServer(p) \/ EndCleanup(p)

ShutdownStep == CloseAll \/ CloseServers \/ CloseBrowser

Next ==
    \/ Disconnect \/ Reconnect \/ FenceStarts \/ FenceDone \/ Revoke(Projects)
    \/ Shutdown \/ ShutdownStep
    \/ \E r \in Requests : Arrive(r) \/ Admit(r) \/ CancelRequest(r)
    \/ \E p \in Projects : \/ Revoke({p}) \/ StartStep(p) \/ ServerExits(p)
                            \/ CleanupStep(p) \/ CloseSession(p) \/ RetryCleanup(p)

Spec == Init /\ [][Next]_vars

\* The event loop runs every task that can move.  The reaper closes a session
\* that is not current any more, whoever else may close it.
Reap(p) == sess[p] # NoSession /\ ~sess[p].current /\ CloseSession(p)
Fairness ==
    /\ WF_vars(FenceStarts) /\ WF_vars(FenceDone) /\ WF_vars(ShutdownStep)
    /\ \A p \in Projects :
           /\ WF_vars(StartStep(p)) /\ WF_vars(StopServer(p))
           /\ WF_vars(RecoverStart(p)) /\ WF_vars(RecoverLaunch(p))
           /\ WF_vars(ClosePage(p) \/ ReleaseServer(p) \/ EndCleanup(p))
           /\ WF_vars(RetryCleanup(p)) /\ WF_vars(Reap(p))
FairSpec == Spec /\ Fairness

-----------------------------------------------------------------------------
\* Every variable has its type.
TypeOK ==
    /\ up \in BOOLEAN /\ epoch \in 1 .. MaxEpoch /\ guard \in {{}} \cup {{p} : p \in Projects}
    /\ \A p \in Projects :
        /\ start[p].stage \in {"none", "created", "approving", "acquire", "launching",
                              "unlaunching", "booting", "unbooting", "opening", "unopening", "cleaning", "stranded"}
        /\ sess[p].phase \in {"none", "live", "closing"}
        /\ clean[p].phase \in {"none", "browser", "server", "stopping", "failed"}
        /\ ctx[p] \in {"none", "open", "recovering", "orphan"}
        /\ reg[p] \in {"none", "reused", "serving", "stopping", "failed"}
        /\ aborting[p] \in Nat /\ lost[p] \in Nat

\* Who will release the server of p.
Holders(p) ==
    (IF start[p].stage \in {"booting", "opening", "unopening"} THEN {"start"} ELSE {})
    \cup (IF sess[p].phase = "live" THEN {"session"} ELSE {})
    \cup (IF clean[p] # NoCleanup /\ clean[p].server THEN {"cleanup"} ELSE {})

\* No browser and no server is lost, whenever a start is cancelled, fails, loses
\* its authority or is overtaken by a shutdown: a process is in a registry, but for
\* one whose launch is not answered yet, is being undone or could not be
\* undone; a server in use has exactly one holder, and so has an open page.
NothingLost ==
    \A p \in Projects :
        /\ proc[p] => reg[p] \in {"serving", "stopping", "failed"}
        /\ lost[p] > 0 => faults > 0
        /\ closing # "done" =>
               /\ reg[p] \in {"serving", "reused"} => Cardinality(Holders(p)) = 1
               /\ ctx[p] = "open" =>
                      sess[p].phase = "live" \/ (clean[p] # NoCleanup /\ clean[p].page)

\* Sessions, starts and cleanups together hold browsers and servers of at most
\* MaxSessions projects, although a start that fails counts twice for a while.
SessionsBounded ==
    Cardinality({p \in Projects : \/ start[p].stage \notin {"none", "stranded"}
                                  \/ sess[p] # NoSession \/ clean[p] # NoCleanup}) <= MaxSessions

\* After close() nothing that the agent started is left running, unless it
\* could not be closed, or the broker still undoes a launch whose task was cancelled
\* twice: nobody waits for that.
ShutdownComplete ==
    closing = "done" =>
        \A p \in Projects :
            /\ start[p].stage \notin {"launching", "unlaunching"}
            /\ faults = 0 => ~proc[p] /\ lost[p] = 0 /\ ctx[p] = "none" /\ sess[p] = NoSession

\* A session that lost its authority is closed, browser and server, even if a
\* first attempt to close them fails (unless the agent is shut down first).
OutdatedSessionsEnd ==
    \A p \in Projects :
        sess[p] # NoSession /\ ~sess[p].current ~> sess[p] = NoSession \/ closing # "no"

\* Every start ends and gives up its project, unless its task was cancelled
\* before its first step; and a shutdown ends.
StartsEnd ==
    /\ \A p \in Projects :
           start[p] # NoStart ~> start[p].stage \in {"none", "stranded"}
    /\ closing # "no" ~> closing = "done"

\* What docs/operations/frontend-inspection.md says of a session that nobody revoked:
\* when the tunnel is up again after a short disconnect, it may still be used.
SurvivesReconnect ==
    \A p \in Projects : up /\ events = 0 /\ sess[p].phase = "live" => sess[p].current

\* Sessions, starts, cleanups, servers and pages agree with each other after every
\* step, failure, cancellation and shutdown (frontend_sessions.py).
SessionsKept == TypeOK /\ NothingLost /\ SessionsBounded /\ ShutdownComplete
=============================================================================
