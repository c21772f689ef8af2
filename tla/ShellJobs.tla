----------------------------- MODULE ShellJobs -----------------------------
(***************************************************************************)
(* Shell jobs on the agent (agent/src/codito_agent/shell.py): idempotent   *)
(* start, approval, launch through the broker, timeout, cancellation, the  *)
(* grace period after a disconnect and the memory of finished jobs; with   *)
(* the gate that gives a physical workspace to one mutation at a time      *)
(* (operation_gate.py), the launch protocol of broker_client.py and the    *)
(* idempotency table of db.py.                                             *)
(*                                                                         *)
(* The code runs on one event loop: an action is what happens between two  *)
(* awaits.  A write to SQLite runs in a thread, so it is a step of its own *)
(* and goes on when the coroutine that awaits it is cancelled.  A job is   *)
(* named by the start request that created it.                             *)
(***************************************************************************)
EXTENDS Naturals, Sequences, FiniteSets

CONSTANTS
    Jobs,           \* start requests
    Slot,           \* Slot[r]: project and idempotency key of r
    Owner,          \* Owner[r]: the name under which r reserves its root
    Root,           \* Root[r]: fingerprint of the workspace r mutates
    Prompt,         \* requests that need an approval
    RetainLimit,    \* _terminal_job_limit
    MaxCancels,     \* bound: cancel calls
    MaxEvents,      \* bound: losses of the connection and revocations
    MaxRestarts     \* bound: deaths of the agent

Slots == {Slot[r] : r \in Jobs}
Owners == {Owner[r] : r \in Jobs}
Roots == {Root[r] : r \in Jobs}

ASSUME ShellAssumption ==
    /\ \A f \in {Slot, Owner, Root} : f = [r \in Jobs |-> f[r]]
    /\ "free" \notin Owners /\ "patch" \notin Owners
    /\ Prompt \subseteq Jobs
    /\ RetainLimit \in Nat \ {0}
    /\ {MaxCancels, MaxEvents, MaxRestarts} \subseteq Nat

VARIABLES
    pc,             \* progress of start()
    guard,          \* requests that hold self._guard across an await
    gate,           \* ProjectOperationGate._owners
    mem,            \* keys of self._jobs
    state,          \* job.state
    handle,         \* jobs with job.process
    task,           \* progress of _run_job
    interrupted,    \* tasks with a cancellation that is not delivered yet
    proc,           \* the process, in the operating system
    write,          \* writes to SQLite in flight, by job and writer
    row,            \* the idempotency table
    canceller,      \* progress of cancel()
    killer,         \* progress of _kill_after_grace
    retired,        \* self._terminal_jobs
    online,         \* the relay connection is up
    stale,          \* requests whose approval generation is no longer current
    events, restarts,
    \* history
    spawned,        \* jobs whose process was created
    cancelled       \* jobs on which cancel() was called

startVars == <<pc, guard, gate>>
jobVars == <<mem, state, handle, retired>>
taskVars == <<task, interrupted>>
procVars == <<proc, spawned>>
dbVars == <<write, row>>
stopVars == <<canceller, killer, cancelled>>
netVars == <<online, stale, events, restarts>>
vars == <<startVars, jobVars, taskVars, procVars, dbVars, stopVars, netVars>>

JobTerminal == {"completed", "failed", "cancelled", "outcome_unknown"}
JobStates == {"none", "pending_approval", "queued", "running"} \cup JobTerminal
RowTerminal == {"succeeded", "failed", "cancelled", "outcome_unknown"}
RowStates == {"running"} \cup RowTerminal
Writers == {"start", "task", "cancel"}
StartStates == {"idle", "prepared", "locked", "storing", "done"}
TaskStates == {"none", "created", "begin", "approving", "checking", "launching",
               "recovering", "running", "timing_out", "reaping", "aborting",
               "cleanup", "storing", "retiring", "done"}
ProcStates == {"none", "launching", "alive", "dead", "failed"}
NoRow == [state |-> "none", job |-> 0]

Init ==
    /\ pc = [r \in Jobs |-> "idle"] /\ guard = {}
    /\ gate = [w \in Roots |-> "free"]
    /\ mem = {} /\ handle = {} /\ retired = <<>>
    /\ state = [r \in Jobs |-> "none"]
    /\ task = [r \in Jobs |-> "none"] /\ interrupted = {}
    /\ proc = [r \in Jobs |-> "none"] /\ spawned = {}
    /\ write = [r \in Jobs |-> [w \in Writers |-> "none"]]
    /\ row = [k \in Slots |-> NoRow]
    /\ canceller = [r \in Jobs |-> "none"]
    /\ killer = [r \in Jobs |-> "none"] /\ cancelled = {}
    /\ online = TRUE /\ stale = {} /\ events = 0 /\ restarts = 0

-----------------------------------------------------------------------------
\* ProjectOperationGate.

CanReserve(r) == gate[Root[r]] = "free"
Reserve(r) == gate' = [gate EXCEPT ![Root[r]] = Owner[r]]
ReleaseAnyOwner(r) == gate' = [gate EXCEPT ![Root[r]] = "free"]
Release(r) ==
    gate' = IF gate[Root[r]] = Owner[r]
            THEN [gate EXCEPT ![Root[r]] = "free"] ELSE gate

\* A patch holds its root from the first check to the last write (hold).
PatchBegins(w) ==
    /\ gate[w] = "free"
    /\ gate' = [gate EXCEPT ![w] = "patch"]
    /\ UNCHANGED <<pc, guard, jobVars, taskVars, procVars, dbVars, stopVars, netVars>>

PatchEnds(w) ==
    /\ gate[w] = "patch"
    /\ gate' = [gate EXCEPT ![w] = "free"]
    /\ UNCHANGED <<pc, guard, jobVars, taskVars, procVars, dbVars, stopVars, netVars>>

-----------------------------------------------------------------------------
\* ShellManager.start.

StartEnds(r) == pc' = [pc EXCEPT ![r] = "done"]

\* put_idempotency is handed to a thread ...
Write(r, writer, s) == write' = [write EXCEPT ![r][writer] = s]

\* ... which inserts the row or overwrites it, whatever it holds.
WriteLands(r, writer) ==
    /\ write[r][writer] # "none"
    /\ row' = [row EXCEPT ![Slot[r]] = [state |-> write[r][writer], job |-> r]]
    /\ write' = [write EXCEPT ![r][writer] = "none"]
    /\ UNCHANGED <<startVars, jobVars, taskVars, procVars, stopVars, netVars>>

\* Validation, the first lookup of the idempotency key and the snapshot of the
\* approval generation.  A known key is answered by _existing_start, which
\* never starts anything.
Prepare(r) ==
    /\ pc[r] = "idle"
    /\ pc' = [pc EXCEPT ![r] =
                 IF row[Slot[r]] = NoRow THEN "prepared" ELSE "done"]
    /\ UNCHANGED <<guard, gate, jobVars, taskVars, procVars, dbVars, stopVars, netVars>>

\* The lock is taken and the generation checked; the deadline may be over.
Lock(r) ==
    /\ pc[r] = "prepared" /\ guard = {}
    /\ \/ /\ r \notin stale
          /\ guard' = {r} /\ pc' = [pc EXCEPT ![r] = "locked"]
       \/ StartEnds(r) /\ UNCHANGED guard
    /\ UNCHANGED <<gate, jobVars, taskVars, procVars, dbVars, stopVars, netVars>>

\* The second lookup, under the lock.
NeverKnown(r) == FALSE
Known(r) == row[Slot[r]] # NoRow

Admit(r) ==
    /\ pc[r] = "locked"
    /\ IF Known(r) \/ ~CanReserve(r)
       THEN /\ StartEnds(r) /\ guard' = {}
            /\ UNCHANGED <<gate, mem, state, write>>
       ELSE /\ pc' = [pc EXCEPT ![r] = "storing"]
            /\ Reserve(r)
            /\ mem' = mem \cup {r}
            /\ state' = [state EXCEPT ![r] =
                   IF r \in Prompt THEN "pending_approval" ELSE "queued"]
            /\ Write(r, "start", "running")
            /\ UNCHANGED guard
    /\ UNCHANGED <<handle, retired, taskVars, procVars, row, stopVars, netVars>>

\* The row is stored: the task is created and the lock released.
CreateTaskEarly(r) ==
    /\ pc[r] = "storing"
    /\ StartEnds(r) /\ guard' = {}
    /\ task' = [task EXCEPT ![r] = "created"]
    /\ UNCHANGED <<gate, jobVars, interrupted, procVars, dbVars, stopVars, netVars>>
CreateTask(r) ==
    /\ pc[r] = "storing" /\ write[r]["start"] = "none"
    /\ StartEnds(r) /\ guard' = {}
    /\ task' = [task EXCEPT ![r] = "created"]
    /\ UNCHANGED <<gate, jobVars, interrupted, procVars, dbVars, stopVars, netVars>>

\* The row cannot be stored.
StartFails(r) ==
    /\ pc[r] = "storing" /\ write[r]["start"] # "none"
    /\ StartEnds(r) /\ guard' = {}
    /\ Write(r, "start", "none")
    /\ mem' = mem \ {r}
    /\ Release(r)
    /\ UNCHANGED <<state, handle, retired, taskVars, procVars, row, stopVars, netVars>>

\* The budget of the tunnel operation ends: CancelledError is no Exception, so
\* only the lock is given back.
StartTimesOut(r) ==
    /\ pc[r] \in {"prepared", "locked", "storing"}
    /\ StartEnds(r) /\ guard' = guard \ {r}
    /\ UNCHANGED <<gate, jobVars, taskVars, procVars, dbVars, stopVars, netVars>>

-----------------------------------------------------------------------------
\* _run_job.  A cancellation is delivered when the task would go on, so every
\* step of its own needs that none is due.

At(r, p) == task[r] = p /\ r \notin interrupted
TaskGoes(r, p) == task' = [task EXCEPT ![r] = p]
Ends(r, s) == state' = [state EXCEPT ![r] = s] /\ TaskGoes(r, "cleanup")

\* The task runs for the first time and looks up the project.
TaskStarts(r) ==
    /\ At(r, "created") /\ TaskGoes(r, "begin")
    /\ UNCHANGED <<startVars, jobVars, interrupted, procVars, dbVars, stopVars, netVars>>

\* A prompt is opened, or ensure_current is called right away.
Begin(r) ==
    /\ At(r, "begin")
    /\ \/ r \in Prompt /\ TaskGoes(r, "approving") /\ UNCHANGED state
       \/ r \notin Prompt /\ r \notin stale /\ TaskGoes(r, "checking") /\ UNCHANGED state
       \/ Ends(r, "failed")
    /\ UNCHANGED <<startVars, mem, handle, retired, interrupted, procVars, dbVars,
                   stopVars, netVars>>

\* The user decides, or the prompt ends in another way.
Decide(r) ==
    /\ At(r, "approving")
    /\ \/ /\ r \notin stale
          /\ state' = [state EXCEPT ![r] = "queued"] /\ TaskGoes(r, "checking")
       \/ Ends(r, "failed")
    /\ UNCHANGED <<startVars, mem, handle, retired, interrupted, procVars, dbVars,
                   stopVars, netVars>>

\* Project, mode and executable are looked up again, then the broker is asked
\* to start the process.
Launch(r) ==
    /\ At(r, "checking")
    /\ \/ /\ TaskGoes(r, "launching")
          /\ proc' = [proc EXCEPT ![r] = "launching"]
          /\ UNCHANGED state
       \/ Ends(r, "failed") /\ UNCHANGED proc
    /\ UNCHANGED <<startVars, mem, handle, retired, interrupted, spawned, dbVars,
                   stopVars, netVars>>

\* _start_process_request, which is shielded from cancellation.
Spawn(r) ==
    /\ proc[r] = "launching"
    /\ \/ proc' = [proc EXCEPT ![r] = "alive"] /\ spawned' = spawned \cup {r}
       \/ proc' = [proc EXCEPT ![r] = "failed"] /\ UNCHANGED spawned
    /\ UNCHANGED <<startVars, jobVars, taskVars, dbVars, stopVars, netVars>>

Launched(r) ==
    /\ At(r, "launching")
    /\ \/ /\ proc[r] \in {"alive", "dead"}
          /\ handle' = handle \cup {r}
          /\ state' = [state EXCEPT ![r] = "running"] /\ TaskGoes(r, "running")
       \/ proc[r] = "failed" /\ Ends(r, "failed") /\ UNCHANGED handle
    /\ UNCHANGED <<startVars, mem, retired, interrupted, procVars, dbVars, stopVars,
                   netVars>>

\* The process ends, by itself or because it is killed.
ProcessExits(r) ==
    /\ proc[r] = "alive"
    /\ proc' = [proc EXCEPT ![r] = "dead"]
    /\ UNCHANGED <<startVars, jobVars, taskVars, spawned, dbVars, stopVars, netVars>>

\* The wait for the process ends, or its timeout does, which kills it.
Wait(r) ==
    /\ At(r, "running")
    /\ \/ proc[r] = "dead" /\ TaskGoes(r, "reaping")
       \/ proc[r] = "alive" /\ TaskGoes(r, "timing_out")
    /\ UNCHANGED <<startVars, jobVars, interrupted, procVars, dbVars, stopVars, netVars>>

TimedOut(r) ==
    /\ At(r, "timing_out") /\ proc[r] = "dead"
    /\ state' = [state EXCEPT ![r] = "failed"] /\ TaskGoes(r, "reaping")
    /\ UNCHANGED <<startVars, mem, handle, retired, interrupted, procVars, dbVars,
                   stopVars, netVars>>

\* The readers are done; the exit code decides unless the state is terminal.
Reap(r) ==
    /\ At(r, "reaping")
    /\ \/ state[r] \in JobTerminal /\ Ends(r, state[r])
       \/ state[r] \notin JobTerminal /\ \E s \in {"completed", "failed"} : Ends(r, s)
    /\ UNCHANGED <<startVars, mem, handle, retired, interrupted, procVars, dbVars,
                   stopVars, netVars>>

\* The cancellation is delivered.  Before the first step nothing of the body
\* runs; a launch is recovered first (start_process); a process is terminated;
\* inside the finally clause the rest of it is skipped.
Interrupt(r) ==
    /\ r \in interrupted
    /\ interrupted' = interrupted \ {r}
    /\ \/ /\ task[r] \in {"begin", "approving", "checking", "running", "timing_out",
                          "reaping"}
          /\ IF r \in handle /\ proc[r] = "alive"
             THEN TaskGoes(r, "aborting") /\ UNCHANGED state
             ELSE Ends(r, "cancelled")
       \/ task[r] = "launching" /\ TaskGoes(r, "recovering") /\ UNCHANGED state
       \/ /\ task[r] \in {"created", "cleanup", "storing", "retiring"}
          /\ TaskGoes(r, "done") /\ UNCHANGED state
    /\ UNCHANGED <<startVars, mem, handle, retired, procVars, dbVars, stopVars, netVars>>

\* The process is gone, so the handler of CancelledError goes on.
AbortedEarly(r) ==
    /\ At(r, "aborting") \/ At(r, "recovering")
    /\ Ends(r, "cancelled")
    /\ UNCHANGED <<startVars, mem, handle, retired, interrupted, procVars, dbVars,
                   stopVars, netVars>>
Aborted(r) ==
    /\ \/ At(r, "aborting") /\ proc[r] = "dead"
       \/ At(r, "recovering") /\ proc[r] \in {"dead", "failed"}
    /\ Ends(r, "cancelled")
    /\ UNCHANGED <<startVars, mem, handle, retired, interrupted, procVars, dbVars,
                   stopVars, netVars>>

RowState(s) == IF s = "completed" THEN "succeeded"
               ELSE IF s \in {"cancelled", "outcome_unknown"} THEN s ELSE "failed"

\* The finally clause: the root is released, then the terminal row written ...
FinalizeKeepsRoot(r) ==
    /\ At(r, "cleanup") /\ guard = {}
    /\ Write(r, "task", RowState(state[r]))
    /\ TaskGoes(r, "storing")
    /\ UNCHANGED <<startVars, jobVars, interrupted, procVars, row, stopVars, netVars>>
Finalize(r) ==
    /\ At(r, "cleanup") /\ guard = {}
    /\ Release(r)
    /\ Write(r, "task", RowState(state[r]))
    /\ TaskGoes(r, "storing")
    /\ UNCHANGED <<pc, guard, jobVars, interrupted, procVars, row, stopVars, netVars>>

Stored(r) ==
    /\ At(r, "storing") /\ write[r]["task"] = "none"
    /\ TaskGoes(r, "retiring")
    /\ UNCHANGED <<startVars, jobVars, interrupted, procVars, dbVars, stopVars, netVars>>

\* ... and the job joins the terminal jobs, of which the oldest is forgotten.
RetireTooLate(r) ==
    LET queue == Append(retired, r) IN
    /\ At(r, "retiring") /\ guard = {}
    /\ IF Len(queue) > RetainLimit + 1
       THEN retired' = Tail(queue) /\ mem' = mem \ {Head(queue)}
       ELSE retired' = queue /\ UNCHANGED mem
    /\ TaskGoes(r, "done")
    /\ UNCHANGED <<startVars, state, handle, interrupted, procVars, dbVars, stopVars,
                   netVars>>
Retire(r) ==
    LET queue == Append(retired, r) IN
    /\ At(r, "retiring") /\ guard = {}
    /\ IF Len(queue) > RetainLimit
       THEN /\ retired' = Tail(queue)
            /\ mem' = IF state[Head(queue)] \in JobTerminal
                      THEN mem \ {Head(queue)} ELSE mem
       ELSE retired' = queue /\ UNCHANGED mem
    /\ TaskGoes(r, "done")
    /\ UNCHANGED <<startVars, state, handle, interrupted, procVars, dbVars, stopVars,
                   netVars>>

-----------------------------------------------------------------------------
\* ShellManager.cancel.  The client has the job from the answer of a start, so
\* a task that exists has taken its first step, or from a repetition of the
\* start, so there is a row.

MarkCancelled(r) ==
    /\ state' = [state EXCEPT ![r] = "cancelled"]
    /\ interrupted' = IF task[r] \in {"none", "done"} THEN interrupted
                      ELSE interrupted \cup {r}
    /\ canceller' = [canceller EXCEPT ![r] = "releasing"]

Cancel(r) ==
    /\ r \in mem /\ pc[r] = "done"
    /\ task[r] # "created" /\ (task[r] = "none" => Known(r))
    /\ state[r] \notin JobTerminal
    /\ canceller[r] = "none" /\ Cardinality(cancelled) < MaxCancels
    /\ cancelled' = cancelled \cup {r}
    /\ IF r \in handle /\ proc[r] = "alive"
       THEN /\ canceller' = [canceller EXCEPT ![r] = "terminating"]
            /\ UNCHANGED <<state, interrupted>>
       ELSE MarkCancelled(r)
    /\ UNCHANGED <<startVars, mem, handle, retired, task, procVars, dbVars, killer,
                   netVars>>

CancelTerminated(r) ==
    /\ canceller[r] = "terminating" /\ proc[r] = "dead"
    /\ MarkCancelled(r)
    /\ UNCHANGED <<startVars, mem, handle, retired, task, procVars, dbVars, killer,
                   cancelled, netVars>>

CancelReleases(r) ==
    /\ canceller[r] = "releasing" /\ guard = {}
    /\ Release(r)
    /\ Write(r, "cancel", "cancelled")
    /\ canceller' = [canceller EXCEPT ![r] = "storing"]
    /\ UNCHANGED <<pc, guard, jobVars, taskVars, procVars, row, killer, cancelled,
                   netVars>>

CancelReturns(r) ==
    /\ canceller[r] = "storing" /\ write[r]["cancel"] = "none"
    /\ canceller' = [canceller EXCEPT ![r] = "done"]
    /\ UNCHANGED <<startVars, jobVars, taskVars, procVars, dbVars, killer, cancelled,
                   netVars>>

-----------------------------------------------------------------------------
\* The connection to the relay.

\* disconnected() cancels jobs that wait for an approval and gives the others
\* a grace period; invalidate_pending makes every open decision stale.
Disconnect ==
    LET asking == {r \in mem : state[r] = "pending_approval" /\ task[r] # "none"} IN
    /\ events < MaxEvents
    /\ online' = FALSE /\ events' = events + 1
    /\ stale' = {r \in Jobs : pc[r] # "idle"}
    /\ interrupted' = interrupted \cup {r \in asking : task[r] # "done"}
    /\ killer' = [r \in Jobs |->
           IF r \in mem \ asking /\ state[r] \notin JobTerminal /\ killer[r] = "none"
           THEN "sleeping" ELSE killer[r]]
    /\ UNCHANGED <<startVars, jobVars, task, procVars, dbVars, canceller, cancelled,
                   restarts>>

\* A permission is revoked or the session is locked.
Revoke ==
    /\ events < MaxEvents
    /\ events' = events + 1
    /\ stale' = {r \in Jobs : pc[r] # "idle"}
    /\ UNCHANGED <<startVars, jobVars, taskVars, procVars, dbVars, stopVars, online,
                   restarts>>

Reconnect ==
    /\ ~online
    /\ online' = TRUE
    /\ killer' = [r \in Jobs |-> IF r \in mem THEN "none" ELSE killer[r]]
    /\ UNCHANGED <<startVars, jobVars, taskVars, procVars, dbVars, canceller, cancelled,
                   stale, events, restarts>>

\* _kill_after_grace terminates a process that is known and still runs.
GraceExpires(r) ==
    LET running == r \in handle /\ state[r] \notin JobTerminal IN
    /\ killer[r] = "sleeping"
    /\ killer' = [killer EXCEPT ![r] =
           IF running /\ proc[r] = "alive" THEN "terminating" ELSE "ended"]
    /\ state' = IF running /\ proc[r] = "dead"
                THEN [state EXCEPT ![r] = "outcome_unknown"] ELSE state
    /\ UNCHANGED <<startVars, mem, handle, retired, taskVars, procVars, dbVars,
                   canceller, cancelled, netVars>>

GraceKills(r) ==
    /\ killer[r] = "terminating" /\ proc[r] = "dead"
    /\ state' = [state EXCEPT ![r] = "outcome_unknown"]
    /\ killer' = [killer EXCEPT ![r] = "ended"]
    /\ UNCHANGED <<startVars, mem, handle, retired, taskVars, procVars, dbVars,
                   canceller, cancelled, netVars>>

\* The agent dies.  Its processes die with their Job Objects; the table stays.
Restart ==
    /\ restarts < MaxRestarts
    /\ restarts' = restarts + 1
    /\ pc' = [r \in Jobs |-> IF pc[r] = "idle" THEN "idle" ELSE "done"]
    /\ guard' = {} /\ gate' = [w \in Roots |-> "free"]
    /\ mem' = {} /\ handle' = {} /\ retired' = <<>>
    /\ state' = [r \in Jobs |-> "none"]
    /\ task' = [r \in Jobs |-> "none"] /\ interrupted' = {}
    /\ proc' = [r \in Jobs |-> IF proc[r] \in {"launching", "alive"} THEN "dead"
                               ELSE proc[r]]
    /\ write' = [r \in Jobs |-> [w \in Writers |-> "none"]]
    /\ canceller' = [r \in Jobs |-> "none"]
    /\ killer' = [r \in Jobs |-> "none"]
    /\ online' = TRUE /\ stale' = {}
    /\ UNCHANGED <<spawned, row, cancelled, events>>

-----------------------------------------------------------------------------
StartNext(r) ==
    \/ Prepare(r) \/ Lock(r) \/ Admit(r) \/ CreateTask(r) \/ StartFails(r)
    \/ StartTimesOut(r) \/ \E w \in Writers : WriteLands(r, w)

TaskNext(r) ==
    \/ TaskStarts(r) \/ Begin(r) \/ Decide(r) \/ Launch(r) \/ Launched(r) \/ Wait(r)
    \/ TimedOut(r) \/ Reap(r) \/ Interrupt(r) \/ Aborted(r) \/ Finalize(r)
    \/ Stored(r) \/ Retire(r)

StopNext(r) ==
    \/ Cancel(r) \/ CancelTerminated(r) \/ CancelReleases(r) \/ CancelReturns(r)
    \/ GraceExpires(r) \/ GraceKills(r)

Next ==
    \/ \E r \in Jobs : StartNext(r) \/ TaskNext(r) \/ StopNext(r)
                       \/ Spawn(r) \/ ProcessExits(r)
    \/ \E w \in Roots : PatchBegins(w) \/ PatchEnds(w)
    \/ Disconnect \/ Revoke \/ Reconnect \/ Restart

Spec == Init /\ [][Next]_vars

\* The event loop runs what is ready, threads finish their writes, a process
\* that is being terminated dies, prompts and waits have timeouts.
BeingKilled(r) ==
    \/ task[r] \in {"timing_out", "recovering", "aborting"}
    \/ canceller[r] = "terminating" \/ killer[r] = "terminating"

Fairness ==
    /\ \A r \in Jobs :
           /\ WF_vars(Lock(r) \/ Admit(r) \/ CreateTask(r))
           /\ WF_vars(TaskNext(r))
           /\ WF_vars(Spawn(r))
           /\ WF_vars(BeingKilled(r) /\ ProcessExits(r))
           /\ WF_vars(CancelTerminated(r) \/ CancelReleases(r) \/ CancelReturns(r))
           /\ \A w \in Writers : WF_vars(WriteLands(r, w))
    /\ \A w \in Roots : WF_vars(PatchEnds(w))

-----------------------------------------------------------------------------
\* Properties.

\* Every variable has its type.
TypeOK ==
    /\ pc \in [Jobs -> StartStates] /\ guard \subseteq Jobs
    /\ gate \in [Roots -> Owners \cup {"free", "patch"}]
    /\ mem \subseteq Jobs /\ handle \subseteq Jobs /\ retired \in Seq(Jobs)
    /\ state \in [Jobs -> JobStates]
    /\ task \in [Jobs -> TaskStates] /\ interrupted \subseteq Jobs
    /\ proc \in [Jobs -> ProcStates] /\ spawned \subseteq Jobs
    /\ write \in [Jobs -> [Writers -> RowStates \cup {"none"}]]
    /\ row \in [Slots -> {NoRow} \cup [state: RowStates, job: Jobs]]
    /\ canceller \in [Jobs -> {"none", "terminating", "releasing", "storing", "done"}]
    /\ killer \in [Jobs -> {"none", "sleeping", "terminating", "ended"}]
    /\ cancelled \subseteq Jobs
    /\ online \in BOOLEAN /\ stale \subseteq Jobs
    /\ events \in Nat /\ restarts \in Nat

\* One idempotency key starts at most one process, whatever starts run at the
\* same time, fail, are cancelled or repeated after a restart (start, under
\* self._guard: "Identical concurrent starts must never create two jobs").
SpawnedOnce == \A r, s \in spawned : Slot[r] = Slot[s] => r = s

\* The requests whose reservation is named for their key alone.  The owner name
\* shell:{key} has no project in it, and the workspace of a project may be that of
\* another or lie outside: r is left out if a request for another row reserves the
\* same root under the same name, or one for its own row another root.
Unshared ==
    {r \in Jobs : \A s \in Jobs :
        Slot[r] = Slot[s] <=> (Root[r] = Root[s] /\ Owner[r] = Owner[s])}

\* A process that nobody cancelled holds its workspace: no patch and no other
\* shell job can be admitted to it (start, _run_job; shell.py), unless another
\* project reserves the same root under the same key: then the second release of a
\* cancelled job of the one gives back the reservation of the other.
OwnedWhileRunning ==
    \A r \in Unshared \ cancelled :
        proc[r] \in {"launching", "alive"} => gate[Root[r]] = Owner[r]

\* A live process has a task that will wait for it or end it (_run_job,
\* start_process), whatever cancellation met it.
NoUntrackedProcess ==
    \A r \in Jobs : proc[r] \in {"launching", "alive"} =>
        task[r] \in {"launching", "recovering", "running", "timing_out", "aborting"}

RowsStayTerminal ==
    \A r \in Unshared :
        row[Slot[r]].state \in RowTerminal => row'[Slot[r]].state \in RowTerminal

\* A terminal row is never overwritten by a nonterminal one, although
\* put_idempotency overwrites whatever is there (start, _run_job, cancel; shell.py).
\* The rows of requests that share the name of their reservation are left out.
TerminalRowStays == [][RowsStayTerminal]_vars

\* At most RetainLimit finished jobs stay in memory (_terminal_job_limit).  A
\* job on which cancel() was called is not counted: cancel() may interrupt the
\* finally clause of its task, and then nothing forgets the job.
RetainedBounded ==
    Cardinality({r \in mem \ cancelled : task[r] = "done" /\ state[r] \in JobTerminal})
        <= RetainLimit

\* A reserved workspace is free again or leaked in one of two ways: the budget of
\* the operation ended inside start(), which gives back only the lock, or the task of
\* a job was cancelled before its first step, so that its finally clause never runs
\* and the job stays pending (start, disconnected; shell.py).
Leaked(r) ==
    \/ pc[r] = "done" /\ task[r] = "none"
    \/ task[r] = "done" /\ state[r] = "pending_approval"

\* A workspace that is reserved is released again, unless a job that Leaked keeps it
\* (start, _run_job, cancel, disconnected; shell.py).
RootsFreed ==
    \A w \in Roots : gate[w] # "free" ~>
        gate[w] = "free" \/ \E r \in mem : Root[r] = w /\ Leaked(r)
=============================================================================
