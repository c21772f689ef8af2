----------------------------- MODULE Approvals -----------------------------
(***************************************************************************)
(* Local consent on the agent: the security generation and the prompts of  *)
(* approvals.py, the queue of ipc.py that carries a prompt to the tray and *)
(* its decision back, the permission tables of db.py, the access modes of  *)
(* access_policy.py, the handlers of the IPC thread in daemon.py, and the  *)
(* operations that ask (device_read.py, _file_operation of                 *)
(* protocol_adapter.py).                                                   *)
(*                                                                         *)
(* Two threads take part.  Operations run on the event loop and in its     *)
(* workers; the IPC thread serves one local request after the other.  They *)
(* share the generation and the grants under a lock.  The loop runs the    *)
(* callbacks of the IPC thread in order and only the first decision of a   *)
(* prompt counts (_resolve), so one decision per prompt is kept in flight. *)
(***************************************************************************)
EXTENDS Naturals

CONSTANTS
    Ops,            \* operations that need consent
    Key,            \* Key[o]: the permission that covers o, "none" if it has none
    FileOps,        \* operations of _file_operation
    Inside,         \* operations inside the project root
    FirstMode,      \* mode of the project at the start
    MaxGeneration   \* bound: security events

Keys == {Key[o] : o \in Ops} \ {"none"}
Modes == {"isolated", "ask", "project", "full"}

ASSUME ApprovalAssumption ==
    /\ Key = [o \in Ops |-> Key[o]]
    /\ FileOps \subseteq Ops /\ Inside \subseteq Ops /\ FirstMode \in Modes
    /\ MaxGeneration \in Nat

VARIABLES
    pc,             \* progress of an operation
    seen,           \* the generation an operation was started under
    proj,           \* the project row an operation has read
    shown,          \* the generation a prompt was opened under
    future,         \* the decision a prompt waits for
    handed,         \* the decision on its way to the loop
    generation,     \* _security_generation
    grants,         \* saved permissions
    project,        \* the project row
    ipc,            \* step of the IPC handler
    server,         \* TRUE while the IPC thread serves
    online,
    \* history
    basis,          \* what cleared an operation
    told,           \* the project row as last confirmed to the user
    victims,        \* operations a request of the user is about to stop
    void            \* operations stopped by a request that was confirmed

opVars == <<pc, seen, proj, shown, basis>>
promptVars == <<future, handed>>
localVars == <<generation, grants, project>>
ipcVars == <<ipc, server, told, victims, void>>
vars == <<opVars, promptVars, localVars, ipcVars, online>>

Decisions == {"deny", "once", "always"}
ProjectRow == [mode: Modes, enabled: BOOLEAN]
Stages == {"new", "started", "policy", "consult", "asking", "registering", "waiting",
           "cleared", "working", "rechecking", "acting", "finishing", "released", "failed"}

Init ==
    /\ pc = [o \in Ops |-> "new"]
    /\ seen = [o \in Ops |-> 0] /\ shown = [o \in Ops |-> 0]
    /\ project = [mode |-> FirstMode, enabled |-> TRUE]
    /\ proj = [o \in Ops |-> project]
    /\ future = [o \in Ops |-> "none"] /\ handed = [o \in Ops |-> "none"]
    /\ generation = 0 /\ grants = {}
    /\ ipc = "idle" /\ server = TRUE /\ online = TRUE
    /\ basis = [o \in Ops |-> "none"]
    /\ told = project /\ victims = {} /\ void = {}

-----------------------------------------------------------------------------
\* project_access_policy.

RequiresApproval(o, mode) == ~(mode = "full" \/ (mode = "project" /\ o \in Inside))
AllowsSaved(o, mode) == mode = "project" /\ Key[o] # "none"

-----------------------------------------------------------------------------
\* An operation.

Goes(o, stage) == pc' = [pc EXCEPT ![o] = stage]
TakeGeneration(o) == seen' = [seen EXCEPT ![o] = generation] /\ UNCHANGED proj
TakeProject(o) == proj' = [proj EXCEPT ![o] = project] /\ UNCHANGED seen

\* A read takes the generation first, a file operation the project.
Start(o) ==
    /\ pc[o] = "new" /\ online
    /\ Goes(o, "started")
    /\ IF o \in FileOps THEN TakeProject(o) ELSE TakeGeneration(o)
    /\ UNCHANGED <<shown, basis, promptVars, localVars, ipcVars, online>>

Snapshot(o) ==
    /\ pc[o] = "started"
    /\ Goes(o, "policy")
    /\ IF o \in FileOps THEN TakeGeneration(o) ELSE TakeProject(o)
    /\ UNCHANGED <<shown, basis, promptVars, localVars, ipcVars, online>>

\* ensure_current; the deadline may be over at any check.
Current(o) == seen[o] = generation

Policy(o) ==
    /\ pc[o] = "policy"
    /\ \/ Goes(o, "failed") /\ UNCHANGED basis
       \/ /\ Current(o) /\ proj[o].enabled /\ proj[o].mode # "isolated"
          /\ IF RequiresApproval(o, proj[o].mode)
             THEN Goes(o, "consult") /\ UNCHANGED basis
             ELSE Goes(o, "cleared") /\ basis' = [basis EXCEPT ![o] = "mode"]
    /\ UNCHANGED <<seen, proj, shown, promptVars, localVars, ipcVars, online>>

\* ApprovalManager.request: a saved permission, if the mode allows one ...
Consult(o) ==
    /\ pc[o] = "consult"
    /\ IF AllowsSaved(o, proj[o].mode) /\ Key[o] \in grants
       THEN Goes(o, "cleared") /\ basis' = [basis EXCEPT ![o] = "saved"]
       ELSE Goes(o, "asking") /\ UNCHANGED basis
    /\ UNCHANGED <<seen, proj, shown, promptVars, localVars, ipcVars, online>>

\* ... or a prompt, which remembers the generation, if there is time left ...
Ask(o) ==
    /\ pc[o] = "asking"
    /\ \/ Goes(o, "registering") /\ shown' = [shown EXCEPT ![o] = generation]
       \/ Goes(o, "failed") /\ UNCHANGED shown
    /\ UNCHANGED <<seen, proj, basis, promptVars, localVars, ipcVars, online>>

\* ... and is put into the queue.
Register(o) ==
    /\ pc[o] = "registering"
    /\ Goes(o, "waiting")
    /\ future' = [future EXCEPT ![o] = "open"]
    /\ UNCHANGED <<seen, proj, shown, basis, handed, localVars, ipcVars, online>>

\* The wait ends without a decision, or after the deadline.
Expire(o) ==
    /\ pc[o] = "waiting"
    /\ Goes(o, "failed")
    /\ future' = [future EXCEPT ![o] = "none"]
    /\ UNCHANGED <<seen, proj, shown, basis, handed, localVars, ipcVars, online>>

\* The decision counts if the generation has not changed; "always" is saved
\* under the same lock.
Counts(o) ==
    /\ shown[o] = generation /\ future[o] # "deny"
    /\ future[o] = "always" => AllowsSaved(o, proj[o].mode)

DecideSavesFirst(o) ==
    /\ pc[o] = "waiting" /\ future[o] \in Decisions
    /\ future' = [future EXCEPT ![o] = "none"]
    /\ grants' = IF future[o] = "always" /\ AllowsSaved(o, proj[o].mode)
                 THEN grants \cup {Key[o]} ELSE grants
    /\ IF Counts(o)
       THEN Goes(o, "cleared") /\ basis' = [basis EXCEPT ![o] = "user"]
       ELSE Goes(o, "failed") /\ UNCHANGED basis
    /\ UNCHANGED <<seen, proj, shown, handed, generation, project, ipcVars, online>>
Decide(o) ==
    /\ pc[o] = "waiting" /\ future[o] \in Decisions
    /\ future' = [future EXCEPT ![o] = "none"]
    /\ IF Counts(o)
       THEN /\ Goes(o, "cleared") /\ basis' = [basis EXCEPT ![o] = "user"]
            /\ grants' = IF future[o] = "always" THEN grants \cup {Key[o]} ELSE grants
       ELSE Goes(o, "failed") /\ UNCHANGED <<basis, grants>>
    /\ UNCHANGED <<seen, proj, shown, handed, generation, project, ipcVars, online>>

\* The generation is checked before the worker, by the worker, and before the
\* result is returned; a file operation reads the project again each time.
AfterCheck(o) ==
    CASE pc[o] = "cleared" -> "working"
      [] pc[o] = "working" -> IF o \in FileOps THEN "rechecking" ELSE "acting"
      [] pc[o] = "acting" -> IF o \in FileOps THEN "finishing" ELSE "released"

CheckGeneration(o) ==
    /\ pc[o] \in {"cleared", "working", "acting"}
    /\ Goes(o, "failed") \/ (Current(o) /\ Goes(o, AfterCheck(o)))
    /\ UNCHANGED <<seen, proj, shown, basis, promptVars, localVars, ipcVars,
                   online>>

SameProjectAssumed(o) == TRUE
SameProject(o) == project.enabled /\ project.mode = proj[o].mode

CheckProject(o) ==
    /\ pc[o] \in {"rechecking", "finishing"}
    /\ IF SameProject(o)
       THEN Goes(o, IF pc[o] = "rechecking" THEN "acting" ELSE "released")
       ELSE Goes(o, "failed")
    /\ UNCHANGED <<seen, proj, shown, basis, promptVars, localVars, ipcVars,
                   online>>

-----------------------------------------------------------------------------
\* QueuedApprovalPrompt.

Open == {o \in Ops : pc[o] = "waiting" /\ future[o] = "open"}

\* call_soon_threadsafe with a decision for each of some prompts.
HandOver(S, d) ==
    handed' = [o \in Ops |-> IF o \in S \cap Open /\ handed[o] = "none" THEN d
                             ELSE handed[o]]
DenyAll == HandOver(Ops, "deny")

\* _resolve, on the loop.
Resolve(o) ==
    /\ handed[o] # "none"
    /\ future' = IF o \in Open THEN [future EXCEPT ![o] = handed[o]] ELSE future
    /\ handed' = [handed EXCEPT ![o] = "none"]
    /\ UNCHANGED <<opVars, localVars, ipcVars, online>>

-----------------------------------------------------------------------------
\* The IPC thread.

Serves == server /\ ipc = "idle"

\* respond and respond_toast: a decision of the local user.
Respond(o, d) ==
    /\ Serves /\ o \in Open
    /\ HandOver({o}, d)
    /\ ipc' = "answer" /\ victims' = {}
    /\ UNCHANGED <<opVars, future, localVars, server, told, void, online>>

\* The operations that a request of the user must stop: those with a prompt
\* or with consent.
Consented == {o \in Ops : pc[o] \notin {"new", "started", "policy", "consult", "asking",
                                        "registering", "released", "failed"}
                          /\ basis[o] # "mode"}

Bump == generation < MaxGeneration /\ generation' = generation + 1

Begins(step) ==
    /\ Serves /\ ipc' = step /\ victims' = Consented
    /\ UNCHANGED <<opVars, promptVars, server, told, void, online>>

\* permissions.revoke: the row and the generation change under one lock.
RevokeWithoutBump(k) ==
    /\ k \in grants /\ grants' = grants \ {k}
    /\ Begins("deny")
    /\ UNCHANGED <<generation, project>>
Revoke(k) ==
    /\ k \in grants /\ grants' = grants \ {k}
    /\ Bump /\ Begins("deny")
    /\ UNCHANGED project

\* *_permissions.revoke_all
RevokeAll ==
    /\ grants' = {}
    /\ Bump /\ Begins("deny")
    /\ UNCHANGED project

\* project.mode
SetMode(mode) ==
    /\ generation < MaxGeneration
    /\ project' = [project EXCEPT !.mode = mode]
    /\ Begins("clear_deny")
    /\ UNCHANGED <<generation, grants>>

\* project.enabled
SetEnabled(enabled) ==
    /\ generation < MaxGeneration
    /\ project' = [project EXCEPT !.enabled = enabled]
    /\ Begins("clear")
    /\ UNCHANGED <<generation, grants>>

\* ApprovalManager.clear in a handler; session grants are never eligible.
Clear ==
    /\ ipc \in {"clear", "clear_deny"}
    /\ ipc' = IF ipc = "clear" THEN "answer" ELSE "deny"
    /\ generation' = generation + 1
    /\ UNCHANGED <<opVars, promptVars, grants, project, server, told, victims, void,
                   online>>

Deny ==
    /\ ipc = "deny" /\ ipc' = "answer"
    /\ DenyAll
    /\ UNCHANGED <<opVars, future, localVars, server, told, victims, void, online>>

\* The user is told.  If the tray is gone, the exception of send_bytes ends
\* the thread.
Answer ==
    /\ ipc = "answer" /\ ipc' = "idle"
    /\ \/ void' = void \cup victims /\ told' = project /\ UNCHANGED server
       \/ server' = FALSE /\ UNCHANGED <<void, told>>
    /\ victims' = {}
    /\ UNCHANGED <<opVars, promptVars, localVars, online>>

\* approval.next: the tray asks for a prompt and may be gone before the answer.
NextRequest ==
    /\ Serves /\ ipc' = "answer" /\ victims' = {}
    /\ UNCHANGED <<opVars, promptVars, localVars, server, told, void, online>>

-----------------------------------------------------------------------------
\* _connection_changed and _clear_grants_after_disconnect, on the loop.

Disconnect ==
    /\ online /\ online' = FALSE
    /\ Bump /\ DenyAll
    /\ UNCHANGED <<opVars, future, grants, project, ipcVars>>

ClearAfterDisconnect ==
    /\ ~online /\ Bump
    /\ UNCHANGED <<opVars, promptVars, grants, project, ipcVars, online>>

Reconnect ==
    /\ ~online /\ online' = TRUE
    /\ UNCHANGED <<opVars, promptVars, localVars, ipcVars>>

-----------------------------------------------------------------------------
OpNext(o) ==
    \/ Start(o) \/ Snapshot(o) \/ Policy(o) \/ Consult(o) \/ Ask(o) \/ Register(o)
    \/ Expire(o) \/ Decide(o) \/ CheckGeneration(o) \/ CheckProject(o) \/ Resolve(o)

IpcNext ==
    \/ \E o \in Ops, d \in Decisions : Respond(o, d)
    \/ \E k \in Keys : Revoke(k)
    \/ \E m \in Modes : SetMode(m)
    \/ \E b \in BOOLEAN : SetEnabled(b)
    \/ RevokeAll \/ Clear \/ Deny \/ Answer \/ NextRequest

Next ==
    \/ \E o \in Ops : OpNext(o)
    \/ IpcNext \/ Disconnect \/ ClearAfterDisconnect \/ Reconnect

Spec == Init /\ [][Next]_vars

-----------------------------------------------------------------------------
\* Properties.

\* Every variable has its type.
TypeOK ==
    /\ pc \in [Ops -> Stages]
    /\ seen \in [Ops -> Nat] /\ shown \in [Ops -> Nat] /\ generation \in Nat
    /\ project \in ProjectRow /\ told \in ProjectRow /\ proj \in [Ops -> ProjectRow]
    /\ future \in [Ops -> Decisions \cup {"none", "open"}]
    /\ handed \in [Ops -> Decisions \cup {"none"}]
    /\ grants \subseteq Keys
    /\ ipc \in {"idle", "clear", "clear_deny", "deny", "answer"}
    /\ server \in BOOLEAN /\ online \in BOOLEAN
    /\ basis \in [Ops -> {"none", "mode", "saved", "user"}]
    /\ victims \subseteq Ops /\ void \subseteq Ops

\* Once the user was told that a permission is revoked or the access changed,
\* no operation that had a prompt or consent when the user asked
\* is cleared or passes a check of the generation (approval-policy.md: "Revocation invalidates pending requests").
RevokedNeverPasses ==
    [][\A o \in void : \/ pc'[o] = pc[o] \/ pc'[o] = "failed"
                       \/ pc[o] \in {"rechecking", "finishing"}]_vars

\* An operation that went on without a prompt acts, or returns data, only if
\* the mode that the user was told of, or the one now stored, needs none.
ModeStillAllows ==
    [][\A o \in Ops :
         basis[o] = "mode" /\ pc'[o] # pc[o] /\ pc'[o] \in {"acting", "released"} =>
             \E p \in {project, told} : p.enabled /\ ~RequiresApproval(o, p.mode)]_vars

\* A permission is saved only by a decision on a prompt that no confirmed
\* revocation has met.
RevokedNeverSaves ==
    [][\A k \in Keys : k \in grants' \ grants =>
         \E o \in Ops \ void : Key[o] = k /\ pc[o] = "waiting" /\ pc'[o] = "cleared"]_vars
=============================================================================
