--------------------------- MODULE ApprovalProofs ---------------------------
(***************************************************************************)
(* Theorems about Approvals, for any number of operations, any permissions *)
(* and any number of security events.                                      *)
(***************************************************************************)
EXTENDS Approvals, TLAPS

\* Every key of an operation is "none" or one of Keys.
LEMMA KeyOf ==
    ASSUME NEW o \in Ops, Key[o] # "none"
    PROVE  Key[o] \in Keys
  BY DEF Keys

-----------------------------------------------------------------------------
\* Types.

\* A step of an operation keeps the types.
LEMMA OpTypes ==
    ASSUME TypeOK, NEW o \in Ops, OpNext(o)
    PROVE  TypeOK'
  <1> USE DEF TypeOK, Goes, TakeGeneration, TakeProject, Stages, Decisions, opVars,
              promptVars, localVars, ipcVars
  <1>1. CASE Start(o) \/ Snapshot(o)
    BY <1>1 DEF Start, Snapshot
  <1>2. CASE Policy(o) \/ Consult(o)
    BY <1>2 DEF Policy, Consult
  <1>3. CASE Ask(o) \/ Register(o) \/ Expire(o)
    BY <1>3 DEF Ask, Register, Expire
  <1>4. CASE Decide(o)
    <2>1. grants' \subseteq Keys
      <3>1. CASE Counts(o) /\ future[o] = "always"
        <4>1. Key[o] \in Keys
          BY <3>1, KeyOf DEF Counts, AllowsSaved
        <4> QED BY <1>4, <3>1, <4>1 DEF Decide
      <3>2. CASE ~(Counts(o) /\ future[o] = "always")
        BY <1>4, <3>2 DEF Decide
      <3> QED BY <3>1, <3>2
    <2>2. pc' \in [Ops -> Stages] /\ basis' \in [Ops -> {"none", "mode", "saved", "user"}]
      BY <1>4 DEF Decide
    <2>3. future' \in [Ops -> Decisions \cup {"none", "open"}]
      BY <1>4 DEF Decide
    <2> QED BY <1>4, <2>1, <2>2, <2>3 DEF Decide
  <1>5. CASE CheckGeneration(o) \/ CheckProject(o)
    <2>1. pc[o] \in {"cleared", "working", "acting"} => AfterCheck(o) \in Stages
      BY DEF AfterCheck
    <2>2. pc' \in [Ops -> Stages]
      BY <1>5, <2>1 DEF CheckGeneration, CheckProject
    <2> QED BY <1>5, <2>2 DEF CheckGeneration, CheckProject
  <1>6. CASE Resolve(o)
    BY <1>6 DEF Resolve
  <1> QED BY <1>1, <1>2, <1>3, <1>4, <1>5, <1>6 DEF OpNext

\* A step of the IPC thread keeps the types.
LEMMA IpcTypes ==
    ASSUME TypeOK, IpcNext
    PROVE  TypeOK'
  <1> USE DEF TypeOK, opVars, promptVars, localVars, ipcVars, Begins, Bump, HandOver,
              DenyAll, Decisions, ProjectRow, Consented
  <1>1. ASSUME NEW o \in Ops, NEW d \in Decisions, Respond(o, d) PROVE TypeOK'
    BY <1>1 DEF Respond
  <1>2. ASSUME NEW k \in Keys, Revoke(k) PROVE TypeOK'
    BY <1>2 DEF Revoke
  <1>3. CASE RevokeAll
    BY <1>3 DEF RevokeAll
  <1>4. ASSUME NEW m \in Modes, SetMode(m) PROVE TypeOK'
    BY <1>4 DEF SetMode
  <1>5. ASSUME NEW b \in BOOLEAN, SetEnabled(b) PROVE TypeOK'
    BY <1>5 DEF SetEnabled
  <1>6. CASE Clear
    BY <1>6 DEF Clear
  <1>7. CASE Deny
    BY <1>7 DEF Deny
  <1>8. CASE Answer
    BY <1>8 DEF Answer
  <1>9. CASE NextRequest
    BY <1>9 DEF NextRequest
  <1> QED BY <1>1, <1>2, <1>3, <1>4, <1>5, <1>6, <1>7, <1>8, <1>9 DEF IpcNext

\* Every reachable state is typed.
THEOREM ApprovalTypes == Spec => []TypeOK
  <1> USE DEF opVars, promptVars, localVars, ipcVars
  <1>1. Init => TypeOK
    BY ApprovalAssumption DEF Init, TypeOK, Stages, ProjectRow
  <1>2. TypeOK /\ [Next]_vars => TypeOK'
    <2> SUFFICES ASSUME TypeOK, [Next]_vars PROVE TypeOK'
      OBVIOUS
    <2>1. CASE Disconnect
      <3>1. online' \in BOOLEAN
        BY <2>1, Zenon DEF Disconnect
      <3>2. handed' \in [Ops -> Decisions \cup {"none"}]
        BY <2>1 DEF Disconnect, TypeOK, DenyAll, HandOver, Decisions
      <3>3. generation' \in Nat
        BY <2>1 DEF Disconnect, TypeOK, Bump
      <3> QED BY <2>1, <3>1, <3>2, <3>3 DEF Disconnect, TypeOK
    <2>2. CASE ClearAfterDisconnect
      <3>1. generation' \in Nat
        BY <2>2 DEF ClearAfterDisconnect, TypeOK, Bump
      <3> QED BY <2>2, <3>1 DEF ClearAfterDisconnect, TypeOK
    <2>3. CASE Reconnect
      <3>1. online' \in BOOLEAN
        BY <2>3, Zenon DEF Reconnect
      <3> QED BY <2>3, <3>1 DEF Reconnect, TypeOK
    <2>4. CASE UNCHANGED vars
      BY <2>4 DEF vars, TypeOK
    <2> QED BY <2>1, <2>2, <2>3, <2>4, OpTypes, IpcTypes DEF Next
  <1> QED BY <1>1, <1>2, PTL DEF Spec

-----------------------------------------------------------------------------
\* Revocation.  What an operation remembers of the generation is never ahead of
\* it.  An operation that a request of the user must stop took its snapshots
\* before that request raised the generation, and takes none again.

Early == {"new", "started", "policy", "consult", "asking", "registering"}

Stopped == void \cup (IF ipc \in {"deny", "answer"} THEN victims ELSE {})

StopInv ==
    /\ \A o \in Ops : seen[o] <= generation /\ shown[o] <= generation
    /\ \A o \in void \cup victims : pc[o] \notin Early
    /\ \A o \in Stopped : seen[o] < generation /\ shown[o] < generation

\* An operation does not take a snapshot any more once it is past its prompt.
LEMMA OpStops ==
    ASSUME TypeOK, StopInv, NEW o \in Ops, OpNext(o)
    PROVE  StopInv'
  <1> USE DEF TypeOK, Goes, TakeGeneration, TakeProject, opVars, promptVars, localVars,
              ipcVars
  <1>1. UNCHANGED <<generation, void, victims, ipc>>
    BY DEF OpNext, Start, Snapshot, Policy, Consult, Ask, Register, Expire, Decide,
           CheckGeneration, CheckProject, Resolve
  <1>2. \A s \in Ops : s # o =>
            pc'[s] = pc[s] /\ seen'[s] = seen[s] /\ shown'[s] = shown[s]
    BY DEF OpNext, Start, Snapshot, Policy, Consult, Ask, Register, Expire, Decide,
           CheckGeneration, CheckProject, Resolve
  <1>3. \/ seen'[o] = seen[o] \/ (seen'[o] = generation /\ pc[o] \in Early)
    BY DEF OpNext, Start, Snapshot, Policy, Consult, Ask, Register, Expire, Decide,
           CheckGeneration, CheckProject, Resolve, Early
  <1>4. \/ shown'[o] = shown[o] \/ (shown'[o] = generation /\ pc[o] \in Early)
    BY DEF OpNext, Start, Snapshot, Policy, Consult, Ask, Register, Expire, Decide,
           CheckGeneration, CheckProject, Resolve, Early
  <1>5. pc[o] \notin Early => pc'[o] \notin Early
    <2>1. CASE CheckGeneration(o)
      BY <2>1 DEF CheckGeneration, AfterCheck, Early
    <2>2. CASE ~CheckGeneration(o)
      BY <2>2 DEF OpNext, Start, Snapshot, Policy, Consult, Ask, Register, Expire, Decide,
                  CheckProject, Resolve, Early
    <2> QED BY <2>1, <2>2
  <1>6. Stopped' = Stopped
    BY <1>1 DEF Stopped
  <1>7. Stopped \subseteq void \cup victims
    BY DEF Stopped
  <1>8. \A s \in Ops : seen'[s] <= generation /\ shown'[s] <= generation
    BY <1>2, <1>3, <1>4 DEF StopInv
  <1>9. \A s \in void \cup victims : pc'[s] \notin Early
    BY <1>2, <1>5 DEF StopInv
  <1>10. \A s \in Stopped : seen'[s] < generation /\ shown'[s] < generation
    BY <1>2, <1>3, <1>4, <1>7 DEF StopInv
  <1> QED BY <1>1, <1>6, <1>8, <1>9, <1>10 DEF StopInv

\* A request begins with the operations that have a prompt or consent, and
\* raises the generation before it ends.
LEMMA IpcStops ==
    ASSUME TypeOK, StopInv, IpcNext
    PROVE  StopInv'
  <1> USE DEF TypeOK, opVars, promptVars, localVars, ipcVars
  <1>1. UNCHANGED <<pc, seen, shown>>
    BY DEF IpcNext, Respond, Revoke, RevokeAll, SetMode, SetEnabled, Clear, Deny, Answer,
           NextRequest, Begins
  <1>2. \A o \in Consented : pc[o] \notin Early
    BY DEF Consented, Early
  <1>3. CASE RevokeAll \/ \E k \in Keys : Revoke(k)
    <2>1. /\ ipc = "idle" /\ ipc' = "deny" /\ victims' = Consented /\ UNCHANGED void
          /\ generation' = generation + 1
      BY <1>3 DEF RevokeAll, Revoke, Begins, Bump, Serves
    <2>2. Consented \subseteq Ops
      BY DEF Consented
    <2>3. Stopped' = void \cup Consented
      BY <2>1 DEF Stopped
    <2> QED BY <1>1, <1>2, <2>1, <2>2, <2>3 DEF StopInv, Stopped
  <1>4. CASE \/ \E m \in Modes : SetMode(m)
             \/ \E b \in BOOLEAN : SetEnabled(b)
    <2>1. /\ ipc' \in {"clear", "clear_deny"} /\ victims' = Consented
          /\ UNCHANGED <<void, generation>>
      BY <1>4 DEF SetMode, SetEnabled, Begins
    <2>2. Stopped' = void
      BY <2>1 DEF Stopped
    <2> QED BY <1>1, <1>2, <2>1, <2>2 DEF StopInv, Stopped
  <1>5. CASE Clear
    <2>1. UNCHANGED <<void, victims>> /\ generation' = generation + 1
      BY <1>5 DEF Clear
    <2>2. Stopped' \subseteq void \cup victims
      BY <2>1 DEF Stopped
    <2> QED BY <1>1, <2>1, <2>2 DEF StopInv
  <1>6. CASE Deny
    <2>1. UNCHANGED <<void, victims, generation>> /\ ipc = "deny" /\ ipc' = "answer"
      BY <1>6 DEF Deny
    <2> QED BY <1>1, <2>1 DEF StopInv, Stopped
  <1>7. CASE Answer
    <2>1. /\ void' \subseteq void \cup victims /\ victims' = {} /\ ipc = "answer"
          /\ UNCHANGED generation
      BY <1>7 DEF Answer
    <2>2. Stopped' \subseteq Stopped
      BY <2>1 DEF Stopped
    <2> QED BY <1>1, <2>1, <2>2 DEF StopInv
  <1>8. CASE NextRequest \/ \E o \in Ops, d \in Decisions : Respond(o, d)
    <2>1. UNCHANGED <<void, generation>> /\ victims' = {}
      BY <1>8 DEF NextRequest, Respond
    <2>2. Stopped' = void
      BY <2>1 DEF Stopped
    <2> QED BY <1>1, <2>1, <2>2 DEF StopInv, Stopped
  <1> QED BY <1>3, <1>4, <1>5, <1>6, <1>7, <1>8 DEF IpcNext

\* The invariant holds.
LEMMA StopHolds == Spec => []StopInv
  <1> USE DEF opVars, promptVars, localVars, ipcVars
  <1>1. Init => StopInv
    BY DEF Init, StopInv, Stopped
  <1>2. TypeOK /\ StopInv /\ [Next]_vars => StopInv'
    <2> SUFFICES ASSUME TypeOK, StopInv, [Next]_vars PROVE StopInv'
      OBVIOUS
    <2>1. CASE Disconnect \/ ClearAfterDisconnect
      <3>1. /\ UNCHANGED <<pc, seen, shown, void, victims, ipc>>
            /\ generation' = generation + 1
        BY <2>1 DEF Disconnect, ClearAfterDisconnect, Bump
      <3>2. Stopped' = Stopped /\ Stopped \subseteq Ops
        BY <3>1 DEF Stopped, TypeOK
      <3> QED BY <3>1, <3>2 DEF StopInv, TypeOK
    <2>2. CASE Reconnect \/ UNCHANGED vars
      <3>1. UNCHANGED <<pc, seen, shown, void, victims, ipc, generation>>
        BY <2>2 DEF Reconnect, vars
      <3> QED BY <3>1 DEF StopInv, Stopped
    <2> QED BY <2>1, <2>2, OpStops, IpcStops DEF Next
  <1> QED BY <1>1, <1>2, ApprovalTypes, PTL DEF Spec

\* Once a revocation or a change of access is confirmed, no operation that had a
\* prompt or consent when it was requested is cleared or passes a check.
THEOREM RevocationStops == Spec => RevokedNeverPasses
  <1> DEFINE Stays == \A o \in void : \/ pc'[o] = pc[o] \/ pc'[o] = "failed"
                                      \/ pc[o] \in {"rechecking", "finishing"}
  <1> USE DEF opVars, promptVars, localVars, ipcVars
  <1>1. TypeOK /\ StopInv /\ [Next]_vars => [Stays]_vars
    <2> SUFFICES ASSUME TypeOK, StopInv, Next PROVE Stays
      OBVIOUS
    <2>0. UNCHANGED pc => Stays
      OBVIOUS
    <2>1. ASSUME NEW s \in Ops, OpNext(s) PROVE Stays
      <3> SUFFICES ASSUME NEW o \in void PROVE
              pc'[o] = pc[o] \/ pc'[o] = "failed" \/ pc[o] \in {"rechecking", "finishing"}
        OBVIOUS
      <3>1. o \in Ops /\ seen[o] # generation /\ shown[o] # generation
        BY DEF TypeOK, StopInv, Stopped
      <3>2. pc[o] \notin Early
        BY DEF StopInv
      <3>3. CASE s # o
        BY <2>1, <3>1, <3>3 DEF OpNext, Start, Snapshot, Policy, Consult, Ask, Register,
                                Expire, Decide, CheckGeneration, CheckProject, Resolve,
                                Goes, TypeOK
      <3>4. CASE s = o
        <4>1. CASE Decide(o)
          BY <3>1, <4>1 DEF Decide, Counts, Goes, TypeOK
        <4>2. CASE CheckGeneration(o)
          BY <3>1, <4>2 DEF CheckGeneration, Current, Goes, TypeOK
        <4>3. CASE CheckProject(o) \/ Expire(o) \/ Resolve(o)
          BY <3>1, <4>3 DEF CheckProject, Expire, Resolve, Goes, TypeOK
        <4> QED BY <2>1, <3>2, <3>4, <4>1, <4>2, <4>3
                DEF OpNext, Start, Snapshot, Policy, Consult, Ask, Register, Early
      <3> QED BY <3>3, <3>4
    <2>2. CASE IpcNext
      BY <2>0, <2>2 DEF IpcNext, Respond, Revoke, RevokeAll, SetMode, SetEnabled, Clear,
                        Deny, Answer, NextRequest, Begins
    <2>3. CASE Disconnect \/ ClearAfterDisconnect \/ Reconnect
      BY <2>0, <2>3 DEF Disconnect, ClearAfterDisconnect, Reconnect
    <2> QED BY <2>1, <2>2, <2>3 DEF Next
  <1> QED BY <1>1, ApprovalTypes, StopHolds, PTL DEF Spec, RevokedNeverPasses

\* A permission is saved only by a decision on a prompt that no confirmed
\* revocation has met.
THEOREM RevocationIsFinal == Spec => RevokedNeverSaves
  <1> DEFINE Saves == \A k \in Keys : k \in grants' \ grants =>
                \E o \in Ops \ void : Key[o] = k /\ pc[o] = "waiting" /\ pc'[o] = "cleared"
  <1> USE DEF opVars, promptVars, localVars, ipcVars
  <1>1. TypeOK /\ StopInv /\ [Next]_vars => [Saves]_vars
    <2> SUFFICES ASSUME TypeOK, StopInv, Next PROVE Saves
      OBVIOUS
    <2>1. ASSUME NEW o \in Ops, Decide(o) PROVE Saves
      <3>1. CASE Counts(o) /\ future[o] = "always"
        <4>1. o \notin void
          BY <3>1 DEF StopInv, Stopped, Counts, TypeOK
        <4>2. /\ pc[o] = "waiting" /\ pc'[o] = "cleared"
              /\ grants' = grants \cup {Key[o]}
          BY <2>1, <3>1 DEF Decide, Goes, TypeOK
        <4> QED BY <4>1, <4>2
      <3>2. CASE ~(Counts(o) /\ future[o] = "always")
        BY <2>1, <3>2 DEF Decide
      <3> QED BY <3>1, <3>2
    <2>2. ASSUME NEW o \in Ops, OpNext(o), ~Decide(o) PROVE Saves
      BY <2>2 DEF OpNext, Start, Snapshot, Policy, Consult, Ask, Register, Expire,
                  CheckGeneration, CheckProject, Resolve
    <2>3. CASE IpcNext
      BY <2>3 DEF IpcNext, Respond, Revoke, RevokeAll, SetMode, SetEnabled, Clear, Deny,
                  Answer, NextRequest
    <2>4. CASE Disconnect \/ ClearAfterDisconnect \/ Reconnect
      BY <2>4 DEF Disconnect, ClearAfterDisconnect, Reconnect
    <2> QED BY <2>1, <2>2, <2>3, <2>4 DEF Next
  <1> QED BY <1>1, ApprovalTypes, StopHolds, PTL DEF Spec, RevokedNeverSaves
-----------------------------------------------------------------------------
\* Access by the mode alone.  While nobody waits for an answer the user knows
\* the stored row.  A read with a current generation holds the stored row; only
\* between the store and the clear of a change it may hold the row before it.

NotYet == {"new", "started"}

ModeInv ==
    /\ \A o \in Ops : seen[o] <= generation
    /\ ipc = "idle" /\ server => told = project
    /\ \A o \in Ops : basis[o] = "mode" =>
           /\ pc[o] \notin NotYet
           /\ proj[o].enabled /\ ~RequiresApproval(o, proj[o].mode)
    /\ \A o \in Ops \ FileOps : pc[o] \notin NotYet /\ seen[o] = generation =>
           \/ proj[o] = project
           \/ ipc \in {"clear", "clear_deny"} /\ proj[o] = told

\* Only the snapshots of an operation touch what it holds of the project.
LEMMA OpKeepsMode ==
    ASSUME TypeOK, ModeInv, NEW o \in Ops, OpNext(o)
    PROVE  ModeInv'
  <1> USE DEF TypeOK, Goes, TakeGeneration, TakeProject, opVars, promptVars, localVars,
              ipcVars
  <1>1. UNCHANGED <<generation, project, ipc, server, told>>
    BY DEF OpNext, Start, Snapshot, Policy, Consult, Ask, Register, Expire, Decide,
           CheckGeneration, CheckProject, Resolve
  <1>2. \A s \in Ops : s # o =>
            /\ pc'[s] = pc[s] /\ seen'[s] = seen[s] /\ proj'[s] = proj[s]
            /\ basis'[s] = basis[s]
    BY DEF OpNext, Start, Snapshot, Policy, Consult, Ask, Register, Expire, Decide,
           CheckGeneration, CheckProject, Resolve
  <1>3. CASE Start(o)
    <2>1. pc[o] \in NotYet /\ pc'[o] \in NotYet /\ basis' = basis
      BY <1>3 DEF Start, NotYet
    <2>2. seen'[o] <= generation
      BY <1>3 DEF Start, ModeInv
    <2>3. basis[o] # "mode"
      BY <2>1 DEF ModeInv
    <2> QED BY <1>1, <1>2, <2>1, <2>2, <2>3 DEF ModeInv
  <1>4. CASE Snapshot(o)
    <2>1. pc[o] \in NotYet /\ basis' = basis
      BY <1>4 DEF Snapshot, NotYet
    <2>2. seen'[o] <= generation /\ (o \notin FileOps => proj'[o] = project)
      BY <1>4 DEF Snapshot, ModeInv
    <2>3. basis[o] # "mode"
      BY <2>1 DEF ModeInv
    <2> QED BY <1>1, <1>2, <2>1, <2>2, <2>3 DEF ModeInv
  <1>5. CASE ~Start(o) /\ ~Snapshot(o)
    <2>1. UNCHANGED <<seen, proj>>
      BY <1>5 DEF OpNext, Policy, Consult, Ask, Register, Expire, Decide, CheckGeneration,
                  CheckProject, Resolve
    <2>2. pc'[o] \notin NotYet <=> pc[o] \notin NotYet
      <3>1. CASE CheckGeneration(o)
        BY <3>1 DEF CheckGeneration, AfterCheck, NotYet
      <3>2. CASE ~CheckGeneration(o)
        BY <1>5, <3>2 DEF OpNext, Policy, Consult, Ask, Register, Expire, Decide,
                          CheckProject, Resolve, NotYet
      <3> QED BY <3>1, <3>2
    <2>3. basis'[o] = "mode" => basis[o] = "mode" \/ Policy(o)
      BY <1>5 DEF OpNext, Consult, Ask, Register, Expire, Decide, CheckGeneration,
                  CheckProject, Resolve
    <2>4. basis'[o] = "mode" /\ basis[o] # "mode" =>
              pc[o] \notin NotYet /\ proj[o].enabled /\ ~RequiresApproval(o, proj[o].mode)
      BY <2>3 DEF Policy, NotYet
    <2> QED BY <1>1, <1>2, <2>1, <2>2, <2>4 DEF ModeInv
  <1> QED BY <1>3, <1>4, <1>5

\* A change of the row is followed by a new generation before it is confirmed.
LEMMA IpcKeepsMode ==
    ASSUME TypeOK, ModeInv, IpcNext
    PROVE  ModeInv'
  <1> USE DEF TypeOK, opVars, promptVars, localVars, ipcVars
  <1>1. UNCHANGED <<pc, seen, proj, basis>>
    BY DEF IpcNext, Respond, Revoke, RevokeAll, SetMode, SetEnabled, Clear, Deny, Answer,
           NextRequest, Begins
  <1>2. CASE RevokeAll \/ \E k \in Keys : Revoke(k)
    <2>1. ipc' = "deny" /\ generation' = generation + 1 /\ project' = project
      BY <1>2 DEF RevokeAll, Revoke, Begins, Bump
    <2> QED BY <1>1, <2>1 DEF ModeInv
  <1>3. CASE \/ \E m \in Modes : SetMode(m)
             \/ \E b \in BOOLEAN : SetEnabled(b)
    <2>1. /\ ipc = "idle" /\ server /\ ipc' \in {"clear", "clear_deny"}
          /\ UNCHANGED <<generation, told>>
      BY <1>3 DEF SetMode, SetEnabled, Begins, Serves
    <2> QED BY <1>1, <2>1 DEF ModeInv
  <1>4. CASE Clear
    <2>1. ipc' # "idle" /\ generation' = generation + 1
      BY <1>4 DEF Clear
    <2> QED BY <1>1, <2>1 DEF ModeInv
  <1>5. CASE Deny \/ NextRequest \/ \E o \in Ops, d \in Decisions : Respond(o, d)
    <2>1. /\ ipc' = "answer" /\ ipc \in {"idle", "deny"}
          /\ UNCHANGED <<generation, project, told>>
      BY <1>5 DEF Deny, NextRequest, Respond, Serves
    <2> QED BY <1>1, <2>1 DEF ModeInv
  <1>6. CASE Answer
    <2>1. /\ ipc = "answer" /\ UNCHANGED <<generation, project>>
          /\ told' = project \/ ~server'
      BY <1>6 DEF Answer
    <2> QED BY <1>1, <2>1 DEF ModeInv
  <1> QED BY <1>2, <1>3, <1>4, <1>5, <1>6 DEF IpcNext

\* The invariant holds.
LEMMA ModeHolds == Spec => []ModeInv
  <1> USE DEF opVars, promptVars, localVars, ipcVars
  <1>1. Init => ModeInv
    BY DEF Init, ModeInv, NotYet
  <1>2. TypeOK /\ ModeInv /\ [Next]_vars => ModeInv'
    <2> SUFFICES ASSUME TypeOK, ModeInv, [Next]_vars PROVE ModeInv'
      OBVIOUS
    <2>1. CASE Disconnect \/ ClearAfterDisconnect
      <3>1. /\ UNCHANGED <<pc, seen, proj, basis, ipc, server, told, project>>
            /\ generation' = generation + 1
        BY <2>1 DEF Disconnect, ClearAfterDisconnect, Bump
      <3> QED BY <3>1 DEF ModeInv, TypeOK
    <2>2. CASE Reconnect \/ UNCHANGED vars
      <3>1. UNCHANGED <<pc, seen, proj, basis, ipc, server, told, project, generation>>
        BY <2>2 DEF Reconnect, vars
      <3> QED BY <3>1 DEF ModeInv
    <2> QED BY <2>1, <2>2, OpKeepsMode, IpcKeepsMode DEF Next
  <1> QED BY <1>1, <1>2, ApprovalTypes, PTL DEF Spec

\* An operation that went on without a prompt acts, or returns data, only if the
\* mode the user was told of, or the stored one, needs none.
THEOREM ModeIsRespected == Spec => ModeStillAllows
  <1> DEFINE Allowed ==
        \A o \in Ops :
          basis[o] = "mode" /\ pc'[o] # pc[o] /\ pc'[o] \in {"acting", "released"} =>
              \E p \in {project, told} : p.enabled /\ ~RequiresApproval(o, p.mode)
  <1> USE DEF opVars, promptVars, localVars, ipcVars
  <1>1. TypeOK /\ ModeInv /\ [Next]_vars => [Allowed]_vars
    <2> SUFFICES ASSUME TypeOK, ModeInv, Next PROVE Allowed
      OBVIOUS
    <2>0. UNCHANGED pc => Allowed
      OBVIOUS
    <2>1. ASSUME NEW s \in Ops, OpNext(s) PROVE Allowed
      <3> SUFFICES ASSUME NEW o \in Ops, basis[o] = "mode", pc'[o] # pc[o],
                          pc'[o] \in {"acting", "released"}
                   PROVE  \E p \in {project, told} :
                              p.enabled /\ ~RequiresApproval(o, p.mode)
        OBVIOUS
      <3>0. proj[o].enabled /\ ~RequiresApproval(o, proj[o].mode) /\ pc[o] \notin NotYet
        BY DEF ModeInv
      <3>1. \/ CheckGeneration(o) /\ Current(o) /\ o \notin FileOps
            \/ CheckProject(o) /\ SameProject(o)
        <4>1. s = o
          BY <2>1 DEF OpNext, Start, Snapshot, Policy, Consult, Ask, Register, Expire,
                      Decide, CheckGeneration, CheckProject, Resolve, Goes, TypeOK
        <4>2. CASE CheckGeneration(o)
          BY <4>2 DEF CheckGeneration, AfterCheck, Goes, TypeOK
        <4>3. CASE ~CheckGeneration(o)
          BY <2>1, <4>1, <4>3 DEF OpNext, Start, Snapshot, Policy, Consult, Ask, Register,
                      Expire, Decide, CheckProject, Resolve, Goes, TypeOK
        <4> QED BY <4>2, <4>3
      <3>2. CASE CheckProject(o) /\ SameProject(o)
        BY <3>0, <3>2 DEF SameProject
      <3>3. CASE CheckGeneration(o) /\ Current(o) /\ o \notin FileOps
        BY <3>0, <3>3 DEF ModeInv, Current
      <3> QED BY <3>1, <3>2, <3>3
    <2>2. CASE IpcNext
      BY <2>0, <2>2 DEF IpcNext, Respond, Revoke, RevokeAll, SetMode, SetEnabled, Clear,
                        Deny, Answer, NextRequest, Begins
    <2>3. CASE Disconnect \/ ClearAfterDisconnect \/ Reconnect
      BY <2>0, <2>3 DEF Disconnect, ClearAfterDisconnect, Reconnect
    <2> QED BY <2>1, <2>2, <2>3 DEF Next
  <1> QED BY <1>1, ApprovalTypes, ModeHolds, PTL DEF Spec, ModeStillAllows
=============================================================================
