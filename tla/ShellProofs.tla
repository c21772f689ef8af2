---------------------------- MODULE ShellProofs ----------------------------
(***************************************************************************)
(* Theorems about ShellJobs, for every set of requests and every bound.    *)
(***************************************************************************)
EXTENDS ShellJobs, SequenceTheorems, FiniteSetTheorems, TLAPS

\* Roots, keys and owners of a request.
LEMMA Names ==
    ASSUME NEW r \in Jobs
    PROVE  Root[r] \in Roots /\ Owner[r] \in Owners /\ Slot[r] \in Slots
  BY DEF Roots, Owners, Slots

-----------------------------------------------------------------------------
\* Types.

\* A start step keeps the types.
LEMMA StartTypes ==
    ASSUME TypeOK, NEW r \in Jobs, StartNext(r)
    PROVE  TypeOK'
  <1> USE Names DEF TypeOK, StartEnds, Write, Release, Reserve, startVars, jobVars,
            taskVars, procVars, dbVars, stopVars, netVars, StartStates, JobStates,
            RowStates, TaskStates, Writers
  <1>1. CASE Prepare(r)
    BY <1>1 DEF Prepare
  <1>2. CASE Lock(r)
    BY <1>2 DEF Lock
  <1>3. CASE Admit(r)
    <2>1. pc' \in [Jobs -> StartStates]
      BY <1>3, SMTT(30) DEF Admit
    <2>2. gate' \in [Roots -> Owners \cup {"free", "patch"}]
      BY <1>3 DEF Admit
    <2>3. state' \in [Jobs -> JobStates]
      BY <1>3 DEF Admit
    <2>4. write' \in [Jobs -> [Writers -> RowStates \cup {"none"}]]
      <3>1. CASE write' = write
        BY <3>1
      <3>2. CASE Write(r, "start", "running")
        BY <3>2
      <3> QED BY <1>3, <3>1, <3>2 DEF Admit
    <2>5. mem' \in SUBSET Jobs
      BY <1>3 DEF Admit
    <2>6. guard' \in SUBSET Jobs
      BY <1>3 DEF Admit
    <2> QED BY <1>3, <2>1, <2>2, <2>3, <2>4, <2>5, <2>6 DEF Admit
  <1>4. CASE CreateTask(r)
    BY <1>4 DEF CreateTask
  <1>5. CASE StartFails(r)
    BY <1>5 DEF StartFails
  <1>6. CASE StartTimesOut(r)
    BY <1>6 DEF StartTimesOut
  <1>7. ASSUME NEW w \in Writers, WriteLands(r, w) PROVE TypeOK'
    BY <1>7 DEF WriteLands
  <1> QED BY <1>1, <1>2, <1>3, <1>4, <1>5, <1>6, <1>7 DEF StartNext

\* A step of a task keeps the types.
LEMMA TaskTypes ==
    ASSUME TypeOK, NEW r \in Jobs, TaskNext(r)
    PROVE  TypeOK'
  <1> USE Names DEF TypeOK, At, TaskGoes, Ends, Write, Release, startVars, jobVars,
            taskVars, procVars, dbVars, stopVars, netVars, JobStates, JobTerminal,
            TaskStates, ProcStates, Writers
  <1>1. CASE TaskStarts(r)
    BY <1>1 DEF TaskStarts
  <1>2. CASE Begin(r)
    <2>1. state' \in [Jobs -> JobStates]
      BY <1>2 DEF Begin
    <2>2. task' \in [Jobs -> TaskStates]
      BY <1>2, ZenonT(60) DEF Begin
    <2> QED BY <1>2, <2>1, <2>2 DEF Begin
  <1>3. CASE Decide(r)
    <2>1. state' \in [Jobs -> JobStates]
      BY <1>3 DEF Decide
    <2>2. task' \in [Jobs -> TaskStates]
      BY <1>3 DEF Decide
    <2> QED BY <1>3, <2>1, <2>2 DEF Decide
  <1>4. CASE Launch(r)
    <2>1. state' \in [Jobs -> JobStates]
      BY <1>4 DEF Launch
    <2>2. task' \in [Jobs -> TaskStates]
      BY <1>4 DEF Launch
    <2>3. proc' \in [Jobs -> ProcStates]
      BY <1>4 DEF Launch
    <2> QED BY <1>4, <2>1, <2>2, <2>3 DEF Launch
  <1>5. CASE Launched(r)
    <2>1. state' \in [Jobs -> JobStates]
      BY <1>5 DEF Launched
    <2>2. task' \in [Jobs -> TaskStates]
      BY <1>5 DEF Launched
    <2>3. handle' \in SUBSET Jobs
      BY <1>5 DEF Launched
    <2> QED BY <1>5, <2>1, <2>2, <2>3 DEF Launched
  <1>6. CASE Wait(r)
    BY <1>6 DEF Wait
  <1>7. CASE TimedOut(r)
    BY <1>7 DEF TimedOut
  <1>8. CASE Reap(r)
    BY <1>8, SMTT(30) DEF Reap
  <1>9. CASE Interrupt(r)
    <2>1. state' \in [Jobs -> JobStates]
      BY <1>9 DEF Interrupt
    <2>2. task' \in [Jobs -> TaskStates]
      BY <1>9, ZenonT(60) DEF Interrupt
    <2>3. interrupted' \in SUBSET Jobs
      BY <1>9 DEF Interrupt
    <2> QED BY <1>9, <2>1, <2>2, <2>3 DEF Interrupt
  <1>10. CASE Aborted(r)
    BY <1>10 DEF Aborted
  <1>11. CASE Finalize(r)
    <2>1. RowState(state[r]) \in RowStates
      BY DEF RowState, RowStates, RowTerminal
    <2> QED BY <1>11, <2>1 DEF Finalize
  <1>12. CASE Stored(r)
    BY <1>12 DEF Stored
  <1>13. CASE Retire(r)
    <2>1. retired' \in Seq(Jobs)
      <3>1. Append(retired, r) \in Seq(Jobs) /\ Append(retired, r) # <<>>
        BY AppendProperties
      <3>2. Tail(Append(retired, r)) \in Seq(Jobs)
        BY <3>1, HeadTailProperties
      <3> QED BY <1>13, <3>1, <3>2 DEF Retire
    <2>2. mem' \subseteq Jobs
      BY <1>13 DEF Retire
    <2> QED BY <1>13, <2>1, <2>2 DEF Retire
  <1> QED BY <1>1, <1>2, <1>3, <1>4, <1>5, <1>6, <1>7, <1>8, <1>9, <1>10, <1>11,
             <1>12, <1>13 DEF TaskNext

\* A cancel or the end of a grace period keeps the types.
LEMMA StopTypes ==
    ASSUME TypeOK, NEW r \in Jobs, StopNext(r)
    PROVE  TypeOK'
  <1> USE Names DEF TypeOK, Write, Release, MarkCancelled, startVars, jobVars, taskVars,
            procVars, dbVars, stopVars, netVars, JobStates, JobTerminal, RowStates,
            RowTerminal, Writers
  <1>1. CASE Cancel(r)
    <2>1. state' \in [Jobs -> JobStates]
      BY <1>1 DEF Cancel
    <2>2. canceller' \in [Jobs -> {"none", "terminating", "releasing", "storing", "done"}]
      BY <1>1 DEF Cancel
    <2>3. interrupted' \in SUBSET Jobs
      BY <1>1 DEF Cancel
    <2>4. cancelled' \in SUBSET Jobs
      BY <1>1 DEF Cancel
    <2> QED BY <1>1, <2>1, <2>2, <2>3, <2>4 DEF Cancel
  <1>2. CASE CancelTerminated(r)
    BY <1>2 DEF CancelTerminated
  <1>3. CASE CancelReleases(r)
    BY <1>3 DEF CancelReleases
  <1>4. CASE CancelReturns(r)
    BY <1>4 DEF CancelReturns
  <1>5. CASE GraceExpires(r)
    BY <1>5 DEF GraceExpires
  <1>6. CASE GraceKills(r)
    BY <1>6 DEF GraceKills
  <1> QED BY <1>1, <1>2, <1>3, <1>4, <1>5, <1>6 DEF StopNext

\* Every reachable state is typed, for any requests, roots, keys and bounds.
THEOREM ShellTypes == Spec => []TypeOK
  <1> USE DEF startVars, jobVars, taskVars, procVars, dbVars, stopVars, netVars
  <1>1. Init => TypeOK
    BY ShellAssumption DEF Init, TypeOK, StartStates, JobStates, TaskStates, ProcStates,
       Writers
  <1>2. TypeOK /\ [Next]_vars => TypeOK'
    <2> SUFFICES ASSUME TypeOK, [Next]_vars PROVE TypeOK'
      OBVIOUS
    <2>1. ASSUME NEW r \in Jobs, Spawn(r) PROVE TypeOK'
      BY <2>1 DEF Spawn, TypeOK, ProcStates
    <2>2. ASSUME NEW r \in Jobs, ProcessExits(r) PROVE TypeOK'
      BY <2>2 DEF ProcessExits, TypeOK, ProcStates
    <2>3. ASSUME NEW w \in Roots, PatchBegins(w) \/ PatchEnds(w) PROVE TypeOK'
      BY <2>3 DEF PatchBegins, PatchEnds, TypeOK
    <2>4. CASE Disconnect
      <3>1. killer' \in [Jobs -> {"none", "sleeping", "terminating", "ended"}]
        BY <2>4 DEF Disconnect, TypeOK
      <3>2. interrupted' \subseteq Jobs /\ stale' \subseteq Jobs
        BY <2>4 DEF Disconnect, TypeOK
      <3>3. events' \in Nat
        BY <2>4 DEF Disconnect, TypeOK
      <3>4. online' \in BOOLEAN
        BY <2>4, Zenon DEF Disconnect
      <3> QED BY <2>4, <3>1, <3>2, <3>3, <3>4 DEF Disconnect, TypeOK
    <2>5. CASE Reconnect
      BY <2>5 DEF Reconnect, TypeOK
    <2>6. CASE Revoke
      BY <2>6 DEF Revoke, TypeOK
    <2>7. CASE Restart
      BY <2>7 DEF Restart, TypeOK, StartStates, JobStates, TaskStates, ProcStates, Writers
    <2>8. CASE UNCHANGED vars
      BY <2>8 DEF vars, TypeOK
    <2> QED BY <2>1, <2>2, <2>3, <2>4, <2>5, <2>6, <2>7, <2>8, StartTypes, TaskTypes,
               StopTypes DEF Next
  <1> QED BY <1>1, <1>2, PTL DEF Spec

-----------------------------------------------------------------------------
\* At most one process per key.  SpawnedOnce is not inductive: nothing in Spawn
\* looks at the key.  A job that has begun has a row, which is never removed;
\* a start that is about to store its row holds the lock and has seen none; so
\* no job with the same key has begun, and none can until the lock is free.

Begun(r) == task[r] # "none" \/ proc[r] # "none" \/ r \in spawned

LockInv ==
    /\ \A r \in Jobs : pc[r] \in {"locked", "storing"} => guard = {r}
    /\ \A r \in Jobs : pc[r] = "storing" =>
           write[r]["start"] # "none" \/ row[Slot[r]] # NoRow

KeyInv ==
    /\ \A r \in Jobs : Begun(r) => pc[r] = "done" /\ row[Slot[r]] # NoRow
    /\ \A r, s \in Jobs : pc[r] = "storing" /\ Begun(s) => Slot[r] # Slot[s]
    /\ \A r, s \in Jobs : Begun(r) /\ Begun(s) /\ Slot[r] = Slot[s] => r = s

OnceInv == LockInv /\ KeyInv

\* A step outside start() and the writes keeps the invariant if it lets no
\* further job begin.
LEMMA OnceStays ==
    ASSUME OnceInv, UNCHANGED <<pc, guard, row>>,
           \A s \in Jobs : write'[s]["start"] = write[s]["start"],
           \A s \in Jobs : Begun(s)' => Begun(s)
    PROVE  OnceInv'
  BY DEF OnceInv, LockInv, KeyInv

\* A task, a process, a cancel or a grace period lets no job begin.
LEMMA OthersBeginNothing ==
    ASSUME TypeOK, NEW r \in Jobs,
           TaskNext(r) \/ StopNext(r) \/ Spawn(r) \/ ProcessExits(r)
    PROVE  /\ UNCHANGED <<pc, guard, row>>
           /\ \A s \in Jobs : write'[s]["start"] = write[s]["start"]
           /\ \A s \in Jobs : Begun(s)' => Begun(s)
  <1> USE DEF TypeOK, At, TaskGoes, Ends, Write, MarkCancelled, startVars, jobVars,
              taskVars, procVars, dbVars, stopVars, netVars, Begun
  <1>1. CASE TaskStarts(r) \/ Begin(r) \/ Decide(r)
    BY <1>1 DEF TaskStarts, Begin, Decide
  <1>2. CASE Launch(r)
    BY <1>2 DEF Launch
  <1>3. CASE Launched(r) \/ Wait(r) \/ TimedOut(r) \/ Reap(r) \/ Aborted(r)
    BY <1>3 DEF Launched, Wait, TimedOut, Reap, Aborted
  <1>4. CASE Interrupt(r)
    BY <1>4 DEF Interrupt
  <1>5. CASE Finalize(r)
    <2>1. \A s \in Jobs : write'[s]["start"] = write[s]["start"]
      BY <1>5 DEF Finalize, Writers
    <2> QED BY <1>5, <2>1 DEF Finalize
  <1>6. CASE Stored(r) \/ Retire(r)
    BY <1>6 DEF Stored, Retire
  <1>7. CASE Cancel(r) \/ CancelTerminated(r) \/ CancelReturns(r)
    BY <1>7 DEF Cancel, CancelTerminated, CancelReturns
  <1>8. CASE CancelReleases(r)
    <2>1. \A s \in Jobs : write'[s]["start"] = write[s]["start"]
      BY <1>8 DEF CancelReleases, Writers
    <2> QED BY <1>8, <2>1 DEF CancelReleases
  <1>9. CASE GraceExpires(r) \/ GraceKills(r)
    BY <1>9 DEF GraceExpires, GraceKills
  <1>10. CASE Spawn(r) \/ ProcessExits(r)
    BY <1>10 DEF Spawn, ProcessExits
  <1> QED BY <1>1, <1>2, <1>3, <1>4, <1>5, <1>6, <1>7, <1>8, <1>9, <1>10
          DEF TaskNext, StopNext

\* A start keeps the invariant.
LEMMA StartsOnce ==
    ASSUME TypeOK, OnceInv, NEW r \in Jobs, StartNext(r)
    PROVE  OnceInv'
  <1> USE DEF TypeOK, OnceInv, LockInv, KeyInv, StartEnds, Write, startVars, jobVars,
              taskVars, procVars, dbVars, stopVars, netVars
  <1>0. \A s \in Jobs : Slot[s] \in Slots
    BY Names
  <1>1. CASE Prepare(r)
    BY <1>1 DEF Prepare, Begun
  <1>2. CASE Lock(r)
    BY <1>2 DEF Lock, Begun
  <1>3. CASE Admit(r)
    <2>1. CASE Known(r) \/ ~CanReserve(r)
      <3>1. /\ guard = {r} /\ pc' = [pc EXCEPT ![r] = "done"]
            /\ UNCHANGED <<row, write>>
        BY <1>3, <2>1 DEF Admit
      <3>2. \A s \in Jobs : Begun(s)' = Begun(s)
        BY <1>3 DEF Admit, Begun
      <3>3. \A s \in Jobs : pc[s] \in {"locked", "storing"} => s = r
        BY <3>1, ZenonT(60)
      <3> QED BY <3>1, <3>2, <3>3
    <2>2. CASE ~(Known(r) \/ ~CanReserve(r))
      <3>1. /\ pc[r] = "locked" /\ row[Slot[r]] = NoRow
            /\ pc' = [pc EXCEPT ![r] = "storing"] /\ UNCHANGED <<guard, row>>
            /\ write' = [write EXCEPT ![r]["start"] = "running"]
        BY <1>3, <2>2 DEF Admit, Known
      <3>2. \A s \in Jobs : Begun(s)' = Begun(s)
        BY <1>3 DEF Admit, Begun
      <3>3. LockInv'
        <4>1. write'[r]["start"] # "none"
          BY <3>1 DEF Writers
        <4> QED BY <3>1, <4>1
      <3>4. \A s \in Jobs : Begun(s) => Slot[s] # Slot[r]
        BY <3>1
      <3>5. KeyInv'
        BY <3>1, <3>2, <3>4
      <3> QED BY <3>3, <3>5
    <2> QED BY <2>1, <2>2
  <1>4. CASE CreateTask(r)
    <2>1. /\ row[Slot[r]] # NoRow /\ pc' = [pc EXCEPT ![r] = "done"]
          /\ guard = {r} /\ UNCHANGED <<row, write>>
      BY <1>4 DEF CreateTask
    <2>2. \A s \in Jobs : pc[s] \in {"locked", "storing"} => s = r
      BY <2>1, ZenonT(60)
    <2>3. \A s \in Jobs : Begun(s)' => Begun(s) \/ s = r
      BY <1>4 DEF CreateTask, Begun
    <2>4. LockInv'
      BY <2>1, <2>2
    <2>5. KeyInv'
      BY <1>4, <2>1, <2>2, <2>3 DEF CreateTask
    <2> QED BY <2>4, <2>5
  <1>5. CASE StartFails(r)
    <2>1. \A s \in Jobs : Begun(s)' = Begun(s)
      BY <1>5 DEF StartFails, Begun
    <2>2. \A s \in Jobs : pc[s] \in {"locked", "storing"} => s = r
      BY <1>5, ZenonT(60) DEF StartFails
    <2> QED BY <1>5, <2>1, <2>2 DEF StartFails
  <1>6. CASE StartTimesOut(r)
    BY <1>6 DEF StartTimesOut, Begun
  <1>7. ASSUME NEW w \in Writers, WriteLands(r, w) PROVE OnceInv'
    <2>1. \A s \in Jobs : Begun(s)' = Begun(s)
      BY <1>7 DEF WriteLands, Begun
    <2>2. \A s \in Jobs : row[Slot[s]] # NoRow => row'[Slot[s]] # NoRow
      BY <1>0, <1>7 DEF WriteLands, NoRow
    <2>3. row'[Slot[r]] # NoRow
      BY <1>0, <1>7 DEF WriteLands, NoRow
    <2>4. \A s \in Jobs : s # r => write'[s] = write[s]
      BY <1>7 DEF WriteLands
    <2>5. pc' = pc /\ guard' = guard
      BY <1>7 DEF WriteLands
    <2>6. LockInv'
      BY <2>2, <2>3, <2>4, <2>5
    <2>7. KeyInv'
      BY <2>1, <2>2, <2>5
    <2> QED BY <2>6, <2>7
  <1> QED BY <1>1, <1>2, <1>3, <1>4, <1>5, <1>6, <1>7 DEF StartNext

\* The invariant holds.
LEMMA OnceHolds == Spec => []OnceInv
  <1> USE DEF startVars, jobVars, taskVars, procVars, dbVars, stopVars, netVars
  <1>1. Init => OnceInv
    BY DEF Init, OnceInv, LockInv, KeyInv, Begun
  <1>2. TypeOK /\ OnceInv /\ [Next]_vars => OnceInv'
    <2> SUFFICES ASSUME TypeOK, OnceInv, [Next]_vars PROVE OnceInv'
      OBVIOUS
    <2>1. ASSUME NEW r \in Jobs,
                 TaskNext(r) \/ StopNext(r) \/ Spawn(r) \/ ProcessExits(r)
          PROVE  OnceInv'
      BY <2>1, OthersBeginNothing, OnceStays
    <2>2. ASSUME NEW w \in Roots, PatchBegins(w) \/ PatchEnds(w) PROVE OnceInv'
      BY <2>2, OnceStays DEF PatchBegins, PatchEnds, Begun
    <2>3. CASE Disconnect \/ Reconnect \/ Revoke
      BY <2>3, OnceStays DEF Disconnect, Reconnect, Revoke, Begun
    <2>4. CASE Restart
      <3>1. \A s \in Jobs : Begun(s)' => Begun(s)
        BY <2>4 DEF Restart, Begun, TypeOK
      <3>2. \A s \in Jobs : /\ pc'[s] \notin {"locked", "storing"}
                            /\ pc[s] = "done" => pc'[s] = "done"
        BY <2>4 DEF Restart
      <3> QED BY <2>4, <3>1, <3>2 DEF Restart, OnceInv, LockInv, KeyInv
    <2>5. CASE UNCHANGED vars
      BY <2>5, OnceStays DEF vars, Begun
    <2> QED BY <2>1, <2>2, <2>3, <2>4, <2>5, StartsOnce DEF Next
  <1> QED BY <1>1, <1>2, ShellTypes, PTL DEF Spec

\* One key starts at most one process, for any number of concurrent or repeated
\* starts, timeouts, cancels, disconnects and restarts.
THEOREM OneProcessPerKey == Spec => []SpawnedOnce
  <1>1. TypeOK /\ OnceInv => SpawnedOnce
    BY DEF TypeOK, OnceInv, KeyInv, Begun, SpawnedOnce
  <1> QED BY <1>1, ShellTypes, OnceHolds, PTL

-----------------------------------------------------------------------------
\* Rows.  A start that runs out of time leaves its write to the table behind,
\* without the lock.  No second start with the key is admitted meanwhile: the
\* reservation of the root is left behind as well, and only a job with the same
\* owner name can give it back.  The owner name has the key and not the project,
\* so the claims are about the requests in Unshared, whatever the others do.

\* The unshared requests are requests.
LEMMA UnsharedJobs == Unshared \subseteq Jobs
  BY DEF Unshared

\* A request for the row of an unshared one, or with its reservation, is as it is.
LEMMA SharesNothing ==
    ASSUME NEW r \in Unshared, NEW s \in Jobs,
           Slot[r] = Slot[s] \/ (Root[r] = Root[s] /\ Owner[r] = Owner[s])
    PROVE  s \in Unshared /\ Slot[r] = Slot[s] /\ Root[r] = Root[s] /\ Owner[r] = Owner[s]
  BY DEF Unshared

Rowed(r) == row[Slot[r]] # NoRow

\* The start was admitted since the agent started: it may still act for its key.
Admitted(r) ==
    \/ r \in mem
    \/ pc[r] = "storing"
    \/ task[r] # "none"
    \/ canceller[r] # "none"
    \/ write[r]["start"] # "none"

CancelInv == \A r \in Jobs : canceller[r] # "none" => pc[r] = "done" /\ Rowed(r)
OneAdmitted ==
    \A r \in Unshared, s \in Jobs : Admitted(r) /\ Admitted(s) /\ Slot[r] = Slot[s] => r = s
RootKept == \A r \in Unshared : Admitted(r) /\ ~Rowed(r) => gate[Root[r]] = Owner[r]
StartWrites ==
    \A r \in Unshared : write[r]["start"] # "none" => write[r]["start"] = "running" /\ ~Rowed(r)
EndWrites ==
    \A r \in Jobs : \A w \in {"task", "cancel"} :
        write[r][w] # "none" => write[r][w] \in RowTerminal /\ Rowed(r)
WriteInv == StartWrites /\ EndWrites

SlotInv == CancelInv /\ OneAdmitted /\ RootKept /\ WriteInv

\* A step that admits and stores nothing keeps the invariant.
LEMMA SlotStays ==
    ASSUME SlotInv, UNCHANGED <<gate, row, write>>,
           \A s \in Jobs : Admitted(s)' => Admitted(s),
           \A s \in Jobs : canceller'[s] # "none" => canceller[s] # "none",
           \A s \in Jobs : pc[s] = "done" => pc'[s] = "done"
    PROVE  SlotInv'
  <1>1. \A s \in Jobs : Rowed(s)' = Rowed(s)
    BY DEF Rowed
  <1>2. CancelInv'
    BY <1>1 DEF SlotInv, CancelInv
  <1>3. OneAdmitted'
    BY UnsharedJobs DEF SlotInv, OneAdmitted
  <1>4. RootKept'
    BY <1>1, UnsharedJobs DEF SlotInv, RootKept
  <1>5. WriteInv'
    BY <1>1, UnsharedJobs DEF SlotInv, WriteInv, StartWrites, EndWrites
  <1> QED BY <1>2, <1>3, <1>4, <1>5 DEF SlotInv

\* No job gives back the root of an unshared one: an admitted job with the same
\* root and owner name has the same key and is the same job.
LEMMA ReleaseSpares ==
    ASSUME TypeOK, OneAdmitted, NEW r \in Jobs, NEW s \in Unshared, s # r,
           Release(r), Admitted(r), Admitted(s), gate[Root[s]] = Owner[s]
    PROVE  gate'[Root[s]] = Owner[s]
  <1>1. s \in Jobs /\ Root[r] \in Roots /\ Root[s] \in Roots
    BY Names DEF Unshared
  <1>2. CASE gate[Root[r]] # Owner[r]
    BY <1>2 DEF Release
  <1>3. CASE gate[Root[r]] = Owner[r]
    <2>1. Slot[r] # Slot[s]
      BY DEF OneAdmitted
    <2>2. Root[r] # Root[s]
      BY <1>3, <2>1, SharesNothing
    <2> QED BY <1>1, <1>3, <2>2 DEF Release, TypeOK
  <1> QED BY <1>2, <1>3

\* A start that is admitted keeps the invariant: no admitted start has the key,
\* for it would have a row or hold the root.
LEMMA AdmitSlots ==
    ASSUME TypeOK, OnceInv, SlotInv, NEW r \in Jobs, Admit(r),
           ~(Known(r) \/ ~CanReserve(r))
    PROVE  SlotInv'
  <1>1. /\ UNCHANGED <<row, task, canceller>>
        /\ pc[r] = "locked" /\ pc' = [pc EXCEPT ![r] = "storing"]
        /\ mem' = mem \cup {r}
        /\ write' = [write EXCEPT ![r]["start"] = "running"]
    BY DEF Admit, Write, taskVars, stopVars
  <1>2. /\ gate[Root[r]] = "free" /\ gate' = [gate EXCEPT ![Root[r]] = Owner[r]]
        /\ ~Rowed(r)
    BY DEF Admit, CanReserve, Reserve, Known, Rowed
  <1>3. \A s \in Jobs : Rowed(s)' = Rowed(s)
    BY <1>1 DEF Rowed
  <1>4. \A s \in Jobs : Owner[s] # "free" /\ Root[s] \in Roots
    BY ShellAssumption, Names
  <1>5. \A s \in Jobs : /\ write'[s]["task"] = write[s]["task"]
                        /\ write'[s]["cancel"] = write[s]["cancel"]
                        /\ s # r => write'[s]["start"] = write[s]["start"]
    BY <1>1 DEF TypeOK, Writers
  <1>6. write'[r]["start"] = "running"
    BY <1>1 DEF TypeOK, Writers
  <1>7. \A s \in Jobs : Admitted(s)' => Admitted(s) \/ s = r
    BY <1>1, <1>5 DEF Admitted, TypeOK
  <1>8. \A s \in Jobs : r \in Unshared /\ Slot[s] = Slot[r] => ~Admitted(s)
    <2> SUFFICES ASSUME NEW s \in Jobs, r \in Unshared, Slot[s] = Slot[r], Admitted(s)
                 PROVE  FALSE
      OBVIOUS
    <2>1. ~Rowed(s) /\ Root[s] = Root[r] /\ s \in Unshared
      BY <1>2, SharesNothing DEF Rowed
    <2>2. gate[Root[s]] = Owner[s]
      BY <2>1 DEF SlotInv, RootKept
    <2> QED BY <1>2, <1>4, <2>1, <2>2
  <1>9. CancelInv'
    <2>1. canceller[r] = "none"
      BY <1>1 DEF SlotInv, CancelInv
    <2> QED BY <1>1, <1>3, <2>1 DEF SlotInv, CancelInv, TypeOK
  <1>10. OneAdmitted'
    <2> SUFFICES ASSUME NEW p \in Unshared, NEW q \in Jobs, Admitted(p)', Admitted(q)',
                        Slot[p] = Slot[q]
                 PROVE  p = q
      BY DEF OneAdmitted
    <2>1. p \in Jobs /\ q \in Unshared
      BY SharesNothing DEF Unshared
    <2> QED BY <1>7, <1>8, <2>1 DEF SlotInv, OneAdmitted
  <1>11. RootKept'
    <2> SUFFICES ASSUME NEW s \in Unshared, Admitted(s)', ~Rowed(s)'
                 PROVE  gate'[Root[s]] = Owner[s]
      BY DEF RootKept
    <2> s \in Jobs
      BY DEF Unshared
    <2>1. CASE s = r
      BY <1>2, <1>4, <2>1 DEF TypeOK
    <2>2. CASE s # r
      <3>1. gate[Root[s]] = Owner[s]
        BY <1>3, <1>7, <2>2 DEF SlotInv, RootKept
      <3> QED BY <1>2, <1>4, <3>1 DEF TypeOK
    <2> QED BY <2>1, <2>2
  <1>12. WriteInv'
    BY <1>2, <1>3, <1>5, <1>6, UnsharedJobs DEF SlotInv, WriteInv, StartWrites, EndWrites
  <1> QED BY <1>9, <1>10, <1>11, <1>12 DEF SlotInv

\* A row that cannot be stored ends the admission and gives the root back.
LEMMA FailSlots ==
    ASSUME TypeOK, OnceInv, SlotInv, NEW r \in Jobs, StartFails(r)
    PROVE  SlotInv'
  <1>1. /\ UNCHANGED <<row, task, canceller>> /\ Release(r)
        /\ pc[r] = "storing" /\ pc' = [pc EXCEPT ![r] = "done"]
        /\ mem' = mem \ {r}
        /\ write' = [write EXCEPT ![r]["start"] = "none"]
    BY DEF StartFails, StartEnds, Write, taskVars, stopVars
  <1>2. \A s \in Jobs : Rowed(s)' = Rowed(s)
    BY <1>1 DEF Rowed
  <1>3. \A s \in Jobs : /\ write'[s]["task"] = write[s]["task"]
                        /\ write'[s]["cancel"] = write[s]["cancel"]
                        /\ s # r => write'[s]["start"] = write[s]["start"]
    BY <1>1 DEF TypeOK, Writers
  <1>4. write'[r]["start"] = "none"
    BY <1>1 DEF TypeOK, Writers
  <1>5. task[r] = "none" /\ canceller[r] = "none"
    BY <1>1 DEF OnceInv, KeyInv, Begun, SlotInv, CancelInv
  <1>6. \A s \in Jobs : Admitted(s)' => Admitted(s) /\ s # r
    BY <1>1, <1>3, <1>4, <1>5 DEF Admitted, TypeOK
  <1>7. Admitted(r)
    BY <1>1 DEF Admitted
  <1>8. CancelInv'
    BY <1>1, <1>2 DEF SlotInv, CancelInv, TypeOK
  <1>9. OneAdmitted'
    BY <1>6, UnsharedJobs DEF SlotInv, OneAdmitted
  <1>10. RootKept'
    BY <1>1, <1>2, <1>6, <1>7, ReleaseSpares, UnsharedJobs DEF SlotInv, RootKept
  <1>11. WriteInv'
    BY <1>2, <1>3, <1>4, UnsharedJobs DEF SlotInv, WriteInv, StartWrites, EndWrites
  <1> QED BY <1>8, <1>9, <1>10, <1>11 DEF SlotInv

\* A write that lands meets no pending write of a start with the same key.
LEMMA LandSlots ==
    ASSUME TypeOK, SlotInv, NEW r \in Jobs, NEW w \in Writers, WriteLands(r, w)
    PROVE  SlotInv'
  <1>1. /\ UNCHANGED <<gate, pc, mem, task, canceller>>
        /\ write[r][w] # "none"
        /\ write' = [write EXCEPT ![r][w] = "none"]
        /\ row' = [row EXCEPT ![Slot[r]] = [state |-> write[r][w], job |-> r]]
    BY DEF WriteLands, startVars, jobVars, taskVars, stopVars
  <1>2. \A s \in Jobs : Rowed(s)' <=> Rowed(s) \/ Slot[s] = Slot[r]
    <2>1. \A s \in Jobs : Slot[s] \in Slots
      BY Names
    <2>2. [state |-> write[r][w], job |-> r] # NoRow
      BY <1>1 DEF NoRow
    <2> QED BY <1>1, <2>1, <2>2 DEF Rowed, TypeOK
  <1>3. \A s \in Jobs : \A v \in Writers : write'[s][v] # "none" => write'[s][v] = write[s][v]
    BY <1>1 DEF TypeOK
  <1>4. write'[r][w] = "none"
    BY <1>1 DEF TypeOK
  <1>5. \A s \in Jobs : Admitted(s)' => Admitted(s)
    BY <1>1, <1>3 DEF Admitted, Writers
  <1>6. CancelInv'
    BY <1>1, <1>2 DEF SlotInv, CancelInv
  <1>7. OneAdmitted'
    BY <1>5, UnsharedJobs DEF SlotInv, OneAdmitted
  <1>8. RootKept'
    BY <1>1, <1>2, <1>5, UnsharedJobs DEF SlotInv, RootKept
  <1>9. StartWrites'
    <2> SUFFICES ASSUME NEW s \in Unshared, write'[s]["start"] # "none"
                 PROVE  write'[s]["start"] = "running" /\ ~Rowed(s)'
      BY DEF StartWrites
    <2> s \in Jobs
      BY DEF Unshared
    <2>1. write'[s]["start"] = write[s]["start"]
      BY <1>3 DEF Writers
    <2>2. write[s]["start"] = "running" /\ ~Rowed(s)
      BY <2>1 DEF SlotInv, WriteInv, StartWrites
    <2>3. Slot[s] # Slot[r]
      <3> SUFFICES ASSUME Slot[s] = Slot[r] PROVE FALSE
        OBVIOUS
      <3>1. CASE w = "start"
        <4>1. Admitted(s) /\ Admitted(r)
          BY <1>1, <2>2, <3>1 DEF Admitted
        <4>2. s = r
          BY <4>1 DEF SlotInv, OneAdmitted
        <4> QED BY <1>4, <3>1, <4>2
      <3>2. CASE w # "start"
        <4>1. Rowed(r)
          BY <1>1, <3>2 DEF SlotInv, WriteInv, EndWrites, Writers
        <4> QED BY <2>2, <4>1 DEF Rowed
      <3> QED BY <3>1, <3>2
    <2> QED BY <1>2, <2>1, <2>2, <2>3
  <1>10. EndWrites'
    BY <1>2, <1>3 DEF SlotInv, WriteInv, EndWrites, Writers
  <1> QED BY <1>6, <1>7, <1>8, <1>9, <1>10 DEF SlotInv, WriteInv

\* A start keeps the invariant.
LEMMA StartSlots ==
    ASSUME TypeOK, OnceInv, SlotInv, NEW r \in Jobs, StartNext(r)
    PROVE  SlotInv'
  <1> USE DEF TypeOK, StartEnds, startVars, jobVars, taskVars, procVars, dbVars,
              stopVars, netVars
  <1>1. CASE Prepare(r) \/ Lock(r) \/ StartTimesOut(r)
    <2>1. UNCHANGED <<gate, row, write, mem, task, canceller>>
      BY <1>1 DEF Prepare, Lock, StartTimesOut
    <2>2. \A s \in Jobs : pc[s] = "done" => pc'[s] = "done"
      BY <1>1 DEF Prepare, Lock, StartTimesOut
    <2>3. \A s \in Jobs : pc'[s] = "storing" => pc[s] = "storing"
      BY <1>1 DEF Prepare, Lock, StartTimesOut
    <2> QED BY <2>1, <2>2, <2>3, SlotStays DEF Admitted
  <1>2. CASE Admit(r) /\ (Known(r) \/ ~CanReserve(r))
    <2>1. UNCHANGED <<gate, row, write, mem, task, canceller>>
      BY <1>2 DEF Admit
    <2>2. pc' = [pc EXCEPT ![r] = "done"]
      BY <1>2 DEF Admit
    <2> QED BY <2>1, <2>2, SlotStays DEF Admitted
  <1>3. CASE CreateTask(r)
    <2>1. /\ UNCHANGED <<gate, row, write, mem, canceller>>
          /\ pc[r] = "storing" /\ pc' = [pc EXCEPT ![r] = "done"]
          /\ task' = [task EXCEPT ![r] = "created"]
      BY <1>3 DEF CreateTask
    <2>2. \A s \in Jobs : Admitted(s)' => Admitted(s)
      BY <2>1 DEF Admitted
    <2> QED BY <2>1, <2>2, SlotStays
  <1> QED BY <1>1, <1>2, <1>3, AdmitSlots, FailSlots, LandSlots DEF StartNext

\* A job that gives its root back and hands over a terminal row keeps the
\* invariant (the finally clause, and cancel).
LEMMA EndSlots ==
    ASSUME TypeOK, SlotInv, NEW r \in Jobs, NEW w \in {"task", "cancel"},
           NEW s \in RowTerminal, Write(r, w, s), Release(r), Admitted(r), Rowed(r),
           UNCHANGED <<pc, row, mem>>,
           \A q \in Jobs : (task'[q] # "none") => (task[q] # "none"),
           \A q \in Jobs : (canceller'[q] # "none") => (canceller[q] # "none")
    PROVE  SlotInv'
  <1>1. \A q \in Jobs : Rowed(q)' = Rowed(q)
    BY DEF Rowed
  <1>2. /\ \A q \in Jobs : write'[q]["start"] = write[q]["start"]
        /\ \A q \in Jobs : \A v \in {"task", "cancel"} :
               write'[q][v] = write[q][v] \/ (q = r /\ write'[q][v] = s)
    BY DEF Write, TypeOK, Writers
  <1>3. \A q \in Jobs : Admitted(q)' => Admitted(q)
    BY <1>2 DEF Admitted
  <1>4. CancelInv'
    BY <1>1 DEF SlotInv, CancelInv
  <1>5. OneAdmitted'
    BY <1>3, UnsharedJobs DEF SlotInv, OneAdmitted
  <1>6. RootKept'
    BY <1>1, <1>3, ReleaseSpares, UnsharedJobs DEF SlotInv, RootKept
  <1>7. StartWrites'
    BY <1>1, <1>2, UnsharedJobs DEF SlotInv, WriteInv, StartWrites
  <1>8. EndWrites'
    BY <1>1, <1>2 DEF SlotInv, WriteInv, EndWrites
  <1> QED BY <1>4, <1>5, <1>6, <1>7, <1>8 DEF SlotInv, WriteInv

\* A task keeps the invariant.
LEMMA TaskSlots ==
    ASSUME TypeOK, OnceInv, SlotInv, NEW r \in Jobs, TaskNext(r)
    PROVE  SlotInv'
  <1> USE DEF TypeOK, At, TaskGoes, Ends, startVars, jobVars, taskVars, procVars,
              dbVars, stopVars, netVars
  <1>1. UNCHANGED <<pc, row, canceller>> /\ mem' \subseteq mem
    BY DEF TaskNext, TaskStarts, Begin, Decide, Launch, Launched, Wait, TimedOut, Reap,
           Interrupt, Aborted, Finalize, Stored, Retire
  <1>2. \A s \in Jobs : s # r => task'[s] = task[s]
    BY DEF TaskNext, TaskStarts, Begin, Decide, Launch, Launched, Wait, TimedOut, Reap,
           Interrupt, Aborted, Finalize, Stored, Retire
  <1>3. task[r] # "none"
    BY DEF TaskNext, TaskStarts, Begin, Decide, Launch, Launched, Wait, TimedOut, Reap,
           Interrupt, Aborted, Finalize, Stored, Retire
  <1>4. Admitted(r) /\ Rowed(r)
    BY <1>3 DEF Admitted, Rowed, OnceInv, KeyInv, Begun
  <1>5. CASE Finalize(r)
    <2>1. RowState(state[r]) \in RowTerminal
      BY DEF RowState, RowTerminal
    <2>2. Release(r) /\ Write(r, "task", RowState(state[r])) /\ UNCHANGED mem
      BY <1>5 DEF Finalize
    <2> QED BY <1>1, <1>2, <1>3, <1>4, <2>1, <2>2, EndSlots
  <1>6. CASE ~Finalize(r)
    <2>1. UNCHANGED <<gate, write>>
      BY <1>6 DEF TaskNext, TaskStarts, Begin, Decide, Launch, Launched, Wait, TimedOut,
                  Reap, Interrupt, Aborted, Stored, Retire
    <2>2. \A s \in Jobs : Admitted(s)' => Admitted(s)
      BY <1>1, <1>2, <1>3, <2>1 DEF Admitted
    <2> QED BY <1>1, <2>1, <2>2, SlotStays
  <1> QED BY <1>5, <1>6

\* A cancel or the end of a grace period keeps the invariant.
LEMMA StopSlots ==
    ASSUME TypeOK, OnceInv, SlotInv, NEW r \in Jobs, StopNext(r)
    PROVE  SlotInv'
  <1> USE DEF TypeOK, MarkCancelled, startVars, jobVars, taskVars, procVars, dbVars,
              stopVars, netVars
  <1>1. UNCHANGED <<pc, task, mem, row>>
    BY DEF StopNext, Cancel, CancelTerminated, CancelReleases, CancelReturns,
           GraceExpires, GraceKills
  <1>2. CASE Cancel(r)
    <2>1. UNCHANGED <<gate, write>> /\ r \in mem /\ pc[r] = "done"
      BY <1>2 DEF Cancel
    <2>2. Rowed(r)
      BY <1>2 DEF Cancel, Known, Rowed, OnceInv, KeyInv, Begun
    <2>3. \A s \in Jobs : s # r => canceller'[s] = canceller[s]
      BY <1>2 DEF Cancel
    <2>4. \A s \in Jobs : Rowed(s)' = Rowed(s)
      BY <1>1 DEF Rowed
    <2>5. \A s \in Jobs : Admitted(s)' => Admitted(s)
      BY <1>1, <2>1, <2>3 DEF Admitted
    <2>6. CancelInv'
      BY <1>1, <2>1, <2>2, <2>3, <2>4 DEF SlotInv, CancelInv
    <2>7. OneAdmitted' /\ RootKept'
      BY <2>1, <2>4, <2>5, UnsharedJobs DEF SlotInv, OneAdmitted, RootKept
    <2>8. WriteInv'
      BY <2>1, <2>4, UnsharedJobs DEF SlotInv, WriteInv, StartWrites, EndWrites
    <2> QED BY <2>6, <2>7, <2>8 DEF SlotInv
  <1>3. CASE CancelReleases(r)
    <2>1. /\ Release(r) /\ Write(r, "cancel", "cancelled")
          /\ canceller[r] # "none" /\ canceller' = [canceller EXCEPT ![r] = "storing"]
      BY <1>3 DEF CancelReleases
    <2>2. Admitted(r) /\ Rowed(r)
      BY <2>1 DEF Admitted, SlotInv, CancelInv
    <2>3. "cancelled" \in RowTerminal
      BY DEF RowTerminal
    <2> QED BY <1>1, <2>1, <2>2, <2>3, EndSlots
  <1>4. CASE CancelTerminated(r) \/ CancelReturns(r) \/ GraceExpires(r) \/ GraceKills(r)
    <2>1. UNCHANGED <<gate, write>>
      BY <1>4 DEF CancelTerminated, CancelReturns, GraceExpires, GraceKills
    <2>2. \A s \in Jobs : canceller'[s] # "none" => canceller[s] # "none"
      BY <1>4 DEF CancelTerminated, CancelReturns, GraceExpires, GraceKills
    <2>3. \A s \in Jobs : Admitted(s)' => Admitted(s)
      BY <1>1, <2>1, <2>2 DEF Admitted
    <2> QED BY <1>1, <2>1, <2>2, <2>3, SlotStays
  <1> QED BY <1>2, <1>3, <1>4 DEF StopNext

\* The invariant holds.
LEMMA SlotHolds == Spec => []SlotInv
  <1> USE DEF startVars, jobVars, taskVars, procVars, dbVars, stopVars, netVars
  <1>1. Init => SlotInv
    BY UnsharedJobs DEF Init, SlotInv, CancelInv, OneAdmitted, RootKept, WriteInv, StartWrites,
           EndWrites, Admitted, Writers
  <1>2. TypeOK /\ OnceInv /\ SlotInv /\ [Next]_vars => SlotInv'
    <2> SUFFICES ASSUME TypeOK, OnceInv, SlotInv, [Next]_vars PROVE SlotInv'
      OBVIOUS
    <2>1. ASSUME NEW r \in Jobs, Spawn(r) \/ ProcessExits(r) PROVE SlotInv'
      BY <2>1, SlotStays DEF Spawn, ProcessExits, Admitted
    <2>2. ASSUME NEW w \in Roots, PatchBegins(w) \/ PatchEnds(w) PROVE SlotInv'
      <3>1. \A s \in Jobs : Owner[s] \notin {"free", "patch"} /\ Root[s] \in Roots
        BY ShellAssumption, Names
      <3>2. \A s \in Jobs : gate[Root[s]] = Owner[s] => gate'[Root[s]] = Owner[s]
        BY <2>2, <3>1 DEF PatchBegins, PatchEnds, TypeOK
      <3>3. UNCHANGED <<pc, mem, task, canceller, write, row>>
        BY <2>2 DEF PatchBegins, PatchEnds
      <3>4. \A s \in Jobs : Admitted(s)' = Admitted(s) /\ Rowed(s)' = Rowed(s)
        BY <3>3 DEF Admitted, Rowed
      <3>5. CancelInv' /\ OneAdmitted'
        BY <3>3, <3>4, UnsharedJobs DEF SlotInv, CancelInv, OneAdmitted
      <3>6. RootKept'
        BY <3>2, <3>4, UnsharedJobs DEF SlotInv, RootKept
      <3>7. WriteInv'
        BY <3>3, <3>4, UnsharedJobs DEF SlotInv, WriteInv, StartWrites, EndWrites
      <3> QED BY <3>5, <3>6, <3>7 DEF SlotInv
    <2>3. CASE Disconnect \/ Reconnect \/ Revoke \/ UNCHANGED vars
      BY <2>3, SlotStays DEF Disconnect, Reconnect, Revoke, vars, Admitted
    <2>4. CASE Restart
      <3>1. \A s \in Jobs : /\ pc'[s] # "storing" /\ s \notin mem'
                            /\ task'[s] = "none" /\ canceller'[s] = "none"
        BY <2>4 DEF Restart
      <3>2. \A s \in Jobs : \A w \in Writers : write'[s][w] = "none"
        BY <2>4 DEF Restart
      <3>3. \A s \in Jobs : ~Admitted(s)'
        BY <3>1, <3>2 DEF Admitted, Writers
      <3> QED BY <3>1, <3>2, <3>3, UnsharedJobs DEF SlotInv, CancelInv, OneAdmitted, RootKept,
                 WriteInv, StartWrites, EndWrites, Writers
    <2> QED BY <2>1, <2>2, <2>3, <2>4, StartSlots, TaskSlots, StopSlots DEF Next
  <1> QED BY <1>1, <1>2, ShellTypes, OnceHolds, PTL DEF Spec

\* A row that says how a job ended is never overwritten by one that says it runs, if
\* its requests share the name of their reservation with no other row (put_idempotency,
\* shell.py): for any starts, timeouts of starts, cancels, disconnects and restarts,
\* although the write of a start may land long after the start ended.
THEOREM TerminalRowsStay == Spec => TerminalRowStays
  <1> USE DEF startVars, jobVars, taskVars, procVars, dbVars, stopVars, netVars
  <1>1. TypeOK /\ SlotInv /\ [Next]_vars => [RowsStayTerminal]_vars
    <2> SUFFICES ASSUME TypeOK, SlotInv, Next, NEW q \in Unshared,
                        row[Slot[q]].state \in RowTerminal
                 PROVE  row'[Slot[q]].state \in RowTerminal
      BY DEF RowsStayTerminal
    <2> DEFINE k == Slot[q]
    <2> k \in Slots
      BY Names DEF Unshared
    <2> HIDE DEF k
    <2> SUFFICES ASSUME row[k].state \in RowTerminal PROVE row'[k].state \in RowTerminal
      BY DEF k
    <2>1. ASSUME NEW r \in Jobs, NEW w \in Writers, WriteLands(r, w)
          PROVE  row'[k].state \in RowTerminal
      <3>1. /\ write[r][w] # "none"
            /\ row' = [row EXCEPT ![Slot[r]] = [state |-> write[r][w], job |-> r]]
        BY <2>1 DEF WriteLands
      <3>2. CASE k # Slot[r]
        BY <3>1, <3>2 DEF TypeOK
      <3>3. CASE k = Slot[r]
        <4>1. Rowed(r) /\ r \in Unshared
          BY <3>3, SharesNothing DEF Rowed, NoRow, RowTerminal, k
        <4>2. w \in {"task", "cancel"}
          BY <3>1, <4>1 DEF Writers, SlotInv, WriteInv, StartWrites
        <4>3. write[r][w] \in RowTerminal
          BY <3>1, <4>2 DEF SlotInv, WriteInv, EndWrites
        <4>4. row'[k] = [state |-> write[r][w], job |-> r]
          BY <3>1, <3>3 DEF TypeOK
        <4> QED BY <4>3, <4>4
      <3> QED BY <3>2, <3>3
    <2>2. ASSUME NEW r \in Jobs, StartNext(r), \A w \in Writers : ~WriteLands(r, w)
          PROVE  UNCHANGED row
      BY <2>2 DEF StartNext, Prepare, Lock, Admit, CreateTask, StartFails, StartTimesOut
    <2>3. ASSUME NEW r \in Jobs, TaskNext(r) \/ StopNext(r) \/ Spawn(r) \/ ProcessExits(r)
          PROVE  UNCHANGED row
      BY <2>3, OthersBeginNothing
    <2>4. ASSUME NEW w \in Roots, PatchBegins(w) \/ PatchEnds(w) PROVE UNCHANGED row
      BY <2>4 DEF PatchBegins, PatchEnds
    <2>5. CASE Disconnect \/ Reconnect \/ Revoke \/ Restart
      BY <2>5 DEF Disconnect, Reconnect, Revoke, Restart
    <2> QED BY <2>1, <2>2, <2>3, <2>4, <2>5 DEF Next
  <1> QED BY <1>1, ShellTypes, SlotHolds, PTL DEF Spec, TerminalRowStays

-----------------------------------------------------------------------------
\* Exclusive workspaces.  A job works from its reservation to its finally
\* clause, and a process exists only inside that stretch (Tracked).

Working(r) ==
    \/ pc[r] = "storing"
    \/ task[r] \notin {"none", "storing", "retiring", "done"}

Tracked(r) ==
    /\ proc[r] \in {"launching", "alive"} =>
           task[r] \in {"launching", "recovering", "running", "timing_out", "aborting"}
    /\ task[r] \in {"running", "timing_out", "aborting"} =>
           r \in handle /\ proc[r] \in {"alive", "dead"}

TrackInv == \A r \in Jobs : Tracked(r)

OwnInv ==
    /\ \A r \in Jobs : task[r] # "none" => pc[r] = "done"
    /\ \A r \in Jobs : canceller[r] # "none" => r \in cancelled
    /\ \A r \in Unshared \ cancelled : Working(r) => gate[Root[r]] = Owner[r]

\* A step that leaves the jobs and their processes alone leaves them tracked.
LEMMA TrackedStays ==
    ASSUME TrackInv, UNCHANGED <<task, proc>>, handle \subseteq handle'
    PROVE  TrackInv'
  BY DEF TrackInv, Tracked

\* A task keeps its process tracked.
LEMMA TaskTracks ==
    ASSUME TypeOK, TrackInv, NEW r \in Jobs, TaskNext(r)
    PROVE  TrackInv'
  <1> USE DEF TypeOK, TrackInv, Tracked, At, TaskGoes, Ends, startVars, jobVars,
              taskVars, procVars, dbVars, stopVars, netVars
  <1>1. CASE TaskStarts(r) \/ Begin(r) \/ Decide(r)
    <2>1. CASE TaskStarts(r)
      BY <2>1 DEF TaskStarts
    <2>2. CASE Begin(r)
      BY <2>2 DEF Begin
    <2>3. CASE Decide(r)
      <3>1. UNCHANGED <<handle, proc>> /\ task[r] = "approving"
        BY <2>3 DEF Decide
      <3>2. \A s \in Jobs : s # r => task'[s] = task[s]
        BY <2>3 DEF Decide
      <3>3. task'[r] \in {"checking", "cleanup"}
        BY <2>3 DEF Decide
      <3> QED BY <3>1, <3>2, <3>3
    <2> QED BY <1>1, <2>1, <2>2, <2>3
  <1>2. CASE Launch(r)
    <2>1. UNCHANGED handle /\ task[r] = "checking"
      BY <1>2 DEF Launch
    <2>2. \A s \in Jobs : s # r => task'[s] = task[s] /\ proc'[s] = proc[s]
      BY <1>2 DEF Launch
    <2>3. task'[r] = "launching" \/ (task'[r] = "cleanup" /\ UNCHANGED proc)
      BY <1>2 DEF Launch
    <2> QED BY <2>1, <2>2, <2>3
  <1>3. CASE Launched(r)
    <2>1. UNCHANGED proc /\ handle \subseteq handle'
      BY <1>3 DEF Launched
    <2>2. \A s \in Jobs : s # r => task'[s] = task[s]
      BY <1>3 DEF Launched
    <2>3. CASE proc[r] = "failed"
      <3>1. task'[r] = "cleanup"
        BY <1>3, <2>3 DEF Launched
      <3> QED BY <2>1, <2>2, <2>3, <3>1
    <2>4. CASE proc[r] # "failed"
      <3>1. /\ task'[r] = "running" /\ r \in handle'
            /\ proc[r] \in {"alive", "dead"}
        BY <1>3, <2>4 DEF Launched
      <3> QED BY <2>1, <2>2, <3>1
    <2> QED BY <2>3, <2>4
  <1>4. CASE Wait(r) \/ TimedOut(r) \/ Reap(r) \/ Aborted(r)
    <2>1. CASE Wait(r)
      BY <2>1 DEF Wait
    <2>2. CASE TimedOut(r)
      BY <2>2 DEF TimedOut
    <2>3. CASE Reap(r)
      BY <2>3 DEF Reap
    <2>4. CASE Aborted(r)
      BY <2>4 DEF Aborted
    <2> QED BY <1>4, <2>1, <2>2, <2>3, <2>4
  <1>5. CASE Interrupt(r)
    BY <1>5, SMTT(30) DEF Interrupt
  <1>6. CASE Finalize(r) \/ Stored(r) \/ Retire(r)
    BY <1>6, SMTT(30) DEF Finalize, Stored, Retire
  <1> QED BY <1>1, <1>2, <1>3, <1>4, <1>5, <1>6 DEF TaskNext

\* Every live process has a task that waits for it or ends it.
THEOREM ProcessesAreTracked == Spec => []NoUntrackedProcess
  <1> USE DEF startVars, jobVars, taskVars, procVars, dbVars, stopVars, netVars
  <1>1. Init => TrackInv
    BY DEF Init, TrackInv, Tracked
  <1>2. TypeOK /\ OnceInv /\ TrackInv /\ [Next]_vars => TrackInv'
    <2> SUFFICES ASSUME TypeOK, OnceInv, TrackInv, [Next]_vars PROVE TrackInv'
      OBVIOUS
    <2>1. ASSUME NEW r \in Jobs, StartNext(r) PROVE TrackInv'
      <3>1. CASE CreateTask(r)
        <4>1. proc[r] = "none"
          BY <3>1 DEF CreateTask, OnceInv, KeyInv, Begun
        <4> QED BY <3>1, <4>1 DEF CreateTask, TypeOK, TrackInv, Tracked
      <3>2. CASE ~CreateTask(r)
        <4>1. UNCHANGED <<task, proc, handle>>
          BY <2>1, <3>2 DEF StartNext, Prepare, Lock, Admit, StartFails, StartTimesOut,
                            WriteLands
        <4> QED BY <4>1, TrackedStays
      <3> QED BY <3>1, <3>2
    <2>2. ASSUME NEW r \in Jobs, StopNext(r) PROVE TrackInv'
      <3>1. UNCHANGED <<task, proc, handle>>
        BY <2>2 DEF StopNext, Cancel, CancelTerminated, CancelReleases, CancelReturns,
                    GraceExpires, GraceKills
      <3> QED BY <3>1, TrackedStays
    <2>3. ASSUME NEW r \in Jobs, Spawn(r) \/ ProcessExits(r) PROVE TrackInv'
      BY <2>3 DEF Spawn, ProcessExits, TypeOK, TrackInv, Tracked
    <2>4. ASSUME NEW w \in Roots, PatchBegins(w) \/ PatchEnds(w) PROVE TrackInv'
      BY <2>4, TrackedStays DEF PatchBegins, PatchEnds
    <2>5. CASE Disconnect \/ Reconnect \/ Revoke \/ UNCHANGED vars
      BY <2>5, TrackedStays DEF Disconnect, Reconnect, Revoke, vars
    <2>6. CASE Restart
      BY <2>6 DEF Restart, TrackInv, Tracked
    <2> QED BY <2>1, <2>2, <2>3, <2>4, <2>5, <2>6, TaskTracks DEF Next
  <1>3. TrackInv => NoUntrackedProcess
    BY DEF TrackInv, Tracked, NoUntrackedProcess
  <1> QED BY <1>1, <1>2, <1>3, ShellTypes, OnceHolds, PTL DEF Spec

-----------------------------------------------------------------------------
\* Ownership.  OwnedWhileRunning is not inductive: the root is taken before the
\* task exists and given back by name.  OwnInv extends the claim to the whole
\* stretch in which an uncancelled job works.

\* A step that lets no job work and leaves the gate alone keeps the invariant.
LEMMA OwnStays ==
    ASSUME OwnInv, UNCHANGED gate, cancelled \subseteq cancelled',
           \A s \in Jobs : Working(s)' => Working(s),
           \A s \in Jobs : task'[s] # "none" => pc'[s] = "done",
           \A s \in Jobs : canceller'[s] # "none" => s \in cancelled'
    PROVE  OwnInv'
  BY UnsharedJobs DEF OwnInv

\* A start keeps the owners.
LEMMA StartOwns ==
    ASSUME TypeOK, SlotInv, OwnInv, NEW r \in Jobs, StartNext(r)
    PROVE  OwnInv'
  <1> USE DEF TypeOK, StartEnds, startVars, jobVars, taskVars, procVars, dbVars,
              stopVars, netVars
  <1>1. CASE Prepare(r) \/ Lock(r) \/ StartTimesOut(r)
    <2>1. UNCHANGED <<gate, task, cancelled, canceller>>
      BY <1>1 DEF Prepare, Lock, StartTimesOut
    <2>2. \A s \in Jobs : pc[s] = "done" => pc'[s] = "done"
      BY <1>1 DEF Prepare, Lock, StartTimesOut
    <2>3. \A s \in Jobs : pc'[s] = "storing" => pc[s] = "storing"
      BY <1>1 DEF Prepare, Lock, StartTimesOut
    <2> QED BY <2>1, <2>2, <2>3, OwnStays DEF OwnInv, Working
  <1>2. CASE Admit(r) /\ (Known(r) \/ ~CanReserve(r))
    <2>1. UNCHANGED <<gate, task, cancelled, canceller>>
      BY <1>2 DEF Admit
    <2>2. pc' = [pc EXCEPT ![r] = "done"]
      BY <1>2 DEF Admit
    <2> QED BY <2>1, <2>2, OwnStays DEF OwnInv, Working
  <1>3. CASE Admit(r) /\ ~(Known(r) \/ ~CanReserve(r))
    <2>1. /\ UNCHANGED <<task, cancelled, canceller>>
          /\ pc[r] = "locked" /\ pc' = [pc EXCEPT ![r] = "storing"]
          /\ gate[Root[r]] = "free" /\ gate' = [gate EXCEPT ![Root[r]] = Owner[r]]
      BY <1>3 DEF Admit, CanReserve, Reserve
    <2>2. \A s \in Jobs : Owner[s] # "free" /\ Root[s] \in Roots
      BY ShellAssumption, Names
    <2>3. \A s \in Unshared \ cancelled : s # r /\ Working(s) => gate'[Root[s]] = Owner[s]
      BY <2>1, <2>2 DEF OwnInv, Unshared
    <2>4. gate'[Root[r]] = Owner[r]
      BY <2>1, <2>2
    <2>5. \A s \in Jobs : s # r => Working(s)' = Working(s)
      BY <2>1 DEF Working
    <2>6. \A s \in Jobs : task'[s] # "none" => pc'[s] = "done"
      BY <2>1 DEF OwnInv
    <2> QED BY <2>1, <2>3, <2>4, <2>5, <2>6, UnsharedJobs DEF OwnInv
  <1>4. CASE CreateTask(r)
    <2>1. /\ UNCHANGED <<gate, cancelled, canceller>>
          /\ pc[r] = "storing" /\ pc' = [pc EXCEPT ![r] = "done"]
          /\ task' = [task EXCEPT ![r] = "created"]
      BY <1>4 DEF CreateTask
    <2>2. \A s \in Jobs : Working(s)' => Working(s)
      BY <2>1 DEF Working
    <2> QED BY <2>1, <2>2, OwnStays DEF OwnInv
  <1>5. CASE StartFails(r)
    <2>1. /\ UNCHANGED <<task, cancelled, canceller>> /\ Release(r)
          /\ pc[r] = "storing" /\ pc' = [pc EXCEPT ![r] = "done"]
      BY <1>5 DEF StartFails
    <2>2. task[r] = "none"
      BY <2>1 DEF OwnInv
    <2>3. \A s \in Jobs : Working(s)' => Working(s) /\ s # r
      BY <2>1, <2>2 DEF Working
    <2>4. \A s \in Jobs : task'[s] # "none" => pc'[s] = "done"
      BY <2>1 DEF OwnInv
    <2>5. \A s \in Jobs : Working(s) => Admitted(s)
      BY DEF Working, Admitted
    <2>6. Admitted(r)
      BY <2>1 DEF Admitted
    <2> QED BY <2>1, <2>3, <2>4, <2>5, <2>6, ReleaseSpares, UnsharedJobs DEF OwnInv, SlotInv
  <1>6. ASSUME NEW w \in Writers, WriteLands(r, w) PROVE OwnInv'
    BY <1>6, OwnStays DEF WriteLands, Working, OwnInv
  <1> QED BY <1>1, <1>2, <1>3, <1>4, <1>5, <1>6 DEF StartNext

\* A task keeps the owners.
LEMMA TaskOwns ==
    ASSUME TypeOK, SlotInv, OwnInv, NEW r \in Jobs, TaskNext(r)
    PROVE  OwnInv'
  <1> USE DEF TypeOK, At, TaskGoes, Ends, startVars, jobVars, taskVars, procVars,
              dbVars, stopVars, netVars
  <1>1. UNCHANGED <<pc, cancelled, canceller>>
    BY DEF TaskNext, TaskStarts, Begin, Decide, Launch, Launched, Wait, TimedOut, Reap,
           Interrupt, Aborted, Finalize, Stored, Retire
  <1>2. \A s \in Jobs : s # r => task'[s] = task[s]
    BY DEF TaskNext, TaskStarts, Begin, Decide, Launch, Launched, Wait, TimedOut, Reap,
           Interrupt, Aborted, Finalize, Stored, Retire
  <1>3. task[r] # "none"
    BY DEF TaskNext, TaskStarts, Begin, Decide, Launch, Launched, Wait, TimedOut, Reap,
           Interrupt, Aborted, Finalize, Stored, Retire
  <1>4. \A s \in Jobs : task'[s] # "none" => pc'[s] = "done"
    BY <1>1, <1>2, <1>3 DEF OwnInv
  <1>5. CASE Finalize(r)
    <2>1. Release(r) /\ task'[r] = "storing"
      BY <1>5 DEF Finalize
    <2>2. pc[r] = "done"
      BY <1>3 DEF OwnInv
    <2>3. \A s \in Jobs : Working(s)' => Working(s) /\ s # r
      BY <1>1, <1>2, <2>1, <2>2 DEF Working
    <2>4. \A s \in Jobs : Working(s) => Admitted(s)
      BY DEF Working, Admitted
    <2>5. Admitted(r)
      BY <1>3 DEF Admitted
    <2> QED BY <1>1, <1>4, <2>1, <2>3, <2>4, <2>5, ReleaseSpares, UnsharedJobs DEF OwnInv, SlotInv
  <1>6. CASE Stored(r) \/ Retire(r)
    <2>1. UNCHANGED gate /\ task'[r] \in {"retiring", "done"}
      BY <1>6 DEF Stored, Retire
    <2>2. \A s \in Jobs : Working(s)' => Working(s)
      BY <1>1, <1>2, <2>1 DEF Working
    <2> QED BY <1>1, <1>4, <2>1, <2>2, OwnStays DEF OwnInv
  <1>7. CASE Interrupt(r)
    <2>1. UNCHANGED gate
      BY <1>7 DEF Interrupt
    <2>2. Working(r)' => Working(r)
      BY <1>1, <1>7 DEF Interrupt, Working
    <2>3. \A s \in Jobs : Working(s)' => Working(s)
      BY <1>1, <1>2, <2>2 DEF Working
    <2> QED BY <1>1, <1>4, <2>1, <2>3, OwnStays DEF OwnInv
  <1>8. CASE ~(Finalize(r) \/ Stored(r) \/ Retire(r) \/ Interrupt(r))
    <2>1. UNCHANGED gate
      BY <1>8 DEF TaskNext, TaskStarts, Begin, Decide, Launch, Launched, Wait, TimedOut,
                  Reap, Aborted
    <2>2. task[r] \notin {"none", "storing", "retiring", "done"}
      BY <1>8 DEF TaskNext, TaskStarts, Begin, Decide, Launch, Launched, Wait, TimedOut,
                  Reap, Aborted
    <2>3. \A s \in Jobs : Working(s)' => Working(s)
      BY <1>1, <1>2, <2>2 DEF Working
    <2> QED BY <1>1, <1>4, <2>1, <2>3, OwnStays DEF OwnInv
  <1> QED BY <1>5, <1>6, <1>7, <1>8

\* A cancel or the end of a grace period keeps the owners.
LEMMA StopOwns ==
    ASSUME TypeOK, SlotInv, OwnInv, NEW r \in Jobs, StopNext(r)
    PROVE  OwnInv'
  <1> USE DEF TypeOK, MarkCancelled, startVars, jobVars, taskVars, procVars, dbVars,
              stopVars, netVars
  <1>1. UNCHANGED <<pc, task>> /\ cancelled \subseteq cancelled'
    BY DEF StopNext, Cancel, CancelTerminated, CancelReleases, CancelReturns,
           GraceExpires, GraceKills
  <1>2. \A s \in Jobs : canceller'[s] # "none" => s \in cancelled'
    BY DEF StopNext, Cancel, CancelTerminated, CancelReleases, CancelReturns,
           GraceExpires, GraceKills, OwnInv
  <1>3. \A s \in Jobs : Working(s)' = Working(s)
    BY <1>1 DEF Working
  <1>4. CASE CancelReleases(r)
    <2>1. Release(r) /\ r \in cancelled /\ Admitted(r)
      BY <1>4 DEF CancelReleases, OwnInv, Admitted
    <2>2. \A s \in Jobs : Working(s) => Admitted(s)
      BY DEF Working, Admitted
    <2> QED BY <1>1, <1>2, <1>3, <2>1, <2>2, ReleaseSpares, UnsharedJobs DEF OwnInv, SlotInv
  <1>5. CASE ~CancelReleases(r)
    <2>1. UNCHANGED gate
      BY <1>5 DEF StopNext, Cancel, CancelTerminated, CancelReturns, GraceExpires,
                  GraceKills
    <2> QED BY <1>1, <1>2, <1>3, <2>1, OwnStays DEF OwnInv
  <1> QED BY <1>4, <1>5

\* A process that nobody cancelled owns its workspace: no patch and no other job is
\* admitted to it, however often its own start is repeated and whatever the starts do
\* that share a name, for every request that shares its own with no other row
\* (start, _run_job; shell.py).
THEOREM ProcessesOwnTheirRoot == Spec => []OwnedWhileRunning
  <1> USE DEF startVars, jobVars, taskVars, procVars, dbVars, stopVars, netVars
  <1>1. Init => OwnInv
    BY UnsharedJobs DEF Init, OwnInv, Working
  <1>2. TypeOK /\ SlotInv /\ OwnInv /\ [Next]_vars => OwnInv'
    <2> SUFFICES ASSUME TypeOK, SlotInv, OwnInv, [Next]_vars PROVE OwnInv'
      OBVIOUS
    <2>1. ASSUME NEW r \in Jobs, Spawn(r) \/ ProcessExits(r) PROVE OwnInv'
      BY <2>1, OwnStays DEF Spawn, ProcessExits, Working, OwnInv
    <2>2. ASSUME NEW w \in Roots, PatchBegins(w) \/ PatchEnds(w) PROVE OwnInv'
      <3>1. \A s \in Jobs : Owner[s] \notin {"free", "patch"} /\ Root[s] \in Roots
        BY ShellAssumption, Names
      <3>2. \A s \in Jobs : gate[Root[s]] = Owner[s] => gate'[Root[s]] = Owner[s]
        BY <2>2, <3>1 DEF PatchBegins, PatchEnds, TypeOK
      <3> QED BY <2>2, <3>2, UnsharedJobs DEF PatchBegins, PatchEnds, Working, OwnInv
    <2>3. CASE Disconnect \/ Reconnect \/ Revoke \/ UNCHANGED vars
      BY <2>3, OwnStays DEF Disconnect, Reconnect, Revoke, vars, Working, OwnInv
    <2>4. CASE Restart
      BY <2>4, UnsharedJobs DEF Restart, Working, OwnInv
    <2> QED BY <2>1, <2>2, <2>3, <2>4, StartOwns, TaskOwns, StopOwns DEF Next
  <1>3. OwnInv /\ NoUntrackedProcess => OwnedWhileRunning
    BY UnsharedJobs DEF OwnInv, NoUntrackedProcess, OwnedWhileRunning, Working
  <1> QED BY <1>1, <1>2, <1>3, ShellTypes, SlotHolds, ProcessesAreTracked, PTL DEF Spec

-----------------------------------------------------------------------------
\* The memory of finished jobs.  RetainedBounded is not inductive: it needs that
\* a finished job nobody cancelled is in the queue of terminal jobs, so that no
\* task ends beside its finally clause with a terminal state, and no state turns
\* terminal after its task ended.  Without cancel() only a disconnect interrupts
\* a task, while the job asks for an approval and has no process.

Kept(q) == {q[i] : i \in 1 .. Len(q)}
BeforeHandle == {"none", "created", "begin", "approving", "checking", "launching",
                 "recovering"}
AskStates == {"none", "created", "begin", "approving", "done"}
FinallyStates == {"cleanup", "storing", "retiring"}

JobInv(r) ==
    /\ task[r] \in BeforeHandle => r \notin handle
    /\ killer[r] = "terminating" => r \in handle
    /\ canceller[r] # "none" => r \in cancelled
    /\ state[r] = "pending_approval" =>
           r \notin handle /\ task[r] \in AskStates /\ r \in Prompt
    /\ r \in interrupted => task[r] # "none"
    /\ r \in interrupted /\ r \notin cancelled => state[r] = "pending_approval"
    /\ task[r] \in FinallyStates => state[r] \in JobTerminal
    /\ task[r] = "done" /\ r \notin cancelled =>
           state[r] \in JobTerminal \cup {"pending_approval"}

JobsInv == \A r \in Jobs : JobInv(r)

Finished(r) == task[r] = "done" /\ state[r] \in JobTerminal

QueueInv ==
    /\ \A r \in Kept(retired) : Finished(r)
    /\ \A r \in mem \ cancelled : Finished(r) => r \in Kept(retired)
    /\ Len(retired) <= RetainLimit

\* A job that a step leaves alone keeps its invariant.
LEMMA JobStays ==
    ASSUME NEW s \in Jobs, JobInv(s), task'[s] = task[s], state'[s] = state[s],
           killer'[s] = killer[s], canceller'[s] = canceller[s],
           s \in handle' <=> s \in handle, s \in interrupted' => s \in interrupted,
           cancelled \subseteq cancelled'
    PROVE  JobInv(s)'
  BY DEF JobInv

\* A start keeps the invariant of every job.
LEMMA StartJobs ==
    ASSUME TypeOK, OnceInv, JobsInv, NEW r \in Jobs, StartNext(r)
    PROVE  JobsInv'
  <1> USE DEF TypeOK, StartEnds, startVars, jobVars, taskVars, procVars, dbVars,
              stopVars, netVars
  <1>1. UNCHANGED <<handle, interrupted, killer, canceller, cancelled>>
    BY DEF StartNext, Prepare, Lock, Admit, CreateTask, StartFails, StartTimesOut,
           WriteLands
  <1>2. \A s \in Jobs : s # r => task'[s] = task[s] /\ state'[s] = state[s]
    BY DEF StartNext, Prepare, Lock, Admit, CreateTask, StartFails, StartTimesOut,
           WriteLands
  <1>3. \A s \in Jobs : s # r => JobInv(s)'
    BY <1>1, <1>2, JobStays DEF JobsInv
  <1>4. JobInv(r)
    BY DEF JobsInv
  <1>5. CASE task'[r] = task[r] /\ state'[r] = state[r]
    <2>1. JobInv(r)'
      BY <1>1, <1>4, <1>5, JobStays
    <2> QED BY <1>3, <2>1 DEF JobsInv
  <1>6. CASE ~(task'[r] = task[r] /\ state'[r] = state[r])
    <2>1. pc[r] \in {"locked", "storing"}
      BY <1>6 DEF StartNext, Prepare, Lock, Admit, CreateTask, StartFails,
                  StartTimesOut, WriteLands
    <2>2. task[r] = "none"
      BY <2>1 DEF OnceInv, KeyInv, Begun
    <2>3. \/ task'[r] = "created" /\ state'[r] = state[r]
          \/ task'[r] = "none" /\ state'[r] = "queued"
          \/ task'[r] = "none" /\ state'[r] = "pending_approval" /\ r \in Prompt
      BY <1>6, <2>2 DEF StartNext, Prepare, Lock, Admit, CreateTask, StartFails,
                        StartTimesOut, WriteLands
    <2>4. r \notin handle
      BY <1>4, <2>2 DEF JobInv, BeforeHandle
    <2>5. r \notin interrupted
      BY <1>4, <2>2 DEF JobInv
    <2>6. JobInv(r)'
      <3> USE <1>1, <1>4, <2>2, <2>4, <2>5
          DEF JobInv, BeforeHandle, AskStates, FinallyStates, JobTerminal
      <3>1. CASE task'[r] = "created"
        BY <2>3, <3>1
      <3>2. CASE task'[r] = "none"
        BY <2>3, <3>2
      <3> QED BY <2>3, <3>1, <3>2
    <2> QED BY <1>3, <2>6 DEF JobsInv
  <1> QED BY <1>5, <1>6

\* A task keeps the invariant of every job.
LEMMA TaskJobs ==
    ASSUME TypeOK, JobsInv, NEW r \in Jobs, TaskNext(r)
    PROVE  JobsInv'
  <1> USE DEF TypeOK, At, TaskGoes, Ends, startVars, jobVars, taskVars, procVars,
              dbVars, stopVars, netVars
  <1>1. UNCHANGED <<killer, canceller, cancelled>>
    BY DEF TaskNext, TaskStarts, Begin, Decide, Launch, Launched, Wait, TimedOut, Reap,
           Interrupt, Aborted, Finalize, Stored, Retire
  <1>2. /\ handle \subseteq handle' /\ handle' \subseteq handle \cup {r}
        /\ interrupted' \subseteq interrupted
    BY DEF TaskNext, TaskStarts, Begin, Decide, Launch, Launched, Wait, TimedOut, Reap,
           Interrupt, Aborted, Finalize, Stored, Retire
  <1>3. \A s \in Jobs : s # r => task'[s] = task[s] /\ state'[s] = state[s]
    BY DEF TaskNext, TaskStarts, Begin, Decide, Launch, Launched, Wait, TimedOut, Reap,
           Interrupt, Aborted, Finalize, Stored, Retire
  <1>4. \A s \in Jobs : s # r => JobInv(s)'
    BY <1>1, <1>2, <1>3, JobStays DEF JobsInv
  <1>5. JobInv(r)
    BY DEF JobsInv
  <1>6. JobInv(r)'
    <2> USE <1>1, <1>5 DEF JobInv, BeforeHandle, AskStates, FinallyStates, JobTerminal
    <2>1. CASE TaskStarts(r)
      BY <2>1 DEF TaskStarts
    <2>2. CASE Begin(r)
      <3>1. task[r] = "begin" /\ r \notin interrupted /\ UNCHANGED <<handle, interrupted>>
        BY <2>2 DEF Begin
      <3>2. \/ task'[r] \in {"approving", "checking"} /\ state' = state
            \/ task'[r] = "cleanup" /\ state'[r] = "failed"
        BY <2>2 DEF Begin
      <3>3. task'[r] = "checking" => state[r] # "pending_approval"
        BY <2>2 DEF Begin
      <3> QED BY <3>1, <3>2, <3>3
    <2>3. CASE Decide(r)
      BY <2>3 DEF Decide
    <2>4. CASE Launch(r)
      BY <2>4 DEF Launch
    <2>5. CASE Launched(r)
      BY <2>5 DEF Launched
    <2>6. CASE Wait(r)
      BY <2>6 DEF Wait
    <2>7. CASE TimedOut(r)
      BY <2>7 DEF TimedOut
    <2>8. CASE Reap(r)
      BY <2>8 DEF Reap
    <2>9. CASE Interrupt(r)
      BY <2>9 DEF Interrupt
    <2>10. CASE Aborted(r)
      BY <2>10 DEF Aborted
    <2>11. CASE Finalize(r)
      BY <2>11 DEF Finalize
    <2>12. CASE Stored(r)
      BY <2>12 DEF Stored
    <2>13. CASE Retire(r)
      BY <2>13 DEF Retire
    <2> QED BY <2>1, <2>2, <2>3, <2>4, <2>5, <2>6, <2>7, <2>8, <2>9, <2>10, <2>11,
               <2>12, <2>13 DEF TaskNext
  <1> QED BY <1>4, <1>6 DEF JobsInv

\* A cancel or the end of a grace period keeps the invariant of every job.
LEMMA StopJobs ==
    ASSUME TypeOK, JobsInv, NEW r \in Jobs, StopNext(r)
    PROVE  JobsInv'
  <1> USE DEF TypeOK, MarkCancelled, startVars, jobVars, taskVars, procVars, dbVars,
              stopVars, netVars
  <1>1. UNCHANGED <<task, handle>> /\ cancelled \subseteq cancelled'
    BY DEF StopNext, Cancel, CancelTerminated, CancelReleases, CancelReturns,
           GraceExpires, GraceKills
  <1>2. \A s \in Jobs : s # r => /\ state'[s] = state[s] /\ killer'[s] = killer[s]
                                 /\ canceller'[s] = canceller[s]
                                 /\ s \in interrupted' => s \in interrupted
    BY DEF StopNext, Cancel, CancelTerminated, CancelReleases, CancelReturns,
           GraceExpires, GraceKills
  <1>3. \A s \in Jobs : s # r => JobInv(s)'
    BY <1>1, <1>2, JobStays DEF JobsInv
  <1>4. JobInv(r)
    BY DEF JobsInv
  <1>5. JobInv(r)'
    <2> USE <1>4 DEF JobInv, BeforeHandle, AskStates, FinallyStates, JobTerminal
    <2>1. CASE Cancel(r)
      BY <2>1 DEF Cancel
    <2>2. CASE CancelTerminated(r)
      BY <2>2 DEF CancelTerminated
    <2>3. CASE CancelReleases(r) \/ CancelReturns(r)
      BY <2>3 DEF CancelReleases, CancelReturns
    <2>4. CASE GraceExpires(r)
      BY <2>4 DEF GraceExpires
    <2>5. CASE GraceKills(r)
      BY <2>5 DEF GraceKills
    <2> QED BY <2>1, <2>2, <2>3, <2>4, <2>5 DEF StopNext
  <1> QED BY <1>3, <1>5 DEF JobsInv

\* The loss of the connection interrupts only jobs that ask for an approval.
LEMMA NetJobs ==
    ASSUME TypeOK, JobsInv, Disconnect \/ Reconnect \/ Revoke
    PROVE  JobsInv'
  <1> USE DEF TypeOK, startVars, jobVars, taskVars, procVars, dbVars, stopVars, netVars
  <1>1. UNCHANGED <<task, state, handle, canceller, cancelled>>
    BY DEF Disconnect, Reconnect, Revoke
  <1>2. \A s \in Jobs : killer'[s] = "terminating" => killer[s] = "terminating"
    BY DEF Disconnect, Reconnect, Revoke
  <1>3. \A s \in Jobs : s \in interrupted' =>
            s \in interrupted \/ (state[s] = "pending_approval" /\ task[s] # "none")
    BY DEF Disconnect, Reconnect, Revoke
  <1> QED BY <1>1, <1>2, <1>3 DEF JobsInv, JobInv

\* The invariant of the jobs holds.
LEMMA JobsHold == Spec => []JobsInv
  <1> USE DEF startVars, jobVars, taskVars, procVars, dbVars, stopVars, netVars
  <1>1. Init => JobsInv
    BY DEF Init, JobsInv, JobInv, FinallyStates
  <1>2. TypeOK /\ OnceInv /\ JobsInv /\ [Next]_vars => JobsInv'
    <2> SUFFICES ASSUME TypeOK, OnceInv, JobsInv, [Next]_vars PROVE JobsInv'
      OBVIOUS
    <2>1. ASSUME NEW r \in Jobs, Spawn(r) \/ ProcessExits(r) PROVE JobsInv'
      BY <2>1, JobStays DEF Spawn, ProcessExits, JobsInv
    <2>2. ASSUME NEW w \in Roots, PatchBegins(w) \/ PatchEnds(w) PROVE JobsInv'
      BY <2>2, JobStays DEF PatchBegins, PatchEnds, JobsInv
    <2>3. CASE Restart
      BY <2>3 DEF Restart, JobsInv, JobInv, FinallyStates
    <2>4. CASE UNCHANGED vars
      BY <2>4, JobStays DEF vars, JobsInv
    <2> QED BY <2>1, <2>2, <2>3, <2>4, StartJobs, TaskJobs, StopJobs, NetJobs DEF Next
  <1> QED BY <1>1, <1>2, ShellTypes, OnceHolds, PTL DEF Spec

\* A step that finishes no job nobody cancelled keeps the queue complete.
LEMMA QueueStays ==
    ASSUME QueueInv, UNCHANGED retired, retired \in Seq(Jobs),
           cancelled \subseteq cancelled',
           \A s \in Jobs : Finished(s) => Finished(s)',
           \A s \in Jobs \ cancelled' : s \in mem' /\ Finished(s)'
                                              => s \in mem /\ Finished(s),
           mem' \subseteq Jobs
    PROVE  QueueInv'
  <1>1. Kept(retired)' = Kept(retired)
    BY DEF Kept
  <1>2. Kept(retired) \subseteq Jobs
    BY DEF Kept
  <1> QED BY <1>1, <1>2 DEF QueueInv

\* What the queue holds after a job joined it and the oldest left it.
LEMMA QueueMoves ==
    ASSUME NEW q \in Seq(Jobs), NEW r \in Jobs
    PROVE  /\ Append(q, r) \in Seq(Jobs) /\ Len(Append(q, r)) = Len(q) + 1
           /\ Kept(Append(q, r)) = Kept(q) \cup {r}
           /\ Head(Append(q, r)) \in Kept(q) \cup {r}
           /\ Tail(Append(q, r)) \in Seq(Jobs) /\ Len(Tail(Append(q, r))) = Len(q)
           /\ Kept(Tail(Append(q, r))) \subseteq Kept(q) \cup {r}
           /\ Kept(q) \cup {r} \subseteq
                  Kept(Tail(Append(q, r))) \cup {Head(Append(q, r))}
  <1> DEFINE a == Append(q, r)
  <1>1. /\ a \in Seq(Jobs) /\ Len(a) = Len(q) + 1 /\ Len(q) \in Nat
        /\ \A i \in 1 .. Len(q) : a[i] = q[i]
        /\ a[Len(q) + 1] = r /\ a # <<>>
    BY AppendProperties, LenProperties
  <1>2. Kept(a) = Kept(q) \cup {r}
    <2>1. \A i \in 1 .. Len(a) : a[i] \in Kept(q) \cup {r}
      BY <1>1 DEF Kept
    <2>2. \A i \in 1 .. Len(q) : q[i] \in Kept(a)
      BY <1>1 DEF Kept
    <2>3. r \in Kept(a)
      BY <1>1 DEF Kept
    <2> QED BY <2>1, <2>2, <2>3 DEF Kept
  <1>3. /\ Tail(a) \in Seq(Jobs) /\ Len(Tail(a)) = Len(q)
        /\ \A i \in 1 .. Len(q) : Tail(a)[i] = a[i + 1]
        /\ Head(a) = a[1]
    BY <1>1, HeadTailProperties
  <1>4. Head(a) \in Kept(a)
    BY <1>1, <1>3 DEF Kept
  <1>5. Kept(Tail(a)) \subseteq Kept(a)
    BY <1>1, <1>3 DEF Kept
  <1>6. Kept(a) \subseteq Kept(Tail(a)) \cup {Head(a)}
    <2> SUFFICES ASSUME NEW i \in 1 .. Len(a)
                 PROVE  a[i] \in Kept(Tail(a)) \cup {Head(a)}
      BY DEF Kept
    <2>1. CASE i = 1
      BY <1>3, <2>1
    <2>2. CASE i # 1
      <3>1. i - 1 \in 1 .. Len(q) /\ Tail(a)[i - 1] = a[i]
        BY <1>1, <1>3, <2>2
      <3> QED BY <1>3, <3>1 DEF Kept
    <2> QED BY <2>1, <2>2
  <1> QED BY <1>1, <1>2, <1>3, <1>4, <1>5, <1>6

\* A job that joins the queue displaces the oldest, which is forgotten.
LEMMA RetireQueue ==
    ASSUME TypeOK, JobsInv, QueueInv, NEW r \in Jobs, Retire(r)
    PROVE  QueueInv'
  <1> DEFINE a == Append(retired, r)
  <1>1. /\ UNCHANGED <<state, cancelled>> /\ task[r] = "retiring"
        /\ task' = [task EXCEPT ![r] = "done"]
    BY DEF Retire, At, TaskGoes, stopVars
  <1>2. state[r] \in JobTerminal
    BY <1>1 DEF JobsInv, JobInv, FinallyStates
  <1>3. \A s \in Jobs : Finished(s)' <=> Finished(s) \/ s = r
    BY <1>1, <1>2 DEF Finished, TypeOK
  <1>4. \A s \in Kept(retired) \cup {r} : s \in Jobs /\ Finished(s)'
    <2>1. Kept(retired) \subseteq Jobs
      BY DEF Kept, TypeOK
    <2> QED BY <1>3, <2>1 DEF QueueInv
  <1>5. \A s \in mem \ cancelled : Finished(s)' => s \in Kept(retired) \cup {r}
    BY <1>3 DEF QueueInv, TypeOK
  <1>6. RetainLimit \in Nat /\ Len(retired) \in Nat /\ retired \in Seq(Jobs)
    BY ShellAssumption, LenProperties DEF TypeOK
  <1>7. CASE Len(a) > RetainLimit
    <2>1. retired' = Tail(a)
      BY <1>7 DEF Retire
    <2>2. mem' = mem \ {Head(a)}
      <3>1. Head(a) \in Kept(retired) \cup {r}
        BY <1>6, QueueMoves
      <3>2. state[Head(a)] \in JobTerminal
        BY <1>1, <1>4, <3>1 DEF Finished
      <3> QED BY <1>7, <3>2 DEF Retire
    <2>3. Len(retired') <= RetainLimit
      BY <1>6, <2>1, QueueMoves DEF QueueInv
    <2>4. \A s \in Kept(retired)' : Finished(s)'
      <3>1. Kept(retired)' \subseteq Kept(retired) \cup {r}
        BY <1>6, <2>1, QueueMoves DEF Kept
      <3> QED BY <1>4, <3>1
    <2>5. \A s \in mem' \ cancelled' : Finished(s)' => s \in Kept(retired)'
      <3>1. Kept(retired)' = Kept(Tail(a))
        BY <2>1 DEF Kept
      <3>2. Kept(retired) \cup {r} \subseteq Kept(Tail(a)) \cup {Head(a)}
        BY <1>6, QueueMoves
      <3> QED BY <1>1, <1>5, <2>2, <3>1, <3>2
    <2> QED BY <2>3, <2>4, <2>5 DEF QueueInv
  <1>8. CASE ~(Len(a) > RetainLimit)
    <2>1. retired' = a /\ mem' = mem
      BY <1>8 DEF Retire
    <2>2. Len(retired') <= RetainLimit
      <3>1. Len(a) \in Nat
        BY <1>6, QueueMoves
      <3> QED BY <1>6, <1>8, <2>1, <3>1
    <2>3. Kept(retired)' = Kept(retired) \cup {r}
      BY <1>6, <2>1, QueueMoves DEF Kept
    <2> QED BY <1>1, <1>4, <1>5, <2>1, <2>2, <2>3 DEF QueueInv
  <1> QED BY <1>7, <1>8

\* Every other step finishes no job nobody cancelled.
LEMMA OthersFinishNothing ==
    ASSUME TypeOK, OnceInv, JobsInv, QueueInv, NEW r \in Jobs,
           StartNext(r) \/ (TaskNext(r) /\ ~Retire(r)) \/ StopNext(r)
    PROVE  QueueInv'
  <1> USE DEF TypeOK, At, TaskGoes, Ends, StartEnds, MarkCancelled, startVars, jobVars,
              taskVars, procVars, dbVars, stopVars, netVars
  <1>1. JobInv(r)
    BY DEF JobsInv
  <1>2. CASE StartNext(r)
    <2>1. UNCHANGED <<retired, cancelled>> /\ mem' \subseteq mem \cup {r}
      BY <1>2 DEF StartNext, Prepare, Lock, Admit, CreateTask, StartFails, StartTimesOut,
                  WriteLands
    <2>2. \A s \in Jobs : s # r => task'[s] = task[s] /\ state'[s] = state[s]
      BY <1>2 DEF StartNext, Prepare, Lock, Admit, CreateTask, StartFails, StartTimesOut,
                  WriteLands
    <2>3. \/ task'[r] = task[r] /\ state'[r] = state[r] /\ mem' \subseteq mem
          \/ pc[r] \in {"locked", "storing"} /\ task'[r] \in {task[r], "created"}
      BY <1>2 DEF StartNext, Prepare, Lock, Admit, CreateTask, StartFails, StartTimesOut,
                  WriteLands
    <2>4. pc[r] \in {"locked", "storing"} => task[r] = "none"
      BY DEF OnceInv, KeyInv, Begun
    <2>5. \A s \in Jobs : Finished(s)' = Finished(s)
      BY <2>2, <2>3, <2>4 DEF Finished
    <2>6. \A s \in mem' : Finished(s) => s \in mem
      BY <2>1, <2>3, <2>4 DEF Finished
    <2> QED BY <2>1, <2>5, <2>6, QueueStays
  <1>3. CASE TaskNext(r) /\ ~Retire(r)
    <2>1. UNCHANGED <<retired, cancelled, mem>>
      BY <1>3 DEF TaskNext, TaskStarts, Begin, Decide, Launch, Launched, Wait, TimedOut,
                  Reap, Interrupt, Aborted, Finalize, Stored
    <2>2. \A s \in Jobs : s # r => task'[s] = task[s] /\ state'[s] = state[s]
      BY <1>3 DEF TaskNext, TaskStarts, Begin, Decide, Launch, Launched, Wait, TimedOut,
                  Reap, Interrupt, Aborted, Finalize, Stored
    <2>3. task[r] # "done"
      BY <1>3 DEF TaskNext, TaskStarts, Begin, Decide, Launch, Launched, Wait, TimedOut,
                  Reap, Interrupt, Aborted, Finalize, Stored
    <2>4. task'[r] = "done" => r \in interrupted /\ state'[r] = state[r]
      BY <1>3 DEF TaskNext, TaskStarts, Begin, Decide, Launch, Launched, Wait, TimedOut,
                  Reap, Interrupt, Aborted, Finalize, Stored
    <2>5. Finished(r)' => r \in cancelled
      BY <1>1, <2>4 DEF Finished, JobInv, JobTerminal
    <2>6. \A s \in Jobs : Finished(s) => Finished(s)'
      BY <2>2, <2>3 DEF Finished
    <2>7. \A s \in Jobs \ cancelled : Finished(s)' => Finished(s)
      BY <2>2, <2>5 DEF Finished
    <2> QED BY <2>1, <2>6, <2>7, QueueStays
  <1>4. CASE StopNext(r)
    <2>1. UNCHANGED <<retired, mem, task>> /\ cancelled \subseteq cancelled'
      BY <1>4 DEF StopNext, Cancel, CancelTerminated, CancelReleases, CancelReturns,
                  GraceExpires, GraceKills
    <2>2. \A s \in Jobs : s # r => state'[s] = state[s]
      BY <1>4 DEF StopNext, Cancel, CancelTerminated, CancelReleases, CancelReturns,
                  GraceExpires, GraceKills
    <2>3. state'[r] = state[r] \/ (state'[r] \in JobTerminal /\
                                    (r \in cancelled' \/ r \in handle))
      BY <1>1, <1>4 DEF StopNext, Cancel, CancelTerminated, CancelReleases, CancelReturns,
                  GraceExpires, GraceKills, JobInv, JobTerminal
    <2>4. r \notin cancelled' /\ task[r] = "done" /\ r \in handle
              => state[r] \in JobTerminal
      BY <1>1, <2>1 DEF JobInv
    <2>5. \A s \in Jobs : Finished(s) => Finished(s)'
      BY <2>1, <2>2, <2>3 DEF Finished
    <2>6. \A s \in Jobs \ cancelled' : Finished(s)' => Finished(s)
      BY <2>1, <2>2, <2>3, <2>4 DEF Finished
    <2> QED BY <2>1, <2>5, <2>6, QueueStays
  <1> QED BY <1>2, <1>3, <1>4

\* The queue of terminal jobs is complete and bounded.
LEMMA QueueHolds == Spec => []QueueInv
  <1> USE DEF startVars, jobVars, taskVars, procVars, dbVars, stopVars, netVars
  <1>1. ASSUME retired = <<>>, mem = {} PROVE QueueInv
    BY <1>1, ShellAssumption DEF QueueInv, Kept
  <1>2. Init => QueueInv
    BY <1>1 DEF Init
  <1>3. TypeOK /\ TypeOK' /\ OnceInv /\ JobsInv /\ QueueInv /\ [Next]_vars => QueueInv'
    <2> SUFFICES ASSUME TypeOK, TypeOK', OnceInv, JobsInv, QueueInv, [Next]_vars
                 PROVE  QueueInv'
      OBVIOUS
    <2>1. ASSUME UNCHANGED <<retired, mem, task, state, cancelled>> PROVE QueueInv'
      BY <2>1, QueueStays DEF Finished, TypeOK
    <2>2. ASSUME NEW r \in Jobs, Spawn(r) \/ ProcessExits(r) PROVE QueueInv'
      BY <2>1, <2>2 DEF Spawn, ProcessExits
    <2>3. ASSUME NEW w \in Roots, PatchBegins(w) \/ PatchEnds(w) PROVE QueueInv'
      BY <2>1, <2>3 DEF PatchBegins, PatchEnds
    <2>4. CASE Disconnect \/ Reconnect \/ Revoke \/ UNCHANGED vars
      BY <2>1, <2>4 DEF Disconnect, Reconnect, Revoke, vars
    <2>5. CASE Restart
      <3>1. retired' = <<>> /\ mem' = {}
        BY <2>5 DEF Restart
      <3> QED BY <3>1, ShellAssumption DEF QueueInv, Kept
    <2> QED BY <2>2, <2>3, <2>4, <2>5, RetireQueue, OthersFinishNothing DEF Next
  <1> QED BY <1>2, <1>3, ShellTypes, OnceHolds, JobsHold, PTL DEF Spec

\* At most RetainLimit finished jobs that nobody cancelled stay in memory, for any
\* jobs, disconnects, revocations, grace periods and restarts.
THEOREM FinishedJobsAreForgotten == Spec => []RetainedBounded
  <1>1. ASSUME TypeOK, QueueInv PROVE RetainedBounded
    <2> DEFINE n == Len(retired)
               S == {r \in mem \ cancelled : task[r] = "done" /\ state[r] \in JobTerminal}
    <2>1. n \in Nat /\ retired \in [1 .. n -> Jobs]
      BY <1>1, LenProperties DEF TypeOK
    <2>2. IsFiniteSet(1 .. n) /\ Cardinality(1 .. n) = n
      BY <2>1, FS_Interval, SMTT(30)
    <2>3. retired \in Surjection(1 .. n, Kept(retired))
      BY <2>1 DEF Surjection, Kept
    <2>4. IsFiniteSet(Kept(retired)) /\ Cardinality(Kept(retired)) <= n
      BY <2>2, <2>3, FS_Surjection
    <2>5. S \in SUBSET Kept(retired)
      BY <1>1 DEF QueueInv, Finished
    <2>6. Cardinality(S) <= Cardinality(Kept(retired)) /\ IsFiniteSet(S)
      BY <2>4, <2>5, FS_Subset
    <2>7. Cardinality(S) \in Nat /\ Cardinality(Kept(retired)) \in Nat
      BY <2>4, <2>6, FS_CardinalityType
    <2>8. n <= RetainLimit /\ RetainLimit \in Nat
      BY <1>1, ShellAssumption DEF QueueInv
    <2>9. Cardinality(S) <= RetainLimit
      BY <2>1, <2>4, <2>6, <2>7, <2>8
    <2> QED BY <2>9 DEF RetainedBounded
  <1> QED BY <1>1, ShellTypes, QueueHolds, PTL
=============================================================================
