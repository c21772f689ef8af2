------------------------------ MODULE Patching ------------------------------
(***************************************************************************)
(* Transactional patches of one workspace root (agent patching.py, the     *)
(* idempotency table of db.py, operation_gate.py): preflight, backups, the *)
(* manifest, replacement, rollback, redelivery after a restart, recovery   *)
(* before the daemon accepts requests, and a user who edits the same files *)
(* with another program at any time.                                       *)
(***************************************************************************)
EXTENDS PatchText

CONSTANTS
    Keys,           \* idempotency keys; a key stands for one request
    Paths,          \* a set of numbers: the sort order of the paths
    Sections,       \* the sections of each request
    Base,           \* the content behind the base hashes of each request
    Start,          \* the files at the start
    Edits,          \* what a user may write
    MaxEdits,       \* bound: edits by the user
    MaxCrashes,     \* bound: deaths of the daemon
    MaxRequests     \* bound: requests with one key

NoKey == 0
Want == [k \in Keys |-> Desired(Sections[k], Base[k])]

ASSUME PatchAssumption ==
    /\ Keys \subseteq Nat \ {NoKey} /\ Paths \subseteq Nat /\ IsFiniteSet(Paths)
    /\ Start \in [Paths -> Edits \cup {Absent}]
    /\ {MaxEdits, MaxCrashes, MaxRequests} \subseteq Nat
    /\ \A k \in Keys : Touched(Sections[k]) \subseteq Paths
                       /\ Admissible(Sections[k], Base[k])

VARIABLES
    files,          \* content of each path
    swapped,        \* paths whose file identity changed since it was resolved
    row,            \* idempotency rows
    manifest,       \* "none" or the state in a transaction's manifest.json
    progress,       \* where apply is, or the recovery of a key
    todo,           \* paths the current loop still has to visit
    mutated,        \* mutated of _commit: a replacement was begun
    bad,            \* paths that _restore could not restore
    checked,        \* the key whose rollback has compared a file it will put back, or NoKey
    raced,          \* history: that file was edited after the comparison
    owner,          \* owner of the root in the gate
    daemon,         \* "down", "recovering" or "up"
    answer,         \* what the last request with a key was told
    applied,        \* history: paths a key has written and not restored
    edits, crashes, requests

patchVars == <<files, swapped, row, manifest, progress, todo, mutated, bad, owner, daemon,
               answer, applied, checked, raced, edits, crashes, requests>>
rest == <<checked, raced, edits, crashes, requests>>

PatchInit ==
    /\ files = Start /\ swapped = {}
    /\ row = [k \in Keys |-> "none"] /\ manifest = [k \in Keys |-> "none"]
    /\ progress = [k \in Keys |-> "idle"] /\ todo = [k \in Keys |-> {}]
    /\ mutated = [k \in Keys |-> FALSE] /\ bad = [k \in Keys |-> {}]
    /\ owner = NoKey /\ daemon = "up" /\ checked = NoKey /\ raced = FALSE
    /\ answer = [k \in Keys |-> "none"] /\ applied = [k \in Keys |-> {}]
    /\ edits = 0 /\ crashes = 0 /\ requests = [k \in Keys |-> 0]

All(k) == DOMAIN Base[k]
First(S) == CHOOSE p \in S : \A q \in S : p <= q
Last(S) == CHOOSE p \in S : \A q \in S : q <= p
Goto(k, step) == progress' = [progress EXCEPT ![k] = step]
Visit(k, S) == todo' = [todo EXCEPT ![k] = S]

\* The request leaves the gate and is answered with what apply has returned or
\* raised; or with an error of the adapter, which follows the worker whatever it
\* did: access has changed, the request was cancelled, its budget is spent.
LeaveApply(k, a) ==
    /\ Goto(k, "idle") /\ Visit(k, {})
    /\ mutated' = [mutated EXCEPT ![k] = FALSE]
    /\ bad' = [bad EXCEPT ![k] = {}]
    /\ owner' = IF owner = k THEN NoKey ELSE owner
    /\ \E told \in {a, "adapter_error"} : answer' = [answer EXCEPT ![k] = told]

-----------------------------------------------------------------------------
\* apply up to the transaction.

\* A request arrives, the first one or a redelivery, for which
\* reconcile_duplicate is called first.
Request(k) ==
    /\ daemon = "up" /\ progress[k] = "idle" /\ requests[k] < MaxRequests
    /\ requests' = [requests EXCEPT ![k] = @ + 1]
    /\ \E step \in {"begin", "reconcile"} : Goto(k, step)
    /\ answer' = [answer EXCEPT ![k] = "none"]
    /\ UNCHANGED <<files, swapped, row, manifest, todo, mutated, bad, owner, daemon,
                   applied, checked, raced, edits, crashes>>

\* The idempotency row is read before the gate is taken.
Begin(k) ==
    /\ progress[k] = "begin"
    /\ \/ row[k] = "none" /\ Goto(k, "gate")
          /\ UNCHANGED <<todo, mutated, bad, owner, answer>>
       \/ row[k] = "succeeded" /\ LeaveApply(k, "applied")
       \/ row[k] = "running" /\ LeaveApply(k, "outcome_unknown")
    /\ UNCHANGED <<files, swapped, row, manifest, daemon, applied, rest>>

\* ProjectOperationGate.hold.
Acquire(k) ==
    /\ progress[k] = "gate"
    /\ \/ /\ owner = NoKey /\ owner' = k
          /\ Goto(k, "preflight") /\ Visit(k, All(k))
          /\ UNCHANGED <<mutated, bad, answer>>
       \/ owner # NoKey /\ LeaveApply(k, "busy")
    /\ UNCHANGED <<files, swapped, row, manifest, daemon, applied, rest>>

\* _preflight resolves and hashes each path.
Preflight(k) ==
    LET p == First(todo[k]) IN
    /\ progress[k] = "preflight" /\ todo[k] # {}
    /\ \/ /\ files[p] = Base[k][p]
          /\ Visit(k, todo[k] \ {p}) /\ swapped' = swapped \ {p}
          /\ UNCHANGED <<progress, mutated, bad, owner, answer>>
       \/ files[p] # Base[k][p] /\ LeaveApply(k, "conflict") /\ UNCHANGED swapped
    /\ UNCHANGED <<files, row, manifest, daemon, applied, rest>>

\* A dry run ends here; otherwise the key is marked RUNNING.
Announce(k) ==
    /\ progress[k] = "preflight" /\ todo[k] = {}
    /\ \/ LeaveApply(k, "preview") /\ UNCHANGED row
       \/ /\ row' = [row EXCEPT ![k] = "running"]
          /\ Goto(k, "verify") /\ Visit(k, All(k))
          /\ UNCHANGED <<mutated, bad, owner, answer>>
    /\ UNCHANGED <<files, swapped, manifest, daemon, applied, rest>>

-----------------------------------------------------------------------------
\* The transaction: _commit.

\* revalidate_for_mutation compares identities, not contents.
Same(k, p) ==
    IF Base[k][p] = Absent THEN files[p] = Absent
    ELSE files[p] # Absent /\ p \notin swapped

\* An exception before the first replacement: the journal directory and the
\* row are removed.
Abort(k, a) ==
    /\ manifest' = [manifest EXCEPT ![k] = "none"]
    /\ row' = [row EXCEPT ![k] = "none"]
    /\ LeaveApply(k, a)
    /\ UNCHANGED <<files, swapped, daemon, applied, rest>>

\* _verify_commit_preconditions, then the backups: each path is checked again.
Inspect(k) ==
    LET p == First(todo[k]) IN
    /\ progress[k] \in {"verify", "backup"} /\ todo[k] # {}
    /\ IF Same(k, p) /\ files[p] = Base[k][p]
       THEN Visit(k, todo[k] \ {p})
            /\ UNCHANGED <<files, swapped, row, manifest, progress, mutated, bad, owner,
                           daemon, answer, applied, rest>>
       ELSE Abort(k, "conflict")

Verified(k) ==
    /\ progress[k] = "verify" /\ todo[k] = {}
    /\ Goto(k, "backup") /\ Visit(k, All(k))
    /\ UNCHANGED <<files, swapped, row, manifest, mutated, bad, owner, daemon,
                   answer, applied, rest>>

\* The manifest is written as prepared, then as committing.
Prepare(k) ==
    /\ progress[k] = "backup" /\ todo[k] = {}
    /\ manifest' = [manifest EXCEPT ![k] = "prepared"]
    /\ Goto(k, "prepared")
    /\ UNCHANGED <<files, swapped, row, todo, mutated, bad, owner, daemon, answer,
                   applied, rest>>

Committing(k) ==
    /\ progress[k] = "prepared"
    /\ manifest' = [manifest EXCEPT ![k] = "committing"]
    /\ Goto(k, "mutate") /\ Visit(k, All(k))
    /\ UNCHANGED <<files, swapped, row, mutated, bad, owner, daemon, answer,
                   applied, rest>>

\* Rollback starts over all records.
Undo(k) ==
    /\ Goto(k, "restore") /\ Visit(k, All(k))
    /\ UNCHANGED <<files, swapped, row, manifest, mutated, bad, owner, daemon,
                   answer, applied, rest>>

\* The loop over desired, in the order of the sections.  A path that was
\* exchanged ends it, before or after other paths have been replaced.
Mutate(k) ==
    /\ progress[k] = "mutate"
    /\ \E p \in todo[k] :
       IF Same(k, p)
       THEN /\ files' = [files EXCEPT ![p] = Want[k][p]]
            /\ swapped' = swapped \cup {p}
            /\ applied' = [applied EXCEPT ![k] = @ \cup {p}]
            /\ mutated' = [mutated EXCEPT ![k] = TRUE]
            /\ Visit(k, todo[k] \ {p})
            /\ UNCHANGED <<row, manifest, progress, bad, owner, daemon, answer, rest>>
       ELSE IF mutated[k] THEN Undo(k) ELSE Abort(k, "conflict")

InterruptAborts(k) ==
    /\ progress[k] \in {"verify", "backup", "prepared", "mutate"} /\ Abort(k, "stopped")
\* check() raises because the request was cancelled, its deadline has passed
\* or access has changed, before apply is called or in it; or a file or a
\* manifest cannot be written.  A replacement that raises has set mutated
\* already.
Interrupt(k) ==
    \/ /\ progress[k] = "begin" /\ LeaveApply(k, "adapter_error")
       /\ UNCHANGED <<files, swapped, row, manifest, daemon, applied, rest>>
    \/ /\ progress[k] = "preflight" /\ LeaveApply(k, "stopped")
       /\ UNCHANGED <<files, swapped, row, manifest, daemon, applied, rest>>
    \/ /\ progress[k] \in {"verify", "backup", "prepared", "mutate"} /\ ~mutated[k]
       /\ Abort(k, "stopped")
    \/ /\ progress[k] = "mutate" /\ (mutated[k] \/ todo[k] # {})
       /\ Undo(k)

\* All paths are replaced: the manifest says so ...
Seal(k) ==
    /\ progress[k] = "mutate" /\ todo[k] = {}
    /\ manifest' = [manifest EXCEPT ![k] = "committed"]
    /\ Goto(k, "record")
    /\ UNCHANGED <<files, swapped, row, todo, mutated, bad, owner, daemon, answer,
                   applied, rest>>

\* ... then the row is SUCCEEDED ...
Record(k) ==
    /\ progress[k] = "record"
    /\ row' = [row EXCEPT ![k] = "succeeded"]
    /\ Goto(k, "discard")
    /\ UNCHANGED <<files, swapped, manifest, todo, mutated, bad, owner, daemon,
                   answer, applied, rest>>

\* ... unless the database refuses, which nothing catches ...
RecordFails(k) ==
    /\ progress[k] = "record" /\ LeaveApply(k, "internal_error")
    /\ UNCHANGED <<files, swapped, row, manifest, daemon, applied, rest>>

\* ... and the journal is removed.
Discard(k) ==
    /\ progress[k] = "discard"
    /\ manifest' = [manifest EXCEPT ![k] = "none"]
    /\ LeaveApply(k, "applied")
    /\ UNCHANGED <<files, swapped, row, daemon, applied, rest>>

-----------------------------------------------------------------------------
\* Rollback: _restore, from _commit or from a recovery.

RestorableAlways(k, p) == TRUE
\* What is there may be replaced by the backup: it is the patch's own, or gone.
Restorable(k, p) == files[p] \in {Want[k][p], Absent}

\* A path is read and compared.  It has its old text, or it may be put back, or
\* it was changed independently.
Compare(k) ==
    LET p == Last(todo[k]) IN
    /\ progress[k] \in {"restore", "recover"} /\ todo[k] # {} /\ checked # k
    /\ \/ /\ files[p] = Base[k][p]
          /\ Visit(k, todo[k] \ {p}) /\ applied' = [applied EXCEPT ![k] = @ \ {p}]
          /\ UNCHANGED <<bad, checked, raced>>
       \/ /\ files[p] # Base[k][p] /\ Restorable(k, p)
          /\ checked' = k /\ raced' = FALSE
          /\ UNCHANGED <<todo, applied, bad>>
       \/ /\ files[p] # Base[k][p] /\ ~Restorable(k, p)
          /\ Visit(k, todo[k] \ {p}) /\ bad' = [bad EXCEPT ![k] = @ \cup {p}]
          /\ UNCHANGED <<applied, checked, raced>>
    /\ UNCHANGED <<files, swapped, row, manifest, progress, mutated, owner, daemon, answer,
                   edits, crashes, requests>>

\* The file is replaced by its backup, or deleted if there was none, whatever it
\* has become since; one that is not there cannot be deleted.
PutBack(k) ==
    LET p == Last(todo[k]) IN
    /\ progress[k] \in {"restore", "recover"} /\ todo[k] # {} /\ checked = k
    /\ checked' = NoKey /\ raced' = FALSE
    /\ Visit(k, todo[k] \ {p})
    /\ IF Base[k][p] = Absent /\ files[p] = Absent
       THEN /\ bad' = [bad EXCEPT ![k] = @ \cup {p}]
            /\ UNCHANGED <<files, swapped, applied>>
       ELSE /\ files' = [files EXCEPT ![p] = Base[k][p]]
            /\ swapped' = swapped \cup {p}
            /\ applied' = [applied EXCEPT ![k] = @ \ {p}]
            /\ UNCHANGED bad
    /\ UNCHANGED <<row, manifest, progress, mutated, owner, daemon, answer,
                   edits, crashes, requests>>

\* recovery_failed leaves the journal and the RUNNING row; at start it ends the
\* daemon.
GiveUp(k) ==
    /\ progress[k] \in {"restore", "recover"} /\ todo[k] = {} /\ bad[k] # {}
    /\ LeaveApply(k, "recovery_failed")
    /\ daemon' = IF daemon = "recovering" THEN "down" ELSE daemon
    /\ UNCHANGED <<files, swapped, row, manifest, applied, rest>>

\* The manifest says rolled_back, then the journal goes, then the row.
RolledBack(k) ==
    /\ progress[k] = "restore" /\ todo[k] = {} /\ bad[k] = {}
    /\ manifest' = [manifest EXCEPT ![k] = "rolled_back"]
    /\ Goto(k, "clean")
    /\ UNCHANGED <<files, swapped, row, todo, mutated, bad, owner, daemon, answer,
                   applied, rest>>

Clean(k) ==
    /\ progress[k] = "clean"
    /\ manifest' = [manifest EXCEPT ![k] = "none"]
    /\ Goto(k, "forget")
    /\ UNCHANGED <<files, swapped, row, todo, mutated, bad, owner, daemon, answer,
                   applied, rest>>

Forget(k) ==
    /\ progress[k] = "forget"
    /\ row' = [row EXCEPT ![k] = "none"]
    /\ LeaveApply(k, "rolled_back")
    /\ UNCHANGED <<files, swapped, manifest, daemon, applied, rest>>

-----------------------------------------------------------------------------
\* Recovery: reconcile_duplicate for a redelivered request, recover at start.

\* The end of _recover_transaction.
Resolved(k, result) ==
    /\ row' = [row EXCEPT ![k] = result]
    /\ manifest' = [manifest EXCEPT ![k] = "none"]

RecoverUnlessRolledBack(k) ==
    \/ /\ manifest[k] = "committed" /\ Resolved(k, "succeeded")
       /\ UNCHANGED <<progress, todo>>
    \/ /\ manifest[k] \in {"prepared", "committing"}
       /\ Goto(k, "recover") /\ Visit(k, All(k))
       /\ UNCHANGED <<row, manifest>>
\* _recover_transaction: a committed journal completes, any other rolls back.
RecoverTransaction(k) ==
    \/ /\ manifest[k] = "committed" /\ Resolved(k, "succeeded")
       /\ UNCHANGED <<progress, todo>>
    \/ /\ manifest[k] = "rolled_back" /\ Resolved(k, "none")
       /\ UNCHANGED <<progress, todo>>
    \/ /\ manifest[k] \in {"prepared", "committing"}
       /\ Goto(k, "recover") /\ Visit(k, All(k))
       /\ UNCHANGED <<row, manifest>>

\* reconcile_duplicate: a row that is not RUNNING is left to apply.
Reconcile(k) ==
    /\ progress[k] = "reconcile"
    /\ \/ /\ row[k] # "running" /\ Goto(k, "begin")
          /\ UNCHANGED <<row, manifest, todo, mutated, bad, owner, answer>>
       \/ /\ row[k] = "running" /\ owner # NoKey /\ LeaveApply(k, "busy")
          /\ UNCHANGED <<row, manifest>>
       \/ /\ row[k] = "running" /\ owner = NoKey
          /\ \/ /\ manifest[k] = "none"       \* no file can have been replaced
                /\ row' = [row EXCEPT ![k] = "none"]
                /\ UNCHANGED <<manifest, progress, todo, owner>>
             \/ RecoverTransaction(k) /\ owner' = IF progress'[k] = "recover" THEN k ELSE owner
          /\ UNCHANGED <<mutated, bad, answer>>
    /\ UNCHANGED <<files, swapped, daemon, applied, rest>>

\* recover: the journals are taken one after the other before the daemon is up.
Recover ==
    /\ daemon = "recovering" /\ \A k \in Keys : progress[k] = "idle"
    /\ \E k \in Keys : RecoverTransaction(k)
    /\ UNCHANGED <<files, swapped, mutated, bad, owner, daemon, answer, applied, rest>>

\* A rollback of a recovery has succeeded; a redelivery goes on with apply.
Recovered(k) ==
    /\ progress[k] = "recover" /\ todo[k] = {} /\ bad[k] = {}
    /\ Resolved(k, "none")
    /\ Goto(k, IF daemon = "up" THEN "begin" ELSE "idle")
    /\ owner' = IF owner = k THEN NoKey ELSE owner
    /\ UNCHANGED <<files, swapped, todo, mutated, bad, daemon, answer, applied, rest>>

Launch ==
    /\ daemon = "down" /\ daemon' = "recovering"
    /\ UNCHANGED <<files, swapped, row, manifest, progress, todo, mutated, bad, owner,
                   answer, applied, rest>>

Serve ==
    /\ daemon = "recovering"
    /\ \A k \in Keys : progress[k] = "idle" /\ manifest[k] = "none"
    /\ daemon' = "up"
    /\ UNCHANGED <<files, swapped, row, manifest, progress, todo, mutated, bad, owner,
                   answer, applied, rest>>

-----------------------------------------------------------------------------
\* The environment.

Crash ==
    /\ daemon # "down" /\ crashes < MaxCrashes
    /\ daemon' = "down" /\ crashes' = crashes + 1 /\ owner' = NoKey
    /\ progress' = [k \in Keys |-> "idle"] /\ todo' = [k \in Keys |-> {}]
    /\ mutated' = [k \in Keys |-> FALSE] /\ bad' = [k \in Keys |-> {}]
    /\ checked' = NoKey /\ raced' = FALSE
    /\ UNCHANGED <<files, swapped, row, manifest, answer, applied, edits, requests>>

\* Another program writes a file in place, exchanges, creates or deletes it.
Edit(p) ==
    /\ edits < MaxEdits /\ edits' = edits + 1
    /\ raced' = (raced \/ (checked # NoKey /\ p = Last(todo[checked])))
    /\ \E text \in (Edits \cup {Absent}) \ {files[p]} :
           /\ files' = [files EXCEPT ![p] = text]
           /\ swapped' \in IF Absent \in {text, files[p]} THEN {swapped \cup {p}}
                           ELSE {swapped, swapped \cup {p}}
    /\ UNCHANGED <<row, manifest, progress, todo, mutated, bad, owner, daemon, answer,
                   applied, checked, crashes, requests>>

ApplyNext(k) ==
    \/ Begin(k) \/ Acquire(k) \/ Preflight(k) \/ Announce(k) \/ Inspect(k)
    \/ Verified(k) \/ Prepare(k) \/ Committing(k) \/ Mutate(k) \/ Seal(k)
    \/ Record(k) \/ Discard(k)
RestoreNext(k) ==
    \/ Compare(k) \/ PutBack(k) \/ GiveUp(k) \/ RolledBack(k) \/ Clean(k) \/ Forget(k)
    \/ Reconcile(k) \/ Recovered(k)
PatchNext ==
    \/ \E k \in Keys : Request(k) \/ ApplyNext(k) \/ Interrupt(k) \/ RecordFails(k)
                       \/ RestoreNext(k)
    \/ Recover \/ Launch \/ Serve \/ Crash
    \/ \E p \in Paths : Edit(p)

PatchSpec == PatchInit /\ [][PatchNext]_patchVars

\* The worker thread of a request runs to its end and the daemon is started
\* again after it has died.
PatchFairness ==
    /\ \A k \in Keys : WF_patchVars(ApplyNext(k)) /\ WF_patchVars(RestoreNext(k))
    /\ WF_patchVars(Recover \/ Launch \/ Serve)

-----------------------------------------------------------------------------
\* Properties.

Steps == {"idle", "begin", "gate", "preflight", "verify", "backup", "prepared",
          "mutate", "record", "discard", "restore", "clean", "forget",
          "reconcile", "recover"}
Answers == {"none", "applied", "outcome_unknown", "busy", "conflict", "preview",
            "stopped", "internal_error", "recovery_failed", "rolled_back", "adapter_error"}

\* Every variable has its type.
PatchTypeOK ==
    /\ DOMAIN files = Paths /\ swapped \subseteq Paths
    /\ row \in [Keys -> {"none", "running", "succeeded"}]
    /\ manifest \in [Keys -> {"none", "prepared", "committing", "committed", "rolled_back"}]
    /\ progress \in [Keys -> Steps] /\ todo \in [Keys -> SUBSET Paths]
    /\ mutated \in [Keys -> BOOLEAN] /\ bad \in [Keys -> SUBSET Paths]
    /\ owner \in Keys \cup {NoKey} /\ daemon \in {"down", "recovering", "up"}
    /\ answer \in [Keys -> Answers] /\ applied \in [Keys -> SUBSET Paths]
    /\ checked \in Keys \cup {NoKey} /\ raced \in BOOLEAN
    /\ edits \in Nat /\ crashes \in Nat /\ requests \in [Keys -> Nat]

Resting(k) == progress[k] = "idle" /\ manifest[k] = "none"

\* All or nothing: when no request and no recovery works on a key and no
\* journal of it is left, the patch has been applied to all of its paths or,
\* after failures, stops, rollbacks and crashes at any point, to none; and a
\* row that says SUCCEEDED says the former.
AllOrNothing ==
    \A k \in Keys : Resting(k) =>
        applied[k] = IF row[k] = "succeeded" THEN All(k) ELSE {}

\* A request that is told of a failure of the transaction (a conflict, a stop, a
\* rollback) has changed no file, and one that is told "applied" has changed all of
\* them, also when it is a redelivery.  An error of the adapter says nothing: it may
\* come after the patch was applied (protocol_adapter.py, the check behind the worker
\* and _drain_file_worker; websocket_client.py, the budget after execution), and
\* the client learns the truth from a redelivery only, through the row.
AnswersAreTrue ==
    \A k \in Keys :
        /\ answer[k] \in {"conflict", "stopped", "rolled_back", "preview"} => applied[k] = {}
        /\ answer[k] = "applied" => applied[k] = All(k)

\* Two requests never replace files of the root at the same time, and no
\* request runs before the journals of an earlier life are resolved.
OneWriter ==
    /\ \A j, k \in Keys : j # k =>
           ~(progress[j] \in {"mutate", "restore", "recover"} /\ progress[k] \in {"mutate", "restore", "recover"})
    /\ daemon = "recovering" => \A k \in Keys : progress[k] \in {"idle", "recover"}

\* A rollback keeps newer work that was there when it compared the file: text of
\* another program is replaced only if it was written in the short time between the
\* comparison of the file and its replacement (patching.py, _restore).
RollbackKeepsWork ==
    [][\A k \in Keys, p \in Paths :
           progress[k] \in {"restore", "recover"} /\ files'[p] # files[p] /\ edits' = edits
               /\ p \in All(k)
           => files[p] \in {Want[k][p], Absent} \/ (raced /\ checked = k /\ p = Last(todo[k]))]_patchVars

\* What docs/adr/0022 says of rollback, "If the file changed independently, it preserves
\* that file [...] rather than overwriting newer work", without a word of that window.
NewerWorkPreserved ==
    [][\A k \in Keys, p \in Paths :
           progress[k] \in {"restore", "recover"} /\ files'[p] # files[p] /\ edits' = edits
               /\ p \in All(k)
           => files[p] \in {Want[k][p], Absent}]_patchVars

\* A journal meets a file that was changed independently.
Unresolvable ==
    \E k \in Keys : /\ manifest[k] \in {"prepared", "committing"}
                    /\ \E p \in All(k) : files[p] # Base[k][p] /\ ~Restorable(k, p)

\* After a death the daemon serves again, every journal resolved, unless a
\* journal meets a file that was changed independently (patching.py, recover).
ServesAgain == daemon = "down" ~> daemon = "up" \/ Unresolvable

\* A patch, its row, its journal and its answers agree after every step, failure,
\* stop and death (patching.py).
PatchSafe == PatchTypeOK /\ AllOrNothing /\ AnswersAreTrue /\ OneWriter
=============================================================================
