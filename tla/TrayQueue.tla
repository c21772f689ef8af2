----------------------------- MODULE TrayQueue -----------------------------
(***************************************************************************)
(* The queue through which an operation of the agent has the tray open a   *)
(* browser or capture a screen: DesktopActionQueue (desktop_actions.py)    *)
(* and ScreenCaptureQueue (screen_capture.py).  An operation waits on the  *)
(* event loop with a deadline; the IPC thread claims its entry for the     *)
(* tray and reports what the tray did.  The claim runs under the lock of   *)
(* the queue, but the loop reads `claimed' without it.  The results are    *)
(* those of a browser; a screen capture does not tell its failures apart.  *)
(***************************************************************************)
EXTENDS Naturals

CONSTANTS Ops       \* operations that ask the tray for something

VARIABLES
    pc,             \* progress of open_browser
    future,         \* the future it waits for
    expired,        \* operations whose timeout fired
    queue,          \* self._pending
    claimed,        \* entries with `claimed'
    late,           \* operations whose deadline is over
    stale,          \* operations whose consent is no longer current
    claim,          \* the claim that the IPC thread is in, and its step
    handed,         \* the outcome on its way to the loop
    tray,           \* what the tray does with an operation
    acts,           \* history: how often the tray acted
    result          \* what the operation reports

vars == <<pc, future, expired, queue, claimed, late, stale, claim, handed, tray, acts,
          result>>

NoClaim == [step |-> "none"]
Stages == {"new", "waiting", "leaving", "ended"}
Futures == {"none", "open", "done", "failed", "rejected", "cancelled"}
Results == {"none", "opened", "could_not_open", "expired", "outcome_unknown",
            "not_accepted", "cancelled"}

Init ==
    /\ pc = [o \in Ops |-> "new"] /\ future = [o \in Ops |-> "none"]
    /\ expired = {} /\ queue = {} /\ claimed = {} /\ late = {} /\ stale = {}
    /\ claim = NoClaim /\ handed = [o \in Ops |-> "none"]
    /\ tray = [o \in Ops |-> "none"] /\ acts = [o \in Ops |-> 0]
    /\ result = [o \in Ops |-> "none"]

\* ensure_current: the consent is current and the deadline is not over.
CurrentIgnoringDeadline(o) == o \notin stale
Current(o) == o \notin stale /\ o \notin late

-----------------------------------------------------------------------------
\* The operation, on the event loop.

Enqueue(o) ==
    /\ pc[o] = "new" /\ Current(o) /\ claim = NoClaim
    /\ pc' = [pc EXCEPT ![o] = "waiting"]
    /\ future' = [future EXCEPT ![o] = "open"]
    /\ queue' = queue \cup {o}
    /\ UNCHANGED <<expired, claimed, late, stale, claim, handed, tray, acts, result>>

\* The timeout fires, not before the deadline, and cancels the future; it wins
\* against a result that the operation has not seen yet.
FireUnclaimed(o) ==
    /\ pc[o] = "waiting" /\ o \in late \ claimed /\ o \notin expired
    /\ expired' = expired \cup {o}
    /\ future' = IF future[o] = "open" THEN [future EXCEPT ![o] = "cancelled"] ELSE future
    /\ UNCHANGED <<pc, queue, claimed, late, stale, claim, handed, tray, acts, result>>
Fire(o) ==
    /\ pc[o] = "waiting" /\ o \in late /\ o \notin expired
    /\ expired' = expired \cup {o}
    /\ future' = IF future[o] = "open" THEN [future EXCEPT ![o] = "cancelled"] ELSE future
    /\ UNCHANGED <<pc, queue, claimed, late, stale, claim, handed, tray, acts, result>>

\* The budget of the operation ends.
Abandon(o) ==
    /\ pc[o] = "waiting"
    /\ pc' = [pc EXCEPT ![o] = "leaving"]
    /\ future' = IF future[o] = "open" THEN [future EXCEPT ![o] = "cancelled"] ELSE future
    /\ result' = [result EXCEPT ![o] = "cancelled"]
    /\ UNCHANGED <<expired, queue, claimed, late, stale, claim, handed, tray, acts>>

Outcome(o) ==
    CASE o \in expired -> IF o \in claimed THEN "outcome_unknown" ELSE "not_accepted"
      [] o \notin expired /\ future[o] = "done" -> "opened"
      [] o \notin expired /\ future[o] = "failed" -> "could_not_open"
      [] o \notin expired /\ future[o] = "rejected" -> "expired"

Resume(o) ==
    /\ pc[o] = "waiting" /\ future[o] # "open"
    /\ pc' = [pc EXCEPT ![o] = "leaving"]
    /\ result' = [result EXCEPT ![o] = Outcome(o)]
    /\ UNCHANGED <<future, expired, queue, claimed, late, stale, claim, handed, tray, acts>>

\* The finally clause takes the lock.
Leave(o) ==
    /\ pc[o] = "leaving" /\ claim = NoClaim
    /\ pc' = [pc EXCEPT ![o] = "ended"] /\ queue' = queue \ {o}
    /\ UNCHANGED <<future, expired, claimed, late, stale, claim, handed, tray, acts, result>>

\* _resolve and _reject.
Resolve(o) ==
    /\ handed[o] # "none"
    /\ future' = IF future[o] = "open" THEN [future EXCEPT ![o] = handed[o]] ELSE future
    /\ handed' = [handed EXCEPT ![o] = "none"]
    /\ UNCHANGED <<pc, expired, queue, claimed, late, stale, claim, tray, acts, result>>

-----------------------------------------------------------------------------
\* The IPC thread.  next_request looks at an entry, marks it and checks it.

Claimable(o) == o \in queue /\ o \notin claimed /\ future[o] = "open"

Look(o) ==
    /\ claim = NoClaim /\ Claimable(o)
    /\ claim' = [step |-> "mark", op |-> o]
    /\ UNCHANGED <<pc, future, expired, queue, claimed, late, stale, handed, tray, acts,
                   result>>

Mark(o) ==
    /\ claim = [step |-> "mark", op |-> o]
    /\ claimed' = claimed \cup {o}
    /\ claim' = [step |-> "check", op |-> o]
    /\ UNCHANGED <<pc, future, expired, queue, late, stale, handed, tray, acts, result>>

\* The entry goes to the tray, or the answer to the tray is lost.
Check(o) ==
    /\ claim = [step |-> "check", op |-> o] /\ claim' = NoClaim
    /\ IF Current(o)
       THEN /\ \/ tray' = [tray EXCEPT ![o] = "received"]
               \/ UNCHANGED tray
            /\ UNCHANGED handed
       ELSE handed' = [handed EXCEPT ![o] = "rejected"] /\ UNCHANGED tray
    /\ UNCHANGED <<pc, future, expired, queue, claimed, late, stale, acts, result>>

\* The tray (poll_desktop_action, poll_capture; desktop_ui.py) acts, refuses or fails,
\* or dies with what it has received.
TrayActs(o) ==
    /\ tray[o] = "received"
    /\ \/ tray' = [tray EXCEPT ![o] = "done"] /\ acts' = [acts EXCEPT ![o] = @ + 1]
       \/ tray' = [tray EXCEPT ![o] = "failed"] /\ UNCHANGED acts
       \/ tray' = [tray EXCEPT ![o] = "none"] /\ UNCHANGED acts
    /\ UNCHANGED <<pc, future, expired, queue, claimed, late, stale, claim, handed, result>>

\* respond
Report(o) ==
    /\ tray[o] \in {"done", "failed"} /\ claim = NoClaim
    /\ o \in queue /\ o \in claimed /\ future[o] = "open"
    /\ queue' = queue \ {o}
    /\ handed' = [handed EXCEPT ![o] = tray[o]]
    /\ UNCHANGED <<pc, future, expired, claimed, late, stale, claim, tray, acts, result>>

-----------------------------------------------------------------------------
\* Time and security events.

Deadline(o) ==
    /\ o \notin late /\ late' = late \cup {o}
    /\ UNCHANGED <<pc, future, expired, queue, claimed, stale, claim, handed, tray, acts,
                   result>>

Invalidate ==
    /\ stale' = {o \in Ops : pc[o] # "new"} /\ stale' # stale
    /\ UNCHANGED <<pc, future, expired, queue, claimed, late, claim, handed, tray, acts,
                   result>>

OpNext(o) ==
    \/ Enqueue(o) \/ Fire(o) \/ Abandon(o) \/ Resume(o) \/ Leave(o) \/ Resolve(o)
    \/ Look(o) \/ Mark(o) \/ Check(o) \/ TrayActs(o) \/ Report(o) \/ Deadline(o)

Next == Invalidate \/ \E o \in Ops : OpNext(o)

Spec == Init /\ [][Next]_vars

\* Deadlines pass, the loop runs what is ready, and the IPC thread ends a claim.
Fairness ==
    \A o \in Ops : /\ WF_vars(Deadline(o)) /\ WF_vars(Fire(o)) /\ WF_vars(Resume(o))
                   /\ WF_vars(Leave(o)) /\ WF_vars(Mark(o)) /\ WF_vars(Check(o))

FairSpec == Spec /\ Fairness

-----------------------------------------------------------------------------
\* Properties.

\* Every variable has its type.
TypeOK ==
    /\ pc \in [Ops -> Stages] /\ future \in [Ops -> Futures]
    /\ expired \subseteq Ops /\ queue \subseteq Ops /\ claimed \subseteq Ops
    /\ late \subseteq Ops /\ stale \subseteq Ops
    /\ claim \in {NoClaim} \cup [step: {"mark", "check"}, op: Ops]
    /\ handed \in [Ops -> {"none", "done", "failed", "rejected"}]
    /\ tray \in [Ops -> {"none", "received", "done", "failed"}]
    /\ acts \in [Ops -> Nat] /\ result \in [Ops -> Results]

\* The tray acts at most once on an operation, also when the answer to its
\* claim or its report is lost (next_request: "Claim once; a lost tray response
\* must never create a second browser tab").
ActsOnce == \A o \in Ops : acts[o] <= 1

\* An operation that reports that the tray did not accept it was not and will
\* not be handed to the tray, although `claimed' is read without the lock: a
\* claim that it can miss comes after the deadline and fails its check.
NotAcceptedMeansNever ==
    \A o \in Ops : result[o] = "not_accepted" => tray[o] = "none" /\ acts[o] = 0

\* An operation that reports that a browser was opened had one opened.
OpenedMeansActed == \A o \in Ops : result[o] = "opened" => acts[o] = 1

\* An operation that waits for the tray ends.
EveryoneLeaves == \A o \in Ops : pc[o] = "waiting" ~> pc[o] = "ended"

\* What an operation reports about the tray is true, whatever is lost or late
\* between them (desktop_actions.py, screen_capture.py).
TrayTruthful == ActsOnce /\ NotAcceptedMeansNever /\ OpenedMeansActed
=============================================================================
