----------------------------- MODULE Admission ------------------------------
(***************************************************************************)
(* Tool calls that arrive at the relay together (dispatch.py,              *)
(* dispatch_tool): each is routed, checked against the device it saw, and  *)
(* admitted under the lock of the Device row, where the idempotency key is *)
(* looked up a second time and the pending operations are counted.         *)
(* A call that finds the operation of an earlier one is answered from it.  *)
(*   calls    per call: where it is, the row it holds and its answer       *)
(*   ops      the Operation rows, in the order they were created           *)
(*   online   the Device row says online (and was seen lately)             *)
(***************************************************************************)
EXTENDS Naturals, Sequences, FiniteSets

CONSTANTS
    Calls,        \* calls
    Key,          \* [Calls -> Nat]: idempotency key, 0 for none
    Action,       \* [Calls -> Nat]: the action digest
    QueueLimit    \* settings.DEVICE_QUEUE_LIMIT

ASSUME AdmissionConstants ==
    /\ IsFiniteSet(Calls)
    /\ Key \in [Calls -> Nat] /\ Action \in [Calls -> Nat]
    /\ QueueLimit \in Nat \ {0}

VARIABLES calls, ops, online

admissionVars == <<calls, ops, online>>

Pending == {"accepted", "dispatched", "received", "running"}
Ended == {"succeeded", "failed", "outcome_unknown"}   \* RelayOperation has the others

AdmissionInit ==
    /\ calls = [r \in Calls |-> [at |-> "start", op |-> 0, answer |-> "none"]]
    /\ ops = <<>>
    /\ online = TRUE

Goes(r, at) == calls' = [calls EXCEPT ![r].at = at]
Answers(r, op, answer) == calls' = [calls EXCEPT ![r] = [at |-> "answered", op |-> op, answer |-> answer]]

\* The Device row is read once; its status is not looked at again.
LookupRoute(r) ==
    /\ calls[r].at = "start"
    /\ IF online THEN Goes(r, "routed") ELSE Answers(r, 0, "device_offline")
    /\ UNCHANGED <<ops, online>>

OfKey(r) == {i \in DOMAIN ops : Key[r] # 0 /\ ops[i].key = Key[r]}

\* A repeated call: the result if there is one, the way the operation ended, or
\* that it still runs.
Repeated(op) ==
    IF op.result THEN "result"
    ELSE IF op.status \in Ended THEN IF op.status = "outcome_unknown" THEN op.status ELSE op.error
    ELSE "operation_in_progress"

Conflict(r, i) == ops[i].action # Action[r]

FromEarlier(r, i) ==
    IF Conflict(r, i) THEN Answers(r, 0, "idempotency_conflict") ELSE Answers(r, i, Repeated(ops[i]))

FirstLook(r) ==
    /\ calls[r].at = "routed"
    /\ IF OfKey(r) # {} THEN \E i \in OfKey(r) : FromEarlier(r, i) ELSE Goes(r, "admitting")
    /\ UNCHANGED <<ops, online>>

NewOp(r) == [key |-> Key[r], action |-> Action[r], status |-> "accepted", result |-> FALSE, error |-> "none"]

PendingCount == Cardinality({i \in DOMAIN ops : ops[i].status \in Pending})

SecondLook(r, i) == FromEarlier(r, i)

\* Admission relies on the first look alone.
AdmitOnFirstLook(r) ==
    /\ calls[r].at = "admitting"
    /\ IF PendingCount >= QueueLimit THEN Answers(r, 0, "device_queue_full") /\ UNCHANGED ops
       ELSE /\ ops' = Append(ops, NewOp(r))
            /\ calls' = [calls EXCEPT ![r].at = "created", ![r].op = Len(ops) + 1]
    /\ UNCHANGED online

\* One transaction under the lock of the Device row.
Admit(r) ==
    /\ calls[r].at = "admitting"
    /\ IF OfKey(r) # {} THEN (\E i \in OfKey(r) : SecondLook(r, i)) /\ UNCHANGED ops
       ELSE IF PendingCount >= QueueLimit THEN Answers(r, 0, "device_queue_full") /\ UNCHANGED ops
       ELSE /\ ops' = Append(ops, NewOp(r))
            /\ calls' = [calls EXCEPT ![r].at = "created", ![r].op = Len(ops) + 1]
    /\ UNCHANGED online

MarkDispatched(r) ==
    /\ calls[r].at = "created"
    /\ Goes(r, "waiting")
    /\ ops' = [ops EXCEPT ![calls[r].op].status = IF @ = "accepted" THEN "dispatched" ELSE @]
    /\ UNCHANGED online

\* The device reports progress or a result for an operation it was sent.
DeviceReports(i) ==
    /\ ops[i].status \in Pending \ {"accepted"}
    /\ \/ /\ ops[i].status # "running"
          /\ ops' = [ops EXCEPT ![i].status = IF @ = "dispatched" THEN "received" ELSE "running"]
       \/ ops' = [ops EXCEPT ![i] = [@ EXCEPT !.status = "succeeded", !.result = TRUE]]
    /\ UNCHANGED <<calls, online>>

\* The wait ends with the device's result, or with a failure that ends the row
\* unless the device's result came first.
EndWait(r) ==
    /\ calls[r].at = "waiting"
    /\ LET i == calls[r].op
       IN \/ /\ ops[i].result /\ Answers(r, i, "result") /\ UNCHANGED ops
          \/ \E code \in {"relay_unavailable", "outcome_unknown"} :
                /\ Answers(r, i, code)
                /\ ops' = IF ops[i].status \in Pending
                          THEN [ops EXCEPT ![i] = [@ EXCEPT !.error = code,
                                   !.status = IF code = "outcome_unknown" THEN code ELSE "failed"]]
                          ELSE ops
    /\ UNCHANGED online

\* The client goes away, or the worker dies: the row stays as it is.
Abandoned(r) ==
    /\ calls[r].at \in {"routed", "admitting", "created", "waiting"}
    /\ Goes(r, "abandoned")
    /\ UNCHANGED <<ops, online>>

DeviceStatus ==
    /\ online' = ~online
    /\ UNCHANGED <<calls, ops>>

AdmissionNext ==
    \/ \E r \in Calls : \/ LookupRoute(r) \/ FirstLook(r) \/ Admit(r) \/ MarkDispatched(r)
                        \/ EndWait(r) \/ Abandoned(r)
    \/ \E i \in DOMAIN ops : DeviceReports(i)
    \/ DeviceStatus

AdmissionSpec == AdmissionInit /\ [][AdmissionNext]_admissionVars

-----------------------------------------------------------------------------
\* What a call is answered and a row has as its error; a call; a row of the table.
Codes == {"none", "result", "relay_unavailable", "outcome_unknown", "operation_in_progress",
          "device_offline", "device_queue_full", "idempotency_conflict"}
CallRecord == [at : {"start", "routed", "admitting", "created", "waiting", "answered", "abandoned"},
               op : Nat, answer : Codes]
OperationRow == [key : Nat, action : Nat, status : Pending \cup Ended, result : BOOLEAN, error : Codes]

\* Every variable has its type, and a call that has a row has one that exists.
AdmissionTypeOK ==
    /\ calls \in [Calls -> CallRecord] /\ ops \in Seq(OperationRow) /\ online \in BOOLEAN
    /\ \A r \in Calls : /\ calls[r].op # 0 => calls[r].op \in DOMAIN ops
                        /\ calls[r].at \in {"created", "waiting"} => calls[r].op # 0

\* However many calls pass the checks together, the device never has more pending
\* operations than its queue holds (dispatch.py, _create_operation: "Parallel relay
\* database lanes must not turn the device queue cap into a check-then-create race").
PendingBounded == Cardinality({i \in DOMAIN ops : ops[i].status \in Pending}) <= QueueLimit

\* An idempotency key names one operation, whoever was first (_create_operation).
KeyOnce == \A i, j \in DOMAIN ops : ops[i].key = ops[j].key /\ ops[i].key # 0 => i = j

\* No call is answered from an operation that does something else than it asked
\* for, even when the two were admitted in the same moment (_create_operation).
AnsweredOwnAction == \A r \in Calls : calls[r].op # 0 => ops[calls[r].op].action = Action[r]

\* Calls that are admitted together (dispatch.py, dispatch_tool) respect the queue
\* limit, share one operation per idempotency key, and no call is given the
\* outcome of another action.
AdmissionSafe == PendingBounded /\ KeyOnce /\ AnsweredOwnAction
=============================================================================
