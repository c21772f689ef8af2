--------------------------- MODULE RelayOperation ---------------------------
(***************************************************************************)
(* The relay's durable Operation row (relay/codito_relay/core/models.py)   *)
(* and every transaction that rewrites it.  A row is written by the        *)
(* request that waits for the answer (core/dispatch.py) and by the device  *)
(* connection (core/websocket.py); each operator below is one of those     *)
(* transactions as a function from the locked row to the row it saves.     *)
(*                                                                         *)
(* Results are abstracted to the cases the relay tells apart:              *)
(*   "ok", "image"      a tool result; "image" carries screenshot bytes    *)
(*   "no_bytes"         what durable_tool_result keeps of an "image"       *)
(*   "invalid"          a device result that fails the tool's contract     *)
(*   "discarded",       what the relay puts in place of an "invalid" one   *)
(*   "unsure_result"                                                       *)
(*   "error", "denied"  the tool failed, or the user refused it            *)
(*   "late", "unknown"  the agent's budget ran out (before / after the     *)
(*                      start of a native action)                          *)
(*   "uncertain"        the agent met a redelivered native action          *)
(*   "queue_full",      the agent refused a delivery without journaling it *)
(*   "elapsed"                                                             *)
(*   "expired",         failures the relay itself derives while preparing  *)
(*   "revoked",         a delivery                                         *)
(*   "unsure"                                                              *)
(***************************************************************************)
EXTENDS Integers

CONSTANTS
    Ops,       \* operation numbers, in the order of their rows' created_at
    Unsafe     \* the operations whose execution must not be repeated

ASSUME OpsAssumption == Ops \subseteq Nat /\ Unsafe \subseteq Ops

Null == "null"

\* The result payloads an agent can put into an operation_result envelope.
DevicePayloads ==
    {"ok", "image", "no_bytes", "invalid", "error", "denied", "late",
     "unknown", "uncertain", "queue_full", "elapsed"}

\* The failures that the relay derives itself, without an answer of the device.
RelayPayloads == {"expired", "revoked", "unsure"}

Payloads == DevicePayloads \cup RelayPayloads \cup {"discarded", "unsure_result"}

\* Operation.Status; CANCELLED is declared and never assigned.  "absent" is
\* an operation whose row does not exist yet.
Nonterminal == {"accepted", "dispatched", "received", "running"}
TerminalStatuses == {"succeeded", "failed", "expired", "outcome_unknown"}
Statuses == {"absent"} \cup Nonterminal \cup TerminalStatuses

ErrorCodes ==
    {"", "outcome_unknown", "internal_error", "device_error", "queue_full",
     "deadline_exceeded", "link_revoked", "operation_timeout", "protocol_error"}

\* error.code of a payload, "" for a tool result.  "error" and "denied" stand
\* for every code the relay treats alike.
ErrorCode(p) ==
    IF p \in {"ok", "image", "invalid"} THEN ""
    ELSE IF p \in {"no_bytes", "unknown", "uncertain", "unsure", "unsure_result"}
         THEN "outcome_unknown"
    ELSE IF p \in {"late", "elapsed", "expired"} THEN "deadline_exceeded"
    ELSE IF p = "queue_full" THEN "queue_full"
    ELSE IF p = "revoked" THEN "link_revoked"
    ELSE IF p = "discarded" THEN "internal_error" ELSE "device_error"

\* durable_tool_result: screenshot bytes never reach a database.
Durable(p) == IF p = "image" THEN "no_bytes" ELSE p

\* _normalize_operation_terminal: an invalid result is replaced, before it is
\* stored or published, by a failure that depends only on the operation.
Normalize(o, p) ==
    IF p # "invalid" THEN p
    ELSE IF o \in Unsafe THEN "unsure_result" ELSE "discarded"

Rows ==
    [status: Statuses, result: Payloads \cup {Null}, error: ErrorCodes,
     epoch: Nat, seq: Nat, seqEpoch: Nat, attempted: BOOLEAN]

AbsentRow ==
    [status |-> "absent", result |-> Null, error |-> "", epoch |-> 0,
     seq |-> 0, seqEpoch |-> 0, attempted |-> FALSE]

Terminal(row) == row.status \in TerminalStatuses

-----------------------------------------------------------------------------
\* Transactions of the waiting request (dispatch.py).

\* _create_operation: the insert, with the connection epoch of the device row
\* that _lookup_route read before the transaction began.
CreateOperation(epoch) ==
    [AbsentRow EXCEPT !.status = "accepted", !.epoch = epoch]

\* _mark_dispatched: an update guarded by the status.
MarkDispatched(row) ==
    IF row.status = "accepted" THEN [row EXCEPT !.status = "dispatched"] ELSE row

\* _finish: only a row that is still open takes the waiter's result.
FinishAlways(row, p) ==
    [row EXCEPT !.status = IF ErrorCode(p) = "" THEN "succeeded" ELSE "failed",
                !.result = Durable(p)]
Finish(row, p) ==
    IF row.status \in Nonterminal
    THEN [row EXCEPT !.status = IF ErrorCode(p) = "" THEN "succeeded" ELSE "failed",
                     !.result = Durable(p)]
    ELSE row

\* The code under which dispatch_tool reports a failure of the transport: an
\* action that may have run is reported as such.
DeliveryFailure(o, code) == IF o \in Unsafe THEN "outcome_unknown" ELSE code

\* _mark_delivery_failure: closes an open row and leaves its result empty.
MarkDeliveryFailureAlways(row, code) ==
    [row EXCEPT !.status = IF code = "outcome_unknown"
                           THEN "outcome_unknown" ELSE "failed",
                !.error = code]
MarkDeliveryFailure(row, code) ==
    IF row.status \in Nonterminal
    THEN [row EXCEPT !.status = IF code = "outcome_unknown"
                                THEN "outcome_unknown" ELSE "failed",
                     !.error = code]
    ELSE row

-----------------------------------------------------------------------------
\* Transactions of the device connection (websocket.py).

\* What an agent sends about an operation.
Messages ==
    [kind: {"received", "started"}, op: Ops, payload: {Null}, epoch: Nat, seq: Nat]
    \cup
    [kind: {"result"}, op: Ops, payload: DevicePayloads, epoch: Nat, seq: Nat]

\* Errors under which a row without a result may still be settled by the
\* device's journaled terminal ("operation_timeout" stands for
\* "relay_unavailable"; no row is ever closed with "device_offline").
ReconcilableErrors == {"operation_timeout", "outcome_unknown"}

ResultStatus(o, p) ==
    IF o \in Unsafe /\ ErrorCode(p) = "outcome_unknown" THEN "outcome_unknown"
    ELSE IF ErrorCode(p) # "" THEN "failed" ELSE "succeeded"

StatusRank ==
    [accepted |-> 0, dispatched |-> 1, received |-> 2, running |-> 3]

\* A lifecycle message moves an open row forward, never back.
Advance(old, new) == IF StatusRank[new] >= StatusRank[old] THEN new ELSE old

StaleSequence(row, epoch, m) == row.seqEpoch = epoch /\ m.seq <= row.seq

\* The result in m is the one that is already stored.
SameResult(row, m) ==
    m.kind = "result" /\ row.result = Durable(Normalize(m.op, m.payload))

Reconcilable(row) == row.result = Null /\ row.error \in ReconcilableErrors

\* The exceptions of _record_device_message that close the connection: no such
\* operation, a stale sequence that is not an exact redelivery, or a terminal
\* result other than the stored one.
RejectsMessage(row, epoch, m) ==
    \/ row.status = "absent"
    \/ StaleSequence(row, epoch, m) /\ ~(Terminal(row) /\ SameResult(row, m))
    \/ /\ ~StaleSequence(row, epoch, m)
       /\ Terminal(row) /\ m.kind = "result"
       /\ ~SameResult(row, m) /\ ~Reconcilable(row)

\* The row _record_device_message saves for a message it does not reject.
RecordAsSent(row, epoch, m) ==
    IF m.kind = "result" /\ row.result = Null
    THEN [row EXCEPT !.epoch = epoch, !.status = ResultStatus(m.op, m.payload),
                     !.result = m.payload, !.error = ErrorCode(m.payload)]
    ELSE row
RecordDeviceMessage(row, epoch, m) ==
    LET p == Normalize(m.op, m.payload)
        marked == [row EXCEPT !.epoch = epoch, !.seq = m.seq, !.seqEpoch = epoch]
    IN  IF \/ StaleSequence(row, epoch, m)
           \/ Terminal(row) /\ (m.kind # "result" \/ SameResult(row, m))
        THEN row
        ELSE IF m.kind = "result"
        THEN [marked EXCEPT !.status = ResultStatus(m.op, p),
                            !.result = Durable(p), !.error = ErrorCode(p)]
        ELSE [marked EXCEPT !.status =
                 Advance(@, IF m.kind = "started" THEN "running" ELSE "received")]

\* The verdict of _prepare_operation_dispatch on an open row: Null to deliver
\* it, otherwise the failure the relay derives.
VerdictIgnoresAttempt(o, row, elapsed, revoked) ==
    IF elapsed THEN "expired" ELSE IF revoked THEN "revoked" ELSE Null
DispatchVerdict(o, row, elapsed, revoked) ==
    IF elapsed THEN "expired"
    ELSE IF revoked THEN "revoked"
    ELSE IF row.attempted /\ o \in Unsafe THEN "unsure" ELSE Null

VerdictStatus(v) ==
    IF v = "expired" THEN "expired"
    ELSE IF v = "unsure" THEN "outcome_unknown" ELSE "failed"

VerdictError(v) == IF v = "expired" THEN "operation_timeout" ELSE ErrorCode(v)

\* The row it saves.  A timeout or an uncertainty is no answer of the device
\* and leaves the result empty.
PrepareDispatch(row, epoch, verdict) ==
    IF verdict = Null
    THEN [row EXCEPT !.epoch = epoch, !.attempted = TRUE]
    ELSE [row EXCEPT !.epoch = epoch,
                     !.status = VerdictStatus(verdict),
                     !.error = VerdictError(verdict),
                     !.result = IF verdict = "revoked" THEN verdict ELSE Null]

\* _recoverable_operation_correlations: rows that a new connection redelivers.
Recoverable(row) == row.status \in {"dispatched", "received", "running"}
=============================================================================
