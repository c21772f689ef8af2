---------------------------- MODULE OutcomeProofs ----------------------------
(***************************************************************************)
(* What Tunnel does to the relay's rows, for every instance: it implements *)
(* OperationOutcome, closed rows are settled at most once, old connections *)
(* write nothing, and a client's answer is the stored one.  And what it    *)
(* does to the agent's journal: the relay hands a replay-unsafe operation  *)
(* over once, a journaled result is never replaced, and what is            *)
(* acknowledged is what the relay has stored.                              *)
(***************************************************************************)
EXTENDS TunnelProofs

USE DEF relayVars, waitVars, connVars, sockVars, taskVars,
        SessionTypeOK, TaskTypeOK

\* A row with a result is closed, a request that has not begun has no row, and
\* no row carries an epoch the device has not reached.
RowInv ==
    \A o \in Ops :
        /\ RowOK(op[o])
        /\ waiter[o] = "none" => op[o] = AbsentRow
        /\ op[o].epoch <= devEpoch

\* A step that writes the row of o.
WritesRow(o) ==
    \E r \in Rows :
        /\ op' = [op EXCEPT ![o] = r]
        /\ Settles(op[o], r)
        /\ r.epoch >= op[o].epoch /\ r.epoch <= devEpoch
        /\ waiter'[o] # "none"
        /\ \A q \in Ops : waiter'[q] = "none" => waiter[q] = "none"
        /\ UNCHANGED devEpoch

\* A step that writes none.
WritesNone ==
    /\ UNCHANGED op
    /\ \A q \in Ops : waiter'[q] = "none" => waiter[q] = "none"
    /\ devEpoch' >= devEpoch

\* A step that writes one row, and keeps RowInv there, is a row-writing step.
LEMMA WritesRowIntro ==
    ASSUME NEW o \in Ops, NEW r \in Rows, op' = [op EXCEPT ![o] = r],
           Settles(op[o], r), r.epoch >= op[o].epoch, r.epoch <= devEpoch,
           waiter'[o] # "none", UNCHANGED devEpoch,
           \A q \in Ops : waiter'[q] = "none" => waiter[q] = "none"
    PROVE  WritesRow(o)
  BY DEF WritesRow

\* Facts about the absent row that the provers need unfolded.
LEMMA AbsentFacts ==
    /\ AbsentRow.status = "absent" /\ AbsentRow.result = Null
    /\ AbsentRow.epoch = 0
    /\ ~Terminal(AbsentRow) /\ "absent" \notin Nonterminal
  BY DEF AbsentRow, Terminal, TerminalStatuses, Nonterminal

\* A row-writing step preserves RowInv.
LEMMA RowInvStep ==
    ASSUME TypeOK, RowInv, WritesNone \/ \E o \in Ops : WritesRow(o), devEpoch' \in Nat
    PROVE  RowInv'
  <1>1. devEpoch \in Nat /\ op \in [Ops -> Rows] /\ \A q \in Ops : op[q].epoch \in Nat
    BY TunnelAssumption DEF TypeOK, RelayTypeOK, Rows
  <1>2. CASE WritesNone
    BY <1>1, <1>2 DEF WritesNone, RowInv
  <1>3. ASSUME NEW o \in Ops, WritesRow(o) PROVE RowInv'
    BY <1>1, <1>3 DEF WritesRow, RowInv, Settles
  <1> QED BY <1>2, <1>3

\* Every transaction of dispatch.py is a row-writing step.
LEMMA WaiterWrites ==
    ASSUME TypeOK, RowInv, NEW o \in Ops, WaiterNext(o)
    PROVE  WritesNone \/ WritesRow(o)
  <1>1. /\ op \in [Ops -> Rows] /\ op[o] \in Rows /\ op[o].epoch \in Nat
        /\ devEpoch \in Nat /\ op[o].epoch <= devEpoch /\ RowOK(op[o])
        /\ waiter \in [Ops -> WaiterStates]
    BY TunnelAssumption DEF TypeOK, RelayTypeOK, Rows, RowInv
  <1>2. CASE Accept(o)
    <2>1. PICK e \in 1 .. devEpoch : op' = [op EXCEPT ![o] = CreateOperation(e)]
      BY <1>2 DEF Accept
    <2>2. op[o] = AbsentRow
      BY <1>2 DEF Accept, RowInv
    <2>3. e \in Nat /\ e >= AbsentRow.epoch /\ e <= devEpoch
      BY <1>1, <2>1, AbsentFacts
    <2>4. CreateOperation(e) \in Rows
      BY <2>3 DEF CreateOperation, AbsentRow, Rows, Statuses, Nonterminal,
                  ErrorCodes, Null
    <2>6. CreateOperation(e).epoch = e /\ CreateOperation(e).result = Null
      BY DEF CreateOperation, AbsentRow
    <2>7. Settles(op[o], CreateOperation(e))
      BY <2>2, <2>6, AbsentFacts DEF Settles, RowOK
    <2>5. /\ waiter'[o] # "none" /\ UNCHANGED devEpoch
          /\ \A q \in Ops : waiter'[q] = "none" => waiter[q] = "none"
      BY <1>1, <1>2 DEF Accept
    <2> QED BY <2>1, <2>2, <2>3, <2>4, <2>5, <2>6, <2>7, WritesRowIntro
  <1>3. CASE Dispatch(o)
    <2>1. MarkDispatched(op[o]) \in Rows
      BY <1>1 DEF MarkDispatched, Rows, Statuses, Nonterminal
    <2>2. "ok" \in Payloads /\ "" \in ErrorCodes
      BY DEF Payloads, DevicePayloads, ErrorCodes
    <2>3. /\ Settles(op[o], MarkDispatched(op[o]))
          /\ MarkDispatched(op[o]).epoch = op[o].epoch
      BY <1>1, <2>2, WaiterSettles
    <2>4. /\ waiter'[o] # "none" /\ UNCHANGED devEpoch
          /\ op' = [op EXCEPT ![o] = MarkDispatched(op[o])]
          /\ \A q \in Ops : waiter'[q] = "none" => waiter[q] = "none"
      BY <1>1, <1>3 DEF Dispatch
    <2>5. MarkDispatched(op[o]).epoch >= op[o].epoch /\ MarkDispatched(op[o]).epoch <= devEpoch
      BY <1>1, <2>3
    <2> QED BY <2>1, <2>3, <2>4, <2>5, WritesRowIntro
  <1>4. ASSUME NEW c \in ErrorCodes, WaitFails(o, c) PROVE WritesRow(o)
    <2> DEFINE d == DeliveryFailure(o, c)
    <2>1. d \in ErrorCodes
      BY DEF DeliveryFailure, ErrorCodes
    <2>2. MarkDeliveryFailure(op[o], d) \in Rows
      BY <1>1, <2>1 DEF MarkDeliveryFailure, Rows, Statuses, TerminalStatuses
    <2>3. "ok" \in Payloads
      BY DEF Payloads, DevicePayloads
    <2>4. /\ Settles(op[o], MarkDeliveryFailure(op[o], d))
          /\ MarkDeliveryFailure(op[o], d).epoch = op[o].epoch
      BY <1>1, <2>1, <2>3, WaiterSettles
    <2>5. /\ waiter'[o] # "none" /\ UNCHANGED devEpoch
          /\ op' = [op EXCEPT ![o] = MarkDeliveryFailure(op[o], d)]
          /\ \A q \in Ops : waiter'[q] = "none" => waiter[q] = "none"
      BY <1>1, <1>4 DEF WaitFails, Answered
    <2>6. /\ MarkDeliveryFailure(op[o], d).epoch >= op[o].epoch
          /\ MarkDeliveryFailure(op[o], d).epoch <= devEpoch
      BY <1>1, <2>4
    <2> QED BY <2>2, <2>4, <2>5, <2>6, WritesRowIntro
  <1>5. CASE TransportFails(o)
    <2>1. "operation_timeout" \in ErrorCodes
      BY DEF ErrorCodes
    <2> QED BY <1>4, <1>5, <2>1 DEF TransportFails
  <1>6. CASE ReadResult(o)
    <2> DEFINE p == published[o].payload
    <2>1. p \in Payloads
      BY <1>6 DEF ReadResult, TypeOK, RelayTypeOK, Entries
    <2>2. CASE WaitFails(o, "protocol_error")
      <3>1. "protocol_error" \in ErrorCodes
        BY DEF ErrorCodes
      <3> QED BY <1>4, <2>2, <3>1
    <2>3. CASE op' = [op EXCEPT ![o] = Finish(@, p)] /\ Answered(o, <<"result", p>>)
      <3>1. Durable(p) \in Payloads /\ "" \in ErrorCodes
        BY <2>1, PayloadTypes DEF ErrorCodes
      <3>2. Finish(op[o], p) \in Rows
        BY <1>1, <3>1 DEF Finish, Rows, Statuses, TerminalStatuses
      <3>3. Settles(op[o], Finish(op[o], p)) /\ Finish(op[o], p).epoch = op[o].epoch
        BY <1>1, <2>1, <3>1, WaiterSettles
      <3>4. /\ waiter'[o] # "none" /\ UNCHANGED devEpoch
            /\ op' = [op EXCEPT ![o] = Finish(op[o], p)]
            /\ \A q \in Ops : waiter'[q] = "none" => waiter[q] = "none"
        BY <1>1, <2>3 DEF Answered
      <3>5. Finish(op[o], p).epoch >= op[o].epoch /\ Finish(op[o], p).epoch <= devEpoch
        BY <1>1, <3>3
      <3> QED BY <3>2, <3>3, <3>4, <3>5, WritesRowIntro
    <2> QED BY <1>6, <2>2, <2>3 DEF ReadResult
  <1>7. CASE Publish(o) \/ WaiterDies(o) \/ Deadline(o)
    BY <1>1, <1>7 DEF Publish, WaiterDies, Deadline, WritesNone
  <1> QED BY <1>2, <1>3, <1>5, <1>6, <1>7 DEF WaiterNext

\* _deliver_operation is a row-writing step.
LEMMA DeliverWrites ==
    ASSUME TypeOK, RowInv, NEW e \in Epochs, NEW o \in Ops, Deliver(e, o)
    PROVE  WritesNone \/ WritesRow(o)
  <1> DEFINE v == DispatchVerdict(o, op[o], o \in elapsed, opLink[o] # link)
  <1>1. e \in Nat
    BY TunnelAssumption DEF Epochs
  <1>2. /\ op \in [Ops -> Rows] /\ op[o] \in Rows /\ op[o].epoch \in Nat
        /\ devEpoch \in Nat /\ op[o].epoch <= devEpoch /\ RowOK(op[o])
    BY TunnelAssumption DEF TypeOK, RelayTypeOK, Rows, RowInv
  <1>3. v \in RelayPayloads \cup {Null}
    BY DEF DispatchVerdict, RelayPayloads
  <1>4. UNCHANGED <<devEpoch, waiter>> /\ e = devEpoch
    BY DEF Deliver, Authoritative
  <1>5. CASE op[o].status \in Nonterminal
    <2>1. op' = [op EXCEPT ![o] = PrepareDispatch(op[o], e, v)]
      BY <1>5 DEF Deliver
    <2>2. PrepareDispatch(op[o], e, v) \in Rows
      BY <1>1, <1>2, <1>3, PrepareTypes
    <2>3. /\ Settles(op[o], PrepareDispatch(op[o], e, v))
          /\ PrepareDispatch(op[o], e, v).epoch = e
      BY <1>1, <1>2, <1>3, <1>5, PrepareSettles
    <2>4. waiter[o] # "none"
      BY <1>5, AbsentFacts DEF RowInv
    <2>5. /\ PrepareDispatch(op[o], e, v).epoch >= op[o].epoch
          /\ PrepareDispatch(op[o], e, v).epoch <= devEpoch
      BY <1>2, <1>4, <2>3
    <2> QED BY <1>4, <2>1, <2>2, <2>3, <2>4, <2>5, WritesRowIntro
  <1>6. CASE op[o].status \notin Nonterminal
    BY <1>2, <1>4, <1>6 DEF Deliver, WritesNone
  <1> QED BY <1>5, <1>6

\* Every step of device_websocket is a row-writing step.
LEMMA RelayWrites ==
    ASSUME TypeOK, RowInv, NEW e \in Epochs, RelayNext(e)
    PROVE  WritesNone \/ \E o \in Ops : WritesRow(o)
  <1>1. e \in Nat
    BY TunnelAssumption DEF Epochs
  <1>2. devEpoch \in Nat /\ op \in [Ops -> Rows]
    BY TunnelAssumption DEF TypeOK, RelayTypeOK
  <1>3. CASE RelayReceive(e)
    <2> DEFINE m == Head(up[e])
    <2>1. up[e] \in Seq(Messages) /\ up[e] # <<>> /\ e = devEpoch
      BY <1>3 DEF RelayReceive, Authoritative, TypeOK, ConnectionTypeOK
    <2>2. m \in Messages
      BY <2>1
    <2>3. m.op \in Ops
      BY <2>2 DEF Messages
    <2>4. CASE m.epoch # e \/ RejectsMessage(op[m.op], e, m)
      BY <1>2, <1>3, <2>4 DEF RelayReceive, Closed, WritesNone
    <2>5. CASE ~(m.epoch # e \/ RejectsMessage(op[m.op], e, m))
      <3>1. /\ op' = [op EXCEPT ![m.op] = RecordDeviceMessage(op[m.op], e, m)]
            /\ UNCHANGED <<devEpoch, waiter>>
        BY <1>3, <2>5 DEF RelayReceive
      <3>2. /\ op[m.op] \in Rows /\ op[m.op].epoch \in Nat
            /\ op[m.op].epoch <= devEpoch /\ RowOK(op[m.op])
        BY <1>2, <2>3 DEF RowInv, Rows
      <3>3. RecordDeviceMessage(op[m.op], e, m) \in Rows
        BY <1>1, <2>2, <3>2, ConnectionRowTypes
      <3>4. /\ Settles(op[m.op], RecordDeviceMessage(op[m.op], e, m))
            /\ RecordDeviceMessage(op[m.op], e, m).epoch \in {op[m.op].epoch, e}
        BY <1>1, <2>2, <2>5, <3>2, RecordSettles
      <3>5. waiter[m.op] # "none"
        BY <2>3, <2>5, AbsentFacts DEF RejectsMessage, RowInv
      <3>6. /\ RecordDeviceMessage(op[m.op], e, m).epoch >= op[m.op].epoch
            /\ RecordDeviceMessage(op[m.op], e, m).epoch <= devEpoch
        BY <1>2, <2>1, <3>2, <3>4
      <3>7. WritesRow(m.op)
        BY <2>3, <3>1, <3>3, <3>4, <3>5, <3>6, WritesRowIntro
      <3> QED BY <2>3, <3>7
    <2> QED BY <2>4, <2>5
  <1>4. CASE DeliverRecovered(e)
    BY <1>4, DeliverWrites DEF DeliverRecovered, TypeOK, ConnectionTypeOK
  <1>5. CASE DeliverFromStream(e)
    <2>1. dispatchStream[cursor[e]] \in Ops
      BY <1>5 DEF DeliverFromStream, TypeOK, RelayTypeOK
    <2> QED BY <1>5, <2>1, DeliverWrites DEF DeliverFromStream
  <1>6. CASE RelayClose(e) \/ PublishReply(e) \/ Recover(e) \/ PublishVerdict(e)
    BY <1>2, <1>6 DEF RelayClose, Closed, PublishReply, Recover, PublishVerdict,
                      WritesNone
  <1> QED BY <1>3, <1>4, <1>5, <1>6 DEF RelayNext

\* Nothing on the agent writes a row.
LEMMA AgentWrites ==
    ASSUME TypeOK,
           \/ \E o \in Ops : ReceiveNext(o) \/ TaskNext(o)
           \/ SocketNext \/ RotateLink \/ UNCHANGED vars
    PROVE  WritesNone
  <1>1. devEpoch \in Nat
    BY TunnelAssumption DEF TypeOK, RelayTypeOK
  <1>2. ASSUME NEW o \in Ops, ReceiveNext(o) PROVE UNCHANGED <<op, waiter, devEpoch>>
    BY <1>2 DEF ReceiveNext, Replay, ReceiveOperation, Refuse, SendReceived,
                Redelivered, SendUncertain, ReceiveAck, MarkAcknowledged,
                ForgetTerminal
  <1>3. ASSUME NEW o \in Ops, TaskNext(o) PROVE UNCHANGED <<op, waiter, devEpoch>>
    BY <1>3 DEF TaskNext, TaskBegins, HandlerStarts, BudgetElapsesEarly, StartFails,
                HandlerReturns, JournalTerminalResult, SendResult
  <1>4. CASE SocketNext
    BY <1>1, <1>4 DEF SocketNext, Connect, ReceiveWelcome, ResetSequence,
           ReadUnacknowledged, Ready, AgentDrop, Restart, WritesNone
  <1>5. CASE RotateLink \/ UNCHANGED vars
    BY <1>1, <1>5 DEF RotateLink, vars, WritesNone
  <1> QED BY <1>1, <1>2, <1>3, <1>4, <1>5 DEF WritesNone

\* Every step of the specification is a row-writing step.
LEMMA StepWrites ==
    ASSUME TypeOK, RowInv, [Next]_vars
    PROVE  WritesNone \/ \E o \in Ops : WritesRow(o)
  BY WaiterWrites, RelayWrites, AgentWrites DEF Next

\* RowInv holds in every reachable state.
LEMMA RowsCorrect == Spec => []RowInv
  <1>1. Init => RowInv
    <2> SUFFICES ASSUME Init, NEW o \in Ops
                 PROVE  /\ RowOK(op[o]) /\ (waiter[o] = "none" => op[o] = AbsentRow)
                        /\ op[o].epoch <= devEpoch
      BY DEF RowInv
    <2>1. op[o] = AbsentRow /\ devEpoch = 0
      BY DEF Init
    <2> QED BY <2>1, AbsentFacts DEF RowOK
  <1>2. TypeOK /\ TypeOK' /\ RowInv /\ [Next]_vars => RowInv'
    <2> SUFFICES ASSUME TypeOK, TypeOK', RowInv, [Next]_vars PROVE RowInv'
      OBVIOUS
    <2>1. devEpoch' \in Nat
      BY TunnelAssumption DEF TypeOK, RelayTypeOK
    <2> QED BY <2>1, StepWrites, RowInvStep
  <1> QED BY <1>1, <1>2, TypeCorrect, PTL DEF Spec

-----------------------------------------------------------------------------
\* A closed row changes at most once more, by taking the first result of the
\* device (_record_device_message, _finish, _mark_delivery_failure).
THEOREM RowsSettleOnce == Spec => SettledOnce
  <1>1. TypeOK /\ RowInv /\ [Next]_vars =>
            [\A o \in Ops : Terminal(op[o]) /\ op'[o] # op[o] =>
                 op[o].result = Null /\ op'[o].result # Null /\ Terminal(op'[o])]_vars
    <2> SUFFICES ASSUME TypeOK, RowInv, [Next]_vars, NEW q \in Ops,
                        Terminal(op[q]), op'[q] # op[q]
                 PROVE  op[q].result = Null /\ op'[q].result # Null /\ Terminal(op'[q])
      OBVIOUS
    <2>1. op \in [Ops -> Rows]
      BY DEF TypeOK, RelayTypeOK
    <2>2. PICK o \in Ops : WritesRow(o)
      BY StepWrites DEF WritesNone
    <2> QED BY <2>1, <2>2 DEF WritesRow, Settles
  <1> QED BY <1>1, TypeCorrect, RowsCorrect, PTL DEF Spec, SettledOnce

\* A connection that is older than the device's epoch writes no row, so the
\* epoch stored with an operation never goes back (_validate_operation_binding,
\* _prepare_operation_dispatch).
THEOREM EpochsNeverGoBack == Spec => EpochFence
  <1>1. TypeOK /\ RowInv /\ [Next]_vars =>
            [\A o \in Ops : op'[o].epoch >= op[o].epoch]_vars
    <2> SUFFICES ASSUME TypeOK, RowInv, [Next]_vars, NEW q \in Ops
                 PROVE  op'[q].epoch >= op[q].epoch
      OBVIOUS
    <2>1. op \in [Ops -> Rows] /\ op[q].epoch \in Nat
      BY DEF TypeOK, RelayTypeOK, Rows
    <2>2. CASE WritesNone
      BY <2>1, <2>2 DEF WritesNone
    <2>3. ASSUME NEW o \in Ops, WritesRow(o) PROVE op'[q].epoch >= op[q].epoch
      BY <2>1, <2>3 DEF WritesRow
    <2> QED BY <2>2, <2>3, StepWrites
  <1> QED BY <1>1, TypeCorrect, RowsCorrect, PTL DEF Spec, EpochFence

\* Tunnel implements OperationOutcome: every step starts one handler within its
\* allowance, stores one first result, or changes neither.
THEOREM TunnelKeepsOutcome == Spec => OutcomeSpec
  <1>1. Init => Outcome!Init
    BY AbsentFacts DEF Init, Outcome!Init
  <1>2. TypeOK /\ StartInv /\ RowInv /\ [Next]_vars =>
            [Outcome!Next]_<<runs, [o \in Ops |-> op[o].result]>>
    <2> SUFFICES ASSUME TypeOK, StartInv, RowInv, [Next]_vars
                 PROVE  [Outcome!Next]_<<runs, [o \in Ops |-> op[o].result]>>
      OBVIOUS
    <2>1. op \in [Ops -> Rows]
      BY DEF TypeOK, RelayTypeOK
    <2>2. CASE \E o \in Ops : TaskNext(o) /\ ~UNCHANGED runs
      BY <2>2, TaskStarts DEF Outcome!Next, Outcome!Run
    <2>3. CASE UNCHANGED runs
      <3>1. CASE WritesNone
        BY <2>3, <3>1 DEF WritesNone
      <3>2. ASSUME NEW o \in Ops, WritesRow(o)
            PROVE  [Outcome!Next]_<<runs, [q \in Ops |-> op[q].result]>>
        <4>1. PICK r \in Rows : op' = [op EXCEPT ![o] = r] /\ Settles(op[o], r)
          BY <3>2 DEF WritesRow
        <4>2. CASE r.result = op[o].result
          BY <2>1, <2>3, <4>1, <4>2
        <4>3. CASE r.result # op[o].result
          <5>1. op[o].result = Null
            BY <4>1, <4>3 DEF Settles
          <5>2. r.result \in Payloads
            BY <4>3, <5>1 DEF Rows
          <5>3. [q \in Ops |-> op'[q].result]
                = [[q \in Ops |-> op[q].result] EXCEPT ![o] = r.result]
            BY <2>1, <4>1
          <5>4. Outcome!Settle(o)
            BY <2>3, <5>1, <5>2, <5>3 DEF Outcome!Settle
          <5> QED BY <5>4 DEF Outcome!Next
        <4> QED BY <4>2, <4>3
      <3> QED BY <3>1, <3>2, StepWrites
    <2> QED BY <2>2, <2>3, OthersStartNothing, SocketStartsNothing, ReceiveStarts
            DEF Next
  <1>3. Spec => []StartInv
    BY StartCorrect
  <1> QED BY <1>1, <1>2, <1>3, TypeCorrect, RowsCorrect, PTL
          DEF Spec, OutcomeSpec, Outcome!Spec

-----------------------------------------------------------------------------
\* The answer of a client is the stored result.  The result travels from the
\* row through the connection's memory and a Redis stream to the waiting
\* request; on the whole way it equals the row's result, unless the relay
\* derived it from a timeout or an uncertainty and stored none.

Derived == {"expired", "unsure"}

ReplyStored(e) ==
    reply[e] # <<>> => op[reply[e][1]].result = Durable(reply[e][2])

VerdictStored(e) ==
    verdict[e] # <<>> /\ verdict[e][2] \notin Derived =>
        op[verdict[e][1]].result = Durable(verdict[e][2])

PublishedStored(o) ==
    published[o] # NoEntry /\ published[o].payload \notin Derived =>
        op[o].result = Durable(published[o].payload)

AnswerStored(o) ==
    \A p \in Payloads \ Derived :
        answer[o] = <<"result", p>> => op[o].result = Durable(p)

StoredInv ==
    /\ \A e \in Epochs : ReplyStored(e) /\ VerdictStored(e)
    /\ \A o \in Ops : PublishedStored(o) /\ AnswerStored(o)

\* A stored result stays stored across a row-writing step.
LEMMA StoredStays ==
    ASSUME TypeOK, RowInv, [Next]_vars, NEW o \in Ops, NEW p \in Payloads,
           op[o].result = Durable(p)
    PROVE  op'[o].result = Durable(p)
  <1>1. Durable(p) # Null
    BY DEF Durable, Payloads, DevicePayloads, RelayPayloads, Null
  <1>2. op \in [Ops -> Rows]
    BY DEF TypeOK, RelayTypeOK
  <1>3. CASE WritesNone
    BY <1>3 DEF WritesNone
  <1>4. ASSUME NEW q \in Ops, WritesRow(q) PROVE op'[o].result = Durable(p)
    BY <1>1, <1>2, <1>4 DEF WritesRow, Settles
  <1> QED BY <1>3, <1>4, StepWrites

\* What a step keeps or clears stays as it should be.
LEMMA KeptStored ==
    ASSUME TypeOK, RowInv, StoredInv, [Next]_vars
    PROVE  /\ \A e \in Epochs : reply'[e] \in {<<>>, reply[e]} => ReplyStored(e)'
           /\ \A e \in Epochs : verdict'[e] \in {<<>>, verdict[e]} => VerdictStored(e)'
           /\ \A o \in Ops : published'[o] \in {NoEntry, published[o]} =>
                                 PublishedStored(o)'
           /\ \A o \in Ops : answer'[o] = answer[o] => AnswerStored(o)'
  <1>1. ASSUME NEW e \in Epochs, reply'[e] = reply[e], reply[e] # <<>>
        PROVE  ReplyStored(e)'
    <2>1. reply[e][1] \in Ops /\ reply[e][2] \in Payloads
      BY <1>1 DEF TypeOK, ConnectionTypeOK
    <2> QED BY <1>1, <2>1, StoredStays DEF StoredInv, ReplyStored
  <1>2. ASSUME NEW e \in Epochs, verdict'[e] = verdict[e], verdict[e] # <<>>
        PROVE  VerdictStored(e)'
    <2>1. verdict[e][1] \in Ops /\ verdict[e][2] \in Payloads
      BY <1>2 DEF TypeOK, ConnectionTypeOK, Payloads
    <2> QED BY <1>2, <2>1, StoredStays DEF StoredInv, VerdictStored
  <1>3. ASSUME NEW o \in Ops, published'[o] = published[o], published[o] # NoEntry
        PROVE  PublishedStored(o)'
    <2>1. published[o].payload \in Payloads
      BY <1>3 DEF TypeOK, RelayTypeOK, Entries
    <2> QED BY <1>3, <2>1, StoredStays DEF StoredInv, PublishedStored
  <1>4. ASSUME NEW o \in Ops, answer'[o] = answer[o] PROVE AnswerStored(o)'
    BY <1>4, StoredStays DEF StoredInv, AnswerStored
  <1> QED BY <1>1, <1>2, <1>3, <1>4 DEF ReplyStored, VerdictStored, PublishedStored

\* The steps of dispatch.py preserve StoredInv.
LEMMA WaiterStores ==
    ASSUME TypeOK, RowInv, StoredInv, NEW o \in Ops, WaiterNext(o), [Next]_vars
    PROVE  StoredInv'
  <1>1. /\ published \in [Ops -> Entries] /\ op \in [Ops -> Rows]
        /\ answer \in [Ops -> {<<>>} \cup ({"result"} \X Payloads)
                                     \cup ({"error"} \X ErrorCodes)]
    BY DEF TypeOK, RelayTypeOK
  <1>2. UNCHANGED <<reply, verdict>>
    BY DEF WaiterNext, Accept, Dispatch, Publish, TransportFails, ReadResult,
           WaitFails, Answered, WaiterDies, Deadline
  <1>3. \A q \in Ops : published'[q] \in {NoEntry, published[q]}
    BY <1>1 DEF WaiterNext, Accept, Dispatch, Publish, TransportFails, ReadResult,
                WaitFails, Answered, WaiterDies, Deadline
  <1>4. \A q \in Ops : AnswerStored(q)'
    <2>1. CASE UNCHANGED answer
      BY <2>1, KeptStored
    <2>2. ASSUME NEW c, Answered(o, <<"error", c>>)
          PROVE  \A q \in Ops : AnswerStored(q)'
      <3>1. \A q \in Ops : q # o => answer'[q] = answer[q]
        BY <1>1, <2>2 DEF Answered
      <3>2. AnswerStored(o)'
        BY <1>1, <2>2 DEF Answered, AnswerStored
      <3> QED BY <3>1, <3>2, KeptStored
    <2>3. CASE /\ waiter[o] = "waiting" /\ published[o] # NoEntry
               /\ op' = [op EXCEPT ![o] = Finish(@, published[o].payload)]
               /\ Answered(o, <<"result", published[o].payload>>)
      <3> DEFINE p == published[o].payload
      <3>1. \A q \in Ops : q # o => answer'[q] = answer[q]
        BY <1>1, <2>3 DEF Answered
      <3>2. p \in Payloads
        BY <1>1, <2>3 DEF Entries
      <3>3. answer'[o] = <<"result", p>>
        BY <1>1, <2>3 DEF Answered
      <3>4. op'[o] = Finish(op[o], p)
        BY <1>1, <2>3
      <3>5. p \notin Derived => op'[o].result = Durable(p)
        <4>1. CASE op[o].status \in Nonterminal
          BY <1>1, <3>4, <4>1 DEF Finish, Rows
        <4>2. CASE op[o].status \notin Nonterminal
          BY <2>3, <3>4, <4>2 DEF Finish, StoredInv, PublishedStored
        <4> QED BY <4>1, <4>2
      <3>6. AnswerStored(o)'
        BY <3>3, <3>5 DEF AnswerStored
      <3> QED BY <3>1, <3>6, KeptStored
    <2> QED BY <2>1, <2>2, <2>3 DEF WaiterNext, Accept, Dispatch, Publish,
               TransportFails, ReadResult, WaitFails, WaiterDies, Deadline
  <1> QED BY <1>2, <1>3, <1>4, KeptStored DEF StoredInv

\* Publishing a stored result preserves what StoredInv says of the streams.
LEMMA PublishStores ==
    ASSUME TypeOK, RowInv, StoredInv, [Next]_vars, UNCHANGED op, NEW e \in Epochs,
           NEW o \in Ops, NEW p \in Payloads, PublishResult(e, o, p),
           p \notin Derived => op[o].result = Durable(p)
    PROVE  \A q \in Ops : PublishedStored(q)'
  <1>1. published \in [Ops -> Entries]
    BY DEF TypeOK, RelayTypeOK
  <1>2. CASE UNCHANGED published
    BY <1>2, KeptStored
  <1>3. CASE published' = [published EXCEPT ![o] = [epoch |-> e, payload |-> p]]
    <2>1. \A q \in Ops : q # o => published'[q] = published[q]
      BY <1>1, <1>3
    <2>2. published'[o].payload = p
      BY <1>1, <1>3
    <2> QED BY <2>1, <2>2, KeptStored DEF PublishedStored
  <1> QED BY <1>2, <1>3 DEF PublishResult

\* _deliver_operation preserves StoredInv.
LEMMA DeliverStores ==
    ASSUME TypeOK, RowInv, StoredInv, NEW e \in Epochs, NEW o \in Ops,
           Deliver(e, o), [Next]_vars
    PROVE  StoredInv'
  <1> DEFINE v == DispatchVerdict(o, op[o], o \in elapsed, opLink[o] # link)
  <1>1. /\ op \in [Ops -> Rows] /\ op[o] \in Rows /\ RowOK(op[o])
        /\ verdict \in [Epochs -> {<<>>} \cup (Ops \X RelayPayloads)]
    BY DEF TypeOK, RelayTypeOK, ConnectionTypeOK, RowInv
  <1>2. UNCHANGED <<reply, published, answer>>
    BY DEF Deliver
  <1>3. \A f \in Epochs : VerdictStored(f)'
    <2>1. CASE UNCHANGED verdict
      BY <2>1, KeptStored
    <2>2. CASE ~UNCHANGED verdict
      <3>1. /\ verdict' = [verdict EXCEPT ![e] = <<o, v>>]
            /\ op' = [op EXCEPT ![o] = PrepareDispatch(op[o], e, v)]
            /\ op[o].status \in Nonterminal /\ v # Null
        BY <2>2, Zenon DEF Deliver
      <3>2. v \in RelayPayloads \cup {Null}
        BY DEF DispatchVerdict, RelayPayloads
      <3>3. e \in Nat
        BY TunnelAssumption DEF Epochs
      <3> HIDE DEF v
      <3>4. v = "revoked" => PrepareDispatch(op[o], e, v).result = Durable(v)
        BY <1>1, <3>1, <3>2, <3>3, PrepareSettles
      <3>5. v \notin Derived => v = "revoked"
        BY <3>1, <3>2 DEF RelayPayloads, Derived
      <3>6. op'[o].result = PrepareDispatch(op[o], e, v).result
        BY <1>1, <3>1
      <3>7. verdict'[e] = <<o, v>> /\ \A f \in Epochs : f # e => verdict'[f] = verdict[f]
        BY <1>1, <3>1
      <3>8. VerdictStored(e)'
        BY <3>4, <3>5, <3>6, <3>7 DEF VerdictStored
      <3> QED BY <3>7, <3>8, KeptStored
    <2> QED BY <2>1, <2>2
  <1> QED BY <1>2, <1>3, KeptStored DEF StoredInv

\* The steps of device_websocket preserve StoredInv.
LEMMA RelayStores ==
    ASSUME TypeOK, RowInv, StoredInv, NEW e \in Epochs, RelayNext(e), [Next]_vars
    PROVE  StoredInv'
  <1>1. /\ op \in [Ops -> Rows]
        /\ reply \in [Epochs -> {<<>>} \cup (Ops \X Payloads)]
        /\ verdict \in [Epochs -> {<<>>} \cup (Ops \X RelayPayloads)]
    BY DEF TypeOK, RelayTypeOK, ConnectionTypeOK
  <1>2. ASSUME Closed(e) PROVE StoredInv'
    <2>1. /\ UNCHANGED <<published, answer>>
          /\ reply' = [reply EXCEPT ![e] = <<>>]
          /\ verdict' = [verdict EXCEPT ![e] = <<>>]
      BY <1>2 DEF Closed
    <2>2. \A f \in Epochs : /\ reply'[f] \in {<<>>, reply[f]}
                            /\ verdict'[f] \in {<<>>, verdict[f]}
      BY <1>1, <2>1
    <2> QED BY <2>1, <2>2, KeptStored DEF StoredInv
  <1>3. CASE RelayReceive(e)
    <2> DEFINE m == Head(up[e])
    <2> DEFINE p == Normalize(m.op, m.payload)
    <2>1. up[e] \in Seq(Messages) /\ up[e] # <<>>
      BY <1>3 DEF RelayReceive, TypeOK, ConnectionTypeOK
    <2>2. m \in Messages
      BY <2>1
    <2>3. m.op \in Ops
      BY <2>2 DEF Messages
    <2>4. CASE m.epoch # e \/ RejectsMessage(op[m.op], e, m)
      BY <1>2, <1>3, <2>4 DEF RelayReceive
    <2>5. CASE ~(m.epoch # e \/ RejectsMessage(op[m.op], e, m))
      <3>1. /\ op' = [op EXCEPT ![m.op] = RecordDeviceMessage(op[m.op], e, m)]
            /\ reply' = [reply EXCEPT ![e] =
                   IF m.kind = "result" THEN <<m.op, p>> ELSE <<>>]
            /\ UNCHANGED <<verdict, published, answer>>
        BY <1>3, <2>5 DEF RelayReceive
      <3>2. e \in Nat /\ op[m.op] \in Rows /\ RowOK(op[m.op])
        BY <1>1, <2>3, TunnelAssumption DEF RowInv, Epochs
      <3>3. m.kind = "result" => op'[m.op].result = Durable(p)
        BY <1>1, <2>2, <2>3, <2>5, <3>1, <3>2, RecordSettles
      <3>4. /\ \A f \in Epochs : f # e => reply'[f] = reply[f]
            /\ reply'[e] = IF m.kind = "result" THEN <<m.op, p>> ELSE <<>>
        BY <1>1, <3>1
      <3> HIDE DEF m, p
      <3>5. ReplyStored(e)'
        BY <3>3, <3>4 DEF ReplyStored
      <3> QED BY <3>1, <3>4, <3>5, KeptStored DEF StoredInv
    <2> QED BY <2>4, <2>5
  <1>4. CASE PublishReply(e)
    <2>1. /\ reply[e][1] \in Ops /\ reply[e][2] \in Payloads
          /\ op[reply[e][1]].result = Durable(reply[e][2])
      BY <1>1, <1>4 DEF PublishReply, StoredInv, ReplyStored
    <2>2. \A q \in Ops : PublishedStored(q)'
      BY <1>4, <2>1, PublishStores DEF PublishReply
    <2>3. /\ \A f \in Epochs : reply'[f] \in {<<>>, reply[f]}
          /\ UNCHANGED <<verdict, answer>>
      BY <1>1, <1>4 DEF PublishReply
    <2> QED BY <2>2, <2>3, KeptStored DEF StoredInv
  <1>5. CASE PublishVerdict(e)
    <2>1. verdict[e][1] \in Ops /\ verdict[e][2] \in Payloads
      BY <1>1, <1>5 DEF PublishVerdict, Payloads
    <2>2. verdict[e][2] \notin Derived =>
              op[verdict[e][1]].result = Durable(verdict[e][2])
      BY <1>5 DEF PublishVerdict, StoredInv, VerdictStored
    <2>3. \A q \in Ops : PublishedStored(q)'
      BY <1>5, <2>1, <2>2, PublishStores DEF PublishVerdict
    <2>4. /\ \A f \in Epochs : verdict'[f] \in {<<>>, verdict[f]}
          /\ UNCHANGED <<reply, answer>>
      BY <1>1, <1>5 DEF PublishVerdict
    <2> QED BY <2>3, <2>4, KeptStored DEF StoredInv
  <1>6. CASE Recover(e)
    BY <1>6, KeptStored DEF Recover, StoredInv
  <1>7. CASE DeliverRecovered(e)
    BY <1>7, DeliverStores DEF DeliverRecovered, TypeOK, ConnectionTypeOK
  <1>8. CASE DeliverFromStream(e)
    <2>1. dispatchStream[cursor[e]] \in Ops
      BY <1>8 DEF DeliverFromStream, TypeOK, RelayTypeOK
    <2> QED BY <1>8, <2>1, DeliverStores DEF DeliverFromStream
  <1> QED BY <1>2, <1>3, <1>4, <1>5, <1>6, <1>7, <1>8 DEF RelayNext, RelayClose

\* The steps of the agent touch nothing that StoredInv mentions.
LEMMA AgentStores ==
    ASSUME TypeOK, RowInv, StoredInv, [Next]_vars,
           \/ \E o \in Ops : ReceiveNext(o) \/ TaskNext(o)
           \/ SocketNext \/ RotateLink \/ UNCHANGED vars
    PROVE  StoredInv'
  <1>1. ASSUME NEW o \in Ops, ReceiveNext(o)
        PROVE  UNCHANGED <<reply, verdict, published, answer>>
    BY <1>1 DEF ReceiveNext, Replay, ReceiveOperation, Refuse, SendReceived,
                Redelivered, SendUncertain, ReceiveAck, MarkAcknowledged,
                ForgetTerminal
  <1>2. ASSUME NEW o \in Ops, TaskNext(o)
        PROVE  UNCHANGED <<reply, verdict, published, answer>>
    BY <1>2 DEF TaskNext, TaskBegins, HandlerStarts, BudgetElapsesEarly, StartFails,
                HandlerReturns, JournalTerminalResult, SendResult
  <1>3. ASSUME SocketNext \/ RotateLink \/ UNCHANGED vars
        PROVE  UNCHANGED <<reply, verdict, published, answer>>
    BY <1>3 DEF SocketNext, Connect, ReceiveWelcome, ResetSequence,
           ReadUnacknowledged, Ready, AgentDrop, Restart, RotateLink, vars
  <1> QED BY <1>1, <1>2, <1>3, KeptStored DEF StoredInv

\* StoredInv holds in every reachable state.
LEMMA StoredCorrect == Spec => []StoredInv
  <1>1. Init => StoredInv
    BY DEF Init, StoredInv, ReplyStored, VerdictStored, PublishedStored, AnswerStored
  <1>2. TypeOK /\ RowInv /\ StoredInv /\ [Next]_vars => StoredInv'
    BY WaiterStores, RelayStores, AgentStores DEF Next
  <1> QED BY <1>1, <1>2, TypeCorrect, RowsCorrect, PTL DEF Spec

\* What a client was told is what the relay has stored: a retry under the same
\* idempotency key gets the same result (_finish, _record_device_message).
THEOREM AnswersAreStored == Spec => []AnswerDurable
  <1>1. StoredInv => AnswerDurable
    BY DEF StoredInv, AnswerStored, AnswerDurable, Derived
  <1> QED BY <1>1, StoredCorrect, PTL

-----------------------------------------------------------------------------
\* At most one delivery.  The relay alone keeps a replay-unsafe operation from
\* running twice: it marks the row before it hands the operation over, and a
\* marked row is never handed over again.

\* The stream s holds a delivery of o that the agent has not read.
IsDelivery(f, o) == f.kind = "operation" /\ f.op = o
Quiet(s, o) == \A i \in 1 .. Len(s) : ~IsDelivery(s[i], o)
Single(s, o) ==
    \A i, j \in 1 .. Len(s) : IsDelivery(s[i], o) /\ IsDelivery(s[j], o) => i = j

\* No delivery, and at most one delivery, of o on all sockets together.
AllQuiet(d, o) == \A e \in Epochs : Quiet(d[e], o)
AllSingle(d, o) ==
    /\ \A e \in Epochs : Single(d[e], o)
    /\ \A e, f \in Epochs : e = f \/ Quiet(d[e], o) \/ Quiet(d[f], o)

\* Before the row of o is marked there is no trace of o on the agent's side; a
\* delivery under way has no journal entry yet and is the only one; so the agent
\* never meets a redelivery of o.
HandedOnce(o) ==
    /\ journal[o].state = "absent" \/ (op[o].attempted /\ AllQuiet(down, o))
    /\ op[o].attempted \/ AllQuiet(down, o)
    /\ AllSingle(down, o)
    /\ rx.op = o => rx.pc \notin {"duplicate", "decide"}
    /\ task[o] \in {"created", "running"} => runs[o] = 0
    /\ runs[o] <= 1

HandInv == \A o \in Unsafe : HandedOnce(o)

\* What appending and taking a frame do to the deliveries of a stream.
LEMMA FrameSteps ==
    ASSUME NEW s \in Seq(Frames), NEW f \in Frames, NEW o
    PROVE  /\ Quiet(<<>>, o) /\ Single(<<>>, o)
           /\ Quiet(s, o) /\ ~IsDelivery(f, o) => Quiet(Append(s, f), o)
           /\ Single(s, o) /\ ~IsDelivery(f, o) => Single(Append(s, f), o)
           /\ Quiet(s, o) => Single(Append(s, f), o)
           /\ s # <<>> /\ Quiet(s, o) => Quiet(Tail(s), o)
           /\ s # <<>> /\ Single(s, o) => Single(Tail(s), o)
           /\ s # <<>> /\ Single(s, o) /\ IsDelivery(Head(s), o) => Quiet(Tail(s), o)
  <1>1. /\ Len(Append(s, f)) = Len(s) + 1 /\ Len(s) \in Nat
        /\ \A i \in 1 .. Len(s) : Append(s, f)[i] = s[i]
        /\ Append(s, f)[Len(s) + 1] = f
    OBVIOUS
  <1>2. s # <<>> => /\ Len(Tail(s)) = Len(s) - 1 /\ Len(s) > 0
                    /\ \A i \in 1 .. Len(s) - 1 : Tail(s)[i] = s[i + 1]
                    /\ Head(s) = s[1]
    OBVIOUS
  <1>3. Len(<<>>) = 0
    OBVIOUS
  <1>4. Quiet(<<>>, o) /\ Single(<<>>, o)
    BY <1>3 DEF Quiet, Single
  <1>5. Quiet(s, o) /\ ~IsDelivery(f, o) => Quiet(Append(s, f), o)
    BY <1>1 DEF Quiet
  <1>6. Single(s, o) /\ ~IsDelivery(f, o) => Single(Append(s, f), o)
    BY <1>1 DEF Single
  <1>7. Quiet(s, o) => Single(Append(s, f), o)
    BY <1>1 DEF Quiet, Single
  <1>8. s # <<>> /\ Quiet(s, o) => Quiet(Tail(s), o)
    BY <1>2, <1>1 DEF Quiet
  <1>9. s # <<>> /\ Single(s, o) => Single(Tail(s), o)
    <2> SUFFICES ASSUME s # <<>>, Single(s, o), NEW i \in 1 .. Len(Tail(s)),
                        NEW j \in 1 .. Len(Tail(s)),
                        IsDelivery(Tail(s)[i], o), IsDelivery(Tail(s)[j], o)
                 PROVE  i = j
      BY DEF Single
    <2>1. i + 1 \in 1 .. Len(s) /\ j + 1 \in 1 .. Len(s)
      BY <1>1, <1>2
    <2>2. IsDelivery(s[i + 1], o) /\ IsDelivery(s[j + 1], o)
      BY <1>2, <1>1
    <2>3. i + 1 = j + 1
      BY <2>1, <2>2 DEF Single
    <2> QED BY <2>3, <1>1, <1>2
  <1>10. s # <<>> /\ Single(s, o) /\ IsDelivery(Head(s), o) => Quiet(Tail(s), o)
    <2> SUFFICES ASSUME s # <<>>, Single(s, o), IsDelivery(Head(s), o),
                        NEW i \in 1 .. Len(Tail(s)), IsDelivery(Tail(s)[i], o)
                 PROVE  FALSE
      BY DEF Quiet
    <2>1. i + 1 \in 1 .. Len(s) /\ 1 \in 1 .. Len(s) /\ i + 1 # 1
      BY <1>1, <1>2
    <2>2. IsDelivery(s[i + 1], o) /\ IsDelivery(s[1], o)
      BY <1>2, <1>1
    <2> QED BY <2>1, <2>2 DEF Single
  <1> QED BY <1>4, <1>5, <1>6, <1>7, <1>8, <1>9, <1>10

\* A step that adds no delivery of o.
AddsNone(o) ==
    /\ AllQuiet(down, o) => AllQuiet(down', o)
    /\ AllSingle(down, o) => AllSingle(down', o)

\* Sockets that are left alone or emptied hold no new delivery.
LEMMA DownCleared ==
    ASSUME TypeOK, NEW o, down' = down \/ down' = [e \in Epochs |-> <<>>]
    PROVE  AddsNone(o)
  <1>1. CASE down' = down
    BY <1>1 DEF AddsNone, AllQuiet, AllSingle
  <1>2. CASE down' = [e \in Epochs |-> <<>>]
    <2>1. \A e \in Epochs : down'[e] = <<>>
      BY <1>2
    <2>2. Quiet(<<>>, o) /\ Single(<<>>, o)
      BY DEF Quiet, Single
    <2> QED BY <2>1, <2>2 DEF AddsNone, AllQuiet, AllSingle
  <1> QED BY <1>1, <1>2

\* Reading a frame adds none, and takes the only delivery away.
LEMMA DownTaken ==
    ASSUME TypeOK, NEW k, NEW q \in Ops, NEW o, Takes(k, q), TakeFrame
    PROVE  /\ AddsNone(o)
           /\ k = "operation" /\ q = o /\ AllSingle(down, o) => AllQuiet(down', o)
  <1>1. /\ down \in [Epochs -> Seq(Frames)]
        /\ sock \in Epochs /\ down[sock] # <<>> /\ down[sock] \in Seq(Frames)
    BY DEF Takes, TypeOK, ConnectionTypeOK, AgentTypeOK, Frames
  <1>2. /\ \A e \in Epochs : e # sock => down'[e] = down[e]
        /\ down'[sock] = Tail(down[sock])
    BY <1>1 DEF TakeFrame
  <1>3. Head(down[sock]) \in Frames
    BY <1>1
  <1>4. /\ Quiet(down[sock], o) => Quiet(Tail(down[sock]), o)
        /\ Single(down[sock], o) => Single(Tail(down[sock]), o)
        /\ Single(down[sock], o) /\ IsDelivery(Head(down[sock]), o)
               => Quiet(Tail(down[sock]), o)
    BY <1>1, <1>3, FrameSteps
  <1>5. AddsNone(o)
    BY <1>2, <1>4 DEF AddsNone, AllQuiet, AllSingle
  <1>6. ASSUME k = "operation", q = o, AllSingle(down, o) PROVE AllQuiet(down', o)
    <2>1. IsDelivery(Head(down[sock]), o)
      BY <1>6 DEF Takes, IsDelivery
    <2>2. ~Quiet(down[sock], o)
      <3>1. 1 \in 1 .. Len(down[sock]) /\ Head(down[sock]) = down[sock][1]
        BY <1>1
      <3> QED BY <2>1, <3>1 DEF Quiet
    <2> QED BY <1>1, <1>2, <1>4, <1>6, <2>1, <2>2 DEF AllQuiet, AllSingle
  <1> QED BY <1>5, <1>6

\* Sending a frame adds at most the delivery it is.
LEMMA DownSent ==
    ASSUME TypeOK, NEW e \in Epochs, NEW f \in Frames, NEW o, SendDown(e, f)
    PROVE  /\ ~IsDelivery(f, o) => AddsNone(o)
           /\ AllQuiet(down, o) => AllSingle(down', o)
  <1>1. down \in [Epochs -> Seq(Frames)] /\ down[e] \in Seq(Frames)
    BY DEF TypeOK, ConnectionTypeOK, Frames
  <1>2. CASE down' = down
    <2>1. AllQuiet(down, o) => AllSingle(down, o)
      BY DEF AllQuiet, AllSingle, Quiet, Single
    <2> QED BY <1>2, <2>1, DownCleared
  <1>3. CASE down' = [down EXCEPT ![e] = Append(@, f)]
    <2>1. /\ \A g \in Epochs : g # e => down'[g] = down[g]
          /\ down'[e] = Append(down[e], f)
      BY <1>1, <1>3
    <2>2. /\ Quiet(down[e], o) /\ ~IsDelivery(f, o) => Quiet(Append(down[e], f), o)
          /\ Single(down[e], o) /\ ~IsDelivery(f, o) => Single(Append(down[e], f), o)
          /\ Quiet(down[e], o) => Single(Append(down[e], f), o)
      BY <1>1, FrameSteps
    <2>3. \A g \in Epochs : Quiet(down[g], o) => Single(down[g], o)
      BY DEF Quiet, Single
    <2> QED BY <2>1, <2>2, <2>3 DEF AddsNone, AllQuiet, AllSingle
  <1> QED BY <1>2, <1>3 DEF SendDown

\* A replay-unsafe operation is delivered only when its row is not marked.
LEMMA UnmarkedDelivered ==
    ASSUME NEW o \in Unsafe, NEW row \in Rows, NEW late \in BOOLEAN, NEW stale \in BOOLEAN,
           DispatchVerdict(o, row, late, stale) = Null
    PROVE  ~row.attempted
  BY DEF DispatchVerdict, Null

\* The rows keep their marks.
MarksStay == \A o \in Ops : op[o].attempted => op'[o].attempted

\* A step that writes the row of o and keeps its mark keeps all marks.
LEMMA MarksStayIntro ==
    ASSUME TypeOK, NEW o \in Ops, NEW r, op' = [op EXCEPT ![o] = r],
           op[o].attempted => r.attempted
    PROVE  MarksStay
  BY DEF MarksStay, TypeOK, RelayTypeOK

\* No request takes a mark back.
LEMMA WaiterMarks ==
    ASSUME TypeOK, RowInv, NEW o \in Ops, WaiterNext(o)
    PROVE  MarksStay
  <1>1. op[o] \in Rows /\ published[o] \in Entries
    BY DEF TypeOK, RelayTypeOK
  <1>2. CASE Accept(o)
    <2>1. op[o] = AbsentRow
      BY <1>2 DEF Accept, RowInv
    <2>2. ~op[o].attempted
      <3>1. AbsentRow.attempted = FALSE
        BY DEF AbsentRow
      <3>2. op[o].attempted = FALSE
        BY <2>1, <3>1
      <3> QED BY <3>2, Zenon
    <2>3. PICK e \in 1 .. devEpoch : op' = [op EXCEPT ![o] = CreateOperation(e)]
      BY <1>2 DEF Accept
    <2> QED BY <2>2, <2>3, MarksStayIntro
  <1>3. CASE Dispatch(o)
    <2>1. MarkDispatched(op[o]).attempted = op[o].attempted
      BY <1>1 DEF MarkDispatched, Rows
    <2> QED BY <1>3, <2>1, MarksStayIntro DEF Dispatch
  <1>4. ASSUME NEW c, WaitFails(o, c) PROVE MarksStay
    <2>1. MarkDeliveryFailure(op[o], DeliveryFailure(o, c)).attempted = op[o].attempted
      BY <1>1 DEF MarkDeliveryFailure, Rows
    <2> QED BY <1>4, <2>1, MarksStayIntro DEF WaitFails
  <1>5. CASE op' = [op EXCEPT ![o] = Finish(@, published[o].payload)]
    <2>1. Finish(op[o], published[o].payload).attempted = op[o].attempted
      BY <1>1 DEF Finish, Rows
    <2> QED BY <1>5, <2>1, MarksStayIntro
  <1>6. CASE UNCHANGED op
    BY <1>6 DEF MarksStay
  <1> QED BY <1>2, <1>3, <1>4, <1>5, <1>6
          DEF WaiterNext, Publish, TransportFails, ReadResult, WaiterDies, Deadline

\* What a step keeps of HandedOnce(o) when it neither delivers nor receives o.
LEMMA HandKept ==
    ASSUME NEW o \in Ops, HandedOnce(o), MarksStay, AddsNone(o),
           journal'[o].state = "absent" <=> journal[o].state = "absent",
           rx'.op = o => rx'.pc \notin {"duplicate", "decide"},
           task'[o] \in {"created", "running"} => runs'[o] = 0,
           runs'[o] <= 1
    PROVE  HandedOnce(o)'
  BY DEF HandedOnce, MarksStay, AddsNone

\* The relay's steps, which leave the agent alone.
LEMMA RelayKept ==
    ASSUME NEW o \in Ops, HandedOnce(o), MarksStay, AddsNone(o),
           UNCHANGED <<journal, task, runs, rx>>
    PROVE  HandedOnce(o)'
  BY HandKept DEF HandedOnce

\* The steps of dispatch.py preserve HandInv.
LEMMA WaiterHands ==
    ASSUME TypeOK, RowInv, HandInv, NEW q \in Ops, WaiterNext(q)
    PROVE  HandInv'
  <1>1. UNCHANGED <<down, journal, task, runs, rx>>
    BY DEF WaiterNext, Accept, Dispatch, Publish, TransportFails, ReadResult,
           WaitFails, Answered, WaiterDies, Deadline
  <1>2. MarksStay
    BY WaiterMarks
  <1> QED BY <1>1, <1>2, DownCleared, RelayKept, OpsAssumption DEF HandInv

\* _deliver_operation hands over a replay-unsafe operation only when its row is
\* not marked, and marks it.
LEMMA DeliverHands ==
    ASSUME TypeOK, RowInv, HandInv, NEW e \in Epochs, NEW q \in Ops, Deliver(e, q)
    PROVE  HandInv'
  <1> DEFINE v == DispatchVerdict(q, op[q], q \in elapsed, opLink[q] # link)
  <1> SUFFICES ASSUME NEW o \in Unsafe PROVE HandedOnce(o)'
    BY DEF HandInv
  <1>1. e \in Nat /\ op[q] \in Rows /\ o \in Ops /\ HandedOnce(o)
    BY TunnelAssumption, OpsAssumption DEF Epochs, TypeOK, RelayTypeOK, HandInv
  <1>2. v \in RelayPayloads \cup {Null}
    BY DEF DispatchVerdict, RelayPayloads
  <1>3. UNCHANGED <<journal, task, runs, rx>>
    BY DEF Deliver
  <1>4. CASE op[q].status \notin Nonterminal
    <2>1. UNCHANGED <<op, down>>
      BY <1>4 DEF Deliver
    <2> QED BY <1>1, <1>3, <2>1, DownCleared, RelayKept DEF MarksStay
  <1>5. CASE op[q].status \in Nonterminal
    <2>1. op' = [op EXCEPT ![q] = PrepareDispatch(op[q], e, v)]
      BY <1>5 DEF Deliver
    <2>2. PrepareDispatch(op[q], e, v).attempted = (op[q].attempted \/ v = Null)
      BY <1>1, <1>2 DEF PrepareDispatch, Rows
    <2>3. MarksStay
      BY <2>1, <2>2, MarksStayIntro
    <2>4. CASE v # Null
      <3>1. UNCHANGED down
        BY <1>5, <2>4 DEF Deliver
      <3> QED BY <1>1, <1>3, <2>3, <3>1, DownCleared, RelayKept
    <2>5. CASE v = Null
      <3>1. SendDown(e, OperationFrame(q)) /\ OperationFrame(q) \in Frames
        BY <1>5, <2>5 DEF Deliver, OperationFrame, Frames
      <3>2. CASE q # o
        <4>1. ~IsDelivery(OperationFrame(q), o)
          BY <3>2 DEF IsDelivery, OperationFrame
        <4> QED BY <1>1, <1>3, <2>3, <3>1, <4>1, DownSent, RelayKept
      <3>3. CASE q = o
        <4>1. ~op[o].attempted
          <5>1. DispatchVerdict(o, op[o], o \in elapsed, opLink[o] # link) = Null
            BY <2>5, <3>3
          <5>2. (o \in elapsed) \in BOOLEAN /\ (opLink[o] # link) \in BOOLEAN
            OBVIOUS
          <5>3. op[o] \in Rows
            BY <1>1, <3>3
          <5> QED BY <5>1, <5>2, <5>3, UnmarkedDelivered
        <4>2. AllQuiet(down, o) /\ journal[o].state = "absent"
          BY <1>1, <4>1 DEF HandedOnce
        <4>3. AllSingle(down', o)
          BY <3>1, <4>2, DownSent
        <4>4. op'[o].attempted
          <5>1. op'[o] = PrepareDispatch(op[q], e, v)
            BY <2>1, <3>3 DEF TypeOK, RelayTypeOK
          <5>2. PrepareDispatch(op[q], e, v).attempted = TRUE
            BY <2>2, <2>5, Zenon
          <5> HIDE DEF v
          <5>3. op'[o].attempted = TRUE
            BY <5>1, <5>2
          <5> QED BY <5>3, Zenon
        <4>5. journal'[o].state = "absent"
          BY <1>3, <4>2
        <4>6. /\ rx'.op = o => rx'.pc \notin {"duplicate", "decide"}
              /\ task'[o] \in {"created", "running"} => runs'[o] = 0
              /\ runs'[o] <= 1
          BY <1>1, <1>3 DEF HandedOnce
        <4> QED BY <4>3, <4>4, <4>5, <4>6 DEF HandedOnce
      <3> QED BY <3>2, <3>3
    <2> QED BY <2>4, <2>5
  <1> QED BY <1>4, <1>5

\* The steps of device_websocket preserve HandInv.
LEMMA RelayHands ==
    ASSUME TypeOK, RowInv, HandInv, NEW e \in Epochs, RelayNext(e)
    PROVE  HandInv'
  <1>1. CASE DeliverRecovered(e)
    BY <1>1, DeliverHands DEF DeliverRecovered, TypeOK, ConnectionTypeOK
  <1>2. CASE DeliverFromStream(e)
    <2>1. dispatchStream[cursor[e]] \in Ops
      BY <1>2 DEF DeliverFromStream, TypeOK, RelayTypeOK
    <2> QED BY <1>2, <2>1, DeliverHands DEF DeliverFromStream
  <1>3. CASE RelayReceive(e)
    <2> DEFINE m == Head(up[e])
    <2>1. up[e] \in Seq(Messages) /\ up[e] # <<>>
      BY <1>3 DEF RelayReceive, TypeOK, ConnectionTypeOK
    <2>2. m \in Messages
      BY <2>1
    <2>3. m.op \in Ops /\ op[m.op] \in Rows
      BY <2>2 DEF Messages, TypeOK, RelayTypeOK
    <2>4. UNCHANGED <<down, journal, task, runs, rx>>
      BY <1>3 DEF RelayReceive, Closed
    <2>5. MarksStay
      <3>1. CASE UNCHANGED op
        BY <3>1 DEF MarksStay
      <3>2. CASE op' = [op EXCEPT ![m.op] = RecordDeviceMessage(@, e, m)]
        <4>1. RecordDeviceMessage(op[m.op], e, m).attempted = op[m.op].attempted
          BY <2>3 DEF RecordDeviceMessage, Rows
        <4> QED BY <2>3, <3>2, <4>1, MarksStayIntro
      <3> QED BY <1>3, <3>1, <3>2 DEF RelayReceive, Closed
    <2> QED BY <2>4, <2>5, DownCleared, RelayKept, OpsAssumption DEF HandInv
  <1>4. CASE PublishReply(e)
    <2>1. reply[e][1] \in Ops
      BY <1>4 DEF PublishReply, TypeOK, ConnectionTypeOK
    <2>2. AckFrame(reply[e][1]) \in Frames
      BY <2>1 DEF AckFrame, Frames
    <2>3. \A o : ~IsDelivery(AckFrame(reply[e][1]), o)
      BY DEF AckFrame, IsDelivery
    <2>4. \A o : AddsNone(o)
      BY <1>4, <2>2, <2>3, DownSent DEF PublishReply
    <2>5. UNCHANGED <<op, journal, task, runs, rx>>
      BY <1>4 DEF PublishReply
    <2> QED BY <2>4, <2>5, RelayKept, OpsAssumption DEF HandInv, MarksStay
  <1>5. CASE RelayClose(e) \/ Recover(e) \/ PublishVerdict(e)
    <2>1. UNCHANGED <<op, down, journal, task, runs, rx>>
      BY <1>5 DEF RelayClose, Closed, Recover, PublishVerdict
    <2> QED BY <2>1, DownCleared, RelayKept, OpsAssumption DEF HandInv, MarksStay
  <1> QED BY <1>1, <1>2, <1>3, <1>4, <1>5 DEF RelayNext

\* Connecting, leaving and restarting deliver nothing.
LEMMA SocketHands ==
    ASSUME TypeOK, HandInv, SocketNext
    PROVE  HandInv'
  <1>1. UNCHANGED <<op, journal, runs>>
    BY DEF SocketNext, Connect, ReceiveWelcome, ResetSequence, ReadUnacknowledged,
           Ready, AgentDrop, Restart
  <1>2. rx' = rx \/ rx' = Idle
    BY DEF SocketNext, Connect, ReceiveWelcome, ResetSequence, ReadUnacknowledged,
           Ready, AgentDrop, LeaveSocket, Restart
  <1>3. down' = down \/ down' = [e \in Epochs |-> <<>>]
    BY DEF SocketNext, Connect, ReceiveWelcome, ResetSequence, ReadUnacknowledged,
           Ready, AgentDrop, LeaveSocket, Restart
  <1>4. \A o \in Ops : task'[o] \in {"none", task[o]}
    BY DEF SocketNext, Connect, ReceiveWelcome, ResetSequence, ReadUnacknowledged,
           Ready, AgentDrop, LeaveSocket, Restart
  <1> SUFFICES ASSUME NEW o \in Unsafe PROVE HandedOnce(o)'
    BY DEF HandInv
  <1>5. o \in Ops /\ HandedOnce(o)
    BY OpsAssumption DEF HandInv
  <1>6. rx'.op = o => rx'.pc \notin {"duplicate", "decide"}
    BY <1>2, <1>5 DEF HandedOnce, Idle
  <1> QED BY <1>1, <1>3, <1>4, <1>5, <1>6, DownCleared, HandKept DEF HandedOnce, MarksStay

\* Leaving the socket delivers nothing.
LEMMA LeaveHands ==
    ASSUME TypeOK, HandInv, LeaveSocket, UNCHANGED <<op, journal, task, runs>>
    PROVE  HandInv'
  <1> SUFFICES ASSUME NEW o \in Unsafe PROVE HandedOnce(o)'
    BY DEF HandInv
  <1>1. o \in Ops /\ HandedOnce(o)
    BY OpsAssumption DEF HandInv
  <1>2. rx'.pc \notin {"duplicate", "decide"}
    BY DEF LeaveSocket, Idle
  <1>3. AddsNone(o)
    BY DownCleared DEF LeaveSocket
  <1> QED BY <1>1, <1>2, <1>3, HandKept DEF HandedOnce, MarksStay

\* _receive: the only delivery of a replay-unsafe operation meets no journal entry.
LEMMA OperationHands ==
    ASSUME TypeOK, StartInv, HandInv, NEW q \in Ops, ReceiveOperation(q)
    PROVE  HandInv'
  <1>1. UNCHANGED <<op, task, runs>> /\ Takes("operation", q)
    BY DEF ReceiveOperation, Refuse
  <1>2. CASE LeaveSocket /\ UNCHANGED journal
    BY <1>1, <1>2, LeaveHands
  <1>3. CASE TakeFrame /\ UNCHANGED <<rx, journal>>
    <2>1. \A o : AddsNone(o)
      BY <1>1, <1>3, DownTaken
    <2> QED BY <1>1, <1>3, <2>1, HandKept, OpsAssumption DEF HandInv, HandedOnce, MarksStay
  <1>4. CASE /\ rx' = [pc |-> IF Inserts(journal[q]) THEN "fresh" ELSE "duplicate",
                       op |-> q, prior |-> Null]
             /\ journal' = [journal EXCEPT ![q] = RecordReceived(@, agEpoch)]
             /\ TakeFrame
    <2> SUFFICES ASSUME NEW o \in Unsafe PROVE HandedOnce(o)'
      BY DEF HandInv
    <2>1. o \in Ops /\ HandedOnce(o) /\ journal \in [Ops -> JournalRows]
      BY OpsAssumption DEF HandInv, TypeOK, AgentTypeOK
    <2>2. AddsNone(o)
      BY <1>1, <1>4, DownTaken
    <2>3. CASE q # o
      <3>1. journal'[o] = journal[o] /\ rx'.op # o
        BY <1>4, <2>1, <2>3
      <3> QED BY <1>1, <2>1, <2>2, <3>1, HandKept DEF HandedOnce, MarksStay
    <2>4. CASE q = o
      <3>1. AllQuiet(down', o) /\ AllSingle(down', o)
        BY <1>1, <1>4, <2>1, <2>2, <2>4, DownTaken DEF HandedOnce, AddsNone
      <3>2. ~AllQuiet(down, o)
        <4>1. /\ sock \in Epochs /\ down[sock] \in Seq(Frames) /\ down[sock] # <<>>
              /\ Head(down[sock]).kind = "operation" /\ Head(down[sock]).op = o
          BY <1>1, <2>4 DEF Takes, TypeOK, ConnectionTypeOK, AgentTypeOK, Frames
        <4>2. 1 \in 1 .. Len(down[sock]) /\ Head(down[sock]) = down[sock][1]
          BY <4>1
        <4> QED BY <4>1, <4>2 DEF AllQuiet, Quiet, IsDelivery
      <3>3. op[o].attempted /\ journal[o].state = "absent"
        BY <2>1, <3>2 DEF HandedOnce
      <3>4. rx'.pc = "fresh"
        BY <1>4, <2>4, <3>3 DEF Inserts
      <3>5. op'[o].attempted
        BY <1>1, <3>3
      <3> QED BY <1>1, <2>1, <3>1, <3>4, <3>5 DEF HandedOnce
    <2> QED BY <2>3, <2>4
  <1> QED BY <1>2, <1>3, <1>4 DEF ReceiveOperation, Refuse, Raised

\* A transition keeps an entry where there is one.
LEMMA EntryThere ==
    ASSUME TypeOK, NEW q \in Ops, NEW s \in JournalStates \ {"absent"}, NEW r,
           journal[q].state # "absent",
           \/ UNCHANGED journal
           \/ journal' = [journal EXCEPT ![q] = TransitionOperation(@, s, r)]
    PROVE  \A o \in Ops : journal'[o].state = "absent" <=> journal[o].state = "absent"
  <1>1. journal \in [Ops -> JournalRows]
    BY DEF TypeOK, AgentTypeOK
  <1>2. TransitionOperation(journal[q], s, r).state = s
    BY <1>1 DEF TransitionOperation, JournalRows
  <1>3. CASE journal' = [journal EXCEPT ![q] = TransitionOperation(@, s, r)]
    BY <1>1, <1>2, <1>3
  <1> QED BY <1>3

\* The rest of the receive loop.
LEMMA ReceiveHands ==
    ASSUME TypeOK, StartInv, HandInv, NEW q \in Ops, ReceiveNext(q)
    PROVE  HandInv'
  <1>1. CASE ReceiveOperation(q)
    BY <1>1, OperationHands
  <1>3. ASSUME UNCHANGED <<op, runs>>, \A o : AddsNone(o),
               \A o \in Ops : journal'[o].state = "absent" <=> journal[o].state = "absent",
               \A o \in Unsafe : rx'.op = o => rx'.pc \notin {"duplicate", "decide"},
               \A o \in Unsafe : \/ task'[o] = task[o]
                                 \/ rx.op = o /\ rx.pc = "fresh"
        PROVE  HandInv'
    <2> SUFFICES ASSUME NEW o \in Unsafe PROVE HandedOnce(o)'
      BY DEF HandInv
    <2>1. o \in Ops /\ HandedOnce(o) /\ StartedOnce(o)
      BY OpsAssumption DEF HandInv, StartInv
    <2>2. task'[o] \in {"created", "running"} => runs'[o] = 0
      BY <1>3, <2>1 DEF HandedOnce, StartedOnce
    <2>3. runs'[o] <= 1
      BY <1>3, <2>1 DEF HandedOnce
    <2> QED BY <1>3, <2>1, <2>2, <2>3, HandKept DEF MarksStay
  <1>4. \A o \in Unsafe : rx.op = o => rx.pc \notin {"duplicate", "decide"}
    BY DEF HandInv, HandedOnce
  <1>5. CASE SendReceived(q)
    <2>1. UNCHANGED <<op, runs, journal>>
      BY <1>5 DEF SendReceived
    <2>2. CASE LeaveSocket /\ UNCHANGED task
      BY <2>1, <2>2, LeaveHands
    <2>3. CASE /\ rx.op = q /\ rx.pc = "fresh" /\ rx' = Idle /\ UNCHANGED down
               /\ task' = [task EXCEPT ![q] = "created"]
      <3>1. \A o \in Unsafe : task'[o] = task[o] \/ (rx.op = o /\ rx.pc = "fresh")
        BY <2>3, OpsAssumption DEF TypeOK, AgentTypeOK
      <3>2. rx'.pc = "idle"
        BY <2>3 DEF Idle
      <3> QED BY <1>3, <2>1, <2>3, <3>1, <3>2, DownCleared
    <2>4. CASE /\ rx.op = q /\ rx.pc = "duplicate" /\ UNCHANGED <<task, down>>
               /\ rx' = [rx EXCEPT !.pc = "decide", !.prior = journal[q].result]
      <3>1. q \notin Unsafe /\ rx'.op = q
        BY <1>4, <2>4 DEF TypeOK, AgentTypeOK
      <3> QED BY <1>3, <2>1, <2>4, <3>1, DownCleared
    <2> QED BY <1>5, <2>2, <2>3, <2>4 DEF SendReceived, Raised
  <1>6. CASE Redelivered(q)
    <2>1. UNCHANGED <<op, runs>> /\ q \notin Unsafe /\ rx.op = q
      BY <1>4, <1>6 DEF Redelivered
    <2>2. CASE LeaveSocket /\ UNCHANGED <<journal, task>>
      BY <2>1, <2>2, LeaveHands
    <2>3. CASE ~(LeaveSocket /\ UNCHANGED <<journal, task>>)
      <3>1. UNCHANGED down
        BY <1>6, <2>3 DEF Redelivered, Raised
      <3>2. \A o \in Ops : o # q => task'[o] = task[o]
        BY <1>6 DEF Redelivered, TypeOK, AgentTypeOK
      <3>3. rx' = Idle \/ rx' = [rx EXCEPT !.pc = "uncertain"]
        BY <1>6, <2>3 DEF Redelivered, Raised
      <3>4. rx'.pc \notin {"duplicate", "decide"}
        BY <3>3 DEF Idle, TypeOK, AgentTypeOK
      <3>5. \/ UNCHANGED journal
            \/ journal' = [journal EXCEPT ![q] =
                   TransitionOperation(@, "outcome_unknown", "uncertain")]
        BY <1>6 DEF Redelivered
      <3>6. /\ "outcome_unknown" \in JournalStates \ {"absent"}
            /\ journal[q].state # "absent"
        BY <1>6 DEF Redelivered, StartInv, StartedOnce, JournalStates, JournalTerminal
      <3>7. \A o \in Ops : journal'[o].state = "absent" <=> journal[o].state = "absent"
        BY <3>5, <3>6, EntryThere
      <3> QED BY <1>3, <2>1, <3>1, <3>2, <3>4, <3>7, DownCleared, OpsAssumption
    <2> QED BY <2>2, <2>3
  <1>7. CASE ReceiveAck(q)
    <2>1. UNCHANGED <<op, runs, journal, task>> /\ Takes("ack", q) /\ TakeFrame
      BY <1>7 DEF ReceiveAck
    <2>2. rx'.pc \in {"idle", "ack"}
      BY <1>7 DEF ReceiveAck, Idle
    <2> QED BY <1>3, <2>1, <2>2, DownTaken
  <1>8. CASE MarkAcknowledged(q)
    <2>1. UNCHANGED <<op, runs, down, task>>
      BY <1>8 DEF MarkAcknowledged
    <2>2. \A o \in Ops : journal'[o].state = journal[o].state
      BY <1>8 DEF MarkAcknowledged, AcknowledgeTerminal, TypeOK, AgentTypeOK, JournalRows
    <2>3. rx'.pc = "ack_pop"
      BY <1>8 DEF MarkAcknowledged, TypeOK, AgentTypeOK
    <2> QED BY <1>3, <2>1, <2>2, <2>3, DownCleared
  <1>9. CASE Replay(q) \/ SendUncertain(q) \/ ForgetTerminal(q)
    <2>1. UNCHANGED <<op, runs, task, journal>>
      BY <1>9 DEF Replay, SendUncertain, ForgetTerminal
    <2>2. CASE LeaveSocket
      BY <2>1, <2>2, LeaveHands
    <2>3. CASE ~LeaveSocket
      <3>1. UNCHANGED down /\ (rx' = rx \/ rx' = Idle)
        BY <1>9, <2>3 DEF Replay, SendUncertain, ForgetTerminal, Raised
      <3>2. \A o \in Unsafe : rx'.op = o => rx'.pc \notin {"duplicate", "decide"}
        BY <1>4, <3>1 DEF Idle
      <3> QED BY <1>3, <2>1, <3>1, <3>2, DownCleared
    <2> QED BY <2>2, <2>3
  <1> QED BY <1>1, <1>5, <1>6, <1>7, <1>8, <1>9 DEF ReceiveNext

\* The task of an operation starts its handler once.
LEMMA TaskHands ==
    ASSUME TypeOK, StartInv, HandInv, NEW q \in Ops, TaskNext(q)
    PROVE  HandInv'
  <1> SUFFICES ASSUME NEW o \in Unsafe PROVE HandedOnce(o)'
    BY DEF HandInv
  <1>1. o \in Ops /\ HandedOnce(o) /\ task[q] # "none" /\ UNCHANGED <<op, down, rx>>
    BY OpsAssumption DEF HandInv, TaskNext, TaskBegins, HandlerStarts,
       BudgetElapsesEarly, StartFails, HandlerReturns, JournalTerminalResult, SendResult
  <1>2. journal[q].state # "absent"
    BY <1>1 DEF StartInv, StartedOnce
  <1>3. \A p \in Ops : journal'[p].state = "absent" <=> journal[p].state = "absent"
    <2>1. /\ "running" \in JournalStates \ {"absent"}
          /\ TerminalState(taskResult[q]) \in JournalStates \ {"absent"}
      BY DEF TerminalState, JournalStates, JournalTerminal
    <2>2. CASE TaskBegins(q)
      BY <1>2, <2>1, <2>2, EntryThere DEF TaskBegins
    <2>3. CASE JournalTerminalResult(q)
      BY <1>2, <2>1, <2>3, EntryThere DEF JournalTerminalResult
    <2> QED BY <2>2, <2>3 DEF TaskNext, HandlerStarts, BudgetElapsesEarly, StartFails,
                              HandlerReturns, SendResult
  <1>4. /\ task'[o] \in {"created", "running"} => runs'[o] = 0
        /\ runs'[o] <= 1
    <2>1. CASE HandlerStarts(q)
      BY <1>1, <2>1 DEF HandlerStarts, TaskStep, HandedOnce, TypeOK, AgentTypeOK
    <2>2. CASE ~HandlerStarts(q)
      <3>1. UNCHANGED runs
        BY <2>2 DEF TaskNext, TaskBegins, BudgetElapsesEarly, StartFails,
                    HandlerReturns, JournalTerminalResult, SendResult
      <3>2. task'[o] \in {"created", "running"} => task[o] \in {"created", "running"}
        <4>1. task \in [Ops -> TaskStates]
          BY DEF TypeOK, AgentTypeOK
        <4>2. CASE TaskBegins(q)
          BY <1>1, <4>1, <4>2 DEF TaskBegins, TaskStep
        <4>3. CASE JournalTerminalResult(q)
          BY <1>1, <4>1, <4>3 DEF JournalTerminalResult, TaskStep
        <4> QED BY <1>1, <2>2, <4>1, <4>2, <4>3
                DEF TaskNext, BudgetElapsesEarly, StartFails, TaskStep, HandlerReturns,
                    SendResult
      <3> QED BY <1>1, <3>1, <3>2 DEF HandedOnce
    <2> QED BY <2>1, <2>2
  <1> QED BY <1>1, <1>3, <1>4, DownCleared, HandKept DEF HandedOnce, MarksStay

\* HandInv holds in every reachable state.
LEMMA HandCorrect == Spec => []HandInv
  <1>1. Init => HandInv
    <2> SUFFICES ASSUME Init, NEW o \in Unsafe PROVE HandedOnce(o)
      BY DEF HandInv
    <2>1. o \in Ops
      BY OpsAssumption
    <2>2. journal[o].state = "absent" /\ rx.pc = "idle" /\ task[o] = "none" /\ runs[o] = 0
      BY <2>1 DEF Init, AbsentEntry, Idle
    <2>3. \A e \in Epochs : down[e] = <<>>
      BY DEF Init
    <2>4. Quiet(<<>>, o) /\ Single(<<>>, o)
      BY DEF Quiet, Single
    <2> QED BY <2>2, <2>3, <2>4 DEF HandedOnce, AllQuiet, AllSingle
  <1>2. TypeOK /\ RowInv /\ StartInv /\ HandInv /\ [Next]_vars => HandInv'
    <2> SUFFICES ASSUME TypeOK, RowInv, StartInv, HandInv, [Next]_vars PROVE HandInv'
      OBVIOUS
    <2>1. CASE RotateLink \/ UNCHANGED vars
      <3>1. UNCHANGED <<op, down, journal, task, runs, rx>>
        BY <2>1 DEF RotateLink, vars
      <3> QED BY <3>1, DownCleared, RelayKept, OpsAssumption DEF HandInv, MarksStay
    <2> QED BY <2>1, WaiterHands, RelayHands, SocketHands, ReceiveHands, TaskHands DEF Next
  <1> QED BY <1>1, <1>2, TypeCorrect, RowsCorrect, StartCorrect, PTL DEF Spec

\* The relay alone guarantees that a replay-unsafe operation is started at most
\* once, whatever the agent does with redeliveries (_is_replay_unsafe).
THEOREM UnsafeOperationsRunAtMostOnce == Spec => []NeverRedelivered
  <1>1. HandInv => NeverRedelivered
    BY DEF HandInv, HandedOnce, NeverRedelivered
  <1> QED BY <1>1, HandCorrect, PTL

-----------------------------------------------------------------------------
\* The journal.  transition_operation does not compare results, so what keeps a
\* journaled result is that no task works on an operation whose entry is closed,
\* and that no redelivery of a native action is ever decided upon: the relay has
\* never sent one.  The agent alone would not do: the redelivery may read its
\* prior result before the task journals another one.

EntryOK(entry, t) ==
    /\ entry.result # Null => entry.state \in JournalTerminal
    /\ t \in {"running", "started", "finishing"} => entry.state = "running"

EntryInv ==
    /\ rx.pc # "uncertain"
    /\ \A o \in Ops : EntryOK(journal[o], task[o])

\* A journaled result stays.
ResultStays == \A o \in Ops : journal[o].result # Null => journal'[o].result = journal[o].result

\* A receipt keeps an entry that is as it should be.
LEMMA ReceiptStep ==
    ASSUME NEW entry \in JournalRows, NEW t, EntryOK(entry, t), NEW e \in Nat,
           Inserts(entry) => t = "none"
    PROVE  /\ EntryOK(RecordReceived(entry, e), t)
           /\ entry.result # Null => RecordReceived(entry, e).result = entry.result
           /\ RecordReceived(entry, e).acked = TRUE => entry.acked = TRUE
  <1>1. CASE Inserts(entry)
    <2>1. entry.result = Null /\ t = "none"
      BY <1>1 DEF Inserts, EntryOK, JournalTerminal
    <2>2. RecordReceived(entry, e).result = Null /\ RecordReceived(entry, e).acked = FALSE
      BY <1>1 DEF RecordReceived
    <2> QED BY <2>1, <2>2 DEF EntryOK
  <1>2. CASE ~Inserts(entry)
    <2>1. /\ RecordReceived(entry, e).result = entry.result
          /\ RecordReceived(entry, e).state = entry.state
          /\ RecordReceived(entry, e).acked = entry.acked
      BY <1>2 DEF RecordReceived, JournalRows
    <2> QED BY <2>1 DEF EntryOK
  <1> QED BY <1>1, <1>2

\* So do the other transactions of the journal.
LEMMA EntrySteps ==
    ASSUME NEW entry \in JournalRows, NEW t, EntryOK(entry, t)
    PROVE  /\ AcknowledgeTerminal(entry).state = entry.state
           /\ AcknowledgeTerminal(entry).result = entry.result
           /\ MayTransition(entry, "running") =>
                  /\ entry.result = Null
                  /\ EntryOK(TransitionOperation(entry, "running", Null), "running")
                  /\ TransitionOperation(entry, "running", Null).acked = entry.acked
           /\ t = "finishing" => entry.result = Null
  <1>1. /\ AcknowledgeTerminal(entry).state = entry.state
        /\ AcknowledgeTerminal(entry).result = entry.result
    BY DEF AcknowledgeTerminal, JournalRows
  <1>2. ASSUME MayTransition(entry, "running")
        PROVE  /\ entry.result = Null
               /\ EntryOK(TransitionOperation(entry, "running", Null), "running")
               /\ TransitionOperation(entry, "running", Null).acked = entry.acked
    <2>1. entry.result = Null
      BY <1>2 DEF MayTransition, EntryOK, JournalTerminal
    <2>2. /\ TransitionOperation(entry, "running", Null).result = Null
          /\ TransitionOperation(entry, "running", Null).state = "running"
          /\ TransitionOperation(entry, "running", Null).acked = entry.acked
      BY DEF TransitionOperation, JournalRows, JournalTerminal
    <2> QED BY <2>1, <2>2 DEF EntryOK
  <1>3. t = "finishing" => entry.result = Null
    BY DEF EntryOK, JournalTerminal
  <1> QED BY <1>1, <1>2, <1>3

\* A terminal is written together with its result, and is not acknowledged.
LEMMA TerminalStep ==
    ASSUME NEW entry \in JournalRows, NEW s \in JournalTerminal, NEW p
    PROVE  /\ EntryOK(TransitionOperation(entry, s, p), "sending")
           /\ TransitionOperation(entry, s, p).result = p
           /\ TransitionOperation(entry, s, p).acked = FALSE
  <1>1. /\ TransitionOperation(entry, s, p).result = p
        /\ TransitionOperation(entry, s, p).state = s
        /\ TransitionOperation(entry, s, p).acked = FALSE
    BY DEF TransitionOperation, JournalRows
  <1> QED BY <1>1 DEF EntryOK

\* A step that writes one entry well.
LEMMA EntryWritten ==
    ASSUME TypeOK, EntryInv, NEW q \in Ops, NEW x, rx'.pc # "uncertain",
           journal' = [journal EXCEPT ![q] = x], EntryOK(x, task'[q]),
           journal[q].result # Null => x.result = journal[q].result,
           \A o \in Ops \ {q} : task'[o] = task[o]
    PROVE  EntryInv' /\ ResultStays
  <1>1. journal'[q] = x /\ \A o \in Ops \ {q} : journal'[o] = journal[o]
    BY DEF TypeOK, AgentTypeOK
  <1> QED BY <1>1 DEF EntryInv, ResultStays

\* A step that writes no entry and sets no task to work.
LEMMA EntriesKept ==
    ASSUME EntryInv, UNCHANGED journal, rx'.pc # "uncertain",
           \A o \in Ops : task'[o] \in {"none", "created", "sending", task[o]}
    PROVE  EntryInv' /\ ResultStays
  BY DEF EntryInv, EntryOK, ResultStays

\* The relay and the agent's reconnects write no entry.
LEMMA OthersJournal ==
    ASSUME TypeOK, EntryInv,
           \/ \E o \in Ops : WaiterNext(o)
           \/ \E e \in Epochs : RelayNext(e)
           \/ SocketNext \/ RotateLink \/ UNCHANGED vars
    PROVE  EntryInv' /\ ResultStays
  <1>1. ASSUME NEW o \in Ops, WaiterNext(o)
        PROVE  UNCHANGED <<journal, task, rx>>
    <2>1. CASE Accept(o) \/ Dispatch(o) \/ Publish(o) \/ TransportFails(o)
      BY <2>1 DEF Accept, Dispatch, Publish, TransportFails, WaitFails, Answered
    <2>2. CASE ReadResult(o) \/ WaiterDies(o) \/ Deadline(o)
      BY <2>2 DEF ReadResult, WaiterDies, Deadline, WaitFails, Answered
    <2> QED BY <1>1, <2>1, <2>2 DEF WaiterNext
  <1>2. ASSUME NEW e \in Epochs, RelayNext(e)
        PROVE  UNCHANGED <<journal, task, rx>>
    BY <1>2 DEF RelayNext, RelayClose, RelayReceive, Closed, PublishReply, Recover,
                DeliverRecovered, DeliverFromStream, Deliver, PublishVerdict
  <1>3. ASSUME RotateLink \/ UNCHANGED vars
        PROVE  UNCHANGED <<journal, task, rx>>
    BY <1>3 DEF RotateLink, vars
  <1>4. ASSUME UNCHANGED <<journal, task, rx>>
        PROVE  EntryInv' /\ ResultStays
    BY <1>4, EntriesKept DEF EntryInv
  <1>5. CASE SocketNext
    <2>1. UNCHANGED journal /\ \A o \in Ops : task'[o] \in {"none", task[o]}
      BY <1>5 DEF SocketNext, Connect, ReceiveWelcome, ResetSequence,
                  ReadUnacknowledged, Ready, AgentDrop, Restart
    <2>2. rx' = rx \/ rx' = Idle
      BY <1>5 DEF SocketNext, Connect, ReceiveWelcome, ResetSequence,
                  ReadUnacknowledged, Ready, AgentDrop, LeaveSocket, Restart
    <2>3. rx'.pc # "uncertain"
      BY <2>2 DEF EntryInv, Idle
    <2> QED BY <2>1, <2>3, EntriesKept
  <1> QED BY <1>1, <1>2, <1>3, <1>4, <1>5

\* The receive loop writes receipts and acknowledgements only: a redelivery of a
\* native action is never decided upon.
LEMMA ReceiveJournal ==
    ASSUME Native \subseteq Unsafe, TypeOK, StartInv, HandInv, EntryInv,
           NEW q \in Ops, ReceiveNext(q)
    PROVE  EntryInv' /\ ResultStays
  <1>1. /\ journal \in [Ops -> JournalRows] /\ journal[q] \in JournalRows
        /\ EntryOK(journal[q], task[q]) /\ agEpoch \in Nat /\ rx.pc # "uncertain"
        /\ task \in [Ops -> TaskStates]
        /\ rx \in [pc: RxStates, op: Nat, prior: DevicePayloads \cup {Null}]
    BY DEF TypeOK, AgentTypeOK, EntryInv
  <1>2. CASE ReceiveOperation(q)
    <2>1. CASE UNCHANGED <<journal, task>> /\ (rx' = rx \/ rx' = Idle)
      <3>1. rx'.pc # "uncertain"
        BY <1>1, <2>1 DEF Idle
      <3> QED BY <2>1, <3>1, EntriesKept
    <2>2. CASE /\ rx' = [pc |-> IF Inserts(journal[q]) THEN "fresh" ELSE "duplicate",
                         op |-> q, prior |-> Null]
               /\ journal' = [journal EXCEPT ![q] = RecordReceived(@, agEpoch)]
               /\ UNCHANGED task
      <3>1. Inserts(journal[q]) => task[q] = "none"
        BY DEF StartInv, StartedOnce, Inserts
      <3>2. /\ EntryOK(RecordReceived(journal[q], agEpoch), task[q])
            /\ journal[q].result # Null =>
                   RecordReceived(journal[q], agEpoch).result = journal[q].result
        BY <1>1, <3>1, ReceiptStep
      <3>3. rx'.pc # "uncertain"
        BY <2>2
      <3> QED BY <2>2, <3>2, <3>3, EntryWritten
    <2> QED BY <1>2, <2>1, <2>2 DEF ReceiveOperation, Refuse, Raised, LeaveSocket
  <1>3. CASE SendReceived(q)
    <2>1. UNCHANGED journal /\ \A o \in Ops : task'[o] \in {"created", task[o]}
      BY <1>1, <1>3 DEF SendReceived
    <2>2. rx' = Idle \/ rx' = [rx EXCEPT !.pc = "decide", !.prior = journal[q].result]
      BY <1>3 DEF SendReceived, Raised, LeaveSocket
    <2>3. rx'.pc # "uncertain"
      <3>1. CASE rx' = Idle
        BY <3>1 DEF Idle
      <3>2. CASE rx' = [rx EXCEPT !.pc = "decide", !.prior = journal[q].result]
        BY <1>1, <3>2
      <3> QED BY <2>2, <3>1, <3>2
    <2> QED BY <2>1, <2>3, EntriesKept
  <1>4. CASE Redelivered(q)
    <2>1. q \notin Native
      BY <1>4 DEF Redelivered, HandInv, HandedOnce
    <2>2. UNCHANGED journal /\ \A o \in Ops : task'[o] \in {"created", task[o]}
      BY <1>1, <1>4, <2>1 DEF Redelivered
    <2>3. rx' = Idle
      BY <1>4, <2>1 DEF Redelivered, Raised, LeaveSocket
    <2>4. rx'.pc # "uncertain"
      BY <2>3 DEF Idle
    <2> QED BY <2>2, <2>4, EntriesKept
  <1>5. CASE MarkAcknowledged(q)
    <2>1. /\ journal' = [journal EXCEPT ![q] = AcknowledgeTerminal(@)] /\ UNCHANGED task
          /\ rx'.pc # "uncertain"
      BY <1>1, <1>5 DEF MarkAcknowledged
    <2>2. /\ AcknowledgeTerminal(journal[q]).state = journal[q].state
          /\ AcknowledgeTerminal(journal[q]).result = journal[q].result
      BY <1>1, EntrySteps
    <2>3. EntryOK(AcknowledgeTerminal(journal[q]), task'[q])
      BY <1>1, <2>1, <2>2 DEF EntryOK
    <2> QED BY <2>1, <2>2, <2>3, EntryWritten
  <1>6. CASE ReceiveAck(q)
    <2>1. UNCHANGED <<journal, task>> /\ rx'.pc # "uncertain"
      BY <1>6 DEF ReceiveAck, Idle
    <2> QED BY <2>1, EntriesKept
  <1>7. CASE Replay(q) \/ SendUncertain(q) \/ ForgetTerminal(q)
    <2>1. UNCHANGED <<journal, task>> /\ (rx' = rx \/ rx' = Idle)
      BY <1>7 DEF Replay, SendUncertain, ForgetTerminal, Raised, LeaveSocket
    <2>2. rx'.pc # "uncertain"
      BY <1>1, <2>1 DEF Idle
    <2> QED BY <2>1, <2>2, EntriesKept
  <1> QED BY <1>2, <1>3, <1>4, <1>5, <1>6, <1>7 DEF ReceiveNext

\* A task journals its result in an entry that is open.
LEMMA TaskJournal ==
    ASSUME TypeOK, EntryInv, NEW q \in Ops, TaskNext(q)
    PROVE  EntryInv' /\ ResultStays
  <1>1. /\ journal \in [Ops -> JournalRows] /\ journal[q] \in JournalRows
        /\ EntryOK(journal[q], task[q])
        /\ task \in [Ops -> TaskStates]
    BY DEF TypeOK, AgentTypeOK, EntryInv
  <1>2. UNCHANGED rx /\ rx'.pc # "uncertain"
    BY DEF EntryInv, TaskNext, TaskBegins, HandlerStarts, BudgetElapsesEarly, StartFails,
           HandlerReturns, JournalTerminalResult, SendResult
  <1>3. CASE TaskBegins(q)
    <2>1. CASE MayTransition(journal[q], "running")
      <3>1. /\ journal' = [journal EXCEPT ![q] = TransitionOperation(@, "running", Null)]
            /\ task' = [task EXCEPT ![q] = "running"]
        BY <1>3, <2>1 DEF TaskBegins, TaskStep
      <3>2. /\ journal[q].result = Null
            /\ EntryOK(TransitionOperation(journal[q], "running", Null), "running")
        BY <1>1, <2>1, EntrySteps
      <3>3. task'[q] = "running" /\ \A o \in Ops \ {q} : task'[o] = task[o]
        BY <1>1, <3>1
      <3> QED BY <1>2, <3>1, <3>2, <3>3, EntryWritten
    <2>2. CASE ~MayTransition(journal[q], "running")
      <3>1. UNCHANGED journal /\ \A o \in Ops : task'[o] \in {"none", task[o]}
        BY <1>1, <1>3, <2>2 DEF TaskBegins, TaskStep
      <3> QED BY <1>2, <3>1, EntriesKept
    <2> QED BY <2>1, <2>2
  <1>4. CASE JournalTerminalResult(q)
    <2> DEFINE p == taskResult[q]
    <2>1. CASE MayTransition(journal[q], TerminalState(p))
      <3>1. /\ journal' = [journal EXCEPT ![q] =
                   TransitionOperation(@, TerminalState(p), Durable(p))]
            /\ task' = [task EXCEPT ![q] = "sending"] /\ task[q] = "finishing"
        BY <1>4, <2>1 DEF JournalTerminalResult, TaskStep
      <3>2. TerminalState(p) \in JournalTerminal
        BY DEF TerminalState, JournalTerminal
      <3>3. /\ journal[q].result = Null
            /\ EntryOK(TransitionOperation(journal[q], TerminalState(p), Durable(p)), "sending")
        BY <1>1, <3>1, <3>2, EntrySteps, TerminalStep
      <3>4. task'[q] = "sending" /\ \A o \in Ops \ {q} : task'[o] = task[o]
        BY <1>1, <3>1
      <3> HIDE DEF p
      <3> QED BY <1>2, <3>1, <3>3, <3>4, EntryWritten
    <2>2. CASE ~MayTransition(journal[q], TerminalState(p))
      <3>1. UNCHANGED journal /\ \A o \in Ops : task'[o] \in {"none", task[o]}
        BY <1>1, <1>4, <2>2 DEF JournalTerminalResult, TaskStep
      <3> QED BY <1>2, <3>1, EntriesKept
    <2> QED BY <2>1, <2>2
  <1>5. CASE \/ HandlerStarts(q) \/ BudgetElapsesEarly(q) \/ StartFails(q)
             \/ HandlerReturns(q) \/ SendResult(q)
    <2>1. UNCHANGED journal
      BY <1>5 DEF HandlerStarts, BudgetElapsesEarly, StartFails, HandlerReturns, SendResult
    <2>2. /\ \A o \in Ops \ {q} : task'[o] = task[o]
          /\ \/ task'[q] = "none"
             \/ task[q] \in {"running", "started"}
      BY <1>1, <1>5 DEF HandlerStarts, BudgetElapsesEarly, StartFails, HandlerReturns,
                        SendResult, TaskStep
    <2>3. EntryOK(journal[q], task'[q])
      BY <1>1, <2>2 DEF EntryOK
    <2> QED BY <1>2, <2>1, <2>2, <2>3 DEF EntryInv, ResultStays
  <1> QED BY <1>3, <1>4, <1>5 DEF TaskNext

\* EntryInv is inductive, and every step keeps the journaled results.
LEMMA JournalStep ==
    ASSUME Native \subseteq Unsafe, TypeOK, StartInv, HandInv, EntryInv, [Next]_vars
    PROVE  EntryInv' /\ ResultStays
  BY OthersJournal, ReceiveJournal, TaskJournal DEF Next

\* EntryInv holds in every reachable state.
LEMMA EntriesCorrect ==
    ASSUME Native \subseteq Unsafe
    PROVE  Spec => []EntryInv
  <1>1. Init => EntryInv
    BY DEF Init, EntryInv, EntryOK, AbsentEntry, Idle
  <1>2. TypeOK /\ StartInv /\ HandInv /\ EntryInv /\ [Next]_vars => EntryInv'
    BY JournalStep
  <1> QED BY <1>1, <1>2, TypeCorrect, StartCorrect, HandCorrect, PTL DEF Spec

\* A result once journaled by the agent is never replaced, as long as the relay
\* treats as replay-unsafe whatever the agent treats as native.
THEOREM JournalNeverRewritten ==
    ASSUME Native \subseteq Unsafe
    PROVE  Spec => JournalImmutable
  <1>1. TypeOK /\ StartInv /\ HandInv /\ EntryInv /\ [Next]_vars =>
            [\A o \in Ops : journal[o].result # Null =>
                 journal'[o].result = journal[o].result]_vars
    BY JournalStep DEF ResultStays
  <1> QED BY <1>1, TypeCorrect, StartCorrect, HandCorrect, EntriesCorrect, PTL
          DEF Spec, JournalImmutable

-----------------------------------------------------------------------------
\* An acknowledged terminal is the stored one.  A result travels from the journal
\* through the agent's memory and the socket to the row, and the acknowledgement
\* travels back; AckedIsStored looks at both ends only, so the invariant follows
\* the result and the acknowledgement along the way.

\* p says what the entry of o says, as the relay would store it.
Says(entry, o, p) ==
    /\ entry.result # Null
    /\ Durable(Normalize(o, p)) = Durable(Normalize(o, entry.result))

\* The row of o holds what the entry of o says.
StoredAs(entry, row, o) ==
    entry.result # Null /\ row.result = Durable(Normalize(o, entry.result))

\* A stream to the relay carries p as the result of o; one to the agent carries an
\* acknowledgement of o.
Carries(s, o, p) ==
    \E i \in 1 .. Len(s) : s[i].kind = "result" /\ s[i].op = o /\ s[i].payload = p
Acks(s, o) == \E i \in 1 .. Len(s) : s[i].kind = "ack" /\ s[i].op = o

\* Every copy of a result on its way to the relay ...
ResultTravels(o) ==
    /\ \A e \in Epochs, p \in DevicePayloads :
           Carries(up[e], o, p) => Says(journal[o], o, p)
    /\ pending[o] # Null => Says(journal[o], o, pending[o])
    /\ replayQ[o] # Null => Says(journal[o], o, replayQ[o])
    /\ rx.op = o /\ rx.prior # Null => Says(journal[o], o, rx.prior)
    /\ task[o] = "sending" => Says(journal[o], o, taskResult[o])

\* ... and every acknowledgement on its way back.
AckTravels(o) ==
    /\ \A e \in Epochs : reply[e] # <<>> /\ reply[e][1] = o => StoredAs(journal[o], op[o], o)
    /\ \A e \in Epochs : Acks(down[e], o) => StoredAs(journal[o], op[o], o)
    /\ rx.op = o /\ rx.pc = "ack" => StoredAs(journal[o], op[o], o)
    /\ journal[o].acked = TRUE => StoredAs(journal[o], op[o], o)

TravelInv == \A o \in Ops \ refused : ResultTravels(o) /\ AckTravels(o)

\* What is made durable once is stored alike.
LEMMA DurableTwice ==
    ASSUME NEW o, NEW p
    PROVE  Durable(Normalize(o, Durable(p))) = Durable(Normalize(o, p))
  BY DEF Durable, Normalize

\* What appending and taking do to the results of a stream ...
LEMMA CarrySteps ==
    ASSUME NEW s \in Seq(Messages), NEW x \in Messages, NEW o, NEW p
    PROVE  /\ Carries(Append(s, x), o, p) =>
                  \/ Carries(s, o, p)
                  \/ x.kind = "result" /\ x.op = o /\ x.payload = p
           /\ s # <<>> => /\ Carries(Tail(s), o, p) => Carries(s, o, p)
                          /\ Head(s).kind = "result" /\ Head(s).op = o /\ Head(s).payload = p
                                 => Carries(s, o, p)
  <1>1. /\ Len(Append(s, x)) = Len(s) + 1 /\ Len(s) \in Nat
        /\ \A i \in 1 .. Len(s) : Append(s, x)[i] = s[i]
        /\ Append(s, x)[Len(s) + 1] = x
    OBVIOUS
  <1>2. s # <<>> => /\ Len(Tail(s)) = Len(s) - 1 /\ Len(s) > 0
                    /\ \A i \in 1 .. Len(s) - 1 : Tail(s)[i] = s[i + 1]
                    /\ Head(s) = s[1]
    OBVIOUS
  <1>3. ASSUME Carries(Append(s, x), o, p)
        PROVE  Carries(s, o, p) \/ (x.kind = "result" /\ x.op = o /\ x.payload = p)
    BY <1>1, <1>3 DEF Carries
  <1>4. ASSUME s # <<>>, Carries(Tail(s), o, p) PROVE Carries(s, o, p)
    <2>1. PICK i \in 1 .. Len(Tail(s)) :
              Tail(s)[i].kind = "result" /\ Tail(s)[i].op = o /\ Tail(s)[i].payload = p
      BY <1>4 DEF Carries
    <2>2. i + 1 \in 1 .. Len(s) /\ Tail(s)[i] = s[i + 1]
      BY <1>1, <1>2, <1>4
    <2> QED BY <2>1, <2>2 DEF Carries
  <1>5. ASSUME s # <<>>, Head(s).kind = "result", Head(s).op = o, Head(s).payload = p
        PROVE  Carries(s, o, p)
    BY <1>1, <1>2, <1>5 DEF Carries
  <1> QED BY <1>3, <1>4, <1>5

\* ... and to its acknowledgements.
LEMMA AckSteps ==
    ASSUME NEW s \in Seq(Frames), NEW x \in Frames, NEW o
    PROVE  /\ Acks(Append(s, x), o) => Acks(s, o) \/ (x.kind = "ack" /\ x.op = o)
           /\ s # <<>> => /\ Acks(Tail(s), o) => Acks(s, o)
                          /\ Head(s).kind = "ack" /\ Head(s).op = o => Acks(s, o)
  <1>1. /\ Len(Append(s, x)) = Len(s) + 1 /\ Len(s) \in Nat
        /\ \A i \in 1 .. Len(s) : Append(s, x)[i] = s[i]
        /\ Append(s, x)[Len(s) + 1] = x
    OBVIOUS
  <1>2. s # <<>> => /\ Len(Tail(s)) = Len(s) - 1 /\ Len(s) > 0
                    /\ \A i \in 1 .. Len(s) - 1 : Tail(s)[i] = s[i + 1]
                    /\ Head(s) = s[1]
    OBVIOUS
  <1>3. ASSUME Acks(Append(s, x), o) PROVE Acks(s, o) \/ (x.kind = "ack" /\ x.op = o)
    BY <1>1, <1>3 DEF Acks
  <1>4. ASSUME s # <<>>, Acks(Tail(s), o) PROVE Acks(s, o)
    <2>1. PICK i \in 1 .. Len(Tail(s)) : Tail(s)[i].kind = "ack" /\ Tail(s)[i].op = o
      BY <1>4 DEF Acks
    <2>2. i + 1 \in 1 .. Len(s) /\ Tail(s)[i] = s[i + 1]
      BY <1>1, <1>2, <1>4
    <2> QED BY <2>1, <2>2 DEF Acks
  <1>5. ASSUME s # <<>>, Head(s).kind = "ack", Head(s).op = o PROVE Acks(s, o)
    BY <1>1, <1>2, <1>5 DEF Acks
  <1> QED BY <1>3, <1>4, <1>5

\* A step that brings no result of o on its way except what its entry now says.
ResultStep(o) ==
    /\ \A e \in Epochs, p \in DevicePayloads :
           Carries(up'[e], o, p) => Carries(up[e], o, p) \/ Says(journal'[o], o, p)
    /\ pending'[o] \in {Null, pending[o]} \/ Says(journal'[o], o, pending'[o])
    /\ replayQ'[o] \in {Null, replayQ[o], pending[o]} \/ Says(journal'[o], o, replayQ'[o])
    /\ rx'.op = o => \/ rx.op = o /\ rx'.prior = rx.prior
                     \/ rx'.prior = Null
                     \/ Says(journal'[o], o, rx'.prior)
    /\ \/ task'[o] # "sending"
       \/ task[o] = "sending" /\ taskResult'[o] = taskResult[o]
       \/ Says(journal'[o], o, taskResult'[o])

\* A step that brings no acknowledgement of o on its way unless its result is stored.
AckStep(o) ==
    \/ StoredAs(journal'[o], op'[o], o)
    \/ /\ \A e \in Epochs : reply'[e] # <<>> /\ reply'[e][1] = o => reply'[e] = reply[e]
       /\ \A e \in Epochs : Acks(down'[e], o) => Acks(down[e], o)
       /\ rx'.op = o /\ rx'.pc = "ack" => rx.op = o /\ rx.pc = "ack"
       /\ journal'[o].acked = TRUE => journal[o].acked = TRUE

\* What the journal and the row say once, they go on saying.
LEMMA SaysStays ==
    ASSUME TypeOK, RowInv, ResultStays, [Next]_vars, NEW o \in Ops
    PROVE  /\ \A p : Says(journal[o], o, p) => Says(journal'[o], o, p)
           /\ StoredAs(journal[o], op[o], o) => StoredAs(journal'[o], op'[o], o)
  <1>1. \A p : Says(journal[o], o, p) => Says(journal'[o], o, p)
    BY DEF Says, ResultStays
  <1>2. ASSUME StoredAs(journal[o], op[o], o) PROVE StoredAs(journal'[o], op'[o], o)
    <2>1. journal[o].result \in DevicePayloads
      BY <1>2 DEF StoredAs, TypeOK, AgentTypeOK, JournalRows
    <2>2. Normalize(o, journal[o].result) \in Payloads
      BY <2>1, DeviceTypes
    <2>3. op'[o].result = Durable(Normalize(o, journal[o].result))
      BY <1>2, <2>2, StoredStays DEF StoredAs
    <2> QED BY <1>2, <2>3 DEF StoredAs, ResultStays
  <1> QED BY <1>1, <1>2

\* Such steps preserve what travels.
LEMMA TravelsOn ==
    ASSUME TypeOK, RowInv, ResultStays, [Next]_vars, NEW o \in Ops,
           ResultTravels(o), AckTravels(o), ResultStep(o), AckStep(o)
    PROVE  ResultTravels(o)' /\ AckTravels(o)'
  <1>1. /\ \A p : Says(journal[o], o, p) => Says(journal'[o], o, p)
        /\ StoredAs(journal[o], op[o], o) => StoredAs(journal'[o], op'[o], o)
    BY SaysStays
  <1>2. ResultTravels(o)'
    BY <1>1 DEF ResultTravels, ResultStep
  <1>3. AckTravels(o)'
    BY <1>1 DEF AckTravels, AckStep
  <1> QED BY <1>2, <1>3

\* _send_new puts one envelope on the socket and remembers a terminal.
LEMMA SentStep ==
    ASSUME TypeOK, NEW o \in Ops, NEW q \in Ops, NEW k \in {"received", "started", "result"},
           NEW p \in DevicePayloads \cup {Null},
           IF k = "result" THEN p \in DevicePayloads ELSE p = Null,
           Send(k, q, p) \/ SendRaises(k, q, p),
           k = "result" /\ q = o => Says(journal'[o], o, p)
    PROVE  /\ \A e \in Epochs, r \in DevicePayloads :
                  Carries(up'[e], o, r) => Carries(up[e], o, r) \/ Says(journal'[o], o, r)
           /\ pending'[o] \in {Null, pending[o]} \/ Says(journal'[o], o, pending'[o])
  <1> DEFINE m == [kind |-> k, op |-> q, payload |-> p, epoch |-> agEpoch,
                   seq |-> outSeq + 1]
  <1>1. outSeq \in Nat /\ agEpoch \in Nat /\ up \in [Epochs -> Seq(Messages)]
    BY DEF TypeOK, AgentTypeOK, ConnectionTypeOK
  <1>2. m \in Messages
    BY <1>1 DEF Messages
  <1>3. pending' = IF k = "result" THEN [pending EXCEPT ![q] = p] ELSE pending
    BY DEF Send, SendRaises
  <1>4. pending'[o] \in {Null, pending[o]} \/ Says(journal'[o], o, pending'[o])
    BY <1>3 DEF TypeOK, AgentTypeOK
  <1>5. up' = up \/ up' = [up EXCEPT ![sock] = Append(@, m)]
    BY DEF Send, SendRaises
  <1>6. m.kind = k /\ m.op = q /\ m.payload = p
    OBVIOUS
  <1>7. ASSUME NEW e \in Epochs, NEW r \in DevicePayloads, Carries(up'[e], o, r)
        PROVE  Carries(up[e], o, r) \/ Says(journal'[o], o, r)
    <2>1. up'[e] = up[e] \/ up'[e] = Append(up[e], m)
      BY <1>1, <1>5
    <2>2. up[e] \in Seq(Messages)
      BY <1>1
    <2> HIDE DEF m
    <2>3. Carries(up[e], o, r) \/ (m.kind = "result" /\ m.op = o /\ m.payload = r)
      <3>1. CASE up'[e] = Append(up[e], m)
        <4>1. Carries(Append(up[e], m), o, r)
          BY <1>7, <3>1
        <4> QED BY <1>2, <2>2, <4>1, CarrySteps
      <3> QED BY <1>7, <2>1, <3>1
    <2> QED BY <1>6, <2>3
  <1> QED BY <1>4, <1>7

\* Leaving the socket, or leaving it alone, brings nothing on its way.
LEMMA NothingComes ==
    ASSUME TypeOK, NEW o \in Ops,
           rx' = rx \/ rx' = Idle,
           down' = down \/ down' = [e \in Epochs |-> <<>>]
    PROVE  /\ \A e \in Epochs : Acks(down'[e], o) => Acks(down[e], o)
           /\ rx'.op = o /\ rx'.pc = "ack" => rx.op = o /\ rx.pc = "ack"
           /\ rx'.op = o => \/ rx.op = o /\ rx'.prior = rx.prior
                            \/ rx'.prior = Null
  <1>1. ~Acks(<<>>, o)
    BY DEF Acks
  <1>2. \A e \in Epochs : Acks(down'[e], o) => Acks(down[e], o)
    BY <1>1
  <1>3. /\ rx'.op = o /\ rx'.pc = "ack" => rx.op = o /\ rx.pc = "ack"
        /\ rx'.op = o => \/ rx.op = o /\ rx'.prior = rx.prior
                         \/ rx'.prior = Null
    BY DEF Idle
  <1> QED BY <1>2, <1>3

\* A refusal is never forgotten.
LEMMA RefusedGrows ==
    ASSUME [Next]_vars
    PROVE  refused \subseteq refused'
  <1>1. ASSUME NEW o \in Ops, WaiterNext(o) PROVE UNCHANGED refused
    BY <1>1 DEF WaiterNext, Accept, Dispatch, Publish, TransportFails, ReadResult,
                WaitFails, Answered, WaiterDies, Deadline
  <1>2. ASSUME NEW e \in Epochs, RelayNext(e) PROVE UNCHANGED refused
    BY <1>2 DEF RelayNext, RelayClose, RelayReceive, Closed, PublishReply, Recover,
                DeliverRecovered, DeliverFromStream, Deliver, PublishVerdict
  <1>3. ASSUME SocketNext \/ RotateLink \/ UNCHANGED vars PROVE UNCHANGED refused
    BY <1>3 DEF SocketNext, Connect, ReceiveWelcome, ResetSequence, ReadUnacknowledged,
                Ready, AgentDrop, Restart, RotateLink, vars
  <1>4. ASSUME NEW o \in Ops, TaskNext(o) PROVE UNCHANGED refused
    BY <1>4 DEF TaskNext, TaskBegins, HandlerStarts, BudgetElapsesEarly, StartFails,
                HandlerReturns, JournalTerminalResult, SendResult
  <1>5. ASSUME NEW o \in Ops, ReceiveNext(o) PROVE refused \subseteq refused'
    BY <1>5 DEF ReceiveNext, Replay, ReceiveOperation, Refuse, SendReceived, Redelivered,
                SendUncertain, ReceiveAck, MarkAcknowledged, ForgetTerminal
  <1> QED BY <1>1, <1>2, <1>3, <1>4, <1>5 DEF Next

\* The steps of dispatch.py.
LEMMA WaiterTravels ==
    ASSUME TypeOK, NEW q \in Ops, WaiterNext(q), NEW o \in Ops
    PROVE  ResultStep(o) /\ AckStep(o)
  <1>1. UNCHANGED <<up, down, pending, replayQ, rx, task, taskResult, journal, reply>>
    BY DEF WaiterNext, Accept, Dispatch, Publish, TransportFails, ReadResult,
           WaitFails, Answered, WaiterDies, Deadline
  <1> QED BY <1>1 DEF ResultStep, AckStep

\* Steps of the relay that send no acknowledgement and receive nothing.
LEMMA RelayQuiet ==
    ASSUME TypeOK, NEW o \in Ops,
           \A e \in Epochs, p \in DevicePayloads : Carries(up'[e], o, p) => Carries(up[e], o, p),
           \A e \in Epochs : reply'[e] \in {<<>>, reply[e]},
           \A e \in Epochs : Acks(down'[e], o) => Acks(down[e], o),
           UNCHANGED <<pending, replayQ, rx, task, taskResult, journal>>
    PROVE  ResultStep(o) /\ AckStep(o)
  BY DEF ResultStep, AckStep

\* A frame to the agent acknowledges at most what it acknowledges.
LEMMA DownAcks ==
    ASSUME TypeOK, NEW e \in Epochs, NEW f \in Frames, SendDown(e, f), NEW o \in Ops,
           f.kind = "ack" => f.op # o
    PROVE  \A g \in Epochs : Acks(down'[g], o) => Acks(down[g], o)
  <1>1. down \in [Epochs -> Seq(Frames)] /\ down[e] \in Seq(Frames)
    BY DEF TypeOK, ConnectionTypeOK, Frames
  <1>2. Acks(Append(down[e], f), o) => Acks(down[e], o)
    BY <1>1, AckSteps
  <1> QED BY <1>1, <1>2 DEF SendDown

\* Reading a frame brings no acknowledgement.
LEMMA TakenAcks ==
    ASSUME TypeOK, NEW k, NEW q \in Ops, NEW o \in Ops, Takes(k, q), TakeFrame
    PROVE  \A g \in Epochs : Acks(down'[g], o) => Acks(down[g], o)
  <1>1. /\ down \in [Epochs -> Seq(Frames)]
        /\ sock \in Epochs /\ down[sock] # <<>> /\ down[sock] \in Seq(Frames)
    BY DEF Takes, TypeOK, ConnectionTypeOK, AgentTypeOK, Frames
  <1>2. Head(down[sock]) \in Frames
    BY <1>1
  <1>3. Acks(Tail(down[sock]), o) => Acks(down[sock], o)
    BY <1>1, <1>2, AckSteps
  <1> QED BY <1>1, <1>3 DEF TakeFrame

\* _deliver_operation.
LEMMA DeliverTravels ==
    ASSUME TypeOK, NEW e \in Epochs, NEW q \in Ops, Deliver(e, q), NEW o \in Ops
    PROVE  ResultStep(o) /\ AckStep(o)
  <1>1. UNCHANGED <<up, pending, replayQ, rx, task, taskResult, journal, reply>>
    BY DEF Deliver
  <1>2. OperationFrame(q) \in Frames /\ OperationFrame(q).kind # "ack"
    BY DEF OperationFrame, Frames
  <1>3. UNCHANGED down \/ SendDown(e, OperationFrame(q))
    BY DEF Deliver
  <1>4. \A g \in Epochs : Acks(down'[g], o) => Acks(down[g], o)
    BY <1>2, <1>3, DownAcks
  <1> QED BY <1>1, <1>4, RelayQuiet

\* The steps of device_websocket: the row takes the result before it is
\* acknowledged.
LEMMA RelayTravels ==
    ASSUME TypeOK, RowInv, StoredInv, TravelInv, ResultStays, [Next]_vars,
           NEW e \in Epochs, RelayNext(e), NEW o \in Ops \ refused
    PROVE  ResultStep(o) /\ AckStep(o)
  <1>1. /\ up \in [Epochs -> Seq(Messages)] /\ up[e] \in Seq(Messages)
        /\ reply \in [Epochs -> {<<>>} \cup (Ops \X Payloads)]
        /\ ResultTravels(o) /\ AckTravels(o)
    BY DEF TypeOK, ConnectionTypeOK, TravelInv
  <1>2. ASSUME Closed(e) PROVE ResultStep(o) /\ AckStep(o)
    <2>1. \A p : ~Carries(<<>>, o, p)
      BY DEF Carries
    <2>2. /\ \A f \in Epochs, p \in DevicePayloads : Carries(up'[f], o, p) => Carries(up[f], o, p)
          /\ \A f \in Epochs : reply'[f] \in {<<>>, reply[f]}
          /\ UNCHANGED <<down, pending, replayQ, rx, task, taskResult, journal>>
      BY <1>1, <1>2, <2>1 DEF Closed
    <2> QED BY <2>2, RelayQuiet
  <1>3. CASE RelayReceive(e)
    <2> DEFINE m == Head(up[e])
    <2>1. up[e] # <<>>
      BY <1>3 DEF RelayReceive
    <2>2. m \in Messages
      BY <1>1, <2>1
    <2>3. CASE m.epoch # e \/ RejectsMessage(op[m.op], e, m)
      BY <1>2, <1>3, <2>3 DEF RelayReceive
    <2>4. CASE ~(m.epoch # e \/ RejectsMessage(op[m.op], e, m))
      <3> DEFINE p == Normalize(m.op, m.payload)
      <3>1. /\ op' = [op EXCEPT ![m.op] = RecordDeviceMessage(op[m.op], e, m)]
            /\ up' = [up EXCEPT ![e] = Tail(@)]
            /\ reply' = [reply EXCEPT ![e] =
                   IF m.kind = "result" THEN <<m.op, p>> ELSE <<>>]
            /\ UNCHANGED <<down, pending, replayQ, rx, task, taskResult, journal>>
        BY <1>3, <2>4 DEF RelayReceive
      <3>2. \A r : Carries(Tail(up[e]), o, r) => Carries(up[e], o, r)
        BY <1>1, <2>1, <2>2, CarrySteps
      <3>3. \A f \in Epochs, r \in DevicePayloads : Carries(up'[f], o, r) => Carries(up[f], o, r)
        BY <1>1, <3>1, <3>2
      <3>4. CASE m.kind # "result"
        <4>1. \A f \in Epochs : reply'[f] \in {<<>>, reply[f]}
          BY <1>1, <3>1, <3>4
        <4> QED BY <3>1, <3>3, <4>1, RelayQuiet
      <3>5. CASE m.kind = "result"
        <4>1. m.op \in Ops /\ m.payload \in DevicePayloads
          BY <2>2, <3>5 DEF Messages
        <4>2. ResultStep(o)
          BY <3>1, <3>3 DEF ResultStep
        <4>3. CASE m.op # o
          <5>1. \A f \in Epochs : reply'[f] # <<>> /\ reply'[f][1] = o => reply'[f] = reply[f]
            BY <1>1, <3>1, <3>5, <4>3
          <5> QED BY <3>1, <4>2, <5>1 DEF AckStep
        <4>4. CASE m.op = o
          <5>1. Carries(up[e], o, m.payload)
            BY <1>1, <2>1, <2>2, <3>5, <4>4, CarrySteps
          <5>2. Says(journal[o], o, m.payload)
            BY <1>1, <4>1, <5>1 DEF ResultTravels
          <5>3. e \in Nat /\ op[m.op] \in Rows /\ RowOK(op[m.op]) /\ op \in [Ops -> Rows]
            BY <4>1, TunnelAssumption DEF RowInv, Epochs, TypeOK, RelayTypeOK
          <5>4. op'[o].result = Durable(p)
            BY <2>2, <2>4, <3>1, <3>5, <4>4, <5>3, RecordSettles
          <5>5. StoredAs(journal'[o], op'[o], o)
            BY <3>1, <4>4, <5>2, <5>4 DEF Says, StoredAs
          <5> QED BY <4>2, <5>5 DEF AckStep
        <4> QED BY <4>3, <4>4
      <3> QED BY <3>4, <3>5
    <2> QED BY <2>3, <2>4
  <1>4. CASE PublishReply(e)
    <2>1. /\ UNCHANGED <<op, up, pending, replayQ, rx, task, taskResult, journal>>
          /\ SendDown(e, AckFrame(reply[e][1])) /\ reply[e] # <<>>
          /\ \A f \in Epochs : reply'[f] \in {<<>>, reply[f]}
      BY <1>1, <1>4 DEF PublishReply
    <2>2. reply[e][1] \in Ops
      BY <1>1, <2>1
    <2>3. /\ AckFrame(reply[e][1]) \in Frames
          /\ AckFrame(reply[e][1]).op = reply[e][1]
      BY <2>2 DEF AckFrame, Frames
    <2>4. CASE reply[e][1] # o
      <3>1. \A g \in Epochs : Acks(down'[g], o) => Acks(down[g], o)
        BY <2>1, <2>3, <2>4, DownAcks
      <3> QED BY <2>1, <3>1, RelayQuiet
    <2>5. CASE reply[e][1] = o
      <3>1. StoredAs(journal[o], op[o], o)
        BY <1>1, <2>1, <2>5 DEF AckTravels
      <3>2. ResultStep(o)
        BY <2>1 DEF ResultStep
      <3> QED BY <2>1, <3>1, <3>2 DEF AckStep
    <2> QED BY <2>4, <2>5
  <1>5. CASE DeliverRecovered(e)
    BY <1>5, DeliverTravels DEF DeliverRecovered, TypeOK, ConnectionTypeOK
  <1>6. CASE DeliverFromStream(e)
    <2>1. dispatchStream[cursor[e]] \in Ops
      BY <1>6 DEF DeliverFromStream, TypeOK, RelayTypeOK
    <2> QED BY <1>6, <2>1, DeliverTravels DEF DeliverFromStream
  <1>7. CASE Recover(e) \/ PublishVerdict(e)
    <2>1. UNCHANGED <<up, down, pending, replayQ, rx, task, taskResult, journal, reply>>
      BY <1>7 DEF Recover, PublishVerdict
    <2> QED BY <2>1, RelayQuiet
  <1> QED BY <1>2, <1>3, <1>4, <1>5, <1>6, <1>7 DEF RelayNext, RelayClose

\* Connecting, preparing the replay, leaving and restarting.
LEMMA SocketTravels ==
    ASSUME TypeOK, SocketNext, NEW o \in Ops
    PROVE  ResultStep(o) /\ AckStep(o)
  <1>1. UNCHANGED <<op, up, journal, reply>>
    BY DEF SocketNext, Connect, ReceiveWelcome, ResetSequence, ReadUnacknowledged,
           Ready, AgentDrop, Restart
  <1>2. /\ rx' = rx \/ rx' = Idle
        /\ down' = down \/ down' = [e \in Epochs |-> <<>>]
    BY DEF SocketNext, Connect, ReceiveWelcome, ResetSequence, ReadUnacknowledged,
           Ready, AgentDrop, LeaveSocket, Restart
  <1>3. /\ pending'[o] \in {Null, pending[o]}
        /\ task'[o] # "sending" \/ (task[o] = "sending" /\ taskResult'[o] = taskResult[o])
    BY DEF SocketNext, Connect, ReceiveWelcome, ResetSequence, ReadUnacknowledged,
           Ready, AgentDrop, Restart
  <1>4. replayQ'[o] \in {Null, replayQ[o], pending[o]} \/ Says(journal'[o], o, replayQ'[o])
    <2>1. CASE ReadUnacknowledged
      BY <1>1, <2>1 DEF ReadUnacknowledged, Unacknowledged, Says
    <2>2. CASE ~ReadUnacknowledged
      BY <2>2 DEF SocketNext, Connect, ReceiveWelcome, ResetSequence,
           Ready, AgentDrop, LeaveSocket, Restart, NoReplay
    <2> QED BY <2>1, <2>2
  <1> QED BY <1>1, <1>2, <1>3, <1>4, NothingComes DEF ResultStep, AckStep

\* _receive answers a delivery it refuses without journaling, which is why the
\* operations it refused are set apart.
LEMMA OperationTravels ==
    ASSUME TypeOK, StartInv, EntryInv, NEW q \in Ops, ReceiveOperation(q),
           NEW o \in Ops \ refused'
    PROVE  ResultStep(o) /\ AckStep(o)
  <1>1. UNCHANGED <<op, reply, task, taskResult>>
    BY DEF ReceiveOperation, Refuse
  <1>2. CASE LeaveSocket /\ UNCHANGED <<up, pending, journal>>
    <2>1. /\ rx' = Idle /\ down' = [e \in Epochs |-> <<>>] /\ replayQ'[o] = Null
      BY <1>2 DEF LeaveSocket, NoReplay
    <2> QED BY <1>1, <1>2, <2>1, NothingComes DEF ResultStep, AckStep
  <1>3. ASSUME NEW p \in {"queue_full", "elapsed"}, Refuse(q, p)
        PROVE  ResultStep(o) /\ AckStep(o)
    <2>1. q # o /\ p \in DevicePayloads
      BY <1>3 DEF Refuse, DevicePayloads
    <2>2. Send("result", q, p) \/ SendRaises("result", q, p)
      BY <1>3 DEF Refuse, Raised
    <2>3. /\ \A e \in Epochs, r \in DevicePayloads :
                 Carries(up'[e], o, r) => Carries(up[e], o, r) \/ Says(journal'[o], o, r)
          /\ pending'[o] \in {Null, pending[o]} \/ Says(journal'[o], o, pending'[o])
      BY <2>1, <2>2, SentStep
    <2>4. /\ rx' = rx \/ rx' = Idle
          /\ replayQ'[o] \in {Null, replayQ[o]}
          /\ UNCHANGED journal
      BY <1>3 DEF Refuse, Raised, LeaveSocket, NoReplay
    <2>5. CASE TakeFrame
      <3>1. \A e \in Epochs : Acks(down'[e], o) => Acks(down[e], o)
        BY <2>5, TakenAcks DEF ReceiveOperation
      <3>2. /\ rx'.op = o /\ rx'.pc = "ack" => rx.op = o /\ rx.pc = "ack"
            /\ rx'.op = o => \/ rx.op = o /\ rx'.prior = rx.prior
                             \/ rx'.prior = Null
        BY <2>4 DEF Idle
      <3> QED BY <1>1, <2>3, <2>4, <3>1, <3>2 DEF ResultStep, AckStep
    <2>6. CASE down' = [e \in Epochs |-> <<>>]
      BY <1>1, <2>3, <2>4, <2>6, NothingComes DEF ResultStep, AckStep
    <2> QED BY <1>3, <2>5, <2>6 DEF Refuse, Raised, LeaveSocket
  <1>4. CASE /\ rx' = [pc |-> IF Inserts(journal[q]) THEN "fresh" ELSE "duplicate",
                       op |-> q, prior |-> Null]
             /\ journal' = [journal EXCEPT ![q] = RecordReceived(@, agEpoch)]
             /\ TakeFrame
             /\ UNCHANGED <<up, replayQ, pending>>
    <2>1. \A e \in Epochs : Acks(down'[e], o) => Acks(down[e], o)
      BY <1>4, TakenAcks DEF ReceiveOperation
    <2>2. rx'.pc # "ack" /\ rx'.prior = Null
      BY <1>4
    <2>3. journal'[o].acked = TRUE => journal[o].acked = TRUE
      <3>1. /\ journal \in [Ops -> JournalRows] /\ journal[q] \in JournalRows
            /\ EntryOK(journal[q], task[q]) /\ agEpoch \in Nat
        BY DEF TypeOK, AgentTypeOK, EntryInv
      <3>2. Inserts(journal[q]) => task[q] = "none"
        BY DEF StartInv, StartedOnce, Inserts
      <3>3. RecordReceived(journal[q], agEpoch).acked = TRUE => journal[q].acked = TRUE
        BY <3>1, <3>2, ReceiptStep
      <3> QED BY <1>4, <3>1, <3>3
    <2> QED BY <1>1, <1>4, <2>1, <2>2, <2>3 DEF ResultStep, AckStep
  <1>5. \/ LeaveSocket /\ UNCHANGED <<up, pending, journal>>
        \/ \E p \in {"queue_full", "elapsed"} : Refuse(q, p)
        \/ /\ rx' = [pc |-> IF Inserts(journal[q]) THEN "fresh" ELSE "duplicate",
                     op |-> q, prior |-> Null]
           /\ journal' = [journal EXCEPT ![q] = RecordReceived(@, agEpoch)]
           /\ TakeFrame
           /\ UNCHANGED <<up, replayQ, pending>>
    BY DEF ReceiveOperation
  <1> QED BY <1>2, <1>3, <1>4, <1>5

\* An envelope of the receive loop, sent or not.
LEMMA ReplyTravels ==
    ASSUME TypeOK, NEW q \in Ops, NEW o \in Ops, NEW k \in {"received", "result"},
           NEW p \in DevicePayloads \cup {Null},
           IF k = "result" THEN p \in DevicePayloads ELSE p = Null,
           Send(k, q, p) \/ SendRaises(k, q, p),
           k = "result" /\ q = o => Says(journal[o], o, p),
           UNCHANGED <<reply, journal, taskResult>>,
           task'[o] \in {task[o], "created"},
           replayQ'[o] \in {Null, replayQ[o]},
           rx' = rx \/ rx' = Idle,
           down' = down \/ down' = [e \in Epochs |-> <<>>]
    PROVE  ResultStep(o) /\ AckStep(o)
  <1>1. k \in {"received", "started", "result"}
    OBVIOUS
  <1>2. k = "result" /\ q = o => Says(journal'[o], o, p)
    OBVIOUS
  <1>3. /\ \A e \in Epochs, r \in DevicePayloads :
               Carries(up'[e], o, r) => Carries(up[e], o, r) \/ Says(journal'[o], o, r)
        /\ pending'[o] \in {Null, pending[o]} \/ Says(journal'[o], o, pending'[o])
    BY <1>1, <1>2, SentStep
  <1> QED BY <1>3, NothingComes DEF ResultStep, AckStep

\* The rest of the receive loop.
LEMMA ReceiveTravels ==
    ASSUME Native \subseteq Unsafe, TypeOK, StartInv, HandInv, EntryInv, TravelInv,
           NEW q \in Ops, ReceiveNext(q), NEW o \in Ops \ refused'
    PROVE  ResultStep(o) /\ AckStep(o)
  <1>1. refused \subseteq refused'
    BY DEF ReceiveNext, Replay, ReceiveOperation, Refuse, SendReceived, Redelivered,
           SendUncertain, ReceiveAck, MarkAcknowledged, ForgetTerminal
  <1>2. o \in Ops /\ ResultTravels(o) /\ AckTravels(o)
    BY <1>1 DEF TravelInv
  <1>3. /\ replayQ \in [Ops -> DevicePayloads \cup {Null}]
        /\ pending \in [Ops -> DevicePayloads \cup {Null}]
        /\ rx \in [pc: RxStates, op: Nat, prior: DevicePayloads \cup {Null}]
        /\ task \in [Ops -> TaskStates] /\ journal \in [Ops -> JournalRows]
    BY DEF TypeOK, AgentTypeOK
  <1>4. CASE ReceiveOperation(q)
    BY <1>4, OperationTravels
  <1>5. CASE Replay(q)
    <2>1. /\ Send("result", q, replayQ[q]) \/ SendRaises("result", q, replayQ[q])
          /\ replayQ[q] # Null /\ UNCHANGED <<reply, journal, taskResult, task>>
          /\ rx' = rx \/ rx' = Idle
          /\ down' = down \/ down' = [e \in Epochs |-> <<>>]
      BY <1>5 DEF Replay, Raised, LeaveSocket
    <2>2. replayQ'[o] \in {Null, replayQ[o]}
      BY <1>3, <1>5 DEF Replay, Raised, LeaveSocket, NoReplay
    <2>3. replayQ[q] \in DevicePayloads /\ (q = o => Says(journal[o], o, replayQ[q]))
      BY <1>2, <1>3, <2>1 DEF ResultTravels
    <2> QED BY <1>2, <2>1, <2>2, <2>3, ReplyTravels
  <1>6. CASE SendReceived(q)
    <2>1. /\ Send("received", q, Null) \/ SendRaises("received", q, Null)
          /\ UNCHANGED <<reply, journal, taskResult>>
          /\ down' = down \/ down' = [e \in Epochs |-> <<>>]
          /\ task'[o] \in {task[o], "created"}
          /\ replayQ'[o] \in {Null, replayQ[o]}
      BY <1>2, <1>3, <1>6 DEF SendReceived, Raised, LeaveSocket, NoReplay
    <2>2. CASE rx' = Idle
      BY <1>2, <2>1, <2>2, ReplyTravels
    <2>3. CASE rx' = [rx EXCEPT !.pc = "decide", !.prior = journal[q].result]
      <3>1. rx'.pc # "ack" /\ rx'.op = rx.op /\ rx'.prior = journal[q].result /\ rx.op = q
        BY <1>3, <1>6, <2>3 DEF SendReceived
      <3>2. rx'.op = o => rx'.prior = Null \/ Says(journal'[o], o, rx'.prior)
        BY <2>1, <3>1 DEF Says
      <3>3. /\ \A e \in Epochs, r \in DevicePayloads :
                   Carries(up'[e], o, r) => Carries(up[e], o, r) \/ Says(journal'[o], o, r)
            /\ pending'[o] \in {Null, pending[o]} \/ Says(journal'[o], o, pending'[o])
        BY <1>2, <2>1, SentStep
      <3>4. \A e \in Epochs : Acks(down'[e], o) => Acks(down[e], o)
        <4>1. ~Acks(<<>>, o)
          BY DEF Acks
        <4> QED BY <2>1, <4>1
      <3> QED BY <2>1, <3>1, <3>2, <3>3, <3>4 DEF ResultStep, AckStep
    <2> QED BY <1>6, <2>2, <2>3 DEF SendReceived, Raised, LeaveSocket
  <1>7. CASE Redelivered(q)
    <2>1. q \notin Native
      BY <1>7 DEF Redelivered, HandInv, HandedOnce
    <2>2. /\ UNCHANGED <<reply, journal, taskResult>> /\ rx' = Idle /\ rx.op = q
          /\ down' = down \/ down' = [e \in Epochs |-> <<>>]
          /\ task'[o] \in {task[o], "created"}
          /\ replayQ'[o] \in {Null, replayQ[o]}
      BY <1>2, <1>3, <1>7, <2>1 DEF Redelivered, Raised, LeaveSocket, NoReplay
    <2>3. CASE rx.prior = Null
      <3>1. UNCHANGED <<up, pending>>
        BY <1>7, <2>3 DEF Redelivered
      <3> QED BY <1>2, <2>2, <3>1, NothingComes DEF ResultStep, AckStep
    <2>4. CASE rx.prior # Null
      <3>1. Send("result", q, rx.prior) \/ SendRaises("result", q, rx.prior)
        BY <1>7, <2>4 DEF Redelivered, Raised
      <3>2. rx.prior \in DevicePayloads /\ (q = o => Says(journal[o], o, rx.prior))
        BY <1>2, <1>3, <2>2, <2>4 DEF ResultTravels
      <3> QED BY <1>2, <2>2, <3>1, <3>2, ReplyTravels
    <2> QED BY <2>3, <2>4
  <1>8. CASE ReceiveAck(q)
    <2>1. /\ UNCHANGED <<op, up, reply, journal, taskResult, task, pending, replayQ>>
          /\ Takes("ack", q) /\ TakeFrame
          /\ rx' = Idle \/ rx' = [pc |-> "ack", op |-> q, prior |-> Null]
      BY <1>8 DEF ReceiveAck
    <2>2. rx'.prior = Null
      BY <2>1 DEF Idle
    <2>3. ResultStep(o)
      BY <2>1, <2>2 DEF ResultStep
    <2>4. \A e \in Epochs : Acks(down'[e], o) => Acks(down[e], o)
      BY <1>2, <2>1, TakenAcks
    <2>5. rx'.op = o /\ rx'.pc = "ack" => \E e \in Epochs : Acks(down[e], o)
      <3>1. /\ sock \in Epochs /\ down[sock] \in Seq(Frames) /\ down[sock] # <<>>
            /\ Head(down[sock]).kind = "ack" /\ Head(down[sock]).op = q
        BY <2>1 DEF Takes, TypeOK, ConnectionTypeOK, AgentTypeOK, Frames
      <3>2. Head(down[sock]) \in Frames
        BY <3>1
      <3>3. Acks(down[sock], q)
        BY <3>1, <3>2, AckSteps
      <3> QED BY <2>1, <3>1, <3>3 DEF Idle
    <2> QED BY <1>2, <2>1, <2>3, <2>4, <2>5 DEF AckTravels, AckStep
  <1>9. CASE MarkAcknowledged(q)
    <2>1. /\ UNCHANGED <<op, up, down, reply, taskResult, task, pending, replayQ>>
          /\ rx.op = q /\ rx.pc = "ack" /\ rx'.pc # "ack"
          /\ rx'.op = rx.op /\ rx'.prior = rx.prior
          /\ journal' = [journal EXCEPT ![q] = AcknowledgeTerminal(@)]
      BY <1>3, <1>9 DEF MarkAcknowledged
    <2>2. ResultStep(o)
      BY <2>1 DEF ResultStep
    <2>3. CASE q # o
      <3>1. journal'[o] = journal[o]
        BY <1>2, <1>3, <2>1, <2>3
      <3> QED BY <2>1, <2>2, <3>1 DEF AckStep
    <2>4. CASE q = o
      <3>1. journal'[o].result = journal[o].result
        BY <1>2, <1>3, <2>1, <2>4 DEF AcknowledgeTerminal, JournalRows
      <3>2. StoredAs(journal[o], op[o], o)
        BY <1>2, <2>1, <2>4 DEF AckTravels
      <3>3. StoredAs(journal'[o], op'[o], o)
        BY <2>1, <3>1, <3>2 DEF StoredAs
      <3> QED BY <2>2, <3>3 DEF AckStep
    <2> QED BY <2>3, <2>4
  <1>10. CASE ForgetTerminal(q)
    <2>1. /\ UNCHANGED <<op, up, down, reply, journal, taskResult, task, replayQ>>
          /\ rx' = Idle /\ pending'[o] \in {Null, pending[o]}
      BY <1>2, <1>3, <1>10 DEF ForgetTerminal
    <2> QED BY <1>2, <2>1, NothingComes DEF ResultStep, AckStep
  <1>11. ~SendUncertain(q)
    BY DEF SendUncertain, EntryInv
  <1> QED BY <1>4, <1>5, <1>6, <1>7, <1>8, <1>9, <1>10, <1>11 DEF ReceiveNext

\* The task sends what it has journaled.
LEMMA TaskTravels ==
    ASSUME TypeOK, EntryInv, TravelInv, NEW q \in Ops, TaskNext(q), NEW o \in Ops \ refused
    PROVE  ResultStep(o) /\ AckStep(o)
  <1>1. /\ task \in [Ops -> TaskStates] /\ journal \in [Ops -> JournalRows]
        /\ taskResult \in [Ops -> DevicePayloads \cup {Null}]
        /\ o \in Ops /\ ResultTravels(o) /\ AckTravels(o)
        /\ journal[q] \in JournalRows /\ EntryOK(journal[q], task[q])
    BY DEF TypeOK, AgentTypeOK, TravelInv, EntryInv
  <1>2. UNCHANGED <<op, down, rx, replayQ, reply>>
    BY DEF TaskNext, TaskBegins, HandlerStarts, BudgetElapsesEarly, StartFails,
           HandlerReturns, JournalTerminalResult, SendResult
  <1>3. CASE TaskBegins(q)
    <2>1. UNCHANGED <<up, pending, taskResult>> /\ (task'[o] = "sending" => task'[o] = task[o])
      BY <1>1, <1>3 DEF TaskBegins, TaskStep
    <2>2. journal'[o].acked = TRUE => journal[o].acked = TRUE
      <3>1. MayTransition(journal[q], "running") =>
                TransitionOperation(journal[q], "running", Null).acked = journal[q].acked
        BY <1>1, EntrySteps
      <3> QED BY <1>1, <1>3, <3>1 DEF TaskBegins
    <2> QED BY <1>2, <2>1, <2>2 DEF ResultStep, AckStep
  <1>4. CASE JournalTerminalResult(q)
    <2> DEFINE p == taskResult[q]
    <2>1. UNCHANGED <<up, pending>>
      BY <1>4 DEF JournalTerminalResult
    <2>2. CASE MayTransition(journal[q], TerminalState(p))
      <3>1. /\ journal' = [journal EXCEPT ![q] =
                   TransitionOperation(@, TerminalState(p), Durable(p))]
            /\ task' = [task EXCEPT ![q] = "sending"] /\ task[q] = "finishing"
            /\ UNCHANGED taskResult
        BY <1>4, <2>2 DEF JournalTerminalResult, TaskStep
      <3>2. TerminalState(p) \in JournalTerminal
        BY DEF TerminalState, JournalTerminal
      <3>3. /\ TransitionOperation(journal[q], TerminalState(p), Durable(p)).result = Durable(p)
            /\ TransitionOperation(journal[q], TerminalState(p), Durable(p)).acked = FALSE
        BY <1>1, <3>2, TerminalStep
      <3>4. Durable(p) # Null
        BY <1>4 DEF JournalTerminalResult, Durable, Null, TypeOK, AgentTypeOK
      <3>5. Durable(Normalize(q, Durable(p))) = Durable(Normalize(q, p))
        BY DurableTwice
      <3>6. journal'[q].result = Durable(p) /\ journal'[q].acked = FALSE
        BY <1>1, <3>1, <3>3
      <3>7. Says(journal'[q], q, p)
        BY <3>4, <3>5, <3>6 DEF Says
      <3>8. q # o => journal'[o] = journal[o] /\ task'[o] = task[o]
        BY <1>1, <3>1
      <3>9. ResultStep(o)
        BY <1>2, <2>1, <3>1, <3>7, <3>8 DEF ResultStep
      <3>10. journal'[o].acked = TRUE => journal[o].acked = TRUE
        BY <3>6, <3>8
      <3> QED BY <1>2, <3>9, <3>10 DEF AckStep
    <2>3. CASE ~MayTransition(journal[q], TerminalState(p))
      <3>1. /\ UNCHANGED journal
            /\ task'[o] = "sending" => task'[o] = task[o] /\ taskResult'[o] = taskResult[o]
        BY <1>1, <1>4, <2>3 DEF JournalTerminalResult, TaskStep
      <3> QED BY <1>2, <2>1, <3>1 DEF ResultStep, AckStep
    <2> QED BY <2>2, <2>3
  <1>5. ASSUME NEW k \in {"started", "result"}, NEW p \in DevicePayloads \cup {Null},
               IF k = "result" THEN p \in DevicePayloads ELSE p = Null,
               Send(k, q, p) \/ SendRaises(k, q, p),
               k = "result" /\ q = o => Says(journal[o], o, p),
               UNCHANGED journal,
               task'[o] = "sending" => task'[o] = task[o] /\ taskResult'[o] = taskResult[o]
        PROVE  ResultStep(o) /\ AckStep(o)
    <2>1. k \in {"received", "started", "result"}
      BY <1>5
    <2>2. k = "result" /\ q = o => Says(journal'[o], o, p)
      BY <1>5
    <2>3. /\ \A e \in Epochs, r \in DevicePayloads :
                 Carries(up'[e], o, r) => Carries(up[e], o, r) \/ Says(journal'[o], o, r)
          /\ pending'[o] \in {Null, pending[o]} \/ Says(journal'[o], o, pending'[o])
      BY <1>1, <1>5, <2>1, <2>2, SentStep
    <2> QED BY <1>2, <1>5, <2>3 DEF ResultStep, AckStep
  <1>6. CASE SendResult(q)
    <2>1. /\ Send("result", q, taskResult[q]) \/ SendRaises("result", q, taskResult[q])
          /\ UNCHANGED journal /\ task[q] = "sending"
          /\ task'[o] = "sending" => task'[o] = task[o] /\ taskResult'[o] = taskResult[o]
      BY <1>1, <1>6 DEF SendResult, TaskStep
    <2>2. taskResult[q] \in DevicePayloads /\ (q = o => Says(journal[o], o, taskResult[q]))
      BY <1>1, <2>1 DEF ResultTravels, TypeOK, AgentTypeOK
    <2> QED BY <1>5, <2>1, <2>2
  <1>7. CASE HandlerStarts(q) \/ StartFails(q)
    <2>1. /\ Send("started", q, Null) \/ SendRaises("started", q, Null)
          /\ UNCHANGED journal
          /\ task'[o] = "sending" => task'[o] = task[o] /\ taskResult'[o] = taskResult[o]
      BY <1>1, <1>7 DEF HandlerStarts, StartFails, TaskStep
    <2> QED BY <1>5, <2>1
  <1>8. CASE BudgetElapsesEarly(q) \/ HandlerReturns(q)
    <2>1. /\ UNCHANGED <<up, pending, journal>>
          /\ task'[o] = "sending" => task'[o] = task[o] /\ taskResult'[o] = taskResult[o]
      BY <1>1, <1>8 DEF BudgetElapsesEarly, HandlerReturns, TaskStep
    <2> QED BY <1>2, <2>1 DEF ResultStep, AckStep
  <1> QED BY <1>3, <1>4, <1>6, <1>7, <1>8 DEF TaskNext

\* A terminal whose journal entry is acknowledged is the result the relay has
\* stored, so the agent never gives up a result that the relay does not have; the
\* relay treats as replay-unsafe whatever the agent treats as native.
THEOREM AcknowledgedIsStored ==
    ASSUME Native \subseteq Unsafe
    PROVE  Spec => []AckedIsStored
  <1>1. Init => TravelInv
    <2> SUFFICES ASSUME Init, NEW o \in Ops PROVE ResultTravels(o) /\ AckTravels(o)
      BY DEF TravelInv
    <2>1. /\ pending[o] = Null /\ replayQ[o] = Null /\ task[o] = "none"
          /\ rx.prior = Null /\ rx.pc = "idle" /\ journal[o].acked = FALSE
          /\ \A e \in Epochs : up[e] = <<>> /\ down[e] = <<>> /\ reply[e] = <<>>
      BY DEF Init, NoReplay, Idle, AbsentEntry
    <2>2. ~Acks(<<>>, o) /\ \A p : ~Carries(<<>>, o, p)
      BY DEF Acks, Carries
    <2> QED BY <2>1, <2>2 DEF ResultTravels, AckTravels
  <1>2. TypeOK /\ RowInv /\ StartInv /\ HandInv /\ EntryInv /\ StoredInv /\ TravelInv
            /\ [Next]_vars => TravelInv'
    <2> SUFFICES ASSUME TypeOK, RowInv, StartInv, HandInv, EntryInv, StoredInv, TravelInv,
                        [Next]_vars, NEW o \in Ops \ refused'
                 PROVE  ResultTravels(o)' /\ AckTravels(o)'
      BY DEF TravelInv
    <2>1. ResultStays
      BY JournalStep
    <2>2. refused \subseteq refused'
      BY RefusedGrows
    <2>3. o \in Ops /\ o \notin refused /\ ResultTravels(o) /\ AckTravels(o)
      BY <2>2 DEF TravelInv
    <2>4. ResultStep(o) /\ AckStep(o)
      <3>1. CASE RotateLink \/ UNCHANGED vars
        <4>1. UNCHANGED <<up, down, pending, replayQ, rx, task, taskResult, journal, reply>>
          BY <3>1 DEF RotateLink, vars
        <4> QED BY <2>3, <4>1, RelayQuiet
      <3> QED BY <2>1, <2>3, <3>1, WaiterTravels, RelayTravels, SocketTravels,
                 ReceiveTravels, TaskTravels DEF Next
    <2> QED BY <2>1, <2>3, <2>4, TravelsOn
  <1>3. TypeOK /\ TravelInv => AckedIsStored
    BY DEF TravelInv, AckTravels, StoredAs, AckedIsStored, TypeOK, AgentTypeOK, JournalRows
  <1>4. Spec => []StoredInv
    BY StoredCorrect
  <1> QED BY <1>1, <1>2, <1>3, <1>4, TypeCorrect, RowsCorrect, StartCorrect, HandCorrect,
             EntriesCorrect, PTL DEF Spec
=============================================================================
