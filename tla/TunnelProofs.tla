---------------------------- MODULE TunnelProofs ----------------------------
(***************************************************************************)
(* Theorems about Tunnel, for every set of operations, every partition     *)
(* into repeatable and native ones and every bound.  First what the        *)
(* transactions on an Operation row and on a journal entry preserve, for   *)
(* every operation and every message.                                      *)
(***************************************************************************)
EXTENDS Tunnel, TLAPS

USE DEF relayVars, waitVars, connVars, sockVars, taskVars,
        SessionTypeOK, TaskTypeOK

\* Every payload has one of the error codes, and keeps to the payloads when
\* it is normalized or made durable.
LEMMA PayloadTypes ==
    ASSUME NEW o \in Ops, NEW p \in Payloads
    PROVE  /\ ErrorCode(p) \in ErrorCodes
           /\ Durable(p) \in Payloads
           /\ Normalize(o, p) \in Payloads
           /\ ResultStatus(o, p) \in TerminalStatuses
  BY DEF ErrorCode, ErrorCodes, Durable, Normalize, ResultStatus, Payloads,
         DevicePayloads, RelayPayloads, TerminalStatuses

\* The transactions of the waiting request keep a row's type.
LEMMA WaiterRowTypes ==
    ASSUME NEW o \in Ops, NEW row \in Rows, NEW p \in Payloads,
           NEW c \in ErrorCodes, NEW e \in Nat
    PROVE  /\ CreateOperation(e) \in Rows
           /\ MarkDispatched(row) \in Rows
           /\ Finish(row, p) \in Rows
           /\ DeliveryFailure(o, c) \in ErrorCodes
           /\ MarkDeliveryFailure(row, c) \in Rows
  <1>1. Durable(p) \in Payloads /\ ErrorCode(p) \in ErrorCodes
    BY PayloadTypes
  <1>2. CreateOperation(e) \in Rows
    BY DEF CreateOperation, AbsentRow, Rows, Statuses, Nonterminal, ErrorCodes, Null
  <1>3. MarkDispatched(row) \in Rows
    BY DEF MarkDispatched, Rows, Statuses, Nonterminal
  <1>4. Finish(row, p) \in Rows
    BY <1>1 DEF Finish, Rows, Statuses, TerminalStatuses
  <1>5. DeliveryFailure(o, c) \in ErrorCodes
    BY DEF DeliveryFailure, ErrorCodes
  <1>6. MarkDeliveryFailure(row, c) \in Rows
    BY DEF MarkDeliveryFailure, Rows, Statuses, TerminalStatuses
  <1> QED BY <1>2, <1>3, <1>4, <1>5, <1>6

\* So do the transactions of the device connection.
LEMMA PrepareTypes ==
    ASSUME NEW row \in Rows, NEW e \in Nat, NEW v \in RelayPayloads \cup {Null}
    PROVE  PrepareDispatch(row, e, v) \in Rows
  BY ZenonT(60) DEF PrepareDispatch, Rows, Statuses, Nonterminal, TerminalStatuses,
         ErrorCodes, ErrorCode, VerdictStatus, VerdictError, Payloads,
         RelayPayloads, Null

\* The rows written by _record_device_message are rows.
LEMMA ConnectionRowTypes ==
    ASSUME NEW row \in Rows, NEW m \in Messages, NEW e \in Nat
    PROVE  RecordDeviceMessage(row, e, m) \in Rows
  <1> DEFINE p == Normalize(m.op, m.payload)
  <1> DEFINE marked == [row EXCEPT !.epoch = e, !.seq = m.seq, !.seqEpoch = e]
  <1>1. marked \in Rows
    BY DEF Rows, Messages
  <1>2. CASE m.kind = "result"
    <2>1. m.payload \in Payloads
      BY <1>2 DEF Messages, Payloads
    <2>2. p \in Payloads /\ m.op \in Ops
      BY <2>1, PayloadTypes DEF Messages
    <2>3. /\ ResultStatus(m.op, p) \in TerminalStatuses
          /\ Durable(p) \in Payloads /\ ErrorCode(p) \in ErrorCodes
      BY <2>2, PayloadTypes
    <2>4. [marked EXCEPT !.status = ResultStatus(m.op, p),
                         !.result = Durable(p), !.error = ErrorCode(p)] \in Rows
      BY <1>1, <2>3 DEF Rows, Statuses
    <2> QED BY <1>2, <2>4 DEF RecordDeviceMessage
  <1>3. CASE m.kind # "result"
    <2> DEFINE s == IF m.kind = "started" THEN "running" ELSE "received"
    <2>1. Advance(row.status, s) \in Statuses
      BY DEF Advance, Rows, Statuses, Nonterminal
    <2>2. [marked EXCEPT !.status = Advance(row.status, s)] \in Rows
      BY <1>1, <2>1 DEF Rows
    <2>3. marked.status = row.status
      BY DEF Rows
    <2> QED BY <1>3, <2>2, <2>3 DEF RecordDeviceMessage
  <1> QED BY <1>2, <1>3

\* The journal's transactions keep an entry's type.
LEMMA JournalTypes ==
    ASSUME NEW entry \in JournalRows, NEW e \in Nat, NEW s \in JournalStates,
           NEW r \in DevicePayloads \cup {Null}
    PROVE  /\ RecordReceived(entry, e) \in JournalRows
           /\ TransitionOperation(entry, s, r) \in JournalRows
           /\ AcknowledgeTerminal(entry) \in JournalRows
  BY DEF RecordReceived, TransitionOperation, AcknowledgeTerminal, Inserts,
         JournalRows, JournalStates, JournalTerminal

-----------------------------------------------------------------------------
\* A row whose result is stored is closed: the fact on which all of the
\* following rests.
RowOK(row) == row.result # Null => Terminal(row)

\* What a transaction may do to a row: a stored result stays, and a closed row
\* changes only by taking its first result.
Settles(row, new) ==
    /\ RowOK(new)
    /\ row.result # Null => new.result = row.result
    /\ Terminal(row) /\ new # row =>
           row.result = Null /\ new.result # Null /\ Terminal(new)

\* The transactions of a waiting request keep to it.
LEMMA WaiterSettles ==
    ASSUME NEW row \in Rows, NEW p \in Payloads, NEW c \in ErrorCodes, RowOK(row)
    PROVE  /\ Settles(row, MarkDispatched(row))
           /\ Settles(row, MarkDeliveryFailure(row, c))
           /\ Settles(row, Finish(row, p))
           /\ MarkDispatched(row).epoch = row.epoch
           /\ MarkDeliveryFailure(row, c).epoch = row.epoch
           /\ Finish(row, p).epoch = row.epoch
  BY DEF RowOK, Settles, Terminal, MarkDispatched, MarkDeliveryFailure, Finish,
         Rows, Nonterminal, TerminalStatuses, Statuses

\* So does recording a device message that is not rejected.
LEMMA RecordSettles ==
    ASSUME NEW row \in Rows, NEW m \in Messages, NEW e \in Nat, RowOK(row),
           ~RejectsMessage(row, e, m)
    PROVE  /\ Settles(row, RecordDeviceMessage(row, e, m))
           /\ RecordDeviceMessage(row, e, m).epoch \in {row.epoch, e}
           /\ m.kind = "result" => RecordDeviceMessage(row, e, m).result
                                       = Durable(Normalize(m.op, m.payload))
  <1> DEFINE p == Normalize(m.op, m.payload)
  <1>1. CASE m.kind = "result"
    <2>1. m.payload \in Payloads /\ m.op \in Ops
      BY <1>1 DEF Messages, Payloads
    <2>2. p \in Payloads
      BY <2>1, PayloadTypes
    <2>3. ResultStatus(m.op, p) \in TerminalStatuses /\ Durable(p) \in Payloads
      BY <2>1, <2>2, PayloadTypes
    <2>4. Durable(p) # Null
      BY <2>3 DEF Payloads, DevicePayloads, RelayPayloads, Null
    <2>5. CASE \/ StaleSequence(row, e, m)
               \/ Terminal(row) /\ SameResult(row, m)
      <3>1. RecordDeviceMessage(row, e, m) = row
        BY <2>5 DEF RecordDeviceMessage
      <3>2. SameResult(row, m)
        BY <2>5 DEF RejectsMessage
      <3> QED BY <3>1, <3>2 DEF Settles, SameResult
    <2>6. CASE ~StaleSequence(row, e, m) /\ ~(Terminal(row) /\ SameResult(row, m))
      <3>1. RecordDeviceMessage(row, e, m)
            = [row EXCEPT !.epoch = e, !.seq = m.seq, !.seqEpoch = e,
                          !.status = ResultStatus(m.op, p),
                          !.result = Durable(p), !.error = ErrorCode(p)]
        BY <1>1, <2>6 DEF RecordDeviceMessage, Rows
      <3>2. row.result = Null
        BY <1>1, <2>6 DEF RejectsMessage, Reconcilable, RowOK
      <3> QED BY <2>3, <2>4, <3>1, <3>2 DEF Settles, RowOK, Terminal, Rows
    <2> QED BY <2>5, <2>6
  <1>2. CASE m.kind # "result"
    BY <1>2 DEF RowOK, Settles, Terminal, RecordDeviceMessage, Rows
  <1> QED BY <1>1, <1>2

\* Preparing a delivery happens on an open row, which has no result.
LEMMA PrepareSettles ==
    ASSUME NEW row \in Rows, NEW e \in Nat, NEW v \in RelayPayloads \cup {Null},
           RowOK(row), row.status \in Nonterminal
    PROVE  /\ Settles(row, PrepareDispatch(row, e, v))
           /\ PrepareDispatch(row, e, v).epoch = e
           /\ v = "revoked" => PrepareDispatch(row, e, v).result = Durable(v)
  BY DEF RowOK, Settles, Terminal, PrepareDispatch, VerdictStatus, Rows,
         RelayPayloads, Null, Nonterminal, TerminalStatuses, Durable

-----------------------------------------------------------------------------
\* Type correctness: first what the shared parts of the actions preserve.

Frames == [kind: {"operation", "ack"}, op: Ops]

\* Append and Tail keep the type of a stream.
LEMMA SeqTypes ==
    ASSUME NEW S, NEW s \in Seq(S), NEW x \in S
    PROVE  /\ Append(s, x) \in Seq(S)
           /\ s # <<>> => Head(s) \in S /\ Tail(s) \in Seq(S)
           /\ \A i \in 1 .. Len(s) : s[i] \in S
  OBVIOUS

\* Payloads of the device are payloads, and Durable keeps them so.
LEMMA DeviceTypes ==
    ASSUME NEW p \in DevicePayloads, NEW o \in Ops
    PROVE  /\ p \in Payloads /\ p # Null
           /\ Durable(p) \in DevicePayloads
           /\ Normalize(o, p) \in Payloads
           /\ TerminalState(p) \in JournalTerminal
  BY DEF Payloads, DevicePayloads, Durable, Normalize, TerminalState,
         JournalTerminal, Null

\* The empty streams and entries are typed.
LEMMA EmptyTypes ==
    /\ NoEntry \in Entries
    /\ Idle \in [pc: RxStates, op: Nat, prior: DevicePayloads \cup {Null}]
    /\ NoReplay \in [Ops -> DevicePayloads \cup {Null}]
    /\ AbsentRow \in Rows /\ AbsentEntry \in JournalRows
  BY DEF Entries, Idle, NoReplay, RxStates, AbsentRow, Rows, Statuses, ErrorCodes,
         AbsentEntry, JournalRows, JournalStates

\* _send_new keeps the types of the socket and of the pending terminals.
LEMMA SendTypes ==
    ASSUME TypeOK, NEW o \in Ops, NEW k \in {"received", "started", "result"},
           NEW p \in DevicePayloads \cup {Null},
           IF k = "result" THEN p \in DevicePayloads ELSE p = Null,
           Send(k, o, p) \/ SendRaises(k, o, p)
    PROVE  /\ outSeq' \in Nat
           /\ pending' \in [Ops -> DevicePayloads \cup {Null}]
           /\ up' \in [Epochs -> Seq(Messages)]
  <1> DEFINE m == [kind |-> k, op |-> o, payload |-> p, epoch |-> agEpoch,
                   seq |-> outSeq + 1]
  <1>1. outSeq \in Nat /\ agEpoch \in Nat
    BY DEF TypeOK, AgentTypeOK
  <1>2. m \in Messages
    BY <1>1 DEF Messages
  <1>3. outSeq' \in Nat
    BY <1>1 DEF Send, SendRaises
  <1>4. pending' \in [Ops -> DevicePayloads \cup {Null}]
    BY DEF Send, SendRaises, TypeOK, AgentTypeOK
  <1>5. up \in [Epochs -> Seq(Messages)]
    BY DEF TypeOK, ConnectionTypeOK
  <1>6. up' \in [Epochs -> Seq(Messages)]
    <2>1. CASE up' = up
      BY <1>5, <2>1
    <2>2. CASE up' = [up EXCEPT ![sock] = Append(@, m)]
      <3>1. \A e \in Epochs : Append(up[e], m) \in Seq(Messages)
        BY <1>2, <1>5, SeqTypes
      <3> QED BY <1>5, <2>2, <3>1
    <2> QED BY <2>1, <2>2 DEF Send, SendRaises
  <1> QED BY <1>3, <1>4, <1>6

\* Leaving the socket keeps the types of the session.
LEMMA LeaveTypes ==
    ASSUME TypeOK, LeaveSocket
    PROVE  /\ phase' = "off" /\ phase' \in Phases /\ sock' \in Nat
           /\ ticket' \in Nat /\ agEpoch' \in Nat
           /\ rx' \in [pc: RxStates, op: Nat, prior: DevicePayloads \cup {Null}]
           /\ replayQ' \in [Ops -> DevicePayloads \cup {Null}]
           /\ down' \in [Epochs -> Seq(Frames)]
  BY EmptyTypes DEF LeaveSocket, TypeOK, AgentTypeOK, Phases

\* A frame sent by the relay keeps the type of the socket.
LEMMA SendDownTypes ==
    ASSUME TypeOK, NEW e \in Epochs, NEW f \in Frames, SendDown(e, f)
    PROVE  down' \in [Epochs -> Seq(Frames)]
  <1>1. down \in [Epochs -> Seq(Frames)]
    BY DEF TypeOK, ConnectionTypeOK, Frames
  <1>2. Append(down[e], f) \in Seq(Frames)
    BY <1>1, SeqTypes
  <1> QED BY <1>1, <1>2 DEF SendDown

\* Taking a frame keeps the type of the socket, and names an operation.
LEMMA TakeTypes ==
    ASSUME TypeOK, NEW o \in Ops, NEW k, Takes(k, o), TakeFrame
    PROVE  down' \in [Epochs -> Seq(Frames)]
  <1>1. /\ down \in [Epochs -> Seq(Frames)]
        /\ sock \in Epochs /\ down[sock] # <<>>
    BY DEF Takes, TypeOK, ConnectionTypeOK, AgentTypeOK, Frames
  <1>2. down[sock] \in Seq(Frames)
    BY <1>1
  <1>3. Tail(down[sock]) \in Seq(Frames)
    BY <1>1, <1>2
  <1> QED BY <1>1, <1>3 DEF TakeFrame

\* Publishing a typed payload keeps the type of the result streams.
LEMMA PublishTypes ==
    ASSUME TypeOK, NEW e \in Epochs, NEW o \in Ops, NEW p \in Payloads,
           PublishResult(e, o, p)
    PROVE  published' \in [Ops -> Entries]
  <1>1. e \in Nat
    BY TunnelAssumption DEF Epochs
  <1> QED BY <1>1 DEF PublishResult, TypeOK, RelayTypeOK, Entries

\* The end of a relay connection keeps the types of its state.
LEMMA ClosedTypes ==
    ASSUME TypeOK, NEW e \in Epochs, Closed(e)
    PROVE  TypeOK'
  <1>1. RelayTypeOK' /\ AgentTypeOK'
    BY DEF Closed, TypeOK, RelayTypeOK, AgentTypeOK
  <1>2. <<>> \in Seq(Messages)
    OBVIOUS
  <1>3. ConnectionTypeOK'
    BY <1>2 DEF Closed, TypeOK, ConnectionTypeOK
  <1> QED BY <1>1, <1>3 DEF TypeOK

\* A failing wait keeps the types of the relay.
LEMMA WaitFailsTypes ==
    ASSUME TypeOK, NEW o \in Ops, NEW c \in ErrorCodes, WaitFails(o, c)
    PROVE  TypeOK'
  <1> DEFINE d == DeliveryFailure(o, c)
  <1>1. d \in ErrorCodes
    BY DEF DeliveryFailure, ErrorCodes
  <1>2. op \in [Ops -> Rows] /\ op[o] \in Rows
    BY DEF TypeOK, RelayTypeOK
  <1>3. MarkDeliveryFailure(op[o], d) \in Rows
    BY <1>1, <1>2, WaiterRowTypes, PayloadTypes, ZenonT(60) DEF MarkDeliveryFailure, Rows, Statuses, TerminalStatuses
  <1>4. op' \in [Ops -> Rows]
    BY <1>2, <1>3 DEF WaitFails
  <1>5. ConnectionTypeOK' /\ AgentTypeOK'
    BY DEF WaitFails, Answered, TypeOK, ConnectionTypeOK, AgentTypeOK
  <1>6. answer' \in [Ops -> {<<>>} \cup ({"result"} \X Payloads)
                                   \cup ({"error"} \X ErrorCodes)]
    BY <1>1 DEF WaitFails, Answered, TypeOK, RelayTypeOK
  <1>7. RelayTypeOK'
    BY <1>4, <1>6, EmptyTypes
       DEF WaitFails, Answered, TypeOK, RelayTypeOK, WaiterStates
  <1> QED BY <1>5, <1>7 DEF TypeOK

\* The waiting request keeps the types.
LEMMA WaiterTypes ==
    ASSUME TypeOK, NEW o \in Ops, WaiterNext(o)
    PROVE  TypeOK'
  <1>1. op \in [Ops -> Rows] /\ op[o] \in Rows
    BY DEF TypeOK, RelayTypeOK
  <1>2. CASE Accept(o)
    <2>1. PICK e \in 1 .. devEpoch : op' = [op EXCEPT ![o] = CreateOperation(e)]
      BY <1>2 DEF Accept
    <2>2. e \in Nat
      BY <2>1 DEF TypeOK, RelayTypeOK
    <2>3. CreateOperation(e) \in Rows
      BY <2>2 DEF CreateOperation, AbsentRow, Rows, Statuses, Nonterminal,
                  ErrorCodes, Null
    <2>4. op' \in [Ops -> Rows]
      BY <1>1, <2>1, <2>3
    <2>5. RelayTypeOK'
      BY <1>2, <2>4 DEF Accept, TypeOK, RelayTypeOK, WaiterStates
    <2>6. ConnectionTypeOK' /\ AgentTypeOK'
      BY <1>2 DEF Accept, TypeOK, ConnectionTypeOK, AgentTypeOK
    <2> QED BY <2>5, <2>6 DEF TypeOK
  <1>3. CASE Dispatch(o)
    <2>1. MarkDispatched(op[o]) \in Rows
      BY <1>1 DEF MarkDispatched, Rows, Statuses, Nonterminal
    <2>2. op' \in [Ops -> Rows]
      BY <1>1, <1>3, <2>1 DEF Dispatch
    <2>3. RelayTypeOK'
      BY <1>3, <2>2 DEF Dispatch, TypeOK, RelayTypeOK, WaiterStates
    <2>4. ConnectionTypeOK' /\ AgentTypeOK'
      BY <1>3 DEF Dispatch, TypeOK, ConnectionTypeOK, AgentTypeOK
    <2> QED BY <2>3, <2>4 DEF TypeOK
  <1>4. CASE Publish(o)
    <2>1. dispatchStream' \in Seq(Ops)
      BY <1>4, SeqTypes DEF Publish, TypeOK, RelayTypeOK
    <2>2. RelayTypeOK'
      BY <1>4, <2>1 DEF Publish, TypeOK, RelayTypeOK, WaiterStates
    <2>3. ConnectionTypeOK' /\ AgentTypeOK'
      BY <1>4 DEF Publish, TypeOK, ConnectionTypeOK, AgentTypeOK
    <2> QED BY <2>2, <2>3 DEF TypeOK
  <1>5. CASE TransportFails(o)
    <2>1. "operation_timeout" \in ErrorCodes
      BY DEF ErrorCodes
    <2> QED BY <1>5, <2>1, WaitFailsTypes DEF TransportFails
  <1>6. CASE ReadResult(o)
    <2> DEFINE p == published[o].payload
    <2>1. CASE published[o].epoch # op[o].epoch
      <3>1. "protocol_error" \in ErrorCodes
        BY DEF ErrorCodes
      <3> QED BY <1>6, <2>1, <3>1, WaitFailsTypes DEF ReadResult
    <2>2. CASE published[o].epoch = op[o].epoch /\ p \in Payloads
      <3>1. /\ op' = [op EXCEPT ![o] = Finish(op[o], p)]
            /\ Answered(o, <<"result", p>>)
        BY <1>6, <2>2 DEF ReadResult
      <3>2. Finish(op[o], p) \in Rows
        <4>1. Durable(p) \in Payloads
          BY <2>2, PayloadTypes
        <4> QED BY <1>1, <4>1 DEF Finish, Rows, Statuses, TerminalStatuses
      <3>3. op' \in [Ops -> Rows]
        BY <1>1, <3>1, <3>2
      <3>4. answer' \in [Ops -> {<<>>} \cup ({"result"} \X Payloads)
                                       \cup ({"error"} \X ErrorCodes)]
        BY <2>2, <3>1 DEF Answered, TypeOK, RelayTypeOK
      <3>5. RelayTypeOK'
        BY <3>1, <3>3, <3>4, EmptyTypes
           DEF Answered, TypeOK, RelayTypeOK, WaiterStates
      <3>6. ConnectionTypeOK' /\ AgentTypeOK'
        BY <3>1 DEF Answered, TypeOK, ConnectionTypeOK, AgentTypeOK
      <3> QED BY <3>5, <3>6 DEF TypeOK
    <2>3. p \in Payloads
      BY <1>6 DEF ReadResult, TypeOK, RelayTypeOK, Entries
    <2> QED BY <2>1, <2>2, <2>3
  <1>7. CASE WaiterDies(o)
    <2>1. RelayTypeOK' /\ ConnectionTypeOK'
      BY <1>7, EmptyTypes DEF WaiterDies, TypeOK, RelayTypeOK, ConnectionTypeOK,
                              WaiterStates
    <2>2. crashes' \in Nat
      BY <1>7 DEF WaiterDies, TypeOK, AgentTypeOK
    <2>3. AgentTypeOK'
      BY <1>7, <2>2 DEF WaiterDies, TypeOK, AgentTypeOK
    <2> QED BY <2>1, <2>3 DEF TypeOK
  <1>8. CASE Deadline(o)
    BY <1>8 DEF Deadline, TypeOK, RelayTypeOK, ConnectionTypeOK, AgentTypeOK
  <1> QED BY <1>2, <1>3, <1>4, <1>5, <1>6, <1>7, <1>8 DEF WaiterNext

\* Both delivery paths share _deliver_operation.
LEMMA DeliverTypes ==
    ASSUME TypeOK, NEW e \in Epochs, NEW o \in Ops, Deliver(e, o)
    PROVE  /\ RelayTypeOK' /\ AgentTypeOK'
           /\ verdict' \in [Epochs -> {<<>>} \cup (Ops \X RelayPayloads)]
           /\ down' \in [Epochs -> Seq(Frames)]
           /\ UNCHANGED <<conn, reply, up>>
  <1> DEFINE v == DispatchVerdict(o, op[o], o \in elapsed, opLink[o] # link)
  <1>0. e \in Nat
    BY TunnelAssumption DEF Epochs
  <1>1. /\ op \in [Ops -> Rows] /\ op[o] \in Rows
        /\ down \in [Epochs -> Seq(Frames)]
        /\ verdict \in [Epochs -> {<<>>} \cup (Ops \X RelayPayloads)]
    BY DEF TypeOK, RelayTypeOK, ConnectionTypeOK, Frames
  <1>2. v \in RelayPayloads \cup {Null}
    BY DEF DispatchVerdict, RelayPayloads
  <1>3. PrepareDispatch(op[o], e, v) \in Rows
    BY <1>0, <1>1, <1>2, PrepareTypes
  <1>4. op' \in [Ops -> Rows]
    BY <1>1, <1>3 DEF Deliver
  <1>5. OperationFrame(o) \in Frames
    BY DEF OperationFrame, Frames
  <1>6. down' \in [Epochs -> Seq(Frames)]
    BY <1>1, <1>5, SendDownTypes DEF Deliver
  <1>7. verdict' \in [Epochs -> {<<>>} \cup (Ops \X RelayPayloads)]
    <2>1. \/ verdict' = verdict
          \/ v # Null /\ verdict' = [verdict EXCEPT ![e] = <<o, v>>]
      BY Zenon DEF Deliver
    <2> HIDE DEF v
    <2>2. v # Null => <<o, v>> \in {<<>>} \cup (Ops \X RelayPayloads)
      BY <1>2
    <2> QED BY <1>1, <2>1, <2>2
  <1>8. UNCHANGED <<conn, reply, up>>
    BY DEF Deliver
  <1>9. RelayTypeOK'
    BY <1>4 DEF Deliver, TypeOK, RelayTypeOK
  <1>10. AgentTypeOK'
    BY DEF Deliver, TypeOK, AgentTypeOK
  <1> QED BY <1>6, <1>7, <1>8, <1>9, <1>10

\* The relay's end of a connection keeps the types.
LEMMA RelayTypes ==
    ASSUME TypeOK, NEW e \in Epochs, RelayNext(e)
    PROVE  TypeOK'
  <1>1. CASE RelayClose(e)
    BY <1>1, ClosedTypes DEF RelayClose
  <1>2. CASE RelayReceive(e)
    <2> DEFINE m == Head(up[e])
    <2>0. e \in Nat
      BY TunnelAssumption DEF Epochs
    <2>1. /\ up \in [Epochs -> Seq(Messages)] /\ up[e] \in Seq(Messages)
          /\ up[e] # <<>> /\ op \in [Ops -> Rows]
      BY <1>2 DEF RelayReceive, TypeOK, RelayTypeOK, ConnectionTypeOK
    <2>2. m \in Messages /\ Tail(up[e]) \in Seq(Messages)
      BY <2>1
    <2>3. m.op \in Ops
      BY <2>2 DEF Messages
    <2>4. CASE m.epoch # e \/ RejectsMessage(op[m.op], e, m)
      BY <1>2, <2>4, ClosedTypes DEF RelayReceive
    <2>5. CASE ~(m.epoch # e \/ RejectsMessage(op[m.op], e, m))
      <3>1. op' = [op EXCEPT ![m.op] = RecordDeviceMessage(op[m.op], e, m)]
        BY <1>2, <2>5 DEF RelayReceive
      <3>2. RecordDeviceMessage(op[m.op], e, m) \in Rows
        BY <2>0, <2>1, <2>2, <2>3, ConnectionRowTypes
      <3>3. op' \in [Ops -> Rows]
        BY <2>1, <2>3, <3>1, <3>2
      <3>4. up' \in [Epochs -> Seq(Messages)]
        BY <1>2, <2>1, <2>2, <2>5 DEF RelayReceive
      <3>5. m.kind = "result" => Normalize(m.op, m.payload) \in Payloads
        BY <2>2, <2>3, DeviceTypes DEF Messages
      <3>6. reply' \in [Epochs -> {<<>>} \cup (Ops \X Payloads)]
        <4> DEFINE r == IF m.kind = "result"
                        THEN <<m.op, Normalize(m.op, m.payload)>> ELSE <<>>
        <4>1. r \in {<<>>} \cup (Ops \X Payloads)
          BY <2>3, <3>5
        <4>2. reply' = [reply EXCEPT ![e] = r]
          BY <1>2, <2>5 DEF RelayReceive
        <4>3. reply \in [Epochs -> {<<>>} \cup (Ops \X Payloads)]
          BY DEF TypeOK, ConnectionTypeOK
        <4> HIDE DEF r
        <4> QED BY <4>1, <4>2, <4>3
      <3>7. UNCHANGED <<devEpoch, link, opLink, elapsed, waitVars, conn, recovery,
                        cursor, verdict, down, sockVars, outSeq, rx, replayQ,
                        taskVars, pending, journal, refused>>
        BY <1>2, <2>5 DEF RelayReceive
      <3>8. RelayTypeOK'
        BY <3>3, <3>7 DEF TypeOK, RelayTypeOK
      <3>9. ConnectionTypeOK'
        BY <3>4, <3>6, <3>7 DEF TypeOK, ConnectionTypeOK
      <3>10. AgentTypeOK'
        BY <3>7 DEF TypeOK, AgentTypeOK
      <3> QED BY <3>8, <3>9, <3>10 DEF TypeOK
    <2> QED BY <2>4, <2>5
  <1>3. CASE PublishReply(e)
    <2>1. reply[e][1] \in Ops /\ reply[e][2] \in Payloads
      BY <1>3 DEF PublishReply, TypeOK, ConnectionTypeOK
    <2>2. AckFrame(reply[e][1]) \in Frames
      BY <2>1 DEF AckFrame, Frames
    <2>3. down' \in [Epochs -> Seq(Frames)]
      BY <1>3, <2>2, SendDownTypes DEF PublishReply
    <2>4. published' \in [Ops -> Entries]
      BY <1>3, <2>1, PublishTypes DEF PublishReply
    <2>5. RelayTypeOK' /\ AgentTypeOK'
      BY <1>3, <2>4 DEF PublishReply, TypeOK, RelayTypeOK, AgentTypeOK
    <2>6. ConnectionTypeOK'
      BY <1>3, <2>3 DEF PublishReply, TypeOK, ConnectionTypeOK, Frames
    <2> QED BY <2>5, <2>6 DEF TypeOK
  <1>4. CASE Recover(e)
    BY <1>4 DEF Recover, TypeOK, RelayTypeOK, ConnectionTypeOK, AgentTypeOK
  <1>5. CASE DeliverRecovered(e)
    <2>1. PICK o \in recovery[e] :
              /\ recovery' = [recovery EXCEPT ![e] = @ \ {o}]
              /\ Deliver(e, o) /\ UNCHANGED cursor
      BY <1>5 DEF DeliverRecovered
    <2>2. o \in Ops
      BY <2>1 DEF TypeOK, ConnectionTypeOK
    <2>3. ConnectionTypeOK'
      BY <2>1, <2>2, DeliverTypes DEF TypeOK, ConnectionTypeOK, Frames
    <2> QED BY <2>1, <2>2, <2>3, DeliverTypes DEF TypeOK
  <1>6. CASE DeliverFromStream(e)
    <2>1. dispatchStream[cursor[e]] \in Ops
      BY <1>6 DEF DeliverFromStream, TypeOK, RelayTypeOK
    <2>2. Deliver(e, dispatchStream[cursor[e]])
      BY <1>6 DEF DeliverFromStream
    <2>3. cursor' \in [Epochs -> Nat] /\ UNCHANGED recovery
      BY <1>6 DEF DeliverFromStream, TypeOK, ConnectionTypeOK
    <2>4. ConnectionTypeOK'
      BY <2>1, <2>2, <2>3, DeliverTypes DEF TypeOK, ConnectionTypeOK, Frames
    <2> QED BY <2>1, <2>2, <2>4, DeliverTypes DEF TypeOK
  <1>7. CASE PublishVerdict(e)
    <2>1. verdict[e][1] \in Ops /\ verdict[e][2] \in Payloads
      BY <1>7 DEF PublishVerdict, TypeOK, ConnectionTypeOK, Payloads
    <2>2. published' \in [Ops -> Entries]
      BY <1>7, <2>1, PublishTypes DEF PublishVerdict
    <2>3. RelayTypeOK' /\ AgentTypeOK' /\ ConnectionTypeOK'
      BY <1>7, <2>2 DEF PublishVerdict, TypeOK, RelayTypeOK, AgentTypeOK,
                        ConnectionTypeOK
    <2> QED BY <2>3 DEF TypeOK
  <1> QED BY <1>1, <1>2, <1>3, <1>4, <1>5, <1>6, <1>7 DEF RelayNext

\* The agent's connection keeps the types.
LEMMA SocketTypes ==
    ASSUME TypeOK, SocketNext
    PROVE  TypeOK'
  <1>1. CASE Connect
    <2>1. devEpoch + 1 \in Epochs
      BY <1>1, TunnelAssumption DEF Connect, TypeOK, RelayTypeOK, Epochs
    <2>2. devEpoch' \in 0 .. MaxEpoch /\ sock' \in Nat /\ sock' \in Epochs
      BY <1>1, <2>1, TunnelAssumption DEF Connect, Epochs
    <2>3. RelayTypeOK'
      BY <1>1, <2>2 DEF Connect, TypeOK, RelayTypeOK
    <2>4. ConnectionTypeOK'
      BY <1>1, <2>1 DEF Connect, TypeOK, ConnectionTypeOK
    <2>5. phase' \in Phases /\ ticket' \in Nat
      <3>1. link \in Nat /\ ticket \in Nat
        BY DEF TypeOK, RelayTypeOK, AgentTypeOK
      <3> QED BY <1>1, <3>1 DEF Connect, Phases
    <2>6. AgentTypeOK'
      BY <1>1, <2>2, <2>5 DEF Connect, TypeOK, AgentTypeOK
    <2> QED BY <2>3, <2>4, <2>6 DEF TypeOK
  <1>2. CASE ReceiveWelcome
    BY <1>2 DEF ReceiveWelcome, TypeOK, RelayTypeOK, ConnectionTypeOK, AgentTypeOK,
                Phases
  <1>3. CASE ResetSequence
    BY <1>3 DEF ResetSequence, TypeOK, RelayTypeOK, ConnectionTypeOK, AgentTypeOK,
                Phases
  <1>4. CASE ReadUnacknowledged
    <2>1. replayQ' \in [Ops -> DevicePayloads \cup {Null}]
      BY <1>4 DEF ReadUnacknowledged, TypeOK, AgentTypeOK, JournalRows
    <2>2. RelayTypeOK' /\ ConnectionTypeOK'
      BY <1>4 DEF ReadUnacknowledged, TypeOK, RelayTypeOK, ConnectionTypeOK
    <2>3. AgentTypeOK'
      BY <1>4, <2>1 DEF ReadUnacknowledged, TypeOK, AgentTypeOK, Phases
    <2> QED BY <2>2, <2>3 DEF TypeOK
  <1>5. CASE Ready
    BY <1>5 DEF Ready, TypeOK, RelayTypeOK, ConnectionTypeOK, AgentTypeOK, Phases
  <1>6. CASE AgentDrop
    <2>1. RelayTypeOK'
      BY <1>6 DEF AgentDrop, TypeOK, RelayTypeOK
    <2>2. ConnectionTypeOK'
      BY <1>6, LeaveTypes DEF AgentDrop, TypeOK, ConnectionTypeOK, Frames
    <2>3. AgentTypeOK'
      BY <1>6, LeaveTypes DEF AgentDrop, TypeOK, AgentTypeOK
    <2> QED BY <2>1, <2>2, <2>3 DEF TypeOK
  <1>7. CASE Restart
    <2>1. RelayTypeOK'
      BY <1>7 DEF Restart, TypeOK, RelayTypeOK
    <2>2. down' \in [Epochs -> Seq(Frames)]
      BY <1>7 DEF Restart
    <2>3. ConnectionTypeOK'
      BY <1>7, <2>2 DEF Restart, TypeOK, ConnectionTypeOK, Frames
    <2>4. crashes' \in Nat
      BY <1>7 DEF Restart, TypeOK, AgentTypeOK
    <2>5. AgentTypeOK'
      BY <1>7, <2>4, EmptyTypes
         DEF Restart, TypeOK, AgentTypeOK, Phases, TaskStates
    <2> QED BY <2>1, <2>3, <2>5 DEF TypeOK
  <1> QED BY <1>1, <1>2, <1>3, <1>4, <1>5, <1>6, <1>7 DEF SocketNext

\* Sending from the receive loop either succeeds, or ends the connection.
LEMMA RaisedTypes ==
    ASSUME TypeOK, NEW o \in Ops, NEW k \in {"received", "started", "result"},
           NEW p \in DevicePayloads \cup {Null},
           IF k = "result" THEN p \in DevicePayloads ELSE p = Null,
           Raised(k, o, p), UNCHANGED <<relayVars, waitVars, connVars, crashes>>
    PROVE  /\ RelayTypeOK' /\ ConnectionTypeOK' /\ SessionTypeOK'
  <1>1. RelayTypeOK'
    BY DEF TypeOK, RelayTypeOK
  <1>2. ConnectionTypeOK'
    BY SendTypes, LeaveTypes DEF Raised, TypeOK, ConnectionTypeOK, Frames
  <1>3. crashes' \in Nat
    BY DEF TypeOK, AgentTypeOK
  <1> QED BY <1>1, <1>2, <1>3, SendTypes, LeaveTypes DEF Raised

\* Sending, whether it succeeds or raises, keeps the types.
LEMMA SentTypes ==
    ASSUME TypeOK, NEW o \in Ops, NEW k \in {"received", "started", "result"},
           NEW p \in DevicePayloads \cup {Null},
           IF k = "result" THEN p \in DevicePayloads ELSE p = Null,
           Send(k, o, p) \/ SendRaises(k, o, p),
           UNCHANGED <<relayVars, waitVars, connVars, sockVars>>
    PROVE  /\ RelayTypeOK'
           /\ down' \in [Epochs -> Seq(Frames)] => ConnectionTypeOK'
           /\ outSeq' \in Nat /\ phase' \in Phases /\ sock' \in Nat
           /\ (phase' # "off" => sock' \in Epochs) /\ ticket' \in Nat
           /\ agEpoch' \in Nat /\ crashes' \in Nat
           /\ pending' \in [Ops -> DevicePayloads \cup {Null}]
  <1>1. RelayTypeOK'
    BY DEF TypeOK, RelayTypeOK
  <1>2. down' \in [Epochs -> Seq(Frames)] => ConnectionTypeOK'
    BY SendTypes DEF TypeOK, ConnectionTypeOK, Frames
  <1>3. outSeq' \in Nat /\ pending' \in [Ops -> DevicePayloads \cup {Null}]
    BY SendTypes
  <1> QED BY <1>1, <1>2, <1>3 DEF TypeOK, AgentTypeOK

\* The receive loop keeps the types.
LEMMA ReceiveTypes ==
    ASSUME TypeOK, NEW o \in Ops, ReceiveNext(o)
    PROVE  TypeOK'
  <1>1. /\ o \in Nat /\ down \in [Epochs -> Seq(Frames)]
        /\ rx \in [pc: RxStates, op: Nat, prior: DevicePayloads \cup {Null}]
        /\ journal \in [Ops -> JournalRows] /\ journal[o] \in JournalRows
        /\ replayQ \in [Ops -> DevicePayloads \cup {Null}]
    BY OpsAssumption DEF TypeOK, ConnectionTypeOK, AgentTypeOK, Frames
  <1>2. CASE Replay(o)
    <2>1. replayQ[o] \in DevicePayloads
      BY <1>1, <1>2 DEF Replay
    <2>2. CASE Raised("result", o, replayQ[o])
      <3>1. RelayTypeOK' /\ ConnectionTypeOK' /\ SessionTypeOK'
        BY <1>2, <2>1, <2>2, RaisedTypes DEF Replay
      <3> QED BY <1>2, <3>1 DEF Replay, TypeOK, AgentTypeOK
    <2>3. CASE /\ Send("result", o, replayQ[o])
               /\ replayQ' = [replayQ EXCEPT ![o] = Null]
               /\ UNCHANGED <<phase, sock, ticket, agEpoch, rx, down>>
      <3>1. replayQ' \in [Ops -> DevicePayloads \cup {Null}]
        BY <1>1, <2>3
      <3>2. RelayTypeOK' /\ ConnectionTypeOK'
        BY <1>1, <1>2, <2>1, <2>3, SentTypes DEF Replay
      <3>3. SessionTypeOK'
        BY <1>1, <1>2, <2>1, <2>3, <3>1, SentTypes DEF Replay
      <3> QED BY <1>2, <3>2, <3>3 DEF Replay, TypeOK, AgentTypeOK
    <2> QED BY <1>2, <2>2, <2>3 DEF Replay
  <1>3. CASE ReceiveOperation(o)
    <2>1. CASE opLink[o] # ticket
      <3>1. RelayTypeOK' /\ TaskTypeOK'
        BY <1>3, <2>1 DEF ReceiveOperation, TypeOK, RelayTypeOK, AgentTypeOK
      <3>2. ConnectionTypeOK'
        BY <1>3, <2>1, LeaveTypes
           DEF ReceiveOperation, TypeOK, ConnectionTypeOK, Frames
      <3>3. SessionTypeOK'
        BY <1>3, <2>1, LeaveTypes DEF ReceiveOperation, TypeOK, AgentTypeOK
      <3> QED BY <3>1, <3>2, <3>3 DEF TypeOK, AgentTypeOK
    <2>2. ASSUME NEW p \in {"queue_full", "elapsed"}, Refuse(o, p),
                 budgets' \in KeptBudgets
          PROVE  TypeOK'
      <3>1. p \in DevicePayloads
        BY DEF DevicePayloads
      <3>2. TaskTypeOK'
        BY <2>2 DEF Refuse, KeptBudgets, TypeOK, AgentTypeOK
      <3>3. CASE Raised("result", o, p)
        BY <2>2, <3>1, <3>2, <3>3, RaisedTypes DEF Refuse, TypeOK, AgentTypeOK
      <3>4. CASE /\ Send("result", o, p) /\ TakeFrame
                 /\ UNCHANGED <<phase, sock, ticket, agEpoch, rx, replayQ>>
        <4>1. down' \in [Epochs -> Seq(Frames)]
          BY <1>3, <3>4, TakeTypes DEF ReceiveOperation
        <4>2. RelayTypeOK' /\ ConnectionTypeOK'
          BY <2>2, <3>1, <3>4, <4>1, SentTypes DEF Refuse
        <4>3. SessionTypeOK'
          BY <1>1, <2>2, <3>1, <3>4, SentTypes DEF Refuse
        <4> QED BY <3>2, <4>2, <4>3 DEF TypeOK, AgentTypeOK
      <3> QED BY <2>2, <3>3, <3>4 DEF Refuse
    <2>3. ASSUME NEW kept \in KeptBudgets, budgets' = kept,
                 rx' = [pc |-> IF Inserts(journal[o]) THEN "fresh" ELSE "duplicate",
                        op |-> o, prior |-> Null],
                 journal' = [journal EXCEPT ![o] = RecordReceived(@, agEpoch)],
                 TakeFrame,
                 UNCHANGED <<relayVars, waitVars, connVars, up, sockVars, outSeq,
                             replayQ, task, taskResult, runs, pending, refused>>
          PROVE  TypeOK'
      <3>1. RelayTypeOK'
        BY <2>3 DEF TypeOK, RelayTypeOK
      <3>2. down' \in [Epochs -> Seq(Frames)]
        BY <1>3, <2>3, TakeTypes DEF ReceiveOperation
      <3>3. ConnectionTypeOK'
        BY <2>3, <3>2 DEF TypeOK, ConnectionTypeOK, Frames
      <3>4. agEpoch \in Nat
        BY DEF TypeOK, AgentTypeOK
      <3>5. RecordReceived(journal[o], agEpoch) \in JournalRows
        BY <1>1, <3>4 DEF RecordReceived, Inserts, JournalRows, JournalStates
      <3>6. TaskTypeOK'
        BY <1>1, <2>3, <3>5 DEF KeptBudgets, TypeOK, AgentTypeOK
      <3>7. rx' \in [pc: RxStates, op: Nat, prior: DevicePayloads \cup {Null}]
        BY <1>1, <2>3 DEF RxStates
      <3>8. SessionTypeOK'
        BY <2>3, <3>7 DEF TypeOK, AgentTypeOK
      <3> QED BY <3>1, <3>3, <3>6, <3>8 DEF TypeOK, AgentTypeOK
    <2> QED BY <1>3, <2>1, <2>2, <2>3 DEF ReceiveOperation
  <1>4. CASE SendReceived(o)
    <2>1. CASE Raised("received", o, Null) /\ UNCHANGED <<task, budgets>>
      <3>1. RelayTypeOK' /\ ConnectionTypeOK' /\ SessionTypeOK'
        BY <1>4, <2>1, RaisedTypes DEF SendReceived
      <3> QED BY <1>4, <2>1, <3>1 DEF SendReceived, TypeOK, AgentTypeOK
    <2>2. CASE /\ Send("received", o, Null)
               /\ IF rx.pc = "fresh"
                  THEN /\ rx' = Idle
                       /\ task' = [task EXCEPT ![o] = "created"]
                       /\ budgets' = budgets \cup {o}
                  ELSE /\ rx' = [rx EXCEPT !.pc = "decide", !.prior = journal[o].result]
                       /\ UNCHANGED <<task, budgets>>
               /\ UNCHANGED <<phase, sock, ticket, agEpoch, replayQ, down>>
      <3>1. journal[o].result \in DevicePayloads \cup {Null}
        BY <1>1 DEF JournalRows
      <3>2. rx' \in [pc: RxStates, op: Nat, prior: DevicePayloads \cup {Null}]
        BY <1>1, <2>2, <3>1, EmptyTypes DEF RxStates
      <3>3. RelayTypeOK' /\ ConnectionTypeOK'
        BY <1>1, <1>4, <2>2, SentTypes DEF SendReceived
      <3>4. SessionTypeOK'
        BY <1>1, <1>4, <2>2, <3>2, SentTypes DEF SendReceived
      <3>5. TaskTypeOK'
        BY <1>4, <2>2 DEF SendReceived, TypeOK, AgentTypeOK, TaskStates
      <3> QED BY <3>3, <3>4, <3>5 DEF TypeOK, AgentTypeOK
    <2> QED BY <1>4, <2>1, <2>2 DEF SendReceived
  <1>5. CASE Redelivered(o)
    <2>1. UNCHANGED <<relayVars, waitVars, connVars, crashes, taskResult, runs,
                      refused>>
      BY <1>5 DEF Redelivered
    <2>2. RelayTypeOK'
      BY <2>1 DEF TypeOK, RelayTypeOK
    <2>3. CASE /\ rx.prior # Null
               /\ \/ /\ Send("result", o, rx.prior) /\ rx' = Idle
                     /\ UNCHANGED <<phase, sock, ticket, agEpoch, replayQ, down>>
                  \/ Raised("result", o, rx.prior)
               /\ UNCHANGED <<task, budgets, journal>>
      <3>1. rx.prior \in DevicePayloads
        BY <1>1, <2>3
      <3>2. TaskTypeOK'
        BY <2>1, <2>3 DEF TypeOK, AgentTypeOK
      <3>3. CASE Raised("result", o, rx.prior)
        BY <2>1, <3>1, <3>2, <3>3, RaisedTypes DEF TypeOK, AgentTypeOK
      <3>4. CASE /\ Send("result", o, rx.prior) /\ rx' = Idle
                 /\ UNCHANGED <<phase, sock, ticket, agEpoch, replayQ, down>>
        <4>1. RelayTypeOK' /\ ConnectionTypeOK'
          BY <1>1, <2>1, <3>1, <3>4, SentTypes
        <4>2. SessionTypeOK'
          BY <1>1, <2>1, <3>1, <3>4, SentTypes, EmptyTypes
        <4> QED BY <3>2, <4>1, <4>2 DEF TypeOK, AgentTypeOK
      <3> QED BY <2>3, <3>3, <3>4
    <2>4. CASE /\ rx' = Idle
               /\ UNCHANGED <<up, down, phase, sock, ticket, agEpoch, outSeq,
                              replayQ, task, budgets, pending, journal>>
      BY <2>1, <2>2, <2>4, EmptyTypes DEF TypeOK, ConnectionTypeOK, AgentTypeOK
    <2>5. CASE /\ MayTransition(journal[o], "outcome_unknown")
               /\ journal' = [journal EXCEPT ![o] =
                      TransitionOperation(@, "outcome_unknown", "uncertain")]
               /\ rx' = [rx EXCEPT !.pc = "uncertain"]
               /\ UNCHANGED <<down, phase, sock, ticket, agEpoch, replayQ, up,
                              outSeq, task, budgets, pending>>
      <3>1. TransitionOperation(journal[o], "outcome_unknown", "uncertain")
                \in JournalRows
        BY <1>1 DEF TransitionOperation, JournalRows, JournalStates,
                    JournalTerminal, DevicePayloads
      <3>2. journal' \in [Ops -> JournalRows]
        BY <1>1, <2>5, <3>1
      <3>3. rx' \in [pc: RxStates, op: Nat, prior: DevicePayloads \cup {Null}]
        BY <1>1, <2>5 DEF RxStates
      <3>4. ConnectionTypeOK' /\ TaskTypeOK' /\ SessionTypeOK'
        BY <2>1, <2>5, <3>2, <3>3 DEF TypeOK, ConnectionTypeOK, AgentTypeOK
      <3> QED BY <2>2, <3>4 DEF TypeOK, AgentTypeOK
    <2>6. CASE /\ LeaveSocket
               /\ UNCHANGED <<journal, up, outSeq, task, budgets, pending>>
      <3>1. ConnectionTypeOK'
        BY <2>1, <2>6, LeaveTypes DEF TypeOK, ConnectionTypeOK, Frames
      <3>2. SessionTypeOK' /\ TaskTypeOK'
        BY <2>1, <2>6, LeaveTypes DEF TypeOK, AgentTypeOK
      <3> QED BY <2>2, <3>1, <3>2 DEF TypeOK, AgentTypeOK
    <2>7. CASE /\ task' = [task EXCEPT ![o] = "created"]
               /\ budgets' = budgets \cup {o}
               /\ rx' = Idle
               /\ UNCHANGED <<up, down, phase, sock, ticket, agEpoch, outSeq,
                              replayQ, pending, journal>>
      <3>1. ConnectionTypeOK' /\ SessionTypeOK'
        BY <2>1, <2>7, EmptyTypes DEF TypeOK, ConnectionTypeOK, AgentTypeOK
      <3>2. TaskTypeOK'
        BY <2>1, <2>7 DEF TypeOK, AgentTypeOK, TaskStates
      <3> QED BY <2>2, <3>1, <3>2 DEF TypeOK, AgentTypeOK
    <2> QED BY <1>5, <2>3, <2>4, <2>5, <2>6, <2>7 DEF Redelivered
  <1>6. CASE SendUncertain(o)
    <2>1. "uncertain" \in DevicePayloads
      BY DEF DevicePayloads
    <2>2. TaskTypeOK'
      BY <1>6 DEF SendUncertain, TypeOK, AgentTypeOK
    <2>3. CASE Raised("result", o, "uncertain")
      <3>1. RelayTypeOK' /\ ConnectionTypeOK' /\ SessionTypeOK'
        BY <1>6, <2>1, <2>3, RaisedTypes DEF SendUncertain
      <3> QED BY <2>2, <3>1 DEF TypeOK, AgentTypeOK
    <2>4. CASE /\ Send("result", o, "uncertain") /\ rx' = Idle
               /\ UNCHANGED <<phase, sock, ticket, agEpoch, replayQ, down>>
      <3>1. RelayTypeOK' /\ ConnectionTypeOK'
        BY <1>1, <1>6, <2>1, <2>4, SentTypes DEF SendUncertain
      <3>2. SessionTypeOK'
        BY <1>1, <1>6, <2>1, <2>4, SentTypes, EmptyTypes DEF SendUncertain
      <3> QED BY <2>2, <3>1, <3>2 DEF TypeOK, AgentTypeOK
    <2> QED BY <1>6, <2>3, <2>4 DEF SendUncertain
  <1>7. CASE ReceiveAck(o)
    <2>1. down' \in [Epochs -> Seq(Frames)]
      BY <1>7, TakeTypes DEF ReceiveAck
    <2>2. rx' \in [pc: RxStates, op: Nat, prior: DevicePayloads \cup {Null}]
      BY <1>1, <1>7, EmptyTypes DEF ReceiveAck, RxStates
    <2>3. RelayTypeOK' /\ ConnectionTypeOK'
      BY <1>7, <2>1 DEF ReceiveAck, TypeOK, RelayTypeOK, ConnectionTypeOK, Frames
    <2>4. AgentTypeOK'
      BY <1>7, <2>2 DEF ReceiveAck, TypeOK, AgentTypeOK
    <2> QED BY <2>3, <2>4 DEF TypeOK
  <1>8. CASE MarkAcknowledged(o)
    <2>1. AcknowledgeTerminal(journal[o]) \in JournalRows
      BY <1>1 DEF AcknowledgeTerminal, JournalRows
    <2>2. rx' \in [pc: RxStates, op: Nat, prior: DevicePayloads \cup {Null}]
      BY <1>1, <1>8 DEF MarkAcknowledged, RxStates
    <2>3. journal' \in [Ops -> JournalRows]
      BY <1>1, <1>8, <2>1 DEF MarkAcknowledged
    <2>4. RelayTypeOK' /\ ConnectionTypeOK' /\ AgentTypeOK'
      BY <1>8, <2>2, <2>3
         DEF MarkAcknowledged, TypeOK, RelayTypeOK, ConnectionTypeOK, AgentTypeOK
    <2> QED BY <2>4 DEF TypeOK
  <1>9. CASE ForgetTerminal(o)
    BY <1>9, EmptyTypes DEF ForgetTerminal, TypeOK, RelayTypeOK, ConnectionTypeOK,
                            AgentTypeOK
  <1> QED BY <1>2, <1>3, <1>4, <1>5, <1>6, <1>7, <1>8, <1>9 DEF ReceiveNext

\* The operation tasks keep the types.
LEMMA TaskTypes ==
    ASSUME TypeOK, NEW o \in Ops, TaskNext(o)
    PROVE  TypeOK'
  <1>1. /\ down \in [Epochs -> Seq(Frames)]
        /\ rx \in [pc: RxStates, op: Nat, prior: DevicePayloads \cup {Null}]
        /\ replayQ \in [Ops -> DevicePayloads \cup {Null}]
        /\ journal \in [Ops -> JournalRows] /\ journal[o] \in JournalRows
        /\ task \in [Ops -> TaskStates]
    BY DEF TypeOK, ConnectionTypeOK, AgentTypeOK, Frames
  <1>2. ASSUME UNCHANGED <<relayVars, waitVars, connVars, up, down, sockVars,
                           outSeq, rx, replayQ, pending>>,
               TaskTypeOK'
        PROVE  TypeOK'
    BY <1>2 DEF TypeOK, RelayTypeOK, ConnectionTypeOK, AgentTypeOK
  <1>3. ASSUME NEW k \in {"started", "result"}, NEW p \in DevicePayloads \cup {Null},
               IF k = "result" THEN p \in DevicePayloads ELSE p = Null,
               Send(k, o, p) \/ SendRaises(k, o, p),
               UNCHANGED <<relayVars, waitVars, connVars, down, sockVars, rx,
                           replayQ>>,
               TaskTypeOK'
        PROVE  TypeOK'
    <2>1. RelayTypeOK' /\ ConnectionTypeOK'
      BY <1>1, <1>3, SentTypes
    <2>2. SessionTypeOK'
      BY <1>1, <1>3, SentTypes
    <2> QED BY <1>3, <2>1, <2>2 DEF TypeOK, AgentTypeOK
  <1>4. CASE TaskBegins(o)
    <2>1. TransitionOperation(journal[o], "running", Null) \in JournalRows
      BY <1>1 DEF TransitionOperation, JournalRows, JournalStates, JournalTerminal
    <2>2. journal' \in [Ops -> JournalRows]
      BY <1>1, <1>4, <2>1 DEF TaskBegins
    <2>3. task' \in [Ops -> TaskStates]
      BY <1>1, <1>4 DEF TaskBegins, TaskStep, TaskStates
    <2>4. \A q \in Ops : task'[q] \in {"finishing", "sending"} => task'[q] = task[q]
      BY <1>1, <1>4 DEF TaskBegins, TaskStep
    <2>5. TaskTypeOK'
      BY <1>4, <2>2, <2>3, <2>4 DEF TaskBegins, TypeOK, AgentTypeOK
    <2> QED BY <1>2, <1>4, <2>5 DEF TaskBegins
  <1>5. CASE HandlerStarts(o)
    <2>1. TaskTypeOK'
      BY <1>5 DEF HandlerStarts, TaskStep, TaskStates, TypeOK, AgentTypeOK
    <2> QED BY <1>3, <1>5, <2>1 DEF HandlerStarts
  <1>6. CASE BudgetElapsesEarly(o)
    <2>1. TaskTypeOK'
      BY <1>6 DEF BudgetElapsesEarly, TaskStep, TaskStates, TypeOK, AgentTypeOK,
                  DevicePayloads, Null
    <2> QED BY <1>2, <1>6, <2>1 DEF BudgetElapsesEarly
  <1>7. CASE StartFails(o)
    <2>1. TaskTypeOK'
      BY <1>7 DEF StartFails, TaskStep, TaskStates, TypeOK, AgentTypeOK,
                  DevicePayloads, Null
    <2> QED BY <1>3, <1>7, <2>1 DEF StartFails
  <1>8. CASE HandlerReturns(o)
    <2>1. PICK p : /\ p \in Replies \cup {IF o \in Native THEN "unknown" ELSE "late"}
                   /\ taskResult' = [taskResult EXCEPT ![o] = p]
      BY <1>8 DEF HandlerReturns
    <2>2. p \in DevicePayloads /\ p # Null
      BY <2>1, TunnelAssumption DEF DevicePayloads, Null
    <2>3. TaskTypeOK'
      BY <1>8, <2>1, <2>2 DEF HandlerReturns, TaskStep, TaskStates, TypeOK,
                              AgentTypeOK
    <2> QED BY <1>2, <1>8, <2>3 DEF HandlerReturns
  <1>9. CASE JournalTerminalResult(o)
    <2> DEFINE p == taskResult[o]
    <2>1. p \in DevicePayloads
      BY <1>9 DEF JournalTerminalResult, TypeOK, AgentTypeOK
    <2>2. TerminalState(p) \in JournalStates /\ Durable(p) \in DevicePayloads
      BY <2>1, DeviceTypes DEF JournalStates
    <2>3. TransitionOperation(journal[o], TerminalState(p), Durable(p)) \in JournalRows
      BY <1>1, <2>2 DEF TransitionOperation, JournalRows
    <2>4. journal' \in [Ops -> JournalRows]
      BY <1>1, <1>9, <2>3 DEF JournalTerminalResult
    <2>5. task' \in [Ops -> TaskStates]
      BY <1>1, <1>9 DEF JournalTerminalResult, TaskStep, TaskStates
    <2>6. /\ taskResult' \in [Ops -> DevicePayloads \cup {Null}]
          /\ budgets' \subseteq Ops
      BY <1>9 DEF JournalTerminalResult, TypeOK, AgentTypeOK
    <2>7. \A q \in Ops : task'[q] \in {"finishing", "sending"} =>
              taskResult'[q] # Null
      BY <1>1, <1>9 DEF JournalTerminalResult, TaskStep, TypeOK, AgentTypeOK
    <2>8. UNCHANGED <<runs, refused>>
      BY <1>9 DEF JournalTerminalResult
    <2>9. TaskTypeOK'
      BY <2>4, <2>5, <2>6, <2>7, <2>8 DEF TypeOK, AgentTypeOK
    <2> QED BY <1>2, <1>9, <2>9 DEF JournalTerminalResult
  <1>10. CASE SendResult(o)
    <2>1. taskResult[o] \in DevicePayloads
      BY <1>10 DEF SendResult, TypeOK, AgentTypeOK
    <2>2. TaskTypeOK'
      BY <1>10 DEF SendResult, TaskStep, TaskStates, TypeOK, AgentTypeOK
    <2> QED BY <1>3, <1>10, <2>1, <2>2 DEF SendResult
  <1> QED BY <1>4, <1>5, <1>6, <1>7, <1>8, <1>9, <1>10 DEF TaskNext

\* Every variable of every reachable state has its type, for every number of
\* operations, connections, crashes and rotations.
THEOREM TypeCorrect == Spec => []TypeOK
  <1>1. Init => TypeOK
    <2> SUFFICES ASSUME Init PROVE TypeOK
      OBVIOUS
    <2>1. RelayTypeOK
      BY EmptyTypes, TunnelAssumption DEF Init, RelayTypeOK, WaiterStates
    <2>2. ConnectionTypeOK
      BY DEF Init, ConnectionTypeOK
    <2>3. AgentTypeOK
      BY EmptyTypes DEF Init, AgentTypeOK, Phases, TaskStates
    <2> QED BY <2>1, <2>2, <2>3 DEF TypeOK
  <1>2. TypeOK /\ [Next]_vars => TypeOK'
    <2> SUFFICES ASSUME TypeOK, [Next]_vars PROVE TypeOK'
      OBVIOUS
    <2>1. CASE RotateLink
      <3>1. RelayTypeOK'
        BY <2>1 DEF RotateLink, TypeOK, RelayTypeOK
      <3>2. ConnectionTypeOK' /\ AgentTypeOK'
        BY <2>1 DEF RotateLink, TypeOK, ConnectionTypeOK, AgentTypeOK
      <3> QED BY <3>1, <3>2 DEF TypeOK
    <2>2. CASE UNCHANGED vars
      BY <2>2 DEF vars, TypeOK, RelayTypeOK, ConnectionTypeOK, AgentTypeOK
    <2> QED BY <2>1, <2>2, WaiterTypes, RelayTypes, SocketTypes, ReceiveTypes,
               TaskTypes DEF Next
  <1> QED BY <1>1, <1>2, PTL DEF Spec

-----------------------------------------------------------------------------
\* At most one start.  AtMostOnce is not inductive: a step that starts the
\* handler does not look at runs.  What prevents a second start of a native
\* action is that its task is created only together with its receipt, that a
\* receipt is never removed, and that a redelivery never creates a task.

StartedOnce(o) ==
    /\ journal[o].state = "absent" => task[o] = "none" /\ runs[o] = 0
    /\ rx.op = o /\ rx.pc = "fresh" => task[o] = "none" /\ runs[o] = 0
    /\ rx.op = o /\ rx.pc \in {"fresh", "duplicate", "decide"} =>
           journal[o].state # "absent"
    /\ o \in Native /\ task[o] \in {"created", "running"} => runs[o] = 0
    /\ o \in Native => runs[o] <= 1

StartInv == \A o \in Ops : StartedOnce(o)

\* Requests, the relay and the agent's reconnects start nothing.
LEMMA StartUnchanged ==
    ASSUME StartInv,
           journal' = journal, task' = task, runs' = runs,
           rx' = rx \/ rx' = Idle
    PROVE  StartInv'
  BY DEF StartInv, StartedOnce, Idle

\* The relay starts no tool handler and leaves tasks and journal alone.
LEMMA OthersStartNothing ==
    ASSUME TypeOK, StartInv,
           \/ \E o \in Ops : WaiterNext(o)
           \/ \E e \in Epochs : RelayNext(e)
           \/ RotateLink
           \/ UNCHANGED vars
    PROVE  StartInv' /\ UNCHANGED runs
  <1>1. ASSUME NEW o \in Ops, WaiterNext(o)
        PROVE  UNCHANGED <<journal, task, runs, rx>>
    <2>1. CASE Accept(o) \/ Dispatch(o) \/ Publish(o) \/ TransportFails(o)
      BY <2>1 DEF Accept, Dispatch, Publish, TransportFails, WaitFails, Answered
    <2>2. CASE ReadResult(o) \/ WaiterDies(o) \/ Deadline(o)
      BY <2>2 DEF ReadResult, WaiterDies, Deadline, WaitFails, Answered
    <2> QED BY <1>1, <2>1, <2>2 DEF WaiterNext
  <1>2. ASSUME NEW e \in Epochs, RelayNext(e)
        PROVE  UNCHANGED <<journal, task, runs, rx>>
    BY <1>2 DEF RelayNext, RelayClose, RelayReceive, Closed, PublishReply, Recover,
                DeliverRecovered, DeliverFromStream, Deliver, PublishVerdict
  <1>3. CASE RotateLink
    BY <1>3, StartUnchanged DEF RotateLink
  <1>4. CASE UNCHANGED vars
    BY <1>4, StartUnchanged DEF vars
  <1> QED BY <1>1, <1>2, <1>3, <1>4, StartUnchanged

\* Connecting, replaying and leaving start no tool handler.
LEMMA SocketStartsNothing ==
    ASSUME TypeOK, StartInv, SocketNext
    PROVE  StartInv' /\ UNCHANGED runs
  <1>1. CASE Restart
    BY <1>1 DEF Restart, StartInv, StartedOnce, Idle, TypeOK, AgentTypeOK
  <1>2. CASE ~Restart
    BY <1>2, StartUnchanged
       DEF SocketNext, Connect, ReceiveWelcome, ResetSequence, ReadUnacknowledged,
           Ready, AgentDrop, LeaveSocket
  <1> QED BY <1>1, <1>2

\* The receive loop creates the task of a native action with its receipt only.
LEMMA ReceiveStarts ==
    ASSUME TypeOK, StartInv, NEW o \in Ops, ReceiveNext(o)
    PROVE  StartInv' /\ UNCHANGED runs
  <1>1. CASE ReceiveOperation(o)
    <2>1. CASE journal' = journal /\ (rx' = rx \/ rx' = Idle)
      BY <1>1, <2>1, StartUnchanged DEF ReceiveOperation, Refuse
    <2>2. CASE /\ rx' = [pc |-> IF Inserts(journal[o]) THEN "fresh" ELSE "duplicate",
                         op |-> o, prior |-> Null]
               /\ journal' = [journal EXCEPT ![o] = RecordReceived(@, agEpoch)]
               /\ UNCHANGED <<task, runs>>
      <3>1. RecordReceived(journal[o], agEpoch).state # "absent"
        BY DEF RecordReceived, Inserts, TypeOK, AgentTypeOK, JournalRows
      <3>2. \A q \in Ops : q # o => journal'[q] = journal[q]
        BY <2>2 DEF TypeOK, AgentTypeOK
      <3>3. journal'[o].state # "absent"
        BY <2>2, <3>1 DEF TypeOK, AgentTypeOK
      <3>4. StartedOnce(o)'
        BY <2>2, <3>3 DEF StartInv, StartedOnce, Inserts
      <3>5. ASSUME NEW q \in Ops, q # o PROVE StartedOnce(q)'
        BY <2>2, <3>2, <3>5 DEF StartInv, StartedOnce
      <3> QED BY <1>1, <2>2, <3>4, <3>5 DEF StartInv
    <2> QED BY <1>1, <2>1, <2>2 DEF ReceiveOperation, Refuse, Raised, LeaveSocket
  <1>2. CASE SendReceived(o)
    <2>1. CASE rx' = Idle /\ UNCHANGED task
      BY <1>2, <2>1, StartUnchanged DEF SendReceived
    <2>2. CASE /\ rx.op = o /\ rx.pc = "fresh" /\ rx' = Idle
               /\ task' = [task EXCEPT ![o] = "created"]
               /\ UNCHANGED <<journal, runs>>
      BY <2>2 DEF StartInv, StartedOnce, Idle, TypeOK, AgentTypeOK
    <2>3. CASE /\ rx.op = o /\ rx.pc = "duplicate"
               /\ rx' = [rx EXCEPT !.pc = "decide", !.prior = journal[o].result]
               /\ UNCHANGED <<task, journal, runs>>
      BY <2>3 DEF StartInv, StartedOnce, TypeOK, AgentTypeOK
    <2> QED BY <1>2, <2>1, <2>2, <2>3 DEF SendReceived, Raised, LeaveSocket
  <1>3. CASE Redelivered(o)
    <2>1. CASE rx' = Idle /\ UNCHANGED <<task, journal>>
      BY <1>3, <2>1, StartUnchanged DEF Redelivered
    <2>2. CASE /\ journal' = [journal EXCEPT ![o] =
                      TransitionOperation(@, "outcome_unknown", "uncertain")]
               /\ rx' = [rx EXCEPT !.pc = "uncertain"]
               /\ UNCHANGED <<task, runs>>
      BY <2>2 DEF StartInv, StartedOnce, TransitionOperation, TypeOK, AgentTypeOK,
                  JournalRows
    <2>3. CASE /\ o \notin Native /\ rx.op = o /\ rx.pc = "decide" /\ rx' = Idle
               /\ task' = [task EXCEPT ![o] = "created"]
               /\ UNCHANGED <<journal, runs>>
      BY <2>3 DEF StartInv, StartedOnce, Idle, TypeOK, AgentTypeOK
    <2> QED BY <1>3, <2>1, <2>2, <2>3 DEF Redelivered, Raised, LeaveSocket
  <1>4. CASE MarkAcknowledged(o)
    BY <1>4 DEF MarkAcknowledged, AcknowledgeTerminal, StartInv, StartedOnce, TypeOK,
                AgentTypeOK, JournalRows
  <1>5. CASE ReceiveAck(o)
    BY <1>5 DEF ReceiveAck, StartInv, StartedOnce, Idle
  <1>6. CASE Replay(o) \/ SendUncertain(o) \/ ForgetTerminal(o)
    BY <1>6, StartUnchanged DEF Replay, SendUncertain, ForgetTerminal, Raised,
                                LeaveSocket
  <1> QED BY <1>1, <1>2, <1>3, <1>4, <1>5, <1>6 DEF ReceiveNext

\* A task that goes on without starting the handler.
LEMMA TaskGoesOn ==
    ASSUME TypeOK, StartInv, NEW o \in Ops, task[o] # "none",
           UNCHANGED <<runs, rx>>,
           \A q \in Ops : journal'[q].state = "absent" => journal[q].state = "absent",
           \A q \in Ops \ {o} : task'[q] = task[q],
           task'[o] # "created", task'[o] = "running" => task[o] = "created"
    PROVE  StartInv'
  <1>1. journal[o].state # "absent"
    BY DEF StartInv, StartedOnce
  <1>2. StartedOnce(o)'
    BY <1>1 DEF StartInv, StartedOnce
  <1>3. ASSUME NEW q \in Ops, q # o PROVE StartedOnce(q)'
    BY <1>3 DEF StartInv, StartedOnce
  <1> QED BY <1>2, <1>3 DEF StartInv

\* A journaled receipt is never removed.
LEMMA EntryStays ==
    ASSUME TypeOK, NEW o \in Ops, NEW s \in JournalStates \ {"absent"}, NEW r,
           journal' = [journal EXCEPT ![o] = TransitionOperation(@, s, r)]
    PROVE  \A q \in Ops : journal'[q].state = "absent" => journal[q].state = "absent"
  BY DEF TransitionOperation, TypeOK, AgentTypeOK, JournalRows

\* Only the task starts the handler, and it passes that point once.
LEMMA TaskStarts ==
    ASSUME TypeOK, StartInv, NEW o \in Ops, TaskNext(o)
    PROVE  /\ StartInv'
           /\ \/ UNCHANGED runs
              \/ /\ o \in Native => runs[o] = 0
                 /\ runs' = [runs EXCEPT ![o] = @ + 1]
                 /\ UNCHANGED op
  <1>1. CASE HandlerStarts(o)
    BY <1>1 DEF HandlerStarts, TaskStep, StartInv, StartedOnce, TypeOK, AgentTypeOK
  <1>2. CASE TaskBegins(o)
    <2>1. "running" \in JournalStates \ {"absent"}
      BY DEF JournalStates
    <2>2. \A q \in Ops : journal'[q].state = "absent" => journal[q].state = "absent"
      BY <1>2, <2>1, EntryStays DEF TaskBegins
    <2>3. /\ \A q \in Ops \ {o} : task'[q] = task[q]
          /\ task'[o] \in {"running", "none"} /\ task[o] = "created"
          /\ UNCHANGED <<runs, rx>>
      BY <1>2 DEF TaskBegins, TaskStep, TypeOK, AgentTypeOK
    <2> QED BY <2>2, <2>3, TaskGoesOn
  <1>3. CASE JournalTerminalResult(o)
    <2>1. TerminalState(taskResult[o]) \in JournalStates \ {"absent"}
      BY DEF TerminalState, JournalStates, JournalTerminal
    <2>2. \A q \in Ops : journal'[q].state = "absent" => journal[q].state = "absent"
      BY <1>3, <2>1, EntryStays DEF JournalTerminalResult
    <2>3. /\ \A q \in Ops \ {o} : task'[q] = task[q]
          /\ task'[o] \in {"sending", "none"} /\ task[o] = "finishing"
          /\ UNCHANGED <<runs, rx>>
      BY <1>3 DEF JournalTerminalResult, TaskStep, TypeOK, AgentTypeOK
    <2> QED BY <2>2, <2>3, TaskGoesOn
  <1>4. CASE \/ BudgetElapsesEarly(o) \/ StartFails(o) \/ HandlerReturns(o)
             \/ SendResult(o)
    BY <1>4 DEF BudgetElapsesEarly, StartFails, HandlerReturns, SendResult, TaskStep,
                StartInv, StartedOnce, TypeOK, AgentTypeOK
  <1> QED BY <1>1, <1>2, <1>3, <1>4 DEF TaskNext

\* StartInv is inductive.
LEMMA StartInductive == TypeOK /\ StartInv /\ [Next]_vars => StartInv'
  BY OthersStartNothing, SocketStartsNothing, ReceiveStarts, TaskStarts DEF Next

\* StartInv holds in every reachable state.
LEMMA StartCorrect == Spec => []StartInv
  <1>1. Init => StartInv
    <2> SUFFICES ASSUME Init, NEW o \in Ops PROVE StartedOnce(o)
      BY DEF StartInv
    <2>1. rx.pc = "idle" /\ runs[o] = 0 /\ task[o] = "none"
      BY DEF Init, Idle
    <2> QED BY <2>1 DEF StartedOnce
  <1> QED BY <1>1, TypeCorrect, StartInductive, PTL DEF Spec

\* The agent never starts a native action twice, whatever is lost, redelivered,
\* replayed or restarted, and however often.
THEOREM NativeActionsRunAtMostOnce == Spec => []AtMostOnce
  <1>1. StartInv => AtMostOnce
    BY TunnelAssumption DEF StartInv, StartedOnce, AtMostOnce
  <1> QED BY <1>1, StartCorrect, PTL
=============================================================================
