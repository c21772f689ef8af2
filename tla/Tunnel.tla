------------------------------- MODULE Tunnel -------------------------------
(***************************************************************************)
(* The durable dispatch protocol between the relay and one device agent:   *)
(* the waiting MCP requests (relay core/dispatch.py), the device           *)
(* connections of the relay (relay core/websocket.py), the sockets between *)
(* them, and the agent's connection, receive loop, operation tasks and     *)
(* journal (agent websocket_client.py, db.py).                             *)
(*                                                                         *)
(* Every await of the Python code at which another task may run separates  *)
(* two actions, except where the README argues that the order cannot be    *)
(* observed.  A connection is identified by its epoch.  Sockets are FIFO   *)
(* and lose everything that is unread when either end goes away.           *)
(***************************************************************************)
EXTENDS AgentJournal, Sequences, FiniteSets

CONSTANTS
    Native,         \* the actions the agent never repeats; the code has
                    \* Native = Unsafe, each end deciding by itself
    Replies,        \* what tool handlers return: a subset of the results
    Expiring,       \* bound: the operations whose deadline may pass
    FastClock,      \* TRUE if the host clock may run ahead of the relay's
    MaxPending,     \* max_pending of the agent
    MaxEpoch,       \* bound: connections
    MaxCrashes,     \* bound: deaths of an agent or of a waiting request
    MaxRotations,   \* bound: rotations of the device link
    MaxFaults       \* bound: deaths and rotations together

ASSUME TunnelAssumption ==
    /\ Native \subseteq Ops /\ Expiring \subseteq Ops
    /\ Replies \subseteq {"ok", "image", "invalid", "error", "denied"}
    /\ FastClock \in BOOLEAN
    /\ {MaxPending, MaxEpoch, MaxCrashes, MaxRotations, MaxFaults} \subseteq Nat

Epochs == 1 .. MaxEpoch

VARIABLES
    \* relay, durable
    op,             \* the Operation rows
    devEpoch,       \* Device.connection_epoch
    link,           \* generation of the device's active link
    opLink,         \* generation of the link an operation was admitted under
    elapsed,        \* operations whose deadline_at has passed on the relay
    \* relay, waiting requests and Redis streams
    waiter,         \* progress of dispatch_tool for each operation
    answer,         \* what the client was told: <<>>, <<"result", p>>, <<"error", c>>
    dispatchStream, \* the device's dispatch stream
    published,      \* first entry of an operation's result stream
    \* relay, one device_websocket per connection
    conn,           \* "none", "open" or "closed"
    recovery,       \* correlations still to be redelivered at connection start
    cursor,         \* next index of the dispatch stream; 0 before recovery
    reply,          \* receive loop: recorded result that is not published yet
    verdict,        \* dispatch loop: derived failure that is not published yet
    up, down,       \* frames in flight to the relay and to the agent
    \* agent
    phase,          \* progress of run(): "off" while there is no socket
    sock,           \* the connection self._socket belongs to
    ticket,         \* link generation of the connection ticket
    agEpoch,        \* self._epoch
    outSeq,         \* self._out_sequence
    rx,             \* the message being handled by _receive
    replayQ,        \* terminals _replay_pending_terminals still has to send
    task,           \* progress of _dispatch for each operation
    taskResult,     \* the payload it has computed
    budgets,        \* keys of _operation_budgets
    pending,        \* _terminal_pending: unacknowledged payloads
    crashes,        \* deaths so far, on either side
    journal,        \* agent, durable: the operations table
    \* history
    runs,           \* how often the tool handler was started
    refused         \* operations answered by _send_failure

relayVars == <<op, devEpoch, link, opLink, elapsed>>
waitVars == <<waiter, answer, dispatchStream, published>>
connVars == <<conn, recovery, cursor, reply, verdict>>
sockVars == <<phase, sock, ticket, agEpoch, crashes>>
taskVars == <<task, taskResult, budgets, runs>>
vars == <<relayVars, waitVars, connVars, up, down, sockVars, outSeq, rx,
          replayQ, taskVars, pending, journal, refused>>

NoEntry == [epoch |-> 0, payload |-> Null]
Idle == [pc |-> "idle", op |-> 0, prior |-> Null]
NoReplay == [o \in Ops |-> Null]
OperationFrame(o) == [kind |-> "operation", op |-> o]
AckFrame(o) == [kind |-> "ack", op |-> o]

WaiterStates == {"none", "accepted", "marked", "waiting", "done", "gone"}
Phases == {"off", "connecting", "welcomed", "reset", "replaying", "ready"}
TaskStates == {"none", "created", "running", "started", "finishing", "sending"}
RxStates == {"idle", "fresh", "duplicate", "decide", "uncertain", "ack", "ack_pop"}

Init ==
    /\ op = [o \in Ops |-> AbsentRow]
    /\ devEpoch = 0 /\ link = 0 /\ elapsed = {}
    /\ opLink = [o \in Ops |-> 0]
    /\ waiter = [o \in Ops |-> "none"]
    /\ answer = [o \in Ops |-> <<>>]
    /\ dispatchStream = <<>>
    /\ published = [o \in Ops |-> NoEntry]
    /\ conn = [e \in Epochs |-> "none"]
    /\ recovery = [e \in Epochs |-> {}]
    /\ cursor = [e \in Epochs |-> 0]
    /\ reply = [e \in Epochs |-> <<>>]
    /\ verdict = [e \in Epochs |-> <<>>]
    /\ up = [e \in Epochs |-> <<>>]
    /\ down = [e \in Epochs |-> <<>>]
    /\ phase = "off" /\ sock = 0 /\ ticket = 0 /\ agEpoch = 0
    /\ outSeq = 0 /\ crashes = 0
    /\ rx = Idle /\ replayQ = NoReplay
    /\ task = [o \in Ops |-> "none"]
    /\ taskResult = [o \in Ops |-> Null]
    /\ budgets = {}
    /\ pending = [o \in Ops |-> Null]
    /\ journal = [o \in Ops |-> AbsentEntry]
    /\ runs = [o \in Ops |-> 0]
    /\ refused = {}

-----------------------------------------------------------------------------
\* The waiting request: dispatch_tool.

\* Admission.  The device was online when the route was looked up, so it has
\* had a connection; by now that one may be gone.
Accept(o) ==
    /\ waiter[o] = "none" /\ devEpoch > 0
    /\ \A p \in Ops : p < o => op[p].status # "absent"
    /\ \E e \in 1 .. devEpoch : op' = [op EXCEPT ![o] = CreateOperation(e)]
    /\ opLink' = [opLink EXCEPT ![o] = link]
    /\ waiter' = [waiter EXCEPT ![o] = "accepted"]
    /\ UNCHANGED <<devEpoch, link, elapsed, answer, dispatchStream, published,
                   connVars, up, down, sockVars, outSeq, rx, replayQ, taskVars,
                   pending, journal, refused>>

Dispatch(o) ==
    /\ waiter[o] = "accepted"
    /\ op' = [op EXCEPT ![o] = MarkDispatched(@)]
    /\ waiter' = [waiter EXCEPT ![o] = "marked"]
    /\ UNCHANGED <<devEpoch, link, opLink, elapsed, answer, dispatchStream,
                   published, connVars, up, down, sockVars, outSeq, rx, replayQ,
                   taskVars, pending, journal, refused>>

\* publish_and_wait: the xadd to the device's dispatch stream.
Publish(o) ==
    /\ waiter[o] = "marked"
    /\ dispatchStream' = Append(dispatchStream, o)
    /\ waiter' = [waiter EXCEPT ![o] = "waiting"]
    /\ UNCHANGED <<relayVars, answer, published, connVars, up, down, sockVars,
                   outSeq, rx, replayQ, taskVars, pending, journal, refused>>

\* The exception paths of dispatch_tool around publish_and_wait.
Answered(o, a) ==
    /\ waiter' = [waiter EXCEPT ![o] = "done"]
    /\ answer' = [answer EXCEPT ![o] = a]
    /\ published' = [published EXCEPT ![o] = NoEntry]
    /\ UNCHANGED <<devEpoch, link, opLink, elapsed, dispatchStream,
                   connVars, up, down, sockVars, outSeq, rx, replayQ, taskVars,
                   pending, journal, refused>>

WaitFails(o, code) ==
    LET c == DeliveryFailure(o, code) IN
    /\ op' = [op EXCEPT ![o] = MarkDeliveryFailure(@, c)]
    /\ Answered(o, <<"error", c>>)

\* publish_and_wait times out or Redis is unreachable; a result may arrive
\* before the row is closed.  "operation_timeout" stands for
\* "relay_unavailable" as well: no code tells the two apart.
TransportFails(o) ==
    waiter[o] \in {"marked", "waiting"} /\ WaitFails(o, "operation_timeout")

\* The first result of the stream is taken if it carries the row's epoch.
ReadResult(o) ==
    /\ waiter[o] = "waiting" /\ published[o] # NoEntry
    /\ IF published[o].epoch # op[o].epoch
       THEN WaitFails(o, "protocol_error")
       ELSE /\ op' = [op EXCEPT ![o] = Finish(@, published[o].payload)]
            /\ Answered(o, <<"result", published[o].payload>>)

\* The relay process dies or the client goes away: CancelledError is not
\* caught, so the row stays as it is.
WaiterDies(o) ==
    /\ waiter[o] \in {"accepted", "marked", "waiting"}
    /\ crashes < MaxCrashes /\ crashes + link < MaxFaults
    /\ crashes' = crashes + 1
    /\ waiter' = [waiter EXCEPT ![o] = "gone"]
    /\ published' = [published EXCEPT ![o] = NoEntry]
    /\ UNCHANGED <<relayVars, answer, dispatchStream, connVars, up,
                   down, phase, sock, ticket, agEpoch, outSeq, rx, replayQ, taskVars, pending,
                   journal, refused>>

\* deadline_at passes.
Deadline(o) ==
    /\ op[o].status # "absent" /\ o \in Expiring \ elapsed
    /\ elapsed' = elapsed \cup {o}
    /\ UNCHANGED <<op, devEpoch, link, opLink, waitVars, connVars, up, down,
                   sockVars, outSeq, rx, replayQ, taskVars, pending, journal,
                   refused>>

\* rotate_device_link: operations admitted so far belong to a revoked link.
RotateLink ==
    /\ link < MaxRotations /\ crashes + link < MaxFaults
    /\ link' = link + 1
    /\ UNCHANGED <<op, devEpoch, opLink, elapsed, waitVars, connVars, up, down,
                   sockVars, outSeq, rx, replayQ, taskVars, pending, journal,
                   refused>>

-----------------------------------------------------------------------------
\* The relay's end of a connection: device_websocket.

\* The end of any of its three loops cancels the others.
Closed(e) ==
    /\ conn' = [conn EXCEPT ![e] = "closed"]
    /\ recovery' = [recovery EXCEPT ![e] = {}]
    /\ cursor' = [cursor EXCEPT ![e] = 0]
    /\ reply' = [reply EXCEPT ![e] = <<>>]
    /\ verdict' = [verdict EXCEPT ![e] = <<>>]
    /\ up' = [up EXCEPT ![e] = <<>>]
    /\ UNCHANGED <<relayVars, waitVars, down, sockVars, outSeq, rx,
                   replayQ, taskVars, pending, journal, refused>>

\* The socket is lost, the heartbeat is overdue, the process dies, or a newer
\* connection has fenced this one off.
RelayClose(e) == conn[e] = "open" /\ Closed(e)

\* The connection may write rows: it is the device's newest one, which is
\* checked in the transaction that writes.
AuthoritativeWhileOpen(e) == conn[e] = "open"
Authoritative(e) == conn[e] = "open" /\ e = devEpoch

\* A frame sent by the relay; it is lost if the agent has left the socket.
SendDown(e, frame) ==
    down' = IF phase # "off" /\ sock = e
            THEN [down EXCEPT ![e] = Append(@, frame)] ELSE down

\* _receive_loop with _record_device_message.
RelayReceive(e) ==
    /\ Authoritative(e)
    /\ up[e] # <<>> /\ reply[e] = <<>>
    /\ LET m == Head(up[e]) IN
       IF m.epoch # e \/ RejectsMessage(op[m.op], e, m)
       THEN Closed(e)
       ELSE /\ op' = [op EXCEPT ![m.op] = RecordDeviceMessage(@, e, m)]
            /\ up' = [up EXCEPT ![e] = Tail(@)]
            /\ reply' = [reply EXCEPT ![e] =
                  IF m.kind = "result"
                  THEN <<m.op, Normalize(m.op, m.payload)>> ELSE <<>>]
            /\ UNCHANGED <<devEpoch, link, opLink, elapsed, waitVars, conn,
                           recovery, cursor, verdict, down, sockVars, outSeq, rx,
                           replayQ, taskVars, pending, journal, refused>>

\* xadd to the result stream of the operation.  Only the first entry is ever
\* read, by the waiting request, so nothing else is kept.
PublishResult(e, o, p) ==
    published' = IF published[o] = NoEntry /\ waiter[o] \notin {"done", "gone"}
                 THEN [published EXCEPT ![o] = [epoch |-> e, payload |-> p]]
                 ELSE published

\* The recorded result is published, then acknowledged to the device.
PublishReply(e) ==
    /\ reply[e] # <<>>
    /\ PublishResult(e, reply[e][1], reply[e][2])
    /\ SendDown(e, AckFrame(reply[e][1]))
    /\ reply' = [reply EXCEPT ![e] = <<>>]
    /\ UNCHANGED <<relayVars, waiter, answer, dispatchStream, conn, recovery,
                   cursor, verdict, up, sockVars, outSeq, rx, replayQ, taskVars,
                   pending, journal, refused>>

\* _recover_unsent_operations reads its list when the dispatch loop starts.
Recover(e) ==
    /\ conn[e] = "open" /\ cursor[e] = 0
    /\ recovery' = [recovery EXCEPT ![e] = {o \in Ops : Recoverable(op[o])}]
    /\ cursor' = [cursor EXCEPT ![e] = 1]
    /\ UNCHANGED <<relayVars, waitVars, conn, reply, verdict, up, down, sockVars,
                   outSeq, rx, replayQ, taskVars, pending, journal, refused>>

\* _deliver_operation.  An open row is sent, or closed with a failure that is
\* published in a step of its own; for a closed row nothing happens.
Deliver(e, o) ==
    LET v == DispatchVerdict(o, op[o], o \in elapsed, opLink[o] # link) IN
    /\ Authoritative(e) /\ verdict[e] = <<>>
    /\ IF op[o].status \in Nonterminal
       THEN /\ op' = [op EXCEPT ![o] = PrepareDispatch(@, e, v)]
            /\ IF v = Null
               THEN SendDown(e, OperationFrame(o)) /\ UNCHANGED verdict
               ELSE verdict' = [verdict EXCEPT ![e] = <<o, v>>] /\ UNCHANGED down
       ELSE UNCHANGED <<op, verdict, down>>
    /\ UNCHANGED <<devEpoch, link, opLink, elapsed, waitVars, conn, reply, up,
                   sockVars, outSeq, rx, replayQ, taskVars, pending, journal,
                   refused>>

\* Redelivery at connection start, oldest first ...
DeliverRecovered(e) ==
    \E o \in recovery[e] :
        /\ \A p \in recovery[e] : o <= p
        /\ recovery' = [recovery EXCEPT ![e] = @ \ {o}]
        /\ Deliver(e, o)
        /\ UNCHANGED cursor

\* ... then the dispatch stream, from its first entry on every connection.
DeliverFromStream(e) ==
    /\ recovery[e] = {} /\ cursor[e] \in 1 .. Len(dispatchStream)
    /\ cursor' = [cursor EXCEPT ![e] = @ + 1]
    /\ Deliver(e, dispatchStream[cursor[e]])
    /\ UNCHANGED recovery

PublishVerdict(e) ==
    /\ verdict[e] # <<>>
    /\ PublishResult(e, verdict[e][1], verdict[e][2])
    /\ verdict' = [verdict EXCEPT ![e] = <<>>]
    /\ UNCHANGED <<relayVars, waiter, answer, dispatchStream, conn, recovery,
                   cursor, reply, up, down, sockVars, outSeq, rx, replayQ,
                   taskVars, pending, journal, refused>>

-----------------------------------------------------------------------------
\* The agent's connection: DeviceWebSocketClient.run.

\* _consume_ticket raises the epoch and the relay opens its end; the agent
\* assigns self._socket before it has read the WELCOME.  The link may have been
\* rotated since the ticket was issued.
Connect ==
    /\ phase = "off" /\ devEpoch < MaxEpoch
    /\ devEpoch' = devEpoch + 1
    /\ conn' = [conn EXCEPT ![devEpoch + 1] = "open"]
    /\ phase' = "connecting" /\ sock' = devEpoch + 1
    /\ ticket' \in ticket .. link
    /\ UNCHANGED <<op, link, opLink, elapsed, waitVars, recovery, cursor, reply,
                   verdict, up, down, agEpoch, crashes, outSeq, rx, replayQ,
                   taskVars, pending, journal, refused>>

\* _receive_welcome adopts the relay's epoch ...
ReceiveWelcome ==
    /\ phase = "connecting"
    /\ phase' = "welcomed" /\ agEpoch' = sock
    /\ UNCHANGED <<relayVars, waitVars, connVars, up, down, sock, ticket,
                   crashes, outSeq, rx, replayQ, taskVars, pending, journal,
                   refused>>

\* ... and after the epoch is stored the sequence starts again.  The memory
\* half of _replay_pending_terminals is snapshot here.
ResetSequence ==
    /\ phase = "welcomed"
    /\ phase' = "reset" /\ outSeq' = 0 /\ replayQ' = pending
    /\ UNCHANGED <<relayVars, waitVars, connVars, up, down, sock, ticket,
                   agEpoch, crashes, rx, taskVars, pending, journal, refused>>

\* Its durable half: a journaled terminal replaces what memory holds.
ReadUnacknowledged ==
    /\ phase = "reset"
    /\ phase' = "replaying"
    /\ replayQ' = [o \in Ops |-> IF Unacknowledged(journal[o])
                                 THEN journal[o].result ELSE replayQ[o]]
    /\ UNCHANGED <<relayVars, waitVars, connVars, up, down, sock, ticket,
                   agEpoch, crashes, outSeq, rx, taskVars, pending, journal,
                   refused>>

\* Leaving the socket.  Operation tasks go on; what is unread is lost.
LeaveSocket ==
    /\ phase' = "off" /\ sock' = 0
    /\ rx' = Idle /\ replayQ' = NoReplay
    /\ down' = [e \in Epochs |-> <<>>]
    /\ UNCHANGED <<ticket, agEpoch>>

\* The socket is lost, or reconnect() closes it.
AgentDrop ==
    /\ phase # "off"
    /\ LeaveSocket
    /\ UNCHANGED <<relayVars, waitVars, connVars, up, crashes, outSeq, taskVars,
                   pending, journal, refused>>

\* The agent stops, or its process dies: only the journal survives.
Restart ==
    /\ crashes < MaxCrashes /\ crashes + link < MaxFaults
    /\ crashes' = crashes + 1
    /\ phase' = "off" /\ sock' = 0 /\ ticket' = 0 /\ agEpoch' = 0
    /\ rx' = Idle /\ replayQ' = NoReplay
    /\ down' = [e \in Epochs |-> <<>>]
    /\ outSeq' = 0
    /\ task' = [o \in Ops |-> "none"]
    /\ taskResult' = [o \in Ops |-> Null]
    /\ budgets' = {}
    /\ pending' = [o \in Ops |-> Null]
    /\ UNCHANGED <<relayVars, waitVars, connVars, up, runs, journal, refused>>

\* _send_new and _send, when no exception is raised.  Without a socket the
\* envelope is dropped; so is one written to a socket whose loss has not been
\* noticed.  A terminal envelope is remembered until it is acknowledged.
Send(kind, o, p) ==
    /\ outSeq' = outSeq + 1
    /\ pending' = IF kind = "result" THEN [pending EXCEPT ![o] = p] ELSE pending
    /\ up' = IF phase # "off" /\ conn[sock] = "open"
             THEN [up EXCEPT ![sock] =
                      Append(@, [kind |-> kind, op |-> o, payload |-> p,
                                 epoch |-> agEpoch, seq |-> outSeq + 1])]
             ELSE up

\* The write fails because the socket is closed.
SendRaises(kind, o, p) ==
    /\ phase # "off" /\ conn[sock] = "closed"
    /\ outSeq' = outSeq + 1
    /\ pending' = IF kind = "result" THEN [pending EXCEPT ![o] = p] ELSE pending
    /\ up' = up

\* An exception in run() ends the connection.
Raised(kind, o, p) ==
    /\ SendRaises(kind, o, p)
    /\ LeaveSocket

Replay(o) ==
    /\ phase = "replaying" /\ replayQ[o] # Null
    /\ \/ /\ Send("result", o, replayQ[o])
          /\ replayQ' = [replayQ EXCEPT ![o] = Null]
          /\ UNCHANGED <<phase, sock, ticket, agEpoch, rx, down>>
       \/ Raised("result", o, replayQ[o])
    /\ UNCHANGED <<relayVars, waitVars, connVars, crashes, taskVars, journal,
                   refused>>

Ready ==
    /\ phase = "replaying" /\ replayQ = NoReplay
    /\ phase' = "ready"
    /\ UNCHANGED <<relayVars, waitVars, connVars, up, down, sock, ticket, agEpoch,
                   crashes, outSeq, rx, replayQ, taskVars, pending, journal,
                   refused>>

-----------------------------------------------------------------------------
\* The agent's receive loop: _receive handles one frame at a time.

Takes(kind, o) ==
    /\ phase = "ready" /\ rx = Idle
    /\ down[sock] # <<>>
    /\ Head(down[sock]).kind = kind /\ Head(down[sock]).op = o

TakeFrame == down' = [down EXCEPT ![sock] = Tail(@)]

ActiveTasks == {o \in Ops : task[o] # "none"}

\* _send_failure answers a delivery without journaling it.
Refuse(o, p) ==
    /\ refused' = refused \cup {o}
    /\ \/ /\ Send("result", o, p) /\ TakeFrame
          /\ UNCHANGED <<phase, sock, ticket, agEpoch, rx, replayQ>>
       \/ Raised("result", o, p)
    /\ UNCHANGED <<relayVars, waitVars, connVars, crashes, task, taskResult, runs,
                   journal>>

\* Budgets whose deadline has passed are dropped unless their task is active.
KeptBudgets == {kept \in SUBSET budgets : budgets \cap ActiveTasks \subseteq kept}

QueueFull(o, kept) ==
    \/ Cardinality(ActiveTasks) >= MaxPending
    \/ Cardinality(kept) >= MaxPending /\ o \notin kept

\* An operation of another link is a binding_mismatch.  Otherwise the limits
\* come first, then the deadline, then the journal.
ReceiveOperation(o) ==
    /\ Takes("operation", o)
    /\ \/ /\ opLink[o] # ticket
          /\ LeaveSocket
          /\ UNCHANGED <<relayVars, waitVars, connVars, up, crashes, outSeq,
                         taskVars, pending, journal, refused>>
       \/ \E kept \in KeptBudgets :
          /\ opLink[o] = ticket
          /\ budgets' = kept
          /\ \/ QueueFull(o, kept) /\ Refuse(o, "queue_full")
             \/ /\ ~QueueFull(o, kept)
                /\ FastClock \/ o \in elapsed
                /\ Refuse(o, "elapsed")
             \/ /\ ~QueueFull(o, kept)
                /\ rx' = [pc |-> IF Inserts(journal[o]) THEN "fresh" ELSE "duplicate",
                          op |-> o, prior |-> Null]
                /\ journal' = [journal EXCEPT ![o] = RecordReceived(@, agEpoch)]
                /\ TakeFrame
                /\ UNCHANGED <<relayVars, waitVars, connVars, up, sockVars,
                               outSeq, replayQ, task, taskResult, runs, pending,
                               refused>>

\* OPERATION_RECEIVED is sent once the receipt is stored.  A new operation
\* then gets its task; for a known one the journal is read again.
SendReceived(o) ==
    /\ rx.op = o /\ rx.pc \in {"fresh", "duplicate"}
    /\ \/ /\ Send("received", o, Null)
          /\ IF rx.pc = "fresh"
             THEN /\ rx' = Idle
                  /\ task' = [task EXCEPT ![o] = "created"]
                  /\ budgets' = budgets \cup {o}
             ELSE /\ rx' = [rx EXCEPT !.pc = "decide", !.prior = journal[o].result]
                  /\ UNCHANGED <<task, budgets>>
          /\ UNCHANGED <<phase, sock, ticket, agEpoch, replayQ, down>>
       \/ /\ Raised("received", o, Null)
          /\ UNCHANGED <<task, budgets>>
    /\ UNCHANGED <<relayVars, waitVars, connVars, crashes, taskResult, runs,
                   journal, refused>>

\* What to do with a redelivery: repeat the journaled result, leave a live
\* task alone, never repeat a native action, or run the operation again.
Redelivered(o) ==
    /\ rx.op = o /\ rx.pc = "decide"
    /\ \/ /\ rx.prior # Null
          /\ \/ /\ Send("result", o, rx.prior) /\ rx' = Idle
                /\ UNCHANGED <<phase, sock, ticket, agEpoch, replayQ, down>>
             \/ Raised("result", o, rx.prior)
          /\ UNCHANGED <<task, budgets, journal>>
       \/ /\ rx.prior = Null /\ task[o] # "none"
          /\ rx' = Idle
          /\ UNCHANGED <<up, down, phase, sock, ticket, agEpoch, outSeq, replayQ,
                         task, budgets, pending, journal>>
       \/ /\ rx.prior = Null /\ task[o] = "none" /\ o \in Native
          /\ IF MayTransition(journal[o], "outcome_unknown")
             THEN /\ journal' = [journal EXCEPT ![o] =
                         TransitionOperation(@, "outcome_unknown", "uncertain")]
                  /\ rx' = [rx EXCEPT !.pc = "uncertain"]
                  /\ UNCHANGED <<down, phase, sock, ticket, agEpoch, replayQ>>
             ELSE LeaveSocket /\ UNCHANGED journal
          /\ UNCHANGED <<up, outSeq, task, budgets, pending>>
       \/ /\ rx.prior = Null /\ task[o] = "none" /\ o \notin Native
          /\ task' = [task EXCEPT ![o] = "created"]
          /\ budgets' = budgets \cup {o}
          /\ rx' = Idle
          /\ UNCHANGED <<up, down, phase, sock, ticket, agEpoch, outSeq, replayQ,
                         pending, journal>>
    /\ UNCHANGED <<relayVars, waitVars, connVars, crashes, taskResult, runs,
                   refused>>

\* _terminalize_uncertain_action sends what it has journaled.
SendUncertain(o) ==
    /\ rx.op = o /\ rx.pc = "uncertain"
    /\ \/ /\ Send("result", o, "uncertain") /\ rx' = Idle
          /\ UNCHANGED <<phase, sock, ticket, agEpoch, replayQ, down>>
       \/ Raised("result", o, "uncertain")
    /\ UNCHANGED <<relayVars, waitVars, connVars, crashes, taskVars, journal,
                   refused>>

\* A TERMINAL_ACK for a pending terminal marks the journal entry, then
\* forgets the envelope.
ReceiveAck(o) ==
    /\ Takes("ack", o) /\ TakeFrame
    /\ rx' = IF pending[o] = Null THEN Idle
             ELSE [pc |-> "ack", op |-> o, prior |-> Null]
    /\ UNCHANGED <<relayVars, waitVars, connVars, up, sockVars, outSeq, replayQ,
                   taskVars, pending, journal, refused>>

MarkAcknowledged(o) ==
    /\ rx.op = o /\ rx.pc = "ack"
    /\ journal' = [journal EXCEPT ![o] = AcknowledgeTerminal(@)]
    /\ rx' = [rx EXCEPT !.pc = "ack_pop"]
    /\ UNCHANGED <<relayVars, waitVars, connVars, up, down, sockVars, outSeq,
                   replayQ, taskVars, pending, refused>>

ForgetTerminal(o) ==
    /\ rx.op = o /\ rx.pc = "ack_pop"
    /\ pending' = [pending EXCEPT ![o] = Null]
    /\ rx' = Idle
    /\ UNCHANGED <<relayVars, waitVars, connVars, up, down, sockVars, outSeq,
                   replayQ, taskVars, journal, refused>>

-----------------------------------------------------------------------------
\* The task of an operation: _dispatch.  It outlives the socket.

TaskStep(o, next) == task' = [task EXCEPT ![o] = next]

\* transition_operation(RUNNING); an exception here ends the task.
TaskBegins(o) ==
    /\ task[o] = "created"
    /\ IF MayTransition(journal[o], "running")
       THEN /\ TaskStep(o, "running")
            /\ journal' = [journal EXCEPT ![o] = TransitionOperation(@, "running", Null)]
       ELSE TaskStep(o, "none") /\ UNCHANGED journal
    /\ UNCHANGED <<relayVars, waitVars, connVars, up, down, sockVars, outSeq, rx,
                   replayQ, taskResult, budgets, runs, pending, refused>>

\* OPERATION_STARTED is sent and the tool handler is called.
HandlerStarts(o) ==
    /\ task[o] = "running"
    /\ TaskStep(o, "started")
    /\ runs' = [runs EXCEPT ![o] = @ + 1]
    /\ Send("started", o, Null)
    /\ UNCHANGED <<relayVars, waitVars, connVars, down, sockVars, rx, replayQ,
                   taskResult, budgets, journal, refused>>

\* The budget runs out before the handler is called.
BudgetElapsesEarly(o) ==
    /\ task[o] = "running"
    /\ TaskStep(o, "finishing")
    /\ taskResult' = [taskResult EXCEPT ![o] = "late"]
    /\ UNCHANGED <<relayVars, waitVars, connVars, up, down, sockVars, outSeq, rx,
                   replayQ, budgets, runs, pending, journal, refused>>

\* OPERATION_STARTED cannot be written: reported as an internal error.
StartFails(o) ==
    /\ task[o] = "running"
    /\ TaskStep(o, "finishing")
    /\ taskResult' = [taskResult EXCEPT ![o] = "error"]
    /\ SendRaises("started", o, Null)
    /\ UNCHANGED <<relayVars, waitVars, connVars, down, sockVars, rx, replayQ,
                   budgets, runs, journal, refused>>

\* The handler returns or fails, or its budget runs out: then nobody knows
\* whether a native action has taken place.
HandlerReturns(o) ==
    /\ task[o] = "started"
    /\ TaskStep(o, "finishing")
    /\ \E p \in Replies \cup {IF o \in Native THEN "unknown" ELSE "late"} :
           taskResult' = [taskResult EXCEPT ![o] = p]
    /\ UNCHANGED <<relayVars, waitVars, connVars, up, down, sockVars, outSeq, rx,
                   replayQ, budgets, runs, pending, journal, refused>>

\* The terminal is journaled, without screenshot bytes, before it is sent.
JournalTerminalResult(o) ==
    LET p == taskResult[o] IN
    /\ task[o] = "finishing"
    /\ IF MayTransition(journal[o], TerminalState(p))
       THEN /\ TaskStep(o, "sending")
            /\ journal' = [journal EXCEPT ![o] =
                   TransitionOperation(@, TerminalState(p), Durable(p))]
            /\ budgets' = budgets \ {o}
            /\ UNCHANGED taskResult
       ELSE /\ TaskStep(o, "none")
            /\ taskResult' = [taskResult EXCEPT ![o] = Null]
            /\ UNCHANGED <<journal, budgets>>
    /\ UNCHANGED <<relayVars, waitVars, connVars, up, down, sockVars, outSeq, rx,
                   replayQ, runs, pending, refused>>

SendAcknowledges(o) ==
    /\ task[o] = "sending"
    /\ TaskStep(o, "none")
    /\ taskResult' = [taskResult EXCEPT ![o] = Null]
    /\ Send("result", o, taskResult[o])
    /\ journal' = [journal EXCEPT ![o] = AcknowledgeTerminal(@)]
    /\ UNCHANGED <<relayVars, waitVars, connVars, down, sockVars, rx, replayQ,
                   budgets, runs, refused>>
SendResult(o) ==
    /\ task[o] = "sending"
    /\ TaskStep(o, "none")
    /\ taskResult' = [taskResult EXCEPT ![o] = Null]
    /\ \/ Send("result", o, taskResult[o])
       \/ SendRaises("result", o, taskResult[o])
    /\ UNCHANGED <<relayVars, waitVars, connVars, down, sockVars, rx, replayQ,
                   budgets, runs, journal, refused>>

-----------------------------------------------------------------------------
WaiterNext(o) ==
    \/ Accept(o) \/ Dispatch(o) \/ Publish(o) \/ TransportFails(o)
    \/ ReadResult(o) \/ WaiterDies(o) \/ Deadline(o)

RelayNext(e) ==
    \/ RelayClose(e) \/ RelayReceive(e) \/ PublishReply(e) \/ Recover(e)
    \/ DeliverRecovered(e) \/ DeliverFromStream(e) \/ PublishVerdict(e)

SocketNext ==
    \/ Connect \/ ReceiveWelcome \/ ResetSequence \/ ReadUnacknowledged
    \/ Ready \/ AgentDrop \/ Restart

ReceiveNext(o) ==
    \/ Replay(o) \/ ReceiveOperation(o) \/ SendReceived(o) \/ Redelivered(o)
    \/ SendUncertain(o) \/ ReceiveAck(o) \/ MarkAcknowledged(o)
    \/ ForgetTerminal(o)

TaskNext(o) ==
    \/ TaskBegins(o) \/ HandlerStarts(o) \/ BudgetElapsesEarly(o)
    \/ StartFails(o) \/ HandlerReturns(o) \/ JournalTerminalResult(o)
    \/ SendResult(o)

Next ==
    \/ \E o \in Ops : WaiterNext(o) \/ ReceiveNext(o) \/ TaskNext(o)
    \/ \E e \in Epochs : RelayNext(e)
    \/ SocketNext
    \/ RotateLink

Spec == Init /\ [][Next]_vars

\* Event loops run their ready tasks, the agent reconnects with a bounded
\* backoff, and budgets and block times end every wait.  Nothing is assumed of
\* failures, of deadlines on the relay or of new requests.
Fairness ==
    /\ WF_vars(SocketNext /\ phase' # "off")
    /\ \A o \in Ops :
           /\ WF_vars(Dispatch(o)) /\ WF_vars(Publish(o))
           /\ WF_vars(ReadResult(o) \/ TransportFails(o))
           /\ WF_vars(ReceiveNext(o)) /\ WF_vars(TaskNext(o))
    /\ \A e \in Epochs :
           /\ WF_vars(RelayReceive(e)) /\ WF_vars(PublishReply(e))
           /\ WF_vars(Recover(e) \/ DeliverRecovered(e) \/ DeliverFromStream(e))
           /\ WF_vars(PublishVerdict(e))

FairSpec == Spec /\ Fairness

-----------------------------------------------------------------------------
\* Properties.

Entries == {NoEntry} \cup [epoch: Nat, payload: Payloads]

RelayTypeOK ==
    /\ op \in [Ops -> Rows]
    /\ devEpoch \in 0 .. MaxEpoch /\ link \in Nat /\ elapsed \subseteq Ops
    /\ opLink \in [Ops -> Nat]
    /\ waiter \in [Ops -> WaiterStates]
    /\ answer \in [Ops -> {<<>>} \cup ({"result"} \X Payloads)
                                 \cup ({"error"} \X ErrorCodes)]
    /\ dispatchStream \in Seq(Ops)
    /\ published \in [Ops -> Entries]

ConnectionTypeOK ==
    /\ conn \in [Epochs -> {"none", "open", "closed"}]
    /\ recovery \in [Epochs -> SUBSET Ops]
    /\ cursor \in [Epochs -> Nat]
    /\ reply \in [Epochs -> {<<>>} \cup (Ops \X Payloads)]
    /\ verdict \in [Epochs -> {<<>>} \cup (Ops \X RelayPayloads)]
    /\ up \in [Epochs -> Seq(Messages)]
    /\ down \in [Epochs -> Seq([kind: {"operation", "ack"}, op: Ops])]

SessionTypeOK ==
    /\ phase \in Phases /\ sock \in Nat /\ (phase # "off" => sock \in Epochs)
    /\ ticket \in Nat /\ agEpoch \in Nat /\ outSeq \in Nat /\ crashes \in Nat
    /\ rx \in [pc: RxStates, op: Nat, prior: DevicePayloads \cup {Null}]
    /\ replayQ \in [Ops -> DevicePayloads \cup {Null}]
    /\ pending \in [Ops -> DevicePayloads \cup {Null}]

TaskTypeOK ==
    /\ task \in [Ops -> TaskStates]
    /\ taskResult \in [Ops -> DevicePayloads \cup {Null}]
    /\ \A o \in Ops : task[o] \in {"finishing", "sending"} => taskResult[o] # Null
    /\ budgets \subseteq Ops
    /\ journal \in [Ops -> JournalRows]
    /\ runs \in [Ops -> Nat]
    /\ refused \subseteq Ops

AgentTypeOK == SessionTypeOK /\ TaskTypeOK

\* Every variable has its type; a task that has finished has a payload.
TypeOK == RelayTypeOK /\ ConnectionTypeOK /\ AgentTypeOK

\* A desktop action, a shell start or a frontend session start is executed at
\* most once, whatever is redelivered, lost, replayed or restarted: the agent
\* alone guarantees it (_is_uncertain_native_action).
AtMostOnce == \A o \in Native : runs[o] <= 1

\* So does the relay alone: an operation it knows to be replay-unsafe is handed
\* to a connection once, and so is started at most once (_is_replay_unsafe).
NeverRedelivered == \A o \in Unsafe : runs[o] <= 1

\* Tunnel keeps the promise of OperationOutcome: at most one start of a native
\* action, and a durable result that is never replaced
\* (_record_device_message, _prepare_operation_dispatch, _finish).
Outcome == INSTANCE OperationOutcome
               WITH outcome <- [o \in Ops |-> op[o].result],
                    Results <- Payloads, Unsafe <- Native
OutcomeSpec == Outcome!Spec

\* A closed row changes at most once more, when the device's own terminal
\* settles a failure that the relay had only derived: it takes its first
\* result and stays closed.
SettledOnce ==
    [][\A o \in Ops : Terminal(op[o]) /\ op'[o] # op[o] =>
           op[o].result = Null /\ op'[o].result # Null /\ Terminal(op'[o])]_vars

\* A device result that a client was given is the one that is stored, in its durable
\* form (without images), and a retry with the same idempotency key is answered from it.
AnswerDurable ==
    \A o \in Ops : \A p \in Payloads \ {"expired", "unsure"} :
        answer[o] = <<"result", p>> => op[o].result = Durable(p)

\* A terminal whose journal entry is acknowledged is the result the relay has
\* stored, unless the agent also refused a delivery of that operation without
\* journaling the refusal (_send_failure).
AckedIsStored ==
    \A o \in Ops \ refused : journal[o].acked =>
        op[o].result = Durable(Normalize(o, journal[o].result))

\* A journaled result is never replaced, although transition_operation lets a
\* terminal entry be written again under the same state.
JournalImmutable ==
    [][\A o \in Ops : journal[o].result # Null =>
           journal'[o].result = journal[o].result]_vars

\* A connection never writes an operation that a newer connection has written: the
\* epoch stored with the operation never goes back (websocket.py).
EpochFence == [][\A o \in Ops : op'[o].epoch >= op[o].epoch]_vars

\* If the connection eventually stays up, every journaled terminal is
\* eventually acknowledged: no race of replay, redelivery, task and
\* acknowledgement leaves a result stranded on the agent.
ConnectionStays == <>[](phase # "off" /\ conn[sock] = "open")
TerminalsAcknowledged ==
    ConnectionStays =>
        \A o \in Ops : journal[o].result # Null ~> journal[o].acked
=============================================================================
