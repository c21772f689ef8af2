------------------------------ MODULE Presence ------------------------------
(***************************************************************************)
(* One device and its connections to the relay: tickets, epochs, the Redis *)
(* fence, the online mark of the Device row and the project catalogue that *)
(* HELLO messages replace.  A connection is a coroutine of a relay worker: *)
(* every await in device_websocket (websocket.py) separates two actions,   *)
(* so that an old connection may still act while a newer one is up.        *)
(*   dev        the Device row: connection_epoch and status                *)
(*   conns      the relay's coroutines and their WebSockets                *)
(*   fence      the Redis key codito:device:<id>:epoch (0 when absent)     *)
(*   link       the agent's side: DeviceWebSocketClient and its sync task  *)
(*   local      the enabled projects of the agent's database               *)
(*   catalogue  the Project rows, and the connection that wrote them last  *)
(*   spent      faults and changes so far                                  *)
(***************************************************************************)
EXTENDS Naturals, Sequences

CONSTANTS
    Conns,            \* connections, 1 .. n
    Projects,         \* project ids
    Folder,           \* [Projects -> folder]: the root fingerprint of each project
    MaxDrops,         \* bound: connections lost, workers killed, Redis keys lost
    MaxLocal          \* bound: changes of the local projects

\* A connection is named by a number; link.conn and catalogue.by are 0 when none is.
ASSUME ConnAssumption == Conns \subseteq Nat \ {0}

VARIABLES dev, conns, fence, link, local, catalogue, spent

presenceVars == <<dev, conns, fence, link, local, catalogue, spent>>

NoConn == [pc |-> "free", epoch |-> 0, wire |-> FALSE, hellos |-> <<>>, job |-> <<>>]

PresenceInit ==
    /\ dev = [epoch |-> 0, status |-> "offline"]
    /\ conns = [c \in Conns |-> NoConn]
    /\ fence = 0
    /\ link = [at |-> "idle", conn |-> 0, sync |-> "done", said |-> {}]
    /\ local \in {{p} : p \in Projects}
    /\ catalogue = [rows |-> [p \in Projects |-> "none"], by |-> 0]
    /\ spent = [drops |-> 0, changes |-> 0]

Fails == spent.drops < MaxDrops /\ spent' = [spent EXCEPT !.drops = @ + 1]

Closing(c) == [conns EXCEPT ![c].pc = "closing", ![c].wire = FALSE]

-----------------------------------------------------------------------------
(* The agent dials.                                                        *)

IssueTicket ==
    /\ link.at = "idle" /\ dev.status # "revoked"
    /\ \E c \in Conns : conns[c].pc = "free"
    /\ link' = [link EXCEPT !.at = "ticket"]
    /\ UNCHANGED <<dev, conns, fence, local, catalogue, spent>>

Usable == dev.status # "revoked"

ConsumeTicket(c) ==
    /\ link.at = "ticket" /\ Usable
    /\ conns[c].pc = "free" /\ \A b \in Conns : b < c => conns[b].pc # "free"
    /\ dev' = [epoch |-> dev.epoch + 1, status |-> "offline"]
    /\ conns' = [conns EXCEPT ![c] = [NoConn EXCEPT !.pc = "consumed", !.epoch = dev.epoch + 1, !.wire = TRUE]]
    /\ link' = [link EXCEPT !.at = "dialing", !.conn = c]
    /\ UNCHANGED <<fence, local, catalogue, spent>>

RefuseTicket ==
    /\ link.at = "ticket"
    /\ \/ ~Usable /\ UNCHANGED spent
       \/ Fails
    /\ link' = [link EXCEPT !.at = "idle"]
    /\ UNCHANGED <<dev, conns, fence, local, catalogue>>

\* The fence of an earlier connection is kept (set only when absent).
SetFenceIfAbsent(c) ==
    /\ conns[c].pc = "consumed"
    /\ fence' = IF fence = 0 THEN conns[c].epoch ELSE fence
    /\ conns' = [conns EXCEPT ![c].pc = "fenced"]
    /\ UNCHANGED <<dev, link, local, catalogue, spent>>

SetFence(c) ==
    /\ conns[c].pc = "consumed"
    /\ fence' = conns[c].epoch
    /\ conns' = [conns EXCEPT ![c].pc = "fenced"]
    /\ UNCHANGED <<dev, link, local, catalogue, spent>>

Welcome(c) ==
    /\ conns[c].pc = "fenced"
    /\ IF conns[c].wire
       THEN /\ conns' = [conns EXCEPT ![c].pc = "welcomed"]
            /\ link' = [link EXCEPT !.at = "greeted"]
       ELSE conns' = Closing(c) /\ UNCHANGED link
    /\ UNCHANGED <<dev, fence, local, catalogue, spent>>

Hello(next) ==
    /\ conns' = [conns EXCEPT ![link.conn].hellos = Append(@, local)]
    /\ link' = [next EXCEPT !.said = local]

AgentHello ==
    /\ link.at = "greeted"
    /\ Hello([link EXCEPT !.at = "linked"])
    /\ UNCHANGED <<dev, fence, local, catalogue, spent>>

Marks(c) == dev.epoch = conns[c].epoch /\ dev.status # "revoked"

MarkOnline(c) ==
    /\ conns[c].pc = "welcomed"
    /\ conns' = [conns EXCEPT ![c].pc = "up"]
    /\ dev' = IF Marks(c) THEN [dev EXCEPT !.status = "online"] ELSE dev
    /\ UNCHANGED <<fence, link, local, catalogue, spent>>

-----------------------------------------------------------------------------
(* The local projects and their way into the catalogue.                    *)

ChangeProjects ==
    /\ spent.changes < MaxLocal
    /\ spent' = [spent EXCEPT !.changes = @ + 1]
    /\ \E p \in Projects : local' = IF p \in local THEN local \ {p} ELSE local \cup {p}
    /\ link' = IF link.at \in {"greeted", "linked"} /\ link.sync = "done"
               THEN [link EXCEPT !.sync = "created"] ELSE link
    /\ UNCHANGED <<dev, conns, fence, catalogue>>

SyncProjects ==
    /\ link.sync = "created"
    /\ IF link.at \in {"greeted", "linked"}
       THEN Hello([link EXCEPT !.sync = "sending"])
       ELSE UNCHANGED conns /\ link' = [link EXCEPT !.sync = "done"]
    /\ UNCHANGED <<dev, fence, local, catalogue, spent>>

SyncSent ==
    /\ link.sync = "sending"
    /\ link' = [link EXCEPT !.sync = "done"]
    /\ UNCHANGED <<dev, conns, fence, local, catalogue, spent>>

ReceiveHello(c) ==
    /\ conns[c].pc = "up" /\ conns[c].job = <<>> /\ conns[c].hellos # <<>>
    /\ conns' = [conns EXCEPT ![c].job = <<Head(conns[c].hellos)>>, ![c].hellos = Tail(@)]
    /\ UNCHANGED <<dev, fence, link, local, catalogue, spent>>

Synchronized(seen) ==
    [p \in Projects |-> IF p \in seen THEN "available"
                        ELSE IF catalogue.rows[p] = "none" THEN "none" ELSE "unavailable"]

UniqueRoots(rows) ==
    \A p, q \in Projects : rows[p] # "none" /\ rows[q] # "none" /\ Folder[p] = Folder[q] => p = q

\* The transaction runs in a thread of the database executor: it commits even
\* when the coroutine that waits for it has been cancelled.
SynchronizeProjects(c) ==
    /\ conns[c].job # <<>>
    /\ LET rows == Synchronized(conns[c].job[1])
           ok == UniqueRoots(rows)
       IN /\ catalogue' = IF ok THEN [rows |-> rows, by |-> c] ELSE catalogue
          /\ conns' = [conns EXCEPT ![c].job = <<>>,
                                    ![c].pc = IF ~ok /\ @ = "up" THEN "closing" ELSE @,
                                    ![c].wire = @ /\ (ok \/ conns[c].pc # "up")]
    /\ UNCHANGED <<dev, fence, link, local, spent>>

-----------------------------------------------------------------------------
(* Endings.                                                                *)

Disconnected(c) ==
    /\ conns[c].pc = "up" /\ ~conns[c].wire
    /\ conns' = Closing(c)
    /\ UNCHANGED <<dev, fence, link, local, catalogue, spent>>

FencedOut(c) ==
    /\ conns[c].pc = "up" /\ fence # conns[c].epoch
    /\ conns' = Closing(c)
    /\ UNCHANGED <<dev, fence, link, local, catalogue, spent>>

RelayRaises(c) ==
    /\ conns[c].pc \in {"consumed", "fenced", "welcomed", "up"}
    /\ Fails
    /\ conns' = Closing(c)
    /\ UNCHANGED <<dev, fence, link, local, catalogue>>

\* A connection that ends marks the device offline whatever came after it.
UnmarksAnyEpoch(c) == dev.status # "revoked"

Unmarks(c) == dev.epoch = conns[c].epoch /\ dev.status # "revoked"

MarkOffline(c) ==
    /\ conns[c].pc = "closing"
    /\ conns' = [conns EXCEPT ![c].pc = "gone"]
    /\ dev' = IF Unmarks(c) THEN [dev EXCEPT !.status = "offline"] ELSE dev
    /\ UNCHANGED <<fence, link, local, catalogue, spent>>

WorkerDies(c) ==
    /\ conns[c].pc \notin {"free", "gone", "died"}
    /\ Fails
    /\ conns' = [conns EXCEPT ![c] = [@ EXCEPT !.pc = "died", !.wire = FALSE, !.job = <<>>]]
    /\ UNCHANGED <<dev, fence, link, local, catalogue>>

FenceLost ==
    /\ fence # 0
    /\ Fails
    /\ fence' = 0
    /\ UNCHANGED <<dev, conns, link, local, catalogue>>

AgentDrops ==
    /\ link.at \in {"dialing", "greeted", "linked"} /\ conns[link.conn].wire
    /\ Fails
    /\ conns' = [conns EXCEPT ![link.conn].wire = FALSE]
    /\ UNCHANGED <<dev, fence, link, local, catalogue>>

AgentNotices ==
    /\ link.at \in {"dialing", "greeted", "linked"} /\ ~conns[link.conn].wire
    /\ link' = [link EXCEPT !.at = "idle"]
    /\ UNCHANGED <<dev, conns, fence, local, catalogue, spent>>

\* Revoking again raises the epoch once more and changes nothing else.
RevokeDevice ==
    /\ dev.status # "revoked"
    /\ dev' = [epoch |-> dev.epoch + 1, status |-> "revoked"]
    /\ UNCHANGED <<conns, fence, link, local, catalogue, spent>>

RelayStep(c) ==
    \/ SetFence(c) \/ Welcome(c) \/ MarkOnline(c) \/ ReceiveHello(c) \/ SynchronizeProjects(c)
    \/ Disconnected(c) \/ FencedOut(c) \/ MarkOffline(c)

AgentStep ==
    \/ IssueTicket \/ RefuseTicket \/ (\E c \in Conns : ConsumeTicket(c))
    \/ AgentHello \/ SyncProjects \/ SyncSent \/ AgentNotices

PresenceNext ==
    \/ AgentStep
    \/ \E c \in Conns : RelayStep(c) \/ RelayRaises(c) \/ WorkerDies(c)
    \/ ChangeProjects \/ FenceLost \/ AgentDrops \/ RevokeDevice

PresenceSpec == PresenceInit /\ [][PresenceNext]_presenceVars

-----------------------------------------------------------------------------
Current(c) == conns[c].epoch = dev.epoch

\* A device shown as online has a connection of the current epoch that has not
\* taken the mark back: it is up, or ending, or its worker died with it
\* (_mark_online, _mark_offline; websocket.py).
OnlineIsConnected ==
    dev.status = "online" => \E c \in Conns : Current(c) /\ conns[c].pc \in {"up", "closing", "died"}

\* The end of an older connection never takes a device offline that a newer one
\* serves (_mark_offline, websocket.py).
ConnectedIsOnline ==
    \A c \in Conns : Current(c) /\ conns[c].pc = "up" => dev.status \in {"online", "revoked"}

Available == {p \in Projects : catalogue.rows[p] = "available"}

\* While the agent's own connection is the last that wrote the catalogue and has no
\* HELLO left to apply, the available projects are those of its last HELLO: nothing
\* is left over from an earlier one (_synchronize_projects, websocket.py).  It says
\* nothing once the late HELLO of an older connection has replaced the catalogue,
\* which the code allows: it compares no epoch there.
CatalogueFollows ==
    \A c \in Conns :
        catalogue.by = c /\ conns[c].pc = "up" /\ link.conn = c /\ conns[c].hellos = <<>> /\ conns[c].job = <<>>
            => Available = link.said

\* Whatever is lost and however the steps of old and new connections interleave,
\* the device ends online, on one connection that stays (websocket_client.py, run;
\* websocket.py, device_websocket), unless it was revoked.
BackOnline ==
    <>[](\/ dev.status = "revoked"
         \/ dev.status = "online" /\ \E c \in Conns : Current(c) /\ conns[c].pc = "up" /\ conns[c].wire)

\* What the relay shows of a device, whatever steps older connections still take
\* (websocket.py): the mark has a connection behind it, a serving connection has the
\* mark, and a catalogue that the agent's connection wrote last is that of its last HELLO.
PresenceSafe == OnlineIsConnected /\ ConnectedIsOnline /\ CatalogueFollows
=============================================================================
