------------------------------- MODULE Presence -------------------------------
(***************************************************************************)
(* Who is online: the server's device table and sockets                    *)
(* (server/src/socket/SignalingGateway.ts, services/DeviceService.ts,      *)
(* repositories/memory.ts) and the list of devices each client shows       *)
(* (client/src/p2p/P2PManager.ts, context/AppContext.tsx).                 *)
(*                                                                         *)
(* The repository is in memory: its promises are resolved when they are    *)
(* awaited, so a handler of the server is one step, awaits included.       *)
(*                                                                         *)
(* A connection ends for the client and for the server at different times: *)
(* after a change of network the client is back within seconds, on a new   *)
(* socket, while the server waits for a ping of the old one for a minute.  *)
(***************************************************************************)
EXTENDS Naturals, Sequences

CONSTANTS
  Device,
  MaxSockets,   \* bound: MaxSockets[d] connections are made by d
  MaxRestarts   \* bound: restarts of the server

ASSUME PresenceAssumption == MaxSockets \in [Device -> Nat] /\ MaxRestarts \in Nat

\* The n-th connection of d is its socket <<d, n>>.
Socket == UNION {{d} \X (1..MaxSockets[d]) : d \in Device}

VARIABLES
  table,      \* the repository: table[d] is the row of d
  serverUp,   \* the sockets the server has not seen disconnect
  clientUp,   \* the sockets whose client has not seen them disconnect
  opened,     \* opened[d]: connections made by d so far
  identity,   \* "none", "active" or, refused by the server, "stale"
  inbox,      \* inbox[d]: events on their way to d on its open socket
  devices,    \* devices[d]: the list of P2PManager
  poll,       \* poll[d]: the GET /devices of d that is under way
  restarts

serverVars == <<table, serverUp>>
clientVars == <<clientUp, opened, identity>>
vars == <<serverVars, clientVars, inbox, devices, poll, restarts>>

\* status and socketId of a row change together.
Absent == [status |-> "absent", socket |-> 0]
OfflineRow == [status |-> "offline", socket |-> 0]
OnlineRow(n) == [status |-> "online", socket |-> n]

NoPoll == [phase |-> "idle", list |-> {}]

\* listOnline()
Online == {d \in Device : table[d].status = "online"}

Connected(d) == \E n \in 1..MaxSockets[d] : <<d, n>> \in clientUp

Init ==
  /\ table = [d \in Device |-> Absent]
  /\ serverUp = {} /\ clientUp = {}
  /\ opened = [d \in Device |-> 0]
  /\ identity = [d \in Device |-> "none"]
  /\ inbox = [d \in Device |-> <<>>]
  /\ devices = [d \in Device |-> {}]
  /\ poll = [d \in Device |-> NoPoll]
  /\ restarts = 0

-----------------------------------------------------------------------------
(* Events from the server.                                                 *)

ListEvent(ds) == [type |-> "device-list", list |-> ds]
OnlineEvent(d) == [type |-> "device-online", device |-> d]
OfflineEvent(d) == [type |-> "device-offline", device |-> d]

\* Which devices an emit to the sockets in S reaches.
Reached(S) == {d \in Device : \E n \in 1..MaxSockets[d] : <<d, n>> \in S \cap clientUp}

\* io.emit() over the sockets in S.
Broadcast(S, m) == inbox' = [d \in Device |-> IF d \in Reached(S) THEN Append(inbox[d], m) ELSE inbox[d]]

-----------------------------------------------------------------------------
(* Identity.                                                               *)

\* registerFresh(): POST /register-device with the device's own id, then
\* activate(): a new P2PManager.
Register(d) ==
  /\ identity[d] # "active"
  /\ table' = [table EXCEPT ![d] = OfflineRow]
  /\ identity' = [identity EXCEPT ![d] = "active"]
  /\ devices' = [devices EXCEPT ![d] = {}]
  /\ poll' = [poll EXCEPT ![d] = NoPoll]
  /\ UNCHANGED <<serverUp, clientUp, opened, inbox, restarts>>

-----------------------------------------------------------------------------
(* Connections.                                                            *)

MayConnect(d) == identity[d] = "active" /\ ~Connected(d) /\ opened[d] < MaxSockets[d]

\* authenticate() finds the device; onConnection() marks it online, tells the
\* others and sends it the list.
Accepted(d) ==
  LET n == opened[d] + 1 IN
  /\ MayConnect(d)
  /\ table[d].status # "absent"
  /\ table' = [table EXCEPT ![d] = OnlineRow(n)]
  /\ serverUp' = serverUp \cup {<<d, n>>}
  /\ clientUp' = clientUp \cup {<<d, n>>}
  /\ opened' = [opened EXCEPT ![d] = n]
  /\ inbox' = [e \in Device |->
       IF e = d THEN <<ListEvent(Online \cup {d})>>
       ELSE IF e \in Reached(serverUp) THEN Append(inbox[e], OnlineEvent(d)) ELSE inbox[e]]
  /\ UNCHANGED <<identity, devices, poll, restarts>>

\* authenticate() does not know the device: 'staleIdentity', manager.stop().
Refused(d) ==
  /\ MayConnect(d)
  /\ table[d].status = "absent"
  /\ identity' = [identity EXCEPT ![d] = "stale"]
  /\ UNCHANGED <<serverVars, clientUp, opened, inbox, devices, poll, restarts>>

\* The client loses its connection, or drops it: the list is cleared.
ClientDisconnects(s) ==
  /\ s \in clientUp
  /\ clientUp' = clientUp \ {s}
  /\ inbox' = [inbox EXCEPT ![s[1]] = <<>>]
  /\ devices' = [devices EXCEPT ![s[1]] = {}]
  /\ UNCHANGED <<serverVars, opened, identity, poll, restarts>>

\* Slip: the row is left as it is.
RowKept(d) == table[d]

\* Slip: socketId is not cleared.
RowKeepsSocket(d) == IF table[d].status = "absent" THEN Absent ELSE [table[d] EXCEPT !.status = "offline"]

\* markOffline()
RowOffline(d) == IF table[d].status = "absent" THEN Absent ELSE OfflineRow

\* The server closes a socket or misses its pings.
ServerDisconnects(s) ==
  /\ s \in serverUp
  /\ serverUp' = serverUp \ {s}
  /\ table' = [table EXCEPT ![s[1]] = RowOffline(s[1])]
  /\ IF table[s[1]].status = "absent" THEN UNCHANGED inbox
     ELSE Broadcast(serverUp', OfflineEvent(s[1]))
  /\ UNCHANGED <<clientVars, devices, poll, restarts>>

\* Memory is all the server has.
ServerRestarts ==
  /\ restarts < MaxRestarts
  /\ restarts' = restarts + 1
  /\ table' = [d \in Device |-> Absent]
  /\ serverUp' = {}
  /\ UNCHANGED <<clientVars, inbox, devices, poll>>

-----------------------------------------------------------------------------
(* The client's list.                                                      *)

Deliver(d) ==
  LET m == Head(inbox[d]) IN
  /\ inbox[d] # <<>>
  /\ inbox' = [inbox EXCEPT ![d] = Tail(@)]
  /\ \/ m.type = "device-list" /\ devices' = [devices EXCEPT ![d] = m.list \ {d}]
     \/ /\ m.type = "device-online"
        /\ devices' = [devices EXCEPT ![d] = IF m.device = d THEN @ ELSE @ \cup {m.device}]
     \/ m.type = "device-offline" /\ devices' = [devices EXCEPT ![d] = @ \ {m.device}]
  /\ UNCHANGED <<serverVars, clientVars, poll, restarts>>

\* The poll of every 10 s; bound: one at a time.
PollAsks(d) ==
  /\ Connected(d)
  /\ poll[d] = NoPoll
  /\ poll' = [poll EXCEPT ![d] = [phase |-> "asked", list |-> {}]]
  /\ UNCHANGED <<serverVars, clientVars, inbox, devices, restarts>>

\* Slip: every device known is listed.
PollServedAll(d) ==
  /\ poll[d].phase = "asked"
  /\ poll' = [poll EXCEPT ![d] = [phase |-> "answered",
                                list |-> {e \in Device : table[e].status # "absent"}]]
  /\ UNCHANGED <<serverVars, clientVars, inbox, devices, restarts>>

PollServed(d) ==
  /\ poll[d].phase = "asked"
  /\ poll' = [poll EXCEPT ![d] = [phase |-> "answered", list |-> Online]]
  /\ UNCHANGED <<serverVars, clientVars, inbox, devices, restarts>>

\* Slip: the device itself is not filtered out.
PollAnsweredWithSelf(d) ==
  /\ poll[d].phase = "answered"
  /\ devices' = [devices EXCEPT ![d] = poll[d].list]
  /\ poll' = [poll EXCEPT ![d] = NoPoll]
  /\ UNCHANGED <<serverVars, clientVars, inbox, restarts>>

PollAnswered(d) ==
  /\ poll[d].phase = "answered"
  /\ devices' = [devices EXCEPT ![d] = poll[d].list \ {d}]
  /\ poll' = [poll EXCEPT ![d] = NoPoll]
  /\ UNCHANGED <<serverVars, clientVars, inbox, restarts>>

PollFails(d) ==
  /\ poll[d] # NoPoll
  /\ poll' = [poll EXCEPT ![d] = NoPoll]
  /\ UNCHANGED <<serverVars, clientVars, inbox, devices, restarts>>

Next ==
  \/ \E d \in Device :
       \/ Register(d) \/ Accepted(d) \/ Refused(d) \/ Deliver(d)
       \/ PollAsks(d) \/ PollServed(d) \/ PollAnswered(d) \/ PollFails(d)
  \/ \E s \in Socket : ClientDisconnects(s) \/ ServerDisconnects(s)
  \/ ServerRestarts

Spec == Init /\ [][Next]_vars

\* The server finds out about a lost socket in the end and the client about
\* one that the server closed; both are heartbeats of Socket.IO.  Events
\* arrive, and polls, although any of them may fail, succeed now and then.
\* Nobody has to come online or stay so.
FairSpec ==
  /\ Spec
  /\ \A s \in Socket :
       /\ WF_vars(s \notin clientUp /\ ServerDisconnects(s))
       /\ WF_vars(s \notin serverUp /\ ClientDisconnects(s))
  /\ \A d \in Device :
       /\ WF_vars(Deliver(d)) /\ WF_vars(PollAsks(d))
       /\ SF_vars(PollServed(d)) /\ SF_vars(PollAnswered(d))

-----------------------------------------------------------------------------
(* Properties.                                                             *)

Event ==
  [type : {"device-list"}, list : SUBSET Device]
    \cup [type : {"device-online", "device-offline"}, device : Device]

\* Rows, sockets, lists and polls have the fields their declarations give
\* them; a row has a socketId exactly while its status is online.
TypeOK ==
  /\ table \in [Device -> [status : {"absent", "offline", "online"}, socket : Nat]]
  /\ \A d \in Device : table[d].status = "online" <=> table[d].socket # 0
  /\ serverUp \subseteq Socket /\ clientUp \subseteq Socket
  /\ opened \in [Device -> Nat] /\ \A d \in Device : opened[d] <= MaxSockets[d]
  /\ identity \in [Device -> {"none", "active", "stale"}]
  /\ inbox \in [Device -> Seq(Event)]
  /\ devices \in [Device -> SUBSET Device]
  /\ poll \in [Device -> [phase : {"idle", "asked", "answered"}, list : SUBSET Device]]
  /\ restarts \in Nat

\* The table never shows a device online on a socket that the server itself
\* has seen disconnect, or that a restart forgot.
NoGhostRow ==
  \A d \in Device : table[d].status = "online" => <<d, table[d].socket>> \in serverUp

\* Once nobody connects or drops any more, no list shows a device that is
\* gone, whatever events and polls were lost or overtook each other.
GhostsVanish ==
  \A d, e \in Device :
    <>[](Connected(e) /\ ~Connected(d) => d \notin devices[e])

\* In the end every connected client shows what the server's table says.
ListConverges ==
  \A e \in Device : <>[](Connected(e) => devices[e] = Online \ {e})

\* "The server re-marks the device online" after a signaling drop: a device
\* that stays connected is listed online in the end.
LiveIsListed ==
  \A d \in Device : <>[]Connected(d) => <>[](d \in Online)

=============================================================================
