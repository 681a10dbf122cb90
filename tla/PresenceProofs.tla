---------------------------- MODULE PresenceProofs ----------------------------
(***************************************************************************)
(* The server's device table of Presence.tla, for any number of devices,   *)
(* connections and restarts.                                               *)
(***************************************************************************)
EXTENDS Presence, TLAPS

LEMMA SocketParts ==
  ASSUME NEW d \in Device, NEW n \in 1..MaxSockets[d]
  PROVE  <<d, n>> \in Socket
BY DEF Socket

LEMMA SocketOwner == \A s \in Socket : s[1] \in Device
BY DEF Socket

LEMMA RowTypes ==
  /\ Absent \in [status : {"absent", "offline", "online"}, socket : Nat]
  /\ OfflineRow \in [status : {"absent", "offline", "online"}, socket : Nat]
  /\ \A n \in Nat : OnlineRow(n) \in [status : {"absent", "offline", "online"}, socket : Nat]
BY DEF Absent, OfflineRow, OnlineRow

LEMMA EventTypes ==
  /\ \A ds \in SUBSET Device : ListEvent(ds) \in Event
  /\ \A d \in Device : OnlineEvent(d) \in Event /\ OfflineEvent(d) \in Event
BY DEF ListEvent, OnlineEvent, OfflineEvent, Event

LEMMA PresenceInitType == Init => TypeOK
<1> SUFFICES ASSUME Init PROVE TypeOK
  OBVIOUS
<1>1. inbox \in [Device -> Seq(Event)]
  <2>1. <<>> \in Seq(Event)
    OBVIOUS
  <2> QED BY <2>1 DEF Init
<1>2. table \in [Device -> [status : {"absent", "offline", "online"}, socket : Nat]]
  BY RowTypes DEF Init
<1>3. \A d \in Device : table[d].status = "online" <=> table[d].socket # 0
  BY DEF Init, Absent
<1>4. opened \in [Device -> Nat] /\ \A d \in Device : opened[d] <= MaxSockets[d]
  BY PresenceAssumption DEF Init
<1> QED BY <1>1, <1>2, <1>3, <1>4 DEF Init, TypeOK, NoPoll

\* The table keeps its type, whatever row a handler writes.
LEMMA TableType ==
  ASSUME TypeOK, NEW d \in Device,
         NEW row \in [status : {"absent", "offline", "online"}, socket : Nat],
         row.status = "online" <=> row.socket # 0,
         table' = [table EXCEPT ![d] = row]
  PROVE  /\ table' \in [Device -> [status : {"absent", "offline", "online"}, socket : Nat]]
         /\ \A e \in Device : table'[e].status = "online" <=> table'[e].socket # 0
BY DEF TypeOK

LEMMA AcceptedType == ASSUME TypeOK, NEW d \in Device, Accepted(d) PROVE TypeOK'
<1> USE PresenceAssumption
<1> DEFINE n == opened[d] + 1
<1>1. n \in 1..MaxSockets[d]
  <2>1. opened[d] \in Nat /\ MaxSockets[d] \in Nat
    BY DEF TypeOK
  <2>2. opened[d] < MaxSockets[d]
    BY DEF Accepted, MayConnect
  <2> QED BY <2>1, <2>2
<1>2. <<d, n>> \in Socket
  <2> HIDE DEF n
  <2> QED BY <1>1, SocketParts
<1>3. /\ table' \in [Device -> [status : {"absent", "offline", "online"}, socket : Nat]]
      /\ \A e \in Device : table'[e].status = "online" <=> table'[e].socket # 0
  <2>1. OnlineRow(n).status = "online" /\ OnlineRow(n).socket # 0
    BY <1>1 DEF OnlineRow
  <2>2. table' = [table EXCEPT ![d] = OnlineRow(n)]
    BY DEF Accepted
  <2>3. n \in Nat
    BY <1>1
  <2> HIDE DEF n
  <2>4. OnlineRow(n) \in [status : {"absent", "offline", "online"}, socket : Nat]
    BY <2>3, RowTypes
  <2> QED BY <2>1, <2>2, <2>4, TableType
<1>4. inbox' \in [Device -> Seq(Event)]
  <2>1. ListEvent(Online \cup {d}) \in Event /\ OnlineEvent(d) \in Event
    BY EventTypes DEF Online
  <2>2. <<ListEvent(Online \cup {d})>> \in Seq(Event)
    BY <2>1
  <2>3. \A e \in Device : Append(inbox[e], OnlineEvent(d)) \in Seq(Event) /\ inbox[e] \in Seq(Event)
    BY <2>1 DEF TypeOK
  <2> QED BY <2>2, <2>3 DEF Accepted
<1>5. opened' \in [Device -> Nat] /\ \A e \in Device : opened'[e] <= MaxSockets[e]
  BY <1>1 DEF Accepted, TypeOK
<1> QED BY <1>2, <1>3, <1>4, <1>5 DEF Accepted, TypeOK

LEMMA ServerDisconnectsType == ASSUME TypeOK, NEW s \in Socket, ServerDisconnects(s) PROVE TypeOK'
<1>1. s[1] \in Device
  BY SocketOwner
<1>2. /\ table' \in [Device -> [status : {"absent", "offline", "online"}, socket : Nat]]
      /\ \A e \in Device : table'[e].status = "online" <=> table'[e].socket # 0
  <2>1. RowOffline(s[1]) \in [status : {"absent", "offline", "online"}, socket : Nat]
    BY RowTypes DEF RowOffline
  <2>2. RowOffline(s[1]).status = "online" <=> RowOffline(s[1]).socket # 0
    BY DEF RowOffline, Absent, OfflineRow
  <2> QED BY <1>1, <2>1, <2>2, TableType DEF ServerDisconnects
<1>3. inbox' \in [Device -> Seq(Event)]
  <2>1. OfflineEvent(s[1]) \in Event
    BY <1>1, EventTypes
  <2>2. \A e \in Device : Append(inbox[e], OfflineEvent(s[1])) \in Seq(Event) /\ inbox[e] \in Seq(Event)
    BY <2>1 DEF TypeOK
  <2>3. inbox' = inbox \/ inbox' = [d \in Device |->
          IF d \in Reached(serverUp') THEN Append(inbox[d], OfflineEvent(s[1])) ELSE inbox[d]]
    BY DEF ServerDisconnects, Broadcast
  <2> QED BY <2>2, <2>3 DEF TypeOK
<1> QED BY <1>2, <1>3 DEF ServerDisconnects, clientVars, TypeOK

LEMMA DeliverType == ASSUME TypeOK, NEW d \in Device, Deliver(d) PROVE TypeOK'
<1> DEFINE m == Head(inbox[d])
<1>1. inbox[d] \in Seq(Event) /\ inbox[d] # <<>>
  BY DEF Deliver, TypeOK
<1>2. m \in Event /\ Tail(inbox[d]) \in Seq(Event)
  BY <1>1
<1>3. inbox' \in [Device -> Seq(Event)]
  BY <1>2 DEF Deliver, TypeOK
<1>4. devices' \in [Device -> SUBSET Device]
  <2>1. PICK ds \in SUBSET Device : devices' = [devices EXCEPT ![d] = ds]
    <3>1. CASE m.type = "device-list"
      <4>1. m.list \ {d} \in SUBSET Device
        BY <1>2, <3>1 DEF Event
      <4>2. devices' = [devices EXCEPT ![d] = m.list \ {d}]
        BY <3>1 DEF Deliver
      <4> QED BY <4>1, <4>2
    <3>2. CASE m.type = "device-online"
      <4>1. devices[d] \in SUBSET Device /\ devices[d] \cup {m.device} \in SUBSET Device
        BY <1>2, <3>2 DEF Event, TypeOK
      <4>2. devices' = [devices EXCEPT ![d] = IF m.device = d THEN @ ELSE @ \cup {m.device}]
        BY <3>2 DEF Deliver
      <4> QED BY <4>1, <4>2
    <3>3. CASE m.type = "device-offline"
      <4>1. devices[d] \ {m.device} \in SUBSET Device
        BY DEF TypeOK
      <4>2. devices' = [devices EXCEPT ![d] = @ \ {m.device}]
        BY <3>3 DEF Deliver
      <4> QED BY <4>1, <4>2
    <3> QED BY <3>1, <3>2, <3>3 DEF Deliver
  <2> QED BY <2>1 DEF TypeOK
<1> QED BY <1>3, <1>4 DEF Deliver, serverVars, clientVars, TypeOK

LEMMA PresenceTypeStep == TypeOK /\ [Next]_vars => TypeOK'
<1> SUFFICES ASSUME TypeOK, [Next]_vars PROVE TypeOK'
  OBVIOUS
<1> USE DEF serverVars, clientVars
<1>1. ASSUME NEW d \in Device, Register(d) PROVE TypeOK'
  <2>1. /\ table' \in [Device -> [status : {"absent", "offline", "online"}, socket : Nat]]
        /\ \A e \in Device : table'[e].status = "online" <=> table'[e].socket # 0
    <3>1. OfflineRow.status # "online" /\ OfflineRow.socket = 0
      BY DEF OfflineRow
    <3> QED BY <1>1, <3>1, RowTypes, TableType DEF Register
  <2> QED BY <1>1, <2>1 DEF Register, NoPoll, TypeOK
<1>2. ASSUME NEW d \in Device, Refused(d) PROVE TypeOK'
  BY <1>2 DEF Refused, TypeOK
<1>3. ASSUME NEW d \in Device,
             PollAsks(d) \/ PollServed(d) \/ PollAnswered(d) \/ PollFails(d)
      PROVE  TypeOK'
  <2> DEFINE Poll == [phase : {"idle", "asked", "answered"}, list : SUBSET Device]
  <2>1. CASE PollAsks(d) \/ PollServed(d) \/ PollFails(d)
    <3>1. NoPoll \in Poll /\ [phase |-> "asked", list |-> {}] \in Poll
      BY DEF NoPoll
    <3>2. [phase |-> "answered", list |-> Online] \in Poll
      BY DEF Online
    <3>3. PICK p \in Poll : poll' = [poll EXCEPT ![d] = p]
      <4>1. CASE PollAsks(d)
        BY <3>1, <4>1 DEF PollAsks
      <4>2. CASE PollServed(d)
        BY <3>2, <4>2 DEF PollServed
      <4>3. CASE PollFails(d)
        BY <3>1, <4>3 DEF PollFails
      <4> QED BY <2>1, <4>1, <4>2, <4>3
    <3>4. poll' \in [Device -> Poll]
      BY <3>3 DEF TypeOK
    <3>5. UNCHANGED <<serverVars, clientVars, inbox, devices, restarts>>
      BY <2>1 DEF PollAsks, PollServed, PollFails
    <3> QED BY <3>4, <3>5 DEF TypeOK
  <2>2. CASE PollAnswered(d)
    <3>1. poll[d].list \ {d} \in SUBSET Device
      BY DEF TypeOK
    <3>2. devices' = [devices EXCEPT ![d] = poll[d].list \ {d}]
      BY <2>2 DEF PollAnswered
    <3>3. devices' \in [Device -> SUBSET Device]
      BY <3>1, <3>2 DEF TypeOK
    <3> QED BY <2>2, <3>3 DEF PollAnswered, NoPoll, TypeOK
  <2> QED BY <1>3, <2>1, <2>2
<1>4. ASSUME NEW s \in Socket, ClientDisconnects(s) PROVE TypeOK'
  <2>1. <<>> \in Seq(Event) /\ s[1] \in Device
    BY SocketOwner
  <2> QED BY <1>4, <2>1 DEF ClientDisconnects, TypeOK
<1>5. CASE ServerRestarts
  <2>1. table' = [d \in Device |-> Absent]
    BY <1>5 DEF ServerRestarts
  <2>2. /\ table' \in [Device -> [status : {"absent", "offline", "online"}, socket : Nat]]
        /\ \A e \in Device : table'[e].status = "online" <=> table'[e].socket # 0
    BY <2>1, RowTypes DEF Absent
  <2> QED BY <1>5, <2>2 DEF ServerRestarts, TypeOK
<1>6. CASE UNCHANGED vars
  BY <1>6 DEF vars, TypeOK
<1> QED
  BY <1>1, <1>2, <1>3, <1>4, <1>5, <1>6, AcceptedType, ServerDisconnectsType, DeliverType DEF Next

\* Rows, sockets and lists keep their types, and status and socketId of a row
\* agree, for any number of devices, connections and server restarts.
THEOREM PresenceType == Spec => []TypeOK
BY PresenceInitType, PresenceTypeStep, PTL DEF Spec

-----------------------------------------------------------------------------

LEMMA GhostStep == TypeOK /\ NoGhostRow /\ [Next]_vars => NoGhostRow'
<1> SUFFICES ASSUME TypeOK, NoGhostRow, [Next]_vars PROVE NoGhostRow'
  OBVIOUS
<1> USE DEF serverVars, clientVars
<1>1. ASSUME NEW d \in Device, Register(d) PROVE NoGhostRow'
  <2>1. \A e \in Device : table'[e].status = "online" => table'[e] = table[e]
    BY <1>1 DEF Register, OfflineRow, TypeOK
  <2> QED BY <1>1, <2>1 DEF Register, NoGhostRow
<1>2. ASSUME NEW d \in Device, Accepted(d) PROVE NoGhostRow'
  <2>1. \A e \in Device : e # d => table'[e] = table[e]
    BY <1>2 DEF Accepted, TypeOK
  <2>2. table'[d].socket = opened[d] + 1
    BY <1>2 DEF Accepted, OnlineRow, TypeOK
  <2>3. <<d, opened[d] + 1>> \in serverUp' /\ serverUp \subseteq serverUp'
    BY <1>2 DEF Accepted
  <2> QED BY <2>1, <2>2, <2>3 DEF NoGhostRow
<1>3. ASSUME NEW s \in Socket, ServerDisconnects(s) PROVE NoGhostRow'
  <2>1. s[1] \in Device
    BY SocketOwner
  <2>2. table'[s[1]].status # "online"
    BY <1>3, <2>1 DEF ServerDisconnects, RowOffline, Absent, OfflineRow, TypeOK
  <2>3. ASSUME NEW e \in Device, e # s[1] PROVE table'[e] = table[e]
    BY <1>3, <2>3 DEF ServerDisconnects, TypeOK
  <2>4. \A e \in Device : e # s[1] => (<<e, table[e].socket>> \in serverUp
                                        => <<e, table[e].socket>> \in serverUp')
    BY <1>3 DEF ServerDisconnects
  <2> QED BY <2>2, <2>3, <2>4 DEF NoGhostRow
<1>4. CASE ServerRestarts
  BY <1>4 DEF ServerRestarts, NoGhostRow, Absent
<1>5. CASE UNCHANGED serverVars
  BY <1>5 DEF NoGhostRow
<1>6. ASSUME NEW d \in Device,
             \/ Refused(d) \/ Deliver(d)
             \/ PollAsks(d) \/ PollServed(d) \/ PollAnswered(d) \/ PollFails(d)
      PROVE  UNCHANGED serverVars
  BY <1>6 DEF Refused, Deliver, PollAsks, PollServed, PollAnswered, PollFails
<1>7. ASSUME NEW s \in Socket, ClientDisconnects(s) PROVE UNCHANGED serverVars
  BY <1>7 DEF ClientDisconnects
<1>8. UNCHANGED vars => UNCHANGED serverVars
  BY DEF vars
<1> QED BY <1>1, <1>2, <1>3, <1>4, <1>5, <1>6, <1>7, <1>8 DEF Next

\* However sockets of one device overlap, and whatever the order in which the
\* server sees them close: the table shows a device online only on a socket
\* that the server still holds open.
THEOREM PresenceNoGhostRow == Spec => []NoGhostRow
<1>1. Init => TypeOK /\ NoGhostRow
  <2>1. Init => NoGhostRow
    BY DEF Init, NoGhostRow, Absent
  <2> QED BY <2>1, PresenceInitType
<1>2. TypeOK /\ NoGhostRow /\ [Next]_vars => (TypeOK /\ NoGhostRow)'
  BY PresenceTypeStep, GhostStep
<1> QED BY <1>1, <1>2, PTL DEF Spec

=============================================================================
