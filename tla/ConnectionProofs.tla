--------------------------- MODULE ConnectionProofs ---------------------------
(***************************************************************************)
(* What a P2PManager of Connection.tla keeps by itself, whatever the other *)
(* device, the server, the network and the users do, for every limit.      *)
(***************************************************************************)
EXTENDS Connection, TLAPS

\* What the properties say of one manager.
Sound(c) ==
  /\ c.state = "connected" => IsOpen(c)
  /\ c.session.role = "responder" => c.authorized
  /\ c.state = "requesting" => c.requestTimers > 0
  /\ c.session.channel = "new" => c.session.timer = "armed"
  /\ IsOpen(c) => c.trusted

Good(c) == c \in Manager /\ Sound(c)

\* The inductive invariant.
IInv == TypeOK /\ \A d \in Device : Sound(mgr[d])

-----------------------------------------------------------------------------
(* Sessions, managers, messages.                                           *)

LEMMA PeerIsDevice == ASSUME NEW d \in Device PROVE Peer(d) \in Device /\ Peer(d) # d /\ Peer(Peer(d)) = d
BY DEF Device, Peer

LEMMA SessionTypes ==
  /\ NoSession \in Session
  /\ \A role \in {"initiator", "responder"} : NewSession(role) \in Session
<1> USE ConnectionAssumption
<1>1. 0 \in 0..IceRestarts
  OBVIOUS
<1>2. NoSession \in Session
  BY <1>1 DEF NoSession, Session
<1>3. ASSUME NEW role \in {"initiator", "responder"} PROVE NewSession(role) \in Session
  BY <1>2 DEF NewSession, Session
<1> QED BY <1>2, <1>3

LEMMA AutoReconnectGood ==
  ASSUME NEW d \in Device, NEW c, Good(c) PROVE Good(AutoReconnect(d, c))
<1> USE ConnectionAssumption
<1> DEFINE r == [c EXCEPT !.attempts = @ + 1, !.retryTimers = @ + 1]
<1>1. CASE AutoReconnect(d, c) = c
  BY <1>1
<1>2. CASE c.attempts < MaxReconnects /\ AutoReconnect(d, c) = r
  <2>1. r \in Manager
    <3>1. c.attempts \in 0..MaxReconnects /\ c.retryTimers \in Nat
      BY DEF Good, Manager
    <3>2. c.attempts + 1 \in 0..MaxReconnects /\ c.retryTimers + 1 \in Nat
      BY <1>2, <3>1
    <3> QED BY <3>2 DEF Good, Manager
  <2>2. Sound(r)
    BY DEF Good, Manager, Sound, IsOpen
  <2> QED BY <1>2, <2>1, <2>2 DEF Good
<1> QED BY <1>1, <1>2 DEF AutoReconnect

\* A teardown leaves nothing to be sound about.
LEMMA TeardownGood ==
  ASSUME NEW d \in Device, NEW c \in Manager PROVE Good(Teardown(d, c))
<1> DEFINE t == [c EXCEPT !.session = NoSession, !.authorized = FALSE, !.state = "disconnected"]
<1>1. t \in Manager
  BY SessionTypes DEF Manager
<1>2. Sound(t)
  BY DEF Manager, Sound, IsOpen, NoSession
<1> QED BY <1>1, <1>2, AutoReconnectGood DEF Good, Teardown

LEMMA MessageTypes ==
  /\ \A type \in {"connect-request", "accepted", "declined", "signaling-error", "peer-connected",
                  "peer-disconnected", "device-online", "device-offline"} : Message(type) \in Messages
  /\ \A type \in {"offer", "answer"}, n \in SdpId : Sdp(type, n) \in Messages
  /\ \A listed \in BOOLEAN : Welcome(listed) \in Messages
BY DEF Message, Sdp, Welcome, Messages

LEMMA ErrorsType == ASSUME NEW ms \in Seq(Messages) PROVE Errors(ms) \in Seq(Messages)
<1>1. Message("signaling-error") \in Messages
  BY MessageTypes
<1> QED BY <1>1 DEF Errors

-----------------------------------------------------------------------------
(* What an update of one manager keeps.                                    *)

LEMMA UpdateKeeps ==
  ASSUME IInv, NEW d \in Device, NEW c, Good(c),
         NEW inbox \in Seq(Messages), NEW ms \in Seq(Messages),
         Update(d, c, inbox, ms)
  PROVE  /\ mgr' \in [Device -> Manager] /\ \A e \in Device : Sound(mgr'[e])
         /\ net' \in [Device -> Seq(Messages)] /\ held' \in [Device -> Seq(Messages)]
<1>1. mgr' \in [Device -> Manager] /\ \A e \in Device : Sound(mgr'[e])
  <2>1. mgr' = [mgr EXCEPT ![d] = c]
    BY DEF Update
  <2>2. \A e \in Device : mgr'[e] = IF e = d THEN c ELSE mgr[e]
    BY <2>1 DEF IInv, TypeOK
  <2> QED BY <2>1, <2>2 DEF IInv, TypeOK, Good
<1>2. Forwarded(d, inbox, ms) \in [Device -> Seq(Messages)]
  <2>1. inbox \o Errors(ms) \in Seq(Messages)
    BY ErrorsType
  <2>2. net[Peer(d)] \o ms \in Seq(Messages)
    BY PeerIsDevice DEF IInv, TypeOK
  <2> QED BY <2>1, <2>2, PeerIsDevice DEF Forwarded, IInv, TypeOK
<1>3. [held EXCEPT ![d] = @ \o ms] \in [Device -> Seq(Messages)]
  BY DEF IInv, TypeOK
<1> QED BY <1>1, <1>2, <1>3 DEF Update, IInv, TypeOK

\* A handler that leaves the sockets alone.
LEMMA ActKeeps ==
  ASSUME IInv, NEW d \in Device, NEW c, Good(c), NEW ms \in Seq(Messages), Act(d, c, ms),
         offered' \in [Device -> Nat], turns' \in [Device -> Nat], events' \in Nat
  PROVE  IInv'
<1>1. net[d] \in Seq(Messages)
  BY DEF IInv, TypeOK
<1> QED BY <1>1, UpdateKeeps DEF Act, IInv, TypeOK, server

LEMMA BoundTypes ==
  ASSUME IInv, NEW d \in Device
  PROVE  /\ Turn(d) => turns' \in [Device -> Nat]
         /\ \A event : Happens(event, d) => events' \in Nat
         /\ UNCHANGED turns => turns' \in [Device -> Nat]
         /\ UNCHANGED events => events' \in Nat
         /\ UNCHANGED offered => offered' \in [Device -> Nat]
BY DEF IInv, TypeOK, Turn, Happens

LEMMA ManagerIsGood == ASSUME IInv, NEW d \in Device PROVE Good(mgr[d])
BY DEF IInv, TypeOK, Good

LEMMA NoMessages == <<>> \in Seq(Messages)
OBVIOUS

LEMMA OneMessage == ASSUME NEW m \in Messages PROVE <<m>> \in Seq(Messages)
OBVIOUS

-----------------------------------------------------------------------------
(* The manager's operations: each leads from a good manager to a good one.  *)

LEMMA ConnectKeeps == ASSUME IInv, NEW d \in Device, Connect(d) PROVE IInv'
<1>1. Good(mgr[d])
  BY ManagerIsGood
<1> DEFINE c == [mgr[d] EXCEPT !.requesting = @ + 1, !.consent = "given"]
<1>2. Good(c)
  <2>1. mgr[d].requesting + 1 \in Nat
    <3>1. mgr[d].requesting \in Nat
      BY <1>1 DEF Good, Manager
    <3> QED BY <3>1
  <2>2. c \in Manager
    BY <1>1, <2>1 DEF Good, Manager
  <2>3. Sound(c)
    BY <1>1 DEF Good, Manager, Sound, IsOpen
  <2> QED BY <2>2, <2>3 DEF Good
<1>3. Act(d, c, <<>>)
  BY DEF Connect
<1> QED BY <1>2, <1>3, ActKeeps, NoMessages, BoundTypes DEF Connect

LEMMA RequestAllowedKeeps == ASSUME IInv, NEW d \in Device, RequestAllowed(d) PROVE IInv'
<1>1. Good(mgr[d])
  BY ManagerIsGood
<1>0. mgr[d].requesting \in Nat /\ mgr[d].requesting - 1 \in Nat
  <2>1. mgr[d].requesting \in Nat /\ mgr[d].requesting > 0
    BY <1>1 DEF Good, Manager, RequestAllowed
  <2> QED BY <2>1
<1> DEFINE c == [mgr[d] EXCEPT !.requesting = @ - 1, !.authorized = TRUE, !.state = "requesting",
                             !.requestTimers = @ + 1]
<1>2. Good(c)
  <2>1. mgr[d].requestTimers + 1 \in Nat
    <3>1. mgr[d].requestTimers \in Nat
      BY <1>1 DEF Good, Manager
    <3> QED BY <3>1
  <2>2. c \in Manager
    BY <1>1, <1>0, <2>1 DEF Good, Manager
  <2>3. Sound(c)
    BY <1>1, <1>0, <2>1 DEF Good, Manager, Sound, IsOpen
  <2> QED BY <2>2, <2>3 DEF Good
<1>3. Act(d, c, <<Message("connect-request")>>)
  BY DEF RequestAllowed
<1> QED BY <1>2, <1>3, ActKeeps, OneMessage, MessageTypes, BoundTypes DEF RequestAllowed, bounds

LEMMA RequestFailsKeeps == ASSUME IInv, NEW d \in Device, RequestFails(d) PROVE IInv'
<1>1. Good(mgr[d])
  BY ManagerIsGood
<1>0. mgr[d].requesting \in Nat /\ mgr[d].requesting - 1 \in Nat
  <2>1. mgr[d].requesting \in Nat /\ mgr[d].requesting > 0
    BY <1>1 DEF Good, Manager, RequestFails
  <2> QED BY <2>1
<1> DEFINE c == [mgr[d] EXCEPT !.requesting = @ - 1]
<1>2. Good(c)
  BY <1>1, <1>0 DEF Good, Manager, Sound, IsOpen
<1>3. Act(d, c, <<>>)
  BY DEF RequestFails
<1> QED BY <1>2, <1>3, ActKeeps, NoMessages, BoundTypes DEF RequestFails, bounds

LEMMA RequestTimeoutKeeps == ASSUME IInv, NEW d \in Device, RequestTimeout(d) PROVE IInv'
<1>1. Good(mgr[d])
  BY ManagerIsGood
<1>0. mgr[d].requestTimers \in Nat /\ mgr[d].requestTimers - 1 \in Nat
  <2>1. mgr[d].requestTimers \in Nat /\ mgr[d].requestTimers > 0
    BY <1>1 DEF Good, Manager, RequestTimeout
  <2> QED BY <2>1
<1> DEFINE c == [mgr[d] EXCEPT !.requestTimers = @ - 1]
           r == [c EXCEPT !.state = "disconnected"]
<1>2. CASE c.state = "requesting"
  <2>1. Good(r)
    BY <1>1, <1>0, <1>2 DEF Good, Manager, Sound, IsOpen
  <2>2. Good(AutoReconnect(d, r))
    BY <2>1, AutoReconnectGood
  <2>3. Act(d, AutoReconnect(d, r), <<>>)
    BY <1>2 DEF RequestTimeout
  <2> QED BY <2>2, <2>3, ActKeeps, NoMessages, BoundTypes DEF RequestTimeout, bounds
<1>3. CASE c.state # "requesting"
  <2>1. Good(c)
    BY <1>1, <1>0, <1>3 DEF Good, Manager, Sound, IsOpen
  <2>2. Act(d, c, <<>>)
    BY <1>3 DEF RequestTimeout
  <2> QED BY <2>1, <2>2, ActKeeps, NoMessages, BoundTypes DEF RequestTimeout, bounds
<1> QED BY <1>2, <1>3

LEMMA RetryTimeoutKeeps == ASSUME IInv, NEW d \in Device, RetryTimeout(d) PROVE IInv'
<1>1. Good(mgr[d])
  BY ManagerIsGood
<1>0. mgr[d].retryTimers \in Nat /\ mgr[d].retryTimers - 1 \in Nat
  <2>1. mgr[d].retryTimers \in Nat /\ mgr[d].retryTimers > 0
    BY <1>1 DEF Good, Manager, RetryTimeout
  <2> QED BY <2>1
<1> DEFINE c == [mgr[d] EXCEPT !.retryTimers = @ - 1]
           r == [c EXCEPT !.requesting = @ + 1]
<1>2. Good(c)
  BY <1>1, <1>0 DEF Good, Manager, Sound, IsOpen
<1>3. Good(r)
  <2>1. c.requesting + 1 \in Nat
    <3>1. c.requesting \in Nat
      BY <1>2 DEF Good, Manager
    <3> QED BY <3>1
  <2> HIDE DEF c
  <2> QED BY <1>2, <2>1 DEF Good, Manager, Sound, IsOpen
<1>4. Act(d, r, <<>>) \/ Act(d, c, <<>>)
  BY DEF RetryTimeout
<1>5. turns' \in [Device -> Nat] /\ events' \in Nat /\ offered' \in [Device -> Nat]
  BY BoundTypes DEF RetryTimeout
<1> QED BY <1>2, <1>3, <1>4, <1>5, ActKeeps, NoMessages

LEMMA AcceptKeeps == ASSUME IInv, NEW d \in Device, Accept(d) PROVE IInv'
<1>1. Good(mgr[d])
  BY ManagerIsGood
<1> DEFINE c == [mgr[d] EXCEPT !.dialog = FALSE, !.accepting = @ + 1, !.consent = "given"]
<1>2. Good(c)
  <2>1. mgr[d].accepting + 1 \in Nat
    <3>1. mgr[d].accepting \in Nat
      BY <1>1 DEF Good, Manager
    <3> QED BY <3>1
  <2>2. c \in Manager
    BY <1>1, <2>1 DEF Good, Manager
  <2>3. Sound(c)
    BY <1>1 DEF Good, Manager, Sound, IsOpen
  <2> QED BY <2>2, <2>3 DEF Good
<1>3. Act(d, c, <<>>)
  BY DEF Accept
<1> QED BY <1>2, <1>3, ActKeeps, NoMessages, BoundTypes DEF Accept, bounds

LEMMA RejectKeeps == ASSUME IInv, NEW d \in Device, Reject(d) PROVE IInv'
<1>1. Good(mgr[d])
  BY ManagerIsGood
<1> DEFINE c == [mgr[d] EXCEPT !.dialog = FALSE]
<1>2. Good(c)
  BY <1>1 DEF Good, Manager, Sound, IsOpen
<1>3. Act(d, c, <<Message("declined")>>)
  BY DEF Reject
<1> QED BY <1>2, <1>3, ActKeeps, OneMessage, MessageTypes, BoundTypes DEF Reject, bounds

LEMMA AcceptAllowedKeeps == ASSUME IInv, NEW d \in Device, AcceptAllowed(d) PROVE IInv'
<1>1. Good(mgr[d])
  BY ManagerIsGood
<1>0. mgr[d].accepting \in Nat /\ mgr[d].accepting - 1 \in Nat
  <2>1. mgr[d].accepting \in Nat /\ mgr[d].accepting > 0
    BY <1>1 DEF Good, Manager, AcceptAllowed
  <2> QED BY <2>1
<1> DEFINE c == [mgr[d] EXCEPT !.accepting = @ - 1, !.authorized = TRUE, !.trusted = TRUE,
                             !.state = "connecting"]
<1>2. Good(c)
  <2>1. c \in Manager
    BY <1>1, <1>0 DEF Good, Manager
  <2>2. Sound(c)
    BY <1>1, <1>0 DEF Good, Manager, Sound, IsOpen
  <2> QED BY <2>1, <2>2 DEF Good
<1>3. Act(d, c, <<Message("accepted")>>)
  BY DEF AcceptAllowed
<1> QED BY <1>2, <1>3, ActKeeps, OneMessage, MessageTypes, BoundTypes DEF AcceptAllowed, bounds

LEMMA AcceptFailsKeeps == ASSUME IInv, NEW d \in Device, AcceptFails(d) PROVE IInv'
<1>1. Good(mgr[d])
  BY ManagerIsGood
<1>0. mgr[d].accepting \in Nat /\ mgr[d].accepting - 1 \in Nat
  <2>1. mgr[d].accepting \in Nat /\ mgr[d].accepting > 0
    BY <1>1 DEF Good, Manager, AcceptFails
  <2> QED BY <2>1
<1> DEFINE c == [mgr[d] EXCEPT !.accepting = @ - 1]
<1>2. Good(c)
  BY <1>1, <1>0 DEF Good, Manager, Sound, IsOpen
<1>3. Act(d, c, <<>>)
  BY DEF AcceptFails
<1> QED BY <1>2, <1>3, ActKeeps, NoMessages, BoundTypes DEF AcceptFails, bounds

LEMMA DisconnectKeeps == ASSUME IInv, NEW d \in Device, Disconnect(d) PROVE IInv'
<1>1. Good(mgr[d])
  BY ManagerIsGood
<1>2. Good(Teardown(d, mgr[d]))
  BY <1>1, TeardownGood DEF Good
<1>3. Act(d, Teardown(d, mgr[d]), <<Message("peer-disconnected")>>)
  BY DEF Disconnect
<1> QED BY <1>2, <1>3, ActKeeps, OneMessage, MessageTypes, BoundTypes DEF Disconnect

LEMMA ForgetKeeps == ASSUME IInv, NEW d \in Device, Forget(d) PROVE IInv'
<1>1. Good(mgr[d])
  BY ManagerIsGood
<1> DEFINE c == [mgr[d] EXCEPT !.trusted = FALSE, !.attempts = 0, !.consent = "withdrawn"]
<1>2. c \in Manager
  <2>1. 0 \in 0..MaxReconnects
    BY ConnectionAssumption
  <2> QED BY <1>1, <2>1 DEF Good, Manager
<1>3. CASE c.session = NoSession
  <2>1. Sound(c)
    <3>1. c.state # "connected"
      BY <1>1, <1>3 DEF Good, Manager, Sound, IsOpen, NoSession
    <3> QED BY <1>1, <1>3, <3>1 DEF Good, Manager, Sound, IsOpen, NoSession
  <2>2. Act(d, c, <<>>)
    BY <1>3 DEF Forget
  <2> QED BY <1>2, <2>1, <2>2, ActKeeps, NoMessages, BoundTypes DEF Forget, Good
<1>4. CASE c.session # NoSession
  <2>1. Good(Teardown(d, c))
    BY <1>2, TeardownGood
  <2>2. Act(d, Teardown(d, c), <<Message("peer-disconnected")>>)
    BY <1>4 DEF Forget
  <2> QED BY <2>1, <2>2, ActKeeps, OneMessage, MessageTypes, BoundTypes DEF Forget
<1> QED BY <1>3, <1>4

-----------------------------------------------------------------------------
(* The session's events: each leaves the manager a session it may have.     *)

\* A good manager with another session, when that session suits it.
LEMMA NewSessionGood ==
  ASSUME NEW c, Good(c), NEW s \in Session,
         s.role = "responder" => c.authorized,
         s.channel = "new" => s.timer = "armed",
         s.channel = "open" => c.session.channel = "open",
         c.session.channel = "open" => s.channel = "open"
  PROVE  Good([c EXCEPT !.session = s])
<1>1. [c EXCEPT !.session = s] \in Manager
  BY DEF Good, Manager
<1>2. Sound([c EXCEPT !.session = s])
  BY DEF Good, Manager, Sound, IsOpen
<1> QED BY <1>1, <1>2 DEF Good

LEMMA OfferedType == ASSUME IInv, NEW d \in Device PROVE offered[d] \in Nat /\ <<d, offered[d] + 1>> \in SdpId
<1>1. offered[d] \in Nat
  BY DEF IInv, TypeOK
<1>2. offered[d] + 1 \in Nat \ {0}
  BY <1>1
<1> QED BY <1>1, <1>2 DEF SdpId

LEMMA ChannelOpensKeeps == ASSUME IInv, NEW d \in Device, ChannelOpens(d) PROVE IInv'
<1>1. Good(mgr[d])
  BY ManagerIsGood
<1> DEFINE s == [mgr[d].session EXCEPT !.channel = "open", !.restarts = 0, !.timer = "off"]
           c == [mgr[d] EXCEPT !.session = s, !.trusted = TRUE, !.attempts = 0, !.state = "connected"]
<1>2. s \in Session
  <2>1. 0 \in 0..IceRestarts
    BY ConnectionAssumption
  <2>2. mgr[d].session \in Session
    BY <1>1 DEF Good, Manager
  <2> QED BY <2>1, <2>2 DEF Session
<1>3. s.role = mgr[d].session.role /\ s.channel = "open"
  <2>1. mgr[d].session \in Session
    BY <1>1 DEF Good, Manager
  <2> QED BY <2>1 DEF Session
<1>4. Good(c)
  <2>1. 0 \in 0..MaxReconnects
    BY ConnectionAssumption
  <2> HIDE DEF s
  <2>2. c \in Manager
    BY <1>1, <1>2, <2>1 DEF Good, Manager
  <2>3. Sound(c)
    BY <1>1, <1>3 DEF Good, Manager, Sound, IsOpen
  <2> QED BY <2>2, <2>3 DEF Good
<1>5. Act(d, c, <<Message("peer-connected")>>)
  BY <1>1 DEF ChannelOpens, Good, Manager, Session
<1> QED BY <1>4, <1>5, ActKeeps, OneMessage, MessageTypes, BoundTypes DEF ChannelOpens, bounds

LEMMA ChannelClosesKeeps == ASSUME IInv, NEW d \in Device, ChannelCloses(d) PROVE IInv'
<1>1. Good(mgr[d])
  BY ManagerIsGood
<1> DEFINE s == [mgr[d].session EXCEPT !.channel = "closed"]
           c == [mgr[d] EXCEPT !.session = s, !.state = "disconnected"]
<1>2. mgr[d].session \in Session
  BY <1>1 DEF Good, Manager
<1>3. s \in Session /\ s.role = mgr[d].session.role /\ s.channel = "closed"
  BY <1>2 DEF Session
<1>4. Good(c)
  <2> HIDE DEF s
  <2> QED BY <1>1, <1>3 DEF Good, Manager, Sound, IsOpen
<1>5. Act(d, c, <<>>)
  BY <1>1, <1>2 DEF ChannelCloses, Good, Manager, Session
<1> QED BY <1>4, <1>5, ActKeeps, NoMessages, BoundTypes DEF ChannelCloses, bounds

LEMMA OffersKeeps ==
  ASSUME IInv, NEW d \in Device, NEW c, Good(c), NEW inbox \in Seq(Messages), Offers(d, c, inbox),
         UNCHANGED server, turns' \in [Device -> Nat], events' \in Nat
  PROVE  IInv'
<1> DEFINE n == <<d, offered[d] + 1>>
           s == [c.session EXCEPT !.offer = n]
<1>1. n \in SdpId /\ offered[d] \in Nat
  BY OfferedType
<1>2. c.session \in Session
  BY DEF Good, Manager
<1>3. /\ s \in Session /\ s.role = c.session.role
      /\ s.channel = c.session.channel /\ s.timer = c.session.timer
  <2> HIDE DEF n
  <2> QED BY <1>1, <1>2 DEF Session
<1>4. Good([c EXCEPT !.session = s])
  <2> HIDE DEF s
  <2>1. c.session.channel = "new" => c.session.timer = "armed"
    BY DEF Good, Sound
  <2>2. c.session.role = "responder" => c.authorized
    BY DEF Good, Sound
  <2> QED BY <1>3, <2>1, <2>2, NewSessionGood
<1>5. <<Sdp("offer", n)>> \in Seq(Messages)
  BY <1>1, MessageTypes, OneMessage
<1>6. Update(d, [c EXCEPT !.session = s], inbox, <<Sdp("offer", n)>>)
  BY <1>2 DEF Offers, Good, Manager, Session
<1>7. offered' \in [Device -> Nat]
  BY <1>1 DEF Offers, IInv, TypeOK
<1> QED
  <2> HIDE DEF n, s
  <2>1. /\ mgr' \in [Device -> Manager] /\ \A e \in Device : Sound(mgr'[e])
        /\ net' \in [Device -> Seq(Messages)] /\ held' \in [Device -> Seq(Messages)]
    BY <1>4, <1>5, <1>6, UpdateKeeps
  <2> QED BY <1>7, <2>1 DEF IInv, TypeOK, server

LEMMA RecoversKeeps ==
  ASSUME IInv, NEW d \in Device, Recovers(d), turns' \in [Device -> Nat], events' \in Nat
  PROVE  IInv'
<1>1. Good(mgr[d])
  BY ManagerIsGood
<1>2. mgr[d].session \in Session
  BY <1>1 DEF Good, Manager
<1>3. CASE Act(d, Teardown(d, mgr[d]), <<>>) /\ UNCHANGED offered
  <2>1. Good(Teardown(d, mgr[d]))
    BY <1>1, TeardownGood DEF Good
  <2> QED BY <1>3, <2>1, ActKeeps, NoMessages, BoundTypes
<1>4. CASE mgr[d].session.restarts < IceRestarts
  <2> DEFINE s == [mgr[d].session EXCEPT !.restarts = @ + 1]
             r == [mgr[d] EXCEPT !.session.restarts = @ + 1]
  <2>1. mgr[d].session.restarts + 1 \in 0..IceRestarts
    <3>1. mgr[d].session.restarts \in 0..IceRestarts
      BY <1>2 DEF Session
    <3> QED BY <1>4, <3>1, ConnectionAssumption
  <2>2. /\ s \in Session /\ s.role = mgr[d].session.role
        /\ s.channel = mgr[d].session.channel /\ s.timer = mgr[d].session.timer
    BY <1>2, <2>1 DEF Session
  <2>3. r = [mgr[d] EXCEPT !.session = s]
    BY <1>1, <1>2 DEF Good, Manager, Session
  <2>4. Good(r)
    <3> HIDE DEF s
    <3>1. mgr[d].session.channel = "new" => mgr[d].session.timer = "armed"
      BY <1>1 DEF Good, Sound
    <3>2. mgr[d].session.role = "responder" => mgr[d].authorized
      BY <1>1 DEF Good, Sound
    <3>3. Good([mgr[d] EXCEPT !.session = s])
      BY <1>1, <2>2, <3>1, <3>2, NewSessionGood
    <3> QED BY <2>3, <3>3
  <2>5. CASE Offers(d, r, net[d]) /\ UNCHANGED server
    <3>1. net[d] \in Seq(Messages)
      BY DEF IInv, TypeOK
    <3> HIDE DEF r
    <3> QED BY <2>4, <2>5, <3>1, OffersKeeps
  <2>6. CASE Act(d, r, <<>>) /\ UNCHANGED offered
    <3> HIDE DEF r
    <3> QED BY <2>4, <2>6, ActKeeps, NoMessages, BoundTypes
  <2> QED BY <1>4, <2>5, <2>6, <1>3, ConnectionAssumption DEF Recovers
<1> QED BY <1>3, <1>4 DEF Recovers

LEMMA LinkBreaksKeeps == ASSUME IInv, NEW d \in Device, LinkBreaks(d) PROVE IInv'
BY RecoversKeeps, BoundTypes DEF LinkBreaks

LEMMA LinkFailsKeeps == ASSUME IInv, NEW d \in Device, LinkFails(d) PROVE IInv'
BY RecoversKeeps, BoundTypes DEF LinkFails, bounds

LEMMA ConnectTimeoutKeeps == ASSUME IInv, NEW d \in Device, ConnectTimeout(d) PROVE IInv'
<1>1. Good(mgr[d])
  BY ManagerIsGood
<1>2. mgr[d].session \in Session
  BY <1>1 DEF Good, Manager
<1>3. CASE ~IsOpen(mgr[d])
  <2>1. Good(Teardown(d, mgr[d]))
    BY <1>1, TeardownGood DEF Good
  <2> QED BY <1>3, <2>1, ActKeeps, NoMessages, BoundTypes DEF ConnectTimeout, bounds
<1>4. CASE IsOpen(mgr[d])
  <2> DEFINE s == [mgr[d].session EXCEPT !.timer = "fired"]
             c == [mgr[d] EXCEPT !.session = s]
  <2>1. s \in Session /\ s.role = mgr[d].session.role /\ s.channel = "open"
    BY <1>2, <1>4 DEF Session, IsOpen
  <2>2. Good(c)
    <3> HIDE DEF s
    <3>1. mgr[d].session.role = "responder" => mgr[d].authorized
      BY <1>1 DEF Good, Sound
    <3> QED BY <1>1, <1>4, <2>1, <3>1, NewSessionGood DEF IsOpen
  <2>3. Act(d, c, <<>>)
    BY <1>1, <1>2, <1>4 DEF ConnectTimeout, Good, Manager, Session
  <2> HIDE DEF c
  <2> QED BY <2>2, <2>3, ActKeeps, NoMessages, BoundTypes DEF ConnectTimeout, bounds
<1> QED BY <1>3, <1>4

-----------------------------------------------------------------------------
(* Messages.                                                               *)

LEMMA Received ==
  ASSUME IInv, NEW d \in Device, net[d] # <<>>
  PROVE  /\ Next1(d) \in Messages /\ Tail(net[d]) \in Seq(Messages)
         /\ Next1(d).type \in {"offer", "answer"} => Next1(d).of \in SdpId
         /\ Next1(d).type = "device-list" => Next1(d).listed \in BOOLEAN
<1>1. net[d] \in Seq(Messages)
  BY DEF IInv, TypeOK
<1>2. Head(net[d]) \in Messages /\ Tail(net[d]) \in Seq(Messages)
  BY <1>1
<1> QED BY <1>2 DEF Next1, Messages

\* A handler of a message that leads to a good manager.
LEMMA HandleKeeps ==
  ASSUME IInv, NEW d \in Device, net[d] # <<>>, NEW c, Good(c), Handle(d, c, <<>>),
         UNCHANGED server, turns' \in [Device -> Nat], events' \in Nat
  PROVE  IInv'
<1>1. Tail(net[d]) \in Seq(Messages)
  BY Received
<1> QED BY <1>1, UpdateKeeps, NoMessages DEF Handle, IInv, TypeOK, server

LEMMA AnswersKeeps ==
  ASSUME IInv, NEW d \in Device, NEW c, Good(c), NEW inbox \in Seq(Messages), NEW n \in SdpId,
         Answers(d, c, inbox, n), UNCHANGED server, turns' \in [Device -> Nat], events' \in Nat
  PROVE  IInv'
<1> DEFINE s == [c.session EXCEPT !.offer = Never, !.agreed = n]
<1>1. c.session \in Session
  BY DEF Good, Manager
<1>2. /\ s \in Session /\ s.role = c.session.role
      /\ s.channel = c.session.channel /\ s.timer = c.session.timer
  BY <1>1 DEF Session
<1>3. Good([c EXCEPT !.session = s])
  <2> HIDE DEF s
  <2>1. c.session.channel = "new" => c.session.timer = "armed"
    BY DEF Good, Sound
  <2>2. c.session.role = "responder" => c.authorized
    BY DEF Good, Sound
  <2> QED BY <1>2, <2>1, <2>2, NewSessionGood
<1>4. <<Sdp("answer", n)>> \in Seq(Messages)
  BY MessageTypes, OneMessage
<1>5. Update(d, [c EXCEPT !.session = s], inbox, <<Sdp("answer", n)>>)
  BY <1>1 DEF Answers, Good, Manager, Session
<1> HIDE DEF s
<1>6. /\ mgr' \in [Device -> Manager] /\ \A e \in Device : Sound(mgr'[e])
      /\ net' \in [Device -> Seq(Messages)] /\ held' \in [Device -> Seq(Messages)]
  BY <1>3, <1>4, <1>5, UpdateKeeps
<1> QED BY <1>6 DEF Answers, IInv, TypeOK, server

LEMMA GetRequestKeeps ==
  ASSUME IInv, NEW d \in Device, net[d] # <<>>, GetRequest(d),
         UNCHANGED server, turns' \in [Device -> Nat], events' \in Nat
  PROVE  IInv'
<1>1. Good(mgr[d])
  BY ManagerIsGood
<1> DEFINE c == [mgr[d] EXCEPT !.dialog = TRUE]
           a == [mgr[d] EXCEPT !.accepting = @ + 1]
<1>2. Good(c)
  BY <1>1 DEF Good, Manager, Sound, IsOpen
<1>3. Good(a)
  <2>1. mgr[d].accepting + 1 \in Nat
    <3>1. mgr[d].accepting \in Nat
      BY <1>1 DEF Good, Manager
    <3> QED BY <3>1
  <2> QED BY <1>1, <2>1 DEF Good, Manager, Sound, IsOpen
<1>4. Handle(d, c, <<>>) \/ Handle(d, mgr[d], <<>>) \/ Handle(d, a, <<>>)
  BY DEF GetRequest
<1> HIDE DEF c, a
<1> QED BY <1>1, <1>2, <1>3, <1>4, HandleKeeps

LEMMA GetAcceptedKeeps ==
  ASSUME IInv, NEW d \in Device, net[d] # <<>>, GetAccepted(d),
         UNCHANGED server, turns' \in [Device -> Nat], events' \in Nat
  PROVE  IInv'
<1>1. Good(mgr[d])
  BY ManagerIsGood
<1> DEFINE c == [mgr[d] EXCEPT !.state = "connecting", !.session = NewSession("initiator")]
<1>2. NewSession("initiator") \in Session
  BY SessionTypes
<1>3. /\ NewSession("initiator").role = "initiator"
      /\ NewSession("initiator").channel = "new" /\ NewSession("initiator").timer = "armed"
  BY DEF NewSession, NoSession
<1>4. Good(c)
  BY <1>1, <1>2, <1>3 DEF Good, Manager, Sound, IsOpen
<1>5. Good(Teardown(d, c))
  BY <1>4, TeardownGood DEF Good
<1>6. Offers(d, c, Tail(net[d])) \/ Handle(d, Teardown(d, c), <<>>)
  BY DEF GetAccepted
<1>7. Tail(net[d]) \in Seq(Messages)
  BY Received
<1> HIDE DEF c
<1> QED BY <1>4, <1>5, <1>6, <1>7, HandleKeeps, OffersKeeps

LEMMA GetDeclinedKeeps ==
  ASSUME IInv, NEW d \in Device, net[d] # <<>>, GetDeclined(d),
         UNCHANGED server, turns' \in [Device -> Nat], events' \in Nat
  PROVE  IInv'
<1>1. Good(mgr[d])
  BY ManagerIsGood
<1> DEFINE c == [mgr[d] EXCEPT !.state = "disconnected"]
<1>2. Good(c)
  BY <1>1 DEF Good, Manager, Sound, IsOpen
<1>3. Handle(d, c, <<>>)
  BY DEF GetDeclined
<1> HIDE DEF c
<1> QED BY <1>2, <1>3, HandleKeeps

LEMMA GetOfferKeeps ==
  ASSUME IInv, NEW d \in Device, net[d] # <<>>, GetOffer(d),
         UNCHANGED server, turns' \in [Device -> Nat], events' \in Nat
  PROVE  IInv'
<1>1. Good(mgr[d])
  BY ManagerIsGood
<1> DEFINE s == IF mgr[d].session = NoSession THEN NewSession("responder") ELSE Armed(mgr[d].session)
           c == [mgr[d] EXCEPT !.session = s]
<1>2. mgr[d].session \in Session
  BY <1>1 DEF Good, Manager
<1>3. ASSUME mgr[d].authorized PROVE Good(c)
  <2>1. CASE mgr[d].session = NoSession
    <3>1. NewSession("responder") \in Session
      BY SessionTypes
    <3>2. NewSession("responder").channel = "new" /\ NewSession("responder").timer = "armed"
      BY DEF NewSession, NoSession
    <3>3. mgr[d].session.channel # "open"
      BY <2>1 DEF NoSession
    <3> QED BY <1>1, <1>3, <2>1, <3>1, <3>2, <3>3, NewSessionGood
  <2>2. CASE mgr[d].session # NoSession
    <3>1. /\ Armed(mgr[d].session) \in Session
          /\ Armed(mgr[d].session).channel = mgr[d].session.channel
          /\ mgr[d].session.timer = "armed" => Armed(mgr[d].session).timer = "armed"
      BY <1>2 DEF Armed, Session
    <3>2. mgr[d].session.channel = "new" => mgr[d].session.timer = "armed"
      BY <1>1 DEF Good, Sound
    <3> QED BY <1>1, <1>3, <2>2, <3>1, <3>2, NewSessionGood
  <2> QED BY <2>1, <2>2
<1>4. Next1(d).of \in SdpId /\ Tail(net[d]) \in Seq(Messages)
  BY Received DEF GetOffer
<1>5. \/ Handle(d, mgr[d], <<>>)
      \/ mgr[d].authorized /\ Answers(d, c, Tail(net[d]), Next1(d).of)
      \/ mgr[d].authorized /\ Handle(d, c, <<>>)
  BY DEF GetOffer
<1> HIDE DEF c
<1> QED BY <1>1, <1>3, <1>4, <1>5, HandleKeeps, AnswersKeeps

LEMMA GetAnswerKeeps ==
  ASSUME IInv, NEW d \in Device, net[d] # <<>>, GetAnswer(d),
         UNCHANGED server, turns' \in [Device -> Nat], events' \in Nat
  PROVE  IInv'
<1>1. Good(mgr[d])
  BY ManagerIsGood
<1> DEFINE s == [mgr[d].session EXCEPT !.agreed = Next1(d).of, !.offer = Never]
           c == [mgr[d] EXCEPT !.session = s]
<1>2. mgr[d].session \in Session
  BY <1>1 DEF Good, Manager
<1>3. Next1(d).of \in SdpId
  BY Received DEF GetAnswer
<1>4. /\ s \in Session /\ s.role = mgr[d].session.role
      /\ s.channel = mgr[d].session.channel /\ s.timer = mgr[d].session.timer
  BY <1>2, <1>3 DEF Session
<1>5. Good(c)
  <2> HIDE DEF s
  <2>1. mgr[d].session.channel = "new" => mgr[d].session.timer = "armed"
    BY <1>1 DEF Good, Sound
  <2>2. mgr[d].session.role = "responder" => mgr[d].authorized
    BY <1>1 DEF Good, Sound
  <2> QED BY <1>1, <1>4, <2>1, <2>2, NewSessionGood
<1>6. Handle(d, mgr[d], <<>>) \/ Handle(d, c, <<>>)
  BY <1>1, <1>2 DEF GetAnswer, Good, Manager, Session
<1> HIDE DEF c
<1> QED BY <1>1, <1>5, <1>6, HandleKeeps

LEMMA GetPeerDisconnectedKeeps ==
  ASSUME IInv, NEW d \in Device, net[d] # <<>>, GetPeerDisconnected(d),
         UNCHANGED server, turns' \in [Device -> Nat], events' \in Nat
  PROVE  IInv'
<1>1. Good(mgr[d])
  BY ManagerIsGood
<1>2. Good(Teardown(d, mgr[d]))
  BY <1>1, TeardownGood DEF Good
<1> QED BY <1>2, HandleKeeps DEF GetPeerDisconnected

LEMMA GetPresenceKeeps ==
  ASSUME IInv, NEW d \in Device, net[d] # <<>>, GetPresence(d),
         UNCHANGED server, turns' \in [Device -> Nat], events' \in Nat
  PROVE  IInv'
<1>1. Good(mgr[d])
  BY ManagerIsGood
<1> DEFINE c == [mgr[d] EXCEPT !.listed = TRUE]
           o == [mgr[d] EXCEPT !.listed = TRUE, !.attempts = 0]
           g == [mgr[d] EXCEPT !.listed = FALSE]
<1>2. Good(c) /\ Good(g)
  BY <1>1 DEF Good, Manager, Sound, IsOpen
<1>3. Good(o)
  <2>1. 0 \in 0..MaxReconnects
    BY ConnectionAssumption
  <2> QED BY <1>1, <2>1 DEF Good, Manager, Sound, IsOpen
<1>4. Handle(d, AutoReconnect(d, o), <<>>) \/ Handle(d, AutoReconnect(d, c), <<>>) \/ Handle(d, g, <<>>)
  BY DEF GetPresence
<1> HIDE DEF c, o, g
<1>5. Good(AutoReconnect(d, o)) /\ Good(AutoReconnect(d, c))
  BY <1>2, <1>3, AutoReconnectGood
<1> QED BY <1>2, <1>4, <1>5, HandleKeeps

LEMMA ReceiveKeeps == ASSUME IInv, NEW d \in Device, Receive(d) PROVE IInv'
<1>1. net[d] # <<>> /\ UNCHANGED server /\ turns' \in [Device -> Nat]
  BY BoundTypes DEF Receive
<1>2. events' \in Nat
  BY BoundTypes DEF Receive, GetAccepted
<1>3. CASE GetPeerConnected(d)
  BY <1>1, <1>2, <1>3, ManagerIsGood, HandleKeeps DEF GetPeerConnected
<1> QED BY <1>1, <1>2, <1>3, GetRequestKeeps, GetAcceptedKeeps, GetDeclinedKeeps, GetOfferKeeps,
           GetAnswerKeeps, GetPeerDisconnectedKeeps, GetPresenceKeeps DEF Receive

-----------------------------------------------------------------------------
(* Sockets.                                                                *)

\* What the poll and the socket change in a manager.
LEMMA ListedGood ==
  ASSUME NEW c, Good(c), NEW listed \in BOOLEAN PROVE Good([c EXCEPT !.listed = listed])
BY DEF Good, Manager, Sound, IsOpen

LEMMA OneManagerChanges ==
  ASSUME IInv, NEW d \in Device, NEW c, Good(c), mgr' = [mgr EXCEPT ![d] = c]
  PROVE  mgr' \in [Device -> Manager] /\ \A e \in Device : Sound(mgr'[e])
BY DEF IInv, TypeOK, Good

LEMMA SocketDropsKeeps == ASSUME IInv, NEW d \in Device, SocketDrops(d) PROVE IInv'
<1>1. mgr' = [mgr EXCEPT ![d] = [mgr[d] EXCEPT !.listed = FALSE]]
  BY DEF SocketDrops, IInv, TypeOK
<1>2. Good([mgr[d] EXCEPT !.listed = FALSE])
  BY ManagerIsGood, ListedGood
<1>3. mgr' \in [Device -> Manager] /\ \A e \in Device : Sound(mgr'[e])
  BY <1>1, <1>2, OneManagerChanges
<1>4. net' \in [Device -> Seq(Messages)]
  BY NoMessages DEF SocketDrops, IInv, TypeOK
<1>5. turns' \in [Device -> Nat]
  BY BoundTypes DEF SocketDrops
<1>6. lost' \in [Device -> Nat]
  BY DEF SocketDrops, IInv, TypeOK
<1> QED BY <1>3, <1>4, <1>5, <1>6 DEF SocketDrops, IInv, TypeOK

\* A manager that has just come up has no session to be sound about.
LEMMA NewManagerGood == ASSUME NEW trusted \in BOOLEAN PROVE Good(NewManager(trusted))
<1>1. 0 \in 0..MaxReconnects
  BY ConnectionAssumption
<1>2. NewManager(trusted) \in Manager
  BY <1>1, SessionTypes DEF NewManager, Manager
<1>3. Sound(NewManager(trusted))
  BY DEF NewManager, NoSession, Sound, IsOpen
<1> QED BY <1>2, <1>3 DEF Good

LEMMA RestartedGood ==
  ASSUME NEW c \in Manager, NEW dialog \in BOOLEAN
  PROVE  Good(Restarted(c)) /\ Good([Restarted(c) EXCEPT !.dialog = dialog])
<1> DEFINE fresh == NewManager(c.trusted)
<1>1. c.trusted \in BOOLEAN /\ c.consent \in {"never", "given", "withdrawn"}
  BY DEF Manager
<1>2. Good(fresh)
  BY <1>1, NewManagerGood
<1> HIDE DEF fresh
<1>3. Good([fresh EXCEPT !.consent = c.consent])
  BY <1>1, <1>2 DEF Good, Manager, Sound, IsOpen
<1>4. Good(Restarted(c))
  BY <1>3 DEF Restarted, fresh
<1>5. Good([Restarted(c) EXCEPT !.dialog = dialog])
  BY <1>4 DEF Good, Manager, Sound, IsOpen
<1> QED BY <1>4, <1>5

LEMMA StartsAnewKeeps ==
  ASSUME IInv, NEW d \in Device, NEW c, Good(c), StartsAnew(d, c), turns' \in [Device -> Nat]
  PROVE  IInv'
<1>1. mgr' \in [Device -> Manager] /\ \A e \in Device : Sound(mgr'[e])
  BY OneManagerChanges DEF StartsAnew
<1>2. net' \in [Device -> Seq(Messages)] /\ held' \in [Device -> Seq(Messages)]
  BY NoMessages DEF StartsAnew, IInv, TypeOK
<1>3. lost' \in [Device -> Nat] /\ up' \in [Device -> BOOLEAN]
  BY DEF StartsAnew, IInv, TypeOK
<1> QED BY <1>1, <1>2, <1>3 DEF StartsAnew, IInv, TypeOK

LEMMA PageReloadsKeeps == ASSUME IInv, NEW d \in Device, PageReloads(d) PROVE IInv'
<1>1. mgr[d] \in Manager /\ FALSE \in BOOLEAN
  BY ManagerIsGood DEF Good
<1>2. Good(Restarted(mgr[d]))
  BY <1>1, RestartedGood
<1>3. turns' \in [Device -> Nat]
  BY BoundTypes DEF PageReloads
<1> QED BY <1>2, <1>3, StartsAnewKeeps DEF PageReloads

LEMMA IdentityRenewedKeeps == ASSUME IInv, NEW d \in Device, IdentityRenewed(d) PROVE IInv'
<1>1. mgr[d] \in Manager /\ mgr[d].dialog \in BOOLEAN
  BY ManagerIsGood DEF Good, Manager
<1>2. Good([Restarted(mgr[d]) EXCEPT !.dialog = mgr[d].dialog])
  BY <1>1, RestartedGood
<1>3. turns' \in [Device -> Nat]
  BY BoundTypes DEF IdentityRenewed
<1> QED BY <1>2, <1>3, StartsAnewKeeps DEF IdentityRenewed

LEMMA SocketReturnsKeeps == ASSUME IInv, NEW d \in Device, SocketReturns(d) PROVE IInv'
<1> DEFINE p == Peer(d)
           errors == IF row[p] THEN <<>> ELSE Errors(held[d])
           news == <<Message("device-online")>> \o (IF row[p] THEN held[d] ELSE <<>>)
<1>1. p \in Device /\ p # d
  BY PeerIsDevice
<1>2. held[d] \in Seq(Messages) /\ net[p] \in Seq(Messages) /\ row[p] \in BOOLEAN
  BY <1>1 DEF IInv, TypeOK
<1>3. errors \in Seq(Messages)
  BY <1>2, ErrorsType, NoMessages
<1>4. news \in Seq(Messages)
  <2>1. <<Message("device-online")>> \in Seq(Messages)
    BY MessageTypes, OneMessage
  <2> QED BY <1>2, <2>1, NoMessages
<1>5. <<Welcome(row[p])>> \in Seq(Messages)
  BY <1>2, MessageTypes, OneMessage
<1>6. net' = [net EXCEPT ![d] = <<Welcome(row[p])>> \o errors, ![p] = IF up[p] THEN @ \o news ELSE @]
  BY DEF SocketReturns
<1>7. net' \in [Device -> Seq(Messages)]
  <2> HIDE DEF errors, news, p
  <2>1. <<Welcome(row[p])>> \o errors \in Seq(Messages) /\ net[p] \o news \in Seq(Messages)
    BY <1>2, <1>3, <1>4, <1>5
  <2> QED BY <1>1, <1>2, <1>6, <2>1 DEF IInv, TypeOK
<1>8. held' \in [Device -> Seq(Messages)]
  BY NoMessages DEF SocketReturns, IInv, TypeOK
<1> QED BY <1>7, <1>8 DEF SocketReturns, IInv, TypeOK, bounds

LEMMA ServerNoticesKeeps == ASSUME IInv, NEW d \in Device, ServerNotices(d) PROVE IInv'
<1>1. lost' \in [Device -> Nat]
  <2>1. lost[d] \in Nat /\ lost[d] > 0
    BY DEF ServerNotices, IInv, TypeOK
  <2>2. lost[d] - 1 \in Nat
    BY <2>1
  <2> QED BY <2>2 DEF ServerNotices, IInv, TypeOK
<1>2. net' \in [Device -> Seq(Messages)]
  <2>1. Append(net[Peer(d)], Message("device-offline")) \in Seq(Messages)
    BY PeerIsDevice, MessageTypes DEF IInv, TypeOK
  <2> QED BY <2>1 DEF ServerNotices, IInv, TypeOK
<1> QED BY <1>1, <1>2 DEF ServerNotices, IInv, TypeOK, bounds

LEMMA PolledKeeps == ASSUME IInv, NEW d \in Device, Polled(d) PROVE IInv'
<1>1. mgr' = [mgr EXCEPT ![d] = [mgr[d] EXCEPT !.listed = row[Peer(d)]]]
  BY DEF Polled, IInv, TypeOK
<1>2. row[Peer(d)] \in BOOLEAN
  BY PeerIsDevice DEF IInv, TypeOK
<1>3. Good([mgr[d] EXCEPT !.listed = row[Peer(d)]])
  BY <1>2, ManagerIsGood, ListedGood
<1>4. mgr' \in [Device -> Manager] /\ \A e \in Device : Sound(mgr'[e])
  BY <1>1, <1>3, OneManagerChanges
<1> QED BY <1>4 DEF Polled, IInv, TypeOK, server, bounds

-----------------------------------------------------------------------------
(* Consent.  Nothing a device does before its user has said yes brings it   *)
(* a session: it asks for none and takes none, and as the peer was never    *)
(* asked, the peer accepts nothing either.                                  *)

Without(type, ms) == \A i \in DOMAIN ms : ms[i].type # type

\* A manager that neither asked for a session nor may take one.
Passive(c) ==
  /\ c.session = NoSession /\ ~c.authorized /\ ~c.trusted
  /\ c.requesting = 0 /\ c.accepting = 0 /\ c.retryTimers = 0

\* A manager whose peer has not asked for a session.
Unasked(c) == ~c.dialog /\ c.accepting = 0

\* While the user of d has not said yes: nobody has seen a request of d, and so
\* nobody has accepted one.
ConsentInv ==
  \A d \in Device : mgr[d].consent = "never" =>
    /\ Passive(mgr[d]) /\ Unasked(mgr[Peer(d)])
    /\ Without("connect-request", held[d]) /\ Without("connect-request", net[Peer(d)])
    /\ Without("accepted", held[Peer(d)]) /\ Without("accepted", net[d])

\* What the manager of d may become and emit.
Harmless(d, c, ms) ==
  /\ c.consent = "never" =>
       mgr[d].consent = "never" /\ Passive(c) /\ Without("connect-request", ms)
  /\ mgr[Peer(d)].consent = "never" => Unasked(c) /\ Without("accepted", ms)

LEMMA WithoutFacts ==
  ASSUME NEW type
  PROVE  /\ Without(type, <<>>)
         /\ \A other : other # type => Without(type, <<Message(other)>>)
         /\ \A other, n : other # type => Without(type, <<Sdp(other, n)>>)
         /\ \A ms \in Seq(Messages), ns \in Seq(Messages) :
              Without(type, ms) /\ Without(type, ns) => Without(type, ms \o ns)
         /\ \A ms \in Seq(Messages) : ms # <<>> /\ Without(type, ms) => Without(type, Tail(ms))
         /\ \A ms \in Seq(Messages) : type # "signaling-error" => Without(type, Errors(ms))
<1>1. Without(type, <<>>)
  BY DEF Without
<1>2. \A other : other # type => Without(type, <<Message(other)>>)
  BY DEF Without, Message
<1>3. \A other, n : other # type => Without(type, <<Sdp(other, n)>>)
  BY DEF Without, Sdp
<1>4. ASSUME NEW ms \in Seq(Messages), NEW ns \in Seq(Messages), Without(type, ms), Without(type, ns)
      PROVE  Without(type, ms \o ns)
  <2> SUFFICES ASSUME NEW i \in DOMAIN (ms \o ns) PROVE (ms \o ns)[i].type # type
    BY DEF Without
  <2>1. CASE i <= Len(ms)
    <3>1. i \in DOMAIN ms /\ (ms \o ns)[i] = ms[i]
      BY <2>1
    <3> QED BY <1>4, <3>1 DEF Without
  <2>2. CASE i > Len(ms)
    <3>1. i - Len(ms) \in DOMAIN ns /\ (ms \o ns)[i] = ns[i - Len(ms)]
      BY <2>2
    <3> QED BY <1>4, <3>1 DEF Without
  <2> QED BY <2>1, <2>2
<1>5. ASSUME NEW ms \in Seq(Messages), ms # <<>>, Without(type, ms) PROVE Without(type, Tail(ms))
  <2> SUFFICES ASSUME NEW i \in DOMAIN Tail(ms) PROVE Tail(ms)[i].type # type
    BY DEF Without
  <2>1. i + 1 \in DOMAIN ms /\ Tail(ms)[i] = ms[i + 1]
    BY <1>5
  <2> QED BY <1>5, <2>1 DEF Without
<1>6. ASSUME NEW ms \in Seq(Messages), type # "signaling-error" PROVE Without(type, Errors(ms))
  BY <1>6 DEF Without, Errors, Message
<1> QED BY <1>1, <1>2, <1>3, <1>4, <1>5, <1>6

LEMMA UpdateKeepsConsent ==
  ASSUME IInv, ConsentInv, NEW d \in Device, NEW c, NEW inbox \in Seq(Messages), NEW ms \in Seq(Messages),
         Update(d, c, inbox, ms), Harmless(d, c, ms),
         \A type : Without(type, net[d]) => Without(type, inbox)
  PROVE  ConsentInv'
<1> DEFINE p == Peer(d)
<1>1. p \in Device /\ p # d /\ Peer(p) = d /\ Device = {d, p}
  BY PeerIsDevice DEF Device
<1>2. mgr'[d] = c /\ mgr'[p] = mgr[p]
  BY <1>1 DEF Update, IInv, TypeOK
<1>3. /\ net[d] \in Seq(Messages) /\ net[p] \in Seq(Messages)
      /\ held[d] \in Seq(Messages) /\ held[p] \in Seq(Messages) /\ Errors(ms) \in Seq(Messages)
  BY <1>1, ErrorsType DEF IInv, TypeOK
<1>4. net'[d] \in {net[d], inbox, inbox \o Errors(ms)} /\ net'[p] \in {net[p], net[p] \o ms}
  BY <1>1 DEF Update, Forwarded, IInv, TypeOK
<1>5. held'[d] \in {held[d], held[d] \o ms} /\ held'[p] = held[p]
  BY <1>1 DEF Update, IInv, TypeOK
<1>6. ASSUME c.consent = "never"
      PROVE  /\ Passive(c) /\ Unasked(mgr[p])
             /\ Without("connect-request", held'[d]) /\ Without("connect-request", net'[p])
             /\ Without("accepted", held'[p]) /\ Without("accepted", net'[d])
  <2>1. mgr[d].consent = "never" /\ Passive(c) /\ Without("connect-request", ms)
    BY <1>6 DEF Harmless
  <2>2. /\ Unasked(mgr[p])
        /\ Without("connect-request", held[d]) /\ Without("connect-request", net[p])
        /\ Without("accepted", held[p]) /\ Without("accepted", net[d])
    BY <2>1 DEF ConsentInv
  <2>3. Without("accepted", inbox) /\ Without("accepted", inbox \o Errors(ms))
    BY <1>3, <2>2, WithoutFacts
  <2>4. Without("connect-request", held[d] \o ms) /\ Without("connect-request", net[p] \o ms)
    BY <1>3, <2>1, <2>2, WithoutFacts
  <2> QED BY <1>4, <1>5, <2>1, <2>2, <2>3, <2>4
<1>7. ASSUME mgr[p].consent = "never"
      PROVE  /\ Passive(mgr[p]) /\ Unasked(c)
             /\ Without("connect-request", held'[p]) /\ Without("connect-request", net'[d])
             /\ Without("accepted", held'[d]) /\ Without("accepted", net'[p])
  <2>1. Unasked(c) /\ Without("accepted", ms)
    BY <1>7 DEF Harmless
  <2>2. /\ Passive(mgr[p])
        /\ Without("connect-request", held[p]) /\ Without("connect-request", net[d])
        /\ Without("accepted", held[d]) /\ Without("accepted", net[p])
    BY <1>1, <1>7 DEF ConsentInv
  <2>3. Without("connect-request", inbox) /\ Without("connect-request", inbox \o Errors(ms))
    BY <1>3, <2>2, WithoutFacts
  <2>4. Without("accepted", held[d] \o ms) /\ Without("accepted", net[p] \o ms)
    BY <1>3, <2>1, <2>2, WithoutFacts
  <2> QED BY <1>4, <1>5, <2>1, <2>2, <2>3, <2>4
<1> HIDE DEF p
<1>8. p = Peer(d) /\ d = Peer(p)
  BY <1>1 DEF p
<1> QED BY <1>1, <1>2, <1>6, <1>7, <1>8 DEF ConsentInv

\* The manager acts, or handles the next message.
LEMMA ActKeepsConsent ==
  ASSUME IInv, ConsentInv, NEW d \in Device, NEW c, NEW ms \in Seq(Messages),
         Act(d, c, ms), Harmless(d, c, ms)
  PROVE  ConsentInv'
<1>1. net[d] \in Seq(Messages)
  BY DEF IInv, TypeOK
<1> QED BY <1>1, UpdateKeepsConsent DEF Act

LEMMA HandleKeepsConsent ==
  ASSUME IInv, ConsentInv, NEW d \in Device, net[d] # <<>>, NEW c, Handle(d, c, <<>>), Harmless(d, c, <<>>)
  PROVE  ConsentInv'
<1>1. net[d] \in Seq(Messages) /\ Tail(net[d]) \in Seq(Messages)
  BY Received DEF IInv, TypeOK
<1>2. \A type : Without(type, net[d]) => Without(type, Tail(net[d]))
  BY <1>1, WithoutFacts
<1> QED BY <1>1, <1>2, UpdateKeepsConsent, NoMessages DEF Handle

\* What ConsentInv says of d, of it and of its peer.
LEMMA ConsentFacts ==
  ASSUME IInv, ConsentInv, NEW d \in Device
  PROVE  /\ mgr[d] \in Manager
         /\ mgr[d].consent = "never" => Passive(mgr[d]) /\ Without("accepted", net[d])
         /\ mgr[Peer(d)].consent = "never" => Unasked(mgr[d]) /\ Without("connect-request", net[d])
<1>1. Peer(d) \in Device /\ Peer(Peer(d)) = d
  BY PeerIsDevice
<1> QED BY <1>1 DEF ConsentInv, IInv, TypeOK

\* Without trust there is no reconnect; a teardown leaves neither session nor permission.
LEMMA TeardownIsHarmless ==
  ASSUME NEW d, NEW c \in Manager, Passive(c)
  PROVE  /\ AutoReconnect(d, c) = c
         /\ Passive(Teardown(d, c))
<1> DEFINE t == [c EXCEPT !.session = NoSession, !.authorized = FALSE, !.state = "disconnected"]
<1>1. \A m : ~m.trusted => AutoReconnect(d, m) = m
  BY DEF AutoReconnect
<1>2. Passive(t) /\ ~t.trusted
  BY DEF Passive, Manager
<1>3. Teardown(d, c) = AutoReconnect(d, t)
  BY DEF Teardown
<1> HIDE DEF t
<1> QED BY <1>1, <1>2, <1>3 DEF Passive

\* Nor does any of the two touch the dialog, what is being accepted and the consent.
LEMMA TeardownLeaves ==
  ASSUME NEW d, NEW c \in Manager
  PROVE  \A m \in {AutoReconnect(d, c), Teardown(d, c)} :
           m.dialog = c.dialog /\ m.accepting = c.accepting /\ m.consent = c.consent
<1> DEFINE t == [c EXCEPT !.session = NoSession, !.authorized = FALSE, !.state = "disconnected"]
<1>1. ASSUME NEW m \in Manager
      PROVE  /\ AutoReconnect(d, m).dialog = m.dialog /\ AutoReconnect(d, m).accepting = m.accepting
             /\ AutoReconnect(d, m).consent = m.consent
  <2> DEFINE r == [m EXCEPT !.attempts = @ + 1, !.retryTimers = @ + 1]
  <2>1. AutoReconnect(d, m) \in {m, r}
    BY DEF AutoReconnect
  <2>2. r.dialog = m.dialog /\ r.accepting = m.accepting /\ r.consent = m.consent
    BY DEF Manager
  <2> HIDE DEF r
  <2> QED BY <2>1, <2>2
<1>2. t \in Manager /\ t.dialog = c.dialog /\ t.accepting = c.accepting /\ t.consent = c.consent
  BY SessionTypes DEF Manager
<1>3. Teardown(d, c) = AutoReconnect(d, t)
  BY DEF Teardown
<1> HIDE DEF t
<1> QED BY <1>1, <1>2, <1>3

LEMMA UsersKeepConsent ==
  ASSUME IInv, ConsentInv, NEW d \in Device,
         \/ Connect(d) \/ RequestAllowed(d) \/ RequestFails(d) \/ RequestTimeout(d) \/ RetryTimeout(d)
         \/ Accept(d) \/ Reject(d) \/ AcceptAllowed(d) \/ AcceptFails(d) \/ Disconnect(d) \/ Forget(d)
  PROVE  ConsentInv'
<1> DEFINE c == mgr[d]
<1>1. /\ c \in Manager
      /\ c.consent = "never" => Passive(c)
      /\ mgr[Peer(d)].consent = "never" => Unasked(c)
  BY ConsentFacts
<1>2. /\ \A type \in {"connect-request", "accepted", "declined", "peer-disconnected"} :
           <<Message(type)>> \in Seq(Messages)
      /\ <<>> \in Seq(Messages)
  BY MessageTypes, OneMessage, NoMessages
<1>3. CASE Connect(d)
  <2> DEFINE n == [c EXCEPT !.requesting = @ + 1, !.consent = "given"]
  <2>1. Harmless(d, n, <<>>)
    BY <1>1, WithoutFacts DEF Harmless, Manager, Unasked
  <2> QED BY <1>2, <1>3, <2>1, ActKeepsConsent DEF Connect
<1>4. CASE RequestAllowed(d)
  <2> DEFINE n == [c EXCEPT !.requesting = @ - 1, !.authorized = TRUE, !.state = "requesting",
                            !.requestTimers = @ + 1]
  <2>1. c.consent # "never"
    BY <1>1, <1>4 DEF RequestAllowed, Passive
  <2>2. Harmless(d, n, <<Message("connect-request")>>)
    BY <1>1, <2>1, WithoutFacts DEF Harmless, Manager, Unasked
  <2> QED BY <1>2, <1>4, <2>2, ActKeepsConsent DEF RequestAllowed
<1>5. CASE RequestFails(d)
  <2> DEFINE n == [c EXCEPT !.requesting = @ - 1]
  <2>1. c.consent # "never"
    BY <1>1, <1>5 DEF RequestFails, Passive
  <2>2. Harmless(d, n, <<>>)
    BY <1>1, <2>1, WithoutFacts DEF Harmless, Manager, Unasked
  <2> QED BY <1>2, <1>5, <2>2, ActKeepsConsent DEF RequestFails
<1>6. CASE RequestTimeout(d)
  <2> DEFINE n == [c EXCEPT !.requestTimers = @ - 1]
             r == [n EXCEPT !.state = "disconnected"]
  <2>1. /\ n.consent = c.consent /\ (Passive(c) => Passive(n)) /\ (Unasked(c) => Unasked(n))
        /\ r.consent = c.consent /\ (Passive(c) => Passive(r)) /\ (Unasked(c) => Unasked(r))
        /\ r \in Manager
    <3>1. c.requestTimers - 1 \in Nat
      BY <1>1, <1>6 DEF RequestTimeout, Manager
    <3> QED BY <1>1, <3>1 DEF Manager, Passive, Unasked
  <2>2. Act(d, n, <<>>) \/ Act(d, AutoReconnect(d, r), <<>>)
    BY <1>6 DEF RequestTimeout
  <2> HIDE DEF n, r
  <2>3. Harmless(d, n, <<>>)
    BY <1>1, <2>1, WithoutFacts DEF Harmless
  <2>4. Harmless(d, AutoReconnect(d, r), <<>>)
    BY <1>1, <2>1, WithoutFacts, TeardownIsHarmless, TeardownLeaves DEF Harmless, Unasked
  <2> QED BY <1>2, <2>2, <2>3, <2>4, ActKeepsConsent
<1>7. CASE RetryTimeout(d)
  <2> DEFINE n == [c EXCEPT !.retryTimers = @ - 1]
             r == [n EXCEPT !.requesting = @ + 1]
  <2>1. c.consent # "never"
    BY <1>1, <1>7 DEF RetryTimeout, Passive
  <2>2. Harmless(d, n, <<>>) /\ Harmless(d, r, <<>>)
    BY <1>1, <2>1, WithoutFacts DEF Harmless, Manager, Unasked
  <2>3. Act(d, n, <<>>) \/ Act(d, r, <<>>)
    BY <1>7 DEF RetryTimeout
  <2> HIDE DEF n, r
  <2> QED BY <1>2, <2>2, <2>3, ActKeepsConsent
<1>8. CASE Accept(d)
  <2> DEFINE n == [c EXCEPT !.dialog = FALSE, !.accepting = @ + 1, !.consent = "given"]
  <2>1. mgr[Peer(d)].consent # "never"
    BY <1>1, <1>8 DEF Accept, Unasked
  <2>2. Harmless(d, n, <<>>)
    BY <1>1, <2>1, WithoutFacts DEF Harmless, Manager
  <2> QED BY <1>2, <1>8, <2>2, ActKeepsConsent DEF Accept
<1>9. CASE Reject(d)
  <2> DEFINE n == [c EXCEPT !.dialog = FALSE]
  <2>1. Harmless(d, n, <<Message("declined")>>)
    BY <1>1, WithoutFacts DEF Harmless, Manager, Unasked, Passive
  <2> QED BY <1>2, <1>9, <2>1, ActKeepsConsent DEF Reject
<1>10. CASE AcceptAllowed(d)
  <2> DEFINE n == [c EXCEPT !.accepting = @ - 1, !.authorized = TRUE, !.trusted = TRUE,
                            !.state = "connecting"]
  <2>1. c.consent # "never" /\ mgr[Peer(d)].consent # "never"
    BY <1>1, <1>10 DEF AcceptAllowed, Unasked, Passive
  <2>2. Harmless(d, n, <<Message("accepted")>>)
    BY <1>1, <2>1, WithoutFacts DEF Harmless, Manager
  <2> QED BY <1>2, <1>10, <2>2, ActKeepsConsent DEF AcceptAllowed
<1>11. CASE AcceptFails(d)
  <2> DEFINE n == [c EXCEPT !.accepting = @ - 1]
  <2>1. c.consent # "never" /\ mgr[Peer(d)].consent # "never"
    BY <1>1, <1>11 DEF AcceptFails, Unasked, Passive
  <2>2. Harmless(d, n, <<>>)
    BY <1>1, <2>1, WithoutFacts DEF Harmless, Manager
  <2> QED BY <1>2, <1>11, <2>2, ActKeepsConsent DEF AcceptFails
<1>12. CASE Disconnect(d)
  <2>1. Harmless(d, Teardown(d, c), <<Message("peer-disconnected")>>)
    BY <1>1, WithoutFacts, TeardownIsHarmless, TeardownLeaves DEF Harmless, Unasked
  <2> QED BY <1>2, <1>12, <2>1, ActKeepsConsent DEF Disconnect
<1>13. CASE Forget(d)
  <2> DEFINE n == [c EXCEPT !.trusted = FALSE, !.attempts = 0, !.consent = "withdrawn"]
  <2>1. n \in Manager /\ n.consent = "withdrawn" /\ (Unasked(c) => Unasked(n))
    <3>1. 0 \in 0..MaxReconnects
      BY ConnectionAssumption
    <3>2. n \in Manager
      BY <1>1, <3>1 DEF Manager
    <3>3. n.consent = "withdrawn" /\ n.dialog = c.dialog /\ n.accepting = c.accepting
      BY <1>1 DEF Manager
    <3> QED BY <3>2, <3>3 DEF Unasked
  <2>2. Act(d, n, <<>>) \/ Act(d, Teardown(d, n), <<Message("peer-disconnected")>>)
    BY <1>13 DEF Forget
  <2> HIDE DEF n
  <2>3. Harmless(d, n, <<>>) /\ Harmless(d, Teardown(d, n), <<Message("peer-disconnected")>>)
    BY <1>1, <2>1, WithoutFacts, TeardownLeaves DEF Harmless, Unasked
  <2> QED BY <1>2, <2>2, <2>3, ActKeepsConsent
<1> QED BY <1>3, <1>4, <1>5, <1>6, <1>7, <1>8, <1>9, <1>10, <1>11, <1>12, <1>13

\* A session that may be there sends an offer.
LEMMA OffersKeepsConsent ==
  ASSUME IInv, ConsentInv, NEW d \in Device, NEW c, DOMAIN c = DOMAIN mgr[d], NEW inbox \in Seq(Messages),
         Offers(d, c, inbox), c.consent # "never", mgr[Peer(d)].consent = "never" => Unasked(c),
         \A type : Without(type, net[d]) => Without(type, inbox)
  PROVE  ConsentInv'
<1> DEFINE n == <<d, offered[d] + 1>>
           o == [c EXCEPT !.session.offer = n]
<1>1. n \in SdpId
  BY OfferedType
<1> HIDE DEF n
<1>2. <<Sdp("offer", n)>> \in Seq(Messages) /\ Without("accepted", <<Sdp("offer", n)>>)
  BY <1>1, MessageTypes, OneMessage, WithoutFacts
<1>3. o.consent = c.consent /\ o.dialog = c.dialog /\ o.accepting = c.accepting
  <2>1. DOMAIN c = DOMAIN mgr[d] /\ mgr[d] \in Manager
    BY ConsentFacts
  <2> QED BY <2>1 DEF Manager
<1>4. Update(d, o, inbox, <<Sdp("offer", n)>>)
  BY DEF Offers, n
<1> HIDE DEF o
<1>5. Harmless(d, o, <<Sdp("offer", n)>>)
  BY <1>2, <1>3 DEF Harmless, Unasked
<1> QED BY <1>2, <1>4, <1>5, UpdateKeepsConsent

LEMMA SessionKeepsConsent ==
  ASSUME IInv, ConsentInv, NEW d \in Device,
         ChannelOpens(d) \/ ChannelCloses(d) \/ LinkBreaks(d) \/ LinkFails(d) \/ ConnectTimeout(d)
  PROVE  ConsentInv'
<1> DEFINE c == mgr[d]
<1>1. /\ c \in Manager
      /\ c.consent = "never" => Passive(c)
      /\ mgr[Peer(d)].consent = "never" => Unasked(c)
  BY ConsentFacts
<1>2. <<>> \in Seq(Messages) /\ <<Message("peer-connected")>> \in Seq(Messages)
  BY MessageTypes, OneMessage, NoMessages
<1>3. c.session \in Session /\ NoSession.channel = "none" /\ NoSession.agreed = Never /\ NoSession.timer = "off"
  BY <1>1 DEF Manager, NoSession
<1>4. c.consent # "never"
  <2> SUFFICES ASSUME c.session = NoSession PROVE FALSE
    BY <1>1 DEF Passive
  <2>1. ~ChannelOpens(d) /\ ~ChannelCloses(d) /\ ~LinkBreaks(d) /\ ~LinkFails(d) /\ ~ConnectTimeout(d)
    BY <1>3 DEF ChannelOpens, ChannelCloses, LinkBreaks, LinkFails, ConnectTimeout, IsOpen
  <2> QED BY <2>1
<1>5. ASSUME NEW n, NEW ms \in Seq(Messages), Act(d, n, ms), Without("accepted", ms),
             n.consent = c.consent, n.dialog = c.dialog, n.accepting = c.accepting
      PROVE  ConsentInv'
  <2>1. Harmless(d, n, ms)
    BY <1>1, <1>4, <1>5 DEF Harmless, Unasked
  <2> QED BY <1>5, <2>1, ActKeepsConsent
<1>6. CASE ChannelOpens(d)
  <2> DEFINE n == [c EXCEPT !.session.channel = "open", !.session.restarts = 0, !.session.timer = "off",
                            !.trusted = TRUE, !.attempts = 0, !.state = "connected"]
  <2>1. n.consent = c.consent /\ n.dialog = c.dialog /\ n.accepting = c.accepting
    BY <1>1 DEF Manager
  <2>2. Act(d, n, <<Message("peer-connected")>>)
    BY <1>6 DEF ChannelOpens
  <2>3. Without("accepted", <<Message("peer-connected")>>)
    BY WithoutFacts
  <2> HIDE DEF n
  <2> QED BY <1>2, <1>5, <2>1, <2>2, <2>3
<1>7. CASE ChannelCloses(d)
  <2> DEFINE n == [c EXCEPT !.session.channel = "closed", !.state = "disconnected"]
  <2>1. n.consent = c.consent /\ n.dialog = c.dialog /\ n.accepting = c.accepting
    BY <1>1 DEF Manager
  <2>2. Act(d, n, <<>>) /\ Without("accepted", <<>>)
    BY <1>7, WithoutFacts DEF ChannelCloses
  <2> HIDE DEF n
  <2> QED BY <1>2, <1>5, <2>1, <2>2
<1>8. CASE Recovers(d)
  <2> DEFINE n == [c EXCEPT !.session.restarts = @ + 1]
  <2>1. n.consent = c.consent /\ n.dialog = c.dialog /\ n.accepting = c.accepting
    BY <1>1 DEF Manager
  <2>2. Act(d, Teardown(d, c), <<>>) \/ Act(d, n, <<>>) \/ Offers(d, n, net[d])
    BY <1>8 DEF Recovers
  <2>3. Without("accepted", <<>>)
    BY WithoutFacts
  <2>4. CASE Act(d, Teardown(d, c), <<>>)
    BY <1>1, <1>2, <1>5, <2>3, <2>4, TeardownLeaves
  <2>5. CASE Act(d, n, <<>>)
    <3> HIDE DEF n
    <3> QED BY <1>2, <1>5, <2>1, <2>3, <2>5
  <2>6. CASE Offers(d, n, net[d])
    <3>1. n.consent # "never" /\ (mgr[Peer(d)].consent = "never" => Unasked(n))
      BY <1>1, <1>4, <2>1 DEF Unasked
    <3>2. DOMAIN n = DOMAIN c
      OBVIOUS
    <3>3. net[d] \in Seq(Messages) /\ \A type : Without(type, net[d]) => Without(type, net[d])
      BY DEF IInv, TypeOK
    <3> HIDE DEF n
    <3> QED BY <1>1, <2>6, <3>1, <3>2, <3>3, OffersKeepsConsent
  <2> QED BY <2>2, <2>4, <2>5, <2>6
<1>9. CASE ConnectTimeout(d)
  <2> DEFINE n == [c EXCEPT !.session.timer = "fired"]
  <2>1. n.consent = c.consent /\ n.dialog = c.dialog /\ n.accepting = c.accepting
    BY <1>1 DEF Manager
  <2>2. (Act(d, n, <<>>) \/ Act(d, Teardown(d, c), <<>>)) /\ Without("accepted", <<>>)
    BY <1>9, WithoutFacts DEF ConnectTimeout
  <2> HIDE DEF n
  <2> QED BY <1>1, <1>2, <1>5, <2>1, <2>2, TeardownLeaves
<1> QED BY <1>6, <1>7, <1>8, <1>9 DEF LinkBreaks, LinkFails

LEMMA MessagesKeepConsent ==
  ASSUME IInv, ConsentInv, NEW d \in Device, Receive(d)
  PROVE  ConsentInv'
<1> DEFINE c == mgr[d]
           m == Next1(d)
<1>1. /\ c \in Manager
      /\ c.consent = "never" => Passive(c)
      /\ mgr[Peer(d)].consent = "never" => Unasked(c)
  BY ConsentFacts
<1>2. net[d] # <<>> /\ net[d] \in Seq(Messages) /\ Tail(net[d]) \in Seq(Messages) /\ m \in Messages
  BY Received DEF Receive, IInv, TypeOK
<1>3. \A type : Without(type, net[d]) => Without(type, Tail(net[d])) /\ m.type # type
  <2>1. \A type : Without(type, net[d]) => m.type # type
    BY <1>2 DEF Without, Next1
  <2> QED BY <1>2, <2>1, WithoutFacts
<1>4. Without("connect-request", <<>>) /\ Without("accepted", <<>>)
  BY WithoutFacts
<1>5. ASSUME NEW n, Handle(d, n, <<>>), n.consent = c.consent,
             Passive(c) => Passive(n), Unasked(c) => Unasked(n)
      PROVE  ConsentInv'
  <2>1. Harmless(d, n, <<>>)
    BY <1>1, <1>4, <1>5 DEF Harmless
  <2> QED BY <1>2, <1>5, <2>1, HandleKeepsConsent
<1>6. CASE GetRequest(d)
  <2> DEFINE n == [c EXCEPT !.dialog = TRUE]
             a == [c EXCEPT !.accepting = @ + 1]
  <2>1. mgr[Peer(d)].consent # "never"
    BY <1>3, <1>6, ConsentFacts DEF GetRequest
  <2>2. n.consent = c.consent /\ (Passive(c) => Passive(n)) /\ a.consent = c.consent
    BY <1>1 DEF Manager, Passive
  <2>3. Handle(d, n, <<>>) \/ Handle(d, c, <<>>) \/ (c.trusted /\ Handle(d, a, <<>>))
    BY <1>6 DEF GetRequest
  <2> HIDE DEF n, a
  <2>4. Harmless(d, n, <<>>) /\ Harmless(d, c, <<>>) /\ (c.trusted => Harmless(d, a, <<>>))
    BY <1>1, <1>4, <2>1, <2>2 DEF Harmless, Passive
  <2> QED BY <1>2, <2>3, <2>4, HandleKeepsConsent
<1>7. CASE GetAccepted(d)
  <2> DEFINE n == [c EXCEPT !.state = "connecting", !.session = NewSession("initiator")]
  <2>1. c.consent # "never"
    BY <1>3, <1>7, ConsentFacts DEF GetAccepted
  <2>2. /\ n.consent = c.consent /\ n.dialog = c.dialog /\ n.accepting = c.accepting
        /\ n \in Manager /\ DOMAIN n = DOMAIN c
    BY <1>1, SessionTypes DEF Manager
  <2>3. Offers(d, n, Tail(net[d])) \/ Handle(d, Teardown(d, n), <<>>)
    BY <1>7 DEF GetAccepted
  <2> HIDE DEF n
  <2>4. CASE Offers(d, n, Tail(net[d]))
    BY <1>1, <1>2, <1>3, <2>1, <2>2, <2>4, OffersKeepsConsent DEF Unasked
  <2>5. CASE Handle(d, Teardown(d, n), <<>>)
    <3>1. Harmless(d, Teardown(d, n), <<>>)
      BY <1>1, <1>4, <2>1, <2>2, TeardownLeaves DEF Harmless, Unasked
    <3> QED BY <1>2, <2>5, <3>1, HandleKeepsConsent
  <2> QED BY <2>3, <2>4, <2>5
<1>8. CASE GetDeclined(d)
  <2> DEFINE n == [c EXCEPT !.state = "disconnected"]
  <2>1. n.consent = c.consent /\ (Passive(c) => Passive(n)) /\ (Unasked(c) => Unasked(n))
    BY <1>1 DEF Manager, Passive, Unasked
  <2>2. Handle(d, n, <<>>)
    BY <1>8 DEF GetDeclined
  <2> HIDE DEF n
  <2> QED BY <1>5, <2>1, <2>2
<1>9. CASE GetOffer(d)
  <2> DEFINE s == IF c.session = NoSession THEN NewSession("responder") ELSE Armed(c.session)
             n == [c EXCEPT !.session = s]
             o == [n EXCEPT !.session.offer = Never, !.session.agreed = m.of]
  <2>1. /\ n.consent = c.consent /\ (Unasked(c) => Unasked(n))
        /\ o.consent = c.consent /\ (Unasked(c) => Unasked(o))
    <3> HIDE DEF s
    <3> QED BY <1>1 DEF Manager, Unasked
  <2>2. c.authorized => c.consent # "never"
    BY <1>1 DEF Passive
  <2>3. m.of \in SdpId
    BY <1>2, <1>9, Received DEF GetOffer
  <2>4. \/ Handle(d, c, <<>>)
        \/ c.authorized /\ Update(d, o, Tail(net[d]), <<Sdp("answer", m.of)>>)
        \/ c.authorized /\ Handle(d, n, <<>>)
    BY <1>9 DEF GetOffer, Answers
  <2>5. <<Sdp("answer", m.of)>> \in Seq(Messages) /\ Without("accepted", <<Sdp("answer", m.of)>>)
    BY <2>3, MessageTypes, OneMessage, WithoutFacts
  <2> HIDE DEF n, o, m
  <2>6. c.authorized => Harmless(d, n, <<>>) /\ Harmless(d, o, <<Sdp("answer", m.of)>>)
    BY <1>1, <1>4, <2>1, <2>2, <2>5 DEF Harmless
  <2> QED BY <1>2, <1>3, <1>5, <2>4, <2>5, <2>6, HandleKeepsConsent, UpdateKeepsConsent
<1>10. CASE GetAnswer(d)
  <2> DEFINE n == [c EXCEPT !.session.agreed = m.of, !.session.offer = Never]
  <2>1. n.consent = c.consent /\ (Unasked(c) => Unasked(n))
    BY <1>1 DEF Manager, Unasked
  <2>2. Passive(c) => c.session.offer = Never
    BY DEF Passive, NoSession
  <2>3. Handle(d, c, <<>>) \/ (c.session.offer # Never /\ Handle(d, n, <<>>))
    BY <1>10 DEF GetAnswer
  <2> HIDE DEF n
  <2> QED BY <1>5, <2>1, <2>2, <2>3
<1>11. CASE GetPeerConnected(d)
  BY <1>5, <1>11 DEF GetPeerConnected
<1>12. CASE GetPeerDisconnected(d)
  <2>1. /\ Teardown(d, c).consent = c.consent
        /\ (Passive(c) => Passive(Teardown(d, c))) /\ (Unasked(c) => Unasked(Teardown(d, c)))
    BY <1>1, TeardownIsHarmless, TeardownLeaves DEF Unasked
  <2> QED BY <1>5, <1>12, <2>1 DEF GetPeerDisconnected
<1>13. CASE GetPresence(d)
  <2> DEFINE n == [c EXCEPT !.listed = TRUE, !.attempts = 0]
             l == [c EXCEPT !.listed = TRUE]
             g == [c EXCEPT !.listed = FALSE]
  <2>1. \A x \in {n, l, g} :
          /\ x \in Manager
          /\ x.consent = c.consent /\ (Passive(c) => Passive(x)) /\ (Unasked(c) => Unasked(x))
    <3>1. 0 \in 0..MaxReconnects
      BY ConnectionAssumption
    <3>2. n \in Manager /\ l \in Manager /\ g \in Manager
      BY <1>1, <3>1 DEF Manager
    <3>3. \A x \in {n, l, g} : x.consent = c.consent /\ (Passive(c) => Passive(x)) /\ (Unasked(c) => Unasked(x))
      BY <1>1 DEF Manager, Passive, Unasked
    <3> QED BY <3>2, <3>3
  <2>2. Handle(d, AutoReconnect(d, n), <<>>) \/ Handle(d, AutoReconnect(d, l), <<>>) \/ Handle(d, g, <<>>)
    BY <1>13 DEF GetPresence
  <2> HIDE DEF n, l, g
  <2>3. \A x \in {n, l} :
          /\ AutoReconnect(d, x).consent = c.consent
          /\ (Passive(c) => Passive(AutoReconnect(d, x))) /\ (Unasked(c) => Unasked(AutoReconnect(d, x)))
    BY <2>1, TeardownIsHarmless, TeardownLeaves DEF Unasked
  <2> QED BY <1>5, <2>1, <2>2, <2>3
<1> QED BY <1>6, <1>7, <1>8, <1>9, <1>10, <1>11, <1>12, <1>13 DEF Receive

\* Only the listed flag of one manager changes, and messages get lost or are
\* about the peer's socket.
LEMMA ListedKeepsConsent ==
  ASSUME IInv, ConsentInv, NEW d \in Device, NEW listed, mgr' = [mgr EXCEPT ![d].listed = listed],
         UNCHANGED held, \A e \in Device : \A type : Without(type, net[e]) => Without(type, net'[e])
  PROVE  ConsentInv'
<1>1. ASSUME NEW e \in Device
      PROVE  /\ mgr'[e].consent = mgr[e].consent
             /\ Passive(mgr[e]) => Passive(mgr'[e])
             /\ Unasked(mgr[e]) => Unasked(mgr'[e])
  <2>1. mgr[e] \in Manager /\ mgr'[e] \in {mgr[e], [mgr[e] EXCEPT !.listed = listed]}
    BY DEF IInv, TypeOK
  <2> QED BY <2>1 DEF Manager, Passive, Unasked
<1> QED BY <1>1, PeerIsDevice DEF ConsentInv

\* A new manager remembers the consent, and is as passive as one can be.
LEMMA StartsAnewKeepsConsent ==
  ASSUME IInv, ConsentInv, NEW d \in Device, NEW c, StartsAnew(d, c),
         \/ c = Restarted(mgr[d])
         \/ c = [Restarted(mgr[d]) EXCEPT !.dialog = mgr[d].dialog]
  PROVE  ConsentInv'
<1> DEFINE p == Peer(d)
<1>1. p \in Device /\ p # d /\ Peer(p) = d /\ Device = {d, p}
  BY PeerIsDevice DEF Device
<1>2. mgr[d] \in Manager /\ mgr[p] \in Manager
  BY <1>1 DEF IInv, TypeOK
<1>3. /\ c.consent = mgr[d].consent /\ c.accepting = 0 /\ (c.dialog => mgr[d].dialog)
      /\ c.trusted = mgr[d].trusted
      /\ c.session = NoSession /\ ~c.authorized /\ c.requesting = 0 /\ c.retryTimers = 0
  BY <1>2 DEF Restarted, NewManager, Manager
<1>4. mgr' = [mgr EXCEPT ![d] = c] /\ net' = [net EXCEPT ![d] = <<>>] /\ held' = [held EXCEPT ![d] = <<>>]
  BY DEF StartsAnew
<1> HIDE DEF p
<1>5. /\ mgr'[d] = c /\ mgr'[p] = mgr[p] /\ net'[d] = <<>> /\ net'[p] = net[p]
      /\ held'[d] = <<>> /\ held'[p] = held[p]
  BY <1>1, <1>4 DEF IInv, TypeOK
<1>6. p = Peer(d) /\ d = Peer(p)
  BY <1>1 DEF p
<1>7. ASSUME mgr[d].consent = "never"
      PROVE  /\ Passive(c) /\ Unasked(mgr[p])
             /\ Without("connect-request", <<>>) /\ Without("connect-request", net[p])
             /\ Without("accepted", held[p]) /\ Without("accepted", <<>>)
  BY <1>1, <1>3, <1>6, <1>7, WithoutFacts DEF ConsentInv, Passive
<1>8. ASSUME mgr[p].consent = "never"
      PROVE  /\ Passive(mgr[p]) /\ Unasked(c)
             /\ Without("connect-request", held[p]) /\ Without("connect-request", <<>>)
             /\ Without("accepted", <<>>) /\ Without("accepted", net[p])
  BY <1>1, <1>3, <1>6, <1>8, WithoutFacts DEF ConsentInv, Unasked
<1> QED BY <1>1, <1>3, <1>5, <1>6, <1>7, <1>8 DEF ConsentInv

LEMMA SocketReturnsKeepsConsent ==
  ASSUME IInv, ConsentInv, NEW d \in Device, SocketReturns(d)
  PROVE  ConsentInv'
<1> DEFINE p == Peer(d)
           errors == IF row[p] THEN <<>> ELSE Errors(held[d])
           queued == IF row[p] THEN held[d] ELSE <<>>
           news == <<Message("device-online")>> \o queued
<1>1. p \in Device /\ p # d /\ Peer(p) = d /\ Device = {d, p}
  BY PeerIsDevice DEF Device
<1>2. held[d] \in Seq(Messages) /\ net[p] \in Seq(Messages) /\ row[p] \in BOOLEAN
  BY <1>1 DEF IInv, TypeOK
<1>3. /\ <<Message("device-online")>> \in Seq(Messages) /\ <<Welcome(row[p])>> \in Seq(Messages)
      /\ <<>> \in Seq(Messages) /\ Errors(held[d]) \in Seq(Messages)
  BY <1>2, MessageTypes, OneMessage, NoMessages, ErrorsType
<1>4. ASSUME NEW type \in {"connect-request", "accepted"}, Without(type, held[d])
      PROVE  /\ Without(type, <<Welcome(row[p])>> \o errors)
             /\ Without(type, net[p]) => Without(type, net[p] \o news)
  <2>1. Without(type, <<Message("device-online")>>) /\ Without(type, <<Welcome(row[p])>>)
    <3>1. Without(type, <<Message("device-online")>>)
      BY WithoutFacts
    <3> QED BY <3>1 DEF Without, Welcome
  <2>2. Without(type, errors) /\ errors \in Seq(Messages)
    BY <1>2, <1>3, WithoutFacts
  <2>3. Without(type, news) /\ news \in Seq(Messages)
    <3>1. Without(type, queued) /\ queued \in Seq(Messages)
      BY <1>2, <1>3, <1>4, WithoutFacts
    <3> HIDE DEF queued, p
    <3>2. <<Message("device-online")>> \o queued \in Seq(Messages)
      BY <1>3, <3>1
    <3>3. Without(type, <<Message("device-online")>> \o queued)
      BY <1>3, <2>1, <3>1, WithoutFacts
    <3> QED BY <3>2, <3>3
  <2> HIDE DEF errors, news, p
  <2> QED BY <1>2, <1>3, <2>1, <2>2, <2>3, WithoutFacts
<1>5. net' = [net EXCEPT ![d] = <<Welcome(row[p])>> \o errors, ![p] = IF up[p] THEN @ \o news ELSE @]
  BY DEF SocketReturns
<1>6. held' = [held EXCEPT ![d] = <<>>] /\ mgr' = mgr
  BY DEF SocketReturns
<1>7. p = Peer(d)
  OBVIOUS
<1>10. Without("accepted", <<Welcome(row[p])>> \o errors) /\ Without("connect-request", <<Welcome(row[p])>> \o errors)
  <2>1. \A type \in {"connect-request", "accepted"} : Without(type, <<Welcome(row[p])>>) /\ Without(type, errors)
    <3>1. \A type \in {"connect-request", "accepted"} : Without(type, errors)
      BY <1>2, <1>3, WithoutFacts
    <3> QED BY <3>1 DEF Without, Welcome
  <2>2. errors \in Seq(Messages)
    BY <1>3
  <2> HIDE DEF errors
  <2> QED BY <1>3, <2>1, <2>2, WithoutFacts
<1> HIDE DEF p, errors, queued, news
<1>8. /\ net'[d] = <<Welcome(row[p])>> \o errors /\ net'[p] \in {net[p], net[p] \o news}
      /\ held'[d] = <<>> /\ held'[p] = held[p]
  BY <1>1, <1>5, <1>6 DEF IInv, TypeOK
<1>9. Without("connect-request", <<>>) /\ Without("accepted", <<>>)
  BY WithoutFacts
<1>11. ASSUME mgr[d].consent = "never"
       PROVE  /\ Passive(mgr[d]) /\ Unasked(mgr[p])
              /\ Without("connect-request", held'[d]) /\ Without("connect-request", net'[p])
              /\ Without("accepted", held'[p]) /\ Without("accepted", net'[d])
  <2>1. /\ Passive(mgr[d]) /\ Unasked(mgr[p])
        /\ Without("connect-request", held[d]) /\ Without("connect-request", net[p])
        /\ Without("accepted", held[p]) /\ Without("accepted", net[d])
    BY <1>7, <1>11 DEF ConsentInv
  <2> QED BY <1>4, <1>8, <1>9, <1>10, <2>1
<1>12. ASSUME mgr[p].consent = "never"
       PROVE  /\ Passive(mgr[p]) /\ Unasked(mgr[d])
              /\ Without("connect-request", held'[p]) /\ Without("connect-request", net'[d])
              /\ Without("accepted", held'[d]) /\ Without("accepted", net'[p])
  <2>1. /\ Passive(mgr[p]) /\ Unasked(mgr[d])
        /\ Without("connect-request", held[p]) /\ Without("connect-request", net[d])
        /\ Without("accepted", held[d]) /\ Without("accepted", net[p])
    BY <1>1, <1>12 DEF ConsentInv
  <2> QED BY <1>4, <1>8, <1>9, <1>10, <2>1
<1>13. mgr' = mgr /\ Peer(p) = d
  BY <1>1, <1>6
<1> QED BY <1>1, <1>7, <1>11, <1>12, <1>13 DEF ConsentInv

LEMMA SocketsKeepConsent ==
  ASSUME IInv, ConsentInv, NEW d \in Device,
         \/ SocketDrops(d) \/ SocketReturns(d) \/ ServerNotices(d) \/ Polled(d)
         \/ PageReloads(d) \/ IdentityRenewed(d)
  PROVE  ConsentInv'
<1>1. CASE SocketDrops(d)
  <2>1. \A e \in Device : \A type : Without(type, net[e]) => Without(type, net'[e])
    BY <1>1, WithoutFacts DEF SocketDrops, IInv, TypeOK
  <2> QED BY <1>1, <2>1, ListedKeepsConsent DEF SocketDrops
<1>2. CASE SocketReturns(d)
  BY <1>2, SocketReturnsKeepsConsent
<1>3. CASE ServerNotices(d)
  <2>1. \A e \in Device : net'[e] \in {net[e], Append(net[e], Message("device-offline"))}
    BY <1>3 DEF ServerNotices, IInv, TypeOK
  <2>2. ASSUME NEW e \in Device, NEW type \in {"connect-request", "accepted"}, Without(type, net[e])
        PROVE  Without(type, net'[e])
    <3>1. net[e] \in Seq(Messages)
      BY DEF IInv, TypeOK
    <3>2. Without(type, Append(net[e], Message("device-offline")))
      BY <2>2, <3>1 DEF Without, Message
    <3> QED BY <2>1, <2>2, <3>2
  <2>3. mgr' = mgr /\ held' = held
    BY <1>3 DEF ServerNotices
  <2> QED BY <2>2, <2>3, PeerIsDevice DEF ConsentInv
<1>4. CASE Polled(d)
  BY <1>4, ListedKeepsConsent DEF Polled
<1>5. CASE PageReloads(d)
  BY <1>5, StartsAnewKeepsConsent DEF PageReloads
<1>6. CASE IdentityRenewed(d)
  BY <1>6, StartsAnewKeepsConsent DEF IdentityRenewed
<1> QED BY <1>1, <1>2, <1>3, <1>4, <1>5, <1>6

-----------------------------------------------------------------------------
(* The theorems.                                                           *)

LEMMA InitKeeps == Init => IInv
<1> SUFFICES ASSUME Init PROVE IInv
  OBVIOUS
<1>1. ASSUME NEW d \in Device PROVE Good(NewManager(d \in Trusting))
  <2> DEFINE trusted == d \in Trusting
  <2>1. trusted \in BOOLEAN
    OBVIOUS
  <2> HIDE DEF trusted
  <2>2. Good(NewManager(trusted))
    BY <2>1, NewManagerGood
  <2> QED BY <2>2 DEF trusted
<1>2. mgr \in [Device -> Manager] /\ \A d \in Device : Sound(mgr[d])
  BY <1>1 DEF Good, Init
<1>3. net \in [Device -> Seq(Messages)]
  <2>1. <<Welcome(TRUE)>> \in Seq(Messages) /\ <<Message("device-online")>> \in Seq(Messages)
    BY MessageTypes, OneMessage
  <2> QED BY <2>1 DEF Init
<1>4. held \in [Device -> Seq(Messages)]
  BY NoMessages DEF Init
<1> QED BY <1>2, <1>3, <1>4 DEF Init, IInv, TypeOK

LEMMA StepKeeps == IInv /\ [Next]_vars => IInv'
<1> SUFFICES ASSUME IInv, [Next]_vars PROVE IInv'
  OBVIOUS
<1>1. CASE UNCHANGED vars
  BY <1>1 DEF vars, server, bounds, IInv, TypeOK
<1>2. CASE Next
  BY <1>2, ConnectKeeps, RequestAllowedKeeps, RequestFailsKeeps, RequestTimeoutKeeps, RetryTimeoutKeeps,
     AcceptKeeps, RejectKeeps, AcceptAllowedKeeps, AcceptFailsKeeps, DisconnectKeeps, ForgetKeeps,
     ChannelOpensKeeps, ChannelClosesKeeps, LinkBreaksKeeps, LinkFailsKeeps, ConnectTimeoutKeeps,
     PageReloadsKeeps, IdentityRenewedKeeps, ReceiveKeeps, SocketDropsKeeps, SocketReturnsKeeps, ServerNoticesKeeps, PolledKeeps
  DEF Next
<1> QED BY <1>1, <1>2

\* Every manager stays sound, whatever the other side and the network do.
THEOREM ConnectionInductive == Spec => []IInv
BY InitKeeps, StepKeeps, PTL DEF Spec

\* Every field keeps its type; reconnects and ICE restarts stay within their limits.
THEOREM ConnectionType == Spec => []TypeOK
<1>1. IInv => TypeOK
  BY DEF IInv
<1> QED BY <1>1, ConnectionInductive, PTL

\* "connected" is shown only over an open channel.
THEOREM ConnectionConnectedIsOpen == Spec => []ConnectedIsOpen
<1>1. IInv => ConnectedIsOpen
  BY DEF IInv, Sound, ConnectedIsOpen
<1> QED BY <1>1, ConnectionInductive, PTL

\* The permission gate: no session of a peer that is not authorized.
THEOREM ConnectionResponderAuthorized == Spec => []ResponderAuthorized
<1>1. IInv => ResponderAuthorized
  BY DEF IInv, Sound, ResponderAuthorized
<1> QED BY <1>1, ConnectionInductive, PTL

\* "requesting" never lasts without a pending timer.
THEOREM ConnectionRequestHasTimer == Spec => []RequestHasTimer
<1>1. IInv => RequestHasTimer
  BY DEF IInv, Sound, RequestHasTimer
<1> QED BY <1>1, ConnectionInductive, PTL

\* A session that has not opened is watched by its timer.
THEOREM ConnectionSessionHasTimer == Spec => []SessionHasTimer
<1>1. IInv => SessionHasTimer
  BY DEF IInv, Sound, SessionHasTimer
<1> QED BY <1>1, ConnectionInductive, PTL

\* An open link belongs to a trusted peer.
THEOREM ConnectionOpenIsTrusted == Spec => []OpenIsTrusted
<1>1. IInv => OpenIsTrusted
  BY DEF IInv, Sound, OpenIsTrusted
<1> QED BY <1>1, ConnectionInductive, PTL

\* Before its user has said yes a device has no session.
THEOREM ConnectionOpenNeedsConsent == Spec => []OpenNeedsConsent
<1>1. Init => ConsentInv
  <2> SUFFICES ASSUME Init, NEW d \in Device, mgr[d].consent = "never"
               PROVE  /\ Passive(mgr[d]) /\ Unasked(mgr[Peer(d)])
                      /\ Without("connect-request", held[d]) /\ Without("connect-request", net[Peer(d)])
                      /\ Without("accepted", held[Peer(d)]) /\ Without("accepted", net[d])
    BY DEF ConsentInv
  <2>1. Peer(d) \in Device
    BY PeerIsDevice
  <2>2. mgr[d] = NewManager(d \in Trusting) /\ mgr[Peer(d)] = NewManager(Peer(d) \in Trusting)
    BY <2>1 DEF Init
  <2>3. Passive(mgr[d]) /\ Unasked(mgr[Peer(d)])
    <3>1. ASSUME NEW trusted \in BOOLEAN
          PROVE  /\ NewManager(trusted).consent = "never" => Passive(NewManager(trusted))
                 /\ Unasked(NewManager(trusted))
      BY DEF NewManager, Passive, Unasked
    <3>2. (d \in Trusting) \in BOOLEAN /\ (Peer(d) \in Trusting) \in BOOLEAN
      OBVIOUS
    <3> QED BY <2>2, <3>1, <3>2
  <2>4. \A e \in Device : held[e] = <<>> /\ net[e] \in {<<Welcome(TRUE)>>, <<Message("device-online")>>}
    BY DEF Init
  <2>5. \A type \in {"connect-request", "accepted"} :
          Without(type, <<>>) /\ Without(type, <<Welcome(TRUE)>>) /\ Without(type, <<Message("device-online")>>)
    BY DEF Without, Welcome, Message
  <2> QED BY <2>1, <2>3, <2>4, <2>5
<1>2. IInv /\ ConsentInv /\ [Next]_vars => ConsentInv'
  <2> SUFFICES ASSUME IInv, ConsentInv, [Next]_vars PROVE ConsentInv'
    OBVIOUS
  <2>1. CASE UNCHANGED vars
    BY <2>1 DEF vars, ConsentInv
  <2>2. CASE Next
    BY <2>2, UsersKeepConsent, SessionKeepsConsent, MessagesKeepConsent, SocketsKeepConsent DEF Next
  <2> QED BY <2>1, <2>2
<1>3. ConsentInv => OpenNeedsConsent
  BY DEF ConsentInv, Passive, OpenNeedsConsent, IsOpen, NoSession
<1> QED BY <1>1, <1>2, <1>3, ConnectionInductive, PTL DEF Spec
=============================================================================
