------------------------------ MODULE Connection ------------------------------
(***************************************************************************)
(* How two devices get a PeerSession to each other and lose it again: the  *)
(* P2PManagers of both (client/src/p2p/P2PManager.ts), the negotiation and *)
(* the channel of their sessions (PeerSession.ts), and the server that     *)
(* forwards their messages (server/src/socket/SignalingGateway.ts).        *)
(*                                                                         *)
(* A manager is a record of its fields about the peer; a handler takes it  *)
(* to its next value and to the messages it emits, in order.               *)
(***************************************************************************)
EXTENDS Naturals, Sequences

CONSTANTS
  MaxReconnects,  \* automatic reconnects before the manager gives up
  IceRestarts,    \* ICE restarts before a session gives up
  Trusting,       \* bound: who trusts the peer from an earlier visit
  MaxTurns,       \* bound: MaxTurns[d] calls of requestConnection(), losses of the socket and reloads at d
  MaxEvents,      \* bound: how many of Events happen in all
  Events          \* bound: which, at which device

\* The two deviceIds; the comparison of ids is that of numbers.
Device == {1, 2}
Peer(d) == 3 - d

ASSUME ConnectionAssumption ==
  /\ MaxReconnects \in Nat /\ IceRestarts \in Nat
  /\ Trusting \subseteq Device
  /\ MaxTurns \in [Device -> Nat] /\ MaxEvents \in Nat
  /\ Events \subseteq {"break", "disconnect", "forget"} \X Device

VARIABLES
  mgr,       \* mgr[d]: the P2PManager of d
  net,       \* net[d]: messages of the server on their way to d
  held,      \* held[d]: what d emitted while its socket was down
  up,        \* the socket of d as d sees it
  lost,      \* lost[d]: sockets of d whose end the server has not seen
  row,       \* row[d]: the server's table shows d online
  offered,   \* offered[d]: SDP offers d has made
  turns,     \* turns[d]: of MaxTurns[d] so far
  events     \* of Events so far

server == <<up, lost, row>>
bounds == <<turns, events>>
vars == <<mgr, net, held, server, offered, bounds>>

Never == <<>>

\* A PeerSession: the offer whose answer it awaits, the offer its two
\* descriptions come from, its channel, connectTimer and restartAttempts.
NoSession ==
  [role |-> "none", offer |-> Never, agreed |-> Never,
   channel |-> "none", timer |-> "off", restarts |-> 0]

\* Slip: the timer is left to handleOffer().
NewSessionUntimed(role) == [NoSession EXCEPT !.role = role, !.channel = "new"]

NewSession(role) == [NoSession EXCEPT !.role = role, !.channel = "new", !.timer = "armed"]

\* A P2PManager.  requesting and accepting count its calls of api.connect(),
\* requestTimers and retryTimers its pending timeouts.
NewManager(trusted) ==
  [state |-> "idle", authorized |-> FALSE, trusted |-> trusted, attempts |-> 0,
   listed |-> FALSE, dialog |-> FALSE, requesting |-> 0, accepting |-> 0,
   requestTimers |-> 0, retryTimers |-> 0, session |-> NoSession,
   consent |-> IF trusted THEN "given" ELSE "never"]   \* history: what the user last said

\* What sessionStorage and the user remember of the manager c.
Restarted(c) == [NewManager(c.trusted) EXCEPT !.consent = c.consent]

\* What the server sends: Socket.IO events, SDPs with the offer they belong to,
\* the list of devices.
Message(type) == [type |-> type]
Sdp(type, n) == [type |-> type, of |-> n]
Welcome(listed) == [type |-> "device-list", listed |-> listed]

\* The page of one device is online, that of the other has just come.
Init ==
  /\ \E d \in Device :
       net = [e \in Device |-> IF e = d THEN <<Welcome(TRUE)>> ELSE <<Message("device-online")>>]
  /\ mgr = [d \in Device |-> NewManager(d \in Trusting)]
  /\ held = [d \in Device |-> <<>>]
  /\ up = [d \in Device |-> TRUE] /\ row = [d \in Device |-> TRUE]
  /\ lost = [d \in Device |-> 0] /\ offered = [d \in Device |-> 0]
  /\ turns = [d \in Device |-> 0] /\ events = 0

-----------------------------------------------------------------------------
(* The server.                                                             *)

Turn(d) == turns[d] < MaxTurns[d] /\ turns' = [turns EXCEPT ![d] = @ + 1]
Happens(event, d) == <<event, d>> \in Events /\ events < MaxEvents /\ events' = events + 1

\* assertCanConnect(): the peer of d is online in the table.
CanConnect(d) == row[Peer(d)]

Errors(ms) == [i \in DOMAIN ms |-> Message("signaling-error")]

\* forward(): the target gets the messages if it has a socket.  inbox is what is
\* still on its way to d.
Forwarded(d, inbox, ms) ==
  IF CanConnect(d)
  THEN [net EXCEPT ![d] = inbox, ![Peer(d)] = IF up[Peer(d)] THEN @ \o ms ELSE @]
  ELSE [net EXCEPT ![d] = inbox \o Errors(ms)]

\* The manager of d becomes c and emits ms; a socket that is down holds them.
Update(d, c, inbox, ms) ==
  /\ mgr' = [mgr EXCEPT ![d] = c]
  /\ \/ /\ up[d]
        /\ net' = Forwarded(d, inbox, ms)
        /\ UNCHANGED held
     \/ /\ ~up[d]
        /\ held' = [held EXCEPT ![d] = @ \o ms]
        /\ UNCHANGED net

Act(d, c, ms) == Update(d, c, net[d], ms) /\ UNCHANGED server

-----------------------------------------------------------------------------
(* The manager.                                                            *)

IsOpen(c) == c.session.channel = "open"

\* Slip: the attempts are counted and never compared.
AutoReconnectEndless(d, c) ==
  IF c.trusted /\ d < Peer(d) /\ ~IsOpen(c)
  THEN [c EXCEPT !.attempts = @ + 1, !.retryTimers = @ + 1]
  ELSE c

AutoReconnect(d, c) ==
  IF c.trusted /\ d < Peer(d) /\ ~IsOpen(c) /\ c.attempts < MaxReconnects
  THEN [c EXCEPT !.attempts = @ + 1, !.retryTimers = @ + 1]
  ELSE c

\* Slip: the session stays in the map.
TeardownKeepsSession(d, c) == AutoReconnect(d, [c EXCEPT !.authorized = FALSE, !.state = "disconnected"])

Teardown(d, c) ==
  AutoReconnect(d, [c EXCEPT !.session = NoSession, !.authorized = FALSE, !.state = "disconnected"])

\* The panel of a listed peer has the buttons Connect, while neither connected
\* nor on the way to it, Disconnect while connected, Forget while trusted.
Connect(d) ==
  /\ mgr[d].listed /\ up[d] /\ mgr[d].state \in {"idle", "disconnected"}
  /\ Turn(d)
  /\ Act(d, [mgr[d] EXCEPT !.requesting = @ + 1, !.consent = "given"], <<>>)
  /\ UNCHANGED <<offered, events>>

\* Slip: no timer.
RequestAllowedUntimed(d) ==
  /\ mgr[d].requesting > 0 /\ CanConnect(d)
  /\ Act(d, [mgr[d] EXCEPT !.requesting = @ - 1, !.authorized = TRUE, !.state = "requesting"],
         <<Message("connect-request")>>)
  /\ UNCHANGED <<offered, bounds>>

\* api.connect() allows requestConnection() to go on.
RequestAllowed(d) ==
  /\ mgr[d].requesting > 0 /\ CanConnect(d)
  /\ Act(d, [mgr[d] EXCEPT !.requesting = @ - 1, !.authorized = TRUE, !.state = "requesting",
                           !.requestTimers = @ + 1],
         <<Message("connect-request")>>)
  /\ UNCHANGED <<offered, bounds>>

\* api.connect() is refused or does not get through.
RequestFails(d) ==
  /\ mgr[d].requesting > 0
  /\ Act(d, [mgr[d] EXCEPT !.requesting = @ - 1], <<>>)
  /\ UNCHANGED <<offered, bounds>>

RequestTimeout(d) ==
  LET c == [mgr[d] EXCEPT !.requestTimers = @ - 1] IN
  /\ mgr[d].requestTimers > 0
  /\ Act(d, IF c.state = "requesting" THEN AutoReconnect(d, [c EXCEPT !.state = "disconnected"]) ELSE c,
         <<>>)
  /\ UNCHANGED <<offered, bounds>>

MayRetry(d, c) == up[d] /\ c.listed /\ ~IsOpen(c) /\ c.state \notin {"connecting", "requesting"}

RetryTimeout(d) ==
  LET c == [mgr[d] EXCEPT !.retryTimers = @ - 1] IN
  /\ mgr[d].retryTimers > 0
  /\ \/ MayRetry(d, c) /\ Turn(d) /\ Act(d, [c EXCEPT !.requesting = @ + 1], <<>>)
     \/ ~MayRetry(d, c) /\ UNCHANGED turns /\ Act(d, c, <<>>)
  /\ UNCHANGED <<offered, events>>

\* The consent dialog.
Accept(d) ==
  /\ mgr[d].dialog
  /\ Act(d, [mgr[d] EXCEPT !.dialog = FALSE, !.accepting = @ + 1, !.consent = "given"], <<>>)
  /\ UNCHANGED <<offered, bounds>>

Reject(d) ==
  /\ mgr[d].dialog
  /\ Act(d, [mgr[d] EXCEPT !.dialog = FALSE], <<Message("declined")>>)
  /\ UNCHANGED <<offered, bounds>>

\* api.connect() allows acceptConnection() to go on.
AcceptAllowed(d) ==
  /\ mgr[d].accepting > 0 /\ CanConnect(d)
  /\ Act(d, [mgr[d] EXCEPT !.accepting = @ - 1, !.authorized = TRUE, !.trusted = TRUE,
                           !.state = "connecting"],
         <<Message("accepted")>>)
  /\ UNCHANGED <<offered, bounds>>

AcceptFails(d) ==
  /\ mgr[d].accepting > 0
  /\ Act(d, [mgr[d] EXCEPT !.accepting = @ - 1], <<>>)
  /\ UNCHANGED <<offered, bounds>>

Disconnect(d) ==
  /\ mgr[d].listed /\ mgr[d].state = "connected"
  /\ Happens("disconnect", d)
  /\ Act(d, Teardown(d, mgr[d]), <<Message("peer-disconnected")>>)
  /\ UNCHANGED <<offered, turns>>

\* Slip: the open session is forgotten as well.
ForgetOnly(d) ==
  /\ mgr[d].listed /\ mgr[d].trusted
  /\ Happens("forget", d)
  /\ Act(d, [mgr[d] EXCEPT !.trusted = FALSE, !.attempts = 0, !.consent = "withdrawn"], <<>>)
  /\ UNCHANGED <<offered, turns>>

\* untrustPeer()
Forget(d) ==
  LET c == [mgr[d] EXCEPT !.trusted = FALSE, !.attempts = 0, !.consent = "withdrawn"] IN
  /\ mgr[d].listed /\ mgr[d].trusted
  /\ Happens("forget", d)
  /\ IF c.session = NoSession THEN Act(d, c, <<>>)
     ELSE Act(d, Teardown(d, c), <<Message("peer-disconnected")>>)
  /\ UNCHANGED <<offered, turns>>

-----------------------------------------------------------------------------
(* The session.                                                            *)

\* createAndSendOffer() of the session s of the manager c.
Offers(d, c, inbox) ==
  LET n == <<d, offered[d] + 1>> IN
  /\ offered' = [offered EXCEPT ![d] = @ + 1]
  /\ Update(d, [c EXCEPT !.session.offer = n], inbox, <<Sdp("offer", n)>>)

\* setRemoteDescription() takes the offer n, rolling back an offer of its own.
Answers(d, c, inbox, n) ==
  /\ Update(d, [c EXCEPT !.session.offer = Never, !.session.agreed = n], inbox, <<Sdp("answer", n)>>)
  /\ UNCHANGED offered

\* The descriptions of both sides come from one offer.
Agreed ==
  LET s == mgr[1].session  t == mgr[2].session IN s.agreed # Never /\ s.agreed = t.agreed

\* The same, while an ICE restart is answered.
Linked ==
  LET Known(s) == {s.agreed, s.offer} \ {Never} IN
  Known(mgr[1].session) \cap Known(mgr[2].session) # {}

\* The channel object of an initiator opens once, ondatachannel gives the
\* other side a new one.
ChannelOpens(d) ==
  LET s == mgr[d].session IN
  /\ Agreed
  /\ s.channel = "new" \/ (s.channel = "closed" /\ s.role = "responder")
  /\ Act(d, [mgr[d] EXCEPT !.session.channel = "open", !.session.restarts = 0, !.session.timer = "off",
                           !.trusted = TRUE, !.attempts = 0, !.state = "connected"],
         <<Message("peer-connected")>>)
  /\ UNCHANGED <<offered, bounds>>

\* Slip: onclose does not tell the manager.
ChannelClosesUnseen(d) ==
  /\ IsOpen(mgr[d]) /\ ~Linked
  /\ Act(d, [mgr[d] EXCEPT !.session.channel = "closed"], <<>>)
  /\ UNCHANGED <<offered, bounds>>

\* The peer's session is gone.
ChannelCloses(d) ==
  /\ IsOpen(mgr[d]) /\ ~Linked
  /\ Act(d, [mgr[d] EXCEPT !.session.channel = "closed", !.state = "disconnected"], <<>>)
  /\ UNCHANGED <<offered, bounds>>

\* connectionState is disconnected or failed: tryRecover().
Recovers(d) ==
  LET c == mgr[d] IN
  \/ /\ c.session.restarts >= IceRestarts
     /\ Act(d, Teardown(d, c), <<>>)
     /\ UNCHANGED offered
  \/ /\ c.session.restarts < IceRestarts
     /\ LET r == [c EXCEPT !.session.restarts = @ + 1] IN
        IF c.session.role = "initiator" THEN Offers(d, r, net[d]) /\ UNCHANGED server
        ELSE Act(d, r, <<>>) /\ UNCHANGED offered

LinkBreaks(d) ==
  /\ IsOpen(mgr[d]) /\ Linked
  /\ Happens("break", d)
  /\ Recovers(d)
  /\ UNCHANGED turns

LinkFails(d) ==
  /\ mgr[d].session.agreed # Never /\ ~Linked
  /\ Recovers(d)
  /\ UNCHANGED bounds

\* armConnectTimeout(): a timer that has fired is not armed again.
Armed(s) == IF s.timer = "off" THEN [s EXCEPT !.timer = "armed"] ELSE s

ConnectTimeout(d) ==
  /\ mgr[d].session.timer = "armed"
  /\ Act(d, IF IsOpen(mgr[d]) THEN [mgr[d] EXCEPT !.session.timer = "fired"] ELSE Teardown(d, mgr[d]), <<>>)
  /\ UNCHANGED <<offered, bounds>>

-----------------------------------------------------------------------------
(* What the server sends to d.                                             *)

Next1(d) == Head(net[d])
Handle(d, c, ms) == Update(d, c, Tail(net[d]), ms) /\ UNCHANGED offered

\* The glare guard.
StaysInitiator(d, c) == c.state = "requesting" /\ d < Peer(d)

\* Slip: every request is accepted.
GetRequestOpenly(d) ==
  /\ Next1(d).type = "connect-request"
  /\ Handle(d, [mgr[d] EXCEPT !.accepting = @ + 1], <<>>)

GetRequest(d) ==
  LET c == mgr[d] IN
  /\ Next1(d).type = "connect-request"
  /\ \/ /\ ~c.trusted
        /\ Handle(d, [c EXCEPT !.dialog = TRUE], <<>>)
     \/ /\ c.trusted /\ StaysInitiator(d, c)
        /\ Handle(d, c, <<>>)
     \/ /\ c.trusted /\ ~StaysInitiator(d, c)
        /\ Handle(d, [c EXCEPT !.accepting = @ + 1], <<>>)

\* openSession(), which replaces the session there is.
GetAccepted(d) ==
  LET c == [mgr[d] EXCEPT !.state = "connecting", !.session = NewSession("initiator")] IN
  /\ Next1(d).type = "accepted"
  /\ \/ Offers(d, c, Tail(net[d])) /\ UNCHANGED events
     \/ Handle(d, Teardown(d, c), <<>>) /\ Happens("break", d)

GetDeclined(d) ==
  /\ Next1(d).type \in {"declined", "signaling-error"}
  /\ Handle(d, [mgr[d] EXCEPT !.state = "disconnected"], <<>>)

\* The permission gate.  A session that is no longer new may fail to take the
\* offer of another one.
GetOffer(d) ==
  LET c == mgr[d]
      fresh == c.session = NoSession
      s == IF fresh THEN NewSession("responder") ELSE Armed(c.session)
      n == Next1(d).of
  IN
  /\ Next1(d).type = "offer"
  /\ \/ /\ ~c.authorized
        /\ Handle(d, c, <<>>)
     \/ /\ c.authorized
        /\ Answers(d, [c EXCEPT !.session = s], Tail(net[d]), n)
     \/ /\ c.authorized /\ ~fresh
        /\ Handle(d, [c EXCEPT !.session = s], <<>>)

\* An answer is taken while an offer is open, whichever it answers.
GetAnswer(d) ==
  LET c == mgr[d] IN
  /\ Next1(d).type = "answer"
  /\ IF c.session.offer = Never THEN Handle(d, c, <<>>)
     ELSE Handle(d, [c EXCEPT !.session.agreed = Next1(d).of, !.session.offer = Never], <<>>)

\* Nobody listens to peer-connected.
GetPeerConnected(d) ==
  /\ Next1(d).type = "peer-connected"
  /\ Handle(d, mgr[d], <<>>)

GetPeerDisconnected(d) ==
  /\ Next1(d).type = "peer-disconnected"
  /\ Handle(d, Teardown(d, mgr[d]), <<>>)

GetPresence(d) ==
  LET c == mgr[d] IN
  \/ /\ Next1(d).type = "device-online"
     /\ Handle(d, AutoReconnect(d, [c EXCEPT !.listed = TRUE, !.attempts = 0]), <<>>)
  \/ /\ Next1(d).type = "device-offline"
     /\ Handle(d, [c EXCEPT !.listed = FALSE], <<>>)
  \/ /\ Next1(d).type = "device-list"
     /\ Handle(d, IF Next1(d).listed THEN AutoReconnect(d, [c EXCEPT !.listed = TRUE])
                  ELSE [c EXCEPT !.listed = FALSE], <<>>)

Receive(d) ==
  /\ net[d] # <<>>
  /\ \/ GetAccepted(d)
     \/ /\ GetRequest(d) \/ GetDeclined(d) \/ GetOffer(d) \/ GetAnswer(d)
          \/ GetPeerConnected(d) \/ GetPeerDisconnected(d) \/ GetPresence(d)
        /\ UNCHANGED events
  /\ UNCHANGED <<server, turns>>

-----------------------------------------------------------------------------
(* Sockets.                                                                *)

SocketDrops(d) ==
  /\ up[d] /\ Turn(d)
  /\ up' = [up EXCEPT ![d] = FALSE]
  /\ lost' = [lost EXCEPT ![d] = @ + 1]
  /\ net' = [net EXCEPT ![d] = <<>>]
  /\ mgr' = [mgr EXCEPT ![d].listed = FALSE]
  /\ UNCHANGED <<held, row, offered, events>>

\* manager.stop() or the end of the page, and then the new manager c of d.  The
\* peer is not told.
StartsAnew(d, c) ==
  /\ mgr' = [mgr EXCEPT ![d] = c]
  /\ up' = [up EXCEPT ![d] = FALSE]
  /\ lost' = [lost EXCEPT ![d] = IF up[d] THEN @ + 1 ELSE @]
  /\ net' = [net EXCEPT ![d] = <<>>]
  /\ held' = [held EXCEPT ![d] = <<>>]
  /\ UNCHANGED <<row, offered, events>>

PageReloads(d) == Turn(d) /\ StartsAnew(d, Restarted(mgr[d]))

\* 'staleIdentity', when the socket comes back to a server that has restarted:
\* the page stays, and so does a dialog that is open.
IdentityRenewed(d) ==
  /\ ~up[d]
  /\ StartsAnew(d, [Restarted(mgr[d]) EXCEPT !.dialog = mgr[d].dialog])
  /\ UNCHANGED turns

\* onConnection(), and Socket.IO sends what it held.
SocketReturns(d) ==
  LET p == Peer(d)
      news == <<Message("device-online")>> \o (IF row[p] THEN held[d] ELSE <<>>)
  IN
  /\ ~up[d]
  /\ up' = [up EXCEPT ![d] = TRUE]
  /\ row' = [row EXCEPT ![d] = TRUE]
  /\ held' = [held EXCEPT ![d] = <<>>]
  /\ net' = [net EXCEPT ![d] = <<Welcome(row[p])>> \o (IF row[p] THEN <<>> ELSE Errors(held[d])),
                        ![p] = IF up[p] THEN @ \o news ELSE @]
  /\ UNCHANGED <<mgr, lost, offered, bounds>>

\* markOffline(), also for the socket before last.
ServerNotices(d) ==
  /\ lost[d] > 0
  /\ lost' = [lost EXCEPT ![d] = @ - 1]
  /\ row' = [row EXCEPT ![d] = FALSE]
  /\ net' = IF up[Peer(d)] THEN [net EXCEPT ![Peer(d)] = Append(@, Message("device-offline"))] ELSE net
  /\ UNCHANGED <<mgr, held, up, offered, bounds>>

\* The poll, see Presence.
Polled(d) ==
  /\ up[d] /\ mgr[d].listed # row[Peer(d)]
  /\ mgr' = [mgr EXCEPT ![d].listed = row[Peer(d)]]
  /\ UNCHANGED <<net, held, server, offered, bounds>>

Next ==
  \E d \in Device :
    \/ Connect(d) \/ RequestAllowed(d) \/ RequestFails(d) \/ RequestTimeout(d) \/ RetryTimeout(d)
    \/ Accept(d) \/ Reject(d) \/ AcceptAllowed(d) \/ AcceptFails(d) \/ Disconnect(d) \/ Forget(d)
    \/ ChannelOpens(d) \/ ChannelCloses(d) \/ LinkBreaks(d) \/ LinkFails(d) \/ ConnectTimeout(d)
    \/ Receive(d) \/ SocketDrops(d) \/ SocketReturns(d) \/ ServerNotices(d) \/ Polled(d)
    \/ PageReloads(d) \/ IdentityRenewed(d)

Spec == Init /\ [][Next]_vars

-----------------------------------------------------------------------------
(* Properties.                                                             *)

SdpId == Device \X (Nat \ {0})

Session ==
  [role : {"none", "initiator", "responder"}, offer : SdpId \cup {Never}, agreed : SdpId \cup {Never},
   channel : {"none", "new", "open", "closed"}, timer : {"off", "armed", "fired"},
   restarts : 0..IceRestarts]

Manager ==
  [state : {"idle", "requesting", "connecting", "connected", "disconnected"}, authorized : BOOLEAN,
   trusted : BOOLEAN, attempts : 0..MaxReconnects, listed : BOOLEAN, dialog : BOOLEAN,
   requesting : Nat, accepting : Nat, requestTimers : Nat, retryTimers : Nat, session : Session,
   consent : {"never", "given", "withdrawn"}]

Messages ==
  [type : {"connect-request", "accepted", "declined", "signaling-error", "peer-connected",
           "peer-disconnected", "device-online", "device-offline"}]
  \cup [type : {"offer", "answer"}, of : SdpId]
  \cup [type : {"device-list"}, listed : BOOLEAN]

\* Every field has its declared type; the reconnects and the ICE restarts stay
\* within their limits.
TypeOK ==
  /\ mgr \in [Device -> Manager]
  /\ net \in [Device -> Seq(Messages)] /\ held \in [Device -> Seq(Messages)]
  /\ up \in [Device -> BOOLEAN] /\ row \in [Device -> BOOLEAN]
  /\ lost \in [Device -> Nat] /\ offered \in [Device -> Nat]
  /\ turns \in [Device -> Nat] /\ events \in Nat

\* The user sees "connected" only while the session there is has an open
\* channel, whatever became of the sessions before it.
ConnectedIsOpen == \A d \in Device : mgr[d].state = "connected" => IsOpen(mgr[d])

\* A channel opens only at a device whose user has said yes to the peer, by
\* Connect, in the dialog or on an earlier visit: nothing the peer or the server
\* sends, in whatever order, gets around that.
OpenNeedsConsent == \A d \in Device : IsOpen(mgr[d]) => mgr[d].consent # "never"

\* The permission gate: a session that an offer of the peer has created is
\* there only while the peer is authorized.
ResponderAuthorized == \A d \in Device : mgr[d].session.role = "responder" => mgr[d].authorized

\* "Never stay stuck in requesting": a timer that ends it is always pending.
RequestHasTimer == \A d \in Device : mgr[d].state = "requesting" => mgr[d].requestTimers > 0

\* A session whose channel has not opened has a timer that fails it, also when
\* it replaces another or takes a second offer.
SessionHasTimer == \A d \in Device : mgr[d].session.channel = "new" => mgr[d].session.timer = "armed"

\* An open link belongs to a trusted peer, so that the panel offers "Forget" to
\* end it even when a signaling error shows the peer as disconnected.
OpenIsTrusted == \A d \in Device : IsOpen(mgr[d]) => mgr[d].trusted

\* "Forget a peer: no more auto-accept or auto-reconnect", until the user says
\* yes to the peer again.
ForgottenUntilAsked == \A d \in Device : mgr[d].consent = "withdrawn" => ~mgr[d].trusted
=============================================================================
