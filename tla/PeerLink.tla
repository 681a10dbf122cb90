------------------------------- MODULE PeerLink -------------------------------
(***************************************************************************)
(* The negotiation inside one pair of PeerSessions and its recovery from   *)
(* outages (client/src/p2p/PeerSession.ts:53-185): offers, answers and ICE *)
(* candidates between the initiator and the responder, cut at every await. *)
(*                                                                         *)
(* RTCPeerConnection is external.  It runs its operations one after the    *)
(* other, in the order they were called (chain); the handler that awaits   *)
(* one goes on when it ends.  A description is the number of its offer: an *)
(* answer has the number of the offer it was made for, a candidate that of *)
(* the local description it was gathered for.  A refused operation rejects *)
(* the promise of its handler, which ends there.                           *)
(***************************************************************************)
EXTENDS Naturals, Sequences, FiniteSets

CONSTANTS
  MaxRestarts, \* the limit in tryRecover(), 2 in the code
  MaxBlips,    \* bound: times each side sees a connection become 'disconnected'
  MaxOffers,   \* bound: offers of the initiator, restarts included
  Faults       \* bound: what else breaks, of {"signals", "vanish"}

ASSUME LinkAssumption ==
  {MaxRestarts, MaxBlips, MaxOffers} \subseteq Nat /\ Faults \subseteq {"signals", "vanish"}

Side == {"initiator", "responder"}
Other(d) == IF d = "initiator" THEN "responder" ELSE "initiator"

VARIABLES
  side,   \* side[d]: the PeerSession of d and its RTCPeerConnection
  net,    \* net[d]: the signals the server has for d, in order
  blips,  \* blips[d] of MaxBlips used
  got,    \* history: the candidates that reached the session of d
  upset   \* history: signals were lost, or a restart began during a negotiation

vars == <<side, net, blips, got, upset>>

Op(what, n) == [op |-> what, n |-> n, rest |-> <<>>, then |-> "none"]

\* The constructor; initiate() leaves the first createOffer() under way.
Session(life, chain) ==
  [life |-> life, signaling |-> "stable", local |-> 0, remote |-> 0, created |-> 0,
   added |-> {}, gathered |-> 0, chain |-> chain, conn |-> "new",
   remoteDescriptionSet |-> FALSE, pendingCandidates |-> <<>>, restartAttempts |-> 0,
   connectTimer |-> chain # <<>>, isOpen |-> FALSE, offers |-> Len(chain)]

Init ==
  /\ side = [d \in Side |-> IF d = "initiator" THEN Session("live", <<Op("createOffer", 1)>>)
                            ELSE Session("none", <<>>)]
  /\ net = [d \in Side |-> <<>>]
  /\ blips = [d \in Side |-> 0]
  /\ got = [d \in Side |-> {}]
  /\ upset = FALSE

Call(s, o) == [s EXCEPT !.chain = Append(@, o)]

\* events.onFailed(): the manager tears the session down.  Operations under way
\* on a closed connection never end.
GiveUp(s) == [s EXCEPT !.life = "closed", !.chain = <<>>, !.connectTimer = FALSE, !.isOpen = FALSE]

Become(d, s) == side' = [side EXCEPT ![d] = s]
Signal(d, type, n) == net' = [net EXCEPT ![Other(d)] = Append(@, [type |-> type, n |-> n])]

-----------------------------------------------------------------------------
(* Operations that end, and how their handlers go on.                      *)

\* New descriptions start the search for a path, unless there is one.
Searching(s) == [s EXCEPT !.conn = IF @ = "connected" THEN @ ELSE "connecting"]

\* addIceCandidate() of cs, one after the other; a refusal is ignored.
Add(s, cs, then) ==
  IF cs # <<>> THEN Call(s, [op |-> "add", n |-> Head(cs), rest |-> Tail(cs), then |-> then])
  ELSE IF then = "none" THEN s ELSE Call(s, Op(then, s.remote))

\* Slip: the flag is set, and what was queued before it stays there.
FlagOnly(s, then) == Add([s EXCEPT !.remoteDescriptionSet = TRUE], <<>>, then)

\* remoteDescriptionSet = true, then flushCandidates() takes the whole queue.
Flush(s, then) ==
  Add([s EXCEPT !.pendingCandidates = <<>>, !.remoteDescriptionSet = TRUE], s.pendingCandidates, then)

\* createAndSendOffer(): createOffer() ...
OfferCreated(d, s, o) ==
  /\ Become(d, Call([s EXCEPT !.created = o.n], Op("setOffer", o.n)))
  /\ UNCHANGED net

\* ... and setLocalDescription(), refused when a later offer was created.
OfferSet(d, s, o) ==
  IF o.n = s.created
  THEN /\ Become(d, [s EXCEPT !.signaling = "have-local-offer", !.local = o.n])
       /\ Signal(d, "offer", o.n)
  ELSE Become(d, GiveUp(s)) /\ UNCHANGED net

\* handleOffer(): setRemoteDescription(), the queue, createAnswer(), ...
OfferTaken(d, s, o) ==
  /\ Become(d, IF s.signaling = "have-local-offer" THEN s
               ELSE Flush([s EXCEPT !.signaling = "have-remote-offer", !.remote = o.n], "createAnswer"))
  /\ UNCHANGED net

AnswerCreated(d, s, o) ==
  /\ Become(d, IF s.signaling # "have-remote-offer" THEN s
               ELSE Call([s EXCEPT !.created = s.remote], Op("setAnswer", s.remote)))
  /\ UNCHANGED net

\* ... setLocalDescription(), the answer.  An answer that is set ends the negotiation,
\* and what was created before it can no longer be set (created = 0).
AnswerSet(d, s, o) ==
  IF s.signaling = "have-remote-offer" /\ o.n = s.created
  THEN /\ Become(d, Searching([s EXCEPT !.signaling = "stable", !.local = o.n, !.created = 0]))
       /\ Signal(d, "answer", o.n)
  ELSE Become(d, s) /\ UNCHANGED net

\* handleAnswer(): whatever offer the answer was made for.
AnswerTaken(d, s, o) ==
  /\ Become(d, IF s.signaling # "have-local-offer" THEN s
               ELSE Flush(Searching([s EXCEPT !.signaling = "stable", !.remote = o.n, !.created = 0]), "none"))
  /\ UNCHANGED net

\* A candidate of another generation than the remote description is refused.
CandidateTried(d, s, o) ==
  /\ Become(d, Add([s EXCEPT !.added = IF o.n = s.remote THEN @ \cup {o.n} ELSE @], o.rest, o.then))
  /\ UNCHANGED net

OpEnds(d) ==
  /\ side[d].chain # <<>>
  /\ LET o == Head(side[d].chain)
         s == [side[d] EXCEPT !.chain = Tail(@)]
     IN
     \/ o.op = "createOffer" /\ OfferCreated(d, s, o)
     \/ o.op = "setOffer" /\ OfferSet(d, s, o)
     \/ o.op = "takeOffer" /\ OfferTaken(d, s, o)
     \/ o.op = "createAnswer" /\ AnswerCreated(d, s, o)
     \/ o.op = "setAnswer" /\ AnswerSet(d, s, o)
     \/ o.op = "takeAnswer" /\ AnswerTaken(d, s, o)
     \/ o.op = "add" /\ CandidateTried(d, s, o)
  /\ UNCHANGED <<blips, got, upset>>

-----------------------------------------------------------------------------
(* Signals.                                                                *)

\* Slip: an answer is taken once, not again after a restart.
FirstAnswer(s, n) == IF s.remote = 0 THEN Call(s, Op("takeAnswer", n)) ELSE s

HandleAnswer(s, n) == Call(s, Op("takeAnswer", n))

\* The first offer creates the responder's session.
HandleOffer(s, n) ==
  Call([s EXCEPT !.life = "live", !.connectTimer = @ \/ ~s.isOpen], Op("takeOffer", n))

HandleCandidate(s, n) ==
  IF s.remoteDescriptionSet THEN Add(s, <<n>>, "none")
  ELSE [s EXCEPT !.pendingCandidates = Append(@, n)]

\* The manager drops what is for a session it does not have.
Handle(d, s, m) ==
  CASE m.type = "offer" /\ s.life # "closed" -> HandleOffer(s, m.n)
    [] m.type = "answer" /\ s.life = "live" -> HandleAnswer(s, m.n)
    [] m.type = "candidate" /\ s.life = "live" -> HandleCandidate(s, m.n)
    [] OTHER -> s

Receive(d) ==
  /\ net[d] # <<>>
  /\ Become(d, Handle(d, side[d], Head(net[d])))
  /\ net' = [net EXCEPT ![d] = Tail(@)]
  /\ got' = [got EXCEPT ![d] = IF Head(net[d]).type = "candidate" /\ side[d].life = "live"
                               THEN @ \cup {Head(net[d]).n} ELSE @]
  /\ UNCHANGED <<blips, upset>>

\* onicecandidate, after the description it belongs to was sent.
Gather(d) ==
  /\ side[d].life = "live" /\ side[d].gathered < side[d].local
  /\ Become(d, [side[d] EXCEPT !.gathered = side[d].local])
  /\ Signal(d, "candidate", side[d].local)
  /\ UNCHANGED <<blips, got, upset>>

\* A socket drops with what the server had for it.
SignalsLost(d) ==
  /\ "signals" \in Faults
  /\ net[d] # <<>>
  /\ net' = [net EXCEPT ![d] = <<>>]
  /\ upset' = TRUE
  /\ UNCHANGED <<side, blips, got>>

-----------------------------------------------------------------------------
(* The connection, and what the session makes of its state.                *)

Live == \A d \in Side : side[d].life = "live"

\* Both sides have the descriptions of one offer.
Agreed ==
  /\ \A d \in Side : side[d].signaling = "stable" /\ side[d].local = side[d].remote
  /\ side["initiator"].local = side["responder"].local

\* One side with a candidate of the other is enough to find the path.
PathKnown == Live /\ Agreed /\ \E d \in Side : side[d].remote \in side[d].added

Connects(d) ==
  /\ PathKnown /\ side[d].conn \in {"connecting", "disconnected"}
  /\ Become(d, [side[d] EXCEPT !.conn = "connected"])
  /\ UNCHANGED <<net, blips, got, upset>>

\* The channel opens once; a restart does not open it again.
ChannelOpens(d) ==
  /\ Live /\ ~side[d].isOpen
  /\ \A e \in Side : side[e].conn = "connected"
  /\ Become(d, [side[d] EXCEPT !.isOpen = TRUE, !.restartAttempts = 0, !.connectTimer = FALSE])
  /\ UNCHANGED <<net, blips, got, upset>>

\* Slip: one restart more.
OneMore(s) == s.restartAttempts > MaxRestarts

RestartsUsedUp(s) == s.restartAttempts >= MaxRestarts

\* A restart that overlaps a negotiation: offers or answers are under way.
Negotiating(s) ==
  s.signaling # "stable" \/ \E i \in DOMAIN s.chain : s.chain[i].op # "add"

\* The initiator re-offers, the responder waits for the new offer.
TryRecover(d, s) ==
  LET t == [s EXCEPT !.restartAttempts = @ + 1]
      n == s.offers + 1
      restarts == d = "initiator" /\ ~RestartsUsedUp(s)
  IN
  /\ Become(d, IF RestartsUsedUp(s) THEN GiveUp(s)
               ELSE IF restarts
               THEN Call([t EXCEPT !.remoteDescriptionSet = FALSE, !.offers = n], Op("createOffer", n))
               ELSE t)
  /\ upset' = (upset \/ (restarts /\ Negotiating(s)))

\* Bound: the initiator has an offer left for the restart, or will not restart.
OfferLeft(d) == d = "initiator" /\ ~RestartsUsedUp(side[d]) => side[d].offers < MaxOffers

Disconnects(d) ==
  /\ side[d].life = "live" /\ side[d].conn = "connected"
  /\ blips[d] < MaxBlips /\ OfferLeft(d)
  /\ blips' = [blips EXCEPT ![d] = @ + 1]
  /\ TryRecover(d, [side[d] EXCEPT !.conn = "disconnected"])
  /\ UNCHANGED <<net, got>>

\* 'failed' is left by a restart only.
Fails(d) ==
  /\ side[d].life = "live" /\ side[d].conn \in {"connecting", "disconnected"}
  /\ OfferLeft(d)
  /\ TryRecover(d, [side[d] EXCEPT !.conn = "failed"])
  /\ UNCHANGED <<net, blips, got>>

ConnectTimeout(d) ==
  /\ side[d].life = "live" /\ side[d].connectTimer /\ ~side[d].isOpen
  /\ Become(d, GiveUp(side[d]))
  /\ UNCHANGED <<net, blips, got, upset>>

\* The responder's page ends without a word.
Vanishes ==
  /\ "vanish" \in Faults
  /\ side["responder"].life = "live"
  /\ Become("responder", GiveUp(side["responder"]))
  /\ UNCHANGED <<net, blips, got, upset>>

Step(d) ==
  \/ OpEnds(d) \/ Receive(d) \/ Gather(d) \/ SignalsLost(d)
  \/ Connects(d) \/ ChannelOpens(d) \/ Disconnects(d) \/ Fails(d) \/ ConnectTimeout(d)

Next == Vanishes \/ \E d \in Side : Step(d)

Spec == Init /\ [][Next]_vars

\* Operations end, signals arrive, candidates are found, the search for a path
\* ends, timers run out.  Nothing has to break.
FairSpec ==
  /\ Spec
  /\ \A d \in Side :
       /\ WF_vars(OpEnds(d)) /\ WF_vars(Receive(d)) /\ WF_vars(Gather(d))
       /\ WF_vars(Connects(d)) /\ WF_vars(ChannelOpens(d))
       /\ WF_vars(Fails(d)) /\ WF_vars(ConnectTimeout(d))

-----------------------------------------------------------------------------
(* Properties.                                                             *)

Number == 0..side["initiator"].offers
Operations == {"createOffer", "setOffer", "takeOffer", "createAnswer", "setAnswer", "takeAnswer", "add"}

\* The fields of the session and the connection; no description, candidate or
\* operation speaks of an offer nobody made, and the restarts stay in their limit.
TypeOK ==
  \A d \in Side :
    LET s == side[d] IN
    /\ s.life \in {"none", "live", "closed"}
    /\ s.signaling \in {"stable", "have-local-offer", "have-remote-offer"}
    /\ {s.local, s.remote, s.created, s.gathered} \subseteq Number
    /\ s.added \subseteq Number /\ got[d] \subseteq Number
    /\ \A i \in DOMAIN s.chain : s.chain[i].op \in Operations /\ s.chain[i].n \in Number
    /\ s.conn \in {"new", "connecting", "connected", "disconnected", "failed"}
    /\ s.remoteDescriptionSet \in BOOLEAN /\ s.connectTimer \in BOOLEAN /\ s.isOpen \in BOOLEAN
    /\ \A i \in DOMAIN s.pendingCandidates : s.pendingCandidates[i] \in Number
    /\ s.restartAttempts \in 0..MaxRestarts
    /\ blips[d] \in 0..MaxBlips
    /\ \A i \in DOMAIN net[d] : net[d][i].type \in {"offer", "answer", "candidate"} /\ net[d][i].n \in Number

\* No candidate is forgotten: when a session that took a description has nothing
\* under way, its queue is empty and it has added the candidates that came for
\* that description, before it, during the flush or after it.
CandidatesApplied ==
  \A d \in Side :
    LET s == side[d] IN
    s.life = "live" /\ s.chain = <<>> /\ s.signaling = "stable" /\ s.remote # 0 =>
      /\ s.pendingCandidates = <<>>
      /\ s.remote \in got[d] => s.remote \in s.added

\* A negotiation that nothing disturbed ends with both sides on the same, latest
\* offer.  (Aside: of two restarts under way together the initiator takes the
\* first answer for the second offer, and refuses the second.)
NegotiationAgrees ==
  /\ Live /\ ~upset
  /\ \A d \in Side : side[d].chain = <<>> /\ net[d] = <<>>
  => Agreed /\ side["initiator"].local = side["initiator"].offers

\* "Up to two ICE restarts (initiator re-offers ...).  If recovery fails, in-flight
\* transfers are marked failed ... and the session is torn down": for the initiator,
\* who runs the recovery, an outage ends one way or the other.
OutageSettles ==
  side["initiator"].conn \in {"disconnected", "failed"}
    ~> side["initiator"].conn = "connected" \/ side["initiator"].life = "closed"

=============================================================================
