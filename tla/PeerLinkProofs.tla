--------------------------- MODULE PeerLinkProofs ---------------------------
(***************************************************************************)
(* What the negotiation of PeerLink.tla keeps, for every limit of restarts *)
(* and offers, every interleaving of operations and signals and every loss *)
(* of signals: no candidate is forgotten, and a negotiation that nothing   *)
(* disturbed ends with both sides on the latest offer.                     *)
(***************************************************************************)
EXTENDS PeerLink, TLAPS

\* The offers made so far.
Made == side["initiator"].offers

-----------------------------------------------------------------------------
(* Types.                                                                  *)

OpsTo(n) == [op : Operations, n : 0..n, rest : Seq(0..n), then : {"none", "createAnswer"}]

SignalsTo(n) == [type : {"offer", "answer", "candidate"}, n : 0..n]

SessionsTo(n) ==
  [life : {"none", "live", "closed"},
   signaling : {"stable", "have-local-offer", "have-remote-offer"},
   local : 0..n, remote : 0..n, created : 0..n, added : SUBSET (0..n), gathered : 0..n,
   chain : Seq(OpsTo(n)), conn : {"new", "connecting", "connected", "disconnected", "failed"},
   remoteDescriptionSet : BOOLEAN, pendingCandidates : Seq(0..n), restartAttempts : 0..MaxRestarts,
   connectTimer : BOOLEAN, isOpen : BOOLEAN, offers : 0..n]

Typed ==
  /\ Made \in Nat
  /\ side \in [Side -> SessionsTo(Made)]
  /\ net \in [Side -> Seq(SignalsTo(Made))]
  /\ blips \in [Side -> 0..MaxBlips]
  /\ got \in [Side -> SUBSET (0..Made)]

-----------------------------------------------------------------------------
(* The inductive invariant.                                                *)

Takes == {"takeOffer", "takeAnswer"}
Offering == {"createOffer", "setOffer"}
Answering == {"takeOffer", "createAnswer", "setAnswer"}

\* The candidates an operation and its handler still have to add.
Cands(o) == IF o.op = "add" THEN {o.n} \cup {o.rest[i] : i \in DOMAIN o.rest} ELSE {}

\* The descriptions and candidates that came from the peer.
Numbers(o) == IF o.op \in Takes THEN {o.n} ELSE Cands(o)

\* What comes from the peer is in order: a description is newer than all
\* descriptions and candidates before it, whether these are in the session s, in
\* its chain or still on their way.
InOrder(s, inbox, came) ==
  /\ \A i \in DOMAIN s.chain, j \in DOMAIN s.chain :
       i < j /\ s.chain[j].op \in Takes => \A n \in Numbers(s.chain[i]) : n < s.chain[j].n
  /\ \A j \in DOMAIN s.chain : s.chain[j].op \in Takes => s.remote < s.chain[j].n
  /\ \A j \in DOMAIN inbox : inbox[j].type # "candidate" =>
       /\ s.remote < inbox[j].n
       /\ \A n \in came : n < inbox[j].n
       /\ \A i \in DOMAIN s.chain : \A n \in Numbers(s.chain[i]) : n < inbox[j].n
       /\ \A i \in DOMAIN inbox : i < j => inbox[i].n < inbox[j].n

\* The description of the candidate n is not there, and will not come any more.
Dead(s, n) ==
  /\ n # s.remote
  /\ \A i \in DOMAIN s.chain : s.chain[i].op \in Takes => s.chain[i].n # n

\* A candidate that came is added, waits to be, or is of no use.
Kept(s, came) ==
  /\ \A i \in DOMAIN s.pendingCandidates : s.pendingCandidates[i] \in came
  /\ \A i \in DOMAIN s.chain : Cands(s.chain[i]) \subseteq came
  /\ \A n \in came :
       \/ n \in s.added
       \/ \E i \in DOMAIN s.pendingCandidates : s.pendingCandidates[i] = n
       \/ \E i \in DOMAIN s.chain : n \in Cands(s.chain[i])
       \/ Dead(s, n)

\* Nothing is queued behind a description that is set; a session that took one
\* and waits for the next is about to offer, or has offered.
Flagged(s) ==
  /\ s.remoteDescriptionSet => s.pendingCandidates = <<>>
  /\ s.remote # 0 /\ ~s.remoteDescriptionSet =>
       \/ s.signaling = "have-local-offer"
       \/ \E i \in DOMAIN s.chain : s.chain[i].op \in Offering

LineOK(s, inbox, came) ==
  IF s.life = "closed" THEN s.chain = <<>>
  ELSE InOrder(s, inbox, came) /\ Kept(s, came) /\ Flagged(s)

LineInv == \A d \in Side : LineOK(side[d], net[d], got[d])

\* No description or candidate is newer than the local description of the side
\* it came from.
UpTo(s, inbox, came, n) ==
  /\ s.remote <= n
  /\ \A m \in came : m <= n
  /\ \A i \in DOMAIN s.chain : \A m \in Numbers(s.chain[i]) : m <= n
  /\ \A i \in DOMAIN inbox : inbox[i].n <= n

SentInv == \A d \in Side : UpTo(side[d], net[d], got[d], side[Other(d)].local)

\* The initiator sets the offers it creates in their order, each once.
OfferOK(s) ==
  /\ s.life # "none"
  /\ \A i \in DOMAIN s.chain :
       /\ s.chain[i].op \notin Answering
       /\ s.chain[i].then = "none"
       /\ s.chain[i].op \in Offering => s.local < s.chain[i].n
  /\ \A i \in DOMAIN s.chain, j \in DOMAIN s.chain :
       \/ i < j /\ s.chain[i].op = s.chain[j].op /\ s.chain[i].op \in Offering
       \/ s.chain[i].op = "setOffer" /\ s.chain[j].op = "createOffer"
       => s.chain[i].n < s.chain[j].n

\* The responder answers the offer it took last, and no offer twice.
AnswerOK(s) ==
  /\ s.local <= s.remote
  /\ s.signaling = "have-remote-offer" => s.local < s.remote
  /\ s.created # 0 => s.local < s.created /\ s.created <= s.remote
  /\ \A i \in DOMAIN s.chain :
       /\ s.chain[i].op \notin Offering \cup {"takeAnswer"}
       /\ s.chain[i].op = "setAnswer" => s.chain[i].n # 0

\* Who makes and gets what.
RoleOK(d, s, inbox) ==
  IF d = "initiator" THEN OfferOK(s) /\ \A i \in DOMAIN inbox : inbox[i].type # "offer"
  ELSE AnswerOK(s) /\ \A i \in DOMAIN inbox : inbox[i].type # "answer"

RoleInv == \A d \in Side : RoleOK(d, side[d], net[d])

IInv == Typed /\ LineInv /\ SentInv /\ RoleInv

\* What the session of d, the signals for it and the candidates it got may become.
Sound(d, t, inbox, came) ==
  /\ d = "initiator" => Made <= t.offers
  /\ t \in SessionsTo(IF d = "initiator" THEN t.offers ELSE Made)
  /\ inbox \in Seq(SignalsTo(Made)) /\ came \in SUBSET (0..Made)
  /\ LineOK(t, inbox, came)
  /\ UpTo(t, inbox, came, side[Other(d)].local)
  /\ side[d].local <= t.local
  /\ RoleOK(d, t, inbox)

-----------------------------------------------------------------------------
(* Sequences.                                                              *)

LEMMA TailFacts ==
  ASSUME NEW S, NEW q \in Seq(S), q # <<>>
  PROVE  /\ Tail(q) \in Seq(S) /\ Head(q) \in S /\ Head(q) = q[1] /\ 1 \in DOMAIN q
         /\ \A i \in DOMAIN Tail(q) : i + 1 \in DOMAIN q /\ i + 1 > 1 /\ Tail(q)[i] = q[i + 1]
         /\ \A i \in DOMAIN q : i = 1 \/ (i - 1 \in DOMAIN Tail(q) /\ Tail(q)[i - 1] = q[i])
OBVIOUS

LEMMA AppendFacts ==
  ASSUME NEW S, NEW q \in Seq(S), NEW x \in S
  PROVE  /\ Append(q, x) \in Seq(S) /\ Append(q, x) # <<>>
         /\ Len(q) + 1 \in DOMAIN Append(q, x) /\ Append(q, x)[Len(q) + 1] = x
         /\ \A i \in DOMAIN q : i \in DOMAIN Append(q, x) /\ Append(q, x)[i] = q[i] /\ i < Len(q) + 1
         /\ \A i \in DOMAIN Append(q, x) : i \in DOMAIN q \/ i = Len(q) + 1
OBVIOUS

\* The chain r after an operation of q has ended and x, or nothing, was called.
LEMMA ShiftFacts ==
  ASSUME NEW S, NEW q \in Seq(S), q # <<>>, NEW x \in S, NEW r,
         r = Tail(q) \/ r = Append(Tail(q), x)
  PROVE  /\ r \in Seq(S)
         /\ \A i \in DOMAIN r :
              \/ i + 1 \in DOMAIN q /\ i + 1 > 1 /\ r[i] = q[i + 1]
              \/ r[i] = x /\ r # Tail(q) /\ \A j \in DOMAIN r : j <= i
         /\ \A i \in DOMAIN q : i = 1 \/ (i - 1 \in DOMAIN r /\ r[i - 1] = q[i])
         /\ r = Tail(q) \/ \E i \in DOMAIN r : r[i] = x
<1>1. /\ Tail(q) \in Seq(S)
      /\ \A i \in DOMAIN Tail(q) : i + 1 \in DOMAIN q /\ i + 1 > 1 /\ Tail(q)[i] = q[i + 1]
      /\ \A i \in DOMAIN q : i = 1 \/ (i - 1 \in DOMAIN Tail(q) /\ Tail(q)[i - 1] = q[i])
  BY TailFacts
<1>2. CASE r = Tail(q)
  BY <1>1, <1>2
<1>3. CASE r = Append(Tail(q), x) /\ r # Tail(q)
  <2> DEFINE p == Tail(q)
  <2>1. /\ r \in Seq(S) /\ Len(p) + 1 \in DOMAIN r /\ r[Len(p) + 1] = x
        /\ \A i \in DOMAIN p : i \in DOMAIN r /\ r[i] = p[i] /\ i < Len(p) + 1
        /\ \A i \in DOMAIN r : i \in DOMAIN p \/ i = Len(p) + 1
    BY <1>1, <1>3, AppendFacts
  <2>2. \A i \in DOMAIN r : i <= Len(p) + 1
    BY <1>1, <2>1
  <2> QED BY <1>1, <1>3, <2>1, <2>2
<1> QED BY <1>2, <1>3

\* Head and tail of what is queued are all of it.
LEMMA HeadAndTail ==
  ASSUME NEW S, NEW q \in Seq(S), q # <<>>
  PROVE  {Head(q)} \cup {Tail(q)[i] : i \in DOMAIN Tail(q)} = {q[i] : i \in DOMAIN q}
<1>1. \A i \in DOMAIN q : q[i] \in {Head(q)} \cup {Tail(q)[j] : j \in DOMAIN Tail(q)}
  BY TailFacts
<1>2. \A j \in DOMAIN Tail(q) : Tail(q)[j] \in {q[i] : i \in DOMAIN q}
  BY TailFacts
<1>3. Head(q) \in {q[i] : i \in DOMAIN q}
  BY TailFacts
<1> QED BY <1>1, <1>2, <1>3

-----------------------------------------------------------------------------
(* What the types say.                                                     *)

LEMMA OpTyped ==
  ASSUME NEW N \in Nat, NEW o \in OpsTo(N)
  PROVE  o.op \in Operations /\ o.n \in 0..N /\ o.n \in Nat /\ o.rest \in Seq(0..N)
         /\ o.then \in {"none", "createAnswer"}
<1>1. o.op \in Operations /\ o.n \in 0..N /\ o.rest \in Seq(0..N) /\ o.then \in {"none", "createAnswer"}
  <2> DEFINE K == 0..N
  <2>1. o \in [op : Operations, n : K, rest : Seq(K), then : {"none", "createAnswer"}]
    BY DEF OpsTo
  <2> HIDE DEF K
  <2>2. o.op \in Operations /\ o.n \in K /\ o.rest \in Seq(K) /\ o.then \in {"none", "createAnswer"}
    BY <2>1
  <2> QED BY <2>2 DEF K
<1> QED BY <1>1

LEMMA SignalTyped ==
  ASSUME NEW N \in Nat, NEW m \in SignalsTo(N)
  PROVE  m.type \in {"offer", "answer", "candidate"} /\ m.n \in 0..N /\ m.n \in Nat
<1>1. m.n \in 0..N
  BY DEF SignalsTo
<1> QED BY <1>1 DEF SignalsTo

LEMMA SessionTyped ==
  ASSUME NEW N \in Nat, NEW s \in SessionsTo(N)
  PROVE  /\ {s.local, s.remote, s.created, s.gathered, s.offers} \subseteq 0..N
         /\ {s.local, s.remote, s.created, s.gathered, s.offers} \subseteq Nat
         /\ s.added \in SUBSET (0..N) /\ s.chain \in Seq(OpsTo(N))
         /\ s.pendingCandidates \in Seq(0..N)
         /\ s.life \in {"none", "live", "closed"}
         /\ s.signaling \in {"stable", "have-local-offer", "have-remote-offer"}
         /\ s.conn \in {"new", "connecting", "connected", "disconnected", "failed"}
         /\ s.remoteDescriptionSet \in BOOLEAN /\ s.connectTimer \in BOOLEAN /\ s.isOpen \in BOOLEAN
         /\ s.restartAttempts \in 0..MaxRestarts
<1> DEFINE K == 0..N
           O == OpsTo(N)
           R == 0..MaxRestarts
<1>1. s \in [life : {"none", "live", "closed"},
            signaling : {"stable", "have-local-offer", "have-remote-offer"},
            local : K, remote : K, created : K, added : SUBSET K, gathered : K,
            chain : Seq(O), conn : {"new", "connecting", "connected", "disconnected", "failed"},
            remoteDescriptionSet : BOOLEAN, pendingCandidates : Seq(K), restartAttempts : R,
            connectTimer : BOOLEAN, isOpen : BOOLEAN, offers : K]
  BY DEF SessionsTo
<1> HIDE DEF K, O, R
<1>2. /\ {s.local, s.remote, s.created, s.gathered, s.offers} \subseteq K
      /\ s.added \in SUBSET K /\ s.chain \in Seq(O) /\ s.pendingCandidates \in Seq(K)
      /\ s.life \in {"none", "live", "closed"}
      /\ s.signaling \in {"stable", "have-local-offer", "have-remote-offer"}
      /\ s.conn \in {"new", "connecting", "connected", "disconnected", "failed"}
      /\ s.remoteDescriptionSet \in BOOLEAN /\ s.connectTimer \in BOOLEAN /\ s.isOpen \in BOOLEAN
      /\ s.restartAttempts \in R
  BY <1>1
<1>3. K \subseteq Nat
  BY DEF K
<1> QED BY <1>2, <1>3 DEF K, O, R

LEMMA NumbersTyped ==
  ASSUME NEW N \in Nat, NEW o \in OpsTo(N)
  PROVE  Cands(o) \subseteq 0..N /\ Numbers(o) \subseteq 0..N
BY OpTyped DEF Cands, Numbers

-----------------------------------------------------------------------------
(* The line of what comes from the peer.                                   *)

\* An operation ends: its handler calls no operation that takes a description,
\* and forgets none of its candidates.
LEMMA LineAdvances ==
  ASSUME NEW N \in Nat, NEW s \in SessionsTo(N), NEW t \in SessionsTo(N),
         NEW inbox \in Seq(SignalsTo(N)), NEW came \in SUBSET (0..N), NEW l \in Nat,
         InOrder(s, inbox, came), Kept(s, came), UpTo(s, inbox, came, l), s.chain # <<>>,
         NEW x \in OpsTo(N), x.op \notin Takes, Cands(x) \subseteq came,
         t.chain = Tail(s.chain) \/ t.chain = Append(Tail(s.chain), x),
         t.remote = s.remote \/ (Head(s.chain).op \in Takes /\ t.remote = Head(s.chain).n),
         \/ t.pendingCandidates = s.pendingCandidates
         \/ /\ t.pendingCandidates = <<>>
            /\ s.pendingCandidates = <<>> \/ t.chain = Append(Tail(s.chain), x)
            /\ \A i \in DOMAIN s.pendingCandidates : s.pendingCandidates[i] \in Cands(x),
         s.added \subseteq t.added,
         \A n \in Cands(Head(s.chain)) :
           n \in t.added \/ n # s.remote \/ (t.chain = Append(Tail(s.chain), x) /\ n \in Cands(x))
  PROVE  InOrder(t, inbox, came) /\ Kept(t, came) /\ UpTo(t, inbox, came, l)
<1> DEFINE q == s.chain
           r == t.chain
<1>1. /\ q \in Seq(OpsTo(N)) /\ s.remote \in Nat /\ t.remote \in Nat
      /\ q # <<>> /\ (r = Tail(q) \/ r = Append(Tail(q), x))
  BY SessionTyped
<1> HIDE DEF q, r
<1>2. /\ r \in Seq(OpsTo(N))
      /\ \A i \in DOMAIN r :
           \/ i + 1 \in DOMAIN q /\ i + 1 > 1 /\ r[i] = q[i + 1]
           \/ r[i] = x /\ r # Tail(q) /\ \A j \in DOMAIN r : j <= i
      /\ \A i \in DOMAIN q : i = 1 \/ (i - 1 \in DOMAIN r /\ r[i - 1] = q[i])
      /\ r = Tail(q) \/ \E i \in DOMAIN r : r[i] = x
  BY <1>1, ShiftFacts
<1> USE DEF q, r
<1>3. Head(q) = q[1] /\ 1 \in DOMAIN q /\ q[1] \in OpsTo(N)
  BY <1>1, TailFacts
<1>4. Numbers(x) = Cands(x) /\ \A n \in came : n \in Nat
  BY DEF Numbers
<1>5. DOMAIN q \subseteq Nat /\ DOMAIN r \subseteq Nat
  BY <1>1, <1>2
<1>6. ASSUME NEW i \in DOMAIN r, NEW j \in DOMAIN r, i < j, r[j].op \in Takes, NEW n \in Numbers(r[i])
      PROVE  n < r[j].n
  <2>1. j + 1 \in DOMAIN q /\ r[j] = q[j + 1]
    BY <1>2, <1>6
  <2>2. i + 1 \in DOMAIN q /\ r[i] = q[i + 1]
    BY <1>2, <1>5, <1>6
  <2>3. i + 1 < j + 1
    BY <1>5, <1>6
  <2> QED BY <1>6, <2>1, <2>2, <2>3 DEF InOrder
<1>7. ASSUME NEW j \in DOMAIN r, r[j].op \in Takes
      PROVE  t.remote < r[j].n
  <2>1. j + 1 \in DOMAIN q /\ 1 < j + 1 /\ r[j] = q[j + 1]
    BY <1>2, <1>5, <1>7
  <2>2. s.remote < r[j].n
    BY <1>7, <2>1 DEF InOrder
  <2>3. q[1].op \in Takes => q[1].n < r[j].n
    <3>1. q[1].op \in Takes => q[1].n \in Numbers(q[1])
      BY DEF Numbers
    <3> QED BY <1>3, <1>7, <2>1, <3>1 DEF InOrder
  <2> QED BY <1>3, <2>2, <2>3
<1>8. ASSUME NEW j \in DOMAIN inbox, inbox[j].type # "candidate"
      PROVE  /\ t.remote < inbox[j].n
             /\ \A n \in came : n < inbox[j].n
             /\ \A i \in DOMAIN r : \A n \in Numbers(r[i]) : n < inbox[j].n
             /\ \A i \in DOMAIN inbox : i < j => inbox[i].n < inbox[j].n
  <2>1. /\ s.remote < inbox[j].n
        /\ \A n \in came : n < inbox[j].n
        /\ \A i \in DOMAIN q : \A n \in Numbers(q[i]) : n < inbox[j].n
        /\ \A i \in DOMAIN inbox : i < j => inbox[i].n < inbox[j].n
    BY <1>8 DEF InOrder
  <2>2. q[1].op \in Takes => q[1].n < inbox[j].n
    BY <1>3, <2>1 DEF Numbers
  <2>3. ASSUME NEW i \in DOMAIN r, NEW n \in Numbers(r[i]) PROVE n < inbox[j].n
    BY <1>2, <1>4, <2>1, <2>3
  <2> QED BY <1>3, <2>1, <2>2, <2>3
<1>9. InOrder(t, inbox, came)
  BY <1>6, <1>7, <1>8 DEF InOrder
<1>10. \A i \in DOMAIN t.pendingCandidates : t.pendingCandidates[i] \in came
  BY DEF Kept
<1>11. \A i \in DOMAIN r : Cands(r[i]) \subseteq came
  BY <1>2 DEF Kept
<1>12. ASSUME NEW n \in came
       PROVE  \/ n \in t.added
              \/ \E i \in DOMAIN t.pendingCandidates : t.pendingCandidates[i] = n
              \/ \E i \in DOMAIN r : n \in Cands(r[i])
              \/ Dead(t, n)
  <2>1. CASE n \in s.added
    BY <2>1
  <2>2. CASE \E i \in DOMAIN s.pendingCandidates : s.pendingCandidates[i] = n
    <3>1. CASE t.pendingCandidates = s.pendingCandidates
      BY <2>2, <3>1
    <3>2. CASE t.pendingCandidates # s.pendingCandidates
      <4>1. r = Append(Tail(q), x) /\ n \in Cands(x)
        BY <2>2, <3>2
      <4>2. \E i \in DOMAIN r : r[i] = x
        BY <1>1, <4>1, TailFacts, AppendFacts
      <4> QED BY <4>1, <4>2
    <3> QED BY <3>1, <3>2
  <2>3. CASE \E i \in DOMAIN q : i # 1 /\ n \in Cands(q[i])
    BY <1>2, <2>3
  <2>4. CASE n \in Cands(q[1])
    <3>1. CASE n # s.remote /\ n \notin t.added
      <4>1. q[1].op = "add"
        BY <2>4 DEF Cands
      <4>2. t.remote = s.remote
        BY <1>3, <4>1 DEF Takes
      <4>3. ASSUME NEW i \in DOMAIN r, r[i].op \in Takes PROVE r[i].n # n
        <5>1. i + 1 \in DOMAIN q /\ 1 < i + 1 /\ r[i] = q[i + 1]
          BY <1>2, <4>3
        <5>2. n \in Numbers(q[1])
          BY <2>4, <4>1 DEF Numbers, Takes
        <5>3. n < r[i].n
          BY <1>3, <4>3, <5>1, <5>2 DEF InOrder
        <5>4. n \in Nat /\ r[i].n \in Nat
          <6>1. r[i] \in OpsTo(N)
            BY <1>2
          <6> QED BY <1>4, <6>1, OpTyped
        <5> QED BY <5>3, <5>4
      <4> QED BY <3>1, <4>2, <4>3 DEF Dead
    <3>2. CASE r = Append(Tail(q), x) /\ n \in Cands(x)
      <4>1. \E i \in DOMAIN r : r[i] = x
        BY <1>1, <3>2, TailFacts, AppendFacts
      <4> QED BY <3>2, <4>1
    <3> QED BY <1>3, <2>4, <3>1, <3>2
  <2>5. CASE Dead(s, n)
    <3>1. t.remote # n
      BY <1>3, <2>5 DEF Dead
    <3>2. \A i \in DOMAIN r : r[i].op \in Takes => r[i].n # n
      BY <1>2, <2>5 DEF Dead
    <3> QED BY <3>1, <3>2 DEF Dead
  <2> QED BY <2>1, <2>2, <2>3, <2>4, <2>5 DEF Kept
<1>13. Kept(t, came)
  BY <1>10, <1>11, <1>12 DEF Kept
<1>14. UpTo(t, inbox, came, l)
  <2>1. t.remote <= l
    <3>1. Head(q).op \in Takes => Head(q).n <= l
      BY <1>3 DEF UpTo, Numbers
    <3> QED BY <3>1 DEF UpTo
  <2>2. ASSUME NEW i \in DOMAIN r, NEW m \in Numbers(r[i]) PROVE m <= l
    BY <1>2, <1>4, <2>2 DEF UpTo
  <2> QED BY <2>1, <2>2 DEF UpTo
<1> QED BY <1>9, <1>13, <1>14

-----------------------------------------------------------------------------
(* A step of one side.                                                     *)

LEMMA SeqMonotone ==
  ASSUME NEW A, NEW B, A \subseteq B
  PROVE  Seq(A) \subseteq Seq(B)
OBVIOUS

LEMMA TypesMonotone ==
  ASSUME NEW n \in Nat, NEW k \in Nat, n <= k
  PROVE  0..n \subseteq 0..k /\ SessionsTo(n) \subseteq SessionsTo(k) /\ SignalsTo(n) \subseteq SignalsTo(k)
<1> DEFINE A == 0..n
           B == 0..k
<1>1. A \subseteq B
  OBVIOUS
<1>2. OpsTo(n) = [op : Operations, n : A, rest : Seq(A), then : {"none", "createAnswer"}]
  BY DEF OpsTo
<1>3. OpsTo(k) = [op : Operations, n : B, rest : Seq(B), then : {"none", "createAnswer"}]
  BY DEF OpsTo
<1>4. SignalsTo(n) = [type : {"offer", "answer", "candidate"}, n : A]
      /\ SignalsTo(k) = [type : {"offer", "answer", "candidate"}, n : B]
  BY DEF SignalsTo
<1> HIDE DEF A, B
<1>5. Seq(A) \subseteq Seq(B)
  BY <1>1, SeqMonotone
<1>6. OpsTo(n) \subseteq OpsTo(k)
  BY <1>1, <1>2, <1>3, <1>5
<1>7. SignalsTo(n) \subseteq SignalsTo(k)
  BY <1>1, <1>4
<1>8. Seq(OpsTo(n)) \subseteq Seq(OpsTo(k))
  BY <1>6, SeqMonotone
<1> DEFINE P == Seq(OpsTo(n))
           Q == Seq(OpsTo(k))
           V == Seq(A)
           W == Seq(B)
           R == 0..MaxRestarts
<1>9. SessionsTo(n) =
        [life : {"none", "live", "closed"},
         signaling : {"stable", "have-local-offer", "have-remote-offer"},
         local : A, remote : A, created : A, added : SUBSET A, gathered : A,
         chain : P, conn : {"new", "connecting", "connected", "disconnected", "failed"},
         remoteDescriptionSet : BOOLEAN, pendingCandidates : V, restartAttempts : R,
         connectTimer : BOOLEAN, isOpen : BOOLEAN, offers : A]
  BY DEF SessionsTo, A
<1>10. SessionsTo(k) =
        [life : {"none", "live", "closed"},
         signaling : {"stable", "have-local-offer", "have-remote-offer"},
         local : B, remote : B, created : B, added : SUBSET B, gathered : B,
         chain : Q, conn : {"new", "connecting", "connected", "disconnected", "failed"},
         remoteDescriptionSet : BOOLEAN, pendingCandidates : W, restartAttempts : R,
         connectTimer : BOOLEAN, isOpen : BOOLEAN, offers : B]
  BY DEF SessionsTo, B
<1>11. P \subseteq Q /\ V \subseteq W /\ SUBSET A \subseteq SUBSET B
  BY <1>1, <1>5, <1>8
<1> HIDE DEF P, Q, V, W, R
<1>12. SessionsTo(n) \subseteq SessionsTo(k)
  <2> SUFFICES ASSUME NEW s \in SessionsTo(n) PROVE s \in SessionsTo(k)
    OBVIOUS
  <2> QED BY <1>1, <1>9, <1>10, <1>11
<1> QED BY <1>1, <1>7, <1>12 DEF A, B

\* The peer's local description moves from l to k, and it sends a signal or none.
LEMMA SignalSent ==
  ASSUME NEW N \in Nat, NEW s \in SessionsTo(N), NEW inbox \in Seq(SignalsTo(N)),
         NEW came \in SUBSET (0..N), NEW l \in Nat, NEW k \in Nat, l <= k,
         UpTo(s, inbox, came, l), NEW now,
         \/ now = inbox
         \/ \E m \in SignalsTo(N) : /\ now = Append(inbox, m) /\ m.n <= k
                                    /\ m.type # "candidate" => l < m.n
  PROVE  UpTo(s, now, came, k) /\ (InOrder(s, inbox, came) => InOrder(s, now, came))
<1>1. s.remote \in Nat /\ s.chain \in Seq(OpsTo(N)) /\ \A n \in came : n \in Nat
  BY SessionTyped
<1>2. \A i \in DOMAIN s.chain : \A n \in Numbers(s.chain[i]) : n \in Nat
  <2> SUFFICES ASSUME NEW i \in DOMAIN s.chain, NEW n \in Numbers(s.chain[i]) PROVE n \in Nat
    OBVIOUS
  <2>1. s.chain[i] \in OpsTo(N)
    BY <1>1
  <2> QED BY <2>1, NumbersTyped
<1>3. \A i \in DOMAIN inbox : inbox[i].n \in Nat
  <2> SUFFICES ASSUME NEW i \in DOMAIN inbox PROVE inbox[i].n \in Nat
    OBVIOUS
  <2>1. inbox[i] \in SignalsTo(N)
    OBVIOUS
  <2> QED BY <2>1, SignalTyped
<1> DEFINE Below(a) == a \in Nat /\ a <= l
<1>4. \A a : Below(a) => a \in Nat /\ a <= k /\ \A b \in Nat : l < b => a < b
  OBVIOUS
<1>5. /\ Below(s.remote) /\ \A n \in came : Below(n)
      /\ \A i \in DOMAIN s.chain : \A n \in Numbers(s.chain[i]) : Below(n)
      /\ \A i \in DOMAIN inbox : Below(inbox[i].n)
  BY <1>1, <1>2, <1>3 DEF UpTo
<1> HIDE DEF Below
<1>6. UpTo(s, inbox, came, k)
  BY <1>4, <1>5 DEF UpTo
<1>7. CASE now = inbox
  BY <1>7, <1>6
<1>8. CASE now # inbox
  <2>1. PICK m \in SignalsTo(N) : now = Append(inbox, m) /\ m.n <= k /\ (m.type # "candidate" => l < m.n)
    BY <1>8
  <2>2. m.n \in Nat
    BY SignalTyped
  <2>3. /\ \A i \in DOMAIN inbox : i \in DOMAIN now /\ now[i] = inbox[i] /\ i < Len(inbox) + 1
        /\ \A i \in DOMAIN now : i \in DOMAIN inbox \/ i = Len(inbox) + 1
        /\ now[Len(inbox) + 1] = m
    BY <2>1, AppendFacts
  <2>4. UpTo(s, now, came, k)
    BY <1>6, <2>1, <2>3 DEF UpTo
  <2>5. ASSUME InOrder(s, inbox, came) PROVE InOrder(s, now, came)
    <3>1. ASSUME NEW j \in DOMAIN now, now[j].type # "candidate"
          PROVE  /\ s.remote < now[j].n
                 /\ \A n \in came : n < now[j].n
                 /\ \A i \in DOMAIN s.chain : \A n \in Numbers(s.chain[i]) : n < now[j].n
                 /\ \A i \in DOMAIN now : i < j => now[i].n < now[j].n
      <4>1. CASE j \in DOMAIN inbox
        <5>1. \A i \in DOMAIN now : i < j => i \in DOMAIN inbox
          BY <2>3, <4>1
        <5> QED BY <2>3, <2>5, <3>1, <4>1, <5>1 DEF InOrder
      <4>2. CASE j = Len(inbox) + 1
        <5>1. now[j] = m /\ l < m.n
          BY <2>1, <2>3, <3>1, <4>2
        <5>2. \A i \in DOMAIN now : i < j => i \in DOMAIN inbox
          BY <2>3, <4>2
        <5> QED BY <1>4, <1>5, <2>2, <2>3, <5>1, <5>2
      <4> QED BY <2>3, <4>1, <4>2
    <3> QED BY <2>5, <3>1 DEF InOrder
  <2> QED BY <2>4, <2>5
<1> QED BY <1>7, <1>8

LEMMA SideChanges ==
  ASSUME IInv, NEW d \in Side, NEW t, NEW inbox, NEW came, Sound(d, t, inbox, came),
         side' = [side EXCEPT ![d] = t],
         got' = [got EXCEPT ![d] = came],
         blips' \in [Side -> 0..MaxBlips],
         NEW other,
         net' = [net EXCEPT ![d] = inbox, ![Other(d)] = other],
         \/ other = net[Other(d)]
         \/ \E m \in SignalsTo(t.local) :
              /\ other = Append(net[Other(d)], m)
              /\ m.type # "candidate" => side[d].local < m.n
              /\ m.type # IF d = "initiator" THEN "answer" ELSE "offer"
  PROVE  IInv'
<1> DEFINE e == Other(d)
           M == IF d = "initiator" THEN t.offers ELSE Made
<1>1. e \in Side /\ e # d /\ Side = {d, e} /\ Other(e) = d
  BY DEF Other, Side
<1>2. side \in [Side -> SessionsTo(Made)] /\ Made \in Nat /\ net \in [Side -> Seq(SignalsTo(Made))]
      /\ got \in [Side -> SUBSET (0..Made)]
  BY DEF IInv, Typed
<1>3. side'[d] = t /\ side'[e] = side[e] /\ DOMAIN side' = Side
  BY <1>1, <1>2
<1>4. got'[d] = came /\ got'[e] = got[e] /\ DOMAIN got' = Side
  BY <1>1, <1>2
<1>5. net'[d] = inbox /\ net'[e] = other /\ DOMAIN net' = Side
  BY <1>1, <1>2
<1>6. Made' = M /\ M \in Nat /\ Made <= M
  <2>1. CASE d = "initiator"
    <3>1. Made' = t.offers
      BY <1>3, <2>1 DEF Made
    <3>2. t \in SessionsTo(t.offers) /\ Made <= t.offers
      BY <2>1 DEF Sound
    <3>3. t.offers \in 0..t.offers
      BY <3>2 DEF SessionsTo
    <3>4. t.offers \in Nat
      BY <1>2, <3>2, <3>3
    <3> QED BY <2>1, <3>1, <3>2, <3>4
  <2>2. CASE d = "responder"
    BY <1>1, <1>2, <1>3, <2>2 DEF Made, Other
  <2> QED BY <2>1, <2>2 DEF Side
<1>7. t \in SessionsTo(M) /\ side[d] \in SessionsTo(M) /\ side[e] \in SessionsTo(M)
  <2>1. t \in SessionsTo(M)
    BY DEF Sound
  <2> QED BY <1>1, <1>2, <1>6, <2>1, TypesMonotone
<1> HIDE DEF M
<1>8. /\ SignalsTo(Made) \subseteq SignalsTo(M) /\ 0..Made \subseteq 0..M
      /\ Seq(SignalsTo(Made)) \subseteq Seq(SignalsTo(M))
  BY <1>2, <1>6, TypesMonotone, SeqMonotone
<1>9. inbox \in Seq(SignalsTo(M)) /\ came \in SUBSET (0..M)
      /\ net[e] \in Seq(SignalsTo(M)) /\ got[e] \in SUBSET (0..M) /\ net[d] \in Seq(SignalsTo(M))
  BY <1>1, <1>2, <1>8 DEF Sound
<1>10. t.local \in Nat /\ t.local <= M /\ side[d].local \in Nat /\ side[d].local <= t.local
       /\ side[e].local \in Nat
  <2>1. t.local \in 0..M /\ side[d].local \in Nat /\ side[e].local \in Nat
    BY <1>6, <1>7, SessionTyped
  <2>2. side[d].local <= t.local
    BY DEF Sound
  <2> QED BY <1>6, <2>1, <2>2
<1>11. \/ other = net[e]
       \/ \E m \in SignalsTo(M) :
            /\ other = Append(net[e], m) /\ m.n <= t.local
            /\ m.type # "candidate" => side[d].local < m.n
            /\ m.type # IF d = "initiator" THEN "answer" ELSE "offer"
  <2>1. \A m \in SignalsTo(t.local) : m \in SignalsTo(M) /\ m.n <= t.local
    BY <1>6, <1>10, TypesMonotone, SignalTyped
  <2> QED BY <2>1
<1>12. Typed'
  <2>1. other \in Seq(SignalsTo(M))
    <3>1. ASSUME NEW m \in SignalsTo(M), other = Append(net[e], m) PROVE other \in Seq(SignalsTo(M))
      BY <1>9, <3>1, AppendFacts
    <3> QED BY <1>9, <1>11, <3>1
  <2>2. side' \in [Side -> SessionsTo(Made')]
    BY <1>1, <1>3, <1>6, <1>7
  <2>3. net' \in [Side -> Seq(SignalsTo(Made'))]
    BY <1>1, <1>5, <1>6, <1>9, <2>1
  <2>4. got' \in [Side -> SUBSET (0..Made')]
    BY <1>1, <1>4, <1>6, <1>9
  <2> QED BY <1>6, <2>2, <2>3, <2>4 DEF Typed
<1>13. UpTo(side[e], other, got[e], t.local)
       /\ (InOrder(side[e], net[e], got[e]) => InOrder(side[e], other, got[e]))
  <2>1. UpTo(side[e], net[e], got[e], side[d].local)
    BY <1>1 DEF IInv, SentInv
  <2> QED BY <1>6, <1>7, <1>9, <1>10, <1>11, <2>1, SignalSent
<1>14. LineInv'
  <2>1. LineOK(side'[d], net'[d], got'[d])
    BY <1>3, <1>4, <1>5 DEF Sound
  <2>2. LineOK(side'[e], net'[e], got'[e])
    BY <1>1, <1>3, <1>4, <1>5, <1>13 DEF IInv, LineInv, LineOK
  <2> QED BY <1>1, <2>1, <2>2 DEF LineInv
<1>15. SentInv'
  <2>1. UpTo(side'[d], net'[d], got'[d], side'[e].local)
    BY <1>3, <1>4, <1>5 DEF Sound
  <2>2. UpTo(side'[e], net'[e], got'[e], side'[d].local)
    BY <1>3, <1>4, <1>5, <1>13
  <2> QED BY <1>1, <2>1, <2>2 DEF SentInv
<1>16. RoleInv'
  <2>1. RoleOK(d, side'[d], net'[d])
    BY <1>3, <1>5 DEF Sound
  <2>2. RoleOK(e, side[e], net[e])
    BY <1>1 DEF IInv, RoleInv
  <2>3. RoleOK(e, side[e], other)
    <3>1. \A i \in DOMAIN other :
            \/ i \in DOMAIN net[e] /\ other[i] = net[e][i]
            \/ other[i].type # IF d = "initiator" THEN "answer" ELSE "offer"
      BY <1>9, <1>11, AppendFacts
    <3>2. CASE d = "initiator"
      <4>1. e = "responder"
        BY <3>2 DEF Other
      <4> QED BY <2>2, <3>1, <3>2, <4>1 DEF RoleOK
    <3>3. CASE d = "responder"
      <4>1. e = "initiator"
        BY <3>3 DEF Other
      <4> QED BY <2>2, <3>1, <3>3, <4>1 DEF RoleOK
    <3> QED BY <3>2, <3>3 DEF Side
  <2> QED BY <1>1, <1>3, <1>5, <2>1, <2>3 DEF RoleInv
<1> QED BY <1>12, <1>14, <1>15, <1>16 DEF IInv

-----------------------------------------------------------------------------
(* An operation ends.                                                      *)

LEMMA SideFacts ==
  ASSUME IInv, NEW d \in Side
  PROVE  /\ Made \in Nat /\ side[d] \in SessionsTo(Made) /\ net[d] \in Seq(SignalsTo(Made))
         /\ got[d] \in SUBSET (0..Made) /\ blips \in [Side -> 0..MaxBlips]
         /\ side[Other(d)].local \in Nat
         /\ LineOK(side[d], net[d], got[d])
         /\ UpTo(side[d], net[d], got[d], side[Other(d)].local)
         /\ RoleOK(d, side[d], net[d])
         /\ d = "initiator" => Made = side[d].offers
<1>1. Made \in Nat /\ side \in [Side -> SessionsTo(Made)] /\ Other(d) \in Side
  BY DEF IInv, Typed, Other, Side
<1>2. side[Other(d)].local \in Nat
  BY <1>1, SessionTyped
<1> QED BY <1>1, <1>2 DEF IInv, Typed, LineInv, SentInv, RoleInv, Made

\* What add() makes of the operations that are under way.
LEMMA AddFacts ==
  ASSUME NEW N \in Nat, NEW s \in SessionsTo(N), NEW cs \in Seq(0..N),
         NEW then \in {"none", "createAnswer"}
  PROVE  \E x \in OpsTo(N) :
           /\ x.op \in {"add", "createAnswer"} /\ Cands(x) = {cs[i] : i \in DOMAIN cs}
           /\ \/ Add(s, cs, then) = s /\ cs = <<>> /\ then = "none"
              \/ /\ Add(s, cs, then) = Call(s, x)
                 /\ then = "none" => x.op = "add" /\ x.then = "none"
<1> DEFINE K == 0..N
<1>1. s.remote \in K /\ 0 \in K
  BY SessionTyped
<1>2. OpsTo(N) = [op : Operations, n : K, rest : Seq(K), then : {"none", "createAnswer"}]
  BY DEF OpsTo
<1> HIDE DEF K
<1>3. CASE cs # <<>>
  <2> DEFINE x == [op |-> "add", n |-> Head(cs), rest |-> Tail(cs), then |-> then]
  <2>1. Head(cs) \in K /\ Tail(cs) \in Seq(K)
    BY <1>3, TailFacts DEF K
  <2>2. x \in OpsTo(N)
    BY <1>2, <2>1 DEF Operations
  <2>3. Cands(x) = {Head(cs)} \cup {Tail(cs)[i] : i \in DOMAIN Tail(cs)}
    BY DEF Cands
  <2>4. Cands(x) = {cs[i] : i \in DOMAIN cs}
    BY <1>3, <2>3, HeadAndTail DEF K
  <2>5. Add(s, cs, then) = Call(s, x)
    BY <1>3 DEF Add
  <2> QED BY <2>2, <2>4, <2>5
<1>4. CASE cs = <<>>
  <2>1. {cs[i] : i \in DOMAIN cs} = {}
    BY <1>4
  <2> DEFINE x == [op |-> "createAnswer", n |-> s.remote, rest |-> <<>>, then |-> "none"]
  <2>2. x \in OpsTo(N)
    BY <1>1, <1>2 DEF Operations
  <2>3. Cands(x) = {}
    BY DEF Cands
  <2>4. \/ Add(s, cs, then) = s /\ then = "none"
        \/ Add(s, cs, then) = Call(s, x) /\ then # "none"
    BY <1>4 DEF Add, Op
  <2> QED BY <1>4, <2>1, <2>2, <2>3, <2>4
<1> QED BY <1>3, <1>4

\* An operation that makes no offer leaves the flag and the queue what they were.
LEMMA FlaggedShift ==
  ASSUME NEW N \in Nat, NEW s \in SessionsTo(N), s.chain # <<>>, Flagged(s),
         Head(s.chain).op \notin Offering, NEW x \in OpsTo(N), NEW t,
         t.chain = Tail(s.chain) \/ t.chain = Append(Tail(s.chain), x),
         t.remoteDescriptionSet = s.remoteDescriptionSet,
         t.pendingCandidates = s.pendingCandidates, t.remote = s.remote, t.signaling = s.signaling
  PROVE  Flagged(t)
<1> DEFINE q == s.chain
           r == t.chain
<1>1. q \in Seq(OpsTo(N)) /\ q # <<>> /\ (r = Tail(q) \/ r = Append(Tail(q), x))
  BY SessionTyped
<1> HIDE DEF q, r
<1>2. \A i \in DOMAIN q : i = 1 \/ (i - 1 \in DOMAIN r /\ r[i - 1] = q[i])
  BY <1>1, ShiftFacts
<1>3. Head(q) = q[1]
  BY <1>1, TailFacts
<1> QED BY <1>2, <1>3 DEF Flagged, q, r

\* The initiator's chain: an offer that was created is set next, and once.
LEMMA OfferShift ==
  ASSUME NEW N \in Nat, NEW s \in SessionsTo(N), s.chain # <<>>, OfferOK(s),
         NEW x \in OpsTo(N), x.op \notin Answering, x.then = "none",
         x.op \in Offering =>
           x.op = "setOffer" /\ Head(s.chain).op = "createOffer" /\ x.n = Head(s.chain).n,
         NEW t, t.life = s.life, t.chain = Tail(s.chain) \/ t.chain = Append(Tail(s.chain), x),
         t.local = s.local \/ (Head(s.chain).op = "setOffer" /\ t.local = Head(s.chain).n)
  PROVE  OfferOK(t)
<1> DEFINE q == s.chain
           r == t.chain
<1>1. q \in Seq(OpsTo(N)) /\ q # <<>> /\ (r = Tail(q) \/ r = Append(Tail(q), x))
  BY SessionTyped
<1> HIDE DEF q, r
<1>2. /\ r \in Seq(OpsTo(N))
      /\ \A i \in DOMAIN r :
           \/ i + 1 \in DOMAIN q /\ i + 1 > 1 /\ r[i] = q[i + 1]
           \/ r[i] = x /\ r # Tail(q) /\ \A j \in DOMAIN r : j <= i
  BY <1>1, ShiftFacts
<1>3. Head(q) = q[1] /\ 1 \in DOMAIN q
  BY <1>1, TailFacts
<1>4. DOMAIN r \subseteq Nat /\ DOMAIN q \subseteq Nat
  BY <1>1, <1>2
<1>5. /\ \A i \in DOMAIN q :
           q[i].op \notin Answering /\ q[i].then = "none" /\ (q[i].op \in Offering => s.local < q[i].n)
      /\ \A i \in DOMAIN q, j \in DOMAIN q :
           \/ i < j /\ q[i].op = q[j].op /\ q[i].op \in Offering
           \/ q[i].op = "setOffer" /\ q[j].op = "createOffer"
           => q[i].n < q[j].n
  BY DEF OfferOK, q
<1>6. x.op \in Offering => x.op = "setOffer" /\ q[1].op = "createOffer" /\ x.n = q[1].n
  BY <1>3 DEF q
<1>7. t.local = s.local \/ (q[1].op = "setOffer" /\ t.local = q[1].n)
  BY <1>3 DEF q
<1>8. ASSUME NEW i \in DOMAIN r
      PROVE  /\ r[i].op \notin Answering /\ r[i].then = "none"
             /\ r[i].op \in Offering => t.local < r[i].n
  <2>1. CASE r[i] = x
    BY <1>3, <1>5, <1>6, <1>7, <2>1 DEF Offering
  <2>2. CASE i + 1 \in DOMAIN q /\ i + 1 > 1 /\ r[i] = q[i + 1]
    <3>1. /\ r[i].op \notin Answering /\ r[i].then = "none"
          /\ r[i].op \in Offering => s.local < r[i].n
      BY <1>5, <2>2
    <3>2. r[i].op \in Offering /\ q[1].op = "setOffer" => q[1].n < r[i].n
      BY <1>3, <1>4, <1>5, <2>2 DEF Offering
    <3> QED BY <1>7, <3>1, <3>2
  <2> QED BY <1>2, <2>1, <2>2
<1>9. ASSUME NEW i \in DOMAIN r, NEW j \in DOMAIN r,
             \/ i < j /\ r[i].op = r[j].op /\ r[i].op \in Offering
             \/ r[i].op = "setOffer" /\ r[j].op = "createOffer"
      PROVE  r[i].n < r[j].n
  <2>1. CASE r[j] = x
    <3>1. x.op = "setOffer" /\ q[1].op = "createOffer" /\ x.n = q[1].n /\ r[i].op = "setOffer" /\ i < j
      BY <1>6, <1>9, <2>1 DEF Offering
    <3>2. (i + 1 \in DOMAIN q /\ r[i] = q[i + 1]) \/ (r[i] = x /\ j <= i)
      BY <1>2
    <3>3. ~(j <= i)
      BY <1>4, <3>1
    <3> QED BY <1>3, <1>5, <2>1, <3>1, <3>2, <3>3
  <2>2. CASE j + 1 \in DOMAIN q /\ j + 1 > 1 /\ r[j] = q[j + 1]
    <3>1. CASE i + 1 \in DOMAIN q /\ r[i] = q[i + 1]
      <4>1. i < j => i + 1 < j + 1
        BY <1>4
      <4> QED BY <1>5, <1>9, <2>2, <3>1, <4>1
    <3>2. CASE r[i] = x /\ j <= i
      <4>1. ~(i < j)
        BY <1>4, <3>2
      <4>2. x.op = "setOffer" /\ q[1].op = "createOffer" /\ x.n = q[1].n /\ r[j].op = "createOffer"
        BY <1>6, <1>9, <3>2, <4>1 DEF Offering
      <4> QED BY <1>3, <1>4, <1>5, <2>2, <3>2, <4>2 DEF Offering
    <3> QED BY <1>2, <3>1, <3>2
  <2> QED BY <1>2, <2>1, <2>2
<1> QED BY <1>8, <1>9 DEF OfferOK, r

\* The responder's chain.
LEMMA AnswerShift ==
  ASSUME NEW N \in Nat, NEW s \in SessionsTo(N), s.chain # <<>>, AnswerOK(s),
         NEW x \in OpsTo(N), x.op \notin Offering \cup {"takeAnswer"},
         x.op = "setAnswer" => x.n # 0,
         NEW t, t.chain = Tail(s.chain) \/ t.chain = Append(Tail(s.chain), x),
         t.local <= t.remote, t.signaling = "have-remote-offer" => t.local < t.remote,
         t.created # 0 => t.local < t.created /\ t.created <= t.remote
  PROVE  AnswerOK(t)
<1> DEFINE q == s.chain
           r == t.chain
<1>1. q \in Seq(OpsTo(N)) /\ q # <<>> /\ (r = Tail(q) \/ r = Append(Tail(q), x))
  BY SessionTyped
<1> HIDE DEF q, r
<1>2. \A i \in DOMAIN r : (i + 1 \in DOMAIN q /\ r[i] = q[i + 1]) \/ r[i] = x
  BY <1>1, ShiftFacts
<1> QED BY <1>2 DEF AnswerOK, q, r

\* An operation that ends and gives up nothing leaves a sound session.
LEMMA OpSound ==
  ASSUME IInv, NEW d \in Side, side[d].chain # <<>>,
         NEW t \in SessionsTo(Made), t.offers = side[d].offers, t.life = side[d].life,
         NEW x \in OpsTo(Made), x.op \notin Takes, Cands(x) \subseteq got[d],
         t.chain = Tail(side[d].chain) \/ t.chain = Append(Tail(side[d].chain), x),
         \/ t.remote = side[d].remote
         \/ Head(side[d].chain).op \in Takes /\ t.remote = Head(side[d].chain).n,
         \/ t.pendingCandidates = side[d].pendingCandidates
         \/ /\ t.pendingCandidates = <<>>
            /\ side[d].pendingCandidates = <<>> \/ t.chain = Append(Tail(side[d].chain), x)
            /\ \A i \in DOMAIN side[d].pendingCandidates : side[d].pendingCandidates[i] \in Cands(x),
         side[d].added \subseteq t.added,
         \A n \in Cands(Head(side[d].chain)) :
           n \in t.added \/ n # side[d].remote
             \/ (t.chain = Append(Tail(side[d].chain), x) /\ n \in Cands(x)),
         Flagged(t), side[d].local <= t.local, RoleOK(d, t, net[d])
  PROVE  Sound(d, t, net[d], got[d])
<1> DEFINE s == side[d]
           N == Made
           inbox == net[d]
           came == got[d]
           l == side[Other(d)].local
<1>1. /\ N \in Nat /\ s \in SessionsTo(N) /\ inbox \in Seq(SignalsTo(N)) /\ came \in SUBSET (0..N)
      /\ l \in Nat /\ UpTo(s, inbox, came, l) /\ LineOK(s, inbox, came)
      /\ d = "initiator" => N = s.offers
  BY SideFacts
<1>2. s.life # "closed" /\ InOrder(s, inbox, came) /\ Kept(s, came)
  BY <1>1 DEF LineOK
<1>3. InOrder(t, inbox, came) /\ Kept(t, came) /\ UpTo(t, inbox, came, l)
  <2> HIDE DEF N, inbox, came, l
  <2> QED BY <1>1, <1>2, LineAdvances DEF N, came
<1>4. LineOK(t, inbox, came)
  BY <1>2, <1>3 DEF LineOK
<1>5. N <= N
  BY <1>1
<1> QED BY <1>1, <1>3, <1>4, <1>5 DEF Sound

LEMMA OpMade ==
  ASSUME NEW N \in Nat, NEW what \in Operations \ {"add"}, NEW n \in 0..N
  PROVE  /\ Op(what, n) \in OpsTo(N) /\ Op(what, n).op = what /\ Op(what, n).n = n
         /\ Op(what, n).then = "none" /\ Cands(Op(what, n)) = {}
<1> DEFINE K == 0..N
<1>1. OpsTo(N) = [op : Operations, n : K, rest : Seq(K), then : {"none", "createAnswer"}] /\ n \in K
  BY DEF OpsTo
<1> HIDE DEF K
<1> QED BY <1>1 DEF Op, Cands

\* A session whose handler calls one more operation.
LEMMA CallFacts ==
  ASSUME NEW N \in Nat, NEW s \in SessionsTo(N), NEW x \in OpsTo(N), NEW t,
         t = Call(s, x)
  PROVE  /\ t \in SessionsTo(N) /\ t.chain = Append(s.chain, x)
         /\ \E i \in DOMAIN t.chain : t.chain[i] = x
         /\ \A i \in DOMAIN s.chain : i \in DOMAIN t.chain /\ t.chain[i] = s.chain[i]
         /\ t.offers = s.offers /\ t.life = s.life
         /\ t.remote = s.remote /\ t.local = s.local /\ t.created = s.created
         /\ t.pendingCandidates = s.pendingCandidates /\ t.added = s.added
         /\ t.remoteDescriptionSet = s.remoteDescriptionSet /\ t.signaling = s.signaling
<1>1. s.chain \in Seq(OpsTo(N))
  BY SessionTyped
<1>2. /\ Append(s.chain, x) \in Seq(OpsTo(N))
      /\ Len(s.chain) + 1 \in DOMAIN Append(s.chain, x) /\ Append(s.chain, x)[Len(s.chain) + 1] = x
      /\ \A i \in DOMAIN s.chain :
           i \in DOMAIN Append(s.chain, x) /\ Append(s.chain, x)[i] = s.chain[i]
  BY <1>1, AppendFacts
<1>3. t \in SessionsTo(N)
  BY <1>2 DEF SessionsTo, Call
<1>4. /\ t.chain = Append(s.chain, x)
      /\ t.offers = s.offers /\ t.life = s.life
      /\ t.remote = s.remote /\ t.local = s.local /\ t.created = s.created
      /\ t.pendingCandidates = s.pendingCandidates /\ t.added = s.added
      /\ t.remoteDescriptionSet = s.remoteDescriptionSet /\ t.signaling = s.signaling
  BY DEF SessionsTo, Call
<1> QED BY <1>2, <1>3, <1>4

\* The operation o of d ends, and s is the session before its handler goes on.
Begun(d, s, o) ==
  side[d].chain # <<>> /\ o = Head(side[d].chain) /\ s = [side[d] EXCEPT !.chain = Tail(@)]

LEMMA OpStarts ==
  ASSUME IInv, NEW d \in Side, NEW s, NEW o, Begun(d, s, o)
  PROVE  /\ Made \in Nat /\ o \in OpsTo(Made) /\ s \in SessionsTo(Made)
         /\ side[d].chain # <<>> /\ o = Head(side[d].chain)
         /\ o = side[d].chain[1] /\ 1 \in DOMAIN side[d].chain
         /\ s.chain = Tail(side[d].chain) /\ s.offers = side[d].offers /\ s.life = side[d].life
         /\ s.remote = side[d].remote /\ s.local = side[d].local /\ s.created = side[d].created
         /\ s.pendingCandidates = side[d].pendingCandidates /\ s.added = side[d].added
         /\ s.remoteDescriptionSet = side[d].remoteDescriptionSet /\ s.signaling = side[d].signaling
         /\ side[d] \in SessionsTo(Made) /\ side[d].life # "closed"
         /\ InOrder(side[d], net[d], got[d]) /\ Kept(side[d], got[d]) /\ Flagged(side[d])
         /\ RoleOK(d, side[d], net[d])
<1>1. /\ Made \in Nat /\ side[d] \in SessionsTo(Made) /\ LineOK(side[d], net[d], got[d])
      /\ RoleOK(d, side[d], net[d])
  BY SideFacts
<1>2. side[d].chain \in Seq(OpsTo(Made)) /\ side[d].chain # <<>>
  BY <1>1, SessionTyped DEF Begun
<1>3. /\ Tail(side[d].chain) \in Seq(OpsTo(Made)) /\ Head(side[d].chain) \in OpsTo(Made)
      /\ Head(side[d].chain) = side[d].chain[1] /\ 1 \in DOMAIN side[d].chain
  BY <1>2, TailFacts
<1>4. s \in SessionsTo(Made) /\ s.chain = Tail(side[d].chain)
  BY <1>1, <1>3 DEF SessionsTo, Begun
<1>5. /\ s.offers = side[d].offers /\ s.life = side[d].life
      /\ s.remote = side[d].remote /\ s.local = side[d].local /\ s.created = side[d].created
      /\ s.pendingCandidates = side[d].pendingCandidates /\ s.added = side[d].added
      /\ s.remoteDescriptionSet = side[d].remoteDescriptionSet /\ s.signaling = side[d].signaling
  BY <1>1 DEF SessionsTo, Begun
<1> QED BY <1>1, <1>2, <1>3, <1>4, <1>5 DEF LineOK, Begun

\* The step of a side that gets nothing and sends a description or nothing.
LEMMA SideSteps ==
  ASSUME IInv, NEW d \in Side, NEW t, Sound(d, t, net[d], got[d]), Become(d, t),
         UNCHANGED got, blips' \in [Side -> 0..MaxBlips],
         \/ UNCHANGED net
         \/ \E type \in {"offer", "answer", "candidate"} :
              /\ Signal(d, type, t.local)
              /\ type # "candidate" => side[d].local < t.local
              /\ type # IF d = "initiator" THEN "answer" ELSE "offer"
  PROVE  IInv'
<1> DEFINE e == Other(d)
<1>1. net \in [Side -> Seq(SignalsTo(Made))] /\ got \in [Side -> SUBSET (0..Made)]
  BY DEF IInv, Typed
<1>2. e \in Side /\ e # d
  BY DEF Other, Side
<1>3. got' = [got EXCEPT ![d] = got[d]]
  BY <1>1
<1>4. side' = [side EXCEPT ![d] = t]
  BY DEF Become
<1>5. CASE UNCHANGED net
  <2>1. net' = [net EXCEPT ![d] = net[d], ![Other(d)] = net[e]]
    BY <1>1, <1>2, <1>5
  <2> QED BY <1>3, <1>4, <2>1, SideChanges
<1>6. CASE ~UNCHANGED net
  <2>1. PICK type \in {"offer", "answer", "candidate"} :
          /\ Signal(d, type, t.local)
          /\ type # "candidate" => side[d].local < t.local
          /\ type # IF d = "initiator" THEN "answer" ELSE "offer"
    BY <1>6
  <2> DEFINE m == [type |-> type, n |-> t.local]
  <2>2. m \in SignalsTo(t.local)
    <3>1. t.local \in Nat
      <4>1. Made \in Nat /\ t \in SessionsTo(IF d = "initiator" THEN t.offers ELSE Made)
        BY SideFacts DEF Sound
      <4>2. CASE d # "initiator"
        BY <4>1, <4>2, SessionTyped
      <4>3. CASE d = "initiator"
        <5>1. t \in SessionsTo(t.offers) /\ Made <= t.offers
          BY <4>1, <4>3 DEF Sound
        <5>2. t.offers \in 0..t.offers
          BY <5>1 DEF SessionsTo
        <5>3. t.offers \in Nat
          BY <4>1, <5>1, <5>2
        <5> QED BY <5>1, <5>3, SessionTyped
      <4> QED BY <4>2, <4>3
    <3>2. t.local \in 0..t.local
      BY <3>1
    <3> QED BY <3>2 DEF SignalsTo
  <2>3. net' = [net EXCEPT ![d] = net[d], ![Other(d)] = Append(net[e], m)]
    BY <1>1, <1>2, <2>1 DEF Signal
  <2>4. /\ Append(net[e], m) = Append(net[Other(d)], m)
        /\ m.type # "candidate" => side[d].local < m.n
        /\ m.type # IF d = "initiator" THEN "answer" ELSE "offer"
    BY <2>1
  <2> HIDE DEF m
  <2> QED BY <1>3, <1>4, <2>2, <2>3, <2>4, SideChanges
<1> QED BY <1>5, <1>6

LEMMA OfferCreatedKeeps ==
  ASSUME IInv, NEW d \in Side, NEW s, NEW o, Begun(d, s, o), o.op = "createOffer",
         OfferCreated(d, s, o), UNCHANGED <<blips, got>>
  PROVE  IInv'
<1>1. PICK x : x = Op("setOffer", o.n)
  OBVIOUS
<1>2. PICK u : u = [s EXCEPT !.created = o.n]
  OBVIOUS
<1>3. PICK t : t = Call(u, x)
  OBVIOUS
<1>4. /\ Made \in Nat /\ o \in OpsTo(Made) /\ s \in SessionsTo(Made)
      /\ side[d].chain # <<>> /\ o = Head(side[d].chain)
      /\ s.chain = Tail(side[d].chain) /\ s.offers = side[d].offers /\ s.life = side[d].life
      /\ s.remote = side[d].remote /\ s.local = side[d].local
      /\ s.pendingCandidates = side[d].pendingCandidates /\ s.added = side[d].added
      /\ s.remoteDescriptionSet = side[d].remoteDescriptionSet
      /\ side[d] \in SessionsTo(Made)
      /\ Flagged(side[d]) /\ RoleOK(d, side[d], net[d])
  BY OpStarts
<1>5. x \in OpsTo(Made) /\ x.op = "setOffer" /\ x.n = o.n /\ x.then = "none" /\ Cands(x) = {}
  <2>1. "setOffer" \in Operations \ {"add"}
    BY DEF Operations
  <2>2. o.n \in 0..Made
    BY <1>4, OpTyped
  <2> QED BY <1>1, <1>4, <2>1, <2>2, OpMade
<1>6. u \in SessionsTo(Made) /\ u.chain = s.chain /\ u.offers = s.offers /\ u.life = s.life
      /\ u.remote = s.remote /\ u.local = s.local
      /\ u.pendingCandidates = s.pendingCandidates /\ u.added = s.added
      /\ u.remoteDescriptionSet = s.remoteDescriptionSet
  <2>1. o.n \in 0..Made
    BY <1>4, OpTyped
  <2> QED BY <1>2, <1>4, <2>1 DEF SessionsTo
<1>7. /\ t \in SessionsTo(Made) /\ t.chain = Append(u.chain, x)
      /\ \E i \in DOMAIN t.chain : t.chain[i] = x
      /\ t.offers = u.offers /\ t.life = u.life
      /\ t.remote = u.remote /\ t.local = u.local
      /\ t.pendingCandidates = u.pendingCandidates /\ t.added = u.added
      /\ t.remoteDescriptionSet = u.remoteDescriptionSet
  <2> DEFINE N == Made
  <2>1. N \in Nat /\ u \in SessionsTo(N) /\ x \in OpsTo(N) /\ t = Call(u, x)
    BY <1>3, <1>4, <1>5, <1>6
  <2> HIDE DEF N
  <2> QED BY <2>1, CallFacts DEF N
<1>8. /\ t \in SessionsTo(Made) /\ t.chain = Append(Tail(side[d].chain), x)
      /\ t.offers = side[d].offers /\ t.life = side[d].life
      /\ t.remote = side[d].remote /\ t.local = side[d].local
      /\ t.pendingCandidates = side[d].pendingCandidates /\ t.added = side[d].added
      /\ t.remoteDescriptionSet = side[d].remoteDescriptionSet
  BY <1>4, <1>6, <1>7
<1>9. Flagged(t)
  BY <1>4, <1>5, <1>7, <1>8 DEF Flagged, Offering
<1>10. d = "initiator" /\ OfferOK(side[d])
  <2>1. side[d].chain \in Seq(OpsTo(Made))
    BY <1>4, SessionTyped
  <2>2. 1 \in DOMAIN side[d].chain /\ side[d].chain[1].op = "createOffer"
    BY <1>4, <2>1, TailFacts
  <2> QED BY <1>4, <2>2 DEF RoleOK, AnswerOK, Offering
<1>11. RoleOK(d, t, net[d])
  <2>1. OfferOK(t)
    BY <1>4, <1>5, <1>8, <1>10, OfferShift DEF Offering, Answering
  <2> QED BY <1>4, <1>10, <2>1 DEF RoleOK
<1>12. Sound(d, t, net[d], got[d])
  <2>1. side[d].local <= t.local
    BY <1>4, <1>8, SessionTyped
  <2>2. Cands(o) = {} /\ x.op \notin Takes
    BY <1>5 DEF Cands, Takes
  <2> QED BY <1>4, <1>5, <1>8, <1>9, <1>11, <2>1, <2>2, OpSound
<1>13. Become(d, t) /\ UNCHANGED net
  BY <1>1, <1>2, <1>3 DEF OfferCreated
<1>14. UNCHANGED got /\ blips' \in [Side -> 0..MaxBlips]
  BY SideFacts
<1> QED BY <1>12, <1>13, <1>14, SideSteps

\* A session that gives up is sound, whatever it was doing.
LEMMA GiveUpSound ==
  ASSUME IInv, NEW d \in Side, NEW u \in SessionsTo(Made), side[d].life # "none",
         u.offers = side[d].offers, u.signaling = side[d].signaling,
         u.local = side[d].local, u.remote = side[d].remote, u.created = side[d].created
  PROVE  Sound(d, GiveUp(u), net[d], got[d])
<1>1. PICK t : t = GiveUp(u)
  OBVIOUS
<1>2. /\ Made \in Nat /\ side[d] \in SessionsTo(Made) /\ net[d] \in Seq(SignalsTo(Made))
      /\ got[d] \in SUBSET (0..Made)
      /\ UpTo(side[d], net[d], got[d], side[Other(d)].local)
      /\ RoleOK(d, side[d], net[d])
      /\ d = "initiator" => Made = side[d].offers
  BY SideFacts
<1>3. t \in SessionsTo(Made)
  <2>1. <<>> \in Seq(OpsTo(Made))
    OBVIOUS
  <2> QED BY <1>1, <2>1 DEF GiveUp, SessionsTo
<1>4. /\ t.life = "closed" /\ t.chain = <<>> /\ t.offers = side[d].offers
      /\ t.signaling = side[d].signaling /\ t.local = side[d].local
      /\ t.remote = side[d].remote /\ t.created = side[d].created
  BY <1>1 DEF GiveUp, SessionsTo
<1>5. LineOK(t, net[d], got[d])
  BY <1>4 DEF LineOK
<1>6. UpTo(t, net[d], got[d], side[Other(d)].local)
  BY <1>2, <1>4 DEF UpTo
<1>7. RoleOK(d, t, net[d])
  BY <1>2, <1>4 DEF RoleOK, OfferOK, AnswerOK
<1>8. side[d].local <= t.local /\ Made <= Made
  BY <1>2, <1>4, SessionTyped
<1> QED BY <1>1, <1>2, <1>3, <1>4, <1>5, <1>6, <1>7, <1>8 DEF Sound

\* An operation of no effect.
LEMMA DropSound ==
  ASSUME IInv, NEW d \in Side, NEW s, NEW o, Begun(d, s, o), o.op \notin Offering, o.op # "add"
  PROVE  Sound(d, s, net[d], got[d])
<1>1. /\ Made \in Nat /\ o \in OpsTo(Made) /\ s \in SessionsTo(Made)
      /\ side[d].chain # <<>> /\ o = Head(side[d].chain)
      /\ s.chain = Tail(side[d].chain) /\ s.offers = side[d].offers /\ s.life = side[d].life
      /\ s.remote = side[d].remote /\ s.local = side[d].local /\ s.created = side[d].created
      /\ s.pendingCandidates = side[d].pendingCandidates /\ s.added = side[d].added
      /\ s.remoteDescriptionSet = side[d].remoteDescriptionSet /\ s.signaling = side[d].signaling
      /\ side[d] \in SessionsTo(Made)
      /\ Flagged(side[d]) /\ RoleOK(d, side[d], net[d])
  BY OpStarts
<1>2. PICK x \in OpsTo(Made) : x.op = "createAnswer" /\ Cands(x) = {}
  <2>1. "createAnswer" \in Operations \ {"add"} /\ 0 \in 0..Made
    BY <1>1 DEF Operations
  <2> QED BY <1>1, <2>1, OpMade
<1>3. PICK y \in OpsTo(Made) : y.op = "takeAnswer" /\ y.then = "none"
  <2>1. "takeAnswer" \in Operations \ {"add"} /\ 0 \in 0..Made
    BY <1>1 DEF Operations
  <2> QED BY <1>1, <2>1, OpMade
<1>4. Flagged(s)
  BY <1>1, <1>2, FlaggedShift
<1>5. RoleOK(d, s, net[d])
  <2>1. CASE d = "initiator"
    <3>1. OfferOK(s)
      BY <1>1, <1>3, <2>1, OfferShift DEF RoleOK, Offering, Answering
    <3> QED BY <1>1, <2>1, <3>1 DEF RoleOK
  <2>2. CASE d # "initiator"
    <3>1. AnswerOK(side[d])
      BY <1>1, <2>2 DEF RoleOK
    <3>2. /\ s.local <= s.remote /\ (s.signaling = "have-remote-offer" => s.local < s.remote)
          /\ s.created # 0 => s.local < s.created /\ s.created <= s.remote
      BY <1>1, <3>1 DEF AnswerOK
    <3>3. AnswerOK(s)
      BY <1>1, <1>2, <3>1, <3>2, AnswerShift DEF Offering
    <3> QED BY <1>1, <2>2, <3>3 DEF RoleOK
  <2> QED BY <2>1, <2>2
<1>6. side[d].local <= s.local /\ Cands(o) = {} /\ x.op \notin Takes
  BY <1>1, <1>2, SessionTyped DEF Cands, Takes
<1> QED BY <1>1, <1>2, <1>4, <1>5, <1>6, OpSound

LEMMA OfferSetKeeps ==
  ASSUME IInv, NEW d \in Side, NEW s, NEW o, Begun(d, s, o), o.op = "setOffer",
         OfferSet(d, s, o), UNCHANGED <<blips, got>>
  PROVE  IInv'
<1>1. /\ Made \in Nat /\ o \in OpsTo(Made) /\ s \in SessionsTo(Made)
      /\ side[d].chain # <<>> /\ o = Head(side[d].chain)
      /\ s.chain = Tail(side[d].chain) /\ s.offers = side[d].offers /\ s.life = side[d].life
      /\ s.remote = side[d].remote /\ s.local = side[d].local /\ s.created = side[d].created
      /\ s.pendingCandidates = side[d].pendingCandidates /\ s.added = side[d].added
      /\ s.remoteDescriptionSet = side[d].remoteDescriptionSet /\ s.signaling = side[d].signaling
      /\ side[d] \in SessionsTo(Made)
      /\ Flagged(side[d]) /\ RoleOK(d, side[d], net[d])
      /\ o = side[d].chain[1] /\ 1 \in DOMAIN side[d].chain
  BY OpStarts
<1>2. UNCHANGED got /\ blips' \in [Side -> 0..MaxBlips]
  BY SideFacts
<1>3. d = "initiator" /\ OfferOK(side[d]) /\ side[d].life # "none"
  BY <1>1 DEF RoleOK, AnswerOK, Offering, OfferOK
<1>4. CASE o.n = s.created
  <2>1. PICK t : t = [s EXCEPT !.signaling = "have-local-offer", !.local = o.n]
    OBVIOUS
  <2>2. t \in SessionsTo(Made)
    <3>1. o.n \in 0..Made
      BY <1>1, OpTyped
    <3> QED BY <1>1, <2>1, <3>1 DEF SessionsTo
  <2>3. /\ t.chain = Tail(side[d].chain) /\ t.offers = side[d].offers /\ t.life = side[d].life
        /\ t.remote = side[d].remote /\ t.local = o.n
        /\ t.pendingCandidates = side[d].pendingCandidates /\ t.added = side[d].added
        /\ t.remoteDescriptionSet = side[d].remoteDescriptionSet /\ t.signaling = "have-local-offer"
    BY <1>1, <2>1 DEF SessionsTo
  <2>4. PICK x \in OpsTo(Made) : x.op = "createAnswer" /\ Cands(x) = {}
    <3>1. "createAnswer" \in Operations \ {"add"} /\ 0 \in 0..Made
      BY <1>1 DEF Operations
    <3> QED BY <1>1, <3>1, OpMade
  <2>5. PICK y \in OpsTo(Made) : y.op = "takeAnswer" /\ y.then = "none"
    <3>1. "takeAnswer" \in Operations \ {"add"} /\ 0 \in 0..Made
      BY <1>1 DEF Operations
    <3> QED BY <1>1, <3>1, OpMade
  <2>6. Flagged(t)
    BY <1>1, <2>3 DEF Flagged
  <2>7. OfferOK(t)
    BY <1>1, <1>3, <2>3, <2>5, OfferShift DEF Offering, Answering
  <2>8. RoleOK(d, t, net[d])
    BY <1>1, <1>3, <2>7 DEF RoleOK
  <2>9. side[d].local < t.local
    BY <1>1, <1>3, <2>3 DEF OfferOK, Offering
  <2>10. side[d].local <= t.local
    BY <1>1, <2>2, <2>9, SessionTyped
  <2>11. Sound(d, t, net[d], got[d])
    <3>1. Cands(o) = {} /\ x.op \notin Takes
      BY <2>4 DEF Cands, Takes
    <3> QED BY <1>1, <2>2, <2>3, <2>4, <2>6, <2>8, <2>10, <3>1, OpSound
  <2>12. Become(d, t) /\ Signal(d, "offer", t.local)
    BY <1>4, <2>1, <2>3 DEF OfferSet
  <2> QED BY <1>2, <1>3, <2>9, <2>11, <2>12, SideSteps
<1>5. CASE o.n # s.created
  <2>1. Sound(d, GiveUp(s), net[d], got[d])
    BY <1>1, <1>3, GiveUpSound
  <2>2. Become(d, GiveUp(s)) /\ UNCHANGED net
    BY <1>5 DEF OfferSet
  <2> QED BY <1>2, <2>1, <2>2, SideSteps
<1> QED BY <1>4, <1>5

\* The description of the peer is set and the queue is flushed.
LEMMA TakenFacts ==
  ASSUME IInv, NEW d \in Side, NEW s, NEW o, Begun(d, s, o), o.op \in Takes,
         NEW u \in SessionsTo(Made), u.chain = s.chain, u.offers = s.offers, u.life = s.life,
         u.remote = o.n, u.local = s.local, u.pendingCandidates = s.pendingCandidates,
         u.added = s.added,
         NEW then \in {"none", "createAnswer"}, NEW t, t = Flush(u, then)
  PROVE  /\ t \in SessionsTo(Made) /\ t.life = side[d].life /\ t.remote = o.n
         /\ t.local = side[d].local /\ t.signaling = u.signaling /\ t.created = u.created
         /\ \/ t.chain = Tail(side[d].chain)
            \/ \E x \in OpsTo(Made) :
                 /\ t.chain = Append(Tail(side[d].chain), x) /\ x.op \in {"add", "createAnswer"}
                 /\ then = "none" => x.op = "add" /\ x.then = "none"
         /\ RoleOK(d, t, net[d]) => Sound(d, t, net[d], got[d])
<1>1. /\ Made \in Nat /\ o \in OpsTo(Made) /\ s \in SessionsTo(Made)
      /\ side[d].chain # <<>> /\ o = Head(side[d].chain)
      /\ s.chain = Tail(side[d].chain) /\ s.offers = side[d].offers /\ s.life = side[d].life
      /\ s.local = side[d].local
      /\ s.pendingCandidates = side[d].pendingCandidates /\ s.added = side[d].added
      /\ side[d] \in SessionsTo(Made) /\ Kept(side[d], got[d])
  BY OpStarts
<1>2. PICK v : v = [u EXCEPT !.pendingCandidates = <<>>, !.remoteDescriptionSet = TRUE]
  OBVIOUS
<1>3. v \in SessionsTo(Made)
  <2>1. <<>> \in Seq(0..Made)
    OBVIOUS
  <2> QED BY <1>2, <2>1 DEF SessionsTo
<1>4. /\ v.chain = s.chain /\ v.offers = s.offers /\ v.life = s.life /\ v.remote = o.n
      /\ v.local = s.local /\ v.added = s.added /\ v.signaling = u.signaling
      /\ v.created = u.created /\ v.pendingCandidates = <<>> /\ v.remoteDescriptionSet = TRUE
  BY <1>2 DEF SessionsTo
<1>5. PICK cs : cs = s.pendingCandidates
  OBVIOUS
<1>6. cs \in Seq(0..Made)
  BY <1>1, <1>5, SessionTyped
<1>7. t = Add(v, cs, then)
  BY <1>2, <1>5 DEF Flush
<1>8. PICK x \in OpsTo(Made) :
           /\ x.op \in {"add", "createAnswer"} /\ Cands(x) = {cs[i] : i \in DOMAIN cs}
           /\ \/ t = v /\ cs = <<>> /\ then = "none"
              \/ t = Call(v, x) /\ (then = "none" => x.op = "add" /\ x.then = "none")
  <2> DEFINE N == Made
  <2>1. N \in Nat /\ v \in SessionsTo(N) /\ cs \in Seq(0..N)
    BY <1>1, <1>3, <1>6
  <2> HIDE DEF N
  <2>2. \E x \in OpsTo(N) :
           /\ x.op \in {"add", "createAnswer"} /\ Cands(x) = {cs[i] : i \in DOMAIN cs}
           /\ \/ Add(v, cs, then) = v /\ cs = <<>> /\ then = "none"
              \/ /\ Add(v, cs, then) = Call(v, x)
                 /\ then = "none" => x.op = "add" /\ x.then = "none"
    BY <2>1, AddFacts
  <2> QED BY <1>7, <2>2 DEF N
<1>9. /\ t \in SessionsTo(Made) /\ t.offers = v.offers /\ t.life = v.life /\ t.remote = v.remote
      /\ t.local = v.local /\ t.added = v.added /\ t.signaling = v.signaling
      /\ t.created = v.created /\ t.pendingCandidates = v.pendingCandidates
      /\ t.remoteDescriptionSet = v.remoteDescriptionSet
      /\ \/ t = v /\ cs = <<>> /\ then = "none"
         \/ t.chain = Append(v.chain, x) /\ (then = "none" => x.op = "add" /\ x.then = "none")
  <2> DEFINE N == Made
  <2>1. N \in Nat /\ v \in SessionsTo(N) /\ x \in OpsTo(N)
    BY <1>1, <1>3
  <2> HIDE DEF N
  <2>2. CASE t = Call(v, x) /\ (then = "none" => x.op = "add" /\ x.then = "none")
    BY <2>1, <2>2, CallFacts DEF N
  <2>3. CASE t = v /\ cs = <<>> /\ then = "none"
    BY <1>3, <2>3
  <2> QED BY <1>8, <2>2, <2>3
<1>10. \/ t.chain = Tail(side[d].chain) /\ cs = <<>>
       \/ /\ t.chain = Append(Tail(side[d].chain), x)
          /\ then = "none" => x.op = "add" /\ x.then = "none"
  BY <1>1, <1>4, <1>9
<1>11. Cands(x) \subseteq got[d] /\ x.op \notin Takes /\ Cands(o) = {}
  <2>1. \A i \in DOMAIN cs : cs[i] \in got[d]
    BY <1>1, <1>5 DEF Kept
  <2> QED BY <1>8, <2>1 DEF Cands, Takes
<1>12. \A i \in DOMAIN cs : cs[i] \in Cands(x)
  BY <1>8
<1>13. Flagged(t)
  BY <1>4, <1>9 DEF Flagged
<1>14. ASSUME RoleOK(d, t, net[d]) PROVE Sound(d, t, net[d], got[d])
  <2>1. side[d].local <= t.local
    BY <1>1, <1>4, <1>9, SessionTyped
  <2>2. /\ t.offers = side[d].offers /\ t.life = side[d].life /\ t.remote = Head(side[d].chain).n
        /\ side[d].added \subseteq t.added /\ t.pendingCandidates = <<>>
        /\ Head(side[d].chain).op \in Takes
    BY <1>1, <1>4, <1>9
  <2>3. side[d].pendingCandidates = <<>> \/ t.chain = Append(Tail(side[d].chain), x)
    BY <1>1, <1>5, <1>10
  <2>4. \A i \in DOMAIN side[d].pendingCandidates : side[d].pendingCandidates[i] \in Cands(x)
    BY <1>1, <1>5, <1>12
  <2>5. t.chain = Tail(side[d].chain) \/ t.chain = Append(Tail(side[d].chain), x)
    BY <1>10
  <2>6. Cands(Head(side[d].chain)) = {}
    BY <1>1, <1>11
  <2> QED BY <1>1, <1>9, <1>11, <1>13, <1>14, <2>1, <2>2, <2>3, <2>4, <2>5, <2>6, OpSound
<1> QED BY <1>1, <1>4, <1>8, <1>9, <1>10, <1>14

LEMMA OfferTakenKeeps ==
  ASSUME IInv, NEW d \in Side, NEW s, NEW o, Begun(d, s, o), o.op = "takeOffer",
         OfferTaken(d, s, o), UNCHANGED <<blips, got>>
  PROVE  IInv'
<1>1. /\ Made \in Nat /\ o \in OpsTo(Made) /\ s \in SessionsTo(Made)
      /\ side[d].chain # <<>> /\ o = Head(side[d].chain)
      /\ s.chain = Tail(side[d].chain) /\ s.offers = side[d].offers /\ s.life = side[d].life
      /\ s.remote = side[d].remote /\ s.local = side[d].local /\ s.created = side[d].created
      /\ s.pendingCandidates = side[d].pendingCandidates /\ s.added = side[d].added
      /\ side[d] \in SessionsTo(Made)
      /\ InOrder(side[d], net[d], got[d]) /\ RoleOK(d, side[d], net[d])
      /\ o = side[d].chain[1] /\ 1 \in DOMAIN side[d].chain
  BY OpStarts
<1>2. UNCHANGED got /\ blips' \in [Side -> 0..MaxBlips]
  BY SideFacts
<1>3. CASE s.signaling = "have-local-offer"
  <2>1. Sound(d, s, net[d], got[d])
    BY DropSound DEF Offering
  <2>2. Become(d, s) /\ UNCHANGED net
    BY <1>3 DEF OfferTaken
  <2> QED BY <1>2, <2>1, <2>2, SideSteps
<1>4. CASE s.signaling # "have-local-offer"
  <2>1. PICK u : u = [s EXCEPT !.signaling = "have-remote-offer", !.remote = o.n]
    OBVIOUS
  <2>2. u \in SessionsTo(Made)
    <3>1. o.n \in 0..Made
      BY <1>1, OpTyped
    <3> QED BY <1>1, <2>1, <3>1 DEF SessionsTo
  <2>3. /\ u.chain = s.chain /\ u.offers = s.offers /\ u.life = s.life /\ u.remote = o.n
        /\ u.local = s.local /\ u.pendingCandidates = s.pendingCandidates /\ u.added = s.added
        /\ u.created = s.created /\ u.signaling = "have-remote-offer"
    BY <1>1, <2>1 DEF SessionsTo
  <2>4. PICK t : t = Flush(u, "createAnswer")
    OBVIOUS
  <2>5. /\ t \in SessionsTo(Made) /\ t.life = side[d].life /\ t.remote = o.n
        /\ t.local = side[d].local /\ t.signaling = u.signaling /\ t.created = u.created
        /\ \/ t.chain = Tail(side[d].chain)
           \/ \E x \in OpsTo(Made) :
                t.chain = Append(Tail(side[d].chain), x) /\ x.op \in {"add", "createAnswer"}
        /\ RoleOK(d, t, net[d]) => Sound(d, t, net[d], got[d])
    BY <2>2, <2>3, <2>4, TakenFacts DEF Takes
  <2>6. d # "initiator" /\ AnswerOK(side[d])
    BY <1>1 DEF RoleOK, OfferOK, Answering
  <2>7. /\ t.local <= t.remote /\ t.local < t.remote
        /\ t.created # 0 => t.local < t.created /\ t.created <= t.remote
    <3>1. side[d].remote < o.n
      BY <1>1 DEF InOrder, Takes
    <3>2. {side[d].local, side[d].remote, side[d].created} \subseteq Nat /\ o.n \in Nat
      BY <1>1, SessionTyped, OpTyped
    <3> QED BY <1>1, <2>3, <2>5, <2>6, <3>1, <3>2 DEF AnswerOK
  <2>8. AnswerOK(t)
    <3>1. CASE t.chain = Tail(side[d].chain)
      <4>1. PICK x \in OpsTo(Made) : x.op = "createAnswer"
        <5>1. "createAnswer" \in Operations \ {"add"} /\ 0 \in 0..Made
          BY <1>1 DEF Operations
        <5> QED BY <1>1, <5>1, OpMade
      <4> QED BY <1>1, <2>6, <2>7, <3>1, <4>1, AnswerShift DEF Offering
    <3>2. ASSUME NEW x \in OpsTo(Made), t.chain = Append(Tail(side[d].chain), x),
                 x.op \in {"add", "createAnswer"}
          PROVE  AnswerOK(t)
      BY <1>1, <2>6, <2>7, <3>2, AnswerShift DEF Offering
    <3> QED BY <2>5, <3>1, <3>2
  <2>9. Sound(d, t, net[d], got[d])
    BY <1>1, <2>5, <2>6, <2>8 DEF RoleOK
  <2>10. Become(d, t) /\ UNCHANGED net
    BY <1>4, <2>1, <2>4 DEF OfferTaken
  <2> QED BY <1>2, <2>9, <2>10, SideSteps
<1> QED BY <1>3, <1>4

LEMMA AnswerTakenKeeps ==
  ASSUME IInv, NEW d \in Side, NEW s, NEW o, Begun(d, s, o), o.op = "takeAnswer",
         AnswerTaken(d, s, o), UNCHANGED <<blips, got>>
  PROVE  IInv'
<1>1. /\ Made \in Nat /\ o \in OpsTo(Made) /\ s \in SessionsTo(Made)
      /\ side[d].chain # <<>> /\ o = Head(side[d].chain)
      /\ s.chain = Tail(side[d].chain) /\ s.offers = side[d].offers /\ s.life = side[d].life
      /\ side[d] \in SessionsTo(Made) /\ RoleOK(d, side[d], net[d])
      /\ o = side[d].chain[1] /\ 1 \in DOMAIN side[d].chain
  BY OpStarts
<1>2. UNCHANGED got /\ blips' \in [Side -> 0..MaxBlips]
  BY SideFacts
<1>3. CASE s.signaling # "have-local-offer"
  <2>1. Sound(d, s, net[d], got[d])
    BY DropSound DEF Offering
  <2>2. Become(d, s) /\ UNCHANGED net
    BY <1>3 DEF AnswerTaken
  <2> QED BY <1>2, <2>1, <2>2, SideSteps
<1>4. CASE s.signaling = "have-local-offer"
  <2>1. PICK u : u = Searching([s EXCEPT !.signaling = "stable", !.remote = o.n, !.created = 0])
    OBVIOUS
  <2>2. u \in SessionsTo(Made)
    <3>1. o.n \in 0..Made /\ 0 \in 0..Made
      BY <1>1, OpTyped
    <3> QED BY <1>1, <2>1, <3>1 DEF SessionsTo, Searching
  <2>3. /\ u.chain = s.chain /\ u.offers = s.offers /\ u.life = s.life /\ u.remote = o.n
        /\ u.local = s.local /\ u.pendingCandidates = s.pendingCandidates /\ u.added = s.added
    BY <1>1, <2>1 DEF SessionsTo, Searching
  <2>4. PICK t : t = Flush(u, "none")
    OBVIOUS
  <2>5. /\ t \in SessionsTo(Made) /\ t.life = side[d].life /\ t.local = side[d].local
        /\ \/ t.chain = Tail(side[d].chain)
           \/ \E x \in OpsTo(Made) :
                t.chain = Append(Tail(side[d].chain), x) /\ x.op = "add" /\ x.then = "none"
        /\ RoleOK(d, t, net[d]) => Sound(d, t, net[d], got[d])
    BY <2>2, <2>3, <2>4, TakenFacts DEF Takes
  <2>6. d = "initiator" /\ OfferOK(side[d])
    BY <1>1 DEF RoleOK, AnswerOK
  <2>7. OfferOK(t)
    <3>1. CASE t.chain = Tail(side[d].chain)
      <4>1. PICK x \in OpsTo(Made) : x.op = "takeAnswer" /\ x.then = "none"
        <5>1. "takeAnswer" \in Operations \ {"add"} /\ 0 \in 0..Made
          BY <1>1 DEF Operations
        <5> QED BY <1>1, <5>1, OpMade
      <4> QED BY <1>1, <2>5, <2>6, <3>1, <4>1, OfferShift DEF Offering, Answering
    <3>2. ASSUME NEW x \in OpsTo(Made), t.chain = Append(Tail(side[d].chain), x),
                 x.op = "add", x.then = "none"
          PROVE  OfferOK(t)
      BY <1>1, <2>5, <2>6, <3>2, OfferShift DEF Offering, Answering
    <3> QED BY <2>5, <3>1, <3>2
  <2>8. Sound(d, t, net[d], got[d])
    BY <1>1, <2>5, <2>6, <2>7 DEF RoleOK
  <2>9. Become(d, t) /\ UNCHANGED net
    BY <1>4, <2>1, <2>4 DEF AnswerTaken
  <2> QED BY <1>2, <2>8, <2>9, SideSteps
<1> QED BY <1>3, <1>4

LEMMA AnswerCreatedKeeps ==
  ASSUME IInv, NEW d \in Side, NEW s, NEW o, Begun(d, s, o), o.op = "createAnswer",
         AnswerCreated(d, s, o), UNCHANGED <<blips, got>>
  PROVE  IInv'
<1>1. /\ Made \in Nat /\ o \in OpsTo(Made) /\ s \in SessionsTo(Made)
      /\ side[d].chain # <<>> /\ o = Head(side[d].chain)
      /\ s.chain = Tail(side[d].chain) /\ s.offers = side[d].offers /\ s.life = side[d].life
      /\ s.remote = side[d].remote /\ s.local = side[d].local
      /\ s.pendingCandidates = side[d].pendingCandidates /\ s.added = side[d].added
      /\ s.remoteDescriptionSet = side[d].remoteDescriptionSet /\ s.signaling = side[d].signaling
      /\ side[d] \in SessionsTo(Made) /\ Flagged(side[d]) /\ RoleOK(d, side[d], net[d])
      /\ o = side[d].chain[1] /\ 1 \in DOMAIN side[d].chain
  BY OpStarts
<1>2. UNCHANGED got /\ blips' \in [Side -> 0..MaxBlips]
  BY SideFacts
<1>3. CASE s.signaling # "have-remote-offer"
  <2>1. Sound(d, s, net[d], got[d])
    BY DropSound DEF Offering
  <2>2. Become(d, s) /\ UNCHANGED net
    BY <1>3 DEF AnswerCreated
  <2> QED BY <1>2, <2>1, <2>2, SideSteps
<1>4. CASE s.signaling = "have-remote-offer"
  <2>1. PICK u : u = [s EXCEPT !.created = s.remote]
    OBVIOUS
  <2>2. u \in SessionsTo(Made)
    <3>1. s.remote \in 0..Made
      BY <1>1, SessionTyped
    <3> QED BY <1>1, <2>1, <3>1 DEF SessionsTo
  <2>3. /\ u.chain = s.chain /\ u.offers = s.offers /\ u.life = s.life /\ u.remote = s.remote
        /\ u.local = s.local /\ u.pendingCandidates = s.pendingCandidates /\ u.added = s.added
        /\ u.remoteDescriptionSet = s.remoteDescriptionSet /\ u.signaling = s.signaling
        /\ u.created = s.remote
    BY <1>1, <2>1 DEF SessionsTo
  <2>4. PICK x : x = Op("setAnswer", s.remote)
    OBVIOUS
  <2>5. x \in OpsTo(Made) /\ x.op = "setAnswer" /\ x.n = s.remote /\ Cands(x) = {}
    <3>1. "setAnswer" \in Operations \ {"add"} /\ s.remote \in 0..Made
      BY <1>1, SessionTyped DEF Operations
    <3> QED BY <1>1, <2>4, <3>1, OpMade
  <2>6. PICK t : t = Call(u, x)
    OBVIOUS
  <2>7. /\ t \in SessionsTo(Made) /\ t.chain = Append(u.chain, x)
        /\ t.offers = u.offers /\ t.life = u.life /\ t.remote = u.remote /\ t.local = u.local
        /\ t.pendingCandidates = u.pendingCandidates /\ t.added = u.added
        /\ t.remoteDescriptionSet = u.remoteDescriptionSet /\ t.signaling = u.signaling
        /\ t.created = u.created
    <3> DEFINE N == Made
    <3>1. N \in Nat /\ u \in SessionsTo(N) /\ x \in OpsTo(N) /\ t = Call(u, x)
      BY <1>1, <2>2, <2>5, <2>6
    <3> HIDE DEF N
    <3> QED BY <3>1, CallFacts DEF N
  <2>8. /\ t.chain = Append(Tail(side[d].chain), x)
        /\ t.offers = side[d].offers /\ t.life = side[d].life
        /\ t.remote = side[d].remote /\ t.local = side[d].local
        /\ t.pendingCandidates = side[d].pendingCandidates /\ t.added = side[d].added
        /\ t.remoteDescriptionSet = side[d].remoteDescriptionSet
        /\ t.signaling = side[d].signaling /\ t.created = side[d].remote
    BY <1>1, <2>3, <2>7
  <2>9. d # "initiator" /\ AnswerOK(side[d])
    BY <1>1 DEF RoleOK, OfferOK, Answering
  <2>10. side[d].local < side[d].remote /\ {side[d].local, side[d].remote} \subseteq Nat
    BY <1>1, <1>4, <2>9, SessionTyped DEF AnswerOK
  <2>11. AnswerOK(t)
    <3>1. /\ t.local <= t.remote /\ t.local < t.remote /\ x.n # 0
          /\ t.created # 0 => t.local < t.created /\ t.created <= t.remote
      BY <1>1, <2>5, <2>8, <2>10
    <3> QED BY <1>1, <2>5, <2>8, <2>9, <3>1, AnswerShift DEF Offering
  <2>12. Flagged(t)
    BY <1>1, <2>5, <2>8, FlaggedShift DEF Offering
  <2>13. Sound(d, t, net[d], got[d])
    <3>1. RoleOK(d, t, net[d])
      BY <1>1, <2>9, <2>11 DEF RoleOK
    <3>2. Cands(o) = {} /\ x.op \notin Takes /\ side[d].local <= t.local
      BY <2>5, <2>8, <2>10 DEF Cands, Takes
    <3> QED BY <1>1, <2>5, <2>7, <2>8, <2>12, <3>1, <3>2, OpSound
  <2>14. Become(d, t) /\ UNCHANGED net
    BY <1>4, <2>1, <2>4, <2>6 DEF AnswerCreated
  <2> QED BY <1>2, <2>13, <2>14, SideSteps
<1> QED BY <1>3, <1>4

LEMMA AnswerSetKeeps ==
  ASSUME IInv, NEW d \in Side, NEW s, NEW o, Begun(d, s, o), o.op = "setAnswer",
         AnswerSet(d, s, o), UNCHANGED <<blips, got>>
  PROVE  IInv'
<1>1. /\ Made \in Nat /\ o \in OpsTo(Made) /\ s \in SessionsTo(Made)
      /\ side[d].chain # <<>> /\ o = Head(side[d].chain)
      /\ s.chain = Tail(side[d].chain) /\ s.offers = side[d].offers /\ s.life = side[d].life
      /\ s.remote = side[d].remote /\ s.local = side[d].local /\ s.created = side[d].created
      /\ s.pendingCandidates = side[d].pendingCandidates /\ s.added = side[d].added
      /\ s.remoteDescriptionSet = side[d].remoteDescriptionSet /\ s.signaling = side[d].signaling
      /\ side[d] \in SessionsTo(Made) /\ Flagged(side[d]) /\ RoleOK(d, side[d], net[d])
      /\ o = side[d].chain[1] /\ 1 \in DOMAIN side[d].chain
  BY OpStarts
<1>2. UNCHANGED got /\ blips' \in [Side -> 0..MaxBlips]
  BY SideFacts
<1>3. CASE ~(s.signaling = "have-remote-offer" /\ o.n = s.created)
  <2>1. Sound(d, s, net[d], got[d])
    BY DropSound DEF Offering
  <2>2. Become(d, s) /\ UNCHANGED net
    BY <1>3 DEF AnswerSet
  <2> QED BY <1>2, <2>1, <2>2, SideSteps
<1>4. CASE s.signaling = "have-remote-offer" /\ o.n = s.created
  <2>1. PICK t : t = Searching([s EXCEPT !.signaling = "stable", !.local = o.n, !.created = 0])
    OBVIOUS
  <2>2. t \in SessionsTo(Made)
    <3>1. o.n \in 0..Made /\ 0 \in 0..Made
      BY <1>1, OpTyped
    <3> QED BY <1>1, <2>1, <3>1 DEF SessionsTo, Searching
  <2>3. /\ t.chain = Tail(side[d].chain) /\ t.offers = side[d].offers /\ t.life = side[d].life
        /\ t.remote = side[d].remote /\ t.local = o.n /\ t.created = 0
        /\ t.pendingCandidates = side[d].pendingCandidates /\ t.added = side[d].added
        /\ t.remoteDescriptionSet = side[d].remoteDescriptionSet /\ t.signaling = "stable"
    BY <1>1, <2>1 DEF SessionsTo, Searching
  <2>4. PICK x \in OpsTo(Made) : x.op = "createAnswer" /\ Cands(x) = {}
    <3>1. "createAnswer" \in Operations \ {"add"} /\ 0 \in 0..Made
      BY <1>1 DEF Operations
    <3> QED BY <1>1, <3>1, OpMade
  <2>5. d = "responder" /\ AnswerOK(side[d])
    BY <1>1 DEF RoleOK, OfferOK, Answering, Side
  <2>6. side[d].local < o.n /\ o.n <= side[d].remote
    BY <1>1, <1>4, <2>5 DEF AnswerOK
  <2>7. {side[d].local, side[d].remote} \subseteq Nat /\ o.n \in Nat
    BY <1>1, SessionTyped, OpTyped
  <2>8. AnswerOK(t)
    <3>1. t.local <= t.remote /\ t.signaling # "have-remote-offer" /\ t.created = 0
      BY <2>3, <2>6
    <3> QED BY <1>1, <2>3, <2>4, <2>5, <3>1, AnswerShift DEF Offering
  <2>9. Flagged(t)
    <3>1. side[d].remote # 0 => side[d].remoteDescriptionSet
      BY <1>1, <1>4, <2>5 DEF Flagged, AnswerOK
    <3> QED BY <1>1, <2>3, <3>1 DEF Flagged
  <2>10. Sound(d, t, net[d], got[d])
    <3>1. RoleOK(d, t, net[d])
      BY <1>1, <2>5, <2>8 DEF RoleOK
    <3>2. Cands(o) = {} /\ x.op \notin Takes /\ side[d].local <= t.local
      BY <2>3, <2>4, <2>6, <2>7 DEF Cands, Takes
    <3> QED BY <1>1, <2>2, <2>3, <2>4, <2>9, <3>1, <3>2, OpSound
  <2>11. Become(d, t) /\ Signal(d, "answer", t.local)
    BY <1>4, <2>1, <2>3 DEF AnswerSet
  <2>12. side[d].local < t.local
    BY <2>3, <2>6
  <2> QED BY <1>2, <2>5, <2>10, <2>11, <2>12, SideSteps
<1> QED BY <1>3, <1>4

LEMMA CandidateTriedKeeps ==
  ASSUME IInv, NEW d \in Side, NEW s, NEW o, Begun(d, s, o), o.op = "add",
         CandidateTried(d, s, o), UNCHANGED <<blips, got>>
  PROVE  IInv'
<1>1. /\ Made \in Nat /\ o \in OpsTo(Made) /\ s \in SessionsTo(Made)
      /\ side[d].chain # <<>> /\ o = Head(side[d].chain)
      /\ s.chain = Tail(side[d].chain) /\ s.offers = side[d].offers /\ s.life = side[d].life
      /\ s.remote = side[d].remote /\ s.local = side[d].local /\ s.created = side[d].created
      /\ s.pendingCandidates = side[d].pendingCandidates /\ s.added = side[d].added
      /\ s.remoteDescriptionSet = side[d].remoteDescriptionSet /\ s.signaling = side[d].signaling
      /\ side[d] \in SessionsTo(Made) /\ Flagged(side[d]) /\ RoleOK(d, side[d], net[d])
      /\ Kept(side[d], got[d])
      /\ o = side[d].chain[1] /\ 1 \in DOMAIN side[d].chain
  BY OpStarts
<1>2. UNCHANGED got /\ blips' \in [Side -> 0..MaxBlips]
  BY SideFacts
<1>3. PICK u : u = [s EXCEPT !.added = IF o.n = s.remote THEN @ \cup {o.n} ELSE @]
  OBVIOUS
<1>4. u \in SessionsTo(Made)
  <2>1. s.added \cup {o.n} \in SUBSET (0..Made) /\ s.added \in SUBSET (0..Made)
    BY <1>1, OpTyped, SessionTyped
  <2>2. PICK a \in SUBSET (0..Made) : a = IF o.n = s.remote THEN s.added \cup {o.n} ELSE s.added
    BY <2>1
  <2>3. u = [s EXCEPT !.added = a]
    BY <1>3, <2>2
  <2> QED BY <1>1, <2>3 DEF SessionsTo
<1>5. /\ u.chain = s.chain /\ u.offers = s.offers /\ u.life = s.life /\ u.remote = s.remote
      /\ u.local = s.local /\ u.pendingCandidates = s.pendingCandidates
      /\ u.remoteDescriptionSet = s.remoteDescriptionSet /\ u.signaling = s.signaling
      /\ u.created = s.created
      /\ u.added = IF o.n = s.remote THEN s.added \cup {o.n} ELSE s.added
  BY <1>1, <1>3 DEF SessionsTo
<1>6. PICK t : t = Add(u, o.rest, o.then)
  OBVIOUS
<1>7. PICK x \in OpsTo(Made) :
           /\ x.op \in {"add", "createAnswer"} /\ Cands(x) = {o.rest[i] : i \in DOMAIN o.rest}
           /\ \/ t = u /\ o.rest = <<>> /\ o.then = "none"
              \/ t = Call(u, x) /\ (o.then = "none" => x.op = "add" /\ x.then = "none")
  <2> DEFINE N == Made
  <2>1. N \in Nat /\ u \in SessionsTo(N) /\ o.rest \in Seq(0..N) /\ o.then \in {"none", "createAnswer"}
    BY <1>1, <1>4, OpTyped
  <2> HIDE DEF N
  <2>2. \E x \in OpsTo(N) :
           /\ x.op \in {"add", "createAnswer"} /\ Cands(x) = {o.rest[i] : i \in DOMAIN o.rest}
           /\ \/ Add(u, o.rest, o.then) = u /\ o.rest = <<>> /\ o.then = "none"
              \/ /\ Add(u, o.rest, o.then) = Call(u, x)
                 /\ o.then = "none" => x.op = "add" /\ x.then = "none"
    BY <2>1, AddFacts
  <2> QED BY <1>6, <2>2 DEF N
<1>8. /\ t \in SessionsTo(Made) /\ t.offers = u.offers /\ t.life = u.life /\ t.remote = u.remote
      /\ t.local = u.local /\ t.added = u.added /\ t.signaling = u.signaling
      /\ t.created = u.created /\ t.pendingCandidates = u.pendingCandidates
      /\ t.remoteDescriptionSet = u.remoteDescriptionSet
      /\ \/ t.chain = u.chain /\ o.rest = <<>>
         \/ t.chain = Append(u.chain, x) /\ (o.then = "none" => x.op = "add" /\ x.then = "none")
  <2> DEFINE N == Made
  <2>1. N \in Nat /\ u \in SessionsTo(N) /\ x \in OpsTo(N)
    BY <1>1, <1>4
  <2> HIDE DEF N
  <2>2. CASE t = Call(u, x) /\ (o.then = "none" => x.op = "add" /\ x.then = "none")
    BY <2>1, <2>2, CallFacts DEF N
  <2>3. CASE t = u /\ o.rest = <<>> /\ o.then = "none"
    BY <1>4, <2>3
  <2> QED BY <1>7, <2>2, <2>3
<1>9. /\ t.offers = side[d].offers /\ t.life = side[d].life /\ t.remote = side[d].remote
      /\ t.local = side[d].local /\ t.signaling = side[d].signaling /\ t.created = side[d].created
      /\ t.pendingCandidates = side[d].pendingCandidates /\ side[d].added \subseteq t.added
      /\ t.remoteDescriptionSet = side[d].remoteDescriptionSet
      /\ o.n = side[d].remote => o.n \in t.added
  BY <1>1, <1>5, <1>8
<1>10. \/ t.chain = Tail(side[d].chain) /\ o.rest = <<>>
       \/ /\ t.chain = Append(Tail(side[d].chain), x)
          /\ o.then = "none" => x.op = "add" /\ x.then = "none"
  BY <1>1, <1>5, <1>8
<1>11. Cands(o) = {o.n} \cup {o.rest[i] : i \in DOMAIN o.rest}
  BY DEF Cands
<1>12. Cands(x) \subseteq got[d] /\ x.op \notin Takes
  <2>1. Cands(o) \subseteq got[d]
    BY <1>1 DEF Kept
  <2> QED BY <1>7, <1>11, <2>1 DEF Takes
<1>13. \A n \in Cands(o) :
         n \in t.added \/ n # side[d].remote
           \/ (t.chain = Append(Tail(side[d].chain), x) /\ n \in Cands(x))
  <2>1. o.rest = <<>> => {o.rest[i] : i \in DOMAIN o.rest} = {}
    OBVIOUS
  <2> QED BY <1>7, <1>9, <1>10, <1>11, <2>1
<1>14. t.chain = Tail(side[d].chain) \/ t.chain = Append(Tail(side[d].chain), x)
  BY <1>10
<1>15. Flagged(t)
  BY <1>1, <1>9, <1>14, FlaggedShift DEF Offering
<1>16. RoleOK(d, t, net[d])
  <2>1. CASE d = "initiator"
    <3>1. OfferOK(side[d]) /\ o.then = "none"
      BY <1>1, <2>1 DEF RoleOK, OfferOK
    <3>2. CASE t.chain = Tail(side[d].chain)
      <4>1. PICK y \in OpsTo(Made) : y.op = "takeAnswer" /\ y.then = "none"
        <5>1. "takeAnswer" \in Operations \ {"add"} /\ 0 \in 0..Made
          BY <1>1 DEF Operations
        <5> QED BY <1>1, <5>1, OpMade
      <4>2. OfferOK(t)
        BY <1>1, <1>9, <3>1, <3>2, <4>1, OfferShift DEF Offering, Answering
      <4> QED BY <1>1, <2>1, <4>2 DEF RoleOK
    <3>3. CASE t.chain = Append(Tail(side[d].chain), x) /\ x.op = "add" /\ x.then = "none"
      <4>1. OfferOK(t)
        BY <1>1, <1>9, <3>1, <3>3, OfferShift DEF Offering, Answering
      <4> QED BY <1>1, <2>1, <4>1 DEF RoleOK
    <3> QED BY <1>10, <3>1, <3>2, <3>3
  <2>2. CASE d # "initiator"
    <3>1. AnswerOK(side[d])
      BY <1>1, <2>2 DEF RoleOK
    <3>2. /\ t.local <= t.remote /\ (t.signaling = "have-remote-offer" => t.local < t.remote)
          /\ t.created # 0 => t.local < t.created /\ t.created <= t.remote
      BY <1>9, <3>1 DEF AnswerOK
    <3>3. AnswerOK(t)
      BY <1>1, <1>7, <1>14, <3>1, <3>2, AnswerShift DEF Offering
    <3> QED BY <1>1, <2>2, <3>3 DEF RoleOK
  <2> QED BY <2>1, <2>2
<1>17. Sound(d, t, net[d], got[d])
  <2>1. side[d].local <= t.local
    BY <1>1, <1>9, SessionTyped
  <2> QED BY <1>1, <1>8, <1>9, <1>12, <1>13, <1>14, <1>15, <1>16, <2>1, OpSound
<1>18. Become(d, t) /\ UNCHANGED net
  BY <1>3, <1>6 DEF CandidateTried
<1> QED BY <1>2, <1>17, <1>18, SideSteps

LEMMA OpEndsKeeps ==
  ASSUME IInv, NEW d \in Side, OpEnds(d)
  PROVE  IInv'
<1>1. PICK o : o = Head(side[d].chain)
  OBVIOUS
<1>2. PICK s : s = [side[d] EXCEPT !.chain = Tail(@)]
  OBVIOUS
<1>3. Begun(d, s, o) /\ UNCHANGED <<blips, got>>
  BY <1>1, <1>2 DEF OpEnds, Begun
<1>4. \/ o.op = "createOffer" /\ OfferCreated(d, s, o)
      \/ o.op = "setOffer" /\ OfferSet(d, s, o)
      \/ o.op = "takeOffer" /\ OfferTaken(d, s, o)
      \/ o.op = "createAnswer" /\ AnswerCreated(d, s, o)
      \/ o.op = "setAnswer" /\ AnswerSet(d, s, o)
      \/ o.op = "takeAnswer" /\ AnswerTaken(d, s, o)
      \/ o.op = "add" /\ CandidateTried(d, s, o)
  BY <1>1, <1>2 DEF OpEnds
<1> QED BY <1>3, <1>4, OfferCreatedKeeps, OfferSetKeeps, OfferTakenKeeps, AnswerCreatedKeeps,
           AnswerSetKeeps, AnswerTakenKeeps, CandidateTriedKeeps

-----------------------------------------------------------------------------
(* A signal arrives.                                                       *)

LEMMA OfferAppend ==
  ASSUME NEW N \in Nat, NEW s \in SessionsTo(N), OfferOK(s),
         NEW x \in OpsTo(N), x.op \notin Answering, x.then = "none",
         x.op \in Offering =>
           x.op = "createOffer" /\ s.local < x.n /\ \A i \in DOMAIN s.chain : s.chain[i].n < x.n,
         NEW t, t.life # "none", t.local = s.local, t.chain = Append(s.chain, x)
  PROVE  OfferOK(t)
<1> DEFINE q == s.chain
           r == t.chain
<1>1. q \in Seq(OpsTo(N)) /\ r = Append(q, x)
  BY SessionTyped
<1> HIDE DEF q, r
<1>2. /\ \A i \in DOMAIN q : i \in DOMAIN r /\ r[i] = q[i] /\ i < Len(q) + 1
      /\ \A i \in DOMAIN r : i \in DOMAIN q \/ i = Len(q) + 1
      /\ r[Len(q) + 1] = x
  BY <1>1, AppendFacts
<1>3. \A i, j \in DOMAIN r : j \in DOMAIN q /\ i < j => i \in DOMAIN q
  BY <1>1, <1>2
<1>4. ~(Len(q) + 1 < Len(q) + 1)
  BY <1>1
<1>5. /\ \A i \in DOMAIN q :
           q[i].op \notin Answering /\ q[i].then = "none" /\ (q[i].op \in Offering => s.local < q[i].n)
      /\ \A i \in DOMAIN q, j \in DOMAIN q :
           \/ i < j /\ q[i].op = q[j].op /\ q[i].op \in Offering
           \/ q[i].op = "setOffer" /\ q[j].op = "createOffer"
           => q[i].n < q[j].n
  BY DEF OfferOK, q
<1>6. x.op \in Offering =>
        x.op = "createOffer" /\ s.local < x.n /\ \A i \in DOMAIN q : q[i].n < x.n
  BY DEF q
<1>7. ASSUME NEW i \in DOMAIN r
      PROVE  /\ r[i].op \notin Answering /\ r[i].then = "none"
             /\ r[i].op \in Offering => t.local < r[i].n
  BY <1>2, <1>5, <1>6
<1>8. ASSUME NEW i \in DOMAIN r, NEW j \in DOMAIN r,
             \/ i < j /\ r[i].op = r[j].op /\ r[i].op \in Offering
             \/ r[i].op = "setOffer" /\ r[j].op = "createOffer"
      PROVE  r[i].n < r[j].n
  <2>1. CASE j \in DOMAIN q
    <3>1. CASE i \in DOMAIN q
      BY <1>2, <1>5, <1>8, <2>1, <3>1
    <3>2. CASE i = Len(q) + 1 /\ i \notin DOMAIN q
      BY <1>2, <1>3, <1>6, <1>8, <2>1, <3>2 DEF Offering
    <3> QED BY <1>2, <3>1, <3>2
  <2>2. CASE j = Len(q) + 1
    <3>1. x.op \in Offering /\ i \in DOMAIN q
      BY <1>2, <1>4, <1>6, <1>8, <2>2 DEF Offering
    <3> QED BY <1>2, <1>6, <2>2, <3>1
  <2> QED BY <1>2, <2>1, <2>2
<1> QED BY <1>7, <1>8 DEF OfferOK, r

LEMMA AnswerAppend ==
  ASSUME NEW N \in Nat, NEW s \in SessionsTo(N), AnswerOK(s),
         NEW x \in OpsTo(N), x.op \notin Offering \cup {"takeAnswer", "setAnswer"},
         NEW t, t.local = s.local, t.remote = s.remote, t.signaling = s.signaling,
         t.created = s.created, t.chain = Append(s.chain, x)
  PROVE  AnswerOK(t)
<1> DEFINE q == s.chain
           r == t.chain
<1>1. q \in Seq(OpsTo(N)) /\ r = Append(q, x)
  BY SessionTyped
<1> HIDE DEF q, r
<1>2. /\ \A i \in DOMAIN q : i \in DOMAIN r /\ r[i] = q[i]
      /\ \A i \in DOMAIN r : i \in DOMAIN q \/ i = Len(q) + 1
      /\ r[Len(q) + 1] = x
  BY <1>1, AppendFacts
<1> QED BY <1>2 DEF AnswerOK, q, r

\* A description or candidate arrives: it is next in the line.
LEMMA LineGrows ==
  ASSUME NEW N \in Nat, NEW s \in SessionsTo(N), NEW t \in SessionsTo(N),
         NEW inbox \in Seq(SignalsTo(N)), inbox # <<>>, NEW m, m = Head(inbox),
         NEW came \in SUBSET (0..N), NEW come \in SUBSET (0..N), NEW l \in Nat,
         InOrder(s, inbox, came), Kept(s, came), UpTo(s, inbox, came, l),
         t.remote = s.remote, t.added = s.added,
         come = came \/ (m.type = "candidate" /\ come = came \cup {m.n}),
         NEW x \in OpsTo(N), Numbers(x) \subseteq {m.n}, Cands(x) \subseteq come,
         x.op \in Takes => m.type # "candidate",
         t.chain = s.chain \/ t.chain = Append(s.chain, x),
         \/ t.pendingCandidates = s.pendingCandidates
         \/ t.pendingCandidates = Append(s.pendingCandidates, m.n) /\ m.n \in come,
         m.n \in come =>
           \/ m.n \in came
           \/ t.chain = Append(s.chain, x) /\ m.n \in Cands(x)
           \/ t.pendingCandidates = Append(s.pendingCandidates, m.n)
  PROVE  /\ InOrder(t, Tail(inbox), come) /\ Kept(t, come) /\ UpTo(t, Tail(inbox), come, l)
<1> DEFINE q == s.chain
           r == t.chain
           box == Tail(inbox)
           p == s.pendingCandidates
           z == t.pendingCandidates
<1>1. /\ q \in Seq(OpsTo(N)) /\ r \in Seq(OpsTo(N)) /\ s.remote \in Nat /\ p \in Seq(0..N)
      /\ (r = q \/ r = Append(q, x)) /\ m \in SignalsTo(N) /\ m.n \in 0..N /\ m.n \in Nat
  <2>1. m \in SignalsTo(N)
    BY TailFacts
  <2> QED BY <2>1, SessionTyped, SignalTyped
<1>2. /\ \A i \in DOMAIN box : i + 1 \in DOMAIN inbox /\ i + 1 > 1 /\ box[i] = inbox[i + 1]
      /\ inbox[1] = m /\ 1 \in DOMAIN inbox /\ box \in Seq(SignalsTo(N))
  BY TailFacts
<1>3. z = p \/ (z = Append(p, m.n) /\ m.n \in come)
  OBVIOUS
<1>4. m.n \in come => m.n \in came \/ (r = Append(q, x) /\ m.n \in Cands(x)) \/ z = Append(p, m.n)
  OBVIOUS
<1> HIDE DEF q, r, box, p, z
<1>5. /\ \A i \in DOMAIN q : i \in DOMAIN r /\ r[i] = q[i]
      /\ \A i \in DOMAIN r : (i \in DOMAIN q /\ r[i] = q[i]) \/ (r[i] = x /\ \A j \in DOMAIN r : j <= i)
      /\ r = Append(q, x) => \E i \in DOMAIN r : r[i] = x
  <2>1. CASE r = q
    <3>1. r # Append(q, x)
      BY <1>1, <2>1
    <3> QED BY <2>1, <3>1
  <2>2. CASE r = Append(q, x)
    <3>1. /\ Len(q) + 1 \in DOMAIN r /\ r[Len(q) + 1] = x
          /\ \A i \in DOMAIN q : i \in DOMAIN r /\ r[i] = q[i] /\ i < Len(q) + 1
          /\ \A i \in DOMAIN r : i \in DOMAIN q \/ i = Len(q) + 1
      BY <1>1, <2>2, AppendFacts
    <3>2. \A i \in DOMAIN r : i <= Len(q) + 1
      BY <1>1, <3>1
    <3> QED BY <3>1, <3>2
  <2> QED BY <1>1, <2>1, <2>2
<1>6. /\ \A i \in DOMAIN p : i \in DOMAIN z /\ z[i] = p[i]
      /\ \A i \in DOMAIN z : (i \in DOMAIN p /\ z[i] = p[i]) \/ (z[i] = m.n /\ m.n \in come)
      /\ z = Append(p, m.n) => \E i \in DOMAIN z : z[i] = m.n
  <2>1. CASE z = p
    <3>1. z # Append(p, m.n)
      BY <1>1, <2>1
    <3> QED BY <2>1, <3>1
  <2>2. CASE z = Append(p, m.n) /\ m.n \in come
    <3>1. PICK K, k : K = 0..N /\ k = m.n
      OBVIOUS
    <3>2. p \in Seq(K) /\ k \in K /\ z = Append(p, k)
      BY <1>1, <2>2, <3>1
    <3>3. /\ \A i \in DOMAIN p : i \in DOMAIN z /\ z[i] = p[i]
          /\ \A i \in DOMAIN z : i \in DOMAIN p \/ i = Len(p) + 1
          /\ Len(p) + 1 \in DOMAIN z /\ z[Len(p) + 1] = k
      BY <3>2, AppendFacts
    <3> QED BY <2>2, <3>1, <3>3
  <2> QED BY <1>3, <2>1, <2>2
<1>7. DOMAIN r \subseteq Nat /\ DOMAIN inbox \subseteq Nat /\ DOMAIN box \subseteq Nat
  BY <1>1, <1>2
<1>8. m.type # "candidate" =>
        /\ s.remote < m.n
        /\ \A n \in came : n < m.n
        /\ \A i \in DOMAIN q : \A n \in Numbers(q[i]) : n < m.n
  BY <1>2 DEF InOrder, q
<1>9. x.op \in Takes => x.n = m.n
  BY DEF Numbers
<1>10. ASSUME NEW i \in DOMAIN r, NEW j \in DOMAIN r, i < j, r[j].op \in Takes, NEW n \in Numbers(r[i])
       PROVE  n < r[j].n
  <2>1. i \in DOMAIN q /\ r[i] = q[i]
    <3>1. ~(j <= i)
      BY <1>7, <1>10
    <3> QED BY <1>5, <3>1
  <2>2. CASE j \in DOMAIN q /\ r[j] = q[j]
    BY <1>10, <2>1, <2>2 DEF InOrder, q
  <2>3. CASE r[j] = x
    BY <1>8, <1>9, <1>10, <2>1, <2>3
  <2> QED BY <1>5, <2>2, <2>3
<1>11. ASSUME NEW j \in DOMAIN r, r[j].op \in Takes PROVE t.remote < r[j].n
  BY <1>5, <1>8, <1>9, <1>11 DEF InOrder, q
<1>12. ASSUME NEW j \in DOMAIN box, box[j].type # "candidate"
       PROVE  /\ t.remote < box[j].n
              /\ \A n \in come : n < box[j].n
              /\ \A i \in DOMAIN r : \A n \in Numbers(r[i]) : n < box[j].n
              /\ \A i \in DOMAIN box : i < j => box[i].n < box[j].n
  <2>1. j + 1 \in DOMAIN inbox /\ box[j] = inbox[j + 1] /\ 1 < j + 1
    BY <1>2, <1>7
  <2>2. /\ s.remote < box[j].n
        /\ \A n \in came : n < box[j].n
        /\ \A i \in DOMAIN q : \A n \in Numbers(q[i]) : n < box[j].n
        /\ \A i \in DOMAIN inbox : i < j + 1 => inbox[i].n < box[j].n
    BY <1>12, <2>1 DEF InOrder, q
  <2>3. m.n < box[j].n
    BY <1>2, <2>1, <2>2
  <2>4. ASSUME NEW i \in DOMAIN box, i < j PROVE box[i].n < box[j].n
    <3>1. i + 1 \in DOMAIN inbox /\ box[i] = inbox[i + 1]
      BY <1>2
    <3>2. i + 1 < j + 1
      BY <1>7, <2>4
    <3> QED BY <2>2, <3>1, <3>2
  <2> QED BY <1>5, <2>2, <2>3, <2>4
<1>13. InOrder(t, box, come)
  BY <1>10, <1>11, <1>12 DEF InOrder, r
<1>14. \A i \in DOMAIN z : z[i] \in come
  BY <1>6 DEF Kept, p
<1>15. \A i \in DOMAIN r : Cands(r[i]) \subseteq come
  BY <1>5 DEF Kept, q
<1>16. ASSUME NEW n \in come
       PROVE  \/ n \in t.added
              \/ \E i \in DOMAIN z : z[i] = n
              \/ \E i \in DOMAIN r : n \in Cands(r[i])
              \/ Dead(t, n)
  <2>1. CASE n \in came
    <3>1. CASE n \in s.added \/ \E i \in DOMAIN p : p[i] = n
      BY <1>6, <3>1
    <3>2. CASE \E i \in DOMAIN q : n \in Cands(q[i])
      BY <1>5, <3>2
    <3>3. CASE Dead(s, n)
      <4>1. n \in Nat
        BY <2>1
      <4>2. x.op \in Takes => x.n # n
        BY <1>1, <1>8, <1>9, <2>1, <4>1
      <4> QED BY <1>5, <3>3, <4>2 DEF Dead, q, r
    <3> QED BY <2>1, <3>1, <3>2, <3>3 DEF Kept, p, q
  <2>2. CASE n \notin came
    <3>1. n = m.n
      BY <2>2
    <3> QED BY <1>4, <1>5, <1>6, <2>2, <3>1
  <2> QED BY <2>1, <2>2
<1>17. Kept(t, come)
  BY <1>14, <1>15, <1>16 DEF Kept, r, z
<1>18. m.n <= l
  BY <1>2 DEF UpTo
<1>19. UpTo(t, box, come, l)
  BY <1>2, <1>5, <1>18 DEF UpTo, q, r
<1> QED BY <1>13, <1>17, <1>19 DEF box

LEMMA ReceiveSteps ==
  ASSUME IInv, NEW d \in Side, NEW t, NEW come, Sound(d, t, Tail(net[d]), come), Become(d, t),
         net' = [net EXCEPT ![d] = Tail(@)], got' = [got EXCEPT ![d] = come], UNCHANGED blips
  PROVE  IInv'
<1> DEFINE e == Other(d)
<1>1. net \in [Side -> Seq(SignalsTo(Made))] /\ blips' \in [Side -> 0..MaxBlips]
  BY DEF IInv, Typed
<1>2. e \in Side /\ e # d
  BY DEF Other, Side
<1>3. net' = [net EXCEPT ![d] = Tail(net[d]), ![Other(d)] = net[e]]
  BY <1>1, <1>2
<1>4. side' = [side EXCEPT ![d] = t]
  BY DEF Become
<1> QED BY <1>1, <1>3, <1>4, SideChanges

LEMMA InboxFacts ==
  ASSUME IInv, NEW d \in Side, net[d] # <<>>, NEW m, m = Head(net[d])
  PROVE  /\ m \in SignalsTo(Made) /\ m.type \in {"offer", "answer", "candidate"}
         /\ m.n \in 0..Made /\ Tail(net[d]) \in Seq(SignalsTo(Made))
         /\ d = "initiator" => m.type # "offer"
         /\ d # "initiator" => m.type # "answer"
         /\ \A t : (IF d = "initiator" THEN OfferOK(t) ELSE AnswerOK(t)) => RoleOK(d, t, Tail(net[d]))
<1>1. net[d] \in Seq(SignalsTo(Made)) /\ RoleOK(d, side[d], net[d]) /\ Made \in Nat
  BY SideFacts
<1>2. /\ Tail(net[d]) \in Seq(SignalsTo(Made)) /\ Head(net[d]) \in SignalsTo(Made)
      /\ Head(net[d]) = net[d][1] /\ 1 \in DOMAIN net[d]
      /\ \A i \in DOMAIN Tail(net[d]) : i + 1 \in DOMAIN net[d] /\ Tail(net[d])[i] = net[d][i + 1]
  BY <1>1, TailFacts
<1>3. m.type \in {"offer", "answer", "candidate"} /\ m.n \in 0..Made
  BY <1>1, <1>2, SignalTyped
<1>4. /\ d = "initiator" => \A i \in DOMAIN net[d] : net[d][i].type # "offer"
      /\ d # "initiator" => \A i \in DOMAIN net[d] : net[d][i].type # "answer"
  BY <1>1 DEF RoleOK
<1> QED BY <1>2, <1>3, <1>4 DEF RoleOK

LEMMA ReceiveSound ==
  ASSUME IInv, NEW d \in Side, net[d] # <<>>, NEW m, m = Head(net[d]), side[d].life # "closed",
         NEW t \in SessionsTo(Made), t.life # "closed", t.offers = side[d].offers,
         t.local = side[d].local, t.remote = side[d].remote, t.added = side[d].added,
         NEW come, come = got[d] \/ (m.type = "candidate" /\ come = got[d] \cup {m.n}),
         NEW x \in OpsTo(Made), Numbers(x) \subseteq {m.n}, Cands(x) \subseteq come,
         x.op \in Takes => m.type # "candidate",
         t.chain = side[d].chain \/ t.chain = Append(side[d].chain, x),
         \/ t.pendingCandidates = side[d].pendingCandidates
         \/ t.pendingCandidates = Append(side[d].pendingCandidates, m.n) /\ m.n \in come,
         m.n \in come =>
           \/ m.n \in got[d]
           \/ t.chain = Append(side[d].chain, x) /\ m.n \in Cands(x)
           \/ t.pendingCandidates = Append(side[d].pendingCandidates, m.n),
         Flagged(t), IF d = "initiator" THEN OfferOK(t) ELSE AnswerOK(t)
  PROVE  Sound(d, t, Tail(net[d]), come)
<1> DEFINE s == side[d]
           N == Made
           inbox == net[d]
           came == got[d]
           l == side[Other(d)].local
<1>1. /\ N \in Nat /\ s \in SessionsTo(N) /\ inbox \in Seq(SignalsTo(N)) /\ came \in SUBSET (0..N)
      /\ l \in Nat /\ UpTo(s, inbox, came, l) /\ LineOK(s, inbox, came)
      /\ d = "initiator" => N = s.offers
  BY SideFacts
<1>2. InOrder(s, inbox, came) /\ Kept(s, came)
  BY <1>1 DEF LineOK
<1>3. /\ m.n \in 0..N /\ Tail(inbox) \in Seq(SignalsTo(N))
      /\ RoleOK(d, t, Tail(inbox))
  BY InboxFacts
<1>4. come \in SUBSET (0..N)
  BY <1>1, <1>3
<1>5. InOrder(t, Tail(inbox), come) /\ Kept(t, come) /\ UpTo(t, Tail(inbox), come, l)
  <2> HIDE DEF s, N, inbox, came, l
  <2>1. t \in SessionsTo(N) /\ x \in OpsTo(N)
    BY DEF N
  <2>2. come = came \/ (m.type = "candidate" /\ come = came \cup {m.n})
    BY DEF came
  <2>3. inbox # <<>> /\ m = Head(inbox) /\ t.remote = s.remote /\ t.added = s.added
    BY DEF inbox, s
  <2>4. m.n \in come =>
           \/ m.n \in came
           \/ t.chain = Append(s.chain, x) /\ m.n \in Cands(x)
           \/ t.pendingCandidates = Append(s.pendingCandidates, m.n)
    BY DEF came, s
  <2>5. t.chain = s.chain \/ t.chain = Append(s.chain, x)
    BY DEF s
  <2>6. \/ t.pendingCandidates = s.pendingCandidates
        \/ t.pendingCandidates = Append(s.pendingCandidates, m.n) /\ m.n \in come
    BY DEF s
  <2> QED BY <1>1, <1>2, <1>4, <2>1, <2>2, <2>3, <2>4, <2>5, <2>6, LineGrows
<1>6. LineOK(t, Tail(inbox), come)
  BY <1>5 DEF LineOK
<1>7. N <= N /\ s.local <= t.local
  <2>1. s.local \in Nat
    BY <1>1, SessionTyped
  <2> QED BY <1>1, <2>1
<1> QED BY <1>1, <1>3, <1>4, <1>5, <1>6, <1>7 DEF Sound

\* Something arrives that there is no session for.
LEMMA DroppedSound ==
  ASSUME IInv, NEW d \in Side, net[d] # <<>>
  PROVE  Sound(d, side[d], Tail(net[d]), got[d])
<1>1. PICK m : m = Head(net[d])
  OBVIOUS
<1>2. /\ Made \in Nat /\ side[d] \in SessionsTo(Made) /\ LineOK(side[d], net[d], got[d])
      /\ got[d] \in SUBSET (0..Made) /\ RoleOK(d, side[d], net[d])
      /\ d = "initiator" => Made = side[d].offers
      /\ net[d] \in Seq(SignalsTo(Made))
      /\ UpTo(side[d], net[d], got[d], side[Other(d)].local)
  BY SideFacts
<1>3. Tail(net[d]) \in Seq(SignalsTo(Made))
      /\ \A i \in DOMAIN Tail(net[d]) : i + 1 \in DOMAIN net[d] /\ Tail(net[d])[i] = net[d][i + 1]
  BY <1>2, TailFacts
<1>4. IF d = "initiator" THEN OfferOK(side[d]) ELSE AnswerOK(side[d])
  BY <1>2 DEF RoleOK
<1>5. RoleOK(d, side[d], Tail(net[d]))
  BY <1>1, <1>4, InboxFacts
<1>6. UpTo(side[d], Tail(net[d]), got[d], side[Other(d)].local)
  BY <1>2, <1>3 DEF UpTo
<1>7. InOrder(side[d], net[d], got[d]) => InOrder(side[d], Tail(net[d]), got[d])
  <2> SUFFICES ASSUME InOrder(side[d], net[d], got[d]),
                      NEW j \in DOMAIN Tail(net[d]), Tail(net[d])[j].type # "candidate"
               PROVE  /\ side[d].remote < Tail(net[d])[j].n
                      /\ \A n \in got[d] : n < Tail(net[d])[j].n
                      /\ \A i \in DOMAIN side[d].chain : \A n \in Numbers(side[d].chain[i]) : n < Tail(net[d])[j].n
                      /\ \A i \in DOMAIN Tail(net[d]) : i < j => Tail(net[d])[i].n < Tail(net[d])[j].n
    BY DEF InOrder
  <2>1. j + 1 \in DOMAIN net[d] /\ Tail(net[d])[j] = net[d][j + 1]
    BY <1>3
  <2>2. DOMAIN Tail(net[d]) \subseteq Nat
    BY <1>3
  <2>3. /\ side[d].remote < net[d][j + 1].n
        /\ \A n \in got[d] : n < net[d][j + 1].n
        /\ \A i \in DOMAIN side[d].chain : \A n \in Numbers(side[d].chain[i]) : n < net[d][j + 1].n
        /\ \A i \in DOMAIN net[d] : i < j + 1 => net[d][i].n < net[d][j + 1].n
    BY <2>1 DEF InOrder
  <2>4. ASSUME NEW i \in DOMAIN Tail(net[d]), i < j PROVE Tail(net[d])[i].n < Tail(net[d])[j].n
    <3>1. i + 1 < j + 1 /\ i + 1 \in DOMAIN net[d] /\ Tail(net[d])[i] = net[d][i + 1]
      BY <1>3, <2>2, <2>4
    <3> QED BY <2>1, <2>3, <3>1
  <2> QED BY <2>1, <2>3, <2>4
<1>8. LineOK(side[d], Tail(net[d]), got[d])
  BY <1>2, <1>7 DEF LineOK
<1>9. Made <= Made /\ side[d].local <= side[d].local
  BY <1>2, SessionTyped
<1> QED BY <1>2, <1>3, <1>5, <1>6, <1>8, <1>9 DEF Sound

LEMMA OfferArrives ==
  ASSUME IInv, NEW d \in Side, net[d] # <<>>, NEW m, m = Head(net[d]),
         m.type = "offer", side[d].life # "closed"
  PROVE  Sound(d, HandleOffer(side[d], m.n), Tail(net[d]), got[d])
<1>1. /\ Made \in Nat /\ side[d] \in SessionsTo(Made) /\ LineOK(side[d], net[d], got[d])
      /\ got[d] \in SUBSET (0..Made) /\ RoleOK(d, side[d], net[d])
  BY SideFacts
<1>2. m.n \in 0..Made /\ d # "initiator" /\ AnswerOK(side[d]) /\ Flagged(side[d])
  BY <1>1, InboxFacts DEF RoleOK, LineOK
<1>3. PICK x : x = Op("takeOffer", m.n)
  OBVIOUS
<1>4. /\ x \in OpsTo(Made) /\ x.op = "takeOffer" /\ x.n = m.n /\ x.then = "none" /\ Cands(x) = {}
      /\ Numbers(x) \subseteq {m.n}
  <2>1. "takeOffer" \in Operations \ {"add"}
    BY DEF Operations
  <2>2. x \in OpsTo(Made) /\ x.op = "takeOffer" /\ x.n = m.n /\ x.then = "none" /\ Cands(x) = {}
    BY <1>1, <1>2, <1>3, <2>1, OpMade
  <2> QED BY <2>2 DEF Numbers
<1>5. PICK u : u = [side[d] EXCEPT !.life = "live", !.connectTimer = @ \/ ~side[d].isOpen]
  OBVIOUS
<1>6. u \in SessionsTo(Made)
  <2>1. PICK b \in BOOLEAN : b = (side[d].connectTimer \/ ~side[d].isOpen)
    OBVIOUS
  <2>2. u = [side[d] EXCEPT !.life = "live", !.connectTimer = b]
    BY <1>5, <2>1
  <2> QED BY <1>1, <2>2 DEF SessionsTo
<1>7. /\ u.chain = side[d].chain /\ u.offers = side[d].offers /\ u.life = "live"
      /\ u.remote = side[d].remote /\ u.local = side[d].local /\ u.created = side[d].created
      /\ u.pendingCandidates = side[d].pendingCandidates /\ u.added = side[d].added
      /\ u.remoteDescriptionSet = side[d].remoteDescriptionSet /\ u.signaling = side[d].signaling
  BY <1>1, <1>5 DEF SessionsTo
<1>8. PICK t : t = Call(u, x)
  OBVIOUS
<1>9. /\ t \in SessionsTo(Made) /\ t.chain = Append(u.chain, x)
      /\ \A i \in DOMAIN u.chain : i \in DOMAIN t.chain /\ t.chain[i] = u.chain[i]
      /\ t.offers = u.offers /\ t.life = u.life
      /\ t.remote = u.remote /\ t.local = u.local /\ t.created = u.created
      /\ t.pendingCandidates = u.pendingCandidates /\ t.added = u.added
      /\ t.remoteDescriptionSet = u.remoteDescriptionSet /\ t.signaling = u.signaling
  <2> DEFINE N == Made
  <2>1. N \in Nat /\ u \in SessionsTo(N) /\ x \in OpsTo(N) /\ t = Call(u, x)
    BY <1>1, <1>4, <1>6, <1>8
  <2> HIDE DEF N
  <2> QED BY <2>1, CallFacts DEF N
<1>10. Flagged(t)
  BY <1>2, <1>7, <1>9 DEF Flagged
<1>11. AnswerOK(t)
  BY <1>1, <1>2, <1>4, <1>7, <1>9, AnswerAppend DEF Offering
<1>12. Sound(d, t, Tail(net[d]), got[d])
  <2>1. /\ t.life # "closed" /\ t.offers = side[d].offers
        /\ t.local = side[d].local /\ t.remote = side[d].remote /\ t.added = side[d].added
        /\ t.chain = Append(side[d].chain, x) /\ t.pendingCandidates = side[d].pendingCandidates
    BY <1>7, <1>9
  <2>2. IF d = "initiator" THEN OfferOK(t) ELSE AnswerOK(t)
    BY <1>2, <1>11
  <2>3. m.n \notin got[d]
    <3>1. net[d] \in Seq(SignalsTo(Made)) /\ InOrder(side[d], net[d], got[d])
      BY <1>1, SideFacts DEF LineOK
    <3>2. m = net[d][1] /\ 1 \in DOMAIN net[d]
      BY <3>1, TailFacts
    <3>3. \A n \in got[d] : n < m.n
      BY <3>1, <3>2 DEF InOrder
    <3> QED BY <1>1, <1>2, <3>3
  <2> QED BY <1>4, <1>9, <1>10, <2>1, <2>2, <2>3, ReceiveSound
<1> QED BY <1>3, <1>5, <1>8, <1>12 DEF HandleOffer

LEMMA AnswerArrives ==
  ASSUME IInv, NEW d \in Side, net[d] # <<>>, NEW m, m = Head(net[d]),
         m.type = "answer", side[d].life = "live"
  PROVE  Sound(d, HandleAnswer(side[d], m.n), Tail(net[d]), got[d])
<1>1. /\ Made \in Nat /\ side[d] \in SessionsTo(Made) /\ LineOK(side[d], net[d], got[d])
      /\ got[d] \in SUBSET (0..Made) /\ RoleOK(d, side[d], net[d])
  BY SideFacts
<1>2. m.n \in 0..Made /\ d = "initiator" /\ OfferOK(side[d]) /\ Flagged(side[d])
  BY <1>1, InboxFacts DEF RoleOK, LineOK
<1>3. PICK x : x = Op("takeAnswer", m.n)
  OBVIOUS
<1>4. /\ x \in OpsTo(Made) /\ x.op = "takeAnswer" /\ x.n = m.n /\ x.then = "none" /\ Cands(x) = {}
      /\ Numbers(x) \subseteq {m.n}
  <2>1. "takeAnswer" \in Operations \ {"add"}
    BY DEF Operations
  <2>2. x \in OpsTo(Made) /\ x.op = "takeAnswer" /\ x.n = m.n /\ x.then = "none" /\ Cands(x) = {}
    BY <1>1, <1>2, <1>3, <2>1, OpMade
  <2> QED BY <2>2 DEF Numbers
<1>5. PICK t : t = Call(side[d], x)
  OBVIOUS
<1>6. /\ t \in SessionsTo(Made) /\ t.chain = Append(side[d].chain, x)
      /\ \A i \in DOMAIN side[d].chain : i \in DOMAIN t.chain /\ t.chain[i] = side[d].chain[i]
      /\ t.offers = side[d].offers /\ t.life = side[d].life
      /\ t.remote = side[d].remote /\ t.local = side[d].local
      /\ t.pendingCandidates = side[d].pendingCandidates /\ t.added = side[d].added
      /\ t.remoteDescriptionSet = side[d].remoteDescriptionSet /\ t.signaling = side[d].signaling
  <2> DEFINE N == Made
             s == side[d]
  <2>1. N \in Nat /\ s \in SessionsTo(N) /\ x \in OpsTo(N) /\ t = Call(s, x)
    BY <1>1, <1>4, <1>5
  <2> HIDE DEF N, s
  <2> QED BY <2>1, CallFacts DEF N, s
<1>7. Flagged(t)
  BY <1>2, <1>6 DEF Flagged
<1>8. OfferOK(t)
  BY <1>1, <1>2, <1>4, <1>6, OfferAppend DEF Offering, Answering
<1>9. Sound(d, t, Tail(net[d]), got[d])
  <2>1. t.life # "closed"
    BY <1>6
  <2>2. IF d = "initiator" THEN OfferOK(t) ELSE AnswerOK(t)
    BY <1>2, <1>8
  <2>3. m.n \notin got[d]
    <3>1. net[d] \in Seq(SignalsTo(Made)) /\ InOrder(side[d], net[d], got[d])
      BY <1>1, SideFacts DEF LineOK
    <3>2. m = net[d][1] /\ 1 \in DOMAIN net[d]
      BY <3>1, TailFacts
    <3>3. \A n \in got[d] : n < m.n
      BY <3>1, <3>2 DEF InOrder
    <3> QED BY <1>1, <1>2, <3>3
  <2> QED BY <1>4, <1>6, <1>7, <2>1, <2>2, <2>3, ReceiveSound
<1> QED BY <1>3, <1>5, <1>9 DEF HandleAnswer

LEMMA CandidateArrives ==
  ASSUME IInv, NEW d \in Side, net[d] # <<>>, NEW m, m = Head(net[d]),
         m.type = "candidate", side[d].life = "live"
  PROVE  Sound(d, HandleCandidate(side[d], m.n), Tail(net[d]), got[d] \cup {m.n})
<1>1. /\ Made \in Nat /\ side[d] \in SessionsTo(Made) /\ LineOK(side[d], net[d], got[d])
      /\ got[d] \in SUBSET (0..Made) /\ RoleOK(d, side[d], net[d])
  BY SideFacts
<1>2. m.n \in 0..Made /\ Flagged(side[d])
      /\ (IF d = "initiator" THEN OfferOK(side[d]) ELSE AnswerOK(side[d]))
  BY <1>1, InboxFacts DEF RoleOK, LineOK
<1>3. CASE side[d].remoteDescriptionSet
  <2>1. PICK x : x = [op |-> "add", n |-> m.n, rest |-> <<>>, then |-> "none"]
    OBVIOUS
  <2>2. x \in OpsTo(Made) /\ x.op = "add" /\ x.then = "none" /\ Cands(x) = {m.n} /\ Numbers(x) = {m.n}
    <3> DEFINE K == 0..Made
    <3>1. OpsTo(Made) = [op : Operations, n : K, rest : Seq(K), then : {"none", "createAnswer"}]
          /\ m.n \in K
      BY <1>2 DEF OpsTo
    <3> HIDE DEF K
    <3>2. x \in OpsTo(Made)
      BY <2>1, <3>1 DEF Operations
    <3>3. Cands(x) = {m.n}
      BY <2>1 DEF Cands
    <3> QED BY <2>1, <3>2, <3>3 DEF Numbers, Takes
  <2>3. PICK t : t = Call(side[d], x)
    OBVIOUS
  <2>4. /\ t \in SessionsTo(Made) /\ t.chain = Append(side[d].chain, x)
        /\ \A i \in DOMAIN side[d].chain : i \in DOMAIN t.chain /\ t.chain[i] = side[d].chain[i]
        /\ t.offers = side[d].offers /\ t.life = side[d].life
        /\ t.remote = side[d].remote /\ t.local = side[d].local /\ t.created = side[d].created
        /\ t.pendingCandidates = side[d].pendingCandidates /\ t.added = side[d].added
        /\ t.remoteDescriptionSet = side[d].remoteDescriptionSet /\ t.signaling = side[d].signaling
    <3> DEFINE N == Made
               s == side[d]
    <3>1. N \in Nat /\ s \in SessionsTo(N) /\ x \in OpsTo(N) /\ t = Call(s, x)
      BY <1>1, <2>2, <2>3
    <3> HIDE DEF N, s
    <3> QED BY <3>1, CallFacts DEF N, s
  <2>5. Flagged(t)
    BY <1>2, <2>4 DEF Flagged
  <2>6. IF d = "initiator" THEN OfferOK(t) ELSE AnswerOK(t)
    <3>1. CASE d = "initiator"
      BY <1>1, <1>2, <2>2, <2>4, <3>1, OfferAppend DEF Offering, Answering
    <3>2. CASE d # "initiator"
      BY <1>1, <1>2, <2>2, <2>4, <3>2, AnswerAppend DEF Offering
    <3> QED BY <3>1, <3>2
  <2>7. Sound(d, t, Tail(net[d]), got[d] \cup {m.n})
    <3>1. PICK come : come = got[d] \cup {m.n}
      OBVIOUS
    <3>2. Cands(x) \subseteq come /\ m.n \in Cands(x) /\ Numbers(x) \subseteq {m.n}
          /\ x.op \notin Takes /\ t.life # "closed"
      BY <2>2, <2>4, <3>1 DEF Takes
    <3>3. Sound(d, t, Tail(net[d]), come)
      BY <2>2, <2>4, <2>5, <2>6, <3>1, <3>2, ReceiveSound
    <3> QED BY <3>1, <3>3
  <2>8. t = HandleCandidate(side[d], m.n)
    <3>1. Head(<<m.n>>) = m.n /\ Tail(<<m.n>>) = <<>> /\ <<m.n>> # <<>>
      OBVIOUS
    <3>2. Add(side[d], <<m.n>>, "none") = Call(side[d], x)
      BY <2>1, <3>1 DEF Add
    <3> QED BY <1>3, <2>3, <3>2 DEF HandleCandidate
  <2> QED BY <2>7, <2>8
<1>4. CASE ~side[d].remoteDescriptionSet
  <2>1. PICK t : t = [side[d] EXCEPT !.pendingCandidates = Append(@, m.n)]
    OBVIOUS
  <2>2. t \in SessionsTo(Made)
    <3>1. Append(side[d].pendingCandidates, m.n) \in Seq(0..Made)
      <4>1. side[d].pendingCandidates \in Seq(0..Made)
        BY <1>1, SessionTyped
      <4> QED BY <1>2, <4>1, AppendFacts
    <3> QED BY <1>1, <2>1, <3>1 DEF SessionsTo
  <2>3. /\ t.chain = side[d].chain
        /\ t.offers = side[d].offers /\ t.life = side[d].life
        /\ t.remote = side[d].remote /\ t.local = side[d].local /\ t.created = side[d].created
        /\ t.pendingCandidates = Append(side[d].pendingCandidates, m.n) /\ t.added = side[d].added
        /\ t.remoteDescriptionSet = side[d].remoteDescriptionSet /\ t.signaling = side[d].signaling
    BY <1>1, <2>1 DEF SessionsTo
  <2>4. Flagged(t)
    BY <1>2, <1>4, <2>3 DEF Flagged
  <2>5. IF d = "initiator" THEN OfferOK(t) ELSE AnswerOK(t)
    BY <1>2, <2>3 DEF OfferOK, AnswerOK
  <2>6. Sound(d, t, Tail(net[d]), got[d] \cup {m.n})
    <3>1. PICK come : come = got[d] \cup {m.n}
      OBVIOUS
    <3>2. PICK x \in OpsTo(Made) : x.op = "createAnswer" /\ Cands(x) = {}
      <4>1. "createAnswer" \in Operations \ {"add"} /\ 0 \in 0..Made
        BY <1>1 DEF Operations
      <4> QED BY <1>1, <4>1, OpMade
    <3>3. Cands(x) \subseteq come /\ Numbers(x) \subseteq {m.n} /\ x.op \notin Takes
          /\ t.life # "closed" /\ m.n \in come
      BY <2>3, <3>1, <3>2 DEF Takes, Numbers
    <3>4. Sound(d, t, Tail(net[d]), come)
      BY <2>2, <2>3, <2>4, <2>5, <3>1, <3>2, <3>3, ReceiveSound
    <3> QED BY <3>1, <3>4
  <2> QED BY <1>4, <2>1, <2>6 DEF HandleCandidate
<1> QED BY <1>3, <1>4

LEMMA ReceiveKeeps ==
  ASSUME IInv, NEW d \in Side, Receive(d)
  PROVE  IInv'
<1>1. PICK m : m = Head(net[d])
  OBVIOUS
<1>2. PICK come : come = IF m.type = "candidate" /\ side[d].life = "live" THEN got[d] \cup {m.n} ELSE got[d]
  OBVIOUS
<1>3. net[d] # <<>> /\ Become(d, Handle(d, side[d], m)) /\ net' = [net EXCEPT ![d] = Tail(@)]
      /\ got' = [got EXCEPT ![d] = come] /\ UNCHANGED blips
  BY <1>1, <1>2 DEF Receive
<1>4. Sound(d, Handle(d, side[d], m), Tail(net[d]), come)
  <2>1. CASE m.type = "offer" /\ side[d].life # "closed"
    <3>1. Handle(d, side[d], m) = HandleOffer(side[d], m.n) /\ come = got[d]
      BY <1>2, <2>1 DEF Handle
    <3> QED BY <1>1, <1>3, <2>1, <3>1, OfferArrives
  <2>2. CASE m.type = "answer" /\ side[d].life = "live"
    <3>1. Handle(d, side[d], m) = HandleAnswer(side[d], m.n) /\ come = got[d]
      BY <1>2, <2>2 DEF Handle
    <3> QED BY <1>1, <1>3, <2>2, <3>1, AnswerArrives
  <2>3. CASE m.type = "candidate" /\ side[d].life = "live"
    <3>1. Handle(d, side[d], m) = HandleCandidate(side[d], m.n) /\ come = got[d] \cup {m.n}
      BY <1>2, <2>3 DEF Handle
    <3> QED BY <1>1, <1>3, <2>3, <3>1, CandidateArrives
  <2>4. CASE /\ ~(m.type = "offer" /\ side[d].life # "closed")
             /\ ~(m.type = "answer" /\ side[d].life = "live")
             /\ ~(m.type = "candidate" /\ side[d].life = "live")
    <3>1. Handle(d, side[d], m) = side[d] /\ come = got[d]
      BY <1>2, <2>4 DEF Handle
    <3> QED BY <1>3, <3>1, DroppedSound
  <2> QED BY <2>1, <2>2, <2>3, <2>4
<1> QED BY <1>3, <1>4, ReceiveSteps

-----------------------------------------------------------------------------
(* The connection, losses and restarts.                                    *)

\* Nothing comes and nothing is taken.
LEMMA LineWaits ==
  ASSUME NEW N \in Nat, NEW s \in SessionsTo(N), NEW inbox, NEW came, NEW l,
         NEW x \in OpsTo(N), x.op \notin Takes, Cands(x) = {},
         NEW t, t.chain = s.chain \/ t.chain = Append(s.chain, x),
         t.remote = s.remote, t.added = s.added, t.pendingCandidates = s.pendingCandidates
  PROVE  /\ InOrder(s, inbox, came) => InOrder(t, inbox, came)
         /\ Kept(s, came) => Kept(t, came)
         /\ UpTo(s, inbox, came, l) => UpTo(t, inbox, came, l)
<1> DEFINE q == s.chain
           r == t.chain
<1>1. q \in Seq(OpsTo(N)) /\ (r = q \/ r = Append(q, x))
  BY SessionTyped
<1> HIDE DEF q, r
<1>2. /\ r \in Seq(OpsTo(N))
      /\ \A i \in DOMAIN q : i \in DOMAIN r /\ r[i] = q[i]
      /\ \A i \in DOMAIN r : (i \in DOMAIN q /\ r[i] = q[i]) \/ (r[i] = x /\ \A j \in DOMAIN r : j <= i)
  <2>1. CASE r = q
    BY <1>1, <2>1
  <2>2. CASE r = Append(q, x)
    <3>1. /\ r \in Seq(OpsTo(N)) /\ Len(q) + 1 \in DOMAIN r /\ r[Len(q) + 1] = x
          /\ \A i \in DOMAIN q : i \in DOMAIN r /\ r[i] = q[i] /\ i < Len(q) + 1
          /\ \A i \in DOMAIN r : i \in DOMAIN q \/ i = Len(q) + 1
      BY <1>1, <2>2, AppendFacts
    <3>2. \A i \in DOMAIN r : i <= Len(q) + 1
      BY <1>1, <3>1
    <3> QED BY <3>1, <3>2
  <2> QED BY <1>1, <2>1, <2>2
<1>3. Numbers(x) = {}
  BY DEF Numbers
<1>4. ASSUME InOrder(s, inbox, came) PROVE InOrder(t, inbox, came)
  <2>1. \A i \in DOMAIN r : \A n \in Numbers(r[i]) : i \in DOMAIN q /\ r[i] = q[i]
    BY <1>2, <1>3
  <2>2. \A j \in DOMAIN r : r[j].op \in Takes => j \in DOMAIN q /\ r[j] = q[j]
    BY <1>2
  <2> QED BY <1>4, <2>1, <2>2 DEF InOrder, q, r
<1>5. ASSUME Kept(s, came) PROVE Kept(t, came)
  <2>1. \A n : Dead(s, n) => Dead(t, n)
    BY <1>2 DEF Dead, q, r
  <2> QED BY <1>2, <1>5, <2>1 DEF Kept, q, r
<1>6. ASSUME UpTo(s, inbox, came, l) PROVE UpTo(t, inbox, came, l)
  BY <1>2, <1>3, <1>6 DEF UpTo, q, r
<1> QED BY <1>4, <1>5, <1>6

\* What the negotiation does not look at may change.
LEMMA StillSound ==
  ASSUME IInv, NEW d \in Side, NEW t \in SessionsTo(Made),
         t.life = side[d].life, t.offers = side[d].offers, t.chain = side[d].chain,
         t.signaling = side[d].signaling, t.local = side[d].local, t.remote = side[d].remote,
         t.created = side[d].created, t.added = side[d].added,
         t.pendingCandidates = side[d].pendingCandidates,
         t.remoteDescriptionSet = side[d].remoteDescriptionSet
  PROVE  Sound(d, t, net[d], got[d])
<1>1. /\ Made \in Nat /\ side[d] \in SessionsTo(Made) /\ net[d] \in Seq(SignalsTo(Made))
      /\ got[d] \in SUBSET (0..Made)
      /\ LineOK(side[d], net[d], got[d])
      /\ UpTo(side[d], net[d], got[d], side[Other(d)].local)
      /\ RoleOK(d, side[d], net[d])
      /\ d = "initiator" => Made = side[d].offers
  BY SideFacts
<1>2. LineOK(t, net[d], got[d])
  BY <1>1 DEF LineOK, InOrder, Kept, Dead, Flagged
<1>3. UpTo(t, net[d], got[d], side[Other(d)].local)
  BY <1>1 DEF UpTo
<1>4. RoleOK(d, t, net[d])
  BY <1>1 DEF RoleOK, OfferOK, AnswerOK
<1>5. side[d].local <= t.local /\ Made <= Made
  <2>1. side[d].local \in Nat
    BY <1>1, SessionTyped
  <2> QED BY <1>1, <2>1
<1> QED BY <1>1, <1>2, <1>3, <1>4, <1>5 DEF Sound

LEMMA GatherKeeps ==
  ASSUME IInv, NEW d \in Side, Gather(d)
  PROVE  IInv'
<1>1. Made \in Nat /\ side[d] \in SessionsTo(Made) /\ blips \in [Side -> 0..MaxBlips]
  BY SideFacts
<1>2. PICK t : t = [side[d] EXCEPT !.gathered = side[d].local]
  OBVIOUS
<1>3. t \in SessionsTo(Made)
  <2>1. side[d].local \in 0..Made
    BY <1>1, SessionTyped
  <2> QED BY <1>1, <1>2, <2>1 DEF SessionsTo
<1>4. /\ t.life = side[d].life /\ t.offers = side[d].offers /\ t.chain = side[d].chain
      /\ t.signaling = side[d].signaling /\ t.local = side[d].local /\ t.remote = side[d].remote
      /\ t.created = side[d].created /\ t.added = side[d].added
      /\ t.pendingCandidates = side[d].pendingCandidates
      /\ t.remoteDescriptionSet = side[d].remoteDescriptionSet
  BY <1>1, <1>2 DEF SessionsTo
<1>5. Sound(d, t, net[d], got[d])
  BY <1>3, <1>4, StillSound
<1>6. Become(d, t) /\ Signal(d, "candidate", t.local) /\ UNCHANGED <<blips, got>>
  BY <1>2, <1>4 DEF Gather
<1> QED BY <1>1, <1>5, <1>6, SideSteps

LEMMA SignalsLostKeeps ==
  ASSUME IInv, NEW d \in Side, SignalsLost(d)
  PROVE  IInv'
<1> DEFINE e == Other(d)
<1>1. /\ Made \in Nat /\ side[d] \in SessionsTo(Made) /\ net[d] \in Seq(SignalsTo(Made))
      /\ got[d] \in SUBSET (0..Made)
      /\ LineOK(side[d], net[d], got[d])
      /\ UpTo(side[d], net[d], got[d], side[Other(d)].local)
      /\ RoleOK(d, side[d], net[d])
      /\ d = "initiator" => Made = side[d].offers
  BY SideFacts
<1>2. /\ <<>> \in Seq(SignalsTo(Made)) /\ DOMAIN <<>> = {}
  OBVIOUS
<1>3. LineOK(side[d], <<>>, got[d])
  BY <1>1, <1>2 DEF LineOK, InOrder
<1>4. UpTo(side[d], <<>>, got[d], side[Other(d)].local) /\ RoleOK(d, side[d], <<>>)
  BY <1>1, <1>2 DEF UpTo, RoleOK
<1>5. side[d].local <= side[d].local /\ Made <= Made
  <2>1. side[d].local \in Nat
    BY <1>1, SessionTyped
  <2> QED BY <1>1, <2>1
<1>6. Sound(d, side[d], <<>>, got[d])
  BY <1>1, <1>2, <1>3, <1>4, <1>5 DEF Sound
<1>7. /\ net \in [Side -> Seq(SignalsTo(Made))] /\ got \in [Side -> SUBSET (0..Made)]
      /\ side \in [Side -> SessionsTo(Made)] /\ blips' \in [Side -> 0..MaxBlips]
      /\ e \in Side /\ e # d
  BY DEF IInv, Typed, SignalsLost, Other, Side
<1>8. /\ side' = [side EXCEPT ![d] = side[d]] /\ got' = [got EXCEPT ![d] = got[d]]
      /\ net' = [net EXCEPT ![d] = <<>>, ![Other(d)] = net[e]]
  BY <1>7 DEF SignalsLost
<1> QED BY <1>6, <1>7, <1>8, SideChanges

LEMMA ConnectsKeeps ==
  ASSUME IInv, NEW d \in Side, Connects(d)
  PROVE  IInv'
<1>1. Made \in Nat /\ side[d] \in SessionsTo(Made) /\ blips \in [Side -> 0..MaxBlips]
  BY SideFacts
<1>2. PICK t : t = [side[d] EXCEPT !.conn = "connected"]
  OBVIOUS
<1>3. t \in SessionsTo(Made)
  BY <1>1, <1>2 DEF SessionsTo
<1>4. /\ t.life = side[d].life /\ t.offers = side[d].offers /\ t.chain = side[d].chain
      /\ t.signaling = side[d].signaling /\ t.local = side[d].local /\ t.remote = side[d].remote
      /\ t.created = side[d].created /\ t.added = side[d].added
      /\ t.pendingCandidates = side[d].pendingCandidates
      /\ t.remoteDescriptionSet = side[d].remoteDescriptionSet
  BY <1>1, <1>2 DEF SessionsTo
<1>5. Sound(d, t, net[d], got[d])
  BY <1>3, <1>4, StillSound
<1>6. Become(d, t) /\ UNCHANGED <<net, blips, got>>
  BY <1>2 DEF Connects
<1> QED BY <1>1, <1>5, <1>6, SideSteps

LEMMA ChannelOpensKeeps ==
  ASSUME IInv, NEW d \in Side, ChannelOpens(d)
  PROVE  IInv'
<1>1. Made \in Nat /\ side[d] \in SessionsTo(Made) /\ blips \in [Side -> 0..MaxBlips]
  BY SideFacts
<1>2. PICK t : t = [side[d] EXCEPT !.isOpen = TRUE, !.restartAttempts = 0, !.connectTimer = FALSE]
  OBVIOUS
<1>3. t \in SessionsTo(Made)
  <2>1. 0 \in 0..MaxRestarts
    BY LinkAssumption
  <2> QED BY <1>1, <1>2, <2>1 DEF SessionsTo
<1>4. /\ t.life = side[d].life /\ t.offers = side[d].offers /\ t.chain = side[d].chain
      /\ t.signaling = side[d].signaling /\ t.local = side[d].local /\ t.remote = side[d].remote
      /\ t.created = side[d].created /\ t.added = side[d].added
      /\ t.pendingCandidates = side[d].pendingCandidates
      /\ t.remoteDescriptionSet = side[d].remoteDescriptionSet
  BY <1>1, <1>2 DEF SessionsTo
<1>5. Sound(d, t, net[d], got[d])
  BY <1>3, <1>4, StillSound
<1>6. Become(d, t) /\ UNCHANGED <<net, blips, got>>
  BY <1>2 DEF ChannelOpens
<1> QED BY <1>1, <1>5, <1>6, SideSteps

\* The initiator calls createOffer() for a new offer.
Reoffered(u, n) == [u EXCEPT !.remoteDescriptionSet = FALSE, !.offers = n]
Restarted(u, n) == Call(Reoffered(u, n), Op("createOffer", n))

LEMMA RestartTyped ==
  ASSUME NEW n \in Nat, NEW u \in SessionsTo(n),
         NEW v, v = Reoffered(u, n)
  PROVE  v \in SessionsTo(n)
<1>1. PICK w : w = [u EXCEPT !.remoteDescriptionSet = FALSE]
  OBVIOUS
<1>2. w \in SessionsTo(n)
  BY <1>1 DEF SessionsTo
<1>3. v = [w EXCEPT !.offers = n] /\ n \in 0..n
  BY <1>1 DEF Reoffered
<1> QED BY <1>2, <1>3 DEF SessionsTo

LEMMA RestartSound ==
  ASSUME IInv, NEW d \in Side, d = "initiator", side[d].life = "live",
         NEW u \in SessionsTo(Made),
         u.life = side[d].life, u.chain = side[d].chain, u.offers = side[d].offers,
         u.signaling = side[d].signaling, u.local = side[d].local, u.remote = side[d].remote,
         u.added = side[d].added, u.pendingCandidates = side[d].pendingCandidates,
         NEW n, n = side[d].offers + 1,
         NEW t, t = Restarted(u, n)
  PROVE  Sound(d, t, net[d], got[d])
<1>1. /\ Made \in Nat /\ side[d] \in SessionsTo(Made) /\ net[d] \in Seq(SignalsTo(Made))
      /\ got[d] \in SUBSET (0..Made)
      /\ LineOK(side[d], net[d], got[d])
      /\ UpTo(side[d], net[d], got[d], side[Other(d)].local)
      /\ RoleOK(d, side[d], net[d]) /\ Made = side[d].offers
  BY SideFacts
<1>2. n \in Nat /\ Made < n /\ Made <= n /\ n \in 0..n
  BY <1>1
<1>3. SessionsTo(Made) \subseteq SessionsTo(n)
  BY <1>1, <1>2, TypesMonotone
<1>4. PICK x : x = Op("createOffer", n)
  OBVIOUS
<1>5. x \in OpsTo(n) /\ x.op = "createOffer" /\ x.n = n /\ x.then = "none" /\ Cands(x) = {}
  <2>1. "createOffer" \in Operations \ {"add"}
    BY DEF Operations
  <2> QED BY <1>2, <1>4, <2>1, OpMade
<1>6. PICK v : v = Reoffered(u, n)
  OBVIOUS
<1>7. v \in SessionsTo(n)
  <2>1. u \in SessionsTo(n)
    BY <1>3
  <2> QED BY <1>2, <1>6, <2>1, RestartTyped
<1>8. /\ v.life = "live" /\ v.chain = side[d].chain /\ v.offers = n
      /\ v.local = side[d].local /\ v.remote = side[d].remote
      /\ v.added = side[d].added /\ v.pendingCandidates = side[d].pendingCandidates
      /\ v.remoteDescriptionSet = FALSE
  BY <1>6 DEF SessionsTo, Reoffered
<1>9. t = Call(v, x)
  BY <1>4, <1>6 DEF Restarted
<1>10. /\ t \in SessionsTo(n) /\ t.chain = Append(v.chain, x)
       /\ \E i \in DOMAIN t.chain : t.chain[i] = x
       /\ t.offers = v.offers /\ t.life = v.life /\ t.remote = v.remote /\ t.local = v.local
       /\ t.pendingCandidates = v.pendingCandidates /\ t.added = v.added
       /\ t.remoteDescriptionSet = v.remoteDescriptionSet
  BY <1>2, <1>5, <1>7, <1>9, CallFacts
<1>11. /\ t.chain = Append(side[d].chain, x) /\ t.offers = n /\ t.life = "live"
       /\ t.remote = side[d].remote /\ t.local = side[d].local /\ t.added = side[d].added
       /\ t.pendingCandidates = side[d].pendingCandidates /\ t.remoteDescriptionSet = FALSE
  BY <1>8, <1>10
<1>12. /\ InOrder(side[d], net[d], got[d]) => InOrder(t, net[d], got[d])
       /\ Kept(side[d], got[d]) => Kept(t, got[d])
       /\ UpTo(side[d], net[d], got[d], side[Other(d)].local)
            => UpTo(t, net[d], got[d], side[Other(d)].local)
  <2> DEFINE w == side[d]
             inbox == net[d]
             came == got[d]
             l == side[Other(d)].local
  <2>1. w \in SessionsTo(n) /\ x.op \notin Takes
    BY <1>1, <1>3, <1>5 DEF Takes
  <2>2. /\ t.chain = Append(w.chain, x) /\ t.remote = w.remote /\ t.added = w.added
        /\ t.pendingCandidates = w.pendingCandidates
    BY <1>11
  <2> HIDE DEF w, inbox, came, l
  <2>3. /\ InOrder(w, inbox, came) => InOrder(t, inbox, came)
        /\ Kept(w, came) => Kept(t, came)
        /\ UpTo(w, inbox, came, l) => UpTo(t, inbox, came, l)
    BY <1>2, <1>5, <2>1, <2>2, LineWaits
  <2> QED BY <2>3 DEF w, inbox, came, l
<1>13. Flagged(t)
  BY <1>5, <1>10, <1>11 DEF Flagged, Offering
<1>14. LineOK(t, net[d], got[d])
  BY <1>1, <1>11, <1>12, <1>13 DEF LineOK
<1>15. OfferOK(t)
  <2>1. OfferOK(side[d]) /\ side[d] \in SessionsTo(n)
    BY <1>1, <1>3 DEF RoleOK
  <2>2. side[d].local < n
    <3>1. side[d].local \in 0..Made
      BY <1>1, SessionTyped
    <3> QED BY <1>1, <1>2, <3>1
  <2>3. ASSUME NEW i \in DOMAIN side[d].chain PROVE side[d].chain[i].n < n
    <3>1. side[d].chain \in Seq(OpsTo(Made))
      BY <1>1, SessionTyped
    <3>2. side[d].chain[i] \in OpsTo(Made)
      BY <3>1
    <3>3. side[d].chain[i].n \in 0..Made
      BY <1>1, <3>2, OpTyped
    <3> QED BY <1>1, <1>2, <3>3
  <2>4. t.life # "none" /\ x.op \notin Answering
    BY <1>5, <1>11 DEF Answering
  <2> QED BY <1>2, <1>5, <1>11, <2>1, <2>2, <2>3, <2>4, OfferAppend
<1>16. RoleOK(d, t, net[d])
  BY <1>1, <1>15 DEF RoleOK
<1>17. side[d].local <= t.local
  <2>1. side[d].local \in Nat
    BY <1>1, SessionTyped
  <2> QED BY <1>11, <2>1
<1> QED BY <1>1, <1>2, <1>10, <1>11, <1>12, <1>14, <1>16, <1>17 DEF Sound

LEMMA TryRecoverKeeps ==
  ASSUME IInv, NEW d \in Side, side[d].life = "live", NEW c \in {"disconnected", "failed"},
         TryRecover(d, [side[d] EXCEPT !.conn = c]), UNCHANGED <<net, got>>,
         blips' \in [Side -> 0..MaxBlips]
  PROVE  IInv'
<1>1. Made \in Nat /\ side[d] \in SessionsTo(Made)
  BY SideFacts
<1>2. PICK s : s = [side[d] EXCEPT !.conn = c]
  OBVIOUS
<1>3. s \in SessionsTo(Made)
  <2>1. s \in SessionsTo(Made)
    BY <1>1, <1>2 DEF SessionsTo
  <2> QED BY <2>1
<1>4. /\ s.life = side[d].life /\ s.offers = side[d].offers /\ s.chain = side[d].chain
      /\ s.signaling = side[d].signaling /\ s.local = side[d].local /\ s.remote = side[d].remote
      /\ s.created = side[d].created /\ s.added = side[d].added
      /\ s.pendingCandidates = side[d].pendingCandidates
      /\ s.remoteDescriptionSet = side[d].remoteDescriptionSet
  BY <1>1, <1>2 DEF SessionsTo
<1>5. TryRecover(d, s)
  BY <1>2
<1>6. CASE RestartsUsedUp(s)
  <2>1. Become(d, GiveUp(s))
    BY <1>5, <1>6 DEF TryRecover
  <2>2. Sound(d, GiveUp(s), net[d], got[d])
    BY <1>3, <1>4, GiveUpSound
  <2> QED BY <2>1, <2>2, SideSteps
<1>7. CASE ~RestartsUsedUp(s)
  <2>1. PICK u : u = [s EXCEPT !.restartAttempts = @ + 1]
    OBVIOUS
  <2>2. u \in SessionsTo(Made)
    <3>1. s.restartAttempts \in 0..MaxRestarts /\ MaxRestarts \in Nat
      BY <1>1, <1>3, SessionTyped, LinkAssumption
    <3>2. s.restartAttempts + 1 \in 0..MaxRestarts
      BY <1>7, <3>1 DEF RestartsUsedUp
    <3> QED BY <1>3, <2>1, <3>2 DEF SessionsTo
  <2>3. /\ u.life = s.life /\ u.offers = s.offers /\ u.chain = s.chain
        /\ u.signaling = s.signaling /\ u.local = s.local /\ u.remote = s.remote
        /\ u.created = s.created /\ u.added = s.added
        /\ u.pendingCandidates = s.pendingCandidates
        /\ u.remoteDescriptionSet = s.remoteDescriptionSet
    BY <1>3, <2>1 DEF SessionsTo
  <2>4. CASE d = "initiator"
    <3>1. PICK n : n = side[d].offers + 1
      OBVIOUS
    <3>2. PICK t : t = Restarted(u, n)
      OBVIOUS
    <3>3. Become(d, t)
      BY <1>4, <1>5, <1>7, <2>1, <2>4, <3>1, <3>2 DEF TryRecover, Restarted, Reoffered
    <3>4. Sound(d, t, net[d], got[d])
      BY <1>4, <2>2, <2>3, <2>4, <3>1, <3>2, RestartSound
    <3> QED BY <3>3, <3>4, SideSteps
  <2>5. CASE d # "initiator"
    <3>1. Become(d, u)
      BY <1>5, <1>7, <2>1, <2>5 DEF TryRecover
    <3>2. Sound(d, u, net[d], got[d])
      BY <1>4, <2>2, <2>3, StillSound
    <3> QED BY <3>1, <3>2, SideSteps
  <2> QED BY <2>4, <2>5
<1> QED BY <1>6, <1>7

LEMMA GiveUpKeeps ==
  ASSUME IInv, NEW d \in Side, side[d].life = "live", Become(d, GiveUp(side[d])),
         UNCHANGED <<net, blips, got>>
  PROVE  IInv'
<1>1. side[d] \in SessionsTo(Made) /\ blips \in [Side -> 0..MaxBlips]
  BY SideFacts
<1>2. Sound(d, GiveUp(side[d]), net[d], got[d])
  BY <1>1, GiveUpSound
<1> QED BY <1>1, <1>2, SideSteps

-----------------------------------------------------------------------------
(* The theorems.                                                           *)

LEMMA InitIInv == Init => IInv
<1> SUFFICES ASSUME Init PROVE IInv
  OBVIOUS
<1>1. PICK x : x = Op("createOffer", 1)
  OBVIOUS
<1>2. PICK s : s = Session("live", <<x>>)
  OBVIOUS
<1>3. PICK t : t = Session("none", <<>>)
  OBVIOUS
<1>4. side = [d \in Side |-> IF d = "initiator" THEN s ELSE t]
  BY <1>1, <1>2, <1>3 DEF Init
<1>5. side["initiator"] = s /\ side["responder"] = t /\ Side = {"initiator", "responder"}
      /\ Other("initiator") = "responder" /\ Other("responder") = "initiator"
  BY <1>4 DEF Side, Other
<1>6. Len(<<x>>) = 1 /\ DOMAIN <<x>> = {1} /\ <<x>>[1] = x /\ <<x>> # <<>>
      /\ Len(<<>>) = 0 /\ DOMAIN <<>> = {}
  OBVIOUS
<1>7. 0 \in 0..1 /\ 1 \in 0..1 /\ 0 \in 0..MaxRestarts /\ 0 \in 0..MaxBlips /\ {} \in SUBSET (0..1)
  BY LinkAssumption
<1>8. x \in OpsTo(1) /\ x.op = "createOffer" /\ x.n = 1 /\ x.then = "none" /\ Cands(x) = {}
  <2>1. "createOffer" \in Operations \ {"add"}
    BY DEF Operations
  <2> QED BY <1>1, <1>7, <2>1, OpMade
<1>9. s \in SessionsTo(1) /\ t \in SessionsTo(1)
  <2>1. <<x>> \in Seq(OpsTo(1)) /\ <<>> \in Seq(OpsTo(1)) /\ <<>> \in Seq(0..1)
    BY <1>8
  <2> DEFINE K == 0..1
             O == Seq(OpsTo(1))
             P == Seq(0..1)
             R == 0..MaxRestarts
  <2>2. SessionsTo(1) =
          [life : {"none", "live", "closed"},
           signaling : {"stable", "have-local-offer", "have-remote-offer"},
           local : K, remote : K, created : K, added : SUBSET K, gathered : K,
           chain : O, conn : {"new", "connecting", "connected", "disconnected", "failed"},
           remoteDescriptionSet : BOOLEAN, pendingCandidates : P, restartAttempts : R,
           connectTimer : BOOLEAN, isOpen : BOOLEAN, offers : K]
    BY DEF SessionsTo
  <2>3. 0 \in K /\ 1 \in K /\ 0 \in R /\ <<x>> \in O /\ <<>> \in O /\ <<>> \in P /\ {} \in SUBSET K
    BY <1>7, <2>1
  <2>4. s = [life |-> "live", signaling |-> "stable", local |-> 0, remote |-> 0, created |-> 0,
             added |-> {}, gathered |-> 0, chain |-> <<x>>, conn |-> "new",
             remoteDescriptionSet |-> FALSE, pendingCandidates |-> <<>>, restartAttempts |-> 0,
             connectTimer |-> TRUE, isOpen |-> FALSE, offers |-> 1]
    BY <1>2, <1>6 DEF Session
  <2>5. t = [life |-> "none", signaling |-> "stable", local |-> 0, remote |-> 0, created |-> 0,
             added |-> {}, gathered |-> 0, chain |-> <<>>, conn |-> "new",
             remoteDescriptionSet |-> FALSE, pendingCandidates |-> <<>>, restartAttempts |-> 0,
             connectTimer |-> FALSE, isOpen |-> FALSE, offers |-> 0]
    BY <1>3, <1>6 DEF Session
  <2> HIDE DEF K, O, P, R
  <2> QED BY <2>2, <2>3, <2>4, <2>5
<1>10. /\ s.life = "live" /\ s.local = 0 /\ s.remote = 0 /\ s.chain = <<x>> /\ s.offers = 1
       /\ s.remoteDescriptionSet = FALSE /\ s.pendingCandidates = <<>> /\ s.added = {}
       /\ t.life = "none" /\ t.local = 0 /\ t.remote = 0 /\ t.chain = <<>> /\ t.created = 0
       /\ t.remoteDescriptionSet = FALSE /\ t.pendingCandidates = <<>> /\ t.signaling = "stable"
  BY <1>2, <1>3, <1>6 DEF Session
<1>11. Made = 1
  BY <1>5, <1>10 DEF Made
<1>12. \A d \in Side : net[d] = <<>> /\ got[d] = {}
  BY DEF Init
<1>13. Typed
  <2>1. side \in [Side -> SessionsTo(Made)]
    BY <1>4, <1>9, <1>11
  <2>2. <<>> \in Seq(SignalsTo(Made)) /\ {} \in SUBSET (0..Made)
    OBVIOUS
  <2> QED BY <1>7, <1>11, <2>1, <2>2 DEF Typed, Init
<1>14. Numbers(x) = {}
  BY <1>8 DEF Numbers, Takes
<1>15. LineOK(s, <<>>, {}) /\ LineOK(t, <<>>, {})
  <2>1. InOrder(s, <<>>, {}) /\ InOrder(t, <<>>, {})
    BY <1>6, <1>8, <1>10 DEF InOrder, Takes
  <2>2. Kept(s, {}) /\ Kept(t, {})
    BY <1>6, <1>8, <1>10 DEF Kept
  <2>3. Flagged(s) /\ Flagged(t)
    BY <1>10 DEF Flagged
  <2> QED BY <1>10, <2>1, <2>2, <2>3 DEF LineOK
<1>16. LineInv
  <2>1. ASSUME NEW d \in Side PROVE LineOK(side[d], net[d], got[d])
    <3>1. net[d] = <<>> /\ got[d] = {} /\ (side[d] = s \/ side[d] = t)
      BY <1>5, <1>12
    <3> QED BY <1>15, <3>1
  <2> QED BY <2>1 DEF LineInv
<1>17. UpTo(s, <<>>, {}, 0) /\ UpTo(t, <<>>, {}, 0)
  BY <1>6, <1>10, <1>14 DEF UpTo
<1>18. SentInv
  <2>1. ASSUME NEW d \in Side PROVE UpTo(side[d], net[d], got[d], side[Other(d)].local)
    <3>1. /\ net[d] = <<>> /\ got[d] = {} /\ (side[d] = s \/ side[d] = t)
          /\ side[Other(d)].local = 0
      BY <1>5, <1>10, <1>12
    <3> QED BY <1>17, <3>1
  <2> QED BY <2>1 DEF SentInv
<1>19. OfferOK(s) /\ AnswerOK(t)
  BY <1>6, <1>8, <1>10 DEF OfferOK, AnswerOK, Offering, Answering
<1>20. RoleInv
  BY <1>5, <1>6, <1>12, <1>19 DEF RoleInv, RoleOK
<1> QED BY <1>13, <1>16, <1>18, <1>20 DEF IInv

LEMMA StepKeepsIInv == IInv /\ [Next]_vars => IInv'
<1> SUFFICES ASSUME IInv, [Next]_vars PROVE IInv'
  OBVIOUS
<1>1. CASE Vanishes
  <2>1. "responder" \in Side
    BY DEF Side
  <2> QED BY <1>1, <2>1, GiveUpKeeps DEF Vanishes
<1>2. ASSUME NEW d \in Side, Step(d) PROVE IInv'
  <2>1. CASE OpEnds(d)
    BY <2>1, OpEndsKeeps
  <2>2. CASE Receive(d)
    BY <2>2, ReceiveKeeps
  <2>3. CASE Gather(d)
    BY <2>3, GatherKeeps
  <2>4. CASE SignalsLost(d)
    BY <2>4, SignalsLostKeeps
  <2>5. CASE Connects(d)
    BY <2>5, ConnectsKeeps
  <2>6. CASE ChannelOpens(d)
    BY <2>6, ChannelOpensKeeps
  <2>7. CASE Disconnects(d)
    <3>1. blips' \in [Side -> 0..MaxBlips]
      <4>1. blips \in [Side -> 0..MaxBlips] /\ MaxBlips \in Nat
        BY SideFacts, LinkAssumption
      <4>2. blips[d] + 1 \in 0..MaxBlips
        BY <2>7, <4>1 DEF Disconnects
      <4> QED BY <2>7, <4>1, <4>2 DEF Disconnects
    <3> QED BY <2>7, <3>1, TryRecoverKeeps DEF Disconnects
  <2>8. CASE Fails(d)
    <3>1. blips' \in [Side -> 0..MaxBlips]
      BY <2>8, SideFacts DEF Fails
    <3> QED BY <2>8, <3>1, TryRecoverKeeps DEF Fails
  <2>9. CASE ConnectTimeout(d)
    BY <2>9, GiveUpKeeps DEF ConnectTimeout
  <2> QED BY <1>2, <2>1, <2>2, <2>3, <2>4, <2>5, <2>6, <2>7, <2>8, <2>9 DEF Step
<1>3. CASE UNCHANGED vars
  BY <1>3 DEF vars, IInv, Typed, LineInv, SentInv, RoleInv, Made
<1> QED BY <1>1, <1>2, <1>3 DEF Next

\* The inductive invariant of the negotiation: the types, and the order of what
\* each side gets, keeps and makes (PeerSession.ts:53-185).
THEOREM PeerLinkInductive == Spec => []IInv
BY InitIInv, StepKeepsIInv, PTL DEF Spec

LEMMA IInvTypeOK == IInv => TypeOK
<1> SUFFICES ASSUME IInv, NEW d \in Side
             PROVE  LET s == side[d] IN
                    /\ s.life \in {"none", "live", "closed"}
                    /\ s.signaling \in {"stable", "have-local-offer", "have-remote-offer"}
                    /\ {s.local, s.remote, s.created, s.gathered} \subseteq Number
                    /\ s.added \subseteq Number /\ got[d] \subseteq Number
                    /\ \A i \in DOMAIN s.chain : s.chain[i].op \in Operations /\ s.chain[i].n \in Number
                    /\ s.conn \in {"new", "connecting", "connected", "disconnected", "failed"}
                    /\ s.remoteDescriptionSet \in BOOLEAN /\ s.connectTimer \in BOOLEAN /\ s.isOpen \in BOOLEAN
                    /\ \A i \in DOMAIN s.pendingCandidates : s.pendingCandidates[i] \in Number
                    /\ s.restartAttempts \in 0..MaxRestarts
                    /\ blips[d] \in 0..MaxBlips
                    /\ \A i \in DOMAIN net[d] : net[d][i].type \in {"offer", "answer", "candidate"} /\ net[d][i].n \in Number
  BY DEF TypeOK
<1>1. PICK N : N = Made
  OBVIOUS
<1>2. /\ N \in Nat /\ side[d] \in SessionsTo(N) /\ net[d] \in Seq(SignalsTo(N))
      /\ got[d] \in SUBSET (0..N) /\ blips \in [Side -> 0..MaxBlips]
  BY <1>1, SideFacts
<1>3. Number = 0..N
  BY <1>1 DEF Number, Made
<1>4. /\ {side[d].local, side[d].remote, side[d].created, side[d].gathered} \subseteq 0..N
      /\ side[d].added \in SUBSET (0..N) /\ side[d].chain \in Seq(OpsTo(N))
      /\ side[d].pendingCandidates \in Seq(0..N)
      /\ side[d].life \in {"none", "live", "closed"}
      /\ side[d].signaling \in {"stable", "have-local-offer", "have-remote-offer"}
      /\ side[d].conn \in {"new", "connecting", "connected", "disconnected", "failed"}
      /\ side[d].remoteDescriptionSet \in BOOLEAN /\ side[d].connectTimer \in BOOLEAN
      /\ side[d].isOpen \in BOOLEAN /\ side[d].restartAttempts \in 0..MaxRestarts
  BY <1>2, SessionTyped
<1>5. ASSUME NEW i \in DOMAIN side[d].chain
      PROVE  side[d].chain[i].op \in Operations /\ side[d].chain[i].n \in 0..N
  <2>1. side[d].chain[i] \in OpsTo(N)
    BY <1>4
  <2> QED BY <1>2, <2>1, OpTyped
<1>6. ASSUME NEW i \in DOMAIN net[d]
      PROVE  net[d][i].type \in {"offer", "answer", "candidate"} /\ net[d][i].n \in 0..N
  <2>1. net[d][i] \in SignalsTo(N)
    BY <1>2
  <2> QED BY <1>2, <2>1, SignalTyped
<1>7. \A i \in DOMAIN side[d].pendingCandidates : side[d].pendingCandidates[i] \in 0..N
  <2> DEFINE K == 0..N
  <2>1. side[d].pendingCandidates \in Seq(K)
    BY <1>4
  <2> HIDE DEF K
  <2>2. \A i \in DOMAIN side[d].pendingCandidates : side[d].pendingCandidates[i] \in K
    BY <2>1
  <2> QED BY <2>2 DEF K
<1>8. blips[d] \in 0..MaxBlips
  BY <1>2
<1> QED BY <1>2, <1>3, <1>4, <1>5, <1>6, <1>7, <1>8

\* Every description, candidate and operation speaks of an offer that was made,
\* and no side restarts more often than the limit (PeerSession.ts:152-185).
THEOREM PeerLinkType == Spec => []TypeOK
BY PeerLinkInductive, IInvTypeOK, PTL

LEMMA IInvCandidates == IInv => CandidatesApplied
<1> SUFFICES ASSUME IInv, NEW d \in Side, side[d].life = "live", side[d].chain = <<>>,
                    side[d].signaling = "stable", side[d].remote # 0
             PROVE  /\ side[d].pendingCandidates = <<>>
                    /\ side[d].remote \in got[d] => side[d].remote \in side[d].added
  BY DEF CandidatesApplied
<1>1. LineOK(side[d], net[d], got[d])
  BY SideFacts
<1>2. Kept(side[d], got[d]) /\ Flagged(side[d])
  BY <1>1 DEF LineOK
<1>3. DOMAIN side[d].chain = {}
  OBVIOUS
<1>4. side[d].pendingCandidates = <<>>
  BY <1>2, <1>3 DEF Flagged
<1>5. ASSUME side[d].remote \in got[d] PROVE side[d].remote \in side[d].added
  <2>1. DOMAIN side[d].pendingCandidates = {}
    BY <1>4
  <2>2. ~Dead(side[d], side[d].remote)
    BY DEF Dead
  <2> QED BY <1>2, <1>3, <1>5, <2>1, <2>2 DEF Kept
<1> QED BY <1>4, <1>5

\* No candidate is forgotten, whatever the order of descriptions, candidates,
\* restarts and losses (handleSignal() and flushCandidates(), PeerSession.ts:113-150).
THEOREM PeerLinkCandidatesApplied == Spec => []CandidatesApplied
BY PeerLinkInductive, IInvCandidates, PTL

-----------------------------------------------------------------------------
(* The phases of a negotiation.  While nothing disturbs it, one thing is   *)
(* under way besides candidates: an offer or an answer, as an operation of *)
(* one of the two connections or as a signal between them.                 *)

\* What is under way without being part of the negotiation.
PlainOps == [op : {"add"}, n : Nat, rest : Seq(Nat), then : {"none"}]
PlainSignals == [type : {"candidate"}, n : Nat]

\* Nothing but what is plain is in q; one thing, of T, that is not plain.
Idle(q, P) == \A i \in DOMAIN q : q[i] \in P
Sole(q, P, T) == \E i \in DOMAIN q : q[i] \in T \ P /\ \A j \in DOMAIN q : j # i => q[j] \in P

OfferSteps(n) == {Op("createOffer", n), Op("setOffer", n)}
TakeOffer(n) == {Op("takeOffer", n)}
TakeAnswer(n) == {Op("takeAnswer", n)}
Sent(type, n) == {[type |-> type, n |-> n]}

\* The handler of an offer, after it took it: the candidates that waited, the
\* answer, and the answer that was created last.
AnswerSteps(n, created) ==
  [op : {"add"}, n : Nat, rest : Seq(Nat), then : {"createAnswer"}]
    \cup {Op("createAnswer", n)} \cup {Op("setAnswer", m) : m \in {n} \cap {created}}

\* The states of the initiator i and the responder r in the negotiation of offer n.
Offered(i, n) == i.signaling = "have-local-offer" /\ i.local = n
Settled(s, n) == s.signaling = "stable" /\ s.local = n /\ s.remote = n

\* The sessions i and r, with the signals toI and toR on their way to them.
Preparing(i, r, toI, toR) ==
  /\ i.signaling = "stable" /\ Sole(i.chain, PlainOps, OfferSteps(i.offers))
  /\ r.signaling = "stable" /\ Idle(r.chain, PlainOps)
  /\ Idle(toI, PlainSignals) /\ Idle(toR, PlainSignals)

Proposed(i, r, toI, toR) ==
  /\ Offered(i, i.offers) /\ Idle(i.chain, PlainOps)
  /\ r.signaling = "stable" /\ Idle(r.chain, PlainOps)
  /\ Idle(toI, PlainSignals) /\ Sole(toR, PlainSignals, Sent("offer", i.offers))

Taking(i, r, toI, toR) ==
  /\ Offered(i, i.offers) /\ Idle(i.chain, PlainOps)
  /\ r.signaling = "stable" /\ Sole(r.chain, PlainOps, TakeOffer(i.offers))
  /\ Idle(toI, PlainSignals) /\ Idle(toR, PlainSignals)

Answers(i, r, toI, toR) ==
  /\ Offered(i, i.offers) /\ Idle(i.chain, PlainOps)
  /\ r.signaling = "have-remote-offer" /\ r.remote = i.offers
  /\ Sole(r.chain, PlainOps, AnswerSteps(i.offers, r.created))
  /\ Idle(toI, PlainSignals) /\ Idle(toR, PlainSignals)

Answered(i, r, toI, toR) ==
  /\ Offered(i, i.offers) /\ Idle(i.chain, PlainOps)
  /\ Settled(r, i.offers) /\ Idle(r.chain, PlainOps)
  /\ Sole(toI, PlainSignals, Sent("answer", i.offers)) /\ Idle(toR, PlainSignals)

Finishing(i, r, toI, toR) ==
  /\ Offered(i, i.offers) /\ Sole(i.chain, PlainOps, TakeAnswer(i.offers))
  /\ Settled(r, i.offers) /\ Idle(r.chain, PlainOps)
  /\ Idle(toI, PlainSignals) /\ Idle(toR, PlainSignals)

Finished(i, r, toI, toR) ==
  /\ Settled(i, i.offers) /\ Idle(i.chain, PlainOps)
  /\ Settled(r, i.offers) /\ Idle(r.chain, PlainOps)
  /\ Idle(toI, PlainSignals) /\ Idle(toR, PlainSignals)

Phase(i, r, toI, toR) ==
  \/ Preparing(i, r, toI, toR) \/ Proposed(i, r, toI, toR) \/ Taking(i, r, toI, toR)
  \/ Answers(i, r, toI, toR) \/ Answered(i, r, toI, toR) \/ Finishing(i, r, toI, toR)
  \/ Finished(i, r, toI, toR)

\* A negotiation is in one of its phases, unless a side gave up or it was disturbed.
PhaseInv ==
  \/ upset \/ \E d \in Side : side[d].life = "closed"
  \/ Phase(side["initiator"], side["responder"], net["initiator"], net["responder"])

-----------------------------------------------------------------------------
(* What is plain, and what is not.                                         *)

\* What was idle stays so, and what there was besides stays.
Stays(p, q, P) ==
  /\ Idle(q, P) => Idle(p, P)
  /\ \A T : Sole(q, P, T) => Sole(p, P, T)

LEMMA HeadOfPlain ==
  ASSUME NEW S, NEW q \in Seq(S), q # <<>>, NEW P
  PROVE  /\ Idle(q, P) => Head(q) \in P /\ Idle(Tail(q), P)
         /\ \A T : Sole(q, P, T) =>
              IF Head(q) \in P THEN Sole(Tail(q), P, T)
              ELSE Head(q) \in T /\ Idle(Tail(q), P)
<1>1. /\ Tail(q) \in Seq(S) /\ Head(q) = q[1] /\ 1 \in DOMAIN q /\ DOMAIN q \subseteq Nat
      /\ DOMAIN Tail(q) \subseteq Nat
      /\ \A i \in DOMAIN Tail(q) : i + 1 \in DOMAIN q /\ i + 1 > 1 /\ Tail(q)[i] = q[i + 1]
      /\ \A i \in DOMAIN q : i = 1 \/ (i - 1 \in DOMAIN Tail(q) /\ Tail(q)[i - 1] = q[i])
  BY TailFacts
<1>2. Idle(q, P) => Head(q) \in P /\ Idle(Tail(q), P)
  BY <1>1 DEF Idle
<1>3. ASSUME NEW T, Sole(q, P, T)
      PROVE  IF Head(q) \in P THEN Sole(Tail(q), P, T)
             ELSE Head(q) \in T /\ Idle(Tail(q), P)
  <2>1. PICK i \in DOMAIN q : q[i] \in T \ P /\ \A j \in DOMAIN q : j # i => q[j] \in P
    BY <1>3 DEF Sole
  <2>2. CASE Head(q) \in P
    <3>1. i # 1 /\ i - 1 \in DOMAIN Tail(q) /\ Tail(q)[i - 1] \in T \ P
      BY <1>1, <2>1, <2>2
    <3>2. ASSUME NEW j \in DOMAIN Tail(q), j # i - 1 PROVE Tail(q)[j] \in P
      <4>1. j + 1 \in DOMAIN q /\ Tail(q)[j] = q[j + 1] /\ j + 1 # i
        BY <1>1, <3>2
      <4> QED BY <2>1, <4>1
    <3> QED BY <2>2, <3>1, <3>2 DEF Sole
  <2>3. CASE Head(q) \notin P
    <3>1. i = 1
      BY <1>1, <2>1, <2>3
    <3>2. ASSUME NEW j \in DOMAIN Tail(q) PROVE Tail(q)[j] \in P
      BY <1>1, <2>1, <3>1
    <3> QED BY <1>1, <2>1, <2>3, <3>1, <3>2 DEF Idle
  <2> QED BY <2>2, <2>3
<1> QED BY <1>2, <1>3

LEMMA OnePlainMore ==
  ASSUME NEW S, NEW q \in Seq(S), NEW x \in S, NEW P
  PROVE  /\ x \in P => Stays(Append(q, x), q, P)
         /\ \A T : Idle(q, P) /\ x \in T \ P => Sole(Append(q, x), P, T)
<1> DEFINE r == Append(q, x)
<1>1. /\ Len(q) + 1 \in DOMAIN r /\ r[Len(q) + 1] = x
      /\ \A i \in DOMAIN q : i \in DOMAIN r /\ r[i] = q[i] /\ i < Len(q) + 1
      /\ \A i \in DOMAIN r : i \in DOMAIN q \/ i = Len(q) + 1
  BY AppendFacts
<1> HIDE DEF r
<1>2. x \in P /\ Idle(q, P) => Idle(r, P)
  BY <1>1 DEF Idle
<1>3. ASSUME x \in P, NEW T, Sole(q, P, T) PROVE Sole(r, P, T)
  <2>1. PICK i \in DOMAIN q : q[i] \in T \ P /\ \A j \in DOMAIN q : j # i => q[j] \in P
    BY <1>3 DEF Sole
  <2>2. i \in DOMAIN r /\ r[i] \in T \ P
    BY <1>1, <2>1
  <2>3. \A j \in DOMAIN r : j # i => r[j] \in P
    BY <1>1, <1>3, <2>1
  <2> QED BY <2>2, <2>3 DEF Sole
<1>4. ASSUME NEW T, Idle(q, P), x \in T \ P PROVE Sole(r, P, T)
  BY <1>1, <1>4 DEF Idle, Sole
<1> QED BY <1>2, <1>3, <1>4 DEF Stays, r

\* What ends, or arrives, is plain, and so is what comes after it.
LEMMA PlainEnds ==
  ASSUME NEW S, NEW q \in Seq(S), q # <<>>, NEW P, Head(q) \in P, NEW x \in S, x \in P, NEW r,
         r = Tail(q) \/ r = Append(Tail(q), x)
  PROVE  Stays(r, q, P)
<1>1. Stays(Tail(q), q, P)
  BY HeadOfPlain DEF Stays
<1>2. Tail(q) \in Seq(S)
  BY TailFacts
<1>3. Stays(Append(Tail(q), x), Tail(q), P)
  BY <1>2, OnePlainMore
<1> QED BY <1>1, <1>3 DEF Stays

LEMMA NothingChanges ==
  ASSUME NEW q, NEW P
  PROVE  Stays(q, q, P)
BY DEF Stays

\* The operations that are plain, and those that are not.
LEMMA PlainOp ==
  ASSUME NEW N \in Nat, NEW o \in OpsTo(N)
  PROVE  o \in PlainOps <=> o.op = "add" /\ o.then = "none"
<1> DEFINE K == 0..N
<1>1. Seq(K) \subseteq Seq(Nat) /\ K \subseteq Nat
  OBVIOUS
<1>2. o \in [op : Operations, n : K, rest : Seq(K), then : {"none", "createAnswer"}]
  BY DEF OpsTo
<1> HIDE DEF K
<1>3. o.rest \in Seq(Nat) /\ o.n \in Nat
  BY <1>1, <1>2
<1>4. o = [op |-> o.op, n |-> o.n, rest |-> o.rest, then |-> o.then]
  BY <1>2
<1>5. o.op = "add" /\ o.then = "none" => o \in PlainOps
  <2> DEFINE R == Seq(Nat)
  <2>1. PlainOps = [op : {"add"}, n : Nat, rest : R, then : {"none"}] /\ o.rest \in R
    BY <1>3 DEF PlainOps
  <2> HIDE DEF R
  <2> QED BY <1>3, <1>4, <2>1
<1>6. o \in PlainOps => o.op = "add" /\ o.then = "none"
  BY DEF PlainOps
<1> QED BY <1>5, <1>6

LEMMA PlainSignal ==
  ASSUME NEW N \in Nat, NEW m \in SignalsTo(N)
  PROVE  m \in PlainSignals <=> m.type = "candidate"
<1>1. m.n \in Nat
  BY SignalTyped
<1> QED BY <1>1 DEF SignalsTo, PlainSignals

\* The steps of a negotiation.
LEMMA StepsDiffer ==
  ASSUME NEW n, NEW c, NEW o
  PROVE  /\ o \in OfferSteps(n) =>
              o.n = n /\ o.op \in {"createOffer", "setOffer"} /\ o \notin PlainOps
         /\ o \in TakeOffer(n) => o.n = n /\ o.op = "takeOffer" /\ o \notin PlainOps
         /\ o \in TakeAnswer(n) => o.n = n /\ o.op = "takeAnswer" /\ o \notin PlainOps
         /\ o \in AnswerSteps(n, c) =>
              /\ o \notin PlainOps
              /\ \/ o.op = "add" /\ o.then = "createAnswer"
                 \/ o.op = "createAnswer"
                 \/ o.op = "setAnswer" /\ o.n = n /\ c = n
<1>1. \A what, k : Op(what, k).op = what /\ Op(what, k).n = k
  BY DEF Op
<1>2. \A p \in PlainOps : p.op = "add" /\ p.then = "none"
  BY DEF PlainOps
<1>3. o \in AnswerSteps(n, c) =>
        \/ o.op = "add" /\ o.then = "createAnswer"
        \/ o = Op("createAnswer", n)
        \/ o = Op("setAnswer", n) /\ c = n
  <2> DEFINE R == Seq(Nat)
             A == [op : {"add"}, n : Nat, rest : R, then : {"createAnswer"}]
  <2>1. \A p \in A : p.op = "add" /\ p.then = "createAnswer"
    OBVIOUS
  <2>2. AnswerSteps(n, c) = A \cup {Op("createAnswer", n)} \cup {Op("setAnswer", m) : m \in {n} \cap {c}}
    BY DEF AnswerSteps
  <2> HIDE DEF A
  <2> QED BY <2>1, <2>2
<1> QED BY <1>1, <1>2, <1>3 DEF OfferSteps, TakeOffer, TakeAnswer

\* What calls the operations of a handler that took an offer.
LEMMA AddSteps ==
  ASSUME NEW N \in Nat, NEW s \in SessionsTo(N), NEW cs \in Seq(0..N),
         NEW then \in {"none", "createAnswer"}, NEW c
  PROVE  \E x \in OpsTo(N) :
           /\ \/ Add(s, cs, then) = s /\ then = "none"
              \/ Add(s, cs, then) = Call(s, x)
           /\ then = "none" => x \in PlainOps
           /\ then = "createAnswer" => Add(s, cs, then) = Call(s, x) /\ x \in AnswerSteps(s.remote, c)
<1> DEFINE K == 0..N
<1>1. s.remote \in K /\ 0 \in K /\ s.remote \in Nat
  BY SessionTyped
<1>2. OpsTo(N) = [op : Operations, n : K, rest : Seq(K), then : {"none", "createAnswer"}]
  BY DEF OpsTo
<1>3. K \subseteq Nat /\ Seq(K) \subseteq Seq(Nat)
  OBVIOUS
<1> HIDE DEF K
<1>4. CASE cs # <<>>
  <2> DEFINE x == [op |-> "add", n |-> Head(cs), rest |-> Tail(cs), then |-> then]
             R == Seq(Nat)
  <2>1. Head(cs) \in K /\ Tail(cs) \in Seq(K)
    BY <1>4, TailFacts DEF K
  <2>2. x \in OpsTo(N)
    BY <1>2, <2>1 DEF Operations
  <2>3. Add(s, cs, then) = Call(s, x)
    BY <1>4 DEF Add
  <2>4. then = "none" => x \in PlainOps
    BY <2>2, PlainOp
  <2>5. ASSUME then = "createAnswer" PROVE x \in AnswerSteps(s.remote, c)
    <3>1. Head(cs) \in Nat /\ Tail(cs) \in R
      BY <1>3, <2>1
    <3> HIDE DEF R
    <3>2. x \in [op : {"add"}, n : Nat, rest : R, then : {"createAnswer"}]
      BY <2>5, <3>1
    <3> USE DEF R
    <3>3. [op : {"add"}, n : Nat, rest : R, then : {"createAnswer"}] \subseteq AnswerSteps(s.remote, c)
      BY DEF AnswerSteps
    <3> HIDE DEF R, x
    <3> QED BY <3>2, <3>3
  <2> HIDE DEF x
  <2> QED BY <2>2, <2>3, <2>4, <2>5
<1>5. CASE cs = <<>> /\ then # "none"
  <2> DEFINE x == Op(then, s.remote)
  <2>1. then = "createAnswer" /\ then \in Operations \ {"add"} /\ s.remote \in 0..N
    BY <1>1, <1>5 DEF Operations, K
  <2>2. x \in OpsTo(N)
    BY <2>1, OpMade
  <2>3. Add(s, cs, then) = Call(s, x)
    BY <1>5 DEF Add
  <2>4. x \in AnswerSteps(s.remote, c)
    BY <2>1 DEF AnswerSteps
  <2> HIDE DEF x
  <2> QED BY <2>1, <2>2, <2>3, <2>4
<1>6. CASE cs = <<>> /\ then = "none"
  <2> DEFINE x == [op |-> "add", n |-> 0, rest |-> <<>>, then |-> "none"]
  <2>1. <<>> \in Seq(K)
    OBVIOUS
  <2>2. x \in OpsTo(N)
    BY <1>1, <1>2, <2>1 DEF Operations
  <2>3. x \in PlainOps
    BY <2>2, PlainOp
  <2>4. Add(s, cs, then) = s
    BY <1>6 DEF Add
  <2> HIDE DEF x
  <2> QED BY <1>6, <2>2, <2>3, <2>4
<1> QED BY <1>4, <1>5, <1>6

-----------------------------------------------------------------------------
(* The steps from one phase to the next.                                   *)

\* What every description and operation of the negotiation is seen by.
SameSide(t, s) ==
  /\ t.signaling = s.signaling /\ t.local = s.local /\ t.remote = s.remote
  /\ t.created = s.created /\ t.offers = s.offers

LEMMA PhaseStays ==
  ASSUME NEW i, NEW r, NEW toI, NEW toR, NEW i2, NEW r2, NEW toI2, NEW toR2,
         Phase(i, r, toI, toR), SameSide(i2, i), SameSide(r2, r),
         Stays(i2.chain, i.chain, PlainOps), Stays(r2.chain, r.chain, PlainOps),
         Stays(toI2, toI, PlainSignals), Stays(toR2, toR, PlainSignals)
  PROVE  Phase(i2, r2, toI2, toR2)
<1>1. CASE Preparing(i, r, toI, toR)
  <2>1. Preparing(i2, r2, toI2, toR2)
    BY <1>1 DEF Preparing, SameSide, Stays
  <2> QED BY <2>1 DEF Phase
<1>2. CASE Proposed(i, r, toI, toR)
  <2>1. Proposed(i2, r2, toI2, toR2)
    BY <1>2 DEF Proposed, Offered, SameSide, Stays
  <2> QED BY <2>1 DEF Phase
<1>3. CASE Taking(i, r, toI, toR)
  <2>1. Taking(i2, r2, toI2, toR2)
    BY <1>3 DEF Taking, Offered, SameSide, Stays
  <2> QED BY <2>1 DEF Phase
<1>4. CASE Answers(i, r, toI, toR)
  <2>1. Answers(i2, r2, toI2, toR2)
    BY <1>4 DEF Answers, Offered, SameSide, Stays
  <2> QED BY <2>1 DEF Phase
<1>5. CASE Answered(i, r, toI, toR)
  <2>1. Answered(i2, r2, toI2, toR2)
    BY <1>5 DEF Answered, Offered, Settled, SameSide, Stays
  <2> QED BY <2>1 DEF Phase
<1>6. CASE Finishing(i, r, toI, toR)
  <2>1. Finishing(i2, r2, toI2, toR2)
    BY <1>6 DEF Finishing, Offered, Settled, SameSide, Stays
  <2> QED BY <2>1 DEF Phase
<1>7. CASE Finished(i, r, toI, toR)
  <2>1. Finished(i2, r2, toI2, toR2)
    BY <1>7 DEF Finished, Settled, SameSide, Stays
  <2> QED BY <2>1 DEF Phase
<1> QED BY <1>1, <1>2, <1>3, <1>4, <1>5, <1>6, <1>7 DEF Phase

\* An operation or signal that is not plain tells the phase.
LEMMA PhaseOfHead ==
  ASSUME NEW i, NEW r, NEW toI, NEW toR, Phase(i, r, toI, toR),
         NEW S, NEW q \in Seq(S), q # <<>>
  PROVE  /\ q = i.chain /\ Head(q) \notin PlainOps =>
              /\ Idle(Tail(q), PlainOps)
              /\ \/ Preparing(i, r, toI, toR) /\ Head(q) \in OfferSteps(i.offers)
                 \/ Finishing(i, r, toI, toR) /\ Head(q) \in TakeAnswer(i.offers)
         /\ q = r.chain /\ Head(q) \notin PlainOps =>
              /\ Idle(Tail(q), PlainOps)
              /\ \/ Taking(i, r, toI, toR) /\ Head(q) \in TakeOffer(i.offers)
                 \/ Answers(i, r, toI, toR) /\ Head(q) \in AnswerSteps(i.offers, r.created)
         /\ q = toI /\ Head(q) \notin PlainSignals =>
              /\ Idle(Tail(q), PlainSignals)
              /\ Answered(i, r, toI, toR) /\ Head(q) \in Sent("answer", i.offers)
         /\ q = toR /\ Head(q) \notin PlainSignals =>
              /\ Idle(Tail(q), PlainSignals)
              /\ Proposed(i, r, toI, toR) /\ Head(q) \in Sent("offer", i.offers)
<1>1. \A P : /\ Idle(q, P) => Head(q) \in P
             /\ \A T : Sole(q, P, T) /\ Head(q) \notin P => Head(q) \in T /\ Idle(Tail(q), P)
  BY HeadOfPlain
<1>2. ASSUME q = i.chain, Head(q) \notin PlainOps
      PROVE  /\ Idle(Tail(q), PlainOps)
             /\ \/ Preparing(i, r, toI, toR) /\ Head(q) \in OfferSteps(i.offers)
                \/ Finishing(i, r, toI, toR) /\ Head(q) \in TakeAnswer(i.offers)
  BY <1>1, <1>2 DEF Phase, Preparing, Proposed, Taking, Answers, Answered, Finishing, Finished
<1>3. ASSUME q = r.chain, Head(q) \notin PlainOps
      PROVE  /\ Idle(Tail(q), PlainOps)
             /\ \/ Taking(i, r, toI, toR) /\ Head(q) \in TakeOffer(i.offers)
                \/ Answers(i, r, toI, toR) /\ Head(q) \in AnswerSteps(i.offers, r.created)
  BY <1>1, <1>3 DEF Phase, Preparing, Proposed, Taking, Answers, Answered, Finishing, Finished
<1>4. ASSUME q = toI, Head(q) \notin PlainSignals
      PROVE  /\ Idle(Tail(q), PlainSignals)
             /\ Answered(i, r, toI, toR) /\ Head(q) \in Sent("answer", i.offers)
  BY <1>1, <1>4 DEF Phase, Preparing, Proposed, Taking, Answers, Answered, Finishing, Finished
<1>5. ASSUME q = toR, Head(q) \notin PlainSignals
      PROVE  /\ Idle(Tail(q), PlainSignals)
             /\ Proposed(i, r, toI, toR) /\ Head(q) \in Sent("offer", i.offers)
  BY <1>1, <1>5 DEF Phase, Preparing, Proposed, Taking, Answers, Answered, Finishing, Finished
<1> QED BY <1>2, <1>3, <1>4, <1>5

\* With nothing under way, the negotiation is finished.
LEMMA NothingUnderWay ==
  ASSUME NEW i, NEW r, Phase(i, r, <<>>, <<>>), i.chain = <<>>, r.chain = <<>>
  PROVE  Settled(i, i.offers) /\ Settled(r, i.offers)
<1>1. \A P, T : ~Sole(<<>>, P, T)
  BY DEF Sole
<1> QED BY <1>1 DEF Phase, Preparing, Proposed, Taking, Answers, Answered, Finishing, Finished

\* One session changes, and perhaps the signals: the negotiation stays in a phase.
LEMMA SidePhases ==
  ASSUME IInv, PhaseInv, NEW d \in Side, NEW t, Become(d, t),
         side[d].life = "closed" => t.life = "closed", upset => upset',
         /\ ~upset' /\ ~upset /\ t.life # "closed"
         /\ \A e \in Side : side[e].life # "closed"
         /\ Phase(side["initiator"], side["responder"], net["initiator"], net["responder"])
         => IF d = "initiator" THEN Phase(t, side["responder"], net'["initiator"], net'["responder"])
            ELSE Phase(side["initiator"], t, net'["initiator"], net'["responder"])
  PROVE  PhaseInv'
<1>1. side' = [side EXCEPT ![d] = t] /\ side \in [Side -> SessionsTo(Made)]
  BY DEF Become, IInv, Typed
<1>2. side'[d] = t /\ \A e \in Side : e # d => side'[e] = side[e]
  BY <1>1
<1>3. SUFFICES ASSUME ~upset', \A e \in Side : side'[e].life # "closed"
               PROVE  Phase(side'["initiator"], side'["responder"], net'["initiator"], net'["responder"])
  BY DEF PhaseInv
<1>4. /\ ~upset /\ t.life # "closed" /\ \A e \in Side : side[e].life # "closed"
  BY <1>2, <1>3
<1>5. Phase(side["initiator"], side["responder"], net["initiator"], net["responder"])
  BY <1>4 DEF PhaseInv
<1>6. "initiator" \in Side /\ "responder" \in Side /\ (d = "initiator" \/ d = "responder")
  BY DEF Side
<1>7. CASE d = "initiator"
  <2>1. Phase(t, side["responder"], net'["initiator"], net'["responder"])
    BY <1>3, <1>4, <1>5, <1>7
  <2> QED BY <1>2, <1>6, <1>7, <2>1
<1>8. CASE d = "responder"
  <2>1. Phase(side["initiator"], t, net'["initiator"], net'["responder"])
    BY <1>3, <1>4, <1>5, <1>8
  <2> QED BY <1>2, <1>6, <1>8, <2>1
<1> QED BY <1>6, <1>7, <1>8

\* A step that nothing of the negotiation sees.
LEMMA UnseenStep ==
  ASSUME IInv, PhaseInv, NEW d \in Side, NEW t, Become(d, t), SameSide(t, side[d]),
         side[d].life = "closed" => t.life = "closed", upset => upset',
         Stays(t.chain, side[d].chain, PlainOps),
         \A e \in Side : Stays(net'[e], net[e], PlainSignals)
  PROVE  PhaseInv'
<1>1. "initiator" \in Side /\ "responder" \in Side /\ (d = "initiator" \/ d = "responder")
  BY DEF Side
<1>2. \A s : SameSide(s, s) /\ Stays(s.chain, s.chain, PlainOps)
  BY NothingChanges DEF SameSide
<1>3. ASSUME Phase(side["initiator"], side["responder"], net["initiator"], net["responder"])
      PROVE  IF d = "initiator" THEN Phase(t, side["responder"], net'["initiator"], net'["responder"])
             ELSE Phase(side["initiator"], t, net'["initiator"], net'["responder"])
  <2>1. CASE d = "initiator"
    <3>1. Phase(t, side["responder"], net'["initiator"], net'["responder"])
      BY <1>1, <1>2, <1>3, <2>1, PhaseStays
    <3> QED BY <2>1, <3>1
  <2>2. CASE d = "responder"
    <3>1. Phase(side["initiator"], t, net'["initiator"], net'["responder"])
      BY <1>1, <1>2, <1>3, <2>2, PhaseStays
    <3> QED BY <2>2, <3>1
  <2> QED BY <1>1, <2>1, <2>2
<1> QED BY <1>3, SidePhases

LEMMA ClosedPhases ==
  ASSUME IInv, PhaseInv, NEW d \in Side, NEW t, Become(d, t), t.life = "closed", upset => upset'
  PROVE  PhaseInv'
BY SidePhases

-----------------------------------------------------------------------------
(* Every step keeps the negotiation in its phases.                         *)

\* What the operation o of d that ends tells of the phase.
LEMMA OpTells ==
  ASSUME IInv, NEW d \in Side, NEW s, NEW o, Begun(d, s, o), o \notin PlainOps,
         NEW i, NEW r, NEW toI, NEW toR, Phase(i, r, toI, toR),
         side[d] = IF d = "initiator" THEN i ELSE r
  PROVE  /\ Idle(s.chain, PlainOps)
         /\ o.op = "add" => o.then = "createAnswer"
         /\ \/ /\ d = "initiator" /\ o.n = i.offers
               /\ \/ Preparing(i, r, toI, toR) /\ o.op \in {"createOffer", "setOffer"}
                  \/ Finishing(i, r, toI, toR) /\ o.op = "takeAnswer"
            \/ /\ d = "responder"
               /\ \/ Taking(i, r, toI, toR) /\ o.n = i.offers /\ o.op = "takeOffer"
                  \/ /\ Answers(i, r, toI, toR) /\ o.op \in {"add", "createAnswer", "setAnswer"}
                     /\ o.op = "setAnswer" => o.n = i.offers
<1>1. /\ Made \in Nat /\ side[d] \in SessionsTo(Made) /\ side[d].chain # <<>> /\ o = Head(side[d].chain)
      /\ s.chain = Tail(side[d].chain)
  BY OpStarts
<1>2. side[d].chain \in Seq(OpsTo(Made))
  BY <1>1, SessionTyped
<1>3. CASE d = "initiator"
  <2>1. /\ Idle(s.chain, PlainOps)
        /\ \/ Preparing(i, r, toI, toR) /\ o \in OfferSteps(i.offers)
           \/ Finishing(i, r, toI, toR) /\ o \in TakeAnswer(i.offers)
    BY <1>1, <1>2, <1>3, PhaseOfHead
  <2> QED BY <1>3, <2>1, StepsDiffer
<1>4. CASE d = "responder"
  <2>1. /\ Idle(s.chain, PlainOps)
        /\ \/ Taking(i, r, toI, toR) /\ o \in TakeOffer(i.offers)
           \/ Answers(i, r, toI, toR) /\ o \in AnswerSteps(i.offers, r.created)
    BY <1>1, <1>2, <1>4, PhaseOfHead
  <2> QED BY <1>4, <2>1, StepsDiffer
<1> QED BY <1>3, <1>4 DEF Side

LEMMA OpIsNotPlain ==
  ASSUME IInv, NEW d \in Side, NEW s, NEW o, Begun(d, s, o), o.op # "add"
  PROVE  o \notin PlainOps
BY OpStarts, PlainOp

LEMMA OfferCreatedPhase ==
  ASSUME IInv, PhaseInv, NEW d \in Side, NEW s, NEW o, Begun(d, s, o),
         o.op = "createOffer", OfferCreated(d, s, o), UNCHANGED upset
  PROVE  PhaseInv'
<1>1. /\ Made \in Nat /\ s \in SessionsTo(Made) /\ o \in OpsTo(Made) /\ side[d].life # "closed"
      /\ s.signaling = side[d].signaling /\ s.offers = side[d].offers
  BY OpStarts
<1>2. PICK u : u = [s EXCEPT !.created = o.n]
  OBVIOUS
<1>3. PICK x : x = Op("setOffer", o.n)
  OBVIOUS
<1>4. PICK t : t = Call(u, x)
  OBVIOUS
<1>5. u \in SessionsTo(Made) /\ u.chain = s.chain /\ u.signaling = s.signaling /\ u.offers = s.offers
  <2>1. o.n \in 0..Made
    BY <1>1, OpTyped
  <2> QED BY <1>1, <1>2, <2>1 DEF SessionsTo
<1>6. x \in OpsTo(Made) /\ x.op = "setOffer"
  BY <1>1, <1>3, OpTyped, OpMade DEF Operations
<1>7. t.chain = Append(s.chain, x) /\ t.signaling = s.signaling /\ t.offers = s.offers
  BY <1>1, <1>4, <1>5, <1>6, CallFacts
<1>8. Become(d, t) /\ UNCHANGED net
  BY <1>2, <1>3, <1>4 DEF OfferCreated
<1>9. s.chain \in Seq(OpsTo(Made)) /\ o \notin PlainOps /\ x \notin PlainOps
  BY <1>1, <1>6, SessionTyped, PlainOp
<1> DEFINE i == side["initiator"]
           r == side["responder"]
           toI == net["initiator"]
           toR == net["responder"]
<1>10. ASSUME Phase(i, r, toI, toR)
       PROVE  d = "initiator" /\ Phase(t, r, toI, toR)
  <2>1. d = "initiator" /\ Idle(s.chain, PlainOps) /\ o.n = i.offers /\ Preparing(i, r, toI, toR)
    BY <1>9, <1>10, OpTells DEF Side
  <2>2. Sole(t.chain, PlainOps, OfferSteps(i.offers))
    BY <1>3, <1>6, <1>7, <1>9, <2>1, OnePlainMore DEF OfferSteps
  <2>3. Preparing(t, r, toI, toR)
    BY <1>1, <1>7, <2>1, <2>2 DEF Preparing
  <2> QED BY <2>1, <2>3 DEF Phase
<1> QED BY <1>1, <1>8, <1>10, SidePhases

LEMMA OfferSetPhase ==
  ASSUME IInv, PhaseInv, NEW d \in Side, NEW s, NEW o, Begun(d, s, o),
         o.op = "setOffer", OfferSet(d, s, o), UNCHANGED upset
  PROVE  PhaseInv'
<1>1. /\ Made \in Nat /\ s \in SessionsTo(Made) /\ o \in OpsTo(Made) /\ side[d].life # "closed"
      /\ s.offers = side[d].offers
  BY OpStarts
<1>2. CASE o.n = s.created
  <2>1. PICK t : t = [s EXCEPT !.signaling = "have-local-offer", !.local = o.n]
    OBVIOUS
  <2>2. PICK m : m = [type |-> "offer", n |-> o.n]
    OBVIOUS
  <2>3. t.signaling = "have-local-offer" /\ t.local = o.n /\ t.chain = s.chain /\ t.offers = s.offers
    BY <1>1, <2>1 DEF SessionsTo
  <2>4. Become(d, t) /\ net' = [net EXCEPT ![Other(d)] = Append(@, m)]
    BY <1>2, <2>1, <2>2 DEF OfferSet, Signal
  <2>5. m \in SignalsTo(Made) /\ m \notin PlainSignals
    BY <1>1, <2>2, OpTyped DEF SignalsTo, PlainSignals
  <2> DEFINE i == side["initiator"]
             r == side["responder"]
             toI == net["initiator"]
             toR == net["responder"]
  <2>6. net \in [Side -> Seq(SignalsTo(Made))] /\ toR \in Seq(SignalsTo(Made))
    BY DEF IInv, Typed, Side
  <2>7. ASSUME Phase(i, r, toI, toR)
        PROVE  d = "initiator" /\ Phase(t, r, net'["initiator"], net'["responder"])
    <3>1. d = "initiator" /\ Idle(s.chain, PlainOps) /\ o.n = i.offers /\ Preparing(i, r, toI, toR)
      <4>1. o \notin PlainOps
        BY OpIsNotPlain
      <4> QED BY <2>7, <4>1, OpTells DEF Side
    <3>2. net'["initiator"] = toI /\ net'["responder"] = Append(toR, m)
      BY <2>4, <2>6, <3>1 DEF Other, Side
    <3>3. Sole(Append(toR, m), PlainSignals, Sent("offer", i.offers))
      <4>1. Idle(toR, PlainSignals)
        BY <3>1 DEF Preparing
      <4> QED BY <2>2, <2>5, <2>6, <3>1, <4>1, OnePlainMore DEF Sent
    <3>4. Proposed(t, r, toI, Append(toR, m))
      BY <1>1, <2>3, <3>1, <3>3 DEF Preparing, Proposed, Offered
    <3> QED BY <3>1, <3>2, <3>4 DEF Phase
  <2> QED BY <1>1, <2>4, <2>7, SidePhases
<1>3. CASE o.n # s.created
  <2>1. Become(d, GiveUp(s))
    BY <1>3 DEF OfferSet
  <2>2. GiveUp(s).life = "closed"
    BY <1>1 DEF GiveUp, SessionsTo
  <2> QED BY <2>1, <2>2, ClosedPhases
<1> QED BY <1>2, <1>3

\* A handler that adds candidates, and goes on to the answer if it took an offer.
LEMMA AddPhases ==
  ASSUME NEW N \in Nat, NEW s \in SessionsTo(N), NEW cs \in Seq(0..N),
         NEW then \in {"none", "createAnswer"}, NEW t, t = Add(s, cs, then)
  PROVE  /\ SameSide(t, s) /\ t.life = s.life
         /\ then = "none" => Stays(t.chain, s.chain, PlainOps)
         /\ then = "createAnswer" /\ Idle(s.chain, PlainOps) =>
              Sole(t.chain, PlainOps, AnswerSteps(s.remote, s.created))
<1> DEFINE A == AnswerSteps(s.remote, s.created)
<1>1. PICK x \in OpsTo(N) :
        /\ \/ t = s /\ then = "none"
           \/ t = Call(s, x)
        /\ then = "none" => x \in PlainOps
        /\ then = "createAnswer" => t = Call(s, x) /\ x \in A
  BY AddSteps
<1> HIDE DEF A
<1>2. s.chain \in Seq(OpsTo(N))
  BY SessionTyped
<1>3. x \in A => x \notin PlainOps
  BY StepsDiffer DEF A
<1>4. CASE t = s /\ then = "none"
  BY <1>4, NothingChanges DEF SameSide
<1>5. CASE t = Call(s, x)
  <2>1. /\ t.chain = Append(s.chain, x) /\ SameSide(t, s) /\ t.life = s.life
    BY <1>5, CallFacts DEF SameSide
  <2>2. /\ x \in PlainOps => Stays(t.chain, s.chain, PlainOps)
        /\ Idle(s.chain, PlainOps) /\ x \in A \ PlainOps => Sole(t.chain, PlainOps, A)
    BY <1>2, <2>1, OnePlainMore
  <2> QED BY <1>1, <1>3, <2>1, <2>2 DEF A
<1> QED BY <1>1, <1>4, <1>5

LEMMA FlushPhases ==
  ASSUME NEW N \in Nat, NEW s \in SessionsTo(N), NEW then \in {"none", "createAnswer"},
         NEW t, t = Flush(s, then)
  PROVE  /\ SameSide(t, s) /\ t.life = s.life
         /\ then = "none" => Stays(t.chain, s.chain, PlainOps)
         /\ then = "createAnswer" /\ Idle(s.chain, PlainOps) =>
              Sole(t.chain, PlainOps, AnswerSteps(s.remote, s.created))
<1>1. PICK v : v = [s EXCEPT !.pendingCandidates = <<>>, !.remoteDescriptionSet = TRUE]
  OBVIOUS
<1>2. v \in SessionsTo(N)
  <2>1. <<>> \in Seq(0..N)
    OBVIOUS
  <2> QED BY <1>1, <2>1 DEF SessionsTo
<1>3. SameSide(v, s) /\ v.life = s.life /\ v.chain = s.chain
  BY <1>1 DEF SessionsTo, SameSide
<1>4. t = Add(v, s.pendingCandidates, then) /\ s.pendingCandidates \in Seq(0..N)
  BY <1>1, SessionTyped DEF Flush
<1>5. /\ SameSide(t, v) /\ t.life = v.life
      /\ then = "none" => Stays(t.chain, v.chain, PlainOps)
      /\ then = "createAnswer" /\ Idle(v.chain, PlainOps) =>
           Sole(t.chain, PlainOps, AnswerSteps(v.remote, v.created))
  BY <1>2, <1>4, AddPhases
<1> QED BY <1>3, <1>5 DEF SameSide

LEMMA OfferTakenPhase ==
  ASSUME IInv, PhaseInv, NEW d \in Side, NEW s, NEW o, Begun(d, s, o),
         o.op = "takeOffer", OfferTaken(d, s, o), UNCHANGED upset
  PROVE  PhaseInv'
<1>1. /\ Made \in Nat /\ s \in SessionsTo(Made) /\ o \in OpsTo(Made) /\ side[d].life # "closed"
      /\ s.signaling = side[d].signaling
  BY OpStarts
<1>2. o \notin PlainOps
  BY OpIsNotPlain
<1> DEFINE i == side["initiator"]
           r == side["responder"]
           toI == net["initiator"]
           toR == net["responder"]
<1>3. ASSUME Phase(i, r, toI, toR)
      PROVE  /\ d = "responder" /\ Idle(s.chain, PlainOps) /\ o.n = i.offers
             /\ Taking(i, r, toI, toR)
  BY <1>2, <1>3, OpTells DEF Side
<1>4. CASE s.signaling = "have-local-offer"
  <2>1. Become(d, s) /\ UNCHANGED net
    BY <1>4 DEF OfferTaken
  <2>2. ~Phase(i, r, toI, toR)
    BY <1>1, <1>3, <1>4 DEF Taking
  <2> QED BY <1>1, <2>1, <2>2, SidePhases
<1>5. CASE s.signaling # "have-local-offer"
  <2>1. PICK u : u = [s EXCEPT !.signaling = "have-remote-offer", !.remote = o.n]
    OBVIOUS
  <2>2. u \in SessionsTo(Made)
    BY <1>1, <2>1, OpTyped DEF SessionsTo
  <2>3. u.signaling = "have-remote-offer" /\ u.remote = o.n /\ u.chain = s.chain
    BY <1>1, <2>1 DEF SessionsTo
  <2>4. PICK t : t = Flush(u, "createAnswer")
    OBVIOUS
  <2>5. /\ SameSide(t, u)
        /\ Idle(u.chain, PlainOps) => Sole(t.chain, PlainOps, AnswerSteps(u.remote, u.created))
    BY <1>1, <2>2, <2>4, FlushPhases
  <2>6. Become(d, t) /\ UNCHANGED net
    BY <1>5, <2>1, <2>4 DEF OfferTaken
  <2>7. ASSUME Phase(i, r, toI, toR) PROVE d = "responder" /\ Phase(i, t, toI, toR)
    <3>1. /\ d = "responder" /\ Idle(s.chain, PlainOps) /\ o.n = i.offers
          /\ Taking(i, r, toI, toR)
      BY <1>3, <2>7
    <3>2. Answers(i, t, toI, toR)
      BY <2>3, <2>5, <3>1 DEF Taking, Answers, SameSide
    <3> QED BY <3>1, <3>2 DEF Phase
  <2> QED BY <1>1, <2>6, <2>7, SidePhases
<1> QED BY <1>4, <1>5

LEMMA AnswerCreatedPhase ==
  ASSUME IInv, PhaseInv, NEW d \in Side, NEW s, NEW o, Begun(d, s, o),
         o.op = "createAnswer", AnswerCreated(d, s, o), UNCHANGED upset
  PROVE  PhaseInv'
<1>1. /\ Made \in Nat /\ s \in SessionsTo(Made) /\ o \in OpsTo(Made) /\ side[d].life # "closed"
      /\ s.signaling = side[d].signaling /\ s.remote = side[d].remote
  BY OpStarts
<1>2. o \notin PlainOps
  BY OpIsNotPlain
<1> DEFINE i == side["initiator"]
           r == side["responder"]
           toI == net["initiator"]
           toR == net["responder"]
<1>3. ASSUME Phase(i, r, toI, toR)
      PROVE  d = "responder" /\ Idle(s.chain, PlainOps) /\ Answers(i, r, toI, toR)
  BY <1>2, <1>3, OpTells DEF Side
<1>4. CASE s.signaling # "have-remote-offer"
  <2>1. Become(d, s) /\ UNCHANGED net
    BY <1>4 DEF AnswerCreated
  <2>2. ~Phase(i, r, toI, toR)
    BY <1>1, <1>3, <1>4 DEF Answers
  <2> QED BY <1>1, <2>1, <2>2, SidePhases
<1>5. CASE s.signaling = "have-remote-offer"
  <2>1. PICK u : u = [s EXCEPT !.created = s.remote]
    OBVIOUS
  <2>2. PICK x : x = Op("setAnswer", s.remote)
    OBVIOUS
  <2>3. PICK t : t = Call(u, x)
    OBVIOUS
  <2>4. s.remote \in 0..Made
    BY <1>1, SessionTyped
  <2>5. /\ u \in SessionsTo(Made) /\ u.chain = s.chain /\ u.created = s.remote
        /\ u.signaling = s.signaling /\ u.remote = s.remote
    BY <1>1, <2>1, <2>4 DEF SessionsTo
  <2>6. x \in OpsTo(Made) /\ x.op = "setAnswer"
    BY <1>1, <2>2, <2>4, OpMade DEF Operations
  <2>7. /\ t.chain = Append(s.chain, x) /\ t.created = s.remote /\ t.signaling = s.signaling
        /\ t.remote = s.remote
    BY <1>1, <2>3, <2>5, <2>6, CallFacts
  <2>8. Become(d, t) /\ UNCHANGED net
    BY <1>5, <2>1, <2>2, <2>3 DEF AnswerCreated
  <2>9. ASSUME Phase(i, r, toI, toR) PROVE d = "responder" /\ Phase(i, t, toI, toR)
    <3>1. d = "responder" /\ Idle(s.chain, PlainOps) /\ Answers(i, r, toI, toR)
      BY <1>3, <2>9
    <3>2. s.remote = i.offers
      BY <1>1, <3>1 DEF Answers
    <3>3. x \in AnswerSteps(i.offers, t.created)
      BY <2>2, <2>7, <3>2 DEF AnswerSteps
    <3>4. x \notin PlainOps /\ s.chain \in Seq(OpsTo(Made))
      BY <1>1, <2>6, PlainOp, SessionTyped
    <3>5. Sole(t.chain, PlainOps, AnswerSteps(i.offers, t.created))
      BY <2>6, <2>7, <3>1, <3>3, <3>4, OnePlainMore
    <3>6. Answers(i, t, toI, toR)
      BY <1>1, <2>7, <3>1, <3>5 DEF Answers
    <3> QED BY <3>1, <3>6 DEF Phase
  <2> QED BY <1>1, <2>8, <2>9, SidePhases
<1> QED BY <1>4, <1>5

LEMMA AnswerSetPhase ==
  ASSUME IInv, PhaseInv, NEW d \in Side, NEW s, NEW o, Begun(d, s, o),
         o.op = "setAnswer", AnswerSet(d, s, o), UNCHANGED upset
  PROVE  PhaseInv'
<1>1. /\ Made \in Nat /\ s \in SessionsTo(Made) /\ o \in OpsTo(Made) /\ side[d].life # "closed"
      /\ s.signaling = side[d].signaling /\ s.remote = side[d].remote /\ s.created = side[d].created
      /\ side[d].chain # <<>> /\ o = Head(side[d].chain) /\ side[d] \in SessionsTo(Made)
  BY OpStarts
<1>2. o \notin PlainOps
  BY OpIsNotPlain
<1> DEFINE i == side["initiator"]
           r == side["responder"]
           toI == net["initiator"]
           toR == net["responder"]
<1>3. ASSUME Phase(i, r, toI, toR)
      PROVE  /\ d = "responder" /\ Idle(s.chain, PlainOps) /\ Answers(i, r, toI, toR)
             /\ o.n = i.offers /\ s.created = o.n
  <2>1. d = "responder" /\ Idle(s.chain, PlainOps) /\ Answers(i, r, toI, toR) /\ o.n = i.offers
    BY <1>2, <1>3, OpTells DEF Side
  <2>2. side[d].chain \in Seq(OpsTo(Made))
    BY <1>1, SessionTyped
  <2>3. Sole(side[d].chain, PlainOps, AnswerSteps(i.offers, r.created))
    BY <2>1 DEF Answers
  <2>4. o \in AnswerSteps(i.offers, r.created)
    BY <1>1, <1>2, <2>2, <2>3, HeadOfPlain
  <2>5. r.created = i.offers
    BY <2>4, StepsDiffer
  <2> QED BY <1>1, <2>1, <2>5
<1>4. CASE s.signaling = "have-remote-offer" /\ o.n = s.created
  <2>1. PICK t : t = Searching([s EXCEPT !.signaling = "stable", !.local = o.n, !.created = 0])
    OBVIOUS
  <2>2. PICK m : m = [type |-> "answer", n |-> o.n]
    OBVIOUS
  <2>3. t.signaling = "stable" /\ t.local = o.n /\ t.remote = s.remote /\ t.chain = s.chain
    BY <1>1, <2>1 DEF SessionsTo, Searching
  <2>4. Become(d, t) /\ net' = [net EXCEPT ![Other(d)] = Append(@, m)]
    BY <1>4, <2>1, <2>2 DEF AnswerSet, Signal
  <2>5. m \in SignalsTo(Made) /\ m \notin PlainSignals
    BY <1>1, <2>2, OpTyped DEF SignalsTo, PlainSignals
  <2>6. net \in [Side -> Seq(SignalsTo(Made))] /\ toI \in Seq(SignalsTo(Made))
    BY DEF IInv, Typed, Side
  <2>7. ASSUME Phase(i, r, toI, toR)
        PROVE  d = "responder" /\ Phase(i, t, net'["initiator"], net'["responder"])
    <3>1. /\ d = "responder" /\ Idle(s.chain, PlainOps) /\ Answers(i, r, toI, toR)
          /\ o.n = i.offers
      BY <1>3, <2>7
    <3>2. net'["responder"] = toR /\ net'["initiator"] = Append(toI, m)
      BY <2>4, <2>6, <3>1 DEF Other, Side
    <3>3. Sole(Append(toI, m), PlainSignals, Sent("answer", i.offers))
      <4>1. Idle(toI, PlainSignals)
        BY <3>1 DEF Answers
      <4> QED BY <2>2, <2>5, <2>6, <3>1, <4>1, OnePlainMore DEF Sent
    <3>4. Answered(i, t, Append(toI, m), toR)
      BY <1>1, <2>3, <3>1, <3>3 DEF Answers, Answered, Settled
    <3> QED BY <3>1, <3>2, <3>4 DEF Phase
  <2> QED BY <1>1, <2>4, <2>7, SidePhases
<1>5. CASE ~(s.signaling = "have-remote-offer" /\ o.n = s.created)
  <2>1. Become(d, s) /\ UNCHANGED net
    BY <1>5 DEF AnswerSet
  <2>2. ~Phase(i, r, toI, toR)
    BY <1>1, <1>3, <1>5 DEF Answers
  <2> QED BY <1>1, <2>1, <2>2, SidePhases
<1> QED BY <1>4, <1>5

LEMMA AnswerTakenPhase ==
  ASSUME IInv, PhaseInv, NEW d \in Side, NEW s, NEW o, Begun(d, s, o),
         o.op = "takeAnswer", AnswerTaken(d, s, o), UNCHANGED upset
  PROVE  PhaseInv'
<1>1. /\ Made \in Nat /\ s \in SessionsTo(Made) /\ o \in OpsTo(Made) /\ side[d].life # "closed"
      /\ s.signaling = side[d].signaling /\ s.local = side[d].local /\ s.offers = side[d].offers
  BY OpStarts
<1>2. o \notin PlainOps
  BY OpIsNotPlain
<1> DEFINE i == side["initiator"]
           r == side["responder"]
           toI == net["initiator"]
           toR == net["responder"]
<1>3. ASSUME Phase(i, r, toI, toR)
      PROVE  /\ d = "initiator" /\ Idle(s.chain, PlainOps) /\ o.n = i.offers
             /\ Finishing(i, r, toI, toR)
  BY <1>2, <1>3, OpTells DEF Side
<1>4. CASE s.signaling # "have-local-offer"
  <2>1. Become(d, s) /\ UNCHANGED net
    BY <1>4 DEF AnswerTaken
  <2>2. ~Phase(i, r, toI, toR)
    BY <1>1, <1>3, <1>4 DEF Finishing, Offered
  <2> QED BY <1>1, <2>1, <2>2, SidePhases
<1>5. CASE s.signaling = "have-local-offer"
  <2>1. PICK u : u = Searching([s EXCEPT !.signaling = "stable", !.remote = o.n, !.created = 0])
    OBVIOUS
  <2>2. u \in SessionsTo(Made)
    <3>1. o.n \in 0..Made /\ 0 \in 0..Made
      BY <1>1, OpTyped
    <3> QED BY <1>1, <2>1, <3>1 DEF SessionsTo, Searching
  <2>3. /\ u.signaling = "stable" /\ u.remote = o.n /\ u.local = s.local /\ u.chain = s.chain
        /\ u.offers = s.offers
    BY <1>1, <2>1 DEF SessionsTo, Searching
  <2>4. PICK t : t = Flush(u, "none")
    OBVIOUS
  <2>5. SameSide(t, u) /\ Stays(t.chain, u.chain, PlainOps)
    BY <1>1, <2>2, <2>4, FlushPhases
  <2>6. Become(d, t) /\ UNCHANGED net
    BY <1>5, <2>1, <2>4 DEF AnswerTaken
  <2>7. ASSUME Phase(i, r, toI, toR) PROVE d = "initiator" /\ Phase(t, r, toI, toR)
    <3>1. /\ d = "initiator" /\ Idle(s.chain, PlainOps) /\ o.n = i.offers
          /\ Finishing(i, r, toI, toR)
      BY <1>3, <2>7
    <3>2. Finished(t, r, toI, toR)
      BY <1>1, <2>3, <2>5, <3>1 DEF Finishing, Finished, Offered, Settled, SameSide, Stays
    <3> QED BY <3>1, <3>2 DEF Phase
  <2> QED BY <1>1, <2>6, <2>7, SidePhases
<1> QED BY <1>4, <1>5

LEMMA CandidateTriedPhase ==
  ASSUME IInv, PhaseInv, NEW d \in Side, NEW s, NEW o, Begun(d, s, o),
         o.op = "add", CandidateTried(d, s, o), UNCHANGED upset
  PROVE  PhaseInv'
<1>1. /\ Made \in Nat /\ s \in SessionsTo(Made) /\ o \in OpsTo(Made) /\ side[d].life # "closed"
      /\ s.signaling = side[d].signaling /\ s.local = side[d].local /\ s.remote = side[d].remote
      /\ s.created = side[d].created /\ s.offers = side[d].offers
      /\ side[d].chain # <<>> /\ o = Head(side[d].chain) /\ side[d] \in SessionsTo(Made)
      /\ s.chain = Tail(side[d].chain)
  BY OpStarts
<1>2. PICK u : u = [s EXCEPT !.added = IF o.n = s.remote THEN @ \cup {o.n} ELSE @]
  OBVIOUS
<1>3. u \in SessionsTo(Made)
  <2>1. s.added \cup {o.n} \in SUBSET (0..Made) /\ s.added \in SUBSET (0..Made)
    BY <1>1, OpTyped, SessionTyped
  <2>2. PICK a \in SUBSET (0..Made) : a = IF o.n = s.remote THEN s.added \cup {o.n} ELSE s.added
    BY <2>1
  <2>3. u = [s EXCEPT !.added = a]
    BY <1>2, <2>2
  <2> QED BY <1>1, <2>3 DEF SessionsTo
<1>4. u.chain = s.chain /\ SameSide(u, side[d])
  BY <1>1, <1>2 DEF SessionsTo, SameSide
<1>5. PICK t : t = Add(u, o.rest, o.then)
  OBVIOUS
<1>6. o.rest \in Seq(0..Made) /\ o.then \in {"none", "createAnswer"}
  BY <1>1, OpTyped
<1>7. /\ SameSide(t, u)
      /\ o.then = "none" => Stays(t.chain, u.chain, PlainOps)
      /\ o.then = "createAnswer" /\ Idle(u.chain, PlainOps) =>
           Sole(t.chain, PlainOps, AnswerSteps(u.remote, u.created))
  BY <1>1, <1>3, <1>5, <1>6, AddPhases
<1>8. Become(d, t) /\ UNCHANGED net /\ SameSide(t, side[d])
  BY <1>2, <1>4, <1>5, <1>7 DEF CandidateTried, SameSide
<1>9. CASE o.then = "none"
  <2>1. o \in PlainOps /\ side[d].chain \in Seq(OpsTo(Made))
    BY <1>1, <1>9, PlainOp, SessionTyped
  <2>2. Stays(s.chain, side[d].chain, PlainOps)
    BY <1>1, <2>1, PlainEnds
  <2>3. Stays(t.chain, side[d].chain, PlainOps)
    BY <1>4, <1>7, <1>9, <2>2 DEF Stays
  <2>4. \A e \in Side : Stays(net'[e], net[e], PlainSignals)
    BY <1>8, NothingChanges
  <2> QED BY <1>1, <1>8, <2>3, <2>4, UnseenStep
<1>10. CASE o.then = "createAnswer"
  <2> DEFINE i == side["initiator"]
             r == side["responder"]
             toI == net["initiator"]
             toR == net["responder"]
  <2>1. o \notin PlainOps
    BY <1>1, <1>10, PlainOp
  <2>2. ASSUME Phase(i, r, toI, toR) PROVE d = "responder" /\ Phase(i, t, toI, toR)
    <3>1. d = "responder" /\ Idle(s.chain, PlainOps) /\ Answers(i, r, toI, toR)
      BY <2>1, <2>2, OpTells DEF Side
    <3>2. u.remote = i.offers /\ t.created = u.created
      BY <1>4, <1>7, <3>1 DEF Answers, SameSide
    <3>3. Sole(t.chain, PlainOps, AnswerSteps(i.offers, t.created))
      BY <1>4, <1>7, <1>10, <3>1, <3>2
    <3>4. Answers(i, t, toI, toR)
      BY <1>8, <3>1, <3>3 DEF Answers, SameSide
    <3> QED BY <3>1, <3>4 DEF Phase
  <2> QED BY <1>1, <1>8, <2>2, SidePhases
<1> QED BY <1>6, <1>9, <1>10

LEMMA OpEndsPhase ==
  ASSUME IInv, PhaseInv, NEW d \in Side, OpEnds(d)
  PROVE  PhaseInv'
<1>1. PICK o : o = Head(side[d].chain)
  OBVIOUS
<1>2. PICK s : s = [side[d] EXCEPT !.chain = Tail(@)]
  OBVIOUS
<1>3. Begun(d, s, o) /\ UNCHANGED upset
  BY <1>1, <1>2 DEF OpEnds, Begun
<1>4. \/ o.op = "createOffer" /\ OfferCreated(d, s, o)
      \/ o.op = "setOffer" /\ OfferSet(d, s, o)
      \/ o.op = "takeOffer" /\ OfferTaken(d, s, o)
      \/ o.op = "createAnswer" /\ AnswerCreated(d, s, o)
      \/ o.op = "setAnswer" /\ AnswerSet(d, s, o)
      \/ o.op = "takeAnswer" /\ AnswerTaken(d, s, o)
      \/ o.op = "add" /\ CandidateTried(d, s, o)
  BY <1>1, <1>2 DEF OpEnds
<1> QED BY <1>3, <1>4, OfferCreatedPhase, OfferSetPhase, OfferTakenPhase, AnswerCreatedPhase,
           AnswerSetPhase, AnswerTakenPhase, CandidateTriedPhase

LEMMA OfferArrivesPhase ==
  ASSUME IInv, PhaseInv, NEW d \in Side, net[d] # <<>>, NEW m, m = Head(net[d]),
         m.type = "offer", side[d].life # "closed", Become(d, HandleOffer(side[d], m.n)),
         net' = [net EXCEPT ![d] = Tail(@)], UNCHANGED upset
  PROVE  PhaseInv'
<1> DEFINE i == side["initiator"]
           r == side["responder"]
           toI == net["initiator"]
           toR == net["responder"]
<1>1. d = "responder" /\ m \in SignalsTo(Made) /\ m.n \in 0..Made
  BY InboxFacts DEF Side
<1>2. /\ Made \in Nat /\ r \in SessionsTo(Made) /\ r.chain \in Seq(OpsTo(Made))
      /\ toR \in Seq(SignalsTo(Made)) /\ toR # <<>> /\ m = Head(toR)
      /\ net \in [Side -> Seq(SignalsTo(Made))]
  <2>1. Made \in Nat /\ side[d] \in SessionsTo(Made) /\ net[d] \in Seq(SignalsTo(Made))
    BY SideFacts
  <2>2. side[d].chain \in Seq(OpsTo(Made))
    BY <2>1, SessionTyped
  <2>3. net \in [Side -> Seq(SignalsTo(Made))]
    BY DEF IInv, Typed
  <2> QED BY <1>1, <2>1, <2>2, <2>3
<1>3. PICK x : x = Op("takeOffer", m.n)
  OBVIOUS
<1>4. x \in OpsTo(Made) /\ x.op = "takeOffer" /\ x \notin PlainOps
  BY <1>1, <1>2, <1>3, OpMade, PlainOp DEF Operations
<1>5. PICK u : u = [r EXCEPT !.life = "live", !.connectTimer = @ \/ ~r.isOpen]
  OBVIOUS
<1>6. u \in SessionsTo(Made) /\ u.chain = r.chain /\ u.signaling = r.signaling
  <2>1. (r.connectTimer \/ ~r.isOpen) \in BOOLEAN
    OBVIOUS
  <2>2. PICK b \in BOOLEAN : u = [r EXCEPT !.life = "live", !.connectTimer = b]
    BY <1>5, <2>1
  <2> QED BY <1>2, <2>2 DEF SessionsTo
<1>7. PICK t : t = Call(u, x)
  OBVIOUS
<1>8. t.chain = Append(r.chain, x) /\ t.signaling = r.signaling
  <2>1. Made \in Nat /\ u \in SessionsTo(Made) /\ x \in OpsTo(Made)
    BY <1>2, <1>4, <1>6
  <2>2. t.chain = Append(u.chain, x) /\ t.signaling = u.signaling
    BY <1>7, <2>1, CallFacts
  <2> QED BY <1>6, <2>2
<1>9. Become(d, t)
  BY <1>1, <1>3, <1>5, <1>7 DEF HandleOffer
<1>10. ASSUME Phase(i, r, toI, toR)
       PROVE  Phase(i, t, net'["initiator"], net'["responder"])
  <2>1. m \notin PlainSignals
    BY <1>1, <1>2, PlainSignal
  <2>2. Idle(Tail(toR), PlainSignals) /\ Proposed(i, r, toI, toR) /\ m \in Sent("offer", i.offers)
    BY <1>2, <1>10, <2>1, PhaseOfHead
  <2>3. net'["initiator"] = toI /\ net'["responder"] = Tail(toR)
    BY <1>1, <1>2 DEF Side
  <2>4. m.n = i.offers
    BY <2>2 DEF Sent
  <2>5. Sole(t.chain, PlainOps, TakeOffer(i.offers))
    BY <1>2, <1>3, <1>4, <1>8, <2>2, <2>4, OnePlainMore DEF Proposed, TakeOffer
  <2>6. Taking(i, t, toI, Tail(toR))
    BY <1>8, <2>2, <2>5 DEF Proposed, Taking
  <2> QED BY <2>3, <2>6 DEF Phase
<1> QED BY <1>1, <1>9, <1>10, SidePhases

LEMMA AnswerArrivesPhase ==
  ASSUME IInv, PhaseInv, NEW d \in Side, net[d] # <<>>, NEW m, m = Head(net[d]),
         m.type = "answer", side[d].life = "live", Become(d, HandleAnswer(side[d], m.n)),
         net' = [net EXCEPT ![d] = Tail(@)], UNCHANGED upset
  PROVE  PhaseInv'
<1> DEFINE i == side["initiator"]
           r == side["responder"]
           toI == net["initiator"]
           toR == net["responder"]
<1>1. d = "initiator" /\ m \in SignalsTo(Made) /\ m.n \in 0..Made
  BY InboxFacts
<1>2. /\ Made \in Nat /\ i \in SessionsTo(Made) /\ i.chain \in Seq(OpsTo(Made))
      /\ toI \in Seq(SignalsTo(Made)) /\ toI # <<>> /\ m = Head(toI)
      /\ net \in [Side -> Seq(SignalsTo(Made))]
  <2>1. Made \in Nat /\ side[d] \in SessionsTo(Made) /\ net[d] \in Seq(SignalsTo(Made))
    BY SideFacts
  <2>2. side[d].chain \in Seq(OpsTo(Made))
    BY <2>1, SessionTyped
  <2>3. net \in [Side -> Seq(SignalsTo(Made))]
    BY DEF IInv, Typed
  <2> QED BY <1>1, <2>1, <2>2, <2>3
<1>3. PICK x : x = Op("takeAnswer", m.n)
  OBVIOUS
<1>4. x \in OpsTo(Made) /\ x.op = "takeAnswer" /\ x \notin PlainOps
  BY <1>1, <1>2, <1>3, OpMade, PlainOp DEF Operations
<1>5. PICK t : t = Call(i, x)
  OBVIOUS
<1>6. /\ t.chain = Append(i.chain, x) /\ t.signaling = i.signaling /\ t.local = i.local
      /\ t.offers = i.offers
  <2>1. Made \in Nat /\ i \in SessionsTo(Made) /\ x \in OpsTo(Made)
    BY <1>2, <1>4
  <2> HIDE DEF i
  <2> QED BY <1>5, <2>1, CallFacts
<1>7. Become(d, t)
  BY <1>1, <1>3, <1>5 DEF HandleAnswer
<1>8. ASSUME Phase(i, r, toI, toR)
      PROVE  Phase(t, r, net'["initiator"], net'["responder"])
  <2>1. m \notin PlainSignals
    BY <1>1, <1>2, PlainSignal
  <2>2. Idle(Tail(toI), PlainSignals) /\ Answered(i, r, toI, toR) /\ m \in Sent("answer", i.offers)
    BY <1>2, <1>8, <2>1, PhaseOfHead
  <2>3. net'["initiator"] = Tail(toI) /\ net'["responder"] = toR
    BY <1>1, <1>2 DEF Side
  <2>4. m.n = i.offers
    BY <2>2 DEF Sent
  <2>5. Sole(t.chain, PlainOps, TakeAnswer(i.offers))
    BY <1>2, <1>3, <1>4, <1>6, <2>2, <2>4, OnePlainMore DEF Answered, TakeAnswer
  <2>6. Finishing(t, r, Tail(toI), toR)
    BY <1>6, <2>2, <2>5 DEF Answered, Finishing, Offered
  <2> QED BY <2>3, <2>6 DEF Phase
<1> QED BY <1>1, <1>7, <1>8, SidePhases

\* A candidate arrives, or what is dropped.
LEMMA CandidateArrivesPhase ==
  ASSUME IInv, PhaseInv, NEW d \in Side, net[d] # <<>>, NEW m, m = Head(net[d]),
         m.type = "candidate", NEW t, Become(d, t),
         t = side[d] \/ t = HandleCandidate(side[d], m.n),
         net' = [net EXCEPT ![d] = Tail(@)], UNCHANGED upset
  PROVE  PhaseInv'
<1>1. Made \in Nat /\ side[d] \in SessionsTo(Made) /\ m \in SignalsTo(Made) /\ m.n \in 0..Made
      /\ net \in [Side -> Seq(SignalsTo(Made))]
  BY InboxFacts, SideFacts DEF IInv, Typed
<1>2. SameSide(t, side[d]) /\ t.life = side[d].life /\ Stays(t.chain, side[d].chain, PlainOps)
  <2>1. CASE t = side[d]
    BY <2>1, NothingChanges DEF SameSide
  <2>2. CASE t = HandleCandidate(side[d], m.n) /\ side[d].remoteDescriptionSet
    <3>1. t = Add(side[d], <<m.n>>, "none")
      BY <2>2 DEF HandleCandidate
    <3>2. <<m.n>> \in Seq(0..Made)
      BY <1>1
    <3> QED BY <1>1, <3>1, <3>2, AddPhases
  <2>3. CASE t = HandleCandidate(side[d], m.n) /\ ~side[d].remoteDescriptionSet
    <3>1. t = [side[d] EXCEPT !.pendingCandidates = Append(@, m.n)]
      BY <2>3 DEF HandleCandidate
    <3>2. SameSide(t, side[d]) /\ t.life = side[d].life /\ t.chain = side[d].chain
      BY <1>1, <3>1 DEF SessionsTo, SameSide
    <3> QED BY <3>2, NothingChanges
  <2> QED BY <2>1, <2>2, <2>3
<1>3. ASSUME NEW e \in Side PROVE Stays(net'[e], net[e], PlainSignals)
  <2>1. CASE e = d
    <3>1. m \in PlainSignals /\ net'[e] = Tail(net[d])
      BY <1>1, <2>1, PlainSignal
    <3> QED BY <1>1, <2>1, <3>1, PlainEnds
  <2>2. CASE e # d
    <3>1. net'[e] = net[e]
      BY <1>1, <2>2
    <3> QED BY <3>1, NothingChanges
  <2> QED BY <2>1, <2>2
<1> QED BY <1>2, <1>3, UnseenStep

LEMMA ReceivePhase ==
  ASSUME IInv, PhaseInv, NEW d \in Side, Receive(d)
  PROVE  PhaseInv'
<1>1. PICK m : m = Head(net[d])
  OBVIOUS
<1>2. PICK t : t = Handle(d, side[d], m)
  OBVIOUS
<1>3. /\ net[d] # <<>> /\ Become(d, t) /\ net' = [net EXCEPT ![d] = Tail(@)] /\ UNCHANGED upset
  BY <1>1, <1>2 DEF Receive
<1>4. /\ m.type \in {"offer", "answer", "candidate"}
      /\ d = "initiator" => m.type # "offer"
      /\ d # "initiator" => m.type # "answer"
  BY <1>1, <1>3, InboxFacts
<1>5. side[d] \in SessionsTo(Made) /\ Made \in Nat /\ (d = "initiator" => side[d].life # "none")
      /\ side[d].life \in {"none", "live", "closed"}
  BY SideFacts, SessionTyped DEF RoleOK, OfferOK
<1>6. CASE m.type = "offer" /\ side[d].life # "closed"
  <2>1. t = HandleOffer(side[d], m.n)
    BY <1>2, <1>6 DEF Handle
  <2> QED BY <1>1, <1>3, <1>6, <2>1, OfferArrivesPhase
<1>7. CASE m.type = "answer" /\ side[d].life = "live"
  <2>1. t = HandleAnswer(side[d], m.n)
    BY <1>2, <1>7 DEF Handle
  <2> QED BY <1>1, <1>3, <1>7, <2>1, AnswerArrivesPhase
<1>8. CASE m.type = "candidate"
  <2>1. t = side[d] \/ t = HandleCandidate(side[d], m.n)
    BY <1>2, <1>8 DEF Handle
  <2> QED BY <1>1, <1>3, <1>8, <2>1, CandidateArrivesPhase
<1>9. CASE m.type # "candidate" /\ side[d].life = "closed"
  <2>1. t = side[d]
    BY <1>2, <1>9 DEF Handle
  <2> QED BY <1>3, <1>9, <2>1, ClosedPhases
<1> QED BY <1>4, <1>5, <1>6, <1>7, <1>8, <1>9

LEMMA GatherPhase ==
  ASSUME IInv, PhaseInv, NEW d \in Side, Gather(d)
  PROVE  PhaseInv'
<1>1. Made \in Nat /\ side[d] \in SessionsTo(Made) /\ net \in [Side -> Seq(SignalsTo(Made))]
      /\ Other(d) \in Side
  BY SideFacts DEF IInv, Typed, Other, Side
<1>2. PICK t : t = [side[d] EXCEPT !.gathered = side[d].local]
  OBVIOUS
<1>3. PICK m : m = [type |-> "candidate", n |-> side[d].local]
  OBVIOUS
<1>4. Become(d, t) /\ net' = [net EXCEPT ![Other(d)] = Append(@, m)] /\ UNCHANGED upset
  BY <1>2, <1>3 DEF Gather, Signal
<1>5. SameSide(t, side[d]) /\ t.life = side[d].life /\ t.chain = side[d].chain
  BY <1>1, <1>2 DEF SessionsTo, SameSide
<1>6. m \in SignalsTo(Made) /\ m \in PlainSignals
  <2>1. side[d].local \in 0..Made /\ side[d].local \in Nat
    BY <1>1, SessionTyped
  <2> QED BY <1>3, <2>1 DEF SignalsTo, PlainSignals
<1>7. ASSUME NEW e \in Side PROVE Stays(net'[e], net[e], PlainSignals)
  <2>1. CASE e = Other(d)
    <3>1. net'[e] = Append(net[e], m) /\ net[e] \in Seq(SignalsTo(Made))
      BY <1>1, <1>4, <2>1
    <3> QED BY <1>6, <3>1, OnePlainMore
  <2>2. CASE e # Other(d)
    <3>1. net'[e] = net[e]
      BY <1>1, <1>4, <2>2
    <3> QED BY <3>1, NothingChanges
  <2> QED BY <2>1, <2>2
<1> QED BY <1>4, <1>5, <1>7, NothingChanges, UnseenStep

\* What changes neither the descriptions nor what is under way.
LEMMA StillPhase ==
  ASSUME IInv, PhaseInv, NEW d \in Side, NEW t, Become(d, t), SameSide(t, side[d]),
         t.life = side[d].life, t.chain = side[d].chain, UNCHANGED net, upset => upset'
  PROVE  PhaseInv'
<1>1. \A e \in Side : Stays(net'[e], net[e], PlainSignals)
  BY NothingChanges
<1>2. Stays(t.chain, side[d].chain, PlainOps)
  BY NothingChanges
<1> QED BY <1>1, <1>2, UnseenStep

LEMMA ConnectionPhase ==
  ASSUME IInv, PhaseInv, NEW d \in Side, Connects(d) \/ ChannelOpens(d)
  PROVE  PhaseInv'
<1>1. side[d] \in SessionsTo(Made)
  BY SideFacts
<1>2. CASE Connects(d)
  <2>1. PICK t : t = [side[d] EXCEPT !.conn = "connected"]
    OBVIOUS
  <2>2. Become(d, t) /\ UNCHANGED <<net, upset>>
    BY <1>2, <2>1 DEF Connects
  <2>3. SameSide(t, side[d]) /\ t.life = side[d].life /\ t.chain = side[d].chain
    BY <1>1, <2>1 DEF SessionsTo, SameSide
  <2> QED BY <2>2, <2>3, StillPhase
<1>3. CASE ChannelOpens(d)
  <2>1. PICK t : t = [side[d] EXCEPT !.isOpen = TRUE, !.restartAttempts = 0, !.connectTimer = FALSE]
    OBVIOUS
  <2>2. Become(d, t) /\ UNCHANGED <<net, upset>>
    BY <1>3, <2>1 DEF ChannelOpens
  <2>3. SameSide(t, side[d]) /\ t.life = side[d].life /\ t.chain = side[d].chain
    BY <1>1, <2>1 DEF SessionsTo, SameSide
  <2> QED BY <2>2, <2>3, StillPhase
<1> QED BY <1>2, <1>3

LEMMA GiveUpPhase ==
  ASSUME IInv, PhaseInv, NEW d \in Side, NEW s \in SessionsTo(Made), Become(d, GiveUp(s)),
         upset => upset'
  PROVE  PhaseInv'
<1>1. GiveUp(s).life = "closed"
  BY DEF GiveUp, SessionsTo
<1> QED BY <1>1, ClosedPhases

\* A restart that overlaps no negotiation follows a finished one.
LEMMA RestartPhase ==
  ASSUME IInv, NEW s \in SessionsTo(Made), SameSide(s, side["initiator"]),
         s.chain = side["initiator"].chain, ~Negotiating(s),
         NEW r, NEW toI, NEW toR, Phase(side["initiator"], r, toI, toR),
         NEW u \in SessionsTo(Made), SameSide(u, s), u.chain = s.chain,
         NEW n, n = s.offers + 1, NEW t, t = Restarted(u, n)
  PROVE  Phase(t, r, toI, toR)
<1> DEFINE i == side["initiator"]
<1>1. Made \in Nat /\ i \in SessionsTo(Made) /\ i.offers = Made
  <2>1. "initiator" \in Side
    BY DEF Side
  <2> QED BY <2>1, SideFacts
<1>2. i.chain \in Seq(OpsTo(Made)) /\ i.signaling = "stable"
      /\ \A j \in DOMAIN i.chain : i.chain[j].op = "add"
  BY <1>1, SessionTyped DEF Negotiating, SameSide
<1>3. Finished(i, r, toI, toR)
  <2>1. ~Preparing(i, r, toI, toR)
    <3>1. ~Sole(i.chain, PlainOps, OfferSteps(i.offers))
      <4>1. \A j \in DOMAIN i.chain : i.chain[j] \notin OfferSteps(i.offers)
        BY <1>2, StepsDiffer
      <4> QED BY <4>1 DEF Sole
    <3> QED BY <3>1 DEF Preparing
  <2> QED BY <1>2, <2>1 DEF Phase, Proposed, Taking, Answers, Answered, Finishing, Offered
<1>4. PICK x : x = Op("createOffer", n)
  OBVIOUS
<1>5. n \in Nat /\ n \in 0..n /\ Made <= n
  BY <1>1 DEF SameSide
<1>6. x \in OpsTo(n) /\ x.op = "createOffer"
  BY <1>4, <1>5, OpMade DEF Operations
<1>7. x \notin PlainOps /\ x \in OfferSteps(n)
  BY <1>4, <1>5, <1>6, PlainOp DEF OfferSteps
<1>8. PICK v : v = Reoffered(u, n)
  OBVIOUS
<1>9. v \in SessionsTo(n)
  <2>1. u \in SessionsTo(n)
    BY <1>1, <1>5, TypesMonotone
  <2> QED BY <1>5, <1>8, <2>1, RestartTyped
<1>10. v.chain = i.chain /\ v.offers = n /\ v.signaling = "stable"
  BY <1>2, <1>8 DEF SessionsTo, Reoffered, SameSide
<1>11. t = Call(v, x)
  BY <1>4, <1>8 DEF Restarted
<1>12. t.chain = Append(v.chain, x) /\ t.offers = v.offers /\ t.signaling = v.signaling
  BY <1>5, <1>6, <1>9, <1>11, CallFacts
<1>13. v.chain \in Seq(OpsTo(n))
  BY <1>5, <1>9, SessionTyped
<1>14. Idle(v.chain, PlainOps)
  BY <1>3, <1>10 DEF Finished
<1>15. Sole(t.chain, PlainOps, OfferSteps(n))
  BY <1>6, <1>7, <1>12, <1>13, <1>14, OnePlainMore
<1>16. Preparing(t, r, toI, toR)
  BY <1>3, <1>10, <1>12, <1>15 DEF Finished, Preparing, Settled
<1> QED BY <1>16 DEF Phase

LEMMA TryRecoverPhase ==
  ASSUME IInv, PhaseInv, NEW d \in Side, side[d].life = "live",
         NEW c \in {"disconnected", "failed"},
         TryRecover(d, [side[d] EXCEPT !.conn = c]), UNCHANGED net
  PROVE  PhaseInv'
<1>1. Made \in Nat /\ side[d] \in SessionsTo(Made)
  BY SideFacts
<1>2. PICK s : s = [side[d] EXCEPT !.conn = c]
  OBVIOUS
<1>3. s \in SessionsTo(Made)
  <2>1. s \in SessionsTo(Made)
    BY <1>1, <1>2 DEF SessionsTo
  <2> QED BY <2>1
<1>4. SameSide(s, side[d]) /\ s.life = side[d].life /\ s.chain = side[d].chain
  BY <1>1, <1>2 DEF SessionsTo, SameSide
<1>5. TryRecover(d, s)
  BY <1>2
<1>6. upset => upset'
  BY <1>5 DEF TryRecover
<1>7. CASE RestartsUsedUp(s)
  <2>1. Become(d, GiveUp(s))
    BY <1>5, <1>7 DEF TryRecover
  <2> QED BY <1>3, <1>6, <2>1, GiveUpPhase
<1>8. CASE ~RestartsUsedUp(s)
  <2>1. PICK u : u = [s EXCEPT !.restartAttempts = @ + 1]
    OBVIOUS
  <2>2. u \in SessionsTo(Made)
    <3>1. s.restartAttempts \in 0..MaxRestarts /\ MaxRestarts \in Nat
      BY <1>1, <1>3, SessionTyped, LinkAssumption
    <3>2. s.restartAttempts + 1 \in 0..MaxRestarts
      BY <1>8, <3>1 DEF RestartsUsedUp
    <3> QED BY <1>3, <2>1, <3>2 DEF SessionsTo
  <2>3. SameSide(u, s) /\ u.life = s.life /\ u.chain = s.chain
    BY <1>3, <2>1 DEF SessionsTo, SameSide
  <2>4. CASE d = "initiator"
    <3>1. PICK n : n = s.offers + 1
      OBVIOUS
    <3>2. PICK t : t = Restarted(u, n)
      OBVIOUS
    <3>3. Become(d, t) /\ upset' = (upset \/ Negotiating(s))
      BY <1>5, <1>8, <2>1, <2>4, <3>1, <3>2 DEF TryRecover, Restarted, Reoffered
    <3>4. ASSUME ~upset', Phase(side["initiator"], side["responder"], net["initiator"], net["responder"])
          PROVE  Phase(t, side["responder"], net["initiator"], net["responder"])
      BY <1>3, <1>4, <2>2, <2>3, <2>4, <3>1, <3>2, <3>3, <3>4, RestartPhase
    <3> QED BY <1>6, <2>4, <3>3, <3>4, SidePhases
  <2>5. CASE d # "initiator"
    <3>1. Become(d, u)
      BY <1>5, <1>8, <2>1, <2>5 DEF TryRecover
    <3>2. SameSide(u, side[d])
      BY <1>4, <2>3 DEF SameSide
    <3> QED BY <1>4, <1>6, <2>3, <3>1, <3>2, StillPhase
  <2> QED BY <2>4, <2>5
<1> QED BY <1>7, <1>8

LEMMA StepKeepsPhaseInv == IInv /\ PhaseInv /\ [Next]_vars => PhaseInv'
<1> SUFFICES ASSUME IInv, PhaseInv, [Next]_vars PROVE PhaseInv'
  OBVIOUS
<1>1. \A d \in Side : side[d] \in SessionsTo(Made)
  BY SideFacts
<1>2. CASE Vanishes
  <2>1. "responder" \in Side
    BY DEF Side
  <2> QED BY <1>1, <1>2, <2>1, GiveUpPhase DEF Vanishes
<1>3. ASSUME NEW d \in Side, Step(d) PROVE PhaseInv'
  <2>1. CASE OpEnds(d)
    BY <2>1, OpEndsPhase
  <2>2. CASE Receive(d)
    BY <2>2, ReceivePhase
  <2>3. CASE Gather(d)
    BY <2>3, GatherPhase
  <2>4. CASE SignalsLost(d)
    BY <2>4 DEF SignalsLost, PhaseInv
  <2>5. CASE Connects(d) \/ ChannelOpens(d)
    BY <2>5, ConnectionPhase
  <2>6. CASE Disconnects(d)
    BY <2>6, TryRecoverPhase DEF Disconnects
  <2>7. CASE Fails(d)
    BY <2>7, TryRecoverPhase DEF Fails
  <2>8. CASE ConnectTimeout(d)
    BY <1>1, <2>8, GiveUpPhase DEF ConnectTimeout
  <2> QED BY <1>3, <2>1, <2>2, <2>3, <2>4, <2>5, <2>6, <2>7, <2>8 DEF Step
<1>4. CASE UNCHANGED vars
  BY <1>4 DEF vars, PhaseInv
<1> QED BY <1>2, <1>3, <1>4 DEF Next

LEMMA InitPhaseInv == Init => PhaseInv
<1> SUFFICES ASSUME Init PROVE PhaseInv
  OBVIOUS
<1>1. PICK x : x = Op("createOffer", 1)
  OBVIOUS
<1>2. PICK i : i = Session("live", <<x>>)
  OBVIOUS
<1>3. PICK r : r = Session("none", <<>>)
  OBVIOUS
<1>4. side["initiator"] = i /\ side["responder"] = r /\ net["initiator"] = <<>> /\ net["responder"] = <<>>
  BY <1>1, <1>2, <1>3 DEF Init, Side
<1>5. Len(<<x>>) = 1 /\ DOMAIN <<x>> = {1} /\ <<x>>[1] = x /\ DOMAIN <<>> = {}
  OBVIOUS
<1>6. i.signaling = "stable" /\ i.chain = <<x>> /\ i.offers = 1
      /\ r.signaling = "stable" /\ r.chain = <<>>
  BY <1>2, <1>3, <1>5 DEF Session
<1>7. x \in OfferSteps(1) /\ x \notin PlainOps
  <2>1. x \in OfferSteps(1)
    BY <1>1 DEF OfferSteps
  <2> QED BY <2>1, StepsDiffer
<1>8. Sole(<<x>>, PlainOps, OfferSteps(1)) /\ \A P : Idle(<<>>, P)
  BY <1>5, <1>7 DEF Sole, Idle
<1>9. Preparing(i, r, <<>>, <<>>)
  BY <1>6, <1>8 DEF Preparing
<1> QED BY <1>4, <1>9 DEF Phase, PhaseInv

\* A negotiation goes through its phases, whatever candidates are on their way
\* and however its operations and signals interleave: at most one offer or answer
\* is under way, and it is the latest (createAndSendOffer(), handleOffer(),
\* handleAnswer() and tryRecover(), PeerSession.ts:87-185).
THEOREM PeerLinkPhases == Spec => []PhaseInv
BY PeerLinkInductive, InitPhaseInv, StepKeepsPhaseInv, PTL DEF Spec

LEMMA PhasesAgree == IInv /\ PhaseInv => NegotiationAgrees
<1> SUFFICES ASSUME PhaseInv, Live, ~upset, \A d \in Side : side[d].chain = <<>> /\ net[d] = <<>>
             PROVE  Agreed /\ side["initiator"].local = side["initiator"].offers
  BY DEF NegotiationAgrees
<1> DEFINE i == side["initiator"]
           r == side["responder"]
<1>1. /\ i.life # "closed" /\ i.chain = <<>> /\ net["initiator"] = <<>>
      /\ r.life # "closed" /\ r.chain = <<>> /\ net["responder"] = <<>>
  BY DEF Live, Side
<1>2. Phase(i, r, <<>>, <<>>)
  BY <1>1 DEF PhaseInv, Side
<1>3. Settled(i, i.offers) /\ Settled(r, i.offers)
  BY <1>1, <1>2, NothingUnderWay
<1> QED BY <1>3 DEF Settled, Agreed, Side

\* A negotiation that nothing disturbed ends with both sides on the same, latest
\* offer, after any number of restarts, each begun when the last negotiation was
\* over (PeerSession.ts:87-185).
THEOREM PeerLinkNegotiationAgrees == Spec => []NegotiationAgrees
BY PeerLinkInductive, PeerLinkPhases, PhasesAgree, PTL

=============================================================================
