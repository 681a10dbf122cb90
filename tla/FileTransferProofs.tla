------------------------- MODULE FileTransferProofs -------------------------
(***************************************************************************)
(* What FileTransfer.tla keeps for any number of transfers, offers and     *)
(* chunks: types, that the sender counts and reports only what a receiver  *)
(* has stored and saved, and that what is cancelled saves nothing.         *)
(***************************************************************************)
EXTENDS FileTransfer, TLAPS

-----------------------------------------------------------------------------
(* The inductive invariant.                                                *)

Messages == Seq(ToReceiver)
Replies == Seq(ToSender)

SenderTyped ==
  /\ sStatus \in [Attempt -> S!Status]
  /\ sOffset \in [Attempt -> Nat] /\ sIndex \in [Attempt -> Nat] /\ sAcked \in [Attempt -> Nat]
  /\ stage \in [S!Run -> S!Stage] /\ readEnd \in [S!Run -> Nat]
  /\ queue \in Seq(S!Run)

ReceiverTyped ==
  /\ rStatus \in [Attempt -> S!Status]
  /\ rReceived \in [Attempt -> Nat] /\ rExpected \in [Attempt -> Nat]
  /\ rSinceAck \in [Attempt -> 0..AckEvery - 1]
  /\ rQueue \in [Attempt -> Seq(Nat)]
  /\ rStream \in [Attempt -> R!Stream]
  /\ rContent \in [Attempt -> Seq(Nat)]
  /\ rSaved \in [Attempt -> Seq(Seq(Nat))]
  /\ rPicking \in [Attempt -> BOOLEAN]

RoutingTyped ==
  /\ offers \in [Transfer -> 0..MaxAttempts]
  /\ byKey \in [Attempt -> Attempt \cup {None}]
  /\ byId \in [Transfer -> Attempt \cup {None}]

\* The FileSender k was made.
Offered(k) == k[2] <= offers[k[1]]

\* Only what was offered runs.
RunInv ==
  /\ \A r \in S!Run : stage[r] # "idle" => Offered(r[1])
  /\ \A i \in DOMAIN queue : Offered(queue[i][1])

\* Its offer has been received, or is on its way.
RouteInv ==
  \A k \in Attempt : Offered(k) =>
    byKey[k] # None \/ \E i \in DOMAIN toReceiver : toReceiver[i] = S!Control("offer", k)

\* An offer is of a FileSender that was made, and later than those before it.
OfferInv ==
  \A i \in DOMAIN toReceiver : toReceiver[i].type = "offer" =>
    /\ Offered(toReceiver[i].key)
    /\ \A k \in Attempt : k[1] = toReceiver[i].key[1] /\ byKey[k] # None => k[2] < toReceiver[i].key[2]
    /\ \A j \in DOMAIN toReceiver :
         j < i /\ toReceiver[j].type = "offer" /\ toReceiver[j].key[1] = toReceiver[i].key[1]
         => toReceiver[j].key[2] < toReceiver[i].key[2]

\* What a FileSender sends comes after its offer.
OrderInv ==
  \A i \in DOMAIN toReceiver : toReceiver[i].type \notin {"offer", "cancel-all"} =>
    /\ Offered(toReceiver[i].key)
    /\ \A j \in DOMAIN toReceiver :
         toReceiver[j].type = "offer" /\ toReceiver[j].key = toReceiver[i].key => j < i

\* The maps of the receiving session.
MapInv ==
  /\ \A k \in Attempt : byKey[k] # None =>
       /\ Offered(k) /\ byKey[k][1] = k[1] /\ byKey[k][2] <= k[2]
       /\ byId[k[1]] # None
  /\ \A t \in Transfer : byId[t] # None => \E n \in 1..offers[t] : byKey[<<t, n>>] = byId[t]
  /\ onScreen \subseteq {t \in Transfer : byId[t] # None}

\* Some receiver has stored n chunks of t, or saved a file of it.
Stored(t, n) == \E o \in Attempt : o[1] = t /\ n <= rReceived[o]
Confirmed(t) == \E o \in Attempt : o[1] = t /\ rSaved[o] # <<>>

\* The messages for the sender tell what is so.
Honest(m) ==
  m.type # "cancel-all" =>
    /\ offers[m.id] > 0
    /\ m.type = "ack" => Stored(m.id, m.bytes)
    /\ m.type = "complete" => Confirmed(m.id)

ReplyInv == \A i \in DOMAIN toSender : Honest(toSender[i])

\* The receiver o was created by an offer.
Routed(o) == \E k \in Attempt : byKey[k] = o

Fresh(o) == rStream[o] = "none" /\ ~rPicking[o]

\* A dialog is open only without a stream; a receiver that was cancelled, and not
\* re-armed, has no stream that could be written to.
Good(o) ==
  /\ rPicking[o] => rStream[o] = "none"
  /\ ~Rearmed(o) /\ rStatus[o] = "cancelled" => rStream[o] \notin {"open", "closing"}

\* Receivers nobody offered a file to, or the user has not answered yet.
StreamInv ==
  /\ \A o \in Attempt : Good(o)
  /\ \A o \in Attempt : ~Routed(o) => Fresh(o)
  /\ \A t \in onScreen : ~Rearmed(byId[t]) => Fresh(byId[t])

Typed ==
  /\ SenderTyped /\ ReceiverTyped /\ RoutingTyped
  /\ toReceiver \in Messages /\ toSender \in Replies

Routes == RouteInv /\ OfferInv /\ OrderInv /\ MapInv

IInv == Typed /\ RunInv /\ Routes /\ ReplyInv /\ StreamInv /\ AckedIsStored /\ CompletedMeansSaved

-----------------------------------------------------------------------------
(* Messages and sequences.                                                 *)

LEMMA AttemptFacts ==
  /\ \A k \in Attempt : k[1] \in Transfer /\ k[2] \in 1..MaxAttempts /\ k = <<k[1], k[2]>> /\ k # None
  /\ \A t \in Transfer, n \in 1..MaxAttempts : <<t, n>> \in Attempt
  /\ \A r \in S!Run : r[1] \in Attempt
BY DEF Attempt, None, S!Run

LEMMA MessageFacts ==
  ASSUME NEW m \in ToReceiver
  PROVE  /\ m.type \in {"chunk", "offer", "pause", "resume", "cancel", "cancel-all"}
         /\ m.type # "cancel-all" => m.key \in Attempt
         /\ m.type = "chunk" => m.index \in Nat /\ m.data \in Nat
         /\ m.type = "offer" => m = S!Control("offer", m.key)
BY DEF ToReceiver, S!CancelAllMessage, S!Control

LEMMA MessagesMade ==
  /\ \A k \in Attempt, i \in Nat, d \in Nat :
       S!Chunk(k, i, d) \in ToReceiver /\ S!Chunk(k, i, d).type = "chunk" /\ S!Chunk(k, i, d).key = k
  /\ \A k \in Attempt, t \in {"offer", "pause", "resume", "cancel"} :
       S!Control(t, k) \in ToReceiver /\ S!Control(t, k).type = t /\ S!Control(t, k).key = k
  /\ S!CancelAllMessage \in ToReceiver /\ S!CancelAllMessage.type = "cancel-all"
BY DEF ToReceiver, S!CancelAllMessage, S!Control, S!Chunk

LEMMA ReplyFacts ==
  ASSUME NEW m \in ToSender
  PROVE  /\ m.type \in {"accept", "reject", "ack", "complete", "pause", "resume", "cancel", "cancel-all"}
         /\ m.type # "cancel-all" => m.id \in Transfer /\ m.bytes \in Nat
BY DEF ToSender, R!CancelAllReply

LEMMA AppendFacts ==
  ASSUME NEW T, NEW q \in Seq(T), NEW e \in T, NEW r, r = Append(q, e)
  PROVE  /\ r \in Seq(T) /\ Len(r) = Len(q) + 1 /\ r[Len(q) + 1] = e
         /\ \A i \in DOMAIN q : i \in DOMAIN r /\ r[i] = q[i]
         /\ \A i \in DOMAIN r : i \in DOMAIN q \/ i = Len(q) + 1
         /\ \A i \in DOMAIN q : i < Len(q) + 1
         /\ Len(q) + 1 \in DOMAIN r
OBVIOUS

LEMMA TailFacts ==
  ASSUME NEW T, NEW q \in Seq(T), q # <<>>, NEW r, r = Tail(q)
  PROVE  /\ r \in Seq(T) /\ Head(q) \in T /\ Head(q) = q[1] /\ 1 \in DOMAIN q
         /\ \A i \in DOMAIN r : i + 1 \in DOMAIN q /\ r[i] = q[i + 1] /\ i + 1 # 1
         /\ \A i \in DOMAIN q : i # 1 => i - 1 \in DOMAIN r /\ r[i - 1] = q[i]
OBVIOUS

-----------------------------------------------------------------------------
(* The sender's own steps.                                                 *)

\* What a FileSender may hand to the channel.
Follows(m) ==
  m \in ToReceiver /\ m.type # "offer" /\ (m.type # "cancel-all" => Offered(m.key))

\* A step of the sending side that starts no new FileSender.
SenderSteps ==
  /\ SenderTyped'
  /\ RunInv'
  /\ toReceiver' = toReceiver \/ \E m : Follows(m) /\ toReceiver' = Append(toReceiver, m)
  /\ \A s \in Attempt : sStatus'[s] = "completed" => sStatus[s] = "completed" \/ Confirmed(s[1])
  /\ \A s \in Attempt : sAcked'[s] = sAcked[s] \/ Stored(s[1], sAcked'[s])

LEMMA ReleaseSteps ==
  ASSUME Typed, RunInv, NEW r \in S!Run, S!ReleaseGate(r), UNCHANGED offers, Offered(r[1])
  PROVE  stage' \in [S!Run -> S!Stage] /\ queue' \in Seq(S!Run) /\ RunInv'
<1>1. stage \in [S!Run -> S!Stage] /\ queue \in Seq(S!Run) /\ {"done", "granted"} \subseteq S!Stage
  BY DEF Typed, SenderTyped, S!Stage, S!Holding
<1>2. CASE queue = <<>>
  <2>1. stage' = [stage EXCEPT ![r] = "done"] /\ queue' = queue
    BY <1>2 DEF S!ReleaseGate
  <2> QED BY <1>1, <2>1 DEF RunInv, Offered
<1>3. CASE queue # <<>>
  <2>1. stage' = [stage EXCEPT ![r] = "done", ![Head(queue)] = "granted"] /\ queue' = Tail(queue)
    BY <1>3 DEF S!ReleaseGate
  <2>2. /\ queue' \in Seq(S!Run) /\ Head(queue) \in S!Run /\ Head(queue) = queue[1] /\ 1 \in DOMAIN queue
        /\ \A i \in DOMAIN queue' : i + 1 \in DOMAIN queue /\ queue'[i] = queue[i + 1]
    BY <1>1, <1>3, <2>1, TailFacts
  <2>3. Offered(Head(queue)[1])
    BY <2>2 DEF RunInv
  <2>4. stage' \in [S!Run -> S!Stage]
    BY <1>1, <2>1
  <2>5. \A q \in S!Run : stage'[q] # "idle" => Offered(q[1])
    BY <1>1, <2>1, <2>2, <2>3 DEF RunInv
  <2>6. \A i \in DOMAIN queue' : Offered(queue'[i][1])
    BY <2>2 DEF RunInv
  <2> QED BY <2>2, <2>4, <2>5, <2>6 DEF RunInv, Offered
<1> QED BY <1>2, <1>3

\* Most steps leave the positions of the senders, the gate and its queue alone.
LEMMA QuietSteps ==
  ASSUME Typed, RunInv, UNCHANGED offers, UNCHANGED <<sOffset, sIndex, readEnd, queue>>,
         sStatus' \in [Attempt -> S!Status], UNCHANGED sAcked,
         stage' \in [S!Run -> S!Stage],
         \A r \in S!Run : stage'[r] # "idle" => Offered(r[1]),
         \A s \in Attempt : sStatus'[s] = "completed" => sStatus[s] = "completed" \/ Confirmed(s[1]),
         toReceiver' = toReceiver \/ \E m : Follows(m) /\ toReceiver' = Append(toReceiver, m)
  PROVE  SenderSteps
<1>1. SenderTyped'
  BY DEF Typed, SenderTyped
<1>2. RunInv'
  BY DEF RunInv, Offered
<1> QED BY <1>1, <1>2 DEF SenderSteps

\* Handlers that may wake the parked run of a sender.
LEMMA WokenSteps ==
  ASSUME Typed, RunInv, NEW s
  PROVE  /\ S!Woken(s) \in [S!Run -> S!Stage]
         /\ \A r \in S!Run : S!Woken(s)[r] # "idle" => Offered(r[1])
BY DEF Typed, SenderTyped, RunInv, S!Woken, S!Stage, S!Holding

LEMMA EmitSteps ==
  ASSUME Typed, NEW m, Follows(m), NEW local,
         IF local THEN S!Emit(m) ELSE UNCHANGED toReceiver
  PROVE  toReceiver' = toReceiver \/ \E n : Follows(n) /\ toReceiver' = Append(toReceiver, n)
BY DEF S!Emit

LEMMA SteeringSteps ==
  ASSUME Typed, RunInv, UNCHANGED offers, NEW s \in Attempt, Offered(s), NEW local,
         S!Pause(s, local) \/ S!Resume(s, local) \/ S!Cancel(s, local)
  PROVE  SenderSteps
<1>1. \A t \in {"pause", "resume", "cancel"} : Follows(S!Control(t, s))
  BY MessagesMade DEF Follows
<1>2. \A st \in S!Status : [sStatus EXCEPT ![s] = st] \in [Attempt -> S!Status]
  BY DEF Typed, SenderTyped
<1>3. \A st \in S!Status, k \in Attempt :
        st # "completed" /\ [sStatus EXCEPT ![s] = st][k] = "completed" => sStatus[k] = "completed"
  BY DEF Typed, SenderTyped
<1>4. {"paused", "transferring", "cancelled"} \subseteq S!Status
  BY DEF S!Status
<1>5. CASE S!Pause(s, local)
  <2>1. toReceiver' = toReceiver \/ \E n : Follows(n) /\ toReceiver' = Append(toReceiver, n)
    BY <1>1, <1>5, EmitSteps DEF S!Pause
  <2>2. /\ sStatus' = [sStatus EXCEPT ![s] = "paused"]
        /\ UNCHANGED <<sOffset, sIndex, sAcked, stage, readEnd, queue>>
    BY <1>5 DEF S!Pause, S!gateVars, S!runVars
  <2>3. stage' \in [S!Run -> S!Stage] /\ \A r \in S!Run : stage'[r] # "idle" => Offered(r[1])
    BY <2>2 DEF Typed, SenderTyped, RunInv
  <2> QED BY <1>2, <1>3, <1>4, <2>1, <2>2, <2>3, QuietSteps
<1>6. CASE S!Resume(s, local)
  <2>1. toReceiver' = toReceiver \/ \E n : Follows(n) /\ toReceiver' = Append(toReceiver, n)
    BY <1>1, <1>6, EmitSteps DEF S!Resume
  <2>2. /\ sStatus' = [sStatus EXCEPT ![s] = "transferring"] /\ stage' = S!Woken(s)
        /\ UNCHANGED <<sOffset, sIndex, sAcked, readEnd, queue>>
    BY <1>6 DEF S!Resume, S!gateVars
  <2> QED BY <1>2, <1>3, <1>4, <2>1, <2>2, WokenSteps, QuietSteps
<1>7. CASE S!Cancel(s, local)
  <2>1. toReceiver' = toReceiver \/ \E n : Follows(n) /\ toReceiver' = Append(toReceiver, n)
    BY <1>1, <1>7, EmitSteps DEF S!Cancel
  <2>2. /\ sStatus' = [sStatus EXCEPT ![s] = "cancelled"] /\ stage' = S!Woken(s)
        /\ UNCHANGED <<sOffset, sIndex, sAcked, readEnd, queue>>
    BY <1>7 DEF S!Cancel, S!gateVars
  <2> QED BY <1>2, <1>3, <1>4, <2>1, <2>2, WokenSteps, QuietSteps
<1> QED BY <1>5, <1>6, <1>7

LEMMA RejectSteps ==
  ASSUME Typed, RunInv, UNCHANGED offers, NEW s \in Attempt, S!HandleReject(s)
  PROVE  SenderSteps
<1>1. /\ sStatus' = sStatus \/ sStatus' = [sStatus EXCEPT ![s] = "failed"]
      /\ stage' = stage \/ stage' = S!Woken(s)
      /\ UNCHANGED <<sOffset, sIndex, sAcked, readEnd, queue, toReceiver>>
  BY DEF S!HandleReject, S!gateVars
<1>2. /\ sStatus' \in [Attempt -> S!Status]
      /\ \A k \in Attempt : sStatus'[k] = "completed" => sStatus[k] = "completed"
  BY <1>1 DEF Typed, SenderTyped, S!Status
<1>3. stage' \in [S!Run -> S!Stage] /\ \A r \in S!Run : stage'[r] # "idle" => Offered(r[1])
  <2>1. CASE stage' = stage
    BY <2>1 DEF Typed, SenderTyped, RunInv
  <2>2. CASE stage' = S!Woken(s)
    BY <2>2, WokenSteps
  <2> QED BY <1>1, <2>1, <2>2
<1> QED BY <1>1, <1>2, <1>3, QuietSteps

LEMMA CompleteSteps ==
  ASSUME Typed, RunInv, UNCHANGED offers, NEW s \in Attempt, S!HandleComplete(s), Confirmed(s[1])
  PROVE  SenderSteps
<1>1. /\ sStatus' = [sStatus EXCEPT ![s] = "completed"]
      /\ UNCHANGED <<sOffset, sIndex, sAcked, stage, readEnd, queue, toReceiver>>
  BY DEF S!HandleComplete, S!gateVars, S!runVars
<1>2. /\ sStatus' \in [Attempt -> S!Status]
      /\ \A k \in Attempt : sStatus'[k] = "completed" => sStatus[k] = "completed" \/ k = s
  BY <1>1 DEF Typed, SenderTyped, S!Status
<1>3. stage' \in [S!Run -> S!Stage] /\ \A r \in S!Run : stage'[r] # "idle" => Offered(r[1])
  BY <1>1 DEF Typed, SenderTyped, RunInv
<1> QED BY <1>1, <1>2, <1>3, QuietSteps

LEMMA AckSteps ==
  ASSUME Typed, RunInv, UNCHANGED offers, NEW s \in Attempt, NEW n \in Nat, S!HandleAck(s, n), Stored(s[1], n)
  PROVE  SenderSteps
<1>1. /\ sAcked' = [sAcked EXCEPT ![s] = IF n > @ THEN n ELSE @]
      /\ UNCHANGED <<sStatus, sOffset, sIndex, stage, readEnd, queue, toReceiver>>
  BY DEF S!HandleAck, S!gateVars, S!runVars
<1>2. /\ sAcked' \in [Attempt -> Nat]
      /\ \A k \in Attempt : sAcked'[k] = sAcked[k] \/ (k = s /\ sAcked'[k] = n)
  BY <1>1 DEF Typed, SenderTyped
<1>3. SenderTyped'
  BY <1>1, <1>2 DEF Typed, SenderTyped
<1>4. RunInv'
  BY <1>1 DEF RunInv, Offered
<1> QED BY <1>1, <1>2, <1>3, <1>4 DEF SenderSteps

\* cancelAllTransfers() and close().
LEMMA StopSteps ==
  ASSUME Typed, RunInv, UNCHANGED offers, NEW T, NEW status \in S!Status \ {"completed"},
         S!StopAll(T, status), UNCHANGED <<sOffset, sIndex, sAcked, readEnd, queue>>,
         toReceiver' = toReceiver \/ \E m : Follows(m) /\ toReceiver' = Append(toReceiver, m)
  PROVE  SenderSteps
<1> DEFINE stopped == {s \in T : ~S!Settled(s)}
<1>1. /\ sStatus' = [s \in Attempt |-> IF s \in stopped THEN status ELSE sStatus[s]]
      /\ stage' = [r \in S!Run |-> IF r[1] \in stopped THEN S!Woken(r[1])[r] ELSE stage[r]]
  BY DEF S!StopAll
<1> HIDE DEF stopped
<1>2. /\ sStatus' \in [Attempt -> S!Status]
      /\ \A k \in Attempt : sStatus'[k] = "completed" => sStatus[k] = "completed"
  BY <1>1 DEF Typed, SenderTyped
<1>3. \A r \in S!Run : /\ S!Woken(r[1])[r] \in S!Stage
                       /\ S!Woken(r[1])[r] # "idle" => Offered(r[1])
  BY WokenSteps
<1>4. stage' \in [S!Run -> S!Stage] /\ \A r \in S!Run : stage'[r] # "idle" => Offered(r[1])
  BY <1>1, <1>3 DEF Typed, SenderTyped, RunInv
<1> QED BY <1>2, <1>4, QuietSteps

LEMMA CancelAllSteps ==
  ASSUME Typed, RunInv, UNCHANGED offers, NEW T, NEW local, S!CancelAll(T, local)
  PROVE  SenderSteps
<1>1. Follows(S!CancelAllMessage)
  BY MessagesMade DEF Follows
<1>2. toReceiver' = toReceiver \/ \E n : Follows(n) /\ toReceiver' = Append(toReceiver, n)
  BY <1>1, EmitSteps DEF S!CancelAll
<1>3. S!StopAll(T, "cancelled") /\ UNCHANGED <<sOffset, sIndex, sAcked, readEnd, queue>>
  BY DEF S!CancelAll, S!gateVars
<1>4. "cancelled" \in S!Status \ {"completed"}
  BY DEF S!Status
<1> QED BY <1>2, <1>3, <1>4, StopSteps

LEMMA CloseSteps ==
  ASSUME Typed, RunInv, UNCHANGED offers, NEW T, S!CloseSession(T)
  PROVE  SenderSteps
<1>1. S!StopAll(T, "failed") /\ UNCHANGED <<sOffset, sIndex, sAcked, readEnd, queue, toReceiver>>
  BY DEF S!CloseSession, S!gateVars
<1>2. "failed" \in S!Status \ {"completed"}
  BY DEF S!Status
<1> QED BY <1>1, <1>2, StopSteps

LEMMA StartSteps ==
  ASSUME Typed, RunInv, UNCHANGED offers, NEW s \in Attempt, Offered(s), NEW from \in Nat, S!Start(s, from)
  PROVE  SenderSteps
<1>1. PICK n \in 1..MaxAttempts : S!StartRun(s, from, n)
  BY DEF S!Start
<1>2. PICK r : r = <<s, n>>
  OBVIOUS
<1>3. r \in S!Run /\ r[1] = s
  BY <1>2 DEF S!Run
<1>4. S!Lesser(from, FileSize[s[1]]) \in Nat
  BY TransferAssumption, AttemptFacts DEF S!Lesser
<1>5. /\ sOffset' \in [Attempt -> Nat] /\ sIndex' \in [Attempt -> Nat]
      /\ UNCHANGED <<sStatus, sAcked, readEnd, toReceiver>>
  BY <1>1, <1>4 DEF S!StartRun, S!StartIndex, Typed, SenderTyped
<1>6. {"granted", "queued"} \subseteq S!Stage
  BY DEF S!Stage, S!Holding
<1>7. stage' \in [S!Run -> S!Stage] /\ queue' \in Seq(S!Run) /\ RunInv'
  <2>1. CASE ~busy
    <3>1. stage' = [stage EXCEPT ![r] = "granted"] /\ queue' = queue
      BY <1>1, <1>2, <2>1 DEF S!StartRun
    <3> QED BY <1>3, <1>6, <3>1 DEF Typed, SenderTyped, RunInv, Offered
  <2>2. CASE busy
    <3>1. stage' = [stage EXCEPT ![r] = "queued"] /\ queue' = Append(queue, r)
      BY <1>1, <1>2, <2>2 DEF S!StartRun
    <3>2. /\ queue' \in Seq(S!Run)
          /\ \A i \in DOMAIN queue' : (i \in DOMAIN queue /\ queue'[i] = queue[i]) \/ queue'[i] = r
      BY <1>3, <3>1 DEF Typed, SenderTyped
    <3>3. \A i \in DOMAIN queue' : Offered(queue'[i][1])
      BY <1>3, <3>2 DEF RunInv
    <3>4. stage' \in [S!Run -> S!Stage] /\ \A q \in S!Run : stage'[q] # "idle" => Offered(q[1])
      BY <1>3, <1>6, <3>1 DEF Typed, SenderTyped, RunInv
    <3> QED BY <3>2, <3>3, <3>4 DEF RunInv, Offered
  <2> QED BY <2>1, <2>2
<1>8. SenderTyped'
  BY <1>5, <1>7 DEF Typed, SenderTyped
<1> QED BY <1>5, <1>7, <1>8 DEF SenderSteps

\* The steps of run() that give the gate back.
LEMMA ReleasingSteps ==
  ASSUME Typed, RunInv, UNCHANGED offers, NEW r \in S!Run, Offered(r[1]), S!ReleaseGate(r),
         UNCHANGED <<sOffset, sIndex, sAcked, readEnd, toReceiver>>,
         UNCHANGED sStatus \/ S!FailStatus(r[1])
  PROVE  SenderSteps
<1>1. /\ sStatus' \in [Attempt -> S!Status]
      /\ \A k \in Attempt : sStatus'[k] = "completed" => sStatus[k] = "completed"
  BY AttemptFacts DEF Typed, SenderTyped, S!Status, S!FailStatus
<1>2. stage' \in [S!Run -> S!Stage] /\ queue' \in Seq(S!Run) /\ RunInv'
  BY ReleaseSteps
<1>3. SenderTyped'
  BY <1>1, <1>2 DEF Typed, SenderTyped
<1> QED BY <1>1, <1>2, <1>3 DEF SenderSteps

\* The steps of run() from one wait, or one decision, to the next.
LEMMA MovingSteps ==
  ASSUME Typed, RunInv, UNCHANGED offers, NEW r \in S!Run, Offered(r[1]),
         NEW st \in S!Stage, stage' = [stage EXCEPT ![r] = st],
         UNCHANGED <<sOffset, sIndex, sAcked, queue, toReceiver>>,
         UNCHANGED sStatus \/ sStatus' = [sStatus EXCEPT ![r[1]] = "transferring"],
         UNCHANGED readEnd \/ \E n \in Nat : readEnd' = [readEnd EXCEPT ![r] = n]
  PROVE  SenderSteps
<1>1. /\ sStatus' \in [Attempt -> S!Status]
      /\ \A k \in Attempt : sStatus'[k] = "completed" => sStatus[k] = "completed"
  BY AttemptFacts DEF Typed, SenderTyped, S!Status
<1>2. readEnd' \in [S!Run -> Nat]
  BY DEF Typed, SenderTyped
<1>3. stage' \in [S!Run -> S!Stage] /\ RunInv'
  BY DEF Typed, SenderTyped, RunInv, Offered
<1>4. SenderTyped'
  BY <1>1, <1>2, <1>3 DEF Typed, SenderTyped
<1> QED BY <1>1, <1>3, <1>4 DEF SenderSteps

LEMMA SendChunkSteps ==
  ASSUME Typed, RunInv, UNCHANGED offers, NEW r \in S!Run, Offered(r[1]), S!SendChunk(r)
  PROVE  SenderSteps
<1>1. r[1] \in Attempt /\ readEnd[r] \in Nat /\ sIndex[r[1]] \in Nat
  BY AttemptFacts DEF Typed, SenderTyped
<1>2. PICK m : m = S!Chunk(r[1], sIndex[r[1]], readEnd[r])
  OBVIOUS
<1>3. Follows(m)
  BY <1>1, <1>2, MessagesMade DEF Follows
<1>4. /\ toReceiver' = Append(toReceiver, m)
      /\ sOffset' = [sOffset EXCEPT ![r[1]] = readEnd[r]] /\ sIndex' = [sIndex EXCEPT ![r[1]] = @ + 1]
      /\ stage' = [stage EXCEPT ![r] = "top"]
      /\ UNCHANGED <<sStatus, sAcked, readEnd, queue>>
  BY <1>2 DEF S!SendChunk, S!gateVars
<1>5. "top" \in S!Stage
  BY DEF S!Stage, S!Holding
<1>6. SenderTyped' /\ RunInv'
  BY <1>1, <1>4, <1>5 DEF Typed, SenderTyped, RunInv, Offered
<1> QED BY <1>3, <1>4, <1>6 DEF SenderSteps

LEMMA RunSteps ==
  ASSUME Typed, RunInv, UNCHANGED offers, NEW r \in S!Run, S!RunStep(r)
  PROVE  SenderSteps
<1>1. stage[r] # "idle"
  BY DEF S!RunStep, S!BeginCancelled, S!Begin, S!Finish, S!TopCancelled, S!Park, S!TopClosed, S!TopDrain,
         S!Read, S!Drained, S!ReadFails, S!SendCancelled, S!SendWaits, S!SendFails, S!SendChunk,
         S!AtTop, S!MaySend, S!AfterRead
<1>2. Offered(r[1]) /\ r[1] \in Attempt
  BY <1>1, AttemptFacts DEF RunInv
<1>3. {"top", "parked", "drainTop", "reading", "drainSend"} \subseteq S!Stage
  BY DEF S!Stage, S!Holding
<1>4. CASE S!BeginCancelled(r) \/ S!Finish(r) \/ S!TopCancelled(r) \/ S!SendCancelled(r)
  <2>1. S!ReleaseGate(r) /\ UNCHANGED <<sStatus, sOffset, sIndex, sAcked, readEnd, toReceiver>>
    BY <1>4 DEF S!BeginCancelled, S!Finish, S!TopCancelled, S!SendCancelled, S!StepUnchanged
  <2> QED BY <1>2, <2>1, ReleasingSteps
<1>5. CASE S!TopClosed(r) \/ S!ReadFails(r) \/ S!SendFails(r)
  <2>1. S!ReleaseGate(r) /\ S!FailStatus(r[1]) /\ UNCHANGED <<sOffset, sIndex, sAcked, readEnd, toReceiver>>
    BY <1>5 DEF S!TopClosed, S!ReadFails, S!SendFails, S!StepUnchanged
  <2> QED BY <1>2, <2>1, ReleasingSteps
<1>6. CASE S!Begin(r)
  <2>1. /\ stage' = [stage EXCEPT ![r] = "top"] /\ sStatus' = [sStatus EXCEPT ![r[1]] = "transferring"]
        /\ UNCHANGED <<sOffset, sIndex, sAcked, queue, toReceiver, readEnd>>
    BY <1>6 DEF S!Begin, S!StepUnchanged, S!gateVars
  <2> QED BY <1>2, <1>3, <2>1, MovingSteps
<1>7. CASE S!Park(r) \/ S!TopDrain(r) \/ S!Drained(r) \/ S!SendWaits(r)
  <2>1. /\ \E st \in S!Stage : stage' = [stage EXCEPT ![r] = st]
        /\ UNCHANGED <<sStatus, sOffset, sIndex, sAcked, queue, toReceiver, readEnd>>
    BY <1>3, <1>7 DEF S!Park, S!TopDrain, S!Drained, S!SendWaits, S!StepUnchanged, S!gateVars
  <2> QED BY <1>2, <2>1, MovingSteps
<1>8. CASE S!Read(r)
  <2>1. S!Lesser(sOffset[r[1]] + 1, FileSize[r[1][1]]) \in Nat
    BY <1>2, TransferAssumption, AttemptFacts DEF S!Lesser, Typed, SenderTyped
  <2>2. /\ stage' = [stage EXCEPT ![r] = "reading"]
        /\ readEnd' = [readEnd EXCEPT ![r] = S!Lesser(sOffset[r[1]] + 1, FileSize[r[1][1]])]
        /\ UNCHANGED <<sStatus, sOffset, sIndex, sAcked, queue, toReceiver>>
    BY <1>2, <1>8 DEF S!Read, S!StepUnchanged, S!gateVars
  <2> QED BY <1>2, <1>3, <2>1, <2>2, MovingSteps
<1>9. CASE S!SendChunk(r)
  BY <1>2, <1>9, SendChunkSteps
<1> QED BY <1>4, <1>5, <1>6, <1>7, <1>8, <1>9 DEF S!RunStep

-----------------------------------------------------------------------------
(* The routes.                                                             *)

LEMMA RoutesAppend ==
  ASSUME Typed, Routes, NEW m, Follows(m), toReceiver' = Append(toReceiver, m),
         UNCHANGED <<offers, byKey, byId, onScreen>>
  PROVE  toReceiver' \in Messages /\ Routes'
<1> DEFINE q == toReceiver
           r == toReceiver'
           k == Len(toReceiver) + 1
<1>1. /\ r \in Seq(ToReceiver) /\ r[k] = m /\ k \in DOMAIN r
      /\ \A i \in DOMAIN q : i \in DOMAIN r /\ r[i] = q[i] /\ i < k
      /\ \A i \in DOMAIN r : i \in DOMAIN q \/ i = k
  BY AppendFacts DEF Typed, Messages, Follows
<1> HIDE DEF q, r, k
<1>2. RouteInv'
  <2> SUFFICES ASSUME NEW a \in Attempt, Offered(a), byKey[a] = None
               PROVE  \E i \in DOMAIN r : r[i] = S!Control("offer", a)
    BY DEF RouteInv, Offered, r
  <2> QED BY <1>1 DEF Routes, RouteInv, q
<1>3. OfferInv'
  <2> SUFFICES ASSUME NEW i \in DOMAIN r, r[i].type = "offer"
               PROVE  /\ Offered(r[i].key)
                      /\ \A a \in Attempt : a[1] = r[i].key[1] /\ byKey[a] # None => a[2] < r[i].key[2]
                      /\ \A j \in DOMAIN r : j < i /\ r[j].type = "offer" /\ r[j].key[1] = r[i].key[1]
                                               => r[j].key[2] < r[i].key[2]
    BY DEF OfferInv, Offered, r
  <2>1. i \in DOMAIN q /\ r[i] = q[i]
    BY <1>1 DEF Follows
  <2>2. \A j \in DOMAIN r : r[j].type = "offer" => j \in DOMAIN q /\ r[j] = q[j]
    BY <1>1 DEF Follows
  <2> QED BY <2>1, <2>2 DEF Routes, OfferInv, q
<1>4. OrderInv'
  <2> SUFFICES ASSUME NEW i \in DOMAIN r, r[i].type \notin {"offer", "cancel-all"}
               PROVE  /\ Offered(r[i].key)
                      /\ \A j \in DOMAIN r : r[j].type = "offer" /\ r[j].key = r[i].key => j < i
    BY DEF OrderInv, Offered, r
  <2>1. \A j \in DOMAIN r : r[j].type = "offer" => j \in DOMAIN q /\ r[j] = q[j] /\ j < k
    BY <1>1 DEF Follows
  <2>2. CASE i = k
    BY <1>1, <2>1, <2>2 DEF Follows
  <2>3. CASE i # k
    <3>1. i \in DOMAIN q /\ r[i] = q[i]
      BY <1>1, <2>3
    <3> QED BY <2>1, <3>1 DEF Routes, OrderInv, q
  <2> QED BY <2>2, <2>3
<1>5. MapInv'
  BY DEF Routes, MapInv, Offered
<1> QED BY <1>1, <1>2, <1>3, <1>4, <1>5 DEF Routes, Messages, r

\* The receiver takes a message that is no offer.
LEMMA RoutesTail ==
  ASSUME Typed, Routes, toReceiver # <<>>, Head(toReceiver).type # "offer", toReceiver' = Tail(toReceiver),
         UNCHANGED <<offers, byKey, byId, onScreen>>
  PROVE  toReceiver' \in Messages /\ Routes'
<1> DEFINE q == toReceiver
           r == toReceiver'
<1>1. /\ r \in Seq(ToReceiver) /\ q[1].type # "offer"
      /\ \A i \in DOMAIN r : i \in Nat /\ i + 1 \in DOMAIN q /\ r[i] = q[i + 1]
      /\ \A i \in DOMAIN q : i \in Nat /\ (i # 1 => i - 1 \in DOMAIN r /\ r[i - 1] = q[i])
  BY TailFacts DEF Typed, Messages
<1> HIDE DEF q, r
<1>2. RouteInv'
  <2> SUFFICES ASSUME NEW a \in Attempt, Offered(a), byKey[a] = None
               PROVE  \E i \in DOMAIN r : r[i] = S!Control("offer", a)
    BY DEF RouteInv, Offered, r
  <2>1. PICK i \in DOMAIN q : q[i] = S!Control("offer", a)
    BY DEF Routes, RouteInv, q
  <2>2. i # 1
    BY <1>1, <2>1 DEF S!Control
  <2> QED BY <1>1, <2>1, <2>2
<1>3. OfferInv'
  <2> SUFFICES ASSUME NEW i \in DOMAIN r, r[i].type = "offer"
               PROVE  /\ Offered(r[i].key)
                      /\ \A a \in Attempt : a[1] = r[i].key[1] /\ byKey[a] # None => a[2] < r[i].key[2]
                      /\ \A j \in DOMAIN r : j < i /\ r[j].type = "offer" /\ r[j].key[1] = r[i].key[1]
                                               => r[j].key[2] < r[i].key[2]
    BY DEF OfferInv, Offered, r
  <2>1. i + 1 \in DOMAIN q /\ r[i] = q[i + 1]
    BY <1>1
  <2>2. \A j \in DOMAIN r : j < i => j + 1 \in DOMAIN q /\ r[j] = q[j + 1] /\ j + 1 < i + 1
    BY <1>1
  <2> QED BY <2>1, <2>2 DEF Routes, OfferInv, q
<1>4. OrderInv'
  <2> SUFFICES ASSUME NEW i \in DOMAIN r, r[i].type \notin {"offer", "cancel-all"}
               PROVE  /\ Offered(r[i].key)
                      /\ \A j \in DOMAIN r : r[j].type = "offer" /\ r[j].key = r[i].key => j < i
    BY DEF OrderInv, Offered, r
  <2>1. i + 1 \in DOMAIN q /\ r[i] = q[i + 1]
    BY <1>1
  <2>2. Offered(q[i + 1].key) /\ \A j \in DOMAIN q : q[j].type = "offer" /\ q[j].key = q[i + 1].key => j < i + 1
    BY <2>1 DEF Routes, OrderInv, q
  <2>3. ASSUME NEW j \in DOMAIN r, r[j].type = "offer", r[j].key = r[i].key
        PROVE  j < i
    <3>1. j + 1 < i + 1
      BY <1>1, <2>1, <2>2, <2>3
    <3> QED BY <1>1, <3>1
  <2> QED BY <2>1, <2>2, <2>3
<1>5. MapInv'
  BY DEF Routes, MapInv, Offered
<1> QED BY <1>1, <1>2, <1>3, <1>4, <1>5 DEF Routes, Messages, r

\* A message that is no offer finds its receiver.
LEMMA HeadRouted ==
  ASSUME Typed, Routes, toReceiver # <<>>, NEW m, m = Head(toReceiver), m.type \notin {"offer", "cancel-all"}
  PROVE  /\ m \in ToReceiver /\ m.key \in Attempt /\ byKey[m.key] \in Attempt /\ byKey[m.key][1] = m.key[1]
         /\ byId[m.key[1]] \in Attempt /\ byId[m.key[1]][1] = m.key[1]
         /\ Routed(byKey[m.key]) /\ Routed(byId[m.key[1]])
<1>1. m \in ToReceiver /\ m = toReceiver[1] /\ 1 \in DOMAIN toReceiver
  BY TailFacts DEF Typed, Messages
<1>2. m.key \in Attempt
  BY <1>1, MessageFacts
<1>3. /\ Offered(m.key)
      /\ \A j \in DOMAIN toReceiver : toReceiver[j].type = "offer" /\ toReceiver[j].key = m.key => j < 1
  BY <1>1 DEF Routes, OrderInv
<1>4. byKey[m.key] # None
  <2> SUFFICES ASSUME NEW i \in DOMAIN toReceiver, toReceiver[i] = S!Control("offer", m.key) PROVE FALSE
    BY <1>2, <1>3 DEF Routes, RouteInv
  <2>1. i < 1
    BY <1>3 DEF S!Control
  <2> QED BY <2>1 DEF Typed, Messages
<1>5. byKey[m.key] \in Attempt /\ byKey[m.key][1] = m.key[1] /\ byId[m.key[1]] # None /\ m.key[1] \in Transfer
  BY <1>2, <1>4, AttemptFacts DEF Typed, RoutingTyped, Routes, MapInv
<1>6. PICK n \in 1..offers[m.key[1]] : byKey[<<m.key[1], n>>] = byId[m.key[1]]
  BY <1>5 DEF Routes, MapInv
<1>7. <<m.key[1], n>> \in Attempt
  BY <1>5, TransferAssumption, AttemptFacts DEF Typed, RoutingTyped
<1>8. byId[m.key[1]] \in Attempt /\ byId[m.key[1]][1] = m.key[1]
  BY <1>5, <1>6, <1>7 DEF Typed, RoutingTyped, Routes, MapInv
<1> QED BY <1>1, <1>2, <1>5, <1>6, <1>7, <1>8 DEF Routed

-----------------------------------------------------------------------------
(* The receivers.                                                          *)

\* What m tells of the receiver o is so after the step.
Answers(o, m) ==
  /\ m.type # "cancel-all" /\ m.id = o[1]
  /\ m.type = "ack" => m.bytes <= rReceived'[o]
  /\ m.type = "complete" => rSaved'[o] # <<>>

\* What a step of the receiver o tells the sender.
Told(o) ==
  \E ms \in Replies : toSender' = toSender \o ms /\ \A i \in DOMAIN ms : Answers(o, ms[i])

\* What a cancelled receiver saves.
SavesNothing(o) ==
  /\ FileSize[o[1]] > 0 /\ ~Rearmed(o)
  /\ rStatus[o] = "cancelled" /\ rStream[o] # "closingAborted"
  => rSaved'[o] = rSaved[o]

\* A step of the receiver o alone.
Handled(o) ==
  /\ ReceiverTyped'
  /\ \A p \in Attempt : p # o =>
       /\ rStatus'[p] = rStatus[p] /\ rReceived'[p] = rReceived[p] /\ rStream'[p] = rStream[p]
       /\ rSaved'[p] = rSaved[p] /\ rPicking'[p] = rPicking[p]
  /\ rReceived[o] <= rReceived'[o]
  /\ rSaved[o] # <<>> => rSaved'[o] # <<>>
  /\ rPicking'[o] => rStream'[o] = "none"
  /\ ~Rearmed(o) /\ rStatus'[o] = "cancelled" => rStream'[o] \notin {"open", "closing"}
  /\ o[1] \in onScreen' /\ Fresh(o) => Fresh(o)'
  /\ SavesNothing(o)
  /\ Told(o)

\* What any step of the receiving side tells the sender.
Spoken ==
  \E ms \in Replies : toSender' = toSender \o ms /\ \A i \in DOMAIN ms : Honest(ms[i])'

\* A step of any of them.
ReceiverSteps ==
  /\ ReceiverTyped'
  /\ \A o \in Attempt :
       /\ rReceived[o] <= rReceived'[o]
       /\ rSaved[o] # <<>> => rSaved'[o] # <<>>
       /\ Good(o)'
       /\ ~Routed(o) \/ o[1] \in onScreen' => (Fresh(o) => Fresh(o)')
       /\ SavesNothing(o)
  /\ Spoken

LEMMA RoutedFacts ==
  ASSUME Typed, Routes, NEW o \in Attempt, Routed(o)
  PROVE  offers[o[1]] > 0
<1>1. PICK k \in Attempt : byKey[k] = o
  BY DEF Routed
<1>2. k[2] <= offers[k[1]] /\ o[1] = k[1]
  BY <1>1, AttemptFacts DEF Routes, MapInv, Offered
<1> QED BY <1>2, AttemptFacts, TransferAssumption DEF Typed, RoutingTyped

LEMMA HandledSteps ==
  ASSUME Typed, Routes, StreamInv, NEW o \in Attempt, Routed(o), Handled(o), UNCHANGED <<offers, byKey>>
  PROVE  ReceiverSteps
<1>1. ASSUME NEW p \in Attempt
      PROVE  /\ rReceived[p] <= rReceived'[p]
             /\ rSaved[p] # <<>> => rSaved'[p] # <<>>
             /\ Good(p)'
             /\ ~Routed(p) \/ p[1] \in onScreen' => (Fresh(p) => Fresh(p)')
             /\ SavesNothing(p)
  <2>1. CASE p = o
    BY <2>1 DEF Handled, Good, Rearmed
  <2>2. CASE p # o
    <3>1. rReceived[p] \in Nat
      BY DEF Typed, ReceiverTyped
    <3>2. Good(p)
      BY DEF StreamInv
    <3> QED BY <2>2, <3>1, <3>2 DEF Handled, Good, Rearmed, Fresh, SavesNothing
  <2> QED BY <2>1, <2>2
<1>2. PICK ms \in Replies : toSender' = toSender \o ms /\ \A i \in DOMAIN ms : Answers(o, ms[i])
  BY DEF Handled, Told
<1>3. ASSUME NEW i \in DOMAIN ms PROVE Honest(ms[i])'
  <2>1. offers'[o[1]] > 0
    BY RoutedFacts
  <2>2. Answers(o, ms[i])
    BY <1>2
  <2> QED BY <2>1, <2>2 DEF Answers, Honest, Stored, Confirmed
<1>4. Spoken
  BY <1>2, <1>3 DEF Spoken
<1> QED BY <1>1, <1>4 DEF ReceiverSteps, Handled

LEMMA RepliesMade ==
  ASSUME NEW o \in Attempt,
         NEW t \in {"accept", "reject", "ack", "complete", "pause", "resume", "cancel"}, NEW n \in Nat
  PROVE  /\ R!ReplyBytes(t, o, n) \in ToSender /\ R!ReplyBytes(t, o, n).type = t
         /\ R!ReplyBytes(t, o, n).id = o[1] /\ R!ReplyBytes(t, o, n).bytes = n
         /\ R!Reply(t, o) \in ToSender /\ R!Reply(t, o).type = t /\ R!Reply(t, o).id = o[1]
BY AttemptFacts DEF R!ReplyBytes, R!Reply, ToSender

\* sendControl() adds its messages, or nothing.
LEMMA Telling ==
  ASSUME Typed, NEW o \in Attempt, NEW ms \in Replies, R!Tell(ms) \/ UNCHANGED toSender,
         \A i \in DOMAIN ms : Answers(o, ms[i])
  PROVE  Told(o)
<1>1. CASE toSender' = toSender \o ms
  BY <1>1 DEF Told
<1>2. CASE toSender' = toSender
  <2>1. <<>> \in Replies /\ toSender \o <<>> = toSender /\ DOMAIN <<>> = {}
    BY DEF Typed, Replies
  <2> QED BY <1>2, <2>1 DEF Told
<1> QED BY <1>1, <1>2 DEF R!Tell, Told

LEMMA TellingNothing ==
  ASSUME Typed, NEW o, UNCHANGED toSender
  PROVE  Told(o)
<1>1. <<>> \in Replies /\ toSender \o <<>> = toSender /\ DOMAIN <<>> = {}
  BY DEF Typed, Replies
<1> QED BY <1>1 DEF Told

\* One message other than an acknowledgement or a confirmation.
LEMMA TellingOne ==
  ASSUME Typed, NEW o \in Attempt, NEW t \in {"reject", "pause", "resume"},
         R!Tell(<<R!Reply(t, o)>>) \/ UNCHANGED toSender
  PROVE  Told(o)
<1>1. PICK m : m = R!Reply(t, o)
  OBVIOUS
<1>2. m \in ToSender /\ m.type = t /\ m.id = o[1]
  BY <1>1, RepliesMade
<1>3. <<m>> \in Replies /\ \A i \in DOMAIN <<m>> : <<m>>[i] = m
  BY <1>2 DEF Replies
<1>4. \A i \in DOMAIN <<m>> : Answers(o, <<m>>[i])
  BY <1>2, <1>3 DEF Answers
<1> QED BY <1>1, <1>3, <1>4, Telling

LEMMA PauseHandled ==
  ASSUME Typed, StreamInv, NEW o \in Attempt, NEW local, R!PauseReceiver(o, local) \/ R!ResumeReceiver(o, local),
         UNCHANGED <<byKey, onScreen>>
  PROVE  Handled(o)
<1>1. /\ \E st \in {"paused", "transferring"} : rStatus' = [rStatus EXCEPT ![o] = st]
      /\ UNCHANGED <<rReceived, rExpected, rSinceAck, rQueue, rStream, rContent, rSaved, rPicking>>
  BY DEF R!PauseReceiver, R!ResumeReceiver, R!SetStatus
<1>2. \E t \in {"reject", "pause", "resume"} : R!Tell(<<R!Reply(t, o)>>) \/ UNCHANGED toSender
  BY DEF R!PauseReceiver, R!ResumeReceiver
<1>3. ReceiverTyped'
  BY <1>1 DEF Typed, ReceiverTyped, S!Status
<1>4. rStatus'[o] # "cancelled" /\ \A p \in Attempt : p # o => rStatus'[p] = rStatus[p]
  BY <1>1 DEF Typed, ReceiverTyped
<1>5. Good(o) /\ rReceived[o] \in Nat
  BY DEF StreamInv, Typed, ReceiverTyped
<1>6. Told(o)
  BY <1>2, TellingOne
<1> QED BY <1>1, <1>3, <1>4, <1>5, <1>6 DEF Handled, Good, Fresh, SavesNothing

LEMMA RejectHandled ==
  ASSUME Typed, StreamInv, NEW o \in Attempt, R!Reject(o), o[1] \in onScreen, o = byId[o[1]], UNCHANGED byKey
  PROVE  Handled(o)
<1>1. /\ rStatus' = [rStatus EXCEPT ![o] = "cancelled"]
      /\ UNCHANGED <<rReceived, rExpected, rSinceAck, rQueue, rStream, rContent, rSaved, rPicking>>
      /\ R!Tell(<<R!Reply("reject", o)>>)
  BY DEF R!Reject, R!SetStatus
<1>2. ReceiverTyped' /\ \A p \in Attempt : p # o => rStatus'[p] = rStatus[p]
  BY <1>1 DEF Typed, ReceiverTyped, S!Status
<1>3. Good(o) /\ rReceived[o] \in Nat /\ (~Rearmed(o) => Fresh(o))
  BY DEF StreamInv, Typed, ReceiverTyped
<1>4. Told(o)
  BY <1>1, TellingOne
<1> QED BY <1>1, <1>2, <1>3, <1>4 DEF Handled, Good, Fresh, SavesNothing

\* The counts of the receiver o after a chunk was stored, and the acknowledgement.
LEMMA CountFacts ==
  ASSUME Typed, NEW o \in Attempt, R!CountChunk(o)
  PROVE  /\ rReceived' \in [Attempt -> Nat] /\ rSinceAck' \in [Attempt -> 0..AckEvery - 1]
         /\ rReceived'[o] = rReceived[o] + 1 /\ rReceived[o] \in Nat
         /\ \A p \in Attempt : p # o => rReceived'[p] = rReceived[p]
<1>1. /\ rReceived' = [rReceived EXCEPT ![o] = @ + 1]
      /\ rSinceAck' = [rSinceAck EXCEPT ![o] = IF R!AckDue(o) THEN 0 ELSE @ + 1]
  BY DEF R!CountChunk
<1>2. R!AckDue(o) <=> rSinceAck[o] + 1 >= AckEvery
  BY DEF R!AckDue
<1>3. (IF R!AckDue(o) THEN 0 ELSE rSinceAck[o] + 1) \in 0..AckEvery - 1
  BY <1>2, TransferAssumption DEF Typed, ReceiverTyped
<1>4. rSinceAck' \in [Attempt -> 0..AckEvery - 1]
  BY <1>1, <1>3 DEF Typed, ReceiverTyped
<1> QED BY <1>1, <1>4 DEF Typed, ReceiverTyped

LEMMA AckAnswers ==
  ASSUME Typed, NEW o \in Attempt, rReceived'[o] = rReceived[o] + 1
  PROVE  R!Ack(o) \in Replies /\ \A i \in DOMAIN R!Ack(o) : Answers(o, R!Ack(o)[i])
<1>1. PICK m : m = R!ReplyBytes("ack", o, rReceived[o] + 1)
  OBVIOUS
<1>2. rReceived[o] + 1 \in Nat
  BY DEF Typed, ReceiverTyped
<1>3. m \in ToSender /\ m.type = "ack" /\ m.id = o[1] /\ m.bytes = rReceived[o] + 1
  BY <1>1, <1>2, RepliesMade
<1>4. R!Ack(o) = <<>> \/ R!Ack(o) = <<m>>
  BY <1>1 DEF R!Ack
<1>5. <<m>> \in Replies /\ \A i \in DOMAIN <<m>> : <<m>>[i] = m
  BY <1>3 DEF Replies
<1>6. <<>> \in Replies /\ DOMAIN <<>> = {}
  BY DEF Replies
<1>7. Answers(o, m)
  BY <1>2, <1>3 DEF Answers
<1> QED BY <1>4, <1>5, <1>6, <1>7

LEMMA CompleteAnswers ==
  ASSUME Typed, NEW o \in Attempt, rSaved'[o] # <<>>
  PROVE  R!Reply("complete", o) \in ToSender /\ Answers(o, R!Reply("complete", o))
<1>1. PICK m : m = R!Reply("complete", o)
  OBVIOUS
<1>2. m \in ToSender /\ m.type = "complete" /\ m.id = o[1]
  BY <1>1, RepliesMade
<1> QED BY <1>1, <1>2 DEF Answers

LEMMA FileAdded ==
  ASSUME NEW T, NEW q \in Seq(T), NEW e \in T
  PROVE  Append(q, e) \in Seq(T) /\ Append(q, e) # <<>>
<1>1. PICK r : r = Append(q, e)
  OBVIOUS
<1>2. r \in Seq(T) /\ Len(r) = Len(q) + 1 /\ Len(q) \in Nat
  BY <1>1, AppendFacts
<1>3. r # <<>>
  BY <1>2
<1> QED BY <1>1, <1>2, <1>3

\* A chain or a content that was emptied.
LEMMA EmptyFacts ==
  ASSUME NEW T, NEW f \in [Attempt -> Seq(T)], NEW o \in Attempt, NEW g, g = [f EXCEPT ![o] = <<>>]
  PROVE  g \in [Attempt -> Seq(T)]
<1>1. PICK e : e = <<>>
  OBVIOUS
<1>2. e \in Seq(T)
  BY <1>1
<1>3. g = [f EXCEPT ![o] = e]
  BY <1>1
<1> HIDE <1>1
<1> QED BY <1>2, <1>3

LEMMA MemoryHandled ==
  ASSUME Typed, StreamInv, NEW o \in Attempt, NEW d \in Nat, R!Active(o), R!StoreInMemory(o, d),
         rExpected' \in [Attempt -> Nat], UNCHANGED <<byKey, onScreen, rPicking>>
  PROVE  Handled(o)
<1>1. PICK parts : parts = Append(rContent[o], d)
  OBVIOUS
<1>2. /\ parts \in Seq(Nat) /\ rSaved[o] \in Seq(Seq(Nat))
      /\ Append(rSaved[o], parts) \in Seq(Seq(Nat)) /\ Append(rSaved[o], parts) # <<>>
  <2>1. rContent[o] \in Seq(Nat) /\ rSaved[o] \in Seq(Seq(Nat))
    BY DEF Typed, ReceiverTyped
  <2>2. parts \in Seq(Nat)
    BY <1>1, <2>1
  <2> QED BY <2>1, <2>2, FileAdded
<1>3. /\ rReceived' \in [Attempt -> Nat] /\ rSinceAck' \in [Attempt -> 0..AckEvery - 1]
      /\ rReceived'[o] = rReceived[o] + 1 /\ rReceived[o] \in Nat
      /\ \A p \in Attempt : p # o => rReceived'[p] = rReceived[p]
  BY CountFacts DEF R!StoreInMemory
<1>4. R!Ack(o) \in Replies /\ \A i \in DOMAIN R!Ack(o) : Answers(o, R!Ack(o)[i])
  BY <1>3, AckAnswers
<1>5. Good(o) /\ rStatus[o] # "cancelled"
  BY DEF StreamInv, R!Active
<1>6. CASE R!Full(o)
  <2>1. /\ R!Tell(Append(R!Ack(o), R!Reply("complete", o)))
        /\ rContent' = [rContent EXCEPT ![o] = <<>>]
        /\ rSaved' = [rSaved EXCEPT ![o] = Append(@, parts)]
        /\ rStatus' = [rStatus EXCEPT ![o] = "completed"]
        /\ UNCHANGED <<rQueue, rStream>>
    BY <1>1, <1>6 DEF R!StoreInMemory, R!SetStatus
  <2>2. rSaved'[o] = Append(rSaved[o], parts) /\ rSaved' \in [Attempt -> Seq(Seq(Nat))]
    BY <1>2, <2>1 DEF Typed, ReceiverTyped
  <2>3. R!Reply("complete", o) \in ToSender /\ Answers(o, R!Reply("complete", o))
    BY <1>2, <2>2, CompleteAnswers
  <2>4. PICK ms : ms = Append(R!Ack(o), R!Reply("complete", o))
    OBVIOUS
  <2>5. ms \in Replies /\ \A i \in DOMAIN ms : Answers(o, ms[i])
    BY <1>4, <2>3, <2>4, AppendFacts DEF Replies
  <2>6. Told(o)
    BY <2>1, <2>4, <2>5, Telling
  <2>7. ReceiverTyped'
    BY <1>3, <2>1, <2>2 DEF Typed, ReceiverTyped, S!Status
  <2>8. rStatus'[o] = "completed" /\ \A p \in Attempt : p # o => rStatus'[p] = rStatus[p] /\ rSaved'[p] = rSaved[p]
    BY <2>1 DEF Typed, ReceiverTyped
  <2> QED BY <1>2, <1>3, <1>5, <2>1, <2>2, <2>6, <2>7, <2>8 DEF Handled, Good, Fresh, SavesNothing
<1>7. CASE ~R!Full(o)
  <2>1. /\ R!Tell(R!Ack(o))
        /\ rContent' = [rContent EXCEPT ![o] = parts]
        /\ UNCHANGED <<rQueue, rStream, rSaved, rStatus>>
    BY <1>1, <1>7 DEF R!StoreInMemory
  <2>2. Told(o)
    BY <1>4, <2>1, Telling
  <2>3. ReceiverTyped'
    BY <1>2, <1>3, <2>1 DEF Typed, ReceiverTyped
  <2> QED BY <1>3, <1>5, <2>1, <2>2, <2>3 DEF Handled, Good, Fresh, SavesNothing
<1> QED BY <1>6, <1>7

\* fail() of the receiver o.
LEMMA FailFacts ==
  ASSUME Typed, NEW o \in Attempt, R!Fail(o)
  PROVE  /\ rStatus' \in [Attempt -> S!Status] /\ rStatus'[o] # "cancelled"
         /\ \A p \in Attempt : p # o => rStatus'[p] = rStatus[p]
BY DEF Typed, ReceiverTyped, S!Status, R!Fail

LEMMA ChunkHandled ==
  ASSUME Typed, StreamInv, NEW o \in Attempt, NEW index \in Nat, NEW d \in Nat, R!HandleChunk(o, index, d),
         UNCHANGED <<byKey, onScreen>>
  PROVE  Handled(o)
<1>1. Good(o) /\ rReceived[o] \in Nat
  BY DEF StreamInv, Typed, ReceiverTyped
<1>2. CASE R!IgnoreChunk(o, index)
  <2>1. UNCHANGED <<rStatus, rReceived, rExpected, rSinceAck, rQueue, rStream, rContent, rSaved, rPicking, toSender>>
    BY <1>2 DEF R!IgnoreChunk, R!receiverVars, R!objectVars
  <2>2. ReceiverTyped' /\ Told(o)
    BY <2>1, TellingNothing DEF Typed, ReceiverTyped
  <2> QED BY <1>1, <2>1, <2>2 DEF Handled, Good, Fresh, SavesNothing
<1>3. CASE R!OutOfOrder(o, index)
  <2>1. /\ R!Fail(o)
        /\ UNCHANGED <<rReceived, rExpected, rSinceAck, rQueue, rStream, rContent, rSaved, rPicking, toSender>>
    BY <1>3 DEF R!OutOfOrder
  <2>2. /\ rStatus' \in [Attempt -> S!Status] /\ rStatus'[o] # "cancelled"
        /\ \A p \in Attempt : p # o => rStatus'[p] = rStatus[p]
    BY <2>1, FailFacts
  <2>3. ReceiverTyped' /\ Told(o)
    BY <2>1, <2>2, TellingNothing DEF Typed, ReceiverTyped
  <2> QED BY <1>1, <2>1, <2>2, <2>3 DEF Handled, Good, Fresh, SavesNothing
<1>4. CASE R!StoreChunk(o, index, d)
  <2>1. /\ R!Active(o) /\ rExpected' = [rExpected EXCEPT ![o] = @ + 1] /\ UNCHANGED rPicking
        /\ R!StoreOnDisk(o, d) \/ R!StoreInMemory(o, d) \/ R!StoreFails(o)
    <3>1. rStream[o] \in R!Stream
      BY DEF Typed, ReceiverTyped
    <3> QED BY <1>4, <3>1 DEF R!StoreChunk, R!Stream
  <2>2. rExpected' \in [Attempt -> Nat]
    BY <2>1 DEF Typed, ReceiverTyped
  <2>3. CASE R!StoreOnDisk(o, d)
    <3>1. /\ rQueue' = [rQueue EXCEPT ![o] = Append(@, d)]
          /\ UNCHANGED <<rStatus, rReceived, rSinceAck, rStream, rContent, rSaved, toSender>>
      BY <2>3 DEF R!StoreOnDisk
    <3>2. ReceiverTyped'
      BY <2>1, <2>2, <3>1 DEF Typed, ReceiverTyped
    <3>3. Told(o)
      BY <3>1, TellingNothing
    <3> QED BY <1>1, <2>1, <3>1, <3>2, <3>3 DEF Handled, Good, Fresh, SavesNothing
  <2>4. CASE R!StoreInMemory(o, d)
    BY <2>1, <2>2, <2>4, MemoryHandled
  <2>5. CASE R!StoreFails(o)
    <3>1. R!Fail(o) /\ UNCHANGED <<rReceived, rSinceAck, rQueue, rStream, rContent, rSaved, toSender>>
      BY <2>5 DEF R!StoreFails
    <3>2. /\ rStatus' \in [Attempt -> S!Status] /\ rStatus'[o] # "cancelled"
          /\ \A p \in Attempt : p # o => rStatus'[p] = rStatus[p]
      BY <3>1, FailFacts
    <3>3. ReceiverTyped' /\ Told(o)
      BY <2>1, <2>2, <3>1, <3>2, TellingNothing DEF Typed, ReceiverTyped
    <3> QED BY <1>1, <2>1, <3>1, <3>2, <3>3 DEF Handled, Good, Fresh, SavesNothing
  <2> QED BY <2>1, <2>3, <2>4, <2>5
<1> QED BY <1>2, <1>3, <1>4 DEF R!HandleChunk

-----------------------------------------------------------------------------
(* The disk and the dialog.                                                *)

LEMMA WriteDoneHandled ==
  ASSUME Typed, StreamInv, NEW o \in Attempt, R!WriteDone(o), UNCHANGED <<byKey, onScreen>>
  PROVE  Handled(o)
<1>1. /\ rQueue[o] # <<>> /\ rStream[o] = "open" /\ R!CountChunk(o) /\ R!Tell(R!Ack(o))
      /\ rContent' = [rContent EXCEPT ![o] = Append(@, Head(rQueue[o]))]
      /\ rQueue' = [rQueue EXCEPT ![o] = Tail(@)]
      /\ rStream' = [rStream EXCEPT ![o] = IF R!Full(o) THEN "closing" ELSE "open"]
      /\ UNCHANGED <<rStatus, rExpected, rSaved, rPicking>>
  BY DEF R!WriteDone, R!Writing, R!ConfirmWrite
<1>2. /\ rReceived' \in [Attempt -> Nat] /\ rSinceAck' \in [Attempt -> 0..AckEvery - 1]
      /\ rReceived'[o] = rReceived[o] + 1 /\ rReceived[o] \in Nat
      /\ \A p \in Attempt : p # o => rReceived'[p] = rReceived[p]
  BY <1>1, CountFacts
<1>3. Told(o)
  BY <1>1, <1>2, AckAnswers, Telling
<1>4. Good(o)
  BY DEF StreamInv
<1>5. /\ Tail(rQueue[o]) \in Seq(Nat) /\ Append(rContent[o], Head(rQueue[o])) \in Seq(Nat)
  BY <1>1, TailFacts DEF Typed, ReceiverTyped
<1>6. ReceiverTyped'
  BY <1>1, <1>2, <1>5 DEF Typed, ReceiverTyped, R!Stream
<1>7. /\ rStatus[o] = "cancelled" => Rearmed(o)
      /\ ~rPicking[o]
      /\ \A p \in Attempt : p # o => rStream'[p] = rStream[p]
  BY <1>1, <1>4 DEF Good, Typed, ReceiverTyped
<1> QED BY <1>1, <1>2, <1>3, <1>6, <1>7 DEF Handled, Fresh, SavesNothing

LEMMA WriteAbortedHandled ==
  ASSUME Typed, StreamInv, NEW o \in Attempt, R!WriteDoneAborted(o), UNCHANGED <<byKey, onScreen>>
  PROVE  Handled(o)
<1>1. /\ rStream[o] = "aborting" /\ R!CountChunk(o) /\ R!Tell(R!Ack(o))
      /\ R!Fail(o) \/ UNCHANGED rStatus
      /\ rQueue' = [rQueue EXCEPT ![o] = <<>>]
      /\ UNCHANGED <<rExpected, rStream, rContent, rSaved, rPicking>>
  BY DEF R!WriteDoneAborted
<1>2. /\ rReceived' \in [Attempt -> Nat] /\ rSinceAck' \in [Attempt -> 0..AckEvery - 1]
      /\ rReceived'[o] = rReceived[o] + 1 /\ rReceived[o] \in Nat
      /\ \A p \in Attempt : p # o => rReceived'[p] = rReceived[p]
  BY <1>1, CountFacts
<1>3. Told(o)
  BY <1>1, <1>2, AckAnswers, Telling
<1>4. Good(o)
  BY DEF StreamInv
<1>5. rStatus' \in [Attempt -> S!Status] /\ \A p \in Attempt : p # o => rStatus'[p] = rStatus[p]
  BY <1>1, FailFacts DEF Typed, ReceiverTyped
<1>6. rQueue' \in [Attempt -> Seq(Nat)]
  BY <1>1, EmptyFacts DEF Typed, ReceiverTyped
<1>7. ReceiverTyped'
  BY <1>1, <1>2, <1>5, <1>6 DEF Typed, ReceiverTyped
<1> QED BY <1>1, <1>2, <1>3, <1>4, <1>5, <1>7 DEF Handled, Good, Fresh, SavesNothing

LEMMA WriteFailsHandled ==
  ASSUME Typed, StreamInv, NEW o \in Attempt, R!WriteFails(o), UNCHANGED <<byKey, onScreen>>
  PROVE  Handled(o)
<1>1. /\ rStream[o] \in {"open", "aborting"} /\ R!Fail(o)
      /\ rQueue' = [rQueue EXCEPT ![o] = <<>>]
      /\ rStream' = [rStream EXCEPT ![o] = IF @ = "open" THEN "errored" ELSE @]
      /\ UNCHANGED <<rReceived, rExpected, rSinceAck, rContent, rSaved, rPicking, toSender>>
  BY DEF R!WriteFails, R!Writing
<1>2. /\ rStatus' \in [Attempt -> S!Status] /\ rStatus'[o] # "cancelled"
      /\ \A p \in Attempt : p # o => rStatus'[p] = rStatus[p]
  BY <1>1, FailFacts
<1>3. Good(o) /\ rReceived[o] \in Nat /\ Told(o)
  BY <1>1, TellingNothing DEF StreamInv, Typed, ReceiverTyped
<1>4. rQueue' \in [Attempt -> Seq(Nat)]
  BY <1>1, EmptyFacts DEF Typed, ReceiverTyped
<1>5. /\ rStream' \in [Attempt -> R!Stream]
      /\ \A p \in Attempt : p # o => rStream'[p] = rStream[p]
  BY <1>1 DEF Typed, ReceiverTyped, R!Stream
<1>6. ReceiverTyped'
  BY <1>1, <1>2, <1>4, <1>5 DEF Typed, ReceiverTyped
<1> QED BY <1>1, <1>2, <1>3, <1>5, <1>6 DEF Handled, Good, Fresh, SavesNothing

LEMMA CloseFailsHandled ==
  ASSUME Typed, StreamInv, NEW o \in Attempt, R!CloseFails(o), UNCHANGED <<byKey, onScreen>>
  PROVE  Handled(o)
<1>1. /\ rStream[o] \in {"closing", "closingAborted"} /\ R!Fail(o)
      /\ rQueue' = [rQueue EXCEPT ![o] = <<>>]
      /\ UNCHANGED <<rReceived, rExpected, rSinceAck, rSaved, rPicking, toSender>>
  BY DEF R!CloseFails, R!Closing
<1>2. /\ \E st \in {"errored", "none"} : rStream' = [rStream EXCEPT ![o] = st]
      /\ rContent' = rContent \/ rContent' = [rContent EXCEPT ![o] = <<>>]
  BY DEF R!CloseFails
<1>3. /\ rStatus' \in [Attempt -> S!Status] /\ rStatus'[o] # "cancelled"
      /\ \A p \in Attempt : p # o => rStatus'[p] = rStatus[p]
  BY <1>1, FailFacts
<1>4. Good(o) /\ rReceived[o] \in Nat /\ Told(o)
  BY <1>1, TellingNothing DEF StreamInv, Typed, ReceiverTyped
<1>5. /\ rStream' \in [Attempt -> R!Stream]
      /\ \A p \in Attempt : p # o => rStream'[p] = rStream[p]
  BY <1>2 DEF Typed, ReceiverTyped, R!Stream
<1>6. rQueue' \in [Attempt -> Seq(Nat)] /\ rContent' \in [Attempt -> Seq(Nat)]
  BY <1>1, <1>2, EmptyFacts DEF Typed, ReceiverTyped
<1>7. ReceiverTyped'
  BY <1>1, <1>3, <1>5, <1>6 DEF Typed, ReceiverTyped
<1> QED BY <1>1, <1>3, <1>4, <1>5, <1>7 DEF Handled, Good, Fresh, SavesNothing

LEMMA AbortHandled ==
  ASSUME Typed, StreamInv, NEW o \in Attempt, R!AbortDone(o), UNCHANGED <<byKey, onScreen>>
  PROVE  Handled(o)
<1>1. /\ rStream[o] = "aborting"
      /\ rStream' = [rStream EXCEPT ![o] = "none"]
      /\ rContent' = [rContent EXCEPT ![o] = <<>>]
      /\ UNCHANGED <<rStatus, rReceived, rExpected, rSinceAck, rQueue, rSaved, rPicking, toSender>>
  BY DEF R!AbortDone
<1>2. Good(o) /\ rReceived[o] \in Nat /\ Told(o)
  BY <1>1, TellingNothing DEF StreamInv, Typed, ReceiverTyped
<1>3. /\ rStream' \in [Attempt -> R!Stream] /\ rStream'[o] = "none"
      /\ \A p \in Attempt : p # o => rStream'[p] = rStream[p]
  BY <1>1 DEF Typed, ReceiverTyped, R!Stream
<1>4. rContent' \in [Attempt -> Seq(Nat)]
  BY <1>1, EmptyFacts DEF Typed, ReceiverTyped
<1>5. ReceiverTyped'
  BY <1>1, <1>3, <1>4 DEF Typed, ReceiverTyped
<1> QED BY <1>1, <1>2, <1>3, <1>5 DEF Handled, Good, Fresh, SavesNothing

LEMMA DivisionFacts ==
  ASSUME NEW E \in Nat, E > 0, NEW x \in Nat, NEW a, a = x \div E
  PROVE  /\ a \in Nat /\ a * E <= x /\ x < (a + 1) * E
         /\ x % E = 0 => x = a * E
<1>1. a \in Nat
  OBVIOUS
<1>2. a * E <= x
  OBVIOUS
<1>3. x < (a + 1) * E
  OBVIOUS
<1>4. x % E = 0 => x = a * E
  OBVIOUS
<1> QED BY <1>1, <1>2, <1>3, <1>4

\* The position p of an acknowledgement, the k-th, after n chunks that follow
\* "since" chunks not yet acknowledged.
LEMMA AckPosition ==
  ASSUME NEW E \in Nat \ {0}, NEW since \in Nat, since < E, NEW n \in Nat, NEW a \in Nat, NEW p \in Nat,
         NEW k \in Nat, a * E <= since + n, since + n < (a + 1) * E, 1 <= p, p <= n + 1 + a, since + p = k * (E + 1)
  PROVE  p - k \in Nat /\ p - k <= n
<1>1. PICK x \in Nat : x = k * E
  OBVIOUS
<1>2. k * (E + 1) = x + k
  BY <1>1
<1>3. since + p = x + k
  BY <1>2
<1>4. k # 0
  <2> SUFFICES ASSUME k = 0 PROVE FALSE
    OBVIOUS
  <2>1. x = 0
    BY <1>1
  <2> QED BY <1>3, <2>1
<1>5. x >= E
  <2>1. PICK j \in Nat : k = j + 1
    BY <1>4
  <2>2. PICK y \in Nat : y = j * E
    OBVIOUS
  <2>3. x = y + E
    BY <1>1, <2>1, <2>2
  <2> QED BY <2>2, <2>3
<1>6. p - k \in Nat
  BY <1>3, <1>5
<1>7. k <= a + 1
  <2> SUFFICES ASSUME k >= a + 2 PROVE FALSE
    OBVIOUS
  <2>1. PICK j \in Nat : k = a + 1 + j /\ j >= 1
    OBVIOUS
  <2>2. PICK y \in Nat, z \in Nat : y = (a + 1) * E /\ z = j * E
    OBVIOUS
  <2>3. x = y + z
    BY <1>1, <2>1, <2>2
  <2> QED BY <1>3, <2>1, <2>2, <2>3
<1>8. k <= a
  <2> SUFFICES ASSUME k = a + 1 PROVE FALSE
    BY <1>7
  <2>1. x > since + n
    BY <1>1
  <2> QED BY <1>3, <2>1
<1>9. x <= since + n
  <2>1. PICK j \in Nat : a = k + j
    BY <1>8
  <2>2. PICK y \in Nat : y = j * E
    OBVIOUS
  <2>3. a * E = x + y
    BY <1>1, <2>1, <2>2
  <2> QED BY <2>2, <2>3
<1> QED BY <1>3, <1>6, <1>9

\* The acknowledgements among the confirmations do not run ahead of the count.
LEMMA ConfirmationsAnswer ==
  ASSUME Typed, NEW o \in Attempt, NEW n \in Nat, rReceived'[o] = rReceived[o] + n, rSaved'[o] # <<>>,
         NEW c, c = R!Confirmations(o, n)
  PROVE  c \in Replies /\ \A i \in DOMAIN c : Answers(o, c[i])
<1>1. PICK E, since, got : E = AckEvery /\ since = rSinceAck[o] /\ got = rReceived[o]
  OBVIOUS
<1>2. E \in Nat \ {0} /\ since \in Nat /\ since < E /\ got \in Nat
  BY <1>1, TransferAssumption DEF Typed, ReceiverTyped
<1>3. PICK a \in Nat : a = (since + n) \div E /\ a * E <= since + n /\ since + n < (a + 1) * E
  <2>1. PICK a : a = (since + n) \div E
    OBVIOUS
  <2>2. E > 0 /\ since + n \in Nat
    BY <1>2
  <2> QED BY <1>2, <2>1, <2>2, DivisionFacts
<1>4. PICK N \in Nat : N = n + 1 + a
  BY <1>3
<1> DEFINE k(p) == (since + p) \div (E + 1)
           m(p) == IF (since + p) % (E + 1) = 0 THEN R!ReplyBytes("ack", o, got + p - k(p))
                   ELSE R!Reply("complete", o)
<1>5. c = [p \in 1..N |-> m(p)]
  BY <1>1, <1>3, <1>4 DEF R!Confirmations
<1>6. ASSUME NEW p \in 1..N PROVE m(p) \in ToSender /\ Answers(o, m(p))
  <2>1. CASE (since + p) % (E + 1) = 0
    <3>1. PICK j \in Nat : j = k(p) /\ since + p = j * (E + 1)
      <4>1. PICK F, x, j : F = E + 1 /\ x = since + p /\ j = x \div F
        OBVIOUS
      <4>2. F \in Nat /\ F > 0 /\ x \in Nat /\ x % F = 0
        BY <1>2, <1>4, <2>1, <4>1
      <4>3. j \in Nat /\ x = j * F
        BY <4>1, <4>2, DivisionFacts
      <4> QED BY <4>1, <4>3
    <3>2. p \in Nat /\ 1 <= p /\ p <= n + 1 + a
      BY <1>4
    <3>3. p - j \in Nat /\ p - j <= n
      BY <1>2, <1>3, <3>1, <3>2, AckPosition
    <3>4. PICK b \in Nat : b = got + p - k(p) /\ b <= got + n
      BY <1>2, <3>1, <3>2, <3>3
    <3>5. PICK r : r = R!ReplyBytes("ack", o, b)
      OBVIOUS
    <3>6. r \in ToSender /\ r.type = "ack" /\ r.id = o[1] /\ r.bytes = b
      BY <3>5, RepliesMade
    <3>7. m(p) = r
      BY <2>1, <3>4, <3>5
    <3>8. Answers(o, r)
      BY <1>1, <3>4, <3>6 DEF Answers
    <3> QED BY <3>6, <3>7, <3>8
  <2>2. CASE (since + p) % (E + 1) # 0
    <3>1. m(p) = R!Reply("complete", o)
      BY <2>2
    <3> QED BY <3>1, CompleteAnswers
  <2> QED BY <2>1, <2>2
<1> HIDE DEF m
<1>7. c \in Seq(ToSender) /\ \A i \in DOMAIN c : i \in 1..N /\ c[i] = m(i)
  BY <1>4, <1>5, <1>6
<1> QED BY <1>6, <1>7 DEF Replies

LEMMA CloseDoneHandled ==
  ASSUME Typed, StreamInv, NEW o \in Attempt, R!CloseDone(o), UNCHANGED <<byKey, onScreen>>
  PROVE  Handled(o)
<1>1. PICK late, n, c : late = rQueue[o] /\ n = Len(late) /\ c = R!Confirmations(o, n)
  OBVIOUS
<1>2. PICK extra : extra = [i \in DOMAIN late |-> <<late[i]>>]
  OBVIOUS
<1>3. PICK kept : kept = Append(rSaved[o], rContent[o])
  OBVIOUS
<1>4. PICK saved : saved = kept \o extra
  OBVIOUS
<1>5. /\ rStream[o] \in {"closing", "closingAborted"}
      /\ rStream' = [rStream EXCEPT ![o] = "none"]
      /\ rContent' = [rContent EXCEPT ![o] = <<>>]
      /\ rSaved' = [rSaved EXCEPT ![o] = saved]
      /\ rStatus' = [rStatus EXCEPT ![o] = "completed"]
      /\ R!Tell(c)
      /\ rReceived' = [rReceived EXCEPT ![o] = @ + n]
      /\ rSinceAck' = [rSinceAck EXCEPT ![o] = (@ + n) % AckEvery]
      /\ rQueue' = [rQueue EXCEPT ![o] = <<>>]
      /\ UNCHANGED <<rExpected, rPicking>>
  BY <1>1, <1>2, <1>3, <1>4 DEF R!CloseDone, R!Closing, R!SetStatus
<1>6. late \in Seq(Nat) /\ rContent[o] \in Seq(Nat) /\ rSaved[o] \in Seq(Seq(Nat)) /\ n \in Nat
  BY <1>1 DEF Typed, ReceiverTyped
<1>7. extra \in Seq(Seq(Nat))
  <2>1. DOMAIN late = 1..n
    BY <1>1, <1>6
  <2>2. \A i \in 1..n : <<late[i]>> \in Seq(Nat)
    BY <1>6, <2>1
  <2> QED BY <1>2, <1>6, <2>1, <2>2
<1>8. kept \in Seq(Seq(Nat)) /\ Len(kept) > 0
  <2>1. Len(kept) = Len(rSaved[o]) + 1 /\ Len(rSaved[o]) \in Nat /\ kept \in Seq(Seq(Nat))
    BY <1>3, <1>6
  <2> QED BY <2>1
<1>9. saved \in Seq(Seq(Nat)) /\ saved # <<>>
  <2>1. saved \in Seq(Seq(Nat)) /\ Len(saved) = Len(kept) + Len(extra) /\ Len(extra) \in Nat /\ Len(kept) \in Nat
    BY <1>4, <1>7, <1>8
  <2>2. Len(saved) > 0
    BY <1>8, <2>1
  <2> QED BY <2>1, <2>2
<1>10. rQueue' \in [Attempt -> Seq(Nat)] /\ rContent' \in [Attempt -> Seq(Nat)]
  BY <1>5, EmptyFacts DEF Typed, ReceiverTyped
<1>11. /\ rSaved' \in [Attempt -> Seq(Seq(Nat))] /\ rSaved'[o] = saved
       /\ \A p \in Attempt : p # o => rSaved'[p] = rSaved[p]
  BY <1>5, <1>9 DEF Typed, ReceiverTyped
<1>12. /\ rReceived' \in [Attempt -> Nat] /\ rReceived'[o] = rReceived[o] + n
       /\ rReceived[o] <= rReceived'[o]
       /\ \A p \in Attempt : p # o => rReceived'[p] = rReceived[p]
  BY <1>5, <1>6 DEF Typed, ReceiverTyped
<1>13. rSinceAck' \in [Attempt -> 0..AckEvery - 1]
  <2>1. AckEvery \in Nat /\ AckEvery > 0 /\ rSinceAck[o] + n \in Nat
    BY <1>6, TransferAssumption DEF Typed, ReceiverTyped
  <2>2. (rSinceAck[o] + n) % AckEvery \in 0..AckEvery - 1
    BY <2>1
  <2> QED BY <1>5, <2>2 DEF Typed, ReceiverTyped
<1>14. /\ rStatus' \in [Attempt -> S!Status] /\ rStatus'[o] = "completed"
       /\ rStream' \in [Attempt -> R!Stream] /\ rStream'[o] = "none"
       /\ \A p \in Attempt : p # o => rStatus'[p] = rStatus[p] /\ rStream'[p] = rStream[p]
  BY <1>5 DEF Typed, ReceiverTyped, S!Status, R!Stream
<1>15. ReceiverTyped'
  BY <1>5, <1>10, <1>11, <1>12, <1>13, <1>14 DEF Typed, ReceiverTyped
<1>16. c \in Replies /\ \A i \in DOMAIN c : Answers(o, c[i])
  BY <1>1, <1>6, <1>9, <1>11, <1>12, ConfirmationsAnswer
<1>17. Told(o)
  BY <1>5, <1>16, Telling
<1>18. rStatus[o] = "cancelled" /\ ~Rearmed(o) => rStream[o] = "closingAborted"
  BY <1>5 DEF StreamInv, Good
<1> QED BY <1>5, <1>9, <1>11, <1>12, <1>14, <1>15, <1>17, <1>18 DEF Handled, Fresh, SavesNothing

LEMMA DiskHandled ==
  ASSUME Typed, StreamInv, NEW o \in Attempt, R!DiskStep(o) \/ R!DiskFault(o), UNCHANGED <<byKey, onScreen>>
  PROVE  Handled(o)
<1>1. CASE R!WriteDone(o)
  BY <1>1, WriteDoneHandled
<1>2. CASE R!WriteDoneAborted(o)
  BY <1>2, WriteAbortedHandled
<1>3. CASE R!CloseDone(o)
  BY <1>3, CloseDoneHandled
<1>4. CASE R!AbortDone(o)
  BY <1>4, AbortHandled
<1>5. CASE R!WriteFails(o)
  BY <1>5, WriteFailsHandled
<1>6. CASE R!CloseFails(o)
  BY <1>6, CloseFailsHandled
<1> QED BY <1>1, <1>2, <1>3, <1>4, <1>5, <1>6 DEF R!DiskStep, R!DiskFault

\* What the end of accept() does to the receiver o.
LEMMA AcceptedFacts ==
  ASSUME Typed, NEW o \in Attempt, NEW stream \in R!Stream, NEW content \in Seq(Nat), R!Accepted(o, stream, content)
  PROVE  /\ rStatus' \in [Attempt -> S!Status] /\ rStatus'[o] # "cancelled"
         /\ rStream' \in [Attempt -> R!Stream] /\ (stream = "none" => rStream'[o] = "none")
         /\ rContent' \in [Attempt -> Seq(Nat)]
         /\ rSaved' \in [Attempt -> Seq(Seq(Nat))] /\ (rSaved[o] # <<>> => rSaved'[o] # <<>>)
         /\ FileSize[o[1]] > 0 => rSaved'[o] = rSaved[o]
         /\ \A p \in Attempt : p # o => /\ rStatus'[p] = rStatus[p] /\ rStream'[p] = rStream[p]
                                        /\ rSaved'[p] = rSaved[p]
         /\ UNCHANGED <<rReceived, rExpected, rSinceAck, rQueue>>
         /\ Told(o)
<1>1. /\ \E st \in {"closing", stream} :
           (stream = "none" => st = "none") /\ rStream' = [rStream EXCEPT ![o] = st]
      /\ rContent' = [rContent EXCEPT ![o] = content]
      /\ UNCHANGED <<rReceived, rExpected, rSinceAck, rQueue>>
  BY DEF R!Accepted
<1>2. /\ rStream' \in [Attempt -> R!Stream] /\ (stream = "none" => rStream'[o] = "none")
      /\ \A p \in Attempt : p # o => rStream'[p] = rStream[p]
  BY <1>1 DEF Typed, ReceiverTyped, R!Stream
<1>3. rContent' \in [Attempt -> Seq(Nat)]
  BY <1>1 DEF Typed, ReceiverTyped
<1>4. PICK a : a = R!ReplyBytes("accept", o, rReceived[o])
  OBVIOUS
<1>5. rReceived[o] \in Nat
  BY DEF Typed, ReceiverTyped
<1>6. a \in ToSender /\ a.type = "accept" /\ a.id = o[1]
  BY <1>4, <1>5, RepliesMade
<1>7. Answers(o, a)
  BY <1>6 DEF Answers
<1>8. CASE FileSize[o[1]] = 0 /\ stream = "none"
  <2>1. /\ R!Tell(<<a, R!Reply("complete", o)>>)
        /\ rStatus' = [rStatus EXCEPT ![o] = "completed"]
        /\ rSaved' = [rSaved EXCEPT ![o] = Append(@, <<>>)]
    BY <1>4, <1>8 DEF R!Accepted, R!SetStatus
  <2>2. PICK empty \in Seq(Nat) : empty = <<>>
    <3>1. <<>> \in Seq(Nat)
      OBVIOUS
    <3> QED BY <3>1
  <2>3. PICK saved : saved = Append(rSaved[o], empty)
    OBVIOUS
  <2>4. saved \in Seq(Seq(Nat)) /\ saved # <<>>
    BY <2>2, <2>3, FileAdded DEF Typed, ReceiverTyped
  <2>5. rSaved' = [rSaved EXCEPT ![o] = saved]
    BY <2>1, <2>2, <2>3
  <2>6. /\ rSaved' \in [Attempt -> Seq(Seq(Nat))] /\ rSaved'[o] # <<>>
        /\ \A p \in Attempt : p # o => rSaved'[p] = rSaved[p]
    BY <2>4, <2>5 DEF Typed, ReceiverTyped
  <2>7. /\ rStatus' \in [Attempt -> S!Status] /\ rStatus'[o] # "cancelled"
        /\ \A p \in Attempt : p # o => rStatus'[p] = rStatus[p]
    BY <2>1 DEF Typed, ReceiverTyped, S!Status
  <2>8. PICK b : b = R!Reply("complete", o)
    OBVIOUS
  <2>9. b \in ToSender /\ Answers(o, b)
    BY <2>6, <2>8, CompleteAnswers
  <2>10. PICK ms : ms = <<a, b>>
    OBVIOUS
  <2>11. ms \in Replies /\ \A i \in DOMAIN ms : ms[i] = a \/ ms[i] = b
    BY <1>6, <2>9, <2>10 DEF Replies
  <2>12. R!Tell(ms)
    BY <2>1, <2>8, <2>10
  <2>13. \A i \in DOMAIN ms : Answers(o, ms[i])
    BY <1>7, <2>9, <2>11
  <2>14. Told(o)
    BY <2>11, <2>12, <2>13, Telling
  <2> QED BY <1>1, <1>2, <1>3, <1>8, <2>6, <2>7, <2>14
<1>9. CASE ~(FileSize[o[1]] = 0 /\ stream = "none")
  <2>1. /\ R!Tell(<<a>>)
        /\ \E st \in {"failed", "transferring"} : rStatus' = [rStatus EXCEPT ![o] = st]
        /\ UNCHANGED rSaved
    BY <1>4, <1>9 DEF R!Accepted, R!SetStatus
  <2>2. /\ rStatus' \in [Attempt -> S!Status] /\ rStatus'[o] # "cancelled"
        /\ \A p \in Attempt : p # o => rStatus'[p] = rStatus[p]
    BY <2>1 DEF Typed, ReceiverTyped, S!Status
  <2>3. PICK ms : ms = <<a>>
    OBVIOUS
  <2>4. ms \in Replies /\ \A i \in DOMAIN ms : ms[i] = a
    BY <1>6, <2>3 DEF Replies
  <2>5. R!Tell(ms) /\ \A i \in DOMAIN ms : Answers(o, ms[i])
    BY <1>7, <2>1, <2>3, <2>4
  <2>6. Told(o)
    BY <2>4, <2>5, Telling
  <2> QED BY <1>1, <1>2, <1>3, <2>1, <2>2, <2>6 DEF Typed, ReceiverTyped
<1> QED BY <1>8, <1>9

\* The user accepts the offer on the screen.
LEMMA AcceptHandled ==
  ASSUME Typed, StreamInv, NEW o \in Attempt, R!Accept(o), o[1] \notin onScreen', UNCHANGED byKey
  PROVE  Handled(o)
<1>1. Good(o) /\ rReceived[o] \in Nat
  BY DEF StreamInv, Typed, ReceiverTyped
<1>2. CASE rStream[o] = "none" /\ HasPicker
  <2>1. /\ rPicking' = [rPicking EXCEPT ![o] = TRUE]
        /\ UNCHANGED <<rStatus, rReceived, rExpected, rSinceAck, rQueue, rStream, rContent, rSaved, toSender>>
    BY <1>2 DEF R!Accept
  <2>2. ReceiverTyped' /\ \A p \in Attempt : p # o => rPicking'[p] = rPicking[p]
    BY <2>1 DEF Typed, ReceiverTyped
  <2>3. Told(o)
    BY <2>1, TellingNothing
  <2> QED BY <1>1, <1>2, <2>1, <2>2, <2>3 DEF Handled, Good, SavesNothing
<1>3. CASE ~(rStream[o] = "none" /\ HasPicker)
  <2>1. PICK stream, content : stream = rStream[o] /\ content = rContent[o]
    OBVIOUS
  <2>2. R!Accepted(o, stream, content) /\ UNCHANGED rPicking
    BY <1>3, <2>1 DEF R!Accept
  <2>3. stream \in R!Stream /\ content \in Seq(Nat)
    BY <2>1 DEF Typed, ReceiverTyped
  <2>4. /\ rStatus' \in [Attempt -> S!Status] /\ rStatus'[o] # "cancelled"
        /\ rStream' \in [Attempt -> R!Stream] /\ (stream = "none" => rStream'[o] = "none")
        /\ rContent' \in [Attempt -> Seq(Nat)]
        /\ rSaved' \in [Attempt -> Seq(Seq(Nat))] /\ (rSaved[o] # <<>> => rSaved'[o] # <<>>)
        /\ FileSize[o[1]] > 0 => rSaved'[o] = rSaved[o]
        /\ \A p \in Attempt : p # o => /\ rStatus'[p] = rStatus[p] /\ rStream'[p] = rStream[p]
                                       /\ rSaved'[p] = rSaved[p]
        /\ UNCHANGED <<rReceived, rExpected, rSinceAck, rQueue>>
        /\ Told(o)
    BY <2>2, <2>3, AcceptedFacts
  <2>5. ReceiverTyped'
    BY <2>2, <2>4 DEF Typed, ReceiverTyped
  <2> QED BY <1>1, <2>1, <2>2, <2>4, <2>5 DEF Handled, Good, SavesNothing
<1> QED BY <1>2, <1>3

\* The save dialog ends.
LEMMA DialogHandled ==
  ASSUME Typed, StreamInv, NEW o \in Attempt, R!PickFile(o) \/ R!PickFails(o) \/ R!PickCancelled(o),
         UNCHANGED <<byKey, onScreen>>
  PROVE  Handled(o)
<1>1. Good(o) /\ rReceived[o] \in Nat /\ rPicking[o] /\ rPicking' = [rPicking EXCEPT ![o] = FALSE]
  BY DEF StreamInv, Typed, ReceiverTyped, R!PickFile, R!PickFails, R!PickCancelled
<1>2. rStream[o] = "none"
  BY <1>1 DEF Good
<1>3. /\ rPicking' \in [Attempt -> BOOLEAN] /\ ~rPicking'[o]
      /\ \A p \in Attempt : p # o => rPicking'[p] = rPicking[p]
  BY <1>1 DEF Typed, ReceiverTyped
<1>4. CASE R!PickFile(o) \/ R!PickFails(o)
  <2>1. PICK stream \in R!Stream, content \in Seq(Nat) : R!Accepted(o, stream, content)
    <3>1. "open" \in R!Stream /\ <<>> \in Seq(Nat) /\ rStream[o] \in R!Stream /\ rContent[o] \in Seq(Nat)
      BY DEF R!Stream, Typed, ReceiverTyped
    <3> QED BY <1>4, <3>1 DEF R!PickFile, R!PickFails
  <2>2. /\ rStatus' \in [Attempt -> S!Status] /\ rStatus'[o] # "cancelled"
        /\ rStream' \in [Attempt -> R!Stream]
        /\ rContent' \in [Attempt -> Seq(Nat)]
        /\ rSaved' \in [Attempt -> Seq(Seq(Nat))] /\ (rSaved[o] # <<>> => rSaved'[o] # <<>>)
        /\ FileSize[o[1]] > 0 => rSaved'[o] = rSaved[o]
        /\ \A p \in Attempt : p # o => /\ rStatus'[p] = rStatus[p] /\ rStream'[p] = rStream[p]
                                       /\ rSaved'[p] = rSaved[p]
        /\ UNCHANGED <<rReceived, rExpected, rSinceAck, rQueue>>
        /\ Told(o)
    BY <2>1, AcceptedFacts
  <2>3. ReceiverTyped'
    BY <1>3, <2>2 DEF Typed, ReceiverTyped
  <2> QED BY <1>1, <1>3, <2>2, <2>3 DEF Handled, Fresh, SavesNothing
<1>5. CASE R!PickCancelled(o)
  <2>1. /\ rStatus' = [rStatus EXCEPT ![o] = "cancelled"] /\ R!Tell(<<R!Reply("reject", o)>>)
        /\ UNCHANGED <<rReceived, rExpected, rSinceAck, rQueue, rStream, rContent, rSaved>>
    BY <1>5 DEF R!PickCancelled, R!SetStatus
  <2>2. Told(o)
    BY <2>1, TellingOne
  <2>3. ReceiverTyped' /\ \A p \in Attempt : p # o => rStatus'[p] = rStatus[p]
    BY <1>3, <2>1 DEF Typed, ReceiverTyped, S!Status
  <2> QED BY <1>1, <1>2, <1>3, <2>1, <2>2, <2>3 DEF Handled, Fresh, SavesNothing
<1> QED BY <1>4, <1>5

-----------------------------------------------------------------------------
(* Steps of several receivers, and of none.                                *)

LEMMA SayingNothing ==
  ASSUME Typed, UNCHANGED toSender
  PROVE  Spoken
<1>1. <<>> \in Replies /\ toSender \o <<>> = toSender /\ DOMAIN <<>> = {}
  BY DEF Typed, Replies
<1> QED BY <1>1 DEF Spoken

LEMMA SayingOne ==
  ASSUME Typed, NEW m \in ToSender, Honest(m)', R!Tell(<<m>>) \/ UNCHANGED toSender
  PROVE  Spoken
<1>1. CASE toSender' = toSender
  BY <1>1, SayingNothing
<1>2. CASE toSender' = toSender \o <<m>>
  <2>1. <<m>> \in Replies /\ \A i \in DOMAIN <<m>> : <<m>>[i] = m
    BY DEF Replies
  <2> QED BY <1>2, <2>1 DEF Spoken
<1> QED BY <1>1, <1>2 DEF R!Tell

LEMMA UntouchedSteps ==
  ASSUME Typed, StreamInv, UNCHANGED byKey, Spoken,
         UNCHANGED <<rStatus, rReceived, rExpected, rSinceAck, rQueue, rStream, rContent, rSaved, rPicking>>
  PROVE  ReceiverSteps
<1>1. ReceiverTyped'
  BY DEF Typed, ReceiverTyped
<1>2. ASSUME NEW o \in Attempt
      PROVE  /\ rReceived[o] <= rReceived'[o]
             /\ rSaved[o] # <<>> => rSaved'[o] # <<>>
             /\ Good(o)'
             /\ Fresh(o) => Fresh(o)'
             /\ SavesNothing(o)
  BY DEF Typed, ReceiverTyped, StreamInv, Good, Rearmed, Fresh, SavesNothing
<1> QED BY <1>1, <1>2 DEF ReceiverSteps

LEMMA StoppedSteps ==
  ASSUME Typed, StreamInv, NEW T, R!StopReceivers(T), UNCHANGED byKey, Spoken
  PROVE  ReceiverSteps
<1> DEFINE stopped == {o \in T : rStatus[o] \notin {"completed", "cancelled"}}
<1>1. /\ rStatus' = [o \in Attempt |-> IF o \in stopped THEN "cancelled" ELSE rStatus[o]]
      /\ rStream' = [o \in Attempt |-> IF o \in stopped THEN R!DiscardedStream(rStream[o]) ELSE rStream[o]]
      /\ rContent' = [o \in Attempt |->
           IF o \in stopped /\ rStream[o] \in {"none", "errored"} THEN <<>> ELSE rContent[o]]
      /\ UNCHANGED <<rReceived, rExpected, rSinceAck, rQueue, rSaved, rPicking>>
  BY DEF R!StopReceivers
<1>2. \A o \in stopped : rStatus[o] # "cancelled"
  OBVIOUS
<1> HIDE DEF stopped
<1>3. \A st \in R!Stream : /\ R!DiscardedStream(st) \in R!Stream \ {"open", "closing"}
                           /\ st = "none" => R!DiscardedStream(st) = "none"
  BY DEF R!Stream, R!DiscardedStream
<1>4. \A o \in Attempt : rStream[o] \in R!Stream /\ rReceived[o] \in Nat /\ rStatus[o] \in S!Status
  BY DEF Typed, ReceiverTyped
<1>5. rContent' \in [Attempt -> Seq(Nat)]
  <2>1. <<>> \in Seq(Nat) /\ \A o \in Attempt : rContent[o] \in Seq(Nat)
    BY DEF Typed, ReceiverTyped
  <2>2. \A o \in Attempt :
          (IF o \in stopped /\ rStream[o] \in {"none", "errored"} THEN <<>> ELSE rContent[o]) \in Seq(Nat)
    BY <2>1
  <2> QED BY <1>1, <2>2
<1>6. rStatus' \in [Attempt -> S!Status] /\ rStream' \in [Attempt -> R!Stream]
  BY <1>1, <1>3, <1>4 DEF S!Status
<1>7. ReceiverTyped'
  BY <1>1, <1>5, <1>6 DEF Typed, ReceiverTyped
<1>8. ASSUME NEW o \in Attempt
      PROVE  /\ rReceived[o] <= rReceived'[o]
             /\ rSaved[o] # <<>> => rSaved'[o] # <<>>
             /\ Good(o)'
             /\ Fresh(o) => Fresh(o)'
             /\ SavesNothing(o)
  <2>1. Good(o)
    BY DEF StreamInv
  <2>2. rStream'[o] = IF o \in stopped THEN R!DiscardedStream(rStream[o]) ELSE rStream[o]
    BY <1>1
  <2>3. rStatus'[o] = IF o \in stopped THEN "cancelled" ELSE rStatus[o]
    BY <1>1
  <2>4. rStream[o] = "none" => rStream'[o] = "none"
    BY <1>3, <1>4, <2>2
  <2>5. o \in stopped => rStream'[o] \notin {"open", "closing"}
    BY <1>3, <1>4, <2>2
  <2>6. Good(o)'
    BY <1>1, <2>1, <2>2, <2>3, <2>4, <2>5 DEF Good, Rearmed
  <2> QED BY <1>1, <1>4, <2>4, <2>6 DEF Fresh, SavesNothing
<1> QED BY <1>7, <1>8 DEF ReceiverSteps

LEMMA CancelReceiverSteps ==
  ASSUME Typed, Routes, StreamInv, NEW o \in Attempt, Routed(o), NEW local, R!CancelReceiver(o, local),
         UNCHANGED <<offers, byKey>>
  PROVE  ReceiverSteps
<1>1. PICK m : m = R!Reply("cancel", o)
  OBVIOUS
<1>2. m \in ToSender /\ m.type = "cancel" /\ m.id = o[1]
  BY <1>1, RepliesMade
<1>3. offers[o[1]] > 0
  BY RoutedFacts
<1>4. Honest(m)'
  BY <1>2, <1>3 DEF Honest
<1>5. R!StopReceivers({o}) /\ (R!Tell(<<m>>) \/ UNCHANGED toSender)
  BY <1>1 DEF R!CancelReceiver
<1>6. Spoken
  BY <1>2, <1>4, <1>5, SayingOne
<1>7. PICK T : T = {o}
  OBVIOUS
<1>8. R!StopReceivers(T)
  BY <1>5, <1>7
<1> QED BY <1>6, <1>8, StoppedSteps

LEMMA CancelAllReceiversSteps ==
  ASSUME Typed, StreamInv, NEW T, NEW local, R!CancelAllReceivers(T, local), UNCHANGED <<offers, byKey>>
  PROVE  ReceiverSteps
<1>1. R!CancelAllReply \in ToSender /\ R!CancelAllReply.type = "cancel-all"
  BY DEF ToSender, R!CancelAllReply
<1>2. Honest(R!CancelAllReply)'
  BY <1>1 DEF Honest
<1>3. R!StopReceivers(T) /\ (R!Tell(<<R!CancelAllReply>>) \/ UNCHANGED toSender)
  BY DEF R!CancelAllReceivers
<1>4. PICK m : m = R!CancelAllReply
  OBVIOUS
<1>5. m \in ToSender /\ Honest(m)' /\ (R!Tell(<<m>>) \/ UNCHANGED toSender)
  BY <1>1, <1>2, <1>3, <1>4 DEF Honest
<1>6. Spoken
  BY <1>5, SayingOne
<1> QED BY <1>3, <1>6, StoppedSteps

LEMMA ReceiverClosesSteps ==
  ASSUME Typed, StreamInv, ReceiverCloses
  PROVE  ReceiverSteps
<1>1. /\ rStatus' = [o \in Attempt |->
           IF o \in Receivers /\ rStatus[o] # "completed" THEN "failed" ELSE rStatus[o]]
      /\ UNCHANGED <<rReceived, rExpected, rSinceAck, rQueue, rStream, rContent, rSaved, rPicking, toSender, byKey>>
  BY DEF ReceiverCloses
<1>2. rStatus' \in [Attempt -> S!Status] /\ \A o \in Attempt : rStatus'[o] = "cancelled" => rStatus[o] = "cancelled"
  BY <1>1 DEF Typed, ReceiverTyped, S!Status
<1>3. ReceiverTyped'
  BY <1>1, <1>2 DEF Typed, ReceiverTyped
<1>4. ASSUME NEW o \in Attempt
      PROVE  /\ rReceived[o] <= rReceived'[o]
             /\ rSaved[o] # <<>> => rSaved'[o] # <<>>
             /\ Good(o)'
             /\ Fresh(o) => Fresh(o)'
             /\ SavesNothing(o)
  <2>1. Good(o) /\ rReceived[o] \in Nat
    BY DEF StreamInv, Typed, ReceiverTyped
  <2> QED BY <1>1, <1>2, <2>1 DEF Good, Rearmed, Fresh, SavesNothing
<1>5. Spoken
  BY <1>1, SayingNothing
<1> QED BY <1>3, <1>4, <1>5 DEF ReceiverSteps

-----------------------------------------------------------------------------
(* An offer is received.                                                   *)

LEMMA ShownFacts ==
  ASSUME Typed, Routes, NEW t \in Transfer, byId[t] # None
  PROVE  byId[t] \in Attempt /\ byId[t][1] = t /\ Routed(byId[t])
<1>1. PICK n \in 1..offers[t] : byKey[<<t, n>>] = byId[t]
  BY DEF Routes, MapInv
<1>2. PICK k \in Attempt : k[1] = t /\ byKey[k] = byId[t]
  <2>1. <<t, n>> \in Attempt
    BY TransferAssumption, AttemptFacts DEF Typed, RoutingTyped
  <2> QED BY <1>1, <2>1
<1>3. byId[t] \in Attempt /\ byId[t][1] = t
  BY <1>2 DEF Typed, RoutingTyped, Routes, MapInv
<1> QED BY <1>2, <1>3 DEF Routed

\* k is offered for the first time, and later than what was received of its transfer.
LEMMA OfferFacts ==
  ASSUME Typed, Routes, toReceiver # <<>>, NEW m, m = Head(toReceiver), m.type = "offer", NEW k, k = m.key
  PROVE  /\ k \in Attempt /\ Offered(k) /\ byKey[k] = None /\ ~Routed(k)
         /\ m = toReceiver[1] /\ 1 \in DOMAIN toReceiver
         /\ \A a \in Attempt : a[1] = k[1] /\ byKey[a] # None => a[2] < k[2]
<1>1. m \in ToReceiver /\ m = toReceiver[1] /\ 1 \in DOMAIN toReceiver
  BY TailFacts DEF Typed, Messages
<1>2. k \in Attempt
  BY <1>1, MessageFacts
<1>3. Offered(k) /\ \A a \in Attempt : a[1] = k[1] /\ byKey[a] # None => a[2] < k[2]
  BY <1>1 DEF Routes, OfferInv
<1>4. k[1] \in Transfer /\ k[2] \in 1..MaxAttempts /\ k # None
  BY <1>2, AttemptFacts
<1>5. byKey[k] = None
  BY <1>2, <1>3, <1>4
<1>6. ~Routed(k)
  <2> SUFFICES ASSUME NEW a \in Attempt, byKey[a] = k PROVE FALSE
    BY DEF Routed
  <2>1. k[1] = a[1] /\ k[2] <= a[2] /\ a[2] \in 1..MaxAttempts
    BY <1>4, AttemptFacts DEF Routes, MapInv
  <2>2. a[2] < k[2]
    BY <1>3, <1>4, <2>1
  <2> QED BY <1>4, <2>1, <2>2
<1> QED BY <1>1, <1>2, <1>3, <1>5, <1>6

\* The receiver that a new offer finds, or creates.
LEMMA OfferTaker ==
  ASSUME Typed, Routes, NEW k \in Attempt, NEW o, o = IF Rearms(byId[k[1]]) THEN byId[k[1]] ELSE k,
         \A a \in Attempt : a[1] = k[1] /\ byKey[a] # None => a[2] < k[2]
  PROVE  /\ o \in Attempt /\ o[1] = k[1] /\ o[2] <= k[2]
         /\ o # k => o = byId[k[1]]
         /\ Rearms(byId[k[1]]) => o # k
<1>1. k[1] \in Transfer /\ k[2] \in 1..MaxAttempts
  BY AttemptFacts
<1>2. CASE Rearms(byId[k[1]])
  <2>1. o = byId[k[1]] /\ o # None
    BY <1>2 DEF Rearms
  <2>2. o \in Attempt /\ o[1] = k[1] /\ Routed(o)
    BY <1>1, <2>1, ShownFacts
  <2>3. PICK a \in Attempt : byKey[a] = o
    BY <2>2 DEF Routed
  <2>4. a[1] = k[1] /\ o[2] <= a[2] /\ a[2] \in Nat /\ o[2] \in Nat
    BY <2>1, <2>2, <2>3, AttemptFacts DEF Routes, MapInv
  <2>5. a[2] < k[2]
    BY <2>1, <2>3, <2>4
  <2> QED BY <1>1, <2>1, <2>2, <2>4, <2>5
<1>3. CASE ~Rearms(byId[k[1]])
  BY <1>1, <1>3
<1> QED BY <1>2, <1>3

LEMMA RoutesTaken ==
  ASSUME Typed, Routes, toReceiver # <<>>, NEW m, m = Head(toReceiver), m.type = "offer", NEW k, k = m.key,
         toReceiver' = Tail(toReceiver), GetOffer(k), UNCHANGED offers
  PROVE  toReceiver' \in Messages /\ RoutingTyped' /\ Routes'
<1> DEFINE q == toReceiver
           r == toReceiver'
<1>1. /\ k \in Attempt /\ Offered(k) /\ byKey[k] = None
      /\ m = q[1] /\ 1 \in DOMAIN q
      /\ \A a \in Attempt : a[1] = k[1] /\ byKey[a] # None => a[2] < k[2]
  BY OfferFacts
<1>2. PICK o : o = IF Rearms(byId[k[1]]) THEN byId[k[1]] ELSE k
  OBVIOUS
<1>3. o \in Attempt /\ o[1] = k[1] /\ o[2] <= k[2] /\ o # None
  BY <1>1, <1>2, OfferTaker, AttemptFacts
<1>4. /\ byKey' = [byKey EXCEPT ![k] = o] /\ byId' = [byId EXCEPT ![k[1]] = o]
      /\ onScreen' = onScreen \cup {k[1]}
  BY <1>2 DEF GetOffer
<1>5. k[1] \in Transfer /\ k[2] \in 1..MaxAttempts /\ k = <<k[1], k[2]>>
  BY <1>1, AttemptFacts
<1>6. RoutingTyped'
  BY <1>1, <1>3, <1>4, <1>5 DEF Typed, RoutingTyped
<1>7. /\ byKey'[k] = o /\ \A a \in Attempt : a # k => byKey'[a] = byKey[a]
      /\ byId'[k[1]] = o /\ \A t \in Transfer : t # k[1] => byId'[t] = byId[t]
  BY <1>1, <1>4, <1>5 DEF Typed, RoutingTyped
<1>8. /\ r \in Seq(ToReceiver)
      /\ \A i \in DOMAIN r : i \in Nat /\ i + 1 \in DOMAIN q /\ r[i] = q[i + 1]
      /\ \A i \in DOMAIN q : i \in Nat /\ (i # 1 => i - 1 \in DOMAIN r /\ r[i - 1] = q[i])
  BY TailFacts DEF Typed, Messages
<1>9. q[1].type = "offer" /\ q[1].key = k
  BY <1>1
<1> HIDE DEF q, r
<1>10. RouteInv'
  <2> SUFFICES ASSUME NEW a \in Attempt, Offered(a), byKey'[a] = None
               PROVE  \E i \in DOMAIN r : r[i] = S!Control("offer", a)
    BY DEF RouteInv, Offered, r
  <2>1. a # k /\ byKey[a] = None
    BY <1>3, <1>7
  <2>2. PICK i \in DOMAIN q : q[i] = S!Control("offer", a)
    BY <2>1 DEF Routes, RouteInv, q
  <2>3. i # 1
    BY <1>9, <2>1, <2>2 DEF S!Control
  <2> QED BY <1>8, <2>2, <2>3
<1>11. OfferInv'
  <2> SUFFICES ASSUME NEW i \in DOMAIN r, r[i].type = "offer"
               PROVE  /\ Offered(r[i].key)
                      /\ \A a \in Attempt : a[1] = r[i].key[1] /\ byKey'[a] # None => a[2] < r[i].key[2]
                      /\ \A j \in DOMAIN r : j < i /\ r[j].type = "offer" /\ r[j].key[1] = r[i].key[1]
                                               => r[j].key[2] < r[i].key[2]
    BY DEF OfferInv, Offered, r
  <2>1. i + 1 \in DOMAIN q /\ r[i] = q[i + 1] /\ 1 < i + 1
    BY <1>8 DEF r
  <2>2. \A j \in DOMAIN r : j < i => j + 1 \in DOMAIN q /\ r[j] = q[j + 1] /\ j + 1 < i + 1
    BY <1>8
  <2>3. /\ Offered(q[i + 1].key)
        /\ \A a \in Attempt : a[1] = q[i + 1].key[1] /\ byKey[a] # None => a[2] < q[i + 1].key[2]
        /\ \A j \in DOMAIN q : j < i + 1 /\ q[j].type = "offer" /\ q[j].key[1] = q[i + 1].key[1]
                                 => q[j].key[2] < q[i + 1].key[2]
    BY <2>1 DEF Routes, OfferInv, q
  <2>4. k[1] = q[i + 1].key[1] => k[2] < q[i + 1].key[2]
    BY <1>1, <1>9, <2>1, <2>3
  <2> QED BY <1>7, <2>1, <2>2, <2>3, <2>4
<1>12. OrderInv'
  <2> SUFFICES ASSUME NEW i \in DOMAIN r, r[i].type \notin {"offer", "cancel-all"}
               PROVE  /\ Offered(r[i].key)
                      /\ \A j \in DOMAIN r : r[j].type = "offer" /\ r[j].key = r[i].key => j < i
    BY DEF OrderInv, Offered, r
  <2>1. i + 1 \in DOMAIN q /\ r[i] = q[i + 1]
    BY <1>8
  <2>2. Offered(q[i + 1].key) /\ \A j \in DOMAIN q : q[j].type = "offer" /\ q[j].key = q[i + 1].key => j < i + 1
    BY <2>1 DEF Routes, OrderInv, q
  <2>3. ASSUME NEW j \in DOMAIN r, r[j].type = "offer", r[j].key = r[i].key
        PROVE  j < i
    <3>1. j + 1 < i + 1
      BY <1>8, <2>1, <2>2, <2>3
    <3> QED BY <1>8, <3>1
  <2> QED BY <2>1, <2>2, <2>3
<1>13. MapInv'
  <2>1. \A a \in Attempt : byKey'[a] # None =>
          Offered(a) /\ byKey'[a][1] = a[1] /\ byKey'[a][2] <= a[2] /\ byId'[a[1]] # None
    <3> SUFFICES ASSUME NEW a \in Attempt, byKey'[a] # None
                 PROVE  Offered(a) /\ byKey'[a][1] = a[1] /\ byKey'[a][2] <= a[2] /\ byId'[a[1]] # None
      OBVIOUS
    <3>1. CASE a = k
      BY <1>1, <1>3, <1>7, <3>1
    <3>2. CASE a # k
      <4>1. Offered(a) /\ byKey[a][1] = a[1] /\ byKey[a][2] <= a[2] /\ byId[a[1]] # None
        BY <1>7, <3>2 DEF Routes, MapInv
      <4> QED BY <1>3, <1>7, <3>2, <4>1, AttemptFacts
    <3> QED BY <3>1, <3>2
  <2>2. \A t \in Transfer : byId'[t] # None => \E n \in 1..offers[t] : byKey'[<<t, n>>] = byId'[t]
    <3> SUFFICES ASSUME NEW t \in Transfer, byId'[t] # None
                 PROVE  \E n \in 1..offers[t] : byKey'[<<t, n>>] = byId'[t]
      OBVIOUS
    <3>1. CASE t = k[1]
      <4>1. k[2] \in 1..offers[t]
        BY <1>1, <1>5, <3>1, TransferAssumption DEF Offered, Typed, RoutingTyped
      <4> QED BY <1>5, <1>7, <3>1, <4>1
    <3>2. CASE t # k[1]
      <4>1. PICK n \in 1..offers[t] : byKey[<<t, n>>] = byId[t]
        BY <1>7, <3>2 DEF Routes, MapInv
      <4>2. <<t, n>> \in Attempt /\ <<t, n>> # k
        BY <3>2, TransferAssumption, AttemptFacts DEF Typed, RoutingTyped
      <4> QED BY <1>7, <3>2, <4>1, <4>2
    <3> QED BY <3>1, <3>2
  <2>3. onScreen' \subseteq {t \in Transfer : byId'[t] # None}
    BY <1>3, <1>4, <1>5, <1>7 DEF Routes, MapInv
  <2> QED BY <2>1, <2>2, <2>3 DEF MapInv, Offered
<1> QED BY <1>6, <1>8, <1>10, <1>11, <1>12, <1>13 DEF Routes, Messages, r

\* The receiver of an offer is a new one without a stream, or a failed one, re-armed.
LEMMA OfferTakenSteps ==
  ASSUME Typed, Routes, StreamInv, toReceiver # <<>>, NEW m, m = Head(toReceiver), m.type = "offer",
         NEW k, k = m.key, GetOffer(k), UNCHANGED offers
  PROVE  ReceiverSteps /\ StreamInv'
<1>1. /\ k \in Attempt /\ byKey[k] = None /\ ~Routed(k)
      /\ \A a \in Attempt : a[1] = k[1] /\ byKey[a] # None => a[2] < k[2]
  BY OfferFacts
<1>2. PICK o : o = IF Rearms(byId[k[1]]) THEN byId[k[1]] ELSE k
  OBVIOUS
<1>3. o \in Attempt /\ o[1] = k[1] /\ (Rearms(byId[k[1]]) => o # k)
  BY <1>1, <1>2, OfferTaker
<1>4. k[1] \in Transfer /\ \A a \in Attempt : a # None
  BY <1>1, AttemptFacts
<1>5. /\ byKey'[k] = o /\ \A a \in Attempt : a # k => byKey'[a] = byKey[a]
      /\ byId'[k[1]] = o /\ \A t \in Transfer : t # k[1] => byId'[t] = byId[t]
      /\ onScreen' = onScreen \cup {k[1]}
  BY <1>1, <1>2, <1>4 DEF GetOffer, Typed, RoutingTyped
<1>6. /\ \A p \in Attempt : Rearmed(p) => Rearmed(p)'
      /\ \A p \in Attempt : Routed(p) => Routed(p)'
  BY <1>1, <1>4, <1>5 DEF Rearmed, Routed
<1>7. /\ rStatus' \in [Attempt -> S!Status]
      /\ \A p \in Attempt : rStatus'[p] = "cancelled" => rStatus[p] = "cancelled"
      /\ rExpected' \in [Attempt -> Nat] /\ rSinceAck' \in [Attempt -> 0..AckEvery - 1]
      /\ UNCHANGED <<rReceived, rQueue, rStream, rContent, rSaved, rPicking, toSender>>
  <2>1. CASE Rearms(byId[k[1]])
    <3>1. R!PrepareRetry(o)
      BY <1>2, <2>1 DEF GetOffer
    <3>2. /\ rStatus' = [rStatus EXCEPT ![o] = "pending"]
          /\ rExpected' = [rExpected EXCEPT ![o] = rReceived[o]]
          /\ rSinceAck' = [rSinceAck EXCEPT ![o] = 0]
          /\ UNCHANGED <<rReceived, rQueue, rStream, rContent, rSaved, rPicking, toSender>>
      BY <3>1 DEF R!PrepareRetry, R!SetStatus
    <3>3. rReceived[o] \in Nat /\ 0 \in 0..AckEvery - 1
      BY <1>3, TransferAssumption DEF Typed, ReceiverTyped
    <3> QED BY <1>3, <3>2, <3>3 DEF Typed, ReceiverTyped, S!Status
  <2>2. CASE ~Rearms(byId[k[1]])
    <3>1. UNCHANGED <<rStatus, rReceived, rExpected, rSinceAck, rQueue, rStream, rContent, rSaved, rPicking,
                      toSender>>
      BY <2>2 DEF GetOffer, receiverSide, objectVars
    <3> QED BY <3>1 DEF Typed, ReceiverTyped
  <2> QED BY <2>1, <2>2
<1>8. ReceiverTyped'
  BY <1>7 DEF Typed, ReceiverTyped
<1>9. ASSUME NEW p \in Attempt
      PROVE  /\ rReceived[p] <= rReceived'[p]
             /\ rSaved[p] # <<>> => rSaved'[p] # <<>>
             /\ Good(p)'
             /\ Fresh(p) => Fresh(p)'
             /\ SavesNothing(p)
  <2>1. Good(p) /\ rReceived[p] \in Nat
    BY DEF StreamInv, Typed, ReceiverTyped
  <2> QED BY <1>6, <1>7, <2>1 DEF Good, Fresh, SavesNothing
<1>10. Spoken
  BY <1>7, SayingNothing
<1>11. ASSUME NEW t \in onScreen', ~Rearmed(byId[t])'
       PROVE  Fresh(byId[t])'
  <2>1. CASE t = k[1]
    <3>1. o = k
      BY <1>1, <1>3, <1>5, <1>11, <2>1 DEF Rearmed
    <3>2. Fresh(k)
      BY <1>1 DEF StreamInv
    <3> QED BY <1>1, <1>5, <1>9, <2>1, <3>1, <3>2 DEF Fresh
  <2>2. CASE t # k[1]
    <3>1. t \in onScreen /\ t \in Transfer /\ byId[t] # None
      BY <1>5, <2>2 DEF Routes, MapInv
    <3>2. byId[t] \in Attempt /\ byId'[t] = byId[t]
      BY <1>5, <2>2, <3>1, ShownFacts
    <3>3. ~Rearmed(byId[t])
      BY <1>6, <1>11, <3>2 DEF Rearmed
    <3>4. Fresh(byId[t])
      BY <3>1, <3>3 DEF StreamInv
    <3> QED BY <1>7, <3>2, <3>4 DEF Fresh
  <2> QED BY <2>1, <2>2
<1>12. \A p \in Attempt : ~Routed(p)' => Fresh(p)'
  BY <1>6, <1>9 DEF StreamInv
<1>13. StreamInv'
  BY <1>9, <1>11, <1>12 DEF StreamInv
<1> QED BY <1>8, <1>9, <1>10, <1>13 DEF ReceiverSteps

-----------------------------------------------------------------------------
(* The invariant, step by step.                                            *)

\* What the steps of either side are shown to do.
Kept == IInv' /\ \A o \in Attempt : SavesNothing(o)

LEMMA HonestKept ==
  ASSUME Typed, ReceiverTyped', NEW m \in ToSender, Honest(m), NEW given \in [Transfer -> Nat],
         \A t \in Transfer : offers[t] <= given[t], offers' = given,
         \A o \in Attempt : rReceived[o] <= rReceived'[o] /\ (rSaved[o] # <<>> => rSaved'[o] # <<>>)
  PROVE  Honest(m)'
<1>1. CASE m.type = "cancel-all"
  BY <1>1 DEF Honest
<1>2. CASE m.type # "cancel-all"
  <2>1. m.id \in Transfer /\ m.bytes \in Nat
    BY <1>2, ReplyFacts
  <2>2. offers[m.id] \in Nat /\ offers'[m.id] \in Nat /\ offers[m.id] <= offers'[m.id] /\ offers[m.id] > 0
    BY <1>2, <2>1, TransferAssumption DEF Honest, Typed, RoutingTyped
  <2>3. \A o \in Attempt : rReceived[o] \in Nat /\ rReceived'[o] \in Nat
    BY DEF Typed, ReceiverTyped
  <2>4. Stored(m.id, m.bytes) => Stored(m.id, m.bytes)'
    BY <2>1, <2>3 DEF Stored
  <2>5. Confirmed(m.id) => Confirmed(m.id)'
    BY DEF Confirmed
  <2> QED BY <1>2, <2>2, <2>4, <2>5 DEF Honest
<1> QED BY <1>1, <1>2

\* What is stored and saved stays so.
LEMMA ReportsKept ==
  ASSUME Typed, ReceiverTyped', AckedIsStored, CompletedMeansSaved,
         \A o \in Attempt : rReceived[o] <= rReceived'[o] /\ (rSaved[o] # <<>> => rSaved'[o] # <<>>),
         SenderTyped',
         \A s \in Attempt : sStatus'[s] = "completed" => sStatus[s] = "completed" \/ Confirmed(s[1]),
         \A s \in Attempt : sAcked'[s] = sAcked[s] \/ Stored(s[1], sAcked'[s])
  PROVE  AckedIsStored' /\ CompletedMeansSaved'
<1>1. \A o \in Attempt : rReceived[o] \in Nat /\ rReceived'[o] \in Nat
  BY DEF Typed, ReceiverTyped
<1>2. ASSUME NEW s \in Attempt, sAcked'[s] > 0
      PROVE  \E o \in Attempt : o[1] = s[1] /\ sAcked'[s] <= rReceived'[o]
  <2>1. sAcked'[s] \in Nat
    BY DEF SenderTyped
  <2>2. PICK o \in Attempt : o[1] = s[1] /\ sAcked'[s] <= rReceived[o]
    BY <1>2, <2>1 DEF AckedIsStored, Stored
  <2> QED BY <1>1, <2>1, <2>2
<1>3. ASSUME NEW s \in Attempt, sStatus'[s] = "completed"
      PROVE  \E o \in Attempt : o[1] = s[1] /\ rSaved'[o] # <<>>
  BY <1>3 DEF CompletedMeansSaved, Confirmed
<1> QED BY <1>2, <1>3 DEF AckedIsStored, CompletedMeansSaved

LEMMA RepliesKept ==
  ASSUME Typed, ReplyInv, ReceiverSteps, UNCHANGED offers
  PROVE  toSender' \in Replies /\ ReplyInv'
<1>1. PICK ms \in Replies : toSender' = toSender \o ms /\ \A i \in DOMAIN ms : Honest(ms[i])'
  BY DEF ReceiverSteps, Spoken
<1>2. PICK q, r, n : q = toSender /\ r = toSender' /\ n = Len(toSender)
  OBVIOUS
<1>3. q \in Seq(ToSender) /\ ms \in Seq(ToSender) /\ r = q \o ms /\ n = Len(q)
  BY <1>1, <1>2 DEF Typed, Replies
<1>4. /\ r \in Seq(ToSender)
      /\ \A i \in DOMAIN r : \/ i \in DOMAIN q /\ r[i] = q[i]
                             \/ i - n \in DOMAIN ms /\ r[i] = ms[i - n]
  BY <1>3
<1>5. offers \in [Transfer -> Nat] /\ \A t \in Transfer : offers[t] <= offers[t]
  BY TransferAssumption DEF Typed, RoutingTyped
<1>6. ASSUME NEW i \in DOMAIN q PROVE Honest(q[i])'
  <2>1. q[i] \in ToSender
    BY <1>3
  <2>2. Honest(q[i])
    BY <1>2 DEF ReplyInv
  <2>3. PICK given : given = offers
    OBVIOUS
  <2>4. PICK m : m = q[i]
    OBVIOUS
  <2>5. ReceiverTyped' /\ \A o \in Attempt : rReceived[o] <= rReceived'[o] /\ (rSaved[o] # <<>> => rSaved'[o] # <<>>)
    BY DEF ReceiverSteps
  <2>6. m \in ToSender /\ Honest(m) /\ offers' = given /\ given \in [Transfer -> Nat]
        /\ \A t \in Transfer : offers[t] <= given[t]
    BY <1>5, <2>1, <2>2, <2>3, <2>4
  <2>7. Honest(m)'
    BY <2>5, <2>6, HonestKept
  <2> QED BY <2>4, <2>7 DEF Honest
<1>7. \A i \in DOMAIN r : Honest(r[i])'
  BY <1>1, <1>4, <1>6
<1>8. ReplyInv'
  BY <1>2, <1>7 DEF ReplyInv
<1> QED BY <1>2, <1>4, <1>8 DEF Replies

\* A step of the receiving side that leaves the maps alone, and may answer an offer.
LEMMA StreamsKept ==
  ASSUME Typed, Routes, StreamInv, ReceiverSteps, UNCHANGED <<byKey, byId>>, onScreen' \subseteq onScreen
  PROVE  StreamInv'
<1>1. \A o \in Attempt : Good(o)'
  BY DEF ReceiverSteps
<1>2. \A o \in Attempt : ~Routed(o)' => Fresh(o)'
  BY DEF ReceiverSteps, StreamInv, Routed
<1>3. ASSUME NEW t \in onScreen', ~Rearmed(byId[t])'
      PROVE  Fresh(byId[t])'
  <2>1. t \in onScreen /\ t \in Transfer /\ byId[t] # None
    BY DEF Routes, MapInv
  <2>2. byId[t] \in Attempt /\ byId[t][1] = t
    BY <2>1, ShownFacts
  <2>3. ~Rearmed(byId[t])
    BY <1>3 DEF Rearmed
  <2>4. Fresh(byId[t])
    BY <2>1, <2>3 DEF StreamInv
  <2>5. PICK o \in Attempt : o = byId[t]
    BY <2>2
  <2>6. Fresh(o)'
    BY <2>2, <2>4, <2>5 DEF ReceiverSteps
  <2> QED BY <2>5, <2>6 DEF Fresh
<1> QED BY <1>1, <1>2, <1>3 DEF StreamInv

LEMMA ReceiverKeeps ==
  ASSUME IInv, ReceiverSteps, StreamInv', UNCHANGED <<senderVars, offers>>,
         toReceiver' \in Messages, RoutingTyped', Routes'
  PROVE  Kept /\ Spoken
<1>1. SenderTyped'
  BY DEF IInv, Typed, SenderTyped, senderVars
<1>2. RunInv'
  BY DEF IInv, RunInv, Offered, senderVars
<1>3. toSender' \in Replies /\ ReplyInv'
  BY RepliesKept DEF IInv
<1>4. AckedIsStored' /\ CompletedMeansSaved'
  <2>1. UNCHANGED <<sStatus, sAcked>>
    BY DEF senderVars
  <2> QED BY <1>1, <2>1, ReportsKept DEF IInv, ReceiverSteps
<1>5. Typed'
  BY <1>1, <1>3 DEF Typed, ReceiverSteps
<1> QED BY <1>2, <1>3, <1>4, <1>5 DEF Kept, IInv, ReceiverSteps

LEMMA RoutesKept ==
  ASSUME Routes, UNCHANGED <<toReceiver, offers, byKey, byId, onScreen>>
  PROVE  Routes'
BY DEF Routes, RouteInv, OfferInv, OrderInv, MapInv, Offered

\* A step of the sending side that offers nothing; it may take messages.
LEMMA SenderKeeps ==
  ASSUME IInv, SenderSteps, UNCHANGED <<objectVars, offers, byKey, byId, onScreen>>, toSender' \in Replies,
         \A i \in DOMAIN toSender' : \E j \in DOMAIN toSender : toSender'[i] = toSender[j]
  PROVE  Kept
<1>1. UNCHANGED <<rStatus, rReceived, rExpected, rSinceAck, rQueue, rStream, rContent, rSaved, rPicking>>
  BY DEF objectVars
<1>2. ReceiverTyped' /\ RoutingTyped'
  BY <1>1 DEF IInv, Typed, ReceiverTyped, RoutingTyped
<1>3. toReceiver' \in Messages /\ Routes'
  <2>1. CASE toReceiver' = toReceiver
    BY <2>1, RoutesKept DEF IInv, Typed
  <2>2. CASE toReceiver' # toReceiver
    <3>1. PICK m : Follows(m) /\ toReceiver' = Append(toReceiver, m)
      BY <2>2 DEF SenderSteps
    <3> QED BY <3>1, RoutesAppend DEF IInv
  <2> QED BY <2>1, <2>2
<1>4. ReplyInv'
  BY <1>1 DEF IInv, ReplyInv, Honest, Stored, Confirmed
<1>5. StreamInv'
  BY <1>1 DEF IInv, StreamInv, Good, Fresh, Routed, Rearmed
<1>6. AckedIsStored' /\ CompletedMeansSaved'
  <2>1. \A o \in Attempt : rReceived[o] <= rReceived'[o] /\ (rSaved[o] # <<>> => rSaved'[o] # <<>>)
    BY <1>1 DEF IInv, Typed, ReceiverTyped
  <2> QED BY <1>2, <2>1, ReportsKept DEF IInv, SenderSteps
<1>7. \A o \in Attempt : SavesNothing(o)
  BY <1>1 DEF SavesNothing
<1> QED BY <1>2, <1>3, <1>4, <1>5, <1>6, <1>7 DEF Kept, IInv, Typed, SenderSteps

LEMMA OfferKeeps ==
  ASSUME IInv, NEW t \in Transfer, Offer(t)
  PROVE  Kept
<1> DEFINE q == toReceiver
           r == toReceiver'
           N == Len(toReceiver) + 1
           Made(a) == a[2] <= offers'[a[1]]
<1>1. PICK n : n = offers[t] + 1
  OBVIOUS
<1>2. PICK k : k = <<t, n>>
  OBVIOUS
<1>3. offers[t] \in Nat /\ n \in 1..MaxAttempts /\ n > offers[t]
  BY <1>1, TransferAssumption DEF Offer, IInv, Typed, RoutingTyped
<1>4. k \in Attempt /\ k[1] = t /\ k[2] = n
  BY <1>2, <1>3, AttemptFacts
<1>5. PICK m : m = S!Control("offer", k)
  OBVIOUS
<1>6. m \in ToReceiver /\ m.type = "offer" /\ m.key = k
  BY <1>4, <1>5, MessagesMade
<1>7. /\ toReceiver' = Append(toReceiver, m)
      /\ offers' = [offers EXCEPT ![t] = n]
      /\ UNCHANGED <<senderVars, receiverSide, byKey, byId, onScreen>>
  BY <1>1, <1>2, <1>5 DEF Offer
<1>8. /\ r \in Seq(ToReceiver) /\ r[N] = m /\ N \in DOMAIN r
      /\ \A i \in DOMAIN q : i \in DOMAIN r /\ r[i] = q[i] /\ i < N
      /\ \A i \in DOMAIN r : i \in DOMAIN q \/ i = N
  BY <1>6, <1>7, AppendFacts DEF IInv, Typed, Messages
<1>9. /\ offers' \in [Transfer -> 0..MaxAttempts] /\ offers'[t] = n
      /\ \A u \in Transfer : u # t => offers'[u] = offers[u]
      /\ \A u \in Transfer : offers[u] \in Nat /\ offers'[u] \in Nat /\ offers[u] <= offers'[u]
  BY <1>3, <1>7, TransferAssumption DEF IInv, Typed, RoutingTyped
<1>10. /\ \A a \in Attempt : Offered(a) => Made(a)
       /\ \A a \in Attempt : Made(a) => Offered(a) \/ a = k
       /\ ~Offered(k) /\ Made(k)
       /\ \A a \in Attempt : a[1] = t /\ Offered(a) => a[2] < n
  <2>1. \A a \in Attempt : a[1] \in Transfer /\ a[2] \in Nat /\ a = <<a[1], a[2]>>
    BY AttemptFacts, TransferAssumption
  <2>2. \A a \in Attempt : a[1] = t /\ a[2] = n => a = k
    BY <1>2, <2>1
  <2> QED BY <1>1, <1>3, <1>4, <1>9, <2>1, <2>2 DEF Offered
<1>11. SenderTyped' /\ ReceiverTyped' /\ toSender' = toSender
  BY <1>7 DEF IInv, Typed, SenderTyped, ReceiverTyped, senderVars, receiverSide, objectVars
<1>12. RunInv'
  <2>1. \A x \in S!Run : x[1] \in Attempt
    BY AttemptFacts
  <2>2. UNCHANGED <<stage, queue>> /\ \A i \in DOMAIN queue : queue[i] \in S!Run
    BY <1>7 DEF senderVars, IInv, Typed, SenderTyped
  <2> QED BY <1>10, <2>1, <2>2 DEF IInv, RunInv, Offered, Made
<1>13. \A i \in DOMAIN q : q[i].type # "cancel-all" => q[i].key \in Attempt
  BY MessageFacts DEF IInv, Typed, Messages
<1> HIDE DEF q, r, N, Made
<1>14. RouteInv'
  <2> SUFFICES ASSUME NEW a \in Attempt, Made(a), byKey[a] = None
               PROVE  \E i \in DOMAIN r : r[i] = S!Control("offer", a)
    BY <1>7 DEF RouteInv, Offered, Made, r
  <2>1. CASE a = k
    BY <1>5, <1>8, <2>1
  <2>2. CASE a # k
    <3>1. PICK i \in DOMAIN q : q[i] = S!Control("offer", a)
      BY <1>10, <2>2 DEF IInv, Routes, RouteInv, q
    <3> QED BY <1>8, <3>1
  <2> QED BY <2>1, <2>2
<1>15. OfferInv'
  <2> SUFFICES ASSUME NEW i \in DOMAIN r, r[i].type = "offer"
               PROVE  /\ Made(r[i].key)
                      /\ \A a \in Attempt : a[1] = r[i].key[1] /\ byKey[a] # None => a[2] < r[i].key[2]
                      /\ \A j \in DOMAIN r : j < i /\ r[j].type = "offer" /\ r[j].key[1] = r[i].key[1]
                                               => r[j].key[2] < r[i].key[2]
    BY <1>7 DEF OfferInv, Offered, Made, r
  <2>1. \A j \in DOMAIN q : q[j].type = "offer" => q[j].key \in Attempt /\ Offered(q[j].key)
    BY <1>13 DEF IInv, Routes, OfferInv, q
  <2>2. CASE i = N
    <3>1. r[i].key = k
      BY <1>6, <1>8, <2>2
    <3>2. \A a \in Attempt : a[1] = t /\ byKey[a] # None => a[2] < n
      BY <1>10 DEF IInv, Routes, MapInv
    <3>3. \A j \in DOMAIN r : j < i => j \in DOMAIN q /\ r[j] = q[j]
      BY <1>8, <2>2 DEF r, q, N, IInv, Typed, Messages
    <3> QED BY <1>4, <1>10, <2>1, <3>1, <3>2, <3>3
  <2>3. CASE i # N
    <3>1. i \in DOMAIN q /\ r[i] = q[i] /\ i < N
      BY <1>8, <2>3
    <3>2. \A j \in DOMAIN r : j < i => j \in DOMAIN q /\ r[j] = q[j]
      <4>1. \A j \in DOMAIN r : j \in Nat
        BY <1>8
      <4>2. i \in Nat /\ N \in Nat
        BY <3>1, <4>1, <1>8
      <4> QED BY <1>8, <3>1, <4>1, <4>2
    <3>3. /\ \A a \in Attempt : a[1] = q[i].key[1] /\ byKey[a] # None => a[2] < q[i].key[2]
          /\ \A j \in DOMAIN q : j < i /\ q[j].type = "offer" /\ q[j].key[1] = q[i].key[1]
                                   => q[j].key[2] < q[i].key[2]
      BY <3>1 DEF IInv, Routes, OfferInv, q
    <3> QED BY <1>10, <2>1, <3>1, <3>2, <3>3
  <2> QED BY <2>2, <2>3
<1>16. OrderInv'
  <2> SUFFICES ASSUME NEW i \in DOMAIN r, r[i].type \notin {"offer", "cancel-all"}
               PROVE  /\ Made(r[i].key)
                      /\ \A j \in DOMAIN r : r[j].type = "offer" /\ r[j].key = r[i].key => j < i
    BY DEF OrderInv, Offered, Made, r
  <2>1. i \in DOMAIN q /\ r[i] = q[i]
    BY <1>6, <1>8
  <2>2. /\ Offered(q[i].key) /\ q[i].key \in Attempt
        /\ \A j \in DOMAIN q : q[j].type = "offer" /\ q[j].key = q[i].key => j < i
    BY <1>13, <2>1 DEF IInv, Routes, OrderInv, q
  <2> QED BY <1>6, <1>8, <1>10, <2>1, <2>2
<1>17. MapInv'
  <2>1. UNCHANGED <<byKey, byId, onScreen>>
    BY <1>7
  <2>2. \A u \in Transfer : 1..offers[u] \subseteq 1..offers'[u]
    BY <1>9
  <2>3. \A a \in Attempt : byKey[a] # None => Made(a)
    BY <1>10 DEF IInv, Routes, MapInv
  <2> QED BY <2>1, <2>2, <2>3 DEF IInv, Routes, MapInv, Offered, Made
<1>18. RoutingTyped'
  BY <1>7, <1>9 DEF IInv, Typed, RoutingTyped
<1>19. UNCHANGED <<rStatus, rReceived, rStream, rSaved, rPicking, sStatus, sAcked>>
  BY <1>7 DEF senderVars, receiverSide, objectVars
<1>20. ReplyInv'
  <2>1. \A i \in DOMAIN toSender : toSender[i].type # "cancel-all" => toSender[i].id \in Transfer
    BY ReplyFacts DEF IInv, Typed, Replies
  <2>2. \A u \in Transfer : offers[u] > 0 => offers'[u] > 0
    BY <1>9
  <2> QED BY <1>11, <1>19, <2>1, <2>2 DEF IInv, ReplyInv, Honest, Stored, Confirmed
<1>21. StreamInv' /\ AckedIsStored' /\ CompletedMeansSaved' /\ \A o \in Attempt : SavesNothing(o)
  BY <1>7, <1>19 DEF IInv, StreamInv, Good, Fresh, Routed, Rearmed, AckedIsStored, CompletedMeansSaved, SavesNothing
<1> QED BY <1>8, <1>11, <1>12, <1>14, <1>15, <1>16, <1>17, <1>18, <1>20, <1>21
        DEF Kept, IInv, Typed, Routes, Messages, r

\* What waits for the sender stays, loses its oldest message or is lost.
LEMMA RemainingReplies ==
  ASSUME Typed, \/ toSender' = toSender
                \/ toSender # <<>> /\ toSender' = Tail(toSender)
                \/ toSender' = <<>>
  PROVE  toSender' \in Replies /\ \A i \in DOMAIN toSender' : \E j \in DOMAIN toSender : toSender'[i] = toSender[j]
<1>1. CASE toSender' = toSender
  BY <1>1 DEF Typed
<1>2. CASE toSender # <<>> /\ toSender' = Tail(toSender)
  <2>1. /\ toSender' \in Seq(ToSender)
        /\ \A i \in DOMAIN toSender' : i + 1 \in DOMAIN toSender /\ toSender'[i] = toSender[i + 1]
    BY <1>2, TailFacts DEF Typed, Replies
  <2> QED BY <2>1 DEF Replies
<1>3. CASE toSender' = <<>>
  <2>1. <<>> \in Seq(ToSender) /\ DOMAIN <<>> = {}
    OBVIOUS
  <2> QED BY <1>3, <2>1 DEF Replies
<1> QED BY <1>1, <1>2, <1>3

LEMMA IdleSteps ==
  ASSUME Typed, RunInv, UNCHANGED <<senderVars, toReceiver, offers>>
  PROVE  SenderSteps
<1>1. SenderTyped'
  BY DEF Typed, SenderTyped, senderVars
<1>2. RunInv'
  BY DEF RunInv, Offered, senderVars
<1> QED BY <1>1, <1>2 DEF SenderSteps, senderVars

LEMMA SenderOfFacts ==
  ASSUME Typed, NEW t \in Transfer, offers[t] > 0, NEW s, s = SenderOf(t)
  PROVE  s \in Attempt /\ Offered(s) /\ s[1] = t
<1>1. offers[t] \in 1..MaxAttempts
  BY TransferAssumption DEF Typed, RoutingTyped
<1> QED BY <1>1, AttemptFacts DEF SenderOf, Offered

\* handleControl() of the sending side, on a message that tells what is so.
LEMMA HandlerSteps ==
  ASSUME Typed, RunInv, UNCHANGED offers, NEW m \in ToSender, Honest(m), SenderGets(m)
  PROVE  SenderSteps
<1>1. CASE m.type = "cancel-all"
  <2>1. S!CancelAll(Senders, FALSE)
    BY <1>1 DEF SenderGets
  <2> QED BY <2>1, CancelAllSteps
<1>2. CASE m.type # "cancel-all"
  <2>1. PICK s : s = SenderOf(m.id)
    OBVIOUS
  <2>2. m.id \in Transfer /\ m.bytes \in Nat /\ offers[m.id] > 0
    BY <1>2, ReplyFacts DEF Honest
  <2>3. s \in Attempt /\ Offered(s) /\ s[1] = m.id
    BY <2>1, <2>2, SenderOfFacts
  <2>4. CASE m.type = "accept"
    <3>1. S!Start(s, m.bytes)
      BY <2>1, <2>4 DEF SenderGets
    <3> QED BY <2>2, <2>3, <3>1, StartSteps
  <2>5. CASE m.type = "reject"
    <3>1. S!HandleReject(s)
      BY <2>1, <2>5 DEF SenderGets
    <3> QED BY <2>3, <3>1, RejectSteps
  <2>6. CASE m.type = "ack"
    <3>1. S!HandleAck(s, m.bytes)
      BY <2>1, <2>6 DEF SenderGets
    <3>2. Stored(s[1], m.bytes)
      BY <2>3, <2>6 DEF Honest
    <3>3. PICK n \in Nat : n = m.bytes
      BY <2>2
    <3>4. S!HandleAck(s, n) /\ Stored(s[1], n)
      BY <3>1, <3>2, <3>3
    <3> QED BY <2>3, <3>4, AckSteps
  <2>7. CASE m.type = "complete"
    <3>1. S!HandleComplete(s)
      BY <2>1, <2>7 DEF SenderGets
    <3>2. Confirmed(s[1])
      BY <2>3, <2>7 DEF Honest
    <3> QED BY <2>3, <3>1, <3>2, CompleteSteps
  <2>8. CASE m.type \in {"pause", "resume", "cancel"}
    <3>1. S!Pause(s, FALSE) \/ S!Resume(s, FALSE) \/ S!Cancel(s, FALSE) \/ UNCHANGED senderSide
      BY <2>1, <2>8 DEF SenderGets, OnPause, OnResume, OnCancel
    <3>2. CASE UNCHANGED senderSide
      BY <3>2, IdleSteps DEF senderSide
    <3>3. CASE S!Pause(s, FALSE) \/ S!Resume(s, FALSE) \/ S!Cancel(s, FALSE)
      BY <2>3, <3>3, SteeringSteps
    <3> QED BY <3>1, <3>2, <3>3
  <2> QED BY <1>2, <2>4, <2>5, <2>6, <2>7, <2>8, ReplyFacts
<1> QED BY <1>1, <1>2

LEMMA SenderDeliveryKeeps ==
  ASSUME IInv, SenderDelivery
  PROVE  Kept
<1>1. PICK m : m = Head(toSender)
  OBVIOUS
<1>2. toSender # <<>> /\ toSender' = Tail(toSender) /\ SenderGets(m)
  BY <1>1 DEF SenderDelivery
<1>3. m \in ToSender /\ m = toSender[1] /\ 1 \in DOMAIN toSender
  BY <1>1, <1>2, TailFacts DEF IInv, Typed, Replies
<1>4. Honest(m)
  BY <1>3 DEF IInv, ReplyInv
<1>5. UNCHANGED <<objectVars, offers, byKey, byId, onScreen>>
  BY DEF SenderDelivery, routing
<1>6. SenderSteps
  BY <1>2, <1>3, <1>4, <1>5, HandlerSteps DEF IInv
<1>7. toSender' \in Replies /\ \A i \in DOMAIN toSender' : \E j \in DOMAIN toSender : toSender'[i] = toSender[j]
  BY <1>2, RemainingReplies DEF IInv
<1> QED BY <1>5, <1>6, <1>7, SenderKeeps

\* The sending user, the runs and the end of the sender's session.
LEMMA SendingKeeps ==
  ASSUME IInv,
         \/ \E t \in Transfer : SenderSteers(t)
         \/ \E r \in S!Run : SenderRuns(r)
         \/ SenderCancelsAll \/ SenderCloses \/ SenderLosesChannel
  PROVE  Kept
<1>1. /\ UNCHANGED <<objectVars, offers, byKey, byId, onScreen>>
      /\ toSender' = toSender \/ toSender' = <<>>
  BY DEF SenderSteers, SenderRuns, SenderCancelsAll, SenderCloses, SenderLosesChannel, receiverSide, routing
<1>2. toSender' \in Replies /\ \A i \in DOMAIN toSender' : \E j \in DOMAIN toSender : toSender'[i] = toSender[j]
  BY <1>1, RemainingReplies DEF IInv
<1>3. CASE \E t \in Transfer : SenderSteers(t)
  <2>1. PICK t \in Transfer : SenderSteers(t)
    BY <1>3
  <2>2. PICK s : s = SenderOf(t)
    OBVIOUS
  <2>3. offers[t] > 0 /\ (S!Pause(s, TRUE) \/ S!Resume(s, TRUE) \/ S!Cancel(s, TRUE))
    BY <2>1, <2>2 DEF SenderSteers
  <2>4. s \in Attempt /\ Offered(s)
    BY <2>2, <2>3, SenderOfFacts DEF IInv
  <2>5. SenderSteps
    BY <1>1, <2>3, <2>4, SteeringSteps DEF IInv
  <2> QED BY <1>1, <1>2, <2>5, SenderKeeps
<1>4. CASE \E r \in S!Run : SenderRuns(r)
  <2>1. PICK r \in S!Run : S!RunStep(r)
    BY <1>4 DEF SenderRuns
  <2>2. SenderSteps
    BY <1>1, <2>1, RunSteps DEF IInv
  <2> QED BY <1>1, <1>2, <2>2, SenderKeeps
<1>5. CASE SenderCancelsAll
  <2>1. S!CancelAll(Senders, TRUE)
    BY <1>5 DEF SenderCancelsAll
  <2>2. SenderSteps
    BY <1>1, <2>1, CancelAllSteps DEF IInv
  <2> QED BY <1>1, <1>2, <2>2, SenderKeeps
<1>6. CASE SenderCloses
  <2>1. S!CloseSession(Senders)
    BY <1>6 DEF SenderCloses
  <2>2. SenderSteps
    BY <1>1, <2>1, CloseSteps DEF IInv
  <2> QED BY <1>1, <1>2, <2>2, SenderKeeps
<1>7. CASE SenderLosesChannel
  <2>1. UNCHANGED <<senderVars, toReceiver>>
    BY <1>7 DEF SenderLosesChannel, S!ChannelLost, S!senderVars, S!gateVars, S!runVars, senderVars
  <2>2. SenderSteps
    BY <1>1, <2>1, IdleSteps DEF IInv
  <2> QED BY <1>1, <1>2, <2>2, SenderKeeps
<1> QED BY <1>3, <1>4, <1>5, <1>6, <1>7

\* A step of the receiving side that takes no message and leaves the maps alone.
LEMMA QuietReceiverKeeps ==
  ASSUME IInv, ReceiverSteps, UNCHANGED <<senderVars, toReceiver, offers, byKey, byId>>,
         \/ UNCHANGED onScreen
         \/ \E t : onScreen' = onScreen \ {t}
  PROVE  Kept /\ Spoken
<1>1. onScreen' \subseteq onScreen
  OBVIOUS
<1>2. StreamInv'
  BY <1>1, StreamsKept DEF IInv
<1>3. RoutingTyped' /\ toReceiver' \in Messages
  BY DEF IInv, Typed, RoutingTyped
<1>4. Routes'
  BY <1>1 DEF IInv, Routes, RouteInv, OfferInv, OrderInv, MapInv, Offered
<1> QED BY <1>2, <1>3, <1>4, ReceiverKeeps

\* The user answers an offer.
LEMMA AnswerKeeps ==
  ASSUME IInv, NEW t \in Transfer, UserAccepts(t) \/ UserRejects(t)
  PROVE  Kept /\ Spoken
<1>1. /\ t \in onScreen /\ onScreen' = onScreen \ {t}
      /\ R!Accept(byId[t]) \/ R!Reject(byId[t])
      /\ UNCHANGED <<senderVars, toReceiver, offers, byKey, byId>>
  BY DEF UserAccepts, UserRejects, senderSide
<1>2. PICK o : o = byId[t]
  OBVIOUS
<1>3. o \in Attempt /\ o[1] = t /\ Routed(o)
  BY <1>1, <1>2, ShownFacts DEF IInv, Routes, MapInv
<1>4. CASE R!Accept(o)
  <2>1. Handled(o)
    BY <1>1, <1>3, <1>4, AcceptHandled DEF IInv
  <2>2. ReceiverSteps
    BY <1>1, <1>3, <2>1, HandledSteps DEF IInv
  <2> QED BY <1>1, <2>2, QuietReceiverKeeps
<1>5. CASE R!Reject(o)
  <2>1. Handled(o)
    BY <1>1, <1>2, <1>3, <1>5, RejectHandled DEF IInv
  <2>2. ReceiverSteps
    BY <1>1, <1>3, <2>1, HandledSteps DEF IInv
  <2> QED BY <1>1, <2>2, QuietReceiverKeeps
<1> QED BY <1>1, <1>2, <1>4, <1>5

LEMMA DialogKeeps ==
  ASSUME IInv, NEW o \in Attempt, DialogEnds(o) \/ Disk(o)
  PROVE  Kept /\ Spoken
<1>1. UNCHANGED <<senderVars, toReceiver, offers, byKey, byId, onScreen>>
  BY DEF DialogEnds, Disk, senderSide, routing
<1>2. CASE DialogEnds(o)
  <2>1. R!PickFile(o) \/ R!PickFails(o) \/ R!PickCancelled(o)
    BY <1>2 DEF DialogEnds
  <2>2. rPicking[o]
    BY <2>1 DEF R!PickFile, R!PickFails, R!PickCancelled
  <2>3. Routed(o)
    BY <2>2 DEF IInv, StreamInv, Fresh
  <2>4. Handled(o)
    BY <1>1, <2>1, DialogHandled DEF IInv
  <2>5. ReceiverSteps
    BY <1>1, <2>3, <2>4, HandledSteps DEF IInv
  <2> QED BY <1>1, <2>5, QuietReceiverKeeps
<1>3. CASE Disk(o)
  <2>1. R!DiskStep(o) \/ R!DiskFault(o)
    BY <1>3 DEF Disk
  <2>2. rStream[o] # "none"
    BY <2>1 DEF R!DiskStep, R!DiskFault, R!WriteDone, R!WriteDoneAborted, R!CloseDone, R!AbortDone,
                R!WriteFails, R!CloseFails, R!Writing, R!Closing
  <2>3. Routed(o)
    BY <2>2 DEF IInv, StreamInv, Fresh
  <2>4. Handled(o)
    BY <1>1, <2>1, DiskHandled DEF IInv
  <2>5. ReceiverSteps
    BY <1>1, <2>3, <2>4, HandledSteps DEF IInv
  <2> QED BY <1>1, <2>5, QuietReceiverKeeps
<1> QED BY <1>2, <1>3

\* pause(), resume() and cancel() of a receiver, whoever asks for it.
LEMMA SteeredSteps ==
  ASSUME Typed, Routes, StreamInv, NEW o \in Attempt, Routed(o), NEW local,
         R!PauseReceiver(o, local) \/ R!ResumeReceiver(o, local) \/ R!CancelReceiver(o, local),
         UNCHANGED <<offers, byKey, onScreen>>
  PROVE  ReceiverSteps
<1>1. CASE R!PauseReceiver(o, local) \/ R!ResumeReceiver(o, local)
  BY <1>1, PauseHandled, HandledSteps
<1>2. CASE R!CancelReceiver(o, local)
  BY <1>2, CancelReceiverSteps
<1> QED BY <1>1, <1>2

LEMMA SteeringKeeps ==
  ASSUME IInv,
         \/ \E t \in Transfer : ReceiverSteers(t)
         \/ ReceiverCancelsAll \/ ReceiverCloses \/ ReceiverLosesChannel
  PROVE  Kept /\ Spoken
<1>1. UNCHANGED <<senderVars, toReceiver, offers, byKey, byId, onScreen>>
  BY DEF ReceiverSteers, ReceiverCancelsAll, ReceiverCloses, ReceiverLosesChannel, senderSide, routing
<1>2. CASE \E t \in Transfer : ReceiverSteers(t)
  <2>1. PICK t \in Transfer : ReceiverSteers(t)
    BY <1>2
  <2>2. PICK o : o = byId[t]
    OBVIOUS
  <2>3. o # None /\ (R!PauseReceiver(o, TRUE) \/ R!ResumeReceiver(o, TRUE) \/ R!CancelReceiver(o, TRUE))
    BY <2>1, <2>2 DEF ReceiverSteers
  <2>4. o \in Attempt /\ Routed(o)
    BY <2>2, <2>3, ShownFacts DEF IInv
  <2>5. ReceiverSteps
    BY <1>1, <2>3, <2>4, SteeredSteps DEF IInv
  <2> QED BY <1>1, <2>5, QuietReceiverKeeps
<1>3. CASE ReceiverCancelsAll
  <2>1. R!CancelAllReceivers(Receivers, TRUE)
    BY <1>3 DEF ReceiverCancelsAll
  <2>2. ReceiverSteps
    BY <1>1, <2>1, CancelAllReceiversSteps DEF IInv
  <2> QED BY <1>1, <2>2, QuietReceiverKeeps
<1>4. CASE ReceiverCloses
  <2>1. ReceiverSteps
    BY <1>4, ReceiverClosesSteps DEF IInv
  <2> QED BY <1>1, <2>1, QuietReceiverKeeps
<1>5. CASE ReceiverLosesChannel
  <2>1. UNCHANGED <<rStatus, rReceived, rExpected, rSinceAck, rQueue, rStream, rContent, rSaved, rPicking, toSender>>
    BY <1>5 DEF ReceiverLosesChannel, objectVars
  <2>2. Spoken
    BY <2>1, SayingNothing DEF IInv
  <2>3. ReceiverSteps
    BY <1>1, <2>1, <2>2, UntouchedSteps DEF IInv
  <2> QED BY <1>1, <2>3, QuietReceiverKeeps
<1> QED BY <1>2, <1>3, <1>4, <1>5

LEMMA ReceiverDeliveryKeeps ==
  ASSUME IInv, ReceiverDelivery
  PROVE  Kept /\ Spoken
<1>1. PICK m : m = Head(toReceiver)
  OBVIOUS
<1>2. /\ toReceiver # <<>> /\ toReceiver' = Tail(toReceiver) /\ ReceiverGets(m)
      /\ UNCHANGED <<senderVars, offers>>
  BY <1>1 DEF ReceiverDelivery
<1>3. m \in ToReceiver
  BY <1>1, <1>2, TailFacts DEF IInv, Typed, Messages
<1>4. CASE m.type = "offer"
  <2>1. PICK k : k = m.key
    OBVIOUS
  <2>2. GetOffer(k)
    BY <1>2, <1>4, <2>1 DEF ReceiverGets
  <2>3. toReceiver' \in Messages /\ RoutingTyped' /\ Routes'
    BY <1>1, <1>2, <1>4, <2>1, <2>2, RoutesTaken DEF IInv
  <2>4. ReceiverSteps /\ StreamInv'
    BY <1>1, <1>2, <1>4, <2>1, <2>2, OfferTakenSteps DEF IInv
  <2> QED BY <1>2, <2>3, <2>4, ReceiverKeeps
<1>5. CASE m.type # "offer"
  <2>1. UNCHANGED <<byKey, byId, onScreen>>
    BY <1>2, <1>5 DEF ReceiverGets
  <2>2. toReceiver' \in Messages /\ Routes' /\ RoutingTyped'
    BY <1>1, <1>2, <1>5, <2>1, RoutesTail DEF IInv, Typed, RoutingTyped
  <2>3. ReceiverSteps
    <3>1. CASE m.type = "cancel-all"
      <4>1. R!CancelAllReceivers(Receivers, FALSE)
        BY <1>2, <3>1 DEF ReceiverGets
      <4> QED BY <1>2, <2>1, <4>1, CancelAllReceiversSteps DEF IInv
    <3>2. CASE m.type # "cancel-all"
      <4>1. PICK o, p : o = byKey[m.key] /\ p = byId[m.key[1]]
        OBVIOUS
      <4>2. o \in Attempt /\ Routed(o) /\ p \in Attempt /\ Routed(p)
        BY <1>1, <1>2, <1>5, <3>2, <4>1, HeadRouted DEF IInv
      <4>3. CASE m.type = "chunk"
        <5>1. PICK index \in Nat, d \in Nat : index = m.index /\ d = m.data
          BY <1>3, <4>3, MessageFacts
        <5>2. R!HandleChunk(o, index, d)
          BY <1>2, <4>1, <4>3, <5>1 DEF ReceiverGets, ReceiverOfKey
        <5>3. Handled(o)
          BY <2>1, <4>2, <5>2, ChunkHandled DEF IInv
        <5> QED BY <1>2, <2>1, <4>2, <5>3, HandledSteps DEF IInv
      <4>4. CASE m.type # "chunk"
        <5>1. \/ R!PauseReceiver(p, FALSE) \/ R!ResumeReceiver(p, FALSE) \/ R!CancelReceiver(p, FALSE)
              \/ UNCHANGED receiverSide
          BY <1>2, <1>5, <3>2, <4>1, <4>4 DEF ReceiverGets, OnReceiverPause, OnReceiverResume, OnReceiverCancel
        <5>2. CASE UNCHANGED receiverSide
          <6>1. UNCHANGED <<rStatus, rReceived, rExpected, rSinceAck, rQueue, rStream, rContent, rSaved,
                            rPicking, toSender>>
            BY <5>2 DEF receiverSide, objectVars
          <6>2. Spoken
            BY <6>1, SayingNothing DEF IInv
          <6> QED BY <2>1, <6>1, <6>2, UntouchedSteps DEF IInv
        <5>3. CASE R!PauseReceiver(p, FALSE) \/ R!ResumeReceiver(p, FALSE) \/ R!CancelReceiver(p, FALSE)
          BY <1>2, <2>1, <4>2, <5>3, SteeredSteps DEF IInv
        <5> QED BY <5>1, <5>2, <5>3
      <4> QED BY <4>3, <4>4
    <3> QED BY <3>1, <3>2
  <2>4. StreamInv'
    BY <2>1, <2>3, StreamsKept DEF IInv
  <2> QED BY <1>2, <2>2, <2>3, <2>4, ReceiverKeeps
<1> QED BY <1>4, <1>5

-----------------------------------------------------------------------------
(* The theorems.                                                           *)

LEMMA StutterKeeps ==
  ASSUME IInv, UNCHANGED vars
  PROVE  Kept
<1>1. UNCHANGED <<senderVars, toReceiver, objectVars, toSender, offers, byKey, byId, onScreen>>
  BY DEF vars, senderSide, receiverSide, routing
<1>2. toSender' \in Replies /\ \A i \in DOMAIN toSender' : \E j \in DOMAIN toSender : toSender'[i] = toSender[j]
  BY <1>1, RemainingReplies DEF IInv
<1>3. SenderSteps
  BY <1>1, IdleSteps DEF IInv
<1> QED BY <1>1, <1>2, <1>3, SenderKeeps

LEMMA NextKeeps ==
  ASSUME IInv, [Next]_vars
  PROVE  Kept
<1>1. CASE \E t \in Transfer : Offer(t)
  BY <1>1, OfferKeeps
<1>2. CASE \/ \E t \in Transfer : SenderSteers(t)
           \/ \E r \in S!Run : SenderRuns(r)
           \/ SenderCancelsAll \/ SenderCloses \/ SenderLosesChannel
  BY <1>2, SendingKeeps
<1>3. CASE \E t \in Transfer : UserAccepts(t) \/ UserRejects(t)
  BY <1>3, AnswerKeeps
<1>4. CASE \E o \in Attempt : DialogEnds(o) \/ Disk(o)
  BY <1>4, DialogKeeps
<1>5. CASE \/ \E t \in Transfer : ReceiverSteers(t)
           \/ ReceiverCancelsAll \/ ReceiverCloses \/ ReceiverLosesChannel
  BY <1>5, SteeringKeeps
<1>6. CASE SenderDelivery
  BY <1>6, SenderDeliveryKeeps
<1>7. CASE ReceiverDelivery
  BY <1>7, ReceiverDeliveryKeeps
<1>8. CASE UNCHANGED vars
  BY <1>8, StutterKeeps
<1> QED BY <1>1, <1>2, <1>3, <1>4, <1>5, <1>6, <1>7, <1>8 DEF Next

LEMMA InitKeeps ==
  ASSUME Init
  PROVE  IInv
<1>1. /\ sStatus = [s \in Attempt |-> "pending"] /\ sAcked = [s \in Attempt |-> 0]
      /\ sOffset = [s \in Attempt |-> 0] /\ sIndex = [s \in Attempt |-> 0]
      /\ stage = [r \in S!Run |-> "idle"] /\ readEnd = [r \in S!Run |-> 0]
      /\ queue = <<>> /\ toReceiver = <<>>
  BY DEF Init, S!Init
<1>2. /\ rStatus = [o \in Attempt |-> "pending"]
      /\ rReceived = [o \in Attempt |-> 0] /\ rExpected = [o \in Attempt |-> 0]
      /\ rSinceAck = [o \in Attempt |-> 0]
      /\ rQueue = [o \in Attempt |-> <<>>] /\ rStream = [o \in Attempt |-> "none"]
      /\ rContent = [o \in Attempt |-> <<>>] /\ rSaved = [o \in Attempt |-> <<>>]
      /\ rPicking = [o \in Attempt |-> FALSE]
      /\ toSender = <<>>
  BY DEF Init, R!InitReceiver
<1>3. /\ offers = [t \in Transfer |-> 0] /\ byKey = [k \in Attempt |-> None]
      /\ byId = [t \in Transfer |-> None] /\ onScreen = {}
  BY DEF Init
<1>4. \A T : <<>> \in Seq(T) /\ DOMAIN <<>> = {}
  OBVIOUS
<1>5. SenderTyped
  BY <1>1, <1>4 DEF SenderTyped, S!Status, S!Stage
<1>6. ReceiverTyped
  <2>1. 0 \in 0..AckEvery - 1
    BY TransferAssumption
  <2>2. <<>> \in Seq(Nat) /\ <<>> \in Seq(Seq(Nat))
    BY <1>4
  <2>3. /\ rQueue \in [Attempt -> Seq(Nat)] /\ rContent \in [Attempt -> Seq(Nat)]
        /\ rSaved \in [Attempt -> Seq(Seq(Nat))]
    BY <1>2, <2>2
  <2> QED BY <1>2, <2>1, <2>3 DEF ReceiverTyped, S!Status, R!Stream
<1>7. RoutingTyped
  BY <1>3, TransferAssumption DEF RoutingTyped
<1>8. Typed
  BY <1>1, <1>2, <1>4, <1>5, <1>6, <1>7 DEF Typed, Messages, Replies
<1>9. RunInv
  BY <1>1, <1>4 DEF RunInv
<1>10. Routes
  <2>1. \A k \in Attempt : ~Offered(k)
    BY <1>3, AttemptFacts DEF Offered
  <2>2. toReceiver = <<>> /\ DOMAIN toReceiver = {}
    BY <1>1, <1>4
  <2> QED BY <1>3, <2>1, <2>2 DEF Routes, RouteInv, OfferInv, OrderInv, MapInv
<1>11. ReplyInv
  BY <1>2, <1>4 DEF ReplyInv
<1>12. StreamInv
  BY <1>2, <1>3 DEF StreamInv, Good, Fresh
<1>13. AckedIsStored /\ CompletedMeansSaved
  BY <1>1 DEF AckedIsStored, CompletedMeansSaved
<1> QED BY <1>8, <1>9, <1>10, <1>11, <1>12, <1>13 DEF IInv

\* The invariant holds of any number of transfers, offers and chunks, whatever is
\* lost, cancelled, paused, retried, or fails on the way.
THEOREM FileTransferInductive == Spec => []IInv
<1>1. Init => IInv
  BY InitKeeps
<1>2. IInv /\ [Next]_vars => IInv'
  BY NextKeeps DEF Kept
<1> QED BY <1>1, <1>2, PTL DEF Spec

LEMMA TypeFollows ==
  ASSUME IInv
  PROVE  TypeOK
<1>1. \A o \in Attempt : rQueue[o] \in Seq(Nat) /\ rContent[o] \in Seq(Nat)
  BY DEF IInv, Typed, ReceiverTyped
<1>2. /\ \A i \in DOMAIN toReceiver : toReceiver[i] \in ToReceiver
      /\ \A i \in DOMAIN toSender : toSender[i] \in ToSender
  BY DEF IInv, Typed, Messages, Replies
<1>3. \A k \in Attempt : byKey[k] # None =>
        k[2] <= offers[k[1]] /\ byKey[k][1] = k[1] /\ byKey[k][2] <= k[2]
  BY DEF IInv, Routes, MapInv, Offered
<1>4. /\ \A t \in Transfer : byId[t] # None => \E n \in 1..offers[t] : byKey[<<t, n>>] = byId[t]
      /\ onScreen \subseteq {t \in Transfer : byId[t] # None}
  BY DEF IInv, Routes, MapInv
<1> QED BY <1>1, <1>2, <1>3, <1>4 DEF TypeOK, IInv, Typed, ReceiverTyped, RoutingTyped

\* TypeOK: the fields of the receivers, every message on the channel, and the maps
\* of the receiving session, which name no receiver of another or a later offer.
THEOREM FileTransferType == Spec => []TypeOK
<1>1. IInv => TypeOK
  BY TypeFollows
<1> QED BY <1>1, FileTransferInductive, PTL

\* The sender never counts a chunk as confirmed that no receiver of the transfer stored:
\* every file-ack on its way tells the count of a receiver, and counts only grow.
THEOREM TransferAckedIsStored == Spec => []AckedIsStored
<1>1. IInv => AckedIsStored
  BY DEF IInv
<1> QED BY <1>1, FileTransferInductive, PTL

\* The sender shows "completed" only for a transfer of which a receiver handed a file
\* to its user: file-complete leaves after close(), and only from the receiver that saved.
THEOREM TransferCompletedMeansSaved == Spec => []CompletedMeansSaved
<1>1. IInv => CompletedMeansSaved
  BY DEF IInv
<1> QED BY <1>1, FileTransferInductive, PTL

\* No write that was pending, chunk that arrives late or dialog that is answered late makes
\* a cancelled receiver save: its stream is never writable again, except for a close() that
\* was under way.
THEOREM TransferCancelledSavesNothing == Spec => CancelledSavesNothing
<1>1. ASSUME IInv, [Next]_vars
      PROVE  \A o \in Attempt :
               /\ FileSize[o[1]] > 0 /\ ~Rearmed(o)
               /\ rStatus[o] = "cancelled" /\ rStream[o] # "closingAborted"
               => rSaved'[o] = rSaved[o]
  BY <1>1, NextKeeps DEF Kept, SavesNothing
<1> QED BY <1>1, FileTransferInductive, PTL DEF Spec, CancelledSavesNothing

=============================================================================
