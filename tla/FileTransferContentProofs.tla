----------------------- MODULE FileTransferContentProofs -----------------------
(***************************************************************************)
(* What arrives: for any number of transfers, offers and chunks a receiver *)
(* saves the whole file or nothing, and the next chunk on the way is the   *)
(* one its receiver expects (see the asides of SavedIsWhole and ChunksFit  *)
(* in FileTransfer.tla).                                                   *)
(*                                                                         *)
(* Three invariants on top of the one of FileTransferProofs: the labels of *)
(* the frames on the way, what each receiver has of the file, and how the  *)
(* frames meet the receiver.                                               *)
(***************************************************************************)
EXTENDS FileTransferProofs

-----------------------------------------------------------------------------
(* The labels of the frames.                                               *)

\* The frames of k on the way, oldest first, up to the next one to be sent.
Gapless(k) ==
  /\ \A i \in S!InBuffer(k) :
       toReceiver[i].data = toReceiver[i].index + 1 /\ toReceiver[i].data <= FileSize[k[1]]
  /\ \A i, j \in S!InBuffer(k) : S!Follows(k, i, j) => toReceiver[j].index = toReceiver[i].index + 1
  /\ \A i \in S!InBuffer(k) :
       (\A j \in S!InBuffer(k) : j <= i) => toReceiver[i].index + 1 = sIndex[k]

Unstarted(k) == \A n \in 1..MaxAttempts : stage[<<k, n>>] = "idle"

Slicing == {"reading", "drainSend"}

\* Before start() nothing was sent; after it label and position are the same chunk,
\* and a slice that is being read is the one at the position.
Aligned(k) ==
  /\ Unstarted(k) => S!InBuffer(k) = {}
  /\ sOffset[k] = sIndex[k]
  /\ \A r \in S!Run : r[1] = k /\ stage[r] \in Slicing =>
       readEnd[r] = sOffset[k] + 1 /\ readEnd[r] <= FileSize[k[1]]

LabelInv == \A k \in Attempt : S!StartedOnce(k) => Gapless(k) /\ Aligned(k)

LEMMA BufferFacts ==
  ASSUME Typed
  PROVE  /\ toReceiver \in Seq(ToReceiver)
         /\ \A k : S!InBuffer(k) \subseteq 1..Len(toReceiver)
         /\ \A k : \A i \in S!InBuffer(k) :
              i \in Nat /\ toReceiver[i].index \in Nat /\ toReceiver[i].data \in Nat
<1>1. toReceiver \in Seq(ToReceiver)
  BY DEF Typed, Messages
<1>2. \A m \in ToReceiver : m.type = "chunk" => m.index \in Nat /\ m.data \in Nat
  BY MessageFacts
<1> QED BY <1>1, <1>2 DEF S!InBuffer

\* The frames and their labels are the same ones, wherever they are now.
LEMMA GaplessSame ==
  ASSUME Typed, NEW k \in Attempt, Gapless(k), sIndex'[k] = sIndex[k],
         S!InBuffer(k)' = S!InBuffer(k), \A i \in S!InBuffer(k) : toReceiver'[i] = toReceiver[i]
  PROVE  Gapless(k)'
<1>1. \A i, j \in S!InBuffer(k) : S!Follows(k, i, j)' <=> S!Follows(k, i, j)
  BY DEF S!Follows
<1> QED BY <1>1 DEF Gapless

\* A frame of another sender, or a control message, is put behind them.
LEMMA OthersAppended ==
  ASSUME Typed, NEW k \in Attempt,
         NEW m \in ToReceiver, toReceiver' = Append(toReceiver, m), ~(m.type = "chunk" /\ m.key = k)
  PROVE  /\ S!InBuffer(k)' = S!InBuffer(k) /\ \A i \in S!InBuffer(k) : toReceiver'[i] = toReceiver[i]
         /\ Gapless(k) /\ sIndex'[k] = sIndex[k] => Gapless(k)'
<1>1. /\ \A i \in DOMAIN toReceiver : i \in DOMAIN toReceiver' /\ toReceiver'[i] = toReceiver[i]
      /\ \A i \in DOMAIN toReceiver' : i \in DOMAIN toReceiver \/ toReceiver'[i] = m
  BY BufferFacts
<1>2. S!InBuffer(k)' = S!InBuffer(k)
  BY <1>1 DEF S!InBuffer
<1>3. \A i \in S!InBuffer(k) : toReceiver'[i] = toReceiver[i]
  BY <1>1 DEF S!InBuffer
<1> QED BY <1>2, <1>3, GaplessSame

\* The next frame is put behind them.
LEMMA FrameAppended ==
  ASSUME Typed, NEW k \in Attempt, Gapless(k), sIndex'[k] = sIndex[k] + 1, sIndex[k] + 1 <= FileSize[k[1]],
         toReceiver' = Append(toReceiver, S!Chunk(k, sIndex[k], sIndex[k] + 1))
  PROVE  /\ Gapless(k)'
         /\ S!InBuffer(k)' = S!InBuffer(k) \cup {Len(toReceiver) + 1}
         /\ \A i \in S!InBuffer(k) : i < Len(toReceiver) + 1 /\ toReceiver'[i] = toReceiver[i]
         /\ toReceiver'[Len(toReceiver) + 1].index = sIndex[k]
<1> DEFINE last == Len(toReceiver) + 1
           m == S!Chunk(k, sIndex[k], sIndex[k] + 1)
<1>0. sIndex[k] \in Nat
  BY DEF Typed, SenderTyped
<1>1. /\ m \in ToReceiver /\ m.type = "chunk" /\ m.key = k
      /\ m.index = sIndex[k] /\ m.data = sIndex[k] + 1
  BY <1>0, MessagesMade DEF S!Chunk
<1> HIDE DEF m
<1>2. /\ \A i \in DOMAIN toReceiver : i \in DOMAIN toReceiver' /\ toReceiver'[i] = toReceiver[i]
      /\ \A i \in DOMAIN toReceiver' : i \in DOMAIN toReceiver \/ i = last
      /\ last \in DOMAIN toReceiver' /\ toReceiver'[last] = m
  BY <1>1, BufferFacts DEF m
<1>3. S!InBuffer(k)' = S!InBuffer(k) \cup {last}
  BY <1>1, <1>2 DEF S!InBuffer
<1>4. /\ \A i \in S!InBuffer(k) : i \in Nat /\ i < last /\ toReceiver'[i] = toReceiver[i]
      /\ last \in Nat
  BY <1>2, BufferFacts DEF S!InBuffer
<1>5. ASSUME NEW i \in S!InBuffer(k)'
      PROVE  toReceiver'[i].data = toReceiver'[i].index + 1 /\ toReceiver'[i].data <= FileSize[k[1]]
  <2>1. CASE i = last
    BY <1>1, <1>2, <2>1
  <2>2. CASE i # last
    BY <1>3, <1>4, <2>2 DEF Gapless
  <2> QED BY <2>1, <2>2
<1>6. ASSUME NEW i \in S!InBuffer(k)', NEW j \in S!InBuffer(k)', S!Follows(k, i, j)'
      PROVE  toReceiver'[j].index = toReceiver'[i].index + 1
  <2>1. i < j /\ i \in S!InBuffer(k) /\ \A h \in S!InBuffer(k) : h <= i \/ j <= h
    BY <1>3, <1>4, <1>6 DEF S!Follows
  <2>2. CASE j = last
    <3>1. \A h \in S!InBuffer(k) : h <= i
      BY <1>4, <2>1, <2>2
    <3> QED BY <1>0, <1>1, <1>2, <1>4, <2>1, <2>2, <3>1 DEF Gapless
  <2>3. CASE j # last
    <3>1. j \in S!InBuffer(k) /\ S!Follows(k, i, j)
      BY <1>3, <2>1, <2>3 DEF S!Follows
    <3> QED BY <1>4, <2>1, <3>1 DEF Gapless
  <2> QED BY <2>2, <2>3
<1>7. ASSUME NEW i \in S!InBuffer(k)', \A j \in S!InBuffer(k)' : j <= i
      PROVE  toReceiver'[i].index + 1 = sIndex'[k]
  <2>1. i = last
    BY <1>3, <1>4, <1>7
  <2> QED BY <1>1, <1>2, <2>1
<1>8. Gapless(k)'
  BY <1>5, <1>6, <1>7 DEF Gapless
<1> QED BY <1>1, <1>2, <1>3, <1>4, <1>8

\* The oldest message leaves.
LEMMA OldestLeaves ==
  ASSUME Typed, NEW k \in Attempt, toReceiver # <<>>, toReceiver' = Tail(toReceiver)
  PROVE  /\ \A i \in S!InBuffer(k)' :
              i \in Nat /\ i + 1 \in S!InBuffer(k) /\ toReceiver'[i] = toReceiver[i + 1]
         /\ \A h \in S!InBuffer(k) : h # 1 => h - 1 \in S!InBuffer(k)'
         /\ Gapless(k) /\ sIndex'[k] = sIndex[k] => Gapless(k)'
<1>1. \A i \in Nat : i \in DOMAIN toReceiver' <=> i + 1 \in DOMAIN toReceiver /\ i # 0
  BY BufferFacts
<1>2. \A i \in DOMAIN toReceiver' : i \in Nat /\ toReceiver'[i] = toReceiver[i + 1]
  BY BufferFacts
<1>3. \A i \in S!InBuffer(k)' : i \in Nat /\ i + 1 \in S!InBuffer(k) /\ toReceiver'[i] = toReceiver[i + 1]
  BY <1>1, <1>2 DEF S!InBuffer
<1>4. \A h \in S!InBuffer(k) : h # 1 => h - 1 \in S!InBuffer(k)'
  BY <1>1, <1>2, BufferFacts DEF S!InBuffer
<1>5. ASSUME NEW i \in S!InBuffer(k)', NEW j \in S!InBuffer(k)', S!Follows(k, i, j)'
      PROVE  S!Follows(k, i + 1, j + 1)
  <2>1. i < j /\ i \in Nat /\ j \in Nat
    BY <1>3, <1>5 DEF S!Follows
  <2>2. ASSUME NEW h \in S!InBuffer(k) PROVE h <= i + 1 \/ j + 1 <= h
    <3>1. h \in Nat
      BY BufferFacts
    <3>2. h # 1 => (h - 1 <= i \/ j <= h - 1)
      BY <1>4, <1>5 DEF S!Follows
    <3> QED BY <2>1, <3>1, <3>2
  <2> QED BY <2>1, <2>2 DEF S!Follows
<1>6. ASSUME NEW i \in S!InBuffer(k)', \A j \in S!InBuffer(k)' : j <= i
      PROVE  \A j \in S!InBuffer(k) : j <= i + 1
  BY <1>3, <1>4, <1>6, BufferFacts
<1>7. ASSUME Gapless(k), sIndex'[k] = sIndex[k]
      PROVE  Gapless(k)'
  <2>1. ASSUME NEW i \in S!InBuffer(k)'
        PROVE  toReceiver'[i].data = toReceiver'[i].index + 1 /\ toReceiver'[i].data <= FileSize[k[1]]
    <3>1. i + 1 \in S!InBuffer(k) /\ toReceiver'[i] = toReceiver[i + 1]
      BY <1>3
    <3> QED BY <1>7, <3>1 DEF Gapless
  <2>2. ASSUME NEW i \in S!InBuffer(k)', NEW j \in S!InBuffer(k)', S!Follows(k, i, j)'
        PROVE  toReceiver'[j].index = toReceiver'[i].index + 1
    <3>1. /\ i + 1 \in S!InBuffer(k) /\ toReceiver'[i] = toReceiver[i + 1]
          /\ j + 1 \in S!InBuffer(k) /\ toReceiver'[j] = toReceiver[j + 1]
      BY <1>3
    <3>2. S!Follows(k, i + 1, j + 1)
      BY <1>5, <2>2
    <3> QED BY <1>7, <3>1, <3>2 DEF Gapless
  <2>3. ASSUME NEW i \in S!InBuffer(k)', \A j \in S!InBuffer(k)' : j <= i
        PROVE  toReceiver'[i].index + 1 = sIndex'[k]
    <3>1. i + 1 \in S!InBuffer(k) /\ toReceiver'[i] = toReceiver[i + 1]
      BY <1>3
    <3>2. \A j \in S!InBuffer(k) : j <= i + 1
      BY <1>6, <2>3
    <3> QED BY <1>7, <3>1, <3>2 DEF Gapless
  <2> QED BY <2>1, <2>2, <2>3 DEF Gapless
<1> QED BY <1>3, <1>4, <1>7

\* No run() goes back to before its start, and none of them takes up a slice.
NothingRead ==
  \A r \in S!Run : /\ stage'[r] = "idle" => stage[r] = "idle"
                   /\ stage'[r] \in Slicing => stage[r] \in Slicing

\* Steps that send no frame.
NoFrame ==
  /\ UNCHANGED <<sOffset, sIndex, readEnd>> /\ NothingRead
  /\ \/ toReceiver' = toReceiver
     \/ ReceiverDelivery /\ toReceiver # <<>> /\ toReceiver' = Tail(toReceiver)
     \/ \E m \in ToReceiver : m.type # "chunk" /\ toReceiver' = Append(toReceiver, m)

LEMMA RunFacts ==
  /\ \A k \in Attempt, n \in 1..MaxAttempts : <<k, n>> \in S!Run
  /\ \A r \in S!Run : r[1] \in Attempt /\ r[2] \in 1..MaxAttempts /\ r = <<r[1], r[2]>>
BY DEF S!Run

LEMMA AlignedSame ==
  ASSUME NEW k \in Attempt, Aligned(k), UNCHANGED <<sOffset, sIndex, readEnd>>, NothingRead,
         S!InBuffer(k) = {} => S!InBuffer(k)' = {}
  PROVE  Aligned(k)'
<1>1. Unstarted(k)' => S!InBuffer(k)' = {}
  BY RunFacts DEF Aligned, NothingRead, Unstarted
<1>2. \A r \in S!Run : r[1] = k /\ stage'[r] \in Slicing =>
        readEnd'[r] = sOffset'[k] + 1 /\ readEnd'[r] <= FileSize[k[1]]
  BY DEF Aligned, NothingRead
<1> QED BY <1>1, <1>2 DEF Aligned, Slicing

LEMMA NoFrameSent ==
  ASSUME Typed, NEW k \in Attempt, Gapless(k), Aligned(k), NoFrame
  PROVE  Gapless(k)' /\ Aligned(k)'
<1>1. CASE toReceiver' = toReceiver
  <2>1. S!InBuffer(k)' = S!InBuffer(k)
    BY <1>1 DEF S!InBuffer
  <2> QED BY <1>1, <2>1, GaplessSame, AlignedSame DEF NoFrame
<1>2. CASE toReceiver # <<>> /\ toReceiver' = Tail(toReceiver)
  BY <1>2, OldestLeaves, AlignedSame DEF NoFrame
<1>3. ASSUME NEW m \in ToReceiver, m.type # "chunk", toReceiver' = Append(toReceiver, m)
      PROVE  Gapless(k)' /\ Aligned(k)'
  BY <1>3, OthersAppended, AlignedSame DEF NoFrame
<1> QED BY <1>1, <1>2, <1>3 DEF NoFrame

-----------------------------------------------------------------------------
(* Which steps send frames.                                                *)

LEMMA EmitNoFrame ==
  ASSUME NEW m \in ToReceiver, m.type # "chunk", NEW local,
         IF local THEN S!Emit(m) ELSE UNCHANGED toReceiver,
         UNCHANGED <<sOffset, sIndex, readEnd>>,
         \A r \in S!Run : stage'[r] = stage[r] \/ stage'[r] = "top"
  PROVE  NoFrame
<1>1. NothingRead
  BY DEF NothingRead, Slicing
<1> QED BY <1>1 DEF NoFrame, S!Emit

\* The handlers of the sending side other than start().
LEMMA HandlersNoFrame ==
  ASSUME NEW s \in Attempt,
         \/ S!HandleReject(s) \/ S!HandleComplete(s) \/ \E n : S!HandleAck(s, n)
         \/ \E local : S!Pause(s, local) \/ S!Resume(s, local) \/ S!Cancel(s, local)
  PROVE  NoFrame
<1>1. \A r \in S!Run : S!Woken(s)[r] = stage[r] \/ S!Woken(s)[r] = "top"
  BY DEF S!Woken
<1>2. ASSUME NEW local, S!Pause(s, local) \/ S!Resume(s, local) \/ S!Cancel(s, local)
      PROVE  NoFrame
  <2>1. PICK m : /\ m \in {S!Control("pause", s), S!Control("resume", s), S!Control("cancel", s)}
                 /\ IF local THEN S!Emit(m) ELSE UNCHANGED toReceiver
    BY <1>2 DEF S!Pause, S!Resume, S!Cancel
  <2>2. /\ UNCHANGED <<sOffset, sIndex, readEnd>>
        /\ stage' = stage \/ stage' = S!Woken(s)
    BY <1>2 DEF S!Pause, S!Resume, S!Cancel, S!runVars
  <2>3. m \in ToReceiver /\ m.type # "chunk"
    BY <2>1, MessagesMade
  <2> QED BY <1>1, <2>1, <2>2, <2>3, EmitNoFrame
<1>3. CASE S!HandleReject(s) \/ S!HandleComplete(s) \/ \E n : S!HandleAck(s, n)
  <2>1. /\ UNCHANGED <<sOffset, sIndex, readEnd, toReceiver>>
        /\ stage' = stage \/ stage' = S!Woken(s)
    BY <1>3 DEF S!HandleReject, S!HandleComplete, S!HandleAck, S!runVars
  <2>2. NothingRead
    BY <1>1, <2>1 DEF NothingRead, Slicing
  <2> QED BY <2>1, <2>2 DEF NoFrame
<1> QED BY <1>2, <1>3

LEMMA StopNoFrame ==
  ASSUME NEW T, NEW local, S!CancelAll(T, local) \/ S!CloseSession(T)
  PROVE  NoFrame
<1>1. PICK status : S!StopAll(T, status)
  BY DEF S!CancelAll, S!CloseSession
<1>2. \A r \in S!Run : stage'[r] = stage[r] \/ stage'[r] = "top"
  <2>1. \A s, r \in S!Run : S!Woken(s)[r] = stage[r] \/ S!Woken(s)[r] = "top"
    BY DEF S!Woken
  <2>2. \A r \in S!Run : stage'[r] = stage[r] \/ stage'[r] = S!Woken(r[1])[r]
    BY <1>1 DEF S!StopAll
  <2>3. \A s : \A r \in S!Run : S!Woken(s)[r] = stage[r] \/ S!Woken(s)[r] = "top"
    BY DEF S!Woken
  <2> QED BY <2>2, <2>3
<1>3. UNCHANGED <<sOffset, sIndex, readEnd>>
  BY DEF S!CancelAll, S!CloseSession
<1>4. \/ IF local THEN S!Emit(S!CancelAllMessage) ELSE UNCHANGED toReceiver
      \/ IF FALSE THEN S!Emit(S!CancelAllMessage) ELSE UNCHANGED toReceiver
  BY DEF S!CancelAll, S!CloseSession
<1> QED BY <1>2, <1>3, <1>4, MessagesMade, EmitNoFrame

LEMMA ReleaseNoFrame ==
  ASSUME Typed, NEW r \in S!Run, S!ReleaseGate(r), UNCHANGED <<sOffset, sIndex, readEnd, toReceiver>>
  PROVE  NoFrame
<1>1. stage \in [S!Run -> S!Stage] /\ queue \in Seq(S!Run)
  BY DEF Typed, SenderTyped
<1>2. \A q \in S!Run : stage'[q] \in {stage[q], "done", "granted"}
  BY <1>1 DEF S!ReleaseGate
<1>3. NothingRead
  BY <1>2 DEF NothingRead, Slicing
<1> QED BY <1>3 DEF NoFrame

\* Of the steps of a run() two concern slices.
LEMMA RunNoFrame ==
  ASSUME Typed, NEW r \in S!Run, S!RunStep(r), ~S!Read(r), ~S!SendChunk(r)
  PROVE  NoFrame
<1> USE DEF S!StepUnchanged, S!gateVars
<1>1. UNCHANGED <<sOffset, sIndex, readEnd, toReceiver>>
  BY DEF S!RunStep, S!BeginCancelled, S!Begin, S!Finish, S!TopCancelled, S!Park, S!TopClosed, S!TopDrain,
         S!Drained, S!ReadFails, S!SendCancelled, S!SendWaits, S!SendFails
<1>2. CASE S!ReleaseGate(r)
  BY <1>1, <1>2, ReleaseNoFrame
<1>3. CASE ~S!ReleaseGate(r)
  <2>1. S!Begin(r) \/ S!Park(r) \/ S!TopDrain(r) \/ S!Drained(r) \/ S!SendWaits(r)
    BY <1>3 DEF S!RunStep, S!BeginCancelled, S!Finish, S!TopCancelled, S!TopClosed, S!ReadFails,
                S!SendCancelled, S!SendFails
  <2>2. /\ \A q \in S!Run : q # r => stage'[q] = stage[q]
        /\ stage'[r] \in Slicing => stage[r] \in Slicing
        /\ stage'[r] # "idle"
    BY <2>1 DEF S!Begin, S!Park, S!TopDrain, S!Drained, S!SendWaits, Typed, SenderTyped, Slicing
  <2>3. NothingRead
    BY <2>2 DEF NothingRead
  <2> QED BY <1>1, <2>3 DEF NoFrame
<1> QED BY <1>2, <1>3

LEMMA IdleNoFrame ==
  ASSUME UNCHANGED senderVars,
         \/ toReceiver' = toReceiver
         \/ ReceiverDelivery /\ toReceiver # <<>> /\ toReceiver' = Tail(toReceiver)
         \/ \E m \in ToReceiver : m.type # "chunk" /\ toReceiver' = Append(toReceiver, m)
  PROVE  NoFrame
BY DEF NoFrame, NothingRead, senderVars

\* An accept reaches its FileSender.
StartDelivered ==
  /\ SenderDelivery
  /\ Head(toSender).type = "accept"
  /\ S!Start(SenderOf(Head(toSender).id), Head(toSender).bytes)

SliceTaken(r) == SenderRuns(r) /\ S!Read(r)
FrameSent(r) == SenderRuns(r) /\ S!SendChunk(r)

LEMMA Moves ==
  ASSUME IInv, [Next]_vars
  PROVE  NoFrame \/ StartDelivered \/ \E r \in S!Run : SliceTaken(r) \/ FrameSent(r)
<1>1. CASE UNCHANGED vars
  BY <1>1, IdleNoFrame DEF vars, senderSide
<1>2. ASSUME NEW t \in Transfer, Offer(t) PROVE NoFrame
  <2>1. /\ offers[t] < MaxAttempts /\ UNCHANGED senderVars
        /\ toReceiver' = Append(toReceiver, S!Control("offer", <<t, offers[t] + 1>>))
    BY <1>2 DEF Offer
  <2>2. offers[t] + 1 \in 1..MaxAttempts
    BY <2>1, TransferAssumption DEF IInv, Typed, RoutingTyped
  <2>3. <<t, offers[t] + 1>> \in Attempt
    BY <2>2, AttemptFacts
  <2> QED BY <2>1, <2>3, MessagesMade, IdleNoFrame
<1>3. ASSUME NEW t \in Transfer, SenderSteers(t) PROVE NoFrame
  <2>1. PICK s : s = SenderOf(t)
    OBVIOUS
  <2>2. S!Pause(s, TRUE) \/ S!Resume(s, TRUE) \/ S!Cancel(s, TRUE)
    BY <1>3, <2>1 DEF SenderSteers
  <2>3. s \in Attempt
    BY <1>3, <2>1, SenderOfFacts DEF SenderSteers, IInv
  <2> QED BY <2>2, <2>3, HandlersNoFrame
<1>4. CASE SenderCancelsAll \/ SenderCloses
  BY <1>4, StopNoFrame DEF SenderCancelsAll, SenderCloses
<1>5. CASE SenderLosesChannel
  <2>1. UNCHANGED <<senderVars, toReceiver>>
    BY <1>5 DEF SenderLosesChannel, S!ChannelLost, S!senderVars, S!gateVars, S!runVars, senderVars
  <2> QED BY <2>1, IdleNoFrame
<1>6. ASSUME NEW r \in S!Run, SenderRuns(r)
      PROVE  NoFrame \/ SliceTaken(r) \/ FrameSent(r)
  BY <1>6, RunNoFrame DEF SenderRuns, SliceTaken, FrameSent, IInv
<1>7. CASE SenderDelivery
  <2>1. PICK m : m = Head(toSender)
    OBVIOUS
  <2>2. m \in ToSender /\ Honest(m)
    BY <1>7, <2>1, TailFacts DEF SenderDelivery, IInv, Typed, Replies, ReplyInv
  <2>3. SenderGets(m) /\ UNCHANGED offers
    BY <1>7, <2>1 DEF SenderDelivery, routing
  <2>4. CASE m.type = "cancel-all"
    BY <2>3, <2>4, StopNoFrame DEF SenderGets
  <2>5. CASE m.type # "cancel-all"
    <3>1. PICK s : s = SenderOf(m.id)
      OBVIOUS
    <3>2. s \in Attempt
      BY <2>2, <2>5, <3>1, ReplyFacts, SenderOfFacts DEF Honest, IInv
    <3>3. CASE m.type = "accept"
      <4>1. S!Start(s, m.bytes)
        BY <2>3, <3>1, <3>3 DEF SenderGets
      <4> QED BY <1>7, <2>1, <3>1, <3>3, <4>1 DEF StartDelivered
    <3>4. CASE m.type \notin {"accept", "cancel-all"}
      <4>1. \/ S!HandleReject(s) \/ S!HandleAck(s, m.bytes) \/ S!HandleComplete(s)
            \/ OnPause(s) \/ OnResume(s) \/ OnCancel(s)
        BY <2>3, <3>1, <3>4 DEF SenderGets
      <4>2. CASE UNCHANGED senderSide
        BY <4>2, IdleNoFrame DEF senderSide
      <4>3. CASE ~UNCHANGED senderSide
        BY <3>2, <4>1, <4>3, HandlersNoFrame DEF OnPause, OnResume, OnCancel
      <4> QED BY <4>2, <4>3
    <3> QED BY <2>5, <3>3, <3>4
  <2> QED BY <2>4, <2>5
<1>8. CASE ReceiverDelivery
  BY <1>8, IdleNoFrame DEF ReceiverDelivery
<1>9. CASE \/ \E t \in Transfer : UserAccepts(t) \/ UserRejects(t) \/ ReceiverSteers(t)
           \/ \E o \in Attempt : DialogEnds(o) \/ Disk(o)
           \/ ReceiverCancelsAll \/ ReceiverCloses \/ ReceiverLosesChannel
  <2>1. UNCHANGED <<senderVars, toReceiver>>
    BY <1>9 DEF UserAccepts, UserRejects, ReceiverSteers, DialogEnds, Disk, ReceiverCancelsAll,
                ReceiverCloses, ReceiverLosesChannel, senderSide
  <2> QED BY <2>1, IdleNoFrame
<1> QED BY <1>1, <1>2, <1>3, <1>4, <1>5, <1>6, <1>7, <1>8, <1>9 DEF Next

\* No run() goes back to before its start.
LEMMA StartsOnly ==
  ASSUME IInv, [Next]_vars
  PROVE  \A r \in S!Run : stage'[r] = "idle" => stage[r] = "idle"
<1>1. CASE NoFrame
  BY <1>1 DEF NoFrame, NothingRead
<1>2. CASE StartDelivered
  BY <1>2 DEF StartDelivered, S!Start, S!StartRun, IInv, Typed, SenderTyped
<1>3. ASSUME NEW r \in S!Run, SliceTaken(r) \/ FrameSent(r)
      PROVE  \A q \in S!Run : stage'[q] = "idle" => stage[q] = "idle"
  BY <1>3 DEF SliceTaken, FrameSent, S!Read, S!SendChunk, IInv, Typed, SenderTyped
<1> QED BY <1>1, <1>2, <1>3, Moves

LEMMA StartedOnceBefore ==
  ASSUME IInv, [Next]_vars, NEW k \in Attempt
  PROVE  /\ S!StartedOnce(k)' => S!StartedOnce(k)
         /\ Unstarted(k)' => Unstarted(k)
<1>1. \A n \in 1..MaxAttempts : <<k, n>> \in S!Run
  BY RunFacts
<1>2. \A n \in 2..MaxAttempts : n \in 1..MaxAttempts
  BY TransferAssumption
<1> QED BY <1>1, <1>2, StartsOnly DEF S!StartedOnce, Unstarted

\* The first start() of a FileSender, with nothing of it on the way.
LEMMA FirstStart ==
  ASSUME Typed, NEW q \in Attempt, NEW from \in Nat, S!Start(q, from)
  PROVE  /\ UNCHANGED <<readEnd, toReceiver>>
         /\ sOffset'[q] = sIndex'[q]
         /\ sIndex'[q] = IF from <= FileSize[q[1]] THEN from ELSE FileSize[q[1]]
         /\ \A k \in Attempt : k # q => sOffset'[k] = sOffset[k] /\ sIndex'[k] = sIndex[k]
         /\ \A r \in S!Run : r[1] # q => stage'[r] = stage[r]
         /\ \A r \in S!Run : stage'[r] \in Slicing => stage[r] \in Slicing /\ stage'[r] = stage[r]
         /\ ~Unstarted(q)'
         /\ S!StartedOnce(q)' => Unstarted(q)
<1>1. PICK n \in 1..MaxAttempts : S!StartRun(q, from, n)
  BY DEF S!Start
<1>2. PICK x : x = S!Lesser(from, FileSize[q[1]])
  OBVIOUS
<1>3. /\ UNCHANGED <<readEnd, toReceiver>>
      /\ sOffset' = [sOffset EXCEPT ![q] = x] /\ sIndex' = [sIndex EXCEPT ![q] = x]
  BY <1>1, <1>2 DEF S!StartRun, S!StartIndex
<1>4. x = IF from <= FileSize[q[1]] THEN from ELSE FileSize[q[1]]
  BY <1>2 DEF S!Lesser
<1>5. <<q, n>> \in S!Run
  BY RunFacts
<1>6. /\ \A r \in S!Run : r # <<q, n>> => stage'[r] = stage[r]
      /\ stage'[<<q, n>>] \in {"granted", "queued"}
  <2>1. \/ stage' = [stage EXCEPT ![<<q, n>>] = "granted"]
        \/ stage' = [stage EXCEPT ![<<q, n>>] = "queued"]
    BY <1>1 DEF S!StartRun
  <2> QED BY <1>5, <2>1 DEF Typed, SenderTyped
<1>7. \A r \in S!Run : r[1] # q => stage'[r] = stage[r]
  BY <1>6
<1>8. \A r \in S!Run : stage'[r] \in Slicing => stage[r] \in Slicing /\ stage'[r] = stage[r]
  BY <1>6 DEF Slicing
<1>9. ~Unstarted(q)'
  BY <1>6 DEF Unstarted
<1>10. ASSUME S!StartedOnce(q)' PROVE Unstarted(q)
  <2>1. n = 1
    BY <1>6, <1>10 DEF S!StartedOnce
  <2> QED BY <1>1, <2>1 DEF S!StartRun, Unstarted
<1> QED BY <1>3, <1>4, <1>7, <1>8, <1>9, <1>10 DEF Typed, SenderTyped

LEMMA StartLabels ==
  ASSUME IInv, LabelInv, NEW q \in Attempt, NEW from \in Nat, S!Start(q, from),
         NEW k \in Attempt, S!StartedOnce(k), S!StartedOnce(k)'
  PROVE  Gapless(k)' /\ Aligned(k)'
<1>1. /\ UNCHANGED <<readEnd, toReceiver>> /\ sOffset'[q] = sIndex'[q]
      /\ \A p \in Attempt : p # q => sOffset'[p] = sOffset[p] /\ sIndex'[p] = sIndex[p]
      /\ \A r \in S!Run : r[1] # q => stage'[r] = stage[r]
      /\ \A r \in S!Run : stage'[r] \in Slicing => stage[r] \in Slicing /\ stage'[r] = stage[r]
      /\ ~Unstarted(q)'
      /\ S!StartedOnce(q)' => Unstarted(q)
  BY FirstStart DEF IInv
<1>2. S!InBuffer(k)' = S!InBuffer(k)
  BY <1>1 DEF S!InBuffer
<1>3. Gapless(k) /\ Aligned(k)
  BY DEF LabelInv
<1>4. CASE k # q
  <2>1. Unstarted(k)' => Unstarted(k)
    BY <1>1, <1>4, RunFacts DEF Unstarted
  <2>2. Gapless(k)'
    BY <1>1, <1>2, <1>3, <1>4, GaplessSame DEF IInv
  <2> QED BY <1>1, <1>2, <1>3, <1>4, <2>1, <2>2 DEF Aligned
<1>5. CASE k = q
  <2>1. S!InBuffer(k)' = {}
    BY <1>1, <1>2, <1>3, <1>5 DEF Aligned
  <2>2. \A r \in S!Run : r[1] = k => stage'[r] \notin Slicing
    BY <1>1, <1>5, RunFacts DEF Unstarted, Slicing
  <2> QED BY <1>1, <1>5, <2>1, <2>2 DEF Gapless, Aligned
<1> QED BY <1>4, <1>5

LEMMA SliceLabels ==
  ASSUME IInv, LabelInv, NEW q \in S!Run, S!Read(q), NEW k \in Attempt, S!StartedOnce(k)
  PROVE  Gapless(k)' /\ Aligned(k)'
<1>1. Gapless(k) /\ Aligned(k)
  BY DEF LabelInv
<1>2. /\ UNCHANGED <<sOffset, sIndex, toReceiver>>
      /\ \A r \in S!Run : r # q => stage'[r] = stage[r] /\ readEnd'[r] = readEnd[r]
      /\ readEnd'[q] = S!Lesser(sOffset[q[1]] + 1, FileSize[q[1][1]])
      /\ sOffset[q[1]] < FileSize[q[1][1]]
      /\ stage[q] = "top"
  BY RunFacts DEF S!Read, S!AtTop, S!StepUnchanged, IInv, Typed, SenderTyped
<1>3. sOffset[q[1]] \in Nat /\ FileSize[q[1][1]] \in Nat
  BY RunFacts, AttemptFacts, TransferAssumption DEF IInv, Typed, SenderTyped
<1>4. readEnd'[q] = sOffset[q[1]] + 1 /\ readEnd'[q] <= FileSize[q[1][1]]
  BY <1>2, <1>3 DEF S!Lesser
<1>5. S!InBuffer(k)' = S!InBuffer(k)
  BY <1>2 DEF S!InBuffer
<1>6. Gapless(k)'
  BY <1>1, <1>2, <1>5, GaplessSame DEF IInv
<1>7. Unstarted(k)' => Unstarted(k)
  <2>1. \A n \in 1..MaxAttempts : <<k, n>> = q => stage'[q] # "idle"
    BY DEF S!Read, IInv, Typed, SenderTyped
  <2> QED BY <1>2, <2>1, RunFacts DEF Unstarted
<1>8. \A r \in S!Run : r[1] = k /\ stage'[r] \in Slicing =>
        readEnd'[r] = sOffset'[k] + 1 /\ readEnd'[r] <= FileSize[k[1]]
  BY <1>1, <1>2, <1>4 DEF Aligned
<1> QED BY <1>1, <1>2, <1>5, <1>6, <1>7, <1>8 DEF Aligned

\* The frame that is sent carries the next label and its slice.
LEMMA FrameFacts ==
  ASSUME IInv, LabelInv, NEW q \in S!Run, S!SendChunk(q), NEW k \in Attempt, k = q[1], S!StartedOnce(k)
  PROVE  /\ toReceiver' = Append(toReceiver, S!Chunk(k, sIndex[k], sIndex[k] + 1))
         /\ sIndex'[k] = sIndex[k] + 1 /\ sOffset'[k] = sIndex[k] + 1 /\ sIndex[k] + 1 <= FileSize[k[1]]
         /\ \A r \in S!Run : r[1] = k => stage'[r] \notin Slicing
         /\ ~Unstarted(k) /\ ~Unstarted(k)'
<1>1. /\ toReceiver' = Append(toReceiver, S!Chunk(k, sIndex[k], readEnd[q]))
      /\ sOffset' = [sOffset EXCEPT ![k] = readEnd[q]]
      /\ sIndex' = [sIndex EXCEPT ![k] = @ + 1]
      /\ stage' = [stage EXCEPT ![q] = "top"]
      /\ stage[q] \in Slicing
  BY DEF S!SendChunk, S!MaySend, S!AfterRead, Slicing
<1>2. readEnd[q] = sOffset[k] + 1 /\ readEnd[q] <= FileSize[k[1]] /\ sOffset[k] = sIndex[k]
  BY <1>1 DEF LabelInv, Aligned
<1>3. \A r \in S!Run : r[1] = k => r = q \/ stage[r] = "idle"
  <2>1. \A r \in S!Run : r[1] = k => r = <<k, 1>> \/ r[2] \in 2..MaxAttempts
    BY RunFacts, TransferAssumption
  <2>2. \A r \in S!Run : r[1] = k => r = <<k, 1>> \/ stage[r] = "idle"
    BY <2>1, RunFacts DEF S!StartedOnce
  <2>3. stage[q] # "idle"
    BY <1>1 DEF Slicing
  <2> QED BY <2>2, <2>3
<1>4. stage'[q] = "top" /\ \A r \in S!Run : r # q => stage'[r] = stage[r]
  BY <1>1 DEF IInv, Typed, SenderTyped
<1>5. \A r \in S!Run : r[1] = k => stage'[r] \notin Slicing
  BY <1>3, <1>4 DEF Slicing
<1>6. ~Unstarted(k) /\ ~Unstarted(k)'
  BY <1>1, <1>4, RunFacts DEF Unstarted, Slicing
<1> QED BY <1>1, <1>2, <1>5, <1>6 DEF IInv, Typed, SenderTyped

LEMMA FrameLabels ==
  ASSUME IInv, LabelInv, NEW q \in S!Run, S!SendChunk(q), NEW k \in Attempt, S!StartedOnce(k)
  PROVE  Gapless(k)' /\ Aligned(k)'
<1>1. Gapless(k) /\ Aligned(k)
  BY DEF LabelInv
<1>2. CASE q[1] # k
  <2>1. PICK p \in Attempt : p = q[1]
    BY RunFacts
  <2>2. /\ toReceiver' = Append(toReceiver, S!Chunk(p, sIndex[p], readEnd[q]))
        /\ sOffset' = [sOffset EXCEPT ![p] = readEnd[q]]
        /\ sIndex' = [sIndex EXCEPT ![p] = @ + 1]
        /\ stage' = [stage EXCEPT ![q] = "top"] /\ readEnd' = readEnd
    BY <2>1 DEF S!SendChunk
  <2>3. PICK m : m = S!Chunk(p, sIndex[p], readEnd[q])
    OBVIOUS
  <2>4. m \in ToReceiver /\ m.key = p
    BY <2>3, MessagesMade DEF IInv, Typed, SenderTyped
  <2>5. sIndex'[k] = sIndex[k] /\ sOffset'[k] = sOffset[k]
    BY <1>2, <2>1, <2>2 DEF IInv, Typed, SenderTyped
  <2>6. \A r \in S!Run : r[1] = k => stage'[r] = stage[r]
    BY <1>2, <2>2 DEF IInv, Typed, SenderTyped
  <2>7. Gapless(k)' /\ S!InBuffer(k)' = S!InBuffer(k)
    BY <1>1, <1>2, <2>1, <2>2, <2>3, <2>4, <2>5, OthersAppended DEF IInv
  <2>8. Unstarted(k)' => Unstarted(k)
    BY <2>6, RunFacts DEF Unstarted
  <2> QED BY <1>1, <2>2, <2>5, <2>6, <2>7, <2>8 DEF Aligned
<1>3. CASE q[1] = k
  <2>1. /\ toReceiver' = Append(toReceiver, S!Chunk(k, sIndex[k], sIndex[k] + 1))
        /\ sIndex'[k] = sIndex[k] + 1 /\ sOffset'[k] = sIndex[k] + 1 /\ sIndex[k] + 1 <= FileSize[k[1]]
        /\ \A r \in S!Run : r[1] = k => stage'[r] \notin Slicing
        /\ ~Unstarted(k)'
    BY <1>3, FrameFacts
  <2>2. Gapless(k)'
    BY <1>1, <2>1, FrameAppended DEF IInv
  <2> QED BY <2>1, <2>2 DEF Aligned
<1> QED BY <1>2, <1>3

LEMMA AcceptFacts ==
  ASSUME IInv, StartDelivered, NEW m, m = Head(toSender)
  PROVE  /\ m \in ToSender /\ m = toSender[1] /\ 1 \in DOMAIN toSender /\ m.type = "accept"
         /\ m.id \in Transfer /\ m.bytes \in Nat
         /\ SenderOf(m.id) \in Attempt /\ SenderOf(m.id)[1] = m.id
         /\ S!Start(SenderOf(m.id), m.bytes)
<1>1. toSender # <<>> /\ m.type = "accept" /\ S!Start(SenderOf(m.id), m.bytes)
  BY DEF StartDelivered, SenderDelivery
<1>2. m \in ToSender /\ m = toSender[1] /\ 1 \in DOMAIN toSender
  BY <1>1, TailFacts DEF IInv, Typed, Replies
<1>3. m.id \in Transfer /\ m.bytes \in Nat
  BY <1>1, <1>2, ReplyFacts
<1>4. offers[m.id] > 0
  BY <1>1, <1>2 DEF IInv, ReplyInv, Honest
<1>5. SenderOf(m.id) \in Attempt /\ SenderOf(m.id)[1] = m.id
  BY <1>3, <1>4, SenderOfFacts DEF IInv
<1> QED BY <1>1, <1>2, <1>3, <1>5

LEMMA LabelStep ==
  ASSUME IInv, LabelInv, [Next]_vars
  PROVE  LabelInv'
<1> SUFFICES ASSUME NEW k \in Attempt, S!StartedOnce(k)'
             PROVE  Gapless(k)' /\ Aligned(k)'
  BY DEF LabelInv
<1>1. S!StartedOnce(k) /\ Gapless(k) /\ Aligned(k)
  BY StartedOnceBefore DEF LabelInv
<1>2. CASE NoFrame
  BY <1>1, <1>2, NoFrameSent DEF IInv
<1>3. CASE StartDelivered
  BY <1>1, <1>3, AcceptFacts, StartLabels
<1>4. CASE \E r \in S!Run : SliceTaken(r)
  BY <1>1, <1>4, SliceLabels DEF SliceTaken
<1>5. CASE \E r \in S!Run : FrameSent(r)
  BY <1>1, <1>5, FrameLabels DEF FrameSent
<1> QED BY <1>2, <1>3, <1>4, <1>5, Moves

-----------------------------------------------------------------------------
(* What a receiver has of the file.                                        *)

\* The first n slices.
Prefix(n) == [d \in 1..n |-> d]

\* Neither re-armed nor served by a FileSender several accepts started.
Clean(o) == ~Rearmed(o) /\ S!StartedOnce(o)

\* No offer, no answer to it yet, or no file chosen yet.
Unanswered(o) == ~Routed(o) \/ rPicking[o] \/ (o[1] \in onScreen /\ byId[o[1]] = o)

Untouched(o) ==
  /\ rReceived[o] = 0 /\ rExpected[o] = 0
  /\ rQueue[o] = <<>> /\ rContent[o] = <<>> /\ rSaved[o] = <<>>
  /\ rStream[o] = "none" /\ ~R!Active(o)

\* The file being written, and the chunks that wait for the disk: the next ones.
OnDisk(o) ==
  /\ rStream[o] = "open" /\ rSaved[o] = <<>>
  /\ rReceived[o] < FileSize[o[1]] /\ rExpected[o] <= FileSize[o[1]]
  /\ rContent[o] = Prefix(rReceived[o])
  /\ rExpected[o] = rReceived[o] + Len(rQueue[o])
  /\ \A i \in DOMAIN rQueue[o] : rQueue[o][i] = rReceived[o] + i

\* Written in full, close() is under way.
OnClose(o) ==
  /\ rStream[o] \in {"closing", "closingAborted"} /\ rSaved[o] = <<>>
  /\ rQueue[o] = <<>> /\ rContent[o] = Whole(o[1]) /\ rExpected[o] = FileSize[o[1]]

InMemory(o) ==
  /\ rStream[o] = "none" /\ R!Active(o) /\ rSaved[o] = <<>>
  /\ rReceived[o] < FileSize[o[1]] /\ rExpected[o] = rReceived[o]
  /\ rQueue[o] = <<>> /\ rContent[o] = Prefix(rReceived[o])

\* Not begun, saved, or given up.
Over(o) ==
  /\ rStream[o] \in {"none", "errored", "aborting"} /\ ~R!Active(o)
  /\ rSaved[o] \in {<<>>, <<Whole(o[1])>>}

Held(o) ==
  /\ Unanswered(o) => Untouched(o)
  /\ OnDisk(o) \/ OnClose(o) \/ InMemory(o) \/ Over(o)

WholeInv == \A o \in Attempt : Clean(o) => Held(o)

LEMMA ObjectFacts ==
  ASSUME Typed, NEW o \in Attempt
  PROVE  /\ rReceived[o] \in Nat /\ rExpected[o] \in Nat /\ FileSize[o[1]] \in Nat
         /\ rQueue[o] \in Seq(Nat) /\ rContent[o] \in Seq(Nat) /\ rSaved[o] \in Seq(Seq(Nat))
         /\ rStatus[o] \in S!Status /\ rStream[o] \in R!Stream
BY AttemptFacts, TransferAssumption DEF Typed, ReceiverTyped

LEMMA PrefixFacts ==
  ASSUME NEW n \in Nat
  PROVE  Append(Prefix(n), n + 1) = Prefix(n + 1)
BY DEF Prefix

LEMMA WholeFacts ==
  \A o \in Attempt : Whole(o[1]) = Prefix(FileSize[o[1]])
BY DEF Whole, Prefix

\* Fields of a receiver a step leaves alone.
ProgressSame(o) ==
  /\ rReceived'[o] = rReceived[o] /\ rExpected'[o] = rExpected[o] /\ rQueue'[o] = rQueue[o]
  /\ rSaved'[o] = rSaved[o]
ContentSame(o) == rStream'[o] = rStream[o] /\ rContent'[o] = rContent[o]

\* Steps that change no more than the status.
LEMMA StatusHeld ==
  ASSUME NEW o \in Attempt, Held(o), ProgressSame(o), ContentSame(o),
         R!Active(o)' => R!Active(o), Unanswered(o)' => Unanswered(o)
  PROVE  Held(o)'
<1>1. Unanswered(o)' => Untouched(o)'
  BY DEF Held, Untouched, ProgressSame, ContentSame
<1>2. CASE OnDisk(o)
  BY <1>1, <1>2 DEF Held, OnDisk, ProgressSame, ContentSame
<1>3. CASE OnClose(o)
  BY <1>1, <1>3 DEF Held, OnClose, ProgressSame, ContentSame
<1>4. CASE InMemory(o)
  <2>1. InMemory(o)' \/ Over(o)'
    BY <1>4 DEF InMemory, Over, ProgressSame, ContentSame
  <2> QED BY <1>1, <2>1 DEF Held
<1>5. CASE Over(o)
  <2>1. Over(o)'
    BY <1>5 DEF Over, ProgressSame, ContentSame
  <2> QED BY <1>1, <2>1 DEF Held
<1> QED BY <1>2, <1>3, <1>4, <1>5 DEF Held

\* cancel() and its discard().
LEMMA DiscardHeld ==
  ASSUME NEW o \in Attempt, Held(o), ProgressSame(o), rStatus'[o] = "cancelled",
         rStream'[o] = R!DiscardedStream(rStream[o]),
         rContent'[o] = IF rStream[o] \in {"none", "errored"} THEN <<>> ELSE rContent[o],
         Unanswered(o)' => Unanswered(o)
  PROVE  Held(o)'
<1>1. ~R!Active(o)'
  BY DEF R!Active
<1>2. Unanswered(o)' => Untouched(o)'
  BY <1>1 DEF Held, Untouched, ProgressSame, R!DiscardedStream
<1>3. CASE OnClose(o)
  <2>1. OnClose(o)'
    BY <1>3 DEF OnClose, ProgressSame, R!DiscardedStream
  <2> QED BY <1>2, <2>1 DEF Held
<1>4. CASE ~OnClose(o)
  <2>1. /\ rStream[o] \in {"none", "open", "errored", "aborting"}
        /\ rSaved[o] \in {<<>>, <<Whole(o[1])>>}
    BY <1>4 DEF Held, OnDisk, InMemory, Over
  <2>2. Over(o)'
    BY <1>1, <2>1 DEF Over, ProgressSame, R!DiscardedStream
  <2> QED BY <1>2, <2>2 DEF Held
<1> QED BY <1>3, <1>4

\* The end of accept(): nothing is there yet.
LEMMA AcceptedHeld ==
  ASSUME IInv, NEW o \in Attempt, Untouched(o), ~Unanswered(o)',
         NEW stream \in {"none", "open"}, R!Accepted(o, stream, <<>>)
  PROVE  Held(o)'
<1>1. /\ rStream' = [rStream EXCEPT ![o] =
           IF FileSize[o[1]] = 0 /\ stream = "open" THEN "closing" ELSE stream]
      /\ rContent' = [rContent EXCEPT ![o] = <<>>]
      /\ UNCHANGED <<rReceived, rExpected, rQueue>>
      /\ IF FileSize[o[1]] = 0 /\ stream = "none"
         THEN /\ rStatus' = [rStatus EXCEPT ![o] = "completed"]
              /\ rSaved' = [rSaved EXCEPT ![o] = Append(@, <<>>)]
         ELSE /\ rStatus' = [rStatus EXCEPT ![o] =
                   IF FileSize[o[1]] = 0 /\ stream # "open" THEN "failed" ELSE "transferring"]
              /\ UNCHANGED rSaved
  BY DEF R!Accepted, R!SetStatus
<1>2. /\ rStream'[o] = IF FileSize[o[1]] = 0 /\ stream = "open" THEN "closing" ELSE stream
      /\ rContent'[o] = <<>>
  BY <1>1 DEF IInv, Typed, ReceiverTyped
<1>3. rReceived[o] = 0 /\ rExpected[o] = 0 /\ rQueue[o] = <<>> /\ rSaved[o] = <<>>
  BY DEF Untouched
<1>4. Prefix(0) = <<>>
  BY DEF Prefix
<1>5. FileSize[o[1]] \in Nat
  BY ObjectFacts DEF IInv
<1>6. CASE FileSize[o[1]] = 0 /\ stream = "none"
  <2>1. rStatus'[o] = "completed" /\ rSaved'[o] = <<<<>>>>
    BY <1>1, <1>3, <1>6 DEF IInv, Typed, ReceiverTyped
  <2>2. Whole(o[1]) = <<>>
    BY <1>4, <1>6, WholeFacts
  <2>3. Over(o)'
    BY <1>2, <1>6, <2>1, <2>2 DEF Over, R!Active
  <2> QED BY <2>3 DEF Held
<1>7. CASE FileSize[o[1]] = 0 /\ stream = "open"
  <2>1. rSaved'[o] = <<>> /\ rQueue'[o] = <<>> /\ rExpected'[o] = 0
    BY <1>1, <1>3, <1>7
  <2>2. Whole(o[1]) = <<>>
    BY <1>4, <1>7, WholeFacts
  <2>3. OnClose(o)'
    BY <1>2, <1>7, <2>1, <2>2 DEF OnClose
  <2> QED BY <2>3 DEF Held
<1>8. CASE FileSize[o[1]] > 0
  <2>1. /\ rSaved'[o] = <<>> /\ rQueue'[o] = <<>> /\ rExpected'[o] = 0 /\ rReceived'[o] = 0
        /\ rStatus'[o] = "transferring" /\ rStream'[o] = stream
    BY <1>1, <1>2, <1>3, <1>8 DEF IInv, Typed, ReceiverTyped
  <2>2. Len(rQueue'[o]) = 0 /\ DOMAIN rQueue'[o] = {}
    BY <2>1
  <2>3. CASE stream = "open"
    <3>1. OnDisk(o)'
      BY <1>2, <1>4, <1>5, <1>8, <2>1, <2>2, <2>3 DEF OnDisk
    <3> QED BY <3>1 DEF Held
  <2>4. CASE stream = "none"
    <3>1. InMemory(o)'
      BY <1>2, <1>4, <1>8, <2>1, <2>4 DEF InMemory, R!Active
    <3> QED BY <3>1 DEF Held
  <2> QED BY <2>3, <2>4
<1> QED BY <1>5, <1>6, <1>7, <1>8

\* The next slice of the file arrives.
LEMMA ChunkHeld ==
  ASSUME IInv, NEW o \in Attempt, Held(o), NEW index \in Nat, NEW d \in Nat,
         d = index + 1, d <= FileSize[o[1]], R!HandleChunk(o, index, d), Unanswered(o)' => Unanswered(o)
  PROVE  Held(o)'
<1>0. /\ rReceived[o] \in Nat /\ rExpected[o] \in Nat /\ FileSize[o[1]] \in Nat
      /\ rQueue[o] \in Seq(Nat)
  BY ObjectFacts DEF IInv
<1>1. CASE R!IgnoreChunk(o, index)
  <2>1. ProgressSame(o) /\ ContentSame(o) /\ rStatus'[o] = rStatus[o]
    BY <1>1 DEF R!IgnoreChunk, R!receiverVars, R!objectVars, ProgressSame, ContentSame
  <2> QED BY <2>1, StatusHeld DEF R!Active
<1>2. CASE R!OutOfOrder(o, index)
  <2>1. ProgressSame(o) /\ ContentSame(o) /\ R!Active(o)
    BY <1>2 DEF R!OutOfOrder, ProgressSame, ContentSame
  <2> QED BY <2>1, StatusHeld
<1>3. CASE R!StoreChunk(o, index, d)
  <2>1. R!Active(o) /\ index = rExpected[o] /\ rExpected' = [rExpected EXCEPT ![o] = @ + 1]
    BY <1>3 DEF R!StoreChunk, R!InOrder
  <2>2. rExpected'[o] = rExpected[o] + 1
    BY <2>1 DEF IInv, Typed, ReceiverTyped
  <2>3. ~Unanswered(o) /\ ~Unanswered(o)'
    BY <2>1 DEF Held, Untouched
  <2>4. ~Over(o) /\ ~OnClose(o)
    BY <1>0, <2>1 DEF Over, OnClose
  <2>5. CASE OnDisk(o)
    <3>1. R!StoreOnDisk(o, d)
      BY <1>3, <2>5 DEF R!StoreChunk, OnDisk
    <3>2. /\ rQueue'[o] = Append(rQueue[o], d)
          /\ UNCHANGED <<rStatus, rReceived, rStream, rContent, rSaved>>
      BY <3>1 DEF R!StoreOnDisk, IInv, Typed, ReceiverTyped
    <3>3. /\ Len(rQueue'[o]) = Len(rQueue[o]) + 1 /\ rQueue'[o][Len(rQueue[o]) + 1] = d
          /\ \A i \in DOMAIN rQueue[o] : rQueue'[o][i] = rQueue[o][i]
          /\ \A i \in DOMAIN rQueue'[o] : i \in DOMAIN rQueue[o] \/ i = Len(rQueue[o]) + 1
      BY <1>0, <3>2, AppendFacts
    <3>4. rExpected[o] = rReceived[o] + Len(rQueue[o]) /\ Len(rQueue[o]) \in Nat
      BY <1>0, <2>5 DEF OnDisk
    <3>5. ASSUME NEW i \in DOMAIN rQueue'[o] PROVE rQueue'[o][i] = rReceived[o] + i
      <4>1. CASE i \in DOMAIN rQueue[o]
        BY <2>5, <3>3, <4>1 DEF OnDisk
      <4>2. CASE i = Len(rQueue[o]) + 1
        <5>1. d = rReceived[o] + (Len(rQueue[o]) + 1)
          BY <1>0, <2>1, <3>4
        <5> QED BY <3>3, <4>2, <5>1
      <4> QED BY <3>3, <4>1, <4>2
    <3>6. rExpected'[o] = rReceived[o] + Len(rQueue'[o]) /\ rExpected'[o] <= FileSize[o[1]]
      BY <1>0, <2>1, <2>2, <3>3, <3>4
    <3>7. /\ rStream'[o] = "open" /\ rSaved'[o] = <<>> /\ rReceived'[o] = rReceived[o]
          /\ rReceived[o] < FileSize[o[1]] /\ rContent'[o] = Prefix(rReceived[o])
      BY <2>5, <3>2 DEF OnDisk
    <3>8. OnDisk(o)'
      BY <3>5, <3>6, <3>7 DEF OnDisk
    <3> QED BY <2>3, <3>8 DEF Held
  <2>6. CASE InMemory(o)
    <3>1. R!StoreInMemory(o, d)
      BY <1>3, <2>6 DEF R!StoreChunk, InMemory
    <3>2. rReceived' = [rReceived EXCEPT ![o] = @ + 1] /\ UNCHANGED <<rQueue, rStream>>
      BY <3>1 DEF R!StoreInMemory, R!CountChunk
    <3>3. rReceived'[o] = rReceived[o] + 1
      BY <3>2 DEF IInv, Typed, ReceiverTyped
    <3>4. d = rReceived[o] + 1 /\ rContent[o] = Prefix(rReceived[o])
      BY <2>1, <2>6 DEF InMemory
    <3>5. PICK parts : parts = Append(rContent[o], d)
      OBVIOUS
    <3>6. parts = Prefix(rReceived[o] + 1)
      BY <1>0, <3>4, <3>5, PrefixFacts
    <3>7. CASE R!Full(o)
      <4>1. rReceived[o] + 1 = FileSize[o[1]]
        BY <1>0, <2>6, <3>7 DEF R!Full, InMemory
      <4>2. parts = Whole(o[1])
        BY <3>6, <4>1, WholeFacts
      <4>3. /\ rSaved' = [rSaved EXCEPT ![o] = Append(@, parts)]
            /\ rStatus' = [rStatus EXCEPT ![o] = "completed"]
        BY <3>1, <3>5, <3>7 DEF R!StoreInMemory, R!SetStatus
      <4>4. rSaved'[o] = Append(<<>>, parts) /\ rStatus'[o] = "completed"
        BY <2>6, <4>3 DEF InMemory, IInv, Typed, ReceiverTyped
      <4>5. rSaved'[o] = <<Whole(o[1])>>
        BY <4>2, <4>4
      <4>6. Over(o)'
        BY <2>6, <3>2, <4>4, <4>5 DEF Over, InMemory, R!Active
      <4> QED BY <2>3, <4>6 DEF Held
    <3>8. CASE ~R!Full(o)
      <4>1. rReceived[o] + 1 < FileSize[o[1]]
        BY <1>0, <3>8 DEF R!Full
      <4>2. rContent' = [rContent EXCEPT ![o] = parts] /\ UNCHANGED <<rSaved, rStatus>>
        BY <3>1, <3>5, <3>8 DEF R!StoreInMemory
      <4>3. rContent'[o] = Prefix(rReceived'[o])
        BY <3>3, <3>6, <4>2 DEF IInv, Typed, ReceiverTyped
      <4>4. InMemory(o)'
        BY <2>2, <2>6, <3>2, <3>3, <4>1, <4>2, <4>3 DEF InMemory, R!Active
      <4> QED BY <2>3, <4>4 DEF Held
    <3> QED BY <3>7, <3>8
  <2> QED BY <2>4, <2>5, <2>6 DEF Held
<1> QED BY <1>1, <1>2, <1>3 DEF R!HandleChunk

\* What a write, a close or an abort makes of it.
LEMMA WriteHeld ==
  ASSUME IInv, NEW o \in Attempt, Held(o), R!WriteDone(o), Unanswered(o)' => Unanswered(o)
  PROVE  Held(o)'
<1>0. /\ rReceived[o] \in Nat /\ rExpected[o] \in Nat /\ FileSize[o[1]] \in Nat
      /\ rQueue[o] \in Seq(Nat)
  BY ObjectFacts DEF IInv
<1>1. rQueue[o] # <<>> /\ rStream[o] = "open"
  BY DEF R!WriteDone, R!Writing
<1>2. OnDisk(o) /\ ~Unanswered(o)'
  BY <1>1 DEF Held, OnClose, InMemory, Over, Untouched
<1>3. PICK n, rest, got : n = rReceived[o] /\ rest = Tail(rQueue[o]) /\ got = rQueue[o][1]
  OBVIOUS
<1>4. /\ rest \in Seq(Nat) /\ Len(rest) + 1 = Len(rQueue[o]) /\ Len(rest) \in Nat
      /\ Head(rQueue[o]) = got /\ 1 \in DOMAIN rQueue[o]
      /\ \A i \in DOMAIN rest : i \in Nat /\ i + 1 \in DOMAIN rQueue[o] /\ rest[i] = rQueue[o][i + 1]
  BY <1>0, <1>1, <1>3
<1>5. /\ rExpected[o] = n + Len(rQueue[o]) /\ n < FileSize[o[1]] /\ rExpected[o] <= FileSize[o[1]]
      /\ rContent[o] = Prefix(n) /\ got = n + 1 /\ rSaved[o] = <<>>
      /\ \A i \in DOMAIN rQueue[o] : rQueue[o][i] = n + i
  BY <1>2, <1>3, <1>4 DEF OnDisk
<1>6. /\ rReceived' = [rReceived EXCEPT ![o] = @ + 1]
      /\ rContent' = [rContent EXCEPT ![o] = Append(@, Head(rQueue[o]))]
      /\ rQueue' = [rQueue EXCEPT ![o] = Tail(@)]
      /\ rStream' = [rStream EXCEPT ![o] = IF R!Full(o) THEN "closing" ELSE "open"]
      /\ UNCHANGED <<rStatus, rExpected, rSaved>>
  BY DEF R!WriteDone, R!CountChunk
<1>7. /\ rReceived'[o] = n + 1 /\ rContent'[o] = Append(Prefix(n), n + 1) /\ rQueue'[o] = rest
      /\ rStream'[o] = IF R!Full(o) THEN "closing" ELSE "open"
      /\ rExpected'[o] = rExpected[o] /\ rSaved'[o] = <<>>
  BY <1>3, <1>4, <1>5, <1>6 DEF IInv, Typed, ReceiverTyped
<1>8. rContent'[o] = Prefix(n + 1)
  BY <1>0, <1>3, <1>7, PrefixFacts
<1>9. CASE R!Full(o)
  <2>0. PICK size \in Nat, left \in Nat : size = FileSize[o[1]] /\ left = Len(rest)
    BY <1>0, <1>4
  <2>1. n + 1 = FileSize[o[1]] /\ Len(rest) = 0
    <3>1. n + 1 >= size /\ n < size /\ n \in Nat
      BY <1>0, <1>3, <1>5, <1>9, <2>0 DEF R!Full
    <3>2. n + (left + 1) <= size
      BY <1>4, <1>5, <2>0
    <3>3. n + 1 = size /\ left = 0
      BY <3>1, <3>2
    <3> QED BY <2>0, <3>3
  <2>2. rest = <<>> /\ rExpected[o] = FileSize[o[1]]
    BY <1>0, <1>3, <1>4, <1>5, <2>1
  <2>3. rContent'[o] = Whole(o[1])
    BY <1>8, <2>1, WholeFacts
  <2>4. OnClose(o)'
    BY <1>7, <1>9, <2>2, <2>3 DEF OnClose
  <2> QED BY <1>2, <2>4 DEF Held
<1>10. CASE ~R!Full(o)
  <2>1. n + 1 < FileSize[o[1]]
    BY <1>0, <1>3, <1>10 DEF R!Full
  <2>2. rExpected[o] = (n + 1) + Len(rest)
    BY <1>0, <1>3, <1>4, <1>5
  <2>3. ASSUME NEW i \in DOMAIN rest PROVE rest[i] = (n + 1) + i
    <3>1. i \in Nat /\ rest[i] = n + (i + 1)
      BY <1>4, <1>5
    <3>2. n \in Nat
      BY <1>0, <1>3
    <3> QED BY <3>1, <3>2
  <2>4. OnDisk(o)'
    BY <1>5, <1>7, <1>8, <1>10, <2>1, <2>2, <2>3 DEF OnDisk
  <2> QED BY <1>2, <2>4 DEF Held
<1> QED BY <1>9, <1>10

LEMMA DiskHeld ==
  ASSUME IInv, NEW o \in Attempt, Held(o), R!DiskStep(o) \/ R!DiskFault(o), Unanswered(o)' => Unanswered(o)
  PROVE  Held(o)'
<1>1. CASE R!WriteDone(o)
  BY <1>1, WriteHeld
<1>2. rStream[o] # "none"
  BY DEF R!DiskStep, R!DiskFault, R!WriteDone, R!WriteDoneAborted, R!CloseDone, R!AbortDone,
         R!WriteFails, R!CloseFails, R!Writing, R!Closing
<1>3. ~Unanswered(o)'
  BY <1>2 DEF Held, Untouched
<1>4. ASSUME R!Fail(o) PROVE ~R!Active(o)'
  BY <1>4 DEF R!Fail, R!Active, IInv, Typed, ReceiverTyped
<1>5. CASE R!WriteDoneAborted(o)
  <2>1. rStream[o] = "aborting" /\ UNCHANGED <<rStream, rSaved>> /\ (R!Fail(o) \/ UNCHANGED rStatus)
    BY <1>5 DEF R!WriteDoneAborted
  <2>2. Over(o)
    BY <2>1 DEF Held, OnDisk, OnClose, InMemory
  <2>3. Over(o)'
    BY <1>4, <2>1, <2>2 DEF Over, R!Active
  <2> QED BY <1>3, <2>3 DEF Held
<1>6. CASE R!WriteFails(o)
  <2>1. /\ rStream[o] \in {"open", "aborting"} /\ R!Fail(o) /\ UNCHANGED rSaved
        /\ rStream' = [rStream EXCEPT ![o] = IF @ = "open" THEN "errored" ELSE @]
    BY <1>6 DEF R!WriteFails, R!Writing
  <2>2. rStream'[o] \in {"errored", "aborting"}
    BY <2>1 DEF IInv, Typed, ReceiverTyped
  <2>3. rSaved[o] \in {<<>>, <<Whole(o[1])>>}
    BY DEF Held, OnDisk, OnClose, InMemory, Over
  <2>4. Over(o)'
    BY <1>4, <2>1, <2>2, <2>3 DEF Over
  <2> QED BY <1>3, <2>4 DEF Held
<1>7. CASE R!CloseFails(o)
  <2>1. /\ rStream[o] \in {"closing", "closingAborted"} /\ R!Fail(o) /\ UNCHANGED rSaved
        /\ rStream' = [rStream EXCEPT ![o] = "errored"] \/ rStream' = [rStream EXCEPT ![o] = "none"]
    BY <1>7 DEF R!CloseFails, R!Closing
  <2>2. rStream'[o] \in {"errored", "none"}
    BY <2>1 DEF IInv, Typed, ReceiverTyped
  <2>3. rSaved[o] \in {<<>>, <<Whole(o[1])>>}
    BY DEF Held, OnDisk, OnClose, InMemory, Over
  <2>4. Over(o)'
    BY <1>4, <2>1, <2>2, <2>3 DEF Over
  <2> QED BY <1>3, <2>4 DEF Held
<1>8. CASE R!AbortDone(o)
  <2>1. /\ rStream[o] = "aborting" /\ UNCHANGED <<rSaved, rStatus>>
        /\ rStream' = [rStream EXCEPT ![o] = "none"]
    BY <1>8 DEF R!AbortDone
  <2>2. Over(o) /\ rStream'[o] = "none"
    BY <2>1 DEF Held, OnDisk, OnClose, InMemory, IInv, Typed, ReceiverTyped
  <2>3. Over(o)'
    BY <2>1, <2>2 DEF Over, R!Active
  <2> QED BY <1>3, <2>3 DEF Held
<1>9. CASE R!CloseDone(o)
  <2>1. rStream[o] \in {"closing", "closingAborted"}
    BY <1>9 DEF R!CloseDone, R!Closing
  <2>2. rQueue[o] = <<>> /\ rContent[o] = Whole(o[1]) /\ rSaved[o] = <<>>
    BY <2>1 DEF Held, OnDisk, OnClose, InMemory, Over
  <2>3. PICK extra : extra = [i \in DOMAIN rQueue[o] |-> <<rQueue[o][i]>>]
    OBVIOUS
  <2>4. extra = <<>>
    BY <2>2, <2>3
  <2>5. /\ rSaved' = [rSaved EXCEPT ![o] = Append(@, rContent[o]) \o extra]
        /\ rStream' = [rStream EXCEPT ![o] = "none"]
        /\ rStatus' = [rStatus EXCEPT ![o] = "completed"]
    BY <1>9, <2>3 DEF R!CloseDone, R!SetStatus
  <2>6. rSaved'[o] = Append(<<>>, Whole(o[1])) \o <<>>
    BY <2>2, <2>4, <2>5 DEF IInv, Typed, ReceiverTyped
  <2>7. rSaved'[o] = <<Whole(o[1])>>
    BY <2>6
  <2>8. rStream'[o] = "none" /\ rStatus'[o] = "completed"
    BY <2>5 DEF IInv, Typed, ReceiverTyped
  <2>9. Over(o)'
    BY <2>7, <2>8 DEF Over, R!Active
  <2> QED BY <1>3, <2>9 DEF Held
<1> QED BY <1>1, <1>5, <1>6, <1>7, <1>8, <1>9 DEF R!DiskStep, R!DiskFault

-----------------------------------------------------------------------------
(* Every step keeps what the receivers have.                               *)

FieldsSame(o) ==
  /\ ProgressSame(o) /\ ContentSame(o)
  /\ rStatus'[o] = rStatus[o] /\ rPicking'[o] = rPicking[o]

\* A step of the receiver o alone.
Alone(o) == \A p \in Attempt : p # o => FieldsSame(p)

LEMMA SameHeld ==
  ASSUME NEW o \in Attempt, Held(o), FieldsSame(o), Unanswered(o)' => Unanswered(o)
  PROVE  Held(o)'
<1>1. R!Active(o)' => R!Active(o)
  BY DEF FieldsSame, R!Active
<1> QED BY <1>1, StatusHeld DEF FieldsSame

LEMMA AcceptedAlone ==
  ASSUME Typed, NEW o \in Attempt, NEW stream, NEW content, R!Accepted(o, stream, content)
  PROVE  \A p \in Attempt : p # o => ProgressSame(p) /\ ContentSame(p) /\ rStatus'[p] = rStatus[p]
<1>1. UNCHANGED <<rReceived, rExpected, rQueue>>
  BY DEF R!Accepted
<1>2. \A p \in Attempt : p # o => rStream'[p] = rStream[p] /\ rContent'[p] = rContent[p]
  BY DEF R!Accepted, Typed, ReceiverTyped
<1>3. \A p \in Attempt : p # o => rSaved'[p] = rSaved[p] /\ rStatus'[p] = rStatus[p]
  BY DEF R!Accepted, R!SetStatus, Typed, ReceiverTyped
<1> QED BY <1>1, <1>2, <1>3 DEF ProgressSame, ContentSame

LEMMA AnswersAlone ==
  ASSUME Typed, NEW o \in Attempt,
         R!Accept(o) \/ R!Reject(o) \/ R!PickFile(o) \/ R!PickFails(o) \/ R!PickCancelled(o)
  PROVE  Alone(o)
<1>1. CASE rPicking' = [rPicking EXCEPT ![o] = TRUE] /\ UNCHANGED <<rStatus, rReceived, rExpected, rQueue, rStream, rContent, rSaved>>
  BY <1>1 DEF Alone, FieldsSame, ProgressSame, ContentSame, Typed, ReceiverTyped
<1>2. ASSUME NEW stream, NEW content, R!Accepted(o, stream, content),
             UNCHANGED rPicking \/ rPicking' = [rPicking EXCEPT ![o] = FALSE]
      PROVE  Alone(o)
  BY <1>2, AcceptedAlone DEF Alone, FieldsSame, Typed, ReceiverTyped
<1>3. CASE R!Reject(o) \/ R!PickCancelled(o)
  <2>1. /\ rStatus' = [rStatus EXCEPT ![o] = "cancelled"]
        /\ UNCHANGED rPicking \/ rPicking' = [rPicking EXCEPT ![o] = FALSE]
        /\ UNCHANGED <<rReceived, rExpected, rQueue, rStream, rContent, rSaved>>
    BY <1>3 DEF R!Reject, R!PickCancelled, R!SetStatus
  <2> QED BY <2>1 DEF Alone, FieldsSame, ProgressSame, ContentSame, Typed, ReceiverTyped
<1>4. CASE R!Accept(o)
  BY <1>1, <1>2, <1>4 DEF R!Accept
<1>5. CASE R!PickFile(o) \/ R!PickFails(o)
  BY <1>2, <1>5 DEF R!PickFile, R!PickFails
<1> QED BY <1>3, <1>4, <1>5

LEMMA ChunkAlone ==
  ASSUME Typed, NEW o \in Attempt, NEW index, NEW d, R!HandleChunk(o, index, d)
  PROVE  Alone(o)
<1>1. CASE R!IgnoreChunk(o, index)
  BY <1>1 DEF R!IgnoreChunk, R!receiverVars, R!objectVars, Alone, FieldsSame, ProgressSame, ContentSame
<1>2. CASE R!OutOfOrder(o, index)
  BY <1>2 DEF R!OutOfOrder, R!Fail, Alone, FieldsSame, ProgressSame, ContentSame, Typed, ReceiverTyped
<1>3. CASE R!StoreChunk(o, index, d)
  <2>1. rExpected' = [rExpected EXCEPT ![o] = @ + 1] /\ UNCHANGED rPicking
    BY <1>3 DEF R!StoreChunk
  <2>2. R!StoreOnDisk(o, d) \/ R!StoreInMemory(o, d) \/ R!StoreFails(o)
    BY <1>3, ObjectFacts DEF R!StoreChunk, R!Stream
  <2>3. CASE R!StoreOnDisk(o, d)
    BY <2>1, <2>3 DEF R!StoreOnDisk, Alone, FieldsSame, ProgressSame, ContentSame, Typed, ReceiverTyped
  <2>4. CASE R!StoreFails(o)
    BY <2>1, <2>4 DEF R!StoreFails, R!Fail, Alone, FieldsSame, ProgressSame, ContentSame, Typed, ReceiverTyped
  <2>5. CASE R!StoreInMemory(o, d)
    <3>1. /\ \E parts : rContent' = [rContent EXCEPT ![o] = parts]
          /\ UNCHANGED rSaved \/ \E files : rSaved' = [rSaved EXCEPT ![o] = files]
          /\ UNCHANGED rStatus \/ rStatus' = [rStatus EXCEPT ![o] = "completed"]
          /\ rReceived' = [rReceived EXCEPT ![o] = @ + 1]
          /\ UNCHANGED <<rQueue, rStream>>
      BY <2>5 DEF R!StoreInMemory, R!CountChunk, R!SetStatus
    <3> QED BY <2>1, <3>1 DEF Alone, FieldsSame, ProgressSame, ContentSame, Typed, ReceiverTyped
  <2> QED BY <2>2, <2>3, <2>4, <2>5
<1> QED BY <1>1, <1>2, <1>3 DEF R!HandleChunk

LEMMA DiskAlone ==
  ASSUME Typed, NEW o \in Attempt, R!DiskStep(o) \/ R!DiskFault(o)
  PROVE  Alone(o)
<1> USE DEF Alone, FieldsSame, ProgressSame, ContentSame, Typed, ReceiverTyped
<1>1. CASE R!WriteDone(o)
  BY <1>1 DEF R!WriteDone, R!CountChunk
<1>2. CASE R!WriteDoneAborted(o)
  BY <1>2 DEF R!WriteDoneAborted, R!CountChunk, R!Fail
<1>3. CASE R!WriteFails(o)
  BY <1>3 DEF R!WriteFails, R!Fail
<1>4. CASE R!CloseFails(o)
  BY <1>4 DEF R!CloseFails, R!Fail
<1>5. CASE R!AbortDone(o)
  BY <1>5 DEF R!AbortDone
<1>6. CASE R!CloseDone(o)
  <2>1. /\ \E files : rSaved' = [rSaved EXCEPT ![o] = files]
        /\ \E n : rReceived' = [rReceived EXCEPT ![o] = n]
        /\ rStream' = [rStream EXCEPT ![o] = "none"] /\ rContent' = [rContent EXCEPT ![o] = <<>>]
        /\ rStatus' = [rStatus EXCEPT ![o] = "completed"] /\ rQueue' = [rQueue EXCEPT ![o] = <<>>]
        /\ UNCHANGED <<rExpected, rPicking>>
    BY <1>6 DEF R!CloseDone, R!SetStatus
  <2> QED BY <2>1
<1> QED BY <1>1, <1>2, <1>3, <1>4, <1>5, <1>6 DEF R!DiskStep, R!DiskFault

\* pause() and resume() of a receiver, and what stops several of them.
LEMMA PauseHeld ==
  ASSUME IInv, NEW o \in Attempt, NEW local, R!PauseReceiver(o, local) \/ R!ResumeReceiver(o, local),
         NEW p \in Attempt, Held(p), Unanswered(p)' => Unanswered(p)
  PROVE  Held(p)'
<1>1. /\ R!Active(o) /\ \E st : rStatus' = [rStatus EXCEPT ![o] = st]
      /\ UNCHANGED <<rReceived, rExpected, rQueue, rStream, rContent, rSaved>>
  BY DEF R!PauseReceiver, R!ResumeReceiver, R!SetStatus, R!Active
<1>2. R!Active(p)' => R!Active(p)
  BY <1>1 DEF R!Active, IInv, Typed, ReceiverTyped
<1>3. ProgressSame(p) /\ ContentSame(p)
  BY <1>1 DEF ProgressSame, ContentSame
<1> QED BY <1>2, <1>3, StatusHeld

LEMMA StopHeld ==
  ASSUME IInv, NEW T, R!StopReceivers(T), NEW p \in Attempt, Held(p), Unanswered(p)' => Unanswered(p)
  PROVE  Held(p)'
<1> DEFINE stopped == {o \in T : rStatus[o] \notin {"completed", "cancelled"}}
<1>1. /\ rStatus' = [o \in Attempt |-> IF o \in stopped THEN "cancelled" ELSE rStatus[o]]
      /\ rStream' = [o \in Attempt |->
           IF o \in stopped THEN R!DiscardedStream(rStream[o]) ELSE rStream[o]]
      /\ rContent' = [o \in Attempt |->
           IF o \in stopped /\ rStream[o] \in {"none", "errored"} THEN <<>> ELSE rContent[o]]
      /\ UNCHANGED <<rReceived, rExpected, rQueue, rSaved, rPicking>>
  BY DEF R!StopReceivers
<1> HIDE DEF stopped
<1>2. ProgressSame(p)
  BY <1>1 DEF ProgressSame
<1>3. CASE p \in stopped
  BY <1>1, <1>2, <1>3, DiscardHeld
<1>4. CASE p \notin stopped
  <2>1. FieldsSame(p)
    BY <1>1, <1>2, <1>4 DEF FieldsSame, ContentSame
  <2> QED BY <2>1, SameHeld
<1> QED BY <1>3, <1>4

\* Nobody is put off: the maps stay, no offer is shown and no dialog is opened.
LEMMA StillAnswered ==
  ASSUME NEW o, UNCHANGED <<byKey, byId>>, onScreen' \subseteq onScreen, rPicking'[o] => rPicking[o]
  PROVE  Unanswered(o)' => Unanswered(o)
BY DEF Unanswered, Routed

\* An offer is received once; the maps only grow.
LEMMA OfferReceived ==
  ASSUME IInv, ReceiverDelivery, Head(toReceiver).type = "offer"
  PROVE  \E k \in Attempt :
           /\ GetOffer(k) /\ byKey[k] = None /\ ~Routed(k)
           /\ \A a \in Attempt : a[1] = k[1] /\ byKey[a] # None => a[2] < k[2]
<1>1. PICK m : m = Head(toReceiver)
  OBVIOUS
<1>2. PICK k : k = m.key
  OBVIOUS
<1>3. toReceiver # <<>> /\ m.type = "offer" /\ ReceiverGets(m)
  BY <1>1 DEF ReceiverDelivery
<1>4. GetOffer(k)
  BY <1>2, <1>3 DEF ReceiverGets
<1>5. /\ k \in Attempt /\ byKey[k] = None /\ ~Routed(k)
      /\ \A a \in Attempt : a[1] = k[1] /\ byKey[a] # None => a[2] < k[2]
  BY <1>1, <1>2, <1>3, OfferFacts DEF IInv
<1> QED BY <1>4, <1>5

LEMMA MapsKept ==
  ASSUME [Next]_vars, ~(ReceiverDelivery /\ Head(toReceiver).type = "offer")
  PROVE  UNCHANGED <<byKey, byId>> /\ onScreen' \subseteq onScreen
BY DEF Next, Offer, SenderSteers, SenderCancelsAll, SenderCloses, SenderLosesChannel, SenderRuns,
       SenderDelivery, ReceiverDelivery, ReceiverGets, UserAccepts, UserRejects, DialogEnds, Disk,
       ReceiverSteers, ReceiverCancelsAll, ReceiverCloses, ReceiverLosesChannel, routing, vars

LEMMA MapsGrow ==
  ASSUME IInv, [Next]_vars, NEW k \in Attempt, byKey[k] # None
  PROVE  byKey'[k] = byKey[k]
<1>1. CASE ReceiverDelivery /\ Head(toReceiver).type = "offer"
  <2>1. PICK a \in Attempt : GetOffer(a) /\ byKey[a] = None
    BY <1>1, OfferReceived
  <2> QED BY <2>1 DEF GetOffer, IInv, Typed, RoutingTyped
<1>2. CASE ~(ReceiverDelivery /\ Head(toReceiver).type = "offer")
  BY <1>2, MapsKept
<1> QED BY <1>1, <1>2

LEMMA CleanBefore ==
  ASSUME IInv, [Next]_vars, NEW o \in Attempt, Clean(o)'
  PROVE  Clean(o)
<1>1. ASSUME NEW k \in Attempt, byKey[k] = o PROVE byKey'[k] = o
  BY <1>1, MapsGrow, AttemptFacts
<1>2. Rearmed(o) => Rearmed(o)'
  BY <1>1 DEF Rearmed
<1> QED BY <1>2, StartedOnceBefore DEF Clean

\* handleControl() on an offer: what it re-arms is not clean any more.
LEMMA OfferHeld ==
  ASSUME IInv, ReceiverDelivery, Head(toReceiver).type = "offer",
         NEW p \in Attempt, Held(p), ~Rearmed(p)'
  PROVE  Held(p)' /\ FieldsSame(p)
<1>1. PICK k \in Attempt : /\ GetOffer(k) /\ byKey[k] = None /\ ~Routed(k)
                           /\ \A a \in Attempt : a[1] = k[1] /\ byKey[a] # None => a[2] < k[2]
  BY OfferReceived
<1>2. PICK old : old = byId[k[1]]
  OBVIOUS
<1>3. PICK o : o = IF Rearms(old) THEN old ELSE k
  OBVIOUS
<1>4. o \in Attempt /\ o[1] = k[1] /\ (Rearms(old) => o # k)
  BY <1>1, <1>2, <1>3, OfferTaker DEF IInv
<1>5. /\ byKey' = [byKey EXCEPT ![k] = o] /\ byId' = [byId EXCEPT ![k[1]] = o]
      /\ onScreen' = onScreen \cup {k[1]}
      /\ IF Rearms(old) THEN R!PrepareRetry(o) ELSE UNCHANGED receiverSide
  BY <1>1, <1>2, <1>3 DEF GetOffer
<1>6. byKey'[k] = o
  BY <1>5 DEF IInv, Typed, RoutingTyped
<1>7. CASE p = o
  <2>1. ~Rearms(old) /\ p = k
    BY <1>3, <1>4, <1>6, <1>7 DEF Rearmed
  <2>2. FieldsSame(p)
    BY <1>5, <2>1 DEF receiverSide, objectVars, FieldsSame, ProgressSame, ContentSame
  <2>3. Unanswered(p)
    BY <1>1, <2>1 DEF Unanswered
  <2> QED BY <2>2, <2>3, SameHeld
<1>8. CASE p # o
  <2>1. FieldsSame(p)
    <3>1. CASE Rearms(old)
      BY <1>4, <1>5, <1>8, <3>1
      DEF R!PrepareRetry, R!SetStatus, FieldsSame, ProgressSame, ContentSame, IInv, Typed, ReceiverTyped
    <3>2. CASE ~Rearms(old)
      BY <1>5, <3>2 DEF receiverSide, objectVars, FieldsSame, ProgressSame, ContentSame
    <3> QED BY <3>1, <3>2
  <2>2. Unanswered(p)' => Unanswered(p)
    <3>1. Routed(p) => Routed(p)'
      BY <1>1, <1>5, AttemptFacts DEF Routed, IInv, Typed, RoutingTyped
    <3>2. byId' \in [Transfer -> Attempt \cup {None}] /\ byId'[k[1]] = o
      BY <1>4, <1>5, AttemptFacts DEF IInv, Typed, RoutingTyped
    <3>3. p[1] \in onScreen' /\ byId'[p[1]] = p => p[1] \in onScreen /\ byId[p[1]] = p
      BY <1>5, <1>8, <3>2 DEF IInv, Typed, RoutingTyped
    <3> QED BY <2>1, <3>1, <3>3 DEF Unanswered, FieldsSame
  <2> QED BY <2>1, <2>2, SameHeld
<1> QED BY <1>7, <1>8

\* handleChunk: a clean receiver gets the frames of its own FileSender alone.
LEMMA ChunkDelivered ==
  ASSUME IInv, ReceiverDelivery, NEW m, m = Head(toReceiver), m.type = "chunk",
         NEW p \in Attempt, byKey[m.key] = p, ~Rearmed(p)
  PROVE  /\ m.key = p /\ R!HandleChunk(p, m.index, m.data) /\ UNCHANGED <<byKey, byId, onScreen>>
         /\ 1 \in S!InBuffer(p) /\ toReceiver[1] = m
         /\ \A i \in S!InBuffer(p) : 1 <= i
<1>1. /\ toReceiver # <<>> /\ R!HandleChunk(p, m.index, m.data)
      /\ UNCHANGED <<byKey, byId, onScreen>>
  BY DEF ReceiverDelivery, ReceiverGets, ReceiverOfKey
<1>2. m \in ToReceiver /\ m = toReceiver[1] /\ 1 \in DOMAIN toReceiver
  BY <1>1, TailFacts DEF IInv, Typed, Messages
<1>3. m.key = p
  BY <1>2, MessageFacts DEF Rearmed
<1>4. 1 \in S!InBuffer(p)
  BY <1>2, <1>3 DEF S!InBuffer
<1> QED BY <1>1, <1>2, <1>3, <1>4, BufferFacts DEF IInv

LEMMA ReceiverDeliveryHeld ==
  ASSUME IInv, LabelInv, [Next]_vars, ReceiverDelivery, NEW p \in Attempt, Held(p), Clean(p), Clean(p)'
  PROVE  Held(p)'
<1>1. PICK m : m = Head(toReceiver)
  OBVIOUS
<1>2. toReceiver # <<>> /\ ReceiverGets(m)
  BY <1>1 DEF ReceiverDelivery
<1>3. CASE m.type = "offer"
  BY <1>1, <1>3, OfferHeld DEF Clean
<1>4. CASE m.type # "offer"
  <2>1. UNCHANGED <<byKey, byId, onScreen>>
    BY <1>2, <1>4 DEF ReceiverGets
  <2>2. CASE m.type = "chunk"
    <3>1. PICK o, index, d : o = byKey[m.key] /\ index = m.index /\ d = m.data
      OBVIOUS
    <3>2. R!HandleChunk(o, index, d)
      BY <1>2, <2>2, <3>1 DEF ReceiverGets, ReceiverOfKey
    <3>3. o \in Attempt
      BY <1>1, <1>2, <2>2, <3>1, HeadRouted DEF IInv
    <3>4. Alone(o)
      BY <3>2, <3>3, ChunkAlone DEF IInv
    <3>5. rPicking' = rPicking
      BY <3>2 DEF R!HandleChunk, R!IgnoreChunk, R!OutOfOrder, R!StoreChunk, R!receiverVars, R!objectVars
    <3>6. Unanswered(p)' => Unanswered(p)
      BY <2>1, <3>5, StillAnswered
    <3>7. CASE p # o
      BY <3>4, <3>6, <3>7, SameHeld DEF Alone
    <3>8. CASE p = o
      <4>1. 1 \in S!InBuffer(p) /\ toReceiver[1] = m
        BY <1>1, <2>2, <3>1, <3>8, ChunkDelivered DEF Clean
      <4>2. d = index + 1 /\ d <= FileSize[p[1]] /\ index \in Nat /\ d \in Nat
        BY <3>1, <4>1, BufferFacts DEF LabelInv, Gapless, Clean, IInv
      <4> QED BY <3>2, <3>6, <3>8, <4>2, ChunkHeld
    <3> QED BY <3>7, <3>8
  <2>3. CASE m.type = "cancel-all"
    <3>1. R!StopReceivers(Receivers)
      BY <1>2, <2>3 DEF ReceiverGets, R!CancelAllReceivers
    <3>2. Unanswered(p)' => Unanswered(p)
      BY <2>1, <3>1, StillAnswered DEF R!StopReceivers
    <3> QED BY <3>1, <3>2, StopHeld
  <2>4. CASE m.type \notin {"chunk", "cancel-all"}
    <3>1. PICK o : o = byId[m.key[1]]
      OBVIOUS
    <3>2. o \in Attempt
      BY <1>1, <1>2, <1>4, <2>4, <3>1, HeadRouted DEF IInv
    <3>3. OnReceiverPause(o) \/ OnReceiverResume(o) \/ OnReceiverCancel(o)
      BY <1>2, <1>4, <2>4, <3>1 DEF ReceiverGets
    <3>4. CASE UNCHANGED receiverSide
      <4>1. FieldsSame(p)
        BY <3>4 DEF receiverSide, objectVars, FieldsSame, ProgressSame, ContentSame
      <4>2. Unanswered(p)' => Unanswered(p)
        BY <2>1, <4>1, StillAnswered DEF FieldsSame
      <4> QED BY <4>1, <4>2, SameHeld
    <3>5. CASE R!PauseReceiver(o, FALSE) \/ R!ResumeReceiver(o, FALSE)
      <4>1. Unanswered(p)' => Unanswered(p)
        BY <2>1, <3>5, StillAnswered DEF R!PauseReceiver, R!ResumeReceiver
      <4> QED BY <3>2, <3>5, <4>1, PauseHeld
    <3>6. CASE R!CancelReceiver(o, FALSE)
      <4>1. R!StopReceivers({o})
        BY <3>6 DEF R!CancelReceiver
      <4>2. Unanswered(p)' => Unanswered(p)
        BY <2>1, <4>1, StillAnswered DEF R!StopReceivers
      <4> QED BY <4>1, <4>2, StopHeld
    <3> QED BY <3>3, <3>4, <3>5, <3>6 DEF OnReceiverPause, OnReceiverResume, OnReceiverCancel
  <2> QED BY <2>2, <2>3, <2>4
<1> QED BY <1>3, <1>4

\* A step that leaves the receivers alone.
LEMMA UntouchedHeld ==
  ASSUME UNCHANGED <<rStatus, rReceived, rExpected, rQueue, rStream, rContent, rSaved, rPicking, byKey, byId>>,
         onScreen' \subseteq onScreen, NEW p \in Attempt, Held(p)
  PROVE  Held(p)'
<1>1. FieldsSame(p)
  BY DEF FieldsSame, ProgressSame, ContentSame
<1>2. Unanswered(p)' => Unanswered(p)
  BY StillAnswered
<1> QED BY <1>1, <1>2, SameHeld

\* acceptFileOffer() and rejectFileOffer(): the offer on the screen is not answered yet.
LEMMA AnswerHeld ==
  ASSUME IInv, NEW t \in Transfer, UserAccepts(t) \/ UserRejects(t),
         NEW p \in Attempt, Held(p), ~Rearmed(p)
  PROVE  Held(p)'
<1>1. PICK q : q = byId[t]
  OBVIOUS
<1>2. /\ t \in onScreen /\ onScreen' = onScreen \ {t} /\ UNCHANGED <<byKey, byId>>
      /\ R!Accept(q) \/ R!Reject(q)
  BY <1>1 DEF UserAccepts, UserRejects
<1>3. q \in Attempt /\ q[1] = t /\ Routed(q)
  BY <1>1, <1>2, ShownFacts DEF IInv, Routes, MapInv
<1>4. CASE p # q
  <2>1. FieldsSame(p)
    BY <1>2, <1>3, <1>4, AnswersAlone DEF Alone, IInv
  <2>2. Unanswered(p)' => Unanswered(p)
    BY <1>2, <2>1, StillAnswered DEF FieldsSame
  <2> QED BY <2>1, <2>2, SameHeld
<1>5. CASE p = q
  <2>1. Unanswered(p) /\ Untouched(p)
    BY <1>1, <1>2, <1>3, <1>5 DEF Held, Unanswered
  <2>2. ~rPicking[p] /\ rStream[p] = "none" /\ rContent[p] = <<>>
    BY <1>1, <1>2, <1>5, <2>1 DEF IInv, StreamInv, Fresh, Untouched
  <2>3. CASE R!Reject(q)
    <3>1. ProgressSame(p) /\ ContentSame(p)
      BY <2>3 DEF R!Reject, ProgressSame, ContentSame
    <3>2. ~R!Active(p)'
      BY <1>5, <2>3 DEF R!Reject, R!SetStatus, R!Active, IInv, Typed, ReceiverTyped
    <3> QED BY <2>1, <3>1, <3>2, StatusHeld
  <2>4. CASE R!Accept(q) /\ HasPicker
    <3>1. ProgressSame(p) /\ ContentSame(p) /\ rStatus' = rStatus
      BY <1>5, <2>2, <2>4 DEF R!Accept, ProgressSame, ContentSame
    <3> QED BY <2>1, <3>1, StatusHeld DEF R!Active
  <2>5. CASE R!Accept(q) /\ ~HasPicker
    <3>1. R!Accepted(p, "none", <<>>) /\ rPicking' = rPicking
      BY <1>5, <2>2, <2>5 DEF R!Accept
    <3>2. ~Unanswered(p)'
      BY <1>2, <1>3, <1>5, <2>2, <3>1 DEF Unanswered, Routed
    <3> QED BY <2>1, <3>1, <3>2, AcceptedHeld
  <2> QED BY <1>2, <2>3, <2>4, <2>5
<1> QED BY <1>4, <1>5

\* The save dialog ends: no file was chosen yet.
LEMMA DialogHeld ==
  ASSUME IInv, NEW q \in Attempt, DialogEnds(q), NEW p \in Attempt, Held(p), ~Rearmed(p)
  PROVE  Held(p)'
<1>1. /\ rPicking[q] /\ rPicking' = [rPicking EXCEPT ![q] = FALSE]
      /\ R!PickFile(q) \/ R!PickFails(q) \/ R!PickCancelled(q)
      /\ UNCHANGED <<byKey, byId, onScreen>>
  BY DEF DialogEnds, R!PickFile, R!PickFails, R!PickCancelled, routing
<1>2. rPicking' \in [Attempt -> BOOLEAN] /\ ~rPicking'[q]
  BY <1>1 DEF IInv, Typed, ReceiverTyped
<1>3. rPicking'[p] => rPicking[p]
  BY <1>1, <1>2 DEF IInv, Typed, ReceiverTyped
<1>4. Unanswered(p)' => Unanswered(p)
  BY <1>1, <1>3, StillAnswered
<1>5. CASE p # q
  <2>1. ProgressSame(p) /\ ContentSame(p) /\ rStatus'[p] = rStatus[p]
    BY <1>1, <1>5, AnswersAlone DEF Alone, FieldsSame, IInv
  <2> QED BY <1>4, <2>1, StatusHeld DEF R!Active
<1>6. CASE p = q
  <2>1. Untouched(p)
    BY <1>1, <1>6 DEF Held, Unanswered
  <2>2. rStream[p] = "none" /\ rContent[p] = <<>>
    BY <2>1 DEF Untouched
  <2>3. ~Unanswered(p)'
    <3>1. Routed(p)
      BY <1>1, <1>6 DEF IInv, StreamInv, Fresh
    <3>2. ~(p[1] \in onScreen /\ byId[p[1]] = p)
      BY <1>1, <1>6 DEF IInv, StreamInv, Fresh
    <3> QED BY <1>1, <1>2, <1>6, <3>1, <3>2 DEF Unanswered, Routed
  <2>4. CASE R!PickCancelled(q)
    <3>1. ProgressSame(p) /\ ContentSame(p)
      BY <2>4 DEF R!PickCancelled, ProgressSame, ContentSame
    <3>2. ~R!Active(p)'
      BY <1>6, <2>4 DEF R!PickCancelled, R!SetStatus, R!Active, IInv, Typed, ReceiverTyped
    <3> QED BY <1>4, <3>1, <3>2, StatusHeld
  <2>5. CASE R!PickFile(q)
    <3>1. R!Accepted(p, "open", <<>>)
      BY <1>6, <2>5 DEF R!PickFile
    <3> QED BY <2>1, <2>3, <3>1, AcceptedHeld
  <2>6. CASE R!PickFails(q)
    <3>1. R!Accepted(p, "none", <<>>)
      BY <1>6, <2>2, <2>6 DEF R!PickFails
    <3> QED BY <2>1, <2>3, <3>1, AcceptedHeld
  <2> QED BY <1>1, <2>4, <2>5, <2>6
<1> QED BY <1>5, <1>6

LEMMA DiskStepHeld ==
  ASSUME IInv, NEW q \in Attempt, Disk(q), NEW p \in Attempt, Held(p)
  PROVE  Held(p)'
<1>1. (R!DiskStep(q) \/ R!DiskFault(q)) /\ UNCHANGED <<byKey, byId, onScreen>>
  BY DEF Disk, routing
<1>2. rPicking' = rPicking
  BY <1>1 DEF R!DiskStep, R!DiskFault, R!WriteDone, R!WriteDoneAborted, R!CloseDone, R!AbortDone,
              R!WriteFails, R!CloseFails
<1>3. Unanswered(p)' => Unanswered(p)
  BY <1>1, <1>2, StillAnswered
<1>4. CASE p = q
  BY <1>1, <1>3, <1>4, DiskHeld
<1>5. CASE p # q
  BY <1>1, <1>3, <1>5, DiskAlone, SameHeld DEF Alone, IInv
<1> QED BY <1>4, <1>5

\* pause, resume and cancel of the receiving user, and close() of its session.
LEMMA SteeringHeld ==
  ASSUME IInv, ReceiverCancelsAll \/ ReceiverCloses \/ \E t \in Transfer : ReceiverSteers(t),
         NEW p \in Attempt, Held(p)
  PROVE  Held(p)'
<1>1. CASE ReceiverCloses
  <2>1. /\ UNCHANGED <<rReceived, rExpected, rQueue, rStream, rContent, rSaved, rPicking,
                       byKey, byId, onScreen>>
        /\ rStatus'[p] \in {rStatus[p], "failed"}
    BY <1>1 DEF ReceiverCloses
  <2>2. ProgressSame(p) /\ ContentSame(p) /\ (R!Active(p)' => R!Active(p))
    BY <2>1 DEF ProgressSame, ContentSame, R!Active
  <2>3. Unanswered(p)' => Unanswered(p)
    BY <2>1, StillAnswered
  <2> QED BY <2>2, <2>3, StatusHeld
<1>2. CASE ReceiverCancelsAll
  <2>1. R!StopReceivers(Receivers) /\ UNCHANGED <<byKey, byId, onScreen>>
    BY <1>2 DEF ReceiverCancelsAll, R!CancelAllReceivers, routing
  <2>2. Unanswered(p)' => Unanswered(p)
    BY <2>1, StillAnswered DEF R!StopReceivers
  <2> QED BY <2>1, <2>2, StopHeld
<1>3. ASSUME NEW t \in Transfer, ReceiverSteers(t) PROVE Held(p)'
  <2>1. PICK o : o = byId[t]
    OBVIOUS
  <2>2. /\ o # None /\ UNCHANGED <<byKey, byId, onScreen>>
        /\ R!PauseReceiver(o, TRUE) \/ R!ResumeReceiver(o, TRUE) \/ R!CancelReceiver(o, TRUE)
    BY <1>3, <2>1 DEF ReceiverSteers, routing
  <2>3. o \in Attempt
    BY <2>1, <2>2, ShownFacts DEF IInv
  <2>4. CASE R!PauseReceiver(o, TRUE) \/ R!ResumeReceiver(o, TRUE)
    <3>1. Unanswered(p)' => Unanswered(p)
      BY <2>2, <2>4, StillAnswered DEF R!PauseReceiver, R!ResumeReceiver
    <3> QED BY <2>3, <2>4, <3>1, PauseHeld
  <2>5. CASE R!CancelReceiver(o, TRUE)
    <3>1. R!StopReceivers({o})
      BY <2>5 DEF R!CancelReceiver
    <3>2. Unanswered(p)' => Unanswered(p)
      BY <2>2, <3>1, StillAnswered DEF R!StopReceivers
    <3> QED BY <3>1, <3>2, StopHeld
  <2> QED BY <2>2, <2>4, <2>5
<1> QED BY <1>1, <1>2, <1>3

LEMMA WholeStep ==
  ASSUME IInv, LabelInv, WholeInv, [Next]_vars
  PROVE  WholeInv'
<1> SUFFICES ASSUME NEW p \in Attempt, Clean(p)'
             PROVE  Held(p)'
  BY DEF WholeInv
<1>1. Clean(p) /\ Held(p) /\ ~Rearmed(p)
  BY CleanBefore DEF WholeInv, Clean
<1>2. CASE \/ \E t \in Transfer : Offer(t) \/ SenderSteers(t)
           \/ \E r \in S!Run : SenderRuns(r)
           \/ SenderCancelsAll \/ SenderDelivery \/ SenderCloses \/ SenderLosesChannel
           \/ ReceiverLosesChannel \/ UNCHANGED vars
  <2>1. UNCHANGED <<rStatus, rReceived, rExpected, rQueue, rStream, rContent, rSaved, rPicking,
                    byKey, byId, onScreen>>
    BY <1>2 DEF Offer, SenderSteers, SenderRuns, SenderCancelsAll, SenderDelivery, SenderCloses,
                SenderLosesChannel, ReceiverLosesChannel, receiverSide, objectVars, routing, vars
  <2> QED BY <1>1, <2>1, UntouchedHeld
<1>3. CASE \E t \in Transfer : UserAccepts(t) \/ UserRejects(t)
  BY <1>1, <1>3, AnswerHeld
<1>4. CASE \E q \in Attempt : DialogEnds(q)
  BY <1>1, <1>4, DialogHeld
<1>5. CASE \E q \in Attempt : Disk(q)
  BY <1>1, <1>5, DiskStepHeld
<1>6. CASE ReceiverCancelsAll \/ ReceiverCloses \/ \E t \in Transfer : ReceiverSteers(t)
  BY <1>1, <1>6, SteeringHeld
<1>7. CASE ReceiverDelivery
  BY <1>1, <1>7, ReceiverDeliveryHeld
<1> QED BY <1>2, <1>3, <1>4, <1>5, <1>6, <1>7 DEF Next

LEMMA LabelAndWholeInit ==
  ASSUME Init
  PROVE  LabelInv /\ WholeInv
<1>1. /\ sOffset = [k \in Attempt |-> 0] /\ sIndex = [k \in Attempt |-> 0]
      /\ stage = [r \in S!Run |-> "idle"] /\ toReceiver = <<>>
  BY DEF Init, S!Init
<1>2. \A k : S!InBuffer(k) = {}
  BY <1>1 DEF S!InBuffer
<1>3. \A k \in Attempt : Gapless(k) /\ Aligned(k)
  BY <1>1, <1>2 DEF Gapless, Aligned, Slicing
<1>4. \A o \in Attempt : Untouched(o) /\ Over(o)
  BY DEF Init, R!InitReceiver, Untouched, Over, R!Active
<1> QED BY <1>3, <1>4 DEF LabelInv, WholeInv, Held

\* Whatever is lost, paused, cancelled, retried or accepted late: a receiver hands its user
\* the whole file or nothing, and no receiver does so twice (see the asides of SavedIsWhole).
THEOREM TransferSavedIsWhole == Spec => []SavedIsWhole
<1>1. Init => LabelInv /\ WholeInv
  BY LabelAndWholeInit
<1>2. IInv /\ LabelInv /\ WholeInv /\ [Next]_vars => LabelInv' /\ WholeInv'
  BY LabelStep, WholeStep
<1>3. IInv /\ WholeInv => SavedIsWhole
  <2> SUFFICES ASSUME WholeInv, NEW o \in Attempt, Clean(o)
               PROVE  rSaved[o] \in {<<>>, <<Whole(o[1])>>}
    BY DEF SavedIsWhole, Clean
  <2> QED BY DEF WholeInv, Held, OnDisk, OnClose, InMemory, Over
<1> QED BY <1>1, <1>2, <1>3, FileTransferInductive, PTL DEF Spec

-----------------------------------------------------------------------------
(* How the frames meet the receiver.                                       *)

\* The accept of a receiver that has nothing yet is on its way.
Accepting(k) ==
  \E i \in DOMAIN toSender :
    toSender[i].type = "accept" /\ toSender[i].id = k[1] /\ toSender[i].bytes = 0

\* The oldest frame on the way, or else the next one to be sent, is the one expected.
Fits(k) ==
  /\ \A i \in S!InBuffer(k) :
       (\A j \in S!InBuffer(k) : i <= j) => toReceiver[i].index = rExpected[k]
  /\ S!InBuffer(k) = {} => sIndex[k] = rExpected[k]

\* The newest FileSender of a transfer and its own receiver, both connected.
Linked(k) == senderOpen /\ receiverOpen /\ k = SenderOf(k[1]) /\ Clean(k) /\ byKey[k] = k

FitInv ==
  \A k \in Attempt :
    /\ Clean(k) /\ Unstarted(k) => rExpected[k] = 0
    /\ Linked(k) /\ R!Active(k) => Accepting(k) \/ (~Unstarted(k) /\ Fits(k))

LEMMA FitsSame ==
  ASSUME NEW k \in Attempt, Fits(k), rExpected'[k] = rExpected[k], sIndex'[k] = sIndex[k],
         S!InBuffer(k)' = S!InBuffer(k), \A i \in S!InBuffer(k) : toReceiver'[i] = toReceiver[i]
  PROVE  Fits(k)'
BY DEF Fits

LEMMA FitsAppended ==
  ASSUME Typed, NEW k \in Attempt, Gapless(k), Fits(k), rExpected'[k] = rExpected[k],
         sIndex'[k] = sIndex[k] + 1, sIndex[k] + 1 <= FileSize[k[1]],
         toReceiver' = Append(toReceiver, S!Chunk(k, sIndex[k], sIndex[k] + 1))
  PROVE  Fits(k)'
<1>1. PICK last : last = Len(toReceiver) + 1
  OBVIOUS
<1>2. /\ S!InBuffer(k)' = S!InBuffer(k) \cup {last}
      /\ \A i \in S!InBuffer(k) : i < last /\ toReceiver'[i] = toReceiver[i]
      /\ toReceiver'[last].index = sIndex[k]
  BY <1>1, FrameAppended
<1>3. last \in Nat /\ \A i \in S!InBuffer(k) : i \in Nat
  BY <1>1, BufferFacts
<1>4. ASSUME NEW i \in S!InBuffer(k)', \A j \in S!InBuffer(k)' : i <= j
      PROVE  toReceiver'[i].index = rExpected[k]
  <2>1. CASE i = last
    <3>1. S!InBuffer(k) = {}
      BY <1>2, <1>3, <1>4, <2>1
    <3> QED BY <1>2, <2>1, <3>1 DEF Fits
  <2>2. CASE i # last
    <3>1. i \in S!InBuffer(k) /\ \A j \in S!InBuffer(k) : i <= j
      BY <1>2, <1>4, <2>2
    <3> QED BY <1>2, <3>1 DEF Fits
  <2> QED BY <2>1, <2>2
<1> QED BY <1>2, <1>4 DEF Fits

\* The oldest message leaves; if it was a frame of k, the receiver took it.
LEMMA FitsTaken ==
  ASSUME Typed, NEW k \in Attempt, Gapless(k), Fits(k), toReceiver # <<>>, toReceiver' = Tail(toReceiver),
         sIndex'[k] = sIndex[k],
         rExpected'[k] = IF 1 \in S!InBuffer(k) THEN rExpected[k] + 1 ELSE rExpected[k]
  PROVE  Fits(k)'
<1>1. /\ \A i \in S!InBuffer(k)' :
           i \in Nat /\ i + 1 \in S!InBuffer(k) /\ toReceiver'[i] = toReceiver[i + 1]
      /\ \A h \in S!InBuffer(k) : h # 1 => h - 1 \in S!InBuffer(k)'
  BY OldestLeaves
<1>2. \A h \in S!InBuffer(k) : h \in Nat /\ 1 <= h
  BY BufferFacts
<1>3. ASSUME NEW i \in S!InBuffer(k)', \A j \in S!InBuffer(k)' : i <= j
      PROVE  \A h \in S!InBuffer(k) : h = 1 \/ i + 1 <= h
  <2>1. i \in Nat
    BY <1>1
  <2> QED BY <1>1, <1>2, <1>3, <2>1
<1>4. CASE 1 \notin S!InBuffer(k)
  <2>1. ASSUME NEW i \in S!InBuffer(k)', \A j \in S!InBuffer(k)' : i <= j
        PROVE  toReceiver'[i].index = rExpected'[k]
    BY <1>1, <1>3, <1>4, <2>1 DEF Fits
  <2>2. S!InBuffer(k)' = {} => S!InBuffer(k) = {}
    BY <1>1, <1>4
  <2> QED BY <1>4, <2>1, <2>2 DEF Fits
<1>5. CASE 1 \in S!InBuffer(k)
  <2>1. toReceiver[1].index = rExpected[k] /\ rExpected'[k] = rExpected[k] + 1
    BY <1>2, <1>5 DEF Fits
  <2>2. ASSUME NEW i \in S!InBuffer(k)', \A j \in S!InBuffer(k)' : i <= j
        PROVE  toReceiver'[i].index = rExpected'[k]
    <3>1. i + 1 \in S!InBuffer(k) /\ 1 < i + 1
      <4>1. i \in Nat /\ i \in 1..Len(toReceiver')
        BY <1>1 DEF S!InBuffer
      <4> QED BY <1>1, <4>1
    <3>2. S!Follows(k, 1, i + 1)
      BY <1>2, <1>3, <2>2, <3>1 DEF S!Follows
    <3>3. toReceiver[i + 1].index = toReceiver[1].index + 1
      BY <1>5, <3>1, <3>2 DEF Gapless
    <3> QED BY <1>1, <2>1, <3>3
  <2>3. ASSUME S!InBuffer(k)' = {} PROVE sIndex'[k] = rExpected'[k]
    <3>1. \A j \in S!InBuffer(k) : j <= 1
      BY <1>1, <2>3
    <3> QED BY <1>5, <2>1, <3>1 DEF Gapless
  <2> QED BY <2>2, <2>3 DEF Fits
<1> QED BY <1>4, <1>5

\* Steps of the sending side.
LEMMA SendingFits ==
  ASSUME IInv, LabelInv, [Next]_vars, ~ReceiverDelivery, NEW k \in Attempt, S!StartedOnce(k), S!StartedOnce(k)',
         ~Unstarted(k), Fits(k), rExpected'[k] = rExpected[k]
  PROVE  Fits(k)'
<1>0. Gapless(k)
  BY DEF LabelInv
<1>1. ASSUME UNCHANGED toReceiver, sIndex'[k] = sIndex[k] PROVE Fits(k)'
  <2>1. S!InBuffer(k)' = S!InBuffer(k)
    BY <1>1 DEF S!InBuffer
  <2> QED BY <1>1, <2>1, FitsSame
<1>2. ASSUME NEW m \in ToReceiver, toReceiver' = Append(toReceiver, m), ~(m.type = "chunk" /\ m.key = k),
             sIndex'[k] = sIndex[k]
      PROVE  Fits(k)'
  BY <1>2, OthersAppended, FitsSame DEF IInv
<1>3. CASE NoFrame
  BY <1>1, <1>2, <1>3 DEF NoFrame
<1>4. CASE StartDelivered
  <2>1. PICK q \in Attempt, from \in Nat : S!Start(q, from)
    BY <1>4, AcceptFacts
  <2>2. k # q
    BY <2>1, FirstStart DEF IInv
  <2> QED BY <1>1, <2>1, <2>2, FirstStart DEF IInv
<1>5. ASSUME NEW r \in S!Run, SliceTaken(r) PROVE Fits(k)'
  <2>1. UNCHANGED <<sIndex, toReceiver>>
    BY <1>5 DEF SliceTaken, S!Read, S!StepUnchanged
  <2> QED BY <1>1, <2>1
<1>6. ASSUME NEW r \in S!Run, FrameSent(r) PROVE Fits(k)'
  <2>1. S!SendChunk(r)
    BY <1>6 DEF FrameSent
  <2>2. CASE r[1] = k
    BY <1>0, <2>1, <2>2, FrameFacts, FitsAppended DEF IInv
  <2>3. CASE r[1] # k
    <3>1. PICK q \in Attempt : q = r[1]
      BY RunFacts
    <3>2. PICK m : m = S!Chunk(q, sIndex[q], readEnd[r])
      OBVIOUS
    <3>3. m \in ToReceiver /\ m.key = q
      BY <3>2, MessagesMade DEF IInv, Typed, SenderTyped
    <3>4. toReceiver' = Append(toReceiver, m) /\ sIndex' = [sIndex EXCEPT ![q] = @ + 1]
      BY <2>1, <3>1, <3>2 DEF S!SendChunk
    <3>5. sIndex'[k] = sIndex[k]
      BY <2>3, <3>1, <3>4 DEF IInv, Typed, SenderTyped
    <3> QED BY <1>2, <2>3, <3>1, <3>3, <3>4, <3>5
  <2> QED BY <2>2, <2>3
<1> QED BY <1>3, <1>4, <1>5, <1>6, Moves

\* The accept of a receiver that has nothing yet.
LEMMA AcceptedTells ==
  ASSUME IInv, NEW k \in Attempt, rReceived[k] = 0, senderOpen, receiverOpen,
         NEW stream, NEW content, R!Accepted(k, stream, content)
  PROVE  Accepting(k)' /\ UNCHANGED rExpected
<1>1. PICK m : m = R!ReplyBytes("accept", k, rReceived[k])
  OBVIOUS
<1>2. m.type = "accept" /\ m.id = k[1] /\ m.bytes = 0 /\ m \in ToSender
  BY <1>1, RepliesMade
<1>3. R!Reply("complete", k) \in ToSender
  BY RepliesMade
<1>4. UNCHANGED rExpected /\ (R!Tell(<<m>>) \/ R!Tell(<<m, R!Reply("complete", k)>>))
  BY <1>1 DEF R!Accepted
<1>5. PICK ms \in Seq(ToSender) : Len(ms) >= 1 /\ ms[1] = m /\ toSender' = toSender \o ms
  <2>1. PICK n \in ToSender : n = R!Reply("complete", k)
    BY <1>3
  <2>2. /\ <<m>> \in Seq(ToSender) /\ Len(<<m>>) = 1 /\ <<m>>[1] = m
        /\ <<m, n>> \in Seq(ToSender) /\ Len(<<m, n>>) = 2 /\ <<m, n>>[1] = m
    BY <1>2
  <2>3. toSender' = toSender \o <<m>> \/ toSender' = toSender \o <<m, n>>
    BY <1>4, <2>1 DEF R!Tell
  <2>4. ASSUME NEW xs \in Seq(ToSender), Len(xs) \in {1, 2}, xs[1] = m, toSender' = toSender \o xs
        PROVE  \E ms \in Seq(ToSender) : Len(ms) >= 1 /\ ms[1] = m /\ toSender' = toSender \o ms
    BY <2>4
  <2> QED BY <2>2, <2>3, <2>4
<1>6. toSender \in Seq(ToSender)
  BY DEF IInv, Typed, Replies
<1>7. Len(toSender) + 1 \in DOMAIN toSender' /\ toSender'[Len(toSender) + 1] = m
  BY <1>5, <1>6
<1> QED BY <1>2, <1>4, <1>7 DEF Accepting

\* What is expected changes with a chunk alone, and only accept() makes a receiver take chunks.
Settling(k) == rExpected'[k] = rExpected[k] /\ (R!Active(k)' => R!Active(k))

LEMMA SameSettles ==
  ASSUME NEW k \in Attempt, FieldsSame(k)
  PROVE  Settling(k)
BY DEF FieldsSame, ProgressSame, Settling, R!Active

LEMMA SteeringSettles ==
  ASSUME IInv, NEW k \in Attempt,
         \/ \E T : R!StopReceivers(T)
         \/ \E o \in Attempt : \E local : R!PauseReceiver(o, local) \/ R!ResumeReceiver(o, local)
  PROVE  Settling(k)
<1>1. ASSUME NEW T, R!StopReceivers(T) PROVE Settling(k)
  <2>1. UNCHANGED rExpected /\ rStatus'[k] \in {rStatus[k], "cancelled"}
    BY <1>1 DEF R!StopReceivers
  <2> QED BY <2>1 DEF Settling, R!Active
<1>2. ASSUME NEW o \in Attempt, NEW local, R!PauseReceiver(o, local) \/ R!ResumeReceiver(o, local)
      PROVE  Settling(k)
  BY <1>2 DEF R!PauseReceiver, R!ResumeReceiver, R!SetStatus, Settling, R!Active, IInv, Typed, ReceiverTyped
<1> QED BY <1>1, <1>2

LEMMA AnswerSettles ==
  ASSUME IInv, NEW q \in Attempt, senderOpen, receiverOpen, NEW k \in Attempt, Untouched(k) \/ k # q,
         R!Accept(q) \/ R!Reject(q) \/ R!PickFile(q) \/ R!PickFails(q) \/ R!PickCancelled(q)
  PROVE  rExpected'[k] = rExpected[k] /\ (R!Active(k)' => R!Active(k) \/ Accepting(k)')
<1>1. CASE k # q
  <2>1. FieldsSame(k)
    BY <1>1, AnswersAlone DEF Alone, IInv
  <2> QED BY <2>1, SameSettles DEF Settling
<1>2. CASE k = q
  <2>1. rReceived[k] = 0
    BY <1>2 DEF Untouched
  <2>2. ASSUME NEW stream, NEW content, R!Accepted(k, stream, content)
        PROVE  Accepting(k)' /\ UNCHANGED rExpected
    BY <2>1, <2>2, AcceptedTells
  <2>3. CASE UNCHANGED <<rStatus, rExpected>>
    BY <2>3 DEF R!Active
  <2>4. CASE R!Reject(q) \/ R!PickCancelled(q)
    BY <1>2, <2>4 DEF R!Reject, R!PickCancelled, R!SetStatus, R!Active, IInv, Typed, ReceiverTyped
  <2>5. CASE R!Accept(q) \/ R!PickFile(q) \/ R!PickFails(q)
    <3>1. UNCHANGED <<rStatus, rExpected>> \/ \E stream, content : R!Accepted(k, stream, content)
      BY <1>2, <2>5 DEF R!Accept, R!PickFile, R!PickFails
    <3> QED BY <2>2, <2>3, <3>1
  <2> QED BY <2>4, <2>5
<1> QED BY <1>1, <1>2

LEMMA DiskSettles ==
  ASSUME IInv, NEW q \in Attempt, R!DiskStep(q) \/ R!DiskFault(q), NEW k \in Attempt
  PROVE  Settling(k)
<1>1. UNCHANGED rExpected
  BY DEF R!DiskStep, R!DiskFault, R!WriteDone, R!WriteDoneAborted, R!CloseDone, R!AbortDone,
         R!WriteFails, R!CloseFails
<1>2. UNCHANGED rStatus \/ R!Fail(q) \/ rStatus' = [rStatus EXCEPT ![q] = "completed"]
  BY DEF R!DiskStep, R!DiskFault, R!WriteDone, R!WriteDoneAborted, R!CloseDone, R!AbortDone,
         R!WriteFails, R!CloseFails, R!SetStatus
<1>3. R!Active(k)' => R!Active(k)
  BY <1>2 DEF R!Fail, R!Active, IInv, Typed, ReceiverTyped
<1> QED BY <1>1, <1>3 DEF Settling

\* Steps other than the delivery of a message.
LEMMA QuietSettles ==
  ASSUME IInv, [Next]_vars, ~ReceiverDelivery, NEW k \in Attempt, Held(k), ~Rearmed(k)
  PROVE  /\ rExpected'[k] = rExpected[k]
         /\ senderOpen /\ receiverOpen /\ R!Active(k)' => R!Active(k) \/ Accepting(k)'
<1>1. CASE \/ \E t \in Transfer : Offer(t) \/ SenderSteers(t)
           \/ \E r \in S!Run : SenderRuns(r)
           \/ SenderCancelsAll \/ SenderDelivery \/ SenderCloses \/ SenderLosesChannel
           \/ ReceiverLosesChannel \/ UNCHANGED vars
  <2>1. UNCHANGED <<rStatus, rExpected>>
    BY <1>1 DEF Offer, SenderSteers, SenderRuns, SenderCancelsAll, SenderDelivery, SenderCloses,
                SenderLosesChannel, ReceiverLosesChannel, receiverSide, objectVars, vars
  <2> QED BY <2>1 DEF R!Active
<1>2. ASSUME NEW t \in Transfer, UserAccepts(t) \/ UserRejects(t)
      PROVE  /\ rExpected'[k] = rExpected[k]
             /\ senderOpen /\ receiverOpen /\ R!Active(k)' => R!Active(k) \/ Accepting(k)'
  <2>1. PICK q : q = byId[t]
    OBVIOUS
  <2>2. t \in onScreen /\ (R!Accept(q) \/ R!Reject(q))
    BY <1>2, <2>1 DEF UserAccepts, UserRejects
  <2>3. q \in Attempt /\ q[1] = t
    BY <2>1, <2>2, ShownFacts DEF IInv, Routes, MapInv
  <2>4. Untouched(k) \/ k # q
    BY <2>1, <2>2, <2>3 DEF Held, Unanswered
  <2>5. UNCHANGED rExpected
    BY <2>2 DEF R!Accept, R!Accepted, R!Reject
  <2> QED BY <2>2, <2>3, <2>4, <2>5, AnswerSettles
<1>3. ASSUME NEW q \in Attempt, DialogEnds(q)
      PROVE  /\ rExpected'[k] = rExpected[k]
             /\ senderOpen /\ receiverOpen /\ R!Active(k)' => R!Active(k) \/ Accepting(k)'
  <2>1. R!PickFile(q) \/ R!PickFails(q) \/ R!PickCancelled(q)
    BY <1>3 DEF DialogEnds
  <2>2. rPicking[q]
    BY <2>1 DEF R!PickFile, R!PickFails, R!PickCancelled
  <2>3. Untouched(k) \/ k # q
    BY <2>2 DEF Held, Unanswered
  <2>4. UNCHANGED rExpected
    BY <2>1 DEF R!PickFile, R!PickFails, R!PickCancelled, R!Accepted
  <2> QED BY <2>1, <2>3, <2>4, AnswerSettles
<1>4. ASSUME NEW q \in Attempt, Disk(q) PROVE Settling(k)
  BY <1>4, DiskSettles DEF Disk
<1>5. CASE ReceiverCancelsAll \/ \E t \in Transfer : ReceiverSteers(t)
  <2>1. ASSUME ReceiverCancelsAll PROVE Settling(k)
    <3>1. R!StopReceivers(Receivers)
      BY <2>1 DEF ReceiverCancelsAll, R!CancelAllReceivers
    <3> QED BY <3>1, SteeringSettles
  <2>2. ASSUME NEW t \in Transfer, ReceiverSteers(t) PROVE Settling(k)
    <3>1. PICK o : o = byId[t]
      OBVIOUS
    <3>2. o # None /\ (R!PauseReceiver(o, TRUE) \/ R!ResumeReceiver(o, TRUE) \/ R!CancelReceiver(o, TRUE))
      BY <2>2, <3>1 DEF ReceiverSteers
    <3>3. o \in Attempt
      BY <3>1, <3>2, ShownFacts DEF IInv
    <3> QED BY <3>2, <3>3, SteeringSettles DEF R!CancelReceiver
  <2> QED BY <1>5, <2>1, <2>2 DEF Settling
<1>6. CASE ReceiverCloses
  <2>1. UNCHANGED rExpected /\ rStatus'[k] \in {rStatus[k], "failed"}
    BY <1>6 DEF ReceiverCloses
  <2> QED BY <2>1 DEF R!Active
<1> QED BY <1>1, <1>2, <1>3, <1>4, <1>5, <1>6 DEF Next, Settling

\* The delivery of any message that is not a frame for k.
LEMMA DeliverySettles ==
  ASSUME IInv, ReceiverDelivery, NEW k \in Attempt, Held(k), ~Rearmed(k)', NEW m, m = Head(toReceiver),
         ~(m.type = "chunk" /\ byKey[m.key] = k)
  PROVE  Settling(k)
<1>1. toReceiver # <<>> /\ ReceiverGets(m)
  BY DEF ReceiverDelivery
<1>2. CASE m.type = "offer"
  BY <1>2, OfferHeld, SameSettles
<1>3. CASE m.type = "chunk"
  <2>1. PICK o, index, d : o = byKey[m.key] /\ index = m.index /\ d = m.data
    OBVIOUS
  <2>2. R!HandleChunk(o, index, d)
    BY <1>1, <1>3, <2>1 DEF ReceiverGets, ReceiverOfKey
  <2>3. o \in Attempt /\ k # o
    BY <1>1, <1>3, <2>1, HeadRouted DEF IInv
  <2>4. FieldsSame(k)
    BY <2>2, <2>3, ChunkAlone DEF Alone, IInv
  <2> QED BY <2>4, SameSettles
<1>4. CASE m.type = "cancel-all"
  BY <1>1, <1>4, SteeringSettles DEF ReceiverGets, R!CancelAllReceivers
<1>5. CASE m.type \notin {"offer", "chunk", "cancel-all"}
  <2>1. PICK o : o = byId[m.key[1]]
    OBVIOUS
  <2>2. o \in Attempt
    BY <1>1, <1>5, <2>1, HeadRouted DEF IInv
  <2>3. \/ R!PauseReceiver(o, FALSE) \/ R!ResumeReceiver(o, FALSE) \/ R!CancelReceiver(o, FALSE)
        \/ UNCHANGED receiverSide
    BY <1>1, <1>5, <2>1 DEF ReceiverGets, OnReceiverPause, OnReceiverResume, OnReceiverCancel
  <2>4. CASE UNCHANGED receiverSide
    BY <2>4 DEF receiverSide, objectVars, Settling, R!Active
  <2>5. CASE R!PauseReceiver(o, FALSE) \/ R!ResumeReceiver(o, FALSE) \/ R!CancelReceiver(o, FALSE)
    BY <2>2, <2>5, SteeringSettles DEF R!CancelReceiver
  <2> QED BY <2>3, <2>4, <2>5
<1> QED BY <1>2, <1>3, <1>4, <1>5

\* A channel that closed stays closed, and the offers are counted by Offer alone.
LEMMA SenderChannel ==
  ASSUME NEW s, NEW T, NEW local, NEW n, NEW r,
         \/ S!Pause(s, local) \/ S!Resume(s, local) \/ S!Cancel(s, local) \/ S!CancelAll(T, local)
         \/ S!CloseSession(T) \/ S!ChannelLost \/ S!Start(s, n) \/ S!HandleReject(s) \/ S!HandleAck(s, n)
         \/ S!HandleComplete(s) \/ S!RunStep(r)
  PROVE  senderOpen' => senderOpen
<1>1. CASE S!CloseSession(T) \/ S!ChannelLost
  BY <1>1 DEF S!CloseSession, S!ChannelLost
<1>2. CASE S!RunStep(r)
  BY <1>2 DEF S!RunStep, S!BeginCancelled, S!Begin, S!Finish, S!TopCancelled, S!Park, S!TopClosed, S!TopDrain,
              S!Read, S!Drained, S!ReadFails, S!SendCancelled, S!SendWaits, S!SendFails, S!SendChunk,
              S!StepUnchanged
<1> QED BY <1>1, <1>2 DEF S!Pause, S!Resume, S!Cancel, S!CancelAll, S!Start, S!StartRun, S!HandleReject,
                          S!HandleAck, S!HandleComplete

LEMMA ReceiverChannel ==
  ASSUME NEW o, NEW T, NEW local, NEW index, NEW d,
         \/ R!PauseReceiver(o, local) \/ R!ResumeReceiver(o, local) \/ R!CancelReceiver(o, local)
         \/ R!CancelAllReceivers(T, local) \/ R!Accept(o) \/ R!Reject(o) \/ R!PickFile(o) \/ R!PickFails(o)
         \/ R!PickCancelled(o) \/ R!PrepareRetry(o) \/ R!HandleChunk(o, index, d) \/ R!DiskStep(o) \/ R!DiskFault(o)
  PROVE  UNCHANGED receiverOpen
BY DEF R!PauseReceiver, R!ResumeReceiver, R!CancelReceiver, R!CancelAllReceivers, R!StopReceivers, R!Accept,
       R!Accepted, R!Reject, R!PickFile, R!PickFails, R!PickCancelled, R!PrepareRetry, R!HandleChunk,
       R!IgnoreChunk, R!OutOfOrder, R!StoreChunk, R!receiverVars, R!DiskStep, R!DiskFault, R!WriteDone,
       R!WriteDoneAborted, R!CloseDone, R!AbortDone, R!WriteFails, R!CloseFails

LEMMA StaysClosed ==
  ASSUME IInv, [Next]_vars
  PROVE  (senderOpen' => senderOpen) /\ (receiverOpen' => receiverOpen)
<1>1. senderOpen' => senderOpen
  <2>1. CASE \/ \E t \in Transfer : SenderSteers(t)
             \/ \E r \in S!Run : SenderRuns(r)
             \/ SenderCancelsAll \/ SenderCloses \/ SenderLosesChannel
    BY <2>1, SenderChannel DEF SenderSteers, SenderRuns, SenderCancelsAll, SenderCloses, SenderLosesChannel
  <2>2. CASE SenderDelivery
    BY <2>2 DEF SenderDelivery
  <2>3. CASE ~(\/ \E t \in Transfer : SenderSteers(t)
               \/ \E r \in S!Run : SenderRuns(r)
               \/ SenderCancelsAll \/ SenderCloses \/ SenderLosesChannel \/ SenderDelivery)
    BY <2>3 DEF Next, Offer, UserAccepts, UserRejects, ReceiverSteers, DialogEnds, Disk, ReceiverCancelsAll,
                ReceiverDelivery, ReceiverCloses, ReceiverLosesChannel, senderSide, vars
  <2> QED BY <2>1, <2>2, <2>3
<1>2. receiverOpen' => receiverOpen
  <2>1. CASE \/ \E t \in Transfer : UserAccepts(t) \/ UserRejects(t) \/ ReceiverSteers(t)
             \/ \E o \in Attempt : DialogEnds(o) \/ Disk(o)
             \/ ReceiverCancelsAll
    BY <2>1, ReceiverChannel DEF UserAccepts, UserRejects, ReceiverSteers, DialogEnds, Disk, ReceiverCancelsAll
  <2>2. CASE ReceiverDelivery \/ ReceiverCloses \/ ReceiverLosesChannel
    BY <2>2 DEF ReceiverDelivery, ReceiverCloses, ReceiverLosesChannel
  <2>3. CASE \/ \E t \in Transfer : Offer(t) \/ SenderSteers(t)
             \/ \E r \in S!Run : SenderRuns(r)
             \/ SenderCancelsAll \/ SenderCloses \/ SenderLosesChannel \/ SenderDelivery \/ UNCHANGED vars
    BY <2>3 DEF Offer, SenderSteers, SenderRuns, SenderCancelsAll, SenderCloses, SenderLosesChannel,
                SenderDelivery, receiverSide, vars
  <2> QED BY <2>1, <2>2, <2>3 DEF Next
<1> QED BY <1>1, <1>2

\* An accept on its way stays there, except that of the FileSender it is delivered to.
LEMMA AcceptingKept ==
  ASSUME IInv, [Next]_vars, senderOpen', NEW k \in Attempt, Accepting(k)
  PROVE  \/ Accepting(k)'
         \/ StartDelivered /\ Head(toSender).id = k[1] /\ Head(toSender).bytes = 0
<1>0. toSender \in Seq(ToSender)
  BY DEF IInv, Typed, Replies
<1>1. PICK i \in DOMAIN toSender :
        toSender[i].type = "accept" /\ toSender[i].id = k[1] /\ toSender[i].bytes = 0
  BY DEF Accepting
<1>2. CASE Spoken
  <2>1. PICK ms \in Seq(ToSender) : toSender' = toSender \o ms
    BY <1>2 DEF Spoken, Replies
  <2>2. i \in DOMAIN toSender' /\ toSender'[i] = toSender[i]
    BY <1>0, <2>1
  <2> QED BY <1>1, <2>2 DEF Accepting
<1>3. CASE SenderDelivery
  <2>1. toSender # <<>> /\ toSender' = Tail(toSender) /\ SenderGets(Head(toSender))
    BY <1>3 DEF SenderDelivery
  <2>2. CASE i = 1
    <3>1. toSender[i] = Head(toSender)
      BY <1>0, <2>1, <2>2
    <3>2. S!Start(SenderOf(Head(toSender).id), Head(toSender).bytes)
      BY <1>1, <2>1, <3>1 DEF SenderGets
    <3> QED BY <1>1, <1>3, <3>1, <3>2 DEF StartDelivered
  <2>3. CASE i # 1
    <3>1. i - 1 \in DOMAIN toSender' /\ toSender'[i - 1] = toSender[i]
      BY <1>0, <2>1, <2>3
    <3> QED BY <1>1, <3>1 DEF Accepting
  <2> QED BY <2>2, <2>3
<1>4. CASE UNCHANGED toSender
  BY <1>4 DEF Accepting
<1>5. CASE SenderCloses \/ SenderLosesChannel
  BY <1>5 DEF SenderCloses, SenderLosesChannel, S!CloseSession, S!ChannelLost
<1>6. CASE \/ \E t \in Transfer : Offer(t) \/ SenderSteers(t)
           \/ \E r \in S!Run : SenderRuns(r)
           \/ SenderCancelsAll \/ UNCHANGED vars
  BY <1>4, <1>6 DEF Offer, SenderSteers, SenderRuns, SenderCancelsAll, receiverSide, vars
<1>7. CASE \E t \in Transfer : UserAccepts(t) \/ UserRejects(t)
  BY <1>2, <1>7, AnswerKeeps
<1>8. CASE \E o \in Attempt : DialogEnds(o) \/ Disk(o)
  BY <1>2, <1>8, DialogKeeps
<1>9. CASE \/ \E t \in Transfer : ReceiverSteers(t)
           \/ ReceiverCancelsAll \/ ReceiverCloses \/ ReceiverLosesChannel
  BY <1>2, <1>9, SteeringKeeps
<1>10. CASE ReceiverDelivery
  BY <1>2, <1>10, ReceiverDeliveryKeeps
<1> QED BY <1>3, <1>5, <1>6, <1>7, <1>8, <1>9, <1>10 DEF Next

LEMMA LinkedBefore ==
  ASSUME IInv, WholeInv, [Next]_vars, NEW k \in Attempt, Linked(k)', R!Active(k)'
  PROVE  Linked(k)
<1>1. Clean(k) /\ Held(k) /\ senderOpen /\ receiverOpen
  BY CleanBefore, StaysClosed DEF Linked, WholeInv
<1>2. byKey[k] = k
  <2>1. CASE byKey[k] # None
    BY <2>1, MapsGrow DEF Linked
  <2>2. CASE byKey[k] = None
    <3>0. k # None /\ byKey' # byKey
      BY <2>2, AttemptFacts DEF Linked
    <3>1. ReceiverDelivery /\ Head(toReceiver).type = "offer"
      BY <3>0, MapsKept
    <3>2. FieldsSame(k)
      BY <1>1, <3>1, OfferHeld DEF Linked, Clean
    <3>3. PICK a \in Attempt : GetOffer(a) /\ ~Routed(a)
      BY <3>1, OfferReceived
    <3>4. PICK o : byKey' = [byKey EXCEPT ![a] = o]
      BY <3>3 DEF GetOffer
    <3>5. k = a
      BY <2>2, <3>0, <3>4 DEF Linked, IInv, Typed, RoutingTyped
    <3>6. Untouched(k)
      BY <1>1, <3>3, <3>5 DEF Held, Unanswered
    <3> QED BY <3>2, <3>6 DEF FieldsSame, Untouched, R!Active
  <2> QED BY <2>1, <2>2
<1>3. k = SenderOf(k[1])
  <2>1. CASE \E t \in Transfer : Offer(t)
    <3>1. PICK t \in Transfer : Offer(t)
      BY <2>1
    <3>2. offers' = [offers EXCEPT ![t] = @ + 1]
      BY <3>1 DEF Offer
    <3>3. k[2] <= offers[k[1]] /\ k[1] \in Transfer /\ k = <<k[1], k[2]>> /\ offers[k[1]] \in Nat /\ k[2] \in Nat
      BY <1>2, AttemptFacts, TransferAssumption DEF IInv, Routes, MapInv, Offered, Typed, RoutingTyped
    <3>4. k[2] = offers'[k[1]]
      BY <3>3 DEF Linked, SenderOf
    <3>5. offers'[k[1]] = offers[k[1]]
      BY <3>2, <3>3, <3>4 DEF IInv, Typed, RoutingTyped
    <3> QED BY <3>3, <3>4, <3>5 DEF SenderOf
  <2>2. CASE ~\E t \in Transfer : Offer(t)
    <3>1. UNCHANGED offers
      BY <2>2 DEF Next, SenderSteers, SenderRuns, SenderCancelsAll, SenderCloses, SenderLosesChannel,
                  SenderDelivery, UserAccepts, UserRejects, ReceiverSteers, DialogEnds, Disk,
                  ReceiverCancelsAll, ReceiverDelivery, ReceiverCloses, ReceiverLosesChannel, routing, vars
    <3> QED BY <3>1 DEF Linked, SenderOf
  <2> QED BY <2>1, <2>2
<1> QED BY <1>1, <1>2, <1>3 DEF Linked

\* A frame of k reaches its receiver: it is the oldest one, and expected.
LEMMA FrameTaken ==
  ASSUME IInv, ReceiverDelivery, NEW k \in Attempt, ~Rearmed(k), NEW m, m = Head(toReceiver),
         m.type = "chunk", byKey[m.key] = k
  PROVE  /\ 1 \in S!InBuffer(k)
         /\ R!Active(k)' => R!Active(k)
         /\ R!Active(k) /\ Fits(k) => rExpected'[k] = rExpected[k] + 1
<1>1. /\ R!HandleChunk(k, m.index, m.data) /\ 1 \in S!InBuffer(k) /\ toReceiver[1] = m
      /\ \A i \in S!InBuffer(k) : 1 <= i
  BY ChunkDelivered
<1>2. R!Active(k)' => R!Active(k)
  BY <1>1 DEF R!HandleChunk, R!IgnoreChunk, R!OutOfOrder, R!StoreChunk, R!receiverVars, R!objectVars, R!Active
<1>3. ASSUME R!Active(k), Fits(k) PROVE rExpected'[k] = rExpected[k] + 1
  <2>1. m.index = rExpected[k]
    BY <1>1, <1>3 DEF Fits
  <2>2. R!StoreChunk(k, m.index, m.data)
    BY <1>1, <1>3, <2>1 DEF R!HandleChunk, R!IgnoreChunk, R!OutOfOrder, R!InOrder
  <2> QED BY <2>2 DEF R!StoreChunk, IInv, Typed, ReceiverTyped
<1> QED BY <1>1, <1>2, <1>3

LEMMA ExpectedBeforeStart ==
  ASSUME IInv, LabelInv, WholeInv, FitInv, [Next]_vars, NEW k \in Attempt, Clean(k)', Unstarted(k)'
  PROVE  rExpected'[k] = 0
<1>1. Clean(k) /\ Unstarted(k) /\ Held(k) /\ rExpected[k] = 0
  BY CleanBefore, StartedOnceBefore DEF WholeInv, FitInv
<1>2. CASE ~ReceiverDelivery
  BY <1>1, <1>2, QuietSettles DEF Clean
<1>3. CASE ReceiverDelivery
  <2>1. PICK m : m = Head(toReceiver)
    OBVIOUS
  <2>2. ~(m.type = "chunk" /\ byKey[m.key] = k)
    <3>1. S!InBuffer(k) = {}
      BY <1>1 DEF LabelInv, Aligned, Clean
    <3> QED BY <1>1, <1>3, <2>1, <3>1, FrameTaken DEF Clean
  <2> QED BY <1>1, <1>3, <2>1, <2>2, DeliverySettles DEF Settling, Clean
<1> QED BY <1>2, <1>3

\* The accept of an empty receiver starts its FileSender at the first chunk.
LEMMA StartFits ==
  ASSUME IInv, LabelInv, FitInv, NEW k \in Attempt, Linked(k), Linked(k)',
         StartDelivered, Head(toSender).id = k[1], Head(toSender).bytes = 0
  PROVE  ~Unstarted(k)' /\ Fits(k)'
<1>1. S!Start(k, 0)
  BY AcceptFacts DEF Linked
<1>2. /\ UNCHANGED toReceiver /\ ~Unstarted(k)' /\ Unstarted(k)
      /\ sIndex'[k] = IF 0 <= FileSize[k[1]] THEN 0 ELSE FileSize[k[1]]
  BY <1>1, FirstStart DEF IInv, Linked, Clean
<1>3. sIndex'[k] = 0
  BY <1>2, ObjectFacts DEF IInv
<1>4. rExpected' = rExpected /\ rExpected[k] = 0
  BY <1>2 DEF StartDelivered, SenderDelivery, objectVars, FitInv, Linked
<1>5. S!InBuffer(k)' = {}
  BY <1>2 DEF LabelInv, Aligned, Linked, Clean, S!InBuffer
<1> QED BY <1>2, <1>3, <1>4, <1>5 DEF Fits

LEMMA FitsKept ==
  ASSUME IInv, LabelInv, WholeInv, [Next]_vars, NEW k \in Attempt, Linked(k), Linked(k)',
         R!Active(k), ~Unstarted(k), Fits(k)
  PROVE  ~Unstarted(k)' /\ Fits(k)'
<1>1. Clean(k) /\ Held(k) /\ Clean(k)' /\ ~Unstarted(k)'
  BY StartedOnceBefore DEF WholeInv, Linked
<1>2. CASE ~ReceiverDelivery
  <2>1. rExpected'[k] = rExpected[k]
    BY <1>1, <1>2, QuietSettles DEF Clean
  <2> QED BY <1>1, <1>2, <2>1, SendingFits DEF Clean
<1>3. CASE ReceiverDelivery
  <2>1. PICK m : m = Head(toReceiver)
    OBVIOUS
  <2>2. toReceiver # <<>> /\ toReceiver' = Tail(toReceiver) /\ sIndex' = sIndex
    BY <1>3 DEF ReceiverDelivery, senderVars
  <2>3. rExpected'[k] = IF 1 \in S!InBuffer(k) THEN rExpected[k] + 1 ELSE rExpected[k]
    <3>1. CASE m.type = "chunk" /\ byKey[m.key] = k
      BY <1>1, <1>3, <2>1, <3>1, FrameTaken DEF Clean
    <3>2. CASE ~(m.type = "chunk" /\ byKey[m.key] = k)
      <4>1. rExpected'[k] = rExpected[k]
        BY <1>1, <1>3, <2>1, <3>2, DeliverySettles DEF Settling, Clean
      <4>2. 1 \notin S!InBuffer(k)
        BY <2>1, <2>2, <3>2, TailFacts DEF S!InBuffer, Linked, IInv, Typed, Messages
      <4> QED BY <4>1, <4>2
    <3> QED BY <3>1, <3>2
  <2>4. Gapless(k)
    BY <1>1 DEF LabelInv, Clean
  <2> QED BY <1>1, <2>2, <2>3, <2>4, FitsTaken DEF IInv
<1> QED BY <1>2, <1>3

LEMMA FitStep ==
  ASSUME IInv, LabelInv, WholeInv, FitInv, [Next]_vars
  PROVE  FitInv'
<1> SUFFICES ASSUME NEW k \in Attempt, Linked(k)', R!Active(k)', ~Accepting(k)'
             PROVE  ~Unstarted(k)' /\ Fits(k)'
  BY ExpectedBeforeStart DEF FitInv
<1>1. Linked(k) /\ Clean(k) /\ Held(k) /\ senderOpen /\ receiverOpen
  BY LinkedBefore DEF Linked, WholeInv
<1>2. R!Active(k)
  <2>1. CASE ~ReceiverDelivery
    BY <1>1, <2>1, QuietSettles DEF Clean
  <2>2. CASE ReceiverDelivery
    <3>1. PICK m : m = Head(toReceiver)
      OBVIOUS
    <3>2. ~Rearmed(k) /\ ~Rearmed(k)'
      BY <1>1 DEF Linked, Clean
    <3> QED BY <1>1, <2>2, <3>1, <3>2, FrameTaken, DeliverySettles DEF Settling
  <2> QED BY <2>1, <2>2
<1>3. CASE Accepting(k)
  <2>1. senderOpen'
    BY DEF Linked
  <2>2. StartDelivered /\ Head(toSender).id = k[1] /\ Head(toSender).bytes = 0
    BY <1>3, <2>1, AcceptingKept
  <2> QED BY <1>1, <2>2, StartFits
<1>4. CASE ~Accepting(k)
  <2>1. ~Unstarted(k) /\ Fits(k)
    BY <1>1, <1>2, <1>4 DEF FitInv
  <2> QED BY <1>1, <1>2, <2>1, FitsKept
<1> QED BY <1>3, <1>4

LEMMA FitInit ==
  ASSUME Init
  PROVE  FitInv
<1>1. \A k \in Attempt : rExpected[k] = 0 /\ ~R!Active(k)
  BY DEF Init, R!InitReceiver, R!Active
<1> QED BY <1>1 DEF FitInv

LEMMA FitFollows ==
  ASSUME FitInv
  PROVE  ChunksFit
<1> SUFFICES ASSUME NEW k \in Attempt, AcceptedOnce(k), byKey[k] # None, ~Rearmed(byKey[k]),
                    R!Active(byKey[k]), receiverOpen,
                    NEW i \in S!InBuffer(k), \A j \in S!InBuffer(k) : i <= j
             PROVE  R!InOrder(byKey[k], toReceiver[i].index)
  BY DEF ChunksFit, NextChunkFits
<1>1. byKey[k] = k
  BY DEF Rearmed
<1>2. Linked(k) /\ ~Accepting(k)
  BY <1>1 DEF Linked, Clean, AcceptedOnce, Accepting
<1>3. Fits(k)
  BY <1>1, <1>2 DEF FitInv
<1> QED BY <1>1, <1>3 DEF Fits, R!InOrder

\* As long as both ends are connected, the oldest frame on the way is the one its receiver
\* expects, through buffers, pauses and drains (see the asides of ChunksFit).
THEOREM TransferChunksFit == Spec => []ChunksFit
<1>1. Init => LabelInv /\ WholeInv /\ FitInv
  BY LabelAndWholeInit, FitInit
<1>2. IInv /\ LabelInv /\ WholeInv /\ FitInv /\ [Next]_vars => LabelInv' /\ WholeInv' /\ FitInv'
  BY LabelStep, WholeStep, FitStep
<1>3. FitInv => ChunksFit
  BY FitFollows
<1> QED BY <1>1, <1>2, <1>3, FileTransferInductive, PTL DEF Spec

=============================================================================
