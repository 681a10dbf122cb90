----------------------------- MODULE FileTransfer -----------------------------
(***************************************************************************)
(* File transfers over one PeerSession, from the user of the sending side  *)
(* to the user of the receiving side: the FileSender objects of one peer,  *)
(* the FileReceiver objects of the other, and the routing of the control   *)
(* messages and chunks between them (client/src/p2p/PeerSession.ts, with   *)
(* the calls P2PManager.ts and the dashboard make).                        *)
(*                                                                         *)
(* The n-th offer of transfer t creates the FileSender <<t, n>>, whose key *)
(* is <<t, n>>, and, unless it re-arms an earlier one, the FileReceiver    *)
(* <<t, n>>.  Everything but chunks is routed by transferId, to the newest *)
(* object of the transfer.                                                 *)
(*                                                                         *)
(* The DataChannel is ordered and reliable; each side sees it close in its *)
(* own time, and what it has not received by then is lost.                 *)
(***************************************************************************)
EXTENDS Naturals, Sequences, FiniteSets

CONSTANTS
  Transfer,    \* transferIds
  FileSize,    \* FileSize[t]: chunks of the file of t
  HighWater,   \* BUFFERED_AMOUNT_HIGH, in chunks
  AckEvery,    \* ACK_EVERY_N_CHUNKS
  HasPicker,   \* the receiving browser can write to disk
  MaxAttempts, \* bound: offers of one transfer
  Steering,    \* bound: what the users do, of {"pause", "cancel", "cancelAll", "reject"}
  Faults       \* bound: what breaks, of {"read", "write", "picker", "channel"}

ASSUME TransferAssumption ==
  /\ FileSize \in [Transfer -> Nat]
  /\ HighWater \in Nat /\ AckEvery \in Nat \ {0} /\ MaxAttempts \in Nat
  /\ HasPicker \in BOOLEAN
  /\ Steering \subseteq {"pause", "cancel", "cancelAll", "reject"}
  /\ Faults \subseteq {"read", "write", "picker", "channel"}

Attempt == Transfer \X (1..MaxAttempts)
None == <<>>

VARIABLES
  sStatus, sOffset, sIndex, sCancelled, sPaused, sAcked, stage, readEnd,
  busy, queue, toReceiver, senderOpen,
  rStatus, rReceived, rExpected, rSinceAck, rQueue, rStream, rContent, rSaved,
  rPicking, toSender, receiverOpen,
  offers,      \* offers[t]: offers of t made so far; its FileSender is the last one
  byKey,       \* receiversByKey
  byId,        \* receiversById
  onScreen,    \* the transfers whose offer the receiving user has not answered
  ended        \* the sides whose session was closed and forgotten

S == INSTANCE FileSender WITH
       Sender <- Attempt,
       Size <- [s \in Attempt |-> FileSize[s[1]]],
       MaxStarts <- MaxAttempts,
       Steered <- Attempt,
       channelOpen <- senderOpen

R == INSTANCE FileReceiver WITH
       Receiver <- Attempt,
       RSize <- [o \in Attempt |-> FileSize[o[1]]],
       TransferOf <- [o \in Attempt |-> o[1]],
       peerOpen <- senderOpen

senderVars == <<sStatus, sOffset, sIndex, sCancelled, sPaused, sAcked, stage, readEnd, busy, queue>>
senderSide == <<senderVars, toReceiver, senderOpen>>
objectVars == <<rStatus, rReceived, rExpected, rSinceAck, rQueue, rStream, rContent, rSaved, rPicking>>
receiverSide == <<objectVars, toSender, receiverOpen>>
routing == <<offers, byKey, byId, onScreen, ended>>
vars == <<senderSide, receiverSide, routing>>

Init ==
  /\ S!Init
  /\ R!InitReceiver
  /\ offers = [t \in Transfer |-> 0]
  /\ byKey = [k \in Attempt |-> None]
  /\ byId = [t \in Transfer |-> None]
  /\ onScreen = {}
  /\ ended = {}

\* sendersById and the values of sendersById.
SenderOf(t) == <<t, offers[t]>>
Senders == {SenderOf(t) : t \in {u \in Transfer : offers[u] > 0}}
Receivers == {byId[t] : t \in {u \in Transfer : byId[u] # None}}

-----------------------------------------------------------------------------
(* The sending user.                                                       *)

\* sendFile(), or retryTransfer() of a transfer that failed or was cancelled.
Offer(t) ==
  /\ S!Quiet
  /\ senderOpen
  /\ offers[t] < MaxAttempts
  /\ offers[t] > 0 => sStatus[SenderOf(t)] \in {"failed", "cancelled"}
  /\ offers' = [offers EXCEPT ![t] = @ + 1]
  /\ toReceiver' = Append(toReceiver, S!Control("offer", <<t, offers[t] + 1>>))
  /\ UNCHANGED <<senderVars, senderOpen, receiverSide,
                 byKey, byId, onScreen, ended>>

\* Bounds the control messages that wait in the sender's buffer.
RoomForControl == \A i \in DOMAIN toReceiver : toReceiver[i].type \in {"chunk", "offer"}

SenderSteers(t) ==
  /\ "sender" \notin ended /\ offers[t] > 0 /\ RoomForControl
  /\ \/ "pause" \in Steering /\ (S!Pause(SenderOf(t), TRUE) \/ S!Resume(SenderOf(t), TRUE))
     \/ "cancel" \in Steering /\ S!Cancel(SenderOf(t), TRUE)
  /\ UNCHANGED <<receiverSide, routing>>

SenderCancelsAll ==
  /\ "cancelAll" \in Steering /\ "sender" \notin ended /\ RoomForControl
  /\ S!CancelAll(Senders, TRUE)
  /\ UNCHANGED <<receiverSide, routing>>

\* The page, the peer or the network ends the sender's session.
SenderCloses ==
  /\ "channel" \in Faults /\ "sender" \notin ended
  /\ S!CloseSession(Senders)
  /\ ended' = ended \cup {"sender"}
  /\ toSender' = <<>>
  /\ UNCHANGED <<objectVars, receiverOpen, offers, byKey, byId, onScreen>>

\* The channel closes under the session, which takes no notice of it.
SenderLosesChannel ==
  /\ "channel" \in Faults
  /\ S!ChannelLost
  /\ toSender' = <<>>
  /\ UNCHANGED <<objectVars, receiverOpen, routing>>

SenderRuns(r) ==
  /\ S!RunStep(r)
  /\ "read" \notin Faults => ~S!ReadFails(r)
  /\ senderOpen /\ "channel" \notin Faults => ~S!SendFails(r)
  /\ UNCHANGED <<receiverSide, routing>>

-----------------------------------------------------------------------------
(* PeerSession.handleControl() on the sending side.                        *)

\* A handler that a message finds in the wrong state returns early.
OnPause(s) == IF sStatus[s] = "transferring" THEN S!Pause(s, FALSE) ELSE UNCHANGED senderSide
OnResume(s) == IF sStatus[s] = "paused" THEN S!Resume(s, FALSE) ELSE UNCHANGED senderSide
OnCancel(s) == IF S!Settled(s) THEN UNCHANGED senderSide ELSE S!Cancel(s, FALSE)

SenderGets(m) ==
  LET s == SenderOf(m.id) IN
  \/ m.type = "accept" /\ S!Start(s, m.bytes)
  \/ m.type = "reject" /\ S!HandleReject(s)
  \/ m.type = "ack" /\ S!HandleAck(s, m.bytes)
  \/ m.type = "complete" /\ S!HandleComplete(s)
  \/ m.type = "pause" /\ OnPause(s)
  \/ m.type = "resume" /\ OnResume(s)
  \/ m.type = "cancel" /\ OnCancel(s)
  \/ m.type = "cancel-all" /\ S!CancelAll(Senders, FALSE)

SenderDelivery ==
  /\ S!Quiet
  /\ senderOpen
  /\ toSender # <<>>
  /\ SenderGets(Head(toSender))
  /\ toSender' = Tail(toSender)
  /\ UNCHANGED <<objectVars, receiverOpen, routing>>

-----------------------------------------------------------------------------
(* The receiving side: PeerSession.handleControl() and handleChunk.        *)

\* file-offer: a failed receiver is re-armed, any other one is replaced.
Rearms(o) == o # None /\ rStatus[o] = "failed"

GetOffer(k) ==
  LET old == byId[k[1]]
      o == IF Rearms(old) THEN old ELSE k
  IN
  /\ IF Rearms(old) THEN R!PrepareRetry(old) ELSE UNCHANGED receiverSide
  /\ byKey' = [byKey EXCEPT ![k] = o]
  /\ byId' = [byId EXCEPT ![k[1]] = o]
  /\ onScreen' = onScreen \cup {k[1]}

OnReceiverPause(o) ==
  IF rStatus[o] = "transferring" THEN R!PauseReceiver(o, FALSE) ELSE UNCHANGED receiverSide
OnReceiverResume(o) ==
  IF rStatus[o] = "paused" THEN R!ResumeReceiver(o, FALSE) ELSE UNCHANGED receiverSide
OnReceiverCancel(o) ==
  IF rStatus[o] \in {"completed", "cancelled"} THEN UNCHANGED receiverSide
  ELSE R!CancelReceiver(o, FALSE)

\* Chunks carry the key of their sender.
ReceiverOfKey(k) == byKey[k]

ReceiverGets(m) ==
  \/ m.type = "offer" /\ GetOffer(m.key)
  \/ /\ m.type = "chunk" /\ R!HandleChunk(ReceiverOfKey(m.key), m.index, m.data)
     /\ UNCHANGED <<byKey, byId, onScreen>>
  \/ /\ \/ m.type = "pause" /\ OnReceiverPause(byId[m.key[1]])
        \/ m.type = "resume" /\ OnReceiverResume(byId[m.key[1]])
        \/ m.type = "cancel" /\ OnReceiverCancel(byId[m.key[1]])
        \/ m.type = "cancel-all" /\ R!CancelAllReceivers(Receivers, FALSE)
     /\ UNCHANGED <<byKey, byId, onScreen>>

ReceiverDelivery ==
  /\ S!Quiet
  /\ receiverOpen
  /\ toReceiver # <<>>
  /\ ReceiverGets(Head(toReceiver))
  /\ toReceiver' = Tail(toReceiver)
  /\ UNCHANGED <<senderVars, senderOpen, offers, ended>>

-----------------------------------------------------------------------------
(* The receiving user and the disk.                                        *)

\* acceptFileOffer() and rejectFileOffer() take the newest receiver.
UserAccepts(t) ==
  /\ "receiver" \notin ended
  /\ t \in onScreen
  /\ onScreen' = onScreen \ {t}
  /\ R!Accept(byId[t])
  /\ UNCHANGED <<senderSide, offers, byKey, byId, ended>>

UserRejects(t) ==
  /\ "receiver" \notin ended
  /\ "reject" \in Steering
  /\ t \in onScreen
  /\ onScreen' = onScreen \ {t}
  /\ R!Reject(byId[t])
  /\ UNCHANGED <<senderSide, offers, byKey, byId, ended>>

DialogEnds(o) ==
  /\ \/ R!PickFile(o)
     \/ "picker" \in Faults /\ R!PickFails(o)
     \/ "reject" \in Steering /\ R!PickCancelled(o)
  /\ UNCHANGED <<senderSide, routing>>

Disk(o) ==
  /\ R!DiskStep(o) \/ ("write" \in Faults /\ R!DiskFault(o))
  /\ UNCHANGED <<senderSide, routing>>

\* Bounds the control messages that wait for the sender.
RoomForReply ==
  \A i \in DOMAIN toSender : toSender[i].type \notin {"pause", "resume", "cancel", "cancel-all"}

ReceiverSteers(t) ==
  /\ "receiver" \notin ended /\ byId[t] # None /\ RoomForReply
  /\ \/ "pause" \in Steering /\ (R!PauseReceiver(byId[t], TRUE) \/ R!ResumeReceiver(byId[t], TRUE))
     \/ "cancel" \in Steering /\ R!CancelReceiver(byId[t], TRUE)
  /\ UNCHANGED <<senderSide, routing>>

ReceiverCancelsAll ==
  /\ "cancelAll" \in Steering /\ "receiver" \notin ended /\ RoomForReply
  /\ R!CancelAllReceivers(Receivers, TRUE)
  /\ UNCHANGED <<senderSide, routing>>

\* PeerSession.close() on the receiving side; what was on its way is lost.
ReceiverCloses ==
  /\ "channel" \in Faults /\ "receiver" \notin ended
  /\ receiverOpen' = FALSE
  /\ ended' = ended \cup {"receiver"}
  /\ rStatus' = [o \in Attempt |->
       IF o \in Receivers /\ rStatus[o] # "completed" THEN "failed" ELSE rStatus[o]]
  /\ UNCHANGED <<rReceived, rExpected, rSinceAck, rQueue, rStream, rContent, rSaved, rPicking,
                 toSender, senderSide, offers, byKey, byId, onScreen>>

ReceiverLosesChannel ==
  /\ "channel" \in Faults
  /\ receiverOpen
  /\ receiverOpen' = FALSE
  /\ UNCHANGED <<objectVars, toSender, senderSide, routing>>

Next ==
  \/ \E t \in Transfer :
       Offer(t) \/ SenderSteers(t) \/ UserAccepts(t) \/ UserRejects(t) \/ ReceiverSteers(t)
  \/ \E r \in S!Run : SenderRuns(r)
  \/ \E o \in Attempt : DialogEnds(o) \/ Disk(o)
  \/ SenderCancelsAll \/ ReceiverCancelsAll
  \/ SenderDelivery \/ ReceiverDelivery
  \/ SenderCloses \/ SenderLosesChannel \/ ReceiverCloses \/ ReceiverLosesChannel

Spec == Init /\ [][Next]_vars

\* The event loops, the disk and the network go on; users owe nothing.
FairSpec ==
  /\ Spec
  /\ SF_vars(ReceiverDelivery) /\ SF_vars(SenderDelivery)
  /\ \A r \in S!Run : WF_vars(SenderRuns(r))
  /\ \A o \in Attempt : WF_vars(Disk(o))

-----------------------------------------------------------------------------
(* Properties.                                                             *)

ToReceiver ==
  [type : {"chunk"}, key : Attempt, index : Nat, data : Nat]
    \cup [type : {"offer", "pause", "resume", "cancel"}, key : Attempt]
    \cup {S!CancelAllMessage}
ToSender ==
  [type : {"accept", "reject", "ack", "complete", "pause", "resume", "cancel"},
   id : Transfer, bytes : Nat]
    \cup {R!CancelAllReply}

\* The fields of the receiver and of the session, the type of every message
\* and the order of offers: an object exists only once it was offered.
TypeOK ==
  /\ rStatus \in [Attempt -> S!Status]
  /\ rReceived \in [Attempt -> Nat] /\ rExpected \in [Attempt -> Nat]
  /\ rSinceAck \in [Attempt -> 0..AckEvery - 1]
  /\ rStream \in [Attempt -> R!Stream]
  /\ rPicking \in [Attempt -> BOOLEAN]
  /\ \A o \in Attempt : rQueue[o] \in Seq(Nat) /\ rContent[o] \in Seq(Nat)
  /\ \A i \in DOMAIN toReceiver : toReceiver[i] \in ToReceiver
  /\ \A i \in DOMAIN toSender : toSender[i] \in ToSender
  /\ offers \in [Transfer -> 0..MaxAttempts]
  /\ \A k \in Attempt : byKey[k] # None =>
       k[2] <= offers[k[1]] /\ byKey[k][1] = k[1] /\ byKey[k][2] <= k[2]
  /\ \A t \in Transfer : byId[t] # None => \E n \in 1..offers[t] : byKey[<<t, n>>] = byId[t]
  /\ onScreen \subseteq {t \in Transfer : byId[t] # None}

Rearmed(o) == \E k \in Attempt : k # o /\ byKey[k] = o
Whole(t) == [d \in 1..FileSize[t] |-> d]

\* Whatever is lost, paused, cancelled, retried or accepted late: a file that
\* reaches the user is the whole file, and no receiver saves it twice.
\* (Aside: receivers that prepareRetry() re-armed, see RetriedIsWhole, and those
\* whose FileSender several accepts started: the late accepts of three dialogs
\* can make it label slices of the end as the beginning and go on from there.)
SavedIsWhole ==
  \A o \in Attempt : ~Rearmed(o) /\ S!StartedOnce(o) => rSaved[o] \in {<<>>, <<Whole(o[1])>>}

\* The same of every receiver: a retry resumes where the disk stopped.
RetriedIsWhole ==
  \A o \in Attempt : rSaved[o] \in {<<>>, <<Whole(o[1])>>}

\* A cancelled receiver saves nothing, with writes of its file still pending or
\* chunks still on their way, unless the stream was being closed already.  (Aside:
\* empty files, which accept() finalizes whatever the status is, and re-armed
\* receivers, whose reject() leaves the stream of the first attempt open.)
CancelledSavesNothing ==
  [][\A o \in Attempt :
       /\ FileSize[o[1]] > 0 /\ ~Rearmed(o)
       /\ rStatus[o] = "cancelled" /\ rStream[o] # "closingAborted"
       => rSaved'[o] = rSaved[o]]_vars

\* The sender reports "completed" only for a file some receiver has saved.
CompletedMeansSaved ==
  \A s \in Attempt : sStatus[s] = "completed" =>
    \E o \in Attempt : o[1] = s[1] /\ rSaved[o] # <<>>

\* An acknowledgement never runs ahead of the disk: what the sender counts as
\* confirmed, some receiver of the transfer has stored.
AckedIsStored ==
  \A s \in Attempt : sAcked[s] > 0 =>
    \E o \in Attempt : o[1] = s[1] /\ sAcked[s] <= rReceived[o]

NextChunkFits(k) ==
  R!Active(byKey[k]) /\ receiverOpen =>
    \A i \in S!InBuffer(k) :
      (\A j \in S!InBuffer(k) : i <= j) => R!InOrder(byKey[k], toReceiver[i].index)

\* k is the newest FileSender of its transfer; the only accept that reached it, or
\* will reach it, is that of its receiver.
AcceptedOnce(k) ==
  /\ senderOpen
  /\ k = SenderOf(k[1])
  /\ S!StartedOnce(k)
  /\ \A i \in DOMAIN toSender : ~(toSender[i].type = "accept" /\ toSender[i].id = k[1])

\* Across buffers, pauses, drains and retries the next chunk on the way is the
\* one its receiver expects.  (Aside: FileSenders that another accept reaches, which
\* happens when the save dialog of a cancelled attempt is answered during the
\* next, re-armed receivers, and what replaced or closed senders leave on the way.)
ChunksFit ==
  \A k \in Attempt :
    AcceptedOnce(k) /\ byKey[k] # None /\ ~Rearmed(byKey[k]) => NextChunkFits(k)

\* When the channel and the disk hold and nobody cancels, an accepted transfer
\* ends up completed on both sides, through backpressure, acknowledgements and the
\* gate, unless its own file cannot be read or somebody keeps a transfer of the
\* session paused.  A file of the same session that cannot be read is no excuse.
SomethingPaused == \E k \in Attempt : "paused" \in {sStatus[k], rStatus[k]}

AcceptedCompletes ==
  \A k \in Attempt : rStatus[k] = "transferring" ~>
    \/ rStatus[k] = "completed" /\ sStatus[k] = "completed"
    \/ sStatus[k] = "failed"
    \/ SomethingPaused

=============================================================================
