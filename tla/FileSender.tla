------------------------------ MODULE FileSender ------------------------------
(***************************************************************************)
(* The sending half of one PeerSession: every FileSender object of the     *)
(* session, the SendScheduler gate they share, and the send buffer of the  *)
(* DataChannel (client/src/p2p/FileSender.ts).                             *)
(*                                                                         *)
(* JavaScript runs one handler at a time, to its end, and then every       *)
(* promise continuation that is due, before the next handler.  A run() in  *)
(* stage "granted" or "top" is such a continuation: while there is one, no *)
(* handler, timer, file read or network event gets in between (Quiet).     *)
(*                                                                         *)
(* A file is Size[s] chunks; chunk d is the d-th slice of the file.        *)
(* toReceiver is everything handed to channel.send() and not yet           *)
(* transmitted, i.e. what bufferedAmount measures, in messages.            *)
(***************************************************************************)
EXTENDS Naturals, Sequences

CONSTANTS
  Sender,      \* the FileSender objects
  Size,        \* Size[s]: number of chunks of the file of s
  HighWater,   \* BUFFERED_AMOUNT_HIGH, in chunks
  MaxStarts,   \* bound: file-accept messages that reach one FileSender
  Steered      \* bound: the FileSenders that somebody pauses, resumes or cancels

ASSUME SenderAssumption ==
  /\ Size \in [Sender -> Nat]
  /\ HighWater \in Nat
  /\ MaxStarts \in Nat
  /\ Steered \subseteq Sender

VARIABLES
  sStatus,     \* status
  sOffset,     \* offset, in chunks
  sIndex,      \* chunkIndex, the label of the next frame
  sCancelled,  \* cancelled
  sPaused,     \* paused
  sAcked,      \* ackedBytes, in chunks
  stage,       \* where each run() call is suspended
  readEnd,     \* the local variable end of each run() call
  busy, queue, \* SendScheduler
  toReceiver,  \* messages accepted by channel.send(), oldest first
  channelOpen  \* channel.readyState = 'open'

senderVars == <<sStatus, sOffset, sIndex, sCancelled, sPaused, sAcked>>
gateVars == <<busy, queue>>
runVars == <<stage, readEnd>>
vars == <<senderVars, gateVars, runVars, toReceiver, channelOpen>>

Status == {"pending", "transferring", "paused", "completed", "cancelled", "failed"}

\* One element per call of start(): the n-th run() of FileSender s.
Run == Sender \X (1..MaxStarts)

\* "parked" sits in resumeWaiters, "drainTop" and "drainSend" in waitForDrain().
Holding == {"granted", "top", "parked", "drainTop", "reading", "drainSend"}
Stage == Holding \cup {"idle", "queued", "done"}

\* No continuation is due: the browser may take the next event.
Quiet == \A r \in Run : stage[r] \notin {"granted", "top"}

Chunk(s, i, d) == [type |-> "chunk", key |-> s, index |-> i, data |-> d]
Control(t, s) == [type |-> t, key |-> s]
CancelAllMessage == [type |-> "cancel-all"]

Lesser(a, b) == IF a <= b THEN a ELSE b

Init ==
  /\ sStatus = [s \in Sender |-> "pending"]
  /\ sOffset = [s \in Sender |-> 0]
  /\ sIndex = [s \in Sender |-> 0]
  /\ sCancelled = [s \in Sender |-> FALSE]
  /\ sPaused = [s \in Sender |-> FALSE]
  /\ sAcked = [s \in Sender |-> 0]
  /\ stage = [r \in Run |-> "idle"]
  /\ readEnd = [r \in Run |-> 0]
  /\ busy = FALSE
  /\ queue = <<>>
  /\ toReceiver = <<>>
  /\ channelOpen = TRUE

-----------------------------------------------------------------------------
(* Building blocks of the handlers.                                        *)

\* sendControl drops the message when the channel is not open.
Emit(m) == toReceiver' = IF channelOpen THEN Append(toReceiver, m) ELSE toReceiver

\* Slip: the waiters are not resolved.
NobodyWoken(s) == stage

\* wake(): every run parked in the resumeWaiters of s goes back to the loop.
Woken(s) ==
  [r \in Run |-> IF r[1] = s /\ stage[r] = "parked" THEN "top" ELSE stage[r]]

\* Slip: busy is not cleared.
ReleaseKeepsBusy(r) ==
  IF queue = <<>>
  THEN /\ stage' = [stage EXCEPT ![r] = "done"]
       /\ UNCHANGED <<busy, queue>>
  ELSE /\ stage' = [stage EXCEPT ![r] = "done", ![Head(queue)] = "granted"]
       /\ queue' = Tail(queue)
       /\ UNCHANGED busy

\* Slip: the next waiter is dropped.
ReleaseLosesWaiter(r) ==
  /\ stage' = [stage EXCEPT ![r] = "done"]
  /\ IF queue = <<>> THEN busy' = FALSE /\ UNCHANGED queue
                     ELSE queue' = Tail(queue) /\ UNCHANGED busy

\* Slip: every waiter is resolved at once.
ReleaseToAll(r) ==
  /\ stage' = [q \in Run |-> IF q = r THEN "done"
                             ELSE IF stage[q] = "queued" THEN "granted" ELSE stage[q]]
  /\ queue' = <<>>
  /\ busy' = (queue # <<>>)

\* Slip: pop() instead of shift().
ReleaseToNewest(r) ==
  /\ queue # <<>>
  /\ stage' = [stage EXCEPT ![r] = "done", ![queue[Len(queue)]] = "granted"]
  /\ queue' = SubSeq(queue, 1, Len(queue) - 1)
  /\ UNCHANGED busy

\* The finally block of run(): scheduler.release().
ReleaseGate(r) ==
  IF queue = <<>>
  THEN /\ stage' = [stage EXCEPT ![r] = "done"]
       /\ busy' = FALSE
       /\ UNCHANGED queue
  ELSE /\ stage' = [stage EXCEPT ![r] = "done", ![Head(queue)] = "granted"]
       /\ queue' = Tail(queue)
       /\ UNCHANGED busy

\* Slip: a completed transfer can still fail.
SettledIfCancelled(s) == sStatus[s] = "cancelled"

\* fail() and cancel() keep a completed or cancelled status.
Settled(s) == sStatus[s] \in {"completed", "cancelled"}

FailStatus(s) ==
  /\ sStatus' = IF Settled(s) THEN sStatus ELSE [sStatus EXCEPT ![s] = "failed"]
  /\ sCancelled' = IF Settled(s) THEN sCancelled ELSE [sCancelled EXCEPT ![s] = TRUE]

\* Slip: one message too many is let through.
BufferFullLate == Len(toReceiver) > HighWater + 1

\* bufferedAmount > BUFFERED_AMOUNT_HIGH.
BufferFull == Len(toReceiver) > HighWater

-----------------------------------------------------------------------------
(* Calls from PeerSession, P2PManager and the user.                        *)

\* Slip: chunkIndex is not reset.
StartIndexKept(s, from) == sIndex[s]

\* Slip: labels counted from one.
StartIndexFromOne(s, from) == Lesser(from, Size[s]) + 1

\* The label of the first frame to send: chunks before the resume offset.
StartIndex(s, from) == Lesser(from, Size[s])

\* start(resumeFrom), on file-accept: the run() it spawns, the n-th of s, takes
\* the gate or joins its queue.
StartRun(s, from, n) ==
  LET r == <<s, n>> IN
  /\ Quiet
  /\ \A m \in 1..MaxStarts : (stage[<<s, m>>] = "idle") <=> (m >= n)
  /\ sOffset' = [sOffset EXCEPT ![s] = Lesser(from, Size[s])]
  /\ sIndex' = [sIndex EXCEPT ![s] = StartIndex(s, from)]
  /\ \/ /\ ~busy
        /\ busy' = TRUE
        /\ stage' = [stage EXCEPT ![r] = "granted"]
        /\ UNCHANGED queue
     \/ /\ busy
        /\ queue' = Append(queue, r)
        /\ stage' = [stage EXCEPT ![r] = "queued"]
        /\ UNCHANGED busy
  /\ UNCHANGED <<sStatus, sCancelled, sPaused, sAcked, readEnd, toReceiver, channelOpen>>

Start(s, from) == \E n \in 1..MaxStarts : StartRun(s, from, n)

\* local says whether this side's button was clicked.
Pause(s, local) ==
  /\ Quiet
  /\ sStatus[s] = "transferring"
  /\ sPaused' = [sPaused EXCEPT ![s] = TRUE]
  /\ sStatus' = [sStatus EXCEPT ![s] = "paused"]
  /\ IF local THEN Emit(Control("pause", s)) ELSE UNCHANGED toReceiver
  /\ UNCHANGED <<sOffset, sIndex, sCancelled, sAcked, gateVars, runVars, channelOpen>>

Resume(s, local) ==
  /\ Quiet
  /\ sStatus[s] = "paused"
  /\ sPaused' = [sPaused EXCEPT ![s] = FALSE]
  /\ sStatus' = [sStatus EXCEPT ![s] = "transferring"]
  /\ stage' = Woken(s)
  /\ IF local THEN Emit(Control("resume", s)) ELSE UNCHANGED toReceiver
  /\ UNCHANGED <<sOffset, sIndex, sCancelled, sAcked, gateVars, readEnd, channelOpen>>

Cancel(s, local) ==
  /\ Quiet
  /\ ~Settled(s)
  /\ sCancelled' = [sCancelled EXCEPT ![s] = TRUE]
  /\ sStatus' = [sStatus EXCEPT ![s] = "cancelled"]
  /\ stage' = Woken(s)
  /\ IF local THEN Emit(Control("cancel", s)) ELSE UNCHANGED toReceiver
  /\ UNCHANGED <<sOffset, sIndex, sPaused, sAcked, gateVars, readEnd, channelOpen>>

HandleReject(s) ==
  /\ Quiet
  /\ sCancelled' = [sCancelled EXCEPT ![s] = TRUE]
  /\ sStatus' = IF Settled(s) THEN sStatus ELSE [sStatus EXCEPT ![s] = "failed"]
  /\ stage' = IF Settled(s) THEN stage ELSE Woken(s)
  /\ UNCHANGED <<sOffset, sIndex, sPaused, sAcked, gateVars, readEnd, toReceiver, channelOpen>>

\* handleComplete() sets the status whatever it was.
HandleComplete(s) ==
  /\ Quiet
  /\ sStatus' = [sStatus EXCEPT ![s] = "completed"]
  /\ UNCHANGED <<sOffset, sIndex, sCancelled, sPaused, sAcked, gateVars, runVars,
                 toReceiver, channelOpen>>

\* Slip: receivedBytes taken for an increment.
HandleAckAdds(s, n) ==
  /\ Quiet
  /\ sAcked' = [sAcked EXCEPT ![s] = @ + n]
  /\ UNCHANGED <<sStatus, sOffset, sIndex, sCancelled, sPaused, gateVars, runVars,
                 toReceiver, channelOpen>>

\* receivedBytes is a total, not an increment.
HandleAck(s, n) ==
  /\ Quiet
  /\ sAcked' = [sAcked EXCEPT ![s] = IF n > @ THEN n ELSE @]
  /\ UNCHANGED <<sStatus, sOffset, sIndex, sCancelled, sPaused, gateVars, runVars,
                 toReceiver, channelOpen>>

\* Every sender of T that is not over gets this status; its parked run goes on.
StopAll(T, status) ==
  LET stopped == {s \in T : ~Settled(s)} IN
  /\ sStatus' = [s \in Sender |-> IF s \in stopped THEN status ELSE sStatus[s]]
  /\ sCancelled' = [s \in Sender |-> sCancelled[s] \/ s \in stopped]
  /\ stage' = [r \in Run |-> IF r[1] \in stopped THEN Woken(r[1])[r] ELSE stage[r]]

\* cancelAllTransfers() over the senders in T.
CancelAll(T, local) ==
  /\ Quiet
  /\ StopAll(T, "cancelled")
  /\ IF local THEN Emit(CancelAllMessage) ELSE UNCHANGED toReceiver
  /\ UNCHANGED <<sOffset, sIndex, sPaused, sAcked, gateVars, readEnd, channelOpen>>

\* PeerSession.close(): failAllTransfers() over the senders in T, then channel.close().
CloseSession(T) ==
  /\ Quiet
  /\ channelOpen' = FALSE
  /\ StopAll(T, "failed")
  /\ UNCHANGED <<sOffset, sIndex, sPaused, sAcked, gateVars, readEnd, toReceiver>>

-----------------------------------------------------------------------------
(* The steps of run().                                                     *)

StepUnchanged == UNCHANGED <<sIndex, sPaused, sAcked, channelOpen>>

\* acquire() resolved.
BeginCancelled(r) ==
  /\ stage[r] = "granted"
  /\ sCancelled[r[1]]
  /\ ReleaseGate(r)
  /\ StepUnchanged
  /\ UNCHANGED <<sStatus, sOffset, sCancelled, readEnd, toReceiver>>

Begin(r) ==
  /\ stage[r] = "granted"
  /\ ~sCancelled[r[1]]
  /\ sStatus' = [sStatus EXCEPT ![r[1]] = "transferring"]
  /\ stage' = [stage EXCEPT ![r] = "top"]
  /\ StepUnchanged
  /\ UNCHANGED <<sOffset, sCancelled, gateVars, readEnd, toReceiver>>

\* The loop condition is false: everything was handed to the channel.
Finish(r) ==
  /\ stage[r] = "top"
  /\ sOffset[r[1]] >= Size[r[1]]
  /\ ReleaseGate(r)
  /\ StepUnchanged
  /\ UNCHANGED <<sStatus, sOffset, sCancelled, readEnd, toReceiver>>

AtTop(r) == stage[r] = "top" /\ sOffset[r[1]] < Size[r[1]]

TopCancelled(r) ==
  /\ AtTop(r)
  /\ sCancelled[r[1]]
  /\ ReleaseGate(r)
  /\ StepUnchanged
  /\ UNCHANGED <<sStatus, sOffset, sCancelled, readEnd, toReceiver>>

Park(r) ==
  /\ AtTop(r)
  /\ ~sCancelled[r[1]]
  /\ sPaused[r[1]]
  /\ stage' = [stage EXCEPT ![r] = "parked"]
  /\ StepUnchanged
  /\ UNCHANGED <<sStatus, sOffset, sCancelled, gateVars, readEnd, toReceiver>>

TopClosed(r) ==
  /\ AtTop(r)
  /\ ~sCancelled[r[1]] /\ ~sPaused[r[1]]
  /\ ~channelOpen
  /\ FailStatus(r[1])
  /\ ReleaseGate(r)
  /\ StepUnchanged
  /\ UNCHANGED <<sOffset, readEnd, toReceiver>>

TopDrain(r) ==
  /\ AtTop(r)
  /\ ~sCancelled[r[1]] /\ ~sPaused[r[1]]
  /\ channelOpen
  /\ BufferFull
  /\ stage' = [stage EXCEPT ![r] = "drainTop"]
  /\ StepUnchanged
  /\ UNCHANGED <<sStatus, sOffset, sCancelled, gateVars, readEnd, toReceiver>>

Read(r) ==
  /\ AtTop(r)
  /\ ~sCancelled[r[1]] /\ ~sPaused[r[1]]
  /\ channelOpen
  /\ ~BufferFull
  /\ readEnd' = [readEnd EXCEPT ![r] = Lesser(sOffset[r[1]] + 1, Size[r[1]])]
  /\ stage' = [stage EXCEPT ![r] = "reading"]
  /\ StepUnchanged
  /\ UNCHANGED <<sStatus, sOffset, sCancelled, gateVars, toReceiver>>

\* waitForDrain() ends on bufferedamountlow or on its 2 s timer.
Drained(r) ==
  /\ Quiet
  /\ stage[r] = "drainTop"
  /\ stage' = [stage EXCEPT ![r] = "top"]
  /\ StepUnchanged
  /\ UNCHANGED <<sStatus, sOffset, sCancelled, gateVars, readEnd, toReceiver>>

\* The slice could not be read: finally releases, the catch of start() fails.
ReadFails(r) ==
  /\ Quiet
  /\ stage[r] = "reading"
  /\ FailStatus(r[1])
  /\ ReleaseGate(r)
  /\ StepUnchanged
  /\ UNCHANGED <<sOffset, readEnd, toReceiver>>

\* After the read, and again after every wait of the inner loop.
AfterRead(r) == Quiet /\ stage[r] \in {"reading", "drainSend"}

\* Slip: cancelled is not looked at again after the read.
SendBlind(r) == AfterRead(r)

MaySend(r) == AfterRead(r) /\ ~sCancelled[r[1]]

SendCancelled(r) ==
  /\ AfterRead(r)
  /\ sCancelled[r[1]]
  /\ ReleaseGate(r)
  /\ StepUnchanged
  /\ UNCHANGED <<sStatus, sOffset, sCancelled, readEnd, toReceiver>>

SendWaits(r) ==
  /\ MaySend(r)
  /\ stage[r] = "reading"
  /\ BufferFull
  /\ stage' = [stage EXCEPT ![r] = "drainSend"]
  /\ StepUnchanged
  /\ UNCHANGED <<sStatus, sOffset, sCancelled, gateVars, readEnd, toReceiver>>

\* The channel is not open any more, or send() throws although it is.
SendFails(r) ==
  /\ MaySend(r)
  /\ ~BufferFull
  /\ FailStatus(r[1])
  /\ ReleaseGate(r)
  /\ StepUnchanged
  /\ UNCHANGED <<sOffset, readEnd, toReceiver>>

SendChunk(r) ==
  /\ MaySend(r)
  /\ ~BufferFull
  /\ channelOpen
  /\ toReceiver' = Append(toReceiver, Chunk(r[1], sIndex[r[1]], readEnd[r]))
  /\ sOffset' = [sOffset EXCEPT ![r[1]] = readEnd[r]]
  /\ sIndex' = [sIndex EXCEPT ![r[1]] = @ + 1]
  /\ stage' = [stage EXCEPT ![r] = "top"]
  /\ UNCHANGED <<sStatus, sCancelled, sPaused, sAcked, gateVars, readEnd, channelOpen>>

RunStep(r) ==
  \/ BeginCancelled(r) \/ Begin(r)
  \/ Finish(r) \/ TopCancelled(r) \/ Park(r) \/ TopClosed(r) \/ TopDrain(r) \/ Read(r)
  \/ Drained(r) \/ ReadFails(r)
  \/ SendCancelled(r) \/ SendWaits(r) \/ SendFails(r) \/ SendChunk(r)

-----------------------------------------------------------------------------
(* The DataChannel.                                                        *)

\* The network takes the oldest message; bufferedAmount falls.
Transmit ==
  /\ Quiet
  /\ channelOpen
  /\ toReceiver # <<>>
  /\ toReceiver' = Tail(toReceiver)
  /\ UNCHANGED <<senderVars, gateVars, runVars, channelOpen>>

\* The channel closes under the session.  What it had buffered stays counted.
ChannelLost ==
  /\ Quiet
  /\ channelOpen
  /\ channelOpen' = FALSE
  /\ UNCHANGED <<senderVars, gateVars, runVars, toReceiver>>

-----------------------------------------------------------------------------
(* The component on its own.  The receiver is reduced to what it may send: *)
(* a reject instead of an accept, acknowledgements of chunks it was sent,  *)
(* file-complete once everything was sent.                                 *)

Started(s) == stage[<<s, 1>>] # "idle"
StartedOnce(s) == \A n \in 2..MaxStarts : stage[<<s, n>>] = "idle"

InBuffer(s) == {i \in DOMAIN toReceiver : toReceiver[i].type = "chunk" /\ toReceiver[i].key = s}

\* Everything was sent and has left; an empty file only has to be accepted.
Delivered(s) ==
  /\ Started(s) /\ sOffset[s] = Size[s] /\ InBuffer(s) = {}
  /\ Size[s] > 0 =>
       /\ \A n \in 1..MaxStarts : stage[<<s, n>>] \in {"idle", "done"}
       /\ \E n \in 1..MaxStarts : readEnd[<<s, n>>] = Size[s]

\* Bounds the control messages waiting in the buffer: one at a time.
RoomForControl == \A i \in DOMAIN toReceiver : toReceiver[i].type = "chunk"

FromReceiver(s) ==
  \/ \E from \in 0..Size[s] : Start(s, from)
  \/ ~Started(s) /\ HandleReject(s)
  \/ Started(s) /\ InBuffer(s) = {} /\ HandleAck(s, sOffset[s])
  \/ Delivered(s) /\ HandleComplete(s)

SteeredByReceiver(s) ==
  \/ Started(s) /\ (Pause(s, FALSE) \/ Resume(s, FALSE))
  \/ Cancel(s, FALSE)

SteeredByUser(s) == Pause(s, TRUE) \/ Resume(s, TRUE) \/ Cancel(s, TRUE)

Environment ==
  \/ channelOpen /\ \E s \in Sender : FromReceiver(s)
  \/ channelOpen /\ \E s \in Steered : SteeredByReceiver(s)
  \/ RoomForControl /\ \E s \in Steered : SteeredByUser(s)
  \/ channelOpen /\ CancelAll(Sender, FALSE)
  \/ RoomForControl /\ CancelAll(Sender, TRUE)
  \/ ChannelLost
  \/ CloseSession(Sender)

Next ==
  \/ Environment
  \/ Transmit
  \/ \E r \in Run : RunStep(r)

Spec == Init /\ [][Next]_vars

\* Reads end, timers fire and an open channel transmits; users and the
\* receiver owe nothing.  Strong fairness of Transmit: the drain timer may
\* fire again and again, the network still gets its turn of the event loop.
FairSpec ==
  /\ Spec
  /\ SF_vars(Transmit)
  /\ \A r \in Run : WF_vars(RunStep(r))

-----------------------------------------------------------------------------
(* Properties.                                                             *)

Message ==
  [type : {"chunk"}, key : Sender, index : Nat, data : Nat]
    \cup [type : {"pause", "resume", "cancel"}, key : Sender]
    \cup {CancelAllMessage}

\* Every variable has the values its declaration in FileSender.ts allows;
\* no position, nor the acknowledged total, is past the end of the file.
TypeOK ==
  /\ sStatus \in [Sender -> Status]
  /\ sOffset \in [Sender -> Nat] /\ \A s \in Sender : sOffset[s] <= Size[s]
  /\ sIndex \in [Sender -> Nat]
  /\ sCancelled \in [Sender -> BOOLEAN]
  /\ sPaused \in [Sender -> BOOLEAN]
  /\ sAcked \in [Sender -> Nat] /\ \A s \in Sender : sAcked[s] <= Size[s]
  /\ stage \in [Run -> Stage]
  /\ readEnd \in [Run -> Nat] /\ \A r \in Run : readEnd[r] <= Size[r[1]]
  /\ busy \in BOOLEAN
  /\ queue \in Seq(Run)
  /\ toReceiver \in Seq(Message)
  /\ channelOpen \in BOOLEAN

\* Whatever is paused, cancelled, failed or restarted, one run() at most is
\* between acquire() and release(): two of them would race the same
\* bufferedAmount check and overflow the SCTP buffer.
OneStreamAtATime ==
  \A q, r \in Run : stage[q] \in Holding /\ stage[r] \in Holding => q = r

\* Backpressure holds across the asynchronous read: a chunk is never queued
\* behind more than BUFFERED_AMOUNT_HIGH of unsent messages.
ChunksWithinHighWater ==
  \A i \in DOMAIN toReceiver : toReceiver[i].type = "chunk" => i <= HighWater + 1

\* The frames of a file leave in order and without a gap, each label naming
\* the slice it carries, through pauses, drains and resumed offsets; the
\* receiver fails the transfer otherwise.  (start() called once.)
Follows(s, i, j) == i < j /\ \A h \in InBuffer(s) : h <= i \/ j <= h

GaplessStream ==
  \A s \in Sender : StartedOnce(s) =>
    /\ \A i \in InBuffer(s) : toReceiver[i].data = toReceiver[i].index + 1
    /\ \A i, j \in InBuffer(s) : Follows(s, i, j) => toReceiver[j].index = toReceiver[i].index + 1
    /\ \A i \in InBuffer(s) :
         (\A j \in InBuffer(s) : j <= i) => toReceiver[i].index + 1 = sIndex[s]

\* A chunk leaves only while its transfer is running or was paused during
\* the read: never after a cancel, a reject or a failure that came in while
\* the slice was read or the buffer drained.
SendsOnlyWhileActive ==
  [][\A s \in Sender :
       (\E i \in DOMAIN toReceiver' :
          /\ i > Len(toReceiver)
          /\ toReceiver'[i].type = "chunk" /\ toReceiver'[i].key = s)
       => sStatus[s] \in {"transferring", "paused"}]_vars

\* Once the receiver confirmed a non-empty file, neither the end of the
\* session, a late cancel nor the rest of run() takes "completed" back.
CompletedStays ==
  [][\A s \in Sender :
       /\ Size[s] > 0 /\ StartedOnce(s)' /\ sStatus[s] = "completed"
       => sStatus'[s] = "completed"]_vars

\* Where each run() stands in the gate.
gatePhase == [r \in Run |-> IF stage[r] = "queued" THEN "waiting"
                           ELSE IF stage[r] \in Holding THEN "holding"
                           ELSE "idle"]

\* The gate as the senders use it implements the SendScheduler.
Gate == INSTANCE SendScheduler WITH Client <- Run, phase <- gatePhase
GateSpec == Gate!Spec

\* release() forgets nobody, whichever way the holder's run() ends: who waits is
\* in the queue once, and while anybody waits some run() has the gate to hand on.
NoLostWaiter == Gate!NoLostWaiter

\* No run() gets the gate over the head of the queue, and a stopped one that
\* still waits keeps its place.
FirstComeFirstServed ==
  [][\A r \in Run : stage[r] = "queued" /\ stage'[r] \in Holding => r = Head(queue)]_vars

\* A transfer that was cancelled, rejected or failed gives the gate back,
\* wherever its run() was suspended: paused, draining or reading.
StoppedFreesGate ==
  \A r \in Run : sCancelled[r[1]] /\ stage[r] \in Holding ~> stage[r] \notin Holding

\* A queued transfer gets its turn unless the one that holds the gate is
\* paused or the channel is gone.
QueuedMovesOn ==
  \A r \in Run : stage[r] = "queued" ~>
    \/ stage[r] # "queued"
    \/ ~channelOpen
    \/ \E q \in Run : stage[q] \in Holding /\ sPaused[q[1]]

=============================================================================
