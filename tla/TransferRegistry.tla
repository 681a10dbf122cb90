--------------------------- MODULE TransferRegistry ---------------------------
(***************************************************************************)
(* The list of transfers each P2PManager keeps and what it reports to the  *)
(* server's history (client/src/p2p/P2PManager.ts:378-606), for the files  *)
(* one device sends to another, over successive PeerSessions of the pair.  *)
(*                                                                         *)
(* An entry of the list outlives the sessions: a retry makes a new         *)
(* FileSender, in whichever session is open then, and binds it to the old  *)
(* entry; the callbacks of earlier senders and receivers stay bound to it. *)
(* The n-th FileSender of transfer t is <<t, n>>, and so is the            *)
(* FileReceiver its offer creates, unless the offer re-arms one.           *)
(*                                                                         *)
(* Senders and receivers are reduced to what an entry can see of them:     *)
(* their status, the awaits a late callback can come from, and how many    *)
(* chunks they are at.  FileSender.tla and FileReceiver.tla have the rest. *)
(***************************************************************************)
EXTENDS Naturals, Sequences, FiniteSets

CONSTANTS
  Transfer,    \* transferIds
  FileSize,    \* FileSize[t]: chunks of the file of t, 0 for an empty one
  MaxAttempts, \* bound: offers of one transfer
  MaxSessions, \* bound: sessions of the pair
  Steering,    \* bound: what users do, of {"pause", "cancel", "cancelAll", "reject"}
  Faults       \* bound: what breaks, of {"read", "write", "picker", "link"}

ASSUME RegistryAssumption ==
  /\ FileSize \in [Transfer -> Nat] /\ MaxAttempts \in Nat /\ MaxSessions \in Nat
  /\ Steering \subseteq {"pause", "cancel", "cancelAll", "reject"}
  /\ Faults \subseteq {"read", "write", "picker", "link"}

Attempt == Transfer \X (1..MaxAttempts)
Side == {"sender", "receiver"}
None == <<>>

Active == {"pending", "transferring", "paused"}
Over == {"completed", "cancelled", "failed"}
Settled == {"completed", "cancelled"}   \* what cancel() and fail() leave alone

VARIABLES
  sessions,   \* sessions the pair has had
  session,    \* session[side]: the one in its P2PManager.sessions, or 0
  open,       \* isOpen of that session
  toReceiver, \* on their way in the channel, each way
  toSender,
  tries,      \* tries[t]: FileSenders made for t, by sendFile() and retryTransfer()
  snd,        \* the FileSenders
  rcv,        \* the FileReceivers
  byKey,      \* receiversByKey of the receiving session
  byId,       \* receiversById
  onScreen,   \* the transfers whose offer the receiving user has not answered
  sEntry,     \* status of the entry of t on the sending side, "none" without one
  rEntry,     \* the same on the receiving side
  reported,   \* the entries of the sending side that are reported
  reports,    \* reports[k]: statuses posted to /history with the startedAt of k
  saved       \* the transfers of which some receiver saved a file

link == <<sessions, session, open>>
lists == <<sEntry, reported, reports>>
sending == <<tries, snd, lists>>
receiving == <<rcv, byKey, byId, onScreen, rEntry, saved>>
vars == <<link, toReceiver, toSender, sending, receiving>>

\* offset, chunkIndex and the end of the slice that is being read, in chunks.
\* stray and overtaken are history: it got the gate when sendersById did not have
\* it any more; its confirmation came before it got the gate.
NewSender(n) ==
  [session |-> n, status |-> "pending", cancelled |-> FALSE, paused |-> FALSE,
   queued |-> 0, run |-> "idle", offset |-> 0, index |-> 0, end |-> 0, stray |-> FALSE, overtaken |-> FALSE]

\* late and missed are history: it was accepted after its end; a cancel-all of
\* this side stopped its sender before it was there to be stopped.
NewReceiver(n) ==
  [session |-> n, status |-> "pending", got |-> 0, expected |-> 0, writing |-> 0,
   stream |-> "none", dialog |-> FALSE, late |-> FALSE, missed |-> FALSE]

Init ==
  /\ sessions = 0
  /\ session = [d \in Side |-> 0]
  /\ open = [d \in Side |-> FALSE]
  /\ toReceiver = <<>> /\ toSender = <<>>
  /\ tries = [t \in Transfer |-> 0]
  /\ snd = [k \in Attempt |-> NewSender(0)]
  /\ rcv = [k \in Attempt |-> NewReceiver(0)]
  /\ byKey = [k \in Attempt |-> None]
  /\ byId = [t \in Transfer |-> None]
  /\ onScreen = {}
  /\ sEntry = [t \in Transfer |-> "none"]
  /\ rEntry = [t \in Transfer |-> "none"]
  /\ reported = {}
  /\ reports = [k \in Attempt |-> <<>>]
  /\ saved = {}

Message(type, t) == [type |-> type, t |-> t, n |-> 0, at |-> 0]

\* Slip: the key is left out.
KeylessMessage(type, k, at) == [type |-> type, t |-> k[1], n |-> 0, at |-> at]

KeyMessage(type, k, at) == [type |-> type, t |-> k[1], n |-> k[2], at |-> at]

\* sendControl() sends nothing unless the channel is open, and what goes to a
\* side whose channel is closed never arrives.
Linked == open["sender"] /\ open["receiver"]
TellReceiver(m) == toReceiver' = IF Linked THEN Append(toReceiver, m) ELSE toReceiver

-----------------------------------------------------------------------------
(* The list of the sending side.                                           *)

Newest(t) == <<t, tries[t]>>

\* sendersById of the current session.
Senders ==
  {Newest(t) : t \in {u \in Transfer : tries[u] > 0 /\ snd[Newest(u)].session = session["sender"]}}

\* Slip: the flag is not looked at.
ReportsAlways(t, st) == st \in Over

\* maybeReportHistory() posts a final status once.
Reports(t, st) == st \in Over /\ t \notin reported

\* onTransferStatus() for every transfer of T.
SendStatus(T, st) ==
  /\ sEntry' = [t \in Transfer |-> IF t \in T THEN st ELSE sEntry[t]]
  /\ reports' = [k \in Attempt |->
       IF k[1] \in T /\ k = Newest(k[1]) /\ Reports(k[1], st)
       THEN Append(reports[k], st) ELSE reports[k]]
  /\ reported' = reported \cup {t \in T : Reports(t, st)}

\* cancel() or fail() of every sender of K, then the entries in Extra.
StopSenders(K, st, Extra) ==
  LET hit == {k \in K : snd[k].status \notin Settled} IN
  /\ snd' = [k \in Attempt |->
       IF k \in hit THEN [snd[k] EXCEPT !.status = st, !.cancelled = TRUE] ELSE snd[k]]
  /\ SendStatus({k[1] : k \in hit} \cup Extra, st)

\* The entries the list offers to cancel, of either side.
Cancellable(entry) == {t \in Transfer : entry[t] \in Active}

\* setStatus().
SetSender(k, s) == snd' = [snd EXCEPT ![k] = s] /\ SendStatus({k[1]}, s.status)

SenderOpen(k) == open["sender"] /\ snd[k].session = session["sender"]

\* release() hands the gate of a session on before anything else happens.
CanRun(k) ==
  snd[k].queued > 0 /\ \A j \in Attempt : snd[j].session = snd[k].session => snd[j].run = "idle"
Quiet == \A k \in Attempt : ~CanRun(k)

-----------------------------------------------------------------------------
(* The sending user.                                                       *)

\* Slip: a retry leaves the status of the entry alone.
KeptStatus(t) == IF tries[t] = 0 THEN "pending" ELSE sEntry[t]

OfferedStatus(t) == "pending"

\* offerFile() in the current session, and the entry it is bound to.
Offer(t) ==
  LET k == <<t, tries[t] + 1>> IN
  /\ tries[t] < MaxAttempts
  /\ open["sender"]
  /\ tries' = [tries EXCEPT ![t] = @ + 1]
  /\ snd' = [snd EXCEPT ![k] = NewSender(session["sender"])]
  /\ TellReceiver(KeyMessage("offer", k, 0))
  /\ sEntry' = [sEntry EXCEPT ![t] = OfferedStatus(t)]

SendFile(t) ==
  /\ tries[t] = 0
  /\ Offer(t)
  /\ UNCHANGED <<reported, reports>>

\* Slip: the retried entry stays reported.
StillReported(t) == reported

\* What the retry of t leaves reported.
NotReported(t) == reported \ {t}

\* The button is there for failed and cancelled entries.
RetryTransfer(t) ==
  /\ sEntry[t] \in {"failed", "cancelled"}
  /\ Offer(t)
  /\ reported' = NotReported(t)
  /\ UNCHANGED reports

\* Bounds the control messages that wait in the sender's buffer.
RoomForControl == \A i \in DOMAIN toReceiver : toReceiver[i].type \in {"chunk", "offer"}

\* pauseTransfer() and resumeTransfer() do nothing without an actor.
SenderPauses(t) ==
  /\ "pause" \in Steering /\ RoomForControl
  /\ Newest(t) \in Senders
  /\ LET s == snd[Newest(t)] IN
       \/ /\ s.status = "transferring"
          /\ SetSender(Newest(t), [s EXCEPT !.paused = TRUE, !.status = "paused"])
          /\ TellReceiver(Message("pause", t))
       \/ /\ s.status = "paused"
          /\ SetSender(Newest(t), [s EXCEPT !.paused = FALSE, !.status = "transferring"])
          /\ TellReceiver(Message("resume", t))
  /\ UNCHANGED tries

\* cancelTransfer(): without a session or an actor the entry is just marked.
SenderCancels(t) ==
  /\ "cancel" \in Steering /\ RoomForControl
  /\ sEntry[t] \in Active
  /\ IF Newest(t) \in Senders
     THEN /\ StopSenders({Newest(t)}, "cancelled", {})
          /\ IF snd[Newest(t)].status \in Settled THEN UNCHANGED toReceiver
             ELSE TellReceiver(Message("cancel", t))
     ELSE /\ SendStatus({t}, "cancelled")
          /\ UNCHANGED <<snd, toReceiver>>
  /\ UNCHANGED tries

\* cancelAllTransfers(): one message, every sender of the session, and the
\* entries that are still active after that.
SenderCancelsAll ==
  /\ "cancelAll" \in Steering /\ RoomForControl
  /\ Cancellable(sEntry) # {}
  /\ TellReceiver(Message("cancel-all", None))
  /\ StopSenders(Senders, "cancelled", Cancellable(sEntry))
  /\ UNCHANGED tries

SendingUser ==
  /\ Quiet
  /\ \/ \E t \in Transfer : SendFile(t) \/ RetryTransfer(t) \/ SenderPauses(t) \/ SenderCancels(t)
     \/ SenderCancelsAll
  /\ UNCHANGED <<link, toSender, receiving>>

-----------------------------------------------------------------------------
(* run() of the FileSenders, whatever became of their session.             *)

\* Where the loop goes on from a chunk boundary: it ends with the file, and an
\* empty one has none.
NextStage(k, offset) == IF offset >= FileSize[k[1]] THEN "idle" ELSE "loop"

\* What run() makes of its sender before its first await: it fails at once when
\* there is something to send and the channel is closed.
Started(k, s) ==
  IF s.offset < FileSize[k[1]] /\ ~s.paused /\ ~SenderOpen(k)
  THEN [s EXCEPT !.status = "failed", !.cancelled = TRUE]
  ELSE [s EXCEPT !.run = NextStage(k, s.offset), !.status = "transferring",
                 !.stray = @ \/ k \notin Senders, !.overtaken = @ \/ s.status = "completed"]

\* The gate is free for a run(), which may find its sender cancelled.
TakeGate(k) ==
  LET s == [snd[k] EXCEPT !.queued = @ - 1] IN
  /\ CanRun(k)
  /\ IF s.cancelled THEN snd' = [snd EXCEPT ![k] = s] /\ UNCHANGED lists
     ELSE SetSender(k, Started(k, s))
  /\ UNCHANGED toReceiver

EndRun(k) == snd' = [snd EXCEPT ![k].run = "idle"] /\ UNCHANGED lists

\* fail() out of the run.
FailRun(k) ==
  IF snd[k].status \in Settled THEN EndRun(k)
  ELSE SetSender(k, [snd[k] EXCEPT !.run = "idle", !.status = "failed", !.cancelled = TRUE])

\* From a wait (gate, pause, drain) to the read of the next slice.
LoopTurn(k) ==
  /\ Quiet /\ snd[k].run = "loop"
  /\ \/ (snd[k].cancelled \/ snd[k].offset >= FileSize[k[1]]) /\ EndRun(k)
     \/ /\ ~snd[k].cancelled /\ snd[k].offset < FileSize[k[1]] /\ ~snd[k].paused
        /\ IF SenderOpen(k)
           THEN /\ snd' = [snd EXCEPT ![k].run = "reading", ![k].end = snd[k].offset + 1]
                /\ UNCHANGED lists
           ELSE FailRun(k)
  /\ UNCHANGED toReceiver

\* The slice is read: the chunk goes out unless the transfer or link is over.
ReadDone(k) ==
  /\ Quiet /\ snd[k].run = "reading"
  /\ IF ~snd[k].cancelled /\ SenderOpen(k)
     THEN /\ snd' = [snd EXCEPT ![k].run = NextStage(k, snd[k].end), ![k].offset = snd[k].end,
                                 ![k].index = @ + 1]
          /\ TellReceiver(KeyMessage("chunk", k, snd[k].index))
          /\ UNCHANGED lists
     ELSE /\ IF snd[k].cancelled THEN EndRun(k) ELSE FailRun(k)
          /\ UNCHANGED toReceiver

\* The read fails, maybe long after the sender and its session.
ReadFails(k) ==
  /\ "read" \in Faults
  /\ Quiet /\ snd[k].run = "reading"
  /\ FailRun(k)
  /\ UNCHANGED toReceiver

SenderRuns ==
  /\ \E k \in Attempt : TakeGate(k) \/ LoopTurn(k) \/ ReadDone(k) \/ ReadFails(k)
  /\ UNCHANGED <<link, toSender, tries, receiving>>

-----------------------------------------------------------------------------
(* PeerSession.handleControl() on the sending side.                        *)

\* start(), also while a run() is reading: the next chunk has the new index then,
\* and the old data.
OnAccept(k, m) ==
  LET from == IF m.at > FileSize[k[1]] THEN FileSize[k[1]] ELSE m.at IN
  /\ snd' = [snd EXCEPT ![k].queued = @ + 1, ![k].offset = from, ![k].index = from]
  /\ UNCHANGED lists

\* handleReject() forbids further chunks even when fail() does nothing.
OnReject(k) ==
  IF snd[k].status \in Settled
  THEN snd' = [snd EXCEPT ![k].cancelled = TRUE] /\ UNCHANGED lists
  ELSE StopSenders({k}, "failed", {})

\* Slip: a confirmation that crosses a cancel is ignored.
OnCompleteWhileActive(k) ==
  IF snd[k].status \in Over THEN UNCHANGED <<snd, lists>>
  ELSE SetSender(k, [snd[k] EXCEPT !.status = "completed"])

\* handleComplete() does not look at the status.
OnComplete(k) == SetSender(k, [snd[k] EXCEPT !.status = "completed"])

OnSteered(k, m) ==
  \/ /\ m.type = "pause" /\ snd[k].status = "transferring"
     /\ SetSender(k, [snd[k] EXCEPT !.paused = TRUE, !.status = "paused"])
  \/ /\ m.type = "resume" /\ snd[k].status = "paused"
     /\ SetSender(k, [snd[k] EXCEPT !.paused = FALSE, !.status = "transferring"])
  \/ /\ \/ m.type = "pause" /\ snd[k].status # "transferring"
        \/ m.type = "resume" /\ snd[k].status # "paused"
     /\ UNCHANGED <<snd, lists>>

OnMessage(k, m) ==
  \/ m.type = "accept" /\ OnAccept(k, m)
  \/ m.type = "reject" /\ OnReject(k)
  \/ m.type = "complete" /\ OnComplete(k)
  \/ m.type = "cancel" /\ StopSenders({k}, "cancelled", {})
  \/ OnSteered(k, m)

SenderGets ==
  /\ Quiet
  /\ open["sender"] /\ toSender # <<>>
  /\ LET m == Head(toSender) IN
       IF m.type = "cancel-all" THEN StopSenders(Senders, "cancelled", {})
       ELSE OnMessage(Newest(m.t), m)
  /\ toSender' = Tail(toSender)
  /\ UNCHANGED <<link, toReceiver, tries, receiving>>

-----------------------------------------------------------------------------
(* The receiving side.                                                     *)

Receivers == {byId[t] : t \in {u \in Transfer : byId[u] # None}}

\* An older receiver's session may be gone while it is still at work.
TellSender(o, ms) ==
  toSender' = IF Linked /\ rcv[o].session = session["receiver"]
              THEN toSender \o ms ELSE toSender

\* A step of receiver o that its entry does not see, ...
PutReceiver(o, r) == rcv' = [rcv EXCEPT ![o] = r] /\ UNCHANGED <<rEntry, saved>>

\* ... and one that sets its status, and so its entry's.
SetReceiver(o, r) ==
  /\ rcv' = [rcv EXCEPT ![o] = r]
  /\ rEntry' = [rEntry EXCEPT ![o[1]] = r.status]
  /\ saved' = IF r.status = "completed" THEN saved \cup {o[1]} ELSE saved

FailReceiver(o, r) ==
  IF r.status = "completed" THEN PutReceiver(o, r) ELSE SetReceiver(o, [r EXCEPT !.status = "failed"])

Missed(k) ==
  \/ \E i \in DOMAIN toSender : toSender[i].type = "cancel-all"
  \/ /\ snd[k].status = "cancelled"
     /\ ~ \E i \in DOMAIN toReceiver : toReceiver[i].type = "cancel" /\ toReceiver[i].t = k[1]
     /\ \A i \in DOMAIN toReceiver : toReceiver[i].type # "cancel-all"

\* registerReceiveTransfer() makes the entry of t or takes the old one.
RegisterReceive(t) ==
  /\ rEntry' = [rEntry EXCEPT ![t] = "pending"]
  /\ onScreen' = onScreen \cup {t}

\* file-offer: a failed receiver is re-armed (prepareRetry), any other one is
\* replaced.
GetOffer(k) ==
  LET old == byId[k[1]]
      again == old # None /\ rcv[old].status = "failed"
      o == IF again THEN old ELSE k
  IN
  /\ rcv' = [rcv EXCEPT ![o] = IF again THEN [rcv[old] EXCEPT !.status = "pending", !.expected = rcv[old].got]
                               ELSE [NewReceiver(session["receiver"]) EXCEPT !.missed = Missed(k)]]
  /\ byKey' = [byKey EXCEPT ![k] = o]
  /\ byId' = [byId EXCEPT ![k[1]] = o]
  /\ RegisterReceive(k[1])
  /\ UNCHANGED <<saved, toSender>>

\* One chunk more is all of the file, or more.
Full(o, r) == r.got + 1 >= FileSize[o[1]]

\* A chunk is stored in memory; the last one completes the file.
Stored(o, r) ==
  IF Full(o, r)
  THEN /\ SetReceiver(o, [r EXCEPT !.got = @ + 1, !.stream = "none", !.status = "completed"])
       /\ TellSender(o, <<Message("complete", o[1])>>)
  ELSE /\ PutReceiver(o, [r EXCEPT !.got = @ + 1])
       /\ UNCHANGED toSender

\* Slip: the label is not compared.
AnyOrder(r, index) == TRUE

InOrder(r, index) == index = r.expected

\* Slip: the last chunk is confirmed before it is written.
ConfirmOnArrival(o, r) == IF r.expected >= FileSize[o[1]] THEN <<Message("complete", o[1])>> ELSE <<>>

\* What is sent for a chunk that waits to be written.
OnArrival(o, r) == <<>>

\* handleChunk(): to memory at once, as a pending write behind what the stream is
\* doing; an errored stream takes nothing.
GetChunk(o, index) ==
  LET r == rcv[o]
      next == [r EXCEPT !.expected = @ + 1]
  IN
  IF r.status \notin {"transferring", "paused"} THEN UNCHANGED <<rcv, rEntry, saved, toSender>>
  ELSE IF ~InOrder(r, index) THEN FailReceiver(o, r) /\ UNCHANGED toSender
  ELSE IF r.stream = "errored" THEN FailReceiver(o, next) /\ UNCHANGED toSender
  ELSE IF r.stream = "none" THEN Stored(o, next)
  ELSE PutReceiver(o, [next EXCEPT !.writing = @ + 1]) /\ TellSender(o, OnArrival(o, next))

\* close() is under way, maybe with a discard() that waits for it.
Closing == {"closing", "closingDiscarded"}

\* What discard() makes of the stream: it waits for a close(), and writes that
\* are pending will fail.
Discarded(r) ==
  IF r.stream \in Closing THEN "closingDiscarded" ELSE IF r.writing > 0 THEN "discarded" ELSE "none"

\* cancel().
Cancelled(r) ==
  IF r.status \in Settled THEN r ELSE [r EXCEPT !.status = "cancelled", !.stream = Discarded(r)]

\* cancel() of every receiver of K, then the entries in Extra.
StopReceivers(K, Extra) ==
  LET hit == {o[1] : o \in {o \in K : rcv[o].status \notin Settled}} \cup Extra IN
  /\ rcv' = [o \in Attempt |-> IF o \in K THEN Cancelled(rcv[o]) ELSE rcv[o]]
  /\ rEntry' = [t \in Transfer |-> IF t \in hit THEN "cancelled" ELSE rEntry[t]]
  /\ UNCHANGED saved

SetPaused(o, from, to) ==
  IF rcv[o].status = from THEN SetReceiver(o, [rcv[o] EXCEPT !.status = to])
  ELSE UNCHANGED <<rcv, rEntry, saved>>

ReceiverGets ==
  /\ Quiet
  /\ open["receiver"] /\ toReceiver # <<>>
  /\ LET m == Head(toReceiver)
         k == <<m.t, m.n>>
     IN
     \/ m.type = "offer" /\ GetOffer(k)
     \/ /\ \/ m.type = "chunk" /\ GetChunk(byKey[k], m.at)
           \/ m.type = "pause" /\ SetPaused(byId[m.t], "transferring", "paused") /\ UNCHANGED toSender
           \/ m.type = "resume" /\ SetPaused(byId[m.t], "paused", "transferring") /\ UNCHANGED toSender
           \/ m.type = "cancel" /\ StopReceivers({byId[m.t]}, {}) /\ UNCHANGED toSender
           \/ m.type = "cancel-all" /\ StopReceivers(Receivers, {}) /\ UNCHANGED toSender
        /\ UNCHANGED <<byKey, byId, onScreen>>
  /\ toReceiver' = Tail(toReceiver)
  /\ UNCHANGED <<link, sending>>

-----------------------------------------------------------------------------
(* The receiving user, the save dialog and the disk.                       *)

\* What accept() makes of a file of size chunks: an empty one is finalized at
\* once, in memory within this very step; the stream a failed close() left fails.
Begun(size, r) ==
  IF size > 0 THEN [r EXCEPT !.status = "transferring"]
  ELSE IF r.stream = "none" THEN [r EXCEPT !.status = "completed"]
  ELSE IF r.stream = "open" THEN [r EXCEPT !.status = "transferring", !.stream = "closing"]
  ELSE [r EXCEPT !.status = "failed"]

\* The end of accept(): the status is set whatever it was.
Accepted(o, r) ==
  LET accept == [Message("accept", o[1]) EXCEPT !.at = r.got]
      begun == Begun(FileSize[o[1]], [r EXCEPT !.dialog = FALSE, !.late = @ \/ r.status \in Over])
  IN
  /\ SetReceiver(o, begun)
  /\ TellSender(o, IF begun.status = "completed" THEN <<accept, Message("complete", o[1])>> ELSE <<accept>>)

Rejected(o, r) ==
  /\ SetReceiver(o, [r EXCEPT !.status = "cancelled", !.dialog = FALSE])
  /\ TellSender(o, <<Message("reject", o[1])>>)

\* getReceiver() of the session there is now: an offer stays on the screen
\* when its session ends.
Offered(t) == IF session["receiver"] # 0 THEN byId[t] ELSE None

\* acceptFileOffer() throws, and rejectFileOffer() does nothing, for an offer
\* that is no longer available.  A stream that was kept asks for no file.
UserAccepts(t) ==
  /\ IF Offered(t) = None THEN UNCHANGED <<rcv, rEntry, saved, toSender>>
     ELSE LET o == Offered(t) IN
          IF rcv[o].stream = "none"
          THEN PutReceiver(o, [rcv[o] EXCEPT !.dialog = TRUE]) /\ UNCHANGED toSender
          ELSE Accepted(o, rcv[o])

UserRejects(t) ==
  /\ "reject" \in Steering
  /\ IF Offered(t) = None THEN UNCHANGED <<rcv, rEntry, saved, toSender>>
     ELSE Rejected(Offered(t), rcv[Offered(t)])

UserAnswers ==
  \E t \in onScreen :
    /\ onScreen' = onScreen \ {t}
    /\ UserAccepts(t) \/ UserRejects(t)

\* The dialog ends with a file, with an error (memory is used), or is closed.
DialogEnds(o) ==
  /\ rcv[o].dialog
  /\ \/ Accepted(o, [rcv[o] EXCEPT !.stream = "open"])
     \/ "picker" \in Faults /\ Accepted(o, rcv[o])
     \/ "reject" \in Steering /\ Rejected(o, rcv[o])

\* A pending write ends, and the last one goes on to close() ...
WriteDone(o) ==
  LET r == rcv[o] IN
  /\ r.writing > 0 /\ r.stream = "open"
  /\ PutReceiver(o, [r EXCEPT !.writing = @ - 1, !.got = @ + 1,
                               !.stream = IF Full(o, r) THEN "closing" ELSE "open"])
  /\ UNCHANGED toSender

\* ... or fails, and the rest with it.  On a discarded stream the one that was
\* under way may still count; what comes after it, a write or close(), fails.
WriteFails(o) ==
  LET r == [rcv[o] EXCEPT !.writing = 0] IN
  /\ rcv[o].writing > 0
  /\ \/ "write" \in Faults /\ r.stream = "open" /\ FailReceiver(o, [r EXCEPT !.stream = "errored"])
     \/ r.stream = "discarded" /\ FailReceiver(o, [r EXCEPT !.stream = "none"])
     \/ r.stream = "discarded" /\ LET counted == [r EXCEPT !.stream = "none", !.got = @ + 1] IN
          IF rcv[o].writing > 1 \/ Full(o, r) THEN FailReceiver(o, counted) ELSE PutReceiver(o, counted)
  /\ UNCHANGED toSender

\* close() ends well.  Chunks behind it find no stream: each goes to memory and,
\* the count being full, completes the file again.
CloseDone(o) ==
  LET r == rcv[o] IN
  /\ r.stream \in Closing
  /\ SetReceiver(o, [r EXCEPT !.stream = "none", !.status = "completed", !.got = @ + r.writing, !.writing = 0])
  /\ TellSender(o, [i \in 1..(r.writing + 1) |-> Message("complete", o[1])])

\* close() fails, and the writes behind it.
CloseFails(o) ==
  LET r == rcv[o] IN
  /\ "write" \in Faults
  /\ r.stream \in Closing
  /\ FailReceiver(o, [r EXCEPT !.stream = IF r.stream = "closing" THEN "errored" ELSE "none", !.writing = 0])
  /\ UNCHANGED toSender

\* Bounds the control messages that wait for the sender.
RoomForReply ==
  \A i \in DOMAIN toSender : toSender[i].type \notin {"pause", "resume", "cancel", "cancel-all"}

ReceiverPauses(t) ==
  LET o == Offered(t) IN
  /\ "pause" \in Steering /\ RoomForReply
  /\ o # None
  /\ \/ /\ rcv[o].status = "transferring"
        /\ SetReceiver(o, [rcv[o] EXCEPT !.status = "paused"])
        /\ TellSender(o, <<Message("pause", t)>>)
     \/ /\ rcv[o].status = "paused"
        /\ SetReceiver(o, [rcv[o] EXCEPT !.status = "transferring"])
        /\ TellSender(o, <<Message("resume", t)>>)

\* cancelTransfer() on this side.
ReceiverCancels(t) ==
  LET o == Offered(t) IN
  /\ "cancel" \in Steering /\ RoomForReply
  /\ rEntry[t] \in Active
  /\ IF o = None
     THEN rEntry' = [rEntry EXCEPT ![t] = "cancelled"] /\ UNCHANGED <<rcv, saved, toSender>>
     ELSE /\ StopReceivers({o}, {})
          /\ IF rcv[o].status \in Settled THEN UNCHANGED toSender
             ELSE TellSender(o, <<Message("cancel", t)>>)

ReceiverCancelsAll ==
  /\ "cancelAll" \in Steering /\ RoomForReply
  /\ Cancellable(rEntry) # {}
  /\ StopReceivers(IF session["receiver"] # 0 THEN Receivers ELSE {}, Cancellable(rEntry))
  /\ toSender' = IF Linked THEN Append(toSender, Message("cancel-all", None)) ELSE toSender

ReceivingSide ==
  /\ Quiet
  /\ \/ UserAnswers
     \/ /\ \/ \E o \in Attempt : DialogEnds(o) \/ WriteDone(o) \/ WriteFails(o) \/ CloseDone(o) \/ CloseFails(o)
           \/ \E t \in Transfer : ReceiverPauses(t) \/ ReceiverCancels(t)
           \/ ReceiverCancelsAll
        /\ UNCHANGED onScreen
  /\ UNCHANGED <<link, toReceiver, sending, byKey, byId>>

-----------------------------------------------------------------------------
(* The sessions.                                                           *)

\* A session of the pair, once both sides have given up the one before.
LinkUp ==
  /\ Quiet
  /\ sessions < MaxSessions
  /\ \A d \in Side : session[d] = 0
  /\ sessions' = sessions + 1
  /\ session' = [d \in Side |-> sessions + 1]
  /\ open' = [d \in Side |-> TRUE]
  /\ toReceiver' = <<>> /\ toSender' = <<>>
  /\ byKey' = [k \in Attempt |-> None]
  /\ byId' = [t \in Transfer |-> None]
  /\ UNCHANGED <<sending, rcv, onScreen, rEntry, saved>>

\* What a side had not received when its channel closed is lost.
Loses(d) ==
  /\ open' = [open EXCEPT ![d] = FALSE]
  /\ toReceiver' = IF d = "receiver" THEN <<>> ELSE toReceiver
  /\ toSender' = IF d = "sender" THEN <<>> ELSE toSender

\* The channel closes; its session takes no notice.
ChannelLost(d) ==
  /\ open[d]
  /\ Loses(d)
  /\ UNCHANGED <<sessions, session, sending, receiving>>

Ends(d) ==
  /\ session[d] # 0
  /\ session' = [session EXCEPT ![d] = 0]
  /\ Loses(d)

\* Slip: close() leaves the transfers alone.
NoneLost == {}

\* The senders close() fails.
LostSenders == Senders

\* teardownSession() and close() fail the newest sender of each transfer, ...
SenderLosesSession ==
  /\ Ends("sender")
  /\ StopSenders(LostSenders, "failed", {})
  /\ UNCHANGED <<sessions, tries, receiving>>

\* ... and the newest receiver.
ReceiverLosesSession ==
  /\ Ends("receiver")
  /\ LET hit == {o \in Receivers : rcv[o].status # "completed"} IN
       /\ rcv' = [o \in Attempt |-> IF o \in hit THEN [rcv[o] EXCEPT !.status = "failed"] ELSE rcv[o]]
       /\ rEntry' = [t \in Transfer |-> IF t \in {o[1] : o \in hit} THEN "failed" ELSE rEntry[t]]
  /\ UNCHANGED <<sessions, sending, byKey, byId, onScreen, saved>>

LinkBreaks ==
  /\ "link" \in Faults /\ Quiet
  /\ (\E d \in Side : ChannelLost(d)) \/ SenderLosesSession \/ ReceiverLosesSession

Next ==
  \/ SendingUser \/ SenderRuns \/ SenderGets
  \/ ReceiverGets \/ ReceivingSide
  \/ LinkUp \/ LinkBreaks

Spec == Init /\ [][Next]_vars

-----------------------------------------------------------------------------
(* Properties.                                                             *)

Messages ==
  [type : {"offer", "chunk", "accept", "reject", "complete", "pause", "resume", "cancel", "cancel-all"},
   t : Transfer \cup {None}, n : 0..MaxAttempts, at : Nat]

\* The fields of both sides: offsets stay within the file, objects exist in
\* sessions that were, and what is offered was tried.  (A chunk index and a
\* receiver's counts have no such bound: the code compares them with each other.)
TypeOK ==
  /\ sessions \in 0..MaxSessions
  /\ session \in [Side -> 0..sessions] /\ open \in [Side -> BOOLEAN]
  /\ \A i \in DOMAIN toReceiver : toReceiver[i] \in Messages
  /\ \A i \in DOMAIN toSender : toSender[i] \in Messages
  /\ tries \in [Transfer -> 0..MaxAttempts]
  /\ \A k \in Attempt :
       /\ snd[k] \in [session : 0..sessions, status : Active \cup Over, cancelled : BOOLEAN,
                      paused : BOOLEAN, queued : Nat, run : {"idle", "loop", "reading"},
                      offset : 0..FileSize[k[1]], index : Nat, end : 0..FileSize[k[1]],
                      stray : BOOLEAN, overtaken : BOOLEAN]
       /\ rcv[k] \in [session : 0..sessions, status : Active \cup Over, got : Nat,
                      expected : Nat, writing : Nat,
                      stream : {"none", "open", "errored", "discarded"} \cup Closing, dialog : BOOLEAN,
                      late : BOOLEAN, missed : BOOLEAN]
       /\ byKey[k] # None => byKey[k][1] = k[1] /\ byKey[k][2] \in 1..k[2] /\ k[2] <= tries[k[1]]
  /\ \A t \in Transfer : byId[t] # None => \E n \in 1..tries[t] : byKey[<<t, n>>] = byId[t]
  /\ onScreen \subseteq Transfer /\ saved \subseteq Transfer
  /\ sEntry \in [Transfer -> Active \cup Over \cup {"none"}]
  /\ rEntry \in [Transfer -> Active \cup Over \cup {"none"}]

\* An attempt is reported to the history once: never again by what its sender
\* is told after its end, and at the latest when the user tries again.
EveryAttemptReported ==
  \A k \in Attempt :
    /\ Len(reports[k]) <= 1
    /\ \/ k[2] < tries[k[1]]
       \/ k = Newest(k[1]) /\ sEntry[k[1]] \in Over
       => reports[k] # <<>>

\* The history calls a transfer completed only if the peer saved the file, in
\* whichever attempt and session.
CompletedRecordIsSaved ==
  \A k \in Attempt : "completed" \in {reports[k][i] : i \in DOMAIN reports[k]} => k[1] \in saved

\* A sender of t that nothing stops any more got the gate: the user retried a
\* transfer whose last sender was still alive, or the receiver accepted once more
\* what it had already confirmed.
Strayed(t) == \E n \in 1..MaxAttempts : snd[<<t, n>>].stray

\* The list shows the status of the newest sender of a transfer, though every
\* sender it ever had can write to the entry.  (Aside: the read of an attempt
\* that failed may fail after the retry, and fails the entry once more; and
\* senders that got the gate after they were replaced.)
ShownIsNewest ==
  \A t \in Transfer : tries[t] > 0 /\ ~Strayed(t) =>
    \/ sEntry[t] = snd[Newest(t)].status
    \/ sEntry[t] = "failed" /\ \E n \in 1..(tries[t] - 1) : snd[<<t, n>>].status = "failed"

\* "In-flight transfers are marked failed": without a session no transfer is
\* shown as under way on the sending side, so that it can be tried again.  (Aside:
\* a paused or finished sender that gets the gate when its session has ended.)
LostIsShown ==
  \A t \in Transfer : session["sender"] = 0 /\ ~Strayed(t) => sEntry[t] \notin Active

\* Nothing of t is on its way between the two sides or waits inside one.
AtRest(t) ==
  /\ toReceiver = <<>> /\ toSender = <<>>
  /\ \A n \in 1..MaxAttempts :
       /\ snd[<<t, n>>].queued = 0 /\ snd[<<t, n>>].run # "reading"
       /\ ~rcv[<<t, n>>].dialog /\ rcv[<<t, n>>].writing = 0 /\ rcv[<<t, n>>].stream \notin Closing

\* Offered once in a session both sides still have: the only attempt whose
\* messages can have crossed.
Undisturbed(t) ==
  /\ \A d \in Side : open[d] /\ session[d] = sessions
  /\ tries[t] > 0
  /\ \A n \in 1..tries[t] : snd[<<t, n>>].session = sessions <=> n = tries[t]
  /\ byId[t] = Newest(t)

\* Once all is quiet the two sides agree, whatever cancels, pauses, last chunks,
\* close() and confirmations crossed: what the sender shows completed the receiver
\* has saved, and it saves nothing the sender does not show completed, but for an
\* empty file whose confirmation came before its run() got the gate; a transfer
\* one user cancelled is over for the other.  The last is less than "kills every
\* active and queued transfer on the session, both sides" in two cases: the
\* receiver's cancel-all met an offer on its way (missed), and the offer was
\* accepted after the cancellation had come (late).  (Aside: who failed tells
\* its peer nothing.)
SidesAgree ==
  \A t \in Transfer : AtRest(t) /\ Undisturbed(t) =>
    LET s == snd[Newest(t)]
        r == rcv[Newest(t)]
    IN
    /\ s.status = "completed" => r.status = "completed"
    /\ r.status = "completed" => s.status = "completed" \/ (FileSize[t] = 0 /\ s.overtaken)
    /\ s.status = "cancelled" => r.status \in Over \/ r.missed \/ r.late
    /\ r.status = "cancelled" => s.status \in Over

\* "On connection loss ... the receiver answers with resumeFrom = receivedBytes
\* so only missing bytes are resent": an answer never asks for less than a failed
\* receiver of the transfer has on disk.
RetryResumes ==
  \A i \in DOMAIN toSender : toSender[i].type = "accept" =>
    \A n \in 1..MaxAttempts :
      LET r == rcv[<<toSender[i].t, n>>] IN
      r.status = "failed" /\ r.stream = "open" => toSender[i].at >= r.got

=============================================================================
