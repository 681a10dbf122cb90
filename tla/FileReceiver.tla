----------------------------- MODULE FileReceiver -----------------------------
(***************************************************************************)
(* The receiving half of one PeerSession: every FileReceiver object of the *)
(* session (client/src/p2p/FileReceiver.ts) and the messages it sends back.*)
(*                                                                         *)
(* A handler runs to its end together with the promise continuations that  *)
(* are due, so an action goes from an event to the next real wait: the     *)
(* save dialog, a disk write, the close or the abort of the stream.        *)
(*                                                                         *)
(* writeQueue is a chain with at most one disk operation under way, that   *)
(* of its first element.  In memory a chunk is stored at once.             *)
(*                                                                         *)
(* The file stream is the browser's (WHATWG Streams): an error makes every *)
(* later write fail; abort() lets the write under way end and makes every  *)
(* later one fail; a close() under way is not undone by abort().           *)
(***************************************************************************)
EXTENDS Naturals, Sequences

CONSTANTS
  Receiver,    \* the FileReceiver objects
  RSize,       \* RSize[o]: chunks of the file offered to o
  AckEvery,    \* ACK_EVERY_N_CHUNKS
  HasPicker,   \* window.showSaveFilePicker exists, or a folder was chosen
  TransferOf   \* TransferOf[o]: the transferId in the offer of o

VARIABLES
  rStatus,     \* status
  rReceived,   \* receivedBytes, in chunks
  rExpected,   \* expectedChunkIndex
  rSinceAck,   \* chunksSinceAck
  rQueue,      \* data of the chunks in writeQueue
  rStream,     \* writable: "none" is null
  rContent,    \* data written to the stream, or memoryParts
  rSaved,      \* the files handed to the user, oldest first
  rPicking,    \* accept() waits for the save dialog
  toSender,    \* messages accepted by channel.send(), oldest first
  receiverOpen,\* this side's channel.readyState = 'open'
  peerOpen     \* the other side's

objectVars == <<rStatus, rReceived, rExpected, rSinceAck, rQueue, rStream, rContent, rSaved, rPicking>>
receiverVars == <<objectVars, toSender, receiverOpen>>

\* Slip: chunks are taken before the offer is answered.
ActiveUnanswered(o) == rStatus[o] \in {"pending", "transferring", "paused"}

\* Slip: a pause stops chunks on arrival.
ActiveUnlessPaused(o) == rStatus[o] = "transferring"

\* The states in which chunks are taken: pause() drains what is on its way.
Active(o) == rStatus[o] \in {"transferring", "paused"}

Stream == {"none", "open", "errored", "closing", "aborting", "closingAborted"}

InitReceiver ==
  /\ rStatus = [o \in Receiver |-> "pending"]
  /\ rReceived = [o \in Receiver |-> 0]
  /\ rExpected = [o \in Receiver |-> 0]
  /\ rSinceAck = [o \in Receiver |-> 0]
  /\ rQueue = [o \in Receiver |-> <<>>]
  /\ rStream = [o \in Receiver |-> "none"]
  /\ rContent = [o \in Receiver |-> <<>>]
  /\ rSaved = [o \in Receiver |-> <<>>]
  /\ rPicking = [o \in Receiver |-> FALSE]
  /\ toSender = <<>>
  /\ receiverOpen = TRUE

-----------------------------------------------------------------------------
(* Building blocks of the handlers.                                        *)

Reply(t, o) == [type |-> t, id |-> TransferOf[o], bytes |-> 0]
ReplyBytes(t, o, n) == [type |-> t, id |-> TransferOf[o], bytes |-> n]

CancelAllReply == [type |-> "cancel-all"]

\* sendControl drops the messages when the channel is not open; with the other
\* side closed they go nowhere.
Tell(ms) == toSender' = IF receiverOpen /\ peerOpen THEN toSender \o ms ELSE toSender

SetStatus(o, st) == rStatus' = [rStatus EXCEPT ![o] = st]

\* fail() gives way to "completed" only.
Fail(o) ==
  rStatus' = IF rStatus[o] = "completed" THEN rStatus ELSE [rStatus EXCEPT ![o] = "failed"]

Full(o) == rReceived[o] + 1 >= RSize[o]

\* Slip: one chunk late.
AckDueLate(o) == rSinceAck[o] + 1 > AckEvery
AckDue(o) == rSinceAck[o] + 1 >= AckEvery

\* Slip: what arrived is acknowledged, not what was written.
AckOnArrival(o) == IF AckDue(o) THEN <<ReplyBytes("ack", o, rExpected[o])>> ELSE <<>>

\* After a chunk was stored: the acknowledgement, if one is due.
Ack(o) == IF AckDue(o) THEN <<ReplyBytes("ack", o, rReceived[o] + 1)>> ELSE <<>>

CountChunk(o) ==
  /\ rReceived' = [rReceived EXCEPT ![o] = @ + 1]
  /\ rSinceAck' = [rSinceAck EXCEPT ![o] = IF AckDue(o) THEN 0 ELSE @ + 1]

-----------------------------------------------------------------------------
(* prepareRetry() and accept().                                            *)

PrepareRetry(o) ==
  /\ SetStatus(o, "pending")
  /\ rExpected' = [rExpected EXCEPT ![o] = rReceived[o]]
  /\ rSinceAck' = [rSinceAck EXCEPT ![o] = 0]
  /\ UNCHANGED <<rReceived, rQueue, rStream, rContent, rSaved, rPicking, toSender, receiverOpen>>

\* The end of accept(), with stream and content as the destination.  A file
\* of no chunks is finalized at once: in memory within this very step.
Accepted(o, stream, content) ==
  LET accept == ReplyBytes("accept", o, rReceived[o])
      empty == RSize[o] = 0
  IN
  /\ rStream' = [rStream EXCEPT ![o] = IF empty /\ stream = "open" THEN "closing" ELSE stream]
  /\ rContent' = [rContent EXCEPT ![o] = content]
  /\ IF empty /\ stream = "none"
     THEN /\ Tell(<<accept, Reply("complete", o)>>)
          /\ SetStatus(o, "completed")
          /\ rSaved' = [rSaved EXCEPT ![o] = Append(@, <<>>)]
     ELSE /\ Tell(<<accept>>)
          /\ SetStatus(o, IF empty /\ stream # "open" THEN "failed" ELSE "transferring")
          /\ UNCHANGED rSaved
  /\ UNCHANGED <<rReceived, rExpected, rSinceAck, rQueue, receiverOpen>>

Accept(o) ==
  IF rStream[o] = "none" /\ HasPicker
  THEN /\ rPicking' = [rPicking EXCEPT ![o] = TRUE]
       /\ UNCHANGED <<rStatus, rReceived, rExpected, rSinceAck, rQueue, rStream, rContent, rSaved,
                      toSender, receiverOpen>>
  ELSE /\ Accepted(o, rStream[o], rContent[o])
       /\ UNCHANGED rPicking

\* The dialog ends: with an empty file to write to, ...
PickFile(o) ==
  /\ rPicking[o]
  /\ Accepted(o, "open", <<>>)
  /\ rPicking' = [rPicking EXCEPT ![o] = FALSE]

\* ... with an error other than AbortError, and memory takes the chunks, ...
PickFails(o) ==
  /\ rPicking[o]
  /\ Accepted(o, rStream[o], rContent[o])
  /\ rPicking' = [rPicking EXCEPT ![o] = FALSE]

\* ... or with AbortError: the user closed it.
PickCancelled(o) ==
  /\ rPicking[o]
  /\ rPicking' = [rPicking EXCEPT ![o] = FALSE]
  /\ SetStatus(o, "cancelled")
  /\ Tell(<<Reply("reject", o)>>)
  /\ UNCHANGED <<rReceived, rExpected, rSinceAck, rQueue, rStream, rContent, rSaved, receiverOpen>>

Reject(o) ==
  /\ SetStatus(o, "cancelled")
  /\ Tell(<<Reply("reject", o)>>)
  /\ UNCHANGED <<rReceived, rExpected, rSinceAck, rQueue, rStream, rContent, rSaved, rPicking,
                 receiverOpen>>

-----------------------------------------------------------------------------
(* Chunks.                                                                 *)

\* In memory the chunk is stored and the last one saves the file.
StoreInMemory(o, d) ==
  LET parts == Append(rContent[o], d) IN
  /\ CountChunk(o)
  /\ IF Full(o)
     THEN /\ Tell(Append(Ack(o), Reply("complete", o)))
          /\ rContent' = [rContent EXCEPT ![o] = <<>>]
          /\ rSaved' = [rSaved EXCEPT ![o] = Append(@, parts)]
          /\ SetStatus(o, "completed")
     ELSE /\ Tell(Ack(o))
          /\ rContent' = [rContent EXCEPT ![o] = parts]
          /\ UNCHANGED <<rSaved, rStatus>>
  /\ UNCHANGED <<rQueue, rStream>>

\* A write on an errored or aborted stream fails at once.
StoreFails(o) ==
  /\ Fail(o)
  /\ UNCHANGED <<rReceived, rSinceAck, rQueue, rStream, rContent, rSaved, toSender>>

StoreOnDisk(o, d) ==
  /\ rQueue' = [rQueue EXCEPT ![o] = Append(@, d)]
  /\ UNCHANGED <<rStatus, rReceived, rSinceAck, rStream, rContent, rSaved, toSender>>

InOrder(o, index) == index = rExpected[o]

IgnoreChunk(o, index) == ~Active(o) /\ UNCHANGED receiverVars

OutOfOrder(o, index) ==
  /\ Active(o)
  /\ ~InOrder(o, index)
  /\ Fail(o)
  /\ UNCHANGED <<rReceived, rExpected, rSinceAck, rQueue, rStream, rContent, rSaved, rPicking,
                 toSender, receiverOpen>>

StoreChunk(o, index, d) ==
  /\ Active(o)
  /\ InOrder(o, index)
  /\ rExpected' = [rExpected EXCEPT ![o] = @ + 1]
  /\ CASE rQueue[o] # <<>> \/ rStream[o] \in {"open", "closing", "closingAborted"} -> StoreOnDisk(o, d)
       [] rStream[o] = "none" /\ rQueue[o] = <<>> -> StoreInMemory(o, d)
       [] rStream[o] \in {"errored", "aborting"} /\ rQueue[o] = <<>> -> StoreFails(o)
  /\ UNCHANGED <<rPicking, receiverOpen>>

HandleChunk(o, index, d) ==
  IgnoreChunk(o, index) \/ OutOfOrder(o, index) \/ StoreChunk(o, index, d)

-----------------------------------------------------------------------------
(* The disk.                                                               *)

Writing(o) == rQueue[o] # <<>> /\ rStream[o] \in {"open", "aborting"}

\* Slip: file-complete is sent before the stream is closed.
ConfirmBeforeClose(o) == IF Full(o) THEN Append(Ack(o), Reply("complete", o)) ELSE Ack(o)

\* What a finished write sends.
ConfirmWrite(o) == Ack(o)

\* write() ends well; the last chunk goes on to close(), and only that ends
\* with file-complete.
WriteDone(o) ==
  /\ Writing(o) /\ rStream[o] = "open"
  /\ CountChunk(o)
  /\ Tell(ConfirmWrite(o))
  /\ rContent' = [rContent EXCEPT ![o] = Append(@, Head(rQueue[o]))]
  /\ rQueue' = [rQueue EXCEPT ![o] = Tail(@)]
  /\ rStream' = [rStream EXCEPT ![o] = IF Full(o) THEN "closing" ELSE "open"]
  /\ UNCHANGED <<rStatus, rExpected, rSaved, rPicking, receiverOpen>>

\* The write that was under way when the transfer was discarded ends well.
\* Whatever the chain does next, writing or closing, fails.
WriteDoneAborted(o) ==
  /\ Writing(o) /\ rStream[o] = "aborting"
  /\ CountChunk(o)
  /\ Tell(Ack(o))
  /\ IF Full(o) \/ Tail(rQueue[o]) # <<>> THEN Fail(o) ELSE UNCHANGED rStatus
  /\ rQueue' = [rQueue EXCEPT ![o] = <<>>]
  /\ UNCHANGED <<rExpected, rStream, rContent, rSaved, rPicking, receiverOpen>>

\* write() fails, and with it the rest of the chain.
WriteFails(o) ==
  /\ Writing(o)
  /\ Fail(o)
  /\ rQueue' = [rQueue EXCEPT ![o] = <<>>]
  /\ rStream' = [rStream EXCEPT ![o] = IF @ = "open" THEN "errored" ELSE @]
  /\ UNCHANGED <<rReceived, rExpected, rSinceAck, rContent, rSaved, rPicking, toSender, receiverOpen>>

Closing(o) == rStream[o] \in {"closing", "closingAborted"}

\* What follows the end of close() with n chunks still in the chain: file-complete,
\* and with each of them an acknowledgement, if one is due, and file-complete again.
\* So one message of AckEvery + 1 is an acknowledgement, of the chunks stored so far.
Confirmations(o, n) ==
  LET due(p) == (rSinceAck[o] + p) % (AckEvery + 1) = 0
      stored(p) == rReceived[o] + p - (rSinceAck[o] + p) \div (AckEvery + 1)
  IN
  [p \in 1..(n + 1 + (rSinceAck[o] + n) \div AckEvery) |->
     IF due(p) THEN ReplyBytes("ack", o, stored(p)) ELSE Reply("complete", o)]

\* close() ends well.  A chunk still in the chain finds no stream: it goes to
\* memory and, the count being full, is saved as a file of its own.
CloseDone(o) ==
  LET late == rQueue[o] IN
  /\ Closing(o)
  /\ rStream' = [rStream EXCEPT ![o] = "none"]
  /\ rContent' = [rContent EXCEPT ![o] = <<>>]
  /\ rSaved' = [rSaved EXCEPT ![o] = Append(@, rContent[o]) \o [i \in DOMAIN late |-> <<late[i]>>]]
  /\ SetStatus(o, "completed")
  /\ Tell(Confirmations(o, Len(late)))
  /\ rReceived' = [rReceived EXCEPT ![o] = @ + Len(late)]
  /\ rSinceAck' = [rSinceAck EXCEPT ![o] = (@ + Len(late)) % AckEvery]
  /\ rQueue' = [rQueue EXCEPT ![o] = <<>>]
  /\ UNCHANGED <<rExpected, rPicking, receiverOpen>>

\* close() fails; the chain fails.  discard() is over if it was waiting.
CloseFails(o) ==
  /\ Closing(o)
  /\ Fail(o)
  /\ rQueue' = [rQueue EXCEPT ![o] = <<>>]
  /\ IF rStream[o] = "closing"
     THEN rStream' = [rStream EXCEPT ![o] = "errored"] /\ UNCHANGED rContent
     ELSE /\ rStream' = [rStream EXCEPT ![o] = "none"]
          /\ rContent' = [rContent EXCEPT ![o] = <<>>]
  /\ UNCHANGED <<rReceived, rExpected, rSinceAck, rSaved, rPicking, toSender, receiverOpen>>

\* The rest of discard(): writable = null, memoryParts = [].
AbortDone(o) ==
  /\ rStream[o] = "aborting" /\ rQueue[o] = <<>>
  /\ rStream' = [rStream EXCEPT ![o] = "none"]
  /\ rContent' = [rContent EXCEPT ![o] = <<>>]
  /\ UNCHANGED <<rStatus, rReceived, rExpected, rSinceAck, rQueue, rSaved, rPicking, toSender,
                 receiverOpen>>

DiskStep(o) ==
  WriteDone(o) \/ WriteDoneAborted(o) \/ CloseDone(o) \/ AbortDone(o)

DiskFault(o) == WriteFails(o) \/ CloseFails(o)

-----------------------------------------------------------------------------
(* Calls from PeerSession, P2PManager and the user.                        *)

PauseReceiver(o, local) ==
  /\ rStatus[o] = "transferring"
  /\ SetStatus(o, "paused")
  /\ IF local THEN Tell(<<Reply("pause", o)>>) ELSE UNCHANGED toSender
  /\ UNCHANGED <<rReceived, rExpected, rSinceAck, rQueue, rStream, rContent, rSaved, rPicking,
                 receiverOpen>>

ResumeReceiver(o, local) ==
  /\ rStatus[o] = "paused"
  /\ SetStatus(o, "transferring")
  /\ IF local THEN Tell(<<Reply("resume", o)>>) ELSE UNCHANGED toSender
  /\ UNCHANGED <<rReceived, rExpected, rSinceAck, rQueue, rStream, rContent, rSaved, rPicking,
                 receiverOpen>>

\* Slip: cancel() without discard().
KeptStream(stream) == stream

\* What discard() makes of the stream before it waits for abort().
DiscardedStream(stream) ==
  CASE stream = "open" -> "aborting"
    [] stream = "closing" -> "closingAborted"
    [] stream = "errored" -> "none"
    [] OTHER -> stream

\* cancel() of every receiver of T, each with its discard() up to that wait.
StopReceivers(T) ==
  LET stopped == {o \in T : rStatus[o] \notin {"completed", "cancelled"}} IN
  /\ rStatus' = [o \in Receiver |-> IF o \in stopped THEN "cancelled" ELSE rStatus[o]]
  /\ rStream' = [o \in Receiver |->
       IF o \in stopped THEN DiscardedStream(rStream[o]) ELSE rStream[o]]
  /\ rContent' = [o \in Receiver |->
       IF o \in stopped /\ rStream[o] \in {"none", "errored"} THEN <<>> ELSE rContent[o]]
  /\ UNCHANGED <<rReceived, rExpected, rSinceAck, rQueue, rSaved, rPicking, receiverOpen>>

CancelReceiver(o, local) ==
  /\ rStatus[o] \notin {"completed", "cancelled"}
  /\ StopReceivers({o})
  /\ IF local THEN Tell(<<Reply("cancel", o)>>) ELSE UNCHANGED toSender

\* cancelAllTransfers() over the receivers in T.
CancelAllReceivers(T, local) ==
  /\ StopReceivers(T)
  /\ IF local THEN Tell(<<CancelAllReply>>) ELSE UNCHANGED toSender

=============================================================================
