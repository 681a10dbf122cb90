# Verification of p2p-data-transfer

TLA+ models of the peer-to-peer file transfer in this repository, the TLC runs that
model-check them, and TLAPS proofs about them. Paths are relative to the root of the
repository; line numbers are those of the commit the models were written from.

Two browsers find each other through a server ("M1": REST and Socket.IO), negotiate a
WebRTC DataChannel through it, and from then on talk directly: text, JSON and files. The
core of the program is what happens on that channel: several files at once, backpressure,
pause, resume, cancel, retry with resume, and a file that must arrive whole.

## 1. Inventory

| Component | State it keeps | Operations | Status |
|---|---|---|---|
| `SendScheduler` (`client/src/p2p/FileSender.ts:16-33`) | `busy`, `queue` | `acquire`, `release` | modelled: `SendScheduler` |
| `FileSender` (`FileSender.ts:43-203`) | `status`, `offset`, `chunkIndex`, `cancelled`, `paused`, `resumeWaiters`, `ackedBytes`, the suspended `run()` | `start`, `run`, `pause`, `resume`, `cancel`, `handleAck`, `handleComplete`, `handleReject`, `fail` | modelled: `FileSender` |
| `FileReceiver` (`FileReceiver.ts`) | `status`, `receivedBytes`, `expectedChunkIndex`, `chunksSinceAck`, `writable`, `memoryParts`, `writeQueue` | `accept`, `reject`, `handleChunk`, `finalize`, `pause`, `resume`, `cancel`, `fail`, `prepareRetry` | modelled: `FileReceiver` |
| `PeerSession`, transfers (`PeerSession.ts:161-352`) | the four maps of senders and receivers, the channel | `offerFile`, `handleControl`, chunk routing, `cancelAllTransfers`, `close` | partly: `FileTransfer` and, across sessions, `TransferRegistry` (not text and JSON) |
| `PeerSession`, negotiation (`PeerSession.ts:53-157`) | `pendingCandidates`, `remoteDescriptionSet`, `restartAttempts`, `connectTimer` | `initiate`, `handleOffer/Answer/Candidate`, `tryRecover` | modelled: `PeerLink`; single steps in `Connection` |
| `P2PManager`, peers (`P2PManager.ts:66-362`) | `sessions`, `peerStates`, `authorizedPeers`, `trustedPeers`, `reconnectAttempts` | request, accept, reject, open, tear down, auto-reconnect, trust | modelled: `Connection`, with `stop()`, a page reloaded and an identity registered anew |
| `P2PManager`, registry (`P2PManager.ts:378-606`) | `transfers` with `reported` | send, retry, pause, resume, cancel, accept, reject, status, history | partly: `TransferRegistry` (not progress, speed and the order of the list) |
| Server presence and relay (`SignalingGateway.ts`, `DeviceService.ts`, `memory.ts`) | device table, sockets, rooms | register, connect, disconnect, list, forward | partly: `Presence`; forwarding in `Connection` (not the unused `/disconnect` route) |
| `P2PManager`, device list (`P2PManager.ts:78-105, 165-177`) | `devices`, `pollTimer` | list and presence events, poll | modelled: `Presence` |
| Server history (`HistoryService.ts`) | transfer records | record, list | partly: what is reported, and with which `startedAt`, is `reports` of `TransferRegistry`; the list is a filter and a sort |
| Server accounts and REST (`AuthService.ts`, `routes.ts`, `middleware.ts`) | users | register, login, verify | not modelled: checks around bcrypt and JWT, unused by the client |
| `AppContext.tsx` | identity of the device | bootstrap, stale identity, reset | partly: `Presence` (registration and recovery), `Connection` (what they do to the links) |
| Wire format (`shared/protocol.ts:247-263`) | none | `encodeChunk`, `decodeChunkHeader` | abstracted: a frame is key, index and slice |
| Peer panel, transfer list, dialogs (`PeerPanel.tsx`, `TransferList.tsx`, `useP2P.ts`, `DashboardPage.tsx`) | the dialogs and offers that are open | the users' buttons | partly: guards of the users' actions in `Connection`, `FileTransfer` and `TransferRegistry` (not the batch accept) |
| Rendering, speed meter, formatting | none of interest | | not modelled |

How they interact. A `FileSender` hands frames and control messages to the channel and
shares the gate with the other senders of its session. `PeerSession` of the other side
routes a frame by the key in its header (`receiversByKey`) and everything else by
`transferId` (`sendersById`, `receiversById`). A `FileReceiver` answers with `file-accept`,
`chunk-ack`, `file-complete`, `file-reject` and the three steering messages. `P2PManager`
and the dashboard call the session's objects on behalf of the user. The server is involved
in finding the peer and in negotiation only: `P2PManager` sends requests, acceptances, SDPs and
goodbyes through it to the other `P2PManager`, which creates or ends the `PeerSession` of its side.

What is hard. Every `await` lets other handlers run: the slice read and the drain inside
`run()`, the save dialog inside `accept()`, each disk write, `close()` and `abort()` of the
file stream. Both users steer the same transfer, or end all of them at once, and messages cross. A retry creates a new
sender while the old one may still hold the gate, and may re-arm an old receiver or replace
one whose dialog is still open. Each side sees the channel close in its own time. While a link is being set up or lost, two managers,
two sessions and the server hold five opinions about it, and timers, HTTP calls, dialogs and messages
of several attempts are under way together. An entry of the transfer list outlives sessions, and every sender
it ever had may still write to it. An ICE restart may start while the last negotiation is still going on, and
every step of a negotiation is an `await` that candidates overtake.
`PROJECT.json` lists these places, line by line, under `hazards`.

What makes each component correct:

- gate: one sender at a time, no waiter lost, no overtaking, everyone served;
- sender: never more than the high-water mark in the channel's buffer, frames in order and
  without a gap, nothing sent for a transfer that is over, the gate given back however it ends,
  `completed` kept;
- receiver: acknowledges and completes only what is stored, saves only whole files, once;
- composition: chunks fit the receiver that gets them; what the sender reports completed is
  saved; an accepted transfer completes when nothing breaks;
- connection: `connected` is shown over open channels only, nobody is connected without consent, sessions
  of the peer's making stand behind the permission gate, neither a request nor an unopened session is
  without a timer, an open link can be forgotten, a forgotten peer stays so (the last fails: finding 3);
- negotiation: no candidate stays in a queue, an undisturbed negotiation ends on one and the latest offer, an outage
  ends in a link or in a torn-down session (the last fails: finding 5);
- presence: the server shows nobody online without a socket, ghosts vanish from every list, a device
  with a live socket is listed (the last fails: finding 2);
- registry: the history gets one record per attempt, a `completed` record means a saved file, the list shows
  the newest sender, nothing is shown as under way without a session, two quiet sides agree on how a transfer ended (with the
  exceptions of section 4), a retry resumes at what is on disk (the last fails: finding 4).

## 2. Modules and how they correspond to the code

| Module | Models | State and actions |
|---|---|---|
| `SendScheduler` | `class SendScheduler` | `busy`, `queue` are its fields; `phase[c]` says where a caller of `acquire()` stands. It is also the abstract specification the senders implement. |
| `FileSender` | all `FileSender` objects of a session, their gate and the send buffer | `stage[<<s, n>>]` is where the n-th `run()` of sender `s` is suspended; each action of `RunStep` goes from one `await` to the next, or to a decision of the loop. `toReceiver` is what `channel.send()` accepted and the network has not taken. |
| `FileReceiver` | all `FileReceiver` objects of a session | one action per handler, and per end of a dialog, write, close or abort. No specification of its own: `FileTransfer` drives it. |
| `FileTransfer` | one direction of one session, both sides | instances of the two above, with `offers`, `byKey`, `byId` (the session's maps), `onScreen` (the offers the user sees) and `ended` (sessions closed). Its sender side replaces the free environment of `FileSender` by the real receiver. |
| `Presence` | the server's device table and sockets, and the list of every client | `table`, `serverUp` are the server's; `clientUp`, `opened`, `identity`, `devices`, `poll` the clients'; `inbox` the events between. One action per handler, and per stage of a poll. |
| `Connection` | both `P2PManager`s of a pair, the negotiation and channel of their sessions, the server's forwarding | `mgr[d]` is a record of the manager's fields about its peer, with the session, the pending timers (`requestTimers`, `retryTimers`) and the pending calls of `api.connect()` (`requesting`, `accepting`); `net[d]` is what the server has sent to `d`, `held[d]` what `d` emitted while its socket was down. One action per button, answer of the server, timer, event of the session, message and end or return of a socket or a page. |
| `TransferRegistry` | the transfer list of both `P2PManager`s over successive sessions, and the reports to `/history` | `sEntry`, `rEntry` are the statuses of the entries, `reported` the flags, `reports[k]` what was posted with the `startedAt` of attempt `k`; `snd`, `rcv` are records of what an entry can see of its senders and receivers; `session`, `open` what each side has of the link. One action per button, callback, message, disk event, and change of the link. |
| `PeerLink` | the negotiation inside one pair of `PeerSession`s, its ICE restarts and its outages | `side[d]` is the session with its `RTCPeerConnection`; `chain` are the operations called and not ended, in order. A handler is its call (`Receive`, `TryRecover`) and one action per operation that ends (`OpEnds`); `net[d]` are the signals on their way. |
| `MCFileSender`, `MCFileTransfer`, `MCTransferRegistry`, `MCPresence`, `MCConnection` | | values of the constants for TLC; `PeerLink` needs none |
| `SendSchedulerProofs`, `FileSenderProofs`, `FileTransferProofs`, `FileTransferContentProofs`, `TransferRegistryProofs`, `PeerLinkProofs`, `ConnectionProofs`, `PresenceProofs` | | theorems and proofs |

Conventions.

- **Run to completion.** JavaScript runs a handler to its end and then all promise
  continuations that are due. Stages `granted` and `top` of a `run()` are such continuations:
  `Quiet` holds when there is none, and every handler, timer, read and delivery requires it.
  The receiver's actions go directly from an event to the next real wait.
- **Data.** A file is `Size` chunks; chunk `d` is the `d`-th slice. `offset`, `receivedBytes`
  and the acknowledgements are counted in chunks, `bufferedAmount` in messages.
  `rContent` and `rSaved` are the slices written and the files the user got.
- **The file stream** is the browser's, so it is modelled from the WHATWG Streams standard: an
  error makes later writes fail; `abort()` lets the write under way end and makes later ones
  fail; a `close()` under way is not undone by `abort()`.
- **The server.** The repository is in memory, so everything a server handler awaits is there at once and
  nothing runs in between: in `Presence` a handler is one step. A connection `<<d, n>>` is open at the
  server (`serverUp`) and at the client (`clientUp`) independently, because each finds out about its
  end by itself; the sockets share no state with the P2P channel, and `Presence` none with `FileTransfer`.
- **Negotiation.** In `Connection` an SDP is the number of its offer. A session keeps the offer it waits an
  answer for and the one its descriptions come from; a channel can open when both sides' come from one
  offer (`Agreed`), and lives while they share one (`Linked`). `initiate()`, `handleOffer()` and an ICE restart
  are one step each, together with the SDP they send; `initiate()` may fail (`"break"`). A page that is reloaded has a new manager
  that remembers whom it trusts; a device whose identity is registered anew keeps its page, with the dialog that is open. The way from a device
  to the server and on to its peer is one step, so a message is lost with the receiver's socket, held with
  the sender's, and refused when the table shows the receiver offline; the answer of `api.connect()` and the
  check behind it are one step. `consent` is a history variable: what the user last said about the peer.
- **The registry** reduces a `FileSender` to its status, its flags, how many runs of it queue for the gate and whether its run
  in a read, and a `FileReceiver` to its status, its counts, its stream and its dialog: all that decides when a
  callback writes to an entry. The end of the last write (`WriteDone`) and the end of `close()` (`CloseDone`, `CloseFails`) are two
  steps, as they are two `await`s; between them a cancel, a cancel-all, a lost session or a chunk too many may come. An empty file
  is finalized by the step that accepts it, through `close()` when it goes to disk (`Begun`).
  Backpressure, acknowledgements and the content of files are those of `FileTransfer`.
  `late` (accepted after its end), `missed` (its offer crossed a cancel-all of its side), `stray` and `overtaken` (its confirmation
  came before its `run()` got the gate) are history variables.
- **WebRTC.** `RTCPeerConnection` is external: it runs the operations called on it one after the other; a second
  `setLocalDescription()` of an offer that a later `createOffer()` has overtaken is refused, an answer is taken in
  `have-local-offer` whichever offer it was made for, a description that ends a negotiation makes what was created before it
  unusable (so a restart whose offer is created, and not set, when an answer is taken is refused, and `tryRecover()` tears the
  session down), and a candidate counts for the description it was gathered for. In
  `PeerLink` a description is the number of its offer. `got` and `upset` are history variables.
- **Channels that close.** What a side of the channel has not received when it closes is lost to it, and what is sent to a
  closed side never arrives, so `FileTransfer` forgets both at once.
- **Slips.** An operator commented "Slip:" is no part of a model; it is a bug the operator
  after it could have had. The mutation runs of `PROJECT.json` substitute it and expect TLC to
  find the property violated.
- Left out: progress and its throttling, speed and ETA, names, MIME types, log lines, text
  and JSON messages, the wording of errors.

## 3. Runs

| Run | Bounds | Properties | Shows |
|---|---|---|---|
| `file_sender` | one file of 2 chunks and two empty ones; buffer of 1 chunk before backpressure; the first can be paused, resumed, cancelled by either side; one `file-accept` each, from any offset | `TypeOK`, `OneStreamAtATime`, `ChunksWithinHighWater`, `GaplessStream`, `NoLostWaiter`, `SendsOnlyWhileActive`, `CompletedStays`, `GateSpec`, `FirstComeFirstServed`, `StoppedFreesGate`, `QueuedMovesOn` | the senders through pauses, cancels, rejects, failing reads and sends, loss of the channel and end of the session; they implement `SendScheduler`, lose nobody in its queue and overtake nobody |
| `transfer_retry` | one file of 2 chunks, 2 offers, an acknowledgement per chunk, disk or memory, faults of disk, dialog and channel, cancel, cancel-all and reject | `TypeOK`, `SavedIsWhole`, `CompletedMeansSaved`, `AckedIsStored`, `ChunksFit`, `CancelledSavesNothing` | both sides through a failure or cancel at any point and a retry, with the first attempt's messages, dialogs, writes and `run()` still under way |
| `transfer_steady` | files of 2 and 1 chunks, an acknowledgement per two chunks, pauses by either side, dialog errors, reads that fail | `ChunksFit`, `AcceptedCompletes` | two files that share channel and gate complete, and one that cannot be read does not hold up the other |
| `registry` | a file of 1 chunk with 2 attempts over 2 sessions, every button, every fault; and that file with an empty one behind it, one offer each in one session, without pauses | `TypeOK`, `EveryAttemptReported`, `CompletedRecordIsSaved`, `ShownIsNewest`, `LostIsShown`, `SidesAgree` | the list and the history through retries in the same and in the next session, with the callbacks of the first attempt still to come; both sides at the end, with an empty file that queues for the gate and cancels and failures during `close()` |
| `peer_link` | 2 ICE restarts, 3 offers, each side sees the link break once, signals lost with a socket, a page that ends | `TypeOK`, `CandidatesApplied`, `NegotiationAgrees` | candidates before, during and after the descriptions they need, restarts that overlap, timeouts |
| `connection` | one turn each (a call of `requestConnection()`, a loss of the socket or a reload), two events (a broken link at either, a disconnect by the smaller id, a forget by the larger), one reconnect, one ICE restart; the smaller id trusts the larger from an earlier visit | `TypeOK`, `ConnectedIsOpen`, `OpenNeedsConsent`, `ResponderAuthorized`, `RequestHasTimer`, `SessionHasTimer`, `OpenIsTrusted` | whichever requests, acceptances, offers, losses, reloads and timers cross, each manager's state, gate, trust and timers agree with its session |
| `presence` | devices with 2 and 1 connections, one restart of the server, one poll at a time each | `TypeOK`, `NoGhostRow`, `GhostsVanish`, `ListConverges` | no row outlives its socket; whatever broadcasts and polls were lost or overtook each other, each client's list ends up as the server's table |
| `cancelled_then_resumed` | one file of 2 chunks, 2 offers, disk, cancel | `RetriedIsWhole` (violated) | finding 1 |
| `presence_stale_disconnect` | as `presence`, no restart | `LiveIsListed` (violated) | finding 2 |
| `connection_forgotten` | a request by the larger id, no ICE restart, a forget by the smaller | `ForgottenUntilAsked` (violated) | finding 3 |
| `retry_starts_over` | one file of 2 chunks, 2 attempts, 2 sessions, losses of the link, nobody steers | `RetryResumes` (violated) | finding 4 |
| `outage_not_given_up` | 2 ICE restarts, 5 offers (more than it can use), one break seen by each side, a page that ends | `OutageSettles` (violated) | finding 5 |

Why the bounds are enough to be interesting. Two chunks are the least that have an order, a
middle to resume at and a last one; with a high-water mark of one message the second one meets
backpressure, in both of the places where `run()` waits for the drain. Three senders give a
holder, a waiter and a later arrival, two of them empty (they never enter the loop). Two offers
are the least that have an old and a new attempt. `Steered`, `Steering` and `Faults` choose which
users' and faults' actions a run includes; `RoomForControl` and `RoomForReply` allow one pause,
resume, cancel or cancel-all at a time in each buffer, which keeps the buffers finite without stopping
messages of the two directions from crossing.

Two connections of one device are the least that overlap, one connection of the other gives an
observer; one restart makes every identity stale, with events of the old server still on their way.

For `TransferRegistry`, one chunk is enough: the entry cannot tell a first from a last chunk, and `FileTransfer` has the
rest; `RetryResumes` is about a middle of the file and is run with two. Two attempts and two sessions are the least with a
retry inside a session and one across. The empty file is the second one because it must find the gate taken for its confirmation to come
before its `run()`. The constraint `Scope` of the run `registry` keeps the two apart: the retries and sessions
are explored with the first file alone (the empty one not yet offered), the two together with one offer each in one session and nobody pausing, which
leaves 1.8 million states. The proofs of section 5 have no such bound. For `PeerLink`, three offers are a first one and the two restarts of the code's own
limit (`MaxRestarts` is 2, as in the code); one break per side is an outage seen by both, in either order.

For `Connection`, two turns are the least with which the requests of both sides cross, a request meets a
peer whose socket is down, or a returning device is reconnected to. The smaller id is the only one that
reconnects by itself and that the glare guard keeps initiator; that it trusts its peer from the start,
and the peer does not, gives requests accepted without and with a dialog in one run. One ICE restart is the
least with a restart and a giving up, one reconnect the least with a limit (the code has 2 and 5).

Deadlock is checked in `file_sender` only: in the others, with every transfer over and no offer left, or with every allowed
connection, request, restart and event used up, the system does stop.

### Fairness

`FileSender!FairSpec` and `FileTransfer!FairSpec` assume that a `run()` that can go on does, that
the disk answers and that the network delivers. Users and the faults owe nothing. The steps of
`run()` and of the disk are weakly fair. The network is strongly fair: a drain timer
(`FileSender.ts:135`) may fire again and again and its continuation disables deliveries for an
instant each time, but the event loop serves the network between two timers.
That a holder of the gate releases it is not assumed: `run()` does so in a `finally` block, and `StoppedFreesGate` and `QueuedMovesOn` say under which conditions the senders really do: a paused
transfer keeps the gate for as long as its user likes.

`Presence!FairSpec`: of a connection that one end has given up, the other end learns in the end
(pings every 20 s, a timeout of 40 s, `SignalingGateway.ts:41-42`); events that have a live socket
arrive; the poll timer goes on. These are weakly fair. A poll may fail any number of times
(`PollFails`), and one that keeps being asked succeeds at last: serving and applying an answer are
strongly fair. No device has to register, connect or stay, and the server need not restart.

`PeerLink!FairSpec`: the browser's operations end, the signals that are on their way arrive, a candidate is gathered for each
description, the search for a path ends one way or the other, and the connect timer runs out. All are weakly fair. Breaks
and vanishing pages owe nothing, so an outage that lasts is a peer that is gone.

`Connection` and `TransferRegistry` state no fairness: their properties are safety. That a request or a session which
waits will be given up in time rests on its timers, and is stated as an invariant: whatever waits
has its timer running.

## 4. Findings

1. **A cancelled file can be resumed without its head** (`FileReceiver.ts:188`, run
   `cancelled_then_resumed`). `cancel()` discards the stream; the disk writes still pending then
   fail, and `fail()` turns `cancelled` into `failed`. The next offer of the transfer re-arms the
   receiver with the old `receivedBytes` and a new, empty file.
2. **The late disconnect of an old socket takes a live device offline** (`SignalingGateway.ts:94`, run
   `presence_stale_disconnect`). The handler marks the device offline without comparing its socket
   with the row's; a device that reconnected first is then hidden, and refused as a target, until it
   reconnects for another reason.
3. **A forgotten peer is trusted again by an acceptance under way** (`P2PManager.ts:222`, run
   `connection_forgotten`). `untrustPeer()` ends an open session; an `acceptConnection()` whose HTTP call is
   pending, or an acceptance whose offer has not come yet, goes on and marks the peer trusted.
4. **A retry after a lost connection starts over** (`P2PManager.ts:303`, run `retry_starts_over`). The receivers go with
   their session; the re-offer in the next one meets none and gets a fresh receiver, which answers `resumeFrom: 0`. Only a retry in
   the session in which the transfer failed resumes, against what `docs/ARCHITECTURE.md:123` says of a connection loss.
5. **An outage may never be given up** (`PeerSession.ts:147`, run `outage_not_given_up`). `tryRecover()` counts the events
   `disconnected` and `failed`, not restarts: when the peer is gone one outage raises both, which uses the two restarts, and the
   third event that would tear the session down never comes.

Two behaviours of cancel-all contradict `docs/API.md:87` ("Kills every active + queued transfer on the session, both sides"). They are in
the model, no run of their own shows them, and `SidesAgree` and its theorem hold only because they name them:

- A cancel-all of the receiver that meets an offer on its way stops the sender only (`PeerSession.ts:333`): each side ends the transfers it
  has at that moment, and the receiver has none yet. The offer of the cancelled transfer then arrives, is shown, and can be
  accepted; the sender stays `cancelled`, the receiver waits (`missed`).
- `accept()` sets `transferring` whatever the status is (`FileReceiver.ts:78`). An offer stays on the screen, and a save dialog open, when
  a cancel-all of either side cancels the transfer; answered after that, the receiver is `transferring` and its sender
  `cancelled` (`late`). The same happens after a plain cancel.

Behaviours the models have that contradict no document, and have no run:

- An empty file is completed by the receiver when it accepts it; the sender's `run()`, still queued for the gate, then
  sets `transferring` over `completed` (`FileSender.ts:80`): when all is quiet the receiver shows it completed and the sender
  under way, until its session ends.
- A cancel that comes during `close()` is overtaken by it: the receiver goes from `cancelled` to `completed` and confirms
  (`FileReceiver.ts:136-151`). Both sides end on `completed`.
- `accept()` sets `transferring` when its dialog ends, whatever happened meanwhile (`FileReceiver.ts:78`): a cancelled receiver
  comes back to life, and when the file was offered again its late `file-accept`, which names the transfer only
  (`PeerSession.ts:293`), starts the new attempt's sender. Its callbacks write to the entry of the new attempt.
  One sender may then get several accepts, and `start()` sets its position and label while the `run()` of an earlier accept
  goes on. Already with two offers the frame on its way may not be the one its receiver expects, which fails the transfer.
  With four, a slice that is being read when a fresh accept puts the label back to 0, and a late accept that resumes after it, make
  the receiver save a file of the right length with the second slice twice. That is beyond the two offers of
  `transfer_retry`; the proof of section 5 met it, and `SavedIsWhole` names it as an aside.
- A `run()` that queues for the gate when its transfer is replaced by a retry, or when its session ends, and that nothing
  stops after that, gets the gate, sets `transferring` and writes it to the entry (`FileSender.ts:80`, `P2PManager.ts:516`).
- `reject()` does not discard: when the receiver of a failed attempt was re-armed by the next offer and that is rejected, the
  writes of the first attempt go on, and if they reach the end of the file it is saved (`FileReceiver.ts:93`). An empty file is
  saved when its dialog is answered after a cancel, since `accept()` finalizes it whatever the status is.
- A sender or receiver that fails tells its peer nothing; a read that fails late marks the retried entry as failed.
- `restartAttempts` is reset by `onopen` only, which a restart does not raise again: blips of a long session add up, and the third
  tears a link down that had recovered from the others. Of two restarts that overlap, the first answer is taken for the
  second offer and the second is refused.
- `acceptConnection()` shows `connecting` before there is a session, and nothing ends that when the offer never comes
  (`P2PManager.ts:223`). When both sides request at once and the smaller id's own `api.connect()` is still pending, both
  accept and both become initiators (`P2PManager.ts:113`).

The properties exclude exactly what these show, so that everything else stays checked: `SavedIsWhole` the re-armed receivers of
finding 1 and the senders that several accepts start; `ChunksFit` the same two, the senders another accept is on its way
to, and what a replaced or closed sender leaves on its way; `GaplessStream` senders started twice; `CompletedStays` these and empty
files; `CancelledSavesNothing` the re-armed receivers and the empty files of the fifth behaviour; `ShownIsNewest` and
`LostIsShown` the senders that get the gate late (`Strayed`); `NegotiationAgrees` the overlapping restarts (`upset`). `SidesAgree` has four
exceptions: in "completed by the receiver is completed for the sender", an empty file whose confirmation came before its `run()` got the gate
(`overtaken`); in "cancelled for the sender is over for the receiver", the `missed` and the `late` receivers of the two
cancel-all behaviours above (everything else it says, it says of them too); and throughout, a side that `failed` is not something its peer
must know.

## 5. Proofs

TLC checks the small instances above; the following holds for every number of senders, all sizes and
every high-water mark, from `SenderAssumption` (sizes and bounds are natural numbers, `Steered` a
subset of `Sender`) alone; of a session's transfers, for any number of transfers, offers and chunks and any
`AckEvery` above zero, from `TransferAssumption`; of presence, for any number of devices, connections and restarts, from
`PresenceAssumption` (the bounds are natural numbers); of the connection, for every limit of reconnects and
ICE restarts and every number of requests, losses, reloads and events, from `ConnectionAssumption`; of the
registry, for any number of transfers, attempts and sessions and files of any sizes, empty ones included, from `RegistryAssumption`; of the
negotiation, for every limit of restarts and every number of breaks and offers, from `LinkAssumption`.

| Theorem | Module | States |
|---|---|---|
| `SchedulerType`, `SchedulerMutualExclusion`, `SchedulerNoLostWaiter`, `SchedulerFirstComeFirstServed` | `SendSchedulerProofs` | the gate's properties |
| `SenderType` | `FileSenderProofs` | `Spec => []TypeOK` |
| `SenderImplementsGate` | `FileSenderProofs` | `Spec => GateSpec` |
| `SenderOneStream` | `FileSenderProofs` | `Spec => []OneStreamAtATime` |
| `SenderBackpressure` | `FileSenderProofs` | `Spec => []ChunksWithinHighWater` |
| `SenderSendsOnlyWhileActive` | `FileSenderProofs` | `Spec => SendsOnlyWhileActive` |
| `SenderCompletedStays` | `FileSenderProofs` | `Spec => CompletedStays` |
| `SenderNoLostWaiter`, `SenderFirstComeFirstServed` | `FileSenderProofs` | `Spec => []NoLostWaiter`, `Spec => FirstComeFirstServed` |
| `SenderGapless` | `FileSenderProofs` | `Spec => []GaplessStream` |
| `FileTransferInductive`, `FileTransferType` | `FileTransferProofs` | `Spec => []IInv`, `Spec => []TypeOK` |
| `TransferAckedIsStored`, `TransferCompletedMeansSaved` | `FileTransferProofs` | `Spec => []AckedIsStored`, `Spec => []CompletedMeansSaved` |
| `TransferCancelledSavesNothing` | `FileTransferProofs` | `Spec => CancelledSavesNothing` |
| `TransferSavedIsWhole`, `TransferChunksFit` | `FileTransferContentProofs` | `Spec => []SavedIsWhole`, `Spec => []ChunksFit` |
| `PresenceType`, `PresenceNoGhostRow` | `PresenceProofs` | `Spec => []TypeOK`, `Spec => []NoGhostRow` |
| `RegistryInductive`, `RegistryType` | `TransferRegistryProofs` | `Spec => []IInv`, `Spec => []TypeOK` |
| `RegistryWithin` | `TransferRegistryProofs` | `Spec => []FileInv`: offsets within the file, no empty file in the loop |
| `RegistryReports`, `RegistryRecordIsTrue` | `TransferRegistryProofs` | `Spec => []EveryAttemptReported`, `Spec => []CompletedRecordIsSaved` |
| `RegistryShown`, `RegistryLost` | `TransferRegistryProofs` | `Spec => []ShownIsNewest`, `Spec => []LostIsShown` |
| `RegistrySidesInv`, `RegistrySidesAgree` | `TransferRegistryProofs` | `Spec => [](MapInv /\ SidesInv)`, `Spec => []SidesAgree` |
| `PeerLinkInductive`, `PeerLinkType` | `PeerLinkProofs` | `Spec => []IInv`, `Spec => []TypeOK` |
| `PeerLinkCandidatesApplied` | `PeerLinkProofs` | `Spec => []CandidatesApplied` |
| `PeerLinkPhases`, `PeerLinkNegotiationAgrees` | `PeerLinkProofs` | `Spec => []PhaseInv`, `Spec => []NegotiationAgrees` |
| `ConnectionOpenNeedsConsent` | `ConnectionProofs` | `Spec => []OpenNeedsConsent` |
| `ConnectionType`, `ConnectionConnectedIsOpen`, `ConnectionResponderAuthorized`, `ConnectionRequestHasTimer`, `ConnectionSessionHasTimer`, `ConnectionOpenIsTrusted` | `ConnectionProofs` | `Spec => []P` for the property `P` of that name |

- **The gate.** Mutual exclusion is not inductive by itself: a release hands the gate over without
  looking at `busy`. `GateInv` adds that `busy` is true exactly while somebody holds, that the queue
  holds exactly the waiting clients, each once, and that nobody waits for a free gate.
- **The senders use the gate.** Under the mapping `gatePhase` (queued is waiting, any stage from
  `granted` to the last `await` is holding) every step of the senders is an acquire, a release or a
  stutter of the gate (`StepUsesGate`). This gives the refinement, and it carries `GateInv` over to
  the senders, so `OneStreamAtATime` is the gate's mutual exclusion, and `NoLostWaiter` and
  `FirstComeFirstServed` are the gate's own, read through the mapping.
- **Backpressure** is inductive together with `TypeOK`: `SendChunk` appends a chunk only when at most
  `HighWater` messages are before it; control messages only ever come behind.
- **Sending only while active** needs `StatusInv`: as long as the `run()` of an uncancelled sender is
  in its loop, the status is `transferring` or `paused`. The step that could break it is
  `HandleComplete`, which sets the status whatever it was: it comes when no `run()` of that sender
  waits in the loop.
- **Completed stays** needs `ConfirmedInv`: the one `run()` of a confirmed, non-empty file has ended.
  That it stays ended uses `GateInv` again: a release grants the gate to a queued run only
  (`StageMoves`); and only `HandleComplete` sets the status (`CompletedByReceiver`).
- **Gapless** needs the label of the next frame: `LabelInv` says, of a sender started once, that each frame on its way follows the one
  before and the newest is one behind `chunkIndex` (`Gapless`), that offset and index are the same chunk, that a slice being read
  is the one at that position, and that nothing was sent before `start()` (`Aligned`). The run that reads is the only one in its
  loop (`GateInv`), so nobody moves the position during a read or a drain.
- **Both ends of a transfer.** What the sender knows it knows from messages that name the transfer only, about receivers that
  may have been replaced. So the invariant follows the messages. Forwards, `RouteInv`, `OfferInv` and `OrderInv` say that the
  offers of a transfer arrive in the order they were made and before anything their sender sent, so that every chunk finds the
  receiver of its key (`HeadRouted`); with it the maps stay well-formed (`MapInv`). Backwards, `ReplyInv` says that every message
  on its way is honest: an acknowledgement tells no more than some receiver has stored, a confirmation is of a file that was saved.
  Both stay true because counts and saved files only grow. `Confirmations` is written in closed form so that the acknowledgements that
  follow a close can be bounded without induction (`AckPosition`).
- **Cancelled saves nothing** rests on `StreamInv`: a dialog is open only without a stream, a receiver nobody has answered for has
  neither, and one that was cancelled has no stream that could still be closed with success. The proof attempt found the two cases the
  property now excludes (section 4), which are beyond the bounds of `transfer_retry`.
- **What arrives** takes three invariants more, of the receivers and senders outside the asides; TLC checked them on the instances of the
  runs before they were proved. `LabelInv` is that of the senders, with slices inside the file. `WholeInv` says what a receiver has (`Held`):
  its content is a beginning of the file, the queued writes are the slices after it, an unanswered receiver has neither, and it
  is on disk, closing, in memory or over; a file is handed over only where that beginning is all of it. `FitInv` says how
  the two meet: of the newest sender and its receiver, while both are connected, either the accept with `resumeFrom: 0` is still on its
  way and nothing was sent, or the oldest frame, or with none the next label, is the one expected. That no frame
  meets a receiver of another offer is the routing of `FileTransferProofs`. `SavedIsWhole` does not rest on `FitInv`: a chunk out of
  order fails its receiver, and one in order carries the slice its label names.
- **No ghost row** is inductive with `TypeOK`: the row and the socket set change in the same step, and a
  disconnect that hits the row of another socket clears it, which is safe for this property and is what
  `LiveIsListed` objects to.

- **Connection.** The invariants of a manager are not inductive one by one: an unopened session keeps its timer only
  because no handler arms a session without one, and the gate holds because a teardown takes session and
  authorization together. `Sound` is their conjunction for one manager; each handler takes a good manager to
  a good one (`AutoReconnectGood`, `TeardownGood`, `NewSessionGood`), and whatever it emits only changes the queues
  (`UpdateKeeps`), so a step of one device leaves the other sound.

- **Consent** spans both devices and what is between them (`ConsentInv`): as long as a user has never said yes, his device has
  sent no request, accepted none and holds no trust, so no acceptance is on its way to it, no pending call or timer can
  make it one, and nothing can give it a session.
- **The registry.** The entry is a copy of a status that many senders write, so the invariants are those of the writers.
  The *list* part says that an entry is under way only while its newest sender is, with the exceptions the properties name;
  the *report* part that the flag `reported`, the entry and the record of the newest attempt move together and that older
  attempts are closed; the *shown* part that a sender which is not the newest any more has settled or strayed. That a message
  finds the object it was meant for is not given, since control messages name the transfer only: `ReplyInv`, `RouteInv`,
  `OrderInv` and `LatestInv` say what the maps of both sides and the messages on their way have to do with each other. A confirmation
  on its way means a file that was saved, which is all that `CompletedRecordIsSaved` can count on.
- **The candidates.** A candidate that comes early waits for a flag that a restart resets, and every step between is an
  `await`. `LineInv` states that what comes from the peer (in the session, in the operations under way, in the signals) is in
  order: each description is newer than every description and candidate before it. `RoleInv` gives what that rests on: the initiator
  sets each offer once, in increasing order, and the responder answers no offer twice. So a candidate that is refused is of a
  description that will never come again (`Dead`), and every candidate that came is added, queued, in an operation under way, or dead
  (`Kept`); with nothing under way this is `CandidatesApplied`. The proof found that the model let a responder set one answer twice, which
  WebRTC excludes (`created` is now reset with the description that ends the negotiation).

- **The two sides agree.** `SidesAgree` speaks of a transfer at rest, so its invariant says what is true while messages about it are on
  their way, for a transfer offered once in a session that both sides have (`Single`). Before its offer arrives nobody has answered
  it (`Unseen`). From then on the answer is in one place, on the screen or in the dialog, in a message, or in the `run()` it queued, and
  of a file that is not empty no chunk is sent, written or confirmed until that `run()` starts (`AnswerOnce`, `Still`); an empty one may be confirmed
  as soon as it is accepted. And what one side knows of the end, the
  other knows or a message on its way says so (`Told`): a completed receiver has a confirmation on its way, a cancelled one a
  rejection or a cancellation, a cancelled sender a cancellation that comes after its offer. A `close()` under way may still turn a cancelled receiver into a completed
  one, and then confirms. `Told` has the exceptions of `SidesAgree` and no others: a confirmed sender can forget it only when its file is empty
  and its `run()` was queued (`overtaken`), since one whose file is not empty is not confirmed while an answer is under way (`Still`, with
  `FileInv`); `late` and `missed` weaken only what follows from a cancellation. It is by that order that a cancellation finds
  its receiver, and by `MapInv`, which ties the map of the receiving session to the session of the sender,
  that it finds the right one. TLC found no violation of `SidesInv` on the instance of `registry` and on one with two transfers before it was
  proved; with both queues empty, `Told` is `SidesAgree`.
- **The negotiation.** `PhaseInv` names the phases one offer goes through, from the initiator's chain by the signals to the responder's chain
  and back, and in each phase the state of both peer connections and the one description that is under way; candidates may be anywhere
  (`Sole`, `Idle`). Each operation and each signal keeps the phase or moves to the next. What leaves the phases is what
  the property excludes: a side that gave up, a restart begun during a negotiation and signals that were lost (both `upset`). That a phase has the *latest* offer is
  what makes an undisturbed restart safe: it begins in `Finished` and leads to `Preparing` with the next number.

So every invariant and every action property that a passing run checks is also a theorem. Only model-checked is the liveness
(`StoppedFreesGate`, `QueuedMovesOn`, `AcceptedCompletes`, `GhostsVanish`, `ListConverges`): the installed provers
do not reason about ENABLED, which weak and strong fairness are made of, nor by induction over data, such as over what is
still to be sent.

## 6. Plan

Every part of the program with concurrent state of its own has its module, and the safety properties of the runs are proved. What a
change of the code should bring first:

1. A fix of a behaviour in section 4: drop the exception it made necessary in the property, and prove the property again.
2. With a prover that reasons about fairness: `StoppedFreesGate` first, which `GateInv` prepares, then `QueuedMovesOn`, which rests on it.

## 7. Not modelled

- Accounts, tokens and the checks of the REST routes (`AuthService.ts`, `routes.ts`, `middleware.ts`): single requests around
  bcrypt and JWT, and the client registers its devices without an account. The one race (two sign-ups of one name that overlap in the hash,
  `AuthService.ts:32`) needs no model to be seen.
- The records of the history on the server (`HistoryService.ts`): an append, a filter and a sort.
- The loop that accepts a batch of offers (`DashboardPage.tsx:129`) and the folder it picks: each offer is answered by itself.
- The retries of the registration, and the reset of the identity, which makes another device of the tab (`AppContext.tsx`).
- Text and JSON messages, progress and its throttling, speed and ETA, the order of the list, the layout of the frame header,
  rendering and formatting.
