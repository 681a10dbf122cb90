--------------------------- MODULE FileSenderProofs ---------------------------
(***************************************************************************)
(* What FileSender.tla guarantees for any number of senders, any file      *)
(* sizes and any high-water mark: typing, one stream at a time, the        *)
(* backpressure bound, frames without a gap, and that the senders use the  *)
(* gate as SendScheduler prescribes.                                       *)
(*                                                                         *)
(* The gate's invariant is not proved again: every step of the senders is  *)
(* a step of the gate (StepUsesGate), so GateInv of SendSchedulerProofs    *)
(* is preserved, and one stream at a time is its mutual exclusion.         *)
(***************************************************************************)
EXTENDS FileSender, TLAPS

GateProofs == INSTANCE SendSchedulerProofs WITH Client <- Run, phase <- gatePhase

GateInv == GateProofs!GateInv

LEMMA RunSender == \A r \in Run : r[1] \in Sender
BY DEF Run

LEMMA ChunkMessage ==
  ASSUME NEW s \in Sender, NEW i \in Nat, NEW d \in Nat
  PROVE  Chunk(s, i, d) \in Message /\ Chunk(s, i, d).type = "chunk"
BY DEF Chunk, Message

LEMMA ControlMessage ==
  ASSUME NEW s \in Sender, NEW t \in {"pause", "resume", "cancel"}
  PROVE  Control(t, s) \in Message /\ Control(t, s).type # "chunk"
BY DEF Control, Message

LEMMA CancelAllIsMessage == CancelAllMessage \in Message /\ CancelAllMessage.type # "chunk"
BY DEF CancelAllMessage, Message

-----------------------------------------------------------------------------
(* Typing.                                                                 *)

LEMMA InitType == Init => TypeOK
<1> SUFFICES ASSUME Init PROVE TypeOK
  OBVIOUS
<1> USE SenderAssumption
<1>1. queue = <<>> /\ toReceiver = <<>>
  BY DEF Init
<1>2. queue \in Seq(Run) /\ toReceiver \in Seq(Message)
  BY <1>1
<1>3. /\ sOffset \in [Sender -> Nat] /\ \A s \in Sender : sOffset[s] <= Size[s]
      /\ sAcked \in [Sender -> Nat] /\ \A s \in Sender : sAcked[s] <= Size[s]
      /\ readEnd \in [Run -> Nat] /\ \A r \in Run : readEnd[r] <= Size[r[1]]
  BY RunSender DEF Init
<1>4. /\ sStatus \in [Sender -> Status] /\ sIndex \in [Sender -> Nat]
      /\ sCancelled \in [Sender -> BOOLEAN] /\ sPaused \in [Sender -> BOOLEAN]
      /\ stage \in [Run -> Stage] /\ busy \in BOOLEAN /\ channelOpen \in BOOLEAN
  BY DEF Init, Status, Stage
<1> QED BY <1>2, <1>3, <1>4 DEF TypeOK

LEMMA ReleaseType ==
  ASSUME TypeOK, NEW r \in Run, ReleaseGate(r)
  PROVE  stage' \in [Run -> Stage] /\ busy' \in BOOLEAN /\ queue' \in Seq(Run)
<1>1. CASE queue = <<>>
  BY <1>1 DEF TypeOK, ReleaseGate, Stage
<1>2. CASE queue # <<>>
  <2>1. Tail(queue) \in Seq(Run) /\ Head(queue) \in Run
    BY <1>2 DEF TypeOK
  <2> QED BY <1>2, <2>1 DEF TypeOK, ReleaseGate, Stage, Holding
<1> QED BY <1>1, <1>2

LEMMA WokenType == ASSUME TypeOK, NEW s PROVE Woken(s) \in [Run -> Stage]
BY DEF Woken, TypeOK, Stage, Holding

LEMMA EmitType ==
  ASSUME TypeOK, NEW m \in Message, Emit(m)
  PROVE  toReceiver' \in Seq(Message)
BY DEF TypeOK, Emit

LEMMA FailType ==
  ASSUME TypeOK, NEW s \in Sender, FailStatus(s)
  PROVE  sStatus' \in [Sender -> Status] /\ sCancelled' \in [Sender -> BOOLEAN]
BY DEF TypeOK, FailStatus, Status

LEMMA StartType ==
  ASSUME TypeOK, NEW s \in Sender, NEW from \in Nat, Start(s, from)
  PROVE  TypeOK'
<1> USE SenderAssumption
<1>1. PICK n \in 1..MaxStarts : StartRun(s, from, n)
  BY DEF Start
<1>2. <<s, n>> \in Run
  BY DEF Run
<1>3. Lesser(from, Size[s]) \in Nat /\ Lesser(from, Size[s]) <= Size[s]
  BY DEF Lesser
<1>4. stage' \in [Run -> Stage] /\ busy' \in BOOLEAN /\ queue' \in Seq(Run)
  <2>1. CASE ~busy
    BY <1>1, <1>2, <2>1 DEF StartRun, TypeOK, Stage, Holding
  <2>2. CASE busy
    <3>1. Append(queue, <<s, n>>) \in Seq(Run)
      BY <1>2 DEF TypeOK
    <3>2. stage' = [stage EXCEPT ![<<s, n>>] = "queued"] /\ queue' = Append(queue, <<s, n>>)
      BY <1>1, <2>2 DEF StartRun
    <3>3. stage' \in [Run -> Stage]
      BY <3>2 DEF TypeOK, Stage
    <3>4. busy' = busy
      BY <1>1, <2>2 DEF StartRun
    <3> QED BY <3>1, <3>2, <3>3, <3>4 DEF TypeOK
  <2> QED BY <2>1, <2>2
<1>5. /\ sOffset' \in [Sender -> Nat] /\ sIndex' \in [Sender -> Nat]
      /\ \A q \in Sender : sOffset'[q] <= Size[q]
  BY <1>1, <1>3 DEF StartRun, TypeOK, StartIndex
<1> QED BY <1>1, <1>4, <1>5 DEF StartRun, TypeOK

\* What StopAll does to one run and to one sender.
LEMMA StopMoves ==
  ASSUME TypeOK, NEW T, NEW status, StopAll(T, status)
  PROVE  /\ \A r \in Run : stage'[r] = stage[r] \/ (stage[r] = "parked" /\ stage'[r] = "top")
         /\ \A s \in Sender : \/ (sCancelled'[s] = sCancelled[s] /\ sStatus'[s] = sStatus[s])
                            \/ (sCancelled'[s] /\ sStatus'[s] = status)
<1> DEFINE stopped == {s \in T : ~Settled(s)}
<1>1. ASSUME NEW r \in Run
      PROVE  stage'[r] = stage[r] \/ (stage[r] = "parked" /\ stage'[r] = "top")
  <2>1. Woken(r[1])[r] = IF stage[r] = "parked" THEN "top" ELSE stage[r]
    BY DEF Woken
  <2>2. stage'[r] = stage[r] \/ stage'[r] = Woken(r[1])[r]
    BY DEF StopAll
  <2> QED BY <2>1, <2>2
<1>2. ASSUME NEW s \in Sender
      PROVE  \/ (sCancelled'[s] = sCancelled[s] /\ sStatus'[s] = sStatus[s])
             \/ (sCancelled'[s] /\ sStatus'[s] = status)
  <2>1. CASE s \in stopped
    BY <2>1 DEF StopAll
  <2>2. CASE s \notin stopped
    <3>1. sCancelled'[s] = (sCancelled[s] \/ s \in stopped)
      BY DEF StopAll
    <3>2. sCancelled'[s] = sCancelled[s]
      BY <2>2, <3>1 DEF TypeOK
    <3> QED BY <2>2, <3>2 DEF StopAll
  <2> QED BY <2>1, <2>2
<1> QED BY <1>1, <1>2

LEMMA StopType ==
  ASSUME TypeOK, NEW T, NEW status \in Status, StopAll(T, status)
  PROVE  /\ sStatus' \in [Sender -> Status]
         /\ sCancelled' \in [Sender -> BOOLEAN]
         /\ stage' \in [Run -> Stage]
<1>1. \A r \in Run : stage'[r] \in Stage
  BY StopMoves DEF TypeOK, Stage, Holding
<1>2. \A s \in Sender : sStatus'[s] \in Status
  <2>1. \A s \in Sender : sStatus'[s] \in {sStatus[s], status}
    BY StopMoves
  <2> QED BY <2>1 DEF TypeOK
<1> QED BY <1>1, <1>2 DEF StopAll

LEMMA EnvironmentType == TypeOK /\ Environment => TypeOK'
<1> SUFFICES ASSUME TypeOK, Environment PROVE TypeOK'
  OBVIOUS
<1> USE SenderAssumption
<1> USE DEF gateVars, runVars, senderVars
<1>1. ASSUME NEW s \in Sender, NEW from \in 0..Size[s], Start(s, from) PROVE TypeOK'
  BY <1>1, StartType
<1>2. ASSUME NEW s \in Sender, HandleReject(s) PROVE TypeOK'
  BY <1>2, WokenType DEF HandleReject, TypeOK, Status
<1>3. ASSUME NEW s \in Sender, HandleAck(s, sOffset[s]) PROVE TypeOK'
  BY <1>3 DEF HandleAck, TypeOK
<1>4. ASSUME NEW s \in Sender, HandleComplete(s) PROVE TypeOK'
  BY <1>4 DEF HandleComplete, TypeOK, Status
<1>5. ASSUME NEW s \in Sender, NEW local \in BOOLEAN, Pause(s, local) PROVE TypeOK'
  <2>1. toReceiver' \in Seq(Message)
    BY <1>5, ControlMessage, EmitType DEF Pause, TypeOK
  <2> QED BY <1>5, <2>1 DEF Pause, TypeOK, Status
<1>6. ASSUME NEW s \in Sender, NEW local \in BOOLEAN, Resume(s, local) PROVE TypeOK'
  <2>1. toReceiver' \in Seq(Message)
    BY <1>6, ControlMessage, EmitType DEF Resume, TypeOK
  <2> QED BY <1>6, <2>1, WokenType DEF Resume, TypeOK, Status
<1>7. ASSUME NEW s \in Sender, NEW local \in BOOLEAN, Cancel(s, local) PROVE TypeOK'
  <2>1. toReceiver' \in Seq(Message)
    BY <1>7, ControlMessage, EmitType DEF Cancel, TypeOK
  <2> QED BY <1>7, <2>1, WokenType DEF Cancel, TypeOK, Status
<1>8. CASE ChannelLost
  BY <1>8 DEF ChannelLost, TypeOK
<1>9. CASE CloseSession(Sender)
  <2>1. "failed" \in Status /\ StopAll(Sender, "failed")
    BY <1>9 DEF CloseSession, Status
  <2> QED BY <1>9, <2>1, StopType DEF CloseSession, TypeOK
<1>10. ASSUME NEW local \in BOOLEAN, CancelAll(Sender, local) PROVE TypeOK'
  <2>1. "cancelled" \in Status /\ StopAll(Sender, "cancelled")
    BY <1>10 DEF CancelAll, Status
  <2>2. toReceiver' \in Seq(Message)
    BY <1>10, CancelAllIsMessage, EmitType DEF CancelAll, TypeOK
  <2> QED BY <1>10, <2>1, <2>2, StopType DEF CancelAll, TypeOK
<1>11. \A s \in Steered : s \in Sender
  OBVIOUS
<1> QED
  BY <1>1, <1>2, <1>3, <1>4, <1>5, <1>6, <1>7, <1>8, <1>9, <1>10, <1>11
  DEF Environment, FromReceiver, SteeredByReceiver, SteeredByUser

LEMMA RunType == ASSUME TypeOK, NEW r \in Run, RunStep(r) PROVE TypeOK'
<1> USE SenderAssumption, RunSender
<1> USE DEF gateVars, StepUnchanged
<1> DEFINE s == r[1]
<1>0. s \in Sender
  OBVIOUS
<1>1. CASE BeginCancelled(r) \/ Finish(r) \/ TopCancelled(r) \/ SendCancelled(r)
  BY <1>1, ReleaseType DEF BeginCancelled, Finish, TopCancelled, SendCancelled, TypeOK
<1>2. CASE TopClosed(r) \/ ReadFails(r) \/ SendFails(r)
  BY <1>2, ReleaseType, FailType DEF TopClosed, ReadFails, SendFails, TypeOK
<1>3. CASE Begin(r)
  BY <1>3 DEF Begin, TypeOK, Status, Stage, Holding
<1>4. CASE Park(r) \/ TopDrain(r) \/ Drained(r) \/ SendWaits(r)
  BY <1>4 DEF Park, TopDrain, Drained, SendWaits, TypeOK, Stage, Holding
<1>5. CASE Read(r)
  <2>1. Lesser(sOffset[s] + 1, Size[s]) \in Nat /\ Lesser(sOffset[s] + 1, Size[s]) <= Size[s]
    BY <1>0 DEF Lesser, TypeOK
  <2>2. readEnd' \in [Run -> Nat] /\ \A q \in Run : readEnd'[q] <= Size[q[1]]
    BY <1>5, <2>1 DEF Read, TypeOK
  <2> QED BY <1>5, <2>2 DEF Read, TypeOK, Stage, Holding
<1>6. CASE SendChunk(r)
  <2>1. readEnd[r] \in Nat /\ readEnd[r] <= Size[s] /\ sIndex[s] \in Nat
    BY <1>0 DEF TypeOK
  <2>2. toReceiver' \in Seq(Message)
    BY <1>0, <1>6, <2>1, ChunkMessage DEF SendChunk, TypeOK
  <2>3. /\ sOffset' \in [Sender -> Nat] /\ \A q \in Sender : sOffset'[q] <= Size[q]
        /\ sIndex' \in [Sender -> Nat]
    BY <1>0, <1>6, <2>1 DEF SendChunk, TypeOK
  <2> QED BY <1>6, <2>2, <2>3 DEF SendChunk, TypeOK, Stage, Holding
<1> QED BY <1>1, <1>2, <1>3, <1>4, <1>5, <1>6 DEF RunStep

LEMMA TypeStep == TypeOK /\ [Next]_vars => TypeOK'
<1> SUFFICES ASSUME TypeOK, [Next]_vars PROVE TypeOK'
  OBVIOUS
<1>1. CASE UNCHANGED vars
  BY <1>1 DEF vars, senderVars, gateVars, runVars, TypeOK
<1>2. CASE Environment
  BY <1>2, EnvironmentType
<1>3. CASE Transmit
  BY <1>3 DEF Transmit, senderVars, gateVars, runVars, TypeOK
<1>4. CASE \E r \in Run : RunStep(r)
  BY <1>4, RunType
<1> QED BY <1>1, <1>2, <1>3, <1>4 DEF Next

\* The fields of every FileSender keep their types, and no position passes the
\* end of the file, whatever resume offsets the receiver asks for.
THEOREM SenderType == Spec => []TypeOK
BY InitType, TypeStep, PTL DEF Spec

-----------------------------------------------------------------------------
(* Every step of the senders is a step of the gate, or none of it.         *)

LEMMA PhaseType == TypeOK => gatePhase \in [Run -> {"idle", "waiting", "holding"}]
BY DEF gatePhase

LEMMA PhaseKept ==
  ASSUME \A r \in Run : \/ stage'[r] = stage[r]
                        \/ stage[r] \in Holding /\ stage'[r] \in Holding
  PROVE  gatePhase' = gatePhase
<1>1. \A r \in Run : gatePhase'[r] = gatePhase[r]
  BY DEF gatePhase, Holding
<1> QED BY <1>1 DEF gatePhase

\* A step that leaves everybody's place in the gate alone.
KeepsGate ==
  /\ \A r \in Run : \/ stage'[r] = stage[r]
                    \/ stage[r] \in Holding /\ stage'[r] \in Holding
  /\ busy' = busy /\ queue' = queue

LEMMA GateKept == KeepsGate => UNCHANGED Gate!vars
<1> SUFFICES ASSUME KeepsGate PROVE UNCHANGED Gate!vars
  OBVIOUS
<1>1. gatePhase' = gatePhase
  BY PhaseKept DEF KeepsGate
<1> QED BY <1>1 DEF KeepsGate, Gate!vars

LEMMA WokenKept ==
  ASSUME TypeOK, NEW s
  PROVE  \A r \in Run : \/ Woken(s)[r] = stage[r]
                        \/ stage[r] \in Holding /\ Woken(s)[r] \in Holding
BY DEF Woken, Holding

LEMMA ReleaseSimulation ==
  ASSUME TypeOK, GateInv, NEW r \in Run, stage[r] \in Holding, ReleaseGate(r)
  PROVE  Gate!Next
<1>1. gatePhase[r] = "holding"
  BY DEF gatePhase, Holding
<1>2. CASE queue = <<>>
  <2>1. stage' = [stage EXCEPT ![r] = "done"]
    BY <1>2 DEF ReleaseGate
  <2>2. gatePhase' = [gatePhase EXCEPT ![r] = "idle"]
    BY <2>1 DEF gatePhase, TypeOK, Holding
  <2>3. Gate!ReleaseLast(r)
    BY <1>1, <1>2, <2>2 DEF ReleaseGate, Gate!ReleaseLast
  <2> QED BY <2>3 DEF Gate!Next, Gate!Release
<1>3. CASE queue # <<>>
  <2>1. stage' = [stage EXCEPT ![r] = "done", ![Head(queue)] = "granted"]
    BY <1>3 DEF ReleaseGate
  <2>2. Head(queue) \in Run /\ Head(queue) = queue[1] /\ 1 \in DOMAIN queue
    BY <1>3 DEF TypeOK
  <2>3. gatePhase[Head(queue)] = "waiting"
    BY <2>2 DEF GateInv, GateProofs!GateInv, GateProofs!NoLostWaiter
  <2>4. Head(queue) # r
    BY <1>1, <2>3
  <2>5. gatePhase' = [gatePhase EXCEPT ![r] = "idle", ![Head(queue)] = "holding"]
    BY <2>1, <2>2, <2>4 DEF gatePhase, TypeOK, Holding
  <2>6. Gate!ReleaseToNext(r)
    BY <1>1, <1>3, <2>5 DEF ReleaseGate, Gate!ReleaseToNext
  <2> QED BY <2>6 DEF Gate!Next, Gate!Release
<1> QED BY <1>2, <1>3

LEMMA StartSimulation ==
  ASSUME TypeOK, NEW s \in Sender, NEW from \in Nat, Start(s, from)
  PROVE  Gate!Next
<1>1. PICK n \in 1..MaxStarts : StartRun(s, from, n)
  BY DEF Start
<1> DEFINE r == <<s, n>>
<1>2. r \in Run
  BY DEF Run
<1>3. stage[r] = "idle" /\ gatePhase[r] = "idle"
  BY <1>1, <1>2, SenderAssumption DEF StartRun, gatePhase, Holding
<1>4. CASE ~busy
  <2>1. stage' = [stage EXCEPT ![r] = "granted"]
    BY <1>1, <1>4 DEF StartRun
  <2>2. gatePhase' = [gatePhase EXCEPT ![r] = "holding"]
    BY <2>1, <1>2 DEF gatePhase, TypeOK, Holding
  <2>3. Gate!AcquireFree(r)
    BY <1>1, <1>3, <1>4, <2>2 DEF StartRun, Gate!AcquireFree
  <2> QED BY <1>2, <2>3 DEF Gate!Next
<1>5. CASE busy
  <2>1. stage' = [stage EXCEPT ![r] = "queued"]
    BY <1>1, <1>5 DEF StartRun
  <2>2. gatePhase' = [gatePhase EXCEPT ![r] = "waiting"]
    BY <2>1, <1>2 DEF gatePhase, TypeOK, Holding
  <2>3. Gate!AcquireQueued(r)
    BY <1>1, <1>3, <1>5, <2>2 DEF StartRun, Gate!AcquireQueued
  <2> QED BY <1>2, <2>3 DEF Gate!Next
<1> QED BY <1>4, <1>5

LEMMA StepUsesGate ==
  ASSUME TypeOK, GateInv, [Next]_vars
  PROVE  [Gate!Next]_(Gate!vars)
<1> USE DEF gateVars, runVars, senderVars
<1>1. CASE UNCHANGED vars
  BY <1>1, GateKept DEF vars, KeepsGate
<1>2. ASSUME NEW s \in Sender, NEW from \in 0..Size[s], Start(s, from) PROVE Gate!Next
  BY <1>2, StartSimulation, SenderAssumption
<1>3. ASSUME NEW s \in Sender,
             HandleReject(s) \/ HandleAck(s, sOffset[s]) \/ HandleComplete(s)
      PROVE  UNCHANGED Gate!vars
  <2>1. KeepsGate
    BY <1>3, WokenKept DEF HandleReject, HandleAck, HandleComplete, KeepsGate
  <2> QED BY <2>1, GateKept
<1>4. ASSUME NEW s \in Sender, NEW local \in BOOLEAN,
             Pause(s, local) \/ Resume(s, local) \/ Cancel(s, local)
      PROVE  UNCHANGED Gate!vars
  <2>1. KeepsGate
    BY <1>4, WokenKept DEF Pause, Resume, Cancel, KeepsGate
  <2> QED BY <2>1, GateKept
<1>5. CASE ChannelLost \/ Transmit
  <2>1. KeepsGate
    BY <1>5 DEF ChannelLost, Transmit, KeepsGate
  <2> QED BY <2>1, GateKept
<1>6. ASSUME NEW local \in BOOLEAN, CloseSession(Sender) \/ CancelAll(Sender, local)
      PROVE  UNCHANGED Gate!vars
  <2>1. PICK status : StopAll(Sender, status)
    BY <1>6 DEF CloseSession, CancelAll
  <2>2. busy' = busy /\ queue' = queue
    BY <1>6 DEF CloseSession, CancelAll
  <2>3. KeepsGate
    BY <2>1, <2>2, StopMoves DEF KeepsGate, Holding
  <2> QED BY <2>3, GateKept
<1>7. ASSUME NEW r \in Run, RunStep(r) PROVE Gate!Next \/ UNCHANGED Gate!vars
  <2>1. CASE \/ BeginCancelled(r) \/ Finish(r) \/ TopCancelled(r) \/ SendCancelled(r)
             \/ TopClosed(r) \/ ReadFails(r) \/ SendFails(r)
    <3>1. stage[r] \in Holding /\ ReleaseGate(r)
      BY <2>1 DEF BeginCancelled, Finish, TopCancelled, SendCancelled, TopClosed, ReadFails,
                  SendFails, AtTop, MaySend, AfterRead, Holding
    <3> QED BY <3>1, ReleaseSimulation
  <2>2. CASE \/ Begin(r) \/ Park(r) \/ TopDrain(r) \/ Drained(r) \/ SendWaits(r)
             \/ Read(r) \/ SendChunk(r)
    <3>1. \A q \in Run : q # r => stage'[q] = stage[q]
      BY <2>2 DEF Begin, Park, TopDrain, Drained, SendWaits, Read, SendChunk, TypeOK
    <3>2. stage[r] \in Holding /\ stage'[r] \in Holding
      BY <2>2 DEF Begin, Park, TopDrain, Drained, SendWaits, Read, SendChunk, TypeOK,
                  AtTop, MaySend, AfterRead, Holding
    <3>3. busy' = busy /\ queue' = queue
      BY <2>2 DEF Begin, Park, TopDrain, Drained, SendWaits, Read, SendChunk
    <3> QED BY <3>1, <3>2, <3>3, GateKept DEF KeepsGate
  <2> QED BY <1>7, <2>1, <2>2 DEF RunStep
<1>8. \A s \in Steered : s \in Sender
  BY SenderAssumption
<1> QED
  BY <1>1, <1>2, <1>3, <1>4, <1>5, <1>6, <1>7, <1>8
  DEF Next, Environment, FromReceiver, SteeredByReceiver, SteeredByUser

LEMMA GateInvInit == Init => GateInv
<1> SUFFICES ASSUME Init PROVE GateInv
  OBVIOUS
<1>1. gatePhase = [r \in Run |-> "idle"]
  BY DEF Init, gatePhase, Holding
<1>2. GateProofs!Init
  BY <1>1 DEF Init, GateProofs!Init
<1> QED BY <1>2, GateProofs!InitGateInv DEF GateInv

LEMMA GateInvStep == TypeOK /\ GateInv /\ [Next]_vars => GateInv'
<1> SUFFICES ASSUME TypeOK, GateInv, [Next]_vars PROVE GateInv'
  OBVIOUS
<1>1. [GateProofs!Next]_(GateProofs!vars)
  BY StepUsesGate
  DEF Gate!Next, Gate!vars, Gate!AcquireFree, Gate!AcquireQueued, Gate!Release,
      Gate!ReleaseToNext, Gate!ReleaseLast,
      GateProofs!Next, GateProofs!vars, GateProofs!AcquireFree, GateProofs!AcquireQueued,
      GateProofs!Release, GateProofs!ReleaseToNext, GateProofs!ReleaseLast
<1> QED BY <1>1, GateProofs!GateStep DEF GateInv

LEMMA OneStreamFromGate == GateInv => OneStreamAtATime
BY DEF GateInv, GateProofs!GateInv, GateProofs!MutualExclusion, OneStreamAtATime, gatePhase, Holding

\* One FileSender of a session streams at a time, however many are queued,
\* restarted, cancelled or failed.
THEOREM SenderOneStream == Spec => []OneStreamAtATime
<1>1. Init => TypeOK /\ GateInv
  BY InitType, GateInvInit
<1>2. TypeOK /\ GateInv /\ [Next]_vars => (TypeOK /\ GateInv)'
  BY TypeStep, GateInvStep
<1>3. TypeOK /\ GateInv => OneStreamAtATime
  BY OneStreamFromGate
<1> QED BY <1>1, <1>2, <1>3, PTL DEF Spec

\* Whoever waits for the gate is in its queue, and somebody has the gate to
\* hand on, for any number of senders stopped in any way.
THEOREM SenderNoLostWaiter == Spec => []NoLostWaiter
<1>1. Init => TypeOK /\ GateInv
  BY InitType, GateInvInit
<1>2. TypeOK /\ GateInv /\ [Next]_vars => (TypeOK /\ GateInv)'
  BY TypeStep, GateInvStep
<1>3. GateInv => NoLostWaiter
  BY DEF GateInv, GateProofs!GateInv, GateProofs!NoLostWaiter, NoLostWaiter, Gate!NoLostWaiter
<1> QED BY <1>1, <1>2, <1>3, PTL DEF Spec

\* The gate goes to the oldest waiter, whichever way its holder ends.
THEOREM SenderFirstComeFirstServed == Spec => FirstComeFirstServed
<1> DEFINE Fair == \A r \in Run : stage[r] = "queued" /\ stage'[r] \in Holding => r = Head(queue)
<1>1. Init => TypeOK /\ GateInv
  BY InitType, GateInvInit
<1>2. TypeOK /\ GateInv /\ [Next]_vars => (TypeOK /\ GateInv)'
  BY TypeStep, GateInvStep
<1>3. TypeOK /\ GateInv /\ [Next]_vars => [Fair]_vars
  <2> SUFFICES ASSUME TypeOK, GateInv, [Next]_vars,
                      NEW r \in Run, stage[r] = "queued", stage'[r] \in Holding
               PROVE  r = Head(queue)
    BY DEF vars
  <2>1. [Gate!Next]_(Gate!vars)
    BY StepUsesGate
  <2>2. gatePhase[r] = "waiting" /\ gatePhase'[r] = "holding"
    BY DEF gatePhase, Holding
  <2>3. gatePhase \in [Run -> {"idle", "waiting", "holding"}]
    BY DEF gatePhase
  <2> QED
    BY <2>1, <2>2, <2>3 DEF Gate!Next, Gate!vars, Gate!AcquireFree, Gate!AcquireQueued,
                            Gate!Release, Gate!ReleaseToNext, Gate!ReleaseLast
<1> QED BY <1>1, <1>2, <1>3, PTL DEF Spec, FirstComeFirstServed

\* The senders of a session implement the gate's specification.
THEOREM SenderImplementsGate == Spec => GateSpec
<1>1. Init => TypeOK /\ GateInv
  BY InitType, GateInvInit
<1>2. TypeOK /\ GateInv /\ [Next]_vars => (TypeOK /\ GateInv)'
  BY TypeStep, GateInvStep
<1>3. Init => Gate!Init
  <2> SUFFICES ASSUME Init PROVE Gate!Init
    OBVIOUS
  <2>1. gatePhase = [r \in Run |-> "idle"]
    BY DEF Init, gatePhase, Holding
  <2> QED BY <2>1 DEF Init, Gate!Init
<1>4. TypeOK /\ GateInv /\ [Next]_vars => [Gate!Next]_(Gate!vars)
  BY StepUsesGate
<1> QED BY <1>1, <1>2, <1>3, <1>4, PTL DEF Spec, GateSpec, Gate!Spec

-----------------------------------------------------------------------------
(* Backpressure.                                                           *)

LEMMA EmitKeepsHighWater ==
  ASSUME TypeOK, ChunksWithinHighWater, NEW m \in Message, m.type # "chunk", Emit(m)
  PROVE  ChunksWithinHighWater'
<1>1. CASE ~channelOpen
  BY <1>1 DEF Emit, ChunksWithinHighWater
<1>2. CASE channelOpen
  <2>1. toReceiver' = Append(toReceiver, m)
    BY <1>2 DEF Emit
  <2>2. \A i \in DOMAIN toReceiver' :
          (i \in DOMAIN toReceiver /\ toReceiver'[i] = toReceiver[i]) \/ toReceiver'[i] = m
    BY <2>1 DEF TypeOK
  <2> QED BY <2>2 DEF ChunksWithinHighWater
<1> QED BY <1>1, <1>2

LEMMA SendKeepsHighWater ==
  ASSUME TypeOK, ChunksWithinHighWater, NEW r \in Run, SendChunk(r)
  PROVE  ChunksWithinHighWater'
<1> USE SenderAssumption
<1> DEFINE m == Chunk(r[1], sIndex[r[1]], readEnd[r])
<1>1. m \in Message
  BY RunSender, ChunkMessage DEF TypeOK
<1>2. Len(toReceiver) <= HighWater /\ toReceiver' = Append(toReceiver, m)
  BY DEF SendChunk, BufferFull, TypeOK
<1> HIDE DEF m
<1>3. \A i \in DOMAIN toReceiver' :
        (i \in DOMAIN toReceiver /\ toReceiver'[i] = toReceiver[i]) \/ i = Len(toReceiver) + 1
  BY <1>1, <1>2 DEF TypeOK
<1> QED BY <1>2, <1>3 DEF ChunksWithinHighWater, TypeOK

LEMMA TransmitKeepsHighWater ==
  ASSUME TypeOK, ChunksWithinHighWater, Transmit
  PROVE  ChunksWithinHighWater'
<1> USE SenderAssumption
<1>1. \A i \in DOMAIN toReceiver' :
        i \in Nat /\ i + 1 \in DOMAIN toReceiver /\ toReceiver'[i] = toReceiver[i + 1]
  BY DEF TypeOK, Transmit
<1> QED BY <1>1 DEF ChunksWithinHighWater

LEMMA HighWaterStep == TypeOK /\ ChunksWithinHighWater /\ [Next]_vars => ChunksWithinHighWater'
<1> SUFFICES ASSUME TypeOK, ChunksWithinHighWater, [Next]_vars PROVE ChunksWithinHighWater'
  OBVIOUS
<1>0. toReceiver' = toReceiver => ChunksWithinHighWater'
  BY DEF ChunksWithinHighWater
<1>1. ASSUME NEW s \in Sender, NEW local \in BOOLEAN,
             Pause(s, local) \/ Resume(s, local) \/ Cancel(s, local)
      PROVE  ChunksWithinHighWater'
  <2>1. CASE local
    <3>1. PICK t \in {"pause", "resume", "cancel"} : Emit(Control(t, s))
      BY <1>1, <2>1 DEF Pause, Resume, Cancel
    <3> QED BY <3>1, ControlMessage, EmitKeepsHighWater
  <2>2. CASE ~local
    BY <1>0, <1>1, <2>2 DEF Pause, Resume, Cancel
  <2> QED BY <2>1, <2>2
<1>2. ASSUME NEW s \in Sender, FromReceiver(s) PROVE ChunksWithinHighWater'
  BY <1>0, <1>2 DEF FromReceiver, Start, StartRun, HandleReject, HandleAck, HandleComplete
<1>3. CASE ChannelLost \/ CloseSession(Sender) \/ UNCHANGED vars
  BY <1>0, <1>3 DEF ChannelLost, CloseSession, vars
<1>4. ASSUME NEW r \in Run, RunStep(r) PROVE ChunksWithinHighWater'
  <2>1. CASE SendChunk(r)
    BY <2>1, SendKeepsHighWater
  <2>2. CASE ~SendChunk(r)
    BY <1>0, <1>4, <2>2
    DEF RunStep, BeginCancelled, Begin, Finish, TopCancelled, Park, TopClosed, TopDrain, Read,
        Drained, ReadFails, SendCancelled, SendWaits, SendFails
  <2> QED BY <2>1, <2>2
<1>5. ASSUME NEW local \in BOOLEAN, CancelAll(Sender, local) PROVE ChunksWithinHighWater'
  BY <1>0, <1>5, CancelAllIsMessage, EmitKeepsHighWater DEF CancelAll
<1>6. \A s \in Steered : s \in Sender
  BY SenderAssumption
<1> QED
  BY <1>1, <1>2, <1>3, <1>4, <1>5, <1>6, TransmitKeepsHighWater
  DEF Next, Environment, SteeredByReceiver, SteeredByUser

\* No chunk is ever buffered behind more than HighWater messages, although
\* run() reads the slice, and may be cancelled or paused, between the check
\* and the send.
THEOREM SenderBackpressure == Spec => []ChunksWithinHighWater
<1>1. Init => TypeOK /\ ChunksWithinHighWater
  <2>1. Init => ChunksWithinHighWater
    BY DEF Init, ChunksWithinHighWater
  <2> QED BY <2>1, InitType
<1>2. TypeOK /\ ChunksWithinHighWater /\ [Next]_vars => (TypeOK /\ ChunksWithinHighWater)'
  BY TypeStep, HighWaterStep
<1> QED BY <1>1, <1>2, PTL DEF Spec

-----------------------------------------------------------------------------
(* What the status of a sender says about its run().                       *)

Streaming == Holding \ {"granted"}
Waiting == {"parked", "drainTop", "reading", "drainSend"}

\* While a run() of an uncancelled sender streams, the status says so; and
\* only the run() of a file with chunks ever waits in the loop.
StatusInv ==
  /\ \A r \in Run : stage[r] \in Streaming /\ ~sCancelled[r[1]]
                     => sStatus[r[1]] \in {"transferring", "paused"}
  /\ \A r \in Run : stage[r] \in Waiting => Size[r[1]] > 0

LEMMA InitStatus == Init => StatusInv
BY DEF Init, StatusInv, Streaming, Waiting, Holding

\* A release moves nobody but the run that ends and the one it grants.
LEMMA ReleaseMoves ==
  ASSUME TypeOK, NEW r \in Run, ReleaseGate(r)
  PROVE  \A q \in Run : stage'[q] = stage[q] \/ stage'[q] \in {"done", "granted"}
<1>1. queue # <<>> => Head(queue) \in Run
  BY DEF TypeOK
<1> QED BY <1>1 DEF ReleaseGate, TypeOK

LEMMA ReleaseKeepsStatus ==
  ASSUME TypeOK, StatusInv, NEW r \in Run, ReleaseGate(r),
         UNCHANGED <<sStatus, sCancelled>> \/ FailStatus(r[1])
  PROVE  StatusInv'
<1>1. \A q \in Run : stage'[q] \in Streaming => stage[q] = stage'[q]
  BY ReleaseMoves DEF Streaming, Holding
<1>2. \A q \in Run : stage'[q] \in Waiting => stage[q] = stage'[q]
  BY ReleaseMoves DEF Waiting
<1>3. \A s \in Sender : ~sCancelled'[s] => ~sCancelled[s] /\ sStatus'[s] = sStatus[s]
  BY RunSender DEF FailStatus, TypeOK
<1> QED BY <1>1, <1>2, <1>3, RunSender DEF StatusInv

LEMMA RunKeepsStatus == ASSUME TypeOK, StatusInv, NEW r \in Run, RunStep(r) PROVE StatusInv'
<1> USE SenderAssumption, RunSender
<1>0. \A s \in Sender : Size[s] \in Nat /\ sOffset[s] \in Nat
  BY DEF TypeOK
<1>1. CASE \/ BeginCancelled(r) \/ Finish(r) \/ TopCancelled(r) \/ SendCancelled(r)
           \/ TopClosed(r) \/ ReadFails(r) \/ SendFails(r)
  <2>1. ReleaseGate(r) /\ (UNCHANGED <<sStatus, sCancelled>> \/ FailStatus(r[1]))
    BY <1>1 DEF BeginCancelled, Finish, TopCancelled, SendCancelled, TopClosed, ReadFails, SendFails
  <2> QED BY <2>1, ReleaseKeepsStatus
<1>2. CASE Begin(r)
  <2>1. /\ stage' = [stage EXCEPT ![r] = "top"] /\ sCancelled' = sCancelled
        /\ sStatus' = [sStatus EXCEPT ![r[1]] = "transferring"]
    BY <1>2 DEF Begin
  <2> QED BY <2>1 DEF TypeOK, StatusInv, Streaming, Waiting, Holding
<1>3. CASE \/ Park(r) \/ TopDrain(r) \/ Drained(r) \/ SendWaits(r) \/ Read(r) \/ SendChunk(r)
  <2>1. sStatus' = sStatus /\ sCancelled' = sCancelled
    BY <1>3 DEF Park, TopDrain, Drained, SendWaits, Read, SendChunk
  <2>2. \A q \in Run : q # r => stage'[q] = stage[q]
    BY <1>3 DEF Park, TopDrain, Drained, SendWaits, Read, SendChunk, TypeOK
  <2>3. stage[r] \in Streaming
    BY <1>3 DEF Park, TopDrain, Drained, SendWaits, Read, SendChunk, AtTop, MaySend, AfterRead,
                Streaming, Holding
  <2>4. stage'[r] \in Waiting => Size[r[1]] > 0
    BY <1>0, <1>3 DEF Park, TopDrain, Drained, SendWaits, Read, SendChunk, AtTop, MaySend, AfterRead,
                      StatusInv, Waiting, TypeOK
  <2> QED BY <2>1, <2>2, <2>3, <2>4 DEF StatusInv
<1> QED BY <1>1, <1>2, <1>3 DEF RunStep

LEMMA EnvironmentKeepsStatus == ASSUME TypeOK, StatusInv, Environment PROVE StatusInv'
<1> USE SenderAssumption, RunSender DEF runVars
<1>1. ASSUME NEW s \in Sender, NEW from \in 0..Size[s], Start(s, from) PROVE StatusInv'
  <2>1. PICK n \in 1..MaxStarts : StartRun(s, from, n)
    BY <1>1 DEF Start
  <2>2. \A q \in Run : stage'[q] = stage[q] \/ stage'[q] \in {"granted", "queued"}
    BY <2>1 DEF StartRun, TypeOK, Run
  <2>3. sStatus' = sStatus /\ sCancelled' = sCancelled
    BY <2>1 DEF StartRun
  <2> QED BY <2>2, <2>3 DEF StatusInv, Streaming, Waiting, Holding
<1>2. ASSUME NEW s \in Sender, HandleReject(s) PROVE StatusInv'
  BY <1>2 DEF HandleReject, TypeOK, StatusInv, Woken, Streaming, Waiting, Holding
<1>3. ASSUME NEW s \in Sender, HandleAck(s, sOffset[s]) PROVE StatusInv'
  BY <1>3 DEF HandleAck, StatusInv
<1>4. ASSUME NEW s \in Sender, Delivered(s), HandleComplete(s) PROVE StatusInv'
  <2>1. \A r \in Run : r[1] = s => stage[r] \notin Streaming
    <3> SUFFICES ASSUME NEW r \in Run, r[1] = s, stage[r] \in Streaming PROVE FALSE
      OBVIOUS
    <3>1. stage[r] \in Waiting
      BY <1>4 DEF HandleComplete, Quiet, Streaming, Holding, Waiting
    <3>2. Size[s] > 0
      BY <3>1 DEF StatusInv
    <3>3. PICK n \in 1..MaxStarts : r = <<s, n>>
      BY DEF Run
    <3>4. stage[r] \in {"idle", "done"}
      BY <1>4, <3>2, <3>3 DEF Delivered
    <3> QED BY <3>1, <3>4 DEF Waiting
  <2> QED BY <1>4, <2>1 DEF HandleComplete, TypeOK, StatusInv
<1>5. ASSUME NEW s \in Sender, NEW local \in BOOLEAN, Pause(s, local) PROVE StatusInv'
  BY <1>5 DEF Pause, TypeOK, StatusInv
<1>6. ASSUME NEW s \in Sender, NEW local \in BOOLEAN, Resume(s, local) \/ Cancel(s, local)
      PROVE  StatusInv'
  BY <1>6 DEF Resume, Cancel, TypeOK, StatusInv, Woken, Streaming, Waiting, Holding
<1>7. CASE ChannelLost
  BY <1>7 DEF ChannelLost, senderVars, StatusInv
<1>8. ASSUME NEW local \in BOOLEAN, CloseSession(Sender) \/ CancelAll(Sender, local)
      PROVE  StatusInv'
  <2>1. PICK status : StopAll(Sender, status)
    BY <1>8 DEF CloseSession, CancelAll
  <2>2. /\ \A r \in Run : stage'[r] = stage[r] \/ (stage[r] = "parked" /\ stage'[r] = "top")
        /\ \A s \in Sender : ~sCancelled'[s] => ~sCancelled[s] /\ sStatus'[s] = sStatus[s]
    BY <2>1, StopMoves
  <2> QED BY <2>2 DEF StatusInv, Streaming, Waiting, Holding
<1>9. \A s \in Steered : s \in Sender
  OBVIOUS
<1> QED
  BY <1>1, <1>2, <1>3, <1>4, <1>5, <1>6, <1>7, <1>8, <1>9
  DEF Environment, FromReceiver, SteeredByReceiver, SteeredByUser

LEMMA StatusStep == TypeOK /\ StatusInv /\ [Next]_vars => StatusInv'
<1> SUFFICES ASSUME TypeOK, StatusInv, [Next]_vars PROVE StatusInv'
  OBVIOUS
<1>1. CASE UNCHANGED vars
  BY <1>1 DEF vars, senderVars, runVars, StatusInv
<1>2. CASE Transmit
  BY <1>2 DEF Transmit, senderVars, runVars, StatusInv
<1> QED BY <1>1, <1>2, RunKeepsStatus, EnvironmentKeepsStatus DEF Next

\* A chunk leaves in SendChunk only, which finds its sender uncancelled.
LEMMA ChunkLeavesActive ==
  ASSUME TypeOK, StatusInv, Next, NEW s \in Sender, NEW i \in DOMAIN toReceiver',
         i > Len(toReceiver), toReceiver'[i].type = "chunk", toReceiver'[i].key = s
  PROVE  sStatus[s] \in {"transferring", "paused"}
<1> USE SenderAssumption, RunSender
<1>1. ~UNCHANGED toReceiver
  BY DEF TypeOK
<1>2. ~Transmit
  BY DEF Transmit, TypeOK
<1>3. ~Environment
  <2> SUFFICES ASSUME Environment PROVE FALSE
    OBVIOUS
  <2>1. \/ \E q \in Sender, local \in BOOLEAN :
             Pause(q, local) \/ Resume(q, local) \/ Cancel(q, local)
        \/ \E local \in BOOLEAN : CancelAll(Sender, local)
    BY <1>1 DEF Environment, FromReceiver, SteeredByReceiver, SteeredByUser, Start, StartRun,
                HandleReject, HandleAck, HandleComplete, ChannelLost, CloseSession, senderVars,
                gateVars, runVars
  <2>2. PICK m \in Message : m.type # "chunk" /\ Emit(m)
    <3>1. CASE \E q \in Sender, t \in {"pause", "resume", "cancel"} : Emit(Control(t, q))
      BY <3>1, ControlMessage
    <3>2. CASE Emit(CancelAllMessage)
      BY <3>2, CancelAllIsMessage
    <3> QED BY <1>1, <2>1, <3>1, <3>2 DEF Pause, Resume, Cancel, CancelAll
  <2>3. toReceiver' = Append(toReceiver, m)
    BY <1>1, <2>2 DEF Emit
  <2>4. toReceiver'[i] = m
    BY <2>3 DEF TypeOK
  <2> QED BY <2>2, <2>4
<1>4. PICK r \in Run : RunStep(r)
  BY <1>2, <1>3 DEF Next
<1>5. SendChunk(r)
  BY <1>1, <1>4 DEF RunStep, BeginCancelled, Begin, Finish, TopCancelled, Park, TopClosed,
                    TopDrain, Read, Drained, ReadFails, SendCancelled, SendWaits, SendFails
<1>6. stage[r] \in Streaming /\ ~sCancelled[r[1]]
  BY <1>5 DEF SendChunk, MaySend, AfterRead, Streaming, Holding
<1>7. toReceiver'[i].key = r[1]
  BY <1>5 DEF SendChunk, Chunk, TypeOK
<1> QED BY <1>6, <1>7 DEF StatusInv

\* No chunk of a cancelled, rejected, failed or completed transfer is ever
\* handed to the channel, although run() waits for the disk, for the drain
\* and for resume() between its last look at the status and the send.
THEOREM SenderSendsOnlyWhileActive == Spec => SendsOnlyWhileActive
<1> DEFINE ActiveChunks ==
      \A s \in Sender :
        (\E i \in DOMAIN toReceiver' :
           /\ i > Len(toReceiver)
           /\ toReceiver'[i].type = "chunk" /\ toReceiver'[i].key = s)
        => sStatus[s] \in {"transferring", "paused"}
<1>1. Init => TypeOK /\ StatusInv
  BY InitType, InitStatus
<1>2. TypeOK /\ StatusInv /\ [Next]_vars => (TypeOK /\ StatusInv)'
  BY TypeStep, StatusStep
<1>3. TypeOK /\ StatusInv /\ Next => ActiveChunks
  BY ChunkLeavesActive
<1>4. TypeOK /\ StatusInv /\ [Next]_vars => [ActiveChunks]_vars
  BY <1>3
<1> QED BY <1>1, <1>2, <1>4, PTL DEF Spec, SendsOnlyWhileActive

-----------------------------------------------------------------------------
(* "completed" is not taken back.                                          *)

\* A sender started once that the receiver confirmed has ended its run().
ConfirmedInv ==
  \A s \in Sender : Size[s] > 0 /\ StartedOnce(s) /\ sStatus[s] = "completed"
                     => MaxStarts >= 1 /\ stage[<<s, 1>>] = "done"

\* A run() that has ended stays so: the gate is never granted to it again.
\* Nor does a run() that began become one that did not.
LEMMA StageMoves ==
  ASSUME TypeOK, GateInv, [Next]_vars, NEW r \in Run
  PROVE  /\ stage[r] = "done" => stage'[r] = "done"
         /\ stage'[r] = "idle" => stage[r] = "idle"
<1> USE DEF gateVars, runVars
<1>1. CASE UNCHANGED vars \/ Transmit \/ ChannelLost
  BY <1>1 DEF vars, Transmit, ChannelLost
<1>2. ASSUME NEW s \in Sender, NEW from, Start(s, from)
      PROVE  /\ stage[r] = "done" => stage'[r] = "done"
             /\ stage'[r] = "idle" => stage[r] = "idle"
  <2>1. PICK n \in 1..MaxStarts : StartRun(s, from, n)
    BY <1>2 DEF Start
  <2>2. stage[<<s, n>>] = "idle"
    BY <2>1, SenderAssumption DEF StartRun
  <2>3. \/ stage' = [stage EXCEPT ![<<s, n>>] = "granted"]
        \/ stage' = [stage EXCEPT ![<<s, n>>] = "queued"]
    BY <2>1 DEF StartRun
  <2> QED BY <2>2, <2>3 DEF TypeOK
<1>3. ASSUME NEW s \in Sender,
             \/ HandleReject(s) \/ HandleComplete(s) \/ \E n : HandleAck(s, n)
             \/ \E local : Pause(s, local) \/ Resume(s, local) \/ Cancel(s, local)
      PROVE  stage'[r] = stage[r] \/ (stage[r] = "parked" /\ stage'[r] = "top")
  BY <1>3 DEF HandleReject, HandleComplete, HandleAck, Pause, Resume, Cancel, Woken
<1>4. ASSUME NEW local, CloseSession(Sender) \/ CancelAll(Sender, local)
      PROVE  stage'[r] = stage[r] \/ (stage[r] = "parked" /\ stage'[r] = "top")
  <2>1. PICK status : StopAll(Sender, status)
    BY <1>4 DEF CloseSession, CancelAll
  <2> QED BY <2>1, StopMoves
<1>5. ASSUME NEW q \in Run, RunStep(q)
      PROVE  /\ stage[r] = "done" => stage'[r] = "done"
             /\ stage'[r] = "idle" => stage[r] = "idle"
  <2>1. CASE ReleaseGate(q)
    <3>1. queue # <<>> => Head(queue) \in Run /\ stage[Head(queue)] = "queued"
      <4> SUFFICES ASSUME queue # <<>>
                   PROVE  Head(queue) \in Run /\ stage[Head(queue)] = "queued"
        OBVIOUS
      <4>1. Head(queue) \in Run /\ Head(queue) = queue[1] /\ 1 \in DOMAIN queue
        BY DEF TypeOK
      <4>2. gatePhase[Head(queue)] = "waiting"
        BY <4>1 DEF GateInv, GateProofs!GateInv, GateProofs!NoLostWaiter
      <4> QED BY <4>1, <4>2 DEF gatePhase
    <3>2. \A p \in Run : stage'[p] = stage[p] \/ stage'[p] \in {"done", "granted"}
      BY <2>1, ReleaseMoves
    <3>3. stage[r] = "done" => stage'[r] = "done"
      BY <2>1, <3>1 DEF ReleaseGate, TypeOK
    <3> QED BY <3>2, <3>3
  <2>2. CASE ~ReleaseGate(q)
    <3>1. \/ Begin(q) \/ Park(q) \/ TopDrain(q) \/ Read(q) \/ Drained(q) \/ SendWaits(q)
          \/ SendChunk(q)
      BY <1>5, <2>2 DEF RunStep, BeginCancelled, Finish, TopCancelled, TopClosed, ReadFails,
                        SendCancelled, SendFails
    <3>2. stage[q] \in Holding /\ \E g \in Holding : stage' = [stage EXCEPT ![q] = g]
      BY <3>1 DEF Begin, Park, TopDrain, Read, Drained, SendWaits, SendChunk, AtTop, MaySend,
                  AfterRead, Holding
    <3> QED BY <3>2 DEF TypeOK, Holding
  <2> QED BY <2>1, <2>2
<1>6. \A s \in Steered : s \in Sender
  BY SenderAssumption
<1> QED
  BY <1>1, <1>2, <1>3, <1>4, <1>5, <1>6
  DEF Next, Environment, FromReceiver, SteeredByReceiver, SteeredByUser

\* Only file-complete sets "completed", when the whole file has left.
LEMMA CompletedByReceiver ==
  ASSUME TypeOK, [Next]_vars, NEW s \in Sender,
         sStatus'[s] = "completed", sStatus[s] # "completed"
  PROVE  Delivered(s) /\ stage' = stage
<1> USE DEF senderVars
<1>1. CASE UNCHANGED vars \/ Transmit \/ ChannelLost
  BY <1>1 DEF vars, Transmit, ChannelLost
<1>2. ASSUME NEW r \in Run, RunStep(r) PROVE FALSE
  BY <1>2, RunSender
  DEF RunStep, BeginCancelled, Begin, Finish, TopCancelled, Park, TopClosed, TopDrain, Read,
      Drained, ReadFails, SendCancelled, SendWaits, SendFails, SendChunk, FailStatus, TypeOK
<1>3. ASSUME NEW local, CloseSession(Sender) \/ CancelAll(Sender, local) PROVE FALSE
  <2>1. PICK status \in {"failed", "cancelled"} : StopAll(Sender, status)
    BY <1>3 DEF CloseSession, CancelAll
  <2> QED BY <2>1, StopMoves
<1>4. ASSUME NEW q \in Sender,
             \/ \E from : Start(q, from)
             \/ HandleReject(q) \/ \E n : HandleAck(q, n)
             \/ \E local : Pause(q, local) \/ Resume(q, local) \/ Cancel(q, local)
      PROVE  FALSE
  BY <1>4 DEF Start, StartRun, HandleReject, HandleAck, Pause, Resume, Cancel, TypeOK
<1>5. ASSUME NEW q \in Sender, Delivered(q), HandleComplete(q)
      PROVE  Delivered(s) /\ stage' = stage
  BY <1>5 DEF HandleComplete, runVars, TypeOK
<1>6. \A q \in Steered : q \in Sender
  BY SenderAssumption
<1> QED
  BY <1>1, <1>2, <1>3, <1>4, <1>5, <1>6
  DEF Next, Environment, FromReceiver, SteeredByReceiver, SteeredByUser

LEMMA ConfirmedStep ==
  TypeOK /\ GateInv /\ ConfirmedInv /\ [Next]_vars => ConfirmedInv'
<1> SUFFICES ASSUME TypeOK, GateInv, ConfirmedInv, [Next]_vars, NEW s \in Sender,
                    Size[s] > 0, StartedOnce(s)', sStatus'[s] = "completed"
             PROVE  MaxStarts >= 1 /\ stage'[<<s, 1>>] = "done"
  BY DEF ConfirmedInv
<1> USE SenderAssumption
<1>1. StartedOnce(s)
  <2>1. \A n \in 2..MaxStarts : <<s, n>> \in Run
    BY DEF Run
  <2> QED BY <2>1, StageMoves DEF StartedOnce
<1>2. MaxStarts >= 1 => <<s, 1>> \in Run
  BY DEF Run
<1>3. CASE sStatus[s] = "completed"
  BY <1>1, <1>2, <1>3, StageMoves DEF ConfirmedInv
<1>4. CASE sStatus[s] # "completed"
  <2>1. Delivered(s) /\ stage' = stage
    BY <1>4, CompletedByReceiver
  <2>2. MaxStarts >= 1
    <3>1. PICK n \in 1..MaxStarts : readEnd[<<s, n>>] = Size[s]
      BY <2>1 DEF Delivered
    <3> QED BY <3>1
  <2>3. stage[<<s, 1>>] = "done"
    BY <2>1, <2>2 DEF Delivered, Started
  <2> QED BY <2>1, <2>2, <2>3
<1> QED BY <1>3, <1>4

LEMMA ConfirmedKept ==
  ASSUME TypeOK, GateInv, ConfirmedInv, Next, NEW s \in Sender,
         Size[s] > 0, StartedOnce(s)', sStatus[s] = "completed"
  PROVE  sStatus'[s] = "completed"
<1> USE SenderAssumption DEF senderVars
<1>1. \A r \in Run : r[1] = s => stage[r] \in {"idle", "done"}
  <2>1. \A n \in 2..MaxStarts : <<s, n>> \in Run
    BY DEF Run
  <2>2. StartedOnce(s)
    BY <2>1, StageMoves DEF StartedOnce
  <2>3. \A r \in Run : r[1] = s => r = <<s, 1>> \/ \E n \in 2..MaxStarts : r = <<s, n>>
    BY DEF Run
  <2> QED BY <2>2, <2>3 DEF ConfirmedInv, StartedOnce
<1>2. CASE Transmit \/ ChannelLost
  BY <1>2 DEF Transmit, ChannelLost
<1>3. ASSUME NEW r \in Run, RunStep(r) PROVE sStatus'[s] = "completed"
  <2>1. CASE Begin(r)
    BY <1>1, <2>1 DEF Begin, TypeOK
  <2>2. CASE ~Begin(r)
    BY <1>3, <2>2, RunSender
    DEF RunStep, BeginCancelled, Finish, TopCancelled, Park, TopClosed, TopDrain, Read, Drained,
        ReadFails, SendCancelled, SendWaits, SendFails, SendChunk, FailStatus, Settled, TypeOK
  <2> QED BY <2>1, <2>2
<1>4. ASSUME NEW local, CloseSession(Sender) \/ CancelAll(Sender, local)
      PROVE  sStatus'[s] = "completed"
  BY <1>4 DEF CloseSession, CancelAll, StopAll, Settled
<1>5. ASSUME NEW q \in Sender,
             \/ \E from : Start(q, from)
             \/ HandleReject(q) \/ HandleComplete(q) \/ \E n : HandleAck(q, n)
             \/ \E local : Pause(q, local) \/ Resume(q, local) \/ Cancel(q, local)
      PROVE  sStatus'[s] = "completed"
  BY <1>5 DEF Start, StartRun, HandleReject, HandleComplete, HandleAck, Pause, Resume, Cancel,
              Settled, TypeOK
<1>6. \A q \in Steered : q \in Sender
  OBVIOUS
<1> QED
  BY <1>2, <1>3, <1>4, <1>5, <1>6
  DEF Next, Environment, FromReceiver, SteeredByReceiver, SteeredByUser

\* Once the receiver confirmed a file, its sender stays "completed" through the
\* end of the session, cancel-all, a late cancel or reject, and the turns of
\* the gate: no run() of it is left that could write another status.
THEOREM SenderCompletedStays == Spec => CompletedStays
<1> DEFINE Kept ==
      \A s \in Sender :
        /\ Size[s] > 0 /\ StartedOnce(s)' /\ sStatus[s] = "completed"
        => sStatus'[s] = "completed"
<1>1. Init => TypeOK /\ GateInv /\ ConfirmedInv
  <2>1. Init => ConfirmedInv
    BY DEF Init, ConfirmedInv
  <2> QED BY <2>1, InitType, GateInvInit
<1>2. TypeOK /\ GateInv /\ ConfirmedInv /\ [Next]_vars => (TypeOK /\ GateInv /\ ConfirmedInv)'
  BY TypeStep, GateInvStep, ConfirmedStep
<1>3. TypeOK /\ GateInv /\ ConfirmedInv /\ Next => Kept
  BY ConfirmedKept
<1>4. TypeOK /\ GateInv /\ ConfirmedInv /\ [Next]_vars => [Kept]_vars
  BY <1>3
<1> QED BY <1>1, <1>2, <1>4, PTL DEF Spec, CompletedStays

-----------------------------------------------------------------------------
(* The labels of the frames.                                               *)

\* The frames of s in the buffer, oldest first, up to the next one to be sent.
Gapless(s) ==
  /\ \A i \in InBuffer(s) : toReceiver[i].data = toReceiver[i].index + 1
  /\ \A i, j \in InBuffer(s) : Follows(s, i, j) => toReceiver[j].index = toReceiver[i].index + 1
  /\ \A i \in InBuffer(s) :
       (\A j \in InBuffer(s) : j <= i) => toReceiver[i].index + 1 = sIndex[s]

\* Before start() nothing was sent; after it label and position are the same chunk,
\* and a slice that is being read is the one at the position.
Aligned(s) ==
  /\ (\A n \in 1..MaxStarts : stage[<<s, n>>] = "idle") => InBuffer(s) = {}
  /\ sOffset[s] = sIndex[s]
  /\ \A r \in Run : r[1] = s /\ stage[r] \in {"reading", "drainSend"} => readEnd[r] = sOffset[s] + 1

LabelInv == \A s \in Sender : StartedOnce(s) => Gapless(s) /\ Aligned(s)

LEMMA BufferFacts ==
  ASSUME TypeOK
  PROVE  /\ toReceiver \in Seq(Message)
         /\ \A s : InBuffer(s) \subseteq 1..Len(toReceiver)
         /\ \A s : \A i \in InBuffer(s) :
              i \in Nat /\ toReceiver[i].index \in Nat /\ toReceiver[i].data \in Nat
<1>1. toReceiver \in Seq(Message)
  BY DEF TypeOK
<1>2. \A m \in Message : m.type = "chunk" => m.index \in Nat /\ m.data \in Nat
  BY DEF Message, CancelAllMessage
<1> QED BY <1>1, <1>2 DEF InBuffer

\* The frames and their labels are the same ones, wherever they are now.
LEMMA GaplessSame ==
  ASSUME TypeOK, NEW s \in Sender, Gapless(s), sIndex'[s] = sIndex[s],
         InBuffer(s)' = InBuffer(s), \A i \in InBuffer(s) : toReceiver'[i] = toReceiver[i]
  PROVE  Gapless(s)'
<1>1. \A i, j \in InBuffer(s) : Follows(s, i, j)' <=> Follows(s, i, j)
  BY DEF Follows
<1> QED BY <1>1 DEF Gapless

\* A frame of another sender, or a control message, is put behind them.
LEMMA OthersAppended ==
  ASSUME TypeOK, NEW s \in Sender, Gapless(s), sIndex'[s] = sIndex[s],
         NEW m \in Message, toReceiver' = Append(toReceiver, m), ~(m.type = "chunk" /\ m.key = s)
  PROVE  Gapless(s)' /\ InBuffer(s)' = InBuffer(s)
<1>1. /\ \A i \in DOMAIN toReceiver : i \in DOMAIN toReceiver' /\ toReceiver'[i] = toReceiver[i]
      /\ \A i \in DOMAIN toReceiver' : i \in DOMAIN toReceiver \/ toReceiver'[i] = m
  BY BufferFacts
<1>2. InBuffer(s)' = InBuffer(s)
  BY <1>1 DEF InBuffer
<1>3. \A i \in InBuffer(s) : toReceiver'[i] = toReceiver[i]
  BY <1>1 DEF InBuffer
<1> QED BY <1>2, <1>3, GaplessSame

\* The next frame is put behind them.
LEMMA FrameAppended ==
  ASSUME TypeOK, NEW s \in Sender, Gapless(s), sIndex'[s] = sIndex[s] + 1,
         toReceiver' = Append(toReceiver, Chunk(s, sIndex[s], sIndex[s] + 1))
  PROVE  Gapless(s)'
<1> DEFINE last == Len(toReceiver) + 1
           m == Chunk(s, sIndex[s], sIndex[s] + 1)
<1>0. sIndex[s] \in Nat
  BY DEF TypeOK
<1>1. m \in Message /\ m.type = "chunk" /\ m.key = s /\ m.index = sIndex[s] /\ m.data = sIndex[s] + 1
  BY <1>0, ChunkMessage DEF Chunk
<1> HIDE DEF m
<1>2. /\ \A i \in DOMAIN toReceiver : i \in DOMAIN toReceiver' /\ toReceiver'[i] = toReceiver[i]
      /\ \A i \in DOMAIN toReceiver' : i \in DOMAIN toReceiver \/ i = last
      /\ last \in DOMAIN toReceiver' /\ toReceiver'[last] = m
  BY <1>1, BufferFacts DEF m
<1>3. InBuffer(s)' = InBuffer(s) \cup {last}
  BY <1>1, <1>2 DEF InBuffer
<1>4. /\ \A i \in InBuffer(s) : i \in Nat /\ i < last /\ toReceiver'[i] = toReceiver[i]
      /\ last \in Nat
  BY <1>2, BufferFacts DEF InBuffer
<1>5. ASSUME NEW i \in InBuffer(s)' PROVE toReceiver'[i].data = toReceiver'[i].index + 1
  <2>1. CASE i = last
    BY <1>1, <1>2, <2>1
  <2>2. CASE i # last
    BY <1>3, <1>4, <2>2 DEF Gapless
  <2> QED BY <2>1, <2>2
<1>6. ASSUME NEW i \in InBuffer(s)', NEW j \in InBuffer(s)', Follows(s, i, j)'
      PROVE  toReceiver'[j].index = toReceiver'[i].index + 1
  <2>1. i < j /\ i \in InBuffer(s) /\ \A h \in InBuffer(s) : h <= i \/ j <= h
    BY <1>3, <1>4, <1>6 DEF Follows
  <2>2. CASE j = last
    <3>1. \A h \in InBuffer(s) : h <= i
      BY <1>4, <2>1, <2>2
    <3> QED BY <1>0, <1>1, <1>2, <1>4, <2>1, <2>2, <3>1 DEF Gapless
  <2>3. CASE j # last
    <3>1. j \in InBuffer(s) /\ Follows(s, i, j)
      BY <1>3, <2>1, <2>3 DEF Follows
    <3> QED BY <1>4, <2>1, <3>1 DEF Gapless
  <2> QED BY <2>2, <2>3
<1>7. ASSUME NEW i \in InBuffer(s)', \A j \in InBuffer(s)' : j <= i
      PROVE  toReceiver'[i].index + 1 = sIndex'[s]
  <2>1. i = last
    BY <1>3, <1>4, <1>7
  <2> QED BY <1>1, <1>2, <2>1
<1> QED BY <1>5, <1>6, <1>7 DEF Gapless

\* The oldest message leaves.
LEMMA OldestLeaves ==
  ASSUME TypeOK, NEW s \in Sender, Gapless(s), sIndex'[s] = sIndex[s],
         toReceiver # <<>>, toReceiver' = Tail(toReceiver)
  PROVE  Gapless(s)' /\ (InBuffer(s) = {} => InBuffer(s)' = {})
<1>1. \A i \in Nat : i \in DOMAIN toReceiver' <=> i + 1 \in DOMAIN toReceiver /\ i # 0
  BY BufferFacts
<1>2. \A i \in DOMAIN toReceiver' : i \in Nat /\ toReceiver'[i] = toReceiver[i + 1]
  BY BufferFacts
<1>3. \A i \in InBuffer(s)' : i \in Nat /\ i + 1 \in InBuffer(s) /\ toReceiver'[i] = toReceiver[i + 1]
  BY <1>1, <1>2 DEF InBuffer
<1>4. \A h \in InBuffer(s) : h # 1 => h - 1 \in InBuffer(s)'
  BY <1>1, <1>2, BufferFacts DEF InBuffer
<1>5. ASSUME NEW i \in InBuffer(s)', NEW j \in InBuffer(s)', Follows(s, i, j)'
      PROVE  Follows(s, i + 1, j + 1)
  <2>1. i < j /\ i \in Nat /\ j \in Nat
    BY <1>3, <1>5 DEF Follows
  <2>2. ASSUME NEW h \in InBuffer(s) PROVE h <= i + 1 \/ j + 1 <= h
    <3>1. h \in Nat
      BY BufferFacts
    <3>2. h # 1 => (h - 1 <= i \/ j <= h - 1)
      BY <1>4, <1>5 DEF Follows
    <3> QED BY <2>1, <3>1, <3>2
  <2> QED BY <2>1, <2>2 DEF Follows
<1>6. ASSUME NEW i \in InBuffer(s)', \A j \in InBuffer(s)' : j <= i
      PROVE  \A j \in InBuffer(s) : j <= i + 1
  BY <1>3, <1>4, <1>6, BufferFacts
<1>7. ASSUME NEW i \in InBuffer(s)' PROVE toReceiver'[i].data = toReceiver'[i].index + 1
  <2>1. i + 1 \in InBuffer(s) /\ toReceiver'[i] = toReceiver[i + 1]
    BY <1>3
  <2> QED BY <2>1 DEF Gapless
<1>8. ASSUME NEW i \in InBuffer(s)', NEW j \in InBuffer(s)', Follows(s, i, j)'
      PROVE  toReceiver'[j].index = toReceiver'[i].index + 1
  <2>1. /\ i + 1 \in InBuffer(s) /\ toReceiver'[i] = toReceiver[i + 1]
        /\ j + 1 \in InBuffer(s) /\ toReceiver'[j] = toReceiver[j + 1]
    BY <1>3
  <2>2. Follows(s, i + 1, j + 1)
    BY <1>5, <1>8
  <2> QED BY <2>1, <2>2 DEF Gapless
<1>9. ASSUME NEW i \in InBuffer(s)', \A j \in InBuffer(s)' : j <= i
      PROVE  toReceiver'[i].index + 1 = sIndex'[s]
  <2>1. i + 1 \in InBuffer(s) /\ toReceiver'[i] = toReceiver[i + 1]
    BY <1>3
  <2>2. \A j \in InBuffer(s) : j <= i + 1
    BY <1>6, <1>9
  <2> QED BY <2>1, <2>2 DEF Gapless
<1>10. InBuffer(s) = {} => InBuffer(s)' = {}
  BY <1>3
<1> QED BY <1>7, <1>8, <1>9, <1>10 DEF Gapless

Slicing == {"reading", "drainSend"}

\* No run() goes back to before its start, and none of them takes up a slice.
NothingRead ==
  \A r \in Run : /\ stage'[r] = "idle" => stage[r] = "idle"
                 /\ stage'[r] \in Slicing => stage[r] \in Slicing

LEMMA AlignedSame ==
  ASSUME NEW s \in Sender, Aligned(s), UNCHANGED <<sOffset, sIndex, readEnd>>, NothingRead,
         InBuffer(s) = {} => InBuffer(s)' = {}
  PROVE  Aligned(s)'
<1>1. \A n \in 1..MaxStarts : <<s, n>> \in Run
  BY DEF Run
<1>2. (\A n \in 1..MaxStarts : stage'[<<s, n>>] = "idle") => InBuffer(s)' = {}
  BY <1>1 DEF Aligned, NothingRead
<1>3. \A r \in Run : r[1] = s /\ stage'[r] \in Slicing => readEnd'[r] = sOffset'[s] + 1
  BY DEF Aligned, NothingRead, Slicing
<1> QED BY <1>2, <1>3 DEF Aligned, Slicing

\* Steps that send no frame.
LEMMA NoFrameSent ==
  ASSUME TypeOK, NEW s \in Sender, Gapless(s), Aligned(s),
         UNCHANGED <<sOffset, sIndex, readEnd>>, NothingRead,
         \/ toReceiver' = toReceiver
         \/ toReceiver # <<>> /\ toReceiver' = Tail(toReceiver)
         \/ \E m \in Message : m.type # "chunk" /\ toReceiver' = Append(toReceiver, m)
  PROVE  Gapless(s)' /\ Aligned(s)'
<1>1. CASE toReceiver' = toReceiver
  <2>1. InBuffer(s)' = InBuffer(s)
    BY <1>1 DEF InBuffer
  <2> QED BY <1>1, <2>1, GaplessSame, AlignedSame
<1>2. CASE toReceiver # <<>> /\ toReceiver' = Tail(toReceiver)
  BY <1>2, OldestLeaves, AlignedSame
<1>3. ASSUME NEW m \in Message, m.type # "chunk", toReceiver' = Append(toReceiver, m)
      PROVE  Gapless(s)' /\ Aligned(s)'
  BY <1>3, OthersAppended, AlignedSame
<1> QED BY <1>1, <1>2, <1>3

LEMMA EnvironmentSendsNoFrame ==
  ASSUME TypeOK, GateInv, [Next]_vars, Environment \/ Transmit \/ UNCHANGED vars,
         ~\E s \in Sender : \E from : Start(s, from)
  PROVE  /\ UNCHANGED <<sOffset, sIndex, readEnd>> /\ NothingRead
         /\ \/ toReceiver' = toReceiver
            \/ toReceiver # <<>> /\ toReceiver' = Tail(toReceiver)
            \/ \E m \in Message : m.type # "chunk" /\ toReceiver' = Append(toReceiver, m)
<1> USE SenderAssumption DEF gateVars, runVars, senderVars
<1>1. ASSUME NEW m \in Message, m.type # "chunk", NEW local,
             IF local THEN Emit(m) ELSE UNCHANGED toReceiver
      PROVE  \/ toReceiver' = toReceiver
             \/ \E n \in Message : n.type # "chunk" /\ toReceiver' = Append(toReceiver, n)
  BY <1>1 DEF Emit
<1>2. \A s \in Sender, r \in Run : Woken(s)[r] = stage[r] \/ Woken(s)[r] = "top"
  BY DEF Woken
<1>3. ASSUME NEW s \in Sender, NEW local, Pause(s, local) \/ Resume(s, local) \/ Cancel(s, local)
      PROVE  /\ UNCHANGED <<sOffset, sIndex, readEnd>>
             /\ \A r \in Run : stage'[r] = stage[r] \/ stage'[r] = "top"
             /\ \/ toReceiver' = toReceiver
                \/ \E n \in Message : n.type # "chunk" /\ toReceiver' = Append(toReceiver, n)
  BY <1>1, <1>2, <1>3, ControlMessage DEF Pause, Resume, Cancel
<1>4. ASSUME NEW s \in Sender, HandleReject(s) \/ HandleComplete(s) \/ \E n : HandleAck(s, n)
      PROVE  /\ UNCHANGED <<sOffset, sIndex, readEnd, toReceiver>>
             /\ \A r \in Run : stage'[r] = stage[r] \/ stage'[r] = "top"
  BY <1>2, <1>4 DEF HandleReject, HandleComplete, HandleAck
<1>5. ASSUME NEW local, CloseSession(Sender) \/ CancelAll(Sender, local)
      PROVE  /\ UNCHANGED <<sOffset, sIndex, readEnd>>
             /\ \A r \in Run : stage'[r] = stage[r] \/ stage'[r] = "top"
             /\ \/ toReceiver' = toReceiver
                \/ \E n \in Message : n.type # "chunk" /\ toReceiver' = Append(toReceiver, n)
  <2>1. PICK status : StopAll(Sender, status)
    BY <1>5 DEF CloseSession, CancelAll
  <2>2. \A r \in Run : stage'[r] = stage[r] \/ stage'[r] = "top"
    BY <2>1, StopMoves
  <2> QED BY <1>1, <1>5, <2>2, CancelAllIsMessage DEF CloseSession, CancelAll
<1>6. CASE Transmit \/ ChannelLost \/ UNCHANGED vars
  BY <1>6 DEF Transmit, ChannelLost, vars, NothingRead
<1>7. \A s \in Steered : s \in Sender
  OBVIOUS
<1>8. (\A r \in Run : stage'[r] = stage[r] \/ stage'[r] = "top") => NothingRead
  BY DEF NothingRead, Slicing
<1> QED
  BY <1>3, <1>4, <1>5, <1>6, <1>7, <1>8
  DEF Environment, FromReceiver, SteeredByReceiver, SteeredByUser

LEMMA StartLabels ==
  ASSUME TypeOK, GateInv, LabelInv, [Next]_vars, NEW q \in Sender, NEW from, Start(q, from),
         NEW s \in Sender, StartedOnce(s), StartedOnce(s)'
  PROVE  Gapless(s)' /\ Aligned(s)'
<1> USE SenderAssumption
<1>1. PICK n \in 1..MaxStarts : StartRun(q, from, n)
  BY DEF Start
<1>2. /\ UNCHANGED <<readEnd, toReceiver>>
      /\ sOffset' = [sOffset EXCEPT ![q] = Lesser(from, Size[q])]
      /\ sIndex' = [sIndex EXCEPT ![q] = Lesser(from, Size[q])]
  BY <1>1 DEF StartRun, StartIndex
<1>3. /\ \A r \in Run : r # <<q, n>> => stage'[r] = stage[r]
      /\ stage'[<<q, n>>] \in {"granted", "queued"}
  <2>1. <<q, n>> \in Run
    BY DEF Run
  <2>2. \/ stage' = [stage EXCEPT ![<<q, n>>] = "granted"]
        \/ stage' = [stage EXCEPT ![<<q, n>>] = "queued"]
    BY <1>1 DEF StartRun
  <2> QED BY <2>1, <2>2 DEF TypeOK
<1>4. InBuffer(s)' = InBuffer(s)
  BY <1>2 DEF InBuffer
<1>5. \A m \in 1..MaxStarts : <<s, m>> \in Run
  BY DEF Run
<1>6. Gapless(s) /\ Aligned(s)
  BY DEF LabelInv
<1>7. CASE s # q
  <2>1. sIndex'[s] = sIndex[s] /\ sOffset'[s] = sOffset[s]
    BY <1>2, <1>7 DEF TypeOK
  <2>2. \A r \in Run : r[1] = s => stage'[r] = stage[r]
    BY <1>3, <1>7
  <2>3. Gapless(s)'
    BY <1>2, <1>4, <1>6, <2>1, GaplessSame
  <2>4. (\A m \in 1..MaxStarts : stage'[<<s, m>>] = "idle") => InBuffer(s)' = {}
    BY <1>4, <1>5, <1>6, <2>2 DEF Aligned
  <2> QED BY <1>2, <1>6, <2>1, <2>2, <2>3, <2>4 DEF Aligned
<1>8. CASE s = q
  <2>1. n = 1
    BY <1>3, <1>8 DEF StartedOnce
  <2>2. \A m \in 1..MaxStarts : stage[<<s, m>>] = "idle"
    BY <1>1, <1>8, <2>1 DEF StartRun
  <2>3. InBuffer(s)' = {}
    BY <1>4, <1>6, <2>2 DEF Aligned
  <2>4. sOffset'[s] = sIndex'[s]
    BY <1>2, <1>8 DEF TypeOK
  <2>5. \A r \in Run : r[1] = s => stage'[r] \notin {"reading", "drainSend"}
    <3>1. \A r \in Run : r[1] = s => \E m \in 1..MaxStarts : r = <<s, m>>
      BY DEF Run
    <3> QED BY <1>3, <1>8, <2>2, <3>1
  <2> QED BY <2>3, <2>4, <2>5 DEF Gapless, Aligned
<1> QED BY <1>7, <1>8

LEMMA RunLabels ==
  ASSUME TypeOK, GateInv, LabelInv, [Next]_vars, NEW q \in Run, RunStep(q),
         NEW s \in Sender, StartedOnce(s), StartedOnce(s)'
  PROVE  Gapless(s)' /\ Aligned(s)'
<1> USE SenderAssumption, RunSender DEF gateVars, StepUnchanged
<1>1. Gapless(s) /\ Aligned(s)
  BY DEF LabelInv
<1>2. \A r \in Run : stage'[r] = "idle" => stage[r] = "idle"
  BY StageMoves
<1>3. sOffset \in [Sender -> Nat] /\ sIndex \in [Sender -> Nat] /\ q[1] \in Sender
  BY DEF TypeOK
<1>4. CASE ~Read(q) /\ ~SendChunk(q)
  <2>1. UNCHANGED <<sOffset, sIndex, readEnd, toReceiver>>
    BY <1>4 DEF RunStep, BeginCancelled, Begin, Finish, TopCancelled, Park, TopClosed, TopDrain,
                Drained, ReadFails, SendCancelled, SendWaits, SendFails
  <2>2. CASE ReleaseGate(q)
    <3>1. NothingRead
      BY <1>2, <2>2, ReleaseMoves DEF NothingRead, Slicing
    <3> QED BY <1>1, <2>1, <3>1, NoFrameSent
  <2>3. CASE ~ReleaseGate(q)
    <3>1. Begin(q) \/ Park(q) \/ TopDrain(q) \/ Drained(q) \/ SendWaits(q)
      BY <1>4, <2>3 DEF RunStep, BeginCancelled, Finish, TopCancelled, TopClosed, ReadFails,
                        SendCancelled, SendFails
    <3>2. /\ \A r \in Run : r # q => stage'[r] = stage[r]
          /\ stage'[q] \in Slicing => stage[q] \in Slicing
      BY <3>1 DEF Begin, Park, TopDrain, Drained, SendWaits, TypeOK, Slicing
    <3>3. NothingRead
      BY <1>2, <3>2 DEF NothingRead
    <3> QED BY <1>1, <2>1, <3>3, NoFrameSent
  <2> QED BY <2>2, <2>3
<1>5. CASE Read(q)
  <2>1. /\ UNCHANGED <<sOffset, sIndex, toReceiver>>
        /\ \A r \in Run : r # q => stage'[r] = stage[r] /\ readEnd'[r] = readEnd[r]
        /\ readEnd'[q] = Lesser(sOffset[q[1]] + 1, Size[q[1]]) /\ sOffset[q[1]] < Size[q[1]]
    BY <1>5 DEF Read, AtTop, TypeOK
  <2>2. readEnd'[q] = sOffset[q[1]] + 1
    BY <1>3, <2>1 DEF Lesser
  <2>3. InBuffer(s)' = InBuffer(s)
    BY <2>1 DEF InBuffer
  <2>4. Gapless(s)'
    BY <1>1, <2>1, <2>3, GaplessSame
  <2>5. (\A n \in 1..MaxStarts : stage'[<<s, n>>] = "idle") => InBuffer(s)' = {}
    <3>1. \A n \in 1..MaxStarts : <<s, n>> \in Run
      BY DEF Run
    <3> QED BY <1>1, <1>2, <2>3, <3>1 DEF Aligned
  <2>6. \A r \in Run : r[1] = s /\ stage'[r] \in {"reading", "drainSend"} => readEnd'[r] = sOffset'[s] + 1
    BY <1>1, <2>1, <2>2 DEF Aligned
  <2> QED BY <1>1, <2>1, <2>4, <2>5, <2>6 DEF Aligned
<1>6. CASE SendChunk(q)
  <2>1. /\ toReceiver' = Append(toReceiver, Chunk(q[1], sIndex[q[1]], readEnd[q]))
        /\ sOffset' = [sOffset EXCEPT ![q[1]] = readEnd[q]]
        /\ sIndex' = [sIndex EXCEPT ![q[1]] = @ + 1]
        /\ stage' = [stage EXCEPT ![q] = "top"] /\ readEnd' = readEnd
        /\ stage[q] \in {"reading", "drainSend"}
    BY <1>6 DEF SendChunk, MaySend, AfterRead
  <2>2. readEnd[q] \in Nat
    BY DEF TypeOK
  <2>3. CASE q[1] # s
    <3>1. sIndex'[s] = sIndex[s] /\ sOffset'[s] = sOffset[s]
      BY <1>3, <2>1, <2>3
    <3>2. /\ Chunk(q[1], sIndex[q[1]], readEnd[q]) \in Message
          /\ Chunk(q[1], sIndex[q[1]], readEnd[q]).key # s
      BY <1>3, <2>2, <2>3, ChunkMessage DEF Chunk
    <3>3. Gapless(s)' /\ InBuffer(s)' = InBuffer(s)
      BY <1>1, <2>1, <3>1, <3>2, OthersAppended
    <3>4. \A r \in Run : r[1] = s => stage'[r] = stage[r]
      BY <2>1, <2>3 DEF TypeOK
    <3>5. (\A n \in 1..MaxStarts : stage'[<<s, n>>] = "idle") => InBuffer(s)' = {}
      <4>1. \A n \in 1..MaxStarts : <<s, n>> \in Run
        BY DEF Run
      <4> QED BY <1>1, <1>2, <3>3, <4>1 DEF Aligned
    <3> QED BY <1>1, <2>1, <3>1, <3>3, <3>4, <3>5 DEF Aligned
  <2>4. CASE q[1] = s
    <3>1. readEnd[q] = sIndex[s] + 1 /\ sOffset[s] = sIndex[s]
      BY <1>1, <2>1, <2>4 DEF Aligned
    <3>2. sIndex'[s] = sIndex[s] + 1 /\ sOffset'[s] = sIndex[s] + 1
      BY <1>3, <2>1, <2>4, <3>1
    <3>3. Gapless(s)'
      BY <1>1, <2>1, <2>4, <3>1, <3>2, FrameAppended
    <3>4. \A r \in Run : r[1] = s => r = q \/ stage[r] = "idle"
      <4>1. \A r \in Run : r[1] = s => r = <<s, 1>> \/ \E n \in 2..MaxStarts : r = <<s, n>>
        BY DEF Run
      <4>2. \A r \in Run : r[1] = s => r = <<s, 1>> \/ stage[r] = "idle"
        BY <4>1 DEF StartedOnce
      <4>3. stage[q] # "idle"
        BY <2>1
      <4> QED BY <2>4, <4>2, <4>3
    <3>5. stage'[q] = "top" /\ \A r \in Run : r # q => stage'[r] = stage[r]
      BY <2>1 DEF TypeOK
    <3>6. \A r \in Run : r[1] = s => stage'[r] \notin {"reading", "drainSend"}
      BY <3>4, <3>5
    <3>7. \E n \in 1..MaxStarts : stage'[<<s, n>>] # "idle"
      BY <2>4, <3>5 DEF Run
    <3> QED BY <3>2, <3>3, <3>6, <3>7 DEF Aligned
  <2> QED BY <2>3, <2>4
<1> QED BY <1>4, <1>5, <1>6

LEMMA LabelStep == TypeOK /\ GateInv /\ LabelInv /\ [Next]_vars => LabelInv'
<1> SUFFICES ASSUME TypeOK, GateInv, LabelInv, [Next]_vars, NEW s \in Sender, StartedOnce(s)'
             PROVE  Gapless(s)' /\ Aligned(s)'
  BY DEF LabelInv
<1>1. StartedOnce(s)
  <2>1. \A n \in 2..MaxStarts : <<s, n>> \in Run
    BY SenderAssumption DEF Run
  <2> QED BY <2>1, StageMoves DEF StartedOnce
<1>2. Gapless(s) /\ Aligned(s)
  BY <1>1 DEF LabelInv
<1>3. CASE \E q \in Sender : \E from : Start(q, from)
  BY <1>1, <1>3, StartLabels
<1>4. CASE \E q \in Run : RunStep(q)
  BY <1>1, <1>4, RunLabels
<1>5. CASE (Environment \/ Transmit \/ UNCHANGED vars) /\ ~\E q \in Sender : \E from : Start(q, from)
  BY <1>2, <1>5, EnvironmentSendsNoFrame, NoFrameSent
<1> QED BY <1>3, <1>4, <1>5 DEF Next

\* The frames of a FileSender that is started once leave in order and without a gap,
\* and each label names the slice it carries, whatever pauses, drains, resume offsets
\* and other transfers of the session come in between.
THEOREM SenderGapless == Spec => []GaplessStream
<1>1. Init => TypeOK /\ GateInv /\ LabelInv
  <2>1. Init => LabelInv
    BY RunSender DEF Init, LabelInv, Gapless, Aligned, InBuffer
  <2> QED BY <2>1, InitType, GateInvInit
<1>2. TypeOK /\ GateInv /\ LabelInv /\ [Next]_vars => (TypeOK /\ GateInv /\ LabelInv)'
  BY TypeStep, GateInvStep, LabelStep
<1>3. LabelInv => GaplessStream
  BY DEF LabelInv, Gapless, GaplessStream
<1> QED BY <1>1, <1>2, <1>3, PTL DEF Spec

=============================================================================
