------------------------- MODULE SendSchedulerProofs -------------------------
(***************************************************************************)
(* The gate of SendScheduler.tla for any set of clients: typing, mutual    *)
(* exclusion, no lost waiter, first come first served.  NoLostWaiter is    *)
(* the inductive invariant; with it, a release that hands the gate to the  *)
(* head of the queue cannot create a second holder.                        *)
(***************************************************************************)
EXTENDS SendScheduler, TLAPS

GateInv == TypeOK /\ NoLostWaiter /\ MutualExclusion

LEMMA InitGateInv == Init => GateInv
<1> SUFFICES ASSUME Init PROVE GateInv
  OBVIOUS
<1>1. queue = <<>> /\ busy = FALSE /\ phase = [c \in Client |-> "idle"]
  BY DEF Init
<1>2. queue \in Seq(Client) /\ DOMAIN queue = {}
  BY <1>1
<1>3. TypeOK
  BY <1>1, <1>2 DEF TypeOK
<1>4. NoLostWaiter /\ MutualExclusion
  BY <1>1, <1>2 DEF NoLostWaiter, MutualExclusion
<1> QED BY <1>3, <1>4 DEF GateInv

LEMMA TypeStep == TypeOK /\ NoLostWaiter /\ [Next]_vars => TypeOK'
<1> SUFFICES ASSUME TypeOK, NoLostWaiter, [Next]_vars PROVE TypeOK'
  OBVIOUS
<1>1. CASE UNCHANGED vars
  BY <1>1 DEF vars, TypeOK
<1>2. ASSUME NEW c \in Client, AcquireFree(c) PROVE TypeOK'
  BY <1>2 DEF TypeOK, AcquireFree
<1>3. ASSUME NEW c \in Client, AcquireQueued(c) PROVE TypeOK'
  BY <1>3 DEF TypeOK, AcquireQueued
<1>4. ASSUME NEW c \in Client, ReleaseToNext(c) PROVE TypeOK'
  BY <1>4 DEF TypeOK, ReleaseToNext
<1>5. ASSUME NEW c \in Client, ReleaseLast(c) PROVE TypeOK'
  BY <1>5 DEF TypeOK, ReleaseLast
<1> QED BY <1>1, <1>2, <1>3, <1>4, <1>5 DEF Next, Release

(* The queue without its head: who is left, and that the head is gone.     *)
LEMMA TailOfQueue ==
  ASSUME TypeOK, NoLostWaiter, queue # <<>>
  PROVE  /\ Tail(queue) \in Seq(Client)
         /\ Len(Tail(queue)) = Len(queue) - 1
         /\ \A i \in DOMAIN Tail(queue) : Tail(queue)[i] = queue[i + 1] /\ i + 1 \in DOMAIN queue
         /\ \A i \in DOMAIN queue : i # 1 => i - 1 \in DOMAIN Tail(queue)
         /\ Head(queue) = queue[1] /\ 1 \in DOMAIN queue
         /\ phase[Head(queue)] = "waiting"
         /\ \A i \in DOMAIN queue : i # 1 => queue[i] # Head(queue)
BY DEF TypeOK, NoLostWaiter

LEMMA GateStep == GateInv /\ [Next]_vars => GateInv'
<1> SUFFICES ASSUME GateInv, [Next]_vars PROVE GateInv'
  OBVIOUS
<1>t. TypeOK'
  BY TypeStep DEF GateInv
<1> USE DEF GateInv
<1>1. CASE UNCHANGED vars
  BY <1>1, <1>t DEF vars, TypeOK, NoLostWaiter, MutualExclusion
<1>2. ASSUME NEW c \in Client, AcquireFree(c) PROVE NoLostWaiter' /\ MutualExclusion'
  BY <1>2 DEF AcquireFree, TypeOK, NoLostWaiter, MutualExclusion
<1>3. ASSUME NEW c \in Client, AcquireQueued(c) PROVE NoLostWaiter' /\ MutualExclusion'
  <2>1. /\ Len(queue') = Len(queue) + 1
        /\ queue'[Len(queue) + 1] = c
        /\ \A i \in DOMAIN queue : queue'[i] = queue[i]
    BY <1>3 DEF AcquireQueued, TypeOK
  <2>2. \A i \in DOMAIN queue' : i \in DOMAIN queue \/ i = Len(queue) + 1
    BY <2>1, <1>3, <1>t DEF TypeOK
  <2>3. \A i \in DOMAIN queue : queue[i] # c
    BY <1>3 DEF AcquireQueued, NoLostWaiter
  <2>4. MutualExclusion'
    BY <1>3 DEF AcquireQueued, TypeOK, MutualExclusion
  <2>5. NoLostWaiter'
    <3>1. \A d \in Client : phase'[d] = "waiting" => \E i \in DOMAIN queue' : queue'[i] = d
      BY <1>3, <2>1, <1>t DEF AcquireQueued, NoLostWaiter, TypeOK
    <3>2. \A i \in DOMAIN queue' : phase'[queue'[i]] = "waiting"
      BY <1>3, <2>1, <2>2 DEF AcquireQueued, NoLostWaiter, TypeOK
    <3>3. \A i, j \in DOMAIN queue' : queue'[i] = queue'[j] => i = j
      BY <2>1, <2>2, <2>3 DEF NoLostWaiter
    <3>4. (busy <=> \E d \in Client : phase[d] = "holding")' /\ (queue # <<>> => busy)'
      BY <1>3 DEF AcquireQueued, NoLostWaiter, TypeOK
    <3> QED BY <3>1, <3>2, <3>3, <3>4 DEF NoLostWaiter
  <2> QED BY <2>4, <2>5
<1>4. ASSUME NEW c \in Client, ReleaseToNext(c) PROVE NoLostWaiter' /\ MutualExclusion'
  <2>1. /\ queue # <<>> /\ queue' = Tail(queue) /\ busy' = busy
        /\ phase[c] = "holding"
        /\ phase' = [phase EXCEPT ![c] = "idle", ![Head(queue)] = "holding"]
    BY <1>4 DEF ReleaseToNext
  <2>2. Head(queue) \in Client /\ Head(queue) # c
    BY <2>1, TailOfQueue DEF TypeOK
  <2>3. MutualExclusion'
    BY <2>1, <2>2 DEF TypeOK, MutualExclusion
  <2>4. NoLostWaiter'
    <3>1. \A d \in Client : phase'[d] = "waiting" => \E i \in DOMAIN queue' : queue'[i] = d
      <4> SUFFICES ASSUME NEW d \in Client, phase'[d] = "waiting"
                   PROVE  \E i \in DOMAIN queue' : queue'[i] = d
        OBVIOUS
      <4>1. phase[d] = "waiting" /\ d # Head(queue)
        BY <2>1, <2>2 DEF TypeOK
      <4>2. PICK i \in DOMAIN queue : queue[i] = d
        BY <4>1 DEF NoLostWaiter
      <4>3. i # 1 /\ i - 1 \in DOMAIN Tail(queue)
        BY <4>1, <4>2, <2>1, TailOfQueue
      <4>4. Tail(queue)[i - 1] = d
        BY <4>2, <4>3, <2>1, TailOfQueue DEF TypeOK
      <4> QED BY <4>3, <4>4, <2>1
    <3>2. \A i \in DOMAIN queue' : phase'[queue'[i]] = "waiting"
      BY <2>1, <2>2, TailOfQueue DEF NoLostWaiter, TypeOK
    <3>3. \A i, j \in DOMAIN queue' : queue'[i] = queue'[j] => i = j
      <4> SUFFICES ASSUME NEW i \in DOMAIN queue', NEW j \in DOMAIN queue', queue'[i] = queue'[j]
                   PROVE  i = j
        OBVIOUS
      <4>1. queue[i + 1] = queue[j + 1] /\ i + 1 \in DOMAIN queue /\ j + 1 \in DOMAIN queue
        BY <2>1, TailOfQueue
      <4>2. i + 1 = j + 1 /\ i \in Nat /\ j \in Nat
        BY <4>1, <1>t DEF NoLostWaiter, TypeOK
      <4> QED BY <4>2
    <3>4. (busy <=> \E d \in Client : phase[d] = "holding")' /\ (queue # <<>> => busy)'
      BY <2>1, <2>2 DEF NoLostWaiter, TypeOK
    <3> QED BY <3>1, <3>2, <3>3, <3>4 DEF NoLostWaiter
  <2> QED BY <2>3, <2>4
<1>5. ASSUME NEW c \in Client, ReleaseLast(c) PROVE NoLostWaiter' /\ MutualExclusion'
  BY <1>5 DEF ReleaseLast, TypeOK, NoLostWaiter, MutualExclusion
<1> QED
  BY <1>t, <1>1, <1>2, <1>3, <1>4, <1>5 DEF Next, Release

-----------------------------------------------------------------------------

(* The fields of the gate keep their types.                                *)
THEOREM SchedulerType == Spec => []TypeOK
<1>1. Init => GateInv BY InitGateInv
<1>2. GateInv /\ [Next]_vars => GateInv' BY GateStep
<1>3. GateInv => TypeOK BY DEF GateInv
<1> QED BY <1>1, <1>2, <1>3, PTL DEF Spec

(* At most one client holds the gate: one sender streams at a time.        *)
THEOREM SchedulerMutualExclusion == Spec => []MutualExclusion
<1>1. Init => GateInv BY InitGateInv
<1>2. GateInv /\ [Next]_vars => GateInv' BY GateStep
<1>3. GateInv => MutualExclusion BY DEF GateInv
<1> QED BY <1>1, <1>2, <1>3, PTL DEF Spec

(* release() never forgets a waiter: whoever waits is queued, and while    *)
(* anybody is queued somebody holds the gate.                              *)
THEOREM SchedulerNoLostWaiter == Spec => []NoLostWaiter
<1>1. Init => GateInv BY InitGateInv
<1>2. GateInv /\ [Next]_vars => GateInv' BY GateStep
<1>3. GateInv => NoLostWaiter BY DEF GateInv
<1> QED BY <1>1, <1>2, <1>3, PTL DEF Spec

(* The gate is handed to the oldest waiter.                                *)
THEOREM SchedulerFirstComeFirstServed == Spec => FirstComeFirstServed
<1> DEFINE Fair == \A c \in Client :
                     phase[c] = "waiting" /\ phase'[c] = "holding" => c = Head(queue)
<1>1. Init => GateInv BY InitGateInv
<1>2. GateInv /\ [Next]_vars => GateInv' BY GateStep
<1>3. GateInv /\ [Next]_vars => [Fair]_vars
  BY DEF GateInv, TypeOK, Next, vars, AcquireFree, AcquireQueued, Release, ReleaseToNext, ReleaseLast
<1> QED BY <1>1, <1>2, <1>3, PTL DEF Spec, FirstComeFirstServed

=============================================================================
