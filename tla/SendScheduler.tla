---------------------------- MODULE SendScheduler ----------------------------
(***************************************************************************)
(* The one-at-a-time gate that every FileSender of a session goes through  *)
(* (class SendScheduler, client/src/p2p/FileSender.ts).  A client is one   *)
(* call of FileSender.run(): it acquires the gate, streams, and releases   *)
(* the gate in its finally block.                                          *)
(*                                                                         *)
(* busy and queue are the two fields of the class.  phase is where each    *)
(* client stands: "idle" (not in the gate), "waiting" (its promise sits in *)
(* queue) or "holding" (acquire() has resolved, release() not yet called). *)
(*                                                                         *)
(* In every module an operator commented "Slip:" is no part of the model:  *)
(* it is a bug the operator after it could have had, which the mutation    *)
(* runs put in its place to see that a property notices.                   *)
(***************************************************************************)
EXTENDS Naturals, Sequences

CONSTANT Client

VARIABLES busy, queue, phase

vars == <<busy, queue, phase>>

TypeOK ==
  /\ busy \in BOOLEAN
  /\ queue \in Seq(Client)
  /\ phase \in [Client -> {"idle", "waiting", "holding"}]

Init ==
  /\ busy = FALSE
  /\ queue = <<>>
  /\ phase = [c \in Client |-> "idle"]

(* acquire(): taken at once when nobody holds the gate, ...                *)
AcquireFree(c) ==
  /\ phase[c] = "idle"
  /\ ~busy
  /\ busy' = TRUE
  /\ phase' = [phase EXCEPT ![c] = "holding"]
  /\ UNCHANGED queue

(* ... otherwise the resolve function of a new promise joins the queue.    *)
AcquireQueued(c) ==
  /\ phase[c] = "idle"
  /\ busy
  /\ queue' = Append(queue, c)
  /\ phase' = [phase EXCEPT ![c] = "waiting"]
  /\ UNCHANGED busy

(* release(): the gate passes straight to the oldest waiter; busy is only  *)
(* cleared when there is none.                                             *)
ReleaseToNext(c) ==
  /\ phase[c] = "holding"
  /\ queue # <<>>
  /\ queue' = Tail(queue)
  /\ phase' = [phase EXCEPT ![c] = "idle", ![Head(queue)] = "holding"]
  /\ UNCHANGED busy

ReleaseLast(c) ==
  /\ phase[c] = "holding"
  /\ queue = <<>>
  /\ busy' = FALSE
  /\ phase' = [phase EXCEPT ![c] = "idle"]
  /\ UNCHANGED queue

Release(c) == ReleaseToNext(c) \/ ReleaseLast(c)

Next == \E c \in Client : AcquireFree(c) \/ AcquireQueued(c) \/ Release(c)

Spec == Init /\ [][Next]_vars

-----------------------------------------------------------------------------

(* At most one sender of a session streams at a time: the promise of the   *)
(* class comment, "One-at-a-time gate shared by all senders on a channel". *)
MutualExclusion ==
  \A c, d \in Client : phase[c] = "holding" /\ phase[d] = "holding" => c = d

(* No wake-up is lost: a client that waits has its resolve function in the *)
(* queue exactly once, nobody else is in there, and while anybody waits    *)
(* some client holds the gate and will hand it over.                       *)
NoLostWaiter ==
  /\ \A c \in Client : phase[c] = "waiting" => \E i \in DOMAIN queue : queue[i] = c
  /\ \A i \in DOMAIN queue : phase[queue[i]] = "waiting"
  /\ \A i, j \in DOMAIN queue : queue[i] = queue[j] => i = j
  /\ busy <=> \E c \in Client : phase[c] = "holding"
  /\ queue # <<>> => busy

(* The gate is fair: of two waiting clients the one that queued first gets *)
(* the gate first, so nobody gets the gate over the head of the queue.     *)
FirstComeFirstServed ==
  [][\A c \in Client :
       phase[c] = "waiting" /\ phase'[c] = "holding" => c = Head(queue)]_vars

=============================================================================
