------------------------ MODULE TransferRegistryProofs ------------------------
(***************************************************************************)
(* What the list of transfers and the history of TransferRegistry.tla keep *)
(* for any number of transfers, chunks, attempts and sessions, whatever    *)
(* users do and whatever breaks; and that the two sides of a transfer      *)
(* agree on how it ended.                                                  *)
(***************************************************************************)
EXTENDS TransferRegistry, TLAPS

SenderState ==
  [session : Nat, status : Active \cup Over, cancelled : BOOLEAN, paused : BOOLEAN,
   queued : Nat, run : {"idle", "loop", "reading"}, offset : Nat, index : Nat,
   end : Nat, stray : BOOLEAN, overtaken : BOOLEAN]

ReceiverState ==
  [session : Nat, status : Active \cup Over, got : Nat, expected : Nat, writing : Nat,
   stream : {"none", "open", "errored", "discarded"} \cup Closing, dialog : BOOLEAN,
   late : BOOLEAN, missed : BOOLEAN]

Entry == Active \cup Over \cup {"none"}

ListTyped ==
  /\ sEntry \in [Transfer -> Entry]
  /\ reported \in SUBSET Transfer
  /\ reports \in [Attempt -> Seq(Active \cup Over)]

ReceiverTyped ==
  /\ rcv \in [Attempt -> ReceiverState]
  /\ rEntry \in [Transfer -> Entry]
  /\ saved \in SUBSET Transfer

Typed ==
  /\ sessions \in 0..MaxSessions /\ session \in [Side -> Nat] /\ open \in [Side -> BOOLEAN]
  /\ toReceiver \in Seq(Messages) /\ toSender \in Seq(Messages)
  /\ tries \in [Transfer -> 0..MaxAttempts]
  /\ snd \in [Attempt -> SenderState]
  /\ ListTyped /\ ReceiverTyped
  /\ byKey \in [Attempt -> Attempt \cup {None}] /\ byId \in [Transfer -> Attempt \cup {None}]
  /\ onScreen \in SUBSET Transfer

\* A session is the latest one or none, and only the latest can be open.
LinkInv ==
  \A d \in Side : session[d] \in {0, sessions} /\ (open[d] => session[d] = sessions /\ sessions > 0)

\* A FileSender exists, in a session that was, from its offer on.
ObjectInv ==
  \A k \in Attempt :
    /\ IF k[2] <= tries[k[1]] THEN snd[k].session \in 1..sessions
       ELSE /\ snd[k].session = 0 /\ snd[k].queued = 0 /\ snd[k].run = "idle" /\ ~snd[k].stray
            /\ snd[k].status = "pending"
    /\ snd[k].status = "failed" => snd[k].cancelled

\* Retries go into later sessions.
LatestInv == \A k \in Attempt : k[2] <= tries[k[1]] => snd[k].session <= snd[Newest(k[1])].session

\* The flag of an entry stands for the newest attempt, and every older one has
\* its record.
ReportInv ==
  /\ \A t \in Transfer :
       IF tries[t] = 0 THEN sEntry[t] = "none" /\ t \notin reported
       ELSE /\ sEntry[t] # "none"
            /\ sEntry[t] \in Over => t \in reported
            /\ t \in reported <=> reports[Newest(t)] # <<>>
  /\ \A k \in Attempt :
       /\ Len(reports[k]) <= 1
       /\ k[2] > tries[k[1]] => reports[k] = <<>>
       /\ k[2] < tries[k[1]] => reports[k] # <<>>

\* An entry under way belongs to a sender that sendersById of the session has.
ShownInv ==
  \A t \in Transfer : tries[t] > 0 /\ ~Strayed(t) =>
    /\ \/ sEntry[t] = snd[Newest(t)].status
       \/ sEntry[t] = "failed" /\ \E n \in 1..(tries[t] - 1) : snd[<<t, n>>].status = "failed"
    /\ sEntry[t] \in Active => session["sender"] # 0 /\ snd[Newest(t)].session = session["sender"]

Replies == {"accept", "reject", "complete", "pause", "resume", "cancel"}

\* What a message on its way to the sender is worth: it finds a sender of the
\* latest session, and a confirmation means a file that was saved.
Valid(m) ==
  \/ m.type = "cancel-all"
  \/ /\ m.type \in Replies /\ m.t \in Transfer /\ tries[m.t] > 0
     /\ snd[Newest(m.t)].session = sessions
     /\ m.type = "complete" => m.t \in saved

ReplyInv == \A i \in DOMAIN toSender : Valid(toSender[i])

SavedInv ==
  \A k \in Attempt : \A i \in DOMAIN reports[k] : reports[k][i] = "completed" => k[1] \in saved

\* The receiver of k, or of t, is there when message i arrives.
OfferedBefore(i, k) ==
  byKey[k] # None \/ \E j \in 1..(i - 1) : toReceiver[j].type = "offer" /\ <<toReceiver[j].t, toReceiver[j].n>> = k
TransferBefore(i, t) ==
  byId[t] # None \/ \E j \in 1..(i - 1) : toReceiver[j].type = "offer" /\ toReceiver[j].t = t

\* A message on its way to the receiver finds the receiver its offer created.
Routed(i, m) ==
  LET k == <<m.t, m.n>> IN
  \/ m.type = "cancel-all"
  \/ m.type \in {"pause", "resume", "cancel"} /\ m.t \in Transfer /\ TransferBefore(i, m.t)
  \/ /\ m.type \in {"offer", "chunk"} /\ k \in Attempt /\ m.n <= tries[m.t]
     /\ snd[k].session = sessions
     /\ m.type = "chunk" => OfferedBefore(i, k)

RouteInv ==
  /\ \A i \in DOMAIN toReceiver : Routed(i, toReceiver[i])
  /\ \A k \in Attempt : Linked /\ snd[k].session = sessions => OfferedBefore(Len(toReceiver) + 1, k)

\* The offers of a transfer arrive in the order of its attempts.
OrderInv ==
  \A i \in DOMAIN toReceiver : toReceiver[i].type = "offer" =>
    /\ \A k \in Attempt : k[1] = toReceiver[i].t /\ byKey[k] # None => k[2] < toReceiver[i].n
    /\ \A j \in 1..(i - 1) : toReceiver[j].type = "offer" /\ toReceiver[j].t = toReceiver[i].t =>
         toReceiver[j].n < toReceiver[i].n

\* A receiver, and what the maps have of it, is of a transfer offered in its session.
ReceiverInv ==
  /\ \A o \in Attempt : rcv[o].session # 0 =>
       /\ o[2] <= tries[o[1]]
       /\ rcv[o].session <= snd[Newest(o[1])].session /\ rcv[o].session <= sessions
  /\ \A k \in Attempt : byKey[k] # None =>
       /\ k[2] <= tries[k[1]] /\ byKey[k][1] = k[1] /\ byKey[k][2] <= k[2]
       /\ byId[k[1]] # None /\ rcv[byKey[k]].session # 0
  /\ \A t \in Transfer : byId[t] # None => \E n \in 1..tries[t] : byKey[<<t, n>>] = byId[t]

\* The inductive invariant.
IInv ==
  /\ Typed /\ LinkInv /\ ObjectInv /\ ReportInv /\ ShownInv /\ ReplyInv /\ SavedInv
  /\ LatestInv /\ RouteInv /\ OrderInv /\ ReceiverInv

-----------------------------------------------------------------------------
(* Attempts and senders.                                                   *)

LEMMA AttemptFacts ==
  /\ \A k \in Attempt : k[1] \in Transfer /\ k[2] \in 1..MaxAttempts /\ k[2] \in Nat /\ k = <<k[1], k[2]>> /\ k # None
  /\ \A t \in Transfer, n \in 1..MaxAttempts : <<t, n>> \in Attempt /\ <<t, n>>[1] = t /\ <<t, n>>[2] = n
BY DEF Attempt, None

LEMMA NewestFacts ==
  ASSUME Typed, NEW t \in Transfer
  PROVE  /\ tries[t] \in Nat /\ tries[t] <= MaxAttempts
         /\ tries[t] > 0 => Newest(t) \in Attempt
         /\ Newest(t)[1] = t /\ Newest(t)[2] = tries[t]
<1> USE RegistryAssumption
<1>1. tries[t] \in 0..MaxAttempts
  BY DEF Typed
<1> QED BY <1>1, AttemptFacts DEF Newest

LEMMA SendersFacts ==
  ASSUME Typed, LinkInv, ObjectInv
  PROVE  \A k \in Senders : /\ k \in Attempt /\ k[1] \in Transfer /\ tries[k[1]] > 0 /\ k = Newest(k[1])
                            /\ snd[k].session = session["sender"] /\ session["sender"] # 0
<1> SUFFICES ASSUME NEW t \in Transfer, tries[t] > 0, snd[Newest(t)].session = session["sender"]
             PROVE  LET k == Newest(t) IN
                    /\ k \in Attempt /\ k[1] \in Transfer /\ tries[k[1]] > 0 /\ k = Newest(k[1])
                    /\ snd[k].session = session["sender"] /\ session["sender"] # 0
  BY DEF Senders
<1>1. Newest(t) \in Attempt /\ Newest(t)[1] = t /\ Newest(t)[2] = tries[t] /\ tries[t] \in Nat
  BY NewestFacts
<1>2. snd[Newest(t)].session \in 1..sessions
  BY <1>1 DEF ObjectInv
<1>3. session["sender"] # 0
  BY <1>2
<1> QED BY <1>1, <1>3

LEMMA NewSenderTyped ==
  /\ \A n \in Nat : NewSender(n) \in SenderState
  /\ \A n \in Nat : NewReceiver(n) \in ReceiverState
BY RegistryAssumption DEF NewSender, NewReceiver, SenderState, ReceiverState, Active, Over

-----------------------------------------------------------------------------
(* The list: what a status keeps of it, and of the history.                *)

LEMMA EntryFacts ==
  /\ "none" \notin Active \cup Over /\ Active \cap Over = {}
  /\ "pending" \in Active /\ "transferring" \in Active /\ "paused" \in Active
  /\ "completed" \in Over /\ "cancelled" \in Over /\ "failed" \in Over
  /\ Settled = {"completed", "cancelled"}
BY DEF Active, Over, Settled

LEMMA ReportsKeep ==
  ASSUME Typed, ReportInv, NEW T \in SUBSET Transfer, NEW st \in Active \cup Over,
         SendStatus(T, st), tries' = tries, \A t \in T : tries[t] > 0
  PROVE  /\ ListTyped' /\ ReportInv'
         /\ \A t \in Transfer : sEntry'[t] = IF t \in T THEN st ELSE sEntry[t]
         /\ \A k \in Attempt : \A i \in DOMAIN reports'[k] :
              \/ k[1] \in T /\ reports'[k][i] = st
              \/ i \in DOMAIN reports[k] /\ reports'[k][i] = reports[k][i]
<1>1. \A t \in Transfer : sEntry'[t] = IF t \in T THEN st ELSE sEntry[t]
  BY DEF SendStatus
<1>2. \A k \in Attempt : reports'[k] = IF k[1] \in T /\ k = Newest(k[1]) /\ Reports(k[1], st)
                                       THEN Append(reports[k], st) ELSE reports[k]
  BY DEF SendStatus
<1>3. \A k \in Attempt : reports[k] \in Seq(Active \cup Over)
  BY DEF Typed, ListTyped
<1>4. ListTyped'
  <2>1. sEntry' \in [Transfer -> Entry]
    BY DEF SendStatus, Typed, ListTyped, Entry
  <2>2. reports' \in [Attempt -> Seq(Active \cup Over)]
    <3>1. ASSUME NEW k \in Attempt PROVE reports'[k] \in Seq(Active \cup Over)
      <4>1. reports[k] \in Seq(Active \cup Over)
        BY <1>3
      <4>2. Append(reports[k], st) \in Seq(Active \cup Over)
        BY <4>1
      <4>3. reports'[k] = reports[k] \/ reports'[k] = Append(reports[k], st)
        BY <1>2
      <4> QED BY <4>1, <4>2, <4>3
    <3> QED BY <3>1 DEF SendStatus
  <2> QED BY <2>1, <2>2 DEF SendStatus, Typed, ListTyped
<1>5. \A t \in Transfer : t \in reported' <=> t \in reported \/ (t \in T /\ Reports(t, st))
  BY DEF SendStatus
<1>6. \A t \in Transfer :
        IF tries[t] = 0 THEN sEntry'[t] = "none" /\ t \notin reported'
        ELSE /\ sEntry'[t] # "none"
             /\ sEntry'[t] \in Over => t \in reported'
             /\ t \in reported' <=> reports'[Newest(t)] # <<>>
  <2> SUFFICES ASSUME NEW t \in Transfer
               PROVE  IF tries[t] = 0 THEN sEntry'[t] = "none" /\ t \notin reported'
                      ELSE /\ sEntry'[t] # "none"
                           /\ sEntry'[t] \in Over => t \in reported'
                           /\ t \in reported' <=> reports'[Newest(t)] # <<>>
    OBVIOUS
  <2>1. CASE t \notin T
    <3>1. sEntry'[t] = sEntry[t] /\ (t \in reported' <=> t \in reported)
      BY <1>1, <1>5, <2>1
    <3>2. tries[t] # 0 => reports'[Newest(t)] = reports[Newest(t)]
      BY <1>2, <2>1, NewestFacts
    <3> QED BY <3>1, <3>2 DEF ReportInv
  <2>2. CASE t \in T
    <3>1. tries[t] # 0 /\ Newest(t) \in Attempt /\ Newest(t)[1] = t
      BY <2>2, NewestFacts
    <3>2. sEntry'[t] = st /\ (t \in reported' <=> t \in reported \/ Reports(t, st))
      BY <1>1, <1>5, <2>2
    <3>3. reports'[Newest(t)] = IF Reports(t, st) THEN Append(reports[Newest(t)], st) ELSE reports[Newest(t)]
      BY <1>2, <2>2, <3>1
    <3>4. reports'[Newest(t)] # <<>> <=> reports[Newest(t)] # <<>> \/ Reports(t, st)
      BY <1>3, <3>1, <3>3
    <3> QED BY <3>1, <3>2, <3>4, EntryFacts DEF ReportInv, Reports
  <2> QED BY <2>1, <2>2
<1>7. \A k \in Attempt :
        /\ Len(reports'[k]) <= 1
        /\ k[2] > tries[k[1]] => reports'[k] = <<>>
        /\ k[2] < tries[k[1]] => reports'[k] # <<>>
  <2> SUFFICES ASSUME NEW k \in Attempt
               PROVE  /\ Len(reports'[k]) <= 1
                      /\ k[2] > tries[k[1]] => reports'[k] = <<>>
                      /\ k[2] < tries[k[1]] => reports'[k] # <<>>
    OBVIOUS
  <2>1. CASE reports'[k] = reports[k]
    BY <2>1 DEF ReportInv
  <2>2. CASE k[1] \in T /\ k = Newest(k[1]) /\ Reports(k[1], st) /\ reports'[k] = Append(reports[k], st)
    <3>1. k[1] \in Transfer /\ k[2] = tries[k[1]] /\ tries[k[1]] \in Nat /\ tries[k[1]] # 0
      BY <2>2, NewestFacts, AttemptFacts
    <3>2. reports[k] = <<>>
      BY <2>2, <3>1 DEF ReportInv, Reports
    <3>3. Len(reports'[k]) = 1
      BY <2>2, <3>2
    <3> QED BY <3>1, <3>3
  <2> QED BY <1>2, <2>1, <2>2
<1>8. ReportInv'
  <2>1. \A t \in Transfer : Newest(t)' = Newest(t)
    BY DEF Newest
  <2> QED BY <1>6, <1>7, <2>1 DEF ReportInv
<1>9. \A k \in Attempt : \A i \in DOMAIN reports'[k] :
        \/ k[1] \in T /\ reports'[k][i] = st
        \/ i \in DOMAIN reports[k] /\ reports'[k][i] = reports[k][i]
  <2> SUFFICES ASSUME NEW k \in Attempt, NEW i \in DOMAIN reports'[k]
               PROVE  \/ k[1] \in T /\ reports'[k][i] = st
                      \/ i \in DOMAIN reports[k] /\ reports'[k][i] = reports[k][i]
    OBVIOUS
  <2>1. CASE reports'[k] = reports[k]
    BY <2>1
  <2>2. CASE k[1] \in T /\ reports'[k] = Append(reports[k], st)
    <3>1. reports[k] \in Seq(Active \cup Over)
      BY <1>3
    <3>2. i \in 1..(Len(reports[k]) + 1) /\ DOMAIN reports[k] = 1..Len(reports[k]) /\ Len(reports[k]) \in Nat
      BY <2>2, <3>1
    <3>3. CASE i = Len(reports[k]) + 1
      BY <2>2, <3>1, <3>3
    <3>4. CASE i \in 1..Len(reports[k])
      BY <2>2, <3>1, <3>2, <3>4
    <3> QED BY <3>2, <3>3, <3>4
  <2> QED BY <1>2, <2>1, <2>2
<1> QED BY <1>1, <1>4, <1>8, <1>9

-----------------------------------------------------------------------------
(* Senders and the entries they are bound to.                              *)

\* What a step of the sending side keeps.
SenderSide == Typed /\ LinkInv /\ ObjectInv /\ ReportInv /\ ShownInv /\ SavedInv

\* The part of it that such a step can disturb.
SenderKept ==
  /\ snd' \in [Attempt -> SenderState] /\ ListTyped'
  /\ ObjectInv' /\ ReportInv' /\ ShownInv' /\ SavedInv'
  /\ \A k \in Attempt : snd'[k].session = snd[k].session

Tried(k) == k \in Attempt /\ k[2] <= tries[k[1]]

LEMMA NewestTried == ASSUME Typed, NEW t \in Transfer, tries[t] > 0 PROVE Tried(Newest(t))
BY NewestFacts DEF Tried

\* A sender goes on, and its entry does not see it.
LEMMA UnseenKeeps ==
  ASSUME SenderSide, NEW k, Tried(k), NEW s \in SenderState,
         snd' = [snd EXCEPT ![k] = s], UNCHANGED <<lists, tries, sessions, session, saved>>,
         s.session = snd[k].session, s.status = snd[k].status, s.stray = snd[k].stray,
         snd[k].cancelled => s.cancelled
  PROVE  SenderKept
<1> USE DEF SenderSide
<1>1. snd' \in [Attempt -> SenderState] /\ \A j \in Attempt : snd'[j] = IF j = k THEN s ELSE snd[j]
  BY DEF Typed, Tried
<1>2. \A j \in Attempt : /\ snd'[j].session = snd[j].session /\ snd'[j].status = snd[j].status
                         /\ snd'[j].stray = snd[j].stray /\ (snd[j].cancelled => snd'[j].cancelled)
  BY <1>1
<1>3. ObjectInv'
  BY <1>1, <1>2 DEF ObjectInv, Tried
<1>4. ReportInv' /\ SavedInv' /\ ListTyped'
  BY DEF ReportInv, SavedInv, ListTyped, Typed, lists, Newest
<1>5. ShownInv'
  <2> SUFFICES ASSUME NEW t \in Transfer, tries[t] > 0, ~Strayed(t)'
               PROVE  /\ \/ sEntry[t] = snd'[Newest(t)].status
                         \/ sEntry[t] = "failed" /\ \E n \in 1..(tries[t] - 1) : snd'[<<t, n>>].status = "failed"
                      /\ sEntry[t] \in Active => session["sender"] # 0 /\ snd'[Newest(t)].session = session["sender"]
    BY DEF ShownInv, lists, Newest
  <2>1. ~Strayed(t)
    BY <1>2, AttemptFacts DEF Strayed
  <2>2. Newest(t) \in Attempt
    BY NewestFacts
  <2>3. \A n \in 1..(tries[t] - 1) : <<t, n>> \in Attempt
    BY AttemptFacts, NewestFacts, RegistryAssumption
  <2> QED BY <2>1, <2>2, <2>3, <1>2 DEF ShownInv
<1> QED BY <1>1, <1>2, <1>3, <1>4, <1>5 DEF SenderKept

\* setStatus() of one sender.
LEMMA SetKeeps ==
  ASSUME SenderSide, NEW k, Tried(k), NEW s \in SenderState,
         SetSender(k, s), UNCHANGED <<tries, sessions, session, saved>>,
         s.session = snd[k].session, snd[k].stray => s.stray,
         s.status = "failed" => s.cancelled,
         s.status = "completed" => k[1] \in saved,
         \/ s.stray \/ s.status = "failed"
         \/ /\ k = Newest(k[1])
            /\ s.status \in Active => session["sender"] # 0 /\ s.session = session["sender"]
  PROVE  SenderKept
<1> USE DEF SenderSide
<1>1. snd' \in [Attempt -> SenderState] /\ \A j \in Attempt : snd'[j] = IF j = k THEN s ELSE snd[j]
  BY DEF Typed, Tried, SetSender
<1>2. k \in Attempt /\ k[1] \in Transfer /\ k[2] \in Nat /\ k[2] <= tries[k[1]] /\ tries[k[1]] \in Nat /\ k = <<k[1], k[2]>> /\ k[2] >= 1
  BY AttemptFacts, NewestFacts DEF Tried
<1>3. s.status \in Active \cup Over /\ SendStatus({k[1]}, s.status)
  BY DEF SetSender, SenderState
<1>4. /\ ListTyped' /\ ReportInv'
      /\ \A t \in Transfer : sEntry'[t] = IF t \in {k[1]} THEN s.status ELSE sEntry[t]
      /\ \A j \in Attempt : \A i \in DOMAIN reports'[j] :
           \/ j[1] \in {k[1]} /\ reports'[j][i] = s.status
           \/ i \in DOMAIN reports[j] /\ reports'[j][i] = reports[j][i]
  <2> DEFINE T == {k[1]}
             st == s.status
  <2>1. T \in SUBSET Transfer /\ \A t \in T : tries[t] > 0
    BY <1>2
  <2>2. st \in Active \cup Over /\ SendStatus(T, st) /\ tries' = tries
    BY <1>3
  <2> HIDE DEF T, st
  <2>3. /\ ListTyped' /\ ReportInv'
        /\ \A t \in Transfer : sEntry'[t] = IF t \in T THEN st ELSE sEntry[t]
        /\ \A j \in Attempt : \A i \in DOMAIN reports'[j] :
             \/ j[1] \in T /\ reports'[j][i] = st
             \/ i \in DOMAIN reports[j] /\ reports'[j][i] = reports[j][i]
    BY <2>1, <2>2, ReportsKeep
  <2> QED BY <2>3 DEF T, st
<1>5. SavedInv'
  BY <1>4 DEF SavedInv
<1>6. \A j \in Attempt : snd'[j].session = snd[j].session
  BY <1>1
<1>7. ObjectInv'
  BY <1>1, <1>2 DEF ObjectInv
<1>8. ShownInv'
  <2> SUFFICES ASSUME NEW t \in Transfer, tries[t] > 0, ~Strayed(t)'
               PROVE  /\ \/ sEntry'[t] = snd'[Newest(t)].status
                         \/ sEntry'[t] = "failed" /\ \E n \in 1..(tries[t] - 1) : snd'[<<t, n>>].status = "failed"
                      /\ sEntry'[t] \in Active => session["sender"] # 0 /\ snd'[Newest(t)].session = session["sender"]
    BY DEF ShownInv, Newest
  <2>1. ~Strayed(t)
    BY <1>1, AttemptFacts DEF Strayed
  <2>2. Newest(t) \in Attempt /\ Newest(t)[1] = t /\ Newest(t)[2] = tries[t]
    BY NewestFacts
  <2>3. \A n \in 1..(tries[t] - 1) : <<t, n>> \in Attempt /\ <<t, n>>[1] = t
    BY AttemptFacts, NewestFacts, RegistryAssumption
  <2>4. CASE t # k[1]
    <3>1. sEntry'[t] = sEntry[t] /\ snd'[Newest(t)] = snd[Newest(t)]
      BY <1>1, <1>4, <2>2, <2>4
    <3>2. \A n \in 1..(tries[t] - 1) : snd'[<<t, n>>] = snd[<<t, n>>]
      BY <1>1, <2>3, <2>4
    <3> QED BY <2>1, <3>1, <3>2 DEF ShownInv
  <2>5. CASE t = k[1]
    <3>1. sEntry'[t] = s.status /\ snd'[k] = s
      BY <1>1, <1>2, <1>4, <2>5
    <3>2. ~s.stray
      BY <1>2, <2>5, <3>1, AttemptFacts DEF Strayed
    <3>3. CASE k = Newest(k[1])
      BY <3>1, <3>2, <3>3, <2>5, EntryFacts
    <3>4. CASE k # Newest(k[1])
      <4>1. s.status = "failed"
        BY <3>2, <3>4
      <4>2. k[2] \in 1..(tries[t] - 1) /\ k = <<t, k[2]>>
        BY <1>2, <2>5, <3>4 DEF Newest
      <4>3. snd'[<<t, k[2]>>].status = "failed"
        BY <3>1, <4>1, <4>2
      <4> QED BY <3>1, <4>1, <4>2, <4>3, EntryFacts
    <3> QED BY <3>3, <3>4
  <2> QED BY <2>4, <2>5
<1> QED BY <1>1, <1>4, <1>5, <1>6, <1>7, <1>8 DEF SenderKept

\* cancel() and fail() of newest senders, also when their session ends.
LEMMA StopKeeps ==
  ASSUME SenderSide, NEW K \in SUBSET Attempt, \A k \in K : k = Newest(k[1]) /\ tries[k[1]] > 0,
         NEW st \in {"failed", "cancelled"},
         NEW Extra \in SUBSET Transfer,
         \A t \in Extra : sEntry[t] \in Active /\ (Newest(t) \in Senders => Newest(t) \in K),
         StopSenders(K, st, Extra), UNCHANGED <<tries, sessions, saved>>,
         session' = session \/ Senders \subseteq K
  PROVE  SenderKept
<1> USE DEF SenderSide
<1> DEFINE hit == {k \in K : snd[k].status \notin Settled}
           stopped(k) == [snd[k] EXCEPT !.status = st, !.cancelled = TRUE]
           T == {k[1] : k \in hit} \cup Extra
<1>1. /\ snd' = [k \in Attempt |-> IF k \in hit THEN stopped(k) ELSE snd[k]]
      /\ SendStatus(T, st)
  BY DEF StopSenders
<1>2. \A k \in Attempt : snd[k] \in SenderState /\ stopped(k) \in SenderState
  <2>1. st \in Active \cup Over
    BY EntryFacts
  <2>2. ASSUME NEW k \in Attempt PROVE snd[k] \in SenderState /\ stopped(k) \in SenderState
    <3>1. snd[k] \in SenderState
      BY DEF Typed
    <3> QED BY <2>1, <3>1 DEF SenderState
  <2> QED BY <2>2
<1>3. snd' \in [Attempt -> SenderState]
  BY <1>1, <1>2
<1>4. \A k \in Attempt :
        /\ snd'[k].session = snd[k].session /\ snd'[k].stray = snd[k].stray
        /\ snd'[k].status = IF k \in hit THEN st ELSE snd[k].status
        /\ snd'[k].cancelled = IF k \in hit THEN TRUE ELSE snd[k].cancelled
        /\ snd'[k].queued = snd[k].queued /\ snd'[k].run = snd[k].run
  BY <1>1, <1>2 DEF SenderState
<1>5. T \in SUBSET Transfer /\ \A t \in T : tries[t] > 0
  <2>1. \A t \in Extra : tries[t] > 0
    BY NewestFacts, EntryFacts DEF ReportInv
  <2>2. \A k \in hit : k[1] \in Transfer /\ tries[k[1]] > 0
    BY AttemptFacts
  <2> QED BY <2>1, <2>2
<1>6. st \in Active \cup Over /\ st # "completed" /\ st \notin Active
  BY EntryFacts
<1>7. tries' = tries
  OBVIOUS
<1>8. \A k \in hit : k = Newest(k[1]) /\ k \in Attempt
  OBVIOUS
<1>9. \A k \in K : snd[k].status \notin Settled => k \in hit
  OBVIOUS
<1>10. \A k \in hit : k[1] \in T
  OBVIOUS
<1>11. \A t \in T : t \in Extra \/ \E k \in hit : t = k[1]
  OBVIOUS
<1> HIDE DEF hit, T
<1>12. /\ ListTyped' /\ ReportInv'
       /\ \A t \in Transfer : sEntry'[t] = IF t \in T THEN st ELSE sEntry[t]
       /\ \A j \in Attempt : \A i \in DOMAIN reports'[j] :
            \/ j[1] \in T /\ reports'[j][i] = st
            \/ i \in DOMAIN reports[j] /\ reports'[j][i] = reports[j][i]
  <2>1. Typed /\ ReportInv /\ SendStatus(T, st) /\ T \in SUBSET Transfer /\ st \in Active \cup Over
    BY <1>1, <1>5, <1>6
  <2> QED BY <2>1, <1>5, <1>7, ReportsKeep, SMTT(30)
<1>13. SavedInv'
  BY <1>6, <1>12 DEF SavedInv
<1>14. ObjectInv'
  <2>1. \A k \in hit : k[2] <= tries[k[1]]
    BY <1>8, <1>5, <1>10, NewestFacts
  <2> SUFFICES ASSUME NEW k \in Attempt
               PROVE  /\ IF k[2] <= tries[k[1]] THEN snd'[k].session \in 1..sessions
                         ELSE /\ snd'[k].session = 0 /\ snd'[k].queued = 0 /\ snd'[k].run = "idle"
                              /\ ~snd'[k].stray /\ snd'[k].status = "pending"
                      /\ snd'[k].status = "failed" => snd'[k].cancelled
    BY DEF ObjectInv
  <2>2. CASE k \in hit
    BY <1>4, <2>1, <2>2 DEF ObjectInv
  <2>3. CASE k \notin hit
    BY <1>4, <2>3 DEF ObjectInv
  <2> QED BY <2>2, <2>3
<1>15. ShownInv'
  <2> SUFFICES ASSUME NEW t \in Transfer, tries[t] > 0, ~Strayed(t)'
               PROVE  /\ \/ sEntry'[t] = snd'[Newest(t)].status
                         \/ sEntry'[t] = "failed" /\ \E n \in 1..(tries[t] - 1) : snd'[<<t, n>>].status = "failed"
                      /\ sEntry'[t] \in Active => session'["sender"] # 0 /\ snd'[Newest(t)].session = session'["sender"]
    BY DEF ShownInv, Newest
  <2>1. ~Strayed(t)
    BY <1>4, AttemptFacts DEF Strayed
  <2>2. Newest(t) \in Attempt /\ Newest(t)[1] = t /\ tries[t] \in Nat
    BY NewestFacts
  <2>3. sEntry[t] \in Active => Newest(t) \in Senders /\ snd[Newest(t)].status = sEntry[t] /\ snd[Newest(t)].status \notin Settled
    <3>1. sEntry[t] \in Active => snd[Newest(t)].status = sEntry[t] /\ snd[Newest(t)].session = session["sender"]
      BY <2>1, EntryFacts DEF ShownInv
    <3> QED BY <3>1, EntryFacts DEF Senders
  <2>4. CASE Newest(t) \in hit
    <3>1. t \in T
      BY <1>10, <2>2, <2>4
    <3> QED BY <3>1, <1>4, <1>6, <1>12, <2>2, <2>4
  <2>5. CASE Newest(t) \notin hit
    <3>1. t \notin T
      <4>1. ASSUME t \in Extra PROVE FALSE
        BY <4>1, <2>3, <2>5, <1>9
      <4>2. ASSUME NEW k \in hit, t = k[1] PROVE FALSE
        BY <4>2, <1>8, <2>5
      <4> QED BY <4>1, <4>2, <1>11
    <3>2. sEntry'[t] = sEntry[t] /\ snd'[Newest(t)].status = snd[Newest(t)].status
      BY <3>1, <1>4, <1>12, <2>2, <2>5
    <3>3. \A n \in 1..(tries[t] - 1) : snd'[<<t, n>>].status = snd[<<t, n>>].status
      <4> SUFFICES ASSUME NEW n \in 1..(tries[t] - 1) PROVE snd'[<<t, n>>].status = snd[<<t, n>>].status
        OBVIOUS
      <4>1. <<t, n>> \in Attempt /\ <<t, n>>[1] = t /\ <<t, n>>[2] = n
        BY <2>2, AttemptFacts, NewestFacts, RegistryAssumption
      <4>2. <<t, n>> # Newest(t)
        BY <4>1, <2>2, NewestFacts
      <4>3. <<t, n>> \notin hit
        BY <4>1, <4>2, <1>8
      <4> QED BY <4>1, <4>3, <1>4
    <3>4. sEntry[t] \in Active => session' = session
      BY <2>3, <2>5, <1>9
    <3>5. \/ sEntry[t] = snd[Newest(t)].status
          \/ sEntry[t] = "failed" /\ \E n \in 1..(tries[t] - 1) : snd[<<t, n>>].status = "failed"
      BY <2>1 DEF ShownInv
    <3>6. sEntry[t] \in Active => session["sender"] # 0 /\ snd[Newest(t)].session = session["sender"]
      BY <2>1 DEF ShownInv
    <3>7. snd'[Newest(t)].session = snd[Newest(t)].session
      BY <1>4, <2>2
    <3> QED BY <3>2, <3>3, <3>4, <3>5, <3>6, <3>7
  <2> QED BY <2>4, <2>5
<1> QED BY <1>3, <1>4, <1>12, <1>13, <1>14, <1>15 DEF SenderKept

-----------------------------------------------------------------------------
(* Messages on their way.                                                  *)

LEMMA MessageFacts ==
  /\ \A type \in {"pause", "resume", "cancel", "accept", "reject", "complete"}, t \in Transfer :
       /\ Message(type, t) \in Messages /\ Message(type, t).type = type /\ Message(type, t).t = t
       /\ \A n \in Nat : LET m == [Message(type, t) EXCEPT !.at = n] IN m \in Messages /\ m.type = type /\ m.t = t
  /\ Message("cancel-all", None) \in Messages /\ Message("cancel-all", None).type = "cancel-all"
  /\ \A type \in {"offer", "chunk"}, k \in Attempt, n \in Nat :
       LET m == KeyMessage(type, k, n) IN
       m \in Messages /\ m.type = type /\ m.t = k[1] /\ m.n = k[2] /\ k = <<m.t, m.n>>
<1> USE RegistryAssumption
<1>1. 0 \in 0..MaxAttempts /\ 0 \in Nat
  OBVIOUS
<1>2. \A k \in Attempt : k[1] \in Transfer /\ k[2] \in 0..MaxAttempts /\ k = <<k[1], k[2]>>
  BY AttemptFacts
<1> QED BY <1>1, <1>2 DEF Message, KeyMessage, Messages

\* What the sending side must leave alone for the messages and receivers to fit.
LinkKept == UNCHANGED <<sessions, session, open, tries, rcv, byKey, byId, saved>>

\* A message put behind the others leaves their receivers where they were.
LEMMA AppendRouted ==
  ASSUME Typed, RouteInv, OrderInv, NEW m \in Messages, Routed(Len(toReceiver) + 1, m), m.type # "offer",
         toReceiver' = toReceiver \/ toReceiver' = Append(toReceiver, m),
         UNCHANGED <<sessions, open, tries, byKey, byId>>,
         \A k \in Attempt : snd'[k].session = snd[k].session
  PROVE  toReceiver' \in Seq(Messages) /\ RouteInv' /\ OrderInv'
<1> PICK L \in Nat : L = Len(toReceiver)
  BY DEF Typed
<1>0. toReceiver \in Seq(Messages)
  BY DEF Typed
<1>1. PICK M \in {L, L + 1} :
        /\ toReceiver' \in Seq(Messages) /\ M = Len(toReceiver')
        /\ DOMAIN toReceiver = 1..L /\ DOMAIN toReceiver' = 1..M
        /\ \A i \in 1..L : toReceiver'[i] = toReceiver[i]
        /\ M = L + 1 => toReceiver'[L + 1] = m
  <2>1. CASE toReceiver' = toReceiver
    BY <1>0, <2>1
  <2>2. CASE toReceiver' = Append(toReceiver, m)
    BY <1>0, <2>2
  <2> QED BY <2>1, <2>2
<1>4. ASSUME NEW i \in 1..(L + 1), NEW k, OfferedBefore(i, k) PROVE OfferedBefore(i, k)'
  <2>1. \A j \in 1..(i - 1) : j \in 1..L
    OBVIOUS
  <2> QED BY <1>1, <1>4, <2>1 DEF OfferedBefore
<1>5. ASSUME NEW i \in 1..(L + 1), NEW t, TransferBefore(i, t) PROVE TransferBefore(i, t)'
  <2>1. \A j \in 1..(i - 1) : j \in 1..L
    OBVIOUS
  <2> QED BY <1>1, <1>5, <2>1 DEF TransferBefore
<1>6. ASSUME NEW i \in 1..(L + 1), NEW n, Routed(i, n) PROVE Routed(i, n)'
  BY <1>4, <1>5, <1>6 DEF Routed
<1>7. ASSUME NEW i \in DOMAIN toReceiver' PROVE Routed(i, toReceiver[i])'
  <2>1. CASE i \in 1..L
    <3>1. Routed(i, toReceiver[i])
      BY <1>1, <2>1 DEF RouteInv
    <3>2. PICK n : n = toReceiver[i]
      OBVIOUS
    <3>3. Routed(i, n)'
      BY <1>6, <2>1, <3>1, <3>2
    <3>4. n = toReceiver'[i]
      BY <1>1, <2>1, <3>2
    <3> QED BY <3>3, <3>4
  <2>2. CASE i = L + 1
    <3>1. Routed(i, m)'
      BY <1>6, <2>2
    <3>2. M = L + 1
      BY <1>1, <2>2
    <3>3. toReceiver'[i] = m
      BY <1>1, <2>2, <3>2
    <3> QED BY <3>1, <3>3 DEF Routed, OfferedBefore, TransferBefore
  <2> QED BY <1>1, <2>1, <2>2
<1>8. ASSUME NEW k \in Attempt, Linked', snd'[k].session = sessions' PROVE OfferedBefore(Len(toReceiver) + 1, k)'
  <2>1. Linked /\ snd[k].session = sessions
    BY <1>8 DEF Linked
  <2>2. OfferedBefore(L + 1, k)
    BY <2>1 DEF RouteInv
  <2>3. OfferedBefore(L + 1, k)'
    BY <1>4, <2>2
  <2>4. \A j \in 1..(L + 1 - 1) : j \in 1..(M + 1 - 1)
    BY <1>1
  <2>5. OfferedBefore(M + 1, k)'
    BY <2>3, <2>4 DEF OfferedBefore
  <2> QED BY <2>5, <1>1
<1>9. OrderInv'
  <2> SUFFICES ASSUME NEW i \in DOMAIN toReceiver', toReceiver'[i].type = "offer"
               PROVE  /\ \A k \in Attempt : k[1] = toReceiver'[i].t /\ byKey[k] # None => k[2] < toReceiver'[i].n
                      /\ \A j \in 1..(i - 1) : toReceiver'[j].type = "offer" /\ toReceiver'[j].t = toReceiver'[i].t =>
                           toReceiver'[j].n < toReceiver'[i].n
    BY DEF OrderInv
  <2>1. i \in 1..L
    BY <1>1
  <2>2. toReceiver'[i] = toReceiver[i] /\ \A j \in 1..(i - 1) : j \in 1..L /\ toReceiver'[j] = toReceiver[j]
    BY <2>1, <1>1
  <2> QED BY <1>1, <2>1, <2>2 DEF OrderInv
<1> QED BY <1>7, <1>8, <1>9, <1>1 DEF RouteInv

LEMMA TailFacts ==
  ASSUME NEW S, NEW s \in Seq(S), s # <<>>
  PROVE  /\ Head(s) = s[1] /\ Head(s) \in S /\ Tail(s) \in Seq(S) /\ 1 \in DOMAIN s
         /\ Len(Tail(s)) = Len(s) - 1
         /\ \A i \in DOMAIN Tail(s) : i + 1 \in DOMAIN s /\ Tail(s)[i] = s[i + 1]
<1>1. Len(s) \in Nat /\ Len(s) # 0 /\ DOMAIN s = 1..Len(s)
  OBVIOUS
<1>2. Tail(s) \in Seq(S) /\ Len(Tail(s)) = Len(s) - 1 /\ DOMAIN Tail(s) = 1..(Len(s) - 1)
  OBVIOUS
<1>3. \A i \in 1..(Len(s) - 1) : i + 1 \in 1..Len(s) /\ Tail(s)[i] = s[i + 1]
  BY <1>1
<1>4. 1 \in DOMAIN s /\ Head(s) = s[1] /\ s[1] \in S
  BY <1>1
<1> QED BY <1>1, <1>2, <1>3, <1>4

\* A step of the sending side, which may take a reply.
LEMMA SenderMoveKeeps ==
  ASSUME IInv, SenderKept, UNCHANGED <<link, tries, receiving>>,
         toReceiver' \in Seq(Messages), RouteInv', OrderInv',
         toSender' = toSender \/ (toSender # <<>> /\ toSender' = Tail(toSender))
  PROVE  IInv'
<1> USE DEF IInv
<1>1. /\ UNCHANGED <<sessions, session, open, tries>>
      /\ UNCHANGED <<rcv, byKey, byId, onScreen, rEntry, saved>>
  BY DEF link, receiving
<1>2. \A k \in Attempt : snd'[k].session = snd[k].session
  BY DEF SenderKept
<1>3. \A t \in Transfer : tries[t] > 0 => Newest(t) \in Attempt /\ Newest(t)' = Newest(t)
  BY <1>1, NewestFacts DEF Newest
<1>4. toSender \in Seq(Messages)
  BY DEF Typed
<1>5. toSender' \in Seq(Messages) /\ \A i \in DOMAIN toSender' : \E j \in DOMAIN toSender : toSender'[i] = toSender[j]
  <2>1. CASE toSender' = toSender
    BY <1>4, <2>1
  <2>2. CASE toSender # <<>> /\ toSender' = Tail(toSender)
    BY <1>4, <2>2, TailFacts
  <2> QED BY <2>1, <2>2
<1>6. Typed'
  <2>1. ReceiverTyped'
    BY <1>1 DEF Typed, ReceiverTyped
  <2> QED BY <1>1, <1>5, <2>1 DEF Typed, SenderKept
<1>7. LinkInv'
  BY <1>1 DEF LinkInv
<1>8. ReplyInv'
  <2>1. ASSUME NEW m, Valid(m) PROVE Valid(m)'
    BY <1>1, <1>2, <1>3, <2>1 DEF Valid
  <2> SUFFICES ASSUME NEW i \in DOMAIN toSender' PROVE Valid(toSender[i])'
    BY DEF ReplyInv
  <2>2. PICK m : m = toSender'[i] /\ Valid(m)
    BY <1>5 DEF ReplyInv
  <2>3. Valid(m)'
    BY <2>1, <2>2
  <2> QED BY <2>2, <2>3 DEF Valid
<1>9. ReceiverInv'
  <2>1. \A o \in Attempt : rcv'[o].session # 0 =>
          /\ o[2] <= tries'[o[1]]
          /\ rcv'[o].session <= snd'[Newest(o[1])'].session /\ rcv'[o].session <= sessions'
    <3> SUFFICES ASSUME NEW o \in Attempt, rcv[o].session # 0
                 PROVE  /\ o[2] <= tries[o[1]]
                        /\ rcv[o].session <= snd'[Newest(o[1])'].session /\ rcv[o].session <= sessions
      BY <1>1
    <3>1. o[1] \in Transfer /\ tries[o[1]] > 0
      BY AttemptFacts, NewestFacts DEF ReceiverInv
    <3> QED BY <1>2, <1>3, <3>1 DEF ReceiverInv
  <2> QED BY <2>1, <1>1 DEF ReceiverInv
<1>10. LatestInv'
  <2> SUFFICES ASSUME NEW k \in Attempt, k[2] <= tries[k[1]] PROVE snd'[k].session <= snd'[Newest(k[1])'].session
    BY <1>1 DEF LatestInv
  <2>1. k[1] \in Transfer /\ tries[k[1]] > 0
    BY AttemptFacts, NewestFacts
  <2> QED BY <1>2, <1>3, <2>1 DEF LatestInv
<1> QED BY <1>6, <1>7, <1>8, <1>9, <1>10 DEF SenderKept

\* A step of the sending side that tells the receiver nothing.
LEMMA QuietRoute ==
  ASSUME Typed, RouteInv, OrderInv, UNCHANGED <<sessions, open, tries, byKey, byId, toReceiver>>,
         \A k \in Attempt : snd'[k].session = snd[k].session
  PROVE  toReceiver' \in Seq(Messages) /\ RouteInv' /\ OrderInv'
<1>1. ASSUME NEW i, NEW m, Routed(i, m) PROVE Routed(i, m)'
  BY <1>1 DEF Routed, OfferedBefore, TransferBefore
<1>2. ASSUME NEW i \in DOMAIN toReceiver PROVE Routed(i, toReceiver[i])'
  <2>1. PICK m : m = toReceiver[i] /\ Routed(i, m)
    BY DEF RouteInv
  <2>2. Routed(i, m)'
    BY <1>1, <2>1
  <2> QED BY <2>1, <2>2 DEF Routed, OfferedBefore, TransferBefore
<1>3. ASSUME NEW k \in Attempt, Linked', snd'[k].session = sessions' PROVE OfferedBefore(Len(toReceiver) + 1, k)'
  BY <1>3 DEF RouteInv, Linked, OfferedBefore
<1>4. OrderInv'
  BY DEF OrderInv
<1> QED BY <1>2, <1>3, <1>4 DEF RouteInv, Typed

\* What the sending side says to the receiver finds its receiver.
LEMMA TellKeeps ==
  ASSUME Typed, RouteInv, OrderInv, NEW m \in Messages, m.type # "offer", Linked => Routed(Len(toReceiver) + 1, m),
         TellReceiver(m), UNCHANGED <<sessions, open, tries, byKey, byId>>,
         \A k \in Attempt : snd'[k].session = snd[k].session
  PROVE  toReceiver' \in Seq(Messages) /\ RouteInv' /\ OrderInv'
<1>1. CASE Linked
  <2>1. Routed(Len(toReceiver) + 1, m) /\ toReceiver' = Append(toReceiver, m)
    BY <1>1 DEF TellReceiver
  <2> QED BY <2>1, AppendRouted
<1>2. CASE ~Linked
  <2>1. toReceiver' = toReceiver
    BY <1>2 DEF TellReceiver
  <2> QED BY <2>1, QuietRoute
<1> QED BY <1>1, <1>2

LEMMA SteerRouted ==
  ASSUME IInv, NEW t \in Transfer, Newest(t) \in Senders, Linked,
         NEW type \in {"pause", "resume", "cancel"}
  PROVE  Routed(Len(toReceiver) + 1, Message(type, t))
<1> USE DEF IInv
<1>1. /\ Newest(t) \in Attempt /\ Newest(t)[1] = t /\ tries[t] > 0 /\ snd[Newest(t)].session = session["sender"]
  BY SendersFacts, NewestFacts
<1>2. snd[Newest(t)].session = sessions
  BY <1>1 DEF LinkInv, Linked, Side
<1>3. OfferedBefore(Len(toReceiver) + 1, Newest(t))
  BY <1>1, <1>2 DEF RouteInv
<1>4. TransferBefore(Len(toReceiver) + 1, t)
  <2>1. CASE byKey[Newest(t)] # None
    BY <1>1, <2>1 DEF ReceiverInv, TransferBefore
  <2>2. CASE byKey[Newest(t)] = None
    <3>1. PICK j \in 1..(Len(toReceiver) + 1 - 1) :
            toReceiver[j].type = "offer" /\ <<toReceiver[j].t, toReceiver[j].n>> = Newest(t)
      BY <1>3, <2>2 DEF OfferedBefore
    <3>2. toReceiver[j].t = t
      BY <3>1 DEF Newest
    <3> QED BY <3>1, <3>2 DEF TransferBefore
  <2> QED BY <2>1, <2>2
<1>5. Message(type, t).type = type /\ Message(type, t).t = t
  BY MessageFacts
<1> QED BY <1>4, <1>5 DEF Routed

LEMMA AllRouted == \A i : Routed(i, Message("cancel-all", None))
BY DEF Routed, Message

-----------------------------------------------------------------------------
(* The sending user.                                                       *)

LEMMA SideOf == ASSUME IInv PROVE SenderSide
BY DEF IInv, SenderSide

LEMMA PausesKeeps ==
  ASSUME IInv, NEW t \in Transfer, SenderPauses(t), UNCHANGED <<link, toSender, receiving>>
  PROVE  IInv'
<1> USE DEF IInv
<1> PICK k : k = Newest(t)
  OBVIOUS
<1>1. /\ k \in Attempt /\ k[1] = t /\ tries[t] > 0 /\ k = Newest(k[1])
      /\ snd[k].session = session["sender"] /\ session["sender"] # 0 /\ Tried(k)
  BY SendersFacts, NewestFacts, NewestTried DEF SenderPauses
<1>2. snd[k] \in SenderState
  BY <1>1 DEF Typed
<1>3. UNCHANGED <<tries, sessions, session, open, saved, byKey, byId>>
  BY DEF SenderPauses, link, receiving
<1>4. PICK type \in {"pause", "resume"}, s \in SenderState :
        /\ s.session = snd[k].session /\ s.stray = snd[k].stray /\ s.status \in {"paused", "transferring"}
        /\ SetSender(k, s) /\ TellReceiver(Message(type, t))
  <2>1. CASE /\ snd[k].status = "transferring"
             /\ SetSender(k, [snd[k] EXCEPT !.paused = TRUE, !.status = "paused"])
             /\ TellReceiver(Message("pause", t))
    <3> DEFINE s == [snd[k] EXCEPT !.paused = TRUE, !.status = "paused"]
    <3>1. s \in SenderState /\ s.session = snd[k].session /\ s.stray = snd[k].stray /\ s.status = "paused"
      BY <1>2, EntryFacts DEF SenderState
    <3> QED BY <2>1, <3>1
  <2>2. CASE /\ snd[k].status = "paused"
             /\ SetSender(k, [snd[k] EXCEPT !.paused = FALSE, !.status = "transferring"])
             /\ TellReceiver(Message("resume", t))
    <3> DEFINE s == [snd[k] EXCEPT !.paused = FALSE, !.status = "transferring"]
    <3>1. s \in SenderState /\ s.session = snd[k].session /\ s.stray = snd[k].stray /\ s.status = "transferring"
      BY <1>2, EntryFacts DEF SenderState
    <3> QED BY <2>2, <3>1
  <2> QED BY <2>1, <2>2 DEF SenderPauses
<1>5. SenderKept
  BY <1>1, <1>3, <1>4, SideOf, SetKeeps
<1>6. toReceiver' \in Seq(Messages) /\ RouteInv' /\ OrderInv'
  <2>1. Linked => Routed(Len(toReceiver) + 1, Message(type, t))
    BY SteerRouted DEF SenderPauses
  <2>2. Message(type, t) \in Messages /\ Message(type, t).type # "offer"
    BY MessageFacts
  <2>3. \A j \in Attempt : snd'[j].session = snd[j].session
    BY <1>5 DEF SenderKept
  <2> QED BY <1>3, <1>4, <2>1, <2>2, <2>3, TellKeeps
<1> QED BY <1>3, <1>5, <1>6, SenderMoveKeeps DEF SenderPauses

LEMMA CancelsKeeps ==
  ASSUME IInv, NEW t \in Transfer, SenderCancels(t), UNCHANGED <<link, toSender, receiving>>
  PROVE  IInv'
<1> USE DEF IInv
<1>1. UNCHANGED <<tries, sessions, session, open, saved, byKey, byId>> /\ sEntry[t] \in Active
  BY DEF SenderCancels, link, receiving
<1>2. tries[t] > 0 /\ Newest(t) \in Attempt /\ Newest(t)[1] = t
  BY <1>1, NewestFacts, EntryFacts DEF ReportInv
<1>3. CASE Newest(t) \in Senders
  <2> PICK k : k = Newest(t)
    OBVIOUS
  <2>1. StopSenders({k}, "cancelled", {}) /\ (toReceiver' = toReceiver \/ TellReceiver(Message("cancel", t)))
    BY <1>3 DEF SenderCancels
  <2>2. SenderKept
    <3> DEFINE K == {k}
    <3>1. K \in SUBSET Attempt /\ \A j \in K : j = Newest(j[1]) /\ tries[j[1]] > 0
      BY <1>2
    <3>2. StopSenders(K, "cancelled", {})
      BY <2>1
    <3> HIDE DEF K
    <3> QED BY <1>1, <3>1, <3>2, SideOf, StopKeeps
  <2>3. \A j \in Attempt : snd'[j].session = snd[j].session
    BY <2>2 DEF SenderKept
  <2>4. toReceiver' \in Seq(Messages) /\ RouteInv' /\ OrderInv'
    <3>1. CASE toReceiver' = toReceiver
      BY <3>1, <1>1, <2>3, QuietRoute
    <3>2. CASE TellReceiver(Message("cancel", t))
      <4>1. Linked => Routed(Len(toReceiver) + 1, Message("cancel", t))
        BY <1>3, SteerRouted
      <4>2. Message("cancel", t) \in Messages /\ Message("cancel", t).type # "offer"
        BY MessageFacts
      <4> QED BY <3>2, <1>1, <2>3, <4>1, <4>2, TellKeeps
    <3> QED BY <2>1, <3>1, <3>2
  <2> QED BY <1>1, <2>2, <2>4, SenderMoveKeeps
<1>4. CASE Newest(t) \notin Senders
  <2>1. SendStatus({t}, "cancelled") /\ snd' = snd /\ toReceiver' = toReceiver
    BY <1>4 DEF SenderCancels
  <2>2. StopSenders({}, "cancelled", {t})
    <3>1. {k[1] : k \in {k \in {} : snd[k].status \notin Settled}} \cup {t} = {t}
      OBVIOUS
    <3>2. snd = [k \in Attempt |-> snd[k]]
      BY DEF Typed
    <3> QED BY <2>1, <3>1, <3>2 DEF StopSenders
  <2>3. SenderKept
    <3> DEFINE K == {}
               X == {t}
    <3>1. /\ K \in SUBSET Attempt /\ \A j \in K : j = Newest(j[1]) /\ tries[j[1]] > 0
          /\ X \in SUBSET Transfer /\ \A u \in X : sEntry[u] \in Active /\ (Newest(u) \in Senders => Newest(u) \in K)
      BY <1>1, <1>4
    <3>2. StopSenders(K, "cancelled", X)
      BY <2>2
    <3> HIDE DEF K, X
    <3> QED BY <1>1, <3>1, <3>2, SideOf, StopKeeps
  <2>4. \A j \in Attempt : snd'[j].session = snd[j].session
    BY <2>1
  <2>5. toReceiver' \in Seq(Messages) /\ RouteInv' /\ OrderInv'
    BY <1>1, <2>1, <2>4, QuietRoute
  <2> QED BY <1>1, <2>3, <2>5, SenderMoveKeeps
<1> QED BY <1>3, <1>4

LEMMA CancelsAllKeeps ==
  ASSUME IInv, SenderCancelsAll, UNCHANGED <<link, toSender, receiving>>
  PROVE  IInv'
<1> USE DEF IInv
<1>1. /\ UNCHANGED <<tries, sessions, session, open, saved, byKey, byId>>
      /\ TellReceiver(Message("cancel-all", None)) /\ StopSenders(Senders, "cancelled", Cancellable(sEntry))
  BY DEF SenderCancelsAll, link, receiving
<1>2. SenderKept
  <2>1. Senders \in SUBSET Attempt /\ \A k \in Senders : k = Newest(k[1]) /\ tries[k[1]] > 0
    BY SendersFacts
  <2>2. Cancellable(sEntry) \in SUBSET Transfer /\ \A u \in Cancellable(sEntry) : sEntry[u] \in Active
    BY DEF Cancellable
  <2> QED BY <1>1, <2>1, <2>2, SideOf, StopKeeps
<1>3. toReceiver' \in Seq(Messages) /\ RouteInv' /\ OrderInv'
  <2>1. \A j \in Attempt : snd'[j].session = snd[j].session
    BY <1>2 DEF SenderKept
  <2> QED BY <1>1, <2>1, AllRouted, MessageFacts, TellKeeps
<1> QED BY <1>1, <1>2, <1>3, SenderMoveKeeps

\* sendFile() and retryTransfer(): the offer is made when the attempt before it
\* has its record.
LEMMA OfferKeeps ==
  ASSUME IInv, NEW t \in Transfer, Offer(t), UNCHANGED <<link, toSender, receiving, reports>>,
         tries[t] > 0 => reports[Newest(t)] # <<>>,
         reported' = reported \ {t}
  PROVE  IInv'
<1> USE DEF IInv
<1>1. /\ UNCHANGED <<sessions, session, open, toSender, reports>>
      /\ UNCHANGED <<rcv, byKey, byId, onScreen, rEntry, saved>>
  BY DEF link, receiving
<1>0. PICK n \in Nat : n = tries[t] + 1
  BY NewestFacts
<1>2. PICK k : k = <<t, n>> /\ n = tries[t] + 1
  BY <1>0
<1>3. PICK N \in Nat : N = session["sender"] /\ N = sessions /\ N > 0
  BY DEF Offer, LinkInv, Side, Typed
<1>4. /\ n \in 1..MaxAttempts /\ tries' = [tries EXCEPT ![t] = n] /\ snd' = [snd EXCEPT ![k] = NewSender(N)]
      /\ TellReceiver(KeyMessage("offer", k, 0)) /\ sEntry' = [sEntry EXCEPT ![t] = "pending"]
  BY <1>2, <1>3, NewestFacts, RegistryAssumption DEF Offer, OfferedStatus
<1>5. k \in Attempt /\ k[1] = t /\ k[2] = n
  BY <1>2, <1>4, AttemptFacts
<1>6. \A u \in Transfer : tries'[u] = IF u = t THEN n ELSE tries[u]
  BY <1>4 DEF Typed
<1>7. \A u \in Transfer : sEntry'[u] = IF u = t THEN "pending" ELSE sEntry[u]
  BY <1>4 DEF Typed, ListTyped
<1>8. NewSender(N) \in SenderState /\ \A j \in Attempt : snd'[j] = IF j = k THEN NewSender(N) ELSE snd[j]
  BY <1>4, <1>5, NewSenderTyped DEF Typed
<1>9. /\ NewSender(N).session = N /\ NewSender(N).status = "pending" /\ ~NewSender(N).stray
      /\ snd'[k].session = N
  BY <1>5, <1>8 DEF NewSender
<1>10. \A u \in Transfer : Newest(u)' = IF u = t THEN k ELSE Newest(u)
  BY <1>2, <1>6 DEF Newest
<1>11. \A u \in Transfer : tries[u] \in Nat /\ tries[u] <= MaxAttempts /\ (tries[u] > 0 => Newest(u) \in Attempt) /\ Newest(u)[1] = u /\ Newest(u)[2] = tries[u]
  BY NewestFacts
<1>12. tries[t] = n - 1 /\ \A j \in Attempt : j[1] = t /\ j[2] = n => j = k
  BY <1>2, <1>11, AttemptFacts
<1>13. \A j \in Attempt : j[2] <= tries[j[1]] => j # k
  BY <1>5, <1>12
<1>14. \A j \in Attempt : j[2] <= tries[j[1]] => j[2] <= tries'[j[1]]
  BY <1>6, <1>12, AttemptFacts
<1>20. Typed'
  <2>1. tries' \in [Transfer -> 0..MaxAttempts]
    BY <1>4 DEF Typed
  <2>2. snd' \in [Attempt -> SenderState]
    BY <1>4, <1>8 DEF Typed
  <2>3. ListTyped'
    <3>1. sEntry' \in [Transfer -> Entry]
      BY <1>4, EntryFacts DEF Typed, ListTyped, Entry
    <3> QED BY <3>1, <1>1 DEF Typed, ListTyped
  <2>4. ReceiverTyped'
    BY <1>1 DEF Typed, ReceiverTyped
  <2>5. toReceiver' \in Seq(Messages)
    <3>1. KeyMessage("offer", k, 0) \in Messages
      BY <1>5, MessageFacts
    <3> QED BY <3>1, <1>4 DEF TellReceiver, Typed
  <2> QED BY <1>1, <2>1, <2>2, <2>3, <2>4, <2>5 DEF Typed
<1>21. LinkInv'
  BY <1>1 DEF LinkInv
<1>22. ObjectInv'
  <2> SUFFICES ASSUME NEW j \in Attempt
               PROVE  /\ IF j[2] <= tries'[j[1]] THEN snd'[j].session \in 1..sessions'
                         ELSE /\ snd'[j].session = 0 /\ snd'[j].queued = 0 /\ snd'[j].run = "idle"
                              /\ ~snd'[j].stray /\ snd'[j].status = "pending"
                      /\ snd'[j].status = "failed" => snd'[j].cancelled
    BY DEF ObjectInv
  <2>1. CASE j = k
    BY <2>1, <1>1, <1>3, <1>5, <1>6, <1>8, <1>9
  <2>2. CASE j # k
    <3>1. j[2] <= tries'[j[1]] <=> j[2] <= tries[j[1]]
      BY <2>2, <1>6, <1>12, AttemptFacts
    <3> QED BY <3>1, <2>2, <1>1, <1>8 DEF ObjectInv
  <2> QED BY <2>1, <2>2
<1>23. ReportInv'
  <2>1. reports[k] = <<>>
    BY <1>5, <1>12 DEF ReportInv
  <2>2. \A u \in Transfer :
          IF tries'[u] = 0 THEN sEntry'[u] = "none" /\ u \notin reported'
          ELSE /\ sEntry'[u] # "none"
               /\ sEntry'[u] \in Over => u \in reported'
               /\ u \in reported' <=> reports'[Newest(u)'] # <<>>
    <3> SUFFICES ASSUME NEW u \in Transfer
                 PROVE  IF tries'[u] = 0 THEN sEntry'[u] = "none" /\ u \notin reported'
                        ELSE /\ sEntry'[u] # "none"
                             /\ sEntry'[u] \in Over => u \in reported'
                             /\ u \in reported' <=> reports'[Newest(u)'] # <<>>
      OBVIOUS
    <3>1. CASE u = t
      BY <3>1, <2>1, <1>1, <1>4, <1>6, <1>7, <1>10, EntryFacts
    <3>2. CASE u # t
      <4>1. u \in reported' <=> u \in reported
        BY <3>2
      <4> QED BY <3>2, <4>1, <1>1, <1>6, <1>7, <1>10 DEF ReportInv
    <3> QED BY <3>1, <3>2
  <2>3. \A j \in Attempt :
          /\ Len(reports'[j]) <= 1
          /\ j[2] > tries'[j[1]] => reports'[j] = <<>>
          /\ j[2] < tries'[j[1]] => reports'[j] # <<>>
    <3> SUFFICES ASSUME NEW j \in Attempt
                 PROVE  /\ Len(reports[j]) <= 1
                        /\ j[2] > tries'[j[1]] => reports[j] = <<>>
                        /\ j[2] < tries'[j[1]] => reports[j] # <<>>
      BY <1>1
    <3>1. CASE j[1] = t /\ j[2] = n - 1
      <4>1. j = Newest(t)
        BY <3>1, <1>12, AttemptFacts DEF Newest
      <4>2. tries[t] > 0 /\ reports[j] # <<>>
        BY <3>1, <4>1, <1>12, AttemptFacts
      <4> QED BY <3>1, <4>2, <1>6, <1>4 DEF ReportInv
    <3>2. CASE ~(j[1] = t /\ j[2] = n - 1)
      <4>1. j[2] \in Nat /\ j[1] \in Transfer
        BY AttemptFacts
      <4> QED BY <3>2, <4>1, <1>6, <1>12 DEF ReportInv
    <3> QED BY <3>1, <3>2
  <2> QED BY <2>2, <2>3 DEF ReportInv
<1>24. ShownInv'
  <2> SUFFICES ASSUME NEW u \in Transfer, tries'[u] > 0, ~Strayed(u)'
               PROVE  /\ \/ sEntry'[u] = snd'[Newest(u)'].status
                         \/ sEntry'[u] = "failed" /\ \E m \in 1..(tries'[u] - 1) : snd'[<<u, m>>].status = "failed"
                      /\ sEntry'[u] \in Active => session["sender"] # 0 /\ snd'[Newest(u)'].session = session["sender"]
    BY <1>1 DEF ShownInv
  <2>1. CASE u = t
    BY <2>1, <1>3, <1>5, <1>7, <1>8, <1>9, <1>10
  <2>2. CASE u # t
    <3>1. \A m \in 1..MaxAttempts : snd'[<<u, m>>] = snd[<<u, m>>]
      BY <2>2, <1>5, <1>8, AttemptFacts
    <3>2. ~Strayed(u)
      BY <3>1 DEF Strayed
    <3>3. \A m \in 1..(tries[u] - 1) : m \in 1..MaxAttempts
      BY <1>11, RegistryAssumption
    <3>4. tries[u] > 0 /\ snd'[Newest(u)] = snd[Newest(u)]
      BY <2>2, <1>5, <1>6, <1>8, <1>11
    <3> QED BY <2>2, <3>1, <3>2, <3>3, <3>4, <1>6, <1>7, <1>10 DEF ShownInv
  <2> QED BY <2>1, <2>2
<1>25. ReplyInv'
  <2>1. ASSUME NEW m, Valid(m) PROVE Valid(m)'
    <3>1. CASE m.type = "cancel-all"
      BY <3>1 DEF Valid
    <3>2. CASE m.type # "cancel-all" /\ m.t = t
      BY <2>1, <3>2, <1>1, <1>3, <1>4, <1>6, <1>9, <1>10 DEF Valid
    <3>3. CASE m.type # "cancel-all" /\ m.t # t
      <4>1. m.t \in Transfer /\ tries[m.t] > 0 /\ Newest(m.t) # k
        BY <2>1, <3>3, <1>5, <1>11 DEF Valid
      <4> QED BY <2>1, <3>3, <4>1, <1>1, <1>6, <1>8, <1>10, <1>11 DEF Valid
    <3> QED BY <3>1, <3>2, <3>3
  <2> SUFFICES ASSUME NEW i \in DOMAIN toSender PROVE Valid(toSender[i])'
    BY <1>1 DEF ReplyInv
  <2>2. PICK m : m = toSender[i] /\ Valid(m)
    BY DEF ReplyInv
  <2>3. Valid(m)'
    BY <2>1, <2>2
  <2>4. m = toSender'[i]
    BY <2>2, <1>1
  <2> QED BY <2>3, <2>4 DEF Valid
<1>26. SavedInv'
  BY <1>1 DEF SavedInv
<1>27. RouteInv' /\ OrderInv'
  <2> PICK L \in Nat : L = Len(toReceiver)
    BY DEF Typed
  <2> PICK o \in Messages : o = KeyMessage("offer", k, 0)
    BY <1>5, MessageFacts
  <2>1. o.type = "offer" /\ o.t = t /\ o.n = n /\ <<o.t, o.n>> = k
    BY <1>5, MessageFacts
  <2>2. toReceiver \in Seq(Messages) /\ (toReceiver' = toReceiver \/ toReceiver' = Append(toReceiver, o)) /\ (Linked => toReceiver' = Append(toReceiver, o))
    BY <1>4 DEF TellReceiver, Typed
  <2>3. PICK M \in {L, L + 1} :
          /\ M = Len(toReceiver')
          /\ DOMAIN toReceiver = 1..L /\ DOMAIN toReceiver' = 1..M
          /\ \A i \in 1..L : toReceiver'[i] = toReceiver[i]
          /\ M = L + 1 => toReceiver'[L + 1] = o
          /\ Linked => M = L + 1
    <3>1. CASE toReceiver' = toReceiver /\ ~Linked
      BY <2>2, <3>1
    <3>2. CASE toReceiver' = Append(toReceiver, o)
      BY <2>2, <3>2
    <3> QED BY <2>2, <3>1, <3>2
  <2>4. ASSUME NEW i \in 1..(L + 1), NEW j, OfferedBefore(i, j) PROVE OfferedBefore(i, j)'
    <3>1. \A l \in 1..(i - 1) : l \in 1..L
      OBVIOUS
    <3> QED BY <1>1, <2>3, <2>4, <3>1 DEF OfferedBefore
  <2>5. ASSUME NEW i \in 1..(L + 1), NEW u, TransferBefore(i, u) PROVE TransferBefore(i, u)'
    <3>1. \A l \in 1..(i - 1) : l \in 1..L
      OBVIOUS
    <3> QED BY <1>1, <2>3, <2>5, <3>1 DEF TransferBefore
  <2>6. ASSUME NEW i \in 1..(L + 1), NEW m, Routed(i, m) PROVE Routed(i, m)'
    <3>1. CASE m.type \in {"cancel-all", "pause", "resume", "cancel"}
      BY <2>5, <2>6, <3>1 DEF Routed
    <3>2. CASE /\ m.type \in {"offer", "chunk"} /\ <<m.t, m.n>> \in Attempt /\ m.n <= tries[m.t]
               /\ snd[<<m.t, m.n>>].session = sessions
               /\ m.type = "chunk" => OfferedBefore(i, <<m.t, m.n>>)
      <4>1. PICK j \in Attempt : j = <<m.t, m.n>> /\ j[1] = m.t /\ j[2] = m.n
        BY <3>2
      <4>2. j # k /\ j[2] <= tries'[j[1]] /\ snd'[j].session = sessions'
        BY <3>2, <4>1, <1>1, <1>8, <1>13, <1>14
      <4>3. m.type = "chunk" => OfferedBefore(i, j)'
        BY <3>2, <4>1, <2>4
      <4> QED BY <3>2, <4>1, <4>2, <4>3 DEF Routed
    <3> QED BY <2>6, <3>1, <3>2 DEF Routed
  <2>7. ASSUME NEW i \in DOMAIN toReceiver' PROVE Routed(i, toReceiver[i])'
    <3>1. CASE i \in 1..L
      <4>1. PICK m : m = toReceiver[i] /\ Routed(i, m)
        BY <2>3, <3>1 DEF RouteInv
      <4>2. Routed(i, m)' /\ m = toReceiver'[i]
        BY <2>3, <2>6, <3>1, <4>1
      <4> QED BY <4>2 DEF Routed, OfferedBefore, TransferBefore
    <3>2. CASE i = L + 1
      <4>1. toReceiver'[i] = o
        BY <2>3, <3>2
      <4>2. n <= tries'[t] /\ snd'[k].session = sessions'
        BY <1>1, <1>3, <1>6, <1>9
      <4> QED BY <4>1, <4>2, <2>1, <1>5 DEF Routed
    <3> QED BY <2>3, <3>1, <3>2
  <2>8. ASSUME NEW j \in Attempt, Linked', snd'[j].session = sessions' PROVE OfferedBefore(Len(toReceiver) + 1, j)'
    <3>1. Linked /\ M = L + 1
      BY <2>3, <2>8, <1>1 DEF Linked
    <3>2. OfferedBefore(M + 1, j)'
      <4>1. CASE j = k
        <5>1. toReceiver'[L + 1].type = "offer" /\ <<toReceiver'[L + 1].t, toReceiver'[L + 1].n>> = j
          BY <2>1, <2>3, <3>1, <4>1
        <5>2. L + 1 \in 1..(M + 1 - 1)
          BY <3>1
        <5> QED BY <5>1, <5>2 DEF OfferedBefore
      <4>2. CASE j # k
        <5>1. snd[j].session = sessions
          BY <2>8, <4>2, <1>1, <1>8
        <5>2. OfferedBefore(L + 1, j)
          BY <3>1, <5>1 DEF RouteInv
        <5>3. OfferedBefore(L + 1, j)'
          BY <2>4, <5>2
        <5>4. \A l \in 1..(L + 1 - 1) : l \in 1..(M + 1 - 1)
          BY <3>1
        <5> QED BY <5>3, <5>4 DEF OfferedBefore
      <4> QED BY <4>1, <4>2
    <3> QED BY <3>2, <2>3
  <2>9. OrderInv'
    <3> SUFFICES ASSUME NEW i \in DOMAIN toReceiver', toReceiver'[i].type = "offer"
                 PROVE  /\ \A j \in Attempt : j[1] = toReceiver'[i].t /\ byKey[j] # None => j[2] < toReceiver'[i].n
                        /\ \A j \in 1..(i - 1) : toReceiver'[j].type = "offer" /\ toReceiver'[j].t = toReceiver'[i].t =>
                             toReceiver'[j].n < toReceiver'[i].n
      BY <1>1 DEF OrderInv
    <3>1. CASE i \in 1..L
      <4>1. toReceiver'[i] = toReceiver[i] /\ \A j \in 1..(i - 1) : j \in 1..L /\ toReceiver'[j] = toReceiver[j]
        BY <2>3, <3>1
      <4> QED BY <2>3, <3>1, <4>1 DEF OrderInv
    <3>2. CASE i = L + 1
      <4>1. toReceiver'[i] = o
        BY <2>3, <3>2
      <4>2. \A j \in Attempt : j[1] = t /\ byKey[j] # None => j[2] < n
        BY <1>12, AttemptFacts DEF ReceiverInv
      <4>3. \A j \in 1..L : toReceiver[j].type = "offer" /\ toReceiver[j].t = t => toReceiver[j].n < n
        <5> SUFFICES ASSUME NEW j \in 1..L, toReceiver[j].type = "offer", toReceiver[j].t = t PROVE toReceiver[j].n < n
          OBVIOUS
        <5>1. PICK m \in Messages : m = toReceiver[j] /\ Routed(j, m)
          BY <2>2, <2>3 DEF RouteInv
        <5>2. m.n <= tries[t] /\ m.n \in Nat
          BY <5>1, RegistryAssumption DEF Routed, Messages
        <5> QED BY <5>1, <5>2, <1>12, <1>11
      <4> QED BY <4>1, <4>2, <4>3, <2>1, <2>3, <3>2
    <3> QED BY <2>3, <3>1, <3>2
  <2> QED BY <2>7, <2>8, <2>9 DEF RouteInv
<1>28. ReceiverInv'
  <2>1. ASSUME NEW o \in Attempt, rcv[o].session # 0
        PROVE  /\ o[2] <= tries'[o[1]]
               /\ rcv[o].session <= snd'[Newest(o[1])'].session /\ rcv[o].session <= sessions
    <3>1. o[1] \in Transfer /\ o[2] <= tries[o[1]] /\ rcv[o].session <= sessions /\ rcv[o].session <= snd[Newest(o[1])].session
      BY <2>1, AttemptFacts DEF ReceiverInv
    <3>2. CASE o[1] = t
      BY <3>1, <3>2, <1>3, <1>9, <1>10, <1>14
    <3>3. CASE o[1] # t
      <4>1. Newest(o[1]) # k /\ Newest(o[1]) \in Attempt
        BY <3>1, <3>3, <1>5, <1>11, AttemptFacts
      <4> QED BY <3>1, <3>3, <4>1, <1>8, <1>10, <1>14
    <3> QED BY <3>2, <3>3
  <2>2. \A j \in Attempt : byKey[j] # None =>
          /\ j[2] <= tries'[j[1]] /\ byKey[j][1] = j[1] /\ byKey[j][2] <= j[2]
          /\ byId[j[1]] # None /\ rcv[byKey[j]].session # 0
    BY <1>14 DEF ReceiverInv
  <2>3. \A u \in Transfer : 1..tries[u] \subseteq 1..tries'[u]
    BY <1>6, <1>11, <1>12
  <2>4. \A u \in Transfer : byId[u] # None => \E m \in 1..tries'[u] : byKey[<<u, m>>] = byId[u]
    BY <2>3 DEF ReceiverInv
  <2> QED BY <1>1, <2>1, <2>2, <2>4 DEF ReceiverInv
<1>29. LatestInv'
  <2> SUFFICES ASSUME NEW j \in Attempt, j[2] <= tries'[j[1]] PROVE snd'[j].session <= snd'[Newest(j[1])'].session
    BY DEF LatestInv
  <2>1. snd'[j].session \in 1..sessions
    BY <1>1, <1>22 DEF ObjectInv
  <2>2. CASE j[1] = t
    BY <2>1, <2>2, <1>3, <1>9, <1>10
  <2>3. CASE j[1] # t
    <3>1. j # k /\ j[1] \in Transfer /\ j[2] <= tries[j[1]] /\ tries[j[1]] > 0 /\ Newest(j[1]) # k /\ Newest(j[1]) \in Attempt
      BY <2>3, <1>5, <1>6, <1>11, AttemptFacts
    <3> QED BY <2>3, <3>1, <1>8, <1>10 DEF LatestInv
  <2> QED BY <2>2, <2>3
<1> QED BY <1>20, <1>21, <1>22, <1>23, <1>24, <1>25, <1>26, <1>27, <1>28, <1>29

LEMMA SendKeeps ==
  ASSUME IInv, SendingUser PROVE IInv'
<1>1. UNCHANGED <<link, toSender, receiving>>
  BY DEF SendingUser
<1>2. ASSUME NEW t \in Transfer, SendFile(t) PROVE IInv'
  <2>1. Offer(t) /\ tries[t] = 0 /\ reported' = reported \ {t} /\ reports' = reports
    BY <1>2 DEF SendFile, IInv, ReportInv, Typed, ListTyped
  <2> QED BY <1>1, <2>1, OfferKeeps
<1>3. ASSUME NEW t \in Transfer, RetryTransfer(t) PROVE IInv'
  <2>1. Offer(t) /\ sEntry[t] \in Over /\ reported' = reported \ {t} /\ reports' = reports
    BY <1>3, EntryFacts DEF RetryTransfer, NotReported
  <2>2. tries[t] > 0 => reports[Newest(t)] # <<>>
    BY <2>1, NewestFacts DEF IInv, ReportInv
  <2> QED BY <1>1, <2>1, <2>2, OfferKeeps
<1>4. ASSUME NEW t \in Transfer, SenderPauses(t) PROVE IInv'
  BY <1>1, <1>4, PausesKeeps
<1>5. ASSUME NEW t \in Transfer, SenderCancels(t) PROVE IInv'
  BY <1>1, <1>5, CancelsKeeps
<1>6. ASSUME SenderCancelsAll PROVE IInv'
  BY <1>1, <1>6, CancelsAllKeeps
<1> QED BY <1>2, <1>3, <1>4, <1>5, <1>6 DEF SendingUser

-----------------------------------------------------------------------------
(* run() of the FileSenders.                                               *)

\* The common end of the steps of a sender: it says nothing.
LEMMA SilentKeeps ==
  ASSUME IInv, SenderKept, UNCHANGED <<link, tries, receiving, toReceiver>>,
         toSender' = toSender \/ (toSender # <<>> /\ toSender' = Tail(toSender))
  PROVE  IInv'
<1> USE DEF IInv
<1>1. UNCHANGED <<sessions, open, tries, byKey, byId, toReceiver>>
  BY DEF link, receiving
<1>2. \A j \in Attempt : snd'[j].session = snd[j].session
  BY DEF SenderKept
<1>3. toReceiver' \in Seq(Messages) /\ RouteInv' /\ OrderInv'
  BY <1>1, <1>2, QuietRoute
<1> QED BY <1>3, SenderMoveKeeps

LEMMA BusyIsTried ==
  ASSUME IInv, NEW k \in Attempt, snd[k].queued > 0 \/ snd[k].run # "idle"
  PROVE  Tried(k) /\ snd[k] \in SenderState
<1>1. snd[k] \in SenderState
  BY DEF IInv, Typed
<1>2. snd[k].queued \in Nat
  BY <1>1 DEF SenderState
<1> QED BY <1>1, <1>2 DEF IInv, ObjectInv, Tried

LEMMA EndRunKeeps ==
  ASSUME IInv, NEW k, Tried(k), EndRun(k), UNCHANGED <<tries, sessions, session, saved>>
  PROVE  SenderKept
<1> DEFINE s == [snd[k] EXCEPT !.run = "idle"]
<1>1. s \in SenderState /\ s.session = snd[k].session /\ s.status = snd[k].status
      /\ s.stray = snd[k].stray /\ s.cancelled = snd[k].cancelled
  BY DEF IInv, Typed, Tried, SenderState
<1>2. snd' = [snd EXCEPT ![k] = s] /\ UNCHANGED lists
  BY DEF EndRun, Tried
<1> HIDE DEF s
<1>3. SenderSide
  BY SideOf
<1> QED BY <1>1, <1>2, <1>3, UnseenKeeps

LEMMA FailRunKeeps ==
  ASSUME IInv, NEW k, Tried(k), FailRun(k), UNCHANGED <<tries, sessions, session, saved>>
  PROVE  SenderKept
<1>1. CASE snd[k].status \in Settled
  BY <1>1, EndRunKeeps DEF FailRun
<1>2. CASE snd[k].status \notin Settled
  <2> PICK q \in SenderState : q = snd[k]
    BY DEF IInv, Typed, Tried
  <2> DEFINE s == [q EXCEPT !.run = "idle", !.status = "failed", !.cancelled = TRUE]
  <2>1. s \in SenderState /\ s.session = q.session /\ s.stray = q.stray /\ s.status = "failed" /\ s.cancelled
    BY EntryFacts DEF SenderState
  <2>2. SetSender(k, s)
    BY <1>2 DEF FailRun
  <2> HIDE DEF s
  <2> QED BY <2>1, <2>2, SideOf, SetKeeps
<1> QED BY <1>1, <1>2

LEMMA GateKeeps ==
  ASSUME IInv, NEW k \in Attempt, TakeGate(k), UNCHANGED <<link, toSender, tries, receiving>>
  PROVE  IInv'
<1> DEFINE s == [snd[k] EXCEPT !.queued = @ - 1]
<1>1. UNCHANGED <<tries, sessions, session, saved, toReceiver>> /\ CanRun(k)
  BY DEF TakeGate, link, receiving
<1>2. Tried(k) /\ snd[k] \in SenderState /\ snd[k].queued > 0
  BY <1>1, BusyIsTried DEF CanRun
<1>3. s \in SenderState /\ s.session = snd[k].session /\ s.status = snd[k].status
      /\ s.stray = snd[k].stray /\ s.cancelled = snd[k].cancelled
  BY <1>2 DEF SenderState
<1>4. CASE snd[k].cancelled
  <2>1. snd' = [snd EXCEPT ![k] = s] /\ UNCHANGED lists
    BY <1>3, <1>4 DEF TakeGate
  <2>2. SenderKept
    <3> HIDE DEF s
    <3> QED BY <1>1, <1>2, <1>3, <2>1, SideOf, UnseenKeeps
  <2> QED BY <2>2, <1>1, SilentKeeps
<1>5. CASE ~snd[k].cancelled
  <2> PICK r : r = Started(k, s)
    OBVIOUS
  <2>1. SetSender(k, r)
    BY <1>3, <1>5 DEF TakeGate
  <2>2. /\ r \in SenderState /\ r.session = snd[k].session /\ (snd[k].stray => r.stray)
        /\ r.status \in {"failed", "transferring"}
        /\ r.status = "failed" => r.cancelled
        /\ r.status = "transferring" => r.stray \/ k \in Senders
    <3>1. CASE r = [s EXCEPT !.status = "failed", !.cancelled = TRUE]
      BY <3>1, <1>3, EntryFacts DEF SenderState
    <3>2. CASE r = [s EXCEPT !.run = NextStage(k, s.offset), !.status = "transferring",
                             !.stray = @ \/ k \notin Senders, !.overtaken = @ \/ s.status = "completed"]
      <4> PICK b \in BOOLEAN, c \in BOOLEAN :
            b = (s.stray \/ k \notin Senders) /\ c = (s.overtaken \/ s.status = "completed")
        OBVIOUS
      <4>1. NextStage(k, s.offset) \in {"idle", "loop"}
        BY DEF NextStage
      <4>2. r = [s EXCEPT !.run = NextStage(k, s.offset), !.status = "transferring", !.stray = b, !.overtaken = c]
        BY <3>2
      <4>3. r \in SenderState /\ r.session = s.session /\ r.stray = b /\ r.status = "transferring"
        BY <4>1, <4>2, <1>3, EntryFacts DEF SenderState
      <4>4. (s.stray => r.stray) /\ (r.stray \/ k \in Senders)
        BY <4>3
      <4> QED BY <4>3, <4>4, <1>3
    <3> QED BY <3>1, <3>2 DEF Started
  <2>3. \/ r.stray \/ r.status = "failed"
        \/ /\ k = Newest(k[1])
           /\ r.status \in Active => session["sender"] # 0 /\ r.session = session["sender"]
    BY <2>2, SendersFacts DEF IInv
  <2>4. SenderKept
    <3>1. r.status # "completed"
      BY <2>2
    <3> QED BY <1>1, <1>2, <2>1, <2>2, <2>3, <3>1, SideOf, SetKeeps
  <2> QED BY <2>4, <1>1, SilentKeeps
<1> QED BY <1>4, <1>5

LEMMA LoopKeeps ==
  ASSUME IInv, NEW k \in Attempt, LoopTurn(k), UNCHANGED <<link, toSender, tries, receiving>>
  PROVE  IInv'
<1>1. UNCHANGED <<tries, sessions, session, saved, toReceiver>> /\ snd[k].run = "loop"
  BY DEF LoopTurn, link, receiving
<1>2. Tried(k) /\ snd[k] \in SenderState
  BY <1>1, BusyIsTried
<1>3. ASSUME EndRun(k) PROVE IInv'
  BY <1>1, <1>2, <1>3, EndRunKeeps, SilentKeeps
<1>4. ASSUME FailRun(k) PROVE IInv'
  BY <1>1, <1>2, <1>4, FailRunKeeps, SilentKeeps
<1>5. ASSUME UNCHANGED lists, snd' = [snd EXCEPT ![k].run = "reading", ![k].end = snd[k].offset + 1]
      PROVE  IInv'
  <2> PICK q \in SenderState, e \in Nat : q = snd[k] /\ e = snd[k].offset + 1
    BY <1>2 DEF SenderState
  <2> DEFINE s == [q EXCEPT !.run = "reading", !.end = e]
  <2>1. snd' = [snd EXCEPT ![k] = s]
    BY <1>2, <1>5 DEF Tried, IInv, Typed
  <2>2. s \in SenderState /\ s.session = snd[k].session /\ s.status = snd[k].status
        /\ s.stray = snd[k].stray /\ s.cancelled = snd[k].cancelled
    BY DEF SenderState
  <2> HIDE DEF s
  <2>3. SenderKept
    BY <1>1, <1>2, <1>5, <2>1, <2>2, SideOf, UnseenKeeps
  <2> QED BY <2>3, <1>1, SilentKeeps
<1> QED BY <1>3, <1>4, <1>5 DEF LoopTurn

LEMMA ReadKeeps ==
  ASSUME IInv, NEW k \in Attempt, ReadDone(k), UNCHANGED <<link, toSender, tries, receiving>>
  PROVE  IInv'
<1>1. UNCHANGED <<tries, sessions, session, open, saved, byKey, byId>> /\ snd[k].run = "reading"
  BY DEF ReadDone, link, receiving
<1>2. Tried(k) /\ snd[k] \in SenderState
  BY <1>1, BusyIsTried
<1>3. ASSUME EndRun(k) \/ FailRun(k), UNCHANGED toReceiver PROVE IInv'
  BY <1>1, <1>2, <1>3, EndRunKeeps, FailRunKeeps, SilentKeeps
<1>4. ASSUME SenderOpen(k), TellReceiver(KeyMessage("chunk", k, snd[k].index)), UNCHANGED lists,
             snd' = [snd EXCEPT ![k].run = NextStage(k, snd[k].end), ![k].offset = snd[k].end, ![k].index = @ + 1]
      PROVE  IInv'
  <2> PICK q \in SenderState : q = snd[k]
    BY <1>2
  <2> PICK g \in {"idle", "loop"}, o \in Nat, i \in Nat :
        g = NextStage(k, q.end) /\ o = q.end /\ i = q.index + 1
    BY DEF NextStage, SenderState
  <2> DEFINE s == [q EXCEPT !.run = g, !.offset = o, !.index = i]
  <2>1. snd' = [snd EXCEPT ![k] = s]
    BY <1>2, <1>4 DEF Tried, IInv, Typed
  <2>2. s \in SenderState /\ s.session = snd[k].session /\ s.status = snd[k].status
        /\ s.stray = snd[k].stray /\ s.cancelled = snd[k].cancelled
    BY DEF SenderState
  <2> HIDE DEF s
  <2>0. UNCHANGED lists /\ TellReceiver(KeyMessage("chunk", k, snd[k].index))
    BY <1>4
  <2>3. SenderKept
    BY <1>1, <1>2, <2>0, <2>1, <2>2, SideOf, UnseenKeeps
  <2>4. PICK m : m = KeyMessage("chunk", k, snd[k].index)
    OBVIOUS
  <2>5. m \in Messages /\ m.type = "chunk" /\ m.t = k[1] /\ m.n = k[2] /\ k = <<m.t, m.n>>
    BY <1>2, <2>4, MessageFacts DEF SenderState
  <2>6. Linked => Routed(Len(toReceiver) + 1, m)
    <3> SUFFICES ASSUME Linked PROVE Routed(Len(toReceiver) + 1, m)
      OBVIOUS
    <3>1. snd[k].session = sessions
      BY <1>4 DEF SenderOpen, IInv, LinkInv, Side
    <3>2. OfferedBefore(Len(toReceiver) + 1, k)
      BY <3>1 DEF IInv, RouteInv
    <3> QED BY <3>1, <3>2, <2>5, <1>2 DEF Routed, Tried
  <2>7. toReceiver' \in Seq(Messages) /\ RouteInv' /\ OrderInv'
    <3>1. \A j \in Attempt : snd'[j].session = snd[j].session
      BY <2>3 DEF SenderKept
    <3> QED BY <1>1, <2>0, <2>4, <2>5, <2>6, <3>1, TellKeeps DEF IInv
  <2> QED BY <2>3, <2>7, SenderMoveKeeps
<1> QED BY <1>3, <1>4 DEF ReadDone

LEMMA RunsKeep == ASSUME IInv, SenderRuns PROVE IInv'
<1>1. UNCHANGED <<link, toSender, tries, receiving>>
  BY DEF SenderRuns
<1>2. ASSUME NEW k \in Attempt, ReadFails(k) PROVE IInv'
  <2>1. UNCHANGED <<tries, sessions, session, saved, toReceiver>> /\ snd[k].run = "reading" /\ FailRun(k)
    BY <1>1, <1>2 DEF ReadFails, link, receiving
  <2>2. Tried(k)
    BY <2>1, BusyIsTried
  <2> QED BY <1>1, <2>1, <2>2, FailRunKeeps, SilentKeeps
<1> QED BY <1>1, <1>2, GateKeeps, LoopKeeps, ReadKeeps DEF SenderRuns

-----------------------------------------------------------------------------
(* What the sending side is told.                                          *)

LEMMA StopOneKeeps ==
  ASSUME IInv, NEW k \in Attempt, k = Newest(k[1]), tries[k[1]] > 0, NEW st \in {"failed", "cancelled"},
         StopSenders({k}, st, {}), UNCHANGED <<tries, sessions, session, saved>>
  PROVE  SenderKept
<1> DEFINE K == {k}
<1>1. K \in SUBSET Attempt /\ \A j \in K : j = Newest(j[1]) /\ tries[j[1]] > 0
  OBVIOUS
<1>2. StopSenders(K, st, {})
  OBVIOUS
<1> HIDE DEF K
<1> QED BY <1>1, <1>2, SideOf, StopKeeps

LEMMA ToldKeeps ==
  ASSUME IInv, NEW m \in Messages, Valid(m), m.type # "cancel-all", OnMessage(Newest(m.t), m),
         open["sender"], UNCHANGED <<tries, sessions, session, saved>>
  PROVE  SenderKept
<1> PICK k : k = Newest(m.t)
  OBVIOUS
<1>1. /\ m.t \in Transfer /\ tries[m.t] > 0 /\ snd[k].session = sessions /\ (m.type = "complete" => m.t \in saved)
  BY DEF Valid
<1>2. /\ k \in Attempt /\ k[1] = m.t /\ k = Newest(k[1]) /\ Tried(k) /\ snd[k] \in SenderState
  BY <1>1, NewestFacts, NewestTried DEF IInv, Typed
<1>3. session["sender"] # 0 /\ snd[k].session = session["sender"]
  BY <1>1 DEF IInv, LinkInv, Side
<1>4. SenderSide
  BY SideOf
<1>5. ASSUME NEW s \in SenderState, snd' = [snd EXCEPT ![k] = s], UNCHANGED lists,
             s.session = snd[k].session, s.status = snd[k].status,
             s.stray = snd[k].stray, snd[k].cancelled => s.cancelled
      PROVE  SenderKept
  BY <1>2, <1>4, <1>5, UnseenKeeps
<1>6. ASSUME NEW s \in SenderState, SetSender(k, s), s.session = snd[k].session, s.stray = snd[k].stray,
             s.status # "failed", s.status = "completed" => m.t \in saved
      PROVE  SenderKept
  BY <1>1, <1>2, <1>3, <1>4, <1>6, SetKeeps
<1>7. ASSUME OnAccept(k, m) PROVE SenderKept
  <2> PICK from : from = IF m.at > FileSize[k[1]] THEN FileSize[k[1]] ELSE m.at
    OBVIOUS
  <2>1. from \in Nat
    BY <1>1, <1>2, RegistryAssumption DEF Messages
  <2> PICK q \in SenderState : q = snd[k]
    BY <1>2
  <2> PICK n \in Nat : n = q.queued + 1
    BY DEF SenderState
  <2> DEFINE s == [q EXCEPT !.queued = n, !.offset = from, !.index = from]
  <2>2. s \in SenderState /\ s.session = snd[k].session /\ s.status = snd[k].status
        /\ s.stray = snd[k].stray /\ s.cancelled = snd[k].cancelled
    BY <2>1 DEF SenderState
  <2>3. snd' = [snd EXCEPT ![k] = s] /\ UNCHANGED lists
    BY <1>2, <1>7 DEF OnAccept, IInv, Typed
  <2> HIDE DEF s
  <2> QED BY <1>5, <2>2, <2>3
<1>8. ASSUME OnReject(k) PROVE SenderKept
  <2>1. CASE snd[k].status \in Settled
    <3> DEFINE s == [snd[k] EXCEPT !.cancelled = TRUE]
    <3>1. s \in SenderState /\ s.session = snd[k].session /\ s.status = snd[k].status
          /\ s.stray = snd[k].stray /\ s.cancelled
      BY <1>2 DEF SenderState
    <3>2. snd' = [snd EXCEPT ![k] = s] /\ UNCHANGED lists
      BY <1>2, <1>8, <2>1 DEF OnReject, IInv, Typed
    <3> HIDE DEF s
    <3> QED BY <1>5, <3>1, <3>2
  <2>2. CASE snd[k].status \notin Settled
    BY <1>1, <1>2, <1>8, <2>2, StopOneKeeps DEF OnReject
  <2> QED BY <2>1, <2>2
<1>9. ASSUME m.type = "complete", OnComplete(k) PROVE SenderKept
  <2> DEFINE s == [snd[k] EXCEPT !.status = "completed"]
  <2>1. s \in SenderState /\ s.session = snd[k].session /\ s.stray = snd[k].stray /\ s.status = "completed"
    BY <1>2, EntryFacts DEF SenderState
  <2>2. SetSender(k, s)
    BY <1>9 DEF OnComplete
  <2> HIDE DEF s
  <2> QED BY <1>1, <1>6, <1>9, <2>1, <2>2
<1>10. ASSUME OnSteered(k, m) PROVE SenderKept
  <2>1. CASE SetSender(k, [snd[k] EXCEPT !.paused = TRUE, !.status = "paused"])
    <3> DEFINE s == [snd[k] EXCEPT !.paused = TRUE, !.status = "paused"]
    <3>1. s \in SenderState /\ s.session = snd[k].session /\ s.stray = snd[k].stray /\ s.status = "paused"
      BY <1>2, EntryFacts DEF SenderState
    <3> QED BY <1>6, <2>1, <3>1
  <2>2. CASE SetSender(k, [snd[k] EXCEPT !.paused = FALSE, !.status = "transferring"])
    <3> DEFINE s == [snd[k] EXCEPT !.paused = FALSE, !.status = "transferring"]
    <3>1. s \in SenderState /\ s.session = snd[k].session /\ s.stray = snd[k].stray /\ s.status = "transferring"
      BY <1>2, EntryFacts DEF SenderState
    <3> QED BY <1>6, <2>2, <3>1
  <2>3. CASE UNCHANGED <<snd, lists>>
    <3>1. snd' = [snd EXCEPT ![k] = snd[k]]
      BY <1>2, <2>3 DEF IInv, Typed
    <3> QED BY <1>2, <1>5, <2>3, <3>1
  <2> QED BY <1>10, <2>1, <2>2, <2>3 DEF OnSteered
<1>11. ASSUME StopSenders({k}, "cancelled", {}) PROVE SenderKept
  BY <1>1, <1>2, <1>11, StopOneKeeps
<1> QED BY <1>7, <1>8, <1>9, <1>10, <1>11 DEF OnMessage

LEMMA RepliesKeep == ASSUME IInv, SenderGets PROVE IInv'
<1>1. /\ UNCHANGED <<tries, sessions, session, saved, toReceiver>> /\ open["sender"]
      /\ UNCHANGED <<link, tries, receiving>>
      /\ toSender # <<>> /\ toSender' = Tail(toSender)
  BY DEF SenderGets, link, receiving
<1> PICK m : m = Head(toSender)
  OBVIOUS
<1>2. m \in Messages /\ Valid(m)
  BY <1>1, TailFacts DEF IInv, Typed, ReplyInv
<1>3. SenderKept
  <2>1. CASE m.type = "cancel-all"
    <3> DEFINE X == {}
               K == Senders
    <3>1. StopSenders(K, "cancelled", X)
      BY <2>1 DEF SenderGets
    <3>2. /\ K \in SUBSET Attempt /\ \A k \in K : k = Newest(k[1]) /\ tries[k[1]] > 0
          /\ X \in SUBSET Transfer /\ \A u \in X : sEntry[u] \in Active /\ (Newest(u) \in Senders => Newest(u) \in K)
      BY SendersFacts DEF IInv
    <3> HIDE DEF K, X
    <3> QED BY <1>1, <3>1, <3>2, SideOf, StopKeeps
  <2>2. CASE m.type # "cancel-all"
    <3>1. OnMessage(Newest(m.t), m)
      BY <2>2 DEF SenderGets
    <3> QED BY <1>1, <1>2, <2>2, <3>1, ToldKeeps
  <2> QED BY <2>1, <2>2
<1> QED BY <1>1, <1>3, SilentKeeps

-----------------------------------------------------------------------------
(* What the receiving side takes out of the channel.                       *)

\* The first message leaves; an offer leaves its receiver in the maps.
LEMMA TailRouted ==
  ASSUME Typed, RouteInv, OrderInv, toReceiver # <<>>, toReceiver' = Tail(toReceiver),
         UNCHANGED <<sessions, open, tries, snd>>, NEW h, h = Head(toReceiver),
         \A k \in Attempt : byKey[k] # None => byKey'[k] # None,
         \A t \in Transfer : byId[t] # None => byId'[t] # None,
         h.type = "offer" => byKey'[<<h.t, h.n>>] # None /\ byId'[h.t] # None,
         \A k \in Attempt : byKey'[k] # None => byKey[k] # None \/ (h.type = "offer" /\ k = <<h.t, h.n>>)
  PROVE  toReceiver' \in Seq(Messages) /\ RouteInv' /\ OrderInv'
<1>1. toReceiver \in Seq(Messages)
  BY DEF Typed
<1>2. PICK L \in Nat : L + 1 = Len(toReceiver)
  <2>1. Len(toReceiver) \in Nat /\ Len(toReceiver) # 0
    BY <1>1
  <2> PICK N \in Nat : N = Len(toReceiver) /\ N # 0
    BY <2>1
  <2>2. N - 1 \in Nat /\ (N - 1) + 1 = N
    OBVIOUS
  <2> WITNESS N - 1 \in Nat
  <2> QED BY <2>2
<1>3. /\ toReceiver' \in Seq(Messages) /\ Len(toReceiver') = L
      /\ DOMAIN toReceiver = 1..(L + 1) /\ DOMAIN toReceiver' = 1..L
      /\ \A i \in 1..L : toReceiver'[i] = toReceiver[i + 1]
      /\ h = toReceiver[1] /\ h \in Messages
  BY <1>1, <1>2, TailFacts
<1>4. ASSUME NEW i \in 1..(L + 1), NEW k \in Attempt, OfferedBefore(i + 1, k) PROVE OfferedBefore(i, k)'
  <2>1. CASE byKey[k] # None
    BY <2>1 DEF OfferedBefore
  <2>2. CASE byKey[k] = None
    <3>1. PICK j \in 1..i : toReceiver[j].type = "offer" /\ <<toReceiver[j].t, toReceiver[j].n>> = k
      BY <1>4, <2>2 DEF OfferedBefore
    <3>2. CASE j = 1
      BY <1>3, <3>1, <3>2 DEF OfferedBefore
    <3>3. CASE j # 1
      <4>1. j - 1 \in 1..(i - 1) /\ j - 1 \in 1..L /\ toReceiver'[j - 1] = toReceiver[j]
        BY <1>3, <3>3
      <4> QED BY <3>1, <4>1 DEF OfferedBefore
    <3> QED BY <3>2, <3>3
  <2> QED BY <2>1, <2>2
<1>5. ASSUME NEW i \in 1..(L + 1), NEW t \in Transfer, TransferBefore(i + 1, t) PROVE TransferBefore(i, t)'
  <2>1. CASE byId[t] # None
    BY <2>1 DEF TransferBefore
  <2>2. CASE byId[t] = None
    <3>1. PICK j \in 1..i : toReceiver[j].type = "offer" /\ toReceiver[j].t = t
      BY <1>5, <2>2 DEF TransferBefore
    <3>2. CASE j = 1
      BY <1>3, <3>1, <3>2 DEF TransferBefore
    <3>3. CASE j # 1
      <4>1. j - 1 \in 1..(i - 1) /\ j - 1 \in 1..L /\ toReceiver'[j - 1] = toReceiver[j]
        BY <1>3, <3>3
      <4> QED BY <3>1, <4>1 DEF TransferBefore
    <3> QED BY <3>2, <3>3
  <2> QED BY <2>1, <2>2
<1>6. ASSUME NEW i \in 1..(L + 1), NEW n, Routed(i + 1, n) PROVE Routed(i, n)'
  BY <1>4, <1>5, <1>6 DEF Routed
<1>7. ASSUME NEW i \in DOMAIN toReceiver' PROVE Routed(i, toReceiver[i])'
  <2>1. i \in 1..L /\ i + 1 \in DOMAIN toReceiver /\ toReceiver'[i] = toReceiver[i + 1]
    BY <1>3
  <2>2. PICK n : n = toReceiver[i + 1] /\ Routed(i + 1, n)
    BY <2>1 DEF RouteInv
  <2>3. Routed(i, n)' /\ n = toReceiver'[i]
    BY <1>6, <2>1, <2>2
  <2> QED BY <2>3 DEF Routed, OfferedBefore, TransferBefore
<1>8. ASSUME NEW k \in Attempt, Linked', snd'[k].session = sessions' PROVE OfferedBefore(Len(toReceiver) + 1, k)'
  <2>1. Linked /\ snd[k].session = sessions
    BY <1>8 DEF Linked
  <2>2. OfferedBefore(L + 1 + 1, k)
    BY <1>2, <2>1 DEF RouteInv
  <2>3. OfferedBefore(L + 1, k)'
    BY <1>4, <2>2
  <2> QED BY <1>3, <2>3
<1>9. OrderInv'
  <2> SUFFICES ASSUME NEW i \in 1..L, toReceiver[i + 1].type = "offer"
               PROVE  /\ \A k \in Attempt : k[1] = toReceiver[i + 1].t /\ byKey'[k] # None => k[2] < toReceiver[i + 1].n
                      /\ \A j \in 1..(i - 1) : toReceiver[j + 1].type = "offer" /\ toReceiver[j + 1].t = toReceiver[i + 1].t =>
                           toReceiver[j + 1].n < toReceiver[i + 1].n
    BY <1>3 DEF OrderInv
  <2>1. i + 1 \in 1..(L + 1) /\ 1 \in 1..(i + 1 - 1)
    OBVIOUS
  <2>2. \A k \in Attempt : k[1] = toReceiver[i + 1].t /\ byKey'[k] # None => k[2] < toReceiver[i + 1].n
    <3> SUFFICES ASSUME NEW k \in Attempt, k[1] = toReceiver[i + 1].t, byKey'[k] # None PROVE k[2] < toReceiver[i + 1].n
      OBVIOUS
    <3>1. CASE byKey[k] # None
      BY <1>3, <2>1, <3>1 DEF OrderInv
    <3>2. CASE h.type = "offer" /\ k = <<h.t, h.n>>
      <4>1. k[1] = h.t /\ k[2] = h.n
        BY <3>2
      <4>2. toReceiver[1].type = "offer" /\ toReceiver[1].t = toReceiver[i + 1].t /\ k[2] = toReceiver[1].n
        BY <1>3, <3>2, <4>1
      <4>3. toReceiver[1].n < toReceiver[i + 1].n
        BY <1>3, <2>1, <4>2 DEF OrderInv
      <4> QED BY <4>2, <4>3
    <3> QED BY <3>1, <3>2
  <2>3. \A j \in 1..(i - 1) : j + 1 \in 1..(i + 1 - 1)
    OBVIOUS
  <2> QED BY <1>3, <2>1, <2>2, <2>3 DEF OrderInv
<1> QED BY <1>3, <1>7, <1>8, <1>9 DEF RouteInv

-----------------------------------------------------------------------------
(* The receivers: what a step of one changes of their list.                *)

\* The part of the invariant a step of the receiving side can disturb while it
\* takes no offer.
ReceiverKept ==
  /\ ReceiverTyped' /\ saved \subseteq saved'
  /\ \A o \in Attempt : rcv'[o].session = rcv[o].session

LEMMA PutKeeps ==
  ASSUME Typed, NEW o \in Attempt, NEW r \in ReceiverState, r.session = rcv[o].session, PutReceiver(o, r)
  PROVE  ReceiverKept
BY DEF Typed, ReceiverTyped, PutReceiver, ReceiverKept

LEMMA SetReceiverKeeps ==
  ASSUME Typed, NEW o \in Attempt, NEW r \in ReceiverState, r.session = rcv[o].session, SetReceiver(o, r)
  PROVE  ReceiverKept /\ (r.status = "completed" => o[1] \in saved')
<1>1. rcv' \in [Attempt -> ReceiverState] /\ \A j \in Attempt : rcv'[j].session = rcv[j].session
  BY DEF Typed, ReceiverTyped, SetReceiver
<1>2. o[1] \in Transfer /\ r.status \in Entry
  BY AttemptFacts DEF ReceiverState, Entry
<1>3. rEntry' \in [Transfer -> Entry]
  BY <1>2 DEF Typed, ReceiverTyped, SetReceiver
<1>4. saved' \in SUBSET Transfer /\ saved \subseteq saved' /\ (r.status = "completed" => o[1] \in saved')
  BY <1>2 DEF Typed, ReceiverTyped, SetReceiver
<1> QED BY <1>1, <1>3, <1>4 DEF ReceiverKept, ReceiverTyped

LEMMA FailReceiverKeeps ==
  ASSUME Typed, NEW o \in Attempt, NEW r \in ReceiverState, r.session = rcv[o].session, FailReceiver(o, r)
  PROVE  ReceiverKept
<1>1. CASE r.status = "completed"
  BY <1>1, PutKeeps DEF FailReceiver
<1>2. CASE r.status # "completed"
  <2> DEFINE s == [r EXCEPT !.status = "failed"]
  <2>1. s \in ReceiverState /\ s.session = r.session
    BY EntryFacts DEF ReceiverState
  <2>2. SetReceiver(o, s)
    BY <1>2 DEF FailReceiver
  <2> HIDE DEF s
  <2> QED BY <2>1, <2>2, SetReceiverKeeps
<1> QED BY <1>1, <1>2

LEMMA StopReceiversKeeps ==
  ASSUME Typed, NEW K \in SUBSET Attempt, NEW Extra \in SUBSET Transfer, StopReceivers(K, Extra)
  PROVE  ReceiverKept
<1>1. ASSUME NEW o \in Attempt PROVE Cancelled(rcv[o]) \in ReceiverState /\ Cancelled(rcv[o]).session = rcv[o].session
  <2> PICK r \in ReceiverState : r = rcv[o]
    BY DEF Typed, ReceiverTyped
  <2> PICK x \in {"discarded", "none", "closingDiscarded"} : x = Discarded(r)
    BY DEF Discarded
  <2> DEFINE s == [r EXCEPT !.status = "cancelled", !.stream = x]
  <2>1. s \in ReceiverState /\ s.session = r.session
    BY EntryFacts DEF ReceiverState, Closing
  <2>2. Cancelled(r) = r \/ Cancelled(r) = s
    BY DEF Cancelled
  <2> QED BY <2>1, <2>2
<1>2. rcv' = [o \in Attempt |-> IF o \in K THEN Cancelled(rcv[o]) ELSE rcv[o]]
  BY DEF StopReceivers
<1>3. \A o \in Attempt : rcv[o] \in ReceiverState
  BY DEF Typed, ReceiverTyped
<1>4. rcv' \in [Attempt -> ReceiverState] /\ \A o \in Attempt : rcv'[o].session = rcv[o].session
  BY <1>1, <1>2, <1>3
<1>5. rEntry' \in [Transfer -> Entry] /\ saved' = saved
  BY EntryFacts DEF StopReceivers, Typed, ReceiverTyped, Entry
<1> QED BY <1>4, <1>5 DEF ReceiverKept, ReceiverTyped, Typed

-----------------------------------------------------------------------------
(* What the receiving side says.                                           *)

\* What was said stays valid while the sending side does nothing.
LEMMA ValidStays ==
  ASSUME UNCHANGED <<sessions, tries, snd>>, saved \subseteq saved', NEW m, Valid(m)
  PROVE  Valid(m)'
BY DEF Valid, Newest

LEMMA SilentReply ==
  ASSUME Typed, ReplyInv, UNCHANGED <<sessions, tries, snd, toSender>>, saved \subseteq saved'
  PROVE  toSender' \in Seq(Messages) /\ ReplyInv'
<1> SUFFICES ASSUME NEW i \in DOMAIN toSender PROVE Valid(toSender[i])'
  BY DEF ReplyInv, Typed
<1>1. PICK m : m = toSender[i] /\ Valid(m)
  BY DEF ReplyInv
<1>2. Valid(m)' /\ m = toSender'[i]
  BY <1>1, ValidStays
<1> QED BY <1>2 DEF Valid

LEMMA AppendsReply ==
  ASSUME Typed, ReplyInv, UNCHANGED <<sessions, tries, snd>>, saved \subseteq saved',
         NEW ms \in Seq(Messages), \A i \in DOMAIN ms : Valid(ms[i])', toSender' = toSender \o ms
  PROVE  toSender' \in Seq(Messages) /\ ReplyInv'
<1>1. toSender \in Seq(Messages)
  BY DEF Typed
<1> PICK L \in Nat, M \in Nat : L = Len(toSender) /\ M = Len(ms)
  BY <1>1
<1>2. /\ toSender' \in Seq(Messages) /\ DOMAIN toSender' = 1..(L + M) /\ DOMAIN toSender = 1..L /\ DOMAIN ms = 1..M
      /\ \A i \in 1..L : toSender'[i] = toSender[i]
      /\ \A i \in 1..(L + M) : i > L => toSender'[i] = ms[i - L]
  BY <1>1
<1>3. ASSUME NEW i \in DOMAIN toSender' PROVE Valid(toSender[i])'
  <2>1. CASE i \in 1..L
    <3>1. PICK n : n = toSender[i] /\ Valid(n)
      BY <1>2, <2>1 DEF ReplyInv
    <3>2. Valid(n)' /\ n = toSender'[i]
      BY <1>2, <2>1, <3>1, ValidStays
    <3> QED BY <3>2 DEF Valid
  <2>2. CASE i \notin 1..L
    <3>1. i - L \in 1..M /\ toSender'[i] = ms[i - L]
      BY <1>2, <2>2
    <3> PICK m : m = ms[i - L] /\ m = toSender'[i] /\ Valid(m)'
      BY <1>2, <3>1
    <3> QED BY DEF Valid
  <2> QED BY <2>1, <2>2
<1> QED BY <1>2, <1>3 DEF ReplyInv

LEMMA AppendReply ==
  ASSUME Typed, ReplyInv, UNCHANGED <<sessions, tries, snd>>, saved \subseteq saved',
         NEW m \in Messages, Valid(m)', toSender' = Append(toSender, m)
  PROVE  toSender' \in Seq(Messages) /\ ReplyInv'
<1> DEFINE ms == <<m>>
<1>1. ms \in Seq(Messages) /\ DOMAIN ms = {1} /\ ms[1] = m
  OBVIOUS
<1>2. toSender' = toSender \o ms
  BY DEF Typed
<1> HIDE DEF ms
<1>3. ASSUME NEW i \in DOMAIN ms PROVE Valid(ms[i])'
  BY <1>1 DEF Valid
<1> QED BY <1>1, <1>2, <1>3, AppendsReply

\* A receiver that can still reach its sender finds the newest one of its transfer.
LEMMA TellsSenderKeeps ==
  ASSUME IInv, UNCHANGED <<link, sending>>, saved \subseteq saved',
         NEW o \in Attempt, NEW ms \in Seq(Messages), TellSender(o, ms),
         \A i \in DOMAIN ms :
           ms[i].type \in Replies /\ ms[i].t = o[1] /\ (ms[i].type = "complete" => o[1] \in saved')
  PROVE  toSender' \in Seq(Messages) /\ ReplyInv'
<1> USE DEF IInv
<1>1. UNCHANGED <<sessions, tries, snd>>
  BY DEF link, sending
<1>3. CASE Linked /\ rcv[o].session = session["receiver"]
  <2>1. rcv[o].session = sessions /\ sessions > 0 /\ sessions \in Nat
    BY <1>3, RegistryAssumption DEF Linked, LinkInv, Side, Typed
  <2>2. o[1] \in Transfer /\ o[2] <= tries[o[1]] /\ o[2] \in 1..MaxAttempts /\ sessions <= snd[Newest(o[1])].session
    BY <2>1, AttemptFacts DEF ReceiverInv
  <2>3. tries[o[1]] \in Nat /\ tries[o[1]] > 0
    BY <2>2, NewestFacts, RegistryAssumption
  <2>4. Newest(o[1]) \in Attempt /\ snd[Newest(o[1])].session \in 1..sessions
    BY <2>2, <2>3, NewestFacts DEF ObjectInv
  <2>5. snd[Newest(o[1])].session = sessions
    BY <2>1, <2>2, <2>4
  <2>6. ASSUME NEW i \in DOMAIN ms PROVE Valid(ms[i])'
    <3>1. PICK m : m = ms[i]
      OBVIOUS
    <3>2. Valid(m)'
      BY <1>1, <2>2, <2>3, <2>5, <3>1 DEF Valid, Newest
    <3> QED BY <3>1, <3>2 DEF Valid
  <2>7. toSender' = toSender \o ms
    BY <1>3 DEF TellSender
  <2> QED BY <1>1, <2>6, <2>7, AppendsReply
<1>4. CASE ~(Linked /\ rcv[o].session = session["receiver"])
  <2>1. toSender' = toSender
    BY <1>4 DEF TellSender
  <2> QED BY <1>1, <2>1, SilentReply
<1> QED BY <1>3, <1>4

LEMMA TellSenderKeeps ==
  ASSUME IInv, UNCHANGED <<link, sending>>, saved \subseteq saved',
         NEW o \in Attempt, NEW m \in Messages, TellSender(o, <<m>>),
         m.type \in Replies, m.t = o[1], m.type = "complete" => o[1] \in saved'
  PROVE  toSender' \in Seq(Messages) /\ ReplyInv'
<1> DEFINE ms == <<m>>
<1>1. ms \in Seq(Messages) /\ TellSender(o, ms) /\ \A i \in DOMAIN ms : ms[i] = m
  OBVIOUS
<1> HIDE DEF ms
<1> QED BY <1>1, TellsSenderKeeps

\* A step of the receiving side that takes no offer.
LEMMA ReceiverMoveKeeps ==
  ASSUME IInv, ReceiverKept, UNCHANGED <<link, sending, byKey, byId>>,
         onScreen' \in SUBSET Transfer,
         toSender' \in Seq(Messages), ReplyInv',
         toReceiver' \in Seq(Messages), RouteInv', OrderInv'
  PROVE  IInv'
<1> USE DEF IInv
<1>1. UNCHANGED <<sessions, session, open, tries, snd, sEntry, reported, reports, byKey, byId>>
  BY DEF link, sending, lists
<1>2. ListTyped'
  BY <1>1 DEF Typed, ListTyped
<1>3. Typed'
  BY <1>1, <1>2 DEF Typed, ReceiverKept
<1>4. LinkInv' /\ ObjectInv' /\ LatestInv'
  BY <1>1 DEF LinkInv, ObjectInv, LatestInv, Newest
<1>5. ReportInv'
  BY <1>1 DEF ReportInv, Newest
<1>6. ShownInv'
  BY <1>1 DEF ShownInv, Newest, Strayed
<1>7. SavedInv'
  BY <1>1 DEF SavedInv, ReceiverKept
<1>8. ReceiverInv'
  <2>1. \A o \in Attempt : rcv'[o].session # 0 =>
          /\ o[2] <= tries'[o[1]]
          /\ rcv'[o].session <= snd'[Newest(o[1])'].session /\ rcv'[o].session <= sessions'
    BY <1>1 DEF ReceiverInv, ReceiverKept, Newest
  <2>2. \A k \in Attempt : byKey[k] # None => byKey[k] \in Attempt
    BY DEF Typed
  <2> QED BY <1>1, <2>1, <2>2 DEF ReceiverInv, ReceiverKept
<1> QED BY <1>3, <1>4, <1>5, <1>6, <1>7, <1>8

-----------------------------------------------------------------------------
(* The receivers at work.                                                  *)

\* A step of a receiver and what it says.
ReceiverStep == ReceiverKept /\ toSender' \in Seq(Messages) /\ ReplyInv'

LEMMA SilentStep ==
  ASSUME IInv, UNCHANGED <<link, sending, toSender>>, ReceiverKept
  PROVE  ReceiverStep
<1>1. UNCHANGED <<sessions, tries, snd, toSender>> /\ saved \subseteq saved'
  BY DEF link, sending, ReceiverKept
<1> QED BY <1>1, SilentReply DEF IInv, ReceiverStep

LEMMA IdleKeeps ==
  ASSUME IInv, UNCHANGED <<link, sending, toSender, rcv, rEntry, saved>>
  PROVE  ReceiverStep
<1>1. ReceiverKept
  BY DEF IInv, Typed, ReceiverTyped, ReceiverKept
<1> QED BY <1>1, SilentStep

\* A new status that the other side is told of.
LEMMA SetTellsKeeps ==
  ASSUME IInv, UNCHANGED <<link, sending>>,
         NEW o \in Attempt, NEW r \in ReceiverState, r.session = rcv[o].session, SetReceiver(o, r),
         NEW ms \in Seq(Messages), TellSender(o, ms),
         \A i \in DOMAIN ms :
           ms[i].type \in Replies /\ ms[i].t = o[1] /\ (ms[i].type = "complete" => r.status = "completed")
  PROVE  ReceiverStep
<1>1. ReceiverKept /\ (r.status = "completed" => o[1] \in saved')
  BY SetReceiverKeeps DEF IInv
<1>2. toSender' \in Seq(Messages) /\ ReplyInv'
  BY <1>1, TellsSenderKeeps DEF ReceiverKept
<1> QED BY <1>1, <1>2 DEF ReceiverStep

LEMMA SetTellKeeps ==
  ASSUME IInv, UNCHANGED <<link, sending>>,
         NEW o \in Attempt, NEW r \in ReceiverState, r.session = rcv[o].session, SetReceiver(o, r),
         NEW m \in Messages, TellSender(o, <<m>>),
         m.type \in Replies, m.t = o[1], m.type = "complete" => r.status = "completed"
  PROVE  ReceiverStep
<1> DEFINE ms == <<m>>
<1>1. ms \in Seq(Messages) /\ TellSender(o, ms) /\ \A i \in DOMAIN ms : ms[i] = m
  OBVIOUS
<1> HIDE DEF ms
<1> QED BY <1>1, SetTellsKeeps

LEMMA ReplyFacts ==
  ASSUME NEW o \in Attempt, NEW type \in {"accept", "reject", "complete", "pause", "resume", "cancel"}
  PROVE  /\ Message(type, o[1]) \in Messages /\ Message(type, o[1]).type = type /\ Message(type, o[1]).t = o[1]
         /\ type \in Replies
BY MessageFacts, AttemptFacts DEF Replies

LEMMA StoredKeeps ==
  ASSUME IInv, UNCHANGED <<link, sending>>,
         NEW o \in Attempt, NEW r \in ReceiverState, r.session = rcv[o].session, Stored(o, r)
  PROVE  ReceiverStep
<1> PICK n \in Nat : n = r.got + 1
  BY DEF ReceiverState
<1>1. CASE Full(o, r)
  <2> DEFINE s == [r EXCEPT !.got = n, !.stream = "none", !.status = "completed"]
  <2>1. s \in ReceiverState /\ s.session = r.session /\ s.status = "completed"
    BY EntryFacts DEF ReceiverState
  <2>2. SetReceiver(o, s) /\ TellSender(o, <<Message("complete", o[1])>>)
    BY <1>1 DEF Stored
  <2> HIDE DEF s
  <2> PICK m : m = Message("complete", o[1])
    OBVIOUS
  <2>3. m \in Messages /\ m.type \in Replies /\ m.t = o[1]
    BY ReplyFacts
  <2> QED BY <2>1, <2>2, <2>3, SetTellKeeps
<1>2. CASE ~Full(o, r)
  <2> DEFINE s == [r EXCEPT !.got = n]
  <2>1. s \in ReceiverState /\ s.session = r.session
    BY DEF ReceiverState
  <2>2. PutReceiver(o, s) /\ UNCHANGED toSender
    BY <1>2 DEF Stored
  <2> HIDE DEF s
  <2>3. ReceiverKept
    BY <2>1, <2>2, PutKeeps DEF IInv
  <2> QED BY <2>2, <2>3, SilentStep
<1> QED BY <1>1, <1>2

LEMMA ChunkKeeps ==
  ASSUME IInv, UNCHANGED <<link, sending>>, NEW o \in Attempt, NEW index, GetChunk(o, index)
  PROVE  ReceiverStep
<1> PICK r \in ReceiverState : r = rcv[o]
  BY DEF IInv, Typed, ReceiverTyped
<1> PICK n \in Nat : n = r.expected + 1
  BY DEF ReceiverState
<1> DEFINE next == [r EXCEPT !.expected = n]
<1>1. next \in ReceiverState /\ next.session = r.session /\ next.writing = r.writing /\ r.writing \in Nat
  BY DEF ReceiverState
<1>2. \/ UNCHANGED <<rcv, rEntry, saved, toSender>>
      \/ FailReceiver(o, r) /\ UNCHANGED toSender
      \/ FailReceiver(o, next) /\ UNCHANGED toSender
      \/ Stored(o, next)
      \/ PutReceiver(o, [next EXCEPT !.writing = r.writing + 1]) /\ TellSender(o, <<>>)
  BY <1>1 DEF GetChunk, OnArrival
<1> HIDE DEF next
<1>3. CASE UNCHANGED <<rcv, rEntry, saved, toSender>>
  BY <1>3, IdleKeeps
<1>4. CASE (FailReceiver(o, r) \/ FailReceiver(o, next)) /\ UNCHANGED toSender
  <2>1. ReceiverKept
    BY <1>1, <1>4, FailReceiverKeeps DEF IInv
  <2> QED BY <1>4, <2>1, SilentStep
<1>5. CASE Stored(o, next)
  BY <1>1, <1>5, StoredKeeps
<1>6. CASE PutReceiver(o, [next EXCEPT !.writing = r.writing + 1]) /\ TellSender(o, <<>>)
  <2> PICK w \in Nat : w = r.writing + 1
    BY <1>1
  <2> PICK q \in ReceiverState : q = next
    BY <1>1
  <2> DEFINE s == [q EXCEPT !.writing = w]
  <2>1. s \in ReceiverState /\ s.session = q.session
    BY DEF ReceiverState
  <2>2. PutReceiver(o, s)
    BY <1>6
  <2> HIDE DEF s
  <2>3. ReceiverKept
    BY <1>1, <2>1, <2>2, PutKeeps DEF IInv
  <2>4. toSender' = toSender
    <3>1. toSender \in Seq(Messages)
      BY DEF IInv, Typed
    <3>2. toSender \o <<>> = toSender
      BY <3>1
    <3> QED BY <1>6, <3>2 DEF TellSender
  <2> QED BY <2>3, <2>4, SilentStep
<1> QED BY <1>2, <1>3, <1>4, <1>5, <1>6

LEMMA ByIdFacts ==
  ASSUME IInv
  PROVE  /\ \A t \in Transfer : byId[t] # None => byId[t] \in Attempt /\ byId[t][1] = t /\ rcv[byId[t]].session # 0
         /\ \A k \in Attempt : byKey[k] # None => byKey[k] \in Attempt /\ byKey[k][1] = k[1]
         /\ Receivers \in SUBSET Attempt
<1> USE DEF IInv
<1>1. ASSUME NEW t \in Transfer, byId[t] # None
      PROVE  byId[t] \in Attempt /\ byId[t][1] = t /\ rcv[byId[t]].session # 0
  <2>1. PICK n \in 1..tries[t] : byKey[<<t, n>>] = byId[t]
    BY <1>1 DEF ReceiverInv
  <2>2. <<t, n>> \in Attempt /\ <<t, n>>[1] = t
    BY NewestFacts, AttemptFacts, RegistryAssumption
  <2>3. byKey[<<t, n>>] # None /\ byId[t] \in Attempt
    BY <1>1, <2>1 DEF Typed
  <2> QED BY <2>1, <2>2, <2>3 DEF ReceiverInv
<1>2. \A k \in Attempt : byKey[k] # None => byKey[k] \in Attempt /\ byKey[k][1] = k[1]
  BY DEF ReceiverInv, Typed
<1> QED BY <1>1, <1>2 DEF Receivers

LEMMA SetPausedKeeps ==
  ASSUME IInv, UNCHANGED <<link, sending, toSender>>, NEW o \in Attempt,
         NEW from, NEW to \in {"transferring", "paused"}, SetPaused(o, from, to)
  PROVE  ReceiverStep
<1>1. CASE UNCHANGED <<rcv, rEntry, saved>>
  BY <1>1, IdleKeeps
<1>2. CASE SetReceiver(o, [rcv[o] EXCEPT !.status = to])
  <2> PICK r \in ReceiverState : r = rcv[o]
    BY DEF IInv, Typed, ReceiverTyped
  <2> DEFINE s == [r EXCEPT !.status = to]
  <2>1. s \in ReceiverState /\ s.session = r.session
    BY EntryFacts DEF ReceiverState
  <2>2. SetReceiver(o, s)
    BY <1>2
  <2> HIDE DEF s
  <2>3. ReceiverKept
    BY <2>1, <2>2, SetReceiverKeeps DEF IInv
  <2> QED BY <2>3, SilentStep
<1> QED BY <1>1, <1>2 DEF SetPaused

LEMMA StopStep ==
  ASSUME IInv, UNCHANGED <<link, sending, toSender>>,
         NEW K \in SUBSET Attempt, NEW Extra \in SUBSET Transfer, StopReceivers(K, Extra)
  PROVE  ReceiverStep
BY StopReceiversKeeps, SilentStep DEF IInv

\* Everything but an offer.
LEMMA TakenKeeps ==
  ASSUME IInv, NEW m \in Messages, m = Head(toReceiver), toReceiver # <<>>,
         toReceiver' = Tail(toReceiver), UNCHANGED <<link, sending, byKey, byId, onScreen>>,
         \/ m.type = "chunk" /\ GetChunk(byKey[<<m.t, m.n>>], m.at)
         \/ m.type = "pause" /\ SetPaused(byId[m.t], "transferring", "paused") /\ UNCHANGED toSender
         \/ m.type = "resume" /\ SetPaused(byId[m.t], "paused", "transferring") /\ UNCHANGED toSender
         \/ m.type = "cancel" /\ StopReceivers({byId[m.t]}, {}) /\ UNCHANGED toSender
         \/ m.type = "cancel-all" /\ StopReceivers(Receivers, {}) /\ UNCHANGED toSender
  PROVE  IInv'
<1>1. UNCHANGED <<sessions, open, tries, snd>> /\ m.type # "offer"
  BY DEF link, sending
<1>2. Routed(1, m)
  <2>1. toReceiver \in Seq(Messages)
    BY DEF IInv, Typed
  <2>2. 1 \in DOMAIN toReceiver /\ m = toReceiver[1]
    BY <2>1, TailFacts
  <2> QED BY <2>2 DEF IInv, RouteInv
<1>3. ReceiverStep
  <2>1. CASE m.type = "chunk" /\ GetChunk(byKey[<<m.t, m.n>>], m.at)
    <3> PICK k : k = <<m.t, m.n>>
      OBVIOUS
    <3>1. k \in Attempt /\ OfferedBefore(1, k)
      BY <1>2, <2>1 DEF Routed
    <3>2. byKey[k] # None
      BY <3>1 DEF OfferedBefore
    <3>3. byKey[k] \in Attempt
      BY <3>1, <3>2, ByIdFacts
    <3> QED BY <2>1, <3>3, ChunkKeeps
  <2>2. CASE m.type \in {"pause", "resume", "cancel"} /\ UNCHANGED toSender
    <3>1. m.t \in Transfer /\ TransferBefore(1, m.t)
      BY <1>2, <2>2 DEF Routed
    <3>2. byId[m.t] # None
      BY <3>1 DEF TransferBefore
    <3> PICK o \in Attempt : o = byId[m.t]
      BY <3>1, <3>2, ByIdFacts
    <3>3. CASE m.type = "pause"
      BY <2>2, <3>3, SetPausedKeeps
    <3>4. CASE m.type = "resume"
      BY <2>2, <3>4, SetPausedKeeps
    <3>5. CASE m.type = "cancel"
      <4> DEFINE K == {o}
                 X == {}
      <4>1. K \in SUBSET Attempt /\ X \in SUBSET Transfer /\ StopReceivers(K, X)
        BY <2>2, <3>5
      <4> HIDE DEF K, X
      <4> QED BY <2>2, <4>1, StopStep
    <3> QED BY <2>2, <3>3, <3>4, <3>5
  <2>3. CASE m.type = "cancel-all" /\ StopReceivers(Receivers, {}) /\ UNCHANGED toSender
    <3> DEFINE K == Receivers
               X == {}
    <3>1. K \in SUBSET Attempt /\ X \in SUBSET Transfer /\ StopReceivers(K, X)
      BY <2>3, ByIdFacts
    <3> HIDE DEF K, X
    <3> QED BY <2>3, <3>1, StopStep
  <2> QED BY <2>1, <2>2, <2>3
<1>4. toReceiver' \in Seq(Messages) /\ RouteInv' /\ OrderInv'
  <2>1. /\ \A k \in Attempt : byKey[k] # None => byKey'[k] # None
        /\ \A t \in Transfer : byId[t] # None => byId'[t] # None
        /\ m.type = "offer" => byKey'[<<m.t, m.n>>] # None /\ byId'[m.t] # None
        /\ \A k \in Attempt : byKey'[k] # None => byKey[k] # None \/ (m.type = "offer" /\ k = <<m.t, m.n>>)
    BY <1>1
  <2> QED BY <1>1, <2>1, TailRouted DEF IInv
<1>5. onScreen' \in SUBSET Transfer
  BY DEF IInv, Typed
<1> QED BY <1>3, <1>4, <1>5, ReceiverMoveKeeps DEF ReceiverStep

\* A step of the receiving side leaves the list of the sending side alone.
LEMMA SendingKept ==
  ASSUME IInv, UNCHANGED <<link, sending>>, saved \subseteq saved'
  PROVE  /\ sessions' \in 0..MaxSessions /\ session' \in [Side -> Nat] /\ open' \in [Side -> BOOLEAN]
         /\ tries' \in [Transfer -> 0..MaxAttempts] /\ snd' \in [Attempt -> SenderState] /\ ListTyped'
         /\ LinkInv' /\ ObjectInv' /\ LatestInv' /\ ReportInv' /\ ShownInv' /\ SavedInv'
<1>1. UNCHANGED <<sessions, session, open, tries, snd, sEntry, reported, reports>>
  BY DEF link, sending, lists
<1>2. ListTyped'
  BY <1>1 DEF IInv, Typed, ListTyped
<1>3. LinkInv' /\ ObjectInv' /\ LatestInv'
  BY <1>1 DEF IInv, LinkInv, ObjectInv, LatestInv, Newest
<1>4. ReportInv'
  BY <1>1 DEF IInv, ReportInv, Newest
<1>5. ShownInv'
  BY <1>1 DEF IInv, ShownInv, Newest, Strayed
<1>6. SavedInv'
  BY <1>1 DEF IInv, SavedInv
<1> QED BY <1>1, <1>2, <1>3, <1>4, <1>5, <1>6 DEF IInv, Typed

\* The receiver a retry re-arms, and a new one.
Rearmed(q) == [q EXCEPT !.status = "pending", !.expected = q.got]
Fresh(n, b) == [NewReceiver(n) EXCEPT !.missed = b]

LEMMA OfferedTyped ==
  /\ \A q \in ReceiverState : Rearmed(q) \in ReceiverState /\ Rearmed(q).session = q.session
  /\ \A n \in Nat, b \in BOOLEAN : Fresh(n, b) \in ReceiverState /\ Fresh(n, b).session = n
<1>1. ASSUME NEW q \in ReceiverState
      PROVE  Rearmed(q) \in ReceiverState /\ Rearmed(q).session = q.session
  <2> PICK g \in Nat : g = q.got
    BY DEF ReceiverState
  <2>1. [q EXCEPT !.status = "pending", !.expected = g] \in ReceiverState
        /\ [q EXCEPT !.status = "pending", !.expected = g].session = q.session
    BY EntryFacts DEF ReceiverState
  <2> QED BY <2>1 DEF Rearmed
<1>2. ASSUME NEW n \in Nat, NEW b \in BOOLEAN
      PROVE  Fresh(n, b) \in ReceiverState /\ Fresh(n, b).session = n
  <2> PICK q \in ReceiverState : q = NewReceiver(n) /\ q.session = n
    BY NewSenderTyped DEF NewReceiver
  <2>1. [q EXCEPT !.missed = b] \in ReceiverState /\ [q EXCEPT !.missed = b].session = n
    BY DEF ReceiverState
  <2> QED BY <2>1 DEF Fresh
<1> QED BY <1>1, <1>2

\* An offer makes a receiver or re-arms the one that failed.
LEMMA OfferTakenKeeps ==
  ASSUME IInv, NEW k \in Attempt, NEW m \in Messages, m = Head(toReceiver), toReceiver # <<>>,
         toReceiver' = Tail(toReceiver), m.type = "offer", k = <<m.t, m.n>>,
         open["receiver"], GetOffer(k), UNCHANGED <<link, sending>>
  PROVE  IInv'
<1> USE DEF IInv
<1> PICK t \in Transfer : t = k[1]
  BY AttemptFacts
<1>1. UNCHANGED <<sessions, session, open, tries, snd, saved, toSender>>
  BY DEF link, sending, GetOffer
<1>2. toReceiver \in Seq(Messages) /\ 1 \in DOMAIN toReceiver /\ m = toReceiver[1] /\ m.t = t /\ m.n = k[2]
  <2>1. toReceiver \in Seq(Messages)
    BY DEF Typed
  <2> QED BY <2>1, TailFacts
<1>3. k[2] <= tries[t] /\ snd[k].session = sessions
  BY <1>2 DEF RouteInv, Routed
<1>4. tries[t] \in Nat /\ tries[t] > 0 /\ Newest(t) \in Attempt /\ Newest(t)[1] = t /\ Newest(t)[2] = tries[t]
      /\ Newest(t)' = Newest(t) /\ k[2] \in 1..tries[t]
  <2>1. k[2] \in 1..MaxAttempts /\ tries[t] \in Nat
    BY AttemptFacts, NewestFacts
  <2> QED BY <2>1, <1>1, <1>3, NewestFacts DEF Newest
<1>5. session["receiver"] = sessions /\ sessions > 0 /\ sessions \in Nat
  BY RegistryAssumption DEF LinkInv, Side, Typed
<1>6. snd[Newest(t)].session = sessions
  <2>1. snd[Newest(t)].session \in 1..sessions /\ snd[k].session <= snd[Newest(t)].session
    BY <1>3, <1>4 DEF ObjectInv, LatestInv
  <2> QED BY <2>1, <1>3, <1>5
<1>7. PICK o \in Attempt, r \in ReceiverState :
        /\ o[1] = t /\ o[2] <= k[2]
        /\ r.session # 0 /\ r.session <= sessions
        /\ rcv' = [rcv EXCEPT ![o] = r] /\ byKey' = [byKey EXCEPT ![k] = o] /\ byId' = [byId EXCEPT ![t] = o]
  <2>1. CASE byId[t] # None /\ rcv[byId[t]].status = "failed"
    <3> PICK o \in Attempt : o = byId[t] /\ o[1] = t /\ rcv[o].session # 0
      BY <2>1, ByIdFacts
    <3> PICK q \in ReceiverState : q = rcv[o]
      BY DEF Typed, ReceiverTyped
    <3>1. PICK r \in ReceiverState : r.session = q.session /\ r = Rearmed(q)
      BY OfferedTyped
    <3>2. o[2] <= k[2]
      <4>1. PICK n \in 1..tries[t] : byKey[<<t, n>>] = o
        BY <2>1 DEF ReceiverInv
      <4>2. <<t, n>> \in Attempt /\ <<t, n>>[1] = t /\ <<t, n>>[2] = n
        BY NewestFacts, AttemptFacts, RegistryAssumption
      <4>3. o[2] <= n
        BY <2>1, <4>1, <4>2 DEF ReceiverInv
      <4>4. n < k[2]
        BY <1>2, <2>1, <4>1, <4>2 DEF OrderInv
      <4> QED BY <4>3, <4>4, <1>4, AttemptFacts
    <3>3. rcv' = [rcv EXCEPT ![o] = r] /\ byKey' = [byKey EXCEPT ![k] = o] /\ byId' = [byId EXCEPT ![t] = o]
      BY <2>1, <3>1 DEF GetOffer, Rearmed
    <3>4. q.session <= sessions
      BY DEF ReceiverInv
    <3>5. r.session # 0 /\ r.session <= sessions
      BY <3>1, <3>4
    <3> QED BY <3>2, <3>3, <3>5
  <2>2. CASE ~(byId[t] # None /\ rcv[byId[t]].status = "failed")
    <3> PICK b \in BOOLEAN : b = Missed(k)
      BY DEF Missed
    <3>1. PICK r \in ReceiverState : r.session = sessions /\ r = Fresh(sessions, b)
      BY <1>5, OfferedTyped
    <3>2. rcv' = [rcv EXCEPT ![k] = r] /\ byKey' = [byKey EXCEPT ![k] = k] /\ byId' = [byId EXCEPT ![t] = k]
      BY <2>2, <3>1, <1>5 DEF GetOffer, Fresh
    <3>3. k[2] <= k[2] /\ r.session # 0 /\ r.session <= sessions
      BY <3>1, <1>5, AttemptFacts
    <3> WITNESS k \in Attempt, r \in ReceiverState
    <3> QED BY <3>2, <3>3
  <2> QED BY <2>1, <2>2
<1>8. /\ rcv' \in [Attempt -> ReceiverState] /\ \A j \in Attempt : rcv'[j] = IF j = o THEN r ELSE rcv[j]
      /\ byKey' \in [Attempt -> Attempt \cup {None}] /\ \A j \in Attempt : byKey'[j] = IF j = k THEN o ELSE byKey[j]
      /\ byId' \in [Transfer -> Attempt \cup {None}] /\ \A u \in Transfer : byId'[u] = IF u = t THEN o ELSE byId[u]
  BY <1>7 DEF Typed, ReceiverTyped
<1>9. o # None
  BY AttemptFacts
<1>10. toReceiver' \in Seq(Messages) /\ RouteInv' /\ OrderInv'
  <2>1. /\ \A j \in Attempt : byKey[j] # None => byKey'[j] # None
        /\ \A u \in Transfer : byId[u] # None => byId'[u] # None
        /\ m.type = "offer" => byKey'[<<m.t, m.n>>] # None /\ byId'[m.t] # None
        /\ \A j \in Attempt : byKey'[j] # None => byKey[j] # None \/ (m.type = "offer" /\ j = <<m.t, m.n>>)
    BY <1>2, <1>8, <1>9
  <2> QED BY <1>1, <2>1, TailRouted
<1>11. rEntry' \in [Transfer -> Entry] /\ onScreen' \in SUBSET Transfer
  BY EntryFacts DEF GetOffer, RegisterReceive, Typed, ReceiverTyped, Entry
<1>12. toSender' \in Seq(Messages) /\ ReplyInv'
  BY <1>1, SilentReply
<1>13. ReceiverInv'
  <2>1. ASSUME NEW j \in Attempt, rcv'[j].session # 0
        PROVE  /\ j[2] <= tries[j[1]]
               /\ rcv'[j].session <= snd[Newest(j[1])].session /\ rcv'[j].session <= sessions
    <3>1. CASE j = o
      <4>1. o[2] \in Nat /\ k[2] \in Nat
        BY AttemptFacts
      <4> QED BY <3>1, <4>1, <1>3, <1>4, <1>6, <1>7, <1>8
    <3>2. CASE j # o
      BY <2>1, <3>2, <1>8 DEF ReceiverInv
    <3> QED BY <3>1, <3>2
  <2>2. ASSUME NEW j \in Attempt, byKey'[j] # None
        PROVE  /\ j[2] <= tries[j[1]] /\ byKey'[j][1] = j[1] /\ byKey'[j][2] <= j[2]
               /\ byId'[j[1]] # None /\ rcv'[byKey'[j]].session # 0
    <3>1. CASE j = k
      BY <3>1, <1>3, <1>7, <1>8, <1>9
    <3>2. CASE j # k
      <4>1. byKey[j] # None /\ byKey[j] \in Attempt /\ j[1] \in Transfer
        BY <2>2, <3>2, <1>8, AttemptFacts DEF Typed
      <4>2. byId'[j[1]] # None
        BY <4>1, <1>8, <1>9 DEF ReceiverInv
      <4>3. rcv'[byKey[j]].session # 0
        BY <4>1, <1>7, <1>8 DEF ReceiverInv
      <4> QED BY <3>2, <4>1, <4>2, <4>3, <1>8 DEF ReceiverInv
    <3> QED BY <3>1, <3>2
  <2>3. ASSUME NEW u \in Transfer, byId'[u] # None PROVE \E n \in 1..tries[u] : byKey'[<<u, n>>] = byId'[u]
    <3>1. CASE u = t
      <4>1. k = <<t, k[2]>> /\ byKey'[<<t, k[2]>>] = byId'[t]
        BY <1>8, AttemptFacts
      <4> QED BY <3>1, <4>1, <1>4
    <3>2. CASE u # t
      <4>1. PICK n \in 1..tries[u] : byKey[<<u, n>>] = byId[u]
        BY <2>3, <3>2, <1>8 DEF ReceiverInv
      <4>2. <<u, n>> \in Attempt /\ <<u, n>> # k
        BY <3>2, NewestFacts, AttemptFacts, RegistryAssumption
      <4> QED BY <3>2, <4>1, <4>2, <1>8
    <3> QED BY <3>1, <3>2
  <2>4. \A j \in Attempt : Newest(j[1])' = Newest(j[1])
    BY <1>1 DEF Newest
  <2> QED BY <1>1, <2>1, <2>2, <2>3, <2>4 DEF ReceiverInv
<1>14. Typed'
  <2>1. ReceiverTyped'
    BY <1>1, <1>8, <1>11 DEF Typed, ReceiverTyped
  <2> QED BY <2>1, <1>1, <1>8, <1>10, <1>11, <1>12, SendingKept DEF Typed
<1> QED BY <1>1, <1>10, <1>12, <1>13, <1>14, SendingKept

LEMMA TakesKeep == ASSUME IInv, ReceiverGets PROVE IInv'
<1>1. UNCHANGED <<link, sending>> /\ open["receiver"] /\ toReceiver # <<>> /\ toReceiver' = Tail(toReceiver)
  BY DEF ReceiverGets
<1>2. toReceiver \in Seq(Messages) /\ Head(toReceiver) \in Messages /\ 1 \in DOMAIN toReceiver /\ Head(toReceiver) = toReceiver[1]
  <2>1. toReceiver \in Seq(Messages)
    BY DEF IInv, Typed
  <2> QED BY <2>1, <1>1, TailFacts
<1> PICK m \in Messages : m = Head(toReceiver)
  BY <1>2
<1>3. CASE m.type = "offer" /\ GetOffer(<<m.t, m.n>>)
  <2> PICK k : k = <<m.t, m.n>>
    OBVIOUS
  <2>1. k \in Attempt
    BY <1>2, <1>3 DEF IInv, RouteInv, Routed
  <2> QED BY <1>1, <1>3, <2>1, OfferTakenKeeps
<1>4. CASE /\ \/ m.type = "chunk" /\ GetChunk(byKey[<<m.t, m.n>>], m.at)
              \/ m.type = "pause" /\ SetPaused(byId[m.t], "transferring", "paused") /\ UNCHANGED toSender
              \/ m.type = "resume" /\ SetPaused(byId[m.t], "paused", "transferring") /\ UNCHANGED toSender
              \/ m.type = "cancel" /\ StopReceivers({byId[m.t]}, {}) /\ UNCHANGED toSender
              \/ m.type = "cancel-all" /\ StopReceivers(Receivers, {}) /\ UNCHANGED toSender
           /\ UNCHANGED <<byKey, byId, onScreen>>
  BY <1>1, <1>4, TakenKeeps
<1> QED BY <1>3, <1>4 DEF ReceiverGets

-----------------------------------------------------------------------------
(* The receiving user, the save dialog and the disk.                       *)

\* What accept() makes of a receiver, and what it says.
Begins(o, r, p, ms) ==
  /\ p = Begun(FileSize[o[1]], [r EXCEPT !.dialog = FALSE, !.late = @ \/ r.status \in Over])
  /\ ms = IF p.status = "completed"
          THEN <<[Message("accept", o[1]) EXCEPT !.at = r.got], Message("complete", o[1])>>
          ELSE <<[Message("accept", o[1]) EXCEPT !.at = r.got]>>

LEMMA BegunFacts ==
  ASSUME NEW o \in Attempt, NEW r \in ReceiverState, NEW p, NEW ms, Begins(o, r, p, ms)
  PROVE  /\ p \in ReceiverState /\ p.session = r.session /\ p.missed = r.missed /\ ~p.dialog
         /\ p.late = (r.late \/ r.status \in Over) /\ p.writing = r.writing
         /\ p.status \in {"transferring", "completed", "failed"}
         /\ FileSize[o[1]] > 0 => p.status = "transferring" /\ p.stream = r.stream
         /\ ms \in Seq(Messages) /\ Len(ms) \in {1, 2}
         /\ ms[1].type = "accept" /\ ms[1].t = o[1]
         /\ Len(ms) = 2 <=> p.status = "completed"
         /\ Len(ms) = 2 => ms[2].type = "complete" /\ ms[2].t = o[1]
<1> PICK b \in BOOLEAN : b = (r.late \/ r.status \in Over)
  BY DEF ReceiverState
<1> DEFINE q == [r EXCEPT !.dialog = FALSE, !.late = b]
<1>1. /\ q \in ReceiverState /\ q.session = r.session /\ q.missed = r.missed /\ ~q.dialog
      /\ q.late = b /\ q.writing = r.writing /\ q.stream = r.stream
  BY DEF ReceiverState
<1>2. p = Begun(FileSize[o[1]], q)
  BY DEF Begins
<1> HIDE DEF q
<1>3. /\ p \in ReceiverState /\ p.session = r.session /\ p.missed = r.missed /\ ~p.dialog
      /\ p.late = b /\ p.writing = r.writing
      /\ p.status \in {"transferring", "completed", "failed"}
      /\ FileSize[o[1]] > 0 => p.status = "transferring" /\ p.stream = r.stream
  <2>1. CASE p = [q EXCEPT !.status = "transferring"]
    BY <1>1, <2>1, EntryFacts DEF ReceiverState
  <2>2. CASE p = [q EXCEPT !.status = "completed"] /\ ~(FileSize[o[1]] > 0)
    BY <1>1, <2>2, EntryFacts DEF ReceiverState
  <2>3. CASE p = [q EXCEPT !.status = "transferring", !.stream = "closing"] /\ ~(FileSize[o[1]] > 0)
    BY <1>1, <2>3, EntryFacts DEF ReceiverState, Closing
  <2>4. CASE p = [q EXCEPT !.status = "failed"] /\ ~(FileSize[o[1]] > 0)
    BY <1>1, <2>4, EntryFacts DEF ReceiverState
  <2> QED BY <1>2, <2>1, <2>2, <2>3, <2>4 DEF Begun
<1> PICK n \in Nat, t \in Transfer : n = r.got /\ t = o[1]
  BY AttemptFacts DEF ReceiverState
<1> PICK a, c : a = [Message("accept", t) EXCEPT !.at = n] /\ c = Message("complete", t)
  OBVIOUS
<1>4. a \in Messages /\ a.type = "accept" /\ a.t = t /\ c \in Messages /\ c.type = "complete" /\ c.t = t
  BY RegistryAssumption DEF Message, Messages
<1>5. ms = IF p.status = "completed" THEN <<a, c>> ELSE <<a>>
  BY DEF Begins
<1>6. /\ ms \in Seq(Messages) /\ Len(ms) \in {1, 2} /\ ms[1] = a
      /\ Len(ms) = 2 <=> p.status = "completed"
      /\ Len(ms) = 2 => ms[2] = c
  BY <1>4, <1>5
<1> QED BY <1>3, <1>4, <1>6

LEMMA AcceptedKeeps ==
  ASSUME IInv, UNCHANGED <<link, sending>>,
         NEW o \in Attempt, NEW r \in ReceiverState, r.session = rcv[o].session, Accepted(o, r)
  PROVE  ReceiverStep
<1>1. PICK p, ms : Begins(o, r, p, ms) /\ SetReceiver(o, p) /\ TellSender(o, ms)
  BY DEF Accepted, Begins
<1>2. p \in ReceiverState /\ p.session = rcv[o].session /\ ms \in Seq(Messages)
  BY <1>1, BegunFacts
<1>3. \A i \in DOMAIN ms :
        ms[i].type \in Replies /\ ms[i].t = o[1] /\ (ms[i].type = "complete" => p.status = "completed")
  <2>1. DOMAIN ms = 1..Len(ms)
    BY <1>2
  <2>2. /\ Len(ms) \in {1, 2} /\ ms[1].type = "accept" /\ ms[1].t = o[1]
        /\ Len(ms) = 2 <=> p.status = "completed"
        /\ Len(ms) = 2 => ms[2].type = "complete" /\ ms[2].t = o[1]
    BY <1>1, BegunFacts
  <2> QED BY <2>1, <2>2 DEF Replies
<1> QED BY <1>1, <1>2, <1>3, SetTellsKeeps

LEMMA RejectedKeeps ==
  ASSUME IInv, UNCHANGED <<link, sending>>,
         NEW o \in Attempt, NEW r \in ReceiverState, r.session = rcv[o].session, Rejected(o, r)
  PROVE  ReceiverStep
<1> DEFINE s == [r EXCEPT !.status = "cancelled", !.dialog = FALSE]
<1>1. s \in ReceiverState /\ s.session = r.session
  BY EntryFacts DEF ReceiverState
<1>2. SetReceiver(o, s) /\ TellSender(o, <<Message("reject", o[1])>>)
  BY DEF Rejected
<1> HIDE DEF s
<1> PICK m : m = Message("reject", o[1])
  OBVIOUS
<1>3. m \in Messages /\ m.type = "reject" /\ m.type \in Replies /\ m.t = o[1]
  BY ReplyFacts
<1> QED BY <1>1, <1>2, <1>3, SetTellKeeps

LEMMA OfferedFacts ==
  ASSUME IInv, NEW t \in Transfer, Offered(t) # None
  PROVE  Offered(t) \in Attempt /\ Offered(t)[1] = t /\ rcv[Offered(t)] \in ReceiverState
<1>1. Offered(t) = byId[t]
  BY DEF Offered
<1>2. byId[t] \in Attempt /\ byId[t][1] = t
  BY <1>1, ByIdFacts
<1> QED BY <1>1, <1>2 DEF IInv, Typed, ReceiverTyped

LEMMA AnswersKeep ==
  ASSUME IInv, UNCHANGED <<link, sending>>, NEW t \in Transfer, UserAccepts(t) \/ UserRejects(t)
  PROVE  ReceiverStep
<1>1. CASE UNCHANGED <<rcv, rEntry, saved, toSender>>
  BY <1>1, IdleKeeps
<1>2. CASE ~UNCHANGED <<rcv, rEntry, saved, toSender>>
  <2>1. Offered(t) # None
    BY <1>2 DEF UserAccepts, UserRejects
  <2> PICK o \in Attempt : o = Offered(t)
    BY <2>1, OfferedFacts
  <2> PICK r \in ReceiverState : r = rcv[o]
    BY <2>1, OfferedFacts
  <2>2. \/ PutReceiver(o, [r EXCEPT !.dialog = TRUE]) /\ UNCHANGED toSender
        \/ Accepted(o, r)
        \/ Rejected(o, r)
    BY <1>2, <2>1 DEF UserAccepts, UserRejects
  <2>3. CASE PutReceiver(o, [r EXCEPT !.dialog = TRUE]) /\ UNCHANGED toSender
    <3> DEFINE s == [r EXCEPT !.dialog = TRUE]
    <3>1. s \in ReceiverState /\ s.session = r.session
      BY DEF ReceiverState
    <3>2. PutReceiver(o, s)
      BY <2>3
    <3> HIDE DEF s
    <3>3. ReceiverKept
      BY <3>1, <3>2, PutKeeps DEF IInv
    <3> QED BY <2>3, <3>3, SilentStep
  <2> QED BY <2>2, <2>3, AcceptedKeeps, RejectedKeeps
<1> QED BY <1>1, <1>2

LEMMA DialogKeeps ==
  ASSUME IInv, UNCHANGED <<link, sending>>, NEW o \in Attempt, DialogEnds(o)
  PROVE  ReceiverStep
<1> PICK r \in ReceiverState : r = rcv[o]
  BY DEF IInv, Typed, ReceiverTyped
<1> DEFINE s == [r EXCEPT !.stream = "open"]
<1>1. s \in ReceiverState /\ s.session = r.session
  BY DEF ReceiverState
<1>2. Accepted(o, s) \/ Accepted(o, r) \/ Rejected(o, r)
  BY DEF DialogEnds
<1> HIDE DEF s
<1> QED BY <1>1, <1>2, AcceptedKeeps, RejectedKeeps

LEMMA WriteDoneKeeps ==
  ASSUME IInv, UNCHANGED <<link, sending>>, NEW o \in Attempt, WriteDone(o)
  PROVE  ReceiverStep
<1> PICK r \in ReceiverState : r = rcv[o]
  BY DEF IInv, Typed, ReceiverTyped
<1>0. r.writing \in Nat /\ r.writing > 0 /\ r.got \in Nat
  BY DEF WriteDone, ReceiverState
<1>3. r.writing - 1 \in Nat /\ r.got + 1 \in Nat
  BY <1>0
<1> PICK w \in Nat, g \in Nat : w = r.writing - 1 /\ g = r.got + 1
  BY <1>3
<1> PICK x \in {"closing", "open"} : x = IF Full(o, r) THEN "closing" ELSE "open"
  OBVIOUS
<1> DEFINE s == [r EXCEPT !.writing = w, !.got = g, !.stream = x]
<1>1. s \in ReceiverState /\ s.session = r.session
  BY DEF ReceiverState, Closing
<1>2. PutReceiver(o, s) /\ UNCHANGED toSender
  BY DEF WriteDone
<1> HIDE DEF s
<1>4. ReceiverKept
  BY <1>1, <1>2, PutKeeps DEF IInv
<1> QED BY <1>2, <1>4, SilentStep

LEMMA WriteFailsKeeps ==
  ASSUME IInv, UNCHANGED <<link, sending>>, NEW o \in Attempt, WriteFails(o)
  PROVE  ReceiverStep
<1> PICK r \in ReceiverState : r = rcv[o]
  BY DEF IInv, Typed, ReceiverTyped
<1> PICK g \in Nat : g = r.got + 1
  BY DEF ReceiverState
<1> DEFINE q == [r EXCEPT !.writing = 0]
           a == [q EXCEPT !.stream = "errored"]
           b == [q EXCEPT !.stream = "none"]
           c == [q EXCEPT !.stream = "none", !.got = g]
<1>1. /\ a \in ReceiverState /\ a.session = r.session /\ b \in ReceiverState /\ b.session = r.session
      /\ c \in ReceiverState /\ c.session = r.session /\ q.got = r.got
  BY DEF ReceiverState
<1>2. c = [q EXCEPT !.stream = "none", !.got = @ + 1]
  BY <1>1 DEF ReceiverState
<1>3. FailReceiver(o, a) \/ FailReceiver(o, b) \/ FailReceiver(o, c) \/ PutReceiver(o, c)
  BY <1>2 DEF WriteFails
<1> HIDE DEF q, a, b, c
<1>4. ReceiverKept
  BY <1>1, <1>3, FailReceiverKeeps, PutKeeps DEF IInv
<1>5. UNCHANGED toSender
  BY DEF WriteFails
<1> QED BY <1>4, <1>5, SilentStep

LEMMA CloseDoneKeeps ==
  ASSUME IInv, UNCHANGED <<link, sending>>, NEW o \in Attempt, CloseDone(o)
  PROVE  ReceiverStep
<1> PICK r \in ReceiverState : r = rcv[o]
  BY DEF IInv, Typed, ReceiverTyped
<1> PICK g \in Nat, w \in Nat : g = r.got + r.writing /\ w = r.writing + 1
  BY DEF ReceiverState
<1> PICK m : m = Message("complete", o[1])
  OBVIOUS
<1> DEFINE s == [r EXCEPT !.stream = "none", !.status = "completed", !.got = g, !.writing = 0]
           ms == [i \in 1..w |-> m]
<1>1. s \in ReceiverState /\ s.session = r.session /\ s.status = "completed"
  BY EntryFacts DEF ReceiverState
<1>2. SetReceiver(o, s) /\ TellSender(o, ms)
  BY DEF CloseDone
<1>3. m \in Messages /\ m.type \in Replies /\ m.t = o[1]
  BY ReplyFacts
<1>4. ms \in Seq(Messages) /\ \A i \in DOMAIN ms : ms[i] = m
  BY <1>3
<1> HIDE DEF s, ms
<1> QED BY <1>1, <1>2, <1>3, <1>4, SetTellsKeeps

LEMMA CloseFailsKeeps ==
  ASSUME IInv, UNCHANGED <<link, sending>>, NEW o \in Attempt, CloseFails(o)
  PROVE  ReceiverStep
<1> PICK r \in ReceiverState : r = rcv[o]
  BY DEF IInv, Typed, ReceiverTyped
<1> PICK x \in {"errored", "none"} : x = IF r.stream = "closing" THEN "errored" ELSE "none"
  OBVIOUS
<1> DEFINE s == [r EXCEPT !.stream = x, !.writing = 0]
<1>1. s \in ReceiverState /\ s.session = r.session
  BY DEF ReceiverState
<1>2. FailReceiver(o, s) /\ UNCHANGED toSender
  BY DEF CloseFails
<1> HIDE DEF s
<1>3. ReceiverKept
  BY <1>1, <1>2, FailReceiverKeeps DEF IInv
<1> QED BY <1>2, <1>3, SilentStep

LEMMA ReceiverPausesKeeps ==
  ASSUME IInv, UNCHANGED <<link, sending>>, NEW t \in Transfer, ReceiverPauses(t)
  PROVE  ReceiverStep
<1>1. Offered(t) # None
  BY DEF ReceiverPauses
<1> PICK o \in Attempt : o = Offered(t) /\ o[1] = t
  BY <1>1, OfferedFacts
<1> PICK r \in ReceiverState : r = rcv[o]
  BY <1>1, OfferedFacts
<1>2. ASSUME NEW st \in {"paused", "transferring"}, NEW type \in {"pause", "resume"},
             SetReceiver(o, [r EXCEPT !.status = st]), TellSender(o, <<Message(type, t)>>)
      PROVE  ReceiverStep
  <2> DEFINE s == [r EXCEPT !.status = st]
  <2>1. s \in ReceiverState /\ s.session = r.session
    BY EntryFacts DEF ReceiverState
  <2>2. SetReceiver(o, s)
    BY <1>2
  <2> HIDE DEF s
  <2> PICK m : m = Message(type, o[1])
    OBVIOUS
  <2>3. m \in Messages /\ m.type = type /\ m.type \in Replies /\ m.t = o[1]
    BY ReplyFacts
  <2>4. TellSender(o, <<m>>) /\ m.type # "complete"
    BY <1>2, <2>3
  <2> QED BY <2>1, <2>2, <2>3, <2>4, SetTellKeeps
<1> QED BY <1>2 DEF ReceiverPauses

LEMMA ReceiverCancelsKeeps ==
  ASSUME IInv, UNCHANGED <<link, sending>>, NEW t \in Transfer, ReceiverCancels(t)
  PROVE  ReceiverStep
<1>1. CASE Offered(t) = None
  <2>1. rEntry' = [rEntry EXCEPT ![t] = "cancelled"] /\ UNCHANGED <<rcv, saved, toSender>>
    BY <1>1 DEF ReceiverCancels
  <2>2. rEntry' \in [Transfer -> Entry]
    BY <2>1, EntryFacts DEF IInv, Typed, ReceiverTyped, Entry
  <2>3. ReceiverKept
    BY <2>1, <2>2 DEF IInv, Typed, ReceiverTyped, ReceiverKept
  <2> QED BY <2>1, <2>3, SilentStep
<1>2. CASE Offered(t) # None
  <2> PICK o \in Attempt : o = Offered(t) /\ o[1] = t
    BY <1>2, OfferedFacts
  <2> DEFINE K == {o}
             X == {}
  <2>1. K \in SUBSET Attempt /\ X \in SUBSET Transfer /\ StopReceivers(K, X)
    BY <1>2 DEF ReceiverCancels
  <2> HIDE DEF K, X
  <2>2. ReceiverKept
    BY <2>1, StopReceiversKeeps DEF IInv
  <2>3. CASE UNCHANGED toSender
    BY <2>2, <2>3, SilentStep
  <2>4. CASE TellSender(o, <<Message("cancel", t)>>)
    <3> PICK m : m = Message("cancel", o[1])
      OBVIOUS
    <3>1. m \in Messages /\ m.type = "cancel" /\ m.type \in Replies /\ m.t = o[1]
      BY ReplyFacts
    <3>2. TellSender(o, <<m>>)
      BY <2>4
    <3>3. toSender' \in Seq(Messages) /\ ReplyInv'
      BY <2>2, <3>1, <3>2, TellSenderKeeps DEF ReceiverKept
    <3> QED BY <2>2, <3>3 DEF ReceiverStep
  <2> QED BY <1>2, <2>3, <2>4 DEF ReceiverCancels
<1> QED BY <1>1, <1>2

LEMMA ReceiverCancelsAllKeeps ==
  ASSUME IInv, UNCHANGED <<link, sending>>, ReceiverCancelsAll
  PROVE  ReceiverStep
<1> DEFINE K == IF session["receiver"] # 0 THEN Receivers ELSE {}
           X == Cancellable(rEntry)
<1>1. K \in SUBSET Attempt /\ X \in SUBSET Transfer /\ StopReceivers(K, X)
  BY ByIdFacts DEF ReceiverCancelsAll, Cancellable
<1> HIDE DEF K, X
<1>2. ReceiverKept
  BY <1>1, StopReceiversKeeps DEF IInv
<1>3. UNCHANGED <<sessions, tries, snd>> /\ saved \subseteq saved'
  BY <1>2 DEF link, sending, ReceiverKept
<1>4. CASE Linked
  <2> PICK m : m = Message("cancel-all", None)
    OBVIOUS
  <2>1. m \in Messages /\ Valid(m)' /\ toSender' = Append(toSender, m)
    BY <1>4, MessageFacts DEF ReceiverCancelsAll, Valid
  <2> QED BY <1>2, <1>3, <2>1, AppendReply DEF IInv, ReceiverStep
<1>5. CASE ~Linked
  <2>1. UNCHANGED toSender
    BY <1>5 DEF ReceiverCancelsAll
  <2> QED BY <1>2, <2>1, SilentStep
<1> QED BY <1>4, <1>5

LEMMA ReceivingKeeps == ASSUME IInv, ReceivingSide PROVE IInv'
<1>1. UNCHANGED <<link, toReceiver, sending, byKey, byId>>
  BY DEF ReceivingSide
<1>2. ReceiverStep /\ onScreen' \in SUBSET Transfer
  <2>1. onScreen \in SUBSET Transfer
    BY DEF IInv, Typed
  <2>2. CASE UserAnswers
    <3>1. PICK t \in Transfer : onScreen' = onScreen \ {t} /\ (UserAccepts(t) \/ UserRejects(t))
      BY <2>1, <2>2 DEF UserAnswers
    <3>2. ReceiverStep
      BY <1>1, <3>1, AnswersKeep
    <3> QED BY <2>1, <3>1, <3>2
  <2>3. ASSUME NEW o \in Attempt,
               DialogEnds(o) \/ WriteDone(o) \/ WriteFails(o) \/ CloseDone(o) \/ CloseFails(o)
        PROVE  ReceiverStep
    BY <1>1, <2>3, DialogKeeps, WriteDoneKeeps, WriteFailsKeeps, CloseDoneKeeps, CloseFailsKeeps
  <2>4. ASSUME NEW t \in Transfer, ReceiverPauses(t) \/ ReceiverCancels(t) PROVE ReceiverStep
    BY <1>1, <2>4, ReceiverPausesKeeps, ReceiverCancelsKeeps
  <2>5. ASSUME ReceiverCancelsAll PROVE ReceiverStep
    BY <1>1, <2>5, ReceiverCancelsAllKeeps
  <2> QED BY <2>1, <2>2, <2>3, <2>4, <2>5 DEF ReceivingSide
<1>3. toReceiver' \in Seq(Messages) /\ RouteInv' /\ OrderInv'
  <2>1. UNCHANGED <<sessions, open, tries, byKey, byId, toReceiver>> /\ snd' = snd
    BY <1>1 DEF link, sending
  <2>2. \A k \in Attempt : snd'[k].session = snd[k].session
    BY <2>1
  <2> QED BY <2>1, <2>2, QuietRoute DEF IInv
<1> QED BY <1>1, <1>2, <1>3, ReceiverMoveKeeps DEF ReceiverStep

-----------------------------------------------------------------------------
(* The sessions.                                                           *)

LEMMA LinkUpKeeps == ASSUME IInv, LinkUp PROVE IInv'
<1> USE DEF IInv
<1>1. /\ sessions \in Nat /\ sessions < MaxSessions /\ MaxSessions \in Nat
      /\ \A d \in Side : session[d] = 0
      /\ sessions' = sessions + 1 /\ session' = [d \in Side |-> sessions + 1] /\ open' = [d \in Side |-> TRUE]
      /\ toReceiver' = <<>> /\ toSender' = <<>>
      /\ byKey' = [k \in Attempt |-> None] /\ byId' = [t \in Transfer |-> None]
      /\ UNCHANGED <<tries, snd, rcv, onScreen, rEntry, saved>>
      /\ UNCHANGED <<sEntry, reported, reports>>
  BY RegistryAssumption DEF LinkUp, sending, lists, Typed
<1>2. ListTyped' /\ ReceiverTyped'
  BY <1>1 DEF Typed, ListTyped, ReceiverTyped
<1>3. Typed'
  <2>1. sessions' \in 0..MaxSessions /\ session' \in [Side -> Nat] /\ open' \in [Side -> BOOLEAN]
    BY <1>1
  <2>2. byKey' \in [Attempt -> Attempt \cup {None}] /\ byId' \in [Transfer -> Attempt \cup {None}]
    BY <1>1
  <2>3. toReceiver' \in Seq(Messages) /\ toSender' \in Seq(Messages)
    BY <1>1
  <2> QED BY <1>1, <1>2, <2>1, <2>2, <2>3 DEF Typed
<1>4. LinkInv'
  BY <1>1 DEF LinkInv
<1>5. ObjectInv'
  <2> SUFFICES ASSUME NEW k \in Attempt
               PROVE  /\ IF k[2] <= tries[k[1]] THEN snd[k].session \in 1..(sessions + 1)
                         ELSE /\ snd[k].session = 0 /\ snd[k].queued = 0 /\ snd[k].run = "idle" /\ ~snd[k].stray
                              /\ snd[k].status = "pending"
                      /\ snd[k].status = "failed" => snd[k].cancelled
    BY <1>1 DEF ObjectInv
  <2>1. \A n \in 1..sessions : n \in 1..(sessions + 1)
    BY <1>1
  <2> QED BY <2>1 DEF ObjectInv
<1>6. ReportInv' /\ LatestInv' /\ SavedInv'
  BY <1>1 DEF ReportInv, LatestInv, SavedInv, Newest
<1>7. ShownInv'
  <2> SUFFICES ASSUME NEW t \in Transfer, tries[t] > 0, ~Strayed(t)
               PROVE  /\ \/ sEntry[t] = snd[Newest(t)].status
                         \/ sEntry[t] = "failed" /\ \E n \in 1..(tries[t] - 1) : snd[<<t, n>>].status = "failed"
                      /\ sEntry[t] \notin Active
    BY <1>1 DEF ShownInv, Newest, Strayed
  <2> QED BY <1>1 DEF ShownInv, Side
<1>8. ReplyInv' /\ OrderInv'
  BY <1>1 DEF ReplyInv, OrderInv
<1>9. RouteInv'
  <2>1. \A k \in Attempt : snd[k].session # sessions + 1
    BY <1>1 DEF ObjectInv
  <2> QED BY <1>1, <2>1 DEF RouteInv
<1>10. ReceiverInv'
  <2>1. ASSUME NEW o \in Attempt, rcv[o].session # 0
        PROVE  /\ o[2] <= tries[o[1]]
               /\ rcv[o].session <= snd[Newest(o[1])].session /\ rcv[o].session <= sessions + 1
    <3>1. rcv[o].session \in Nat /\ rcv[o].session <= sessions
      BY <2>1 DEF ReceiverInv, Typed, ReceiverTyped, ReceiverState
    <3> QED BY <1>1, <2>1, <3>1 DEF ReceiverInv
  <2> QED BY <1>1, <2>1 DEF ReceiverInv, Newest
<1> QED BY <1>3, <1>4, <1>5, <1>6, <1>7, <1>8, <1>9, <1>10

\* What a side had not received is lost, and nothing is said on a closed channel.
LEMMA LosesKeeps ==
  ASSUME IInv, NEW d \in Side, Loses(d), UNCHANGED <<sessions, tries, byKey, byId, saved>>,
         \A k \in Attempt : snd'[k].session = snd[k].session
  PROVE  /\ open' \in [Side -> BOOLEAN] /\ ~open'[d] /\ \A e \in Side : open'[e] => open[e]
         /\ toReceiver' \in Seq(Messages) /\ toSender' \in Seq(Messages)
         /\ ReplyInv' /\ RouteInv' /\ OrderInv'
<1> USE DEF IInv
<1>1. open' \in [Side -> BOOLEAN] /\ ~open'[d] /\ \A e \in Side : open'[e] => open[e]
  BY DEF Loses, Typed
<1>2. ~Linked'
  BY <1>1 DEF Linked, Side
<1>3. toReceiver' \in {<<>>, toReceiver} /\ toSender' \in {<<>>, toSender}
  BY DEF Loses
<1>4. toReceiver' \in Seq(Messages) /\ toSender' \in Seq(Messages)
  <2>1. <<>> \in Seq(Messages)
    OBVIOUS
  <2>2. toReceiver \in Seq(Messages) /\ toSender \in Seq(Messages)
    BY DEF Typed
  <2> HIDE DEF IInv
  <2> QED BY <1>3, <2>1, <2>2
<1>5. ASSUME NEW m, Valid(m) PROVE Valid(m)'
  <2>1. \A t \in Transfer : tries[t] > 0 => Newest(t) \in Attempt /\ Newest(t)' = Newest(t)
    BY NewestFacts DEF Newest
  <2> QED BY <1>5, <2>1 DEF Valid
<1>6. ReplyInv'
  <2>1. CASE toSender' = <<>>
    BY <2>1 DEF ReplyInv
  <2>2. CASE toSender' = toSender
    <3> SUFFICES ASSUME NEW i \in DOMAIN toSender PROVE Valid(toSender[i])'
      BY <2>2 DEF ReplyInv
    <3>1. PICK m : m = toSender[i] /\ Valid(m)
      BY DEF ReplyInv
    <3>2. Valid(m)' /\ m = toSender'[i]
      BY <1>5, <2>2, <3>1
    <3> QED BY <3>2 DEF Valid
  <2> QED BY <1>3, <2>1, <2>2
<1>7. RouteInv' /\ OrderInv'
  <2>1. CASE toReceiver' = <<>>
    BY <1>2, <2>1 DEF RouteInv, OrderInv
  <2>2. CASE toReceiver' = toReceiver
    <3>1. OrderInv'
      BY <2>2 DEF OrderInv
    <3>2. ASSUME NEW i, NEW m, Routed(i, m) PROVE Routed(i, m)'
      BY <2>2, <3>2 DEF Routed, OfferedBefore, TransferBefore
    <3>3. ASSUME NEW i \in DOMAIN toReceiver PROVE Routed(i, toReceiver[i])'
      <4>1. PICK m : m = toReceiver[i] /\ Routed(i, m)
        BY DEF RouteInv
      <4>2. Routed(i, m)' /\ m = toReceiver'[i]
        BY <2>2, <3>2, <4>1
      <4> QED BY <4>2 DEF Routed, OfferedBefore, TransferBefore
    <3> QED BY <1>2, <2>2, <3>1, <3>3 DEF RouteInv
  <2> QED BY <1>3, <2>1, <2>2
<1> QED BY <1>1, <1>4, <1>6, <1>7

\* The channel closes, or the receiving side gives up its session.
LEMMA ReceiverLossKeeps ==
  ASSUME IInv, NEW d \in Side, Loses(d), ReceiverKept,
         UNCHANGED <<sessions, sending, byKey, byId, onScreen, saved>>,
         session' = session \/ (d = "receiver" /\ session' = [session EXCEPT !["receiver"] = 0])
  PROVE  IInv'
<1> USE DEF IInv
<1>1. /\ UNCHANGED <<sessions, tries, snd, byKey, byId, onScreen, saved>>
      /\ UNCHANGED <<sEntry, reported, reports>>
  BY DEF sending, lists
<1>2. /\ open' \in [Side -> BOOLEAN] /\ ~open'[d] /\ \A e \in Side : open'[e] => open[e]
      /\ toReceiver' \in Seq(Messages) /\ toSender' \in Seq(Messages)
      /\ ReplyInv' /\ RouteInv' /\ OrderInv'
  <2>1. \A k \in Attempt : snd'[k].session = snd[k].session
    BY <1>1
  <2> QED BY <1>1, <2>1, LosesKeeps
<1>3. session' \in [Side -> Nat] /\ session'["sender"] = session["sender"]
      /\ \A e \in Side : session'[e] \in {0, session[e]} /\ (e # d => session'[e] = session[e])
  BY DEF Typed, Side
<1>4. LinkInv'
  BY <1>1, <1>2, <1>3 DEF LinkInv, Side
<1>5. ListTyped'
  BY <1>1 DEF Typed, ListTyped
<1>6. Typed'
  BY <1>1, <1>2, <1>3, <1>5 DEF Typed, ReceiverKept
<1>7. ObjectInv' /\ LatestInv' /\ ReportInv' /\ SavedInv'
  BY <1>1 DEF ObjectInv, LatestInv, ReportInv, SavedInv, Newest
<1>8. ShownInv'
  BY <1>1, <1>3 DEF ShownInv, Newest, Strayed
<1>9. ReceiverInv'
  <2>1. \A o \in Attempt : rcv'[o].session # 0 =>
          /\ o[2] <= tries'[o[1]]
          /\ rcv'[o].session <= snd'[Newest(o[1])'].session /\ rcv'[o].session <= sessions'
    BY <1>1 DEF ReceiverInv, ReceiverKept, Newest
  <2>2. \A k \in Attempt : byKey[k] # None => byKey[k] \in Attempt
    BY DEF Typed
  <2> QED BY <1>1, <2>1, <2>2 DEF ReceiverInv, ReceiverKept
<1> QED BY <1>2, <1>4, <1>6, <1>7, <1>8, <1>9

LEMMA ChannelLostKeeps ==
  ASSUME IInv, NEW d \in Side, ChannelLost(d) PROVE IInv'
<1>1. /\ Loses(d) /\ session' = session
      /\ UNCHANGED <<sessions, sending, byKey, byId, onScreen, saved>> /\ UNCHANGED <<rcv, rEntry, saved>>
  BY DEF ChannelLost, receiving
<1>2. ReceiverKept
  BY <1>1 DEF IInv, Typed, ReceiverTyped, ReceiverKept
<1> QED BY <1>1, <1>2, ReceiverLossKeeps

LEMMA ReceiverLosesKeeps ==
  ASSUME IInv, ReceiverLosesSession PROVE IInv'
<1> DEFINE hit == {o \in Receivers : rcv[o].status # "completed"}
           gone == {o[1] : o \in hit}
<1>1. /\ Loses("receiver") /\ session' = [session EXCEPT !["receiver"] = 0]
      /\ UNCHANGED <<sessions, sending, byKey, byId, onScreen, saved>>
      /\ rcv' = [o \in Attempt |-> IF o \in hit THEN [rcv[o] EXCEPT !.status = "failed"] ELSE rcv[o]]
      /\ rEntry' = [t \in Transfer |-> IF t \in gone THEN "failed" ELSE rEntry[t]]
  BY DEF ReceiverLosesSession, Ends
<1> HIDE DEF hit, gone
<1>2. ASSUME NEW o \in Attempt
      PROVE  [rcv[o] EXCEPT !.status = "failed"] \in ReceiverState /\ [rcv[o] EXCEPT !.status = "failed"].session = rcv[o].session
  <2> PICK r \in ReceiverState : r = rcv[o]
    BY DEF IInv, Typed, ReceiverTyped
  <2>1. [r EXCEPT !.status = "failed"] \in ReceiverState /\ [r EXCEPT !.status = "failed"].session = r.session
    BY EntryFacts DEF ReceiverState
  <2> QED BY <2>1
<1>3. \A o \in Attempt : rcv[o] \in ReceiverState
  BY DEF IInv, Typed, ReceiverTyped
<1>4. rcv' \in [Attempt -> ReceiverState] /\ \A o \in Attempt : rcv'[o].session = rcv[o].session
  BY <1>1, <1>2, <1>3
<1>5. rEntry' \in [Transfer -> Entry]
  BY <1>1, EntryFacts DEF IInv, Typed, ReceiverTyped, Entry
<1>6. ReceiverKept
  BY <1>1, <1>4, <1>5 DEF IInv, Typed, ReceiverTyped, ReceiverKept
<1> QED BY <1>1, <1>6, ReceiverLossKeeps DEF Side

LEMMA SenderLosesKeeps ==
  ASSUME IInv, SenderLosesSession PROVE IInv'
<1> USE DEF IInv
<1>1. /\ Loses("sender") /\ session' = [session EXCEPT !["sender"] = 0]
      /\ StopSenders(Senders, "failed", {})
      /\ UNCHANGED <<sessions, tries, rcv, byKey, byId, onScreen, rEntry, saved>>
  BY DEF SenderLosesSession, Ends, LostSenders, receiving
<1>2. SenderKept
  <2> DEFINE X == {}
             K == Senders
  <2>1. StopSenders(K, "failed", X)
    BY <1>1
  <2>2. /\ K \in SUBSET Attempt /\ \A k \in K : k = Newest(k[1]) /\ tries[k[1]] > 0
        /\ X \in SUBSET Transfer /\ \A u \in X : sEntry[u] \in Active /\ (Newest(u) \in Senders => Newest(u) \in K)
        /\ Senders \subseteq K
    BY SendersFacts
  <2> HIDE DEF K, X
  <2> QED BY <1>1, <2>1, <2>2, SideOf, StopKeeps
<1>3. \A k \in Attempt : snd'[k].session = snd[k].session
  BY <1>2 DEF SenderKept
<1>4. /\ open' \in [Side -> BOOLEAN] /\ ~open'["sender"] /\ \A e \in Side : open'[e] => open[e]
      /\ toReceiver' \in Seq(Messages) /\ toSender' \in Seq(Messages)
      /\ ReplyInv' /\ RouteInv' /\ OrderInv'
  BY <1>1, <1>3, LosesKeeps DEF Side
<1>5. session' \in [Side -> Nat] /\ session'["sender"] = 0 /\ session'["receiver"] = session["receiver"]
  BY <1>1 DEF Typed, Side
<1>6. LinkInv'
  BY <1>1, <1>4, <1>5 DEF LinkInv, Side
<1>7. Typed'
  <2>1. ReceiverTyped'
    BY <1>1 DEF Typed, ReceiverTyped
  <2> QED BY <1>1, <1>2, <1>4, <1>5, <2>1 DEF Typed, SenderKept
<1>8. \A t \in Transfer : Newest(t)' = Newest(t) /\ (tries[t] > 0 => Newest(t) \in Attempt)
  BY <1>1, NewestFacts DEF Newest
<1>9. ReceiverInv'
  <2>1. ASSUME NEW o \in Attempt, rcv[o].session # 0
        PROVE  /\ o[2] <= tries[o[1]]
               /\ rcv[o].session <= snd'[Newest(o[1])'].session /\ rcv[o].session <= sessions
    <3>1. o[1] \in Transfer /\ tries[o[1]] > 0
      BY <2>1, AttemptFacts, NewestFacts DEF ReceiverInv
    <3> QED BY <1>3, <1>8, <2>1, <3>1 DEF ReceiverInv
  <2> QED BY <1>1, <2>1 DEF ReceiverInv
<1>10. LatestInv'
  <2> SUFFICES ASSUME NEW k \in Attempt, k[2] <= tries[k[1]] PROVE snd'[k].session <= snd'[Newest(k[1])'].session
    BY <1>1 DEF LatestInv
  <2>1. k[1] \in Transfer /\ tries[k[1]] > 0
    BY AttemptFacts, NewestFacts
  <2> QED BY <1>3, <1>8, <2>1 DEF LatestInv
<1> QED BY <1>2, <1>4, <1>6, <1>7, <1>9, <1>10 DEF SenderKept

-----------------------------------------------------------------------------
(* The invariant.                                                          *)

LEMMA InitKeeps == Init => IInv
<1> SUFFICES ASSUME Init PROVE IInv
  OBVIOUS
<1> USE DEF Init
<1>1. \A k \in Attempt : snd[k] = NewSender(0) /\ NewSender(0) \in SenderState /\ NewSender(0).session = 0
                         /\ NewSender(0).queued = 0 /\ NewSender(0).run = "idle" /\ ~NewSender(0).stray
                         /\ NewSender(0).status = "pending"
  BY NewSenderTyped DEF NewSender
<1>2. \A k \in Attempt : rcv[k] = NewReceiver(0) /\ NewReceiver(0) \in ReceiverState /\ NewReceiver(0).session = 0
  BY NewSenderTyped DEF NewReceiver
<1>3. ListTyped /\ ReceiverTyped
  <2>1. reports \in [Attempt -> Seq(Active \cup Over)]
    OBVIOUS
  <2> QED BY <1>2, <2>1 DEF ListTyped, ReceiverTyped, Entry
<1>4. Typed
  <2>1. sessions \in 0..MaxSessions /\ tries \in [Transfer -> 0..MaxAttempts]
    BY RegistryAssumption
  <2>2. toReceiver \in Seq(Messages) /\ toSender \in Seq(Messages)
    OBVIOUS
  <2> QED BY <1>1, <1>3, <2>1, <2>2 DEF Typed
<1>5. LinkInv
  BY DEF LinkInv
<1>6. \A k \in Attempt : ~(k[2] <= tries[k[1]])
  BY AttemptFacts
<1>7. ObjectInv /\ LatestInv
  BY <1>1, <1>6 DEF ObjectInv, LatestInv
<1>8. ReportInv
  BY <1>6, AttemptFacts DEF ReportInv
<1>9. ShownInv /\ ReplyInv /\ SavedInv
  BY DEF ShownInv, ReplyInv, SavedInv
<1>10. RouteInv /\ OrderInv
  BY DEF RouteInv, OrderInv, Linked, Side
<1>11. ReceiverInv
  BY <1>2 DEF ReceiverInv
<1> QED BY <1>4, <1>5, <1>7, <1>8, <1>9, <1>10, <1>11 DEF IInv

LEMMA StutterKeeps == ASSUME IInv, UNCHANGED vars PROVE IInv'
<1>1. /\ UNCHANGED <<sessions, session, open, toReceiver, toSender, tries, snd, sEntry, reported, reports>>
      /\ UNCHANGED <<rcv, byKey, byId, onScreen, rEntry, saved>>
      /\ UNCHANGED <<link, sending>>
  BY DEF vars, link, sending, lists, receiving
<1>2. ReceiverKept /\ onScreen' \in SUBSET Transfer
  BY <1>1 DEF IInv, Typed, ReceiverTyped, ReceiverKept
<1>3. ReceiverStep
  BY <1>1, <1>2, SilentStep
<1>4. toReceiver' \in Seq(Messages) /\ RouteInv' /\ OrderInv'
  <2>1. \A k \in Attempt : snd'[k].session = snd[k].session
    BY <1>1
  <2> QED BY <1>1, <2>1, QuietRoute DEF IInv
<1> QED BY <1>1, <1>2, <1>3, <1>4, ReceiverMoveKeeps DEF ReceiverStep

LEMMA StepKeeps == IInv /\ [Next]_vars => IInv'
<1> SUFFICES ASSUME IInv, [Next]_vars PROVE IInv'
  OBVIOUS
<1>1. ASSUME LinkBreaks PROVE IInv'
  BY <1>1, ChannelLostKeeps, SenderLosesKeeps, ReceiverLosesKeeps DEF LinkBreaks
<1> QED BY <1>1, SendKeeps, RunsKeep, RepliesKeep, TakesKeep, ReceivingKeeps, LinkUpKeeps, StutterKeeps DEF Next

\* The lists and maps of both sides, the messages on their way and the entry fit together
\* in every state: the conjuncts of IInv are the inductive invariant of the registry.
THEOREM RegistryInductive == Spec => []IInv
BY InitKeeps, StepKeeps, PTL DEF Spec

-----------------------------------------------------------------------------
(* Where a sender is in its file.                                          *)

\* No sender is beyond the end of its file, and none of an empty file is at work.
Within(k, s) ==
  s.offset <= FileSize[k[1]] /\ s.end <= FileSize[k[1]] /\ (s.run # "idle" => FileSize[k[1]] > 0)
FileInv == \A k \in Attempt : Within(k, snd[k])

\* The sender of j becomes q.
LEMMA OneWithin ==
  ASSUME IInv, FileInv, NEW j \in Attempt, NEW q, snd' = [snd EXCEPT ![j] = q], Within(j, q)
  PROVE  FileInv'
<1>1. \A k \in Attempt : snd'[k] = IF k = j THEN q ELSE snd[k]
  BY DEF IInv, Typed
<1> QED BY <1>1 DEF FileInv

LEMMA StopWithin ==
  ASSUME IInv, FileInv, NEW K, NEW st, NEW X, StopSenders(K, st, X)
  PROVE  FileInv'
<1> SUFFICES ASSUME NEW k \in Attempt PROVE Within(k, snd'[k])
  BY DEF FileInv
<1> PICK s \in SenderState : s = snd[k]
  BY DEF IInv, Typed
<1>1. snd'[k] = [s EXCEPT !.status = st, !.cancelled = TRUE] \/ snd'[k] = s
  BY DEF StopSenders
<1> QED BY <1>1 DEF FileInv, Within, SenderState

LEMMA SizeFacts == ASSUME NEW k \in Attempt PROVE k[1] \in Transfer /\ FileSize[k[1]] \in Nat
BY AttemptFacts, RegistryAssumption

LEMMA OfferWithin == ASSUME IInv, FileInv, NEW t \in Transfer, Offer(t) PROVE FileInv'
<1> PICK n \in Nat : n = tries[t] + 1
  BY NewestFacts DEF IInv
<1>1. n \in 1..MaxAttempts
  BY NewestFacts, RegistryAssumption DEF IInv, Offer
<1> PICK k \in Attempt : k = <<t, n>>
  BY <1>1, AttemptFacts
<1> PICK q : q = NewSender(session["sender"])
  OBVIOUS
<1>2. snd' = [snd EXCEPT ![k] = q]
  BY DEF Offer
<1>3. Within(k, q)
  BY SizeFacts DEF Within, NewSender
<1> QED BY <1>2, <1>3, OneWithin

LEMMA SendWithin == ASSUME IInv, FileInv, SendingUser PROVE FileInv'
<1>1. ASSUME NEW t \in Transfer, SenderPauses(t) PROVE FileInv'
  <2> PICK k \in Attempt : k = Newest(t)
    BY <1>1, SendersFacts DEF SenderPauses, IInv
  <2> PICK s \in SenderState : s = snd[k]
    BY DEF IInv, Typed
  <2>1. PICK b \in BOOLEAN, st \in {"paused", "transferring"} :
          snd' = [snd EXCEPT ![k] = [s EXCEPT !.paused = b, !.status = st]]
    BY <1>1 DEF SenderPauses, SetSender
  <2>2. Within(k, [s EXCEPT !.paused = b, !.status = st])
    BY DEF FileInv, Within, SenderState
  <2> QED BY <2>1, <2>2, OneWithin
<1>2. ASSUME UNCHANGED snd PROVE FileInv'
  BY <1>2 DEF FileInv
<1>3. ASSUME NEW t \in Transfer, SenderCancels(t) PROVE FileInv'
  BY <1>2, <1>3, StopWithin DEF SenderCancels
<1>4. ASSUME SenderCancelsAll PROVE FileInv'
  BY <1>4, StopWithin DEF SenderCancelsAll
<1> QED BY <1>1, <1>3, <1>4, OfferWithin DEF SendingUser, SendFile, RetryTransfer

LEMMA RunsWithin == ASSUME IInv, FileInv, SenderRuns PROVE FileInv'
<1> PICK k \in Attempt : TakeGate(k) \/ LoopTurn(k) \/ ReadDone(k) \/ ReadFails(k)
  BY DEF SenderRuns
<1> PICK s \in SenderState : s = snd[k]
  BY DEF IInv, Typed
<1> PICK z \in Nat : z = FileSize[k[1]]
  BY SizeFacts
<1>1. /\ Within(k, s) /\ s.offset \in Nat /\ s.end \in Nat
      /\ s.offset <= z /\ s.end <= z /\ (s.run # "idle" => z > 0)
  BY DEF FileInv, Within, SenderState
<1>2. \A n \in Nat : NextStage(k, n) # "idle" => z > 0
  BY DEF NextStage
<1>3. ASSUME EndRun(k) \/ FailRun(k) PROVE FileInv'
  <2>1. EndRun(k) \/ snd' = [snd EXCEPT ![k] = [s EXCEPT !.run = "idle", !.status = "failed", !.cancelled = TRUE]]
    BY <1>3 DEF FailRun, SetSender
  <2>2. \/ snd' = [snd EXCEPT ![k] = [s EXCEPT !.run = "idle"]]
        \/ snd' = [snd EXCEPT ![k] = [s EXCEPT !.run = "idle", !.status = "failed", !.cancelled = TRUE]]
    BY <2>1 DEF EndRun, IInv, Typed
  <2>3. /\ Within(k, [s EXCEPT !.run = "idle"])
        /\ Within(k, [s EXCEPT !.run = "idle", !.status = "failed", !.cancelled = TRUE])
    BY <1>1 DEF Within, SenderState
  <2> QED BY <2>2, <2>3, OneWithin
<1>4. ASSUME TakeGate(k) PROVE FileInv'
  <2> PICK n : n = s.queued - 1
    OBVIOUS
  <2> PICK p : p = [s EXCEPT !.queued = n]
    OBVIOUS
  <2>1. Within(k, p) /\ p.offset \in Nat
    BY <1>1 DEF Within, SenderState
  <2>2. snd' = [snd EXCEPT ![k] = p] \/ snd' = [snd EXCEPT ![k] = Started(k, p)]
    BY <1>4 DEF TakeGate, SetSender
  <2>3. Within(k, Started(k, p))
    <3>1. /\ Started(k, p).offset = p.offset /\ Started(k, p).end = p.end
          /\ Started(k, p).run = p.run \/ Started(k, p).run = NextStage(k, p.offset)
      BY DEF Started, SenderState
    <3> QED BY <1>2, <2>1, <3>1 DEF Within
  <2> QED BY <2>1, <2>2, <2>3, OneWithin
<1>5. ASSUME s.offset < z, snd' = [snd EXCEPT ![k].run = "reading", ![k].end = snd[k].offset + 1] PROVE FileInv'
  <2> PICK e \in Nat : e = s.offset + 1
    BY <1>1
  <2>1. snd' = [snd EXCEPT ![k] = [s EXCEPT !.run = "reading", !.end = e]]
    BY <1>5 DEF IInv, Typed
  <2>2. Within(k, [s EXCEPT !.run = "reading", !.end = e])
    BY <1>1, <1>5 DEF Within, SenderState
  <2> QED BY <2>1, <2>2, OneWithin
<1>6. ASSUME snd' = [snd EXCEPT ![k].run = NextStage(k, snd[k].end), ![k].offset = snd[k].end, ![k].index = @ + 1]
      PROVE  FileInv'
  <2> PICK i : i = s.index + 1
    OBVIOUS
  <2> PICK g : g = NextStage(k, s.end)
    OBVIOUS
  <2>1. snd' = [snd EXCEPT ![k] = [s EXCEPT !.run = g, !.offset = s.end, !.index = i]]
    BY <1>6 DEF IInv, Typed
  <2>2. Within(k, [s EXCEPT !.run = g, !.offset = s.end, !.index = i])
    BY <1>1, <1>2 DEF Within, SenderState
  <2> QED BY <2>1, <2>2, OneWithin
<1>7. ASSUME LoopTurn(k) PROVE FileInv'
  BY <1>3, <1>5, <1>7 DEF LoopTurn
<1>8. ASSUME ReadDone(k) PROVE FileInv'
  BY <1>3, <1>6, <1>8 DEF ReadDone
<1>9. ASSUME ReadFails(k) PROVE FileInv'
  BY <1>3, <1>9 DEF ReadFails
<1> QED BY <1>4, <1>7, <1>8, <1>9

LEMMA GetsWithin == ASSUME IInv, FileInv, SenderGets PROVE FileInv'
<1> PICK m : m = Head(toSender)
  OBVIOUS
<1>1. m \in Messages /\ Valid(m)
  BY TailFacts DEF SenderGets, IInv, Typed, ReplyInv
<1>2. CASE m.type = "cancel-all"
  BY <1>2, StopWithin DEF SenderGets
<1>3. CASE m.type # "cancel-all"
  <2>1. m.t \in Transfer /\ tries[m.t] > 0
    BY <1>1, <1>3 DEF Valid
  <2> PICK k \in Attempt : k = Newest(m.t)
    BY <2>1, NewestFacts DEF IInv
  <2> PICK s \in SenderState : s = snd[k]
    BY DEF IInv, Typed
  <2>2. OnMessage(k, m)
    BY <1>3 DEF SenderGets
  <2>3. ASSUME OnAccept(k, m) PROVE FileInv'
    <3> PICK from : from = IF m.at > FileSize[k[1]] THEN FileSize[k[1]] ELSE m.at
      OBVIOUS
    <3>1. from <= FileSize[k[1]]
      BY <1>1, SizeFacts DEF Messages
    <3> PICK n : n = s.queued + 1
      OBVIOUS
    <3>2. snd' = [snd EXCEPT ![k] = [s EXCEPT !.queued = n, !.offset = from, !.index = from]]
      BY <2>3 DEF OnAccept, IInv, Typed
    <3>3. Within(k, [s EXCEPT !.queued = n, !.offset = from, !.index = from])
      BY <3>1 DEF FileInv, Within, SenderState
    <3> QED BY <3>2, <3>3, OneWithin
  <2>4. ASSUME NEW q, snd' = [snd EXCEPT ![k] = q], q.offset = s.offset, q.end = s.end, q.run = s.run PROVE FileInv'
    <3>1. Within(k, q)
      BY <2>4 DEF FileInv, Within
    <3> QED BY <2>4, <3>1, OneWithin
  <2>5. ASSUME snd' = [snd EXCEPT ![k].cancelled = TRUE] PROVE FileInv'
    <3> PICK q : q = [s EXCEPT !.cancelled = TRUE]
      OBVIOUS
    <3>1. snd' = [snd EXCEPT ![k] = q] /\ q.offset = s.offset /\ q.end = s.end /\ q.run = s.run
      BY <2>5 DEF SenderState, IInv, Typed
    <3> QED BY <2>4, <3>1
  <2>6. ASSUME OnComplete(k) PROVE FileInv'
    <3> PICK q : q = [s EXCEPT !.status = "completed"]
      OBVIOUS
    <3>1. snd' = [snd EXCEPT ![k] = q] /\ q.offset = s.offset /\ q.end = s.end /\ q.run = s.run
      BY <2>6 DEF SenderState, OnComplete, SetSender
    <3> QED BY <2>4, <3>1
  <2>7. ASSUME OnSteered(k, m) PROVE FileInv'
    <3>1. UNCHANGED snd \/ \E b \in BOOLEAN, st \in {"paused", "transferring"} :
            snd' = [snd EXCEPT ![k] = [s EXCEPT !.paused = b, !.status = st]]
      BY <2>7 DEF OnSteered, SetSender
    <3>2. ASSUME NEW b \in BOOLEAN, NEW st, snd' = [snd EXCEPT ![k] = [s EXCEPT !.paused = b, !.status = st]]
          PROVE  FileInv'
      <4> PICK q : q = [s EXCEPT !.paused = b, !.status = st]
        OBVIOUS
      <4>1. q.offset = s.offset /\ q.end = s.end /\ q.run = s.run
        BY DEF SenderState
      <4> QED BY <2>4, <3>2, <4>1
    <3>3. CASE UNCHANGED snd
      BY <3>3 DEF FileInv
    <3> QED BY <3>1, <3>2, <3>3
  <2>8. ASSUME NEW st, StopSenders({k}, st, {}) PROVE FileInv'
    BY <2>8, StopWithin
  <2> QED BY <2>2, <2>3, <2>5, <2>6, <2>7, <2>8 DEF OnMessage, OnReject
<1> QED BY <1>2, <1>3

\* start() clips what it is asked for to the size, run() reads up to it, and
\* nothing starts to read a file of size 0: for files of any size.
THEOREM RegistryWithin == Spec => []FileInv
<1>1. ASSUME Init PROVE FileInv
  <2> SUFFICES ASSUME NEW k \in Attempt PROVE Within(k, snd[k])
    BY DEF FileInv
  <2>1. snd[k] = NewSender(0)
    BY <1>1 DEF Init
  <2> QED BY <2>1, SizeFacts DEF Within, NewSender
<1>2. ASSUME IInv, FileInv, [Next]_vars PROVE FileInv'
  <2>1. ASSUME UNCHANGED sending PROVE FileInv'
    <3>1. UNCHANGED snd
      BY <2>1 DEF sending
    <3> QED BY <3>1, <1>2 DEF FileInv, Within
  <2>2. /\ UNCHANGED vars => UNCHANGED sending
        /\ LinkUp => UNCHANGED sending
        /\ ReceiverGets => UNCHANGED sending
        /\ ReceivingSide => UNCHANGED sending
    <3>1. UNCHANGED vars => UNCHANGED sending
      BY DEF vars
    <3>2. LinkUp => UNCHANGED sending
      BY DEF LinkUp
    <3>3. ReceiverGets => UNCHANGED sending
      BY DEF ReceiverGets
    <3>4. ReceivingSide => UNCHANGED sending
      BY DEF ReceivingSide
    <3> QED BY <3>1, <3>2, <3>3, <3>4
  <2>3. ASSUME LinkBreaks PROVE FileInv'
    BY <1>2, <2>1, <2>3, StopWithin DEF LinkBreaks, ChannelLost, SenderLosesSession, ReceiverLosesSession
  <2> QED BY <1>2, <2>1, <2>2, <2>3, SendWithin, RunsWithin, GetsWithin DEF Next
<1> QED BY <1>1, <1>2, RegistryInductive, PTL DEF Spec

-----------------------------------------------------------------------------
(* What it shows.                                                          *)

\* Every object of the two lists stays one of its kind: offsets within the file,
\* senders and receivers of sessions that were, receivers of offers that were made.
THEOREM RegistryType == Spec => []TypeOK
<1>1. IInv /\ FileInv => TypeOK
  <2> SUFFICES ASSUME IInv, FileInv PROVE TypeOK
    OBVIOUS
  <2> USE DEF IInv
  <2>1. /\ sessions \in 0..MaxSessions /\ sessions \in Nat
        /\ session \in [Side -> 0..sessions] /\ open \in [Side -> BOOLEAN]
    <3>1. sessions \in 0..MaxSessions /\ sessions \in Nat
      BY RegistryAssumption DEF Typed
    <3>2. \A d \in Side : session[d] \in 0..sessions
      BY <3>1 DEF LinkInv
    <3> QED BY <3>1, <3>2 DEF Typed
  <2>2. /\ \A i \in DOMAIN toReceiver : toReceiver[i] \in Messages
        /\ \A i \in DOMAIN toSender : toSender[i] \in Messages
    BY DEF Typed
  <2>3. ASSUME NEW k \in Attempt
        PROVE  snd[k] \in [session : 0..sessions, status : Active \cup Over, cancelled : BOOLEAN,
                           paused : BOOLEAN, queued : Nat, run : {"idle", "loop", "reading"},
                           offset : 0..FileSize[k[1]], index : Nat, end : 0..FileSize[k[1]],
                           stray : BOOLEAN, overtaken : BOOLEAN]
    <3>1. snd[k].session \in 0..sessions
      BY <2>1 DEF ObjectInv
    <3>2. snd[k] \in SenderState
      BY DEF Typed
    <3>3. snd[k].offset \in 0..FileSize[k[1]] /\ snd[k].end \in 0..FileSize[k[1]]
      BY <3>2, SizeFacts DEF FileInv, Within, SenderState
    <3> QED BY <3>1, <3>2, <3>3 DEF SenderState
  <2>4. ASSUME NEW k \in Attempt
        PROVE  rcv[k] \in [session : 0..sessions, status : Active \cup Over, got : Nat,
                           expected : Nat, writing : Nat,
                           stream : {"none", "open", "errored", "discarded"} \cup Closing, dialog : BOOLEAN,
                           late : BOOLEAN, missed : BOOLEAN]
    <3>1. rcv[k] \in ReceiverState
      BY DEF Typed, ReceiverTyped
    <3>2. rcv[k].session \in 0..sessions
      BY <2>1, <3>1 DEF ReceiverInv, ReceiverState
    <3> QED BY <3>1, <3>2 DEF ReceiverState
  <2>5. ASSUME NEW k \in Attempt, byKey[k] # None
        PROVE  byKey[k][1] = k[1] /\ byKey[k][2] \in 1..k[2] /\ k[2] <= tries[k[1]]
    <3>1. byKey[k] \in Attempt /\ byKey[k][1] = k[1] /\ byKey[k][2] <= k[2] /\ k[2] <= tries[k[1]]
      BY <2>5 DEF ReceiverInv, Typed
    <3>2. byKey[k][2] \in 1..MaxAttempts /\ k[2] \in 1..MaxAttempts
      BY <3>1, AttemptFacts
    <3> QED BY <3>1, <3>2, RegistryAssumption
  <2>6. \A t \in Transfer : byId[t] # None => \E n \in 1..tries[t] : byKey[<<t, n>>] = byId[t]
    BY DEF ReceiverInv
  <2> QED BY <2>1, <2>2, <2>3, <2>4, <2>5, <2>6 DEF TypeOK, Typed, ListTyped, ReceiverTyped, Entry
<1> QED BY <1>1, RegistryInductive, RegistryWithin, PTL

\* maybeReportHistory() and the reset of its flag by a retry: each attempt to
\* send a file gets one record in the history, and has it before the next one.
THEOREM RegistryReports == Spec => []EveryAttemptReported
<1>1. IInv => EveryAttemptReported
  <2> SUFFICES ASSUME IInv, NEW k \in Attempt
               PROVE  /\ Len(reports[k]) <= 1
                      /\ \/ k[2] < tries[k[1]]
                         \/ k = Newest(k[1]) /\ sEntry[k[1]] \in Over
                         => reports[k] # <<>>
    BY DEF EveryAttemptReported
  <2> USE DEF IInv
  <2>1. Len(reports[k]) <= 1 /\ (k[2] < tries[k[1]] => reports[k] # <<>>)
    BY DEF ReportInv
  <2>2. ASSUME k = Newest(k[1]), sEntry[k[1]] \in Over PROVE reports[k] # <<>>
    <3>1. k[1] \in Transfer /\ tries[k[1]] # 0
      BY <2>2, AttemptFacts, NewestFacts
    <3> QED BY <2>2, <3>1 DEF ReportInv
  <2> QED BY <2>1, <2>2
<1> QED BY <1>1, RegistryInductive, PTL

\* The record of an attempt says completed only when a receiver of the transfer
\* saved the file: confirmations cross cancels, retries and lost links.
THEOREM RegistryRecordIsTrue == Spec => []CompletedRecordIsSaved
<1>1. IInv => CompletedRecordIsSaved
  BY DEF IInv, SavedInv, CompletedRecordIsSaved
<1> QED BY <1>1, RegistryInductive, PTL

\* onTransferStatus() of every sender a transfer ever had writes to one entry,
\* and the entry still tells of the newest.
THEOREM RegistryShown == Spec => []ShownIsNewest
<1>1. IInv => ShownIsNewest
  BY DEF IInv, ShownInv, ShownIsNewest
<1> QED BY <1>1, RegistryInductive, PTL

\* close() and the steps that race it leave no transfer shown as under way when
\* its session is gone, so that it can be tried again.
THEOREM RegistryLost == Spec => []LostIsShown
<1>1. IInv => LostIsShown
  <2> SUFFICES ASSUME IInv, NEW t \in Transfer, session["sender"] = 0, ~Strayed(t) PROVE sEntry[t] \notin Active
    BY DEF LostIsShown
  <2>1. CASE tries[t] > 0
    BY <2>1 DEF IInv, ShownInv
  <2>2. CASE ~(tries[t] > 0)
    BY <2>2, NewestFacts, EntryFacts DEF IInv, ReportInv
  <2> QED BY <2>1, <2>2
<1> QED BY <1>1, RegistryInductive, PTL

-----------------------------------------------------------------------------
(* The two sides of a transfer.                                            *)

\* What is known of the maps of the receiving session, and of flags.
MapInv ==
  /\ \A k \in Attempt :
       /\ byKey[k] # None => snd[k].session = sessions
       /\ rcv[k].session # 0 => rcv[k].session = snd[k].session
       /\ rcv[k].session # 0 /\ rcv[k].session = sessions => byKey[k] # None
       /\ snd[k].status = "cancelled" => snd[k].cancelled

\* A message of the type about t is in q; a cancellation that reaches t is.
Has(q, type, t) == \E i \in DOMAIN q : q[i].type = type /\ q[i].t = t
Mentions(q, t) == \E i \in DOMAIN q : q[i].type # "cancel-all" /\ q[i].t = t
Kills(m, t) == m.type = "cancel-all" \/ (m.type = "cancel" /\ m.t = t)
Killed(q, t) == \E i \in DOMAIN q : Kills(q[i], t)
All(q) == \E i \in DOMAIN q : q[i].type = "cancel-all"

\* The answer to the offer is on its way once.
Once(q, t) ==
  \A i \in DOMAIN q, j \in DOMAIN q :
    q[i].type = "accept" /\ q[i].t = t /\ q[j].type = "accept" /\ q[j].t = t => i = j

\* A cancellation follows the offer of t.
KilledAfterOffer(q, t) ==
  \E i \in DOMAIN q, j \in DOMAIN q : i < j /\ q[i].type = "offer" /\ q[i].t = t /\ Kills(q[j], t)

\* Offered once in a session both sides still have.
Single(t) ==
  /\ \A d \in Side : open[d] /\ session[d] = sessions
  /\ tries[t] > 0
  /\ \A n \in 1..tries[t] : snd[<<t, n>>].session = sessions <=> n = tries[t]

\* The offer is not there yet: nobody answered it.
Unseen(t, s, inR, inS) ==
  /\ s.queued = 0 /\ s.run = "idle" /\ s.status # "completed"
  /\ ~Mentions(inS, t)
  /\ ~Has(inR, "chunk", t)
  /\ KilledAfterOffer(inR, t) => s.status \in Over

\* Nothing of its file is being written, or closed.
Asleep(r) == r.writing = 0 /\ r.stream \notin Closing

\* No chunk was sent, and so none is confirmed; an empty file has none, and is
\* confirmed with the answer.
Still(t, s, r, inR, inS) ==
  FileSize[t] > 0 =>
    /\ s.run = "idle" /\ s.status # "completed"
    /\ Asleep(r) /\ r.status # "completed"
    /\ ~Has(inR, "chunk", t) /\ ~Has(inS, "complete", t)

\* The offer is answered once: on the screen or in the dialog, as a message, and
\* as a run() that waits for the gate.
AnswerOnce(t, s, r, screen, inR, inS) ==
  /\ screen \/ r.dialog =>
       /\ Still(t, s, r, inR, inS) /\ Asleep(r) /\ r.status \in {"pending", "cancelled"}
       /\ s.queued = 0 /\ ~Has(inS, "accept", t) /\ ~(screen /\ r.dialog)
  /\ Has(inS, "accept", t) => Still(t, s, r, inR, inS) /\ s.queued = 0 /\ Once(inS, t)
  /\ s.queued > 0 => Still(t, s, r, inR, inS) /\ s.queued = 1 /\ ~Has(inS, "accept", t)

\* What one side knows the other knows, or will be told.
Told(t, s, r, inR, inS) ==
  /\ s.status = "completed" \/ Has(inS, "complete", t) => r.status = "completed"
  /\ r.status = "completed" =>
       s.status = "completed" \/ Has(inS, "complete", t) \/ (FileSize[t] = 0 /\ s.overtaken)
  /\ r.status = "cancelled" =>
       s.status \in Over \/ Has(inS, "reject", t) \/ Has(inS, "cancel", t) \/ All(inS)
  /\ Killed(inR, t) => s.status \in Over \/ r.status = "completed"
  /\ ~r.late =>
       /\ s.status = "cancelled" /\ ~r.missed => r.status \in Over \/ Killed(inR, t)
       /\ Has(inS, "cancel", t) => r.status \in Over
       /\ All(inS) /\ ~r.missed => r.status \in Over

\* What holds of t while its newest attempt is the only one of the session.
Agreed(t) ==
  LET k == Newest(t) IN
  /\ byId[t] = None => Unseen(t, snd[k], toReceiver, toSender)
  /\ byId[t] = k =>
       /\ AnswerOnce(t, snd[k], rcv[k], t \in onScreen, toReceiver, toSender)
       /\ Told(t, snd[k], rcv[k], toReceiver, toSender)

SidesInv == \A t \in Transfer : Single(t) => Agreed(t)

-----------------------------------------------------------------------------
(* What a queue says after a message came or went.                         *)

LEMMA AppendSays ==
  ASSUME NEW q \in Seq(Messages), NEW m \in Messages, NEW t
  PROVE  LET p == Append(q, m) IN
         /\ \A type : Has(p, type, t) <=> Has(q, type, t) \/ (m.type = type /\ m.t = t)
         /\ Killed(p, t) <=> Killed(q, t) \/ Kills(m, t)
         /\ All(p) <=> All(q) \/ m.type = "cancel-all"
         /\ Mentions(p, t) <=> Mentions(q, t) \/ (m.type # "cancel-all" /\ m.t = t)
         /\ KilledAfterOffer(p, t) => KilledAfterOffer(q, t) \/ (Kills(m, t) /\ Has(q, "offer", t))
         /\ Once(q, t) /\ ~(m.type = "accept" /\ m.t = t) => Once(p, t)
         /\ ~Has(q, "accept", t) => Once(p, t)
<1> PICK L \in Nat : L = Len(q)
  OBVIOUS
<1>0. Append(q, m) \in Seq(Messages)
  OBVIOUS
<1> PICK p \in Seq(Messages) : p = Append(q, m)
  BY <1>0
<1>1. /\ DOMAIN q = 1..L /\ DOMAIN p = 1..(L + 1)
      /\ p[L + 1] = m /\ \A i \in 1..L : p[i] = q[i]
  OBVIOUS
<1>2. \A i \in 1..(L + 1) : i = L + 1 \/ i \in 1..L
  OBVIOUS
<1>3. \A i \in 1..L : i \in 1..(L + 1)
  OBVIOUS
<1>4. L + 1 \in 1..(L + 1)
  OBVIOUS
<1>5. \A type : Has(p, type, t) <=> Has(q, type, t) \/ (m.type = type /\ m.t = t)
  BY <1>1, <1>2, <1>3, <1>4 DEF Has
<1>6. Killed(p, t) <=> Killed(q, t) \/ Kills(m, t)
  BY <1>1, <1>2, <1>3, <1>4 DEF Killed
<1>7. All(p) <=> All(q) \/ m.type = "cancel-all"
  BY <1>1, <1>2, <1>3, <1>4 DEF All
<1>8. Mentions(p, t) <=> Mentions(q, t) \/ (m.type # "cancel-all" /\ m.t = t)
  BY <1>1, <1>2, <1>3, <1>4 DEF Mentions
<1>9. KilledAfterOffer(p, t) => KilledAfterOffer(q, t) \/ (Kills(m, t) /\ Has(q, "offer", t))
  <2> SUFFICES ASSUME NEW i \in 1..(L + 1), NEW j \in 1..(L + 1), i < j,
                      p[i].type = "offer", p[i].t = t, Kills(p[j], t)
               PROVE  KilledAfterOffer(q, t) \/ (Kills(m, t) /\ Has(q, "offer", t))
    BY <1>1 DEF KilledAfterOffer
  <2>1. i \in 1..L /\ p[i] = q[i]
    BY <1>1
  <2>2. CASE j \in 1..L
    BY <1>1, <2>1, <2>2 DEF KilledAfterOffer
  <2>3. CASE j = L + 1
    BY <1>1, <2>1, <2>3 DEF Has
  <2> QED BY <1>2, <2>2, <2>3
<1>10. Once(q, t) /\ ~(m.type = "accept" /\ m.t = t) => Once(p, t)
  BY <1>1, <1>2 DEF Once
<1>11. ~Has(q, "accept", t) => Once(p, t)
  BY <1>1, <1>2 DEF Once, Has
<1> QED BY <1>5, <1>6, <1>7, <1>8, <1>9, <1>10, <1>11

LEMMA TailSays ==
  ASSUME NEW q \in Seq(Messages), q # <<>>, NEW t
  PROVE  LET p == Tail(q)
             m == Head(q)
         IN
         /\ \A type : Has(q, type, t) <=> Has(p, type, t) \/ (m.type = type /\ m.t = t)
         /\ Killed(q, t) <=> Killed(p, t) \/ Kills(m, t)
         /\ All(q) <=> All(p) \/ m.type = "cancel-all"
         /\ Mentions(q, t) <=> Mentions(p, t) \/ (m.type # "cancel-all" /\ m.t = t)
         /\ KilledAfterOffer(p, t) => KilledAfterOffer(q, t)
         /\ m.type = "offer" /\ m.t = t /\ Killed(p, t) => KilledAfterOffer(q, t)
         /\ Once(q, t) => Once(p, t)
         /\ Once(q, t) /\ m.type = "accept" /\ m.t = t => ~Has(p, "accept", t)
<1> PICK L \in Nat : L = Len(q)
  OBVIOUS
<1> PICK p \in Seq(Messages) : p = Tail(q)
  BY TailFacts
<1> PICK m \in Messages : m = Head(q)
  BY TailFacts
<1>1. /\ L > 0 /\ DOMAIN q = 1..L /\ DOMAIN p = 1..(L - 1) /\ q[1] = m
      /\ \A i \in 1..(L - 1) : p[i] = q[i + 1] /\ i + 1 \in 1..L
  OBVIOUS
<1>2. 1 \in 1..L
  BY <1>1
<1>3. \A i \in 1..L : i = 1 \/ \E j \in 1..(L - 1) : i = j + 1
  <2> SUFFICES ASSUME NEW i \in 1..L, i # 1 PROVE \E j \in 1..(L - 1) : i = j + 1
    OBVIOUS
  <2>1. i - 1 \in 1..(L - 1) /\ i = (i - 1) + 1
    OBVIOUS
  <2> QED BY <2>1
<1>4. \A i \in DOMAIN q : q[i] = m \/ \E j \in DOMAIN p : p[j] = q[i]
  <2> SUFFICES ASSUME NEW i \in 1..L, i # 1 PROVE \E j \in 1..(L - 1) : p[j] = q[i]
    BY <1>1
  <2> PICK j \in 1..(L - 1) : i = j + 1
    BY <1>3
  <2> QED BY <1>1
<1>5. (\A j \in DOMAIN p : \E i \in DOMAIN q : q[i] = p[j]) /\ \E i \in DOMAIN q : q[i] = m
  BY <1>1, <1>2
<1>6. \A type : Has(q, type, t) <=> Has(p, type, t) \/ (m.type = type /\ m.t = t)
  BY <1>4, <1>5 DEF Has
<1>7. Killed(q, t) <=> Killed(p, t) \/ Kills(m, t)
  BY <1>4, <1>5 DEF Killed
<1>8. All(q) <=> All(p) \/ m.type = "cancel-all"
  BY <1>4, <1>5 DEF All
<1>9. Mentions(q, t) <=> Mentions(p, t) \/ (m.type # "cancel-all" /\ m.t = t)
  BY <1>4, <1>5 DEF Mentions
<1>10. KilledAfterOffer(p, t) => KilledAfterOffer(q, t)
  <2> SUFFICES ASSUME NEW i \in 1..(L - 1), NEW j \in 1..(L - 1), i < j,
                      p[i].type = "offer", p[i].t = t, Kills(p[j], t)
               PROVE  KilledAfterOffer(q, t)
    BY <1>1 DEF KilledAfterOffer
  <2>1. i + 1 < j + 1
    OBVIOUS
  <2> QED BY <1>1, <2>1 DEF KilledAfterOffer
<1>11. m.type = "offer" /\ m.t = t /\ Killed(p, t) => KilledAfterOffer(q, t)
  <2> SUFFICES ASSUME m.type = "offer", m.t = t, NEW j \in 1..(L - 1), Kills(p[j], t)
               PROVE  KilledAfterOffer(q, t)
    BY <1>1 DEF Killed
  <2>1. 1 < j + 1
    OBVIOUS
  <2> QED BY <1>1, <1>2, <2>1 DEF KilledAfterOffer
<1>12. Once(q, t) => Once(p, t)
  <2> SUFFICES ASSUME Once(q, t), NEW i \in 1..(L - 1), NEW j \in 1..(L - 1),
                      p[i].type = "accept", p[i].t = t, p[j].type = "accept", p[j].t = t
               PROVE  i = j
    BY <1>1 DEF Once
  <2>1. i + 1 = j + 1
    BY <1>1 DEF Once
  <2> QED BY <2>1
<1>13. Once(q, t) /\ m.type = "accept" /\ m.t = t => ~Has(p, "accept", t)
  <2> SUFFICES ASSUME Once(q, t), m.type = "accept", m.t = t, NEW j \in 1..(L - 1),
                      p[j].type = "accept", p[j].t = t
               PROVE  FALSE
    BY <1>1 DEF Has
  <2>1. 1 = j + 1
    BY <1>1, <1>2 DEF Once
  <2> QED BY <2>1
<1> QED BY <1>6, <1>7, <1>8, <1>9, <1>10, <1>11, <1>12, <1>13

\* p holds what q and ms hold.
Both(p, q, ms) ==
  /\ \A j \in DOMAIN q : \E i \in DOMAIN p : p[i] = q[j]
  /\ \A j \in DOMAIN ms : \E i \in DOMAIN p : p[i] = ms[j]
  /\ \A i \in DOMAIN p : (\E j \in DOMAIN q : p[i] = q[j]) \/ (\E j \in DOMAIN ms : p[i] = ms[j])

LEMMA BothSay ==
  ASSUME NEW p, NEW q, NEW ms, NEW t, Both(p, q, ms)
  PROVE  /\ \A type : Has(p, type, t) <=> Has(q, type, t) \/ Has(ms, type, t)
         /\ All(p) <=> All(q) \/ All(ms)
         /\ Mentions(p, t) <=> Mentions(q, t) \/ Mentions(ms, t)
<1>1. \A type : Has(p, type, t) <=> Has(q, type, t) \/ Has(ms, type, t)
  BY DEF Both, Has
<1>2. All(p) <=> All(q) \/ All(ms)
  BY DEF Both, All
<1>3. Mentions(p, t) <=> Mentions(q, t) \/ Mentions(ms, t)
  BY DEF Both, Mentions
<1> QED BY <1>1, <1>2, <1>3

\* Several messages are sent at once.
LEMMA ConcatSays ==
  ASSUME NEW q \in Seq(Messages), NEW ms \in Seq(Messages), NEW t
  PROVE  LET p == q \o ms IN
         /\ p \in Seq(Messages)
         /\ \A type : Has(p, type, t) <=> Has(q, type, t) \/ Has(ms, type, t)
         /\ All(p) <=> All(q) \/ All(ms)
         /\ Mentions(p, t) <=> Mentions(q, t) \/ Mentions(ms, t)
         /\ Once(q, t) /\ ~Has(ms, "accept", t) => Once(p, t)
         /\ ~Has(q, "accept", t) /\ Once(ms, t) => Once(p, t)
<1> PICK L \in Nat, M \in Nat : L = Len(q) /\ M = Len(ms)
  OBVIOUS
<1>0. q \o ms \in Seq(Messages)
  OBVIOUS
<1> PICK p \in Seq(Messages) : p = q \o ms
  BY <1>0
<1>1. /\ DOMAIN q = 1..L /\ DOMAIN ms = 1..M /\ DOMAIN p = 1..(L + M)
      /\ \A i \in 1..L : p[i] = q[i] /\ i \in 1..(L + M)
      /\ \A i \in 1..M : p[L + i] = ms[i] /\ L + i \in 1..(L + M)
  OBVIOUS
<1>2. \A i \in 1..(L + M) : i \in 1..L \/ \E j \in 1..M : i = L + j
  <2> SUFFICES ASSUME NEW i \in 1..(L + M), i \notin 1..L PROVE \E j \in 1..M : i = L + j
    OBVIOUS
  <2>1. i - L \in 1..M /\ i = L + (i - L)
    OBVIOUS
  <2> QED BY <2>1
<1>3. \A i \in DOMAIN p : (i \in DOMAIN q /\ p[i] = q[i]) \/ \E j \in DOMAIN ms : i = L + j /\ p[i] = ms[j]
  BY <1>1, <1>2
<1>4. Both(p, q, ms)
  BY <1>1, <1>3 DEF Both
<1>5. /\ \A type : Has(p, type, t) <=> Has(q, type, t) \/ Has(ms, type, t)
      /\ All(p) <=> All(q) \/ All(ms)
      /\ Mentions(p, t) <=> Mentions(q, t) \/ Mentions(ms, t)
  BY <1>4, BothSay
<1>6. Once(q, t) /\ ~Has(ms, "accept", t) => Once(p, t)
  BY <1>3 DEF Once, Has
<1>7. ~Has(q, "accept", t) /\ Once(ms, t) => Once(p, t)
  BY <1>3 DEF Once, Has
<1> QED BY <1>5, <1>6, <1>7

\* A single one.
LEMMA OneSays ==
  ASSUME NEW m \in Messages, NEW t
  PROVE  /\ <<m>> \in Seq(Messages)
         /\ \A type : Has(<<m>>, type, t) <=> m.type = type /\ m.t = t
         /\ All(<<m>>) <=> m.type = "cancel-all"
         /\ Once(<<m>>, t)
<1>0. <<m>> \in Seq(Messages)
  OBVIOUS
<1> PICK ms \in Seq(Messages) : ms = <<m>>
  BY <1>0
<1>1. 1 \in DOMAIN ms /\ \A i \in DOMAIN ms : ms[i] = m /\ i = 1
  OBVIOUS
<1> QED BY <1>1 DEF Has, All, Once

\* Nothing in ms is an answer to the offer of t, or about its end.
Silent(ms, t) ==
  ~All(ms) /\ \A type \in {"accept", "reject", "complete", "cancel"} : ~Has(ms, type, t)

\* All of ms is about t.
About(ms, t) ==
  ms \in Seq(Messages) /\ \A i \in DOMAIN ms : ms[i].type # "cancel-all" /\ ms[i].t = t

\* ms says that t is completed, maybe more than once.
Confirms(ms, t) ==
  ms \in Seq(Messages) /\ ms # <<>> /\ \A i \in DOMAIN ms : ms[i].type = "complete" /\ ms[i].t = t

LEMMA NothingSays ==
  ASSUME NEW t PROVE <<>> \in Seq(Messages) /\ Silent(<<>>, t) /\ ~Mentions(<<>>, t)
BY DEF Silent, Mentions, All, Has

LEMMA AboutSays ==
  ASSUME NEW t, NEW u, u # t, NEW ms, About(ms, t)
  PROVE  ms \in Seq(Messages) /\ Silent(ms, u) /\ ~Mentions(ms, u)
BY DEF About, Silent, Mentions, All, Has

LEMMA ConfirmsSays ==
  ASSUME NEW t, NEW ms, Confirms(ms, t)
  PROVE  /\ About(ms, t) /\ ~All(ms)
         /\ \A type : Has(ms, type, t) <=> type = "complete"
<1>1. \E i \in DOMAIN ms : TRUE
  BY DEF Confirms
<1> QED BY <1>1 DEF Confirms, About, All, Has

LEMMA SilentSays ==
  ASSUME NEW q \in Seq(Messages), NEW ms \in Seq(Messages), NEW t, Silent(ms, t),
         NEW p, p = q \/ p = q \o ms
  PROVE  /\ \A type \in {"accept", "reject", "complete", "cancel"} : Has(p, type, t) <=> Has(q, type, t)
         /\ All(p) <=> All(q)
         /\ Once(q, t) => Once(p, t)
<1>1. CASE p = q
  BY <1>1
<1>2. CASE p = q \o ms
  BY <1>2, ConcatSays DEF Silent
<1> QED BY <1>1, <1>2

-----------------------------------------------------------------------------
(* A transfer offered once in the session.                                 *)

LEMMA SingleFacts ==
  ASSUME IInv, MapInv, NEW t \in Transfer, Single(t), NEW k, k = Newest(t)
  PROVE  /\ k \in Attempt /\ k[1] = t /\ k[2] = tries[t] /\ tries[t] \in Nat /\ tries[t] > 0
         /\ snd[k] \in SenderState /\ rcv[k] \in ReceiverState
         /\ Linked /\ session["sender"] = sessions /\ session["receiver"] = sessions
         /\ sessions \in Nat /\ sessions > 0 /\ snd[k].session = sessions /\ k \in Senders
         /\ \A o \in Attempt : o[1] = t /\ (snd[o].session = sessions \/ rcv[o].session = sessions \/ byKey[o] # None) => o = k
         /\ byId[t] = k => byKey[k] = k /\ rcv[k].session = sessions
         /\ byId[t] = None => byKey[k] = None /\ rcv[k].session # sessions
<1> USE DEF IInv
<1>1. k \in Attempt /\ k[1] = t /\ k[2] = tries[t] /\ tries[t] \in Nat /\ tries[t] > 0
  BY NewestFacts DEF Single
<1>2. snd[k] \in SenderState /\ rcv[k] \in ReceiverState
  BY <1>1 DEF Typed, ReceiverTyped
<1>3. k = <<t, tries[t]>> /\ tries[t] \in 1..tries[t]
  BY <1>1 DEF Newest
<1>4. snd[k].session = sessions
  BY <1>3 DEF Single
<1>5. sessions \in Nat /\ sessions > 0
  <2>1. snd[k].session \in 1..sessions /\ sessions \in Nat
    BY <1>1, RegistryAssumption DEF ObjectInv, Typed
  <2> QED BY <2>1, <1>4
<1>6. Linked /\ session["sender"] = sessions /\ session["receiver"] = sessions
  BY DEF Single, Linked, Side
<1>7. k \in Senders
  BY <1>1, <1>4, <1>6 DEF Senders
<1>8. ASSUME NEW o \in Attempt, o[1] = t, snd[o].session = sessions \/ rcv[o].session = sessions \/ byKey[o] # None
      PROVE  o = k
  <2>1. o[2] \in Nat /\ o[2] \in 1..MaxAttempts /\ o = <<t, o[2]>>
    BY <1>8, AttemptFacts
  <2>2. snd[o].session = sessions /\ o[2] <= tries[t]
    <3>1. rcv[o].session = sessions => rcv[o].session = snd[o].session
      BY <1>5 DEF MapInv
    <3>2. byKey[o] # None => snd[o].session = sessions
      BY DEF MapInv
    <3>3. snd[o].session = sessions
      BY <1>8, <3>1, <3>2
    <3> QED BY <3>3, <1>5, <1>8 DEF ObjectInv
  <2>3. o[2] \in 1..tries[t]
    BY <2>1, <2>2, <1>1
  <2>4. o[2] = tries[t]
    BY <2>1, <2>2, <2>3 DEF Single
  <2> QED BY <2>1, <2>4, <1>3
<1>9. ASSUME byId[t] = k PROVE byKey[k] = k /\ rcv[k].session = sessions
  <2>1. byId[t] # None
    BY <1>1, <1>9, AttemptFacts
  <2>2. PICK n \in 1..tries[t] : byKey[<<t, n>>] = byId[t]
    BY <2>1 DEF ReceiverInv
  <2>3. <<t, n>> \in Attempt /\ <<t, n>>[1] = t
    BY NewestFacts, AttemptFacts, RegistryAssumption
  <2>4. <<t, n>> = k
    BY <1>8, <2>1, <2>2, <2>3
  <2>5. byKey[k] = k
    BY <1>9, <2>2, <2>4
  <2>6. rcv[k].session # 0
    BY <1>1, <1>9, <2>1, ByIdFacts
  <2> QED BY <1>1, <1>4, <2>5, <2>6 DEF MapInv
<1>10. ASSUME byId[t] = None PROVE byKey[k] = None /\ rcv[k].session # sessions
  <2>1. byKey[k] = None
    BY <1>1, <1>10 DEF ReceiverInv
  <2> QED BY <1>1, <1>5, <2>1 DEF MapInv
<1> QED BY <1>1, <1>2, <1>4, <1>5, <1>6, <1>7, <1>8, <1>9, <1>10

-----------------------------------------------------------------------------
(* What a step of the sending side leaves agreed.                          *)

\* The sender is steered or goes on waiting, and says so.
LEMMA SteeredAgrees ==
  ASSUME IInv, NEW t \in Transfer, Agreed(t), NEW k, k = Newest(t),
         NEW s, s = snd[k], NEW q, q = snd'[k], UNCHANGED <<tries, byId, rcv, onScreen, toSender>>,
         NEW m \in Messages, toReceiver' = toReceiver \/ toReceiver' = Append(toReceiver, m),
         m.type = "chunk" => m.t # t,
         Kills(m, t) => q.status \in Over,
         q.queued = s.queued, q.run = s.run, q.overtaken = s.overtaken,
         q.status = "completed" <=> s.status = "completed",
         s.status \in Over => q.status \in Over,
         q.status = "cancelled" => s.status = "cancelled" \/ (Kills(m, t) /\ toReceiver' = Append(toReceiver, m))
  PROVE  Agreed(t)'
<1>1. toReceiver \in Seq(Messages)
  BY DEF IInv, Typed
<1>2. /\ Has(toReceiver', "chunk", t) <=> Has(toReceiver, "chunk", t)
      /\ Killed(toReceiver', t) => Killed(toReceiver, t) \/ Kills(m, t)
      /\ Killed(toReceiver, t) => Killed(toReceiver', t)
      /\ Kills(m, t) /\ toReceiver' = Append(toReceiver, m) => Killed(toReceiver', t)
      /\ KilledAfterOffer(toReceiver', t) => KilledAfterOffer(toReceiver, t) \/ Kills(m, t)
  <2>1. CASE toReceiver' = toReceiver /\ toReceiver' # Append(toReceiver, m)
    BY <2>1
  <2>2. CASE toReceiver' = Append(toReceiver, m)
    BY <1>1, <2>2, AppendSays
  <2> QED BY <2>1, <2>2
<1>3. /\ byId[t] = None => Unseen(t, s, toReceiver, toSender)
      /\ byId[t] = k =>
           /\ AnswerOnce(t, s, rcv[k], t \in onScreen, toReceiver, toSender)
           /\ Told(t, s, rcv[k], toReceiver, toSender)
  BY DEF Agreed
<1>4. Unseen(t, s, toReceiver, toSender) => Unseen(t, q, toReceiver', toSender)
  BY <1>2 DEF Unseen
<1>5. AnswerOnce(t, s, rcv[k], t \in onScreen, toReceiver, toSender)
        => AnswerOnce(t, q, rcv[k], t \in onScreen, toReceiver', toSender)
  BY <1>2 DEF AnswerOnce, Still
<1>6. Told(t, s, rcv[k], toReceiver, toSender) => Told(t, q, rcv[k], toReceiver', toSender)
  BY <1>2 DEF Told
<1> QED BY <1>3, <1>4, <1>5, <1>6 DEF Agreed, Newest

\* A run() that has or gets the gate: no answer is on its way any more.
LEMMA RunAgrees ==
  ASSUME IInv, NEW t \in Transfer, Agreed(t), NEW k, k = Newest(t),
         NEW s, s = snd[k], NEW q, q = snd'[k], UNCHANGED <<tries, byId, rcv, onScreen, toSender>>,
         NEW m \in Messages, toReceiver' = toReceiver \/ toReceiver' = Append(toReceiver, m),
         ~Kills(m, t),
         \/ s.run # "idle" /\ q.queued = s.queued
         \/ s.queued > 0 /\ (s.queued = 1 => q.queued = 0),
         s.queued \in Nat, s.run # "idle" => FileSize[t] > 0, s.overtaken => q.overtaken,
         s.status = "completed" /\ q.status # "completed" => q.overtaken \/ FileSize[t] > 0,
         q.status = s.status \/ (s.status \notin Settled /\ q.status = "failed")
           \/ (s.status \notin {"cancelled", "failed"} /\ s.queued > 0 /\ s.run = "idle" /\ q.status \in {"transferring", "failed"})
  PROVE  Agreed(t)'
<1>1. toReceiver \in Seq(Messages)
  BY DEF IInv, Typed
<1>2. Killed(toReceiver', t) <=> Killed(toReceiver, t)
  <2>1. CASE toReceiver' = toReceiver
    BY <2>1
  <2>2. CASE toReceiver' = Append(toReceiver, m)
    BY <1>1, <2>2, AppendSays
  <2> QED BY <2>1, <2>2
<1>3. /\ byId[t] = None => Unseen(t, s, toReceiver, toSender)
      /\ byId[t] = k =>
           /\ AnswerOnce(t, s, rcv[k], t \in onScreen, toReceiver, toSender)
           /\ Told(t, s, rcv[k], toReceiver, toSender)
  BY DEF Agreed
<1>4. byId[t] # None
  BY <1>3 DEF Unseen
<1>5. ASSUME AnswerOnce(t, s, rcv[k], t \in onScreen, toReceiver, toSender), Told(t, s, rcv[k], toReceiver, toSender)
      PROVE  /\ AnswerOnce(t, q, rcv[k], t \in onScreen, toReceiver', toSender)
             /\ Told(t, q, rcv[k], toReceiver', toSender)
  <2>1. ~(t \in onScreen \/ rcv[k].dialog) /\ ~Has(toSender, "accept", t) /\ (s.queued > 0 => s.queued = 1)
    BY <1>5 DEF AnswerOnce, Still
  <2>2. q.queued = 0
    BY <1>5, <2>1 DEF AnswerOnce, Still
  <2>3. AnswerOnce(t, q, rcv[k], t \in onScreen, toReceiver', toSender)
    BY <2>1, <2>2 DEF AnswerOnce
  <2>4. s.queued > 0 /\ FileSize[t] > 0 => s.status # "completed"
    BY <1>5 DEF AnswerOnce, Still
  <2>5. s.status = "completed" => q.status = "completed" \/ (FileSize[t] = 0 /\ q.overtaken)
    <3>1. ~(FileSize[t] > 0) => FileSize[t] = 0
      BY RegistryAssumption
    <3>2. s.status = "completed" /\ q.status # "completed" => s.queued > 0
      BY DEF Settled
    <3> QED BY <2>4, <3>1, <3>2
  <2>6. s.status \in Over => q.status \in Over \/ s.status = "completed"
    BY EntryFacts DEF Over
  <2>7. Told(t, q, rcv[k], toReceiver', toSender)
    <3>1. (q.status = "completed" => s.status = "completed") /\ (q.status = "cancelled" => s.status = "cancelled")
      OBVIOUS
    <3>2. rcv[k].status # "completed" => s.status # "completed"
      BY <1>5 DEF Told
    <3>3. rcv[k].status = "cancelled" => rcv[k].status # "completed"
      OBVIOUS
    <3>4. rcv[k].status = "completed" =>
            q.status = "completed" \/ Has(toSender, "complete", t) \/ (FileSize[t] = 0 /\ q.overtaken)
      BY <1>5, <2>5 DEF Told
    <3> QED BY <1>2, <1>5, <2>6, <3>1, <3>2, <3>3, <3>4 DEF Told
  <2> QED BY <2>3, <2>7
<1> QED BY <1>3, <1>4, <1>5 DEF Agreed, Newest

\* The sender hears m: what was on its way arrived.
LEMMA HeardAgrees ==
  ASSUME IInv, NEW t \in Transfer, Agreed(t), NEW k, k = Newest(t),
         NEW s \in SenderState, s = snd[k], NEW q, q = snd'[k],
         UNCHANGED <<tries, byId, rcv, onScreen, toReceiver>>,
         NEW m, m = Head(toSender), toSender # <<>>, toSender' = Tail(toSender),
         q.run = s.run, q.overtaken = s.overtaken,
         \/ m.type # "cancel-all" /\ m.t # t /\ q.status = s.status /\ q.queued = s.queued
         \/ Kills(m, t) /\ q.status = (IF s.status \in Settled THEN s.status ELSE "cancelled") /\ q.queued = s.queued
         \/ m.type = "accept" /\ m.t = t /\ q.status = s.status /\ q.queued = s.queued + 1
         \/ m.type = "reject" /\ m.t = t /\ q.status = (IF s.status \in Settled THEN s.status ELSE "failed")
              /\ q.queued = s.queued
         \/ m.type = "complete" /\ m.t = t /\ q.status = "completed" /\ q.queued = s.queued
         \/ /\ m.type \in {"pause", "resume"} /\ m.t = t /\ q.queued = s.queued
            /\ q.status = s.status \/ (s.status \notin Over /\ q.status \notin Over)
  PROVE  Agreed(t)'
<1>1. toSender \in Seq(Messages)
  BY DEF IInv, Typed
<1> PICK p : p = toSender'
  OBVIOUS
<1>2. /\ Mentions(toSender, t) <=> Mentions(p, t) \/ (m.type # "cancel-all" /\ m.t = t)
      /\ Has(toSender, "accept", t) <=> Has(p, "accept", t) \/ (m.type = "accept" /\ m.t = t)
      /\ Has(toSender, "reject", t) <=> Has(p, "reject", t) \/ (m.type = "reject" /\ m.t = t)
      /\ Has(toSender, "complete", t) <=> Has(p, "complete", t) \/ (m.type = "complete" /\ m.t = t)
      /\ Has(toSender, "cancel", t) <=> Has(p, "cancel", t) \/ (m.type = "cancel" /\ m.t = t)
      /\ All(toSender) <=> All(p) \/ m.type = "cancel-all"
      /\ Once(toSender, t) => Once(p, t)
      /\ Once(toSender, t) /\ m.type = "accept" /\ m.t = t => ~Has(p, "accept", t)
  BY <1>1, TailSays
<1>3. /\ byId[t] = None => Unseen(t, s, toReceiver, toSender)
      /\ byId[t] = k =>
           /\ AnswerOnce(t, s, rcv[k], t \in onScreen, toReceiver, toSender)
           /\ Told(t, s, rcv[k], toReceiver, toSender)
  BY DEF Agreed
<1>4. s.status \in Active \cup Over /\ s.queued \in Nat
  BY DEF SenderState
<1>5. Unseen(t, s, toReceiver, toSender) => Unseen(t, q, toReceiver, p)
  <2> SUFFICES ASSUME Unseen(t, s, toReceiver, toSender) PROVE Unseen(t, q, toReceiver, p)
    OBVIOUS
  <2>1. m.type # "cancel-all" => m.t # t
    BY <1>2 DEF Unseen
  <2>2. \/ q.status = s.status /\ q.queued = s.queued
        \/ q.status = (IF s.status \in Settled THEN s.status ELSE "cancelled") /\ q.queued = s.queued
    BY <2>1
  <2> QED BY <1>2, <2>2, EntryFacts DEF Unseen
<1>6. ASSUME NEW r, NEW screen \in BOOLEAN, AnswerOnce(t, s, r, screen, toReceiver, toSender), Told(t, s, r, toReceiver, toSender)
      PROVE  AnswerOnce(t, q, r, screen, toReceiver, p) /\ Told(t, q, r, toReceiver, p)
  <2>1. CASE m.type # "cancel-all" /\ m.t # t /\ q.status = s.status /\ q.queued = s.queued
    <3>1. AnswerOnce(t, q, r, screen, toReceiver, p)
      BY <1>2, <1>6, <2>1 DEF AnswerOnce, Still
    <3>2. Told(t, q, r, toReceiver, p)
      BY <1>2, <1>6, <2>1 DEF Told
    <3> QED BY <3>1, <3>2
  <2>2. CASE Kills(m, t) /\ q.status = (IF s.status \in Settled THEN s.status ELSE "cancelled") /\ q.queued = s.queued
    <3>0. q.status \in Over /\ (q.status = "completed" <=> s.status = "completed")
      BY <2>2, EntryFacts
    <3>1. AnswerOnce(t, q, r, screen, toReceiver, p)
      BY <1>2, <1>6, <2>2, <3>0 DEF AnswerOnce, Still
    <3>2. Told(t, q, r, toReceiver, p)
      BY <1>2, <1>6, <2>2, <3>0 DEF Told, Kills
    <3> QED BY <3>1, <3>2
  <2>3. CASE m.type = "accept" /\ m.t = t /\ q.status = s.status /\ q.queued = s.queued + 1
    <3>1. Still(t, s, r, toReceiver, toSender) /\ s.queued = 0 /\ ~Has(p, "accept", t) /\ ~screen /\ ~r.dialog
      BY <1>2, <1>6, <2>3 DEF AnswerOnce
    <3>2. Still(t, q, r, toReceiver, p) /\ q.queued = 1
      BY <1>2, <2>3, <3>1 DEF Still
    <3>3. AnswerOnce(t, q, r, screen, toReceiver, p)
      BY <3>1, <3>2 DEF AnswerOnce
    <3>4. Told(t, q, r, toReceiver, p)
      BY <1>2, <1>6, <2>3 DEF Told
    <3> QED BY <3>3, <3>4
  <2>4. CASE m.type = "reject" /\ m.t = t /\ q.status = (IF s.status \in Settled THEN s.status ELSE "failed")
             /\ q.queued = s.queued
    <3>0. q.status \in Over /\ (q.status = "completed" <=> s.status = "completed")
          /\ (q.status = "cancelled" <=> s.status = "cancelled")
      BY <2>4, EntryFacts
    <3>1. AnswerOnce(t, q, r, screen, toReceiver, p)
      BY <1>2, <1>6, <2>4, <3>0 DEF AnswerOnce, Still
    <3>2. Told(t, q, r, toReceiver, p)
      BY <1>2, <1>6, <2>4, <3>0 DEF Told
    <3> QED BY <3>1, <3>2
  <2>5. CASE m.type = "complete" /\ m.t = t /\ q.status = "completed" /\ q.queued = s.queued
    <3>0. r.status = "completed"
      BY <1>2, <1>6, <2>5 DEF Told
    <3>1. ~screen /\ ~r.dialog /\ (FileSize[t] > 0 => ~Has(toSender, "accept", t) /\ s.queued = 0)
      BY <1>2, <1>4, <1>6, <2>5, <3>0 DEF AnswerOnce, Still
    <3>2. AnswerOnce(t, q, r, screen, toReceiver, p)
      BY <1>2, <1>6, <2>5, <3>1 DEF AnswerOnce, Still
    <3>3. Told(t, q, r, toReceiver, p)
      BY <1>2, <1>6, <2>5, <3>0, EntryFacts DEF Told
    <3> QED BY <3>2, <3>3
  <2>6. CASE /\ m.type \in {"pause", "resume"} /\ m.t = t /\ q.queued = s.queued
             /\ q.status = s.status \/ (s.status \notin Over /\ q.status \notin Over)
    <3>0. /\ q.status \in Over <=> s.status \in Over
          /\ q.status = "completed" <=> s.status = "completed"
          /\ q.status = "cancelled" <=> s.status = "cancelled"
      BY <2>6, EntryFacts
    <3>1. AnswerOnce(t, q, r, screen, toReceiver, p)
      BY <1>2, <1>6, <2>6, <3>0 DEF AnswerOnce, Still
    <3>2. Told(t, q, r, toReceiver, p)
      BY <1>2, <1>6, <2>6, <3>0 DEF Told
    <3> QED BY <3>1, <3>2
  <2> QED BY <2>1, <2>2, <2>3, <2>4, <2>5, <2>6
<1>7. Agreed(t)' <=>
      /\ byId[t] = None => Unseen(t, q, toReceiver, p)
      /\ byId[t] = k =>
           /\ AnswerOnce(t, q, rcv[k], t \in onScreen, toReceiver, p)
           /\ Told(t, q, rcv[k], toReceiver, p)
  BY DEF Agreed, Newest
<1>8. (t \in onScreen) \in BOOLEAN
  OBVIOUS
<1> QED BY <1>3, <1>5, <1>6, <1>7, <1>8

-----------------------------------------------------------------------------
(* The steps of the sending side.                                          *)

\* What each of them leaves.
SidesKept ==
  /\ \A k \in Attempt : snd'[k].session = snd[k].session /\ (snd'[k].status = "cancelled" => snd'[k].cancelled)
  /\ \A t \in Transfer : Single(t) /\ Agreed(t) => Agreed(t)'

\* The sender of j is steered, and its peer told.
LEMMA OneSteered ==
  ASSUME IInv, MapInv, NEW j \in Attempt, j = Newest(j[1]), NEW s \in SenderState, s = snd[j],
         NEW q \in SenderState, snd' = [snd EXCEPT ![j] = q],
         UNCHANGED <<tries, byId, rcv, onScreen, toSender>>,
         NEW m \in Messages, toReceiver' = toReceiver \/ toReceiver' = Append(toReceiver, m),
         m.type \notin {"chunk", "cancel-all"}, m.t = j[1],
         m.type = "cancel" => q.status \in Over,
         q.session = s.session, q.queued = s.queued, q.run = s.run, q.overtaken = s.overtaken,
         q.status = "completed" <=> s.status = "completed",
         s.status \in Over => q.status \in Over,
         q.status = "cancelled" =>
           q.cancelled /\ (s.status = "cancelled" \/ (m.type = "cancel" /\ toReceiver' = Append(toReceiver, m)))
  PROVE  SidesKept
<1>1. \A k \in Attempt : snd'[k] = IF k = j THEN q ELSE snd[k]
  BY DEF IInv, Typed
<1>2. \A k \in Attempt : snd'[k].session = snd[k].session /\ (snd'[k].status = "cancelled" => snd'[k].cancelled)
  BY <1>1 DEF MapInv
<1>3. ASSUME NEW t \in Transfer, Single(t), Agreed(t) PROVE Agreed(t)'
  <2> PICK k : k = Newest(t)
    OBVIOUS
  <2>1. k \in Attempt /\ k[1] = t
    BY <1>3, SingleFacts
  <2>2. CASE k = j
    <3>1. q = snd'[k] /\ s = snd[k] /\ m.t = t
      BY <1>1, <2>1, <2>2
    <3>2. Kills(m, t) <=> m.type = "cancel"
      BY <3>1 DEF Kills
    <3> QED BY <1>3, <3>1, <3>2, SteeredAgrees
  <2>3. CASE k # j
    <3>1. snd'[k] = snd[k] /\ m.t # t
      BY <1>1, <2>1, <2>3
    <3>2. ~Kills(m, t)
      BY <3>1 DEF Kills
    <3> QED BY <1>3, <3>1, <3>2, SteeredAgrees
  <2> QED BY <2>2, <2>3
<1> QED BY <1>2, <1>3 DEF SidesKept

LEMMA PausesAgree ==
  ASSUME IInv, MapInv, NEW u \in Transfer, SenderPauses(u), UNCHANGED <<link, toSender, receiving>>
  PROVE  SidesKept
<1> PICK j : j = Newest(u)
  OBVIOUS
<1>1. j \in Attempt /\ j[1] = u /\ j \in Senders
  BY SendersFacts, NewestFacts DEF SenderPauses, IInv
<1>2. UNCHANGED <<tries, byId, rcv, onScreen, toSender>>
  BY DEF SenderPauses, receiving
<1> PICK s \in SenderState : s = snd[j]
  BY <1>1 DEF IInv, Typed
<1> DEFINE P == [s EXCEPT !.paused = TRUE, !.status = "paused"]
           R == [s EXCEPT !.paused = FALSE, !.status = "transferring"]
<1>3. /\ P \in SenderState /\ P.session = s.session /\ P.queued = s.queued /\ P.run = s.run /\ P.status = "paused"
      /\ R \in SenderState /\ R.session = s.session /\ R.queued = s.queued /\ R.run = s.run /\ R.status = "transferring"
      /\ P.overtaken = s.overtaken /\ R.overtaken = s.overtaken
  BY EntryFacts DEF SenderState
<1>4. \/ s.status = "transferring" /\ SetSender(j, P) /\ TellReceiver(Message("pause", u))
      \/ s.status = "paused" /\ SetSender(j, R) /\ TellReceiver(Message("resume", u))
  BY DEF SenderPauses
<1> HIDE DEF P, R
<1>5. PICK q \in {P, R}, type \in {"pause", "resume"} :
        s.status \in {"transferring", "paused"} /\ SetSender(j, q) /\ TellReceiver(Message(type, u))
  BY <1>4
<1> PICK m : m = Message(type, u)
  OBVIOUS
<1>6. m \in Messages /\ m.type \in {"pause", "resume"} /\ m.t = u
  BY MessageFacts
<1>7. snd' = [snd EXCEPT ![j] = q] /\ (toReceiver' = toReceiver \/ toReceiver' = Append(toReceiver, m))
  BY <1>5 DEF SetSender, TellReceiver
<1>8. q \in SenderState /\ q.session = s.session /\ q.queued = s.queued /\ q.run = s.run
      /\ q.overtaken = s.overtaken /\ q.status \in {"transferring", "paused"}
  BY <1>3
<1>9. s.status \notin Over
  BY <1>5, EntryFacts DEF Over
<1> QED BY <1>1, <1>2, <1>5, <1>6, <1>7, <1>8, <1>9, OneSteered

\* What cancel() and fail() make of a sender.
LEMMA StopFacts ==
  ASSUME IInv, MapInv, NEW K, NEW st \in {"cancelled", "failed"}, NEW X, StopSenders(K, st, X)
  PROVE  \A k \in Attempt :
           /\ snd'[k].session = snd[k].session /\ snd'[k].queued = snd[k].queued /\ snd'[k].run = snd[k].run
           /\ snd'[k].overtaken = snd[k].overtaken
           /\ snd'[k].status = IF k \in K /\ snd[k].status \notin Settled THEN st ELSE snd[k].status
           /\ snd'[k].status = "cancelled" => snd'[k].cancelled
<1> TAKE k \in Attempt
<1> PICK s \in SenderState : s = snd[k]
  BY DEF IInv, Typed
<1>1. snd'[k] = IF k \in K /\ s.status \notin Settled THEN [s EXCEPT !.status = st, !.cancelled = TRUE] ELSE s
  BY DEF StopSenders
<1>2. s.status = "cancelled" => s.cancelled
  BY DEF MapInv
<1> QED BY <1>1, <1>2 DEF SenderState

LEMMA CancelsAgree ==
  ASSUME IInv, MapInv, NEW u \in Transfer, SenderCancels(u), UNCHANGED <<link, toSender, receiving>>
  PROVE  SidesKept
<1> PICK j : j = Newest(u)
  OBVIOUS
<1> PICK m : m = Message("cancel", u)
  OBVIOUS
<1>1. UNCHANGED <<tries, byId, rcv, onScreen, toSender>> /\ m \in Messages /\ m.type = "cancel" /\ m.t = u
      /\ (toReceiver' = toReceiver \/ toReceiver' = Append(toReceiver, m))
  BY MessageFacts DEF SenderCancels, TellReceiver, receiving
<1>2. \/ /\ j \in Senders /\ StopSenders({j}, "cancelled", {})
         /\ IF snd[j].status \in Settled THEN UNCHANGED toReceiver ELSE TellReceiver(m)
      \/ UNCHANGED <<snd, toReceiver>>
  BY DEF SenderCancels
<1>3. \A k \in Attempt : snd'[k].session = snd[k].session /\ (snd'[k].status = "cancelled" => snd'[k].cancelled)
  BY <1>2, StopFacts DEF MapInv
<1>4. ASSUME NEW t \in Transfer, Single(t), Agreed(t) PROVE Agreed(t)'
  <2> PICK k : k = Newest(t)
    OBVIOUS
  <2>1. k \in Attempt /\ k[1] = t /\ k \in Senders /\ Linked /\ (k = j => t = u) /\ (t = u => k = j)
    BY <1>4, SingleFacts, NewestFacts DEF IInv
  <2>2. CASE k # j \/ UNCHANGED <<snd, toReceiver>>
    <3>1. /\ snd'[k].queued = snd[k].queued /\ snd'[k].run = snd[k].run /\ snd'[k].status = snd[k].status
          /\ snd'[k].overtaken = snd[k].overtaken
          /\ Kills(m, t) => t = u
      BY <1>1, <1>2, <2>1, <2>2, StopFacts DEF Kills
    <3>2. CASE k # j
      <4>1. ~Kills(m, t)
        BY <2>1, <3>1, <3>2
      <4> QED BY <1>1, <1>4, <3>1, <4>1, SteeredAgrees
    <3>3. CASE UNCHANGED <<snd, toReceiver>>
      <4> PICK n : n = Message("pause", u)
        OBVIOUS
      <4>1. n \in Messages /\ ~Kills(n, t) /\ n.type # "chunk"
        BY MessageFacts DEF Kills
      <4> QED BY <1>1, <1>4, <3>3, <4>1, SteeredAgrees
    <3> QED BY <2>2, <3>2, <3>3
  <2>3. CASE k = j /\ StopSenders({j}, "cancelled", {})
             /\ IF snd[j].status \in Settled THEN UNCHANGED toReceiver ELSE TellReceiver(m)
    <3>1. /\ snd'[k].queued = snd[k].queued /\ snd'[k].run = snd[k].run /\ snd'[k].overtaken = snd[k].overtaken
          /\ snd'[k].status = IF snd[k].status \notin Settled THEN "cancelled" ELSE snd[k].status
      BY <2>1, <2>3, StopFacts
    <3>2. CASE snd[k].status \in Settled
      <4> PICK n : n = Message("pause", u)
        OBVIOUS
      <4>1. n \in Messages /\ ~Kills(n, t) /\ n.type # "chunk"
        BY MessageFacts DEF Kills
      <4> QED BY <1>1, <1>4, <2>3, <3>1, <3>2, <4>1, SteeredAgrees
    <3>3. CASE snd[k].status \notin Settled
      <4>1. Kills(m, t) /\ toReceiver' = Append(toReceiver, m)
        BY <1>1, <2>1, <2>3, <3>3 DEF Kills, TellReceiver
      <4>2. snd'[k].status = "cancelled" /\ snd[k].status # "completed"
        BY <3>1, <3>3, EntryFacts
      <4> QED BY <1>1, <1>4, <3>1, <4>1, <4>2, EntryFacts, SteeredAgrees
    <3> QED BY <3>2, <3>3
  <2> QED BY <1>2, <2>2, <2>3
<1> QED BY <1>3, <1>4 DEF SidesKept

LEMMA CancelsAllAgree ==
  ASSUME IInv, MapInv, SenderCancelsAll, UNCHANGED <<link, toSender, receiving>>
  PROVE  SidesKept
<1> PICK m : m = Message("cancel-all", None)
  OBVIOUS
<1>1. UNCHANGED <<tries, byId, rcv, onScreen, toSender>> /\ m \in Messages /\ m.type = "cancel-all"
      /\ TellReceiver(m) /\ StopSenders(Senders, "cancelled", Cancellable(sEntry))
  BY MessageFacts DEF SenderCancelsAll, receiving
<1>2. \A k \in Attempt : snd'[k].session = snd[k].session /\ (snd'[k].status = "cancelled" => snd'[k].cancelled)
  BY <1>1, StopFacts
<1>3. ASSUME NEW t \in Transfer, Single(t), Agreed(t) PROVE Agreed(t)'
  <2> PICK k : k = Newest(t)
    OBVIOUS
  <2>1. k \in Attempt /\ k \in Senders /\ Linked
    BY <1>3, SingleFacts
  <2>2. Kills(m, t) /\ toReceiver' = Append(toReceiver, m)
    BY <1>1, <2>1 DEF Kills, TellReceiver
  <2>3. /\ snd'[k].queued = snd[k].queued /\ snd'[k].run = snd[k].run /\ snd'[k].overtaken = snd[k].overtaken
        /\ snd'[k].status = IF snd[k].status \notin Settled THEN "cancelled" ELSE snd[k].status
    BY <1>1, <2>1, StopFacts
  <2>4. snd'[k].status \in Over /\ (snd'[k].status = "completed" <=> snd[k].status = "completed")
    BY <2>3, EntryFacts
  <2> QED BY <1>1, <1>3, <2>2, <2>3, <2>4, SteeredAgrees
<1> QED BY <1>2, <1>3 DEF SidesKept

\* The run() of j goes on.
LEMMA OneRan ==
  ASSUME IInv, FileInv, MapInv, NEW j \in Attempt, NEW s \in SenderState, s = snd[j],
         NEW q \in SenderState, snd' = [snd EXCEPT ![j] = q],
         UNCHANGED <<tries, byId, rcv, onScreen, toSender>>,
         NEW m \in Messages, toReceiver' = toReceiver \/ toReceiver' = Append(toReceiver, m),
         m.type \in {"chunk", "pause"}, m.t = j[1], m.type = "chunk" => SenderOpen(j),
         q.session = s.session,
         \/ s.run # "idle" /\ q.queued = s.queued
         \/ s.queued > 0 /\ q.queued = s.queued - 1,
         q.status = s.status \/ (s.status \notin Settled /\ q.status = "failed")
           \/ (~s.cancelled /\ s.queued > 0 /\ s.run = "idle" /\ q.status \in {"transferring", "failed"}),
         s.cancelled => q.cancelled, s.overtaken => q.overtaken,
         s.status = "completed" /\ q.status # "completed" => q.overtaken \/ FileSize[j[1]] > 0
  PROVE  SidesKept
<1>1. \A k \in Attempt : snd'[k] = IF k = j THEN q ELSE snd[k]
  BY DEF IInv, Typed
<1>2. \A k \in Attempt : snd'[k].session = snd[k].session /\ (snd'[k].status = "cancelled" => snd'[k].cancelled)
  BY <1>1 DEF MapInv
<1>3. ASSUME NEW t \in Transfer, Single(t), Agreed(t) PROVE Agreed(t)'
  <2> PICK k : k = Newest(t)
    OBVIOUS
  <2>1. /\ k \in Attempt /\ k[1] = t /\ session["sender"] = sessions
        /\ \A o \in Attempt : o[1] = t /\ snd[o].session = sessions => o = k
    BY <1>3, SingleFacts
  <2>2. ~Kills(m, t)
    BY DEF Kills
  <2>3. CASE k = j
    <3>1. q = snd'[k] /\ s = snd[k]
      BY <1>1, <2>1, <2>3
    <3>2. s.cancelled \/ s.status \notin {"cancelled", "failed"}
      BY DEF MapInv, IInv, ObjectInv
    <3>3. s.queued \in Nat /\ (s.queued > 0 /\ q.queued = s.queued - 1 => (s.queued = 1 => q.queued = 0))
      BY DEF SenderState
    <3>4. s.run # "idle" => FileSize[t] > 0
      BY <2>1, <2>3 DEF FileInv, Within
    <3>5. s.status = "completed" /\ q.status # "completed" => q.overtaken \/ FileSize[t] > 0
      BY <2>1, <2>3
    <3>6. \/ s.run # "idle" /\ q.queued = s.queued
          \/ s.queued > 0 /\ (s.queued = 1 => q.queued = 0)
      BY <3>3
    <3>7. q.status = s.status \/ (s.status \notin Settled /\ q.status = "failed")
            \/ (s.status \notin {"cancelled", "failed"} /\ s.queued > 0 /\ s.run = "idle" /\ q.status \in {"transferring", "failed"})
      BY <3>2
    <3> QED BY <1>3, <2>2, <3>1, <3>3, <3>4, <3>5, <3>6, <3>7, RunAgrees
  <2>4. CASE k # j
    <3>1. snd'[k] = snd[k]
      BY <1>1, <2>1, <2>4
    <3>2. m.type = "chunk" => m.t # t
      BY <2>1, <2>4 DEF SenderOpen
    <3> QED BY <1>3, <2>2, <3>1, <3>2, SteeredAgrees
  <2> QED BY <2>3, <2>4
<1> QED BY <1>2, <1>3 DEF SidesKept

\* It says nothing.
LEMMA OneRanSilently ==
  ASSUME IInv, FileInv, MapInv, NEW j \in Attempt, NEW s \in SenderState, s = snd[j],
         NEW q \in SenderState, snd' = [snd EXCEPT ![j] = q],
         UNCHANGED <<tries, byId, rcv, onScreen, toSender, toReceiver>>,
         q.session = s.session,
         \/ s.run # "idle" /\ q.queued = s.queued
         \/ s.queued > 0 /\ q.queued = s.queued - 1,
         q.status = s.status \/ (s.status \notin Settled /\ q.status = "failed")
           \/ (~s.cancelled /\ s.queued > 0 /\ s.run = "idle" /\ q.status \in {"transferring", "failed"}),
         s.cancelled => q.cancelled, s.overtaken => q.overtaken,
         s.status = "completed" /\ q.status # "completed" => q.overtaken \/ FileSize[j[1]] > 0
  PROVE  SidesKept
<1> PICK m : m = Message("pause", j[1])
  OBVIOUS
<1>1. m \in Messages /\ m.type = "pause" /\ m.t = j[1]
  BY ReplyFacts
<1> QED BY <1>1, OneRan

LEMMA EndRunAgrees ==
  ASSUME IInv, FileInv, MapInv, NEW j \in Attempt, snd[j].run # "idle", EndRun(j) \/ FailRun(j),
         UNCHANGED <<tries, byId, rcv, onScreen, toSender, toReceiver>>
  PROVE  SidesKept
<1> PICK s \in SenderState : s = snd[j]
  BY DEF IInv, Typed
<1>1. ASSUME EndRun(j) PROVE SidesKept
  <2> DEFINE q == [s EXCEPT !.run = "idle"]
  <2>1. q \in SenderState /\ q.session = s.session /\ q.status = s.status /\ q.queued = s.queued /\ q.cancelled = s.cancelled
        /\ q.overtaken = s.overtaken
    BY DEF SenderState
  <2>2. snd' = [snd EXCEPT ![j] = q]
    BY <1>1 DEF EndRun
  <2> HIDE DEF q
  <2> QED BY <2>1, <2>2, OneRanSilently
<1>2. ASSUME s.status \notin Settled, FailRun(j) PROVE SidesKept
  <2> DEFINE q == [s EXCEPT !.run = "idle", !.status = "failed", !.cancelled = TRUE]
  <2>1. q \in SenderState /\ q.session = s.session /\ q.status = "failed" /\ q.queued = s.queued /\ q.cancelled
        /\ q.overtaken = s.overtaken
    BY EntryFacts DEF SenderState
  <2>2. snd' = [snd EXCEPT ![j] = q]
    BY <1>2 DEF FailRun, SetSender
  <2> HIDE DEF q
  <2> QED BY <1>2, <2>1, <2>2, EntryFacts, OneRanSilently
<1> QED BY <1>1, <1>2 DEF FailRun

LEMMA GateAgrees ==
  ASSUME IInv, FileInv, MapInv, NEW j \in Attempt, TakeGate(j), UNCHANGED <<link, toSender, tries, receiving>>
  PROVE  SidesKept
<1>1. UNCHANGED <<tries, byId, rcv, onScreen, toSender, toReceiver>>
  BY DEF TakeGate, receiving
<1> PICK s \in SenderState : s = snd[j]
  BY DEF IInv, Typed
<1>2. s.queued > 0 /\ s.run = "idle" /\ s.queued \in Nat
  BY DEF TakeGate, CanRun, SenderState
<1> PICK n \in Nat : n = s.queued - 1
  BY <1>2
<1> DEFINE p == [s EXCEPT !.queued = n]
<1>3. p \in SenderState /\ p.session = s.session /\ p.status = s.status /\ p.queued = n /\ p.cancelled = s.cancelled
      /\ p.overtaken = s.overtaken /\ p.offset \in Nat /\ p = [snd[j] EXCEPT !.queued = @ - 1]
  BY DEF SenderState
<1> HIDE DEF p
<1>4. CASE s.cancelled
  <2>1. snd' = [snd EXCEPT ![j] = p]
    BY <1>3, <1>4 DEF TakeGate
  <2> QED BY <1>1, <1>2, <1>3, <1>4, <2>1, OneRanSilently
<1>5. CASE ~s.cancelled
  <2> PICK q : q = Started(j, p)
    OBVIOUS
  <2>1. snd' = [snd EXCEPT ![j] = q]
    BY <1>3, <1>5 DEF TakeGate, SetSender
  <2>2. CASE p.offset < FileSize[j[1]] /\ q = [p EXCEPT !.status = "failed", !.cancelled = TRUE]
    <3>1. q \in SenderState /\ q.session = p.session /\ q.status = "failed" /\ q.queued = p.queued
          /\ q.overtaken = p.overtaken
      BY <2>2, <1>3, EntryFacts DEF SenderState
    <3>2. FileSize[j[1]] > 0
      BY <1>3, <2>2, SizeFacts
    <3> QED BY <1>1, <1>2, <1>3, <1>5, <2>1, <3>1, <3>2, OneRanSilently
  <2>3. CASE q = [p EXCEPT !.run = NextStage(j, p.offset), !.status = "transferring",
                           !.stray = @ \/ j \notin Senders, !.overtaken = @ \/ p.status = "completed"]
    <3> PICK b \in BOOLEAN : b = (p.stray \/ j \notin Senders)
      OBVIOUS
    <3> PICK c \in BOOLEAN : c = (p.overtaken \/ p.status = "completed")
      OBVIOUS
    <3>1. NextStage(j, p.offset) \in {"idle", "loop"}
      BY DEF NextStage
    <3>2. q = [p EXCEPT !.run = NextStage(j, p.offset), !.status = "transferring", !.stray = b, !.overtaken = c]
      BY <2>3
    <3>3. q \in SenderState /\ q.session = p.session /\ q.status = "transferring" /\ q.queued = p.queued
          /\ q.overtaken = c
      BY <1>3, <3>1, <3>2, EntryFacts DEF SenderState
    <3> QED BY <1>1, <1>2, <1>3, <1>5, <2>1, <3>3, OneRanSilently
  <2> QED BY <2>2, <2>3 DEF Started
<1> QED BY <1>4, <1>5

LEMMA LoopAgrees ==
  ASSUME IInv, FileInv, MapInv, NEW j \in Attempt, LoopTurn(j), UNCHANGED <<link, toSender, tries, receiving>>
  PROVE  SidesKept
<1>1. UNCHANGED <<tries, byId, rcv, onScreen, toSender, toReceiver>> /\ snd[j].run # "idle"
  BY DEF LoopTurn, receiving
<1>2. ASSUME EndRun(j) \/ FailRun(j) PROVE SidesKept
  BY <1>1, <1>2, EndRunAgrees
<1>3. ASSUME snd' = [snd EXCEPT ![j].run = "reading", ![j].end = snd[j].offset + 1]
      PROVE  SidesKept
  <2> PICK s \in SenderState : s = snd[j]
    BY DEF IInv, Typed
  <2> PICK e \in Nat : e = s.offset + 1
    BY DEF SenderState
  <2> DEFINE q == [s EXCEPT !.run = "reading", !.end = e]
  <2>1. snd' = [snd EXCEPT ![j] = q]
    BY <1>3 DEF IInv, Typed
  <2>2. q \in SenderState /\ q.session = s.session /\ q.status = s.status /\ q.queued = s.queued /\ q.cancelled = s.cancelled
        /\ q.overtaken = s.overtaken
    BY DEF SenderState
  <2> HIDE DEF q
  <2> QED BY <1>1, <2>1, <2>2, OneRanSilently
<1> QED BY <1>2, <1>3 DEF LoopTurn

LEMMA ReadAgrees ==
  ASSUME IInv, FileInv, MapInv, NEW j \in Attempt, ReadDone(j), UNCHANGED <<link, toSender, tries, receiving>>
  PROVE  SidesKept
<1>1. UNCHANGED <<tries, byId, rcv, onScreen, toSender>> /\ snd[j].run # "idle"
  BY DEF ReadDone, receiving
<1>2. ASSUME EndRun(j) \/ FailRun(j), UNCHANGED toReceiver PROVE SidesKept
  BY <1>1, <1>2, EndRunAgrees
<1>3. ASSUME SenderOpen(j), TellReceiver(KeyMessage("chunk", j, snd[j].index)),
             snd' = [snd EXCEPT ![j].run = NextStage(j, snd[j].end), ![j].offset = snd[j].end, ![j].index = @ + 1]
      PROVE  SidesKept
  <2> PICK s \in SenderState : s = snd[j]
    BY DEF IInv, Typed
  <2> PICK g \in {"idle", "loop"}, o \in Nat, i \in Nat :
        g = NextStage(j, s.end) /\ o = s.end /\ i = s.index + 1
    BY DEF NextStage, SenderState
  <2> DEFINE q == [s EXCEPT !.run = g, !.offset = o, !.index = i]
  <2>1. snd' = [snd EXCEPT ![j] = q]
    BY <1>3 DEF IInv, Typed
  <2>2. q \in SenderState /\ q.session = s.session /\ q.status = s.status /\ q.queued = s.queued /\ q.cancelled = s.cancelled
        /\ q.overtaken = s.overtaken
    BY DEF SenderState
  <2> HIDE DEF q
  <2> PICK m : m = KeyMessage("chunk", j, s.index)
    OBVIOUS
  <2>3. m \in Messages /\ m.type = "chunk" /\ m.t = j[1]
    BY MessageFacts DEF SenderState
  <2>4. toReceiver' = toReceiver \/ toReceiver' = Append(toReceiver, m)
    BY <1>3 DEF TellReceiver
  <2>5. SenderOpen(j)
    BY <1>3
  <2> QED BY <1>1, <2>1, <2>2, <2>3, <2>4, <2>5, OneRan
<1> QED BY <1>2, <1>3 DEF ReadDone

LEMMA RunsAgree == ASSUME IInv, FileInv, MapInv, SenderRuns PROVE SidesKept
<1>1. UNCHANGED <<link, toSender, tries, receiving>>
  BY DEF SenderRuns
<1>2. ASSUME NEW j \in Attempt, ReadFails(j) PROVE SidesKept
  <2>1. UNCHANGED <<tries, byId, rcv, onScreen, toSender, toReceiver>> /\ snd[j].run # "idle" /\ FailRun(j)
    BY <1>1, <1>2 DEF ReadFails, receiving
  <2> QED BY <2>1, EndRunAgrees
<1> QED BY <1>1, <1>2, GateAgrees, LoopAgrees, ReadAgrees DEF SenderRuns

\* What the sender of j makes of m, a message about its transfer.
LEMMA OneHeard ==
  ASSUME IInv, MapInv, NEW j \in Attempt, j = Newest(j[1]), NEW s \in SenderState, s = snd[j],
         NEW q \in SenderState, snd' = [snd EXCEPT ![j] = q],
         UNCHANGED <<tries, byId, rcv, onScreen, toReceiver>>,
         NEW m, m = Head(toSender), toSender # <<>>, toSender' = Tail(toSender),
         m.type # "cancel-all", m.t = j[1], q.run = s.run, q.session = s.session, q.overtaken = s.overtaken,
         q.status = "cancelled" => q.cancelled,
         \/ m.type = "cancel" /\ q.status = (IF s.status \in Settled THEN s.status ELSE "cancelled") /\ q.queued = s.queued
         \/ m.type = "accept" /\ q.status = s.status /\ q.queued = s.queued + 1
         \/ m.type = "reject" /\ q.status = (IF s.status \in Settled THEN s.status ELSE "failed") /\ q.queued = s.queued
         \/ m.type = "complete" /\ q.status = "completed" /\ q.queued = s.queued
         \/ /\ m.type \in {"pause", "resume"} /\ q.queued = s.queued
            /\ q.status = s.status \/ (s.status \notin Over /\ q.status \notin Over)
  PROVE  SidesKept
<1>1. \A k \in Attempt : snd'[k] = IF k = j THEN q ELSE snd[k]
  BY DEF IInv, Typed
<1>2. \A k \in Attempt : snd'[k].session = snd[k].session /\ (snd'[k].status = "cancelled" => snd'[k].cancelled)
  BY <1>1 DEF MapInv
<1>3. ASSUME NEW t \in Transfer, Single(t), Agreed(t) PROVE Agreed(t)'
  <2> PICK k : k = Newest(t)
    OBVIOUS
  <2>1. k \in Attempt /\ k[1] = t
    BY <1>3, SingleFacts
  <2>2. CASE k = j
    <3>1. q = snd'[k] /\ s = snd[k] /\ m.t = t
      BY <1>1, <2>1, <2>2
    <3>2. m.type = "cancel" => Kills(m, t)
      BY <3>1 DEF Kills
    <3> QED BY <1>3, <3>1, <3>2, HeardAgrees
  <2>3. CASE k # j
    <3> PICK r \in SenderState : r = snd[k]
      BY <2>1 DEF IInv, Typed
    <3>1. snd'[k] = r /\ m.t # t
      BY <1>1, <2>1, <2>3
    <3> QED BY <1>3, <3>1, HeardAgrees
  <2> QED BY <2>2, <2>3
<1> QED BY <1>2, <1>3 DEF SidesKept

LEMMA GetsAgree == ASSUME IInv, MapInv, SenderGets PROVE SidesKept
<1>1. /\ UNCHANGED <<tries, byId, rcv, onScreen, toReceiver>>
      /\ toSender # <<>> /\ toSender' = Tail(toSender)
  BY DEF SenderGets, receiving
<1> PICK m : m = Head(toSender)
  OBVIOUS
<1>2. m \in Messages /\ Valid(m)
  BY <1>1, TailFacts DEF IInv, Typed, ReplyInv
<1>3. CASE m.type = "cancel-all"
  <2>1. StopSenders(Senders, "cancelled", {})
    BY <1>3 DEF SenderGets
  <2>2. \A k \in Attempt : snd'[k].session = snd[k].session /\ (snd'[k].status = "cancelled" => snd'[k].cancelled)
    BY <2>1, StopFacts
  <2>3. ASSUME NEW t \in Transfer, Single(t), Agreed(t) PROVE Agreed(t)'
    <3> PICK k : k = Newest(t)
      OBVIOUS
    <3>1. k \in Attempt /\ k \in Senders
      BY <2>3, SingleFacts
    <3> PICK s \in SenderState : s = snd[k]
      BY <3>1 DEF IInv, Typed
    <3>2. /\ snd'[k].queued = s.queued /\ snd'[k].run = s.run /\ snd'[k].overtaken = s.overtaken
          /\ snd'[k].status = IF s.status \in Settled THEN s.status ELSE "cancelled"
      BY <2>1, <3>1, StopFacts
    <3>3. Kills(m, t)
      BY <1>3 DEF Kills
    <3> QED BY <1>1, <2>3, <3>2, <3>3, HeardAgrees
  <2> QED BY <2>2, <2>3 DEF SidesKept
<1>4. CASE m.type # "cancel-all"
  <2> PICK j : j = Newest(m.t)
    OBVIOUS
  <2>1. OnMessage(j, m)
    BY <1>4 DEF SenderGets
  <2>2. m.t \in Transfer /\ tries[m.t] > 0
    BY <1>2, <1>4 DEF Valid
  <2>3. j \in Attempt /\ j[1] = m.t /\ j = Newest(j[1])
    BY <2>2, NewestFacts DEF IInv
  <2> PICK s \in SenderState : s = snd[j]
    BY <2>3 DEF IInv, Typed
  <2>4. s.status = "cancelled" => s.cancelled
    BY <2>3 DEF MapInv
  <2>5. ASSUME m.type = "accept", OnAccept(j, m) PROVE SidesKept
    <3> PICK from : from = IF m.at > FileSize[j[1]] THEN FileSize[j[1]] ELSE m.at
      OBVIOUS
    <3>1. from \in Nat
      BY <1>2, <2>3, SizeFacts DEF Messages
    <3> PICK n \in Nat : n = s.queued + 1
      BY DEF SenderState
    <3> DEFINE q == [s EXCEPT !.queued = n, !.offset = from, !.index = from]
    <3>2. q \in SenderState /\ q.session = s.session /\ q.status = s.status /\ q.run = s.run
          /\ q.queued = s.queued + 1 /\ (q.status = "cancelled" => q.cancelled) /\ q.overtaken = s.overtaken
      BY <2>4, <3>1 DEF SenderState
    <3>4. m.type = "accept"
      BY <2>5
    <3>3. snd' = [snd EXCEPT ![j] = q]
      BY <2>3, <2>5 DEF OnAccept, IInv, Typed
    <3> HIDE DEF q
    <3> QED BY <1>1, <1>4, <2>3, <3>2, <3>3, <3>4, OneHeard
  <2>6. ASSUME m.type = "reject", snd[j].status \in Settled, snd' = [snd EXCEPT ![j].cancelled = TRUE] PROVE SidesKept
    <3> DEFINE q == [s EXCEPT !.cancelled = TRUE]
    <3>1. q \in SenderState /\ q.session = s.session /\ q.status = s.status /\ q.run = s.run
          /\ q.queued = s.queued /\ (q.status = "cancelled" => q.cancelled) /\ q.overtaken = s.overtaken
      BY DEF SenderState
    <3>2. snd' = [snd EXCEPT ![j] = q]
      BY <2>3, <2>6 DEF IInv, Typed
    <3>3. m.type = "reject" /\ q.status = (IF s.status \in Settled THEN s.status ELSE "failed")
      BY <2>6, <3>1
    <3> HIDE DEF q
    <3> QED BY <1>1, <1>4, <2>3, <3>1, <3>2, <3>3, OneHeard
  <2>7. ASSUME NEW st \in {"failed", "cancelled"}, StopSenders({j}, st, {}),
               \/ m.type = "reject" /\ st = "failed" /\ snd[j].status \notin Settled
               \/ m.type = "cancel" /\ st = "cancelled"
        PROVE  SidesKept
    <3> DEFINE q == IF s.status \in Settled THEN s ELSE [s EXCEPT !.status = st, !.cancelled = TRUE]
    <3>1. q \in SenderState /\ q.session = s.session /\ q.run = s.run /\ q.queued = s.queued
          /\ q.overtaken = s.overtaken /\ q.status = (IF s.status \in Settled THEN s.status ELSE st) /\ (q.status = "cancelled" => q.cancelled)
      BY <2>4, EntryFacts DEF SenderState
    <3>2. snd' = [snd EXCEPT ![j] = q]
      BY <2>3, <2>7 DEF StopSenders, IInv, Typed
    <3>3. \/ m.type = "cancel" /\ q.status = (IF s.status \in Settled THEN s.status ELSE "cancelled")
          \/ m.type = "reject" /\ q.status = (IF s.status \in Settled THEN s.status ELSE "failed")
      BY <2>7, <3>1
    <3> HIDE DEF q
    <3> QED BY <1>1, <1>4, <2>3, <3>1, <3>2, <3>3, OneHeard
  <2>8. ASSUME m.type = "complete", OnComplete(j) PROVE SidesKept
    <3> DEFINE q == [s EXCEPT !.status = "completed"]
    <3>1. q \in SenderState /\ q.session = s.session /\ q.run = s.run /\ q.queued = s.queued /\ q.status = "completed"
          /\ q.overtaken = s.overtaken
      BY EntryFacts DEF SenderState
    <3>2. snd' = [snd EXCEPT ![j] = q]
      BY <2>8 DEF OnComplete, SetSender
    <3> HIDE DEF q
    <3> QED BY <1>1, <1>4, <2>3, <2>8, <3>1, <3>2, OneHeard
  <2>9. ASSUME OnSteered(j, m) PROVE SidesKept
    <3> DEFINE P == [s EXCEPT !.paused = TRUE, !.status = "paused"]
               R == [s EXCEPT !.paused = FALSE, !.status = "transferring"]
    <3>1. /\ P \in SenderState /\ P.session = s.session /\ P.queued = s.queued /\ P.run = s.run /\ P.status = "paused"
          /\ R \in SenderState /\ R.session = s.session /\ R.queued = s.queued /\ R.run = s.run /\ R.status = "transferring"
          /\ P.overtaken = s.overtaken /\ R.overtaken = s.overtaken
      BY EntryFacts DEF SenderState
    <3>2. \/ s.status = "transferring" /\ SetSender(j, P)
          \/ s.status = "paused" /\ SetSender(j, R)
          \/ UNCHANGED snd
      BY <2>9 DEF OnSteered
    <3>3. m.type \in {"pause", "resume"}
      BY <2>9 DEF OnSteered
    <3> HIDE DEF P, R
    <3>4. PICK q \in {P, R, s} : snd' = [snd EXCEPT ![j] = q] /\ (q = s \/ (s.status \in {"transferring", "paused"} /\ q \in {P, R}))
      BY <2>3, <3>2 DEF SetSender, IInv, Typed
    <3>5. /\ q \in SenderState /\ q.session = s.session /\ q.queued = s.queued /\ q.run = s.run
          /\ q.overtaken = s.overtaken
          /\ q.status = s.status \/ (s.status \notin Over /\ q.status \notin Over)
          /\ q.status = "cancelled" => q.cancelled
      BY <2>4, <3>1, <3>4 DEF Over
    <3> QED BY <1>1, <1>4, <2>3, <3>3, <3>4, <3>5, OneHeard
  <2> QED BY <2>1, <2>5, <2>6, <2>7, <2>8, <2>9 DEF OnMessage, OnReject
<1> QED BY <1>3, <1>4

LEMMA MapStays ==
  ASSUME MapInv, UNCHANGED <<sessions, byKey>>,
         \A k \in Attempt : /\ snd'[k].session = snd[k].session /\ rcv'[k].session = rcv[k].session
                            /\ snd'[k].status = "cancelled" => snd'[k].cancelled
  PROVE  MapInv'
BY DEF MapInv

LEMMA KeptAgrees ==
  ASSUME IInv, MapInv, SidesInv, SidesKept, UNCHANGED <<link, tries, receiving>>
  PROVE  MapInv' /\ SidesInv'
<1>1. UNCHANGED <<sessions, session, open, tries, rcv, byKey>>
  BY DEF link, receiving
<1>2. MapInv'
  BY <1>1, MapStays DEF SidesKept
<1>3. ASSUME NEW t \in Transfer, Single(t)' PROVE Single(t)
  <2>1. \A n \in 1..tries[t] : <<t, n>> \in Attempt
    BY NewestFacts, AttemptFacts, RegistryAssumption DEF IInv
  <2> QED BY <1>1, <1>3, <2>1 DEF Single, SidesKept
<1> QED BY <1>2, <1>3 DEF SidesInv, SidesKept

\* An offer: of its own transfer nothing is on its way in this session.
LEMMA OfferAgrees ==
  ASSUME IInv, MapInv, SidesInv, NEW t \in Transfer, Offer(t), UNCHANGED <<link, toSender, receiving>>
  PROVE  MapInv' /\ SidesInv'
<1> USE DEF IInv
<1>1. /\ UNCHANGED <<sessions, session, open, toSender>> /\ UNCHANGED <<rcv, byKey, byId, onScreen>>
  BY DEF link, receiving
<1>0. PICK n \in Nat : n = tries[t] + 1
  BY NewestFacts
<1>2. PICK k : k = <<t, n>> /\ n = tries[t] + 1
  BY <1>0
<1>3. PICK N \in Nat : N = session["sender"] /\ N = sessions /\ N > 0
  BY DEF Offer, LinkInv, Side, Typed
<1>4. /\ n \in 1..MaxAttempts /\ tries' = [tries EXCEPT ![t] = n] /\ snd' = [snd EXCEPT ![k] = NewSender(N)]
      /\ TellReceiver(KeyMessage("offer", k, 0))
  BY <1>2, <1>3, NewestFacts, RegistryAssumption DEF Offer
<1>5. k \in Attempt /\ k[1] = t /\ k[2] = n
  BY <1>2, <1>4, AttemptFacts
<1>6. \A u \in Transfer : tries'[u] = IF u = t THEN n ELSE tries[u]
  BY <1>4 DEF Typed
<1>7. \A j \in Attempt : snd'[j] = IF j = k THEN NewSender(N) ELSE snd[j]
  BY <1>4 DEF Typed
<1>8. \A u \in Transfer : Newest(u)' = IF u = t THEN k ELSE Newest(u)
  BY <1>2, <1>6 DEF Newest
<1>9. snd[k].session = 0 /\ rcv[k].session = 0 /\ byKey[k] = None
  <2>1. ~(k[2] <= tries[k[1]])
    BY <1>2, <1>5, NewestFacts
  <2>2. snd[k].session = 0 /\ byKey[k] = None
    BY <1>5, <2>1 DEF ObjectInv, ReceiverInv
  <2>3. rcv[k].session = 0
    BY <1>5, <2>1 DEF ReceiverInv
  <2> QED BY <2>2, <2>3
<1> PICK m : m = KeyMessage("offer", k, 0)
  OBVIOUS
<1>10. m \in Messages /\ m.type = "offer" /\ m.t = t /\ (toReceiver' = toReceiver \/ toReceiver' = Append(toReceiver, m))
  BY <1>4, <1>5, MessageFacts DEF TellReceiver
<1>11. toReceiver \in Seq(Messages)
  BY DEF Typed
<1>12. MapInv'
  <2>1. /\ NewSender(N).session = N /\ NewSender(N).status = "pending" /\ snd'[k] = NewSender(N)
    BY <1>5, <1>7 DEF NewSender
  <2> SUFFICES ASSUME NEW j \in Attempt
               PROVE  /\ byKey[j] # None => snd'[j].session = sessions
                      /\ rcv[j].session # 0 => rcv[j].session = snd'[j].session
                      /\ rcv[j].session # 0 /\ rcv[j].session = sessions => byKey[j] # None
                      /\ snd'[j].status = "cancelled" => snd'[j].cancelled
    BY <1>1 DEF MapInv
  <2>2. CASE j = k
    BY <2>1, <2>2, <1>9
  <2>3. CASE j # k
    BY <2>3, <1>7 DEF MapInv
  <2> QED BY <2>2, <2>3
<1>13. ASSUME NEW u \in Transfer, u # t, Single(u)' PROVE Agreed(u)'
  <2>1. tries'[u] = tries[u] /\ Newest(u)' = Newest(u)
    BY <1>6, <1>8, <1>13
  <2>2. \A i \in 1..tries[u] : <<u, i>> \in Attempt /\ <<u, i>> # k
    BY <1>5, <1>13, NewestFacts, AttemptFacts, RegistryAssumption
  <2>3. Single(u)
    BY <1>1, <1>7, <1>13, <2>1, <2>2 DEF Single
  <2>4. Agreed(u)
    BY <2>3 DEF SidesInv
  <2>5. snd'[Newest(u)] = snd[Newest(u)]
    BY <1>7, <1>5, <1>13, <2>3, SingleFacts
  <2> PICK w : w = toReceiver'
    OBVIOUS
  <2>6. /\ Has(w, "chunk", u) <=> Has(toReceiver, "chunk", u)
        /\ Killed(w, u) <=> Killed(toReceiver, u)
        /\ KilledAfterOffer(w, u) => KilledAfterOffer(toReceiver, u)
    <3>1. CASE toReceiver' = toReceiver
      BY <3>1
    <3>2. CASE toReceiver' = Append(toReceiver, m)
      <4>1. ~Kills(m, u)
        BY <1>10 DEF Kills
      <4> QED BY <1>10, <1>11, <3>2, <4>1, AppendSays
    <3> QED BY <1>10, <3>1, <3>2
  <2> PICK j : j = Newest(u)
    OBVIOUS
  <2>7. /\ byId[u] = None => Unseen(u, snd[j], toReceiver, toSender)
        /\ byId[u] = j =>
             /\ AnswerOnce(u, snd[j], rcv[j], u \in onScreen, toReceiver, toSender)
             /\ Told(u, snd[j], rcv[j], toReceiver, toSender)
    BY <2>4 DEF Agreed
  <2>8. Unseen(u, snd[j], toReceiver, toSender) => Unseen(u, snd[j], w, toSender)
    BY <2>6 DEF Unseen
  <2>9. AnswerOnce(u, snd[j], rcv[j], u \in onScreen, toReceiver, toSender)
          => AnswerOnce(u, snd[j], rcv[j], u \in onScreen, w, toSender)
    BY <2>6 DEF AnswerOnce, Still
  <2>10. Told(u, snd[j], rcv[j], toReceiver, toSender) => Told(u, snd[j], rcv[j], w, toSender)
    BY <2>6 DEF Told
  <2> QED BY <1>1, <2>1, <2>5, <2>7, <2>8, <2>9, <2>10 DEF Agreed
<1>14. ASSUME Single(t)' PROVE Agreed(t)'
  <2>1. \A i \in 1..tries[t] : <<t, i>> \in Attempt /\ snd[<<t, i>>].session # sessions
    <3> TAKE i \in 1..tries[t]
    <3>1. i \in 1..n /\ i # n /\ <<t, i>> \in Attempt /\ <<t, i>> # k
      BY <1>2, <1>5, NewestFacts, AttemptFacts, RegistryAssumption
    <3>2. snd'[<<t, i>>].session # sessions
      BY <1>1, <1>6, <1>14, <3>1 DEF Single
    <3> QED BY <1>7, <3>1, <3>2
  <2>2. byId[t] = None
    <3> SUFFICES ASSUME byId[t] # None PROVE FALSE
      OBVIOUS
    <3>1. PICK i \in 1..tries[t] : byKey[<<t, i>>] = byId[t]
      BY DEF ReceiverInv
    <3> QED BY <2>1, <3>1 DEF MapInv
  <2>3. ~Mentions(toSender, t)
    <3> SUFFICES ASSUME NEW i \in DOMAIN toSender, toSender[i].type # "cancel-all", toSender[i].t = t PROVE FALSE
      BY DEF Mentions
    <3>1. Valid(toSender[i])
      BY DEF ReplyInv
    <3>2. tries[t] > 0 /\ snd[Newest(t)].session = sessions
      BY <3>1 DEF Valid
    <3>3. tries[t] \in 1..tries[t]
      BY <3>2, NewestFacts
    <3> QED BY <2>1, <3>2, <3>3 DEF Newest
  <2>4. ~Has(toReceiver, "chunk", t) /\ ~Has(toReceiver, "offer", t)
    <3> SUFFICES ASSUME NEW i \in DOMAIN toReceiver, toReceiver[i].type \in {"chunk", "offer"}, toReceiver[i].t = t PROVE FALSE
      BY DEF Has
    <3> PICK p : p = toReceiver[i]
      OBVIOUS
    <3>1. Routed(i, p)
      BY DEF RouteInv
    <3>2. <<t, p.n>> \in Attempt /\ p.n <= tries[t] /\ snd[<<t, p.n>>].session = sessions
      BY <3>1 DEF Routed
    <3>3. p.n \in 1..tries[t]
      BY <3>2, AttemptFacts, NewestFacts
    <3> QED BY <2>1, <3>2, <3>3
  <2>5. ~KilledAfterOffer(toReceiver, t)
    BY <2>4 DEF KilledAfterOffer, Has
  <2> PICK w : w = toReceiver'
    OBVIOUS
  <2>6. ~Has(w, "chunk", t) /\ ~KilledAfterOffer(w, t)
    <3>1. CASE toReceiver' = toReceiver
      BY <3>1, <2>4, <2>5
    <3>2. CASE toReceiver' = Append(toReceiver, m)
      BY <1>10, <1>11, <3>2, <2>4, <2>5, AppendSays
    <3> QED BY <1>10, <3>1, <3>2
  <2>7. snd'[k] = NewSender(N)
    BY <1>5, <1>7
  <2>8. Unseen(t, NewSender(N), w, toSender)
    BY <2>3, <2>6 DEF Unseen, NewSender
  <2>9. byId'[t] # k
    BY <1>1, <2>2, <1>5, AttemptFacts
  <2>10. Newest(t)' = k
    BY <1>8
  <2> QED BY <1>1, <2>7, <2>8, <2>9, <2>10 DEF Agreed
<1>15. SidesInv'
  BY <1>13, <1>14 DEF SidesInv
<1> QED BY <1>12, <1>15

LEMMA SendingAgrees == ASSUME IInv, MapInv, SidesInv, SendingUser PROVE MapInv' /\ SidesInv'
<1>1. UNCHANGED <<link, toSender, receiving>>
  BY DEF SendingUser
<1>2. ASSUME NEW t \in Transfer, SendFile(t) \/ RetryTransfer(t) PROVE MapInv' /\ SidesInv'
  <2>1. Offer(t)
    BY <1>2 DEF SendFile, RetryTransfer
  <2> QED BY <1>1, <2>1, OfferAgrees
<1>3. ASSUME NEW t \in Transfer, SenderPauses(t) PROVE SidesKept /\ UNCHANGED tries
  BY <1>1, <1>3, PausesAgree DEF SenderPauses
<1>4. ASSUME NEW t \in Transfer, SenderCancels(t) PROVE SidesKept /\ UNCHANGED tries
  BY <1>1, <1>4, CancelsAgree DEF SenderCancels
<1>5. ASSUME SenderCancelsAll PROVE SidesKept /\ UNCHANGED tries
  BY <1>1, <1>5, CancelsAllAgree DEF SenderCancelsAll
<1>6. ASSUME SidesKept, UNCHANGED tries PROVE MapInv' /\ SidesInv'
  BY <1>1, <1>6, KeptAgrees
<1> QED BY <1>2, <1>3, <1>4, <1>5, <1>6 DEF SendingUser

-----------------------------------------------------------------------------
(* What a step of the receiver leaves agreed: r becomes p.                 *)

\* What is on its way to the receiver after a message that does not stop t, or
\* none, was taken.
LEMMA TakenSays ==
  ASSUME NEW q \in Seq(Messages), NEW p, NEW t,
         p = q \/ (q # <<>> /\ p = Tail(q) /\ ~Kills(Head(q), t))
  PROVE  /\ Has(p, "chunk", t) => Has(q, "chunk", t)
         /\ Killed(p, t) <=> Killed(q, t)
         /\ KilledAfterOffer(p, t) => KilledAfterOffer(q, t)
<1>1. CASE p = q
  BY <1>1
<1>2. CASE q # <<>> /\ p = Tail(q) /\ ~Kills(Head(q), t)
  BY <1>2, TailSays
<1> QED BY <1>1, <1>2

\* Nothing happens to its transfer.
LEMMA ElsewhereCarries ==
  ASSUME NEW t, NEW s, NEW r, NEW screen,
         NEW inR \in Seq(Messages), NEW inR1, NEW inS \in Seq(Messages), NEW inS1, NEW ms \in Seq(Messages),
         inR1 = inR \/ (inR # <<>> /\ inR1 = Tail(inR) /\ ~Kills(Head(inR), t)),
         inS1 = inS \/ inS1 = inS \o ms, Silent(ms, t),
         AnswerOnce(t, s, r, screen, inR, inS), Told(t, s, r, inR, inS)
  PROVE  AnswerOnce(t, s, r, screen, inR1, inS1) /\ Told(t, s, r, inR1, inS1)
<1>1. (Has(inR1, "chunk", t) => Has(inR, "chunk", t)) /\ (Killed(inR1, t) <=> Killed(inR, t))
  BY TakenSays
<1>2. /\ \A type \in {"accept", "reject", "complete", "cancel"} : Has(inS1, type, t) <=> Has(inS, type, t)
      /\ All(inS1) <=> All(inS)
      /\ Once(inS, t) => Once(inS1, t)
  BY SilentSays
<1>3. AnswerOnce(t, s, r, screen, inR1, inS1)
  BY <1>1, <1>2 DEF AnswerOnce, Still
<1>4. Told(t, s, r, inR1, inS1)
  BY <1>1, <1>2 DEF Told
<1> QED BY <1>3, <1>4

\* What of the receiver neither work nor steering changes.
SameUser(p, r) == p.session = r.session /\ p.late = r.late /\ p.dialog = r.dialog /\ p.missed = r.missed

\* It is paused or goes on.
Steered(t, r, p, inR, inR1, inS, inS1, ms) ==
  /\ inR \in Seq(Messages) /\ inS \in Seq(Messages) /\ ms \in Seq(Messages) /\ Silent(ms, t)
  /\ inR1 = inR \/ (inR # <<>> /\ inR1 = Tail(inR) /\ ~Kills(Head(inR), t))
  /\ inS1 = inS \/ inS1 = inS \o ms
  /\ p.status = r.status \/ (r.status \in {"transferring", "paused"} /\ p.status \in {"transferring", "paused"})
  /\ SameUser(p, r) /\ (Asleep(r) => Asleep(p))

LEMMA PausedCarries ==
  ASSUME NEW t, NEW s, NEW r, NEW p, NEW screen, NEW inR, NEW inR1, NEW inS, NEW inS1, NEW ms,
         Steered(t, r, p, inR, inR1, inS, inS1, ms),
         AnswerOnce(t, s, r, screen, inR, inS), Told(t, s, r, inR, inS)
  PROVE  AnswerOnce(t, s, p, screen, inR1, inS1) /\ Told(t, s, p, inR1, inS1)
<1> USE DEF Steered, SameUser
<1>1. AnswerOnce(t, s, r, screen, inR1, inS1) /\ Told(t, s, r, inR1, inS1)
  BY ElsewhereCarries
<1>2. /\ r.status \in Over <=> p.status \in Over
      /\ r.status = "completed" <=> p.status = "completed"
      /\ r.status = "cancelled" <=> p.status = "cancelled"
  BY DEF Over
<1>3. AnswerOnce(t, s, p, screen, inR1, inS1)
  BY <1>1 DEF AnswerOnce, Still
<1>4. Told(t, s, p, inR1, inS1)
  BY <1>1, <1>2 DEF Told
<1> QED BY <1>3, <1>4

\* It is cancelled, by its peer or by its user, who tells the peer.
Stopped(t, r, p, inR, inR1, inS, inS1, m) ==
  /\ inR \in Seq(Messages) /\ inS \in Seq(Messages) /\ m \in Messages
  /\ p.status = (IF r.status \in Settled THEN r.status ELSE "cancelled")
  /\ SameUser(p, r) /\ (Asleep(r) => Asleep(p))
  /\ \/ inR # <<>> /\ inR1 = Tail(inR) /\ Kills(Head(inR), t) /\ inS1 = inS
     \/ inR1 = inR /\ inS1 = Append(inS, m) /\ (m.type = "cancel-all" \/ (m.type = "cancel" /\ m.t = t))
     \/ inR1 = inR /\ inS1 = inS /\ r.status \in Settled

LEMMA StoppedCarries ==
  ASSUME NEW t, NEW s, NEW r, NEW p, NEW screen, NEW inR, NEW inR1, NEW inS, NEW inS1, NEW m,
         Stopped(t, r, p, inR, inR1, inS, inS1, m),
         AnswerOnce(t, s, r, screen, inR, inS), Told(t, s, r, inR, inS)
  PROVE  AnswerOnce(t, s, p, screen, inR1, inS1) /\ Told(t, s, p, inR1, inS1)
<1> USE DEF Stopped, SameUser
<1>0. p.status \in Over /\ (p.status = "completed" <=> r.status = "completed")
  BY EntryFacts
<1>1. /\ Has(inR1, "chunk", t) => Has(inR, "chunk", t)
      /\ Killed(inR1, t) => Killed(inR, t)
      /\ Killed(inR, t) \/ r.status \in Settled \/ Has(inS1, "cancel", t) \/ All(inS1)
      /\ \A type \in {"accept", "reject", "complete"} : Has(inS1, type, t) <=> Has(inS, type, t)
      /\ Has(inS, "cancel", t) => Has(inS1, "cancel", t)
      /\ All(inS) => All(inS1)
      /\ Once(inS, t) => Once(inS1, t)
  <2>1. CASE inR # <<>> /\ inR1 = Tail(inR) /\ Kills(Head(inR), t) /\ inS1 = inS
    BY <2>1, TailSays
  <2>2. CASE inR1 = inR /\ inS1 = Append(inS, m) /\ (m.type = "cancel-all" \/ (m.type = "cancel" /\ m.t = t))
    BY <2>2, AppendSays
  <2>3. CASE inR1 = inR /\ inS1 = inS /\ r.status \in Settled
    BY <2>3
  <2> QED BY <2>1, <2>2, <2>3
<1>3. AnswerOnce(t, s, p, screen, inR1, inS1)
  <2>1. Still(t, s, r, inR, inS) => Still(t, s, p, inR1, inS1)
    BY <1>0, <1>1 DEF Still
  <2>2. r.status \in {"pending", "cancelled"} => p.status \in {"pending", "cancelled"}
    BY EntryFacts
  <2> QED BY <1>1, <2>1, <2>2 DEF AnswerOnce
<1>4. Told(t, s, p, inR1, inS1)
  <2>1. p.status = "cancelled" =>
          s.status \in Over \/ Has(inS1, "reject", t) \/ Has(inS1, "cancel", t) \/ All(inS1)
    BY <1>1, EntryFacts DEF Told
  <2> QED BY <1>0, <1>1, <2>1 DEF Told
<1> QED BY <1>3, <1>4

\* It was accepted and is at work on a chunk, on the end of its file, or on
\* nothing that matters.
Worked(t, s, r, p, inR, inR1, inS, inS1, ms) ==
  /\ inR \in Seq(Messages) /\ inS \in Seq(Messages) /\ Confirms(ms, t)
  /\ inR1 = inR \/ (inR # <<>> /\ inR1 = Tail(inR) /\ ~Kills(Head(inR), t))
  /\ s.queued \in Nat /\ SameUser(p, r)
  /\ \/ ~Asleep(r)
     \/ Has(inR, "chunk", t) /\ r.status \in {"transferring", "paused"}
     \/ p.status = r.status /\ inS1 = inS /\ (Asleep(r) => Asleep(p))
  /\ \/ p.status = r.status /\ inS1 = inS
     \/ p.status = "failed" /\ r.status # "completed" /\ inS1 = inS
     \/ p.status = "completed" /\ inS1 = inS \o ms

LEMMA WorkCarries ==
  ASSUME NEW t, NEW s, NEW r, NEW p, NEW screen, NEW inR, NEW inR1, NEW inS, NEW inS1, NEW ms,
         Worked(t, s, r, p, inR, inR1, inS, inS1, ms),
         AnswerOnce(t, s, r, screen, inR, inS), Told(t, s, r, inR, inS)
  PROVE  AnswerOnce(t, s, p, screen, inR1, inS1) /\ Told(t, s, p, inR1, inS1)
<1> USE DEF Worked, SameUser
<1>1. (Has(inR1, "chunk", t) => Has(inR, "chunk", t)) /\ (Killed(inR1, t) <=> Killed(inR, t))
  BY TakenSays
<1>2. /\ \A type \in {"accept", "reject", "cancel"} : Has(inS1, type, t) <=> Has(inS, type, t)
      /\ All(inS1) <=> All(inS)
      /\ Has(inS, "complete", t) => Has(inS1, "complete", t)
      /\ inS1 = inS \o ms => Has(inS1, "complete", t)
      /\ Once(inS, t) => Once(inS1, t)
  <2>0. ms \in Seq(Messages) /\ ~All(ms) /\ \A type : Has(ms, type, t) <=> type = "complete"
    BY ConfirmsSays DEF Confirms
  <2>1. CASE inS1 = inS
    BY <2>0, <2>1, ConcatSays
  <2>2. CASE inS1 = inS \o ms
    BY <2>0, <2>2, ConcatSays
  <2> QED BY <2>1, <2>2
<1>3. AnswerOnce(t, s, p, screen, inR1, inS1)
  <2>1. CASE ~Asleep(r) \/ (Has(inR, "chunk", t) /\ r.status \in {"transferring", "paused"})
    <3>1. ~screen /\ ~r.dialog
      BY <2>1 DEF AnswerOnce
    <3>2. FileSize[t] > 0 => ~Has(inS, "accept", t) /\ ~(s.queued > 0)
      BY <2>1 DEF AnswerOnce, Still
    <3>3. ~(FileSize[t] > 0) => Still(t, s, p, inR1, inS1)
      BY DEF Still
    <3> QED BY <1>2, <3>1, <3>2, <3>3 DEF AnswerOnce
  <2>2. CASE p.status = r.status /\ inS1 = inS /\ (Asleep(r) => Asleep(p))
    BY <1>1, <2>2 DEF AnswerOnce, Still
  <2> QED BY <2>1, <2>2
<1>4. Told(t, s, p, inR1, inS1)
  <2>1. CASE p.status = r.status /\ inS1 = inS
    BY <1>1, <2>1 DEF Told
  <2>2. CASE p.status = "failed" /\ r.status # "completed" /\ inS1 = inS
    BY <1>1, <2>2, EntryFacts DEF Told
  <2>3. CASE p.status = "completed" /\ Has(inS1, "complete", t)
    BY <1>1, <1>2, <2>3, EntryFacts DEF Told
  <2> QED BY <1>2, <2>1, <2>2, <2>3
<1> QED BY <1>3, <1>4

\* The offer is accepted, and an empty file may be finished with that; ...
Accepts(t, r, p, ms) ==
  /\ p.status \in {"transferring", "completed", "failed"}
  /\ p.late \/ ~(r.late \/ r.status \in Over)
  /\ FileSize[t] > 0 => p.status = "transferring" /\ (Asleep(r) => Asleep(p))
  /\ Has(ms, "accept", t) /\ Once(ms, t) /\ ~Has(ms, "reject", t)
  /\ Has(ms, "complete", t) <=> p.status = "completed"

\* ... or rejected.
Rejects(t, r, p, ms) ==
  /\ p.status = "cancelled" /\ p.late = r.late
  /\ Has(ms, "reject", t) /\ ~Has(ms, "accept", t) /\ ~Has(ms, "complete", t)

\* From the screen or in the dialog.
Answered(t, r, p, screen, screen1, inS, inS1, ms) ==
  /\ inS \in Seq(Messages) /\ ms \in Seq(Messages) /\ inS1 = inS \o ms
  /\ ~All(ms) /\ ~Has(ms, "cancel", t)
  /\ screen \/ r.dialog
  /\ ~screen1 /\ ~p.dialog /\ p.missed = r.missed
  /\ Accepts(t, r, p, ms) \/ Rejects(t, r, p, ms)

LEMMA AnswerCarries ==
  ASSUME NEW t, NEW s, NEW r, NEW p, NEW screen, NEW screen1, NEW inR, NEW inS, NEW inS1, NEW ms,
         Answered(t, r, p, screen, screen1, inS, inS1, ms),
         AnswerOnce(t, s, r, screen, inR, inS), Told(t, s, r, inR, inS)
  PROVE  AnswerOnce(t, s, p, screen1, inR, inS1) /\ Told(t, s, p, inR, inS1)
<1> USE DEF Answered
<1>1. /\ \A type : Has(inS1, type, t) <=> Has(inS, type, t) \/ Has(ms, type, t)
      /\ All(inS1) <=> All(inS)
      /\ ~Has(inS, "accept", t) /\ Once(ms, t) => Once(inS1, t)
  BY ConcatSays
<1>2. /\ Still(t, s, r, inR, inS) /\ Asleep(r) /\ r.status \in {"pending", "cancelled"}
      /\ s.queued = 0 /\ ~Has(inS, "accept", t)
  BY DEF AnswerOnce
<1>3. r.status # "completed"
  BY <1>2, EntryFacts
<1>4. s.status # "completed" /\ ~Has(inS, "complete", t) /\ (Killed(inR, t) => s.status \in Over)
  BY <1>3 DEF Told
<1>5. CASE Accepts(t, r, p, ms)
  <2>1. Still(t, s, p, inR, inS1)
    BY <1>1, <1>2, <1>5 DEF Still, Accepts
  <2>2. AnswerOnce(t, s, p, screen1, inR, inS1)
    BY <1>1, <1>2, <1>5, <2>1 DEF AnswerOnce, Accepts
  <2>3. ~p.late => ~r.late /\ r.status \notin Over
    BY <1>5 DEF Accepts
  <2>4. Told(t, s, p, inR, inS1)
    BY <1>1, <1>4, <1>5, <2>3, EntryFacts DEF Told, Accepts
  <2> QED BY <2>2, <2>4
<1>6. CASE Rejects(t, r, p, ms)
  <2>1. AnswerOnce(t, s, p, screen1, inR, inS1)
    BY <1>1, <1>2, <1>6 DEF AnswerOnce, Rejects
  <2>2. Told(t, s, p, inR, inS1)
    BY <1>1, <1>4, <1>6, EntryFacts DEF Told, Rejects
  <2> QED BY <2>1, <2>2
<1> QED BY <1>5, <1>6

\* The dialog opens.
LEMMA DialogCarries ==
  ASSUME NEW t, NEW s, NEW r, NEW p, NEW screen, NEW screen1, NEW inR, NEW inS,
         screen, ~screen1,
         p.dialog, p.status = r.status, Asleep(r) => Asleep(p), p.missed = r.missed, p.late = r.late,
         AnswerOnce(t, s, r, screen, inR, inS), Told(t, s, r, inR, inS)
  PROVE  AnswerOnce(t, s, p, screen1, inR, inS) /\ Told(t, s, p, inR, inS)
<1>1. AnswerOnce(t, s, p, screen1, inR, inS)
  BY DEF AnswerOnce, Still
<1>2. Told(t, s, p, inR, inS)
  BY DEF Told
<1> QED BY <1>1, <1>2

-----------------------------------------------------------------------------
(* The steps of the receiving side.                                        *)

\* Only the newest receiver of t reaches the sender.
LEMMA TellFacts ==
  ASSUME IInv, MapInv, NEW t \in Transfer, Single(t), NEW k, k = Newest(t), NEW o \in Attempt, NEW ms,
         TellSender(o, ms)
  PROVE  /\ o = k /\ byId[t] = k => toSender' = toSender \o ms
         /\ o[1] = t /\ (o # k \/ byId[t] = None) => toSender' = toSender
         /\ toSender' = toSender \/ toSender' = toSender \o ms
<1>1. /\ Linked /\ session["receiver"] = sessions /\ (byId[t] = k => rcv[k].session = sessions)
      /\ (byId[t] = None => rcv[k].session # sessions)
      /\ (o[1] = t /\ rcv[o].session = sessions => o = k)
  BY SingleFacts
<1>2. toSender' = IF rcv[o].session = sessions THEN toSender \o ms ELSE toSender
  BY <1>1 DEF TellSender
<1> QED BY <1>1, <1>2

\* A transfer whose offer did not arrive yet.
LEMMA AbsentAgrees ==
  ASSUME IInv, NEW t \in Transfer, Single(t), Agreed(t), byId[t] = None,
         UNCHANGED <<tries, snd>>, byId'[t] = None,
         toReceiver' = toReceiver \/ (toReceiver # <<>> /\ toReceiver' = Tail(toReceiver)),
         NEW ms \in Seq(Messages), ~Mentions(ms, t), toSender' = toSender \/ toSender' = toSender \o ms
  PROVE  Agreed(t)'
<1> PICK k : k = Newest(t)
  OBVIOUS
<1> PICK inR, inS : inR = toReceiver' /\ inS = toSender'
  OBVIOUS
<1>1. toReceiver \in Seq(Messages) /\ toSender \in Seq(Messages) /\ k # None
  BY NewestFacts, AttemptFacts DEF IInv, Typed, Single
<1>2. (Has(inR, "chunk", t) => Has(toReceiver, "chunk", t)) /\ (KilledAfterOffer(inR, t) => KilledAfterOffer(toReceiver, t))
  <2>1. CASE toReceiver' = toReceiver
    BY <2>1
  <2>2. CASE toReceiver # <<>> /\ toReceiver' = Tail(toReceiver)
    BY <1>1, <2>2, TailSays
  <2> QED BY <2>1, <2>2
<1>3. Mentions(inS, t) => Mentions(toSender, t)
  <2>1. CASE toSender' = toSender
    BY <2>1
  <2>2. CASE toSender' = toSender \o ms
    BY <1>1, <2>2, ConcatSays
  <2> QED BY <2>1, <2>2
<1>4. Unseen(t, snd[k], toReceiver, toSender)
  BY DEF Agreed
<1>5. Unseen(t, snd[k], inR, inS)
  BY <1>2, <1>3, <1>4 DEF Unseen
<1> QED BY <1>1, <1>5 DEF Agreed, Newest

\* What every step of the receiving side but an offer and a new link keeps.
LEMMA ReceivingAgrees ==
  ASSUME IInv, MapInv, SidesInv, UNCHANGED <<link, sending, byKey, byId>>,
         \A o \in Attempt : rcv'[o].session = rcv[o].session,
         \A t \in Transfer : Single(t) /\ Agreed(t) => Agreed(t)'
  PROVE  MapInv' /\ SidesInv'
<1>1. UNCHANGED <<sessions, session, open, tries, snd, byKey>>
  BY DEF link, sending
<1>2. MapInv'
  BY <1>1 DEF MapInv
<1>3. \A t \in Transfer : Single(t)' => Single(t)
  BY <1>1 DEF Single
<1> QED BY <1>2, <1>3 DEF SidesInv

\* What t makes of it that its receiver r becomes p.
Carried(t, s, r, p) ==
  \A screen, screen1, inR, inS :
    /\ screen <=> t \in onScreen
    /\ screen1 <=> t \in onScreen'
    /\ inR = toReceiver' /\ inS = toSender'
    /\ AnswerOnce(t, s, r, screen, toReceiver, toSender) /\ Told(t, s, r, toReceiver, toSender)
    => AnswerOnce(t, s, p, screen1, inR, inS) /\ Told(t, s, p, inR, inS)

\* Receiver o of t, whose sender is s, becomes p: it takes a message about t, or
\* none, and tells its peer ms, or nothing.
Receives(o, t, s, r, p, ms) ==
  /\ o \in Attempt /\ t \in Transfer /\ t = o[1] /\ s = snd[o] /\ r = rcv[o]
  /\ rcv' = [rcv EXCEPT ![o] = p] /\ p.session = r.session
  /\ \/ toReceiver' = toReceiver
     \/ /\ toReceiver # <<>> /\ toReceiver' = Tail(toReceiver)
        /\ Head(toReceiver).type # "cancel-all" /\ Head(toReceiver).t = t
  /\ About(ms, t)
  /\ toSender' = toSender \/ TellSender(o, ms)
  /\ onScreen' \in {onScreen, onScreen \ {t}}
  /\ Single(t) /\ byId[t] = Newest(t) => o = Newest(t) \/ (onScreen' = onScreen /\ toReceiver' = toReceiver)

\* What is left to show of it.
LeftAgreed(o, t, s, r, p, ms) ==
  Single(t) /\ byId[t] = o /\ o = Newest(t) /\ (TellSender(o, ms) => toSender' = toSender \o ms)
    => Carried(t, s, r, p)

LEMMA OneReceives ==
  ASSUME IInv, MapInv, SidesInv, UNCHANGED <<link, sending, byKey, byId>>,
         NEW o, NEW t, NEW s, NEW r, NEW p, NEW ms, Receives(o, t, s, r, p, ms), LeftAgreed(o, t, s, r, p, ms)
  PROVE  MapInv' /\ SidesInv'
<1> USE DEF Receives
<1>1. UNCHANGED <<tries, snd, byId>>
  BY DEF sending
<1>2. \A j \in Attempt : rcv'[j] = IF j = o THEN p ELSE rcv[j]
  BY DEF IInv, Typed, ReceiverTyped
<1>3. ASSUME NEW u \in Transfer, Single(u), Agreed(u) PROVE Agreed(u)'
  <2> PICK k : k = Newest(u)
    OBVIOUS
  <2>1. k \in Attempt /\ k[1] = u /\ k # None
    BY <1>3, SingleFacts, AttemptFacts
  <2>2. /\ o = k /\ byId[u] = k /\ TellSender(o, ms) => toSender' = toSender \o ms
        /\ o[1] = u /\ (o # k \/ byId[u] = None) => toSender' = toSender
        /\ toSender' = toSender \/ toSender' = toSender \o ms
    BY <1>3, TellFacts
  <2> PICK ns : ns = IF u = t THEN <<>> ELSE ms
    OBVIOUS
  <2>0. ns \in Seq(Messages) /\ Silent(ns, u) /\ ~Mentions(ns, u)
    <3>1. CASE u = t
      BY <3>1, NothingSays
    <3>2. CASE u # t
      <4>1. ns = ms /\ About(ms, t)
        BY <3>2
      <4> QED BY <3>2, <4>1, AboutSays
    <3> QED BY <3>1, <3>2
  <2>3. CASE byId[u] = None
    <3>1. toSender' = toSender \/ toSender' = toSender \o ns
      BY <2>2, <2>3
    <3> QED BY <1>1, <1>3, <2>0, <2>3, <3>1, AbsentAgrees
  <2>4. CASE byId[u] = k /\ o = k
    <3>1. u = t /\ s = snd[k] /\ r = rcv[k] /\ rcv'[k] = p
      BY <1>2, <2>1, <2>4
    <3>2. AnswerOnce(t, s, r, t \in onScreen, toReceiver, toSender) /\ Told(t, s, r, toReceiver, toSender)
      BY <1>3, <2>4, <3>1 DEF Agreed
    <3>3. AnswerOnce(t, s, p, t \in onScreen', toReceiver', toSender') /\ Told(t, s, p, toReceiver', toSender')
      <4>1. Carried(t, s, r, p)
        BY <1>3, <2>2, <2>4, <3>1 DEF LeftAgreed
      <4> DEFINE scr == t \in onScreen
                 scr1 == t \in onScreen'
      <4>2. (scr <=> t \in onScreen) /\ (scr1 <=> t \in onScreen')
        OBVIOUS
      <4>3. AnswerOnce(t, s, r, scr, toReceiver, toSender) /\ Told(t, s, r, toReceiver, toSender)
        BY <3>2
      <4> HIDE DEF scr, scr1
      <4> PICK inR, inS : inR = toReceiver' /\ inS = toSender'
        OBVIOUS
      <4>4. AnswerOnce(t, s, p, scr1, inR, inS) /\ Told(t, s, p, inR, inS)
        BY <4>1, <4>2, <4>3 DEF Carried
      <4>5. AnswerOnce(t, s, p, t \in onScreen', inR, inS)
        BY <4>2, <4>4 DEF AnswerOnce
      <4> QED BY <4>4, <4>5
    <3> QED BY <1>1, <2>1, <2>4, <3>1, <3>3 DEF Agreed, Newest
  <2>5. CASE byId[u] = k /\ o # k
    <3>1. rcv'[k] = rcv[k] /\ toReceiver \in Seq(Messages) /\ toSender \in Seq(Messages)
      BY <1>2, <2>1, <2>5 DEF IInv, Typed
    <3>2. u = t => UNCHANGED <<onScreen, toReceiver>> /\ toSender' = toSender
      BY <1>3, <2>2, <2>5
    <3>3. u \in onScreen' <=> u \in onScreen
      BY <3>2
    <3>4. toReceiver' = toReceiver \/ (toReceiver # <<>> /\ toReceiver' = Tail(toReceiver) /\ ~Kills(Head(toReceiver), u))
      BY <3>2 DEF Kills
    <3>5. toSender' = toSender \/ toSender' = toSender \o ns
      BY <2>2, <3>2
    <3>6. AnswerOnce(u, snd[k], rcv[k], u \in onScreen, toReceiver', toSender')
          /\ Told(u, snd[k], rcv[k], toReceiver', toSender')
      <4>1. AnswerOnce(u, snd[k], rcv[k], u \in onScreen, toReceiver, toSender) /\ Told(u, snd[k], rcv[k], toReceiver, toSender)
        BY <1>3, <2>5 DEF Agreed
      <4> DEFINE scr == u \in onScreen
      <4>2. AnswerOnce(u, snd[k], rcv[k], scr, toReceiver, toSender)
        BY <4>1
      <4> HIDE DEF scr
      <4> PICK inR, inS : inR = toReceiver' /\ inS = toSender'
        OBVIOUS
      <4>4. AnswerOnce(u, snd[k], rcv[k], scr, inR, inS) /\ Told(u, snd[k], rcv[k], inR, inS)
        <5>1. /\ inR = toReceiver \/ (toReceiver # <<>> /\ inR = Tail(toReceiver) /\ ~Kills(Head(toReceiver), u))
              /\ inS = toSender \/ inS = toSender \o ns
          BY <3>4, <3>5
        <5>2. toReceiver \in Seq(Messages) /\ toSender \in Seq(Messages)
          BY <3>1
        <5> QED BY <2>0, <5>1, <5>2, <4>1, <4>2, ElsewhereCarries
      <4>5. AnswerOnce(u, snd[k], rcv[k], u \in onScreen, inR, inS)
        BY <4>4 DEF AnswerOnce, scr
      <4> QED BY <4>4, <4>5
    <3>7. AnswerOnce(u, snd[k], rcv[k], u \in onScreen, toReceiver', toSender')
            => AnswerOnce(u, snd[k], rcv[k], u \in onScreen', toReceiver', toSender')
      BY <3>3 DEF AnswerOnce
    <3> QED BY <1>1, <2>1, <2>5, <3>1, <3>6, <3>7 DEF Agreed, Newest
  <2>6. CASE byId[u] \notin {None, k}
    BY <1>1, <2>6 DEF Agreed, Newest
  <2> QED BY <2>3, <2>4, <2>5, <2>6
<1>4. \A j \in Attempt : rcv'[j].session = rcv[j].session
  BY <1>2
<1> QED BY <1>3, <1>4, ReceivingAgrees

\* A chunk of receiver o arrives.
Arrives(o) ==
  /\ toReceiver # <<>> /\ toReceiver' = Tail(toReceiver)
  /\ Head(toReceiver).type = "chunk" /\ Head(toReceiver).t = o[1]
  /\ \E j \in Attempt : j[1] = o[1] /\ byKey[j] = o

\* Why it is at work: a write or close() is pending, or a chunk arrives.
Working(o) ==
  \/ toReceiver' = toReceiver /\ ~Asleep(rcv[o])
  \/ Arrives(o) /\ rcv[o].status \in {"transferring", "paused"}

\* What work makes of the receiver; a chunk may also come for nothing.
Works(o, r, p) ==
  /\ SameUser(p, r) /\ rcv' = [rcv EXCEPT ![o] = p]
  /\ \/ /\ Working(o)
        /\ \/ p.status = r.status /\ toSender' = toSender
           \/ p.status = "failed" /\ r.status # "completed" /\ toSender' = toSender
           \/ p.status = "completed" /\ \E ms : Confirms(ms, o[1]) /\ TellSender(o, ms)
     \/ Arrives(o) /\ p = r /\ toSender' = toSender

LEMMA WorkAgrees ==
  ASSUME IInv, MapInv, SidesInv, UNCHANGED <<link, sending, byKey, byId, onScreen>>,
         NEW o \in Attempt, NEW r \in ReceiverState, r = rcv[o], NEW p, Works(o, r, p)
  PROVE  MapInv' /\ SidesInv'
<1> PICK t \in Transfer : t = o[1]
  BY AttemptFacts
<1>0. /\ SameUser(p, r) /\ rcv' = [rcv EXCEPT ![o] = p]
      /\ (toReceiver' = toReceiver /\ ~Asleep(r)) \/ Arrives(o)
  BY DEF Works, Working
<1>1. PICK ms : /\ Confirms(ms, t)
                /\ \/ p.status = r.status /\ toSender' = toSender
                   \/ p.status = "failed" /\ r.status # "completed" /\ toSender' = toSender
                   \/ p.status = "completed" /\ TellSender(o, ms)
  <2> PICK m : m = Message("complete", t)
    OBVIOUS
  <2>1. m \in Messages /\ m.type = "complete" /\ m.t = t
    BY MessageFacts
  <2> PICK ns : ns = <<m>>
    OBVIOUS
  <2>2. ns \in Seq(Messages) /\ ns # <<>> /\ \A i \in DOMAIN ns : ns[i] = m
    BY <2>1
  <2>3. Confirms(ns, t)
    BY <2>1, <2>2 DEF Confirms
  <2> QED BY <2>3 DEF Works
<1> PICK s : s = snd[o]
  OBVIOUS
<1>3. Single(t) /\ byId[t] = Newest(t) => o = Newest(t) \/ (onScreen' = onScreen /\ toReceiver' = toReceiver)
  <2> SUFFICES ASSUME Single(t), byId[t] = Newest(t)
               PROVE  o = Newest(t) \/ (onScreen' = onScreen /\ toReceiver' = toReceiver)
    OBVIOUS
  <2>1. CASE toReceiver' = toReceiver
    BY <2>1
  <2>2. ASSUME NEW j \in Attempt, j[1] = t, byKey[j] = o PROVE o = Newest(t)
    BY <2>2, SingleFacts, AttemptFacts
  <2> QED BY <1>0, <2>1, <2>2 DEF Arrives
<1>4. LeftAgreed(o, t, s, r, p, ms)
  <2> SUFFICES ASSUME TellSender(o, ms) => toSender' = toSender \o ms,
                      NEW screen, NEW screen1, screen <=> t \in onScreen, screen1 <=> t \in onScreen',
                      NEW inR, NEW inS, inR = toReceiver', inS = toSender',
                      AnswerOnce(t, s, r, screen, toReceiver, toSender), Told(t, s, r, toReceiver, toSender)
               PROVE  AnswerOnce(t, s, p, screen1, inR, inS) /\ Told(t, s, p, inR, inS)
    BY DEF LeftAgreed, Carried
  <2>1. toReceiver \in Seq(Messages) /\ toSender \in Seq(Messages) /\ s.queued \in Nat
    BY DEF IInv, Typed, SenderState
  <2>2. inR = toReceiver \/ (toReceiver # <<>> /\ inR = Tail(toReceiver) /\ ~Kills(Head(toReceiver), t))
    BY <1>0 DEF Arrives, Kills
  <2>3. \/ ~Asleep(r)
        \/ Has(toReceiver, "chunk", t) /\ r.status \in {"transferring", "paused"}
        \/ p.status = r.status /\ inS = toSender /\ (Asleep(r) => Asleep(p))
    <3>1. Arrives(o) => Has(toReceiver, "chunk", t)
      BY <2>1, TailSays DEF Arrives
    <3> QED BY <3>1 DEF Works, Working
  <2>4. \/ p.status = r.status /\ inS = toSender
        \/ p.status = "failed" /\ r.status # "completed" /\ inS = toSender
        \/ p.status = "completed" /\ inS = toSender \o ms
    BY <1>1
  <2>5. AnswerOnce(t, s, p, screen, inR, inS) /\ Told(t, s, p, inR, inS)
    <3>1. Worked(t, s, r, p, toReceiver, inR, toSender, inS, ms)
      BY <1>0, <1>1, <2>1, <2>2, <2>3, <2>4 DEF Worked
    <3> QED BY <3>1, WorkCarries
  <2>6. AnswerOnce(t, s, p, screen1, inR, inS)
    BY <2>5 DEF AnswerOnce
  <2> QED BY <2>5, <2>6
<1>5. Receives(o, t, s, r, p, ms)
  <2>1. \/ toReceiver' = toReceiver
        \/ /\ toReceiver # <<>> /\ toReceiver' = Tail(toReceiver)
           /\ Head(toReceiver).type # "cancel-all" /\ Head(toReceiver).t = t
    BY <1>0 DEF Arrives
  <2>2. onScreen' = onScreen /\ About(ms, t) /\ (toSender' = toSender \/ TellSender(o, ms))
    BY <1>1, ConfirmsSays
  <2>3. p.session = r.session
    BY <1>0 DEF SameUser
  <2> QED BY <1>0, <1>3, <2>1, <2>2, <2>3 DEF Receives
<1> QED BY <1>4, <1>5, OneReceives

\* Its status stays.
LEMMA PutAgrees ==
  ASSUME IInv, MapInv, SidesInv, UNCHANGED <<link, sending, byKey, byId, onScreen, toSender>>,
         NEW o \in Attempt, Working(o), NEW q, SameUser(q, rcv[o]), q.status = rcv[o].status, PutReceiver(o, q)
  PROVE  MapInv' /\ SidesInv'
<1> PICK r \in ReceiverState : r = rcv[o]
  BY DEF IInv, Typed, ReceiverTyped
<1>1. Works(o, r, q)
  BY DEF Works, PutReceiver
<1> QED BY <1>1, WorkAgrees

\* It fails.
LEMMA FailAgrees ==
  ASSUME IInv, MapInv, SidesInv, UNCHANGED <<link, sending, byKey, byId, onScreen, toSender>>,
         NEW o \in Attempt, Working(o), NEW q \in ReceiverState, SameUser(q, rcv[o]), q.status = rcv[o].status,
         FailReceiver(o, q)
  PROVE  MapInv' /\ SidesInv'
<1> PICK r \in ReceiverState : r = rcv[o]
  BY DEF IInv, Typed, ReceiverTyped
<1>1. CASE q.status = "completed"
  BY <1>1, PutAgrees DEF FailReceiver
<1>2. CASE q.status # "completed"
  <2> DEFINE p == [q EXCEPT !.status = "failed"]
  <2>1. SameUser(p, r) /\ p.status = "failed"
    BY DEF ReceiverState, SameUser
  <2>2. rcv' = [rcv EXCEPT ![o] = p]
    BY <1>2 DEF FailReceiver, SetReceiver
  <2> HIDE DEF p
  <2>3. Works(o, r, p)
    BY <1>2, <2>1, <2>2 DEF Works
  <2> QED BY <2>3, WorkAgrees
<1> QED BY <1>1, <1>2

\* It completes, and says so.
LEMMA CompletedAgrees ==
  ASSUME IInv, MapInv, SidesInv, UNCHANGED <<link, sending, byKey, byId, onScreen>>,
         NEW o \in Attempt, Working(o), NEW q, SameUser(q, rcv[o]), q.status = "completed",
         NEW ms, Confirms(ms, o[1]), TellSender(o, ms), SetReceiver(o, q)
  PROVE  MapInv' /\ SidesInv'
<1> PICK r \in ReceiverState : r = rcv[o]
  BY DEF IInv, Typed, ReceiverTyped
<1>1. Works(o, r, q)
  BY DEF Works, SetReceiver
<1> QED BY <1>1, WorkAgrees

LEMMA StoredAgrees ==
  ASSUME IInv, MapInv, SidesInv, UNCHANGED <<link, sending, byKey, byId, onScreen>>,
         NEW o \in Attempt, Working(o), NEW q \in ReceiverState, SameUser(q, rcv[o]), q.status = rcv[o].status,
         Stored(o, q)
  PROVE  MapInv' /\ SidesInv'
<1> PICK n \in Nat : n = q.got + 1
  BY DEF ReceiverState
<1>1. CASE Full(o, q)
  <2> DEFINE p == [q EXCEPT !.got = n, !.stream = "none", !.status = "completed"]
  <2>1. SameUser(p, rcv[o]) /\ p.status = "completed"
    BY DEF ReceiverState, SameUser
  <2> PICK m : m = Message("complete", o[1])
    OBVIOUS
  <2> PICK ms : ms = <<m>>
    OBVIOUS
  <2>2. SetReceiver(o, p) /\ TellSender(o, ms)
    BY <1>1 DEF Stored
  <2>3. m \in Messages /\ m.type = "complete" /\ m.t = o[1]
    BY ReplyFacts
  <2>4. ms \in Seq(Messages) /\ ms # <<>> /\ \A i \in DOMAIN ms : ms[i] = m
    BY <2>3
  <2>5. Confirms(ms, o[1])
    BY <2>3, <2>4 DEF Confirms
  <2> HIDE DEF p
  <2> QED BY <2>1, <2>2, <2>5, CompletedAgrees
<1>2. CASE ~Full(o, q)
  <2> DEFINE p == [q EXCEPT !.got = n]
  <2>1. SameUser(p, rcv[o]) /\ p.status = rcv[o].status
    BY DEF ReceiverState, SameUser
  <2>2. PutReceiver(o, p) /\ UNCHANGED toSender
    BY <1>2 DEF Stored
  <2> HIDE DEF p
  <2> QED BY <2>1, <2>2, PutAgrees
<1> QED BY <1>1, <1>2

LEMMA ChunkAgrees ==
  ASSUME IInv, MapInv, SidesInv, UNCHANGED <<link, sending, byKey, byId, onScreen>>,
         NEW o \in Attempt, Arrives(o), NEW index, GetChunk(o, index)
  PROVE  MapInv' /\ SidesInv'
<1> PICK r \in ReceiverState : r = rcv[o]
  BY DEF IInv, Typed, ReceiverTyped
<1>0. CASE r.status \notin {"transferring", "paused"}
  <2>1. UNCHANGED <<rcv, toSender>>
    BY <1>0 DEF GetChunk
  <2>2. rcv' = [rcv EXCEPT ![o] = r]
    BY <2>1 DEF IInv, Typed, ReceiverTyped
  <2>3. Works(o, r, r)
    BY <2>1, <2>2 DEF Works, SameUser
  <2> QED BY <2>3, WorkAgrees
<1>1. CASE r.status \in {"transferring", "paused"}
  <2>0. Working(o)
    BY <1>1 DEF Working
  <2> PICK n \in Nat, w \in Nat : n = r.expected + 1 /\ w = r.writing + 1
    BY DEF ReceiverState
  <2> DEFINE next == [r EXCEPT !.expected = n]
  <2>1. /\ next \in ReceiverState /\ SameUser(next, r) /\ next.status = r.status /\ next.writing = r.writing
        /\ SameUser(r, r)
    BY DEF ReceiverState, SameUser
  <2>2. \/ FailReceiver(o, r) /\ UNCHANGED toSender
        \/ FailReceiver(o, next) /\ UNCHANGED toSender
        \/ Stored(o, next)
        \/ PutReceiver(o, [next EXCEPT !.writing = w]) /\ TellSender(o, <<>>)
    BY <1>1, <2>1 DEF GetChunk, OnArrival
  <2> HIDE DEF next
  <2>3. CASE (FailReceiver(o, r) \/ FailReceiver(o, next)) /\ UNCHANGED toSender
    BY <2>0, <2>1, <2>3, FailAgrees
  <2>4. CASE Stored(o, next)
    BY <2>0, <2>1, <2>4, StoredAgrees
  <2>5. CASE PutReceiver(o, [next EXCEPT !.writing = w]) /\ TellSender(o, <<>>)
    <3> PICK q \in ReceiverState : q = next
      BY <2>1
    <3> DEFINE p == [q EXCEPT !.writing = w]
    <3>1. SameUser(p, r) /\ p.status = r.status
      BY <2>1 DEF ReceiverState, SameUser
    <3>2. PutReceiver(o, p)
      BY <2>5
    <3>3. toSender' = toSender
      <4>1. toSender \o <<>> = toSender
        BY DEF IInv, Typed
      <4> QED BY <2>5, <4>1 DEF TellSender
    <3> HIDE DEF p
    <3> QED BY <2>0, <3>1, <3>2, <3>3, PutAgrees
  <2> QED BY <2>2, <2>3, <2>4, <2>5
<1> QED BY <1>0, <1>1

\* It is paused or goes on, as its user wants or its peer; or takes no notice.
Steers(o, t, r, st, type) ==
  /\ rcv' = [rcv EXCEPT ![o] = [r EXCEPT !.status = st]]
  /\ st = r.status \/ (r.status \in {"transferring", "paused"} /\ st \in {"transferring", "paused"})
  /\ \/ toReceiver' = toReceiver
     \/ /\ toReceiver # <<>> /\ toReceiver' = Tail(toReceiver)
        /\ Head(toReceiver).type \in {"pause", "resume"} /\ Head(toReceiver).t = t
  /\ type \in {"pause", "resume"}
  /\ toSender' = toSender \/ TellSender(o, <<Message(type, t)>>)

LEMMA SteerAgrees ==
  ASSUME IInv, MapInv, SidesInv, UNCHANGED <<link, sending, byKey, byId, onScreen>>,
         NEW t \in Transfer, NEW o \in Attempt, o = byId[t], NEW r \in ReceiverState, r = rcv[o],
         NEW st, NEW type, Steers(o, t, r, st, type)
  PROVE  MapInv' /\ SidesInv'
<1> USE DEF Steers
<1> PICK m : m = Message(type, t)
  OBVIOUS
<1> PICK ms : ms = <<m>>
  OBVIOUS
<1>1. m \in Messages /\ m.type = type /\ m.t = t
  BY MessageFacts
<1>0. ms \in Seq(Messages) /\ Silent(ms, t) /\ About(ms, t)
  <2>1. ms \in Seq(Messages) /\ ~All(ms) /\ \A x : Has(ms, x, t) <=> type = x
    BY <1>1, OneSays
  <2>2. \A i \in DOMAIN ms : ms[i] = m
    OBVIOUS
  <2> QED BY <1>1, <2>1, <2>2 DEF Silent, About
<1> PICK s : s = snd[o]
  OBVIOUS
<1> DEFINE p == [r EXCEPT !.status = st]
<1>2. SameUser(p, r) /\ p.status = st /\ (Asleep(r) => Asleep(p))
  BY DEF ReceiverState, SameUser, Asleep
<1>3. rcv' = [rcv EXCEPT ![o] = p]
  OBVIOUS
<1> HIDE DEF p
<1>4. Receives(o, t, s, r, p, ms)
  <2>1. t = o[1] /\ (byId[t] = Newest(t) => o = Newest(t))
    BY ByIdFacts, AttemptFacts
  <2>2. \/ toReceiver' = toReceiver
        \/ /\ toReceiver # <<>> /\ toReceiver' = Tail(toReceiver)
           /\ Head(toReceiver).type # "cancel-all" /\ Head(toReceiver).t = t
    OBVIOUS
  <2>3. onScreen' = onScreen /\ (toSender' = toSender \/ TellSender(o, ms)) /\ p.session = r.session
    BY <1>2 DEF SameUser
  <2> QED BY <1>0, <1>3, <2>1, <2>2, <2>3 DEF Receives
<1>5. LeftAgreed(o, t, s, r, p, ms)
  <2> SUFFICES ASSUME TellSender(o, ms) => toSender' = toSender \o ms,
                      NEW screen, NEW screen1, screen <=> t \in onScreen, screen1 <=> t \in onScreen',
                      NEW inR, NEW inS, inR = toReceiver', inS = toSender',
                      AnswerOnce(t, s, r, screen, toReceiver, toSender), Told(t, s, r, toReceiver, toSender)
               PROVE  AnswerOnce(t, s, p, screen1, inR, inS) /\ Told(t, s, p, inR, inS)
    BY DEF LeftAgreed, Carried
  <2>1. toReceiver \in Seq(Messages) /\ toSender \in Seq(Messages)
    BY DEF IInv, Typed
  <2>2. inR = toReceiver \/ (toReceiver # <<>> /\ inR = Tail(toReceiver) /\ ~Kills(Head(toReceiver), t))
    BY DEF Kills
  <2>3. inS = toSender \/ inS = toSender \o ms
    OBVIOUS
  <2>4. Steered(t, r, p, toReceiver, inR, toSender, inS, ms)
    BY <1>0, <1>2, <2>1, <2>2, <2>3 DEF Steered
  <2>5. AnswerOnce(t, s, p, screen, inR, inS) /\ Told(t, s, p, inR, inS)
    BY <2>4, PausedCarries
  <2>6. AnswerOnce(t, s, p, screen1, inR, inS)
    BY <2>5 DEF AnswerOnce
  <2> QED BY <2>5, <2>6
<1> QED BY <1>4, <1>5, OneReceives

\* What cancel() makes of a receiver.
LEMMA CancelledFacts ==
  ASSUME NEW r \in ReceiverState
  PROVE  LET p == Cancelled(r) IN
         /\ SameUser(p, r) /\ (Asleep(r) => Asleep(p))
         /\ p.status = IF r.status \in Settled THEN r.status ELSE "cancelled"
<1>1. CASE r.status \in Settled
  BY <1>1 DEF Cancelled, SameUser
<1>2. CASE r.status \notin Settled
  <2> PICK x : x = Discarded(r)
    OBVIOUS
  <2> PICK p : p = [r EXCEPT !.status = "cancelled", !.stream = x]
    OBVIOUS
  <2>1. SameUser(p, r) /\ p.status = "cancelled" /\ p.writing = r.writing /\ p.stream = x /\ r.writing \in Nat
    BY DEF ReceiverState, SameUser
  <2>2. Asleep(r) => x = "none"
    BY <2>1 DEF Asleep, Discarded
  <2>3. Asleep(r) => Asleep(p)
    BY <2>1, <2>2 DEF Asleep, Closing
  <2>4. Cancelled(r) = p
    BY <1>2 DEF Cancelled
  <2> QED BY <1>2, <2>1, <2>3, <2>4
<1> QED BY <1>1, <1>2

\* It is cancelled.
LEMMA StopAgrees ==
  ASSUME IInv, MapInv, SidesInv, UNCHANGED <<link, sending, byKey, byId, onScreen>>,
         NEW t \in Transfer, NEW o \in Attempt, o = byId[t], NEW r \in ReceiverState, r = rcv[o],
         rcv' = [rcv EXCEPT ![o] = Cancelled(r)],
         \/ /\ toReceiver # <<>> /\ toReceiver' = Tail(toReceiver) /\ toSender' = toSender
            /\ Head(toReceiver).type = "cancel" /\ Head(toReceiver).t = t
         \/ toReceiver' = toReceiver /\ TellSender(o, <<Message("cancel", t)>>)
         \/ toReceiver' = toReceiver /\ r.status \in Settled /\ toSender' = toSender
  PROVE  MapInv' /\ SidesInv'
<1> PICK m : m = Message("cancel", t)
  OBVIOUS
<1> PICK ms : ms = <<m>>
  OBVIOUS
<1>1. m \in Messages /\ m.type = "cancel" /\ m.t = t
  BY MessageFacts
<1>0. About(ms, t)
  <2>1. ms \in Seq(Messages) /\ \A i \in DOMAIN ms : ms[i] = m
    BY <1>1
  <2> QED BY <1>1, <2>1 DEF About
<1> PICK s : s = snd[o]
  OBVIOUS
<1> PICK p : p = Cancelled(r)
  OBVIOUS
<1>2. /\ SameUser(p, r) /\ (Asleep(r) => Asleep(p))
      /\ p.status = IF r.status \in Settled THEN r.status ELSE "cancelled"
  BY CancelledFacts
<1>3. rcv' = [rcv EXCEPT ![o] = p]
  OBVIOUS
<1>4. Receives(o, t, s, r, p, ms)
  <2>1. t = o[1] /\ (byId[t] = Newest(t) => o = Newest(t))
    BY ByIdFacts, AttemptFacts
  <2>2. \/ toReceiver' = toReceiver
        \/ /\ toReceiver # <<>> /\ toReceiver' = Tail(toReceiver)
           /\ Head(toReceiver).type # "cancel-all" /\ Head(toReceiver).t = t
    OBVIOUS
  <2>3. onScreen' = onScreen /\ (toSender' = toSender \/ TellSender(o, ms)) /\ p.session = r.session
    BY <1>2 DEF SameUser
  <2> QED BY <1>0, <1>3, <2>1, <2>2, <2>3 DEF Receives
<1>5. LeftAgreed(o, t, s, r, p, ms)
  <2> SUFFICES ASSUME TellSender(o, ms) => toSender' = toSender \o ms,
                      NEW screen, NEW screen1, screen <=> t \in onScreen, screen1 <=> t \in onScreen',
                      NEW inR, NEW inS, inR = toReceiver', inS = toSender',
                      AnswerOnce(t, s, r, screen, toReceiver, toSender), Told(t, s, r, toReceiver, toSender)
               PROVE  AnswerOnce(t, s, p, screen1, inR, inS) /\ Told(t, s, p, inR, inS)
    BY DEF LeftAgreed, Carried
  <2>1. toReceiver \in Seq(Messages) /\ toSender \in Seq(Messages) /\ toSender \o ms = Append(toSender, m)
    BY DEF IInv, Typed
  <2>2. \/ toReceiver # <<>> /\ inR = Tail(toReceiver) /\ Kills(Head(toReceiver), t) /\ inS = toSender
        \/ inR = toReceiver /\ inS = Append(toSender, m)
        \/ inR = toReceiver /\ inS = toSender /\ r.status \in Settled
    BY <2>1 DEF Kills
  <2>4. Stopped(t, r, p, toReceiver, inR, toSender, inS, m)
    BY <1>1, <1>2, <2>1, <2>2 DEF Stopped
  <2>5. AnswerOnce(t, s, p, screen, inR, inS) /\ Told(t, s, p, inR, inS)
    BY <2>4, StoppedCarries
  <2>6. AnswerOnce(t, s, p, screen1, inR, inS)
    BY <2>5 DEF AnswerOnce
  <2> QED BY <2>5, <2>6
<1> QED BY <1>4, <1>5, OneReceives

\* All of them are.
LEMMA StopAllAgrees ==
  ASSUME IInv, MapInv, SidesInv, UNCHANGED <<link, sending, byKey, byId, onScreen>>,
         NEW K, session["receiver"] # 0 => K = Receivers, NEW X, StopReceivers(K, X),
         \/ /\ toReceiver # <<>> /\ toReceiver' = Tail(toReceiver) /\ toSender' = toSender
            /\ Head(toReceiver).type = "cancel-all"
         \/ /\ toReceiver' = toReceiver
            /\ toSender' = IF Linked THEN Append(toSender, Message("cancel-all", None)) ELSE toSender
  PROVE  MapInv' /\ SidesInv'
<1> PICK m : m = Message("cancel-all", None)
  OBVIOUS
<1> PICK ms : ms = <<m>>
  OBVIOUS
<1>1. m \in Messages /\ m.type = "cancel-all"
  BY MessageFacts
<1>0. ms \in Seq(Messages) /\ toSender \o ms = Append(toSender, m) /\ \A t : ~Mentions(ms, t)
  <2>1. ms \in Seq(Messages) /\ \A i \in DOMAIN ms : ms[i] = m
    BY <1>1
  <2>2. toSender \o ms = Append(toSender, m)
    BY DEF IInv, Typed
  <2> QED BY <1>1, <2>1, <2>2 DEF Mentions
<1>2. \A o \in Attempt : rcv[o] \in ReceiverState /\ rcv'[o] = IF o \in K THEN Cancelled(rcv[o]) ELSE rcv[o]
  BY DEF StopReceivers, IInv, Typed, ReceiverTyped
<1>3. \A o \in Attempt : rcv'[o].session = rcv[o].session
  BY <1>2, CancelledFacts DEF SameUser
<1>4. UNCHANGED <<tries, snd, byId, onScreen>>
  BY DEF sending
<1>5. ASSUME NEW t \in Transfer, Single(t), Agreed(t) PROVE Agreed(t)'
  <2> PICK k : k = Newest(t)
    OBVIOUS
  <2>1. k \in Attempt /\ Linked /\ session["receiver"] # 0
    BY <1>5, SingleFacts
  <2>2. toSender' = toSender \/ toSender' = Append(toSender, m)
    OBVIOUS
  <2>3. toReceiver' = toReceiver \/ (toReceiver # <<>> /\ toReceiver' = Tail(toReceiver))
    OBVIOUS
  <2>4. CASE byId[t] = None
    BY <1>0, <1>4, <1>5, <2>2, <2>3, <2>4, AbsentAgrees
  <2>5. CASE byId[t] = k
    <3>1. k \in Receivers
      BY <2>1, <2>5, AttemptFacts DEF Receivers
    <3> PICK r \in ReceiverState : r = rcv[k]
      BY <1>2, <2>1
    <3> PICK p : p = Cancelled(r)
      OBVIOUS
    <3>2. rcv'[k] = p
      BY <1>2, <2>1, <3>1
    <3>3. /\ SameUser(p, r) /\ (Asleep(r) => Asleep(p))
          /\ p.status = IF r.status \in Settled THEN r.status ELSE "cancelled"
      BY CancelledFacts
    <3> DEFINE screen == t \in onScreen
    <3> PICK s : s = snd[k]
      OBVIOUS
    <3>4. AnswerOnce(t, s, r, screen, toReceiver, toSender) /\ Told(t, s, r, toReceiver, toSender)
      BY <1>5, <2>5 DEF Agreed
    <3>5. screen <=> t \in onScreen
      OBVIOUS
    <3> HIDE DEF screen
    <3> PICK inR, inS : inR = toReceiver' /\ inS = toSender'
      OBVIOUS
    <3>6. toReceiver \in Seq(Messages) /\ toSender \in Seq(Messages)
      BY DEF IInv, Typed
    <3>7. \/ toReceiver # <<>> /\ inR = Tail(toReceiver) /\ Kills(Head(toReceiver), t) /\ inS = toSender
          \/ inR = toReceiver /\ inS = Append(toSender, m)
      BY <2>1 DEF Kills
    <3>8. Stopped(t, r, p, toReceiver, inR, toSender, inS, m)
      BY <1>1, <3>3, <3>6, <3>7 DEF Stopped
    <3>9. AnswerOnce(t, s, p, screen, inR, inS) /\ Told(t, s, p, inR, inS)
      BY <3>4, <3>8, StoppedCarries
    <3>10. AnswerOnce(t, s, p, t \in onScreen, inR, inS)
      BY <3>5, <3>9 DEF AnswerOnce
    <3> QED BY <1>4, <2>1, <2>5, <3>2, <3>9, <3>10, AttemptFacts DEF Agreed, Newest
  <2>6. CASE byId[t] \notin {None, k}
    BY <1>4, <2>6 DEF Agreed, Newest
  <2> QED BY <2>4, <2>5, <2>6
<1> QED BY <1>3, <1>5, ReceivingAgrees

\* The offer is accepted or rejected, from the screen or in the dialog.
Answers(o, t, r, p, ms) ==
  /\ rcv' = [rcv EXCEPT ![o] = p] /\ p.session = r.session
  /\ ~p.dialog /\ p.missed = r.missed
  /\ \/ byId[t] = o /\ t \in onScreen /\ onScreen' = onScreen \ {t}
     \/ r.dialog /\ onScreen' = onScreen
  /\ About(ms, t) /\ ~Has(ms, "cancel", t) /\ TellSender(o, ms)
  /\ Accepts(t, r, p, ms) \/ Rejects(t, r, p, ms)

LEMMA AnswerAgrees ==
  ASSUME IInv, MapInv, SidesInv, UNCHANGED <<link, sending, byKey, byId, toReceiver>>,
         NEW t \in Transfer, NEW o \in Attempt, t = o[1], NEW r, r = rcv[o], NEW p, NEW ms, Answers(o, t, r, p, ms)
  PROVE  MapInv' /\ SidesInv'
<1> USE DEF Answers
<1> PICK s : s = snd[o]
  OBVIOUS
<1>1. Receives(o, t, s, r, p, ms)
  <2>1. Single(t) /\ byId[t] = Newest(t) => o = Newest(t) \/ (onScreen' = onScreen /\ toReceiver' = toReceiver)
    OBVIOUS
  <2>2. onScreen' \in {onScreen, onScreen \ {t}}
    OBVIOUS
  <2> QED BY <2>1, <2>2 DEF Receives
<1>2. LeftAgreed(o, t, s, r, p, ms)
  <2> SUFFICES ASSUME TellSender(o, ms) => toSender' = toSender \o ms,
                      NEW screen, NEW screen1, screen <=> t \in onScreen, screen1 <=> t \in onScreen',
                      NEW inR, NEW inS, inR = toReceiver', inS = toSender',
                      AnswerOnce(t, s, r, screen, toReceiver, toSender), Told(t, s, r, toReceiver, toSender)
               PROVE  AnswerOnce(t, s, p, screen1, inR, inS) /\ Told(t, s, p, inR, inS)
    BY DEF LeftAgreed, Carried
  <2>1. ~(screen /\ r.dialog) /\ (screen \/ r.dialog) /\ ~screen1
    BY DEF AnswerOnce
  <2>2. ms \in Seq(Messages) /\ ~All(ms)
    BY DEF About, All
  <2>3. toSender \in Seq(Messages) /\ inS = toSender \o ms
    BY DEF IInv, Typed
  <2>4. Answered(t, r, p, screen, screen1, toSender, inS, ms)
    BY <2>1, <2>2, <2>3 DEF Answered
  <2>5. inR = toReceiver
    OBVIOUS
  <2> QED BY <2>4, <2>5, AnswerCarries
<1> QED BY <1>1, <1>2, OneReceives

\* What accept() says.
LEMMA AcceptSays ==
  ASSUME NEW t, NEW ms \in Seq(Messages), NEW done \in BOOLEAN,
         Len(ms) \in {1, 2}, ms[1].type = "accept", ms[1].t = t,
         Len(ms) = 2 <=> done, done => ms[2].type = "complete" /\ ms[2].t = t
  PROVE  /\ About(ms, t) /\ Once(ms, t)
         /\ Has(ms, "accept", t) /\ ~Has(ms, "reject", t) /\ ~Has(ms, "cancel", t)
         /\ Has(ms, "complete", t) <=> done
<1>1. 1 \in DOMAIN ms /\ (done => 2 \in DOMAIN ms) /\ \A i \in DOMAIN ms : i = 1 \/ (i = 2 /\ done)
  OBVIOUS
<1>2. About(ms, t)
  BY <1>1 DEF About
<1>3. Once(ms, t)
  BY <1>1 DEF Once
<1>4. /\ Has(ms, "accept", t) /\ ~Has(ms, "reject", t) /\ ~Has(ms, "cancel", t)
      /\ Has(ms, "complete", t) <=> done
  BY <1>1 DEF Has
<1> QED BY <1>2, <1>3, <1>4

LEMMA AcceptedAgrees ==
  ASSUME IInv, MapInv, SidesInv, UNCHANGED <<link, sending, byKey, byId, toReceiver>>,
         NEW t \in Transfer, NEW o \in Attempt, t = o[1],
         NEW q \in ReceiverState, SameUser(q, rcv[o]), q.status = rcv[o].status, Asleep(rcv[o]) => Asleep(q),
         \/ byId[t] = o /\ t \in onScreen /\ onScreen' = onScreen \ {t}
         \/ rcv[o].dialog /\ onScreen' = onScreen,
         Accepted(o, q)
  PROVE  MapInv' /\ SidesInv'
<1> PICK r : r = rcv[o]
  OBVIOUS
<1> PICK p, ms : Begins(o, q, p, ms) /\ SetReceiver(o, p) /\ TellSender(o, ms)
  BY DEF Accepted, Begins
<1>1. /\ p.session = q.session /\ p.missed = q.missed /\ ~p.dialog
      /\ p.late = (q.late \/ q.status \in Over) /\ p.writing = q.writing
      /\ p.status \in {"transferring", "completed", "failed"}
      /\ FileSize[t] > 0 => p.status = "transferring" /\ p.stream = q.stream
      /\ ms \in Seq(Messages) /\ Len(ms) \in {1, 2}
      /\ ms[1].type = "accept" /\ ms[1].t = t
      /\ Len(ms) = 2 <=> p.status = "completed"
      /\ Len(ms) = 2 => ms[2].type = "complete" /\ ms[2].t = t
  BY BegunFacts
<1> PICK done \in BOOLEAN : done = (p.status = "completed")
  OBVIOUS
<1>2. /\ About(ms, t) /\ Once(ms, t)
      /\ Has(ms, "accept", t) /\ ~Has(ms, "reject", t) /\ ~Has(ms, "cancel", t)
      /\ Has(ms, "complete", t) <=> done
  BY <1>1, AcceptSays
<1>3. Accepts(t, r, p, ms)
  <2>1. p.late \/ ~(r.late \/ r.status \in Over)
    BY <1>1 DEF SameUser
  <2>2. FileSize[t] > 0 => p.status = "transferring" /\ (Asleep(r) => Asleep(p))
    BY <1>1 DEF Asleep
  <2> QED BY <1>1, <1>2, <2>1, <2>2 DEF Accepts
<1>4. \/ byId[t] = o /\ t \in onScreen /\ onScreen' = onScreen \ {t}
      \/ r.dialog /\ onScreen' = onScreen
  OBVIOUS
<1>5. Answers(o, t, r, p, ms)
  BY <1>1, <1>2, <1>3, <1>4 DEF Answers, SameUser, SetReceiver
<1> QED BY <1>5, AnswerAgrees

LEMMA RejectedAgrees ==
  ASSUME IInv, MapInv, SidesInv, UNCHANGED <<link, sending, byKey, byId, toReceiver>>,
         NEW t \in Transfer, NEW o \in Attempt, t = o[1],
         \/ byId[t] = o /\ t \in onScreen /\ onScreen' = onScreen \ {t}
         \/ rcv[o].dialog /\ onScreen' = onScreen,
         Rejected(o, rcv[o])
  PROVE  MapInv' /\ SidesInv'
<1> PICK r \in ReceiverState : r = rcv[o]
  BY DEF IInv, Typed, ReceiverTyped
<1> DEFINE p == [r EXCEPT !.status = "cancelled", !.dialog = FALSE]
<1>1. p.session = r.session /\ p.late = r.late /\ ~p.dialog /\ p.missed = r.missed /\ p.status = "cancelled"
  BY DEF ReceiverState
<1> PICK m : m = Message("reject", t)
  OBVIOUS
<1> PICK ms : ms = <<m>>
  OBVIOUS
<1>2. m \in Messages /\ m.type = "reject" /\ m.t = t
  BY MessageFacts
<1>3. rcv' = [rcv EXCEPT ![o] = p] /\ TellSender(o, ms)
  BY DEF Rejected, SetReceiver
<1> HIDE DEF p
<1>4. \/ byId[t] = o /\ t \in onScreen /\ onScreen' = onScreen \ {t}
      \/ r.dialog /\ onScreen' = onScreen
  OBVIOUS
<1>5. ms \in Seq(Messages) /\ 1 \in DOMAIN ms /\ \A i \in DOMAIN ms : ms[i] = m
  BY <1>2
<1>6. About(ms, t) /\ ~Has(ms, "cancel", t) /\ Rejects(t, r, p, ms)
  BY <1>1, <1>2, <1>5 DEF About, Has, Rejects
<1>7. Answers(o, t, r, p, ms)
  BY <1>1, <1>3, <1>4, <1>6 DEF Answers
<1> QED BY <1>7, AnswerAgrees

\* The save dialog opens.
LEMMA OpensAgrees ==
  ASSUME IInv, MapInv, SidesInv, UNCHANGED <<link, sending, byKey, byId, toReceiver, toSender>>,
         NEW t \in Transfer, NEW o \in Attempt, byId[t] = o, t \in onScreen, onScreen' = onScreen \ {t},
         rcv' = [rcv EXCEPT ![o] = [rcv[o] EXCEPT !.dialog = TRUE]]
  PROVE  MapInv' /\ SidesInv'
<1> PICK r \in ReceiverState : r = rcv[o]
  BY DEF IInv, Typed, ReceiverTyped
<1> DEFINE p == [r EXCEPT !.dialog = TRUE]
<1>1. /\ p.session = r.session /\ p.late = r.late /\ p.dialog /\ p.missed = r.missed
      /\ p.status = r.status /\ (Asleep(r) => Asleep(p))
  BY DEF ReceiverState, Asleep
<1>2. rcv' = [rcv EXCEPT ![o] = p]
  OBVIOUS
<1> HIDE DEF p
<1> PICK ms : ms = <<>>
  OBVIOUS
<1>3. About(ms, t)
  BY NothingSays DEF About
<1> PICK s : s = snd[o]
  OBVIOUS
<1>4. Receives(o, t, s, r, p, ms)
  <2>1. t = o[1] /\ (byId[t] = Newest(t) => o = Newest(t))
    BY ByIdFacts, AttemptFacts
  <2>2. onScreen' \in {onScreen, onScreen \ {t}}
    OBVIOUS
  <2> QED BY <1>1, <1>2, <1>3, <2>1, <2>2 DEF Receives
<1>5. LeftAgreed(o, t, s, r, p, ms)
  <2> SUFFICES ASSUME NEW screen, NEW screen1, screen <=> t \in onScreen, screen1 <=> t \in onScreen',
                      NEW inR, NEW inS, inR = toReceiver', inS = toSender',
                      AnswerOnce(t, s, r, screen, toReceiver, toSender), Told(t, s, r, toReceiver, toSender)
               PROVE  AnswerOnce(t, s, p, screen1, inR, inS) /\ Told(t, s, p, inR, inS)
    BY DEF LeftAgreed, Carried
  <2>1. screen /\ ~screen1 /\ inR = toReceiver /\ inS = toSender
    OBVIOUS
  <2> QED BY <1>1, <2>1, DialogCarries
<1> QED BY <1>4, <1>5, OneReceives

\* What the receivers take no notice of, but for an offer that goes from the screen.
LEMMA IdleAgrees ==
  ASSUME IInv, MapInv, SidesInv, UNCHANGED <<link, sending, byKey, byId, toReceiver, toSender, rcv>>,
         NEW t \in Transfer, onScreen' = onScreen \/ (onScreen' = onScreen \ {t} /\ Offered(t) = None)
  PROVE  MapInv' /\ SidesInv'
<1>1. UNCHANGED <<tries, snd, byId, rcv, toReceiver, toSender>>
  BY DEF sending
<1>2. ASSUME NEW u \in Transfer, Single(u), Agreed(u) PROVE Agreed(u)'
  <2>1. byId[u] # None => (u \in onScreen' <=> u \in onScreen)
    BY <1>2, SingleFacts DEF Offered
  <2>2. Newest(u) # None
    BY <1>2, SingleFacts, AttemptFacts
  <2> PICK k : k = Newest(u)
    OBVIOUS
  <2>3. byId[u] = k => (AnswerOnce(u, snd[k], rcv[k], u \in onScreen, toReceiver, toSender)
          => AnswerOnce(u, snd[k], rcv[k], u \in onScreen', toReceiver, toSender))
    BY <2>1, <2>2 DEF AnswerOnce
  <2> QED BY <1>1, <1>2, <2>3 DEF Agreed, Newest
<1> QED BY <1>1, <1>2, ReceivingAgrees

LEMMA UserAnswersAgrees ==
  ASSUME IInv, MapInv, SidesInv, UNCHANGED <<link, sending, byKey, byId, toReceiver>>, UserAnswers
  PROVE  MapInv' /\ SidesInv'
<1> PICK t \in onScreen : onScreen' = onScreen \ {t} /\ (UserAccepts(t) \/ UserRejects(t))
  BY DEF UserAnswers
<1>1. t \in Transfer
  BY DEF IInv, Typed
<1>2. CASE Offered(t) = None
  <2>1. UNCHANGED <<rcv, toSender>>
    BY <1>2 DEF UserAccepts, UserRejects
  <2> QED BY <1>1, <1>2, <2>1, IdleAgrees
<1>3. CASE Offered(t) # None
  <2> PICK o \in Attempt : o = byId[t] /\ o[1] = t /\ o = Offered(t)
    BY <1>1, <1>3, OfferedFacts DEF Offered
  <2> PICK r \in ReceiverState : r = rcv[o]
    BY DEF IInv, Typed, ReceiverTyped
  <2>1. SameUser(r, r)
    BY DEF SameUser
  <2>2. CASE PutReceiver(o, [rcv[o] EXCEPT !.dialog = TRUE]) /\ UNCHANGED toSender
    BY <1>1, <2>2, OpensAgrees DEF PutReceiver
  <2>3. CASE Accepted(o, rcv[o])
    BY <1>1, <2>1, <2>3, AcceptedAgrees
  <2>4. CASE Rejected(o, rcv[o])
    BY <1>1, <2>4, RejectedAgrees
  <2> QED BY <1>3, <2>2, <2>3, <2>4 DEF UserAccepts, UserRejects
<1> QED BY <1>2, <1>3

LEMMA DialogAgrees ==
  ASSUME IInv, MapInv, SidesInv, UNCHANGED <<link, sending, byKey, byId, onScreen, toReceiver>>,
         NEW o \in Attempt, DialogEnds(o)
  PROVE  MapInv' /\ SidesInv'
<1> PICK t \in Transfer : t = o[1]
  BY AttemptFacts
<1> PICK r \in ReceiverState : r = rcv[o]
  BY DEF IInv, Typed, ReceiverTyped
<1> DEFINE q == [r EXCEPT !.stream = "open"]
<1>1. q \in ReceiverState /\ SameUser(q, r) /\ q.status = r.status /\ q.writing = r.writing /\ q.stream = "open"
      /\ SameUser(r, r)
  BY DEF ReceiverState, SameUser
<1>2. r.dialog /\ onScreen' = onScreen /\ (Accepted(o, q) \/ Accepted(o, r) \/ Rejected(o, r))
  BY DEF DialogEnds
<1> HIDE DEF q
<1>6. Asleep(r) => Asleep(q)
  BY <1>1 DEF Asleep, Closing
<1>3. CASE Accepted(o, q)
  BY <1>1, <1>2, <1>3, <1>6, AcceptedAgrees
<1>4. CASE Accepted(o, r)
  BY <1>1, <1>2, <1>4, AcceptedAgrees
<1>5. CASE Rejected(o, r)
  BY <1>2, <1>5, RejectedAgrees
<1> QED BY <1>2, <1>3, <1>4, <1>5

LEMMA WriteDoneAgrees ==
  ASSUME IInv, MapInv, SidesInv, UNCHANGED <<link, sending, byKey, byId, onScreen, toReceiver>>,
         NEW o \in Attempt, WriteDone(o)
  PROVE  MapInv' /\ SidesInv'
<1> PICK r \in ReceiverState : r = rcv[o]
  BY DEF IInv, Typed, ReceiverTyped
<1>1. r.writing > 0 /\ r.writing \in Nat /\ r.got \in Nat
  BY DEF WriteDone, ReceiverState
<1> PICK w \in Nat, g \in Nat : w = r.writing - 1 /\ g = r.got + 1
  <2>1. r.writing - 1 \in Nat /\ r.got + 1 \in Nat
    BY <1>1
  <2> QED BY <2>1
<1> PICK x : x = IF Full(o, r) THEN "closing" ELSE "open"
  OBVIOUS
<1> DEFINE q == [r EXCEPT !.writing = w, !.got = g, !.stream = x]
<1>2. SameUser(q, r) /\ q.status = r.status
  BY DEF ReceiverState, SameUser
<1>3. PutReceiver(o, q) /\ UNCHANGED toSender
  BY DEF WriteDone
<1> HIDE DEF q
<1>4. Working(o)
  BY <1>1 DEF Working, Asleep
<1> QED BY <1>2, <1>3, <1>4, PutAgrees

LEMMA WriteFailsAgrees ==
  ASSUME IInv, MapInv, SidesInv, UNCHANGED <<link, sending, byKey, byId, onScreen, toReceiver>>,
         NEW o \in Attempt, WriteFails(o)
  PROVE  MapInv' /\ SidesInv'
<1> PICK r \in ReceiverState : r = rcv[o]
  BY DEF IInv, Typed, ReceiverTyped
<1> PICK g \in Nat : g = r.got + 1
  BY DEF ReceiverState
<1>0. r.writing > 0 /\ r.writing \in Nat /\ UNCHANGED toSender
  BY DEF WriteFails, ReceiverState
<1> DEFINE q == [r EXCEPT !.writing = 0]
           a == [q EXCEPT !.stream = "errored"]
           b == [q EXCEPT !.stream = "none"]
           c == [q EXCEPT !.stream = "none", !.got = g]
<1>1. /\ a \in ReceiverState /\ SameUser(a, r) /\ a.status = r.status
      /\ b \in ReceiverState /\ SameUser(b, r) /\ b.status = r.status
      /\ c \in ReceiverState /\ SameUser(c, r) /\ c.status = r.status /\ q.got = r.got
  BY DEF ReceiverState, SameUser
<1>2. c = [q EXCEPT !.stream = "none", !.got = @ + 1]
  BY <1>1 DEF ReceiverState
<1>3. FailReceiver(o, a) \/ FailReceiver(o, b) \/ FailReceiver(o, c) \/ PutReceiver(o, c)
  BY <1>2 DEF WriteFails
<1> HIDE DEF q, a, b, c
<1>4. Working(o)
  BY <1>0 DEF Working, Asleep
<1>5. UNCHANGED <<link, sending, byKey, byId, onScreen, toSender>>
  BY <1>0
<1>6. CASE FailReceiver(o, a)
  BY <1>1, <1>4, <1>5, <1>6, FailAgrees
<1>7. CASE FailReceiver(o, b)
  BY <1>1, <1>4, <1>5, <1>7, FailAgrees
<1>8. CASE FailReceiver(o, c)
  BY <1>1, <1>4, <1>5, <1>8, FailAgrees
<1>9. CASE PutReceiver(o, c)
  BY <1>1, <1>4, <1>5, <1>9, PutAgrees
<1> QED BY <1>3, <1>6, <1>7, <1>8, <1>9

LEMMA CloseDoneAgrees ==
  ASSUME IInv, MapInv, SidesInv, UNCHANGED <<link, sending, byKey, byId, onScreen, toReceiver>>,
         NEW o \in Attempt, CloseDone(o)
  PROVE  MapInv' /\ SidesInv'
<1> PICK r \in ReceiverState : r = rcv[o]
  BY DEF IInv, Typed, ReceiverTyped
<1>0. r.got \in Nat /\ r.writing \in Nat
  BY DEF ReceiverState
<1> PICK g \in Nat, w \in Nat : g = r.got + r.writing /\ w = r.writing + 1
  <2>1. r.got + r.writing \in Nat /\ r.writing + 1 \in Nat
    BY <1>0
  <2> QED BY <2>1
<1>7. w >= 1
  BY <1>0
<1> PICK m : m = Message("complete", o[1])
  OBVIOUS
<1> DEFINE s == [r EXCEPT !.stream = "none", !.status = "completed", !.got = g, !.writing = 0]
           ms == [i \in 1..w |-> m]
<1>1. SameUser(s, r) /\ s.status = "completed"
  BY DEF ReceiverState, SameUser
<1>2. SetReceiver(o, s) /\ TellSender(o, ms)
  BY DEF CloseDone
<1>3. m \in Messages /\ m.type = "complete" /\ m.t = o[1]
  BY ReplyFacts
<1>4. ms \in Seq(Messages) /\ ms # <<>> /\ \A i \in DOMAIN ms : ms[i] = m
  <2>1. ms \in Seq(Messages) /\ (\A i \in DOMAIN ms : ms[i] = m) /\ 1 \in DOMAIN ms
    BY <1>3, <1>7
  <2>2. DOMAIN <<>> = {}
    OBVIOUS
  <2> HIDE DEF ms
  <2> QED BY <2>1, <2>2
<1> HIDE DEF s, ms
<1>5. Confirms(ms, o[1])
  BY <1>3, <1>4 DEF Confirms
<1>6. Working(o)
  BY DEF CloseDone, Working, Asleep
<1> QED BY <1>1, <1>2, <1>5, <1>6, CompletedAgrees

LEMMA CloseFailsAgrees ==
  ASSUME IInv, MapInv, SidesInv, UNCHANGED <<link, sending, byKey, byId, onScreen, toReceiver>>,
         NEW o \in Attempt, CloseFails(o)
  PROVE  MapInv' /\ SidesInv'
<1> PICK r \in ReceiverState : r = rcv[o]
  BY DEF IInv, Typed, ReceiverTyped
<1> PICK x \in {"errored", "none"} : x = IF r.stream = "closing" THEN "errored" ELSE "none"
  OBVIOUS
<1> DEFINE q == [r EXCEPT !.stream = x, !.writing = 0]
<1>1. q \in ReceiverState /\ SameUser(q, r) /\ q.status = r.status
  BY DEF ReceiverState, SameUser
<1>2. FailReceiver(o, q) /\ UNCHANGED toSender
  BY DEF CloseFails
<1> HIDE DEF q
<1>3. Working(o)
  BY DEF CloseFails, Working, Asleep
<1> QED BY <1>1, <1>2, <1>3, FailAgrees

LEMMA ReceiverPausesAgrees ==
  ASSUME IInv, MapInv, SidesInv, UNCHANGED <<link, sending, byKey, byId, onScreen, toReceiver>>,
         NEW t \in Transfer, ReceiverPauses(t)
  PROVE  MapInv' /\ SidesInv'
<1>1. Offered(t) # None
  BY DEF ReceiverPauses
<1> PICK o \in Attempt : o = byId[t] /\ o = Offered(t)
  BY <1>1, OfferedFacts DEF Offered
<1> PICK r \in ReceiverState : r = rcv[o]
  BY DEF IInv, Typed, ReceiverTyped
<1>2. \/ /\ r.status = "transferring" /\ rcv' = [rcv EXCEPT ![o] = [r EXCEPT !.status = "paused"]]
         /\ TellSender(o, <<Message("pause", t)>>)
      \/ /\ r.status = "paused" /\ rcv' = [rcv EXCEPT ![o] = [r EXCEPT !.status = "transferring"]]
         /\ TellSender(o, <<Message("resume", t)>>)
  BY DEF ReceiverPauses, SetReceiver
<1>3. PICK st \in {"transferring", "paused"}, type \in {"pause", "resume"} :
        /\ r.status \in {"transferring", "paused"}
        /\ rcv' = [rcv EXCEPT ![o] = [r EXCEPT !.status = st]] /\ TellSender(o, <<Message(type, t)>>)
  BY <1>2
<1>4. Steers(o, t, r, st, type)
  BY <1>3 DEF Steers
<1> QED BY <1>4, SteerAgrees

\* cancel() of one receiver.
LEMMA StopOne ==
  ASSUME NEW o \in Attempt, rcv \in [Attempt -> ReceiverState], StopReceivers({o}, {})
  PROVE  rcv' = [rcv EXCEPT ![o] = Cancelled(rcv[o])]
BY DEF StopReceivers

LEMMA ReceiverCancelsAgrees ==
  ASSUME IInv, MapInv, SidesInv, UNCHANGED <<link, sending, byKey, byId, onScreen, toReceiver>>,
         NEW t \in Transfer, ReceiverCancels(t)
  PROVE  MapInv' /\ SidesInv'
<1>1. CASE Offered(t) = None
  <2>1. UNCHANGED <<rcv, toSender>>
    BY <1>1 DEF ReceiverCancels
  <2> QED BY <2>1, IdleAgrees
<1>2. CASE Offered(t) # None
  <2> PICK o \in Attempt : o = byId[t] /\ o = Offered(t)
    BY <1>2, OfferedFacts DEF Offered
  <2> PICK r \in ReceiverState : r = rcv[o]
    BY DEF IInv, Typed, ReceiverTyped
  <2>1. StopReceivers({o}, {})
        /\ IF r.status \in Settled THEN UNCHANGED toSender ELSE TellSender(o, <<Message("cancel", t)>>)
    BY <1>2 DEF ReceiverCancels
  <2>2. rcv' = [rcv EXCEPT ![o] = Cancelled(r)]
    BY <2>1, StopOne DEF IInv, Typed, ReceiverTyped
  <2>3. \/ toReceiver' = toReceiver /\ TellSender(o, <<Message("cancel", t)>>)
        \/ toReceiver' = toReceiver /\ r.status \in Settled /\ toSender' = toSender
    BY <2>1
  <2> QED BY <2>2, <2>3, StopAgrees
<1> QED BY <1>1, <1>2

LEMMA ReceivingSideAgrees ==
  ASSUME IInv, MapInv, SidesInv, ReceivingSide PROVE MapInv' /\ SidesInv'
<1>1. UNCHANGED <<link, toReceiver, sending, byKey, byId>>
  BY DEF ReceivingSide
<1>2. ASSUME UserAnswers PROVE MapInv' /\ SidesInv'
  BY <1>1, <1>2, UserAnswersAgrees
<1>3. ASSUME UNCHANGED onScreen, NEW o \in Attempt,
             DialogEnds(o) \/ WriteDone(o) \/ WriteFails(o) \/ CloseDone(o) \/ CloseFails(o)
      PROVE  MapInv' /\ SidesInv'
  BY <1>1, <1>3, DialogAgrees, WriteDoneAgrees, WriteFailsAgrees, CloseDoneAgrees, CloseFailsAgrees
<1>4. ASSUME UNCHANGED onScreen, NEW t \in Transfer, ReceiverPauses(t) \/ ReceiverCancels(t)
      PROVE  MapInv' /\ SidesInv'
  BY <1>1, <1>4, ReceiverPausesAgrees, ReceiverCancelsAgrees
<1>5. ASSUME UNCHANGED onScreen, ReceiverCancelsAll PROVE MapInv' /\ SidesInv'
  <2> PICK K, X : K = (IF session["receiver"] # 0 THEN Receivers ELSE {}) /\ X = Cancellable(rEntry)
    OBVIOUS
  <2>1. StopReceivers(K, X) /\ (session["receiver"] # 0 => K = Receivers)
        /\ toSender' = IF Linked THEN Append(toSender, Message("cancel-all", None)) ELSE toSender
    BY <1>5 DEF ReceiverCancelsAll
  <2>2. \/ /\ toReceiver # <<>> /\ toReceiver' = Tail(toReceiver) /\ toSender' = toSender
           /\ Head(toReceiver).type = "cancel-all"
        \/ /\ toReceiver' = toReceiver
           /\ toSender' = IF Linked THEN Append(toSender, Message("cancel-all", None)) ELSE toSender
    BY <1>1, <2>1
  <2> QED BY <1>1, <1>5, <2>1, <2>2, StopAllAgrees
<1> QED BY <1>2, <1>3, <1>4, <1>5 DEF ReceivingSide

\* Everything the receiver is told but an offer.
LEMMA TakenAgrees ==
  ASSUME IInv, MapInv, SidesInv, NEW m \in Messages, m = Head(toReceiver), toReceiver # <<>>,
         toReceiver' = Tail(toReceiver), UNCHANGED <<link, sending, byKey, byId, onScreen>>,
         \/ m.type = "chunk" /\ GetChunk(byKey[<<m.t, m.n>>], m.at)
         \/ m.type = "pause" /\ SetPaused(byId[m.t], "transferring", "paused") /\ UNCHANGED toSender
         \/ m.type = "resume" /\ SetPaused(byId[m.t], "paused", "transferring") /\ UNCHANGED toSender
         \/ m.type = "cancel" /\ StopReceivers({byId[m.t]}, {}) /\ UNCHANGED toSender
         \/ m.type = "cancel-all" /\ StopReceivers(Receivers, {}) /\ UNCHANGED toSender
  PROVE  MapInv' /\ SidesInv'
<1>1. Routed(1, m)
  <2>1. 1 \in DOMAIN toReceiver /\ m = toReceiver[1]
    BY TailFacts DEF IInv, Typed
  <2> QED BY <2>1 DEF IInv, RouteInv
<1>2. CASE m.type = "chunk" /\ GetChunk(byKey[<<m.t, m.n>>], m.at)
  <2> PICK k : k = <<m.t, m.n>>
    OBVIOUS
  <2>1. k \in Attempt /\ k[1] = m.t /\ byKey[k] # None
    BY <1>1, <1>2 DEF Routed, OfferedBefore
  <2> PICK o \in Attempt : o = byKey[k] /\ o[1] = m.t
    BY <2>1, ByIdFacts
  <2>2. Arrives(o)
    BY <1>2, <2>1 DEF Arrives
  <2> QED BY <1>2, <2>2, ChunkAgrees
<1>3. CASE m.type \in {"pause", "resume", "cancel"} /\ UNCHANGED toSender
  <2> PICK t \in Transfer : t = m.t /\ byId[t] # None
    BY <1>1, <1>3 DEF Routed, TransferBefore
  <2> PICK o \in Attempt : o = byId[t]
    BY ByIdFacts
  <2> PICK r \in ReceiverState : r = rcv[o]
    BY DEF IInv, Typed, ReceiverTyped
  <2>1. CASE m.type = "cancel"
    <3>1. rcv' = [rcv EXCEPT ![o] = Cancelled(r)]
      BY <2>1, StopOne DEF IInv, Typed, ReceiverTyped
    <3>2. /\ toReceiver # <<>> /\ toReceiver' = Tail(toReceiver) /\ toSender' = toSender
          /\ Head(toReceiver).type = "cancel" /\ Head(toReceiver).t = t
      BY <1>3, <2>1
    <3> QED BY <3>1, <3>2, StopAgrees
  <2>2. CASE m.type \in {"pause", "resume"}
    <3>1. /\ toReceiver # <<>> /\ toReceiver' = Tail(toReceiver) /\ toSender' = toSender
          /\ Head(toReceiver).type \in {"pause", "resume"} /\ Head(toReceiver).t = t
      BY <1>3, <2>2
    <3>2. r = [r EXCEPT !.status = r.status]
      BY DEF ReceiverState
    <3>3. \/ rcv' = rcv
          \/ \E st \in {"transferring", "paused"} :
               r.status \in {"transferring", "paused"} /\ rcv' = [rcv EXCEPT ![o] = [r EXCEPT !.status = st]]
      BY <2>2 DEF SetPaused, SetReceiver
    <3> PICK type \in {"pause", "resume"} : TRUE
      OBVIOUS
    <3>4. CASE rcv' = rcv
      <4>1. rcv' = [rcv EXCEPT ![o] = [r EXCEPT !.status = r.status]]
        BY <3>2, <3>4 DEF IInv, Typed, ReceiverTyped
      <4>2. Steers(o, t, r, r.status, type)
        BY <3>1, <4>1 DEF Steers
      <4> QED BY <4>2, SteerAgrees
    <3>5. ASSUME NEW st \in {"transferring", "paused"}, r.status \in {"transferring", "paused"},
                 rcv' = [rcv EXCEPT ![o] = [r EXCEPT !.status = st]]
          PROVE  MapInv' /\ SidesInv'
      <4>1. Steers(o, t, r, st, type)
        BY <3>1, <3>5 DEF Steers
      <4> QED BY <4>1, SteerAgrees
    <3> QED BY <3>3, <3>4, <3>5
  <2> QED BY <1>3, <2>1, <2>2
<1>4. CASE m.type = "cancel-all" /\ StopReceivers(Receivers, {}) /\ UNCHANGED toSender
  <2> PICK K, X : K = Receivers /\ X = {}
    OBVIOUS
  <2>1. StopReceivers(K, X)
    BY <1>4
  <2>2. /\ toReceiver # <<>> /\ toReceiver' = Tail(toReceiver) /\ toSender' = toSender
        /\ Head(toReceiver).type = "cancel-all"
    BY <1>4
  <2> QED BY <2>1, <2>2, StopAllAgrees
<1> QED BY <1>2, <1>3, <1>4

\* What the offer of k makes of receiver o: a new one of this session, or the
\* same one once more.
Offers(k, o, r, b) ==
  /\ o \in Attempt /\ o[1] = k[1] /\ r \in ReceiverState
  /\ rcv' = [rcv EXCEPT ![o] = r] /\ byKey' = [byKey EXCEPT ![k] = o] /\ byId' = [byId EXCEPT ![k[1]] = o]
  /\ \/ o = byId[k[1]] /\ rcv[o].session # 0 /\ r.session = rcv[o].session
     \/ o = k /\ r = Fresh(sessions, b) /\ r.session = sessions
  /\ byId[k[1]] = None => o = k /\ r = Fresh(sessions, b)
  /\ b = Missed(k)

LEMMA OffersFacts ==
  ASSUME IInv, NEW k \in Attempt, session["receiver"] = sessions, GetOffer(k)
  PROVE  \E o, r, b : Offers(k, o, r, b)
<1> PICK t \in Transfer : t = k[1]
  BY AttemptFacts
<1> PICK b \in BOOLEAN : b = Missed(k)
  BY DEF Missed
<1>1. CASE byId[t] # None /\ rcv[byId[t]].status = "failed"
  <2> PICK o \in Attempt : o = byId[t] /\ o[1] = t /\ rcv[o].session # 0
    BY <1>1, ByIdFacts
  <2> PICK q \in ReceiverState : q = rcv[o]
    BY DEF IInv, Typed, ReceiverTyped
  <2>1. PICK r \in ReceiverState : r.session = q.session /\ r = Rearmed(q)
    BY OfferedTyped
  <2>2. rcv' = [rcv EXCEPT ![o] = r] /\ byKey' = [byKey EXCEPT ![k] = o] /\ byId' = [byId EXCEPT ![t] = o]
    BY <1>1, <2>1 DEF GetOffer, Rearmed
  <2>3. Offers(k, o, r, b)
    BY <1>1, <2>1, <2>2 DEF Offers
  <2> QED BY <2>3
<1>2. CASE ~(byId[t] # None /\ rcv[byId[t]].status = "failed")
  <2>0. sessions \in Nat
    BY RegistryAssumption DEF IInv, Typed
  <2>1. PICK r \in ReceiverState : r.session = sessions /\ r = Fresh(sessions, b)
    BY <2>0, OfferedTyped
  <2>2. rcv' = [rcv EXCEPT ![k] = r] /\ byKey' = [byKey EXCEPT ![k] = k] /\ byId' = [byId EXCEPT ![t] = k]
    BY <1>2, <2>1 DEF GetOffer, Fresh
  <2>3. Offers(k, k, r, b)
    BY <2>1, <2>2 DEF Offers
  <2> QED BY <2>3
<1> QED BY <1>1, <1>2

\* A receiver that was not there yet: nobody answered, nothing was sent.
LEMMA FreshCarries ==
  ASSUME NEW k \in Attempt, NEW t, t = k[1], NEW s, s = snd[k], NEW p, NEW inR, NEW screen, screen,
         toReceiver \in Seq(Messages), toReceiver # <<>>, inR = Tail(toReceiver),
         Head(toReceiver).type = "offer", Head(toReceiver).t = t,
         p.status = "pending", Asleep(p), ~p.dialog, p.missed <=> Missed(k),
         Unseen(t, s, toReceiver, toSender)
  PROVE  AnswerOnce(t, s, p, screen, inR, toSender) /\ Told(t, s, p, inR, toSender)
<1>1. /\ \A type \in {"accept", "reject", "complete", "cancel"} : ~Has(toSender, type, t)
      /\ s.queued = 0 /\ s.run = "idle" /\ s.status # "completed"
  BY DEF Unseen, Mentions, Has
<1>2. /\ Has(inR, "chunk", t) => Has(toReceiver, "chunk", t)
      /\ Killed(inR, t) => KilledAfterOffer(toReceiver, t)
      /\ Killed(toReceiver, t) => Killed(inR, t)
  BY TailSays DEF Kills
<1>3. ~Has(inR, "chunk", t) /\ (Killed(inR, t) => s.status \in Over)
  BY <1>2 DEF Unseen
<1>4. AnswerOnce(t, s, p, screen, inR, toSender)
  BY <1>1, <1>3 DEF AnswerOnce, Still
<1>5. Told(t, s, p, inR, toSender)
  <2>1. s.status = "cancelled" /\ ~p.missed => Killed(inR, t)
    BY <1>2 DEF Missed, Killed, Kills
  <2>2. All(toSender) => p.missed
    BY DEF Missed, All
  <2> QED BY <1>1, <1>3, <2>1, <2>2 DEF Told
<1> QED BY <1>4, <1>5

LEMMA OfferTakenAgrees ==
  ASSUME IInv, MapInv, SidesInv, NEW k \in Attempt, NEW m \in Messages, m = Head(toReceiver), toReceiver # <<>>,
         toReceiver' = Tail(toReceiver), m.type = "offer", k = <<m.t, m.n>>,
         open["receiver"], GetOffer(k), UNCHANGED <<link, sending>>
  PROVE  MapInv' /\ SidesInv'
<1> USE DEF IInv
<1> PICK t \in Transfer : t = k[1]
  BY AttemptFacts
<1>1. /\ UNCHANGED <<sessions, session, open, tries, snd, toSender>> /\ onScreen' = onScreen \cup {t}
  BY DEF link, sending, GetOffer, RegisterReceive
<1>2. toReceiver \in Seq(Messages) /\ toSender \in Seq(Messages) /\ 1 \in DOMAIN toReceiver /\ m = toReceiver[1]
      /\ m.t = t /\ m.n = k[2]
  <2>1. toReceiver \in Seq(Messages) /\ toSender \in Seq(Messages)
    BY DEF Typed
  <2> QED BY <2>1, TailFacts
<1>3. snd[k].session = sessions
  BY <1>2 DEF RouteInv, Routed
<1>4. byKey[k] = None
  <2> SUFFICES ASSUME byKey[k] # None PROVE FALSE
    OBVIOUS
  <2>1. k[2] < m.n
    BY <1>2 DEF OrderInv
  <2> QED BY <1>2, <2>1, AttemptFacts
<1>5. session["receiver"] = sessions /\ sessions > 0 /\ sessions \in Nat
  BY RegistryAssumption DEF LinkInv, Side, Typed
<1>6. PICK o, r, b : Offers(k, o, r, b)
  BY <1>5, OffersFacts
<1>7. /\ \A j \in Attempt : rcv'[j] = IF j = o THEN r ELSE rcv[j]
      /\ \A j \in Attempt : byKey'[j] = IF j = k THEN o ELSE byKey[j]
      /\ \A u \in Transfer : byId'[u] = IF u = t THEN o ELSE byId[u]
      /\ o # None /\ o \in Attempt /\ o[1] = t
  BY <1>6, AttemptFacts DEF Offers, Typed, ReceiverTyped
<1>8. MapInv'
  <2> SUFFICES ASSUME NEW j \in Attempt
               PROVE  /\ byKey'[j] # None => snd[j].session = sessions
                      /\ rcv'[j].session # 0 => rcv'[j].session = snd[j].session
                      /\ rcv'[j].session # 0 /\ rcv'[j].session = sessions => byKey'[j] # None
                      /\ snd[j].status = "cancelled" => snd[j].cancelled
    BY <1>1 DEF MapInv
  <2>1. byKey'[j] # None => snd[j].session = sessions
    BY <1>3, <1>7 DEF MapInv
  <2>2. byKey[j] # None => byKey'[j] # None
    BY <1>7
  <2>3. CASE j # o \/ (rcv[o].session # 0 /\ r.session = rcv[o].session)
    <3>1. rcv'[j].session = rcv[j].session
      BY <1>7, <2>3
    <3> QED BY <2>1, <2>2, <3>1 DEF MapInv
  <2>4. CASE j = o /\ o = k /\ r.session = sessions
    <3>1. rcv'[j].session = sessions /\ byKey'[j] # None
      BY <1>7, <2>4
    <3> QED BY <1>3, <2>1, <2>4, <3>1 DEF MapInv
  <2> QED BY <1>6, <2>3, <2>4 DEF Offers
<1>9. ASSUME NEW u \in Transfer, u # t, Single(u), Agreed(u) PROVE Agreed(u)'
  <2> PICK j : j = Newest(u)
    OBVIOUS
  <2>1. j \in Attempt /\ j[1] = u
    BY <1>9, SingleFacts
  <2>2. rcv'[j] = rcv[j] /\ byId'[u] = byId[u] /\ (u \in onScreen' <=> u \in onScreen)
    BY <1>1, <1>7, <1>9, <2>1
  <2>3. CASE byId[u] = None
    <3> QED BY <1>1, <1>9, <2>2, <2>3, NothingSays, AbsentAgrees
  <2>4. CASE byId[u] = j
    <3> DEFINE screen == u \in onScreen
    <3> PICK s, q : s = snd[j] /\ q = rcv[j]
      OBVIOUS
    <3>1. AnswerOnce(u, s, q, screen, toReceiver, toSender) /\ Told(u, s, q, toReceiver, toSender)
      BY <1>9, <2>4 DEF Agreed
    <3>2. screen <=> u \in onScreen
      OBVIOUS
    <3> HIDE DEF screen
    <3> PICK inR : inR = toReceiver'
      OBVIOUS
    <3>3. inR = Tail(toReceiver) /\ ~Kills(Head(toReceiver), u)
      BY <1>2 DEF Kills
    <3>5. AnswerOnce(u, s, q, screen, inR, toSender) /\ Told(u, s, q, inR, toSender)
      BY <1>2, <3>1, <3>3, NothingSays, ElsewhereCarries
    <3>6. AnswerOnce(u, s, q, u \in onScreen', inR, toSender)
      BY <2>2, <3>2, <3>5 DEF AnswerOnce
    <3> QED BY <1>1, <2>1, <2>2, <2>4, <3>5, <3>6, AttemptFacts DEF Agreed, Newest
  <2>5. CASE byId[u] \notin {None, j}
    BY <1>1, <2>2, <2>5 DEF Agreed, Newest
  <2> QED BY <2>3, <2>4, <2>5
<1>10. ASSUME Single(t), Agreed(t) PROVE Agreed(t)'
  <2>1. k = Newest(t)
    BY <1>3, <1>10, SingleFacts
  <2>2. byId[t] = None
    <3> SUFFICES ASSUME byId[t] # None PROVE FALSE
      OBVIOUS
    <3>1. PICK n \in 1..tries[t] : byKey[<<t, n>>] = byId[t]
      BY DEF ReceiverInv
    <3>2. <<t, n>> \in Attempt /\ <<t, n>>[1] = t /\ byKey[<<t, n>>] # None
      BY <3>1, NewestFacts, AttemptFacts, RegistryAssumption
    <3>3. <<t, n>> = k
      BY <1>10, <2>1, <3>2, SingleFacts
    <3> QED BY <1>4, <3>2, <3>3
  <2>3. o = k /\ r = Fresh(sessions, b) /\ b = Missed(k)
    BY <1>6, <2>2 DEF Offers
  <2> PICK p : p = r
    OBVIOUS
  <2>4. p.status = "pending" /\ Asleep(p) /\ ~p.dialog /\ (p.missed <=> Missed(k))
    BY <2>3 DEF Fresh, NewReceiver, Asleep, Closing
  <2>5. Unseen(t, snd[k], toReceiver, toSender)
    BY <1>10, <2>1, <2>2 DEF Agreed
  <2> DEFINE screen == t \in onScreen'
  <2>6. screen /\ (screen <=> t \in onScreen')
    BY <1>1
  <2> HIDE DEF screen
  <2> PICK s : s = snd[k]
    OBVIOUS
  <2> PICK inR : inR = toReceiver'
    OBVIOUS
  <2>7. AnswerOnce(t, s, p, screen, inR, toSender) /\ Told(t, s, p, inR, toSender)
    <3>1. inR = Tail(toReceiver) /\ Head(toReceiver).type = "offer" /\ Head(toReceiver).t = t
      BY <1>2
    <3> QED BY <1>2, <2>4, <2>5, <2>6, <3>1, FreshCarries
  <2>8. AnswerOnce(t, s, p, t \in onScreen', inR, toSender)
    BY <2>6, <2>7 DEF AnswerOnce
  <2>9. Newest(t)' = k /\ byId'[t] = k /\ rcv'[k] = p /\ k # None
    BY <1>1, <1>7, <2>1, <2>3 DEF Newest
  <2> QED BY <1>1, <2>7, <2>8, <2>9 DEF Agreed
<1>11. \A u \in Transfer : Single(u)' => Single(u)
  BY <1>1 DEF Single
<1> QED BY <1>8, <1>9, <1>10, <1>11 DEF SidesInv

LEMMA TakesAgree == ASSUME IInv, MapInv, SidesInv, ReceiverGets PROVE MapInv' /\ SidesInv'
<1>1. UNCHANGED <<link, sending>> /\ open["receiver"] /\ toReceiver # <<>> /\ toReceiver' = Tail(toReceiver)
  BY DEF ReceiverGets
<1>2. toReceiver \in Seq(Messages) /\ Head(toReceiver) \in Messages /\ 1 \in DOMAIN toReceiver /\ Head(toReceiver) = toReceiver[1]
  <2>1. toReceiver \in Seq(Messages)
    BY DEF IInv, Typed
  <2> QED BY <2>1, <1>1, TailFacts
<1> PICK m \in Messages : m = Head(toReceiver)
  BY <1>2
<1>3. CASE m.type = "offer" /\ GetOffer(<<m.t, m.n>>)
  <2> PICK k : k = <<m.t, m.n>>
    OBVIOUS
  <2>1. k \in Attempt
    BY <1>2, <1>3 DEF IInv, RouteInv, Routed
  <2> QED BY <1>1, <1>3, <2>1, OfferTakenAgrees
<1>4. CASE /\ \/ m.type = "chunk" /\ GetChunk(byKey[<<m.t, m.n>>], m.at)
              \/ m.type = "pause" /\ SetPaused(byId[m.t], "transferring", "paused") /\ UNCHANGED toSender
              \/ m.type = "resume" /\ SetPaused(byId[m.t], "paused", "transferring") /\ UNCHANGED toSender
              \/ m.type = "cancel" /\ StopReceivers({byId[m.t]}, {}) /\ UNCHANGED toSender
              \/ m.type = "cancel-all" /\ StopReceivers(Receivers, {}) /\ UNCHANGED toSender
           /\ UNCHANGED <<byKey, byId, onScreen>>
  BY <1>1, <1>4, TakenAgrees
<1> QED BY <1>3, <1>4 DEF ReceiverGets

-----------------------------------------------------------------------------
(* The sessions, and what holds of the two sides of a transfer.            *)

LEMMA LinkUpAgrees == ASSUME IInv, MapInv, LinkUp PROVE MapInv' /\ SidesInv'
<1> USE DEF IInv
<1>1. UNCHANGED <<tries, snd, rcv>> /\ \A k \in Attempt : byKey'[k] = None
  BY DEF LinkUp, sending
<1>2. sessions \in Nat
  BY RegistryAssumption DEF Typed
<1> PICK n \in Nat : n = sessions + 1
  BY <1>2
<1>3. sessions' = n /\ ~(n <= sessions)
  BY <1>2 DEF LinkUp
<1>4. \A k \in Attempt : rcv[k].session # n
  <2> TAKE k \in Attempt
  <2>1. rcv[k].session = 0 \/ rcv[k].session <= sessions
    BY DEF ReceiverInv
  <2> QED BY <1>2, <1>3, <2>1
<1>5. MapInv'
  BY <1>1, <1>3, <1>4 DEF MapInv
<1>6. ASSUME NEW t \in Transfer, Single(t)' PROVE FALSE
  <2>1. tries[t] > 0 /\ tries[t] \in 1..tries[t]
    BY <1>1, <1>6, NewestFacts DEF Single
  <2> PICK k \in Attempt : k = Newest(t) /\ k[1] = t /\ k[2] = tries[t]
    BY <2>1, NewestFacts
  <2>2. snd[k].session = n
    BY <1>1, <1>3, <1>6, <2>1 DEF Single, Newest
  <2>3. snd[k].session \in 1..sessions
    BY NewestFacts DEF ObjectInv
  <2> QED BY <1>2, <1>3, <2>2, <2>3
<1> QED BY <1>5, <1>6 DEF SidesInv

\* A channel that closes leaves no transfer undisturbed.
LEMMA LossParts ==
  ASSUME NEW d \in Side, IInv, Loses(d) PROVE \A t \in Transfer : ~Single(t)'
<1>1. ~open'[d]
  BY DEF IInv, Typed, Loses
<1> QED BY <1>1 DEF Single

LEMMA BreaksAgree == ASSUME IInv, MapInv, LinkBreaks PROVE MapInv' /\ SidesInv'
<1>0. "sender" \in Side /\ "receiver" \in Side
  BY DEF Side
<1>1. ASSUME NEW d \in Side, ChannelLost(d) PROVE MapInv' /\ SidesInv'
  <2>1. UNCHANGED <<sessions, snd, rcv, byKey>> /\ Loses(d)
    BY <1>1 DEF ChannelLost, sending, receiving
  <2> QED BY <2>1, MapStays, LossParts DEF SidesInv, MapInv
<1>2. ASSUME SenderLosesSession PROVE MapInv' /\ SidesInv'
  <2>1. UNCHANGED <<sessions, rcv, byKey>> /\ Loses("sender") /\ StopSenders(LostSenders, "failed", {})
    BY <1>2 DEF SenderLosesSession, Ends, receiving
  <2>2. \A k \in Attempt : snd'[k].session = snd[k].session /\ (snd'[k].status = "cancelled" => snd'[k].cancelled)
    BY <2>1, StopFacts
  <2> QED BY <1>0, <2>1, <2>2, MapStays, LossParts DEF SidesInv
<1>3. ASSUME ReceiverLosesSession PROVE MapInv' /\ SidesInv'
  <2>1. UNCHANGED <<sessions, snd, byKey>> /\ Loses("receiver")
    BY <1>3 DEF ReceiverLosesSession, Ends, sending
  <2>2. \A k \in Attempt : rcv'[k].session = rcv[k].session
    <3> TAKE k \in Attempt
    <3> PICK r \in ReceiverState : r = rcv[k]
      BY DEF IInv, Typed, ReceiverTyped
    <3>1. rcv'[k] = r \/ rcv'[k] = [r EXCEPT !.status = "failed"]
      BY <1>3 DEF ReceiverLosesSession
    <3> QED BY <3>1 DEF ReceiverState
  <2> QED BY <1>0, <2>1, <2>2, MapStays, LossParts DEF SidesInv, MapInv
<1> QED BY <1>1, <1>2, <1>3 DEF LinkBreaks

LEMMA SidesInit == Init => MapInv /\ SidesInv
<1> SUFFICES ASSUME Init PROVE MapInv /\ SidesInv
  OBVIOUS
<1>1. \A k \in Attempt : /\ byKey[k] = None /\ rcv[k] = NewReceiver(0) /\ snd[k] = NewSender(0)
  BY DEF Init
<1>2. MapInv
  BY <1>1 DEF MapInv, NewReceiver, NewSender
<1>3. \A t \in Transfer : tries[t] = 0
  BY DEF Init
<1>4. SidesInv
  BY <1>3 DEF SidesInv, Single
<1> QED BY <1>2, <1>4

LEMMA SidesStutter == ASSUME MapInv, SidesInv, UNCHANGED vars PROVE MapInv' /\ SidesInv'
<1>1. UNCHANGED <<sessions, session, open, toReceiver, toSender, tries, snd, rcv, byKey, byId, onScreen>>
  BY DEF vars, link, sending, receiving
<1>2. MapInv'
  BY <1>1 DEF MapInv
<1>3. \A t \in Transfer : (Single(t)' <=> Single(t)) /\ (Agreed(t)' <=> Agreed(t))
  BY <1>1 DEF Single, Agreed, Newest
<1> QED BY <1>2, <1>3 DEF SidesInv

LEMMA SidesStep == IInv /\ FileInv /\ MapInv /\ SidesInv /\ [Next]_vars => MapInv' /\ SidesInv'
<1> SUFFICES ASSUME IInv, FileInv, MapInv, SidesInv, [Next]_vars PROVE MapInv' /\ SidesInv'
  OBVIOUS
<1>1. CASE SendingUser
  BY <1>1, SendingAgrees
<1>2. CASE SenderRuns
  <2>1. UNCHANGED <<link, tries, receiving>>
    BY <1>2 DEF SenderRuns
  <2> QED BY <1>2, <2>1, RunsAgree, KeptAgrees
<1>3. CASE SenderGets
  <2>1. UNCHANGED <<link, tries, receiving>>
    BY <1>3 DEF SenderGets
  <2> QED BY <1>3, <2>1, GetsAgree, KeptAgrees
<1>4. CASE ReceiverGets
  BY <1>4, TakesAgree
<1>5. CASE ReceivingSide
  BY <1>5, ReceivingSideAgrees
<1>6. CASE LinkUp
  BY <1>6, LinkUpAgrees
<1>7. CASE LinkBreaks
  BY <1>7, BreaksAgree
<1>8. CASE UNCHANGED vars
  BY <1>8, SidesStutter
<1> QED BY <1>1, <1>2, <1>3, <1>4, <1>5, <1>6, <1>7, <1>8 DEF Next

\* Of a transfer offered once in the session both sides have, of a file of any
\* size: the offer is answered once (on the screen or in the dialog, by an accept
\* that is on its way, or by the run() it queued), no chunk is sent, written or
\* confirmed before that, and what one side knows of its end the other knows or
\* has a message on its way that says so, close() being a step of its own
\* (handleControl() of PeerSession.ts, cancelTransfer() and cancelAllTransfers() of
\* P2PManager.ts, finalize() of FileReceiver.ts).  The exceptions: a sender whose
\* confirmation, of an empty file, came before its run() forgets it; and what an
\* accept() after the end (late) or a cancel-all that met the offer (missed) lets a
\* cancelled sender's receiver do.
THEOREM RegistrySidesInv == Spec => [](MapInv /\ SidesInv)
<1>1. Init => MapInv /\ SidesInv
  BY SidesInit
<1>2. (IInv /\ FileInv) /\ (MapInv /\ SidesInv) /\ [Next]_vars => (MapInv /\ SidesInv)'
  BY SidesStep
<1>3. Spec => []IInv
  BY RegistryInductive
<1>4. Spec => []FileInv
  BY RegistryWithin
<1> QED BY <1>1, <1>2, <1>3, <1>4, PTL DEF Spec

\* Once nothing of a transfer is on its way, its two sides agree, for files of any
\* size: completed with the sender is completed with the receiver; completed with
\* the receiver is completed with the sender, except for an empty file confirmed
\* before its run() got the gate (FileSender.ts:80); cancelled with the receiver is
\* over with the sender; and cancelled with the sender is over with the receiver,
\* except when the receiver's cancel-all met the offer or the offer was accepted
\* after the cancellation had come (FileReceiver.ts:78).
THEOREM RegistrySidesAgree == Spec => []SidesAgree
<1>1. IInv /\ MapInv /\ SidesInv => SidesAgree
  <2> SUFFICES ASSUME IInv, MapInv, SidesInv, NEW t \in Transfer, AtRest(t), Undisturbed(t),
                      NEW s, NEW r, s = snd[Newest(t)], r = rcv[Newest(t)]
               PROVE  /\ s.status = "completed" => r.status = "completed"
                      /\ r.status = "completed" => s.status = "completed" \/ (FileSize[t] = 0 /\ s.overtaken)
                      /\ s.status = "cancelled" => r.status \in Over \/ r.missed \/ r.late
                      /\ r.status = "cancelled" => s.status \in Over
    BY DEF SidesAgree
  <2> PICK k : k = Newest(t)
    OBVIOUS
  <2>1. Single(t) /\ byId[t] = k
    BY DEF Undisturbed, Single
  <2>2. toReceiver = <<>> /\ toSender = <<>>
    BY DEF AtRest
  <2>3. Told(t, s, r, <<>>, <<>>)
    BY <2>1, <2>2 DEF SidesInv, Agreed
  <2>4. ~Killed(<<>>, t) /\ ~All(<<>>) /\ \A type : ~Has(<<>>, type, t)
    BY DEF Killed, All, Has
  <2> QED BY <2>3, <2>4 DEF Told
<1> QED BY <1>1, RegistryInductive, RegistrySidesInv, PTL

=============================================================================
