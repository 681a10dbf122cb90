------------------------- MODULE MCTransferRegistry -------------------------
EXTENDS TransferRegistry

CONSTANTS x, e

\* A file of one chunk and an empty one.
MCFileSize == [t \in Transfer |-> IF t = e THEN 0 ELSE 1]

\* A file of two chunks.
MCTwoChunks == [t \in Transfer |-> 2]

\* Bound: x alone, with its retries and sessions, or x and then e with an offer
\* each in one session, and nobody pauses.
Scope ==
  \/ tries[e] = 0
  \/ /\ tries[x] = 1 /\ tries[e] = 1 /\ sessions = 1
     /\ \A k \in Attempt : "paused" \notin {snd[k].status, rcv[k].status}
=============================================================================
