----------------------------- MODULE MCPresence -----------------------------
EXTENDS Presence

CONSTANTS a, b

\* a can come back on a second socket.
MCMaxSockets == [d \in Device |-> IF d = a THEN 2 ELSE 1]
=============================================================================
