---------------------------- MODULE MCFileSender ----------------------------
EXTENDS FileSender

CONSTANTS a, b, c

MCSender == {a, b, c}
MCSize == [s \in MCSender |-> IF s = a THEN 2 ELSE 0]
MCSteered == {a}
=============================================================================
