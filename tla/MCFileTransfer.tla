--------------------------- MODULE MCFileTransfer ---------------------------
EXTENDS FileTransfer

CONSTANTS x, y

\* x has two chunks, y one.
MCFileSize == [t \in Transfer |-> IF t = x THEN 2 ELSE 1]
=============================================================================
