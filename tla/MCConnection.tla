---------------------------- MODULE MCConnection ----------------------------
EXTENDS Connection

CONSTANTS SmallTurns, LargeTurns, SmallEvents, LargeEvents

MCMaxTurns == <<SmallTurns, LargeTurns>>
MCEvents == (SmallEvents \X {1}) \cup (LargeEvents \X {2})
=============================================================================
