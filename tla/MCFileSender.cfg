SPECIFICATION FairSpec
CONSTANTS
  a = a
  b = b
  c = c
  Sender <- MCSender
  Size <- MCSize
  Steered <- MCSteered
  HighWater = 1
  MaxStarts = 1
INVARIANTS
  TypeOK
  OneStreamAtATime
  ChunksWithinHighWater
  GaplessStream
  NoLostWaiter
PROPERTIES
  SendsOnlyWhileActive
  CompletedStays
  GateSpec
  FirstComeFirstServed
  StoppedFreesGate
  QueuedMovesOn
