SPECIFICATION Spec
CONSTANTS
  x = x
  y = y
  Transfer = {x}
  FileSize <- MCFileSize
  HighWater = 1
  AckEvery = 1
  HasPicker = TRUE
  MaxAttempts = 2
  Steering = {"cancel", "cancelAll", "reject"}
  Faults = {"write", "picker", "channel"}
INVARIANTS
  TypeOK
  SavedIsWhole
  CompletedMeansSaved
  AckedIsStored
  ChunksFit
CHECK_DEADLOCK FALSE
PROPERTIES
  CancelledSavesNothing
