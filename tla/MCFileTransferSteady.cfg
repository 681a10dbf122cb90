SPECIFICATION FairSpec
CONSTANTS
  x = x
  y = y
  Transfer = {x, y}
  FileSize <- MCFileSize
  HighWater = 1
  AckEvery = 2
  HasPicker = TRUE
  MaxAttempts = 1
  Steering = {"pause"}
  Faults = {"picker", "read"}
INVARIANTS
  ChunksFit
PROPERTIES
  AcceptedCompletes
CHECK_DEADLOCK FALSE
