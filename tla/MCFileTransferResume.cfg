SPECIFICATION Spec
CONSTANTS
  x = x
  y = y
  Transfer = {x}
  FileSize <- MCFileSize
  HighWater = 1
  AckEvery = 1
  HasPicker = TRUE
  MaxAttempts = 2
  Steering = {"cancel"}
  Faults = {}
INVARIANTS
  RetriedIsWhole
CHECK_DEADLOCK FALSE
