SPECIFICATION Spec
CONSTANTS
  x = x
  e = e
  Transfer = {x}
  FileSize <- MCTwoChunks
  MaxAttempts = 2
  MaxSessions = 2
  Steering = {}
  Faults = {"link"}
INVARIANTS
  RetryResumes
CHECK_DEADLOCK FALSE
