SPECIFICATION Spec
CONSTANTS
  x = x
  e = e
  Transfer = {x, e}
  FileSize <- MCFileSize
  MaxAttempts = 2
  MaxSessions = 2
  Steering = {"pause", "cancel", "cancelAll", "reject"}
  Faults = {"read", "write", "picker", "link"}
INVARIANTS
  TypeOK
  EveryAttemptReported
  CompletedRecordIsSaved
  ShownIsNewest
  LostIsShown
  SidesAgree
CONSTRAINT Scope
CHECK_DEADLOCK FALSE
