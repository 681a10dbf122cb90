SPECIFICATION Spec
CONSTANTS
  MaxReconnects = 1
  IceRestarts = 0
  Trusting = {1}
  SmallTurns = 0
  LargeTurns = 1
  MaxTurns <- MCMaxTurns
  MaxEvents = 1
  SmallEvents = {"forget"}
  LargeEvents = {}
  Events <- MCEvents
INVARIANTS
  ForgottenUntilAsked
CHECK_DEADLOCK FALSE
