SPECIFICATION Spec
CONSTANTS
  MaxReconnects = 1
  IceRestarts = 1
  Trusting = {1}
  SmallTurns = 1
  LargeTurns = 1
  MaxTurns <- MCMaxTurns
  MaxEvents = 2
  SmallEvents = {"break", "disconnect"}
  LargeEvents = {"break", "forget"}
  Events <- MCEvents
INVARIANTS
  TypeOK
  ConnectedIsOpen
  OpenNeedsConsent
  ResponderAuthorized
  RequestHasTimer
  SessionHasTimer
  OpenIsTrusted
CHECK_DEADLOCK FALSE
