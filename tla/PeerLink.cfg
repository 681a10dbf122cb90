SPECIFICATION Spec
CONSTANTS
  MaxRestarts = 2
  MaxBlips = 1
  MaxOffers = 3
  Faults = {"signals", "vanish"}
INVARIANTS
  TypeOK
  CandidatesApplied
  NegotiationAgrees
CHECK_DEADLOCK FALSE
