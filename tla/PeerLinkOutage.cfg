SPECIFICATION FairSpec
CONSTANTS
  MaxRestarts = 2
  MaxBlips = 1
  MaxOffers = 5
  Faults = {"vanish"}
PROPERTIES
  OutageSettles
CHECK_DEADLOCK FALSE
