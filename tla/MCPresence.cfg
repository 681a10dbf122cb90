SPECIFICATION FairSpec
CONSTANTS
  a = a
  b = b
  Device = {a, b}
  MaxSockets <- MCMaxSockets
  MaxRestarts = 1
INVARIANTS
  TypeOK
  NoGhostRow
PROPERTIES
  GhostsVanish
  ListConverges
CHECK_DEADLOCK FALSE
