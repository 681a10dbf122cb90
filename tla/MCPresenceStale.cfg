SPECIFICATION FairSpec
CONSTANTS
  a = a
  b = b
  Device = {a, b}
  MaxSockets <- MCMaxSockets
  MaxRestarts = 0
PROPERTIES
  LiveIsListed
CHECK_DEADLOCK FALSE
