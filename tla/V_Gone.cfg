CONSTANTS
  MaxPeers = 2
  MaxLosses = 1
  MaxAttempts = 2
  MaxEnds = 1
  MaxHides = 0
  MaxQueue = 2
SPECIFICATION Spec
PROPERTY GoneIsFinal
CHECK_DEADLOCK FALSE
