CONSTANTS
  MaxPeers = 1
  MaxLosses = 0
  MaxAttempts = 2
  MaxEnds = 1
  MaxHides = 0
  MaxQueue = 2
SPECIFICATION Spec
INVARIANT UnsavedIsOffered
CHECK_DEADLOCK FALSE
