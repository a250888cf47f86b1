CONSTANTS
  MaxPeers = 1
  MaxLosses = 0
  MaxAttempts = 2
  MaxEnds = 1
  MaxHides = 2
  MaxQueue = 2
SPECIFICATION Spec
INVARIANT LockGivenUp
CHECK_DEADLOCK FALSE
