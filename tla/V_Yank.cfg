CONSTANTS
  MaxPeers = 1
  MaxLosses = 0
  MaxAttempts = 2
  MaxEnds = 2
  MaxHides = 0
  MaxQueue = 2
SPECIFICATION Spec
INVARIANT LeavesItsOwnScreen
CHECK_DEADLOCK FALSE
