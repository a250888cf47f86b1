CONSTANTS
  N = 1
  Size <- OneFile
  Losing = {"sender"}
  Straggling = FALSE
  MaxDrops = 1
  MaxCancels = 1
  MaxSinkFails = 0
SPECIFICATION Spec
INVARIANT CancelIsFinal
CHECK_DEADLOCK FALSE
