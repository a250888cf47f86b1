CONSTANTS
  N = 1
  Size <- OneFile
  Losing = {"receiver"}
  Straggling = FALSE
  MaxDrops = 1
  MaxCancels = 0
  MaxSinkFails = 0
SPECIFICATION Spec
INVARIANT DropsCostNothing
CHECK_DEADLOCK FALSE
