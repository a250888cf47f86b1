CONSTANTS
  N = 1
  Size <- OneFile
  Losing = {}
  Straggling = FALSE
  MaxDrops = 0
  MaxCancels = 1
  MaxSinkFails = 0
SPECIFICATION FairSpec
PROPERTY QueueDrains
CHECK_DEADLOCK FALSE
