CONSTANTS
  N = 1
  Size <- OneFile
  Losing = {"direct"}
  Straggling = TRUE
  MaxDrops = 1
  MaxCancels = 0
  MaxSinkFails = 0
SPECIFICATION FairSpec
PROPERTY OpenFilesSettle
CHECK_DEADLOCK FALSE
