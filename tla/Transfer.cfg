CONSTANTS
  N = 2
  Size <- TwoFiles
  Losing = {"sender", "receiver", "direct"}
  Straggling = FALSE
  MaxDrops = 1
  MaxCancels = 1
  MaxSinkFails = 1
SPECIFICATION FairSpec
INVARIANT SavedIntact
PROPERTIES Delivers DeliveryReported OpenFilesSettle
CHECK_DEADLOCK FALSE
