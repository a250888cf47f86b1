CONSTANTS
  MaxPeers = 2
  MaxLosses = 1
  MaxAttempts = 2
  MaxEnds = 1
  MaxHides = 1
  MaxQueue = 1
SPECIFICATION FairSpec
INVARIANTS SharedOnce RowsAgree ScreenKeptAwake
PROPERTY EndLeaves
CHECK_DEADLOCK FALSE
