SPECIFICATION FairSwitchSpec
CONSTANTS
  HighWater = 1
  Cap = 2
PROPERTY DirectCarriesOn
CHECK_DEADLOCK FALSE
