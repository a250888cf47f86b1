SPECIFICATION SwitchSpec
CONSTANTS
  HighWater = 1
  Cap = 2
PROPERTY NothingEarly
CHECK_DEADLOCK FALSE
