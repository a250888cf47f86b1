SPECIFICATION Spec
CONSTANTS
  HighWater = 1
  Cap = 2
INVARIANT DeathIsDowngrade
CHECK_DEADLOCK FALSE
