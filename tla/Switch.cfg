SPECIFICATION FairSwitchSpec
CONSTANTS
  HighWater = 1
  Cap = 2
INVARIANTS NotOnDeadRelay WakeupComes
PROPERTIES EndsAgree ParkedWakes
CHECK_DEADLOCK FALSE
