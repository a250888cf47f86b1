CONSTANTS
  N = 3
  Losing <- CreatorThenThird
  MaxClicks = 0
  None = None
SPECIFICATION Spec
INVARIANT KeyNeverCrossed
CHECK_DEADLOCK FALSE
