CONSTANTS
  N = 3
  Losing <- JoinerThenCreator
  MaxClicks = 1
  None = None
SPECIFICATION Spec
INVARIANT VerifiedMeansCompared
CHECK_DEADLOCK FALSE
