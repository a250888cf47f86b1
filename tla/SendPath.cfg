CONSTANTS
  Control = {c1, c2}
  Data = {d1}
  Attempts = {a1, a2}
  MaxGen = 2
  None = None
SPECIFICATION FairSpec
INVARIANTS NonceOnce ControlInOrder LiveIsCurrent
PROPERTIES SwapAtBoundary FramesSettle SwapsSettle
CHECK_DEADLOCK FALSE
