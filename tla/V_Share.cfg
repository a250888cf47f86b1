SPECIFICATION Spec
CONSTANTS
  a = a
  b = b
  c = c
  Shares = {a, b, c}
  Size <- Sizes
INVARIANT NeverVanishes
CHECK_DEADLOCK FALSE
