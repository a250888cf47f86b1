SPECIFICATION InboxSpec
CONSTANTS
  a = a
  b = b
  c = c
  Shares = {a, b, c}
  Size <- Sizes
INVARIANT TakenWhole
CHECK_DEADLOCK FALSE
