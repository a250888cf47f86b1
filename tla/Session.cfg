CONSTANTS
  N = 3
  Losing <- JoinerThenCreator
  MaxClicks = 1
  None = None
SPECIFICATION FairSpec
INVARIANTS PairedIsServed KeyIsForPeer
PROPERTIES PairsUp ConfirmationArrives
CHECK_DEADLOCK FALSE
