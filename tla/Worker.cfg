\* One connection, with room for a control frame past the mark and for none past
\* the browser's cap, and one file being saved.
SPECIFICATION FairSpec
CONSTANTS
  MaxConns = 1
  MaxFrames = 4
  HighWater = 2
  Cap = 3
  Files = {f1}
  MaxWrites = 1
INVARIANTS EstimateCovers NoOrphan WakeupComes
PROPERTIES ParkedWakes SinksSettle
CHECK_DEADLOCK FALSE
