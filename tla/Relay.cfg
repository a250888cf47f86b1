CONSTANTS
  Sockets = {s1, s2, s3}
  Codes = {c1, c2}
  MaxIdle = 2
  None = None
SPECIFICATION FairSpec
INVARIANTS SeatHeld RoomsOccupied PresenceAccurate FramesStayInRoom
PROPERTY AbandonedRoomsExpire
