CONSTANTS
  k1 = k1
  k2 = k2
  Cameras = {k1}
  Screens = {k2}
  Asks <- CameraOrScreen
  MaxEarly = 2
  MaxEvents = 1
  Trickling = {"a"}
  None = None
SPECIFICATION FairSpec
INVARIANTS LightGoesOut NoSpareConnection CandidatesArrive
PROPERTY SlotsAgree
CHECK_DEADLOCK FALSE
