\* A claim the code does not keep to. Others, to be put in its place: EarlyIsNotStray,
\* OffWhenGone, BusyMeansFlipping.
CONSTANTS
  k1 = k1
  k2 = k2
  Cameras = {k1}
  Screens = {k2}
  Asks <- CameraOrScreen
  MaxEarly = 2
  MaxEvents = 1
  Trickling = {"a"}
  None = None
SPECIFICATION Spec
INVARIANT NobodysTrackStops
CHECK_DEADLOCK FALSE
