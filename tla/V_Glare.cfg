CONSTANTS
  k1 = k1
  k2 = k2
  Cameras = {k1}
  Screens = {k2}
  Asks <- CameraOrScreen
  MaxEarly = 2
  MaxEvents = 0
  Trickling = {"a"}
  None = None
SPECIFICATION Spec
INVARIANT GlareResolves
CHECK_DEADLOCK FALSE
