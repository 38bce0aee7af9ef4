SPECIFICATION Spec
CONSTANTS
  ArmBurst = 1
  StopBurst = 1
  PulseFrames = 1
  Attached = FALSE
  Watched = {}
  Gestures = {"gesture"}
  MaxQueue = 2
  MaxActs = 1
  MaxCancels = 0
INVARIANT WriteFailureCenters
