SPECIFICATION Spec
CONSTANTS
  ArmBurst = 1
  StopBurst = 1
  PulseFrames = 1
  Attached = TRUE
  Watched = {}
  Gestures = {"gesture", "stop"}
  MaxQueue = 2
  MaxActs = 4
  MaxCancels = 0
PROPERTY StopIsNotDiscarded
