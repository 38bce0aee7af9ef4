SPECIFICATION FairSpec
CONSTANTS
  ArmBurst = 1
  StopBurst = 1
  PulseFrames = 1
  Attached = FALSE
  Watched = {"ble", "publisher"}
  Gestures = {"gesture", "stop", "exit"}
  MaxQueue = 1
  MaxActs = 3
  MaxCancels = 0
INVARIANTS
  NeverRefused
PROPERTIES
  HeartbeatLossCenters
  BleLossEnds
