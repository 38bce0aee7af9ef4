SPECIFICATION Spec
CONSTANTS
  ArmBurst = 1
  StopBurst = 2
  PulseFrames = 1
  Attached = TRUE
  Watched = {"ble", "keepalive"}
  Gestures = {"gesture", "neutral", "stop", "latchedStop"}
  MaxQueue = 2
  MaxActs = 3
  MaxCancels = 2
INVARIANTS
  TypeOK
  RestMeansCentered
  SessionLeavesCentered
  NeverRefused
  DisabledIsStill
  ActionFromRest
  StopReaction
  ConfirmedWasAnswered

