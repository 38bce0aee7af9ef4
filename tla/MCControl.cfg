\* Limits and times as in the code, in tenths of a second; a test may take four
\* tenths more than it plans to.
SPECIFICATION ControlSpec
CONSTANTS
  ArmBurst = 3
  StopBurst = 5
  PulseFrames = 2
  Watchdog = 3
  MaxMovement = 5
  ZeroTries = 2
  MaxPulse = 2
  MaxTestTime = 9
INVARIANTS
  OneShotEndsCentered
  ReturnsToZero
  NoGhostInput

