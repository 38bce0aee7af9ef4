------------------------ MODULE GimbalController_proofs ------------------------
(***************************************************************************)
(* What holds of the controller for every burst length, whichever task     *)
(* calls it and however its coroutines are interrupted.                    *)
(***************************************************************************)
EXTENDS GimbalController, TLAPS

\* A burst that has sent something has centred the stick, and the state tells
\* a burst from the pause after it and from a movement.
BurstCentres == op \in CenterOps /\ step # "send" => wire = "center"
BurstState == op \in CenterOps => state = IF step = "pause" THEN "centered" ELSE "stopping"
MovesActive == op \in DriveOps => state = "active"
RestsCentred == op = "none" /\ state \in {"centered", "armed", "disabled"} => wire # "drive"

ControllerInv == /\ ControllerTypeOK
                 /\ BurstCentres
                 /\ BurstState
                 /\ MovesActive
                 /\ RestsCentred

\* The controller starts at rest: no coroutine runs, nothing was sent.
LEMMA InitInvariant == ControllerInit => ControllerInv
BY DEF ControllerInit, ControllerInv, ControllerTypeOK, BurstCentres, BurstState, MovesActive,
       RestsCentred, WifiGimbalState, Ops, Steps, Wire, CenterOps, DriveOps

\* A coroutine that begins a burst enters STOPPING before its first packet.
LEMMA BeginInvariant ==
  ASSUME ControllerInv,
         NEW routine \in CenterOps, NEW packets \in Nat,
         Begin(routine, packets)
  PROVE  ControllerInv'
BY DEF ControllerInv, ControllerTypeOK, BurstCentres, BurstState, MovesActive, RestsCentred,
       WifiGimbalState, Ops, Steps, Wire, CenterOps, DriveOps, Begin

\* Every step of any caller keeps the invariant (control/gimbal_controller.py).
LEMMA StepInvariant ==
  ASSUME ControllerInv, [ControllerNext]_ctlVars
  PROVE  ControllerInv'
<1> USE BurstAssumption
<1>1. CASE CallArm
  BY <1>1, BeginInvariant DEF CallArm, CenterOps
<1>2. CASE ReleaseActive
  BY <1>2, BeginInvariant DEF ReleaseActive, CallRelease, CenterOps
<1>3. CASE CallStop
  BY <1>3, BeginInvariant DEF CallStop, CenterOps
<1>4. CASE CallWatchdogStop
  BY <1>4, BeginInvariant DEF CallWatchdogStop, CenterOps
<1>5. CASE \E packets \in {ArmBurst, StopBurst} : CallCenterBurst(packets)
  BY <1>5, BeginInvariant DEF CallCenterBurst, CenterOps
<1> USE DEF ControllerInv, ControllerTypeOK, BurstCentres, BurstState, MovesActive, RestsCentred,
            WifiGimbalState, Ops, Steps, Wire, CenterOps, DriveOps
<1>6. CASE CallDrive
  BY <1>6 DEF CallDrive, CanDrive
<1>7. CASE CallPulse
  BY <1>7 DEF CallPulse, CanPulse
<1>8. CASE CenterSent
  BY <1>8 DEF CenterSent
<1>9. CASE BurstSent
  BY <1>9 DEF BurstSent
<1>10. CASE GapOver
  BY <1>10 DEF GapOver
<1>11. CASE PauseOver
  BY <1>11 DEF PauseOver
<1>12. CASE FinalSent
  BY <1>12 DEF FinalSent, Rest
<1>13. CASE DriveSent
  BY <1>13 DEF DriveSent
<1>14. CASE PulseSent
  BY <1>14 DEF PulseSent
<1>15. CASE PulseTimeout
  BY <1>15 DEF PulseTimeout
<1>16. CASE SendFails
  BY <1>16 DEF SendFails, InFlight
<1>17. CASE SleepCancelled
  BY <1>17 DEF SleepCancelled, Sleeping
<1>18. CASE UNCHANGED ctlVars
  BY <1>18 DEF ctlVars
<1> QED
  BY <1>1, <1>2, <1>3, <1>4, <1>5, <1>6, <1>7, <1>8, <1>9, <1>10, <1>11, <1>12, <1>13, <1>14,
     <1>15, <1>16, <1>17, <1>18 DEF ControllerNext, Progress

\* The inductive invariant holds of every caller's behaviour.
THEOREM ControllerInvariant == ControllerSpec => []ControllerInv
BY InitInvariant, StepInvariant, PTL DEF ControllerSpec

\* A stick at rest is a centred stick, however it came to rest.
LEMMA InvCentred == ControllerInv => RestMeansCentered
BY DEF ControllerInv, ControllerTypeOK, BurstCentres, BurstState, MovesActive, RestsCentred,
       RestMeansCentered, Ops, Steps, CenterOps, DriveOps

\* Type correctness of the controller, for every burst length.
THEOREM ControllerTypeCorrect == ControllerSpec => []ControllerTypeOK
<1>1. ControllerInv => ControllerTypeOK
  BY DEF ControllerInv
<1> QED
  BY <1>1, ControllerInvariant, PTL

\* A controller that reports CENTERED, ARMED or DISABLED has centred the stick
\* after its last movement, whatever was interrupted on the way.
THEOREM RestIsCentered == ControllerSpec => []RestMeansCentered
BY ControllerInvariant, InvCentred, PTL
=============================================================================
