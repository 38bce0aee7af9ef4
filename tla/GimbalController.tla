-------------------------- MODULE GimbalController --------------------------
(***************************************************************************)
(* GimbalUdpController: the only object that turns control intent into     *)
(* stick packets.  Its coroutines (arm, pulse, send_live_axes,             *)
(* release_live, emergency_stop) are cut where they await: a packet handed *)
(* to the socket, the gap between two packets of a burst, the longer pause *)
(* between two bursts.  At each of these a send may fail and the calling   *)
(* task may be cancelled.  The next-state relation at the end is any one   *)
(* task that calls the coroutines, one at a time and each from a state it  *)
(* accepts: what is proved of it is carried over to its two callers,       *)
(* LiveControl and OneShot, in which a refused call is an exception.       *)
(***************************************************************************)
EXTENDS Naturals

CONSTANTS ArmBurst,     \* centre packets sent when arming (3 in the code)
          StopBurst,    \* centre packets of a release or of a stop (5)
          PulseFrames   \* stick packets of a one-shot pulse (2)

ASSUME BurstAssumption == /\ ArmBurst \in Nat \ {0}
                          /\ StopBurst \in Nat \ {0}
                          /\ PulseFrames \in Nat \ {0}

VARIABLES state,   \* controller.state, a WifiGimbalState
          op,      \* the coroutine that is running, "none" between calls
          step,    \* what that coroutine awaits
          left,    \* packets its current burst still has to send
          wire     \* the last stick command the camera may have been sent

ctlVars == <<state, op, step, left, wire>>

WifiGimbalState == {"disabled", "centered", "armed", "active", "stopping", "fault"}
Ops == {"none", "arm", "burst", "drive", "release", "stop", "pulse", "settle", "abort"}
Steps == {"send", "gap", "pause", "final"}
Wire == {"none", "center", "drive"}

\* Coroutines that only ever send the centre command, and those that move it.
CenterOps == {"arm", "burst", "release", "stop", "settle", "abort"}
DriveOps == {"drive", "pulse"}

ControllerInit == /\ state = "disabled"
                  /\ op = "none"
                  /\ step = "send"
                  /\ left = 0
                  /\ wire = "none"

-----------------------------------------------------------------------------
(* Calls.                                                                   *)

\* center_burst enters STOPPING before its first packet.
Begin(routine, packets) == /\ op' = routine
                           /\ step' = "send"
                           /\ left' = packets
                           /\ state' = "stopping"
                           /\ UNCHANGED wire

\* The states these calls accept.  In any other they raise a RuntimeError before
\* they change anything, and what becomes of it is their caller's affair.
CanArm == state \in {"disabled", "centered"}
CanDrive == state \in {"armed", "active"}
CanPulse == state = "armed"

CallArm == op = "none" /\ CanArm /\ Begin("arm", ArmBurst)

CallCenterBurst(packets) == op = "none" /\ Begin("burst", packets)

CallRelease == op = "none" /\ Begin("release", StopBurst)

CallStop == op = "none" /\ Begin("stop", StopBurst)

CallWatchdogStop == op = "none" /\ Begin("settle", StopBurst)

\* Mutant: the transition to ACTIVE is missing.
CallDriveUnmarked == /\ op = "none"
                     /\ CanDrive
                     /\ op' = "drive"
                     /\ step' = "send"
                     /\ left' = 1
                     /\ UNCHANGED <<state, wire>>

CallDrive == /\ op = "none"
             /\ CanDrive
             /\ state' = "active"
             /\ op' = "drive"
             /\ step' = "send"
             /\ left' = 1
             /\ UNCHANGED wire

CallPulse == /\ op = "none"
             /\ CanPulse
             /\ state' = "active"
             /\ op' = "pulse"
             /\ step' = "send"
             /\ left' = PulseFrames
             /\ UNCHANGED wire

-----------------------------------------------------------------------------
(* Progress of the running coroutine.                                       *)

\* A centre packet is out and the burst has more to send.
CenterSent == /\ op \in CenterOps
              /\ step = "send"
              /\ left > 1
              /\ wire' = "center"
              /\ step' = "gap"
              /\ left' = left - 1
              /\ UNCHANGED <<state, op>>

\* The last packet of a burst is out; a lone center_burst call returns here.
BurstSent == /\ op \in CenterOps
             /\ step = "send"
             /\ left = 1
             /\ wire' = "center"
             /\ state' = "centered"
             /\ left' = 0
             /\ IF op = "burst" THEN op' = "none" /\ step' = "send"
                                ELSE op' = op /\ step' = "pause"

GapOver == /\ op # "none"
           /\ step = "gap"
           /\ step' = "send"
           /\ UNCHANGED <<state, op, left, wire>>

\* After the pause arm() is done; the others send one more centre packet.
PauseOver == /\ op \in CenterOps
             /\ step = "pause"
             /\ IF op = "arm"
                THEN op' = "none" /\ step' = "send" /\ state' = "armed"
                ELSE op' = op /\ step' = "final" /\ state' = "stopping"
             /\ UNCHANGED <<left, wire>>

\* Where each coroutine leaves the controller after its final centre packet.
Rest(routine) == CASE routine = "release" -> "armed"
                   [] routine = "stop"    -> "disabled"
                   [] routine = "abort"   -> "fault"
                   [] OTHER               -> "centered"

FinalSent == /\ op \in CenterOps
             /\ step = "final"
             /\ wire' = "center"
             /\ state' = Rest(op)
             /\ op' = "none"
             /\ step' = "send"
             /\ UNCHANGED left

DriveSent == /\ op = "drive"
             /\ wire' = "drive"
             /\ op' = "none"
             /\ left' = 0
             /\ UNCHANGED <<state, step>>

\* A pulse packet is out; after the last one pulse() centres again.
PulseSent == /\ op = "pulse"
             /\ step = "send"
             /\ wire' = "drive"
             /\ IF left > 1
                THEN /\ step' = "gap"
                     /\ left' = left - 1
                     /\ UNCHANGED <<state, op>>
                ELSE /\ op' = "settle"
                     /\ left' = StopBurst
                     /\ state' = "stopping"
                     /\ UNCHANGED step

\* wait_for cancels the pulse after maximum_non_center_ms, or the watchdog or
\* the hard limit raises before a packet; a packet in flight may be out.
PulseTimeout == /\ op = "pulse"
                /\ wire' \in IF step = "send" THEN {wire, "drive"} ELSE {wire}
                /\ op' = "abort"
                /\ step' = "send"
                /\ left' = StopBurst
                /\ state' = "stopping"

Progress == \/ CenterSent \/ BurstSent \/ GapOver \/ PauseOver
            \/ FinalSent \/ DriveSent \/ PulseSent

-----------------------------------------------------------------------------
(* Failure.                                                                 *)

InFlight == op # "none" /\ step \in {"send", "final"}
Sleeping == op # "none" /\ step \in {"gap", "pause"}

\* The packet in flight: _send catches every exception, a cancellation too,
\* and the datagram may or may not have left.
SendFails == /\ InFlight
             /\ wire' \in {wire, IF op \in DriveOps THEN "drive" ELSE "center"}
             /\ state' = "fault"
             /\ op' = "none"
             /\ step' = "send"
             /\ left' = 0

\* A cancellation during a sleep leaves the state where the coroutine put it.
SleepCancelled == /\ Sleeping
                  /\ op' = "none"
                  /\ step' = "send"
                  /\ left' = 0
                  /\ UNCHANGED <<state, wire>>

-----------------------------------------------------------------------------
\* release_live has no guard of its own: both callers release an ACTIVE stick.
ReleaseActive == state = "active" /\ CallRelease

ControllerNext == \/ CallArm \/ ReleaseActive \/ CallStop \/ CallWatchdogStop
                  \/ CallDrive \/ CallPulse
                  \/ \E packets \in {ArmBurst, StopBurst} : CallCenterBurst(packets)
                  \/ Progress \/ PulseTimeout
                  \/ SendFails \/ SleepCancelled

ControllerSpec == ControllerInit /\ [][ControllerNext]_ctlVars

\* Every variable keeps to the values its Python counterpart can take.
ControllerTypeOK == /\ state \in WifiGimbalState
                    /\ op \in Ops
                    /\ step \in Steps
                    /\ left \in Nat
                    /\ wire \in Wire

\* A controller that reports CENTERED, ARMED or DISABLED has centred the stick
\* after its last movement, whatever coroutine brought it there and whatever
\* was interrupted on the way.
RestMeansCentered == state \in {"centered", "armed", "disabled"} => wire # "drive"
=============================================================================
