------------------------------- MODULE MCControl -------------------------------
(***************************************************************************)
(* The ways to move the gimbal outside a live session, checked one at a    *)
(* time, for a process runs one of them: the two workflows over Wi-Fi, the *)
(* bounded test over BLE and its rehearsal, and the window with its keys   *)
(* and its joystick.                                                       *)
(***************************************************************************)
EXTENDS OneShot, BoundedTest, OperatorInput

VARIABLE part

allVars == <<oneShotVars, safetyVars, testVars, inputVars, part>>

ControlInit == /\ part \in {"wifi", "script", "window"}
               /\ OneShotInit /\ FailClosedInit /\ TestInit /\ InputInit
               /\ part # "wifi" => mode = "pulse"
               /\ part # "script" => script = "test" /\ duration = 1
               /\ part # "window" => safety = "disabled" /\ ~hosted

ControlNext ==
    \/ part = "wifi" /\ OneShotNext /\ UNCHANGED <<safetyVars, testVars, inputVars, part>>
    \/ part = "script" /\ TestNext /\ UNCHANGED <<oneShotVars, inputVars, part>>
    \/ part = "window" /\ InputNext /\ UNCHANGED <<oneShotVars, testVars, part>>

ControlSpec == ControlInit /\ [][ControlNext]_allVars

\* The gimbal stands still whenever nothing is being sent and the controller
\* is neither active nor in fault: after a stop, a released or expired input, a
\* failed or slow command, in the bounded test unless it was cancelled, and at
\* the end of every scenario.  However long a key or a finger stays down, the
\* window never keeps it turning longer than the limit.
ReturnsToZero ==
    /\ Idle /\ safety \notin {"active", "fault"} /\ ~interrupted => out = "zero"
    /\ stage = "done" /\ script \in Scenarios => out = "zero"
    /\ part = "window" => turning <= MaxMovement
=============================================================================
