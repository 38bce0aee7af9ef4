-------------------------- MODULE LiveControl_proofs --------------------------
(***************************************************************************)
(* What holds of the live session for every bound, every set of inputs and *)
(* every burst length, attached or not.  The session is shown to use the   *)
(* controller as GimbalController's specification allows, so what is       *)
(* proved of the controller holds here, and with an invariant about the    *)
(* session's program counter gives the safety properties.                  *)
(***************************************************************************)
EXTENDS LiveControl, GimbalController_proofs

-----------------------------------------------------------------------------
(* The session's program counter and the controller.                       *)

\* The coroutine a place awaits, if it is still running.
AwaitsArm == {"arming", "rearming"}
AwaitsStop == {"stopping", "abort", "handler"}
AwaitsRelease == {"yield", "letgo"}
Awaits == AwaitsArm \cup AwaitsStop \cup AwaitsRelease \cup {"driving"}

PlaceOp == /\ pc \in AwaitsArm => op = "none" \/ (op = "arm" /\ step # "final")
           /\ pc \in AwaitsStop => op \in {"none", "stop"}
           /\ pc \in AwaitsRelease => op \in {"none", "release"}
           /\ pc = "driving" => op = "drive" /\ state = "active"
           /\ pc \notin Awaits => op = "none"

\* What the awaited coroutine has left behind, and what the loop works with: a
\* paused session has a stopped controller, any other one that is armed.
PlaceState == /\ op = "none" /\ pc \in AwaitsArm \cup AwaitsRelease => state = "armed"
              /\ op = "none" /\ pc \in AwaitsStop => state = "disabled"
              /\ pc \in {"ble", "attach", "hello"} => state = "disabled"
              /\ pc \in {"top", "checks", "serve", "decide", "sleep"} =>
                    \/ paused /\ state = "disabled"
                    \/ ~paused /\ state \in {"armed", "active"}
              /\ pc \in {"acting", "acted"} => state \in {"armed", "active"}
              /\ pc \in {"ble", "attach", "hello", "arming", "yield", "letgo", "acting", "acted"} =>
                    ~paused

\* How a session that is leaving came to leave.
Leave == /\ outcome \in {"none", "exit", "error", "cancelled"}
         /\ outcome = "cancelled" => Attached
         /\ pc \in {"raise", "handler"} => outcome \in {"error", "cancelled"}
         /\ pc \in {"finally", "done"} =>
               \/ outcome \in {"error", "cancelled"}
               \/ (outcome = "exit" /\ state = "disabled")
         /\ pc = "done" /\ outcome = "error" => snap # "disabled"

\* A session that shows "disabled" is paused or leaving, and one that drives is
\* neither paused nor waiting for the camera.
Shown == /\ snap = "disabled" => paused \/ pc \in {"raise", "handler", "finally", "done"}
         /\ pc = "driving" => ~paused /\ pending = 0

SessionInv == PlaceOp /\ PlaceState /\ Leave /\ Shown

FlagsOK == /\ paused \in BOOLEAN /\ neutral \in BOOLEAN /\ rearm \in BOOLEAN
           /\ queued \in BOOLEAN /\ overdue \in BOOLEAN /\ cooldown \in BOOLEAN
           /\ consent \in BOOLEAN

ValuesOK == /\ pc \in Places /\ value \in Input
            /\ outcome \in {"none", "exit", "error", "refused", "cancelled"}
            /\ inputs \in Seq(Input) /\ latest \in Input
            /\ snap \in {"connecting", "armed", "active", "disabled", "fault"}
            /\ pending \in Nat /\ response \in Nat
            /\ emitted \in Nat /\ confirmed \subseteq Nat /\ replies \subseteq Nat
            /\ lost \subseteq Watched /\ ui \in {"idle", "flagging"}
            /\ acts \in Nat /\ cancels \in Nat /\ late \in Nat

LEMMA FlagsStep ==
  ASSUME FlagsOK, [Next]_vars
  PROVE  FlagsOK'
<1> USE DEF vars, FlagsOK, loopVars, inputVars, actionVars, envVars, Goto, Raise, Quiet
<1>1. CASE BleReady
  BY <1>1, Zenon DEF BleReady
<1>2. CASE TransportReady
  BY <1>2, Zenon DEF TransportReady
<1>3. CASE FirstKeepalive
  BY <1>3, Zenon DEF FirstKeepalive, Refused
<1>4. CASE ArmedFirst
  BY <1>4, Zenon DEF ArmedFirst
<1>5. CASE Top
  BY <1>5, Zenon DEF Top, Drain, Decisive, StopWaiting, StopInputs
<1>6. CASE Stopped
  BY <1>6, Zenon DEF Stopped
<1>7. CASE Check
  BY <1>7, Zenon DEF Check
<1>8. CASE Serve
  BY <1>8, Zenon DEF Serve
<1>9. CASE Aborted
  BY <1>9, Zenon DEF Aborted
<1>10. CASE Woken
  BY <1>10, Zenon DEF Woken
<1>11. CASE Resume
  BY <1>11, Zenon DEF Resume, Rearm, Refused
<1>12. CASE Resumed
  BY <1>12, Zenon DEF Resumed
<1>13. CASE StayPaused
  BY <1>13, Zenon DEF StayPaused
<1>14. CASE AwaitReply
  BY <1>14, Zenon DEF AwaitReply, FoundReply
<1>15. CASE CoolingDown
  BY <1>15, Zenon DEF CoolingDown
<1>16. CASE TakeAction
  BY <1>16, Zenon DEF TakeAction
<1>17. CASE Yielded
  BY <1>17, Zenon DEF Yielded
<1>18. CASE EmitAction
  BY <1>18, Zenon DEF EmitAction
<1>19. CASE ActionSent
  BY <1>19, Zenon DEF ActionSent
<1>20. CASE AwaitNeutral
  <2>1. neutral' = TRUE \/ neutral' = FALSE
    <3>1. neutral' = (value \in ActiveInputs)
      BY <1>20 DEF AwaitNeutral
    <3>2. CASE value \in ActiveInputs
      BY <3>1, <3>2, Zenon
    <3>3. CASE value \notin ActiveInputs
      BY <3>1, <3>3
    <3> QED
      BY <3>2, <3>3, Zenon
  <2>2. neutral' \in BOOLEAN
    BY <2>1, Zenon
  <2>3. UNCHANGED <<paused, rearm, queued, overdue, cooldown, consent>>
    BY <1>20 DEF AwaitNeutral
  <2> QED
    BY <2>2, <2>3, Zenon
<1>21. CASE Idle
  BY <1>21, Zenon DEF Idle
<1>22. CASE LetGo
  BY <1>22, Zenon DEF LetGo
<1>23. CASE Drive
  BY <1>23, Zenon DEF Drive, Refused
<1>24. CASE Driven
  BY <1>24, Zenon DEF Driven
<1>25. CASE Routine
  BY <1>25, Zenon DEF Routine
<1>26. CASE Unwind
  BY <1>26, Zenon DEF Unwind
<1>27. CASE Handled
  BY <1>27, Zenon DEF Handled
<1>28. CASE Finish
  BY <1>28, Zenon DEF Finish
<1>29. CASE Age
  BY <1>29, Zenon DEF Age, Aged
<1>30. CASE CooldownOver
  BY <1>30, Zenon DEF CooldownOver
<1>31. CASE Deadline
  BY <1>31, Zenon DEF Deadline
<1>32. CASE ConnectFails
  BY <1>32, Zenon DEF ConnectFails
<1>33. CASE StickSendFails
  BY <1>33, Zenon DEF StickSendFails, Broken
<1>34. CASE OtherSendFails
  BY <1>34, Zenon DEF OtherSendFails
<1>35. CASE Cancel
  BY <1>35, Zenon DEF Cancel, Broken
<1>36. CASE Submit
  BY <1>36, Zenon DEF Submit, UserActs
<1>37. CASE RequestAction
  BY <1>37, Zenon DEF RequestAction, UserActs
<1>38. CASE FlagRearm
  BY <1>38, Zenon DEF FlagRearm
<1>39. CASE RequestRearm
  BY <1>39, Zenon DEF RequestRearm, UserActs
<1>40. CASE Restart
  BY <1>40, Zenon DEF Restart, UserActs
<1>41. CASE CameraReplies
  BY <1>41, Zenon DEF CameraReplies
<1>42. CASE LinkChanges
  BY <1>42, Zenon DEF LinkChanges
<1>43. CASE Ended
  BY <1>43, Zenon DEF Ended
<1>44. CASE UNCHANGED vars
  BY <1>44, Zenon DEF vars
<1> QED
  BY <1>1, <1>2, <1>3, <1>4, <1>5, <1>6, <1>7, <1>8, <1>9, <1>10, <1>11, <1>12, <1>13, <1>14, <1>15, <1>16, <1>17, <1>18, <1>19, <1>20, <1>21, <1>22, <1>23, <1>24, <1>25, <1>26, <1>27, <1>28, <1>29, <1>30, <1>31, <1>32, <1>33, <1>34, <1>35, <1>36, <1>37, <1>38, <1>39, <1>40, <1>41, <1>42, <1>43, <1>44
     DEF Next, SessionStep, Connecting, Looping, Pausing, Acting, Moving, Leaving, Clock, Failing, User

LEMMA ValuesStep ==
  ASSUME ValuesOK, [Next]_vars
  PROVE  ValuesOK'
<1> USE SessionAssumption
        DEF vars, ctlVars, ValuesOK, Places, Input, loopVars, inputVars, actionVars, cameraVars,
            envVars, Goto, Raise, Quiet
<1>1. CASE BleReady
  BY <1>1 DEF BleReady
<1>2. CASE TransportReady
  BY <1>2 DEF TransportReady
<1>3. CASE FirstKeepalive
  BY <1>3 DEF FirstKeepalive, Refused
<1>4. CASE ArmedFirst
  BY <1>4 DEF ArmedFirst
<1>5. CASE Top
  BY <1>5 DEF Top, Drain, Decisive, StopWaiting, StopInputs
<1>6. CASE Stopped
  BY <1>6 DEF Stopped
<1>7. CASE Check
  BY <1>7 DEF Check
<1>8. CASE Serve
  BY <1>8 DEF Serve
<1>9. CASE Aborted
  BY <1>9 DEF Aborted
<1>10. CASE Woken
  BY <1>10 DEF Woken
<1>11. CASE Resume
  <2>1. /\ inputs' = <<>> /\ late' = 0 /\ latest' = "neutral"
        /\ UNCHANGED <<snap, actionVars, cameraVars, envVars>>
    BY <1>11, Zenon DEF Resume, Rearm
  <2>2. Goto("rearming") \/ Raise("refused")
    BY <1>11, Zenon DEF Resume, Rearm, Refused
  <2>3. pc' \in Places /\ outcome' \in {"none", "exit", "error", "refused", "cancelled"}
    BY <2>2
  <2>4. UNCHANGED value
    BY <2>2
  <2> QED
    BY <2>1, <2>3, <2>4
<1>12. CASE Resumed
  BY <1>12 DEF Resumed
<1>13. CASE StayPaused
  BY <1>13 DEF StayPaused
<1>14. CASE AwaitReply
  <2>1. CASE FoundReply # 0 \/ overdue
    <3>1. /\ pending' = 0 /\ response' = 0
          /\ confirmed' = confirmed \/ confirmed' = confirmed \cup {pending}
      BY <1>14, <2>1, Zenon DEF AwaitReply
    <3>2. /\ Goto("sleep")
          /\ UNCHANGED <<queued, snap, ctlVars, inputVars, cameraVars, envVars, late>>
      BY <1>14, Zenon DEF AwaitReply
    <3>3. confirmed' \subseteq Nat
      BY <3>1
    <3> QED
      BY <3>1, <3>2, <3>3
  <2>2. CASE ~(FoundReply # 0 \/ overdue)
    <3>1. UNCHANGED <<confirmed, pending, response>>
      BY <1>14, <2>2, Zenon DEF AwaitReply
    <3> QED
      BY <1>14, <3>1 DEF AwaitReply
  <2> QED
    BY <2>1, <2>2
<1>15. CASE CoolingDown
  BY <1>15 DEF CoolingDown
<1>16. CASE TakeAction
  BY <1>16 DEF TakeAction
<1>17. CASE Yielded
  BY <1>17 DEF Yielded
<1>18. CASE EmitAction
  BY <1>18 DEF EmitAction
<1>19. CASE ActionSent
  BY <1>19 DEF ActionSent
<1>20. CASE AwaitNeutral
  BY <1>20 DEF AwaitNeutral, ActiveInputs
<1>21. CASE Idle
  BY <1>21 DEF Idle
<1>22. CASE LetGo
  BY <1>22 DEF LetGo
<1>23. CASE Drive
  BY <1>23 DEF Drive, Refused
<1>24. CASE Driven
  BY <1>24 DEF Driven
<1>25. CASE Routine
  BY <1>25 DEF Routine
<1>26. CASE Unwind
  BY <1>26 DEF Unwind
<1>27. CASE Handled
  BY <1>27 DEF Handled
<1>28. CASE Finish
  BY <1>28 DEF Finish
<1>29. CASE Age
  <2>1. PICK n \in 0..Len(inputs) :
           inputs' = [i \in DOMAIN inputs |-> IF i <= n THEN Aged(inputs[i]) ELSE inputs[i]]
    BY <1>29 DEF Age
  <2>2. \A v \in Input : Aged(v) \in Input
    BY DEF Aged
  <2>3. inputs' \in Seq(Input)
    <3>1. /\ Len(inputs) \in Nat /\ DOMAIN inputs = 1..Len(inputs)
          /\ \A i \in 1..Len(inputs) : inputs[i] \in Input
      OBVIOUS
    <3>2. inputs' \in [1..Len(inputs) -> Input]
      BY <2>1, <2>2, <3>1
    <3> QED
      BY <3>1, <3>2
  <2>4. latest' \in Input
    BY <1>29, <2>2 DEF Age
  <2>5. UNCHANGED <<ctlVars, loopVars, rearm, snap, actionVars, cameraVars, envVars, late>>
    BY <1>29 DEF Age
  <2> QED
    BY <2>3, <2>4, <2>5
<1>30. CASE CooldownOver
  BY <1>30 DEF CooldownOver
<1>31. CASE Deadline
  BY <1>31 DEF Deadline
<1>32. CASE ConnectFails
  BY <1>32 DEF ConnectFails
<1>33. CASE StickSendFails
  BY <1>33 DEF StickSendFails, Broken
<1>34. CASE OtherSendFails
  BY <1>34 DEF OtherSendFails
<1>35. CASE Cancel
  BY <1>35 DEF Cancel, Broken
<1>36. CASE Submit
  BY <1>36 DEF Submit, UserActs
<1>37. CASE RequestAction
  BY <1>37 DEF RequestAction, UserActs
<1>38. CASE FlagRearm
  BY <1>38 DEF FlagRearm
<1>39. CASE RequestRearm
  BY <1>39 DEF RequestRearm, UserActs
<1>40. CASE Restart
  BY <1>40 DEF Restart, UserActs
<1>41. CASE CameraReplies
  BY <1>41 DEF CameraReplies
<1>42. CASE LinkChanges
  BY <1>42 DEF LinkChanges
<1>43. CASE Ended
  BY <1>43 DEF Ended
<1>44. CASE UNCHANGED vars
  BY <1>44 DEF vars
<1> QED
  BY <1>1, <1>2, <1>3, <1>4, <1>5, <1>6, <1>7, <1>8, <1>9, <1>10, <1>11, <1>12, <1>13, <1>14, <1>15, <1>16, <1>17, <1>18, <1>19, <1>20, <1>21, <1>22, <1>23, <1>24, <1>25, <1>26, <1>27, <1>28, <1>29, <1>30, <1>31, <1>32, <1>33, <1>34, <1>35, <1>36, <1>37, <1>38, <1>39, <1>40, <1>41, <1>42, <1>43, <1>44
     DEF Next, SessionStep, Connecting, Looping, Pausing, Acting, Moving, Leaving, Clock, Failing, User
-----------------------------------------------------------------------------
(* The session's invariant.                                                *)

LEMMA SessionInit == Init => SessionInv
BY DEF Init, ControllerInit, SessionInv, PlaceOp, PlaceState, Leave, Shown, AwaitsArm, AwaitsStop,
       AwaitsRelease, Awaits

\* Every step of the session or its surroundings keeps its places, the
\* controller and the snapshot together.
LEMMA SessionStepInv ==
  ASSUME SessionInv, [Next]_vars
  PROVE  SessionInv'
<1> USE DEF SessionInv, PlaceOp, PlaceState, Leave, Shown, AwaitsArm, AwaitsStop, AwaitsRelease,
            Awaits, vars, ctlVars, loopVars, inputVars, actionVars, cameraVars, envVars, Goto, Raise,
            Quiet
<1>1. CASE BleReady
  BY <1>1 DEF BleReady
<1>2. CASE TransportReady
  BY <1>2 DEF TransportReady
<1>3. CASE FirstKeepalive
  BY <1>3 DEF FirstKeepalive, Refused, CanArm, CallArm, Begin
<1>4. CASE ArmedFirst
  BY <1>4 DEF ArmedFirst
<1>5. CASE Top
  BY <1>5 DEF Top, Drain, StopInputs, CallStop, Begin
<1>6. CASE Stopped
  BY <1>6 DEF Stopped
<1>7. CASE Check
  BY <1>7 DEF Check, CallStop, Begin
<1>8. CASE Serve
  BY <1>8 DEF Serve, CallStop, Begin
<1>9. CASE Aborted
  BY <1>9 DEF Aborted
<1>10. CASE Woken
  BY <1>10 DEF Woken
<1>11. CASE Resume
  BY <1>11 DEF Resume, Rearm, Refused, CanArm, CallArm, Begin
<1>12. CASE Resumed
  BY <1>12 DEF Resumed
<1>13. CASE StayPaused
  BY <1>13 DEF StayPaused
<1>14. CASE AwaitReply
  BY <1>14 DEF AwaitReply
<1>15. CASE CoolingDown
  BY <1>15 DEF CoolingDown
<1>16. CASE TakeAction
  BY <1>16 DEF TakeAction, Unoccupied, CallRelease, Begin
<1>17. CASE Yielded
  BY <1>17 DEF Yielded
<1>18. CASE EmitAction
  BY <1>18 DEF EmitAction
<1>19. CASE ActionSent
  BY <1>19 DEF ActionSent
<1>20. CASE AwaitNeutral
  BY <1>20 DEF AwaitNeutral, Steering, Unoccupied
<1>21. CASE Idle
  BY <1>21 DEF Idle, Steering, Unoccupied, CallRelease, Begin
<1>22. CASE LetGo
  BY <1>22 DEF LetGo
<1>23. CASE Drive
  BY <1>23 DEF Drive, Refused, Steering, Unoccupied, CanDrive, CallDrive
<1>24. CASE Driven
  BY <1>24 DEF Driven, DriveSent
<1>25. CASE Routine
  BY <1>25 DEF Routine, Progress, CenterOps, CenterSent, BurstSent, GapOver, PauseOver, FinalSent, DriveSent, PulseSent, Rest
<1>26. CASE Unwind
  BY <1>26 DEF Unwind, CallStop, Begin
<1>27. CASE Handled
  BY <1>27 DEF Handled
<1>28. CASE Finish
  BY <1>28 DEF Finish
<1>29. CASE Age
  BY <1>29 DEF Age
<1>30. CASE CooldownOver
  BY <1>30 DEF CooldownOver
<1>31. CASE Deadline
  BY <1>31 DEF Deadline
<1>32. CASE ConnectFails
  BY <1>32 DEF ConnectFails
<1>33. CASE StickSendFails
  BY <1>33 DEF StickSendFails, SendFails, InFlight, Broken
<1>34. CASE OtherSendFails
  BY <1>34 DEF OtherSendFails
<1>35. CASE Cancel
  BY <1>35 DEF Cancel, SendFails, SleepCancelled, InFlight, Sleeping, Broken
<1>36. CASE Submit
  BY <1>36 DEF Submit, UserActs
<1>37. CASE RequestAction
  BY <1>37 DEF RequestAction, UserActs
<1>38. CASE FlagRearm
  BY <1>38 DEF FlagRearm
<1>39. CASE RequestRearm
  BY <1>39 DEF RequestRearm, UserActs
<1>40. CASE Restart
  BY <1>40 DEF Restart, UserActs
<1>41. CASE CameraReplies
  BY <1>41 DEF CameraReplies
<1>42. CASE LinkChanges
  BY <1>42 DEF LinkChanges
<1>43. CASE Ended
  BY <1>43 DEF Ended
<1>44. CASE UNCHANGED vars
  BY <1>44
<1> QED
  BY <1>1, <1>2, <1>3, <1>4, <1>5, <1>6, <1>7, <1>8, <1>9, <1>10, <1>11, <1>12, <1>13, <1>14, <1>15, <1>16, <1>17, <1>18, <1>19, <1>20, <1>21, <1>22, <1>23, <1>24, <1>25, <1>26, <1>27, <1>28, <1>29, <1>30, <1>31, <1>32, <1>33, <1>34, <1>35, <1>36, <1>37, <1>38, <1>39, <1>40, <1>41, <1>42, <1>43, <1>44
     DEF Next, SessionStep, Connecting, Looping, Pausing, Acting, Moving, Leaving, Clock, Failing, User
\* The session's places, the controller and what is shown fit together.
THEOREM SessionInvariant == Spec => []SessionInv
BY SessionInit, SessionStepInv, PTL DEF Spec

\* The session never comes to a call that the controller refuses: it arms only
\* a stopped controller and drives only an armed one, whatever sequence of
\* STOPs, re-arms, camera actions and restarts led there (control/live_wifi.py
\* 272, 342 and 416).
THEOREM CallsAreTaken == Spec => []NeverRefused
<1>1. SessionInv => NeverRefused
  BY DEF SessionInv, Leave, NeverRefused
<1> QED
  BY <1>1, SessionInvariant, PTL

-----------------------------------------------------------------------------
(* The session is a caller of the controller.                              *)

\* Each step of the session is a step of the controller or none of its
\* business: one coroutine at a time, each called from a state it accepts.
LEMMA ControllerStep ==
  ASSUME SessionInv, [Next]_vars
  PROVE  [ControllerNext]_ctlVars
<1> USE DEF ControllerNext
<1>1. CASE FirstKeepalive
  BY <1>1 DEF FirstKeepalive, Refused
<1>2. CASE Top
  BY <1>2 DEF Top
<1>3. CASE Check
  BY <1>3 DEF Check
<1>4. CASE Serve
  BY <1>4 DEF Serve
<1>5. CASE Resume
  BY <1>5 DEF Resume, Rearm, Refused
<1>6. CASE TakeAction
  BY <1>6 DEF TakeAction, ReleaseActive
<1>7. CASE Idle
  BY <1>7 DEF Idle, ReleaseActive
<1>8. CASE Drive
  BY <1>8 DEF Drive, Refused
<1>9. CASE Driven
  BY <1>9 DEF Driven, Progress
<1>10. CASE Routine
  BY <1>10 DEF Routine
<1>11. CASE Unwind
  BY <1>11 DEF Unwind
<1>12. CASE StickSendFails
  BY <1>12 DEF StickSendFails
<1>13. CASE Cancel
  BY <1>13 DEF Cancel
<1>14. CASE Restart
  BY <1>14 DEF Restart, SessionInv, PlaceOp, Leave, Shown, Awaits, AwaitsArm, AwaitsStop,
              AwaitsRelease, ctlVars
<1>15. CASE BleReady \/ TransportReady \/ ArmedFirst \/ Stopped \/ Aborted \/ Woken \/
            Resumed \/ StayPaused \/ AwaitReply \/ CoolingDown \/ Yielded \/ EmitAction \/
            ActionSent \/ AwaitNeutral \/ LetGo \/ Handled \/ Finish \/ Age \/ CooldownOver \/
            Deadline \/ ConnectFails \/ OtherSendFails \/ Submit \/ RequestAction \/
            FlagRearm \/ RequestRearm \/ CameraReplies \/ LinkChanges \/ Ended \/ UNCHANGED vars
  BY <1>15
     DEF BleReady, TransportReady, ArmedFirst, Stopped, Aborted, Woken, Resumed, StayPaused,
         AwaitReply, CoolingDown, Yielded, EmitAction, ActionSent, AwaitNeutral, LetGo,
         Handled, Finish, Age, CooldownOver, Deadline, ConnectFails, OtherSendFails, Submit,
         RequestAction, FlagRearm, RequestRearm, CameraReplies, LinkChanges, Ended,
         Quiet, vars, ctlVars
<1> QED
  BY <1>1, <1>2, <1>3, <1>4, <1>5, <1>6, <1>7, <1>8, <1>9, <1>10, <1>11, <1>12, <1>13, <1>14,
     <1>15
     DEF Next, SessionStep, Connecting, Looping, Pausing, Acting, Moving, Leaving, Clock, Failing, User

\* The live session is one caller of the controller (control/live_wifi.py calls
\* control/gimbal_controller.py from one task only), so every theorem about the
\* controller is one about the session.
THEOREM SessionCallsController == Spec => ControllerSpec
<1>1. Init => ControllerInit
  BY DEF Init
<1>2. SessionInv /\ [Next]_vars => [ControllerNext]_ctlVars
  BY ControllerStep
<1> QED
  BY <1>1, <1>2, SessionInvariant, PTL DEF Spec, ControllerSpec

\* A stick at rest is a centred stick, in the session too.
THEOREM SessionRestIsCentered == Spec => []RestMeansCentered
BY SessionCallsController, RestIsCentered, PTL

-----------------------------------------------------------------------------
(* Type correctness.                                                       *)

LEMMA TypeInit == Init => FlagsOK /\ ValuesOK
<1>1. Init => FlagsOK
  BY Zenon DEF Init, FlagsOK
<1>2. Init => ValuesOK
  BY SessionAssumption DEF Init, ValuesOK, Places, Input
<1> QED
  BY <1>1, <1>2

\* Every variable of the session keeps to the values of its Python counterpart.
THEOREM TypeCorrect == Spec => []TypeOK
<1>1. FlagsOK /\ ValuesOK /\ [Next]_vars => (FlagsOK /\ ValuesOK)'
  BY FlagsStep, ValuesStep
<1>2. FlagsOK /\ ValuesOK => SessionTypeOK
  BY Zenon DEF FlagsOK, ValuesOK, SessionTypeOK
<1>3. Spec => []ControllerTypeOK
  BY SessionCallsController, ControllerTypeCorrect, PTL
<1> QED
  BY <1>1, <1>2, <1>3, TypeInit, PTL DEF Spec, TypeOK

-----------------------------------------------------------------------------
(* Safety.                                                                 *)

Known == SessionInv /\ ControllerInv

\* Both invariants hold together.
LEMMA KnownInvariant == Spec => []Known
BY SessionInvariant, SessionCallsController, ControllerInvariant, PTL DEF Known

StillInv == SessionLeavesCentered /\ DisabledIsStill /\ ActionFromRest

\* No step leaves the session, shows "disabled" or runs an action on a
\* deflected stick.
LEMMA StillStep ==
  ASSUME Known, Known', StillInv, [Next]_vars
  PROVE  StillInv'
<1> USE DEF Known, StillInv, SessionLeavesCentered, DisabledIsStill, ActionFromRest, SessionInv,
            PlaceOp, PlaceState, Leave, Shown, AwaitsArm, AwaitsStop, AwaitsRelease, Awaits,
            ControllerInv, BurstCentres, RestsCentred, CenterOps, DriveOps,
            vars, ctlVars, loopVars, inputVars, actionVars, cameraVars, envVars, Goto, Raise, Quiet
<1>1. CASE BleReady
  BY <1>1 DEF BleReady
<1>2. CASE TransportReady
  BY <1>2 DEF TransportReady
<1>3. CASE FirstKeepalive
  BY <1>3 DEF FirstKeepalive, Refused, CanArm, CallArm, Begin
<1>4. CASE ArmedFirst
  BY <1>4 DEF ArmedFirst
<1>5. CASE Top
  BY <1>5 DEF Top, CallStop, Begin
<1>6. CASE Stopped
  BY <1>6 DEF Stopped
<1>7. CASE Check
  BY <1>7 DEF Check, CallStop, Begin
<1>8. CASE Serve
  BY <1>8 DEF Serve, CallStop, Begin
<1>9. CASE Aborted
  BY <1>9 DEF Aborted
<1>10. CASE Woken
  BY <1>10 DEF Woken
<1>11. CASE Resume
  BY <1>11 DEF Resume, Rearm, Refused, CanArm, CallArm, Begin
<1>12. CASE Resumed
  BY <1>12 DEF Resumed
<1>13. CASE StayPaused
  BY <1>13 DEF StayPaused
<1>14. CASE AwaitReply
  BY <1>14 DEF AwaitReply
<1>15. CASE CoolingDown
  BY <1>15 DEF CoolingDown
<1>16. CASE TakeAction
  BY <1>16 DEF TakeAction, Unoccupied, CallRelease, Begin
<1>17. CASE Yielded
  BY <1>17 DEF Yielded
<1>18. CASE EmitAction
  BY <1>18 DEF EmitAction
<1>19. CASE ActionSent
  BY <1>19 DEF ActionSent
<1>20. CASE AwaitNeutral
  BY <1>20 DEF AwaitNeutral, Steering, Unoccupied
<1>21. CASE Idle
  BY <1>21 DEF Idle, Steering, Unoccupied, CallRelease, Begin
<1>22. CASE LetGo
  BY <1>22 DEF LetGo
<1>23. CASE Drive
  BY <1>23 DEF Drive, Refused, Steering, Unoccupied, CanDrive, CallDrive
<1>24. CASE Driven
  BY <1>24 DEF Driven, DriveSent
<1>25. CASE Routine
  BY <1>25 DEF Routine, Progress, CenterSent, BurstSent, GapOver, PauseOver, FinalSent, DriveSent, PulseSent
<1>26. CASE Unwind
  BY <1>26 DEF Unwind, CallStop, Begin
<1>27. CASE Handled
  BY <1>27 DEF Handled
<1>28. CASE Finish
  BY <1>28 DEF Finish
<1>29. CASE Age
  BY <1>29 DEF Age
<1>30. CASE CooldownOver
  BY <1>30 DEF CooldownOver
<1>31. CASE Deadline
  BY <1>31 DEF Deadline
<1>32. CASE ConnectFails
  BY <1>32 DEF ConnectFails
<1>33. CASE StickSendFails
  BY <1>33 DEF StickSendFails, SendFails, InFlight, Broken
<1>34. CASE OtherSendFails
  BY <1>34 DEF OtherSendFails
<1>35. CASE Cancel
  BY <1>35 DEF Cancel, SendFails, SleepCancelled, InFlight, Sleeping, Broken
<1>36. CASE Submit
  BY <1>36 DEF Submit, UserActs
<1>37. CASE RequestAction
  BY <1>37 DEF RequestAction, UserActs
<1>38. CASE FlagRearm
  BY <1>38 DEF FlagRearm
<1>39. CASE RequestRearm
  BY <1>39 DEF RequestRearm, UserActs
<1>40. CASE Restart
  BY <1>40 DEF Restart, UserActs
<1>41. CASE CameraReplies
  BY <1>41 DEF CameraReplies
<1>42. CASE LinkChanges
  BY <1>42 DEF LinkChanges
<1>43. CASE Ended
  BY <1>43 DEF Ended
<1>44. CASE UNCHANGED vars
  BY <1>44
<1> QED
  BY <1>1, <1>2, <1>3, <1>4, <1>5, <1>6, <1>7, <1>8, <1>9, <1>10, <1>11, <1>12, <1>13, <1>14,
     <1>15, <1>16, <1>17, <1>18, <1>19, <1>20, <1>21, <1>22, <1>23, <1>24, <1>25, <1>26, <1>27,
     <1>28, <1>29, <1>30, <1>31, <1>32, <1>33, <1>34, <1>35, <1>36, <1>37, <1>38, <1>39, <1>40,
     <1>41, <1>42, <1>43, <1>44
     DEF Next, SessionStep, Connecting, Looping, Pausing, Acting, Moving, Leaving, Clock, Failing, User

LEMMA StillInvariant == Spec => []StillInv
<1>1. Init => StillInv
  BY DEF Init, ControllerInit, StillInv, SessionLeavesCentered, DisabledIsStill, ActionFromRest
<1>2. Known /\ Known' /\ StillInv /\ [Next]_vars => StillInv'
  BY StillStep
<1> QED
  BY <1>1, <1>2, KnownInvariant, PTL DEF Spec

\* However the session ends, the stick is left centred unless the send of a
\* stick command failed (control/live_wifi.py, the except clause of _run).
THEOREM LeavesCentered == Spec => []SessionLeavesCentered
<1>1. StillInv => SessionLeavesCentered
  BY DEF StillInv
<1> QED
  BY <1>1, StillInvariant, PTL

\* A session that shows "disabled", and so offers to re-arm, is not moving.
THEOREM DisabledStill == Spec => []DisabledIsStill
<1>1. StillInv => DisabledIsStill
  BY DEF StillInv
<1> QED
  BY <1>1, StillInvariant, PTL

\* No camera action runs beside a deflected stick (docs/touch-camera-actions.md).
THEOREM ActionsFromRest == Spec => []ActionFromRest
<1>1. StillInv => ActionFromRest
  BY DEF StillInv
<1> QED
  BY <1>1, StillInvariant, PTL
-----------------------------------------------------------------------------
(* Reaction to a STOP, and answers to camera actions.                      *)

\* Only the sleep after a movement separates it from the next look at the queue.
LateInv == /\ late \in {0, 1}
           /\ late = 1 => pc \in {"sleep", "top", "raise", "handler", "finally", "done"}

LEMMA LateStep ==
  ASSUME PlaceOp, LateInv, [Next]_vars
  PROVE  LateInv'
<1> USE DEF PlaceOp, LateInv, AwaitsArm, AwaitsStop, AwaitsRelease, Awaits,
            vars, loopVars, envVars, Goto, Raise, Quiet
<1>1. CASE BleReady
  BY <1>1 DEF BleReady
<1>2. CASE TransportReady
  BY <1>2 DEF TransportReady
<1>3. CASE FirstKeepalive
  BY <1>3 DEF FirstKeepalive, Refused
<1>4. CASE ArmedFirst
  BY <1>4 DEF ArmedFirst
<1>5. CASE Top
  BY <1>5 DEF Top, Drain, StopWaiting
<1>6. CASE Stopped
  BY <1>6 DEF Stopped
<1>7. CASE Check
  BY <1>7 DEF Check
<1>8. CASE Serve
  BY <1>8 DEF Serve
<1>9. CASE Aborted
  BY <1>9 DEF Aborted
<1>10. CASE Woken
  BY <1>10 DEF Woken
<1>11. CASE Resume
  BY <1>11 DEF Resume, Rearm, Refused
<1>12. CASE Resumed
  BY <1>12 DEF Resumed
<1>13. CASE StayPaused
  BY <1>13 DEF StayPaused
<1>14. CASE AwaitReply
  BY <1>14 DEF AwaitReply
<1>15. CASE CoolingDown
  BY <1>15 DEF CoolingDown
<1>16. CASE TakeAction
  BY <1>16 DEF TakeAction, Unoccupied
<1>17. CASE Yielded
  BY <1>17 DEF Yielded
<1>18. CASE EmitAction
  BY <1>18 DEF EmitAction
<1>19. CASE ActionSent
  BY <1>19 DEF ActionSent
<1>20. CASE AwaitNeutral
  BY <1>20 DEF AwaitNeutral, Steering, Unoccupied
<1>21. CASE Idle
  BY <1>21 DEF Idle, Steering, Unoccupied
<1>22. CASE LetGo
  BY <1>22 DEF LetGo
<1>23. CASE Drive
  BY <1>23 DEF Drive, Refused, Steering, Unoccupied
<1>24. CASE Driven
  BY <1>24 DEF Driven
<1>25. CASE Routine
  BY <1>25 DEF Routine
<1>26. CASE Unwind
  BY <1>26 DEF Unwind
<1>27. CASE Handled
  BY <1>27 DEF Handled
<1>28. CASE Finish
  BY <1>28 DEF Finish
<1>29. CASE Age
  BY <1>29 DEF Age
<1>30. CASE CooldownOver
  BY <1>30 DEF CooldownOver
<1>31. CASE Deadline
  BY <1>31 DEF Deadline
<1>32. CASE ConnectFails
  BY <1>32 DEF ConnectFails
<1>33. CASE StickSendFails
  BY <1>33 DEF StickSendFails, Broken
<1>34. CASE OtherSendFails
  BY <1>34 DEF OtherSendFails
<1>35. CASE Cancel
  BY <1>35 DEF Cancel, Broken, SendFails, SleepCancelled, InFlight, Sleeping
<1>36. CASE Submit
  BY <1>36 DEF Submit, UserActs
<1>37. CASE RequestAction
  BY <1>37 DEF RequestAction, UserActs
<1>38. CASE FlagRearm
  BY <1>38 DEF FlagRearm
<1>39. CASE RequestRearm
  BY <1>39 DEF RequestRearm, UserActs
<1>40. CASE Restart
  BY <1>40 DEF Restart, UserActs
<1>41. CASE CameraReplies
  BY <1>41 DEF CameraReplies
<1>42. CASE LinkChanges
  BY <1>42 DEF LinkChanges
<1>43. CASE Ended
  BY <1>43 DEF Ended
<1>44. CASE UNCHANGED vars
  BY <1>44
<1> QED
  BY <1>1, <1>2, <1>3, <1>4, <1>5, <1>6, <1>7, <1>8, <1>9, <1>10, <1>11, <1>12, <1>13, <1>14,
     <1>15, <1>16, <1>17, <1>18, <1>19, <1>20, <1>21, <1>22, <1>23, <1>24, <1>25, <1>26, <1>27,
     <1>28, <1>29, <1>30, <1>31, <1>32, <1>33, <1>34, <1>35, <1>36, <1>37, <1>38, <1>39, <1>40,
     <1>41, <1>42, <1>43, <1>44
     DEF Next, SessionStep, Connecting, Looping, Pausing, Acting, Moving, Leaving, Clock, Failing, User

\* Once a STOP waits in the queue, at most the one movement already decided on
\* leaves before the loop acts on it (control/live_wifi.py:282-304).
THEOREM ReactsToStop == Spec => []StopReaction
<1>1. Init => LateInv
  BY DEF Init, LateInv
<1>2. SessionInv /\ LateInv /\ [Next]_vars => LateInv'
  BY LateStep DEF SessionInv
<1>3. LateInv => StopReaction
  BY DEF LateInv, StopReaction
<1> QED
  BY <1>1, <1>2, <1>3, SessionInvariant, PTL DEF Spec

\* A stored response is the camera's to the pending action, and none is stored
\* while an action is being sent.
AnswerInv == /\ ConfirmedWasAnswered
             /\ response # 0 => response = pending /\ response \in replies
             /\ pc \in {"yield", "acting", "acted"} => pending = 0

LEMMA AnswerStep ==
  ASSUME PlaceOp, AnswerInv, [Next]_vars
  PROVE  AnswerInv'
<1> USE DEF PlaceOp, AnswerInv, ConfirmedWasAnswered, AwaitsArm, AwaitsStop, AwaitsRelease, Awaits,
            vars, loopVars, actionVars, cameraVars, Goto, Raise, Quiet
<1>1. CASE BleReady
  BY <1>1 DEF BleReady
<1>2. CASE TransportReady
  BY <1>2 DEF TransportReady
<1>3. CASE FirstKeepalive
  BY <1>3 DEF FirstKeepalive, Refused
<1>4. CASE ArmedFirst
  BY <1>4 DEF ArmedFirst
<1>5. CASE Top
  BY <1>5 DEF Top
<1>6. CASE Stopped
  BY <1>6 DEF Stopped
<1>7. CASE Check
  BY <1>7 DEF Check
<1>8. CASE Serve
  BY <1>8 DEF Serve
<1>9. CASE Aborted
  BY <1>9 DEF Aborted
<1>10. CASE Woken
  BY <1>10 DEF Woken
<1>11. CASE Resume
  BY <1>11 DEF Resume, Rearm, Refused
<1>12. CASE Resumed
  BY <1>12 DEF Resumed
<1>13. CASE StayPaused
  BY <1>13 DEF StayPaused
<1>14. CASE AwaitReply
  BY <1>14 DEF AwaitReply, FoundReply
<1>15. CASE CoolingDown
  BY <1>15 DEF CoolingDown
<1>16. CASE TakeAction
  BY <1>16 DEF TakeAction, Unoccupied
<1>17. CASE Yielded
  BY <1>17 DEF Yielded
<1>18. CASE EmitAction
  BY <1>18 DEF EmitAction
<1>19. CASE ActionSent
  BY <1>19 DEF ActionSent
<1>20. CASE AwaitNeutral
  BY <1>20 DEF AwaitNeutral, Steering, Unoccupied
<1>21. CASE Idle
  BY <1>21 DEF Idle, Steering, Unoccupied
<1>22. CASE LetGo
  BY <1>22 DEF LetGo
<1>23. CASE Drive
  BY <1>23 DEF Drive, Refused, Steering, Unoccupied
<1>24. CASE Driven
  BY <1>24 DEF Driven
<1>25. CASE Routine
  BY <1>25 DEF Routine
<1>26. CASE Unwind
  BY <1>26 DEF Unwind
<1>27. CASE Handled
  BY <1>27 DEF Handled
<1>28. CASE Finish
  BY <1>28 DEF Finish
<1>29. CASE Age
  BY <1>29 DEF Age
<1>30. CASE CooldownOver
  BY <1>30 DEF CooldownOver
<1>31. CASE Deadline
  BY <1>31 DEF Deadline
<1>32. CASE ConnectFails
  BY <1>32 DEF ConnectFails
<1>33. CASE StickSendFails
  BY <1>33 DEF StickSendFails, Broken
<1>34. CASE OtherSendFails
  BY <1>34 DEF OtherSendFails
<1>35. CASE Cancel
  BY <1>35 DEF Cancel, Broken, SendFails, SleepCancelled, InFlight, Sleeping
<1>36. CASE Submit
  BY <1>36 DEF Submit, UserActs
<1>37. CASE RequestAction
  BY <1>37 DEF RequestAction, UserActs
<1>38. CASE FlagRearm
  BY <1>38 DEF FlagRearm
<1>39. CASE RequestRearm
  BY <1>39 DEF RequestRearm, UserActs
<1>40. CASE Restart
  BY <1>40 DEF Restart, UserActs
<1>41. CASE CameraReplies
  <2>1. PICK a \in 1..emitted :
            /\ replies' = replies \cup {a}
            /\ response' = IF a = pending THEN a ELSE response
            /\ UNCHANGED <<pending, confirmed, loopVars>>
    BY <1>41, Zenon DEF CameraReplies
  <2> QED
    BY <2>1
<1>42. CASE LinkChanges
  BY <1>42 DEF LinkChanges
<1>43. CASE Ended
  BY <1>43 DEF Ended
<1>44. CASE UNCHANGED vars
  BY <1>44
<1> QED
  BY <1>1, <1>2, <1>3, <1>4, <1>5, <1>6, <1>7, <1>8, <1>9, <1>10, <1>11, <1>12, <1>13, <1>14,
     <1>15, <1>16, <1>17, <1>18, <1>19, <1>20, <1>21, <1>22, <1>23, <1>24, <1>25, <1>26, <1>27,
     <1>28, <1>29, <1>30, <1>31, <1>32, <1>33, <1>34, <1>35, <1>36, <1>37, <1>38, <1>39, <1>40,
     <1>41, <1>42, <1>43, <1>44
     DEF Next, SessionStep, Connecting, Looping, Pausing, Acting, Moving, Leaving, Clock, Failing, User

\* An action is confirmed to the user only if the camera answered that action
\* (control/live_wifi.py:138-142, 348-363).
THEOREM ConfirmationsAreAnswers == Spec => []ConfirmedWasAnswered
<1>1. Init => AnswerInv
  BY DEF Init, AnswerInv, ConfirmedWasAnswered
<1>2. SessionInv /\ AnswerInv /\ [Next]_vars => AnswerInv'
  BY AnswerStep DEF SessionInv
<1>3. AnswerInv => ConfirmedWasAnswered
  BY DEF AnswerInv
<1> QED
  BY <1>1, <1>2, <1>3, SessionInvariant, PTL DEF Spec
=============================================================================
