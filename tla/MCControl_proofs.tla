--------------------------- MODULE MCControl_proofs ---------------------------
(***************************************************************************)
(* What holds of the ways to move the gimbal outside a live session, for   *)
(* every burst length, pulse length and limit.  Each part of the proof is  *)
(* about one way: the workflow over Wi-Fi, the speed controller with the   *)
(* scripts that use it, and the window's keys and joystick.                *)
(***************************************************************************)
EXTENDS MCControl, GimbalController_proofs, FiniteSetTheorems

-----------------------------------------------------------------------------
(* The one-shot workflow and the controller.                               *)

\* Where the workflow has moved nothing, where it uses the socket, and where
\* it has caught an exception.
Early == {"connect", "subscribed", "open"}
Connected == {"open", "first", "second", "raise", "handler"}
Caught == {"raise", "handler"}
Ended == {"closing", "done"}

FlowOK == /\ mode \in {"center-test", "pulse"}
          /\ place \in Early \cup Connected \cup Ended
          /\ isOpen \in BOOLEAN /\ error \in BOOLEAN /\ stopFailed \in BOOLEAN
          /\ drives \in Nat /\ centres \in Nat

\* The socket is open wherever a packet may have been sent, and the handler
\* runs after an exception only.
FlowSocket == /\ place \in Connected => isOpen
              /\ place \in {"connect", "subscribed"} => ~isOpen
              /\ place \in Early \cup {"first", "second"} => ~error
              /\ place \in Caught => error

\* The coroutine each place awaits.
FlowOp == /\ place \in Early \cup Ended \cup {"raise"} => op = "none"
          /\ place = "first" /\ mode = "pulse" => op \in {"none", "arm"}
          /\ place = "second" /\ mode = "pulse" => op \in {"none", "pulse", "settle", "abort"}
          /\ place \in {"first", "second"} /\ mode = "center-test" => op \in {"none", "burst"}
          /\ place = "handler" => op \in {"none", "stop"}
          /\ op = "arm" => step # "final"

\* The pulse has packets left, the settling burst has counted what it sent.
PulseCounts ==
    /\ op = "pulse" => left \in 1..PulseFrames /\ drives + left = PulseFrames
    /\ op = "settle" => /\ drives = PulseFrames /\ centres + left = StopBurst
                        /\ IF step \in {"send", "gap"} THEN left > 0 ELSE left = 0
    /\ op = "none" /\ state = "centered" => drives = PulseFrames /\ centres = StopBurst + 1

FlowCounts == /\ drives <= PulseFrames
              /\ place \in Early \cup {"first"} => drives = 0 /\ wire # "drive"
              /\ mode = "center-test" => drives = 0 /\ wire # "drive"
              /\ place = "second" /\ mode = "pulse" => PulseCounts
              /\ place = "second" /\ op = "none" => state \in {"centered", "fault"}
              /\ place = "first" /\ op = "none" /\ mode = "pulse" => state = "armed"
              /\ place = "handler" /\ op = "none" => state = "disabled"

\* The workflow leaves by a success or by an exception.
FlowEnd == place \in Ended =>
              /\ wire = "drive" => stopFailed
              /\ mode = "pulse" /\ ~error => drives = PulseFrames /\ centres = StopBurst + 1

FlowInv == ControllerInv /\ FlowOK /\ FlowSocket /\ FlowOp /\ FlowCounts /\ FlowEnd

\* A step of the workflow is a step of some caller of the controller, or none.
LEMMA FlowUsesController ==
  ASSUME [OneShotNext]_oneShotVars
  PROVE  [ControllerNext]_ctlVars
<1>1. CASE BeginFirst \/ BeginSecond
  BY <1>1 DEF BeginFirst, BeginSecond, ControllerNext
<1>2. CASE EmergencyStop
  BY <1>2 DEF EmergencyStop, ControllerNext
<1>3. CASE CentreOut \/ PulseOut \/ Wait \/ TimedOut
  BY <1>3 DEF CentreOut, PulseOut, Wait, TimedOut, ControllerNext, Progress
<1>4. CASE Fail
  BY <1>4 DEF Fail, ControllerNext
<1>5. CASE Subscribe \/ Hear("ble") \/ Hear("udp") \/ OpenUdp \/ Succeed \/ HandlerDone \/ Close
  BY <1>5 DEF Subscribe, Hear, OpenUdp, Succeed, HandlerDone, Close
<1>6. CASE UNCHANGED oneShotVars
  BY <1>6 DEF oneShotVars
<1> QED
  BY <1>1, <1>2, <1>3, <1>4, <1>5, <1>6 DEF OneShotNext, Closed

\* Where the final centre packet leaves the controller, coroutine by coroutine.
LEMMA RestStates == /\ Rest("release") = "armed"
                    /\ Rest("stop") = "disabled"
                    /\ Rest("abort") = "fault"
                    /\ Rest("settle") = "centered" /\ Rest("burst") = "centered"
BY Zenon DEF Rest

LEMMA FlowInit == OneShotInit => FlowInv
<1> SUFFICES ASSUME OneShotInit PROVE FlowInv
  OBVIOUS
<1>1. ControllerInv
  BY InitInvariant DEF OneShotInit
<1> USE BurstAssumption DEF OneShotInit, ControllerInit, Early, Connected, Caught, Ended
<1>2. FlowOK
  BY DEF FlowOK
<1>3. FlowSocket /\ FlowOp
  BY DEF FlowSocket, FlowOp
<1>4. FlowCounts /\ FlowEnd
  BY DEF FlowCounts, FlowEnd
<1> QED
  BY <1>1, <1>2, <1>3, <1>4 DEF FlowInv

\* Every step of the workflow keeps its invariant (tools/run_wifi_gimbal_test
\* and control/gimbal_controller.py together).
LEMMA FlowStep ==
  ASSUME FlowInv, [OneShotNext]_oneShotVars
  PROVE  FlowInv'
<1>0. ControllerInv'
  BY FlowUsesController, StepInvariant DEF FlowInv
<1> USE BurstAssumption DEF FlowInv, FlowOK, FlowSocket, FlowOp, FlowCounts, PulseCounts, FlowEnd,
        Early, Connected, Caught, Ended, flowVars, counted, ctlVars, GoOn
<1>1. CASE Subscribe
  BY <1>0, <1>1 DEF Subscribe
<1>2. CASE Hear("ble") \/ Hear("udp")
  BY <1>0, <1>2 DEF Hear
<1>3. CASE OpenUdp
  BY <1>0, <1>3 DEF OpenUdp
<1>4. CASE BeginFirst
  <2>1. CASE mode = "pulse" /\ CanArm
    <3>1. CallArm /\ GoOn("first") /\ UNCHANGED counted
      BY <1>4, <2>1 DEF BeginFirst
    <3> QED
      BY <1>0, <1>4, <2>1, <3>1 DEF BeginFirst, CallArm, Begin
  <2>2. CASE mode = "pulse" /\ ~CanArm
    <3>1. Catch /\ UNCHANGED ctlVars /\ UNCHANGED counted
      BY <1>4, <2>2 DEF BeginFirst
    <3> QED
      BY <1>0, <1>4, <2>2, <3>1 DEF BeginFirst, Catch
  <2>3. CASE mode # "pulse"
    <3>1. GoOn("first") /\ UNCHANGED counted /\ \E p \in Nat : CallCenterBurst(p)
      BY <1>4, <2>3 DEF BeginFirst
    <3> QED
      BY <1>0, <1>4, <2>3, <3>1 DEF BeginFirst, CallCenterBurst, Begin
  <2> QED
    BY <2>1, <2>2, <2>3
<1>5. CASE BeginSecond
  <2>1. CASE mode = "pulse" /\ CanPulse
    <3>1. CallPulse /\ GoOn("second") /\ UNCHANGED counted
      BY <1>5, <2>1 DEF BeginSecond
    <3> QED
      BY <1>0, <1>5, <2>1, <3>1 DEF BeginSecond, CallPulse, Begin
  <2>2. CASE mode = "pulse" /\ ~CanPulse
    <3>1. Catch /\ UNCHANGED ctlVars /\ UNCHANGED counted
      BY <1>5, <2>2 DEF BeginSecond
    <3> QED
      BY <1>0, <1>5, <2>2, <3>1 DEF BeginSecond, Catch
  <2>3. CASE mode # "pulse"
    <3>1. GoOn("second") /\ UNCHANGED counted /\ \E p \in Nat : CallCenterBurst(p)
      BY <1>5, <2>3 DEF BeginSecond
    <3> QED
      BY <1>0, <1>5, <2>3, <3>1 DEF BeginSecond, CallCenterBurst, Begin
  <2> QED
    BY <2>1, <2>2, <2>3
<1>6. CASE Succeed
  BY <1>0, <1>6 DEF Succeed, ControllerInv, RestsCentred
<1>7. CASE CentreOut
  <2> USE DEF ControllerInv, ControllerTypeOK, Steps, CenterOps
  <2>1. CASE CenterSent
    BY <1>0, <1>7, <2>1 DEF CentreOut, CenterSent
  <2>2. CASE BurstSent
    BY <1>0, <1>7, <2>2 DEF CentreOut, BurstSent
  <2>3. CASE FinalSent
    BY <1>0, <1>7, <2>3, RestStates DEF CentreOut, FinalSent
  <2> QED
    BY <1>7, <2>1, <2>2, <2>3 DEF CentreOut
<1>8. CASE PulseOut
  BY <1>0, <1>8 DEF PulseOut, PulseSent
<1>9. CASE Wait
  BY <1>0, <1>9 DEF Wait, GapOver, PauseOver, CenterOps
<1>10. CASE TimedOut
  BY <1>0, <1>10 DEF TimedOut, PulseTimeout
<1>11. CASE Fail
  <2> USE DEF Fail, Catch
  <2>1. CASE SendFails
    <3> USE DEF SendFails, InFlight, DriveOps
    <3>1. CASE place = "handler"
      BY <1>0, <1>11, <2>1, <3>1
    <3>2. CASE place \in {"first", "second"} /\ mode = "center-test"
      BY <1>0, <1>11, <2>1, <3>2
    <3>3. CASE place \in {"first", "second"} /\ mode = "pulse"
      <4>1. place' = "raise" /\ isOpen' /\ error' /\ op' = "none" /\ mode' = "pulse"
        BY <1>11, <2>1, <3>3
      <4>2. drives' \in Nat /\ drives' <= PulseFrames /\ centres' \in Nat
        BY <1>11, <2>1, <3>3
      <4>3. stopFailed' = stopFailed /\ isOpen' = isOpen /\ error' = TRUE
        BY <1>11, <3>3
      <4> QED
        BY <1>0, <4>1, <4>2, <4>3
    <3> QED
      BY <2>1, <3>1, <3>2, <3>3
  <2>2. CASE SleepCancelled
    BY <1>0, <1>11, <2>2 DEF SleepCancelled, Sleeping
  <2>3. CASE /\ place \in {"connect", "subscribed", "open", "first", "second"} /\ op = "none"
             /\ UNCHANGED ctlVars
    BY <1>0, <1>11, <2>3
  <2> QED
    BY <1>11, <2>1, <2>2, <2>3
<1>12. CASE EmergencyStop
  BY <1>0, <1>12 DEF EmergencyStop, CallStop, Begin
<1>13. CASE HandlerDone
  BY <1>0, <1>13 DEF HandlerDone, ControllerInv, RestsCentred
<1>14. CASE Close
  BY <1>0, <1>14 DEF Close
<1>15. CASE UNCHANGED oneShotVars
  BY <1>0, <1>15 DEF oneShotVars
<1> QED
  BY <1>1, <1>2, <1>3, <1>4, <1>5, <1>6, <1>7, <1>8, <1>9, <1>10, <1>11, <1>12, <1>13, <1>14,
     <1>15 DEF OneShotNext, Closed

\* Only a process that runs the workflow takes its steps.
LEMMA FlowPart == [ControlNext]_allVars => [OneShotNext]_oneShotVars
BY DEF ControlNext, allVars

\* Whatever fails or times out in the one-shot workflow: it sends no more stick
\* packets than the pulse has, a success has sent them all and centred after
\* them, and the socket closes on a deflected stick only when the handler's own
\* stop failed.
THEOREM WorkflowEndsCentered == ControlSpec => []OneShotEndsCentered
<1>1. ControlInit => FlowInv
  BY FlowInit DEF ControlInit
<1>2. FlowInv /\ [ControlNext]_allVars => FlowInv'
  BY FlowPart, FlowStep
<1>3. FlowInv => OneShotEndsCentered
  BY DEF FlowInv, FlowOK, FlowCounts, FlowEnd, Ended, OneShotEndsCentered
<1> QED
  BY <1>1, <1>2, <1>3, PTL DEF ControlSpec

-----------------------------------------------------------------------------
(* FailClosedController, whoever calls it.                                  *)

Destinations == {"armed", "disabled", "disconnected", "fault"}

CallOK == \/ call = NoCall \/ call = Driving
          \/ \E d \in Destinations, n \in 1..ZeroTries :
                call = [send |-> "zero", tries |-> n, then |-> d]

SafetyOK == /\ safety \in ControlState
            /\ pushed \in BOOLEAN /\ neutral \in BOOLEAN
            /\ inputAge \in None..Watchdog + 1
            /\ sendAge \in None..1
            /\ heldAge \in None..MaxMovement
            /\ out \in {"drive", "zero"} /\ turning \in Nat
            /\ CallOK

\* A zero command is being sent in STOPPING only; a movement has a beginning,
\* and ends before a neutral input is required.
CallState == /\ call.send = "zero" => safety = "stopping"
             /\ call.send = "drive" => safety \in {"armed", "active"}
             /\ call.send = "drive" \/ safety = "active" => ~neutral /\ heldAge # None

SafetyInv == SafetyOK /\ CallState

\* The steps a caller can make the controller take.
Ordinary == \/ Arm \/ StopAtOnce \/ StopControl \/ Tick
            \/ \E isActive \in BOOLEAN : SubmitInput(isActive)
            \/ DriveSentOn \/ ZeroSent \/ DriveFails \/ Elapse

\* The two forms of a running call, as records of three fields.
LEMMA CallForms ==
  /\ NoCall.send = "none" /\ Driving.send = "drive"
  /\ \A d \in Destinations : /\ Zeroing(d) = [send |-> "zero", tries |-> 1, then |-> d]
                             /\ Zeroing(d).send = "zero" /\ Zeroing(d).then = d
                             /\ Zeroing(d) # NoCall
  /\ Driving # NoCall
BY DEF NoCall, Driving, Zeroing

\* What a call in progress tells of itself.
LEMMA CallSend ==
  ASSUME CallOK
  PROVE  /\ call.send \in {"none", "drive", "zero"}
         /\ Idle <=> call.send = "none"
         /\ call.send = "drive" => call = Driving
         /\ call.send = "zero" => call.then \in Destinations /\ call.tries \in 1..ZeroTries
BY DEF CallOK, Idle, NoCall, Driving

\* Every call, every answer of the sink and every tenth of a second keeps the
\* controller's types and its state (control/fail_closed.py).
LEMMA SafetyStep ==
  ASSUME SafetyInv,
         Ordinary \/ ZeroFails \/ SendCancelled \/ Disconnect \/ UNCHANGED safetyVars
  PROVE  SafetyInv'
<1> USE FailClosedAssumption, CallForms, CallSend
    DEF SafetyInv, SafetyOK, CallState, ControlState, None
<1>0. ASSUME NEW d \in Destinations, call' = Zeroing(d)
      PROVE  CallOK'
  BY <1>0 DEF CallOK
<1>1. ASSUME NEW d \in Destinations, Zero(d), neutral' \in {neutral, TRUE}
      PROVE  SafetyInv'
  BY <1>0, <1>1 DEF Zero
<1>2. CASE Arm
  BY <1>2 DEF Arm, CallOK, Idle
<1>3. CASE \E isActive \in BOOLEAN : SubmitInput(isActive)
  BY <1>3 DEF SubmitInput, CallOK, Idle
<1>4. CASE StopAtOnce \/ StopControl
  BY <1>1, <1>4 DEF StopAtOnce, StopControl, Destinations
<1>5. CASE Disconnect
  BY <1>1, <1>5 DEF Disconnect, Destinations, CallOK, Idle
<1>6. CASE Tick
  <2>1. CASE TickExpired \/ TickReleased \/ TickTooLong
    BY <1>1, <2>1 DEF TickExpired, TickReleased, TickTooLong, Destinations
  <2>2. CASE TickDrives
    BY <2>2 DEF TickDrives, Wanted, Live, HeldTooLong, CallOK, Idle
  <2>3. CASE TickIdles
    BY <2>3 DEF TickIdles, safetyVars, CallOK
  <2> QED
    BY <1>6, <2>1, <2>2, <2>3 DEF Tick
<1>7. CASE DriveSentOn
  BY <1>7 DEF DriveSentOn, Obeyed, CallOK
<1>8. CASE ZeroSent
  <2>1. CallOK' /\ call'.send = "none"
    BY <1>8 DEF ZeroSent, CallOK
  <2>2. safety' \in ControlState /\ safety' # "active"
    BY <1>8 DEF ZeroSent, Destinations
  <2>3. pushed' \in BOOLEAN /\ neutral' \in BOOLEAN /\ inputAge' \in None..Watchdog + 1
    BY <1>8 DEF ZeroSent
  <2>4. sendAge' \in None..1 /\ heldAge' \in None..MaxMovement
    BY <1>8 DEF ZeroSent
  <2>5. out' \in {"drive", "zero"} /\ turning' \in Nat
    BY <1>8 DEF ZeroSent, Obeyed
  <2> QED
    BY <2>1, <2>2, <2>3, <2>4, <2>5
<1>9. CASE DriveFails
  BY <1>0, <1>9 DEF DriveFails, Perhaps, Obeyed, Destinations
<1>10. CASE ZeroFails
  BY <1>10 DEF ZeroFails, Perhaps, Obeyed, CallOK
<1>11. CASE SendCancelled
  BY <1>11 DEF SendCancelled, Perhaps, Obeyed, CallOK
<1>12. CASE Elapse
  BY <1>12 DEF Elapse, Older, CallOK
<1>13. CASE UNCHANGED safetyVars
  BY <1>13 DEF safetyVars, CallOK
<1> QED
  BY <1>2, <1>3, <1>4, <1>5, <1>6, <1>7, <1>8, <1>9, <1>10, <1>11, <1>12, <1>13 DEF Ordinary

-----------------------------------------------------------------------------
(* The scripts.                                                             *)

\* After a cancellation alone, or a zero command that failed to the last, may
\* the gimbal turn on; the mock sink never refuses a zero command.
Resting(S) == Idle /\ safety \notin S => out = "zero"

Stands == /\ ~interrupted => Resting({"active", "fault"})
          /\ script \in Scenarios => ~interrupted /\ Resting({"active"})

\* Places of a scenario where the controller waits for no sink, where its
\* first command has been sent, and where it has been brought to rest.
Started == \/ stage \in {"moved", "ending", "tick"}
           \/ script = "maximum" /\ stage = "ticked" /\ testTime < MaxMovement
AtRest == \/ stage \in {"finish", "done"}
          \/ stage = "ticked" /\ (script = "release" \/ testTime >= MaxMovement)

ScenarioStages == {"connect", "push", "move", "moved", "ending", "tick", "ticked", "finish", "done"}

ScenarioPlace ==
    /\ stage \in ScenarioStages
    /\ stage \notin {"moved", "ticked", "finish"} => Idle
    /\ stage \in {"connect", "push", "move"} => heldAge = None /\ sendAge = None
    /\ stage \in {"connect", "push", "move", "moved"} => testTime = 0
    /\ stage = "connect" => safety = "disabled"
    /\ stage \in {"push", "move"} => safety = "armed" /\ ~neutral
    /\ stage = "move" => pushed
    /\ stage \in {"tick", "ticked"} => script \in {"release", "maximum"}
    /\ stage = "tick" => (pushed <=> script = "maximum")

\* A scenario's first command leaves an active controller or a faulted one.
ScenarioState ==
    /\ Started /\ Idle => safety \in {"active", "fault"}
    /\ Started /\ call.send = "zero" => call.then = "fault"
    /\ AtRest => safety # "active" /\ call.send # "drive"

\* The ages keep up with the scenario's own clock.
ScenarioTime ==
    /\ script = "watchdog" /\ stage \in {"move", "moved"} => inputAge = testTime
    /\ script = "watchdog" /\ stage = "ending" =>
           due = Watchdog + 1 /\ inputAge = testTime /\ testTime <= due
    /\ script = "maximum" /\ stage = "ending" => testTime <= due /\ due <= MaxMovement
    /\ script = "maximum" /\ stage \in {"moved", "ending", "tick", "ticked"}
           /\ (call.send = "drive" \/ safety = "active") => heldAge = testTime
    /\ script = "maximum" /\ stage \in {"tick", "ticked"} =>
           inputAge = 0 /\ testTime <= MaxMovement

ScenarioInv == script \in Scenarios => ScenarioPlace /\ ScenarioState /\ ScenarioTime

ScriptOK == /\ script \in {"test"} \cup Scenarios
            /\ testTime \in Nat /\ interrupted \in BOOLEAN
            /\ script \in Scenarios => due \in Nat

ScriptInv == ScriptOK /\ Stands /\ ScenarioInv

-----------------------------------------------------------------------------
(* The window.                                                              *)

\* The window's mock controller: no send fails, and the tick looks at the age
\* of a movement before every tenth of a second that passes.
WindowTurns ==
    /\ safety # "fault" /\ (call.send = "zero" => call.then # "fault")
    /\ control = "live" => safety = "disabled" /\ Idle
    /\ out = "zero" => turning = 0
    /\ out = "drive" => heldAge # None /\ turning <= heldAge
    /\ (call.send = "drive" \/ (Idle /\ out = "drive")) /\ ~tickDue => heldAge < MaxMovement

InputOK == /\ control \in {"live", "mock"}
           /\ touch \in [id : BOOLEAN, active : BOOLEAN]
           /\ latest \in [active : BOOLEAN, stop : BOOLEAN]
           /\ quitting \in BOOLEAN /\ missed \in BOOLEAN /\ tickDue \in BOOLEAN

\* Unless a loss of the focus was ignored, the program knows of no key that is
\* up and of no touch that is over.
KnownInput == /\ touch.active => touch.id /\ finger = "out"
              /\ ~missed => pressed \subseteq held
              /\ ~missed /\ ~focused => pressed = {}

\* What the input that is repeated rests on: a touch or a key the program knows
\* of, and after a stop key, a touch alone.
BackedLive == ~quitting /\ ~missed /\ control = "live" /\ latest.active =>
                  touch.active \/ pressed # {}
BackedMock == ~quitting /\ ~missed /\ control = "mock" /\ pushed =>
                  /\ call.send # "zero" => touch.active \/ (pressed # {} /\ flags = {})
                  /\ held # {} \/ finger = "out"

GhostInv == InputOK /\ KnownInput /\ BackedLive /\ BackedMock

PartOK == /\ part # "script" => script = "test" /\ ~interrupted /\ stage = "connect"
          /\ part = "script" => control = "live"
          /\ part = "window" => WindowTurns

MotionInv == SafetyInv /\ ScriptInv /\ GhostInv /\ PartOK

-----------------------------------------------------------------------------
(* The scripts: proofs.                                                     *)

\* No step changes the script, and only a test can be cancelled.
LEMMA TestFrame ==
  ASSUME TestNext
  PROVE  /\ UNCHANGED script
         /\ UNCHANGED interrupted \/ (script = "test" /\ interrupted' = TRUE)
<1> USE DEF To, SleepFor, scriptVars, testVars
<1>1. CASE Ready \/ NotReady \/ Push \/ Move \/ Moved
  BY <1>1 DEF Ready, NotReady, Push, Move, Moved
<1>2. CASE LetGo \/ FirstZero \/ Rest500 \/ SecondZero \/ Stopped \/ Hangup \/ Interrupt
  BY <1>2 DEF LetGo, FirstZero, Rest500, SecondZero, Stopped, Hangup, Interrupt
<1>3. CASE ScenarioStep
  BY <1>3 DEF ScenarioStep, Ending, LastTick, Ticked, Finished
<1>4. CASE SendEnds \/ TimePasses \/ TestDone
  BY <1>4 DEF SendEnds, TimePasses, TestDone
<1> QED
  BY <1>1, <1>2, <1>3, <1>4 DEF TestNext

\* What a step of a script asks of the controller: a test is never
\* disconnected, and the mock sink never fails a zero command.
LEMMA TestCalls ==
  ASSUME TestNext
  PROVE  \/ Ordinary \/ UNCHANGED safetyVars
         \/ script \in Scenarios /\ Disconnect
         \/ script = "test" /\ ZeroFails
         \/ script = "test" /\ SendCancelled /\ interrupted'
<1>1. CASE Ready \/ NotReady \/ Push \/ Move \/ Moved
  BY <1>1 DEF Ready, NotReady, Push, Move, Moved, Ordinary
<1>2. CASE LetGo \/ FirstZero \/ Rest500 \/ SecondZero \/ Stopped \/ Hangup
  BY <1>2, Zenon DEF LetGo, FirstZero, Rest500, SecondZero, Stopped, Hangup, StopIgnored, Ordinary
<1>3. CASE Interrupt
  BY <1>3 DEF Interrupt
<1>4. CASE ScenarioStep
  <2>1. CASE Ending
    BY <2>1 DEF Ending, Ordinary, Scenarios
  <2>2. CASE LastTick \/ Ticked \/ Finished
    BY <2>2 DEF LastTick, Ticked, Finished, Ordinary
  <2> QED
    BY <1>4, <2>1, <2>2 DEF ScenarioStep
<1>5. CASE SendEnds
  BY <1>5 DEF SendEnds, Ordinary
<1>6. CASE TimePasses
  BY <1>6 DEF TimePasses, Ordinary
<1>7. CASE TestDone
  BY <1>7 DEF TestDone
<1> QED
  BY <1>1, <1>2, <1>3, <1>4, <1>5, <1>6, <1>7 DEF TestNext

\* An ordinary step leaves the gimbal turning only while the controller is
\* active or a command is being sent.
LEMMA OrdinaryResting ==
  ASSUME SafetyInv, NEW S, "active" \in S, S \cap {"disabled", "disconnected"} = {},
         Resting(S), Ordinary
  PROVE  Resting(S)'
<1> USE CallForms, CallSend DEF SafetyInv, SafetyOK, Resting
<1>1. ASSUME NEW d \in Destinations, Zero(d)
      PROVE  Resting(S)'
  BY <1>1 DEF Zero, Idle
<1>2. CASE Arm
  BY <1>2 DEF Arm, Idle
<1>3. CASE \E isActive \in BOOLEAN : SubmitInput(isActive)
  BY <1>3 DEF SubmitInput, Idle
<1>4. CASE StopAtOnce \/ StopControl
  BY <1>1, <1>4 DEF StopAtOnce, StopControl, Destinations
<1>5. CASE Tick
  <2>1. CASE TickExpired \/ TickReleased \/ TickTooLong
    BY <1>1, <2>1 DEF TickExpired, TickReleased, TickTooLong, Destinations
  <2>2. CASE TickDrives \/ TickIdles
    BY <2>2 DEF TickDrives, TickIdles, Wanted, Live, safetyVars, Idle
  <2> QED
    BY <1>5, <2>1, <2>2 DEF Tick
<1>6. CASE DriveSentOn \/ ZeroSent
  BY <1>6 DEF DriveSentOn, ZeroSent, Obeyed, Idle
<1>7. CASE DriveFails
  BY <1>7 DEF DriveFails, Destinations, Idle
<1>8. CASE Elapse
  BY <1>8 DEF Elapse, Idle
<1> QED
  BY <1>2, <1>3, <1>4, <1>5, <1>6, <1>7, <1>8 DEF Ordinary

\* A disconnection leaves it turning only while it sends the zero command.
LEMMA DisconnectResting ==
  ASSUME SafetyInv, Resting({"active"}), Disconnect
  PROVE  Resting({"active"})'
BY CallForms DEF Resting, Disconnect, Zero, Idle, Destinations

LEMMA TestStands ==
  ASSUME SafetyInv, ScriptOK, Stands, TestNext
  PROVE  Stands'
<1>1. CASE script \in Scenarios
  <2>1. Ordinary \/ Disconnect \/ UNCHANGED safetyVars
    BY <1>1, TestCalls DEF Scenarios
  <2>2. Resting({"active"})'
    BY <1>1, <2>1, OrdinaryResting, DisconnectResting DEF Stands, Resting, safetyVars, Idle
  <2>3. UNCHANGED <<script, interrupted>>
    BY <1>1, TestFrame DEF Scenarios
  <2> QED
    BY <1>1, <2>2, <2>3 DEF Stands, Resting
<1>2. CASE script = "test"
  <2> SUFFICES ASSUME ~interrupted' PROVE Resting({"active", "fault"})'
    BY <1>2, TestFrame DEF Stands, Resting, Scenarios
  <2>1. Resting({"active", "fault"})
    BY TestFrame DEF Stands, Resting
  <2>2. CASE Ordinary
    BY <2>1, <2>2, OrdinaryResting
  <2>3. CASE ZeroFails
    BY <2>3 DEF ZeroFails, Resting, Idle, NoCall, SafetyInv, SafetyOK, CallOK, CallState
  <2>4. CASE UNCHANGED safetyVars
    BY <2>1, <2>4 DEF safetyVars, Resting, Idle
  <2> QED
    BY <1>2, <2>2, <2>3, <2>4, TestCalls DEF Scenarios
<1> QED
  BY <1>1, <1>2 DEF ScriptOK

\* Every step of a scenario keeps what its places promise
\* (safety/mock_validation.py, with control/fail_closed.py).
LEMMA ScenarioKept ==
  ASSUME SafetyInv, ScriptOK, ScenarioInv, script \in Scenarios, TestNext
  PROVE  ScenarioInv'
<1>0. SafetyInv'
  BY SafetyStep, TestCalls
<1>1. UNCHANGED script
  BY TestFrame
<1> USE FailClosedAssumption, CallForms, CallSend
    DEF SafetyInv, SafetyOK, CallState, ScriptOK, ScenarioInv, ScenarioPlace, ScenarioState,
        ScenarioTime, Started, AtRest, ScenarioStages, Scenarios, ControlState, None,
        scriptVars, safetyVars
<1>2. CASE Ready
  BY <1>1, <1>2 DEF Ready, Arm, To, Idle
<1>3. CASE Push
  BY <1>1, <1>3 DEF Push, SubmitInput, To, Idle
<1>4. CASE Move
  <2>1. TickDrives /\ UNCHANGED <<testTime, due>> /\ stage' = "moved"
    BY <1>4 DEF Move, To, Tick, TickExpired, TickReleased, TickTooLong, TickIdles,
       Live, Wanted, Expired, HeldTooLong
  <2> QED
    BY <1>1, <1>4, <2>1 DEF Move, TickDrives, Idle
<1>5. CASE Moved
  <2>1. CASE script \in {"release", "stop", "disconnect"}
    BY <1>1, <1>5, <2>1 DEF Moved, To, Idle
  <2>2. CASE script = "watchdog"
    BY <1>1, <1>5, <2>2 DEF Moved, SleepFor, Idle
  <2>3. CASE script = "maximum"
    <3>1. MaxMovement \div 2 \in 0..MaxMovement
      OBVIOUS
    <3> QED
      BY <1>1, <1>5, <2>3, <3>1 DEF Moved, SleepFor, Idle
  <2> QED
    BY <2>1, <2>2, <2>3
<1>6. CASE Ending
  <2>1. CASE script = "release" /\ SubmitInput(FALSE) /\ To("tick")
    BY <1>1, <1>6, <2>1 DEF Ending, SubmitInput, To, Idle
  <2>2. CASE script = "stop" /\ StopAtOnce /\ To("finish")
    BY <1>1, <1>6, <2>2 DEF Ending, StopAtOnce, Zero, To, Destinations
  <2>3. CASE script = "disconnect" /\ Disconnect /\ To("finish")
    BY <1>1, <1>6, <2>3 DEF Ending, Disconnect, Zero, To, Destinations, Idle
  <2>4. CASE script = "watchdog" /\ Tick /\ To("finish")
    BY <1>1, <1>6, <2>4 DEF Ending, To, Slept, Destinations, Tick, TickExpired, TickReleased,
       TickTooLong, TickDrives, TickIdles, Zero, Live, Wanted, Expired, HeldTooLong, Idle
  <2>5. CASE script = "maximum" /\ SubmitInput(TRUE) /\ To("tick")
    BY <1>1, <1>6, <2>5 DEF Ending, SubmitInput, To, Idle
  <2> QED
    BY <1>6, <2>1, <2>2, <2>3, <2>4, <2>5 DEF Ending
<1>7. CASE LastTick
  <2>1. CASE TickExpired \/ TickReleased \/ TickTooLong
    <3>1. safety = "active" /\ (script = "maximum" => testTime >= MaxMovement)
      BY <1>7, <2>1 DEF LastTick, TickExpired, TickReleased, TickTooLong, Live, Wanted, Expired,
         HeldTooLong, Idle
    <3>2. /\ call'.send = "zero" /\ call' # NoCall /\ safety' = "stopping"
          /\ UNCHANGED <<pushed, inputAge, sendAge, heldAge>>
      BY <2>1 DEF TickExpired, TickReleased, TickTooLong, Zero, Destinations
    <3> QED
      BY <1>1, <1>7, <3>1, <3>2 DEF LastTick, To, Idle
  <2>2. CASE TickDrives
    BY <1>1, <1>7, <2>2 DEF LastTick, To, TickDrives, Live, Wanted, HeldTooLong, Idle
  <2>3. CASE TickIdles
    BY <1>1, <1>7, <2>3 DEF LastTick, To, TickIdles, Live, Expired, Idle
  <2> QED
    BY <1>7, <2>1, <2>2, <2>3 DEF LastTick, Tick
<1>8. CASE Ticked
  BY <1>1, <1>8 DEF Ticked, To, SleepFor, Idle
<1>9. CASE Finished
  BY <1>1, <1>9 DEF Finished, To, Idle
<1>10. CASE SendEnds
  <2>1. CASE DriveSentOn
    BY <1>1, <1>10, <2>1 DEF SendEnds, DriveSentOn, Obeyed, testVars, Idle
  <2>2. CASE ZeroSent
    BY <1>1, <1>10, <2>2 DEF SendEnds, ZeroSent, Obeyed, testVars, Idle, Destinations
  <2>3. CASE DriveFails
    <3>1. call'.send = "zero" /\ call'.then = "fault" /\ call' # NoCall
      BY <2>3 DEF DriveFails, Destinations
    <3> QED
      BY <1>1, <1>10, <2>3, <3>1 DEF SendEnds, DriveFails, testVars, Idle
  <2> QED
    BY <1>10, <2>1, <2>2, <2>3 DEF SendEnds
<1>11. CASE TimePasses
  BY <1>1, <1>11 DEF TimePasses, Elapse, Older, Slept, Idle
<1>12. CASE TestDone
  BY <1>1, <1>12 DEF TestDone, testVars, Idle
<1>13. CASE \/ NotReady \/ LetGo \/ FirstZero \/ Rest500 \/ SecondZero \/ Stopped
            \/ Hangup \/ Interrupt
  BY <1>13 DEF NotReady, LetGo, FirstZero, Rest500, SecondZero, Stopped, Hangup, Interrupt
<1> QED
  BY <1>2, <1>3, <1>4, <1>5, <1>6, <1>7, <1>8, <1>9, <1>10, <1>11, <1>12, <1>13
  DEF TestNext, ScenarioStep

-----------------------------------------------------------------------------
(* The window: proofs.                                                      *)

\* What an input asks of the mock controller; the live session has its own.
LEMMA SubmitCalls ==
  ASSUME NEW value \in [active : BOOLEAN, stop : BOOLEAN], control \in {"live", "mock"}, Submit(value)
  PROVE  /\ latest' = value
         /\ control = "live" => UNCHANGED safetyVars
         /\ control = "mock" => \/ value.stop /\ StopAtOnce
                                \/ ~value.stop /\ SubmitInput(value.active)
BY DEF Submit

\* Every input is a pair of flags.
LEMMA InputForms ==
  /\ Neutral \in [active : BOOLEAN, stop : BOOLEAN] /\ ~Neutral.active /\ ~Neutral.stop
  /\ Stop \in [active : BOOLEAN, stop : BOOLEAN] /\ ~Stop.active /\ Stop.stop
  /\ \A keys, latched :
        /\ Keyed(keys, latched) \in [active : BOOLEAN, stop : BOOLEAN]
        /\ Keyed(keys, latched).active => keys # {}
        /\ Keyed(keys, latched).stop <=> latched # {}
  /\ \A t \in [id : BOOLEAN, active : BOOLEAN] :
        /\ Touched(t) \in [active : BOOLEAN, stop : BOOLEAN]
        /\ Touched(t).active = t.active /\ ~Touched(t).stop
  /\ NoTouch \in [id : BOOLEAN, active : BOOLEAN] /\ ~NoTouch.active /\ ~NoTouch.id
<1>1. /\ Neutral \in [active : BOOLEAN, stop : BOOLEAN] /\ ~Neutral.active /\ ~Neutral.stop
      /\ Stop \in [active : BOOLEAN, stop : BOOLEAN] /\ ~Stop.active /\ Stop.stop
      /\ NoTouch \in [id : BOOLEAN, active : BOOLEAN] /\ ~NoTouch.active /\ ~NoTouch.id
  BY DEF Neutral, Stop, NoTouch
<1>2. ASSUME NEW keys, NEW latched
      PROVE  /\ Keyed(keys, latched) \in [active : BOOLEAN, stop : BOOLEAN]
             /\ Keyed(keys, latched).active => keys # {}
             /\ Keyed(keys, latched).stop <=> latched # {}
  <2>1. (Cardinality(keys) = 1) \in BOOLEAN /\ (latched # {}) \in BOOLEAN
    OBVIOUS
  <2>2. Cardinality(keys) = 1 => keys # {}
    BY FS_EmptySet
  <2> QED
    BY <2>1, <2>2 DEF Keyed
<1>3. ASSUME NEW t \in [id : BOOLEAN, active : BOOLEAN]
      PROVE  /\ Touched(t) \in [active : BOOLEAN, stop : BOOLEAN]
             /\ Touched(t).active = t.active /\ ~Touched(t).stop
  BY DEF Touched
<1> QED
  BY <1>1, <1>2, <1>3

\* What a drag leaves of the touch, if it had one.
LEMMA DragTouch ==
  ASSUME InputOK, NEW f \in Fingers \ {"up"}
  PROVE  /\ DragBegin(f) => /\ touch' \in [id : BOOLEAN, active : BOOLEAN]
                            /\ touch'.id /\ (touch'.active <=> f = "out")
         /\ DragUpdate(f) => /\ touch' \in [id : BOOLEAN, active : BOOLEAN]
                             /\ touch.id => touch'.id /\ (touch'.active <=> f = "out")
                             /\ ~touch.id => UNCHANGED touch
<1>1. (f = "out") \in BOOLEAN
  OBVIOUS
<1>2. ASSUME DragBegin(f)
      PROVE  /\ touch' \in [id : BOOLEAN, active : BOOLEAN]
             /\ touch'.id /\ (touch'.active <=> f = "out")
  BY <1>1, <1>2 DEF DragBegin
<1>3. ASSUME DragUpdate(f)
      PROVE  /\ touch' \in [id : BOOLEAN, active : BOOLEAN]
             /\ touch.id => touch'.id /\ (touch'.active <=> f = "out")
             /\ ~touch.id => UNCHANGED touch
  BY <1>1, <1>3 DEF DragUpdate, InputOK
<1> QED
  BY <1>2, <1>3

\* What an event of the window asks of the controller: to hold an input or to
\* stop; mock sends do not fail.
Asked == \/ StopAtOnce \/ StopControl
         \/ \E isActive \in BOOLEAN : SubmitInput(isActive)
         \/ DriveSentOn \/ ZeroSent

LEMMA EventCalls ==
  ASSUME InputOK, InputEvent, UNCHANGED control
  PROVE  /\ control = "live" => DriveSentOn \/ ZeroSent \/ UNCHANGED safetyVars
         /\ Asked \/ UNCHANGED safetyVars
<1> USE SubmitCalls, InputForms DEF InputOK
<1>0. ASSUME NEW value \in [active : BOOLEAN, stop : BOOLEAN], Submit(value)
      PROVE  /\ control = "live" => UNCHANGED safetyVars
             /\ Asked \/ UNCHANGED safetyVars
  <2>1. CASE control = "live"
    BY <1>0, <2>1
  <2>2. CASE control = "mock"
    BY <1>0, <2>2 DEF Asked
  <2> QED
    BY <2>1, <2>2
<1>1. ASSUME NEW k \in Keys, KeyDown(k) \/ KeyUp(k)
      PROVE  /\ control = "live" => UNCHANGED safetyVars
             /\ Asked \/ UNCHANGED safetyVars
  BY <1>0, <1>1 DEF KeyDown, KeyUp
<1>2. ASSUME NEW f \in Fingers \ {"up"}, DragBegin(f) \/ DragUpdate(f)
      PROVE  /\ control = "live" => UNCHANGED safetyVars
             /\ Asked \/ UNCHANGED safetyVars
  <2>1. touch' \in [id : BOOLEAN, active : BOOLEAN]
    BY <1>2, DragTouch
  <2> QED
    BY <1>0, <1>2, <2>1 DEF DragBegin, DragUpdate
<1>3. CASE Space \/ DragEnd \/ CameraAction
  BY <1>0, <1>3 DEF Space, DragEnd, CameraAction
<1>4. CASE FocusLost \/ FocusGained \/ ScreenStop \/ RequestStop \/ WindowGone
  BY <1>4 DEF FocusLost, FocusGained, ScreenStop, RequestStop, WindowGone, Asked
<1>5. CASE ExitKey
  BY <1>0, <1>5 DEF ExitKey, Asked
<1>6. CASE MockSent
  BY <1>6 DEF MockSent, Asked
<1> QED
  BY <1>1, <1>2, <1>3, <1>4, <1>5, <1>6 DEF InputEvent

\* What any step of the window asks of the controller.
LEMMA InputCalls ==
  ASSUME InputOK, InputNext
  PROVE  UNCHANGED control /\ (Ordinary \/ UNCHANGED safetyVars)
<1>1. CASE InputEvent
  BY <1>1, EventCalls DEF InputNext, Asked, Ordinary
<1>2. CASE GuiTick
  BY <1>2 DEF GuiTick, Ordinary, InputNext
<1>3. CASE TenthPasses
  BY <1>3 DEF TenthPasses, Ordinary, InputNext
<1> QED
  BY <1>1, <1>2, <1>3 DEF InputNext

\* What an input does to the input the controller holds.
LEMMA SubmitHeld ==
  ASSUME NEW value \in [active : BOOLEAN, stop : BOOLEAN], control \in {"live", "mock"}, Submit(value)
  PROVE  /\ latest' = value
         /\ control = "mock" /\ value.stop => UNCHANGED pushed /\ call'.send = "zero"
         /\ control = "mock" /\ ~value.stop => pushed' = value.active /\ UNCHANGED call
         /\ control = "mock" => Idle
BY SubmitCalls, CallForms DEF StopAtOnce, Zero, SubmitInput, Destinations

LEMMA StopHeld == StopAtOnce => UNCHANGED pushed /\ call'.send = "zero"
BY CallForms DEF StopAtOnce, Zero, Destinations

LEMMA TickHeld == Tick => UNCHANGED pushed /\ Idle
BY DEF Tick, TickExpired, TickReleased, TickTooLong, TickDrives, TickIdles, Zero, Wanted, Live,
   safetyVars

\* The types of the window's variables are kept.
LEMMA InputTypes ==
  ASSUME InputOK, InputNext
  PROVE  InputOK'
<1>0. UNCHANGED control
  BY InputCalls
<1> USE SubmitHeld, InputForms DEF InputOK, worldVars, guiVars
<1>1. ASSUME NEW k \in Keys, KeyDown(k) \/ KeyUp(k), UNCHANGED tickDue
      PROVE  InputOK'
  <2>1. latest' \in [active : BOOLEAN, stop : BOOLEAN]
    <3>1. Keyed(pressed', flags) \in [active : BOOLEAN, stop : BOOLEAN]
      OBVIOUS
    <3> QED
      BY <1>1, <3>1, Zenon DEF KeyDown, KeyUp
  <2> QED
    BY <1>0, <1>1, <2>1, Zenon DEF KeyDown, KeyUp
<1>2. ASSUME NEW f \in Fingers \ {"up"}, DragBegin(f) \/ DragUpdate(f), UNCHANGED tickDue
      PROVE  InputOK'
  <2>1. touch' \in [id : BOOLEAN, active : BOOLEAN]
    BY <1>2, DragTouch
  <2>2. Touched(touch') \in [active : BOOLEAN, stop : BOOLEAN]
    BY <2>1
  <2>3. latest' \in [active : BOOLEAN, stop : BOOLEAN]
    BY <1>2, <2>2, Zenon DEF DragBegin, DragUpdate
  <2> QED
    BY <1>0, <1>2, <2>1, <2>3, Zenon DEF DragBegin, DragUpdate
<1>3. CASE (Space \/ DragEnd \/ CameraAction) /\ UNCHANGED tickDue
  BY <1>0, <1>3, Zenon DEF Space, DragEnd, CameraAction
<1>4. CASE (FocusLost \/ FocusGained \/ ScreenStop) /\ UNCHANGED tickDue
  BY <1>0, <1>4, Zenon DEF FocusLost, FocusGained, ScreenStop
<1>5. CASE (ExitKey \/ RequestStop \/ MockSent \/ WindowGone) /\ UNCHANGED tickDue
  BY <1>0, <1>5, Zenon DEF ExitKey, RequestStop, MockSent, WindowGone
<1>6. CASE GuiTick
  <2>1. latest' \in [active : BOOLEAN, stop : BOOLEAN]
    <3>1. [active |-> TRUE, stop |-> FALSE] \in [active : BOOLEAN, stop : BOOLEAN]
      OBVIOUS
    <3> QED
      BY <1>6, <3>1, Zenon DEF GuiTick
  <2>2. UNCHANGED <<touch, quitting, missed>> /\ tickDue' = FALSE
    BY <1>6 DEF GuiTick
  <2> QED
    BY <1>0, <2>1, <2>2, Zenon
<1>7. CASE TenthPasses
  BY <1>0, <1>7, Zenon DEF TenthPasses
<1> QED
  BY <1>1, <1>2, <1>3, <1>4, <1>5, <1>6, <1>7 DEF InputNext, InputEvent

\* The program knows of no key that is up and of no touch that is over.
LEMMA KnownStep ==
  ASSUME InputOK, KnownInput, InputNext
  PROVE  KnownInput'
<1> USE InputForms DEF KnownInput, worldVars, guiVars
<1>1. ASSUME NEW k \in Keys, KeyDown(k) \/ KeyUp(k)
      PROVE  KnownInput'
  <2>1. UNCHANGED <<touch, finger, focused, missed>>
    BY <1>1 DEF KeyDown, KeyUp
  <2>2. CASE KeyDown(k)
    <3>1. held' = held \cup {k} /\ pressed' \in {pressed, pressed \cup {k}} /\ focused
      BY <2>2 DEF KeyDown
    <3> QED
      BY <2>1, <3>1
  <2>3. CASE KeyUp(k)
    <3>1. held' = held \ {k} /\ pressed' = IF focused THEN pressed \ {k} ELSE pressed
      BY <2>3 DEF KeyUp
    <3> QED
      BY <2>1, <3>1
  <2> QED
    BY <1>1, <2>2, <2>3
<1>2. ASSUME NEW f \in Fingers \ {"up"}, DragBegin(f)
      PROVE  KnownInput'
  BY <1>2, DragTouch DEF DragBegin
<1>3. ASSUME NEW f \in Fingers \ {"up"}, DragUpdate(f)
      PROVE  KnownInput'
  BY <1>3, DragTouch DEF DragUpdate
<1>4. CASE Space \/ ExitKey
  <2>1. pressed' = {} /\ UNCHANGED <<held, finger, focused, touch, missed>>
    BY <1>4 DEF Space, ExitKey
  <2> QED
    BY <2>1
<1>5. CASE DragEnd
  <2>1. touch' = NoTouch /\ UNCHANGED <<held, focused, pressed, missed>>
    BY <1>5 DEF DragEnd
  <2> QED
    BY <2>1
<1>8. CASE CameraAction
  <2>1. touch' = NoTouch /\ pressed' = {}
    BY <1>8 DEF CameraAction
  <2> QED
    BY <2>1
<1>9. CASE ScreenStop
  <2>1. UNCHANGED <<touch, finger, held, focused, pressed, missed>>
    BY <1>9 DEF ScreenStop
  <2> QED
    BY <2>1
<1>10. CASE FocusLost
  <2>1. CASE quitting \/ (hosted /\ ~shown)
    <3>1. missed' = TRUE
      BY <1>10, <2>1, Zenon DEF FocusLost
    <3>2. UNCHANGED <<touch, finger>>
      BY <1>10, <2>1 DEF FocusLost
    <3> QED
      BY <3>1, <3>2
  <2>2. CASE ~(quitting \/ (hosted /\ ~shown))
    <3>1. pressed' = {} /\ touch' = NoTouch
      BY <1>10, <2>2 DEF FocusLost
    <3> QED
      BY <3>1
  <2> QED
    BY <2>1, <2>2
<1>6. CASE RequestStop \/ MockSent \/ WindowGone \/ FocusGained
  <2>1. UNCHANGED <<held, finger, pressed, touch, missed>> /\ (focused' \/ focused' = focused)
    BY <1>6, Zenon DEF RequestStop, MockSent, WindowGone, FocusGained
  <2> QED
    BY <2>1, Zenon
<1>7. CASE GuiTick \/ TenthPasses
  <2>1. UNCHANGED <<held, finger, focused, pressed, touch, missed>>
    BY <1>7 DEF GuiTick, TenthPasses
  <2> QED
    BY <2>1
<1> QED
  BY <1>1, <1>2, <1>3, <1>4, <1>5, <1>6, <1>7, <1>8, <1>9, <1>10 DEF InputNext, InputEvent

\* The input repeated to the live session rests on a key or a touch the program
\* knows of.
LEMMA BackedLiveStep ==
  ASSUME GhostInv, InputNext, control = "live"
  PROVE  BackedLive'
<1>0. InputOK
  BY DEF GhostInv
<1> SUFFICES ASSUME ~quitting', ~missed', latest'.active
             PROVE  touch'.active \/ pressed' # {}
  BY DEF BackedLive
<1>1. ASSUME NEW k \in Keys, KeyDown(k) \/ KeyUp(k)
      PROVE  touch'.active \/ pressed' # {}
  <2>1. UNCHANGED <<touch, quitting, missed>>
    BY <1>1 DEF KeyDown, KeyUp
  <2>2. UNCHANGED <<pressed, latest>> \/ Submit(Keyed(pressed', flags))
    BY <1>1 DEF KeyDown, KeyUp
  <2>3. CASE UNCHANGED <<pressed, latest>>
    BY <2>1, <2>3 DEF GhostInv, BackedLive
  <2>4. CASE Submit(Keyed(pressed', flags))
    BY <2>4, InputForms DEF Submit
  <2> QED
    BY <2>2, <2>3, <2>4
<1>2. ASSUME NEW f \in Fingers \ {"up"}, DragBegin(f) \/ DragUpdate(f)
      PROVE  touch'.active \/ pressed' # {}
  BY <1>0, <1>2, DragTouch, InputForms DEF DragBegin, DragUpdate, Submit
<1>3. CASE Space \/ DragEnd \/ CameraAction
  BY <1>3, InputForms DEF Space, DragEnd, CameraAction, Submit
<1>4. CASE FocusLost \/ ScreenStop \/ ExitKey \/ RequestStop
  BY <1>4, InputForms DEF FocusLost, ScreenStop, ExitKey, RequestStop, Submit
<1>5. CASE FocusGained \/ MockSent \/ WindowGone \/ GuiTick \/ TenthPasses
  <2>1. UNCHANGED <<touch, pressed, quitting, missed>>
    BY <1>5 DEF FocusGained, MockSent, WindowGone, GuiTick, TenthPasses, guiVars
  <2>2. latest.active
    BY <1>5 DEF FocusGained, MockSent, WindowGone, GuiTick, TenthPasses, guiVars
  <2> QED
    BY <2>1, <2>2 DEF GhostInv, BackedLive
<1> QED
  BY <1>1, <1>2, <1>3, <1>4, <1>5 DEF InputNext, InputEvent

\* The input the mock controller holds rests on one the program knows of, too,
\* or its zero command is on its way; and something is really held.
LEMMA BackedMockStep ==
  ASSUME SafetyInv, GhostInv, InputNext, control = "mock"
  PROVE  BackedMock'
<1>0. InputOK /\ KnownInput /\ BackedMock /\ CallOK
  BY DEF GhostInv, SafetyInv, SafetyOK
<1> SUFFICES ASSUME ~quitting', ~missed', pushed'
             PROVE  /\ call'.send # "zero" => touch'.active \/ (pressed' # {} /\ flags' = {})
                    /\ held' # {} \/ finger' = "out"
  BY DEF BackedMock
<1> DEFINE Goal == /\ call'.send # "zero" => touch'.active \/ (pressed' # {} /\ flags' = {})
                   /\ held' # {} \/ finger' = "out"
<1>1. ASSUME NEW k \in Keys, KeyDown(k)
      PROVE  Goal
  <2>1. UNCHANGED <<touch, finger, flags, quitting, missed>> /\ held' # {}
    BY <1>1 DEF KeyDown
  <2>2. CASE UNCHANGED <<pressed, latest, safetyVars>>
    BY <1>0, <2>1, <2>2 DEF BackedMock, safetyVars
  <2>3. CASE Submit(Keyed(pressed', flags))
    BY <1>0, <2>1, <2>3, SubmitHeld, InputForms
  <2> QED
    BY <1>1, <2>2, <2>3 DEF KeyDown
<1>2. ASSUME NEW k \in Keys, KeyUp(k)
      PROVE  Goal
  <2>1. UNCHANGED <<touch, finger, flags, quitting, missed>> /\ call.send # "zero"
    BY <1>0, <1>2, CallSend DEF KeyUp, Heard
  <2>2. CASE ~focused
    <3>1. UNCHANGED <<pressed, call, pushed>>
      BY <1>2, <2>2 DEF KeyUp, safetyVars
    <3>2. pressed = {}
      BY <1>0, <2>1, <2>2 DEF KnownInput
    <3>3. touch.active
      BY <1>0, <2>1, <3>1, <3>2 DEF BackedMock
    <3> QED
      BY <1>0, <2>1, <3>3 DEF KnownInput
  <2>3. CASE focused
    <3>1. Submit(Keyed(pressed', flags)) /\ pressed' = pressed \ {k} /\ held' = held \ {k}
      BY <1>2, <2>3 DEF KeyUp
    <3>2. CASE flags = {}
      <4>1. pushed' = Keyed(pressed', flags).active
        BY <1>0, <3>1, <3>2, SubmitHeld, InputForms
      <4>2. pressed' # {} /\ pressed' \subseteq held'
        BY <1>0, <2>1, <3>1, <4>1, InputForms DEF KnownInput
      <4> QED
        BY <2>1, <3>2, <4>2
    <3>3. CASE flags # {}
      BY <1>0, <2>1, <3>1, <3>3, SubmitHeld, InputForms DEF BackedMock, KnownInput
    <3> QED
      BY <3>2, <3>3
  <2> QED
    BY <2>2, <2>3
<1>3. ASSUME NEW f \in Fingers \ {"up"}, DragBegin(f) \/ DragUpdate(f)
      PROVE  Goal
  <2>1. /\ touch' \in [id : BOOLEAN, active : BOOLEAN]
        /\ touch'.active => finger' = "out"
    BY <1>0, <1>3, DragTouch DEF DragBegin, DragUpdate, KnownInput
  <2>2. Submit(Touched(touch'))
    BY <1>3 DEF DragBegin, DragUpdate
  <2>3. /\ Touched(touch') \in [active : BOOLEAN, stop : BOOLEAN]
        /\ Touched(touch').active = touch'.active /\ ~Touched(touch').stop
    BY <2>1, InputForms
  <2>4. pushed' = touch'.active
    BY <1>0, <2>2, <2>3, SubmitHeld DEF InputOK
  <2> QED
    BY <2>1, <2>4
<1>4. CASE DragEnd \/ CameraAction
  BY <1>0, <1>4, SubmitHeld, InputForms DEF DragEnd, CameraAction, InputOK
<1>5. CASE Space
  BY <1>0, <1>5, SubmitHeld, InputForms DEF Space, InputOK, BackedMock, worldVars
<1>6. CASE FocusLost \/ ScreenStop
  BY <1>0, <1>6, StopHeld DEF FocusLost, ScreenStop, BackedMock, worldVars
<1>7. CASE ExitKey \/ RequestStop
  BY <1>0, <1>7, StopHeld, SubmitHeld, InputForms DEF ExitKey, RequestStop, BackedMock, worldVars
<1>8. CASE FocusGained \/ WindowGone \/ TenthPasses
  BY <1>0, <1>8 DEF FocusGained, WindowGone, TenthPasses, Elapse, BackedMock, worldVars, guiVars,
     safetyVars
<1>9. CASE MockSent
  BY <1>0, <1>9 DEF MockSent, DriveSentOn, ZeroSent, BackedMock, worldVars, guiVars
<1>10. CASE GuiTick
  BY <1>0, <1>10, TickHeld, CallSend DEF GuiTick, BackedMock, worldVars
<1> QED
  BY <1>1, <1>2, <1>3, <1>4, <1>5, <1>6, <1>7, <1>8, <1>9, <1>10 DEF InputNext, InputEvent

LEMMA GhostStep ==
  ASSUME SafetyInv, GhostInv, InputNext
  PROVE  GhostInv'
<1>1. InputOK' /\ KnownInput' /\ UNCHANGED control
  BY InputTypes, KnownStep, InputCalls DEF GhostInv
<1>2. CASE control = "live"
  BY <1>1, <1>2, BackedLiveStep DEF GhostInv, BackedMock
<1>3. CASE control = "mock"
  BY <1>1, <1>3, BackedMockStep DEF GhostInv, BackedLive
<1> QED
  BY <1>2, <1>3 DEF GhostInv, InputOK

\* The mock controller is ticked before every tenth of a second that passes, and
\* the tick ends a movement that has reached the limit.
LEMMA TurnsStep ==
  ASSUME SafetyInv, InputOK, Resting({"active", "fault"}), WindowTurns, InputNext
  PROVE  WindowTurns'
<1>0. UNCHANGED control /\ SafetyInv'
  BY InputCalls, SafetyStep
<1> USE FailClosedAssumption, CallForms, CallSend
    DEF SafetyInv, SafetyOK, CallState, WindowTurns, Resting, None
<1>1. CASE InputEvent /\ UNCHANGED tickDue
  <2>1. CASE UNCHANGED safetyVars
    BY <1>0, <1>1, <2>1 DEF safetyVars, Idle
  <2>2. CASE StopAtOnce \/ StopControl
    <3>1. /\ call' = Zeroing("disabled") /\ safety' = "stopping" /\ Idle
          /\ UNCHANGED <<heldAge, out, turning>>
      BY <2>2 DEF StopAtOnce, StopControl, Zero
    <3>2. control # "live"
      BY <1>0, <1>1, <3>1, EventCalls DEF DriveSentOn, ZeroSent, safetyVars
    <3> QED
      BY <1>0, <3>1, <3>2 DEF Destinations, Idle
  <2>3. CASE \E isActive \in BOOLEAN : SubmitInput(isActive)
    BY <1>0, <1>1, <2>3 DEF SubmitInput, Idle
  <2>4. CASE DriveSentOn
    BY <1>0, <1>1, <2>4 DEF DriveSentOn, Obeyed, Idle
  <2>5. CASE ZeroSent
    BY <1>0, <1>1, <2>5 DEF ZeroSent, Obeyed, Idle, Destinations
  <2> QED
    BY <1>0, <1>1, <2>1, <2>2, <2>3, <2>4, <2>5, EventCalls DEF Asked
<1>2. CASE GuiTick /\ control = "live"
  BY <1>0, <1>2 DEF GuiTick, safetyVars, Idle
<1>3. CASE GuiTick /\ control = "mock"
  <2>1. CASE TickExpired \/ TickReleased \/ TickTooLong
    <3>1. /\ call' = Zeroing("armed") /\ safety' = "stopping"
          /\ UNCHANGED <<heldAge, out, turning>>
      BY <2>1 DEF TickExpired, TickReleased, TickTooLong, Zero
    <3> QED
      BY <1>0, <1>3, <3>1 DEF Destinations, Idle
  <2>2. CASE TickDrives
    BY <1>0, <1>3, <2>2 DEF GuiTick, TickDrives, HeldTooLong, Idle
  <2>3. CASE TickIdles
    BY <1>0, <1>3, <2>3 DEF GuiTick, TickIdles, Live, safetyVars, Idle
  <2> QED
    BY <1>3, <2>1, <2>2, <2>3 DEF GuiTick, Tick
<1>4. CASE TenthPasses
  BY <1>0, <1>4 DEF TenthPasses, Elapse, Older, Idle
<1> QED
  BY <1>1, <1>2, <1>3, <1>4 DEF InputNext, InputOK

-----------------------------------------------------------------------------
(* The three ways together.                                                 *)

LEMMA MotionInit == ControlInit => MotionInv
<1> SUFFICES ASSUME ControlInit PROVE MotionInv
  OBVIOUS
<1> USE FailClosedAssumption DEF ControlInit, FailClosedInit, TestInit, InputInit
<1>1. SafetyInv
  <2>1. pushed \in BOOLEAN /\ neutral \in BOOLEAN /\ CallOK
    BY DEF CallOK
  <2>2. inputAge \in None..Watchdog + 1 /\ sendAge \in None..1 /\ heldAge \in None..MaxMovement
    BY DEF None
  <2>3. safety \in ControlState /\ out \in {"drive", "zero"} /\ turning \in Nat /\ CallState
    BY CallForms DEF ControlState, CallState
  <2> QED
    BY <2>1, <2>2, <2>3 DEF SafetyInv, SafetyOK
<1>2. ScriptInv
  BY CallForms DEF ScriptInv, ScriptOK, Stands, Resting, ScenarioInv, ScenarioPlace, ScenarioState,
     ScenarioTime, Started, AtRest, ScenarioStages, Scenarios, Idle, None
<1>3. GhostInv
  BY InputForms DEF GhostInv, InputOK, KnownInput, BackedLive, BackedMock
<1>4. PartOK
  BY CallForms DEF PartOK, WindowTurns, Idle
<1> QED
  BY <1>1, <1>2, <1>3, <1>4 DEF MotionInv

\* The scripts' variables keep their types.
LEMMA ScriptTypes ==
  ASSUME ScriptOK, ScenarioInv, TestNext
  PROVE  ScriptOK'
<1> USE FailClosedAssumption DEF ScriptOK, To, SleepFor, scriptVars, testVars
<1>1. UNCHANGED script /\ interrupted' \in BOOLEAN
  BY TestFrame
<1>2. testTime' \in Nat /\ (script \in Scenarios => due' \in Nat)
  <2>1. CASE Ready \/ NotReady \/ Push \/ Move \/ LetGo \/ FirstZero \/ Hangup
    BY <2>1 DEF Ready, NotReady, Push, Move, LetGo, FirstZero, Hangup
  <2>2. CASE Moved
    <3>1. MaxMovement \div 2 \in 0..MaxMovement
      OBVIOUS
    <3>2. UNCHANGED testTime
      BY <2>2 DEF Moved
    <3>3. script \in Scenarios => due' \in {due, testTime + (Watchdog + 1), testTime + (MaxMovement \div 2)}
      BY <2>2 DEF Moved, Scenarios
    <3> QED
      BY <3>1, <3>2, <3>3
  <2>3. CASE Rest500 \/ SecondZero \/ Stopped \/ Interrupt
    BY <2>3 DEF Rest500, SecondZero, Stopped, Interrupt, ScenarioInv, ScenarioPlace, ScenarioStages
  <2>4. CASE Ending \/ LastTick \/ Finished
    BY <2>4 DEF Ending, LastTick, Finished
  <2>5. CASE Ticked
    BY <2>5 DEF Ticked
  <2>6. CASE SendEnds \/ TimePasses \/ TestDone
    BY <2>6 DEF SendEnds, TimePasses, TestDone
  <2> QED
    BY <2>1, <2>2, <2>3, <2>4, <2>5, <2>6 DEF TestNext, ScenarioStep
<1> QED
  BY <1>1, <1>2

\* A step that leaves the window and what the controller holds alone leaves its
\* invariant alone.
LEMMA GhostFrame ==
  ASSUME GhostInv, UNCHANGED inputVars, UNCHANGED safetyVars \/ control = "live"
  PROVE  GhostInv'
BY DEF GhostInv, InputOK, KnownInput, BackedLive, BackedMock, safetyVars, inputVars, worldVars, guiVars

LEMMA MotionStep ==
  ASSUME MotionInv, [ControlNext]_allVars
  PROVE  MotionInv'
<1> USE DEF MotionInv
<1>1. CASE part = "script" /\ TestNext /\ UNCHANGED <<oneShotVars, inputVars, part>>
  <2>1. SafetyInv'
    BY <1>1, SafetyStep, TestCalls
  <2>2. ScriptOK'
    BY <1>1, ScriptTypes DEF ScriptInv
  <2>3. Stands'
    BY <1>1, TestStands DEF ScriptInv
  <2>4. ScenarioInv'
    BY <1>1, TestFrame, ScenarioKept DEF ScriptInv, ScenarioInv
  <2>5. GhostInv'
    BY <1>1, GhostFrame DEF PartOK
  <2>6. PartOK'
    BY <1>1 DEF PartOK, inputVars
  <2> QED
    BY <2>1, <2>2, <2>3, <2>4, <2>5, <2>6 DEF ScriptInv
<1>2. CASE part = "window" /\ InputNext /\ UNCHANGED <<oneShotVars, testVars, part>>
  <2>1. SafetyInv' /\ GhostInv'
    BY <1>2, SafetyStep, InputCalls, GhostStep DEF GhostInv
  <2>2. Resting({"active", "fault"}) /\ Resting({"active", "fault"})' /\ script = "test"
    <3>1. Resting({"active", "fault"}) /\ script = "test"
      BY <1>2 DEF PartOK, ScriptInv, Stands
    <3>2. CASE Ordinary
      BY <3>1, <3>2, OrdinaryResting
    <3>3. CASE UNCHANGED safetyVars
      BY <3>1, <3>3 DEF Resting, Idle, safetyVars
    <3> QED
      BY <1>2, <3>1, <3>2, <3>3, InputCalls DEF GhostInv
  <2>3. ScriptInv'
    BY <1>2, <2>2 DEF ScriptInv, ScriptOK, Stands, ScenarioInv, Scenarios, testVars, scriptVars
  <2>4. PartOK'
    BY <1>2, <2>2, TurnsStep DEF PartOK, GhostInv, testVars, scriptVars
  <2> QED
    BY <2>1, <2>3, <2>4
<1>3. CASE UNCHANGED <<safetyVars, testVars, inputVars, part>>
  <2> USE <1>3 DEF safetyVars, testVars, scriptVars, inputVars, worldVars, guiVars
  <2>1. SafetyInv'
    BY SafetyStep DEF MotionInv
  <2>2. ScriptInv'
    BY DEF ScriptInv, ScriptOK, Stands, Resting, Idle, ScenarioInv, ScenarioPlace, ScenarioState,
       ScenarioTime, Started, AtRest
  <2>3. GhostInv'
    BY GhostFrame
  <2>4. PartOK'
    BY DEF PartOK, WindowTurns, Idle
  <2> QED
    BY <2>1, <2>2, <2>3, <2>4
<1> QED
  BY <1>1, <1>2, <1>3 DEF ControlNext, allVars

\* The inductive invariant of everything that moves the gimbal outside a live
\* session, for every limit and every length of a script.
THEOREM MotionInvariant == ControlSpec => []MotionInv
BY MotionInit, MotionStep, PTL DEF ControlSpec

\* Outside a live session the gimbal is told to stand still whenever nothing is
\* being sent and the controller is neither active nor faulted, unless a test was
\* cancelled; every rehearsed scenario ends so; and the window turns it for no
\* longer than the limit.
THEOREM MotionReturnsToZero == ControlSpec => []ReturnsToZero
<1>1. MotionInv => ReturnsToZero
  <2> SUFFICES ASSUME MotionInv PROVE ReturnsToZero
    OBVIOUS
  <2> USE DEF MotionInv, SafetyInv, ScriptInv, Stands, Resting
  <2>1. Idle /\ safety \notin {"active", "fault"} /\ ~interrupted => out = "zero"
    OBVIOUS
  <2>2. stage = "done" /\ script \in Scenarios => out = "zero"
    BY DEF ScenarioInv, ScenarioPlace, ScenarioState, AtRest
  <2>3. part = "window" => turning <= MaxMovement
    BY FailClosedAssumption DEF PartOK, WindowTurns, SafetyOK, None
  <2> QED
    BY <2>1, <2>2, <2>3 DEF ReturnsToZero
<1> QED
  BY <1>1, MotionInvariant, PTL

\* No key that was let go behind the window's back, no drag that was cancelled
\* and no input after a stop moves the camera.
THEOREM WindowHasNoGhostInput == ControlSpec => []NoGhostInput
<1>1. MotionInv => NoGhostInput
  <2> SUFFICES ASSUME MotionInv, ~quitting, ~missed,
                      IF control = "live" THEN latest.active ELSE pushed
               PROVE  held # {} \/ finger = "out"
    BY DEF NoGhostInput
  <2> USE DEF MotionInv, GhostInv, InputOK, KnownInput
  <2>1. CASE control = "live"
    BY <2>1 DEF BackedLive
  <2>2. CASE control = "mock"
    BY <2>2 DEF BackedMock
  <2> QED
    BY <2>1, <2>2
<1> QED
  BY <1>1, MotionInvariant, PTL
=============================================================================
