------------------------------ MODULE BoundedTest ------------------------------
(***************************************************************************)
(* run_one_shot_gimbal_test: one speed command over BLE and two zero       *)
(* commands through FailClosedController; every await of it may fail, take *)
(* its time and be cancelled.  run_mock_validation takes the same          *)
(* controller into each of its endings, with a sink that may refuse the    *)
(* first command and a clock of its own.                                   *)
(***************************************************************************)
EXTENDS FailClosed

CONSTANTS MaxPulse,     \* the longest duration_ms, in tenths of a second (2)
          MaxTestTime   \* bound: tenths of a second a script may take

VARIABLES script,       \* "test", or a scenario of the mock validation
          duration,     \* duration_ms of the test
          stage,        \* what the script does next
          testTime,     \* tenths of a second the script has taken
          due,          \* when its present sleep ends
          interrupted   \* the test was cancelled

scriptVars == <<script, duration, due, interrupted>>
testVars == <<scriptVars, stage, testTime>>

Scenarios == {"release", "stop", "disconnect", "watchdog", "maximum"}

TestInit == /\ script \in {"test"} \cup Scenarios
            /\ duration \in 1..MaxPulse
            /\ stage = "connect"
            /\ testTime = 0 /\ due = 0
            /\ interrupted = FALSE

To(next) == stage' = next /\ UNCHANGED <<scriptVars, testTime>>
SleepFor(t, next) == /\ due' = testTime + t
                     /\ stage' = next
                     /\ UNCHANGED <<script, duration, interrupted, testTime>>

\* connect, acquire_mtu, subscribe, half a second, and a notification heard.
Ready == stage = "connect" /\ Arm /\ To("push")

\* No connection, or nothing heard: the controller is disabled and left so.
NotReady == /\ script = "test" /\ stage = "connect"
            /\ To("disconnect")
            /\ UNCHANGED safetyVars

Push == stage = "push" /\ SubmitInput(TRUE) /\ To("move")

Move == stage = "move" /\ Tick /\ To("moved")

Moved == /\ stage = "moved" /\ Idle
         /\ CASE script = "test"     -> SleepFor(duration, "hold")
              [] script = "watchdog" -> SleepFor(Watchdog + 1, "ending")
              [] script = "maximum"  -> SleepFor(MaxMovement \div 2, "ending")
              [] OTHER               -> To("ending")
         /\ UNCHANGED safetyVars

Slept == testTime >= due

LetGo == stage = "hold" /\ Slept /\ SubmitInput(FALSE) /\ To("release")

FirstZero == stage = "release" /\ Tick /\ To("released")

Rest500 == /\ stage = "released" /\ Idle
           /\ SleepFor(MaxMovement - duration, "rest")
           /\ UNCHANGED safetyVars

SecondZero == /\ stage = "rest" /\ Slept
              /\ StopControl \/ StopIgnored
              /\ To("stop")

Stopped == stage = "stop" /\ Idle /\ To("disconnect") /\ UNCHANGED safetyVars

\* The finally block closes the link, whatever the controller's state.
Hangup == stage = "disconnect" /\ To("done") /\ UNCHANGED safetyVars

\* Cancelled at a send or a sleep: the handler catches Exception only.
Interrupt == /\ script = "test" /\ stage \notin {"disconnect", "done"}
             /\ IF Idle THEN UNCHANGED safetyVars ELSE SendCancelled
             /\ interrupted' = TRUE /\ stage' = "disconnect"
             /\ UNCHANGED <<script, duration, due, testTime>>

-----------------------------------------------------------------------------
(* The scenarios after the first command.                                   *)

Ending == /\ stage = "ending" /\ Slept
          /\ \/ script = "release" /\ SubmitInput(FALSE) /\ To("tick")
             \/ script = "stop" /\ StopAtOnce /\ To("finish")
             \/ script = "disconnect" /\ Disconnect /\ To("finish")
             \/ script = "watchdog" /\ Tick /\ To("finish")
             \/ script = "maximum" /\ SubmitInput(TRUE) /\ To("tick")

LastTick == stage = "tick" /\ Tick /\ To("ticked")

Ticked == /\ stage = "ticked" /\ Idle
          /\ IF script = "maximum" /\ testTime < MaxMovement
             THEN SleepFor(MaxMovement - testTime, "ending")
             ELSE To("finish")
          /\ UNCHANGED safetyVars

Finished == stage = "finish" /\ Idle /\ To("done") /\ UNCHANGED safetyVars

ScenarioStep == Ending \/ LastTick \/ Ticked \/ Finished

\* Over BLE every send may fail; the mock sink refuses the first call at most.
SendEnds == /\ \/ DriveSentOn \/ ZeroSent \/ DriveFails
               \/ script = "test" /\ ZeroFails
            /\ UNCHANGED testVars

\* A send over BLE takes time, the mock sink does not.
TimePasses == /\ testTime < MaxTestTime
              /\ \/ ~Slept /\ stage \in {"hold", "rest", "ending"}
                 \/ ~Idle /\ script = "test"
              /\ Elapse
              /\ testTime' = testTime + 1
              /\ UNCHANGED <<scriptVars, stage>>

TestDone == stage = "done" /\ UNCHANGED <<safetyVars, testVars>>

TestNext == \/ Ready \/ NotReady \/ Push \/ Move \/ Moved \/ LetGo \/ FirstZero
            \/ Rest500 \/ SecondZero \/ Stopped \/ Hangup \/ Interrupt
            \/ ScenarioStep \/ SendEnds \/ TimePasses \/ TestDone
=============================================================================
