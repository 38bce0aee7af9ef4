------------------------------- MODULE OneShot -------------------------------
(***************************************************************************)
(* run_wifi_gimbal_test: the command-line workflow that performs either    *)
(* two centre bursts or one bounded pulse, through the same controller as  *)
(* the live session, and centres the stick again on any exception.         *)
(***************************************************************************)
EXTENDS GimbalController

VARIABLES mode,       \* "center-test" or "pulse"
          place,      \* where the workflow is
          isOpen,     \* udp.is_open
          heard,      \* links that told of the camera: notifications, UDP telemetry
          error,      \* an exception reached the handler
          stopFailed, \* emergency_stop of the handler raised
          drives,     \* history: stick packets handed to the socket
          centres     \* history: centre packets since the last of those

flowVars == <<mode, place, isOpen, heard, error, stopFailed>>
counted == <<drives, centres>>
oneShotVars == <<ctlVars, flowVars, counted>>

OneShotInit == /\ ControllerInit
               /\ mode \in {"center-test", "pulse"}
               /\ place = "connect"
               /\ isOpen = FALSE /\ heard = {} /\ error = FALSE /\ stopFailed = FALSE
               /\ drives = 0 /\ centres = 0

GoOn(next) == place' = next /\ UNCHANGED <<mode, isOpen, heard, error, stopFailed>>

\* An exception: centre the stick if the socket is open, whatever the state.
\* Inside the handler's own stop it is only recorded.
Catch == IF place = "handler"
         THEN /\ place' = "closing" /\ stopFailed' = TRUE
              /\ UNCHANGED <<mode, isOpen, heard, error>>
         ELSE /\ place' = IF isOpen THEN "raise" ELSE "closing"
              /\ error' = TRUE
              /\ UNCHANGED <<mode, isOpen, heard, stopFailed>>

\* connect, acquire_mtu, subscribe: from now on notifications are counted.
Subscribe == /\ place = "connect"
             /\ GoOn("subscribed")
             /\ UNCHANGED <<ctlVars, counted>>

\* on_notification, or a gimbal frame in a datagram; both go on until the end.
Hear(link) == /\ place # "done"
              /\ IF link = "ble" THEN place # "connect" ELSE isOpen
              /\ heard' = heard \cup {link}
              /\ UNCHANGED <<mode, place, isOpen, error, stopFailed, ctlVars, counted>>

\* Half a second later, if BLE has told anything.
OpenUdp == /\ place = "subscribed" /\ "ble" \in heard
           /\ isOpen' = TRUE
           /\ place' = "open"
           /\ UNCHANGED <<mode, heard, error, stopFailed, ctlVars, counted>>

\* Telemetry arrived within a second: centre or arm.  A refused call is an
\* exception like any other.
BeginFirst == /\ place = "open" /\ "udp" \in heard
              /\ IF mode = "pulse"
                 THEN IF CanArm THEN CallArm /\ GoOn("first") ELSE Catch /\ UNCHANGED ctlVars
                 ELSE CallCenterBurst(ArmBurst) /\ GoOn("first")
              /\ UNCHANGED counted

BeginSecond == /\ place = "first"
               /\ op = "none"
               /\ IF mode = "pulse"
                  THEN IF CanPulse THEN CallPulse /\ GoOn("second") ELSE Catch /\ UNCHANGED ctlVars
                  ELSE CallCenterBurst(StopBurst) /\ GoOn("second")
               /\ UNCHANGED counted

Succeed == /\ place = "second"
           /\ op = "none" /\ state # "fault"
           /\ GoOn("closing")
           /\ UNCHANGED <<ctlVars, counted>>

CentreOut == /\ CenterSent \/ BurstSent \/ FinalSent
             /\ centres' = centres + 1
             /\ UNCHANGED <<flowVars, drives>>

PulseOut == /\ PulseSent
            /\ drives' = drives + 1 /\ centres' = 0
            /\ UNCHANGED flowVars

Wait == (GapOver \/ PauseOver) /\ UNCHANGED <<flowVars, counted>>

\* The deadline or the watchdog ends the pulse; a packet may be on its way.
TimedOut == /\ PulseTimeout
            /\ drives' = IF step = "send" THEN drives + 1 ELSE drives
            /\ centres' = 0
            /\ UNCHANGED flowVars

-----------------------------------------------------------------------------
Fail == /\ \/ SendFails
           \/ SleepCancelled
           \/ /\ place \in {"connect", "subscribed", "open", "first", "second"} /\ op = "none"
              /\ UNCHANGED ctlVars
        /\ Catch
        /\ drives' = IF op = "pulse" /\ step = "send" THEN drives + 1 ELSE drives
        /\ centres' = IF op = "pulse" THEN 0 ELSE centres

\* Mutant: a faulted controller is left alone, as in the live session.
EmergencyStopUnlessFault == /\ place = "raise"
                            /\ IF state = "fault"
                               THEN UNCHANGED ctlVars /\ GoOn("closing")
                               ELSE CallStop /\ GoOn("handler")
                            /\ UNCHANGED counted

EmergencyStop == /\ place = "raise"
                 /\ CallStop
                 /\ GoOn("handler")
                 /\ UNCHANGED counted

HandlerDone == /\ place = "handler"
               /\ op = "none"
               /\ GoOn("closing")
               /\ UNCHANGED <<ctlVars, counted>>

\* The finally block; a receiver that failed makes the result an error.
Close == /\ place = "closing"
         /\ error' \in IF isOpen THEN {error, TRUE} ELSE {error}
         /\ isOpen' = FALSE
         /\ place' = "done"
         /\ UNCHANGED <<mode, heard, stopFailed, ctlVars, counted>>

Closed == place = "done" /\ UNCHANGED oneShotVars

OneShotNext == \/ Subscribe \/ Hear("ble") \/ Hear("udp") \/ OpenUdp
               \/ BeginFirst \/ BeginSecond \/ Succeed
               \/ CentreOut \/ PulseOut \/ Wait \/ TimedOut
               \/ Fail \/ EmergencyStop \/ HandlerDone \/ Close \/ Closed

OneShotSpec == OneShotInit /\ [][OneShotNext]_oneShotVars

-----------------------------------------------------------------------------
\* Whatever fails or times out, no more stick packets leave than the pulse has;
\* one that reports success was all of them, each before the burst of centre
\* packets and the final one that ended it; and the socket is closed on a
\* deflected stick only if the handler's own stop failed too: unlike the live
\* session, the workflow answers a failed send by centring.
OneShotEndsCentered ==
    /\ drives <= PulseFrames
    /\ place \in {"closing", "done"} /\ mode = "pulse" /\ ~error =>
           drives = PulseFrames /\ centres = StopBurst + 1
    /\ place = "done" /\ wire = "drive" => stopFailed
=============================================================================
