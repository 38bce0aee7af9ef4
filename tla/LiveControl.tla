---------------------------- MODULE LiveControl ----------------------------
(***************************************************************************)
(* LiveWifiControlSession: one asyncio task owns the stick, the keepalive  *)
(* and the camera actions of a session, the GTK thread only queues input.  *)
(* The task's coroutine _run is cut at its awaits (pc names the place), so *)
(* that the UI thread, the receiver, the clock, a lost link, a failing     *)
(* send and - when the session is attached to the normal-mode socket - a   *)
(* cancellation of the task may fall between any two of its steps.         *)
(*                                                                         *)
(* Time is abstracted to what the code compares it with: an input younger  *)
(* or older than 250 ms, an action past its 1.5 s deadline, a cooldown.    *)
(***************************************************************************)
EXTENDS GimbalController, Sequences

CONSTANTS Attached,     \* TRUE: normal mode, on a socket another task owns
          Watched,      \* what a session watches: "ble", "publisher", "keepalive"
          Gestures,     \* the inputs a user may submit
          MaxQueue,     \* bound: inputs waiting in _inputs
          MaxActs,      \* bound: things the user does, camera actions included
          MaxCancels    \* bound: cancellations of the attached task

\* What the loop tells apart in a ControlInput: "gesture" has a non-centre axis
\* and is fresh, "old" is one past 250 ms, "latchedStop" is a keyboard input
\* with the emergency flag and an axis key down, "exit" asks for the end.
Input == {"neutral", "gesture", "old", "stop", "latchedStop", "exit"}
StopInputs == {"stop", "latchedStop", "exit"}
ActiveInputs == {"gesture", "old"}
FreshGestures == {"gesture", "latchedStop"}

ASSUME SessionAssumption == /\ Attached \in BOOLEAN
                            /\ Watched \subseteq {"ble", "publisher", "keepalive"}
                            /\ Attached => "publisher" \notin Watched
                            /\ Gestures \subseteq Input
                            /\ MaxQueue \in Nat /\ MaxActs \in Nat
                            /\ MaxCancels \in Nat

VARIABLES pc,          \* where _run is
          value,       \* the input this iteration works on, aged at its start
          paused,      \* control_paused
          neutral,     \* neutral_required
          outcome,     \* how _run ends: "none", "exit", "error", "cancelled",
                       \* or "refused": the controller's RuntimeError
          inputs,      \* _inputs, filled by the UI thread
          latest,      \* _latest
          rearm,       \* rearm_requested
          snap,        \* _snapshot["state"], what the UI shows and checks
          queued,      \* an action sits in _actions (maxsize 1)
          pending,     \* _action_pending: the action's number, 0 for none
          response,    \* _action_response: whose reply it is, 0 for none
          overdue,     \* the pending action is past its deadline
          cooldown,    \* _action_cooldown lies in the future
          confirmed,   \* actions reported to the user as confirmed
          emitted,     \* camera actions sent so far, the last one's number
          replies,     \* _action_replies: actions the camera has answered
          lost,        \* watched conditions that currently fail
          ui,          \* the UI thread: "idle" or inside request_action
          acts,        \* things the user has done
          cancels,     \* cancellations so far
          consent,     \* history: the user asked for control after the last STOP
          late         \* history: drive packets sent while a STOP was waiting

loopVars   == <<pc, value, paused, neutral, outcome>>
inputVars  == <<inputs, latest, rearm>>
actionVars == <<queued, pending, response, overdue, cooldown, confirmed>>
cameraVars == <<emitted, replies>>
envVars    == <<lost, ui, acts, cancels, consent>>
vars == <<ctlVars, loopVars, inputVars, snap, actionVars, cameraVars, envVars, late>>

Init == /\ ControllerInit
        /\ pc = "ble" /\ value = "neutral" /\ outcome = "none"
        /\ paused = FALSE /\ neutral = FALSE
        /\ inputs = <<>> /\ latest = "neutral" /\ rearm = FALSE
        /\ snap = "connecting"
        /\ queued = FALSE /\ pending = 0 /\ response = 0
        /\ overdue = FALSE /\ cooldown = FALSE /\ confirmed = {}
        /\ emitted = 0 /\ replies = {}
        /\ lost \in SUBSET (Watched \ {"keepalive"})
        /\ ui = "idle" /\ acts = 0 /\ cancels = 0
        /\ consent = TRUE /\ late = 0

StopWaiting == \E i \in DOMAIN inputs : inputs[i] \in StopInputs

-----------------------------------------------------------------------------
(* The session task: connecting.                                           *)

Goto(place) == pc' = place /\ UNCHANGED <<value, paused, neutral, outcome>>

\* An exception leaves the loop for the handler around it.
Raise(why) == /\ pc' = "raise"
              /\ outcome' = why
              /\ UNCHANGED <<value, paused, neutral>>

Quiet == UNCHANGED <<inputVars, snap, actionVars, cameraVars, envVars, late>>

BleReady == /\ pc = "ble"
            /\ "ble" \notin lost
            /\ Goto("attach")
            /\ Quiet /\ UNCHANGED ctlVars

\* attached_ready, or the transport's open() and the first telemetry.
TransportReady == /\ pc = "attach"
                  /\ Goto("hello")
                  /\ Quiet /\ UNCHANGED ctlVars

\* The controller does not accept the call in its present state.
Refused == Raise("refused") /\ UNCHANGED ctlVars

\* The first 04/50 keepalive was answered: arm.
FirstKeepalive == /\ pc = "hello"
                  /\ IF CanArm THEN CallArm /\ Goto("arming") ELSE Refused
                  /\ Quiet

ArmedFirst == /\ pc = "arming"
              /\ op = "none"
              /\ snap' = "armed"
              /\ Goto("top")
              /\ UNCHANGED <<ctlVars, inputVars, actionVars, cameraVars, envVars, late>>

\* BLE within 5 s, readiness within 3 s or 1 s, a reply within 1.5 s.
ConnectFails == /\ pc \in {"ble", "attach", "hello"}
                /\ Raise("error")
                /\ Quiet /\ UNCHANGED ctlVars

-----------------------------------------------------------------------------
(* The session task: one iteration of the loop.                            *)

\* The input that decides a drained batch: the last STOP or exit, if any,
\* otherwise the last input.
Decisive(i) == IF StopWaiting
               THEN /\ inputs[i] \in StopInputs
                    /\ \A j \in DOMAIN inputs : j > i => inputs[j] \notin StopInputs
               ELSE i = Len(inputs)

\* Mutant: the loop takes one input per iteration instead of all of them.
DrainOne(v) == /\ v = IF inputs = <<>> THEN latest ELSE Head(inputs)
               /\ latest' = v
               /\ inputs' = IF inputs = <<>> THEN inputs ELSE Tail(inputs)
               /\ late' = IF StopWaiting' THEN late ELSE 0
               /\ value' = v

Drain(v) == /\ \/ inputs = <<>> /\ v = latest
               \/ \E i \in DOMAIN inputs : Decisive(i) /\ v = inputs[i]
            /\ latest' = v
            /\ inputs' = <<>>
            /\ late' = IF StopWaiting' THEN late ELSE 0
            /\ value' = v

Top == /\ pc = "top"
       /\ \E v \in Input :
            /\ Drain(v)
            /\ IF v \in StopInputs
               THEN CallStop /\ pc' = "stopping"
               ELSE UNCHANGED ctlVars /\ pc' = "checks"
       /\ UNCHANGED <<paused, neutral, outcome, rearm, snap, actionVars, cameraVars, envVars>>

\* Mutant: emergency_stop is started but not awaited.
StoppedEarly == /\ pc = "stopping"
                /\ snap' = "disabled" /\ paused' = TRUE /\ latest' = "neutral"
                /\ pc' = "checks"
                /\ UNCHANGED <<value, neutral, outcome, inputs, rearm, ctlVars>>
                /\ UNCHANGED <<actionVars, cameraVars, envVars, late>>

\* Mutant: the session goes on as before the STOP.
StoppedUnpaused == /\ pc = "stopping"
                   /\ op = "none"
                   /\ snap' = "disabled" /\ latest' = "neutral"
                   /\ IF value = "exit"
                      THEN pc' = "finally" /\ outcome' = "exit"
                      ELSE pc' = "checks" /\ UNCHANGED outcome
                   /\ UNCHANGED <<value, paused, neutral, inputs, rearm, ctlVars>>
                   /\ UNCHANGED <<actionVars, cameraVars, envVars, late>>

\* emergency_stop has returned: leave on exit, otherwise pause.
Stopped == /\ pc = "stopping"
           /\ op = "none"
           /\ snap' = "disabled"
           /\ IF value = "exit"
              THEN pc' = "finally" /\ outcome' = "exit" /\ UNCHANGED <<paused, latest>>
              ELSE /\ pc' = "checks" /\ paused' = TRUE /\ latest' = "neutral"
                   /\ UNCHANGED outcome
           /\ UNCHANGED <<value, neutral, inputs, rearm, ctlVars, actionVars, cameraVars, envVars, late>>

\* Mutant: a paused session does not look at its links.
CheckUnlessPaused == /\ pc = "checks"
                     /\ \/ /\ "ble" \notin lost \/ paused
                           /\ Goto("serve") /\ UNCHANGED ctlVars
                        \/ /\ lost \cap {"ble", "publisher"} # {} /\ ~paused
                           /\ CallStop /\ Goto("abort")
                     /\ Quiet

\* The publisher is looked up once a second only, BLE every time.
Check == /\ pc = "checks"
         /\ \/ "ble" \notin lost /\ Goto("serve") /\ UNCHANGED ctlVars
            \/ lost \cap {"ble", "publisher"} # {} /\ CallStop /\ Goto("abort")
         /\ Quiet

\* The keepalive and the flow ACK, when due, then the age of the last reply.
Serve == /\ pc = "serve"
         /\ IF "keepalive" \in lost THEN CallStop /\ Goto("abort")
                                    ELSE UNCHANGED ctlVars /\ Goto("decide")
         /\ Quiet

\* The stop before the exception has returned.
Aborted == /\ pc = "abort"
           /\ op = "none"
           /\ Raise("error")
           /\ Quiet /\ UNCHANGED ctlVars

Woken == /\ pc = "sleep"
         /\ Goto("top")
         /\ Quiet /\ UNCHANGED ctlVars

-----------------------------------------------------------------------------
(* Paused: a re-arm request or a fresh gesture resumes.                    *)

ResumeRequested == rearm \/ value \in FreshGestures

\* reset_rearm_input throws away whatever reached the queue meanwhile.
Rearm == /\ rearm' = FALSE
         /\ inputs' = <<>> /\ late' = 0
         /\ latest' = "neutral"
         /\ IF CanArm THEN CallArm /\ Goto("rearming") ELSE Refused
         /\ UNCHANGED <<snap, actionVars, cameraVars, envVars>>

\* Mutant: a request to re-arm counts in a session that is not paused, too.
ResumeUnpaused == pc = "decide" /\ ResumeRequested /\ (paused \/ rearm) /\ Rearm

Resume == pc = "decide" /\ paused /\ ResumeRequested /\ Rearm

Resumed == /\ pc = "rearming"
           /\ op = "none"
           /\ paused' = FALSE /\ neutral' = FALSE
           /\ snap' = "armed"
           /\ pc' = "sleep"
           /\ UNCHANGED <<value, outcome, ctlVars, inputVars, actionVars, cameraVars, envVars, late>>

StayPaused == /\ pc = "decide" /\ paused
              /\ ~ResumeRequested
              /\ Goto("sleep")
              /\ Quiet /\ UNCHANGED ctlVars

-----------------------------------------------------------------------------
(* Camera actions share the task with the stick.                           *)

\* A reply seen before _action_pending was set is found in _action_replies.
FoundReply == IF response = 0 /\ pending \in replies THEN pending ELSE response

AwaitReply == /\ pc = "decide" /\ ~paused /\ pending # 0
              /\ IF FoundReply # 0 \/ overdue
                 THEN /\ confirmed' = IF FoundReply # 0 THEN confirmed \cup {pending}
                                                        ELSE confirmed
                      /\ pending' = 0 /\ response' = 0 /\ overdue' = FALSE
                      /\ cooldown' = TRUE
                 ELSE UNCHANGED <<confirmed, pending, response, overdue, cooldown>>
              /\ Goto("sleep")
              /\ UNCHANGED <<queued, snap, ctlVars, inputVars, cameraVars, envVars, late>>

CoolingDown == /\ pc = "decide" /\ ~paused /\ pending = 0 /\ cooldown
               /\ Goto("sleep")
               /\ Quiet /\ UNCHANGED ctlVars

Unoccupied == pc = "decide" /\ ~paused /\ pending = 0 /\ ~cooldown

\* Mutant: the action does not release the stick first.
TakeActionMoving == /\ Unoccupied /\ queued
                    /\ queued' = FALSE
                    /\ Goto("acting")
                    /\ UNCHANGED <<pending, response, overdue, cooldown, confirmed>>
                    /\ UNCHANGED <<ctlVars, inputVars, snap, cameraVars, envVars, late>>

\* The stick is released first when it is ACTIVE.
TakeAction == /\ Unoccupied /\ queued
              /\ queued' = FALSE
              /\ IF state = "active" THEN CallRelease /\ Goto("yield")
                                     ELSE UNCHANGED ctlVars /\ Goto("acting")
              /\ UNCHANGED <<pending, response, overdue, cooldown, confirmed>>
              /\ UNCHANGED <<inputVars, snap, cameraVars, envVars, late>>

Yielded == /\ pc = "yield"
           /\ op = "none"
           /\ Goto("acting")
           /\ Quiet /\ UNCHANGED ctlVars

\* The datagram is out; send_camera_action has not returned yet.
EmitAction == /\ pc = "acting"
              /\ emitted' = emitted + 1
              /\ Goto("acted")
              /\ UNCHANGED <<ctlVars, inputVars, snap, actionVars, replies, envVars, late>>

ActionSent == /\ pc = "acted"
              /\ pending' = emitted
              /\ overdue' = FALSE
              /\ neutral' = TRUE
              /\ pc' = "top"
              /\ UNCHANGED <<value, paused, outcome, queued, response, cooldown, confirmed>>
              /\ UNCHANGED <<ctlVars, inputVars, snap, cameraVars, envVars, late>>

-----------------------------------------------------------------------------
(* The stick.                                                               *)

Steering == Unoccupied /\ ~queued

AwaitNeutral == /\ Steering /\ neutral
                /\ neutral' = (value \in ActiveInputs)
                /\ snap' = IF value \in ActiveInputs THEN snap ELSE "armed"
                /\ pc' = "sleep"
                /\ UNCHANGED <<value, paused, outcome, ctlVars, inputVars>>
                /\ UNCHANGED <<actionVars, cameraVars, envVars, late>>

\* Released, or no heartbeat for 250 ms: the latter wants a neutral input next.
Idle == /\ Steering /\ ~neutral /\ value # "gesture"
        /\ IF state = "active"
           THEN CallRelease /\ pc' = "letgo" /\ UNCHANGED neutral
           ELSE UNCHANGED ctlVars /\ pc' = "sleep" /\ neutral' = (value = "old")
        /\ UNCHANGED <<value, paused, outcome>>
        /\ Quiet

LetGo == /\ pc = "letgo"
         /\ op = "none"
         /\ snap' = "armed"
         /\ neutral' = (value = "old")
         /\ pc' = "sleep"
         /\ UNCHANGED <<value, paused, outcome, ctlVars, inputVars>>
         /\ UNCHANGED <<actionVars, cameraVars, envVars, late>>

Drive == /\ Steering /\ ~neutral /\ value = "gesture"
         /\ IF CanDrive THEN CallDrive /\ Goto("driving") ELSE Refused
         /\ Quiet

Driven == /\ pc = "driving"
          /\ DriveSent
          /\ snap' = "active"
          /\ late' = IF StopWaiting THEN late + 1 ELSE late
          /\ Goto("sleep")
          /\ UNCHANGED <<inputVars, actionVars, cameraVars, envVars>>

\* The bursts and pauses of the controller routine the task is awaiting.
Routine == /\ op \in CenterOps
           /\ Progress
           /\ UNCHANGED <<loopVars, inputVars, snap, actionVars, cameraVars, envVars, late>>

-----------------------------------------------------------------------------
(* Leaving: the exception handler and the finally clause.                  *)

\* Mutant: the handler catches Exception, which a cancellation is not.
UnwindErrors == /\ pc = "raise"
                /\ IF state \in {"disabled", "fault"} \/ outcome = "cancelled"
                   THEN UNCHANGED ctlVars /\ Goto("finally")
                   ELSE CallStop /\ Goto("handler")
                /\ Quiet

Unwind == /\ pc = "raise"
          /\ IF state \in {"disabled", "fault"} THEN UNCHANGED ctlVars /\ Goto("finally")
                                                ELSE CallStop /\ Goto("handler")
          /\ Quiet

Handled == /\ pc = "handler"
           /\ op = "none"
           /\ Goto("finally")
           /\ Quiet /\ UNCHANGED ctlVars

\* Mutant: the exception's name ends up in the state field.
FinishNamed == /\ pc = "finally"
               /\ snap' = IF state = "disabled" THEN "disabled" ELSE outcome
               /\ Goto("done")
               /\ UNCHANGED <<ctlVars, inputVars, actionVars, cameraVars, envVars, late>>

\* The snapshot after finally and after the wrapper of the thread or task:
\* an error shows as a fault, a cancellation shows only a completed stop.
Finish == /\ pc = "finally"
          /\ snap' = IF outcome \in {"error", "refused"} THEN "fault"
                     ELSE IF state = "disabled" THEN "disabled" ELSE snap
          /\ Goto("done")
          /\ UNCHANGED <<ctlVars, inputVars, actionVars, cameraVars, envVars, late>>

-----------------------------------------------------------------------------
(* Failures.                                                                *)

\* A failure of what the task is awaiting reaches the handler, except inside
\* the handler's own stop, where it is swallowed.
Broken(why) == IF pc = "handler" THEN Goto("finally") ELSE Raise(why)

StickSendFails == /\ SendFails
                  /\ Broken("error")
                  /\ Quiet

\* The publishers cannot be listed, or the keepalive, the flow ACK or the camera
\* action cannot be sent.
OtherSendFails == /\ pc \in {"serve", "acting"} \/ (pc = "checks" /\ "publisher" \in Watched)
                  /\ Raise("error")
                  /\ Quiet /\ UNCHANGED ctlVars

\* run_normal_session cancels the attached task, which is at some await.
Cancel == /\ Attached
          /\ cancels < MaxCancels
          /\ cancels' = cancels + 1
          /\ \/ SendFails /\ Broken("cancelled")
             \/ SleepCancelled /\ Broken("cancelled")
             \/ /\ pc \in {"ble", "attach", "hello", "serve", "acting", "acted", "sleep"}
                /\ Raise("cancelled") /\ UNCHANGED ctlVars
          /\ UNCHANGED <<lost, ui, acts, consent>>
          /\ UNCHANGED <<inputVars, snap, actionVars, cameraVars, late>>

-----------------------------------------------------------------------------
(* The UI thread.                                                           *)

UserActs == acts < MaxActs /\ ui = "idle" /\ acts' = acts + 1

Submit == /\ UserActs
          /\ pc # "done"
          /\ Len(inputs) < MaxQueue
          /\ \E v \in Gestures :
               /\ inputs' = Append(inputs, v)
               /\ consent' = IF v \in StopInputs THEN FALSE ELSE consent \/ v = "gesture"
          /\ UNCHANGED <<ctlVars, loopVars, latest, rearm, snap, actionVars, cameraVars>>
          /\ UNCHANGED <<lost, ui, cancels, late>>

\* request_action up to put_nowait; a refused request changes nothing.
RequestAction == /\ UserActs
                 /\ pending = 0 /\ ~cooldown /\ ~queued
                 /\ snap \in {"armed", "active", "disabled"}
                 /\ queued' = TRUE
                 /\ ui' = "flagging"
                 /\ consent' = TRUE
                 /\ UNCHANGED <<pending, response, overdue, cooldown, confirmed>>
                 /\ UNCHANGED <<ctlVars, loopVars, inputVars, snap, cameraVars>>
                 /\ UNCHANGED <<lost, cancels, late>>

\* ... and its second look at the snapshot.
FlagRearm == /\ ui = "flagging"
             /\ rearm' = (rearm \/ snap = "disabled")
             /\ ui' = "idle"
             /\ UNCHANGED <<ctlVars, loopVars, inputs, latest, snap, actionVars, cameraVars>>
             /\ UNCHANGED <<lost, acts, cancels, consent, late>>

\* rearm() while the session runs.
RequestRearm == /\ UserActs
                /\ snap = "disabled" /\ pc # "done"
                /\ rearm' = TRUE
                /\ consent' = TRUE
                /\ UNCHANGED <<ctlVars, loopVars, inputs, latest, snap, actionVars, cameraVars>>
                /\ UNCHANGED <<lost, ui, cancels, late>>

\* rearm() after the thread has ended: a new _run with a new controller.
Restart == /\ UserActs
           /\ ~Attached
           /\ snap = "disabled" /\ pc = "done"
           /\ pc' = "ble" /\ outcome' = "none" /\ value' = "neutral"
           /\ paused' = FALSE /\ neutral' = FALSE
           /\ inputs' = <<>> /\ latest' = "neutral" /\ late' = 0
           /\ snap' = "connecting"
           /\ state' = "disabled" /\ UNCHANGED <<op, step, left, wire>>
           /\ consent' = TRUE
           /\ UNCHANGED <<rearm, actionVars, cameraVars, lost, ui, cancels>>

-----------------------------------------------------------------------------
(* The camera, the clock and the links.                                    *)

\* Mutant: any action's reply counts, its sequence number is not compared.
AnyReply == \E a \in 1..emitted :
              /\ replies' = replies \cup {a}
              /\ response' = IF pending # 0 THEN a ELSE response
              /\ UNCHANGED <<queued, pending, overdue, cooldown, confirmed, emitted>>
              /\ UNCHANGED <<ctlVars, loopVars, inputVars, snap, envVars, late>>

\* A reply, perhaps late or repeated, to an action that was sent.
CameraReplies == \E a \in 1..emitted :
                   /\ replies' = replies \cup {a}
                   /\ response' = IF a = pending THEN a ELSE response
                   /\ UNCHANGED <<queued, pending, overdue, cooldown, confirmed, emitted>>
                   /\ UNCHANGED <<ctlVars, loopVars, inputVars, snap, envVars, late>>

\* Mutant: the age of an input is not looked at.
Ageless(v) == v

Aged(v) == CASE v = "gesture" -> "old" [] v = "latchedStop" -> "stop" [] OTHER -> v

\* 250 ms have passed since the first n of the waiting inputs were submitted.
Age == /\ \E n \in 0..Len(inputs) :
            inputs' = [i \in DOMAIN inputs |-> IF i <= n THEN Aged(inputs[i]) ELSE inputs[i]]
       /\ latest' = Aged(latest)
       /\ <<latest, inputs>>' # <<latest, inputs>>
       /\ UNCHANGED <<ctlVars, loopVars, rearm, snap, actionVars, cameraVars, envVars, late>>

Deadline == /\ pending # 0 /\ ~overdue
            /\ overdue' = TRUE
            /\ UNCHANGED <<queued, pending, response, cooldown, confirmed>>
            /\ UNCHANGED <<ctlVars, loopVars, inputVars, snap, cameraVars, envVars, late>>

CooldownOver == /\ cooldown
                /\ cooldown' = FALSE
                /\ UNCHANGED <<queued, pending, response, overdue, confirmed>>
                /\ UNCHANGED <<ctlVars, loopVars, inputVars, snap, cameraVars, envVars, late>>

LinkChanges == /\ pc # "done"
               /\ \E x \in Watched : lost' = IF x \in lost THEN lost \ {x} ELSE lost \cup {x}
               /\ UNCHANGED <<ui, acts, cancels, consent>>
               /\ UNCHANGED <<ctlVars, loopVars, inputVars, snap, actionVars, cameraVars, late>>

-----------------------------------------------------------------------------
Connecting == BleReady \/ TransportReady \/ FirstKeepalive \/ ArmedFirst
Looping == Top \/ Stopped \/ Check \/ Serve \/ Aborted \/ Woken
Pausing == Resume \/ Resumed \/ StayPaused
Acting == AwaitReply \/ CoolingDown \/ TakeAction \/ Yielded \/ EmitAction \/ ActionSent
Moving == AwaitNeutral \/ Idle \/ LetGo \/ Drive \/ Driven \/ Routine
Leaving == Unwind \/ Handled \/ Finish

\* The steps the event loop owes the task.
SessionStep == Connecting \/ Looping \/ Pausing \/ Acting \/ Moving \/ Leaving
Clock == Age \/ CooldownOver \/ Deadline
Failing == ConnectFails \/ StickSendFails \/ OtherSendFails \/ Cancel
User == Submit \/ RequestAction \/ FlagRearm \/ RequestRearm \/ Restart

\* A session that has ended and is not restarted.
Ended == pc = "done" /\ UNCHANGED vars

Next == SessionStep \/ Clock \/ Failing \/ User \/ CameraReplies \/ LinkChanges \/ Ended

Spec == Init /\ [][Next]_vars

\* asyncio keeps running a ready task, and every timer and timeout expires.
Fairness == /\ WF_vars(SessionStep) /\ WF_vars(ConnectFails)
            /\ WF_vars(Age) /\ WF_vars(CooldownOver) /\ WF_vars(Deadline)

FairSpec == Spec /\ Fairness

-----------------------------------------------------------------------------
(* Properties.                                                             *)

Places == {"ble", "attach", "hello", "arming", "top", "stopping", "checks", "serve",
           "abort", "decide", "rearming", "yield", "acting", "acted", "letgo",
           "driving", "sleep", "raise", "handler", "finally", "done"}

SessionTypeOK == /\ pc \in Places /\ value \in Input
                 /\ paused \in BOOLEAN /\ neutral \in BOOLEAN
                 /\ outcome \in {"none", "exit", "error", "refused", "cancelled"}
                 /\ inputs \in Seq(Input) /\ latest \in Input /\ rearm \in BOOLEAN
                 /\ snap \in {"connecting", "armed", "active", "disabled", "fault"}
                 /\ queued \in BOOLEAN /\ pending \in Nat /\ response \in Nat
                 /\ overdue \in BOOLEAN /\ cooldown \in BOOLEAN
                 /\ emitted \in Nat /\ confirmed \subseteq Nat /\ replies \subseteq Nat
                 /\ lost \subseteq Watched /\ ui \in {"idle", "flagging"}
                 /\ acts \in Nat /\ cancels \in Nat
                 /\ consent \in BOOLEAN /\ late \in Nat

\* Every variable keeps to the values its Python counterpart can take.
TypeOK == ControllerTypeOK /\ SessionTypeOK

\* Whatever ends the session - exit, a lost link, an exception, cancellations
\* at any await - its last stick command is not a movement, unless the send of
\* a stick command itself failed (control/live_wifi.py, the except clause).
SessionLeavesCentered == pc \in {"finally", "done"} /\ wire = "drive" => state = "fault"

\* No sequence of STOPs, pauses, re-arms, gestures, camera actions, releases and
\* restarts brings the session to a call that the controller refuses in its
\* state: to arm one that is armed, or to drive one that is stopped
\* (control/gimbal_controller.py 206-207 and 280-281).
NeverRefused == outcome # "refused"

\* While the UI shows "disabled" (and so offers to re-arm) the stick is not
\* deflected: the snapshot is only set after the centre bursts.
DisabledIsStill == snap = "disabled" => wire # "drive"

\* A camera action (a recentre, a flip) never runs beside a deflected stick:
\* from its datagram to its reply or deadline the last stick command is a centre.
ActionFromRest == pc \in {"acting", "acted"} \/ pending # 0 => wire # "drive"

\* Once a STOP or an exit waits in the queue, at most the one movement already
\* decided on leaves before the loop looks at it.
StopReaction == late <= 1

\* An action is reported as confirmed only if the camera answered that very
\* action, however late the replies to earlier ones arrive.
ConfirmedWasAnswered == confirmed \subseteq replies

\* A user who stops submitting (released, window gone, GUI hung) has the stick
\* centred: a deflected stick does not stay so without a heartbeat.
HeartbeatLossCenters == wire = "drive" ~> (wire = "center" \/ state = "fault")

\* A BLE link that stays down ends the session.
BleLossEnds == <>[]("ble" \in lost) => <>[](pc = "done")

-----------------------------------------------------------------------------
(* What the documents say, where the code does otherwise.                  *)

\* docs/control-ui-architecture.md: "write failure ... still produce center
\* through the single writer".  Checked where nothing is cancelled.
WriteFailureCenters == pc = "done" => wire # "drive"

\* docs/control-ui-architecture.md: "STOP now leaves the control socket ...
\* in a paused state", "a fresh joystick gesture resumes paused control": what
\* resumes a paused session was asked for after the STOP that paused it (a
\* STOP that has not been looked at yet is the next property's concern).
ResumeNeedsConsent == [][pc' = "rearming" /\ pc # "rearming" => consent \/ StopWaiting]_vars

\* ... and a STOP that was pressed is acted upon.
StopIsNotDiscarded == [][StopWaiting /\ inputs' = <<>> => pc = "top" \/ pc = "done"]_vars
=============================================================================
