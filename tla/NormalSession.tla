---------------------------- MODULE NormalSession ----------------------------
(***************************************************************************)
(* run_normal_session, the coroutine that joins the camera's hotspot and   *)
(* serves its video until it is told to stop, and NormalGuiSession, the    *)
(* thread it runs in and the stop() the user interface calls.  stop() sets *)
(* an event and cancels the task: a cancellation that finds the coroutine  *)
(* in its body leads to the finally block, one that finds it in the        *)
(* finally block ends it there.  The camera's RTMP publisher, which a      *)
(* session that follows a livestream stops over BLE, is modelled by how    *)
(* the code uses it.                                                       *)
(***************************************************************************)
EXTENDS SoftAp

VARIABLES stage,       \* what run_normal_session awaits, "none" when it is over
          leave,       \* leave_livestream: stop the publisher first
          error,       \* summary["error"] is set
          stopped,     \* ble.livestream_stopped
          restored,    \* summary["network_restored"]
          summary,     \* what NormalGuiSession.summary holds
          stopEvent,   \* NormalGuiSession._stop
          stopCall,    \* progress of NormalGuiSession.stop
          publishing,  \* the camera sends its livestream
          stopsSent,   \* stop commands written since a livestream was started
          cut          \* history: the last session was cancelled in its finally

taskVars == <<stage, leave, error, stopped, restored, summary, cut>>
stopVars == <<stopEvent, stopCall>>
cameraVars == <<publishing, stopsSent>>
sessionVars == <<apVars, taskVars, stopVars, cameraVars>>

Connect == {"preflight", "auth", "stopping", "wifi", "join", "udp"}
Body == Connect \cup {"serving"}
Finally == {"centring", "draining", "links", "rollback", "recording"}
Stages == Body \cup Finally \cup {"none", "starting"}
StopCalls == {"none", "cancelling", "joining", "late"}

\* The summary before a session reports, and after an exception it let out.
Empty == [given |-> FALSE, error |-> FALSE, restored |-> FALSE, stopped |-> FALSE]
Failed == [given |-> TRUE, error |-> TRUE, restored |-> FALSE, stopped |-> FALSE]

\* Locals of run_normal_session, gone with its frame.
NoFrame == /\ leave' = FALSE
           /\ error' = FALSE
           /\ stopped' = FALSE
           /\ restored' = FALSE

SessionInit == /\ stage = "none"
               /\ leave = FALSE
               /\ error = FALSE
               /\ stopped = FALSE
               /\ restored = FALSE
               /\ summary = Empty
               /\ stopEvent = FALSE
               /\ stopCall = "none"
               /\ publishing \in BOOLEAN
               /\ stopsSent = 0
               /\ cut = FALSE

-----------------------------------------------------------------------------
(* Starting: the thread, then the coroutine's lock.                         *)

Start(leaveStream) == /\ stage = "none"
                      /\ stage' = "starting"
                      /\ leave' = (leaveStream \/ publishing)
                      /\ summary' = Empty
                      /\ cut' = FALSE
                      /\ stopEvent' = FALSE
                      /\ stopCall' = "none"
                      /\ UNCHANGED <<error, stopped, restored, apVars, cameraVars>>

LockTaken == /\ stage = "starting"
             /\ Acquire
             /\ stage' = "preflight"
             /\ UNCHANGED <<leave, error, stopped, restored, summary, cut, stopVars, cameraVars>>

LockHeld == /\ stage = "starting"
            /\ lock # "free"
            /\ stage' = "none"
            /\ NoFrame
            /\ summary' = Failed
            /\ UNCHANGED <<cut, apVars, stopVars, cameraVars>>

-----------------------------------------------------------------------------
(* The body.                                                                *)

Reach(next) == /\ stage' = next
               /\ UNCHANGED <<leave, error, restored, summary, cut, stopVars>>

\* Twice is as bad as any more: the count stops there.
WriteStop == stopsSent' = IF stopsSent = 2 THEN 2 ELSE stopsSent + 1

PreflightDone == /\ stage = "preflight"
                 /\ Preflight
                 /\ Reach("auth")
                 /\ UNCHANGED <<stopped, cameraVars>>

Authenticated == /\ stage = "auth"
                 /\ Reach(IF leave THEN "stopping" ELSE "wifi")
                 /\ UNCHANGED <<stopped, apVars, cameraVars>>

\* The camera answered the stop command with 00.
StreamStopped == /\ stage = "stopping"
                 /\ WriteStop
                 /\ publishing' = FALSE
                 /\ stopped' = TRUE
                 /\ Reach("wifi")
                 /\ UNCHANGED apVars

CredentialsRead == /\ stage = "wifi"
                   /\ Join
                   /\ Reach("join")
                   /\ UNCHANGED <<stopped, cameraVars>>

Joined == /\ stage = "join"
          /\ Joining
          /\ Reach(IF ap'.step = "joined" THEN "udp" ELSE "join")
          /\ UNCHANGED <<stopped, cameraVars>>

\* Handshake, registration and the one enable are done; the video is served.
Connected == /\ stage = "udp"
             /\ Reach("serving")
             /\ UNCHANGED <<stopped, apVars, cameraVars>>

\* The loop sees the stop event, or its time is over.
ServedOut == /\ stage = "serving"
             /\ Reach("centring")
             /\ UNCHANGED <<stopped, apVars, cameraVars>>

\* The stop command went out without a good answer: lost on the way there,
\* on the way back, or refused.
StopInDoubt == /\ publishing' \in {publishing, FALSE}
               /\ WriteStop

\* What an interrupted stage leaves behind.
Interrupted == CASE stage = "join"     -> CommandLost /\ UNCHANGED cameraVars
                 [] stage = "stopping" -> UNCHANGED apVars /\ (StopInDoubt \/ UNCHANGED cameraVars)
                 [] OTHER              -> UNCHANGED <<apVars, cameraVars>>

\* The control task exists once the session serves.
Unwinding == IF stage = "serving" THEN "centring" ELSE "draining"

\* An exception in the body, among them join's refusal of a leftover file.
BodyFails == /\ stage \in Body
             /\ Interrupted
             /\ error' = TRUE
             /\ stage' = Unwinding
             /\ UNCHANGED <<leave, stopped, restored, summary, cut, stopVars>>

\* stop() has set the event before it cancels, so this is no error.
BodyCancelled == /\ stage \in Body
                 /\ Interrupted
                 /\ stage' = Unwinding
                 /\ UNCHANGED <<leave, error, stopped, restored, summary, cut>>

-----------------------------------------------------------------------------
(* The finally block.                                                       *)

\* The control task is centred and gone.
ControlEnded == /\ stage = "centring"
                /\ Reach("draining")
                /\ UNCHANGED <<stopped, apVars, cameraVars>>

\* Receiver, ACK and heartbeat tasks are gone.
WorkersEnded == /\ stage = "draining"
                /\ Reach("links")
                /\ UNCHANGED <<stopped, apVars, cameraVars>>

\* Player, socket, BLE link and captures are closed; cleanup starts, or has
\* nothing to do when join never got as far as the file.
LinksClosed == /\ stage = "links"
               /\ \/ Cleanup /\ Reach("rollback")
                  \/ /\ ~ap.created
                     /\ stage' = "recording"
                     /\ restored' = TRUE
                     /\ UNCHANGED <<leave, error, summary, cut, stopVars, apVars>>
               /\ UNCHANGED <<stopped, cameraVars>>

RolledBack == /\ stage = "rollback"
              /\ Cleaning
              /\ restored' = (ap'.step = "idle")
              /\ stage' = IF restored' THEN "recording" ELSE "rollback"
              /\ UNCHANGED <<leave, error, stopped, summary, cut, stopVars, cameraVars>>

\* Mutant: network_restored is set whether or not cleanup raised.
RollbackFailsUnseen == /\ stage = "rollback"
                       /\ CommandLost
                       /\ stage' = "recording"
                       /\ restored' = TRUE
                       /\ UNCHANGED <<leave, error, stopped, summary, cut, stopVars, cameraVars>>

RollbackFails == /\ stage = "rollback"
                 /\ CommandLost
                 /\ Reach("recording")
                 /\ UNCHANGED <<stopped, cameraVars>>

\* The coroutine is over: its frame goes, and with it the lock.
End(report) == /\ Leave
               /\ stage' = "none"
               /\ NoFrame
               /\ summary' = report
               /\ UNCHANGED <<stopVars, cameraVars>>

\* NormalGuiSession counts a missing rollback as an error.
Reported == /\ stage = "recording"
            /\ End([given |-> TRUE, error |-> error \/ ~restored,
                    restored |-> restored, stopped |-> stopped])
            /\ UNCHANGED cut

\* A capture that cannot be killed, or the final chown, raises out of the block.
FinallyRaises == /\ stage \in {"links", "recording"}
                 /\ End(Failed)
                 /\ UNCHANGED cut

\* A cancellation in the finally block: nothing after it runs, and the summary
\* stays what it was before the session.
FinallyCancelled == /\ stage \in Finally
                    /\ Leave
                    /\ stage' = "none"
                    /\ NoFrame
                    /\ cut' = TRUE
                    /\ UNCHANGED <<summary, cameraVars>>

-----------------------------------------------------------------------------
(* NormalGuiSession.stop, called by the user interface's thread.            *)

StopReady == stopCall \in {"none", "late"}

\* A thread that is over needs no stop.
CallStopSession == /\ StopReady
                   /\ IF stage = "none"
                      THEN stopCall' = "none" /\ stopEvent' = FALSE
                      ELSE stopCall' = "cancelling" /\ stopEvent' = TRUE

\* The cancellation reaches the event loop between two steps of the task; a
\* task that has not run yet has no handle to cancel, one that is over none left.
StopCancels == /\ stopCall = "cancelling"
               /\ ap.step # "writing"
               /\ stopCall' = "joining"
               /\ \/ BodyCancelled
                  \/ FinallyCancelled
                  \/ /\ stage \in {"none", "starting"}
                     /\ UNCHANGED <<apVars, taskVars, cameraVars>>
               /\ UNCHANGED stopEvent

\* join(55) returns with the thread, or without it and stop() raises.
StopReturns == /\ stopCall = "joining"
               /\ stage = "none"
               /\ stopCall' = "none"
               /\ stopEvent' = FALSE
               /\ UNCHANGED <<apVars, taskVars, cameraVars>>

StopTimesOut == /\ stopCall = "joining"
                /\ stage # "none"
                /\ stopCall' = "late"
                /\ UNCHANGED <<apVars, taskVars, stopEvent, cameraVars>>

-----------------------------------------------------------------------------
\* Steps the coroutine takes by itself.
TaskStep == \/ LockTaken \/ LockHeld
            \/ PreflightDone \/ Authenticated \/ StreamStopped \/ CredentialsRead
            \/ Joined \/ Connected \/ ServedOut \/ BodyFails
            \/ ControlEnded \/ WorkersEnded \/ LinksClosed
            \/ RolledBack \/ RollbackFails \/ Reported \/ FinallyRaises

\* A session only stops serving when it is asked to.
TaskProgress == TaskStep /\ (stage = "serving" => stopEvent)

StopStep == StopCancels \/ StopReturns \/ StopTimesOut

\* What the thread and its NormalGuiSession kept is gone with the process.
ProcessGone == /\ stage' = "none"
               /\ NoFrame
               /\ summary' = Empty
               /\ cut' = FALSE
               /\ stopEvent' = FALSE
               /\ stopCall' = "none"

\* The process is killed, whatever it was doing.
SessionKilled == /\ IF lock = "session" THEN Killed ELSE UNCHANGED apVars
                 /\ ProcessGone
                 /\ UNCHANGED cameraVars

\* normal-cleanup, in a process of its own.
RecoveryStep == /\ \/ RecoveryStarts
                   \/ lock = "recovery" /\ (Cleaning \/ Leave)
                /\ UNCHANGED <<taskVars, stopVars, cameraVars>>

\* wlan0 on its own.
NetworkStep == Drift /\ UNCHANGED <<taskVars, stopVars, cameraVars>>

\* Every variable keeps to the values the program can give it.
SessionTypeOK == /\ SoftApTypeOK
                 /\ stage \in Stages
                 /\ {leave, error, stopped, restored, stopEvent, publishing, cut}
                      \subseteq BOOLEAN
                 /\ summary \in [given : BOOLEAN, error : BOOLEAN,
                                 restored : BOOLEAN, stopped : BOOLEAN]
                 /\ stopCall \in StopCalls
                 /\ stopsSent \in 0..2
=============================================================================
