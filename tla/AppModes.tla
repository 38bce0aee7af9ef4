------------------------------ MODULE AppModes ------------------------------
(***************************************************************************)
(* run_app_modes, the loop that runs one camera mode after the other and   *)
(* owns the camera's livestream, the GTK application it runs in each mode, *)
(* reduced to how it ends, and the window host's exit button.  The normal  *)
(* mode is NormalSession; the livestream mode's control session is         *)
(* LiveControl and appears here as a possible control fault.               *)
(***************************************************************************)
EXTENDS NormalSession

CONSTANT MaxKills    \* bound: kills and reboots

ASSUME KillAssumption == MaxKills \in Nat

VARIABLES app,            \* where run_app_modes is
          mode,           \* current_mode
          owned,          \* livestream_owned
          attempted,      \* stop_attempted
          exitRequested,  \* host.exit_requested
          reason,         \* stop_reason of the running GtkReadOnlyApp
          guiError,       \* its cleanup raised
          chosen,         \* what next_mode made of its result
          appError,       \* result["error"] of the whole run
          ours,           \* history: this launch started a livestream
          kills           \* counter for the bound

modeVars == <<mode, owned, attempted, chosen, appError, ours>>
guiVars == <<reason, guiError>>
appVars == <<app, modeVars, guiVars, exitRequested, kills>>
vars == <<sessionVars, appVars>>

Modes == {"normal", "livestream"}
Reasons == {"unknown", "switch", "quality", "exit"}
GuiPlaces == {"normal", "livestream"}
Stopping == {"first", "second", "third"}   \* which stop() call of the GUI
Places == GuiPlaces \cup Stopping
          \cup {"off", "top", "restoring", "decide", "stopping", "final", "lastStop", "done"}

Init == /\ SoftApInit
        /\ SessionInit
        /\ app = "off"
        /\ mode = "normal"
        /\ owned = FALSE
        /\ attempted = FALSE
        /\ chosen = "none"
        /\ appError = FALSE
        /\ ours = FALSE
        /\ reason = "unknown"
        /\ guiError = FALSE
        /\ exitRequested = FALSE
        /\ kills = 0

Launch == /\ app = "off"
          /\ stage = "none"
          /\ app' = "top"
          /\ mode' \in Modes
          /\ UNCHANGED <<owned, attempted, chosen, appError, ours, guiVars, exitRequested,
                         kills, sessionVars>>

Other(m) == IF m = "normal" THEN "livestream" ELSE "normal"

-----------------------------------------------------------------------------
(* The top of the loop.                                                     *)

EnterNormal == /\ app = "top"
               /\ ~exitRequested
               /\ mode = "normal"
               /\ made < MaxProfiles
               /\ Start(owned)
               /\ app' = "normal"
               /\ UNCHANGED <<modeVars, guiVars, exitRequested, kills>>

EnterLivestream == /\ app = "top"
                   /\ ~exitRequested
                   /\ mode = "livestream"
                   /\ owned' = TRUE
                   /\ attempted' = FALSE
                   /\ ours' = TRUE
                   /\ stopsSent' = 0
                   /\ cut' = FALSE
                   /\ app' = "restoring"
                   /\ UNCHANGED <<mode, chosen, appError, guiVars, exitRequested, kills, apVars,
                                  stage, leave, error, stopped, restored, summary, stopVars, publishing>>

\* The exit was requested, or the run's time is over.
LeaveTop == /\ app = "top"
            /\ app' = "final"
            /\ UNCHANGED <<modeVars, guiVars, exitRequested, kills, sessionVars>>

-----------------------------------------------------------------------------
(* Livestream mode.                                                         *)

StreamRestored == /\ app = "restoring"
                  /\ publishing' = TRUE
                  /\ app' = IF exitRequested THEN "final" ELSE "livestream"
                  /\ UNCHANGED <<modeVars, guiVars, exitRequested, kills,
                                 apVars, taskVars, stopVars, stopsSent>>

\* It failed, or the exit button cancelled it, before or after the camera began.
RestoreFails == /\ app = "restoring"
                /\ publishing' \in {publishing, TRUE}
                /\ app' = "final"
                /\ appError' = TRUE
                /\ UNCHANGED <<mode, owned, attempted, chosen, ours, guiVars, exitRequested,
                               kills, apVars, taskVars, stopVars, stopsSent>>

\* What becomes of a result: stop, raise, or the mode that is next.
NextMode(failed, fault, unrestored) ==
  IF failed \/ reason \notin {"switch", "quality"} THEN "none"
  ELSE IF reason = "quality" THEN "livestream"
  ELSE IF fault \/ unrestored THEN "raise"
  ELSE Other(mode)

\* GtkReadOnlyApp has returned; the next mode makes a new one.
GuiGone == reason' = "unknown" /\ guiError' = FALSE

LivestreamEnds == /\ app = "livestream"
                  /\ reason # "unknown"
                  /\ \E failed, fault \in BOOLEAN :
                       /\ chosen' = NextMode(failed, fault, FALSE)
                       /\ appError' = (appError \/ failed)
                  /\ app' = "decide"
                  /\ GuiGone
                  /\ UNCHANGED <<mode, owned, attempted, ours, exitRequested,
                                 kills, sessionVars>>

\* GtkReadOnlyApp itself raises.
LivestreamRaises == /\ app = "livestream"
                    /\ app' = "final"
                    /\ appError' = TRUE
                    /\ GuiGone
                    /\ UNCHANGED <<mode, owned, attempted, chosen, ours,
                                   exitRequested, kills, sessionVars>>

-----------------------------------------------------------------------------
(* Normal mode: three stop() calls, from _request_stop and from the two     *)
(* branches of the finally block of GtkReadOnlyApp.run.                     *)

GuiStops(from, to) == /\ app = from
                      /\ StopReady
                      /\ CallStopSession
                      /\ app' = to
                      /\ UNCHANGED <<modeVars, reason, exitRequested, kills,
                                     apVars, taskVars, cameraVars>>

FirstStop == reason # "unknown" /\ GuiStops("normal", "first") /\ UNCHANGED guiError

\* What _request_stop catches is an event; what the finally block catches, an error.
SecondStop == GuiStops("first", "second") /\ UNCHANGED guiError
ThirdStop == GuiStops("second", "third") /\ guiError' = (guiError \/ stopCall = "late")

\* The GTK loop raises: only the finally block stops the session.
NormalBreaks == /\ app = "normal"
                /\ app' = "first"
                /\ guiError' = TRUE
                /\ UNCHANGED <<modeVars, reason, exitRequested, kills, sessionVars>>

NormalEnds == /\ app = "third"
              /\ StopReady
              /\ LET failed == guiError \/ stopCall = "late" \/ summary.error
                 IN  /\ \E fault \in BOOLEAN :
                          chosen' = NextMode(failed, fault, summary.given /\ ~summary.restored)
                     /\ appError' = (appError \/ failed)
              /\ owned' = (owned /\ ~summary.stopped)
              /\ app' = "decide"
              /\ GuiGone
              /\ summary' = Empty
              /\ UNCHANGED <<mode, attempted, ours, exitRequested, kills, stage, leave,
                             error, stopped, restored, cut, apVars, stopVars, cameraVars>>

-----------------------------------------------------------------------------
(* The bottom of the loop.                                                  *)

NextRaises == /\ app = "decide"
              /\ chosen = "raise"
              /\ app' = "final"
              /\ chosen' = "none"
              /\ appError' = TRUE
              /\ UNCHANGED <<mode, owned, attempted, ours, guiVars, exitRequested,
                             kills, sessionVars>>

MustStop == owned /\ (chosen # "normal" \/ exitRequested)

\* Mutant: the mode "none" is entered like any other.
TurnAlways == chosen' = "none" /\ app' = "top" /\ mode' = chosen

Turn == /\ chosen' = "none"
        /\ IF chosen = "none" \/ exitRequested
           THEN app' = "final" /\ UNCHANGED mode
           ELSE app' = "top" /\ mode' = chosen

TurnOver == /\ app = "decide"
            /\ chosen # "raise"
            /\ ~MustStop
            /\ Turn
            /\ UNCHANGED <<owned, attempted, appError, ours, guiVars,
                           exitRequested, kills, sessionVars>>

StopStream == /\ app = "decide"
              /\ chosen # "raise"
              /\ MustStop
              /\ attempted' = TRUE
              /\ app' = "stopping"
              /\ UNCHANGED <<mode, owned, chosen, appError, ours, guiVars,
                             exitRequested, kills, sessionVars>>

\* stop_camera_livestream, one command over a BLE connection of its own.
Confirmed == WriteStop /\ publishing' = FALSE
Unconfirmed == StopInDoubt \/ UNCHANGED cameraVars

StreamStops == /\ app = "stopping"
               /\ Confirmed
               /\ owned' = FALSE
               /\ Turn
               /\ UNCHANGED <<attempted, appError, ours, guiVars, exitRequested,
                              kills, apVars, taskVars, stopVars>>

StopFails == /\ app = "stopping"
             /\ Unconfirmed
             /\ app' = "final"
             /\ chosen' = "none"
             /\ appError' = TRUE
             /\ UNCHANGED <<mode, owned, attempted, ours, guiVars, exitRequested,
                            kills, apVars, taskVars, stopVars>>

\* Mutant: the finally block leaves the livestream alone.
FinishLeaving == /\ app = "final"
                 /\ app' = "done"
                 /\ UNCHANGED <<modeVars, guiVars, exitRequested, kills, sessionVars>>

\* The finally block: a livestream nobody tried to stop is stopped here.
Finish == /\ app = "final"
          /\ IF owned /\ ~attempted
             THEN attempted' = TRUE /\ app' = "lastStop"
             ELSE UNCHANGED attempted /\ app' = "done"
          /\ UNCHANGED <<mode, owned, chosen, appError, ours, guiVars, exitRequested,
                         kills, sessionVars>>

LastStop == /\ app = "lastStop"
            /\ \/ Confirmed /\ UNCHANGED appError
               \/ Unconfirmed /\ appError' = TRUE
            /\ app' = "done"
            /\ UNCHANGED <<mode, owned, attempted, chosen, ours, guiVars, exitRequested,
                           kills, apVars, taskVars, stopVars>>

AppGone == /\ app' = "off"
           /\ mode' = "normal"
           /\ owned' = FALSE
           /\ attempted' = FALSE
           /\ chosen' = "none"
           /\ appError' = FALSE
           /\ ours' = FALSE
           /\ reason' = "unknown"
           /\ guiError' = FALSE
           /\ exitRequested' = FALSE

\* The process ends with its last thread.
Quit == /\ app = "done"
        /\ stage = "none"
        /\ AppGone
        /\ ProcessGone
        /\ UNCHANGED <<kills, apVars, cameraVars>>

-----------------------------------------------------------------------------
(* The user, and what may happen at any time.                               *)

\* The mode selector, the format panel or an exit control of the GUI; its
\* first reason stands.
Ask == /\ app \in GuiPlaces
       /\ reason = "unknown"
       /\ reason' \in {"switch", "exit"} \cup (IF app = "livestream" THEN {"quality"} ELSE {})
       /\ exitRequested' = (exitRequested \/ reason' = "exit")
       /\ UNCHANGED <<app, modeVars, guiError, kills, sessionVars>>

\* Mutant: the flag is set but the running GUI is not told.
PressExitQuietly == /\ app \notin {"off", "done"}
                    /\ exitRequested' = TRUE
                    /\ UNCHANGED <<app, modeVars, guiVars, kills, sessionVars>>

\* The exit button of the cover, or a signal: a GUI that still runs is told.
PressExit == /\ app \notin {"off", "done"}
             /\ exitRequested' = TRUE
             /\ reason' = IF app \in GuiPlaces /\ reason = "unknown" THEN "exit" ELSE reason
             /\ UNCHANGED <<app, modeVars, guiError, kills, sessionVars>>

\* The application is killed, alone or with the board.
AppKilled == /\ app # "off"
             /\ kills < MaxKills
             /\ kills' = kills + 1
             /\ AppGone
             /\ SessionKilled

BoardReboots == /\ kills < MaxKills
                /\ kills' = kills + 1
                /\ AppGone
                /\ ProcessGone
                /\ Reboot
                /\ UNCHANGED cameraVars

Environment == RecoveryStep \/ NetworkStep

AppStep == \/ EnterNormal \/ EnterLivestream \/ LeaveTop
           \/ StreamRestored \/ RestoreFails \/ LivestreamEnds \/ LivestreamRaises
           \/ FirstStop \/ NormalBreaks \/ SecondStop \/ ThirdStop \/ NormalEnds
           \/ NextRaises \/ TurnOver \/ StopStream \/ StreamStops \/ StopFails
           \/ Finish \/ LastStop

\* A running GUI need not end before it is asked to.
AppProgress == AppStep /\ (app \in GuiPlaces => reason # "unknown")

Next == \/ AppStep
        \/ (TaskStep \/ StopStep) /\ UNCHANGED appVars
        \/ Launch \/ Quit \/ Ask \/ PressExit
        \/ AppKilled \/ BoardReboots
        \/ Environment /\ UNCHANGED appVars

Spec == Init /\ [][Next]_vars

\* Every await of the session and of the mode loop has a timeout, and join a
\* limit; the livestream GUI is left when it was asked to end; a process whose
\* threads are over exits.
Fairness == /\ WF_vars(AppProgress \/ Quit)
            /\ WF_vars(TaskProgress /\ UNCHANGED appVars)
            /\ WF_vars(StopStep /\ UNCHANGED appVars)

FairSpec == Spec /\ Fairness

-----------------------------------------------------------------------------
\* Every variable keeps to the values the program can give it.
TypeOK == /\ SessionTypeOK
          /\ app \in Places
          /\ mode \in Modes
          /\ {owned, attempted, exitRequested, guiError, appError, ours} \subseteq BOOLEAN
          /\ reason \in Reasons
          /\ chosen \in Modes \cup {"none", "raise"}
          /\ kills \in 0..MaxKills

\* An application that ends without reporting an error leaves no livestream
\* of its own running on the camera, whichever way it was left: exit during
\* the restore, during a switch, a lost stop answer, a cancelled session.
LeavesNoStream == app = "done" /\ ours /\ publishing => appError

\* The step that ends a normal-mode turn and goes on to the next mode.
Switching == app \in {"decide", "stopping"} /\ app' = "top" /\ mode = "normal"

\* The next mode follows a normal session only when that session's profile is
\* gone, except after a session that was cancelled in its finally block.
SwitchNeedsRollback == [][Switching => cut \/ made \notin profiles']_vars

\* Once the exit was requested the process ends, wherever it was: no thread,
\* join or dialog waits for another for ever, not even when stop() came before
\* the session had a task to cancel, or gave up waiting for it.
ExitCloses == exitRequested ~> app = "off"

\* docs/control-ui-architecture.md: "Mode changes complete center/transport/
\* network cleanup before the next session."
SwitchAfterRollback == [][Switching => made \notin profiles']_vars

\* docs/control-ui-architecture.md: the stop command is sent once, and "Failed
\* stop attempts are recorded as failures and are not automatically repeated."
StopSentOnce == stopsSent <= 1
=============================================================================
