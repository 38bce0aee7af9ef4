---------------------------- MODULE AppModes_proofs ----------------------------
(***************************************************************************)
(* The rollback file always leads back to the temporary profile, for any   *)
(* number of sessions, recoveries, crashes, reboots and failed commands.   *)
(* The application, however its modes, threads and cancellations           *)
(* interleave, uses the profile only as SoftAp allows; what is proved of   *)
(* SoftAp holds of every run of the program.                               *)
(***************************************************************************)
EXTENDS AppModes, TLAPS

-----------------------------------------------------------------------------
(* The network manager and the recovery, by themselves.                     *)

\* No owner, no manager.
FreeIdle == lock = "free" => ap = NoManager

\* Every manager, and every file that can be read, has drawn its number.
DrawnProfiles == /\ lock # "free" => ap.profile # 0
                 /\ stateFile.kind = "named" => stateFile.profile # 0

\* A manager that may have changed NetworkManager is the one the file names.
CreatedNamed == ap.created => stateFile = Named(ap.profile, ap.previous)

\* join and cleanup work on a created manager, from the write on; before the
\* write there is no other session's file.
StepState == /\ ap.step \in {"adding", "activating", "routing", "joined", "listing",
                             "deleting", "reconnecting", "checking"} => ap.created
             /\ ap.step = "preflight" => ~ap.created /\ stateFile = NoFile
             /\ ap.step = "writing" => ~ap.created /\ stateFile = Truncated
                                       /\ ap.previous # "pocket"

\* The profile exists before it is activated, and is gone before wlan0 is
\* reconnected and the file removed.
StepProfile == /\ ap.step = "activating" => ap.profile \in profiles
               /\ ap.step \in {"reconnecting", "checking"} => ap.profile \notin profiles

\* Only our profile knows the hotspot.
PocketHasProfile == wlan = "pocket" => profiles # {}

SoftApInv == /\ SoftApTypeOK
             /\ Recoverable
             /\ HomeIsNotPocket
             /\ FreeIdle
             /\ DrawnProfiles
             /\ CreatedNamed
             /\ StepState
             /\ StepProfile
             /\ PocketHasProfile

\* A fresh board has neither file nor profile.
LEMMA SoftApInitInvariant == SoftApInit => SoftApInv
BY ProfilesAssumption
   DEF SoftApInit, SoftApInv, SoftApTypeOK, Recoverable, HomeIsNotPocket, FreeIdle, DrawnProfiles, CreatedNamed,
       StepState, StepProfile, PocketHasProfile, NoManager, NoFile, Networks, Owners, ApSteps, Commands

\* What a command left behind when it was cut short keeps the profiles among
\* those the file names, and wlan0 off the hotspot without one.
LEMMA HalfDoneKeeps ==
  ASSUME SoftApInv, HalfDone
  PROVE  /\ profiles' \subseteq 1..MaxProfiles
         /\ \A p \in profiles' : stateFile.kind = "named" /\ stateFile.profile = p
         /\ wlan' \in Networks
         /\ wlan' = "pocket" => profiles' # {}
<1> USE DEF SoftApInv, SoftApTypeOK, Recoverable, HomeIsNotPocket, CreatedNamed, StepState, StepProfile,
            PocketHasProfile, Networks, Named
<1>1. CASE UNCHANGED <<profiles, wlan>>
  BY <1>1
<1>2. CASE ap.step = "adding" /\ AddProfile
  <2>1. ap.profile \in 1..MaxProfiles
    BY <1>2, ProfilesAssumption DEF FreeIdle, NoManager, DrawnProfiles
  <2>2. ap.created /\ stateFile.kind = "named" /\ stateFile.profile = ap.profile
    BY <1>2
  <2> QED
    BY <1>2, <2>1, <2>2 DEF AddProfile
<1>3. CASE ap.step = "activating" /\ Activate
  BY <1>3 DEF Activate
<1>4. CASE ap.step = "deleting" /\ DeleteProfile
  BY <1>4 DEF DeleteProfile
<1>5. CASE ap.step = "reconnecting" /\ Reconnect
  BY <1>5 DEF Reconnect
<1> QED
  BY <1>1, <1>2, <1>3, <1>4, <1>5 DEF HalfDone

\* Every step of any owner of the lock keeps the invariant (network/softap.py).
LEMMA SoftApStepInvariant ==
  ASSUME SoftApInv, [SoftApNext]_apVars
  PROVE  SoftApInv'
<1> USE ProfilesAssumption
<1>1. CASE Leave \/ Killed
  <2>1. /\ HalfDone
        /\ lock' = "free" /\ ap' = NoManager
        /\ UNCHANGED <<stateFile, made>>
    BY <1>1 DEF Leave, Killed
  <2> QED
    BY <2>1, HalfDoneKeeps
       DEF SoftApInv, SoftApTypeOK, Recoverable, HomeIsNotPocket, FreeIdle, DrawnProfiles, CreatedNamed,
           StepState, StepProfile, PocketHasProfile, NoManager, Networks, Owners, ApSteps, Commands
<1>2. CASE CommandLost
  <2>1. /\ HalfDone
        /\ ap.step # "writing"
        /\ ap' = [ap EXCEPT !.step = "idle"]
        /\ UNCHANGED <<stateFile, lock, made>>
    BY <1>2 DEF CommandLost, Step, Commands
  <2> QED
    BY <2>1, <1>2, HalfDoneKeeps
       DEF SoftApInv, SoftApTypeOK, Recoverable, HomeIsNotPocket, FreeIdle, DrawnProfiles, CreatedNamed,
           StepState, StepProfile, PocketHasProfile, NoManager, Networks, Owners, ApSteps, Commands, Named,
           CommandLost
<1> USE DEF SoftApInv, SoftApTypeOK, Recoverable, HomeIsNotPocket, FreeIdle, DrawnProfiles, CreatedNamed,
            StepState, StepProfile, PocketHasProfile, NoManager, NoFile, Truncated, Named, Networks, Owners,
            ApSteps, Commands, Step
<1>3. CASE Acquire
  <2>1. made + 1 \in 1..MaxProfiles
    BY <1>3 DEF Acquire
  <2>2. ap' = [step |-> "idle", profile |-> made + 1, previous |-> "none", created |-> FALSE]
    BY <1>3 DEF Acquire
  <2>3. /\ ap' \in [step : ApSteps, profile : 0..MaxProfiles, previous : Networks, created : BOOLEAN]
        /\ ap'.step = "idle" /\ ~ap'.created /\ ap'.profile # 0
    BY <2>1, <2>2
  <2>4. SoftApTypeOK'
    BY <1>3, <2>1, <2>3 DEF Acquire
  <2> QED
    BY <1>3, <2>3, <2>4 DEF Acquire
<1>4. CASE RecoveryStarts
  BY <1>4 DEF RecoveryStarts
<1>5. CASE Reboot
  BY <1>5 DEF Reboot
<1>6. CASE Drift
  BY <1>6 DEF Drift
<1>7. CASE Preflight
  BY <1>7 DEF Preflight
<1>8. CASE Join
  BY <1>8 DEF Join
<1>9. CASE OpenFile
  <2>1. profiles = {} /\ wlan # "pocket" /\ lock # "free"
    BY <1>9 DEF OpenFile
  <2>2. /\ ap' \in [step : ApSteps, profile : 0..MaxProfiles, previous : Networks, created : BOOLEAN]
        /\ ap'.step = "writing" /\ ap'.previous # "pocket" /\ ~ap'.created
        /\ ap'.profile = ap.profile
    BY <1>9, <2>1 DEF OpenFile
  <2> QED
    BY <1>9, <2>1, <2>2 DEF OpenFile
<1>10. CASE WriteFile
  <2>1. profiles = {} /\ lock # "free" /\ ap.previous # "pocket"
    BY <1>10 DEF WriteFile
  <2>2. /\ ap' \in [step : ApSteps, profile : 0..MaxProfiles, previous : Networks, created : BOOLEAN]
        /\ ap'.step = "adding" /\ ap'.previous = ap.previous /\ ap'.created
        /\ ap'.profile = ap.profile
    BY <1>10 DEF WriteFile
  <2> QED
    BY <1>10, <2>1, <2>2 DEF WriteFile
<1>11. CASE Added
  BY <1>11 DEF Added, AddProfile
<1>12. CASE Activated
  BY <1>12 DEF Activated, Activate
<1>13. CASE Routed
  BY <1>13 DEF Routed
<1>14. CASE Cleanup
  BY <1>14 DEF Cleanup
<1>15. CASE Listed
  BY <1>15 DEF Listed, Reconnecting
<1>16. CASE Deleted
  BY <1>16 DEF Deleted, DeleteProfile, Reconnecting
<1>17. CASE Reconnected
  BY <1>17 DEF Reconnected, Reconnect
<1>18. CASE Restored
  <2>1. profiles = {} /\ lock # "free"
    BY <1>18 DEF Restored
  <2>2. /\ ap' \in [step : ApSteps, profile : 0..MaxProfiles, previous : Networks, created : BOOLEAN]
        /\ ap'.step = "idle" /\ ~ap'.created /\ ap'.profile = ap.profile
    BY <1>18 DEF Restored
  <2> QED
    BY <1>18, <2>1, <2>2 DEF Restored
<1>19. CASE UNCHANGED apVars
  BY <1>19 DEF apVars
<1> QED
  BY <1>1, <1>2, <1>3, <1>4, <1>5, <1>6, <1>7, <1>8, <1>9, <1>10, <1>11, <1>12, <1>13, <1>14, <1>15,
     <1>16, <1>17, <1>18, <1>19 DEF SoftApNext, Joining, Cleaning

\* The inductive invariant holds of every behaviour.
THEOREM SoftApInvariant == SoftApSpec => []SoftApInv
BY SoftApInitInvariant, SoftApStepInvariant, PTL DEF SoftApSpec

\* The variables keep to their types.
THEOREM SoftApTypes == SoftApSpec => []SoftApTypeOK
<1>1. SoftApInv => SoftApTypeOK
  BY DEF SoftApInv
<1> QED
  BY <1>1, SoftApInvariant, PTL

\* After any crash normal-cleanup finds every profile of ours by the file.
THEOREM AlwaysRecoverable == SoftApSpec => []Recoverable
<1>1. SoftApInv => Recoverable
  BY DEF SoftApInv
<1> QED
  BY <1>1, SoftApInvariant, PTL

\* A rollback never "restores" the camera's own hotspot.
THEOREM HomeNeverPocket == SoftApSpec => []HomeIsNotPocket
<1>1. SoftApInv => HomeIsNotPocket
  BY DEF SoftApInv
<1> QED
  BY <1>1, SoftApInvariant, PTL

\* Only the end of a rollback takes a readable file away.
LEMMA FileGoesLast ==
  ASSUME SoftApInv, SoftApNext, stateFile.kind = "named", stateFile'.kind # "named"
  PROVE  Restored
BY DEF SoftApNext, SoftApInv, StepState, Acquire, RecoveryStarts, Leave, Killed, Reboot, Drift, Preflight,
       Join, Joining, OpenFile, WriteFile, Added, Activated, Routed, Cleanup, Cleaning, Listed, Deleted,
       Reconnected, CommandLost, NoFile, Named

\* When the file goes, the profile is gone and wlan0 is off the hotspot.
THEOREM RestoredClean == SoftApSpec => RestoredIsClean
<1>1. ASSUME SoftApInv, [SoftApNext]_apVars
      PROVE  [stateFile.kind = "named" /\ stateFile'.kind # "named"
                => profiles' = {} /\ wlan' # "pocket"]_apVars
  <2>1. SUFFICES ASSUME SoftApNext, stateFile.kind = "named", stateFile'.kind # "named"
                 PROVE  profiles' = {} /\ wlan' # "pocket"
    BY <1>1
  <2>2. Restored
    BY <1>1, <2>1, FileGoesLast
  <2>3. profiles = {}
    BY <1>1, <2>2 DEF SoftApInv, Recoverable, CreatedNamed, StepState, StepProfile, Restored, Named
  <2> QED
    BY <1>1, <2>2, <2>3 DEF SoftApInv, PocketHasProfile, Restored
<1> QED
  BY <1>1, SoftApInvariant, PTL DEF SoftApSpec, RestoredIsClean

-----------------------------------------------------------------------------
(* Mode loop, thread and coroutine.                                         *)

\* Each step the coroutine takes by itself is a step of its network manager
\* or leaves the network alone (workflows/pocket3_normal.py).
LEMMA TaskImplements == TaskStep => [SoftApNext]_apVars
<1>1. SUFFICES ASSUME TaskStep
               PROVE  SoftApNext \/ UNCHANGED apVars
  OBVIOUS
<1>2. CASE LockTaken
  BY <1>2 DEF LockTaken, SoftApNext
<1>3. CASE PreflightDone \/ CredentialsRead \/ Joined
  BY <1>3 DEF PreflightDone, CredentialsRead, Joined, SoftApNext
<1>4. CASE BodyFails
  BY <1>4 DEF BodyFails, Interrupted, SoftApNext
<1>5. CASE LinksClosed \/ RolledBack \/ RollbackFails
  BY <1>5 DEF LinksClosed, RolledBack, RollbackFails, SoftApNext
<1>6. CASE Reported \/ FinallyRaises
  BY <1>6 DEF Reported, FinallyRaises, End, SoftApNext
<1>7. CASE LockHeld \/ Authenticated \/ StreamStopped \/ Connected \/ ServedOut
           \/ ControlEnded \/ WorkersEnded
  BY <1>7 DEF LockHeld, Authenticated, StreamStopped, Connected, ServedOut, ControlEnded, WorkersEnded
<1> QED
  BY <1>1, <1>2, <1>3, <1>4, <1>5, <1>6, <1>7 DEF TaskStep

\* So is each step of stop(): a cancellation loses the command in flight, or
\* ends the coroutine (app/normal_session.py).
LEMMA StopImplements == StopStep => [SoftApNext]_apVars
BY DEF StopStep, StopCancels, StopReturns, StopTimesOut, BodyCancelled, FinallyCancelled, Interrupted,
       SoftApNext

\* The mode loop and its GUI never touch the network themselves (app/modes.py).
LEMMA AppLeavesNetwork == AppStep => UNCHANGED apVars
BY DEF AppStep, EnterNormal, Start, EnterLivestream, LeaveTop, StreamRestored, RestoreFails,
       LivestreamEnds, LivestreamRaises, FirstStop, NormalBreaks, SecondStop, ThirdStop, GuiStops,
       NormalEnds, NextRaises, TurnOver, StopStream, StreamStops, StopFails, Finish, LastStop, sessionVars

\* Kills, reboots, recoveries and wlan0's own moves are those SoftAp knows.
LEMMA OutsideImplements ==
  AppKilled \/ BoardReboots \/ Environment => [SoftApNext]_apVars
BY DEF AppKilled, SessionKilled, BoardReboots, Environment, RecoveryStep, NetworkStep, SoftApNext

\* The detailed specification implements the abstract one: sessions that are
\* started, stopped, cancelled and killed in any order are SoftAp's owner.
THEOREM ImplementsSoftAp == Spec => SoftApSpec
<1>1. Init => SoftApInit
  BY DEF Init
<1>2. [Next]_vars => [SoftApNext]_apVars
  BY TaskImplements, StopImplements, AppLeavesNetwork, OutsideImplements
     DEF Next, Launch, Quit, Ask, PressExit, vars, sessionVars
<1> QED
  BY <1>1, <1>2, PTL DEF Spec, SoftApSpec

\* Whenever the application or the board dies, the file names every profile
\* that is left.
THEOREM AppRecoverable == Spec => []Recoverable
BY ImplementsSoftAp, AlwaysRecoverable, PTL

\* No rollback of the application returns to the hotspot.
THEOREM AppHomeNotPocket == Spec => []HomeIsNotPocket
BY ImplementsSoftAp, HomeNeverPocket, PTL

\* The application reports the network restored only when it is.
THEOREM AppRestoresClean == Spec => RestoredIsClean
BY ImplementsSoftAp, RestoredClean, PTL

-----------------------------------------------------------------------------
(* What a session knows of the network, and the mode loop of its sessions.  *)

\* The session that holds the lock works on the profile drawn last, which is
\* there only between the write of the file and the end of the rollback.
OwnerInv ==
    /\ lock = "session" <=> stage \notin {"none", "starting"}
    /\ lock = "session" => ap.profile = made
    /\ lock = "session" /\ ~ap.created => made \notin profiles
    /\ profiles \subseteq 1..made
    /\ ap.step \in {"preflight", "writing", "adding", "activating", "routing", "joined"}
          => lock = "session"

\* Which of its manager's commands the coroutine awaits.
AwaitsInv ==
    /\ stage = "join" => ap.step \in {"preflight", "writing", "adding", "activating", "routing"}
    /\ stage = "rollback" => ap.step \in {"listing", "deleting", "reconnecting", "checking"}
    /\ stage \notin {"none", "starting", "join", "rollback"} => ap.step \in {"idle", "joined"}

\* What a session, or its summary, reports has happened.
ReportInv ==
    /\ stage = "none" => ~stopped /\ ~restored
    /\ stage # "none" => summary = Empty
    /\ restored => stage = "recording" /\ ap.step = "idle" /\ made \notin profiles
    /\ stopped \/ summary.stopped => ~publishing
    /\ summary.given /\ ~summary.error => made \notin profiles

NormalPlaces == {"normal"} \cup Stopping

\* The loop goes on only over a session that is over.
LoopInv ==
    /\ app \in {"off", "top", "restoring", "livestream"} => stage = "none" /\ summary = Empty
    /\ app \in {"restoring", "livestream"} => mode = "livestream"
    /\ app = "restoring" => owned /\ ~attempted
    /\ app = "stopping" => chosen # "raise"
    /\ app \in NormalPlaces => reason # "quality"
    /\ app \notin NormalPlaces \cup {"livestream"} => reason = "unknown"
    /\ app \in NormalPlaces /\ stage = "none" => cut \/ summary.given
    /\ app \in {"second", "third"} /\ stopCall = "none" => stage = "none"
    /\ app \in {"decide", "stopping"} /\ chosen # "none" =>
          /\ stage = "none" /\ summary = Empty
          /\ mode = "normal" /\ chosen # "raise" => cut \/ made \notin profiles

\* A livestream of this launch that the camera still sends is the loop's to
\* stop: it has not tried to, is trying, or has reported that it failed.
DebtInv == ours /\ publishing /\ ~appError =>
              /\ owned /\ app # "done"
              /\ attempted => app \in {"stopping", "lastStop"}

AppInv == SoftApInv /\ OwnerInv /\ AwaitsInv /\ ReportInv /\ LoopInv /\ DebtInv

\* What a step of the session's threads does for the loop.
LEMMA SessionAlone ==
  ASSUME ReportInv, TaskStep \/ StopStep
  PROVE  /\ stage = "none" => UNCHANGED <<stage, summary, cut, made, profiles>>
         /\ stage # "none" /\ stage' = "none" => cut' \/ summary'.given
         /\ publishing' => publishing
         /\ stopCall # "none" /\ stopCall' = "none" => stage' = "none"
<1> USE DEF StopInDoubt, WriteStop, Reach, apVars, taskVars, stopVars, cameraVars
<1>1. CASE LockTaken \/ LockHeld
  BY <1>1 DEF LockTaken, LockHeld, Failed
<1>2. CASE PreflightDone \/ Authenticated \/ StreamStopped \/ CredentialsRead \/ Joined \/ Connected \/ ServedOut
  BY <1>2 DEF PreflightDone, Authenticated, StreamStopped, CredentialsRead, Joined, Connected, ServedOut
<1>3. CASE BodyFails
  BY <1>3 DEF BodyFails, Interrupted, Unwinding, Body, Connect
<1>4. CASE ControlEnded \/ WorkersEnded \/ LinksClosed \/ RolledBack \/ RollbackFails
  BY <1>4 DEF ControlEnded, WorkersEnded, LinksClosed, RolledBack, RollbackFails
<1>5. CASE Reported \/ FinallyRaises
  BY <1>5 DEF Reported, FinallyRaises, End, Failed
<1>6. CASE StopCancels
  <2>1. CASE BodyCancelled
    BY <2>1, <1>6 DEF StopCancels, BodyCancelled, Interrupted, Unwinding, Body, Connect
  <2>2. CASE FinallyCancelled
    BY <2>2, <1>6 DEF StopCancels, FinallyCancelled, Finally
  <2> QED
    BY <2>1, <2>2, <1>6 DEF StopCancels
<1>7. CASE StopReturns \/ StopTimesOut
  BY <1>7 DEF StopReturns, StopTimesOut
<1> QED
  BY <1>1, <1>2, <1>3, <1>4, <1>5, <1>6, <1>7 DEF TaskStep, StopStep

\* A command in flight that was cut short adds no profile but the session's.
LEMMA CutShort ==
  ASSUME SoftApInv, OwnerInv, HalfDone
  PROVE  /\ profiles' \subseteq 1..made
         /\ ap.step # "adding" => profiles' \subseteq profiles
<1>1. ap.step = "adding" => ap.profile = made /\ made \in 1..made
  <2> SUFFICES ASSUME ap.step = "adding" PROVE ap.profile = made /\ made \in 1..made
    OBVIOUS
  <2>1. lock = "session" /\ ap.profile = made
    BY DEF OwnerInv
  <2>2. made \in Nat /\ ap.profile # 0
    BY <2>1, ProfilesAssumption DEF SoftApInv, SoftApTypeOK, DrawnProfiles
  <2> QED
    BY <2>1, <2>2
<1> QED
  BY <1>1 DEF HalfDone, AddProfile, Activate, DeleteProfile, Reconnect, OwnerInv

LEMMA TaskKeepsOwner ==
  ASSUME SoftApInv, OwnerInv, AwaitsInv, TaskStep
  PROVE  OwnerInv' /\ AwaitsInv'
<1> USE DEF OwnerInv, AwaitsInv, Step, Reach, apVars, NoManager
<1>0. made \in Nat
  BY ProfilesAssumption DEF SoftApInv, SoftApTypeOK
<1>1. CASE LockTaken
  BY <1>0, <1>1 DEF LockTaken, Acquire
<1>2. CASE LockHeld
  BY <1>2 DEF LockHeld
<1>3. CASE PreflightDone \/ CredentialsRead
  BY <1>3 DEF PreflightDone, CredentialsRead, Preflight, Join, SoftApInv, SoftApTypeOK
<1>4. CASE Joined
  <2>1. lock = "session" /\ ap.step \in {"preflight", "writing", "adding", "activating", "routing"}
    BY <1>4 DEF Joined
  <2>2. ap.step = "adding" => made \in 1..made
    BY <2>1, <1>0, ProfilesAssumption DEF SoftApInv, DrawnProfiles
  <2>3. CASE OpenFile \/ WriteFile \/ Activated \/ Routed
    BY <2>1, <2>3, <1>4 DEF Joined, OpenFile, WriteFile, Activated, Activate, Routed, SoftApInv, SoftApTypeOK
  <2>4. CASE Added
    BY <2>1, <2>2, <2>4, <1>4 DEF Joined, Added, AddProfile, SoftApInv, SoftApTypeOK, StepState
  <2> QED
    BY <2>3, <2>4, <1>4 DEF Joined, Joining
<1>5. CASE Authenticated \/ StreamStopped \/ Connected \/ ServedOut \/ ControlEnded \/ WorkersEnded
  BY <1>5 DEF Authenticated, StreamStopped, Connected, ServedOut, ControlEnded, WorkersEnded
<1>6. CASE BodyFails
  <2>1. CASE stage = "join"
    <3>1. CommandLost /\ stage' = "draining"
      BY <2>1, <1>6 DEF BodyFails, Interrupted, Unwinding
    <3>2. HalfDone /\ ap' = [ap EXCEPT !.step = "idle"] /\ UNCHANGED <<lock, made>>
      BY <3>1 DEF CommandLost
    <3>3. profiles' \subseteq 1..made /\ (~ap.created => profiles' \subseteq profiles)
      BY <3>2, CutShort DEF SoftApInv, StepState
    <3> QED
      BY <2>1, <3>1, <3>2, <3>3 DEF SoftApInv, SoftApTypeOK
  <2>2. CASE stage # "join"
    <3>1. UNCHANGED apVars /\ stage \in Body /\ stage' \in {"centring", "draining"}
      BY <2>2, <1>6 DEF BodyFails, Interrupted, Unwinding
    <3> QED
      BY <2>2, <3>1 DEF Body, Connect
  <2> QED
    BY <2>1, <2>2
<1>7. CASE LinksClosed
  BY <1>7 DEF LinksClosed, Cleanup, SoftApInv, SoftApTypeOK
<1>8. CASE RolledBack
  <2>1. lock = "session" /\ stage' = IF ap'.step = "idle" THEN "recording" ELSE "rollback"
    BY <1>8 DEF RolledBack
  <2>2. CASE Listed \/ Deleted \/ Reconnected
    BY <2>1, <2>2, <1>8 DEF RolledBack, Listed, Deleted, DeleteProfile, Reconnected, Reconnect, Reconnecting,
       SoftApInv, SoftApTypeOK
  <2>3. CASE Restored
    BY <2>1, <2>3, <1>8 DEF RolledBack, Restored, SoftApInv, SoftApTypeOK, StepProfile
  <2> QED
    BY <2>2, <2>3, <1>8 DEF RolledBack, Cleaning
<1>9. CASE RollbackFails
  <2>1. HalfDone /\ ap' = [ap EXCEPT !.step = "idle"] /\ UNCHANGED <<lock, made>>
    BY <1>9 DEF RollbackFails, CommandLost
  <2>2. profiles' \subseteq 1..made /\ profiles' \subseteq profiles
    BY <2>1, <1>9, CutShort DEF RollbackFails
  <2> QED
    BY <2>1, <2>2, <1>9 DEF RollbackFails, SoftApInv, SoftApTypeOK
<1>10. CASE Reported \/ FinallyRaises
  <2>1. Leave /\ stage' = "none"
    BY <1>10 DEF Reported, FinallyRaises, End
  <2>2. profiles' \subseteq 1..made
    BY <2>1, CutShort DEF Leave
  <2> QED
    BY <2>1, <2>2 DEF Leave
<1> QED
  BY <1>1, <1>2, <1>3, <1>4, <1>5, <1>6, <1>7, <1>8, <1>9, <1>10 DEF TaskStep

LEMMA TaskKeepsReport ==
  ASSUME SoftApInv, OwnerInv, AwaitsInv, ReportInv, TaskStep
  PROVE  ReportInv'
<1> USE DEF ReportInv, Reach, apVars, taskVars, stopVars, cameraVars, Empty, Failed
<1>1. CASE LockTaken
  BY <1>1 DEF LockTaken
<1>2. CASE LockHeld
  BY <1>2 DEF LockHeld, NoFrame
<1>3. CASE PreflightDone \/ Authenticated \/ CredentialsRead \/ Joined \/ Connected \/ ServedOut
  BY <1>3 DEF PreflightDone, Authenticated, CredentialsRead, Joined, Connected, ServedOut
<1>4. CASE StreamStopped
  BY <1>4 DEF StreamStopped
<1>5. CASE BodyFails
  <2>1. /\ stage \in Body /\ stage' \in {"centring", "draining"}
        /\ UNCHANGED <<stopped, restored, summary>>
    BY <1>5 DEF BodyFails, Unwinding
  <2>2. publishing' => publishing
    BY <1>5 DEF BodyFails, Interrupted, StopInDoubt
  <2> QED
    BY <2>1, <2>2 DEF Body, Connect
<1>6. CASE ControlEnded \/ WorkersEnded
  BY <1>6 DEF ControlEnded, WorkersEnded
<1>7. CASE LinksClosed
  BY <1>7 DEF LinksClosed, Cleanup, OwnerInv, AwaitsInv, SoftApInv, StepState
<1>8. CASE RolledBack
  <2>1. CASE ap'.step = "idle"
    <3>1. Restored
      BY <2>1, <1>8 DEF RolledBack, Cleaning, Listed, Deleted, Reconnected, Step, Reconnecting,
         SoftApInv, SoftApTypeOK
    <3>2. made' \notin profiles'
      BY <3>1, <1>8 DEF RolledBack, Restored, OwnerInv, SoftApInv, StepProfile
    <3> QED
      BY <2>1, <3>2, <1>8 DEF RolledBack
  <2>2. CASE ap'.step # "idle"
    <3>1. restored' = FALSE /\ stage' = "rollback" /\ UNCHANGED <<stopped, summary, publishing>>
      BY <2>2, <1>8 DEF RolledBack
    <3> QED
      BY <3>1, <1>8 DEF RolledBack
  <2> QED
    BY <2>1, <2>2
<1>9. CASE RollbackFails
  BY <1>9 DEF RollbackFails
<1>10. CASE Reported
  <2>1. restored => profiles' = profiles
    BY <1>10 DEF Reported, End, Leave, HalfDone
  <2> QED
    BY <2>1, <1>10 DEF Reported, End, NoFrame, Leave
<1>11. CASE FinallyRaises
  BY <1>11 DEF FinallyRaises, End, NoFrame
<1> QED
  BY <1>1, <1>2, <1>3, <1>4, <1>5, <1>6, <1>7, <1>8, <1>9, <1>10, <1>11 DEF TaskStep

LEMMA StopKeeps ==
  ASSUME SoftApInv, OwnerInv, AwaitsInv, ReportInv, StopStep
  PROVE  OwnerInv' /\ AwaitsInv' /\ ReportInv'
<1> USE DEF apVars, taskVars, cameraVars
<1>1. CASE StopCancels /\ BodyCancelled
  <2>1. stage \in Body /\ stage' = Unwinding /\ UNCHANGED <<stopped, restored, summary>>
    BY <1>1 DEF BodyCancelled
  <2>2. publishing' => publishing
    BY <1>1 DEF BodyCancelled, Interrupted, StopInDoubt
  <2>3. CASE stage = "join"
    <3>1. HalfDone /\ ap' = [ap EXCEPT !.step = "idle"] /\ UNCHANGED <<lock, made>>
      BY <2>3, <1>1 DEF BodyCancelled, Interrupted, CommandLost, Step
    <3>2. profiles' \subseteq 1..made /\ (~ap.created => profiles' \subseteq profiles)
      BY <3>1, CutShort DEF SoftApInv, StepState
    <3>3. OwnerInv' /\ AwaitsInv'
      BY <2>1, <2>3, <3>1, <3>2 DEF OwnerInv, AwaitsInv, Unwinding, SoftApInv, SoftApTypeOK
    <3> QED
      BY <2>1, <2>2, <2>3, <3>3 DEF ReportInv, Unwinding, Empty
  <2>4. CASE stage # "join"
    <3>1. UNCHANGED apVars
      BY <2>4, <1>1 DEF BodyCancelled, Interrupted
    <3> QED
      BY <2>1, <2>2, <2>4, <3>1 DEF OwnerInv, AwaitsInv, ReportInv, Body, Connect, Unwinding, Empty
  <2> QED
    BY <2>3, <2>4
<1>2. CASE FinallyCancelled
  <2>1. profiles' \subseteq 1..made
    BY <1>2, CutShort DEF FinallyCancelled, Leave
  <2>2. OwnerInv' /\ AwaitsInv'
    BY <1>2, <2>1 DEF FinallyCancelled, Leave, NoManager, OwnerInv, AwaitsInv
  <2>3. summary = Empty
    BY <1>2 DEF FinallyCancelled, Finally, ReportInv
  <2> QED
    BY <1>2, <2>2, <2>3 DEF FinallyCancelled, NoFrame, ReportInv, Empty
<1>3. CASE UNCHANGED <<apVars, taskVars, cameraVars>>
  BY <1>3 DEF OwnerInv, AwaitsInv, ReportInv
<1> QED
  BY <1>1, <1>2, <1>3 DEF StopStep, StopCancels, StopReturns, StopTimesOut

\* A recovery, and what wlan0 does by itself.
LEMMA OutsideKeeps ==
  ASSUME SoftApInv, OwnerInv, AwaitsInv, ReportInv, Environment
  PROVE  OwnerInv' /\ AwaitsInv' /\ ReportInv' /\ UNCHANGED made /\ profiles' \subseteq profiles
<1> USE DEF taskVars, stopVars, cameraVars, NoManager
<1>0. UNCHANGED <<stage, stopped, restored, summary, publishing>>
  BY DEF Environment, RecoveryStep, NetworkStep
<1>1. CASE RecoveryStep /\ RecoveryStarts
  BY <1>0, <1>1 DEF RecoveryStarts, OwnerInv, AwaitsInv, ReportInv
<1>2. CASE lock = "recovery" /\ Leave
  <2>1. profiles' \subseteq 1..made /\ profiles' \subseteq profiles
    BY <1>2, CutShort DEF Leave, OwnerInv
  <2> QED
    BY <1>0, <1>2, <2>1 DEF Leave, OwnerInv, AwaitsInv, ReportInv
<1>3. CASE lock = "recovery" /\ Cleaning
  <2>1. /\ profiles' \subseteq profiles /\ UNCHANGED <<lock, made>>
        /\ ap'.step \in {"idle", "deleting", "reconnecting", "checking"}
    BY <1>3 DEF Cleaning, Listed, Deleted, DeleteProfile, Reconnected, Reconnect, Reconnecting,
       Restored, Step, SoftApInv, SoftApTypeOK
  <2> QED
    BY <1>0, <1>3, <2>1 DEF OwnerInv, AwaitsInv, ReportInv
<1>4. CASE NetworkStep
  BY <1>0, <1>4 DEF NetworkStep, Drift, OwnerInv, AwaitsInv, ReportInv
<1> QED
  BY <1>1, <1>2, <1>3, <1>4 DEF Environment, RecoveryStep

\* The loop waits while the session goes its way.
LEMMA LoopWaits ==
  ASSUME ReportInv, LoopInv, DebtInv, UNCHANGED appVars,
         stage = "none" => UNCHANGED <<stage, summary, cut, made>> /\ profiles' \subseteq profiles,
         stage # "none" /\ stage' = "none" => cut' \/ summary'.given,
         publishing' => publishing,
         stopCall # "none" /\ stopCall' = "none" => stage' = "none"
  PROVE  LoopInv' /\ DebtInv'
<1>1. UNCHANGED <<app, mode, owned, attempted, chosen, appError, ours, reason>>
  BY DEF appVars, modeVars, guiVars
<1>2. LoopInv'
  BY <1>1 DEF LoopInv, NormalPlaces, Stopping
<1>3. DebtInv'
  BY <1>1 DEF DebtInv
<1> QED
  BY <1>2, <1>3

\* Steps of the loop that leave the session and the camera alone.
LEMMA LoopMoves ==
  ASSUME ReportInv, OwnerInv, AwaitsInv, LoopInv, DebtInv,
         \/ LeaveTop \/ LivestreamEnds \/ LivestreamRaises \/ NormalBreaks \/ NextRaises
         \/ TurnOver \/ StopStream \/ Finish \/ Ask \/ PressExit \/ Launch
  PROVE  OwnerInv' /\ AwaitsInv' /\ ReportInv' /\ LoopInv' /\ DebtInv'
<1> USE DEF modeVars, guiVars
<1>1. UNCHANGED sessionVars
  BY DEF LeaveTop, LivestreamEnds, LivestreamRaises, NormalBreaks, NextRaises,
         TurnOver, StopStream, Finish, Ask, PressExit, Launch
<1>2. OwnerInv' /\ AwaitsInv' /\ ReportInv'
  BY <1>1 DEF OwnerInv, AwaitsInv, ReportInv, sessionVars, apVars, taskVars, cameraVars
<1>3. UNCHANGED <<stage, summary, cut, made, profiles, publishing, stopCall>>
  BY <1>1 DEF sessionVars, apVars, taskVars, stopVars, cameraVars
<1>4. CASE LeaveTop
  BY <1>2, <1>3, <1>4 DEF LeaveTop, LoopInv, DebtInv, NormalPlaces, Stopping
<1>5. CASE LivestreamEnds
  BY <1>2, <1>3, <1>5 DEF LivestreamEnds, GuiGone, LoopInv, DebtInv, NormalPlaces, Stopping
<1>6. CASE LivestreamRaises
  BY <1>2, <1>3, <1>6 DEF LivestreamRaises, GuiGone, LoopInv, DebtInv, NormalPlaces, Stopping
<1>7. CASE NormalBreaks
  BY <1>2, <1>3, <1>7 DEF NormalBreaks, LoopInv, DebtInv, NormalPlaces, Stopping
<1>8. CASE NextRaises
  BY <1>2, <1>3, <1>8 DEF NextRaises, LoopInv, DebtInv, NormalPlaces, Stopping
<1>9. CASE TurnOver
  BY <1>2, <1>3, <1>9 DEF TurnOver, Turn, LoopInv, DebtInv, NormalPlaces, Stopping
<1>10. CASE StopStream
  BY <1>2, <1>3, <1>10 DEF StopStream, MustStop, LoopInv, DebtInv, NormalPlaces, Stopping
<1>11. CASE Finish
  BY <1>2, <1>3, <1>11 DEF Finish, LoopInv, DebtInv, NormalPlaces, Stopping
<1>12. CASE Ask
  BY <1>2, <1>3, <1>12 DEF Ask, GuiPlaces, LoopInv, DebtInv, NormalPlaces, Stopping
<1>13. CASE PressExit
  BY <1>2, <1>3, <1>13 DEF PressExit, GuiPlaces, LoopInv, DebtInv, NormalPlaces, Stopping
<1>14. CASE Launch
  BY <1>2, <1>3, <1>14 DEF Launch, LoopInv, DebtInv, NormalPlaces, Stopping
<1> QED
  BY <1>4, <1>5, <1>6, <1>7, <1>8, <1>9, <1>10, <1>11, <1>12, <1>13, <1>14

\* Steps of the loop that start a session, take its summary, or command the
\* camera.
LEMMA LoopActs ==
  ASSUME ReportInv, OwnerInv, AwaitsInv, LoopInv, DebtInv,
         \/ EnterNormal \/ EnterLivestream \/ StreamRestored \/ RestoreFails
         \/ FirstStop \/ SecondStop \/ ThirdStop \/ NormalEnds
         \/ StreamStops \/ StopFails \/ LastStop
  PROVE  OwnerInv' /\ AwaitsInv' /\ ReportInv' /\ LoopInv' /\ DebtInv'
<1> USE DEF modeVars, guiVars, taskVars, stopVars, cameraVars, Empty
<1>1. UNCHANGED apVars
  BY DEF EnterNormal, Start, EnterLivestream, StreamRestored, RestoreFails, FirstStop, SecondStop,
         ThirdStop, GuiStops, NormalEnds, StreamStops, StopFails, LastStop
<1>2. stage' = stage => OwnerInv' /\ AwaitsInv'
  BY <1>1 DEF OwnerInv, AwaitsInv, apVars
<1>3. UNCHANGED <<made, profiles, lock, ap>>
  BY <1>1 DEF apVars
<1> USE DEF LoopInv, DebtInv, ReportInv, NormalPlaces, Stopping
<1>4. CASE EnterNormal
  BY <1>3, <1>4 DEF EnterNormal, Start, OwnerInv, AwaitsInv
<1>5. CASE EnterLivestream
  BY <1>2, <1>3, <1>5 DEF EnterLivestream
<1>6. CASE StreamRestored
  BY <1>2, <1>3, <1>6 DEF StreamRestored
<1>7. CASE RestoreFails
  BY <1>2, <1>3, <1>7 DEF RestoreFails
<1>8. CASE FirstStop
  BY <1>2, <1>3, <1>8 DEF FirstStop, GuiStops, CallStopSession
<1>9. CASE SecondStop \/ ThirdStop
  BY <1>2, <1>3, <1>9 DEF SecondStop, ThirdStop, GuiStops, CallStopSession
<1>10. CASE NormalEnds
  BY <1>2, <1>3, <1>10 DEF NormalEnds, GuiGone, NextMode, StopReady
<1>11. CASE StreamStops
  BY <1>2, <1>3, <1>11 DEF StreamStops, Confirmed, Turn
<1>12. CASE StopFails
  <2>1. publishing' => publishing
    BY <1>12 DEF StopFails, Unconfirmed, StopInDoubt
  <2> QED
    BY <1>2, <1>3, <1>12, <2>1 DEF StopFails
<1>13. CASE LastStop
  <2>1. (publishing' => publishing) /\ (publishing' => appError')
    <3>1. CASE Confirmed
      BY <3>1 DEF Confirmed
    <3>2. Unconfirmed => (publishing' => publishing)
      BY DEF Unconfirmed, StopInDoubt
    <3>3. Confirmed \/ (Unconfirmed /\ appError')
      BY <1>13 DEF LastStop
    <3> QED
      BY <3>1, <3>2, <3>3
  <2> QED
    BY <1>2, <1>3, <1>13, <2>1 DEF LastStop
<1> QED
  BY <1>4, <1>5, <1>6, <1>7, <1>8, <1>9, <1>10, <1>11, <1>12, <1>13

\* The process is gone, by itself, killed, or with the board.
LEMMA DeathsKeep ==
  ASSUME SoftApInv, OwnerInv, Quit \/ AppKilled \/ BoardReboots
  PROVE  OwnerInv' /\ AwaitsInv' /\ ReportInv' /\ LoopInv' /\ DebtInv'
<1>1. stage' = "none" /\ summary' = Empty /\ stopped' = FALSE /\ restored' = FALSE
  BY DEF Quit, AppKilled, SessionKilled, BoardReboots, ProcessGone, NoFrame
<1>2. app' = "off" /\ ours' = FALSE /\ reason' = "unknown"
  BY DEF Quit, AppKilled, BoardReboots, AppGone
<1>3. AwaitsInv' /\ ReportInv' /\ LoopInv' /\ DebtInv'
  BY <1>1, <1>2 DEF AwaitsInv, ReportInv, LoopInv, DebtInv, NormalPlaces, Stopping, Empty
<1>4. OwnerInv'
  <2>1. CASE Quit
    BY <1>1, <2>1 DEF Quit, OwnerInv, apVars
  <2>2. CASE AppKilled
    <3>1. CASE Killed
      <4>1. profiles' \subseteq 1..made
        BY <3>1, CutShort DEF Killed
      <4> QED
        BY <1>1, <3>1, <4>1 DEF Killed, OwnerInv, NoManager
    <3>2. CASE lock # "session" /\ UNCHANGED apVars
      BY <1>1, <3>2 DEF OwnerInv, apVars
    <3> QED
      BY <2>2, <3>1, <3>2 DEF AppKilled, SessionKilled
  <2>3. CASE BoardReboots
    BY <1>1, <2>3 DEF BoardReboots, Reboot, OwnerInv, NoManager
  <2> QED
    BY <2>1, <2>2, <2>3
<1> QED
  BY <1>3, <1>4

LEMMA AppStart == Init => AppInv
<1> SUFFICES ASSUME Init PROVE AppInv
  OBVIOUS
<1>1. SoftApInv
  BY SoftApInitInvariant DEF Init
<1> QED
  BY <1>1 DEF Init, SoftApInit, SessionInit, AppInv, OwnerInv, AwaitsInv, ReportInv, LoopInv, DebtInv,
     NormalPlaces, Stopping, NoManager, Empty

LEMMA AppStepKeeps == AppInv /\ [Next]_vars => AppInv'
<1> SUFFICES ASSUME AppInv, [Next]_vars PROVE AppInv'
  OBVIOUS
<1>1. SoftApInv'
  <2>1. [SoftApNext]_apVars
    BY TaskImplements, StopImplements, AppLeavesNetwork, OutsideImplements
       DEF Next, Launch, Quit, Ask, PressExit, vars, sessionVars
  <2> QED
    BY <2>1, SoftApStepInvariant DEF AppInv
<1>2. CASE AppStep \/ Launch \/ Ask \/ PressExit
  BY <1>1, <1>2, LoopMoves, LoopActs DEF AppStep, AppInv
<1>3. CASE (TaskStep \/ StopStep) /\ UNCHANGED appVars
  <2>1. OwnerInv' /\ AwaitsInv' /\ ReportInv'
    BY <1>3, TaskKeepsOwner, TaskKeepsReport, StopKeeps DEF AppInv
  <2>2. LoopInv' /\ DebtInv'
    BY <1>3, SessionAlone, LoopWaits DEF AppInv
  <2> QED
    BY <1>1, <2>1, <2>2 DEF AppInv
<1>4. CASE Environment /\ UNCHANGED appVars
  <2>1. OwnerInv' /\ AwaitsInv' /\ ReportInv' /\ UNCHANGED made /\ profiles' \subseteq profiles
    BY <1>4, OutsideKeeps DEF AppInv
  <2>2. UNCHANGED <<stage, summary, cut, publishing, stopCall>>
    BY <1>4 DEF Environment, RecoveryStep, NetworkStep, taskVars, stopVars, cameraVars
  <2>3. LoopInv' /\ DebtInv'
    BY <1>4, <2>1, <2>2, LoopWaits DEF AppInv
  <2> QED
    BY <1>1, <2>1, <2>3 DEF AppInv
<1>5. CASE Quit \/ AppKilled \/ BoardReboots
  BY <1>1, <1>5, DeathsKeep DEF AppInv
<1>6. CASE UNCHANGED vars
  BY <1>1, <1>6 DEF AppInv, OwnerInv, AwaitsInv, ReportInv, LoopInv, DebtInv, NormalPlaces, Stopping, Empty,
     vars, sessionVars, apVars, taskVars, stopVars, cameraVars, appVars, modeVars, guiVars
<1> QED
  BY <1>2, <1>3, <1>4, <1>5, <1>6 DEF Next

\* The inductive invariant of the application: the network's, what a session
\* knows of it, and what the mode loop knows of the session.
THEOREM AppInvariant == Spec => []AppInv
BY AppStart, AppStepKeeps, PTL DEF Spec

\* An application that ends without an error leaves no livestream of its own
\* running on the camera: not after an exit in the middle of the restore, a
\* lost stop answer, or a session cut off in its finally block (app/modes.py).
THEOREM AppLeavesNoStream == Spec => []LeavesNoStream
<1>1. AppInv => LeavesNoStream
  BY DEF AppInv, DebtInv, LeavesNoStream
<1> QED
  BY <1>1, AppInvariant, PTL

\* A mode that follows a normal session starts without that session's profile,
\* unless it was cancelled in its finally block (app/modes.py, the
\* network_restored check).
THEOREM AppRollsBackFirst == Spec => SwitchNeedsRollback
<1>1. AppInv /\ [Next]_vars => [Switching => cut \/ made \notin profiles']_vars
  <2> SUFFICES ASSUME AppInv, Next, Switching
               PROVE  cut \/ made \notin profiles'
    OBVIOUS
  <2>1. app \in {"decide", "stopping"} /\ app' = "top" /\ mode = "normal"
    BY DEF Switching
  <2>2. TurnOver \/ StreamStops
    BY <2>1 DEF Next, AppStep, EnterNormal, EnterLivestream, LeaveTop, StreamRestored, RestoreFails,
       LivestreamEnds, LivestreamRaises, FirstStop, GuiStops, NormalBreaks, SecondStop, ThirdStop,
       NormalEnds, NextRaises, StopStream, StopFails, Finish, LastStop, Launch, Quit, Ask, PressExit,
       AppKilled, BoardReboots, AppGone, appVars
  <2>3. chosen # "none" /\ UNCHANGED apVars
    BY <2>1, <2>2 DEF TurnOver, StreamStops, Turn, sessionVars
  <2>4. chosen # "raise"
    BY <2>2 DEF TurnOver, StreamStops, AppInv, LoopInv
  <2> QED
    BY <2>1, <2>3, <2>4 DEF AppInv, LoopInv, apVars
<1> QED
  BY <1>1, AppInvariant, PTL DEF Spec, SwitchNeedsRollback

-----------------------------------------------------------------------------
(* Types.                                                                   *)

SessionFlags == /\ leave \in BOOLEAN /\ error \in BOOLEAN /\ stopped \in BOOLEAN
                /\ restored \in BOOLEAN /\ stopEvent \in BOOLEAN
                /\ publishing \in BOOLEAN /\ cut \in BOOLEAN

AppFlags == /\ owned \in BOOLEAN /\ attempted \in BOOLEAN /\ exitRequested \in BOOLEAN
            /\ guiError \in BOOLEAN /\ appError \in BOOLEAN /\ ours \in BOOLEAN

Summaries == [given : BOOLEAN, error : BOOLEAN, restored : BOOLEAN, stopped : BOOLEAN]

SessionEnums == /\ stage \in Stages /\ stopCall \in StopCalls /\ stopsSent \in 0..2
                /\ summary \in Summaries

AppEnums == /\ app \in Places /\ mode \in Modes /\ reason \in Reasons
            /\ chosen \in Modes \cup {"none", "raise"}
            /\ kills \in 0..MaxKills

AppTypes == SessionFlags /\ AppFlags /\ SessionEnums /\ AppEnums

LEMMA TypesAre == SoftApTypeOK /\ AppTypes => TypeOK
  BY DEF AppTypes, SessionFlags, AppFlags, SessionEnums, AppEnums, Summaries, TypeOK, SessionTypeOK

\* A session's flags are set to TRUE, to FALSE, or to whether its manager is idle.
LEMMA SessionFlagSteps ==
  ASSUME SessionFlags, Next
  PROVE  SessionFlags'
<1> USE DEF SessionFlags, NoFrame, Reach, taskVars, stopVars, cameraVars, sessionVars
<1>1. CASE TaskStep
  <2>1. CASE LockTaken \/ LockHeld \/ PreflightDone \/ Authenticated \/ StreamStopped \/ CredentialsRead
    BY <2>1, Zenon DEF LockTaken, LockHeld, PreflightDone, Authenticated, StreamStopped, CredentialsRead, End
  <2>2. CASE Joined \/ Connected \/ ServedOut \/ ControlEnded \/ WorkersEnded \/ LinksClosed
    BY <2>2, Zenon DEF Joined, Connected, ServedOut, ControlEnded, WorkersEnded, LinksClosed
  <2>3. CASE BodyFails
    BY <2>3, Zenon DEF BodyFails, Interrupted, StopInDoubt
  <2>4. CASE RolledBack \/ RollbackFails \/ Reported \/ FinallyRaises
    BY <2>4, Zenon DEF RolledBack, RollbackFails, Reported, FinallyRaises, End
  <2> QED
    BY <1>1, <2>1, <2>2, <2>3, <2>4 DEF TaskStep
<1>2. CASE StopStep
  BY <1>2, Zenon DEF StopStep, StopCancels, BodyCancelled, Interrupted, StopInDoubt, FinallyCancelled,
     StopReturns, StopTimesOut
<1>3. CASE AppStep
  <2>1. CASE EnterNormal \/ EnterLivestream \/ LeaveTop \/ StreamRestored \/ RestoreFails
    BY <2>1, Zenon DEF EnterNormal, Start, EnterLivestream, LeaveTop, StreamRestored, RestoreFails
  <2>2. CASE LivestreamEnds \/ LivestreamRaises \/ FirstStop \/ NormalBreaks \/ SecondStop
    BY <2>2, Zenon DEF LivestreamEnds, LivestreamRaises, FirstStop, GuiStops, CallStopSession, NormalBreaks,
       SecondStop
  <2>3. CASE ThirdStop \/ NormalEnds \/ NextRaises \/ TurnOver \/ StopStream
    BY <2>3, Zenon DEF ThirdStop, GuiStops, CallStopSession, NormalEnds, NextRaises, TurnOver, StopStream
  <2>4. CASE StreamStops \/ StopFails \/ Finish \/ LastStop
    BY <2>4, Zenon DEF StreamStops, StopFails, Finish, LastStop, Confirmed, Unconfirmed, StopInDoubt
  <2> QED
    BY <1>3, <2>1, <2>2, <2>3, <2>4 DEF AppStep
<1>4. CASE Launch \/ Quit \/ Ask \/ PressExit \/ AppKilled \/ BoardReboots
  BY <1>4, Zenon DEF Launch, Quit, Ask, PressExit, AppKilled, BoardReboots, ProcessGone, SessionKilled
<1>5. CASE Environment
  BY <1>5, Zenon DEF Environment, RecoveryStep, NetworkStep
<1> QED
  BY <1>1, <1>2, <1>3, <1>4, <1>5 DEF Next

LEMMA AppFlagSteps ==
  ASSUME AppFlags, SessionFlags, SessionEnums, Next
  PROVE  AppFlags'
<1> USE DEF AppFlags, modeVars, guiVars, appVars, AppGone
<1>1. CASE EnterNormal \/ EnterLivestream \/ LeaveTop \/ StreamRestored \/ RestoreFails
           \/ LivestreamRaises
  BY <1>1, Zenon DEF EnterNormal, EnterLivestream, LeaveTop, StreamRestored, RestoreFails,
     LivestreamRaises, GuiGone
<1>2. CASE LivestreamEnds
  BY <1>2, Zenon DEF LivestreamEnds, GuiGone
<1>3. CASE FirstStop \/ SecondStop \/ ThirdStop \/ NormalBreaks
  BY <1>3, Zenon DEF FirstStop, SecondStop, ThirdStop, GuiStops, NormalBreaks
<1>4. CASE NormalEnds
  BY <1>4, Zenon DEF NormalEnds, GuiGone
<1>5. CASE \/ NextRaises \/ TurnOver \/ StopStream \/ StreamStops \/ StopFails \/ Finish
           \/ LastStop
  BY <1>5, Zenon DEF NextRaises, TurnOver, StopStream, StreamStops, StopFails, Finish, LastStop
<1>6. CASE Launch \/ Quit \/ Ask \/ PressExit \/ AppKilled \/ BoardReboots
  BY <1>6, Zenon DEF Launch, Quit, Ask, PressExit, AppKilled, BoardReboots
<1>7. CASE UNCHANGED appVars
  BY <1>7, Zenon
<1> QED
  BY <1>1, <1>2, <1>3, <1>4, <1>5, <1>6, <1>7 DEF Next, AppStep

\* Whatever an interrupted stage or an unanswered stop leaves, the count stays.
LEMMA StopsAreCounted ==
  ASSUME stopsSent \in 0..2, Interrupted \/ Confirmed \/ Unconfirmed
  PROVE  stopsSent' \in 0..2
<1>1. CASE UNCHANGED cameraVars
  BY <1>1 DEF cameraVars
<1>2. CASE WriteStop
  BY <1>2 DEF WriteStop
<1>3. WriteStop \/ UNCHANGED cameraVars
  BY Zenon DEF Interrupted, Confirmed, Unconfirmed, StopInDoubt
<1> QED
  BY <1>1, <1>2, <1>3

LEMMA SessionEnumSteps ==
  ASSUME SessionEnums, SessionFlags, Next
  PROVE  SessionEnums'
<1>0. Empty \in Summaries /\ Failed \in Summaries
  BY DEF Empty, Failed, Summaries
<1> USE <1>0 DEF SessionEnums, Reach, taskVars, stopVars, cameraVars, sessionVars,
            Stages, Body, Connect, Finally, StopCalls
<1>1. CASE TaskStep
  <2>1. CASE LockTaken \/ LockHeld
    BY <2>1 DEF LockTaken, LockHeld
  <2>2. CASE PreflightDone \/ Authenticated \/ StreamStopped \/ CredentialsRead \/ Joined \/ Connected \/ ServedOut
    BY <2>2 DEF PreflightDone, Authenticated, StreamStopped, WriteStop, CredentialsRead, Joined, Connected, ServedOut
  <2>3. CASE BodyFails
    <3>1. stopsSent' \in 0..2
      BY <2>3, StopsAreCounted DEF BodyFails
    <3> QED
      BY <2>3, <3>1 DEF BodyFails, Unwinding
  <2>4. CASE ControlEnded \/ WorkersEnded \/ LinksClosed \/ RolledBack \/ RollbackFails
    BY <2>4 DEF ControlEnded, WorkersEnded, LinksClosed, RolledBack, RollbackFails
  <2>5. CASE Reported
    <3>1. summary' = [given |-> TRUE, error |-> error \/ ~restored,
                      restored |-> restored, stopped |-> stopped]
      BY <2>5 DEF Reported, End
    <3>2. (error \/ ~restored) \in BOOLEAN /\ restored \in BOOLEAN /\ stopped \in BOOLEAN
      BY Zenon DEF SessionFlags
    <3>3. summary' \in Summaries
      BY <3>1, <3>2, Zenon DEF Summaries
    <3> QED
      BY <2>5, <3>3 DEF Reported, End
  <2>6. CASE FinallyRaises
    BY <2>6 DEF FinallyRaises, End
  <2> QED
    BY <1>1, <2>1, <2>2, <2>3, <2>4, <2>5, <2>6 DEF TaskStep
<1>2. CASE StopStep
  <2>1. CASE StopCancels /\ BodyCancelled
    <3>1. stopsSent' \in 0..2
      BY <2>1, StopsAreCounted DEF BodyCancelled
    <3> QED
      BY <2>1, <3>1 DEF StopCancels, BodyCancelled, Unwinding
  <2>2. CASE StopCancels /\ FinallyCancelled
    BY <2>2 DEF StopCancels, FinallyCancelled
  <2>3. CASE StopCancels /\ UNCHANGED <<apVars, taskVars, cameraVars>>
    BY <2>3 DEF StopCancels
  <2>4. CASE StopReturns \/ StopTimesOut
    BY <2>4 DEF StopReturns, StopTimesOut
  <2> QED
    BY <1>2, <2>1, <2>2, <2>3, <2>4 DEF StopStep, StopCancels
<1>3. CASE AppStep
  <2>1. CASE StreamStops \/ StopFails \/ LastStop
    <3>1. stopsSent' \in 0..2
      BY <2>1, StopsAreCounted DEF StreamStops, StopFails, LastStop
    <3> QED
      BY <2>1, <3>1 DEF StreamStops, StopFails, LastStop
  <2>2. CASE EnterNormal \/ EnterLivestream
    BY <2>2 DEF EnterNormal, Start, EnterLivestream
  <2>3. CASE StreamRestored \/ RestoreFails
    BY <2>3 DEF StreamRestored, RestoreFails
  <2>4. CASE FirstStop \/ SecondStop \/ ThirdStop
    BY <2>4 DEF FirstStop, SecondStop, ThirdStop, GuiStops, CallStopSession
  <2>5. CASE NormalEnds
    BY <2>5 DEF NormalEnds
  <2>6. CASE UNCHANGED sessionVars
    BY <2>6
  <2>7. CASE \/ LeaveTop \/ LivestreamEnds \/ LivestreamRaises \/ NormalBreaks
             \/ NextRaises \/ TurnOver \/ StopStream \/ Finish
    <3> UNCHANGED sessionVars
      BY <2>7 DEF LeaveTop, LivestreamEnds, LivestreamRaises, NormalBreaks, NextRaises, TurnOver,
         StopStream, Finish
    <3> QED
      BY <2>6
  <2> QED
    BY <1>3, <2>1, <2>2, <2>3, <2>4, <2>5, <2>7 DEF AppStep
<1>4. CASE Launch \/ Quit \/ Ask \/ PressExit \/ AppKilled \/ BoardReboots
  BY <1>4 DEF Launch, Quit, Ask, PressExit, AppKilled, BoardReboots, ProcessGone, SessionKilled
<1>5. CASE Environment
  BY <1>5 DEF Environment, RecoveryStep, NetworkStep
<1> QED
  BY <1>1, <1>2, <1>3, <1>4, <1>5 DEF Next

LEMMA AppEnumSteps ==
  ASSUME AppEnums, AppInv, Next
  PROVE  AppEnums'
<1> USE KillAssumption
    DEF AppEnums, modeVars, guiVars, appVars, AppGone, Places, GuiPlaces, Stopping, Modes,
        Reasons, GuiGone
<1>1. CASE EnterNormal \/ EnterLivestream \/ LeaveTop \/ StreamRestored \/ RestoreFails
           \/ LivestreamRaises
  BY <1>1 DEF EnterNormal, EnterLivestream, LeaveTop, StreamRestored, RestoreFails, LivestreamRaises
<1>2. CASE LivestreamEnds
  BY <1>2 DEF LivestreamEnds, NextMode, Other
<1>3. CASE FirstStop \/ SecondStop \/ ThirdStop \/ NormalBreaks
  BY <1>3 DEF FirstStop, SecondStop, ThirdStop, GuiStops, NormalBreaks
<1>4. CASE NormalEnds
  BY <1>4 DEF NormalEnds, NextMode, Other
<1>5. CASE \/ NextRaises \/ TurnOver \/ StopStream \/ StreamStops \/ StopFails \/ Finish
           \/ LastStop
  <2>1. CASE NextRaises \/ StopStream \/ StopFails \/ Finish \/ LastStop
    BY <2>1 DEF NextRaises, StopStream, StopFails, Finish, LastStop
  <2>2. CASE TurnOver \/ StreamStops
    <3>1. Turn /\ UNCHANGED <<guiVars, kills>>
      BY <2>2 DEF TurnOver, StreamStops
    <3>2. app' \in {"final", "top"} /\ chosen' = "none"
      BY <3>1 DEF Turn
    <3>3. mode' \in Modes
      <4>1. chosen # "raise"
        BY <2>2 DEF TurnOver, StreamStops, AppInv, LoopInv
      <4>2. CASE chosen = "none" \/ exitRequested
        BY <3>1, <4>2 DEF Turn
      <4>3. CASE ~(chosen = "none" \/ exitRequested)
        <5>1. mode' = chosen
          BY <3>1, <4>3, Zenon DEF Turn
        <5>2. chosen # "none"
          BY <4>3, Zenon
        <5> QED
          BY <4>1, <5>1, <5>2
      <4> QED
        BY <4>2, <4>3, Zenon
    <3> QED
      BY <3>1, <3>2, <3>3
  <2> QED
    BY <1>5, <2>1, <2>2
<1>6. CASE Launch \/ Quit \/ Ask \/ PressExit \/ AppKilled \/ BoardReboots
  BY <1>6 DEF Launch, Quit, Ask, PressExit, AppKilled, BoardReboots
<1>7. CASE UNCHANGED appVars
  BY <1>7
<1> QED
  BY <1>1, <1>2, <1>3, <1>4, <1>5, <1>6, <1>7 DEF Next, AppStep

\* The variables of the application, its session and the network it borrows
\* keep to the values the code gives them.
THEOREM AppTypesHold == Spec => []TypeOK
<1>1. Init => AppTypes
  <2>1. Init => SessionFlags /\ AppFlags
    BY Zenon DEF Init, SessionInit, SessionFlags, AppFlags
  <2>2. Init => SessionEnums /\ AppEnums
    BY KillAssumption DEF Summaries, Init, SessionInit, SessionEnums, AppEnums, Stages, StopCalls, Empty, Places,
       Modes, Reasons
  <2> QED
    BY <2>1, <2>2 DEF AppTypes
<1>2. AppInv /\ AppTypes /\ [Next]_vars => AppTypes'
  <2>1. AppInv /\ AppTypes /\ Next => AppTypes'
    BY SessionFlagSteps, AppFlagSteps, SessionEnumSteps, AppEnumSteps DEF AppTypes
  <2>2. AppTypes /\ UNCHANGED vars => AppTypes'
    <3> SUFFICES ASSUME AppTypes, UNCHANGED vars PROVE AppTypes'
      OBVIOUS
    <3>1. SessionFlags'
      <4>1. UNCHANGED <<leave, error, stopped, restored, stopEvent, publishing, cut>>
        BY DEF vars, sessionVars, taskVars, stopVars, cameraVars
      <4> QED
        BY <4>1, Zenon DEF AppTypes, SessionFlags
    <3>2. AppFlags'
      <4>1. UNCHANGED <<owned, attempted, exitRequested, guiError, appError, ours>>
        BY DEF vars, appVars, modeVars, guiVars
      <4> QED
        BY <4>1, Zenon DEF AppTypes, AppFlags
    <3>3. SessionEnums' /\ AppEnums'
      BY DEF AppTypes, SessionEnums, AppEnums, vars, sessionVars, taskVars, stopVars, cameraVars,
             appVars, modeVars, guiVars
    <3> QED
      BY <3>1, <3>2, <3>3 DEF AppTypes
  <2> QED
    BY <2>1, <2>2
<1>3. AppInv => SoftApTypeOK
  BY DEF AppInv, SoftApInv
<1> QED
  BY <1>1, <1>2, <1>3, AppInvariant, TypesAre, PTL DEF Spec
=============================================================================
