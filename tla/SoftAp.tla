------------------------------- MODULE SoftAp -------------------------------
(***************************************************************************)
(* TemporarySoftAP and recover_network: the temporary NetworkManager       *)
(* profile a normal-mode session joins the camera's hotspot with, the file *)
(* written before it so that a later process can take it away again, and   *)
(* the lock both work under.  Every await is a command that may fail, be   *)
(* cancelled, or be cut short with the process; a command that was cut may *)
(* or may not have done its work.  The next-state relation lets the owner  *)
(* of the lock call join and cleanup whenever it likes; NormalSession      *)
(* implements it.                                                          *)
(***************************************************************************)
EXTENDS Naturals

CONSTANT MaxProfiles    \* bound: sessions started over the whole history

ASSUME ProfilesAssumption == MaxProfiles \in Nat

VARIABLES profiles,   \* our temporary profiles that NetworkManager holds
          wlan,       \* what wlan0 is connected to
          stateFile,  \* runtime/normal-network.json
          lock,       \* owner of runtime/normal.lock
          ap,         \* the TemporarySoftAP of the lock's owner
          made        \* profile identifiers drawn so far

apVars == <<profiles, wlan, stateFile, lock, ap, made>>

Networks == {"none", "home", "pocket"}
Owners == {"free", "session", "recovery"}
Commands == {"preflight", "adding", "activating", "routing",
             "listing", "deleting", "reconnecting", "checking"}
ApSteps == Commands \cup {"idle", "writing", "joined"}

NoFile == [kind |-> "absent", profile |-> 0, previous |-> "none"]
Truncated == [kind |-> "partial", profile |-> 0, previous |-> "none"]
Named(profile, previous) == [kind |-> "named", profile |-> profile, previous |-> previous]
NoManager == [step |-> "idle", profile |-> 0, previous |-> "none", created |-> FALSE]

SoftApInit == /\ profiles = {}
              /\ wlan \in {"none", "home"}
              /\ stateFile = NoFile
              /\ lock = "free"
              /\ ap = NoManager
              /\ made = 0

-----------------------------------------------------------------------------
(* What the commands do to NetworkManager.                                  *)

AddProfile == profiles' = profiles \cup {ap.profile} /\ UNCHANGED wlan
Activate == wlan' = "pocket" /\ UNCHANGED profiles
Reconnect == wlan' = ap.previous /\ UNCHANGED profiles

\* Deleting the active profile disconnects; NetworkManager may reconnect.
DeleteProfile == /\ profiles' = profiles \ {ap.profile}
                 /\ wlan' \in IF wlan = "pocket" THEN {"none", "home"} ELSE {wlan}

\* The command in flight when its caller failed, was cancelled or was killed.
HalfDone == \/ UNCHANGED <<profiles, wlan>>
            \/ ap.step = "adding" /\ AddProfile
            \/ ap.step = "activating" /\ Activate
            \/ ap.step = "deleting" /\ DeleteProfile
            \/ ap.step = "reconnecting" /\ Reconnect

-----------------------------------------------------------------------------
(* The lock and its owner.                                                  *)

\* A session takes the lock without waiting and draws its profile's UUID.
Acquire == /\ lock = "free"
           /\ made < MaxProfiles
           /\ lock' = "session"
           /\ made' = made + 1
           /\ ap' = [NoManager EXCEPT !.profile = made + 1]
           /\ UNCHANGED <<profiles, wlan, stateFile>>

\* recover_network with a readable file; with none it returns at once, with
\* a truncated one it raises.
RecoveryStarts == /\ lock = "free"
                  /\ stateFile.kind = "named"
                  /\ lock' = "recovery"
                  /\ ap' = [step |-> "listing", profile |-> stateFile.profile,
                            previous |-> stateFile.previous, created |-> TRUE]
                  /\ UNCHANGED <<profiles, wlan, stateFile, made>>

\* The owner is done, or is torn out of its command.
Leave == /\ lock # "free"
         /\ ap.step # "writing"
         /\ HalfDone
         /\ lock' = "free"
         /\ ap' = NoManager
         /\ UNCHANGED <<stateFile, made>>

\* The process is killed: between any two steps, also while it writes the file.
Killed == /\ lock # "free"
          /\ HalfDone
          /\ lock' = "free"
          /\ ap' = NoManager
          /\ UNCHANGED <<stateFile, made>>

\* The board restarts: profiles added with "save no" do not survive it.
Reboot == /\ profiles' = {}
          /\ wlan' \in {"none", "home"}
          /\ lock' = "free"
          /\ ap' = NoManager
          /\ UNCHANGED <<stateFile, made>>

\* A saved network connects by itself; any network may drop.
Drift == /\ wlan' = IF wlan = "none" THEN "home" ELSE "none"
         /\ UNCHANGED <<profiles, stateFile, lock, ap, made>>

-----------------------------------------------------------------------------
(* preflight and join.                                                      *)

Step(step) == ap' = [ap EXCEPT !.step = step]

\* run_normal_session calls preflight before it talks to the camera.
Preflight == /\ lock = "session"
             /\ ap.step = "idle"
             /\ ~ap.created
             /\ ap' = [ap EXCEPT !.previous = wlan]
             /\ UNCHANGED <<profiles, wlan, stateFile, lock, made>>

\* Mutant: the check for a leftover file is gone.
JoinAnyway == /\ lock = "session"
              /\ ap.step = "idle"
              /\ ~ap.created
              /\ Step("preflight")
              /\ UNCHANGED <<profiles, wlan, stateFile, lock, made>>

\* join refuses to start over a file that another session left behind.
Join == /\ lock = "session"
        /\ ap.step = "idle"
        /\ ~ap.created
        /\ stateFile = NoFile
        /\ Step("preflight")
        /\ UNCHANGED <<profiles, wlan, stateFile, lock, made>>

\* write_text truncates the file before it writes it.
OpenFile == /\ ap.step = "preflight"
            /\ ap' = [ap EXCEPT !.step = "writing", !.previous = wlan]
            /\ stateFile' = Truncated
            /\ UNCHANGED <<profiles, wlan, lock, made>>

WriteFile == /\ ap.step = "writing"
             /\ stateFile' = Named(ap.profile, ap.previous)
             /\ ap' = [ap EXCEPT !.step = "adding", !.created = TRUE]
             /\ UNCHANGED <<profiles, wlan, lock, made>>

Added == /\ ap.step = "adding"
         /\ AddProfile
         /\ Step("activating")
         /\ UNCHANGED <<stateFile, lock, made>>

Activated == /\ ap.step = "activating"
             /\ Activate
             /\ Step("routing")
             /\ UNCHANGED <<stateFile, lock, made>>

Routed == /\ ap.step = "routing"
          /\ Step("joined")
          /\ UNCHANGED <<profiles, wlan, stateFile, lock, made>>

-----------------------------------------------------------------------------
(* cleanup.                                                                 *)

\* A manager that never reached the write has nothing to take back.
Cleanup == /\ ap.step \in {"idle", "joined"}
           /\ ap.created
           /\ Step("listing")
           /\ UNCHANGED <<profiles, wlan, stateFile, lock, made>>

Reconnecting == IF ap.previous = "none" THEN "checking" ELSE "reconnecting"

Listed == /\ ap.step = "listing"
          /\ Step(IF ap.profile \in profiles THEN "deleting" ELSE Reconnecting)
          /\ UNCHANGED <<profiles, wlan, stateFile, lock, made>>

\* Mutant: the return code of the delete command is not looked at.
DeletedUnseen == /\ ap.step = "deleting"
                 /\ HalfDone
                 /\ Step(Reconnecting)
                 /\ UNCHANGED <<stateFile, lock, made>>

Deleted == /\ ap.step = "deleting"
           /\ DeleteProfile
           /\ Step(Reconnecting)
           /\ UNCHANGED <<stateFile, lock, made>>

Reconnected == /\ ap.step = "reconnecting"
               /\ Reconnect
               /\ Step("checking")
               /\ UNCHANGED <<stateFile, lock, made>>

\* The file goes last, when nothing is left to recover.
Restored == /\ ap.step = "checking"
            /\ stateFile' = NoFile
            /\ ap' = [ap EXCEPT !.step = "idle", !.created = FALSE]
            /\ UNCHANGED <<profiles, wlan, lock, made>>

\* A command fails or is cancelled; the coroutine that awaited it raises.
CommandLost == /\ ap.step \in Commands
               /\ HalfDone
               /\ Step("idle")
               /\ UNCHANGED <<stateFile, lock, made>>

-----------------------------------------------------------------------------
Joining == OpenFile \/ WriteFile \/ Added \/ Activated \/ Routed
Cleaning == Listed \/ Deleted \/ Reconnected \/ Restored

SoftApNext == \/ Acquire \/ RecoveryStarts \/ Leave \/ Killed \/ Reboot \/ Drift
              \/ Preflight \/ Join \/ Joining
              \/ Cleanup \/ Cleaning \/ CommandLost

SoftApSpec == SoftApInit /\ [][SoftApNext]_apVars

\* Every variable keeps to the values the program can give it.
SoftApTypeOK == /\ profiles \subseteq 1..MaxProfiles
                /\ wlan \in Networks
                /\ stateFile \in [kind : {"absent", "partial", "named"},
                                  profile : 0..MaxProfiles, previous : Networks]
                /\ lock \in Owners
                /\ ap \in [step : ApSteps, profile : 0..MaxProfiles,
                           previous : Networks, created : BOOLEAN]
                /\ made \in 0..MaxProfiles

\* Whatever is killed, cancelled or fails, and between any two steps: a
\* profile of ours that NetworkManager still holds is named by the file, so
\* that normal-cleanup can find it (join writes the file first, cleanup
\* removes it last, a second session will not overwrite it).
Recoverable == \A p \in profiles : stateFile.kind = "named" /\ stateFile.profile = p

\* The network a rollback returns to is never the camera's hotspot, although
\* a session that starts after a crash finds wlan0 still connected to it.
HomeIsNotPocket == /\ stateFile.previous # "pocket"
                   /\ ap.created => ap.previous # "pocket"

\* When cleanup, or a recovery, removes the file and so reports the network
\* restored, the profile is gone and wlan0 is not on the hotspot.
RestoredIsClean == [][stateFile.kind = "named" /\ stateFile'.kind # "named"
                        => profiles' = {} /\ wlan' # "pocket"]_apVars
=============================================================================
