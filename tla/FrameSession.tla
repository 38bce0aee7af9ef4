---------------------------- MODULE FrameSession ----------------------------
(***************************************************************************)
(* The sessions that write approved frames to the camera over BLE:         *)
(* listen_pocket3, manual_send_pocket3_frame, run_manual_pairing_session   *)
(* and run_prepare_recovery_session.  Each is a script of frames to write  *)
(* and answers to wait for, run inside the same try, except and finally.   *)
(* The camera answers, late or not at all; the link drops; writes and the  *)
(* disconnect fail; the owner declines, cancels, or kills the process.     *)
(***************************************************************************)
EXTENDS BleLink, FiniteSets, FiniteSetsExt

CONSTANT MaxFaults     \* bound: drops, failures, kills, odd and doubled answers

ASSUME SessionAssumption == MaxFaults \in Nat

Verdicts == {"good",      \* the answer the script hopes for
             "paired",    \* of "pin": already paired
             "refused",   \* well-formed, another payload
             "broken"}    \* matching sequence and command, wrong otherwise

VARIABLES kind,      \* which session, or "none"
          mode,      \* what its coroutine is doing
          pos,       \* its position in the script
          heard,     \* frames received, as the recorder keeps them
          read,      \* how many of them have been taken from the queue
          sent,      \* the ledger of frames written
          error,     \* "none", "failed" or "cancelled"
          declined,  \* the owner did not confirm a frame
          pairing    \* PairingStateMachine.state

VARIABLES faults,    \* counter for the bound
          past       \* history: what frames and answers of any session were

\* All of a coroutine but its mode and its link.
ownVars == <<kind, pos, heard, read, sent, error, declined, pairing>>
sessionVars == <<linkVars, mode, ownVars>>
frameVars == <<sessionVars, faults, past>>

-----------------------------------------------------------------------------
(* The scripts.                                                             *)

Send(f, override) == [op |-> "send", name |-> f, override |-> override,
                      accept |-> {}, reject |-> {}, patient |-> FALSE]

\* Wait for an answer; frames of other names, and verdicts in neither set, are
\* skipped.  A patient wait goes on without one.
Wait(e, accept, reject, patient) ==
    [op |-> "wait", name |-> e, override |-> FALSE,
     accept |-> accept, reject |-> reject, patient |-> patient]

Exactly(e) == Wait(e, {"good"}, {"refused", "broken"}, FALSE)
WellFormed(e) == Wait(e, {"good", "refused"}, {"broken"}, FALSE)
IfAny(e) == Wait(e, {"good", "refused"}, {"broken"}, TRUE)

\* The first notification shows that FFF4 is up.
Ready == Wait("any", Verdicts, {}, FALSE)

Single(f, override) == <<Ready, Send(f, override)>>

\* manual-write with --require-incoming-hex: the exact approval frame.
AfterApproval(f) == <<Wait("approval", {"good"}, {}, FALSE), Send(f, FALSE)>>

Preparation == <<Ready, Send("reentry", FALSE), Exactly("reentry"),
                 Send("stage2", TRUE), Exactly("stage2")>>

Rejoin == Preparation \o <<Send("rewifi", FALSE), IfAny("rewifi")>>

FullStream == Preparation \o <<Send("rewifi", FALSE), Exactly("rewifi"),
                               Send("configure", FALSE), WellFormed("configure"),
                               Send("start", TRUE), WellFormed("start")>>

PairingScript == <<Ready, Send("pin", FALSE),
                   Wait("pin", {"good", "paired"}, {"refused", "broken"}, FALSE),
                   Wait("approval", {"good"}, {"broken"}, FALSE),
                   Send("ack", FALSE), Send("final", FALSE), IfAny("final")>>

\* One frame after any notification: send-approved, and a bare manual-write.
Singles == {"prepare", "wifi", "configure", "start"} \cup PairingFrames

\* One frame after a prerequisite: manual-write takes one for any of its frames.
Guards == [pin_after |-> "pin", ack_after |-> "ack", final_after |-> "final"]
Guarded == DOMAIN Guards

Kinds == Singles \cup Guarded
         \cup {"listen", "pairing", "recovery2", "recovery3", "recovery5"}

\* Mutant: the stream stages go on without the camera's Wi-Fi success.
ImpatientScript(k) ==
    CASE k \in Singles  -> Single(k, k = "start")
      [] k = "listen"    -> <<>>
      [] k \in Guarded  -> AfterApproval(Guards[k])
      [] k = "pairing"   -> PairingScript
      [] k = "recovery2" -> Preparation
      [] k = "recovery3" -> Rejoin
      [] k = "recovery5" -> [FullStream EXCEPT ![7] = IfAny("rewifi")]
      [] OTHER           -> <<>>

Script(k) ==
    CASE k \in Singles  -> Single(k, k = "start")
      [] k = "listen"    -> <<>>
      [] k \in Guarded  -> AfterApproval(Guards[k])
      [] k = "pairing"   -> PairingScript
      [] k = "recovery2" -> Preparation
      [] k = "recovery3" -> Rejoin
      [] k = "recovery5" -> FullStream
      [] OTHER           -> <<>>

Finished == pos > Len(Script(kind))
Step == Script(kind)[pos]
At(op) == mode = "stepping" /\ ~Finished /\ Step.op = op

Authority == IF kind = "pairing" THEN Pairing ELSE SingleFrame(Step.name, Step.override)

\* PairingStateMachine: only the pairing session drives one.
Pair(event) ==
    LET to(state, target) == IF pairing = state THEN target ELSE "failed"
        repeated == pairing \in {"waiting_device_confirmation", "ready_stage1_send",
                                 "ready_stage2_send", "paired"}
        status(target) == IF repeated THEN pairing ELSE to("waiting_status", target)
    IN  IF kind # "pairing" THEN pairing
        ELSE CASE event = "ready"    -> to("idle", "waiting_status")
               [] event = "paired"   -> status("paired")
               [] event = "pin"      -> status("waiting_device_confirmation")
               [] event = "approval" -> to("waiting_device_confirmation", "ready_stage1_send")
               [] event = "ack"      -> to("ready_stage1_send", "ready_stage2_send")
               [] event = "final"    -> to("ready_stage2_send", "paired")
               [] OTHER              -> event

SessionInit == /\ LinkInit
               /\ kind = "none" /\ mode = "idle" /\ pos = 1
               /\ heard = <<>> /\ read = 0 /\ sent = <<>>
               /\ error = "none" /\ declined = FALSE /\ pairing = "idle"
               /\ faults = 0 /\ past = {}

\* What the livestream workflow will want to know.
Milestones == {"sent"} \X {"prepare", "wifi", "configure", "start"}
              \cup {"good"} \X {"prepare", "reentry", "stage2", "rewifi"}
Recall(what, f) == past \cup ({<<what, f>>} \cap Milestones)

Fault == faults < MaxFaults /\ faults' = faults + 1

-----------------------------------------------------------------------------
(* Setting up.                                                              *)

Anew(k, m) == /\ NewLink
              /\ kind' = k /\ mode' = m /\ pos' = 1
              /\ heard' = <<>> /\ read' = 0 /\ sent' = <<>>
              /\ error' = "none" /\ declined' = FALSE /\ pairing' = "idle"

StartSession(k) == mode = "idle" /\ Anew(k, "connecting") /\ UNCHANGED <<faults, past>>

Connect == /\ mode = "connecting" /\ link = "none"
           /\ Connected
           /\ mode' = "subscribing"
           /\ UNCHANGED <<ownVars, faults, past>>

Subscribe == /\ mode = "subscribing"
             /\ Subscribed
             /\ mode' = "stepping"
             /\ UNCHANGED <<ownVars, faults, past>>

\* An exception ends the script; disconnect is called from the finally clause.
Raise(what) == /\ mode' = "stopping"
               /\ error' = what
               /\ pairing' = IF kind = "pairing" THEN what ELSE pairing
               /\ UNCHANGED <<linkVars, kind, pos, heard, sent, declined, past>>

SetUpFails == /\ mode \in {"connecting", "subscribing"}
              /\ IF link = "down" THEN UNCHANGED faults ELSE Fault
              /\ Raise("failed")
              /\ UNCHANGED read

-----------------------------------------------------------------------------
(* Writing a frame.                                                         *)

\* Only the pairing session asks the owner again before every frame.
Decline == /\ At("send") /\ kind = "pairing"
           /\ mode' = "stopping" /\ declined' = TRUE
           /\ UNCHANGED <<linkVars, kind, pos, heard, read, sent, error, pairing, faults, past>>

BeginFrame == /\ At("send")
              /\ FrameBegun(Step.name, Authority)
              /\ mode' = "writing"
              /\ UNCHANGED <<ownVars, faults, past>>

FrameRefused == /\ At("send")
                /\ link # "up" \/ ~Allowed(Step.name, Authority)
                /\ Raise("failed")
                /\ UNCHANGED <<read, faults>>

\* A part is on the wire before its writer goes on.
WritePart == /\ mode = "writing"
             /\ PartWritten
             /\ mode' = "written"
             /\ past' = IF IsWhole(Last(wire')) THEN Recall("sent", Current.frame) ELSE past
             /\ UNCHANGED <<ownVars, faults>>

\* Mutant: the frame is entered when its first part is written.
LedgerOfParts == IF Current.parts = 1 THEN Append(sent, Current.frame) ELSE sent

Ledger == IF IsWhole(Current) THEN Append(sent, Current.frame) ELSE sent

NextPart == /\ mode = "written"
            /\ sent' = Ledger
            /\ IF IsWhole(Current)
               THEN mode' = "stepping" /\ pos' = pos + 1 /\ pairing' = Pair(
                      IF Step.name = "pin" THEN pairing ELSE Step.name)
               ELSE mode' = "writing" /\ UNCHANGED <<pos, pairing>>
            /\ UNCHANGED <<linkVars, kind, heard, read, error, declined, faults, past>>

WriteFails == /\ mode \in {"writing", "written"}
              /\ IF link = "down" THEN UNCHANGED faults ELSE Fault
              /\ Raise("failed")
              /\ UNCHANGED read

-----------------------------------------------------------------------------
(* Waiting for an answer.                                                   *)

Matching == {i \in read + 1..Len(heard) :
                /\ Step.name \in {"any", heard[i].name}
                /\ heard[i].verdict \in Step.accept \cup Step.reject}

\* The frames before the first that matters are skipped.
Receive == /\ At("wait") /\ Matching # {}
           /\ LET f == heard[Min(Matching)]
              IN  /\ read' = Min(Matching)
                  /\ UNCHANGED faults
                  /\ IF f.verdict \in Step.accept
                     THEN /\ pos' = IF f.verdict = "paired" /\ kind = "pairing" /\ Step.name = "pin"
                                    THEN Len(Script(kind)) + 1 ELSE pos + 1
                          /\ pairing' = Pair(CASE Step.name = "any"   -> "ready"
                                               [] Step.name = "final" -> pairing
                                               [] OTHER -> IF f.verdict = "paired"
                                                           THEN "paired" ELSE Step.name)
                          /\ UNCHANGED <<linkVars, kind, mode, heard, sent, error, declined,
                                         past>>
                     ELSE Raise("failed")

TimeOut == /\ At("wait") /\ Matching = {}
           /\ IF Step.patient
              THEN /\ pos' = pos + 1
                   /\ UNCHANGED <<linkVars, kind, mode, heard, sent, error, declined,
                                  pairing, past>>
              ELSE Raise("failed")
           /\ UNCHANGED <<read, faults>>

-----------------------------------------------------------------------------
(* Ending.                                                                  *)

\* The passive listening after the last step is over.
Leave == /\ mode = "stepping" /\ Finished
         /\ mode' = "stopping"
         /\ UNCHANGED <<linkVars, ownVars, faults, past>>

\* CancelledError, at any await of the session.
Cancel == /\ mode \in {"connecting", "subscribing", "stepping", "writing", "written"}
          /\ Fault
          /\ Raise("cancelled")
          /\ UNCHANGED read

StopNotify == /\ mode = "stopping"
              /\ Unsubscribed
              /\ mode' = "disconnecting"
              /\ UNCHANGED <<ownVars, faults, past>>

Disconnect == /\ mode = "disconnecting"
              /\ Released
              /\ mode' = "ended"
              /\ UNCHANGED <<ownVars, faults, past>>

\* Mutant: a failed disconnect is only reported.
DisconnectWarns == /\ mode = "disconnecting" /\ link = "up"
                   /\ Fault
                   /\ mode' = "ended"
                   /\ UNCHANGED <<linkVars, ownVars, past>>

DisconnectFails == /\ mode = "disconnecting" /\ link = "up"
                   /\ Fault
                   /\ mode' = "ended"
                   /\ error' = IF error = "none" THEN "failed" ELSE error
                   /\ UNCHANGED <<linkVars, kind, pos, heard, read, sent, declined, pairing,
                                  past>>

\* What the caller is told.
Ok == /\ error = "none" /\ ~declined
      /\ kind = "pairing" => pairing = "paired"

\* The process is killed, or leaves by a cancellation of the finally clause or
\* by the one it re-raises: nothing is recorded and nothing reported.
Die == /\ mode # "idle"
       /\ IF mode = "ended" /\ error = "cancelled" THEN UNCHANGED faults ELSE Fault
       /\ Anew("none", "idle")
       /\ UNCHANGED past

-----------------------------------------------------------------------------
(* The link and the camera.                                                 *)

Drop == /\ Fault
        /\ Dropped
        /\ UNCHANGED <<mode, ownVars, past>>

Hears(e, v) == /\ link = "up" /\ subscribed /\ mode # "ended"
               /\ heard' = Append(heard, [name |-> e, verdict |-> v])
               /\ past' = IF v = "good" THEN Recall("good", e) ELSE past
               /\ UNCHANGED <<linkVars, kind, mode, pos, read, sent, error, declined, pairing>>

HeardOf(e) == {i \in 1..Len(heard) : heard[i].name = e}

Telemetry == heard = <<>> /\ Hears("telemetry", "good") /\ UNCHANGED faults

\* An answer to a frame that has arrived whole; a second one, and one with the
\* wrong sender or flags, is a fault.
Answer(f, v) == /\ \E i \in 1..Len(wire) : wire[i].frame = f /\ IsWhole(wire[i])
                /\ f # "ack"
                /\ v = "paired" => f = "pin"
                /\ IF v # "broken" /\ HeardOf(f) = {} THEN UNCHANGED faults ELSE Fault
                /\ Hears(f, v)

\* The owner approves on the camera's screen, which repeats the request.
Approve(v) == /\ kind \in PairingFrames \cup Guarded \cup {"pairing"}
              /\ HeardOf("approval") = {}
              /\ IF v = "good" THEN UNCHANGED faults ELSE Fault
              /\ Hears("approval", v)

SessionStep == \/ Connect \/ Subscribe \/ SetUpFails
               \/ Decline \/ BeginFrame \/ FrameRefused \/ WritePart \/ NextPart \/ WriteFails
               \/ Receive \/ TimeOut \/ Leave \/ Cancel
               \/ StopNotify \/ Disconnect \/ DisconnectFails \/ Die
               \/ Drop \/ Telemetry
               \/ \E f \in StreamFrames \cup PairingFrames, v \in Verdicts : Answer(f, v)
               \/ \E v \in {"good", "broken"} : Approve(v)

-----------------------------------------------------------------------------
(* What the sessions promise.                                               *)

SessionTypeOK ==
    /\ link \in {"none", "up", "down"} /\ {subscribed, declined} \subseteq BOOLEAN
    /\ kind \in Kinds \cup {"none"}
    /\ mode \in {"idle", "connecting", "subscribing", "stepping", "writing", "written",
                 "stopping", "disconnecting", "ended"}
    /\ pos \in 1..Len(Script(kind)) + 1
    /\ read \in 0..Len(heard)
    /\ error \in {"none", "failed", "cancelled"}
    /\ pairing \in {"idle", "waiting_status", "waiting_device_confirmation", "ready_stage1_send",
                    "ready_stage2_send", "paired", "failed", "cancelled"}
    /\ past \subseteq Milestones

\* The frames each kind of session is approved for.
ApprovedFor(k) == CASE k \in Singles      -> {k}
                    [] k \in Guarded   -> {Guards[k]}
                    [] k = "pairing"   -> PairingFrames
                    [] k = "recovery2" -> {"reentry", "stage2"}
                    [] k = "recovery3" -> {"reentry", "stage2", "rewifi"}
                    [] k = "recovery5" -> {"reentry", "stage2", "rewifi", "configure", "start"}
                    [] OTHER           -> {}

\* The answers a frame builds on.  One sent alone builds on none, unless the
\* owner named a prerequisite: a bare manual-write sends even the acknowledgement
\* of an approval, and the frame after it, without one.
NeedsBefore(k, f) ==
    IF k \in Guarded \/ (k = "pairing" /\ f \in {"ack", "final"}) THEN {"approval"}
    ELSE IF k \notin {"recovery2", "recovery3", "recovery5"} THEN {}
    ELSE CASE f = "stage2"    -> {"reentry"}
           [] f = "rewifi"    -> {"reentry", "stage2"}
           [] f = "configure" -> {"reentry", "stage2", "rewifi"}
           [] f = "start"     -> {"reentry", "stage2", "rewifi", "configure"}
           [] OTHER           -> {}

Given == {heard[i].name : i \in {j \in 1..Len(heard) :
              \/ heard[j].verdict = "good"
              \/ heard[j].name = "configure" /\ heard[j].verdict = "refused"}}

Written == [i \in 1..Len(wire) |-> wire[i].frame]

Sessions == INSTANCE ApprovedFrames WITH
    Approved <- ApprovedFor, Needs <- NeedsBefore,
    open <- mode \notin {"idle", "stopping", "disconnecting", "ended"},
    begun <- Written, replied <- Given

\* Whatever is late, lost, doubled or declined, and wherever a session fails or
\* is cancelled, only approved frames are begun, one at a time and each once,
\* none before the camera's answers that it builds on, none after the end
\* (prepare_recovery_session.py 377-459, manual_session.py 180-276).  A bare
\* manual-write has no such answers: that is ApprovalBeforeAck.
OneByOne == Sessions!FramesSpec

\* A transaction rests on an approval seen in the same session: the frame that
\* acknowledges one is begun only after the camera has shown it again, whichever
\* command sends it (docs/manual-pairing.md 57).  The prerequisite is optional
\* in cli.py 93 and session.py 236.
ApprovalBeforeAck == "ack" \in ToSet(Written) => "approval" \in Given

\* The ledger holds whole frames only, in the order they were written, and
\* misses at most the one that the session was about when it ended
\* (prepare_recovery_session.py 260-267, session.py 244-245).
LedgerTellsTheWire ==
    /\ Len(wire) \in {Len(sent), Len(sent) + 1}
    /\ \A i \in 1..Len(sent) : IsWhole(wire[i]) /\ sent[i] = wire[i].frame

\* A session that reports success has written every frame of its script (or
\* was told that pairing was done), has had the answers they build on, and has
\* given the camera back (bluez_ble.py 350-393, the finally clauses).
OkMeansDone ==
    mode = "ended" /\ Ok =>
        /\ link # "up"
        /\ sent = Written
        /\ \/ ToSet(sent) = ApprovedFor(kind)
           \/ kind = "pairing" /\ sent = <<"pin">> /\ "pin" \in {heard[i].name : i \in {j \in 1..Len(heard) : heard[j].verdict = "paired"}}
        /\ UNION {NeedsBefore(kind, f) : f \in ToSet(sent)} \subseteq Given
=============================================================================
