---------------------------- MODULE RtmpWorkflow ----------------------------
(***************************************************************************)
(* The durable livestream preparation: Pocket3RtmpWorkflow's phase file,   *)
(* the proposal files, the captures that sessions leave behind, and the    *)
(* commands of the command line that read and write them.  The owner runs  *)
(* one command at a time, any command, in any order; a command can be      *)
(* killed between its writes.                                              *)
(***************************************************************************)
EXTENDS FrameSession

Phases == <<"preflight", "server_ready", "pairing_confirmed", "prepare_proposed",
            "prepare_sent", "prepare_acknowledged", "wifi_proposed", "wifi_sent",
            "wifi_connecting", "wifi_connected_or_unknown", "stream_proposed",
            "stream_sent", "waiting_for_rtmp", "rtmp_connected", "media_detected",
            "sample_saved", "stability_tested", "completed">>

VARIABLES phase,      \* the phase in the state file; "torn" when it cannot be read
          proposals,  \* stages with a readable private proposal
          captures,   \* finished sessions, as what an analysis will find in them
          command     \* the command that is running a session, or "none"

workflowVars == <<phase, proposals, captures, command>>

Index(p) == CHOOSE i \in 1..Len(Phases) : Phases[i] = p
Reached(p) == phase # "torn" /\ Index(phase) >= Index(p)

WorkflowInit == /\ SessionInit
                /\ phase = "preflight" /\ proposals = {} /\ captures = {} /\ command = "none"

-----------------------------------------------------------------------------
(* Commands that run no session.                                            *)

\* transition accepts the next phase only; a command makes several.
Leads(from, to) == Index(to) > Index(from)

\* save: the process may be killed before it, or inside write_text.
Save(p) == \/ phase' = p /\ UNCHANGED faults
           \/ phase' \in {phase, "torn"} /\ Fault

Propose(stage, from, to) ==
    /\ mode = "idle" /\ phase = from /\ Leads(from, to)
    /\ proposals' = proposals \cup {stage}
    /\ Save(to)
    /\ UNCHANGED <<sessionVars, past, captures, command>>

ProposePrepare == Propose("prepare", "preflight", "prepare_proposed")

\* The validated prepare result of an earlier analysis is required again.
ProposeWifi == /\ "acknowledged" \in captures
               /\ Propose("wifi", "prepare_acknowledged", "wifi_proposed")

\* Only after a Wi-Fi capture without an answer; the phase stays.
ProposeRecovery ==
    /\ mode = "idle" /\ phase = "wifi_connected_or_unknown"
    /\ "silent" \in captures
    /\ proposals' = proposals \cup {"recovery"}
    /\ UNCHANGED <<sessionVars, faults, past, phase, captures, command>>

\* Only after a capture in which the camera rejoined; the server is running.
ProposeStream == /\ "joined" \in captures
                 /\ Propose("stream", "wifi_connected_or_unknown", "stream_proposed")

\* The analysis of a capture that shows what the next phase says.
Analyze(finding, from, to) ==
    /\ mode = "idle" /\ phase = from
    /\ finding \in captures
    /\ Save(to)
    /\ UNCHANGED <<sessionVars, past, proposals, captures, command>>

AnalyzePrepare == Analyze("acknowledged", "prepare_sent", "prepare_acknowledged")
AnalyzeWifi == Analyze("unambiguous", "wifi_sent", "wifi_connected_or_unknown")

\* capture-live has decoded the camera's stream; phases already passed are
\* skipped, with the file saved all the same, and a transition from before
\* waiting_for_rtmp is illegal.
CaptureLive == /\ mode = "idle" /\ <<"sent", "start">> \in past
               /\ Reached("waiting_for_rtmp")
               /\ Save(IF Reached("sample_saved") THEN phase ELSE "sample_saved")
               /\ UNCHANGED <<sessionVars, past, proposals, captures, command>>

-----------------------------------------------------------------------------
(* Commands that run a session.                                             *)

\* send-approved: the stage decides the phase that is required and the next.
Expected == [prepare |-> "prepare_proposed", wifi |-> "wifi_proposed",
             stream |-> "stream_proposed", start |-> "stream_sent"]
SentPhase == [prepare |-> "prepare_sent", wifi |-> "wifi_sent",
              stream |-> "stream_sent", start |-> "waiting_for_rtmp"]
FrameOf(stage) == IF stage = "stream" THEN "configure" ELSE stage

\* The start proposal is made by hand.
SendApproved(stage) == /\ stage \in proposals \cup {"start"}
                       /\ phase = Expected[stage]
                       /\ Issuable(FrameOf(stage), stage = "start")
                       /\ StartSession(FrameOf(stage))
                       /\ command' = stage
                       /\ UNCHANGED <<phase, proposals, captures>>

RecoverPrepare(k) == /\ k \in {"recovery2", "recovery3"}
                     /\ phase = "wifi_connected_or_unknown"
                     /\ "recovery" \in proposals
                     /\ StartSession(k)
                     /\ command' = "recover"
                     /\ UNCHANGED <<phase, proposals, captures>>

RecoverFullStream == /\ Reached("waiting_for_rtmp")
                     /\ {"recovery", "stream"} \subseteq proposals
                     /\ StartSession("recovery5")
                     /\ command' = "recover"
                     /\ UNCHANGED <<phase, proposals, captures>>

\* A session that the phase file knows nothing of.
Apart(k) == /\ StartSession(k)
            /\ command' = "other"
            /\ UNCHANGED <<phase, proposals, captures>>

\* Any pairing frame, with a prerequisite or without.
ManualWrite(k) == k \in PairingFrames \cup Guarded /\ Apart(k)

ManualSession == Apart("pairing")
PassiveListen == Apart("listen")

-----------------------------------------------------------------------------
(* What a session leaves behind, and what the analyses find in it.          *)

Replies(f) == {i \in 1..Len(heard) : heard[i].name = f}
Replied(f, v) == \E i \in Replies(f) : heard[i].verdict = v

\* Mutant: the analysis does not look at the camera's answer.
PrepareWritten == kind = "prepare" /\ Ok /\ Len(sent) = 1

\* One frame written, no error, one answer, and that one good.
PrepareAcknowledged == /\ kind = "prepare" /\ Ok /\ Len(sent) = 1
                       /\ Cardinality(Replies("prepare")) = 1
                       /\ Replied("prepare", "good")

\* One frame in all its parts, at most one answer, and that one well-formed.
WifiUnambiguous == /\ kind = "wifi" /\ Ok /\ Len(sent) = 1
                   /\ Cardinality(Replies("wifi")) <= 1
                   /\ ~Replied("wifi", "broken")

\* Every frame of the re-entry written and the camera's Wi-Fi success taken; an
\* error of the disconnect after it does not change the result.
Joined == /\ kind = "recovery3" /\ Finished /\ Len(sent) = 3
          /\ \E i \in Replies("rewifi") : i <= read /\ heard[i].verdict = "good"

Findings == {f \in {"acknowledged", "unambiguous", "silent", "joined"} :
                CASE f = "acknowledged" -> PrepareAcknowledged
                  [] f = "unambiguous"  -> WifiUnambiguous
                  [] f = "silent"       -> WifiUnambiguous /\ Replies("wifi") = {}
                  [] f = "joined"       -> Joined}

\* run returns: send-approved saves the next phase for one frame written
\* without an error; the other commands only print.
Return == /\ mode = "ended" /\ error # "cancelled"
          /\ captures' = captures \cup Findings
          /\ IF command \in DOMAIN SentPhase /\ Ok /\ Len(sent) = 1
             THEN Save(SentPhase[command])
             ELSE UNCHANGED <<phase, faults>>
          /\ Anew("none", "idle")
          /\ command' = "none"
          /\ UNCHANGED <<past, proposals>>

WorkflowNext ==
    \/ ProposePrepare \/ ProposeWifi \/ ProposeRecovery \/ ProposeStream
    \/ AnalyzePrepare \/ AnalyzeWifi \/ CaptureLive
    \/ \E stage \in DOMAIN SentPhase : SendApproved(stage)
    \/ \E k \in Kinds : RecoverPrepare(k) \/ ManualWrite(k)
    \/ RecoverFullStream \/ ManualSession \/ PassiveListen \/ Return
    \/ SessionStep /\ UNCHANGED <<phase, proposals, captures>>
                   /\ command' = IF mode' = "idle" THEN "none" ELSE command

WorkflowSpec == WorkflowInit /\ [][WorkflowNext]_<<frameVars, workflowVars>>

-----------------------------------------------------------------------------
(* What the phase file promises.                                            *)

WorkflowTypeOK == /\ SessionTypeOK
                  /\ phase \in ToSet(Phases) \cup {"torn"}
                  /\ proposals \subseteq {"prepare", "wifi", "recovery", "stream"}
                  /\ command \in DOMAIN SentPhase \cup {"recover", "other", "none"}

\* Through kills, failed sends and repeated commands, a phase that the file
\* shows has happened on the air: the frames it names have arrived whole and
\* the answers it names were given (pocket3_rtmp.py 35-62, cli.py 1318-1409,
\* 1410-1689).
PhaseIsBacked ==
    /\ Reached("prepare_sent") => <<"sent", "prepare">> \in past
    /\ Reached("prepare_acknowledged") => <<"good", "prepare">> \in past
    /\ Reached("wifi_sent") => <<"sent", "wifi">> \in past
    /\ Reached("stream_proposed") =>
          {"good"} \X {"reentry", "stage2", "rewifi"} \subseteq past
    /\ Reached("stream_sent") => <<"sent", "configure">> \in past
    /\ Reached("waiting_for_rtmp") => <<"sent", "start">> \in past
=============================================================================
