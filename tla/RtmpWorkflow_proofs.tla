-------------------------- MODULE RtmpWorkflow_proofs --------------------------
(***************************************************************************)
(* What the sessions that write approved frames promise, whatever is late, *)
(* lost, doubled, declined or cancelled, and what the phase file promises  *)
(* of them, whatever command the owner runs and wherever it is killed.     *)
(***************************************************************************)
EXTENDS RtmpWorkflow, SequenceTheorems, WellFoundedInduction, TLAPS

Recoveries == {"recovery2", "recovery3", "recovery5"}
Frames == StreamFrames \cup PairingFrames
Names == Frames \cup {"telemetry", "approval"}

\* The frames of a kind of session in the order of its script, of the recovery
\* sessions as far as the longest of them goes.
Order(k) == IF k \in Singles THEN <<k>>
            ELSE IF k \in Guarded THEN <<Guards[k]>>
            ELSE IF k = "pairing" THEN <<"pin", "ack", "final">>
            ELSE IF k \in Recoveries THEN <<"reentry", "stage2", "rewifi", "configure", "start">>
            ELSE <<>>

\* How many of them are written before a position of the script.
Due(k, p) == IF k \in Singles \cup Guarded THEN IF p > 2 THEN 1 ELSE 0
             ELSE IF k = "pairing" THEN IF p <= 2 THEN 0 ELSE IF p <= 5 THEN 1
                                        ELSE IF p = 6 THEN 2 ELSE 3
             ELSE IF k \in Recoveries THEN (p - 1) \div 2
             ELSE 0

\* And the answers that have been given before it.
Answered(k, p) ==
    IF k \in Guarded THEN IF p > 1 THEN {"approval"} ELSE {}
    ELSE IF k = "pairing" THEN IF p > 4 THEN {"approval"} ELSE {}
    ELSE IF k \in Recoveries
         THEN {a \in {"reentry", "stage2", "rewifi", "configure"} :
                  \/ a = "reentry" /\ p > 3
                  \/ a = "stage2" /\ p > 5
                  \/ a = "rewifi" /\ p > 7 /\ k = "recovery5"
                  \/ a = "configure" /\ p > 9 /\ k = "recovery5"}
         ELSE {}

ToldPaired == \E i \in 1..Len(heard) : heard[i].name = "pin" /\ heard[i].verdict = "paired"

\* The camera says that it is paired: the script is left after its first frame.
Shortcut == kind = "pairing" /\ pos = 8 /\ Len(sent) = 1 /\ ToldPaired

-----------------------------------------------------------------------------
(* The inductive invariant of a session.                                    *)

Modes == {"idle", "connecting", "subscribing", "stepping", "writing", "written",
          "stopping", "disconnecting", "ended"}
Pairings == {"idle", "waiting_status", "waiting_device_confirmation", "ready_stage1_send",
             "ready_stage2_send", "paired", "failed", "cancelled"}

Enums == /\ link \in {"none", "up", "down"} /\ kind \in Kinds \cup {"none"} /\ mode \in Modes
         /\ error \in {"none", "failed", "cancelled"} /\ past \subseteq Milestones
Flags == subscribed \in BOOLEAN /\ declined \in BOOLEAN /\ pairing \in Pairings
Bounds == pos \in 1..Len(Script(kind)) + 1 /\ read \in 0..Len(heard)
SeqTypes == /\ wire \in Seq([frame : Frames, parts : Nat])
            /\ heard \in Seq([name : Names, verdict : Verdicts])
            /\ sent \in Seq(Frames)

\* The wire and the ledger follow the script, as far as the session has come.
WireInv == /\ \A i \in 1..Len(wire) : wire[i].frame = Order(kind)[i]
           /\ \A i \in 1..Len(sent) : sent[i] = Order(kind)[i] /\ IsWhole(wire[i])
           /\ Len(wire) \in {Len(sent), Len(sent) + 1}
           /\ Len(sent) = Due(kind, pos) \/ Shortcut

\* Where the session is in its script, by what its coroutine is doing.
PlaceInv ==
    /\ mode = "idle" <=> kind = "none"
    /\ mode \in {"idle", "connecting", "subscribing"} => wire = <<>> /\ pos = 1
    /\ mode = "stepping" => Len(wire) = Len(sent)
    /\ mode \in {"writing", "written"} =>
          /\ Len(wire) = Len(sent) + 1
          /\ ~Finished /\ Step.op = "send" /\ Step.name = wire[Len(wire)].frame
          /\ wire[Len(wire)].parts <= Parts(Step.name)
    /\ mode = "writing" => wire[Len(wire)].parts < Parts(Step.name)
    /\ mode \in {"stopping", "disconnecting", "ended"} /\ error = "none" /\ ~declined =>
          Finished /\ Len(wire) = Len(sent)
    /\ mode = "ended" /\ error = "none" => link # "up"

\* What the next frame builds on has been heard.
AnswersInv == Answered(kind, pos) \subseteq Given \/ Shortcut

\* The history holds what happened on the air in this session.
Noted(what, f, memory) == <<what, f>> \in Milestones => <<what, f>> \in memory

HistoryInv ==
    /\ \A i \in 1..Len(wire) : IsWhole(wire[i]) => Noted("sent", wire[i].frame, past)
    /\ \A i \in 1..Len(heard) : heard[i].verdict = "good" => Noted("good", heard[i].name, past)

FrameInv == /\ Enums /\ Flags /\ Bounds /\ SeqTypes
            /\ WireInv /\ PlaceInv /\ AnswersInv /\ HistoryInv

-----------------------------------------------------------------------------
(* The scripts, position by position.                                       *)

PreparationSteps == {Ready, Send("reentry", FALSE), Exactly("reentry"),
                     Send("stage2", TRUE), Exactly("stage2")}
RejoinSteps == <<Send("rewifi", FALSE), IfAny("rewifi")>>
StreamSteps == <<Send("rewifi", FALSE), Exactly("rewifi"), Send("configure", FALSE),
                 WellFormed("configure"), Send("start", TRUE), WellFormed("start")>>

LEMMA PreparationIs ==
    /\ Len(Preparation) = 5
    /\ Preparation[1] = Ready
    /\ Preparation[2] = Send("reentry", FALSE) /\ Preparation[3] = Exactly("reentry")
    /\ Preparation[4] = Send("stage2", TRUE) /\ Preparation[5] = Exactly("stage2")
    /\ Preparation \in Seq(PreparationSteps)
  BY DEF Preparation, PreparationSteps

LEMMA AfterPreparation ==
  ASSUME NEW S, NEW t \in Seq(S)
  PROVE  /\ Len(Preparation \o t) = 5 + Len(t)
         /\ \A i \in 1..5 : (Preparation \o t)[i] = Preparation[i]
         /\ \A i \in 6..5 + Len(t) : (Preparation \o t)[i] = t[i - 5]
<1>1. Preparation \in Seq(S \cup PreparationSteps) /\ t \in Seq(S \cup PreparationSteps)
  BY PreparationIs, SeqMonotonic
<1>2. /\ Len(Preparation \o t) = Len(Preparation) + Len(t)
      /\ \A i \in 1..Len(Preparation) + Len(t) :
            (Preparation \o t)[i] = IF i <= Len(Preparation) THEN Preparation[i]
                                    ELSE t[i - Len(Preparation)]
  BY <1>1, ConcatProperties
<1>3. Len(t) \in Nat
  BY LenProperties
<1> QED
  BY <1>2, <1>3, PreparationIs

LEMMA RejoinIs ==
    /\ Len(Rejoin) = 7
    /\ \A i \in 1..5 : Rejoin[i] = Preparation[i]
    /\ Rejoin[6] = Send("rewifi", FALSE) /\ Rejoin[7] = IfAny("rewifi")
<1>1. RejoinSteps \in Seq({RejoinSteps[1], RejoinSteps[2]}) /\ Len(RejoinSteps) = 2
  BY DEF RejoinSteps
<1>2. Rejoin = Preparation \o RejoinSteps
  BY DEF Rejoin, RejoinSteps
<1>3. /\ Len(Preparation \o RejoinSteps) = 5 + Len(RejoinSteps)
      /\ \A i \in 1..5 : (Preparation \o RejoinSteps)[i] = Preparation[i]
      /\ \A i \in 6..5 + Len(RejoinSteps) : (Preparation \o RejoinSteps)[i] = RejoinSteps[i - 5]
  BY <1>1, AfterPreparation
<1>4. Rejoin[6] = RejoinSteps[1] /\ Rejoin[7] = RejoinSteps[2] /\ Len(Rejoin) = 7
      /\ \A i \in 1..5 : Rejoin[i] = Preparation[i]
  BY <1>1, <1>2, <1>3
<1> QED
  BY <1>4 DEF RejoinSteps

LEMMA FullStreamIs ==
    /\ Len(FullStream) = 11
    /\ \A i \in 1..5 : FullStream[i] = Preparation[i]
    /\ FullStream[6] = Send("rewifi", FALSE) /\ FullStream[7] = Exactly("rewifi")
    /\ FullStream[8] = Send("configure", FALSE) /\ FullStream[9] = WellFormed("configure")
    /\ FullStream[10] = Send("start", TRUE) /\ FullStream[11] = WellFormed("start")
<1>1. /\ StreamSteps \in Seq({StreamSteps[1], StreamSteps[2], StreamSteps[3],
                              StreamSteps[4], StreamSteps[5], StreamSteps[6]})
      /\ Len(StreamSteps) = 6
  BY DEF StreamSteps
<1>2. FullStream = Preparation \o StreamSteps
  BY DEF FullStream, StreamSteps
<1>3. /\ Len(Preparation \o StreamSteps) = 5 + Len(StreamSteps)
      /\ \A i \in 1..5 : (Preparation \o StreamSteps)[i] = Preparation[i]
      /\ \A i \in 6..5 + Len(StreamSteps) : (Preparation \o StreamSteps)[i] = StreamSteps[i - 5]
  BY <1>1, AfterPreparation
<1>4. \A i \in 6..11 : FullStream[i] = StreamSteps[i - 5]
  <2>1. 5 + Len(StreamSteps) = 11
    BY <1>1
  <2> QED
    BY <2>1, <1>2, <1>3
<1>5. Len(FullStream) = 11 /\ \A i \in 1..5 : FullStream[i] = Preparation[i]
  BY <1>1, <1>2, <1>3
<1>6. /\ FullStream[6] = StreamSteps[1] /\ FullStream[7] = StreamSteps[2]
      /\ FullStream[8] = StreamSteps[3] /\ FullStream[9] = StreamSteps[4]
      /\ FullStream[10] = StreamSteps[5] /\ FullStream[11] = StreamSteps[6]
  BY <1>4
<1> QED
  BY <1>5, <1>6 DEF StreamSteps

\* A kind of session is of one sort only.
LEMMA GuardsAre ==
    /\ Guarded = {"pin_after", "ack_after", "final_after"}
    /\ \A k \in Guarded : Guards[k] \in PairingFrames
  BY DEF Guarded, Guards, PairingFrames

LEMMA SinglesAre == Singles = {"prepare", "wifi", "configure", "start", "pin", "ack", "final"}
  BY DEF Singles, PairingFrames

LEMMA Apartness ==
    /\ \A k \in Singles : k \notin Guarded /\ k \notin Recoveries
    /\ \A k \in Guarded : k \notin Singles /\ k \notin Recoveries
    /\ \A k \in Recoveries : k \notin Singles /\ k \notin Guarded
    /\ \A k \in Singles \cup Guarded \cup Recoveries :
          k # "pairing" /\ k # "listen" /\ k # "none"
  BY GuardsAre, SinglesAre DEF Recoveries

\* The script of each kind of session.
LEMMA Scripts ==
    /\ \A k \in Singles : Script(k) = Single(k, k = "start")
    /\ \A k \in Guarded : Script(k) = AfterApproval(Guards[k])
    /\ Script("pairing") = PairingScript
    /\ Script("recovery2") = Preparation
    /\ Script("recovery3") = Rejoin
    /\ Script("recovery5") = FullStream
    /\ Script("listen") = <<>>
    /\ Script("none") = <<>>
<1>1. ASSUME NEW k \in Guarded PROVE Script(k) = AfterApproval(Guards[k])
  <2>1. k \notin Singles /\ k # "listen" /\ k # "pairing"
    BY Apartness
  <2>2. k # "recovery2" /\ k # "recovery3" /\ k # "recovery5"
    BY Apartness DEF Recoveries
  <2> QED
    BY <2>1, <2>2 DEF Script
<1>2. "recovery2" \in Recoveries /\ "recovery3" \in Recoveries /\ "recovery5" \in Recoveries
  BY DEF Recoveries
<1> QED
  BY <1>1, <1>2, Apartness DEF Script

LEMMA KindCases ==
    \A k \in Kinds : \/ k \in Singles \/ k \in Guarded \/ k = "pairing" \/ k = "listen"
                     \/ k = "recovery2" \/ k = "recovery3" \/ k = "recovery5"
  BY DEF Kinds

LEMMA ScriptLengths ==
    /\ \A k \in Singles : Len(Script(k)) = 2
    /\ \A k \in Guarded : Len(Script(k)) = 2
    /\ Len(Script("pairing")) = 7
    /\ Len(Script("recovery2")) = 5 /\ Len(Script("recovery3")) = 7
    /\ Len(Script("recovery5")) = 11
    /\ Len(Script("listen")) = 0 /\ Len(Script("none")) = 0
<1>1. ASSUME NEW k \in Singles PROVE Len(Script(k)) = 2
  BY Scripts DEF Single
<1>2. ASSUME NEW k \in Guarded PROVE Len(Script(k)) = 2
  <2>1. Script(k) = AfterApproval(Guards[k])
    BY Scripts
  <2> QED
    BY <2>1 DEF AfterApproval
<1>3. Len(Script("pairing")) = 7
  BY Scripts DEF PairingScript
<1> QED
  BY <1>1, <1>2, <1>3, Scripts, PreparationIs, RejoinIs, FullStreamIs

\* A position at which a frame is written: the next of its kind's frames, which
\* is approved, and builds on what has been answered before.
Sends(k, p, f) ==
    /\ Script(k)[p].op = "send" /\ Script(k)[p].name = f
    /\ f \in Frames /\ f \in ApprovedFor(k)
    /\ Due(k, p + 1) = Due(k, p) + 1 /\ Order(k)[Due(k, p + 1)] = f
    /\ Answered(k, p + 1) = Answered(k, p)
    /\ NeedsBefore(k, f) \subseteq Answered(k, p)

\* A position at which an answer is waited for: what the next frames build on
\* is then an answer that says so.
Waits(k, p, e) ==
    /\ Script(k)[p].op = "wait" /\ Script(k)[p].name = e
    /\ Due(k, p + 1) = Due(k, p)
    /\ \/ Answered(k, p + 1) = Answered(k, p)
       \/ /\ Answered(k, p + 1) \subseteq Answered(k, p) \cup {e}
          /\ e # "any" /\ ~Script(k)[p].patient
          /\ \/ Script(k)[p].accept = {"good"}
             \/ e = "configure" /\ Script(k)[p].accept = {"good", "refused"}
    /\ k = "pairing" => e \in {"any", "pin", "approval", "final"} /\ (e = "pin" => p = 3)

LEMMA Approvals ==
    /\ \A k \in Singles : ApprovedFor(k) = {k}
    /\ \A k \in Guarded : ApprovedFor(k) = {Guards[k]}
    /\ ApprovedFor("pairing") = PairingFrames
    /\ ApprovedFor("recovery2") = {"reentry", "stage2"}
    /\ ApprovedFor("recovery3") = {"reentry", "stage2", "rewifi"}
    /\ ApprovedFor("recovery5") = {"reentry", "stage2", "rewifi", "configure", "start"}
    /\ ApprovedFor("listen") = {}
    /\ ApprovedFor("none") = {}
<1>1. ASSUME NEW k \in Guarded PROVE ApprovedFor(k) = {Guards[k]}
  <2>1. k \notin Singles /\ k # "pairing"
    BY Apartness
  <2>2. k # "recovery2" /\ k # "recovery3" /\ k # "recovery5"
    BY Apartness DEF Recoveries
  <2> QED
    BY <2>1, <2>2 DEF ApprovedFor
<1>2. "recovery2" \in Recoveries /\ "recovery3" \in Recoveries /\ "recovery5" \in Recoveries
  BY DEF Recoveries
<1> QED
  BY <1>1, <1>2, Apartness DEF ApprovedFor

LEMMA NeedsOf ==
    /\ \A k \in Singles : NeedsBefore(k, k) = {}
    /\ \A k \in Guarded : \A f : NeedsBefore(k, f) = {"approval"}
    /\ NeedsBefore("pairing", "pin") = {}
    /\ NeedsBefore("pairing", "ack") = {"approval"}
    /\ NeedsBefore("pairing", "final") = {"approval"}
    /\ \A k \in Recoveries :
          /\ NeedsBefore(k, "reentry") = {}
          /\ NeedsBefore(k, "stage2") = {"reentry"}
          /\ NeedsBefore(k, "rewifi") = {"reentry", "stage2"}
          /\ NeedsBefore(k, "configure") = {"reentry", "stage2", "rewifi"}
          /\ NeedsBefore(k, "start") = {"reentry", "stage2", "rewifi", "configure"}
<1>1. \A k \in Singles : NeedsBefore(k, k) = {}
  BY Apartness DEF NeedsBefore, Recoveries
<1>2. \A k \in Guarded : \A f : NeedsBefore(k, f) = {"approval"}
  BY DEF NeedsBefore
<1>3. "pairing" \notin Guarded /\ \A k \in Recoveries : k \notin Guarded /\ k # "pairing"
  BY Apartness
<1> QED
  BY <1>1, <1>2, <1>3 DEF NeedsBefore, Recoveries

LEMMA PairingIs ==
    /\ PairingScript[1] = Ready /\ PairingScript[2] = Send("pin", FALSE)
    /\ PairingScript[3] = Wait("pin", {"good", "paired"}, {"refused", "broken"}, FALSE)
    /\ PairingScript[4] = Wait("approval", {"good"}, {"broken"}, FALSE)
    /\ PairingScript[5] = Send("ack", FALSE) /\ PairingScript[6] = Send("final", FALSE)
    /\ PairingScript[7] = IfAny("final")
  BY DEF PairingScript

LEMMA SinglePositions ==
  ASSUME NEW k \in Singles
  PROVE  Waits(k, 1, "any") /\ Sends(k, 2, k)
<1>1. Script(k)[1] = Ready /\ Script(k)[2] = Send(k, k = "start")
  BY Scripts DEF Single
<1>2. k \in Frames
  BY DEF Singles, Frames, StreamFrames
<1>3. k \notin Guarded /\ k # "pairing" /\ k \notin Recoveries
  BY Apartness
<1>4. Order(k)[1] = k /\ Due(k, 1) = 0 /\ Due(k, 2) = 0 /\ Due(k, 3) = 1
  BY DEF Order, Due
<1> QED
  BY <1>1, <1>2, <1>3, <1>4, Approvals, NeedsOf DEF Send, Wait, Sends, Waits, Answered, Ready

LEMMA GuardedPositions ==
  ASSUME NEW k \in Guarded
  PROVE  Waits(k, 1, "approval") /\ Sends(k, 2, Guards[k])
<1>1. /\ Script(k)[1] = Wait("approval", {"good"}, {}, FALSE)
      /\ Script(k)[2] = Send(Guards[k], FALSE)
  <2>1. Script(k) = AfterApproval(Guards[k])
    BY Scripts
  <2> QED
    BY <2>1 DEF AfterApproval
<1>2. k \notin Singles /\ k # "pairing"
  BY Apartness
<1>3. Order(k)[1] = Guards[k] /\ Due(k, 1) = 0 /\ Due(k, 2) = 0 /\ Due(k, 3) = 1
  BY <1>2 DEF Order, Due
<1>4. Answered(k, 1) = {} /\ Answered(k, 2) = {"approval"} /\ Answered(k, 3) = {"approval"}
  BY DEF Answered
<1>5. Guards[k] \in Frames
  BY GuardsAre DEF Frames
<1>6. Waits(k, 1, "approval")
  BY <1>1, <1>2, <1>3, <1>4 DEF Wait, Waits
<1>7. Sends(k, 2, Guards[k])
  <2>1. Script(k)[2].op = "send" /\ Script(k)[2].name = Guards[k]
    BY <1>1 DEF Send
  <2>2. ApprovedFor(k) = {Guards[k]} /\ NeedsBefore(k, Guards[k]) = {"approval"}
    BY Approvals, NeedsOf
  <2> QED
    BY <2>1, <2>2, <1>3, <1>4, <1>5 DEF Sends
<1> QED
  BY <1>6, <1>7

LEMMA PairingPositions ==
    /\ Waits("pairing", 1, "any") /\ Sends("pairing", 2, "pin")
    /\ Waits("pairing", 3, "pin") /\ Waits("pairing", 4, "approval")
    /\ Sends("pairing", 5, "ack") /\ Sends("pairing", 6, "final")
    /\ Waits("pairing", 7, "final")
<1> DEFINE k == "pairing"
<1>1. /\ Script(k)[1] = Ready /\ Script(k)[2] = Send("pin", FALSE)
      /\ Script(k)[3] = Wait("pin", {"good", "paired"}, {"refused", "broken"}, FALSE)
      /\ Script(k)[4] = Wait("approval", {"good"}, {"broken"}, FALSE)
      /\ Script(k)[5] = Send("ack", FALSE) /\ Script(k)[6] = Send("final", FALSE)
      /\ Script(k)[7] = IfAny("final")
  BY Scripts, PairingIs
<1>2. /\ Due(k, 1) = 0 /\ Due(k, 2) = 0 /\ Due(k, 3) = 1 /\ Due(k, 4) = 1 /\ Due(k, 5) = 1
      /\ Due(k, 6) = 2 /\ Due(k, 7) = 3 /\ Due(k, 8) = 3
  BY Apartness DEF Due
<1>3. Order(k)[1] = "pin" /\ Order(k)[2] = "ack" /\ Order(k)[3] = "final"
  BY Apartness DEF Order, Recoveries
<1>4. /\ \A p \in 1..4 : Answered(k, p) = {}
      /\ \A p \in 5..8 : Answered(k, p) = {"approval"}
  BY Apartness DEF Answered
<1>5. \A f \in PairingFrames : f \in Frames /\ f \in ApprovedFor(k)
  BY Approvals DEF Frames
<1>6. Sends(k, 2, "pin")
  <2>1. Script(k)[2].op = "send" /\ Script(k)[2].name = "pin"
    BY <1>1 DEF Send
  <2>2. "pin" \in Frames /\ "pin" \in ApprovedFor(k)
    BY <1>5 DEF PairingFrames
  <2>3. Due(k, 3) = Due(k, 2) + 1 /\ Order(k)[Due(k, 3)] = "pin"
    BY <1>2, <1>3
  <2>4. Answered(k, 3) = Answered(k, 2) /\ NeedsBefore(k, "pin") \subseteq Answered(k, 2)
    BY <1>4, NeedsOf
  <2> QED
    BY <2>1, <2>2, <2>3, <2>4 DEF Sends
<1>7. Sends(k, 5, "ack")
  <2>1. Script(k)[5].op = "send" /\ Script(k)[5].name = "ack"
    BY <1>1 DEF Send
  <2>2. "ack" \in Frames /\ "ack" \in ApprovedFor(k)
    BY <1>5 DEF PairingFrames
  <2>3. Due(k, 6) = Due(k, 5) + 1 /\ Order(k)[Due(k, 6)] = "ack"
    BY <1>2, <1>3
  <2>4. Answered(k, 6) = Answered(k, 5) /\ NeedsBefore(k, "ack") \subseteq Answered(k, 5)
    BY <1>4, NeedsOf
  <2> QED
    BY <2>1, <2>2, <2>3, <2>4 DEF Sends
<1>8. Sends(k, 6, "final")
  <2>1. Script(k)[6].op = "send" /\ Script(k)[6].name = "final"
    BY <1>1 DEF Send
  <2>2. "final" \in Frames /\ "final" \in ApprovedFor(k)
    BY <1>5 DEF PairingFrames
  <2>3. Due(k, 7) = Due(k, 6) + 1 /\ Order(k)[Due(k, 7)] = "final"
    BY <1>2, <1>3
  <2>4. Answered(k, 7) = Answered(k, 6) /\ NeedsBefore(k, "final") \subseteq Answered(k, 6)
    BY <1>4, NeedsOf
  <2> QED
    BY <2>1, <2>2, <2>3, <2>4 DEF Sends
<1>9. Waits(k, 1, "any") /\ Waits(k, 3, "pin") /\ Waits(k, 4, "approval") /\ Waits(k, 7, "final")
  BY <1>1, <1>2, <1>4 DEF Wait, Waits, Ready, IfAny
<1> QED
  BY <1>6, <1>7, <1>8, <1>9

LEMMA RecoveryPositions ==
  ASSUME NEW k \in Recoveries
  PROVE  /\ Waits(k, 1, "any") /\ Sends(k, 2, "reentry") /\ Waits(k, 3, "reentry")
         /\ Sends(k, 4, "stage2") /\ Waits(k, 5, "stage2")
         /\ k # "recovery2" => Sends(k, 6, "rewifi") /\ Waits(k, 7, "rewifi")
         /\ k = "recovery5" => /\ Sends(k, 8, "configure") /\ Waits(k, 9, "configure")
                               /\ Sends(k, 10, "start") /\ Waits(k, 11, "start")
<1>1. k \notin Singles /\ k \notin Guarded /\ k # "pairing"
  BY Apartness
<1>2. /\ Script(k)[1] = Ready /\ Script(k)[2] = Send("reentry", FALSE)
      /\ Script(k)[3] = Exactly("reentry") /\ Script(k)[4] = Send("stage2", TRUE)
      /\ Script(k)[5] = Exactly("stage2")
      /\ k # "recovery2" => Script(k)[6] = Send("rewifi", FALSE)
  <2>1. CASE k = "recovery2"
    BY <2>1, Scripts, PreparationIs
  <2>2. CASE k = "recovery3"
    <3>1. /\ Rejoin[1] = Preparation[1] /\ Rejoin[2] = Preparation[2]
          /\ Rejoin[3] = Preparation[3] /\ Rejoin[4] = Preparation[4]
          /\ Rejoin[5] = Preparation[5]
      BY RejoinIs
    <3>2. Script(k) = Rejoin /\ Rejoin[6] = Send("rewifi", FALSE)
      BY <2>2, Scripts, RejoinIs
    <3> QED
      BY <3>1, <3>2, PreparationIs
  <2>3. CASE k = "recovery5"
    <3>1. /\ FullStream[1] = Preparation[1] /\ FullStream[2] = Preparation[2]
          /\ FullStream[3] = Preparation[3] /\ FullStream[4] = Preparation[4]
          /\ FullStream[5] = Preparation[5]
      BY FullStreamIs
    <3>2. Script(k) = FullStream /\ FullStream[6] = Send("rewifi", FALSE)
      BY <2>3, Scripts, FullStreamIs
    <3> QED
      BY <3>1, <3>2, PreparationIs
  <2> QED
    BY <2>1, <2>2, <2>3 DEF Recoveries
<1>3. \A p \in 1..12 : Due(k, p) = (p - 1) \div 2
  BY <1>1 DEF Due
<1>4. /\ Due(k, 1) = 0 /\ Due(k, 2) = 0 /\ Due(k, 3) = 1 /\ Due(k, 4) = 1 /\ Due(k, 5) = 2
      /\ Due(k, 6) = 2 /\ Due(k, 7) = 3 /\ Due(k, 8) = 3 /\ Due(k, 9) = 4 /\ Due(k, 10) = 4
      /\ Due(k, 11) = 5 /\ Due(k, 12) = 5
  BY <1>3
<1>5. /\ Order(k)[1] = "reentry" /\ Order(k)[2] = "stage2" /\ Order(k)[3] = "rewifi"
      /\ Order(k)[4] = "configure" /\ Order(k)[5] = "start"
  BY <1>1 DEF Order
<1>6. /\ \A p \in 1..3 : Answered(k, p) = {}
      /\ \A p \in 4..5 : Answered(k, p) = {"reentry"}
      /\ \A p \in 6..7 : Answered(k, p) = {"reentry", "stage2"}
      /\ k # "recovery5" => Answered(k, 8) = {"reentry", "stage2"}
      /\ k = "recovery5" =>
            /\ \A p \in 8..9 : Answered(k, p) = {"reentry", "stage2", "rewifi"}
            /\ \A p \in 10..12 : Answered(k, p) = {"reentry", "stage2", "rewifi", "configure"}
  BY <1>1 DEF Answered
<1>7. /\ "reentry" \in Frames /\ "stage2" \in Frames /\ "rewifi" \in Frames
      /\ "configure" \in Frames /\ "start" \in Frames
      /\ "reentry" \in ApprovedFor(k) /\ "stage2" \in ApprovedFor(k)
      /\ k # "recovery2" => "rewifi" \in ApprovedFor(k)
      /\ k = "recovery5" => "configure" \in ApprovedFor(k) /\ "start" \in ApprovedFor(k)
  BY Approvals DEF Frames, StreamFrames, Recoveries
<1>8. /\ Waits(k, 1, "any") /\ Waits(k, 3, "reentry") /\ Waits(k, 5, "stage2")
  <2>1. /\ Answered(k, 1) = {} /\ Answered(k, 2) = {}
        /\ Answered(k, 3) = {} /\ Answered(k, 4) = {"reentry"}
        /\ Answered(k, 5) = {"reentry"} /\ Answered(k, 6) = {"reentry", "stage2"}
    BY <1>6
  <2>2. Waits(k, 1, "any")
    BY <2>1, <1>1, <1>2, <1>4 DEF Wait, Waits, Ready
  <2>3. Waits(k, 3, "reentry")
    BY <2>1, <1>1, <1>2, <1>4 DEF Wait, Waits, Exactly
  <2>4. Waits(k, 5, "stage2")
    BY <2>1, <1>1, <1>2, <1>4 DEF Wait, Waits, Exactly
  <2> QED
    BY <2>2, <2>3, <2>4
<1>9. Sends(k, 2, "reentry") /\ Sends(k, 4, "stage2")
  <2>1. NeedsBefore(k, "reentry") = {} /\ NeedsBefore(k, "stage2") = {"reentry"}
    BY NeedsOf
  <2>2. Sends(k, 2, "reentry")
    <3>1. Answered(k, 2) = {} /\ Answered(k, 3) = {}
      BY <1>6
    <3> QED
      BY <2>1, <3>1, <1>2, <1>4, <1>5, <1>7 DEF Send, Sends
  <2>3. Sends(k, 4, "stage2")
    <3>1. Answered(k, 4) = {"reentry"} /\ Answered(k, 5) = {"reentry"}
      BY <1>6
    <3> QED
      BY <2>1, <3>1, <1>2, <1>4, <1>5, <1>7 DEF Send, Sends
  <2> QED
    BY <2>2, <2>3
<1>10. ASSUME k # "recovery2" PROVE Sends(k, 6, "rewifi")
  <2>1. /\ Answered(k, 6) = {"reentry", "stage2"} /\ Answered(k, 7) = Answered(k, 6)
        /\ NeedsBefore(k, "rewifi") = {"reentry", "stage2"}
    BY <1>6, <1>10, NeedsOf
  <2> QED
    BY <2>1, <1>2, <1>4, <1>5, <1>7, <1>10 DEF Send, Sends
<1>11. ASSUME k = "recovery3" PROVE Waits(k, 7, "rewifi")
  <2>1. Script(k)[7] = IfAny("rewifi")
    BY <1>11, Scripts, RejoinIs
  <2> QED
    BY <2>1, <1>4, <1>6, <1>11 DEF Wait, Waits, IfAny
<1>12. ASSUME k = "recovery5"
       PROVE  /\ Waits(k, 7, "rewifi") /\ Sends(k, 8, "configure") /\ Waits(k, 9, "configure")
              /\ Sends(k, 10, "start") /\ Waits(k, 11, "start")
  <2>1. /\ Script(k)[7] = Exactly("rewifi") /\ Script(k)[8] = Send("configure", FALSE)
        /\ Script(k)[9] = WellFormed("configure") /\ Script(k)[10] = Send("start", TRUE)
        /\ Script(k)[11] = WellFormed("start")
    BY <1>12, Scripts, FullStreamIs
  <2>2. Sends(k, 8, "configure")
    <3>1. /\ Answered(k, 8) = {"reentry", "stage2", "rewifi"} /\ Answered(k, 9) = Answered(k, 8)
          /\ NeedsBefore(k, "configure") = {"reentry", "stage2", "rewifi"}
      <4>1. NeedsBefore(k, "configure") = {"reentry", "stage2", "rewifi"}
        BY <1>12, NeedsOf
      <4> QED
        BY <1>6, <1>12, <4>1
    <3> QED
      BY <2>1, <3>1, <1>4, <1>5, <1>7, <1>12 DEF Send, Sends
  <2>4. Sends(k, 10, "start")
    <3>1. /\ Answered(k, 10) = {"reentry", "stage2", "rewifi", "configure"}
          /\ Answered(k, 11) = Answered(k, 10)
          /\ NeedsBefore(k, "start") = {"reentry", "stage2", "rewifi", "configure"}
      BY <1>6, <1>12, NeedsOf
    <3> QED
      BY <2>1, <3>1, <1>4, <1>5, <1>7, <1>12 DEF Send, Sends
  <2>3. Waits(k, 7, "rewifi") /\ Waits(k, 9, "configure") /\ Waits(k, 11, "start")
    BY <2>1, <1>1, <1>4, <1>6, <1>12 DEF Wait, Waits, Exactly, WellFormed
  <2> QED
    BY <2>2, <2>3, <2>4
<1> QED
  BY <1>8, <1>9, <1>10, <1>11, <1>12 DEF Recoveries

LEMMA Positions ==
  ASSUME NEW k \in Kinds, NEW p \in 1..Len(Script(k))
  PROVE  \E f : Sends(k, p, f) \/ Waits(k, p, f)
<1>1. CASE k \in Singles
  <2>1. p = 1 \/ p = 2
    <3>1. Len(Script(k)) = 2
      BY <1>1, ScriptLengths
    <3> QED
      BY <3>1
  <2> QED
    BY <2>1, <1>1, SinglePositions
<1>2. CASE k \in Guarded
  <2>1. p = 1 \/ p = 2
    <3>1. Len(Script(k)) = 2
      BY <1>2, ScriptLengths
    <3> QED
      BY <3>1
  <2> QED
    BY <2>1, <1>2, GuardedPositions
<1>3. CASE k = "pairing"
  <2>1. p = 1 \/ p = 2 \/ p = 3 \/ p = 4 \/ p = 5 \/ p = 6 \/ p = 7
    <3>1. Len(Script(k)) = 7
      BY <1>3, ScriptLengths
    <3> QED
      BY <3>1
  <2> QED
    BY <2>1, <1>3, PairingPositions
<1>4. CASE k \in Recoveries
  <2>1. \/ p = 1 \/ p = 2 \/ p = 3 \/ p = 4 \/ p = 5
        \/ k # "recovery2" /\ (p = 6 \/ p = 7)
        \/ k = "recovery5" /\ (p = 8 \/ p = 9 \/ p = 10 \/ p = 11)
    <3>1. \/ Len(Script(k)) = 5
          \/ Len(Script(k)) = 7 /\ k # "recovery2"
          \/ Len(Script(k)) = 11 /\ k = "recovery5"
      BY <1>4, ScriptLengths DEF Recoveries
    <3>2. CASE Len(Script(k)) = 5
      BY <3>2
    <3>3. CASE Len(Script(k)) = 7 /\ k # "recovery2"
      BY <3>3
    <3>4. CASE Len(Script(k)) = 11 /\ k = "recovery5"
      BY <3>4
    <3> QED
      BY <3>1, <3>2, <3>3, <3>4
  <2> QED
    BY <2>1, <1>4, RecoveryPositions
<1>5. CASE k = "listen"
  BY <1>5, ScriptLengths
<1> QED
  BY <1>1, <1>2, <1>3, <1>4, <1>5, KindCases DEF Recoveries

LEMMA SendPosition ==
  ASSUME NEW k \in Kinds, NEW p \in 1..Len(Script(k)), Script(k)[p].op = "send"
  PROVE  Sends(k, p, Script(k)[p].name)
  BY Positions DEF Sends, Waits

LEMMA WaitPosition ==
  ASSUME NEW k \in Kinds, NEW p \in 1..Len(Script(k)), Script(k)[p].op = "wait"
  PROVE  Waits(k, p, Script(k)[p].name)
  BY Positions DEF Sends, Waits

LEMMA OrderIs ==
    /\ \A k \in Singles : Order(k)[1] = k /\ Len(Order(k)) = 1
    /\ \A k \in Guarded : Order(k)[1] = Guards[k] /\ Len(Order(k)) = 1
    /\ Order("pairing")[1] = "pin" /\ Order("pairing")[2] = "ack" /\ Order("pairing")[3] = "final"
    /\ Len(Order("pairing")) = 3
    /\ \A k \in Recoveries :
          /\ Order(k)[1] = "reentry" /\ Order(k)[2] = "stage2" /\ Order(k)[3] = "rewifi"
          /\ Order(k)[4] = "configure" /\ Order(k)[5] = "start" /\ Len(Order(k)) = 5
    /\ Len(Order("listen")) = 0
<1>1. /\ "pairing" \notin Singles \cup Guarded
      /\ "listen" \notin Singles \cup Guarded \cup Recoveries
      /\ \A k \in Recoveries : k \notin Singles \cup Guarded /\ k # "pairing"
  BY Apartness
<1>2. /\ \A k \in Singles : Order(k)[1] = k /\ Len(Order(k)) = 1
      /\ \A k \in Guarded : Order(k)[1] = Guards[k] /\ Len(Order(k)) = 1
  BY Apartness DEF Order
<1>3. /\ Order("pairing")[1] = "pin" /\ Order("pairing")[2] = "ack" /\ Order("pairing")[3] = "final"
      /\ Len(Order("pairing")) = 3
  BY <1>1 DEF Order
<1>4. ASSUME NEW k \in Recoveries
      PROVE  /\ Order(k)[1] = "reentry" /\ Order(k)[2] = "stage2" /\ Order(k)[3] = "rewifi"
             /\ Order(k)[4] = "configure" /\ Order(k)[5] = "start" /\ Len(Order(k)) = 5
  BY <1>1 DEF Order
<1>5. Len(Order("listen")) = 0
  BY <1>1 DEF Order
<1> QED
  BY <1>2, <1>3, <1>4, <1>5

\* No frame comes twice in a script.
LEMMA OrderOnce ==
  ASSUME NEW k \in Kinds
  PROVE  /\ Len(Order(k)) \in Nat
         /\ \A i, j \in 1..Len(Order(k)) : Order(k)[i] = Order(k)[j] => i = j
<1>1. CASE k \in Singles \cup Guarded
  BY <1>1, OrderIs
<1>2. CASE k = "pairing"
  <2>1. \A i \in 1..3 : i = 1 \/ i = 2 \/ i = 3
    OBVIOUS
  <2> QED
    BY <2>1, <1>2, OrderIs
<1>3. CASE k \in Recoveries
  <2>1. \A i \in 1..5 : i = 1 \/ i = 2 \/ i = 3 \/ i = 4 \/ i = 5
    OBVIOUS
  <2>2. /\ Order(k)[1] = "reentry" /\ Order(k)[2] = "stage2" /\ Order(k)[3] = "rewifi"
        /\ Order(k)[4] = "configure" /\ Order(k)[5] = "start" /\ Len(Order(k)) = 5
    BY <1>3, OrderIs
  <2> QED
    BY <2>1, <2>2
<1>4. CASE k = "listen"
  BY <1>4, OrderIs
<1> QED
  BY <1>1, <1>2, <1>3, <1>4, KindCases DEF Recoveries

LEMMA ScriptStarts == \A k : Due(k, 1) = 0 /\ Answered(k, 1) = {}
  BY DEF Due, Answered

LEMMA DueBounds ==
  ASSUME NEW k \in Kinds, NEW p \in 1..Len(Script(k)) + 1
  PROVE  Due(k, p) \in 0..Len(Order(k))
<1>1. CASE k \in Singles \cup Guarded
  BY <1>1, OrderIs DEF Due
<1>2. CASE k = "pairing"
  BY <1>2, OrderIs, Apartness DEF Due
<1>3. CASE k \in Recoveries
  <2>1. k \notin Singles \cup Guarded /\ k # "pairing"
    BY <1>3, Apartness
  <2>2. p \in 1..12
    <3>1. Len(Script(k)) = 5 \/ Len(Script(k)) = 7 \/ Len(Script(k)) = 11
      BY <1>3, ScriptLengths DEF Recoveries
    <3>2. CASE Len(Script(k)) = 5
      BY <3>2
    <3>3. CASE Len(Script(k)) = 7
      BY <3>3
    <3>4. CASE Len(Script(k)) = 11
      BY <3>4
    <3> QED
      BY <3>1, <3>2, <3>3, <3>4
  <2>3. (p - 1) \div 2 \in 0..5
    BY <2>2
  <2> QED
    BY <2>1, <2>3, <1>3, OrderIs DEF Due
<1>4. CASE k = "listen"
  BY <1>4, OrderIs, Apartness DEF Due
<1> QED
  BY <1>1, <1>2, <1>3, <1>4, KindCases DEF Recoveries

\* At the end of a script all it is approved for is written, and all that builds
\* on has been answered.
LEMMA ScriptEnds ==
  ASSUME NEW k \in Kinds, NEW p, p = Len(Script(k)) + 1
  PROVE  /\ {Order(k)[i] : i \in 1..Due(k, p)} = ApprovedFor(k)
         /\ \A f \in ApprovedFor(k) : NeedsBefore(k, f) \subseteq Answered(k, p)
<1>1. CASE k \in Singles
  <2>1. p = 3 /\ Order(k)[1] = k /\ Due(k, p) = 1 /\ NeedsBefore(k, k) = {}
    <3>1. Len(Script(k)) = 2
      BY <1>1, ScriptLengths
    <3> QED
      BY <1>1, <3>1, OrderIs, NeedsOf DEF Due
  <2> QED
    BY <2>1, <1>1, Approvals
<1>2. CASE k \in Guarded
  <2>1. /\ p = 3 /\ Order(k)[1] = Guards[k] /\ Due(k, p) = 1
        /\ NeedsBefore(k, Guards[k]) = {"approval"} /\ Answered(k, p) = {"approval"}
    <3>1. Len(Script(k)) = 2
      BY <1>2, ScriptLengths
    <3>2. p = 3
      BY <3>1
    <3> QED
      BY <1>2, <3>2, OrderIs, NeedsOf DEF Due, Answered
  <2> QED
    BY <2>1, <1>2, Approvals
<1>3. CASE k = "pairing"
  <2>1. /\ p = 8 /\ Due(k, p) = 3 /\ Answered(k, p) = {"approval"}
    <3>1. Len(Script(k)) = 7
      BY <1>3, ScriptLengths
    <3>2. p = 8
      BY <3>1
    <3> QED
      BY <1>3, <3>2, Apartness DEF Due, Answered
  <2>2. 1..3 = {1, 2, 3}
    OBVIOUS
  <2>3. {Order(k)[i] : i \in 1..3} = PairingFrames
    BY <2>2, <1>3, OrderIs DEF PairingFrames
  <2>4. \A f \in PairingFrames : NeedsBefore(k, f) \subseteq {"approval"}
    BY <1>3, NeedsOf DEF PairingFrames
  <2> QED
    BY <2>1, <2>3, <2>4, <1>3, Approvals
<1>4. CASE k \in Recoveries
  <2>1. k \notin Singles \cup Guarded /\ k # "pairing"
    BY <1>4, Apartness
  <2>2. /\ Order(k)[1] = "reentry" /\ Order(k)[2] = "stage2" /\ Order(k)[3] = "rewifi"
        /\ Order(k)[4] = "configure" /\ Order(k)[5] = "start"
    BY <1>4, OrderIs
  <2>3. /\ NeedsBefore(k, "reentry") = {} /\ NeedsBefore(k, "stage2") = {"reentry"}
        /\ NeedsBefore(k, "rewifi") = {"reentry", "stage2"}
        /\ NeedsBefore(k, "configure") = {"reentry", "stage2", "rewifi"}
        /\ NeedsBefore(k, "start") = {"reentry", "stage2", "rewifi", "configure"}
    BY <1>4, NeedsOf
  <2>4. CASE k = "recovery2"
    <3>1. p = 6 /\ Due(k, p) = 2 /\ 1..2 = {1, 2}
      <4>1. Len(Script(k)) = 5
        BY <2>4, ScriptLengths
      <4>2. p = 6
        BY <4>1
      <4> QED
        BY <4>2, <2>1, <2>4 DEF Due, Recoveries
    <3>2. Answered(k, p) = {"reentry", "stage2"}
      BY <2>1, <2>4, <3>1 DEF Answered, Recoveries
    <3> QED
      BY <2>2, <2>3, <2>4, <3>1, <3>2, Approvals
  <2>5. CASE k = "recovery3"
    <3>1. p = 8 /\ Due(k, p) = 3 /\ 1..3 = {1, 2, 3}
      <4>1. Len(Script(k)) = 7
        BY <2>5, ScriptLengths
      <4>2. p = 8
        BY <4>1
      <4> QED
        BY <4>2, <2>1, <2>5 DEF Due, Recoveries
    <3>2. Answered(k, p) = {"reentry", "stage2"}
      BY <2>1, <2>5, <3>1 DEF Answered, Recoveries
    <3> QED
      BY <2>2, <2>3, <2>5, <3>1, <3>2, Approvals
  <2>6. CASE k = "recovery5"
    <3>1. p = 12 /\ Due(k, p) = 5 /\ 1..5 = {1, 2, 3, 4, 5}
      <4>1. Len(Script(k)) = 11
        BY <2>6, ScriptLengths
      <4>2. p = 12
        BY <4>1
      <4> QED
        BY <4>2, <2>1, <2>6 DEF Due, Recoveries
    <3>2. Answered(k, p) = {"reentry", "stage2", "rewifi", "configure"}
      BY <2>1, <2>6, <3>1 DEF Answered, Recoveries
    <3> QED
      BY <2>2, <2>3, <2>6, <3>1, <3>2, Approvals
  <2> QED
    BY <1>4, <2>4, <2>5, <2>6 DEF Recoveries
<1>5. CASE k = "listen"
  <2>1. p = 1 /\ ApprovedFor(k) = {} /\ Due(k, p) = 0
    BY <1>5, ScriptLengths, Approvals, ScriptStarts
  <2> QED
    BY <2>1
<1> QED
  BY <1>1, <1>2, <1>3, <1>4, <1>5, KindCases DEF Recoveries

-----------------------------------------------------------------------------
(* The steps of a session.                                                  *)

LEMMA FrameTypes == FrameInv => SessionTypeOK
<1> SUFFICES ASSUME FrameInv PROVE SessionTypeOK
  OBVIOUS
<1>1. {subscribed, declined} \subseteq BOOLEAN
  BY Zenon DEF FrameInv, Flags
<1> QED
  BY <1>1 DEF FrameInv, Enums, Flags, Bounds, Modes, Pairings, SessionTypeOK

LEMMA FrameStart == SessionInit => FrameInv
<1> SUFFICES ASSUME SessionInit PROVE FrameInv
  OBVIOUS
<1> USE DEF SessionInit, LinkInit
<1>1. Enums /\ SeqTypes
  BY DEF Enums, Modes, SeqTypes
<1>2. Flags
  BY Zenon DEF Flags, Pairings
<1>3. Bounds
  BY ScriptLengths DEF Bounds
<1>4. Due(kind, pos) = 0 /\ Answered(kind, pos) = {}
  BY ScriptStarts
<1>5. WireInv /\ AnswersInv /\ HistoryInv
  BY <1>4 DEF WireInv, AnswersInv, HistoryInv
<1>6. PlaceInv
  BY DEF PlaceInv
<1> QED
  BY <1>1, <1>2, <1>3, <1>5, <1>6 DEF FrameInv

\* The camera and the ledger know nothing of a new session yet.
LEMMA AnewKeeps ==
  ASSUME NEW k, NEW m, Anew(k, m), past' = past, past \subseteq Milestones,
         (k \in Kinds /\ m = "connecting") \/ (k = "none" /\ m = "idle")
  PROVE  FrameInv'
<1> USE DEF Anew, NewLink
<1>1. k # "none" <=> k \in Kinds
  BY GuardsAre, SinglesAre DEF Kinds
<1>2. Enums' /\ SeqTypes'
  BY DEF Enums, Modes, SeqTypes
<1>3. Flags'
  BY Zenon DEF Flags, Pairings
<1>4. Len(Script(k)) \in Nat
  BY <1>1, ScriptLengths, KindCases
<1>5. Bounds'
  BY <1>4 DEF Bounds
<1>6. Due(k, 1) = 0 /\ Answered(k, 1) = {}
  BY ScriptStarts
<1>7. WireInv' /\ AnswersInv' /\ HistoryInv'
  BY <1>6 DEF WireInv, AnswersInv, HistoryInv
<1>8. PlaceInv'
  BY <1>1 DEF PlaceInv
<1> QED
  BY <1>2, <1>3, <1>5, <1>7, <1>8 DEF FrameInv

\* What a step that only moves the coroutine, or its link, leaves alone.
quietVars == <<wire, kind, pos, heard, sent, past>>

LEMMA QuietKeeps ==
  ASSUME FrameInv, UNCHANGED quietVars, read' = read
  PROVE  Bounds' /\ SeqTypes' /\ WireInv' /\ AnswersInv' /\ HistoryInv'
<1>1. UNCHANGED <<Shortcut, Given>>
  BY DEF quietVars, Shortcut, ToldPaired, Given
<1> QED
  BY <1>1 DEF FrameInv, quietVars, Bounds, SeqTypes, WireInv, AnswersInv, HistoryInv, IsWhole

LEMMA RaiseKeeps ==
  ASSUME FrameInv, mode # "idle", NEW what \in {"failed", "cancelled"}, Raise(what),
         read' \in 0..Len(heard)
  PROVE  FrameInv'
<1>1. UNCHANGED quietVars /\ UNCHANGED <<link, subscribed, declined>>
  BY DEF Raise, quietVars, linkVars
<1>2. UNCHANGED <<Shortcut, Given>>
  BY <1>1 DEF quietVars, Shortcut, ToldPaired, Given
<1>3. Bounds' /\ SeqTypes' /\ WireInv' /\ AnswersInv' /\ HistoryInv'
  BY <1>1, <1>2 DEF FrameInv, quietVars, Bounds, SeqTypes, WireInv, AnswersInv, HistoryInv, IsWhole
<1>4. Enums'
  BY <1>1 DEF FrameInv, Enums, Raise, quietVars, Modes
<1>5. Flags'
  <2>1. pairing' \in Pairings
    BY DEF FrameInv, Flags, Raise, Pairings
  <2> QED
    BY <2>1, <1>1, Zenon DEF FrameInv, Flags
<1>6. PlaceInv'
  BY <1>1 DEF FrameInv, PlaceInv, Raise, quietVars
<1> QED
  BY <1>3, <1>4, <1>5, <1>6 DEF FrameInv

\* The coroutine or its link moves.
LEMMA MovesKeep ==
  ASSUME FrameInv,
         Connect \/ Subscribe \/ Decline \/ Leave \/ StopNotify \/ Disconnect \/ DisconnectFails \/ Drop
  PROVE  FrameInv'
<1>1. UNCHANGED quietVars /\ read' = read /\ pairing' = pairing
  BY DEF Connect, Subscribe, Decline, Leave, StopNotify, Disconnect, DisconnectFails, Drop,
         Connected, Subscribed, Unsubscribed, Released, Dropped, quietVars, ownVars, linkVars
<1>2. Enums'
  BY <1>1 DEF Connect, Subscribe, Decline, Leave, StopNotify, Disconnect, DisconnectFails, Drop,
         Connected, Subscribed, Unsubscribed, Released, Dropped, quietVars, ownVars, linkVars,
         FrameInv, Enums, Modes
<1>3. subscribed' \in BOOLEAN /\ declined' \in BOOLEAN
  BY Zenon DEF Connect, Subscribe, Decline, Leave, StopNotify, Disconnect, DisconnectFails, Drop,
         Connected, Subscribed, Unsubscribed, Released, Dropped, ownVars, linkVars, FrameInv, Flags
<1>4. PlaceInv'
  <2>1. CASE Connect \/ Subscribe
    BY <2>1, <1>1 DEF Connect, Subscribe, Connected, Subscribed, FrameInv, PlaceInv, quietVars, ownVars,
         Finished, Step, WireInv
  <2>2. CASE Decline \/ Leave
    BY <2>2, <1>1 DEF Decline, Leave, FrameInv, PlaceInv, quietVars, ownVars, linkVars, Finished, Step, At
  <2>3. CASE StopNotify \/ Disconnect \/ DisconnectFails
    BY <2>3, <1>1 DEF StopNotify, Disconnect, DisconnectFails, Unsubscribed, Released,
         FrameInv, PlaceInv, quietVars, ownVars, linkVars, Finished, Step
  <2>4. CASE Drop
    BY <2>4, <1>1 DEF Drop, Dropped, FrameInv, PlaceInv, quietVars, ownVars, Finished, Step
  <2> QED
    BY <2>1, <2>2, <2>3, <2>4
<1> QED
  BY <1>1, <1>2, <1>3, <1>4, QuietKeeps DEF FrameInv, Flags

\* Within its script a session has a kind, and has not been cut short.
LEMMA InScript ==
  ASSUME FrameInv, mode # "idle", ~Finished
  PROVE  /\ kind \in Kinds /\ pos \in 1..Len(Script(kind)) /\ ~Shortcut
         /\ Len(sent) = Due(kind, pos) /\ Answered(kind, pos) \subseteq Given
<1>1. kind \in Kinds /\ Len(Script(kind)) \in Nat
  BY ScriptLengths, KindCases DEF FrameInv, Enums, PlaceInv
<1>2. pos \in 1..Len(Script(kind))
  BY <1>1 DEF FrameInv, Bounds, Finished
<1>3. ~Shortcut
  <2> SUFFICES ASSUME Shortcut PROVE FALSE
    OBVIOUS
  <2>1. Len(Script(kind)) = 7 /\ pos = 8
    BY ScriptLengths DEF Shortcut
  <2> QED
    BY <2>1, <1>2
<1> QED
  BY <1>1, <1>2, <1>3 DEF FrameInv, WireInv, AnswersInv

LEMMA BeginKeeps ==
  ASSUME FrameInv, BeginFrame
  PROVE  FrameInv'
<1> DEFINE f == Step.name
           r == [frame |-> f, parts |-> 0]
<1>1. /\ kind \in Kinds /\ pos \in 1..Len(Script(kind)) /\ ~Finished /\ Step.op = "send"
      /\ Len(sent) = Due(kind, pos) /\ mode = "stepping"
  BY InScript DEF BeginFrame, At
<1>2. Sends(kind, pos, f)
  BY <1>1, SendPosition DEF Step
<1>3. /\ wire' = Append(wire, r) /\ mode' = "writing"
      /\ UNCHANGED <<link, subscribed, kind, pos, heard, read, sent, error, declined, pairing, past>>
  BY DEF BeginFrame, FrameBegun, ownVars
<1>4. Len(wire) = Len(sent) /\ Len(sent) \in Nat /\ wire \in Seq([frame : Frames, parts : Nat])
  BY <1>1 DEF FrameInv, PlaceInv, SeqTypes
<1>5. r \in [frame : Frames, parts : Nat] /\ r.frame = f /\ r.parts = 0
  BY <1>2 DEF Sends
<1> HIDE DEF r
<1>6. /\ wire' \in Seq([frame : Frames, parts : Nat]) /\ Len(wire') = Len(wire) + 1
      /\ \A i \in 1..Len(wire) : wire'[i] = wire[i]
      /\ wire'[Len(wire) + 1] = r
  BY <1>3, <1>4, <1>5, AppendProperties
<1>7. Order(kind)[Len(wire) + 1] = f
  <2>1. Due(kind, pos + 1) = Len(wire) + 1
    BY <1>1, <1>2, <1>4 DEF Sends
  <2> QED
    BY <2>1, <1>2 DEF Sends
<1>8. UNCHANGED <<Shortcut, Given, Finished, Step>>
  BY <1>3 DEF Shortcut, ToldPaired, Given, Finished, Step
<1>9. Parts(f) \in Nat /\ 0 < Parts(f) /\ 0 <= Parts(f) /\ 0 # Parts(f)
  BY DEF Parts
<1>10. WireInv'
  <2>1. \A i \in 1..Len(wire') : wire'[i].frame = Order(kind)[i]
    BY <1>4, <1>5, <1>6, <1>7 DEF FrameInv, WireInv
  <2>2. \A i \in 1..Len(sent) : sent[i] = Order(kind)[i] /\ IsWhole(wire'[i])
    BY <1>4, <1>6 DEF FrameInv, WireInv
  <2> QED
    BY <2>1, <2>2, <1>1, <1>3, <1>4, <1>6 DEF WireInv, IsWhole
<1>11. PlaceInv'
  <2>1. /\ wire'[Len(wire')].frame = f /\ wire'[Len(wire')].parts = 0
        /\ Len(wire') = Len(sent') + 1
    BY <1>3, <1>4, <1>5, <1>6
  <2>2. kind' # "none" /\ Step' = Step /\ ~Finished'
    BY <1>1, <1>3, <1>8 DEF FrameInv, PlaceInv
  <2> QED
    BY <2>1, <2>2, <1>1, <1>3, <1>9 DEF PlaceInv
<1>12. HistoryInv'
  <2>1. ~IsWhole(r)
    BY <1>5, <1>9 DEF IsWhole
  <2>2. \A i \in 1..Len(wire') : IsWhole(wire'[i]) => Noted("sent", wire'[i].frame, past)
    BY <2>1, <1>4, <1>6 DEF FrameInv, HistoryInv
  <2> QED
    BY <2>2, <1>3 DEF FrameInv, HistoryInv, IsWhole
<1>13. Flags'
  BY <1>3, Zenon DEF FrameInv, Flags
<1>14. Enums' /\ Bounds' /\ SeqTypes' /\ AnswersInv'
  BY <1>3, <1>6, <1>8 DEF FrameInv, Enums, Modes, Bounds, SeqTypes, AnswersInv
<1> QED
  BY <1>10, <1>11, <1>12, <1>13, <1>14 DEF FrameInv

LEMMA WritePartKeeps ==
  ASSUME FrameInv, WritePart
  PROVE  FrameInv'
<1> DEFINE n == Len(wire)
           Recs == [frame : Frames, parts : Nat]
<1>1. /\ ~Finished /\ Step.op = "send" /\ n = Len(sent) + 1 /\ wire[n].frame = Step.name
      /\ wire[n].parts < Parts(Step.name) /\ kind # "none" /\ kind \in Kinds
  BY DEF FrameInv, PlaceInv, WritePart, Enums
<1>2. /\ wire' = [wire EXCEPT ![n].parts = @ + 1] /\ mode' = "written"
      /\ UNCHANGED <<link, subscribed, kind, pos, heard, read, sent, error, declined, pairing>>
      /\ past' = IF IsWhole(wire'[Len(wire')]) THEN Recall("sent", wire[n].frame) ELSE past
  BY DEF WritePart, PartWritten, ownVars, Last, Current
<1>3. wire \in Seq(Recs) /\ Len(sent) \in Nat /\ n \in 1..n
  BY <1>1 DEF FrameInv, SeqTypes
<1>4. wire[n] \in Recs
  BY <1>3, ElementOfSeq
<1> DEFINE r == [wire[n] EXCEPT !.parts = @ + 1]
<1>5. r \in Recs /\ r.frame = wire[n].frame /\ r.parts = wire[n].parts + 1
  BY <1>4
<1>6. wire' = [wire EXCEPT ![n] = r]
  BY <1>2
<1> HIDE DEF r, Recs
<1>7. /\ wire' \in Seq(Recs) /\ Len(wire') = n
      /\ \A i \in 1..n : wire'[i] = IF i = n THEN r ELSE wire[i]
  BY <1>3, <1>5, <1>6, ExceptSeq
<1>8. /\ wire'[n].frame = wire[n].frame /\ wire'[n].parts = wire[n].parts + 1
      /\ \A i \in 1..n : wire'[i].frame = wire[i].frame
      /\ \A i \in 1..Len(sent) : wire'[i] = wire[i]
  BY <1>1, <1>3, <1>5, <1>7
<1>9. UNCHANGED <<Shortcut, Given, Finished, Step>>
  BY <1>2 DEF Shortcut, ToldPaired, Given, Finished, Step
<1>10. /\ past \subseteq past' /\ past' \subseteq Milestones
       /\ IsWhole(wire'[n]) => Noted("sent", wire'[n].frame, past')
  <2>1. wire'[Len(wire')] = wire'[n] /\ wire'[n].frame = wire[n].frame
    BY <1>7, <1>8
  <2>2. CASE IsWhole(wire'[n])
    <3>1. past' = past \cup ({<<"sent", wire[n].frame>>} \cap Milestones)
      BY <1>2, <2>1, <2>2 DEF Recall
    <3> QED
      BY <2>1, <3>1 DEF FrameInv, Enums, Noted
  <2>3. CASE ~IsWhole(wire'[n])
    <3>1. past' = past
      BY <1>2, <2>1, <2>3
    <3> QED
      BY <2>3, <3>1 DEF FrameInv, Enums
  <2> QED
    BY <2>2, <2>3
<1>11. WireInv'
  <2>1. \A i \in 1..Len(wire') : wire'[i].frame = Order(kind)[i]
    BY <1>7, <1>8 DEF FrameInv, WireInv
  <2>2. \A i \in 1..Len(sent) : sent[i] = Order(kind)[i] /\ IsWhole(wire'[i])
    BY <1>8 DEF FrameInv, WireInv
  <2> QED
    <3>1. Len(wire') \in {Len(sent), Len(sent) + 1}
      BY <1>7 DEF FrameInv, WireInv
    <3>2. Len(sent) = Due(kind, pos) \/ Shortcut'
      BY <1>9 DEF FrameInv, WireInv
    <3>3. sent' = sent /\ kind' = kind /\ pos' = pos
      BY <1>2
    <3> QED
      BY <2>1, <2>2, <3>1, <3>2, <3>3 DEF WireInv, IsWhole
<1>12. PlaceInv'
  <2>1. wire[n].parts \in Nat /\ Parts(Step.name) \in Nat
    BY <1>4 DEF Parts, Recs
  <2>2. wire'[n].parts <= Parts(Step.name)
    BY <2>1, <1>1, <1>8
  <2> QED
    BY <2>2, <1>1, <1>2, <1>7, <1>8, <1>9 DEF PlaceInv
<1>13. HistoryInv'
  <2>1. ASSUME NEW i \in 1..n, IsWhole(wire'[i]) PROVE Noted("sent", wire'[i].frame, past')
    <3>1. CASE i = n
      BY <3>1, <2>1, <1>10
    <3>2. CASE i # n
      <4>1. wire'[i] = wire[i]
        BY <3>2, <1>7
      <4>2. IsWhole(wire[i])
        BY <2>1, <4>1
      <4>3. Noted("sent", wire[i].frame, past)
        BY <4>2 DEF FrameInv, HistoryInv
      <4> QED
        BY <4>1, <4>3, <1>10 DEF Noted
    <3> QED
      BY <3>1, <3>2
  <2>2. ASSUME NEW i \in 1..Len(heard), heard[i].verdict = "good"
        PROVE  Noted("good", heard[i].name, past')
    BY <2>2, <1>10 DEF FrameInv, HistoryInv, Noted
  <2>3. Len(wire') = n /\ heard' = heard
    BY <1>2, <1>7
  <2> QED
    BY <2>1, <2>2, <2>3 DEF HistoryInv
<1>14. Flags'
  BY <1>2, Zenon DEF FrameInv, Flags
<1>15. Enums' /\ SeqTypes'
  <2>1. Enums'
    BY <1>2, <1>10 DEF FrameInv, Enums, Modes
  <2>2. SeqTypes'
    BY <1>2, <1>7 DEF FrameInv, SeqTypes, Recs
  <2> QED
    BY <2>1, <2>2
<1>16. Bounds' /\ AnswersInv'
  BY <1>2, <1>9 DEF FrameInv, Bounds, AnswersInv
<1> QED
  BY <1>11, <1>12, <1>13, <1>14, <1>15, <1>16 DEF FrameInv

LEMMA PairTypes ==
  ASSUME pairing \in Pairings,
         NEW event \in Pairings \cup {"ready", "pin", "approval", "ack", "final"}
  PROVE  Pair(event) \in Pairings
<1>1. CASE kind # "pairing"
  BY <1>1 DEF Pair
<1>2. CASE kind = "pairing" /\ event \in {"ready", "paired", "pin", "approval", "ack", "final"}
  BY <1>2 DEF Pair, Pairings
<1>3. CASE kind = "pairing" /\ event \notin {"ready", "paired", "pin", "approval", "ack", "final"}
  BY <1>3 DEF Pair, Pairings
<1> QED
  BY <1>1, <1>2, <1>3

LEMMA NextPartKeeps ==
  ASSUME FrameInv, NextPart
  PROVE  FrameInv'
<1> DEFINE n == Len(wire)
<1>1. /\ ~Finished /\ Step.op = "send" /\ n = Len(sent) + 1 /\ wire[n].frame = Step.name
      /\ wire[n].parts <= Parts(Step.name) /\ mode # "idle"
  BY DEF FrameInv, PlaceInv, NextPart
<1>2. /\ kind \in Kinds /\ pos \in 1..Len(Script(kind)) /\ Len(sent) = Due(kind, pos)
      /\ Answered(kind, pos) \subseteq Given
  BY <1>1, InScript
<1>3. Sends(kind, pos, Step.name)
  BY <1>1, <1>2, SendPosition DEF Step
<1>4. /\ UNCHANGED <<link, subscribed, wire, kind, heard, read, error, declined, past>>
      /\ UNCHANGED Given
  BY DEF NextPart, linkVars, Given
<1>5. /\ sent \in Seq(Frames) /\ Len(sent) \in Nat
      /\ wire[n] \in [frame : Frames, parts : Nat]
  <2>1. wire \in Seq([frame : Frames, parts : Nat]) /\ sent \in Seq(Frames) /\ Len(sent) \in Nat
    BY DEF FrameInv, SeqTypes
  <2>2. n \in 1..n
    BY <2>1, <1>1
  <2> QED
    BY <2>1, <2>2, ElementOfSeq
<1>6. CASE IsWhole(Current)
  <2>1. /\ sent' = Append(sent, Step.name) /\ pos' = pos + 1 /\ mode' = "stepping"
        /\ pairing' = Pair(IF Step.name = "pin" THEN pairing ELSE Step.name)
    BY <1>1, <1>6 DEF NextPart, Ledger, Current, Last
  <2>2. /\ sent' \in Seq(Frames) /\ Len(sent') = n
        /\ \A i \in 1..Len(sent) : sent'[i] = sent[i]
        /\ sent'[n] = Step.name
    BY <2>1, <1>1, <1>3, <1>5, AppendProperties DEF Sends
  <2>3. Due(kind, pos') = n /\ Answered(kind, pos') = Answered(kind, pos)
    BY <2>1, <1>1, <1>2, <1>3 DEF Sends
  <2>4. WireInv'
    <3>1. ASSUME NEW i \in 1..n PROVE sent'[i] = Order(kind)[i] /\ IsWhole(wire[i])
      <4>1. CASE i = n
        BY <4>1, <2>2, <1>1, <1>6 DEF FrameInv, WireInv, Current, Last
      <4>2. CASE i # n
        <5>1. i \in 1..Len(sent)
          BY <4>2, <1>1, <1>5
        <5> QED
          BY <5>1, <2>2 DEF FrameInv, WireInv
      <4> QED
        BY <4>1, <4>2
    <3>2. \A i \in 1..n : wire[i].frame = Order(kind)[i]
      BY DEF FrameInv, WireInv
    <3> QED
      BY <3>1, <3>2, <2>2, <2>3, <1>4 DEF WireInv, IsWhole
  <2>5. PlaceInv'
    BY <2>1, <2>2, <1>2, <1>4 DEF FrameInv, PlaceInv, Kinds
  <2>6. Flags'
    <3>1. Step.name \in {"pin", "ack", "final"} \/ kind # "pairing"
      BY <1>3, Approvals DEF Sends, PairingFrames
    <3>2. pairing \in Pairings
      BY DEF FrameInv, Flags
    <3>3. pairing' \in Pairings
      BY <3>1, <3>2, <2>1, PairTypes DEF Pair
    <3> QED
      BY <3>3, <1>4, Zenon DEF FrameInv, Flags
  <2>7. Bounds' /\ AnswersInv'
    BY <2>1, <2>3, <1>2, <1>4 DEF FrameInv, Bounds, AnswersInv
  <2>8. Enums' /\ SeqTypes' /\ HistoryInv'
    BY <2>1, <2>2, <1>4 DEF FrameInv, Enums, Modes, SeqTypes, HistoryInv, IsWhole, Noted
  <2> QED
    BY <2>4, <2>5, <2>6, <2>7, <2>8 DEF FrameInv
<1>7. CASE ~IsWhole(Current)
  <2>1. mode' = "writing" /\ UNCHANGED <<sent, pos, pairing>>
    BY <1>7 DEF NextPart, Ledger
  <2>2. wire[n].parts < Parts(Step.name)
    <3>1. wire[n].parts \in Nat /\ Parts(Step.name) \in Nat
      BY <1>5 DEF Parts
    <3>2. wire[n].parts # Parts(Step.name)
      BY <1>1, <1>7 DEF IsWhole, Current, Last
    <3> QED
      BY <3>1, <3>2, <1>1
  <2>3. UNCHANGED <<Step, Finished>>
    BY <2>1, <1>4 DEF Step, Finished
  <2>4. PlaceInv'
    BY <2>1, <2>2, <2>3, <1>1, <1>2, <1>4 DEF FrameInv, PlaceInv
  <2>5. Flags'
    BY <2>1, <1>4, Zenon DEF FrameInv, Flags
  <2>6. Enums'
    BY <2>1, <1>4 DEF FrameInv, Enums, Modes
  <2> QED
    BY <2>1, <2>4, <2>5, <2>6, <1>4, QuietKeeps DEF FrameInv, quietVars
<1> QED
  BY <1>6, <1>7

\* The first frame that matters to a wait is one of those that do.
LEMMA FirstMatches ==
  ASSUME FrameInv, Matching # {}
  PROVE  Min(Matching) \in Matching /\ Min(Matching) \in 1..Len(heard)
<1>1. Matching \subseteq Nat /\ Matching \subseteq 1..Len(heard)
  BY DEF FrameInv, Bounds, SeqTypes, Matching
<1>2. \E x \in Matching : \A y \in Matching : x <= y
  <2>1. PICK x \in Matching : \A y \in Matching : ~(<<y, x>> \in OpToRel(<, Nat))
    BY <1>1, NatLessThanWellFounded, WFMin, Zenon
  <2>2. \A y \in Matching : ~(y < x)
    BY <1>1, <2>1, Zenon DEF OpToRel
  <2> QED
    BY <1>1, <2>2
<1> QED
  BY <1>1, <1>2 DEF Min

\* A wait that is over without a change of the wire: the script goes on, and
\* what its next frames build on has been given.
LEMMA WaitKeeps ==
  ASSUME FrameInv, At("wait"), pos' = pos + 1, read' \in 0..Len(heard),
         UNCHANGED <<linkVars, kind, mode, heard, sent, error, declined, past>>,
         pairing' \in Pairings,
         Answered(kind, pos + 1) \subseteq Given
  PROVE  FrameInv'
<1>1. /\ kind \in Kinds /\ pos \in 1..Len(Script(kind)) /\ Len(sent) = Due(kind, pos)
      /\ mode = "stepping" /\ Step.op = "wait"
  BY InScript DEF At
<1>2. Due(kind, pos') = Len(sent)
  BY <1>1, WaitPosition DEF Step, Waits
<1>3. UNCHANGED <<link, subscribed, wire>> /\ Given' = Given
  BY DEF linkVars, Given
<1>4. Flags'
  BY <1>3, Zenon DEF FrameInv, Flags
<1>5. Enums' /\ SeqTypes' /\ HistoryInv'
  BY <1>3 DEF FrameInv, Enums, SeqTypes, HistoryInv, IsWhole, Noted
<1>6. Bounds' /\ AnswersInv'
  BY <1>1, <1>3 DEF FrameInv, Bounds, AnswersInv
<1>7. PlaceInv'
  BY <1>1, <1>3 DEF FrameInv, PlaceInv
<1>8. WireInv'
  BY <1>2, <1>3 DEF FrameInv, WireInv, IsWhole
<1> QED
  BY <1>4, <1>5, <1>6, <1>7, <1>8 DEF FrameInv

\* An answer in hand is an answer that is given: what a wait that needs it has
\* been told.
LEMMA ToldIsGiven ==
  ASSUME NEW i \in 1..Len(heard),
         heard[i].verdict = "good" \/ (heard[i].name = "configure" /\ heard[i].verdict = "refused")
  PROVE  heard[i].name \in Given
  BY DEF Given

LEMMA ReceiveKeeps ==
  ASSUME FrameInv, Receive
  PROVE  FrameInv'
<1> DEFINE m == Min(Matching)
<1>1. /\ m \in 1..Len(heard) /\ Step.name \in {"any", heard[m].name} /\ read' = m
      /\ Len(heard) \in Nat
  <2>1. Matching # {} /\ read' = m
    BY DEF Receive
  <2>2. m \in Matching /\ m \in 1..Len(heard)
    BY <2>1, FirstMatches
  <2>3. Step.name \in {"any", heard[m].name}
    BY <2>2 DEF Matching
  <2>4. Len(heard) \in Nat
    BY LenProperties DEF FrameInv, SeqTypes
  <2> QED
    BY <2>1, <2>2, <2>3, <2>4
<1>2. read' \in 0..Len(heard)
  BY <1>1
<1>3. /\ kind \in Kinds /\ pos \in 1..Len(Script(kind)) /\ Len(sent) = Due(kind, pos)
      /\ Answered(kind, pos) \subseteq Given /\ mode = "stepping" /\ Step.op = "wait"
  BY InScript DEF Receive, At
<1>4. Waits(kind, pos, Step.name)
  BY <1>3, WaitPosition DEF Step
<1>5. CASE heard[m].verdict \notin Step.accept
  <2>1. Raise("failed")
    BY <1>5 DEF Receive
  <2> QED
    BY <2>1, <1>2, <1>3, RaiseKeeps
<1>6. CASE heard[m].verdict \in Step.accept
  <2> DEFINE jump == heard[m].verdict = "paired" /\ kind = "pairing" /\ Step.name = "pin"
  <2>1. /\ pos' = IF jump THEN Len(Script(kind)) + 1 ELSE pos + 1
        /\ pairing' = Pair(CASE Step.name = "any"   -> "ready"
                             [] Step.name = "final" -> pairing
                             [] OTHER -> IF heard[m].verdict = "paired" THEN "paired"
                                         ELSE Step.name)
        /\ UNCHANGED <<linkVars, kind, mode, heard, sent, error, declined, past>>
    BY <1>6 DEF Receive
  <2>2. pairing' \in Pairings
    <3>1. pairing \in Pairings
      BY DEF FrameInv, Flags
    <3>2. CASE kind # "pairing"
      BY <3>1, <3>2, <2>1 DEF Pair
    <3>3. CASE kind = "pairing"
      <4>1. Step.name \in {"any", "pin", "approval", "final"}
        BY <3>3, <1>4 DEF Waits
      <4>2. (CASE Step.name = "any"   -> "ready"
               [] Step.name = "final" -> pairing
               [] OTHER -> IF heard[m].verdict = "paired" THEN "paired" ELSE Step.name)
              \in Pairings \cup {"ready", "pin", "approval", "ack", "final"}
        BY <4>1, <3>1, Zenon DEF Pairings
      <4> QED
        BY <4>2, <3>1, <2>1, PairTypes
    <3> QED
      BY <3>2, <3>3
  <2>3. CASE ~jump
    <3>1. Answered(kind, pos + 1) \subseteq Given
      <4>1. CASE Answered(kind, pos + 1) = Answered(kind, pos)
        BY <4>1, <1>3
      <4>2. CASE Answered(kind, pos + 1) # Answered(kind, pos)
        <5>1. /\ Answered(kind, pos + 1) \subseteq Answered(kind, pos) \cup {Step.name}
              /\ Step.name = heard[m].name
              /\ \/ Step.accept = {"good"}
                 \/ Step.name = "configure" /\ Step.accept = {"good", "refused"}
          BY <4>2, <1>1, <1>4 DEF Waits, Step
        <5>2. \/ heard[m].verdict = "good"
              \/ heard[m].name = "configure" /\ heard[m].verdict = "refused"
          BY <5>1, <1>6
        <5> QED
          BY <5>1, <5>2, <1>1, <1>3, ToldIsGiven
      <4> QED
        BY <4>1, <4>2
    <3> QED
      BY <3>1, <2>1, <2>2, <2>3, <1>2, WaitKeeps DEF Receive
  <2>4. CASE jump
    <3>1. pos = 3 /\ Len(Script(kind)) = 7 /\ kind = "pairing"
      BY <2>4, <1>4, ScriptLengths DEF Waits
    <3>2. Len(sent) = 1 /\ pos' = 8
      <4>1. Due("pairing", 3) = 1
        BY Apartness DEF Due
      <4>2. pos' = Len(Script(kind)) + 1
        BY <2>1, <2>4
      <4> QED
        BY <4>1, <4>2, <3>1, <1>3
    <3>3. heard[m].name = "pin" /\ heard[m].verdict = "paired"
      BY <2>4, <1>1
    <3>4. Shortcut'
      BY <3>1, <3>2, <3>3, <2>1, <1>1 DEF Shortcut, ToldPaired
    <3>5. UNCHANGED <<link, subscribed, wire>> /\ Given' = Given
      BY <2>1 DEF linkVars, Given
    <3>6. Flags'
      BY <3>5, <2>1, <2>2, Zenon DEF FrameInv, Flags
    <3>7. Enums' /\ SeqTypes' /\ HistoryInv'
      BY <3>5, <2>1 DEF FrameInv, Enums, SeqTypes, HistoryInv, IsWhole, Noted
    <3>8. Bounds'
      <4>1. kind' = kind /\ heard' = heard
        BY <2>1
      <4>2. Len(Script(kind')) = 7 /\ pos' = 8
        BY <4>1, <3>1, <3>2
      <4> QED
        BY <4>1, <4>2, <1>2 DEF Bounds
    <3>9. PlaceInv'
      BY <1>3, <2>1, <3>5 DEF FrameInv, PlaceInv
    <3>10. WireInv' /\ AnswersInv'
      BY <3>4, <3>5, <2>1 DEF FrameInv, WireInv, AnswersInv, IsWhole
    <3> QED
      BY <3>6, <3>7, <3>8, <3>9, <3>10 DEF FrameInv
  <2> QED
    BY <2>3, <2>4
<1> QED
  BY <1>5, <1>6

LEMMA TimeOutKeeps ==
  ASSUME FrameInv, TimeOut
  PROVE  FrameInv'
<1>1. /\ kind \in Kinds /\ pos \in 1..Len(Script(kind)) /\ mode = "stepping"
      /\ Answered(kind, pos) \subseteq Given /\ Step.op = "wait" /\ read' = read
  BY InScript DEF TimeOut, At
<1>2. read' \in 0..Len(heard)
  BY <1>1 DEF FrameInv, Bounds
<1>3. CASE ~Step.patient
  <2>1. Raise("failed")
    BY <1>3 DEF TimeOut
  <2> QED
    BY <2>1, <1>1, <1>2, RaiseKeeps
<1>4. CASE Step.patient
  <2>1. /\ pos' = pos + 1
        /\ UNCHANGED <<linkVars, kind, mode, heard, sent, error, declined, pairing, past>>
    BY <1>4 DEF TimeOut
  <2>2. Answered(kind, pos + 1) \subseteq Given
    BY <1>1, <1>4, WaitPosition DEF Waits, Step
  <2>3. pairing' \in Pairings
    BY <2>1 DEF FrameInv, Flags
  <2> QED
    BY <2>1, <2>2, <2>3, <1>2, WaitKeeps DEF TimeOut
<1> QED
  BY <1>3, <1>4

\* What is heard is added to what was.
LEMMA HearsKeeps ==
  ASSUME FrameInv, NEW e \in Names, NEW v \in Verdicts, Hears(e, v)
  PROVE  FrameInv' /\ Given \subseteq Given'
<1> DEFINE r == [name |-> e, verdict |-> v]
<1>1. /\ heard' = Append(heard, r) /\ past' = IF v = "good" THEN Recall("good", e) ELSE past
      /\ UNCHANGED <<link, subscribed, wire, kind, mode, pos, read, sent, error, declined, pairing>>
  BY DEF Hears, linkVars
<1>2. heard \in Seq([name : Names, verdict : Verdicts]) /\ Len(heard) \in Nat
  BY DEF FrameInv, SeqTypes
<1>3. r \in [name : Names, verdict : Verdicts] /\ r.name = e /\ r.verdict = v
  OBVIOUS
<1> HIDE DEF r
<1>4. /\ heard' \in Seq([name : Names, verdict : Verdicts]) /\ Len(heard') = Len(heard) + 1
      /\ \A i \in 1..Len(heard) : heard'[i] = heard[i]
      /\ heard'[Len(heard) + 1] = r
  BY <1>1, <1>2, <1>3, AppendProperties
<1>5. /\ past \subseteq past' /\ past' \subseteq Milestones
      /\ v = "good" => Noted("good", e, past')
  BY <1>1 DEF FrameInv, Enums, Recall, Noted
<1>6. Given \subseteq Given'
  <2>1. ASSUME NEW i \in 1..Len(heard),
               heard[i].verdict = "good" \/ (heard[i].name = "configure" /\ heard[i].verdict = "refused")
        PROVE  heard[i].name \in Given'
    <3>1. i \in 1..Len(heard') /\ heard'[i] = heard[i]
      BY <1>2, <1>4
    <3> QED
      BY <2>1, <3>1 DEF Given
  <2> QED
    BY <2>1 DEF Given
<1>7. Shortcut => Shortcut'
  <2>1. 1..Len(heard) \subseteq 1..Len(heard')
    BY <1>2, <1>4
  <2> QED
    BY <2>1, <1>1, <1>4 DEF Shortcut, ToldPaired
<1>8. Flags'
  BY <1>1, Zenon DEF FrameInv, Flags
<1>9. Enums' /\ SeqTypes'
  BY <1>1, <1>4, <1>5 DEF FrameInv, Enums, SeqTypes
<1>10. Bounds'
  BY <1>1, <1>2, <1>4 DEF FrameInv, Bounds
<1>11. WireInv' /\ AnswersInv'
  BY <1>1, <1>6, <1>7 DEF FrameInv, WireInv, AnswersInv, IsWhole
<1>12. PlaceInv'
  BY <1>1 DEF FrameInv, PlaceInv, Finished, Step
<1>13. HistoryInv'
  <2>1. ASSUME NEW i \in 1..Len(wire), IsWhole(wire[i]) PROVE Noted("sent", wire[i].frame, past')
    BY <2>1, <1>5 DEF FrameInv, HistoryInv, Noted
  <2>2. ASSUME NEW i \in 1..Len(heard'), heard'[i].verdict = "good"
        PROVE  Noted("good", heard'[i].name, past')
    <3>1. CASE i = Len(heard) + 1
      BY <3>1, <2>2, <1>3, <1>4, <1>5
    <3>2. CASE i # Len(heard) + 1
      <4>1. i \in 1..Len(heard)
        BY <3>2, <1>2, <1>4
      <4> QED
        BY <4>1, <2>2, <1>4, <1>5 DEF FrameInv, HistoryInv, Noted
    <3> QED
      BY <3>1, <3>2
  <2> QED
    BY <2>1, <2>2, <1>1 DEF HistoryInv, IsWhole
<1> QED
  BY <1>6, <1>8, <1>9, <1>10, <1>11, <1>12, <1>13 DEF FrameInv

\* Telemetry, answers and approvals are notifications.
LEMMA Notifications ==
  ASSUME \/ Telemetry
         \/ \E f \in StreamFrames \cup PairingFrames, v \in Verdicts : Answer(f, v)
         \/ \E v \in {"good", "broken"} : Approve(v)
  PROVE  \E e \in Names, v \in Verdicts : Hears(e, v)
  BY DEF Telemetry, Answer, Approve, Names, Frames, Verdicts

LEMMA FrameStep ==
  ASSUME FrameInv, SessionStep
  PROVE  FrameInv'
<1>1. CASE Connect \/ Subscribe \/ Decline \/ Leave \/ StopNotify \/ Disconnect \/ DisconnectFails \/ Drop
  BY <1>1, MovesKeep
<1>2. CASE SetUpFails \/ FrameRefused \/ WriteFails \/ Cancel
  <2>1. /\ Raise("failed") \/ Raise("cancelled")
        /\ read' = read /\ mode # "idle"
    BY <1>2 DEF SetUpFails, FrameRefused, WriteFails, Cancel, At
  <2> QED
    BY <2>1, RaiseKeeps DEF FrameInv, Bounds
<1>3. CASE BeginFrame \/ WritePart \/ NextPart
  BY <1>3, BeginKeeps, WritePartKeeps, NextPartKeeps
<1>4. CASE Receive \/ TimeOut
  BY <1>4, ReceiveKeeps, TimeOutKeeps
<1>5. CASE Die
  BY <1>5, AnewKeeps DEF Die, FrameInv, Enums
<1>6. CASE \/ Telemetry
           \/ \E f \in StreamFrames \cup PairingFrames, v \in Verdicts : Answer(f, v)
           \/ \E v \in {"good", "broken"} : Approve(v)
  BY <1>6, Notifications, HearsKeeps
<1> QED
  BY <1>1, <1>2, <1>3, <1>4, <1>5, <1>6 DEF SessionStep

-----------------------------------------------------------------------------
(* The commands around the sessions.                                        *)

Commands == \/ ProposePrepare \/ ProposeWifi \/ ProposeRecovery \/ ProposeStream
            \/ AnalyzePrepare \/ AnalyzeWifi \/ CaptureLive

Starts == \/ \E stage \in DOMAIN SentPhase : SendApproved(stage)
          \/ \E k \in Kinds : RecoverPrepare(k) \/ ManualWrite(k)
          \/ RecoverFullStream \/ ManualSession \/ PassiveListen

\* A command without a session leaves everything of the last one alone.
LEMMA CommandsAreQuiet ==
  ASSUME Commands
  PROVE  UNCHANGED <<sessionVars, past>> /\ mode = "idle"
  BY DEF Commands, ProposePrepare, ProposeWifi, ProposeRecovery, ProposeStream, Propose,
         AnalyzePrepare, AnalyzeWifi, Analyze, CaptureLive

LEMMA StartsASession ==
  ASSUME Starts
  PROVE  \E k \in Kinds : StartSession(k)
<1>1. CASE \E stage \in DOMAIN SentPhase : SendApproved(stage)
  <2>1. PICK stage \in DOMAIN SentPhase : SendApproved(stage)
    BY <1>1
  <2>2. FrameOf(stage) \in Kinds
    BY DEF SentPhase, FrameOf, Kinds, Singles
  <2> QED
    BY <2>1, <2>2 DEF SendApproved
<1>2. {"recovery5", "pairing", "listen"} \subseteq Kinds
  BY DEF Kinds
<1> QED
  BY <1>1, <1>2 DEF Starts, RecoverPrepare, ManualWrite, ManualSession, PassiveListen, Apart,
                    RecoverFullStream

LEMMA SameFrames ==
  ASSUME FrameInv, UNCHANGED <<sessionVars, past>>
  PROVE  FrameInv'
<1>1. /\ UNCHANGED quietVars /\ read' = read
      /\ UNCHANGED <<link, subscribed, mode, error, declined, pairing>>
  BY DEF sessionVars, linkVars, ownVars, quietVars
<1>2. Enums'
  BY <1>1 DEF FrameInv, Enums, quietVars
<1>3. Flags'
  BY <1>1, Zenon DEF FrameInv, Flags
<1>4. PlaceInv'
  BY <1>1 DEF FrameInv, PlaceInv, quietVars, Finished, Step
<1> QED
  BY <1>1, <1>2, <1>3, <1>4, QuietKeeps DEF FrameInv

LEMMA FrameWorkflowStep ==
  ASSUME FrameInv, WorkflowNext
  PROVE  FrameInv'
<1>1. past \subseteq Milestones
  BY DEF FrameInv, Enums
<1>2. CASE Commands
  BY <1>2, CommandsAreQuiet, SameFrames
<1>3. CASE Starts
  <2>1. PICK k \in Kinds : StartSession(k)
    BY <1>3, StartsASession
  <2>2. Anew(k, "connecting") /\ past' = past
    BY <2>1 DEF StartSession
  <2> QED
    BY <2>2, <1>1, AnewKeeps
<1>4. CASE Return
  BY <1>1, <1>4, AnewKeeps DEF Return
<1>5. CASE SessionStep
  BY <1>5, FrameStep
<1> QED
  BY <1>2, <1>3, <1>4, <1>5 DEF WorkflowNext, Commands, Starts

-----------------------------------------------------------------------------
(* What the sessions promise.                                               *)

LEMMA FramesAreBooked == FrameInv => LedgerTellsTheWire
<1> SUFFICES ASSUME FrameInv PROVE LedgerTellsTheWire
  OBVIOUS
<1>1. Len(sent) \in Nat /\ Len(wire) \in Nat
  BY LenProperties DEF FrameInv, SeqTypes
<1> QED
  BY <1>1 DEF FrameInv, WireInv, LedgerTellsTheWire

\* A session that succeeded is at the end of its script.
LEMMA SuccessIsDone == FrameInv => OkMeansDone
<1> SUFFICES ASSUME FrameInv, mode = "ended", Ok
             PROVE  /\ link # "up"
                    /\ sent = Written
                    /\ \/ ToSet(sent) = ApprovedFor(kind)
                       \/ kind = "pairing" /\ sent = <<"pin">> /\ "pin" \in {heard[i].name : i \in {j \in 1..Len(heard) : heard[j].verdict = "paired"}}
                    /\ UNION {NeedsBefore(kind, f) : f \in ToSet(sent)} \subseteq Given
  BY DEF OkMeansDone
<1>1. /\ link # "up" /\ Finished /\ Len(wire) = Len(sent) /\ kind \in Kinds
      /\ sent \in Seq(Frames) /\ Len(sent) \in Nat
  BY LenProperties DEF FrameInv, PlaceInv, SeqTypes, Enums, Ok
<1>2. pos = Len(Script(kind)) + 1
  BY <1>1, ScriptLengths, KindCases DEF FrameInv, Bounds, Finished
<1>3. sent = Written
  <2>1. \A i \in 1..Len(sent) : sent[i] = wire[i].frame
    BY <1>1 DEF FrameInv, WireInv
  <2>2. sent = [i \in 1..Len(sent) |-> sent[i]]
    BY <1>1, SeqDef
  <2> QED
    BY <2>1, <2>2, <1>1 DEF Written
<1>4. ToSet(sent) = {Order(kind)[i] : i \in 1..Len(sent)}
  <2>1. ToSet(sent) = {sent[i] : i \in 1..Len(sent)}
    BY DEF ToSet
  <2>2. \A i \in 1..Len(sent) : sent[i] = Order(kind)[i]
    BY DEF FrameInv, WireInv
  <2> QED
    BY <2>1, <2>2
<1>5. CASE ~Shortcut
  <2>1. Len(sent) = Due(kind, pos) /\ Answered(kind, pos) \subseteq Given
    BY <1>5 DEF FrameInv, WireInv, AnswersInv
  <2>2. ToSet(sent) = ApprovedFor(kind)
    BY <2>1, <1>1, <1>2, <1>4, ScriptEnds
  <2>3. \A f \in ApprovedFor(kind) : NeedsBefore(kind, f) \subseteq Answered(kind, pos)
    BY <1>1, <1>2, ScriptEnds
  <2> QED
    BY <2>1, <2>2, <2>3, <1>1, <1>3
<1>6. CASE Shortcut
  <2>1. kind = "pairing" /\ Len(sent) = 1 /\ ToldPaired
    BY <1>6 DEF Shortcut
  <2>2. sent[1] = "pin"
    BY <2>1, OrderIs DEF FrameInv, WireInv
  <2>3. sent = <<"pin">>
    BY <2>1, <2>2, <1>1
  <2>4. ToSet(sent) = {"pin"}
    BY <2>1, <1>4, OrderIs
  <2>5. "pin" \in {heard[i].name : i \in {j \in 1..Len(heard) : heard[j].verdict = "paired"}}
    BY <2>1 DEF ToldPaired
  <2> QED
    BY <2>1, <2>3, <2>4, <2>5, <1>1, <1>3, NeedsOf
<1> QED
  BY <1>5, <1>6

\* Of any run of the commands and the sessions: where a session is, follows
\* its script.
THEOREM FramesInvariant == WorkflowSpec => []FrameInv
<1>1. WorkflowInit => FrameInv
  BY FrameStart DEF WorkflowInit
<1>2. FrameInv /\ [WorkflowNext]_<<frameVars, workflowVars>> => FrameInv'
  BY FrameWorkflowStep, SameFrames DEF frameVars, workflowVars
<1> QED
  BY <1>1, <1>2, PTL DEF WorkflowSpec

\* The ledger that a session returns, and that the audit log and the phases
\* are written from, holds whole frames only, in the order of the wire, and
\* misses at most the one that the session ended in
\* (prepare_recovery_session.py 260-267, session.py 244-245).
THEOREM LedgersAreTrue == WorkflowSpec => []LedgerTellsTheWire
  BY FramesInvariant, FramesAreBooked, PTL

\* A session that reports success has written its whole script, has heard the
\* answers its frames build on, and holds no connection (manual_session.py
\* 180-276, the finally clauses).
THEOREM SuccessMeansDone == WorkflowSpec => []OkMeansDone
  BY FramesInvariant, SuccessIsDone, PTL

-----------------------------------------------------------------------------
(* Only approved frames, one at a time, in their order.                     *)

Open == mode \notin {"idle", "stopping", "disconnecting", "ended"}
promiseVars == <<kind, Open, Written, Given>>

\* The frames of a session that has begun none.
LEMMA NothingWritten ==
  ASSUME NEW k, NEW m, Anew(k, m)
  PROVE  Written' = <<>> /\ Given' = {} /\ kind' = k
<1>1. wire' = <<>> /\ heard' = <<>> /\ kind' = k
  BY DEF Anew, NewLink
<1>2. Written' = [i \in 1..0 |-> wire'[i].frame]
  BY <1>1 DEF Written
<1> QED
  BY <1>1, <1>2 DEF Given

\* The frame that is begun is its session's next: it has not been written yet.
LEMMA NextFrame ==
  ASSUME FrameInv, BeginFrame
  PROVE  /\ Written' = Append(Written, Step.name)
         /\ Step.name \in ApprovedFor(kind) \ ToSet(Written)
         /\ NeedsBefore(kind, Step.name) \subseteq Given
<1> DEFINE f == Step.name
           r == [frame |-> f, parts |-> 0]
<1>1. /\ kind \in Kinds /\ pos \in 1..Len(Script(kind)) /\ Step.op = "send" /\ mode = "stepping"
      /\ Len(sent) = Due(kind, pos) /\ Answered(kind, pos) \subseteq Given
  BY InScript DEF BeginFrame, At
<1>2. Sends(kind, pos, f)
  BY <1>1, SendPosition DEF Step
<1>3. wire' = Append(wire, r)
  BY DEF BeginFrame, FrameBegun
<1>4. Len(wire) = Len(sent) /\ Len(wire) \in Nat /\ wire \in Seq([frame : Frames, parts : Nat])
  BY <1>1, LenProperties DEF FrameInv, PlaceInv, SeqTypes
<1>5. r \in [frame : Frames, parts : Nat] /\ r.frame = f
  BY <1>2 DEF Sends
<1> HIDE DEF r
<1>6. /\ Len(wire') = Len(wire) + 1
      /\ \A i \in 1..Len(wire) : wire'[i] = wire[i]
      /\ wire'[Len(wire) + 1] = r
  BY <1>3, <1>4, <1>5, AppendProperties
<1>7. \A i \in 1..Len(wire) : wire[i].frame \in Frames
  <2> TAKE i \in 1..Len(wire)
  <2>1. wire[i] \in [frame : Frames, parts : Nat]
    BY <1>4, ElementOfSeq
  <2> QED
    BY <2>1
<1>8. Written \in Seq(Frames) /\ Len(Written) = Len(wire)
  BY <1>4, <1>7 DEF Written
<1>9. Written' = Append(Written, f)
  <2>1. Written' = [i \in 1..Len(wire) + 1 |-> wire'[i].frame]
    BY <1>6 DEF Written
  <2>2. /\ Append(Written, f) \in Seq(Frames) /\ Len(Append(Written, f)) = Len(wire) + 1
        /\ \A i \in 1..Len(wire) : Append(Written, f)[i] = Written[i]
        /\ Append(Written, f)[Len(wire) + 1] = f
    BY <1>2, <1>8, AppendProperties DEF Sends
  <2>3. Append(Written, f) = [i \in 1..Len(wire) + 1 |-> Append(Written, f)[i]]
    BY <2>2, SeqDef
  <2>4. \A i \in 1..Len(wire) + 1 : wire'[i].frame = Append(Written, f)[i]
    <3> TAKE i \in 1..Len(wire) + 1
    <3>1. CASE i = Len(wire) + 1
      BY <3>1, <2>2, <1>5, <1>6
    <3>2. CASE i # Len(wire) + 1
      <4>1. i \in 1..Len(wire)
        BY <3>2, <1>4
      <4> QED
        BY <4>1, <2>2, <1>6 DEF Written
    <3> QED
      BY <3>1, <3>2
  <2> QED
    BY <2>1, <2>3, <2>4
<1>10. f \notin ToSet(Written)
  <2> SUFFICES ASSUME NEW i \in 1..Len(wire), wire[i].frame = f PROVE FALSE
    BY <1>8 DEF ToSet, Written
  <2>1. Order(kind)[i] = f
    BY DEF FrameInv, WireInv
  <2>2. Due(kind, pos + 1) = Len(wire) + 1 /\ Order(kind)[Len(wire) + 1] = f
    BY <1>1, <1>2, <1>4 DEF Sends
  <2>3. Len(Script(kind)) \in Nat
    BY <1>1, ScriptLengths, KindCases
  <2>4. pos + 1 \in 1..Len(Script(kind)) + 1
    BY <1>1, <2>3
  <2>5. Len(wire) + 1 \in 0..Len(Order(kind)) /\ Len(Order(kind)) \in Nat
    BY <2>2, <2>4, <1>1, DueBounds, OrderOnce
  <2>6. i \in 1..Len(Order(kind)) /\ Len(wire) + 1 \in 1..Len(Order(kind))
    BY <2>5, <1>4
  <2>7. i = Len(wire) + 1
    BY <2>1, <2>2, <2>6, <1>1, OrderOnce
  <2> QED
    BY <2>7, <1>4
<1> QED
  BY <1>1, <1>2, <1>9, <1>10 DEF Sends

\* A part more of a frame that has begun.
LEMMA SameWritten ==
  ASSUME FrameInv, WritePart
  PROVE  Written' = Written
<1>1. /\ wire' = [wire EXCEPT ![Len(wire)].parts = @ + 1] /\ Len(wire) \in Nat
      /\ wire \in Seq([frame : Frames, parts : Nat])
  BY LenProperties DEF WritePart, PartWritten, FrameInv, SeqTypes
<1>2. Len(wire') = Len(wire)
  BY <1>1
<1>3. \A i \in 1..Len(wire) : wire'[i].frame = wire[i].frame
  <2> TAKE i \in 1..Len(wire)
  <2>1. wire[i] \in [frame : Frames, parts : Nat]
    BY <1>1, ElementOfSeq
  <2> QED
    BY <2>1, <1>1
<1> QED
  BY <1>2, <1>3 DEF Written

LEMMA PromisesStart == SessionInit => Sessions!FramesInit
<1> SUFFICES ASSUME SessionInit PROVE Sessions!FramesInit
  OBVIOUS
<1>1. wire = <<>> /\ heard = <<>> /\ kind = "none" /\ mode = "idle"
  BY DEF SessionInit, LinkInit
<1>2. Written = [i \in 1..0 |-> wire[i].frame]
  BY <1>1 DEF Written
<1> QED
  BY <1>1, <1>2 DEF Given, Sessions!FramesInit

\* A session ends: nothing of what it promised changes.
LEMMA EndsPromise ==
  ASSUME Raise("failed") \/ Raise("cancelled") \/ Decline \/ Leave
  PROVE  Sessions!FramesNext
<1>1. mode' = "stopping" /\ UNCHANGED <<wire, kind, heard>>
  BY DEF Raise, Decline, Leave, ownVars, linkVars
<1>2. UNCHANGED <<Written, Given>>
  BY <1>1 DEF Written, Given
<1> QED
  BY <1>1, <1>2 DEF Sessions!FramesNext, Sessions!Closed

\* A step of a session that neither begins a frame nor hears an answer.
LEMMA StutterPromise ==
  ASSUME UNCHANGED <<wire, kind, heard, Open>>
  PROVE  UNCHANGED promiseVars
  BY DEF promiseVars, Written, Given

LEMMA SessionPromise ==
  ASSUME FrameInv, SessionStep
  PROVE  Sessions!FramesNext \/ UNCHANGED promiseVars
<1>1. CASE Connect \/ Subscribe \/ Drop \/ StopNotify \/ Disconnect \/ DisconnectFails
  <2>1. UNCHANGED <<wire, kind, heard>>
    BY <1>1 DEF Connect, Subscribe, Drop, StopNotify, Disconnect, DisconnectFails,
         Connected, Subscribed, Dropped, Unsubscribed, Released, ownVars, linkVars
  <2>2. Open' = Open
    BY <1>1 DEF Connect, Subscribe, Drop, StopNotify, Disconnect, DisconnectFails, Open
  <2> QED
    BY <2>1, <2>2, StutterPromise
<1>2. CASE SetUpFails \/ FrameRefused \/ WriteFails \/ Cancel \/ Decline \/ Leave
  BY <1>2, EndsPromise DEF SetUpFails, FrameRefused, WriteFails, Cancel
<1>3. CASE BeginFrame
  <2>1. Sessions!Begun(Step.name)
    <3>1. Open /\ Open' /\ UNCHANGED <<kind, heard>>
      BY <1>3 DEF BeginFrame, At, Open, ownVars
    <3>2. Given' = Given
      BY <3>1 DEF Given
    <3>3. (mode \notin {"idle", "stopping", "disconnecting", "ended"})'
             = (mode \notin {"idle", "stopping", "disconnecting", "ended"})
      BY <3>1 DEF Open
    <3>4. Sessions!ToSet(Written) = ToSet(Written)
      BY DEF Sessions!ToSet, ToSet
    <3> QED
      BY <1>3, <3>1, <3>2, <3>3, <3>4, NextFrame DEF Sessions!Begun, Open
  <2> QED
    BY <2>1, <1>3, NextFrame DEF Sessions!FramesNext
<1>4. CASE WritePart
  <2>1. UNCHANGED <<kind, heard, Open>>
    BY <1>4 DEF WritePart, ownVars, Open
  <2>2. Given' = Given
    BY <2>1 DEF Given
  <2> QED
    BY <2>1, <2>2, <1>4, SameWritten DEF promiseVars
<1>5. CASE NextPart
  <2>1. UNCHANGED <<wire, kind, heard, Open>>
    BY <1>5 DEF NextPart, linkVars, Open
  <2> QED
    BY <2>1, StutterPromise
<1>6. CASE Receive \/ TimeOut
  <2>1. Raise("failed") \/ UNCHANGED <<linkVars, kind, heard, mode>>
    BY <1>6 DEF Receive, TimeOut
  <2>2. CASE UNCHANGED <<linkVars, kind, heard, mode>>
    BY <2>2, StutterPromise DEF linkVars, Open
  <2> QED
    BY <2>1, <2>2, EndsPromise
<1>7. CASE Die
  BY <1>7, NothingWritten DEF Die, Anew, Sessions!FramesNext, Sessions!Gone
<1>8. CASE \/ Telemetry
           \/ \E f \in StreamFrames \cup PairingFrames, v \in Verdicts : Answer(f, v)
           \/ \E v \in {"good", "broken"} : Approve(v)
  <2>1. PICK e \in Names, v \in Verdicts : Hears(e, v)
    BY <1>8, Notifications
  <2>2. Given \subseteq Given'
    BY <2>1, HearsKeeps
  <2>3. UNCHANGED <<wire, kind, mode>>
    BY <2>1 DEF Hears, linkVars
  <2>4. Written' = Written
    BY <2>3 DEF Written
  <2> QED
    BY <2>2, <2>3, <2>4 DEF Sessions!FramesNext, Sessions!Replied
<1> QED
  BY <1>1, <1>2, <1>3, <1>4, <1>5, <1>6, <1>7, <1>8 DEF SessionStep

LEMMA WorkflowPromise ==
  ASSUME FrameInv, WorkflowNext
  PROVE  Sessions!FramesNext \/ UNCHANGED promiseVars
<1>1. CASE Commands
  <2>1. UNCHANGED <<wire, kind, heard, Open>>
    BY <1>1, CommandsAreQuiet DEF sessionVars, linkVars, ownVars, Open
  <2> QED
    BY <2>1, StutterPromise
<1>2. CASE Starts
  <2>1. PICK k \in Kinds : StartSession(k)
    BY <1>2, StartsASession
  <2>2. mode = "idle" /\ mode' = "connecting" /\ Written' = <<>> /\ Given' = {}
    BY <2>1, NothingWritten DEF StartSession, Anew
  <2> QED
    BY <2>2 DEF Sessions!FramesNext, Sessions!Opened
<1>3. CASE Return
  BY <1>3, NothingWritten DEF Return, Anew, Sessions!FramesNext, Sessions!Gone
<1>4. CASE SessionStep
  BY <1>4, SessionPromise
<1> QED
  BY <1>1, <1>2, <1>3, <1>4 DEF WorkflowNext, Commands, Starts

\* The sessions keep to the owner's approvals: whatever is late, lost or
\* doubled, and wherever a session fails, is cancelled or killed, a frame is
\* begun only while its session is open, once, if it is approved for it, and
\* after the answers it builds on: in the pairing session, in the recovery
\* sessions and in a manual-write with a prerequisite (prepare_recovery_session.py
\* 377-459, manual_session.py 180-276, session.py 236-239).  A bare manual-write
\* builds on none, of an acknowledgement either.
THEOREM SessionsKeepToApprovals == WorkflowSpec => OneByOne
<1>1. WorkflowInit => Sessions!FramesInit
  BY PromisesStart DEF WorkflowInit
<1>2. FrameInv /\ [WorkflowNext]_<<frameVars, workflowVars>>
         => Sessions!FramesNext \/ UNCHANGED promiseVars
  <2>1. UNCHANGED <<frameVars, workflowVars>> => UNCHANGED promiseVars
    BY StutterPromise DEF frameVars, sessionVars, linkVars, ownVars, Open
  <2> QED
    BY <2>1, WorkflowPromise
<1>3. FrameInv /\ [WorkflowNext]_<<frameVars, workflowVars>>
         => [Sessions!FramesNext]_<<kind, mode \notin {"idle", "stopping", "disconnecting", "ended"},
                                    Written, Given>>
  BY <1>2 DEF promiseVars, Open
<1> QED
  BY <1>1, <1>3, FramesInvariant, PTL DEF WorkflowSpec, OneByOne, Sessions!FramesSpec

-----------------------------------------------------------------------------
(* The phase file.                                                          *)

\* The phase that send-approved started from is the phase still, and its
\* session is of its stage's frame.
CommandInv == command \in DOMAIN SentPhase => kind = FrameOf(command) /\ phase = Expected[command]

\* What an analysis will find in a capture has been on the air.
CapturesInv ==
    /\ "acknowledged" \in captures => <<"good", "prepare">> \in past
    /\ "joined" \in captures => {"good"} \X {"reentry", "stage2", "rewifi"} \subseteq past

PhaseTypes == /\ phase \in ToSet(Phases) \cup {"torn"}
              /\ proposals \subseteq {"prepare", "wifi", "recovery", "stream"}
              /\ command \in DOMAIN SentPhase \cup {"recover", "other", "none"}

PhaseInv == PhaseTypes /\ CommandInv /\ CapturesInv /\ PhaseIsBacked

\* The phases by their place.
Numbered == [preflight |-> 1, server_ready |-> 2, pairing_confirmed |-> 3,
            prepare_proposed |-> 4, prepare_sent |-> 5, prepare_acknowledged |-> 6,
            wifi_proposed |-> 7, wifi_sent |-> 8, wifi_connecting |-> 9,
            wifi_connected_or_unknown |-> 10, stream_proposed |-> 11, stream_sent |-> 12,
            waiting_for_rtmp |-> 13, rtmp_connected |-> 14, media_detected |-> 15,
            sample_saved |-> 16, stability_tested |-> 17, completed |-> 18]

LEMMA PhasesAre ==
    /\ Len(Phases) = 18 /\ DOMAIN Phases = 1..18
    /\ Phases[1] = "preflight" /\ Phases[2] = "server_ready" /\ Phases[3] = "pairing_confirmed"
    /\ Phases[4] = "prepare_proposed" /\ Phases[5] = "prepare_sent" /\ Phases[6] = "prepare_acknowledged"
    /\ Phases[7] = "wifi_proposed" /\ Phases[8] = "wifi_sent" /\ Phases[9] = "wifi_connecting"
    /\ Phases[10] = "wifi_connected_or_unknown" /\ Phases[11] = "stream_proposed" /\ Phases[12] = "stream_sent"
    /\ Phases[13] = "waiting_for_rtmp" /\ Phases[14] = "rtmp_connected" /\ Phases[15] = "media_detected"
    /\ Phases[16] = "sample_saved" /\ Phases[17] = "stability_tested" /\ Phases[18] = "completed"
  BY DEF Phases

LEMMA PhasesOnce == \A i \in 1..18 : Phases[i] \in DOMAIN Numbered /\ Numbered[Phases[i]] = i
<1> TAKE i \in 1..18
<1>1. \/ i = 1 \/ i = 2 \/ i = 3 \/ i = 4 \/ i = 5 \/ i = 6 \/ i = 7 \/ i = 8 \/ i = 9
      \/ i = 10 \/ i = 11 \/ i = 12 \/ i = 13 \/ i = 14 \/ i = 15 \/ i = 16 \/ i = 17
      \/ i = 18
  OBVIOUS
<1>2. CASE i = 1
  BY <1>2, PhasesAre DEF Numbered
<1>3. CASE i = 2
  BY <1>3, PhasesAre DEF Numbered
<1>4. CASE i = 3
  BY <1>4, PhasesAre DEF Numbered
<1>5. CASE i = 4
  BY <1>5, PhasesAre DEF Numbered
<1>6. CASE i = 5
  BY <1>6, PhasesAre DEF Numbered
<1>7. CASE i = 6
  BY <1>7, PhasesAre DEF Numbered
<1>8. CASE i = 7
  BY <1>8, PhasesAre DEF Numbered
<1>9. CASE i = 8
  BY <1>9, PhasesAre DEF Numbered
<1>10. CASE i = 9
  BY <1>10, PhasesAre DEF Numbered
<1>11. CASE i = 10
  BY <1>11, PhasesAre DEF Numbered
<1>12. CASE i = 11
  BY <1>12, PhasesAre DEF Numbered
<1>13. CASE i = 12
  BY <1>13, PhasesAre DEF Numbered
<1>14. CASE i = 13
  BY <1>14, PhasesAre DEF Numbered
<1>15. CASE i = 14
  BY <1>15, PhasesAre DEF Numbered
<1>16. CASE i = 15
  BY <1>16, PhasesAre DEF Numbered
<1>17. CASE i = 16
  BY <1>17, PhasesAre DEF Numbered
<1>18. CASE i = 17
  BY <1>18, PhasesAre DEF Numbered
<1>19. CASE i = 18
  BY <1>19, PhasesAre DEF Numbered
<1> QED
  BY <1>1, <1>2, <1>3, <1>4, <1>5, <1>6, <1>7, <1>8, <1>9, <1>10, <1>11, <1>12, <1>13, <1>14, <1>15, <1>16, <1>17, <1>18, <1>19

LEMMA Places ==
  \A p \in DOMAIN Numbered : Index(p) = Numbered[p] /\ p \in ToSet(Phases)
<1> TAKE p \in DOMAIN Numbered
<1>1. Numbered[p] \in 1..18 /\ Phases[Numbered[p]] = p
  BY PhasesAre DEF Numbered
<1>2. \E i \in 1..Len(Phases) : Phases[i] = p
  BY <1>1, PhasesAre
<1>3. Index(p) \in 1..18 /\ Phases[Index(p)] = p
  BY <1>2, PhasesAre DEF Index
<1>4. Index(p) = Numbered[p]
  BY <1>3, PhasesOnce
<1>5. p \in ToSet(Phases)
  BY <1>1, PhasesAre DEF ToSet
<1> QED
  BY <1>4, <1>5

LEMMA KnownPlace == \A p \in ToSet(Phases) : Index(p) \in 1..18
<1> TAKE p \in ToSet(Phases)
<1>1. \E i \in 1..Len(Phases) : Phases[i] = p
  BY DEF ToSet
<1> QED
  BY <1>1, PhasesAre DEF Index

\* What a phase promises, by its place.
Backed(n, memory) ==
    /\ n >= 5 => <<"sent", "prepare">> \in memory
    /\ n >= 6 => <<"good", "prepare">> \in memory
    /\ n >= 8 => <<"sent", "wifi">> \in memory
    /\ n >= 11 => {"good"} \X {"reentry", "stage2", "rewifi"} \subseteq memory
    /\ n >= 12 => <<"sent", "configure">> \in memory
    /\ n >= 13 => <<"sent", "start">> \in memory

LEMMA BackedByPlace ==
  PhaseIsBacked <=> (phase # "torn" => Backed(Index(phase), past))
  BY Places DEF PhaseIsBacked, Reached, Backed, Numbered

\* Saving a phase that is backed, or failing to.
LEMMA SaveKeeps ==
  ASSUME phase \in ToSet(Phases) \cup {"torn"}, PhaseIsBacked,
         NEW p \in DOMAIN Numbered, Save(p),
         past' = past, Backed(Numbered[p], past)
  PROVE  PhaseIsBacked' /\ phase' \in ToSet(Phases) \cup {"torn"}
<1>1. Index(p) = Numbered[p] /\ p \in ToSet(Phases)
  BY Places
<1>2. phase' \in {p, phase, "torn"}
  BY DEF Save
<1>3. phase' # "torn" => Backed(Index(phase'), past')
  BY <1>1, <1>2, BackedByPlace
<1>4. PhaseIsBacked' <=> (phase' # "torn" => Backed(Index(phase'), past'))
  BY Places DEF PhaseIsBacked, Reached, Backed, Numbered
<1> QED
  BY <1>1, <1>2, <1>3, <1>4

\* The history only grows.
LEMMA PastGrows ==
  ASSUME FrameInv, WorkflowNext
  PROVE  past \subseteq past'
<1>1. CASE Commands
  BY <1>1, CommandsAreQuiet
<1>2. CASE Starts \/ Return
  BY <1>2, StartsASession DEF StartSession, Return
<1>3. CASE SessionStep
  <2>1. CASE \/ Telemetry
             \/ \E f \in StreamFrames \cup PairingFrames, v \in Verdicts : Answer(f, v)
             \/ \E v \in {"good", "broken"} : Approve(v)
    BY <2>1, Notifications DEF Hears, Recall
  <2>2. CASE WritePart
    BY <2>2 DEF WritePart, Recall
  <2>3. CASE Receive \/ TimeOut \/ SetUpFails \/ FrameRefused \/ WriteFails \/ Cancel
    BY <2>3 DEF Receive, TimeOut, SetUpFails, FrameRefused, WriteFails, Cancel, Raise
  <2>4. CASE \/ Connect \/ Subscribe \/ Decline \/ BeginFrame \/ NextPart \/ Leave
             \/ StopNotify \/ Disconnect \/ DisconnectFails \/ Die \/ Drop
    BY <2>4 DEF Connect, Subscribe, Decline, BeginFrame, NextPart, Leave,
         StopNotify, Disconnect, DisconnectFails, Die, Drop
  <2> QED
    BY <2>1, <2>2, <2>3, <2>4, <1>3 DEF SessionStep
<1> QED
  BY <1>1, <1>2, <1>3 DEF WorkflowNext, Commands, Starts

\* A session stays of its kind as long as it runs.
LEMMA KindStays ==
  ASSUME SessionStep
  PROVE  kind' = kind \/ mode' = "idle"
<1>1. CASE \/ Telemetry
           \/ \E f \in StreamFrames \cup PairingFrames, v \in Verdicts : Answer(f, v)
           \/ \E v \in {"good", "broken"} : Approve(v)
  BY <1>1, Notifications DEF Hears
<1>2. CASE Receive \/ TimeOut \/ SetUpFails \/ FrameRefused \/ WriteFails \/ Cancel
  BY <1>2 DEF Receive, TimeOut, SetUpFails, FrameRefused, WriteFails, Cancel, Raise
<1>3. CASE \/ Connect \/ Subscribe \/ Decline \/ BeginFrame \/ WritePart \/ NextPart \/ Leave
           \/ StopNotify \/ Disconnect \/ DisconnectFails \/ Die \/ Drop
  BY <1>3 DEF Connect, Subscribe, Decline, BeginFrame, WritePart, NextPart, Leave,
       StopNotify, Disconnect, DisconnectFails, Die, Anew, Drop, ownVars
<1> QED
  BY <1>1, <1>2, <1>3 DEF SessionStep

LEMMA StillBacked ==
  ASSUME PhaseIsBacked, phase' = phase, past \subseteq past'
  PROVE  PhaseIsBacked'
  BY DEF PhaseIsBacked, Reached

LEMMA StillCaptured ==
  ASSUME CapturesInv, captures' = captures, past \subseteq past'
  PROVE  CapturesInv'
  BY DEF CapturesInv

LEMMA CommandsKeepPhases ==
  ASSUME FrameInv, PhaseInv, Commands
  PROVE  PhaseInv'
<1>1. past' = past /\ mode = "idle"
  BY CommandsAreQuiet
<1>2. captures' = captures /\ command' = command
  BY DEF Commands, ProposePrepare, ProposeWifi, ProposeRecovery, ProposeStream, Propose,
         AnalyzePrepare, AnalyzeWifi, Analyze, CaptureLive
<1>3. proposals' \subseteq {"prepare", "wifi", "recovery", "stream"}
  BY DEF Commands, ProposePrepare, ProposeWifi, ProposeRecovery, ProposeStream, Propose,
         AnalyzePrepare, AnalyzeWifi, Analyze, CaptureLive, PhaseInv, PhaseTypes
<1>4. command \notin DOMAIN SentPhase
  <2>1. kind = "none"
    BY <1>1 DEF FrameInv, PlaceInv
  <2> QED
    BY <2>1 DEF PhaseInv, CommandInv, SentPhase, FrameOf
<1>5. phase \in ToSet(Phases) \cup {"torn"} /\ PhaseIsBacked
  BY DEF PhaseInv, PhaseTypes
<1>6. phase # "torn" => Backed(Index(phase), past)
  BY <1>5, BackedByPlace
<1>7. PhaseIsBacked' /\ phase' \in ToSet(Phases) \cup {"torn"}
  <2>1. ASSUME NEW p \in DOMAIN Numbered, Save(p), Backed(Numbered[p], past)
        PROVE  PhaseIsBacked' /\ phase' \in ToSet(Phases) \cup {"torn"}
    BY <2>1, <1>1, <1>5, SaveKeeps
  <2>2. \A p \in DOMAIN Numbered : p # "torn"
    BY DEF Numbered
  <2>3. CASE ProposePrepare
    <3>1. Save("prepare_proposed")
      BY <2>3 DEF ProposePrepare, Propose
    <3>2. "prepare_proposed" \in DOMAIN Numbered /\ Numbered["prepare_proposed"] = 4
      BY DEF Numbered
    <3> QED
      BY <3>1, <3>2, <2>1 DEF Backed
  <2>4. CASE ProposeWifi
    <3>1. Save("wifi_proposed") /\ phase = "prepare_acknowledged"
      BY <2>4 DEF ProposeWifi, Propose
    <3>2. /\ "wifi_proposed" \in DOMAIN Numbered /\ Numbered["wifi_proposed"] = 7
          /\ "prepare_acknowledged" \in DOMAIN Numbered /\ Numbered["prepare_acknowledged"] = 6
      BY DEF Numbered
    <3>3. Backed(6, past)
      BY <3>1, <3>2, <1>6, <2>2, Places
    <3> QED
      BY <3>1, <3>2, <3>3, <2>1 DEF Backed
  <2>5. CASE ProposeRecovery
    BY <2>5, <1>1, <1>5, StillBacked DEF ProposeRecovery
  <2>6. CASE ProposeStream
    <3>1. Save("stream_proposed") /\ phase = "wifi_connected_or_unknown" /\ "joined" \in captures
      BY <2>6 DEF ProposeStream, Propose
    <3>2. /\ "stream_proposed" \in DOMAIN Numbered /\ Numbered["stream_proposed"] = 11
          /\ "wifi_connected_or_unknown" \in DOMAIN Numbered
          /\ Numbered["wifi_connected_or_unknown"] = 10
      BY DEF Numbered
    <3>3. Backed(10, past)
      BY <3>1, <3>2, <1>6, <2>2, Places
    <3>4. {"good"} \X {"reentry", "stage2", "rewifi"} \subseteq past
      BY <3>1 DEF PhaseInv, CapturesInv
    <3> QED
      BY <3>1, <3>2, <3>3, <3>4, <2>1 DEF Backed
  <2>7. CASE AnalyzePrepare
    <3>1. Save("prepare_acknowledged") /\ phase = "prepare_sent" /\ "acknowledged" \in captures
      BY <2>7 DEF AnalyzePrepare, Analyze
    <3>2. /\ "prepare_acknowledged" \in DOMAIN Numbered /\ Numbered["prepare_acknowledged"] = 6
          /\ "prepare_sent" \in DOMAIN Numbered /\ Numbered["prepare_sent"] = 5
      BY DEF Numbered
    <3>3. Backed(5, past)
      BY <3>1, <3>2, <1>6, <2>2, Places
    <3>4. <<"good", "prepare">> \in past
      BY <3>1 DEF PhaseInv, CapturesInv
    <3> QED
      BY <3>1, <3>2, <3>3, <3>4, <2>1 DEF Backed
  <2>8. CASE AnalyzeWifi
    <3>1. Save("wifi_connected_or_unknown") /\ phase = "wifi_sent"
      BY <2>8 DEF AnalyzeWifi, Analyze
    <3>2. /\ "wifi_connected_or_unknown" \in DOMAIN Numbered
          /\ Numbered["wifi_connected_or_unknown"] = 10
          /\ "wifi_sent" \in DOMAIN Numbered /\ Numbered["wifi_sent"] = 8
      BY DEF Numbered
    <3>3. Backed(8, past)
      BY <3>1, <3>2, <1>6, <2>2, Places
    <3> QED
      BY <3>1, <3>2, <3>3, <2>1 DEF Backed
  <2>9. CASE CaptureLive
    <3>1. phase # "torn" /\ Reached("waiting_for_rtmp")
      BY <2>9 DEF CaptureLive, Reached
    <3>2. CASE Reached("sample_saved")
      <4>1. Save(phase)
        BY <2>9, <3>2 DEF CaptureLive
      <4>2. phase' = phase \/ phase' = "torn"
        BY <4>1 DEF Save
      <4>3. CASE phase' = phase
        BY <4>3, <1>1, <1>5, StillBacked
      <4>4. CASE phase' = "torn"
        BY <4>4 DEF PhaseIsBacked, Reached
      <4> QED
        BY <4>2, <4>3, <4>4
    <3>3. CASE ~Reached("sample_saved")
      <4>1. Save("sample_saved")
        BY <2>9, <3>3 DEF CaptureLive
      <4>2. /\ "sample_saved" \in DOMAIN Numbered /\ Numbered["sample_saved"] = 16
            /\ "waiting_for_rtmp" \in DOMAIN Numbered /\ Numbered["waiting_for_rtmp"] = 13
        BY DEF Numbered
      <4>3. Index(phase) >= 13
        BY <3>1, <4>2, Places DEF Reached
      <4>4. Index(phase) \in 1..18
        BY <3>1, <1>5, KnownPlace
      <4>5. Backed(13, past)
        BY <3>1, <4>3, <4>4, <1>6 DEF Backed
      <4> QED
        BY <4>1, <4>2, <4>5, <2>1 DEF Backed
    <3> QED
      BY <3>2, <3>3
  <2> QED
    BY <2>3, <2>4, <2>5, <2>6, <2>7, <2>8, <2>9 DEF Commands
<1>8. CapturesInv'
  BY <1>1, <1>2, StillCaptured DEF PhaseInv
<1> QED
  BY <1>2, <1>3, <1>4, <1>7, <1>8 DEF PhaseInv, PhaseTypes, CommandInv

LEMMA StartsKeepPhases ==
  ASSUME PhaseInv, Starts
  PROVE  PhaseInv'
<1>1. /\ UNCHANGED <<phase, proposals, captures>> /\ past' = past
      /\ \/ command' \in DOMAIN SentPhase /\ kind' = FrameOf(command') /\ phase = Expected[command']
         \/ command' \in {"recover", "other"}
  BY DEF Starts, SendApproved, RecoverPrepare, RecoverFullStream, ManualWrite, ManualSession,
         PassiveListen, Apart, StartSession, Anew
<1>2. "recover" \notin DOMAIN SentPhase /\ "other" \notin DOMAIN SentPhase
  BY DEF SentPhase
<1>3. CommandInv'
  BY <1>1, <1>2 DEF CommandInv
<1>4. PhaseTypes'
  BY <1>1 DEF PhaseInv, PhaseTypes
<1> QED
  BY <1>1, <1>3, <1>4, StillBacked, StillCaptured DEF PhaseInv

\* What an analysis reads off a finished session has been on the air.
LEMMA FindingsHappened ==
  ASSUME FrameInv, mode = "ended"
  PROVE  /\ "acknowledged" \in Findings => <<"good", "prepare">> \in past
         /\ "joined" \in Findings => {"good"} \X {"reentry", "stage2", "rewifi"} \subseteq past
<1>1. ASSUME NEW f \in {"prepare", "reentry", "stage2", "rewifi"}, NEW i \in 1..Len(heard),
             heard[i].name = f, heard[i].verdict = "good"
      PROVE  <<"good", f>> \in past
  <2>1. <<"good", f>> \in Milestones
    BY DEF Milestones
  <2> QED
    BY <1>1, <2>1 DEF FrameInv, HistoryInv, Noted
<1>2. ASSUME "acknowledged" \in Findings PROVE <<"good", "prepare">> \in past
  <2>1. PrepareAcknowledged
    BY <1>2 DEF Findings
  <2>2. PICK i \in 1..Len(heard) : heard[i].name = "prepare" /\ heard[i].verdict = "good"
    BY <2>1 DEF PrepareAcknowledged, Replied, Replies
  <2> QED
    BY <2>2, <1>1
<1>3. ASSUME "joined" \in Findings
      PROVE  {"good"} \X {"reentry", "stage2", "rewifi"} \subseteq past
  <2>1. Joined
    BY <1>3 DEF Findings
  <2>2. kind = "recovery3" /\ Finished
    BY <2>1 DEF Joined
  <2>3. pos = 8
    <3>1. Len(Script(kind)) = 7
      BY <2>2, ScriptLengths
    <3> QED
      BY <3>1, <2>2 DEF FrameInv, Bounds, Finished
  <2>4. Answered(kind, pos) = {"reentry", "stage2"}
    BY <2>2, <2>3, Apartness DEF Answered, Recoveries
  <2>5. {"reentry", "stage2"} \subseteq Given
    BY <2>2, <2>4 DEF FrameInv, AnswersInv, Shortcut
  <2>6. ASSUME NEW f \in {"reentry", "stage2"} PROVE <<"good", f>> \in past
    <3>1. f \in Given
      BY <2>5
    <3>2. PICK i \in 1..Len(heard) : heard[i].name = f /\ heard[i].verdict = "good"
      BY <3>1 DEF Given
    <3> QED
      BY <3>2, <1>1
  <2>7. PICK i \in 1..Len(heard) : heard[i].name = "rewifi" /\ heard[i].verdict = "good"
    BY <2>1 DEF Joined, Replies
  <2>8. <<"good", "rewifi">> \in past
    BY <2>7, <1>1
  <2> QED
    BY <2>6, <2>8
<1> QED
  BY <1>2, <1>3

\* send-approved records what its one frame was: it has arrived whole.
LEMMA SentHappened ==
  ASSUME FrameInv, PhaseInv, mode = "ended", command \in DOMAIN SentPhase, Len(sent) = 1
  PROVE  <<"sent", FrameOf(command)>> \in past
<1>1. kind = FrameOf(command) /\ kind \in {"prepare", "wifi", "configure", "start"}
  BY DEF PhaseInv, CommandInv, FrameOf, SentPhase
<1>2. IsWhole(wire[1]) /\ Len(wire) \in {1, 2} /\ wire[1].frame = Order(kind)[1]
  BY DEF FrameInv, WireInv
<1>3. Order(kind)[1] = kind
  BY <1>1, OrderIs DEF Singles
<1>4. Noted("sent", kind, past)
  BY <1>2, <1>3 DEF FrameInv, HistoryInv
<1>5. <<"sent", kind>> \in Milestones
  BY <1>1 DEF Milestones
<1> QED
  BY <1>1, <1>4, <1>5 DEF Noted

LEMMA ReturnKeepsPhases ==
  ASSUME FrameInv, PhaseInv, Return
  PROVE  PhaseInv'
<1>1. /\ mode = "ended" /\ past' = past /\ proposals' = proposals /\ command' = "none"
      /\ captures' = captures \cup Findings
  BY DEF Return
<1>2. CapturesInv'
  BY <1>1, FindingsHappened DEF PhaseInv, CapturesInv
<1>3. phase \in ToSet(Phases) \cup {"torn"} /\ PhaseIsBacked
  BY DEF PhaseInv, PhaseTypes
<1>4. CommandInv'
  BY <1>1 DEF CommandInv, SentPhase
<1>5. PhaseIsBacked' /\ phase' \in ToSet(Phases) \cup {"torn"}
  <2>1. CASE ~(command \in DOMAIN SentPhase /\ Ok /\ Len(sent) = 1)
    BY <2>1, <1>1, <1>3, StillBacked DEF Return
  <2>2. CASE command \in DOMAIN SentPhase /\ Ok /\ Len(sent) = 1
    <3>1. Save(SentPhase[command]) /\ phase = Expected[command]
      BY <2>2 DEF Return, PhaseInv, CommandInv
    <3>2. <<"sent", FrameOf(command)>> \in past
      BY <2>2, <1>1, SentHappened
    <3>3. ASSUME NEW p \in DOMAIN Numbered, phase = p PROVE Backed(Numbered[p], past)
      <4>1. p # "torn"
        BY DEF Numbered
      <4> QED
        BY <4>1, <3>3, <1>3, BackedByPlace, Places
    <3>4. ASSUME NEW p \in DOMAIN Numbered, Save(p), Backed(Numbered[p], past)
          PROVE  PhaseIsBacked' /\ phase' \in ToSet(Phases) \cup {"torn"}
      BY <3>4, <1>1, <1>3, SaveKeeps
    <3>5. CASE command = "prepare"
      <4>1. Save("prepare_sent") /\ <<"sent", "prepare">> \in past
        BY <3>1, <3>2, <3>5 DEF SentPhase, FrameOf
      <4>2. "prepare_sent" \in DOMAIN Numbered /\ Numbered["prepare_sent"] = 5
        BY DEF Numbered
      <4> QED
        BY <4>1, <4>2, <3>4 DEF Backed
    <3>6. CASE command = "wifi"
      <4>1. /\ Save("wifi_sent") /\ <<"sent", "wifi">> \in past /\ phase = "wifi_proposed"
        BY <3>1, <3>2, <3>6 DEF SentPhase, FrameOf, Expected
      <4>2. /\ "wifi_sent" \in DOMAIN Numbered /\ Numbered["wifi_sent"] = 8
            /\ "wifi_proposed" \in DOMAIN Numbered /\ Numbered["wifi_proposed"] = 7
        BY DEF Numbered
      <4>3. Backed(7, past)
        BY <4>1, <4>2, <3>3
      <4> QED
        BY <4>1, <4>2, <4>3, <3>4 DEF Backed
    <3>7. CASE command = "stream"
      <4>1. /\ Save("stream_sent") /\ <<"sent", "configure">> \in past /\ phase = "stream_proposed"
        BY <3>1, <3>2, <3>7 DEF SentPhase, FrameOf, Expected
      <4>2. /\ "stream_sent" \in DOMAIN Numbered /\ Numbered["stream_sent"] = 12
            /\ "stream_proposed" \in DOMAIN Numbered /\ Numbered["stream_proposed"] = 11
        BY DEF Numbered
      <4>3. Backed(11, past)
        BY <4>1, <4>2, <3>3
      <4> QED
        BY <4>1, <4>2, <4>3, <3>4 DEF Backed
    <3>8. CASE command = "start"
      <4>1. /\ Save("waiting_for_rtmp") /\ <<"sent", "start">> \in past /\ phase = "stream_sent"
        BY <3>1, <3>2, <3>8 DEF SentPhase, FrameOf, Expected
      <4>2. /\ "waiting_for_rtmp" \in DOMAIN Numbered /\ Numbered["waiting_for_rtmp"] = 13
            /\ "stream_sent" \in DOMAIN Numbered /\ Numbered["stream_sent"] = 12
        BY DEF Numbered
      <4>3. Backed(12, past)
        BY <4>1, <4>2, <3>3
      <4> QED
        BY <4>1, <4>2, <4>3, <3>4 DEF Backed
    <3> QED
      BY <2>2, <3>5, <3>6, <3>7, <3>8 DEF SentPhase
  <2> QED
    BY <2>1, <2>2
<1> QED
  BY <1>1, <1>2, <1>4, <1>5 DEF PhaseInv, PhaseTypes

LEMMA PhaseStep ==
  ASSUME FrameInv, PhaseInv, WorkflowNext
  PROVE  PhaseInv'
<1>1. CASE Commands
  BY <1>1, CommandsKeepPhases
<1>2. CASE Starts
  BY <1>2, StartsKeepPhases
<1>3. CASE Return
  BY <1>3, ReturnKeepsPhases
<1>4. CASE /\ SessionStep /\ UNCHANGED <<phase, proposals, captures>>
           /\ command' = IF mode' = "idle" THEN "none" ELSE command
  <2>1. past \subseteq past'
    BY PastGrows
  <2>2. "none" \notin DOMAIN SentPhase
    BY DEF SentPhase
  <2>3. CommandInv'
    BY <1>4, <2>2, KindStays DEF PhaseInv, CommandInv
  <2>4. PhaseTypes'
    BY <1>4 DEF PhaseInv, PhaseTypes
  <2> QED
    BY <1>4, <2>1, <2>3, <2>4, StillBacked, StillCaptured DEF PhaseInv
<1> QED
  BY <1>1, <1>2, <1>3, <1>4 DEF WorkflowNext, Commands, Starts

LEMMA PhaseStart == WorkflowInit => PhaseInv
<1> SUFFICES ASSUME WorkflowInit PROVE PhaseInv
  OBVIOUS
<1>1. phase = "preflight" /\ proposals = {} /\ captures = {} /\ command = "none"
  BY DEF WorkflowInit
<1>2. "preflight" \in DOMAIN Numbered /\ Numbered["preflight"] = 1 /\ "none" \notin DOMAIN SentPhase
  BY DEF Numbered, SentPhase
<1>3. Index(phase) = 1 /\ phase \in ToSet(Phases)
  BY <1>1, <1>2, Places
<1>4. PhaseIsBacked
  BY <1>3, BackedByPlace DEF Backed
<1> QED
  BY <1>1, <1>2, <1>3, <1>4 DEF PhaseInv, PhaseTypes, CommandInv, CapturesInv

\* The invariant of the preparation: where the session is, and what the
\* captures and the phase file say of the sessions before it.
WorkflowInv == FrameInv /\ PhaseInv

LEMMA WorkflowStart == WorkflowInit => WorkflowInv
  BY FrameStart, PhaseStart DEF WorkflowInit, WorkflowInv

LEMMA WorkflowStep ==
  ASSUME WorkflowInv, [WorkflowNext]_<<frameVars, workflowVars>>
  PROVE  WorkflowInv'
<1>1. CASE WorkflowNext
  BY <1>1, FrameWorkflowStep, PhaseStep DEF WorkflowInv
<1>2. CASE UNCHANGED <<frameVars, workflowVars>>
  <2>1. UNCHANGED <<sessionVars, past>> /\ UNCHANGED workflowVars /\ kind' = kind
    BY <1>2 DEF frameVars, sessionVars, ownVars
  <2>2. FrameInv'
    BY <2>1, SameFrames DEF WorkflowInv
  <2>3. PhaseInv'
    BY <2>1 DEF WorkflowInv, PhaseInv, PhaseTypes, CommandInv, CapturesInv, PhaseIsBacked,
         Reached, workflowVars
  <2> QED
    BY <2>2, <2>3 DEF WorkflowInv
<1> QED
  BY <1>1, <1>2

THEOREM PreparationInvariant == WorkflowSpec => []WorkflowInv
  BY WorkflowStart, WorkflowStep, PTL DEF WorkflowSpec

\* The phase file tells the truth: whatever sessions fail, whatever commands
\* the owner repeats, and wherever one is killed, the frames that the phase
\* names have arrived whole and the answers it names were given
\* (pocket3_rtmp.py 35-62, cli.py 1318-1409, 1410-1689).
THEOREM PhaseFileIsTrue == WorkflowSpec => []PhaseIsBacked
<1>1. WorkflowInv => PhaseIsBacked
  BY DEF WorkflowInv, PhaseInv
<1> QED
  BY <1>1, PreparationInvariant, PTL

\* The states of the preparation are the ones the code names.
THEOREM WorkflowTypes == WorkflowSpec => []WorkflowTypeOK
<1>1. WorkflowInv => WorkflowTypeOK
  BY FrameTypes DEF WorkflowInv, PhaseInv, PhaseTypes, WorkflowTypeOK
<1> QED
  BY <1>1, PreparationInvariant, PTL
=============================================================================
