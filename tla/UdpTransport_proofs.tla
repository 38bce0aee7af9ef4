-------------------------- MODULE UdpTransport_proofs --------------------------
(***************************************************************************)
(* Theorems about the UDP transport of a normal session.  Its numbers,     *)
(* which wrap, are those of counters that do not, for every width of the   *)
(* numbers and any length of the session, as long as neither side goes     *)
(* unheard for half the numbers there are.                                 *)
(***************************************************************************)
EXTENDS UdpTransport, FiniteSetTheorems, TLAPS

-----------------------------------------------------------------------------
(* Numbers that wrap.                                                       *)

Numbers == 0..Wrap - 1

LEMMA WrapIsPositive == Wrap \in Nat \ {0} /\ Seed \in Numbers /\ VideoSeed \in Numbers
  BY TransportAssumption DEF Numbers

LEMMA DivisionBy ==
  ASSUME NEW M \in Nat \ {0}, NEW a \in Int
  PROVE  /\ a % M \in 0..M - 1
         /\ a \div M \in Int
         /\ a = M * (a \div M) + (a % M)
  BY SMT

\* There is one remainder only.
LEMMA OneRemainderOf ==
  ASSUME NEW M \in Nat \ {0}, NEW q \in Int, NEW p \in Int, NEW r \in 0..M - 1, NEW s \in 0..M - 1,
         M * q + r = M * p + s
  PROVE  r = s
<1>1. CASE q = p
  BY <1>1, SMT
<1>2. CASE q < p
  <2>1. M * (p - q) >= M * 1
    BY <1>2, SMT
  <2>2. M * (p - q) = r - s
    BY SMT
  <2> QED
    BY <2>1, <2>2, SMT
<1>3. CASE p < q
  <2>1. M * (q - p) >= M * 1
    BY <1>3, SMT
  <2>2. M * (q - p) = s - r
    BY SMT
  <2> QED
    BY <2>1, <2>2, SMT
<1> QED
  BY <1>1, <1>2, <1>3

LEMMA NextRemainder ==
  ASSUME NEW M \in Nat \ {0}, NEW x \in Int
  PROVE  ((x % M) + 1) % M = (x + 1) % M
<1> DEFINE n == x % M
           q == x \div M
           y == n + 1
           r == y % M
           p == y \div M
           z == x + 1
<1>1. n \in 0..M - 1 /\ q \in Int /\ x = M * q + n
  BY DivisionBy
<1>2. y \in Int /\ y = n + 1 /\ z \in Int /\ z = x + 1
  BY <1>1
<1>3. r \in 0..M - 1 /\ p \in Int /\ y = M * p + r
  BY <1>2, DivisionBy
<1>4. z % M \in 0..M - 1 /\ z \div M \in Int /\ z = M * (z \div M) + (z % M)
  BY <1>2, DivisionBy
<1> HIDE DEF n, q, y, r, p, z
<1>5. q + p \in Int /\ z = M * (q + p) + r
  BY <1>1, <1>2, <1>3, SMT
<1>6. z % M = r
  BY <1>3, <1>4, <1>5, OneRemainderOf
<1> QED
  BY <1>6 DEF r, y, n, z

LEMMA Division ==
  ASSUME NEW a \in Int
  PROVE  /\ a % Wrap \in Numbers
         /\ a \div Wrap \in Int
         /\ a = Wrap * (a \div Wrap) + (a % Wrap)
  BY WrapIsPositive, DivisionBy DEF Numbers

LEMMA OneRemainder ==
  ASSUME NEW q \in Int, NEW p \in Int, NEW r \in Numbers, NEW s \in Numbers,
         Wrap * q + r = Wrap * p + s
  PROVE  r = s
  BY WrapIsPositive, OneRemainderOf DEF Numbers

LEMMA Remainder ==
  ASSUME NEW a \in Int, NEW q \in Int, NEW r \in Numbers, a = Wrap * q + r
  PROVE  a % Wrap = r
  BY Division, OneRemainder

\* Ahead of the number that is d behind.
LEMMA AheadOf ==
  ASSUME NEW x \in Int, NEW d \in Numbers
  PROVE  /\ (x - d) % Wrap \in Numbers
         /\ Ahead(x, (x - d) % Wrap) = d
<1>1. x - d \in Int
  BY WrapIsPositive DEF Numbers
<1> DEFINE s == (x - d) % Wrap
           q == (x - d) \div Wrap
<1>2. s \in Numbers /\ q \in Int /\ x - d = Wrap * q + s
  BY <1>1, Division
<1> HIDE DEF s, q
<1>3. x - s \in Int /\ x - s = Wrap * q + d
  BY <1>2, WrapIsPositive DEF Numbers
<1>4. (x - s) % Wrap = d
  BY <1>2, <1>3, Remainder
<1> QED
  BY <1>2, <1>4 DEF Ahead, s

LEMMA Behind ==
  ASSUME NEW x \in Int, NEW s \in Numbers
  PROVE  Ahead(x, s) \in Numbers /\ s = (x - Ahead(x, s)) % Wrap
<1>1. x - s \in Int
  BY WrapIsPositive DEF Numbers
<1> DEFINE d == (x - s) % Wrap
           q == (x - s) \div Wrap
<1>2. d \in Numbers /\ q \in Int /\ x - s = Wrap * q + d
  BY <1>1, Division
<1> HIDE DEF d, q
<1>3. x - d \in Int /\ x - d = Wrap * q + s
  BY <1>2, WrapIsPositive DEF Numbers
<1>4. (x - d) % Wrap = s
  BY <1>2, <1>3, Remainder
<1> QED
  BY <1>2, <1>4 DEF Ahead, d

\* As x goes on, it gets ahead of what stays.
LEMMA AheadGrows ==
  ASSUME NEW x \in Int, NEW s \in Numbers, NEW k \in Int, Ahead(x, s) + k \in Numbers
  PROVE  Ahead(x + k, s) = Ahead(x, s) + k
<1> DEFINE d == Ahead(x, s)
<1>1. d \in Numbers /\ s = (x - d) % Wrap
  BY Behind
<1> HIDE DEF d
<1>2. x - d = (x + k) - (d + k) /\ x + k \in Int
  BY <1>1, WrapIsPositive DEF Numbers
<1>3. d + k \in Numbers
  BY DEF d
<1>4. Ahead(x + k, ((x + k) - (d + k)) % Wrap) = d + k
  BY <1>2, <1>3, AheadOf
<1> QED
  BY <1>1, <1>2, <1>4 DEF d

\* Only the remainder of x counts.
LEMMA AheadOfRemainder ==
  ASSUME NEW x \in Int, NEW s \in Numbers
  PROVE  Ahead(x % Wrap, s) = Ahead(x, s)
<1> DEFINE r == x % Wrap
           q == x \div Wrap
           d == Ahead(x, s)
<1>1. r \in Numbers /\ q \in Int /\ x = Wrap * q + r
  BY Division
<1>2. d \in Numbers /\ d = (x - s) % Wrap
  BY Behind DEF Ahead
<1>3. x - s \in Int
  BY WrapIsPositive DEF Numbers
<1> DEFINE p == (x - s) \div Wrap
<1>4. p \in Int /\ x - s = Wrap * p + d
  BY <1>2, <1>3, Division
<1> HIDE DEF r, q, d, p
<1>5. r - s \in Int /\ r - s = Wrap * (p - q) + d /\ p - q \in Int
  BY <1>1, <1>2, <1>4, WrapIsPositive, SMT DEF Numbers
<1>6. (r - s) % Wrap = d
  BY <1>2, <1>5, Remainder
<1> QED
  BY <1>6 DEF Ahead, r, d

\* Of two numbers less than half of the wrap behind, the newer one is less far behind.
LEMMA NewerIsAhead ==
  ASSUME NEW x \in Int, NEW d \in Numbers, NEW e \in Numbers, 2 * d < Wrap, 2 * e < Wrap
  PROVE  Newer((x - d) % Wrap, (x - e) % Wrap) <=> d < e
<1>1. x - d \in Int /\ x - e \in Int
  BY WrapIsPositive DEF Numbers
<1> DEFINE s == (x - e) % Wrap
<1>2. s \in Numbers
  BY <1>1, Division
<1>3. Ahead((x - d) % Wrap, s) = Ahead(x - d, s)
  BY <1>1, <1>2, AheadOfRemainder
<1>4. CASE e >= d
  <2>1. e - d \in Numbers /\ (x - d) - (e - d) = x - e
    BY <1>4, WrapIsPositive DEF Numbers
  <2>2. Ahead(x - d, s) = e - d
    BY <1>1, <2>1, AheadOf
  <2> QED
    BY <1>3, <1>4, <2>2, WrapIsPositive DEF Newer, Numbers
<1>5. CASE e < d
  <2>1. Wrap - (d - e) \in Numbers /\ Wrap - (d - e) \in Int
    BY <1>5, WrapIsPositive DEF Numbers
  <2>2. Ahead(x - e, s) = 0
    <3>1. x - e = (x - e) - 0 /\ 0 \in Numbers
      BY <1>1, WrapIsPositive DEF Numbers
    <3> QED
      BY <1>1, <3>1, AheadOf
  <2> DEFINE q == (x - e) \div Wrap
  <2>3. q \in Int /\ x - e = Wrap * q + s
    BY <1>1, Division
  <2> HIDE DEF q, s
  <2>4. (x - d) - s = Wrap * (q - 1) + (Wrap - (d - e)) /\ q - 1 \in Int /\ (x - d) - s \in Int
    BY <1>2, <2>3, WrapIsPositive, SMT DEF Numbers
  <2>5. ((x - d) - s) % Wrap = Wrap - (d - e)
    BY <2>1, <2>4, Remainder
  <2>6. Ahead(x - d, s) = Wrap - (d - e)
    BY <2>5 DEF Ahead
  <2> QED
    BY <1>3, <1>5, <2>6, WrapIsPositive DEF Newer, Numbers, s
<1> QED
  BY <1>4, <1>5, WrapIsPositive DEF Numbers

-----------------------------------------------------------------------------
(* The inductive invariant of the transport.                                *)

Kinds == {"session_open", "presence", "enable", "registration", "ack", "stick", "keepalive"}
KindsOf(task) == CASE task = "main" -> {"session_open", "presence", "enable"}
                   [] task = "recv" -> {"registration"}
                   [] task = "ack" -> {"ack"}
                   [] task = "ctl" -> {"stick", "keepalive"}
                   [] OTHER -> {"none"}
Drafts == [task : Tasks \cup {"none"}, kind : Kinds \cup {"none"}, seq : Numbers \cup {None},
           duml : Numbers \cup {None}, number : Nat \cup {None}, video : Numbers \cup {None},
           sent : BOOLEAN]

DraftType ==
    /\ draft \in Drafts
    /\ draft.task = "none" => draft = NoDraft
    /\ draft.kind \in KindsOf(draft.task)
    /\ draft.task # "none" => link \in {"open", "leaving"}

Operator == draft.task \in {"main", "recv", "ctl"}

\* Where the session is, and what that says of its tasks.
StageInv ==
    /\ filmed \in Nat /\ enables \in Nat
    /\ link = "handshake" => stage = "connecting"
    /\ link = "leaving" => stage = "ended"
    /\ stage = "connecting" => drawn = 0 /\ link \in {"closed", "handshake"} /\ status = NoStatus
    /\ stage \in {"connecting", "opening", "presence", "registering", "enabling"} => ctl = "off"
    /\ draft.kind = "session_open" => stage = "opening"
    /\ draft.kind = "enable" => stage = "enabling"
    /\ draft.kind = "keepalive" => ctl = "on"
    /\ draft.task = "ctl" => ctl # "off"

\* The number of the operator datagram that has sequence number seq.
NumberOf(seq) == drawn - Ahead(Seed + drawn, seq)

BookInv ==
    /\ reached <= left /\ left <= drawn
    /\ link \in {"open", "leaving"} => next = (Seed + drawn + 1) % Wrap
    /\ Operator => /\ draft.number = drawn
                   /\ draft.seq = (Seed + drawn) % Wrap
                   /\ draft.duml = duml
                   /\ IF draft.sent THEN left = drawn ELSE left < drawn
    /\ link = "open" /\ ~(Operator /\ draft.sent) => lastSent = (Seed + left) % Wrap
    /\ stage = "connecting" => lastSent = Seed /\ left = 0

ConfirmInv ==
    /\ Ahead(Seed + drawn, peer) <= MaxSilence
    /\ NumberOf(peer) \in 0..reached
    /\ status.peer # None => /\ Ahead(Seed + drawn, status.peer) <= MaxSilence + MaxLag
                             /\ NumberOf(status.peer) \in 0..reached

\* The number of the video datagram that has sequence number seq.
FrameOf(seq) == Unwrapped(filmed, VideoSeed, seq)

VideoInv ==
    /\ status.video \in {None, window} /\ (~status.known => status.video = None)
    /\ draft.task # "ack" => draft.video = None
    /\ \A seq \in {window, draft.video, acked} \ {None} :
          /\ Ahead(VideoSeed + filmed, seq) <= MaxSilence + MaxLag
          /\ FrameOf(seq) \in 1..filmed
    /\ FrameOf(acked) <= FrameOf(window)
    /\ draft.video # None => /\ FrameOf(acked) <= FrameOf(draft.video)
                             /\ FrameOf(draft.video) <= FrameOf(window)

Drafted == draft.kind = "keepalive" /\ ~draft.sent
Due == IF Drafted THEN awaited \ {draft.duml} ELSE awaited

\* No DUML number of a keepalive that may still be answered is in use again.
Since(k, j) == /\ duml = (k[2] + j) % Wrap
               /\ j <= drawn - k[1] + (IF Operator THEN 0 ELSE 1)
               /\ j = 0 => draft.kind = "keepalive" /\ draft.sent /\ draft.number = k[1]

KeepaliveInv ==
    /\ IsFiniteSet(awaited) /\ IsFiniteSet(keepalives)
    /\ answered + Cardinality(Due) <= Cardinality(keepalives)
    /\ \A k \in keepalives : k[1] <= left
    /\ ctl = "off" => keepalives = {}
    /\ ctl = "on" => \A k \in keepalives : \E j \in 0..drawn + 1 : Since(k, j)

WelcomeInv ==
    /\ enabled <= 1 /\ (draft.kind = "enable" => enabled = 1)
    /\ enables <= IF draft.kind = "enable" /\ ~draft.sent THEN 0 ELSE enabled
    /\ registered \/ stage \in {"enabling", "serving"} \/ enables = 1 => welcomed
    /\ draft.kind = "registration" => reply # NoChallenge
    /\ Welcomes /\ draft.sent => welcomed
    /\ \A c \in keys : c[1] = 130 => welcomed \/ reply = c \/ (link = "closed" /\ stage = "ended")

TransportInv == /\ TypeOK /\ DraftType /\ StageInv /\ BookInv /\ ConfirmInv /\ VideoInv
                /\ KeepaliveInv /\ WelcomeInv

-----------------------------------------------------------------------------
(* Types.                                                                   *)

USE DEF session, numbers, receipt, history

LEMMA NoneIsNoNumber == None \in Int /\ None \notin Numbers /\ None \notin Nat
  BY DEF None, Numbers

LEMMA InitTypes == Init => TypeOK /\ DraftType
  BY WrapIsPositive DEF Init, TypeOK, DraftType, Drafts, Numbers, NoStatus, NoDraft, NoChallenge, Kinds, KindsOf,
     Tasks, None

\* A datagram is drafted by its own task, under the numbers of the books.
LEMMA BuildDrafts ==
  ASSUME TypeOK, NEW task \in Tasks, NEW kind \in Kinds, Build(task, kind)
  PROVE  /\ draft' \in Drafts
         /\ draft'.task = task /\ draft'.kind = kind /\ draft'.video = None /\ ~draft'.sent
         /\ draft'.number = drawn + 1 /\ draft'.seq = next /\ draft'.duml = duml
         /\ next' \in Numbers /\ next' = (next + 1) % Wrap /\ drawn' = drawn + 1 /\ drawn' \in Nat
         /\ draft = NoDraft /\ draft.task = "none" /\ draft.kind = "none" /\ link \in {"open", "leaving"}
         /\ Heard(next, peer) /\ Heard(next, status.peer)
<1>1. next' \in Numbers
  <2>1. next + 1 \in Int
    BY WrapIsPositive DEF TypeOK, Numbers
  <2> QED
    BY <2>1, Division DEF Build
<1>2. draft' = [task |-> task, kind |-> kind, seq |-> next, duml |-> duml,
                number |-> drawn + 1, video |-> None, sent |-> FALSE]
  BY DEF Build, NoDraft
<1>3. next \in Numbers /\ duml \in Numbers /\ drawn \in Nat
  BY DEF TypeOK, Numbers
<1>4. draft' \in Drafts
  BY <1>2, <1>3 DEF Drafts
<1>5. draft = NoDraft /\ draft.task = "none" /\ draft.kind = "none"
  BY DEF Build, NoDraft
<1>6. /\ draft'.task = task /\ draft'.kind = kind /\ draft'.video = None /\ ~draft'.sent
      /\ draft'.number = drawn + 1 /\ draft'.seq = next /\ draft'.duml = duml
  BY <1>2
<1>7. drawn' = drawn + 1 /\ drawn' \in Nat
  BY <1>3 DEF Build
<1> QED
  BY <1>1, <1>4, <1>5, <1>6, <1>7, Zenon DEF Build, Alive

\* What an acknowledgement is drafted from.
LEMMA AckDrafts ==
  ASSUME TypeOK, Acknowledge
  PROVE  /\ draft' \in Drafts
         /\ draft'.task = "ack" /\ draft'.kind = "ack" /\ ~draft'.sent
         /\ draft'.video = status.video
         /\ draft = NoDraft /\ draft.task = "none" /\ draft.kind = "none"
         /\ link \in {"open", "leaving"}
<1>1. draft' = [task |-> "ack", kind |-> "ack", seq |-> None, duml |-> None,
                number |-> None, video |-> status.video, sent |-> FALSE]
  BY DEF Acknowledge, NoDraft
<1>2. status.video \in Numbers \cup {None}
  BY DEF TypeOK, Numbers
<1>3. draft' \in Drafts
  BY <1>1, <1>2 DEF Drafts, Tasks, Kinds
<1>4. draft = NoDraft /\ draft.task = "none" /\ draft.kind = "none"
  BY DEF Acknowledge, NoDraft
<1>5. draft'.task = "ack" /\ draft'.kind = "ack" /\ ~draft'.sent /\ draft'.video = status.video
  BY <1>1
<1> QED
  BY <1>3, <1>4, <1>5, Zenon DEF Acknowledge, Alive

LEMMA NoDraftIsDraft == NoDraft \in Drafts /\ NoDraft.task = "none" /\ NoDraft.kind = "none" /\ NoDraft.video = None
  BY DEF NoDraft, Drafts

LEMMA TransmitDrafts ==
  ASSUME draft \in Drafts, Transmit
  PROVE  /\ draft' \in Drafts /\ draft'.sent
         /\ draft'.task = draft.task /\ draft'.kind = draft.kind /\ draft'.seq = draft.seq
         /\ draft'.duml = draft.duml /\ draft'.number = draft.number /\ draft'.video = draft.video
<1>1. draft' = [draft EXCEPT !.sent = TRUE]
  BY DEF Transmit
<1> QED
  BY <1>1 DEF Drafts

\* The steps that leave the draft alone.
Elsewhere == \/ Open \/ Handshaken \/ HandshakeFails \/ AckRaises \/ Registered
             \/ \E n \in 0..MaxSends, range \in BOOLEAN : ReceiveStatus(n, range)
             \/ \E n \in 1..MaxVideo : ReceiveVideo(n)
             \/ \E d \in 0..Wrap - 1 : ReceiveKeepaliveAnswer(d)
             \/ \E c \in Challenges : ReceiveChallenge(c)
             \/ ReceiveInvalid \/ (\E n \in 1..MaxSends : Arrive(n)) \/ Film \/ Ended

LEMMA ElsewhereKeepsDraft ==
  ASSUME Elsewhere
  PROVE  draft' = draft /\ (link \in {"open", "leaving"} => link' = link)
  BY DEF Elsewhere, Open, Handshaken, HandshakeFails, AckRaises, Registered, ReceiveStatus, ReceiveVideo,
     ReceiveKeepaliveAnswer, ReceiveChallenge, ReceiveInvalid, Arrive, Film, Ended, vars

LEMMA DraftSteps ==
  ASSUME TypeOK, DraftType, Next
  PROVE  DraftType'
<1> USE NoDraftIsDraft DEF DraftType
<1>1. CASE Elsewhere
  BY <1>1, ElsewhereKeepsDraft
<1>2. ASSUME NEW kind \in {"session_open", "presence", "enable"}, MainSends(kind)
      PROVE  DraftType'
  <2>1. "main" \in Tasks /\ kind \in Kinds /\ kind \in KindsOf("main") /\ Build("main", kind) /\ link' = link
    BY <1>2 DEF Tasks, Kinds, KindsOf, MainSends
  <2> QED
    BY <2>1, BuildDrafts
<1>3. CASE Answer
  <2>1. /\ "recv" \in Tasks /\ "registration" \in Kinds /\ "registration" \in KindsOf("recv")
        /\ Build("recv", "registration") /\ link' = link
    BY <1>3 DEF Tasks, Kinds, KindsOf, Answer
  <2> QED
    BY <2>1, BuildDrafts
<1>4. ASSUME NEW kind \in {"stick", "keepalive"}, ControlSends(kind)
      PROVE  DraftType'
  <2>1. "ctl" \in Tasks /\ kind \in Kinds /\ kind \in KindsOf("ctl") /\ Build("ctl", kind) /\ link' = link
    BY <1>4 DEF Tasks, Kinds, KindsOf, ControlSends
  <2> QED
    BY <2>1, BuildDrafts
<1>5. CASE Acknowledge
  <2>1. "ack" \in KindsOf("ack") /\ link' = link
    BY <1>5 DEF Acknowledge, KindsOf
  <2> QED
    BY <1>5, <2>1, AckDrafts
<1>6. CASE Transmit
  <2>1. draft # NoDraft /\ link' = link
    BY <1>6 DEF Transmit
  <2> QED
    BY <1>6, <2>1, TransmitDrafts
<1>7. CASE Resume \/ SendFails \/ Leave \/ Close
  <2>1. draft' = NoDraft \/ (draft' = draft /\ link' \in {"open", "leaving"})
    BY <1>7 DEF Resume, SendFails, Leave, Close
  <2>2. "none" \in KindsOf("none")
    BY DEF KindsOf
  <2> QED
    BY <2>1, <2>2
<1> QED
  BY <1>1, <1>2, <1>3, <1>4, <1>5, <1>6, <1>7 DEF Next, Elsewhere

\* The kind of a datagram tells its task.
LEMMA KindTellsTask ==
  ASSUME DraftType
  PROVE  /\ draft.task = "ack" <=> draft.kind = "ack"
         /\ draft.task = "recv" <=> draft.kind = "registration"
         /\ draft.task = "ctl" <=> draft.kind \in {"stick", "keepalive"}
         /\ draft.task = "main" <=> draft.kind \in {"session_open", "presence", "enable"}
         /\ draft.task = "none" <=> draft.kind = "none"
         /\ draft = NoDraft <=> draft.task = "none"
         /\ draft # NoDraft => Operator \/ draft.task = "ack"
         /\ draft.kind \in Kinds => draft # NoDraft
<1>1. draft.task \in Tasks \cup {"none"} /\ draft.kind \in KindsOf(draft.task)
  BY DEF DraftType, Drafts
<1>2. draft = NoDraft <=> draft.task = "none"
  BY DEF DraftType, NoDraft
<1>3. /\ draft.task = "ack" <=> draft.kind = "ack"
      /\ draft.task = "recv" <=> draft.kind = "registration"
      /\ draft.task = "ctl" <=> draft.kind \in {"stick", "keepalive"}
      /\ draft.task = "main" <=> draft.kind \in {"session_open", "presence", "enable"}
      /\ draft.task = "none" <=> draft.kind = "none"
  BY <1>1 DEF Tasks, KindsOf
<1> QED
  BY <1>1, <1>2, <1>3 DEF Operator, Tasks, Kinds

\* The numbers of the books stay numbers.
LEMMA NumberSteps ==
  ASSUME TypeOK, DraftType, BookInv, Next
  PROVE  {next, peer, lastSent, duml}' \subseteq Numbers
<1> USE WrapIsPositive DEF Numbers
<1>0. next \in Numbers /\ peer \in Numbers /\ lastSent \in Numbers /\ duml \in Numbers
  BY DEF TypeOK
<1> SUFFICES next' \in Numbers /\ peer' \in Numbers /\ lastSent' \in Numbers /\ duml' \in Numbers
  OBVIOUS
<1>1. CASE Handshaken
  <2>1. (Seed + 1) % Wrap \in Numbers
    BY Division
  <2> QED
    BY <1>0, <1>1, <2>1 DEF Handshaken
<1>2. ASSUME NEW n \in 0..MaxSends, NEW range \in BOOLEAN, ReceiveStatus(n, range)
      PROVE  next' \in Numbers /\ peer' \in Numbers /\ lastSent' \in Numbers /\ duml' \in Numbers
  <2>1. (Seed + n) % Wrap \in Numbers
    BY TransportAssumption, Division
  <2> QED
    BY <1>0, <1>2, <2>1 DEF ReceiveStatus
<1>3. ASSUME NEW task \in Tasks, NEW kind \in Kinds, Build(task, kind), UNCHANGED <<peer, lastSent, duml>>
      PROVE  next' \in Numbers /\ peer' \in Numbers /\ lastSent' \in Numbers /\ duml' \in Numbers
  BY <1>0, <1>3, BuildDrafts
<1>4. ASSUME NEW kind \in {"session_open", "presence", "enable"}, MainSends(kind)
      PROVE  next' \in Numbers /\ peer' \in Numbers /\ lastSent' \in Numbers /\ duml' \in Numbers
  BY <1>3, <1>4 DEF MainSends, Tasks, Kinds
<1>5. CASE Answer
  BY <1>3, <1>5 DEF Answer, Tasks, Kinds
<1>6. ASSUME NEW kind \in {"stick", "keepalive"}, ControlSends(kind)
      PROVE  next' \in Numbers /\ peer' \in Numbers /\ lastSent' \in Numbers /\ duml' \in Numbers
  BY <1>3, <1>6 DEF ControlSends, Tasks, Kinds
<1>7. CASE Resume
  <2>1. (duml + 1) % Wrap \in Numbers
    BY <1>0, Division
  <2>2. draft.kind # "ack" => draft.seq \in Numbers
    <3>1. drawn \in Nat
      BY DEF TypeOK
    <3>2. (Seed + drawn) % Wrap \in Numbers
      BY <3>1, Division
    <3> QED
      BY <1>7, <3>2, KindTellsTask DEF Resume, BookInv
  <2>3. peer' = peer /\ next' = next
    BY <1>7 DEF Resume
  <2>4. lastSent' \in Numbers /\ duml' \in Numbers
    BY <1>0, <1>7, <2>1, <2>2 DEF Resume, Booked
  <2> QED
    BY <1>0, <2>3, <2>4
<1>8. CASE UNCHANGED numbers
  BY <1>0, <1>8
<1>9. CASE \/ Open \/ HandshakeFails \/ Acknowledge \/ AckRaises \/ Transmit \/ SendFails \/ Registered \/ Leave
           \/ Close \/ ReceiveInvalid \/ Film \/ Ended
  <2>1. UNCHANGED numbers
    BY <1>9 DEF Open, HandshakeFails, Acknowledge, AckRaises, Transmit, SendFails, Registered, Leave, Close,
       ReceiveInvalid, Film, Ended, vars
  <2> QED
    BY <2>1, <1>8
<1>10. ASSUME NEW n, ReceiveVideo(n) \/ ReceiveKeepaliveAnswer(n) \/ Arrive(n) \/ ReceiveChallenge(n)
       PROVE  UNCHANGED numbers
  BY <1>10, Zenon DEF ReceiveVideo, ReceiveKeepaliveAnswer, Arrive, ReceiveChallenge
<1> HIDE DEF Numbers
<1> QED
  BY <1>1, <1>2, <1>4, <1>5, <1>6, <1>7, <1>8, <1>9, <1>10, Zenon DEF Next

\* So do those that are received.
LEMMA ReceiptSteps ==
  ASSUME TypeOK, DraftType, BookInv, Next
  PROVE  /\ {status.peer, status.video, window, acked}' \subseteq Numbers \cup {None}
         /\ awaited' \subseteq Numbers /\ keys' \subseteq Challenges
         /\ reply' \in Challenges \cup {NoChallenge}
         /\ keepalives' \subseteq Nat \X Numbers /\ answered' \in Nat
<1> USE WrapIsPositive DEF Numbers
<1> DEFINE N == Numbers \cup {None}
           Good == /\ status'.peer \in N /\ status'.video \in N /\ window' \in N /\ acked' \in N
                   /\ awaited' \subseteq Numbers /\ keys' \subseteq Challenges
                   /\ reply' \in Challenges \cup {NoChallenge}
                   /\ keepalives' \subseteq Nat \X Numbers /\ answered' \in Nat
<1>0. /\ status.peer \in N /\ status.video \in N /\ window \in N /\ acked \in N
      /\ awaited \subseteq Numbers /\ keys \subseteq Challenges
      /\ reply \in Challenges \cup {NoChallenge}
      /\ keepalives \subseteq Nat \X Numbers /\ answered \in Nat
  BY DEF TypeOK
<1> SUFFICES Good
  OBVIOUS
<1> HIDE DEF N, Numbers
<1>1. CASE UNCHANGED <<status, window, acked, awaited, keys, reply, keepalives, answered>>
  BY <1>0, <1>1
<1>2. CASE \/ Open \/ Handshaken \/ HandshakeFails \/ Acknowledge \/ AckRaises \/ Registered
           \/ ReceiveInvalid \/ Film \/ Ended \/ Answer
  <2>1. UNCHANGED <<status, window, acked, awaited, keys, reply, keepalives, answered>>
    BY <1>2 DEF Open, Handshaken, HandshakeFails, Acknowledge, AckRaises, Registered,
       ReceiveInvalid, Film, Ended, Answer, vars
  <2> QED
    BY <2>1, <1>1
<1>3. ASSUME NEW n \in Int, NEW kind, Arrive(n) \/ MainSends(kind)
      PROVE  Good
  <2>1. UNCHANGED <<status, window, acked, awaited, keys, reply, keepalives, answered>>
    BY <1>3 DEF Arrive, MainSends
  <2> QED
    BY <2>1, <1>1
<1>4. ASSUME NEW kind \in {"stick", "keepalive"}, ControlSends(kind)
      PROVE  Good
  <2>1. duml \in Numbers
    BY DEF TypeOK, Numbers
  <2>2. awaited' \subseteq Numbers
    BY <1>0, <1>4, <2>1 DEF ControlSends
  <2> QED
    BY <1>0, <1>4, <2>2 DEF ControlSends
<1>5. ASSUME NEW n \in 0..MaxSends, NEW range \in BOOLEAN, ReceiveStatus(n, range)
      PROVE  Good
  <2> DEFINE s == (Seed + n) % Wrap
             fresh == [known |-> TRUE, peer |-> IF range THEN None ELSE s, video |-> None]
  <2>1. s \in Numbers
    <3>1. Seed + n \in Int
      BY TransportAssumption
    <3> QED
      BY <3>1, Division
  <2>2. status' = Renewed(fresh, window)
    BY <1>5 DEF ReceiveStatus
  <2> HIDE DEF s
  <2>3. fresh.peer \in N /\ fresh.video \in N
    BY <2>1 DEF N
  <2>4. status'.peer \in N /\ status'.video \in N
    BY <1>0, <2>2, <2>3 DEF Renewed
  <2> QED
    BY <1>0, <1>5, <2>4 DEF ReceiveStatus
<1>6. ASSUME NEW n \in 1..MaxVideo, ReceiveVideo(n)
      PROVE  Good
  <2>1. (VideoSeed + n) % Wrap \in N
    <3>1. VideoSeed + n \in Int
      BY TransportAssumption
    <3> QED
      BY <3>1, Division DEF N
  <2>2. window' \in N
    BY <1>0, <1>6, <2>1 DEF ReceiveVideo
  <2>3. status' = Renewed(status, window')
    BY <1>6 DEF ReceiveVideo
  <2>4. status'.peer \in N /\ status'.video \in N
    BY <1>0, <2>2, <2>3 DEF Renewed
  <2> QED
    BY <1>0, <1>6, <2>2, <2>4 DEF ReceiveVideo
<1>7. ASSUME NEW d, ReceiveKeepaliveAnswer(d)
      PROVE  Good
  BY <1>0, <1>7 DEF ReceiveKeepaliveAnswer
<1>8. ASSUME NEW c \in Challenges, ReceiveChallenge(c)
      PROVE  Good
  <2>1. keys' \subseteq Challenges /\ reply' \in Challenges \cup {NoChallenge}
    BY <1>0, <1>8 DEF ReceiveChallenge
  <2> QED
    BY <1>0, <1>8, <2>1 DEF ReceiveChallenge
<1>9. CASE Transmit
  <2>1. draft.video \in N
    BY DEF DraftType, Drafts, N
  <2>2. CASE draft.kind = "ack"
    BY <1>0, <1>9, <2>1, <2>2 DEF Transmit
  <2>3. CASE draft.kind # "ack"
    <3>1. draft.kind = "keepalive" => draft.number \in Nat /\ draft.duml \in Numbers
      <4>1. drawn \in Nat /\ duml \in Numbers
        BY DEF TypeOK, Numbers
      <4> QED
        BY <4>1, KindTellsTask DEF BookInv, Operator
    <3>2. keepalives' \subseteq Nat \X Numbers
      BY <1>0, <1>9, <2>3, <3>1 DEF Transmit
    <3> QED
      BY <1>0, <1>9, <2>3, <3>2 DEF Transmit
  <2> QED
    BY <2>2, <2>3
<1>10. CASE Resume \/ SendFails \/ Leave
  <2>1. /\ UNCHANGED <<status, window, acked, keys, keepalives, answered>>
        /\ awaited' \subseteq awaited /\ reply' \in {reply, NoChallenge}
    BY <1>10 DEF Resume, SendFails, Leave, Withdrawn
  <2> QED
    BY <1>0, <2>1
<1>11. CASE Close
  <2>1. status'.peer = None /\ status'.video = None
    BY <1>11 DEF Close, NoStatus
  <2> QED
    BY <1>0, <1>11, <2>1 DEF Close, N
<1> QED
  BY <1>2, <1>3, <1>4, <1>5, <1>6, <1>7, <1>8, <1>9, <1>10, <1>11 DEF Next

LEMMA PlaceSteps ==
  ASSUME TypeOK, DraftType, BookInv, StageInv, Next
  PROVE  /\ link' \in {"closed", "handshake", "open", "leaving"}
         /\ stage' \in {"connecting", "opening", "presence", "registering", "enabling", "serving", "ended"}
         /\ ctl' \in {"off", "on", "fault", "gone"}
         /\ dead' \subseteq Tasks
         /\ {drawn, left, reached, enabled, answered}' \subseteq Nat /\ filmed' \in Nat /\ enables' \in Nat
<1> DEFINE Good == /\ link' \in {"closed", "handshake", "open", "leaving"}
                   /\ stage' \in {"connecting", "opening", "presence", "registering", "enabling", "serving", "ended"}
                   /\ ctl' \in {"off", "on", "fault", "gone"}
                   /\ dead' \subseteq Tasks
                   /\ drawn' \in Nat /\ left' \in Nat /\ reached' \in Nat /\ enabled' \in Nat
                   /\ filmed' \in Nat /\ enables' \in Nat
<1>0. /\ link \in {"closed", "handshake", "open", "leaving"}
      /\ stage \in {"connecting", "opening", "presence", "registering", "enabling", "serving", "ended"}
      /\ ctl \in {"off", "on", "fault", "gone"}
      /\ dead \subseteq Tasks
      /\ drawn \in Nat /\ left \in Nat /\ reached \in Nat /\ enabled \in Nat /\ filmed \in Nat /\ enables \in Nat
  BY DEF TypeOK, StageInv
<1> SUFFICES Good
  BY ReceiptSteps
<1>1. CASE \/ Open \/ Handshaken \/ HandshakeFails \/ Acknowledge \/ Registered \/ Leave \/ Close \/ Film \/ Ended
  BY <1>0, <1>1 DEF Open, Handshaken, HandshakeFails, Acknowledge, Registered, Leave, Close, Film, Ended, vars
<1>2. CASE AckRaises \/ ReceiveInvalid
  <2>1. dead' = dead \cup {"ack"} \/ dead' = dead \cup {"recv"}
    BY <1>2 DEF AckRaises, ReceiveInvalid
  <2>2. UNCHANGED <<link, stage, ctl, drawn, left, reached, enabled, filmed, enables>>
    BY <1>2 DEF AckRaises, ReceiveInvalid
  <2> QED
    BY <1>0, <2>1, <2>2 DEF Tasks
<1>3. ASSUME NEW kind, MainSends(kind)
      PROVE  Good
  BY <1>0, <1>3 DEF MainSends, Build
<1>4. CASE Answer
  BY <1>0, <1>4 DEF Answer, Build
<1>5. ASSUME NEW kind, ControlSends(kind)
      PROVE  Good
  BY <1>0, <1>5 DEF ControlSends, Build
<1>6. CASE Transmit
  <2>1. draft.kind # "ack" => draft.number \in Nat
    BY <1>0, <1>6, KindTellsTask DEF BookInv, Transmit
  <2> QED
    BY <1>0, <1>6, <2>1 DEF Transmit
<1>7. CASE Resume
  BY <1>0, <1>7 DEF Resume, After
<1>8. CASE SendFails
  <2>1. draft.task \in Tasks
    BY <1>8 DEF SendFails, DraftType, Drafts
  <2> QED
    BY <1>0, <1>8, <2>1 DEF SendFails
<1>9. ASSUME NEW n, NEW range, \/ ReceiveStatus(n, range) \/ ReceiveVideo(n) \/ ReceiveKeepaliveAnswer(n)
                               \/ ReceiveChallenge(n)
      PROVE  Good
  BY <1>0, <1>9 DEF ReceiveStatus, ReceiveVideo, ReceiveKeepaliveAnswer, ReceiveChallenge
<1>10. ASSUME NEW n \in 1..MaxSends, Arrive(n)
       PROVE  Good
  BY <1>0, <1>10, TransportAssumption DEF Arrive
<1> HIDE DEF Good
<1> QED
  BY <1>1, <1>2, <1>3, <1>4, <1>5, <1>6, <1>7, <1>8, <1>9, <1>10, Zenon DEF Next

LEMMA TypesStep ==
  ASSUME TypeOK, DraftType, BookInv, StageInv, Next
  PROVE  TypeOK' /\ DraftType'
  BY DraftSteps, NumberSteps, ReceiptSteps, PlaceSteps DEF TypeOK, Numbers

-----------------------------------------------------------------------------
(* Where the session is.                                                    *)

LEMMA StageSteps ==
  ASSUME TypeOK, DraftType, BookInv, StageInv, Next
  PROVE  StageInv'
<1> USE DEF StageInv
<1>0. filmed' \in Nat /\ enables' \in Nat
  BY PlaceSteps
<1>1. CASE Open \/ Handshaken \/ HandshakeFails
  <2>1. draft.task = "none" /\ draft.kind = "none"
    BY <1>1, KindTellsTask DEF DraftType, Open, Handshaken, HandshakeFails
  <2> QED
    BY <1>0, <1>1, <2>1 DEF Open, Handshaken, HandshakeFails
<1>2. CASE Elsewhere
  <2>1. draft' = draft
    BY <1>2, ElsewhereKeepsDraft
  <2>2. CASE AckRaises \/ Registered \/ ReceiveInvalid \/ Film \/ Ended
    BY <1>0, <2>1, <2>2 DEF AckRaises, Alive, Registered, ReceiveInvalid, Film, Ended, vars
  <2>3. ASSUME NEW n, NEW range, \/ ReceiveStatus(n, range) \/ ReceiveVideo(n) \/ ReceiveKeepaliveAnswer(n)
                                 \/ ReceiveChallenge(n)
        PROVE  StageInv'
    BY <1>0, <2>1, <2>3 DEF ReceiveStatus, ReceiveVideo, ReceiveKeepaliveAnswer, ReceiveChallenge, Listening, Alive
  <2>4. ASSUME NEW n, Arrive(n)
        PROVE  StageInv'
    BY <1>0, <2>1, <2>4 DEF Arrive
  <2> QED
    BY <1>1, <1>2, <2>2, <2>3, <2>4, Zenon DEF Elsewhere
<1>3. ASSUME NEW kind \in {"session_open", "presence", "enable"}, MainSends(kind)
      PROVE  StageInv'
  <2>1. "main" \in Tasks /\ kind \in Kinds /\ Build("main", kind)
    BY <1>3 DEF Tasks, Kinds, MainSends
  <2> QED
    BY <1>0, <1>3, <2>1, BuildDrafts DEF MainSends
<1>4. CASE Answer
  <2>1. "recv" \in Tasks /\ "registration" \in Kinds /\ Build("recv", "registration")
    BY <1>4 DEF Tasks, Kinds, Answer
  <2> QED
    BY <1>0, <1>4, <2>1, BuildDrafts DEF Answer
<1>5. ASSUME NEW kind \in {"stick", "keepalive"}, ControlSends(kind)
      PROVE  StageInv'
  <2>1. "ctl" \in Tasks /\ kind \in Kinds /\ Build("ctl", kind)
    BY <1>5 DEF Tasks, Kinds, ControlSends
  <2> QED
    BY <1>0, <1>5, <2>1, BuildDrafts DEF ControlSends
<1>6. CASE Acknowledge
  BY <1>0, <1>6, AckDrafts DEF Acknowledge
<1>7. CASE Transmit
  BY <1>0, <1>7, TransmitDrafts DEF Transmit, DraftType
<1>8. CASE Resume
  <2>1. draft'.task = "none" /\ draft'.kind = "none"
    BY <1>8, NoDraftIsDraft DEF Resume
  <2> QED
    BY <1>0, <1>8, <2>1 DEF Resume, After
<1>9. CASE SendFails
  <2>1. draft'.task = "none" /\ draft'.kind = "none"
    BY <1>9, NoDraftIsDraft DEF SendFails
  <2> QED
    BY <1>0, <1>9, <2>1 DEF SendFails
<1>10. CASE Leave \/ Close
  BY <1>0, <1>10, NoDraftIsDraft, KindTellsTask DEF Leave, Close
<1> QED
  BY <1>1, <1>2, <1>3, <1>4, <1>5, <1>6, <1>7, <1>8, <1>9, <1>10 DEF Next, Elsewhere

-----------------------------------------------------------------------------
(* The books.                                                               *)

\* The next operator datagram has the next number.
LEMMA BuildBooks ==
  ASSUME TypeOK, DraftType, BookInv, NEW task \in {"main", "recv", "ctl"}, NEW kind \in Kinds,
         Build(task, kind), UNCHANGED <<link, stage, lastSent, duml, left, reached>>, stage # "connecting"
  PROVE  BookInv'
<1>1. task \in Tasks
  BY DEF Tasks
<1>2. drawn \in Nat /\ left \in Nat /\ reached \in Nat
  BY DEF TypeOK
<1>3. next = (Seed + drawn + 1) % Wrap /\ ~Operator
  BY <1>1, BuildDrafts DEF BookInv, Operator
<1>4. next' = (Seed + drawn + 2) % Wrap
  <2>1. Seed + drawn + 1 \in Int /\ Seed + drawn + 2 = (Seed + drawn + 1) + 1
    BY <1>2, WrapIsPositive DEF Numbers
  <2> DEFINE x == Seed + drawn + 1
  <2>2. x % Wrap \in Numbers /\ x \div Wrap \in Int /\ x = Wrap * (x \div Wrap) + (x % Wrap)
    BY <2>1, Division
  <2> DEFINE n == x % Wrap
             q == x \div Wrap
             y == n + 1
  <2>3. y \in Int
    BY <2>2, WrapIsPositive DEF Numbers
  <2>4. y % Wrap \in Numbers /\ y \div Wrap \in Int /\ y = Wrap * (y \div Wrap) + (y % Wrap)
    BY <2>3, Division
  <2> DEFINE r == y % Wrap
             p == y \div Wrap
  <2>5. y = n + 1
    OBVIOUS
  <2>6. next' = r
    BY <1>1, <1>3, BuildDrafts
  <2> HIDE DEF n, q, r, p, x, y
  <2>7. x = Wrap * q + n /\ y = Wrap * p + r /\ q \in Int /\ p \in Int /\ n \in Numbers /\ r \in Numbers /\ x \in Int
    BY <2>1, <2>2, <2>4 DEF n, q, r, p, x
  <2>8. x + 1 = Wrap * (q + p) + r /\ q + p \in Int /\ x + 1 \in Int
    BY <2>5, <2>7, WrapIsPositive, SMT DEF Numbers
  <2>9. (x + 1) % Wrap = r
    BY <2>7, <2>8, Remainder
  <2> QED
    BY <2>1, <2>6, <2>9 DEF x
<1>5. Operator' /\ draft'.number = drawn' /\ draft'.seq = (Seed + drawn') % Wrap /\ draft'.duml = duml' /\ ~draft'.sent
  BY <1>1, <1>2, <1>3, BuildDrafts, WrapIsPositive DEF Operator, Numbers
<1>6. drawn' = drawn + 1 /\ Seed + drawn' + 1 = Seed + drawn + 2
  BY <1>1, <1>2, BuildDrafts, WrapIsPositive DEF Numbers
<1>7. /\ reached <= left /\ left <= drawn
      /\ link = "open" => lastSent = (Seed + left) % Wrap
  BY <1>3 DEF BookInv
<1> QED
  BY <1>2, <1>4, <1>5, <1>6, <1>7 DEF BookInv

LEMMA BookSteps ==
  ASSUME TypeOK, DraftType, StageInv, BookInv, Next
  PROVE  BookInv'
<1> USE DEF BookInv
<1>0. drawn \in Nat /\ left \in Nat /\ reached \in Nat
  BY DEF TypeOK
<1>1. CASE Open \/ HandshakeFails
  <2>1. draft' = draft
    BY <1>1 DEF Open, HandshakeFails
  <2> QED
    BY <1>1, <2>1 DEF Open, HandshakeFails, Operator
<1>2. CASE Handshaken
  <2>1. stage = "connecting" /\ draft.task = "none" /\ draft' = draft
    BY <1>2 DEF Handshaken, StageInv, DraftType
  <2>2. drawn = 0 /\ left = 0 /\ lastSent = Seed /\ lastSent' = Seed /\ left' = 0 /\ drawn' = 0
    BY <1>2, <2>1 DEF Handshaken, StageInv
  <2>3. Seed % Wrap = Seed
    <3>1. Seed \in Int /\ Seed = Wrap * 0 + Seed
      BY WrapIsPositive DEF Numbers
    <3> QED
      BY <3>1, Remainder, WrapIsPositive
  <2>4. Seed + 0 = Seed /\ Seed + 0 + 1 = Seed + 1
    BY WrapIsPositive DEF Numbers
  <2>5. next' = (Seed + drawn' + 1) % Wrap
    BY <1>2, <2>2, <2>4 DEF Handshaken
  <2>6. ~Operator' /\ stage' # "connecting" /\ reached' = reached
    BY <1>2, <2>1 DEF Handshaken, Operator
  <2> QED
    BY <1>0, <2>2, <2>3, <2>4, <2>5, <2>6
<1>3. CASE Elsewhere /\ ~(Open \/ HandshakeFails \/ Handshaken)
  <2>1. draft' = draft /\ Operator' = Operator
    BY <1>3, ElsewhereKeepsDraft DEF Operator
  <2>2. CASE AckRaises \/ Registered \/ ReceiveInvalid \/ Film \/ Ended
    BY <2>1, <2>2 DEF AckRaises, Registered, ReceiveInvalid, Film, Ended, vars
  <2>3. ASSUME NEW n, NEW range, \/ ReceiveStatus(n, range) \/ ReceiveVideo(n) \/ ReceiveKeepaliveAnswer(n)
                                 \/ ReceiveChallenge(n)
        PROVE  BookInv'
    BY <2>1, <2>3 DEF ReceiveStatus, ReceiveVideo, ReceiveKeepaliveAnswer, ReceiveChallenge
  <2>4. ASSUME NEW n, Arrive(n)
        PROVE  BookInv'
    BY <1>0, <2>1, <2>4 DEF Arrive
  <2> QED
    BY <1>3, <2>2, <2>3, <2>4, Zenon DEF Elsewhere
<1>4. ASSUME NEW kind \in {"session_open", "presence", "enable"}, MainSends(kind)
      PROVE  BookInv'
  BY <1>4, BuildBooks DEF MainSends, Kinds, StageInv
<1>5. CASE Answer
  BY <1>5, BuildBooks DEF Answer, Kinds, StageInv, Build, Alive
<1>6. ASSUME NEW kind \in {"stick", "keepalive"}, ControlSends(kind)
      PROVE  BookInv'
  BY <1>6, BuildBooks DEF ControlSends, Kinds, StageInv, Build, Alive
<1>7. CASE Acknowledge
  <2>1. ~Operator /\ ~Operator'
    BY <1>7, AckDrafts DEF Operator
  <2> QED
    BY <1>7, <2>1 DEF Acknowledge
<1>8. CASE Transmit
  <2>1. Operator' = Operator /\ draft'.sent /\ draft'.number = draft.number /\ draft'.seq = draft.seq /\ draft'.duml = draft.duml
    BY <1>8, TransmitDrafts DEF DraftType, Operator
  <2>2. Operator <=> draft.kind # "ack"
    BY <1>8, KindTellsTask DEF Transmit, Operator
  <2>3. UNCHANGED <<link, stage, next, lastSent, duml, drawn, reached>>
    BY <1>8 DEF Transmit
  <2>4. CASE Operator
    <3>1. left' = drawn /\ ~draft.sent /\ left < drawn
      BY <1>8, <2>2, <2>4 DEF Transmit
    <3>2. stage # "connecting"
      BY <1>8, <2>4 DEF StageInv, DraftType, Operator
    <3> QED
      BY <1>0, <2>1, <2>3, <2>4, <3>1, <3>2
  <2>5. CASE ~Operator
    <3>1. left' = left
      BY <1>8, <2>2, <2>5 DEF Transmit
    <3> QED
      BY <1>0, <2>1, <2>3, <2>5, <3>1
  <2> QED
    BY <2>4, <2>5
<1>9. CASE Resume
  <2>1. ~Operator'
    BY <1>9, NoDraftIsDraft DEF Resume, Operator
  <2>2. UNCHANGED <<link, next, drawn, left, reached>>
    BY <1>9 DEF Resume
  <2>3. Operator <=> draft.kind # "ack"
    BY <1>9, KindTellsTask DEF Resume, Operator
  <2>4. lastSent' = IF Operator THEN (Seed + left) % Wrap ELSE lastSent
    BY <1>9, <2>3 DEF Resume, Booked
  <2>5. stage' # "connecting"
    BY <1>9 DEF Resume, StageInv, DraftType, After, NoDraft, Operator
  <2> QED
    BY <1>0, <2>1, <2>2, <2>4, <2>5
<1>10. CASE SendFails
  <2>1. ~Operator'
    BY <1>10, NoDraftIsDraft DEF SendFails, Operator
  <2> QED
    BY <1>10, <2>1 DEF SendFails
<1>11. CASE Leave
  <2>1. Operator' => Operator /\ draft' = draft
    BY <1>11, NoDraftIsDraft DEF Leave, Operator
  <2> QED
    BY <1>11, <2>1 DEF Leave
<1>12. CASE Close
  <2>1. ~Operator'
    BY <1>12, NoDraftIsDraft DEF Close, Operator
  <2> QED
    BY <1>12, <2>1 DEF Close
<1> QED
  BY <1>1, <1>2, <1>3, <1>4, <1>5, <1>6, <1>7, <1>8, <1>9, <1>10, <1>11, <1>12, Zenon DEF Next, Elsewhere

-----------------------------------------------------------------------------
(* What the camera confirms.                                                *)

LEMMA LagIsSmall ==
  ASSUME NEW d \in Int, 0 <= d, d <= MaxSilence + MaxLag
  PROVE  d \in Numbers /\ d + 1 \in Numbers /\ 2 * d < Wrap
<1>1. MaxSilence \in Nat /\ MaxLag \in Nat /\ 2 * (MaxLag + MaxSilence) < Wrap
  BY TransportAssumption
<1>2. Wrap >= 2
  BY TransportAssumption
<1> QED
  BY <1>1, <1>2, WrapIsPositive DEF Numbers

\* One more datagram puts what was heard one further behind.
LEMMA OneMore ==
  ASSUME NEW x \in Int, NEW s \in Numbers, Ahead(x, s) <= MaxSilence + MaxLag
  PROVE  Ahead(x, s) \in Nat /\ Ahead(x + 1, s) = Ahead(x, s) + 1
<1>1. Ahead(x, s) \in Numbers /\ Ahead(x, s) \in Nat
  BY Behind, WrapIsPositive DEF Numbers
<1>2. Ahead(x, s) + 1 \in Numbers
  BY <1>1, LagIsSmall
<1> QED
  BY <1>1, <1>2, AheadGrows

\* While the transport only drafts, what was heard keeps its number.
LEMMA HeardWhileDrafting ==
  ASSUME TypeOK, BookInv, NEW task \in Tasks, NEW kind \in Kinds, Build(task, kind),
         NEW s \in Numbers, Heard(next, s), Ahead(Seed + drawn, s) <= MaxSilence + MaxLag
  PROVE  Ahead(Seed + drawn', s) <= MaxSilence /\ NumberOf(s)' = NumberOf(s)
<1> DEFINE x == Seed + drawn
<1>1. drawn \in Nat /\ x \in Int /\ drawn' = drawn + 1 /\ Seed + drawn' = x + 1 /\ x + 1 \in Int
  BY BuildDrafts, WrapIsPositive DEF TypeOK, Numbers
<1>2. next = (x + 1) % Wrap
  BY <1>1, BuildDrafts DEF BookInv
<1>3. s # None
  BY NoneIsNoNumber
<1> HIDE DEF x
<1>4. Ahead(next, s) = Ahead(x + 1, s)
  BY <1>1, <1>2, AheadOfRemainder
<1>5. Ahead(x + 1, s) <= MaxSilence
  BY <1>3, <1>4 DEF Heard
<1>6. Ahead(x, s) \in Nat /\ Ahead(x + 1, s) = Ahead(x, s) + 1
  BY <1>1, OneMore DEF x
<1>7. (drawn + 1) - (Ahead(x, s) + 1) = drawn - Ahead(x, s)
  BY <1>1, <1>6
<1>8. NumberOf(s)' = drawn' - Ahead(Seed + drawn', s)
  BY DEF NumberOf, Ahead
<1>9. Seed + drawn = x
  BY DEF x
<1> QED
  BY <1>1, <1>5, <1>6, <1>7, <1>8, <1>9 DEF NumberOf

LEMMA ConfirmBuild ==
  ASSUME TypeOK, BookInv, ConfirmInv, NEW task \in Tasks, NEW kind \in Kinds, Build(task, kind),
         UNCHANGED <<peer, status, reached>>
  PROVE  ConfirmInv'
<1>1. peer \in Numbers /\ status.peer \in Numbers \cup {None} /\ MaxSilence \in Nat /\ MaxLag \in Nat
  BY TransportAssumption DEF TypeOK, Numbers
<1>2. Ahead(Seed + drawn, peer) \in Int
  BY <1>1, Behind, WrapIsPositive DEF TypeOK, Numbers
<1>3. /\ Ahead(Seed + drawn, peer) <= MaxSilence + MaxLag
      /\ Heard(next, peer) /\ Heard(next, status.peer)
  BY <1>1, <1>2, BuildDrafts DEF ConfirmInv
<1>4. Ahead(Seed + drawn', peer) <= MaxSilence /\ NumberOf(peer)' = NumberOf(peer)
  <2>1. Ahead(Seed + drawn', peer) <= MaxSilence /\ (drawn' - Ahead(Seed + drawn', peer)) = NumberOf(peer)
    BY <1>1, <1>3, HeardWhileDrafting DEF NumberOf, Ahead
  <2> QED
    BY <2>1 DEF NumberOf, Ahead
<1>5. ASSUME status.peer # None
      PROVE  /\ Ahead(Seed + drawn', status.peer) <= MaxSilence + MaxLag
             /\ drawn' - Ahead(Seed + drawn', status.peer) = NumberOf(status.peer)
  <2> DEFINE s == status.peer
  <2>1. s \in Numbers /\ Ahead(Seed + drawn, s) <= MaxSilence + MaxLag /\ Heard(next, s)
    BY <1>1, <1>3, <1>5 DEF ConfirmInv
  <2> HIDE DEF s
  <2>2. Ahead(Seed + drawn', s) <= MaxSilence /\ drawn' - Ahead(Seed + drawn', s) = NumberOf(s)
    <3>1. \A r \in Numbers : Heard(next, r) /\ Ahead(Seed + drawn, r) <= MaxSilence + MaxLag
             => Ahead(Seed + drawn', r) <= MaxSilence /\ drawn' - Ahead(Seed + drawn', r) = NumberOf(r)
      BY HeardWhileDrafting DEF NumberOf, Ahead
    <3> QED
      BY <2>1, <3>1
  <2>3. Ahead(Seed + drawn', s) \in Int
    <3>1. Seed + drawn' \in Int
      BY BuildDrafts, WrapIsPositive DEF Numbers
    <3> QED
      BY <2>1, <3>1, Behind, WrapIsPositive DEF Numbers
  <2> QED
    BY <1>1, <2>2, <2>3 DEF s
<1> QED
  BY <1>4, <1>5 DEF ConfirmInv, NumberOf, Ahead

LEMMA ConfirmStatus ==
  ASSUME TypeOK, BookInv, ConfirmInv, NEW n \in 0..MaxSends, NEW range \in BOOLEAN, ReceiveStatus(n, range)
  PROVE  ConfirmInv' /\ NumberOf(peer) <= NumberOf(peer)'
<1> DEFINE x == Seed + drawn
           s == (Seed + n) % Wrap
           d == drawn - n
           e == Ahead(x, peer)
<1>1. /\ drawn \in Nat /\ reached \in Nat /\ x \in Int /\ n \in Nat /\ peer \in Numbers
      /\ MaxSilence \in Nat /\ MaxLag \in Nat /\ d \in Int /\ reached <= drawn
  BY TransportAssumption, WrapIsPositive DEF TypeOK, Numbers, BookInv
<1>2. /\ n <= reached /\ reached <= n + MaxLag
      /\ status' = Renewed([known |-> TRUE, peer |-> IF range THEN None ELSE s, video |-> None], window)
      /\ peer' = IF ~range /\ Newer(s, peer) THEN s ELSE peer
      /\ UNCHANGED <<drawn, reached>>
  BY <1>1 DEF ReceiveStatus
<1>3. e \in Numbers /\ e \in Nat /\ peer = (x - e) % Wrap /\ e <= MaxSilence /\ drawn - e <= reached
  BY <1>1, Behind, WrapIsPositive DEF Numbers, ConfirmInv, NumberOf
<1>4. Seed + n = x - d
  BY <1>1, WrapIsPositive DEF Numbers
<1> HIDE DEF e
<1>5. 0 <= d /\ d <= MaxSilence + MaxLag
  BY <1>1, <1>2, <1>3
<1>6. d \in Numbers /\ 2 * d < Wrap /\ 2 * e < Wrap
  BY <1>1, <1>3, <1>5, LagIsSmall
<1>7. s = (x - d) % Wrap
  BY <1>4
<1> HIDE DEF s
<1>8. s \in Numbers /\ Ahead(x, s) = d
  BY <1>1, <1>6, <1>7, AheadOf
<1>9. Newer(s, peer) <=> d < e
  BY <1>1, <1>3, <1>6, <1>7, NewerIsAhead
<1>10. status'.peer = IF range THEN None ELSE s
  BY <1>2 DEF Renewed
<1>11. drawn - d = n
  BY <1>1
<1>12. status'.peer # None => /\ Ahead(Seed + drawn, status'.peer) <= MaxSilence + MaxLag
                              /\ drawn - Ahead(Seed + drawn, status'.peer) \in 0..reached
  BY <1>1, <1>2, <1>5, <1>8, <1>10, <1>11
<1>13. /\ Ahead(Seed + drawn, peer') <= MaxSilence /\ drawn - Ahead(Seed + drawn, peer') \in 0..reached
       /\ drawn - e <= drawn - Ahead(Seed + drawn, peer')
  <2>1. CASE ~range /\ Newer(s, peer)
    BY <1>1, <1>2, <1>3, <1>8, <1>9, <1>11, <2>1
  <2>2. CASE ~(~range /\ Newer(s, peer))
    <3>1. peer' = peer
      BY <1>2, <2>2, Zenon
    <3> QED
      BY <1>1, <1>3, <3>1 DEF ConfirmInv, NumberOf, e
  <2> QED
    BY <2>1, <2>2
<1>14. NumberOf(peer) = drawn - e /\ NumberOf(peer)' = drawn - Ahead(Seed + drawn, peer')
  BY <1>2 DEF NumberOf, Ahead, e
<1> HIDE DEF x, d
<1> QED
  BY <1>2, <1>12, <1>13, <1>14 DEF ConfirmInv, NumberOf, Ahead

LEMMA ConfirmSteps ==
  ASSUME TypeOK, DraftType, StageInv, BookInv, ConfirmInv, Next
  PROVE  ConfirmInv'
<1>1. CASE UNCHANGED <<drawn, peer, status, reached>>
  BY <1>1 DEF ConfirmInv, NumberOf, Ahead
<1>2. CASE \/ Open \/ Handshaken \/ HandshakeFails \/ Acknowledge \/ AckRaises \/ Transmit \/ Resume \/ SendFails
           \/ Registered \/ Leave \/ ReceiveInvalid \/ Film \/ Ended
  <2>1. UNCHANGED <<drawn, peer, status, reached>>
    BY <1>2 DEF Open, Handshaken, HandshakeFails, Acknowledge, AckRaises, Transmit, Resume, SendFails,
       Registered, Leave, ReceiveInvalid, Film, Ended, vars
  <2> QED
    BY <1>1, <2>1
<1>3. ASSUME NEW n, ReceiveKeepaliveAnswer(n) \/ ReceiveChallenge(n)
      PROVE  ConfirmInv'
  <2>1. UNCHANGED <<drawn, peer, status, reached>>
    BY <1>3 DEF ReceiveKeepaliveAnswer, ReceiveChallenge
  <2> QED
    BY <1>1, <2>1
<1>4. ASSUME NEW kind \in {"session_open", "presence", "enable"}, MainSends(kind)
      PROVE  ConfirmInv'
  BY <1>4, ConfirmBuild DEF MainSends, Tasks, Kinds
<1>5. CASE Answer
  BY <1>5, ConfirmBuild DEF Answer, Tasks, Kinds
<1>6. ASSUME NEW kind \in {"stick", "keepalive"}, ControlSends(kind)
      PROVE  ConfirmInv'
  BY <1>6, ConfirmBuild DEF ControlSends, Tasks, Kinds
<1>7. ASSUME NEW n \in 1..MaxVideo, ReceiveVideo(n)
      PROVE  ConfirmInv'
  <2>1. status'.peer = status.peer /\ UNCHANGED <<drawn, peer, reached>>
    BY <1>7 DEF ReceiveVideo, Renewed
  <2> QED
    BY <2>1 DEF ConfirmInv, NumberOf, Ahead
<1>8. CASE Close
  <2>1. status'.peer = None /\ UNCHANGED <<drawn, peer, reached>>
    BY <1>8 DEF Close, NoStatus
  <2> QED
    BY <2>1 DEF ConfirmInv, NumberOf, Ahead
<1>9. ASSUME NEW n \in 1..MaxSends, Arrive(n)
      PROVE  ConfirmInv'
  <2>1. UNCHANGED <<drawn, peer, status>> /\ reached \in Nat /\ reached' \in Int /\ reached <= reached'
    BY <1>9, TransportAssumption DEF Arrive, TypeOK
  <2> QED
    BY <2>1 DEF ConfirmInv, NumberOf, Ahead
<1> QED
  BY <1>2, <1>3, <1>4, <1>5, <1>6, <1>7, <1>8, <1>9, ConfirmStatus DEF Next

-----------------------------------------------------------------------------
(* The camera's video.                                                      *)

\* A sequence number of the video in use, and what is in use with it.
InUse(seq) == seq # None => /\ Ahead(VideoSeed + filmed, seq) <= MaxSilence + MaxLag
                            /\ FrameOf(seq) \in 1..filmed

LEMMA VideoInUse ==
  VideoInv <=> /\ status.video \in {None, window} /\ (~status.known => status.video = None)
               /\ draft.task # "ack" => draft.video = None
               /\ InUse(window) /\ InUse(draft.video) /\ InUse(acked)
               /\ FrameOf(acked) <= FrameOf(window)
               /\ draft.video # None => /\ FrameOf(acked) <= FrameOf(draft.video)
                                        /\ FrameOf(draft.video) <= FrameOf(window)
  BY DEF VideoInv, InUse

\* The steps that concern none of it.
VideoAlone == /\ UNCHANGED <<filmed, window, acked, status>>
              /\ \/ draft'.video = draft.video /\ draft'.task = draft.task
                 \/ draft'.video = None

LEMMA VideoAloneSteps ==
  ASSUME VideoInv, VideoAlone
  PROVE  VideoInv'
<1>1. VideoInv' <=> /\ status'.video \in {None, window'} /\ (~status'.known => status'.video = None)
                    /\ draft'.task # "ack" => draft'.video = None
                    /\ InUse(window)' /\ InUse(draft.video)' /\ InUse(acked)'
                    /\ FrameOf(acked)' <= FrameOf(window)'
                    /\ draft'.video # None => /\ FrameOf(acked)' <= FrameOf(draft.video)'
                                              /\ FrameOf(draft.video)' <= FrameOf(window)'
  BY DEF VideoInv, InUse
<1>2. /\ FrameOf(acked)' = FrameOf(acked) /\ FrameOf(window)' = FrameOf(window)
      /\ InUse(window)' = InUse(window) /\ InUse(acked)' = InUse(acked)
  BY DEF VideoAlone, FrameOf, Unwrapped, Ahead, InUse
<1>3. CASE draft'.video = draft.video /\ draft'.task = draft.task
  <2>1. FrameOf(draft.video)' = FrameOf(draft.video) /\ InUse(draft.video)' = InUse(draft.video)
    BY <1>3 DEF VideoAlone, FrameOf, Unwrapped, Ahead, InUse
  <2> QED
    BY <1>1, <1>2, <1>3, <2>1, VideoInUse DEF VideoAlone
<1>4. CASE draft'.video = None
  BY <1>1, <1>2, <1>4, VideoInUse DEF VideoAlone, InUse
<1> QED
  BY <1>3, <1>4 DEF VideoAlone

LEMMA FilmKeepsNumber ==
  ASSUME TypeOK, StageInv, NEW s \in Numbers \cup {None}, InUse(s), Heard(VideoSeed + filmed + 1, s),
         filmed' = filmed + 1
  PROVE  /\ s # None => /\ Ahead(VideoSeed + filmed', s) <= MaxSilence + MaxLag
                        /\ Unwrapped(filmed', VideoSeed, s) \in 1..filmed'
         /\ Unwrapped(filmed', VideoSeed, s) = FrameOf(s)
<1>1. CASE s = None
  BY <1>1 DEF FrameOf, Unwrapped
<1>2. CASE s # None
  <2> DEFINE y == VideoSeed + filmed
  <2>1. /\ s \in Numbers /\ filmed \in Nat /\ y \in Int /\ VideoSeed + filmed' = y + 1 /\ y + 1 = VideoSeed + filmed + 1
        /\ MaxLag \in Nat /\ MaxSilence \in Nat
    BY <1>2, WrapIsPositive, TransportAssumption DEF StageInv, Numbers
  <2>2. Ahead(y, s) \in Nat /\ Ahead(y + 1, s) = Ahead(y, s) + 1
    BY <1>2, <2>1, OneMore DEF InUse
  <2>3. Ahead(y + 1, s) <= MaxSilence
    BY <1>2, <2>1 DEF Heard
  <2>4. filmed' - Ahead(y + 1, s) = filmed - Ahead(y, s)
    BY <2>1, <2>2
  <2>5. Unwrapped(filmed', VideoSeed, s) = FrameOf(s)
    BY <1>2, <2>1, <2>4 DEF Unwrapped, FrameOf
  <2> HIDE DEF y
  <2> QED
    BY <1>2, <2>1, <2>2, <2>3, <2>5 DEF InUse
<1> QED
  BY <1>1, <1>2

LEMMA VideoFilm ==
  ASSUME TypeOK, DraftType, StageInv, VideoInv, Film
  PROVE  VideoInv' /\ FrameOf(window)' = FrameOf(window) /\ FrameOf(acked)' = FrameOf(acked)
<1>1. /\ window \in Numbers \cup {None} /\ acked \in Numbers \cup {None} /\ draft.video \in Numbers \cup {None}
  BY DEF TypeOK, Numbers, DraftType, Drafts
<1>2. /\ filmed' = filmed + 1 /\ UNCHANGED <<window, acked, draft, status>>
      /\ Heard(VideoSeed + filmed + 1, window) /\ Heard(VideoSeed + filmed + 1, acked)
      /\ Heard(VideoSeed + filmed + 1, draft.video)
  BY DEF Film
<1>3. InUse(window) /\ InUse(acked) /\ InUse(draft.video)
  BY VideoInUse
<1>4. \A s \in Numbers \cup {None} : InUse(s) /\ Heard(VideoSeed + filmed + 1, s) =>
         /\ s # None => /\ Ahead(VideoSeed + filmed', s) <= MaxSilence + MaxLag
                        /\ Unwrapped(filmed', VideoSeed, s) \in 1..filmed'
         /\ Unwrapped(filmed', VideoSeed, s) = FrameOf(s)
  BY <1>2, FilmKeepsNumber
<1>5. /\ \A s \in {window, draft.video, acked} \ {None} :
            /\ Ahead(VideoSeed + filmed', s) <= MaxSilence + MaxLag
            /\ Unwrapped(filmed', VideoSeed, s) \in 1..filmed'
      /\ Unwrapped(filmed', VideoSeed, window) = FrameOf(window)
      /\ Unwrapped(filmed', VideoSeed, acked) = FrameOf(acked)
      /\ Unwrapped(filmed', VideoSeed, draft.video) = FrameOf(draft.video)
  BY <1>1, <1>2, <1>3, <1>4
<1>6. \A s : (Unwrapped(filmed', VideoSeed, s) = (IF s = None THEN 0 ELSE filmed' - Ahead(VideoSeed + filmed', s)))
  BY DEF Unwrapped
<1>7. /\ FrameOf(window)' = FrameOf(window) /\ FrameOf(acked)' = FrameOf(acked)
      /\ FrameOf(draft.video)' = FrameOf(draft.video)
  BY <1>2, <1>5 DEF FrameOf, Unwrapped, Ahead
<1> QED
  BY <1>2, <1>5, <1>7 DEF VideoInv, FrameOf, Unwrapped, Ahead

LEMMA VideoReceived ==
  ASSUME TypeOK, DraftType, StageInv, VideoInv, NEW n \in 1..MaxVideo, ReceiveVideo(n)
  PROVE  VideoInv' /\ FrameOf(window) <= FrameOf(window)'
<1> DEFINE y == VideoSeed + filmed
           s == (VideoSeed + n) % Wrap
           d == filmed - n
           e == Ahead(y, window)
<1>1. /\ filmed \in Nat /\ y \in Int /\ n \in Nat /\ n \in 1..filmed /\ d \in Int /\ MaxSilence \in Nat /\ MaxLag \in Nat
      /\ filmed <= n + MaxLag /\ window \in Numbers \cup {None}
  BY TransportAssumption, WrapIsPositive DEF TypeOK, Numbers, StageInv, ReceiveVideo
<1>2. /\ window' = IF window = None \/ Newer(s, window) THEN s ELSE window
      /\ status' = Renewed(status, window')
      /\ UNCHANGED <<filmed, draft, acked>>
  BY DEF ReceiveVideo
<1>3. VideoSeed + n = y - d
  BY <1>1, WrapIsPositive DEF Numbers
<1>4. 0 <= d /\ d <= MaxSilence + MaxLag /\ d \in Numbers /\ 2 * d < Wrap
  BY <1>1, LagIsSmall
<1>5. s = (y - d) % Wrap
  BY <1>3
<1> HIDE DEF s
<1>6. s \in Numbers /\ Ahead(y, s) = d /\ s # None
  BY <1>1, <1>4, <1>5, AheadOf, NoneIsNoNumber
<1>7. FrameOf(s) = n /\ InUse(s)
  BY <1>1, <1>4, <1>6 DEF FrameOf, Unwrapped, InUse
<1>8. window # None => (Newer(s, window) <=> FrameOf(window) < n)
  <2> SUFFICES ASSUME window # None
               PROVE  Newer(s, window) <=> FrameOf(window) < n
    OBVIOUS
  <2>1. e \in Numbers /\ window = (y - e) % Wrap /\ window \in Numbers
    BY <1>1, Behind
  <2>2. e <= MaxSilence + MaxLag /\ FrameOf(window) = filmed - e
    BY VideoInUse DEF InUse, FrameOf, Unwrapped
  <2>3. e \in Nat
    BY <2>1, WrapIsPositive DEF Numbers
  <2> HIDE DEF e
  <2>4. 2 * e < Wrap
    BY <2>2, <2>3, LagIsSmall
  <2>5. Newer(s, window) <=> d < e
    BY <1>1, <1>4, <1>5, <2>1, <2>4, NewerIsAhead
  <2> QED
    BY <1>1, <2>2, <2>3, <2>5
<1> HIDE DEF e, d, y
<1>9. InUse(window') /\ FrameOf(window) <= FrameOf(window') /\ window' # None /\ FrameOf(window') \in Nat
      /\ FrameOf(window) \in Nat
  <2>1. CASE window = None
    BY <1>1, <1>2, <1>6, <1>7, <2>1 DEF FrameOf, Unwrapped
  <2>2. CASE window # None
    <3>1. FrameOf(window) \in 1..filmed
      BY <2>2, VideoInUse DEF InUse
    <3> QED
      BY <1>1, <1>2, <1>6, <1>7, <1>8, <2>2, <3>1, VideoInUse
  <2> QED
    BY <2>1, <2>2
<1>10. status'.video \in {None, window'} /\ (~status'.known => status'.video = None)
  <2>1. CASE ~status.known
    <3>1. status' = status /\ status.video = None
      BY <1>2, <2>1, VideoInUse DEF Renewed
    <3> QED
      BY <2>1, <3>1
  <2>2. CASE status.known
    <3>1. status' = [status EXCEPT !.video = window']
      BY <1>2, <1>9, <2>2 DEF Renewed
    <3>2. status'.video \in {None, window'}
      BY <3>1
    <3>3. status'.known = status.known
      BY <3>1
    <3> QED
      BY <2>2, <3>2, <3>3
  <2> QED
    BY <2>1, <2>2
<1>11. /\ FrameOf(acked) \in Nat /\ FrameOf(draft.video) \in Nat
  <2>1. \A r : InUse(r) => FrameOf(r) \in Nat
    BY <1>1 DEF InUse, FrameOf, Unwrapped
  <2> QED
    BY <2>1, VideoInUse
<1> DEFINE P == draft.video # None => /\ FrameOf(acked) <= FrameOf(draft.video)
                                      /\ FrameOf(draft.video) <= FrameOf(window')
           Q == status'.video \in {None, window'} /\ (~status'.known => status'.video = None)
<1>12. VideoInv' <=> Q /\ (draft.task # "ack" => draft.video = None)
                       /\ InUse(window') /\ InUse(draft.video) /\ InUse(acked)
                       /\ FrameOf(acked) <= FrameOf(window') /\ P
  BY <1>2 DEF VideoInv, InUse, FrameOf, Unwrapped, Ahead
<1>13. /\ InUse(draft.video) /\ InUse(acked) /\ (draft.task # "ack" => draft.video = None)
       /\ FrameOf(acked) <= FrameOf(window)
       /\ draft.video # None => /\ FrameOf(acked) <= FrameOf(draft.video)
                                /\ FrameOf(draft.video) <= FrameOf(window)
  BY VideoInUse
<1>14. \A a, b, c \in Nat : a <= b /\ b <= c => a <= c
  OBVIOUS
<1>15. FrameOf(acked) <= FrameOf(window')
  BY <1>9, <1>11, <1>13, <1>14
<1>16. draft.video # None => FrameOf(draft.video) <= FrameOf(window')
  BY <1>9, <1>11, <1>13, <1>14
<1>17. P
  BY <1>13, <1>16
<1>18. Q
  BY <1>10
<1>20. FrameOf(window)' = FrameOf(window')
  BY <1>2 DEF FrameOf, Unwrapped, Ahead
<1> HIDE DEF P, Q
<1> QED
  BY <1>20, <1>9, <1>12, <1>13, <1>15, <1>17, <1>18, Zenon

LEMMA VideoSteps ==
  ASSUME TypeOK, DraftType, StageInv, BookInv, VideoInv, Next
  PROVE  VideoInv'
<1>1. CASE \/ Open \/ Handshaken \/ HandshakeFails \/ AckRaises \/ Registered \/ ReceiveInvalid \/ Ended
           \/ Resume \/ SendFails \/ Leave
  <2>1. VideoAlone
    BY <1>1, NoDraftIsDraft DEF VideoAlone, Open, Handshaken, HandshakeFails, AckRaises, Registered, ReceiveInvalid,
       Ended, Resume, SendFails, Leave, vars
  <2> QED
    BY <2>1, VideoAloneSteps
<1>2. ASSUME NEW n, ReceiveKeepaliveAnswer(n) \/ ReceiveChallenge(n) \/ Arrive(n)
      PROVE  VideoInv'
  <2>1. VideoAlone
    BY <1>2 DEF VideoAlone, ReceiveKeepaliveAnswer, ReceiveChallenge, Arrive
  <2> QED
    BY <2>1, VideoAloneSteps
<1>3. ASSUME NEW task \in Tasks, NEW kind \in Kinds, Build(task, kind), UNCHANGED <<filmed, window, acked, status>>
      PROVE  VideoInv'
  <2>1. VideoAlone
    BY <1>3, BuildDrafts DEF VideoAlone
  <2> QED
    BY <2>1, VideoAloneSteps
<1>4. ASSUME NEW kind \in {"session_open", "presence", "enable"}, MainSends(kind)
      PROVE  VideoInv'
  BY <1>3, <1>4 DEF MainSends, Tasks, Kinds
<1>5. CASE Answer
  BY <1>3, <1>5 DEF Answer, Tasks, Kinds
<1>6. ASSUME NEW kind \in {"stick", "keepalive"}, ControlSends(kind)
      PROVE  VideoInv'
  BY <1>3, <1>6 DEF ControlSends, Tasks, Kinds
<1>7. CASE Acknowledge
  <2>1. draft'.task = "ack" /\ draft'.video = status.video /\ UNCHANGED <<filmed, window, acked, status>>
    BY <1>7, AckDrafts DEF Acknowledge
  <2>2. VideoInv' <=> /\ status.video \in {None, window} /\ (~status.known => status.video = None)
                      /\ InUse(window) /\ InUse(status.video) /\ InUse(acked)
                      /\ FrameOf(acked) <= FrameOf(window)
                      /\ status.video # None => /\ FrameOf(acked) <= FrameOf(status.video)
                                                /\ FrameOf(status.video) <= FrameOf(window)
    BY <2>1 DEF VideoInv, InUse, FrameOf, Unwrapped, Ahead
  <2>3. FrameOf(window) \in Nat
    BY VideoInUse DEF InUse, FrameOf, Unwrapped, StageInv
  <2>4. InUse(None)
    BY DEF InUse
  <2> QED
    BY <2>2, <2>3, <2>4, VideoInUse
<1>8. CASE Transmit
  <2>1. draft'.task = draft.task /\ draft'.video = draft.video
    BY <1>8, TransmitDrafts DEF DraftType
  <2>2. UNCHANGED <<filmed, window, status>>
    BY <1>8 DEF Transmit
  <2>3. CASE acked' = acked
    <3>1. VideoAlone
      BY <2>1, <2>2, <2>3 DEF VideoAlone
    <3> QED
      BY <3>1, VideoAloneSteps
  <2>4. CASE acked' = draft.video /\ draft.video # None
    <3>1. VideoInv' <=> /\ status.video \in {None, window} /\ (~status.known => status.video = None)
                        /\ draft.task # "ack" => draft.video = None
                        /\ InUse(window) /\ InUse(draft.video)
                        /\ FrameOf(draft.video) <= FrameOf(window)
                        /\ FrameOf(draft.video) <= FrameOf(draft.video)
      BY <2>1, <2>2, <2>4 DEF VideoInv, InUse, FrameOf, Unwrapped, Ahead
    <3>2. FrameOf(draft.video) \in Nat
      BY VideoInUse DEF InUse, FrameOf, Unwrapped, StageInv
    <3> QED
      BY <2>4, <3>1, <3>2, VideoInUse
  <2> QED
    BY <1>8, <2>3, <2>4 DEF Transmit
<1>9. CASE Close
  <2>1. status'.video = None /\ draft'.video = None /\ draft'.task = "none" /\ UNCHANGED <<filmed, window, acked>>
    BY <1>9, NoDraftIsDraft DEF Close, NoStatus
  <2>2. VideoInv' <=> InUse(window) /\ InUse(acked) /\ FrameOf(acked) <= FrameOf(window)
    BY <2>1 DEF VideoInv, InUse, FrameOf, Unwrapped, Ahead
  <2> QED
    BY <2>2, VideoInUse
<1>10. ASSUME NEW n \in 0..MaxSends, NEW range \in BOOLEAN, ReceiveStatus(n, range)
       PROVE  VideoInv'
  <2>1. UNCHANGED <<filmed, window, acked, draft>>
    BY <1>10 DEF ReceiveStatus
  <2>2. status'.video \in {None, window} /\ status'.known
    <3> DEFINE fresh == [known |-> TRUE, peer |-> IF range THEN None ELSE (Seed + n) % Wrap, video |-> None]
    <3>1. status' = Renewed(fresh, window)
      BY <1>10 DEF ReceiveStatus
    <3>2. CASE window = None
      BY <3>1, <3>2 DEF Renewed
    <3>3. CASE window # None
      <4>1. status' = [fresh EXCEPT !.video = window]
        BY <3>1, <3>3 DEF Renewed
      <4> QED
        BY <4>1
    <3> QED
      BY <3>2, <3>3
  <2>3. VideoInv' <=> /\ status'.video \in {None, window} /\ (~status'.known => status'.video = None)
                      /\ draft.task # "ack" => draft.video = None
                      /\ InUse(window) /\ InUse(draft.video) /\ InUse(acked)
                      /\ FrameOf(acked) <= FrameOf(window)
                      /\ draft.video # None => /\ FrameOf(acked) <= FrameOf(draft.video)
                                               /\ FrameOf(draft.video) <= FrameOf(window)
    BY <2>1 DEF VideoInv, InUse, FrameOf, Unwrapped, Ahead
  <2> QED
    BY <2>2, <2>3, VideoInUse
<1> QED
  BY <1>1, <1>2, <1>4, <1>5, <1>6, <1>7, <1>8, <1>9, <1>10, VideoFilm, VideoReceived DEF Next

-----------------------------------------------------------------------------
(* Keepalives.                                                              *)

\* Taking the remainder now or later is the same.
LEMMA RemainderLater ==
  ASSUME NEW x \in Int
  PROVE  ((x % Wrap) + 1) % Wrap = (x + 1) % Wrap
  BY WrapIsPositive, NextRemainder

LEMMA FewerStepsDiffer ==
  ASSUME NEW s \in Numbers, NEW j \in Numbers, j # 0
  PROVE  (s + j) % Wrap # s
<1>1. s + j \in Int /\ s + j - Wrap \in Int
  BY WrapIsPositive DEF Numbers
<1>2. CASE s + j < Wrap
  <2>1. s + j \in Numbers /\ s + j = Wrap * 0 + (s + j)
    BY <1>2, WrapIsPositive DEF Numbers
  <2>2. (s + j) % Wrap = s + j
    BY <1>1, <2>1, Remainder
  <2> QED
    BY <2>2, WrapIsPositive DEF Numbers
<1>3. CASE s + j >= Wrap
  <2>1. s + j - Wrap \in Numbers /\ s + j = Wrap * 1 + (s + j - Wrap)
    BY <1>3, WrapIsPositive DEF Numbers
  <2>2. (s + j) % Wrap = s + j - Wrap
    BY <1>1, <2>1, Remainder
  <2> QED
    BY <2>2, WrapIsPositive DEF Numbers
<1> QED
  BY <1>1, <1>2, <1>3, WrapIsPositive DEF Numbers

\* Nothing new is owed and nothing is answered.
LEMMA KeepaliveQuiet ==
  ASSUME TypeOK, KeepaliveInv, UNCHANGED <<answered, keepalives>>, Due' \subseteq Due, IsFiniteSet(awaited'),
         left' \in Nat, left <= left', ctl' = "off" => ctl = "off",
         ctl' = "on" => \A k \in keepalives : \E j \in 0..drawn' + 1 : Since(k, j)'
  PROVE  KeepaliveInv'
<1>1. IsFiniteSet(Due)
  BY FS_Subset DEF KeepaliveInv, Due
<1>2. IsFiniteSet(Due') /\ Cardinality(Due') <= Cardinality(Due)
  BY <1>1, FS_Subset
<1>3. Cardinality(Due) \in Nat /\ Cardinality(Due') \in Nat /\ Cardinality(keepalives) \in Nat /\ answered \in Nat
  BY <1>1, <1>2, FS_CardinalityType DEF KeepaliveInv, TypeOK
<1>4. answered' + Cardinality(Due') <= Cardinality(keepalives')
  BY <1>2, <1>3 DEF KeepaliveInv
<1>5. \A k \in keepalives' : k[1] <= left'
  <2>1. \A k \in keepalives : k[1] \in Nat
    BY DEF TypeOK
  <2> QED
    BY <2>1 DEF KeepaliveInv, TypeOK
<1> QED
  BY <1>4, <1>5 DEF KeepaliveInv

\* Another datagram is drafted, but no keepalive.
LEMMA KeepaliveBuild ==
  ASSUME TypeOK, DraftType, KeepaliveInv, NEW task \in Tasks, NEW kind \in Kinds \ {"keepalive"},
         Build(task, kind), task # "ack", UNCHANGED <<answered, keepalives, awaited, left, ctl, duml>>
  PROVE  KeepaliveInv'
<1>1. /\ draft.kind = "none" /\ draft.task = "none" /\ draft'.kind = kind /\ draft'.task = task
      /\ drawn' = drawn + 1 /\ drawn \in Nat /\ left \in Nat
  BY BuildDrafts DEF TypeOK
<1>2. Due' = Due
  BY <1>1 DEF Due, Drafted
<1>3. ASSUME ctl = "on", NEW k \in keepalives
      PROVE  \E j \in 0..drawn' + 1 : Since(k, j)'
  <2>1. PICK j \in 0..drawn + 1 : Since(k, j)
    BY <1>3 DEF KeepaliveInv
  <2>2. k[1] \in Nat
    BY DEF TypeOK
  <2>3. ~Operator /\ Operator' /\ j # 0
    BY <1>1, <2>1 DEF Operator, Since, Tasks
  <2>4. j \in 0..drawn' + 1 /\ j <= drawn - k[1] + 1 /\ drawn - k[1] + 1 = drawn' - k[1] + 0
    BY <1>1, <2>1, <2>2, <2>3 DEF Since
  <2>5. Since(k, j)'
    BY <2>1, <2>3, <2>4 DEF Since
  <2> QED
    BY <2>4, <2>5
<1> QED
  BY <1>1, <1>2, <1>3, KeepaliveQuiet DEF KeepaliveInv

\* A keepalive is awaited before it is sent.
LEMMA KeepaliveDrafted ==
  ASSUME TypeOK, DraftType, BookInv, KeepaliveInv, ControlSends("keepalive")
  PROVE  KeepaliveInv'
<1>0. /\ "ctl" \in Tasks /\ "keepalive" \in Kinds /\ Build("ctl", "keepalive") /\ awaited' = awaited \cup {duml}
      /\ UNCHANGED <<answered, keepalives, left, ctl, duml>>
  BY DEF ControlSends, Tasks, Kinds
<1>1. /\ draft.kind = "none" /\ draft.task = "none" /\ draft'.kind = "keepalive" /\ draft'.task = "ctl"
      /\ ~draft'.sent /\ draft'.duml = duml /\ drawn' = drawn + 1 /\ drawn \in Nat /\ left \in Nat
  BY <1>0, BuildDrafts DEF TypeOK
<1>2. Due' \subseteq Due /\ IsFiniteSet(awaited')
  <2>1. Due' = awaited' \ {duml} /\ Due = awaited
    BY <1>1 DEF Due, Drafted
  <2> QED
    BY <1>0, <2>1, FS_AddElement DEF KeepaliveInv
<1>3. ASSUME ctl = "on", NEW k \in keepalives
      PROVE  \E j \in 0..drawn' + 1 : Since(k, j)'
  <2>1. PICK j \in 0..drawn + 1 : Since(k, j)
    BY <1>3 DEF KeepaliveInv
  <2>2. k[1] \in Nat
    BY DEF TypeOK
  <2>3. ~Operator /\ Operator' /\ j # 0
    BY <1>1, <2>1 DEF Operator, Since
  <2>4. j \in 0..drawn' + 1 /\ j <= drawn - k[1] + 1 /\ drawn - k[1] + 1 = drawn' - k[1] + 0
    BY <1>1, <2>1, <2>2, <2>3 DEF Since
  <2>5. Since(k, j)'
    BY <1>0, <2>1, <2>3, <2>4 DEF Since
  <2> QED
    BY <2>4, <2>5
<1> QED
  BY <1>0, <1>1, <1>2, <1>3, KeepaliveQuiet

LEMMA KeepaliveSent ==
  ASSUME TypeOK, DraftType, BookInv, StageInv, KeepaliveInv, Transmit, draft.kind = "keepalive"
  PROVE  KeepaliveInv'
<1> DEFINE new == <<draft.number, draft.duml>>
<1>1. /\ ~draft.sent /\ left' = draft.number /\ keepalives' = keepalives \cup {new}
      /\ UNCHANGED <<drawn, duml, ctl, awaited, answered>>
  BY DEF Transmit
<1>2. Operator /\ draft.number = drawn /\ draft.duml = duml /\ left < drawn /\ drawn \in Nat /\ left \in Nat
      /\ duml \in Numbers
  BY <1>1, KindTellsTask DEF Operator, BookInv, TypeOK, Numbers
<1>3. draft'.sent /\ draft'.kind = "keepalive" /\ draft'.number = draft.number /\ Operator'
  BY <1>2, TransmitDrafts DEF DraftType, Operator
<1>4. new \notin keepalives
  BY <1>2 DEF KeepaliveInv
<1>5. IsFiniteSet(keepalives') /\ Cardinality(keepalives') = Cardinality(keepalives) + 1
  BY <1>1, <1>4, FS_AddElement DEF KeepaliveInv
<1>6. Due' = awaited /\ Due = awaited \ {draft.duml}
  BY <1>1, <1>3 DEF Due, Drafted
<1>7. IsFiniteSet(Due) /\ IsFiniteSet(Due') /\ Cardinality(Due') <= Cardinality(Due) + 1
  BY <1>6, FS_RemoveElement, FS_Subset, FS_CardinalityType DEF KeepaliveInv
<1>8. answered' + Cardinality(Due') <= Cardinality(keepalives')
  <2>1. /\ Cardinality(Due) \in Nat /\ Cardinality(Due') \in Nat /\ Cardinality(keepalives) \in Nat /\ answered \in Nat
        /\ answered + Cardinality(Due) <= Cardinality(keepalives)
    BY <1>7, FS_CardinalityType DEF KeepaliveInv, TypeOK
  <2> QED
    BY <1>1, <1>5, <1>7, <2>1
<1>9. \A k \in keepalives' : k[1] <= left'
  <2>1. \A k \in keepalives : k[1] \in Nat /\ k[1] <= left
    BY DEF KeepaliveInv, TypeOK
  <2> QED
    BY <1>1, <1>2, <2>1
<1>10. ASSUME NEW k \in keepalives'
       PROVE  \E j \in 0..drawn' + 1 : Since(k, j)'
  <2>1. ctl = "on"
    BY DEF StageInv
  <2>2. CASE k \in keepalives
    <3>1. PICK j \in 0..drawn + 1 : Since(k, j)
      BY <2>1, <2>2 DEF KeepaliveInv
    <3>2. Since(k, j)'
      BY <1>1, <1>2, <1>3, <3>1 DEF Since
    <3> QED
      BY <1>1, <3>2
  <2>3. CASE k = new
    <3>1. k[1] = drawn /\ k[2] = duml
      BY <1>2, <2>3
    <3>2. duml = (duml + 0) % Wrap
      <4>1. duml + 0 = Wrap * 0 + duml /\ duml + 0 \in Int
        BY <1>2, WrapIsPositive DEF Numbers
      <4> QED
        BY <1>2, <4>1, Remainder
    <3>3. Since(k, 0)'
      BY <1>1, <1>2, <1>3, <3>1, <3>2 DEF Since
    <3> QED
      BY <1>1, <1>2, <3>3
  <2> QED
    BY <1>1, <2>2, <2>3
<1>11. IsFiniteSet(awaited') /\ ctl' # "off"
  BY <1>1 DEF KeepaliveInv, StageInv
<1> QED
  BY <1>5, <1>8, <1>9, <1>10, <1>11 DEF KeepaliveInv

\* An answer is to a keepalive that is still awaited.
LEMMA KeepaliveAnswered ==
  ASSUME TypeOK, DraftType, BookInv, StageInv, KeepaliveInv, NEW d, ReceiveKeepaliveAnswer(d)
  PROVE  KeepaliveInv'
<1>1. /\ Sent(d) /\ d \in awaited /\ awaited' = awaited \ {d} /\ answered' = answered + 1
      /\ UNCHANGED <<draft, drawn, left, keepalives, ctl, duml>>
  BY DEF ReceiveKeepaliveAnswer
<1>2. d \in Due
  <2>1. CASE Drafted
    <3>1. ctl = "on" /\ Operator /\ draft.duml = duml /\ drawn \in Nat
      BY <2>1, KindTellsTask DEF Drafted, StageInv, Operator, BookInv, TypeOK
    <3>2. PICK k \in keepalives : k[2] = d /\ drawn - k[1] <= MaxSilence
      BY <1>1 DEF Sent
    <3>3. PICK j \in 0..drawn + 1 : Since(k, j)
      BY <3>1, <3>2 DEF KeepaliveInv
    <3>4. k[1] \in Nat /\ k[2] \in Numbers /\ MaxSilence \in Nat /\ MaxLag \in Nat
      BY TransportAssumption DEF TypeOK, Numbers
    <3>5. j # 0 /\ j <= MaxSilence
      BY <2>1, <3>1, <3>2, <3>3, <3>4 DEF Since, Drafted
    <3>6. j \in Numbers
      BY <3>1, <3>4, <3>5, LagIsSmall
    <3>7. duml # d
      BY <3>2, <3>3, <3>4, <3>5, <3>6, FewerStepsDiffer DEF Since
    <3> QED
      BY <1>1, <2>1, <3>1, <3>7 DEF Due
  <2>2. CASE ~Drafted
    BY <1>1, <2>2 DEF Due
  <2> QED
    BY <2>1, <2>2
<1>3. Due' = Due \ {d}
  BY <1>1 DEF Due, Drafted
<1>4. IsFiniteSet(Due) /\ IsFiniteSet(awaited')
  BY <1>1, FS_Subset, FS_RemoveElement DEF KeepaliveInv, Due
<1>5. Cardinality(Due') = Cardinality(Due) - 1
  BY <1>2, <1>3, <1>4, FS_RemoveElement
<1>6. answered' + Cardinality(Due') <= Cardinality(keepalives')
  <2>1. /\ Cardinality(Due) \in Nat /\ Cardinality(keepalives) \in Nat /\ answered \in Nat
        /\ answered + Cardinality(Due) <= Cardinality(keepalives)
    BY <1>4, FS_CardinalityType DEF KeepaliveInv, TypeOK
  <2> QED
    BY <1>1, <1>5, <2>1
<1>7. \A k, j : Since(k, j)' = Since(k, j)
  BY <1>1 DEF Since, Operator
<1> QED
  BY <1>1, <1>4, <1>6, <1>7 DEF KeepaliveInv

\* The sender goes on, and so does the DUML number.
LEMMA KeepaliveResumed ==
  ASSUME TypeOK, DraftType, BookInv, StageInv, KeepaliveInv, Resume
  PROVE  KeepaliveInv'
<1>1. /\ draft.sent /\ draft' = NoDraft /\ UNCHANGED <<drawn, left, keepalives, awaited, answered>>
      /\ ctl' = IF draft.kind = "enable" THEN "on" ELSE ctl
  BY DEF Resume
<1>2. draft'.kind = "none" /\ ~Operator'
  BY <1>1, NoDraftIsDraft DEF Operator
<1>3. Due' = Due
  BY <1>1, <1>2 DEF Due, Drafted
<1>4. Operator <=> draft.kind # "ack"
  BY KindTellsTask DEF Resume, Operator
<1>5. ASSUME ctl' = "on", NEW k \in keepalives
      PROVE  \E j \in 0..drawn' + 1 : Since(k, j)'
  <2>1. ctl = "on"
    BY <1>1, <1>5 DEF StageInv, KeepaliveInv
  <2>2. PICK j \in 0..drawn + 1 : Since(k, j)
    BY <2>1 DEF KeepaliveInv
  <2>3. k[1] \in Nat /\ k[2] \in Numbers /\ drawn \in Nat
    BY DEF TypeOK, Numbers
  <2>4. CASE draft.kind = "ack"
    <3>1. duml' = duml /\ ~Operator /\ j # 0
      BY <1>4, <2>2, <2>4 DEF Resume, Booked, Since
    <3>2. Since(k, j)'
      BY <1>1, <1>2, <2>2, <3>1 DEF Since
    <3> QED
      BY <1>1, <2>2, <3>2
  <2>5. CASE draft.kind # "ack"
    <3>1. duml' = (duml + 1) % Wrap
      BY <2>5 DEF Resume, Booked
    <3>2. duml = (k[2] + j) % Wrap /\ j <= drawn - k[1]
      BY <1>4, <2>2, <2>3, <2>5 DEF Since
    <3>3. k[2] + j \in Int /\ (k[2] + j) + 1 = k[2] + (j + 1)
      BY <2>2, <2>3, WrapIsPositive DEF Numbers
    <3>4. duml' = (k[2] + (j + 1)) % Wrap
      BY <3>1, <3>2, <3>3, RemainderLater
    <3>5. j + 1 \in 0..drawn + 1 /\ j + 1 <= drawn - k[1] + 1 /\ j + 1 # 0
      BY <2>2, <2>3, <3>2
    <3>6. Since(k, j + 1)'
      BY <1>1, <1>2, <3>4, <3>5 DEF Since
    <3> QED
      BY <1>1, <3>5, <3>6
  <2> QED
    BY <2>4, <2>5
<1>6. left' \in Nat /\ left <= left' /\ IsFiniteSet(awaited') /\ (ctl' = "off" => ctl = "off")
  BY <1>1 DEF TypeOK, KeepaliveInv
<1> QED
  BY <1>1, <1>3, <1>5, <1>6, KeepaliveQuiet

\* A draft that is given up takes its keepalive along.
LEMMA KeepaliveGivenUp ==
  ASSUME TypeOK, DraftType, BookInv, StageInv, KeepaliveInv, SendFails \/ Leave \/ Close
  PROVE  KeepaliveInv'
<1>1. UNCHANGED <<drawn, left, keepalives, answered, duml>>
  BY DEF SendFails, Leave, Close
<1>2. (draft'.kind = "none" /\ ~Operator') \/ (draft' = draft /\ awaited' = awaited)
  BY NoDraftIsDraft DEF SendFails, Leave, Close, Operator
<1>3. IsFiniteSet(awaited')
  <2>1. awaited' \subseteq awaited
    BY DEF SendFails, Leave, Close, Withdrawn
  <2> QED
    BY <2>1, FS_Subset DEF KeepaliveInv
<1>4. Due' \subseteq Due
  <2>1. CASE draft' = draft /\ awaited' = awaited
    BY <2>1 DEF Due, Drafted
  <2>2. CASE draft' # draft /\ draft'.kind = "none"
    <3>1. Due' = awaited'
      BY <2>2 DEF Due, Drafted
    <3>2. CASE SendFails \/ Leave
      <4>1. awaited' = Withdrawn
        BY <2>2, <3>2 DEF SendFails, Leave
      <4> QED
        BY <3>1, <4>1 DEF Withdrawn, Due, Drafted
    <3>3. CASE Close
      <4>1. draft.kind # "keepalive" /\ awaited' = awaited
        BY <3>3, KindTellsTask, NoDraftIsDraft DEF Close
      <4> QED
        BY <3>1, <4>1 DEF Due, Drafted
    <3> QED
      BY <3>2, <3>3
  <2>3. CASE draft' = draft /\ draft'.kind = "none"
    <3>1. awaited' \subseteq awaited
      BY DEF SendFails, Leave, Close, Withdrawn
    <3> QED
      BY <2>3, <3>1 DEF Due, Drafted
  <2> QED
    BY <1>2, <2>1, <2>2, <2>3
<1>5. ctl' = "off" => ctl = "off"
  BY KindTellsTask DEF SendFails, Leave, Close
<1>6. ASSUME ctl' = "on", NEW k \in keepalives
      PROVE  \E j \in 0..drawn' + 1 : Since(k, j)'
  <2>1. SendFails /\ ctl = "on"
    BY <1>6 DEF SendFails, Leave, Close
  <2>2. PICK j \in 0..drawn + 1 : Since(k, j)
    BY <2>1 DEF KeepaliveInv
  <2>3. j # 0 /\ draft'.kind = "none" /\ ~Operator'
    BY <2>1, <2>2, NoDraftIsDraft DEF SendFails, Since, Operator
  <2>4. k[1] \in Nat /\ drawn \in Nat
    BY DEF TypeOK
  <2>5. Since(k, j)'
    BY <1>1, <2>2, <2>3, <2>4 DEF Since
  <2> QED
    BY <1>1, <2>2, <2>5
<1>7. left' \in Nat /\ left <= left'
  BY <1>1 DEF TypeOK
<1> QED
  BY <1>1, <1>3, <1>4, <1>5, <1>6, <1>7, KeepaliveQuiet

\* The steps that touch neither the draft nor what is awaited.
LEMMA KeepaliveElsewhere ==
  ASSUME TypeOK, KeepaliveInv, ctl' = ctl,
         UNCHANGED <<drawn, left, keepalives, awaited, answered, duml, draft>>
  PROVE  KeepaliveInv'
<1>1. \A k, j : Since(k, j)' = Since(k, j)
  BY DEF Since, Operator
<1>2. Due' = Due
  BY DEF Due, Drafted
<1>3. left' \in Nat /\ left <= left'
  BY DEF TypeOK
<1> QED
  BY <1>1, <1>2, <1>3, KeepaliveQuiet DEF KeepaliveInv

\* An acknowledgement has no number, another datagram is no keepalive.
LEMMA KeepaliveOthers ==
  ASSUME TypeOK, DraftType, BookInv, StageInv, KeepaliveInv,
         Acknowledge \/ (Transmit /\ draft.kind # "keepalive")
  PROVE  KeepaliveInv'
<1>1. UNCHANGED <<drawn, keepalives, awaited, answered, duml, ctl>>
  BY DEF Acknowledge, Transmit
<1>2. Operator' = Operator /\ draft.kind # "keepalive" /\ draft'.kind # "keepalive"
  <2>1. CASE Acknowledge
    BY <2>1, AckDrafts DEF Operator
  <2>2. CASE Transmit /\ draft.kind # "keepalive"
    BY <2>2, TransmitDrafts DEF Operator, DraftType
  <2> QED
    BY <2>1, <2>2
<1>3. Due' = Due
  BY <1>1, <1>2 DEF Due, Drafted
<1>4. \A k, j : Since(k, j) => Since(k, j)'
  BY <1>1, <1>2 DEF Since
<1>5. left' \in Nat /\ left <= left'
  <2>1. CASE Acknowledge
    BY <2>1 DEF Acknowledge, TypeOK
  <2>2. CASE Transmit /\ draft.kind = "ack"
    BY <2>2 DEF Transmit, TypeOK
  <2>3. CASE Transmit /\ draft.kind # "ack"
    BY <2>3, KindTellsTask DEF Transmit, TypeOK, BookInv
  <2> QED
    BY <2>1, <2>2, <2>3
<1>6. ctl' = "on" => \A k \in keepalives : \E j \in 0..drawn' + 1 : Since(k, j)'
  BY <1>1, <1>4 DEF KeepaliveInv
<1>7. IsFiniteSet(awaited')
  BY <1>1 DEF KeepaliveInv
<1> QED
  BY <1>1, <1>3, <1>5, <1>6, <1>7, KeepaliveQuiet

LEMMA KeepaliveSteps ==
  ASSUME TypeOK, DraftType, StageInv, BookInv, KeepaliveInv, Next
  PROVE  KeepaliveInv'
<1>1. CASE Open \/ Handshaken \/ HandshakeFails \/ AckRaises \/ Registered \/ ReceiveInvalid \/ Film \/ Ended
  <2>1. UNCHANGED <<ctl, drawn, left, keepalives, awaited, answered, duml, draft>>
    BY <1>1 DEF Open, Handshaken, HandshakeFails, AckRaises, Registered, ReceiveInvalid, Film, Ended, vars
  <2> QED
    BY <2>1, KeepaliveElsewhere
<1>2. ASSUME NEW n, NEW range, ReceiveStatus(n, range) \/ ReceiveVideo(n) \/ ReceiveChallenge(n) \/ Arrive(n)
      PROVE  KeepaliveInv'
  <2>1. UNCHANGED <<ctl, drawn, left, keepalives, awaited, answered, duml, draft>>
    BY <1>2 DEF ReceiveStatus, ReceiveVideo, ReceiveChallenge, Arrive
  <2> QED
    BY <2>1, KeepaliveElsewhere
<1>3. ASSUME NEW kind \in {"session_open", "presence", "enable"}, MainSends(kind)
      PROVE  KeepaliveInv'
  BY <1>3, KeepaliveBuild DEF MainSends, Tasks, Kinds
<1>4. CASE Answer
  BY <1>4, KeepaliveBuild DEF Answer, Tasks, Kinds
<1>5. CASE ControlSends("stick")
  BY <1>5, KeepaliveBuild DEF ControlSends, Tasks, Kinds
<1>6. ASSUME NEW kind \in {"stick", "keepalive"}, ControlSends(kind)
      PROVE  KeepaliveInv'
  BY <1>5, <1>6, KeepaliveDrafted
<1> QED
  BY <1>1, <1>2, <1>3, <1>4, <1>6, KeepaliveSent, KeepaliveAnswered, KeepaliveResumed, KeepaliveGivenUp,
     KeepaliveOthers DEF Next

-----------------------------------------------------------------------------
(* The registration, and the one enable.                                    *)

LEMMA WelcomeSteps ==
  ASSUME TypeOK, DraftType, StageInv, BookInv, WelcomeInv, Next
  PROVE  WelcomeInv'
<1> USE DEF WelcomeInv
<1>0. /\ enabled \in Nat /\ enables \in Nat /\ NoChallenge[1] = 0
      /\ reply \in Challenges \cup {NoChallenge} /\ NoChallenge \notin Challenges
  BY TransportAssumption DEF TypeOK, StageInv, NoChallenge
<1>1. CASE Open \/ Handshaken \/ HandshakeFails
  <2>1. draft.kind = "none" /\ draft' = draft /\ UNCHANGED <<enabled, enables, registered, welcomed, reply, keys>>
    BY <1>1, KindTellsTask DEF DraftType, Open, Handshaken, HandshakeFails
  <2> QED
    BY <1>0, <1>1, <2>1 DEF Open, Handshaken, HandshakeFails, Welcomes
<1>2. CASE AckRaises \/ Registered \/ ReceiveInvalid \/ Film \/ Ended
  BY <1>0, <1>2 DEF AckRaises, Registered, ReceiveInvalid, Film, Ended, vars, Welcomes
<1>3. ASSUME NEW n, NEW range, ReceiveStatus(n, range) \/ ReceiveVideo(n) \/ ReceiveKeepaliveAnswer(n) \/ Arrive(n)
      PROVE  WelcomeInv'
  BY <1>0, <1>3 DEF ReceiveStatus, ReceiveVideo, ReceiveKeepaliveAnswer, Arrive, Welcomes
<1>4. ASSUME NEW c \in Challenges, ReceiveChallenge(c)
      PROVE  WelcomeInv'
  <2>1. /\ reply = NoChallenge /\ link \in {"open", "leaving"}
        /\ UNCHANGED <<draft, link, stage, welcomed, enabled, enables>>
    BY <1>4 DEF ReceiveChallenge, Listening, Alive
  <2>2. draft.kind # "registration"
    BY <2>1
  <2>3. CASE c \in keys
    <3>1. c[1] = 130 => welcomed
      BY <1>0, <2>1, <2>3
    <3>2. registered' = (registered \/ (c[1] = 130)) /\ keys' = keys /\ reply' = reply
      BY <1>4, <2>3, Zenon DEF ReceiveChallenge
    <3>3. registered \/ stage \in {"enabling", "serving"} \/ enables = 1 => welcomed
      BY Zenon
    <3>4. registered' => welcomed
      BY <3>1, <3>2, <3>3, Zenon
    <3>5. Welcomes' = Welcomes /\ welcomed' = welcomed
      BY <2>1, <3>2 DEF Welcomes
    <3> QED
      <4>1. enabled' <= 1 /\ (draft'.kind = "enable" => enabled' = 1) /\ enables' <= IF draft'.kind = "enable" /\ ~draft'.sent THEN 0 ELSE enabled'
        BY <2>1
      <4>2. (draft'.kind = "registration" => reply' # NoChallenge) /\ (Welcomes' /\ draft'.sent => welcomed')
        BY <2>1, <2>2, <3>5 DEF Welcomes
      <4>3. registered' \/ stage' \in {"enabling", "serving"} \/ enables' = 1 => welcomed'
        <5>1. registered' \/ stage' \in {"enabling", "serving"} \/ enables' = 1
                 => registered' \/ registered \/ stage \in {"enabling", "serving"} \/ enables = 1
          BY <2>1
        <5>2. welcomed' = welcomed
          BY <2>1
        <5> QED
          BY <3>3, <3>4, <5>1, <5>2, Zenon
      <4>4. \A k \in keys' : k[1] = 130 => welcomed' \/ reply' = k \/ (link' = "closed" /\ stage' = "ended")
        <5>1. \A k \in keys : k[1] = 130 => welcomed \/ reply = k \/ (link = "closed" /\ stage = "ended")
          BY Zenon
        <5>2. keys' = keys /\ reply' = reply /\ link' = link /\ stage' = stage /\ welcomed' = welcomed
          BY <2>1, <3>2
        <5> QED
          BY <5>1, <5>2, Zenon
      <4> QED
        BY <4>1, <4>2, <4>3, <4>4
  <2>4. CASE c \notin keys
    <3>1. keys' \in {{c}, keys \cup {c}} /\ reply' = c /\ registered' = registered
      BY <1>4, <2>4 DEF ReceiveChallenge
    <3>2. \A k \in keys : k[1] = 130 => welcomed
      BY <1>0, <2>1
    <3> QED
      BY <1>0, <2>1, <2>2, <3>1, <3>2 DEF Welcomes
  <2> QED
    BY <2>3, <2>4
<1>5. ASSUME NEW kind \in {"session_open", "presence", "enable"}, MainSends(kind)
      PROVE  WelcomeInv'
  <2>1. /\ "main" \in Tasks /\ kind \in Kinds /\ Build("main", kind)
        /\ UNCHANGED <<link, stage, enables, registered, welcomed, reply, keys>>
        /\ IF kind = "enable" THEN stage = "enabling" /\ enabled = 0 /\ enabled' = 1 ELSE enabled' = enabled
    BY <1>0, <1>5 DEF Tasks, Kinds, MainSends
  <2>2. draft.kind = "none" /\ draft'.kind = kind /\ ~draft'.sent
    BY <2>1, BuildDrafts
  <2> QED
    BY <1>0, <2>1, <2>2 DEF Welcomes
<1>6. CASE Answer
  <2>1. /\ "recv" \in Tasks /\ "registration" \in Kinds /\ Build("recv", "registration") /\ reply # NoChallenge
        /\ UNCHANGED <<link, stage, enabled, enables, registered, welcomed, reply, keys>>
    BY <1>6 DEF Tasks, Kinds, Answer
  <2>2. draft.kind = "none" /\ draft'.kind = "registration" /\ ~draft'.sent
    BY <2>1, BuildDrafts
  <2> QED
    BY <1>0, <2>1, <2>2 DEF Welcomes
<1>7. ASSUME NEW kind \in {"stick", "keepalive"}, ControlSends(kind)
      PROVE  WelcomeInv'
  <2>1. /\ "ctl" \in Tasks /\ kind \in Kinds /\ Build("ctl", kind)
        /\ UNCHANGED <<link, stage, enabled, enables, registered, welcomed, reply, keys>>
    BY <1>7 DEF Tasks, Kinds, ControlSends
  <2>2. draft.kind = "none" /\ draft'.kind = kind /\ ~draft'.sent
    BY <2>1, BuildDrafts
  <2> QED
    BY <1>0, <2>1, <2>2 DEF Welcomes
<1>8. CASE Acknowledge
  <2>1. UNCHANGED <<link, stage, enabled, enables, registered, welcomed, reply, keys>>
    BY <1>8 DEF Acknowledge
  <2>2. draft.kind = "none" /\ draft'.kind = "ack" /\ ~draft'.sent
    BY <1>8, AckDrafts
  <2> QED
    BY <1>0, <2>1, <2>2 DEF Welcomes
<1>9. CASE Transmit
  <2>1. /\ UNCHANGED <<link, stage, enabled, registered, reply, keys>> /\ ~draft.sent
        /\ draft'.sent /\ draft'.kind = draft.kind
    BY <1>9, TransmitDrafts DEF Transmit, DraftType
  <2>2. CASE draft.kind = "ack"
    BY <1>0, <1>9, <2>1, <2>2 DEF Transmit, Welcomes
  <2>3. CASE draft.kind = "enable"
    <3>1. stage = "enabling" /\ enables = 0
      BY <1>0, <2>1, <2>3 DEF StageInv
    <3>2. enables' = 1 /\ welcomed' = (welcomed \/ Welcomes) /\ welcomed
      BY <1>9, <2>3, <3>1 DEF Transmit
    <3> QED
      BY <1>0, <2>1, <2>3, <3>2 DEF Welcomes
  <2>4. CASE draft.kind \notin {"ack", "enable"}
    <3>1. enables' = enables /\ welcomed' = (welcomed \/ Welcomes)
      BY <1>9, <2>4 DEF Transmit
    <3> QED
      <4>1. (welcomed => welcomed') /\ (Welcomes' => welcomed') /\ Welcomes' = Welcomes
        BY <2>1, <3>1, Zenon DEF Welcomes
      <4>2. registered' \/ stage' \in {"enabling", "serving"} \/ enables' = 1 => welcomed'
        <5>1. registered \/ stage \in {"enabling", "serving"} \/ enables = 1 => welcomed
          BY Zenon
        <5> QED
          BY <2>1, <3>1, <4>1, <5>1, Zenon
      <4>3. \A c \in keys' : c[1] = 130 => welcomed' \/ reply' = c \/ (link' = "closed" /\ stage' = "ended")
        <5>1. \A c \in keys : c[1] = 130 => welcomed \/ reply = c \/ (link = "closed" /\ stage = "ended")
          BY Zenon
        <5> QED
          BY <2>1, <4>1, <5>1, Zenon
      <4> QED
        BY <2>1, <2>4, <3>1, <4>1, <4>2, <4>3
  <2> QED
    BY <2>2, <2>3, <2>4
<1>10. CASE Resume
  <2>1. /\ draft.sent /\ draft'.kind = "none"
        /\ UNCHANGED <<link, enabled, enables, welcomed, keys>>
        /\ reply' = IF draft.kind = "registration" THEN NoChallenge ELSE reply
        /\ registered' = (registered \/ Welcomes) /\ stage' = After(draft.kind)
    BY <1>10, NoDraftIsDraft DEF Resume
  <2>2. stage' \in {"enabling", "serving"} => stage \in {"enabling", "serving"}
    BY <2>1 DEF After, StageInv
  <2>3. ASSUME NEW c \in keys, c[1] = 130, ~welcomed, reply = c
        PROVE  draft.kind # "registration"
    BY <2>1, <2>3 DEF Welcomes
  <2>4. stage = "ended" => stage' = "ended"
    BY <2>1 DEF After, StageInv
  <2> QED
    <3>1. registered' \/ stage' \in {"enabling", "serving"} \/ enables' = 1 => welcomed'
      <4>1. (registered \/ stage \in {"enabling", "serving"} \/ enables = 1 => welcomed) /\ (Welcomes => welcomed)
        BY <2>1, Zenon
      <4> QED
        BY <2>1, <2>2, <4>1, Zenon
    <3>2. \A c \in keys' : c[1] = 130 => welcomed' \/ reply' = c \/ (link' = "closed" /\ stage' = "ended")
      <4>1. \A c \in keys : c[1] = 130 => welcomed \/ reply = c \/ (link = "closed" /\ stage = "ended")
        BY Zenon
      <4>2. welcomed' = welcomed /\ keys' = keys /\ link' = link
        BY <2>1
      <4> QED
        BY <2>1, <2>3, <2>4, <4>1, <4>2
    <3>3. enabled' <= 1 /\ enables' <= enabled'
      BY <1>0, <2>1
    <3>4. ~Welcomes'
      BY <2>1 DEF Welcomes
    <3> QED
      BY <2>1, <3>1, <3>2, <3>3, <3>4
<1>11. CASE SendFails
  <2>1. draft'.kind = "none" /\ UNCHANGED <<link, stage, enabled, enables, registered, welcomed, reply, keys>>
    BY <1>11, NoDraftIsDraft DEF SendFails
  <2> QED
    BY <1>0, <2>1 DEF Welcomes
<1>12. CASE Leave
  <2>1. /\ draft'.kind = "none" \/ draft' = draft
        /\ link = "open" /\ stage' = "ended" /\ UNCHANGED <<enabled, enables, registered, welcomed, reply, keys>>
    BY <1>12, NoDraftIsDraft DEF Leave
  <2> QED
    BY <1>0, <2>1 DEF Welcomes
<1>13. CASE Close
  <2>1. /\ draft'.kind = "none" /\ link' = "closed"
        /\ UNCHANGED <<stage, enabled, enables, registered, welcomed, keys>>
    BY <1>13, NoDraftIsDraft DEF Close
  <2>2. stage = "ended"
    BY <1>13 DEF Close, StageInv
  <2> QED
    BY <1>0, <2>1, <2>2 DEF Welcomes
<1> QED
  BY <1>1, <1>2, <1>3, <1>4, <1>5, <1>6, <1>7, <1>8, <1>9, <1>10, <1>11, <1>12, <1>13 DEF Next

-----------------------------------------------------------------------------
(* The theorems of the transport.                                           *)

LEMMA TransportInit == Init => TransportInv
<1> SUFFICES ASSUME Init
             PROVE  TransportInv
  OBVIOUS
<1>1. TypeOK /\ DraftType
  BY InitTypes
<1>2. draft.task = "none" /\ draft.kind = "none" /\ draft.video = None /\ ~Operator
  BY NoDraftIsDraft DEF Init, Operator
<1>3. StageInv
  BY <1>2 DEF Init, StageInv
<1>4. BookInv
  BY <1>2 DEF Init, BookInv
<1>5. ConfirmInv
  <2>1. Seed \in Numbers /\ Seed + 0 = Seed /\ Seed \in Int /\ Seed - 0 = Seed /\ 0 \in Numbers
    BY WrapIsPositive DEF Numbers
  <2>2. Seed % Wrap = Seed
    <3>1. Seed = Wrap * 0 + Seed
      BY <2>1, WrapIsPositive DEF Numbers
    <3> QED
      BY <2>1, <3>1, Remainder
  <2>3. Ahead(Seed, Seed) = 0
    BY <2>1, <2>2, AheadOf
  <2> QED
    BY <2>1, <2>3, TransportAssumption DEF Init, ConfirmInv, NumberOf, NoStatus
<1>6. VideoInv
  BY <1>2 DEF Init, VideoInv, NoStatus, FrameOf, Unwrapped
<1>7. KeepaliveInv
  <2>1. IsFiniteSet({}) /\ Cardinality({}) = 0
    BY FS_EmptySet
  <2> QED
    BY <1>2, <2>1 DEF Init, KeepaliveInv, Due, Drafted
<1>8. WelcomeInv
  BY <1>2 DEF Init, WelcomeInv, Welcomes
<1> QED
  BY <1>1, <1>3, <1>4, <1>5, <1>6, <1>7, <1>8 DEF TransportInv

LEMMA TransportStep == TransportInv /\ [Next]_vars => TransportInv'
<1> SUFFICES ASSUME TransportInv, [Next]_vars
             PROVE  TransportInv'
  OBVIOUS
<1>1. CASE Next
  BY <1>1, TypesStep, StageSteps, BookSteps, ConfirmSteps, VideoSteps, KeepaliveSteps, WelcomeSteps DEF TransportInv
<1>2. CASE UNCHANGED vars
  <2>1. Ended \/ UNCHANGED vars
    BY <1>2
  <2>2. TypeOK'
    BY <1>2 DEF vars, TransportInv, TypeOK
  <2>3. DraftType' /\ StageInv' /\ BookInv'
    BY <1>2 DEF vars, TransportInv, DraftType, StageInv, BookInv, Operator
  <2>4. ConfirmInv' /\ VideoInv'
    BY <1>2 DEF vars, TransportInv, ConfirmInv, VideoInv, NumberOf, FrameOf, Unwrapped, Ahead
  <2>5. KeepaliveInv'
    BY <1>2, KeepaliveElsewhere DEF vars, TransportInv
  <2>6. WelcomeInv'
    BY <1>2 DEF vars, TransportInv, WelcomeInv, Welcomes
  <2> QED
    BY <2>2, <2>3, <2>4, <2>5, <2>6 DEF TransportInv
<1> QED
  BY <1>1, <1>2

\* The books, the numbers heard of on either side, the keepalives owed an
\* answer, and the registration agree with what has left and arrived, under
\* cancelled and failing sends, at every point of the wrap.
THEOREM TransportInvariant == Spec => []TransportInv
  BY TransportInit, TransportStep, PTL DEF Spec

\* The numbers, books and flags of the transport keep to the values that the
\* code gives them; sequence numbers to their width.
THEOREM TransportTypes == Spec => []TypeOK
<1>1. TransportInv => TypeOK
  BY DEF TransportInv
<1> QED
  BY <1>1, TransportInvariant, PTL

\* No acknowledgement of an open session is refused because the camera's
\* confirmation is ahead of the books.
THEOREM BooksAlwaysKeepUp == Spec => []BooksKeepUp
<1>1. TransportInv => BooksKeepUp
  <2> SUFFICES ASSUME TransportInv, link = "open", draft = NoDraft, status.known, status.peer # None
               PROVE  Encodable
    BY DEF BooksKeepUp
  <2> DEFINE x == Seed + drawn
             s == status.peer
             a == Ahead(x, s)
  <2>1. /\ drawn \in Nat /\ left \in Nat /\ reached \in Nat /\ s \in Numbers /\ x \in Int
        /\ MaxSilence \in Nat /\ MaxLag \in Nat
    BY TransportAssumption, WrapIsPositive DEF TransportInv, TypeOK, Numbers
  <2>2. reached <= left /\ left <= drawn /\ lastSent = (Seed + left) % Wrap
    BY NoDraftIsDraft DEF TransportInv, BookInv, Operator
  <2>3. a \in Numbers /\ a <= MaxSilence + MaxLag /\ drawn - a \in 0..reached
    BY <2>1, Behind DEF TransportInv, ConfirmInv, NumberOf
  <2>4. a \in Nat
    BY <2>3, WrapIsPositive DEF Numbers
  <2> DEFINE k == left - drawn
  <2>5. k \in Int /\ a + k \in Int /\ 0 <= a + k /\ a + k <= MaxSilence + MaxLag /\ Seed + left = x + k
    BY <2>1, <2>2, <2>3, <2>4, WrapIsPositive DEF Numbers
  <2> HIDE DEF k, a
  <2>6. a + k \in Numbers /\ 2 * (a + k) < Wrap
    BY <2>5, LagIsSmall
  <2>7. Ahead(x + k, s) = a + k
    BY <2>1, <2>5, <2>6, AheadGrows DEF a
  <2> HIDE DEF x, s
  <2>8. x + k \in Int
    BY <2>1, <2>5
  <2>9. Ahead(lastSent, s) = a + k
    BY <2>1, <2>2, <2>5, <2>7, <2>8, AheadOfRemainder
  <2> QED
    BY <2>6, <2>9 DEF Encodable, s
<1> QED
  BY <1>1, TransportInvariant, PTL

\* The view is enabled at most once, and only after the camera was given its
\* answer to the registration challenge.
THEOREM EnabledOnlyWelcome == Spec => []EnabledOnceWelcome
<1>1. TransportInv => EnabledOnceWelcome
  <2>1. TransportInv => enables <= 1
    BY DEF TransportInv, WelcomeInv, TypeOK, StageInv
  <2>2. TransportInv => (enables = 1 => welcomed)
    BY Zenon DEF TransportInv, WelcomeInv
  <2> QED
    BY <2>1, <2>2 DEF EnabledOnceWelcome
<1> QED
  BY <1>1, TransportInvariant, PTL

\* No keepalive is answered twice, whatever is doubled or late.
THEOREM NoAnswerCountsTwice == Spec => []AnswersAreCounted
<1>1. TransportInv => AnswersAreCounted
  <2> SUFFICES ASSUME TransportInv
               PROVE  AnswersAreCounted
    OBVIOUS
  <2>1. IsFiniteSet(Due)
    BY FS_Subset DEF TransportInv, KeepaliveInv, Due
  <2>2. Cardinality(Due) \in Nat /\ Cardinality(keepalives) \in Nat /\ answered \in Nat
    BY <2>1, FS_CardinalityType DEF TransportInv, KeepaliveInv, TypeOK
  <2> QED
    BY <2>2 DEF TransportInv, KeepaliveInv, AnswersAreCounted
<1> QED
  BY <1>1, TransportInvariant, PTL

-----------------------------------------------------------------------------
(* The transport implements FlowControl.                                    *)

Confirmed == Unwrapped(reached, Seed, peer)

\* The number confirmed is the same from the newest datagram that arrived as
\* from the newest that was drafted.
LEMMA ConfirmedNumber ==
  ASSUME TypeOK, BookInv, ConfirmInv
  PROVE  Confirmed = NumberOf(peer) /\ Confirmed \in 0..reached
<1> DEFINE x == Seed + drawn
           a == Ahead(x, peer)
           k == reached - drawn
<1>1. /\ drawn \in Nat /\ left \in Nat /\ reached \in Nat /\ peer \in Numbers /\ x \in Int
      /\ MaxSilence \in Nat /\ MaxLag \in Nat /\ peer # None
  BY TransportAssumption, WrapIsPositive, NoneIsNoNumber DEF TypeOK, Numbers
<1>2. reached <= left /\ left <= drawn
  BY DEF BookInv
<1>3. a \in Numbers /\ a <= MaxSilence /\ drawn - a \in 0..reached
  BY <1>1, Behind DEF ConfirmInv, NumberOf
<1>4. a \in Nat
  BY <1>3, WrapIsPositive DEF Numbers
<1>5. k \in Int /\ a + k \in Int /\ 0 <= a + k /\ a + k <= MaxSilence + MaxLag /\ Seed + reached = x + k
  BY <1>1, <1>2, <1>3, <1>4, WrapIsPositive DEF Numbers
<1> HIDE DEF k, a
<1>6. a + k \in Numbers
  BY <1>5, LagIsSmall
<1>7. Ahead(x + k, peer) = a + k
  BY <1>1, <1>5, <1>6, AheadGrows DEF a
<1>8. reached - (a + k) = drawn - a
  BY <1>1, <1>4, <1>5 DEF k
<1>9. Ahead(Seed + reached, peer) = a + k /\ NumberOf(peer) = drawn - a
  BY <1>5, <1>7 DEF NumberOf, a
<1> HIDE DEF x
<1> QED
  BY <1>1, <1>3, <1>8, <1>9 DEF Unwrapped, Confirmed

\* The counters of FlowControl.
Counters == <<left, reached, Confirmed, filmed, FrameOf(window), FrameOf(acked)>>
Counted == [\/ left' > left /\ UNCHANGED <<reached, Confirmed, filmed, FrameOf(window), FrameOf(acked)>>
            \/ /\ reached < reached' /\ reached' <= left
               /\ UNCHANGED <<left, Confirmed, filmed, FrameOf(window), FrameOf(acked)>>
            \/ /\ Confirmed < Confirmed' /\ Confirmed' <= reached
               /\ UNCHANGED <<left, reached, filmed, FrameOf(window), FrameOf(acked)>>
            \/ filmed' = filmed + 1 /\ UNCHANGED <<left, reached, Confirmed, FrameOf(window), FrameOf(acked)>>
            \/ /\ FrameOf(window) < FrameOf(window)' /\ FrameOf(window)' <= filmed
               /\ UNCHANGED <<left, reached, Confirmed, filmed, FrameOf(acked)>>
            \/ /\ FrameOf(acked) < FrameOf(acked)' /\ FrameOf(acked)' <= FrameOf(window)
               /\ UNCHANGED <<left, reached, Confirmed, filmed, FrameOf(window)>>]_Counters

\* Steps that leave, arrive, confirm, film and receive nothing.
LEMMA CountsNothing ==
  ASSUME UNCHANGED <<left, reached, peer, filmed, window, acked>>
  PROVE  UNCHANGED Counters
  BY DEF Counters, Confirmed, FrameOf, Unwrapped, Ahead

LEMMA FramesAreCounted ==
  ASSUME StageInv, VideoInv
  PROVE  /\ FrameOf(window) \in 0..filmed /\ FrameOf(acked) \in 0..filmed /\ FrameOf(draft.video) \in 0..filmed
         /\ FrameOf(None) = 0 /\ filmed \in Nat
<1>1. \A r : InUse(r) => FrameOf(r) \in 0..filmed
  BY DEF InUse, FrameOf, Unwrapped, StageInv
<1> QED
  BY <1>1, VideoInUse DEF FrameOf, Unwrapped, StageInv

LEMMA CountingSteps ==
  ASSUME TransportInv, Next
  PROVE  Counted
<1> USE DEF TransportInv
<1>0. /\ left \in Nat /\ reached \in Nat /\ filmed \in Nat /\ reached <= left /\ left <= drawn
      /\ FrameOf(window) \in 0..filmed /\ FrameOf(acked) \in 0..filmed /\ FrameOf(draft.video) \in 0..filmed
  BY FramesAreCounted DEF TypeOK, BookInv
<1>1. TransportInv'
  BY TransportStep
<1>2. /\ Confirmed = NumberOf(peer) /\ Confirmed \in 0..reached
      /\ Confirmed' = NumberOf(peer)' /\ Confirmed' \in 0..reached'
  <2>1. Confirmed = NumberOf(peer) /\ Confirmed \in 0..reached
    BY ConfirmedNumber
  <2>2. TypeOK' /\ BookInv' /\ ConfirmInv'
    BY <1>1
  <2>3. (TypeOK /\ BookInv /\ ConfirmInv => Confirmed = NumberOf(peer) /\ Confirmed \in 0..reached)'
    BY ConfirmedNumber, PTL
  <2> QED
    BY <2>1, <2>2, <2>3
<1>3. CASE UNCHANGED <<left, reached, peer, filmed, window, acked>>
  BY <1>3, CountsNothing DEF Counted
<1>4. CASE \/ Open \/ Handshaken \/ HandshakeFails \/ Answer \/ Acknowledge \/ AckRaises \/ Resume \/ SendFails
           \/ Registered \/ Leave \/ Close \/ ReceiveInvalid \/ Ended
  <2>1. UNCHANGED <<left, reached, peer, filmed, window, acked>>
    BY <1>4 DEF Open, Handshaken, HandshakeFails, Answer, Acknowledge, AckRaises, Resume, SendFails,
       Registered, Leave, Close, ReceiveInvalid, Ended, vars
  <2> QED
    BY <1>3, <2>1
<1>5. ASSUME NEW n, MainSends(n) \/ ControlSends(n) \/ ReceiveKeepaliveAnswer(n) \/ ReceiveChallenge(n)
      PROVE  Counted
  <2>1. UNCHANGED <<left, reached, peer, filmed, window, acked>>
    BY <1>5 DEF MainSends, ControlSends, ReceiveKeepaliveAnswer, ReceiveChallenge
  <2> QED
    BY <1>3, <2>1
<1>6. CASE Transmit
  <2>1. UNCHANGED <<reached, peer, filmed, window>>
    BY <1>6 DEF Transmit
  <2>2. UNCHANGED <<Confirmed, FrameOf(window)>>
    BY <2>1 DEF Confirmed, FrameOf, Unwrapped, Ahead
  <2>3. CASE draft.kind = "ack"
    <3>1. left' = left /\ acked' = IF draft.video = None THEN acked ELSE draft.video
      BY <1>6, <2>3 DEF Transmit
    <3>2. FrameOf(acked)' = IF draft.video = None THEN FrameOf(acked) ELSE FrameOf(draft.video)
      BY <2>1, <3>1 DEF FrameOf, Unwrapped, Ahead
    <3>3. draft.video # None => FrameOf(acked) <= FrameOf(draft.video) /\ FrameOf(draft.video) <= FrameOf(window)
      BY VideoInUse
    <3> QED
      BY <1>0, <2>1, <2>2, <3>1, <3>2, <3>3 DEF Counted, Counters
  <2>4. CASE draft.kind # "ack"
    <3>1. Operator /\ ~draft.sent
      BY <1>6, <2>4, KindTellsTask DEF Transmit, Operator
    <3>2. left' > left /\ acked' = acked
      BY <1>0, <1>6, <2>4, <3>1 DEF Transmit, BookInv, TypeOK
    <3>3. FrameOf(acked)' = FrameOf(acked)
      BY <2>1, <3>2 DEF FrameOf, Unwrapped, Ahead
    <3> QED
      BY <2>1, <2>2, <3>2, <3>3 DEF Counted
  <2> QED
    BY <2>3, <2>4
<1>7. ASSUME NEW n \in 0..MaxSends, NEW range \in BOOLEAN, ReceiveStatus(n, range)
      PROVE  Counted
  <2>1. UNCHANGED <<left, reached, filmed, window, acked>>
    BY <1>7 DEF ReceiveStatus
  <2>2. UNCHANGED <<FrameOf(window), FrameOf(acked)>>
    BY <2>1 DEF FrameOf, Unwrapped, Ahead
  <2>3. NumberOf(peer) <= NumberOf(peer)'
    BY <1>7, ConfirmStatus
  <2> QED
    BY <1>0, <1>2, <2>1, <2>2, <2>3 DEF Counted, Counters
<1>8. ASSUME NEW n \in 1..MaxVideo, ReceiveVideo(n)
      PROVE  Counted
  <2>1. UNCHANGED <<left, reached, peer, filmed, acked>>
    BY <1>8 DEF ReceiveVideo
  <2>2. UNCHANGED <<Confirmed, FrameOf(acked)>>
    BY <2>1 DEF Confirmed, FrameOf, Unwrapped, Ahead
  <2>3. FrameOf(window) <= FrameOf(window)'
    BY <1>8, VideoReceived
  <2>4. FrameOf(window)' \in 0..filmed'
    <3>1. StageInv' /\ VideoInv'
      BY <1>1
    <3>2. (StageInv /\ VideoInv => FrameOf(window) \in 0..filmed)'
      BY FramesAreCounted, PTL
    <3> QED
      BY <3>1, <3>2
  <2> QED
    BY <1>0, <2>1, <2>2, <2>3, <2>4 DEF Counted, Counters
<1>9. ASSUME NEW n \in 1..MaxSends, Arrive(n)
      PROVE  Counted
  <2>1. UNCHANGED <<left, peer, drawn, filmed, window, acked>> /\ reached' = n /\ n \in reached + 1..left
    BY <1>9 DEF Arrive
  <2>2. UNCHANGED <<FrameOf(window), FrameOf(acked), NumberOf(peer)>>
    BY <2>1 DEF FrameOf, Unwrapped, Ahead, NumberOf
  <2>3. reached < reached' /\ reached' <= left
    BY <1>0, <2>1
  <2> QED
    BY <1>2, <2>1, <2>2, <2>3 DEF Counted
<1>10. CASE Film
  <2>1. UNCHANGED <<left, reached, peer>> /\ filmed' = filmed + 1
    BY <1>10 DEF Film
  <2>2. UNCHANGED Confirmed
    BY <2>1 DEF Confirmed, Unwrapped, Ahead
  <2>3. UNCHANGED <<FrameOf(window), FrameOf(acked)>>
    BY <1>10, VideoFilm
  <2> QED
    BY <2>1, <2>2, <2>3 DEF Counted
<1> QED
  BY <1>4, <1>5, <1>6, <1>7, <1>8, <1>9, <1>10 DEF Next

\* The transport counts up: under wrapping sequence numbers, cancelled and
\* failing sends and shared locks, datagrams leave in the order of their numbers,
\* the peer sequence only advances to what has arrived and the acknowledged
\* window to what has been received.
THEOREM TransportCountsUp == Spec => CountsUp
<1>1. Init => Flow!FlowInit
  <2> SUFFICES ASSUME Init
               PROVE  Flow!FlowInit
    OBVIOUS
  <2>1. TransportInv
    BY TransportInit
  <2>2. Confirmed \in 0..reached
    BY <2>1, ConfirmedNumber DEF TransportInv
  <2> QED
    BY <2>2 DEF Init, Flow!FlowInit, Confirmed, Unwrapped
<1>2. TransportInv /\ [Next]_vars => [Flow!FlowNext]_(Flow!flowVars)
  <2>1. TransportInv /\ Next => Counted
    BY CountingSteps
  <2>2. UNCHANGED vars => UNCHANGED Counters
    BY CountsNothing DEF vars
  <2>3. Counted => [Flow!FlowNext]_(Flow!flowVars)
    BY DEF Counted, Counters, Confirmed, FrameOf, Flow!FlowNext, Flow!flowVars, Flow!Send, Flow!Arrives, Flow!Confirm,
       Flow!Films, Flow!Receive, Flow!Acked
  <2>4. UNCHANGED Counters => [Flow!FlowNext]_(Flow!flowVars)
    BY DEF Counters, Confirmed, FrameOf, Flow!flowVars
  <2> QED
    BY <2>1, <2>2, <2>3, <2>4
<1> QED
  BY <1>1, <1>2, TransportInvariant, PTL DEF Spec, CountsUp, Flow!FlowSpec
=============================================================================
