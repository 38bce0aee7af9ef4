----------------------------- MODULE UdpTransport -----------------------------
(***************************************************************************)
(* NormalControlUdpTransport and the tasks of a normal-mode session that   *)
(* share it: the session's coroutine ("main"), the 40 Hz acknowledgement   *)
(* ("ack"), the receiver, which also answers registration ("recv"), and    *)
(* the gimbal control ("ctl").  Sequence numbers count in the protocol's   *)
(* steps of 8 and wrap at Wrap (2^16 / 8 in the code).  A datagram that    *)
(* has left may be lost, doubled and overtaken, but not by more than       *)
(* MaxLag others, and nobody goes on for more than MaxSilence datagrams    *)
(* after the last that the other side has heard of.                        *)
(***************************************************************************)
EXTENDS Integers, FiniteSets

CONSTANTS Wrap,        \* sequence numbers before the wrap
          Seed,        \* the profile's sequence_seed
          VideoSeed,   \* the camera's first video sequence number
          Challenges,  \* registration challenges: (cmd_id, sequence)
          MaxLag,      \* bound: datagrams that may overtake another one
          MaxSilence,  \* bound: datagrams one side sends unheard by the other
          MaxSends,    \* bound: operator datagrams of the session
          MaxVideo,    \* bound: video datagrams of the session
          KeyLimit     \* registration keys kept (128 in the code)

ASSUME TransportAssumption ==
    /\ Wrap \in Nat /\ Wrap % 2 = 0 /\ Seed \in 0..Wrap - 1
    /\ VideoSeed \in 0..Wrap - 1
    /\ Challenges \subseteq {129, 130} \X (Nat \ {0})
    /\ MaxLag \in Nat /\ MaxSilence \in Nat /\ 2 * (MaxLag + MaxSilence) < Wrap
    /\ MaxSends \in Nat /\ MaxVideo \in Nat /\ KeyLimit \in Nat

Tasks == {"main", "ack", "recv", "ctl"}
None == -1
NoStatus == [known |-> FALSE, peer |-> None, video |-> None]
NoDraft == [task |-> "none", kind |-> "none", seq |-> None, duml |-> None,
            number |-> None, video |-> None, sent |-> FALSE]
NoChallenge == <<0, 0>>

VARIABLES link,        \* "closed", "handshake", "open" or "leaving"
          stage,       \* where the session's coroutine is
          next,        \* next_transport_sequence
          peer,        \* peer_sequence, what the camera has confirmed
          lastSent,    \* last_sent_transport_sequence
          duml,        \* duml_sequence
          status,      \* latest_flow_status: peer sequence and video range
          window,      \* received_windows[2]
          draft,       \* the datagram whose sender owns the locks, or None
          awaited,     \* pending_keepalives
          answered,    \* keepalive_response_count
          keys,        \* registration_keys
          reply,       \* the challenge that the receiver is answering
          registered,  \* the session's event of that name
          enabled,     \* enable_count
          ctl,         \* the control task: "off", "on", "fault" or "gone"
          dead         \* tasks that ended with an exception

VARIABLES drawn,       \* history: sequence numbers drawn
          left,        \* history: number of the newest operator datagram sent
          reached,     \* history: number of the newest one that arrived
          keepalives,  \* history: the keepalives sent, number and DUML number
          enables,     \* history: enable datagrams sent
          welcomed,    \* history: the answer to 0x82 has been sent
          filmed,      \* history: number of the camera's newest video datagram
          acked        \* history: video range of the last ACK sent

session == <<link, stage, ctl, dead>>
numbers == <<next, peer, lastSent, duml>>
receipt == <<status, window, awaited, answered, keys, reply, registered>>
history == <<drawn, left, reached, keepalives, enables, welcomed, filmed,
             acked>>
vars == <<session, numbers, receipt, history, draft, enabled>>

Ahead(a, b) == (a - b) % Wrap          \* how far a is ahead of b

\* Mutant: any other sequence number counts as newer.
Other(a, b) == a # b

Newer(a, b) == 0 < Ahead(a, b) /\ 2 * Ahead(a, b) < Wrap

\* A sequence number that is in use is not more than MaxSilence old.
Heard(newest, seq) == seq = None \/ Ahead(newest, seq) <= MaxSilence

Init == /\ link = "closed" /\ stage = "connecting" /\ ctl = "off" /\ dead = {}
        /\ next = Seed /\ peer = Seed /\ lastSent = Seed /\ duml = 0
        /\ status = NoStatus /\ window = None /\ draft = NoDraft
        /\ awaited = {} /\ answered = 0 /\ keys = {} /\ reply = NoChallenge
        /\ registered = FALSE /\ enabled = 0
        /\ drawn = 0 /\ left = 0 /\ reached = 0
        /\ keepalives = {} /\ enables = 0 /\ welcomed = FALSE
        /\ filmed = 0 /\ acked = None

-----------------------------------------------------------------------------
(* open: one request, one matching answer, before the deadline.             *)

Open == /\ link = "closed" /\ stage = "connecting"
        /\ link' = "handshake"
        /\ UNCHANGED <<stage, ctl, dead, numbers, receipt, history, draft, enabled>>

\* Late telemetry of an earlier session is skipped (no step); the answer of
\* this session makes the sequencer.
Handshaken == /\ link = "handshake"
              /\ link' = "open"
              /\ stage' = "opening"
              /\ next' = (Seed + 1) % Wrap
              /\ UNCHANGED <<ctl, dead, peer, lastSent, duml, receipt, history,
                             draft, enabled>>

\* Timeout, another peer, a malformed answer: the socket is closed again.
HandshakeFails == /\ link = "handshake"
                  /\ link' = "closed"
                  /\ stage' = "ended"
                  /\ UNCHANGED <<ctl, dead, numbers, receipt, history, draft, enabled>>

-----------------------------------------------------------------------------
(* Sending.  _serial_send and _writer_lock are taken together, so one       *)
(* datagram at a time is drafted, sent, and entered into the books.         *)

Alive(task) == task \notin dead /\ link \in {"open", "leaving"}

\* Mutant: the sequence number is not kept to sixteen bits.
BuildUnbounded(task, kind) ==
    /\ draft = NoDraft
    /\ Alive(task)
    /\ drawn < MaxSends /\ Heard(next, peer) /\ Heard(next, status.peer)
    /\ draft' = [NoDraft EXCEPT !.task = task, !.kind = kind, !.seq = next,
                               !.duml = duml, !.number = drawn + 1]
    /\ next' = next + 1
    /\ drawn' = drawn + 1

\* The envelope is built under the locks: the sequence number is drawn.
Build(task, kind) ==
    /\ draft = NoDraft
    /\ Alive(task)
    /\ drawn < MaxSends /\ Heard(next, peer) /\ Heard(next, status.peer)
    /\ draft' = [NoDraft EXCEPT !.task = task, !.kind = kind, !.seq = next,
                               !.duml = duml, !.number = drawn + 1]
    /\ next' = (next + 1) % Wrap
    /\ drawn' = drawn + 1

\* What the session's coroutine sends at its stages; presence goes out with
\* the opening and again when a second has passed.
MainSends(kind) ==
    /\ link = "open"
    /\ Build("main", kind)
    /\ \/ /\ \/ kind = "session_open" /\ stage = "opening"
             \/ kind = "presence" /\ stage \in {"presence", "serving"}
          /\ enabled' = enabled
       \/ /\ kind = "enable" /\ stage = "enabling"
          /\ enabled = 0
          /\ enabled' = enabled + 1
    /\ UNCHANGED <<session, peer, lastSent, duml, receipt, left, reached, keepalives, enables, welcomed, filmed, acked>>

\* The answer to a challenge carries the challenge's own DUML number.
Answer == /\ reply # NoChallenge
          /\ Build("recv", "registration")
          /\ UNCHANGED <<session, peer, lastSent, duml, receipt, enabled, left,
                         reached, keepalives, enables, welcomed,
                         filmed, acked>>

\* Sticks and camera actions; a keepalive is entered as awaited first.  After
\* a fault the control only centres.
ControlSends(kind) ==
    /\ kind \in {"stick", "keepalive"}
    /\ \/ ctl = "on"
       \/ ctl = "fault" /\ kind = "stick"
    /\ Build("ctl", kind)
    /\ awaited' = IF kind = "keepalive" THEN awaited \cup {duml} ELSE awaited
    /\ UNCHANGED <<session, peer, lastSent, duml, status, window, answered, keys,
                   reply, registered, enabled, left, reached, keepalives,
                   enables, welcomed, filmed, acked>>

\* encode_operator_flow_ack raises on a range and on a confirmation that is
\* ahead of what has been sent.
Encodable == status.peer # None /\ 2 * Ahead(lastSent, status.peer) < Wrap

Acknowledge == /\ status.known
               /\ draft = NoDraft
               /\ Alive("ack")
               /\ Encodable
               /\ draft' = [NoDraft EXCEPT !.task = "ack", !.kind = "ack",
                                          !.video = status.video]
               /\ UNCHANGED <<session, numbers, receipt, history, enabled>>

AckRaises == /\ status.known
             /\ draft = NoDraft
             /\ Alive("ack")
             /\ ~Encodable
             /\ dead' = dead \cup {"ack"}
             /\ UNCHANGED <<link, stage, ctl, numbers, receipt, history, draft, enabled>>

Welcomes == draft.kind = "registration" /\ reply[1] = 130

\* The datagram is on its way; its sender has not gone on yet.
Transmit ==
    /\ draft # NoDraft /\ ~draft.sent
    /\ draft' = [draft EXCEPT !.sent = TRUE]
    /\ IF draft.kind = "ack"
       THEN /\ acked' = IF draft.video = None THEN acked ELSE draft.video
            /\ UNCHANGED <<left, keepalives, enables, welcomed>>
       ELSE /\ left' = draft.number
            /\ keepalives' = IF draft.kind = "keepalive"
                             THEN keepalives \cup {<<draft.number, draft.duml>>}
                             ELSE keepalives
            /\ enables' = IF draft.kind = "enable" THEN enables + 1 ELSE enables
            /\ welcomed' = (welcomed \/ Welcomes)
            /\ UNCHANGED acked
    /\ UNCHANGED <<session, numbers, receipt, enabled, drawn, reached,
                   filmed>>

\* Mutant: control writes do not enter the last sequence number sent.
BookedByProfile(kind) == /\ lastSent' = IF kind \in {"ack", "stick", "keepalive"}
                                        THEN lastSent ELSE draft.seq
                         /\ duml' = IF kind = "ack" THEN duml ELSE (duml + 1) % Wrap

\* The books: last sent, next DUML number.
Booked(kind) == IF kind = "ack" THEN UNCHANGED <<lastSent, duml>>
                ELSE lastSent' = draft.seq /\ duml' = (duml + 1) % Wrap

After(kind) == CASE kind = "session_open" -> "presence"
                 [] kind = "presence" -> IF stage = "presence" THEN "registering" ELSE stage
                 [] kind = "enable" -> "serving"
                 [] OTHER -> stage

\* The sender goes on: main to its next stage (the control task starts when
\* the view is enabled), the receiver to its next datagram.
Resume ==
    /\ draft # NoDraft /\ draft.sent
    /\ Booked(draft.kind)
    /\ draft' = NoDraft
    /\ stage' = After(draft.kind)
    /\ ctl' = IF draft.kind = "enable" THEN "on" ELSE ctl
    /\ reply' = IF draft.kind = "registration" THEN NoChallenge ELSE reply
    /\ registered' = (registered \/ Welcomes)
    /\ UNCHANGED <<link, dead, next, peer, status, window, awaited, answered, keys,
                   enabled, history>>

\* A keepalive that failed is no longer awaited.
Withdrawn == IF draft.kind = "keepalive" THEN awaited \ {draft.duml} ELSE awaited

\* sendto raises.  A control fault is reported and leaves the video alone;
\* any other task's exception is the end of the session.
SendFails ==
    /\ draft # NoDraft /\ ~draft.sent
    /\ draft' = NoDraft
    /\ awaited' = Withdrawn
    /\ IF draft.task = "ctl" THEN ctl' = "fault" /\ UNCHANGED dead
                             ELSE dead' = dead \cup {draft.task} /\ UNCHANGED ctl
    /\ UNCHANGED <<link, stage, numbers, status, window, answered, keys, reply,
                   registered, enabled, history>>

-----------------------------------------------------------------------------
(* The session's coroutine.                                                 *)

Registered == /\ link = "open" /\ stage = "registering"
              /\ registered
              /\ stage' = "enabling"
              /\ UNCHANGED <<link, ctl, dead, numbers, receipt, history, draft, enabled>>

\* Stop event, cancellation, timeout or a dead worker: the control task is
\* cancelled first, wherever its send is, and centres while the others run.
Leave ==
    /\ link = "open"
    /\ link' = "leaving"
    /\ stage' = "ended"
    /\ ctl' = IF ctl = "off" THEN "off" ELSE "fault"
    /\ IF draft # NoDraft /\ draft.task \in {"main", "ctl"}
       THEN draft' = NoDraft /\ awaited' = Withdrawn
       ELSE UNCHANGED <<draft, awaited>>
    /\ UNCHANGED <<dead, numbers, status, window, answered, keys, reply, registered,
                   enabled, history>>

\* The tasks are cancelled and the socket is closed.
Close == /\ link = "leaving"
         /\ draft = NoDraft \/ draft.task # "ctl"
         /\ link' = "closed"
         /\ ctl' = IF ctl = "off" THEN "off" ELSE "gone"
         /\ draft' = NoDraft
         /\ status' = NoStatus
         /\ reply' = NoChallenge
         /\ UNCHANGED <<stage, dead, numbers, window, awaited, answered, keys,
                        registered, enabled, history>>

-----------------------------------------------------------------------------
(* Receiving, one datagram after the other; not while an answer is sent.    *)

Listening == Alive("recv") /\ reply = NoChallenge

\* Every datagram that is received renews the ranges of the latest status.
Renewed(s, w) == IF ~s.known \/ w = None THEN s ELSE [s EXCEPT !.video = w]

\* WhType 01: the camera confirms datagram n, or gives a range when some did
\* not arrive.  Its own video range counts until one has been seen.
ReceiveStatus(n, range) ==
    /\ Listening
    /\ n \in 0..reached /\ reached <= n + MaxLag
    /\ LET s == (Seed + n) % Wrap
       IN  /\ status' = Renewed([known |-> TRUE, peer |-> IF range THEN None ELSE s, video |-> None],
                             window)
           /\ peer' = IF ~range /\ Newer(s, peer) THEN s ELSE peer
    /\ UNCHANGED <<session, next, lastSent, duml, window, awaited, answered, keys,
                   reply, registered, draft, enabled, drawn, left, reached, keepalives,
                   enables, welcomed, filmed, acked>>

\* WhType 02 (and 03 for responses): the newest sequence number is kept.
ReceiveVideo(n) ==
    /\ Listening
    /\ n \in 1..filmed /\ filmed <= n + MaxLag
    /\ LET s == (VideoSeed + n) % Wrap
       IN  window' = IF window = None \/ Newer(s, window) THEN s ELSE window
    /\ status' = Renewed(status, window')
    /\ UNCHANGED <<session, numbers, awaited, answered, keys, reply, registered, draft,
                   enabled, drawn, left, reached, keepalives, enables,
                   welcomed, filmed, acked>>

\* A keepalive with this DUML number is on its way, or lost, or answered.
Sent(d) == \E k \in keepalives : k[2] = d /\ drawn - k[1] <= MaxSilence

\* Mutant: an answered keepalive stays pending.
CountKeepaliveAnswer(d) ==
    /\ Listening
    /\ Sent(d)
    /\ d \in awaited
    /\ answered' = answered + 1
    /\ UNCHANGED <<session, numbers, status, window, awaited, keys, reply, registered,
                   draft, enabled, history>>

\* The answer to a keepalive, perhaps not the first copy of it.
ReceiveKeepaliveAnswer(d) ==
    /\ Listening
    /\ Sent(d)
    /\ d \in awaited
    /\ awaited' = awaited \ {d}
    /\ answered' = answered + 1
    /\ UNCHANGED <<session, numbers, status, window, keys, reply, registered, draft,
                   enabled, history>>

\* Mutant: a challenge completes the registration before it is answered.
RegisteredByChallenge(c) ==
    /\ Listening
    /\ registered' = (registered \/ (c[1] = 130))
    /\ IF c \in keys
       THEN UNCHANGED <<keys, reply>>
       ELSE /\ keys' = IF Cardinality(keys) + 1 > KeyLimit THEN {c} ELSE keys \cup {c}
            /\ reply' = c
    /\ UNCHANGED <<session, numbers, status, window, awaited, answered, draft, enabled,
                   history>>

\* A challenge not answered before; an old one is ignored, but it still
\* completes the registration.
ReceiveChallenge(c) ==
    /\ Listening
    /\ IF c \in keys
       THEN /\ registered' = (registered \/ (c[1] = 130))
            /\ UNCHANGED <<keys, reply>>
       ELSE /\ keys' = IF Cardinality(keys) + 1 > KeyLimit THEN {c} ELSE keys \cup {c}
            /\ reply' = c
            /\ UNCHANGED registered
    /\ UNCHANGED <<session, numbers, status, window, awaited, answered, draft, enabled,
                   history>>

\* Another session's datagram, a broken one, a refused enable.
ReceiveInvalid == /\ Listening
                  /\ dead' = dead \cup {"recv"}
                  /\ UNCHANGED <<link, stage, ctl, numbers, receipt, history, draft, enabled>>

-----------------------------------------------------------------------------
(* The camera.                                                              *)

Arrive(n) == /\ n \in reached + 1..left
             /\ reached' = n
             /\ UNCHANGED <<session, numbers, receipt, draft, enabled, drawn, left,
                            keepalives, enables, welcomed, filmed,
                            acked>>

Film == /\ enables > 0
        /\ filmed < MaxVideo
        /\ \A seq \in {window, draft.video, acked} : Heard(VideoSeed + filmed + 1, seq)
        /\ filmed' = filmed + 1
        /\ UNCHANGED <<session, numbers, receipt, draft, enabled, drawn, left, reached,
                       keepalives, enables, welcomed, acked>>

Ended == link = "closed" /\ stage = "ended" /\ UNCHANGED vars

Next == \/ Open \/ Handshaken \/ HandshakeFails
        \/ \E kind \in {"session_open", "presence", "enable"} : MainSends(kind)
        \/ Answer \/ Acknowledge \/ AckRaises
        \/ \E kind \in {"stick", "keepalive"} : ControlSends(kind)
        \/ Transmit \/ Resume \/ SendFails
        \/ Registered \/ Leave \/ Close
        \/ \E n \in 0..MaxSends, range \in BOOLEAN : ReceiveStatus(n, range)
        \/ \E n \in 1..MaxVideo : ReceiveVideo(n)
        \/ \E d \in 0..Wrap - 1 : ReceiveKeepaliveAnswer(d)
        \/ \E c \in Challenges : ReceiveChallenge(c)
        \/ ReceiveInvalid
        \/ \E n \in 1..MaxSends : Arrive(n)
        \/ Film \/ Ended

Spec == Init /\ [][Next]_vars

-----------------------------------------------------------------------------
(* What it promises.                                                        *)

\* The number of the datagram with sequence number seq among the last Wrap.
Unwrapped(newest, first, seq) ==
    IF seq = None THEN 0 ELSE newest - Ahead(first + newest, seq)

\* Under the wrap, the cancellations and the shared locks, the sequence
\* numbers are counters: datagrams leave in the order of their numbers, the
\* peer sequence only advances to what has arrived, and the ACK window to what
\* has been received (dji_wifi_udp.py 328-471, normal_udp.py 88-107).
Flow == INSTANCE FlowControl WITH
    sent <- left, arrived <- reached,
    confirmed <- Unwrapped(reached, Seed, peer),
    received <- Unwrapped(filmed, VideoSeed, window),
    acked <- Unwrapped(filmed, VideoSeed, acked)
CountsUp == Flow!FlowSpec

TypeOK == /\ link \in {"closed", "handshake", "open", "leaving"}
          /\ stage \in {"connecting", "opening", "presence", "registering",
                        "enabling", "serving", "ended"}
          /\ ctl \in {"off", "on", "fault", "gone"}
          /\ dead \subseteq Tasks
          /\ {next, peer, lastSent, duml} \subseteq 0..Wrap - 1
          /\ {status.peer, status.video, window, acked} \subseteq 0..Wrap - 1 \cup {None}
          /\ awaited \subseteq 0..Wrap - 1
          /\ keepalives \subseteq Nat \X (0..Wrap - 1)
          /\ keys \subseteq Challenges
          /\ reply \in Challenges \cup {NoChallenge}
          /\ {drawn, left, reached, enabled, answered} \subseteq Nat

\* While the session is up, what the camera confirms is never ahead of the
\* books: no ACK is refused for it, which would end the session
\* (dji_wifi.py 177-181, dji_wifi_udp.py 345-347, pocket3_normal.py 305-308).
BooksKeepUp == link = "open" /\ draft = NoDraft /\ status.known /\ status.peer # None
               => Encodable

\* The view is enabled once, and by then the camera has its answer to the
\* registration challenge (pocket3_normal.py 259-263, 280-282).
EnabledOnceWelcome == enables <= 1 /\ (enables = 1 => welcomed)

\* Each keepalive is answered at most once, whatever is doubled, however late,
\* and although a failed send's DUML number is used again (398-432, 554-557).
AnswersAreCounted == answered <= Cardinality(keepalives)
=============================================================================
