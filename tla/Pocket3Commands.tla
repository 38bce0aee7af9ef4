--------------------------- MODULE Pocket3Commands ---------------------------
(***************************************************************************)
(* The application frames written to FFF5 and the policy on writing them.  *)
(* A frame is named by what it is for; a command that is used with two     *)
(* fixed sequence numbers gives two frames, because the sequence number is *)
(* what answers are told apart by.  "malformed" stands for every candidate *)
(* that fails the check of its command's metadata, flags or payload.       *)
(***************************************************************************)
EXTENDS Naturals

PairingFrames == {"pin", "ack", "final"}          \* 07/45, 07/46, 00/32

StreamFrames == {"prepare", "reentry",            \* 02/E1, 8C12 and FEAB
                 "stage2", "start", "stop",       \* 02/8E, three payloads
                 "wifi", "rewifi",                \* 07/47, 8C19 and 8C1A
                 "configure"}                     \* 08/78

Dangerous == {"gimbal"}                           \* 04/xx and the like

Candidates == PairingFrames \cup StreamFrames \cup Dangerous \cup {"malformed"}

\* Commands that are not allowed in this phase, and the wire images of them
\* that were reviewed.
Denied == {"stage2", "start", "stop"} \cup Dangerous
Overrides == {"stage2", "start"}

Validated(f) == f # "malformed"

\* An authorization: the commands it names, and those of the denied ones that
\* it approves.
Pairing == [names |-> PairingFrames, denied |-> {}]
SingleFrame(f, override) == [names |-> {f}, denied |-> IF override THEN {f} ELSE {}]
Issuable(f, override) == override => f \in Overrides

Allowed(f, authority) == /\ f \in Denied => f \in authority.denied
                         /\ f \in authority.names

\* ATT writes at the default MTU: what does not fit in twenty bytes takes two
\* or more.
Parts(f) == IF f \in {"pin", "wifi", "rewifi", "configure"} THEN 2 ELSE 1
=============================================================================
