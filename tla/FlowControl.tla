------------------------------ MODULE FlowControl ------------------------------
(***************************************************************************)
(* What the UDP transport promises, without sequence numbers that wrap:    *)
(* six counters, of operator datagrams sent, arrived and confirmed, and of *)
(* video datagrams filmed, received and acknowledged.                      *)
(***************************************************************************)
EXTENDS Naturals

VARIABLES sent, arrived, confirmed, filmed, received, acked

flowVars == <<sent, arrived, confirmed, filmed, received, acked>>

FlowInit == /\ sent = 0 /\ arrived = 0 /\ confirmed = 0
            /\ filmed = 0 /\ received = 0 /\ acked = 0

\* Numbers may be left out: a datagram is lost, a failed send had drawn one.
Send == sent' > sent /\ UNCHANGED <<arrived, confirmed, filmed, received, acked>>

Arrives == /\ arrived < arrived' /\ arrived' <= sent
           /\ UNCHANGED <<sent, confirmed, filmed, received, acked>>

Confirm == /\ confirmed < confirmed' /\ confirmed' <= arrived
           /\ UNCHANGED <<sent, arrived, filmed, received, acked>>

Films == filmed' = filmed + 1 /\ UNCHANGED <<sent, arrived, confirmed, received, acked>>

Receive == /\ received < received' /\ received' <= filmed
           /\ UNCHANGED <<sent, arrived, confirmed, filmed, acked>>

Acked == /\ acked < acked' /\ acked' <= received
         /\ UNCHANGED <<sent, arrived, confirmed, filmed, received>>

FlowNext == Send \/ Arrives \/ Confirm \/ Films \/ Receive \/ Acked

FlowSpec == FlowInit /\ [][FlowNext]_flowVars
=============================================================================
