------------------------------- MODULE BleLink -------------------------------
(***************************************************************************)
(* BluezBleTransport: one BLE connection of one session.  The operators    *)
(* are what its methods do up to the next await; whoever calls them says   *)
(* when.                                                                   *)
(***************************************************************************)
EXTENDS Integers, Sequences, SequencesExt, Pocket3Commands

VARIABLES link,        \* the client: "none", "up" or "down"
          subscribed,  \* _subscribed
          wire         \* frames begun on FFF5, each with its parts written

linkVars == <<link, subscribed, wire>>

LinkInit == link = "none" /\ subscribed = FALSE /\ wire = <<>>

\* A new transport: its client does not exist before connect.
NewLink == link' = "none" /\ subscribed' = FALSE /\ wire' = <<>>

Connected == link' = "up" /\ UNCHANGED <<subscribed, wire>>

Subscribed == /\ link = "up"
              /\ subscribed' = TRUE
              /\ UNCHANGED <<link, wire>>

\* send_frame up to its first await.
FrameBegun(f, authority) ==
    /\ Allowed(f, authority)
    /\ Validated(f)
    /\ link = "up"
    /\ wire' = Append(wire, [frame |-> f, parts |-> 0])
    /\ UNCHANGED <<link, subscribed>>

Current == Last(wire)
IsWhole(w) == w.parts = Parts(w.frame)

PartWritten == /\ link = "up"
               /\ wire' = [wire EXCEPT ![Len(wire)].parts = @ + 1]
               /\ UNCHANGED <<link, subscribed>>

\* The disconnected callback; it only counts, during setup or after it.
Dropped == link = "up" /\ link' = "down" /\ UNCHANGED <<subscribed, wire>>

\* disconnect: a failing or slow StopNotify is only reported.
Unsubscribed == /\ subscribed' = IF link = "up" THEN FALSE ELSE subscribed
                /\ UNCHANGED <<link, wire>>

Released == /\ link' = IF link = "up" THEN "down" ELSE link
            /\ UNCHANGED <<subscribed, wire>>
=============================================================================
