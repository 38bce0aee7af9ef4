----------------------------- MODULE MediaDelivery -----------------------------
(***************************************************************************)
(* What the assembler promises the decoder: access units the camera has    *)
(* sent, each at most once, some never, in any order.                      *)
(***************************************************************************)
EXTENDS Naturals, Sequences, SequencesExt

VARIABLES units, delivered

DeliveryInit == units = {} /\ delivered = <<>>

SendUnit == units \subseteq units' /\ UNCHANGED delivered

Deliver == \E unit \in units \ Range(delivered) :
    delivered' = Append(delivered, unit) /\ UNCHANGED units

DeliverySpec == DeliveryInit /\ [][SendUnit \/ Deliver]_<<units, delivered>>
=============================================================================
