--------------------------- MODULE ApprovedFrames ---------------------------
(***************************************************************************)
(* What a session with the camera may put on FFF5: only frames the owner   *)
(* has approved for it, each at most once, each only after the camera has  *)
(* given the answers it builds on, and none once the session has ended.    *)
(***************************************************************************)
EXTENDS Sequences, SequencesExt

CONSTANTS Approved(_),   \* the frames approved for a kind of session
          Needs(_, _)    \* the answers a frame builds on, in a kind of session

VARIABLES kind, open, begun, replied

FramesInit == kind = "none" /\ open = FALSE /\ begun = <<>> /\ replied = {}

Opened == ~open /\ open' = TRUE /\ begun' = <<>> /\ replied' = {}

Begun(f) == /\ open
            /\ f \in Approved(kind) \ ToSet(begun)
            /\ Needs(kind, f) \subseteq replied
            /\ begun' = Append(begun, f)
            /\ UNCHANGED <<kind, open, replied>>

Replied == replied \subseteq replied' /\ UNCHANGED <<kind, open, begun>>

Closed == open' = FALSE /\ UNCHANGED <<kind, begun, replied>>

\* A process that dies takes its connection with it.
Gone == kind' = "none" /\ open' = FALSE /\ begun' = <<>> /\ replied' = {}

FramesNext == \/ Opened
              \/ \E f \in Approved(kind) : Begun(f)
              \/ Replied \/ Closed \/ Gone

FramesSpec == FramesInit /\ [][FramesNext]_<<kind, open, begun, replied>>
=============================================================================
