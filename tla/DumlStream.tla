------------------------------ MODULE DumlStream ------------------------------
(***************************************************************************)
(* DumlStreamReassembler: DUML frames found in bytes that arrive in pieces *)
(* of any size (BLE notifications, UDP payloads), between garbage, broken  *)
(* frames, and frames cut short.  The buffer is what follows offset.  A    *)
(* frame is Magic, its length, HeaderOk if the header's checksum holds, a  *)
(* body, and TailOk if the frame's checksum holds; every value also occurs *)
(* as garbage and inside bodies.                                           *)
(***************************************************************************)
EXTENDS Naturals, Sequences

CONSTANTS Bytes,     \* the values that occur
          Lengths,   \* legal frame lengths among them (13..1023 in the code)
          MaxPiece,  \* bound: bytes that arrive together
          MaxStream  \* bound: bytes altogether

ASSUME StreamAssumption ==
    /\ Bytes \subseteq Nat /\ MaxPiece \in Nat /\ MaxStream \in Nat
    /\ Lengths \subseteq {n \in Nat : n > 3}    \* longer than a header

Magic == 0
HeaderOk == 1
TailOk == 2
Header == 3          \* bytes of a header (4 in the code)

VARIABLES stream,    \* the bytes fed so far
          offset,    \* how many of them have left the buffer
          found,     \* the frames returned: where each begins and how long it is
          scanning,  \* feed's loop is under way
          closed     \* finish has been called

streamVars == <<stream, offset, found, scanning, closed>>

StreamInit == /\ stream = <<>> /\ offset = 0 /\ found = {}
              /\ scanning = FALSE /\ closed = FALSE

FeedPiece == /\ ~scanning /\ ~closed
             /\ \E n \in 1..MaxPiece : \E piece \in [1..n -> Bytes] :
                  /\ Len(stream) + n <= MaxStream
                  /\ stream' = stream \o piece
             /\ scanning' = TRUE
             /\ UNCHANGED <<offset, found, closed>>

-----------------------------------------------------------------------------
(* One turn of feed's loop.                                                 *)

Buffered == Len(stream) - offset
At(n) == stream[offset + n]
Marked == Buffered > 0 /\ At(1) = Magic

Drop(n) == offset' = offset + n /\ UNCHANGED <<stream, found, scanning, closed>>
Wait == scanning' = FALSE /\ UNCHANGED <<stream, offset, found, closed>>

\* Everything before the next magic byte goes.
SkipGarbage == /\ scanning /\ Buffered > 0 /\ ~Marked
               /\ \E n \in 1..Buffered :
                    /\ \A k \in 1..n : At(k) # Magic
                    /\ n < Buffered => At(n + 1) = Magic
                    /\ Drop(n)

Incomplete == /\ scanning
              /\ \/ Buffered = 0
                 \/ Marked /\ Buffered < Header
                 \/ /\ Marked /\ Buffered >= Header
                    /\ At(2) \in Lengths /\ At(3) = HeaderOk
                    /\ Buffered < At(2)
              /\ Wait

\* A bad length or header checksum: this magic byte was none.
BadHeader == /\ scanning /\ Marked /\ Buffered >= Header
             /\ At(2) \notin Lengths \/ At(3) # HeaderOk
             /\ Drop(1)

Candidate == /\ scanning /\ Marked /\ Buffered >= Header
             /\ At(2) \in Lengths /\ At(3) = HeaderOk
             /\ Buffered >= At(2)

\* Mutant: the whole candidate is given up.
BadTailDropsAll == /\ Candidate
                   /\ At(At(2)) # TailOk
                   /\ Drop(At(2))

\* A bad checksum at the end: only the magic byte is given up.
BadTail == /\ Candidate
           /\ At(At(2)) # TailOk
           /\ Drop(1)

Frame == /\ Candidate
         /\ At(At(2)) = TailOk
         /\ found' = found \cup {<<offset + 1, At(2)>>}
         /\ offset' = offset + At(2)
         /\ UNCHANGED <<stream, scanning, closed>>

\* The end of a packet: what is left is a truncated frame.
EndOfPacket == /\ ~scanning /\ ~closed
               /\ closed' = TRUE
               /\ offset' = Len(stream)
               /\ UNCHANGED <<stream, found, scanning>>

StreamNext == \/ FeedPiece \/ SkipGarbage \/ Incomplete \/ BadHeader \/ BadTail \/ Frame
              \/ EndOfPacket
              \/ closed /\ UNCHANGED streamVars

StreamSpec == StreamInit /\ [][StreamNext]_streamVars

-----------------------------------------------------------------------------
(* What it promises.                                                        *)

HeaderAt(p) == /\ p + Header - 1 <= Len(stream)
               /\ stream[p] = Magic /\ stream[p + 1] \in Lengths
               /\ stream[p + 2] = HeaderOk
FrameAt(p) == /\ HeaderAt(p)
              /\ p + stream[p + 1] - 1 <= Len(stream)
              /\ stream[p + stream[p + 1] - 1] = TailOk

\* The frames of the whole stream, leftmost first, as far as the first header
\* whose frame has not arrived.
Inside(p, q) == q <= p /\ p < q + stream[q + 1]
Leftmost(S) == \A p \in 1..Len(stream) :
    p \in S <=> FrameAt(p) /\ ~\E q \in S : q < p /\ Inside(p, q)
Unclosed(p) == HeaderAt(p) /\ p + stream[p + 1] - 1 > Len(stream)
Frames == LET S == CHOOSE S \in SUBSET {p \in 1..Len(stream) : FrameAt(p)} : Leftmost(S)
              blocked == {p \in 1..Len(stream) : Unclosed(p) /\ ~\E q \in S : q < p /\ Inside(p, q)}
          IN  {<<p, stream[p + 1]>> : p \in {p \in S : \A b \in blocked : p < b}}

\* However the stream is cut into pieces, the frames found in it are the same:
\* those one finds from the left in the whole (reassembly.py 48-96).
PiecesDoNotMatter == ~scanning => found = Frames
=============================================================================
