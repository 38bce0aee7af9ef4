----------------------------- MODULE MCVideoLink -----------------------------
(***************************************************************************)
(* The parts of the receiving side of a normal session, checked one at a   *)
(* time: they share only the task that reads the socket, and none reads    *)
(* another's state.                                                        *)
(***************************************************************************)
EXTENDS UdpTransport, MediaAssembler, DumlStream

VARIABLE part

MCChallenges == {<<129, 1>>, <<130, 1>>}

Group(unit, sizes, length, nals) ==
    [unit |-> unit, sizes |-> sizes, length |-> length, nals |-> nals]
Key == {"sps", "pps", "key"}
Delta == {"delta"}

\* A large key unit of two groups among small ones, with every frame id used
\* twice; one of three groups, after one that the camera breaks off.
MCScripts ==
  {<<Group(1, <<1>>, 1, Delta), Group(2, <<2, 2>>, 5, Key), Group(2, <<1>>, 0, {}),
     Group(3, <<2, 1>>, 3, Delta), Group(4, <<1>>, 1, Delta), Group(5, <<1>>, 1, Key)>>,
   <<Group(1, <<2, 2>>, 5, Key), Group(2, <<2, 2>>, 9, Key), Group(2, <<2, 2>>, 0, {}),
     Group(2, <<1>>, 0, {}), Group(3, <<2, 2>>, 5, Delta), Group(3, <<1>>, 0, {})>>,
   <<Group(1, <<1>>, 1, {"sps"}), Group(2, <<1>>, 1, {"key"}), Group(3, <<1>>, 1, {"pps"}),
     Group(4, <<1>>, 1, {"key"}), Group(5, <<2>>, 1, Delta), Group(6, <<1>>, 1, Delta)>>}

LinkInit == /\ part \in {"transport", "media", "stream"}
            /\ Init
            /\ MediaInit
            /\ StreamInit
            /\ part # "media" => script = CHOOSE s \in Scripts : TRUE

LinkNext == \/ part = "transport" /\ Next /\ UNCHANGED <<mediaVars, streamVars, part>>
            \/ part = "media" /\ MediaNext /\ UNCHANGED <<vars, streamVars, part>>
            \/ part = "stream" /\ StreamNext /\ UNCHANGED <<vars, mediaVars, part>>

LinkSpec == LinkInit /\ [][LinkNext]_<<vars, mediaVars, streamVars, part>>
=============================================================================
