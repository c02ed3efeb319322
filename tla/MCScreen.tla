-------------------------------- MODULE MCScreen --------------------------------
(* The parts of the client that work alone: what it shows, and what it makes *)
(* of an address that is typed.  They share no state, and a behaviour is     *)
(* about one of them.                                                        *)
(*                                                                           *)
(* Writes of whole lines, several lines and pieces of lines on a screen of   *)
(* up to four lines; up to four words on screens of every small width.  The  *)
(* pieces of addresses are at the edges of what an octet or a group may be.  *)
EXTENDS Screen, Address

MCChunks == {<<"x", "\n">>, <<"\n", "x", "\n">>, <<"x">>, <<"\n", "\n">>}
MCWords == UNION {[1 .. n -> 1 .. 3] : n \in 0 .. 4}
MCPieces ==
    {<<0, 0>>, <<9, 9>>, <<1, 9, 9>>, <<2, 4, 9>>, <<2, 5, 5>>, <<2, 5, 6>>, <<2, 6, 0>>,
     <<3, 0, 0>>, <<1, 0, 0, 0>>, <<15, 15, 15, 15, 15>>, <<NoDigit>>}

VARIABLE part   \* the part this behaviour is about

MCInit == Init /\ AddressInit /\ part \in {"screen", "address"}

MCNext ==
    /\ UNCHANGED part
    /\ \/ part = "screen" /\ Next /\ UNCHANGED word
       \/ part = "address" /\ TypeKey /\ UNCHANGED vars

MCSpec == MCInit /\ [][MCNext]_<<part, vars, word>>

================================================================================
