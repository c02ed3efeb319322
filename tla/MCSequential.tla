------------------------------ MODULE MCSequential ------------------------------
(* The parts of the daemon that are sequential: the configuration, with the  *)
(* small documents of MCOspfConfig; the order of the services, with the      *)
(* graphs of MCServiceGraph; and LSAs.  They share no state, and a behaviour *)
(* is about one of them.                                                     *)
(*                                                                           *)
(* The bodies of the LSAs have three octets beside the check bytes, with     *)
(* values at the edges of 0, 255 and the sign, and the check bytes at every  *)
(* offset.                                                                   *)
EXTENDS MCOspfConfig, MCServiceGraph, Lsdb

EdgeOctets == {0, 1, 127, 128, 254, 255}
MCBodies ==
    {[octets |-> SubSeq(free, 1, offset) \o <<0, 0>> \o SubSeq(free, offset + 1, 3),
      offset |-> offset] : free \in [1 .. 3 -> EdgeOctets], offset \in 0 .. 3}

MCSeqs == {initialSequenceNumber, maxSequenceNumber}

AnyDocument == CHOOSE d \in Documents : TRUE
\* The LSA of a behaviour about another part: one that was damaged, of which the
\* properties say nothing.
NoLsa == [seq |-> initialSequenceNumber, checksum |-> 257, age |-> 0, octets |-> <<0, 0, 0>>]

VARIABLE part   \* the part this behaviour is about

allVars == <<part, vars, graphVars, lsaVars>>

MCInit ==
    /\ part \in {"config", "graph", "lsa"}
    /\ Init /\ (part # "config" => doc = AnyDocument)
    /\ GraphInit
    /\ IF part = "lsa" THEN LsaInit ELSE lsa = NoLsa /\ origin = <<>>

MCNext ==
    /\ UNCHANGED part
    /\ \/ part = "config" /\ Next /\ UNCHANGED <<graphVars, lsaVars>>
       \/ part = "graph" /\ GraphNext /\ UNCHANGED <<vars, lsaVars>>
       \/ part = "lsa" /\ LsaNext /\ UNCHANGED <<vars, graphVars>>

MCSpec == MCInit /\ [][MCNext]_allVars /\ WF_graphVars(Sort)

================================================================================
