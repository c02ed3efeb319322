----------------------------- MODULE MCServiceGraph -----------------------------
(* Every graph over four services with at most MaxDeps edges from a node,    *)
(* cycles included.  The edges of a node are listed in one order; since any  *)
(* service can play any part, the other orders give nothing new.             *)
EXTENDS ServiceGraph, SequencesExt

CONSTANT MaxDeps   \* bound: the length of a dependency list

MCDepLists == {SetToSeq(S) : S \in {T \in SUBSET Services : Cardinality(T) <= MaxDeps}}

================================================================================
