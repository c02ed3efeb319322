------------------------------- MODULE Broadcast -------------------------------
(***************************************************************************)
(* What sync.Notifier promises to its callers, without channels or locks.  *)
(*                                                                         *)
(* The notifier keeps a history of published values; version s of the      *)
(* value is hist[s + 1], so version 0 is the initial value.  Publishing    *)
(* appends a version.  A listener holds the last <<seq, val>> pair that an *)
(* AwaitChange or LastChange call returned to it, and learning replaces    *)
(* that pair by one that is at least as new: versions may be skipped, they *)
(* are never delivered out of order, and a value is never paired with the  *)
(* sequence number of another one.                                         *)
(***************************************************************************)
EXTENDS Integers, Sequences

CONSTANTS Listeners,  \* the goroutines that follow the notifier
          Values,     \* the values of type T
          InitialVal  \* the argument of NewNotifier

VARIABLES hist,       \* every version published so far
          seen        \* seen[l]: the last pair returned to listener l

vars == <<hist, seen>>

Versions == 0 .. (Len(hist) - 1)

Pair(s) == [seq |-> s, val |-> hist[s + 1]]

Init ==
    /\ hist = <<InitialVal>>
    /\ seen = [l \in Listeners |-> [seq |-> 0, val |-> InitialVal]]

Publish ==
    /\ \E v \in Values : hist' = Append(hist, v)
    /\ UNCHANGED seen

Learn(l) ==
    /\ \E s \in Versions :
          /\ s >= seen[l].seq
          /\ seen' = [seen EXCEPT ![l] = Pair(s)]
    /\ UNCHANGED hist

Next == Publish \/ \E l \in Listeners : Learn(l)

Spec == Init /\ [][Next]_vars

================================================================================
