-------------------------- MODULE QueuedNotifierProofs --------------------------
(***************************************************************************)
(* Proofs about sync.QueuedNotifier, for any number of listeners and       *)
(* publishers and any number of values.                                    *)
(*                                                                         *)
(* The invariant IInv has four parts.  n.st is a mutex (OneNotify), so the *)
(* map cannot change under a NotifyChange; a queue is in exactly one place *)
(* (QueueIsOne), so what waits in it is well defined; only its owner has a *)
(* list in hand (HeldByOwner); and what was got, followed by what waits,   *)
(* is a run of consecutive versions (NothingMissed), which is inductive    *)
(* only with the others: a value that is put into a queue has to meet the  *)
(* whole list, and a rest that is put back must not cover a newer one.     *)
(***************************************************************************)
EXTENDS QueuedNotifier, SequenceTheorems, FiniteSetTheorems, TLAPS

--------------------------------------------------------------------------------
(* The inductive invariant                                                   *)

\* NotifyChange keeps n.st: at most one is in progress, it has still to do
\* queues of registered listeners only, and then nobody can change the map.
OneNotify ==
    /\ \A p \in Publishers : pc[p] # "idle" =>
          ~stFree /\ \A q \in Publishers \ {p} : pc[q] = "idle"
    /\ \A p \in Publishers :
          /\ todo[p] \subseteq registered
          /\ pc[p] = "idle" => todo[p] = {}
          /\ pc[p] = "put" => cur[p] \in todo[p]

\* Only the owner of a queue has a list in hand, and a listener that does has
\* an item to return.
HeldByOwner ==
    /\ \A p \in Procs : pc[p] \notin {"put", "give"} => held[p] = <<>>
    /\ \A l \in Listeners : pc[l] = "give" => held[l] # <<>>

\* The queue of l is a list, a token, or in somebody's hands.
ListThere(l) == (\E list \in items[l] : items[l] = {list}) /\ empty[l] = {} /\ Owners(l) = {}
TokenThere(l) == items[l] = {} /\ empty[l] = {TRUE} /\ Owners(l) = {}
Taken(l) == items[l] = {} /\ empty[l] = {} /\ \E p \in Owners(l) : Owners(l) = {p}
QueueIsOne ==
    \A l \in Listeners : pc[l] # "start" => ListThere(l) \/ TokenThere(l) \/ Taken(l)

\* Who has not called Register has no queue.
NoQueueBefore ==
    \A l \in Listeners : pc[l] = "start" =>
        /\ l \notin registered
        /\ items[l] = {} /\ empty[l] = {} /\ got[l] = <<>> /\ from[l] = 0

\* What reaches a queue is published after the registration.
ReachedInOrder ==
    \A l \in Listeners : from[l] <= Reached(l) /\ Reached(l) <= published

\* Where the goroutines are, and what they have in hand.
Control ==
    /\ \A p \in Publishers : pc[p] \in {"idle", "notify", "put"}
    /\ \A l \in Listeners : pc[l] \notin {"idle", "notify", "put"}
    /\ OneNotify /\ HeldByOwner /\ NoQueueBefore

\* The inductive invariant.
IInv == TypeOK /\ Control /\ QueueIsOne /\ ReachedInOrder /\ NothingMissed

--------------------------------------------------------------------------------
(* The proofs                                                                *)

\* The versions after f, up to n.
Versions(f, n) == [i \in 1 .. (n - f) |-> f + i]

\* Publishing one more value makes the list of versions one longer.
LEMMA VersionsGrow ==
  ASSUME NEW f \in Nat, NEW n \in Nat, f <= n
  PROVE  /\ Versions(f, n) \in Seq(Nat)
         /\ Versions(f, f) = <<>>
         /\ Append(Versions(f, n), n + 1) = Versions(f, n + 1)
<1>1. \A m \in Nat : f <= m => /\ Versions(f, m) \in Seq(Nat)
                               /\ Len(Versions(f, m)) = m - f
  <2> SUFFICES ASSUME NEW m \in Nat, f <= m
               PROVE  Versions(f, m) \in Seq(Nat) /\ Len(Versions(f, m)) = m - f
    OBVIOUS
  <2>1. m - f \in Nat /\ Versions(f, m) \in [1 .. (m - f) -> Nat]
    BY DEF Versions
  <2> QED
    BY <2>1
<1>2. Versions(f, f) = <<>>
  BY <1>1, EmptySeq
<1>3. Append(Versions(f, n), n + 1) = Versions(f, n + 1)
  <2>0. Versions(f, n) \in Seq(Nat) /\ Len(Versions(f, n)) = n - f /\ n + 1 \in Nat
    BY <1>1
  <2>1. /\ Append(Versions(f, n), n + 1) \in Seq(Nat)
        /\ Len(Append(Versions(f, n), n + 1)) = n - f + 1
        /\ \A i \in 1 .. (n - f) : Append(Versions(f, n), n + 1)[i] = Versions(f, n)[i]
        /\ Append(Versions(f, n), n + 1)[n - f + 1] = n + 1
    BY <2>0, AppendProperties
  <2>2. Versions(f, n + 1) \in Seq(Nat) /\ Len(Versions(f, n + 1)) = n + 1 - f
    BY <1>1
  <2>3. ASSUME NEW i \in 1 .. (n + 1 - f)
        PROVE  Append(Versions(f, n), n + 1)[i] = Versions(f, n + 1)[i]
    <3>0. i \in Nat /\ (i <= n - f \/ i = n - f + 1)
      OBVIOUS
    <3>1. CASE i <= n - f
      BY <3>1, <2>1 DEF Versions
    <3>2. CASE i = n - f + 1
      BY <3>2, <2>1 DEF Versions
    <3> QED
      BY <3>0, <3>1, <3>2
  <2> QED
    BY <2>1, <2>2, <2>3, SeqEqual
<1> QED
  BY <1>1, <1>2, <1>3

\* Put adds to the end of what is waiting, and so to the end of what a listener
\* got or will get.
LEMMA PutAtEnd ==
  ASSUME NEW s \in Seq(Nat), NEW w \in Seq(Nat), NEW n \in Nat
  PROVE  s \o Append(w, n) = Append(s \o w, n)
  BY AppendIsConcat, ConcatAssociative, ConcatProperties

\* Get moves the first item that is waiting to the end of what was got.
LEMMA GetFromFront ==
  ASSUME NEW s \in Seq(Nat), NEW w \in Seq(Nat), w # <<>>
  PROVE  /\ Append(s, Head(w)) \o Tail(w) = s \o w
         /\ Len(w) = 1 => Append(s, Head(w)) = s \o w
<1>1. /\ Head(w) \in Nat /\ Tail(w) \in Seq(Nat)
      /\ w = <<Head(w)>> \o Tail(w)
  <2>1. Head(w) \in Nat /\ Tail(w) \in Seq(Nat) /\ Len(Tail(w)) = Len(w) - 1
    BY HeadTailProperties
  <2>2. \A i \in 1 .. Len(w) : w[i] = (<<Head(w)>> \o Tail(w))[i]
    BY <2>1
  <2> QED
    BY <2>1, <2>2, SeqEqual, ConcatProperties
<1>2. Append(s, Head(w)) \o Tail(w) = s \o w
  <2>1. Append(s, Head(w)) = s \o <<Head(w)>> /\ <<Head(w)>> \in Seq(Nat)
    BY <1>1, AppendIsConcat
  <2>2. (s \o <<Head(w)>>) \o Tail(w) = s \o (<<Head(w)>> \o Tail(w))
    BY <1>1, <2>1, ConcatAssociative
  <2> QED
    BY <1>1, <2>1, <2>2
<1>3. ASSUME Len(w) = 1 PROVE Tail(w) = <<>>
  <2>1. Len(Tail(w)) = 0
    BY <1>3, HeadTailProperties
  <2> QED
    BY <1>1, <2>1, EmptySeq
<1>4. Append(s, Head(w)) \in Seq(Nat)
  BY <1>1
<1> QED
  BY <1>2, <1>3, <1>4, ConcatEmptySeq

\* What waits for a listener, said of each of the places its queue can be in.
WaitingByPlace ==
    \A l \in Listeners :
        /\ \A list : items[l] = {list} => Waiting(l) = list
        /\ \A p : items[l] = {} /\ Owners(l) = {p} => Waiting(l) = held[p]
        /\ items[l] = {} /\ Owners(l) = {} => Waiting(l) = <<>>

\* What waits for a listener, by the place where its queue is.
LEMMA WaitingIs == WaitingByPlace
<1>1. \A x : (CHOOSE y \in {x} : TRUE) = x
  OBVIOUS
<1> QED
  BY <1>1 DEF Waiting, WaitingByPlace

\* The same after a step.
LEMMA WaitingIsNext == WaitingByPlace'
  BY WaitingIs, PTL

\* It is the same after a step that leaves the queue where it is.
LEMMA WaitingStays ==
  ASSUME NEW m \in Listeners, items'[m] = items[m], Owners(m)' = Owners(m),
         \A p \in Owners(m) : held'[p] = held[p]
  PROVE  Waiting(m)' = Waiting(m)
<1>1. CASE items[m] # {}
  BY <1>1 DEF Waiting
<1>2. CASE items[m] = {} /\ Owners(m) = {}
  BY <1>2 DEF Waiting
<1>3. CASE items[m] = {} /\ Owners(m) # {}
  <2>1. (CHOOSE p \in Owners(m) : TRUE) \in Owners(m)
    BY <1>3
  <2> QED
    BY <1>3, <2>1 DEF Waiting
<1> QED
  BY <1>1, <1>2, <1>3

--------------------------------------------------------------------------------
(* One step                                                                  *)

\* Every step leaves the variables with their types.
LEMMA TypeStep == IInv /\ [Next]_vars => TypeOK'
<1> SUFFICES ASSUME IInv, [Next]_vars PROVE TypeOK'
  OBVIOUS
<1> USE ProcsAssumption
<1>t. TypeOK
  BY DEF IInv
<1>1. ASSUME NEW l \in Listeners, Register(l) PROVE TypeOK'
  BY <1>t, <1>1 DEF Register, NewQueue, TypeOK, Procs
<1>2. ASSUME NEW l \in Listeners, Unregister(l) PROVE TypeOK'
  BY <1>t, <1>2 DEF Unregister, queueVars, TypeOK, Procs
<1>3. ASSUME NEW l \in Listeners, AwaitLookup(l) PROVE TypeOK'
  BY <1>t, <1>3 DEF AwaitLookup, queueVars, historyVars, TypeOK, Procs
<1>4. ASSUME NEW l \in Listeners, GetDone(l) PROVE TypeOK'
  BY <1>t, <1>4 DEF GetDone, queueVars, historyVars, TypeOK, Procs
<1>5. ASSUME NEW l \in Listeners, GetTake(l) PROVE TypeOK'
  BY <1>t, <1>5 DEF GetTake, historyVars, TypeOK, Procs
<1>6. ASSUME NEW l \in Listeners, GetGive(l) PROVE TypeOK'
  <2>1. held[l] \in Seq(Nat) /\ held[l] # <<>>
    BY <1>t, <1>6 DEF GetGive, IInv, Control, HeldByOwner, TypeOK, Procs
  <2>2. Head(held[l]) \in Nat /\ Tail(held[l]) \in Seq(Nat)
    BY <2>1, HeadTailProperties
  <2>3. Len(held[l]) # 1 => Tail(held[l]) # <<>>
    <3>1. Len(held[l]) \in Nat \ {0} /\ Len(Tail(held[l])) = Len(held[l]) - 1
      BY <2>1, EmptySeq, HeadTailProperties
    <3>2. Len(<<>>) = 0
      OBVIOUS
    <3>3. ASSUME Len(held[l]) # 1, Tail(held[l]) = <<>> PROVE FALSE
      <4>1. Len(Tail(held[l])) = 0
        BY <3>2, <3>3
      <4> QED
        BY <3>1, <3>3, <4>1
    <3> QED
      BY <3>3
  <2>4. /\ items' \in [Listeners -> SUBSET (Seq(Nat) \ {<<>>})]
        /\ empty' \in [Listeners -> SUBSET {TRUE}]
    <3>1. CASE Len(held[l]) = 1
      <4>1. items' = items /\ empty' = [empty EXCEPT ![l] = {TRUE}]
        BY <1>6, <3>1 DEF GetGive
      <4> QED
        BY <1>t, <4>1 DEF TypeOK
    <3>2. CASE Len(held[l]) # 1
      <4>1. {Tail(held[l])} \in SUBSET (Seq(Nat) \ {<<>>})
        BY <2>2, <2>3, <3>2
      <4> QED
        BY <1>t, <1>6, <3>2, <4>1 DEF GetGive, TypeOK
    <3> QED
      BY <3>1, <3>2
  <2>5. got' \in [Listeners -> Seq(Nat)]
    BY <1>t, <1>6, <2>2, AppendProperties DEF GetGive, TypeOK
  <2>6. held' \in [Procs -> Seq(Nat)]
    BY <1>t, <1>6, EmptySeq DEF GetGive, TypeOK
  <2> QED
    BY <1>t, <1>6, <2>4, <2>5, <2>6 DEF GetGive, TypeOK, Procs
<1>7. ASSUME NEW l \in Listeners, Cancel(l) PROVE TypeOK'
  BY <1>t, <1>7 DEF Cancel, queueVars, historyVars, TypeOK, Procs
<1>8. ASSUME NEW p \in Publishers, NotifyBegin(p) PROVE TypeOK'
  <2>1. todo' \in [Publishers -> SUBSET Listeners]
    BY <1>t, <1>8 DEF NotifyBegin, TypeOK
  <2>2. pc' \in [Procs -> {"start", "ready", "get", "give", "refused", "idle", "notify", "put"}]
    BY <1>t, <1>8 DEF NotifyBegin, TypeOK
  <2>3. published' \in Nat
    BY <1>t, <1>8 DEF NotifyBegin, TypeOK
  <2> QED
    BY <1>t, <1>8, <2>1, <2>2, <2>3 DEF NotifyBegin, queueVars, TypeOK
<1>9. ASSUME NEW p \in Publishers, PutTake(p) PROVE TypeOK'
  <2>1. PICK l \in todo[p] :
            /\ cur' = [cur EXCEPT ![p] = l]
            /\ \/ \E list \in items[l] : /\ held' = [held EXCEPT ![p] = list]
                                         /\ items' = [items EXCEPT ![l] = {}]
                                         /\ UNCHANGED empty
               \/ empty' = [empty EXCEPT ![l] = {}] /\ UNCHANGED <<items, held>>
    BY <1>9 DEF PutTake
  <2>2. l \in Listeners
    BY <1>t, <2>1 DEF TypeOK
  <2>3. items' \in [Listeners -> SUBSET (Seq(Nat) \ {<<>>})]
    BY <1>t, <2>1 DEF TypeOK
  <2>4. empty' \in [Listeners -> SUBSET {TRUE}]
    BY <1>t, <2>1 DEF TypeOK
  <2>5. held' \in [Procs -> Seq(Nat)]
    <3>1. \A list \in items[l] : list \in Seq(Nat)
      BY <1>t, <2>2 DEF TypeOK
    <3>2. held \in [Procs -> Seq(Nat)] /\ p \in Procs
      BY <1>t DEF TypeOK, Procs
    <3> QED
      BY <2>1, <3>1, <3>2
  <2>6. cur' \in [Publishers -> Listeners \cup {NoQueue}]
    BY <1>t, <2>1, <2>2 DEF TypeOK
  <2> QED
    BY <1>t, <1>9, <2>3, <2>4, <2>5, <2>6 DEF PutTake, historyVars, TypeOK, Procs
<1>10. ASSUME NEW p \in Publishers, PutGive(p) PROVE TypeOK'
  <2>1. /\ held[p] \in Seq(Nat) /\ published \in Nat
        /\ cur[p] \in Listeners \cup {NoQueue}
    BY <1>t DEF TypeOK, Procs
  <2>2. Append(held[p], published) \in Seq(Nat) \ {<<>>}
    <3>1. Append(held[p], published) \in Seq(Nat)
      BY <2>1, AppendProperties
    <3>2. Append(held[p], published) # <<>>
      BY <2>1, AppendProperties
    <3> QED
      BY <3>1, <3>2
  <2>3. items' \in [Listeners -> SUBSET (Seq(Nat) \ {<<>>})]
    BY <1>t, <1>10, <2>1, <2>2 DEF PutGive, TypeOK
  <2>4. held' \in [Procs -> Seq(Nat)]
    BY <1>t, <1>10, EmptySeq DEF PutGive, TypeOK
  <2> QED
    BY <1>t, <1>10, <2>3, <2>4 DEF PutGive, historyVars, TypeOK, Procs
<1>11. ASSUME NEW p \in Publishers, NotifyEnd(p) PROVE TypeOK'
  BY <1>t, <1>11 DEF NotifyEnd, queueVars, historyVars, TypeOK, Procs
<1>12. CASE UNCHANGED vars
  BY <1>t, <1>12 DEF vars, TypeOK, Procs
<1> QED
  BY <1>1, <1>2, <1>3, <1>4, <1>5, <1>6, <1>7, <1>8, <1>9, <1>10, <1>11, <1>12
     DEF Next, ListenerStep, AwaitStep, PublisherStep, PutStep

\* Every step leaves n.st with at most one NotifyChange, and every queue in one
\* place.
LEMMA ControlStep == IInv /\ [Next]_vars => Control'
<1> SUFFICES ASSUME IInv, [Next]_vars PROVE Control'
  OBVIOUS
<1> USE ProcsAssumption DEF Procs
<1>t. TypeOK
  BY DEF IInv
<1>c. Control
  BY DEF IInv
<1>1. ASSUME NEW l \in Listeners, Register(l) PROVE Control'
  <2>1. OneNotify'
    BY <1>t, <1>c, <1>1 DEF Register, TypeOK, Control, OneNotify
  <2>2. HeldByOwner'
    BY <1>t, <1>c, <1>1 DEF Register, TypeOK, Control, HeldByOwner
  <2>3. NoQueueBefore'
    BY <1>t, <1>c, <1>1 DEF Register, NewQueue, TypeOK, Control, NoQueueBefore
  <2> QED
    BY <1>t, <1>c, <1>1, <2>1, <2>2, <2>3 DEF Register, TypeOK, Control
<1>2. ASSUME NEW l \in Listeners, Unregister(l) PROVE Control'
  BY <1>t, <1>c, <1>2
     DEF Unregister, queueVars, TypeOK, Control, OneNotify, HeldByOwner, NoQueueBefore
<1>3. ASSUME NEW l \in Listeners, AwaitLookup(l) PROVE Control'
  BY <1>t, <1>c, <1>3
     DEF AwaitLookup, queueVars, historyVars, TypeOK, Control, OneNotify, HeldByOwner,
         NoQueueBefore
<1>4. ASSUME NEW l \in Listeners, GetDone(l) PROVE Control'
  BY <1>t, <1>c, <1>4
     DEF GetDone, queueVars, historyVars, TypeOK, Control, OneNotify, HeldByOwner,
         NoQueueBefore
<1>5. ASSUME NEW l \in Listeners, GetTake(l) PROVE Control'
  <2>1. PICK list \in items[l] : held' = [held EXCEPT ![l] = list]
    BY <1>5 DEF GetTake
  <2>2. list # <<>>
    BY <1>t, <2>1 DEF TypeOK
  <2> QED
    BY <1>t, <1>c, <1>5, <2>1, <2>2
       DEF GetTake, historyVars, TypeOK, Control, OneNotify, HeldByOwner, NoQueueBefore
<1>6. ASSUME NEW l \in Listeners, GetGive(l) PROVE Control'
  <2>1. OneNotify' /\ HeldByOwner'
    BY <1>t, <1>c, <1>6 DEF GetGive, TypeOK, Control, OneNotify, HeldByOwner
  <2>2. \A m \in Listeners \ {l} : items'[m] = items[m] /\ empty'[m] = empty[m]
    BY <1>t, <1>6 DEF GetGive, TypeOK
  <2>3. NoQueueBefore'
    BY <1>t, <1>c, <1>6, <2>2 DEF GetGive, TypeOK, Control, NoQueueBefore
  <2> QED
    BY <1>t, <1>c, <1>6, <2>1, <2>3 DEF GetGive, TypeOK, Control
<1>7. ASSUME NEW l \in Listeners, Cancel(l) PROVE Control'
  BY <1>t, <1>c, <1>7
     DEF Cancel, queueVars, historyVars, TypeOK, Control, OneNotify, HeldByOwner,
         NoQueueBefore
<1>8. ASSUME NEW p \in Publishers, NotifyBegin(p) PROVE Control'
  BY <1>t, <1>c, <1>8
     DEF NotifyBegin, queueVars, TypeOK, Control, OneNotify, HeldByOwner, NoQueueBefore
<1>9. ASSUME NEW p \in Publishers, PutTake(p) PROVE Control'
  <2>1. PICK l \in todo[p] :
            /\ cur' = [cur EXCEPT ![p] = l]
            /\ \/ \E list \in items[l] : /\ held' = [held EXCEPT ![p] = list]
                                         /\ items' = [items EXCEPT ![l] = {}]
                                         /\ UNCHANGED empty
               \/ empty' = [empty EXCEPT ![l] = {}] /\ UNCHANGED <<items, held>>
    BY <1>9 DEF PutTake
  <2>2. l \in Listeners /\ pc[l] # "start"
    BY <1>t, <1>c, <2>1 DEF TypeOK, Control, OneNotify, NoQueueBefore
  <2>3. OneNotify'
    BY <1>t, <1>c, <1>9, <2>1 DEF PutTake, TypeOK, Control, OneNotify
  <2>4. \A q \in Procs \ {p} : held'[q] = held[q]
    BY <1>t, <2>1 DEF TypeOK
  <2>5. HeldByOwner'
    BY <1>t, <1>c, <1>9, <2>4 DEF PutTake, TypeOK, Control, HeldByOwner
  <2>6. \A m \in Listeners \ {l} : items'[m] = items[m] /\ empty'[m] = empty[m]
    BY <1>t, <2>1, <2>2 DEF TypeOK
  <2>7. NoQueueBefore'
    BY <1>t, <1>c, <1>9, <2>2, <2>6
       DEF PutTake, historyVars, TypeOK, Control, NoQueueBefore
  <2> QED
    BY <1>t, <1>c, <1>9, <2>3, <2>5, <2>7 DEF PutTake, TypeOK, Control
<1>10. ASSUME NEW p \in Publishers, PutGive(p) PROVE Control'
  <2>1. cur[p] \in todo[p] /\ cur[p] \in Listeners /\ pc[cur[p]] # "start"
    BY <1>t, <1>c, <1>10 DEF PutGive, TypeOK, Control, OneNotify, NoQueueBefore
  <2> QED
    BY <1>t, <1>c, <1>10, <2>1
       DEF PutGive, historyVars, TypeOK, Control, OneNotify, HeldByOwner, NoQueueBefore
<1>11. ASSUME NEW p \in Publishers, NotifyEnd(p) PROVE Control'
  BY <1>t, <1>c, <1>11
     DEF NotifyEnd, queueVars, historyVars, TypeOK, Control, OneNotify, HeldByOwner,
         NoQueueBefore
<1>12. CASE UNCHANGED vars
  BY <1>c, <1>12 DEF vars, Control, OneNotify, HeldByOwner, NoQueueBefore
<1> QED
  BY <1>1, <1>2, <1>3, <1>4, <1>5, <1>6, <1>7, <1>8, <1>9, <1>10, <1>11, <1>12
     DEF Next, ListenerStep, AwaitStep, PublisherStep, PutStep

--------------------------------------------------------------------------------
(* What a step does to the queues                                            *)

\* A queue in which there is a list, or a token, has no owner; one that somebody
\* has taken is his alone.
LEMMA PlaceOfQueue ==
  ASSUME IInv, NEW l \in Listeners, pc[l] # "start"
  PROVE  /\ items[l] # {} => ListThere(l)
         /\ empty[l] # {} => TokenThere(l)
         /\ \A p \in Owners(l) : /\ Owners(l) = {p}
                                 /\ items[l] = {} /\ empty[l] = {}
  BY DEF IInv, QueueIsOne, ListThere, TokenThere, Taken

\* Put takes what is in a queue that has no owner.
LEMMA PutTakes ==
  ASSUME IInv, NEW p \in Publishers, PutTake(p)
  PROVE  \E l \in todo[p] \cap Listeners :
            /\ pc[l] # "start"
            /\ items[l] = {held'[p]} \/ (items[l] = {} /\ held'[p] = <<>>)
            /\ Owners(l) = {} /\ Owners(l)' = {p}
            /\ items'[l] = {} /\ empty'[l] = {}
            /\ \A m \in Listeners \ {l} : /\ Owners(m)' = Owners(m)
                                          /\ items'[m] = items[m] /\ empty'[m] = empty[m]
            /\ \A q \in Procs \ {p} : held'[q] = held[q]
<1> USE ProcsAssumption DEF Procs
<1>t. TypeOK /\ Control
  BY DEF IInv
<1>1. PICK l \in todo[p] :
          /\ cur' = [cur EXCEPT ![p] = l]
          /\ \/ \E list \in items[l] : /\ held' = [held EXCEPT ![p] = list]
                                       /\ items' = [items EXCEPT ![l] = {}]
                                       /\ UNCHANGED empty
             \/ /\ empty[l] # {}
                /\ empty' = [empty EXCEPT ![l] = {}]
                /\ UNCHANGED <<items, held>>
  BY DEF PutTake
<1>2. /\ l \in Listeners /\ pc[l] # "start"
      /\ pc[p] = "notify" /\ pc' = [pc EXCEPT ![p] = "put"] /\ held[p] = <<>>
  BY <1>t, <1>1 DEF PutTake, TypeOK, Control, OneNotify, HeldByOwner, NoQueueBefore
<1>3. ListThere(l) \/ TokenThere(l)
  BY <1>1, <1>2, PlaceOfQueue
<1>4. Owners(l) = {}
  BY <1>3 DEF ListThere, TokenThere
<1>5. Owners(l)' = {p}
  <2>1. pc'[l] # "give"
    BY <1>t, <1>2, <1>4 DEF Owners, TypeOK
  <2>2. \A q \in Publishers : pc'[q] = "put" /\ cur'[q] = l <=> q = p
    BY <1>t, <1>1, <1>2, <1>4 DEF Owners, TypeOK
  <2> QED
    BY <2>1, <2>2 DEF Owners
<1>6. items'[l] = {} /\ empty'[l] = {}
  BY <1>t, <1>1, <1>2, <1>3 DEF ListThere, TokenThere, TypeOK
<1>7. items[l] = {held'[p]} \/ (items[l] = {} /\ held'[p] = <<>>)
  <2>1. CASE \E list \in items[l] : held' = [held EXCEPT ![p] = list]
    <3>1. held'[p] \in items[l]
      BY <1>t, <2>1 DEF TypeOK
    <3>2. ListThere(l)
      BY <1>2, <3>1, PlaceOfQueue
    <3> QED
      BY <3>1, <3>2 DEF ListThere
  <2>2. CASE empty[l] # {} /\ UNCHANGED held
    <3>1. TokenThere(l)
      BY <1>2, <2>2, PlaceOfQueue
    <3> QED
      BY <1>2, <2>2, <3>1 DEF TokenThere
  <2> QED
    BY <1>1, <2>1, <2>2
<1>8. ASSUME NEW m \in Listeners \ {l}
      PROVE  Owners(m)' = Owners(m) /\ items'[m] = items[m] /\ empty'[m] = empty[m]
  BY <1>t, <1>1, <1>2 DEF Owners, TypeOK
<1>9. \A q \in Procs \ {p} : held'[q] = held[q]
  BY <1>t, <1>1 DEF TypeOK
<1> QED
  BY <1>1, <1>2, <1>4, <1>5, <1>6, <1>7, <1>8, <1>9

\* p puts the list of l back, with the value published last.
GivesBack(p, l) ==
    /\ l = cur[p] /\ pc[l] # "start"
    /\ Owners(l) = {p} /\ Owners(l)' = {}
    /\ items[l] = {} /\ items'[l] = {Append(held[p], published)}
    /\ empty'[l] = {}
    /\ \A m \in Listeners \ {l} : /\ Owners(m)' = Owners(m)
                                  /\ items'[m] = items[m] /\ empty'[m] = empty[m]
    /\ \A q \in Procs \ {p} : held'[q] = held[q]

\* Put gives the list back, with the value at its end.
LEMMA PutGives ==
  ASSUME IInv, NEW p \in Publishers, PutGive(p)
  PROVE  \E l \in todo[p] \cap Listeners : GivesBack(p, l)
<1> USE ProcsAssumption DEF Procs
<1>t. TypeOK /\ Control
  BY DEF IInv
<1>1. PICK l \in Listeners : l = cur[p] /\ l \in todo[p] /\ pc[l] # "start"
  BY <1>t DEF PutGive, TypeOK, Control, OneNotify, NoQueueBefore
<1>2. p \in Owners(l)
  BY <1>1 DEF PutGive, Owners
<1>3. Owners(l) = {p} /\ items[l] = {} /\ empty[l] = {}
  BY <1>1, <1>2, PlaceOfQueue
<1>4. Owners(l)' = {}
  <2>1. pc'[l] # "give"
    BY <1>t, <1>1, <1>3 DEF PutGive, Owners, TypeOK
  <2>2. \A q \in Publishers : ~(pc'[q] = "put" /\ cur'[q] = l)
    BY <1>t, <1>3 DEF PutGive, Owners, TypeOK
  <2> QED
    BY <2>1, <2>2 DEF Owners
<1>5. empty'[l] = {} /\ items'[l] = {Append(held[p], published)}
  BY <1>t, <1>1, <1>3 DEF PutGive, TypeOK
<1>6. ASSUME NEW m \in Listeners \ {l}
      PROVE  Owners(m)' = Owners(m) /\ items'[m] = items[m] /\ empty'[m] = empty[m]
  BY <1>t, <1>1, NoQueueAssumption DEF PutGive, Owners, TypeOK
<1>7. \A q \in Procs \ {p} : held'[q] = held[q]
  BY <1>t DEF PutGive, TypeOK
<1> QED
  BY <1>1, <1>3, <1>4, <1>5, <1>6, <1>7 DEF GivesBack

\* Get takes the list.
LEMMA GetTakes ==
  ASSUME IInv, NEW l \in Listeners, GetTake(l)
  PROVE  /\ items[l] = {held'[l]} /\ Owners(l)' = {l}
         /\ items'[l] = {} /\ empty'[l] = {}
         /\ \A m \in Listeners \ {l} : /\ Owners(m)' = Owners(m)
                                       /\ items'[m] = items[m] /\ empty'[m] = empty[m]
         /\ \A q \in Procs \ {l} : held'[q] = held[q]
<1> USE ProcsAssumption DEF Procs
<1>t. TypeOK /\ Control
  BY DEF IInv
<1>1. ListThere(l)
  BY PlaceOfQueue DEF GetTake
<1>2. items[l] = {held'[l]} /\ items'[l] = {} /\ empty'[l] = {}
  BY <1>t, <1>1 DEF GetTake, ListThere, TypeOK
<1>3. Owners(l)' = {l}
  BY <1>t, <1>1 DEF GetTake, Owners, ListThere, TypeOK
<1>4. ASSUME NEW m \in Listeners \ {l}
      PROVE  Owners(m)' = Owners(m) /\ items'[m] = items[m] /\ empty'[m] = empty[m]
  BY <1>t DEF GetTake, Owners, TypeOK
<1>5. \A q \in Procs \ {l} : held'[q] = held[q]
  BY <1>t DEF GetTake, TypeOK
<1> QED
  BY <1>2, <1>3, <1>4, <1>5

\* Get gives back the rest of the list, or the token when there is no rest.
LEMMA GetGives ==
  ASSUME IInv, NEW l \in Listeners, GetGive(l)
  PROVE  /\ held[l] \in Seq(Nat) /\ held[l] # <<>>
         /\ items[l] = {} /\ Owners(l) = {l} /\ Owners(l)' = {}
         /\ \/ Len(held[l]) = 1 /\ items'[l] = {} /\ empty'[l] = {TRUE}
            \/ Len(held[l]) # 1 /\ items'[l] = {Tail(held[l])} /\ empty'[l] = {}
         /\ \A m \in Listeners \ {l} : /\ Owners(m)' = Owners(m)
                                       /\ items'[m] = items[m] /\ empty'[m] = empty[m]
         /\ \A q \in Procs \ {l} : held'[q] = held[q]
<1> USE ProcsAssumption DEF Procs
<1>t. TypeOK /\ Control
  BY DEF IInv
<1>0. held[l] \in Seq(Nat) /\ held[l] # <<>>
  BY <1>t DEF GetGive, Control, HeldByOwner, TypeOK
<1>1. Owners(l) = {l} /\ items[l] = {} /\ empty[l] = {}
  <2>1. l \in Owners(l) /\ pc[l] # "start"
    BY DEF GetGive, Owners
  <2> QED
    BY <2>1, PlaceOfQueue
<1>2. Owners(l)' = {}
  BY <1>t, <1>1 DEF GetGive, Owners, TypeOK
<1>3. \/ Len(held[l]) = 1 /\ items'[l] = {} /\ empty'[l] = {TRUE}
      \/ Len(held[l]) # 1 /\ items'[l] = {Tail(held[l])} /\ empty'[l] = {}
  BY <1>t, <1>1 DEF GetGive, TypeOK
<1>4. ASSUME NEW m \in Listeners \ {l}
      PROVE  Owners(m)' = Owners(m) /\ items'[m] = items[m] /\ empty'[m] = empty[m]
  <2>1. Owners(m)' = Owners(m)
    BY <1>t DEF GetGive, Owners, TypeOK
  <2>2. items'[m] = items[m] /\ empty'[m] = empty[m]
    BY <1>t DEF GetGive, TypeOK
  <2> QED
    BY <2>1, <2>2
<1>5. \A q \in Procs \ {l} : held'[q] = held[q]
  BY <1>t DEF GetGive, TypeOK
<1> QED
  BY <1>0, <1>1, <1>2, <1>3, <1>4, <1>5

\* The other operations leave the queues alone, but for the new one of Register.
OtherStep ==
    \/ \E l \in Listeners : \/ Register(l) \/ Unregister(l) \/ AwaitLookup(l)
                            \/ GetDone(l) \/ Cancel(l)
    \/ \E p \in Publishers : NotifyBegin(p) \/ NotifyEnd(p)
    \/ UNCHANGED vars

\* The steps that neither take a list nor give one back leave all lists alone,
\* but for the empty one of a listener that registers.
LEMMA OthersTakeNothing ==
  ASSUME IInv, OtherStep, NEW m \in Listeners
  PROVE  /\ Owners(m)' = Owners(m) /\ items' = items /\ held' = held
         /\ \/ pc[m] = "start" /\ pc'[m] # "start" /\ empty'[m] = {TRUE} /\ Register(m)
            \/ (pc[m] = "start" <=> pc'[m] = "start") /\ empty'[m] = empty[m]
<1> USE ProcsAssumption DEF Procs
<1>t. TypeOK /\ Control
  BY DEF IInv
<1>1. items' = items /\ held' = held
  BY DEF OtherStep, Register, Unregister, AwaitLookup, GetDone, Cancel, NotifyBegin,
         NotifyEnd, queueVars, vars
<1>2. Owners(m)' = Owners(m)
  <2>1. \A q \in Publishers : (pc'[q] = "put" <=> pc[q] = "put") /\ cur' = cur
    BY <1>t DEF OtherStep, Register, Unregister, AwaitLookup, GetDone, Cancel,
         NotifyBegin, NotifyEnd, vars, TypeOK
  <2>2. pc'[m] = "give" <=> pc[m] = "give"
    BY <1>t DEF OtherStep, Register, Unregister, AwaitLookup, GetDone, Cancel,
         NotifyBegin, NotifyEnd, vars, TypeOK
  <2> QED
    BY <2>1, <2>2 DEF Owners
<1>3. \/ pc[m] = "start" /\ pc'[m] # "start" /\ empty'[m] = {TRUE} /\ Register(m)
      \/ (pc[m] = "start" <=> pc'[m] = "start") /\ empty'[m] = empty[m]
  <2>1. ASSUME NEW l \in Listeners, Register(l) PROVE <1>3!:
    BY <1>t, <2>1 DEF Register, NewQueue, TypeOK
  <2>2. CASE ~ \E l \in Listeners : Register(l)
    BY <1>t, <2>2 DEF OtherStep, Unregister, AwaitLookup, GetDone, Cancel,
         NotifyBegin, NotifyEnd, queueVars, vars, TypeOK
  <2> QED
    BY <2>1, <2>2
<1> QED
  BY <1>1, <1>2, <1>3

\* Every step is one of these.
LEMMA Steps ==
  ASSUME [Next]_vars
  PROVE  \/ OtherStep
         \/ \E l \in Listeners : GetTake(l) \/ GetGive(l)
         \/ \E p \in Publishers : PutTake(p) \/ PutGive(p)
  BY DEF Next, ListenerStep, AwaitStep, PublisherStep, PutStep, OtherStep

--------------------------------------------------------------------------------

\* A queue is always in one place.
LEMMA QueueStep == IInv /\ [Next]_vars => QueueIsOne'
<1> SUFFICES ASSUME IInv, [Next]_vars, NEW m \in Listeners, pc'[m] # "start"
             PROVE  (ListThere(m) \/ TokenThere(m) \/ Taken(m))'
  BY DEF QueueIsOne
<1> DEFINE One == ListThere(m) \/ TokenThere(m) \/ Taken(m)
<1> USE ProcsAssumption DEF Procs
<1>t. TypeOK /\ Control
  BY DEF IInv
<1>s. ASSUME pc[m] # "start", items'[m] = items[m], empty'[m] = empty[m],
             Owners(m)' = Owners(m)
      PROVE  One'
  BY <1>s DEF IInv, QueueIsOne, ListThere, TokenThere, Taken
<1>1. CASE OtherStep
  <2>1. CASE Register(m)
    <3>1. Owners(m) = {} /\ items[m] = {}
      BY <1>t, <2>1
         DEF Register, Owners, TypeOK, Control, OneNotify, NoQueueBefore
    <3> QED
      BY <1>1, <2>1, <3>1, OthersTakeNothing DEF Register, NewQueue, TokenThere, TypeOK
  <2>2. CASE ~Register(m)
    BY <1>1, <1>s, <2>2, OthersTakeNothing
  <2> QED
    BY <2>1, <2>2
<1>2. ASSUME NEW l \in Listeners, GetTake(l) PROVE One'
  <2>1. CASE m = l
    BY <1>2, <2>1, GetTakes DEF Taken
  <2>2. CASE m # l
    BY <1>t, <1>2, <1>s, <2>2, GetTakes DEF GetTake, TypeOK
  <2> QED
    BY <2>1, <2>2
<1>3. ASSUME NEW l \in Listeners, GetGive(l) PROVE One'
  <2>1. CASE m = l
    BY <1>3, <2>1, GetGives DEF ListThere, TokenThere
  <2>2. CASE m # l
    BY <1>t, <1>3, <1>s, <2>2, GetGives DEF GetGive, TypeOK
  <2> QED
    BY <2>1, <2>2
<1>4. ASSUME NEW p \in Publishers, PutTake(p) PROVE One'
  <2>1. pc'[m] = pc[m]
    BY <1>t, <1>4 DEF PutTake, TypeOK
  <2> QED
    BY <1>4, <1>s, <2>1, PutTakes DEF Taken
<1>5. ASSUME NEW p \in Publishers, PutGive(p) PROVE One'
  <2>1. pc'[m] = pc[m]
    BY <1>t, <1>5 DEF PutGive, TypeOK
  <2>2. PICK l \in todo[p] \cap Listeners : GivesBack(p, l)
    BY <1>5, PutGives
  <2>3. CASE m = l
    BY <2>2, <2>3 DEF GivesBack, ListThere
  <2>4. CASE m # l
    BY <1>s, <2>1, <2>2, <2>4 DEF GivesBack
  <2> QED
    BY <2>3, <2>4
<1> QED
  BY <1>1, <1>2, <1>3, <1>4, <1>5, Steps

\* What a listener got and will get grows at its end, by what is published, and
\* only while it is registered.
LEMMA HistoryStep == IInv /\ [Next]_vars => ReachedInOrder' /\ NothingMissed'
<1> SUFFICES ASSUME IInv, [Next]_vars, NEW m \in Listeners
             PROVE  /\ (from[m] <= Reached(m) /\ Reached(m) <= published)'
                    /\ (got[m] \o Waiting(m) = Versions(from[m], Reached(m)))'
  BY DEF ReachedInOrder, NothingMissed, Versions
<1> DEFINE Right == /\ from[m] <= Reached(m) /\ Reached(m) <= published
                    /\ got[m] \o Waiting(m) = Versions(from[m], Reached(m))
<1> USE ProcsAssumption DEF Procs
<1>t. TypeOK /\ Control
  BY DEF IInv
<1>r. Right
  BY DEF IInv, ReachedInOrder, NothingMissed, Versions
<1>n. Reached(m) \in Int /\ published \in Nat /\ from[m] \in Nat /\ got[m] \in Seq(Nat)
  BY <1>t DEF Reached, TypeOK
<1>w. /\ \A list : items[m] = {list} => Waiting(m) = list
      /\ \A p : items[m] = {} /\ Owners(m) = {p} => Waiting(m) = held[p]
      /\ items[m] = {} /\ Owners(m) = {} => Waiting(m) = <<>>
  BY WaitingIs DEF WaitingByPlace
<1>v. /\ \A list : items'[m] = {list} => Waiting(m)' = list
      /\ \A p : items'[m] = {} /\ Owners(m)' = {p} => Waiting(m)' = held'[p]
      /\ items'[m] = {} /\ Owners(m)' = {} => Waiting(m)' = <<>>
  BY WaitingIsNext DEF WaitingByPlace
<1>s. ASSUME got'[m] = got[m], from'[m] = from[m], Waiting(m)' = Waiting(m),
             Reached(m)' = Reached(m), published' \in Nat, published <= published'
      PROVE  Right'
  BY <1>r, <1>n, <1>s
<1>o. Owners(m) \subseteq Procs
  BY DEF Owners
<1>f. stFree => \A q \in Publishers : m \notin todo[q]
  BY <1>t DEF Control, OneNotify
<1>1. CASE OtherStep
  <2>w. Waiting(m)' = Waiting(m)
    BY <1>1, OthersTakeNothing, WaitingStays
  <2>1. ASSUME NEW l \in Listeners, Register(l) PROVE Right'
    <3>1. CASE m = l
      <4>1. got'[m] = <<>> /\ items[m] = {} /\ Owners(m) = {}
        BY <1>t, <2>1, <3>1
           DEF Register, Owners, TypeOK, Control, OneNotify, NoQueueBefore
      <4>2. Reached(m)' = published /\ from'[m] = published /\ published' = published
        BY <1>t, <1>f, <2>1, <3>1 DEF Register, Reached, TypeOK
      <4>3. got'[m] \o Waiting(m)' = <<>>
        BY <1>w, <2>w, <4>1, ConcatEmptySeq
      <4>4. Versions(published, published) = <<>>
        BY <1>n, VersionsGrow
      <4> QED
        BY <1>n, <4>2, <4>3, <4>4
    <3>2. CASE m # l
      <4>1. Reached(m)' = Reached(m)
        BY <1>t, <2>1, <3>2 DEF Register, Reached, TypeOK
      <4> QED
        BY <1>t, <1>s, <1>n, <2>1, <2>w, <3>2, <4>1 DEF Register, TypeOK
    <3> QED
      BY <3>1, <3>2
  <2>2. ASSUME NEW l \in Listeners, Unregister(l) PROVE Right'
    <3>1. Reached(m)' = Reached(m)
      <4>1. CASE m = l
        BY <1>t, <1>f, <2>2, <4>1
           DEF Unregister, Reached, TypeOK, Control, NoQueueBefore
      <4>2. CASE m # l
        BY <1>t, <2>2, <4>2 DEF Unregister, Reached, TypeOK
      <4> QED
        BY <4>1, <4>2
    <3> QED
      BY <1>s, <1>n, <2>2, <2>w, <3>1 DEF Unregister
  <2>3. ASSUME NEW l \in Listeners, AwaitLookup(l) \/ GetDone(l) \/ Cancel(l) PROVE Right'
    <3>1. Reached(m)' = Reached(m)
      BY <1>t, <2>3 DEF AwaitLookup, GetDone, Cancel, historyVars, Reached, TypeOK
    <3> QED
      BY <1>s, <1>n, <2>3, <2>w, <3>1 DEF AwaitLookup, GetDone, Cancel, historyVars
  <2>4. ASSUME NEW p \in Publishers, NotifyBegin(p) PROVE Right'
    <3>1. Reached(m)' = Reached(m)
      <4>0. /\ pc'[m] = pc[m] /\ upto' = upto /\ registered' = registered
            /\ published' = published + 1
        BY <1>t, <2>4 DEF NotifyBegin, TypeOK
      <4>1. CASE pc[m] = "start" \/ m \notin registered
        BY <4>0, <4>1 DEF Reached
      <4>2. CASE pc[m] # "start" /\ m \in registered
        <5>1. Reached(m) = published
          BY <1>f, <2>4, <4>2 DEF NotifyBegin, Reached
        <5>2. m \in todo'[p]
          BY <1>t, <2>4, <4>2 DEF NotifyBegin, TypeOK
        <5>3. Reached(m)' = published' - 1
          BY <4>0, <4>2, <5>2 DEF Reached
        <5> QED
          BY <1>n, <4>0, <5>1, <5>3
      <4> QED
        BY <4>1, <4>2
    <3> QED
      BY <1>s, <1>n, <2>4, <2>w, <3>1 DEF NotifyBegin
  <2>5. ASSUME NEW p \in Publishers, NotifyEnd(p) PROVE Right'
    <3>1. Reached(m)' = Reached(m)
      BY <1>t, <2>5 DEF NotifyEnd, historyVars, Reached, TypeOK
    <3> QED
      BY <1>s, <1>n, <2>5, <2>w, <3>1 DEF NotifyEnd, historyVars
  <2>6. CASE UNCHANGED vars
    <3>1. Reached(m)' = Reached(m)
      BY <2>6 DEF vars, Reached
    <3> QED
      BY <1>s, <1>n, <2>6, <2>w, <3>1 DEF vars
  <2> QED
    BY <1>1, <2>1, <2>2, <2>3, <2>4, <2>5, <2>6 DEF OtherStep
<1>2. ASSUME NEW l \in Listeners, GetTake(l) PROVE Right'
  <2>1. Reached(m)' = Reached(m)
    BY <1>t, <1>2 DEF GetTake, historyVars, Reached, TypeOK
  <2>2. Waiting(m)' = Waiting(m)
    <3>1. CASE m = l
      BY <1>2, <1>w, <1>v, <3>1, GetTakes
    <3>2. CASE m # l
      <4>1. \A q \in Owners(m) : held'[q] = held[q]
        BY <1>2, <3>2, GetTakes DEF Owners
      <4> QED
        BY <1>2, <3>2, <4>1, GetTakes, WaitingStays
    <3> QED
      BY <3>1, <3>2
  <2> QED
    BY <1>s, <1>n, <1>2, <2>1, <2>2 DEF GetTake, historyVars
<1>3. ASSUME NEW l \in Listeners, GetGive(l) PROVE Right'
  <2>1. /\ Reached(m)' = Reached(m) /\ from' = from /\ published' = published
    BY <1>t, <1>3 DEF GetGive, Reached, TypeOK
  <2>2. CASE m = l
    <3>1. Waiting(m) = held[m] /\ held[m] \in Seq(Nat) /\ held[m] # <<>>
      BY <1>3, <1>w, <2>2, GetGives
    <3>2. got'[m] = Append(got[m], Head(held[m]))
      BY <1>t, <1>3, <2>2 DEF GetGive, TypeOK
    <3>3. got'[m] \o Waiting(m)' = got[m] \o held[m]
      <4>1. CASE Len(held[m]) = 1
        <5>1. Waiting(m)' = <<>>
          BY <1>3, <1>v, <2>2, <4>1, GetGives
        <5>2. got'[m] = got[m] \o held[m]
          BY <1>n, <3>1, <3>2, <4>1, GetFromFront
        <5>3. got[m] \o held[m] \in Seq(Nat)
          BY <1>n, <3>1, ConcatProperties
        <5> QED
          BY <5>1, <5>2, <5>3, ConcatEmptySeq
      <4>2. CASE Len(held[m]) # 1
        <5>1. Waiting(m)' = Tail(held[m])
          BY <1>3, <1>v, <2>2, <4>2, GetGives
        <5> QED
          BY <1>n, <3>1, <3>2, <5>1, GetFromFront
      <4> QED
        BY <4>1, <4>2
    <3> QED
      BY <1>r, <2>1, <3>1, <3>3
  <2>3. CASE m # l
    <3>1. Waiting(m)' = Waiting(m)
      <4>1. \A q \in Owners(m) : held'[q] = held[q]
        <5>1. l \notin Owners(m)
          BY <2>3 DEF Owners
        <5>2. \A q \in Procs \ {l} : held'[q] = held[q]
          BY <1>3, GetGives
        <5> QED
          BY <1>o, <5>1, <5>2
      <4>2. items'[m] = items[m] /\ Owners(m)' = Owners(m)
        BY <1>3, <2>3, GetGives
      <4> QED
        BY <4>1, <4>2, WaitingStays
    <3>2. got'[m] = got[m]
      BY <1>t, <1>3, <2>3 DEF GetGive, TypeOK
    <3> QED
      BY <1>s, <1>n, <2>1, <3>1, <3>2
  <2> QED
    BY <2>2, <2>3
<1>4. ASSUME NEW p \in Publishers, PutTake(p) PROVE Right'
  <2>1. Reached(m)' = Reached(m)
    BY <1>t, <1>4 DEF PutTake, historyVars, Reached, TypeOK
  <2>2. PICK l \in todo[p] \cap Listeners :
            /\ items[l] = {held'[p]} \/ (items[l] = {} /\ held'[p] = <<>>)
            /\ Owners(l) = {} /\ Owners(l)' = {p}
            /\ items'[l] = {} /\ empty'[l] = {}
            /\ \A n \in Listeners \ {l} : /\ Owners(n)' = Owners(n)
                                          /\ items'[n] = items[n] /\ empty'[n] = empty[n]
            /\ \A q \in Procs \ {p} : held'[q] = held[q]
    BY <1>4, PutTakes
  <2>3. Waiting(m)' = Waiting(m)
    <3>1. CASE m = l
      BY <1>w, <1>v, <2>2, <3>1
    <3>2. CASE m # l
      <4>1. p \notin Owners(m)
        BY <1>t, <1>4 DEF PutTake, Owners, TypeOK
      <4>2. \A q \in Owners(m) : held'[q] = held[q]
        BY <1>o, <2>2, <4>1
      <4> QED
        BY <2>2, <3>2, <4>2, WaitingStays
    <3> QED
      BY <3>1, <3>2
  <2> QED
    BY <1>s, <1>n, <1>4, <2>1, <2>3 DEF PutTake, historyVars
<1>5. ASSUME NEW p \in Publishers, PutGive(p) PROVE Right'
  <2>0. PICK l \in todo[p] \cap Listeners : GivesBack(p, l)
    BY <1>5, PutGives
  <2>1. /\ l = cur[p] /\ pc[l] # "start"
        /\ Owners(l) = {p} /\ Owners(l)' = {} /\ items[l] = {}
        /\ items'[l] = {Append(held[p], published)}
        /\ \A n \in Listeners \ {l} : Owners(n)' = Owners(n) /\ items'[n] = items[n]
        /\ \A q \in Procs \ {p} : held'[q] = held[q]
    BY <2>0 DEF GivesBack
  <2>2. /\ published' = published /\ from' = from /\ got' = got /\ upto' = upto
        /\ registered' = registered /\ pc'[m] = pc[m]
        /\ todo' = [todo EXCEPT ![p] = @ \ {l}]
    BY <1>t, <1>5, <2>1 DEF PutGive, historyVars, TypeOK
  <2>3. \A q \in Publishers \ {p} : todo[q] = {}
    BY <1>t, <1>5 DEF PutGive, Control, OneNotify
  <2>4. CASE m = l
    <3>1. Waiting(m) = held[p] /\ Waiting(m)' = Append(held[p], published)
      BY <1>w, <1>v, <2>1, <2>4
    <3>2. Reached(m) = published - 1 /\ Reached(m)' = published
      <4>1. m \in registered
        BY <1>t, <2>1, <2>4 DEF Control, OneNotify
      <4>2. \A q \in Publishers : m \notin todo'[q]
        BY <1>t, <2>2, <2>3, <2>4 DEF TypeOK
      <4> QED
        BY <2>1, <2>2, <2>4, <4>1, <4>2 DEF Reached
    <3>3. published - 1 \in Nat /\ from[m] <= published - 1
      BY <1>r, <1>n, <3>2
    <3>4. held[p] \in Seq(Nat)
      BY <1>t DEF TypeOK
    <3>5. got[m] \o Append(held[p], published) = Append(got[m] \o held[p], published)
      BY <1>n, <3>4, PutAtEnd
    <3>6. Append(Versions(from[m], published - 1), published) = Versions(from[m], published)
      <4>1. Append(Versions(from[m], published - 1), published - 1 + 1)
              = Versions(from[m], published - 1 + 1)
        BY <1>n, <3>3, VersionsGrow
      <4>2. published - 1 + 1 = published
        BY <1>n
      <4> QED
        BY <4>1, <4>2
    <3>7. got[m] \o held[p] = Versions(from[m], published - 1)
      BY <1>r, <3>1, <3>2
    <3>8. got'[m] \o Waiting(m)' = Versions(from'[m], Reached(m)')
      BY <2>2, <3>1, <3>2, <3>5, <3>6, <3>7
    <3> QED
      BY <1>n, <2>2, <3>2, <3>3, <3>8
  <2>5. CASE m # l
    <3>1. Waiting(m)' = Waiting(m)
      <4>1. p \notin Owners(m)
        BY <2>1, <2>5 DEF Owners
      <4>2. \A q \in Owners(m) : held'[q] = held[q]
        BY <1>o, <2>1, <4>1
      <4> QED
        BY <2>1, <2>5, <4>2, WaitingStays
    <3>2. \A q \in Publishers : m \in todo'[q] <=> m \in todo[q]
      BY <1>t, <2>2, <2>5 DEF TypeOK
    <3>3. Reached(m)' = Reached(m)
      BY <2>2, <3>2 DEF Reached
    <3> QED
      BY <1>s, <1>n, <2>2, <3>1, <3>3
  <2> QED
    BY <2>4, <2>5
<1> QED
  BY <1>1, <1>2, <1>3, <1>4, <1>5, Steps

--------------------------------------------------------------------------------
(* The theorems                                                              *)

\* NewQueuedNotifier, and the goroutines before their first call.
LEMMA IInvInit == Init => IInv
<1> SUFFICES ASSUME Init PROVE IInv
  OBVIOUS
<1> USE ProcsAssumption DEF Procs
<1>1. TypeOK
  BY EmptySeq DEF Init, TypeOK
<1>2. Control
  BY DEF Init, Control, OneNotify, HeldByOwner, NoQueueBefore
<1>3. QueueIsOne
  BY DEF Init, QueueIsOne
<1>4. ReachedInOrder
  BY DEF Init, ReachedInOrder, Reached
<1>5. NothingMissed
  <2> SUFFICES ASSUME NEW l \in Listeners
               PROVE  got[l] \o Waiting(l) = Versions(from[l], Reached(l))
    BY DEF NothingMissed, Versions
  <2>1. items[l] = {} /\ Owners(l) = {} /\ got[l] = <<>>
    BY DEF Init, Owners
  <2>2. from[l] = 0 /\ Reached(l) = 0
    BY DEF Init, Reached
  <2>3. got[l] \o Waiting(l) = <<>>
    BY <2>1, WaitingIs, ConcatEmptySeq DEF WaitingByPlace
  <2>4. Versions(0, 0) = <<>>
    BY VersionsGrow
  <2> QED
    BY <2>2, <2>3, <2>4
<1> QED
  BY <1>1, <1>2, <1>3, <1>4, <1>5 DEF IInv

\* The invariant holds in every state of every execution.
THEOREM QueuedInvariance == Spec => []IInv
<1>1. IInv /\ [Next]_vars => IInv'
  BY TypeStep, ControlStep, QueueStep, HistoryStep DEF IInv
<1> QED
  BY IInvInit, <1>1, PTL DEF Spec

\* The two channels of a queue are one mutex: nobody who gives a queue back
\* blocks, and no list is lost under another one.
THEOREM QueueHasOneOwner == Spec => []OneOwner
<1>1. IInv => OneOwner
  <2> SUFFICES ASSUME IInv, NEW l \in Listeners, pc[l] # "start"
               PROVE  Cardinality(items[l]) + Cardinality(empty[l])
                        + Cardinality(Owners(l)) = 1
    BY DEF OneOwner
  <2>1. Cardinality({}) = 0 /\ \A x : Cardinality({x}) = 1
    BY FS_EmptySet, FS_Singleton
  <2>2. ListThere(l) \/ TokenThere(l) \/ Taken(l)
    BY DEF IInv, QueueIsOne
  <2>3. \/ Cardinality(items[l]) = 1 /\ Cardinality(empty[l]) = 0 /\ Cardinality(Owners(l)) = 0
        \/ Cardinality(items[l]) = 0 /\ Cardinality(empty[l]) = 1 /\ Cardinality(Owners(l)) = 0
        \/ Cardinality(items[l]) = 0 /\ Cardinality(empty[l]) = 0 /\ Cardinality(Owners(l)) = 1
    <3>1. CASE ListThere(l)
      BY <2>1, <3>1 DEF ListThere
    <3>2. CASE TokenThere(l)
      BY <2>1, <3>2 DEF TokenThere
    <3>3. CASE Taken(l)
      BY <2>1, <3>3 DEF Taken
    <3> QED
      BY <2>2, <3>1, <3>2, <3>3
  <2> QED
    BY <2>3
<1> QED
  BY QueuedInvariance, <1>1, PTL

\* A listener gets every change that is published while it is registered, in
\* order and once.
THEOREM NoChangeIsMissed == Spec => []NothingMissed
  BY QueuedInvariance, PTL DEF IInv

================================================================================
