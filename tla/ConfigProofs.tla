----------------------------- MODULE ConfigProofs ------------------------------
(***************************************************************************)
(* The order of the services, for any finite set of services and any       *)
(* dependencies, cycles included.                                          *)
(*                                                                         *)
(* A visit returns when its loop is over, so what its service depends on   *)
(* has been visited; but visited means in the result or still in progress, *)
(* and only the first is in order.  That the second cannot be is what      *)
(* CallsDescend is for: it says of every ranking of the services by their  *)
(* dependencies that the calls in progress go down in it, so the service   *)
(* that returns depends on none of them.  Said of one inner call and its   *)
(* outer one it would take an induction over the calls; said of all pairs  *)
(* it is kept by every step.                                               *)
(*                                                                         *)
(* The parser of the OSPF configuration, for documents of any size, any    *)
(* limits and any order of the maps.                                       *)
(*                                                                         *)
(* The verdict and the result are about the whole document, and the parser *)
(* has seen a part of it.  So the invariant says of each part that it has  *)
(* no defect if its loop has passed it (PassedIsValid), and what is left   *)
(* of it in the result: of a setting the number itself, since the          *)
(* conversion follows the range check; of an area what one of its names    *)
(* says, before or after inheritance (AreaIs).  At the end nothing is left *)
(* to do, and the parts are the document.                                  *)
(***************************************************************************)
EXTENDS ServiceGraph, OspfConfig, FiniteSetTheorems, SequenceTheorems, TLAPS

--------------------------------------------------------------------------------
(* The services: the inductive invariant                                     *)

\* The services whose visit is on the call stack.
InProgress == {frames[k].svc : k \in 1 .. Len(frames)}

\* Before sortDependencies nothing has been visited.
NotYet == ~sorting => todo = {} /\ visited = {} /\ frames = <<>> /\ stack = <<>>

\* A service that was visited is in progress, or in the result, in one place.
VisitedOnce ==
    /\ visited = Elems(stack) \cup InProgress
    /\ Elems(stack) \cap InProgress = {}
    /\ \A k, m \in 1 .. Len(frames) : frames[k].svc = frames[m].svc => k = m
    /\ \A i, j \in 1 .. Len(stack) : stack[i] = stack[j] => i = j

\* What the loop of a visit has passed was visited.
DepsAreVisited ==
    /\ \A s \in Elems(stack) : Elems(Deps(s)) \subseteq visited
    /\ \A k \in 1 .. Len(frames) :
          /\ Elems(frames[k].deps) \subseteq Elems(Deps(frames[k].svc))
          /\ Elems(Deps(frames[k].svc)) \subseteq visited \cup Elems(frames[k].deps)

\* The outer loop has passed no registered service that was not visited.
NodesAreVisited == sorting => DOMAIN nodes \subseteq visited \cup todo

\* What was visited without being registered is a dependency.
NothingElseIsVisited ==
    \A s \in visited \ DOMAIN nodes : \E n \in DOMAIN nodes : s \in Elems(Deps(n))

\* An inner call is about a service that an outer one depends on, directly or
\* not, so where the dependencies have no cycle it is below all of them.
CallsDescend ==
    \A rank \in [Services -> 0 .. Cardinality(Services)] :
        Ranks(rank) => \A k, m \in 1 .. Len(frames) :
                           k < m => rank[frames[m].svc] < rank[frames[k].svc]

\* The inductive invariant of the graph.
GraphInv ==
    /\ GraphTypeOK /\ NotYet /\ VisitedOnce /\ DepsAreVisited
    /\ NodesAreVisited /\ NothingElseIsVisited
    /\ CallsDescend /\ DependencyOrder

--------------------------------------------------------------------------------
(* The services: the proofs                                                  *)

\* What the frames and the dependencies are.
LEMMA GraphTypes ==
  ASSUME GraphTypeOK
  PROVE  /\ Len(frames) \in Nat /\ Len(stack) \in Nat
         /\ \A k \in 1 .. Len(frames) : /\ frames[k] \in Frames /\ frames[k].svc \in Services
                                        /\ frames[k].deps \in Seq(Services)
         /\ \A i \in 1 .. Len(stack) : stack[i] \in Services
         /\ \A s \in Services : Deps(s) \in Seq(Services) /\ Elems(Deps(s)) \subseteq Services
         /\ \A s \in Services \ DOMAIN nodes : Elems(Deps(s)) = {}
<1>1. frames \in Seq(Frames) /\ stack \in Seq(Services)
  BY DEF GraphTypeOK
<1>2. /\ Len(frames) \in Nat /\ Len(stack) \in Nat
      /\ \A k \in 1 .. Len(frames) : frames[k] \in Frames
      /\ \A i \in 1 .. Len(stack) : stack[i] \in Services
  BY <1>1
<1>3. \A k \in 1 .. Len(frames) : frames[k].svc \in Services /\ frames[k].deps \in Seq(Services)
  BY <1>2 DEF Frames
<1>4. \A s \in Services : Deps(s) \in Seq(Services)
  BY EmptySeq DEF GraphTypeOK, Deps
<1>5. \A s \in Services : Elems(Deps(s)) \subseteq Services
  BY <1>4 DEF Elems
<1>6. \A s \in Services \ DOMAIN nodes : Elems(Deps(s)) = {}
  BY EmptySeq DEF Deps, Elems
<1> QED
  BY <1>2, <1>3, <1>4, <1>5, <1>6

\* The elements of a list with one more element.
LEMMA ElemsAppend ==
  ASSUME NEW S, NEW seq \in Seq(S), NEW x \in S
  PROVE  Elems(Append(seq, x)) = Elems(seq) \cup {x}
<1>1. /\ Append(seq, x) \in Seq(S) /\ Len(Append(seq, x)) = Len(seq) + 1
      /\ \A i \in 1 .. Len(seq) : Append(seq, x)[i] = seq[i]
      /\ Append(seq, x)[Len(seq) + 1] = x
  BY AppendProperties
<1>2. Len(seq) \in Nat
  OBVIOUS
<1>3. \A i \in 1 .. (Len(seq) + 1) : i \in 1 .. Len(seq) \/ i = Len(seq) + 1
  BY <1>2
<1>4. \A i \in 1 .. Len(seq) : i \in 1 .. (Len(seq) + 1)
  BY <1>2
<1>5. Len(seq) + 1 \in 1 .. (Len(seq) + 1)
  BY <1>2
<1> QED
  BY <1>1, <1>3, <1>4, <1>5 DEF Elems

\* The elements of a list are the first one and those of the rest.
LEMMA ElemsTail ==
  ASSUME NEW S, NEW seq \in Seq(S), seq # <<>>
  PROVE  Head(seq) \in S /\ Tail(seq) \in Seq(S) /\ Elems(seq) = {Head(seq)} \cup Elems(Tail(seq))
<1>1. /\ Head(seq) \in S /\ Tail(seq) \in Seq(S) /\ Len(Tail(seq)) = Len(seq) - 1
      /\ \A i \in 1 .. Len(Tail(seq)) : Tail(seq)[i] = seq[i + 1]
  BY HeadTailProperties
<1>2. Len(seq) \in Nat \ {0} /\ Head(seq) = seq[1]
  BY EmptySeq
<1>3. \A i \in 1 .. Len(seq) :
         i = 1 \/ (i - 1 \in 1 .. Len(Tail(seq)) /\ Tail(seq)[i - 1] = seq[i])
  BY <1>1, <1>2
<1>4. \A i \in 1 .. Len(Tail(seq)) : i + 1 \in 1 .. Len(seq)
  BY <1>1, <1>2
<1>5. 1 \in 1 .. Len(seq)
  BY <1>2
<1>6. ASSUME NEW x \in Elems(seq) PROVE x \in {Head(seq)} \cup Elems(Tail(seq))
  <2>1. PICK i \in 1 .. Len(seq) : x = seq[i]
    BY <1>6 DEF Elems
  <2> QED
    BY <1>2, <1>3, <2>1 DEF Elems
<1>7. ASSUME NEW x \in Elems(Tail(seq)) PROVE x \in Elems(seq)
  <2>1. PICK i \in 1 .. Len(Tail(seq)) : x = Tail(seq)[i]
    BY <1>7 DEF Elems
  <2>2. x = seq[i + 1] /\ i + 1 \in 1 .. Len(seq)
    BY <1>1, <1>4, <2>1
  <2> QED
    BY <2>2 DEF Elems
<1>8. Head(seq) \in Elems(seq)
  BY <1>2, <1>5 DEF Elems
<1> QED
  BY <1>1, <1>6, <1>7, <1>8

\* The elements of the first n elements of a list.
LEMMA ElemsPrefix ==
  ASSUME NEW S, NEW seq \in Seq(S), NEW n \in 0 .. Len(seq)
  PROVE  /\ SubSeq(seq, 1, n) \in Seq(S) /\ Len(SubSeq(seq, 1, n)) = n
         /\ \A i \in 1 .. n : SubSeq(seq, 1, n)[i] = seq[i]
         /\ Elems(SubSeq(seq, 1, n)) = {seq[i] : i \in 1 .. n}
<1>1. Len(seq) \in Nat /\ n \in Nat /\ n \in Int /\ 1 \in Int /\ n <= Len(seq)
  OBVIOUS
<1>2. \A i \in 1 .. n : seq[i] \in S
  BY <1>1, ElementOfSeq
<1>3. /\ SubSeq(seq, 1, n) \in Seq(S)
      /\ Len(SubSeq(seq, 1, n)) = IF 1 <= n THEN n - 1 + 1 ELSE 0
      /\ \A i \in 1 .. n - 1 + 1 : SubSeq(seq, 1, n)[i] = seq[1 + i - 1]
  BY <1>1, <1>2, SubSeqProperties
<1>4. Len(SubSeq(seq, 1, n)) = n /\ \A i \in 1 .. n : SubSeq(seq, 1, n)[i] = seq[i]
  BY <1>1, <1>3
<1> QED
  BY <1>3, <1>4 DEF Elems

--------------------------------------------------------------------------------
(* One step                                                                  *)

\* The calls fs are those in progress, where the loop of one may have come to s.
Base(fs, s) ==
    /\ Len(fs) = Len(frames)
    /\ \A k \in 1 .. Len(frames) :
          /\ fs[k].svc = frames[k].svc
          /\ Elems(fs[k].deps) \subseteq Elems(frames[k].deps)
          /\ Elems(frames[k].deps) \subseteq Elems(fs[k].deps) \cup {s}

\* s is visited for a good reason: it is a node, or one depends on it, namely
\* the one of the innermost call in progress.
Wanted(s) ==
    /\ s \in DOMAIN nodes \/ \E n \in DOMAIN nodes : s \in Elems(Deps(n))
    /\ Len(frames) > 0 => s \in Elems(Deps(frames[Len(frames)].svc))

\* What the call visit(s) does to the calls in progress.
LEMMA VisitEffect ==
  ASSUME GraphInv, NEW fs \in Seq(Frames), NEW s \in Services, Base(fs, s), Visit(fs, s)
  PROVE  /\ frames' \in Seq(Frames) /\ visited' = visited \cup {s}
         /\ \A k \in 1 .. Len(frames) :
               /\ frames'[k].svc = frames[k].svc
               /\ Elems(frames'[k].deps) \subseteq Elems(frames[k].deps)
               /\ Elems(frames[k].deps) \subseteq Elems(frames'[k].deps) \cup {s}
         /\ \/ Len(frames') = Len(frames) /\ InProgress' = InProgress /\ s \in visited
            \/ /\ Len(frames') = Len(frames) + 1 /\ s \notin visited
               /\ frames'[Len(frames) + 1].svc = s
               /\ frames'[Len(frames) + 1].deps = Deps(s)
               /\ InProgress' = InProgress \cup {s}
<1>t. GraphTypeOK
  BY DEF GraphInv
<1>n. Len(frames) \in Nat /\ Deps(s) \in Seq(Services)
  BY <1>t, GraphTypes
<1>1. CASE s \in visited
  <2>1. frames' = fs /\ visited' = visited
    BY <1>1 DEF Visit
  <2>2. InProgress' = InProgress
    BY <2>1 DEF InProgress, Base
  <2> QED
    BY <1>1, <2>1, <2>2 DEF Base
<1>2. CASE s \notin visited
  <2> DEFINE f == [svc |-> s, deps |-> Deps(s)]
  <2>1. frames' = Append(fs, f) /\ visited' = visited \cup {s}
    BY <1>2 DEF Visit
  <2>2. f \in Frames
    BY <1>n DEF Frames
  <2>3. /\ frames' \in Seq(Frames) /\ Len(frames') = Len(frames) + 1
        /\ \A k \in 1 .. Len(frames) : frames'[k] = fs[k]
        /\ frames'[Len(frames) + 1] = f
    BY <2>1, <2>2, AppendProperties DEF Base
  <2>4. \A k \in 1 .. (Len(frames) + 1) : k \in 1 .. Len(frames) \/ k = Len(frames) + 1
    BY <1>n
  <2>5. \A k \in 1 .. Len(frames) : k \in 1 .. (Len(frames) + 1)
    BY <1>n
  <2>6. Len(frames) + 1 \in 1 .. (Len(frames) + 1)
    BY <1>n
  <2>7. \A k \in 1 .. Len(frames) : frames'[k].svc = frames[k].svc
    BY <2>3 DEF Base
  <2>8. InProgress' = InProgress \cup {s}
    BY <2>3, <2>4, <2>5, <2>6, <2>7 DEF InProgress
  <2>9. frames'[Len(frames) + 1].svc = s /\ frames'[Len(frames) + 1].deps = Deps(s)
    BY <2>3
  <2>10. \A k \in 1 .. Len(frames) :
            /\ Elems(frames'[k].deps) \subseteq Elems(frames[k].deps)
            /\ Elems(frames[k].deps) \subseteq Elems(frames'[k].deps) \cup {s}
    BY <2>3 DEF Base
  <2> HIDE DEF f
  <2> QED
    BY <1>2, <2>1, <2>3, <2>7, <2>8, <2>9, <2>10
<1> QED
  BY <1>1, <1>2

\* A ranking of the services ranks them by numbers.
LEMMA RankType ==
  ASSUME NEW rank \in [Services -> 0 .. Cardinality(Services)]
  PROVE  \A s \in Services : rank[s] \in Nat
<1>1. Cardinality(Services) \in Nat
  BY GraphServicesAssumption, FS_CardinalityType
<1> QED
  BY <1>1

\* What does not touch the graph or the result leaves the order as it is.
LEMMA SameGraph ==
  ASSUME nodes' = nodes
  PROVE  /\ \A s : Deps(s)' = Deps(s)
         /\ \A rank : Ranks(rank)' <=> Ranks(rank)
         /\ Acyclic' <=> Acyclic
<1>1. \A s : Deps(s)' = Deps(s)
  BY DEF Deps
<1>2. \A rank : Ranks(rank)' <=> Ranks(rank)
  BY <1>1 DEF Ranks
<1> QED
  BY <1>1, <1>2 DEF Acyclic

\* A call of visit keeps the invariant, whoever makes it.
LEMMA CallStep ==
  ASSUME GraphInv, nodes' = nodes, stack' = stack,
         NEW fs \in Seq(Frames), NEW s \in Services, Base(fs, s), Visit(fs, s), Wanted(s)
  PROVE  /\ VisitedOnce' /\ DepsAreVisited' /\ NothingElseIsVisited'
         /\ CallsDescend' /\ DependencyOrder'
<1>t. /\ GraphTypeOK /\ VisitedOnce /\ DepsAreVisited /\ NothingElseIsVisited
      /\ CallsDescend /\ DependencyOrder
  BY DEF GraphInv
<1>n. /\ Len(frames) \in Nat /\ \A k \in 1 .. Len(frames) : frames[k].svc \in Services
      /\ \A v \in Services : Elems(Deps(v)) \subseteq Services
  BY <1>t, GraphTypes
<1>e. /\ visited' = visited \cup {s}
      /\ \A k \in 1 .. Len(frames) :
            /\ frames'[k].svc = frames[k].svc
            /\ Elems(frames'[k].deps) \subseteq Elems(frames[k].deps)
            /\ Elems(frames[k].deps) \subseteq Elems(frames'[k].deps) \cup {s}
  BY VisitEffect
<1>c. \/ Len(frames') = Len(frames) /\ InProgress' = InProgress /\ s \in visited
      \/ /\ Len(frames') = Len(frames) + 1 /\ s \notin visited
         /\ frames'[Len(frames) + 1].svc = s
         /\ frames'[Len(frames) + 1].deps = Deps(s)
         /\ InProgress' = InProgress \cup {s}
  BY VisitEffect
<1>d. \A k \in 1 .. Len(frames') : k \in 1 .. Len(frames) \/ (k = Len(frames) + 1 /\ s \notin visited
           /\ frames'[k].svc = s /\ frames'[k].deps = Deps(s))
  BY <1>n, <1>c
<1>g. \A v : Deps(v)' = Deps(v)
  BY SameGraph
<1>h. Elems(stack)' = Elems(stack)
  BY DEF Elems
<1>p. \A k \in 1 .. Len(frames) : frames[k].svc \in visited
  BY <1>t DEF VisitedOnce, InProgress
<1>1. VisitedOnce'
  <2>1. \A k, m \in 1 .. Len(frames') : frames'[k].svc = frames'[m].svc => k = m
    BY <1>t, <1>d, <1>e, <1>p DEF VisitedOnce
  <2> QED
    BY <1>t, <1>c, <1>e, <1>h, <2>1 DEF VisitedOnce
<1>2. DepsAreVisited'
  <2>1. \A v \in Elems(stack)' : Elems(Deps(v)') \subseteq visited'
    BY <1>t, <1>e, <1>g, <1>h DEF DepsAreVisited
  <2>2. ASSUME NEW k \in 1 .. Len(frames')
        PROVE  /\ Elems(frames'[k].deps) \subseteq Elems(Deps(frames'[k].svc))
               /\ Elems(Deps(frames'[k].svc)) \subseteq visited' \cup Elems(frames'[k].deps)
    <3>1. CASE k \in 1 .. Len(frames)
      BY <1>t, <1>e, <3>1 DEF DepsAreVisited
    <3>2. CASE frames'[k].svc = s /\ frames'[k].deps = Deps(s)
      BY <3>2
    <3> QED
      BY <1>d, <3>1, <3>2
  <2> QED
    BY <1>g, <2>1, <2>2 DEF DepsAreVisited
<1>3. NothingElseIsVisited'
  BY <1>t, <1>e, <1>g DEF NothingElseIsVisited, Wanted
<1>4. CallsDescend'
  <2> SUFFICES ASSUME NEW rank \in [Services -> 0 .. Cardinality(Services)], Ranks(rank),
                      NEW k \in 1 .. Len(frames'), NEW m \in 1 .. Len(frames'), k < m
               PROVE  rank[frames'[m].svc] < rank[frames'[k].svc]
    BY SameGraph DEF CallsDescend
  <2>1. \A i, j \in 1 .. Len(frames) : i < j => rank[frames[j].svc] < rank[frames[i].svc]
    BY <1>t DEF CallsDescend
  <2>2. CASE m \in 1 .. Len(frames)
    BY <1>d, <1>e, <1>n, <2>1, <2>2
  <2>3. CASE m = Len(frames) + 1 /\ frames'[m].svc = s
    <3> DEFINE top == frames[Len(frames)].svc
    <3>1. k \in 1 .. Len(frames) /\ frames'[k].svc = frames[k].svc /\ Len(frames) \in 1 .. Len(frames)
      BY <1>n, <1>e, <2>3
    <3>2. top \in Services /\ s \in Elems(Deps(top))
      BY <1>n, <3>1 DEF Wanted
    <3>3. rank[s] < rank[top]
      BY <3>2 DEF Ranks
    <3>4. k = Len(frames) \/ rank[top] < rank[frames[k].svc]
      BY <1>n, <2>1, <3>1
    <3>5. rank[s] \in Nat /\ rank[top] \in Nat /\ rank[frames[k].svc] \in Nat
      BY <1>n, <3>1, <3>2, RankType
    <3> QED
      BY <2>3, <3>1, <3>3, <3>4, <3>5
  <2> QED
    BY <1>d, <2>2, <2>3
<1>5. DependencyOrder'
  BY <1>t, <1>g, SameGraph DEF DependencyOrder
<1> QED
  BY <1>1, <1>2, <1>3, <1>4, <1>5

\* A visit returns: its service joins the result, after everything it depends
\* on.
LEMMA ReturnStep ==
  ASSUME GraphInv, VisitReturn
  PROVE  GraphInv'
<1>t. /\ GraphTypeOK /\ NotYet /\ VisitedOnce /\ DepsAreVisited /\ NodesAreVisited
      /\ NothingElseIsVisited /\ CallsDescend /\ DependencyOrder
  BY DEF GraphInv
<1> DEFINE N == Len(frames)
           s == frames[N].svc
<1>u. UNCHANGED <<nodes, sorting, todo, visited>>
  BY DEF VisitReturn
<1>n. /\ N \in Nat \ {0} /\ N \in 1 .. N /\ s \in Services /\ Len(stack) \in Nat
      /\ \A k \in 1 .. N : frames[k].svc \in Services
      /\ frames \in Seq(Frames) /\ stack \in Seq(Services)
  <2>1. frames \in Seq(Frames) /\ stack \in Seq(Services) /\ frames # <<>>
    BY <1>t DEF GraphTypeOK, VisitReturn
  <2>2. N \in Nat \ {0}
    BY <2>1, EmptySeq
  <2> QED
    BY <1>t, <2>1, <2>2, GraphTypes
<1>1. /\ frames' \in Seq(Frames) /\ Len(frames') = N - 1
      /\ \A k \in 1 .. (N - 1) : frames'[k] = frames[k]
  <2>1. frames' = SubSeq(frames, 1, N - 1) /\ N - 1 \in 0 .. N
    BY <1>n DEF VisitReturn, Below
  <2> QED
    BY <1>n, <2>1, ElemsPrefix
<1>2. /\ stack' \in Seq(Services) /\ Len(stack') = Len(stack) + 1
      /\ \A i \in 1 .. Len(stack) : stack'[i] = stack[i]
      /\ stack'[Len(stack) + 1] = s
      /\ Elems(stack') = Elems(stack) \cup {s}
  <2>1. stack' = Append(stack, s)
    BY DEF VisitReturn, Top
  <2> QED
    BY <1>n, <2>1, AppendProperties, ElemsAppend
<1>3. frames[N].deps = <<>>
  BY DEF VisitReturn, Top
<1>4. /\ s \in InProgress /\ s \notin Elems(stack)
      /\ InProgress' = InProgress \ {s}
  <2>1. s \in InProgress
    BY <1>n DEF InProgress
  <2>2. \A k \in 1 .. N : k \in 1 .. (N - 1) \/ k = N
    BY <1>n
  <2>3. \A k \in 1 .. (N - 1) : k \in 1 .. N /\ k # N
    BY <1>n
  <2>4. \A k \in 1 .. (N - 1) : frames[k].svc # s
    BY <1>t, <1>n, <2>3 DEF VisitedOnce
  <2>5. InProgress' = {frames[k].svc : k \in 1 .. (N - 1)}
    BY <1>1 DEF InProgress
  <2>6. InProgress = {frames[k].svc : k \in 1 .. (N - 1)} \cup {s}
    BY <1>n, <2>2, <2>3 DEF InProgress
  <2> QED
    BY <1>t, <2>1, <2>4, <2>5, <2>6 DEF VisitedOnce
<1>5. Elems(Deps(s)) \subseteq visited
  <2>1. Elems(frames[N].deps) = {}
    BY <1>3 DEF Elems
  <2> QED
    BY <1>t, <1>n, <2>1 DEF DepsAreVisited
<1>g. \A v : Deps(v)' = Deps(v)
  BY <1>u, SameGraph
<1>m. \A k \in 1 .. Len(frames') : k \in 1 .. N /\ frames'[k] = frames[k]
  BY <1>n, <1>1
<1>j. \A i \in 1 .. Len(stack') : i \in 1 .. Len(stack) \/ i = Len(stack) + 1
  BY <1>n, <1>2
<1>6. GraphTypeOK' /\ NotYet'
  BY <1>t, <1>u, <1>1, <1>2, <1>n DEF GraphTypeOK, NotYet
<1>7. VisitedOnce'
  <2>1. \A k, m \in 1 .. Len(frames') : frames'[k].svc = frames'[m].svc => k = m
    BY <1>t, <1>m DEF VisitedOnce
  <2>2. ASSUME NEW i \in 1 .. Len(stack'), NEW j \in 1 .. Len(stack'), stack'[i] = stack'[j]
        PROVE  i = j
    <3>1. \A k \in 1 .. Len(stack) : stack'[k] # s
      BY <1>2, <1>4 DEF Elems
    <3>2. CASE i \in 1 .. Len(stack) /\ j \in 1 .. Len(stack)
      BY <1>t, <1>2, <2>2, <3>2 DEF VisitedOnce
    <3> QED
      BY <1>2, <1>j, <2>2, <3>1, <3>2
  <2>3. /\ visited' = Elems(stack)' \cup InProgress'
        /\ Elems(stack)' \cap InProgress' = {}
    BY <1>t, <1>u, <1>2, <1>4 DEF VisitedOnce
  <2> QED
    BY <2>1, <2>2, <2>3 DEF VisitedOnce
<1>8. DepsAreVisited'
  <2>1. \A v \in Elems(stack') : Elems(Deps(v)) \subseteq visited
    BY <1>t, <1>2, <1>5 DEF DepsAreVisited
  <2>2. \A k \in 1 .. Len(frames') :
           /\ Elems(frames'[k].deps) \subseteq Elems(Deps(frames'[k].svc))
           /\ Elems(Deps(frames'[k].svc)) \subseteq visited \cup Elems(frames'[k].deps)
    BY <1>t, <1>m DEF DepsAreVisited
  <2> QED
    BY <1>u, <1>g, <2>1, <2>2 DEF DepsAreVisited
<1>9. NodesAreVisited' /\ NothingElseIsVisited'
  BY <1>t, <1>u, <1>g DEF NodesAreVisited, NothingElseIsVisited
<1>10. CallsDescend'
  <2> SUFFICES ASSUME NEW rank \in [Services -> 0 .. Cardinality(Services)], Ranks(rank),
                      NEW k \in 1 .. Len(frames'), NEW m \in 1 .. Len(frames'), k < m
               PROVE  rank[frames'[m].svc] < rank[frames'[k].svc]
    BY <1>u, SameGraph DEF CallsDescend
  <2> QED
    BY <1>t, <1>m DEF CallsDescend
<1>11. DependencyOrder'
  <2> SUFFICES ASSUME Acyclic, NEW i \in 1 .. Len(stack')
               PROVE  Elems(Deps(stack'[i])) \subseteq Elems(SubSeq(stack', 1, i - 1))
    BY <1>u, <1>g, SameGraph DEF DependencyOrder
  <2>1. PICK rank \in [Services -> 0 .. Cardinality(Services)] : Ranks(rank)
    BY DEF Acyclic
  <2>2. i - 1 \in 0 .. Len(stack') /\ i - 1 <= Len(stack)
    BY <1>n, <1>2
  <2>3. Elems(SubSeq(stack', 1, i - 1)) = {stack'[j] : j \in 1 .. (i - 1)}
    <3>1. stack' \in Seq(Services)
      BY <1>2
    <3> QED
      BY <2>2, <3>1, ElemsPrefix
  <2>4. \A j \in 1 .. (i - 1) : j \in 1 .. Len(stack) /\ stack'[j] = stack[j]
    BY <1>n, <1>2, <2>2
  <2>5. CASE i \in 1 .. Len(stack)
    <3>1. i - 1 \in 0 .. Len(stack)
      BY <1>n, <2>5
    <3>2. Elems(SubSeq(stack, 1, i - 1)) = {stack[j] : j \in 1 .. (i - 1)}
      <4>1. stack \in Seq(Services)
        BY <1>n
      <4> QED
        BY <3>1, <4>1, ElemsPrefix
    <3>3. Elems(Deps(stack[i])) \subseteq Elems(SubSeq(stack, 1, i - 1))
      BY <1>t, <2>5 DEF DependencyOrder
    <3>4. \A j \in 1 .. (i - 1) : stack'[j] = stack[j]
      BY <2>4
    <3>5. Elems(SubSeq(stack', 1, i - 1)) = Elems(SubSeq(stack, 1, i - 1))
      BY <2>3, <3>2, <3>4
    <3>6. stack'[i] = stack[i]
      BY <1>2, <2>5
    <3> QED
      BY <3>3, <3>5, <3>6
  <2>6. CASE i = Len(stack) + 1
    <3>1. i - 1 = Len(stack) /\ stack'[i] = s
      BY <1>n, <1>2, <2>6
    <3>2. Elems(SubSeq(stack', 1, i - 1)) = Elems(stack)
      BY <2>3, <2>4, <3>1 DEF Elems
    <3>3. ASSUME NEW d \in Elems(Deps(s)) PROVE d \notin InProgress
      <4>1. d \in Services /\ rank[d] < rank[s] /\ rank[d] \in Nat /\ rank[s] \in Nat
        BY <1>t, <1>n, <2>1, <3>3, GraphTypes, RankType DEF Ranks
      <4>2. ASSUME NEW k \in 1 .. N, d = frames[k].svc PROVE FALSE
        <5>1. k = N \/ rank[s] < rank[d]
          <6>1. k = N \/ k < N
            BY <1>n
          <6>2. \A a, b \in 1 .. N : a < b => rank[frames[b].svc] < rank[frames[a].svc]
            BY <1>t, <2>1 DEF CallsDescend
          <6> QED
            BY <1>n, <4>2, <6>1, <6>2
        <5> QED
          BY <4>1, <4>2, <5>1
      <4> QED
        BY <4>2 DEF InProgress
    <3> QED
      BY <1>t, <1>5, <3>1, <3>2, <3>3 DEF VisitedOnce
  <2> QED
    BY <1>j, <2>5, <2>6
<1> QED
  BY <1>6, <1>7, <1>8, <1>9, <1>10, <1>11 DEF GraphInv

\* The loops of topologicalSort and of visit only make calls that are wanted.
LEMMA NodeStep ==
  ASSUME GraphInv, VisitNode
  PROVE  GraphInv'
<1>t. GraphTypeOK /\ NotYet /\ NodesAreVisited
  BY DEF GraphInv
<1>1. PICK s \in todo : todo' = todo \ {s} /\ Visit(frames, s)
  BY DEF VisitNode
<1>2. frames = <<>> /\ UNCHANGED <<nodes, sorting, stack>>
  BY DEF VisitNode
<1>3. /\ s \in DOMAIN nodes /\ s \in Services /\ frames \in Seq(Frames) /\ Len(frames) = 0
      /\ stack \in Seq(Services)
  BY <1>t, <1>1, <1>2 DEF GraphTypeOK
<1>4. Base(frames, s) /\ Wanted(s)
  BY <1>3 DEF Base, Wanted
<1>5. frames' \in Seq(Frames) /\ visited' = visited \cup {s}
  BY <1>1, <1>3, <1>4, VisitEffect
<1>6. /\ VisitedOnce' /\ DepsAreVisited' /\ NothingElseIsVisited'
      /\ CallsDescend' /\ DependencyOrder'
  BY <1>1, <1>2, <1>3, <1>4, CallStep
<1>7. GraphTypeOK'
  BY <1>t, <1>1, <1>2, <1>3, <1>5 DEF GraphTypeOK
<1>8. NotYet' /\ NodesAreVisited'
  BY <1>t, <1>1, <1>2, <1>5 DEF NotYet, NodesAreVisited
<1> QED
  BY <1>6, <1>7, <1>8 DEF GraphInv

\* The same for a dependency: the one who depends on it is a node.
LEMMA DepStep ==
  ASSUME GraphInv, VisitDep
  PROVE  GraphInv'
<1>t. GraphTypeOK /\ NotYet /\ NodesAreVisited /\ DepsAreVisited
  BY DEF GraphInv
<1> DEFINE N == Len(frames)
           f == frames[N]
           s == Head(f.deps)
           g == [f EXCEPT !.deps = Tail(f.deps)]
           fs == Append(SubSeq(frames, 1, N - 1), g)
<1>1. frames \in Seq(Frames) /\ frames # <<>> /\ f.deps # <<>> /\ stack \in Seq(Services)
  BY <1>t DEF GraphTypeOK, VisitDep, Top
<1>2. N \in Nat \ {0}
  BY <1>1, EmptySeq
<1>3. N \in 1 .. N /\ N - 1 \in 0 .. N
  BY <1>2
<1>4. f \in Frames /\ f.svc \in Services /\ f.deps \in Seq(Services)
  BY <1>t, <1>3, GraphTypes
<1>5. s \in Services /\ Tail(f.deps) \in Seq(Services) /\ Elems(f.deps) = {s} \cup Elems(Tail(f.deps))
  BY <1>1, <1>4, ElemsTail
<1>6. Visit(fs, s) /\ UNCHANGED <<nodes, sorting, todo, stack>>
  BY DEF VisitDep, Top, Below
<1>7. g \in Frames /\ g.svc = f.svc /\ g.deps = Tail(f.deps)
  BY <1>4, <1>5 DEF Frames
<1>8. /\ SubSeq(frames, 1, N - 1) \in Seq(Frames) /\ Len(SubSeq(frames, 1, N - 1)) = N - 1
      /\ \A k \in 1 .. (N - 1) : SubSeq(frames, 1, N - 1)[k] = frames[k]
  BY <1>1, <1>3, ElemsPrefix
<1>9. fs \in Seq(Frames) /\ Len(fs) = N /\ fs[N] = g /\ \A k \in 1 .. (N - 1) : fs[k] = frames[k]
  <2> HIDE DEF g
  <2>1. /\ fs \in Seq(Frames) /\ Len(fs) = (N - 1) + 1 /\ fs[(N - 1) + 1] = g
        /\ \A k \in 1 .. (N - 1) : fs[k] = SubSeq(frames, 1, N - 1)[k]
    BY <1>7, <1>8, AppendProperties
  <2>2. (N - 1) + 1 = N
    BY <1>2
  <2> QED
    BY <1>8, <2>1, <2>2
<1> HIDE DEF g, fs
<1>10. Base(fs, s)
  <2> SUFFICES ASSUME NEW k \in 1 .. N
               PROVE  /\ fs[k].svc = frames[k].svc
                      /\ Elems(fs[k].deps) \subseteq Elems(frames[k].deps)
                      /\ Elems(frames[k].deps) \subseteq Elems(fs[k].deps) \cup {s}
    BY <1>9 DEF Base
  <2>1. CASE k = N
    BY <1>5, <1>7, <1>9, <2>1
  <2>2. CASE k \in 1 .. (N - 1)
    BY <1>9, <2>2
  <2> QED
    BY <1>2, <2>1, <2>2
<1>11. Wanted(s)
  <2>1. s \in Elems(Deps(f.svc))
    BY <1>t, <1>3, <1>5 DEF DepsAreVisited
  <2>2. f.svc \in DOMAIN nodes
    BY <1>t, <1>4, <2>1, GraphTypes
  <2> QED
    BY <2>1, <2>2 DEF Wanted
<1>12. frames' \in Seq(Frames) /\ visited' = visited \cup {s}
  BY <1>5, <1>6, <1>9, <1>10, VisitEffect
<1>13. /\ VisitedOnce' /\ DepsAreVisited' /\ NothingElseIsVisited'
       /\ CallsDescend' /\ DependencyOrder'
  BY <1>5, <1>6, <1>9, <1>10, <1>11, CallStep
<1>14. GraphTypeOK'
  BY <1>t, <1>1, <1>5, <1>6, <1>12 DEF GraphTypeOK
<1>15. NotYet' /\ NodesAreVisited'
  BY <1>t, <1>1, <1>6, <1>12 DEF NotYet, NodesAreVisited
<1> QED
  BY <1>13, <1>14, <1>15 DEF GraphInv

\* As long as nothing was visited, there is little to say.
LEMMA NothingVisited ==
  ASSUME GraphTypeOK, NotYet, visited = {}, frames = <<>>, stack = <<>>,
         sorting => todo = DOMAIN nodes
  PROVE  GraphInv
<1>1. Len(frames) = 0 /\ Len(stack) = 0 /\ Elems(stack) = {} /\ InProgress = {}
  BY DEF Elems, InProgress
<1>2. VisitedOnce /\ DepsAreVisited /\ NodesAreVisited /\ NothingElseIsVisited
  BY <1>1 DEF VisitedOnce, DepsAreVisited, NodesAreVisited, NothingElseIsVisited
<1>3. CallsDescend /\ DependencyOrder
  BY <1>1 DEF CallsDescend, DependencyOrder
<1> QED
  BY <1>2, <1>3 DEF GraphInv

\* The same after a step.
LEMMA NothingVisitedNext ==
  (/\ GraphTypeOK /\ NotYet /\ visited = {} /\ frames = <<>> /\ stack = <<>>
   /\ (sorting => todo = DOMAIN nodes))' => GraphInv'
<1>1. /\ GraphTypeOK /\ NotYet /\ visited = {} /\ frames = <<>> /\ stack = <<>>
      /\ (sorting => todo = DOMAIN nodes)
      => GraphInv
  BY NothingVisited
<1> QED
  BY <1>1, PTL

\* The graph with the API server alone satisfies the invariant.
LEMMA GraphInvInit == GraphInit => GraphInv
<1> SUFFICES ASSUME GraphInit PROVE GraphInv
  OBVIOUS
<1>1. /\ DOMAIN nodes = {ApiServer} /\ nodes[ApiServer] = <<>>
      /\ ~sorting /\ sorting \in BOOLEAN /\ todo = {} /\ visited = {} /\ frames = <<>> /\ stack = <<>>
  BY DEF GraphInit
<1>2. <<>> \in Seq(Services) /\ <<>> \in Seq(Frames)
  BY EmptySeq
<1>3. GraphTypeOK
  BY <1>1, <1>2, ApiServerAssumption DEF GraphTypeOK
<1> QED
  BY <1>1, <1>3, NothingVisited DEF NotYet

\* Every step keeps the invariant.
LEMMA GraphInvStep == GraphInv /\ [GraphNext]_graphVars => GraphInv'
<1> SUFFICES ASSUME GraphInv, [GraphNext]_graphVars PROVE GraphInv'
  OBVIOUS
<1>t. GraphTypeOK /\ NotYet
  BY DEF GraphInv
<1>1. ASSUME NEW s \in Services, NEW deps \in DepLists, AddNode(s, deps) PROVE GraphInv'
  <2>1. /\ ~sorting /\ UNCHANGED <<sorting, todo, visited, frames, stack>>
        /\ nodes' = [t \in DOMAIN nodes \cup {s} |-> IF t = s THEN deps ELSE nodes[t]]
    BY <1>1 DEF AddNode
  <2>2. todo = {} /\ visited = {} /\ frames = <<>> /\ stack = <<>>
    BY <1>t, <2>1 DEF NotYet
  <2>3. deps \in Seq(Services)
    BY DepListsAssumption
  <2>4. /\ DOMAIN nodes' \subseteq Services
        /\ \A t \in DOMAIN nodes' : nodes'[t] \in Seq(Services)
    BY <1>t, <2>1, <2>3 DEF GraphTypeOK
  <2>5. GraphTypeOK'
    BY <1>t, <2>1, <2>2, <2>4 DEF GraphTypeOK
  <2> QED
    BY <2>1, <2>2, <2>5, NothingVisitedNext DEF NotYet
<1>2. CASE TopologicalSort
  <2>1. /\ ~sorting /\ sorting' = TRUE /\ todo' = DOMAIN nodes
        /\ UNCHANGED <<nodes, visited, frames, stack>>
    BY <1>2 DEF TopologicalSort
  <2>2. visited = {} /\ frames = <<>> /\ stack = <<>>
    BY <1>t, <2>1 DEF NotYet
  <2>3. GraphTypeOK'
    BY <1>t, <2>1 DEF GraphTypeOK
  <2> QED
    BY <2>1, <2>2, <2>3, NothingVisitedNext DEF NotYet
<1>3. CASE VisitNode
  BY <1>3, NodeStep
<1>4. CASE VisitDep
  BY <1>4, DepStep
<1>5. CASE VisitReturn
  BY <1>5, ReturnStep
<1>6. CASE UNCHANGED graphVars
  <2>1. UNCHANGED <<nodes, sorting, todo, visited, frames, stack>>
    BY <1>6 DEF graphVars
  <2>2. /\ \A s : Deps(s)' = Deps(s)
        /\ \A rank : Ranks(rank)' <=> Ranks(rank)
        /\ Acyclic' <=> Acyclic
    BY <2>1, SameGraph
  <2>3. GraphTypeOK' /\ NotYet' /\ NodesAreVisited'
    BY <2>1 DEF GraphInv, GraphTypeOK, NotYet, NodesAreVisited
  <2>4. VisitedOnce'
    <3>1. InProgress' = InProgress
      BY <2>1 DEF InProgress
    <3> QED
      BY <2>1, <3>1 DEF GraphInv, VisitedOnce
  <2>5. DepsAreVisited' /\ NothingElseIsVisited'
    BY <2>1, <2>2 DEF GraphInv, DepsAreVisited, NothingElseIsVisited
  <2>6. CallsDescend' /\ DependencyOrder'
    BY <2>1, <2>2 DEF GraphInv, CallsDescend, DependencyOrder
  <2> QED
    BY <2>3, <2>4, <2>5, <2>6 DEF GraphInv
<1> QED
  BY <1>1, <1>2, <1>3, <1>4, <1>5, <1>6 DEF GraphNext, Sort

--------------------------------------------------------------------------------
(* The theorems                                                              *)

\* The invariant holds in every state of the search.
THEOREM GraphInvariance == GraphSpec => []GraphInv
  BY GraphInvInit, GraphInvStep, PTL DEF GraphSpec

\* "Services are started in dependency order": where the dependencies have no
\* cycle, every service comes after the services it depends on.
THEOREM DependenciesComeFirst == GraphSpec => []DependencyOrder
<1>1. GraphInv => DependencyOrder
  BY DEF GraphInv
<1> QED
  BY GraphInvariance, <1>1, PTL

\* The result is the nodes and what they depend on, each of them once, with
\* cycles or without.
THEOREM SortIsComplete == GraphSpec => []Complete
<1>1. GraphInv => Complete
  <2> SUFFICES ASSUME GraphInv, Sorted
               PROVE  /\ \A i, j \in 1 .. Len(stack) : stack[i] = stack[j] => i = j
                      /\ DOMAIN nodes \subseteq Elems(stack)
                      /\ \A s \in Elems(stack) : Elems(Deps(s)) \subseteq Elems(stack)
                      /\ \A s \in Elems(stack) \ DOMAIN nodes :
                             \E n \in DOMAIN nodes : s \in Elems(Deps(n))
    BY DEF Complete
  <2>1. sorting /\ todo = {} /\ InProgress = {}
    BY DEF Sorted, InProgress
  <2>2. visited = Elems(stack)
    BY <2>1 DEF GraphInv, VisitedOnce
  <2> QED
    BY <2>1, <2>2
       DEF GraphInv, VisitedOnce, DepsAreVisited, NodesAreVisited, NothingElseIsVisited
<1> QED
  BY GraphInvariance, <1>1, PTL

--------------------------------------------------------------------------------
(* The configuration: the inductive invariant                                *)

\* The parser is past everything, before it goes on.
PhaseIsOver ==
    /\ status \in {"defaults", "collect", "done"} =>
          ~doc.broken /\ keys = {} /\ areaKeys = {}
    /\ status \in {"collect", "done"} => inherit = {} /\ Backbone \in DOMAIN c.areas
    /\ status = "done" => collect = {}

\* What the parser has passed has no defect.
PassedIsValid ==
    /\ \A x \in Given(doc.settings) \ keys : InRange(x, doc.settings[x])
    /\ "router-id" \notin keys => ~BadID(doc.routerID)
    /\ \A n \in DOMAIN doc.areas \ areaKeys :
          IdOf[n] # BadId /\ ValidArea(doc.areas[n])

\* A setting is what the document says if the parser has passed it, and the
\* default if not.
SettingsAreParsed ==
    \A x \in Settings :
        c.settings[x] = IF x \in Given(doc.settings) \ keys THEN doc.settings[x] ELSE Default[x]

\* An area is what one of its names in the document says, with the defaults
\* once they have been set.
AreaIs(id, n) ==
    /\ IdOf[n] = id
    /\ c.areas[id] = IF status = "parse" \/ id \in inherit
                     THEN ParseAreaConfig(n, doc.areas[n])
                     ELSE WithDefaults(ParseAreaConfig(n, doc.areas[n]), c.settings)

\* Every area passed is in the configuration, and nothing else is.
AreasAreParsed ==
    /\ \A n \in DOMAIN doc.areas \ areaKeys : IdOf[n] \in DOMAIN c.areas
    /\ status # "failed" =>
          \A id \in DOMAIN c.areas : \E n \in DOMAIN doc.areas \ areaKeys : AreaIs(id, n)

\* An interface is what one of the areas collected says, and none is missing.
ConfigsAreCollected ==
    /\ \A i \in DOMAIN configs :
          \E id \in DOMAIN c.areas :
             i \in DOMAIN c.areas[id].interfaces /\ configs[i] = c.areas[id].interfaces[i]
    /\ status \in {"collect", "done"} =>
          \A id \in DOMAIN c.areas \ collect :
             DOMAIN c.areas[id].interfaces \subseteq DOMAIN configs
    /\ status \in {"parse", "defaults"} => DOMAIN configs = {}

\* The inductive invariant.
IInv ==
    /\ TypeOK /\ PhaseIsOver /\ PassedIsValid
    /\ SettingsAreParsed /\ AreasAreParsed /\ ConfigsAreCollected
    /\ status = "failed" => Defective(doc)

--------------------------------------------------------------------------------
(* The configuration: what the operators compute                             *)

\* What the decoder hands over.
LEMMA DocTypes ==
  ASSUME NEW d \in Documents
  PROVE  /\ d.broken \in BOOLEAN /\ d.settings \in SettingsDocs
         /\ d.routerID \in Names \cup {Unset, NotInt}
         /\ DOMAIN d.areas \subseteq Names
         /\ \A n \in DOMAIN d.areas :
               /\ d.areas[n].broken \in BOOLEAN /\ d.areas[n].settings \in SettingsDocs
               /\ DOMAIN d.areas[n].interfaces \subseteq Interfaces
               /\ \A i \in DOMAIN d.areas[n].interfaces :
                     /\ d.areas[n].interfaces[i].broken \in BOOLEAN
                     /\ d.areas[n].interfaces[i].settings \in SettingsDocs
  BY DocumentsAssumption

\* What passes the parser's range check is a number from 1 to the limit, and
\* the conversion to the limit's width leaves it alone.
LEMMA InRangeIsRange ==
  ASSUME NEW x \in Settings, NEW v \in Raw, v # Unset
  PROVE  /\ InRange(x, v) <=> v \in 1 .. Limit[x]
         /\ InRange(x, v) => Convert(x, v) = v /\ v \in Nat /\ v # 0
<1>1. Limit[x] \in Nat
  BY SettingsAssumption
<1>2. CASE v = NotInt
  BY <1>1, <1>2, RawAssumption DEF InRange
<1>3. CASE v \in Int
  <2>1. v # NotInt
    BY <1>3, RawAssumption
  <2>2. InRange(x, v) <=> v \in 1 .. Limit[x]
    BY <1>1, <1>3, <2>1 DEF InRange
  <2>3. \A l, w \in Nat : w <= l => w % (l + 1) = w
    OBVIOUS
  <2> QED
    BY <1>1, <1>3, <2>2, <2>3 DEF Convert
<1> QED
  BY <1>2, <1>3 DEF Raw

\* The parser's checks of one level are those of the document.
LEMMA SettingsVerdict ==
  ASSUME NEW settings \in SettingsDocs
  PROVE  ValidSettings(settings) <=> ~BadSettings(settings)
<1>1. \A x \in Settings : settings[x] \in Raw
  BY DEF SettingsDocs
<1>2. \A x \in Settings : settings[x] # Unset =>
          (InRange(x, settings[x]) <=> settings[x] \in 1 .. Limit[x])
  BY <1>1, InRangeIsRange
<1> QED
  BY <1>2 DEF ValidSettings, BadSettings, Given

\* What a valid level is parsed to: the numbers that are given, and 0.
LEMMA ParsedIsGiven ==
  ASSUME NEW settings \in SettingsDocs, ValidSettings(settings), NEW x \in Settings
  PROVE  /\ settings[x] # Unset => /\ ParsedSettings(settings)[x] = settings[x]
                                   /\ settings[x] # 0
         /\ settings[x] = Unset => ParsedSettings(settings)[x] = 0
<1>1. settings[x] \in Raw
  BY DEF SettingsDocs
<1>2. settings[x] # Unset => InRange(x, settings[x])
  BY DEF ValidSettings, Given
<1>3. settings[x] # Unset => Convert(x, settings[x]) = settings[x] /\ settings[x] # 0
  BY <1>1, <1>2, InRangeIsRange
<1> QED
  BY <1>3 DEF ParsedSettings, Given

\* The defects of one area.
LEMMA AreaVerdict ==
  ASSUME NEW d \in Documents, NEW n \in DOMAIN d.areas
  PROVE  ~ValidArea(d.areas[n]) <=>
            \/ d.areas[n].broken \/ BadSettings(d.areas[n].settings)
            \/ \E i \in DOMAIN d.areas[n].interfaces :
                  \/ d.areas[n].interfaces[i].broken
                  \/ BadSettings(d.areas[n].interfaces[i].settings)
<1>1. d.areas[n].settings \in SettingsDocs
  BY DocTypes
<1>2. \A i \in DOMAIN d.areas[n].interfaces : d.areas[n].interfaces[i].settings \in SettingsDocs
  BY DocTypes
<1>3. ValidSettings(d.areas[n].settings) <=> ~BadSettings(d.areas[n].settings)
  BY <1>1, SettingsVerdict
<1>4. \A i \in DOMAIN d.areas[n].interfaces :
          ValidSettings(d.areas[n].interfaces[i].settings)
             <=> ~BadSettings(d.areas[n].interfaces[i].settings)
  BY <1>2, SettingsVerdict
<1> QED
  BY <1>3, <1>4 DEF ValidArea, ValidInterface

\* The interfaces of an area with its defaults.
LEMMA DefaultsOfInterfaces ==
  ASSUME NEW n, NEW area, NEW above
  PROVE  /\ DOMAIN ParseAreaConfig(n, area).interfaces = DOMAIN area.interfaces
         /\ DOMAIN WithDefaults(ParseAreaConfig(n, area), above).interfaces = DOMAIN area.interfaces
         /\ \A i \in DOMAIN area.interfaces :
               LET conf == WithDefaults(ParseAreaConfig(n, area), above).interfaces[i]
               IN  /\ conf.areaID = IdOf[n]
                   /\ conf.settings = Inherit(ParsedSettings(area.interfaces[i].settings),
                                              Inherit(ParsedSettings(area.settings), above))
  BY DEF ParseAreaConfig, WithDefaults, ParseInterfaceConfig, ParseID

\* What an area is once it has its defaults, with all of the document parsed:
\* every interface has the innermost setting that is given.
LEMMA DefaultsAreNearest ==
  ASSUME doc \in Documents, SettingsAreParsed, keys = {},
         NEW n \in DOMAIN doc.areas, ValidArea(doc.areas[n]),
         NEW i \in DOMAIN doc.areas[n].interfaces
  PROVE  ConfiguredBy(WithDefaults(ParseAreaConfig(n, doc.areas[n]), c.settings).interfaces[i], n, i)
<1> DEFINE area == doc.areas[n]
           own == ParsedSettings(area.interfaces[i].settings)
           outer == ParsedSettings(area.settings)
           conf == WithDefaults(ParseAreaConfig(n, area), c.settings).interfaces[i]
<1>1. /\ area.settings \in SettingsDocs /\ area.interfaces[i].settings \in SettingsDocs
      /\ ValidSettings(area.settings) /\ ValidSettings(area.interfaces[i].settings)
  BY DocTypes DEF ValidArea, ValidInterface
<1>2. conf.areaID = IdOf[n] /\ conf.settings = Inherit(own, Inherit(outer, c.settings))
  BY DefaultsOfInterfaces
<1>3. ASSUME NEW x \in Settings
      PROVE  conf.settings[x] = Nearest(n, i, x)
  <2>1. conf.settings[x] = IF own[x] = 0 THEN IF outer[x] = 0 THEN c.settings[x] ELSE outer[x]
                           ELSE own[x]
    BY <1>2 DEF Inherit
  <2>2. c.settings[x] = IF doc.settings[x] # Unset THEN doc.settings[x] ELSE Default[x]
    BY DEF SettingsAreParsed, Given
  <2>3. /\ area.interfaces[i].settings[x] # Unset =>
              own[x] = area.interfaces[i].settings[x] /\ own[x] # 0
        /\ area.interfaces[i].settings[x] = Unset => own[x] = 0
    BY <1>1, ParsedIsGiven
  <2>4. /\ area.settings[x] # Unset => outer[x] = area.settings[x] /\ outer[x] # 0
        /\ area.settings[x] = Unset => outer[x] = 0
    BY <1>1, ParsedIsGiven
  <2> HIDE DEF own, outer, conf
  <2> QED
    BY <2>1, <2>2, <2>3, <2>4 DEF Nearest
<1> QED
  BY <1>2, <1>3 DEF ConfiguredBy

--------------------------------------------------------------------------------
(* The configuration: every step keeps the invariant                         *)

\* The invariant holds before the parser begins.
LEMMA InitIInv == Init => IInv
<1> SUFFICES ASSUME Init PROVE IInv
  OBVIOUS
<1>1. doc \in Documents /\ doc.settings \in SettingsDocs
  BY DocTypes DEF Init
<1>2. TypeOK
  <2>1. keys \subseteq Given(doc.settings) \cup {"router-id"}
    BY DEF Init
  <2>2. "router-id" \in keys => doc.routerID # Unset
    BY NamesAssumption DEF Init, Given
  <2>3. DOMAIN c = {"routerID", "settings", "areas"} /\ DOMAIN c.areas = {}
    BY DEF Init
  <2>4. c.routerID \in Ids /\ c.settings \in Levels
    BY SettingsAssumption, IdsAssumption DEF Init, Levels, NoRouterID
  <2>5. /\ doc \in Documents /\ status = "parse" /\ areaKeys \subseteq DOMAIN doc.areas
        /\ inherit = {} /\ collect = {}
    BY DEF Init
  <2> QED
    BY <2>1, <2>2, <2>3, <2>4, <2>5 DEF TypeOK
<1>3. PhaseIsOver
  BY DEF Init, PhaseIsOver
<1>4. PassedIsValid
  BY RawAssumption, NamesAssumption DEF Init, PassedIsValid, BadID
<1>5. SettingsAreParsed
  BY DEF Init, SettingsAreParsed
<1>6. AreasAreParsed /\ ConfigsAreCollected /\ status # "failed"
  BY DEF Init, AreasAreParsed, ConfigsAreCollected
<1> QED
  BY <1>2, <1>3, <1>4, <1>5, <1>6 DEF IInv

\* A document may be refused for a defect.
LEMMA FailIInv ==
  ASSUME IInv, Fail, Defective(doc)
  PROVE  IInv'
<1> USE DEF Fail
<1>1. TypeOK'
  BY DEF IInv, TypeOK, Given
<1>2. PhaseIsOver'
  BY DEF PhaseIsOver
<1>3. PassedIsValid'
  BY DEF IInv, PassedIsValid, Given, InRange, BadID, ValidArea, ValidSettings, ValidInterface
<1>4. SettingsAreParsed'
  BY DEF IInv, SettingsAreParsed, Given
<1>5. AreasAreParsed'
  BY DEF IInv, AreasAreParsed
<1>6. ConfigsAreCollected'
  BY DEF IInv, ConfigsAreCollected
<1>7. Defective(doc)'
  BY DEF Defective, BadSettings, BadID
<1> QED
  BY <1>1, <1>2, <1>3, <1>4, <1>5, <1>6, <1>7 DEF IInv

\* A step that changes nothing.
LEMMA StutterIInv ==
  ASSUME IInv, UNCHANGED vars
  PROVE  IInv'
<1> USE DEF vars
<1>1. TypeOK' /\ PhaseIsOver'
  BY DEF IInv, TypeOK, PhaseIsOver, Given
<1>2. PassedIsValid'
  BY DEF IInv, PassedIsValid, Given, InRange, BadID, ValidArea, ValidSettings, ValidInterface
<1>3. SettingsAreParsed'
  BY DEF IInv, SettingsAreParsed, Given
<1>4. AreasAreParsed'
  BY DEF IInv, AreasAreParsed, AreaIs
<1>5. ConfigsAreCollected'
  BY DEF IInv, ConfigsAreCollected
<1>6. (status = "failed" => Defective(doc))'
  BY DEF IInv, Defective, BadSettings, BadID
<1> QED
  BY <1>1, <1>2, <1>3, <1>4, <1>5, <1>6 DEF IInv

\* An unknown key is a defect.
LEMMA ParseUnknownKeyIInv ==
  ASSUME IInv, ParseUnknownKey
  PROVE  IInv'
<1>1. Defective(doc)
  BY DEF ParseUnknownKey, Defective
<1> QED
  BY <1>1, FailIInv DEF ParseUnknownKey

\* The router-id: refused if it is no id.
LEMMA ParseRouterIDIInv ==
  ASSUME IInv, ParseRouterID
  PROVE  IInv'
<1>1. doc \in Documents /\ doc.routerID \in Names \cup {NotInt}
  BY DocTypes DEF IInv, TypeOK, ParseRouterID
<1>2. CASE doc.routerID = NotInt \/ ParseID(doc.routerID) = BadId
  <2>1. BadID(doc.routerID)
    BY <1>1, <1>2 DEF BadID, ParseID
  <2>2. Defective(doc)
    BY <2>1 DEF Defective
  <2> QED
    BY <1>2, <2>2, FailIInv DEF ParseRouterID
<1>3. CASE ~(doc.routerID = NotInt \/ ParseID(doc.routerID) = BadId)
  <2> DEFINE id == ParseID(doc.routerID)
  <2>1. /\ c' = [c EXCEPT !.routerID = id] /\ keys' = keys \ {"router-id"} /\ status = "parse"
        /\ UNCHANGED <<doc, status, areaKeys, inherit, collect, configs>>
    BY <1>3 DEF ParseRouterID
  <2>2. id \in Ids /\ ~BadID(doc.routerID)
    BY <1>1, <1>3, IdsAssumption DEF ParseID, BadID
  <2>3. /\ DOMAIN c' = {"routerID", "settings", "areas"}
        /\ c'.routerID = id /\ c'.settings = c.settings /\ c'.areas = c.areas
    BY <2>1 DEF IInv, TypeOK
  <2>4. Given(doc.settings)' = Given(doc.settings)
    BY <2>1 DEF Given
  <2>5. Given(doc.settings)' \ keys' = Given(doc.settings) \ keys
    BY <2>1, <2>4, NamesAssumption DEF Given
  <2> HIDE DEF id
  <2>6. TypeOK'
    BY <2>1, <2>2, <2>3, <2>4 DEF IInv, TypeOK
  <2>7. PhaseIsOver' /\ status' # "failed"
    BY <2>1 DEF PhaseIsOver
  <2>8. PassedIsValid'
    <3>1. \A x \in (Given(doc.settings) \ keys)' : InRange(x, doc.settings[x])'
      BY <2>1, <2>5 DEF IInv, PassedIsValid, InRange
    <3>2. ~BadID(doc.routerID)'
      BY <2>1, <2>2 DEF BadID
    <3>3. (\A n \in DOMAIN doc.areas \ areaKeys : IdOf[n] # BadId /\ ValidArea(doc.areas[n]))'
      BY <2>1 DEF IInv, PassedIsValid, ValidArea, ValidSettings, ValidInterface, Given, InRange
    <3> QED
      BY <3>1, <3>2, <3>3 DEF PassedIsValid
  <2>9. SettingsAreParsed'
    BY <2>1, <2>3, <2>5 DEF IInv, SettingsAreParsed
  <2>10. AreasAreParsed'
    BY <2>1, <2>3 DEF IInv, AreasAreParsed, AreaIs
  <2>11. ConfigsAreCollected'
    BY <2>1, <2>3 DEF IInv, ConfigsAreCollected
  <2> QED
    BY <2>6, <2>7, <2>8, <2>9, <2>10, <2>11 DEF IInv
<1> QED
  BY <1>2, <1>3

\* A setting of the protocol: refused if it is out of range, else stored as it is.
LEMMA ParseSettingIInv ==
  ASSUME IInv, NEW x \in Settings, ParseSetting(x)
  PROVE  IInv'
<1>1. /\ doc \in Documents /\ doc.settings \in SettingsDocs
      /\ x \in Given(doc.settings) /\ doc.settings[x] \in Raw /\ doc.settings[x] # Unset
  BY DocTypes, NamesAssumption DEF IInv, TypeOK, ParseSetting, SettingsDocs, Given
<1>2. CASE ~InRange(x, doc.settings[x])
  <2>1. BadSettings(doc.settings)
    BY <1>1, <1>2, InRangeIsRange DEF BadSettings
  <2>2. Defective(doc)
    BY <2>1 DEF Defective
  <2> QED
    BY <1>2, <2>2, FailIInv DEF ParseSetting
<1>3. CASE InRange(x, doc.settings[x])
  <2> DEFINE v == doc.settings[x]
  <2>1. /\ Convert(x, v) = v /\ v \in Nat
    BY <1>1, <1>3, InRangeIsRange
  <2>2. /\ c' = [c EXCEPT !.settings[x] = v] /\ keys' = keys \ {x} /\ status = "parse"
        /\ UNCHANGED <<doc, status, areaKeys, inherit, collect, configs>>
    BY <1>3, <2>1 DEF ParseSetting
  <2>3. c.settings \in [Settings -> Nat] /\ DOMAIN c = {"routerID", "settings", "areas"}
    BY DEF IInv, TypeOK, Levels
  <2>4. /\ DOMAIN c' = {"routerID", "settings", "areas"}
        /\ c'.routerID = c.routerID /\ c'.settings = [c.settings EXCEPT ![x] = v]
        /\ c'.areas = c.areas
    BY <2>2, <2>3
  <2>5. Given(doc.settings)' = Given(doc.settings)
    BY <2>2 DEF Given
  <2>6. \A y : y \in Given(doc.settings)' \ keys' <=> y \in Given(doc.settings) \ keys \/ y = x
    BY <1>1, <2>2, <2>5
  <2>7. x # "router-id"
    BY NamesAssumption
  <2> HIDE DEF v
  <2>8. TypeOK'
    BY <2>1, <2>2, <2>3, <2>4, <2>5 DEF IInv, TypeOK, Levels
  <2>9. PhaseIsOver' /\ status' # "failed"
    BY <2>2 DEF PhaseIsOver
  <2>10. PassedIsValid'
    <3>1. \A y \in (Given(doc.settings) \ keys)' : InRange(y, doc.settings[y])'
      BY <1>3, <2>2, <2>6 DEF IInv, PassedIsValid, InRange
    <3>2. "router-id" \notin keys' => ~BadID(doc.routerID)'
      BY <2>2, <2>7 DEF IInv, PassedIsValid, BadID
    <3>3. (\A n \in DOMAIN doc.areas \ areaKeys : IdOf[n] # BadId /\ ValidArea(doc.areas[n]))'
      BY <2>2 DEF IInv, PassedIsValid, ValidArea, ValidSettings, ValidInterface, Given, InRange
    <3> QED
      BY <3>1, <3>2, <3>3 DEF PassedIsValid
  <2>11. SettingsAreParsed'
    <3>1. ASSUME NEW y \in Settings
          PROVE  c'.settings[y] = IF y \in (Given(doc.settings) \ keys)' THEN doc'.settings[y]
                                  ELSE Default[y]
      <4>1. CASE y = x
        BY <2>2, <2>3, <2>4, <2>6, <4>1 DEF v
      <4>2. CASE y # x
        BY <2>2, <2>3, <2>4, <2>6, <4>2 DEF IInv, SettingsAreParsed
      <4> QED
        BY <4>1, <4>2
    <3> QED
      BY <3>1 DEF SettingsAreParsed
  <2>12. AreasAreParsed'
    BY <2>2, <2>4 DEF IInv, AreasAreParsed, AreaIs
  <2>13. ConfigsAreCollected'
    BY <2>2, <2>4 DEF IInv, ConfigsAreCollected
  <2> QED
    BY <2>8, <2>9, <2>10, <2>11, <2>12, <2>13 DEF IInv
<1> QED
  BY <1>2, <1>3

\* What has been passed stays passed.
LEMMA PassedKept ==
  ASSUME PassedIsValid, UNCHANGED <<doc, keys, areaKeys>>
  PROVE  PassedIsValid'
  BY DEF PassedIsValid, Given, InRange, BadID, ValidArea, ValidSettings, ValidInterface

\* An area: refused for a defect of its own or of an interface, else stored under
\* its id, over what another of its names has left there.
LEMMA ParseAreaIInv ==
  ASSUME IInv, NEW n \in Names, ParseArea(n)
  PROVE  IInv'
<1>1. doc \in Documents /\ n \in DOMAIN doc.areas
  BY DEF IInv, TypeOK, ParseArea
<1>2. CASE ParseID(n) = BadId \/ ~ValidArea(doc.areas[n])
  <2>1. CASE ParseID(n) = BadId
    <3>1. BadID(n)
      BY <2>1 DEF BadID, ParseID
    <3> QED
      BY <1>1, <1>2, <3>1, FailIInv DEF Defective, ParseArea
  <2>2. CASE ~ValidArea(doc.areas[n])
    <3>1. Defective(doc)
      BY <1>1, <2>2, AreaVerdict DEF Defective
    <3> QED
      BY <1>2, <3>1, FailIInv DEF ParseArea
  <2> QED
    BY <1>2, <2>1, <2>2
<1>3. CASE ~(ParseID(n) = BadId \/ ~ValidArea(doc.areas[n]))
  <2> DEFINE id == ParseID(n)
             area == ParseAreaConfig(n, doc.areas[n])
  <2>1. /\ c' = [c EXCEPT !.areas = SetArea(@, id, area)] /\ areaKeys' = areaKeys \ {n}
        /\ n \in areaKeys /\ status = "parse"
        /\ UNCHANGED <<doc, status, keys, inherit, collect, configs>>
    BY <1>3 DEF ParseArea
  <2>2. id \in Ids /\ id = IdOf[n] /\ id # BadId /\ ValidArea(doc.areas[n])
    BY <1>3, IdsAssumption DEF ParseID
  <2>3. /\ DOMAIN c' = {"routerID", "settings", "areas"}
        /\ c'.routerID = c.routerID /\ c'.settings = c.settings
        /\ c'.areas = SetArea(c.areas, id, area)
    BY <2>1 DEF IInv, TypeOK
  <2> HIDE DEF id, area
  <2>4. /\ DOMAIN c'.areas = DOMAIN c.areas \cup {id} /\ c'.areas[id] = area
        /\ \A k \in DOMAIN c.areas : k # id => c'.areas[k] = c.areas[k]
    BY <2>3 DEF SetArea
  <2>5. Given(doc.settings)' = Given(doc.settings)
    BY <2>1 DEF Given
  <2>6. TypeOK'
    BY <2>1, <2>2, <2>3, <2>4, <2>5 DEF IInv, TypeOK
  <2>7. PhaseIsOver' /\ status' # "failed"
    BY <2>1 DEF PhaseIsOver
  <2>8. PassedIsValid'
    <3>1. \A x \in (Given(doc.settings) \ keys)' : InRange(x, doc.settings[x])'
      BY <2>1, <2>5 DEF IInv, PassedIsValid, InRange
    <3>2. ("router-id" \notin keys => ~BadID(doc.routerID))'
      BY <2>1 DEF IInv, PassedIsValid, BadID
    <3>3. \A m \in DOMAIN doc.areas : ValidArea(doc.areas[m]) => ValidArea(doc.areas[m])'
      BY <2>1 DEF ValidArea, ValidSettings, ValidInterface, Given, InRange
    <3>4. (\A m \in DOMAIN doc.areas \ areaKeys : IdOf[m] # BadId /\ ValidArea(doc.areas[m]))'
      BY <2>1, <2>2, <3>3 DEF IInv, PassedIsValid
    <3> QED
      BY <3>1, <3>2, <3>4 DEF PassedIsValid
  <2>9. SettingsAreParsed'
    BY <2>1, <2>3, <2>5 DEF IInv, SettingsAreParsed
  <2>10. AreasAreParsed'
    <3>1. \A m \in (DOMAIN doc.areas \ areaKeys)' : IdOf[m] \in DOMAIN c'.areas
      BY <2>1, <2>2, <2>4 DEF IInv, AreasAreParsed
    <3>2. AreaIs(id, n)' /\ n \in (DOMAIN doc.areas \ areaKeys)'
      BY <1>1, <2>1, <2>2, <2>4 DEF AreaIs, area
    <3>3. ASSUME NEW k \in DOMAIN c.areas, k # id
          PROVE  \E m \in (DOMAIN doc.areas \ areaKeys)' : AreaIs(k, m)'
      <4>1. PICK m \in DOMAIN doc.areas \ areaKeys : AreaIs(k, m)
        BY <2>1 DEF IInv, AreasAreParsed
      <4> QED
        BY <2>1, <2>3, <2>4, <3>3, <4>1 DEF AreaIs
    <3> QED
      BY <2>4, <3>1, <3>2, <3>3 DEF AreasAreParsed
  <2>11. ConfigsAreCollected'
    BY <2>1 DEF IInv, ConfigsAreCollected
  <2> QED
    BY <2>6, <2>7, <2>8, <2>9, <2>10, <2>11 DEF IInv
<1> QED
  BY <1>2, <1>3

\* The loop is over: every area there is waits for its defaults.
LEMMA ParseEndIInv ==
  ASSUME IInv, ParseEnd
  PROVE  IInv'
<1>1. TypeOK'
  BY DEF IInv, TypeOK, ParseEnd, Given
<1>2. PhaseIsOver' /\ status' # "failed"
  BY DEF PhaseIsOver, ParseEnd
<1>3. PassedIsValid'
  BY PassedKept DEF IInv, ParseEnd
<1>4. SettingsAreParsed'
  BY DEF IInv, SettingsAreParsed, ParseEnd, Given
<1>5. AreasAreParsed'
  BY DEF IInv, AreasAreParsed, AreaIs, ParseEnd
<1>6. ConfigsAreCollected'
  BY DEF IInv, ConfigsAreCollected, ParseEnd
<1> QED
  BY <1>1, <1>2, <1>3, <1>4, <1>5, <1>6 DEF IInv

\* One area gets its defaults, and its interfaces those of the area.
LEMMA SetDefaultsIInv ==
  ASSUME IInv, NEW id \in Ids, SetDefaults(id)
  PROVE  IInv'
<1> DEFINE area == WithDefaults(c.areas[id], c.settings)
<1>1. /\ status = "defaults" /\ id \in inherit /\ inherit' = inherit \ {id}
      /\ UNCHANGED <<doc, status, keys, areaKeys, collect, configs>>
      /\ c' = [c EXCEPT !.areas[id] = area]
  BY DEF SetDefaults
<1> HIDE DEF area
<1>2. /\ DOMAIN c' = {"routerID", "settings", "areas"}
      /\ c'.routerID = c.routerID /\ c'.settings = c.settings
      /\ c'.areas = [c.areas EXCEPT ![id] = area]
  BY <1>1 DEF IInv, TypeOK
<1>3. /\ DOMAIN c'.areas = DOMAIN c.areas /\ id \in DOMAIN c.areas /\ c'.areas[id] = area
      /\ \A k \in DOMAIN c.areas : k # id => c'.areas[k] = c.areas[k]
  BY <1>1, <1>2 DEF IInv, TypeOK
<1>4. TypeOK'
  BY <1>1, <1>2, <1>3 DEF IInv, TypeOK, Given
<1>5. PhaseIsOver' /\ status' # "failed"
  BY <1>1 DEF IInv, PhaseIsOver
<1>6. PassedIsValid'
  BY <1>1, PassedKept DEF IInv
<1>7. SettingsAreParsed'
  BY <1>1, <1>2 DEF IInv, SettingsAreParsed, Given
<1>8. AreasAreParsed'
  <2>1. ASSUME NEW k \in DOMAIN c.areas
        PROVE  \E m \in (DOMAIN doc.areas \ areaKeys)' : AreaIs(k, m)'
    <3>1. PICK m \in DOMAIN doc.areas \ areaKeys : AreaIs(k, m)
      BY <1>1 DEF IInv, AreasAreParsed
    <3>2. CASE k = id
      BY <1>1, <1>2, <1>3, <3>1, <3>2 DEF AreaIs, area
    <3>3. CASE k # id
      BY <1>1, <1>2, <1>3, <3>1, <3>3 DEF AreaIs
    <3> QED
      BY <3>2, <3>3
  <2> QED
    BY <1>1, <1>3, <2>1 DEF IInv, AreasAreParsed
<1>9. ConfigsAreCollected'
  BY <1>1 DEF IInv, ConfigsAreCollected
<1> QED
  BY <1>4, <1>5, <1>6, <1>7, <1>8, <1>9 DEF IInv

\* A document without the backbone is refused after all.
LEMMA CheckBackboneIInv ==
  ASSUME IInv, CheckBackbone
  PROVE  IInv'
<1>1. CASE Backbone \notin DOMAIN c.areas
  <2>1. areaKeys = {}
    BY DEF IInv, PhaseIsOver, CheckBackbone
  <2>2. \A n \in DOMAIN doc.areas : IdOf[n] \in DOMAIN c.areas
    BY <2>1 DEF IInv, AreasAreParsed
  <2>3. \A n \in DOMAIN doc.areas : IdOf[n] # Backbone
    BY <1>1, <2>2
  <2>4. Defective(doc)
    BY <2>3 DEF Defective
  <2> QED
    BY <1>1, <2>4, FailIInv DEF CheckBackbone
<1>2. CASE Backbone \in DOMAIN c.areas
  <2>1. /\ status = "defaults" /\ inherit = {} /\ status' = "collect" /\ collect' = DOMAIN c.areas
        /\ UNCHANGED <<doc, keys, areaKeys, c, inherit, configs>>
    BY <1>2 DEF CheckBackbone
  <2>2. TypeOK'
    BY <2>1 DEF IInv, TypeOK, Given
  <2>3. PhaseIsOver' /\ status' # "failed"
    BY <1>2, <2>1 DEF IInv, PhaseIsOver
  <2>4. PassedIsValid'
    BY <2>1, PassedKept DEF IInv
  <2>5. SettingsAreParsed'
    BY <2>1 DEF IInv, SettingsAreParsed, Given
  <2>6. AreasAreParsed'
    BY <2>1 DEF IInv, AreasAreParsed, AreaIs
  <2>7. ConfigsAreCollected'
    BY <2>1 DEF IInv, ConfigsAreCollected
  <2> QED
    BY <2>2, <2>3, <2>4, <2>5, <2>6, <2>7 DEF IInv
<1> QED
  BY <1>1, <1>2

\* InterfaceConfigs adds the interfaces of one area.
LEMMA CollectAreaIInv ==
  ASSUME IInv, NEW id \in Ids, CollectArea(id)
  PROVE  IInv'
<1> DEFINE new == c.areas[id].interfaces
<1>1. /\ status = "collect" /\ id \in collect /\ collect' = collect \ {id}
      /\ UNCHANGED <<doc, status, keys, areaKeys, c, inherit>>
      /\ configs' = [i \in DOMAIN configs \cup DOMAIN new |->
                        IF i \in DOMAIN new THEN new[i] ELSE configs[i]]
  BY DEF CollectArea
<1>2. id \in DOMAIN c.areas
  BY <1>1 DEF IInv, TypeOK
<1>3. TypeOK'
  BY <1>1 DEF IInv, TypeOK, Given
<1>4. PhaseIsOver' /\ status' # "failed"
  BY <1>1 DEF IInv, PhaseIsOver
<1>5. PassedIsValid'
  BY <1>1, PassedKept DEF IInv
<1>6. SettingsAreParsed'
  BY <1>1 DEF IInv, SettingsAreParsed, Given
<1>7. AreasAreParsed'
  BY <1>1 DEF IInv, AreasAreParsed, AreaIs
<1>8. ConfigsAreCollected'
  <2>1. ASSUME NEW i \in DOMAIN configs'
        PROVE  \E k \in DOMAIN c.areas :
                  /\ i \in DOMAIN c.areas[k].interfaces
                  /\ configs'[i] = c.areas[k].interfaces[i]
    <3>1. CASE i \in DOMAIN new
      BY <1>1, <1>2, <3>1
    <3>2. CASE i \notin DOMAIN new
      BY <1>1, <3>2 DEF IInv, ConfigsAreCollected
    <3> QED
      BY <3>1, <3>2
  <2>2. ASSUME NEW k \in DOMAIN c.areas \ collect'
        PROVE  DOMAIN c.areas[k].interfaces \subseteq DOMAIN configs'
    <3>1. CASE k = id
      BY <1>1, <3>1
    <3>2. CASE k # id
      BY <1>1, <3>2 DEF IInv, ConfigsAreCollected
    <3> QED
      BY <3>1, <3>2
  <2> QED
    BY <1>1, <2>1, <2>2 DEF ConfigsAreCollected
<1> QED
  BY <1>3, <1>4, <1>5, <1>6, <1>7, <1>8 DEF IInv

\* InterfaceConfigs returns.
LEMMA CollectEndIInv ==
  ASSUME IInv, CollectEnd
  PROVE  IInv'
<1>1. TypeOK'
  BY DEF IInv, TypeOK, CollectEnd, Given
<1>2. PhaseIsOver' /\ status' # "failed"
  BY DEF IInv, PhaseIsOver, CollectEnd
<1>3. PassedIsValid'
  BY PassedKept DEF IInv, CollectEnd
<1>4. SettingsAreParsed'
  BY DEF IInv, SettingsAreParsed, CollectEnd, Given
<1>5. AreasAreParsed'
  BY DEF IInv, AreasAreParsed, AreaIs, CollectEnd
<1>6. ConfigsAreCollected'
  BY DEF IInv, ConfigsAreCollected, CollectEnd
<1> QED
  BY <1>1, <1>2, <1>3, <1>4, <1>5, <1>6 DEF IInv

\* The invariant holds in every state of parseOSPFConfig and InterfaceConfigs.
THEOREM ParserInvariance == Spec => []IInv
<1>1. IInv /\ [Next]_vars => IInv'
  <2> SUFFICES ASSUME IInv, [Next]_vars PROVE IInv'
    OBVIOUS
  <2>1. CASE ParseStep
    BY <2>1, ParseUnknownKeyIInv, ParseRouterIDIInv, ParseSettingIInv, ParseAreaIInv,
       ParseEndIInv DEF ParseStep
  <2>2. CASE \E id \in Ids : SetDefaults(id) \/ CollectArea(id)
    BY <2>2, SetDefaultsIInv, CollectAreaIInv
  <2>3. CASE CheckBackbone \/ CollectEnd
    BY <2>3, CheckBackboneIInv, CollectEndIInv
  <2>4. CASE UNCHANGED vars
    BY <2>4, StutterIInv
  <2> QED
    BY <2>1, <2>2, <2>3, <2>4 DEF Next
<1> QED
  BY <1>1, InitIInv, PTL DEF Spec

\* A document is refused if it has a defect, and for no other reason: whichever
\* order parseOSPFConfig goes through its maps in, and however many areas and
\* interfaces there are.
THEOREM VerdictIsTheDocuments == Spec => []VerdictIsDocument
<1>1. IInv => VerdictIsDocument
  <2> SUFFICES ASSUME IInv, status \in {"collect", "done"} PROVE ~Defective(doc)
    BY DEF IInv, VerdictIsDocument
  <2>1. /\ doc \in Documents /\ doc.settings \in SettingsDocs /\ DOMAIN doc.areas \subseteq Names
    BY DocTypes DEF IInv, TypeOK
  <2>2. ~doc.broken /\ keys = {} /\ areaKeys = {} /\ Backbone \in DOMAIN c.areas
    BY DEF IInv, PhaseIsOver
  <2>3. ~BadSettings(doc.settings) /\ ~BadID(doc.routerID)
    <3>1. ValidSettings(doc.settings) /\ ~BadID(doc.routerID)
      BY <2>2 DEF IInv, PassedIsValid, ValidSettings
    <3> QED
      BY <2>1, <3>1, SettingsVerdict
  <2>4. \A n \in DOMAIN doc.areas : IdOf[n] # BadId /\ ValidArea(doc.areas[n])
    BY <2>2 DEF IInv, PassedIsValid
  <2>5. \A n \in DOMAIN doc.areas : ~BadID(n)
    BY <2>1, <2>4, NamesAssumption DEF BadID
  <2>6. \E n \in DOMAIN doc.areas : IdOf[n] = Backbone
    BY <2>2 DEF IInv, AreasAreParsed, AreaIs
  <2> QED
    BY <2>1, <2>2, <2>3, <2>4, <2>5, <2>6, AreaVerdict DEF Defective
<1> QED
  BY <1>1, ParserInvariance, PTL

\* InterfaceConfigs gives every interface the innermost setting of one area that
\* names it, and loses none but by a second name of its area.
THEOREM InterfacesGetTheNearest == Spec => []SettingsAreNearest
<1>1. IInv => SettingsAreNearest
  <2> SUFFICES ASSUME IInv, status = "done" PROVE
          /\ \A i \in DOMAIN configs :
                \E n \in DOMAIN doc.areas : ConfiguredBy(configs[i], n, i)
          /\ \A n \in DOMAIN doc.areas : \A i \in DOMAIN doc.areas[n].interfaces :
                \/ i \in DOMAIN configs
                \/ \E m \in DOMAIN doc.areas : m # n /\ IdOf[m] = IdOf[n]
    BY DEF SettingsAreNearest
  <2>1. doc \in Documents /\ SettingsAreParsed
    BY DEF IInv, TypeOK
  <2>2. keys = {} /\ areaKeys = {} /\ inherit = {} /\ collect = {}
    BY DEF IInv, PhaseIsOver
  <2>3. ASSUME NEW id \in DOMAIN c.areas
        PROVE  \E n \in DOMAIN doc.areas :
                  /\ IdOf[n] = id /\ ValidArea(doc.areas[n])
                  /\ c.areas[id] = WithDefaults(ParseAreaConfig(n, doc.areas[n]), c.settings)
    <3>1. PICK n \in DOMAIN doc.areas : AreaIs(id, n)
      BY <2>2 DEF IInv, AreasAreParsed
    <3> QED
      BY <2>2, <3>1 DEF AreaIs, IInv, PassedIsValid
  <2>4. ASSUME NEW i \in DOMAIN configs
        PROVE  \E n \in DOMAIN doc.areas : ConfiguredBy(configs[i], n, i)
    <3>1. PICK id \in DOMAIN c.areas :
              i \in DOMAIN c.areas[id].interfaces /\ configs[i] = c.areas[id].interfaces[i]
      BY DEF IInv, ConfigsAreCollected
    <3>2. PICK n \in DOMAIN doc.areas :
              /\ IdOf[n] = id /\ ValidArea(doc.areas[n])
              /\ c.areas[id] = WithDefaults(ParseAreaConfig(n, doc.areas[n]), c.settings)
      BY <2>3
    <3>3. i \in DOMAIN doc.areas[n].interfaces
      BY <3>1, <3>2, DefaultsOfInterfaces
    <3> QED
      BY <2>1, <2>2, <3>1, <3>2, <3>3, DefaultsAreNearest
  <2>5. ASSUME NEW n \in DOMAIN doc.areas, NEW i \in DOMAIN doc.areas[n].interfaces
        PROVE  \/ i \in DOMAIN configs
               \/ \E m \in DOMAIN doc.areas : m # n /\ IdOf[m] = IdOf[n]
    <3>1. IdOf[n] \in DOMAIN c.areas
      BY <2>2 DEF IInv, AreasAreParsed
    <3>2. PICK m \in DOMAIN doc.areas :
              /\ IdOf[m] = IdOf[n] /\ ValidArea(doc.areas[m])
              /\ c.areas[IdOf[n]] = WithDefaults(ParseAreaConfig(m, doc.areas[m]), c.settings)
      BY <2>3, <3>1
    <3>3. CASE m = n
      <4>1. i \in DOMAIN c.areas[IdOf[n]].interfaces
        BY <3>2, <3>3, DefaultsOfInterfaces
      <4> QED
        BY <2>2, <3>1, <4>1 DEF IInv, ConfigsAreCollected
    <3>4. CASE m # n
      BY <3>2, <3>4
    <3> QED
      BY <3>3, <3>4
  <2> QED
    BY <2>4, <2>5
<1> QED
  BY <1>1, ParserInvariance, PTL

================================================================================
