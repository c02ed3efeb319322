------------------------------ MODULE ServiceGraph ------------------------------
(***************************************************************************)
(* Config.Bootstraps (config/config.go) and the depth-first search behind  *)
(* it (config/graph.go): the order in which the services are started.      *)
(*                                                                         *)
(* A node of the graph is a service that is to run, with the list of the   *)
(* services it depends on; a dependency need not be a node itself.  The    *)
(* recursion of visit is the sequence frames, innermost call last: a frame *)
(* is the service of the call and the dependencies its loop has still to   *)
(* visit.                                                                  *)
(***************************************************************************)
EXTENDS Integers, Sequences, FiniteSets

CONSTANTS Services,   \* the services that exist
          ApiServer,  \* the service that always runs
          DepLists    \* the dependency lists a protocol may have

ASSUME GraphServicesAssumption == IsFiniteSet(Services)
ASSUME ApiServerAssumption == ApiServer \in Services
ASSUME DepListsAssumption == DepLists \subseteq Seq(Services)

VARIABLES nodes,    \* the graph: a function from services to dependency lists
          sorting,  \* topologicalSort has been called
          todo,     \* the nodes its loop has still to visit
          visited,  \* the services visit was called for
          frames,   \* the calls of visit in progress
          stack     \* the result

graphVars == <<nodes, sorting, todo, visited, frames, stack>>

Elems(seq) == {seq[i] : i \in 1 .. Len(seq)}

\* g.nodes[s]: no dependencies if s is not a node.
Deps(s) == IF s \in DOMAIN nodes THEN nodes[s] ELSE <<>>

--------------------------------------------------------------------------------

\* newGraph, and addNode of the API server.
GraphInit ==
    /\ nodes = [s \in {ApiServer} |-> <<>>]
    /\ sorting = FALSE
    /\ todo = {}
    /\ visited = {}
    /\ frames = <<>>
    /\ stack = <<>>

\* The loop over c.protocolConfigs: a protocol that should run is added.  The
\* configurations are the entries of a map, so a protocol is added once.
AddNode(s, deps) ==
    /\ ~sorting
    /\ s \notin DOMAIN nodes
    /\ nodes' = [t \in DOMAIN nodes \cup {s} |-> IF t = s THEN deps ELSE nodes[t]]
    /\ UNCHANGED <<sorting, todo, visited, frames, stack>>

TopologicalSort ==
    /\ ~sorting
    /\ sorting' = TRUE
    /\ todo' = DOMAIN nodes
    /\ UNCHANGED <<nodes, visited, frames, stack>>

\* The call visit(s), on top of the calls fs.
Visit(fs, s) ==
    IF s \in visited
    THEN frames' = fs /\ UNCHANGED visited
    ELSE /\ visited' = visited \cup {s}
         /\ frames' = Append(fs, [svc |-> s, deps |-> Deps(s)])

\* for service := range g.nodes { visit(service) }, in any order.
VisitNode_FirstOnly ==
    /\ frames = <<>>
    /\ \E s \in todo :
          /\ todo' = {}
          /\ Visit(frames, s)
    /\ UNCHANGED <<nodes, sorting, stack>>
VisitNode ==
    /\ frames = <<>>
    /\ \E s \in todo :
          /\ todo' = todo \ {s}
          /\ Visit(frames, s)
    /\ UNCHANGED <<nodes, sorting, stack>>

Top == frames[Len(frames)]
Below == SubSeq(frames, 1, Len(frames) - 1)

\* for _, dep := range g.nodes[service] { visit(dep) }
VisitDep_SameDep ==
    /\ frames # <<>>
    /\ Top.deps # <<>>
    /\ Visit(frames, Head(Top.deps))
    /\ UNCHANGED <<nodes, sorting, todo, stack>>
VisitDep ==
    /\ frames # <<>>
    /\ Top.deps # <<>>
    /\ Visit(Append(Below, [Top EXCEPT !.deps = Tail(@)]), Head(Top.deps))
    /\ UNCHANGED <<nodes, sorting, todo, stack>>

\* stack = append(stack, service), and visit returns.
VisitReturn_Prepend ==
    /\ frames # <<>>
    /\ Top.deps = <<>>
    /\ stack' = <<Top.svc>> \o stack
    /\ frames' = Below
    /\ UNCHANGED <<nodes, sorting, todo, visited>>
VisitReturn ==
    /\ frames # <<>>
    /\ Top.deps = <<>>
    /\ stack' = Append(stack, Top.svc)
    /\ frames' = Below
    /\ UNCHANGED <<nodes, sorting, todo, visited>>

Sort == TopologicalSort \/ VisitNode \/ VisitDep \/ VisitReturn

GraphNext ==
    \/ \E s \in Services, deps \in DepLists : AddNode(s, deps)
    \/ Sort

GraphSpec == GraphInit /\ [][GraphNext]_graphVars

FairGraphSpec == GraphSpec /\ WF_graphVars(Sort)

--------------------------------------------------------------------------------
(* Properties                                                                *)

Frames == [svc : Services, deps : Seq(Services)]

GraphTypeOK ==
    /\ DOMAIN nodes \subseteq Services
    /\ \A s \in DOMAIN nodes : nodes[s] \in Seq(Services)
    /\ sorting \in BOOLEAN
    /\ todo \subseteq DOMAIN nodes
    /\ visited \subseteq Services
    /\ frames \in Seq(Frames)
    /\ stack \in Seq(Services)

\* rank orders the services so that every service is above the ones it
\* depends on.
Ranks(rank) == \A s \in Services : \A d \in Elems(Deps(s)) : rank[d] < rank[s]

Acyclic == \E rank \in [Services -> 0 .. Cardinality(Services)] : Ranks(rank)

Sorted == sorting /\ todo = {} /\ frames = <<>>

\* "Services are started in dependency order": where the dependencies have no
\* cycle, every service comes after all the services it depends on.
DependencyOrder ==
    Acyclic => \A i \in 1 .. Len(stack) :
                   Elems(Deps(stack[i])) \subseteq Elems(SubSeq(stack, 1, i - 1))

\* The result is exactly the nodes and what they depend on, directly or not,
\* each of them once (start would refuse a second one and the daemon would
\* stop), even when the dependencies form a cycle or name a service twice.
Complete ==
    Sorted =>
        /\ \A i, j \in 1 .. Len(stack) : stack[i] = stack[j] => i = j
        /\ DOMAIN nodes \subseteq Elems(stack)
        /\ \A s \in Elems(stack) : Elems(Deps(s)) \subseteq Elems(stack)
        /\ \A s \in Elems(stack) \ DOMAIN nodes :
               \E n \in DOMAIN nodes : s \in Elems(Deps(n))

\* The recursion ends for every graph.
Terminates == sorting ~> Sorted

================================================================================
