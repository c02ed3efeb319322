------------------------------ MODULE MCOspfConfig ------------------------------
(* Two settings with a small limit; area 0 under two names, area 1, and a    *)
(* name that is no id.  Every document without a defect that has at most two *)
(* areas, and documents with one defect at every level.                      *)
EXTENDS OspfConfig, TLC

MCSettings == {"cost", "hello"}
MCLimit == [x \in MCSettings |-> 5]
MCDefault == [x \in MCSettings |-> 1]
MCNames == {"0", "0.0.0.0", "1", "x"}
MCIdOf == [n \in MCNames |-> CASE n = "1" -> 1 [] n = "x" -> BadId [] OTHER -> 0]

\* The hello interval is never given; the cost of a level is v.
Only(v) == [x \in MCSettings |-> IF x = "cost" THEN v ELSE Unset]

Bad == {NotInt, 0, 6}

InterfaceDocs(broken, values) == {[broken |-> broken, settings |-> Only(v)] : v \in values}
AreaDocs(broken, values, interfaces) ==
    {[broken |-> broken, settings |-> Only(v), interfaces |-> is] :
        v \in values, is \in UNION {[I -> interfaces] : I \in SUBSET Interfaces}}
ProtocolDocs(broken, values, routers, names, areas) ==
    {[broken |-> broken, settings |-> Only(v), routerID |-> r, areas |-> as] :
        v \in values, r \in routers,
        as \in UNION {[N -> areas] : N \in {M \in SUBSET names : Cardinality(M) <= 2}}}

GoodInterface == InterfaceDocs(FALSE, {Unset, 5})
GoodArea == AreaDocs(FALSE, {Unset, 3}, GoodInterface)
Ids01 == MCNames \ {"x"}

MCDocuments ==
    ProtocolDocs(FALSE, {Unset, 2}, {Unset}, Ids01, GoodArea)
    \cup ProtocolDocs(TRUE, {2}, {"1"}, {"0"}, GoodArea)
    \cup ProtocolDocs(FALSE, Bad, {"1", "x", NotInt}, {"0", "1"},
                      AreaDocs(FALSE, {3}, {}))
    \cup ProtocolDocs(FALSE, {2}, {"1"}, {"0", "x"},
                      AreaDocs(TRUE, {3}, {}) \cup AreaDocs(FALSE, Bad, {})
                      \cup AreaDocs(FALSE, {3}, {}))
    \cup ProtocolDocs(FALSE, {2}, {"x", "1"}, {"0"},
                      AreaDocs(FALSE, {3}, InterfaceDocs(TRUE, {5}) \cup InterfaceDocs(FALSE, Bad)))

================================================================================
