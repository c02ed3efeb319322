------------------------------ MODULE CommandGraph ------------------------------
(***************************************************************************)
(* The commands of chatterc (chatterc/commands/commands.go): declaring,    *)
(* merging, matching and completing them.                                  *)
(*                                                                         *)
(* The nodes of the graph live in a heap, a sequence of records; a node is *)
(* its index, 0 is nil.  Nodes are shared: what follows a choice is one    *)
(* node, the child of every option, and merging changes nodes in place.    *)
(* A choice is explicit if a declaration wrote it (<ip|ipv6>), implicit if *)
(* merging made it from different words at the same place.                 *)
(*                                                                         *)
(* A declaration is the sequence of its elements, an element the sequence  *)
(* of its atoms and whether they are in angle brackets; the scanner that   *)
(* splits a declaration into them, and a choice within a choice, are left  *)
(* out.  The words of the input are tokens; strings.HasPrefix and          *)
(* netip.ParseAddr are the constants Begins, V4 and V6.  An attribute is   *)
(* the number of the declaration that set it, 0 if none did.  The          *)
(* io.Writer that every handler gets is left out of its types.             *)
(***************************************************************************)
EXTENDS Integers, SequencesExt

CONSTANTS Literals,    \* the words of commands
          Tokens,      \* the words a user may type, "" included
          Begins,      \* Begins[t]: the tokens that begin with token t
          V4, V6,      \* the tokens that are IPv4 and IPv6 addresses
          Prefix4,     \* the tokens that isPrefixOfIPv4Address accepts
          Prefix6,     \* and isPrefixOfIPv6Address
          Completions  \* Completions[p]: what a function completing p returns

ASSUME TokensAssumption ==
    /\ Literals \subseteq Tokens /\ V4 \subseteq Tokens /\ V6 \subseteq Tokens
    /\ V4 \cap V6 = {} /\ (V4 \cup V6) \cap Literals = {} /\ "" \in Tokens
    /\ Tokens \cap {"STRING", "A.B.C.D", "X:X:X::X", "choice"} = {}
    /\ Prefix4 \subseteq Tokens /\ Prefix6 \subseteq Tokens
ASSUME BeginsAssumption ==
    /\ Begins \in [Tokens -> SUBSET Tokens] /\ Begins[""] = Tokens
    /\ \A t \in Tokens : t \in Begins[t]
    /\ \A t \in Tokens : \A u \in Begins[t] : Begins[u] \subseteq Begins[t]
ASSUME CompletionsAssumption ==
    /\ DOMAIN Completions = {"STRING", "A.B.C.D", "X:X:X::X"}
    /\ Completions["STRING"] \subseteq Tokens
    /\ Completions["A.B.C.D"] \subseteq V4 /\ Completions["X:X:X::X"] \subseteq V6

Params == {"STRING", "A.B.C.D", "X:X:X::X"}
Atoms == Literals \cup Params
Choice == "choice"

Attributes == {"handler", "description", "autocomplete"}
NoAttributes == [a \in Attributes |-> 0]

Node(id, kids, explicit, attrs) ==
    [id |-> id, kids |-> kids, explicit |-> explicit, attrs |-> attrs]

IsChoice(h, n) == h[n].id = Choice

--------------------------------------------------------------------------------
(* ParseDeclaration, Leaves and the setters of a leaf.                       *)

ParamType(atom) ==
    CASE atom = "STRING" -> "string"
      [] atom \in {"A.B.C.D", "X:X:X::X"} -> "addr"
      [] OTHER -> "bool"

\* updateParamTypesWithTypes for one element, after the types ts.
ElementTypes_Dedup(ts, e) ==
    IF e.explicit
    THEN FoldLeft(LAMBDA seen, atom :
                      IF ParamType(atom) \notin ToSet(seen)
                      THEN Append(seen, ParamType(atom)) ELSE seen,
                  ts, e.atoms)
    ELSE IF e.atoms[1] \in Params THEN Append(ts, ParamType(e.atoms[1])) ELSE ts
ElementTypes(ts, e) ==
    IF e.explicit
    THEN FoldLeft(LAMBDA seen, atom :
                      IF ParamType(atom) \notin ToSet(seen) \/ atom \in Literals
                      THEN Append(seen, ParamType(atom)) ELSE seen,
                  ts, e.atoms)
    ELSE IF e.atoms[1] \in Params THEN Append(ts, ParamType(e.atoms[1])) ELSE ts

\* The types of the parameters of a declaration, which SetHandlerFunc asks of
\* the handler.
ParamTypes(d) == FoldLeft(ElementTypes, <<>>, d)

\* What SetHandlerFunc, SetDescription and SetAutocompleteFunc make of attrs:
\* a literal has no autocomplete function.
LeafAttributes(atom, attrs) ==
    IF atom \in Literals THEN [attrs EXCEPT !["autocomplete"] = 0] ELSE attrs

\* The nodes of d from element i on, with attributes attrs for the leaves; the
\* first of them is the last in the heap.
RECURSIVE ParseFrom(_, _, _, _)
ParseFrom(h, d, i, attrs) ==
    LET leaf == i = Len(d)
        rest == IF leaf THEN h ELSE ParseFrom(h, d, i + 1, attrs)
        kids == IF leaf THEN <<>> ELSE <<Len(rest)>>
        atoms == d[i].atoms
        new == [k \in 1 .. Len(atoms) |->
                   Node(atoms[k], kids, FALSE,
                        IF leaf THEN LeafAttributes(atoms[k], attrs) ELSE NoAttributes)]
        options == [k \in 1 .. Len(atoms) |-> Len(rest) + k]
    IN  IF d[i].explicit
        THEN Append(rest \o new, Node(Choice, options, TRUE, NoAttributes))
        ELSE rest \o new

ParseDeclaration(h, d, attrs) == ParseFrom(h, d, 1, attrs)

--------------------------------------------------------------------------------
(* Merge and MergeWithoutExplicitChoiceRestrictions: strict or loose.  The   *)
(* result has the heap, the merged node, and whether there was an error.     *)

Merged(h, n) == [heap |-> h, node |-> n, err |-> FALSE]
Refused(h) == [heap |-> h, node |-> 0, err |-> TRUE]

\* The place of a node like n among ns, 0 if there is none.
FindIndex(h, n, ns) == SelectInSeq(ns, LAMBDA m : h[m].id = h[n].id)

MergeAttributes_KeepFirst(h, n1, n2) ==
    [h EXCEPT ![n1].attrs = [a \in Attributes |->
        IF h[n1].attrs[a] # 0 THEN h[n1].attrs[a] ELSE h[n2].attrs[a]]]
MergeAttributes(h, n1, n2) ==
    [h EXCEPT ![n1].attrs = [a \in Attributes |->
        IF h[n2].attrs[a] # 0 THEN h[n2].attrs[a] ELSE h[n1].attrs[a]]]

\* Two choices that Merge accepts: implicit ones, or the same explicit one.
Mergeable(h, n1, n2) ==
    LET ids(n) == [k \in 1 .. Len(h[n].kids) |-> h[h[n].kids[k]].id]
    IN  /\ h[n1].explicit <=> h[n2].explicit
        /\ h[n1].explicit => ids(n1) = ids(n2)

\* Every option of n1 whose child is like g has g itself as its child.
ShareChild(h, n1, g) ==
    FoldLeft(LAMBDA heap, m :
                 IF heap[m].kids # <<>> /\ heap[heap[m].kids[1]].id = heap[g].id
                 THEN [heap EXCEPT ![m].kids[1] = g] ELSE heap,
             h, h[n1].kids)

RECURSIVE MergeNodes(_, _, _, _)
RECURSIVE MergeOptions(_, _, _, _, _)

\* Option c2 of an explicit choice is in the explicit choice n1 now, at place i
\* if it was there before: the options go on to share what follows them.
ShareGrandchild(h, n1, c2, i, loose) ==
    LET like == SelectInSeq(h[n1].kids, LAMBDA m :
                    h[m].kids # <<>> /\ h[h[m].kids[1]].id = h[h[c2].kids[1]].id)
        r == MergeNodes(h, h[h[n1].kids[like]].kids[1], h[c2].kids[1], loose)
    IN  IF h[c2].kids = <<>> THEN Merged(h, n1)
        ELSE IF i # 0 THEN Merged(ShareChild(h, n1, h[h[n1].kids[i]].kids[1]), n1)
        ELSE IF r.err THEN r
        ELSE Merged(ShareChild(r.heap, n1, r.node), n1)

\* The loop over the options of n2, from the k-th on.
MergeOptions(h, n1, n2, k, loose) ==
    IF k > Len(h[n2].kids) THEN Merged(h, n1)
    ELSE LET c2 == h[n2].kids[k]
             i == FindIndex(h, c2, h[n1].kids)
             r == IF i = 0
                  THEN Merged([h EXCEPT ![n1].kids = Append(@, c2)], c2)
                  ELSE MergeNodes(h, h[n1].kids[i], c2, loose)
             placed == IF i = 0 THEN r.heap
                       ELSE [r.heap EXCEPT ![n1].kids[i] = r.node]
             s == IF h[n1].explicit /\ h[n2].explicit
                  THEN ShareGrandchild(placed, n1, c2, i, loose)
                  ELSE Merged(placed, n1)
         IN  IF r.err THEN r
             ELSE IF s.err THEN s
             ELSE MergeOptions(s.heap, n1, n2, k + 1, loose)

\* Two nodes for the same atom: their children are merged.
MergeAtoms(h, n1, n2, loose) ==
    LET g == MergeAttributes(h, n1, n2)
        r == MergeNodes(g, g[n1].kids[1], g[n2].kids[1], loose)
    IN  CASE g[n2].kids = <<>> -> Merged(g, n1)
          [] g[n1].kids = <<>> -> Merged([g EXCEPT ![n1].kids = g[n2].kids], n1)
          [] OTHER -> IF r.err THEN r
                      ELSE Merged([r.heap EXCEPT ![n1].kids[1] = r.node], n1)

\* The implicit choice whose only option is n.
Wrap(h, n) == Append(h, Node(Choice, <<n>>, FALSE, NoAttributes))

MergeNodes(h, n1, n2, loose) ==
    LET choice1 == IsChoice(h, n1)
        choice2 == IsChoice(h, n2)
        one == Wrap(h, n1)
        two == Wrap(h, n2)
        both == Wrap(one, n2)
    IN  CASE choice1 /\ choice2 ->
                IF loose \/ Mergeable(h, n1, n2)
                THEN MergeOptions(h, n1, n2, 1, loose) ELSE Refused(h)
          [] choice1 /\ ~choice2 ->
                IF h[n1].explicit /\ ~loose THEN Refused(h)
                ELSE MergeOptions(two, n1, Len(two), 1, loose)
          [] ~choice1 /\ choice2 ->
                IF h[n2].explicit /\ ~loose THEN Refused(h)
                ELSE MergeOptions(one, Len(one), n2, 1, loose)
          [] ~choice1 /\ ~choice2 /\ h[n1].id = h[n2].id ->
                MergeAtoms(h, n1, n2, loose)
          [] OTHER -> MergeOptions(both, Len(one), Len(both), 1, loose)

Merge(h, root, n, loose) ==
    IF root = 0 THEN Merged(h, n) ELSE MergeNodes(h, root, n, loose)

--------------------------------------------------------------------------------
(* matchTokens and Match.  A match is the steps of its chain, each a node    *)
(* with arguments, and isComplete.                                           *)

Arg(type, val) == [type |-> type, val |-> val]

Accepts(atom, tok) ==
    CASE atom = "STRING" -> TRUE
      [] atom = "A.B.C.D" -> tok \in V4
      [] atom = "X:X:X::X" -> tok \in V6
      [] OTHER -> atom \in Begins[tok]

AtomArgs(atom, tok) ==
    IF atom \in Params THEN <<Arg(ParamType(atom), tok)>> ELSE <<>>

\* The arguments for an explicit choice n of which option c matched, arg being
\* the argument of c if it is a parameter.
ChoiceArgs(h, n, c, arg) ==
    LET Add(args, o) ==
            LET t == ParamType(h[o].id)
                i == SelectInSeq(args, LAMBDA a : a.type = t)
            IN  CASE h[o].id \in Literals ->
                        Append(args, Arg("bool", IF o = c THEN "true" ELSE "false"))
                  [] h[o].id \notin Literals /\ i = 0 ->
                        Append(args, IF o = c THEN arg[1] ELSE Arg(t, "zero"))
                  [] OTHER -> IF o = c THEN [args EXCEPT ![i] = arg[1]] ELSE args
    IN  FoldLeft(Add, <<>>, h[n].kids)

RECURSIVE MatchTokens(_, _, _)
MatchTokens(h, n, toks) ==
    IF IsChoice(h, n)
    THEN LET WithArgs(m) ==
                 IF h[n].explicit
                 THEN [m EXCEPT !.steps[1].args =
                          ChoiceArgs(h, n, m.steps[1].node, m.steps[1].args)]
                 ELSE m
             Option(k) == LET ms == MatchTokens(h, h[n].kids[k], toks)
                          IN  [i \in 1 .. Len(ms) |-> WithArgs(ms[i])]
         IN  FlattenSeq([k \in 1 .. Len(h[n].kids) |-> Option(k)])
    ELSE LET step == [node |-> n, args |-> AtomArgs(h[n].id, toks[1])]
             rest == MatchTokens(h, h[n].kids[1], Tail(toks))
         IN  CASE ~Accepts(h[n].id, toks[1]) -> <<>>
               [] Accepts(h[n].id, toks[1]) /\ Len(toks) = 1 ->
                     <<[steps |-> <<step>>, complete |-> h[n].attrs["handler"] # 0]>>
               [] OTHER ->
                     IF h[n].kids = <<>> THEN <<>>
                     ELSE [i \in 1 .. Len(rest) |->
                             [steps |-> <<step>> \o rest[i].steps,
                              complete |-> rest[i].complete]]

\* The positions in cands (each the place of a candidate among the matches) whose
\* word j is exactly the token, or all of them if none is.
Narrow_Renumber(h, matches, cands, tok, j) ==
    LET all == [i \in 1 .. Len(cands) |-> i]
        exact == SelectSeq(all, LAMBDA i : h[matches[cands[i]].steps[j].node].id = tok)
    IN  IF exact # <<>> THEN [i \in 1 .. Len(exact) |-> i] ELSE all
Narrow(h, matches, cands, tok, j) ==
    LET all == [i \in 1 .. Len(cands) |-> i]
        exact == SelectSeq(all, LAMBDA i : h[matches[cands[i]].steps[j].node].id = tok)
    IN  IF exact # <<>> THEN exact ELSE all

\* The loop over the tokens.  What it returns is looked up among the matches by
\* position in the narrowed list, not by the candidate's place.
RECURSIVE Disambiguate(_, _, _, _, _)
Disambiguate(h, matches, cands, toks, j) ==
    LET kept == Narrow(h, matches, cands, toks[j], j)
        Only(s) == [i \in 1 .. Len(kept) |-> s[kept[i]]]
    IN  IF Len(kept) <= 1 \/ j = Len(toks) THEN Only(matches)
        ELSE Disambiguate(h, matches, Only(cands), toks, j + 1)

Match_First(h, n, toks) ==
    LET matches == MatchTokens(h, n, toks)
    IN  IF matches = <<>> THEN matches ELSE <<matches[1]>>
Match(h, n, toks) ==
    LET matches == MatchTokens(h, n, toks)
    IN  IF Len(matches) <= 1 THEN matches
        ELSE Disambiguate(h, matches, [i \in 1 .. Len(matches) |-> i], toks, 1)

\* Invoker: the handler of a complete match and its arguments.
HandlerOf(h, m) == h[Last(m.steps).node].attrs["handler"]
ArgsOf(m) == FlattenSeq([i \in 1 .. Len(m.steps) |-> m.steps[i].args])

--------------------------------------------------------------------------------
(* Completion: GetAutocompleteOptions and GetAutocompleteNodes, for the      *)
(* fields of a line, of which the last may be empty.                         *)

\* The nodes that the last field could be a word of.
RECURSIVE Reached_WholeWords(_, _, _)
Reached_WholeWords(h, n, fields) ==
    LET Below(fs) == UNION {Reached_WholeWords(h, c, fs) : c \in ToSet(h[n].kids)}
    IN  CASE IsChoice(h, n) -> Below(fields)
          [] ~IsChoice(h, n) /\ Len(fields) = 1 -> {n}
          [] OTHER -> IF h[n].id = fields[1] THEN Below(Tail(fields)) ELSE {}
RECURSIVE Reached_AnyAddress(_, _, _)
Reached_AnyAddress(h, n, fields) ==
    LET Below(fs) == UNION {Reached_AnyAddress(h, c, fs) : c \in ToSet(h[n].kids)}
    IN  CASE IsChoice(h, n) -> Below(fields)
          [] ~IsChoice(h, n) /\ Len(fields) = 1 -> {n}
          [] OTHER -> IF h[n].id \in Params \cup Begins[fields[1]] THEN Below(Tail(fields)) ELSE {}
RECURSIVE Reached(_, _, _)
Reached(h, n, fields) ==
    LET Below(fs) == UNION {Reached(h, c, fs) : c \in ToSet(h[n].kids)}
    IN  CASE IsChoice(h, n) -> Below(fields)
          [] ~IsChoice(h, n) /\ Len(fields) = 1 -> {n}
          [] OTHER -> IF Accepts(h[n].id, fields[1]) THEN Below(Tail(fields)) ELSE {}

\* OptionsFromAutocompleteFunc, and the word of a literal.
OptionsOf(h, n, prefix) ==
    IF h[n].id \in Literals THEN {h[n].id} \cap Begins[prefix]
    ELSE IF h[n].attrs["autocomplete"] # 0 THEN Completions[h[n].id] \cap Begins[prefix]
    ELSE {}

GetAutocompleteOptions(h, root, fields) ==
    UNION {OptionsOf(h, n, Last(fields)) : n \in Reached(h, root, fields)}

\* Whether that calls an autocomplete function, which may fail.
CallsAutocompleteFunc(h, root, fields) ==
    \E n \in Reached(h, root, fields) : h[n].attrs["autocomplete"] # 0

\* The words offered by a question mark: nodes of the same id are shown once.
GetAutocompleteNodes(h, root, fields) ==
    LET Shows(atom) ==
            CASE atom = "STRING" -> TRUE
              [] atom = "A.B.C.D" -> Last(fields) \in Prefix4
              [] atom = "X:X:X::X" -> Last(fields) \in Prefix6
              [] OTHER -> atom \in Begins[Last(fields)]
    IN  {h[n].id : n \in {m \in Reached(h, root, fields) : Shows(h[m].id)}}

================================================================================
