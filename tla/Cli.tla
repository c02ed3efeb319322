---------------------------------- MODULE Cli ----------------------------------
(***************************************************************************)
(* The interactive client (chatterc/cli.go) on the commands of             *)
(* CommandGraph: a program declares commands, then a user types lines,     *)
(* asks for completion and help, and runs them.                            *)
(*                                                                         *)
(* A declaration is Register (a command with its handler), Document (a     *)
(* description) or RegisterAutocomplete, as their Must variants: an error  *)
(* is a panic.  A handler is known by the number of its declaration and    *)
(* has the types its declaration asks for.  The line is its fields as      *)
(* autocompleteFields gives them, the last one empty after a space, with   *)
(* the cursor at its end.  Output is left out but for what decides it.     *)
(***************************************************************************)
EXTENDS CommandGraph, FiniteSets

CONSTANTS Declarations,     \* the declarations [kind, elements] of a program
          Lines,            \* the lines that a user types
          MaxDeclarations   \* how many declarations a program makes

VARIABLES heap, root,   \* cli.root and the nodes
          history,      \* the declarations made, in order
          phase,        \* "declare", "run" (cli.running), "stopped" or "panic"
          line,         \* the line being edited
          lastKey,      \* cli.lastKey: "tab" or "other"
          answer        \* what the line just entered did
vars == <<heap, root, history, phase, line, lastKey, answer>>

Empty == <<"">>
NoAnswer == [did |-> "none", words |-> <<>>, handler |-> 0, args |-> <<>>]

Kinds == {"Register", "Document", "RegisterAutocomplete"}
ASSUME DeclarationsAssumption ==
    /\ MaxDeclarations \in Nat
    /\ \A d \in Declarations :
         /\ d.kind \in Kinds /\ d.elements # <<>>
         /\ \A e \in ToSet(d.elements) :
              /\ ToSet(e.atoms) \subseteq Atoms /\ e.atoms # <<>>
              /\ IsInjective(e.atoms) /\ (Len(e.atoms) > 1 => e.explicit)
ASSUME LinesAssumption ==
    \A l \in Lines : /\ ToSet(l) \subseteq Tokens /\ l # <<>>
                     /\ "" \notin ToSet(Front(l))

Literal(w) == [explicit |-> FALSE, atoms |-> <<w>>]
Element(atoms) == [explicit |-> TRUE, atoms |-> atoms]

\* The attributes that declaration number k gives the leaves.
AttributesOf(kind, k) ==
    CASE kind = "Register" -> [NoAttributes EXCEPT !["handler"] = k, !["description"] = k]
      [] kind = "Document" -> [NoAttributes EXCEPT !["description"] = k]
      [] OTHER -> [NoAttributes EXCEPT !["autocomplete"] = k]

\* Declaration d as number k, on heap h with root n.
Declared(h, n, d, k) ==
    LET new == ParseDeclaration(h, d.elements, AttributesOf(d.kind, k))
    IN  Merge(new, n, Len(new), d.kind # "Register")

\* What NewCLI declares: their handlers stop the client.
Builtins == <<[kind |-> "Register", elements |-> <<Literal("exit")>>],
              [kind |-> "Register", elements |-> <<Literal("quit")>>]>>
Quits == {1, 2}

NewCLI ==
    FoldLeft(LAMBDA r, k : Declared(r.heap, r.node, Builtins[k], k),
             Merged(<<>>, 0), <<1, 2>>)

Init ==
    /\ heap = NewCLI.heap /\ root = NewCLI.node
    /\ history = Builtins
    /\ phase = "declare"
    /\ line = Empty /\ lastKey = "other" /\ answer = NoAnswer

--------------------------------------------------------------------------------
(* The program.                                                              *)

Declare(d) ==
    /\ phase = "declare" /\ Len(history) < Len(Builtins) + MaxDeclarations
    /\ LET r == Declared(heap, root, d, Len(history) + 1)
       IN  /\ heap' = r.heap
           /\ IF r.err THEN phase' = "panic" /\ UNCHANGED <<root, history>>
              ELSE /\ root' = r.node /\ history' = Append(history, d)
                   /\ UNCHANGED phase
    /\ UNCHANGED <<line, lastKey, answer>>

\* Making the terminal raw may fail.
Run ==
    /\ phase = "declare"
    /\ phase' \in {"run", "stopped"}
    /\ UNCHANGED <<heap, root, history, line, lastKey, answer>>

--------------------------------------------------------------------------------
(* The user.                                                                 *)

Type(l) ==
    /\ phase = "run" /\ line = Empty
    /\ line' = l /\ lastKey' = "other" /\ answer' = NoAnswer
    /\ UNCHANGED <<heap, root, history, phase>>

\* The longest token that all the words begin with.
CommonPrefix(words) ==
    LET Common == {t \in Tokens : words \subseteq Begins[t]}
    IN  CHOOSE t \in Common : \A u \in Common : t \in Begins[u]

\* autocompleteWithTab; an autocomplete function may fail.
Tab(fails) ==
    LET options == GetAutocompleteOptions(heap, root, line)
        last == Len(line)
    IN  /\ phase = "run" /\ (fails => CallsAutocompleteFunc(heap, root, line))
        /\ line' = CASE fails \/ options = {} -> line
                     [] ~fails /\ Cardinality(options) = 1 ->
                           Append([line EXCEPT ![last] = CommonPrefix(options)], "")
                     [] OTHER -> IF lastKey = "tab" THEN line
                                 ELSE [line EXCEPT ![last] = CommonPrefix(options)]
        /\ lastKey' = "tab"
        /\ UNCHANGED <<heap, root, history, phase, answer>>

\* strings.Fields of the line.
Words(l) == IF Last(l) = "" THEN Front(l) ELSE l

\* autocompleteWithQuestionMark shows the words of Help and leaves the line.
Help(l) == GetAutocompleteNodes(heap, root, l)
QuestionMark ==
    /\ phase = "run"
    /\ lastKey' = "other"
    /\ UNCHANGED <<heap, root, history, phase, line, answer>>

\* What runLine does with the matches of words; reflect's Call panics if the
\* arguments do not have the handler's types.
Answer(did, words, handler, args) ==
    [did |-> did, words |-> words, handler |-> handler, args |-> args]
TypesOf(args) == [i \in 1 .. Len(args) |-> args[i].type]
RunMatches(words, ms) ==
    LET complete == SelectSeq(ms, LAMBDA m : m.complete)
        handler == HandlerOf(heap, ms[1])
        args == ArgsOf(ms[1])
    IN  CASE ms = <<>> -> Answer("unknown", words, 0, <<>>)
          [] ms # <<>> /\ complete = <<>> -> Answer("incomplete", words, 0, <<>>)
          [] complete # <<>> /\ Len(ms) > 1 -> Answer("ambiguous", words, 0, <<>>)
          [] OTHER -> IF TypesOf(args) = ParamTypes(history[handler].elements)
                      THEN Answer("ran", words, handler, args)
                      ELSE Answer("panic", words, handler, args)

\* ReadLine returns the line, and runLine runs it.
Enter ==
    /\ phase = "run"
    /\ answer' = IF Words(line) = <<>> THEN NoAnswer
                 ELSE RunMatches(Words(line), Match(heap, root, Words(line)))
    /\ phase' = CASE answer'.did = "panic" -> "panic"
                  [] answer'.did = "ran" /\ answer'.handler \in Quits -> "stopped"
                  [] OTHER -> phase
    /\ line' = Empty
    /\ UNCHANGED <<heap, root, history, lastKey>>

\* ^C: io.EOF drops the line, and runLine gets an empty one.
Interrupt ==
    /\ phase = "run"
    /\ line' = Empty /\ answer' = NoAnswer
    /\ UNCHANGED <<heap, root, history, phase, lastKey>>

\* Any other error of ReadLine.
ReadError ==
    /\ phase = "run"
    /\ phase' = "stopped"
    /\ UNCHANGED <<heap, root, history, line, lastKey, answer>>

Next ==
    \/ \E d \in Declarations : Declare(d)
    \/ Run
    \/ \E l \in Lines : Type(l)
    \/ \E fails \in BOOLEAN : Tab(fails)
    \/ QuestionMark
    \/ Enter
    \/ Interrupt
    \/ ReadError

Spec == Init /\ [][Next]_vars

--------------------------------------------------------------------------------
(* What declarations mean, without a graph.                                  *)

\* The commands of a declaration, each a sequence of atoms.
Expand(d) ==
    FoldLeft(LAMBDA paths, e : {Append(p, a) : p \in paths, a \in ToSet(e.atoms)},
             {<<>>}, d.elements)

Registrations == {k \in 1 .. Len(history) : history[k].kind = "Register"}

\* The registered commands with their handlers: the last registration counts.
Registered ==
    {c \in UNION {Expand(history[k]) \X {k} : k \in Registrations} :
        \A j \in Registrations : c[1] \in Expand(history[j]) => j <= c[2]}

\* A command that the words, perhaps abbreviated, can stand for.
Names(words, p) ==
    Len(p) = Len(words) /\ \A i \in 1 .. Len(p) : Accepts(p[i], words[i])

\* The matches that the comment in Match promises: at every word in turn, those
\* that have exactly this word, if there are any.
Documented(words) ==
    LET Exact(ms, j) == SelectSeq(ms, LAMBDA m : heap[m.steps[j].node].id = words[j])
        Prefer(ms, j) == IF Exact(ms, j) # <<>> THEN Exact(ms, j) ELSE ms
    IN  [i \in 0 .. Len(words) |->
            FoldLeft(Prefer, MatchTokens(heap, root, words), [j \in 1 .. i |-> j])]

\* Match looked survivors up by position after the narrowing at an earlier word
\* had moved them, and left several: a hazard of the code.
Shifted(words) ==
    \E j \in 1 .. Len(words) - 1 :
        /\ Len(Documented(words)[j]) > 1
        /\ ~IsPrefix(Documented(words)[j], MatchTokens(heap, root, words))

\* What the words stand for by the same rule, without a graph: of everything that
\* was declared, complete or not, what they can abbreviate, and of that at every
\* word in turn what has exactly this word, if anything has.
Meant(words) ==
    LET declared == UNION {Expand(d) : d \in ToSet(history)}
        begun == {SubSeq(p, 1, Len(words)) : p \in {q \in declared : Len(q) >= Len(words)}}
        Exact(ps, j) == {p \in ps : p[j] = words[j]}
        Prefer(ps, j) == IF Exact(ps, j) # {} THEN Exact(ps, j) ELSE ps
    IN  FoldLeft(Prefer, {p \in begun : Names(words, p)}, [j \in 1 .. Len(words) |-> j])

\* A choice of d has a parameter of a type that d has before the choice.
RepeatsType(d) ==
    \E i \in 1 .. Len(d.elements) :
        /\ d.elements[i].explicit
        /\ \E a \in ToSet(d.elements[i].atoms) \cap Params :
              ParamType(a) \in ToSet(ParamTypes(SubSeq(d.elements, 1, i - 1)))

\* A description or a completion was declared for a word that is not one of the
\* options of d at its place.
Widened(d) ==
    \E k \in 1 .. Len(history) :
        LET e == history[k]
            n == Min({Len(d.elements), Len(e.elements)})
            At(x, i) == ToSet(x.elements[i].atoms)
        IN  /\ e.kind # "Register"
            /\ \E i \in 1 .. n :
                  /\ d.elements[i].explicit /\ ~(At(e, i) \subseteq At(d, i))
                  /\ \A j \in 1 .. i - 1 : At(e, j) \cap At(d, j) # {}

\* A description or a completion was declared for what follows a choice: the
\* nodes after it are shared by words that commands may have apart.
SharesNodes ==
    \E e \in ToSet(history) :
        e.kind # "Register" /\ \E i \in 1 .. Len(e.elements) - 1 : e.elements[i].explicit

--------------------------------------------------------------------------------
(* Properties.                                                               *)

\* The state has the shape that matching, merging and completing rely on,
\* whatever was declared in which order: an atom has at most one child
\* (mergeWithPath and matchTokens panic otherwise), the options of a choice are
\* atoms and differ, and only the last field of a line is empty.
WellFormed ==
    /\ history \in Seq(Declarations \cup ToSet(Builtins))
    /\ phase \in {"declare", "run", "stopped", "panic"} /\ lastKey \in {"tab", "other"}
    /\ answer.did \in {"none", "unknown", "incomplete", "ambiguous", "ran", "panic"}
    /\ line # <<>> /\ ToSet(line) \subseteq Tokens /\ "" \notin ToSet(Front(line))
    /\ root \in 1 .. Len(heap)
    /\ \A n \in 1 .. Len(heap) :
         LET kids == heap[n].kids
         IN  /\ ToSet(kids) \subseteq 1 .. Len(heap)
             /\ IF IsChoice(heap, n)
                THEN /\ \A c \in ToSet(kids) : ~IsChoice(heap, c)
                     /\ IsInjective([i \in 1 .. Len(kids) |-> heap[kids[i]].id])
                ELSE Len(kids) <= 1

\* Merging loses no command and invents none: the graph, with its shared nodes,
\* runs the registered commands, each with the last handler that was registered
\* for it, in whatever order commands, descriptions and completions were
\* declared.  It runs others only if a description made them share nodes.
RECURSIVE Runnable(_)
Runnable(n) ==
    LET below == UNION {Runnable(c) : c \in ToSet(heap[n].kids)}
        here == IF heap[n].attrs["handler"] = 0 THEN {}
                ELSE {<<<<heap[n].id>>, heap[n].attrs["handler"]>>}
    IN  IF IsChoice(heap, n) THEN below
        ELSE here \cup {<<<<heap[n].id>> \o c[1], c[2]>> : c \in below}
CommandsAreRegistered ==
    phase = "declare" =>
        /\ Runnable(root) # Registered => SharesNodes
        /\ \A c \in Registered : \E r \in Runnable(root) : r[1] = c[1]

\* The arguments that matching builds have the types that declaring asked of the
\* handler, which are computed in another place; a call of a handler panics only
\* for a declaration that repeats a type or whose choice was widened.
HandlersAreCallable ==
    answer.did = "panic" =>
        \/ RepeatsType(history[answer.handler])
        \/ Widened(history[answer.handler])

\* The handler that runs was registered for the one command that the words stand
\* for by the documented rule, "show ip route" for "s ip route", and is told so:
\* of the literals of the choices exactly its own are true, and the typed
\* parameters are among the arguments.  The words were unambiguous even counting
\* commands that are not complete.  If an earlier word moved the candidates
\* (Shifted), the command may be another one that the words can abbreviate.
RunsWhatWasTypedUnlessShifted ==
    answer.did = "ran" /\ ~SharesNodes =>
        LET w == answer.words
            d == history[answer.handler]
            Flags(p) == FlattenSeq([i \in 1 .. Len(p) |->
                LET e == d.elements[i]
                    lits == SelectSeq(e.atoms, LAMBDA a : a \in Literals)
                IN  IF e.explicit
                    THEN [j \in 1 .. Len(lits) |-> IF lits[j] = p[i] THEN "true" ELSE "false"]
                    ELSE <<>>])
            bools == SelectSeq(answer.args, LAMBDA a : a.type = "bool")
        IN  /\ Cardinality(Meant(w)) = 1
            /\ \E p \in Expand(d) :
                 /\ <<p, answer.handler>> \in Registered /\ Names(w, p)
                 /\ p \in Meant(w) \/ Shifted(w)
                 /\ [i \in 1 .. Len(bools) |-> bools[i].val] = Flags(p)
                 /\ \A i \in 1 .. Len(p) : p[i] \in Params =>
                       Arg(ParamType(p[i]), w[i]) \in ToSet(answer.args)

\* Match returns the matches its comment promises, unless an earlier word moved
\* the candidates.
MatchIsDocumentedUnlessShifted ==
    phase = "run" /\ Words(line) # <<>> =>
        LET w == Words(line)
        IN  Match(heap, root, w) = Documented(w)[Len(w)] \/ Shifted(w)

\* Match returns the matches its comment promises, "if a literal token matches
\* exactly, we pick that match": "s ip route" is "show ip route".
MatchIsDocumented ==
    phase = "run" /\ Words(line) # <<>> =>
        LET w == Words(line) IN Match(heap, root, w) = Documented(w)[Len(w)]

\* Completion and help know every registered command: whatever was declared
\* beside it, the word that comes next is offered.
EveryCommandIsOffered ==
    phase = "run" => \A c \in Registered :
        LET n == Len(line)
            p == c[1]
        IN  n <= Len(p) /\ Names(Front(line), SubSeq(p, 1, n - 1)) =>
              /\ p[n] \in Begins[Last(line)] =>
                    p[n] \in GetAutocompleteOptions(heap, root, line) \cap Help(line)
              /\ p[n] = "STRING" => p[n] \in Help(line)

\* A tab never leads astray: the words before the last stay, the last one only
\* grows, and a line that was completed to the end of a word can be matched.
TabLeadsOn ==
    [][line' # line /\ (\E fails \in BOOLEAN : Tab(fails)) =>
         /\ IsPrefix(Front(line), line')
         /\ line'[Len(line)] \in Begins[Last(line)]
         /\ Last(line') = "" => MatchTokens(heap, root, Words(line')) # <<>>]_vars

================================================================================
