---------------------------------- MODULE MCCli --------------------------------
(***************************************************************************)
(* Cli with small sets of words, declarations and lines.                   *)
(***************************************************************************)
EXTENDS Cli

MCLiterals == {"exit", "quit", "show", "clear", "ip", "ipv6", "route", "routes", "all"}
MCV4 == {"10.0.0.1"}
MCV6 == {"fe80::1"}
MCTokens == MCLiterals \cup MCV4 \cup MCV6 \cup {"", "s", "i", "r", "10.", "eth0", "e", "a"}

\* The words that each abbreviation begins, beside itself.
Longer ==
    [t \in MCTokens |->
        CASE t = "" -> MCTokens
          [] t = "s" -> {"show"}
          [] t = "i" -> {"ip", "ipv6"}
          [] t = "ip" -> {"ipv6"}
          [] t = "r" -> {"route", "routes"}
          [] t = "route" -> {"routes"}
          [] t = "a" -> {"all"}
          [] t = "e" -> {"exit", "eth0"}
          [] t = "10." -> {"10.0.0.1"}
          [] OTHER -> {}]
MCBegins == [t \in MCTokens |-> {t} \cup Longer[t]]
MCPrefix4 == {"", "10.", "10.0.0.1"}
MCPrefix6 == {"", "a", "e", "fe80::1"}
MCCompletions == [p \in Params |-> CASE p = "STRING" -> {"eth0"}
                                     [] p = "A.B.C.D" -> {"10.0.0.1"}
                                     [] OTHER -> {}]

Show == Literal("show")
Of(kind, elements) == [kind |-> kind, elements |-> elements]
MCDeclarations ==
    {Of("Register", e) : e \in
        {<<Show, Element(<<"ipv6", "ip">>), Element(<<"route", "routes">>)>>,
         <<Show, Element(<<"ipv6", "ip">>), Literal("STRING")>>,
         <<Show, Element(<<"A.B.C.D", "all", "X:X:X::X">>)>>,
         <<Show, Literal("ip")>>,
         <<Show, Literal("ip"), Literal("route")>>,
         <<Literal("clear"), Literal("A.B.C.D"), Element(<<"X:X:X::X", "all">>)>>,
         <<Literal("clear"), Literal("STRING")>>,
         <<Show>>}}
    \cup {Of("Document", e) : e \in
        {<<Show>>,
         <<Show, Element(<<"ip", "ipv6">>), Literal("route")>>,
         <<Show, Literal("ip"), Literal("all")>>,
         <<Show, Literal("all")>>}}
    \cup {Of("RegisterAutocomplete", e) : e \in
        {<<Show, Literal("ip"), Literal("STRING")>>,
         <<Show, Element(<<"A.B.C.D", "X:X:X::X">>)>>,
         <<Literal("clear"), Literal("STRING")>>}}

MCLines ==
    {<<"e">>, <<"s">>, <<"show", "">>, <<"s", "i">>, <<"s", "ip">>, <<"s", "10.0.0.1">>,
     <<"s", "fe80::1">>, <<"s", "all">>, <<"s", "i", "r">>, <<"s", "i", "route">>, <<"s", "ip", "route">>,
     <<"s", "ip", "e">>, <<"clear", "10.0.0.1">>, <<"clear", "10.0.0.1", "">>,
     <<"clear", "10.0.0.1", "all">>, <<"clear", "">>, <<"clear", "e", "a">>}

================================================================================
