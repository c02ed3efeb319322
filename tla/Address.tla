--------------------------------- MODULE Address --------------------------------
(***************************************************************************)
(* The tests by which completion decides whether the word that is being    *)
(* typed may become an address: isPrefixOfIPv4Address and                  *)
(* isPrefixOfIPv6Address (chatterc/commands/commands.go).                  *)
(*                                                                         *)
(* A word is what strings.Split makes of it: the parts between its colons, *)
(* each of them the sequence of its pieces between dots, each of them a    *)
(* sequence of characters.  A character is the value it has as a hex       *)
(* digit, in upper or lower case, or NoDigit.                              *)
(***************************************************************************)
EXTENDS Integers, Sequences, SequencesExt, FiniteSets

CONSTANTS Pieces,    \* the pieces that are typed beside 1
          MaxParts   \* bound: parts of a word

NoDigit == 16
ASSUME PiecesAssumption == Pieces \subseteq Seq(0 .. NoDigit)
ASSUME MaxPartsAssumption == MaxParts \in Nat

Nothing == << <<>> >>               \* a part with no character
ffff == << <<15, 15, 15, 15>> >>

VARIABLE word

\* One octet.
InOctet(piece) ==
    /\ Len(piece) <= 3
    /\ \A i \in DOMAIN piece : piece[i] \in 0 .. 9
    /\ Len(piece) > 1 => piece[1] # 0
    /\ Len(piece) = 3 => \/ piece[1] < 2
                         \/ piece[1] = 2 /\ piece[2] < 5
                         \/ piece[1] = 2 /\ piece[2] = 5 /\ piece[3] <= 5

\* isPrefixOfIPv4Address; a colon is no digit.
IsPrefixOfIPv4(parts) ==
    LET octets == parts[1]
    IN  /\ Len(parts) = 1
        /\ Len(octets) <= 4
        /\ \A i \in DOMAIN octets : /\ octets[i] = <<>> => i = Len(octets)
                                    /\ InOctet(octets[i])

\* countOverlapping(s, "::"): the empty parts that have a colon on both sides.
DoubleColons(parts) == Cardinality({i \in 2 .. Len(parts) - 1 : parts[i] = Nothing})

\* strings.HasPrefix(s, "::ffff:")
IsMapped(parts) ==
    Len(parts) >= 4 /\ SubSeq(parts, 1, 3) = <<Nothing, Nothing, ffff>>

InHextet(part) ==
    /\ Len(part) = 1
    /\ Len(part[1]) <= 4
    /\ \A i \in DOMAIN part[1] : part[1][i] \in 0 .. 15

IsPrefixOfIPv6_PlainCount(parts) ==
    /\ DoubleColons(parts) <= 1
    /\ IF IsMapped(parts) THEN IsPrefixOfIPv4(SubSeq(parts, 4, Len(parts)))
       ELSE Len(parts) <= 8 /\ \A i \in DOMAIN parts : InHextet(parts[i])
\* isPrefixOfIPv6Address
IsPrefixOfIPv6(parts) ==
    LET gaps == DoubleColons(parts)
        empties == Cardinality({i \in DOMAIN parts : parts[i] = Nothing})
    IN  /\ gaps <= 1
        /\ IF IsMapped(parts) THEN IsPrefixOfIPv4(SubSeq(parts, 4, Len(parts)))
           ELSE /\ Len(parts) > 8 => gaps = 1 /\ empties = 2
                /\ Len(parts) > 9 => gaps = 1 /\ empties = 1
                /\ \A i \in DOMAIN parts : InHextet(parts[i])

--------------------------------------------------------------------------------
(* A word as it is typed.                                                    *)

AddressInit == word = <<Nothing>>

\* Bound: all but one of the pieces that are typed are 1, the third may also be
\* ffff, and a word is given up once it can be no address.
Bounded(parts) ==
    LET pieces == FlattenSeq(parts)
        odd == {i \in DOMAIN pieces :
                   /\ pieces[i] \notin {<<>>, <<1>>}
                   /\ i = 3 => ~IsPrefix(pieces[i], ffff[1])}
    IN  /\ Len(parts) <= MaxParts
        /\ Cardinality(odd) <= 1
        /\ \A i \in odd : \E p \in Pieces : IsPrefix(pieces[i], p)

\* A digit or another character, a dot, a colon.
Typed(parts) ==
    LET part == Last(parts)
    IN  {Append(Front(parts), Append(Front(part), Append(Last(part), c))) : c \in 0 .. NoDigit}
        \cup {Append(Front(parts), Append(part, <<>>)), Append(parts, Nothing)}

TypeKey ==
    /\ IsPrefixOfIPv4(word) \/ IsPrefixOfIPv6(word)
    /\ word' \in {parts \in Typed(word) : Bounded(parts)}

AddressSpec == AddressInit /\ [][TypeKey]_word

--------------------------------------------------------------------------------
(* Properties                                                                *)

\* The decimal numbers of one octet, as they are written.
Decimals ==
    {IF n < 10 THEN <<n>>
     ELSE IF n < 100 THEN <<n \div 10, n % 10>>
     ELSE <<n \div 100, (n \div 10) % 10, n % 10>> : n \in 0 .. 255}

\* The word can be completed to four decimal numbers.
Begins4(parts) ==
    /\ Len(parts) = 1 /\ Len(parts[1]) <= 4
    /\ \A i \in 1 .. Len(parts[1]) - 1 : parts[1][i] \in Decimals
    /\ \E d \in Decimals : IsPrefix(Last(parts[1]), d)

\* Where the empty parts of an address are: eight groups, or before groups,
\* a double colon that stands for at least one, and after groups.
Groups(n) == IF n = 0 THEN <<TRUE>> ELSE [i \in 1 .. n |-> FALSE]
Shapes ==
    {Groups(8)} \cup
    UNION {{Groups(before) \o <<TRUE>> \o Groups(after) : after \in 0 .. 7 - before} :
              before \in 0 .. 7}

\* The word can be completed to groups of one to four hex digits.
Begins6(parts) ==
    /\ \A i \in DOMAIN parts : InHextet(parts[i])
    /\ \E shape \in Shapes :
          /\ Len(parts) <= Len(shape)
          /\ \A i \in 1 .. Len(parts) - 1 : shape[i] = (parts[i] = Nothing)
          /\ Last(parts) # Nothing => ~shape[Len(parts)]

\* Completion follows an address as it is typed.  A word is taken for the
\* beginning of an IPv4 address, alone or after ::ffff:, if and only if it is
\* one.  Every beginning of an IPv6 address is taken for one, unless it goes on
\* after ::ffff: with hex groups, or ends in the colon before the last group of
\* an address that begins with ::.  What is taken for one wrongly begins with a
\* single colon, or has one at its end that no group can follow.  Zones, and
\* IPv4 at the end of other IPv6 addresses than those that begin with ::ffff:,
\* which the code does not know, are not counted as beginnings of one.
AddressIsFollowed ==
    LET mapped == IsMapped(word)
        lastColon == Len(word) = 9 /\ Last(word) = Nothing
    IN  /\ IsPrefixOfIPv4(word) <=> Begins4(word)
        /\ mapped => (IsPrefixOfIPv6(word) <=> Begins4(SubSeq(word, 4, Len(word))))
        /\ Begins6(word) /\ ~mapped =>
              IsPrefixOfIPv6(word) \/ (lastColon /\ word[1] = Nothing)
        /\ IsPrefixOfIPv6(word) /\ ~mapped =>
              \/ Begins6(word)
              \/ lastColon
              \/ Len(word) > 1 /\ word[1] = Nothing /\ word[2] # Nothing

================================================================================
