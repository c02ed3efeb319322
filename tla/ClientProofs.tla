------------------------------ MODULE ClientProofs ------------------------------
(***************************************************************************)
(* What chatterc shows and what it reads, proved: the pager, for writes of *)
(* any text cut in any way and for screens of any size; wrap, for any      *)
(* words; and the checks of a half-typed IP address, for a word of any     *)
(* length with anything in its parts.                                      *)
(***************************************************************************)
EXTENDS Screen, Address, Induction, FiniteSetTheorems, SequenceTheorems, TLAPS

\* What a command writes.
Characters == {"x", "\n"}
\* What the screen shows.
Shades == {"x", "\n", More}

--------------------------------------------------------------------------------
(* Text                                                                      *)

\* A text cut in two is its beginning and its rest.
LEMMA Cut ==
    ASSUME NEW S, NEW text \in Seq(S), NEW n \in 0 .. Len(text)
    PROVE  /\ SubSeq(text, 1, n) \in Seq(S) /\ Len(SubSeq(text, 1, n)) = n
           /\ SubSeq(text, n + 1, Len(text)) \in Seq(S)
           /\ Len(SubSeq(text, n + 1, Len(text))) = Len(text) - n
           /\ SubSeq(text, 1, n) \o SubSeq(text, n + 1, Len(text)) = text
<1>1. Len(text) \in Nat
    BY LenProperties
<1>2. SubSeq(text, 1, n) \in Seq(S) /\ Len(SubSeq(text, 1, n)) = n
    BY <1>1, SubSeqProperties
<1>3. /\ SubSeq(text, n + 1, Len(text)) \in Seq(S)
      /\ Len(SubSeq(text, n + 1, Len(text))) = Len(text) - n
    BY <1>1, SubSeqProperties
<1>4. SubSeq(text, 1, n) \o SubSeq(text, n + 1, Len(text)) = SubSeq(text, 1, Len(text))
    <2>1. 1 \in 1 .. Len(text) + 1 /\ n \in 1 - 1 .. Len(text) /\ Len(text) \in n .. Len(text)
        BY <1>1
    <2> QED
        BY <2>1, ConcatAdjacentSubSeq
<1>5. SubSeq(text, 1, Len(text)) = text
    BY SubSeqFull
<1> QED
    BY <1>2, <1>3, <1>4, <1>5

\* ReadBytes takes a piece from the beginning of the buffer, and at least a
\* character if there is one.
LEMMA FirstLineIsPiece ==
    ASSUME NEW S, NEW text \in Seq(S)
    PROVE  \E n \in 0 .. Len(text) : /\ FirstLine(text) = SubSeq(text, 1, n)
                                     /\ text # <<>> => n > 0
<1> DEFINE ends == {i \in 1 .. Len(text) : text[i] = "\n"}
<1>1. Len(text) \in Nat /\ (text # <<>> => Len(text) > 0)
    BY LenProperties, EmptySeq
<1>2. CASE ends = {}
    <2>1. FirstLine(text) = SubSeq(text, 1, Len(text))
        BY <1>2 DEF FirstLine
    <2> QED
        BY <1>1, <2>1
<1>3. CASE ends # {}
    <2>1. Min(ends) \in ends
        <3>1. ends \subseteq Nat
            BY <1>1
        <3>2. \E m \in ends : \A k \in ends : m <= k
            BY <1>3, <3>1, LeastElement
        <3> HIDE DEF ends
        <3> QED
            BY <3>2 DEF Min
    <2>2. FirstLine(text) = SubSeq(text, 1, Min(ends))
        BY <1>3 DEF FirstLine
    <2> HIDE DEF ends
    <2>3. Min(ends) \in 1 .. Len(text)
        BY <2>1 DEF ends
    <2> QED
        BY <1>1, <2>2, <2>3
<1> QED
    BY <1>2, <1>3

\* The prompt that is written at the end of the screen is what is cleared.
LEMMA FrontOfAppend ==
    ASSUME NEW S, NEW text \in Seq(S), NEW c \in S
    PROVE  Front(Append(text, c)) = text
<1>1. /\ Append(text, c) \in Seq(S) /\ Len(Append(text, c)) = Len(text) + 1
      /\ \A i \in 1 .. Len(text) : Append(text, c)[i] = text[i]
    BY AppendProperties
<1>2. Len(text) \in Nat
    BY LenProperties
<1> DEFINE u == Append(text, c)
<1> HIDE DEF u
<1>3. /\ Front(u) = SubSeq(u, 1, Len(text))
      /\ u \in Seq(S) /\ Len(u) = Len(text) + 1
      /\ \A i \in 1 .. Len(text) : u[i] = text[i]
    BY <1>1, <1>2 DEF Front, u
<1>4. /\ SubSeq(u, 1, Len(text)) \in Seq(S) /\ Len(SubSeq(u, 1, Len(text))) = Len(text)
      /\ \A i \in 1 .. Len(text) : SubSeq(u, 1, Len(text))[i] = u[i]
    BY <1>2, <1>3, SubSeqProperties
<1>5. SubSeq(u, 1, Len(text)) = text
    BY <1>3, <1>4, SeqEqual
<1> QED
    BY <1>3, <1>5 DEF u

\* Clearing the last character of a screen leaves a screen, and not a longer one.
LEMMA FrontIsSeq ==
    ASSUME NEW S, NEW text \in Seq(S)
    PROVE  Front(text) \in Seq(S) /\ Len(Front(text)) <= Len(text)
<1>1. Len(text) \in Nat
    BY LenProperties
<1>2. CASE text = <<>>
    <2>1. Len(text) = 0
        BY <1>2, EmptySeq
    <2>2. Front(text) = text
        BY <1>2, <2>1, SubSeqEmpty DEF Front
    <2> QED
        BY <2>2, <1>1
<1>3. CASE text # <<>>
    <2>1. Len(text) - 1 \in 0 .. Len(text)
        BY <1>1, <1>3, EmptySeq
    <2> QED
        BY <1>1, <2>1, Cut DEF Front
<1> QED
    BY <1>2, <1>3

\* A text begins as its beginning does.
LEMMA SameBeginning ==
    ASSUME NEW S, NEW s \in Seq(S), NEW t \in Seq(S), NEW n \in 0 .. Len(s)
    PROVE  SubSeq(s \o t, 1, n) = SubSeq(s, 1, n)
<1>1. Len(s) \in Nat
    BY LenProperties
<1>2. CASE n = 0
    BY <1>2, SubSeqEmpty
<1>3. CASE n # 0
    <2>1. 1 \in 1 .. Len(s) /\ n \in 1 .. Len(s)
        BY <1>1, <1>3
    <2> QED
        BY <2>1, SubSeqOfConcat1
<1> QED
    BY <1>2, <1>3

\* What a text begins with it still begins with when more is written.
LEMMA LongerText ==
    ASSUME NEW S, NEW s \in Seq(S), NEW t \in Seq(S), NEW u \in Seq(S), IsPrefix(u, s)
    PROVE  IsPrefix(u, s \o t)
<1>1. Len(s) \in Nat /\ Len(t) \in Nat /\ Len(u) \in Nat
    BY LenProperties
<1>2. Len(s \o t) = Len(s) + Len(t)
    BY ConcatProperties
<1>3. Len(u) <= Len(s) /\ SubSeq(u, 1, Len(u)) = SubSeq(s, 1, Len(u))
    BY DEF IsPrefix
<1>4. SubSeq(s \o t, 1, Len(u)) = SubSeq(s, 1, Len(u))
    BY <1>1, <1>3, SameBeginning
<1> QED
    BY <1>1, <1>2, <1>3, <1>4 DEF IsPrefix

\* A text begins with itself, and with what it was put together from.
LEMMA PrefixOfWhole ==
    ASSUME NEW S, NEW s \in Seq(S), NEW t \in Seq(S)
    PROVE  IsPrefix(s, s) /\ IsPrefix(s, s \o t)
<1>1. IsPrefix(s, s)
    BY LenProperties DEF IsPrefix
<1>2. IsPrefix(s, s \o t)
    BY <1>1, LongerText
<1> QED
    BY <1>1, <1>2

--------------------------------------------------------------------------------
(* The pager's invariant                                                     *)

\* Write is in progress.
Writing == pc \in {"loop", "show", "more", "key", "esc"}

\* The command's output, without the pager's prompt.
Shown == IF pc = "key" THEN Front(screen) ELSE screen

\* At the prompt there is no pager, and nothing is left of the last one.
NoPagerAtPrompt ==
    pc \in {"prompt", "panic"} =>
        /\ screen = <<>> /\ sent = <<>> /\ buf = <<>> /\ b = <<>>
        /\ ret = NoReturn /\ ~stopped /\ ~failed

\* The pager asks for keys only while it pages, and q is the end of its writing.
FlagsOK ==
    /\ pc \in {"loop", "more", "key", "esc"} => shouldPage
    /\ Writing => ~stopped
    /\ stopped => shouldPage

\* No line of the output is uncounted, and after a key there is room for one.
LinesCounted ==
    /\ fresh <= line
    /\ pc = "show" /\ shouldPage => fresh <= 0

\* In a Write, what is shown and what is buffered are the output, and what is
\* buffered is what the Write has not yet counted.  Between Writes nothing is
\* buffered, unless G was pressed: then ShowRest leaves in buf what it showed,
\* and no Write looks at buf again.
TextKept ==
    ~failed =>
        /\ Writing => /\ Shown \o buf = sent
                      /\ written + Len(buf) = Len(b)
        /\ pc = "idle" /\ ~stopped => /\ screen = sent
                                      /\ shouldPage => buf = <<>>
                                      /\ ret = [n |-> Len(b), err |-> FALSE]
        /\ pc = "idle" /\ stopped => IsPrefix(screen, sent)

\* The inductive invariant of the pager.
PagerInv == TypeOK /\ NoPagerAtPrompt /\ FlagsOK /\ LinesCounted /\ TextKept

--------------------------------------------------------------------------------
(* The pager's variables keep their types                                    *)

\* What a step of ShowLine shows, and what it leaves: the beginning of the
\* buffer, of which n of m characters get to the screen, and the rest.
LEMMA ShownLine ==
    ASSUME TypeOK, ShowLine
    PROVE  \E m \in 0 .. Len(buf) : \E n \in 0 .. m :
              /\ buf # <<>> => m > 0
              /\ buf' = SubSeq(buf, m + 1, Len(buf))
              /\ screen' = screen \o SubSeq(buf, 1, n)
              /\ written' = written + n
              /\ IF n < m THEN Return(written + n, TRUE) /\ failed' = TRUE /\ UNCHANGED <<line, fresh>>
                 ELSE /\ pc' = "loop" /\ line' = line + 1 /\ fresh' \in {fresh, fresh + 1}
                      /\ UNCHANGED <<ret, failed>>
<1>1. buf \in Seq(Characters) /\ Len(buf) \in Nat /\ fresh \in Int
    BY LenProperties DEF TypeOK, Characters
<1>2. PICK m \in 0 .. Len(buf) : /\ FirstLine(buf) = SubSeq(buf, 1, m)
                                 /\ buf # <<>> => m > 0
    BY <1>1, FirstLineIsPiece
<1> DEFINE text == SubSeq(buf, 1, m)
<1>3. text \in Seq(Characters) /\ Len(text) = m
    BY <1>1, <1>2, Cut
<1>4. PICK n \in 0 .. m :
          /\ buf' = SubSeq(buf, m + 1, Len(buf))
          /\ screen' = screen \o SubSeq(text, 1, n)
          /\ written' = written + n
          /\ IF n < m THEN Return(written + n, TRUE) /\ failed' = TRUE /\ UNCHANGED <<line, fresh>>
             ELSE /\ pc' = "loop" /\ line' = line + 1
                  /\ fresh' = fresh + (IF Last(text) = "\n" THEN 1 ELSE 0)
                  /\ UNCHANGED <<ret, failed>>
    <2> HIDE DEF text
    <2>1. FirstLine(buf) = text
        BY <1>2 DEF text
    <2> QED
        BY <1>3, <2>1 DEF ShowLine
<1>5. SubSeq(text, 1, n) = SubSeq(buf, 1, n)
    <2>1. text \o SubSeq(buf, m + 1, Len(buf)) = buf /\ SubSeq(buf, m + 1, Len(buf)) \in Seq(Characters)
        BY <1>1, <1>2, Cut
    <2>2. SubSeq(text \o SubSeq(buf, m + 1, Len(buf)), 1, n) = SubSeq(text, 1, n)
        BY <1>3, <2>1, SameBeginning
    <2> QED
        BY <2>1, <2>2
<1> HIDE DEF text
<1>6. fresh + (IF Last(text) = "\n" THEN 1 ELSE 0) \in {fresh, fresh + 1}
    BY <1>1
<1> QED
    BY <1>2, <1>4, <1>5, <1>6

\* Every step of the pager keeps the types of its variables.
LEMMA TypeStep ==
    ASSUME TypeOK, [Next]_vars
    PROVE  TypeOK'
<1> USE DEF Unknown
<1>1. /\ screen \in Seq(Shades) /\ sent \in Seq(Characters) /\ buf \in Seq(Characters)
      /\ b \in Seq(Characters) /\ written \in Nat /\ line \in Int /\ fresh \in Int
      /\ ret \in [n : Nat, err : BOOLEAN]
    BY DEF TypeOK, Shades, Characters
<1>2. /\ \A c \in Chunks : c \in Seq(Characters) /\ Len(c) \in Nat
      /\ \A s \in Seq(Characters) : s \in Seq(Shades)
    <2>1. \A c \in Chunks : c \in Seq(Characters)
        BY ChunksAssumption DEF Characters
    <2>2. Characters \subseteq Shades
        BY DEF Characters, Shades
    <2> QED
        BY <2>1, <2>2, SeqMonotonic, LenProperties
<1>3. ASSUME NEW words \in Words, ShowOptions(words)
      PROVE  TypeOK'
    BY <1>3 DEF TypeOK, ShowOptions, pagerVars, writeVars
<1>4. CASE NewPager
    BY <1>4 DEF TypeOK, NewPager, writeVars
<1>5. CASE CommandEnds
    <2>1. <<>> \in Seq(Characters) /\ <<>> \in Seq(Shades)
        BY EmptySeq
    <2>2. NoReturn \in [n : Nat, err : BOOLEAN]
        BY DEF NoReturn
    <2>3. /\ pc' = "prompt" /\ screen' = <<>> /\ ret' = NoReturn
          /\ buf' = <<>> /\ shouldPage' = FALSE /\ line' = 0 /\ stopped' = FALSE
          /\ height' = Unknown /\ b' = <<>> /\ written' = 0
          /\ sent' = <<>> /\ fresh' = 0 /\ failed' = FALSE
        BY <1>5 DEF CommandEnds
    <2>4. screen' \in Seq(Shades) /\ ret' \in [n : Nat, err : BOOLEAN]
        BY <2>1, <2>2, <2>3
    <2>5. buf' \in Seq(Characters) /\ b' \in Seq(Characters) /\ sent' \in Seq(Characters)
        BY <2>1, <2>3
    <2>6. shouldPage' \in BOOLEAN /\ stopped' \in BOOLEAN /\ failed' \in BOOLEAN
        BY <2>3
    <2>7. /\ line' \in Int /\ height' \in Heights \cup {Unknown}
          /\ written' \in Nat /\ fresh' \in Int
        BY <2>3
    <2>8. pc' \in {"prompt", "panic", "idle", "loop", "show", "more", "key", "esc"}
        BY <2>3
    <2> QED
        BY <2>4, <2>5, <2>6, <2>7, <2>8 DEF TypeOK, Shades, Characters
<1>6. ASSUME NEW c \in Chunks, WriteThrough(c)
      PROVE  TypeOK'
    <2>1. PICK n \in 0 .. Len(c) :
              /\ screen' = screen \o SubSeq(c, 1, n)
              /\ Return(n, n < Len(c))
              /\ failed' = (failed \/ n < Len(c))
              /\ UNCHANGED <<layout, pagerVars, height, written, fresh>>
        BY <1>6 DEF WriteThrough, Pass
    <2>2. sent' = sent \o c /\ b' = c
        BY <1>6 DEF WriteThrough, Sends
    <2>3. screen' \in Seq(Shades) /\ sent' \in Seq(Characters)
        <3>1. SubSeq(c, 1, n) \in Seq(Characters)
            BY <1>2, Cut
        <3> QED
            BY <1>1, <1>2, <2>1, <2>2, <3>1, ConcatProperties
    <2>4. pc' = "idle" /\ ret' \in [n : Nat, err : BOOLEAN]
        BY <1>2, <2>1 DEF Return
    <2> QED
        BY <1>2, <2>1, <2>2, <2>3, <2>4 DEF TypeOK, Shades, Characters, pagerVars
<1>7. ASSUME NEW c \in Chunks, WriteStopped(c)
      PROVE  TypeOK'
    <2>1. sent' = sent \o c /\ b' = c
        BY <1>7 DEF WriteStopped, Sends
    <2>2. sent' \in Seq(Characters)
        BY <1>1, <1>2, <2>1, ConcatProperties
    <2>3. pc' = "idle" /\ ret' \in [n : Nat, err : BOOLEAN]
        BY <1>7 DEF WriteStopped, Return
    <2> QED
        BY <1>2, <1>7, <2>1, <2>2, <2>3 DEF WriteStopped, TypeOK, Characters, pagerVars
<1>8. ASSUME NEW c \in Chunks, WritePaged(c)
      PROVE  TypeOK'
    <2>1. sent' = sent \o c /\ b' = c /\ buf' = buf \o c
        BY <1>8 DEF WritePaged, Sends
    <2>2. sent' \in Seq(Characters) /\ buf' \in Seq(Characters)
        BY <1>1, <1>2, <2>1, ConcatProperties
    <2> QED
        BY <1>2, <1>8, <2>1, <2>2 DEF WritePaged, TypeOK, Characters
<1>9. CASE WriteReturns
    BY <1>9 DEF WriteReturns, Return, TypeOK, pagerVars, writeVars
<1>10. CASE ShowLine
    <2>1. PICK m \in 0 .. Len(buf) : \E n \in 0 .. m :
              /\ buf # <<>> => m > 0
              /\ buf' = SubSeq(buf, m + 1, Len(buf))
              /\ screen' = screen \o SubSeq(buf, 1, n)
              /\ written' = written + n
              /\ IF n < m THEN Return(written + n, TRUE) /\ failed' = TRUE /\ UNCHANGED <<line, fresh>>
                 ELSE /\ pc' = "loop" /\ line' = line + 1 /\ fresh' \in {fresh, fresh + 1}
                      /\ UNCHANGED <<ret, failed>>
        BY <1>10, ShownLine
    <2>2. PICK n \in 0 .. m :
              /\ buf' = SubSeq(buf, m + 1, Len(buf))
              /\ screen' = screen \o SubSeq(buf, 1, n)
              /\ written' = written + n
              /\ IF n < m THEN Return(written + n, TRUE) /\ failed' = TRUE /\ UNCHANGED <<line, fresh>>
                 ELSE /\ pc' = "loop" /\ line' = line + 1 /\ fresh' \in {fresh, fresh + 1}
                      /\ UNCHANGED <<ret, failed>>
        BY <2>1
    <2>3. Len(buf) \in Nat /\ n \in 0 .. Len(buf) /\ written + n \in Nat
        BY <1>1, LenProperties
    <2>4. SubSeq(buf, m + 1, Len(buf)) \in Seq(Characters) /\ SubSeq(buf, 1, n) \in Seq(Characters)
        BY <1>1, <2>3, Cut
    <2>5. buf' \in Seq(Characters) /\ screen' \in Seq(Shades)
        BY <1>1, <1>2, <2>2, <2>4, ConcatProperties
    <2>6. UNCHANGED <<shouldPage, stopped, height, b, sent>>
        BY <1>10 DEF ShowLine
    <2>7. CASE n < m
        <3>1. pc' = "idle" /\ ret' = [n |-> written + n, err |-> TRUE]
            BY <2>2, <2>7 DEF Return
        <3>2. ret' \in [n : Nat, err : BOOLEAN]
            BY <2>3, <3>1
        <3>3. failed' = TRUE /\ UNCHANGED <<line, fresh>> /\ written' \in Nat
            BY <2>2, <2>3, <2>7
        <3> QED
            BY <2>5, <2>6, <3>1, <3>2, <3>3 DEF TypeOK, Shades, Characters
    <2>8. CASE ~(n < m)
        BY <2>2, <2>3, <2>5, <2>6, <2>8 DEF TypeOK, Shades, Characters
    <2> QED
        BY <2>7, <2>8
<1>11. CASE ShowRest
    <2>1. PICK n \in 0 .. Len(buf) :
              /\ screen' = screen \o SubSeq(buf, 1, n)
              /\ written' = written + n
              /\ Return(written + n, n < Len(buf))
              /\ failed' = (failed \/ n < Len(buf))
        BY <1>11 DEF ShowRest
    <2>2. Len(buf) \in Nat /\ written + n \in Nat
        BY <1>1, LenProperties
    <2>3. SubSeq(buf, 1, n) \in Seq(Characters)
        BY <1>1, Cut
    <2>4. screen' \in Seq(Shades)
        BY <1>1, <1>2, <2>1, <2>3, ConcatProperties
    <2>5. pc' = "idle" /\ ret' \in [n : Nat, err : BOOLEAN]
        BY <2>1, <2>2 DEF Return
    <2>6. UNCHANGED <<pagerVars, height, b, sent, fresh>>
        BY <1>11 DEF ShowRest
    <2> QED
        BY <2>1, <2>2, <2>4, <2>5, <2>6 DEF TypeOK, Shades, pagerVars
<1>12. CASE Prompt
    <2>1. Append(screen, More) \in Seq(Shades)
        BY <1>1, AppendProperties DEF Shades
    <2> QED
        BY <1>12, <2>1 DEF Prompt, TypeOK, Shades, pagerVars, writeVars
<1>13. \A l \in Int : Min({l, 0}) \in Int /\ Min({l, 0}) <= l /\ Min({l, 0}) <= 0
    BY DEF Min
<1>14. ASSUME NEW k \in Keys, Key(k)
      PROVE  TypeOK'
    <2>1. screen' \in Seq(Shades)
        BY <1>1, <1>14, FrontIsSeq DEF Key
    <2>2. /\ pc' \in {"idle", "show", "esc", "more"}
          /\ shouldPage' \in BOOLEAN /\ stopped' \in BOOLEAN
          /\ line' \in Int /\ fresh' \in Int
          /\ ret' \in [n : Nat, err : BOOLEAN]
        <3>1. /\ line - 1 \in Int /\ Min({line - 1, 0}) \in Int /\ Min({0, 0}) \in Int
              /\ shouldPage \in BOOLEAN /\ stopped \in BOOLEAN
            BY <1>1, <1>13 DEF TypeOK
        <3>2. CASE k = "q"
            <4>1. /\ stopped' = TRUE /\ Return(written, TRUE)
                  /\ UNCHANGED <<shouldPage, line, fresh>>
                BY <1>14, <3>2 DEF Key
            <4>2. pc' = "idle" /\ ret' = [n |-> written, err |-> TRUE]
                BY <4>1 DEF Return
            <4>3. ret' \in [n : Nat, err : BOOLEAN]
                BY <1>1, <4>2
            <4> QED
                BY <1>1, <3>1, <4>1, <4>2, <4>3
        <3>3. CASE k = " "
            <4>1. GoOn(0)
                BY <1>14, <3>3 DEF Key
            <4> QED
                BY <1>1, <3>1, <4>1 DEF GoOn
        <3>4. CASE k \in {"\r", "j"}
            BY <1>1, <1>14, <3>1, <3>4 DEF Key, GoOn
        <3>5. CASE k = "G"
            BY <1>1, <1>14, <3>1, <3>5 DEF Key
        <3>6. CASE k = "esc"
            BY <1>1, <1>14, <3>1, <3>6 DEF Key
        <3>7. CASE k = "other"
            BY <1>1, <1>14, <3>1, <3>7 DEF Key
        <3> QED
            BY <3>2, <3>3, <3>4, <3>5, <3>6, <3>7 DEF Keys
    <2> QED
        BY <1>14, <2>1, <2>2 DEF Key, TypeOK, Shades, writeVars
<1>15. ASSUME NEW bytes, Escape(bytes)
      PROVE  TypeOK'
    <2>1. line - 1 \in Int /\ Min({line - 1, 0}) \in Int
        BY <1>1, <1>13
    <2> QED
        BY <1>15, <2>1 DEF Escape, GoOn, TypeOK, writeVars
<1>16. CASE PaginateFails
    BY <1>16 DEF PaginateFails, Return, TypeOK, pagerVars, writeVars
<1>17. CASE UNCHANGED vars
    BY <1>17 DEF vars, TypeOK, pagerVars, writeVars
<1> QED
    BY <1>3, <1>4, <1>5, <1>6, <1>7, <1>8, <1>9, <1>10, <1>11, <1>12, <1>14, <1>15, <1>16, <1>17
    DEF Next

--------------------------------------------------------------------------------
(* The flags and the lines                                                   *)

\* After a key that asks for more there is room for a line.
LEMMA GoOnStep ==
    ASSUME NEW l \in Int, GoOn(l)
    PROVE  /\ pc' = "show" /\ fresh' \in Int /\ line' \in Int /\ fresh' <= line' /\ fresh' <= 0
           /\ UNCHANGED <<shouldPage, stopped, ret>>
<1>1. Min({l, 0}) \in Int /\ Min({l, 0}) <= l /\ Min({l, 0}) <= 0
    BY DEF Min
<1> QED
    BY <1>1 DEF GoOn

\* What a key may do: end the output, ask for more of it or for all of it, or
\* lead to another key.
LEMMA KeyStep ==
    ASSUME TypeOK, NEW k \in Keys, Key(k)
    PROVE  /\ pc = "key" /\ screen' = Front(screen)
           /\ UNCHANGED <<buf, b, written, sent, failed>>
           /\ \/ stopped' = TRUE /\ pc' = "idle" /\ UNCHANGED <<shouldPage, line, fresh>>
              \/ \E l \in Int : GoOn(l)
              \/ shouldPage' = FALSE /\ pc' = "show" /\ UNCHANGED <<stopped, line, fresh>>
              \/ pc' \in {"esc", "more"} /\ UNCHANGED <<shouldPage, stopped, line, fresh>>
<1>1. /\ pc = "key" /\ screen' = Front(screen)
      /\ UNCHANGED <<buf, b, written, sent, failed>>
    BY DEF Key, writeVars
<1>2. CASE k = "q"
    <2>1. stopped' = TRUE /\ Return(written, TRUE) /\ UNCHANGED <<shouldPage, line, fresh>>
        BY <1>2 DEF Key
    <2> QED
        BY <1>1, <2>1 DEF Return
<1>3. CASE k = " "
    <2>1. GoOn(0)
        BY <1>3 DEF Key
    <2> QED
        BY <1>1, <2>1
<1>4. CASE k \in {"\r", "j"}
    <2>1. GoOn(line - 1)
        BY <1>4 DEF Key
    <2>2. line - 1 \in Int
        BY DEF TypeOK
    <2> QED
        BY <1>1, <2>1, <2>2
<1>5. CASE k = "G"
    BY <1>1, <1>5 DEF Key
<1>6. CASE k = "esc"
    BY <1>1, <1>6 DEF Key
<1>7. CASE k = "other"
    BY <1>1, <1>7 DEF Key
<1> QED
    BY <1>2, <1>3, <1>4, <1>5, <1>6, <1>7 DEF Keys

\* What an escape sequence may do: ask for more, or lead to another key.
LEMMA EscapeStep ==
    ASSUME TypeOK, NEW bytes, Escape(bytes)
    PROVE  /\ pc = "esc"
           /\ UNCHANGED <<screen, buf, b, written, sent, failed>>
           /\ \/ \E l \in Int : GoOn(l)
              \/ pc' = "more" /\ UNCHANGED <<shouldPage, stopped, line, fresh>>
<1>1. pc = "esc" /\ UNCHANGED <<screen, buf, b, written, sent, failed>>
    BY DEF Escape, writeVars
<1>2. line - 1 \in Int
    BY DEF TypeOK
<1> QED
    BY <1>1, <1>2 DEF Escape

\* The part of the invariant that is not about text.
ControlOK == NoPagerAtPrompt /\ FlagsOK /\ LinesCounted

\* Every step of the pager keeps its flags and its count of lines in order.
LEMMA ControlStep ==
    ASSUME TypeOK, ControlOK, [Next]_vars
    PROVE  ControlOK'
<1> USE DEF ControlOK, NoPagerAtPrompt, FlagsOK, LinesCounted, Writing
<1>1. line \in Int /\ fresh \in Int /\ fresh <= line
    BY DEF TypeOK
<1>2. ASSUME NEW words \in Words, ShowOptions(words)
      PROVE  ControlOK'
    BY <1>2 DEF ShowOptions, pagerVars, writeVars
<1>3. CASE NewPager
    BY <1>3 DEF NewPager, writeVars
<1>4. CASE CommandEnds
    BY <1>4 DEF CommandEnds
<1>5. ASSUME NEW c \in Chunks, WriteThrough(c)
      PROVE  ControlOK'
    <2>1. pc' = "idle" /\ UNCHANGED <<shouldPage, stopped, line, fresh>>
        BY <1>5 DEF WriteThrough, Pass, Return, pagerVars
    <2> QED
        BY <2>1
<1>6. ASSUME NEW c \in Chunks, WriteStopped(c)
      PROVE  ControlOK'
    <2>1. pc' = "idle" /\ UNCHANGED <<shouldPage, stopped, line, fresh>>
        BY <1>6 DEF WriteStopped, Return, pagerVars
    <2> QED
        BY <2>1
<1>7. ASSUME NEW c \in Chunks, WritePaged(c)
      PROVE  ControlOK'
    <2>1. pc' = "loop" /\ shouldPage /\ ~stopped /\ UNCHANGED <<shouldPage, stopped, line, fresh>>
        BY <1>7 DEF WritePaged
    <2> QED
        BY <2>1
<1>8. CASE WriteReturns
    <2>1. pc' = "idle" /\ UNCHANGED <<shouldPage, stopped, line, fresh>>
        BY <1>8 DEF WriteReturns, Return, pagerVars
    <2> QED
        BY <2>1
<1>9. CASE ShowLine
    <2>1. UNCHANGED <<shouldPage, stopped>> /\ shouldPage /\ ~stopped
        BY <1>9 DEF ShowLine, CanShow
    <2>2. \/ pc' = "idle" /\ UNCHANGED <<line, fresh>>
          \/ pc' = "loop" /\ line' = line + 1 /\ fresh' \in {fresh, fresh + 1}
        BY <1>9, ShownLine DEF Return
    <2> QED
        BY <1>1, <2>1, <2>2
<1>10. CASE ShowRest
    <2>1. pc' = "idle" /\ ~stopped /\ UNCHANGED <<shouldPage, stopped, line, fresh>>
        BY <1>10 DEF ShowRest, Return, pagerVars
    <2> QED
        BY <2>1
<1>11. CASE Prompt
    <2>1. /\ pc' = "key" /\ shouldPage /\ ~stopped
          /\ UNCHANGED <<shouldPage, stopped, line, fresh>>
        BY <1>11 DEF Prompt, AtBottom, pagerVars
    <2> QED
        BY <2>1
<1>12. ASSUME NEW l \in Int, GoOn(l), pc \in {"key", "esc"}
      PROVE  ControlOK'
    BY <1>12, GoOnStep
<1>13. ASSUME NEW k \in Keys, Key(k)
      PROVE  ControlOK'
    <2>1. pc = "key"
        BY <1>13, KeyStep
    <2>2. CASE \E l \in Int : GoOn(l)
        BY <1>12, <2>1, <2>2
    <2>3. CASE stopped' = TRUE /\ pc' = "idle" /\ UNCHANGED <<shouldPage, line, fresh>>
        BY <2>1, <2>3
    <2>4. CASE shouldPage' = FALSE /\ pc' = "show" /\ UNCHANGED <<stopped, line, fresh>>
        BY <2>1, <2>4
    <2>5. CASE pc' \in {"esc", "more"} /\ UNCHANGED <<shouldPage, stopped, line, fresh>>
        BY <2>1, <2>5
    <2> QED
        BY <1>13, <2>2, <2>3, <2>4, <2>5, KeyStep
<1>14. ASSUME NEW bytes, Escape(bytes)
      PROVE  ControlOK'
    <2>1. pc = "esc"
        BY <1>14, EscapeStep
    <2>2. CASE \E l \in Int : GoOn(l)
        BY <1>12, <2>1, <2>2
    <2>3. CASE pc' = "more" /\ UNCHANGED <<shouldPage, stopped, line, fresh>>
        BY <2>1, <2>3
    <2> QED
        BY <1>14, <2>2, <2>3, EscapeStep
<1>15. CASE PaginateFails
    <2>1. pc' = "idle" /\ ~stopped /\ UNCHANGED <<shouldPage, stopped, line, fresh>>
        BY <1>15 DEF PaginateFails, AtBottom, Return, pagerVars
    <2> QED
        BY <2>1
<1>16. CASE UNCHANGED vars
    BY <1>16 DEF vars, pagerVars, writeVars
<1> QED
    BY <1>2, <1>3, <1>4, <1>5, <1>6, <1>7, <1>8, <1>9, <1>10, <1>11, <1>13, <1>14, <1>15, <1>16
    DEF Next

--------------------------------------------------------------------------------
(* The text                                                                  *)

\* Characters that are moved from the buffer to the screen stay part of the text.
LEMMA MovedText ==
    ASSUME NEW S, NEW s \in Seq(S), NEW t \in Seq(S), NEW n \in 0 .. Len(t)
    PROVE  (s \o SubSeq(t, 1, n)) \o SubSeq(t, n + 1, Len(t)) = s \o t
<1>1. /\ SubSeq(t, 1, n) \in Seq(S) /\ SubSeq(t, n + 1, Len(t)) \in Seq(S)
      /\ SubSeq(t, 1, n) \o SubSeq(t, n + 1, Len(t)) = t
    BY Cut
<1>2. ASSUME NEW u \in Seq(S), NEW v \in Seq(S)
      PROVE  (s \o u) \o v = s \o (u \o v)
    BY ConcatAssociative, SMTT(20)
<1>3. ASSUME NEW u \in Seq(S), NEW v \in Seq(S), u \o v = t
      PROVE  (s \o u) \o v = s \o t
    BY <1>2, <1>3, Zenon
<1> QED
    BY <1>1, <1>3, Zenon

\* Every step of the pager keeps the text: what it shows, holds and counts.
LEMMA TextStep ==
    ASSUME PagerInv, [Next]_vars
    PROVE  TextKept'
<1>1. /\ screen \in Seq(Shades) /\ sent \in Seq(Shades) /\ buf \in Seq(Shades)
      /\ b \in Seq(Shades) /\ written \in Nat
      /\ Len(buf) \in Nat /\ Len(b) \in Nat
    <2>1. Characters \subseteq Shades
        BY DEF Characters, Shades
    <2>2. /\ screen \in Seq(Shades) /\ sent \in Seq(Characters) /\ buf \in Seq(Characters)
          /\ b \in Seq(Characters) /\ written \in Nat
        BY DEF PagerInv, TypeOK, Characters, Shades
    <2> QED
        BY <2>1, <2>2, SeqMonotonic, LenProperties
<1>2. \A c \in Chunks : c \in Seq(Shades) /\ Len(c) \in Nat
    <2>1. \A c \in Chunks : c \in Seq(Characters)
        BY ChunksAssumption DEF Characters
    <2>2. Characters \subseteq Shades
        BY DEF Characters, Shades
    <2> QED
        BY <2>1, <2>2, SeqMonotonic, LenProperties
<1>3. NoPagerAtPrompt /\ FlagsOK /\ TextKept
    BY DEF PagerInv
<1>4. ASSUME NEW words \in Words, ShowOptions(words)
      PROVE  TextKept'
    BY <1>4 DEF TextKept, Writing, ShowOptions
<1>5. CASE NewPager
    <2>1. /\ screen' = <<>> /\ sent' = <<>> /\ buf' = <<>> /\ b' = <<>>
          /\ ret' = NoReturn /\ ~stopped' /\ pc' = "idle"
        BY <1>3, <1>5 DEF NewPager, NoPagerAtPrompt, writeVars
    <2>2. ret' = [n |-> Len(b'), err |-> FALSE]
        BY <2>1, EmptySeq DEF NoReturn
    <2> QED
        BY <2>1, <2>2 DEF TextKept, Writing
<1>6. CASE CommandEnds
    BY <1>6 DEF TextKept, Writing, CommandEnds
<1>7. ASSUME NEW c \in Chunks, WriteThrough(c)
      PROVE  TextKept'
    <2>1. PICK n \in 0 .. Len(c) :
              /\ screen' = screen \o SubSeq(c, 1, n)
              /\ Return(n, n < Len(c))
              /\ failed' = (failed \/ n < Len(c))
              /\ UNCHANGED <<layout, pagerVars, height, written, fresh>>
        BY <1>7 DEF WriteThrough, Pass
    <2>2. pc = "idle" /\ sent' = sent \o c /\ b' = c /\ (shouldPage => ~stopped)
        BY <1>7 DEF WriteThrough, Sends
    <2> SUFFICES ASSUME ~failed'
                 PROVE  TextKept'
        BY DEF TextKept
    <2>3. ~failed /\ n = Len(c)
        <3>1. ~failed /\ ~(n < Len(c))
            BY <2>1
        <3> QED
            BY <1>2, <3>1
    <2>4. ~stopped /\ UNCHANGED <<stopped, shouldPage, buf>>
        BY <1>3, <2>1, <2>2 DEF FlagsOK, pagerVars
    <2>5. screen = sent /\ (shouldPage => buf = <<>>)
        BY <1>3, <2>2, <2>3, <2>4 DEF TextKept
    <2>6. screen' = sent'
        BY <1>2, <2>1, <2>2, <2>3, <2>5, SubSeqFull
    <2>7. pc' = "idle" /\ ret' = [n |-> Len(b'), err |-> FALSE]
        <3>1. (n < Len(c)) = FALSE
            BY <1>2, <2>3
        <3> QED
            BY <2>1, <2>2, <2>3, <3>1 DEF Return
    <2> QED
        BY <2>4, <2>5, <2>6, <2>7 DEF TextKept, Writing
<1>8. ASSUME NEW c \in Chunks, WriteStopped(c)
      PROVE  TextKept'
    <2>1. /\ pc = "idle" /\ sent' = sent \o c /\ stopped
          /\ pc' = "idle" /\ UNCHANGED <<screen, stopped, failed>>
        BY <1>8 DEF WriteStopped, Sends, Return, pagerVars
    <2> SUFFICES ASSUME ~failed'
                 PROVE  TextKept'
        BY DEF TextKept
    <2>2. IsPrefix(screen, sent)
        BY <1>3, <2>1 DEF TextKept
    <2>3. IsPrefix(screen, sent \o c)
        BY <1>1, <1>2, <2>2, LongerText
    <2>4. IsPrefix(screen', sent')
        BY <2>1, <2>3
    <2> QED
        BY <2>1, <2>4 DEF TextKept, Writing
<1>9. ASSUME NEW c \in Chunks, WritePaged(c)
      PROVE  TextKept'
    <2>1. /\ pc = "idle" /\ sent' = sent \o c /\ b' = c /\ shouldPage /\ ~stopped
          /\ buf' = buf \o c /\ written' = 0 /\ pc' = "loop"
          /\ UNCHANGED <<screen, shouldPage, stopped, failed>>
        BY <1>9 DEF WritePaged, Sends
    <2> SUFFICES ASSUME ~failed'
                 PROVE  TextKept'
        BY DEF TextKept
    <2>2. screen = sent /\ buf = <<>>
        BY <1>3, <2>1 DEF TextKept
    <2>3. buf' = c
        BY <1>2, <2>1, <2>2, ConcatEmptySeq
    <2>4. Shown' = screen
        BY <2>1 DEF Shown
    <2>5. written' + Len(buf') = Len(b')
        BY <1>2, <2>1, <2>3
    <2>6. Shown' \o buf' = sent'
        BY <2>1, <2>2, <2>3, <2>4
    <2> QED
        BY <2>1, <2>5, <2>6 DEF TextKept, Writing
<1>10. CASE WriteReturns
    <2>1. /\ pc = "loop" /\ written >= Len(b)
          /\ pc' = "idle" /\ ret' = [n |-> written, err |-> FALSE]
          /\ UNCHANGED <<screen, buf, b, shouldPage, stopped, sent, failed>>
        BY <1>10 DEF WriteReturns, Return, pagerVars, writeVars
    <2> SUFFICES ASSUME ~failed'
                 PROVE  TextKept'
        BY DEF TextKept
    <2>2. screen \o buf = sent /\ written + Len(buf) = Len(b) /\ ~stopped
        BY <1>3, <2>1 DEF TextKept, FlagsOK, Writing, Shown
    <2>3. written = Len(b) /\ Len(buf) = 0
        BY <1>1, <2>1, <2>2
    <2>4. buf = <<>>
        BY <1>1, <2>3, EmptySeq
    <2>5. screen = sent
        BY <1>1, <2>2, <2>4, ConcatEmptySeq
    <2> QED
        BY <2>1, <2>2, <2>3, <2>4, <2>5 DEF TextKept, Writing
<1>11. CASE ShowLine
    <2> SUFFICES ASSUME ~failed'
                 PROVE  TextKept'
        BY DEF TextKept
    <2>1. PICK m \in 0 .. Len(buf) : \E n \in 0 .. m :
              /\ buf # <<>> => m > 0
              /\ buf' = SubSeq(buf, m + 1, Len(buf))
              /\ screen' = screen \o SubSeq(buf, 1, n)
              /\ written' = written + n
              /\ IF n < m THEN Return(written + n, TRUE) /\ failed' = TRUE /\ UNCHANGED <<line, fresh>>
                 ELSE /\ pc' = "loop" /\ line' = line + 1 /\ fresh' \in {fresh, fresh + 1}
                      /\ UNCHANGED <<ret, failed>>
        BY <1>3, <1>11, ShownLine DEF PagerInv
    <2>2. PICK n \in 0 .. m :
              /\ buf' = SubSeq(buf, m + 1, Len(buf))
              /\ screen' = screen \o SubSeq(buf, 1, n)
              /\ written' = written + n
              /\ IF n < m THEN Return(written + n, TRUE) /\ failed' = TRUE /\ UNCHANGED <<line, fresh>>
                 ELSE /\ pc' = "loop" /\ line' = line + 1 /\ fresh' \in {fresh, fresh + 1}
                      /\ UNCHANGED <<ret, failed>>
        BY <2>1
    <2>3. n = m /\ pc' = "loop" /\ ~failed
        <3>1. ~(n < m)
            BY <2>2
        <3>2. n = m
            BY <1>1, <3>1
        <3> QED
            BY <2>2, <3>1, <3>2
    <2>4. pc \in {"loop", "show"} /\ UNCHANGED <<stopped, b, sent>>
        BY <1>11 DEF ShowLine, CanShow
    <2>5. screen \o buf = sent /\ written + Len(buf) = Len(b)
        BY <1>3, <2>3, <2>4 DEF TextKept, Writing, Shown
    <2>6. screen' \o buf' = sent'
        BY <1>1, <2>2, <2>3, <2>4, <2>5, MovedText
    <2>7. Len(buf') = Len(buf) - m
        BY <1>1, <2>2, Cut
    <2>8. written' + Len(buf') = Len(b')
        <3>1. written' = written + m /\ b' = b
            BY <2>2, <2>3, <2>4
        <3>2. m \in Nat /\ (written + m) + (Len(buf) - m) = written + Len(buf)
            BY <1>1
        <3>3. written' + Len(buf') = written + Len(buf)
            BY <2>7, <3>1, <3>2
        <3> QED
            BY <2>5, <3>1, <3>3
    <2> QED
        BY <2>3, <2>6, <2>8 DEF TextKept, Writing, Shown
<1>12. CASE ShowRest
    <2> SUFFICES ASSUME ~failed'
                 PROVE  TextKept'
        BY DEF TextKept
    <2>1. PICK n \in 0 .. Len(buf) :
              /\ screen' = screen \o SubSeq(buf, 1, n)
              /\ written' = written + n
              /\ Return(written + n, n < Len(buf))
              /\ failed' = (failed \/ n < Len(buf))
        BY <1>12 DEF ShowRest
    <2>2. ~failed /\ n = Len(buf)
        <3>1. ~failed /\ ~(n < Len(buf))
            BY <2>1
        <3> QED
            BY <1>1, <3>1
    <2>3. pc = "show" /\ ~shouldPage /\ UNCHANGED <<buf, shouldPage, stopped, b, sent>>
        BY <1>12 DEF ShowRest, pagerVars
    <2>4. screen \o buf = sent /\ written + Len(buf) = Len(b) /\ ~stopped
        BY <1>3, <2>2, <2>3 DEF TextKept, FlagsOK, Writing, Shown
    <2>5. screen' = sent'
        BY <1>1, <2>1, <2>2, <2>3, <2>4, SubSeqFull
    <2>6. pc' = "idle" /\ ret' = [n |-> Len(b'), err |-> FALSE]
        <3>1. (n < Len(buf)) = FALSE
            BY <1>1, <2>2
        <3> QED
            BY <2>1, <2>2, <2>3, <2>4, <3>1 DEF Return
    <2> QED
        BY <2>3, <2>4, <2>5, <2>6 DEF TextKept, Writing
<1>13. CASE Prompt
    <2>1. /\ pc \in {"loop", "more"} /\ pc' = "key" /\ screen' = Append(screen, More)
          /\ UNCHANGED <<buf, b, written, sent, failed>>
        BY <1>13 DEF Prompt, AtBottom, pagerVars, writeVars
    <2>2. Front(Append(screen, More)) = screen
        BY <1>1, FrontOfAppend DEF Shades
    <2>3. Shown' = Shown
        BY <2>1, <2>2 DEF Shown
    <2> QED
        BY <1>3, <2>1, <2>3 DEF TextKept, Writing
<1>14. ASSUME NEW k \in Keys, Key(k)
      PROVE  TextKept'
    <2>1. /\ pc = "key" /\ screen' = Front(screen)
          /\ UNCHANGED <<buf, b, written, sent, failed>>
        BY <1>14, KeyStep DEF PagerInv
    <2>2. pc' \in {"show", "esc", "more"} \/ (pc' = "idle" /\ stopped' = TRUE)
        BY <1>14, KeyStep, GoOnStep DEF PagerInv
    <2>3. Shown' = Shown /\ Shown = screen'
        BY <2>1, <2>2 DEF Shown
    <2> SUFFICES ASSUME ~failed'
                 PROVE  TextKept'
        BY DEF TextKept
    <2>4. Shown \o buf = sent /\ written + Len(buf) = Len(b)
        BY <1>3, <2>1 DEF TextKept, Writing
    <2>5. screen' \in Seq(Shades)
        BY <1>1, <2>1, FrontIsSeq
    <2>6. IsPrefix(screen', sent')
        BY <1>1, <2>1, <2>3, <2>4, <2>5, PrefixOfWhole
    <2> QED
        BY <2>1, <2>2, <2>3, <2>4, <2>6 DEF TextKept, Writing
<1>15. ASSUME NEW bytes, Escape(bytes)
      PROVE  TextKept'
    <2>1. pc = "esc" /\ UNCHANGED <<screen, buf, b, written, sent, failed>>
        BY <1>15, EscapeStep DEF PagerInv
    <2>2. pc' \in {"show", "more"}
        BY <1>15, EscapeStep, GoOnStep DEF PagerInv
    <2>3. Shown' = Shown
        BY <2>1, <2>2 DEF Shown
    <2> QED
        BY <1>3, <2>1, <2>2, <2>3 DEF TextKept, Writing
<1>16. CASE PaginateFails
    BY <1>16 DEF PaginateFails, TextKept
<1>17. CASE UNCHANGED vars
    BY <1>3, <1>17 DEF vars, pagerVars, writeVars, TextKept, Writing, Shown
<1> QED
    BY <1>4, <1>5, <1>6, <1>7, <1>8, <1>9, <1>10, <1>11, <1>12, <1>13, <1>14, <1>15, <1>16, <1>17
    DEF Next

--------------------------------------------------------------------------------
(* What the pager promises                                                   *)

\* The inductive invariant holds of every state the pager reaches.
THEOREM PagerInvariant == Spec => []PagerInv
<1>1. Init => PagerInv
    <2> SUFFICES ASSUME Init
                 PROVE  PagerInv
        OBVIOUS
    <2>1. <<>> \in Seq(Characters) /\ <<>> \in Seq(Shades)
        BY EmptySeq
    <2>2. NoReturn \in [n : Nat, err : BOOLEAN]
        BY DEF NoReturn
    <2>3. TypeOK
        <3>1. /\ pc = "prompt" /\ shouldPage \in BOOLEAN /\ stopped \in BOOLEAN
              /\ failed \in BOOLEAN
            BY DEF Init
        <3>2. /\ line \in Int /\ height \in Heights \cup {Unknown}
              /\ written \in Nat /\ fresh \in Int
            BY DEF Init
        <3>3. /\ screen = <<>> /\ sent = <<>> /\ buf = <<>> /\ b = <<>> /\ ret = NoReturn
            BY DEF Init
        <3> QED
            BY <2>1, <2>2, <3>1, <3>2, <3>3 DEF TypeOK, Characters, Shades
    <2>4. NoPagerAtPrompt /\ FlagsOK /\ LinesCounted /\ TextKept
        BY DEF Init, NoPagerAtPrompt, FlagsOK, LinesCounted, TextKept, Writing
    <2> QED
        BY <2>3, <2>4 DEF PagerInv
<1>2. PagerInv /\ [Next]_vars => PagerInv'
    <2> SUFFICES ASSUME PagerInv, [Next]_vars
                 PROVE  PagerInv'
        OBVIOUS
    <2>1. TypeOK'
        BY TypeStep DEF PagerInv
    <2>2. ControlOK'
        BY ControlStep DEF PagerInv, ControlOK
    <2>3. TextKept'
        BY TextStep
    <2> QED
        BY <2>1, <2>2, <2>3 DEF PagerInv, ControlOK
<1> QED
    BY <1>1, <1>2, PTL DEF Spec

\* However a command cuts its output into writes, whatever keys are pressed and
\* whatever the size of the screen, the screen shows the output in order and
\* nothing else, and Write reports what it showed, unless q or an error
\* of the terminal withheld some of it.
THEOREM OutputIsShown == Spec => []ShowsWhatWasWritten
<1>1. PagerInv => ShowsWhatWasWritten
    <2> SUFFICES ASSUME PagerInv, ~failed
                 PROVE  /\ IsPrefix(Shown, sent)
                        /\ pc = "idle" /\ ~stopped =>
                              screen = sent /\ ret = [n |-> Len(b), err |-> FALSE]
        BY DEF ShowsWhatWasWritten, Shown
    <2>1. /\ screen \in Seq(Shades) /\ buf \in Seq(Characters) /\ sent \in Seq(Characters)
          /\ pc \in {"prompt", "panic", "idle", "loop", "show", "more", "key", "esc"}
        BY DEF PagerInv, TypeOK, Characters, Shades
    <2>2. sent \in Seq(Shades) /\ buf \in Seq(Shades)
        <3>1. Characters \subseteq Shades
            BY DEF Characters, Shades
        <3> QED
            BY <2>1, <3>1, SeqMonotonic
    <2>3. Shown \in Seq(Shades)
        BY <2>1, FrontIsSeq DEF Shown
    <2>4. CASE Writing
        <3>1. Shown \o buf = sent /\ pc # "idle"
            BY <2>4 DEF PagerInv, TextKept, Writing
        <3> QED
            BY <2>2, <2>3, <3>1, PrefixOfWhole
    <2>5. CASE pc = "idle"
        <3>1. CASE stopped
            BY <2>5, <3>1 DEF PagerInv, TextKept, Shown
        <3>2. CASE ~stopped
            <4>1. screen = sent /\ ret = [n |-> Len(b), err |-> FALSE]
                BY <2>5, <3>2 DEF PagerInv, TextKept
            <4>2. IsPrefix(sent, sent)
                BY <2>2, PrefixOfWhole
            <4> QED
                BY <2>5, <4>1, <4>2 DEF Shown
        <3> QED
            BY <3>1, <3>2
    <2>6. CASE pc \in {"prompt", "panic"}
        <3>1. screen = sent
            BY <2>6 DEF PagerInv, NoPagerAtPrompt
        <3>2. IsPrefix(sent, sent)
            BY <2>2, PrefixOfWhole
        <3> QED
            BY <2>6, <3>1, <3>2 DEF Shown
    <2> QED
        BY <2>1, <2>4, <2>5, <2>6 DEF Writing
<1> QED
    BY <1>1, PagerInvariant, PTL

\* The greater of two numbers is at least either.
LEMMA MaxOfTwo ==
    ASSUME NEW x \in Int, NEW y \in Int
    PROVE  Max({x, y}) \in Int /\ Max({x, y}) >= x /\ Max({x, y}) >= y
BY DEF Max

\* A line appears only where there is room for it since the last key, and none
\* appears after q: no step of Write or paginate lets the user miss a line,
\* whatever the height of the screen is and however often it changes.
THEOREM LinesStayReadable == Spec => NothingScrollsAway
<1>1. PagerInv /\ [Next]_vars =>
          [Len(screen') > Len(screen) =>
              /\ ~stopped
              /\ fresh' > fresh => fresh < Max({height - 1, 1})]_vars
    <2> SUFFICES ASSUME PagerInv, Next, Len(screen') > Len(screen)
                 PROVE  /\ ~stopped
                        /\ fresh' > fresh => fresh < Max({height - 1, 1})
        OBVIOUS
    <2>1. /\ screen \in Seq(Shades) /\ Len(screen) \in Nat /\ fresh \in Int /\ line \in Int
          /\ height \in Int /\ fresh <= line
        <3>1. height \in Heights \cup {-1}
            BY DEF PagerInv, TypeOK, Unknown
        <3>2. height \in Int
            BY <3>1, SizesAssumption
        <3>3. screen \in Seq(Shades) /\ fresh \in Int /\ line \in Int /\ fresh <= line
            BY DEF PagerInv, TypeOK, LinesCounted, Shades
        <3> QED
            BY <3>2, <3>3, LenProperties
    <2>2. FlagsOK
        BY DEF PagerInv
    <2>3. screen' # screen
        BY <2>1
    <2>4. CASE \E words \in Words : ShowOptions(words)
        BY <2>3, <2>4 DEF ShowOptions
    <2>5. CASE NewPager
        BY <2>3, <2>5 DEF NewPager
    <2>6. CASE CommandEnds
        <3>1. Len(screen') = 0
            BY <2>6, EmptySeq DEF CommandEnds
        <3> QED
            BY <2>1, <3>1
    <2>7. ASSUME NEW c \in Chunks, WriteThrough(c)
          PROVE  ~stopped /\ fresh' = fresh
        BY <2>2, <2>7 DEF WriteThrough, Pass, FlagsOK
    <2>8. ASSUME NEW c \in Chunks, WriteStopped(c) \/ WritePaged(c)
          PROVE  FALSE
        BY <2>3, <2>8 DEF WriteStopped, WritePaged
    <2>9. CASE WriteReturns
        BY <2>3, <2>9 DEF WriteReturns
    <2>10. CASE ShowLine
        <3>1. ~stopped
            BY <2>2, <2>10 DEF ShowLine, CanShow, FlagsOK, Writing
        <3>2. fresh < Max({height - 1, 1})
            <4>1. height - 1 \in Int
                BY <2>1
            <4>2. /\ Max({height - 1, 1}) \in Int /\ Max({height - 1, 1}) >= height - 1
                  /\ Max({height - 1, 1}) >= 1
                <5>1. \A h \in Int : /\ Max({h, 1}) \in Int /\ Max({h, 1}) >= h
                                    /\ Max({h, 1}) >= 1
                    BY MaxOfTwo
                <5> QED
                    BY <4>1, <5>1, Zenon
            <4>3. CASE pc = "show"
                <5>1. fresh <= 0
                    BY <2>10, <4>3 DEF ShowLine, CanShow, PagerInv, LinesCounted
                <5> QED
                    BY <2>1, <4>2, <5>1
            <4>4. CASE pc # "show"
                <5>1. ~(line >= height - 1)
                    BY <2>10, <4>4 DEF ShowLine, CanShow, AtBottom
                <5> QED
                    BY <2>1, <4>2, <5>1
            <4> QED
                BY <4>3, <4>4
        <3> QED
            BY <3>1, <3>2
    <2>11. CASE ShowRest
        <3>1. ~stopped /\ fresh' = fresh
            BY <2>2, <2>11 DEF ShowRest, FlagsOK, Writing
        <3> QED
            BY <2>1, <3>1
    <2>12. CASE Prompt
        <3>1. ~stopped /\ fresh' = fresh
            BY <2>2, <2>12 DEF Prompt, AtBottom, FlagsOK, Writing
        <3> QED
            BY <2>1, <3>1
    <2>13. ASSUME NEW k \in Keys, Key(k)
           PROVE  FALSE
        <3>1. screen' = Front(screen)
            BY <2>13 DEF Key
        <3>2. Len(screen') <= Len(screen) /\ Len(screen') \in Nat
            BY <2>1, <3>1, FrontIsSeq, LenProperties
        <3> QED
            BY <2>1, <3>2
    <2>14. ASSUME NEW bytes, Escape(bytes)
           PROVE  FALSE
        BY <2>3, <2>14 DEF Escape
    <2>15. CASE PaginateFails
        BY <2>3, <2>15 DEF PaginateFails
    <2>16. ASSUME NEW c \in Chunks, WriteThrough(c)
           PROVE  /\ ~stopped
                  /\ fresh' > fresh => fresh < Max({height - 1, 1})
        BY <2>1, <2>7, <2>16
    <2> QED
        BY <2>4, <2>5, <2>6, <2>8, <2>9, <2>10, <2>11, <2>12, <2>13, <2>14, <2>15, <2>16
        DEF Next
<1> QED
    BY <1>1, PagerInvariant, PTL DEF Spec, NothingScrollsAway

--------------------------------------------------------------------------------
(* wrap                                                                      *)

\* Division with remainder.
LEMMA Division ==
    ASSUME NEW x \in Nat, NEW y \in Nat \ {0}
    PROVE  /\ x \div y \in Nat /\ x % y \in 0 .. y - 1
           /\ x = y * (x \div y) + (x % y)
OBVIOUS

\* More columns, or more rows, hold more words.
LEMMA Product ==
    ASSUME NEW x \in Nat, NEW y \in Nat, NEW z \in Nat
    PROVE  /\ x * z \in Nat
           /\ x <= y => x * z <= y * z
           /\ x < y => x * z + z <= y * z
OBVIOUS

\* The longest word has a length.
LEMMA LongestIsNat ==
    ASSUME NEW words \in Seq(Nat)
    PROVE  Longest(words) \in Nat
<1>1. Len(words) \in Nat /\ \A i \in 1 .. Len(words) : words[i] \in Nat
    BY LenProperties, ElementOfSeq
<1> DEFINE bounded == {n \in Nat : n <= Len(words) =>
                          \E u \in Nat : \A i \in 1 .. n : words[i] <= u}
<1>2. 0 \in bounded
    OBVIOUS
<1>3. ASSUME NEW n \in Nat, n \in bounded
      PROVE  n + 1 \in bounded
    <2> SUFFICES ASSUME n + 1 <= Len(words)
                 PROVE  \E u \in Nat : \A i \in 1 .. n + 1 : words[i] <= u
        BY <1>1
    <2>1. PICK u \in Nat : \A i \in 1 .. n : words[i] <= u
        BY <1>1, <1>3
    <2>2. words[n + 1] \in Nat
        BY <1>1
    <2> DEFINE w == u + words[n + 1]
    <2>3. w \in Nat /\ u <= w /\ words[n + 1] <= w
        BY <2>2
    <2> HIDE DEF w
    <2>4. ASSUME NEW i \in 1 .. n + 1
          PROVE  words[i] <= w
        <3>1. CASE i = n + 1
            BY <2>3, <3>1
        <3>2. CASE i # n + 1
            <4>1. i \in 1 .. n /\ words[i] \in Nat
                BY <1>1, <3>2
            <4> QED
                BY <2>1, <2>3, <4>1
        <3> QED
            BY <3>1, <3>2
    <2> QED
        BY <2>3, <2>4
<1> HIDE DEF bounded
<1>4. \A n \in Nat : n \in bounded
    BY <1>2, <1>3, InductiveSet
<1>5. PICK u \in Nat : \A i \in 1 .. Len(words) : words[i] <= u
    <2>1. Len(words) \in bounded /\ Len(words) <= Len(words)
        BY <1>1, <1>4
    <2> QED
        BY <2>1 DEF bounded
<1> DEFINE T == ToSet(words) \cup {0}
<1>6. T \subseteq Nat /\ 0 \in T /\ \A x \in T : x <= u
    <2>1. DOMAIN words = 1 .. Len(words)
        BY LenProperties
    <2> QED
        BY <1>1, <1>5, <2>1 DEF ToSet
<1> HIDE DEF T
<1>7. \E m \in T : \A k \in T : m >= k
    BY <1>6, GreatestElement
<1>8. Max(T) \in T
    BY <1>7 DEF Max
<1> QED
    BY <1>6, <1>8 DEF Longest, T

\* On a screen as wide as the indent, wrap computes with natural numbers: the
\* columns that fit, and as few rows as hold all words.
LEMMA RowsAndColumns ==
    ASSUME NEW width \in Nat, NEW indent \in Nat, indent <= width, NEW words \in Seq(Nat)
    PROVE  LET column == Longest(words) + 2
               perRow == PerRow(width, indent, words)
               rows == Rows(width, indent, words)
           IN  /\ perRow \in Nat
               /\ perRow * column <= width - indent
               /\ column <= width - indent => perRow > 0
               /\ perRow > 0 => rows \in Nat /\ Len(words) <= rows * perRow
<1> DEFINE column == Longest(words) + 2
           perRow == PerRow(width, indent, words)
           full == Quo(Len(words), perRow)
<1>1. column \in Nat \ {0} /\ width - indent \in Nat /\ Len(words) \in Nat
    BY LongestIsNat, LenProperties
<1>2. ASSUME NEW x \in Nat, NEW y \in Nat \ {0}
      PROVE  Quo(x, y) = x \div y
    BY DEF Quo
<1>3. perRow = (width - indent) \div column
    <2>1. perRow = Quo(width - indent, column)
        BY DEF PerRow
    <2> HIDE DEF perRow, column
    <2> QED
        BY <1>1, <1>2, <2>1
<1> HIDE DEF perRow, column, full
<1>4. perRow \in Nat /\ perRow * column <= width - indent
    <2>1. /\ perRow \in Nat /\ (width - indent) % column \in 0 .. column - 1
          /\ width - indent = column * perRow + ((width - indent) % column)
        BY <1>1, <1>3, Division
    <2>2. column * perRow = perRow * column /\ column * perRow \in Nat
        BY <1>1, <2>1
    <2> QED
        BY <1>1, <2>1, <2>2
<1>5. ASSUME column <= width - indent
      PROVE  perRow > 0
    <2>1. /\ perRow \in Nat /\ (width - indent) % column \in 0 .. column - 1
          /\ width - indent = column * perRow + ((width - indent) % column)
        BY <1>1, <1>3, Division
    <2>2. perRow # 0
        BY <1>1, <1>5, <2>1
    <2> QED
        BY <2>1, <2>2
<1>6. ASSUME perRow > 0
      PROVE  /\ Rows(width, indent, words) \in Nat
             /\ Len(words) <= Rows(width, indent, words) * perRow
    <2>1. perRow \in Nat \ {0}
        BY <1>4, <1>6
    <2>2. full = Len(words) \div perRow
        BY <1>1, <1>2, <2>1 DEF full
    <2>3. /\ full \in Nat /\ Len(words) % perRow \in 0 .. perRow - 1
          /\ Len(words) = perRow * full + (Len(words) % perRow)
        BY <1>1, <2>1, <2>2, Division
    <2>4. perRow * full = full * perRow /\ full * perRow \in Nat
        BY <2>1, <2>3
    <2>5. Rows(width, indent, words) = full + (IF full * perRow = Len(words) THEN 0 ELSE 1)
        BY DEF Rows, full, perRow
    <2>6. (full + 1) * perRow = full * perRow + perRow
        BY <2>1, <2>3
    <2>7. CASE full * perRow = Len(words)
        <3>1. Rows(width, indent, words) = full
            BY <2>3, <2>5, <2>7
        <3> QED
            BY <1>1, <2>3, <2>7, <3>1
    <2>8. CASE full * perRow # Len(words)
        <3>1. Rows(width, indent, words) = full + 1
            BY <2>3, <2>5, <2>8
        <3>2. Len(words) <= full * perRow + perRow
            BY <1>1, <2>1, <2>3, <2>4
        <3> QED
            BY <2>3, <2>6, <3>1, <3>2
    <2> QED
        BY <2>7, <2>8
<1> QED
    BY <1>4, <1>5, <1>6 DEF perRow, column

\* The columns of row i that have a word, of n words in rows of perRow columns:
\* where the loop of wrap over j stops.
Columns(i, perRow, rows, n) ==
    {j \in 1 .. perRow : \A k \in 1 .. j : i + (k - 1) * rows <= n}

\* What wrap makes of n words if a column fits.
Table(perRow, rows, n) ==
    [i \in 1 .. rows |-> [j \in Columns(i, perRow, rows, n) |-> i + (j - 1) * rows]]

\* A column holds the word if the word's number is no more than n: a word in a
\* later column has a greater number, so the loop of wrap misses none.
LEMMA ColumnsBefore ==
    ASSUME NEW i \in Nat, NEW perRow \in Nat, NEW rows \in Nat, NEW n \in Nat,
           NEW j \in 1 .. perRow, i + (j - 1) * rows <= n
    PROVE  j \in Columns(i, perRow, rows, n)
<1> SUFFICES ASSUME NEW k \in 1 .. j
             PROVE  i + (k - 1) * rows <= n
    BY DEF Columns
<1>1. k - 1 \in Nat /\ j - 1 \in Nat /\ k - 1 <= j - 1
    OBVIOUS
<1>2. (k - 1) * rows \in Nat /\ (j - 1) * rows \in Nat /\ (k - 1) * rows <= (j - 1) * rows
    BY <1>1, Product
<1> QED
    BY <1>2

\* The rows hold every word once.
LEMMA TableShowsEveryWord ==
    ASSUME NEW perRow \in Nat, NEW rows \in Nat, NEW n \in Nat, n <= rows * perRow
    PROVE  EachWordOnce(Table(perRow, rows, n), n)
<1> DEFINE lines == Table(perRow, rows, n)
<1>1. /\ DOMAIN lines = 1 .. rows
      /\ \A i \in 1 .. rows : /\ DOMAIN lines[i] = Columns(i, perRow, rows, n)
                              /\ \A j \in Columns(i, perRow, rows, n) :
                                    lines[i][j] = i + (j - 1) * rows
    BY DEF Table
<1> HIDE DEF lines
<1>2. ASSUME NEW i \in 1 .. rows, NEW j \in Columns(i, perRow, rows, n)
      PROVE  /\ j \in 1 .. perRow /\ j - 1 \in Nat /\ (j - 1) * rows \in Nat
             /\ lines[i][j] = i + (j - 1) * rows
             /\ i + (j - 1) * rows \in 1 .. n
    <2>1. j \in 1 .. perRow /\ j - 1 \in Nat /\ i + (j - 1) * rows <= n
        BY DEF Columns
    <2>2. (j - 1) * rows \in Nat
        BY <2>1, Product
    <2> QED
        BY <1>1, <2>1, <2>2
<1>3. ASSUME NEW w \in 1 .. n
      PROVE  \E i \in DOMAIN lines : \E j \in DOMAIN lines[i] : lines[i][j] = w
    <2>1. rows # 0
        <3>1. rows * perRow >= 1
            BY <1>3
        <3> QED
            BY <3>1
    <2> DEFINE q == (w - 1) \div rows
               r == (w - 1) % rows
    <2>2. q \in Nat /\ r \in 0 .. rows - 1 /\ w - 1 = rows * q + r
        <3>1. w - 1 \in Nat /\ rows \in Nat \ {0}
            BY <2>1
        <3> QED
            BY <3>1, Division
    <2> HIDE DEF q, r
    <2>3. rows * q = q * rows /\ rows * perRow = perRow * rows /\ q * rows \in Nat
        BY <2>2
    <2>4. q < perRow
        <3>1. perRow <= q => perRow * rows <= q * rows
            BY <2>2, Product
        <3>2. q * rows <= w - 1 /\ w - 1 < perRow * rows
            BY <2>2, <2>3
        <3>3. perRow * rows \in Nat
            OBVIOUS
        <3> QED
            BY <2>2, <2>3, <3>1, <3>2, <3>3
    <2>5. r + 1 \in 1 .. rows /\ q + 1 \in 1 .. perRow /\ (q + 1) - 1 = q
        BY <2>2, <2>4
    <2>6. (r + 1) + ((q + 1) - 1) * rows = w
        BY <2>2, <2>3, <2>5
    <2>7. q + 1 \in Columns(r + 1, perRow, rows, n)
        <3>1. r + 1 \in Nat /\ (r + 1) + ((q + 1) - 1) * rows <= n
            BY <2>5, <2>6
        <3> QED
            BY <2>5, <3>1, ColumnsBefore
    <2>8. lines[r + 1][q + 1] = w
        BY <1>1, <2>5, <2>6, <2>7
    <2> QED
        BY <1>1, <2>5, <2>7, <2>8
<1>4. ASSUME NEW i \in 1 .. rows, NEW k \in 1 .. rows,
             NEW j \in Columns(i, perRow, rows, n), NEW m \in Columns(k, perRow, rows, n),
             j < m
      PROVE  lines[i][j] < lines[k][m]
    <2>1. (j - 1) * rows + rows <= (m - 1) * rows
        <3>1. j - 1 \in Nat /\ m - 1 \in Nat /\ j - 1 < m - 1
            BY <1>2, <1>4
        <3> QED
            BY <3>1, Product
    <2> QED
        BY <1>2, <2>1
<1>5. ASSUME NEW i \in 1 .. rows, NEW k \in 1 .. rows,
             NEW j \in Columns(i, perRow, rows, n), NEW m \in Columns(k, perRow, rows, n),
             lines[i][j] = lines[k][m]
      PROVE  i = k /\ j = m
    <2>1. j \in Int /\ m \in Int /\ lines[i][j] \in Int
        BY <1>2
    <2>2. ~(j < m)
        BY <1>4, <1>5, <2>1
    <2>3. ~(m < j)
        BY <1>4, <1>5, <2>1
    <2>4. j = m
        BY <2>1, <2>2, <2>3
    <2>5. i + (j - 1) * rows = k + (j - 1) * rows /\ (j - 1) * rows \in Nat
        BY <1>2, <1>5, <2>4
    <2> QED
        BY <2>4, <2>5
<1>6. \A i \in DOMAIN lines : \A j \in DOMAIN lines[i] : lines[i][j] \in 1 .. n
    BY <1>1, <1>2
<1>7. \A i, k \in DOMAIN lines : \A j \in DOMAIN lines[i], m \in DOMAIN lines[k] :
          lines[i][j] = lines[k][m] => i = k /\ j = m
    BY <1>1, <1>5
<1> QED
    BY <1>3, <1>6, <1>7 DEF EachWordOnce, lines

\* No row has more words than columns fit.
LEMMA RowsFit ==
    ASSUME NEW perRow \in Nat, NEW rows \in Nat, NEW n \in Nat, NEW i \in 1 .. rows
    PROVE  Len(Table(perRow, rows, n)[i]) \in 0 .. perRow
<1> DEFINE C == Columns(i, perRow, rows, n)
           missing == {j \in 1 .. perRow + 1 : j \notin C}
           f == [j \in C |-> i + (j - 1) * rows]
<1>1. C \subseteq 1 .. perRow /\ \A j \in C : \A k \in 1 .. j : k \in C
    <2>1. C \subseteq 1 .. perRow
        BY DEF Columns
    <2>2. ASSUME NEW j \in C, NEW k \in 1 .. j
          PROVE  k \in C
        <3>1. /\ j \in 1 .. perRow /\ k \in 1 .. perRow
              /\ \A h \in 1 .. j : i + (h - 1) * rows <= n
            BY DEF Columns
        <3>2. \A h \in 1 .. k : h \in 1 .. j
            BY <3>1
        <3> QED
            BY <3>1, <3>2 DEF Columns
    <2> QED
        BY <2>1, <2>2
<1>2. Table(perRow, rows, n)[i] = f
    BY DEF Table
<1> HIDE DEF C
<1>3. PICK m \in missing : \A k \in missing : m <= k
    <2>1. missing \subseteq Nat
        OBVIOUS
    <2>2. perRow + 1 \in missing
        BY <1>1
    <2> HIDE DEF missing
    <2> QED
        BY <2>1, <2>2, LeastElement
<1>4. C = 1 .. m - 1 /\ m - 1 \in 0 .. perRow
    <2>1. m \in 1 .. perRow + 1 /\ m \notin C
        BY <1>3
    <2>2. ASSUME NEW j \in C
          PROVE  j \in 1 .. m - 1
        <3>1. j \in 1 .. perRow /\ ~(m \in 1 .. j)
            BY <1>1, <2>1
        <3> QED
            BY <2>1, <3>1
    <2>3. ASSUME NEW j \in 1 .. m - 1
          PROVE  j \in C
        <3>1. j \in 1 .. perRow + 1 /\ ~(m <= j)
            BY <2>1
        <3>2. j \notin missing
            BY <1>3, <3>1
        <3> QED
            BY <3>1, <3>2
    <2>4. m - 1 \in 0 .. perRow
        BY <2>1
    <2>5. \A j : j \in C <=> j \in 1 .. m - 1
        BY <2>2, <2>3
    <2> QED
        BY <2>4, <2>5
<1>5. DOMAIN f = 1 .. m - 1
    BY <1>4
<1>6. Len(f) = m - 1
    <2>1. f \in Seq(Int)
        <3>1. m - 1 \in Nat /\ \A j \in 1 .. m - 1 : i + (j - 1) * rows \in Int
            BY <1>4
        <3> QED
            BY <1>4, <3>1, IsASeq
    <2>2. Len(f) \in Nat /\ DOMAIN f = 1 .. Len(f)
        BY <2>1, LenProperties
    <2>3. m - 1 \in Nat
        BY <1>4
    <2> HIDE DEF f
    <2> QED
        BY <1>5, <2>2, <2>3
<1> QED
    BY <1>2, <1>4, <1>6

\* What wrap promises of the lines it returns for these arguments.
Promise(width, indent, words, lines) ==
    /\ EachWordOnce(lines, Len(words))
    /\ width >= indent + (Longest(words) + 2) =>
          \A i \in 1 .. Len(lines) :
             indent + Len(lines[i]) * (Longest(words) + 2) <= width

\* wrap keeps its promise, and does not panic, for every width, indent and list
\* of words, unless the screen is narrower than the indent.
LEMMA WrapKeepsPromise ==
    ASSUME NEW width \in Nat \cup {Unknown}, NEW indent \in Nat, NEW words \in Seq(Nat),
           ~(width \in 0 .. indent - 1)
    PROVE  /\ ~WrapPanics(width, indent, words)
           /\ Promise(width, indent, words, Wrap(width, indent, words))
<1> DEFINE column == Longest(words) + 2
           perRow == PerRow(width, indent, words)
           rows == Rows(width, indent, words)
           lines == Wrap(width, indent, words)
<1>1. Len(words) \in Nat /\ column \in Nat /\ column > 0
    BY LenProperties, LongestIsNat
<1>2. width = Unknown \/ (width \in Nat /\ indent <= width /\ width # Unknown)
    BY DEF Unknown
<1>3. width # Unknown =>
          /\ perRow \in Nat /\ perRow * column <= width - indent
          /\ column <= width - indent => perRow > 0
          /\ perRow > 0 => rows \in Nat /\ Len(words) <= rows * perRow
    BY <1>2, RowsAndColumns
<1>4. ~WrapPanics(width, indent, words)
    BY <1>3 DEF WrapPanics
<1>5. CASE width = Unknown \/ perRow = 0
    <2>1. lines = [i \in 1 .. Len(words) |-> <<i>>]
        BY <1>5 DEF Wrap
    <2>2. ~(width >= indent + column)
        <3>1. CASE width = Unknown
            BY <1>1, <3>1 DEF Unknown
        <3>2. CASE width # Unknown
            <4>1. ~(perRow > 0) /\ width \in Nat
                BY <1>2, <1>5, <3>2
            <4>2. ~(column <= width - indent)
                BY <1>3, <3>2, <4>1
            <4> HIDE DEF column
            <4> QED
                BY <1>1, <4>1, <4>2
        <3> QED
            BY <3>1, <3>2
    <2>3. EachWordOnce(lines, Len(words))
        <3>1. /\ DOMAIN lines = 1 .. Len(words)
              /\ \A i \in 1 .. Len(words) : DOMAIN lines[i] = {1} /\ lines[i][1] = i
            BY <2>1
        <3> HIDE DEF lines
        <3> QED
            BY <3>1 DEF EachWordOnce
    <2> QED
        BY <1>4, <2>2, <2>3 DEF Promise
<1>6. CASE ~(width = Unknown \/ perRow = 0)
    <2>1. /\ perRow \in Nat /\ perRow > 0 /\ rows \in Nat /\ Len(words) <= rows * perRow
          /\ perRow * column <= width - indent /\ width \in Nat
        <3>1. width # Unknown /\ perRow # 0
            BY <1>6
        <3>2. perRow \in Nat /\ perRow * column <= width - indent /\ width \in Nat
            BY <1>2, <1>3, <3>1
        <3>3. perRow > 0
            BY <3>1, <3>2
        <3> QED
            BY <1>3, <3>1, <3>2, <3>3
    <2>2. lines = Table(perRow, rows, Len(words))
        BY <1>6 DEF Wrap, Table, Columns
    <2> HIDE DEF lines, rows, perRow, column
    <2>3. EachWordOnce(lines, Len(words))
        BY <1>1, <2>1, <2>2, TableShowsEveryWord
    <2>4. Len(lines) = rows
        BY <2>1, <2>2 DEF Table
    <2>5. ASSUME NEW i \in 1 .. rows
          PROVE  indent + Len(lines[i]) * column <= width
        <3>1. Len(lines[i]) \in Nat /\ Len(lines[i]) <= perRow
            BY <1>1, <2>1, <2>2, RowsFit
        <3>2. Len(lines[i]) * column \in Nat /\ Len(lines[i]) * column <= perRow * column
            BY <1>1, <2>1, <3>1, Product
        <3>3. perRow * column \in Nat
            BY <1>1, <2>1, Product
        <3> QED
            BY <2>1, <3>2, <3>3
    <2>6. Promise(width, indent, words, lines)
        BY <2>3, <2>4, <2>5 DEF Promise, column
    <2> QED
        BY <1>4, <2>6 DEF lines
<1> QED
    BY <1>5, <1>6

\* What is kept of the completions is what wrap made of them.
LayoutOK ==
    \/ layout = NoLayout /\ pc # "panic"
    \/ \E width \in Widths \cup {Unknown}, indent \in {0, 5}, words \in Words :
          /\ layout = [width |-> width, indent |-> indent, words |-> words,
                       lines |-> Wrap(width, indent, words)]
          /\ pc = "panic" => WrapPanics(width, indent, words)

\* Whatever completions the client offers, at whatever width of the screen, wrap
\* shows every one of them once, on lines that fit, and does not panic, unless
\* the screen is narrower than the indent or than one word.
THEOREM CompletionsAreShown == Spec => []WrapShowsEveryWord
<1>1. Init => LayoutOK
    BY DEF Init, LayoutOK
<1>2. LayoutOK /\ [Next]_vars => LayoutOK'
    <2> SUFFICES ASSUME LayoutOK, [Next]_vars
                 PROVE  LayoutOK'
        OBVIOUS
    <2>1. ASSUME NEW given \in Words, ShowOptions(given)
          PROVE  LayoutOK'
        <3>1. PICK width \in Widths \cup {Unknown}, indent \in {0, 5} :
                  /\ layout' = [width |-> width, indent |-> indent, words |-> given,
                                lines |-> Wrap(width, indent, given)]
                  /\ pc' = IF WrapPanics(width, indent, given) THEN "panic" ELSE pc
            BY <2>1 DEF ShowOptions
        <3>2. pc = "prompt"
            BY <2>1 DEF ShowOptions
        <3>3. pc' = "panic" => WrapPanics(width, indent, given)
            BY <3>1, <3>2
        <3> QED
            BY <3>1, <3>3 DEF LayoutOK
    <2>2. CASE NewPager
        BY <2>2 DEF NewPager, LayoutOK
    <2>3. ASSUME pc' # "panic", UNCHANGED layout
          PROVE  LayoutOK'
        BY <2>3 DEF LayoutOK
    <2>4. CASE CommandEnds
        BY <2>3, <2>4 DEF CommandEnds
    <2>5. ASSUME NEW c \in Chunks, WriteThrough(c)
          PROVE  LayoutOK'
        BY <2>3, <2>5 DEF WriteThrough, Pass, Return
    <2>6. ASSUME NEW c \in Chunks, WriteStopped(c)
          PROVE  LayoutOK'
        BY <2>3, <2>6 DEF WriteStopped, Return
    <2>7. ASSUME NEW c \in Chunks, WritePaged(c)
          PROVE  LayoutOK'
        BY <2>3, <2>7 DEF WritePaged
    <2>8. CASE WriteReturns
        BY <2>3, <2>8 DEF WriteReturns, Return
    <2>9. CASE ShowLine
        BY <2>3, <2>9 DEF ShowLine, Return
    <2>10. CASE ShowRest
        BY <2>3, <2>10 DEF ShowRest, Return
    <2>11. CASE Prompt
        BY <2>3, <2>11 DEF Prompt
    <2>12. ASSUME NEW k \in Keys, Key(k)
           PROVE  LayoutOK'
        <3>1. UNCHANGED layout
            BY <2>12 DEF Key
        <3>2. pc' \in {"idle", "show", "esc", "more"}
            BY <2>12 DEF Key, Keys, GoOn, Return
        <3> QED
            BY <2>3, <3>1, <3>2
    <2>13. ASSUME NEW bytes, Escape(bytes)
           PROVE  LayoutOK'
        BY <2>3, <2>13 DEF Escape, GoOn
    <2>14. CASE PaginateFails
        BY <2>3, <2>14 DEF PaginateFails, Return
    <2>15. CASE UNCHANGED vars
        BY <2>15 DEF vars, LayoutOK
    <2> QED
        BY <2>1, <2>2, <2>4, <2>5, <2>6, <2>7, <2>8, <2>9, <2>10, <2>11, <2>12, <2>13, <2>14, <2>15
        DEF Next
<1>3. LayoutOK => WrapShowsEveryWord
    <2> SUFFICES ASSUME LayoutOK, ~(layout.width \in 0 .. layout.indent - 1)
                 PROVE  /\ pc # "panic"
                        /\ Promise(layout.width, layout.indent, layout.words, layout.lines)
        BY DEF WrapShowsEveryWord, Promise
    <2>1. CASE layout = NoLayout /\ pc # "panic"
        <3>1. /\ layout.width = 0 /\ layout.indent = 0
              /\ layout.words = <<>> /\ layout.lines = <<>>
            BY <2>1 DEF NoLayout
        <3>2. Len(<<>>) = 0 /\ DOMAIN <<>> = {}
            BY EmptySeq
        <3>3. EachWordOnce(<<>>, 0)
            BY <3>2 DEF EachWordOnce
        <3> QED
            BY <2>1, <3>1, <3>2, <3>3 DEF Promise
    <2>2. ASSUME NEW width \in Widths \cup {Unknown}, NEW indent \in {0, 5}, NEW words \in Words,
                 layout = [width |-> width, indent |-> indent, words |-> words,
                           lines |-> Wrap(width, indent, words)],
                 pc = "panic" => WrapPanics(width, indent, words)
          PROVE  /\ pc # "panic"
                 /\ Promise(layout.width, layout.indent, layout.words, layout.lines)
        <3>1. /\ width \in Nat \cup {Unknown} /\ indent \in Nat /\ words \in Seq(Nat)
            BY SizesAssumption, WordsAssumption
        <3>2. /\ layout.width = width /\ layout.indent = indent /\ layout.words = words
              /\ layout.lines = Wrap(width, indent, words)
            BY <2>2
        <3>3. ~(width \in 0 .. indent - 1)
            BY <3>2
        <3>4. /\ ~WrapPanics(width, indent, words)
              /\ Promise(width, indent, words, Wrap(width, indent, words))
            BY <3>1, <3>3, WrapKeepsPromise
        <3> QED
            BY <2>2, <3>2, <3>4
    <2> QED
        BY <2>1, <2>2 DEF LayoutOK
<1> QED
    BY <1>1, <1>2, <1>3, PTL DEF Spec

--------------------------------------------------------------------------------
(* The beginnings of IPv4 addresses                                          *)

\* A digit or another character.
Char == 0 .. NoDigit

\* Three digits are the number that they are the digits of.
LEMMA ThreeDigits ==
    ASSUME NEW a \in 0 .. 9, NEW h \in 0 .. 9, NEW c \in 0 .. 9, NEW n \in Int,
           n = 100 * a + 10 * h + c
    PROVE  n \div 100 = a /\ (n \div 10) % 10 = h /\ n % 10 = c
<1> DEFINE q == n \div 10
           r == n % 10
           t == q \div 10
           u == q % 10
           v == n \div 100
           w == n % 100
<1>1. n = 10 * q + r /\ q \in Int /\ r \in 0 .. 9
    OBVIOUS
<1>2. n = 100 * v + w /\ v \in Int /\ w \in 0 .. 99
    OBVIOUS
<1> HIDE DEF q, r, v, w
<1>3. q = 10 * t + u /\ t \in Int /\ u \in 0 .. 9
    BY <1>1
<1> HIDE DEF t, u
<1>4. r = c /\ q = 10 * a + h
    BY <1>1
<1>5. u = h
    BY <1>3, <1>4
<1>6. v = a
    <2>1. w = 10 * h + c \/ v # a
        BY <1>2
    <2>2. 100 * (v - a) = 10 * h + c - w
        BY <1>2
    <2>3. v - a < 1 /\ v - a > -1
        BY <1>2, <2>2
    <2> QED
        BY <1>2, <2>3
<1> QED
    BY <1>4, <1>5, <1>6 DEF q, r, t, u, v

\* Two digits are, too.
LEMMA TwoDigits ==
    ASSUME NEW h \in 0 .. 9, NEW c \in 0 .. 9, NEW n \in Int, n = 10 * h + c
    PROVE  n \div 10 = h /\ n % 10 = c
<1> DEFINE q == n \div 10
           r == n % 10
<1>1. n = 10 * q + r /\ q \in Int /\ r \in 0 .. 9
    OBVIOUS
<1> HIDE DEF q, r
<1>2. r = c /\ q = h
    BY <1>1
<1> QED
    BY <1>2 DEF q, r

\* A sequence of one, two or three characters is the tuple of them.
LEMMA ShortPieces ==
    ASSUME NEW piece \in Seq(Char)
    PROVE  /\ Len(piece) = 1 => piece = <<piece[1]>>
           /\ Len(piece) = 2 => piece = <<piece[1], piece[2]>>
           /\ Len(piece) = 3 => piece = <<piece[1], piece[2], piece[3]>>
OBVIOUS

\* The decimal numbers, by their length.
IsDecimal(piece, n) ==
    piece = IF n < 10 THEN <<n>>
            ELSE IF n < 100 THEN <<n \div 10, n % 10>>
            ELSE <<n \div 100, (n \div 10) % 10, n % 10>>

\* Decimals, with IsDecimal.
LEMMA DecimalsByLength ==
    \A piece : piece \in Decimals <=> \E n \in 0 .. 255 : IsDecimal(piece, n)
BY DEF Decimals, IsDecimal

\* What is one of the numbers of an octet passes the test for one.
LEMMA DecimalIsOctet ==
    ASSUME NEW piece \in Decimals
    PROVE  InOctet(piece) /\ piece \in Seq(Char) /\ Len(piece) > 0
<1>1. PICK n \in 0 .. 255 : IsDecimal(piece, n)
    BY DecimalsByLength
<1>2. n \in Int /\ 0 <= n /\ n <= 255
    OBVIOUS
<1>3. CASE n < 10
    <2>1. piece = <<n>>
        BY <1>1, <1>3 DEF IsDecimal
    <2>2. n \in 0 .. 9
        BY <1>2, <1>3
    <2> QED
        BY <2>1, <2>2 DEF InOctet, Char, NoDigit
<1>4. CASE n >= 10 /\ n < 100
    <2> DEFINE h == n \div 10
               c == n % 10
    <2>1. piece = <<h, c>>
        BY <1>1, <1>2, <1>4 DEF IsDecimal
    <2>2. n = 10 * h + c /\ h \in Int /\ c \in 0 .. 9
        BY <1>2
    <2> HIDE DEF h, c
    <2>3. h \in 1 .. 9
        BY <1>2, <1>4, <2>2
    <2> QED
        BY <2>1, <2>2, <2>3 DEF InOctet, Char, NoDigit
<1>5. CASE n >= 100
    <2> DEFINE a == n \div 100
               q == n \div 10
               h == q % 10
               c == n % 10
               t == q \div 10
               w == n % 100
    <2>1. piece = <<a, h, c>>
        BY <1>1, <1>2, <1>5 DEF IsDecimal
    <2>2. n = 100 * a + w /\ a \in Int /\ w \in 0 .. 99
        BY <1>2
    <2>3. n = 10 * q + c /\ q \in Int /\ c \in 0 .. 9
        BY <1>2
    <2> HIDE DEF a, c, q, w
    <2>4. q = 10 * t + h /\ t \in Int /\ h \in 0 .. 9
        BY <2>3
    <2> HIDE DEF h, t
    <2>5. n = 100 * t + 10 * h + c
        BY <2>3, <2>4
    <2>6. t \in 1 .. 2
        BY <1>2, <1>5, <2>3, <2>4, <2>5
    <2>7. a \in 1 .. 2
        BY <1>2, <1>5, <2>2
    <2>8. a = t
        BY <2>2, <2>3, <2>4, <2>5, <2>6, <2>7
    <2>9. a < 2 \/ (a = 2 /\ h < 5) \/ (a = 2 /\ h = 5 /\ c <= 5)
        BY <1>2, <2>3, <2>4, <2>5, <2>7, <2>8
    <2> QED
        BY <2>1, <2>3, <2>4, <2>7, <2>9 DEF InOctet, Char, NoDigit
<1> QED
    BY <1>2, <1>3, <1>4, <1>5

\* What passes the test and is not empty is one of the numbers.
LEMMA OctetIsDecimal ==
    ASSUME NEW piece \in Seq(Char), InOctet(piece), piece # <<>>
    PROVE  piece \in Decimals
<1>1. Len(piece) \in 1 .. 3
    <2> DEFINE l == Len(piece)
    <2>1. l \in Nat /\ l # 0
        BY EmptySeq
    <2>2. l <= 3
        BY DEF InOctet
    <2> HIDE DEF l
    <2>3. l \in 1 .. 3
        BY <2>1, <2>2
    <2> QED
        BY <2>3 DEF l
<1>2. DOMAIN piece = 1 .. Len(piece)
    BY LenProperties
<1>3. \A i \in 1 .. Len(piece) : piece[i] \in 0 .. 9
    BY <1>2 DEF InOctet
<1>4. CASE Len(piece) = 1
    <2> DEFINE n == piece[1]
    <2>1. piece = <<n>>
        BY <1>4, ShortPieces
    <2>2. n \in 0 .. 9
        BY <1>3, <1>4
    <2> HIDE DEF n
    <2>3. IsDecimal(piece, n) /\ n \in 0 .. 255
        BY <2>1, <2>2 DEF IsDecimal
    <2> QED
        BY <2>3, DecimalsByLength
<1>5. CASE Len(piece) = 2
    <2> DEFINE h == piece[1]
               c == piece[2]
               n == 10 * h + c
    <2>1. piece = <<h, c>>
        BY <1>5, ShortPieces
    <2>2. h \in 0 .. 9 /\ c \in 0 .. 9
        BY <1>3, <1>5
    <2>3. h # 0
        BY <1>5 DEF InOctet
    <2> HIDE DEF h, c
    <2>4. n \in Int /\ n >= 10 /\ n < 100
        BY <2>2, <2>3
    <2>5. n \div 10 = h /\ n % 10 = c
        BY <2>2, <2>4, TwoDigits
    <2> HIDE DEF n
    <2>6. n \in 0 .. 255
        BY <2>4
    <2>7. IsDecimal(piece, n)
        BY <2>1, <2>4, <2>5 DEF IsDecimal
    <2> QED
        BY <2>6, <2>7, DecimalsByLength
<1>6. CASE Len(piece) = 3
    <2> DEFINE a == piece[1]
               h == piece[2]
               c == piece[3]
               n == 100 * a + 10 * h + c
    <2>1. piece = <<a, h, c>>
        BY <1>6, ShortPieces
    <2>2. a \in 0 .. 9 /\ h \in 0 .. 9 /\ c \in 0 .. 9
        BY <1>3, <1>6
    <2>3. a # 0 /\ (a < 2 \/ (a = 2 /\ h < 5) \/ (a = 2 /\ h = 5 /\ c <= 5))
        BY <1>6 DEF InOctet
    <2> HIDE DEF a, h, c
    <2>4. n \in Int /\ n >= 100 /\ n <= 255
        BY <2>2, <2>3
    <2>5. n \div 100 = a /\ (n \div 10) % 10 = h /\ n % 10 = c
        BY <2>2, <2>4, ThreeDigits
    <2> HIDE DEF n
    <2>6. n \in 0 .. 255
        BY <2>4
    <2>7. IsDecimal(piece, n)
        BY <2>1, <2>4, <2>5 DEF IsDecimal
    <2> QED
        BY <2>6, <2>7, DecimalsByLength
<1> QED
    BY <1>1, <1>4, <1>5, <1>6

\* The test accepts the beginnings of the numbers, and nothing else.
LEMMA OctetBegins ==
    ASSUME NEW piece \in Seq(Char)
    PROVE  InOctet(piece) <=> \E d \in Decimals : IsPrefix(piece, d)
<1>1. Len(piece) \in Nat /\ DOMAIN piece = 1 .. Len(piece)
    BY LenProperties
<1>2. ASSUME InOctet(piece), piece # <<>>
      PROVE  \E d \in Decimals : IsPrefix(piece, d)
    <2>1. piece \in Decimals
        BY <1>2, OctetIsDecimal
    <2>2. IsPrefix(piece, piece)
        BY <1>1 DEF IsPrefix
    <2> QED
        BY <2>1, <2>2
<1>3. ASSUME piece = <<>>
      PROVE  \E d \in Decimals : IsPrefix(piece, d)
    <2>1. 0 \in 0 .. 255 /\ IsDecimal(<<0>>, 0)
        BY DEF IsDecimal
    <2>2. <<0>> \in Decimals
        BY <2>1, DecimalsByLength
    <2>3. Len(<<>>) = 0 /\ Len(<<0>>) = 1
        OBVIOUS
    <2>4. SubSeq(<<>>, 1, 0) = <<>> /\ SubSeq(<<0>>, 1, 0) = <<>>
        BY SubSeqEmpty
    <2>5. IsPrefix(piece, <<0>>)
        BY <1>3, <2>3, <2>4 DEF IsPrefix
    <2> QED
        BY <2>2, <2>5
<1>4. ASSUME NEW d \in Decimals, IsPrefix(piece, d)
      PROVE  InOctet(piece)
    <2>1. InOctet(d) /\ d \in Seq(Char)
        BY DecimalIsOctet
    <2>2. Len(d) \in Nat /\ DOMAIN d = 1 .. Len(d) /\ Len(piece) <= Len(d)
        BY <1>4, <2>1, LenProperties DEF IsPrefix
    <2>3. \A i \in 1 .. Len(piece) : piece[i] = d[i]
        <3> TAKE i \in 1 .. Len(piece)
        <3>1. \A j \in 1 .. Len(piece) : piece[j] \in Char /\ d[j] \in Char
            BY <1>1, <2>1, <2>2, ElementOfSeq
        <3>2. /\ SubSeq(piece, 1, Len(piece))[i] = piece[1 + i - 1]
              /\ SubSeq(d, 1, Len(piece))[i] = d[1 + i - 1]
            BY <1>1, <3>1, SubSeqProperties
        <3>3. 1 + i - 1 = i
            OBVIOUS
        <3> QED
            BY <1>4, <3>2, <3>3 DEF IsPrefix
    <2>4. Len(piece) <= 3 /\ \A i \in DOMAIN piece : piece[i] \in 0 .. 9
        BY <1>1, <2>1, <2>2, <2>3 DEF InOctet
    <2>5. Len(piece) > 1 => piece[1] # 0
        BY <1>1, <2>1, <2>2, <2>3 DEF InOctet
    <2>6. Len(piece) = 3 => Len(d) = 3 /\ piece[1] = d[1] /\ piece[2] = d[2] /\ piece[3] = d[3]
        BY <1>1, <2>1, <2>2, <2>3 DEF InOctet
    <2> QED
        BY <2>1, <2>4, <2>5, <2>6 DEF InOctet
<1> QED
    BY <1>2, <1>3, <1>4

--------------------------------------------------------------------------------
(* Words                                                                     *)

\* What is between two colons, and a word: what strings.Split returns has an
\* element, even for no character.
Part == Seq(Seq(Char)) \ {<<>>}
Word == Seq(Part) \ {<<>>}

\* The parts of a word.
LEMMA PartsOfWord ==
    ASSUME NEW w \in Word
    PROVE  /\ w \in Seq(Part) /\ Len(w) \in Nat /\ Len(w) >= 1 /\ DOMAIN w = 1 .. Len(w)
           /\ \A i \in 1 .. Len(w) : /\ w[i] \in Part /\ w[i] \in Seq(Seq(Char))
                                     /\ Len(w[i]) \in Nat /\ Len(w[i]) >= 1
                                     /\ DOMAIN w[i] = 1 .. Len(w[i])
<1>1. w \in Seq(Part) /\ w # <<>>
    BY DEF Word
<1>2. Len(w) \in Nat \ {0} /\ DOMAIN w = 1 .. Len(w)
    BY <1>1, EmptySeq, LenProperties
<1>3. ASSUME NEW i \in 1 .. Len(w)
      PROVE  /\ w[i] \in Part /\ w[i] \in Seq(Seq(Char))
             /\ Len(w[i]) \in Nat /\ Len(w[i]) >= 1
             /\ DOMAIN w[i] = 1 .. Len(w[i])
    <2>1. w[i] \in Part
        BY <1>1, ElementOfSeq
    <2>2. w[i] \in Seq(Seq(Char)) /\ w[i] # <<>>
        BY <2>1 DEF Part
    <2>3. Len(w[i]) \in Nat \ {0} /\ DOMAIN w[i] = 1 .. Len(w[i])
        BY <2>2, EmptySeq, LenProperties
    <2> QED
        BY <2>1, <2>2, <2>3
<1> QED
    BY <1>1, <1>2, <1>3

\* isPrefixOfIPv4Address accepts the beginnings of IPv4 addresses, and nothing
\* else.
THEOREM IPv4Begins ==
    ASSUME NEW w \in Word
    PROVE  IsPrefixOfIPv4(w) <=> Begins4(w)
<1> DEFINE o == w[1]
<1>1. /\ o \in Seq(Seq(Char)) /\ Len(o) \in Nat /\ Len(o) >= 1 /\ DOMAIN o = 1 .. Len(o)
    BY PartsOfWord
<1>2. \A i \in 1 .. Len(o) : o[i] \in Seq(Char)
    BY <1>1, ElementOfSeq
<1>3. Len(o) \in 1 .. Len(o) /\ \A i \in 1 .. Len(o) - 1 : i \in 1 .. Len(o) /\ i # Len(o)
    BY <1>1
<1>4. ASSUME IsPrefixOfIPv4(w)
      PROVE  Begins4(w)
    <2>1. /\ Len(w) = 1 /\ Len(o) <= 4
          /\ \A i \in 1 .. Len(o) : (o[i] = <<>> => i = Len(o)) /\ InOctet(o[i])
        BY <1>1, <1>4 DEF IsPrefixOfIPv4
    <2>2. \A i \in 1 .. Len(o) - 1 : o[i] \in Decimals
        BY <1>2, <1>3, <2>1, OctetIsDecimal
    <2>3. \E d \in Decimals : IsPrefix(o[Len(o)], d)
        BY <1>2, <1>3, <2>1, OctetBegins
    <2> QED
        BY <2>1, <2>2, <2>3 DEF Begins4, Last
<1>5. ASSUME Begins4(w)
      PROVE  IsPrefixOfIPv4(w)
    <2>1. /\ Len(w) = 1 /\ Len(o) <= 4
          /\ \A i \in 1 .. Len(o) - 1 : o[i] \in Decimals
          /\ \E d \in Decimals : IsPrefix(o[Len(o)], d)
        BY <1>5 DEF Begins4, Last
    <2>2. ASSUME NEW i \in 1 .. Len(o), i # Len(o)
          PROVE  o[i] # <<>> /\ InOctet(o[i])
        <3>1. i \in 1 .. Len(o) - 1
            BY <1>1, <2>2
        <3>2. InOctet(o[i]) /\ Len(o[i]) > 0
            BY <2>1, <3>1, DecimalIsOctet
        <3>3. Len(<<>>) = 0
            OBVIOUS
        <3> QED
            BY <3>2, <3>3
    <2>3. InOctet(o[Len(o)])
        BY <1>2, <1>3, <2>1, OctetBegins
    <2>4. \A i \in DOMAIN o : (o[i] = <<>> => i = Len(o)) /\ InOctet(o[i])
        BY <1>1, <2>2, <2>3
    <2> QED
        BY <2>1, <2>4 DEF IsPrefixOfIPv4
<1> QED
    BY <1>4, <1>5

--------------------------------------------------------------------------------
(* The empty parts of a word                                                 *)

\* The empty parts of w that have a colon on both sides, and all of them.
Gaps(w) == {i \in 2 .. Len(w) - 1 : w[i] = Nothing}
Empties(w) == {i \in DOMAIN w : w[i] = Nothing}

\* They are finitely many.
LEMMA EmptiesAreFinite ==
    ASSUME NEW w \in Word
    PROVE  IsFiniteSet(Gaps(w)) /\ IsFiniteSet(Empties(w))
<1>1. Len(w) \in Nat /\ DOMAIN w = 1 .. Len(w)
    BY PartsOfWord
<1>2. IsFiniteSet(2 .. Len(w) - 1) /\ IsFiniteSet(1 .. Len(w))
    BY <1>1, FS_Interval
<1>3. Gaps(w) \in SUBSET (2 .. Len(w) - 1) /\ Empties(w) \in SUBSET (1 .. Len(w))
    BY <1>1 DEF Gaps, Empties
<1> QED
    BY <1>2, <1>3, FS_Subset

\* There is one, if and only if the set is a singleton; one at most, if and only
\* if there are no two.
LEMMA OneAtMost ==
    ASSUME NEW S, IsFiniteSet(S)
    PROVE  Cardinality(S) <= 1 <=> \A x \in S, y \in S : x = y
<1>1. Cardinality(S) \in Nat
    BY FS_CardinalityType
<1>2. ASSUME Cardinality(S) <= 1
      PROVE  \A x \in S, y \in S : x = y
    <2>1. Cardinality(S) = 0 \/ Cardinality(S) = 1
        BY <1>1, <1>2
    <2>2. S = {} \/ \E x : S = {x}
        BY <2>1, FS_EmptySet, FS_Singleton
    <2> QED
        BY <2>2
<1>3. ASSUME \A x \in S, y \in S : x = y
      PROVE  Cardinality(S) <= 1
    <2>1. CASE S = {}
        BY <2>1, FS_EmptySet
    <2>2. CASE S # {}
        <3>1. PICK x : x \in S
            BY <2>2
        <3>2. S = {x}
            BY <1>3, <3>1
        <3>3. Cardinality(S) = 1
            BY <3>2, FS_Singleton
        <3> QED
            BY <3>3
    <2> QED
        BY <2>1, <2>2
<1> QED
    BY <1>2, <1>3

\* Two different things are two.
LEMMA TwoThings ==
    ASSUME NEW S, NEW x \in S, NEW y \in S, x # y, \A z \in S : z = x \/ z = y
    PROVE  Cardinality(S) = 2
<1>1. IsFiniteSet({x}) /\ Cardinality({x}) = 1
    BY FS_Singleton
<1>2. Cardinality({x} \cup {y}) = 2
    BY <1>1, FS_AddElement
<1>3. {x} \cup {y} = S
    OBVIOUS
<1> QED
    BY <1>2, <1>3

\* What the tests count.
LEMMA CountsEmpties ==
    ASSUME NEW w \in Word
    PROVE  /\ DoubleColons(w) = Cardinality(Gaps(w))
           /\ IsPrefixOfIPv6(w) <=>
                 /\ Cardinality(Gaps(w)) <= 1
                 /\ IF IsMapped(w) THEN IsPrefixOfIPv4(SubSeq(w, 4, Len(w)))
                    ELSE /\ Len(w) > 8 => Cardinality(Gaps(w)) = 1 /\ Cardinality(Empties(w)) = 2
                         /\ Len(w) > 9 => Cardinality(Gaps(w)) = 1 /\ Cardinality(Empties(w)) = 1
                         /\ \A i \in DOMAIN w : InHextet(w[i])
BY DEF IsPrefixOfIPv6, DoubleColons, Gaps, Empties

\* After ::ffff: the test accepts the beginnings of IPv4 addresses, and nothing
\* else.
THEOREM MappedBegins ==
    ASSUME NEW w \in Word, IsMapped(w)
    PROVE  IsPrefixOfIPv6(w) <=> Begins4(SubSeq(w, 4, Len(w)))
<1> DEFINE rest == SubSeq(w, 4, Len(w))
<1>1. /\ w \in Seq(Part) /\ Len(w) \in Nat /\ Len(w) >= 4
      /\ \A i \in 1 .. Len(w) : w[i] \in Part
    BY PartsOfWord DEF IsMapped
<1>2. rest \in Seq(Part) /\ Len(rest) = Len(w) - 3
    <2>1. \A i \in 4 .. Len(w) : w[i] \in Part
        BY <1>1
    <2> QED
        BY <1>1, <2>1, SubSeqProperties
<1> HIDE DEF rest
<1>3. rest \in Word
    <2>1. rest # <<>>
        BY <1>1, <1>2
    <2> QED
        BY <1>2, <2>1 DEF Word
<1>4. IsPrefixOfIPv4(rest) <=> Begins4(rest)
    BY <1>3, IPv4Begins
<1>5. ASSUME Begins4(rest)
      PROVE  Cardinality(Gaps(w)) <= 1
    <2>1. Len(w) = 4
        <3>1. Len(rest) = 1
            BY <1>5 DEF Begins4
        <3> DEFINE l == Len(w)
                   k == Len(rest)
        <3>2. l \in Nat /\ k = l - 3 /\ k = 1
            BY <1>1, <1>2, <3>1
        <3> HIDE DEF l, k
        <3>3. l = 4
            BY <3>2
        <3> QED
            BY <3>3 DEF l
    <2>2. w[3] = ffff
        <3>1. SubSeq(w, 1, 3) = <<Nothing, Nothing, ffff>>
            BY DEF IsMapped
        <3>2. \A i \in 1 .. 3 : w[i] \in Part
            BY <2>1, <1>1
        <3>3. SubSeq(w, 1, 3)[3] = w[1 + 3 - 1]
            BY <3>2, SubSeqProperties
        <3>4. 1 + 3 - 1 = 3 /\ <<Nothing, Nothing, ffff>>[3] = ffff
            OBVIOUS
        <3> QED
            BY <3>1, <3>3, <3>4
    <2>3. ffff # Nothing
        <3>1. Len(ffff[1]) = 4 /\ Len(Nothing[1]) = 0
            BY DEF ffff, Nothing
        <3> QED
            BY <3>1
    <2>4. \A i \in 2 .. Len(w) - 1 : i = 2 \/ i = 3
        BY <2>1
    <2>5. \A x \in Gaps(w) : x = 2
        BY <2>2, <2>3, <2>4 DEF Gaps
    <2> QED
        BY <2>5, EmptiesAreFinite, OneAtMost
<1>6. IsPrefixOfIPv6(w) <=> Cardinality(Gaps(w)) <= 1 /\ IsPrefixOfIPv4(rest)
    BY CountsEmpties DEF rest
<1> QED
    BY <1>4, <1>5, <1>6 DEF rest

--------------------------------------------------------------------------------
(* The beginnings of IPv6 addresses                                          *)

\* An address with a double colon.
Shape(before, after) == Groups(before) \o <<TRUE>> \o Groups(after)

\* How many elements of a shape stand for n groups.
Width(n) == IF n = 0 THEN 1 ELSE n

\* Shapes, with Shape.
LEMMA ShapesAre ==
    \A s : s \in Shapes <=>
              \/ s = Groups(8)
              \/ \E before \in 0 .. 7 : \E after \in 0 .. 7 - before : s = Shape(before, after)
<1> DEFINE N == 0 .. 7
           M == [before \in N |-> 0 .. 7 - before]
<1>1. \A before \in N : M[before] = 0 .. 7 - before
    OBVIOUS
<1>2. N = 0 .. 7
    OBVIOUS
<1> HIDE DEF N, M
<1>3. Shapes = {Groups(8)} \cup
               UNION {{Shape(before, after) : after \in 0 .. 7 - before} : before \in N}
    BY <1>2, Zenon DEF Shapes, Shape
<1>4. {{Shape(before, after) : after \in 0 .. 7 - before} : before \in N}
         = {{Shape(before, after) : after \in M[before]} : before \in N}
    BY <1>1, Zenon
<1>5. Shapes = {Groups(8)} \cup
               UNION {{Shape(before, after) : after \in M[before]} : before \in N}
    BY <1>3, <1>4, Zenon
<1>6. \A s : s \in Shapes <=>
              \/ s = Groups(8)
              \/ \E before \in N : \E after \in M[before] : s = Shape(before, after)
    <2> DEFINE R == [before \in N |-> {Shape(before, after) : after \in M[before]}]
               g == Groups(8)
    <2>1. \A before \in N : \A s : s \in R[before] <=> \E after \in M[before] : s = Shape(before, after)
        OBVIOUS
    <2>2. {R[before] : before \in N} = {{Shape(before, after) : after \in M[before]} : before \in N}
        BY Zenon
    <2>3. Shapes = {g} \cup UNION {R[before] : before \in N}
        BY <1>5, <2>2
    <2> HIDE DEF R, g
    <2>4. \A s : s \in Shapes <=> s = g \/ \E before \in N : s \in R[before]
        BY <2>3
    <2>5. \A s : s \in Shapes <=>
              \/ s = g
              \/ \E before \in N : \E after \in M[before] : s = Shape(before, after)
        BY <2>1, <2>4
    <2> QED
        BY <2>5, Zenon DEF g
<1> QED
    BY <1>1, <1>2, <1>6, Zenon

\* Empty or not.
Flag == BOOLEAN

\* Groups are a sequence, in which only the one for no group is empty.
LEMMA GroupsAre ==
    ASSUME NEW n \in Nat
    PROVE  /\ Groups(n) \in Seq(Flag) /\ Len(Groups(n)) = Width(n)
           /\ \A i \in 1 .. Width(n) : Groups(n)[i] = (n = 0)
<1>1. CASE n = 0
    <2>1. Groups(n) = <<TRUE>> /\ Width(n) = 1
        BY <1>1 DEF Groups, Width
    <2>2. <<TRUE>> \in Seq(Flag) /\ Len(<<TRUE>>) = 1 /\ \A i \in 1 .. 1 : <<TRUE>>[i] = TRUE
        BY DEF Flag
    <2> QED
        BY <1>1, <2>1, <2>2
<1>2. CASE n # 0
    <2> DEFINE g == [i \in 1 .. n |-> FALSE]
    <2>1. Groups(n) = g /\ Width(n) = n
        BY <1>2 DEF Groups, Width
    <2>2. g \in Seq(Flag) /\ Len(g) = n /\ \A i \in 1 .. n : g[i] = FALSE
        BY DEF Flag
    <2> HIDE DEF g
    <2> QED
        BY <1>2, <2>1, <2>2
<1> QED
    BY <1>1, <1>2

\* Where a shape is empty: at the double colon, and at the end that it is at.
IsGap(before, after, i) ==
    \/ i = Width(before) + 1
    \/ i = 1 /\ before = 0
    \/ i = Width(before) + 2 /\ after = 0

\* A shape is as long as its sides and what is between them, and empty in its
\* gaps.
LEMMA ShapeIs ==
    ASSUME NEW before \in Nat, NEW after \in Nat
    PROVE  /\ Len(Shape(before, after)) = Width(before) + 1 + Width(after)
           /\ \A i \in 1 .. Width(before) + 1 + Width(after) :
                 Shape(before, after)[i] = IsGap(before, after, i)
<1> DEFINE h == Groups(before)
           a == Groups(after)
           m == <<TRUE>>
           B == Width(before)
           A == Width(after)
<1>1. /\ h \in Seq(Flag) /\ Len(h) = B /\ \A i \in 1 .. B : h[i] = (before = 0)
      /\ a \in Seq(Flag) /\ Len(a) = A /\ \A i \in 1 .. A : a[i] = (after = 0)
    BY GroupsAre
<1>2. m \in Seq(Flag) /\ Len(m) = 1 /\ m[1] = TRUE
    BY DEF Flag
<1>3. /\ B \in Nat /\ B >= 1 /\ (before = 0 => B = 1)
      /\ A \in Nat /\ A >= 1 /\ (after = 0 => A = 1)
    BY DEF Width
<1> HIDE DEF a, h, m, A, B
<1>4. /\ h \o m \in Seq(Flag) /\ Len(h \o m) = B + 1
      /\ \A i \in 1 .. B + 1 : (h \o m)[i] = IF i <= B THEN h[i] ELSE m[i - B]
    <2>1. /\ h \o m \in Seq(Flag) /\ Len(h \o m) = Len(h) + Len(m)
          /\ \A i \in 1 .. Len(h) + Len(m) :
                (h \o m)[i] = IF i <= Len(h) THEN h[i] ELSE m[i - Len(h)]
        <3>1. h \in Seq(Flag) /\ m \in Seq(Flag)
            BY <1>1, <1>2
        <3> QED
            BY ONLY <3>1, ConcatProperties
    <2> QED
        BY <1>1, <1>2, <2>1
<1> DEFINE f == h \o m
           s == f \o a
<1> HIDE DEF f
<1>5. /\ Len(s) = (B + 1) + A
      /\ \A i \in 1 .. (B + 1) + A : s[i] = IF i <= B + 1 THEN f[i] ELSE a[i - (B + 1)]
    <2>1. f \in Seq(Flag) /\ Len(f) = B + 1
        BY <1>4 DEF f
    <2>2. /\ Len(s) = Len(f) + Len(a)
          /\ \A i \in 1 .. Len(f) + Len(a) :
                s[i] = IF i <= Len(f) THEN f[i] ELSE a[i - Len(f)]
        BY <1>1, <2>1, ConcatProperties
    <2> QED
        BY <1>1, <2>1, <2>2
<1> HIDE DEF s
<1>6. ASSUME NEW i \in 1 .. B + 1 + A
      PROVE  s[i] = (i = B + 1 \/ (i = 1 /\ before = 0) \/ (i = B + 2 /\ after = 0))
    <2>1. CASE i <= B
        <3>1. s[i] = h[i] /\ h[i] = (before = 0)
            BY <1>1, <1>3, <1>4, <1>5, <2>1 DEF f
        <3>2. i # B + 1 /\ i # B + 2 /\ (before = 0 => i = 1)
            BY <1>3, <2>1
        <3> QED
            BY <3>1, <3>2
    <2>2. CASE i = B + 1
        <3>1. s[i] = m[i - B]
            <4>1. i \in 1 .. (B + 1) + A /\ i <= B + 1 /\ i \in 1 .. B + 1 /\ ~ (i <= B)
                BY <1>3, <2>2
            <4>2. s[i] = f[i]
                BY <1>5, <4>1
            <4>3. f[i] = m[i - B]
                BY <1>4, <4>1 DEF f
            <4> QED
                BY <4>2, <4>3
        <3>2. i - B = 1
            BY <1>3, <2>2
        <3> QED
            BY <1>2, <2>2, <3>1, <3>2
    <2>3. CASE i > B + 1
        <3>1. i - (B + 1) \in 1 .. A
            BY <1>3, <2>3
        <3>2. s[i] = a[i - (B + 1)]
            BY <1>3, <1>5, <2>3
        <3>3. s[i] = (after = 0)
            BY <1>1, <3>1, <3>2
        <3>4. i # B + 1 /\ i # 1 /\ (after = 0 => i = B + 2)
            BY <1>3, <2>3
        <3> QED
            BY <3>3, <3>4
    <2> QED
        BY <1>3, <2>1, <2>2, <2>3
<1>7. Len(s) = B + 1 + A
    BY <1>3, <1>5
<1>8. s = Shape(before, after)
    BY DEF s, f, h, m, a, Shape
<1> QED
    BY <1>6, <1>7, <1>8 DEF IsGap, A, B

\* The empty parts of w are where the shape of an address has them.  The last
\* part may yet become a group.
Fits(w, before, after) ==
    /\ Len(w) <= Width(before) + 1 + Width(after)
    /\ \A i \in 1 .. Len(w) - 1 : w[i] = Nothing <=> IsGap(before, after, i)
    /\ w[Len(w)] # Nothing => ~IsGap(before, after, Len(w))

\* The same for an address without a double colon.
FitsGroups(w) ==
    /\ Len(w) <= 8
    /\ \A i \in 1 .. Len(w) - 1 : w[i] # Nothing

\* What begins an IPv6 address fits one of its shapes.
LEMMA Begins6Fits ==
    ASSUME NEW w \in Word
    PROVE  Begins6(w) <=>
              /\ \A i \in DOMAIN w : InHextet(w[i])
              /\ \/ FitsGroups(w)
                 \/ \E before \in 0 .. 7 : \E after \in 0 .. 7 - before : Fits(w, before, after)
<1> DEFINE FitsShape(s) ==
               /\ Len(w) <= Len(s)
               /\ \A i \in 1 .. Len(w) - 1 : s[i] = (w[i] = Nothing)
               /\ w[Len(w)] # Nothing => ~s[Len(w)]
<1>1. Len(w) \in Nat /\ Len(w) >= 1
    BY PartsOfWord
<1>2. FitsShape(Groups(8)) <=> FitsGroups(w)
    <2>1. PICK n \in Nat : n = 8
        OBVIOUS
    <2> DEFINE g == Groups(n)
    <2>2. Len(g) = n /\ \A i \in 1 .. n : g[i] = FALSE
        <3>1. Width(n) = n /\ (n = 0) = FALSE
            BY <2>1 DEF Width
        <3> QED
            BY <3>1, GroupsAre
    <2> HIDE DEF g
    <2>3. Len(w) <= n => /\ Len(w) \in 1 .. n
                         /\ \A i \in 1 .. Len(w) - 1 : i \in 1 .. n
        BY <1>1
    <2>4. FitsShape(g) <=> Len(w) <= n /\ \A i \in 1 .. Len(w) - 1 : w[i] # Nothing
        BY <2>2, <2>3
    <2> QED
        BY <2>1, <2>4, Zenon DEF g, FitsGroups
<1>3. ASSUME NEW before \in 0 .. 7, NEW after \in 0 .. 7 - before
      PROVE  FitsShape(Shape(before, after)) <=> Fits(w, before, after)
    <2> DEFINE s == Shape(before, after)
               l == Width(before) + 1 + Width(after)
    <2>1. before \in Nat /\ after \in Nat
        OBVIOUS
    <2>2. Len(s) = l /\ \A i \in 1 .. l : s[i] = IsGap(before, after, i)
        BY <2>1, ShapeIs
    <2>3. l \in Nat
        BY <2>1 DEF Width
    <2> HIDE DEF s, l
    <2>4. Len(w) <= l => /\ Len(w) \in 1 .. l
                         /\ \A i \in 1 .. Len(w) - 1 : i \in 1 .. l
        BY <1>1, <2>3
    <2>5. FitsShape(s) <=>
             /\ Len(w) <= l
             /\ \A i \in 1 .. Len(w) - 1 : w[i] = Nothing <=> IsGap(before, after, i)
             /\ w[Len(w)] # Nothing => ~IsGap(before, after, Len(w))
        <3>1. ASSUME NEW i \in 1 .. l
              PROVE  /\ (s[i] = (w[i] = Nothing)) <=> (w[i] = Nothing <=> IsGap(before, after, i))
                     /\ s[i] <=> IsGap(before, after, i)
            <4>1. s[i] = IsGap(before, after, i)
                BY <2>2
            <4>2. IsGap(before, after, i) \in BOOLEAN
                BY Zenon DEF IsGap
            <4> QED
                BY <4>1, <4>2, Zenon
        <3>2. CASE ~ (Len(w) <= l)
            BY <2>2, <3>2
        <3>3. CASE Len(w) <= l
            <4>1. /\ Len(w) <= Len(s)
                  /\ s[Len(w)] <=> IsGap(before, after, Len(w))
                  /\ \A i \in 1 .. Len(w) - 1 :
                        (s[i] = (w[i] = Nothing)) <=> (w[i] = Nothing <=> IsGap(before, after, i))
                BY <2>2, <2>4, <3>1, <3>3
            <4> QED
                BY <3>3, <4>1, Zenon
        <3> QED
            BY <3>2, <3>3
    <2> QED
        BY <2>5 DEF s, l, Fits
<1>4. Begins6(w) <=> (\A i \in DOMAIN w : InHextet(w[i])) /\ \E s \in Shapes : FitsShape(s)
    BY DEF Begins6, Last
<1> HIDE DEF FitsShape
<1>5. (\E s \in Shapes : FitsShape(s)) <=>
         \/ FitsShape(Groups(8))
         \/ \E before \in 0 .. 7 : \E after \in 0 .. 7 - before : FitsShape(Shape(before, after))
    <2>1. ASSUME NEW s \in Shapes, FitsShape(s)
          PROVE  \/ FitsShape(Groups(8))
                 \/ \E before \in 0 .. 7 : \E after \in 0 .. 7 - before :
                       FitsShape(Shape(before, after))
        <3>1. \/ s = Groups(8)
              \/ \E before \in 0 .. 7 : \E after \in 0 .. 7 - before : s = Shape(before, after)
            BY ShapesAre
        <3> QED
            BY <2>1, <3>1, Zenon
    <2>2. Groups(8) \in Shapes
        BY ShapesAre
    <2>3. ASSUME NEW before \in 0 .. 7, NEW after \in 0 .. 7 - before
          PROVE  Shape(before, after) \in Shapes
        BY ShapesAre
    <2> QED
        BY <2>1, <2>2, <2>3, Zenon
<1>6. (\E before \in 0 .. 7 : \E after \in 0 .. 7 - before : FitsShape(Shape(before, after)))
         <=> \E before \in 0 .. 7 : \E after \in 0 .. 7 - before : Fits(w, before, after)
    BY <1>3, Zenon
<1> QED
    BY <1>2, <1>4, <1>5, <1>6, Zenon

\* How long a shape is.
LEMMA ShapeBounds ==
    ASSUME NEW before \in 0 .. 7, NEW after \in 0 .. 7 - before
    PROVE  /\ Width(before) \in 1 .. 7 /\ Width(after) \in 1 .. 7
           /\ Width(before) + 1 + Width(after) <= 9
           /\ Width(before) + 1 + Width(after) = 9 =>
                 (before = 0 /\ after = 7) \/ (before = 7 /\ after = 0)
<1>1. before \in Nat /\ after \in Nat /\ before + after <= 7
    OBVIOUS
<1>2. CASE before = 0 /\ after = 0
    BY <1>2 DEF Width
<1>3. CASE before = 0 /\ after # 0
    BY <1>1, <1>3 DEF Width
<1>4. CASE before # 0 /\ after = 0
    BY <1>1, <1>4 DEF Width
<1>5. CASE before # 0 /\ after # 0
    BY <1>1, <1>5 DEF Width
<1> QED
    BY <1>2, <1>3, <1>4, <1>5

\* A word that fits a shape has one double colon at most.
LEMMA FitsOneGap ==
    ASSUME NEW w \in Word, NEW before \in 0 .. 7, NEW after \in 0 .. 7 - before,
           Fits(w, before, after)
    PROVE  Cardinality(Gaps(w)) <= 1
<1> DEFINE L == Len(w)
           B == Width(before)
           A == Width(after)
<1>1. L \in Nat /\ L <= B + 1 + A
    BY PartsOfWord DEF Fits
<1>2. B \in 1 .. 7 /\ A \in 1 .. 7 /\ (after = 0 => A = 1)
    BY ShapeBounds DEF Width
<1>3. \A i \in 1 .. L - 1 : w[i] = Nothing <=>
         (i = B + 1 \/ (i = 1 /\ before = 0) \/ (i = B + 2 /\ after = 0))
    BY DEF Fits, IsGap
<1>4. \A i \in Gaps(w) : i \in 2 .. L - 1 /\ w[i] = Nothing
    BY DEF Gaps
<1> HIDE DEF L, B, A
<1>5. ASSUME NEW i \in Gaps(w)
      PROVE  i = B + 1
    <2>1. i \in 2 .. L - 1 /\ w[i] = Nothing
        BY <1>4
    <2>2. i \in 1 .. L - 1 /\ i # 1
        BY <1>1, <2>1
    <2>3. i = B + 1 \/ (i = B + 2 /\ after = 0)
        BY <1>3, <2>1, <2>2
    <2>4. ~ (i = B + 2 /\ after = 0)
        BY <1>1, <1>2, <2>1
    <2> QED
        BY <2>3, <2>4
<1>6. \A x \in Gaps(w), y \in Gaps(w) : x = y
    BY <1>5
<1> QED
    BY <1>6, EmptiesAreFinite, OneAtMost

\* The empty parts of a word of nine parts that fits a shape: a double colon at
\* its end, or one at its beginning.
LEMMA NineParts ==
    ASSUME NEW w \in Word, NEW before \in 0 .. 7, NEW after \in 0 .. 7 - before,
           Fits(w, before, after), Len(w) > 8, ~ (w[Len(w)] = Nothing /\ w[1] = Nothing)
    PROVE  Len(w) = 9 /\ Cardinality(Gaps(w)) = 1 /\ Cardinality(Empties(w)) = 2
<1> DEFINE L == Len(w)
           B == Width(before)
           A == Width(after)
<1>1. L \in Nat /\ L > 8 /\ L <= B + 1 + A
    BY PartsOfWord DEF Fits
<1>2. B \in 1 .. 7 /\ A \in 1 .. 7
    BY ShapeBounds
<1>3. B + 1 + A <= 9
    BY ShapeBounds
<1>4. B + 1 + A = 9 => (before = 0 /\ after = 7) \/ (before = 7 /\ after = 0)
    BY ShapeBounds
<1>5. /\ \A i \in 1 .. L - 1 : w[i] = Nothing <=> IsGap(before, after, i)
      /\ w[L] # Nothing => ~IsGap(before, after, L)
    BY DEF Fits
<1>6. Gaps(w) = {i \in 2 .. L - 1 : w[i] = Nothing} /\ Empties(w) = {i \in 1 .. L : w[i] = Nothing}
    BY PartsOfWord DEF Gaps, Empties
<1>7. ~ (w[L] = Nothing /\ w[1] = Nothing)
    OBVIOUS
<1> HIDE DEF L
<1>8. L = 9 /\ B + 1 + A = 9
    <2> HIDE DEF A, B
    <2> QED
        BY <1>1, <1>2, <1>3
<1>9. CASE before = 0 /\ after = 7
    <2>1. \A i \in 1 .. 9 : IsGap(before, after, i) <=> i = 1 \/ i = 2
        BY <1>9 DEF IsGap, Width
    <2>2. \A i \in 1 .. 8 : w[i] = Nothing <=> i = 1 \/ i = 2
        BY <1>5, <1>8, <2>1
    <2>3. w[9] # Nothing
        BY <1>7, <1>8, <2>2
    <2>4. Gaps(w) = {2}
        BY <1>6, <1>8, <2>2
    <2>5. Empties(w) = {1, 2}
        BY <1>6, <1>8, <2>2, <2>3
    <2>6. Cardinality(Gaps(w)) = 1
        BY <2>4, FS_Singleton
    <2>7. 1 \in Empties(w) /\ 2 \in Empties(w) /\ 1 # 2
          /\ \A z \in Empties(w) : z = 1 \/ z = 2
        BY <2>5
    <2>8. Cardinality(Empties(w)) = 2
        BY <2>7, TwoThings
    <2>9. Len(w) = 9
        BY <1>8, Zenon DEF L
    <2> QED
        BY <2>6, <2>8, <2>9, Zenon
<1>10. CASE before = 7 /\ after = 0
    <2>1. \A i \in 1 .. 9 : IsGap(before, after, i) <=> i = 8 \/ i = 9
        BY <1>10 DEF IsGap, Width
    <2>2. \A i \in 1 .. 8 : w[i] = Nothing <=> i = 8
        BY <1>5, <1>8, <2>1
    <2>3. w[9] = Nothing
        BY <1>5, <1>8, <2>1
    <2>4. Gaps(w) = {8}
        BY <1>6, <1>8, <2>2
    <2>5. Empties(w) = {8, 9}
        BY <1>6, <1>8, <2>2, <2>3
    <2>6. Cardinality(Gaps(w)) = 1
        BY <2>4, FS_Singleton
    <2>7. 8 \in Empties(w) /\ 9 \in Empties(w) /\ 8 # 9
          /\ \A z \in Empties(w) : z = 8 \/ z = 9
        BY <2>5
    <2>8. Cardinality(Empties(w)) = 2
        BY <2>7, TwoThings
    <2>9. Len(w) = 9
        BY <1>8, Zenon DEF L
    <2> QED
        BY <2>6, <2>8, <2>9, Zenon
<1> QED
    BY <1>4, <1>8, <1>9, <1>10

\* The last part of nine is empty.
EndsInColon(w) == Len(w) = 9 /\ Last(w) = Nothing

\* isPrefixOfIPv6Address accepts every beginning of an IPv6 address, unless it
\* begins with :: and ends in the colon before the last group.
THEOREM IPv6BeginsAreAccepted ==
    ASSUME NEW w \in Word, Begins6(w), ~IsMapped(w), ~ (EndsInColon(w) /\ w[1] = Nothing)
    PROVE  IsPrefixOfIPv6(w)
<1>1. Len(w) \in Nat /\ \A i \in DOMAIN w : InHextet(w[i])
    BY PartsOfWord, Begins6Fits
<1>2. SUFFICES /\ Cardinality(Gaps(w)) <= 1
               /\ Len(w) > 8 => /\ ~ (Len(w) > 9)
                                /\ Cardinality(Gaps(w)) = 1 /\ Cardinality(Empties(w)) = 2
    BY <1>1, CountsEmpties
<1>3. CASE FitsGroups(w)
    <2>1. Gaps(w) = {}
        BY <1>1, <1>3 DEF FitsGroups, Gaps
    <2>2. Cardinality(Gaps(w)) = 0
        BY <2>1, FS_EmptySet
    <2>3. ~ (Len(w) > 8)
        BY <1>1, <1>3 DEF FitsGroups
    <2> QED
        BY <2>2, <2>3
<1>4. ASSUME NEW before \in 0 .. 7, NEW after \in 0 .. 7 - before, Fits(w, before, after)
      PROVE  /\ Cardinality(Gaps(w)) <= 1
             /\ Len(w) > 8 => /\ ~ (Len(w) > 9)
                              /\ Cardinality(Gaps(w)) = 1 /\ Cardinality(Empties(w)) = 2
    <2>1. Cardinality(Gaps(w)) <= 1
        BY <1>4, FitsOneGap
    <2>2. ASSUME Len(w) > 8
          PROVE  ~ (Len(w) > 9) /\ Cardinality(Gaps(w)) = 1 /\ Cardinality(Empties(w)) = 2
        <3>1. CASE w[Len(w)] = Nothing /\ w[1] = Nothing
            <4>1. Len(w) # 9
                BY <3>1 DEF EndsInColon, Last
            <4>2. Len(w) <= 9
                <5> DEFINE l == Width(before) + 1 + Width(after)
                <5>1. Len(w) <= l
                    BY <1>4 DEF Fits
                <5>2. l <= 9
                    BY ShapeBounds
                <5>3. l \in Int
                    BY ShapeBounds
                <5> HIDE DEF l
                <5> QED
                    BY <1>1, <5>1, <5>2, <5>3
            <4> DEFINE n == Len(w)
            <4>3. n \in Nat /\ n > 8 /\ n # 9 /\ n <= 9
                BY <1>1, <2>2, <4>1, <4>2
            <4> HIDE DEF n
            <4> QED
                BY <4>3
        <3>2. CASE ~ (w[Len(w)] = Nothing /\ w[1] = Nothing)
            <4>1. Len(w) = 9 /\ Cardinality(Gaps(w)) = 1 /\ Cardinality(Empties(w)) = 2
                BY <1>4, <2>2, <3>2, NineParts
            <4>2. ~ (9 > 9)
                OBVIOUS
            <4>3. ~ (Len(w) > 9)
                BY <4>1, <4>2, Zenon
            <4> QED
                BY <4>1, <4>3, Zenon
        <3> QED
            BY <3>1, <3>2
    <2> QED
        BY <2>1, <2>2
<1>5. \/ FitsGroups(w)
      \/ \E before \in 0 .. 7 : \E after \in 0 .. 7 - before : Fits(w, before, after)
    BY Begins6Fits
<1> QED
    BY <1>3, <1>4, <1>5

\* Where the empty parts of an accepted word are.
LEMMA AcceptedParts ==
    ASSUME NEW w \in Word, IsPrefixOfIPv6(w), ~IsMapped(w)
    PROVE  /\ Len(w) <= 9
           /\ \A x \in Gaps(w), y \in Gaps(w) : x = y
           /\ Len(w) > 8 => Gaps(w) # {} /\ Cardinality(Empties(w)) = 2
           /\ \A i \in DOMAIN w : InHextet(w[i])
<1> DEFINE L == Len(w)
           G == Cardinality(Gaps(w))
           E == Cardinality(Empties(w))
<1>1. /\ G <= 1 /\ (L > 8 => G = 1 /\ E = 2) /\ (L > 9 => G = 1 /\ E = 1)
      /\ \A i \in DOMAIN w : InHextet(w[i])
    BY CountsEmpties
<1>2. L \in Nat /\ G \in Nat
    BY PartsOfWord, EmptiesAreFinite, FS_CardinalityType
<1>3. \A x \in Gaps(w), y \in Gaps(w) : x = y
    BY <1>1, EmptiesAreFinite, OneAtMost
<1>4. G = 1 => Gaps(w) # {}
    BY EmptiesAreFinite, FS_EmptySet
<1> HIDE DEF L, G, E
<1>5. L <= 9
    BY <1>1, <1>2
<1> QED
    BY <1>1, <1>3, <1>4, <1>5 DEF L, G, E

\* What it wrongly accepts begins with one colon, or ends in a colon after eight
\* groups.
THEOREM AcceptedIsIPv6 ==
    ASSUME NEW w \in Word, IsPrefixOfIPv6(w), ~IsMapped(w), ~EndsInColon(w),
           ~ (Len(w) > 1 /\ w[1] = Nothing /\ w[2] # Nothing)
    PROVE  Begins6(w)
<1> DEFINE L == Len(w)
<1>1. /\ L \in Nat /\ L >= 1 /\ L <= 9
      /\ Gaps(w) = {i \in 2 .. L - 1 : w[i] = Nothing}
      /\ \A x \in Gaps(w), y \in Gaps(w) : x = y
      /\ \A i \in DOMAIN w : InHextet(w[i])
    BY PartsOfWord, AcceptedParts DEF Gaps
<1>2. L > 8 => Gaps(w) # {} /\ Cardinality(Empties(w)) = 2
    BY AcceptedParts
<1>3. Empties(w) = {i \in 1 .. L : w[i] = Nothing}
    BY PartsOfWord DEF Empties
<1>4. SUFFICES \/ FitsGroups(w)
               \/ \E before \in 0 .. 7 : \E after \in 0 .. 7 - before : Fits(w, before, after)
    BY <1>1, Begins6Fits
<1>5. L > 1 /\ w[1] = Nothing => w[2] = Nothing
    OBVIOUS
<1>6. L = 9 => w[9] # Nothing
    BY DEF EndsInColon, Last
<1> HIDE DEF L
<1>7. ASSUME L > 1, w[1] = Nothing
      PROVE  \E before \in 0 .. 7 : \E after \in 0 .. 7 - before : Fits(w, before, after)
    <2>1. \A i \in 1 .. 9 : IsGap(0, 7, i) <=> i = 1 \/ i = 2
        BY DEF IsGap, Width
    <2>2. Width(0) + 1 + Width(7) = 9
        BY DEF Width
    <2>3. \A i \in 1 .. L - 1 : i \in 1 .. 9 /\ (i = 1 \/ i = 2 \/ i \in 3 .. L - 1)
        BY <1>1
    <2>4. \A i \in 3 .. L - 1 : w[i] # Nothing /\ i # 1 /\ i # 2
        <3> SUFFICES ASSUME NEW i \in 3 .. L - 1, w[i] = Nothing
                     PROVE  FALSE
            BY <1>1
        <3>1. i \in 2 .. L - 1 /\ 2 \in 2 .. L - 1 /\ i # 2
            BY <1>1
        <3>2. i \in Gaps(w) /\ 2 \in Gaps(w)
            BY <1>1, <1>5, <1>7, <3>1
        <3> QED
            BY <1>1, <3>1, <3>2
    <2>5. \A i \in 1 .. L - 1 : w[i] = Nothing <=> IsGap(0, 7, i)
        BY <1>5, <1>7, <2>1, <2>3, <2>4
    <2>6. w[L] # Nothing => ~IsGap(0, 7, L)
        <3>1. L \in 1 .. 9 /\ L # 1
            BY <1>1, <1>7
        <3>2. CASE L = 2
            BY <1>5, <1>7, <3>2
        <3>3. CASE L # 2
            BY <2>1, <3>1, <3>3
        <3> QED
            BY <3>2, <3>3
    <2>7. Fits(w, 0, 7)
        BY <1>1, <2>2, <2>5, <2>6 DEF Fits, L
    <2>8. 0 \in 0 .. 7 /\ 7 \in 0 .. 7 - 0
        OBVIOUS
    <2> QED
        BY <2>7, <2>8
<1>8. CASE Gaps(w) = {} /\ ~ (L > 1 /\ w[1] = Nothing)
    <2>1. L <= 8
        BY <1>1, <1>2, <1>8
    <2>2. \A i \in 1 .. L - 1 : w[i] # Nothing
        <3> TAKE i \in 1 .. L - 1
        <3>1. CASE i = 1
            BY <1>1, <1>8, <3>1
        <3>2. CASE i # 1
            <4>1. i \in 2 .. L - 1
                BY <1>1, <3>2
            <4> QED
                BY <1>1, <1>8, <4>1
        <3> QED
            BY <3>1, <3>2
    <2> QED
        BY <2>1, <2>2 DEF FitsGroups, L
<1>9. ASSUME NEW g \in Gaps(w), ~ (L > 1 /\ w[1] = Nothing)
      PROVE  \E before \in 0 .. 7 : \E after \in 0 .. 7 - before : Fits(w, before, after)
    <2>1. g \in 2 .. L - 1 /\ w[g] = Nothing
        BY <1>1
    <2>2. \A i \in 1 .. L - 1 : w[i] = Nothing <=> i = g
        <3> SUFFICES ASSUME NEW i \in 1 .. L - 1
                     PROVE  w[i] = Nothing => i = g
            BY <2>1
        <3>1. CASE i = 1
            BY <1>1, <1>9, <3>1
        <3>2. CASE i # 1
            <4>1. i \in 2 .. L - 1
                BY <1>1, <3>2
            <4> QED
                BY <1>1, <4>1
        <3> QED
            BY <3>1, <3>2
    <2>3. L <= 8
        <3> SUFFICES ASSUME ~ (L <= 8)
                     PROVE  FALSE
            OBVIOUS
        <3>1. L = 9
            BY <1>1
        <3>2. \A i \in Empties(w) : i = g
            <4> TAKE i \in Empties(w)
            <4>1. i \in 1 .. 9 /\ w[i] = Nothing
                BY <1>3, <3>1
            <4>2. i # 9
                BY <1>6, <3>1, <4>1
            <4>3. i \in 1 .. L - 1
                BY <3>1, <4>1, <4>2
            <4> QED
                BY <2>2, <4>1, <4>3
        <3>3. Cardinality(Empties(w)) <= 1
            BY <3>2, EmptiesAreFinite, OneAtMost
        <3>4. Cardinality(Empties(w)) = 2
            BY <1>2, <3>1
        <3> QED
            BY <3>3, <3>4
    <2> DEFINE h == g - 1
               a == 8 - g
    <2>4. g \in Int /\ 2 <= g /\ g <= 7
        BY <1>1, <2>1, <2>3
    <2>5. h \in 0 .. 7 /\ a \in 0 .. 7 - h /\ h # 0 /\ a # 0
        BY <2>4
    <2>6. Width(h) = h /\ Width(a) = a
        BY <2>5 DEF Width
    <2>7. Width(h) + 1 + Width(a) = 8
        BY <2>4, <2>6
    <2>8. \A i : IsGap(h, a, i) <=> i = g
        BY <2>4, <2>5, <2>6 DEF IsGap
    <2>9. g # L
        BY <1>1, <2>1
    <2>10. Fits(w, h, a)
        BY <2>2, <2>3, <2>7, <2>8, <2>9 DEF Fits, L
    <2> HIDE DEF h, a
    <2> QED
        BY <2>5, <2>10
<1> QED
    BY <1>7, <1>8, <1>9

--------------------------------------------------------------------------------
(* A word as it is typed                                                     *)

\* Append gives a sequence that is not empty.
LEMMA AppendGrows ==
    ASSUME NEW S, NEW s \in Seq(S), NEW p \in S
    PROVE  Append(s, p) \in Seq(S) /\ Append(s, p) # <<>>
<1>1. Append(s, p) \in Seq(S)
    OBVIOUS
<1>2. Len(Append(s, p)) = Len(s) + 1 /\ Len(s) \in Nat
    OBVIOUS
<1>3. Append(s, p) = <<>> => Len(Append(s, p)) = 0
    OBVIOUS
<1>4. Append(s, p) # <<>>
    BY <1>2, <1>3
<1> QED
    BY <1>1, <1>4

\* A part that grows is a part.
LEMMA TypedParts ==
    ASSUME NEW part \in Part
    PROVE  /\ Append(part, <<>>) \in Part /\ Nothing \in Part
           /\ \A c \in Char : Append(Front(part), Append(Last(part), c)) \in Part
<1>1. part \in Seq(Seq(Char)) /\ part # <<>>
    BY DEF Part
<1>2. Len(part) \in Nat \ {0}
    BY <1>1, EmptySeq
<1>3. Front(part) \in Seq(Seq(Char))
    <2>1. \A i \in 1 .. Len(part) - 1 : part[i] \in Seq(Char)
        BY <1>1, <1>2, ElementOfSeq
    <2> QED
        BY <1>2, <2>1, SubSeqProperties DEF Front
<1>4. Last(part) \in Seq(Char)
    BY <1>1, <1>2, ElementOfSeq DEF Last
<1>5. <<>> \in Seq(Char)
    OBVIOUS
<1>6. \A s \in Seq(Seq(Char)), p \in Seq(Char) : Append(s, p) \in Seq(Seq(Char)) /\ Append(s, p) # <<>>
    BY AppendGrows
<1>7. \A p \in Seq(Char), c \in Char : Append(p, c) \in Seq(Char)
    OBVIOUS
<1>8. Nothing \in Seq(Seq(Char)) /\ Nothing # <<>>
    BY <1>5 DEF Nothing
<1>9. ASSUME NEW c \in Char
      PROVE  Append(Front(part), Append(Last(part), c)) \in Part
    BY <1>3, <1>4, <1>6, <1>7 DEF Part
<1> QED
    BY <1>1, <1>5, <1>6, <1>8, <1>9 DEF Part

\* A word that grows is a word.
LEMMA TypedWords ==
    ASSUME NEW w \in Word, NEW v \in Typed(w)
    PROVE  v \in Word
<1> DEFINE part == Last(w)
<1>1. w \in Seq(Part) /\ Len(w) \in Nat /\ Len(w) >= 1
    BY PartsOfWord
<1>2. part \in Part
    BY <1>1, PartsOfWord DEF Last
<1>3. Front(w) \in Seq(Part)
    <2>1. \A i \in 1 .. Len(w) - 1 : w[i] \in Part
        BY <1>1, PartsOfWord
    <2> QED
        BY <1>1, <2>1, SubSeqProperties DEF Front
<1>4. \A s \in Seq(Part), p \in Part : Append(s, p) \in Seq(Part) /\ Append(s, p) # <<>>
    BY AppendGrows
<1>5. /\ Append(part, <<>>) \in Part /\ Nothing \in Part
      /\ \A c \in Char : Append(Front(part), Append(Last(part), c)) \in Part
    BY <1>2, TypedParts
<1>6. \/ \E c \in Char : v = Append(Front(w), Append(Front(part), Append(Last(part), c)))
      \/ v = Append(Front(w), Append(part, <<>>))
      \/ v = Append(w, Nothing)
    BY DEF Typed, Char
<1> HIDE DEF part
<1>7. \E s \in Seq(Part), p \in Part : v = Append(s, p)
    BY <1>1, <1>3, <1>5, <1>6
<1> QED
    BY <1>4, <1>7 DEF Word

\* AddressIsFollowed, of any word.
LEMMA AnyWordIsFollowed ==
    ASSUME word \in Word
    PROVE  AddressIsFollowed
<1>1. IsPrefixOfIPv4(word) <=> Begins4(word)
    BY IPv4Begins
<1>2. IsMapped(word) => (IsPrefixOfIPv6(word) <=> Begins4(SubSeq(word, 4, Len(word))))
    BY MappedBegins
<1>3. Begins6(word) /\ ~IsMapped(word) =>
         IsPrefixOfIPv6(word) \/ (EndsInColon(word) /\ word[1] = Nothing)
    BY IPv6BeginsAreAccepted
<1>4. IsPrefixOfIPv6(word) /\ ~IsMapped(word) =>
         \/ Begins6(word)
         \/ EndsInColon(word)
         \/ Len(word) > 1 /\ word[1] = Nothing /\ word[2] # Nothing
    BY AcceptedIsIPv6
<1> QED
    BY <1>1, <1>2, <1>3, <1>4, Zenon DEF AddressIsFollowed, EndsInColon

\* AddressIsFollowed, whatever is typed: for words of any length, of which any
\* part may be anything.
THEOREM AddressesAreFollowed == AddressSpec => []AddressIsFollowed
<1>1. AddressInit => word \in Word
    <2>1. Nothing \in Part
        <3>1. <<>> \in Seq(Char)
            OBVIOUS
        <3>2. Nothing \in Seq(Seq(Char)) /\ Nothing # <<>>
            BY <3>1 DEF Nothing
        <3> QED
            BY <3>2 DEF Part
    <2>2. <<Nothing>> \in Seq(Part) /\ <<Nothing>> # <<>>
        BY <2>1
    <2> QED
        BY <2>2 DEF AddressInit, Word
<1>2. word \in Word /\ [TypeKey]_word => (word \in Word)'
    BY TypedWords DEF TypeKey
<1>3. word \in Word => AddressIsFollowed
    BY AnyWordIsFollowed
<1> QED
    BY <1>1, <1>2, <1>3, PTL DEF AddressSpec

=================================================================================
