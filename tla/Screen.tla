--------------------------------- MODULE Screen ---------------------------------
(***************************************************************************)
(* What the client puts on the screen: wrap (chatterc/cli.go), which lays  *)
(* out the words that complete a line, and the pager (chatterc/pager.go),  *)
(* through which a command writes its output.                              *)
(*                                                                         *)
(* Text is a sequence of characters, of which only the newline is special. *)
(* The words that wrap lays out are known by their number, and only their  *)
(* lengths count.  The size of the screen is asked for at every Write, so  *)
(* it may change, and asking may fail.  A key is whatever ReadByte may     *)
(* return; the two bytes that follow an escape may come one at a time, or  *)
(* be keys of their own.                                                   *)
(***************************************************************************)
EXTENDS Integers, Sequences, SequencesExt, FiniteSetsExt

CONSTANTS Chunks,    \* what a command may write at once
          Heights,   \* the heights a screen may have
          Widths,    \* the widths it may have
          Words,     \* the words wrap may be given, as sequences of lengths
          MaxText    \* bound: characters that one command writes

ASSUME SizesAssumption == Heights \subseteq Nat /\ Widths \subseteq Nat
ASSUME ChunksAssumption == Chunks \subseteq Seq({"x", "\n"})
ASSUME WordsAssumption == Words \subseteq Seq(Nat)
ASSUME MaxTextAssumption == MaxText \in Nat

Unknown == -1        \* GetSize failed
More == "--More--"
Keys == {"q", " ", "\r", "j", "G", "esc", "other"}
EscapeBytes == {"[", "B", "other"}

VARIABLES
    pc,          \* "prompt": ReadLine; "idle": between Writes; the rest is in Write
    layout,      \* what wrap made of the completions it was given last
    screen,      \* the command's output on the screen, with the pager's prompt
    buf,         \* p.buf
    shouldPage,  \* p.shouldPage
    line,        \* p.line
    stopped,     \* p.stopped
    height,      \* of the Write in progress
    b,           \* what it writes
    written,     \* how many characters it has written
    ret,         \* what the last Write returned
    sent,        \* history: what the command has written
    fresh,       \* history: lines shown since the user last asked for more
    failed       \* history: a read or a write of the terminal has failed

pagerVars == <<buf, shouldPage, line, stopped>>
writeVars == <<height, b, written>>
vars == <<pc, layout, screen, pagerVars, writeVars, ret, sent, fresh, failed>>

--------------------------------------------------------------------------------
(* wrap                                                                      *)

\* Go's division, which truncates.
Quo(x, y) ==
    LET Abs(n) == IF n < 0 THEN -n ELSE n
        q == Abs(x) \div Abs(y)
    IN  IF (x < 0) = (y < 0) THEN q ELSE -q

Longest(words) == Max(ToSet(words) \cup {0})
PerRow(width, indent, words) == Quo(width - indent, Longest(words) + 2)

Rows_Cut(width, indent, words) == Quo(Len(words), PerRow(width, indent, words))
Rows(width, indent, words) ==
    LET perRow == PerRow(width, indent, words)
        full == Quo(Len(words), perRow)
    IN  full + (IF full * perRow = Len(words) THEN 0 ELSE 1)

\* The lines, as sequences of numbers of words: columns of equal width that are
\* filled from the top.  If GetSize fails, or no column fits, a word a line.
Wrap(width, indent, words) ==
    LET perRow == PerRow(width, indent, words)
        rows == Rows(width, indent, words)
        Word(i, j) == i + (j - 1) * rows
        Line(i) == [j \in {j \in 1 .. perRow : \A k \in 1 .. j : Word(i, k) <= Len(words)}
                       |-> Word(i, j)]
    IN  IF width = Unknown \/ perRow = 0
        THEN [i \in 1 .. Len(words) |-> <<i>>]
        ELSE [i \in 1 .. rows |-> Line(i)]

\* make([]string, rows) panics if rows is negative.
WrapPanics(width, indent, words) ==
    /\ width # Unknown
    /\ PerRow(width, indent, words) # 0
    /\ Rows(width, indent, words) < 0

NoLayout == [width |-> 0, indent |-> 0, words |-> <<>>, lines |-> <<>>]

--------------------------------------------------------------------------------

NoReturn == [n |-> 0, err |-> FALSE]

Init ==
    /\ pc = "prompt" /\ layout = NoLayout /\ screen = <<>>
    /\ buf = <<>> /\ shouldPage = FALSE /\ line = 0 /\ stopped = FALSE
    /\ height = Unknown /\ b = <<>> /\ written = 0 /\ ret = NoReturn
    /\ sent = <<>> /\ fresh = 0 /\ failed = FALSE

\* At the prompt, a tab or a question mark shows completions (bound: once, as
\* nothing is left of it).
ShowOptions(words) ==
    /\ pc = "prompt" /\ layout = NoLayout
    /\ \E width \in Widths \cup {Unknown}, indent \in {0, 5} :
          /\ layout' = [width |-> width, indent |-> indent, words |-> words,
                        lines |-> Wrap(width, indent, words)]
          /\ pc' = IF WrapPanics(width, indent, words) THEN "panic" ELSE pc
    /\ UNCHANGED <<screen, pagerVars, writeVars, ret, sent, fresh, failed>>

\* newPager: it pages if r is a terminal.
NewPager ==
    /\ pc = "prompt"
    /\ pc' = "idle"
    /\ shouldPage' \in BOOLEAN
    /\ layout' = NoLayout
    /\ UNCHANGED <<screen, buf, line, stopped, writeVars, ret, sent, fresh, failed>>

\* runLine returns; the pager is dropped.
CommandEnds ==
    /\ pc = "idle"
    /\ pc' = "prompt" /\ screen' = <<>> /\ ret' = NoReturn
    /\ buf' = <<>> /\ shouldPage' = FALSE /\ line' = 0 /\ stopped' = FALSE
    /\ height' = Unknown /\ b' = <<>> /\ written' = 0
    /\ sent' = <<>> /\ fresh' = 0 /\ failed' = FALSE
    /\ UNCHANGED layout

--------------------------------------------------------------------------------
(* Write                                                                     *)

\* Write returns n and, if err holds, an error.
Return(n, err) ==
    /\ pc' = "idle"
    /\ ret' = [n |-> n, err |-> err]

\* The command calls Write(c).
Sends(c) ==
    /\ pc = "idle" /\ Len(sent) + Len(c) <= MaxText
    /\ sent' = sent \o c
    /\ b' = c

\* p.w.Write(c) of a Write that does not page; it may fail after n characters.
Pass(c) ==
    \E n \in 0 .. Len(c) :
        /\ screen' = screen \o SubSeq(c, 1, n)
        /\ Return(n, n < Len(c))
        /\ failed' = (failed \/ n < Len(c))
        /\ UNCHANGED <<layout, pagerVars, height, written, fresh>>

\* r is no terminal, G was pressed, or GetSize fails.
WriteThrough(c) ==
    /\ Sends(c)
    /\ shouldPage => ~stopped
    /\ Pass(c)

WriteStopped(c) ==
    /\ Sends(c)
    /\ shouldPage /\ stopped
    /\ Return(0, TRUE)
    /\ UNCHANGED <<layout, screen, pagerVars, height, written, fresh, failed>>

WritePaged(c) ==
    /\ Sends(c)
    /\ shouldPage /\ ~stopped
    /\ height' \in Heights
    /\ buf' = buf \o c
    /\ written' = 0
    /\ pc' = "loop"
    /\ UNCHANGED <<layout, screen, shouldPage, line, stopped, ret, fresh, failed>>

\* The loop is over.
WriteReturns ==
    /\ pc = "loop"
    /\ written >= Len(b)
    /\ Return(written, FALSE)
    /\ UNCHANGED <<layout, screen, pagerVars, writeVars, sent, fresh, failed>>

\* The bottom of the screen: paginate.
AtBottom_Height == pc = "loop" /\ written < Len(b) /\ line >= height
AtBottom == pc = "loop" /\ written < Len(b) /\ line >= height - 1

\* Up to and with the first newline: ReadBytes('\n').
FirstLine(text) ==
    LET ends == {i \in 1 .. Len(text) : text[i] = "\n"}
    IN  SubSeq(text, 1, IF ends = {} THEN Len(text) ELSE Min(ends))

\* Not at the bottom, or paginate has returned: write a line, which may fail
\* after n characters.
CanShow ==
    \/ pc = "loop" /\ written < Len(b) /\ ~AtBottom
    \/ pc = "show" /\ shouldPage
ShowLine_Keep ==
    /\ CanShow
    /\ LET text == FirstLine(buf)
       IN  \E n \in 0 .. Len(text) :
             /\ buf' = IF Last(text) = "\n" THEN SubSeq(buf, Len(text) + 1, Len(buf)) ELSE buf
             /\ screen' = screen \o SubSeq(text, 1, n)
             /\ written' = written + n
             /\ IF n < Len(text)
                THEN Return(written + n, TRUE) /\ failed' = TRUE /\ UNCHANGED <<line, fresh>>
                ELSE /\ pc' = "loop" /\ line' = line + 1
                     /\ fresh' = fresh + (IF Last(text) = "\n" THEN 1 ELSE 0)
                     /\ UNCHANGED <<ret, failed>>
    /\ UNCHANGED <<layout, shouldPage, stopped, height, b, sent>>
ShowLine ==
    /\ CanShow
    /\ LET text == FirstLine(buf)
       IN  \E n \in 0 .. Len(text) :
             /\ buf' = SubSeq(buf, Len(text) + 1, Len(buf))
             /\ screen' = screen \o SubSeq(text, 1, n)
             /\ written' = written + n
             /\ IF n < Len(text)
                THEN Return(written + n, TRUE) /\ failed' = TRUE /\ UNCHANGED <<line, fresh>>
                ELSE /\ pc' = "loop" /\ line' = line + 1
                     /\ fresh' = fresh + (IF Last(text) = "\n" THEN 1 ELSE 0)
                     /\ UNCHANGED <<ret, failed>>
    /\ UNCHANGED <<layout, shouldPage, stopped, height, b, sent>>

\* G was pressed: the rest of buf at once.
ShowRest ==
    /\ pc = "show" /\ ~shouldPage
    /\ \E n \in 0 .. Len(buf) :
          /\ screen' = screen \o SubSeq(buf, 1, n)
          /\ written' = written + n
          /\ Return(written + n, n < Len(buf))
          /\ failed' = (failed \/ n < Len(buf))
    /\ UNCHANGED <<layout, pagerVars, height, b, sent, fresh>>

--------------------------------------------------------------------------------
(* paginate                                                                  *)

Prompt ==
    /\ AtBottom \/ pc = "more"
    /\ screen' = Append(screen, More)
    /\ pc' = "key"
    /\ UNCHANGED <<layout, pagerVars, writeVars, ret, sent, fresh, failed>>

\* paginate returns nil, and the user is ready for more lines.  (On a screen
\* that has no room for text line gets negative, which is one line granted.)
GoOn(l) ==
    /\ pc' = "show" /\ line' = l /\ fresh' = Min({l, 0})
    /\ UNCHANGED <<shouldPage, stopped, ret>>

\* A key was read, and the prompt is cleared.
Key(k) ==
    /\ pc = "key"
    /\ screen' = Front(screen)
    /\ CASE k = "q" -> /\ stopped' = TRUE /\ Return(written, TRUE)
                       /\ UNCHANGED <<shouldPage, line, fresh>>
         [] k = " " -> GoOn(0)
         [] k \in {"\r", "j"} -> GoOn(line - 1)
         [] k = "G" -> /\ shouldPage' = FALSE /\ pc' = "show"
                       /\ UNCHANGED <<stopped, line, ret, fresh>>
         [] k = "esc" -> pc' = "esc" /\ UNCHANGED <<shouldPage, stopped, line, ret, fresh>>
         [] k = "other" -> pc' = "more" /\ UNCHANGED <<shouldPage, stopped, line, ret, fresh>>
    /\ UNCHANGED <<layout, buf, writeVars, sent, failed>>

\* Read of at most two bytes: the down arrow, or anything else.
Escape(bytes) ==
    /\ pc = "esc"
    /\ IF bytes = <<"[", "B">> THEN GoOn(line - 1)
       ELSE pc' = "more" /\ UNCHANGED <<shouldPage, stopped, line, ret, fresh>>
    /\ UNCHANGED <<layout, screen, buf, writeVars, sent, failed>>

\* Writing or clearing the prompt fails, or reading a key: paginate returns the
\* error, and so does Write.
PaginateFails ==
    /\ AtBottom \/ pc \in {"more", "key", "esc"}
    /\ Return(written, TRUE)
    /\ failed' = TRUE
    /\ UNCHANGED <<layout, screen, pagerVars, writeVars, sent, fresh>>

--------------------------------------------------------------------------------

Next ==
    \/ \E words \in Words : ShowOptions(words)
    \/ NewPager
    \/ CommandEnds
    \/ \E c \in Chunks : WriteThrough(c) \/ WriteStopped(c) \/ WritePaged(c)
    \/ WriteReturns
    \/ ShowLine
    \/ ShowRest
    \/ Prompt
    \/ \E k \in Keys : Key(k)
    \/ \E k \in EscapeBytes : Escape(<<k>>) \/ \E m \in EscapeBytes : Escape(<<k, m>>)
    \/ PaginateFails

Spec == Init /\ [][Next]_vars

--------------------------------------------------------------------------------
(* Properties                                                                *)

TypeOK ==
    /\ pc \in {"prompt", "panic", "idle", "loop", "show", "more", "key", "esc"}
    /\ screen \in Seq({"x", "\n", More})
    /\ sent \in Seq({"x", "\n"}) /\ buf \in Seq({"x", "\n"}) /\ b \in Seq({"x", "\n"})
    /\ shouldPage \in BOOLEAN /\ stopped \in BOOLEAN /\ failed \in BOOLEAN
    /\ line \in Int /\ height \in Heights \cup {Unknown}
    /\ written \in Nat /\ fresh \in Int
    /\ ret \in [n : Nat, err : BOOLEAN]

\* However a command cuts its output into writes, and whatever keys are pressed,
\* the screen shows the output in order and nothing else: no part of it is
\* lost, shown twice or left in the pager's buffer, no prompt stays among it,
\* and Write reports as many characters as it showed.  Only q, or an error of
\* the terminal, withholds any.
ShowsWhatWasWritten ==
    ~failed =>
        /\ IsPrefix(IF pc = "key" THEN Front(screen) ELSE screen, sent)
        /\ pc = "idle" /\ ~stopped => screen = sent /\ ret = [n |-> Len(b), err |-> FALSE]

\* A line appears only where there is room for it: since the last key there
\* have been fewer lines than the screen has above the prompt, or none, so that
\* no line scrolls away before the user could read it.  After q there are none.
\* A line that comes in pieces is counted several times, which errs on this side.
NothingScrollsAway ==
    [][Len(screen') > Len(screen) =>
          /\ ~stopped
          /\ fresh' > fresh => fresh < Max({height - 1, 1})]_vars

\* The lines show the words 1 to n and nothing else, each in one place.
EachWordOnce(lines, n) ==
    /\ \A i \in DOMAIN lines : \A j \in DOMAIN lines[i] : lines[i][j] \in 1 .. n
    /\ \A w \in 1 .. n : \E i \in DOMAIN lines : \E j \in DOMAIN lines[i] : lines[i][j] = w
    /\ \A i, k \in DOMAIN lines : \A j \in DOMAIN lines[i], m \in DOMAIN lines[k] :
          lines[i][j] = lines[k][m] => i = k /\ j = m

\* wrap shows every word once, on lines that fit the screen, unless the screen
\* is narrower than the indent or than one word; it panics, or drops words, only
\* on a screen narrower than the indent.
WrapShowsEveryWord ==
    LET l == layout
        column == Longest(l.words) + 2
        narrow == l.width \in 0 .. l.indent - 1
    IN  ~narrow =>
        /\ pc # "panic"
        /\ EachWordOnce(l.lines, Len(l.words))
        /\ l.width >= l.indent + column =>
              \A i \in 1 .. Len(l.lines) : l.indent + Len(l.lines[i]) * column <= l.width

================================================================================
