----------------------------- MODULE ViewModel ------------------------------
(***************************************************************************)
(* What the full-screen view promises: the store as a list of lines, one   *)
(* of them copied to a buffer and written back, marked, when it is left.   *)
(* A key is one step.  Where the promise leaves a choice (the cursor after *)
(* a deletion, a line edited back to its old text) the step has every      *)
(* outcome.  This is the model tools/edtest.py drives beside the machine.  *)
(***************************************************************************)
EXTENDS EditLine

CONSTANTS Cap,         \* bytes the store holds
          ScreenRows   \* rows above the status row

VARIABLES lines,    \* the store: sequence of [text, marked]
          cur,      \* the cursor line, from 0
          line,     \* the buffer: [text, cursor]
          top,      \* the first line shown
          open,     \* the view is open
          full      \* STORE FULL shows

vars == <<lines, cur, line, top, open, full>>

Size(ls) ==
    LET f[i \in 0..Len(ls)] == IF i = 0 THEN 0 ELSE f[i - 1] + Len(ls[i].text) + 1 IN f[Len(ls)]
Fits(ls) == Size(ls) <= Cap

New == [text |-> <<>>, marked |-> TRUE]
InsertedAt(ls, i, x) == SubSeq(ls, 1, i) \o <<x>> \o SubSeq(ls, i + 1, Len(ls))
Without(ls, i) == SubSeq(ls, 1, i) \o SubSeq(ls, i + 2, Len(ls))

\* The lines once the cursor line is left: written back and marked if it
\* changed.
Left == IF line.text = lines[cur + 1].text THEN lines
        ELSE [lines EXCEPT ![cur + 1] = [text |-> line.text, marked |-> TRUE]]

\* The view scrolls the least that shows the whole cursor line.
Height(ls, c, ln, i) ==
    IF i = c THEN Len(ShownRows(ln.text, ln.cursor)) ELSE Len(WrapRows(ls[i + 1].text))
Rows(ls, c, ln, t) ==
    LET f[i \in Nat] == IF i > c THEN 0 ELSE Height(ls, c, ln, i) + f[i + 1] IN f[t]
Fit(ls, c, ln, t) ==
    LET from == IF t > c THEN c ELSE t
        ok == {u \in from..c : Rows(ls, c, ln, u) <= ScreenRows}
    IN CHOOSE u \in ok : \A v \in ok : u <= v

\* After the step the view is on line c of ls with the buffer ln.
Show(ls, c, ln) ==
    /\ cur' = c /\ line' = ln /\ lines' = ls
    /\ top' = Fit(ls, c, ln, top)
    /\ full' = FALSE
    /\ UNCHANGED open
GoTo(ls, c, at) == Show(ls, c, [text |-> ls[c + 1].text, cursor |-> at])
StoreFull == full' = TRUE /\ UNCHANGED <<lines, cur, line, top, open>>

----------------------------------------------------------------------------
\* The keys

Edit(key) == Show(lines, cur, EditKey(line, key))

\* UP and DOWN: a row of a wrapped line, else the neighbouring line.  With the
\* cursor at the end of a full row, the row and the column are not promised.
AtFullRow == ColumnOf(WrapRows(line.text), line.cursor) >= Width
Tables == {ShownRows(line.text, line.cursor)} \cup
          (IF AtFullRow THEN {WrapRows(line.text)} ELSE {})
Columns(rows) == {ColumnOf(rows, line.cursor)} \cup (IF AtFullRow THEN {Width - 1} ELSE {})
Step(i, up) == IF up THEN i - 1 ELSE i + 1
UpDown(up) == \E rows \in Tables : \E col \in Columns(rows) :
    LET i == RowOf(rows, line.cursor)
        edge == i = IF up THEN 0 ELSE Len(rows) - 1
    IN \/ /\ ~edge
          /\ Show(lines, cur, [line EXCEPT !.cursor = AtColumn(rows[Step(i, up) + 1], col)])
       \/ /\ edge /\ cur = IF up THEN 0 ELSE Len(lines) - 1
          /\ Show(lines, cur, line)
       \/ /\ edge /\ cur # IF up THEN 0 ELSE Len(lines) - 1
          /\ ~Fits(Left) /\ StoreFull
       \/ /\ edge /\ cur # IF up THEN 0 ELSE Len(lines) - 1
          /\ Fits(Left)
          /\ LET c == Step(cur, up)
                 r2 == WrapRows(Left[c + 1].text)
             IN \E at \in {AtColumn(r2[IF up THEN Len(r2) ELSE 1], col)} \cup
                          (IF ~up /\ Len(r2) > 1 /\ col > r2[1].len THEN {r2[1].start + r2[1].len} ELSE {}) :
                    GoTo(Left, c, at)

\* ENTER and insert-line: the line is left and an empty one opened after it or
\* before it; all or nothing.
NewLine(at) ==
    LET ls == InsertedAt(Left, at, New)
    IN IF Fits(ls) THEN GoTo(ls, at, 0) ELSE StoreFull

\* Delete-line, and DELETE on an empty line: the cursor goes to the line that
\* took the place, or to the end of the one before; the only line is emptied.
DeleteLine(prevEnd) ==
    \/ /\ Len(lines) = 1 /\ GoTo(<<New>>, 0, 0)
    \/ /\ Len(lines) > 1
       /\ LET ls == Without(lines, cur)
              c == IF cur < Len(ls) THEN cur ELSE cur - 1
          IN \/ \E at \in {0, Len(ls[c + 1].text)} : GoTo(ls, c, at)
             \/ prevEnd /\ 0 < cur /\ GoTo(ls, cur - 1, Len(ls[cur].text))

\* BREAK: the line is left; without room for it the view stays.
Break ==
    \/ /\ ~Fits(Left) /\ StoreFull
    \/ /\ Fits(Left)
       /\ lines' = Left /\ open' = FALSE /\ full' = FALSE
       /\ UNCHANGED <<cur, line, top>>

Key(k) ==
    /\ open
    /\ CASE k \in Chars \cup {"LEFT", "RIGHT"} -> Edit(k)
         [] k = "DELETE" -> IF line.text = <<>> THEN DeleteLine(TRUE) ELSE Edit(k)
         [] k = "UP" -> UpDown(TRUE)
         [] k = "DOWN" -> UpDown(FALSE)
         [] k = "ENTER" -> NewLine(cur + 1)
         [] k = "INSERT_LINE" -> NewLine(cur)
         [] k = "DELETE_LINE" -> DeleteLine(FALSE)
         [] k = "BREAK" -> Break

Keys == Chars \cup LineKeys \cup {"UP", "DOWN", "ENTER", "INSERT_LINE", "DELETE_LINE", "BREAK"}

----------------------------------------------------------------------------
\* Opening the view, and the console between two sessions

\* EDIT name: some line; EDIT alone: a new line after the last.
Show1(ls, c) ==
    /\ cur' = c /\ line' = [text |-> ls[c + 1].text, cursor |-> 0] /\ lines' = ls
    /\ \E t \in 0..c : top' = Fit(ls, c, line', t)
    /\ open' = TRUE /\ full' = FALSE
Open ==
    /\ ~open
    /\ \/ \E c \in 0..Len(lines) - 1 : Show1(lines, c)
       \/ Fits(Append(lines, New)) /\ Show1(Append(lines, New), Len(lines))

\* The console's commit of the session and the lines it appends or a tape
\* brings: the store is any text of unmarked lines.
Console ==
    /\ ~open
    /\ \A i \in 1..Len(lines') : ~lines'[i].marked
    /\ UNCHANGED <<cur, line, top, open, full>>

Next == (\E k \in Keys : Key(k)) \/ Open \/ Console

Spec == ~open /\ [][Next]_vars
=============================================================================
