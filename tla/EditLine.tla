------------------------------ MODULE EditLine ------------------------------
(***************************************************************************)
(* The edit line of the console and of the full-screen view: its word      *)
(* wrap, the cell of its cursor and the keys that edit it.  A row is the   *)
(* offset of its first character and its length.  The code's width is 32,  *)
(* its MaxRows 4 and its MaxLen 128.                                       *)
(***************************************************************************)
EXTENDS Naturals, Sequences

CONSTANTS Chars,      \* the characters a key can type
          Space,      \* the one of them rows break at
          Width,      \* columns of a row
          MaxRows,    \* rows a line may take
          MaxLen      \* characters a line may hold

ASSUME EditLineAssumption ==
    /\ Space \in Chars
    /\ Width \in Nat \ {0} /\ MaxRows \in Nat \ {0} /\ MaxLen \in Nat

\* Editing keys the line itself knows; a character key is the character.
LineKeys == {"LEFT", "RIGHT", "DELETE"}

----------------------------------------------------------------------------
\* The word wrap

\* Where a row that starts after offset pos breaks: at its last space, if it
\* has one past its first column.
Breaks(text, pos) == {rel \in 1..Width - 1 : text[pos + rel + 1] = Space}
Last(S) == CHOOSE x \in S : \A y \in S : y <= x

\* The rows of a text, at most one more than a line may take.
LineTexts == UNION {[1..n -> Chars] : n \in 0..MaxLen + 1}
RowLen(cut) == IF cut = {} THEN Width ELSE Last(cut)
Used(cut) == IF cut = {} THEN Width ELSE Last(cut) + 1
Row(text, pos) == [start |-> pos, len |-> IF Len(text) - pos <= Width THEN Len(text) - pos ELSE RowLen(Breaks(text, pos))]
NextRow(text, rows) ==
    LET pos == rows[Len(rows)].start
    IN  IF Len(text) - pos <= Width THEN rows ELSE Append(rows, Row(text, pos + Used(Breaks(text, pos))))
RowsOf == [text \in LineTexts |->
    LET rows[n \in 0..MaxRows] == IF n = 0 THEN <<Row(text, 0)>> ELSE NextRow(text, rows[n - 1])
    IN  rows[MaxRows]]

\* wrap_model's rows, and whether the line needs more than MaxRows of them.
Overflow(text) == Len(RowsOf[text]) > MaxRows
FirstRows(rows) == SubSeq(rows, 1, IF Len(rows) > MaxRows THEN MaxRows ELSE Len(rows))
WrapRows(text) == FirstRows(RowsOf[text])

\* The rows with the cursor's own: a cursor at the end of a full last row gets
\* an empty row while the line has fewer than MaxRows.
WithCursorRow(rows, text, cursor) ==
    IF cursor = Len(text) /\ rows[Len(rows)].len = Width /\ Len(rows) < MaxRows
    THEN Append(rows, [start |-> Len(text), len |-> 0]) ELSE rows
ShownRows(text, cursor) == WithCursorRow(WrapRows(text), text, cursor)

\* The row, counted from 0, a cursor is on, and its column there.
RowOf(rows, cursor) ==
    Last({0} \cup {i \in 1..Len(rows) - 1 : \A j \in 1..i : rows[j + 1].start <= cursor})
ColumnOf(rows, cursor) == cursor - rows[RowOf(rows, cursor) + 1].start
\* The cursor's cell: a column past the last one is the last one.
CursorCell(rows, cursor) ==
    LET col == ColumnOf(rows, cursor)
    IN <<RowOf(rows, cursor), IF col < Width THEN col ELSE Width - 1>>

\* The column of a row, or its end when the row is shorter.
AtColumn(row, col) == row.start + IF col < row.len THEN col ELSE row.len

\* What a row of a text shows: trailing spaces cannot be told from blanks.
Trimmed(s) ==
    LET keep == {0} \cup {i \in 1..Len(s) : s[i] # Space} IN SubSeq(s, 1, Last(keep))
RowText(text, row) == Trimmed(SubSeq(text, row.start + 1, row.start + row.len))

----------------------------------------------------------------------------
\* The editing engine

Inserted(text, cursor, c) == SubSeq(text, 1, cursor) \o <<c>> \o SubSeq(text, cursor + 1, Len(text))
Removed(text, cursor) == SubSeq(text, 1, cursor - 1) \o SubSeq(text, cursor + 1, Len(text))

\* The line after a key: a character that would need another row, a character
\* in a full line and a move off the line change nothing.
EditKey(line, key) ==
    CASE key = "DELETE" ->
             IF line.cursor = 0 THEN line
             ELSE [text |-> Removed(line.text, line.cursor), cursor |-> line.cursor - 1]
      [] key = "LEFT" -> [line EXCEPT !.cursor = IF @ = 0 THEN 0 ELSE @ - 1]
      [] key = "RIGHT" -> [line EXCEPT !.cursor = IF @ < Len(line.text) THEN @ + 1 ELSE @]
      [] OTHER ->
             LET nb == Inserted(line.text, line.cursor, key)
             IN IF Len(line.text) >= MaxLen \/ Overflow(nb) THEN line
                ELSE [text |-> nb, cursor |-> line.cursor + 1]
=============================================================================
