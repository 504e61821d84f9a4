------------------------------ MODULE Console ------------------------------
(***************************************************************************)
(* The prompt: the input line at the bottom of the screen, growing upward  *)
(* as it wraps, and the output of the lines it runs, which EMIT scrolls in *)
(* the rows above row EDIT_ROW.  The word wrap and the editing keys are    *)
(* EditLine's.  A row is Width cells; attributes and the cursor's cell are *)
(* left out, and so is AT-XY.  "OK" is one cell.                           *)
(***************************************************************************)
EXTENDS EditLine, Integers

CONSTANTS EDIT_ROW,    \* the last row of the screen and of the input line
          Typed,       \* the keys pressed
          Glyphs,      \* what a running line prints
          MaxItems,    \* bound: characters and CRs a line prints, MaxLines lines
          MaxLines

ConsoleParameters ==
    /\ EDIT_ROW \in Nat /\ MaxRows < EDIT_ROW /\ MaxItems \in Nat /\ MaxLines \in Nat
    /\ Typed \subseteq Chars \cup LineKeys /\ Glyphs \cap Chars = {}

VARIABLES con,      \* screen, row and col (PRINT_ROW, PRINT_COL), old (FWRAP_OLD_COUNT)
          line,     \* EDIT_BUF with EDIT_LEN, and EDIT_CURSOR
          mode,     \* "prompt" or "run"
          items, lines,
          printed,  \* history: the rows the line has printed since it began or cleared the screen
          tall      \* history: the rows its text took when it was run
vars == <<con, line, mode, items, lines, printed, tall>>

Rows == 0..EDIT_ROW
Blank == [c \in 1..Width |-> Space]
Empty == [text |-> <<>>, cursor |-> 0]

\* GFX_SCROLL_OUTPUT_UP: the whole screen; GFX_SCROLL_TEXT_UP with the row EMIT clears: all but row EDIT_ROW.
ScrollOutputUp(scr) == [r \in Rows |-> IF r < EDIT_ROW THEN scr[r + 1] ELSE Blank]
ScrollTextUp(scr) == [r \in Rows |-> IF r < EDIT_ROW - 1 THEN scr[r + 1] ELSE IF r = EDIT_ROW - 1 THEN Blank ELSE scr[r]]

\* EDITOR_REDRAW: a row claimed at a time, the screen scrolled where the row holds output; rows given up are cleared.
\* (a mutant of Grown) The row before the claimed one decides.
GrownLate(s, n) ==
    LET f[c \in s.old .. n] ==
          IF c = s.old THEN s
          ELSE IF f[c - 1].row > EDIT_ROW + 2 - c
               THEN [f[c - 1] EXCEPT !.screen = ScrollOutputUp(@), !.row = @ - 1] ELSE f[c - 1]
    IN  f[n]
Grown(s, n) ==
    LET f[c \in s.old .. n] ==
          IF c = s.old THEN s
          ELSE IF f[c - 1].row >= EDIT_ROW + 2 - c
               THEN [f[c - 1] EXCEPT !.screen = ScrollOutputUp(@), !.row = @ - 1] ELSE f[c - 1]
    IN  f[n]
Shrunk(s, n) ==
    [s EXCEPT !.screen = [r \in Rows |-> IF r \in EDIT_ROW + 1 - s.old .. EDIT_ROW - n THEN Blank ELSE @[r]]]
Padded(s) == [c \in 1..Width |-> IF c <= Len(s) THEN s[c] ELSE Space]
Drawn(scr, l) ==
    LET rows == ShownRows(l.text, l.cursor)
        textRow(i) == SubSeq(l.text, rows[i].start + 1, rows[i].start + rows[i].len)
        first == EDIT_ROW + 1 - Len(rows)
    IN  [r \in Rows |-> IF r >= first THEN Padded(textRow(r - first + 1)) ELSE scr[r]]
Redraw(s, l) ==
    LET n == Len(ShownRows(l.text, l.cursor))
        sized == IF s.old <= n THEN Grown(s, n) ELSE Shrunk(s, n)
    IN  [sized EXCEPT !.old = n, !.screen = Drawn(@, l)]

\* W_EMIT: a character at the print position, or CR (also past the last column).
NewLine(s) == IF s.row + 1 < EDIT_ROW THEN [s EXCEPT !.row = @ + 1, !.col = 0]
              ELSE [s EXCEPT !.screen = ScrollTextUp(@), !.row = EDIT_ROW - 1, !.col = 0]
Put(s, c) == LET t == [s EXCEPT !.screen[s.row][s.col + 1] = c, !.col = @ + 1]
             IN  IF t.col < Width THEN t ELSE NewLine(t)
\* The same on the history.
NoteCR(p) == Append(p, <<>>)
Note(p, c) == LET q == [p EXCEPT ![Len(p)] = Append(@, c)] IN IF Len(q[Len(q)]) < Width THEN q ELSE NoteCR(q)

----------------------------------------------------------------------------
Init == /\ con = [screen |-> [r \in Rows |-> Blank], row |-> 0, col |-> 0, old |-> 1]
        /\ line = Empty /\ mode = "prompt" /\ items = 0 /\ lines = 0 /\ printed = << <<>> >> /\ tall = 1

\* EDITOR_PROCESS_KEY
Key == /\ mode = "prompt"
       /\ \E k \in Typed :
            /\ line' = EditKey(line, k)
            /\ con' = IF line' = line THEN con ELSE Redraw(con, line')
       /\ UNCHANGED <<mode, items, lines, printed, tall>>

\* EDITOR_LOOP_LIVE.enter: the line runs with its text still on the screen ...
Enter == /\ mode = "prompt" /\ lines < MaxLines
         /\ mode' = "run" /\ items' = 0 /\ lines' = lines + 1 /\ printed' = << <<>> >> /\ tall' = con.old
         /\ UNCHANGED <<con, line>>
Char == /\ mode = "run" /\ items < MaxItems
         /\ \E c \in Glyphs : con' = Put(con, c) /\ printed' = Note(printed, c)
         /\ items' = items + 1 /\ UNCHANGED <<line, mode, lines, tall>>
Cr == /\ mode = "run" /\ items < MaxItems
      /\ con' = NewLine(con) /\ printed' = NoteCR(printed)
      /\ items' = items + 1 /\ UNCHANGED <<line, mode, lines, tall>>
Cls == /\ mode = "run" /\ items < MaxItems
       /\ con' = [con EXCEPT !.screen = [r \in Rows |-> Blank], !.row = 0, !.col = 0] /\ printed' = << <<>> >>
       /\ items' = items + 1 /\ UNCHANGED <<line, mode, lines, tall>>
\* ... and ends with OK or its error's message, a CR and the empty line's redraw.
End == /\ mode = "run"
       /\ \E word \in {"OK", "?"} :
            /\ con' = Redraw(NewLine(Put(con, word)), Empty)
            /\ printed' = NoteCR(Note(printed, word))
       /\ line' = Empty /\ mode' = "prompt" /\ UNCHANGED <<items, lines, tall>>

Next == Key \/ Enter \/ Char \/ Cr \/ Cls \/ End
Spec == Init /\ [][Next]_vars

----------------------------------------------------------------------------
\* The rows the last line printed are on the screen, down to the row above the print position; those that are missing have
\* left it at the top.
Shown == \A i \in 1..Len(printed) - 1 :
            LET r == con.row - Len(printed) + i IN r >= 0 => Trimmed(con.screen[r]) = Trimmed(printed[i])

\* Typing at the prompt never hides or moves apart what was printed: a line that grows pushes it up, one that shrinks
\* leaves it (EDITOR_REDRAW), and the line that printed it, on one row, did not mix with it (EDITOR_LOOP_LIVE, W_EMIT).
OutputKept == mode = "prompt" /\ tall = 1 => Shown
=============================================================================
