----------------------------- MODULE StoreView ------------------------------
(***************************************************************************)
(* The full-screen view of rom/graphics_exrom.asm: the store as bytes, the *)
(* line STORE_LINE remembers, the cursor line in the edit buffer, and a    *)
(* screen drawn a row at a time from a shadow of what it holds.  The view  *)
(* is one thread between two key waits, so a key is a step: the routines   *)
(* are functions of the state m.  Addresses are offsets in the store.      *)
(***************************************************************************)
EXTENDS EditLine, Integers, FiniteSets, TLC

CONSTANTS CR, CRM,     \* a line's terminator; that of a line changed in the view
          Cap,         \* bytes from STORE_START to STORE_LIMIT
          ScreenRows,  \* rows above the status row (23)
          Typed,       \* the characters typed in a session
          Texts        \* stores the console and the tape leave

VARIABLE m             \* the machine: the view's cells, the store, the screen

vars == <<m>>

ASSUME StoreViewAssumption ==
    /\ CR \notin Chars /\ CRM \notin Chars /\ CR # CRM
    /\ Typed \subseteq Chars /\ Cap \in Nat /\ ScreenRows \in Nat /\ ScreenRows >= MaxRows

RowIds == 0..ScreenRows - 1
Blank == <<>>                    \* shadow record: a blank row
Unknown == <<"unknown">>         \* shadow record: nothing is known of the row
Line(s) == [text |-> s.buf, cursor |-> s.cursor]

----------------------------------------------------------------------------
\* The store

IsEnd(b) == b \in {CR, CRM}
\* STORE_NEXT: the address after the terminator of the line at p.
NextLine(store, p) ==
    LET f[q \in Nat] == IF IsEnd(store[q + 1]) THEN q + 1 ELSE f[q + 1] IN f[p]
Forward(store, from, k) ==
    LET f[i \in Nat] == IF i = 0 THEN from ELSE NextLine(store, f[i - 1]) IN f[k]
\* A walk back stops after the terminator before the line.
Back(store, from, k) ==
    LET prev[q \in Nat] == IF q = 0 THEN 0 ELSE IF IsEnd(store[q]) THEN q ELSE prev[q - 1]
        f[i \in Nat] == IF i = 0 THEN from ELSE prev[f[i - 1] - 1]
    IN f[k]
TextAt(store, p) ==
    IF p = Len(store) THEN <<>> ELSE SubSeq(store, p + 1, NextLine(store, p) - 1)

\* STORE_LINE: the walk starts at line 0 or at the mark, whichever is nearer,
\* and leaves the mark on line n.
LineAddress(s, n) ==
    CASE n >= s.mark.n -> Forward(s.store, s.mark.ptr, n - s.mark.n)
      [] n < s.mark.n /\ n < s.mark.n - n -> Forward(s.store, 0, n)
      [] OTHER -> Back(s.store, s.mark.ptr, s.mark.n - n)
StoreLine(s, n) == [s EXCEPT !.mark = [n |-> n, ptr |-> LineAddress(s, n)]]
LineText(s) == TextAt(s.store, s.mark.ptr)

Room(s, delta) == Len(s.store) + delta <= Cap
\* STORE_GAP and what is written in the gap: the bytes from..to become new.
\* The mark goes to line 0 when the change starts before it.
Splice(s, from, to, new, start) ==
    [s EXCEPT !.store = SubSeq(@, 1, from) \o new \o SubSeq(@, to + 1, Len(@)),
              !.mark = IF start < @.ptr THEN [n |-> 0, ptr |-> 0] ELSE @]
\* (a mutant of Replace) the line keeps an unmarked end.
ReplaceUnmarked(s, p, len) ==
    Splice(s, p, p + len + 1, s.buf \o <<CR>>, p + IF Len(s.buf) < len THEN Len(s.buf) ELSE len)

\* STORE_REPLACE of the line of length len at p by the buffer, marked.
Replace(s, p, len) ==
    Splice(s, p, p + len + 1, s.buf \o <<CRM>>,
           p + IF Len(s.buf) < len THEN Len(s.buf) ELSE len)
Insert(s, p) == Splice(s, p, p, <<CRM>>, p)
Delete(s, p, len) == Splice(s, p, p + len + 1, <<>>, p)

----------------------------------------------------------------------------
\* The cursor line

\* VIEW_LOAD: the cursor line into the edit buffer, the cursor at 0.
Loaded(s) == [s EXCEPT !.buf = LineText(s), !.cursor = 0]
Load(s) == Loaded(StoreLine(s, s.cur))

\* VIEW_LEAVE: whether the write-back and extra more bytes fit, and the state
\* after it; all or nothing.
WrittenBack(s, old, extra) ==
    IF ~Room(s, Len(s.buf) - Len(old) + extra) THEN [ok |-> FALSE, s |-> [s EXCEPT !.msg = TRUE]]
    ELSE [ok |-> TRUE, s |-> IF s.buf # old THEN Replace(s, s.mark.ptr, Len(old)) ELSE s]
LeaveAt(s, extra) == WrittenBack(s, LineText(s), extra)
Leave(s, extra) == LeaveAt(StoreLine(s, s.cur), extra)

Wrapped(s) == ShownRows(s.buf, s.cursor)
\* The rows of line i as the store holds it.
StoredRows(s, i) == Len(WrapRows(LineText(StoreLine(s, i))))

----------------------------------------------------------------------------
\* Which line is the top one

\* VIEW_FIT, when the view opens: rows are counted from the top line down.
RowsFrom(s, t, end) == LET f[i \in Nat] == IF i >= end THEN 0 ELSE StoredRows(s, i) + f[i + 1] IN f[t]
FirstFit(s, from, crows) ==
    LET f[t \in Nat] == IF t >= s.cur \/ RowsFrom(s, t, s.cur) + crows <= ScreenRows THEN t ELSE f[t + 1] IN f[from]
TopAt(s, top, crows) ==
    [StoreLine(s, top) EXCEPT !.top = top, !.crow = RowsFrom(s, top, s.cur), !.crows = crows]
FitRows(s, crows) == TopAt(s, FirstFit(s, IF s.top > s.cur THEN s.cur ELSE s.top, crows), crows)
Fit(s) == FitRows(s, Len(Wrapped(s)))

\* VIEW_FIT_KEY, after a key: the cursor line's first row follows from the
\* row of the old one, a line away at most; then top lines go, one at a time.
RowOfLine(s, old) ==
    CASE s.cur = old.cur -> old.crow
      [] s.cur > old.cur -> old.crow + StoredRows(s, old.cur)
      [] OTHER -> old.crow - StoredRows(s, s.cur)
TopsGo(s, top, row, crows) ==
    LET f[t \in Nat, r \in Nat] ==
            IF r + crows <= ScreenRows \/ t = s.cur THEN <<t, r>>
            ELSE f[t + 1, r - StoredRows(s, t)]
    IN f[top, row]
FitTo(s, row, crows) == TopsGo(s, IF row < 0 THEN s.cur ELSE s.top, IF row < 0 THEN 0 ELSE row, crows)
FitAt(s, at, crows) == [s EXCEPT !.top = at[1], !.crow = at[2], !.crows = crows]
FitKeyRows(s, old, crows) == FitAt(s, FitTo(s, RowOfLine(s, old), crows), crows)
FitKey(s, old) == FitKeyRows(s, old, Len(Wrapped(s)))

----------------------------------------------------------------------------
\* The screen

DrawnText(s, i) == IF i = s.cur THEN s.buf ELSE LineText(StoreLine(s, i))
\* The rows drawn for line i: the cursor line's from the buffer.
DrawnRows(s, i) == IF i = s.cur THEN Wrapped(s) ELSE WrapRows(DrawnText(s, i))
RowContent(s, rec) ==
    IF rec = Blank THEN <<>> ELSE RowText(DrawnText(s, rec[1]), DrawnRows(s, rec[1])[rec[2] + 1])
LastRow(row, n) == IF row + n > ScreenRows THEN ScreenRows - 1 ELSE row + n - 1

\* (a mutant of ShMap) the lines below a deleted one keep their numbers.
ShMapNoDelete(s, k, how) ==
    [s EXCEPT !.sh = [r \in RowIds |->
        CASE @[r] \in {Blank, Unknown} -> @[r]
          [] @[r] \notin {Blank, Unknown} /\ @[r][1] = k /\ how # "inserted" -> Unknown
          [] @[r] \notin {Blank, Unknown} /\ @[r][1] >= k /\ how = "inserted" -> <<@[r][1] + 1, @[r][2]>>
          [] OTHER -> @[r]]]

\* VIEW_SH_MAP: the shadow when line k changed, was inserted or was deleted.
ShMap(s, k, how) ==
    LET moved(rec, i) ==
          CASE i < k -> rec
            [] i = k /\ how # "inserted" -> Unknown
            [] i > k /\ how = "changed" -> rec
            [] how = "inserted" -> <<i + 1, rec[2]>>
            [] OTHER -> <<i - 1, rec[2]>>
    IN [s EXCEPT !.sh = [r \in RowIds |->
            IF @[r] \in {Blank, Unknown} THEN @[r] ELSE moved(@[r], @[r][1])]]

\* VIEW_RENDER's walk from line first at row: the record each row must get.  It
\* ends at the last row, at the end of the lines, or past the line stop where
\* the shadow already has the next line's first row.
Never == Cap + 1
Plan(s, first, row, stop) ==
    LET f[i \in Nat, r \in Nat] ==
          IF r >= ScreenRows \/ (stop < i /\ i < s.count /\ s.sh[r] = <<i, 0>>) THEN << >>
          ELSE IF i = s.count THEN [q \in r..ScreenRows - 1 |-> Blank]
          ELSE [q \in r..LastRow(r, Len(DrawnRows(s, i))) |-> <<i, q - r>>] @@ f[i + 1, r + Len(DrawnRows(s, i))]
    IN f[first, row]

\* Only the rows whose record differs are drawn, which resets their flash.
Drawn(s, plan, drawn, onCur) ==
    [s EXCEPT
       !.sh = [r \in RowIds |-> IF r \in drawn THEN plan[r] ELSE @[r]],
       !.scr = [r \in RowIds |-> IF r \in drawn THEN RowContent(s, plan[r]) ELSE @[r]],
       !.flash = {c \in @ : c[1] \notin drawn},
       !.crow = IF onCur = {} THEN @ ELSE CHOOSE r \in onCur : TRUE]
Planned(s, plan) ==
    Drawn(s, plan, {r \in DOMAIN plan : plan[r] # s.sh[r]}, {r \in DOMAIN plan : plan[r] = <<s.cur, 0>>})
RenderLine(s, first, row, stop) == Planned(s, Plan(s, first, row, stop))
Render(s, from) == RenderLine(StoreLine(s, from.line), from.line, from.row, from.stop)
From(line, row, stop) == [line |-> line, row |-> row, stop |-> stop]

Moved(s, by) ==       \* row r comes from row r + by
    [s EXCEPT !.sh = [r \in RowIds |-> IF r + by \in RowIds THEN @[r + by] ELSE Unknown],
              !.scr = [r \in RowIds |-> IF r + by \in RowIds THEN @[r + by] ELSE @[r]]]
WholeScreen(s) == From(s.top, 0, Never)
\* Where the rendering after a key begins, the rows having moved by so many.
RenderFrom(s, old, by) ==
    CASE s.cur <= old.cur -> From(s.cur, s.crow, IF by > 0 THEN Never ELSE old.cur)
      [] s.cur > old.cur /\ old.crow - by \in RowIds -> From(old.cur, old.crow - by, IF by > 0 THEN Never ELSE s.cur)
      [] OTHER -> WholeScreen(s)
\* VIEW_SHIFT: how many rows the screen moves up (down, below 0); 0 when nothing on it is kept.
FoundAt(found) == IF found = {} \/ 0 \in found THEN 0 ELSE CHOOSE r \in found : \A q \in found : r <= q
CameBy(came) == IF came >= ScreenRows THEN 0 ELSE -came
ShiftBy(s, old) ==
    IF s.top > old.top THEN FoundAt({r \in RowIds : s.sh[r] = <<s.top, 0>>}) ELSE CameBy(RowsFrom(s, s.top, old.top))
Shifted(s, old, by) == Render(Moved(s, by), IF by = 0 THEN WholeScreen(s) ELSE RenderFrom(s, old, by))
Shift(s, old) == Shifted(s, old, ShiftBy(s, old))

\* VIEW_CURSOR: the flash leaves the cell it was on.
Flashes(s, new) == [s EXCEPT !.flash = (@ \ {s.cell}) \cup {new}, !.cell = new]
OnScreen(s, cell) == <<s.crow + cell[1], cell[2]>>
Cursor(s) == Flashes(s, OnScreen(s, CursorCell(Wrapped(s), s.cursor)))

\* VIEW_STATUS: the cursor line and the line count, or STORE FULL.
StatusRow(s) == IF s.msg THEN <<"STORE FULL">> ELSE <<s.cur + 1, s.count>>
Status(s) == [s EXCEPT !.status = StatusRow(s)]

\* VIEW_REDRAW_ALL
RedrawAll(s) ==
    Status(Cursor(Render([s EXCEPT !.sh = [r \in RowIds |-> Unknown]], WholeScreen(s))))

\* VIEW_POST: level 0 nothing changed, 1 the cursor, 2 the text of the cursor
\* line, 3 the cursor line or the set of lines.
RowsInPlace(s, rows, mine) ==        \* ED_DRAW_ROWS: the rows of the cursor line
    [s EXCEPT !.scr = [r \in RowIds |-> IF r \in mine THEN RowText(s.buf, rows[r - s.crow + 1]) ELSE @[r]],
              !.flash = {c \in @ : c[1] \notin mine}]
DrawLine(s) == RowsInPlace(s, Wrapped(s), s.crow..s.crow + Len(Wrapped(s)) - 1)
Redrawn(s, old) ==
    IF s.top # old.top THEN Shift(s, old)
    ELSE Render(s, IF s.cur > old.cur THEN From(old.cur, old.crow, s.cur) ELSE From(s.cur, s.crow, old.cur))
Refit(s, old) == Redrawn(FitKey(s, old), old)
After(s, level, old) ==
    CASE level = 0 -> s
      [] level \in {1, 2} /\ Len(Wrapped(s)) = s.crows -> Cursor(IF level = 2 THEN DrawLine(s) ELSE s)
      [] OTHER -> Cursor(Refit(IF level = 2 THEN ShMap(s, s.cur, "changed") ELSE s, old))
StatusIf(shows, s) == IF shows THEN Status(s) ELSE s
Post(s, level, old) == StatusIf(level = 3 \/ s.msg # old.msg, After(s, level, old))

----------------------------------------------------------------------------
\* VIEW_KEY

\* The keys the editing engine knows.
Edited(s, k, new) ==
    <<[s EXCEPT !.buf = new.text, !.cursor = new.cursor],
      IF new = Line(s) THEN 0 ELSE IF k \in {"LEFT", "RIGHT"} THEN 1 ELSE 2>>
EditKeyStep(s, k) == Edited(s, k, EditKey(Line(s), k))

\* ENTER and insert-line: a marked empty line at index i, which becomes the
\* cursor line.
WithNewLine(s, i) == ShMap([Insert(s, s.mark.ptr) EXCEPT !.count = @ + 1], i, "inserted")
NewLineIn(left, i) ==
    IF ~left.ok THEN <<left.s, 0>> ELSE <<Load(WithNewLine(StoreLine([left.s EXCEPT !.cur = i], i), i)), 3>>
NewLineStep(s, i) == NewLineIn(Leave(s, 1), i)

WithoutLine(s) == [Delete(s, s.mark.ptr, Len(LineText(s))) EXCEPT !.count = @ - 1]
OnALine(s) == [s EXCEPT !.cur = IF @ = s.count THEN @ - 1 ELSE @]
EmptiedLine(s) == ShMap(Replace(s, 0, Len(LineText(s))), 0, "changed")
DeleteLineStep(s) ==
    IF s.count = 1
    THEN <<EmptiedLine([StoreLine(s, 0) EXCEPT !.buf = <<>>, !.cursor = 0]), 3>>
    ELSE <<Load(OnALine(ShMap(WithoutLine(StoreLine(s, s.cur)), s.cur, "deleted"))), 3>>

\* UP and DOWN: a row of the wrapped line, else the neighbouring line.
InColumn(s, rows, up, col) == [s EXCEPT !.cursor = AtColumn(rows[IF up THEN Len(rows) ELSE 1], col)]
ToColumn(s, up, col) == InColumn(s, Wrapped(s), up, col)
ToNextLine(left, up, col) ==
    IF ~left.ok THEN <<left.s, 0>>
    ELSE <<ToColumn(Load([left.s EXCEPT !.cur = IF up THEN @ - 1 ELSE @ + 1]), up, col), 3>>
UpDownFrom(s, up, rows, cell) ==
    CASE IF up THEN cell[1] > 0 ELSE cell[1] + 1 < Len(rows) ->
             <<[s EXCEPT !.cursor = AtColumn(rows[IF up THEN cell[1] ELSE cell[1] + 2], cell[2])], 1>>
      [] IF up THEN cell[1] = 0 /\ s.cur = 0 ELSE cell[1] + 1 = Len(rows) /\ s.cur + 1 = s.count -> <<s, 0>>
      [] OTHER -> ToNextLine(Leave(s, 0), up, cell[2])
UpDownStep(s, up) == UpDownFrom(s, up, Wrapped(s), CursorCell(Wrapped(s), s.cursor))

KeyStep(s, k) ==
    CASE k = "ENTER" -> NewLineStep(s, s.cur + 1)
      [] k = "INSERT_LINE" -> NewLineStep(s, s.cur)
      [] k = "DELETE_LINE" -> DeleteLineStep(s)
      [] k \in {"UP", "DOWN"} -> UpDownStep(s, k = "UP")
      [] k = "DELETE" /\ s.buf = <<>> -> DeleteLineStep(s)
      [] OTHER -> EditKeyStep(s, k)

AfterStep(step, old) == Post(step[1], step[2], old)
Key(k) ==
    /\ m.open /\ k # "BREAK"
    /\ m' = AfterStep(KeyStep([m EXCEPT !.msg = FALSE], k), m)

\* BREAK with no room for the write-back stays in the view.
Leaves(left) == IF left.ok THEN [left.s EXCEPT !.open = FALSE] ELSE Post(left.s, 0, m)
Break ==
    /\ m.open
    /\ m' = Leaves(Leave([m EXCEPT !.msg = FALSE], 0))

----------------------------------------------------------------------------
\* VIEW_SESSION, and the console between sessions

Lines(store) == LET f[p \in Nat] == IF p >= Len(store) THEN <<>>
                                    ELSE <<TextAt(store, p)>> \o f[NextLine(store, p)]
                IN f[0]
\* Refused, changing nothing: an unterminated tail, a line over MaxLen or one
\* that needs another row.
Terminated(store) == store = <<>> \/ IsEnd(store[Len(store)])
LongLine(store) ==
    \/ ~Terminated(store)
    \/ \E i \in 1..Len(Lines(store)) : LET t == Lines(store)[i] IN Len(t) > MaxLen \/ Overflow(t)

OpenAt(s, i) ==
    RedrawAll(Fit(Load([s EXCEPT !.cur = i, !.count = Len(Lines(s.store)), !.msg = FALSE, !.open = TRUE,
                                 !.top = IF i >= ScreenRows - 1 THEN i - (ScreenRows - 1) ELSE 0,
                                 !.cell = <<0, 0>>])))

\* Home may have changed the store: the mark goes to line 0.
Unmarked(s) == [s EXCEPT !.mark = [n |-> 0, ptr |-> 0]]

Open ==
    /\ ~m.open /\ ~LongLine(m.store)
    /\ \/ \E i \in 0..Len(Lines(m.store)) - 1 : m' = OpenAt(Unmarked(m), i)
       \/ /\ Room(m, 1)
          /\ m' = OpenAt(Insert(Unmarked(m), Len(m.store)), Len(Lines(m.store)))

\* The commit takes every mark out; the console writes its own screen.
Home(s) == [s EXCEPT !.scr = [r \in RowIds |-> <<Space>>], !.sh = [r \in RowIds |-> Unknown],
                     !.flash = {<<ScreenRows - 1, 0>>}, !.cell = <<0, 0>>,
                     !.status = <<>>, !.msg = FALSE]
Console ==
    /\ ~m.open
    /\ \E store \in Texts \cup {[i \in 1..Len(m.store) |-> IF m.store[i] = CRM THEN CR ELSE m.store[i]]} :
           m' = [Home(m) EXCEPT !.store = store]

Init ==
    \E store \in Texts :
        m = Home([store |-> store, mark |-> [n |-> 0, ptr |-> 0], cur |-> 0, count |-> 0, top |-> 0,
                  crow |-> 0, crows |-> 1, buf |-> <<>>, cursor |-> 0, sh |-> <<>>, scr |-> <<>>,
                  flash |-> {}, cell |-> <<0, 0>>, msg |-> FALSE, status |-> <<>>, open |-> FALSE])

Keys == Typed \cup LineKeys \cup {"UP", "DOWN", "ENTER", "INSERT_LINE", "DELETE_LINE"}
Next == (\E k \in Keys : Key(k)) \/ Break \/ Open \/ Console

Spec == Init /\ [][Next]_vars

----------------------------------------------------------------------------
\* Properties

\* After every key the screen is what a full redraw of the same state onto a
\* blank screen draws, the cursor on one cell, and the cursor line is whole on
\* it (the oracle of tools/edtest.py N9).
ScreenTrue ==
    m.open =>
        LET ref == RedrawAll([m EXCEPT !.scr = [r \in RowIds |-> <<>>], !.flash = {}])
        IN /\ m.scr = ref.scr /\ m.flash = ref.flash /\ m.status = ref.status
           /\ Cardinality(m.flash) = 1
           /\ m.crow >= 0 /\ m.crow + Len(Wrapped(m)) <= ScreenRows

\* Every key does to the lines what the promise of the view says, and the view
\* scrolls the least that shows the cursor line.
Stores == UNION {[1..n -> Chars \cup {CR, CRM}] : n \in 0..Cap}
Marked == [store \in Stores |->
    LET end(p) == CHOOSE q \in p + 1..Len(store) + 1 :
                      /\ q = Len(store) + 1 \/ IsEnd(store[q])
                      /\ \A o \in p + 1..q - 1 : ~IsEnd(store[o])
        f[p \in Nat] == IF p >= Len(store) THEN <<>>
                        ELSE << [text |-> SubSeq(store, p + 1, end(p) - 1),
                                 marked |-> end(p) <= Len(store) /\ store[end(p)] = CRM] >> \o f[end(p)]
    IN f[0]]
VM == INSTANCE ViewModel WITH
        lines <- Marked[m.store], cur <- m.cur, line <- Line(m), top <- m.top,
        open <- m.open, full <- m.msg
ImplementsView == VM!Spec
=============================================================================
