---------------------------- MODULE ConsoleProofs ----------------------------
(* What a line printed stays on the screen while the next one is typed, for any screen, width,
   number of rows, keys, texts and output.

   The rows from the print position down to the input line are blank (BlankBelow): where the
   line claims a row it finds it blank or has scrolled the screen, and where it gives rows up
   it has cleared them.  The rows above are the line's output as far as it is on the screen
   (OnScreen), and while a line that took one row runs, the row of the print position is what
   it last printed (Current).                                                               *)
EXTENDS Console, FiniteSetTheorems, WellFoundedInduction, TLAPS

Items == Glyphs \cup {"OK", "?"}
\* The console with the print position at most at the column given, and the line it shows.
ConsoleTo(s, most) ==
    /\ s = [screen |-> s.screen, row |-> s.row, col |-> s.col, old |-> s.old]
    /\ s.screen = [r \in Rows |-> s.screen[r]] /\ \A r \in Rows : s.screen[r] = [c \in 1..Width |-> s.screen[r][c]]
    /\ s.row \in 0..EDIT_ROW - 1 /\ s.col \in 0..most /\ s.old \in 1..MaxRows
IsConsole(s) == ConsoleTo(s, Width - 1)
IsLine(l) == /\ l = [text |-> l.text, cursor |-> l.cursor] /\ l.text \in Seq(Chars) /\ Len(l.text) <= MaxLen
             /\ l.cursor \in 0..Len(l.text)
\* The rows from the print position down to the input line are blank.
BlankTo(s, last) == \A r \in s.row..last : \A c \in 1..Width : (r = s.row /\ c <= s.col) \/ s.screen[r][c] = Space
BlankBelow(s) == BlankTo(s, EDIT_ROW - s.old)
IsPrinted(p) == p \in Seq(Seq(Items)) /\ Len(p) >= 1 /\ \A i \in 1..Len(p) : Len(p[i]) <= Width
OnScreen(s, p) == \A i \in 1..Len(p) - 1 : s.row - Len(p) + i >= 0 => s.screen[s.row - Len(p) + i] = Padded(p[i])
Current(s, p) == Len(p[Len(p)]) = s.col /\ \A c \in 1..s.col : s.screen[s.row][c] = p[Len(p)][c]
ConsoleInv ==
    /\ IsConsole(con) /\ BlankBelow(con) /\ IsLine(line) /\ mode \in {"prompt", "run"}
    /\ mode = "prompt" => con.col = 0 /\ con.row <= EDIT_ROW + 1 - con.old
    /\ mode = "run" => tall = con.old
    /\ tall = 1 => IsPrinted(printed) /\ OnScreen(con, printed) /\ (mode = "run" => Current(con, printed))
----------------------------------------------------------------------------
\* Induction over the naturals, for a set.
LEMMA Induction ==
  ASSUME NEW S, 0 \in S, \A n \in Nat : n \in S => n + 1 \in S
  PROVE  Nat \subseteq S
<1> SUFFICES ASSUME NEW x \in Nat, x \notin S PROVE FALSE
  OBVIOUS
<1> DEFINE below == {0..n : n \in Nat \ S}
           R == StrictSubsetOrdering(Nat)
<1>1. below \subseteq FiniteSubsetsOf(Nat) /\ below # {}
  <2>1. \A n \in Nat : 0..n \in FiniteSubsetsOf(Nat)
    BY FS_Interval DEF FiniteSubsetsOf
  <2>2. QED
    BY <2>1
<1>2. PICK M \in below : \A B \in below : ~ (<<B, M>> \in R)
  <2> HIDE DEF below, R
  <2>1. IsWellFoundedOn(R, FiniteSubsetsOf(Nat))
    BY FS_StrictSubsetOrderingWellFounded DEF R
  <2>2. QED
    BY <1>1, <2>1, WFMin, Zenon
<1>3. PICK n \in Nat \ S : M = 0..n
  BY <1>2
<1>4. n # 0 /\ n - 1 \in Nat \ S
  BY <1>3
<1>5. 0..n - 1 \subseteq 0..n /\ n \notin 0..n - 1 /\ n \in 0..n
  BY <1>3
<1>6. <<0..n - 1, 0..n>> \in R
  BY <1>5 DEF StrictSubsetOrdering
<1>7. QED
  BY <1>2, <1>3, <1>4, <1>6

\* The last of a set of columns.
LEMMA LastIs == ASSUME NEW n \in Nat, NEW T, T \subseteq 0..n, T # {} PROVE Last(T) \in T /\ \A y \in T : y <= Last(T)
<1> DEFINE HasLast(U) == \E x \in U : \A y \in U : y <= x
           S == {k \in Nat : \A U \in SUBSET (0..k) : U # {} => HasLast(U)}
<1>1. 0 \in S
  <2> SUFFICES ASSUME NEW U \in SUBSET (0..0), U # {} PROVE HasLast(U)
    OBVIOUS
  <2>1. \A x \in U : x \in 0..0 /\ x = 0
    OBVIOUS
  <2>2. PICK x \in U : x = 0
    BY <2>1
  <2>3. x <= x /\ \A y \in U : y = x
    BY <2>1, <2>2
  <2> QED BY <2>3
<1>2. ASSUME NEW k \in Nat, k \in S PROVE k + 1 \in S
  <2> SUFFICES ASSUME NEW U \in SUBSET (0..k + 1), U # {} PROVE HasLast(U)
    OBVIOUS
  <2>1. CASE k + 1 \in U
    BY <2>1
  <2>2. CASE k + 1 \notin U
    <3>1. U \in SUBSET (0..k)
      BY <2>2
    <3> QED BY <3>1, <1>2
  <2> QED BY <2>1, <2>2
<1> HIDE DEF S
<1>3. Nat \subseteq S
  BY <1>1, <1>2, Induction
<1>4. \E x \in T : \A y \in T : y <= x
  BY <1>3 DEF S
<1> QED BY <1>4, Zenon DEF Last

LEMMA Sizes == ASSUME ConsoleParameters
               PROVE  /\ EDIT_ROW \in Nat /\ Width \in Nat /\ Width >= 1 /\ MaxRows \in Nat /\ MaxRows >= 1 /\ MaxRows < EDIT_ROW
                      /\ MaxLen \in Nat /\ Space \in Chars
BY EditLineAssumption DEF ConsoleParameters

\* What is on a row, the blanks at its end left out, is what was printed there.
LEMMA PaddedShows == ASSUME ConsoleParameters, NEW s \in Seq(Items), Len(s) <= Width PROVE Trimmed(Padded(s)) = Trimmed(s)
<1>1. Width \in Nat /\ Len(s) \in Nat /\ Len(s) <= Width
  BY Sizes
<1> DEFINE row == Padded(s)
           keep == {0} \cup {i \in 1..Len(s) : s[i] # Space}
<1>2. row = [c \in 1..Width |-> IF c <= Len(s) THEN s[c] ELSE Space] /\ Len(row) = Width
  BY <1>1 DEF Padded
<1>3. {0} \cup {i \in 1..Len(row) : row[i] # Space} = keep
  BY <1>1, <1>2
<1>4. Last(keep) \in 0..Len(s)
  <2>1. keep \subseteq 0..Len(s) /\ keep # {}
    BY <1>1
  <2>2. Last(keep) \in keep
    BY ONLY <2>1, <1>1, LastIs
  <2> QED BY <2>1, <2>2
<1> HIDE DEF row, keep
<1>5. SubSeq(row, 1, Last(keep)) = SubSeq(s, 1, Last(keep))
  <2>1. SubSeq(row, 1, Last(keep)) = [i \in 1..Last(keep) |-> row[i]] /\ SubSeq(s, 1, Last(keep)) = [i \in 1..Last(keep) |-> s[i]]
    BY <1>1, <1>2, <1>4
  <2>2. \A i \in 1..Last(keep) : row[i] = s[i]
    BY <1>1, <1>2, <1>4
  <2> QED BY <2>1, <2>2
<1> QED BY <1>3, <1>5 DEF Trimmed, row, keep

----------------------------------------------------------------------------
\* The word wrap: a line has between one row and MaxRows of them, an empty one has one.
RowRecord == [start : Nat, len : Int]
IsWrapped(text, rows) ==
    /\ rows \in Seq(RowRecord) /\ Len(rows) >= 1
    /\ Len(text) <= Width => rows = <<Row(text, 0)>>
LEMMA RowIs == ASSUME ConsoleParameters, NEW text \in Seq(Chars), NEW pos \in Nat
               PROVE  Row(text, pos) \in RowRecord /\ Row(text, pos).start = pos /\ pos + Used(Breaks(text, pos)) \in Nat
<1>1. RowLen(Breaks(text, pos)) \in Nat /\ Used(Breaks(text, pos)) \in Nat
  <2>1. Breaks(text, pos) \subseteq 0..Width /\ Width \in Nat
    BY Sizes DEF Breaks
  <2>2. CASE Breaks(text, pos) # {}
    <3>1. Last(Breaks(text, pos)) \in 0..Width
      BY <2>1, <2>2, LastIs
    <3> QED BY <2>2, <3>1 DEF RowLen, Used
  <2> QED BY <2>1, <2>2 DEF RowLen, Used
<1>2. Len(text) - pos \in Int
  OBVIOUS
<1> QED BY <1>1, <1>2 DEF Row, RowRecord

LEMMA NextRowIs == ASSUME ConsoleParameters, NEW text \in Seq(Chars), NEW rows, IsWrapped(text, rows)
                   PROVE  IsWrapped(text, NextRow(text, rows))
<1>1. rows \in Seq(RowRecord) /\ Len(rows) >= 1 /\ Width \in Nat
  BY Sizes DEF IsWrapped
<1> DEFINE pos == rows[Len(rows)].start
           next == Row(text, pos + Used(Breaks(text, pos)))
<1>2. rows[Len(rows)] \in RowRecord
  BY <1>1
<1>3. pos \in Nat
  BY <1>2 DEF RowRecord
<1>4. next \in RowRecord
  <2>1. pos + Used(Breaks(text, pos)) \in Nat
    BY <1>3, RowIs
  <2> QED BY <2>1, RowIs
<1>5. NextRow(text, rows) = IF Len(text) - pos <= Width THEN rows ELSE Append(rows, next)
  BY DEF NextRow
<1>6. Len(text) <= Width => NextRow(text, rows) = <<Row(text, 0)>>
  <2> SUFFICES ASSUME Len(text) <= Width PROVE NextRow(text, rows) = <<Row(text, 0)>>
    OBVIOUS
  <2>1. rows = <<Row(text, 0)>> /\ Len(text) \in Nat
    BY DEF IsWrapped
  <2>2. Row(text, 0).start = 0
    BY RowIs
  <2>3. rows[Len(rows)] = Row(text, 0)
    BY <2>1
  <2>4. pos = 0
    BY <2>2, <2>3
  <2> QED BY <1>1, <1>5, <2>1, <2>4
<1> HIDE DEF pos, next
<1>7. NextRow(text, rows) \in Seq(RowRecord) /\ Len(NextRow(text, rows)) >= 1
  BY <1>1, <1>4, <1>5
<1> QED BY <1>6, <1>7 DEF IsWrapped

\* The rows after n more rows were looked for.
WrapsTo(text, n, f) == f = [i \in 0..n |-> IF i = 0 THEN <<Row(text, 0)>> ELSE NextRow(text, f[i - 1])]
WrapsOn(text, n, f) == f[0] = <<Row(text, 0)>> /\ \A i \in 1..n : f[i] = NextRow(text, f[i - 1])
LEMMA WrapSteps == ASSUME NEW text, NEW n \in Nat, NEW f, WrapsTo(text, n, f) PROVE WrapsOn(text, n, f)
<1>1. f = [i \in 0..n |-> IF i = 0 THEN <<Row(text, 0)>> ELSE NextRow(text, f[i - 1])]
  BY DEF WrapsTo
<1>2. \A i \in 0..n : f[i] = IF i = 0 THEN <<Row(text, 0)>> ELSE NextRow(text, f[i - 1])
  BY <1>1, Zenon
<1>3. 0 \in 0..n /\ \A i \in 1..n : i \in 0..n /\ i # 0
  OBVIOUS
<1> QED BY <1>2, <1>3, Zenon DEF WrapsOn

LEMMA WrapIsDefined == ASSUME NEW text, NEW m \in Nat PROVE \E f : WrapsTo(text, m, f)
<1> DEFINE Good == {n \in Nat : \E f : WrapsTo(text, n, f)}
           first == <<Row(text, 0)>>
<1>1. 0 \in Good
  <2> DEFINE g == [k \in 0..0 |-> first]
  <2> HIDE DEF first
  <2>1. g = [i \in 0..0 |-> IF i = 0 THEN first ELSE NextRow(text, g[i - 1])]
    OBVIOUS
  <2> HIDE DEF g
  <2>2. WrapsTo(text, 0, g)
    BY <2>1 DEF WrapsTo, first
  <2> QED BY <2>2
<1>2. ASSUME NEW n \in Nat, n \in Good PROVE n + 1 \in Good
  <2>1. PICK g : WrapsTo(text, n, g)
    BY <1>2
  <2> DEFINE next == NextRow(text, g[n])
             f == [k \in 0..n + 1 |-> IF k = n + 1 THEN next ELSE g[k]]
  <2> HIDE DEF Good, first, next
  <2>2. f[n + 1] = next /\ \A k \in 0..n : f[k] = g[k]
    OBVIOUS
  <2>3. f = [k \in 0..n + 1 |-> f[k]]
    OBVIOUS
  <2> HIDE DEF f
  <2>4. g[0] = first /\ \A i \in 1..n : g[i] = NextRow(text, g[i - 1])
    <3>1. WrapsOn(text, n, g)
      BY <2>1, WrapSteps
    <3> QED BY <3>1 DEF WrapsOn, first
  <2>5. \A i \in 0..n + 1 : f[i] = IF i = 0 THEN first ELSE NextRow(text, f[i - 1])
    <3> TAKE i \in 0..n + 1
    <3>1. CASE i = 0
      <4>1. 0 \in 0..n
        OBVIOUS
      <4> QED BY <4>1, <3>1, <2>2, <2>4
    <3>2. CASE i = n + 1
      <4>1. n \in 0..n /\ i - 1 = n /\ i # 0
        BY <3>2
      <4> QED BY <4>1, <3>2, <2>2 DEF next
    <3>3. CASE i \in 1..n
      <4>1. i \in 0..n /\ i - 1 \in 0..n /\ i # 0
        BY <3>3
      <4>2. f[i] = g[i] /\ f[i - 1] = g[i - 1]
        BY <4>1, <2>2
      <4>3. g[i] = NextRow(text, g[i - 1])
        BY <3>3, <2>4, Zenon
      <4> QED BY <4>1, <4>2, <4>3, Zenon
    <3> QED BY <3>1, <3>2, <3>3
  <2>6. [i \in 0..n + 1 |-> f[i]] = [i \in 0..n + 1 |-> IF i = 0 THEN first ELSE NextRow(text, f[i - 1])]
    BY <2>5, Zenon
  <2>7. WrapsTo(text, n + 1, f)
    BY <2>3, <2>6, Zenon DEF WrapsTo, first
  <2> QED BY <2>7 DEF Good
<1> HIDE DEF Good
<1>3. Nat \subseteq Good
  BY <1>1, <1>2, Induction
<1> QED BY <1>3 DEF Good

LEMMA RowsAre == ASSUME ConsoleParameters, NEW text \in Seq(Chars), Len(text) <= MaxLen PROVE IsWrapped(text, RowsOf[text])
<1>1. text \in LineTexts
  <2>1. Len(text) \in 0..MaxLen + 1 /\ text \in [1..Len(text) -> Chars]
    BY Sizes
  <2> QED BY <2>1 DEF LineTexts
<1> DEFINE f == CHOOSE g : WrapsTo(text, MaxRows, g)
<1>2. RowsOf[text] = f[MaxRows]
  BY <1>1, Zenon DEF RowsOf, WrapsTo
<1>3. WrapsTo(text, MaxRows, f) /\ MaxRows \in Nat
  BY WrapIsDefined, Sizes
<1> HIDE DEF f
<1>4. f[0] = <<Row(text, 0)>> /\ \A i \in 1..MaxRows : f[i] = NextRow(text, f[i - 1])
  <2>1. WrapsOn(text, MaxRows, f)
    BY <1>3, WrapSteps
  <2> QED BY <2>1 DEF WrapsOn
<1> DEFINE S == {i \in Nat : i <= MaxRows => IsWrapped(text, f[i])}
<1>5. 0 \in S
  <2>1. Row(text, 0) \in RowRecord
    BY RowIs
  <2>2. IsWrapped(text, <<Row(text, 0)>>)
    BY <2>1 DEF IsWrapped
  <2> QED BY <2>2, <1>4
<1>6. ASSUME NEW n \in Nat, n \in S PROVE n + 1 \in S
  <2> SUFFICES ASSUME n + 1 <= MaxRows PROVE IsWrapped(text, f[n + 1])
    OBVIOUS
  <2>1. IsWrapped(text, f[n])
    BY <1>3, <1>6
  <2>2. n + 1 \in 1..MaxRows /\ (n + 1) - 1 = n
    BY <1>3
  <2>3. f[n + 1] = NextRow(text, f[n])
    BY <1>4, <2>2
  <2> QED BY <2>1, <2>3, NextRowIs
<1> HIDE DEF S
<1>7. Nat \subseteq S
  BY <1>5, <1>6, Induction
<1> QED BY <1>2, <1>3, <1>7 DEF S

LEMMA ShownCount == ASSUME ConsoleParameters, NEW text \in Seq(Chars), Len(text) <= MaxLen, NEW cursor
                    PROVE  /\ Len(ShownRows(text, cursor)) \in 1..MaxRows
                           /\ text = <<>> => Len(ShownRows(text, cursor)) = 1
<1>1. /\ RowsOf[text] \in Seq(RowRecord) /\ Len(RowsOf[text]) >= 1 /\ Len(RowsOf[text]) \in Nat
      /\ Len(text) <= Width => RowsOf[text] = <<Row(text, 0)>>
  BY RowsAre DEF IsWrapped
<1> DEFINE rows == WrapRows(text)
<1>2. rows \in Seq(RowRecord) /\ Len(rows) \in 1..MaxRows
  BY <1>1, Sizes DEF WrapRows, FirstRows
<1>3. Len(ShownRows(text, cursor)) \in 1..MaxRows
  <2>1. [start |-> Len(text), len |-> 0] \in RowRecord
    BY DEF RowRecord
  <2>2. ShownRows(text, cursor) = rows \/ (Len(rows) < MaxRows /\ ShownRows(text, cursor) = Append(rows, [start |-> Len(text), len |-> 0]))
    BY DEF ShownRows, WithCursorRow
  <2> HIDE DEF rows
  <2> QED BY <2>1, <2>2, <1>2, Sizes
<1>4. ASSUME text = <<>> PROVE Len(ShownRows(text, cursor)) = 1
  <2>1. Len(text) = 0 /\ RowsOf[text] = <<Row(text, 0)>>
    BY <1>1, <1>4, Sizes
  <2>2. Row(text, 0) = [start |-> 0, len |-> 0]
    BY <2>1, Sizes DEF Row
  <2>3. Len(rows) = 1 /\ rows[1] = Row(text, 0)
    <3>1. RowsOf[text] \in Seq(RowRecord) /\ Len(RowsOf[text]) = 1 /\ RowsOf[text][1] = Row(text, 0)
      BY <2>1, <1>1
    <3> QED BY <3>1, Sizes DEF WrapRows, FirstRows
  <2>4. rows[Len(rows)].len # Width
    BY <2>2, <2>3, Sizes
  <2> HIDE DEF rows
  <2>5. ShownRows(text, cursor) = rows
    BY <2>4 DEF ShownRows, WithCursorRow, rows
  <2> QED BY <2>3, <2>5
<1> QED BY <1>3, <1>4
----------------------------------------------------------------------------
\* Output.
LEMMA NewLineKeeps ==
    ASSUME ConsoleParameters, NEW s, ConsoleTo(s, Width), BlankBelow(s), NEW t, t = NewLine(s)
    PROVE  IsConsole(t) /\ BlankBelow(t) /\ t.old = s.old /\ t.col = 0
<1>1. /\ s = [screen |-> s.screen, row |-> s.row, col |-> s.col, old |-> s.old]
      /\ s.screen = [r \in Rows |-> s.screen[r]] /\ \A r \in Rows : s.screen[r] = [c \in 1..Width |-> s.screen[r][c]]
      /\ s.row \in 0..EDIT_ROW - 1 /\ s.col \in 0..Width /\ s.old \in 1..MaxRows
  BY DEF ConsoleTo
<1>2. EDIT_ROW \in Nat /\ Width \in Nat /\ Width >= 1 /\ MaxRows \in Nat /\ MaxRows < EDIT_ROW /\ Rows = 0..EDIT_ROW
  BY Sizes DEF Rows
<1>3. CASE s.row + 1 < EDIT_ROW
  <2>1. t = [s EXCEPT !.row = @ + 1, !.col = 0]
    BY <1>3 DEF NewLine
  <2>2. t.screen = s.screen /\ t.row = s.row + 1 /\ t.col = 0 /\ t.old = s.old /\ t = [screen |-> t.screen, row |-> t.row, col |-> t.col, old |-> t.old]
    BY <2>1, <1>1
  <2>3. IsConsole(t)
    BY <2>2, <1>1, <1>2, <1>3 DEF IsConsole, ConsoleTo
  <2>4. BlankBelow(t)
    <3> SUFFICES ASSUME NEW r \in t.row..EDIT_ROW - t.old, NEW c \in 1..Width PROVE t.screen[r][c] = Space
      BY DEF BlankBelow, BlankTo
    <3>1. r \in s.row..EDIT_ROW - s.old /\ r # s.row
      BY <2>2, <1>1, <1>2
    <3> QED BY <3>1, <2>2 DEF BlankBelow, BlankTo
  <2> QED BY <2>2, <2>3, <2>4
<1>4. CASE ~(s.row + 1 < EDIT_ROW)
  <2>1. t = [s EXCEPT !.screen = ScrollTextUp(@), !.row = EDIT_ROW - 1, !.col = 0]
    BY <1>4 DEF NewLine
  <2>2. t.screen = ScrollTextUp(s.screen) /\ t.row = EDIT_ROW - 1 /\ t.col = 0 /\ t.old = s.old
        /\ t = [screen |-> t.screen, row |-> t.row, col |-> t.col, old |-> t.old]
    BY <2>1, <1>1
  <2>3. /\ t.screen = [r \in Rows |-> t.screen[r]]
        /\ \A r \in Rows : t.screen[r] = IF r < EDIT_ROW - 1 THEN s.screen[r + 1] ELSE IF r = EDIT_ROW - 1 THEN Blank ELSE s.screen[r]
    BY <2>2 DEF ScrollTextUp
  <2>4. \A r \in Rows : t.screen[r] = [c \in 1..Width |-> t.screen[r][c]]
    <3> TAKE r \in Rows
    <3>1. CASE r < EDIT_ROW - 1
      <4>1. r + 1 \in Rows /\ t.screen[r] = s.screen[r + 1]
        BY <3>1, <2>3, <1>2
      <4> QED BY <4>1, <1>1
    <3>2. CASE r = EDIT_ROW - 1
      <4>1. t.screen[r] = Blank
        BY <3>2, <2>3, <1>2
      <4> QED BY <4>1 DEF Blank
    <3>3. CASE ~(r < EDIT_ROW - 1) /\ r # EDIT_ROW - 1
      <4>1. t.screen[r] = s.screen[r]
        BY <3>3, <2>3
      <4> QED BY <4>1, <1>1
    <3> QED BY <3>1, <3>2, <3>3
  <2>7. t.row = EDIT_ROW - 1 /\ t.row \in 0..EDIT_ROW - 1 /\ t.col \in 0..Width - 1 /\ t.old \in 1..MaxRows /\ t.old \in Nat /\ t.old >= 1
    BY <2>2, <1>1, <1>2
  <2>5. IsConsole(t)
    BY <2>2, <2>3, <2>4, <2>7 DEF IsConsole, ConsoleTo
  <2>6. BlankBelow(t)
    <3> SUFFICES ASSUME NEW r \in t.row..EDIT_ROW - t.old, NEW c \in 1..Width PROVE t.screen[r][c] = Space
      BY DEF BlankBelow, BlankTo
    <3>1. r = EDIT_ROW - 1 /\ r \in Rows
      BY <2>7, <1>2
    <3>2. t.screen[r] = Blank
      BY <3>1, <2>3
    <3> QED BY <3>2 DEF Blank
  <2> QED BY <2>2, <2>5, <2>6
<1> QED BY <1>3, <1>4

\* The row a new line leaves is the one last printed.
LEMMA NewLineShows ==
    ASSUME ConsoleParameters, NEW s, ConsoleTo(s, Width), BlankBelow(s), s.old = 1, NEW p, IsPrinted(p), OnScreen(s, p), Current(s, p),
           NEW t, t = NewLine(s)
    PROVE  IsPrinted(NoteCR(p)) /\ OnScreen(t, NoteCR(p)) /\ Current(t, NoteCR(p))
<1>1. /\ s = [screen |-> s.screen, row |-> s.row, col |-> s.col, old |-> s.old]
      /\ s.screen = [r \in Rows |-> s.screen[r]] /\ \A r \in Rows : s.screen[r] = [c \in 1..Width |-> s.screen[r][c]]
      /\ s.row \in 0..EDIT_ROW - 1 /\ s.col \in 0..Width
  BY DEF ConsoleTo
<1>2. EDIT_ROW \in Nat /\ Width \in Nat /\ Rows = 0..EDIT_ROW
  BY Sizes DEF Rows
<1> DEFINE n == Len(p)
           q == NoteCR(p)
<1>3. p \in Seq(Seq(Items)) /\ n \in Nat /\ n >= 1 /\ \A i \in 1..n : p[i] \in Seq(Items) /\ Len(p[i]) <= Width
  BY DEF IsPrinted
<1>4. q \in Seq(Seq(Items)) /\ Len(q) = n + 1 /\ q[n + 1] = <<>> /\ \A i \in 1..n : q[i] = p[i]
  <2>1. <<>> \in Seq(Items)
    OBVIOUS
  <2> QED BY <1>3, <2>1 DEF NoteCR
<1>5. t.col = 0
  BY NewLineKeeps
<1>6. IsPrinted(q)
  <2> SUFFICES ASSUME NEW i \in 1..Len(q) PROVE Len(q[i]) <= Width
    BY <1>3, <1>4 DEF IsPrinted
  <2>1. i \in 1..n \/ i = n + 1
    BY <1>3, <1>4
  <2>2. Len(<<>>) <= Width
    BY <1>2
  <2> HIDE DEF n, q
  <2> QED BY <2>1, <2>2, <1>3, <1>4
<1>7. Current(t, q)
  <2>1. Len(q[Len(q)]) = 0 /\ t.col = 0
    BY <1>4, <1>5
  <2>2. 1..t.col = {}
    BY <2>1
  <2> QED BY <2>1, <2>2 DEF Current
\* The rows above, and the one the position leaves
<1>8. s.screen[s.row] = Padded(p[n])
  <2>1. s.row \in s.row..EDIT_ROW - s.old /\ s.row \in Rows
    BY <1>1, <1>2
  <2>2. \A c \in 1..Width : c <= s.col \/ s.screen[s.row][c] = Space
    BY <2>1 DEF BlankBelow, BlankTo
  <2>3. Len(p[n]) = s.col /\ \A c \in 1..s.col : s.screen[s.row][c] = p[n][c]
    BY DEF Current
  <2>4. s.screen[s.row] = [c \in 1..Width |-> s.screen[s.row][c]]
    BY <1>1, <2>1
  <2>5. \A c \in 1..Width : s.screen[s.row][c] = IF c <= Len(p[n]) THEN p[n][c] ELSE Space
    <3> TAKE c \in 1..Width
    <3>1. CASE c <= s.col
      <4>1. c \in 1..s.col
        BY <3>1, <1>1, <1>2
      <4> QED BY <4>1, <3>1, <2>3
    <3>2. CASE ~(c <= s.col)
      BY <3>2, <2>2, <2>3
    <3> QED BY <3>1, <3>2
  <2>6. [c \in 1..Width |-> s.screen[s.row][c]] = [c \in 1..Width |-> IF c <= Len(p[n]) THEN p[n][c] ELSE Space]
    BY <2>5, Zenon
  <2> QED BY <2>4, <2>6, Zenon DEF Padded
<1>9. \A i \in 1..n : s.row - n + i >= 0 => s.screen[s.row - n + i] = Padded(p[i])
  <2> SUFFICES ASSUME NEW i \in 1..n, s.row - n + i >= 0 PROVE s.screen[s.row - n + i] = Padded(p[i])
    OBVIOUS
  <2>1. CASE i \in 1..n - 1
    BY <2>1 DEF OnScreen
  <2>2. CASE i = n
    <3>1. s.row - n + i = s.row
      BY <2>2, <1>1, <1>3
    <3> QED BY <3>1, <2>2, <1>8
  <2> QED BY <2>1, <2>2, <1>3
<1>10. OnScreen(t, q)
  <2> SUFFICES ASSUME NEW i \in 1..n, t.row - (n + 1) + i >= 0 PROVE t.screen[t.row - (n + 1) + i] = Padded(q[i])
    <3>1. Len(q) - 1 = n /\ Len(q) = n + 1
      BY <1>3, <1>4
    <3> HIDE DEF n, q
    <3> QED BY <3>1 DEF OnScreen
  <2>1. CASE s.row + 1 < EDIT_ROW
    <3>1. t.screen = s.screen /\ t.row = s.row + 1
      BY <2>1, <1>1 DEF NewLine
    <3>2. t.row - (n + 1) + i = s.row - n + i
      BY <3>1, <1>1, <1>3
    <3> QED BY <3>1, <3>2, <1>4, <1>9
  <2>2. CASE ~(s.row + 1 < EDIT_ROW)
    <3>1. t.screen = ScrollTextUp(s.screen) /\ t.row = EDIT_ROW - 1 /\ s.row = EDIT_ROW - 1
      BY <2>2, <1>1, <1>2 DEF NewLine
    <3> DEFINE r == t.row - (n + 1) + i
    <3>2. r \in Rows /\ r < EDIT_ROW - 1 /\ r + 1 = s.row - n + i /\ s.row - n + i >= 0
      BY <3>1, <1>2, <1>3
    <3> HIDE DEF r
    <3>3. t.screen[r] = s.screen[r + 1]
      BY <3>1, <3>2 DEF ScrollTextUp
    <3>4. s.screen[r + 1] = Padded(p[i])
      BY <3>2, <1>9
    <3> QED BY <3>3, <3>4, <1>4 DEF r
  <2> QED BY <2>1, <2>2
<1> QED BY <1>6, <1>7, <1>10
\* A character at the print position, before the row may end.
Placed(s, c) == [s EXCEPT !.screen[s.row][s.col + 1] = c, !.col = @ + 1]
Added(p, c) == [p EXCEPT ![Len(p)] = Append(@, c)]

LEMMA PlacedIs ==
    ASSUME ConsoleParameters, NEW s, IsConsole(s), BlankBelow(s), NEW c, NEW t, t = Placed(s, c)
    PROVE  /\ ConsoleTo(t, Width) /\ BlankBelow(t) /\ t.old = s.old /\ t.row = s.row /\ t.col = s.col + 1
           /\ \A r \in Rows : r # s.row => t.screen[r] = s.screen[r]
           /\ \A d \in 1..Width : t.screen[s.row][d] = IF d = s.col + 1 THEN c ELSE s.screen[s.row][d]
<1>1. /\ s = [screen |-> s.screen, row |-> s.row, col |-> s.col, old |-> s.old]
      /\ s.screen = [r \in Rows |-> s.screen[r]] /\ \A r \in Rows : s.screen[r] = [d \in 1..Width |-> s.screen[r][d]]
      /\ s.row \in 0..EDIT_ROW - 1 /\ s.col \in 0..Width - 1 /\ s.old \in 1..MaxRows
  BY DEF IsConsole, ConsoleTo
<1>2. EDIT_ROW \in Nat /\ Width \in Nat /\ MaxRows \in Nat /\ MaxRows < EDIT_ROW /\ Rows = 0..EDIT_ROW
  BY Sizes DEF Rows
<1> DEFINE row == [s.screen[s.row] EXCEPT ![s.col + 1] = c]
           scr == [s.screen EXCEPT ![s.row] = row]
<1>3. s.row \in Rows /\ s.col + 1 \in 1..Width
  BY <1>1, <1>2
<1>4. /\ row = [d \in 1..Width |-> row[d]]
      /\ \A d \in 1..Width : row[d] = IF d = s.col + 1 THEN c ELSE s.screen[s.row][d]
  <2>1. s.screen[s.row] = [d \in 1..Width |-> s.screen[s.row][d]]
    BY <1>1, <1>3
  <2> QED BY <2>1
<1>5. t = [s EXCEPT !.screen = scr, !.col = s.col + 1]
  <2>1. t = [s EXCEPT !.screen[s.row][s.col + 1] = c, !.col = @ + 1]
    BY DEF Placed
  <2> QED BY <2>1, <1>1
<1> HIDE DEF row
<1>6. scr = [r \in Rows |-> scr[r]] /\ scr[s.row] = row /\ \A r \in Rows : r # s.row => scr[r] = s.screen[r]
  BY <1>1, <1>3
<1> HIDE DEF scr
<1>7. /\ t.screen = scr /\ t.row = s.row /\ t.col = s.col + 1 /\ t.old = s.old
      /\ t = [screen |-> t.screen, row |-> t.row, col |-> t.col, old |-> t.old]
  BY <1>1, <1>5
<1>8. \A r \in Rows : t.screen[r] = [d \in 1..Width |-> t.screen[r][d]]
  <2> TAKE r \in Rows
  <2>1. CASE r = s.row
    BY <2>1, <1>4, <1>6, <1>7
  <2>2. CASE r # s.row
    <3>1. t.screen[r] = s.screen[r]
      BY <2>2, <1>6, <1>7
    <3> QED BY <3>1, <1>1
  <2> QED BY <2>1, <2>2
<1>9. ConsoleTo(t, Width)
  <2>1. t.row \in 0..EDIT_ROW - 1 /\ t.col \in 0..Width /\ t.old \in 1..MaxRows
    BY <1>1, <1>2, <1>7
  <2> QED BY <2>1, <1>6, <1>7, <1>8 DEF ConsoleTo
<1>10. BlankBelow(t)
  <2> SUFFICES ASSUME NEW r \in t.row..EDIT_ROW - t.old, NEW d \in 1..Width PROVE (r = t.row /\ d <= t.col) \/ t.screen[r][d] = Space
    BY DEF BlankBelow, BlankTo
  <2>1. r \in s.row..EDIT_ROW - s.old /\ r \in Rows
    BY <1>1, <1>2, <1>7
  <2>2. (r = s.row /\ d <= s.col) \/ s.screen[r][d] = Space
    BY <2>1 DEF BlankBelow, BlankTo
  <2>3. CASE r = s.row
    <3>1. d <= s.col + 1 \/ d # s.col + 1
      BY <1>1, <1>2
    <3>2. d <= s.col => d <= s.col + 1
      BY <1>1, <1>2
    <3> QED BY <2>2, <2>3, <3>1, <3>2, <1>4, <1>6, <1>7
  <2>4. CASE r # s.row
    BY <2>1, <2>2, <2>4, <1>6, <1>7
  <2> QED BY <2>3, <2>4
<1> QED BY <1>4, <1>6, <1>7, <1>9, <1>10

LEMMA PlacedShows ==
    ASSUME ConsoleParameters, NEW s, IsConsole(s), BlankBelow(s), NEW p, IsPrinted(p), OnScreen(s, p), Current(s, p),
           NEW c \in Items, NEW t, t = Placed(s, c)
    PROVE  IsPrinted(Added(p, c)) /\ OnScreen(t, Added(p, c)) /\ Current(t, Added(p, c))
<1>1. s.row \in 0..EDIT_ROW - 1 /\ s.col \in 0..Width - 1
  BY DEF IsConsole, ConsoleTo
<1>2. EDIT_ROW \in Nat /\ Width \in Nat /\ Rows = 0..EDIT_ROW
  BY Sizes DEF Rows
<1>3. /\ t.row = s.row /\ t.col = s.col + 1
      /\ \A r \in Rows : r # s.row => t.screen[r] = s.screen[r]
      /\ \A d \in 1..Width : t.screen[s.row][d] = IF d = s.col + 1 THEN c ELSE s.screen[s.row][d]
  BY PlacedIs
<1> DEFINE n == Len(p)
           q == Added(p, c)
<1>4. p \in Seq(Seq(Items)) /\ n \in Nat /\ n >= 1 /\ \A i \in 1..n : p[i] \in Seq(Items) /\ Len(p[i]) <= Width
  BY DEF IsPrinted
<1>5. p[n] \in Seq(Items) /\ Len(p[n]) = s.col /\ \A d \in 1..s.col : s.screen[s.row][d] = p[n][d]
  BY <1>4 DEF Current
<1>6. /\ q \in Seq(Seq(Items)) /\ Len(q) = n /\ q[n] = Append(p[n], c) /\ \A i \in 1..n - 1 : q[i] = p[i]
  <2>1. Append(p[n], c) \in Seq(Items)
    BY <1>5
  <2>2. q = [p EXCEPT ![n] = Append(p[n], c)]
    BY DEF Added
  <2> HIDE DEF q
  <2> QED BY <2>1, <2>2, <1>4
<1> HIDE DEF q
<1>7. Len(q[n]) = s.col + 1 /\ \A d \in 1..s.col + 1 : q[n][d] = IF d = s.col + 1 THEN c ELSE p[n][d]
  BY <1>5, <1>6
<1>8. IsPrinted(q)
  <2> SUFFICES ASSUME NEW i \in 1..n PROVE Len(q[i]) <= Width
    BY <1>4, <1>6 DEF IsPrinted
  <2>1. CASE i = n
    BY <2>1, <1>1, <1>2, <1>7
  <2>2. CASE i \in 1..n - 1
    BY <2>2, <1>4, <1>6
  <2> QED BY <2>1, <2>2, <1>4
<1>9. OnScreen(t, q)
  <2> SUFFICES ASSUME NEW i \in 1..n - 1, s.row - n + i >= 0 PROVE t.screen[s.row - n + i] = Padded(q[i])
    BY <1>3, <1>6 DEF OnScreen
  <2>1. s.screen[s.row - n + i] = Padded(p[i])
    BY DEF OnScreen
  <2>2. s.row - n + i \in Rows /\ s.row - n + i # s.row
    BY <1>1, <1>2, <1>4
  <2> QED BY <2>1, <2>2, <1>3, <1>6
<1>10. Current(t, q)
  <2> SUFFICES ASSUME NEW d \in 1..s.col + 1 PROVE t.screen[s.row][d] = q[n][d]
    BY <1>3, <1>6, <1>7 DEF Current
  <2>1. d \in 1..Width /\ (d = s.col + 1 \/ d \in 1..s.col)
    BY <1>1, <1>2
  <2>2. CASE d = s.col + 1
    BY <2>1, <2>2, <1>3, <1>7
  <2>3. CASE d \in 1..s.col
    <3>1. d # s.col + 1 /\ s.screen[s.row][d] = p[n][d]
      BY <2>3, <1>1, <1>2, <1>5
    <3> QED BY <2>1, <3>1, <1>3, <1>7
  <2> QED BY <2>1, <2>2, <2>3
<1> QED BY <1>8, <1>9, <1>10 DEF q

LEMMA PutKeeps ==
    ASSUME ConsoleParameters, NEW s, IsConsole(s), BlankBelow(s), NEW c, NEW t, t = Put(s, c)
    PROVE  IsConsole(t) /\ BlankBelow(t) /\ t.old = s.old
<1> DEFINE u == Placed(s, c)
<1>1. ConsoleTo(u, Width) /\ BlankBelow(u) /\ u.old = s.old
  BY PlacedIs
<1>2. t = IF u.col < Width THEN u ELSE NewLine(u)
  BY DEF Put, Placed
<1> HIDE DEF u
<1>3. CASE u.col < Width
  <2>1. u.col \in 0..Width - 1
    BY <1>1, <1>3, Sizes DEF ConsoleTo
  <2>2. IsConsole(u)
    BY <2>1, <1>1 DEF ConsoleTo, IsConsole
  <2> QED BY <2>2, <1>1, <1>2, <1>3
<1>4. CASE ~(u.col < Width)
  <2>1. t = NewLine(u)
    BY <1>2, <1>4
  <2> QED BY <2>1, <1>1, NewLineKeeps
<1> QED BY <1>3, <1>4

LEMMA PutShows ==
    ASSUME ConsoleParameters, NEW s, IsConsole(s), BlankBelow(s), s.old = 1, NEW p, IsPrinted(p), OnScreen(s, p), Current(s, p),
           NEW c \in Items, NEW t, t = Put(s, c)
    PROVE  IsPrinted(Note(p, c)) /\ OnScreen(t, Note(p, c)) /\ Current(t, Note(p, c))
<1> DEFINE u == Placed(s, c)
           q == Added(p, c)
<1>1. ConsoleTo(u, Width) /\ BlankBelow(u) /\ u.old = s.old
  BY PlacedIs
<1>2. IsPrinted(q) /\ OnScreen(u, q) /\ Current(u, q)
  BY PlacedShows
<1>3. t = IF u.col < Width THEN u ELSE NewLine(u)
  BY DEF Put, Placed
<1>4. Note(p, c) = IF Len(q[Len(q)]) < Width THEN q ELSE NoteCR(q)
  BY DEF Note, Added
<1> HIDE DEF u, q
<1>5. Len(q[Len(q)]) = u.col
  BY <1>2 DEF Current
<1>6. CASE u.col < Width
  BY <1>2, <1>3, <1>4, <1>5, <1>6
<1>7. CASE ~(u.col < Width)
  <2>1. t = NewLine(u) /\ Note(p, c) = NoteCR(q)
    BY <1>3, <1>4, <1>5, <1>7
  <2> QED BY <2>1, <1>1, <1>2, NewLineShows
<1> QED BY <1>6, <1>7
----------------------------------------------------------------------------
\* The input line's growth, a row at a time.
Claimed(g, c) == IF g.row >= EDIT_ROW + 2 - c THEN [g EXCEPT !.screen = ScrollOutputUp(@), !.row = @ - 1] ELSE g
GrowsTo(s, a, n, f) == f = [c \in a..n |-> IF c = a THEN s ELSE Claimed(f[c - 1], c)]
GrowsOn(s, a, n, f) == f[a] = s /\ \A c \in a + 1..n : f[c] = Claimed(f[c - 1], c)
LEMMA GrowSteps == ASSUME NEW s, NEW a \in Nat, NEW n \in Nat, a <= n, NEW f, GrowsTo(s, a, n, f) PROVE GrowsOn(s, a, n, f)
<1>1. f = [c \in a..n |-> IF c = a THEN s ELSE Claimed(f[c - 1], c)]
  BY DEF GrowsTo
<1>2. \A c \in a..n : f[c] = IF c = a THEN s ELSE Claimed(f[c - 1], c)
  BY <1>1, Zenon
<1>3. a \in a..n /\ \A c \in a + 1..n : c \in a..n /\ c # a
  OBVIOUS
<1> QED BY <1>2, <1>3, Zenon DEF GrowsOn

LEMMA GrowthIsDefined == ASSUME NEW s, NEW a \in Nat, NEW m \in Nat, a <= m PROVE \E f : GrowsTo(s, a, m, f)
<1> DEFINE Good == {k \in Nat : \E f : GrowsTo(s, a, a + k, f)}
<1>1. 0 \in Good
  <2> DEFINE g == [c \in a..a |-> s]
  <2>1. g = [c \in a..a |-> IF c = a THEN s ELSE Claimed(g[c - 1], c)]
    OBVIOUS
  <2> HIDE DEF g
  <2>2. GrowsTo(s, a, a, g) /\ a + 0 = a
    BY <2>1 DEF GrowsTo
  <2> QED BY <2>2
<1>2. ASSUME NEW k \in Nat, k \in Good PROVE k + 1 \in Good
  <2> DEFINE n == a + k
  <2>n. n \in Nat /\ a <= n /\ a + (k + 1) = n + 1
    OBVIOUS
  <2>1. PICK g : GrowsTo(s, a, n, g)
    BY <1>2
  <2> DEFINE next == Claimed(g[n], n + 1)
             f == [c \in a..n + 1 |-> IF c = n + 1 THEN next ELSE g[c]]
  <2> HIDE DEF Good, next, n
  <2>2. f[n + 1] = next /\ \A c \in a..n : f[c] = g[c]
    BY <2>n
  <2>3. f = [c \in a..n + 1 |-> f[c]]
    OBVIOUS
  <2> HIDE DEF f
  <2>4. g[a] = s /\ \A c \in a + 1..n : g[c] = Claimed(g[c - 1], c)
    <3>1. GrowsOn(s, a, n, g)
      BY <2>1, <2>n, GrowSteps
    <3> QED BY <3>1 DEF GrowsOn
  <2>5. \A c \in a..n + 1 : f[c] = IF c = a THEN s ELSE Claimed(f[c - 1], c)
    <3> TAKE c \in a..n + 1
    <3>1. CASE c = a
      <4>1. a \in a..n
        BY <2>n
      <4> QED BY <4>1, <3>1, <2>2, <2>4
    <3>2. CASE c = n + 1
      <4>1. n \in a..n /\ c - 1 = n /\ c # a
        BY <3>2, <2>n
      <4> QED BY <4>1, <3>2, <2>2 DEF next
    <3>3. CASE c \in a + 1..n
      <4>1. c \in a..n /\ c - 1 \in a..n /\ c # a
        BY <3>3, <2>n
      <4>2. f[c] = g[c] /\ f[c - 1] = g[c - 1]
        BY <4>1, <2>2
      <4>3. g[c] = Claimed(g[c - 1], c)
        BY <3>3, <2>4, Zenon
      <4> QED BY <4>1, <4>2, <4>3, Zenon
    <3> QED BY <3>1, <3>2, <3>3, <2>n
  <2>6. [c \in a..n + 1 |-> f[c]] = [c \in a..n + 1 |-> IF c = a THEN s ELSE Claimed(f[c - 1], c)]
    BY <2>5, Zenon
  <2>7. GrowsTo(s, a, n + 1, f)
    BY <2>3, <2>6, Zenon DEF GrowsTo
  <2>8. GrowsTo(s, a, a + (k + 1), f)
    BY <2>7, <2>n
  <2> QED BY <2>8 DEF Good
<1> HIDE DEF Good
<1>3. Nat \subseteq Good
  BY <1>1, <1>2, Induction
<1>4. m - a \in Good /\ a + (m - a) = m
  BY <1>3
<1> QED BY <1>4 DEF Good

\* With c rows claimed: what was on the screen is there, as far as it was not scrolled off.
Grows(s, g, c) ==
    /\ IsConsole(g) /\ g.col = 0 /\ g.old = s.old /\ g.row <= EDIT_ROW + 1 - c /\ BlankTo(g, EDIT_ROW - c)
    /\ \A p : IsPrinted(p) /\ OnScreen(s, p) => OnScreen(g, p)
LEMMA ClaimGrows ==
    ASSUME ConsoleParameters, NEW s, NEW c \in 1..MaxRows - 1, NEW g, Grows(s, g, c), NEW t, t = Claimed(g, c + 1)
    PROVE  Grows(s, t, c + 1)
<1>1. /\ g = [screen |-> g.screen, row |-> g.row, col |-> g.col, old |-> g.old]
      /\ g.screen = [r \in Rows |-> g.screen[r]] /\ \A r \in Rows : g.screen[r] = [d \in 1..Width |-> g.screen[r][d]]
      /\ g.row \in 0..EDIT_ROW - 1 /\ g.col \in 0..Width - 1 /\ g.old \in 1..MaxRows
  BY DEF Grows, IsConsole, ConsoleTo
<1>2. EDIT_ROW \in Nat /\ Width \in Nat /\ MaxRows \in Nat /\ MaxRows < EDIT_ROW /\ Rows = 0..EDIT_ROW /\ c \in Nat /\ c + 1 <= MaxRows
  BY Sizes DEF Rows
<1>3. /\ IsConsole(g) /\ g.col = 0 /\ g.old = s.old /\ g.row <= EDIT_ROW + 1 - c /\ BlankTo(g, EDIT_ROW - c)
      /\ \A p : IsPrinted(p) /\ OnScreen(s, p) => OnScreen(g, p)
  BY DEF Grows
<1>4. CASE g.row >= EDIT_ROW + 2 - (c + 1)
  <2>1. t = [g EXCEPT !.screen = ScrollOutputUp(@), !.row = @ - 1]
    BY <1>4 DEF Claimed
  <2>2. /\ t.screen = ScrollOutputUp(g.screen) /\ t.row = g.row - 1 /\ t.col = g.col /\ t.old = g.old
        /\ t = [screen |-> t.screen, row |-> t.row, col |-> t.col, old |-> t.old]
    BY <2>1, <1>1
  <2>3. /\ t.screen = [r \in Rows |-> t.screen[r]]
        /\ \A r \in Rows : t.screen[r] = IF r < EDIT_ROW THEN g.screen[r + 1] ELSE Blank
    BY <2>2 DEF ScrollOutputUp
  <2>4. \A r \in Rows : t.screen[r] = [d \in 1..Width |-> t.screen[r][d]]
    <3> TAKE r \in Rows
    <3>1. CASE r < EDIT_ROW
      <4>1. r + 1 \in Rows /\ t.screen[r] = g.screen[r + 1]
        BY <3>1, <2>3, <1>2
      <4> QED BY <4>1, <1>1
    <3>2. CASE ~(r < EDIT_ROW)
      <4>1. t.screen[r] = Blank
        BY <3>2, <2>3
      <4> QED BY <4>1 DEF Blank
    <3> QED BY <3>1, <3>2
  <2>5. t.row \in 0..EDIT_ROW - 1 /\ t.row = EDIT_ROW + 1 - (c + 1) /\ t.col = 0 /\ t.old = s.old /\ t.row = g.row - 1
    BY <2>2, <1>1, <1>2, <1>3, <1>4
  <2>6. IsConsole(t)
    BY <2>2, <2>3, <2>4, <2>5, <1>1 DEF IsConsole, ConsoleTo
  <2>7. BlankTo(t, EDIT_ROW - (c + 1))
    <3>1. t.row..EDIT_ROW - (c + 1) = {}
      BY <2>5, <1>2
    <3> QED BY <3>1 DEF BlankTo
  <2>8. ASSUME NEW p, IsPrinted(p), OnScreen(s, p) PROVE OnScreen(t, p)
    <3>1. OnScreen(g, p) /\ Len(p) \in Nat
      BY <2>8, <1>3 DEF IsPrinted
    <3>2. PICK m \in Nat : m = Len(p)
      BY <3>1
    <3>3. t.row = g.row - 1 /\ g.row \in Nat /\ g.row <= EDIT_ROW - 1
      BY <2>5, <1>1, <1>2
    <3>4. ASSUME NEW i \in 1..m - 1, g.row - 1 - m + i >= 0 PROVE t.screen[g.row - 1 - m + i] = Padded(p[i])
      <4>1. PICK r \in Int : r = g.row - 1 - m + i
        BY <3>3
      <4>2. r \in 0..EDIT_ROW /\ r < EDIT_ROW /\ r + 1 = g.row - m + i /\ g.row - m + i >= 0
        BY <4>1, <3>4, <3>3, <1>2
      <4>3. t.screen[r] = g.screen[r + 1]
        BY <4>2, <2>3, <1>2 DEF Rows
      <4>4. g.screen[g.row - m + i] = Padded(p[i])
        BY <3>1, <3>2, <4>2 DEF OnScreen
      <4> QED BY <4>1, <4>2, <4>3, <4>4
    <3> QED BY <3>2, <3>3, <3>4 DEF OnScreen
  <2>9. t.row <= EDIT_ROW + 1 - (c + 1)
    BY <2>5, <1>2
  <2> QED BY <2>5, <2>6, <2>7, <2>8, <2>9 DEF Grows
<1>5. CASE ~(g.row >= EDIT_ROW + 2 - (c + 1))
  <2>1. t = g
    BY <1>5 DEF Claimed
  <2>2. g.row <= EDIT_ROW + 1 - (c + 1)
    BY <1>1, <1>2, <1>5
  <2>3. BlankTo(g, EDIT_ROW - (c + 1))
    <3>1. \A r \in g.row..EDIT_ROW - (c + 1) : r \in g.row..EDIT_ROW - c
      BY <1>1, <1>2
    <3> QED BY <3>1, <1>3 DEF BlankTo
  <2> QED BY <2>1, <2>2, <2>3, <1>3 DEF Grows
<1> QED BY <1>4, <1>5

LEMMA GrownIs ==
    ASSUME ConsoleParameters, NEW s, IsConsole(s), BlankBelow(s), s.col = 0, s.row <= EDIT_ROW + 1 - s.old,
           NEW n \in s.old..MaxRows
    PROVE  Grows(s, Grown(s, n), n)
<1>1. s.old \in 1..MaxRows /\ s.old \in Nat /\ n \in Nat /\ s.old <= n /\ n <= MaxRows /\ MaxRows \in Nat
  BY Sizes DEF IsConsole, ConsoleTo
<1> DEFINE f == CHOOSE g : GrowsTo(s, s.old, n, g)
<1>2. Grown(s, n) = f[n]
  BY Zenon DEF Grown, GrowsTo, Claimed
<1>3. GrowsTo(s, s.old, n, f)
  BY <1>1, GrowthIsDefined
<1> HIDE DEF f
<1>4. f[s.old] = s /\ \A c \in s.old + 1..n : f[c] = Claimed(f[c - 1], c)
  <2>1. GrowsOn(s, s.old, n, f)
    BY <1>1, <1>3, GrowSteps
  <2> QED BY <2>1 DEF GrowsOn
<1> DEFINE S == {k \in Nat : s.old + k <= n => Grows(s, f[s.old + k], s.old + k)}
<1>5. 0 \in S
  <2>1. Grows(s, s, s.old)
    BY DEF Grows, BlankBelow
  <2>2. s.old + 0 = s.old
    BY <1>1
  <2> QED BY <2>1, <2>2, <1>4
<1>6. ASSUME NEW k \in Nat, k \in S PROVE k + 1 \in S
  <2> SUFFICES ASSUME s.old + (k + 1) <= n PROVE Grows(s, f[s.old + (k + 1)], s.old + (k + 1))
    OBVIOUS
  <2> DEFINE c == s.old + k
  <2>1. c \in 1..MaxRows - 1 /\ c + 1 = s.old + (k + 1) /\ c + 1 \in s.old + 1..n /\ (c + 1) - 1 = c /\ c <= n
    BY <1>1
  <2>2. Grows(s, f[c], c)
    BY <2>1, <1>6
  <2> HIDE DEF c
  <2>3. f[c + 1] = Claimed(f[c], c + 1)
    BY <2>1, <1>4
  <2>4. Grows(s, f[c + 1], c + 1)
    BY <2>1, <2>2, <2>3, ClaimGrows
  <2> QED BY <2>1, <2>4
<1> HIDE DEF S
<1>7. Nat \subseteq S
  BY <1>5, <1>6, Induction
<1>8. n - s.old \in S /\ s.old + (n - s.old) = n
  BY <1>1, <1>7
<1>9. Grows(s, f[n], n)
  BY <1>1, <1>8 DEF S
<1> QED BY <1>2, <1>9
----------------------------------------------------------------------------
\* The line redrawn in n rows.
IsSized(s, z, n) ==
    /\ IsConsole(z) /\ z.col = 0 /\ z.row <= EDIT_ROW + 1 - n /\ BlankTo(z, EDIT_ROW - n)
    /\ \A p : s.row <= EDIT_ROW + 1 - s.old /\ IsPrinted(p) /\ OnScreen(s, p) => OnScreen(z, p)
LEMMA ShrunkIs ==
    ASSUME ConsoleParameters, NEW s, IsConsole(s), BlankBelow(s), s.col = 0, NEW n \in 1..MaxRows, n < s.old, s.row <= EDIT_ROW + 1 - n
    PROVE  IsSized(s, Shrunk(s, n), n)
<1>1. /\ s = [screen |-> s.screen, row |-> s.row, col |-> s.col, old |-> s.old]
      /\ s.screen = [r \in Rows |-> s.screen[r]] /\ \A r \in Rows : s.screen[r] = [c \in 1..Width |-> s.screen[r][c]]
      /\ s.row \in 0..EDIT_ROW - 1 /\ s.col \in 0..Width - 1 /\ s.old \in 1..MaxRows
  BY DEF IsConsole, ConsoleTo
<1>2. EDIT_ROW \in Nat /\ Width \in Nat /\ MaxRows \in Nat /\ MaxRows < EDIT_ROW /\ Rows = 0..EDIT_ROW /\ n \in Nat
  BY Sizes DEF Rows
<1> DEFINE z == Shrunk(s, n)
           given == EDIT_ROW + 1 - s.old .. EDIT_ROW - n
<1>3. /\ z.screen = [r \in Rows |-> IF r \in given THEN Blank ELSE s.screen[r]] /\ z.row = s.row /\ z.col = s.col /\ z.old = s.old
      /\ z = [screen |-> z.screen, row |-> z.row, col |-> z.col, old |-> z.old]
  <2>1. z = [s EXCEPT !.screen = [r \in Rows |-> IF r \in given THEN Blank ELSE s.screen[r]]]
    BY <1>1 DEF Shrunk
  <2> HIDE DEF z, given
  <2> QED BY <2>1, <1>1
<1> HIDE DEF z
<1>4. /\ z.screen = [r \in Rows |-> z.screen[r]]
      /\ \A r \in Rows : z.screen[r] = IF r \in given THEN Blank ELSE s.screen[r]
  <2> HIDE DEF given
  <2> QED BY <1>3
<1>5. \A r \in Rows : z.screen[r] = [c \in 1..Width |-> z.screen[r][c]]
  <2> HIDE DEF given
  <2> TAKE r \in Rows
  <2>1. CASE r \in given
    <3>1. z.screen[r] = Blank
      BY <2>1, <1>4
    <3> QED BY <3>1 DEF Blank
  <2>2. CASE r \notin given
    <3>1. z.screen[r] = s.screen[r]
      BY <2>2, <1>4
    <3> QED BY <3>1, <1>1
  <2> QED BY <2>1, <2>2
<1>6. IsConsole(z)
  <2>1. z.row \in 0..EDIT_ROW - 1 /\ z.col \in 0..Width - 1 /\ z.old \in 1..MaxRows
    BY <1>1, <1>3
  <2> QED BY <2>1, <1>3, <1>4, <1>5 DEF IsConsole, ConsoleTo
<1>7. BlankTo(z, EDIT_ROW - n)
  <2> SUFFICES ASSUME NEW r \in s.row..EDIT_ROW - n, NEW c \in 1..Width PROVE z.screen[r][c] = Space
    BY <1>3 DEF BlankTo
  <2>1. r \in Rows
    BY <1>1, <1>2
  <2>2. CASE r \in given
    <3>1. z.screen[r] = Blank
      BY <2>1, <2>2, <1>4
    <3> QED BY <3>1 DEF Blank
  <2>3. CASE r \notin given
    <3>1. r \in s.row..EDIT_ROW - s.old
      BY <2>3, <1>1, <1>2
    <3>2. s.screen[r][c] = Space
      <4>1. (r = s.row /\ c <= s.col) \/ s.screen[r][c] = Space
        BY <3>1 DEF BlankBelow, BlankTo
      <4>2. ~(c <= s.col)
        OBVIOUS
      <4> QED BY <4>1, <4>2
    <3>3. z.screen[r] = s.screen[r]
      BY <2>1, <2>3, <1>4
    <3> QED BY <3>2, <3>3
  <2> QED BY <2>2, <2>3
<1>8. ASSUME NEW p, s.row <= EDIT_ROW + 1 - s.old, IsPrinted(p), OnScreen(s, p) PROVE OnScreen(z, p)
  <2>1. Len(p) \in Nat
    BY <1>8 DEF IsPrinted
  <2> SUFFICES ASSUME NEW i \in 1..Len(p) - 1, s.row - Len(p) + i >= 0 PROVE z.screen[s.row - Len(p) + i] = Padded(p[i])
    BY <1>3 DEF OnScreen
  <2> DEFINE r == s.row - Len(p) + i
  <2>2. s.row \in Int /\ i \in Int /\ i <= Len(p) - 1 /\ s.row <= EDIT_ROW - 1 /\ s.old \in Int
    BY <2>1, <1>1, <1>2
  <2>3. r \in Rows /\ r < EDIT_ROW + 1 - s.old
    BY <2>1, <2>2, <1>2, <1>8
  <2>4. s.screen[r] = Padded(p[i])
    BY <1>8 DEF OnScreen
  <2> HIDE DEF r
  <2>5. r \notin given
    BY <2>2, <2>3, <1>2
  <2>6. z.screen[r] = s.screen[r]
    BY <2>3, <2>5, <1>4
  <2> QED BY <2>4, <2>6 DEF r
<1>9. z.col = 0 /\ z.row <= EDIT_ROW + 1 - n
  BY <1>3
<1> QED BY <1>6, <1>7, <1>8, <1>9 DEF IsSized, z

LEMMA RedrawKeeps ==
    ASSUME ConsoleParameters, NEW s, IsConsole(s), BlankBelow(s), s.col = 0, NEW l, IsLine(l),
           s.row <= EDIT_ROW + 1 - s.old \/ l.text = <<>>, NEW t, t = Redraw(s, l)
    PROVE  /\ IsConsole(t) /\ BlankBelow(t) /\ t.col = 0 /\ t.row <= EDIT_ROW + 1 - t.old
           /\ \A p : s.row <= EDIT_ROW + 1 - s.old /\ IsPrinted(p) /\ OnScreen(s, p) => OnScreen(t, p)
<1> DEFINE n == Len(ShownRows(l.text, l.cursor))
           z == IF s.old <= n THEN Grown(s, n) ELSE Shrunk(s, n)
<1>1. n \in 1..MaxRows /\ (l.text = <<>> => n = 1)
  BY ShownCount DEF IsLine
<1>2. s.row \in 0..EDIT_ROW - 1 /\ s.old \in 1..MaxRows
  BY DEF IsConsole, ConsoleTo
<1>3. EDIT_ROW \in Nat /\ Width \in Nat /\ MaxRows \in Nat /\ MaxRows < EDIT_ROW /\ Rows = 0..EDIT_ROW
  BY Sizes DEF Rows
<1>4. t = [z EXCEPT !.old = n, !.screen = Drawn(@, l)]
  BY DEF Redraw
<1> HIDE DEF n
<1>5. IsSized(s, z, n)
  <2>1. CASE s.old <= n
    <3>1. n \in s.old..MaxRows
      BY <2>1, <1>1, <1>2, <1>3
    <3>2. s.row <= EDIT_ROW + 1 - s.old
      BY <2>1, <1>1, <1>2, <1>3
    <3>3. Grows(s, Grown(s, n), n)
      BY <3>1, <3>2, GrownIs
    <3>4. z = Grown(s, n)
      BY <2>1
    <3> HIDE DEF z
    <3> QED BY <3>3, <3>4 DEF Grows, IsSized
  <2>2. CASE ~(s.old <= n)
    <3>1. n < s.old
      BY <2>2, <1>1, <1>2, <1>3
    <3>2. s.row <= EDIT_ROW + 1 - n
      BY <3>1, <1>1, <1>2, <1>3
    <3>3. z = Shrunk(s, n)
      BY <2>2
    <3> HIDE DEF z
    <3> QED BY <3>1, <3>2, <3>3, <1>1, ShrunkIs
  <2> QED BY <2>1, <2>2
<1> HIDE DEF z
<1>6. /\ IsConsole(z) /\ z.col = 0 /\ z.row <= EDIT_ROW + 1 - n /\ BlankTo(z, EDIT_ROW - n)
      /\ \A p : s.row <= EDIT_ROW + 1 - s.old /\ IsPrinted(p) /\ OnScreen(s, p) => OnScreen(z, p)
  BY <1>5 DEF IsSized
<1>7. /\ z = [screen |-> z.screen, row |-> z.row, col |-> z.col, old |-> z.old]
      /\ z.screen = [r \in Rows |-> z.screen[r]] /\ \A r \in Rows : z.screen[r] = [c \in 1..Width |-> z.screen[r][c]]
      /\ z.row \in 0..EDIT_ROW - 1 /\ z.col \in 0..Width - 1 /\ z.old \in 1..MaxRows
  BY <1>6 DEF IsConsole, ConsoleTo
<1>8. /\ t.screen = Drawn(z.screen, l) /\ t.row = z.row /\ t.col = 0 /\ t.old = n
      /\ t = [screen |-> t.screen, row |-> t.row, col |-> t.col, old |-> t.old]
  BY <1>4, <1>6, <1>7
<1> DEFINE rows == ShownRows(l.text, l.cursor)
           Text(i) == SubSeq(l.text, rows[i].start + 1, rows[i].start + rows[i].len)
           first == EDIT_ROW + 1 - n
<1>9. t.screen = [r \in Rows |-> IF r >= first THEN Padded(Text(r - first + 1)) ELSE z.screen[r]]
  BY <1>8 DEF Drawn, n
<1> HIDE DEF Text
<1>10. /\ t.screen = [r \in Rows |-> t.screen[r]]
       /\ \A r \in Rows : t.screen[r] = IF r >= first THEN Padded(Text(r - first + 1)) ELSE z.screen[r]
  <2> HIDE DEF first
  <2> QED BY <1>9
<1>11. \A r \in Rows : t.screen[r] = [c \in 1..Width |-> t.screen[r][c]]
  <2> TAKE r \in Rows
  <2>1. CASE r >= first
    <3>1. t.screen[r] = Padded(Text(r - first + 1))
      BY <2>1, <1>10
    <3> QED BY <3>1 DEF Padded
  <2>2. CASE ~(r >= first)
    <3>1. t.screen[r] = z.screen[r]
      BY <2>2, <1>10
    <3> QED BY <3>1, <1>7
  <2> QED BY <2>1, <2>2
<1>12. IsConsole(t)
  <2>1. t.row \in 0..EDIT_ROW - 1 /\ t.col \in 0..Width - 1 /\ t.old \in 1..MaxRows
    BY <1>1, <1>6, <1>7, <1>8
  <2> QED BY <2>1, <1>8, <1>10, <1>11 DEF IsConsole, ConsoleTo
<1>13. BlankBelow(t)
  <2> SUFFICES ASSUME NEW r \in z.row..EDIT_ROW - n, NEW c \in 1..Width PROVE t.screen[r][c] = Space
    BY <1>8 DEF BlankBelow, BlankTo
  <2>1. r \in Rows /\ ~(r >= first)
    BY <1>1, <1>3, <1>7
  <2>2. (r = z.row /\ c <= z.col) \/ z.screen[r][c] = Space
    BY <1>6 DEF BlankTo
  <2>3. ~(c <= z.col)
    BY <1>6
  <2> QED BY <2>1, <2>2, <2>3, <1>10
<1>14. ASSUME NEW p, s.row <= EDIT_ROW + 1 - s.old, IsPrinted(p), OnScreen(s, p) PROVE OnScreen(t, p)
  <2>1. OnScreen(z, p) /\ Len(p) \in Nat
    BY <1>6, <1>14 DEF IsPrinted
  <2> SUFFICES ASSUME NEW i \in 1..Len(p) - 1, z.row - Len(p) + i >= 0 PROVE t.screen[z.row - Len(p) + i] = Padded(p[i])
    BY <1>8 DEF OnScreen
  <2> DEFINE r == z.row - Len(p) + i
  <2>2. z.row \in Int /\ i \in Int /\ i <= Len(p) - 1 /\ z.row <= EDIT_ROW - 1 /\ z.row <= EDIT_ROW + 1 - n /\ n \in Int
    BY <2>1, <1>1, <1>6, <1>7
  <2>3. r \in Rows /\ ~(r >= first)
    BY <2>1, <2>2, <1>3
  <2>4. z.screen[r] = Padded(p[i])
    BY <2>1 DEF OnScreen
  <2> HIDE DEF r, first
  <2>5. t.screen[r] = z.screen[r]
    BY <2>3, <1>10
  <2> QED BY <2>4, <2>5 DEF r
<1>15. t.col = 0 /\ t.row <= EDIT_ROW + 1 - t.old
  BY <1>6, <1>8
<1> QED BY <1>12, <1>13, <1>14, <1>15

----------------------------------------------------------------------------
\* The editing keys keep a line: its characters, its length and its cursor.
LEMMA KeyKeeps ==
    ASSUME ConsoleParameters, NEW l, IsLine(l), NEW k \in Typed PROVE IsLine(EditKey(l, k))
<1>1. /\ l = [text |-> l.text, cursor |-> l.cursor] /\ l.text \in Seq(Chars) /\ Len(l.text) <= MaxLen
      /\ l.cursor \in 0..Len(l.text) /\ Len(l.text) \in Nat /\ MaxLen \in Nat
  BY Sizes DEF IsLine
<1>2. k \in Chars \cup LineKeys
  BY DEF ConsoleParameters
<1> DEFINE len == Len(l.text)
           cur == l.cursor
<1>3. CASE k = "DELETE"
  <2>1. CASE cur = 0
    <3>1. EditKey(l, k) = l
      BY <1>3, <2>1 DEF EditKey
    <3> QED BY <3>1
  <2>2. CASE cur # 0
    <3>1. EditKey(l, k) = [text |-> Removed(l.text, cur), cursor |-> cur - 1]
      BY <1>3, <2>2 DEF EditKey
    <3>2. cur \in 1..len /\ cur - 1 \in 0..len - 1
      BY <1>1, <2>2
    <3>3. /\ SubSeq(l.text, 1, cur - 1) \in Seq(Chars) /\ Len(SubSeq(l.text, 1, cur - 1)) = cur - 1
          /\ SubSeq(l.text, cur + 1, len) \in Seq(Chars) /\ Len(SubSeq(l.text, cur + 1, len)) = len - cur
      BY <1>1, <3>2
    <3>4. Removed(l.text, cur) \in Seq(Chars) /\ Len(Removed(l.text, cur)) = (cur - 1) + (len - cur)
      BY <3>3 DEF Removed
    <3>5. (cur - 1) + (len - cur) = len - 1
      BY <1>1
    <3>6. len - 1 <= MaxLen
      BY <1>1
    <3> QED BY <3>1, <3>2, <3>4, <3>5, <3>6 DEF IsLine
  <2> QED BY <2>1, <2>2
<1>4. CASE k = "LEFT"
  <2>1. EditKey(l, k) = [l EXCEPT !.cursor = IF @ = 0 THEN 0 ELSE @ - 1]
    BY <1>4 DEF EditKey
  <2>2. PICK c : c = (IF cur = 0 THEN 0 ELSE cur - 1)
    OBVIOUS
  <2>3. EditKey(l, k) = [text |-> l.text, cursor |-> c]
    BY <2>1, <2>2, <1>1
  <2>4. c \in 0..len
    BY <2>2, <1>1
  <2> QED BY <2>3, <2>4, <1>1 DEF IsLine
<1>5. CASE k = "RIGHT"
  <2>1. EditKey(l, k) = [l EXCEPT !.cursor = IF @ < Len(l.text) THEN @ + 1 ELSE @]
    BY <1>5 DEF EditKey
  <2>2. PICK c : c = (IF cur < len THEN cur + 1 ELSE cur)
    OBVIOUS
  <2>3. EditKey(l, k) = [text |-> l.text, cursor |-> c]
    BY <2>1, <2>2, <1>1
  <2>4. c \in 0..len
    BY <2>2, <1>1
  <2> QED BY <2>3, <2>4, <1>1 DEF IsLine
<1>6. CASE k \notin LineKeys
  <2> DEFINE nb == Inserted(l.text, cur, k)
  <2>1. EditKey(l, k) = IF len >= MaxLen \/ Overflow(nb) THEN l ELSE [text |-> nb, cursor |-> cur + 1]
    BY <1>6 DEF EditKey, LineKeys
  <2>2. CASE len >= MaxLen \/ Overflow(nb)
    <3>1. EditKey(l, k) = l
      BY <2>1, <2>2
    <3> QED BY <3>1
  <2>3. CASE ~(len >= MaxLen \/ Overflow(nb))
    <3>1. EditKey(l, k) = [text |-> nb, cursor |-> cur + 1]
      BY <2>1, <2>3
    <3>2. /\ SubSeq(l.text, 1, cur) \in Seq(Chars) /\ Len(SubSeq(l.text, 1, cur)) = cur
          /\ SubSeq(l.text, cur + 1, len) \in Seq(Chars) /\ Len(SubSeq(l.text, cur + 1, len)) = len - cur
      BY <1>1
    <3>3. <<k>> \in Seq(Chars) /\ Len(<<k>>) = 1
      BY <1>2, <1>6
    <3>4. nb \in Seq(Chars) /\ Len(nb) = cur + 1 + (len - cur)
      BY <3>2, <3>3 DEF Inserted
    <3> HIDE DEF nb
    <3>5. Len(nb) = len + 1 /\ len + 1 <= MaxLen /\ cur + 1 \in 0..len + 1
      BY <3>4, <2>3, <1>1
    <3> QED BY <3>1, <3>4, <3>5 DEF IsLine
  <2> QED BY <2>2, <2>3
<1> QED BY <1>3, <1>4, <1>5, <1>6 DEF LineKeys

LEMMA EmptyIsLine == ASSUME ConsoleParameters PROVE IsLine(Empty) /\ Empty.text = <<>>
<1>1. <<>> \in Seq(Chars) /\ Len(<<>>) = 0 /\ MaxLen \in Nat
  BY Sizes
<1>2. Empty.text = <<>> /\ Empty.cursor = 0 /\ Empty = [text |-> Empty.text, cursor |-> Empty.cursor]
  BY DEF Empty
<1> QED BY <1>1, <1>2 DEF IsLine

\* Nothing has been printed yet: a program starts here, and after it cleared the screen.
LEMMA NothingPrinted ==
    ASSUME ConsoleParameters, NEW s, s.col = 0
    PROVE  IsPrinted(<< <<>> >>) /\ OnScreen(s, << <<>> >>) /\ Current(s, << <<>> >>)
<1> DEFINE p == << <<>> >>
<1>1. Len(p) = 1 /\ p[1] = <<>> /\ p \in Seq(Seq(Items)) /\ Width \in Nat /\ Len(<<>>) = 0
  BY Sizes
<1> HIDE DEF p
<1>2. IsPrinted(p)
  <2>1. \A i \in 1..Len(p) : Len(p[i]) <= Width
    BY <1>1
  <2> QED BY <1>1, <2>1 DEF IsPrinted
<1>3. OnScreen(s, p)
  <2>1. 1..Len(p) - 1 = {}
    BY <1>1
  <2> QED BY <2>1 DEF OnScreen
<1>4. Current(s, p)
  <2>1. Len(p[Len(p)]) = 0 /\ 1..s.col = {}
    BY <1>1
  <2> QED BY <2>1 DEF Current
<1> QED BY <1>2, <1>3, <1>4 DEF p

\* A cleared screen.
LEMMA ClearIs ==
    ASSUME ConsoleParameters, NEW o \in 1..MaxRows, NEW t,
           t = [screen |-> [r \in Rows |-> Blank], row |-> 0, col |-> 0, old |-> o]
    PROVE  IsConsole(t) /\ BlankBelow(t) /\ t.col = 0 /\ t.old = o /\ t.row <= EDIT_ROW + 1 - o
<1>1. /\ t.screen = [r \in Rows |-> Blank] /\ t.row = 0 /\ t.col = 0 /\ t.old = o
      /\ t = [screen |-> t.screen, row |-> t.row, col |-> t.col, old |-> t.old]
  OBVIOUS
<1>2. EDIT_ROW \in Nat /\ Width \in Nat /\ Width >= 1 /\ MaxRows \in Nat /\ MaxRows < EDIT_ROW /\ Rows = 0..EDIT_ROW
  BY Sizes DEF Rows
<1>3. \A r \in Rows : t.screen[r] = Blank /\ t.screen[r] = [c \in 1..Width |-> t.screen[r][c]]
  BY <1>1 DEF Blank
<1>4. t.screen = [r \in Rows |-> t.screen[r]]
  BY <1>1
<1>5. 0 \in 0..EDIT_ROW - 1 /\ 0 \in 0..Width - 1 /\ 0 <= EDIT_ROW + 1 - o
  BY <1>2
<1>6. IsConsole(t)
  BY <1>1, <1>3, <1>4, <1>5 DEF IsConsole, ConsoleTo
<1>7. BlankBelow(t)
  <2> SUFFICES ASSUME NEW r \in 0..EDIT_ROW - o, NEW c \in 1..Width PROVE t.screen[r][c] = Space
    BY <1>1 DEF BlankBelow, BlankTo
  <2>1. r \in Rows
    BY <1>2
  <2> QED BY <2>1, <1>3 DEF Blank
<1> QED BY <1>1, <1>5, <1>6, <1>7

----------------------------------------------------------------------------
\* The invariant, action by action.
LEMMA InitHolds == ASSUME ConsoleParameters, Init PROVE ConsoleInv
<1>1. 1 \in 1..MaxRows
  BY Sizes
<1>2. IsConsole(con) /\ BlankBelow(con) /\ con.col = 0 /\ con.old = 1 /\ con.row <= EDIT_ROW + 1 - con.old
  BY <1>1, ClearIs DEF Init
<1>3. IsLine(line) /\ mode = "prompt" /\ printed = << <<>> >>
  BY EmptyIsLine DEF Init
<1>4. IsPrinted(printed) /\ OnScreen(con, printed)
  BY <1>2, <1>3, NothingPrinted
<1> QED BY <1>2, <1>3, <1>4 DEF ConsoleInv

LEMMA KeyStep == ASSUME ConsoleParameters, ConsoleInv, Key PROVE ConsoleInv'
<1>1. /\ IsConsole(con) /\ BlankBelow(con) /\ IsLine(line) /\ con.col = 0 /\ con.row <= EDIT_ROW + 1 - con.old
      /\ mode = "prompt" /\ mode' = "prompt" /\ tall' = tall /\ printed' = printed
      /\ tall = 1 => IsPrinted(printed) /\ OnScreen(con, printed)
  BY DEF Key, ConsoleInv
<1>2. PICK k \in Typed : line' = EditKey(line, k) /\ con' = (IF line' = line THEN con ELSE Redraw(con, line'))
  BY DEF Key
<1>3. IsLine(line')
  BY <1>1, <1>2, KeyKeeps
<1>4. CASE line' = line
  <2>1. con' = con
    BY <1>2, <1>4
  <2>2. IsConsole(con') /\ BlankBelow(con') /\ con'.col = 0 /\ con'.row <= EDIT_ROW + 1 - con'.old
    BY <1>1, <2>1
  <2>3. tall = 1 => OnScreen(con', printed)
    BY <1>1, <2>1
  <2> QED BY <1>1, <1>3, <2>2, <2>3 DEF ConsoleInv, IsConsole, ConsoleTo, IsLine, BlankBelow, BlankTo, OnScreen, IsPrinted
<1>5. CASE line' # line
  <2>1. con' = Redraw(con, line')
    BY <1>2, <1>5
  <2>2. /\ IsConsole(con') /\ BlankBelow(con') /\ con'.col = 0 /\ con'.row <= EDIT_ROW + 1 - con'.old
        /\ \A p : con.row <= EDIT_ROW + 1 - con.old /\ IsPrinted(p) /\ OnScreen(con, p) => OnScreen(con', p)
    BY <1>1, <1>3, <2>1, RedrawKeeps
  <2>3. tall = 1 => OnScreen(con', printed)
    BY <1>1, <2>2
  <2> QED BY <1>1, <1>3, <2>2, <2>3 DEF ConsoleInv, IsConsole, ConsoleTo, IsLine, BlankBelow, BlankTo, OnScreen, IsPrinted
<1> QED BY <1>4, <1>5

LEMMA EnterStep == ASSUME ConsoleParameters, ConsoleInv, Enter PROVE ConsoleInv'
<1>1. /\ IsConsole(con) /\ BlankBelow(con) /\ IsLine(line) /\ con.col = 0
      /\ mode' = "run" /\ tall' = con.old /\ con' = con /\ line' = line /\ printed' = << <<>> >>
  BY DEF Enter, ConsoleInv
<1>2. IsPrinted(printed') /\ OnScreen(con, printed') /\ Current(con, printed')
  BY <1>1, NothingPrinted
<1> QED BY <1>1, <1>2 DEF ConsoleInv

\* What a character and a CR have in common: the console, its input line and what it shows.
LEMMA RunKeeps ==
    ASSUME ConsoleInv, mode = "run", mode' = "run", line' = line, tall' = tall,
           IsConsole(con'), BlankBelow(con'), con'.old = con.old,
           tall = 1 => IsPrinted(printed') /\ OnScreen(con', printed') /\ Current(con', printed')
    PROVE  ConsoleInv'
<1>1. IsLine(line) /\ tall = con.old
  BY DEF ConsoleInv
<1> QED BY <1>1 DEF ConsoleInv

LEMMA CharStep == ASSUME ConsoleParameters, ConsoleInv, Char PROVE ConsoleInv'
<1>1. /\ IsConsole(con) /\ BlankBelow(con) /\ mode = "run" /\ mode' = "run" /\ line' = line /\ tall' = tall /\ tall = con.old
      /\ tall = 1 => IsPrinted(printed) /\ OnScreen(con, printed) /\ Current(con, printed)
  BY DEF Char, ConsoleInv
<1>2. PICK c \in Glyphs : con' = Put(con, c) /\ printed' = Note(printed, c)
  BY DEF Char
<1>3. IsConsole(con') /\ BlankBelow(con') /\ con'.old = con.old
  BY <1>1, <1>2, PutKeeps
<1>4. tall = 1 => IsPrinted(printed') /\ OnScreen(con', printed') /\ Current(con', printed')
  <2>1. c \in Items
    BY DEF Items
  <2> QED BY <1>1, <1>2, <2>1, PutShows
<1> QED BY <1>1, <1>3, <1>4, RunKeeps

LEMMA ConsoleEnds == ASSUME ConsoleParameters, NEW s, IsConsole(s) PROVE ConsoleTo(s, Width)
<1>1. Width \in Nat /\ s.col \in 0..Width - 1
  BY Sizes DEF IsConsole, ConsoleTo
<1>2. s.col \in 0..Width
  BY <1>1
<1> QED BY <1>2 DEF IsConsole, ConsoleTo

LEMMA CrStep == ASSUME ConsoleParameters, ConsoleInv, Cr PROVE ConsoleInv'
<1>1. /\ IsConsole(con) /\ BlankBelow(con) /\ mode = "run" /\ mode' = "run" /\ line' = line /\ tall' = tall /\ tall = con.old
      /\ tall = 1 => IsPrinted(printed) /\ OnScreen(con, printed) /\ Current(con, printed)
      /\ con' = NewLine(con) /\ printed' = NoteCR(printed)
  BY DEF Cr, ConsoleInv
<1>2. ConsoleTo(con, Width)
  BY <1>1, ConsoleEnds
<1>3. IsConsole(con') /\ BlankBelow(con') /\ con'.old = con.old
  BY <1>1, <1>2, NewLineKeeps
<1>4. tall = 1 => IsPrinted(printed') /\ OnScreen(con', printed') /\ Current(con', printed')
  BY <1>1, <1>2, NewLineShows
<1> QED BY <1>1, <1>3, <1>4, RunKeeps

LEMMA ClsStep == ASSUME ConsoleParameters, ConsoleInv, Cls PROVE ConsoleInv'
<1>1. /\ IsConsole(con) /\ mode = "run" /\ mode' = "run" /\ line' = line /\ tall' = tall
      /\ con' = [con EXCEPT !.screen = [r \in Rows |-> Blank], !.row = 0, !.col = 0] /\ printed' = << <<>> >>
  BY DEF Cls, ConsoleInv
<1>2. con = [screen |-> con.screen, row |-> con.row, col |-> con.col, old |-> con.old] /\ con.old \in 1..MaxRows
  BY <1>1 DEF IsConsole, ConsoleTo
<1>3. con' = [screen |-> [r \in Rows |-> Blank], row |-> 0, col |-> 0, old |-> con.old]
  BY <1>1, <1>2
<1>4. IsConsole(con') /\ BlankBelow(con') /\ con'.col = 0 /\ con'.old = con.old
  BY <1>2, <1>3, ClearIs
<1>5. IsPrinted(printed') /\ OnScreen(con', printed') /\ Current(con', printed')
  BY <1>1, <1>4, NothingPrinted
<1> QED BY <1>1, <1>4, <1>5, RunKeeps

LEMMA EndStep == ASSUME ConsoleParameters, ConsoleInv, End PROVE ConsoleInv'
<1>1. /\ IsConsole(con) /\ BlankBelow(con) /\ mode = "run" /\ mode' = "prompt" /\ line' = Empty /\ tall' = tall /\ tall = con.old
      /\ tall = 1 => IsPrinted(printed) /\ OnScreen(con, printed) /\ Current(con, printed)
  BY DEF End, ConsoleInv
<1>2. PICK word \in {"OK", "?"} : con' = Redraw(NewLine(Put(con, word)), Empty) /\ printed' = NoteCR(Note(printed, word))
  BY DEF End
<1>3. PICK s : s = Put(con, word)
  OBVIOUS
<1>4. PICK t : t = NewLine(s)
  OBVIOUS
<1>5. con' = Redraw(t, Empty)
  BY <1>2, <1>3, <1>4
<1>6. IsConsole(s) /\ BlankBelow(s) /\ s.old = con.old
  BY <1>1, <1>3, PutKeeps
<1>7. ConsoleTo(s, Width)
  BY <1>6, ConsoleEnds
<1>8. IsConsole(t) /\ BlankBelow(t) /\ t.old = s.old /\ t.col = 0
  BY <1>4, <1>6, <1>7, NewLineKeeps
<1>9. IsLine(Empty) /\ Empty.text = <<>>
  BY EmptyIsLine
<1>10. /\ IsConsole(con') /\ BlankBelow(con') /\ con'.col = 0 /\ con'.row <= EDIT_ROW + 1 - con'.old
       /\ \A p : t.row <= EDIT_ROW + 1 - t.old /\ IsPrinted(p) /\ OnScreen(t, p) => OnScreen(con', p)
  BY <1>5, <1>8, <1>9, RedrawKeeps
<1>11. tall = 1 => IsPrinted(printed') /\ OnScreen(con', printed')
  <2> SUFFICES ASSUME tall = 1 PROVE IsPrinted(printed') /\ OnScreen(con', printed')
    OBVIOUS
  <2> DEFINE p == Note(printed, word)
  <2>1. word \in Items /\ con.old = 1
    BY <1>1 DEF Items
  <2>2. IsPrinted(p) /\ OnScreen(s, p) /\ Current(s, p)
    BY <1>1, <1>3, <2>1, PutShows
  <2> HIDE DEF p
  <2>3. IsPrinted(NoteCR(p)) /\ OnScreen(t, NoteCR(p))
    BY <1>4, <1>6, <1>7, <2>1, <2>2, NewLineShows
  <2>4. t.row <= EDIT_ROW + 1 - t.old
    <3>1. t.row \in 0..EDIT_ROW - 1 /\ EDIT_ROW \in Nat
      BY <1>8, Sizes DEF IsConsole, ConsoleTo
    <3> QED BY <3>1, <1>6, <1>8, <2>1
  <2>5. OnScreen(con', NoteCR(p))
    BY <1>10, <2>3, <2>4
  <2>6. printed' = NoteCR(p)
    BY <1>2 DEF p
  <2> QED BY <2>3, <2>5, <2>6
<1> QED BY <1>1, <1>9, <1>10, <1>11 DEF ConsoleInv

LEMMA StillHolds == ASSUME ConsoleParameters, ConsoleInv, UNCHANGED vars PROVE ConsoleInv'
BY DEF vars, ConsoleInv, IsConsole, ConsoleTo, IsLine, BlankBelow, BlankTo, IsPrinted, OnScreen, Current

LEMMA InvShows == ASSUME ConsoleParameters, ConsoleInv PROVE OutputKept
<1> SUFFICES ASSUME mode = "prompt", tall = 1, NEW i \in 1..Len(printed) - 1, con.row - Len(printed) + i >= 0
             PROVE  Trimmed(con.screen[con.row - Len(printed) + i]) = Trimmed(printed[i])
  BY DEF OutputKept, Shown
<1>1. IsPrinted(printed) /\ OnScreen(con, printed)
  BY DEF ConsoleInv
<1>2. con.screen[con.row - Len(printed) + i] = Padded(printed[i])
  BY <1>1 DEF OnScreen
<1>3. printed[i] \in Seq(Items) /\ Len(printed[i]) <= Width
  BY <1>1 DEF IsPrinted
<1> QED BY <1>2, <1>3, PaddedShows

\* Whatever is typed, in a line of any length, what the last line printed on one row stays readable above the input line:
\* EDITOR_REDRAW scrolls it up when the line needs another row and never draws or clears over it.
THEOREM OutputStays == ASSUME ConsoleParameters PROVE Spec => []OutputKept
<1>1. Init => ConsoleInv
  BY InitHolds
<1>2. ConsoleInv /\ [Next]_vars => ConsoleInv'
  BY KeyStep, EnterStep, CharStep, CrStep, ClsStep, EndStep, StillHolds DEF Next
<1>3. ConsoleInv => OutputKept
  BY InvShows
<1> QED BY <1>1, <1>2, <1>3, PTL DEF Spec
=============================================================================
