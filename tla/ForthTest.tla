----------------------------- MODULE ForthTest -----------------------------
(***************************************************************************)
(* forthtest.py: a Forth file typed line by line at the console, and each  *)
(* line's output read back from the screen.  A row of the screen is its    *)
(* cells without trailing blanks; "OK" is one cell.                        *)
(***************************************************************************)
EXTENDS Integers, Sequences, FiniteSets, SequencesExt

CONSTANTS Top      \* the last row of the screen

----------------------------------------------------------------------------
\* typed: the rows a line printed, from the rows before and after it and PRINT_ROW (r0, r1) then.
Cleared(before, r0, after, r1) ==
    r1 < r0 \/ ((\E i \in 0..r0 - 1 : before[i] # <<>>) /\ \A i \in 0..r0 - 1 : after[i] = <<>>)
\* The rows scrolled off the top while the line ran.
Fits(before, r0, after, k) == \A i \in 0..r0 - k - 1 : after[i] = before[k + i]
Scrolled(before, r0, after) ==
    CHOOSE k \in 0..r0 : Fits(before, r0, after, k) /\ \A j \in 0..k - 1 : ~Fits(before, r0, after, j)
DropBlank(rows) == SubSeq(rows, 1, CHOOSE n \in 0..Len(rows) : /\ n > 0 => rows[n] # <<>>
                                                               /\ \A i \in n + 1..Len(rows) : rows[i] = <<>>)
DropBlankFirst(rows) == Reverse(DropBlank(Reverse(rows)))
\* The console's OK directly follows the output.
WithoutOK(rows) ==
    IF rows # <<>> /\ rows[Len(rows)] # <<>> /\ rows[Len(rows)][Len(rows[Len(rows)])] = "OK"
    THEN DropBlank([rows EXCEPT ![Len(rows)] = SubSeq(@, 1, Len(@) - 1)]) ELSE rows
Read(before, r0, after, r1) ==
    LET cleared == Cleared(before, r0, after, r1)
        first == IF cleared THEN 0 ELSE r0 - Scrolled(before, r0, after)
        rows == DropBlank([i \in 1..r1 + 1 - first |-> after[first + i - 1]])
    IN  WithoutOK(IF cleared THEN DropBlankFirst(rows) ELSE rows)

\* What is read is what the line printed (rows, its OK or message last), if that is less than a screen and the rows above
\* the line were all different.  A line that left none of them, by clearing the screen or by scrolling, must have printed
\* no row that the screen already showed, and its blank rows in front may be missing.
ReadsItsOutput(before, r0, after, r1, rows, cleared) ==
    LET gone == IF Len(rows) + r0 > Top THEN Len(rows) + r0 - Top ELSE 0
        fresh == cleared \/ \A i \in gone..r0 - 1 : before[i] = <<>>
        read == Read(before, r0, after, r1)
        all == DropBlank(rows)
    IN  /\ Len(rows) < Top
        /\ \A i, j \in 0..r0 - 1 : before[i] = before[j] => i = j
        /\ fresh => {before[i] : i \in 0..r0 - 1} \cap {rows[i] : i \in DOMAIN rows} = {}
        => IF fresh THEN DropBlankFirst(read) = WithoutOK(DropBlankFirst(all)) ELSE read = WithoutOK(all)

----------------------------------------------------------------------------
\* parse: what is said in comments about the next typed line.  A raw line is [kind, arg]; a typed line becomes [want, bench,
\* keys, brk], the file [lines, stock].
Nothing == [bench |-> "", keys |-> 0, brk |-> "none"]
\* (a mutant of ParseLine) What was said of a line is said of the ones after it too.
ParseLineKeeps(s, raw) ==
    CASE raw.kind \in {"bench", "keys", "brk"} -> [s EXCEPT !.said[raw.kind] = raw.arg]
      [] raw.kind = "exrom" -> [s EXCEPT !.stock = raw.arg = "stock"]
      [] raw.kind = "typed" -> [s EXCEPT !.lines = Append(@, [want |-> raw.arg, said |-> s.said])]
      [] OTHER -> s
ParseLine(s, raw) ==
    CASE raw.kind \in {"bench", "keys", "brk"} -> [s EXCEPT !.said[raw.kind] = raw.arg]
      [] raw.kind = "exrom" -> [s EXCEPT !.stock = raw.arg = "stock"]
      [] raw.kind = "typed" -> [s EXCEPT !.lines = Append(@, [want |-> raw.arg, said |-> s.said]), !.said = Nothing]
      [] OTHER -> s
Parse(raws) == FoldLeft(ParseLine, [lines |-> <<>>, stock |-> FALSE, said |-> Nothing], raws)

\* What the comments between the typed line before line i of the file and itself say of it.
SaidOf(raws, i) ==
    LET since == {j \in 1..i - 1 : ~\E t \in j..i - 1 : raws[t].kind = "typed"}
        at(kind) == {j \in since : raws[j].kind = kind}
    IN  [kind \in DOMAIN Nothing |->
            IF at(kind) = {} THEN Nothing[kind] ELSE raws[CHOOSE j \in at(kind) : \A n \in at(kind) : n <= j].arg]

----------------------------------------------------------------------------
\* typed, with the keys and the BREAK said for the line.  The line (external) reads b.reads keys, comes back to the prompt
\* or not (b.stops), gets to the break point and under BREAK to the prompt or not (b.breaks), and prints b.out.
Fed(said, b) == IF said.keys < b.reads THEN said.keys ELSE b.reads
TypedLine(said, b) ==
    IF said.brk # "none" THEN [raised |-> ~b.breaks \/ said.keys > 0, out |-> b.out]     \* press_break; no key is wanted after it
    ELSE [raised |-> ~b.stops \/ Fed(said, b) < b.reads \/ Fed(said, b) < said.keys, out |-> b.out]
Matches(want, out) ==
    CASE want = "draws" -> TRUE
      [] want = "endsB" -> out \in {"B", "AB"}
      [] OTHER -> out = want
LineOk(l, b) == ~TypedLine(l.said, b).raised /\ Matches(l.want, TypedLine(l.said, b).out)
\* run_case: up to the first line that differs; bs[n] is how the n-th typed line behaves.
RunCase(raws, bs) ==
    LET lines == Parse(raws).lines
        bad == {i \in DOMAIN lines : ~LineOk(lines[i], bs[i])}
    IN  [ok |-> bad = {}, ran |-> IF bad = {} THEN Len(lines) ELSE CHOOSE i \in bad : \A j \in bad : i <= j]

\* A case passes when every typed line, fed the keys and the BREAK that the comments directly above it ask for, read
\* exactly those keys, came back and printed what it wants; none is typed after the first that does not.
CaseJudged(raws, bs) ==
    LET typed == {i \in DOMAIN raws : raws[i].kind = "typed"}
        nth(i) == Cardinality({t \in typed : t <= i})
        does(i) == LET b == bs[nth(i)]
                       said == SaidOf(raws, i)
                   IN  /\ IF said.brk = "none" THEN b.stops /\ b.reads = said.keys ELSE b.breaks /\ said.keys = 0
                       /\ Matches(raws[i].arg, b.out)
        failing == {i \in typed : ~does(i)}
        run == RunCase(raws, bs)
    IN  /\ run.ok <=> failing = {}
        /\ ~run.ok => run.ran = nth(CHOOSE i \in failing : \A j \in failing : i <= j)
        /\ Parse(raws).stock <=> \E i \in DOMAIN raws : /\ raws[i].kind = "exrom" /\ raws[i].arg = "stock"
                                                       /\ \A j \in i + 1..Len(raws) : raws[j].kind # "exrom"
=============================================================================
