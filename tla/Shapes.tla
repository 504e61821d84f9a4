------------------------------- MODULE Shapes -------------------------------
(* The drawing words' reference models and the cases that compare the ROM with them:
   shapetest.py's FILL, CIRCLE, PLOT and LINE on a screen of W by H pixels, the design
   model of FILL's bounded seed stack (docs/V2/evidence/o15_fill_model.py), and the
   verdict of a case and of a run.  A screen is [bmp, attr, hi, mode, cur]: a value per
   pixel, a colour per cell, a colour per byte of the bitmap (the HIRES attributes).   *)
EXTENDS Integers, Sequences, FiniteSets, TLC

CONSTANTS W, H,             \* the screen, in pixels
          Cell,             \* pixels in a byte and rows in a cell: 8
          Half,             \* half the values of a coordinate's word: 32768
          LineMax           \* LINE_MAX, characters in a typed line

ShapesParameters == /\ {W, H, Cell, Half, LineMax} \subseteq Nat \ {0} /\ Half >= W /\ Half >= H

Pixels == (0 .. W - 1) \X (0 .. H - 1)
S16(v) == LET u == v % (2 * Half) IN IF u >= Half THEN u - 2 * Half ELSE u
OnScreen(x, y) == x \in 0 .. W - 1 /\ y \in 0 .. H - 1
Columns == W \div Cell
SAddr(x, y) == ((y \div (Cell * Cell)) * Cell * Cell + (y % Cell) * Cell + ((y \div Cell) % Cell)) * Columns + (x \div Cell)
AttrOff(x, y) == (y \div Cell) * Columns + (x \div Cell)
Beside(p) == {q \in {<<p[1] - 1, p[2]>>, <<p[1] + 1, p[2]>>, <<p[1], p[2] - 1>>, <<p[1], p[2] + 1>>} : OnScreen(q[1], q[2])}

(***************************************************************************)
(* The models of the words.                                                *)
(***************************************************************************)
RECURSIVE Spread(_, _, _)
Spread(bmp, seen, todo) ==
    IF todo = {} THEN seen
    ELSE LET next == {q \in UNION {Beside(p) : p \in todo} : q \notin seen /\ bmp[q] = bmp[CHOOSE p \in todo : TRUE]}
         IN  Spread(bmp, seen \cup next, next)
FillRegion(bmp, x, y) == Spread(bmp, {<<x, y>>}, {<<x, y>>})

\* The points of a set drawn: the bitmap bits set, the cells (in HIRES the bitmap bytes) coloured.
Drawn(scr, points) ==
    LET on == {p \in points : OnScreen(p[1], p[2])}
        cells == {AttrOff(p[1], p[2]) : p \in on}
        bytes == {SAddr(p[1], p[2]) : p \in on}
    IN  [scr EXCEPT !.bmp = [p \in Pixels |-> IF p \in on THEN 1 ELSE scr.bmp[p]],
                    !.attr = IF scr.mode # 0 THEN @ ELSE [c \in DOMAIN @ |-> IF c \in cells THEN scr.cur ELSE @[c]],
                    !.hi = IF scr.mode = 0 THEN @ ELSE [b \in DOMAIN @ |-> IF b \in bytes THEN scr.cur ELSE @[b]]]

ModelFill(scr, x, y) ==
    IF scr.mode # 0 \/ ~OnScreen(S16(x), S16(y)) THEN scr ELSE Drawn(scr, FillRegion(scr.bmp, S16(x), S16(y)))

Octants(xc, yc, px, py) == {<<xc + d[1], yc + d[2]>> : d \in {<<px, py>>, <<-px, py>>, <<px, -py>>, <<-px, -py>>,
                                                              <<py, px>>, <<-py, px>>, <<py, -px>>, <<-py, -px>>}}
RECURSIVE Arc(_, _, _, _, _)
Arc(xc, yc, px, py, err) ==
    IF py > px THEN {}
    ELSE Octants(xc, yc, px, py)
         \cup (IF err < 0 THEN Arc(xc, yc, px, py + 1, err + 2 * (py + 1) + 1)
               ELSE Arc(xc, yc, px - 1, py + 1, err + 2 * (py + 1 - (px - 1)) + 1))
CirclePoints(xc, yc, r) == IF S16(r) < 0 THEN {} ELSE Arc(S16(xc), S16(yc), S16(r), 0, 1 - S16(r))

Abs(n) == IF n < 0 THEN -n ELSE n
RECURSIVE Steps(_, _, _, _, _, _)
Steps(p, end, d, s, err, pts) ==
    IF p = end THEN Append(pts, p)
    ELSE LET across == 2 * err >= -d[2]
             down == 2 * err <= d[1]
         IN  Steps(<<p[1] + (IF across THEN s[1] ELSE 0), p[2] + (IF down THEN s[2] ELSE 0)>>, end, d, s,
                   err - (IF across THEN d[2] ELSE 0) + (IF down THEN d[1] ELSE 0), Append(pts, p))
LinePoints(a, b, c, e) ==
    LET p == <<S16(a), S16(b)>>
        q == <<S16(c), S16(e)>>
        d == <<Abs(q[1] - p[1]), Abs(q[2] - p[2])>>
    IN  Steps(p, q, d, <<IF p[1] < q[1] THEN 1 ELSE -1, IF p[2] < q[2] THEN 1 ELSE -1>>, d[1] - d[2], <<>>)
Set(s) == {s[i] : i \in DOMAIN s}

ModelCall(scr, call) ==
    CASE call.word = "FILL" -> ModelFill(scr, call.args[1], call.args[2])
      [] call.word = "PLOT" -> Drawn(scr, {<<S16(call.args[1]), S16(call.args[2])>>})
      [] call.word = "LINE" -> Drawn(scr, Set(LinePoints(call.args[1], call.args[2], call.args[3], call.args[4])))
      [] call.word = "CIRCLE" -> Drawn(scr, CirclePoints(call.args[1], call.args[2], call.args[3]))

(***************************************************************************)
(* FILL with spans and a seed stack of cap entries: a push on a full stack *)
(* is dropped and remembered, and when the stack is empty a sweep over the *)
(* screen seeds what still touches the painted region.  f is               *)
(* [open: the fillable pixels left, stack, lost].                          *)
(***************************************************************************)
Push(f, p, cap) == IF Len(f.stack) >= cap THEN [f EXCEPT !.lost = TRUE] ELSE [f EXCEPT !.stack = Append(@, p)]
Line(y, lx, rx) == {<<x, y>> : x \in lx .. rx}

\* One seed per run of fillable pixels of a row, from the left.
RECURSIVE Scan(_, _, _, _, _)
Scan(f, y, x, rx, cap) ==
    IF x > rx \/ y \notin 0 .. H - 1 THEN f
    ELSE Scan(IF <<x, y>> \in f.open /\ ~(x - 1 >= f.left /\ <<x - 1, y>> \in f.open) THEN Push(f, <<x, y>>, cap) ELSE f,
              y, x + 1, rx, cap)

Leftmost(open, p) == CHOOSE l \in 0 .. p[1] : Line(p[2], l, p[1]) \subseteq open /\ <<l - 1, p[2]>> \notin open
Rightmost(open, p) == CHOOSE r \in p[1] .. W - 1 : Line(p[2], p[1], r) \subseteq open /\ <<r + 1, p[2]>> \notin open

RECURSIVE Spans(_, _)
Spans(f, cap) ==
    IF f.stack = <<>> THEN f
    ELSE LET p == f.stack[Len(f.stack)]
             popped == [f EXCEPT !.stack = SubSeq(@, 1, Len(@) - 1)]
             lx == Leftmost(f.open, p)
             rx == Rightmost(f.open, p)
             painted == [popped EXCEPT !.open = @ \ Line(p[2], lx, rx), !.left = lx]
         IN  IF p \notin f.open THEN Spans(popped, cap)
             ELSE Spans(Scan(Scan(painted, p[2] - 1, lx, rx, cap), p[2] + 1, lx, rx, cap), cap)

\* The sweep: one seed per run of candidates (open pixels under or over a painted one), until a push is dropped.
RECURSIVE Sweep(_, _, _, _, _)
Sweep(f, target, i, prev, cap) ==
    IF i = W * H \/ f.lost THEN f
    ELSE LET p == <<i % W, i \div W>>
             cand == p \in f.open /\ \E q \in Beside(p) : q[1] = p[1] /\ q \in target \ f.open
         IN  Sweep(IF cand /\ ~(prev /\ p[1] # 0) THEN Push(f, p, cap) ELSE f, target, i + 1, cand, cap)

RECURSIVE Filled(_, _, _)
Filled(f, target, cap) ==
    LET done == Spans(f, cap)
    IN  IF ~done.lost THEN target \ done.open
        ELSE Filled(Sweep([done EXCEPT !.lost = FALSE], target, 0, FALSE, cap), target, cap)
NewFill(bmp, x, y, cap) ==
    LET target == {p \in Pixels : bmp[p] = bmp[<<x, y>>]}
    IN  Filled([open |-> target, stack |-> <<<<x, y>>>>, lost |-> FALSE, left |-> 0], target, cap)

(***************************************************************************)
(* A case: what is typed and drawn before the calls, the calls, and the    *)
(* verdict.  The machine's answers are the parameter: each [returned, scr, *)
(* t (the time), outside (RAM changed outside the allowed cells), clean    *)
(* (IX, SP and the EXROM depth back)].                                     *)
(***************************************************************************)
\* Commands are lengths here; out and cur hold their places in cmds.
RECURSIVE PackFrom(_, _, _, _, _)
PackFrom(cmds, i, out, cur, size) ==
    IF i > Len(cmds) THEN IF cur = <<>> THEN out ELSE Append(out, cur)
    ELSE IF cur # <<>> /\ size + 1 + cmds[i] > LineMax THEN PackFrom(cmds, i + 1, Append(out, cur), <<i>>, cmds[i])
    ELSE PackFrom(cmds, i + 1, out, Append(cur, i), cmds[i] + (IF cur = <<>> THEN 0 ELSE size + 1))
PackLines(cmds) == PackFrom(cmds, 1, <<>>, <<>>, 0)

SeedFits(cs, scr, call) ==
    LET x == S16(call.args[1])
        y == S16(call.args[2])
        n == Cardinality(FillRegion(scr.bmp, x, y))
    IN  cs.seedBit = scr.bmp[<<x, y>>] /\ cs.region[1] <= n /\ n <= cs.region[2]

CheckRam(outside, allowed, args) == outside \ (allowed \cup args) = {}

RECURSIVE CallsFrom(_, _, _, _, _)
CallsFrom(cs, words, pre, i, answers) ==
    IF i > Len(cs.calls) THEN [ok |-> TRUE, calls |-> i - 1, t |-> 0]
    ELSE LET call == cs.calls[i]
             a == answers[i]
             rest == CallsFrom(cs, words, a.scr, i + 1, answers)
         IN  IF call.word \notin words THEN [ok |-> FALSE, calls |-> i - 1, why |-> "missing"]
             ELSE IF call.word = "FILL" /\ i = 1 /\ cs.seedBit # 2 /\ ~SeedFits(cs, pre, call) THEN [ok |-> FALSE, calls |-> 0, why |-> "setup"]
             ELSE IF ~a.returned \/ a.t > cs.ceil \/ a.scr # ModelCall(pre, call) \/ ~CheckRam(a.outside, cs.allowed, a.args) \/ ~a.clean
             THEN [ok |-> FALSE, calls |-> i, why |-> "differs"]
             ELSE IF rest.ok THEN [rest EXCEPT !.t = @ + a.t] ELSE rest
RunCase(cs, words, scr, answers) == CallsFrom(cs, words, scr, 1, answers)

(***************************************************************************)
(* A run's report: the tasks of all checks in one list, each check's       *)
(* results the next of that list; with --compare a speed case also may not *)
(* take longer than the old build's.  A check is [group, tasks] and a      *)
(* result [ok, t, harness] (harness: the task's own failure).              *)
(***************************************************************************)
RECURSIVE FirstTask(_, _)
FirstTask(checks, k) == IF k = 1 THEN 1 ELSE FirstTask(checks, k - 1) + checks[k - 1].tasks
ResultsOf(checks, k, res) == {res[i] : i \in FirstTask(checks, k) .. FirstTask(checks, k) + checks[k].tasks - 1}
Slower(old, r) == old # 0 /\ r.t > old
CheckOk(checks, k, res, old) ==
    /\ \A r \in ResultsOf(checks, k, res) : r.ok
    /\ checks[k].group = "speed" => ~Slower(old[k], res[FirstTask(checks, k)])
HarnessError(res) == \/ \A i \in DOMAIN res : res[i].harness = "raised"
                     \/ \E i \in DOMAIN res : res[i].harness = "never ran"
Report(checks, res, old) ==
    IF HarnessError(res) THEN 2 ELSE IF \A k \in DOMAIN checks : CheckOk(checks, k, res, old) THEN 0 ELSE 1

(***************************************************************************)
(* The cases of the word LINE and of CIRCLE, with the real numbers (the    *)
(* instance of this module for 256 by 192 pixels).                         *)
(***************************************************************************)
OldCircles == {<<128, 96, r>> : r \in {0, 1, 2, 5, 20, 90}} \cup {<<240, 180, 30>>, <<100, 80, 25>>, <<128, 96, 40>>}
NewCircles == {<<-10, 50, 30>>, <<300, 100, 60>>, <<128, 250, 80>>, <<128, 400, 330>>}
NoCircles == {<<128, 96, 300>>, <<128, 96, -5>>, <<128, 96, -250>>}
LineOctants == {<<128, 96, 128 + d[1], 96 + d[2]>> :
                  d \in {<<60, 20>>, <<20, 60>>, <<-20, 60>>, <<-60, 20>>, <<-60, -20>>, <<-20, -60>>, <<20, -60>>, <<60, -20>>,
                         <<40, 40>>, <<-40, 40>>, <<40, -40>>, <<-40, -40>>, <<0, 0>>, <<50, 0>>, <<-50, 0>>, <<0, 50>>,
                         <<0, -50>>, <<1, 7>>, <<7, -1>>}}
LineEdges == {<<200, 10, 300, 40>>, <<10, 180, 60, 250>>, <<250, 100, 255, 191>>, <<0, 0, 255, 191>>, <<255, 0, 0, 191>>,
              <<-5, -5, 5, 5>>, <<250, 186, 260, 196>>, <<0, 191, -1, 192>>, <<255, 5, 256, 5>>, <<3, 0, 3, -1>>,
              <<-1, 100, 300, 101>>, <<31, -20, 32, 300>>, <<-10, 50, 100, 50>>, <<-300, -40, 120, 170>>, <<100, 10, -50, 80>>}
LineOffScreen == {<<-50, 10, -10, 100>>, <<300, 300, 400, 250>>, <<-100, 300, 300, 200>>, <<-1, -1, -1, -1>>, <<256, 0, 256, 191>>,
                  <<0, 192, 255, 192>>}
Low(n) == n % 256           \* a coordinate of the build before: its low byte

(***************************************************************************)
(* Properties.                                                             *)
(***************************************************************************)
\* FILL with spans and a stack of any capacity paints the 4-connected region of the seed's colour, however many pushes
\* were dropped (o15_fill_model.py against its breadth-first fill).
FillsTheRegion(bmp, x, y) == \A cap \in 1 .. 3 : NewFill(bmp, x, y, cap) = FillRegion(bmp, x, y)

\* A circle is the same in every octant, each of its points is within a half pixel of the radius and no row or column
\* of it is left out (circle_points); a negative radius is no circle.
CircleRound(xc, yc, r) ==
    LET pts == CirclePoints(xc, yc, r)
    IN  /\ pts = {} <=> r < 0
        /\ \A p \in pts : LET dx == p[1] - xc
                              dy == p[2] - yc
                          IN  /\ Octants(xc, yc, dx, dy) \subseteq pts
                              /\ Abs(dx * dx + dy * dy - r * r) <= r
        /\ \A d \in -r .. r : (\E p \in pts : p[1] = xc + d) /\ (\E p \in pts : p[2] = yc + d)

\* A line starts and ends at its ends, steps to a neighbour each time and stays within a half pixel of the true line,
\* whatever its ends (line_points).
LineStraight(a, b, c, e) ==
    LET pts == LinePoints(a, b, c, e)
        dx == S16(c) - S16(a)
        dy == S16(e) - S16(b)
        long == IF Abs(dx) > Abs(dy) THEN Abs(dx) ELSE Abs(dy)
    IN  /\ pts[1] = <<S16(a), S16(b)>> /\ pts[Len(pts)] = <<S16(c), S16(e)>> /\ Len(pts) = long + 1
        /\ \A i \in 1 .. Len(pts) - 1 : Abs(pts[i + 1][1] - pts[i][1]) <= 1 /\ Abs(pts[i + 1][2] - pts[i][2]) <= 1
        /\ \A i \in DOMAIN pts : 2 * Abs((pts[i][1] - S16(a)) * dy - (pts[i][2] - S16(b)) * dx) <= long

\* The set-up lines are the commands in their order, and no line is longer than LINE_MAX unless one command is.
RECURSIVE Joined(_)
Joined(lines) == IF lines = <<>> THEN <<>> ELSE lines[1] \o Joined(Tail(lines))
RECURSIVE RowLength(_, _)
RowLength(cmds, line) == IF Len(line) = 1 THEN cmds[line[1]] ELSE cmds[line[1]] + 1 + RowLength(cmds, Tail(line))
PacksInOrder(cmds) == /\ Joined(PackLines(cmds)) = [i \in 1 .. Len(cmds) |-> i]
                      /\ \A i \in DOMAIN PackLines(cmds) : Len(PackLines(cmds)[i]) > 1 => RowLength(cmds, PackLines(cmds)[i]) <= LineMax

\* A case that passes saw the model's screen after each call, so the last screen is what the calls draw one after the
\* other, and nothing else in RAM changed; a case that fails names a call up to which that held (run_case).
RECURSIVE After(_, _, _)
After(scr, calls, n) == IF n = 0 THEN scr ELSE ModelCall(After(scr, calls, n - 1), calls[n])
CaseIsTrue(cs, words, scr, answers) ==
    LET r == RunCase(cs, words, scr, answers)
    IN  /\ \A i \in 1 .. (IF r.ok THEN Len(cs.calls) ELSE r.calls - 1) :
              answers[i].scr = After(scr, cs.calls, i) /\ answers[i].clean /\ answers[i].outside \subseteq cs.allowed \cup answers[i].args
        /\ (r.ok /\ cs.seedBit = 1 /\ cs.calls[1].word = "FILL" /\ scr.mode = 0) => answers[1].scr.bmp = scr.bmp
        /\ (~r.ok /\ r.why = "differs") => \/ answers[r.calls].scr # After(scr, cs.calls, r.calls)
                                           \/ ~answers[r.calls].returned \/ answers[r.calls].t > cs.ceil \/ ~answers[r.calls].clean
                                           \/ ~CheckRam(answers[r.calls].outside, cs.allowed, answers[r.calls].args)

\* A run that reports success had every task of every check pass, each counted for its own check (report).
ReportTrue(checks, res, old) ==
    /\ Report(checks, res, old) = 0 => \A i \in DOMAIN res : res[i].ok /\ res[i].harness # "never ran"
    /\ (Report(checks, res, old) = 1 /\ old = [k \in DOMAIN checks |-> 0]) => \E i \in DOMAIN res : ~res[i].ok
    /\ FirstTask(checks, Len(checks)) + checks[Len(checks)].tasks = Len(res) + 1

\* What the comments on the cases claim: the cases of the first two sets draw something, 128 96 300 and the negative
\* radii draw nothing while the low byte of -250 would draw a circle, and the lines of line_off_screen draw nothing.
Visible(points) == \E p \in points : OnScreen(p[1], p[2])
CasesSayWhatTheyClaim ==
    /\ \A c \in OldCircles \cup NewCircles : Visible(CirclePoints(c[1], c[2], c[3]))
    /\ \A c \in NoCircles : ~Visible(CirclePoints(c[1], c[2], c[3]))
    /\ Visible(CirclePoints(128, 96, Low(-250))) /\ ~Visible(CirclePoints(128, 96, Low(-5)))
    /\ \A l \in LineOctants \cup LineEdges : Visible(Set(LinePoints(l[1], l[2], l[3], l[4])))
    /\ \A l \in LineOffScreen : ~Visible(Set(LinePoints(l[1], l[2], l[3], l[4])))
\* The bitmap's bytes are all of the screen's and each is one byte column of one row (saddr).
Bytes == 0 .. Columns * H - 1
BytesOnce == /\ {SAddr(p[1], p[2]) : p \in Pixels} = Bytes
             /\ \A y \in 0 .. H - 1, b \in 0 .. Columns - 1 :
                   \A k \in 0 .. Cell - 1 : SAddr(b * Cell + k, y) = SAddr(b * Cell, y)
=============================================================================
