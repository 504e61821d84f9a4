----------------------------- MODULE FloatTest -----------------------------
(***************************************************************************)
(* floattest.py: a Forth word called on a machine with the stacks it is    *)
(* given and one CATCH frame, and the cases, the console lines and the     *)
(* report built on that call.  What a word does is given (a behaviour);    *)
(* how THROW unwinds is the ROM's.  A cell of the float stack is Cell      *)
(* bytes; a word of memory is the value at its even address.  What may be  *)
(* missing (None) is a set of at most one value.                           *)
(***************************************************************************)
EXTENDS Integers, Sequences, FiniteSets, SequencesExt

CONSTANTS FTop, DTop,                       \* FSTACK_TOP, DSTACK_TOP
          Cell,                             \* bytes of a float (5)
          MostF, MostI,                     \* deeper stacks are not read back (210 cells, 64 integers)
          RetSlot, StopAddr, ThrowSlot,     \* $FF00, $FF02, $FF3E
          MemTop,                           \* the last address
          Modulus                           \* 2^16

FloatTestParameters ==
    /\ Cell > 0 /\ FTop < DTop /\ DTop <= RetSlot
    /\ StopAddr = RetSlot + 2 /\ ThrowSlot - 4 >= StopAddr + 2 /\ ThrowSlot < MemTop
    /\ Modulus % 2 = 0

NormalSp == RetSlot + 2
ThrownSp == ThrowSlot + 2
Stop == 24                  \* jr $: the stop instruction
BeepPlay == -2              \* the address of BEEP_PLAY
Lost == -1                  \* somewhere else: the word has not returned

Put(mem, at, vals, step) ==
    [a \in DOMAIN mem |-> IF a >= at /\ a < at + step * Len(vals) /\ (a - at) % step = 0
                          THEN vals[(a - at) \div step + 1] ELSE mem[a]]
\* The machine as Machine.restore leaves it.
Booted == [pc |-> Lost, sp |-> RetSlot, ix |-> DTop, iy |-> FTop, depth |-> 0, frame |-> [sp |-> 0, ix |-> 0, iy |-> 0],
           mem |-> [a \in 0..MemTop |-> 0], stuck |-> 0]

----------------------------------------------------------------------------
\* The ROM: a word takes its operands and leaves its results, and then returns, throws, does not come back, comes back
\* with the machine stack or the float stack off, or reaches BEEP_PLAY.
Took(m, w) == [m EXCEPT !.iy = @ + Cell * w.pop, !.ix = @ + 2 * w.ipop]
PushFloat(m, c) == [m EXCEPT !.iy = @ - Cell, !.mem = Put(@, m.iy - Cell, c, 1)]
PushInt(m, v) == [m EXCEPT !.ix = @ - 2, !.mem = Put(@, m.ix - 2, <<v>>, 2)]
Left(m, w) == FoldLeft(PushInt, FoldLeft(PushFloat, m, w.push), w.ipush)
Ret(m) == [m EXCEPT !.pc = m.mem[m.sp], !.sp = @ + 2]
\* THROW of a code that is not 0.  The frame's input source is popped; RST_DPUSH leaves its return address below SP.
Unwound(m) == [m EXCEPT !.sp = m.frame.sp + 4, !.ix = m.frame.ix, !.iy = m.frame.iy, !.depth = @ - 1]
Carried(m, code) == PushInt([m EXCEPT !.mem = Put(@, m.sp - 2, <<1>>, 2)], code)
Thrown(m, code) == IF m.depth = 0 THEN [m EXCEPT !.pc = Lost, !.ix = DTop, !.iy = FTop] ELSE Ret(Carried(Unwound(m), code))
Runs(m, w) ==
    CASE w.how = "returns" -> Ret(Left(Took(m, w), w))
      [] w.how = "throws" -> Thrown(Took(m, w), w.code)
      [] w.how = "stuck" -> [Took(m, w) EXCEPT !.pc = Lost]
      [] w.how = "slips" -> [Ret(Left(Took(m, w), w)) EXCEPT !.sp = @ + 2]
      [] w.how = "tears" -> [Ret(Left(Took(m, w), w)) EXCEPT !.iy = @ - 1]
      [] w.how = "plays" -> [Took(m, w) EXCEPT !.pc = BeepPlay]

----------------------------------------------------------------------------
\* Fw.call: the last cell is the top, at IY; the frame is at ThrowSlot, below it the input source as CATCH pushes it.
Given(m, floats, ints) ==
    [m EXCEPT !.iy = FTop - Cell * Len(floats), !.ix = DTop - 2 * Len(ints),
              !.mem = Put(Put(@, FTop - Cell * Len(floats), FlattenSeq(Reverse(floats)), 1), DTop - 2 * Len(ints), Reverse(ints), 2)]
Framed(m, catch) ==
    IF catch THEN [m EXCEPT !.depth = 1, !.frame = [sp |-> ThrowSlot - 4, ix |-> m.ix, iy |-> m.iy],
                            !.mem = Put(@, ThrowSlot - 4, <<0, 0, StopAddr>>, 2)]
    ELSE m
Started(m) == [m EXCEPT !.mem = Put(@, RetSlot, <<StopAddr, Stop>>, 2), !.sp = RetSlot]
\* The cells under the top, deepest first; None when the pointer is wild.
FloatsOf(m) ==
    IF m.iy > FTop \/ (FTop - m.iy) % Cell # 0 \/ (FTop - m.iy) \div Cell > MostF THEN {}
    ELSE {[k \in 1..(FTop - m.iy) \div Cell |-> [j \in 1..Cell |-> m.mem[FTop - Cell * k + j - 1]]]}
IntsOf(m) ==
    IF m.ix > DTop \/ (DTop - m.ix) % 2 # 0 \/ (DTop - m.ix) \div 2 > MostI THEN {}
    ELSE {[k \in 1..(DTop - m.ix) \div 2 |-> m.mem[DTop - 2 * k]]}
Found(m, ints) ==
    [ok |-> m.pc = StopAddr, threw |-> m.pc = StopAddr /\ m.sp = ThrownSp, sp |-> m.sp, pc |-> m.pc, f |-> FloatsOf(m), ints |-> ints,
     code |-> {s[Len(s)] : s \in {t \in ints : m.pc = StopAddr /\ m.sp = ThrownSp /\ t # <<>>}}]
\* The third call in a row that comes to no stop raises Stuck.
Watched(m, stops) == [m EXCEPT !.stuck = IF m.pc \in {StopAddr} \cup stops THEN 0 ELSE @ + 1]
Answer(m, stops) == [m |-> Watched(m, stops), r |-> Found(m, IntsOf(m)), raised |-> Watched(m, stops).stuck >= 3]
Call(m, w, floats, ints, catch, stops) == Answer(Runs(Started(Framed(Given(m, floats, ints), catch)), w), stops)

\* settle: it ended as a plain return.
Settled(r) == r.ok /\ ~r.threw /\ r.sp = NormalSp

----------------------------------------------------------------------------
\* The cases.  A case is [kind, w, f, i, exp]; exp.end is "ok" or "throws", for NUMBER "throws", "none", "int" or "float".
Threw(r, code) == r.threw /\ r.code = {code}
Judged(r, exp) ==
    CASE exp.end = "throws" -> Threw(r, exp.code)
      [] exp.end = "ok" -> Settled(r) /\ r.f = {exp.f} /\ r.ints = {exp.i}
\* do_number after its call: the flag, 0, 1 under an integer, or 2 alone beside a float.
NumberJudged(r, exp) ==
    CASE exp.end = "throws" -> Threw(r, exp.code)
      [] exp.end = "none" -> Settled(r) /\ r.f = {<<>>} /\ \E s \in r.ints : s # <<>> /\ s[Len(s)] = 0
      [] exp.end = "int" -> Settled(r) /\ r.f = {<<>>} /\ \E s \in r.ints : Len(s) > 1 /\ s[Len(s)] = 1 /\ s[Len(s) - 1] = exp.v
      [] exp.end = "float" -> Settled(r) /\ r.f = {<<exp.c>>} /\ r.ints = {<<2>>}
Outcome(c, good) == [m |-> c.m, raised |-> c.raised, good |-> good]
DoStd(cs, c) == Outcome(c, Judged(c.r, cs.exp))
DoNumber(cs, c) == Outcome(c, NumberJudged(c.r, cs.exp))

\* do_print: PLACES, the screen cleared, the word; the text is read back without its trailing blanks, the cursor must have
\* advanced over one of them.
Trimmed(s) == SubSeq(s, 1, CHOOSE n \in 0..Len(s) : (n > 0 => s[n] # " ") /\ \A i \in n + 1..Len(s) : s[i] = " ")
Returns == [how |-> "returns", pop |-> 0, push |-> <<>>, ipop |-> 0, ipush |-> <<>>, code |-> 0, out |-> <<>>, frames |-> 0, semitones |-> 0]
Printed(cs, c) ==
    Outcome(c, Settled(c.r) /\ c.r.f = {<<>>} /\ Trimmed(cs.w.out) = cs.exp.text /\ Len(cs.w.out) = Len(cs.exp.text) + 1)
ClearPrint(m) == Call(m, Returns, <<>>, <<>>, FALSE, {}).m
Print1(m, cs) == Printed(cs, Call(ClearPrint(m), cs.w, cs.f, <<>>, TRUE, {}))
AtPlaces(cs, c) == IF Settled(c.r) THEN Print1(c.m, cs) ELSE Outcome(c, FALSE)
DoPrint(m, cs) == IF cs.places = {} THEN Print1(m, cs)
                  ELSE AtPlaces(cs, Call(m, CHOOSE w \in cs.places : TRUE, <<>>, <<4>>, TRUE, {}))

\* do_beep: to BEEP_PLAY with both stacks empty, or a plain return that played nothing.
Played(m, cs, r) == /\ r.pc = BeepPlay => /\ m.iy = FTop /\ m.ix = DTop
                                          /\ cs.w.semitones = cs.i[1] /\ cs.w.frames = cs.exp.frames
                    /\ r.pc # BeepPlay => Settled(r) /\ r.f = {<<>>} /\ r.ints = {<<>>} /\ cs.exp.frames = 0
DoBeep(m, cs, c) == Outcome(c, Played(c.m, cs, c.r))

Handled(m, cs) ==
    CASE cs.kind = "print" -> DoPrint(m, cs)
      [] cs.kind = "beep" -> DoBeep(m, cs, Call(m, cs.w, cs.f, cs.i, TRUE, {BeepPlay}))
      [] cs.kind = "number" -> DoNumber(cs, Call(m, cs.w, <<>>, cs.i, TRUE, {}))
      [] cs.kind = "std" -> DoStd(cs, Call(m, cs.w, cs.f, cs.i, TRUE, {}))

\* t_cases: the machine is restored before every `every`-th case; Stuck ends the chunk.
Ready(m, k, every) == IF (k - 1) % every = 0 THEN Booted ELSE m
Counted(s, h) ==
    IF h.raised THEN [s EXCEPT !.fails = @ + 1, !.ended = TRUE]
    ELSE [s EXCEPT !.m = h.m, !.n = @ + 1, !.fails = IF h.good THEN @ ELSE @ + 1]
TCases(cases, every) ==
    FoldLeftDomain(LAMBDA s, k : IF s.ended THEN s ELSE Counted(s, Handled(Ready(s.m, k, every), cases[k])),
                   [m |-> Booted, n |-> 0, fails |-> 0, ended |-> FALSE], cases)
Result(t) == [ok |-> t.fails = 0, n |-> t.n, nfail |-> t.fails]

Chunks(lst, n) == IF lst = <<>> THEN <<<<>>>>
                  ELSE [c \in 1..(Len(lst) + n - 1) \div n |-> SubSeq(lst, n * (c - 1) + 1, IF n * c < Len(lst) THEN n * c ELSE Len(lst))]

----------------------------------------------------------------------------
\* int_model: * / and MOD on signed words; the results are patterns.
Signed(v) == IF v >= Modulus \div 2 THEN v - Modulus ELSE v
Size(v) == IF v < 0 THEN -v ELSE v
Quotient(x, y) == IF (x < 0) # (y < 0) THEN -(Size(x) \div Size(y)) ELSE Size(x) \div Size(y)
IntModel(word, x, y) ==
    CASE word = "*" -> (x * y) % Modulus
      [] word # "*" /\ y = 0 -> 0
      [] word = "/" /\ y # 0 -> Quotient(x, y) % Modulus
      [] word = "MOD" /\ y # 0 -> (x - Quotient(x, y) * y) % Modulus

----------------------------------------------------------------------------
\* con_line: the text a line printed is in the rows that are not blank and were not before, joined; the OK after a blank,
\* or alone, is dropped.
NonBlank(rows) == SelectSeq(rows, LAMBDA r : r # <<>>)
DropOK(t) == CASE t = <<"OK">> -> <<>>
               [] Len(t) > 1 /\ t[Len(t)] = "OK" /\ t[Len(t) - 1] = " " -> SubSeq(t, 1, Len(t) - 2)
               [] OTHER -> t
Joined(rows) == FlattenSeq(rows)
ConLine(before, after) ==
    DropOK(Joined(SubSeq(NonBlank(after), Len(NonBlank(before)) + 1, Len(NonBlank(after)))))

----------------------------------------------------------------------------
\* report: each check its own tasks' results, in order, and with them the model's own where the check is about it; the
\* speed group is recorded, not gated.
First(checks, k) == FoldLeftDomain(LAMBDA n, j : IF j < k THEN n + checks[j].tasks ELSE n, 1, checks)
Of(checks, k, res) == SubSeq(res, First(checks, k), First(checks, k) + checks[k].tasks - 1)
Passes(checks, k, res, model) ==
    (\A i \in DOMAIN Of(checks, k, res) : Of(checks, k, res)[i].ok) /\ (checks[k].model => model)
Gated(checks) == {k \in DOMAIN checks : checks[k].group # "speed"}
HarnessError(res) == /\ res # <<>>
                     /\ \/ \A i \in DOMAIN res : res[i].harness = "raised"
                        \/ \E i \in DOMAIN res : res[i].harness = "never ran"
ExitCode(checks, res, model) ==
    IF HarnessError(res) THEN 2 ELSE IF \A k \in Gated(checks) : Passes(checks, k, res, model) THEN 0 ELSE 1

----------------------------------------------------------------------------
\* Properties.

\* A call on a machine that an earlier call left in any state tells how it ended: a return gives back the stacks that the
\* word left, a THROW its code on the stacks of the call, and nothing else settles; a THROW without a frame of its own does
\* not either, though the frame of an earlier call may catch it.  The stop stays where it is.
Kept(floats, w) == SubSeq(floats, 1, Len(floats) - w.pop)
CallTells(m, w, floats, ints, catch) ==
    LET c == Call(m, w, floats, ints, catch, {})
        some == w.pop <= Len(floats) /\ w.ipop <= Len(ints)
    IN  /\ some /\ w.how = "returns" => /\ Settled(c.r) /\ c.r.f = {Kept(floats, w) \o w.push}
                                       /\ c.r.ints = {SubSeq(ints, 1, Len(ints) - w.ipop) \o w.ipush}
        /\ w.how = "throws" /\ catch => /\ c.r.threw /\ c.r.code = {w.code} /\ c.r.f = {floats}
                                        /\ c.r.ints = {Append(ints, w.code)} /\ c.m.stuck = 0
        /\ w.how # "returns" => ~Settled(c.r) \/ w.how = "tears"
        /\ w.how = "tears" \/ w.pop > Len(floats) + Len(w.push) => c.r.f = {} \/ c.r.threw \/ ~c.r.ok
        /\ c.m.mem[StopAddr] = Stop

\* A chunk passes exactly when every word did in its case what the case says, whatever the cases before it left, and counts
\* the ones that did not; it ends early, and fails, only at a third call in a row that did not come back since a restore.
DoesRight(cs) ==
    LET plain == cs.w.how = "returns"
        f == Kept(cs.f, cs.w) \o cs.w.push
        i == SubSeq(cs.i, 1, Len(cs.i) - cs.w.ipop) \o cs.w.ipush
    IN  CASE cs.kind = "print" -> /\ plain /\ f = <<>> /\ cs.w.out = Append(cs.exp.text, " ")
                                  /\ \A p \in cs.places : p.how = "returns"
          [] cs.kind = "beep" -> \/ plain /\ f = <<>> /\ i = <<>> /\ cs.exp.frames = 0
                                 \/ /\ cs.w.how = "plays" /\ f = <<>> /\ i = <<>>
                                    /\ cs.exp.frames = cs.w.frames /\ cs.w.semitones = cs.i[1]
          [] cs.exp.end = "throws" -> cs.w.how = "throws" /\ cs.w.code = cs.exp.code
          [] cs.exp.end = "ok" -> plain /\ f = cs.exp.f /\ i = cs.exp.i
          [] cs.exp.end = "none" -> plain /\ f = <<>> /\ i # <<>> /\ i[Len(i)] = 0
          [] cs.exp.end = "int" -> plain /\ f = <<>> /\ IsSuffix(<<cs.exp.v, 1>>, i)
          [] cs.exp.end = "float" -> plain /\ f = <<cs.exp.c>> /\ i = <<2>>
Hangs(cs) == cs.w.how = "stuck"
CasesJudged(cases, every) ==
    LET t == TCases(cases, every)
        third == {k \in 3..Len(cases) : (k - 1) % every >= 2 /\ \A j \in k - 2..k : Hangs(cases[j])}
        wrong == {k \in DOMAIN cases : ~DoesRight(cases[k])}
    IN  /\ Result(t).ok <=> wrong = {}
        /\ third = {} => t.n = Len(cases) /\ Result(t).nfail = Cardinality(wrong)
        /\ third # {} => t.n + 1 \in third /\ \A k \in third : t.n < k

\* The model of / and MOD: truncation toward 0, the remainder with the dividend's sign, also where the quotient wraps.
DivisionRight(x, y) ==
    LET q == Signed(IntModel("/", x, y))
        r == Signed(IntModel("MOD", x, y))
    IN  IF y = 0 THEN q = 0 /\ r = 0
        ELSE /\ (q * y + r - x) % Modulus = 0 /\ Size(r) < Size(y)
             /\ r # 0 => (r < 0) = (x < 0)
             /\ Size(q) * Size(y) <= Size(x)

\* No case of a check is lost or run twice when they are dealt out in chunks.
ChunksKeep(lst, n) == /\ FlattenSeq(Chunks(lst, n)) = lst
                      /\ \A c \in DOMAIN Chunks(lst, n) : Len(Chunks(lst, n)[c]) \in (IF lst = <<>> THEN {0} ELSE 1..n)

\* The text of a typed line is what the line printed, when nothing scrolled or was cleared and no row but the last ends in
\* a blank.
LineReadBack(before, after, rows) ==
    (\A i \in 1..Len(rows) - 1 : rows[i] = <<>> \/ rows[i][Len(rows[i])] # " ") => ConLine(before, after) = DropOK(Joined(rows))

\* The run succeeds when every task of a gated check did, and the model's own check if it was chosen; a task that never ran
\* is an error of the harness, a word that is slow or missing in the speed group is not.
FloatReportTrue(checks, res, model) ==
    LET owner(i) == CHOOSE k \in DOMAIN checks : First(checks, k) <= i /\ i < First(checks, k) + checks[k].tasks
        bad == {i \in DOMAIN res : ~res[i].ok /\ checks[owner(i)].group # "speed"}
        modelBad == ~model /\ \E k \in DOMAIN checks : checks[k].model /\ checks[k].group # "speed"
        lost == \E i \in DOMAIN res : res[i].harness = "never ran"
    IN  /\ ExitCode(checks, res, model) = 0 => bad = {} /\ ~modelBad /\ ~lost
        /\ ExitCode(checks, res, model) = 1 => (bad # {} \/ modelBad) /\ ~lost
        /\ lost => ExitCode(checks, res, model) = 2
=============================================================================
