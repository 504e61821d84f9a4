------------------------------- MODULE Harness -------------------------------
(* fharness.Machine and Console: an emulator driven through breakpoints, snapshots, memory
   writes and key events, and the checks of fharness's self-test run on one machine in any
   order, each after a restore, with commands that fail.  The ROM is modelled from how the
   harness uses it: it goes from one place with a name to the next.                     *)
EXTENDS Integers, Sequences, FiniteSets, SequencesExt

CONSTANTS MaxTasks        \* bound: tasks a worker runs
HarnessParameters == MaxTasks \in Nat

VARIABLES machine,        \* the worker's emulator
          ran,            \* how many tasks it has run
          results         \* the result of each check that ran: "ok", "wrong", "failed", or "died" with its machine
vars == <<machine, ran, results>>

Slots == 1..8
NoSnap == [pc |-> "none"]
----------------------------------------------------------------------------
\* The ROM between two places.  f.run is the rest of the line being interpreted.
Cold == [pc |-> "RESET", beats |-> 2, key |-> "", line |-> <<>>, run |-> <<>>, rows |-> <<>>,
         version |-> FALSE, sp |-> "prompt", state |-> FALSE, err |-> 0, border |-> 7, byte |-> 0]
Prints == [x \in {"3", "6"} |-> x]
At(f, pc) == [f EXCEPT !.pc = pc]
Waits(f, sp) == [f EXCEPT !.pc = "IO_READ_KEY", !.sp = sp]
Does(f, word) ==
    IF word \in DOMAIN Prints /\ ~f.state THEN [f EXCEPT !.rows = Append(@, word)]
    ELSE IF word = ":" THEN [f EXCEPT !.state = TRUE, !.run = Tail(@)]      \* (and its name)
    ELSE IF word = ";" THEN [f EXCEPT !.state = FALSE]
    ELSE IF word = "KEY" THEN Waits(f, "word")
    ELSE IF word = "?" THEN Waits([f EXCEPT !.rows = Append(@, "?"), !.err = -13, !.run = <<>>], "prompt")
    ELSE f
Interpreted(f) == Does([f EXCEPT !.run = Tail(@), !.pc = "INTERPRET"], Head(f.run))
Takes(f, key) ==
    IF f.sp = "word" THEN At(f, "INTERPRET")
    ELSE IF key = "ENTER" THEN At(f, "EDITOR.enter")
    ELSE IF key = "LEFT" THEN At(f, "IO_READ_KEY")
    ELSE [f EXCEPT !.line = Append(@, key), !.pc = "IO_READ_KEY"]
Typed(f) == Takes([f EXCEPT !.key = "", !.version = FALSE], f.key)
Moves(f, held) ==
    f.pc \notin {"STOP_ADDR", "DONE", "none"} /\ (f.pc = "IO_READ_KEY" => f.key # "" \/ held # "")
Onward(f, held) ==
    CASE f.pc = "RESET" -> [Cold EXCEPT !.pc = "SOUND_WRITE", !.version = TRUE, !.byte = f.byte]
      [] f.pc = "SOUND_WRITE" -> IF f.beats > 1 THEN [f EXCEPT !.beats = @ - 1] ELSE Waits(f, "prompt")
      [] f.pc = "IO_READ_KEY" -> At(IF f.key = "" THEN [f EXCEPT !.key = held] ELSE f, "IO_LATCH_AND_CLEAR")
      [] f.pc = "IO_LATCH_AND_CLEAR" -> Typed(f)
      [] f.pc = "EDITOR.enter" -> [f EXCEPT !.run = f.line, !.line = <<>>, !.err = 0, !.pc = "INTERPRET"]
      [] f.pc = "INTERPRET" -> IF f.run = <<>> THEN Waits([f EXCEPT !.rows = Append(@, "OK")], "prompt")
                               ELSE At(f, "INTERPRET.token")
      [] f.pc = "INTERPRET.token" -> Interpreted(f)
      [] f.pc = "GFX_CLS" -> [f EXCEPT !.rows = <<>>, !.pc = "STOP_ADDR"]
      [] f.pc = "BORDER_PROG" -> [f EXCEPT !.border = 2, !.pc = "STOP_ADDR"]
      [] f.pc = "GLYPH_PROG" -> [f EXCEPT !.rows = <<"glyphs">>, !.pc = "DONE"]

----------------------------------------------------------------------------
\* The emulator's commands.  m.raised: a command failed and the exception is on its way out.
Off == [up |-> FALSE, f |-> NoSnap, on |-> FALSE, armed |-> [i \in Slots |-> ""], held |-> "",
        snap |-> NoSnap, probe |-> NoSnap, caller |-> "", stray |-> FALSE, raised |-> FALSE, said |-> ""]
Do(m, new) == IF m.raised THEN m ELSE new
Raises(m, if) == IF if THEN [m EXCEPT !.raised = TRUE] ELSE m
RECURSIVE RunOn(_, _, _)
\* run: from where the machine is, stopping at once if a breakpoint is there
RunOn(m, f, fuel) ==
    IF fuel = 0 \/ (m.on /\ f.pc \in Range(m.armed)) \/ ~Moves(f, m.held) THEN f
    ELSE RunOn(m, Onward(f, m.held), fuel - 1)
Run(m) == Do(m, [m EXCEPT !.f = RunOn(m, m.f, 40)])
CpuStep(m) == Do(m, IF Moves(m.f, m.held) THEN [m EXCEPT !.f = Onward(@, m.held)] ELSE m)
EnableBp(m) == Do(m, [m EXCEPT !.on = TRUE])
\* (a mutant of SetBps) Only the breakpoints asked for are set; the others stay.
SetBpsKeepsRest(m, addrs) == [EnableBp(m) EXCEPT !.armed = [i \in Slots |-> IF i <= Len(addrs) THEN addrs[i] ELSE @[i]]]
SetBps(m, addrs) == [EnableBp(m) EXCEPT !.armed = [i \in Slots |-> IF i <= Len(addrs) THEN addrs[i] ELSE ""]]
\* The machine stopped at none of the places asked for, though it is at a breakpoint.
Stopped(m, addrs) == [m EXCEPT !.stray = @ \/ (m.f.pc \notin Range(addrs) /\ m.f.pc \in Range(m.armed))]
RunTo(m, addrs) == Stopped(Run(SetBps(m, addrs)), addrs)
Reached(m, addr) == Raises(m, m.f.pc # addr)
Restore(m) == EnableBp(Do(m, [m EXCEPT !.f = m.snap, !.on = FALSE]))
Checkpoint(m) == Do(m, [m EXCEPT !.probe = m.f])
Rollback(m) == EnableBp(Do(m, [m EXCEPT !.f = m.probe, !.on = FALSE]))
Reset(m) == Do(m, [m EXCEPT !.f = [@ EXCEPT !.pc = "RESET"]])
Call(m, routine) == RunTo(Do(m, [m EXCEPT !.f.sp = "slot", !.f.pc = routine]), <<"STOP_ADDR">>)
Write(m, byte) == Do(m, [m EXCEPT !.f.byte = byte])
Stop(m) == Off

GlyphTable(m) == Reached(RunTo(Do(m, [m EXCEPT !.f.sp = "slot", !.f.pc = "GLYPH_PROG"]), <<"DONE">>), "DONE")
\* Machine.start: cold start to the first key wait, then the snapshot, then the glyphs (which
\* overwrite the screen and SP), then the snapshot back.  A step that fails stops the emulator.
Booted(m) == Reached(RunTo(Reset(m), <<"IO_READ_KEY">>), "IO_READ_KEY")
Snapshot(m) == Do(m, [m EXCEPT !.snap = m.f])
Start == Restore(GlyphTable(Snapshot(Booted([Off EXCEPT !.up = TRUE, !.f = Cold]))))

\* boot_trace: the sound writes on the way, and the border at the first; then the boot snapshot.
RECURSIVE Writes(_, _)
ToWrite(m) == RunTo(m, <<"SOUND_WRITE", "IO_READ_KEY">>)
Writes(m, n) ==
    IF m.f.pc # "SOUND_WRITE" \/ n = 9 THEN [m |-> m, n |-> n] ELSE Writes(ToWrite(CpuStep(m)), n + 1)
Traced(t) == [m |-> Restore(t.m), writes |-> t.n, pc |-> t.m.f.pc, version |-> t.m.f.version, border |-> t.m.f.border]
BootTrace(m, border) == Traced(Writes(ToWrite(Reset(IF border THEN Call(m, "BORDER_PROG") ELSE m)), 0))

----------------------------------------------------------------------------
\* Console
Called(m) == [m EXCEPT !.caller = m.f.sp]
Boot(m) == Called(Restore(m))
Wait(m) == Called(Reached(RunTo(m, <<"IO_READ_KEY">>), "IO_READ_KEY"))
Key(m, k) == Wait(CpuStep(Do(m, [m EXCEPT !.f.key = k])))
Type(m, keys) == FoldLeft(Key, m, keys)
\* Keys on the matrix, let go (finally) when the interrupt has the key accepted or not.
LetGo(m) == [m EXCEPT !.held = ""]
Press(m, k) ==
    Wait(LetGo(Reached(RunTo(Do(m, [m EXCEPT !.held = k]), <<"IO_LATCH_AND_CLEAR">>), "IO_LATCH_AND_CLEAR")))
InEditor(m) == m.caller = "prompt"
\* The key wait's return address is dropped and ENTER's own path runs the line.
EnterAt(m, line) == Do(m, [m EXCEPT !.f.line = line, !.f.pc = "EDITOR.enter"])
HostLine(m, line) == Wait(EnterAt(Raises(m, ~InEditor(m)), line))

----------------------------------------------------------------------------
\* The self-test's checks: [m, ok].
CheckBoot(m) == [m |-> m, ok |-> m.f.pc = "IO_READ_KEY"]
CheckVersion(m) == [m |-> m, ok |-> m.f.version /\ m.f.rows = <<>>]
Restored(m, first, after, again) == [m |-> again, ok |-> first.f = m.f /\ again.f = m.f /\ after.f # m.f]
CheckRestore(m) ==
    Restored(m, Restore(m), Call(Restore(m), "GFX_CLS"), Restore(Call(Restore(m), "GFX_CLS")))
Cleared(n) == [m |-> n, ok |-> n.f.pc = "STOP_ADDR" /\ n.f.rows = <<>>]
CheckCall(m) == Cleared(Call(m, "GFX_CLS"))
Shows(n, rows, line) == [m |-> n, ok |-> n.f.rows = rows /\ n.f.line = line /\ InEditor(n)]
CheckType(m) == Shows(Type(Boot(m), <<"3", "ENTER">>), <<"3", "OK">>, <<>>)
CheckPress(m) == Shows(FoldLeft(Press, Boot(m), <<"6", "ENTER", "A", "~">>), <<"6", "OK">>, <<"A", "~">>)
BackAgain(n, same, typed) == [m |-> n, ok |-> same /\ InEditor(n) /\ n.f.line = typed]
RolledBack(typed, called, back) ==
    BackAgain(Key(back, "+"), back.f = typed.f /\ called.f # typed.f, <<"1", "+">>)
Meanwhile(typed, called) == RolledBack(typed, called, Rollback(called))
FromCheckpoint(typed) == Meanwhile(typed, Write(Call(Checkpoint(typed), "GFX_CLS"), 1))
CheckCheckpoint(m) == FromCheckpoint(Type(Boot(m), <<"1">>))
Chimed(t) == [m |-> t.m, ok |-> t.writes = 2 /\ t.pc = "IO_READ_KEY"]
CheckChime(m) == Chimed(BootTrace(m, FALSE))
WithVersion(t) == [m |-> t.m, ok |-> t.version /\ t.border = 7]
CheckScreen(m) == WithVersion(BootTrace(m, TRUE))
FirstKeys == <<<<"LEFT">>, <<"ENTER">>, <<"7">>>>
FirstWant == <<<<<<>>, <<>>>>, <<<<"OK">>, <<>>>>, <<<<>>, <<"7">>>>>>
FirstShown(n) == [m |-> n[3], ok |-> InEditor(n[3]) /\ \A i \in 1..3 :
                                        <<n[i].f.rows, n[i].f.line>> = FirstWant[i] /\ ~n[i].f.version]
CheckFirstKey(m) == FirstShown([i \in 1..3 |-> Type(Boot(m), FirstKeys[i])])
RECURSIVE Tokens(_, _)
\* each token's stop while compiling, to the key wait
ToToken(m) == RunTo(m, <<"INTERPRET.token", "IO_READ_KEY">>)
Tokens(m, recs) ==
    IF m.f.pc # "INTERPRET.token" \/ Len(recs) = 9 THEN [m |-> m, recs |-> recs]
    ELSE Tokens(ToToken(CpuStep(m)), IF m.f.state THEN Append(recs, Head(m.f.run)) ELSE recs)
\* CheckHost: a line, a definition stopped at its tokens, an error, a word that waits for a key, the key.
GivenKey(ok, n) == [m |-> n, ok |-> ok /\ InEditor(n) /\ n.f.err = 0]
WaitsInWord(ok, n) == GivenKey(ok /\ ~InEditor(n), Key(n, "x"))
AfterError(ok, n) == WaitsInWord(ok /\ n.f.err = -13, HostLine(n, <<"KEY", "DROP">>))
AfterTokens(ok, t) == AfterError(ok /\ t.recs = <<"DUP", "*", ";">>, HostLine(Called(t.m), <<"?", "5">>))
AfterLine(n) ==
    AfterTokens(n.f.rows = <<"3", "OK">>,
                Tokens(ToToken(EnterAt(SetBps(n, <<"INTERPRET.token">>), <<":", "SQ", "DUP", "*", ";">>)), <<>>))
CheckHost(m) == AfterLine(HostLine(Boot(m), <<"3">>))

Checks == {"boot", "version", "restore", "call", "type", "press", "checkpoint", "chime", "screen", "first", "host"}
Check(t, m) == CASE t = "boot" -> CheckBoot(m) [] t = "version" -> CheckVersion(m) [] t = "restore" -> CheckRestore(m)
                 [] t = "call" -> CheckCall(m) [] t = "type" -> CheckType(m) [] t = "press" -> CheckPress(m)
                 [] t = "checkpoint" -> CheckCheckpoint(m) [] t = "chime" -> CheckChime(m)
                 [] t = "screen" -> CheckScreen(m) [] t = "first" -> CheckFirstKey(m) [] t = "host" -> CheckHost(m)

----------------------------------------------------------------------------
\* _worker: the machine at hand is restored, or one is started; a task that raises fails, and
\* the machine is stopped.
Init == machine = Off /\ ran = 0 /\ results = [t \in Checks |-> ""]
Ready == IF machine.up THEN Restore(machine) ELSE Start
Result(c) == IF c.m.raised THEN "failed" ELSE IF c.ok /\ ~c.m.stray THEN "ok" ELSE "wrong"
Reports(t, c) ==
    /\ results' = [results EXCEPT ![t] = Result(c)]
    /\ machine' = IF c.m.raised THEN Off ELSE c.m
RunTask(t) ==
    /\ ran < MaxTasks /\ Reports(t, Check(t, Ready))
    /\ ran' = ran + 1
\* A command fails (the emulator ends, its answer does not come).
TaskRaises(t) ==
    /\ ran < MaxTasks
    /\ results' = [results EXCEPT ![t] = "died"] /\ machine' = Off /\ ran' = ran + 1
NoMoreTasks == ran = MaxTasks /\ UNCHANGED vars
Next == NoMoreTasks \/ \E t \in Checks : RunTask(t) \/ TaskRaises(t)
Spec == Init /\ [][Next]_vars

\* A task's result does not depend on the tasks that ran on its machine before it, nor on how
\* many workers there are (the self-test's check h): it is what a machine just started gives,
\* with no key held, no breakpoint of another task hit and the prompt where the boot left it.
SameInEveryOrder ==
    \A t \in Checks : results[t] \notin {"", "died"} => results[t] = Result(Check(t, Start)) /\ results[t] = "ok"
=============================================================================
