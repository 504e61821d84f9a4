------------------------------- MODULE Z80Sim -------------------------------
(* The source-level Z80 simulator (src/tools/z80sim/sim.py) with its saved states
   (snapshot.py) and replay.  The tool has no memory image of the program: a label
   loaded into a register pair, or a return address, is a MARKER naming a line.  A
   marker lies over its pair and hides the pair's two bytes.  Each effect below is an
   operator from simulator to simulator, as exec_instr is; the program is any sequence
   of the instructions of SimNext, over small operand sets.                         *)
EXTENDS Z80Flags, Sequences

CONSTANTS Lines,          \* the lines of the loaded source are 0 .. Lines-1
          Seeds,          \* the register pairs a driver gives a routine: [Main -> Word]
          Numbers,        \* words the program loads
          HighBytes,      \* bytes it loads into a pair's high half and A
          MemAddrs,       \* addresses it touches: the snapshot's memory ranges hold them
          Script,         \* the values a scripted routine leaves in HL, call by call
          MaxSteps,       \* run's max_steps
          HalfWrites      \* 8-bit loads may hit a pair that a marker lies over

ASSUME SimAssumption ==
    /\ Lines \in Nat /\ MaxSteps \in Nat
    /\ Numbers \subseteq Word /\ Seeds \subseteq [{"BC", "DE", "HL"} -> Word] /\ MemAddrs \subseteq Word /\ HighBytes \subseteq Byte
    /\ HalfWrites \in BOOLEAN

VARIABLES sim,            \* Z80Sim and the Interp that drives it
          ins,            \* the last trace_log entry
          step_count,
          snap,           \* <<>> or <<a saved state>>
          twin            \* <<>> or <<the simulator that replays it>>
simVars == <<sim, ins, step_count, snap, twin>>

Main == {"BC", "DE", "HL"}
Pairs == Main \cup {"IX"}
Halves == {"B", "C", "D", "E", "H", "L"}
Hi == [BC |-> "B", DE |-> "D", HL |-> "H"]
Lo == [BC |-> "C", DE |-> "E", HL |-> "L"]
None == <<"none", 0>>
Num(n) == <<"int", n>>
RetIdx(i) == <<"RETIDX", i>>
HALT == <<"HALT", 0>>
StackTop == 65280

\* A new simulator: Z80Sim() and Interp().
Fresh == [a |-> 0, f |-> [n \in FlagNames |-> 0], altA |-> 0, altF |-> [n \in FlagNames |-> 0],
          reg |-> [h \in Halves |-> 0], alt |-> [h \in Halves |-> 0], ix |-> 0,
          over |-> [p \in Pairs |-> None], altOver |-> [p \in Main |-> None],
          sp |-> StackTop, stack |-> <<>>, mem |-> [x \in MemAddrs |-> 0], io |-> <<>>,
          allow_rom_writes |-> FALSE,
          scripted |-> 0, pc |-> 0, status |-> "running"]

Number(s, p) == IF p = "IX" THEN s.ix ELSE 256 * s.reg[Hi[p]] + s.reg[Lo[p]]
GetReg16(s, p) == IF s.over[p] # None THEN s.over[p] ELSE Num(Number(s, p))
SetReg16(s, p, v) ==
    IF v[1] # "int" THEN [s EXCEPT !.over[p] = v]
    ELSE LET n == v[2] % 65536
         IN  IF p = "IX" THEN [s EXCEPT !.over[p] = None, !.ix = n]
             ELSE [s EXCEPT !.over[p] = None, !.reg[Hi[p]] = n \div 256, !.reg[Lo[p]] = n % 256]
IsNum(s, p) == GetReg16(s, p)[1] = "int"

\* Home ROM is below 0x4000: a write there is lost, as on the machine.
Wb(s, x, v) == IF x < 16384 /\ ~s.allow_rom_writes THEN s ELSE [s EXCEPT !.mem[x] = v]
Ww(s, x, v) == Wb(Wb(s, x, v % 256), x + 1, v \div 256)
Rw(s, x) == s.mem[x] + 256 * s.mem[x + 1]

PushValue(s, v) == [s EXCEPT !.sp = (@ - 2) % 65536, !.stack = Append(@, v)]
PopValue(s) == [s EXCEPT !.sp = (@ + 2) % 65536, !.stack = SubSeq(@, 1, Len(@) - 1)]
Top(s) == s.stack[Len(s.stack)]

End(s, how) == [s EXCEPT !.pc = -1, !.status = how]
Onward(s) == [s EXCEPT !.pc = @ + 1]

----------------------------------------------------------------------------
\* ld
LdNumber(s, p, n) == Onward(SetReg16(s, p, Num(n)))
LdLabel(s, p, i) == Onward(SetReg16(s, p, RetIdx(i)))
LdPair(s, p, q) == Onward(SetReg16(s, p, GetReg16(s, q)))
LdPairMem(s, p, x) == Onward(SetReg16(s, p, Num(Rw(s, x))))
LdHigh(s, p, b) == Onward([s EXCEPT !.reg[Hi[p]] = b])          \* set_reg8: the marker stays
LdA(s, b) == Onward([s EXCEPT !.a = b])
LdMemA(s, x) == Onward(Wb(s, x, s.a))
LdMemPair(s, x, p) == IF IsNum(s, p) THEN Onward(Ww(s, x, Number(s, p))) ELSE End(s, "error")

\* push, pop, and AF as one word
Push(s, p) == Onward(PushValue(s, GetReg16(s, p)))
PushAF(s) == Onward(PushValue(s, Num(256 * s.a + FlagsByte(s.f))))
Underflow(s) == End(s, "halted")
Pop(s, p) == IF s.stack = <<>> THEN Underflow(s) ELSE Onward(SetReg16(PopValue(s), p, Top(s)))
PopAF(s) == IF s.stack = <<>> THEN Underflow(s)
            ELSE IF Top(s)[1] # "int" THEN End(PopValue(s), "error")
            ELSE Onward([PopValue(s) EXCEPT !.a = Top(s)[2] \div 256, !.f = SetFlagsByte(Top(s)[2] % 256)])

\* inc rr, add hl,rr; the 8-bit operations on A, with the flags of Z80Flags
Inc16(s, p) == IF IsNum(s, p) THEN Onward(SetReg16(s, p, Num((Number(s, p) + 1) % 65536))) ELSE End(s, "error")
AddHL(s, q) ==
    IF ~IsNum(s, "HL") \/ ~IsNum(s, q) THEN End(s, "error")
    ELSE LET r == Add16(s.f, Number(s, "HL"), Number(s, q))
         IN  Onward(SetReg16([s EXCEPT !.f = r.f], "HL", Num(r.v)))
Alu(s, op, v) ==
    LET r == CASE op = "add" -> Add8(s.f, s.a, v, 0)  [] op = "sbc" -> Sub8(s.f, s.a, v, s.f["C"])
               [] op = "cp" -> [Sub8(s.f, s.a, v, 0) EXCEPT !.v = s.a]
               [] op = "xor" -> Xor8(s.f, s.a, v)
    IN  Onward([s EXCEPT !.a = r.v, !.f = r.f])

\* ex and exx: the markers over a pair go with it
ExDEHL(s) == Onward(SetReg16(SetReg16(s, "DE", GetReg16(s, "HL")), "HL", GetReg16(s, "DE")))
ExAF(s) == Onward([s EXCEPT !.a = s.altA, !.altA = s.a, !.f = s.altF, !.altF = s.f])
\* (a mutant of Exx) The markers stay over the main pairs.
ExxKeepsMarkers(s) == Onward([s EXCEPT !.reg = s.alt, !.alt = s.reg])
Exx(s) == Onward([s EXCEPT !.reg = s.alt, !.alt = s.reg,
                           !.over = [p \in Pairs |-> IF p \in Main THEN s.altOver[p] ELSE s.over[p]],
                           !.altOver = [p \in Main |-> s.over[p]]])

\* ldir, byte by byte, so that an overlapping copy repeats what it wrote
Copied(s, from, to, n) ==
    LET copy[k \in 0..n] == IF k = 0 THEN s ELSE Wb(copy[k-1], to + k - 1, copy[k-1].mem[from + k - 1])
    IN  copy[n]
Ldir(s) ==
    IF \E p \in Main : ~IsNum(s, p) THEN End(s, "error")
    ELSE LET n == Number(s, "BC")
             c == Copied(s, Number(s, "HL"), Number(s, "DE"), n)
             moved == SetReg16(SetReg16(c, "HL", Num(Number(s, "HL") + n)), "DE", Num(Number(s, "DE") + n))
         IN  Onward([SetReg16(moved, "BC", Num(0)) EXCEPT !.f["H"] = 0, !.f["N"] = 0, !.f["PV"] = 0])

\* jp, jr, djnz, call and ret.  JP (HL) takes a number for a line, RET does not.
GoTo(s, v) == IF v[1] = "RETIDX" THEN [s EXCEPT !.pc = v[2]] ELSE End(s, "error")
Jump(s, cond, i) == IF CheckCond(s.f, cond) THEN [s EXCEPT !.pc = i] ELSE Onward(s)
JpHL(s) == IF IsNum(s, "HL") THEN [s EXCEPT !.pc = Number(s, "HL")] ELSE GoTo(s, GetReg16(s, "HL"))
Djnz(s, i) == LET t == [s EXCEPT !.reg["B"] = (@ - 1) % 256]
              IN  IF t.reg["B"] # 0 THEN [t EXCEPT !.pc = i] ELSE Onward(t)
Call(s, cond, i) ==
    IF CheckCond(s.f, cond) THEN [PushValue(s, RetIdx(s.pc + 1)) EXCEPT !.pc = i] ELSE Onward(s)
ScriptValue(s) == Script[IF s.scripted < Len(Script) THEN s.scripted + 1 ELSE Len(Script)]
CallScripted(s) == Onward([SetReg16(s, "HL", Num(ScriptValue(s))) EXCEPT !.scripted = @ + 1])
Ret(s, cond) ==
    IF ~CheckCond(s.f, cond) THEN Onward(s)
    ELSE IF s.stack = <<>> THEN Underflow(s)
    ELSE IF Top(s)[1] = "HALT" THEN End(PopValue(s), "returned")
    ELSE GoTo(PopValue(s), Top(s))
Out(s, port) == Onward([s EXCEPT !.io = Append(@, <<port, s.a>>)])

----------------------------------------------------------------------------
\* (a mutant of SavedFields) The markers over BC', DE' and HL' are not saved.
SavedWithoutShadows == {"a", "f", "altA", "altF", "reg", "alt", "ix", "over",
                        "sp", "stack", "mem", "io", "allow_rom_writes"}
\* capture_state and restore_state: everything but the interpreter's place in a script.
SavedFields == {"a", "f", "altA", "altF", "reg", "alt", "ix", "over", "altOver",
                "sp", "stack", "mem", "io", "allow_rom_writes"}
CaptureState(s) == [state |-> [x \in SavedFields |-> s[x]], entry |-> s.pc]

\* Into a new simulator or a given one: every field saved is read back.
LoadedFields(c, base) ==
    [x \in DOMAIN base |-> IF x \in SavedFields THEN c.state[x]
                           ELSE IF x = "pc" THEN c.entry
                           ELSE IF x = "status" THEN "running"
                           ELSE IF x = "scripted" THEN 0 ELSE base[x]]
RestoreNew(c) == LoadedFields(c, Fresh)
RestoreInto(c, target) == LoadedFields(c, target)
----------------------------------------------------------------------------
\* run: one instruction, traced as i, by the simulator and by the one that replays.
Run(i, F(_)) ==
    /\ sim.status = "running" /\ sim.pc \in 0..Lines-1 /\ step_count < MaxSteps
    /\ sim' = F(sim)
    /\ ins' = IF sim'.status = "running" THEN i ELSE <<"stop">>
    /\ twin' = IF twin = <<>> THEN <<>> ELSE <<F(twin[1])>>
    /\ step_count' = step_count + 1
    /\ UNCHANGED snap

\* Halt("exceeded max_steps"), and the end of the source.
RunsOut ==
    /\ sim.status = "running" /\ (step_count = MaxSteps \/ sim.pc >= Lines)
    /\ LET how == IF sim.pc >= Lines THEN "error" ELSE "step_limit"
       IN  /\ sim' = End(sim, how)
           /\ twin' = IF twin = <<>> THEN <<>> ELSE <<End(twin[1], how)>>
    /\ ins' = <<"stop">> /\ UNCHANGED <<step_count, snap>>

\* save_snapshot, then load_snapshot for a replay from the same line.
Fork == /\ sim.status = "running" /\ snap = <<>> /\ sim.scripted = 0
        /\ snap' = <<CaptureState(sim)>>
        /\ twin' = <<RestoreNew(CaptureState(sim))>>
        /\ UNCHANGED <<sim, ins, step_count>>
\* load_snapshot into the simulator that is at hand; a new replay starts beside it.
Rewind == /\ snap # <<>> /\ step_count < MaxSteps
          /\ sim' = RestoreInto(snap[1], sim)
          /\ twin' = <<RestoreNew(snap[1])>>
          /\ ins' = <<"go back">> /\ UNCHANGED <<step_count, snap>>

DataOps == \/ \E p \in Pairs, n \in Numbers : Run(<<"ld number", p, n>>, LAMBDA s : LdNumber(s, p, n))
           \/ \E p \in {"DE", "HL"}, i \in 0..Lines-1 : Run(<<"ld label", p, i>>, LAMBDA s : LdLabel(s, p, i))
           \/ \E p, q \in {"DE", "HL"} : p # q /\ Run(<<"ld pair", p, q>>, LAMBDA s : LdPair(s, p, q))
           \/ \E x \in MemAddrs : x + 1 \in MemAddrs /\
                (\/ Run(<<"ld memory", "HL">>, LAMBDA s : LdPairMem(s, "HL", x))
                 \/ Run(<<"other">>, LAMBDA s : LdMemPair(s, x, "HL")))
           \/ \E p \in {"BC", "HL"}, b \in HighBytes : (HalfWrites \/ sim.over[p] = None) /\
                Run(<<"ld high", p, b>>, LAMBDA s : LdHigh(s, p, b))
           \/ \E b \in HighBytes : Run(<<"other">>, LAMBDA s : LdA(s, b))
           \/ \E x \in MemAddrs : Run(<<"other">>, LAMBDA s : LdMemA(s, x))
           \/ /\ {Number(sim, "HL"), Number(sim, "DE")} \subseteq MemAddrs /\ Number(sim, "BC") \in 1..2
              /\ \A k \in 0..Number(sim, "BC")-1 : {Number(sim, "HL") + k, Number(sim, "DE") + k} \subseteq MemAddrs
              /\ Run(<<"ldir">>, Ldir)
           \/ \E port \in {254} : Run(<<"other">>, LAMBDA s : Out(s, port))
Stack == \/ \E p \in {"HL", "DE"} : Run(<<"push", p>>, LAMBDA s : Push(s, p))
         \/ \E p \in {"HL", "BC"} : Run(<<"pop", p>>, LAMBDA s : Pop(s, p))
         \/ Run(<<"push af">>, PushAF) \/ Run(<<"pop af">>, PopAF)
         \/ Run(<<"ex de,hl">>, ExDEHL) \/ Run(<<"other">>, ExAF) \/ Run(<<"exx">>, Exx)
Arith == \/ \E p \in {"HL", "IX"} : Run(<<"inc", p>>, LAMBDA s : Inc16(s, p))
         \/ \E q \in {"DE", "HL"} : Run(<<"add hl", q>>, LAMBDA s : AddHL(s, q))
         \/ \E op \in {"add", "sbc", "cp", "xor"}, b \in HighBytes : Run(<<"other">>, LAMBDA s : Alu(s, op, b))
Flow == \/ \E cond \in {"z", "nc"}, i \in 0..Lines-1 :
             \/ Run(<<"jp", i>>, LAMBDA s : Jump(s, cond, i))
             \/ Run(<<"call", i>>, LAMBDA s : Call(s, cond, i))
        \/ \E cond \in {"z", "nc"} : Run(<<"ret">>, LAMBDA s : Ret(s, cond))
        \/ Run(<<"jp (hl)">>, JpHL)
        \/ \E i \in 0..Lines-1 : (HalfWrites \/ sim.over["BC"] = None) /\ Run(<<"djnz", i>>, LAMBDA s : Djnz(s, i))
        \/ Run(<<"script", ScriptValue(sim)>>, CallScripted)

\* A driver seeds a simulator, one byte 1 in RAM, and pushes HALT under the routine it runs.
Seeded(d) ==
    LET s == [PushValue(Fresh, HALT) EXCEPT !.mem = [x \in MemAddrs |-> Bool(x = d["HL"])]]
    IN  SetReg16(SetReg16(SetReg16(s, "BC", Num(d["BC"])), "DE", Num(d["DE"])), "HL", Num(d["HL"]))
SimInit == /\ \E d \in Seeds : sim = Seeded(d)
           /\ ins = <<"other">> /\ step_count = 0 /\ snap = <<>> /\ twin = <<>>
SimNext == DataOps \/ Stack \/ Arith \/ Flow \/ RunsOut \/ Fork \/ Rewind
SimSpec == SimInit /\ [][SimNext]_simVars
----------------------------------------------------------------------------
\* The markers are addresses as far as a program can see: the tool implements the
\* machine of Z80Machine, a marker being the address of its line.
Word16(v) == v[2]
SeenPair(s, p) == IF s.over[p] = None THEN Number(s, p)
              ELSE IF s.over[p] = HALT THEN Lines ELSE Word16(s.over[p])
StackSeen(q) == [k \in DOMAIN q |-> IF q[k] = HALT THEN Lines ELSE Word16(q[k])]
AltNumber(s, p) == 256 * s.alt[Hi[p]] + s.alt[Lo[p]]
AltSeen(s, p) == IF s.altOver[p] = None THEN AltNumber(s, p)
                 ELSE IF s.altOver[p] = HALT THEN Lines ELSE Word16(s.altOver[p])
PairsSeen(s) == [p \in Pairs |-> SeenPair(s, p)]
AltsSeen(s) == [p \in Main |-> AltSeen(s, p)]
Machine == INSTANCE Z80Machine WITH
    pair <- PairsSeen(sim), alt <- AltsSeen(sim), sp <- sim.sp, stack <- StackSeen(sim.stack), pc <- sim.pc,
    saved <- IF snap = <<>> THEN <<>>
             ELSE LET s == RestoreNew(snap[1])
                  IN  << <<PairsSeen(s), AltsSeen(s), s.sp, StackSeen(s.stack), s.pc>> >>
SimulatesMachine == Machine!Spec

\* A replay does what the run it was saved from does: same registers, flags, markers,
\* stack, memory and writes to ports, and the same end.
ReplayFollows == twin = <<>> \/ twin[1] = sim
=============================================================================
