---------------------------- MODULE BuildChecks -----------------------------
(* The checks that read sources: check_asm.py (labels, early pops), check_z80_opcodes.py
   (jr's reach) and relax_jumps.py.  Each is an operator from what the tool reads to what
   it reports; the property beside it says what a clean report is worth.  Sources are
   AsmText's.                                                                         *)
EXTENDS AsmText

CONSTANTS Jump,             \* instructions -> the label they jump to, "" for none
          Size,             \* instructions -> bytes (instr_size)
          StackOp,          \* instructions -> "push", "pop", "call" or ""
          LocalNames,       \* the labels that start with a dot
          Short,            \* the instructions that are jr or djnz
          Reach,            \* 127: a short jump reaches -(Reach + 1) .. Reach
          Near,             \* 10: the margin that is worth a second look
          Entry             \* 15: the lines of a routine that are its entry

BuildParameters == Reach \in Nat /\ Near \in 0 .. Reach /\ Entry \in Nat

HasIns(l) == l.kind \in {"ins", "local"} /\ l.ins \in DOMAIN Jump
Largest(S) == CHOOSE x \in S : \A y \in S : y <= x

(***************************************************************************)
(* check_asm.py                                                            *)
(***************************************************************************)
Globals(file) == {i \in DOMAIN file : file[i].kind = "global"}
DuplicateLabels(file) ==
    {i \in Globals(file) : AtColumn0(file[i]) /\ \E j \in Globals(file) : j < i /\ AtColumn0(file[j]) /\ file[j].name = file[i].name}
ScopeAt(file, i) == LET before == {j \in Globals(file) : j <= i} IN IF before = {} THEN 0 ELSE Largest(before)
LocalsOf(file, g) == {file[i].name : i \in {j \in DOMAIN file : file[j].kind = "local" /\ ScopeAt(file, j) = g}}
\* scope_locals: of two global labels of one name the last one's locals stand for both.
ScopeLocals(file, g) ==
    IF g = 0 THEN {} ELSE LocalsOf(file, Largest({j \in Globals(file) : file[j].name = file[g].name}))
ScopeErrors(file) ==
    {i \in DOMAIN file : HasIns(file[i]) /\ Jump[file[i].ins] \in LocalNames
                         /\ Jump[file[i].ins] \notin ScopeLocals(file, ScopeAt(file, i))}

\* A routine that pops among its first lines before it pushes; calls between are passed over.
RECURSIVE FirstOp(_, _, _)
FirstOp(file, i, last) ==
    IF i > last THEN 0
    ELSE IF ~HasIns(file[i]) \/ file[i].kind = "local" \/ StackOp[file[i].ins] \notin {"push", "pop"} THEN FirstOp(file, i + 1, last)
    ELSE IF StackOp[file[i].ins] = "pop" THEN i ELSE 0
EarlyPops(file) ==
    {FirstOp(file, g + 1, Largest({i \in g .. Len(file) : i <= g + Entry - 1 /\ \A j \in g + 1 .. i : ~AtColumn0(file[j])}))
       : g \in {i \in DOMAIN file : AtColumn0(file[i])}} \ {0}

\* In a file that passes, every jump to a local label finds it where the loader looks for it, in
\* the jump's own routine; and a pop is named exactly when it is the first push or pop of a routine
\* and one of its first lines, so that it takes what the caller left.
PassedFileResolves(file) ==
    /\ EarlyPops(file) =
         {i \in DOMAIN file :
            /\ file[i].kind = "ins" /\ StackOp[file[i].ins] = "pop"
            /\ \E g \in i - Entry + 1 .. i - 1 :
                  /\ g \in DOMAIN file /\ AtColumn0(file[g])
                  /\ \A j \in g + 1 .. i - 1 : ~AtColumn0(file[j])
                        /\ (file[j].kind = "ins" => StackOp[file[j].ins] \notin {"push", "pop"})}
    /\ DuplicateLabels(file) \cup ScopeErrors(file) = {} =>
      LET p == LoadFile(NewProgram(<<>>), <<"", "f">>, file)
      IN  \A k \in DOMAIN p.rows :
            LET i == p.source[k].line
            IN  HasIns(file[i]) /\ Jump[file[i].ins] \in LocalNames =>
                  LET to == ResolveLabel(p, p.rows[k].scope, LocalRef(Jump[file[i].ins]))
                  IN  to # 0 /\ file[p.source[to].line].name = Jump[file[i].ins] /\ p.rows[to].scope = p.rows[k].scope

(***************************************************************************)
(* check_z80_opcodes.py: check_jr_range                                    *)
(***************************************************************************)
RECURSIVE Offset(_, _)
Offset(file, i) == IF i = 1 THEN 0 ELSE Offset(file, i - 1) + (IF HasIns(file[i - 1]) THEN Size[file[i - 1].ins] ELSE 0)
\* scoped_labels: the last definition of a name in a scope.
Labelled(file, scope, name) ==
    {i \in DOMAIN file : /\ file[i].kind \in {"global", "local"} /\ file[i].name = name
                         /\ (IF ScopeAt(file, i) = 0 THEN "" ELSE file[ScopeAt(file, i)].name) = scope}
ScopeName(file, i) == IF ScopeAt(file, i) = 0 THEN "" ELSE file[ScopeAt(file, i)].name
OffsetOf(file, scope, name) ==
    IF Labelled(file, scope, name) = {} THEN <<>> ELSE <<Offset(file, Largest(Labelled(file, scope, name)))>>
\* `scoped_labels.get(key) or ...`: an offset of 0 counts as no label.
Target(file, i, t) ==
    LET own == OffsetOf(file, ScopeName(file, i), t)
    IN  IF own \in {<<>>, <<0>>} THEN OffsetOf(file, t, t) ELSE own
JrWarnings(file) ==
    {i \in DOMAIN file : /\ HasIns(file[i]) /\ file[i].ins \in Short
                         /\ LET to == Target(file, i, Jump[file[i].ins])
                            IN  to # <<>> /\ to[1] - (Offset(file, i) + 2) \notin Near - Reach - 1 .. Reach - Near}

\* No short jump to a label of its scope that is out of reach goes without a warning, but for a
\* local label at the very start of the file.
Unreached(file) ==
    {i \in DOMAIN file : /\ HasIns(file[i]) /\ file[i].ins \in Short
                         /\ LET to == OffsetOf(file, ScopeName(file, i), Jump[file[i].ins])
                            IN  to # <<>> /\ to[1] - (Offset(file, i) + 2) \notin 0 - Reach - 1 .. Reach}
JumpsWatched(file) ==
    \A i \in Unreached(file) : i \in JrWarnings(file) \/ OffsetOf(file, ScopeName(file, i), Jump[file[i].ins]) = <<0>>

(***************************************************************************)
(* relax_jumps.py.  A program is a sequence of [op, to, size, keep]: op is *)
(* "jp", "jr" or "", to the line it jumps to.  The listing gives the       *)
(* addresses (external).                                                   *)
(***************************************************************************)
SizeOf(l) == IF l.op = "jp" THEN 3 ELSE IF l.op = "jr" THEN 2 ELSE l.size
RECURSIVE AddressOf(_, _)
AddressOf(prog, i) == IF i = 1 THEN 0 ELSE AddressOf(prog, i - 1) + SizeOf(prog[i - 1])
Displacement(prog, i) == AddressOf(prog, prog[i].to) - (AddressOf(prog, i) + 2)
Candidates(prog) ==
    {i \in DOMAIN prog : prog[i].op = "jp" /\ ~prog[i].keep /\ Displacement(prog, i) \in Near - Reach - 1 .. Reach - Near}
Relax(prog) == [i \in DOMAIN prog |-> IF i \in Candidates(prog) THEN [prog[i] EXCEPT !.op = "jr"] ELSE prog[i]]

\* "Rebuild and repeat until it reports 0": every build on the way assembles, each pass but the last
\* saves bytes, and no line marked `keep jp` is touched.
RECURSIVE RelaxesSafely(_)
RelaxesSafely(prog) ==
    /\ \A i \in DOMAIN prog : prog[i].op = "jr" => Displacement(prog, i) \in 0 - Reach - 1 .. Reach
    /\ Candidates(prog) # {} =>
         /\ AddressOf(Relax(prog), Len(prog)) + SizeOf(Relax(prog)[Len(prog)]) < AddressOf(prog, Len(prog)) + SizeOf(prog[Len(prog)])
         /\ \A i \in DOMAIN prog : prog[i].keep => Relax(prog)[i] = prog[i]
         /\ RelaxesSafely(Relax(prog))
=============================================================================
