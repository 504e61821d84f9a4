------------------------------- MODULE PowerOn -------------------------------
(* poweron.py: the cold start from RAM and registers that hold a pattern, compared with the
   cold start from zeros.  RAM is 0 .. Size - 1 and a byte 0 .. 2^Bits - 1.  A cold start
   (external) gives each byte of RAM a constant, the byte that was somewhere before, or an
   AND or XOR of two such bytes; it reaches the prompt after a number of opcodes, or never. *)
EXTENDS Integers, Sequences, FiniteSets

CONSTANTS Size, Bits,
          Regions,      \* UNDEFINED_REGIONS: records [lo, hi, sp]; where sp, the bound is the live stack pointer
          Chunk, Cap,   \* opcodes per `run`, and for a boot
          Random        \* Random[name]: the bytes of pattern name ("random:1", ...)
PowerOnParameters ==
    /\ {Size, Bits, Chunk, Cap} \subseteq Nat \ {0}
    /\ \A n \in DOMAIN Random : Random[n] \in [0 .. Size - 1 -> 0 .. 2^Bits - 1]

Ram == 0 .. Size - 1
PATTERNS == {"zero", "ones", "alt", "addr"} \cup DOMAIN Random
Pattern(name) ==
    CASE name = "zero" -> [a \in Ram |-> 0]
      [] name = "ones" -> [a \in Ram |-> 2^Bits - 1]
      [] name = "alt" -> [a \in Ram |-> IF a % 2 = 0 THEN 2^Bits \div 3 ELSE (2^Bits - 1) - (2^Bits \div 3)]
      [] name = "addr" -> [a \in Ram |-> a % 2^Bits]
      [] OTHER -> Random[name]

\* The cold start: m.ram[a] is [op, a, b, v]; m.sp the stack pointer at the prompt; m.opcodes 0 is never.
Bit(v, k) == (v \div 2^k) % 2
Combined(op, v, w) ==
    LET bit(k) == IF op = "and" THEN Bit(v, k) * Bit(w, k) ELSE (Bit(v, k) + Bit(w, k)) % 2
        sum[k \in 0 .. Bits] == IF k = 0 THEN 0 ELSE sum[k - 1] + bit(k - 1) * 2^(k - 1)
    IN  sum[Bits]
Left(e, ram) ==
    CASE e.op = "const" -> e.v
      [] e.op = "copy" -> ram[e.a]
      [] OTHER -> Combined(e.op, ram[e.a], ram[e.b])
ColdStart(m, ram) == [a \in Ram |-> Left(m.ram[a], ram)]

\* boot: `run --until` in chunks, up to the first that starts at or past the cap.
Reaches(m) == m.opcodes # 0 /\ m.opcodes <= Chunk * ((Cap + Chunk - 1) \div Chunk)
Boot(m, name) == [reached |-> Reaches(m), dump |-> ColdStart(m, Pattern(name)), sp |-> m.sp]

----------------------------------------------------------------------------
\* diff_ranges: [lo, hi) where two dumps differ, in order.
Differ(ref, got, a) == a \in Ram /\ ref[a] # got[a]
Starts(ref, got) == {a \in Ram : Differ(ref, got, a) /\ ~Differ(ref, got, a - 1)}
EndOf(ref, got, a) == CHOOSE b \in a + 1 .. Size : ~Differ(ref, got, b) /\ \A x \in a .. b - 1 : Differ(ref, got, x)
DiffRanges(ref, got) == {<<a, EndOf(ref, got, a)>> : a \in Starts(ref, got)}

\* undefined_map and split_classified: each range cut at the regions' bounds and at the symbols'.
UndefinedMap(sp) == {r \in {[lo |-> g.lo, hi |-> IF g.sp THEN sp ELSE g.hi] : g \in Regions} : r.hi > r.lo}
Cuts(sp, extra) == {r.lo : r \in UndefinedMap(sp)} \cup {r.hi : r \in UndefinedMap(sp)} \cup extra
Points(range, sp, extra) == {range[1], range[2]} \cup {c \in Cuts(sp, extra) : range[1] < c /\ c < range[2]}
Class(a, sp) == IF \E r \in UndefinedMap(sp) : r.lo <= a /\ a < r.hi THEN "UNDEFINED" ELSE "DEFINED"
\* (a mutant of SplitClassified) The ranges are not cut at the regions' bounds.
SplitNoCuts(ranges, sp, extra) == {<<r[1], r[2], Class(r[1], sp)>> : r \in ranges}
SplitClassified(ranges, sp, extra) ==
    UNION {LET pts == Points(r, sp, extra)
           IN  {<<p[1], p[2], Class(p[1], sp)>> : p \in {q \in pts \X pts : q[1] < q[2] /\ ~\E c \in pts : q[1] < c /\ c < q[2]}}
             : r \in ranges}

\* SymMap: rows are <<address, name>>, in the order of load_symbols.
SymAt(rows, addr) ==
    LET at == {i \in DOMAIN rows : rows[i][1] <= addr}
    IN  IF at = {} THEN "?"
        ELSE LET last == CHOOSE i \in at : \A j \in at : j <= i
             IN  rows[CHOOSE i \in at : rows[i][1] = rows[last][1] /\ \A j \in 1 .. i - 1 : rows[j][1] # rows[last][1]]

----------------------------------------------------------------------------
\* main: the zero boot, the others, the zero boot again (m.noise: it comes out otherwise), the verdict.
Todo(names) == {"zero"} \cup names
DefinedDiffs(m, name) ==
    LET ref == Boot(m, "zero")
    IN  {d \in SplitClassified(DiffRanges(ref.dump, Boot(m, name).dump), ref.sp, {}) : d[3] = "DEFINED"}
Exit(m, names, report_only) ==
    IF \/ \E n \in Todo(names) : ~Boot(m, n).reached
       \/ m.noise
      THEN 2
      ELSE IF ~report_only /\ \E n \in Todo(names) : DefinedDiffs(m, n) # {} THEN 1 ELSE 0

----------------------------------------------------------------------------
\* Every byte that differs is in exactly one of the printed ranges, and is UNDEFINED there exactly when a region with a
\* recorded reason holds it: a defined byte is never hidden in a range that begins in a region, nor the other way.
ClassifiedExactly(ref, got, sp, extra) ==
    LET out == SplitClassified(DiffRanges(ref, got), sp, extra)
    IN  \A a \in Ram :
          /\ Cardinality({d \in out : d[1] <= a /\ a < d[2]}) = IF ref[a] # got[a] THEN 1 ELSE 0
          /\ \A d \in out : d[1] <= a /\ a < d[2] =>
                d[3] = IF \E g \in Regions : g.lo <= a /\ a < (IF g.sp THEN sp ELSE g.hi) THEN "UNDEFINED" ELSE "DEFINED"

\* A ROM that passes all patterns leaves no byte that the table calls defined to the RAM it was switched on with: from
\* any contents its cold start gives that byte one value.  A ROM that fails has such a byte.
PowerOnQualifies(m) ==
    LET fixed(a) == Cardinality({Left(m.ram[a], ram) : ram \in [Ram -> 0 .. 2^Bits - 1]}) = 1
    IN  /\ Exit(m, PATTERNS, FALSE) = 0 => \A a \in Ram : Class(a, m.sp) = "DEFINED" => fixed(a)
        /\ Exit(m, PATTERNS, FALSE) = 1 => \E a \in Ram : Class(a, m.sp) = "DEFINED" /\ ~fixed(a)
        /\ Exit(m, PATTERNS, TRUE) \in {0, 2} /\ (Exit(m, PATTERNS, TRUE) = 2 <=> Exit(m, PATTERNS, FALSE) = 2)

\* The symbol a range is shown with is the nearest at or below it, and of several at one address the first.
NearestSymbol(rows, addr) ==
    LET r == SymAt(rows, addr)
    IN  IF \A i \in DOMAIN rows : rows[i][1] > addr THEN r = "?"
        ELSE /\ r[1] <= addr /\ \A i \in DOMAIN rows : rows[i][1] <= addr => rows[i][1] <= r[1]
             /\ \E i \in DOMAIN rows : rows[i] = r /\ \A j \in 1 .. i - 1 : rows[j][1] < r[1]
=============================================================================
