------------------------------ MODULE Z80Flags ------------------------------
(* The flag arithmetic of the source-level Z80 simulator (src/tools/z80sim/sim.py),
   the instrument the ROM's routines are replayed with.  Every operator takes the
   flags F before the instruction and gives a record [v, f]: the value and the
   flags after it.  Bytes and words keep their width.                           *)
EXTENDS Integers, FiniteSetsExt

Byte == 0..255
Word == 0..65535
Bool(b) == IF b THEN 1 ELSE 0
FlagNames == {"S", "Z", "H", "PV", "N", "C"}

Bit(v, i) == (v \div 2^i) % 2

\* The bitwise operations on bytes: and, and by it or and xor (a + b counts the common bits twice).
BitAnd(a, b) == MapThenSumSet(LAMBDA i : 2^i * Bit(a, i) * Bit(b, i), 0..7)

EvenParity(v) == Bool(MapThenSumSet(LAMBDA i : Bit(v, i), 0..7) % 2 = 0)

SetSZP(F, v) == [F EXCEPT !["S"] = Bit(v, 7), !["Z"] = Bool(v = 0), !["PV"] = EvenParity(v)]

\* The signed overflow of left + right = res, and of left - right = res, by their sign bits.
AddOverflow(top, l, r, res) == Bool(Bit(l, top) = Bit(r, top) /\ Bit(l, top) # Bit(res, top))
SubOverflow(top, l, r, res) == Bool(Bit(l, top) # Bit(r, top) /\ Bit(l, top) # Bit(res, top))

Add8(F, l, r, c) ==
    LET res == (l + r + c) % 256
    IN  [v |-> res,
         f |-> [SetSZP(F, res) EXCEPT !["H"] = Bool((l % 16) + (r % 16) + c > 15),
                                      !["PV"] = AddOverflow(7, l, r, res),
                                      !["N"] = 0, !["C"] = Bool(l + r + c > 255)]]

Sub8(F, l, r, c) ==
    LET res == (l - r - c) % 256
    IN  [v |-> res,
         f |-> [SetSZP(F, res) EXCEPT !["H"] = Bool((l % 16) < (r % 16) + c),
                                      !["PV"] = SubOverflow(7, l, r, res),
                                      !["N"] = 1, !["C"] = Bool(l - r - c < 0)]]

Inc8(F, old) ==
    LET res == (old + 1) % 256
    IN  [v |-> res, f |-> [SetSZP(F, res) EXCEPT !["H"] = Bool(old % 16 = 15),
                                                 !["PV"] = Bool(old = 127), !["N"] = 0]]
Dec8(F, old) ==
    LET res == (old - 1) % 256
    IN  [v |-> res, f |-> [SetSZP(F, res) EXCEPT !["H"] = Bool(old % 16 = 0),
                                                 !["PV"] = Bool(old = 128), !["N"] = 1]]

\* ADD HL,rr leaves S, Z and PV; ADC and SBC HL,rr set all six from bit 15 of the result.
Add16(F, l, r) ==
    [v |-> (l + r) % 65536,
     f |-> [F EXCEPT !["H"] = Bool((l % 4096) + (r % 4096) > 4095), !["N"] = 0, !["C"] = Bool(l + r > 65535)]]

SZ16(F, res) == [F EXCEPT !["S"] = Bit(res, 15), !["Z"] = Bool(res = 0)]
Adc16(F, l, r) ==
    LET res == (l + r + F["C"]) % 65536
    IN  [v |-> res,
         f |-> [SZ16(F, res) EXCEPT !["H"] = Bool((l % 4096) + (r % 4096) + F["C"] > 4095),
                                    !["PV"] = AddOverflow(15, l, r, res),
                                    !["N"] = 0, !["C"] = Bool(l + r + F["C"] > 65535)]]
Sbc16(F, l, r) ==
    LET res == (l - r - F["C"]) % 65536
    IN  [v |-> res,
         f |-> [SZ16(F, res) EXCEPT !["H"] = Bool((l % 4096) < (r % 4096) + F["C"]),
                                    !["PV"] = SubOverflow(15, l, r, res),
                                    !["N"] = 1, !["C"] = Bool(l - r - F["C"] < 0)]]

Logic(F, h, res) == [v |-> res, f |-> [SetSZP(F, res) EXCEPT !["H"] = h, !["N"] = 0, !["C"] = 0]]
And8(F, l, r) == Logic(F, 1, BitAnd(l, r))
Or8(F, l, r)  == Logic(F, 0, l + r - BitAnd(l, r))
Xor8(F, l, r) == Logic(F, 0, l + r - 2 * BitAnd(l, r))

BitTest(F, n, v) ==
    [v |-> v, f |-> [F EXCEPT !["Z"] = 1 - Bit(v, n), !["S"] = IF n = 7 THEN Bit(v, n) ELSE 0,
                              !["PV"] = 1 - Bit(v, n), !["H"] = 1, !["N"] = 0]]
SetBit(v, n, b) == v + 2^n * (b - Bit(v, n))

\* One bit left or right, `in` entering at the other end and the bit that leaves going to C.
Left(v, in)  == ((2 * v) % 256) + in
Right(v, in) == (v \div 2) + 128 * in
NoHN(F, c) == [F EXCEPT !["H"] = 0, !["N"] = 0, !["C"] = c]

\* The accumulator's rotates leave S, Z and PV; the others set them.
RotateA(F, op, a) ==
    CASE op = "rlca" -> [v |-> Left(a, Bit(a, 7)),  f |-> NoHN(F, Bit(a, 7))]
      [] op = "rla"  -> [v |-> Left(a, F["C"]),     f |-> NoHN(F, Bit(a, 7))]
      [] op = "rrca" -> [v |-> Right(a, Bit(a, 0)), f |-> NoHN(F, Bit(a, 0))]
      [] op = "rra"  -> [v |-> Right(a, F["C"]),    f |-> NoHN(F, Bit(a, 0))]
Shift(F, op, v) ==
    LET in  == IF op \in {"rl", "rr"} THEN F["C"] ELSE 0
        res == IF op \in {"sla", "rl"} THEN Left(v, in) ELSE Right(v, in)
        out == IF op \in {"sla", "rl"} THEN Bit(v, 7) ELSE Bit(v, 0)
    IN  [v |-> res, f |-> NoHN(SetSZP(F, res), out)]

Scf(F) == NoHN(F, 1)
Ccf(F) == [F EXCEPT !["H"] = F["C"], !["C"] = 1 - F["C"], !["N"] = 0]

CheckCond(F, cond) ==
    CASE cond = "z"  -> F["Z"] = 1  [] cond = "nz" -> F["Z"] = 0
      [] cond = "c"  -> F["C"] = 1  [] cond = "nc" -> F["C"] = 0
      [] cond = "m"  -> F["S"] = 1  [] cond = "p"  -> F["S"] = 0
      [] cond = "pe" -> F["PV"] = 1 [] cond = "po" -> F["PV"] = 0

\* The F byte PUSH AF stores, and POP AF's reading of one.
FlagBit == [S |-> 7, Z |-> 6, H |-> 4, PV |-> 2, N |-> 1, C |-> 0]
FlagsByte(F) == MapThenSumSet(LAMBDA n : F[n] * 2^FlagBit[n], FlagNames)
SetFlagsByte(b) == [n \in FlagNames |-> Bit(b, FlagBit[n])]

----------------------------------------------------------------------------
Signed(v) == IF v > 127 THEN v - 256 ELSE v
\* r is the sum or difference: exact is its value, signed its signed value.
RightFor(r, exact, signed) ==
    /\ r.v = exact % 256 /\ r.f["C"] = Bool(exact \notin Byte) /\ r.f["PV"] = Bool(signed \notin -128..127)
    /\ r.f["S"] = Bool(Signed(r.v) < 0) /\ r.f["Z"] = Bool(r.v = 0)
\* A 16-bit operation is its low bytes' and then, with the carry, its high bytes'.
Chained(op16(_, _, _), op8(_, _, _, _), F, l, r) ==
    LET low == op8(F, l % 256, r % 256, F["C"])
        high == op8(low.f, l \div 256, r \div 256, low.f["C"])
    IN  op16(F, l, r) = [v |-> 256 * high.v + low.v, f |-> [high.f EXCEPT !["Z"] = high.f["Z"] * low.f["Z"]]]

\* The flags the simulator computes case by case (sim.py's add8_flags to set_flags_byte) are the ones arithmetic says: carry and
\* overflow are results out of the unsigned and the signed range, the 16-bit operations chain two 8-bit ones, INC and
\* DEC are ADD and SUB but for the carry, the rotates undo each other, and a bit set is the bit tested.
FlagsRight(F, a, b) ==
    /\ RightFor(Add8(F, a, b, F["C"]), a + b + F["C"], Signed(a) + Signed(b) + F["C"])
    /\ RightFor(Sub8(F, a, b, F["C"]), a - b - F["C"], Signed(a) - Signed(b) - F["C"])
    /\ \A l, r \in {256 * a + b, 256 * b + a} : Chained(Adc16, Add8, F, l, r) /\ Chained(Sbc16, Sub8, F, l, r)
    /\ Inc8(F, a) = [Add8(F, a, 1, 0) EXCEPT !.f["C"] = F["C"]] /\ Dec8(F, a) = [Sub8(F, a, 1, 0) EXCEPT !.f["C"] = F["C"]]
    /\ Or8(F, a, b).v = a + b - And8(F, a, b).v /\ Xor8(F, a, b).v = Or8(F, a, b).v - And8(F, a, b).v
    /\ \A pair \in {<<"rlca", "rrca">>, <<"rla", "rra">>} :
         LET there == RotateA(F, pair[1], a)
             back == RotateA(there.f, pair[2], there.v)
         IN  back.v = a /\ (pair[1] = "rla" => back.f["C"] = F["C"])
    /\ Shift(F, "sla", a).v = Add8(F, a, a, 0).v /\ Shift(F, "sla", a).f["C"] = Add8(F, a, a, 0).f["C"]
    /\ \A n \in 0..7, v \in {0, 1} :
         LET set == SetBit(a, n, v)
         IN  BitTest(F, n, set).f["Z"] = 1 - v /\ \A i \in (0..7) \ {n} : Bit(set, i) = Bit(a, i)
    /\ SetFlagsByte(FlagsByte(F)) = F /\ Ccf(Scf(F)) = [NoHN(F, 0) EXCEPT !["H"] = 1]
=============================================================================
