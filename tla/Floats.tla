------------------------------- MODULE Floats -------------------------------
(* The model of Forth's floats that the ROM is compared with byte for byte:
   src/tools/fpmodel.py (the core) and src/tools/fpforth.py (the words).  A float is
   sign, exponent and mantissa; the working mantissa has guard bits below it.  Widths
   are constants, 32 mantissa and 8 guard bits in the code, so that every operand of a
   small format can be tried; every loop and every truncation is the code's.         *)
EXTENDS Integers, Sequences, SequencesExt

CONSTANTS W,        \* mantissa bits (32)
          G,        \* guard bits (8)
          Bias,     \* the exponent of 0.1m x 2^0 (128)
          EMax,     \* the largest exponent (255)
          IntBits,  \* the integers' width (16)
          NLimit,   \* atof: the digits read are dropped once the number has reached this (0x19000000)
          MaxPow    \* the largest power of ten that a mantissa holds exactly (13)

FloatParameters ==
    /\ {W, G, Bias, EMax, IntBits, NLimit, MaxPow} \subseteq Nat
    /\ MaxPow >= 1 /\ 10 * NLimit <= 2^W
    /\ G >= 1 /\ W > IntBits + 1 /\ IntBits >= 2
    /\ Bias > 1 /\ Bias + W < EMax

Two(n) == 2^n
Wide == Two(W + G)                     \* M40 + 1
Float(s, e, m) == [s |-> s, e |-> e, m |-> m]
Zero == Float(0, 0, 0)
RangeError == Float(0, -1, 0)          \* FloatError("range"), THROW -43
DivByZero == Float(0, -2, 0)           \* THROW -42
Invalid == Float(0, -3, 0)             \* THROW -46
IsError(x) == x.e < 0
One == Float(0, Bias + 1, Two(W - 1))
Neg1 == Float(1, Bias + 1, Two(W - 1))
Ten == Float(0, Bias + 4, 5 * Two(W - 3))

\* Packed floats: a mantissa with its top bit set, or zero.
Floats == {Zero} \cup {Float(s, e, m) : s \in {0, 1}, e \in 1..EMax, m \in Two(W-1)..Two(W)-1}

Unpack(x) == [x EXCEPT !.m = @ * Two(G)]

Pack(u) ==
    LET up == (u.m \div Two(G - 1)) % 2
        m  == (u.m \div Two(G)) + up
    IN  CASE IsError(u) -> u
          [] ~IsError(u) /\ u.e = 0 -> Zero
          [] ~IsError(u) /\ u.e # 0 /\ m < Two(W) -> Float(u.s, u.e, m)
          [] ~IsError(u) /\ u.e # 0 /\ m = Two(W) ->
               IF u.e + 1 > EMax THEN RangeError ELSE Float(u.s, u.e + 1, Two(W - 1))

\* FNORM: left until the top bit is set; 0 when nothing is left or the exponent falls below 1.
Norm(s, e, m) ==
    LET shift[k \in 0..W+G] ==
          IF m * Two(k) >= Wide \div 2 THEN Float(s, e - k, m * Two(k)) ELSE shift[k + 1]
    IN  IF m = 0 THEN Zero ELSE LET n == shift[0] IN IF n.e <= 0 THEN Zero ELSE n

Smaller(x, y) == x.e < y.e \/ (x.e = y.e /\ x.m < y.m)

\* FADD, FMUL and FDIV on unpacked operands.
AddAligned(x, y) ==                     \* x is the larger
    LET ym == y.m \div Two(x.e - y.e)
        sum == x.m + ym
    IN  CASE x.e - y.e >= W + G -> x
          [] x.e - y.e < W + G /\ x.s # y.s -> Norm(x.s, x.e, x.m - ym)
          [] x.e - y.e < W + G /\ x.s = y.s /\ sum < Wide -> [x EXCEPT !.m = sum]
          [] x.e - y.e < W + G /\ x.s = y.s /\ sum >= Wide ->
               IF x.e + 1 > EMax THEN RangeError ELSE Float(x.s, x.e + 1, (Wide \div 2) + ((sum % Wide) \div 2))
AddU(x, y) == CASE y.e = 0 -> x
                [] y.e # 0 /\ x.e = 0 -> y
                [] y.e # 0 /\ x.e # 0 -> IF Smaller(x, y) THEN AddAligned(y, x) ELSE AddAligned(x, y)

\* FDONE: one normalising step, then the range.
Done(s, e, q) ==
    LET low == q < Wide \div 2
        e2  == IF low THEN e - 1 ELSE e
        q2  == IF low THEN (2 * q) % Wide ELSE q
    IN  IF e2 > EMax THEN RangeError ELSE IF e2 <= 0 THEN Zero ELSE Float(s, e2, q2)

MulU(x, y) ==
    LET x32 == x.m \div Two(G)
        mult == y.m \div Two(G)
        \* one step per multiplier bit: add into the top W bits, shift the carry in
        step(q, k) ==
          LET top == (q \div Two(G)) + (IF (mult \div Two(k)) % 2 = 1 THEN x32 ELSE 0)
              q1  == (top % Two(W)) * Two(G) + (q % Two(G))
          IN  (top \div Two(W)) * (Wide \div 2) + (q1 \div 2)
        q == FoldLeftDomain(LAMBDA acc, k : step(acc, k - 1), 0, [k \in 1..W |-> 0])
    IN  IF x.e = 0 THEN x ELSE IF y.e = 0 THEN Zero
        ELSE Done((x.s + y.s) % 2, x.e + y.e - Bias, q)

DivU(x, y) ==
    LET d == y.m \div Two(G)
        step(a, k) ==                   \* a: remainder, its carry and the quotient
          LET bit == IF a.r >= d \/ a.c = 1 THEN 1 ELSE 0
              r   == (a.r - bit * d) % Two(W)
          IN  [r |-> (2 * r) % Two(W), c |-> r \div Two(W - 1), q |-> (2 * a.q + bit) % Wide]
        q == FoldLeftDomain(step, [r |-> x.m \div Two(G), c |-> 0, q |-> 0], [k \in 1..W+G |-> 0]).q
    IN  IF y.e = 0 THEN RangeError ELSE IF x.e = 0 THEN x
        ELSE Done((x.s + y.s) % 2, x.e - y.e + Bias + 1, q)

\* The words: an error of an operand is not an operand.
Negate(x) == IF x.e = 0 THEN x ELSE [x EXCEPT !.s = 1 - @]
FAbs(x) == IF x.e = 0 THEN Zero ELSE [x EXCEPT !.s = 0]
OfBoth(x, y, u) == IF IsError(x) THEN x ELSE IF IsError(y) THEN y ELSE Pack(u)
FAdd(x, y) == OfBoth(x, y, AddU(Unpack(x), Unpack(y)))
FSub(x, y) == FAdd(x, [y EXCEPT !.s = 1 - @])
FMul(x, y) == OfBoth(x, y, MulU(Unpack(x), Unpack(y)))
FDiv(x, y) == IF y.e = 0 THEN DivByZero ELSE OfBoth(x, y, DivU(Unpack(x), Unpack(y)))
\* -1, 0 or 1, as the ROM's flags
Cmp(x, y) ==
    LET less(a, b) == a.e < b.e \/ (a.e = b.e /\ a.m < b.m)
        order(a, b) == IF less(a, b) THEN -1 ELSE IF less(b, a) THEN 1 ELSE 0
    IN  IF x.s # y.s THEN (IF x.s = 1 THEN -1 ELSE 1)
        ELSE IF x.s = 1 THEN order(y, x) ELSE order(x, y)

\* S>F, and the core's truncating conversion, on integers of IntBits bits
SToF(v) == LET neg == v >= Two(IntBits - 1)
               mag == IF neg THEN Two(IntBits) - v ELSE v
           IN  Pack(Norm(IF neg THEN 1 ELSE 0, Bias + IntBits, mag * Two(W + G - IntBits)))
ToI(x) == LET n == IF x.e - Bias > 3 * IntBits THEN 3 * IntBits ELSE x.e - Bias
              m == Unpack(x).m
              top == IF n <= W + G THEN m \div Two(W + G - n) ELSE m * Two(n - W - G)
              hl == top % Two(IntBits)
          IN  IF x.e <= Bias THEN 0 ELSE IF x.s = 1 THEN (-hl) % Two(IntBits) ELSE hl

\* F>S: the integer part, -2^(IntBits-1) .. 2^IntBits - 1, as IntBits bits; -1 stands for THROW -43.
FToS(x) ==
    LET ib == x.e - Bias
        ip == x.m \div Two(W - ib)
    IN  IF x.e <= Bias THEN 0
        ELSE IF ib > IntBits + 1 \/ ip > (IF x.s = 1 THEN Two(IntBits - 1) ELSE Two(IntBits) - 1) THEN -1
        ELSE IF x.s = 1 THEN (-ip) % Two(IntBits) ELSE ip

\* FROUND (ties away from 0) and FLOOR
IntPart(x, mode) ==
    LET fb == W - (x.e - Bias)
        dropped == x.m % Two(fb)
        carry == \/ mode = "round" /\ dropped >= Two(fb - 1)
                 \/ mode = "floor" /\ x.s = 1 /\ dropped # 0
        im == (x.m \div Two(fb)) + (IF carry THEN 1 ELSE 0)
    IN  CASE x.e = 0 -> Zero
          [] x.e \in 1..Bias /\ mode = "round" ->
               IF x.e = Bias THEN (IF x.s = 1 THEN Neg1 ELSE One) ELSE Zero
          [] x.e \in 1..Bias /\ mode = "floor" -> IF x.s = 1 THEN Neg1 ELSE Zero
          [] x.e >= Bias + W -> x
          [] x.e > Bias /\ x.e < Bias + W -> Pack(Norm(x.s, Bias + W, im * Two(G)))

\* FSQRT: four Newton steps from a guess with half the exponent, halving on the exponent
FSqrt(n) ==
    LET guess == Float(0, (n.e + Bias + 2) \div 2, Two(W - 1))
        half(x) == IF IsError(x) THEN x ELSE [x EXCEPT !.e = @ - 1]
        newton(x, k) == half(FAdd(x, FDiv(n, x)))
    IN  IF n.e = 0 THEN Zero ELSE IF n.s = 1 THEN Invalid
        ELSE FoldLeftDomain(newton, guess, <<0, 0, 0, 0>>)

\* k of SIN and COS's reduction, an integer-valued float; 2^IntBits stands for THROW -43
ToSSigned(x) ==
    LET ib == x.e - Bias
        ip == x.m \div Two(W - ib)
    IN  IF x.e <= Bias THEN 0
        ELSE IF ib > IntBits \/ ip > Two(IntBits - 1) - 1 THEN Two(IntBits)
        ELSE IF x.s = 1 THEN -ip ELSE ip

\* F.'s digits: the value in fixed point, rounded half up at `places` decimals;
\* a fraction of 2W bits holds every bit of the mantissa.
Fixed(x, places) ==
    LET n == x.e - Bias
        fix == IF x.e = 0 THEN 0
               ELSE IF n >= 0 THEN x.m * Two(W + n) ELSE (x.m * Two(W)) \div Two(-n)
        scaled == (fix % Two(2 * W)) * 10^places
        d == (scaled \div Two(2 * W)) + (IF scaled % Two(2 * W) >= Two(2 * W - 1) THEN 1 ELSE 0)
        over == d = 10^places
    IN  [s |-> x.s, ip |-> (fix \div Two(2 * W)) + (IF over THEN 1 ELSE 0), d |-> IF over THEN 0 ELSE d]
\* F. prints no '-' when every digit it prints is 0.
MinusShown(x, places) == LET t == Fixed(x, places) IN t.s = 1 /\ (t.ip # 0 \/ t.d # 0)

\* BEEP's frames for a duration already in half frames: half of them, rounded up
BeepFrames(half) ==
    LET h == IF half.e = 0 \/ half.s = 1 THEN 0
             ELSE IF half.e > Bias + IntBits THEN Two(IntBits) - 1 ELSE ToI(half)
    IN  (h \div 2) + (h % 2)

----------------------------------------------------------------------------
\* Numbers as text.  A constant is [int, frac, exp]: the digits before and after the point, and
\* the exponent.  atof's number and its decimal exponent:
Digit(a, d, after) == IF a.n < NLimit THEN [n |-> 10 * a.n + d, dexp |-> IF after THEN a.dexp - 1 ELSE a.dexp]
                      ELSE IF after THEN a ELSE [a EXCEPT !.dexp = @ + 1]
AtofDigits(t) ==
    LET whole == FoldLeft(LAMBDA a, d : Digit(a, d, FALSE), [n |-> 0, dexp |-> 0], t.int)
        all == FoldLeft(LAMBDA a, d : Digit(a, d, TRUE), whole, t.frac)
    IN  [all EXCEPT !.dexp = @ + t.exp]
Pow10(k) == Pack(Norm(0, Bias + W, 10^k * Two(G)))          \* 10^k < 2^W, or its low bits are 0
\* by 10^k, at most MaxPow at a time
StepOf(dexp) == IF dexp > MaxPow THEN MaxPow ELSE IF dexp < -MaxPow THEN -MaxPow ELSE dexp
ByPow10(x, k) == IF k > 0 THEN FMul(x, Pow10(k)) ELSE FDiv(x, Pow10(-k))
Scaled(x, dexp) ==
    LET f[v \in [x : {x} \cup Floats \cup {RangeError}, dexp : Int]] ==
          IF IsError(v.x) \/ v.x.e = 0 \/ v.dexp = 0 THEN v.x
          ELSE f[[x |-> ByPow10(v.x, StepOf(v.dexp)), dexp |-> v.dexp - StepOf(v.dexp)]]
    IN  f[[x |-> x, dexp |-> dexp]]
AtofOf(d) == Scaled(Pack(Norm(0, Bias + W, d.n * Two(G))), d.dexp)
Atof(t) == AtofOf(AtofDigits(t))

\* NUMBER: an integer, or a float when the token has a point or an exponent; -1 stands for THROW -43.
Signed(x, neg) == IF neg /\ ~IsError(x) THEN Negate(x) ELSE x
Parse(t, neg, float) ==
    LET v == FoldLeft(LAMBDA a, d : 10 * a + d, 0, t.int)
    IN  IF float THEN Signed(Atof(t), neg)
        ELSE IF v > (IF neg THEN Two(IntBits - 1) ELSE Two(IntBits) - 1) THEN -1
        ELSE IF neg THEN (-v) % Two(IntBits) ELSE v

\* ftoa: W bits of fraction, half of the last decimal added, the rest cut off.  The digits as one number.
Ftoa(x, p) ==
    LET n == x.e - Bias
        fix == IF x.e = 0 THEN 0 ELSE IF n >= 0 THEN x.m * Two(n) ELSE x.m \div Two(-n)
        half == Two(W - 1) \div 10^p
    IN  ((fix + half) * 10^p) \div Two(W)

\* FS.: the value scaled to one digit before the point, by an estimate of its decimal exponent that
\* is put right once; rounding may make it 10.
PutRight(v, est) == CASE Cmp(v, Ten) >= 0 -> [v |-> FDiv(v, Ten), n |-> est + 1]
                      [] Cmp(v, One) < 0 -> [v |-> FMul(v, Ten), n |-> est - 1]
                      [] Cmp(v, One) >= 0 /\ Cmp(v, Ten) < 0 -> [v |-> v, n |-> est]
Estimate(x) == ((x.e - (Bias + 1)) * 77) \div 256
FsScaled(x) == PutRight(Scaled(FAbs(x), -Estimate(x)), Estimate(x))
FsDigits(x, t, n) == IF t.ip = 10 THEN [s |-> x.s, ip |-> 1, d |-> 0, n |-> n + 1]
                     ELSE [s |-> x.s, ip |-> t.ip, d |-> t.d, n |-> n]
FsPrinted(x, f, places) == FsDigits(x, Fixed(f.v, places), f.n)
FsDot(x, places) == IF x.e = 0 THEN [s |-> 0, ip |-> 0, d |-> 0, n |-> 0] ELSE FsPrinted(x, FsScaled(x), places)

----------------------------------------------------------------------------
\* RND, on words of 16 bits as the sets of the bits that are 1.
Shl(b, k) == {i + k : i \in {j \in b : j + k < 16}}
Shr(b, k) == {i - k : i \in {j \in b : j >= k}}
Xor(a, b) == (a \ b) \cup (b \ a)
Xorshift(x) == LET a == Xor(x, Shl(x, 7))
                   b == Xor(a, Shr(a, 9))
               IN  Xor(b, Shl(b, 8))
NumberOf(b) == FoldLeftDomain(LAMBDA n, i : n + IF i - 1 \in b THEN Two(i - 1) ELSE 0, 0, [i \in 1..16 |-> 0])
Rnd(state, n) == IF n = 0 \/ n >= Two(15) THEN [state |-> state, r |-> 0]
                 ELSE [state |-> Xorshift(state), r |-> (NumberOf(Xorshift(state)) * n) \div Two(16)]

----------------------------------------------------------------------------
\* Properties.  A float's value, in units of 2^-(Bias + W).
ValueOf(x) == IF x.e = 0 THEN 0 ELSE (IF x.s = 1 THEN -1 ELSE 1) * x.m * 2^x.e
Unit == 2^(Bias + W)
Mag(n) == IF n < 0 THEN -n ELSE n

\* The four operations round: a sum is within half of its last bit and a guard bit of the true sum (a sum that is lost
\* is below the smallest float, one out of range above the largest), a product and a quotient within half of their
\* last bit and one guard bit; neither F+ nor F* depends on the operands' order; comparing compares values.
OperationsRound(x, y) ==
    LET sum == FAdd(x, y)
        Near(r, true) == IF IsError(r) THEN Mag(true) >= 2^(W + EMax) - 2^(EMax - 1)
                         ELSE IF r.e = 0 THEN Mag(true) < 2^W
                         ELSE 2^G * Mag(ValueOf(r) - true) <= (2^(G - 1) + 2) * 2^r.e
        mul == FMul(x, y)
        div == FDiv(x, y)
        j == x.e + y.e - Bias - mul.e
        k == x.e - y.e + Bias - div.e
    IN  /\ FAdd(y, x) = sum /\ FMul(y, x) = mul
        /\ Near(sum, ValueOf(x) + ValueOf(y)) /\ Near(FSub(x, y), ValueOf(x) - ValueOf(y))
        /\ ~IsError(mul) /\ mul.e # 0 =>
             j \in -1 .. 1 /\ mul.s = (x.s + y.s) % 2 /\ Mag(mul.m * 2^(W + 1) - x.m * y.m * 2^(j + 1)) <= 2^W
        /\ ~IsError(div) /\ div.e # 0 => k \in -1 .. 1 /\ Mag(2 * div.m * y.m - x.m * 2^(W + k + 1)) <= y.m
        /\ Cmp(x, y) = IF ValueOf(x) < ValueOf(y) THEN -1 ELSE IF ValueOf(x) > ValueOf(y) THEN 1 ELSE 0

\* Integers and floats: S>F is exact and the two ways back undo it; FLOOR is the integer below, FROUND the nearest, ties
\* away from 0; F>S cuts the fraction off and throws exactly outside its range; SQRT is within one of its last bit.
Truncated(x) == IF ValueOf(x) < 0 THEN -((-ValueOf(x)) \div Unit) ELSE ValueOf(x) \div Unit
IntegersRight(x) ==
    LET down == IntPart(x, "floor")
        near == IntPart(x, "round")
        off == Mag(ValueOf(x) - ValueOf(near))
        root == FSqrt(x)
        k == x.e + Bias + W - 2 * root.e
    IN  /\ ~IsError(down) => ValueOf(down) % Unit = 0 /\ ValueOf(x) - ValueOf(down) \in 0 .. Unit - 1
        /\ ~IsError(near) => /\ ValueOf(near) % Unit = 0 /\ 2 * off <= Unit
                             /\ 2 * off = Unit => Mag(ValueOf(near)) > Mag(ValueOf(x))
        /\ FToS(x) = IF Truncated(x) \in -2^(IntBits - 1) .. 2^IntBits - 1 THEN Truncated(x) % 2^IntBits ELSE -1
        /\ ToSSigned(x) = IF Truncated(x) \in 1 - 2^(IntBits - 1) .. 2^(IntBits - 1) - 1 THEN Truncated(x) ELSE 2^IntBits
        /\ x.s = 0 /\ ValueOf(x) < Unit * 2^IntBits => BeepFrames(x) = (ValueOf(x) \div Unit + 1) \div 2
        /\ x.s = 0 /\ x.e # 0 => /\ ~IsError(root) /\ k >= 0
                                 /\ (root.m - 1) * (root.m - 1) <= x.m * 2^k /\ x.m * 2^k <= (root.m + 1) * (root.m + 1)
SToFExact == \A v \in 0 .. 2^IntBits - 1 :
                /\ ToI(SToF(v)) = v /\ FToS(SToF(v)) = v
                /\ ValueOf(SToF(v)) = (IF v >= 2^(IntBits - 1) THEN v - 2^IntBits ELSE v) * Unit

\* What F. and FS. print: F.'s digits are the nearest, XF_FTOA's within half a decimal and the bits it drops, a '-' shows
\* exactly when a digit other than 0 does, and FS.'s one correction is enough: its value is 1 or more and less
\* than 10 (the assertion in fsdot), and the digit it prints is 1 .. 9.
OneDigit(v) == ~IsError(v) /\ Cmp(v, One) >= 0 /\ Cmp(v, Ten) < 0
DigitsNear(x) ==
    LET f == Fixed(x, 1)
        size == Mag(ValueOf(x))
    IN  /\ 2 * Mag((10 * f.ip + f.d) * Unit - 10 * size) <= Unit
        /\ 2 * Mag(Ftoa(x, 1) * Unit - 10 * size) <= Unit + 40 * 2^Bias
        /\ MinusShown(x, 1) = (x.s = 1 /\ 20 * size >= Unit)
        /\ x.e # 0 => OneDigit(FsScaled(x).v) /\ FsDot(x, 1).ip \in 1 .. 9

\* A constant is read to within the digits that atof keeps; an integer back as itself, or out of range.
ConstantNear(t) ==
    LET all == FoldLeft(LAMBDA a, d : 10 * a + d, 0, t.int \o t.frac)
        dexp == t.exp - Len(t.frac)
        up == all * (IF dexp > 0 THEN 10^dexp ELSE 1)
        down == IF dexp < 0 THEN 10^(-dexp) ELSE 1
        r == Atof(t)
    IN  /\ (up < down * 2^(EMax - Bias) /\ r.e > 0) => Mag(ValueOf(r) * down - up * Unit) <= (up * Unit) \div NLimit + down * 2^W
        /\ up < down * 2^(EMax - Bias - 1) => ~IsError(r) /\ (r.e = 0 <=> all = 0)
        /\ LET v == Parse([t EXCEPT !.frac = <<>>], TRUE, FALSE)
                n == FoldLeft(LAMBDA a, d : 10 * a + d, 0, t.int)
            IN  IF n <= Two(IntBits - 1) THEN (v + n) % Two(IntBits) = 0 ELSE v = -1

\* RND: the state never becomes 0 and each state comes from one other (the step is linear, and only 0 gives 0), so it
\* never sticks; the result is below the bound, and a bound of 0 or less leaves the state alone.
RndGoesOn(b, n) ==
    /\ b # {} => Xorshift(b) # {}
    /\ IF n \in 1 .. Two(15) - 1 THEN Rnd(b, n).r \in 0 .. n - 1 ELSE Rnd(b, n) = [state |-> b, r |-> 0]
=============================================================================
