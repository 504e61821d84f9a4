----------------------------- MODULE TapeProofs -----------------------------
(* Each of the six tape words keeps its promise, byte by byte, for every dictionary, text and
   tape.  The argument: the folds behind the checksum and the CRC grow one byte at a time; a
   lemma per step says what it does to each variable; ten invariants follow the word, and each
   has a lemma that one step keeps it:
     PhasesSound  which steps belong to which word, and what a taken header is;
     Sending      what has gone out so far;          CrcSound  the CRC behind the dictionary;
     SpaceSound   SPACE and who saw it;              FramedTape  good blocks have their checksum;
     Reading      memory has what was read so far;   Kept  what of memory at the start stands;
     Gained       what a finished word has;          Await  a good file is still ahead, and the
                                                     attempts reach it.                          *)
EXTENDS Tape, FiniteSetTheorems, SequenceTheorems, WellFoundedInduction, TLAPS

\* Induction over the naturals, for a set (a fold's values are built number by number).
LEMMA Induction ==
  ASSUME NEW S, 0 \in S, \A n \in Nat : n \in S => n + 1 \in S
  PROVE  Nat \subseteq S
<1> SUFFICES ASSUME NEW x \in Nat, x \notin S PROVE FALSE
  OBVIOUS
<1> DEFINE below == {0..n : n \in Nat \ S}
           R == StrictSubsetOrdering(Nat)
<1>1. below \subseteq FiniteSubsetsOf(Nat) /\ below # {}
  <2>1. \A n \in Nat : 0..n \in FiniteSubsetsOf(Nat)
    BY FS_Interval DEF FiniteSubsetsOf
  <2>2. QED
    BY <2>1
<1>2. PICK M \in below : \A B \in below : ~ (<<B, M>> \in R)
  <2> HIDE DEF below, R
  <2>1. IsWellFoundedOn(R, FiniteSubsetsOf(Nat))
    BY FS_StrictSubsetOrderingWellFounded DEF R
  <2>2. QED
    BY <1>1, <2>1, WFMin, Zenon
<1>3. PICK n \in Nat \ S : M = 0..n
  BY <1>2
<1>4. n # 0 /\ n - 1 \in Nat \ S
  BY <1>3
<1>5. 0..n - 1 \subseteq 0..n /\ n \notin 0..n - 1 /\ n \in 0..n
  BY <1>3
<1>6. <<0..n - 1, 0..n>> \in R
  BY <1>5 DEF StrictSubsetOrdering
<1>7. QED
  BY <1>2, <1>3, <1>4, <1>6

\* Xor of two naturals is one, and a number against itself is 0.
LEMMA XorIsANumber ==
  ASSUME NEW a \in Nat, NEW b \in Nat
  PROVE  Xor(a, b) \in Nat /\ Xor(a, a) = 0
<1>1. \A i, j \in 0..15 : Nibble[i][j] \in Nat /\ Nibble[i][i] = 0
  BY DEF Nibble
<1>2. \A n \in Nat : n % 16 \in 0..15
  OBVIOUS
<1>3. \A c \in Nat : c \div 1 \in Nat /\ c \div 16 \in Nat
  OBVIOUS
<1>4. \A c \in Nat : c \div 256 \in Nat
  OBVIOUS
<1>5. \A c \in Nat : c \div 4096 \in Nat
  OBVIOUS
<1>6. \A c \in Nat : /\ (c \div 1) % 16 \in 0..15 /\ (c \div 16) % 16 \in 0..15
                     /\ (c \div 256) % 16 \in 0..15 /\ (c \div 4096) % 16 \in 0..15
  BY <1>2, <1>3, <1>4, <1>5
<1> DEFINE M(x, y, p) == Nibble[(x \div p) % 16][(y \div p) % 16]
<1>7. \A x, y \in Nat : /\ M(x, y, 1) \in Nat /\ M(x, y, 16) \in Nat
                        /\ M(x, y, 256) \in Nat /\ M(x, y, 4096) \in Nat
  <2> TAKE x, y \in Nat
  <2>1. /\ (x \div 1) % 16 \in 0..15 /\ (x \div 16) % 16 \in 0..15
        /\ (x \div 256) % 16 \in 0..15 /\ (x \div 4096) % 16 \in 0..15
    BY <1>6
  <2>2. /\ (y \div 1) % 16 \in 0..15 /\ (y \div 16) % 16 \in 0..15
        /\ (y \div 256) % 16 \in 0..15 /\ (y \div 4096) % 16 \in 0..15
    BY <1>6
  <2>3. \A i, j \in 0..15 : Nibble[i][j] \in Nat
    BY <1>1
  <2>4. ASSUME NEW i, NEW j, i \in 0..15, j \in 0..15 PROVE Nibble[i][j] \in Nat
    BY <2>3, <2>4
  <2>5. M(x, y, 1) \in Nat
    BY <2>1, <2>2, <2>4
  <2>6. M(x, y, 16) \in Nat
    BY <2>1, <2>2, <2>4
  <2>7. M(x, y, 256) \in Nat
    BY <2>1, <2>2, <2>4
  <2>8. M(x, y, 4096) \in Nat
    BY <2>1, <2>2, <2>4
  <2>9. QED
    BY <2>5, <2>6, <2>7, <2>8
<1>8. \A x \in Nat : M(x, x, 1) = 0 /\ M(x, x, 16) = 0 /\ M(x, x, 256) = 0 /\ M(x, x, 4096) = 0
  <2> TAKE x \in Nat
  <2>1. /\ (x \div 1) % 16 \in 0..15 /\ (x \div 16) % 16 \in 0..15
        /\ (x \div 256) % 16 \in 0..15 /\ (x \div 4096) % 16 \in 0..15
    BY <1>6
  <2>2. \A i \in 0..15 : Nibble[i][i] = 0
    BY <1>1
  <2>3. M(x, x, 1) = 0 /\ M(x, x, 16) = 0
    BY <2>1, <2>2
  <2>4. M(x, x, 256) = 0 /\ M(x, x, 4096) = 0
    BY <2>1, <2>2
  <2>5. QED
    BY <2>3, <2>4
<1>9. \A x, y : Xor(x, y) = 1 * M(x, y, 1) + 16 * M(x, y, 16) + 256 * M(x, y, 256) + 4096 * M(x, y, 4096)
  BY Zenon DEF Xor
<1> HIDE DEF M
<1>10. \A n, o, p, q \in Nat : 1 * n + 16 * o + 256 * p + 4096 * q \in Nat
  <2> TAKE n, o, p, q \in Nat
  <2>1. 1 * n \in Nat /\ 16 * o \in Nat /\ 256 * p \in Nat /\ 4096 * q \in Nat
    OBVIOUS
  <2>2. QED
    BY <2>1
<1>11. Xor(a, b) \in Nat
  <2>1. Xor(a, b) = 1 * M(a, b, 1) + 16 * M(a, b, 16) + 256 * M(a, b, 256) + 4096 * M(a, b, 4096)
    BY <1>9, Zenon
  <2>2. M(a, b, 1) \in Nat /\ M(a, b, 16) \in Nat /\ M(a, b, 256) \in Nat /\ M(a, b, 4096) \in Nat
    BY <1>7
  <2>3. QED
    BY <1>10, <2>1, <2>2
<1>12. Xor(a, a) = 0
  <2>1. Xor(a, a) = 1 * M(a, a, 1) + 16 * M(a, a, 16) + 256 * M(a, a, 256) + 4096 * M(a, a, 4096)
    BY <1>9, Zenon
  <2>2. M(a, a, 1) = 0 /\ M(a, a, 16) = 0 /\ M(a, a, 256) = 0 /\ M(a, a, 4096) = 0
    BY <1>8
  <2>3. QED
    BY <2>1, <2>2
<1>13. QED
  BY <1>11, <1>12

\* f takes an A and a B to an A.
StepOf(f, A, B) == f \in [A -> [B -> A]]
Folding(f, a, s, n, g) == g = [k \in 0..n |-> IF k = 0 THEN a ELSE f[g[k - 1]][s[k]]]
\* A fold is the last value of a function that goes through the sequence.
LEMMA FoldIsOfBytes ==
  ASSUME NEW A, NEW B, NEW f, StepOf(f, A, B), NEW a \in A, NEW s \in Seq(B)
  PROVE  \E g \in [0..Len(s) -> A] : Folding(f, a, s, Len(s), g) /\ Fold(f, a, s) = g[Len(s)]
<1> DEFINE Good == {n \in 0..Len(s) : \E g \in [0..n -> A] : Folding(f, a, s, n, g)}
<1>1. Len(s) \in Nat /\ s \in [1..Len(s) -> B]
  OBVIOUS
<1>2. 0 \in Good
  <2> DEFINE g == [k \in 0..0 |-> a]
  <2>1. g \in [0..0 -> A] /\ Folding(f, a, s, 0, g)
    BY DEF Folding
  <2>2. QED
    BY <1>1, <2>1
<1>3. ASSUME NEW n \in Nat, n \in Good, n + 1 \in 0..Len(s)
      PROVE  n + 1 \in Good
  <2>1. PICK g \in [0..n -> A] : Folding(f, a, s, n, g)
    BY <1>3
  <2> DEFINE h == [k \in 0..n + 1 |-> IF k = n + 1 THEN f[g[n]][s[n + 1]] ELSE g[k]]
  <2> HIDE DEF Good
  <2>2. g[n] \in A /\ s[n + 1] \in B
    BY <1>1, <1>3
  <2>3. f[g[n]][s[n + 1]] \in A
    BY <2>2 DEF StepOf
  <2>4. h \in [0..n + 1 -> A]
    BY <2>3
  <2>5. h[n + 1] = f[g[n]][s[n + 1]] /\ \A k \in 0..n : h[k] = g[k]
    BY <1>1
  <2>6. g = [k \in 0..n |-> IF k = 0 THEN a ELSE f[g[k - 1]][s[k]]]
    BY <2>1 DEF Folding
  <2>7. \A k \in 0..n : g[k] = IF k = 0 THEN a ELSE f[g[k - 1]][s[k]]
    BY <2>6, Zenon
  <2> HIDE DEF h
  <2>8. \A k \in 0..n + 1 : h[k] = IF k = 0 THEN a ELSE f[h[k - 1]][s[k]]
    <3> TAKE k \in 0..n + 1
    <3>1. CASE k = n + 1
      BY <2>5, <3>1
    <3>2. CASE k \in 1..n
      <4>1. k \in 0..n /\ k - 1 \in 0..n /\ k # 0
        BY <3>2
      <4>2. h[k] = g[k] /\ h[k - 1] = g[k - 1]
        BY <2>5, <4>1, Zenon
      <4>3. QED
        BY <2>7, <4>1, <4>2, Zenon
    <3>3. CASE k = 0
      BY <2>5, <2>7, <3>3
    <3>4. QED
      BY <3>1, <3>2, <3>3
  <2>9. h = [k \in 0..n + 1 |-> h[k]]
    BY <2>4
  <2>10. Folding(f, a, s, n + 1, h)
    <3>1. [k \in 0..n + 1 |-> h[k]] = [k \in 0..n + 1 |-> IF k = 0 THEN a ELSE f[h[k - 1]][s[k]]]
      BY <2>8, Zenon
    <3>2. QED
      BY <2>9, <3>1, Zenon DEF Folding
  <2>11. QED
    BY <1>3, <2>4, <2>10 DEF Good
<1>4. Len(s) \in Good
  <2> DEFINE S == {n \in Nat : n \in 0..Len(s) => n \in Good}
  <2> HIDE DEF Good
  <2>1. 0 \in S
    BY <1>2
  <2>2. ASSUME NEW n \in Nat, n \in S PROVE n + 1 \in S
    <3>1. n + 1 \in 0..Len(s) => n \in 0..Len(s)
      BY <1>1
    <3>2. QED
      BY <1>3, <2>2, <3>1
  <2> HIDE DEF S
  <2>3. Nat \subseteq S
    BY <2>1, <2>2, Induction
  <2>4. QED
    BY <1>1, <2>3 DEF S
<1> DEFINE g == CHOOSE g : Folding(f, a, s, Len(s), g)
<1>5. Folding(f, a, s, Len(s), g)
  BY <1>4
<1>6. Fold(f, a, s) = g[Len(s)]
  BY DEF Fold, Folding
<1> HIDE DEF g
<1>7. g[0] = a /\ \A k \in 1..Len(s) : g[k] = f[g[k - 1]][s[k]]
  <2>1. g = [k \in 0..Len(s) |-> IF k = 0 THEN a ELSE f[g[k - 1]][s[k]]]
    BY <1>5 DEF Folding
  <2>2. \A k \in 0..Len(s) : g[k] = IF k = 0 THEN a ELSE f[g[k - 1]][s[k]]
    BY <2>1, Zenon
  <2>3. 0 \in 0..Len(s) /\ \A k \in 1..Len(s) : k \in 0..Len(s) /\ k # 0
    BY <1>1
  <2>4. QED
    BY <2>2, <2>3, Zenon
<1>8. \A k \in 0..Len(s) : g[k] \in A
  <2> DEFINE S == {k \in Nat : k \in 0..Len(s) => g[k] \in A}
  <2>1. 0 \in S
    BY <1>7
  <2>2. ASSUME NEW k \in Nat, k \in S PROVE k + 1 \in S
    <3>1. CASE k + 1 \in 0..Len(s)
      <4>1. g[k] \in A /\ s[k + 1] \in B /\ g[k + 1] = f[g[k]][s[k + 1]]
        BY <1>1, <1>7, <2>2, <3>1
      <4>2. f[g[k]] \in [B -> A]
        BY <4>1 DEF StepOf
      <4>3. QED
        BY <4>1, <4>2
    <3>2. QED
      BY <2>2, <3>1
  <2> HIDE DEF S
  <2>3. Nat \subseteq S
    BY <2>1, <2>2, Induction
  <2>4. QED
    BY <1>1, <2>3 DEF S
<1>9. QED
  BY <1>1, <1>5, <1>6, <1>8 DEF Folding

\* What a fold does with one more element, and the type of what it gives.
LEMMA FoldGrows ==
  ASSUME NEW A, NEW B, NEW f, StepOf(f, A, B), NEW a \in A, NEW s \in Seq(B), NEW b \in B
  PROVE  /\ Fold(f, a, <<>>) = a
         /\ Fold(f, a, s) \in A
         /\ Fold(f, a, Append(s, b)) = f[Fold(f, a, s)][b]
<1>1. PICK g \in [0..Len(s) -> A] : Folding(f, a, s, Len(s), g) /\ Fold(f, a, s) = g[Len(s)]
  BY FoldIsOfBytes
<1> DEFINE t == Append(s, b)
<1>2. t \in Seq(B) /\ Len(t) = Len(s) + 1 /\ t[Len(t)] = b /\ \A k \in 1..Len(s) : t[k] = s[k]
  OBVIOUS
<1> HIDE DEF t
<1>3. PICK h \in [0..Len(t) -> A] : Folding(f, a, t, Len(t), h) /\ Fold(f, a, t) = h[Len(t)]
  BY <1>2, FoldIsOfBytes
<1>4. PICK e \in [0..Len(<<>>) -> A] : Folding(f, a, <<>>, Len(<<>>), e) /\ Fold(f, a, <<>>) = e[Len(<<>>)]
  <2>1. <<>> \in Seq(B)
    OBVIOUS
  <2>2. QED
    BY <2>1, FoldIsOfBytes
<1>5. Len(s) \in Nat
  OBVIOUS
<1>6. /\ \A k \in 0..Len(s) : g[k] = IF k = 0 THEN a ELSE f[g[k - 1]][s[k]]
      /\ \A k \in 0..Len(t) : h[k] = IF k = 0 THEN a ELSE f[h[k - 1]][t[k]]
      /\ \A k \in 0..Len(<<>>) : e[k] = IF k = 0 THEN a ELSE f[e[k - 1]][<<>>[k]]
  <2>1. g = [k \in 0..Len(s) |-> IF k = 0 THEN a ELSE f[g[k - 1]][s[k]]]
    BY <1>1 DEF Folding
  <2>2. h = [k \in 0..Len(t) |-> IF k = 0 THEN a ELSE f[h[k - 1]][t[k]]]
    BY <1>3 DEF Folding
  <2>3. e = [k \in 0..Len(<<>>) |-> IF k = 0 THEN a ELSE f[e[k - 1]][<<>>[k]]]
    BY <1>4 DEF Folding
  <2>4. \A k \in 0..Len(s) : g[k] = IF k = 0 THEN a ELSE f[g[k - 1]][s[k]]
    BY ONLY <2>1, Zenon
  <2>5. \A k \in 0..Len(t) : h[k] = IF k = 0 THEN a ELSE f[h[k - 1]][t[k]]
    BY ONLY <2>2, Zenon
  <2>6. \A k \in 0..Len(<<>>) : e[k] = IF k = 0 THEN a ELSE f[e[k - 1]][<<>>[k]]
    BY ONLY <2>3, Zenon
  <2>7. QED
    BY ONLY <2>4, <2>5, <2>6, Zenon
<1>7. \A k \in 0..Len(s) : h[k] = g[k]
  <2> DEFINE S == {k \in Nat : k \in 0..Len(s) => h[k] = g[k]}
  <2>1. 0 \in S
    <3>1. 0 \in 0..Len(s) /\ 0 \in 0..Len(t)
      BY <1>2, <1>5
    <3>2. QED
      BY <1>6, <3>1, Zenon
  <2>2. ASSUME NEW k \in Nat, k \in S PROVE k + 1 \in S
    <3>1. ASSUME k + 1 \in 0..Len(s) PROVE h[k + 1] = g[k + 1]
      <4>1. k \in 0..Len(s) /\ k + 1 \in 1..Len(s) /\ k + 1 # 0 /\ (k + 1) - 1 = k
        BY <1>5, <3>1
      <4>5. k + 1 \in 0..Len(t)
        BY <1>2, <1>5, <3>1
      <4>2. h[k] = g[k] /\ t[k + 1] = s[k + 1]
        BY <1>2, <2>2, <4>1
      <4>3. h[k + 1] = f[h[(k + 1) - 1]][t[k + 1]] /\ g[k + 1] = f[g[(k + 1) - 1]][s[k + 1]]
        BY <1>6, <3>1, <4>1, <4>5, Zenon
      <4>4. QED
        BY <4>1, <4>2, <4>3, Zenon
    <3>2. QED
      BY <3>1
  <2> HIDE DEF S
  <2>3. Nat \subseteq S
    BY <2>1, <2>2, Induction
  <2>4. QED
    BY <1>5, <2>3 DEF S
<1>8. Fold(f, a, t) = f[h[Len(s)]][b]
  <2>1. Len(t) \in 0..Len(t) /\ Len(t) # 0 /\ Len(t) - 1 = Len(s)
    BY <1>2, <1>5
  <2>2. h[Len(t)] = f[h[Len(t) - 1]][t[Len(t)]]
    BY <1>6, <2>1, Zenon
  <2>3. QED
    BY <1>2, <1>3, <2>1, <2>2, Zenon
<1>9. h[Len(s)] = g[Len(s)]
  BY <1>5, <1>7
<1>10. Fold(f, a, <<>>) = a
  <2>1. Len(<<>>) = 0 /\ 0 \in 0..0
    OBVIOUS
  <2>2. QED
    BY <1>4, <1>6, <2>1, Zenon
<1>11. QED
  BY <1>1, <1>5, <1>8, <1>9, <1>10 DEF t

\* Checksum over one more byte (framed, and the receiver's own sum).
LEMMA ChecksumGrows ==
  ASSUME NEW a \in Nat, NEW s \in Seq(Nat), NEW b \in Nat
  PROVE  /\ Checksum(a, <<>>) = a /\ Checksum(a, s) \in Nat
         /\ Checksum(a, Append(s, b)) = Xor(Checksum(a, s), b)
<1>1. StepOf(xorByte, Nat, Nat)
  BY XorIsANumber DEF xorByte, StepOf
<1>2. \A x, y \in Nat : xorByte[x][y] = Xor(x, y)
  BY DEF xorByte
<1>3. Fold(xorByte, a, s) \in Nat /\ Fold(xorByte, a, <<>>) = a
      /\ Fold(xorByte, a, Append(s, b)) = xorByte[Fold(xorByte, a, s)][b]
  BY <1>1, FoldGrows
<1>4. QED
  BY <1>2, <1>3 DEF Checksum

\* A CRC is two cells.
LEMMA CrcIsTwoBytes ==
  ASSUME NEW s \in Seq(Nat)
  PROVE  CrcBytes(s) \in Seq(Nat) /\ Len(CrcBytes(s)) = 2
<1>1. \A c \in Nat : shift[c] \in Nat
  <2> TAKE c \in Nat
  <2>1. shift[c] = IF c >= 32768 THEN Xor((2 * c) % 65536, 4129) ELSE 2 * c
    BY DEF shift
  <2>2. (2 * c) % 65536 \in Nat /\ 2 * c \in Nat
    OBVIOUS
  <2>3. 4129 \in Nat
    OBVIOUS
  <2>4. QED
    BY <2>1, <2>2, <2>3, XorIsANumber
<1>2. \A c, b \in Nat : crcByte[c][b] \in Nat
  <2> TAKE c, b \in Nat
  <2>1. 256 * b \in Nat
    OBVIOUS
  <2>2. Xor(c, 256 * b) \in Nat
    BY <2>1, XorIsANumber
  <2>3. crcByte[c][b] = shift[shift[shift[shift[shift[shift[shift[shift[Xor(c, 256 * b)]]]]]]]]
    BY DEF crcByte
  <2>4. \A x \in Nat : shift[shift[shift[shift[x]]]] \in Nat
    BY ONLY <1>1
  <2>5. shift[shift[shift[shift[Xor(c, 256 * b)]]]] \in Nat
    BY ONLY <2>2, <2>4
  <2>6. shift[shift[shift[shift[shift[shift[shift[shift[Xor(c, 256 * b)]]]]]]]] \in Nat
    BY ONLY <2>4, <2>5
  <2>7. QED
    BY ONLY <2>3, <2>6
<1>3. StepOf(crcByte, Nat, Nat)
  <2>1. crcByte = [c \in Nat |-> [b \in Nat |-> crcByte[c][b]]]
    BY DEF crcByte
  <2> HIDE DEF crcByte
  <2>2. [c \in Nat |-> [b \in Nat |-> crcByte[c][b]]] \in [Nat -> [Nat -> Nat]]
    BY <1>2
  <2>3. QED
    BY <2>1, <2>2, Zenon DEF StepOf
<1>4. Crc(s) \in Nat
  <2>1. 65535 \in Nat /\ 0 \in Nat
    OBVIOUS
  <2>2. QED
    BY <1>3, <2>1, FoldGrows DEF Crc
<1>5. Crc(s) % 256 \in Nat /\ Crc(s) \div 256 \in Nat
  BY <1>4
<1>6. QED
  BY <1>5 DEF CrcBytes

----------------------------------------------------------------------------
(* Types. *)
Pcs == {"start", "send header", "gap", "send byte", "find", "failed", "header", "data", "byte", "data failed",
        "loaded", "done"}
Mem == [cell : [0..Limit - 1 -> Nat], here : 0..DictCap, latest : Nat, end : DictCap..Limit]
Op == [pc : Pcs, word : Words, name : Name, left : 1..Attempts, head : Heads, ix : Nat, de : Nat,
       rest : Seq(Nat), sum : Nat, code : {0, -8, Stopped, TapeError}]
Player == [blocks : Seq(Block), pos : Nat \ {0}, late : Nat, lead : Nat]
Hist == [start : Mem, seen : BOOLEAN, pressed : BOOLEAN]
TypeOK ==
    /\ scene \in Scenes /\ m \in Mem /\ op \in Op /\ tape \in Player /\ out \in Seq(Block)
    /\ space \in BOOLEAN /\ hist \in Hist

Saving == {"SAVE-LIB", "SAVE-TEXT"}
SaveSteps == {"send header", "gap", "send byte"}
ReadSteps == {"find", "failed", "header", "data", "byte", "data failed", "loaded"}
TakenSteps == {"data", "byte", "data failed", "loaded"}
PhasesSound ==
    /\ op.pc \in SaveSteps => op.word \in Saving
    /\ op.pc \in ReadSteps => op.word \notin Saving
    /\ op.pc \in TakenSteps => Matches(op.head) /\ Acceptable(op.head)
    /\ op.pc # "done" => op.code = 0
    /\ op.word = "VERIFY-LIB" => m.here + 2 <= DictCap
    /\ op.word = "SAVE-LIB" /\ op.pc \in SaveSteps => m.here + 2 <= DictCap

\* The fields of op, one by one.
LEMMA OpFields ==
  ASSUME op \in Op
  PROVE  /\ op.pc \in Pcs /\ op.word \in Words /\ op.name \in Name /\ op.left \in 1..Attempts
         /\ op.head \in Heads /\ op.ix \in Nat /\ op.de \in Nat /\ op.rest \in Seq(Nat) /\ op.sum \in Nat
         /\ op.code \in {0, -8, Stopped, TapeError}
  BY DEF Op

\* What a step of op leaves.
SameWord == op'.word = op.word /\ op'.name = op.name
SameRead == op'.head = op.head /\ op'.ix = op.ix /\ op'.de = op.de /\ op'.rest = op.rest /\ op'.sum = op.sum
\* The word's record after each kind of assignment.
LEMMA OpGoes ==
  ASSUME op \in Op, NEW p \in Pcs, Goes(p)
  PROVE  op' \in Op /\ op'.pc = p /\ SameWord /\ SameRead /\ op'.left = op.left /\ op'.code = op.code
<1>1. op' = [op EXCEPT !.pc = p]
  BY DEF Goes
<1>2. QED
  BY <1>1 DEF Op, SameWord, SameRead
LEMMA OpEnds ==
  ASSUME op \in Op, NEW c \in {0, -8, Stopped, TapeError}, Ends(c)
  PROVE  op' \in Op /\ op'.pc = "done" /\ op'.code = c /\ SameWord /\ SameRead /\ op'.left = op.left
<1>1. op' = [op EXCEPT !.pc = "done", !.code = c]
  BY DEF Ends
<1>2. "done" \in Pcs
  BY DEF Pcs
<1>3. QED
  BY <1>1, <1>2 DEF Op, SameWord, SameRead
LEMMA OpRetries ==
  ASSUME op \in Op, op.left # 1, op' = [op EXCEPT !.pc = "find", !.left = @ - 1], Attempts \in Nat \ {0}
  PROVE  op' \in Op /\ op'.pc = "find" /\ SameWord /\ SameRead /\ op'.left = op.left - 1 /\ op'.code = op.code
<1>1. "find" \in Pcs
  BY DEF Pcs
<1>2. op.left - 1 \in 1..Attempts
  BY OpFields
<1>3. QED
  BY <1>1, <1>2 DEF Op, SameWord, SameRead
LEMMA OpFinds ==
  ASSUME op \in Op, NEW h \in Heads, op' = [op EXCEPT !.pc = "header", !.head = h]
  PROVE  /\ op' \in Op /\ op'.pc = "header" /\ op'.head = h /\ SameWord
         /\ op'.left = op.left /\ op'.code = op.code
<1>1. "header" \in Pcs
  BY DEF Pcs
<1>2. QED
  BY <1>1 DEF Op, SameWord
LEMMA OpTakes ==
  ASSUME op \in Op, NEW d \in Nat, NEW x \in Nat, op' = [op EXCEPT !.pc = "data", !.de = d, !.ix = x]
  PROVE  /\ op' \in Op /\ op'.pc = "data" /\ op'.de = d /\ op'.ix = x /\ op'.head = op.head /\ SameWord
         /\ op'.left = op.left /\ op'.code = op.code
<1>1. "data" \in Pcs
  BY DEF Pcs
<1>2. QED
  BY <1>1 DEF Op, SameWord
LEMMA OpBegins ==
  ASSUME op \in Op, NEW r \in Seq(Nat), NEW x \in Nat, op' = [op EXCEPT !.pc = "byte", !.rest = r, !.sum = x]
  PROVE  /\ op' \in Op /\ op'.pc = "byte" /\ op'.rest = r /\ op'.sum = x /\ op'.head = op.head
         /\ op'.ix = op.ix /\ op'.de = op.de /\ SameWord /\ op'.left = op.left /\ op'.code = op.code
<1>1. "byte" \in Pcs
  BY DEF Pcs
<1>2. QED
  BY <1>1 DEF Op, SameWord
LEMMA OpReads ==
  ASSUME op \in Op, op.rest # <<>>, op.de # 0,
         op' = [op EXCEPT !.rest = Tail(@), !.sum = Xor(@, Byte1), !.ix = @ + 1, !.de = @ - 1]
  PROVE  /\ op' \in Op /\ op'.pc = op.pc /\ op'.rest = Tail(op.rest) /\ op'.sum = Xor(op.sum, op.rest[1])
         /\ op'.ix = op.ix + 1 /\ op'.de = op.de - 1 /\ op'.head = op.head
         /\ SameWord /\ op'.left = op.left /\ op'.code = op.code
<1>1. Tail(op.rest) \in Seq(Nat) /\ op.rest[1] \in Nat /\ op.ix + 1 \in Nat /\ op.de - 1 \in Nat
  BY OpFields
<1>2. Xor(op.sum, op.rest[1]) \in Nat
  BY <1>1, OpFields, XorIsANumber
<1>3. QED
  BY <1>1, <1>2 DEF Op, SameWord, Byte1
\* The memory, after each kind of write.
LEMMA MemFields ==
  ASSUME m \in Mem
  PROVE  /\ m.cell \in [0..Limit - 1 -> Nat] /\ m.here \in 0..DictCap /\ m.latest \in Nat
         /\ m.end \in DictCap..Limit /\ DictCap \in Nat /\ TextCap \in Nat /\ Limit \in Nat /\ Limit = DictCap + TextCap
         /\ \A x \in 0..Limit - 1 : m.cell[x] \in Nat
<1>1. DictCap \in Nat /\ TextCap \in Nat
  BY TapeAssumption
<1>2. QED
  BY <1>1 DEF Mem, Limit
SameHead == m'.here = m.here /\ m'.latest = m.latest /\ m'.end = m.end
\* One cell is stored.
LEMMA MemWrites ==
  ASSUME m \in Mem, NEW i \in Nat, NEW v \in Nat, m' = [m EXCEPT !.cell[i] = v]
  PROVE  /\ m' \in Mem /\ SameHead
         /\ \A x \in 0..Limit - 1 : m'.cell[x] = IF x = i THEN v ELSE m.cell[x]
<1>1. m' = [m EXCEPT !.cell = [m.cell EXCEPT ![i] = v]]
  BY DEF Mem
<1>2. [m.cell EXCEPT ![i] = v] \in [0..Limit - 1 -> Nat]
  BY MemFields
<1>3. m' \in Mem /\ SameHead /\ m'.cell = [m.cell EXCEPT ![i] = v]
  BY <1>1, <1>2 DEF Mem, SameHead
<1>4. QED
  BY <1>3, MemFields
\* STORAGE_LIB_CRC changes the two cells at HERE, and nothing else if there is room.
LEMMA MemCrc ==
  ASSUME m \in Mem, m' = WithCrc
  PROVE  /\ m' \in Mem /\ SameHead
         /\ m.here + 2 <= DictCap =>
              /\ m'.cell[m.here] = CrcBytes(DictNow)[1] /\ m'.cell[m.here + 1] = CrcBytes(DictNow)[2]
              /\ \A x \in 0..Limit - 1 : x # m.here /\ x # m.here + 1 => m'.cell[x] = m.cell[x]
<1> DEFINE c == CrcBytes(DictNow)
<1>1. m.here \in Nat /\ m.cell \in [0..Limit - 1 -> Nat] /\ m.here <= DictCap
  BY MemFields
<1>2. c \in Seq(Nat) /\ Len(c) = 2
  <2>1. \A k \in 1..m.here : m.cell[0 + k - 1] \in Nat
    BY <1>1, MemFields
  <2>2. DictNow \in Seq(Nat)
    BY <1>1, <2>1 DEF DictNow, Cells
  <2>3. QED
    BY <2>2, CrcIsTwoBytes
<1>3. c[1] \in Nat /\ c[2] \in Nat
  BY <1>2
<1> HIDE DEF c
<1> DEFINE n1 == [m.cell EXCEPT ![m.here] = c[1]]
           n2 == [n1 EXCEPT ![m.here + 1] = c[2]]
<1>4. m' = [m EXCEPT !.cell = n2]
  BY DEF WithCrc, Mem, c
<1>5. n2 \in [0..Limit - 1 -> Nat]
  BY <1>1, <1>3
<1>6. m.here + 2 <= DictCap => /\ n2[m.here] = c[1] /\ n2[m.here + 1] = c[2]
                               /\ \A x \in 0..Limit - 1 : x # m.here /\ x # m.here + 1 => n2[x] = m.cell[x]
  <2> SUFFICES ASSUME m.here + 2 <= DictCap
               PROVE  /\ n2[m.here] = c[1] /\ n2[m.here + 1] = c[2]
                      /\ \A x \in 0..Limit - 1 : x # m.here /\ x # m.here + 1 => n2[x] = m.cell[x]
    OBVIOUS
  <2> DEFINE d == m.cell
             i == m.here
             j == i + 1
  <2>1. d \in [0..Limit - 1 -> Nat]
    BY <1>1
  <2>2. i \in 0..Limit - 1 /\ j \in 0..Limit - 1 /\ i # j
    BY <1>1, MemFields
  <2> HIDE DEF d, i, j
  <2>3. \A x \in 0..Limit - 1 : [d EXCEPT ![i] = c[1]][x] = IF x = i THEN c[1] ELSE d[x]
    BY <2>1
  <2>4. [d EXCEPT ![i] = c[1]] \in [0..Limit - 1 -> Nat]
    BY <1>3, <2>1
  <2>5. \A x \in 0..Limit - 1 :
          [[d EXCEPT ![i] = c[1]] EXCEPT ![j] = c[2]][x] = IF x = j THEN c[2] ELSE [d EXCEPT ![i] = c[1]][x]
    BY <2>4
  <2>6. n2 = [[d EXCEPT ![i] = c[1]] EXCEPT ![j] = c[2]]
    BY DEF d, i, j
  <2> HIDE DEF n1, n2
  <2>7. \A x \in 0..Limit - 1 : n2[x] = IF x = j THEN c[2] ELSE IF x = i THEN c[1] ELSE d[x]
    BY <2>3, <2>5, <2>6
  <2>8. n2[i] = c[1] /\ n2[j] = c[2] /\ \A x \in 0..Limit - 1 : x # i /\ x # j => n2[x] = d[x]
    BY <2>2, <2>7
  <2>9. QED
    BY <2>8 DEF d, i, j
<1> HIDE DEF n1, n2
<1>7. m' \in Mem /\ SameHead /\ m'.cell = n2
  BY <1>4, <1>5 DEF Mem, SameHead
<1>8. QED
  BY <1>6, <1>7 DEF c
\* HERE and LATEST, or STORE_END, are set.
LEMMA MemLoads ==
  ASSUME m \in Mem, NEW h \in 0..DictCap, NEW l \in Nat, m' = [m EXCEPT !.here = h, !.latest = l]
  PROVE  m' \in Mem /\ m'.here = h /\ m'.latest = l /\ m'.cell = m.cell /\ m'.end = m.end
  BY DEF Mem
LEMMA MemEnds ==
  ASSUME m \in Mem, NEW e \in DictCap..Limit, m' = [m EXCEPT !.end = e]
  PROVE  m' \in Mem /\ m'.end = e /\ m'.cell = m.cell /\ m'.here = m.here /\ m'.latest = m.latest
  BY DEF Mem
\* LOAD-TEXT ends the last line.
LEMMA MemClosesLine ==
  ASSUME m \in Mem, NEW e \in DictCap..Limit - 1, m' = [m EXCEPT !.cell[e] = CR, !.end = e + 1]
  PROVE  /\ m' \in Mem /\ m'.end = e + 1 /\ m'.here = m.here /\ m'.latest = m.latest
         /\ \A x \in 0..Limit - 1 : m'.cell[x] = IF x = e THEN CR ELSE m.cell[x]
<1>1. CR \in Nat /\ e + 1 \in DictCap..Limit /\ e \in 0..Limit - 1
  BY MemFields DEF CR
<1> DEFINE n == [m.cell EXCEPT ![e] = CR]
<1>2. m' = [m EXCEPT !.cell = n, !.end = e + 1]
  BY DEF Mem
<1>3. n \in [0..Limit - 1 -> Nat] /\ \A x \in 0..Limit - 1 : n[x] = IF x = e THEN CR ELSE m.cell[x]
  BY <1>1, MemFields
<1> HIDE DEF n
<1>4. m' \in Mem /\ m'.end = e + 1 /\ m'.here = m.here /\ m'.latest = m.latest /\ m'.cell = n
  BY <1>1, <1>2, <1>3 DEF Mem
<1>5. QED
  BY <1>3, <1>4
\* The tape and the history.
LEMMA TapeFields ==
  ASSUME tape \in Player
  PROVE  /\ tape.blocks \in Seq(Block) /\ tape.pos \in Nat \ {0} /\ tape.late \in Nat /\ tape.lead \in Nat
         /\ Len(tape.blocks) \in Nat /\ \A k \in 1..Len(tape.blocks) : tape.blocks[k] \in Block
  BY DEF Player
SameTape == tape'.blocks = tape.blocks /\ tape'.lead = tape.lead
LEMMA TapeGoesOn ==
  ASSUME tape \in Player, TapeMoves
  PROVE  /\ tape' \in Player /\ SameTape
         /\ ~Silence => tape.late = 0 /\ tape'.late = 0 /\ tape.pos \in 1..Len(tape.blocks) /\ tape'.pos = tape.pos + 1
         /\ Silence /\ tape.late > 0 => tape'.late = tape.late - 1 /\ tape'.pos = tape.pos
         /\ Silence /\ tape.late = 0 => tape' = tape /\ tape.pos > Len(tape.blocks)
<1>1. CASE tape.late > 0
  <2>1. tape' = [tape EXCEPT !.late = tape.late - 1] /\ Silence
    BY <1>1 DEF TapeMoves, Silence
  <2>2. tape.late - 1 \in Nat
    BY <1>1, TapeFields
  <2>3. QED
    BY <1>1, <2>1, <2>2 DEF Player, SameTape
<1>2. CASE ~(tape.late > 0) /\ Silence
  <2>1. tape' = tape
    BY <1>2 DEF TapeMoves
  <2>2. QED
    BY <1>2, <2>1, TapeFields DEF Silence, SameTape
<1>3. CASE ~(tape.late > 0) /\ ~Silence
  <2>1. tape' = [tape EXCEPT !.pos = tape.pos + 1]
    BY <1>3 DEF TapeMoves
  <2>2. tape.pos + 1 \in Nat \ {0} /\ tape.late = 0 /\ tape.pos \in 1..Len(tape.blocks)
    BY <1>3, TapeFields DEF Silence
  <2>3. QED
    BY <1>3, <2>1, <2>2 DEF Player, SameTape
<1>4. QED
  BY <1>1, <1>2, <1>3
\* The fields of a block.
LEMMA BlockFields ==
  ASSUME NEW b \in Block
  PROVE  /\ b.flag \in Nat /\ b.raw \in Seq(Nat) /\ b.good \in BOOLEAN /\ b.head \in Heads
         /\ b.head.type \in Nat /\ b.head.length \in Nat /\ b.head.p1 \in Nat /\ b.head.p2 \in Nat
  BY DEF Block, Heads
LEMMA NoHeadIsOne == NoHead \in Heads
  BY DEF NoHead, Heads, Name

----------------------------------------------------------------------------
(* What each step does. *)
SameMachine == m' = m
Elsewhere == scene' = scene /\ UNCHANGED <<out, space>>
\* The word begins: SAVE-LIB has its CRC written or is refused for room.
LEMMA StartDoes ==
  ASSUME TypeOK, Start
  PROVE  /\ TypeOK' /\ op.pc = "start" /\ Elsewhere /\ tape' = tape /\ SameWord /\ SameRead /\ op'.left = op.left
         /\ hist'.start = m /\ hist'.seen = space /\ hist'.pressed = hist.pressed
         /\ \/ /\ op.word = "SAVE-LIB" /\ m.here + 2 > DictCap
               /\ op'.pc = "done" /\ op'.code = -8 /\ m' = m
            \/ /\ op.word = "SAVE-LIB" /\ m.here + 2 <= DictCap
               /\ op'.pc = "send header" /\ op'.code = op.code /\ m' = WithCrc
            \/ op.word = "SAVE-TEXT" /\ op'.pc = "send header" /\ op'.code = op.code /\ m' = m
            \/ op.word = "VERIFY-LIB" /\ op'.pc = "find" /\ op'.code = op.code /\ m' = WithCrc
            \/ /\ op.word \in {"LOAD-LIB", "VERIFY-TEXT", "LOAD-TEXT"}
               /\ op'.pc = "find" /\ op'.code = op.code /\ m' = m
<1>1. /\ op \in Op /\ m \in Mem /\ hist \in Hist /\ space \in BOOLEAN
      /\ op.pc = "start" /\ hist' = [hist EXCEPT !.start = m, !.seen = space]
      /\ UNCHANGED <<scene, tape, out, space>>
  BY DEF TypeOK, Start
<1>2. hist' \in Hist /\ hist'.start = m /\ hist'.seen = space /\ hist'.pressed = hist.pressed
  BY <1>1 DEF Hist
<1>3. "send header" \in Pcs /\ "find" \in Pcs /\ -8 \in {0, -8, Stopped, TapeError}
  BY DEF Pcs
<1>4. CASE op.word = "SAVE-LIB" /\ m.here + 2 > DictCap /\ Ends(-8) /\ UNCHANGED m
  BY <1>1, <1>2, <1>3, <1>4, OpEnds DEF TypeOK, Elsewhere
<1>5. CASE op.word = "SAVE-LIB" /\ m.here + 2 <= DictCap /\ Goes("send header") /\ m' = WithCrc
  BY <1>1, <1>2, <1>3, <1>5, OpGoes, MemCrc DEF TypeOK, Elsewhere
<1>6. CASE op.word = "SAVE-TEXT" /\ Goes("send header") /\ UNCHANGED m
  BY <1>1, <1>2, <1>3, <1>6, OpGoes DEF TypeOK, Elsewhere
<1>7. CASE op.word = "VERIFY-LIB" /\ Goes("find") /\ m' = WithCrc
  BY <1>1, <1>2, <1>3, <1>7, OpGoes, MemCrc DEF TypeOK, Elsewhere
<1>8. CASE op.word \in {"LOAD-LIB", "VERIFY-TEXT", "LOAD-TEXT"} /\ Goes("find") /\ UNCHANGED m
  BY <1>1, <1>2, <1>3, <1>8, OpGoes DEF TypeOK, Elsewhere
<1>9. QED
  BY <1>4, <1>5, <1>6, <1>7, <1>8 DEF Start

Idle == scene' = scene /\ UNCHANGED <<m, tape, space, hist>>
\* What is saved is bytes.
LEMMA ImageTyped ==
  ASSUME m \in Mem, op \in Op, op.word = "SAVE-LIB" => m.here + 2 <= DictCap, op.word \in Saving
  PROVE  /\ Image \in Seq(Nat) /\ SavedHeader \in Block /\ SavedHeader.flag = FlagHeader /\ SavedHeader.good = TRUE
         /\ IsLib => Len(Image) = m.here + 2 /\ \A k \in 1..Len(Image) : Image[k] = m.cell[k - 1]
<1>1. CASE op.word = "SAVE-LIB"
  <2>1. IsLib
    BY <1>1 DEF IsLib
  <2>2. \A k \in 1..m.here + 2 : m.cell[0 + k - 1] \in Nat /\ 0 + k - 1 = k - 1
    BY <1>1, MemFields
  <2>3. Image = [k \in 1..m.here + 2 |-> m.cell[0 + k - 1]]
    BY <2>1 DEF Image, Cells
  <2>4. m.here + 2 \in Nat
    BY MemFields
  <2>5. Image \in Seq(Nat) /\ Len(Image) = m.here + 2 /\ \A k \in 1..Len(Image) : Image[k] = m.cell[k - 1]
    BY <2>2, <2>3, <2>4
  <2>6. SavedHeader = Header(TypeLib, op.name, m.here + 2, Identity, m.latest)
    BY <2>1 DEF SavedHeader
  <2>7. SavedHeader \in Block /\ SavedHeader.flag = FlagHeader /\ SavedHeader.good = TRUE
    BY <2>4, <2>6, OpFields, MemFields, TapeAssumption DEF Header, Block, Heads, TypeLib, FlagHeader
  <2>8. QED
    BY <2>5, <2>7
<1>2. CASE op.word = "SAVE-TEXT"
  <2>1. ~IsLib
    BY <1>2 DEF IsLib
  <2>2. m.end - DictCap \in Nat /\ \A k \in 1..m.end - DictCap : m.cell[DictCap + k - 1] \in Nat
    BY MemFields
  <2>3. Image = [k \in 1..m.end - DictCap |-> m.cell[DictCap + k - 1]]
    BY <2>1 DEF Image, Cells, TextNow
  <2>4. Image \in Seq(Nat) /\ Len(Image) \in Nat
    BY <2>2, <2>3
  <2>5. SavedHeader = Header(TypeText, op.name, Len(Image), NoAutostart, Len(Image))
    BY <2>1 DEF SavedHeader
  <2>6. SavedHeader \in Block /\ SavedHeader.flag = FlagHeader /\ SavedHeader.good = TRUE
    BY <2>4, <2>5, OpFields DEF Header, Block, Heads, TypeText, FlagHeader, NoAutostart
  <2>7. QED
    BY <2>1, <2>4, <2>6
<1>3. QED
  BY <1>1, <1>2 DEF Saving
\* The header sent, whole or stopped, is a block.
LEMMA HeadersAreBlocks ==
  ASSUME m \in Mem, op \in Op, op.word = "SAVE-LIB" => m.here + 2 <= DictCap, op.word \in Saving
  PROVE  [SavedHeader EXCEPT !.good = TRUE] = SavedHeader /\ [SavedHeader EXCEPT !.good = FALSE] \in Block
         /\ [SavedHeader EXCEPT !.good = FALSE].flag = FlagHeader
<1>1. SavedHeader \in Block /\ SavedHeader.flag = FlagHeader /\ SavedHeader.good = TRUE
  BY ImageTyped
<1>2. QED
  BY <1>1 DEF Block
\* One more at the end.
LEMMA Appended ==
  ASSUME NEW S, NEW s \in Seq(S), NEW b \in S
  PROVE  /\ Append(s, b) \in Seq(S) /\ Len(Append(s, b)) = Len(s) + 1 /\ Append(s, b)[Len(s) + 1] = b
         /\ \A k \in 1..Len(s) : Append(s, b)[k] = s[k]
  OBVIOUS
LEMMA OutGrows ==
  ASSUME out \in Seq(Block), NEW b \in Block, out' = Append(out, b)
  PROVE  /\ out' \in Seq(Block) /\ Len(out') = Len(out) + 1 /\ out'[Len(out) + 1] = b
         /\ \A k \in 1..Len(out) : out'[k] = out[k]
  BY Appended
\* The header goes out, good unless SPACE is down.
LEMMA SendHeaderDoes ==
  ASSUME TypeOK, PhasesSound, SendHeader
  PROVE  /\ TypeOK' /\ op.pc = "send header" /\ Idle /\ SameWord
         /\ \/ space /\ op'.pc = "done" /\ op'.code = Stopped /\ out' = Append(out, [SavedHeader EXCEPT !.good = FALSE])
            \/ ~space /\ op'.pc = "gap" /\ op'.code = op.code /\ out' = Append(out, SavedHeader)
<1>1. /\ op \in Op /\ m \in Mem /\ space \in BOOLEAN /\ out \in Seq(Block) /\ op.pc = "send header" /\ Idle
      /\ out' = Append(out, [SavedHeader EXCEPT !.good = ~space])
  BY DEF TypeOK, SendHeader, Idle
<1>2. op.word \in Saving /\ (op.word = "SAVE-LIB" => m.here + 2 <= DictCap)
  BY <1>1 DEF PhasesSound, SaveSteps
<1>3. [SavedHeader EXCEPT !.good = TRUE] = SavedHeader /\ [SavedHeader EXCEPT !.good = FALSE] \in Block /\ SavedHeader \in Block
  BY <1>1, <1>2, ImageTyped, HeadersAreBlocks
<1>4. CASE space
  <2>1. Ends(Stopped) /\ space = TRUE
    BY <1>1, <1>4 DEF SendHeader
  <2>2. op' \in Op /\ op'.pc = "done" /\ op'.code = Stopped /\ SameWord
    BY <1>1, <2>1, OpEnds
  <2>3. out' = Append(out, [SavedHeader EXCEPT !.good = FALSE])
    BY <1>1, <2>1
  <2>4. out' \in Seq(Block)
    BY <1>1, <1>3, <2>3, OutGrows
  <2>5. QED
    BY <1>1, <1>4, <2>2, <2>3, <2>4 DEF TypeOK, Idle
<1>5. CASE ~space
  <2>1. Goes("gap") /\ space = FALSE
    BY <1>1, <1>5 DEF SendHeader
  <2>2. op' \in Op /\ op'.pc = "gap" /\ op'.code = op.code /\ SameWord
    BY <1>1, <2>1, OpGoes DEF Pcs
  <2>3. out' = Append(out, SavedHeader)
    BY <1>1, <1>3, <2>1
  <2>4. out' \in Seq(Block)
    BY <1>1, <1>3, <2>3, OutGrows
  <2>5. QED
    BY <1>1, <1>5, <2>2, <2>3, <2>4 DEF TypeOK, Idle
<1>6. QED
  BY <1>4, <1>5
Opened == [flag |-> FlagData, raw |-> <<>>, good |-> FALSE, head |-> NoHead]
\* Between header and data: an empty block is begun, or BREAK ends the word.
LEMMA GapDoes ==
  ASSUME TypeOK, Gap
  PROVE  /\ TypeOK' /\ op.pc = "gap" /\ Idle /\ SameWord
         /\ \/ op'.pc = "send byte" /\ op'.code = op.code /\ out' = Append(out, Opened)
            \/ op'.pc = "done" /\ op'.code = Stopped /\ out' = out /\ space
<1>1. op \in Op /\ out \in Seq(Block) /\ op.pc = "gap" /\ Idle
  BY DEF TypeOK, Gap, Idle
<1>2. CASE Goes("send byte") /\ out' = Append(out, Opened)
  <2>1. op' \in Op /\ op'.pc = "send byte" /\ op'.code = op.code /\ SameWord
    BY <1>1, <1>2, OpGoes DEF Pcs
  <2>2. Opened \in Block
    BY NoHeadIsOne DEF Opened, Block, FlagData
  <2>3. out' \in Seq(Block)
    BY <1>1, <1>2, <2>2, OutGrows
  <2>4. QED
    BY <1>1, <1>2, <2>1, <2>3 DEF TypeOK, Idle
<1>3. CASE space /\ Ends(Stopped) /\ UNCHANGED out
  <2>1. op' \in Op /\ op'.pc = "done" /\ op'.code = Stopped /\ SameWord
    BY <1>1, <1>3, OpEnds
  <2>2. QED
    BY <1>1, <1>3, <2>1 DEF TypeOK, Idle
<1>4. QED
  BY <1>2, <1>3 DEF Gap, Opened
\* What has gone out, while the word that saves runs.
Sent(s) == [flag |-> FlagData, raw |-> s, good |-> FALSE, head |-> NoHead]
Sending ==
    op.word \in Saving =>
      /\ op.pc \in {"start", "send header"} => out = <<>>
      /\ op.pc = "gap" => out = <<SavedHeader>>
      /\ op.pc = "send byte" => \E n \in 0..Len(Image) : out = <<SavedHeader, Sent(SubSeq(Image, 1, n))>>
      /\ op.pc = "done" =>
           IF op.code = 0 THEN out = <<SavedHeader, Data(FlagData, Image)>>
           ELSE \A k \in DOMAIN out : out[k].flag = FlagData => ~out[k].good
\* A prefix and the byte behind it.
LEMMA OneMore ==
  ASSUME NEW S, NEW s \in Seq(S), NEW n \in Nat, n < Len(s)
  PROVE  /\ s[n + 1] \in S /\ SubSeq(s, 1, n) \in Seq(S) /\ Len(SubSeq(s, 1, n)) = n
         /\ Append(SubSeq(s, 1, n), s[n + 1]) = SubSeq(s, 1, n + 1)
  OBVIOUS
LEMMA WholeOne ==
  ASSUME NEW S, NEW s \in Seq(S)
  PROVE  SubSeq(s, 1, 0) = <<>> /\ SubSeq(s, 1, Len(s)) = s
  OBVIOUS
LastGetsOne(b, g) == out' = [out EXCEPT ![Len(out)].raw = Append(@, b), ![Len(out)].good = g]
\* The block that is being sent gets a byte.
LEMMA LastGrows ==
  ASSUME NEW h \in Block, NEW d \in Block, NEW b \in Nat, NEW g \in BOOLEAN, out = <<h, d>>, LastGetsOne(b, g)
  PROVE  /\ out' = <<h, [flag |-> d.flag, raw |-> Append(d.raw, b), good |-> g, head |-> d.head]>>
         /\ out' \in Seq(Block)
<1>1. Len(out) = 2 /\ out[1] = h /\ out[2] = d
  BY Zenon
<1> DEFINE e == [d EXCEPT !.raw = Append(d.raw, b)]
           f == [e EXCEPT !.good = g]
           z == [flag |-> d.flag, raw |-> Append(d.raw, b), good |-> g, head |-> d.head]
<1>2. d.flag \in Nat /\ d.raw \in Seq(Nat) /\ d.head \in Heads /\ Append(d.raw, b) \in Seq(Nat)
  BY BlockFields
<1>3. e \in Block /\ e.flag = d.flag /\ e.raw = Append(d.raw, b) /\ e.head = d.head
  BY <1>2 DEF Block
<1> HIDE DEF e
<1>4. f \in Block /\ f.flag = d.flag /\ f.raw = Append(d.raw, b) /\ f.head = d.head /\ f.good = g
  BY <1>3 DEF Block
<1> HIDE DEF f
<1>5. f = z
  <2>1. f = [flag |-> f.flag, raw |-> f.raw, good |-> f.good, head |-> f.head]
    BY <1>4 DEF Block
  <2>2. QED
    BY <1>4, <2>1
<1> HIDE DEF z
<1>6. out' = [[out EXCEPT ![2] = e] EXCEPT ![2] = f]
  BY <1>1 DEF e, f, LastGetsOne
<1>7. [out EXCEPT ![2] = e] = <<h, e>>
  OBVIOUS
<1>8. out' = <<h, f>>
  BY <1>6, <1>7
<1>9. <<h, f>> \in Seq(Block)
  BY <1>4
<1>10. QED
  BY <1>5, <1>8, <1>9, Zenon DEF z
\* A byte of the image goes out, or the checksum; SPACE ends the word.
LEMMA SendByteDoes ==
  ASSUME TypeOK, PhasesSound, Sending, SendByte
  PROVE  /\ TypeOK' /\ op.pc = "send byte" /\ Idle /\ SameWord
         /\ \/ /\ op'.pc = "send byte" /\ op'.code = op.code
               /\ \E n \in 0..Len(Image) : out' = <<SavedHeader, Sent(SubSeq(Image, 1, n))>>
            \/ op'.pc = "done" /\ op'.code = 0 /\ out' = <<SavedHeader, Data(FlagData, Image)>>
            \/ /\ space /\ op'.pc = "done" /\ op'.code = Stopped
               /\ \A k \in DOMAIN out' : out'[k].flag = FlagData => ~out'[k].good
<1>1. op \in Op /\ m \in Mem /\ out \in Seq(Block) /\ space \in BOOLEAN /\ op.pc = "send byte" /\ Idle
  BY DEF TypeOK, SendByte, Idle
<1>2. op.word \in Saving /\ (op.word = "SAVE-LIB" => m.here + 2 <= DictCap)
  BY <1>1 DEF PhasesSound, SaveSteps
<1>3. Image \in Seq(Nat) /\ SavedHeader \in Block /\ SavedHeader.flag = FlagHeader
  BY <1>1, <1>2, ImageTyped
<1>4. PICK n \in 0..Len(Image) : out = <<SavedHeader, Sent(SubSeq(Image, 1, n))>>
  BY <1>1, <1>2 DEF Sending
<1> DEFINE s == SubSeq(Image, 1, n)
           whole == n = Len(Image)
           next == IF whole THEN Checksum(FlagData, Image) ELSE Image[n + 1]
<1>5. Len(Image) \in Nat /\ s \in Seq(Nat) /\ Len(s) = n /\ n \in Nat
  <2>1. CASE whole
    BY <1>3, <2>1, WholeOne
  <2>2. CASE ~whole
    BY <1>3, <2>2, OneMore
  <2>3. QED
    BY <2>1, <2>2
<1>6. next \in Nat
  <2>1. FlagData \in Nat
    BY DEF FlagData
  <2>2. Checksum(FlagData, Image) \in Nat
    BY <1>3, <2>1, ChecksumGrows
  <2>3. CASE whole
    BY <2>2, <2>3
  <2>4. CASE ~whole
    BY <1>3, <1>4, <1>5, <2>4, OneMore
  <2>5. QED
    BY <2>3, <2>4
<1>7. Sent(s) \in Block /\ Sent(s).flag = FlagData /\ Sent(s).raw = s /\ Sent(s).head = NoHead
  BY <1>5, NoHeadIsOne DEF Sent, Block, FlagData
<1>8. Len(out) = 2 /\ out[Len(out)].raw = s
  BY <1>4, <1>7
<1>9. /\ out' = [out EXCEPT ![Len(out)].raw = Append(@, next), ![Len(out)].good = whole /\ ~space]
      /\ IF space THEN Ends(Stopped) ELSE IF whole THEN Ends(0) ELSE UNCHANGED op
  BY <1>5, <1>8 DEF SendByte
<1> DEFINE g == whole /\ ~space
           d == [flag |-> FlagData, raw |-> Append(s, next), good |-> g, head |-> NoHead]
<1>10. out' = <<SavedHeader, d>> /\ out' \in Seq(Block)
  <2>1. g \in BOOLEAN
    BY <1>1
  <2> HIDE DEF g, next, s
  <2>2. LastGetsOne(next, g)
    BY <1>9 DEF g, LastGetsOne
  <2>3. /\ out' = <<SavedHeader, [flag |-> Sent(s).flag, raw |-> Append(Sent(s).raw, next), good |-> g, head |-> Sent(s).head]>>
        /\ out' \in Seq(Block)
    <3>1. out = <<SavedHeader, Sent(s)>>
      BY <1>4 DEF s
    <3> HIDE DEF g, next, s
    <3>2. QED
      BY <1>3, <3>1, <1>6, <1>7, <2>1, <2>2, LastGrows
  <2>4. QED
    BY <1>7, <2>3
<1> HIDE DEF d
<1>11. DOMAIN out' = {1, 2} /\ out'[1] = SavedHeader /\ out'[2] = d
  BY <1>10
<1>12. CASE space
  <2>1. Ends(Stopped) /\ ~g
    BY <1>9, <1>12
  <2>2. op' \in Op /\ op'.pc = "done" /\ op'.code = Stopped /\ SameWord
    BY <1>1, <2>1, OpEnds
  <2>3. ~d.good
    BY <2>1 DEF d
  <2>4. \A k \in DOMAIN out' : out'[k].flag = FlagData => ~out'[k].good
    BY <1>3, <1>11, <2>3 DEF FlagData, FlagHeader
  <2>5. QED
    BY <1>1, <1>10, <1>12, <2>2, <2>4 DEF TypeOK, Idle
<1>13. CASE ~space /\ whole
  <2>1. Ends(0) /\ g = TRUE /\ next = Checksum(FlagData, Image) /\ s = Image
    BY <1>3, <1>9, <1>13, WholeOne
  <2>2. op' \in Op /\ op'.pc = "done" /\ op'.code = 0 /\ SameWord
    BY <1>1, <2>1, OpEnds
  <2>3. d = Data(FlagData, Image)
    BY <2>1 DEF d, Data
  <2>4. QED
    BY <1>1, <1>10, <2>2, <2>3 DEF TypeOK, Idle
<1>14. CASE ~space /\ ~whole
  <2>1. UNCHANGED op /\ g = FALSE /\ next = Image[n + 1]
    BY <1>9, <1>14
  <2>2. n + 1 \in 0..Len(Image) /\ Append(s, next) = SubSeq(Image, 1, n + 1)
    BY <1>3, <1>5, <1>14, <2>1, OneMore
  <2>3. d = Sent(SubSeq(Image, 1, n + 1))
    BY <2>1, <2>2 DEF d, Sent
  <2>4. op' \in Op /\ op'.pc = "send byte" /\ op'.code = op.code /\ SameWord
    BY <1>1, <2>1 DEF SameWord
  <2>5. \E i \in 0..Len(Image) : out' = <<SavedHeader, Sent(SubSeq(Image, 1, i))>>
    BY <1>10, <2>2, <2>3
  <2>6. QED
    BY <1>1, <1>10, <2>4, <2>5 DEF TypeOK, Idle
<1>15. QED
  BY <1>12, <1>13, <1>14
Listens == scene' = scene /\ UNCHANGED <<m, out, space, hist>>
\* A receive while a header is looked for.
LEMMA FindDoes ==
  ASSUME TypeOK, Find
  PROVE  /\ TypeOK' /\ op.pc = "find" /\ Listens /\ SameWord /\ SameTape /\ op'.left = op.left /\ op'.code = op.code
         /\ \/ space /\ op'.pc = "failed" /\ tape' = tape
            \/ ~space /\ op'.pc = "failed" /\ TapeMoves /\ ~(~Silence /\ NextBlock.flag = FlagHeader /\ NextBlock.good)
            \/ /\ ~space /\ op'.pc = "header" /\ TapeMoves /\ ~Silence /\ NextBlock.flag = FlagHeader /\ NextBlock.good
               /\ op'.head = NextBlock.head
<1>1. op \in Op /\ tape \in Player /\ op.pc = "find" /\ Listens
  BY DEF TypeOK, Find, Listens
<1>2. CASE space
  <2>1. Goes("failed") /\ tape' = tape
    BY <1>2 DEF Find
  <2>2. op' \in Op /\ op'.pc = "failed" /\ op'.code = op.code /\ op'.left = op.left /\ SameWord
    BY <1>1, <2>1, OpGoes DEF Pcs
  <2>3. QED
    BY <1>1, <1>2, <2>1, <2>2 DEF TypeOK, Listens, SameTape
<1>3. CASE ~space
  <2>1. TapeMoves
    BY <1>3 DEF Find
  <2>2. tape' \in Player /\ SameTape
    BY <1>1, <2>1, TapeGoesOn
  <2>3. CASE ~Silence /\ NextBlock.flag = FlagHeader /\ NextBlock.good
    <3>1. op' = [op EXCEPT !.pc = "header", !.head = NextBlock.head]
      BY <1>3, <2>3 DEF Find
    <3>2. NextBlock.head \in Heads
      <4>1. tape.pos \in 1..Len(tape.blocks)
        BY <1>1, <2>1, <2>3, TapeGoesOn
      <4>2. QED
        BY <1>1, <4>1, TapeFields, BlockFields DEF NextBlock
    <3>3. op' \in Op /\ op'.pc = "header" /\ op'.head = NextBlock.head /\ op'.code = op.code /\ op'.left = op.left /\ SameWord
      BY <1>1, <3>1, <3>2, OpFinds
    <3>4. QED
      BY <1>1, <1>3, <2>1, <2>2, <2>3, <3>3 DEF TypeOK, Listens
  <2>4. CASE ~(~Silence /\ NextBlock.flag = FlagHeader /\ NextBlock.good)
    <3>1. Goes("failed")
      BY <1>3, <2>4 DEF Find
    <3>2. op' \in Op /\ op'.pc = "failed" /\ op'.code = op.code /\ op'.left = op.left /\ SameWord
      BY <1>1, <3>1, OpGoes DEF Pcs
    <3>3. QED
      BY <1>1, <1>3, <2>1, <2>2, <2>4, <3>2 DEF TypeOK, Listens
  <2>5. QED
    BY <2>3, <2>4
<1>4. QED
  BY <1>2, <1>3
TurnedAway == \/ op.left = 1 /\ op'.pc = "done" /\ op'.code = TapeError
              \/ op.left # 1 /\ op'.pc = "find" /\ op'.left = op.left - 1 /\ op'.code = op.code
\* A refused block costs an attempt, the last one the word.
LEMMA RefusedDoes ==
  ASSUME op \in Op, Refused
  PROVE  op' \in Op /\ SameWord /\ SameRead /\ TurnedAway
<1>1. CASE op.left = 1
  BY <1>1, OpEnds DEF Refused, TurnedAway
<1>2. CASE op.left # 1
  BY <1>2, OpRetries, TapeAssumption DEF Refused, TurnedAway
<1>3. QED
  BY <1>1, <1>2
Looks == scene' = scene /\ UNCHANGED <<m, tape, out, space, hist>>
\* A failed receive: SPACE ends the word.
LEMMA SearchFailedDoes ==
  ASSUME TypeOK, SearchFailed
  PROVE  /\ TypeOK' /\ op.pc = "failed" /\ Looks /\ SameWord
         /\ \/ space /\ op'.pc = "done" /\ op'.code = Stopped
            \/ ~space /\ op.left = 1 /\ op'.pc = "done" /\ op'.code = TapeError
            \/ ~space /\ op.left # 1 /\ op'.pc = "find" /\ op'.left = op.left - 1 /\ op'.code = op.code
<1>1. op \in Op /\ op.pc = "failed" /\ Looks
  BY DEF TypeOK, SearchFailed, Looks
<1>2. CASE space
  <2>1. Ends(Stopped)
    BY <1>2 DEF SearchFailed
  <2>2. op' \in Op /\ op'.pc = "done" /\ op'.code = Stopped /\ SameWord
    BY <1>1, <2>1, OpEnds
  <2>3. QED
    BY <1>1, <1>2, <2>2 DEF TypeOK, Looks
<1>3. CASE ~space
  <2>1. Refused
    BY <1>3 DEF SearchFailed
  <2>2. op' \in Op /\ SameWord /\ TurnedAway
    BY <1>1, <2>1, RefusedDoes
  <2>3. QED
    BY <1>1, <1>3, <2>2 DEF TypeOK, Looks, TurnedAway
<1>4. QED
  BY <1>2, <1>3
Base == IF IsLib THEN 0 ELSE DictCap
\* The header is another file's, or not acceptable, or taken.
LEMMA CheckHeaderDoes ==
  ASSUME TypeOK, CheckHeader
  PROVE  /\ TypeOK' /\ op.pc = "header" /\ Looks /\ SameWord
         /\ \/ ~Matches(op.head) /\ op.left = 1 /\ op'.pc = "done" /\ op'.code = TapeError
            \/ ~Matches(op.head) /\ op.left # 1 /\ op'.pc = "find" /\ op'.left = op.left - 1 /\ op'.code = op.code
            \/ Matches(op.head) /\ ~Acceptable(op.head) /\ op'.pc = "done" /\ op'.code = TapeError
            \/ /\ Matches(op.head) /\ Acceptable(op.head) /\ op'.pc = "data" /\ op'.code = op.code /\ op'.left = op.left
               /\ op'.head = op.head /\ op'.de = op.head.length /\ op'.ix = Base
<1>1. op \in Op /\ op.pc = "header" /\ Looks
  BY DEF TypeOK, CheckHeader, Looks
<1>2. CASE ~Matches(op.head)
  <2>1. Refused
    BY <1>2 DEF CheckHeader
  <2>2. op' \in Op /\ SameWord /\ TurnedAway
    BY <1>1, <2>1, RefusedDoes
  <2>3. QED
    BY <1>1, <1>2, <2>2 DEF TypeOK, Looks, TurnedAway
<1>3. CASE Matches(op.head) /\ ~Acceptable(op.head)
  <2>1. Ends(TapeError)
    BY <1>3 DEF CheckHeader
  <2>2. op' \in Op /\ op'.pc = "done" /\ op'.code = TapeError /\ SameWord
    BY <1>1, <2>1, OpEnds
  <2>3. QED
    BY <1>1, <1>3, <2>2 DEF TypeOK, Looks
<1>4. CASE Matches(op.head) /\ Acceptable(op.head)
  <2>1. op' = [op EXCEPT !.pc = "data", !.de = op.head.length, !.ix = Base]
    BY <1>4 DEF CheckHeader, Base
  <2>2. Base \in Nat /\ op.head.length \in Nat
    BY <1>1, OpFields, TapeAssumption DEF Base, Heads
  <2>3. /\ op' \in Op /\ op'.pc = "data" /\ op'.code = op.code /\ op'.left = op.left
        /\ op'.head = op.head /\ op'.de = op.head.length /\ op'.ix = Base /\ SameWord
    <3> HIDE DEF Base
    <3>1. QED
      BY <1>1, <2>1, <2>2, OpTakes
  <2>4. QED
    BY <1>1, <1>4, <2>3 DEF TypeOK, Looks
<1>5. QED
  BY <1>2, <1>3, <1>4
\* The block behind it: no SPACE, no silence, and the flag of data.
LEMMA DataBeginsDoes ==
  ASSUME TypeOK, DataBegins
  PROVE  /\ TypeOK' /\ op.pc = "data" /\ Listens /\ SameWord /\ SameTape /\ op'.left = op.left /\ op'.code = op.code
         /\ op'.head = op.head /\ op'.ix = op.ix /\ op'.de = op.de
         /\ \/ space /\ op'.pc = "data failed" /\ tape' = tape
            \/ ~space /\ op'.pc = "data failed" /\ TapeMoves /\ ~(~Silence /\ NextBlock.flag = FlagData)
            \/ /\ ~space /\ op'.pc = "byte" /\ TapeMoves /\ ~Silence /\ NextBlock.flag = FlagData
               /\ op'.rest = NextBlock.raw /\ op'.sum = FlagData
<1>1. op \in Op /\ tape \in Player /\ op.pc = "data" /\ Listens
  BY DEF TypeOK, DataBegins, Listens
<1>2. CASE space
  <2>1. Goes("data failed") /\ tape' = tape
    BY <1>2 DEF DataBegins
  <2>2. op' \in Op /\ op'.pc = "data failed" /\ op'.code = op.code /\ op'.left = op.left /\ SameWord /\ SameRead
    BY <1>1, <2>1, OpGoes DEF Pcs
  <2>3. QED
    BY <1>1, <1>2, <2>1, <2>2 DEF TypeOK, Listens, SameTape, SameRead
<1>3. CASE ~space
  <2>1. TapeMoves
    BY <1>3 DEF DataBegins
  <2>2. tape' \in Player /\ SameTape
    BY <1>1, <2>1, TapeGoesOn
  <2>3. CASE ~Silence /\ NextBlock.flag = FlagData
    <3>1. op' = [op EXCEPT !.pc = "byte", !.rest = NextBlock.raw, !.sum = FlagData]
      BY <1>3, <2>3 DEF DataBegins
    <3>2. NextBlock.raw \in Seq(Nat) /\ FlagData \in Nat
      <4>1. tape.pos \in 1..Len(tape.blocks)
        BY <1>1, <2>1, <2>3, TapeGoesOn
      <4>2. NextBlock.raw \in Seq(Nat)
        BY <1>1, <4>1, TapeFields, BlockFields DEF NextBlock
      <4>3. QED
        BY <4>2 DEF FlagData
    <3>3. /\ op' \in Op /\ op'.pc = "byte" /\ op'.rest = NextBlock.raw /\ op'.sum = FlagData /\ op'.head = op.head
          /\ op'.ix = op.ix /\ op'.de = op.de /\ op'.code = op.code /\ op'.left = op.left /\ SameWord
      BY <1>1, <3>1, <3>2, OpBegins
    <3>4. QED
      BY <1>1, <1>3, <2>1, <2>2, <2>3, <3>3 DEF TypeOK, Listens
  <2>4. CASE ~(~Silence /\ NextBlock.flag = FlagData)
    <3>1. Goes("data failed")
      BY <1>3, <2>4 DEF DataBegins
    <3>2. op' \in Op /\ op'.pc = "data failed" /\ op'.code = op.code /\ op'.left = op.left /\ SameWord /\ SameRead
      BY <1>1, <3>1, OpGoes DEF Pcs
    <3>3. QED
      BY <1>1, <1>3, <2>1, <2>2, <2>4, <3>2 DEF TypeOK, Listens, SameRead
  <2>5. QED
    BY <2>3, <2>4
<1>4. QED
  BY <1>2, <1>3
Reads == scene' = scene /\ UNCHANGED <<tape, out, space, hist>>
\* One byte is taken: stored by a LOAD, compared by a VERIFY.
Taken ==
    /\ op'.pc = "byte" /\ op'.rest = Tail(op.rest) /\ op'.sum = Xor(op.sum, op.rest[1])
    /\ op'.ix = op.ix + 1 /\ op'.de = op.de - 1
    /\ ~Loading => m' = m /\ m.cell[op.ix] = op.rest[1]
    /\ Loading => /\ SameHead
                  /\ \A x \in 0..Limit - 1 : m'.cell[x] = IF x = op.ix THEN op.rest[1] ELSE m.cell[x]
\* A byte: stored or compared, or the checksum looked at, or the receive fails.
LEMMA DataByteDoes ==
  ASSUME TypeOK, DataByte
  PROVE  /\ TypeOK' /\ op.pc = "byte" /\ Reads /\ SameWord /\ op'.left = op.left /\ op'.code = op.code /\ op'.head = op.head
         /\ \/ /\ op'.pc = "data failed" /\ m' = m /\ op'.de = op.de /\ op'.ix = op.ix
               /\ \/ space
                  \/ op.rest = <<>>
                  \/ op.rest # <<>> /\ op.de = 0 /\ Xor(op.sum, op.rest[1]) # 0
                  \/ ~Loading
            \/ /\ ~space /\ op.rest # <<>> /\ op.de = 0 /\ Xor(op.sum, op.rest[1]) = 0
               /\ op'.pc = "loaded" /\ m' = m /\ SameRead
            \/ ~space /\ op.rest # <<>> /\ op.de # 0 /\ Taken
<1>1. op \in Op /\ m \in Mem /\ op.pc = "byte" /\ Reads
  BY DEF TypeOK, DataByte, Reads
<1>2. "data failed" \in Pcs /\ "loaded" \in Pcs
  BY DEF Pcs
<1>3. ASSUME Goes("data failed"), m' = m
      PROVE  /\ TypeOK' /\ SameWord /\ op'.left = op.left /\ op'.code = op.code /\ op'.head = op.head
             /\ op'.pc = "data failed" /\ op'.de = op.de /\ op'.ix = op.ix
  <2>1. op' \in Op /\ SameWord /\ SameRead /\ op'.left = op.left /\ op'.code = op.code /\ op'.pc = "data failed"
    BY <1>1, <1>2, <1>3, OpGoes
  <2>2. QED
    BY <1>1, <1>3, <2>1 DEF TypeOK, Reads, SameRead
<1>4. CASE space \/ op.rest = <<>>
  <2>1. Goes("data failed") /\ m' = m
    BY <1>4 DEF DataByte
  <2>2. QED
    BY <1>1, <1>3, <1>4, <2>1
<1>5. CASE ~(space \/ op.rest = <<>>) /\ op.de = 0
  <2>1. Goes(IF Xor(op.sum, Byte1) = 0 THEN "loaded" ELSE "data failed") /\ m' = m
    BY <1>5 DEF DataByte
  <2>2. CASE Xor(op.sum, op.rest[1]) = 0
    <3>1. Goes("loaded")
      BY <2>1, <2>2 DEF Byte1
    <3>2. op' \in Op /\ SameWord /\ SameRead /\ op'.left = op.left /\ op'.code = op.code /\ op'.pc = "loaded"
      BY <1>1, <1>2, <3>1, OpGoes
    <3>3. QED
      BY <1>1, <1>5, <2>1, <2>2, <3>2 DEF TypeOK, Reads, SameRead
  <2>3. CASE Xor(op.sum, op.rest[1]) # 0
    <3>1. Goes("data failed")
      BY <2>1, <2>3 DEF Byte1
    <3>2. QED
      BY <1>1, <1>3, <1>5, <2>1, <2>3, <3>1
  <2>4. QED
    BY <2>2, <2>3
<1>6. CASE ~(space \/ op.rest = <<>>) /\ op.de # 0
  <2>1. /\ m' = IF Loading THEN Stored ELSE m
        /\ IF ~Loading /\ m.cell[op.ix] # Byte1 THEN Goes("data failed")
           ELSE op' = [op EXCEPT !.rest = Tail(@), !.sum = Xor(@, Byte1), !.ix = @ + 1, !.de = @ - 1]
    BY <1>6 DEF DataByte
  <2>2. CASE ~Loading /\ m.cell[op.ix] # Byte1
    <3>1. Goes("data failed") /\ m' = m
      BY <2>1, <2>2
    <3>2. QED
      BY <1>1, <1>3, <2>2, <3>1
  <2>3. CASE ~(~Loading /\ m.cell[op.ix] # Byte1)
    <3>1. op' = [op EXCEPT !.rest = Tail(@), !.sum = Xor(@, Byte1), !.ix = @ + 1, !.de = @ - 1]
      BY <2>1, <2>3
    <3>2. /\ op' \in Op /\ op'.pc = "byte" /\ op'.rest = Tail(op.rest) /\ op'.sum = Xor(op.sum, op.rest[1])
          /\ op'.ix = op.ix + 1 /\ op'.de = op.de - 1 /\ op'.head = op.head
          /\ SameWord /\ op'.left = op.left /\ op'.code = op.code
      BY <1>1, <1>6, <3>1, OpReads
    <3>3. CASE Loading
      <4>1. m' = [m EXCEPT !.cell[op.ix] = op.rest[1]]
        BY <2>1, <3>3 DEF Stored, Byte1
      <4>2. op.ix \in Nat /\ op.rest[1] \in Nat
        BY <1>1, <1>6, OpFields
      <4>3. m' \in Mem /\ SameHead /\ \A x \in 0..Limit - 1 : m'.cell[x] = IF x = op.ix THEN op.rest[1] ELSE m.cell[x]
        BY <1>1, <4>1, <4>2, MemWrites
      <4>4. Taken
        BY <3>2, <3>3, <4>3 DEF Taken
      <4>5. TypeOK'
        BY <1>1, <3>2, <4>3 DEF TypeOK, Reads
      <4>6. QED
        BY <1>1, <1>6, <3>2, <4>4, <4>5
    <3>4. CASE ~Loading
      <4>1. m' = m /\ m.cell[op.ix] = op.rest[1]
        BY <2>1, <2>3, <3>4 DEF Byte1
      <4>2. Taken
        BY <3>2, <3>4, <4>1 DEF Taken
      <4>3. TypeOK'
        BY <1>1, <3>2, <4>1 DEF TypeOK, Reads
      <4>4. QED
        BY <1>1, <1>6, <3>2, <4>2, <4>3
    <3>5. QED
      BY <3>3, <3>4
  <2>4. QED
    BY <2>2, <2>3
<1>7. QED
  BY <1>4, <1>5, <1>6
\* A failed block empties the dictionary if anything of it was stored.
LEMMA DataFailedDoes ==
  ASSUME TypeOK, DataFailed
  PROVE  /\ TypeOK' /\ op.pc = "data failed" /\ Reads /\ SameWord /\ op'.pc = "done"
         /\ (space /\ op'.code = Stopped) \/ (~space /\ op'.code = TapeError)
         /\ \/ /\ op.word = "LOAD-LIB" /\ op.de # op.head.length
               /\ m'.here = 0 /\ m'.latest = Cold /\ m'.cell = m.cell /\ m'.end = m.end
            \/ ~(op.word = "LOAD-LIB" /\ op.de # op.head.length) /\ m' = m
<1>1. op \in Op /\ m \in Mem /\ op.pc = "data failed" /\ Reads
  BY DEF TypeOK, DataFailed, Reads
<1>2. Ends(IF space THEN Stopped ELSE TapeError)
  BY DEF DataFailed
<1>3. /\ op' \in Op /\ op'.pc = "done" /\ SameWord
      /\ (space /\ op'.code = Stopped) \/ (~space /\ op'.code = TapeError)
  <2>1. CASE space
    BY <1>1, <1>2, <2>1, OpEnds
  <2>2. CASE ~space
    BY <1>1, <1>2, <2>2, OpEnds
  <2>3. QED
    BY <2>1, <2>2
<1>4. CASE op.word = "LOAD-LIB" /\ op.de # op.head.length
  <2>1. m' = [m EXCEPT !.here = 0, !.latest = Cold]
    BY <1>4 DEF DataFailed, Emptied
  <2>2. 0 \in 0..DictCap /\ Cold \in Nat
    BY TapeAssumption
  <2>3. m' \in Mem /\ m'.here = 0 /\ m'.latest = Cold /\ m'.cell = m.cell /\ m'.end = m.end
    BY <1>1, <2>1, <2>2, MemLoads
  <2>4. QED
    BY <1>1, <1>3, <1>4, <2>3 DEF TypeOK, Reads
<1>5. CASE ~(op.word = "LOAD-LIB" /\ op.de # op.head.length)
  <2>1. m' = m
    BY <1>5 DEF DataFailed
  <2>2. QED
    BY <1>1, <1>3, <1>5, <2>1 DEF TypeOK, Reads
<1>6. QED
  BY <1>4, <1>5
\* The image's last two cells are its CRC.
ImageWhole == LET n == op.head.length IN Cells(m.cell, n - 2, 2) = CrcBytes(Cells(m.cell, 0, n - 2))
\* A whole block: the CRC decides for LOAD-LIB, the last line is ended for LOAD-TEXT.
LEMMA LoadedDoes ==
  ASSUME TypeOK, PhasesSound, Loaded
  PROVE  /\ TypeOK' /\ op.pc = "loaded" /\ Reads /\ SameWord /\ op'.pc = "done"
         /\ \/ ~Loading /\ op'.code = 0 /\ m' = m
            \/ /\ op.word = "LOAD-LIB" /\ ImageWhole /\ op'.code = 0
               /\ m'.here = op.head.length - 2 /\ m'.latest = op.head.p2 /\ m'.cell = m.cell /\ m'.end = m.end
            \/ /\ op.word = "LOAD-LIB" /\ ~ImageWhole /\ op'.code = TapeError
               /\ m'.here = 0 /\ m'.latest = Cold /\ m'.cell = m.cell /\ m'.end = m.end
            \/ /\ op.word = "LOAD-TEXT" /\ op'.code = 0 /\ m'.here = m.here /\ m'.latest = m.latest
               /\ LET end == DictCap + op.head.length
                  IN  \/ /\ op.head.length = 0 \/ m.cell[end - 1] = CR \/ end = Limit
                         /\ m'.end = end /\ m'.cell = m.cell
                      \/ /\ end < Limit /\ m'.end = end + 1
                         /\ \A x \in 0..Limit - 1 : m'.cell[x] = IF x = end THEN CR ELSE m.cell[x]
<1>1. op \in Op /\ m \in Mem /\ op.pc = "loaded" /\ Reads
  BY DEF TypeOK, Loaded, Reads
<1>2. Acceptable(op.head) /\ op.head.length \in Nat /\ op.head.p2 \in Nat
  BY <1>1, OpFields DEF PhasesSound, TakenSteps, Heads
<1> DEFINE n == op.head.length
           end == DictCap + n
<1>3. ASSUME NEW c \in {0, TapeError}, Ends(c) PROVE op' \in Op /\ SameWord /\ op'.pc = "done" /\ op'.code = c
  BY <1>1, <1>3, OpEnds
<1>4. CASE ~Loading /\ Ends(0) /\ UNCHANGED m
  BY <1>1, <1>3, <1>4 DEF TypeOK, Reads
<1>5. CASE op.word = "LOAD-LIB" /\ ImageWhole /\ Ends(0) /\ m' = [m EXCEPT !.here = n - 2, !.latest = op.head.p2]
  <2>1. n - 2 \in 0..DictCap
    BY <1>2, <1>5, TapeAssumption DEF Acceptable
  <2>2. m' \in Mem /\ m'.here = n - 2 /\ m'.latest = op.head.p2 /\ m'.cell = m.cell /\ m'.end = m.end
    BY <1>1, <1>2, <1>5, <2>1, MemLoads
  <2>3. QED
    BY <1>1, <1>3, <1>5, <2>2 DEF TypeOK, Reads
<1>6. CASE op.word = "LOAD-LIB" /\ ~ImageWhole /\ Ends(TapeError) /\ m' = Emptied
  <2>1. 0 \in 0..DictCap /\ Cold \in Nat
    BY TapeAssumption
  <2>2. m' \in Mem /\ m'.here = 0 /\ m'.latest = Cold /\ m'.cell = m.cell /\ m'.end = m.end
    BY <1>1, <1>6, <2>1, MemLoads DEF Emptied
  <2>3. QED
    BY <1>1, <1>3, <1>6, <2>2 DEF TypeOK, Reads
<1>7. CASE op.word = "LOAD-TEXT" /\ Ends(0) /\ (n = 0 \/ m.cell[end - 1] = CR \/ end = Limit) /\ m' = [m EXCEPT !.end = end]
  <2>1. end \in DictCap..Limit
    BY <1>2, <1>7, TapeAssumption DEF Acceptable, Limit
  <2>2. m' \in Mem /\ m'.end = end /\ m'.cell = m.cell /\ m'.here = m.here /\ m'.latest = m.latest
    BY <1>1, <1>7, <2>1, MemEnds
  <2>3. QED
    BY <1>1, <1>3, <1>7, <2>2 DEF TypeOK, Reads
<1>8. CASE /\ op.word = "LOAD-TEXT" /\ Ends(0) /\ ~(n = 0 \/ m.cell[end - 1] = CR \/ end = Limit)
           /\ m' = [m EXCEPT !.cell[end] = CR, !.end = end + 1]
  <2>1. end \in DictCap..Limit - 1 /\ end < Limit
    BY <1>2, <1>8, TapeAssumption DEF Acceptable, Limit
  <2>2. /\ m' \in Mem /\ m'.end = end + 1 /\ m'.here = m.here /\ m'.latest = m.latest
        /\ \A x \in 0..Limit - 1 : m'.cell[x] = IF x = end THEN CR ELSE m.cell[x]
    <3> HIDE DEF n, end
    <3>1. QED
      BY <1>1, <1>8, <2>1, MemClosesLine
  <2>3. QED
    BY <1>1, <1>3, <1>8, <2>1, <2>2 DEF TypeOK, Reads
<1>9. QED
  BY <1>4, <1>5, <1>6, <1>7, <1>8 DEF Loaded, ImageWhole

\* SPACE goes down, and up.
LEMMA PressDoes ==
  ASSUME TypeOK, Press
  PROVE  /\ TypeOK' /\ op.pc \notin {"start", "done"} /\ scene' = scene /\ UNCHANGED <<m, op, tape, out>>
         /\ space' = TRUE /\ hist'.pressed = TRUE /\ hist'.seen = TRUE /\ hist'.start = hist.start
<1>1. hist \in Hist /\ hist' = [hist EXCEPT !.pressed = TRUE, !.seen = TRUE]
  BY DEF TypeOK, Press
<1>2. hist' \in Hist /\ hist'.pressed = TRUE /\ hist'.seen = TRUE /\ hist'.start = hist.start
  BY <1>1 DEF Hist
<1>3. QED
  BY <1>2 DEF TypeOK, Press
LEMMA ReleaseDoes ==
  ASSUME TypeOK, Release
  PROVE  TypeOK' /\ space' = FALSE /\ UNCHANGED <<scene, m, op, tape, out, hist>>
  BY DEF TypeOK, Release
LEMMA SceneFields ==
  ASSUME scene \in Scenes
  PROVE  SceneSound(scene)
  BY TapeAssumption
\* A word that begins.
LEMMA NewWord ==
  ASSUME NEW w \in Words, NEW n \in Name
  PROVE  /\ OpOf(w, n) \in Op /\ OpOf(w, n).pc = "start" /\ OpOf(w, n).word = w /\ OpOf(w, n).name = n
         /\ OpOf(w, n).left = Attempts /\ OpOf(w, n).code = 0
<1>1. Attempts \in 1..Attempts /\ "start" \in Pcs /\ <<>> \in Seq(Nat)
  BY TapeAssumption DEF Pcs
<1>2. QED
  BY <1>1, NoHeadIsOne DEF OpOf, Op
\* What was saved is played into a fresh machine.
LEMMA PlayBackDoes ==
  ASSUME TypeOK, PlayBack
  PROVE  /\ TypeOK' /\ op.pc = "done" /\ op.code = 0 /\ op.word \in Saving /\ UNCHANGED <<scene, out, space, hist>>
         /\ tape'.blocks = out /\ tape'.pos = 1 /\ tape'.late = 1 /\ tape'.lead = 1
         /\ op'.pc = "start" /\ op'.word \in {"LOAD-LIB", "LOAD-TEXT"} /\ op'.left = Attempts /\ op'.code = 0
<1>1. /\ scene \in Scenes /\ out \in Seq(Block) /\ m \in Mem
      /\ op.pc = "done" /\ op.code = 0 /\ op.word \in Saving /\ UNCHANGED <<scene, out, space, hist>>
  BY DEF TypeOK, PlayBack, Saving
<1>2. SceneSound(scene) /\ scene.back # "none"
  BY <1>1, SceneFields DEF PlayBack
<1>3. tape' = [blocks |-> out, pos |-> 1, late |-> 1, lead |-> 1]
  BY DEF PlayBack
<1>4. tape' \in Player /\ tape'.blocks = out /\ tape'.pos = 1 /\ tape'.late = 1 /\ tape'.lead = 1
  BY <1>1, <1>3 DEF Player
<1>5. m' = [cell |-> [x \in DOMAIN m.cell |-> 0], here |-> 0, latest |-> Cold, end |-> DictCap]
  BY DEF PlayBack
<1>6. m' \in Mem
  <2>1. DOMAIN m.cell = 0..Limit - 1 /\ DictCap \in DictCap..Limit /\ 0 \in 0..DictCap /\ Cold \in Nat
    BY <1>1, MemFields, TapeAssumption
  <2>2. QED
    BY <1>5, <2>1 DEF Mem
<1> DEFINE n == IF scene.wild THEN NoName ELSE scene.name
<1>7. op' = OpOf(scene.back, n)
  BY DEF PlayBack
<1>8. n \in Name /\ scene.back \in Words /\ scene.back \in {"LOAD-LIB", "LOAD-TEXT"}
  BY <1>2 DEF SceneSound, Name, Words
<1> HIDE DEF n
<1>9. op' \in Op /\ op'.pc = "start" /\ op'.word = scene.back /\ op'.left = Attempts /\ op'.code = 0
  BY <1>7, <1>8, NewWord
<1>10. TypeOK'
  BY <1>1, <1>4, <1>6, <1>9 DEF TypeOK
<1>11. QED
  BY <1>1, <1>4, <1>8, <1>9, <1>10
----------------------------------------------------------------------------
(* The invariants. *)
\* No scene verifies a dictionary that leaves no room for the CRC.
RoomToVerify == \A s \in Scenes : HasRoom(s)

\* A taken header stays acceptable.
LEMMA AcceptKept ==
  ASSUME SameWord, SameHead, op'.head = op.head, Matches(op.head), Acceptable(op.head)
  PROVE  Matches(op.head)' /\ Acceptable(op.head)'
<1>1. IsLib' = IsLib
  BY DEF IsLib, SameWord
<1>2. Matches(op.head)'
  BY <1>1 DEF Matches, SameWord
<1>3. Acceptable(op.head)'
  BY DEF Acceptable, SameWord, SameHead
<1>4. QED
  BY <1>2, <1>3
\* Each word goes through its own steps with a header it took.
LEMMA PhasesKept ==
  ASSUME TypeOK, PhasesSound, Sending, Next
  PROVE  PhasesSound'
<1> DEFINE Ends1 == op'.pc = "done"
           Room1 == op'.word = op.word /\ m'.here = m.here
<1>1. op.pc \in Pcs /\ op.word \in Words /\ op \in Op /\ m \in Mem
  BY OpFields DEF TypeOK
<1>2. ASSUME op'.pc = "done", op'.word = "VERIFY-LIB" => Room1 PROVE PhasesSound'
  BY <1>1, <1>2 DEF PhasesSound, SaveSteps, ReadSteps, TakenSteps
<1>3. ASSUME op'.pc \in SaveSteps, op.pc \in SaveSteps, Room1, op'.code = op.code PROVE PhasesSound'
  BY <1>3 DEF PhasesSound, SaveSteps, ReadSteps, TakenSteps, Saving
<1>4. ASSUME op'.pc \in {"find", "failed", "header"}, op.pc \in ReadSteps, Room1, op'.code = op.code PROVE PhasesSound'
  BY <1>4 DEF PhasesSound, SaveSteps, ReadSteps, TakenSteps, Saving
<1>5. ASSUME op'.pc \in TakenSteps, op.pc \in ReadSteps, op'.code = op.code,
             SameWord, SameHead, op'.head = op.head, Matches(op.head), Acceptable(op.head)
      PROVE  PhasesSound'
  <2>1. Matches(op.head)' /\ Acceptable(op.head)'
    BY <1>5, AcceptKept
  <2>2. QED
    BY <1>5, <2>1 DEF PhasesSound, SaveSteps, ReadSteps, TakenSteps, Saving, SameWord, SameHead
<1>6. CASE Start
  <2>1. op.pc = "start" /\ SameWord /\ op.code = 0
    BY <1>6, StartDoes DEF PhasesSound
  <2>2. CASE op'.pc = "done" /\ m' = m
    BY <1>2, <2>1, <2>2 DEF SameWord
  <2>3. CASE op.word \in Saving /\ op'.pc = "send header" /\ op'.code = op.code /\ m'.here = m.here /\ (op.word = "SAVE-LIB" => m.here + 2 <= DictCap)
    BY <2>1, <2>3 DEF PhasesSound, SaveSteps, ReadSteps, TakenSteps, Saving, SameWord
  <2>4. CASE op.word \notin Saving /\ op'.pc = "find" /\ op'.code = op.code /\ m'.here = m.here
    BY <2>1, <2>4 DEF PhasesSound, SaveSteps, ReadSteps, TakenSteps, Saving, SameWord
  <2>5. m' = WithCrc => m'.here = m.here
    BY <1>1, MemCrc DEF SameHead
  <2>6. QED
    BY <1>6, <2>2, <2>3, <2>4, <2>5, StartDoes DEF Saving
<1>7. CASE SendHeader
  BY <1>2, <1>3, <1>7, SendHeaderDoes DEF Idle, SaveSteps, SameWord
<1>8. CASE Gap
  BY <1>2, <1>3, <1>8, GapDoes DEF Idle, SaveSteps, SameWord
<1>9. CASE SendByte
  BY <1>2, <1>3, <1>9, SendByteDoes DEF Idle, SaveSteps, SameWord
<1>10. CASE Find
  BY <1>4, <1>10, FindDoes DEF Listens, ReadSteps, SameWord
<1>11. CASE SearchFailed
  BY <1>2, <1>4, <1>11, SearchFailedDoes DEF Looks, ReadSteps, SameWord
<1>12. CASE CheckHeader
  BY <1>2, <1>4, <1>5, <1>12, CheckHeaderDoes DEF Looks, ReadSteps, TakenSteps, SameWord, SameHead
<1>13. CASE DataBegins
  <2>1. op.pc = "data" /\ SameWord /\ SameHead /\ op'.pc \in {"byte", "data failed"} /\ op'.code = op.code /\ op'.head = op.head
    BY <1>13, DataBeginsDoes DEF Listens, SameHead
  <2>2. QED
    BY <1>5, <2>1 DEF PhasesSound, TakenSteps, ReadSteps
<1>14. CASE DataByte
  <2>1. /\ op.pc = "byte" /\ SameWord /\ SameHead /\ op'.pc \in {"byte", "data failed", "loaded"}
        /\ op'.code = op.code /\ op'.head = op.head
    BY <1>14, DataByteDoes DEF SameHead, Taken
  <2>2. QED
    BY <1>5, <2>1 DEF PhasesSound, TakenSteps, ReadSteps
<1>15. CASE DataFailed
  BY <1>2, <1>15, DataFailedDoes DEF SameWord
<1>16. CASE Loaded
  BY <1>2, <1>16, LoadedDoes DEF SameWord, Loading
<1>17. CASE PlayBack
  BY <1>17, PlayBackDoes DEF PhasesSound, SaveSteps, ReadSteps, TakenSteps
<1>18. CASE Press
  BY <1>18, PressDoes DEF PhasesSound, Matches, Acceptable, IsLib
<1>19. CASE Release
  BY <1>19, ReleaseDoes DEF PhasesSound, Matches, Acceptable, IsLib
<1>20. QED
  BY <1>6, <1>7, <1>8, <1>9, <1>10, <1>11, <1>12, <1>13, <1>14, <1>15, <1>16, <1>17, <1>18, <1>19 DEF Next, WordStep
\* What every step but a start and a play back leaves alone.
Rests ==
    /\ SameWord /\ SameTape /\ hist'.start = hist.start
    /\ op'.code \in {op.code, 0, Stopped, TapeError}
    /\ ~Loading => m' = m
    /\ op.pc = "start" => UNCHANGED <<op, m>>
    /\ op.pc # "start" => op'.pc # "start"
    /\ op.pc = "done" => UNCHANGED <<op, m, tape, out, hist>>
    /\ ~hist'.pressed => ~hist.pressed
\* The types hold on, and but for the word's start and the playback the word, the tape and what was at the start stay.
LEMMA TheRestStays ==
  ASSUME TypeOK, PhasesSound, Sending, Next
  PROVE  TypeOK' /\ (Start \/ PlayBack \/ Rests)
<1>1. CASE Start
  BY <1>1, StartDoes
<1>2. CASE SendHeader
  BY <1>2, SendHeaderDoes DEF Idle, SameTape, Rests
<1>3. CASE Gap
  BY <1>3, GapDoes DEF Idle, SameTape, Rests
<1>4. CASE SendByte
  BY <1>4, SendByteDoes DEF Idle, SameTape, Rests
<1>5. CASE Find
  BY <1>5, FindDoes DEF Listens, SameTape, Rests
<1>6. CASE SearchFailed
  BY <1>6, SearchFailedDoes DEF Looks, SameTape, Rests
<1>7. CASE CheckHeader
  BY <1>7, CheckHeaderDoes DEF Looks, SameTape, Rests
<1>8. CASE DataBegins
  BY <1>8, DataBeginsDoes DEF Listens, SameTape, Rests
<1>9. CASE DataByte
  BY <1>9, DataByteDoes DEF Reads, SameTape, Rests, Taken
<1>10. CASE DataFailed
  BY <1>10, DataFailedDoes DEF Reads, SameTape, Rests, Loading
<1>11. CASE Loaded
  BY <1>11, LoadedDoes DEF Reads, SameTape, Rests, Loading
<1>12. CASE PlayBack
  BY <1>12, PlayBackDoes
<1>13. CASE Press
  BY <1>13, PressDoes DEF SameTape, Rests, SameWord
<1>14. CASE Release
  BY <1>14, ReleaseDoes DEF SameTape, Rests, SameWord
<1>15. QED
  BY <1>1, <1>2, <1>3, <1>4, <1>5, <1>6, <1>7, <1>8, <1>9, <1>10, <1>11, <1>12, <1>13, <1>14 DEF Next, WordStep
\* Behind the dictionary that a LIB word saves or verifies stands its CRC.
CrcBehind == /\ m.here + 2 <= DictCap
             /\ m.cell[m.here] = CrcBytes(DictNow)[1] /\ m.cell[m.here + 1] = CrcBytes(DictNow)[2]
CrcSound == op.word \in {"SAVE-LIB", "VERIFY-LIB"} /\ op.pc # "start" /\ op.code # -8 => CrcBehind
\* STORAGE_LIB_CRC leaves the CRC behind the dictionary.
LEMMA CrcWritten ==
  ASSUME m \in Mem, m' = WithCrc, m.here + 2 <= DictCap
  PROVE  CrcBehind'
<1>1. /\ m'.here = m.here /\ m'.cell[m.here] = CrcBytes(DictNow)[1] /\ m'.cell[m.here + 1] = CrcBytes(DictNow)[2]
      /\ \A x \in 0..Limit - 1 : x # m.here /\ x # m.here + 1 => m'.cell[x] = m.cell[x]
  BY MemCrc DEF SameHead
<1>2. m.here \in Nat /\ m.here <= Limit
  BY MemFields
<1>3. \A k \in 1..m.here : m'.cell[0 + k - 1] = m.cell[0 + k - 1]
  <2> TAKE k \in 1..m.here
  <2>1. 0 + k - 1 \in 0..Limit - 1 /\ 0 + k - 1 # m.here /\ 0 + k - 1 # m.here + 1
    BY <1>2, MemFields
  <2>2. QED
    BY <1>1, <2>1, Zenon
<1>4. [k \in 1..m.here |-> m'.cell[0 + k - 1]] = [k \in 1..m.here |-> m.cell[0 + k - 1]]
  BY <1>3
<1>5. DictNow' = DictNow
  BY <1>1, <1>4 DEF DictNow, Cells
<1>6. QED
  BY <1>1, <1>5 DEF CrcBehind
\* And there it stays.
LEMMA CrcKept ==
  ASSUME TypeOK, PhasesSound, Sending, CrcSound, Next
  PROVE  CrcSound'
<1>1. CASE Start
  <2>1. op.word = "SAVE-LIB" => (m.here + 2 <= DictCap /\ m' = WithCrc) \/ op'.code = -8
    BY <1>1, StartDoes
  <2>2. op.word = "VERIFY-LIB" => m.here + 2 <= DictCap /\ m' = WithCrc
    BY <1>1, StartDoes DEF PhasesSound
  <2>3. SameWord /\ m \in Mem
    BY <1>1, StartDoes DEF TypeOK
  <2>4. QED
    BY <2>1, <2>2, <2>3, CrcWritten DEF CrcSound, SameWord
<1>2. CASE PlayBack
  BY <1>2, PlayBackDoes DEF CrcSound
<1>3. CASE Rests /\ op.word \in {"SAVE-LIB", "VERIFY-LIB"}
  <2>1. m' = m /\ op'.word = op.word /\ op'.code \in {op.code, 0, Stopped, TapeError} /\ ~(op'.pc # "start" /\ op.pc = "start")
    BY <1>3 DEF Rests, SameWord, Loading
  <2>2. CrcBehind' = CrcBehind
    BY <2>1 DEF CrcBehind, DictNow
  <2>3. CASE op.code = -8
    <3>1. op.pc = "done"
      BY <2>3 DEF PhasesSound
    <3>2. UNCHANGED op
      BY <1>3, <3>1 DEF Rests
    <3>3. QED
      BY <2>2, <3>2 DEF CrcSound
  <2>4. CASE op.code # -8
    BY <2>1, <2>2, <2>4 DEF CrcSound
  <2>5. QED
    BY <2>3, <2>4
<1>4. CASE Rests /\ op.word \notin {"SAVE-LIB", "VERIFY-LIB"}
  BY <1>4 DEF Rests, SameWord, CrcSound
<1>5. QED
  BY <1>1, <1>2, <1>3, <1>4, TheRestStays

\* SPACE is down only after it was pressed, and it was seen if the word stopped for it.
SpaceSound == (space => hist.seen /\ hist.pressed) /\ (op.code = Stopped => hist.seen)
\* -28 only for a SPACE that was seen.
LEMMA SpaceKept ==
  ASSUME TypeOK, PhasesSound, Sending, SpaceSound, Next
  PROVE  SpaceSound'
<1>0. Stopped # 0 /\ Stopped # TapeError /\ Stopped # -8
  BY DEF Stopped, TapeError
<1>a. ASSUME space' = space, hist' = hist, op'.code = Stopped => op.code = Stopped \/ space PROVE SpaceSound'
  BY <1>a DEF SpaceSound
<1>1. CASE Start
  <2>1. space' = space /\ hist'.seen = space /\ hist'.pressed = hist.pressed /\ op'.code # Stopped
    BY <1>0, <1>1, StartDoes DEF Elsewhere, PhasesSound
  <2>2. QED
    BY <2>1 DEF SpaceSound
<1>2. CASE SendHeader
  BY <1>0, <1>a, <1>2, SendHeaderDoes DEF Idle
<1>3. CASE Gap
  BY <1>0, <1>a, <1>3, GapDoes DEF Idle
<1>4. CASE SendByte
  <2>1. op.pc = "send byte" /\ Idle /\ (op'.code = op.code \/ op'.code = 0 \/ (op'.code = Stopped /\ space))
    BY <1>4, SendByteDoes
  <2>2. QED
    BY <1>0, <1>a, <2>1 DEF Idle
<1>5. CASE Find
  BY <1>0, <1>a, <1>5, FindDoes DEF Listens
<1>6. CASE SearchFailed
  BY <1>0, <1>a, <1>6, SearchFailedDoes DEF Looks
<1>7. CASE CheckHeader
  BY <1>0, <1>a, <1>7, CheckHeaderDoes DEF Looks
<1>8. CASE DataBegins
  BY <1>0, <1>a, <1>8, DataBeginsDoes DEF Listens
<1>9. CASE DataByte
  BY <1>0, <1>a, <1>9, DataByteDoes DEF Reads
<1>10. CASE DataFailed
  BY <1>0, <1>a, <1>10, DataFailedDoes DEF Reads
<1>11. CASE Loaded
  BY <1>0, <1>a, <1>11, LoadedDoes DEF Reads
<1>12. CASE PlayBack
  BY <1>0, <1>a, <1>12, PlayBackDoes
<1>13. CASE Press
  BY <1>13, PressDoes DEF SpaceSound
<1>14. CASE Release
  BY <1>14, ReleaseDoes DEF SpaceSound
<1>15. QED
  BY <1>1, <1>2, <1>3, <1>4, <1>5, <1>6, <1>7, <1>8, <1>9, <1>10, <1>11, <1>12, <1>13, <1>14 DEF Next, WordStep
\* What is to be sent does not change while it is.
LEMMA SavedKept ==
  ASSUME SameWord, m' = m
  PROVE  Image' = Image /\ SavedHeader' = SavedHeader
<1>1. IsLib' = IsLib
  BY DEF IsLib, SameWord
<1>2. Image' = Image
  BY <1>1 DEF Image, TextNow
<1>3. SavedHeader' = SavedHeader
  BY <1>1, <1>2 DEF SavedHeader, SameWord
<1>4. QED
  BY <1>2, <1>3
\* One block sent, and two.
LEMMA OutIsOne ==
  ASSUME NEW b \in Block, out = <<>>, out' = Append(out, b)
  PROVE  out' = <<b>> /\ DOMAIN out' = {1}
<1>1. Append(<<>>, b) = <<b>>
  OBVIOUS
<1>2. QED
  BY <1>1
LEMMA OutIsTwo ==
  ASSUME NEW b \in Block, NEW c \in Block, out = <<b>>, out' = Append(out, c)
  PROVE  out' = <<b, c>>
<1> DEFINE t == Append(<<b>>, c)
<1>1. t \in Seq(Block) /\ Len(t) = 2 /\ t[1] = b /\ t[2] = c
  OBVIOUS
<1> HIDE DEF t
<1>3. t = <<b, c>>
  <2> DEFINE u == <<b, c>>
  <2>1. u \in Seq(Block) /\ Len(u) = 2 /\ u[1] = b /\ u[2] = c
    OBVIOUS
  <2> HIDE DEF u
  <2>2. t = u
    BY <1>1, <2>1
  <2>3. QED
    BY <2>2 DEF u
<1>4. QED
  BY <1>3 DEF t
\* What has gone out is the header and the front of the image.
LEMMA SendingKept ==
  ASSUME TypeOK, PhasesSound, Sending, Next
  PROVE  Sending'
<1>1. ASSUME op.word \notin Saving, Rests PROVE Sending'
  BY <1>1 DEF Sending, Rests, SameWord
<1>2. CASE Start
  <2>1. SameWord /\ out' = out /\ op.pc = "start" /\ (op'.pc = "done" => op'.code = -8) /\ op'.pc \in {"done", "send header", "find"}
    BY <1>2, StartDoes DEF Elsewhere
  <2>2. CASE op.word \in Saving
    <3>1. out' = <<>>
      BY <2>1, <2>2 DEF Sending
    <3>2. \A k \in DOMAIN out' : FALSE
      BY <3>1
    <3>3. op'.pc # "gap" /\ op'.pc # "send byte"
      BY <2>1
    <3>4. op'.pc = "done" => op'.code # 0
      BY <2>1
    <3>5. QED
      BY <3>1, <3>2, <3>3, <3>4, Zenon DEF Sending
  <2>3. CASE op.word \notin Saving
    BY <2>1, <2>3 DEF Sending, SameWord
  <2>4. QED
    BY <2>2, <2>3
<1>3. CASE SendHeader
  <2>1. /\ op.pc = "send header" /\ m' = m /\ SameWord /\ op.word \in Saving /\ op \in Op /\ m \in Mem
        /\ op.word = "SAVE-LIB" => m.here + 2 <= DictCap
    BY <1>3, SendHeaderDoes DEF PhasesSound, SaveSteps, Idle, TypeOK
  <2>2. SavedHeader' = SavedHeader /\ SavedHeader \in Block /\ out = <<>> /\ [SavedHeader EXCEPT !.good = FALSE] \in Block
        /\ [SavedHeader EXCEPT !.good = FALSE].flag = FlagHeader
    BY <2>1, SavedKept, ImageTyped, HeadersAreBlocks DEF Sending
  <2>3. CASE op'.pc = "gap" /\ out' = Append(out, SavedHeader)
    <3>1. out' = <<SavedHeader'>>
      BY <2>2, <2>3, OutIsOne
    <3>2. QED
      BY <2>3, <3>1 DEF Sending
  <2>4. CASE op'.pc = "done" /\ op'.code = Stopped /\ out' = Append(out, [SavedHeader EXCEPT !.good = FALSE])
    <3> DEFINE h == [SavedHeader EXCEPT !.good = FALSE]
    <3> HIDE DEF h
    <3>1. out' = <<h>> /\ DOMAIN out' = {1} /\ h.flag = FlagHeader
      BY <2>2, <2>4, OutIsOne DEF h
    <3>2. \A k \in DOMAIN out' : out'[k].flag # FlagData
      BY <3>1 DEF FlagData, FlagHeader
    <3>3. op'.code # 0
      BY <2>4 DEF Stopped
    <3>4. QED
      BY <2>4, <3>2, <3>3 DEF Sending
  <2>5. QED
    BY <1>3, <2>3, <2>4, SendHeaderDoes
<1>4. CASE Gap
  <2>1. /\ op.pc = "gap" /\ m' = m /\ SameWord /\ op.word \in Saving /\ op \in Op /\ m \in Mem
        /\ op.word = "SAVE-LIB" => m.here + 2 <= DictCap
    BY <1>4, GapDoes DEF PhasesSound, SaveSteps, Idle, TypeOK
  <2>2. SavedHeader' = SavedHeader /\ Image' = Image /\ SavedHeader \in Block /\ Image \in Seq(Nat) /\ out = <<SavedHeader>>
        /\ SavedHeader.flag = FlagHeader
    BY <2>1, SavedKept, ImageTyped DEF Sending
  <2>3. CASE op'.pc = "send byte" /\ out' = Append(out, Opened)
    <3>1. Opened \in Block
      BY NoHeadIsOne DEF Opened, Block, FlagData
    <3>2. out' = <<SavedHeader, Opened>>
      BY <2>2, <2>3, <3>1, OutIsTwo
    <3>3. SubSeq(Image, 1, 0) = <<>> /\ 0 \in 0..Len(Image)
      BY <2>2
    <3>6. Opened = Sent(SubSeq(Image, 1, 0))
      BY <3>3 DEF Opened, Sent
    <3>4. \E n \in 0..Len(Image)' : out' = <<SavedHeader', Sent(SubSeq(Image', 1, n))>>
      BY <2>2, <3>2, <3>3, <3>6
    <3>5. QED
      BY <2>3, <3>4 DEF Sending, Sent
  <2>4. CASE op'.pc = "done" /\ op'.code = Stopped /\ out' = out
    <3>1. \A k \in DOMAIN out' : out'[k].flag # FlagData
      BY <2>2, <2>4 DEF FlagData, FlagHeader
    <3>2. op'.code # 0
      BY <2>4 DEF Stopped
    <3>3. QED
      BY <2>4, <3>1, <3>2 DEF Sending
  <2>5. QED
    BY <1>4, <2>3, <2>4, GapDoes
<1>5. CASE SendByte
  <2>1. m' = m /\ SameWord
    BY <1>5, SendByteDoes DEF Idle
  <2>2. SavedHeader' = SavedHeader /\ Image' = Image
    BY <2>1, SavedKept
  <2>3. CASE op'.pc = "send byte" /\ \E n \in 0..Len(Image) : out' = <<SavedHeader, Sent(SubSeq(Image, 1, n))>>
    BY <2>2, <2>3 DEF Sending, Sent
  <2>4. CASE op'.pc = "done" /\ op'.code = 0 /\ out' = <<SavedHeader, Data(FlagData, Image)>>
    BY <2>2, <2>4 DEF Sending
  <2>5. CASE /\ op'.pc = "done" /\ op'.code = Stopped
             /\ \A k \in DOMAIN out' : out'[k].flag = FlagData => ~out'[k].good
    <3>1. op'.code # 0
      BY <2>5 DEF Stopped
    <3>2. QED
      BY <2>5, <3>1 DEF Sending
  <2>6. QED
    BY <1>5, <2>3, <2>4, <2>5, SendByteDoes
<1>6. CASE Find
  BY <1>1, <1>6, TheRestStays, FindDoes DEF PhasesSound, ReadSteps, Start, PlayBack
<1>7. CASE SearchFailed
  BY <1>1, <1>7, TheRestStays, SearchFailedDoes DEF PhasesSound, ReadSteps, Start, PlayBack
<1>8. CASE CheckHeader
  BY <1>1, <1>8, TheRestStays, CheckHeaderDoes DEF PhasesSound, ReadSteps, Start, PlayBack
<1>9. CASE DataBegins
  BY <1>1, <1>9, TheRestStays, DataBeginsDoes DEF PhasesSound, ReadSteps, Start, PlayBack
<1>10. CASE DataByte
  BY <1>1, <1>10, TheRestStays, DataByteDoes DEF PhasesSound, ReadSteps, Start, PlayBack
<1>11. CASE DataFailed
  BY <1>1, <1>11, TheRestStays, DataFailedDoes DEF PhasesSound, ReadSteps, Start, PlayBack
<1>12. CASE Loaded
  BY <1>1, <1>12, TheRestStays, LoadedDoes DEF PhasesSound, ReadSteps, Start, PlayBack
<1>13. CASE PlayBack
  BY <1>13, PlayBackDoes DEF Sending, Saving
<1>14. ASSUME UNCHANGED <<op, m, out>> PROVE Sending'
  <2>1. SameWord /\ m' = m
    BY <1>14 DEF SameWord
  <2>2. SavedHeader' = SavedHeader /\ Image' = Image
    BY <2>1, SavedKept
  <2>3. QED
    BY <1>14, <2>2 DEF Sending, Sent
<1>15. CASE Press
  BY <1>14, <1>15, PressDoes
<1>16. CASE Release
  BY <1>14, <1>16, ReleaseDoes
<1>17. QED
  BY <1>2, <1>3, <1>4, <1>5, <1>6, <1>7, <1>8, <1>9, <1>10, <1>11, <1>12, <1>13, <1>15, <1>16 DEF Next, WordStep

\* Every good data block on the tape has its checksum.
FramedTape == \A k \in 1..Len(tape.blocks) : Framed(tape.blocks[k])
\* Every good data block on the tape has its checksum, the ones played back too.
LEMMA FramedKept ==
  ASSUME TypeOK, PhasesSound, Sending, CrcSound, FramedTape, Next
  PROVE  FramedTape'
<1>1. CASE SameTape
  BY <1>1 DEF FramedTape, SameTape
<1>2. CASE PlayBack
  <2>1. /\ op.pc = "done" /\ op.code = 0 /\ op.word \in Saving /\ op \in Op /\ m \in Mem /\ tape'.blocks = out
    BY <1>2, PlayBackDoes DEF TypeOK
  <2>2. op.word = "SAVE-LIB" => m.here + 2 <= DictCap
    BY <2>1 DEF CrcSound, CrcBehind
  <2>3. Image \in Seq(Nat) /\ SavedHeader.flag = FlagHeader
    BY <2>1, <2>2, ImageTyped
  <2>4. out = <<SavedHeader, Data(FlagData, Image)>>
    BY <2>1 DEF Sending
  <2>5. Framed(SavedHeader)
    BY <2>3 DEF Framed, FlagData, FlagHeader
  <2>6. Framed(Data(FlagData, Image))
    <3>1. FlagData \in Nat
      BY DEF FlagData
    <3>2. Checksum(FlagData, Image) \in Nat
      BY <2>3, <3>1, ChecksumGrows
    <3>3. Checksum(FlagData, Append(Image, Checksum(FlagData, Image))) = 0
      BY <2>3, <3>1, <3>2, ChecksumGrows, XorIsANumber
    <3>4. Append(Image, Checksum(FlagData, Image)) # <<>>
      BY <2>3, <3>2
    <3>5. Data(FlagData, Image).raw = Append(Image, Checksum(FlagData, Image))
      BY DEF Data
    <3>6. QED
      BY <3>3, <3>4, <3>5 DEF Framed
  <2>7. Len(out) = 2 /\ \A k \in 1..2 : Framed(out[k])
    <3> DEFINE d == Data(FlagData, Image)
    <3> HIDE DEF d
    <3>1. out = <<SavedHeader, d>> /\ Framed(SavedHeader) /\ Framed(d)
      BY <2>4, <2>5, <2>6 DEF d
    <3>2. Len(out) = 2 /\ out[1] = SavedHeader /\ out[2] = d
      BY <3>1
    <3>3. QED
      BY <3>1, <3>2
  <2>8. QED
    BY <2>1, <2>7 DEF FramedTape
<1>3. Start => tape' = tape
  BY StartDoes
<1>4. QED
  BY <1>1, <1>2, <1>3, TheRestStays DEF Rests, SameTape
\* The block d blocks back is the header that was found.
HeaderBehind(d) ==
    /\ tape.late = 0 /\ tape.pos - d \in 1..Len(tape.blocks)
    /\ tape.blocks[tape.pos - d].flag = FlagHeader /\ tape.blocks[tape.pos - d].good
    /\ op.head = tape.blocks[tape.pos - d].head
Got == op.ix - Base
Raw == tape.blocks[tape.pos - 1].raw
\* The receiver is in the block behind it, and memory has what it has read of it.
Receiving ==
    /\ HeaderBehind(2) /\ tape.pos - 1 \in 1..Len(tape.blocks) /\ tape.blocks[tape.pos - 1].flag = FlagData
    /\ Got \in Nat /\ Got + op.de = op.head.length /\ Got + Len(op.rest) = Len(Raw)
    /\ \A k \in 1..Len(op.rest) : op.rest[k] = Raw[Got + k]
    /\ op.sum = Checksum(FlagData, SubSeq(Raw, 1, Got))
    /\ \A k \in 1..Got : m.cell[Base + k - 1] = Raw[k]
Reading ==
    /\ op.pc = "header" => HeaderBehind(1)
    /\ op.pc = "data" => HeaderBehind(1) /\ op.ix = Base /\ op.de = op.head.length
    /\ op.pc = "byte" => Receiving
    /\ op.pc = "loaded" => Receiving /\ op.de = 0 /\ op.rest # <<>> /\ Xor(op.sum, op.rest[1]) = 0
    /\ op.pc = "data failed" => op.de <= op.head.length
\* An acceptable header's bytes fit the word's area.
LEMMA AreaIsMemory ==
  ASSUME op \in Op, m \in Mem, Acceptable(op.head), op.word \notin Saving,
         op.word = "VERIFY-LIB" => m.here + 2 <= DictCap
  PROVE  /\ Base \in Nat /\ Base + op.head.length <= Limit
         /\ op.head.length <= IF IsLib THEN DictCap ELSE TextCap
         /\ Base = IF IsLib THEN 0 ELSE DictCap
<1>1. op.head.length \in Nat /\ op.word \in Words
  BY OpFields DEF Heads
<1>2. op.head.length <= IF IsLib THEN DictCap ELSE TextCap
  <2>1. op.word \in {"LOAD-LIB", "LOAD-TEXT", "VERIFY-TEXT", "VERIFY-LIB"}
    BY <1>1 DEF Words, Saving
  <2>2. CASE op.word = "LOAD-LIB"
    BY <1>1, <2>2, TapeAssumption DEF Acceptable, IsLib
  <2>3. CASE op.word = "LOAD-TEXT"
    BY <1>1, <2>3, TapeAssumption DEF Acceptable, IsLib
  <2>4. CASE op.word = "VERIFY-TEXT"
    BY <1>1, <2>4, MemFields DEF Acceptable, IsLib
  <2>5. CASE op.word = "VERIFY-LIB"
    BY <1>1, <2>5, MemFields DEF Acceptable, IsLib
  <2>6. QED
    BY <2>1, <2>2, <2>3, <2>4, <2>5
<1>3. QED
  BY <1>1, <1>2, MemFields DEF Base
\* The area does not change under a word.
LEMMA BaseStays ==
  ASSUME SameWord
  PROVE  Base' = Base /\ IsLib' = IsLib /\ (op'.ix = op.ix => Got' = Got)
<1>1. IsLib' = IsLib
  BY DEF IsLib, SameWord
<1>2. QED
  BY <1>1 DEF Base, Got
\* The receiver goes on by one byte, and memory and checksum with it.
LEMMA ReadsOn ==
  ASSUME TypeOK, PhasesSound, Reading, DataByte, op'.pc # "done"
  PROVE  Reading'
<1>1. /\ op \in Op /\ m \in Mem /\ tape \in Player /\ op.pc = "byte" /\ Reads /\ SameWord /\ op'.head = op.head
  BY DataByteDoes DEF TypeOK
<1>2. Receiving /\ Acceptable(op.head) /\ op.word \notin Saving /\ (op.word = "VERIFY-LIB" => m.here + 2 <= DictCap)
  BY <1>1 DEF Reading, PhasesSound, TakenSteps, ReadSteps
<1>3. Base' = Base /\ (op'.ix = op.ix => Got' = Got) /\ Raw' = Raw
  BY <1>1, BaseStays DEF Reads, Raw
<1>4. /\ op.head.length \in Nat /\ op.ix \in Nat /\ op.de \in Nat /\ op.rest \in Seq(Nat) /\ Raw \in Seq(Nat)
      /\ Len(op.rest) \in Nat /\ Len(Raw) \in Nat /\ Got \in Nat
  <2>1. tape.pos - 1 \in 1..Len(tape.blocks) /\ Got \in Nat
    BY <1>2 DEF Receiving
  <2>2. tape.blocks[tape.pos - 1] \in Block
    BY <1>1, <2>1, TapeFields
  <2>3. Raw \in Seq(Nat)
    BY <2>2, BlockFields DEF Raw
  <2>4. op.head.length \in Nat /\ op.ix \in Nat /\ op.de \in Nat /\ op.rest \in Seq(Nat)
    BY <1>1, OpFields DEF Heads
  <2>5. QED
    BY <2>1, <2>3, <2>4
<1>11. Got + op.de = op.head.length /\ Got + Len(op.rest) = Len(Raw)
  BY <1>2 DEF Receiving
<1>12. Got \in Nat /\ op.de \in Nat /\ op.ix \in Nat /\ op.head.length \in Nat
  BY <1>4
<1>5. Base \in Nat /\ Base + op.head.length <= Limit /\ Limit \in Nat
  BY <1>1, <1>2, AreaIsMemory, MemFields
<1>6. HeaderBehind(2)' /\ tape'.pos - 1 \in 1..Len(tape'.blocks) /\ tape'.blocks[tape'.pos - 1].flag = FlagData
  BY <1>1, <1>2 DEF Reads, Receiving, HeaderBehind
<1>7. CASE op'.pc = "data failed" /\ op'.de = op.de
  <2>1. op.de <= op.head.length
    BY <1>2, <1>4 DEF Receiving
  <2>2. QED
    BY <1>1, <1>7, <2>1 DEF Reading
<1>8. CASE op'.pc = "loaded" /\ m' = m /\ SameRead /\ op.rest # <<>> /\ op.de = 0 /\ Xor(op.sum, op.rest[1]) = 0
  <2>1. Receiving'
    BY <1>2, <1>3, <1>6, <1>8 DEF Receiving, SameRead
  <2>2. QED
    BY <1>8, <2>1 DEF Reading, SameRead
<1>9. CASE op.rest # <<>> /\ op.de # 0 /\ Taken
  <2>1. /\ op'.pc = "byte" /\ op'.rest = Tail(op.rest) /\ op'.sum = Xor(op.sum, op.rest[1])
        /\ op'.ix = op.ix + 1 /\ op'.de = op.de - 1
    BY <1>9 DEF Taken
  <2>2. Got' = Got + 1 /\ Got' \in Nat /\ Got' + op'.de = op'.head.length
    <3>1. Got' = op'.ix - Base' /\ Got = op.ix - Base /\ Base' = Base /\ op'.head = op.head
      BY <1>1, <1>3 DEF Got
    <3>2. Got' = Got + 1
      BY <1>4, <1>5, <2>1, <3>1
    <3>3. Got' \in Nat
      BY <1>12, <3>2
    <3>4. op'.head.length = op.head.length
      BY <3>1
    <3>5. op'.de = op.de - 1
      BY <2>1
    <3>6. Got + op.de = op.head.length
      BY <1>11
    <3>7. Got' + op'.de = op'.head.length
      BY <1>12, <3>2, <3>4, <3>5, <3>6
    <3>8. QED
      BY <3>2, <3>3, <3>7
  <2>3. /\ Len(op'.rest) = Len(op.rest) - 1 /\ 1 \in 1..Len(op.rest)
        /\ \A k \in 1..Len(op'.rest) : op'.rest[k] = op.rest[k + 1] /\ k + 1 \in 1..Len(op.rest)
    BY <1>4, <1>9, <2>1
  <2>4. op.rest[1] = Raw[Got + 1] /\ Got + 1 \in 1..Len(Raw) /\ Got < Len(Raw)
    <3>1. op.rest[1] = Raw[Got + 1]
      BY <1>2, <2>3 DEF Receiving
    <3>2. Len(op.rest) \in Nat /\ Len(op.rest) >= 1
      BY <1>4, <2>3
    <3>3. QED
      BY <1>11, <1>12, <3>1, <3>2
  <2>5. \A k \in 1..Len(op'.rest) : op'.rest[k] = Raw[Got' + k]
    <3> TAKE k \in 1..Len(op'.rest)
    <3>1. op'.rest[k] = op.rest[k + 1] /\ k + 1 \in 1..Len(op.rest)
      BY <2>3
    <3>2. op.rest[k + 1] = Raw[Got + (k + 1)]
      BY <1>2, <3>1 DEF Receiving
    <3>3. Got + (k + 1) = Got' + k
      BY <1>4, <2>2, <2>3
    <3>4. QED
      BY <3>1, <3>2, <3>3
  <2>6. Got' + Len(op'.rest) = Len(Raw)
    <3>1. Got' = Got + 1
      BY <2>2
    <3>2. Len(op'.rest) = Len(op.rest) - 1
      BY <2>3
    <3>3. Len(op.rest) \in Nat /\ Got \in Nat
      BY <1>4
    <3>4. Got + Len(op.rest) = Len(Raw)
      BY <1>11
    <3>5. \A g, n \in Nat : (g + 1) + (n - 1) = g + n
      OBVIOUS
    <3>6. (Got + 1) + (Len(op.rest) - 1) = Got + Len(op.rest)
      BY <3>3, <3>5
    <3>7. QED
      BY <3>1, <3>2, <3>4, <3>6, Zenon
  <2>7. op'.sum = Checksum(FlagData, SubSeq(Raw, 1, Got'))
    <3> DEFINE s == SubSeq(Raw, 1, Got)
    <3>1. s \in Seq(Nat) /\ Append(s, Raw[Got + 1]) = SubSeq(Raw, 1, Got + 1) /\ Raw[Got + 1] \in Nat
      BY <1>4, <2>4, OneMore
    <3>2. FlagData \in Nat
      BY DEF FlagData
    <3>3. op.sum = Checksum(FlagData, s)
      BY <1>2 DEF Receiving
    <3> HIDE DEF s
    <3>4. Checksum(FlagData, Append(s, Raw[Got + 1])) = Xor(Checksum(FlagData, s), Raw[Got + 1])
      BY <3>1, <3>2, ChecksumGrows
    <3>5. QED
      BY <2>1, <2>2, <2>4, <3>1, <3>3, <3>4
  <2>8. Base + Got = op.ix /\ op.ix < Limit
    <3>1. Got = op.ix - Base
      BY DEF Got
    <3>2. Base + Got = op.ix
      BY <1>4, <1>5, <3>1
    <3>3. op.de # 0 /\ op.de \in Nat /\ Got \in Nat /\ op.head.length \in Nat
      BY <1>9, <1>12
    <3>4. Got + op.de = op.head.length
      BY <1>11
    <3>5. Got < op.head.length
      BY <3>3, <3>4
    <3>6. QED
      BY <1>5, <3>2, <3>3, <3>5
  <2>9. \A k \in 1..Got' : m'.cell[Base + k - 1] = Raw[k]
    <3> TAKE k \in 1..Got'
    <3>1. Base + k - 1 \in 0..Limit - 1 /\ (k \in 1..Got \/ (k = Got + 1 /\ Base + k - 1 = op.ix))
      <4>1. Got' = Got + 1 /\ Got \in Nat /\ op.ix \in Nat /\ Base \in Nat
        BY <1>4, <1>5, <2>2
      <4>2. QED
        BY <1>5, <2>8, <4>1
    <3>2. CASE k \in 1..Got
      <4>1. m.cell[Base + k - 1] = Raw[k] /\ Base + k - 1 # op.ix
        BY <1>2, <1>4, <1>5, <2>8, <3>2 DEF Receiving
      <4>2. QED
        BY <1>9, <3>1, <4>1 DEF Taken
    <3>3. CASE k = Got + 1 /\ Base + k - 1 = op.ix
      <4>1. m'.cell[op.ix] = op.rest[1]
        BY <1>9, <3>1, <3>3 DEF Taken
      <4>2. QED
        BY <2>4, <3>3, <4>1
    <3>4. QED
      BY <3>1, <3>2, <3>3
  <2>10. Receiving'
    BY <1>3, <1>6, <2>2, <2>5, <2>6, <2>7, <2>9 DEF Receiving
  <2>11. QED
    BY <2>1, <2>10 DEF Reading
<1>10. QED
  BY <1>7, <1>8, <1>9, DataByteDoes
\* The receiver is in the block behind the header it took, and memory has what it read of it.
LEMMA ReadingKept ==
  ASSUME TypeOK, PhasesSound, Sending, Reading, Next
  PROVE  Reading'
<1>1. ASSUME op'.pc \notin {"header", "data", "byte", "loaded", "data failed"} PROVE Reading'
  BY <1>1 DEF Reading
<1>2. CASE Start
  BY <1>1, <1>2, StartDoes
<1>3. CASE SendHeader
  BY <1>1, <1>3, SendHeaderDoes
<1>4. CASE Gap
  BY <1>1, <1>4, GapDoes
<1>5. CASE SendByte
  BY <1>1, <1>5, SendByteDoes
<1>6. CASE Find
  <2>1. CASE op'.pc = "header" /\ TapeMoves /\ ~Silence /\ NextBlock.flag = FlagHeader /\ NextBlock.good /\ op'.head = NextBlock.head
    <3>1. tape'.late = 0 /\ tape.pos \in 1..Len(tape.blocks) /\ tape'.pos = tape.pos + 1 /\ tape'.blocks = tape.blocks
      BY <2>1, TapeGoesOn DEF TypeOK, SameTape
    <3>2. tape'.pos - 1 = tape.pos
      BY <3>1
    <3>3. HeaderBehind(1)'
      BY <2>1, <3>1, <3>2 DEF HeaderBehind, NextBlock
    <3>4. QED
      BY <2>1, <3>3 DEF Reading
  <2>2. CASE op'.pc = "failed"
    BY <1>1, <2>2
  <2>3. QED
    BY <1>6, <2>1, <2>2, FindDoes
<1>7. CASE SearchFailed
  BY <1>1, <1>7, SearchFailedDoes
<1>8. CASE CheckHeader
  <2>1. CASE op'.pc = "data" /\ op'.head = op.head /\ op'.de = op.head.length /\ op'.ix = Base
    <3>1. tape' = tape /\ Base' = Base /\ HeaderBehind(1)
      BY <1>8, CheckHeaderDoes, BaseStays DEF Looks, Reading
    <3>2. HeaderBehind(1)'
      BY <2>1, <3>1 DEF HeaderBehind
    <3>3. QED
      BY <2>1, <3>1, <3>2 DEF Reading
  <2>2. CASE op'.pc \in {"done", "find"}
    BY <1>1, <2>2
  <2>3. QED
    BY <1>8, <2>1, <2>2, CheckHeaderDoes
<1>9. CASE DataBegins
  <2>1. /\ op.pc = "data" /\ op'.head = op.head /\ op'.ix = op.ix /\ op'.de = op.de /\ SameWord /\ m' = m
        /\ HeaderBehind(1) /\ op.ix = Base /\ op.de = op.head.length
    BY <1>9, DataBeginsDoes DEF Listens, Reading
  <2>2. op.head.length \in Nat /\ Base \in Nat /\ FlagData \in Nat
    BY OpFields, TapeAssumption DEF TypeOK, Heads, Base, FlagData
  <2>3. CASE op'.pc = "data failed"
    <3>1. op'.de = op.head.length /\ op'.head.length = op.head.length
      BY <2>1
    <3>2. op'.de <= op'.head.length
      BY <2>2, <3>1
    <3>3. QED
      BY <2>3, <3>2 DEF Reading
  <2>4. CASE op'.pc = "byte" /\ TapeMoves /\ ~Silence /\ NextBlock.flag = FlagData /\ op'.rest = NextBlock.raw /\ op'.sum = FlagData
    <3>1. tape'.late = 0 /\ tape.pos \in 1..Len(tape.blocks) /\ tape'.pos = tape.pos + 1 /\ tape'.blocks = tape.blocks
      BY <2>4, TapeGoesOn DEF TypeOK, SameTape
    <3>2. tape'.pos - 1 = tape.pos /\ tape'.pos - 2 = tape.pos - 1
      BY <3>1
    <3>3. HeaderBehind(2)'
      BY <2>1, <3>1, <3>2 DEF HeaderBehind
    <3>4. Raw' = NextBlock.raw /\ Raw' \in Seq(Nat) /\ tape'.blocks[tape'.pos - 1].flag = FlagData
      BY <2>4, <3>1, <3>2, TapeFields, BlockFields DEF Raw, NextBlock, TypeOK
    <3>5. Got' = Got /\ Got = 0
      BY <2>1, <2>2, BaseStays DEF Got
    <3>6. SubSeq(Raw', 1, 0) = <<>> /\ Checksum(FlagData, <<>>) = FlagData
      BY <2>2, <3>4, ChecksumGrows, WholeOne
    <3>7. Got' + op'.de = op'.head.length
      BY <2>1, <2>2, <3>5
    <3>8. op'.rest = Raw' /\ 0 + Len(Raw') = Len(Raw') /\ \A k \in 1..Len(Raw') : 0 + k = k
      BY <2>4, <3>4
    <3>9. op'.sum = Checksum(FlagData, SubSeq(Raw', 1, Got'))
      BY <2>4, <3>5, <3>6
    <3>10. Receiving'
      BY <3>1, <3>2, <3>3, <3>4, <3>5, <3>7, <3>8, <3>9 DEF Receiving
    <3>11. QED
      BY <2>4, <3>10 DEF Reading
  <2>5. QED
    BY <1>9, <2>3, <2>4, DataBeginsDoes
<1>10. CASE DataByte
  BY <1>10, ReadsOn, DataByteDoes DEF Taken
<1>11. CASE DataFailed
  BY <1>1, <1>11, DataFailedDoes
<1>12. CASE Loaded
  BY <1>1, <1>12, LoadedDoes
<1>13. CASE PlayBack
  BY <1>1, <1>13, PlayBackDoes
<1>14. ASSUME UNCHANGED <<m, op, tape>> PROVE Reading'
  <2>1. Base' = Base /\ Got' = Got /\ Raw' = Raw
    BY <1>14, BaseStays DEF SameWord, Raw
  <2>2. (HeaderBehind(1) => HeaderBehind(1)') /\ (HeaderBehind(2) => HeaderBehind(2)')
    BY <1>14 DEF HeaderBehind
  <2>3. Receiving => Receiving'
    BY <1>14, <2>1, <2>2 DEF Receiving
  <2>4. QED
    <3>1. op' = op
      BY <1>14
    <3>2. QED
      BY <2>1, <2>2, <2>3, <3>1, Zenon DEF Reading
<1>15. CASE Press
  BY <1>14, <1>15, PressDoes
<1>16. CASE Release
  BY <1>14, <1>16, ReleaseDoes
<1>17. QED
  BY <1>2, <1>3, <1>4, <1>5, <1>6, <1>7, <1>8, <1>9, <1>10, <1>11, <1>12, <1>13, <1>15, <1>16 DEF Next, WordStep
\* What of the memory at the start still stands.
TextStands == m.end = hist.start.end /\ \A x \in DictCap..Limit - 1 : m.cell[x] = hist.start.cell[x]
DictStands == /\ m.here = hist.start.here /\ m.latest = hist.start.latest
              /\ \A x \in 0..DictCap - 1 : m.cell[x] = hist.start.cell[x]
AllButCrc == /\ m.here = hist.start.here /\ m.latest = hist.start.latest /\ m.end = hist.start.end
             /\ \A x \in 0..Limit - 1 : (x # m.here /\ x # m.here + 1) \/ x >= DictCap => m.cell[x] = hist.start.cell[x]
\* Nothing of the block has been stored yet.
Untouched == \/ op.pc \in {"find", "failed", "header", "data"}
             \/ op.pc \in {"byte", "data failed"} /\ op.de = op.head.length
Failed == op.pc = "done" /\ op.code # 0
Kept ==
    op.pc # "start" =>
      /\ op.word \in {"SAVE-TEXT", "VERIFY-TEXT"} => m = hist.start
      /\ op.word \in {"SAVE-LIB", "VERIFY-LIB"} => AllButCrc
      /\ op.word = "LOAD-LIB" => /\ TextStands
                                 /\ Untouched => m = hist.start
                                 /\ Failed => m = hist.start \/ (m.here = 0 /\ m.latest = Cold)
      /\ op.word = "LOAD-TEXT" => /\ DictStands
                                  /\ op.pc # "done" \/ op.code # 0 => m.end = hist.start.end
\* The word's start, and a stored byte, leave the rest of memory.
LEMMA StartKeeps ==
  ASSUME TypeOK, PhasesSound, Start
  PROVE  Kept'
<1>1. /\ SameWord /\ hist'.start = m /\ m \in Mem /\ op.word \in Words
      /\ \/ m' = m
         \/ m' = WithCrc /\ op.word \in {"SAVE-LIB", "VERIFY-LIB"} /\ m.here + 2 <= DictCap
  BY StartDoes, OpFields DEF TypeOK, PhasesSound
<1>2. CASE m' = m
  <2>1. m' = hist'.start
    BY <1>1, <1>2
  <2>2. TextStands' /\ DictStands' /\ AllButCrc'
    BY <2>1 DEF TextStands, DictStands, AllButCrc
  <2>3. QED
    BY <2>1, <2>2 DEF Kept
<1>3. CASE m' = WithCrc /\ op.word \in {"SAVE-LIB", "VERIFY-LIB"} /\ m.here + 2 <= DictCap
  <2>1. SameHead /\ \A x \in 0..Limit - 1 : x # m.here /\ x # m.here + 1 => m'.cell[x] = m.cell[x]
    BY <1>1, <1>3, MemCrc
  <2>2. \A x \in 0..Limit - 1 : x >= DictCap => x # m.here /\ x # m.here + 1
    BY <1>1, <1>3, MemFields
  <2>3. AllButCrc'
    BY <1>1, <2>1, <2>2 DEF AllButCrc, SameHead
  <2>4. QED
    BY <1>1, <1>3, <2>3 DEF Kept, SameWord
<1>4. QED
  BY <1>1, <1>2, <1>3
LEMMA StoredKeeps ==
  ASSUME TypeOK, PhasesSound, Reading, Kept, DataByte, Loading
  PROVE  Kept'
<1>1. op \in Op /\ m \in Mem /\ op.pc = "byte" /\ Reads /\ SameWord /\ op'.head = op.head
  BY DataByteDoes DEF TypeOK
<1>2. Receiving /\ Acceptable(op.head) /\ op.word \notin Saving /\ op.word # "VERIFY-LIB" /\ hist'.start = hist.start
  BY <1>1 DEF Reading, PhasesSound, TakenSteps, ReadSteps, Loading, Reads, Saving
<1>3. CASE m' = m /\ op'.de = op.de /\ op'.pc \in {"data failed", "loaded"}
  <2>1. Untouched' => Untouched
    BY <1>1, <1>3 DEF Untouched
  <2>2. (TextStands => TextStands') /\ (DictStands => DictStands') /\ ~Failed'
    BY <1>2, <1>3 DEF TextStands, DictStands, Failed
  <2>3. QED
    BY <1>1, <1>2, <1>3, <2>1, <2>2 DEF Kept, Loading, SameWord
<1>4. CASE Taken /\ op.de # 0
  <2>1. /\ op'.de = op.de - 1 /\ op'.pc = "byte" /\ SameHead
        /\ \A x \in 0..Limit - 1 : m'.cell[x] = IF x = op.ix THEN op.rest[1] ELSE m.cell[x]
    BY <1>4 DEF Taken, Loading
  <2>2. Base \in Nat /\ op.head.length <= (IF IsLib THEN DictCap ELSE TextCap) /\ Base = IF IsLib THEN 0 ELSE DictCap
    BY <1>1, <1>2, AreaIsMemory
  <2>3. Got \in Nat /\ Got + op.de = op.head.length /\ op.de \in Nat /\ op.ix \in Nat /\ op.head.length \in Nat
    BY <1>1, <1>2, OpFields DEF Receiving, Heads
  <2>4. op.ix = Base + Got /\ Got < op.head.length
    <3>1. Got = op.ix - Base
      BY DEF Got
    <3>2. op.ix = Base + Got
      BY <2>2, <2>3, <3>1
    <3>3. Got < op.head.length
      BY <1>4, <2>3
    <3>4. QED
      BY <3>2, <3>3
  <2>5. op'.de # op'.head.length
    BY <1>1, <2>1, <2>3
  <2>6. DictCap \in Nat /\ Limit \in Nat /\ Limit >= DictCap
    BY <1>1, MemFields
  <2>7. CASE op.word = "LOAD-LIB"
    <3>1. op.ix < DictCap
      BY <2>2, <2>3, <2>4, <2>6, <2>7 DEF IsLib
    <3>2. \A x \in DictCap..Limit - 1 : m'.cell[x] = m.cell[x]
      BY <2>1, <2>6, <3>1
    <3>3. TextStands'
      BY <1>1, <1>2, <2>1, <2>7, <3>2 DEF Kept, TextStands, SameHead
    <3>4. ~Untouched' /\ ~Failed'
      BY <2>1, <2>5 DEF Untouched, Failed
    <3>5. QED
      BY <1>1, <2>7, <3>3, <3>4 DEF Kept, SameWord
  <2>8. CASE op.word = "LOAD-TEXT"
    <3>1. op.ix >= DictCap
      BY <2>2, <2>3, <2>4, <2>6, <2>8 DEF IsLib
    <3>2. \A x \in 0..DictCap - 1 : m'.cell[x] = m.cell[x]
      BY <2>1, <2>3, <2>6, <3>1
    <3>3. DictStands' /\ m'.end = hist'.start.end
      BY <1>1, <1>2, <2>1, <2>8, <3>2 DEF Kept, DictStands, SameHead
    <3>4. QED
      BY <1>1, <2>8, <3>3 DEF Kept, SameWord
  <2>9. QED
    BY <2>7, <2>8 DEF Loading
<1>5. QED
  BY <1>3, <1>4, DataByteDoes DEF SameRead
\* What each word leaves alone stays as it was at the start.
LEMMA KeptKept ==
  ASSUME TypeOK, PhasesSound, Sending, Reading, Kept, Next
  PROVE  Kept'
<1>1. CASE Start
  BY <1>1, StartKeeps
<1>2. CASE PlayBack
  BY <1>2, PlayBackDoes DEF Kept
<1>3. ASSUME Rests, op.pc # "start", ~Loading PROVE Kept'
  <2>1. m' = m /\ hist'.start = hist.start /\ SameWord
    BY <1>3 DEF Rests
  <2>2. AllButCrc => AllButCrc'
    BY <2>1 DEF AllButCrc
  <2>3. QED
    BY <1>3, <2>1, <2>2 DEF Kept, Loading, SameWord
<1>4. ASSUME Loading, m' = m, hist'.start = hist.start, SameWord, op.pc # "start", op.pc # "done",
             Untouched, op'.pc \in {"find", "failed", "header", "data", "byte", "data failed", "done"},
             op'.pc = "done" => op'.code # 0
      PROVE  Kept'
  <2>1. (TextStands => TextStands') /\ (DictStands => DictStands')
    BY <1>4 DEF TextStands, DictStands
  <2>2. QED
    BY <1>4, <2>1 DEF Kept, Loading, SameWord
<1>5. Stopped # 0 /\ TapeError # 0
  BY DEF Stopped, TapeError
<1>6. CASE Loading /\ Find
  BY <1>4, <1>6, FindDoes DEF Listens, Untouched
<1>7. CASE Loading /\ SearchFailed
  BY <1>4, <1>5, <1>7, SearchFailedDoes DEF Looks, Untouched
<1>8. CASE Loading /\ CheckHeader
  BY <1>4, <1>5, <1>8, CheckHeaderDoes DEF Looks, Untouched
<1>9. CASE Loading /\ DataBegins
  BY <1>4, <1>9, DataBeginsDoes DEF Listens, Untouched
<1>10. CASE Loading /\ DataByte
  BY <1>10, StoredKeeps
<1>11. CASE Loading /\ DataFailed
  <2>1. /\ op.pc = "data failed" /\ hist'.start = hist.start /\ SameWord /\ op'.pc = "done" /\ op'.code # 0
        /\ \/ /\ op.word = "LOAD-LIB" /\ m'.here = 0 /\ m'.latest = Cold /\ m'.cell = m.cell /\ m'.end = m.end
           \/ op.word = "LOAD-LIB" /\ op.de = op.head.length /\ m' = m
           \/ op.word = "LOAD-TEXT" /\ m' = m
    BY <1>5, <1>11, DataFailedDoes DEF Reads, Loading
  <2>2. CASE op.word = "LOAD-LIB" /\ m'.here = 0 /\ m'.latest = Cold /\ m'.cell = m.cell /\ m'.end = m.end
    <3>1. TextStands'
      BY <2>1, <2>2 DEF Kept, TextStands
    <3>2. QED
      BY <2>1, <2>2, <3>1 DEF Kept, SameWord, Untouched
  <2>3. CASE op.word = "LOAD-LIB" /\ op.de = op.head.length /\ m' = m
    <3>1. Untouched
      BY <2>1, <2>3 DEF Untouched
    <3>2. QED
      BY <1>4, <1>11, <2>1, <2>3, <3>1
  <2>4. CASE op.word = "LOAD-TEXT" /\ m' = m
    <3>1. DictStands => DictStands'
      BY <2>1, <2>4 DEF DictStands
    <3>2. QED
      BY <2>1, <2>4, <3>1 DEF Kept, SameWord
  <2>5. QED
    BY <2>1, <2>2, <2>3, <2>4
<1>12. CASE Loading /\ Loaded
  <2>1. op.pc = "loaded" /\ hist'.start = hist.start /\ SameWord /\ op'.pc = "done" /\ m \in Mem /\ op \in Op
    BY <1>12, LoadedDoes DEF Reads, TypeOK
  <2>2. CASE op.word = "LOAD-LIB"
    <3>1. m'.cell = m.cell /\ m'.end = m.end /\ (op'.code = 0 \/ (m'.here = 0 /\ m'.latest = Cold))
      BY <1>12, <2>2, LoadedDoes DEF Loading
    <3>2. TextStands'
      BY <2>1, <2>2, <3>1 DEF Kept, TextStands
    <3>3. QED
      BY <2>1, <2>2, <3>1, <3>2 DEF Kept, SameWord, Untouched, Failed
  <2>3. CASE op.word = "LOAD-TEXT"
    <3>1. op.head.length \in Nat /\ DictCap \in Nat /\ Limit \in Nat /\ DictCap <= Limit
      BY <2>1, OpFields, MemFields DEF Heads
    <3>2. op'.code = 0 /\ m'.here = m.here /\ m'.latest = m.latest
      BY <1>12, <2>3, LoadedDoes DEF Loading
    <3>3. \A x \in 0..DictCap - 1 : m'.cell[x] = m.cell[x]
      <4> TAKE x \in 0..DictCap - 1
      <4>1. x \in 0..Limit - 1 /\ x # DictCap + op.head.length
        BY <3>1
      <4>2. m'.cell = m.cell \/ \A y \in 0..Limit - 1 : m'.cell[y] = IF y = DictCap + op.head.length THEN CR ELSE m.cell[y]
        BY <1>12, <2>3, LoadedDoes DEF Loading
      <4>3. QED
        BY <4>1, <4>2
    <3>4. DictStands'
      BY <2>1, <2>3, <3>2, <3>3 DEF Kept, DictStands
    <3>5. QED
      BY <2>1, <2>3, <3>2, <3>4 DEF Kept, SameWord
  <2>4. QED
    BY <1>12, <2>2, <2>3 DEF Loading
<1>13. ASSUME UNCHANGED <<op, m>>, hist'.start = hist.start PROVE Kept'
  <2>1. (TextStands => TextStands') /\ (DictStands => DictStands') /\ (AllButCrc => AllButCrc') /\ (Untouched' => Untouched) /\ (Failed' => Failed)
    BY <1>13 DEF TextStands, DictStands, AllButCrc, Untouched, Failed
  <2>2. QED
    BY <1>13, <2>1 DEF Kept
<1>14. CASE Press
  BY <1>13, <1>14, PressDoes
<1>15. CASE Release
  BY <1>13, <1>15, ReleaseDoes
<1>16. CASE op.word \in Saving /\ (SendHeader \/ Gap \/ SendByte)
  BY <1>3, <1>16, TheRestStays DEF SendHeader, Gap, SendByte, Start, PlayBack, Loading, Saving
<1>17. CASE ~Loading /\ (Find \/ SearchFailed \/ CheckHeader \/ DataBegins \/ DataByte \/ DataFailed \/ Loaded)
  BY <1>3, <1>17, TheRestStays DEF Find, SearchFailed, CheckHeader, DataBegins, DataByte, DataFailed, Loaded, Start, PlayBack
<1>18. SendHeader \/ Gap \/ SendByte => op.word \in Saving
  BY DEF SendHeader, Gap, SendByte, PhasesSound, SaveSteps
<1>19. QED
  BY <1>1, <1>2, <1>6, <1>7, <1>8, <1>9, <1>10, <1>11, <1>12, <1>14, <1>15, <1>16, <1>17, <1>18 DEF Next, WordStep
----------------------------------------------------------------------------
(* What was read is what memory has. *)
LEMMA SeqsEqual ==
  ASSUME NEW s \in Seq(Nat), NEW t \in Seq(Nat), Len(s) = Len(t), \A k \in 1..Len(s) : s[k] = t[k]
  PROVE  s = t
  OBVIOUS
\* Stretches of memory as sequences.
LEMMA CellsFields ==
  ASSUME NEW c \in [0..Limit - 1 -> Nat], NEW from \in Nat, NEW n \in Nat, from + n <= Limit, Limit \in Nat
  PROVE  /\ Cells(c, from, n) \in Seq(Nat) /\ Len(Cells(c, from, n)) = n
         /\ \A k \in 1..n : Cells(c, from, n)[k] = c[from + k - 1]
<1>1. \A k \in 1..n : from + k - 1 \in 0..Limit - 1
  OBVIOUS
<1>2. \A k \in 1..n : c[from + k - 1] \in Nat
  BY <1>1
<1>3. [k \in 1..n |-> c[from + k - 1]] \in Seq(Nat) /\ Len([k \in 1..n |-> c[from + k - 1]]) = n
  BY <1>2
<1>4. QED
  BY <1>3 DEF Cells
LEMMA BothFields ==
  ASSUME NEW s \in Seq(Nat), NEW t \in Seq(Nat)
  PROVE  /\ s \o t \in Seq(Nat) /\ Len(s \o t) = Len(s) + Len(t)
         /\ \A k \in 1..Len(s) : (s \o t)[k] = s[k]
         /\ \A k \in 1..Len(t) : (s \o t)[Len(s) + k] = t[k]
  OBVIOUS
LEMMA CellsSplit ==
  ASSUME NEW c \in [0..Limit - 1 -> Nat], NEW n \in Nat, n + 2 <= Limit, Limit \in Nat, NEW t \in Seq(Nat),
         Len(t) = 2, c[n] = t[1], c[n + 1] = t[2]
  PROVE  Cells(c, 0, n + 2) = Cells(c, 0, n) \o t
<1> DEFINE u == Cells(c, 0, n + 2)
           s == Cells(c, 0, n)
           v == s \o t
<1>1. u \in Seq(Nat) /\ Len(u) = n + 2 /\ \A k \in 1..n + 2 : u[k] = c[0 + k - 1]
  <2>1. 0 \in Nat /\ n + 2 \in Nat /\ 0 + (n + 2) <= Limit
    OBVIOUS
  <2> HIDE DEF u
  <2>2. QED
    BY <2>1, CellsFields DEF u
<1>2. s \in Seq(Nat) /\ Len(s) = n /\ \A k \in 1..n : s[k] = c[0 + k - 1]
  <2>1. 0 \in Nat /\ 0 + n <= Limit
    OBVIOUS
  <2> HIDE DEF s
  <2>2. QED
    BY <2>1, CellsFields DEF s
<1> HIDE DEF u, s
<1>3. v \in Seq(Nat) /\ Len(v) = n + 2 /\ \A k \in 1..n : v[k] = s[k]
  <2>1. v \in Seq(Nat) /\ Len(v) = Len(s) + Len(t) /\ \A k \in 1..Len(s) : v[k] = s[k]
    BY <1>2, BothFields
  <2> HIDE DEF v
  <2>2. QED
    BY <1>2, <2>1
<1>4. v[n + 1] = t[1] /\ v[n + 2] = t[2]
  <2>1. 1 \in 1..Len(t) /\ 2 \in 1..Len(t)
    OBVIOUS
  <2>2. \A k \in 1..Len(t) : v[n + k] = t[k]
    BY <1>2, BothFields
  <2>3. QED
    BY <2>1, <2>2
<1> HIDE DEF v
<1>5. \A k \in 1..n + 2 : u[k] = v[k]
  <2> TAKE k \in 1..n + 2
  <2>1. u[k] = c[0 + k - 1]
    BY <1>1
  <2>2. CASE k \in 1..n
    BY <1>2, <1>3, <2>1, <2>2
  <2>3. CASE k = n + 1
    <3>1. 0 + k - 1 = n
      BY <2>3
    <3>2. QED
      BY <1>4, <2>1, <2>3, <3>1
  <2>4. CASE k = n + 2
    <3>1. 0 + k - 1 = n + 1
      BY <2>4
    <3>2. QED
      BY <1>4, <2>1, <2>4, <3>1
  <2>5. QED
    BY <2>2, <2>3, <2>4
<1>6. u = v
  BY <1>1, <1>3, <1>5, SeqsEqual
<1>7. QED
  BY <1>6 DEF u, v, s
\* When the checksum is right, the bytes of the file are those of memory.
LEMMA LoadedIsRead ==
  ASSUME TypeOK, PhasesSound, Reading, op.pc = "loaded"
  PROVE  LET k == tape.pos - 2
         IN  /\ k \in 1..Len(tape.blocks) /\ Read(k) /\ tape.blocks[k].head = op.head
             /\ Bytes(k) = Cells(m.cell, Base, op.head.length)
<1> DEFINE k == tape.pos - 2
           n == op.head.length
<1>1. /\ op \in Op /\ m \in Mem /\ tape \in Player
      /\ Receiving /\ op.de = 0 /\ op.rest # <<>> /\ Xor(op.sum, op.rest[1]) = 0
      /\ Matches(op.head) /\ Acceptable(op.head) /\ op.word \notin Saving /\ (op.word = "VERIFY-LIB" => m.here + 2 <= DictCap)
  BY DEF TypeOK, Reading, PhasesSound, TakenSteps, ReadSteps
<1>2. /\ tape.pos \in Nat /\ k \in 1..Len(tape.blocks) /\ tape.pos - 1 = k + 1 /\ k + 1 \in 1..Len(tape.blocks)
  <2>1. k \in 1..Len(tape.blocks) /\ tape.pos - 1 \in 1..Len(tape.blocks)
    BY <1>1 DEF Receiving, HeaderBehind
  <2>2. tape.pos \in Nat
    BY <1>1, TapeFields
  <2>3. QED
    BY <2>1, <2>2
<1>3. tape.blocks[k].head = op.head /\ Candidate(k) /\ tape.blocks[k + 1].flag = FlagData
  BY <1>1, <1>2 DEF Receiving, HeaderBehind, Candidate
<1> DEFINE raw == tape.blocks[k + 1].raw
<1>4. Raw = raw /\ raw \in Seq(Nat) /\ n \in Nat /\ op.rest \in Seq(Nat) /\ Len(op.rest) \in Nat /\ Len(raw) \in Nat
  <2>1. tape.blocks[k + 1] \in Block
    BY <1>1, <1>2, TapeFields
  <2>2. raw \in Seq(Nat)
    BY <2>1, BlockFields
  <2>3. Raw = raw
    BY <1>2 DEF Raw
  <2>4. n \in Nat /\ op.rest \in Seq(Nat)
    BY <1>1, OpFields DEF Heads
  <2>5. QED
    BY <2>2, <2>3, <2>4
<1>5. Got = n
  <2>1. Got \in Nat /\ Got + op.de = n
    BY <1>1 DEF Receiving
  <2>2. QED
    BY <1>1, <2>1
<1>6. n < Len(raw)
  <2>1. Len(op.rest) > 0
    BY <1>1, <1>4
  <2>2. Got + Len(op.rest) = Len(raw)
    BY <1>1, <1>4 DEF Receiving
  <2>3. QED
    BY <1>4, <1>5, <2>1, <2>2
<1>7. op.rest[1] = raw[n + 1]
  <2>1. 1 \in 1..Len(op.rest)
    BY <1>1, <1>4
  <2>2. op.rest[1] = Raw[Got + 1]
    BY <1>1, <2>1 DEF Receiving
  <2>3. QED
    BY <1>4, <1>5, <2>2
<1>8. Bytes(k) = SubSeq(raw, 1, n) /\ op.sum = Checksum(FlagData, SubSeq(raw, 1, n))
  BY <1>1, <1>3, <1>4, <1>5 DEF Bytes, Receiving
<1>9. Xor(Checksum(FlagData, Bytes(k)), raw[n + 1]) = 0
  BY <1>1, <1>7, <1>8
<1>10. k + 1 < tape.pos
  BY <1>2
<1>11. Read(k)
  BY <1>3, <1>6, <1>9, <1>10 DEF Read
<1>12. Base \in Nat /\ Base + n <= Limit /\ Limit \in Nat /\ m.cell \in [0..Limit - 1 -> Nat]
  BY <1>1, AreaIsMemory, MemFields
<1>13. Bytes(k) = Cells(m.cell, Base, n)
  <2> DEFINE c == Cells(m.cell, Base, n)
             s == SubSeq(raw, 1, n)
  <2>1. c \in Seq(Nat) /\ Len(c) = n /\ \A i \in 1..n : c[i] = m.cell[Base + i - 1]
    <3> HIDE DEF n
    <3>1. n \in Nat
      BY <1>4
    <3>2. QED
      BY <1>12, <3>1, CellsFields
  <2>2. s \in Seq(Nat) /\ Len(s) = n /\ \A i \in 1..n : s[i] = raw[i]
    <3> HIDE DEF n, raw
    <3>1. QED
      BY <1>4, <1>6
  <2>3. \A i \in 1..n : m.cell[Base + i - 1] = raw[i]
    BY <1>1, <1>4, <1>5 DEF Receiving
  <2> HIDE DEF c, s
  <2>4. c = s
    BY <2>1, <2>2, <2>3, SeqsEqual
  <2>5. QED
    BY <1>8, <2>4 DEF c, s
<1>14. QED
  BY <1>2, <1>3, <1>11, <1>13
\* What a word that read a file and said so has.
GainedLib(k) == /\ Read(k) /\ tape.blocks[k].head.p1 = Identity /\ tape.blocks[k].head.p2 = m.latest
                /\ Bytes(k) = DictNow \o CrcBytes(DictNow)
GainedText(k) == /\ Read(k)
                 /\ \/ TextNow = Bytes(k) /\ (TextNow = <<>> \/ Last(TextNow) = CR \/ m.end = Limit)
                    \/ TextNow = Append(Bytes(k), CR)
Gained ==
    op.pc = "done" /\ op.code = 0 =>
      /\ op.word = "LOAD-LIB" => \E k \in 1..Len(tape.blocks) : GainedLib(k)
      /\ op.word = "LOAD-TEXT" => \E k \in 1..Len(tape.blocks) : GainedText(k)
      /\ op.word = "VERIFY-LIB" =>
           \E k \in 1..Len(tape.blocks) : Read(k) /\ Bytes(k) = DictNow \o CrcBytes(DictNow)
      /\ op.word = "VERIFY-TEXT" => \E k \in 1..Len(tape.blocks) : Read(k) /\ Bytes(k) = TextNow
\* A file that was read stays read.
LEMMA ReadStays ==
  ASSUME SameWord, tape' = tape, NEW k, Read(k)
  PROVE  Read(k)' /\ Bytes(k)' = Bytes(k)
<1>1. IsLib' = IsLib
  BY DEF IsLib, SameWord
<1>2. Bytes(k)' = Bytes(k)
  BY DEF Bytes
<1>3. Candidate(k) => Candidate(k)'
  BY <1>1 DEF Candidate, Matches, SameWord
<1>4. QED
  BY <1>2, <1>3 DEF Read
\* What the last step of a load or a verify makes true.
LEMMA GainedLoaded ==
  ASSUME TypeOK, PhasesSound, CrcSound, Reading, Loaded
  PROVE  Gained'
<1> DEFINE n == op.head.length
<1>1. /\ op.pc = "loaded" /\ SameWord /\ tape' = tape /\ op'.pc = "done" /\ op \in Op /\ m \in Mem /\ m' \in Mem
      /\ Matches(op.head) /\ Acceptable(op.head) /\ op.word \notin Saving /\ (op.word = "VERIFY-LIB" => m.here + 2 <= DictCap)
  BY LoadedDoes DEF Reads, TypeOK, PhasesSound, TakenSteps, ReadSteps
<1>2. PICK k \in 1..Len(tape.blocks) : Read(k) /\ tape.blocks[k].head = op.head /\ Bytes(k) = Cells(m.cell, Base, n)
  BY <1>1, LoadedIsRead
<1>3. k \in 1..Len(tape'.blocks) /\ Read(k)' /\ Bytes(k)' = Cells(m.cell, Base, n)
  BY <1>1, <1>2, ReadStays
<1>4. /\ n \in Nat /\ Base + n <= Limit /\ Base = (IF IsLib THEN 0 ELSE DictCap) /\ DictCap \in Nat /\ Limit \in Nat
      /\ m.cell \in [0..Limit - 1 -> Nat] /\ m.here \in Nat /\ n <= (IF IsLib THEN DictCap ELSE TextCap)
      /\ Limit = DictCap + TextCap /\ TextCap \in Nat
  BY <1>1, OpFields, AreaIsMemory, MemFields DEF Heads
<1> HIDE DEF n
<1>5. CASE op.word = "VERIFY-TEXT"
  <2>1. m' = m /\ Base = DictCap /\ n = m.end - DictCap
    BY <1>1, <1>4, <1>5, LoadedDoes DEF Loading, Acceptable, IsLib, n
  <2>2. Bytes(k)' = TextNow'
    BY <1>3, <2>1 DEF TextNow
  <2>3. QED
    BY <1>1, <1>3, <1>5, <2>2 DEF Gained, SameWord
<1>6. CASE op.word = "VERIFY-LIB"
  <2>1. m' = m /\ Base = 0 /\ n = m.here + 2
    BY <1>1, <1>4, <1>6, LoadedDoes DEF Loading, Acceptable, IsLib, n
  <2>2. CrcBehind
    BY <1>1, <1>6 DEF CrcSound, PhasesSound
  <2>3. DictNow \in Seq(Nat)
    <3>1. 0 + m.here <= Limit
      BY <1>1, <1>4, <1>6
    <3>2. Cells(m.cell, 0, m.here) \in Seq(Nat)
      BY <1>4, <3>1, CellsFields
    <3>3. QED
      BY <3>2 DEF DictNow
  <2>4. Cells(m.cell, 0, m.here + 2) = DictNow \o CrcBytes(DictNow)
    <3>1. CrcBytes(DictNow) \in Seq(Nat) /\ Len(CrcBytes(DictNow)) = 2
      BY <2>3, CrcIsTwoBytes
    <3>2. m.here + 2 <= Limit
      BY <1>1, <1>4, <1>6
    <3>3. QED
      BY <1>4, <2>2, <3>1, <3>2, CellsSplit DEF CrcBehind, DictNow
  <2>5. Bytes(k)' = DictNow' \o CrcBytes(DictNow')
    BY <1>3, <2>1, <2>4 DEF DictNow
  <2>6. QED
    BY <1>1, <1>3, <1>6, <2>5 DEF Gained, SameWord
<1>7. CASE op.word = "LOAD-LIB"
  <2>1. CASE op'.code # 0
    BY <2>1 DEF Gained
  <2>2. CASE op'.code = 0
    <3>1. /\ ImageWhole /\ m'.here = n - 2 /\ m'.latest = op.head.p2 /\ m'.cell = m.cell /\ Base = 0
          /\ op.head.p1 = Identity /\ n \in 2..DictCap
      BY <1>1, <1>4, <1>7, <2>2, LoadedDoes DEF Loading, Acceptable, IsLib, n, TapeError
    <3> DEFINE i == n - 2
    <3>2. i \in Nat /\ i + 2 = n /\ i + 2 <= Limit /\ i + 1 \in Nat
      BY <1>4, <3>1
    <3> HIDE DEF i
    <3>3. DictNow' = Cells(m.cell, 0, i)
      BY <3>1 DEF DictNow, i
    <3>4. Cells(m.cell, 0, i) \in Seq(Nat)
      <4>1. 0 \in Nat /\ 0 + i <= Limit
        BY <1>4, <3>2
      <4>2. QED
        BY <1>4, <3>2, <4>1, CellsFields
    <3> DEFINE c == CrcBytes(Cells(m.cell, 0, i))
    <3>5. c \in Seq(Nat) /\ Len(c) = 2 /\ c = Cells(m.cell, i, 2)
      BY <3>1, <3>4, CrcIsTwoBytes DEF ImageWhole, i, n
    <3> HIDE DEF c
    <3>6. m.cell[i] = c[1] /\ m.cell[i + 1] = c[2]
      <4>1. \A x \in 1..2 : c[x] = m.cell[i + x - 1]
        BY <3>5 DEF Cells
      <4>2. i + 1 - 1 = i /\ i + 2 - 1 = i + 1 /\ 1 \in 1..2 /\ 2 \in 1..2
        BY <3>2
      <4>3. c[1] = m.cell[i + 1 - 1] /\ c[2] = m.cell[i + 2 - 1]
        BY <4>1, <4>2
      <4>4. QED
        BY <4>2, <4>3
    <3>7. Cells(m.cell, 0, i + 2) = Cells(m.cell, 0, i) \o c
      BY <1>4, <3>2, <3>5, <3>6, CellsSplit
    <3>8. Bytes(k)' = DictNow' \o CrcBytes(DictNow')
      BY <1>3, <3>1, <3>2, <3>3, <3>7 DEF c
    <3>9. tape'.blocks[k].head.p1 = Identity /\ tape'.blocks[k].head.p2 = m'.latest
      BY <1>1, <1>2, <3>1
    <3>10. GainedLib(k)'
      BY <1>3, <3>8, <3>9 DEF GainedLib
    <3>11. QED
      BY <1>1, <1>3, <1>7, <3>10 DEF Gained, SameWord
  <2>3. QED
    BY <2>1, <2>2
<1>8. CASE op.word = "LOAD-TEXT"
  <2>1. Base = DictCap
    BY <1>4, <1>8 DEF IsLib
  <2> DEFINE b == Cells(m.cell, DictCap, n)
             end == DictCap + n
  <2>2. b \in Seq(Nat) /\ Len(b) = n /\ \A x \in 1..n : b[x] = m.cell[DictCap + x - 1]
    <3>1. DictCap + n <= Limit
      BY <1>4, <2>1
    <3>2. QED
      BY <1>4, <3>1, CellsFields
  <2>3. Bytes(k)' = b
    BY <1>3, <2>1
  <2>4. CASE (n = 0 \/ m.cell[end - 1] = CR \/ end = Limit) /\ m'.end = end /\ m'.cell = m.cell
    <3>1. m'.end - DictCap = n
      BY <1>4, <2>4
    <3>2. TextNow' = b
      BY <2>4, <3>1 DEF TextNow
    <3>3. b = <<>> \/ b[Len(b)] = CR \/ m'.end = Limit
      <4>1. CASE n = 0
        BY <2>2, <4>1
      <4>2. CASE n # 0 /\ m.cell[end - 1] = CR
        <5>1. n \in 1..n /\ DictCap + n - 1 = end - 1
          BY <1>4, <4>2
        <5>2. b[n] = CR
          BY <2>2, <4>2, <5>1
        <5>3. QED
          BY <2>2, <5>2
      <4>3. CASE end = Limit
        BY <2>4, <4>3
      <4>4. QED
        BY <2>4, <4>1, <4>2, <4>3
    <3>4. GainedText(k)'
      BY <1>3, <2>3, <3>2, <3>3 DEF GainedText, Last
    <3>5. QED
      BY <1>1, <1>3, <1>8, <3>4 DEF Gained, SameWord
  <2>5. CASE end < Limit /\ m'.end = end + 1 /\ \A x \in 0..Limit - 1 : m'.cell[x] = IF x = end THEN CR ELSE m.cell[x]
    <3>1. m'.end - DictCap = n + 1 /\ DictCap + (n + 1) <= Limit /\ n + 1 \in Nat
      BY <1>4, <2>5
    <3> DEFINE t == Cells(m'.cell, DictCap, n + 1)
               u == Append(b, CR)
    <3>2. TextNow' = t
      BY <3>1 DEF TextNow
    <3>3. t \in Seq(Nat) /\ Len(t) = n + 1 /\ \A x \in 1..n + 1 : t[x] = m'.cell[DictCap + x - 1]
      <4>1. m'.cell \in [0..Limit - 1 -> Nat]
        BY <1>1 DEF Mem
      <4>2. QED
        BY <1>4, <3>1, <4>1, CellsFields
    <3> HIDE DEF b, t
    <3>4. u \in Seq(Nat) /\ Len(u) = n + 1 /\ u[n + 1] = CR /\ \A x \in 1..n : u[x] = b[x]
      BY <1>4, <2>2 DEF CR
    <3> HIDE DEF u
    <3>5. \A x \in 1..n + 1 : t[x] = u[x]
      <4> TAKE x \in 1..n + 1
      <4>1. t[x] = m'.cell[DictCap + x - 1] /\ DictCap + x - 1 \in 0..Limit - 1
        <5>1. t[x] = m'.cell[DictCap + x - 1]
          BY <3>3
        <5>2. DictCap \in Nat /\ n \in Nat /\ Limit \in Nat /\ DictCap + (n + 1) <= Limit
          BY <1>4, <3>1
        <5> HIDE DEF n
        <5>3. DictCap + x - 1 \in 0..Limit - 1
          BY <5>2
        <5>4. QED
          BY <5>1, <5>3
      <4>2. CASE x = n + 1
        <5>1. DictCap + x - 1 = end
          BY <1>4, <4>2
        <5>2. QED
          BY <2>5, <3>4, <4>1, <4>2, <5>1
      <4>3. CASE x \in 1..n
        <5>1. DictCap + x - 1 # end
          BY <1>4, <4>3
        <5>2. m'.cell[DictCap + x - 1] = m.cell[DictCap + x - 1]
          BY <2>5, <4>1, <5>1
        <5>3. QED
          BY <2>2, <3>4, <4>1, <4>3, <5>2
      <4>4. QED
        BY <1>4, <4>2, <4>3
    <3>6. t = u
      BY <3>3, <3>4, <3>5, SeqsEqual
    <3>7. TextNow' = Append(Bytes(k)', CR)
      BY <2>3, <3>2, <3>6 DEF u, b
    <3>8. GainedText(k)'
      BY <1>3, <3>7 DEF GainedText
    <3>9. QED
      BY <1>1, <1>3, <1>8, <3>8 DEF Gained, SameWord
  <2>6. QED
    BY <1>8, <2>4, <2>5, LoadedDoes DEF Loading, n
<1>9. op.word \in Words
  BY <1>1, OpFields
<1>10. QED
  BY <1>1, <1>5, <1>6, <1>7, <1>8, <1>9 DEF Words, Saving
\* It stays so.
LEMMA GainedStays ==
  ASSUME UNCHANGED <<op, m, tape>>, Gained
  PROVE  Gained'
<1>1. SameWord /\ tape' = tape /\ DictNow' = DictNow /\ TextNow' = TextNow
  BY DEF SameWord, DictNow, TextNow
<1>2. \A k : Read(k) => Read(k)' /\ Bytes(k)' = Bytes(k)
  BY <1>1, ReadStays
<1>3. \A k : GainedLib(k) => GainedLib(k)'
  BY <1>1, <1>2 DEF GainedLib
<1>4. \A k : GainedText(k) => GainedText(k)'
  BY <1>1, <1>2 DEF GainedText, Last
<1>5. QED
  BY <1>1, <1>2, <1>3, <1>4 DEF Gained
\* A word that says 0 has one file's bytes.
LEMMA GainedKept ==
  ASSUME TypeOK, PhasesSound, Sending, CrcSound, Reading, Gained, Next
  PROVE  Gained'
<1>1. ASSUME op'.pc # "done" \/ op'.code # 0 \/ op'.word \in Saving PROVE Gained'
  BY <1>1 DEF Gained, Saving
<1>2. Stopped # 0 /\ TapeError # 0 /\ -8 # 0
  BY DEF Stopped, TapeError
<1>3. CASE Start
  BY <1>1, <1>2, <1>3, StartDoes
<1>4. CASE SendHeader
  BY <1>1, <1>2, <1>4, SendHeaderDoes
<1>5. CASE Gap
  BY <1>1, <1>2, <1>5, GapDoes
<1>6. CASE SendByte
  BY <1>1, <1>6, SendByteDoes DEF SameWord, PhasesSound, SaveSteps
<1>7. CASE Find
  BY <1>1, <1>7, FindDoes
<1>8. CASE SearchFailed
  BY <1>1, <1>2, <1>8, SearchFailedDoes
<1>9. CASE CheckHeader
  BY <1>1, <1>2, <1>9, CheckHeaderDoes
<1>10. CASE DataBegins
  BY <1>1, <1>10, DataBeginsDoes
<1>11. CASE DataByte
  BY <1>1, <1>11, DataByteDoes DEF Taken
<1>12. CASE DataFailed
  BY <1>1, <1>2, <1>12, DataFailedDoes
<1>13. CASE Loaded
  BY <1>13, GainedLoaded
<1>14. CASE PlayBack
  BY <1>1, <1>14, PlayBackDoes
<1>15. CASE Press
  BY <1>1, <1>15, PressDoes
<1>16. CASE Release
  BY <1>16, ReleaseDoes, GainedStays
<1>17. QED
  BY <1>3, <1>4, <1>5, <1>6, <1>7, <1>8, <1>9, <1>10, <1>11, <1>12, <1>13, <1>14, <1>15, <1>16 DEF Next, WordStep

----------------------------------------------------------------------------
(* Without SPACE, a word that loads comes to the first good file of its kind. *)
Expected(k) ==
    /\ k \in 1..Len(tape.blocks) /\ Loading /\ ~hist.pressed /\ Whole(k) /\ k + tape.lead <= Attempts
    /\ tape.blocks[k].head.length <= (IF IsLib THEN DictCap ELSE TextCap)
    /\ \A j \in 1..k - 1 : ~Candidate(j)
Used == (tape.lead - tape.late) + (tape.pos - 1)
Awaits(k) ==
    /\ op.pc = "find" => tape.pos <= k /\ Used = Attempts - op.left
    /\ op.pc = "failed" => tape.pos <= k /\ Used = Attempts - op.left + 1
    /\ op.pc = "header" => tape.pos <= k + 1 /\ Used = Attempts - op.left + 1
    /\ op.pc = "data" => tape.pos = k + 1
    /\ op.pc \in {"byte", "loaded"} => tape.pos = k + 2
    /\ op.pc # "data failed"
    /\ op.pc = "done" => op.code = 0
Await == /\ op.pc = "start" => tape.pos = 1 /\ tape.late = tape.lead /\ op.left = Attempts
         /\ \A k \in 1..Len(tape.blocks) : Expected(k) => Awaits(k)
\* A file that is expected was expected before.
LEMMA ExpectedStays ==
  ASSUME SameWord, SameTape, ~hist'.pressed => ~hist.pressed, NEW k, Expected(k)'
  PROVE  Expected(k)
<1>1. IsLib' = IsLib
  BY DEF IsLib, SameWord
<1>2. tape'.blocks = tape.blocks /\ tape'.lead = tape.lead
  BY DEF SameTape
<1>3. \A j : Candidate(j)' <=> Candidate(j)
  BY <1>1, <1>2 DEF Candidate, Matches, SameWord
<1>4. Whole(k)' => Whole(k)
  BY <1>1, <1>2, <1>3 DEF Whole, Front
<1>5. Loading' => Loading
  BY DEF Loading, SameWord
<1>6. QED
  BY <1>1, <1>2, <1>3, <1>4, <1>5 DEF Expected
\* What a whole file is.
LEMMA ExpectedFields ==
  ASSUME TypeOK, FramedTape, NEW k, Expected(k)
  PROVE  /\ k \in Nat /\ k >= 1 /\ k + 1 \in 1..Len(tape.blocks) /\ k + tape.lead <= Attempts
         /\ Attempts \in Nat /\ tape.lead \in Nat /\ tape.late \in Nat /\ tape.pos \in Nat \ {0}
         /\ op.left \in 1..Attempts /\ Len(tape.blocks) \in Nat
         /\ tape.blocks[k].flag = FlagHeader /\ tape.blocks[k].good /\ Matches(tape.blocks[k].head)
         /\ tape.blocks[k + 1].flag = FlagData
         /\ tape.blocks[k + 1].raw \in Seq(Nat) /\ tape.blocks[k + 1].raw # <<>>
         /\ Checksum(FlagData, tape.blocks[k + 1].raw) = 0
         /\ tape.blocks[k].head.length = Len(tape.blocks[k + 1].raw) - 1
         /\ \A j \in 1..k - 1 : ~Candidate(j)
<1>1. k \in 1..Len(tape.blocks) /\ Whole(k) /\ tape \in Player /\ op \in Op
  BY DEF Expected, TypeOK
<1>2. k < Len(tape.blocks) /\ Candidate(k) /\ tape.blocks[k + 1].flag = FlagData /\ tape.blocks[k + 1].good
      /\ tape.blocks[k].head.length = Len(tape.blocks[k + 1].raw) - 1
  BY <1>1 DEF Whole
<1>3. Len(tape.blocks) \in Nat /\ k + 1 \in 1..Len(tape.blocks)
  BY <1>1, <1>2, TapeFields
<1>4. Framed(tape.blocks[k + 1]) /\ tape.blocks[k + 1] \in Block
  BY <1>1, <1>3, TapeFields DEF FramedTape
<1>5. tape.blocks[k + 1].raw \in Seq(Nat) /\ tape.blocks[k + 1].raw # <<>> /\ Checksum(FlagData, tape.blocks[k + 1].raw) = 0
  BY <1>2, <1>4, BlockFields DEF Framed
<1>6. k + tape.lead <= Attempts /\ \A j \in 1..k - 1 : ~Candidate(j)
  BY DEF Expected
<1>7. Attempts \in Nat /\ tape.lead \in Nat /\ tape.late \in Nat /\ tape.pos \in Nat \ {0} /\ op.left \in 1..Attempts
  BY <1>1, TapeFields, OpFields, TapeAssumption
<1>8. k \in Nat /\ k >= 1
  BY <1>1, <1>3
<1>9. tape.blocks[k].flag = FlagHeader /\ tape.blocks[k].good /\ Matches(tape.blocks[k].head)
  BY <1>2 DEF Candidate
<1>10. QED
  BY <1>2, <1>3, <1>5, <1>6, <1>7, <1>8, <1>9
\* All but the last of a sequence.
LEMMA FrontFields ==
  ASSUME NEW s \in Seq(Nat)
  PROVE  Front(s) \in Seq(Nat) /\ (s # <<>> => Len(Front(s)) = Len(s) - 1)
<1>1. CASE s = <<>>
  <2>1. Len(s) = 0
    BY <1>1
  <2>2. SubSeq(s, 1, Len(s) - 1) \in Seq(Nat)
    BY <2>1
  <2>3. QED
    BY <1>1, <2>2 DEF Front
<1>2. CASE s # <<>>
  <2> DEFINE n == Len(s) - 1
  <2>1. n \in Nat /\ n < Len(s)
    BY <1>2
  <2> HIDE DEF n
  <2>2. SubSeq(s, 1, n) \in Seq(Nat) /\ Len(SubSeq(s, 1, n)) = n
    BY <2>1, OneMore
  <2>3. SubSeq(s, 1, Len(s) - 1) \in Seq(Nat) /\ Len(SubSeq(s, 1, Len(s) - 1)) = Len(s) - 1
    BY <2>2 DEF n
  <2>4. QED
    BY <2>3 DEF Front
<1>3. QED
  BY <1>1, <1>2
\* The tape comes to the expected file: a receive while the header is looked for ...
LEMMA AwaitFind ==
  ASSUME TypeOK, FramedTape, SpaceSound, NEW k, Expected(k), Awaits(k), Find
  PROVE  Awaits(k)'
<1>1. /\ op.pc = "find" /\ ~space /\ tape.pos <= k /\ Used = Attempts - op.left /\ op'.left = op.left /\ TapeMoves /\ tape \in Player
      /\ tape'.lead = tape.lead
      /\ \/ op'.pc = "failed" /\ ~(~Silence /\ NextBlock.flag = FlagHeader /\ NextBlock.good)
         \/ op'.pc = "header" /\ ~Silence
  BY FindDoes DEF Awaits, Expected, SpaceSound, TypeOK, SameTape
<1>2. /\ k \in Nat /\ k + 1 <= Len(tape.blocks) /\ tape.late \in Nat /\ tape.lead \in Nat /\ tape.pos \in Nat \ {0}
      /\ op.left \in 1..Attempts /\ Attempts \in Nat /\ Len(tape.blocks) \in Nat
  BY ExpectedFields
<1>3. Used' = (tape.lead - tape'.late) + (tape'.pos - 1) /\ Used = (tape.lead - tape.late) + (tape.pos - 1)
  BY <1>1 DEF Used
<1>4. CASE Silence
  <2>1. tape.late > 0
    BY <1>1, <1>2, <1>4, TapeGoesOn
  <2>2. tape'.late = tape.late - 1 /\ tape'.pos = tape.pos
    BY <1>1, <1>4, <2>1, TapeGoesOn
  <2>3. Used' = Used + 1
    <3>1. \A l, t, o \in Int : (l - (t - 1)) + (o - 1) = ((l - t) + (o - 1)) + 1
      OBVIOUS
    <3>2. Used' = (tape.lead - (tape.late - 1)) + (tape.pos - 1)
      BY <1>3, <2>2
    <3>3. tape.lead \in Int /\ tape.late \in Int /\ tape.pos \in Int
      BY <1>2
    <3>4. QED
      BY <1>3, <3>1, <3>2, <3>3
  <2>4. op'.pc = "failed" /\ tape'.pos <= k
    BY <1>1, <1>4, <2>2
  <2>5. Used' = Attempts - op'.left + 1
    BY <1>1, <1>2, <2>3
  <2>6. QED
    BY <2>4, <2>5 DEF Awaits
<1>5. CASE ~Silence
  <2>1. tape.late = 0 /\ tape'.late = 0 /\ tape'.pos = tape.pos + 1
    BY <1>1, <1>5, TapeGoesOn
  <2>2. Used' = Used + 1
    BY <1>2, <1>3, <2>1
  <2>3. Used' = Attempts - op'.left + 1 /\ tape'.pos <= k + 1
    BY <1>1, <1>2, <2>1, <2>2
  <2>4. CASE op'.pc = "header"
    BY <2>3, <2>4 DEF Awaits
  <2>5. CASE op'.pc = "failed"
    <3>1. tape.pos # k
      <4>1. tape.blocks[k].flag = FlagHeader /\ tape.blocks[k].good
        BY ExpectedFields
      <4>2. QED
        BY <1>1, <1>5, <2>5, <4>1 DEF NextBlock
    <3>2. tape'.pos <= k
      BY <1>1, <1>2, <2>1, <3>1
    <3>3. QED
      BY <2>3, <2>5, <3>2 DEF Awaits
  <2>6. QED
    BY <1>1, <2>4, <2>5
<1>6. QED
  BY <1>4, <1>5
\* ... with attempts left ...
LEMMA AttemptsLast ==
  ASSUME TypeOK, FramedTape, NEW k, Expected(k), tape.pos <= k, Used = Attempts - op.left + 1
  PROVE  op.left # 1
<1>1. /\ k \in Nat /\ tape.late \in Nat /\ tape.lead \in Nat /\ tape.pos \in Nat \ {0}
      /\ op.left \in 1..Attempts /\ Attempts \in Nat /\ k + tape.lead <= Attempts
  BY ExpectedFields
<1>2. (tape.lead - tape.late) + (tape.pos - 1) = Attempts - op.left + 1
  BY DEF Used
<1>3. QED
  BY <1>1, <1>2
\* ... a failed one costs one ...
LEMMA AwaitFailed ==
  ASSUME TypeOK, FramedTape, SpaceSound, NEW k, Expected(k), Awaits(k), SearchFailed
  PROVE  Awaits(k)'
<1>1. op.pc = "failed" /\ ~space /\ tape.pos <= k /\ Used = Attempts - op.left + 1 /\ tape' = tape
  BY SearchFailedDoes DEF Awaits, Expected, SpaceSound, Looks
<1>2. op.left # 1
  BY <1>1, AttemptsLast
<1>3. op'.pc = "find" /\ op'.left = op.left - 1
  BY <1>1, <1>2, SearchFailedDoes
<1>4. Used' = Used
  BY <1>1 DEF Used
<1>5. Used' = Attempts - op'.left
  BY <1>1, <1>3, <1>4, ExpectedFields
<1>6. QED
  BY <1>1, <1>3, <1>5 DEF Awaits
\* ... and so does another file's header; its own is taken ...
LEMMA AwaitHeader ==
  ASSUME TypeOK, FramedTape, PhasesSound, Reading, NEW k, Expected(k), Awaits(k), CheckHeader
  PROVE  Awaits(k)'
<1>1. /\ op.pc = "header" /\ tape.pos <= k + 1 /\ Used = Attempts - op.left + 1 /\ tape' = tape /\ HeaderBehind(1)
      /\ op \in Op
  BY CheckHeaderDoes DEF Awaits, Looks, Reading, TypeOK
<1>2. /\ k \in Nat /\ tape.pos \in Nat \ {0} /\ Attempts \in Nat /\ op.left \in 1..Attempts /\ Len(tape.blocks) \in Nat
  BY ExpectedFields
<1> DEFINE j == tape.pos - 1
<1>3. /\ j \in 1..Len(tape.blocks) /\ tape.blocks[j].flag = FlagHeader /\ tape.blocks[j].good /\ op.head = tape.blocks[j].head
  BY <1>1 DEF HeaderBehind
<1>4. CASE j < k
  <2>1. j \in 1..k - 1 /\ tape.pos <= k
    BY <1>2, <1>3, <1>4
  <2>2. ~Candidate(j)
    BY <2>1, ExpectedFields
  <2>3. ~Matches(op.head)
    BY <1>3, <2>2 DEF Candidate
  <2>4. op.left # 1
    BY <1>1, <2>1, AttemptsLast
  <2>5. op'.pc = "find" /\ op'.left = op.left - 1
    BY <2>3, <2>4, CheckHeaderDoes
  <2>6. Used' = Used
    BY <1>1 DEF Used
  <2>7. Used' = Attempts - op'.left
    BY <1>1, <1>2, <2>5, <2>6
  <2>8. QED
    BY <1>1, <2>1, <2>5, <2>7 DEF Awaits
<1>5. CASE ~(j < k)
  <2>1. j = k /\ tape.pos = k + 1
    BY <1>1, <1>2, <1>5
  <2>2. op.head = tape.blocks[k].head /\ Matches(op.head)
    BY <1>3, <2>1, ExpectedFields
  <2> HIDE DEF j
  <2>3. Acceptable(op.head)
    <3>1. CASE op.word = "LOAD-TEXT"
      BY <2>2, <3>1 DEF Acceptable, Expected, IsLib
    <3>2. CASE op.word = "LOAD-LIB"
      <4> DEFINE raw == tape.blocks[k + 1].raw
                 x == Front(Front(Front(raw)))
      <4>1. /\ op.head.p1 = Identity /\ Front(raw) = x \o CrcBytes(x) /\ op.head.length <= DictCap
        BY <2>2, <3>2 DEF Expected, Whole, IsLib
      <4>2. raw \in Seq(Nat) /\ raw # <<>> /\ op.head.length = Len(raw) - 1
        BY <2>2, ExpectedFields
      <4>3. \A s \in Seq(Nat) : Front(s) \in Seq(Nat)
        BY FrontFields
      <4> HIDE DEF raw
      <4>4. Front(raw) \in Seq(Nat) /\ Len(Front(raw)) = Len(raw) - 1
        BY <4>2, FrontFields
      <4>5. x \in Seq(Nat)
        BY <4>3, <4>4
      <4> HIDE DEF x
      <4>6. CrcBytes(x) \in Seq(Nat) /\ Len(CrcBytes(x)) = 2
        BY <4>5, CrcIsTwoBytes
      <4>7. Len(x \o CrcBytes(x)) = Len(x) + 2 /\ Len(x) \in Nat
        <5>1. Len(x \o CrcBytes(x)) = Len(x) + Len(CrcBytes(x))
          BY <4>5, <4>6, BothFields
        <5>2. QED
          BY <4>5, <4>6, <5>1
      <4>8. op.head.length >= 2 /\ op.head.length \in Nat
        BY <4>1, <4>2, <4>4, <4>7
      <4>9. DictCap \in Nat
        BY TapeAssumption
      <4>10. QED
        BY <3>2, <4>1, <4>8, <4>9 DEF Acceptable
    <3>3. QED
      BY <3>1, <3>2 DEF Expected, Loading
  <2>4. op'.pc = "data"
    BY <2>2, <2>3, CheckHeaderDoes
  <2>5. QED
    BY <1>1, <2>1, <2>4 DEF Awaits
<1>6. QED
  BY <1>4, <1>5
\* ... its block is received ...
LEMMA AwaitData ==
  ASSUME TypeOK, FramedTape, SpaceSound, Reading, NEW k, Expected(k), Awaits(k), DataBegins
  PROVE  Awaits(k)'
<1>1. op.pc = "data" /\ ~space /\ tape.pos = k + 1 /\ tape.late = 0 /\ tape \in Player
  BY DataBeginsDoes DEF Awaits, Expected, SpaceSound, Reading, HeaderBehind, TypeOK
<1>2. k \in Nat /\ k + 1 \in 1..Len(tape.blocks) /\ tape.blocks[k + 1].flag = FlagData /\ Len(tape.blocks) \in Nat
  BY ExpectedFields
<1>3. ~Silence /\ NextBlock.flag = FlagData
  BY <1>1, <1>2 DEF Silence, NextBlock
<1>4. op'.pc = "byte" /\ TapeMoves
  BY <1>1, <1>3, DataBeginsDoes
<1>5. tape'.pos = k + 2
  BY <1>1, <1>2, <1>3, <1>4, TapeGoesOn
<1>6. QED
  BY <1>4, <1>5 DEF Awaits
\* ... to the checksum, which is right ...
LEMMA AwaitByte ==
  ASSUME TypeOK, FramedTape, SpaceSound, PhasesSound, Reading, NEW k, Expected(k), Awaits(k), DataByte
  PROVE  Awaits(k)'
<1>1. /\ op.pc = "byte" /\ ~space /\ tape.pos = k + 2 /\ tape' = tape /\ Receiving /\ op \in Op /\ Loading
  BY DataByteDoes DEF Awaits, Expected, SpaceSound, Reading, Reads, TypeOK
<1> DEFINE raw == tape.blocks[k + 1].raw
<1>2. /\ k \in Nat /\ raw \in Seq(Nat) /\ raw # <<>> /\ Checksum(FlagData, raw) = 0
      /\ tape.blocks[k].head.length = Len(raw) - 1
  BY ExpectedFields
<1>3. tape.pos - 1 = k + 1 /\ tape.pos - 2 = k
  BY <1>1, <1>2
<1>4. Raw = raw /\ op.head = tape.blocks[k].head /\ op.head.length = Len(raw) - 1
  BY <1>1, <1>2, <1>3 DEF Raw, Receiving, HeaderBehind
<1>5. Got \in Nat /\ Got + op.de = op.head.length /\ Got + Len(op.rest) = Len(raw)
  BY <1>1, <1>4 DEF Receiving
<1> HIDE DEF raw
<1>6. op.de \in Nat /\ op.rest \in Seq(Nat) /\ Len(op.rest) \in Nat /\ Len(raw) \in Nat
  BY <1>1, <1>2, OpFields
<1>7. op.rest # <<>>
  <2>1. Got <= op.head.length
    BY <1>5, <1>6
  <2>2. Got < Len(raw)
    BY <1>4, <1>5, <1>6, <2>1
  <2>3. Len(op.rest) # 0
    BY <1>5, <1>6, <2>2
  <2>4. QED
    BY <2>3
<1>8. op.de = 0 => Xor(op.sum, op.rest[1]) = 0
  <2> SUFFICES ASSUME op.de = 0 PROVE Xor(op.sum, op.rest[1]) = 0
    OBVIOUS
  <2>1. Got = op.head.length
    BY <1>5
  <2>2. Got + 1 = Len(raw) /\ Got < Len(raw)
    BY <1>4, <1>5, <1>6, <2>1
  <2>3. 1 \in 1..Len(op.rest)
    BY <1>6, <1>7
  <2>4. op.rest[1] = raw[Got + 1] /\ op.sum = Checksum(FlagData, SubSeq(raw, 1, Got))
    BY <1>1, <1>4, <2>3 DEF Receiving
  <2> DEFINE s == SubSeq(raw, 1, Got)
  <2>5. s \in Seq(Nat) /\ Append(s, raw[Got + 1]) = SubSeq(raw, 1, Got + 1) /\ raw[Got + 1] \in Nat
    BY <1>2, <1>5, <2>2, OneMore
  <2>6. SubSeq(raw, 1, Got + 1) = raw
    BY <1>2, <2>2, WholeOne
  <2>7. FlagData \in Nat
    BY DEF FlagData
  <2> HIDE DEF s
  <2>8. Checksum(FlagData, Append(s, raw[Got + 1])) = Xor(Checksum(FlagData, s), raw[Got + 1])
    BY <2>5, <2>7, ChecksumGrows
  <2>9. QED
    BY <1>2, <2>4, <2>5, <2>6, <2>8 DEF s
<1>9. op'.pc \in {"byte", "loaded"}
  BY <1>1, <1>7, <1>8, DataByteDoes DEF Taken
<1>10. QED
  BY <1>1, <1>9 DEF Awaits
\* ... and so is the CRC.
LEMMA AwaitLoaded ==
  ASSUME TypeOK, FramedTape, PhasesSound, Reading, NEW k, Expected(k), Awaits(k), Loaded
  PROVE  Awaits(k)'
<1>1. /\ op.pc = "loaded" /\ tape.pos = k + 2 /\ Loading /\ op'.pc = "done" /\ op \in Op /\ m \in Mem
  BY LoadedDoes DEF Awaits, Expected, TypeOK
<1>2. CASE op.word = "LOAD-TEXT"
  BY <1>1, <1>2, LoadedDoes DEF Awaits, Loading
<1>3. CASE op.word = "LOAD-LIB"
  <2> DEFINE raw == tape.blocks[k + 1].raw
             n == op.head.length
             x == Front(Front(Front(raw)))
  <2>1. k \in Nat /\ raw \in Seq(Nat) /\ raw # <<>> /\ tape.blocks[k].head.length = Len(raw) - 1
    BY ExpectedFields
  <2>2. tape.pos - 2 = k
    BY <1>1, <2>1
  <2>3. tape.blocks[k].head = op.head /\ Bytes(k) = Cells(m.cell, Base, n) /\ Base = 0
    BY <1>1, <1>3, <2>2, LoadedIsRead DEF Base, IsLib
  <2>4. n = Len(raw) - 1 /\ Bytes(k) = Front(raw)
    BY <2>1, <2>3 DEF Bytes, Front
  <2>5. Front(raw) = x \o CrcBytes(x)
    BY <1>3 DEF Expected, Whole, IsLib
  <2> HIDE DEF raw
  <2>6. Front(raw) \in Seq(Nat) /\ Len(Front(raw)) = n
    BY <2>1, <2>4, FrontFields
  <2>7. x \in Seq(Nat)
    <3>1. \A s \in Seq(Nat) : Front(s) \in Seq(Nat)
      BY FrontFields
    <3>2. QED
      BY <2>6, <3>1
  <2> HIDE DEF x
  <2> DEFINE c == CrcBytes(x)
  <2>8. c \in Seq(Nat) /\ Len(c) = 2
    BY <2>7, CrcIsTwoBytes
  <2> HIDE DEF c
  <2> DEFINE i == n - 2
  <2>9. /\ Len(x) \in Nat /\ Len(x) + 2 = n
        /\ \A y \in 1..Len(x) : Front(raw)[y] = x[y]
        /\ Front(raw)[Len(x) + 1] = c[1] /\ Front(raw)[Len(x) + 2] = c[2]
    <3> DEFINE v == x \o c
    <3>1. Len(v) = Len(x) + Len(c) /\ (\A y \in 1..Len(x) : v[y] = x[y]) /\ \A y \in 1..Len(c) : v[Len(x) + y] = c[y]
      BY <2>7, <2>8, BothFields
    <3>2. Front(raw) = v
      BY <2>5 DEF c
    <3>3. 1 \in 1..Len(c) /\ 2 \in 1..Len(c) /\ Len(x) \in Nat
      BY <2>7, <2>8
    <3> HIDE DEF v
    <3>4. QED
      BY <2>6, <2>8, <3>1, <3>2, <3>3
  <2>10. n \in Nat /\ n <= Limit /\ Limit \in Nat /\ m.cell \in [0..Limit - 1 -> Nat] /\ i = Len(x)
    <3>1. op.word \notin Saving /\ op.word # "VERIFY-LIB" /\ Acceptable(op.head)
      BY <1>1, <1>3 DEF Saving, PhasesSound, TakenSteps
    <3>2. n \in Nat
      BY <1>1, OpFields DEF Heads
    <3>3. Base + n <= Limit /\ Limit \in Nat
      BY <1>1, <3>1, AreaIsMemory, MemFields
    <3> HIDE DEF n
    <3>4. n <= Limit /\ i = Len(x)
      BY <2>3, <2>9, <3>2, <3>3
    <3>5. QED
      BY <1>1, <3>2, <3>3, <3>4, MemFields
  <2> HIDE DEF n, i
  <2>11. /\ Cells(m.cell, 0, n) = Front(raw)
         /\ \A y \in 1..n : Cells(m.cell, 0, n)[y] = m.cell[0 + y - 1]
    <3>1. 0 \in Nat /\ 0 + n <= Limit
      BY <2>10
    <3>2. QED
      BY <2>3, <2>4, <2>10, <3>1, CellsFields
  <2>12. Cells(m.cell, 0, i) = x
    <3>1. 0 \in Nat /\ 0 + i <= Limit /\ i \in Nat
      BY <2>9, <2>10
    <3>2. /\ Cells(m.cell, 0, i) \in Seq(Nat) /\ Len(Cells(m.cell, 0, i)) = i
          /\ \A y \in 1..i : Cells(m.cell, 0, i)[y] = m.cell[0 + y - 1]
      BY <2>10, <3>1, CellsFields
    <3>3. \A y \in 1..i : Cells(m.cell, 0, i)[y] = x[y]
      <4> TAKE y \in 1..i
      <4>1. y \in 1..n /\ y \in 1..Len(x)
        BY <2>9, <2>10
      <4>2. m.cell[0 + y - 1] = Front(raw)[y] /\ Front(raw)[y] = x[y]
        BY <2>9, <2>11, <4>1
      <4>3. QED
        BY <3>2, <4>2
    <3>4. QED
      BY <2>7, <2>10, <3>2, <3>3, SeqsEqual
  <2>13. Cells(m.cell, i, 2) = c
    <3>1. i \in Nat /\ i + 2 = n /\ i + 2 <= Limit /\ 2 \in Nat
      BY <2>9, <2>10
    <3>2. /\ Cells(m.cell, i, 2) \in Seq(Nat) /\ Len(Cells(m.cell, i, 2)) = 2
          /\ \A y \in 1..2 : Cells(m.cell, i, 2)[y] = m.cell[i + y - 1]
      BY <2>10, <3>1, CellsFields
    <3>3. m.cell[0 + (i + 1) - 1] = c[1] /\ m.cell[0 + (i + 2) - 1] = c[2]
      <4>1. i + 1 \in 1..n /\ i + 2 \in 1..n
        BY <3>1
      <4>2. QED
        BY <2>9, <2>10, <2>11, <4>1
    <3>4. 0 + (i + 1) - 1 = i + 1 - 1 /\ 0 + (i + 2) - 1 = i + 2 - 1 /\ 1 \in 1..2 /\ 2 \in 1..2
      BY <3>1
    <3>5. Cells(m.cell, i, 2)[1] = c[1] /\ Cells(m.cell, i, 2)[2] = c[2]
      BY <3>2, <3>3, <3>4
    <3>6. \A y \in 1..2 : y = 1 \/ y = 2
      OBVIOUS
    <3>7. \A y \in 1..2 : Cells(m.cell, i, 2)[y] = c[y]
      BY <3>5, <3>6
    <3>8. QED
      BY <2>8, <3>2, <3>7, SeqsEqual
  <2>14. ImageWhole
    BY <2>12, <2>13 DEF ImageWhole, i, n, c
  <2>15. op'.code = 0
    BY <1>3, <2>14, LoadedDoes DEF Loading
  <2>16. QED
    BY <1>1, <2>15 DEF Awaits
<1>4. QED
  BY <1>1, <1>2, <1>3 DEF Loading
\* At the start the whole tape is ahead.
LEMMA AwaitStart ==
  ASSUME TypeOK, Await, NEW k, k \in 1..Len(tape.blocks), Loading, Start
  PROVE  Awaits(k)'
<1>1. /\ op.pc = "start" /\ tape' = tape /\ op'.left = op.left /\ tape \in Player
      /\ tape.pos = 1 /\ tape.late = tape.lead /\ op.left = Attempts
  BY StartDoes DEF Await, TypeOK
<1>2. op'.pc = "find"
  BY StartDoes DEF Loading
<1>3. k >= 1 /\ tape.lead \in Nat /\ Attempts \in Nat
  BY <1>1, TapeFields, TapeAssumption
<1>4. Used' = 0 /\ Attempts - op'.left = 0
  BY <1>1, <1>3 DEF Used
<1>5. QED
  BY <1>1, <1>2, <1>3, <1>4 DEF Awaits
\* One step brings an expected file nearer.
LEMMA AwaitStep ==
  ASSUME TypeOK, FramedTape, SpaceSound, PhasesSound, Reading, NEW k, Expected(k), Awaits(k), Rests, Next,
         ~hist'.pressed
  PROVE  Awaits(k)'
<1>1. Loading /\ op.word \notin Saving
  BY DEF Expected, Loading, Saving
<1>2. ~(SendHeader \/ Gap \/ SendByte)
  BY <1>1 DEF SendHeader, Gap, SendByte, PhasesSound, SaveSteps
<1>3. ~DataFailed
  BY DataFailedDoes DEF Awaits
<1>4. ~Press
  BY PressDoes
<1>5. Release => UNCHANGED <<op, tape>>
  BY ReleaseDoes
<1>6. Release => Awaits(k)'
  BY <1>5 DEF Awaits, Used
<1>7. ~PlayBack
  BY <1>1, PlayBackDoes
<1>8. ASSUME Start PROVE FALSE
  BY <1>1, <1>8, StartDoes DEF Rests, Loading
<1>9. Find \/ SearchFailed \/ CheckHeader \/ DataBegins \/ DataByte \/ Loaded \/ Release
  BY <1>2, <1>3, <1>4, <1>7, <1>8 DEF Next, WordStep
<1>10. QED
  BY <1>6, <1>9, AwaitFind, AwaitFailed, AwaitHeader, AwaitData, AwaitByte, AwaitLoaded
\* A good file within the attempts is not passed over.
LEMMA AwaitKept ==
  ASSUME TypeOK, FramedTape, SpaceSound, PhasesSound, Sending, Reading, Await, Next
  PROVE  Await'
<1>1. CASE PlayBack
  <2>1. op'.pc = "start" /\ tape'.pos = 1 /\ tape'.late = 1 /\ tape'.lead = 1 /\ op'.left = Attempts
    BY <1>1, PlayBackDoes
  <2>2. \A k : Awaits(k)'
    BY <2>1 DEF Awaits
  <2>3. QED
    BY <2>1, <2>2 DEF Await
<1>2. CASE Start
  <2>1. SameWord /\ tape' = tape /\ hist'.pressed = hist.pressed /\ op'.pc # "start"
    BY <1>2, StartDoes
  <2>2. ASSUME NEW k \in 1..Len(tape'.blocks), Expected(k)' PROVE Awaits(k)'
    <3>1. Expected(k)
      BY <2>1, <2>2, ExpectedStays DEF SameTape
    <3>2. Loading /\ k \in 1..Len(tape.blocks)
      BY <3>1 DEF Expected
    <3>3. QED
      BY <1>2, <3>2, AwaitStart
  <2>3. QED
    BY <2>1, <2>2 DEF Await
<1>3. CASE Rests
  <2>1. SameWord /\ SameTape /\ (~hist'.pressed => ~hist.pressed)
    BY <1>3 DEF Rests
  <2>2. ASSUME NEW k \in 1..Len(tape'.blocks), Expected(k)' PROVE Awaits(k)'
    <3>1. Expected(k) /\ ~hist'.pressed
      <4>1. ~hist'.pressed
        BY <2>2 DEF Expected
      <4>2. QED
        BY <2>1, <2>2, <4>1, ExpectedStays
    <3>2. Awaits(k)
      BY <3>1 DEF Await, Expected
    <3>3. QED
      BY <1>3, <3>1, <3>2, AwaitStep
  <2>3. op'.pc = "start" => tape'.pos = 1 /\ tape'.late = tape'.lead /\ op'.left = Attempts
    <3>1. ASSUME op'.pc = "start" PROVE op.pc = "start" /\ UNCHANGED <<op, m>>
      BY <1>3, <3>1 DEF Rests
    <3>2. ASSUME op.pc = "start", UNCHANGED op PROVE tape' = tape
      <4>1. ~(SendHeader \/ Gap \/ SendByte \/ Find \/ SearchFailed \/ CheckHeader \/ DataBegins \/ DataByte)
        BY <3>2 DEF SendHeader, Gap, SendByte, Find, SearchFailed, CheckHeader, DataBegins, DataByte
      <4>2. ~(DataFailed \/ Loaded \/ PlayBack \/ Press)
        BY <3>2 DEF DataFailed, Loaded, PlayBack, Press
      <4>3. Start \/ Release
        BY <4>1, <4>2 DEF Next, WordStep
      <4>4. QED
        BY <4>3, StartDoes, ReleaseDoes
    <3>3. QED
      BY <3>1, <3>2 DEF Await
  <2>4. QED
    BY <2>2, <2>3 DEF Await
<1>4. QED
  BY <1>1, <1>2, <1>3, TheRestStays
----------------------------------------------------------------------------
(* The start. *)
\* The scene in memory and on the tape.
LEMMA InitDoes ==
  ASSUME Init
  PROVE  /\ TypeOK /\ op.pc = "start" /\ op.word = scene.word /\ op.code = 0 /\ op.left = Attempts /\ out = <<>> /\ space = FALSE
         /\ tape.blocks = scene.tape /\ tape.pos = 1 /\ tape.late = tape.lead
         /\ m.here = Len(scene.dict)
<1>1. scene \in Scenes /\ SceneSound(scene) /\ out = <<>> /\ space = FALSE
  BY SceneFields DEF Init
<1>2. /\ scene.word \in Words /\ scene.name \in Name /\ scene.dict \in Seq(Nat) /\ Len(scene.dict) <= DictCap
      /\ scene.latest \in Nat /\ scene.text \in Seq(Nat) /\ Len(scene.text) <= TextCap
      /\ scene.late \in Nat /\ scene.tape \in Seq(Block)
  BY <1>1 DEF SceneSound
<1>3. /\ op \in Op /\ op.pc = "start" /\ op.word = scene.word /\ op.left = Attempts /\ op.code = 0
  BY <1>2, NewWord DEF Init
<1>4. tape \in Player /\ tape.blocks = scene.tape /\ tape.pos = 1 /\ tape.late = tape.lead
  BY <1>2 DEF Init, Player
<1> DEFINE At(x) == IF x < Len(scene.dict) THEN scene.dict[x + 1]
                    ELSE IF x \in DictCap..DictCap + Len(scene.text) - 1 THEN scene.text[x - DictCap + 1] ELSE 0
           c == [x \in 0..Limit - 1 |-> At(x)]
<1>5. DictCap \in Nat /\ TextCap \in Nat /\ Len(scene.dict) \in Nat /\ Len(scene.text) \in Nat
  BY <1>2, TapeAssumption
<1>6. \A x \in 0..Limit - 1 : At(x) \in Nat
  <2> TAKE x \in 0..Limit - 1
  <2>0. x \in Nat
    OBVIOUS
  <2>1. CASE x < Len(scene.dict)
    <3>1. x + 1 \in 1..Len(scene.dict)
      BY <1>5, <2>0, <2>1
    <3>2. scene.dict[x + 1] \in Nat
      BY <1>2, <3>1
    <3>3. QED
      BY <2>1, <3>2
  <2>2. CASE ~(x < Len(scene.dict)) /\ x \in DictCap..DictCap + Len(scene.text) - 1
    <3>1. x - DictCap + 1 \in 1..Len(scene.text)
      BY <1>5, <2>0, <2>2
    <3>2. scene.text[x - DictCap + 1] \in Nat
      BY <1>2, <3>1
    <3>3. QED
      BY <2>2, <3>2
  <2>3. CASE ~(x < Len(scene.dict)) /\ x \notin DictCap..DictCap + Len(scene.text) - 1
    BY <2>3
  <2>4. QED
    BY <2>1, <2>2, <2>3
<1> HIDE DEF At
<1>7. c \in [0..Limit - 1 -> Nat]
  BY <1>6
<1>8. m = [cell |-> c, here |-> Len(scene.dict), latest |-> scene.latest, end |-> DictCap + Len(scene.text)]
  BY DEF Init, At
<1> HIDE DEF c
<1>9. Len(scene.dict) \in 0..DictCap /\ DictCap + Len(scene.text) \in DictCap..Limit
  BY <1>2, <1>5 DEF Limit
<1>10. m \in Mem /\ m.here = Len(scene.dict)
  BY <1>2, <1>7, <1>8, <1>9 DEF Mem
<1>11. hist \in Hist
  BY <1>10 DEF Init, Hist
<1>12. TypeOK
  <2>1. out \in Seq(Block) /\ space \in BOOLEAN
    <3>1. out = <<>> /\ space = FALSE
      BY <1>1
    <3>2. <<>> \in Seq(Block)
      OBVIOUS
    <3>3. QED
      BY <3>1, <3>2
  <2>2. QED
    BY <1>1, <1>3, <1>4, <1>10, <1>11, <2>1 DEF TypeOK
<1>13. QED
  BY <1>1, <1>3, <1>4, <1>10, <1>12

\* The inductive invariant: what the word has done so far, and what it still may do.
IInv == TypeOK /\ PhasesSound /\ Sending /\ CrcSound /\ SpaceSound /\ FramedTape /\ Reading /\ Kept /\ Gained /\ Await
\* The invariant holds at the start, given room for VERIFY-LIB's CRC.
LEMMA InitIInv ==
  ASSUME RoomToVerify, Init
  PROVE  IInv
<1>1. /\ TypeOK /\ op.pc = "start" /\ op.word = scene.word /\ op.code = 0 /\ op.left = Attempts /\ out = <<>> /\ space = FALSE
      /\ tape.blocks = scene.tape /\ tape.pos = 1 /\ tape.late = tape.lead /\ m.here = Len(scene.dict)
      /\ scene \in Scenes
  BY InitDoes DEF Init
<1>2. PhasesSound
  BY <1>1 DEF PhasesSound, SaveSteps, ReadSteps, TakenSteps, RoomToVerify, HasRoom
<1>3. Sending /\ CrcSound /\ Reading /\ Kept /\ Gained
  BY <1>1 DEF Sending, CrcSound, Reading, Kept, Gained
<1>4. SpaceSound
  BY <1>1 DEF SpaceSound, Stopped
<1>5. FramedTape
  <2>1. \A k \in DOMAIN scene.tape : Framed(scene.tape[k])
    BY <1>1, SceneFields DEF SceneSound
  <2>2. scene.tape \in Seq(Block)
    BY <1>1, SceneFields DEF SceneSound
  <2>3. DOMAIN scene.tape = 1..Len(scene.tape)
    BY <2>2
  <2>4. QED
    BY <1>1, <2>1, <2>3 DEF FramedTape
<1>6. Await
  BY <1>1 DEF Await, Awaits
<1>7. QED
  BY <1>1, <1>2, <1>3, <1>4, <1>5, <1>6 DEF IInv
\* Every step keeps it.
LEMMA IInvKept ==
  ASSUME IInv, [Next]_vars
  PROVE  IInv'
<1>1. CASE Next
  <2>1. TypeOK' /\ PhasesSound'
    BY <1>1, TheRestStays, PhasesKept DEF IInv
  <2>2. Sending' /\ CrcSound' /\ SpaceSound' /\ FramedTape'
    BY <1>1, SendingKept, CrcKept, SpaceKept, FramedKept DEF IInv
  <2>3. Reading'
    BY <1>1, ReadingKept DEF IInv
  <2>4. Kept'
    BY <1>1, KeptKept DEF IInv
  <2>5. Gained'
    BY <1>1, GainedKept DEF IInv
  <2>6. Await'
    BY <1>1, AwaitKept DEF IInv
  <2>7. QED
    BY <2>1, <2>2, <2>3, <2>4, <2>5, <2>6 DEF IInv
<1>2. CASE UNCHANGED vars
  <2>1. UNCHANGED <<scene, m, op, tape, out, space, hist>>
    BY <1>2 DEF vars
  <2>2. TypeOK' /\ FramedTape'
    BY <2>1 DEF IInv, TypeOK, FramedTape
  <2>3. SameWord /\ SameTape /\ SameRead /\ SameHead /\ op'.head = op.head
    BY <2>1 DEF SameWord, SameTape, SameRead, SameHead
  <2>4. PhasesSound'
    <3>1. op.pc \in TakenSteps => Matches(op.head)' /\ Acceptable(op.head)'
      BY <2>3, AcceptKept DEF IInv, PhasesSound
    <3>2. QED
      BY <2>1, <3>1 DEF IInv, PhasesSound
  <2>5. Sending'
    <3>1. Image' = Image /\ SavedHeader' = SavedHeader
      BY <2>1, <2>3, SavedKept
    <3>2. QED
      BY <2>1, <3>1 DEF IInv, Sending
  <2>6. CrcSound' /\ SpaceSound'
    <3>1. DictNow' = DictNow
      BY <2>1 DEF DictNow
    <3>2. CrcBehind => CrcBehind'
      BY <2>1, <3>1 DEF CrcBehind
    <3>3. QED
      BY <2>1, <3>2 DEF IInv, CrcSound, SpaceSound
  <2>7. Reading'
    <3>1. Base' = Base /\ Got' = Got /\ Raw' = Raw
      BY <2>1, <2>3, BaseStays DEF Raw
    <3>2. \A d : HeaderBehind(d) => HeaderBehind(d)'
      BY <2>1 DEF HeaderBehind
    <3>3. Receiving => Receiving'
      BY <2>1, <3>1, <3>2 DEF Receiving
    <3>4. QED
      BY <2>1, <3>1, <3>2, <3>3 DEF IInv, Reading
  <2>8. Kept'
    BY <2>1 DEF IInv, Kept, TextStands, DictStands, AllButCrc, Untouched, Failed
  <2>9. Gained'
    BY <2>1, GainedStays DEF IInv
  <2>10. Await'
    <3>1. \A k : Expected(k)' => Expected(k)
      BY <2>1, <2>3, ExpectedStays
    <3>2. \A k : Awaits(k) => Awaits(k)'
      BY <2>1 DEF Awaits, Used
    <3>3. QED
      BY <2>1, <3>1, <3>2 DEF IInv, Await
  <2>11. QED
    BY <2>2, <2>4, <2>5, <2>6, <2>7, <2>8, <2>9, <2>10 DEF IInv
<1>3. QED
  BY <1>1, <1>2
----------------------------------------------------------------------------
(* What the invariant says when the word is done. *)
\* Nothing is received outside the word's area.
LEMMA AreaKept ==
  ASSUME IInv
  PROVE  InArea
<1> SUFFICES ASSUME op.pc = "byte" PROVE IF IsLib THEN op.ix + op.de <= DictCap ELSE op.ix \in DictCap..Limit /\ op.ix + op.de <= Limit
  BY DEF InArea
<1>1. /\ op \in Op /\ m \in Mem /\ Receiving /\ Acceptable(op.head) /\ op.word \notin Saving
      /\ (op.word = "VERIFY-LIB" => m.here + 2 <= DictCap)
  BY DEF IInv, TypeOK, Reading, PhasesSound, TakenSteps, ReadSteps
<1>2. /\ Base \in Nat /\ Base + op.head.length <= Limit /\ op.head.length <= IF IsLib THEN DictCap ELSE TextCap
      /\ Base = IF IsLib THEN 0 ELSE DictCap
  BY <1>1, AreaIsMemory
<1>3. Got \in Nat /\ Got + op.de = op.head.length /\ Got = op.ix - Base
  BY <1>1 DEF Receiving, Got
<1>4. op.ix \in Nat /\ op.de \in Nat /\ op.head.length \in Nat /\ DictCap \in Nat /\ Limit \in Nat
  BY <1>1, OpFields, MemFields DEF Heads
<1>5. op.ix + op.de = Base + op.head.length /\ op.ix >= Base /\ op.ix <= op.ix + op.de
  BY <1>2, <1>3, <1>4
<1>6. CASE IsLib
  <2>1. op.ix + op.de <= DictCap
    BY <1>2, <1>4, <1>5, <1>6
  <2>2. QED
    BY <1>6, <2>1
<1>7. CASE ~IsLib
  <2>1. Base = DictCap
    BY <1>2, <1>7
  <2>2. op.ix + op.de <= Limit /\ op.ix \in DictCap..Limit
    BY <1>2, <1>4, <1>5, <2>1
  <2>3. QED
    BY <1>7, <2>2
<1>8. QED
  BY <1>6, <1>7
\* Cells that nobody wrote read the same.
LEMMA CellsStand ==
  ASSUME NEW c, NEW d, NEW from \in Nat, NEW n \in Nat, \A x \in from..from + n - 1 : c[x] = d[x]
  PROVE  Cells(c, from, n) = Cells(d, from, n)
<1>1. \A k \in 1..n : from + k - 1 \in from..from + n - 1
  OBVIOUS
<1>2. \A k \in 1..n : c[from + k - 1] = d[from + k - 1]
  BY <1>1
<1>3. [k \in 1..n |-> c[from + k - 1]] = [k \in 1..n |-> d[from + k - 1]]
  BY <1>2, Zenon
<1>4. QED
  BY <1>3, Zenon DEF Cells
\* Unchanged cells are an unchanged text, and an unchanged dictionary.
LEMMA TextIsSame ==
  ASSUME TypeOK, m.end = hist.start.end, \A x \in DictCap..Limit - 1 : m.cell[x] = hist.start.cell[x]
  PROVE  SameText
<1>1. m.end \in DictCap..Limit /\ DictCap \in Nat /\ Limit \in Nat
  BY MemFields DEF TypeOK
<1> DEFINE n == m.end - DictCap
<1>2. n \in Nat /\ \A x \in DictCap..DictCap + n - 1 : x \in DictCap..Limit - 1
  BY <1>1
<1> DEFINE c == m.cell
           d == hist.start.cell
<1> HIDE DEF n
<1>3. \A x \in DictCap..Limit - 1 : c[x] = d[x]
  OBVIOUS
<1> HIDE DEF c, d
<1>4. \A x \in DictCap..DictCap + n - 1 : c[x] = d[x]
  BY <1>2, <1>3
<1>5. Cells(c, DictCap, n) = Cells(d, DictCap, n)
  BY <1>1, <1>2, <1>4, CellsStand
<1>6. QED
  BY <1>5 DEF SameText, TextNow, n, c, d
LEMMA DictIsSame ==
  ASSUME TypeOK, m.here = hist.start.here, m.latest = hist.start.latest,
         \A x \in 0..m.here - 1 : m.cell[x] = hist.start.cell[x]
  PROVE  SameDict
<1>1. m.here \in Nat /\ 0 + m.here - 1 = m.here - 1 /\ 0 \in Nat
  BY MemFields DEF TypeOK
<1>2. \A x \in 0..0 + m.here - 1 : m.cell[x] = hist.start.cell[x]
  BY <1>1
<1> DEFINE c == m.cell
           d == hist.start.cell
           n == m.here
<1>3. n \in Nat /\ 0 \in Nat /\ \A x \in 0..0 + n - 1 : c[x] = d[x]
  BY <1>1, <1>2
<1> HIDE DEF c, d, n
<1>4. Cells(c, 0, n) = Cells(d, 0, n)
  BY <1>3, CellsStand
<1>5. QED
  BY <1>4 DEF SameDict, c, d, n
\* A CRC behind the dictionary is in neither.
LEMMA AllButCrcIsSame ==
  ASSUME TypeOK, AllButCrc
  PROVE  SameDict /\ SameText
<1>1. m.here \in 0..DictCap /\ DictCap \in Nat /\ Limit \in Nat /\ DictCap <= Limit
  BY MemFields DEF TypeOK
<1>2. \A x \in 0..m.here - 1 : x \in 0..Limit - 1 /\ x # m.here /\ x # m.here + 1
  BY <1>1
<1>3. \A x \in DictCap..Limit - 1 : x \in 0..Limit - 1 /\ x >= DictCap
  BY <1>1
<1>4. /\ m.here = hist.start.here /\ m.latest = hist.start.latest /\ m.end = hist.start.end
      /\ \A x \in 0..Limit - 1 : (x # m.here /\ x # m.here + 1) \/ x >= DictCap => m.cell[x] = hist.start.cell[x]
  BY DEF AllButCrc
<1>5. \A x \in 0..m.here - 1 : m.cell[x] = hist.start.cell[x]
  BY <1>2, <1>4
<1>6. \A x \in DictCap..Limit - 1 : m.cell[x] = hist.start.cell[x]
  BY <1>3, <1>4
<1>7. QED
  BY <1>4, <1>5, <1>6, DictIsSame, TextIsSame
\* The memory of the start has the dictionary and the text of the start.
LEMMA StartIsSame ==
  ASSUME TypeOK, m = hist.start
  PROVE  SameDict /\ SameText
  BY DEF SameDict, SameText, TextNow
\* The promises, one by one.
LEMMA DoneLoadLib ==
  ASSUME IInv, Done
  PROVE  LoadLibPromise
<1> SUFFICES ASSUME op.word = "LOAD-LIB"
             PROVE  /\ SameText
                    /\ IF op.code = 0
                       THEN \E k \in DOMAIN tape.blocks :
                              /\ Read(k) /\ tape.blocks[k].head.p1 = Identity /\ tape.blocks[k].head.p2 = m.latest
                              /\ Bytes(k) = DictNow \o CrcBytes(DictNow)
                       ELSE SameDict \/ (m.here = 0 /\ m.latest = Cold)
  BY DEF LoadLibPromise
<1>1. op.pc = "done" /\ TypeOK /\ Kept /\ Gained /\ tape \in Player
  BY DEF IInv, Done, TypeOK
<1>2. TextStands /\ (op.code # 0 => m = hist.start \/ (m.here = 0 /\ m.latest = Cold))
  BY <1>1 DEF Kept, Failed
<1>3. SameText
  BY <1>1, <1>2, TextIsSame DEF TextStands
<1>4. op.code # 0 => SameDict \/ (m.here = 0 /\ m.latest = Cold)
  BY <1>1, <1>2, StartIsSame
<1>5. ASSUME op.code = 0
      PROVE  \E k \in DOMAIN tape.blocks :
               /\ Read(k) /\ tape.blocks[k].head.p1 = Identity /\ tape.blocks[k].head.p2 = m.latest
               /\ Bytes(k) = DictNow \o CrcBytes(DictNow)
  <2>1. PICK k \in 1..Len(tape.blocks) : GainedLib(k)
    BY <1>1, <1>5 DEF Gained
  <2>2. k \in DOMAIN tape.blocks
    BY <1>1, <2>1, TapeFields
  <2>3. QED
    BY <2>1, <2>2 DEF GainedLib
<1>6. QED
  BY <1>3, <1>4, <1>5
LEMMA DoneLoadText ==
  ASSUME IInv, Done
  PROVE  LoadTextPromise
<1> SUFFICES ASSUME op.word = "LOAD-TEXT"
             PROVE  /\ SameDict
                    /\ IF op.code = 0
                       THEN \E k \in DOMAIN tape.blocks :
                              /\ Read(k)
                              /\ \/ TextNow = Bytes(k) /\ (TextNow = <<>> \/ Last(TextNow) = CR \/ m.end = Limit)
                                 \/ TextNow = Append(Bytes(k), CR)
                       ELSE m.end = hist.start.end
  BY DEF LoadTextPromise
<1>1. op.pc = "done" /\ TypeOK /\ Kept /\ Gained /\ tape \in Player /\ m \in Mem
  BY DEF IInv, Done, TypeOK
<1>2. DictStands /\ (op.code # 0 => m.end = hist.start.end)
  BY <1>1 DEF Kept
<1>3. SameDict
  <2>1. \A x \in 0..m.here - 1 : x \in 0..DictCap - 1
    BY <1>1, MemFields
  <2>2. QED
    BY <1>1, <1>2, <2>1, DictIsSame DEF DictStands
<1>4. ASSUME op.code = 0
      PROVE  \E k \in DOMAIN tape.blocks :
               /\ Read(k)
               /\ \/ TextNow = Bytes(k) /\ (TextNow = <<>> \/ Last(TextNow) = CR \/ m.end = Limit)
                  \/ TextNow = Append(Bytes(k), CR)
  <2>1. PICK k \in 1..Len(tape.blocks) : GainedText(k)
    BY <1>1, <1>4 DEF Gained
  <2>2. k \in DOMAIN tape.blocks
    BY <1>1, <2>1, TapeFields
  <2>3. QED
    BY <2>1, <2>2 DEF GainedText
<1>5. QED
  BY <1>2, <1>3, <1>4
LEMMA DoneSaveVerify ==
  ASSUME IInv, Done
  PROVE  SaveVerifyPromise
<1> SUFFICES ASSUME op.word \notin {"LOAD-LIB", "LOAD-TEXT"}
             PROVE  /\ SameDict /\ SameText
                    /\ op.word = "VERIFY-LIB" /\ op.code = 0 =>
                         \E k \in DOMAIN tape.blocks : Read(k) /\ Bytes(k) = DictNow \o CrcBytes(DictNow)
                    /\ op.word = "VERIFY-TEXT" /\ op.code = 0 =>
                         \E k \in DOMAIN tape.blocks : Read(k) /\ Bytes(k) = TextNow
                    /\ op.word \in {"SAVE-LIB", "SAVE-TEXT"} =>
                         IF op.code = 0
                         THEN out = <<SavedHeader, Data(FlagData, Image)>> /\ (IsLib => Image = DictNow \o CrcBytes(DictNow))
                         ELSE \A k \in DOMAIN out : out[k].flag = FlagData => ~out[k].good
  BY DEF SaveVerifyPromise
<1>1. /\ op.pc = "done" /\ TypeOK /\ Kept /\ Gained /\ Sending /\ CrcSound /\ tape \in Player /\ m \in Mem /\ op \in Op
      /\ op.word \in Words
  BY OpFields DEF IInv, Done, TypeOK
<1>2. SameDict /\ SameText
  <2>1. CASE op.word \in {"SAVE-TEXT", "VERIFY-TEXT"}
    BY <1>1, <2>1, StartIsSame DEF Kept
  <2>2. CASE op.word \in {"SAVE-LIB", "VERIFY-LIB"}
    BY <1>1, <2>2, AllButCrcIsSame DEF Kept
  <2>3. QED
    BY <1>1, <2>1, <2>2 DEF Words
<1>3. DOMAIN tape.blocks = 1..Len(tape.blocks)
  BY <1>1, TapeFields
<1>4. ASSUME op.word = "VERIFY-LIB", op.code = 0
      PROVE  \E k \in DOMAIN tape.blocks : Read(k) /\ Bytes(k) = DictNow \o CrcBytes(DictNow)
  BY <1>1, <1>3, <1>4 DEF Gained
<1>5. ASSUME op.word = "VERIFY-TEXT", op.code = 0
      PROVE  \E k \in DOMAIN tape.blocks : Read(k) /\ Bytes(k) = TextNow
  BY <1>1, <1>3, <1>5 DEF Gained
<1>6. ASSUME op.word \in {"SAVE-LIB", "SAVE-TEXT"}, op.code = 0, IsLib
      PROVE  Image = DictNow \o CrcBytes(DictNow)
  <2>1. CrcBehind
    BY <1>1, <1>6 DEF CrcSound, IsLib
  <2> DEFINE t == CrcBytes(DictNow)
  <2>2. /\ m.cell \in [0..Limit - 1 -> Nat] /\ m.here \in Nat /\ m.here + 2 <= Limit /\ Limit \in Nat
    BY <1>1, <2>1, MemFields DEF CrcBehind
  <2>3. DictNow \in Seq(Nat)
    <3>1. 0 \in Nat /\ 0 + m.here <= Limit
      BY <2>2
    <3>2. QED
      BY <2>2, <3>1, CellsFields DEF DictNow
  <2>4. t \in Seq(Nat) /\ Len(t) = 2
    BY <2>3, CrcIsTwoBytes
  <2>5. m.cell[m.here] = t[1] /\ m.cell[m.here + 1] = t[2]
    BY <2>1 DEF CrcBehind
  <2> HIDE DEF t
  <2>6. Cells(m.cell, 0, m.here + 2) = Cells(m.cell, 0, m.here) \o t
    <3> DEFINE c == m.cell
               n == m.here
    <3>1. c \in [0..Limit - 1 -> Nat] /\ n \in Nat /\ n + 2 <= Limit /\ Limit \in Nat /\ c[n] = t[1] /\ c[n + 1] = t[2]
      BY <2>2, <2>5
    <3> HIDE DEF c, n
    <3>2. Cells(c, 0, n + 2) = Cells(c, 0, n) \o t
      BY <2>4, <3>1, CellsSplit
    <3>3. QED
      BY <3>2 DEF c, n
  <2>7. QED
    BY <1>6, <2>6 DEF Image, DictNow, t
<1>7. ASSUME op.word \in {"SAVE-LIB", "SAVE-TEXT"}
      PROVE  IF op.code = 0 THEN out = <<SavedHeader, Data(FlagData, Image)>>
             ELSE \A k \in DOMAIN out : out[k].flag = FlagData => ~out[k].good
  BY <1>1, <1>7 DEF Sending, Saving
<1>8. QED
  BY <1>2, <1>4, <1>5, <1>6, <1>7
LEMMA DoneSpace ==
  ASSUME IInv, Done
  PROVE  SpacePromise
<1>1. op.pc = "done" /\ SpaceSound /\ Await /\ tape \in Player
  BY DEF IInv, Done, TypeOK
<1>2. op.code = Stopped => hist.seen
  BY <1>1 DEF SpaceSound
<1>3. ASSUME NEW k \in DOMAIN tape.blocks,
             op.word \in {"LOAD-LIB", "LOAD-TEXT"}, ~hist.pressed, Whole(k), k + tape.lead <= Attempts,
             tape.blocks[k].head.length <= (IF IsLib THEN DictCap ELSE TextCap),
             \A j \in 1..k - 1 : ~Candidate(j)
      PROVE  op.code = 0
  <2>1. k \in 1..Len(tape.blocks)
    BY <1>1, TapeFields
  <2>2. Expected(k)
    BY <1>3, <2>1 DEF Expected, Loading
  <2>3. QED
    BY <1>1, <2>1, <2>2 DEF Await, Awaits
<1>4. QED
  BY <1>2, <1>3 DEF SpacePromise

----------------------------------------------------------------------------
\* The memory, the word's progress, the tape and what was sent keep their types: no word leaves
\* HERE, STORE_END or a cell outside the areas of storage.asm.
THEOREM TypesKept == RoomToVerify => (Spec => []TypeOK)
<1>1. RoomToVerify /\ Init => IInv
  BY InitIInv
<1>2. IInv /\ [Next]_vars => IInv'
  BY IInvKept
<1>3. IInv => TypeOK
  BY DEF IInv
<1>4. QED
  BY <1>1, <1>2, <1>3, PTL DEF Spec
\* Each of the six words keeps its promise when it is done, and writes nothing outside its area
\* on the way (storage.asm, loadtext.asm), for every dictionary, text and tape of sound scenes
\* in which VERIFY-LIB has room for its CRC.
THEOREM PromiseKept == RoomToVerify => (Spec => []Promise)
<1>1. RoomToVerify /\ Init => IInv
  BY InitIInv
<1>2. IInv /\ [Next]_vars => IInv'
  BY IInvKept
<1>3. IInv => Promise
  BY AreaKept, DoneLoadLib, DoneLoadText, DoneSaveVerify, DoneSpace DEF Promise
<1>4. QED
  BY <1>1, <1>2, <1>3, PTL DEF Spec
=============================================================================
