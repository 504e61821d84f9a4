--------------------------- MODULE LineStoreProofs ---------------------------
(***************************************************************************)
(* What a trim takes off and what the store never writes, for every size of *)
(* the store and of the edit line, every text on tape and every nesting.    *)
(* Then that no session is left open, and that every source is read from    *)
(* where it was read to.  Only these last two assume anything: the session  *)
(* that BREAK is shielded while EDIT marks it, the sources that nothing is  *)
(* overwritten before it is read and that CATCH stays on the console's line.*)
(***************************************************************************)
EXTENDS LineStore, FiniteSetTheorems, SequenceTheorems, WellFoundedInduction, TLAPS

-----------------------------------------------------------------------------
(* Minima and maxima.                                                       *)

\* A nonempty set of naturals has a minimum (EDIT_NEXT_MARK's first mark,
\* STORE_NEXT's first terminator).
LEMMA MinOf ==
  ASSUME NEW S \in SUBSET Nat, S # {}
  PROVE  Min(S) \in S /\ \A x \in S : Min(S) <= x
<1> DEFINE below == {0 .. s : s \in S}
           R == StrictSubsetOrdering(Nat)
<1>1. below \subseteq FiniteSubsetsOf(Nat) /\ below # {}
  <2>1. \A s \in S : IsFiniteSet(0 .. s)
    BY FS_Interval
  <2>2. \A s \in S : 0 .. s \in FiniteSubsetsOf(Nat)
    BY <2>1 DEF FiniteSubsetsOf
  <2>3. QED
    BY <2>2
<1>2. PICK M \in below : \A B \in below : ~ (<<B, M>> \in R)
  <2> HIDE DEF below, R
  <2>1. IsWellFoundedOn(R, FiniteSubsetsOf(Nat))
    BY FS_StrictSubsetOrderingWellFounded DEF R
  <2>2. QED
    BY <1>1, <2>1, WFMin, Zenon
<1>3. PICK m \in S : M = 0 .. m
  BY <1>2
<1>4. \A y \in S : m <= y
  <2>1. SUFFICES ASSUME NEW y \in S, y < m PROVE FALSE
    OBVIOUS
  <2>2. 0 .. y \subseteq 0 .. m /\ m \notin 0 .. y /\ m \in 0 .. m
    BY <2>1
  <2>3. <<0 .. y, 0 .. m>> \in R
    BY <2>2 DEF StrictSubsetOrdering
  <2>4. QED
    BY <1>2, <1>3, <2>3
<1>5. QED
  BY <1>4 DEF Min

\* A nonempty bounded set of naturals has a maximum (the innermost CATCH).
LEMMA MaxOf ==
  ASSUME NEW n \in Nat, NEW S \in SUBSET (0 .. n), S # {}
  PROVE  Max(S) \in S /\ \A x \in S : x <= Max(S)
<1> DEFINE T == {n - x : x \in S}
<1>1. T \in SUBSET Nat /\ T # {}
  <2>1. \A x \in S : n - x \in Nat
    OBVIOUS
  <2>2. QED
    BY <2>1
<1>2. PICK m \in T : \A y \in T : m <= y
  BY <1>1, MinOf, Zenon
<1>3. PICK x \in S : m = n - x
  BY <1>2
<1>4. \A y \in S : y <= x
  BY <1>2, <1>3
<1>5. QED
  BY <1>4 DEF Max
-----------------------------------------------------------------------------
(* Text in memory.                                                          *)

Cells == Written \cup Terminators

\* Where things are: EDIT_BUF, the store, the cells above it.
LEMMA Sizes ==
  /\ EDIT_MAX_LEN \in Nat /\ 1 <= EDIT_MAX_LEN
  /\ StoreCells \in Nat /\ 1 <= StoreCells
  /\ STORE_START = EDIT_MAX_LEN + 2 /\ STORE_LIMIT = STORE_START + StoreCells
  /\ Memory = 1 .. STORE_LIMIT + 1
BY StoreAssumption DEF STORE_START, STORE_LIMIT, Memory, EDIT_BUF

\* Putting a text in memory writes its cells and no others.
LEMMA PutCells ==
  ASSUME NEW m \in [Memory -> Cells], NEW a \in Int, NEW t \in Seq(Cells)
  PROVE  /\ Put(m, a, t) \in [Memory -> Cells]
         /\ \A b \in Memory : Put(m, a, t)[b] =
              IF a <= b /\ b < a + Len(t) THEN t[b - a + 1] ELSE m[b]
<1>1. Memory \subseteq Int
  BY Sizes
<1>2. Len(t) \in Nat /\ \A i \in 1 .. Len(t) : t[i] \in Cells
  OBVIOUS
<1>3. DOMAIN m = Memory
  OBVIOUS
<1> HIDE DEF Cells, Memory
<1>4. QED
  BY <1>1, <1>2, <1>3 DEF Put

\* The text between two addresses is a text of cells, as long as they are apart.
LEMMA TextInMemory ==
  ASSUME NEW m \in [Memory -> Cells], NEW a \in Memory, NEW b \in Int,
         a <= b, b <= STORE_LIMIT + 2
  PROVE  /\ TextIn(m, a, b) \in Seq(Cells)
         /\ Len(TextIn(m, a, b)) = b - a
         /\ \A i \in 1 .. b - a : TextIn(m, a, b)[i] = m[a + i - 1]
<1>1. /\ a \in Nat /\ 1 <= a /\ b - a \in Nat
      /\ \A i \in 1 .. b - a : a + i - 1 \in Memory
  BY Sizes
<1>2. \A i \in 1 .. b - a : m[a + i - 1] \in Cells
  BY <1>1
<1>3. TextIn(m, a, b) \in [1 .. b - a -> Cells]
  BY <1>2 DEF TextIn
<1>4. QED
  BY <1>1, <1>3 DEF TextIn

\* A run of one word.
LEMMA RepeatedCells ==
  ASSUME NEW w \in Cells, NEW n \in Nat
  PROVE  /\ Repeated(w, n) \in Seq(Cells) /\ Len(Repeated(w, n)) = n
         /\ \A i \in 1 .. n : Repeated(w, n)[i] = w
<1>1. Repeated(w, n) \in [1 .. n -> Cells]
  BY DEF Repeated
<1>2. QED
  BY <1>1 DEF Repeated
-----------------------------------------------------------------------------
(* The store's own invariant.                                               *)

\* The texts on tape that are as long as the store end in a CR, as those
\* SAVE-TEXT writes do.
FullTextsEnd == \A t \in Tapes : Len(t) = StoreCells => t[StoreCells] \in Terminators

StoreInv ==
  /\ mem \in [Memory -> Cells]
  /\ storeEnd \in STORE_START .. STORE_LIMIT
  /\ lastLine \in {0} \cup STORE_START .. STORE_LIMIT - 1
  /\ FullTextsEnd => mem[STORE_LIMIT - 1] \in Terminators   \* no scan passes the end
  /\ mem[STORE_LIMIT + 1] = CR               \* every line ends somewhere
  /\ pc = "view" => Terminated

AboveSame == \A a \in STORE_LIMIT .. STORE_LIMIT + 1 : mem'[a] = mem[a]

\* A line of the store starts in it, ends in it if the store is terminated, and
\* its text is as long as the two are apart.
LEMMA LineEnds ==
  ASSUME StoreInv, NEW a \in LineStarts
  PROVE  /\ a \in STORE_START .. storeEnd - 1
         /\ LineEnd(a) \in a .. STORE_LIMIT + 1
         /\ mem[LineEnd(a)] \in Terminators
         /\ Terminated => LineEnd(a) \in a .. storeEnd - 1
<1> DEFINE T == {b \in a .. STORE_LIMIT + 1 : mem[b] \in Terminators}
<1>1. a \in STORE_START .. storeEnd - 1 /\ a \in Nat /\ storeEnd \in Nat
  BY Sizes DEF LineStarts, StoreInv
<1>2. STORE_LIMIT + 1 \in T
  BY <1>1, Sizes DEF StoreInv, Terminators
<1>3. T \in SUBSET Nat /\ T # {}
  BY <1>1, <1>2
<1>4. LineEnd(a) = Min(T)
  BY DEF LineEnd
<1>5. Min(T) \in T /\ \A x \in T : Min(T) <= x
  BY <1>3, MinOf, Zenon
<1>6. Terminated => storeEnd - 1 \in T
  BY <1>1, Sizes DEF Terminated, StoreInv
<1>7. QED
  BY <1>1, <1>4, <1>5, <1>6, Sizes DEF StoreInv

\* A line that starts below STORE_END has no mark at or above STORE_LIMIT: the
\* last cell of the store ends a line.
LEMMA MarksInStore ==
  ASSUME StoreInv, FullTextsEnd
  PROVE  Marks \subseteq STORE_START .. STORE_LIMIT - 1
<1> DEFINE S == {STORE_START} \cup
                 {c + 1 : c \in {c \in STORE_START .. STORE_LIMIT - 1 : mem[c] \in Terminators}}
<1>1. S \in SUBSET (0 .. STORE_LIMIT) /\ STORE_LIMIT \in S
  <2>1. \A c \in STORE_START .. STORE_LIMIT - 1 : c + 1 \in 0 .. STORE_LIMIT
    BY Sizes
  <2>2. STORE_LIMIT - 1 \in STORE_START .. STORE_LIMIT - 1 /\ (STORE_LIMIT - 1) + 1 = STORE_LIMIT
    BY Sizes
  <2>3. STORE_LIMIT \in S
    BY <2>2 DEF StoreInv
  <2>4. QED
    BY <2>1, <2>3, Sizes
<1>2. \A x \in S : x <= Max(S)
  <2>1. STORE_LIMIT \in Nat /\ S # {}
    BY <1>1, Sizes
  <2> HIDE DEF S
  <2>2. QED
    BY <1>1, <2>1, MaxOf, Zenon
<1>3. LineStart(STORE_LIMIT) = Max(S)
  BY DEF LineStart
<1>4. Max(S) \in S
  <2>1. STORE_LIMIT \in Nat /\ S # {}
    BY <1>1, Sizes
  <2> HIDE DEF S
  <2>2. QED
    BY <1>1, <2>1, MaxOf, Zenon
<1>5. STORE_LIMIT \notin Marks
  <2>1. Max(S) \in Nat /\ STORE_LIMIT <= Max(S)
    BY <1>1, <1>2, <1>4
  <2>2. ~ (LineStart(STORE_LIMIT) < storeEnd)
    BY <1>3, <2>1, Sizes DEF StoreInv
  <2>3. QED
    BY <2>2 DEF Marks
<1>6. STORE_LIMIT + 1 \notin Marks
  BY DEF Marks, StoreInv, CR, MARK
<1>7. QED
  BY <1>5, <1>6, Sizes DEF Marks

\* Clearing marks (the commit loop, EDIT_CLEAR_MARKS) keeps the invariant and
\* touches nothing above the store.
LEMMA MarksCleared ==
  ASSUME StoreInv, NEW marks \in SUBSET Marks, mem' = Cleared(marks),
         storeEnd' = storeEnd, lastLine' = lastLine, pc' # "view"
  PROVE  StoreInv' /\ (FullTextsEnd => AboveSame)
<1>1. \A b \in Memory : mem'[b] = IF b \in marks THEN CR ELSE mem[b]
  BY DEF Cleared
<1>2. mem' \in [Memory -> Cells]
  BY DEF Cleared, StoreInv, Cells, Terminators
<1>3. FullTextsEnd => AboveSame
  <2>1. FullTextsEnd => marks \subseteq STORE_START .. STORE_LIMIT - 1
    BY MarksInStore
  <2>2. QED
    BY <1>1, <2>1, Sizes DEF AboveSame
<1>4. FullTextsEnd => mem'[STORE_LIMIT - 1] \in Terminators
  BY <1>1, Sizes DEF StoreInv, Terminators
<1>5. mem'[STORE_LIMIT + 1] = CR
  BY <1>1, Sizes DEF StoreInv
<1>6. QED
  BY <1>2, <1>3, <1>4, <1>5 DEF StoreInv, FullTextsEnd
-----------------------------------------------------------------------------
(* The view's one change: cells a .. b - 1 of the store become t.           *)

\* Three texts put together.
LEMMA ThreeTexts ==
  ASSUME NEW S, NEW p \in Seq(S), NEW q \in Seq(S), NEW r \in Seq(S)
  PROVE  /\ p \o q \o r \in Seq(S)
         /\ Len(p \o q \o r) = Len(p) + Len(q) + Len(r)
         /\ \A i \in 1 .. Len(p) : (p \o q \o r)[i] = p[i]
         /\ \A i \in 1 .. Len(q) : (p \o q \o r)[Len(p) + i] = q[i]
         /\ \A i \in 1 .. Len(r) : (p \o q \o r)[Len(p) + Len(q) + i] = r[i]
<1>1. /\ p \o q \in Seq(S) /\ Len(p \o q) = Len(p) + Len(q)
      /\ \A i \in 1 .. Len(p) : (p \o q)[i] = p[i]
      /\ \A i \in 1 .. Len(q) : (p \o q)[Len(p) + i] = q[i]
  OBVIOUS
<1>2. QED
  BY <1>1

\* A part of a sequence.
LEMMA PartOf ==
  ASSUME NEW s \in Seq(Cells), NEW m \in 1 .. Len(s) + 1, NEW n \in m - 1 .. Len(s)
  PROVE  /\ SubSeq(s, m, n) \in Seq(Cells) /\ Len(SubSeq(s, m, n)) = n - m + 1
         /\ \A i \in 1 .. n - m + 1 : SubSeq(s, m, n)[i] = s[m + i - 1]
<1>1. m \in Nat /\ n \in Nat /\ Len(s) \in Nat
  OBVIOUS
<1> HIDE DEF Cells
<1>2. QED
  BY <1>1

\* What STORE_GAP and the copy after it leave in memory.
LEMMA SplicedCells ==
  ASSUME StoreInv, NEW a \in STORE_START .. storeEnd, NEW b \in a .. storeEnd,
         NEW t \in Seq(Cells), Spliced(a, b, t)
  PROVE  /\ storeEnd' = storeEnd - (b - a) + Len(t)
         /\ storeEnd' \in STORE_START .. STORE_LIMIT
         /\ mem' \in [Memory -> Cells]
         /\ \A x \in Memory :
              mem'[x] = IF STORE_START <= x /\ x < a THEN mem[x]
                        ELSE IF a <= x /\ x < a + Len(t) THEN t[x - a + 1]
                        ELSE IF a <= x /\ x < storeEnd' THEN mem[x + (b - a) - Len(t)]
                        ELSE mem[x]
<1> DEFINE left == SubSeq(Text, 1, a - STORE_START)
           right == SubSeq(Text, b - STORE_START + 1, Len(Text))
           text == left \o t \o right
<1>1. /\ a \in Nat /\ b \in Nat /\ storeEnd \in Nat /\ STORE_START \in Memory
      /\ STORE_START <= a /\ a <= b /\ b <= storeEnd /\ storeEnd <= STORE_LIMIT
      /\ STORE_START \in Nat /\ STORE_LIMIT \in Nat /\ mem \in [Memory -> Cells]
      /\ Len(t) \in Nat
  BY Sizes DEF StoreInv
<1>2. /\ Text \in Seq(Cells) /\ Len(Text) = storeEnd - STORE_START
      /\ \A i \in 1 .. storeEnd - STORE_START : Text[i] = mem[STORE_START + i - 1]
  <2>1. STORE_START <= storeEnd /\ storeEnd <= STORE_LIMIT + 2 /\ storeEnd \in Int
    BY <1>1
  <2> HIDE DEF Cells
  <2>2. QED
    BY <1>1, <2>1, TextInMemory, Zenon DEF Text
<1>3. /\ left \in Seq(Cells) /\ Len(left) = a - STORE_START
      /\ \A i \in 1 .. a - STORE_START : left[i] = mem[STORE_START + i - 1]
  <2> HIDE DEF Cells
  <2>1. /\ 1 \in 1 .. Len(Text) + 1
        /\ a - STORE_START \in 1 - 1 .. Len(Text)
    BY <1>1, <1>2
  <2>2. /\ left \in Seq(Cells) /\ Len(left) = a - STORE_START - 1 + 1
        /\ \A i \in 1 .. a - STORE_START - 1 + 1 : left[i] = Text[1 + i - 1]
    BY <1>2, <2>1, PartOf, Zenon
  <2> HIDE DEF left
  <2>3. QED
    BY <1>1, <1>2, <2>2
<1>4. /\ right \in Seq(Cells) /\ Len(right) = storeEnd - b
      /\ \A i \in 1 .. storeEnd - b : right[i] = mem[b + i - 1]
  <2> HIDE DEF Cells
  <2> DEFINE m == b - STORE_START + 1
             n == Len(Text)
  <2>1. /\ m \in 1 .. Len(Text) + 1
        /\ n \in m - 1 .. Len(Text)
    BY <1>1, <1>2
  <2>2. /\ right \in Seq(Cells) /\ Len(right) = n - m + 1
        /\ \A i \in 1 .. n - m + 1 : right[i] = Text[m + i - 1]
    BY <1>2, <2>1, PartOf, Zenon
  <2> HIDE DEF right
  <2>3. QED
    BY <1>1, <1>2, <2>2
<1>5. /\ text \in Seq(Cells)
      /\ Len(text) = (a - STORE_START) + Len(t) + (storeEnd - b)
      /\ \A i \in 1 .. a - STORE_START : text[i] = left[i]
      /\ \A i \in 1 .. Len(t) : text[a - STORE_START + i] = t[i]
      /\ \A i \in 1 .. storeEnd - b : text[a - STORE_START + Len(t) + i] = right[i]
  <2> HIDE DEF left, right, Cells
  <2>1. left \in Seq(Cells) /\ right \in Seq(Cells)
    BY <1>3, <1>4
  <2>2. /\ text \in Seq(Cells)
        /\ Len(text) = Len(left) + Len(t) + Len(right)
        /\ \A i \in 1 .. Len(left) : text[i] = left[i]
        /\ \A i \in 1 .. Len(t) : text[Len(left) + i] = t[i]
        /\ \A i \in 1 .. Len(right) : text[Len(left) + Len(t) + i] = right[i]
    BY <2>1, ThreeTexts
  <2>3. QED
    BY <1>3, <1>4, <2>2
<1>6. /\ mem' = Put(mem, STORE_START, text) /\ storeEnd' = STORE_START + Len(text)
      /\ STORE_START + Len(text) <= STORE_LIMIT
  BY DEF Spliced
<1> HIDE DEF text, left, right
<1>7. /\ mem' \in [Memory -> Cells]
      /\ \A x \in Memory :
           mem'[x] = IF STORE_START <= x /\ x < STORE_START + Len(text)
                     THEN text[x - STORE_START + 1] ELSE mem[x]
  <2>1. STORE_START \in Int
    BY <1>1
  <2> HIDE DEF Cells
  <2>2. QED
    BY <1>1, <1>5, <1>6, <2>1, PutCells, Zenon
<1>8. ASSUME NEW x \in Memory
      PROVE  mem'[x] = IF STORE_START <= x /\ x < a THEN mem[x]
                       ELSE IF a <= x /\ x < a + Len(t) THEN t[x - a + 1]
                       ELSE IF a <= x /\ x < storeEnd' THEN mem[x + (b - a) - Len(t)]
                       ELSE mem[x]
  <2>1. x \in Nat
    BY Sizes
  <2>2. storeEnd' = storeEnd - (b - a) + Len(t)
    BY <1>1, <1>5, <1>6
  <2>3. CASE STORE_START <= x /\ x < a
    <3>1. x - STORE_START + 1 \in 1 .. a - STORE_START
      BY <1>1, <2>1, <2>3
    <3>2. mem'[x] = left[x - STORE_START + 1]
      BY <1>1, <1>5, <1>7, <2>1, <2>3, <3>1
    <3>3. left[x - STORE_START + 1] = mem[x]
      BY <1>1, <1>3, <2>1, <3>1
    <3>4. QED
      BY <2>3, <3>2, <3>3
  <2>4. CASE a <= x /\ x < a + Len(t)
    <3>1. x - a + 1 \in 1 .. Len(t) /\ x - STORE_START + 1 = a - STORE_START + (x - a + 1)
      BY <1>1, <2>1, <2>4
    <3>2. text[x - STORE_START + 1] = t[x - a + 1]
      BY <1>5, <3>1
    <3>3. STORE_START <= x /\ x < STORE_START + Len(text)
      BY <1>1, <1>5, <2>1, <2>4
    <3>4. QED
      BY <1>1, <1>7, <2>1, <2>4, <3>2, <3>3
  <2>5. CASE a + Len(t) <= x /\ x < storeEnd'
    <3> DEFINE i == x - a - Len(t) + 1
    <3>1. /\ i \in 1 .. storeEnd - b
          /\ x - STORE_START + 1 = a - STORE_START + Len(t) + i
          /\ b + i - 1 = x + (b - a) - Len(t)
      BY <1>1, <2>1, <2>2, <2>5
    <3>2. text[x - STORE_START + 1] = mem[x + (b - a) - Len(t)]
      <4> HIDE DEF i
      <4>1. QED
        BY <1>4, <1>5, <3>1
    <3>3. STORE_START <= x /\ x < STORE_START + Len(text)
      BY <1>1, <1>6, <2>1, <2>5
    <3>4. QED
      BY <1>1, <1>7, <2>1, <2>5, <3>2, <3>3
  <2>6. CASE ~ (STORE_START <= x /\ x < storeEnd')
    BY <1>1, <1>5, <1>6, <1>7, <2>1, <2>2, <2>6
  <2>7. QED
    BY <1>1, <2>1, <2>3, <2>4, <2>5, <2>6
<1>9. QED
  BY <1>1, <1>5, <1>6, <1>7, <1>8

\* Such a change keeps the store's invariant if what it puts in ends a line, or
\* puts nothing in where a line starts.
LEMMA SplicedKeeps ==
  ASSUME StoreInv, Terminated,
         NEW a \in STORE_START .. storeEnd, NEW b \in a .. storeEnd,
         NEW t \in Seq(Cells), Spliced(a, b, t),
         Len(t) # 0 => t[Len(t)] \in Terminators,
         Len(t) = 0 => a < b /\ (a = STORE_START \/ mem[a - 1] \in Terminators)
  PROVE  StoreInv' /\ AboveSame
<1> DEFINE Now(x) == IF STORE_START <= x /\ x < a THEN mem[x]
                     ELSE IF a <= x /\ x < a + Len(t) THEN t[x - a + 1]
                     ELSE IF a <= x /\ x < storeEnd' THEN mem[x + (b - a) - Len(t)]
                     ELSE mem[x]
<1>1. /\ storeEnd' = storeEnd - (b - a) + Len(t)
      /\ storeEnd' \in STORE_START .. STORE_LIMIT
      /\ mem' \in [Memory -> Cells]
      /\ \A x \in Memory : mem'[x] = Now(x)
  BY SplicedCells
<1>2. /\ a \in Nat /\ b \in Nat /\ storeEnd \in Nat /\ Len(t) \in Nat
      /\ STORE_START <= a /\ a <= b /\ b <= storeEnd
  BY Sizes DEF StoreInv
<1>3. \A x \in Memory : storeEnd' <= x => mem'[x] = mem[x]
  BY <1>1, <1>2, Sizes
<1>4. Terminated'
  <2>1. CASE b < storeEnd
    <3>1. storeEnd' - 1 \in Memory /\ a + Len(t) <= storeEnd' - 1
      BY <1>1, <1>2, <2>1, Sizes
    <3>2. mem'[storeEnd' - 1] = mem[(storeEnd' - 1) + (b - a) - Len(t)]
      BY <1>1, <1>2, <3>1
    <3>3. (storeEnd' - 1) + (b - a) - Len(t) = storeEnd - 1 /\ storeEnd # STORE_START
      BY <1>1, <1>2, <2>1, Sizes
    <3>4. QED
      BY <3>2, <3>3 DEF Terminated
  <2>2. CASE b = storeEnd /\ Len(t) # 0
    <3>1. storeEnd' - 1 \in Memory /\ storeEnd' = a + Len(t)
      BY <1>1, <1>2, <2>2, Sizes
    <3>2. mem'[storeEnd' - 1] = t[Len(t)]
      BY <1>1, <1>2, <2>2, <3>1
    <3>3. QED
      BY <2>2, <3>2 DEF Terminated
  <2>3. CASE b = storeEnd /\ Len(t) = 0
    <3>1. storeEnd' = a
      BY <1>1, <1>2, <2>3
    <3>2. a # STORE_START => mem'[a - 1] = mem[a - 1]
      BY <1>1, <1>2, Sizes
    <3>3. QED
      BY <2>3, <3>1, <3>2 DEF Terminated
  <2>4. QED
    BY <1>2, <2>1, <2>2, <2>3
<1>5. FullTextsEnd => mem'[STORE_LIMIT - 1] \in Terminators
  <2>1. CASE storeEnd' = STORE_LIMIT
    BY <1>4, <2>1, Sizes DEF Terminated
  <2>2. CASE storeEnd' # STORE_LIMIT
    <3>1. STORE_LIMIT - 1 \in Memory /\ storeEnd' <= STORE_LIMIT - 1
      BY <1>1, <1>2, <2>2, Sizes
    <3>2. mem'[STORE_LIMIT - 1] = mem[STORE_LIMIT - 1]
      BY <1>3, <3>1, Zenon
    <3>3. QED
      BY <3>2 DEF StoreInv
  <2>3. QED
    BY <2>1, <2>2
<1>6. AboveSame
  <2>1. \A x \in STORE_LIMIT .. STORE_LIMIT + 1 : x \in Memory /\ storeEnd' <= x
    BY <1>1, Sizes
  <2>2. QED
    BY <1>3, <2>1, Zenon DEF AboveSame
<1>7. mem'[STORE_LIMIT + 1] = CR
  BY <1>6, Sizes DEF AboveSame, StoreInv
<1>8. lastLine' = lastLine
  BY DEF Spliced
<1>9. QED
  BY <1>1, <1>4, <1>5, <1>6, <1>7, <1>8 DEF StoreInv, FullTextsEnd
-----------------------------------------------------------------------------
(* Every action keeps it.                                                   *)

StoreKept == StoreInv' /\ (FullTextsEnd => AboveSame)

\* The steps that write nothing in the store.
LEMMA StoreUnwritten ==
  ASSUME StoreInv, mem' = mem, storeEnd' = storeEnd, lastLine' \in {lastLine, 0},
         pc' = "view" => Terminated
  PROVE  StoreKept
<1>1. StoreInv'
  BY DEF StoreInv, FullTextsEnd, Terminated
<1>2. AboveSame
  BY DEF AboveSame
<1>3. QED
  BY <1>1, <1>2 DEF StoreKept

\* STORE_TRIM: the store ends where the console's line began.
LEMMA TrimKeepsStore ==
  ASSUME StoreInv, NEW c, Trim(c)
  PROVE  StoreKept
<1>1. mem' = mem /\ lastLine' = lastLine /\ pc' # "view"
  BY DEF Trim
<1>2. storeEnd' \in STORE_START .. STORE_LIMIT
  BY Sizes DEF Trim, StoreInv
<1>3. StoreInv'
  BY <1>1, <1>2 DEF StoreInv, FullTextsEnd
<1>4. QED
  BY <1>1, <1>3 DEF StoreKept, AboveSame

\* ENTER: the line goes to EDIT_BUF and, if it fits with its CR, to the store's
\* end; what was in the store stays.
LEMMA LineEntered ==
  ASSUME StoreInv, NEW n \in 0 .. EDIT_MAX_LEN, EnterLine(n)
  PROVE  /\ StoreKept
         /\ \A x \in STORE_START .. storeEnd - 1 : mem'[x] = mem[x]
         /\ \A x \in storeEnd .. storeEnd' - 1 : mem'[x] \in {"typed", CR}
<1> DEFINE row == Repeated("typed", n) \o Repeated(CR, EDIT_MAX_LEN - n)
           line == Put(mem, EDIT_BUF, row)
           new == Repeated("typed", n) \o <<CR>>
           kept == n > 0 /\ Fits(n)
<1>1. /\ n \in Nat /\ storeEnd \in Nat /\ EDIT_MAX_LEN - n \in Nat /\ mem \in [Memory -> Cells]
      /\ STORE_START <= storeEnd /\ storeEnd <= STORE_LIMIT /\ pc = "console"
  BY Sizes DEF StoreInv, EnterLine
<1>2. row \in Seq(Cells) /\ Len(row) = EDIT_MAX_LEN
  <2>1. "typed" \in Cells /\ CR \in Cells
    BY DEF Cells, Written, Terminators
  <2>2. /\ Repeated("typed", n) \in Seq(Cells) /\ Len(Repeated("typed", n)) = n
        /\ Repeated(CR, EDIT_MAX_LEN - n) \in Seq(Cells)
        /\ Len(Repeated(CR, EDIT_MAX_LEN - n)) = EDIT_MAX_LEN - n
    BY <1>1, <2>1, RepeatedCells
  <2> HIDE DEF Cells
  <2>3. QED
    BY <1>1, <2>2, Sizes
<1>3. /\ new \in Seq(Cells) /\ Len(new) = n + 1 /\ new[n + 1] = CR
      /\ \A i \in 1 .. n + 1 : new[i] \in {"typed", CR}
  <2>1. "typed" \in Cells /\ CR \in Cells
    BY DEF Cells, Written, Terminators
  <2>2. /\ Repeated("typed", n) \in Seq(Cells) /\ Len(Repeated("typed", n)) = n
        /\ \A i \in 1 .. n : Repeated("typed", n)[i] = "typed"
    BY <1>1, <2>1, RepeatedCells
  <2>3. <<CR>> \in Seq(Cells) /\ Len(<<CR>>) = 1 /\ <<CR>>[1] = CR
    BY <2>1
  <2> HIDE DEF Cells
  <2>4. QED
    BY <1>1, <2>2, <2>3
<1> HIDE DEF row, new
<1>4. /\ line \in [Memory -> Cells]
      /\ \A x \in Memory : line[x] = IF EDIT_BUF <= x /\ x < EDIT_BUF + EDIT_MAX_LEN
                                     THEN row[x - EDIT_BUF + 1] ELSE mem[x]
  <2>1. EDIT_BUF \in Int
    BY DEF EDIT_BUF
  <2> HIDE DEF Cells
  <2>2. QED
    BY <1>1, <1>2, <2>1, PutCells
<1>5. \A x \in Memory : STORE_START <= x => line[x] = mem[x]
  BY <1>4, Sizes DEF EDIT_BUF
<1> HIDE DEF line
<1>6. CASE kept
  <2>1. storeEnd + n + 1 <= STORE_LIMIT
    BY <1>6 DEF Fits
  <2>2. /\ mem' = Put(line, storeEnd, new) /\ storeEnd' = storeEnd + n + 1
        /\ lastLine' = storeEnd /\ pc' = "loop"
    BY <1>6 DEF EnterLine, line, row, new
  <2>3. /\ mem' \in [Memory -> Cells]
        /\ \A x \in Memory : mem'[x] = IF storeEnd <= x /\ x < storeEnd + Len(new)
                                       THEN new[x - storeEnd + 1] ELSE line[x]
    <3>1. storeEnd \in Int
      BY <1>1
    <3> HIDE DEF Cells
    <3>2. QED
      BY <1>3, <1>4, <2>2, <3>1, PutCells
  <2>4. \A x \in Memory : STORE_START <= x /\ (x < storeEnd \/ storeEnd + n + 1 <= x)
                            => mem'[x] = mem[x]
    BY <1>1, <1>3, <1>5, <2>3, Sizes
  <2>5. AboveSame
    BY <1>1, <2>1, <2>4, Sizes DEF AboveSame
  <2>6. FullTextsEnd => mem'[STORE_LIMIT - 1] \in Terminators
    <3>1. CASE storeEnd + n + 1 = STORE_LIMIT
      <4>1. mem'[STORE_LIMIT - 1] = new[n + 1]
        BY <1>1, <1>3, <2>3, <3>1, Sizes
      <4>2. QED
        BY <1>3, <4>1 DEF Terminators
    <3>2. CASE storeEnd + n + 1 < STORE_LIMIT
      <4>1. mem'[STORE_LIMIT - 1] = mem[STORE_LIMIT - 1]
        BY <1>1, <2>4, <3>2, Sizes
      <4>2. QED
        BY <4>1 DEF StoreInv
    <3>3. QED
      BY <1>1, <2>1, <3>1, <3>2, Sizes
  <2>7. mem'[STORE_LIMIT + 1] = CR
    BY <2>5, Sizes DEF AboveSame, StoreInv
  <2>8. /\ storeEnd' \in STORE_START .. STORE_LIMIT
        /\ lastLine' \in {0} \cup STORE_START .. STORE_LIMIT - 1
    BY <1>1, <1>6, <2>1, <2>2, Sizes
  <2>9. StoreInv'
    BY <2>2, <2>3, <2>6, <2>7, <2>8 DEF StoreInv, FullTextsEnd
  <2>10. \A x \in storeEnd .. storeEnd' - 1 : mem'[x] \in {"typed", CR}
    <3>1. \A x \in storeEnd .. storeEnd' - 1 :
            x \in Memory /\ x - storeEnd + 1 \in 1 .. n + 1
      BY <1>1, <2>1, <2>2, Sizes
    <3>2. QED
      BY <1>1, <1>3, <2>2, <2>3, <3>1
  <2>11. QED
    BY <1>1, <2>4, <2>5, <2>9, <2>10, Sizes DEF StoreKept
<1>7. CASE ~ kept
  <2>1. mem' = line /\ storeEnd' = storeEnd /\ lastLine' = 0 /\ pc' = "loop"
    BY <1>7 DEF EnterLine, line, row
  <2>2. AboveSame
    BY <1>5, <2>1, Sizes DEF AboveSame
  <2>3. mem'[STORE_LIMIT - 1] = mem[STORE_LIMIT - 1] /\ mem'[STORE_LIMIT + 1] = mem[STORE_LIMIT + 1]
    BY <1>5, <2>1, Sizes
  <2>4. StoreInv'
    BY <1>4, <2>1, <2>3 DEF StoreInv, FullTextsEnd
  <2>5. QED
    BY <1>1, <1>5, <2>1, <2>2, <2>4, Sizes DEF StoreKept
<1>8. QED
  BY <1>6, <1>7

\* A load writes the store from its start, and no more than it holds.
LEMMA StoreWritten ==
  ASSUME StoreInv, NEW u \in Seq(Cells), Len(u) <= StoreCells,
         FullTextsEnd /\ Len(u) = StoreCells => u[StoreCells] \in Terminators,
         mem' = Put(mem, STORE_START, u), storeEnd' \in STORE_START .. STORE_LIMIT,
         lastLine' = lastLine, pc' # "view"
  PROVE  StoreKept
<1>1. /\ mem' \in [Memory -> Cells]
      /\ \A x \in Memory : mem'[x] = IF STORE_START <= x /\ x < STORE_START + Len(u)
                                     THEN u[x - STORE_START + 1] ELSE mem[x]
  <2>1. STORE_START \in Int /\ mem \in [Memory -> Cells]
    BY Sizes DEF StoreInv
  <2> HIDE DEF Cells
  <2>2. QED
    BY <2>1, PutCells
<1>2. Len(u) \in Nat
  OBVIOUS
<1>3. AboveSame
  BY <1>1, <1>2, Sizes DEF AboveSame
<1>4. FullTextsEnd => mem'[STORE_LIMIT - 1] \in Terminators
  <2>1. CASE Len(u) = StoreCells
    <3>1. mem'[STORE_LIMIT - 1] = u[StoreCells]
      BY <1>1, <2>1, Sizes
    <3>2. QED
      BY <2>1, <3>1
  <2>2. CASE Len(u) # StoreCells
    <3>1. mem'[STORE_LIMIT - 1] = mem[STORE_LIMIT - 1]
      BY <1>1, <1>2, <2>2, Sizes
    <3>2. QED
      BY <3>1 DEF StoreInv
  <2>3. QED
    BY <2>1, <2>2
<1>5. mem'[STORE_LIMIT + 1] = CR
  BY <1>3, Sizes DEF AboveSame, StoreInv
<1>6. StoreInv'
  BY <1>1, <1>4, <1>5 DEF StoreInv, FullTextsEnd
<1>7. QED
  BY <1>3, <1>6 DEF StoreKept

\* The texts on tape are texts of cells.
LEMMA TapeCells ==
  ASSUME NEW t \in Tapes
  PROVE  t \in Seq(Cells) /\ Len(t) \in Nat /\ StoreCells \in Nat
<1>1. t \in Seq({"tape", CR, MARK}) /\ StoreCells \in Nat
  BY StoreAssumption
<1>2. {"tape", CR, MARK} \subseteq Cells
  BY DEF Cells, Written, Terminators
<1> HIDE DEF Cells
<1>3. QED
  BY <1>1, <1>2

\* LOAD-TEXT, whether the tape fails in the middle or not.
LEMMA LoadKeepsStore ==
  ASSUME StoreInv, NEW t \in Tapes, LoadFails(t) \/ LoadText(t)
  PROVE  StoreKept
<1>1. t \in Seq(Cells) /\ Len(t) \in Nat /\ StoreCells \in Nat
  BY TapeCells
<1>2. CASE LoadFails(t)
  <2>1. PICK n \in 0 .. (IF TooLong(t) THEN 0 ELSE Len(t)) :
               mem' = Put(mem, STORE_START, SubSeq(t, 1, n))
    BY <1>2 DEF LoadFails
  <2>2. n \in Nat /\ n <= Len(t) /\ n <= StoreCells
    BY <1>1, <2>1 DEF TooLong
  <2>3. /\ SubSeq(t, 1, n) \in Seq(Cells) /\ Len(SubSeq(t, 1, n)) = n
        /\ \A i \in 1 .. n : SubSeq(t, 1, n)[i] = t[i]
    <3> HIDE DEF Cells
    <3>1. QED
      BY <1>1, <2>2
  <2>4. FullTextsEnd /\ n = StoreCells => SubSeq(t, 1, n)[StoreCells] \in Terminators
    <3>1. ASSUME FullTextsEnd, n = StoreCells PROVE t[StoreCells] \in Terminators
      <4>1. Len(t) = StoreCells
        BY <1>1, <1>2, <2>1, <2>2, <3>1, Sizes DEF TooLong
      <4>2. QED
        BY <3>1, <4>1 DEF FullTextsEnd
    <3>2. QED
      BY <2>3, <3>1, Sizes
  <2>5. /\ storeEnd' \in STORE_START .. STORE_LIMIT /\ lastLine' = lastLine
        /\ pc' # "view"
    BY <1>2 DEF LoadFails, StoreInv, Thrown, Reported
  <2>6. QED
    BY <2>1, <2>2, <2>3, <2>4, <2>5, StoreWritten
<1>3. CASE LoadText(t)
  <2>1. Len(t) <= StoreCells
    BY <1>1, <1>3 DEF LoadText, TooLong
  <2>2. /\ Ended(t) \in Seq(Cells) /\ Len(Ended(t)) <= StoreCells /\ Len(Ended(t)) \in Nat
        /\ Len(Ended(t)) = StoreCells => Ended(t) = t \/ Ended(t)[StoreCells] = CR
    <3>1. CR \in Cells
      BY DEF Cells, Terminators
    <3> HIDE DEF Cells
    <3>2. CASE Ended(t) = t
      BY <1>1, <2>1, <3>2
    <3>3. CASE Ended(t) # t
      <4>1. Ended(t) = t \o <<CR>> /\ Len(t) # StoreCells
        BY <3>3 DEF Ended
      <4>2. /\ t \o <<CR>> \in Seq(Cells) /\ Len(t \o <<CR>>) = Len(t) + 1
            /\ (t \o <<CR>>)[Len(t) + 1] = CR
        BY <1>1, <3>1
      <4>3. QED
        BY <1>1, <2>1, <4>1, <4>2
    <3>4. QED
      BY <3>2, <3>3
  <2>3. FullTextsEnd /\ Len(Ended(t)) = StoreCells => Ended(t)[StoreCells] \in Terminators
    BY <2>2 DEF FullTextsEnd, Terminators
  <2>4. /\ mem' = Put(mem, STORE_START, Ended(t)) /\ lastLine' = lastLine
        /\ storeEnd' = STORE_START + Len(Ended(t)) /\ pc' # "view"
    BY <1>3 DEF LoadText
  <2>5. storeEnd' \in STORE_START .. STORE_LIMIT
    BY <2>2, <2>4, Sizes
  <2>6. QED
    BY <2>2, <2>3, <2>4, <2>5, StoreWritten
<1>4. QED
  BY <1>2, <1>3

\* The view's keys: each change ends in a terminator, or removes whole lines.
LEMMA ViewKeepsStore ==
  ASSUME StoreInv, pc = "view", NEW a \in LineStarts,
         \/ \E n \in 0 .. EDIT_MAX_LEN : ViewReplaces(a, n)
         \/ ViewInserts(a) \/ ViewDeletes(a) \/ ViewLeaves(a)
  PROVE  StoreKept
<1>1. Terminated
  BY DEF StoreInv
<1>2. /\ a \in STORE_START .. storeEnd - 1
      /\ LineEnd(a) \in a .. storeEnd - 1
  BY <1>1, LineEnds
<1>3. a \in STORE_START .. storeEnd /\ LineEnd(a) + 1 \in a .. storeEnd /\ a \in a .. storeEnd
  BY <1>2, Sizes DEF StoreInv
<1>4. MARK \in Cells /\ MARK \in Terminators /\ EditedWord \in Cells
  BY DEF Cells, Written, Terminators
<1> DEFINE mark == <<MARK>>
<1>5. /\ mark \in Seq(Cells) /\ Len(mark) = 1 /\ mark[1] = MARK
      /\ << >> \in Seq(Cells) /\ Len(<< >>) = 0
  <2> HIDE DEF Cells
  <2>1. QED
    BY <1>4
<1>6. ASSUME NEW n \in 0 .. EDIT_MAX_LEN, ViewReplaces(a, n) PROVE StoreKept
  <2> DEFINE t == Repeated(EditedWord, n) \o <<MARK>>
  <2>1. n \in Nat
    BY Sizes
  <2>2. Repeated(EditedWord, n) \in Seq(Cells) /\ Len(Repeated(EditedWord, n)) = n
    BY <1>4, <2>1, RepeatedCells
  <2>3. t \in Seq(Cells) /\ Len(t) = n + 1 /\ t[n + 1] = MARK
    <3> HIDE DEF Cells
    <3>1. QED
      BY <1>5, <2>1, <2>2
  <2>4. Spliced(a, LineEnd(a) + 1, t)
    BY <1>6 DEF ViewReplaces
  <2> HIDE DEF t, Cells
  <2>5. /\ Len(t) # 0 => t[Len(t)] \in Terminators
        /\ Len(t) # 0
    BY <1>4, <2>1, <2>3
  <2>6. QED
    BY <1>1, <1>3, <2>3, <2>4, <2>5, SplicedKeeps, Zenon DEF StoreKept
<1>7. CASE ViewInserts(a)
  <2>1. Spliced(a, a, mark)
    BY <1>7 DEF ViewInserts
  <2> HIDE DEF mark, Cells
  <2>2. /\ Len(mark) # 0 => mark[Len(mark)] \in Terminators
        /\ Len(mark) = 0 => a < a /\ (a = STORE_START \/ mem[a - 1] \in Terminators)
    BY <1>4, <1>5
  <2>3. QED
    BY <1>1, <1>3, <1>5, <2>1, <2>2, SplicedKeeps, Zenon DEF StoreKept
<1>8. CASE ViewDeletes(a)
  <2>1. CASE Cardinality(LineStarts) = 1
    <3>1. Spliced(a, LineEnd(a) + 1, mark)
      BY <1>8, <2>1 DEF ViewDeletes
    <3> HIDE DEF mark, Cells
    <3>2. /\ Len(mark) # 0 => mark[Len(mark)] \in Terminators
          /\ Len(mark) # 0
      BY <1>4, <1>5
    <3>3. QED
      BY <1>1, <1>3, <1>5, <3>1, <3>2, SplicedKeeps, Zenon DEF StoreKept
  <2>2. CASE Cardinality(LineStarts) # 1
    <3>1. Spliced(a, LineEnd(a) + 1, << >>)
      BY <1>8, <2>2 DEF ViewDeletes
    <3>2. a < LineEnd(a) + 1 /\ (a = STORE_START \/ mem[a - 1] \in Terminators)
      BY <1>2, Sizes DEF LineStarts, StoreInv
    <3>3. QED
      BY <1>1, <1>3, <1>5, <3>1, <3>2, SplicedKeeps DEF StoreKept
  <2>3. QED
    BY <2>1, <2>2
<1>9. CASE ViewLeaves(a)
  <2> DEFINE t == TextIn(mem, a, LineEnd(a))
  <2>1. /\ a \in Memory /\ LineEnd(a) \in Int /\ a <= LineEnd(a) /\ LineEnd(a) <= STORE_LIMIT + 2
        /\ mem \in [Memory -> Cells]
    BY <1>2, Sizes DEF StoreInv
  <2>2. t \in Seq(Cells) /\ Len(t) = LineEnd(a) - a
    BY <2>1, TextInMemory
  <2>3. mem' = Put(mem, EDIT_BUF, t)
    BY <1>9 DEF ViewLeaves
  <2> HIDE DEF t
  <2>4. /\ mem' \in [Memory -> Cells]
        /\ \A x \in Memory : mem'[x] = IF EDIT_BUF <= x /\ x < EDIT_BUF + Len(t)
                                       THEN t[x - EDIT_BUF + 1] ELSE mem[x]
    <3>1. EDIT_BUF \in Int
      BY DEF EDIT_BUF
    <3> HIDE DEF Cells
    <3>2. QED
      BY <2>1, <2>2, <2>3, <3>1, PutCells
  <2>5. \A x \in Memory : STORE_LIMIT - 1 <= x => mem'[x] = mem[x]
    BY <1>2, <2>2, <2>4, Sizes DEF EDIT_BUF, StoreInv
  <2>6. AboveSame
    BY <2>5, Sizes DEF AboveSame
  <2>7. mem'[STORE_LIMIT - 1] = mem[STORE_LIMIT - 1] /\ mem'[STORE_LIMIT + 1] = mem[STORE_LIMIT + 1]
    BY <2>5, Sizes
  <2>8. storeEnd' = storeEnd /\ lastLine' = lastLine /\ pc' # "view"
    BY <1>9 DEF ViewLeaves
  <2>9. StoreInv'
    BY <2>4, <2>7, <2>8 DEF StoreInv, FullTextsEnd
  <2>10. QED
    BY <2>6, <2>9 DEF StoreKept
<1>10. QED
  BY <1>6, <1>7, <1>8, <1>9

\* The view opens on a terminated store, on a new line or an old one.
LEMMA OpensKeepsStore ==
  ASSUME StoreInv, ViewOpens
  PROVE  StoreKept
<1>1. Terminated
  BY DEF ViewOpens, Viewable
<1>2. CASE cmd = "edit"
  <2>1. mem' = mem /\ storeEnd' = storeEnd /\ lastLine' = lastLine
    BY <1>2 DEF ViewOpens, storeVars
  <2>2. QED
    BY <1>1, <2>1, StoreUnwritten
<1>3. CASE cmd # "edit"
  <2>1. Spliced(storeEnd, storeEnd, <<MARK>>)
    BY <1>3 DEF ViewOpens
  <2>2. MARK \in Cells /\ MARK \in Terminators
    BY DEF Cells, Terminators
  <2>3. <<MARK>> \in Seq(Cells) /\ Len(<<MARK>>) = 1 /\ <<MARK>>[1] = MARK
    <3> HIDE DEF Cells
    <3>1. QED
      BY <2>2
  <2>4. storeEnd \in STORE_START .. storeEnd /\ storeEnd \in storeEnd .. storeEnd
    BY Sizes DEF StoreInv
  <2>5. QED
    BY <1>1, <2>1, <2>2, <2>3, <2>4, SplicedKeeps DEF StoreKept
<1>4. QED
  BY <1>2, <1>3

LEMMA StoreStep ==
  ASSUME StoreInv, [Next]_vars
  PROVE  StoreKept
<1>1. ASSUME NEW n \in 0 .. EDIT_MAX_LEN, EnterLine(n) PROVE StoreKept
  BY <1>1, LineEntered
<1>2. ASSUME NEW c \in {"save", "load", "edit", "bare"}, Trim(c) PROVE StoreKept
  BY <1>2, TrimKeepsStore
<1>3. ASSUME NEW t \in Tapes, LoadFails(t) \/ LoadText(t) PROVE StoreKept
  BY <1>3, LoadKeepsStore
<1>4. CASE ReadWord \/ EndOfSource \/ WordReturns \/ Catch
  BY <1>4, StoreUnwritten DEF ReadWord, EndOfSource, WordReturns, Catch, storeVars
<1>5. CASE WordFails \/ Break \/ SaveText
  BY <1>5, StoreUnwritten DEF WordFails, Break, SaveText, Thrown, Reported, storeVars
<1>6. CASE TrimDone \/ Edit \/ NoExrom \/ ViewRefuses \/ NotFound
  BY <1>6, StoreUnwritten
     DEF TrimDone, Edit, NoExrom, ViewRefuses, NotFound, Reported, storeVars
<1>7. CASE ViewOpens
  BY <1>7, OpensKeepsStore
<1>8. ASSUME NEW a \in LineStarts,
             \/ \E n \in 0 .. EDIT_MAX_LEN : ViewReplaces(a, n)
             \/ ViewInserts(a) \/ ViewDeletes(a) \/ ViewLeaves(a)
      PROVE  StoreKept
  <2>1. pc = "view"
    BY <1>8 DEF ViewReplaces, ViewInserts, ViewDeletes, ViewLeaves
  <2>2. QED
    BY <1>8, <2>1, ViewKeepsStore
<1>9. CASE CommitLine
  <2>1. Marks \in SUBSET Nat /\ Marks # {}
    BY <1>9, Sizes DEF CommitLine, Marks
  <2>2. Min(Marks) \in Marks
    BY <2>1, MinOf, Zenon
  <2>3. /\ mem' = Cleared({Min(Marks)}) /\ storeEnd' = storeEnd /\ lastLine' = lastLine
        /\ pc' # "view"
    BY <1>9 DEF CommitLine
  <2>4. QED
    BY <2>2, <2>3, MarksCleared DEF StoreKept
<1>10. CASE CommitRuns \/ CommitEnds
  BY <1>10, StoreUnwritten DEF CommitRuns, CommitEnds, storeVars
<1>11. CASE BackToConsole
  <2>1. storeEnd' = storeEnd /\ lastLine' = lastLine /\ pc' # "view"
    BY <1>11 DEF BackToConsole
  <2>2. CASE mem' = Cleared(Marks)
    BY <2>1, <2>2, MarksCleared DEF StoreKept
  <2>3. CASE mem' = mem
    BY <2>1, <2>3, StoreUnwritten
  <2>4. QED
    BY <1>11, <2>2, <2>3 DEF BackToConsole
<1>12. CASE UNCHANGED vars
  BY <1>12, StoreUnwritten DEF vars, StoreInv
<1>13. QED
  BY <1>1, <1>2, <1>3, <1>4, <1>5, <1>6, <1>7, <1>8, <1>9, <1>10, <1>11, <1>12 DEF Next

LEMMA StoreInit == Init => StoreInv
<1> SUFFICES ASSUME Init PROVE StoreInv
  OBVIOUS
<1>1. mem \in [Memory -> Cells]
  BY DEF Init, Cells, Terminators
<1>2. mem[STORE_LIMIT - 1] = CR /\ mem[STORE_LIMIT + 1] = CR
  BY Sizes DEF Init
<1>3. /\ storeEnd \in STORE_START .. STORE_LIMIT
      /\ lastLine \in {0} \cup STORE_START .. STORE_LIMIT - 1 /\ pc # "view"
  BY Sizes DEF Init
<1>4. QED
  BY <1>1, <1>2, <1>3 DEF StoreInv, Terminators

LEMMA StoreAlways == Spec => []StoreInv
<1>1. StoreInv /\ [Next]_vars => StoreInv'
  BY StoreStep DEF StoreKept
<1>2. QED
  BY <1>1, StoreInit, PTL DEF Spec

\* The store, and everything that marks, splices, loads and appends to it,
\* never writes at or above STORE_LIMIT, if the texts on tape that fill it end
\* in a CR (include/forth_layout.inc:56; one that does not: core/edit.asm:110).
THEOREM NothingAboveTheStore ==
  ASSUME FullTextsEnd
  PROVE  Spec => AboveKept
<1>1. StoreInv /\ [Next]_vars
        => [\A a \in STORE_LIMIT .. STORE_LIMIT + 1 : mem'[a] = mem[a]]_vars
  BY StoreStep DEF StoreKept, AboveSame
<1>2. QED
  BY <1>1, StoreAlways, PTL DEF Spec, AboveKept
-----------------------------------------------------------------------------
(* What a trim takes off.  The console's line, while it is in the store, is  *)
(* the last thing in it: LOAD-TEXT and EDIT, which alone change the text     *)
(* before it, trim it first.  So no loaded text and no line of a session is  *)
(* being read, and the runs are the console's own and its CATCHes.           *)

Sources == {"line", "catch", "load", "edit"}
RunsBy(K, A) == [by : K, ptr : A, end : A, at : A, text : A]
LineOf(K, s) ==
  \E A : s \in Seq(RunsBy(K, A)) /\ Len(s) >= 1 /\ s[1].by = "line"
ConsoleLine(s) == LineOf({"line", "catch"}, s)

TrimInv ==
  /\ pc = "console" => viewResult = 0
  /\ lastLine # 0 =>
       /\ pc \in {"console", "loop", "word", "trim", "back"}
       /\ viewResult = 0
       /\ lastLine <= storeEnd
       /\ before = TextIn(mem, STORE_START, lastLine)
       /\ pc \in {"loop", "word", "trim"} => ConsoleLine(runs)

\* The runs of such a sequence, whatever holds their fields.
LEMMA RunsOf ==
  ASSUME NEW K, NEW A, NEW s \in Seq(RunsBy(K, A)), NEW B, A \subseteq B
  PROVE  /\ \A i \in 1 .. Len(s) : s[i] \in RunsBy(K, A) /\ s[i] \in RunsBy(K, B)
         /\ s \in Seq(RunsBy(K, B))
<1>1. \A x \in RunsBy(K, A) : x \in RunsBy(K, B)
  BY DEF RunsBy
<1>2. \A i \in 1 .. Len(s) : s[i] \in RunsBy(K, A) /\ s[i] \in RunsBy(K, B)
  BY <1>1
<1>3. s \in Seq(RunsBy(K, B))
  BY <1>2
<1>4. QED
  BY <1>2, <1>3

\* Changing where one run is keeps the runs.
Moved(x, w, t) == [x EXCEPT !.at = w, !.text = t]
Changed(s, r, w, t) == s = [runs EXCEPT ![r] = Moved(runs[r], w, t)]
LEMMA LineChanges ==
  ASSUME NEW K, LineOf(K, runs), NEW r, NEW w, NEW t, NEW s,
         Changed(s, r, w, t)
  PROVE  /\ LineOf(K, s) /\ Len(s) = Len(runs) /\ DOMAIN s = DOMAIN runs
         /\ \A i \in DOMAIN runs : s[i].by = runs[i].by
<1>1. PICK A : runs \in Seq(RunsBy(K, A)) /\ Len(runs) >= 1 /\ runs[1].by = "line"
  BY DEF LineOf
<1> DEFINE B == A \cup {w, t}
           new == Moved(runs[r], w, t)
<1>0. s = [runs EXCEPT ![r] = new]
  BY DEF Changed
<1>2. /\ \A i \in 1 .. Len(runs) : runs[i] \in RunsBy(K, A)
      /\ runs \in Seq(RunsBy(K, B))
  <2>1. A \subseteq B
    OBVIOUS
  <2> HIDE DEF B, new
  <2>2. QED
    BY <1>1, <2>1, RunsOf
<1>3. ASSUME r \in 1 .. Len(runs) PROVE new \in RunsBy(K, B) /\ new.by = runs[r].by
  <2>1. runs[r] \in RunsBy(K, A)
    BY <1>2, <1>3
  <2>2. QED
    BY <2>1 DEF RunsBy, Moved
<1> HIDE DEF B, new
<1>4. /\ s \in Seq(RunsBy(K, B)) /\ Len(s) = Len(runs) /\ s[1].by = "line"
      /\ DOMAIN s = DOMAIN runs /\ \A i \in DOMAIN runs : s[i].by = runs[i].by
  <2>1. Len(runs) \in Nat /\ 1 \in 1 .. Len(runs) /\ DOMAIN runs = 1 .. Len(runs)
    BY <1>1
  <2>2. CASE r \in 1 .. Len(runs)
    BY <1>0, <1>1, <1>2, <1>3, <2>1, <2>2
  <2>3. CASE r \notin 1 .. Len(runs)
    <3>1. s = runs
      BY <1>0, <1>1, <2>1, <2>3
    <3>2. QED
      BY <1>1, <1>2, <3>1
  <2>4. QED
    BY <2>2, <2>3
<1>5. LineOf(K, s)
  BY <1>4 DEF LineOf
<1>6. QED
  BY <1>4, <1>5

\* Reading on in a source, taking a CATCH and leaving one keep them.
LEMMA LineReads ==
  ASSUME NEW K, LineOf(K, runs), NEW w
  PROVE  /\ LineOf(K, ReadTo(w)) /\ Len(ReadTo(w)) = Len(runs)
         /\ DOMAIN ReadTo(w) = DOMAIN runs
         /\ \A i \in DOMAIN runs : ReadTo(w)[i].by = runs[i].by
<1> DEFINE t == SubSeq(runs[Reading].text, w - srcPtr + 1, Len(runs[Reading].text))
<1>1. ReadTo(w) = [runs EXCEPT ![Reading] = Moved(runs[Reading], w, t)]
  <2>1. PICK A : runs \in Seq(RunsBy(K, A))
    BY DEF LineOf
  <2>2. CASE Reading \in DOMAIN runs
    <3>1. runs[Reading] \in RunsBy(K, A)
      BY <2>1, <2>2
    <3> DEFINE r == Reading
    <3> HIDE DEF r
    <3>2. [runs EXCEPT ![r].at = w,
                       ![r].text = SubSeq(@, w - srcPtr + 1, Len(@))]
            = [runs EXCEPT ![r] = Moved(runs[r], w,
                  SubSeq(runs[r].text, w - srcPtr + 1, Len(runs[r].text)))]
      BY <2>1, <2>2, <3>1 DEF RunsBy, r, Moved
    <3>3. QED
      BY <3>2 DEF ReadTo, r
  <2>3. CASE Reading \notin DOMAIN runs
    BY <2>1, <2>3 DEF ReadTo
  <2>4. QED
    BY <2>2, <2>3
<1> HIDE DEF t
<1> DEFINE r == Reading
           s == ReadTo(w)
<1>2. Changed(s, r, w, t)
  BY <1>1 DEF Changed
<1> HIDE DEF r, s
<1>3. /\ LineOf(K, s) /\ Len(s) = Len(runs) /\ DOMAIN s = DOMAIN runs
      /\ \A i \in DOMAIN runs : s[i].by = runs[i].by
  BY <1>2, LineChanges
<1>4. QED
  BY <1>3 DEF s

LEMMA LineCatches ==
  ASSUME NEW K, "catch" \in K, LineOf(K, runs)
  PROVE  LineOf(K, Append(runs, CatchFrame))
<1>1. PICK A : runs \in Seq(RunsBy(K, A)) /\ Len(runs) >= 1 /\ runs[1].by = "line"
  BY DEF LineOf
<1> DEFINE B == A \cup {srcPtr, srcEnd, 0, << >>}
<1>2. CatchFrame \in RunsBy(K, B)
  BY DEF CatchFrame, RunsBy
<1>3. runs \in Seq(RunsBy(K, B))
  <2>1. A \subseteq B
    OBVIOUS
  <2> HIDE DEF B
  <2>2. QED
    BY <1>1, <2>1, RunsOf
<1> HIDE DEF B
<1>4. QED
  BY <1>1, <1>2, <1>3 DEF LineOf

LEMMA LineUnwinds ==
  ASSUME NEW K, LineOf(K, runs), NEW c \in 2 .. Len(runs)
  PROVE  /\ LineOf(K, SubSeq(runs, 1, c - 1))
         /\ \A i \in DOMAIN SubSeq(runs, 1, c - 1) :
              i \in DOMAIN runs /\ SubSeq(runs, 1, c - 1)[i] = runs[i]
<1>1. PICK A : runs \in Seq(RunsBy(K, A)) /\ Len(runs) >= 1 /\ runs[1].by = "line"
  BY DEF LineOf
<1>2. c - 1 \in 1 .. Len(runs)
  BY <1>1
<1>3. /\ SubSeq(runs, 1, c - 1) \in Seq(RunsBy(K, A))
      /\ Len(SubSeq(runs, 1, c - 1)) = c - 1 /\ SubSeq(runs, 1, c - 1)[1] = runs[1]
      /\ \A i \in 1 .. c - 1 : SubSeq(runs, 1, c - 1)[i] = runs[i]
  BY <1>1, <1>2
<1>4. QED
  BY <1>1, <1>2, <1>3 DEF LineOf

\* What is on top, and which CATCH a THROW takes.
LEMMA LineTop ==
  ASSUME NEW K, LineOf(K, runs)
  PROVE  /\ Len(runs) \in Nat /\ Len(runs) >= 1 /\ Len(runs) \in DOMAIN runs
         /\ DOMAIN runs = 1 .. Len(runs)
         /\ Top.by \in K
         /\ Top.by # "line" => Len(runs) \in 2 .. Len(runs)
         /\ Catches # {} => Max(Catches) \in 2 .. Len(runs)
<1>1. PICK A : runs \in Seq(RunsBy(K, A)) /\ Len(runs) >= 1 /\ runs[1].by = "line"
  BY DEF LineOf
<1>2. Len(runs) \in Nat /\ DOMAIN runs = 1 .. Len(runs) /\ Len(runs) \in 1 .. Len(runs)
  BY <1>1
<1>3. Top.by \in K
  <2>1. Top \in RunsBy(K, A)
    BY <1>1, <1>2, RunsOf DEF Top
  <2>2. QED
    BY <2>1 DEF RunsBy
<1>4. Top.by # "line" => Len(runs) \in 2 .. Len(runs)
  BY <1>1, <1>2 DEF Top
<1>5. Catches \subseteq 2 .. Len(runs)
  BY <1>1, <1>2 DEF Catches
<1>6. ASSUME Catches # {} PROVE Max(Catches) \in Catches
  <2>1. Catches \in SUBSET (0 .. Len(runs))
    BY <1>2, <1>5
  <2>2. QED
    BY <1>2, <1>6, <2>1, MaxOf, Zenon
<1>7. QED
  BY <1>1, <1>2, <1>3, <1>4, <1>5, <1>6

\* All of it for the console's own runs.
LEMMA ConsoleLineIs ==
  ASSUME ConsoleLine(runs)
  PROVE  /\ \A w : ConsoleLine(ReadTo(w))
         /\ ConsoleLine(Append(runs, CatchFrame))
         /\ \A c \in 2 .. Len(runs) : ConsoleLine(SubSeq(runs, 1, c - 1))
         /\ Len(runs) \in Nat
         /\ Top.by \in {"line", "catch"}
         /\ Top.by = "catch" => Len(runs) \in 2 .. Len(runs)
         /\ Catches # {} => Max(Catches) \in 2 .. Len(runs)
<1> DEFINE K == {"line", "catch"}
<1>1. LineOf(K, runs) /\ "catch" \in K
  BY DEF ConsoleLine
<1> HIDE DEF K
<1>2. \A w : LineOf(K, ReadTo(w))
  BY <1>1, LineReads
<1>3. LineOf(K, Append(runs, CatchFrame))
  BY <1>1, LineCatches
<1>4. \A c \in 2 .. Len(runs) : LineOf(K, SubSeq(runs, 1, c - 1))
  BY <1>1, LineUnwinds
<1>5. /\ Len(runs) \in Nat /\ Top.by \in K
      /\ Top.by # "line" => Len(runs) \in 2 .. Len(runs)
      /\ Catches # {} => Max(Catches) \in 2 .. Len(runs)
  BY <1>1, LineTop
<1>6. QED
  BY <1>2, <1>3, <1>4, <1>5 DEF ConsoleLine, K

\* The console's line on the return stack when it starts.
LEMMA ConsoleLineStarts ==
  ASSUME NEW p, NEW e, NEW a, NEW b, NEW m
  PROVE  ConsoleLine(<<Source("line", p, e, a, b, m)>>)
<1> DEFINE A == {p, e, a, TextIn(m, a, b)}
           x == Source("line", p, e, a, b, m)
           K == {"line", "catch"}
<1>1. x \in RunsBy(K, A) /\ x.by = "line"
  BY DEF Source, RunsBy
<1> HIDE DEF A, x, K
<1>2. <<x>> \in Seq(RunsBy(K, A)) /\ Len(<<x>>) >= 1 /\ <<x>>[1].by = "line"
  BY <1>1
<1>3. QED
  BY <1>2 DEF ConsoleLine, LineOf, K, x

\* While the console's line is in the store, what the processor does leaves the
\* line, the store before it and the session cells alone.
LineLeft ==
  /\ lastLine' = lastLine /\ before' = before /\ viewResult' = viewResult
  /\ mem' = mem /\ storeEnd' \in {storeEnd, lastLine}
  /\ pc' \in {"console", "loop", "word", "trim", "back"}
  /\ pc' \in {"loop", "word", "trim"} => ConsoleLine(runs')

LEMMA LineLeftKeeps ==
  ASSUME StoreInv, TrimInv, lastLine # 0, LineLeft
  PROVE  TrimInv'
<1>1. lastLine <= lastLine
  BY Sizes DEF StoreInv
<1>2. QED
  BY <1>1 DEF TrimInv, LineLeft

\* A THROW, caught or not.
LEMMA ThrownLeaves ==
  ASSUME ConsoleLine(runs), Thrown
  PROVE  /\ pc' \in {"word", "back"}
         /\ pc' = "word" => ConsoleLine(runs')
<1>1. CASE Catches = {}
  BY <1>1 DEF Thrown, Reported
<1>2. CASE Catches # {}
  <2>1. pc' = "word" /\ runs' = SubSeq(runs, 1, Max(Catches) - 1)
    BY <1>2 DEF Thrown
  <2>2. QED
    BY <1>2, <2>1, ConsoleLineIs
<1>3. QED
  BY <1>1, <1>2

LEMMA TrimStep ==
  ASSUME StoreInv, TrimInv, [Next]_vars
  PROVE  TrimInv'
<1>1. ASSUME NEW n \in 0 .. EDIT_MAX_LEN, EnterLine(n) PROVE TrimInv'
  <2>1. pc' = "loop" /\ viewResult' = viewResult /\ viewResult = 0
    BY <1>1 DEF EnterLine, sessionVars, TrimInv
  <2>2. CASE lastLine' = 0
    BY <2>1, <2>2 DEF TrimInv
  <2>3. CASE lastLine' # 0
    <3>1. lastLine' = storeEnd /\ before' = Text /\ lastLine' <= storeEnd'
      BY <1>1, <2>3, Sizes DEF EnterLine, StoreInv
    <3>2. \A x \in STORE_START .. storeEnd - 1 : mem'[x] = mem[x]
      BY <1>1, LineEntered
    <3>3. TextIn(mem, STORE_START, storeEnd) = TextIn(mem', STORE_START, storeEnd)
      <4>1. \A i \in 1 .. storeEnd - STORE_START :
              STORE_START + i - 1 \in STORE_START .. storeEnd - 1
        BY Sizes DEF StoreInv
      <4>2. QED
        BY <3>2, <4>1 DEF TextIn
    <3>4. ConsoleLine(runs')
      BY <1>1, ConsoleLineStarts DEF EnterLine
    <3>5. QED
      BY <2>1, <3>1, <3>3, <3>4 DEF TrimInv, Text
  <2>4. QED
    BY <2>2, <2>3
<1>2. CASE lastLine' = 0 /\ ~ BackToConsole /\ ~ \E n \in 0 .. EDIT_MAX_LEN : EnterLine(n)
  <2>1. pc' = "console" => pc = "console" /\ viewResult' = viewResult
    BY <1>2 DEF Next, vars, ReadWord, EndOfSource, WordReturns, Catch, WordFails, Break,
         Trim, TrimDone, SaveText, LoadFails, LoadText, Edit, NoExrom, ViewRefuses, NotFound,
         ViewOpens, ViewReplaces, ViewInserts, ViewDeletes, ViewLeaves, CommitLine,
         CommitRuns, CommitEnds, Thrown, Reported
  <2>2. QED
    BY <1>2, <2>1 DEF TrimInv
<1>3. CASE BackToConsole
  <2>1. /\ viewResult' = 0 /\ pc' = "console" /\ lastLine' = lastLine /\ before' = before
        /\ storeEnd' = storeEnd
        /\ viewResult = 0 => mem' = mem
    BY <1>3 DEF BackToConsole, sessionVars
  <2>2. QED
    BY <2>1 DEF TrimInv
<1>4. ASSUME lastLine' # 0, lastLine # 0, ~ BackToConsole,
             ~ \E n \in 0 .. EDIT_MAX_LEN : EnterLine(n)
      PROVE  TrimInv'
  <2>1. /\ pc \in {"console", "loop", "word", "trim", "back"}
        /\ pc \in {"loop", "word", "trim"} => ConsoleLine(runs)
    BY <1>4 DEF TrimInv
  <2>2. CASE ReadWord
    BY <1>4, <2>1, <2>2, ConsoleLineIs, LineLeftKeeps
       DEF ReadWord, LineLeft, storeVars, sessionVars
  <2>3. CASE EndOfSource
    <3>1. Top.by = "line"
      BY <2>1, <2>3, ConsoleLineIs DEF EndOfSource
    <3>2. QED
      BY <1>4, <2>3, <3>1, LineLeftKeeps DEF EndOfSource, LineLeft, storeVars, sessionVars
  <2>4. CASE WordReturns
    <3>1. CASE Top.by = "catch"
      BY <1>4, <2>1, <2>4, <3>1, ConsoleLineIs, LineLeftKeeps
         DEF WordReturns, LineLeft, Popped, storeVars, sessionVars
    <3>2. CASE Top.by # "catch"
      BY <1>4, <2>1, <2>4, <3>2, LineLeftKeeps
         DEF WordReturns, LineLeft, storeVars, sessionVars
    <3>3. QED
      BY <3>1, <3>2
  <2>5. CASE Catch
    BY <1>4, <2>1, <2>5, ConsoleLineIs, LineLeftKeeps
       DEF Catch, LineLeft, storeVars, sessionVars
  <2>6. CASE WordFails
    <3>1. pc' \in {"word", "back"} /\ (pc' = "word" => ConsoleLine(runs'))
      BY <2>1, <2>6, ThrownLeaves DEF WordFails, Reported
    <3>2. QED
      BY <1>4, <2>6, <3>1, LineLeftKeeps DEF WordFails, LineLeft, storeVars, sessionVars
  <2>7. CASE Break
    <3>1. pc \in {"loop", "word", "trim"}
      BY <2>1, <2>7 DEF Break
    <3>2. pc' \in {"word", "back"} /\ (pc' = "word" => ConsoleLine(runs'))
      BY <2>1, <2>7, <3>1, ThrownLeaves DEF Break
    <3>3. QED
      BY <1>4, <2>7, <3>2, LineLeftKeeps DEF Break, LineLeft, storeVars, sessionVars
  <2>8. ASSUME NEW c \in {"save", "load", "edit", "bare"}, Trim(c) PROVE TrimInv'
    <3>1. pc = "word" /\ runs' = ReadTo(NextWord) /\ pc' = "trim"
      BY <1>4, <2>8 DEF Trim
    <3>2. ConsoleLine(runs')
      BY <2>1, <3>1, ConsoleLineIs
    <3>3. QED
      BY <1>4, <2>8, <3>1, <3>2, LineLeftKeeps DEF Trim, LineLeft, sessionVars
  <2>9. CASE UNCHANGED vars
    BY <1>4, <2>1, <2>9, LineLeftKeeps DEF vars, LineLeft
  <2>10. QED
    BY <1>4, <2>1, <2>2, <2>3, <2>4, <2>5, <2>6, <2>7, <2>8, <2>9
       DEF Next, TrimDone, SaveText, LoadFails, LoadText, Edit, NoExrom, ViewRefuses, NotFound,
           ViewOpens, ViewReplaces, ViewInserts, ViewDeletes, ViewLeaves, CommitLine,
           CommitRuns, CommitEnds
<1>5. ASSUME lastLine' # 0, lastLine = 0
      PROVE  \E n \in 0 .. EDIT_MAX_LEN : EnterLine(n)
  BY <1>5 DEF Next, vars, storeVars, ReadWord, EndOfSource, WordReturns, Catch, WordFails, Break,
         Trim, TrimDone, SaveText, LoadFails, LoadText, Edit, NoExrom, ViewRefuses, NotFound,
         ViewOpens, ViewReplaces, ViewInserts, ViewDeletes, ViewLeaves, CommitLine,
         CommitRuns, CommitEnds, BackToConsole, Spliced
<1>6. QED
  BY <1>1, <1>2, <1>3, <1>4, <1>5

\* A trim takes the console's own line off the store, all of it and nothing else,
\* whatever the line did before it.
THEOREM TrimsOwnLine == Spec => TrimTakesOwnLine
<1>1. Init => TrimInv
  BY DEF Init, TrimInv
<1>2. StoreInv /\ TrimInv /\ [Next]_vars => TrimInv'
  BY TrimStep
<1>3. StoreInv /\ TrimInv /\ [Next]_vars
        => [pc' = "trim" /\ pc # "trim" => Text' = before]_vars
  <2> SUFFICES ASSUME TrimInv, Next, pc' = "trim", pc # "trim" PROVE Text' = before
    BY DEF vars, Text
  <2>1. PICK c \in {"save", "load", "edit", "bare"} : Trim(c)
    BY DEF Next, EnterLine, ReadWord, EndOfSource, WordReturns, Catch, WordFails, Break,
         TrimDone, SaveText, LoadFails, LoadText, Edit, NoExrom, ViewRefuses, NotFound,
         ViewOpens, ViewReplaces, ViewInserts, ViewDeletes, ViewLeaves, CommitLine,
         CommitRuns, CommitEnds, BackToConsole, Thrown, Reported
  <2>2. lastLine # 0 /\ storeEnd' = lastLine /\ mem' = mem
    BY <2>1 DEF Trim
  <2>3. QED
    BY <2>2 DEF TrimInv, Text
<1>4. QED
  BY <1>1, <1>2, <1>3, StoreAlways, PTL DEF Spec, TrimTakesOwnLine
-----------------------------------------------------------------------------
(* No session is left open.  Marked lines and a line number are there only    *)
(* while a session is on the return stack or its answer is in VIEW_RESULT,    *)
(* which the console looks at (EDIT_CLEAR_MARKS) -- but for the moment after   *)
(* EDIT cleared it and before BREAK is deferred, where a BREAK would leave a   *)
(* session around this EDIT open.                                             *)

\* The texts SAVE-TEXT writes outside a session have no marks.
TapesUnmarked == \A t \in Tapes : \A i \in 1 .. Len(t) : t[i] # MARK

StoreMarked == \E a \in STORE_START .. storeEnd - 1 : mem[a] = MARK
InSession == \E i \in DOMAIN runs : runs[i].by = "edit"

SessionInv ==
  /\ pc \in {"console", "back"} => runs = << >>
  /\ pc \notin {"console", "back"} => LineOf(Sources, runs)
  /\ pc \in {"commit", "marked"} => Top.by = "edit"
  /\ pc = "view" => exrom
  /\ pc = "console" => viewResult = 0
  /\ StoreMarked \/ lineNo # 0 \/ InSession =>
       exrom /\ (viewResult # 0 \/ pc \in {"edit", "view"})

\* What a step that opens nothing has to leave.
LEMMA SessionKept ==
  ASSUME SessionInv, exrom' = exrom, pc' \notin {"view", "console"},
         pc' = "back" => runs' = << >>,
         pc' # "back" => LineOf(Sources, runs'),
         pc' \in {"commit", "marked"} => Top'.by = "edit",
         StoreMarked' => StoreMarked, lineNo' \in {0, lineNo}, InSession' => InSession,
         exrom => \/ viewResult' # 0 \/ pc' = "edit"
                  \/ viewResult' = viewResult /\ pc \notin {"edit", "view"}
  PROVE  SessionInv'
BY DEF SessionInv

\* A step in an open view, and one into a session's commit.
LEMMA SessionOpen ==
  ASSUME exrom, exrom' = exrom, LineOf(Sources, runs'),
         \/ pc' = "view"
         \/ pc' \in {"commit", "marked", "loop"} /\ viewResult' # 0 /\ Top'.by = "edit"
  PROVE  SessionInv'
BY DEF SessionInv

LEMMA SameMarks ==
  ASSUME mem' = mem, storeEnd' = storeEnd PROVE StoreMarked' => StoreMarked
BY DEF StoreMarked

LEMMA SameRuns ==
  ASSUME runs' = runs PROVE (InSession' => InSession) /\ Top' = Top
BY DEF InSession, Top

LEMMA SessionReads ==
  ASSUME LineOf(Sources, runs), NEW w, runs' = ReadTo(w)
  PROVE  LineOf(Sources, runs') /\ (InSession' => InSession)
<1>1. /\ LineOf(Sources, runs') /\ DOMAIN runs' = DOMAIN runs
      /\ \A i \in DOMAIN runs : runs'[i].by = runs[i].by
  BY LineReads
<1>2. QED
  BY <1>1 DEF InSession

LEMMA SessionUnwinds ==
  ASSUME LineOf(Sources, runs), NEW c \in 2 .. Len(runs), runs' = SubSeq(runs, 1, c - 1)
  PROVE  LineOf(Sources, runs') /\ (InSession' => InSession)
<1>1. /\ LineOf(Sources, runs')
      /\ \A i \in DOMAIN runs' : i \in DOMAIN runs /\ runs'[i] = runs[i]
  BY LineUnwinds
<1>2. QED
  BY <1>1 DEF InSession

\* Leaving the innermost run that is not the console's line.
LEMMA SessionPops ==
  ASSUME LineOf(Sources, runs), Top.by # "line", runs' = Popped
  PROVE  LineOf(Sources, runs') /\ (InSession' => InSession)
<1>1. Len(runs) \in 2 .. Len(runs)
  BY LineTop
<1>2. QED
  BY <1>1, SessionUnwinds DEF Popped

LEMMA SessionThrows ==
  ASSUME LineOf(Sources, runs), Thrown
  PROVE  /\ pc' \in {"word", "back"} /\ (InSession' => InSession)
         /\ pc' = "back" => runs' = << >>
         /\ pc' # "back" => LineOf(Sources, runs')
<1>1. CASE Catches = {}
  BY <1>1 DEF Thrown, Reported, InSession
<1>2. CASE Catches # {}
  <2>1. Max(Catches) \in 2 .. Len(runs)
    BY <1>2, LineTop
  <2>2. pc' = "word" /\ runs' = SubSeq(runs, 1, Max(Catches) - 1)
    BY <1>2 DEF Thrown
  <2>3. QED
    BY <2>1, <2>2, SessionUnwinds
<1>3. QED
  BY <1>1, <1>2

\* A new source on top of the runs, the CATCHes below it noted.
LEMMA LinePushed ==
  ASSUME LineOf(Sources, runs), NEW by \in Sources, NEW p, NEW e, NEW a, NEW b, NEW m,
         runs' = Append(SourceNoted, Source(by, p, e, a, b, m))
  PROVE  /\ LineOf(Sources, runs') /\ Top'.by = by
         /\ by # "edit" => (InSession' => InSession)
<1>1. PICK A : runs \in Seq(RunsBy(Sources, A)) /\ Len(runs) >= 1 /\ runs[1].by = "line"
  BY DEF LineOf
<1> DEFINE B == A \cup {srcPtr, p, e, a, TextIn(m, a, b)}
           x == Source(by, p, e, a, b, m)
<1>2. x \in RunsBy(Sources, B) /\ x.by = by
  BY DEF Source, RunsBy
<1>3. \A i \in 1 .. Len(runs) : runs[i] \in RunsBy(Sources, B)
  <2>1. A \subseteq B
    OBVIOUS
  <2> HIDE DEF B
  <2>2. QED
    BY <1>1, <2>1, RunsOf
<1>4. /\ SourceNoted \in Seq(RunsBy(Sources, B)) /\ Len(SourceNoted) = Len(runs)
      /\ \A i \in 1 .. Len(runs) : SourceNoted[i].by = runs[i].by
  <2>1. DOMAIN runs = 1 .. Len(runs) /\ Len(runs) \in Nat
    BY <1>1
  <2>2. srcPtr \in B
    OBVIOUS
  <2> HIDE DEF B, x
  <2>3. ASSUME NEW i \in 1 .. Len(runs)
        PROVE  SourceNoted[i] \in RunsBy(Sources, B) /\ SourceNoted[i].by = runs[i].by
    <3>1. runs[i] \in RunsBy(Sources, B)
      BY <1>3
    <3>2. /\ [runs[i] EXCEPT !.ptr = srcPtr] \in RunsBy(Sources, B)
          /\ [runs[i] EXCEPT !.ptr = srcPtr].by = runs[i].by
      BY <2>2, <3>1 DEF RunsBy
    <3>3. QED
      BY <2>1, <3>1, <3>2 DEF SourceNoted
  <2>4. SourceNoted \in [1 .. Len(runs) -> RunsBy(Sources, B)]
    BY <2>1, <2>3 DEF SourceNoted
  <2>5. QED
    BY <2>1, <2>3, <2>4
<1> HIDE DEF B, x
<1>5. /\ runs' \in Seq(RunsBy(Sources, B)) /\ Len(runs') = Len(runs) + 1
      /\ runs'[Len(runs) + 1] = x /\ \A i \in 1 .. Len(runs) : runs'[i] = SourceNoted[i]
  BY <1>1, <1>2, <1>4 DEF x
<1>6. LineOf(Sources, runs')
  BY <1>1, <1>4, <1>5 DEF LineOf
<1>7. Top'.by = by
  BY <1>2, <1>5 DEF Top
<1>8. ASSUME by # "edit", InSession' PROVE InSession
  BY <1>1, <1>2, <1>4, <1>5, <1>8 DEF InSession
<1>9. QED
  BY <1>6, <1>7, <1>8

\* A trim takes off the console's line and no more, so it leaves no mark.
LEMMA TrimUnmarked ==
  ASSUME StoreInv, TrimInv, SessionInv, pc = "word", lastLine # 0,
         storeEnd' = lastLine, mem' = mem
  PROVE  ~ StoreMarked'
<1>1. ~ StoreMarked /\ lastLine <= storeEnd
  BY DEF TrimInv, SessionInv
<1>2. STORE_START .. lastLine - 1 \subseteq STORE_START .. storeEnd - 1
  BY <1>1, Sizes DEF StoreInv
<1>3. QED
  BY <1>1, <1>2 DEF StoreMarked

\* A load leaves no mark in what it wrote.
LEMMA LoadUnmarked ==
  ASSUME TapesUnmarked, StoreInv, NEW t \in Tapes, LoadFails(t) \/ LoadText(t)
  PROVE  StoreMarked' => StoreMarked
<1>1. t \in Seq(Cells) /\ Len(t) \in Nat /\ StoreCells \in Nat
  BY TapeCells
<1>2. \A i \in 1 .. Len(t) : t[i] # MARK
  BY DEF TapesUnmarked
<1>3. STORE_START \in Int /\ mem \in [Memory -> Cells] /\ storeEnd \in STORE_START .. STORE_LIMIT
  BY Sizes DEF StoreInv
<1>4. CASE LoadFails(t)
  <2>1. PICK n \in 0 .. (IF TooLong(t) THEN 0 ELSE Len(t)) :
               mem' = Put(mem, STORE_START, SubSeq(t, 1, n))
    BY <1>4 DEF LoadFails
  <2>2. n \in Nat /\ n <= Len(t)
    BY <1>1, <2>1
  <2>3. /\ SubSeq(t, 1, n) \in Seq(Cells) /\ Len(SubSeq(t, 1, n)) = n
        /\ \A i \in 1 .. n : SubSeq(t, 1, n)[i] = t[i] /\ i \in 1 .. Len(t)
    <3> HIDE DEF Cells
    <3>1. QED
      BY <1>1, <2>2
  <2> DEFINE u == SubSeq(t, 1, n)
  <2> HIDE DEF u
  <2>4. /\ mem' = Put(mem, STORE_START, u) /\ u \in Seq(Cells) /\ Len(u) = n
        /\ \A i \in 1 .. n : u[i] # MARK
    BY <1>2, <2>1, <2>3 DEF u
  <2>5. \A x \in Memory : mem'[x] = IF STORE_START <= x /\ x < STORE_START + Len(u)
                                    THEN u[x - STORE_START + 1] ELSE mem[x]
    <3> HIDE DEF Cells
    <3>1. QED
      BY <1>3, <2>4, PutCells
  <2>6. storeEnd' = storeEnd
    BY <1>4 DEF LoadFails
  <2>7. ASSUME NEW x \in STORE_START .. storeEnd - 1, mem'[x] = MARK PROVE mem[x] = MARK
    <3>1. x \in Memory /\ x \in Int
      BY <1>3, Sizes
    <3>2. CASE x < STORE_START + Len(u)
      <4>1. x - STORE_START + 1 \in 1 .. n
        BY <1>3, <2>2, <2>4, <3>1, <3>2, Sizes
      <4>2. QED
        BY <2>4, <2>5, <2>7, <3>1, <3>2, <4>1
    <3>3. CASE ~ (x < STORE_START + Len(u))
      BY <2>5, <2>7, <3>1, <3>3
    <3>4. QED
      BY <3>2, <3>3
  <2>8. QED
    BY <2>6, <2>7 DEF StoreMarked
<1>5. CASE LoadText(t)
  <2> DEFINE u == Ended(t)
  <2>1. u \in Seq(Cells) /\ Len(u) \in Nat /\ \A i \in 1 .. Len(u) : u[i] # MARK
    <3>1. CR \in Cells /\ CR # MARK
      BY DEF Cells, Terminators, CR, MARK
    <3> HIDE DEF Cells
    <3>2. CASE Ended(t) = t
      BY <1>1, <1>2, <3>2
    <3>3. CASE Ended(t) # t
      <4>1. Ended(t) = t \o <<CR>>
        BY <3>3 DEF Ended
      <4>2. /\ t \o <<CR>> \in Seq(Cells) /\ Len(t \o <<CR>>) = Len(t) + 1
            /\ (t \o <<CR>>)[Len(t) + 1] = CR
            /\ \A i \in 1 .. Len(t) : (t \o <<CR>>)[i] = t[i]
        BY <1>1, <3>1
      <4>3. QED
        BY <1>1, <1>2, <3>1, <4>1, <4>2
    <3>4. QED
      BY <3>2, <3>3
  <2>2. mem' = Put(mem, STORE_START, u) /\ storeEnd' = STORE_START + Len(u)
        /\ storeEnd' \in STORE_START .. STORE_LIMIT
    <3>1. StoreInv'
      BY <1>5, LoadKeepsStore DEF StoreKept
    <3>2. QED
      BY <1>5, <3>1, Sizes DEF LoadText, StoreInv
  <2> HIDE DEF u
  <2>3. \A x \in Memory : mem'[x] = IF STORE_START <= x /\ x < STORE_START + Len(u)
                                    THEN u[x - STORE_START + 1] ELSE mem[x]
    <3> HIDE DEF Cells
    <3>1. QED
      BY <1>3, <2>1, <2>2, PutCells
  <2>4. ASSUME NEW x \in STORE_START .. storeEnd' - 1 PROVE mem'[x] # MARK
    <3>1. x \in Memory /\ x \in Int /\ x - STORE_START + 1 \in 1 .. Len(u)
      BY <1>3, <2>1, <2>2, Sizes
    <3>2. QED
      BY <1>3, <2>1, <2>2, <2>3, <3>1
  <2>5. QED
    BY <2>4 DEF StoreMarked
<1>6. QED
  BY <1>4, <1>5

\* EDIT_CLEAR_MARKS finds every mark of the store.
LEMMA AllMarksFound ==
  ASSUME StoreInv, NEW a \in STORE_START .. storeEnd - 1, mem[a] = MARK
  PROVE  a \in Marks
<1> DEFINE S == {STORE_START} \cup
                 {c + 1 : c \in {c \in STORE_START .. a - 1 : mem[c] \in Terminators}}
<1>1. /\ a \in Nat /\ STORE_START \in Nat /\ STORE_START <= a /\ storeEnd \in Nat
      /\ a < storeEnd /\ a \in STORE_START .. STORE_LIMIT + 1
  BY Sizes DEF StoreInv
<1>2. S \in SUBSET (0 .. a) /\ S # {}
  <2>1. \A c \in STORE_START .. a - 1 : c + 1 \in 0 .. a
    BY <1>1
  <2>2. QED
    BY <1>1, <2>1
<1>3. LineStart(a) = Max(S)
  BY DEF LineStart
<1> HIDE DEF S
<1>4. Max(S) \in S
  BY <1>1, <1>2, MaxOf, Zenon
<1>5. LineStart(a) < storeEnd
  <2>1. Max(S) \in 0 .. a
    BY <1>2, <1>4
  <2> DEFINE x == Max(S)
  <2> HIDE DEF x
  <2>2. x < storeEnd
    BY <1>1, <2>1 DEF x
  <2>3. QED
    BY <1>3, <2>2 DEF x
<1>6. QED
  BY <1>1, <1>5 DEF Marks

\* Clearing some marks makes none.
LEMMA ClearsMarks ==
  ASSUME NEW marks \in SUBSET Marks, StoreInv, mem' = Cleared(marks), storeEnd' = storeEnd
  PROVE  /\ StoreMarked' => StoreMarked
         /\ marks = Marks => ~ StoreMarked'
<1>1. \A b \in STORE_START .. storeEnd - 1 :
        b \in Memory /\ mem'[b] = IF b \in marks THEN CR ELSE mem[b]
  BY Sizes DEF Cleared, StoreInv
<1>2. CR # MARK
  BY DEF CR, MARK
<1>3. StoreMarked' => StoreMarked
  BY <1>1, <1>2 DEF StoreMarked
<1>4. ASSUME marks = Marks, NEW b \in STORE_START .. storeEnd - 1, mem'[b] = MARK PROVE FALSE
  <2>1. mem[b] = MARK /\ b \notin Marks
    BY <1>1, <1>2, <1>4
  <2>2. QED
    BY <2>1, AllMarksFound
<1>5. QED
  BY <1>3, <1>4 DEF StoreMarked

LEMMA SessionStep ==
  ASSUME TapesUnmarked, "edit" \in Shielded, StoreInv, TrimInv, SessionInv, [Next]_vars
  PROVE  SessionInv'
<1>1. pc \notin {"console", "back"} => LineOf(Sources, runs)
  BY DEF SessionInv
<1>2. ASSUME NEW n \in 0 .. EDIT_MAX_LEN, EnterLine(n) PROVE SessionInv'
  <2>1. /\ pc = "console" /\ pc' = "loop" /\ lineNo' = lineNo /\ exrom' = exrom
        /\ viewResult' = viewResult
    BY <1>2 DEF EnterLine, sessionVars
  <2>2. ~ StoreMarked /\ lineNo = 0
    BY <2>1 DEF SessionInv
  <2>3. /\ \A x \in STORE_START .. storeEnd - 1 : mem'[x] = mem[x]
        /\ \A x \in storeEnd .. storeEnd' - 1 : mem'[x] \in {"typed", CR}
        /\ StoreInv'
    BY <1>2, LineEntered DEF StoreKept
  <2>4. ~ StoreMarked'
    <3>1. \A x \in STORE_START .. storeEnd' - 1 :
            x \in STORE_START .. storeEnd - 1 \/ x \in storeEnd .. storeEnd' - 1
      <4>1. storeEnd \in Int /\ STORE_START \in Int
        BY Sizes DEF StoreInv
      <4>2. storeEnd' \in Int
        BY <2>3, Sizes DEF StoreInv
      <4> DEFINE f == storeEnd
                 l == storeEnd'
      <4> HIDE DEF f, l
      <4>3. f \in Int /\ l \in Int
        BY <4>1, <4>2 DEF f, l
      <4>4. \A x \in STORE_START .. l - 1 : x \in STORE_START .. f - 1 \/ x \in f .. l - 1
        BY <4>1, <4>3
      <4>5. QED
        BY <4>4 DEF f, l
    <3>2. "typed" # MARK /\ CR # MARK
      BY DEF CR, MARK
    <3>3. QED
      BY <2>2, <2>3, <3>1, <3>2 DEF StoreMarked
  <2>5. LineOf(Sources, runs') /\ ~ InSession'
    <3> DEFINE x == Source("line", EDIT_BUF, EDIT_BUF, EDIT_BUF, EDIT_BUF + n,
                       Put(mem, EDIT_BUF, Repeated("typed", n) \o Repeated(CR, EDIT_MAX_LEN - n)))
               A == {x.ptr, x.end, x.at, x.text}
    <3>1. runs' = <<x>>
      BY <1>2 DEF EnterLine
    <3>2. x \in RunsBy(Sources, A) /\ x.by = "line"
      BY DEF Source, RunsBy, Sources
    <3> HIDE DEF x, A
    <3>3. /\ <<x>> \in Seq(RunsBy(Sources, A)) /\ Len(<<x>>) >= 1 /\ <<x>>[1] = x
          /\ DOMAIN <<x>> = 1 .. 1
      BY <3>2
    <3>4. QED
      BY <3>1, <3>2, <3>3 DEF LineOf, InSession
  <2>6. QED
    BY <2>1, <2>2, <2>4, <2>5 DEF SessionInv
<1>3. CASE ReadWord
  BY <1>1, <1>3, SameMarks, SessionReads, SessionKept DEF ReadWord, storeVars, sessionVars
<1>4. CASE EndOfSource
  <2>1. /\ pc = "loop" /\ mem' = mem /\ storeEnd' = storeEnd /\ lineNo' = lineNo
        /\ viewResult' = viewResult /\ exrom' = exrom /\ LineOf(Sources, runs)
    BY <1>1, <1>4 DEF EndOfSource, storeVars, sessionVars
  <2>2. CASE pc' = "back" /\ runs' = << >>
    BY <2>1, <2>2, SameMarks, SessionKept DEF InSession
  <2>3. CASE Top.by = "load" /\ pc' = "word" /\ runs' = Popped
    BY <2>1, <2>3, SameMarks, SessionPops, SessionKept
  <2>4. CASE Top.by = "edit" /\ pc' = "commit" /\ runs' = runs
    BY <2>1, <2>4, SameMarks, SameRuns, SessionKept
  <2>5. QED
    BY <1>4, <2>2, <2>3, <2>4 DEF EndOfSource
<1>5. CASE WordReturns
  <2>1. CASE Top.by = "catch"
    BY <1>1, <1>5, <2>1, SameMarks, SessionPops, SessionKept
       DEF WordReturns, storeVars, sessionVars
  <2>2. CASE Top.by # "catch"
    BY <1>1, <1>5, <2>2, SameMarks, SameRuns, SessionKept
       DEF WordReturns, storeVars, sessionVars
  <2>3. QED
    BY <2>1, <2>2
<1>6. CASE Catch
  <2>1. /\ pc = "word" /\ pc' = "word" /\ mem' = mem /\ storeEnd' = storeEnd
        /\ lineNo' = lineNo /\ viewResult' = viewResult /\ exrom' = exrom
        /\ runs' = Append(runs, CatchFrame)
    BY <1>6 DEF Catch, storeVars, sessionVars
  <2>2. LineOf(Sources, runs')
    BY <1>1, <2>1, LineCatches DEF Sources
  <2>3. InSession' => InSession
    <3>1. PICK A : runs \in Seq(RunsBy(Sources, A))
      BY <1>1, <2>1 DEF LineOf
    <3>2. CatchFrame.by = "catch"
      BY DEF CatchFrame
    <3>3. \A i \in DOMAIN runs' :
            (i \in DOMAIN runs /\ runs'[i] = runs[i]) \/ runs'[i] = CatchFrame
      BY <2>1, <3>1
    <3>4. QED
      BY <3>2, <3>3 DEF InSession
  <2>4. QED
    BY <2>1, <2>2, <2>3, SameMarks, SessionKept
<1>7. CASE WordFails \/ Break \/ SaveText
  <2>1. /\ mem' = mem /\ storeEnd' = storeEnd /\ lineNo' = lineNo
        /\ viewResult' = viewResult /\ exrom' = exrom
        /\ pc \notin {"console", "back", "edit", "view"}
    BY <1>7 DEF WordFails, Break, SaveText, storeVars, sessionVars, Points
  <2>2. CASE Thrown
    BY <1>1, <2>1, <2>2, SessionThrows, SameMarks, SessionKept
  <2>3. CASE Reported
    BY <2>1, <2>3, SameMarks, SessionKept DEF Reported, InSession
  <2>4. CASE pc' = "word" /\ runs' = runs
    BY <1>1, <2>1, <2>4, SameRuns, SameMarks, SessionKept
  <2>5. QED
    BY <1>7, <2>2, <2>3, <2>4 DEF WordFails, Break, SaveText
<1>8. ASSUME NEW c \in {"save", "load", "edit", "bare"}, Trim(c) PROVE SessionInv'
  <2>1. /\ pc = "word" /\ pc' \in {"trim", "trimmed"} /\ mem' = mem /\ lineNo' = lineNo
        /\ viewResult' = viewResult /\ exrom' = exrom /\ runs' = ReadTo(NextWord)
    BY <1>8 DEF Trim, sessionVars
  <2>2. StoreMarked' => StoreMarked
    <3>1. CASE lastLine = 0
      BY <1>8, <2>1, <3>1, SameMarks DEF Trim
    <3>2. CASE lastLine # 0
      <4>1. ~ StoreMarked'
        <5>1. storeEnd' = lastLine
          BY <1>8, <3>2 DEF Trim
        <5>2. QED
          BY <1>8, <2>1, <3>2, <5>1, TrimUnmarked
      <4>2. QED
        BY <4>1
    <3>3. QED
      BY <3>1, <3>2
  <2>3. QED
    BY <1>1, <2>1, <2>2, SessionReads, SessionKept
<1>9. CASE TrimDone
  BY <1>1, <1>9, SameRuns, SameMarks, SessionKept DEF TrimDone, sessionVars
<1>10. ASSUME NEW t \in Tapes, LoadFails(t) \/ LoadText(t) PROVE SessionInv'
  <2>1. /\ pc = "trimmed" /\ lineNo' = lineNo /\ viewResult' = viewResult /\ exrom' = exrom
    BY <1>10 DEF LoadFails, LoadText, sessionVars
  <2>2. StoreMarked' => StoreMarked
    BY <1>10, LoadUnmarked
  <2>3. CASE LoadFails(t)
    BY <1>1, <2>1, <2>2, <2>3, SessionThrows, SessionKept DEF LoadFails
  <2>4. CASE LoadText(t)
    <3>1. LineOf(Sources, runs') /\ (InSession' => InSession)
      <4>1. runs' = Append(SourceNoted, Source("load", srcPtr, srcEnd, STORE_START,
                                 STORE_START + Len(t), Put(mem, STORE_START, Ended(t))))
        BY <2>4 DEF LoadText
      <4>2. "load" \in Sources /\ "load" # "edit"
        BY DEF Sources
      <4>3. QED
        BY <1>1, <2>1, <4>1, <4>2, LinePushed
    <3>2. QED
      BY <2>1, <2>2, <2>4, <3>1, SessionKept DEF LoadText
  <2>5. QED
    BY <1>10, <2>3, <2>4
<1>11. CASE Edit
  BY <1>1, <1>11, SameRuns, SameMarks, SessionKept DEF Edit, storeVars
<1>12. CASE NoExrom \/ ViewRefuses
  BY <1>1, <1>12, SameRuns, SameMarks, SessionKept
     DEF NoExrom, ViewRefuses, storeVars, sessionVars
<1>13. CASE NotFound
  BY <1>13, SameMarks, SessionKept DEF NotFound, Reported, InSession, storeVars
<1>14. CASE ViewOpens
  BY <1>1, <1>14, SessionOpen DEF ViewOpens
<1>15. ASSUME NEW a \in LineStarts,
              \/ \E n \in 0 .. EDIT_MAX_LEN : ViewReplaces(a, n)
              \/ ViewInserts(a) \/ ViewDeletes(a) \/ ViewLeaves(a)
       PROVE  SessionInv'
  <2>1. pc = "view" /\ exrom /\ exrom' = exrom /\ LineOf(Sources, runs)
    BY <1>1, <1>15
       DEF ViewReplaces, ViewInserts, ViewDeletes, ViewLeaves, SessionInv
  <2>2. CASE ViewLeaves(a)
    <3>1. runs' = Append(SourceNoted, Source("edit", srcPtr, srcEnd, a, a, mem))
          /\ pc' = "commit" /\ viewResult' = 3
      BY <2>2 DEF ViewLeaves
    <3>2. LineOf(Sources, runs') /\ Top'.by = "edit"
      BY <2>1, <3>1, LinePushed DEF Sources
    <3>3. QED
      BY <2>1, <3>1, <3>2, SessionOpen
  <2>3. CASE ~ ViewLeaves(a)
    BY <1>15, <2>1, <2>3, SessionOpen DEF ViewReplaces, ViewInserts, ViewDeletes
  <2>4. QED
    BY <2>2, <2>3
<1>16. ASSUME pc \in {"commit", "marked"}
       PROVE  LineOf(Sources, runs) /\ exrom /\ viewResult # 0 /\ Top.by = "edit"
  <2>1. LineOf(Sources, runs) /\ Top.by = "edit"
    BY <1>16 DEF SessionInv
  <2>2. InSession
    BY <2>1, LineTop DEF InSession, Top
  <2>3. QED
    BY <1>16, <2>1, <2>2 DEF SessionInv
<1>17. CASE CommitLine
  <2>1. pc = "commit" /\ pc' = "marked" /\ exrom' = exrom /\ viewResult' = viewResult
    BY <1>17 DEF CommitLine, sessionVars
  <2>2. PICK w, t : Changed(runs', Len(runs), w, t)
    BY <1>17 DEF CommitLine, Changed, Moved
  <2>3. /\ LineOf(Sources, runs') /\ Len(runs') = Len(runs)
        /\ \A i \in DOMAIN runs : runs'[i].by = runs[i].by
    BY <1>16, <2>1, <2>2, LineChanges
  <2>4. Top'.by = "edit"
    BY <1>16, <2>1, <2>3, LineTop DEF Top
  <2>5. QED
    BY <1>16, <2>1, <2>3, <2>4, SessionOpen
<1>18. CASE CommitRuns
  BY <1>16, <1>18, SameRuns, SessionOpen DEF CommitRuns
<1>19. CASE CommitEnds
  <2>1. pc = "commit" /\ Top.by # "line"
    BY <1>16, <1>19 DEF CommitEnds
  <2>2. QED
    BY <1>1, <1>19, <2>1, SameMarks, SessionPops, SessionKept DEF CommitEnds, storeVars
<1>20. CASE BackToConsole
  <2>1. /\ pc = "back" /\ pc' = "console" /\ runs' = runs /\ exrom' = exrom
        /\ storeEnd' = storeEnd
    BY <1>20 DEF BackToConsole
  <2>2. runs = << >> /\ ~ InSession
    BY <2>1 DEF SessionInv, InSession
  <2>3. CASE viewResult # 0
    <3>1. mem' = Cleared(Marks) /\ viewResult' = 0 /\ lineNo' = 0
      BY <1>20, <2>3 DEF BackToConsole
    <3>2. ~ StoreMarked'
      BY <2>1, <3>1, ClearsMarks
    <3>3. QED
      BY <2>1, <2>2, <3>1, <3>2, SameRuns DEF SessionInv
  <2>4. CASE viewResult = 0
    <3>1. mem' = mem /\ viewResult' = 0 /\ lineNo' = lineNo
      BY <1>20, <2>4 DEF BackToConsole, sessionVars
    <3>2. ~ StoreMarked /\ lineNo = 0
      BY <2>1, <2>4 DEF SessionInv
    <3>3. QED
      BY <2>1, <2>2, <3>1, <3>2, SameRuns, SameMarks DEF SessionInv
  <2>5. QED
    BY <2>3, <2>4
<1>21. CASE UNCHANGED vars
  BY <1>21 DEF vars, SessionInv, StoreMarked, InSession, Top
<1>22. QED
  BY <1>2, <1>3, <1>4, <1>5, <1>6, <1>7, <1>8, <1>9, <1>10, <1>11, <1>12, <1>13, <1>14,
     <1>15, <1>17, <1>18, <1>19, <1>20, <1>21 DEF Next

\* At the prompt no session is left open, whatever ended the last line: an
\* error, a caught THROW, a BREAK anywhere but before EDIT defers it.
THEOREM NoSessionLeftOpen ==
  ASSUME TapesUnmarked, "edit" \in Shielded
  PROVE  Spec => []SessionClosed
<1>1. Init => TrimInv
  BY DEF Init, TrimInv
<1>2. Init => SessionInv
  <2> SUFFICES ASSUME Init PROVE SessionInv
    OBVIOUS
  <2>1. ~ StoreMarked
    BY Sizes DEF Init, StoreMarked
  <2>2. runs = << >> /\ ~ InSession
    BY DEF Init, InSession
  <2>3. QED
    BY <2>1, <2>2 DEF Init, SessionInv
<1>3. StoreInv /\ TrimInv /\ [Next]_vars => TrimInv'
  BY TrimStep
<1>4. StoreInv /\ TrimInv /\ SessionInv /\ [Next]_vars => SessionInv'
  BY SessionStep
<1>5. SessionInv => SessionClosed
  BY DEF SessionInv, SessionClosed, StoreMarked
<1>6. QED
  BY <1>1, <1>2, <1>3, <1>4, <1>5, StoreAlways, PTL DEF Spec
-----------------------------------------------------------------------------
(* Every source is read from where it was read to.  The runs are the         *)
(* console's line, the CATCHes it took, and above them the texts and the     *)
(* lines of sessions: whatever is being read under another source has been   *)
(* read to its end, but for the console's line under a text, and what the    *)
(* interpreter returns to is where the run under it was left.                *)

Run == [by : Sources, ptr : Int, end : Int, at : Int, text : Seq(Cells)]
EndOf(r) == r.at + Len(r.text)
Holds(m, r) == \A i \in 1 .. Len(r.text) : m[r.at + i - 1] = r.text[i]

\* The run whose words are executed when run i is on top.
Under(s, i) == IF s[i].by = "catch" THEN 1 ELSE i

InEditBuf(r) ==
  r.by = "line" /\ EDIT_BUF <= r.at /\ EndOf(r) <= EDIT_BUF + EDIT_MAX_LEN
Nested(s, i) ==
  /\ s[i].by # "line"
  /\ s[i].by = "catch" => /\ s[i].text = << >> /\ s[i].end = EndOf(s[1])
                          /\ \A j \in 2 .. i : s[j].by = "catch"
  /\ s[i].by # "catch" => /\ s[i].ptr = s[Under(s, i - 1)].at
                          /\ s[i].end = EndOf(s[Under(s, i - 1)])
                          /\ STORE_START <= s[i].at
  /\ s[i].by = "edit" => s[1].text = << >>
RunsAre(s) ==
  /\ s \in Seq(Run) /\ Len(s) >= 1 /\ InEditBuf(s[1])
  /\ \A i \in 2 .. Len(s) : Nested(s, i) /\ (i < Len(s) => s[i].text = << >>)

\* SRC_PTR and SRC_END are p and e: they are the executed run's, and a THROW
\* would put back the console line's.
Reads(s, p, e, m) ==
  LET r == s[Under(s, Len(s))] IN p = r.at /\ e = EndOf(r) /\ Holds(m, r)
Noted(s, p, e) ==
  /\ IF s[Len(s)].by = "catch" THEN e = EndOf(s[1])
     ELSE \A c \in 2 .. Len(s) : s[c].by = "catch" => s[c].ptr = s[1].at
  /\ e = EndOf(s[1]) => p = s[1].at
AllRead(s, k) == \A i \in k .. Len(s) : s[i].text = << >>

Sound(s, p, e, m) == RunsAre(s) /\ Holds(m, s[1]) /\ Noted(s, p, e)

SourceInv ==
  pc \notin {"console", "back"} =>
    /\ Sound(runs, srcPtr, srcEnd, mem)
    /\ pc \notin {"commit", "marked"} => Reads(runs, srcPtr, srcEnd, mem)
    /\ pc \in {"commit", "marked"} => Top.by = "edit"
    /\ pc = "marked" => Holds(mem, Top)
    /\ pc \in {"trim", "trimmed"} =>
         /\ cmd \in {"save", "load", "edit", "bare"}
         /\ cmd = "load" => AllRead(runs, 2)
         /\ cmd \in {"edit", "bare"} => AllRead(runs, 1)
    /\ pc \in {"edit", "view"} => AllRead(runs, 1)

\* The parts of a run, and where it ends.
LEMMA RunFacts ==
  ASSUME NEW r \in Run
  PROVE  /\ r.by \in Sources /\ r.ptr \in Int /\ r.end \in Int /\ r.at \in Int
         /\ r.text \in Seq(Cells) /\ Len(r.text) \in Nat /\ EndOf(r) \in Int
<1> HIDE DEF Cells
<1>1. QED
  BY DEF Run, EndOf

\* A run that has read on.
LEMMA MovedRun ==
  ASSUME NEW r \in Run, NEW w \in Int, NEW t \in Seq(Cells)
  PROVE  /\ Moved(r, w, t) \in Run /\ Moved(r, w, t).by = r.by
         /\ Moved(r, w, t).ptr = r.ptr /\ Moved(r, w, t).end = r.end
         /\ Moved(r, w, t).at = w /\ Moved(r, w, t).text = t
<1> HIDE DEF Cells
<1>1. QED
  BY DEF Run, Moved

\* What the runs have in common.
LEMMA RunsFacts ==
  ASSUME NEW s, RunsAre(s)
  PROVE  /\ s \in Seq(Run) /\ Len(s) \in Nat /\ Len(s) >= 1 /\ DOMAIN s = 1 .. Len(s)
         /\ 1 \in 1 .. Len(s) /\ Len(s) \in 1 .. Len(s)
         /\ \A i \in 1 .. Len(s) : s[i] \in Run
         /\ InEditBuf(s[1])
         /\ \A i \in 2 .. Len(s) : Nested(s, i)
         /\ Under(s, Len(s)) \in 1 .. Len(s)
         /\ s[Under(s, Len(s))].by # "catch"
<1> HIDE DEF Run
<1>1. /\ s \in Seq(Run) /\ Len(s) \in Nat /\ Len(s) >= 1 /\ DOMAIN s = 1 .. Len(s)
      /\ 1 \in 1 .. Len(s) /\ Len(s) \in 1 .. Len(s)
      /\ \A i \in 1 .. Len(s) : s[i] \in Run
      /\ InEditBuf(s[1])
      /\ \A i \in 2 .. Len(s) : Nested(s, i)
  BY DEF RunsAre
<1>2. Under(s, Len(s)) \in 1 .. Len(s) /\ s[Under(s, Len(s))].by # "catch"
  BY <1>1 DEF Under, InEditBuf
<1>3. QED
  BY <1>1, <1>2

\* What is read when a CATCH is on top is the console's line.
LEMMA ReadingIs ==
  ASSUME RunsAre(runs)
  PROVE  /\ Reading = Under(runs, Len(runs))
         /\ Catches # {} => /\ Max(Catches) \in 2 .. Len(runs)
                            /\ runs[Max(Catches)].by = "catch"
<1> DEFINE n == Len(runs)
           u == Under(runs, n)
           D == DOMAIN runs \ Catches
<1>1. /\ n \in Nat /\ n >= 1 /\ DOMAIN runs = 1 .. n /\ n \in 1 .. n /\ InEditBuf(runs[1])
      /\ \A i \in 2 .. n : Nested(runs, i)
      /\ u \in 1 .. n /\ runs[u].by # "catch"
  BY RunsFacts
<1>2. u \in D /\ D \in SUBSET (0 .. n)
  BY <1>1 DEF Catches
<1>3. \A x \in D : x <= u
  <2>1. CASE runs[n].by = "catch"
    <3>1. \A j \in 2 .. n : runs[j].by = "catch"
      <4>1. n \in 2 .. n
        BY <1>1, <2>1 DEF InEditBuf
      <4>2. QED
        BY <1>1, <2>1, <4>1 DEF Nested
    <3>2. \A x \in D : x = 1
      BY <1>1, <3>1 DEF Catches
    <3>3. QED
      BY <1>1, <3>2
  <2>2. CASE runs[n].by # "catch"
    BY <1>1, <2>2 DEF Under
  <2>3. QED
    BY <2>1, <2>2
<1> HIDE DEF u
<1>4. Max(D) = u
  <2> HIDE DEF D
  <2>1. Max(D) \in D /\ \A x \in D : x <= Max(D)
    <3>1. n \in Nat /\ D # {}
      BY <1>1, <1>2
    <3>2. QED
      BY <1>2, <3>1, MaxOf, Zenon
  <2> DEFINE x == Max(D)
  <2> HIDE DEF x
  <2>2. x \in D /\ u <= x /\ x <= u
    BY <1>2, <1>3, <2>1 DEF x
  <2>3. u \in Int
    BY <1>1
  <2>4. x \in 0 .. n
    BY <1>2, <2>2
  <2>5. x = u
    BY <1>1, <2>2, <2>3, <2>4
  <2>6. QED
    BY <2>5 DEF x
<1>5. ASSUME Catches # {} PROVE Max(Catches) \in 2 .. n /\ runs[Max(Catches)].by = "catch"
  <2>1. Catches \in SUBSET (0 .. n) /\ n \in Nat
    BY <1>1 DEF Catches
  <2>2. Max(Catches) \in Catches
    BY <1>5, <2>1, MaxOf, Zenon
  <2>3. QED
    BY <1>1, <2>2 DEF Catches, InEditBuf
<1>6. QED
  BY <1>4, <1>5 DEF Reading, u

\* A run's place depends on the runs up to it only.
LEMMA NestedBelow ==
  ASSUME NEW s, NEW t, NEW i \in Nat, 2 <= i,
         \A j \in 1 .. i : t[j] = s[j], Nested(s, i)
  PROVE  Nested(t, i)
<1>1. 1 \in 1 .. i /\ i \in 1 .. i /\ i - 1 \in 1 .. i /\ \A j \in 2 .. i : j \in 1 .. i
  OBVIOUS
<1>2. t[1] = s[1] /\ t[i] = s[i] /\ t[i - 1] = s[i - 1] /\ Under(t, i - 1) = Under(s, i - 1)
  BY <1>1 DEF Under
<1>3. t[Under(t, i - 1)] = s[Under(s, i - 1)]
  BY <1>1, <1>2 DEF Under
<1>4. QED
  BY <1>1, <1>2, <1>3 DEF Nested

\* Leaving the innermost runs.
LEMMA RunsCut ==
  ASSUME NEW s, RunsAre(s), NEW k \in 1 .. Len(s)
  PROVE  /\ RunsAre(SubSeq(s, 1, k)) /\ Len(SubSeq(s, 1, k)) = k
         /\ \A i \in 1 .. k : SubSeq(s, 1, k)[i] = s[i]
<1> HIDE DEF Run
<1>1. /\ s \in Seq(Run) /\ Len(s) \in Nat /\ InEditBuf(s[1])
      /\ \A i \in 2 .. Len(s) : Nested(s, i) /\ (i < Len(s) => s[i].text = << >>)
  BY DEF RunsAre
<1> DEFINE t == SubSeq(s, 1, k)
<1>2. t \in Seq(Run) /\ Len(t) = k /\ \A i \in 1 .. k : t[i] = s[i]
  BY <1>1
<1> HIDE DEF t
<1>3. ASSUME NEW i \in 2 .. k PROVE Nested(t, i) /\ (i < k => t[i].text = << >>)
  <2>1. i \in Nat /\ 2 <= i /\ i \in 2 .. Len(s) /\ \A j \in 1 .. i : j \in 1 .. k
    BY <1>1
  <2>2. \A j \in 1 .. i : t[j] = s[j]
    BY <1>2, <2>1
  <2>3. Nested(t, i)
    BY <1>1, <2>1, <2>2, NestedBelow
  <2>4. QED
    BY <1>1, <1>2, <2>1, <2>3
<1>4. t[1] = s[1] /\ Len(t) >= 1
  BY <1>2
<1>5. RunsAre(t)
  BY <1>1, <1>2, <1>3, <1>4 DEF RunsAre
<1>6. QED
  BY <1>2, <1>5 DEF t

\* A new run on top of runs that have been read.
LEMMA RunsGrow ==
  ASSUME NEW s, RunsAre(s), AllRead(s, 2), NEW x \in Run,
         Nested(Append(s, x), Len(s) + 1)
  PROVE  /\ RunsAre(Append(s, x)) /\ Len(Append(s, x)) = Len(s) + 1
         /\ Append(s, x)[Len(s) + 1] = x
         /\ \A i \in 1 .. Len(s) : Append(s, x)[i] = s[i]
<1> HIDE DEF Run
<1>1. /\ s \in Seq(Run) /\ Len(s) \in Nat /\ Len(s) >= 1 /\ InEditBuf(s[1])
      /\ \A i \in 2 .. Len(s) : Nested(s, i)
  BY DEF RunsAre
<1> DEFINE t == Append(s, x)
<1>2. /\ t \in Seq(Run) /\ Len(t) = Len(s) + 1 /\ t[Len(s) + 1] = x
      /\ \A i \in 1 .. Len(s) : t[i] = s[i]
  BY <1>1
<1>3. Nested(t, Len(s) + 1)
  OBVIOUS
<1> HIDE DEF t
<1>4. ASSUME NEW i \in 2 .. Len(s) PROVE Nested(t, i) /\ t[i].text = << >>
  <2>1. i \in Nat /\ 2 <= i /\ i \in 1 .. Len(s) /\ \A j \in 1 .. i : j \in 1 .. Len(s)
    BY <1>1
  <2>2. \A j \in 1 .. i : t[j] = s[j]
    BY <1>2, <2>1
  <2>3. Nested(t, i)
    BY <1>1, <2>1, <2>2, NestedBelow
  <2>4. QED
    BY <1>2, <2>1, <2>3 DEF AllRead
<1>5. \A i \in 2 .. Len(t) : i \in 2 .. Len(s) \/ i = Len(s) + 1
  BY <1>1, <1>2
<1>6. t[1] = s[1] /\ Len(t) >= 1
  BY <1>1, <1>2
<1>7. \A i \in 2 .. Len(t) : Nested(t, i) /\ (i < Len(t) => t[i].text = << >>)
  BY <1>1, <1>2, <1>3, <1>4, <1>5
<1>8. RunsAre(t)
  BY <1>1, <1>2, <1>6, <1>7 DEF RunsAre
<1>9. QED
  BY <1>2, <1>8 DEF t

\* The run whose words are executed now.
Executed(r) == r = Under(runs, Len(runs))

\* The executed run moves on, to its end at most (or, if a session's line is the
\* executed run, to another line of the store).
LEMMA RunsMove ==
  ASSUME RunsAre(runs), NEW w \in Int, NEW t \in Seq(Cells), NEW u,
         NEW r, Executed(r), Changed(u, r, w, t),
         runs[r].by # "line" => STORE_START <= w,
         runs[r].by = "line" => runs[r].at <= w /\ w + Len(t) = EndOf(runs[r])
  PROVE  /\ RunsAre(u) /\ Len(u) = Len(runs) /\ r \in 1 .. Len(runs)
         /\ \A i \in 1 .. Len(runs) : u[i].by = runs[i].by
         /\ u[r] = Moved(runs[r], w, t)
         /\ \A i \in 1 .. Len(runs) : i # r => u[i] = runs[i]
<1> HIDE DEF Run, Cells
<1>1. /\ runs \in Seq(Run) /\ Len(runs) \in Nat /\ Len(runs) >= 1 /\ DOMAIN runs = 1 .. Len(runs)
      /\ 1 \in 1 .. Len(runs) /\ Len(runs) \in 1 .. Len(runs) /\ InEditBuf(runs[1])
      /\ \A i \in 1 .. Len(runs) : runs[i] \in Run
      /\ \A i \in 2 .. Len(runs) : Nested(runs, i)
      /\ r \in 1 .. Len(runs) /\ runs[r].by # "catch"
  BY RunsFacts DEF Executed
<1> DEFINE x == Moved(runs[r], w, t)
<1>2. /\ x \in Run /\ x.by = runs[r].by /\ x.ptr = runs[r].ptr /\ x.end = runs[r].end
      /\ x.at = w /\ x.text = t /\ runs[r] \in Run
  BY <1>1, MovedRun
<1>3. Len(t) \in Nat /\ EndOf(x) = w + Len(t) /\ runs[r].at \in Int
  BY <1>2, RunFacts DEF EndOf
<1>4. u = [runs EXCEPT ![r] = x]
  BY DEF Changed
<1> HIDE DEF x
<1>5. /\ u \in Seq(Run) /\ Len(u) = Len(runs) /\ u[r] = x
      /\ \A i \in 1 .. Len(runs) : i # r => u[i] = runs[i]
  BY <1>1, <1>2, <1>4
<1>6. \A i \in 1 .. Len(runs) : u[i].by = runs[i].by
  BY <1>2, <1>5
\* r is the top run, or the line under its CATCHes.
<1>7. /\ \/ r = Len(runs)
         \/ r = 1 /\ \A i \in 2 .. Len(runs) : runs[i].by = "catch"
      /\ runs[r].by = "line" <=> r = 1
  <2>1. runs[1].by = "line" /\ \A i \in 2 .. Len(runs) : runs[i].by # "line"
    BY <1>1 DEF InEditBuf, Nested
  <2>2. CASE runs[Len(runs)].by = "catch"
    <3>1. Len(runs) \in 2 .. Len(runs) /\ r = 1
      BY <1>1, <2>1, <2>2 DEF Under, Executed
    <3>2. \A j \in 2 .. Len(runs) : runs[j].by = "catch"
      BY <1>1, <2>2, <3>1 DEF Nested
    <3>3. QED
      BY <2>1, <3>1, <3>2
  <2>3. CASE runs[Len(runs)].by # "catch"
    <3>1. r = Len(runs)
      BY <2>3 DEF Under, Executed
    <3>2. QED
      BY <1>1, <2>1, <3>1
  <2>4. QED
    BY <2>2, <2>3
<1>8. InEditBuf(u[1])
  <2>1. CASE r = 1
    <3>1. EDIT_BUF <= w
      BY <1>1, <1>3, <1>7, <2>1 DEF InEditBuf, EDIT_BUF
    <3>2. QED
      BY <1>1, <1>2, <1>3, <1>5, <1>7, <2>1, <3>1 DEF InEditBuf
  <2>2. CASE r # 1
    BY <1>1, <1>5, <2>2
  <2>3. QED
    BY <2>1, <2>2
<1>9. ASSUME NEW i \in 2 .. Len(runs) PROVE Nested(u, i) /\ (i < Len(u) => u[i].text = << >>)
  <2>1. i \in 1 .. Len(runs) /\ i - 1 \in 1 .. Len(runs) /\ i \in Nat /\ 2 <= i /\ Nested(runs, i)
        /\ (i < Len(runs) => runs[i].text = << >>)
    BY <1>1 DEF RunsAre
  <2>2. CASE r = 1
    <3>1. u[i] = runs[i] /\ runs[i].by = "catch" /\ \A j \in 2 .. i : u[j].by = "catch"
      BY <1>1, <1>5, <1>6, <1>7, <2>1, <2>2
    <3>2. EndOf(u[1]) = EndOf(runs[1])
      BY <1>3, <1>5, <1>7, <2>2
    <3>3. Nested(u, i)
      BY <2>1, <3>1, <3>2 DEF Nested
    <3>4. QED
      BY <1>5, <2>1, <3>1, <3>3
  <2>3. CASE r # 1 /\ i # r
    <3>1. i < r /\ \A j \in 1 .. i : j \in 1 .. Len(runs) /\ j # r
      <4>1. r = Len(runs) /\ i \in 2 .. Len(runs) /\ Len(runs) \in Nat
        BY <1>1, <1>7, <2>3
      <4>2. QED
        BY <2>3, <4>1
    <3>2. \A j \in 1 .. i : u[j] = runs[j]
      BY <1>5, <3>1
    <3>3. Nested(u, i)
      BY <2>1, <3>2, NestedBelow
    <3>4. QED
      BY <1>5, <2>1, <2>3, <3>3
  <2>4. CASE r # 1 /\ i = r
    <3>1. r = Len(runs) /\ runs[i].by # "catch" /\ runs[i].by # "line" /\ u[i] = x
      BY <1>1, <1>5, <1>7, <2>4
    <3>2. u[1] = runs[1] /\ u[i - 1] = runs[i - 1]
      BY <1>1, <1>5, <2>1, <2>4
    <3>3. Under(u, i - 1) = Under(runs, i - 1) /\ u[Under(u, i - 1)] = runs[Under(runs, i - 1)]
      BY <3>2 DEF Under, Executed
    <3>4. STORE_START <= u[i].at
      BY <1>2, <2>4, <3>1
    <3>5. u[i].by = runs[i].by /\ u[i].ptr = runs[i].ptr /\ u[i].end = runs[i].end
      BY <1>2, <2>4, <3>1
    <3>6. Nested(u, i)
      BY <2>1, <3>1, <3>2, <3>3, <3>4, <3>5 DEF Nested
    <3>7. ~ (i < Len(u))
      BY <1>1, <1>5, <2>4, <3>1
    <3>8. QED
      BY <3>6, <3>7
  <2>5. QED
    BY <2>2, <2>3, <2>4
<1>10. RunsAre(u)
  BY <1>1, <1>5, <1>8, <1>9 DEF RunsAre
<1>11. QED
  BY <1>1, <1>5, <1>6, <1>10 DEF x

\* CATCH_SRC_HERE changes where the CATCHes go back to, and nothing else.
LEMMA RunsNoted ==
  ASSUME RunsAre(runs), srcPtr \in Int
  PROVE  /\ RunsAre(SourceNoted) /\ Len(SourceNoted) = Len(runs)
         /\ \A i \in 1 .. Len(runs) :
              /\ SourceNoted[i].by = runs[i].by /\ SourceNoted[i].end = runs[i].end
              /\ SourceNoted[i].at = runs[i].at /\ SourceNoted[i].text = runs[i].text
              /\ SourceNoted[i].ptr = IF runs[i].by = "catch" /\ runs[i].end = srcEnd
                                      THEN srcPtr ELSE runs[i].ptr
<1> HIDE DEF Run, Cells
<1>1. /\ runs \in Seq(Run) /\ Len(runs) \in Nat /\ Len(runs) >= 1
      /\ DOMAIN runs = 1 .. Len(runs) /\ 1 \in 1 .. Len(runs) /\ InEditBuf(runs[1])
      /\ \A i \in 1 .. Len(runs) : runs[i] \in Run
      /\ \A i \in 2 .. Len(runs) : Nested(runs, i)
  BY RunsFacts
<1> DEFINE s == SourceNoted
<1>2. ASSUME NEW i \in 1 .. Len(runs)
      PROVE  /\ s[i] \in Run
             /\ s[i].by = runs[i].by /\ s[i].end = runs[i].end
             /\ s[i].at = runs[i].at /\ s[i].text = runs[i].text
             /\ s[i].ptr = IF runs[i].by = "catch" /\ runs[i].end = srcEnd
                           THEN srcPtr ELSE runs[i].ptr
  <2>1. runs[i] \in Run
    BY <1>1
  <2>2. ASSUME NEW x, x = [runs[i] EXCEPT !.ptr = srcPtr]
        PROVE  /\ x \in Run /\ x.by = runs[i].by /\ x.end = runs[i].end
               /\ x.at = runs[i].at /\ x.text = runs[i].text /\ x.ptr = srcPtr
    BY <2>1, <2>2 DEF Run
  <2>3. s[i] = IF runs[i].by = "catch" /\ runs[i].end = srcEnd
               THEN [runs[i] EXCEPT !.ptr = srcPtr] ELSE runs[i]
    BY <1>1 DEF SourceNoted
  <2>4. CASE runs[i].by = "catch" /\ runs[i].end = srcEnd
    BY <2>2, <2>3, <2>4
  <2>5. CASE ~ (runs[i].by = "catch" /\ runs[i].end = srcEnd)
    BY <2>1, <2>3, <2>5
  <2>6. QED
    BY <2>4, <2>5
<1>3. s \in Seq(Run) /\ Len(s) = Len(runs)
  <2>1. s = [i \in 1 .. Len(runs) |-> s[i]]
    BY <1>1 DEF SourceNoted
  <2> HIDE DEF s
  <2>2. s \in [1 .. Len(runs) -> Run]
    BY <1>2, <2>1
  <2>3. QED
    BY <1>1, <2>2
<1> HIDE DEF s
<1>4. \A i \in 1 .. Len(runs) : EndOf(s[i]) = EndOf(runs[i])
  BY <1>2 DEF EndOf
<1>5. InEditBuf(s[1])
  BY <1>1, <1>2, <1>4 DEF InEditBuf
<1>6. ASSUME NEW i \in 2 .. Len(runs) PROVE Nested(s, i) /\ (i < Len(s) => s[i].text = << >>)
  <2>1. /\ i \in 1 .. Len(runs) /\ i - 1 \in 1 .. Len(runs) /\ Nested(runs, i)
        /\ (i < Len(runs) => runs[i].text = << >>)
        /\ \A j \in 2 .. i : j \in 1 .. Len(runs)
    BY <1>1 DEF RunsAre
  <2>2. Under(s, i - 1) = Under(runs, i - 1) /\ Under(runs, i - 1) \in 1 .. Len(runs)
    BY <1>1, <1>2, <2>1 DEF Under
  <2>3. QED
    BY <1>1, <1>2, <1>3, <1>4, <2>1, <2>2 DEF Nested
<1>7. RunsAre(s)
  BY <1>1, <1>3, <1>5, <1>6 DEF RunsAre
<1>8. QED
  BY <1>2, <1>3, <1>7 DEF s

\* EDIT_BUF is below the store, and texts and sessions are in the store.
LEMMA WhereRunsAre ==
  ASSUME NEW s, RunsAre(s)
  PROVE  /\ s[1].at \in Int /\ EndOf(s[1]) \in Int /\ EDIT_BUF <= s[1].at
         /\ s[1].at <= EndOf(s[1]) /\ EndOf(s[1]) < STORE_START
         /\ s[Under(s, Len(s))].at \in Nat /\ EndOf(s[Under(s, Len(s))]) \in Nat
         /\ s[Under(s, Len(s))].at <= EndOf(s[Under(s, Len(s))])
         /\ Under(s, Len(s)) # 1 => /\ STORE_START <= s[Under(s, Len(s))].at
                                    /\ Under(s, Len(s)) = Len(s)
                                    /\ s[Len(s)].by \in {"load", "edit"}
         /\ Under(s, Len(s)) = 1 => \/ Len(s) = 1
                                    \/ \A i \in 2 .. Len(s) : s[i].by = "catch"
<1> HIDE DEF Run, Cells
<1>1. /\ Len(s) \in Nat /\ Len(s) >= 1
      /\ 1 \in 1 .. Len(s) /\ Len(s) \in 1 .. Len(s) /\ InEditBuf(s[1])
      /\ \A i \in 1 .. Len(s) : s[i] \in Run
      /\ \A i \in 2 .. Len(s) : Nested(s, i)
      /\ Under(s, Len(s)) \in 1 .. Len(s) /\ s[Under(s, Len(s))].by # "catch"
  BY RunsFacts
<1> DEFINE u == Under(s, Len(s))
<1>2. \A i \in 1 .. Len(s) : /\ s[i].at \in Int /\ Len(s[i].text) \in Nat
                             /\ s[i].by \in Sources
  BY <1>1, RunFacts
<1>3. \A i \in 1 .. Len(s) : EndOf(s[i]) \in Int /\ s[i].at <= EndOf(s[i])
  BY <1>2 DEF EndOf
<1>4. EDIT_BUF <= s[1].at /\ EndOf(s[1]) < STORE_START /\ 1 <= s[1].at
  <2>1. EDIT_BUF <= s[1].at /\ EndOf(s[1]) <= EDIT_BUF + EDIT_MAX_LEN
    BY <1>1 DEF InEditBuf
  <2>2. s[1].at \in Int /\ EndOf(s[1]) \in Int
    BY <1>1, <1>2, <1>3
  <2>3. QED
    BY <2>1, <2>2, Sizes DEF EDIT_BUF
<1>5. u # 1 => /\ STORE_START <= s[u].at /\ u = Len(s) /\ s[Len(s)].by \in {"load", "edit"}
  <2>1. ASSUME u # 1
        PROVE  STORE_START <= s[u].at /\ u = Len(s) /\ s[Len(s)].by \in {"load", "edit"}
    <3>1. u = Len(s) /\ s[Len(s)].by # "catch"
      BY <1>1, <2>1 DEF Under
    <3>2. Len(s) \in 2 .. Len(s)
      BY <1>1, <2>1, <3>1
    <3>3. Nested(s, Len(s))
      BY <1>1, <3>2
    <3>4. QED
      BY <1>1, <1>2, <3>1, <3>3 DEF Nested, Sources
  <2>2. QED
    BY <2>1
<1>6. u = 1 => Len(s) = 1 \/ \A i \in 2 .. Len(s) : s[i].by = "catch"
  <2>1. ASSUME u = 1, Len(s) # 1 PROVE \A i \in 2 .. Len(s) : s[i].by = "catch"
    <3>1. s[Len(s)].by = "catch" /\ Len(s) \in 2 .. Len(s)
      BY <1>1, <2>1 DEF Under
    <3>2. QED
      BY <1>1, <3>1 DEF Nested
  <2>2. QED
    BY <2>1
<1> HIDE DEF u
<1>7. s[u].at \in Nat /\ EndOf(s[u]) \in Nat
  <2>1. 1 <= s[u].at
    <3>1. CASE u = 1
      BY <1>4, <3>1
    <3>2. CASE u # 1
      BY <1>1, <1>2, <1>5, <3>2, Sizes DEF u
    <3>3. QED
      BY <3>1, <3>2
  <2>2. s[u].at \in Int /\ EndOf(s[u]) \in Int /\ s[u].at <= EndOf(s[u])
    BY <1>1, <1>2, <1>3 DEF u
  <2>3. QED
    BY <2>1, <2>2
<1>8. s[u].at <= EndOf(s[u])
  BY <1>1, <1>3 DEF u
<1>9. QED
  BY <1>1, <1>2, <1>3, <1>4, <1>5, <1>6, <1>7, <1>8 DEF u

\* While the console's line is the one that is read.
LEMMA LineRead ==
  ASSUME NEW s, RunsAre(s), s[Len(s)].by \in {"line", "catch"}, NEW m, Holds(m, s[1])
  PROVE  Noted(s, s[1].at, EndOf(s[1])) /\ Reads(s, s[1].at, EndOf(s[1]), m)
<1>1. /\ Len(s) \in Nat /\ Len(s) >= 1 /\ \A i \in 2 .. Len(s) : Nested(s, i)
  BY RunsFacts
<1>2. s[Len(s)].by = "line" => Len(s) = 1
  <2>1. ASSUME s[Len(s)].by = "line", Len(s) # 1 PROVE FALSE
    <3>1. Len(s) \in 2 .. Len(s)
      BY <1>1, <2>1
    <3>2. QED
      BY <1>1, <2>1, <3>1 DEF Nested
  <2>2. QED
    BY <2>1
<1>3. Under(s, Len(s)) = 1
  BY <1>2 DEF Under
<1>4. s[Len(s)].by # "catch" => \A c \in 2 .. Len(s) : FALSE
  BY <1>1, <1>2
<1>5. QED
  BY <1>3, <1>4 DEF Noted, Reads

\* A THROW goes on with the console's line where its CATCH left it, or back to
\* the console.
LEMMA ThrownReads ==
  ASSUME Sound(runs, srcPtr, srcEnd, mem'), Thrown
  PROVE  \/ pc' = "back"
         \/ /\ pc' = "word"
            /\ Sound(runs', srcPtr', srcEnd', mem') /\ Reads(runs', srcPtr', srcEnd', mem')
<1>1. RunsAre(runs) /\ Holds(mem', runs[1]) /\ Noted(runs, srcPtr, srcEnd)
  BY DEF Sound
<1>2. CASE Catches = {}
  BY <1>2 DEF Thrown, Reported
<1>3. CASE Catches # {}
  <2> DEFINE c == Max(Catches)
             k == c - 1
             s == SubSeq(runs, 1, k)
  <2>1. /\ pc' = "word" /\ runs' = s
        /\ IF runs[c].end = srcEnd THEN srcPtr' = srcPtr /\ srcEnd' = srcEnd
           ELSE srcPtr' = runs[c].ptr /\ srcEnd' = runs[c].end
    BY <1>3 DEF Thrown, srcVars
  <2>2. c \in 2 .. Len(runs) /\ runs[c].by = "catch"
    BY <1>1, <1>3, ReadingIs
  <2> HIDE DEF c
  <2>3. Len(runs) \in Nat /\ \A i \in 2 .. Len(runs) : Nested(runs, i)
    BY <1>1, RunsFacts
  <2>4. k \in 1 .. Len(runs) /\ k \in Int /\ c \in Int
    BY <2>2, <2>3
  <2>5. runs[c].end = EndOf(runs[1]) /\ \A j \in 2 .. c : runs[j].by = "catch"
    BY <2>2, <2>3 DEF Nested
  <2> HIDE DEF k
  <2>6. RunsAre(s) /\ Len(s) = k /\ \A i \in 1 .. k : s[i] = runs[i]
    BY <1>1, <2>4, RunsCut
  <2> HIDE DEF s
  <2>7. s[1] = runs[1] /\ s[Len(s)].by \in {"line", "catch"}
    <3>1. 1 \in 1 .. k /\ k \in 1 .. k /\ (k = 1 \/ k \in 2 .. c)
      BY <2>4 DEF k
    <3>2. runs[1].by = "line"
      BY <1>1, RunsFacts DEF InEditBuf
    <3>3. QED
      BY <2>5, <2>6, <3>1, <3>2
  <2>8. srcPtr' = runs[1].at /\ srcEnd' = EndOf(runs[1])
    <3>1. CASE srcEnd = EndOf(runs[1])
      BY <1>1, <2>1, <2>5, <3>1 DEF Noted
    <3>2. CASE srcEnd # EndOf(runs[1])
      <4>1. runs[c].ptr = runs[1].at
        BY <1>1, <2>2, <3>2 DEF Noted
      <4>2. QED
        BY <2>1, <2>5, <3>2, <4>1
    <3>3. QED
      BY <3>1, <3>2
  <2>9. Noted(s, srcPtr', srcEnd') /\ Reads(s, srcPtr', srcEnd', mem') /\ Holds(mem', s[1])
    BY <1>1, <2>6, <2>7, <2>8, LineRead
  <2>10. QED
    BY <2>1, <2>6, <2>9 DEF Sound
<1>4. QED
  BY <1>2, <1>3

\* The interpreter reads past a word and its delimiter, never past the end.
LEMMA NextWordInSource ==
  ASSUME RunsAre(runs), Reads(runs, srcPtr, srcEnd, mem)
  PROVE  /\ srcPtr \in Nat /\ srcEnd \in Nat
         /\ NextWord \in srcPtr .. srcEnd
<1> DEFINE r == runs[Under(runs, Len(runs))]
<1>1. srcPtr = r.at /\ srcEnd = EndOf(r)
  BY DEF Reads
<1>2. r.at \in Nat /\ EndOf(r) \in Nat /\ r.at <= EndOf(r)
  BY WhereRunsAre
<1> HIDE DEF r
<1>3. srcPtr \in Nat /\ srcEnd \in Nat /\ srcPtr <= srcEnd
  BY <1>1, <1>2
<1>4. ASSUME WordsLeft = {} PROVE NextWord \in srcPtr .. srcEnd
  <2>1. NextWord = srcEnd
    BY <1>4 DEF NextWord
  <2>2. QED
    BY <1>3, <2>1
<1>5. ASSUME WordsLeft # {} PROVE NextWord \in srcPtr .. srcEnd
  <2> DEFINE a == Min(WordsLeft)
  <2>1. WordsLeft \in SUBSET Nat /\ WordsLeft \subseteq srcPtr .. srcEnd - 1
    BY <1>3 DEF WordsLeft
  <2>2. a \in WordsLeft
    BY <1>5, <2>1, MinOf, Zenon
  <2> HIDE DEF a
  <2>3. a \in srcPtr .. srcEnd - 1
    BY <2>1, <2>2
  <2>4. a + 1 \in srcPtr .. srcEnd /\ (a + 1 < srcEnd => a + 2 \in srcPtr .. srcEnd)
    BY <1>3, <2>3
  <2>5. NextWord = IF a + 1 < srcEnd /\ mem[a + 1] = CR THEN a + 2 ELSE a + 1
    BY <1>5 DEF NextWord, a
  <2>6. QED
    BY <2>4, <2>5
<1>6. QED
  BY <1>3, <1>4, <1>5

\* The end of a text is what is left of it.
LEMMA RestOf ==
  ASSUME NEW t \in Seq(Cells), NEW d \in Nat, d <= Len(t)
  PROVE  /\ SubSeq(t, d + 1, Len(t)) \in Seq(Cells)
         /\ Len(SubSeq(t, d + 1, Len(t))) = Len(t) - d
         /\ \A i \in 1 .. Len(t) - d : SubSeq(t, d + 1, Len(t))[i] = t[d + i]
<1>1. d + 1 \in 1 .. Len(t) + 1 /\ Len(t) \in (d + 1) - 1 .. Len(t) /\ Len(t) \in Nat
  OBVIOUS
<1> HIDE DEF Cells
<1> DEFINE m == d + 1
           n == Len(t)
           u == SubSeq(t, m, n)
<1>2. /\ u \in Seq(Cells) /\ Len(u) = n - m + 1
      /\ \A i \in 1 .. n - m + 1 : u[i] = t[m + i - 1]
  BY <1>1, PartOf
<1> HIDE DEF u
<1>3. Len(u) = Len(t) - d /\ \A i \in 1 .. Len(t) - d : u[i] = t[d + i]
  <2>1. n - m + 1 = Len(t) - d /\ \A i \in 1 .. Len(t) - d : m + i - 1 = d + i
    BY <1>1
  <2>2. QED
    BY <1>2, <2>1
<1>4. QED
  BY <1>2, <1>3 DEF u

\* A run that has read on has the rest of its text left.
Rest(r, w, t) == t = SubSeq(r.text, w - r.at + 1, Len(r.text))

\* ...and that rest is what memory holds from where it was read to.
LEMMA ReadRest ==
  ASSUME NEW r \in Run, r.at \in Nat, NEW w \in r.at .. EndOf(r), NEW m, Holds(m, r),
         NEW t, Rest(r, w, t)
  PROVE  /\ w \in Nat /\ t \in Seq(Cells) /\ w + Len(t) = EndOf(r)
         /\ Moved(r, w, t).at = w /\ Moved(r, w, t).by = r.by
         /\ EndOf(Moved(r, w, t)) = EndOf(r)
         /\ Holds(m, Moved(r, w, t))
<1> HIDE DEF Run, Cells
<1>1. r.text \in Seq(Cells) /\ Len(r.text) \in Nat /\ EndOf(r) = r.at + Len(r.text)
  BY RunFacts DEF EndOf
<1> DEFINE d == w - r.at
           n == Len(r.text)
<1>2. w \in Nat /\ w \in Int /\ d \in Nat /\ d <= n /\ w = r.at + d
  BY <1>1
<1>3. t = SubSeq(r.text, d + 1, n)
  BY DEF Rest
<1> HIDE DEF d
<1>4. /\ t \in Seq(Cells) /\ Len(t) = n - d
      /\ \A i \in 1 .. n - d : t[i] = r.text[d + i]
  <2>1. /\ SubSeq(r.text, d + 1, Len(r.text)) \in Seq(Cells)
        /\ Len(SubSeq(r.text, d + 1, Len(r.text))) = Len(r.text) - d
        /\ \A i \in 1 .. Len(r.text) - d :
             SubSeq(r.text, d + 1, Len(r.text))[i] = r.text[d + i]
    BY <1>1, <1>2, RestOf, Zenon
  <2>2. QED
    BY <1>3, <2>1, Zenon
<1> HIDE DEF n
<1>41. n = Len(r.text) /\ n \in Nat /\ Len(t) \in Nat
  BY <1>1, <1>4 DEF n
<1>5. w + Len(t) = EndOf(r)
  BY <1>1, <1>2, <1>4, <1>41
<1>6. Moved(r, w, t).at = w /\ Moved(r, w, t).by = r.by /\ Moved(r, w, t).text = t
  BY <1>2, <1>4, MovedRun, Zenon
<1>7. ASSUME NEW i \in 1 .. Len(t) PROVE m[w + i - 1] = t[i]
  <2>1. d + i \in 1 .. n /\ r.at + (d + i) - 1 = w + i - 1 /\ i \in 1 .. n - d
    <3>1. i \in Nat /\ 1 <= i /\ i <= n - d
      BY <1>2, <1>4, <1>41
    <3>2. QED
      BY <1>2, <1>41, <3>1
  <2>2. m[r.at + (d + i) - 1] = r.text[d + i]
    BY <1>41, <2>1 DEF Holds
  <2>3. QED
    BY <1>4, <2>1, <2>2
<1>8. QED
  BY <1>2, <1>4, <1>5, <1>6, <1>7 DEF Holds, EndOf

\* Reading to w, and SRC_PTR with it, keeps every source where it was read to.
LEMMA ReadsOn ==
  ASSUME Sound(runs, srcPtr, srcEnd, mem), Reads(runs, srcPtr, srcEnd, mem),
         NEW w \in srcPtr .. srcEnd
  PROVE  Sound(ReadTo(w), w, srcEnd, mem) /\ Reads(ReadTo(w), w, srcEnd, mem)
<1> HIDE DEF Run, Cells
<1>1. RunsAre(runs) /\ Holds(mem, runs[1]) /\ Noted(runs, srcPtr, srcEnd)
  BY DEF Sound
<1>2. PICK u : u = Under(runs, Len(runs))
  OBVIOUS
<1>3. PICK r : r = runs[u]
  OBVIOUS
<1>4. PICK t : t = SubSeq(r.text, w - r.at + 1, Len(r.text))
  OBVIOUS
<1>5. PICK s : s = ReadTo(w)
  OBVIOUS
<1>6. Reading = u
  BY <1>1, <1>2, ReadingIs
<1>7. srcPtr = r.at /\ srcEnd = EndOf(r) /\ Holds(mem, r)
  BY <1>2, <1>3 DEF Reads
<1>8. /\ runs \in Seq(Run) /\ Len(runs) \in Nat /\ Len(runs) >= 1 /\ DOMAIN runs = 1 .. Len(runs)
      /\ u \in 1 .. Len(runs) /\ r \in Run /\ r.by # "catch" /\ InEditBuf(runs[1])
      /\ 1 \in 1 .. Len(runs) /\ Len(runs) \in 1 .. Len(runs)
      /\ \A i \in 1 .. Len(runs) : runs[i] \in Run
      /\ \A i \in 2 .. Len(runs) : Nested(runs, i)
  BY <1>1, <1>2, <1>3, RunsFacts
<1>9. /\ r.at \in Nat /\ EndOf(r) \in Nat /\ r.at <= EndOf(r)
      /\ u # 1 => STORE_START <= r.at /\ u = Len(runs)
      /\ EndOf(runs[1]) < STORE_START /\ EndOf(runs[1]) \in Int /\ runs[1].at \in Int
  BY <1>1, <1>2, <1>3, WhereRunsAre
<1>10. w \in r.at .. EndOf(r)
  BY <1>7
<1>11. /\ w \in Nat /\ t \in Seq(Cells) /\ w + Len(t) = EndOf(r)
       /\ Moved(r, w, t).at = w /\ Moved(r, w, t).by = r.by
       /\ EndOf(Moved(r, w, t)) = EndOf(r)
       /\ Holds(mem, Moved(r, w, t))
  <2>1. r \in Run /\ r.at \in Nat /\ Holds(mem, r) /\ Rest(r, w, t)
    BY <1>4, <1>7, <1>8, <1>9 DEF Rest
  <2>2. QED
    BY <2>1, <1>10, ReadRest
<1>12. s = [runs EXCEPT ![u] = Moved(r, w, t)]
  <2>1. s = [runs EXCEPT ![u].at = w,
                         ![u].text = SubSeq(@, w - srcPtr + 1, Len(@))]
    BY <1>5, <1>6 DEF ReadTo
  <2>2. QED
    BY <1>3, <1>4, <1>7, <1>8, <2>1 DEF Moved, Run
<1>13. r.by = "line" <=> u = 1
  <2>1. runs[1].by = "line"
    BY <1>8 DEF InEditBuf
  <2>2. u # 1 => u \in 2 .. Len(runs)
    BY <1>8
  <2>3. QED
    BY <1>3, <1>8, <2>1, <2>2 DEF Nested
<1>14. /\ RunsAre(s) /\ Len(s) = Len(runs)
       /\ \A i \in 1 .. Len(runs) : s[i].by = runs[i].by
       /\ s[u] = Moved(r, w, t)
       /\ \A i \in 1 .. Len(runs) : i # u => s[i] = runs[i]
  <2>1. /\ r.by # "line" => STORE_START <= w
        /\ r.by = "line" => r.at <= w /\ w + Len(t) = EndOf(r)
    BY <1>9, <1>10, <1>11, <1>13, Sizes
  <2>2. /\ runs[u].by # "line" => STORE_START <= w
        /\ runs[u].by = "line" => runs[u].at <= w /\ w + Len(t) = EndOf(runs[u])
    BY <1>3, <2>1
  <2>4. Changed(s, u, w, t) /\ Executed(u)
    BY <1>2, <1>3, <1>12 DEF Changed, Executed
  <2>3. /\ RunsAre(s) /\ Len(s) = Len(runs)
        /\ \A i \in 1 .. Len(runs) : s[i].by = runs[i].by
        /\ s[u] = Moved(runs[u], w, t)
        /\ \A i \in 1 .. Len(runs) : i # u => s[i] = runs[i]
    <3>1. RunsAre(runs) /\ w \in Int /\ t \in Seq(Cells)
      BY <1>1, <1>11
    <3>2. QED
      BY <2>2, <2>4, <3>1, RunsMove
  <2>5. QED
    BY <1>3, <2>3
<1>15. Under(s, Len(s)) = u
  BY <1>2, <1>8, <1>14 DEF Under
<1>16. Reads(s, w, srcEnd, mem)
  BY <1>7, <1>11, <1>14, <1>15 DEF Reads
<1>17. CASE u = 1
  <2>1. s[1].at = w /\ EndOf(s[1]) = srcEnd /\ Holds(mem, s[1])
    BY <1>7, <1>11, <1>14, <1>17
  <2>2. s[Len(s)].by \in {"line", "catch"}
    <3>1. runs[Len(runs)].by = "catch" \/ Len(runs) = 1
      BY <1>2, <1>17 DEF Under
    <3>2. QED
      BY <1>3, <1>8, <1>13, <1>14, <1>17, <3>1
  <2>3. Noted(s, w, srcEnd)
    BY <1>14, <2>1, <2>2, LineRead
  <2>4. QED
    BY <1>5, <1>14, <1>16, <2>1, <2>3 DEF Sound
<1>18. CASE u # 1
  <2>1. s[1] = runs[1]
    BY <1>8, <1>14, <1>18
  <2>2. srcEnd # EndOf(runs[1]) /\ runs[Len(runs)].by # "catch"
    BY <1>3, <1>7, <1>8, <1>9, <1>18, Sizes
  <2>3. \A c \in 2 .. Len(runs) : runs[c].by = "catch" => runs[c].ptr = runs[1].at
    BY <1>1, <2>2 DEF Noted
  <2>4. \A c \in 2 .. Len(s) : s[c].by = "catch" => s[c].ptr = s[1].at
    <3>1. \A c \in 2 .. Len(s) : c \in 1 .. Len(runs) /\ (s[c].by = "catch" => c # u)
      BY <1>3, <1>8, <1>14
    <3>2. QED
      BY <1>14, <2>1, <2>3, <3>1
  <2>5. s[Len(s)].by # "catch"
    BY <1>8, <1>14, <2>2
  <2>6. Noted(s, w, srcEnd)
    BY <2>1, <2>2, <2>4, <2>5 DEF Noted
  <2>7. QED
    BY <1>1, <1>5, <1>14, <1>16, <2>1, <2>6 DEF Sound
<1>19. QED
  BY <1>17, <1>18

\* A source that ends goes back to where the one under it was left.
LEMMA PopReads ==
  ASSUME Sound(runs, srcPtr, srcEnd, mem), Top.by \in {"load", "edit"}
  PROVE  Sound(Popped, Top.ptr, Top.end, mem) /\ Reads(Popped, Top.ptr, Top.end, mem)
<1>1. RunsAre(runs) /\ Holds(mem, runs[1]) /\ Noted(runs, srcPtr, srcEnd)
  BY DEF Sound
<1>2. PICK n : n = Len(runs)
  OBVIOUS
<1>3. PICK s : s = Popped
  OBVIOUS
<1>4. /\ n \in Nat /\ n >= 1 /\ InEditBuf(runs[1])
      /\ \A i \in 2 .. n : Nested(runs, i) /\ (i < n => runs[i].text = << >>)
  BY <1>1, <1>2 DEF RunsAre
<1>5. n - 1 \in 1 .. n /\ n \in 2 .. n /\ Top = runs[n]
  <2>1. Top = runs[n]
    BY <1>2 DEF Top
  <2>2. n # 1
    BY <1>4, <2>1 DEF InEditBuf
  <2>3. QED
    BY <1>4, <2>1, <2>2
<1>6. RunsAre(s) /\ Len(s) = n - 1 /\ \A i \in 1 .. n - 1 : s[i] = runs[i]
  BY <1>1, <1>2, <1>3, <1>5, RunsCut DEF Popped
<1>7. PICK u : u = Under(s, n - 1)
  OBVIOUS
<1>8. /\ u \in 1 .. n - 1 /\ 1 \in 1 .. n - 1 /\ n - 1 \in 1 .. n - 1
      /\ u = Under(runs, n - 1) /\ s[1] = runs[1] /\ s[u] = runs[u]
      /\ u # 1 => u = n - 1 /\ s[n - 1].by # "catch"
  BY <1>4, <1>5, <1>6, <1>7 DEF Under
<1>9. Top.ptr = s[u].at /\ Top.end = EndOf(s[u])
  BY <1>4, <1>5, <1>8 DEF Nested
<1>10. CASE u = 1
  <2>1. s[n - 1].by \in {"line", "catch"}
    BY <1>4, <1>6, <1>7, <1>8, <1>10 DEF Under, InEditBuf
  <2>2. QED
    BY <1>1, <1>3, <1>6, <1>8, <1>9, <1>10, <2>1, LineRead DEF Sound
<1>11. CASE u # 1
  <2>1. u = n - 1 /\ u \in 2 .. n /\ u < n
    BY <1>4, <1>8, <1>11
  <2>2. s[u].text = << >>
    BY <1>4, <1>8, <2>1
  <2>3. Reads(s, Top.ptr, Top.end, mem)
    BY <1>6, <1>7, <1>9, <2>2 DEF Reads, Holds
  <2>4. STORE_START <= s[u].at /\ s[u].at <= EndOf(s[u]) /\ EndOf(s[1]) < STORE_START
        /\ s[u].at \in Nat /\ EndOf(s[u]) \in Nat /\ EndOf(s[1]) \in Int
    BY <1>6, <1>7, <1>11, WhereRunsAre
  <2>5. Top.end # EndOf(s[1])
    BY <1>9, <2>4, Sizes
  <2>6. \A c \in 2 .. Len(s) : s[c].by = "catch" => s[c].ptr = s[1].at
    <3>1. \A c \in 2 .. n : runs[c].by = "catch" => runs[c].ptr = runs[1].at
      BY <1>1, <1>2, <1>5 DEF Noted
    <3>2. \A c \in 2 .. Len(s) : c \in 2 .. n /\ c \in 1 .. n - 1
      BY <1>4, <1>6
    <3>3. QED
      BY <1>6, <1>8, <3>1, <3>2
  <2>7. Noted(s, Top.ptr, Top.end)
    BY <1>6, <1>8, <2>1, <2>5, <2>6 DEF Noted
  <2>8. QED
    BY <1>1, <1>3, <1>6, <1>8, <2>3, <2>7 DEF Sound
<1>12. QED
  BY <1>10, <1>11

\* A word returns to the CATCH that ran it.
LEMMA CatchReturns ==
  ASSUME Sound(runs, srcPtr, srcEnd, mem), Reads(runs, srcPtr, srcEnd, mem),
         Top.by = "catch"
  PROVE  Sound(Popped, srcPtr, srcEnd, mem) /\ Reads(Popped, srcPtr, srcEnd, mem)
<1>1. RunsAre(runs) /\ Holds(mem, runs[1]) /\ Noted(runs, srcPtr, srcEnd)
  BY DEF Sound
<1>2. PICK n : n = Len(runs)
  OBVIOUS
<1>3. PICK s : s = Popped
  OBVIOUS
<1>4. /\ n \in Nat /\ n >= 1 /\ InEditBuf(runs[1]) /\ \A i \in 2 .. n : Nested(runs, i)
  BY <1>1, <1>2, RunsFacts
<1>5. n - 1 \in 1 .. n /\ n \in 2 .. n /\ runs[n].by = "catch"
  <2>1. runs[n].by = "catch"
    BY <1>2 DEF Top
  <2>2. n # 1
    BY <1>4, <2>1 DEF InEditBuf
  <2>3. QED
    BY <1>4, <2>1, <2>2
<1>6. RunsAre(s) /\ Len(s) = n - 1 /\ \A i \in 1 .. n - 1 : s[i] = runs[i]
  BY <1>1, <1>2, <1>3, <1>5, RunsCut DEF Popped
<1>7. srcPtr = runs[1].at /\ srcEnd = EndOf(runs[1])
  BY <1>2, <1>5 DEF Reads, Under
<1>8. s[1] = runs[1] /\ s[n - 1].by \in {"line", "catch"}
  <2>1. \A j \in 2 .. n : runs[j].by = "catch"
    BY <1>4, <1>5 DEF Nested
  <2>2. 1 \in 1 .. n - 1 /\ n - 1 \in 1 .. n - 1 /\ (n - 1 = 1 \/ n - 1 \in 2 .. n)
    BY <1>4, <1>5
  <2>3. QED
    BY <1>4, <1>6, <2>1, <2>2 DEF InEditBuf
<1>9. QED
  BY <1>1, <1>3, <1>6, <1>7, <1>8, LineRead DEF Sound

\* The console's line takes a CATCH.
LEMMA CatchTaken ==
  ASSUME Sound(runs, srcPtr, srcEnd, mem), Reads(runs, srcPtr, srcEnd, mem),
         runs[Reading].by = "line"
  PROVE  /\ Sound(Append(runs, CatchFrame), srcPtr, srcEnd, mem)
         /\ Reads(Append(runs, CatchFrame), srcPtr, srcEnd, mem)
<1> HIDE DEF Run, Cells
<1>1. RunsAre(runs) /\ Holds(mem, runs[1]) /\ Noted(runs, srcPtr, srcEnd)
  BY DEF Sound
<1>2. PICK n : n = Len(runs)
  OBVIOUS
<1>3. PICK s : s = Append(runs, CatchFrame)
  OBVIOUS
<1>4. /\ n \in Nat /\ n >= 1 /\ InEditBuf(runs[1]) /\ \A i \in 2 .. n : Nested(runs, i)
      /\ runs \in Seq(Run) /\ 1 \in 1 .. n /\ Under(runs, n) \in 1 .. n
  BY <1>1, <1>2, RunsFacts
<1>5. Under(runs, n) = 1
  <2>1. runs[Under(runs, n)].by = "line"
    BY <1>1, <1>2, ReadingIs
  <2>2. Under(runs, n) # 1 => Under(runs, n) \in 2 .. n
    BY <1>4
  <2>3. QED
    BY <1>4, <2>1, <2>2 DEF Nested
<1>6. n = 1 \/ \A i \in 2 .. n : runs[i].by = "catch"
  BY <1>1, <1>2, <1>5, WhereRunsAre
<1>7. srcPtr = runs[1].at /\ srcEnd = EndOf(runs[1]) /\ srcPtr \in Int /\ srcEnd \in Int
  <2>1. srcPtr = runs[1].at /\ srcEnd = EndOf(runs[1])
    BY <1>2, <1>5 DEF Reads
  <2>2. QED
    BY <1>1, <2>1, WhereRunsAre
<1>8. /\ CatchFrame \in Run /\ CatchFrame.by = "catch" /\ CatchFrame.end = srcEnd
      /\ CatchFrame.text = << >>
  <2>1. << >> \in Seq(Cells)
    OBVIOUS
  <2>2. QED
    BY <1>7, <2>1 DEF CatchFrame, Run, Sources
<1>9. AllRead(runs, 2)
  BY <1>2, <1>4, <1>6 DEF AllRead, Nested
<1>10. /\ Len(s) = n + 1 /\ s[n + 1] = CatchFrame /\ \A i \in 1 .. n : s[i] = runs[i]
  BY <1>2, <1>3, <1>4, <1>8
<1>11. Nested(s, n + 1)
  <2>1. \A j \in 2 .. n + 1 : s[j].by = "catch"
    <3>1. \A j \in 2 .. n + 1 : j = n + 1 \/ (j \in 2 .. n /\ j \in 1 .. n)
      BY <1>4
    <3>2. n = 1 => \A j \in 2 .. n : FALSE
      OBVIOUS
    <3>3. QED
      BY <1>6, <1>8, <1>10, <3>1, <3>2
  <2>2. s[1] = runs[1]
    BY <1>4, <1>10
  <2>3. QED
    BY <1>7, <1>8, <1>10, <2>1, <2>2 DEF Nested
<1>12. RunsAre(s)
  BY <1>1, <1>2, <1>3, <1>8, <1>9, <1>11, RunsGrow
<1>13. s[1] = runs[1] /\ s[Len(s)].by = "catch"
  BY <1>4, <1>8, <1>10
<1>14. QED
  BY <1>1, <1>3, <1>7, <1>12, <1>13, LineRead DEF Sound

\* A text or a session on top of what has been read.
StartsAt(x) ==
  /\ x \in Run /\ x.by \in {"load", "edit"} /\ x.ptr = srcPtr /\ x.end = srcEnd
  /\ STORE_START <= x.at /\ (x.by = "edit" => runs[1].text = << >>)

\* Pushing it notes where the source under it was read to.
LEMMA PushRuns ==
  ASSUME Sound(runs, srcPtr, srcEnd, mem), Reads(runs, srcPtr, srcEnd, mem),
         AllRead(runs, 2), NEW x, StartsAt(x)
  PROVE  /\ RunsAre(Append(SourceNoted, x))
         /\ Len(Append(SourceNoted, x)) = Len(runs) + 1
         /\ Append(SourceNoted, x)[Len(runs) + 1] = x
         /\ Append(SourceNoted, x)[1].at = runs[1].at
         /\ Append(SourceNoted, x)[1].text = runs[1].text
         /\ \A c \in 2 .. Len(runs) + 1 : Append(SourceNoted, x)[c].by = "catch"
              => Append(SourceNoted, x)[c].ptr = runs[1].at
<1> HIDE DEF Run, Cells
<1>1. RunsAre(runs) /\ Holds(mem, runs[1]) /\ Noted(runs, srcPtr, srcEnd)
  BY DEF Sound
<1>2. PICK n : n = Len(runs)
  OBVIOUS
<1>3. PICK t : t = SourceNoted
  OBVIOUS
<1>4. PICK s : s = Append(t, x)
  OBVIOUS
<1>5. PICK u : u = Under(runs, n)
  OBVIOUS
<1>6. /\ n \in Nat /\ n >= 1 /\ InEditBuf(runs[1]) /\ \A i \in 2 .. n : Nested(runs, i)
      /\ 1 \in 1 .. n /\ n \in 1 .. n /\ u \in 1 .. n
      /\ \A i \in 2 .. n : i \in 1 .. n
  BY <1>1, <1>2, <1>5, RunsFacts
<1>7. srcPtr = runs[u].at /\ srcEnd = EndOf(runs[u]) /\ srcPtr \in Int
  <2>1. srcPtr = runs[u].at /\ srcEnd = EndOf(runs[u])
    BY <1>2, <1>5 DEF Reads
  <2>2. runs[u].at \in Nat
    BY <1>1, <1>2, <1>5, WhereRunsAre
  <2>3. QED
    BY <2>1, <2>2
<1>8. /\ RunsAre(t) /\ Len(t) = n
      /\ \A i \in 1 .. n :
           /\ t[i].by = runs[i].by /\ t[i].end = runs[i].end
           /\ t[i].at = runs[i].at /\ t[i].text = runs[i].text
           /\ t[i].ptr = IF runs[i].by = "catch" /\ runs[i].end = srcEnd
                         THEN srcPtr ELSE runs[i].ptr
  BY <1>1, <1>2, <1>3, <1>7, RunsNoted
<1>9. x \in Run /\ t \in Seq(Run)
  BY <1>8, RunsFacts DEF StartsAt
<1>10. Len(s) = n + 1 /\ s[n + 1] = x /\ \A i \in 1 .. n : s[i] = t[i]
  BY <1>4, <1>8, <1>9
<1>11. \A i \in 1 .. n : EndOf(t[i]) = EndOf(runs[i])
  BY <1>8 DEF EndOf
<1>12. AllRead(t, 2)
  BY <1>2, <1>6, <1>8 DEF AllRead
<1>13. Nested(s, n + 1)
  <2>1. Under(s, n) = u
    BY <1>5, <1>6, <1>8, <1>10 DEF Under
  <2>2. s[u].at = runs[u].at /\ EndOf(s[u]) = EndOf(runs[u])
    BY <1>6, <1>8, <1>10, <1>11
  <2>3. s[1].text = runs[1].text /\ (n + 1) - 1 = n
    BY <1>6, <1>8, <1>10
  <2>4. QED
    BY <1>7, <1>10, <2>1, <2>2, <2>3 DEF Nested, StartsAt
<1>14. RunsAre(s)
  BY <1>4, <1>8, <1>9, <1>12, <1>13, RunsGrow
<1>15. ASSUME NEW c \in 2 .. n + 1, s[c].by = "catch" PROVE s[c].ptr = runs[1].at
  <2>1. c \in 2 .. n
    BY <1>6, <1>10, <1>15 DEF StartsAt
  <2>2. s[c].ptr = t[c].ptr /\ runs[c].by = "catch" /\ c \in 1 .. n
    BY <1>6, <1>8, <1>10, <1>15, <2>1
  <2>3. runs[c].end = EndOf(runs[1])
    BY <1>6, <2>1, <2>2 DEF Nested
  <2>4. CASE srcEnd = EndOf(runs[1])
    BY <1>1, <1>8, <2>2, <2>3, <2>4 DEF Noted
  <2>5. CASE srcEnd # EndOf(runs[1])
    BY <1>1, <1>2, <1>8, <2>1, <2>2, <2>3, <2>5 DEF Noted
  <2>6. QED
    BY <2>4, <2>5
<1>16. s[1].at = runs[1].at /\ s[1].text = runs[1].text
  BY <1>6, <1>8, <1>10
<1>17. QED
  BY <1>2, <1>3, <1>4, <1>10, <1>14, <1>15, <1>16

\* What EDIT_BUF holds is not touched by what is written in the store.
LEMMA HoldsBelow ==
  ASSUME NEW s, RunsAre(s), NEW m, NEW n, Holds(m, s[1]),
         \A a \in EDIT_BUF .. STORE_START - 1 : n[a] = m[a]
  PROVE  Holds(n, s[1])
<1> HIDE DEF Run, Cells
<1>1. s[1] \in Run /\ InEditBuf(s[1])
  BY RunsFacts
<1>2. s[1].at \in Int /\ Len(s[1].text) \in Nat
  BY <1>1, RunFacts
<1>3. \A i \in 1 .. Len(s[1].text) : s[1].at + i - 1 \in EDIT_BUF .. STORE_START - 1
  BY <1>1, <1>2, Sizes DEF InEditBuf, EndOf, EDIT_BUF
<1>4. QED
  BY <1>3 DEF Holds

\* The first changed line of a session becomes its source.
LEMMA CommitMoves ==
  ASSUME StoreInv, Sound(runs, srcPtr, srcEnd, mem), Top.by = "edit", CommitLine
  PROVE  Sound(runs', srcPtr', srcEnd', mem') /\ Top'.by = "edit" /\ Holds(mem', Top')
<1> HIDE DEF Run, Cells
<1>1. RunsAre(runs) /\ Holds(mem, runs[1]) /\ Noted(runs, srcPtr, srcEnd)
  BY DEF Sound
<1>2. PICK n : n = Len(runs)
  OBVIOUS
<1>3. PICK b : b = Min(Marks)
  OBVIOUS
<1>4. PICK a : a = LineStart(b)
  OBVIOUS
<1>5. PICK t : t = TextIn(mem, a, b)
  OBVIOUS
<1>6. /\ mem' = Cleared({b}) /\ srcPtr' = srcPtr /\ srcEnd' = srcEnd
      /\ Changed(runs', n, a, t)
  BY <1>2, <1>3, <1>4, <1>5 DEF CommitLine, srcVars, Changed, Moved
<1>7. b \in STORE_START .. STORE_LIMIT + 1
  <2>1. Marks # {} /\ Marks \in SUBSET Nat
    BY Sizes DEF CommitLine, Marks
  <2>2. b \in Marks
    BY <1>3, <2>1, MinOf, Zenon
  <2>3. QED
    BY <2>2 DEF Marks
<1>8. a \in STORE_START .. b
  <2> DEFINE S == {STORE_START} \cup
                   {c + 1 : c \in {c \in STORE_START .. b - 1 : mem[c] \in Terminators}}
  <2>1. b \in Nat /\ STORE_START \in Nat /\ STORE_START <= b
    BY <1>7, Sizes
  <2>2. S \subseteq STORE_START .. b /\ S # {} /\ S \in SUBSET (0 .. b)
    <3>1. \A c \in STORE_START .. b - 1 : c + 1 \in STORE_START .. b /\ c + 1 \in 0 .. b
      BY <2>1
    <3>2. STORE_START \in 0 .. b /\ STORE_START \in STORE_START .. b
      BY <2>1
    <3>3. QED
      BY <3>1, <3>2
  <2>3. a = Max(S)
    BY <1>4 DEF LineStart
  <2> HIDE DEF S
  <2>4. Max(S) \in S
    BY <2>1, <2>2, MaxOf, Zenon
  <2>5. QED
    BY <2>2, <2>3, <2>4
<1>9. /\ a \in Int /\ STORE_START <= a /\ a <= b /\ b \in Int
      /\ t \in Seq(Cells) /\ Len(t) = b - a
      /\ \A i \in 1 .. b - a : t[i] = mem[a + i - 1]
  <2>1. a \in Memory /\ b \in Int /\ a \in Int /\ STORE_START <= a /\ a <= b
        /\ b <= STORE_LIMIT + 2
    BY <1>7, <1>8, Sizes
  <2>2. mem \in [Memory -> Cells]
    BY DEF StoreInv
  <2>3. QED
    BY <1>5, <2>1, <2>2, TextInMemory
<1>10. /\ n \in Nat /\ n >= 1 /\ 1 \in 1 .. n /\ n \in 1 .. n /\ \A i \in 2 .. n : Nested(runs, i)
       /\ InEditBuf(runs[1]) /\ runs[n] \in Run
  BY <1>1, <1>2, RunsFacts
<1>11. runs[n].by = "edit" /\ n \in 2 .. n /\ runs[1].text = << >>
  <2>1. runs[n].by = "edit"
    BY <1>2 DEF Top
  <2>2. n \in 2 .. n
    BY <1>10, <2>1 DEF InEditBuf
  <2>3. QED
    BY <1>10, <2>1, <2>2 DEF Nested
<1>12. PICK s : s = runs'
  OBVIOUS
<1>13. /\ RunsAre(s) /\ Len(s) = n
       /\ \A i \in 1 .. n : s[i].by = runs[i].by
       /\ s[n] = Moved(runs[n], a, t)
       /\ \A i \in 1 .. n : i # n => s[i] = runs[i]
  <2>1. Executed(n) /\ Changed(s, n, a, t)
    BY <1>2, <1>6, <1>11, <1>12 DEF Executed, Under
  <2>2. /\ runs[n].by # "line" => STORE_START <= a
        /\ runs[n].by = "line" => runs[n].at <= a /\ a + Len(t) = EndOf(runs[n])
    BY <1>9, <1>11
  <2>3. QED
    BY <1>1, <1>2, <1>9, <2>1, <2>2, RunsMove
<1>14. s[n].at = a /\ s[n].text = t /\ s[n].by = "edit"
  BY <1>9, <1>10, <1>11, <1>13, MovedRun
<1>15. Holds(mem', s[n])
  <2>1. \A i \in 1 .. b - a : a + i - 1 \in Memory /\ a + i - 1 # b
    BY <1>7, <1>8, <1>9, Sizes
  <2>2. \A x \in Memory : x # b => mem'[x] = mem[x]
    BY <1>6 DEF Cleared
  <2>3. QED
    BY <1>9, <1>14, <2>1, <2>2 DEF Holds
<1>16. s[1] = runs[1]
  BY <1>10, <1>11, <1>13
<1>17. Holds(mem', s[1])
  BY <1>11, <1>16 DEF Holds
<1>18. Noted(s, srcPtr, srcEnd)
  <2>1. \A c \in 2 .. n : runs[c].by = "catch" => runs[c].ptr = runs[1].at
    BY <1>1, <1>2, <1>11 DEF Noted
  <2>2. \A c \in 2 .. n : s[c].by = "catch" => s[c].ptr = s[1].at
    BY <1>10, <1>13, <1>14, <1>16, <2>1
  <2>3. QED
    BY <1>1, <1>13, <1>14, <1>16, <2>2 DEF Noted
<1>19. QED
  BY <1>6, <1>12, <1>13, <1>14, <1>15, <1>17, <1>18 DEF Sound, Top

\* What has been read to its end may be overwritten.
LEMMA ReadHolds ==
  ASSUME NEW s, RunsAre(s), AllRead(s, 1), NEW p, NEW e, NEW m, NEW n
  PROVE  /\ Holds(n, s[1])
         /\ Sound(s, p, e, m) => Sound(s, p, e, n)
         /\ Reads(s, p, e, m) => Reads(s, p, e, n)
<1>1. 1 \in 1 .. Len(s) /\ Under(s, Len(s)) \in 1 .. Len(s)
  BY RunsFacts
<1>2. s[1].text = << >> /\ s[Under(s, Len(s))].text = << >>
  BY <1>1 DEF AllRead
<1>3. \A r : r.text = << >> => Holds(n, r)
  BY DEF Holds
<1>4. Holds(n, s[1]) /\ Holds(n, s[Under(s, Len(s))])
  BY <1>2, <1>3
<1>5. QED
  BY <1>4 DEF Sound, Reads

\* The interpreter goes on with what the runs say.
LEMMA SourceGoesOn ==
  ASSUME pc' \in {"loop", "word"},
         Sound(runs', srcPtr', srcEnd', mem'), Reads(runs', srcPtr', srcEnd', mem')
  PROVE  SourceInv'
BY DEF SourceInv

\* A THROW keeps the invariant.
LEMMA SourceThrown ==
  ASSUME Sound(runs, srcPtr, srcEnd, mem'), Thrown
  PROVE  SourceInv'
<1>1. \/ pc' = "back"
      \/ /\ pc' = "word"
         /\ Sound(runs', srcPtr', srcEnd', mem') /\ Reads(runs', srcPtr', srcEnd', mem')
  BY ThrownReads
<1>2. QED
  BY <1>1 DEF SourceInv

\* The console's line is read from EDIT_BUF.
LEMMA EnterReads ==
  ASSUME StoreInv, NEW n \in 0 .. EDIT_MAX_LEN, EnterLine(n)
  PROVE  SourceInv'
<1> HIDE DEF Run, Cells
<1> DEFINE row == Repeated("typed", n) \o Repeated(CR, EDIT_MAX_LEN - n)
           new == Repeated("typed", n) \o <<CR>>
<1>1. PICK line : line = Put(mem, EDIT_BUF, row)
  OBVIOUS
<1>2. PICK x : x = Source("line", EDIT_BUF, EDIT_BUF, EDIT_BUF, EDIT_BUF + n, line)
  OBVIOUS
<1>3. /\ pc' = "loop" /\ runs' = <<x>> /\ srcPtr' = EDIT_BUF /\ srcEnd' = EDIT_BUF + n
      /\ mem' = IF n > 0 /\ Fits(n) THEN Put(line, storeEnd, new) ELSE line
  BY <1>1, <1>2 DEF EnterLine
<1>4. /\ n \in Nat /\ EDIT_MAX_LEN - n \in Nat /\ EDIT_BUF \in Int /\ storeEnd \in Int
      /\ STORE_START <= storeEnd /\ EDIT_BUF \in Memory /\ mem \in [Memory -> Cells]
      /\ "typed" \in Cells /\ CR \in Cells
  <2>1. "typed" \in Cells /\ CR \in Cells
    BY DEF Cells, Written, Terminators
  <2>2. QED
    BY <2>1, Sizes DEF EDIT_BUF, StoreInv
<1>5. row \in Seq(Cells) /\ new \in Seq(Cells)
  <2>1. Repeated("typed", n) \in Seq(Cells) /\ Repeated(CR, EDIT_MAX_LEN - n) \in Seq(Cells)
    BY <1>4, RepeatedCells
  <2>2. QED
    BY <1>4, <2>1
<1> HIDE DEF row, new
<1>6. line \in [Memory -> Cells]
  BY <1>1, <1>4, <1>5, PutCells
<1>7. ASSUME NEW a \in EDIT_BUF .. STORE_START - 1 PROVE mem'[a] = line[a]
  <2>1. a \in Memory /\ a \in Int /\ ~ (storeEnd <= a)
    BY <1>4, Sizes DEF EDIT_BUF
  <2>2. Put(line, storeEnd, new)[a] = line[a]
    BY <1>4, <1>5, <1>6, <2>1, PutCells
  <2>3. QED
    BY <1>3, <2>2
<1>8. /\ x.by = "line" /\ x.ptr = EDIT_BUF /\ x.end = EDIT_BUF /\ x.at = EDIT_BUF
      /\ x.text = TextIn(line, EDIT_BUF, EDIT_BUF + n)
      /\ x = [by |-> "line", ptr |-> EDIT_BUF, end |-> EDIT_BUF, at |-> EDIT_BUF,
              text |-> TextIn(line, EDIT_BUF, EDIT_BUF + n)]
  BY <1>2 DEF Source
<1>9. /\ x.text \in Seq(Cells) /\ Len(x.text) = n
      /\ \A i \in 1 .. n : x.text[i] = line[EDIT_BUF + i - 1]
  <2> DEFINE b == EDIT_BUF + n
  <2>1. b \in Int /\ EDIT_BUF <= b /\ b <= STORE_LIMIT + 2 /\ b - EDIT_BUF = n
    BY <1>4, Sizes DEF EDIT_BUF
  <2> HIDE DEF b
  <2>2. /\ TextIn(line, EDIT_BUF, b) \in Seq(Cells)
        /\ Len(TextIn(line, EDIT_BUF, b)) = b - EDIT_BUF
        /\ \A i \in 1 .. b - EDIT_BUF : TextIn(line, EDIT_BUF, b)[i] = line[EDIT_BUF + i - 1]
    BY <1>4, <1>6, <2>1, TextInMemory
  <2>3. QED
    BY <1>8, <2>1, <2>2 DEF b
<1>10. x \in Run
  BY <1>4, <1>8, <1>9 DEF Run, Sources
<1>11. EndOf(x) = EDIT_BUF + n /\ InEditBuf(x)
  BY <1>4, <1>8, <1>9, Sizes DEF EndOf, InEditBuf, EDIT_BUF
<1>12. PICK s : s = <<x>>
  OBVIOUS
<1>13. s \in Seq(Run) /\ Len(s) = 1 /\ s[1] = x
  BY <1>10, <1>12
<1>14. RunsAre(s)
  BY <1>11, <1>13 DEF RunsAre
<1>15. Holds(mem', x)
  <2>1. ASSUME NEW i \in 1 .. n
        PROVE  mem'[EDIT_BUF + i - 1] = line[EDIT_BUF + i - 1]
    <3>1. EDIT_BUF + i - 1 \in EDIT_BUF .. STORE_START - 1
      BY <1>4, Sizes DEF EDIT_BUF
    <3>2. QED
      BY <1>7, <3>1
  <2>2. QED
    BY <1>8, <1>9, <2>1 DEF Holds
<1>16. Sound(s, srcPtr', srcEnd', mem') /\ Reads(s, srcPtr', srcEnd', mem')
  BY <1>3, <1>8, <1>11, <1>13, <1>14, <1>15, LineRead DEF Sound
<1>17. QED
  BY <1>3, <1>12, <1>16, SourceGoesOn

\* A name is read, and the trim begins; nothing is overwritten unread.
LEMMA TrimReads ==
  ASSUME Clobber = {}, SourceInv, NEW c \in {"save", "load", "edit", "bare"}, Trim(c)
  PROVE  SourceInv'
<1>1. /\ pc = "word" /\ pc' \in {"trim", "trimmed"} /\ cmd' = c /\ srcPtr' = NextWord
      /\ runs' = ReadTo(NextWord) /\ srcEnd' = srcEnd /\ mem' = mem
      /\ c # "save" => MayOverwrite(c, runs')
  BY DEF Trim
<1>2. Sound(runs, srcPtr, srcEnd, mem) /\ Reads(runs, srcPtr, srcEnd, mem)
  BY <1>1 DEF SourceInv
<1>3. NextWord \in srcPtr .. srcEnd
  BY <1>2, NextWordInSource DEF Sound
<1>4. Sound(runs', srcPtr', srcEnd', mem') /\ Reads(runs', srcPtr', srcEnd', mem')
  BY <1>1, <1>2, <1>3, ReadsOn
<1>5. PICK s : s = runs'
  OBVIOUS
<1>6. RunsAre(s)
  BY <1>4, <1>5 DEF Sound
<1>7. /\ DOMAIN s = 1 .. Len(s) /\ Len(s) \in Nat
      /\ \A i \in 2 .. Len(s) : Nested(s, i) /\ i \in DOMAIN s
  BY <1>6, RunsFacts
<1>8. c # "save" => \A i \in DOMAIN s : s[i].text = << >> \/ (s[i].by = "line" /\ c = "load")
  BY <1>1, <1>5 DEF MayOverwrite, Unread
<1>9. c = "load" => AllRead(s, 2)
  BY <1>7, <1>8 DEF AllRead, Nested
<1>10. c \in {"edit", "bare"} => AllRead(s, 1)
  BY <1>7, <1>8 DEF AllRead
<1>11. QED
  BY <1>1, <1>4, <1>5, <1>9, <1>10 DEF SourceInv

\* What a load writes is above EDIT_BUF.
LEMMA PutInStore ==
  ASSUME StoreInv, NEW t \in Seq(Cells), NEW m, m = Put(mem, STORE_START, t)
  PROVE  /\ m \in [Memory -> Cells]
         /\ \A a \in EDIT_BUF .. STORE_START - 1 : m[a] = mem[a]
<1> HIDE DEF Cells
<1>1. mem \in [Memory -> Cells] /\ STORE_START \in Int
  BY Sizes DEF StoreInv
<1>2. /\ m \in [Memory -> Cells]
      /\ \A b \in Memory : m[b] = IF STORE_START <= b /\ b < STORE_START + Len(t)
                                  THEN t[b - STORE_START + 1] ELSE mem[b]
  BY <1>1, PutCells
<1>3. \A a \in EDIT_BUF .. STORE_START - 1 : a \in Memory /\ ~ (STORE_START <= a)
  BY Sizes DEF EDIT_BUF
<1>4. QED
  BY <1>2, <1>3

\* A text that does not arrive throws, whatever it left in the store.
LEMMA LoadFailsReads ==
  ASSUME StoreInv, Sound(runs, srcPtr, srcEnd, mem), NEW t \in Tapes, LoadFails(t)
  PROVE  SourceInv'
<1> HIDE DEF Cells
<1>1. PICK n \in 0 .. (IF TooLong(t) THEN 0 ELSE Len(t)) :
             mem' = Put(mem, STORE_START, SubSeq(t, 1, n))
  BY DEF LoadFails
<1>2. t \in Seq(Cells) /\ Len(t) \in Nat
  BY TapeCells
<1>3. SubSeq(t, 1, n) \in Seq(Cells)
  BY <1>1, <1>2
<1>4. \A a \in EDIT_BUF .. STORE_START - 1 : mem'[a] = mem[a]
  BY <1>1, <1>3, PutInStore
<1>5. Sound(runs, srcPtr, srcEnd, mem')
  BY <1>4, HoldsBelow DEF Sound
<1>6. QED
  BY <1>5, SourceThrown DEF LoadFails

\* A text that arrives is read from the start of the store.
LEMMA LoadReads ==
  ASSUME StoreInv, Sound(runs, srcPtr, srcEnd, mem), Reads(runs, srcPtr, srcEnd, mem),
         AllRead(runs, 2), NEW t \in Tapes, LoadText(t)
  PROVE  SourceInv'
<1> HIDE DEF Run, Cells
<1>1. t \in Seq(Cells) /\ Len(t) \in Nat /\ StoreCells \in Nat /\ Len(t) <= StoreCells
  BY TapeCells DEF LoadText, TooLong
<1>2. Ended(t) \in Seq(Cells)
  <2>1. CR \in Cells
    BY DEF Cells, Terminators
  <2>2. QED
    BY <1>1, <2>1 DEF Ended
<1>3. PICK m : m = Put(mem, STORE_START, Ended(t))
  OBVIOUS
<1>4. PICK b : b = STORE_START + Len(t)
  OBVIOUS
<1>5. PICK x : x = Source("load", srcPtr, srcEnd, STORE_START, b, m)
  OBVIOUS
<1>6. /\ pc' = "loop" /\ runs' = Append(SourceNoted, x) /\ mem' = m
      /\ srcPtr' = STORE_START /\ srcEnd' = b
  BY <1>3, <1>4, <1>5 DEF LoadText
<1>7. m \in [Memory -> Cells] /\ \A a \in EDIT_BUF .. STORE_START - 1 : m[a] = mem[a]
  BY <1>2, <1>3, PutInStore
<1>8. /\ x.by = "load" /\ x.ptr = srcPtr /\ x.end = srcEnd /\ x.at = STORE_START
      /\ x.text = TextIn(m, STORE_START, b)
      /\ x = [by |-> "load", ptr |-> srcPtr, end |-> srcEnd, at |-> STORE_START,
              text |-> TextIn(m, STORE_START, b)]
  BY <1>5 DEF Source
<1>9. /\ STORE_START \in Int /\ b \in Int /\ STORE_START <= b /\ b <= STORE_LIMIT + 2
      /\ STORE_START \in Memory /\ b - STORE_START = Len(t)
  BY <1>1, <1>4, Sizes
<1>10. /\ x.text \in Seq(Cells) /\ Len(x.text) = b - STORE_START
       /\ \A i \in 1 .. b - STORE_START : x.text[i] = m[STORE_START + i - 1]
  <2>1. /\ TextIn(m, STORE_START, b) \in Seq(Cells)
        /\ Len(TextIn(m, STORE_START, b)) = b - STORE_START
        /\ \A i \in 1 .. b - STORE_START :
             TextIn(m, STORE_START, b)[i] = m[STORE_START + i - 1]
    BY <1>7, <1>9, TextInMemory, Zenon
  <2>2. QED
    BY <1>8, <2>1
<1>11. EndOf(x) = b /\ Holds(m, x)
  BY <1>8, <1>9, <1>10 DEF EndOf, Holds
<1>12. RunsAre(runs)
  BY DEF Sound
<1>13. srcPtr \in Int /\ srcEnd \in Int
  <2>1. srcPtr = runs[Under(runs, Len(runs))].at /\ srcEnd = EndOf(runs[Under(runs, Len(runs))])
    BY DEF Reads
  <2>2. QED
    BY <1>12, <2>1, WhereRunsAre
<1>14. StartsAt(x)
  <2>1. x \in Run
    BY <1>8, <1>9, <1>10, <1>13 DEF Run, Sources
  <2>2. QED
    BY <1>8, <1>9, <2>1 DEF StartsAt
<1>15. PICK s : s = Append(SourceNoted, x)
  OBVIOUS
<1>16. PICK n : n = Len(runs)
  OBVIOUS
<1>17. /\ RunsAre(s) /\ Len(s) = n + 1 /\ s[n + 1] = x
       /\ s[1].at = runs[1].at /\ s[1].text = runs[1].text
       /\ \A c \in 2 .. n + 1 : s[c].by = "catch" => s[c].ptr = runs[1].at
  BY <1>14, <1>15, <1>16, PushRuns
<1>18. Under(s, Len(s)) = Len(s) /\ s[Len(s)] = x
  BY <1>8, <1>17 DEF Under
<1>19. Reads(s, STORE_START, b, m)
  BY <1>8, <1>11, <1>18 DEF Reads
<1>20. Holds(m, s[1])
  <2>1. Holds(mem, s[1])
    BY <1>17 DEF Sound, Holds
  <2>2. QED
    BY <1>7, <1>17, <2>1, HoldsBelow
<1>21. Noted(s, STORE_START, b)
  <2>1. EndOf(s[1]) \in Int /\ EndOf(s[1]) < STORE_START
    BY <1>17, WhereRunsAre
  <2>2. b # EndOf(s[1])
    BY <1>9, <2>1
  <2>3. QED
    BY <1>8, <1>17, <1>18, <2>2 DEF Noted
<1>22. QED
  BY <1>6, <1>15, <1>17, <1>19, <1>20, <1>21, SourceGoesOn DEF Sound

\* A session starts with no line of its own.
LEMMA LeavesReads ==
  ASSUME StoreInv, Sound(runs, srcPtr, srcEnd, mem), Reads(runs, srcPtr, srcEnd, mem),
         AllRead(runs, 1), NEW a \in LineStarts, ViewLeaves(a)
  PROVE  SourceInv'
<1> HIDE DEF Run, Cells
<1>1. RunsAre(runs) /\ Noted(runs, srcPtr, srcEnd)
  BY DEF Sound
<1>2. PICK x : x = Source("edit", srcPtr, srcEnd, a, a, mem)
  OBVIOUS
<1>3. /\ pc' = "commit" /\ runs' = Append(SourceNoted, x)
      /\ srcPtr' = srcPtr /\ srcEnd' = srcEnd
  BY <1>2 DEF ViewLeaves, srcVars
<1>4. /\ a \in Int /\ a \in Memory /\ STORE_START <= a /\ a <= STORE_LIMIT + 2 /\ a <= a
      /\ a - a = 0 /\ mem \in [Memory -> Cells]
  BY Sizes DEF LineStarts, StoreInv
<1>5. /\ x.by = "edit" /\ x.ptr = srcPtr /\ x.end = srcEnd /\ x.at = a
      /\ x.text = TextIn(mem, a, a)
      /\ x = [by |-> "edit", ptr |-> srcPtr, end |-> srcEnd, at |-> a,
              text |-> TextIn(mem, a, a)]
  BY <1>2 DEF Source
<1>6. x.text \in Seq(Cells)
  BY <1>4, <1>5, TextInMemory
<1>7. srcPtr \in Int /\ srcEnd \in Int
  <2>1. srcPtr = runs[Under(runs, Len(runs))].at /\ srcEnd = EndOf(runs[Under(runs, Len(runs))])
    BY DEF Reads
  <2>2. QED
    BY <1>1, <2>1, WhereRunsAre
<1>8. PICK n : n = Len(runs)
  OBVIOUS
<1>9. n \in Nat /\ n >= 1 /\ 1 \in 1 .. n /\ AllRead(runs, 2) /\ runs[1].text = << >>
  <2>1. n \in Nat /\ n >= 1 /\ 1 \in 1 .. n /\ \A i \in 2 .. n : i \in 1 .. n
    BY <1>1, <1>8, RunsFacts
  <2>2. QED
    BY <1>8, <2>1 DEF AllRead
<1>10. StartsAt(x)
  <2>1. x \in Run
    BY <1>4, <1>5, <1>6, <1>7 DEF Run, Sources
  <2>2. QED
    BY <1>4, <1>5, <1>9, <2>1 DEF StartsAt
<1>11. PICK s : s = Append(SourceNoted, x)
  OBVIOUS
<1>12. /\ RunsAre(s) /\ Len(s) = n + 1 /\ s[n + 1] = x
       /\ s[1].at = runs[1].at /\ s[1].text = runs[1].text
       /\ \A c \in 2 .. n + 1 : s[c].by = "catch" => s[c].ptr = runs[1].at
  BY <1>8, <1>9, <1>10, <1>11, PushRuns
<1>13. Holds(mem', s[1])
  BY <1>9, <1>12 DEF Holds
<1>14. Noted(s, srcPtr, srcEnd)
  <2>1. EndOf(s[1]) = EndOf(runs[1])
    BY <1>12 DEF EndOf
  <2>2. s[Len(s)].by = "edit"
    BY <1>5, <1>12
  <2>3. QED
    BY <1>1, <1>12, <2>1, <2>2 DEF Noted
<1>15. QED
  BY <1>3, <1>5, <1>11, <1>12, <1>13, <1>14 DEF SourceInv, Sound, Top

\* The interpreter is given the session's line.
LEMMA CommitReads ==
  ASSUME Sound(runs, srcPtr, srcEnd, mem), Top.by = "edit", Holds(mem, Top), CommitRuns
  PROVE  SourceInv'
<1>1. RunsAre(runs) /\ Holds(mem, runs[1]) /\ Noted(runs, srcPtr, srcEnd)
  BY DEF Sound
<1>2. PICK n : n = Len(runs)
  OBVIOUS
<1>3. /\ pc' = "loop" /\ srcPtr' = Top.at /\ srcEnd' = EndOf(Top) /\ runs' = runs
      /\ mem' = mem /\ Top = runs[n]
  BY <1>2 DEF CommitRuns, storeVars, EndOf, Top
<1>4. Under(runs, n) = n
  BY <1>3 DEF Under
<1>5. /\ n \in Nat /\ n >= 1 /\ InEditBuf(runs[1])
  BY <1>1, <1>2, RunsFacts
<1>6. n # 1
  BY <1>3, <1>5 DEF InEditBuf
<1>7. /\ STORE_START <= runs[n].at /\ runs[n].at <= EndOf(runs[n])
      /\ EndOf(runs[1]) < STORE_START /\ EndOf(runs[1]) \in Int
      /\ runs[n].at \in Nat /\ EndOf(runs[n]) \in Nat
  BY <1>1, <1>2, <1>4, <1>6, WhereRunsAre
<1>8. EndOf(runs[n]) # EndOf(runs[1])
  BY <1>7, Sizes
<1>9. Noted(runs, srcPtr', srcEnd')
  BY <1>1, <1>2, <1>3, <1>8 DEF Noted
<1>10. Reads(runs, srcPtr', srcEnd', mem)
  BY <1>2, <1>3, <1>4 DEF Reads
<1>11. QED
  BY <1>1, <1>3, <1>9, <1>10, SourceGoesOn DEF Sound

\* Every step keeps the invariant.
LEMMA SourceStep ==
  ASSUME Clobber = {}, CatchIn \subseteq {"line"}, StoreInv, SourceInv, [Next]_vars
  PROVE  SourceInv'
<1>1. pc \notin {"console", "back"} => Sound(runs, srcPtr, srcEnd, mem)
  BY DEF SourceInv
<1>2. pc \notin {"console", "back", "commit", "marked"} => Reads(runs, srcPtr, srcEnd, mem)
  BY DEF SourceInv
<1>3. ASSUME NEW n \in 0 .. EDIT_MAX_LEN, EnterLine(n) PROVE SourceInv'
  BY <1>3, EnterReads
<1>4. CASE ReadWord
  <2>1. /\ pc = "loop" /\ pc' = "word" /\ srcPtr' = NextWord /\ runs' = ReadTo(NextWord)
        /\ mem' = mem /\ srcEnd' = srcEnd
    BY <1>4 DEF ReadWord, storeVars
  <2>2. NextWord \in srcPtr .. srcEnd
    BY <1>1, <1>2, <2>1, NextWordInSource DEF Sound
  <2>3. /\ Sound(ReadTo(NextWord), NextWord, srcEnd, mem)
        /\ Reads(ReadTo(NextWord), NextWord, srcEnd, mem)
    BY <1>1, <1>2, <2>1, <2>2, ReadsOn
  <2>4. QED
    BY <2>1, <2>3, SourceGoesOn
<1>5. CASE EndOfSource
  <2>1. pc = "loop" /\ mem' = mem
    BY <1>5 DEF EndOfSource, storeVars
  <2>2. CASE pc' = "back"
    BY <2>2 DEF SourceInv
  <2>3. CASE Top.by = "load" /\ pc' = "word" /\ runs' = Popped
             /\ srcPtr' = Top.ptr /\ srcEnd' = Top.end
    BY <1>1, <2>1, <2>3, PopReads, SourceGoesOn
  <2>4. CASE Top.by = "edit" /\ pc' = "commit" /\ runs' = runs
             /\ srcPtr' = srcEnd /\ srcEnd' = srcEnd
    <3>1. srcPtr' = srcEnd /\ srcEnd' = srcEnd
      BY <2>4
    <3>2. Sound(runs, srcEnd, srcEnd, mem)
      <4>1. Noted(runs, srcPtr, srcEnd) /\ RunsAre(runs) /\ Holds(mem, runs[1])
        BY <1>1, <2>1 DEF Sound
      <4>2. runs[Len(runs)].by # "catch" /\ Under(runs, Len(runs)) = Len(runs)
            /\ runs[Len(runs)].by # "line"
        BY <2>4 DEF Under, Top
      <4>3. srcEnd # EndOf(runs[1])
        <5>1. Len(runs) # 1
          BY <4>1, <4>2, RunsFacts DEF InEditBuf
        <5>2. /\ STORE_START <= runs[Len(runs)].at
              /\ runs[Len(runs)].at <= EndOf(runs[Len(runs)])
              /\ EndOf(runs[1]) < STORE_START /\ EndOf(runs[1]) \in Int
              /\ runs[Len(runs)].at \in Nat /\ EndOf(runs[Len(runs)]) \in Nat
          BY <4>1, <4>2, <5>1, WhereRunsAre
        <5>3. srcEnd = EndOf(runs[Len(runs)])
          BY <1>2, <2>1, <4>2 DEF Reads
        <5>4. QED
          BY <5>2, <5>3, Sizes
      <4>4. QED
        BY <4>1, <4>2, <4>3 DEF Sound, Noted
    <3>3. QED
      BY <2>1, <2>4, <3>2 DEF SourceInv, Top
  <2>5. QED
    BY <1>5, <2>2, <2>3, <2>4 DEF EndOfSource
<1>6. CASE WordReturns
  <2>1. pc = "word" /\ mem' = mem /\ srcPtr' = srcPtr /\ srcEnd' = srcEnd
    BY <1>6 DEF WordReturns, storeVars, srcVars
  <2>2. CASE Top.by = "catch"
    <3>1. runs' = Popped /\ pc' = "word"
      BY <1>6, <2>2 DEF WordReturns
    <3>2. QED
      BY <1>1, <1>2, <2>1, <2>2, <3>1, CatchReturns, SourceGoesOn
  <2>3. CASE Top.by # "catch"
    <3>1. runs' = runs /\ pc' = "loop"
      BY <1>6, <2>3 DEF WordReturns
    <3>2. QED
      BY <1>1, <1>2, <2>1, <3>1, SourceGoesOn
  <2>4. QED
    BY <2>2, <2>3
<1>7. CASE Catch
  <2>1. /\ pc = "word" /\ pc' = "word" /\ mem' = mem /\ srcPtr' = srcPtr /\ srcEnd' = srcEnd
        /\ runs' = Append(runs, CatchFrame) /\ runs[Reading].by = "line"
    BY <1>7 DEF Catch, storeVars, srcVars
  <2>2. QED
    BY <1>1, <1>2, <2>1, CatchTaken, SourceGoesOn
<1>8. CASE WordFails \/ Break \/ SaveText
  <2>1. /\ mem' = mem /\ pc \notin {"console", "back"}
        /\ pc \in {"word", "trimmed"} \/ Thrown
    BY <1>8 DEF WordFails, Break, SaveText, storeVars, Points
  <2>2. CASE Thrown
    BY <1>1, <2>1, <2>2, SourceThrown
  <2>3. CASE Reported
    BY <2>3 DEF Reported, SourceInv
  <2>4. CASE pc = "trimmed" /\ pc' = "word" /\ runs' = runs /\ srcPtr' = srcPtr /\ srcEnd' = srcEnd
    BY <1>1, <1>2, <2>1, <2>4, SourceGoesOn
  <2>5. QED
    BY <1>8, <2>2, <2>3, <2>4 DEF WordFails, Break, SaveText, srcVars
<1>9. ASSUME NEW c \in {"save", "load", "edit", "bare"}, Trim(c) PROVE SourceInv'
  BY <1>9, TrimReads
<1>10. CASE TrimDone
  BY <1>10 DEF TrimDone, SourceInv, srcVars
<1>11. ASSUME NEW t \in Tapes, LoadFails(t) PROVE SourceInv'
  BY <1>1, <1>11, LoadFailsReads DEF LoadFails
<1>12. ASSUME NEW t \in Tapes, LoadText(t) PROVE SourceInv'
  <2>1. pc = "trimmed" /\ cmd = "load"
    BY <1>12 DEF LoadText
  <2>2. AllRead(runs, 2)
    BY <2>1 DEF SourceInv
  <2>3. QED
    BY <1>1, <1>2, <1>12, <2>1, <2>2, LoadReads
<1>13. CASE Edit
  BY <1>13 DEF Edit, SourceInv, storeVars, srcVars
<1>14. CASE NoExrom \/ ViewRefuses
  <2>1. /\ pc = "edit" /\ pc' = "word" /\ mem' = mem /\ runs' = runs
        /\ srcPtr' = srcPtr /\ srcEnd' = srcEnd
    BY <1>14 DEF NoExrom, ViewRefuses, storeVars, srcVars
  <2>2. QED
    BY <1>1, <1>2, <2>1, SourceGoesOn
<1>15. CASE NotFound
  BY <1>15 DEF NotFound, Reported, SourceInv
<1>16. ASSUME pc \in {"edit", "view"}, pc' = "view", runs' = runs,
              srcPtr' = srcPtr, srcEnd' = srcEnd
       PROVE  SourceInv'
  <2>1. AllRead(runs, 1) /\ RunsAre(runs)
    BY <1>16 DEF SourceInv, Sound
  <2>2. Sound(runs, srcPtr, srcEnd, mem') /\ Reads(runs, srcPtr, srcEnd, mem')
    BY <1>1, <1>2, <1>16, <2>1, ReadHolds
  <2>3. QED
    BY <1>16, <2>1, <2>2 DEF SourceInv
<1>17. CASE ViewOpens
  BY <1>16, <1>17 DEF ViewOpens, srcVars
<1>18. ASSUME NEW a \in LineStarts,
              \/ \E n \in 0 .. EDIT_MAX_LEN : ViewReplaces(a, n)
              \/ ViewInserts(a) \/ ViewDeletes(a)
       PROVE  SourceInv'
  BY <1>16, <1>18 DEF ViewReplaces, ViewInserts, ViewDeletes, srcVars
<1>19. ASSUME NEW a \in LineStarts, ViewLeaves(a) PROVE SourceInv'
  <2>1. pc = "view"
    BY <1>19 DEF ViewLeaves
  <2>2. AllRead(runs, 1)
    BY <2>1 DEF SourceInv
  <2>3. QED
    BY <1>1, <1>2, <1>19, <2>1, <2>2, LeavesReads
<1>20. CASE CommitLine
  <2>1. pc = "commit" /\ pc' = "marked"
    BY <1>20 DEF CommitLine
  <2>2. Top.by = "edit" /\ Sound(runs, srcPtr, srcEnd, mem)
    BY <2>1 DEF SourceInv
  <2>3. Sound(runs', srcPtr', srcEnd', mem') /\ Top'.by = "edit" /\ Holds(mem', Top')
    BY <1>20, <2>2, CommitMoves
  <2>4. QED
    BY <2>1, <2>3 DEF SourceInv
<1>21. CASE CommitRuns
  <2>1. pc = "marked"
    BY <1>21 DEF CommitRuns
  <2>2. Top.by = "edit" /\ Sound(runs, srcPtr, srcEnd, mem) /\ Holds(mem, Top)
    BY <2>1 DEF SourceInv
  <2>3. QED
    BY <1>21, <2>2, CommitReads
<1>22. CASE CommitEnds
  <2>1. /\ pc = "commit" /\ pc' = "word" /\ runs' = Popped /\ mem' = mem
        /\ srcPtr' = Top.ptr /\ srcEnd' = Top.end
    BY <1>22 DEF CommitEnds, storeVars
  <2>2. Top.by = "edit" /\ Sound(runs, srcPtr, srcEnd, mem)
    BY <2>1 DEF SourceInv
  <2>3. QED
    BY <2>1, <2>2, PopReads, SourceGoesOn
<1>23. CASE BackToConsole
  BY <1>23 DEF BackToConsole, SourceInv
<1>24. CASE UNCHANGED vars
  BY <1>24 DEF vars, SourceInv, Top
<1>25. QED
  BY <1>3, <1>4, <1>5, <1>6, <1>7, <1>8, <1>9, <1>10, <1>11, <1>12, <1>13, <1>14, <1>15,
     <1>17, <1>18, <1>19, <1>20, <1>21, <1>22, <1>23, <1>24 DEF Next

\* The words the interpreter reads are those of the source it was given, from
\* where that source was read to: across nested loads, EDIT's changes, THROWs
\* caught and BREAK at any point, if CATCH is used on the console's line only
\* and nothing is overwritten before it is read.
THEOREM SourceStaysIntact ==
  ASSUME Clobber = {}, CatchIn \subseteq {"line"}
  PROVE  Spec => []SourceIntact
<1>1. Init => SourceInv
  BY DEF Init, SourceInv
<1>2. StoreInv /\ SourceInv /\ [Next]_vars => SourceInv'
  BY SourceStep
<1>3. SourceInv => SourceIntact
  <2> SUFFICES ASSUME SourceInv, pc \in {"loop", "word"}
               PROVE  LET r == runs[Reading]
                      IN  /\ srcPtr = r.at
                          /\ srcEnd = r.at + Len(r.text)
                          /\ \A i \in DOMAIN r.text : mem[r.at + i - 1] = r.text[i]
    BY DEF SourceIntact
  <2>1. RunsAre(runs) /\ Reads(runs, srcPtr, srcEnd, mem)
    BY DEF SourceInv, Sound
  <2>2. PICK r : r = runs[Reading]
    OBVIOUS
  <2>3. srcPtr = r.at /\ srcEnd = EndOf(r) /\ Holds(mem, r)
    BY <2>1, <2>2, ReadingIs DEF Reads
  <2>4. DOMAIN r.text = 1 .. Len(r.text)
    <3>1. r \in Run
      BY <2>1, <2>2, ReadingIs, RunsFacts
    <3> HIDE DEF Run, Cells
    <3>2. r.text \in Seq(Cells)
      BY <3>1, RunFacts
    <3>3. QED
      BY <3>2
  <2>5. QED
    BY <2>2, <2>3, <2>4 DEF EndOf, Holds
<1>4. QED
  BY <1>1, <1>2, <1>3, StoreAlways, PTL DEF Spec
=============================================================================
