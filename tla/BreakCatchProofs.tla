-------------------------- MODULE BreakCatchProofs --------------------------
(***************************************************************************)
(* BreakCatch, for every size of the stacks and every nesting, wherever a    *)
(* BREAK falls.  First its return stack: every cell stands on the cell it    *)
(* must stand on, every frame of CATCH on its own two cells, and the guards  *)
(* leave the room that is used.  Then the BREAK protocol (NOBRK, BRK_PEND),  *)
(* the types, which text a word returns into (SRC_PTR, SRC_END and the       *)
(* copies CATCH and the nested runs keep of them), and the abstract CATCH    *)
(* and THROW of CatchSpec that it implements.                                *)
(***************************************************************************)
EXTENDS BreakCatch, FiniteSetTheorems, SequenceTheorems, WellFoundedInduction, TLAPS
-----------------------------------------------------------------------------
(* What stands on the stack.                                                *)

\* The cells a word's own RET may be under.
WordTop == {"loop", "call", "bare", "xt"}

\* The level of the innermost nested run among the first i cells (Level is
\* LevelAt(mem, sp)).
LevelAt(m, i) ==
  LET nested == {j \in 1 .. i : m[j].kind = "nested"}
  IN  IF nested = {} THEN 0 ELSE m[CHOOSE j \in nested :
                                    \A k \in nested : k <= j].val

\* The highest cell a word, a CATCH or a nested run takes.
Highest == GuardCell + 2 + 4 * MaxNest

\* Cell i stands on the cell its kind must stand on, within the room its level
\* leaves, and levels only grow upwards.
Fits(m, i) ==
  /\ m[i].kind \in WordTop \cup {"root", "end", "ptr", "nested"}
  /\ m[i].kind = "root" <=> i = 1
  /\ m[i].kind = "loop" => m[i - 1].kind \in {"root", "nested"}
  /\ m[i].kind \in {"call", "bare", "end"} => m[i - 1].kind \in WordTop
  /\ m[i].kind = "ptr" => m[i - 1].kind = "end"
  /\ m[i].kind \in {"xt", "nested"} => m[i - 1].kind = "ptr"
  /\ m[i].kind = "nested" => m[i].val = LevelAt(m, i - 1) + 1
  /\ LevelAt(m, i) \in Texts
  /\ \A j \in 0 .. i : LevelAt(m, j) <= LevelAt(m, i)
  /\ i <= Highest
  /\ m[i].kind \in {"root", "nested"} => i <= GuardCell + 1 + 4 * LevelAt(m, i)
  /\ m[i].kind \in WordTop => i <= GuardCell + 2 + 4 * LevelAt(m, i)
Sound(m, h) == \A i \in 1 .. h : Fits(m, i)

\* The first n frames are those of the CATCHes whose xt cell is among the first
\* h cells.
Counted(m, h, f, n) ==
  /\ \A k \in 1 .. n : f[k].sp + 1 <= h /\ m[f[k].sp + 1].kind = "xt"
  /\ \A i \in 1 .. h : m[i].kind = "xt" => \E k \in 1 .. n : f[k].sp + 1 = i

\* A frame's SP is two cells above a stack in which a word was running and the
\* n frames below it were counted: what THROW goes back to.
Base(m, fr, f, n) ==
  /\ fr.sp >= 3
  /\ Sound(m, fr.sp - 2)
  /\ m[fr.sp - 2].kind \in WordTop
  /\ Counted(m, fr.sp - 2, f, n)
Bases(m, f, n) == \A k \in 1 .. n : Base(m, f[k], f, k - 1)

Memory == [1 .. StackCells -> Cell]
Slots == [1 .. CATCH_MAX_DEPTH -> Frame]

\* The two memories differ at most in what interrupts and the notes of
\* CATCH_SRC_HERE write: not in a kind, not in a level.
Same(m, m2, h) ==
  \A i \in 1 .. h : /\ m2[i].kind = m[i].kind
                    /\ m[i].kind = "nested" => m2[i].val = m[i].val
-----------------------------------------------------------------------------
(* Levels.                                                                  *)

(* A nonempty set of positions has a highest one.                           *)
LEMMA MaxOf ==
  ASSUME NEW n \in Nat, NEW S \in SUBSET (1 .. n), S # {}
  PROVE  \E x \in S : \A y \in S : y <= x
<1> DEFINE above == {x .. n : x \in S}
           R == StrictSubsetOrdering(Nat)
<1>1. above \subseteq FiniteSubsetsOf(Nat) /\ above # {}
  <2>1. \A x \in S : x .. n \in SUBSET Nat /\ IsFiniteSet(x .. n)
    BY FS_Interval
  <2> QED BY <2>1 DEF FiniteSubsetsOf
<1>2. PICK M \in above : \A B \in above : ~ (<<B, M>> \in R)
  <2> HIDE DEF above, R
  <2>1. IsWellFoundedOn(R, FiniteSubsetsOf(Nat))
    BY FS_StrictSubsetOrderingWellFounded DEF R
  <2> QED BY <1>1, <2>1, WFMin, Zenon
<1>3. PICK x \in S : M = x .. n
  BY <1>2
<1>4. ASSUME NEW y \in S, ~ (y <= x) PROVE FALSE
  <2>1. y .. n \subseteq x .. n /\ x \notin y .. n /\ x \in x .. n
    BY <1>4
  <2>2. <<y .. n, x .. n>> \in R
    BY <2>1 DEF StrictSubsetOrdering
  <2> QED BY <1>2, <1>3, <2>2
<1> QED BY <1>4

(* Below the first cell the level is the console's.                         *)
LEMMA LevelAtZero == ASSUME NEW m PROVE LevelAt(m, 0) = 0
<1>1. {j \in 1 .. 0 : m[j].kind = "nested"} = {}
  OBVIOUS
<1> QED BY <1>1 DEF LevelAt

(* A nested run's return cell sets the level, any other keeps it.           *)
LEMMA LevelAtStep ==
  ASSUME NEW m, NEW i \in Nat, i >= 1
  PROVE  LevelAt(m, i) = IF m[i].kind = "nested" THEN m[i].val
                                                ELSE LevelAt(m, i - 1)
<1> DEFINE N(h) == {j \in 1 .. h : m[j].kind = "nested"}
           Last(h) == CHOOSE j \in N(h) : \A k \in N(h) : k <= j
<1>1. CASE m[i].kind = "nested"
  <2>1. i \in N(i) /\ \A k \in N(i) : k <= i
    BY <1>1
  <2>2. \A j \in N(i) : (\A k \in N(i) : k <= j) => j = i
    BY <2>1
  <2>3. Last(i) = i
    <3> HIDE DEF N
    <3> QED BY <2>1, <2>2
  <2> QED BY <1>1, <2>1, <2>3 DEF LevelAt
<1>2. CASE m[i].kind # "nested"
  <2>1. N(i) = N(i - 1)
    BY <1>2
  <2>2. /\ LevelAt(m, i) = IF N(i) = {} THEN 0 ELSE m[Last(i)].val
        /\ LevelAt(m, i - 1) = IF N(i - 1) = {} THEN 0 ELSE m[Last(i - 1)].val
    BY Zenon DEF LevelAt
  <2>3. Last(i) = Last(i - 1)
    <3> HIDE DEF N
    <3> QED BY <2>1
  <2> HIDE DEF N, Last
  <2> QED BY <1>2, <2>1, <2>2, <2>3
<1> QED BY <1>1, <1>2

(* The level depends only on the cells up to it.                            *)
LEMMA LevelAtSame ==
  ASSUME NEW m, NEW m2, NEW h \in Nat, Same(m, m2, h)
  PROVE  LevelAt(m2, h) = LevelAt(m, h)
<1> DEFINE N == {j \in 1 .. h : m[j].kind = "nested"}
           Last == CHOOSE j \in N : \A k \in N : k <= j
<1>1. N = {j \in 1 .. h : m2[j].kind = "nested"}
  BY DEF Same
<1>2. N # {} => Last \in N
  <2>1. N \in SUBSET (1 .. h)
    OBVIOUS
  <2> HIDE DEF N
  <2>2. N # {} => \E j \in N : \A k \in N : k <= j
    BY <2>1, MaxOf
  <2> QED BY <2>2
<1>3. N # {} => m2[Last].val = m[Last].val
  <2> HIDE DEF Last
  <2> QED BY <1>2 DEF Same
<1>4. LevelAt(m, h) = IF N = {} THEN 0 ELSE m[Last].val
  BY Zenon DEF LevelAt
<1>5. LevelAt(m2, h) = IF N = {} THEN 0 ELSE m2[Last].val
  <2> DEFINE N2 == {j \in 1 .. h : m2[j].kind = "nested"}
  <2>1. LevelAt(m2, h) = IF N2 = {} THEN 0
                         ELSE m2[CHOOSE j \in N2 : \A k \in N2 : k <= j].val
    BY Zenon DEF LevelAt
  <2>2. N = N2
    BY <1>1
  <2> HIDE DEF N, N2
  <2> QED BY <2>1, <2>2
<1> HIDE DEF N, Last
<1> QED BY <1>3, <1>4, <1>5

(* The same at every cell below.                                            *)
LEMMA LevelAtSameBelow ==
  ASSUME NEW m, NEW m2, NEW h \in Nat, Same(m, m2, h)
  PROVE  \A i \in 0 .. h : LevelAt(m2, i) = LevelAt(m, i)
<1> SUFFICES ASSUME NEW i \in 0 .. h PROVE LevelAt(m2, i) = LevelAt(m, i)
  OBVIOUS
<1>1. Same(m, m2, i)
  BY DEF Same
<1> QED BY <1>1, LevelAtSame
-----------------------------------------------------------------------------
(* The same stack in another memory.                                        *)

(* A sound stack stays sound when its cells stay the same.                  *)
LEMMA SoundSame ==
  ASSUME NEW m, NEW m2, NEW h \in Nat, Same(m, m2, h), Sound(m, h)
  PROVE  Sound(m2, h)
<1> SUFFICES ASSUME NEW i \in 1 .. h PROVE Fits(m2, i)
  BY DEF Sound
<1>1. Fits(m, i)
  BY DEF Sound
<1>2. m2[i].kind = m[i].kind /\ (m[i].kind = "nested" => m2[i].val = m[i].val)
  BY DEF Same
<1>3. i > 1 => m2[i - 1].kind = m[i - 1].kind
  BY DEF Same
<1>4. \A j \in 0 .. i : LevelAt(m2, j) = LevelAt(m, j)
  BY LevelAtSameBelow
<1>5. i = 1 \/ i > 1
  OBVIOUS
<1> QED BY <1>1, <1>2, <1>3, <1>4, <1>5 DEF Fits, WordTop

(* CATCH_DEPTH's count of the CATCHes on the stack likewise.                *)
LEMMA CountedSame ==
  ASSUME NEW m, NEW m2, NEW h \in Nat, NEW f \in Slots,
         NEW f2, NEW n \in 0 .. CATCH_MAX_DEPTH,
         \A k \in 1 .. n : f2[k] = f[k],
         Same(m, m2, h), Counted(m, h, f, n)
  PROVE  Counted(m2, h, f2, n)
<1>1. \A k \in 1 .. n : f[k].sp \in Nat
  BY SizesAssumption DEF Slots, Frame
<1> QED BY <1>1 DEF Same, Counted

(* What one frame of CATCH stands on likewise.                              *)
LEMMA BaseSame ==
  ASSUME NEW m, NEW m2, NEW h \in Nat, NEW fr \in Frame, fr.sp - 2 <= h,
         NEW f \in Slots, NEW f2, NEW n \in 0 .. CATCH_MAX_DEPTH,
         \A k \in 1 .. n : f2[k] = f[k],
         Same(m, m2, h), Base(m, fr, f, n)
  PROVE  Base(m2, fr, f2, n)
<1>1. fr.sp - 2 \in Nat /\ fr.sp - 2 >= 1
  BY DEF Base, Frame
<1>2. Same(m, m2, fr.sp - 2)
  BY <1>1 DEF Same
<1>3. Sound(m2, fr.sp - 2)
  BY <1>1, <1>2, SoundSame DEF Base
<1>4. Counted(m2, fr.sp - 2, f2, n)
  BY <1>1, <1>2, CountedSame DEF Base
<1>5. m2[fr.sp - 2].kind = m[fr.sp - 2].kind
  BY <1>1, <1>2 DEF Same
<1> QED BY <1>3, <1>4, <1>5 DEF Base

(* And what all of them stand on.                                           *)
LEMMA BasesSame ==
  ASSUME NEW m, NEW m2, NEW h \in Nat, NEW f \in Slots, NEW f2,
         NEW n \in 0 .. CATCH_MAX_DEPTH,
         \A k \in 1 .. n : f2[k] = f[k] /\ f[k].sp - 2 <= h,
         Same(m, m2, h), Bases(m, f, n)
  PROVE  Bases(m2, f2, n)
<1> SUFFICES ASSUME NEW k \in 1 .. n PROVE Base(m2, f2[k], f2, k - 1)
  BY DEF Bases
<1>1. f[k] \in Frame /\ f2[k] = f[k]
  BY SizesAssumption DEF Slots
<1>2. Base(m, f[k], f, k - 1)
  BY DEF Bases
<1>3. k - 1 \in 0 .. CATCH_MAX_DEPTH /\ \A j \in 1 .. k - 1 : f2[j] = f[j]
  BY SizesAssumption
<1> QED BY <1>1, <1>2, <1>3, BaseSame
-----------------------------------------------------------------------------
(* Pushing and popping.                                                     *)

(* Texts start and end at addresses, and so does a stray pointer.           *)
LEMMA JunkIsNat == Junk \in Nat /\ \A l \in Texts : TextStart(l) \in Addresses
                                                    /\ TextEnd(l) \in Addresses
<1>1. MaxNest + 1 \in Nat /\ TextLen + 1 \in Nat
  BY SizesAssumption
<1>2. Junk = (MaxNest + 1) * (TextLen + 1) /\ Junk \in Nat
  BY <1>1 DEF Junk, TextStart
<1>3. ASSUME NEW l \in Texts PROVE TextStart(l) \in Addresses /\ TextEnd(l) \in Addresses
  <2>1. l \in Nat /\ MaxNest - l \in Nat
    BY SizesAssumption DEF Texts
  <2>2. (MaxNest - l) * (TextLen + 1) \in Nat /\ l * (TextLen + 1) \in Nat
    BY <1>1, <2>1
  <2>3. Junk = l * (TextLen + 1) + (MaxNest - l) * (TextLen + 1) + TextLen + 1
    BY <1>1, <1>2, <2>1, SizesAssumption
  <2>4. l * (TextLen + 1) + TextLen <= Junk
    BY <2>2, <2>3, SizesAssumption
  <2> QED BY <1>2, <2>2, <2>4, SizesAssumption DEF TextStart, TextEnd, Addresses
<1> QED BY <1>2, <1>3

(* Every cell the code pushes is a cell.                                    *)
LEMMA CellsTyped ==
  /\ \A k \in Kinds : Ret(k) \in Cell
  /\ \A a \in Addresses : Ptr(a) \in Cell /\ End(a) \in Cell
  /\ Isr \in Cell
  /\ \A l \in Nat : NestedCall(l).kind = "nested" /\ NestedCall(l).val = l
<1>1. 0 \in Addresses /\ Junk \in Addresses
  BY JunkIsNat DEF Addresses
<1> QED BY <1>1 DEF Ret, Ptr, End, Isr, NestedCall, Cell, Kinds

(* A level is an address too: a nested return cell keeps it as its value.   *)
LEMMA TextsAreAddresses == Texts \subseteq Addresses
<1>1. MaxNest + 1 \in Nat /\ TextLen \in Nat /\ TextLen + 1 \in Nat
  BY SizesAssumption
<1>2. (MaxNest + 1) * TextLen \in Nat
  BY <1>1
<1>3. Junk = (MaxNest + 1) * TextLen + (MaxNest + 1)
  BY <1>1 DEF Junk, TextStart
<1>4. Junk \in Nat /\ MaxNest <= Junk
  BY <1>1, <1>2, <1>3, SizesAssumption
<1> QED BY <1>4, SizesAssumption DEF Texts, Addresses

(* PUSH writes the cell above and keeps those below.                        *)
LEMMA PushedIs ==
  ASSUME NEW m \in Memory, NEW s \in Nat, s + 1 <= StackCells, NEW c \in Cell
  PROVE  /\ Pushed(c, m, s) \in Memory
         /\ Pushed(c, m, s)[s + 1] = c
         /\ \A i \in 1 .. s : Pushed(c, m, s)[i] = m[i]
BY SizesAssumption DEF Pushed, Memory

(* PUSH keeps a memory, even past the end of the room.                      *)
LEMMA PushedTyped ==
  ASSUME NEW m \in Memory, NEW s \in Nat, NEW c \in Cell
  PROVE  /\ Pushed(c, m, s) \in Memory
         /\ \A i \in 1 .. s : Pushed(c, m, s)[i] = m[i]
<1>1. DOMAIN m = 1 .. StackCells /\ \A i \in 1 .. StackCells : m[i] \in Cell
  BY DEF Memory
<1>2. Pushed(c, m, s) = [i \in 1 .. StackCells |-> IF i = s + 1 THEN c ELSE m[i]]
  BY <1>1 DEF Pushed, Memory
<1>3. Pushed(c, m, s) \in Memory
  BY <1>1, <1>2 DEF Memory
<1>4. ASSUME NEW i \in 1 .. s PROVE Pushed(c, m, s)[i] = m[i]
  <2>1. s + 1 # i
    OBVIOUS
  <2> QED BY <2>1 DEF Pushed, Memory
<1> QED BY <1>3, <1>4

(* What is above the stack pointer may be lost; what is below is kept.      *)
LEMMA ForgottenIs ==
  ASSUME NEW m \in Memory, NEW s \in Nat, s <= StackCells
  PROVE  /\ Forgotten(m, s) \in Memory
         /\ \A i \in 1 .. s : Forgotten(m, s)[i] = m[i]
<1>1. Ret("free") \in Cell
  BY CellsTyped DEF Kinds
<1>2. DOMAIN m = 1 .. StackCells
  BY DEF Memory
<1> QED BY <1>1, <1>2, SizesAssumption DEF Forgotten, Memory

\* What every call pushes.
LEMMA CallIs ==
  ASSUME NEW m \in Memory, NEW s \in Nat, s + 1 <= StackCells, NEW c \in Cell
  PROVE  LET m2 == Forgotten(Pushed(c, m, s), s + 1)
         IN  m2 \in Memory /\ m2[s + 1] = c /\ \A i \in 1 .. s : m2[i] = m[i]
<1> DEFINE p == Pushed(c, m, s)
<1>1. p \in Memory /\ p[s + 1] = c /\ \A i \in 1 .. s : p[i] = m[i]
  BY PushedIs
<1> HIDE DEF p
<1>2. /\ Forgotten(p, s + 1) \in Memory
      /\ \A i \in 1 .. s + 1 : Forgotten(p, s + 1)[i] = p[i]
  BY <1>1, ForgottenIs
<1>3. Forgotten(p, s + 1)[s + 1] = c
  BY <1>1, <1>2
<1>4. \A i \in 1 .. s : Forgotten(p, s + 1)[i] = m[i]
  BY <1>1, <1>2
<1> QED BY <1>2, <1>3, <1>4 DEF p

(* Equal cells are the same cells.                                          *)
LEMMA SameIs ==
  ASSUME NEW m, NEW m2, NEW h \in Nat, \A i \in 1 .. h : m2[i] = m[i]
  PROVE  Same(m, m2, h)
BY DEF Same

\* A cell of a CATCH, of a call or of the interpreter on top.
LEMMA SoundPush ==
  ASSUME NEW m, NEW s \in Nat, s >= 1, Sound(m, s),
         m[s + 1].kind \in WordTop \cup {"end", "ptr"},
         m[s + 1].kind = "loop" => m[s].kind \in {"root", "nested"},
         m[s + 1].kind \in {"call", "bare", "end"} => m[s].kind \in WordTop,
         m[s + 1].kind = "ptr" => m[s].kind = "end",
         m[s + 1].kind = "xt" => m[s].kind = "ptr",
         m[s + 1].kind \in WordTop => s + 1 <= GuardCell + 2 + 4 * LevelAt(m, s),
         s + 1 <= Highest
  PROVE  Sound(m, s + 1) /\ LevelAt(m, s + 1) = LevelAt(m, s)
<1>1. LevelAt(m, s + 1) = LevelAt(m, s)
  <2>1. m[s + 1].kind # "nested"
    BY DEF WordTop
  <2>2. s + 1 \in Nat /\ s + 1 >= 1 /\ s + 1 - 1 = s
    OBVIOUS
  <2>3. LevelAt(m, s + 1) = LevelAt(m, s + 1 - 1)
    BY <2>1, <2>2, LevelAtStep
  <2> QED BY <2>2, <2>3
<1>2. Fits(m, s)
  BY DEF Sound
<1>3. /\ LevelAt(m, s + 1) \in Texts
      /\ \A j \in 0 .. s + 1 : LevelAt(m, j) <= LevelAt(m, s + 1)
  <2>1. \A j \in 0 .. s + 1 : j \in 0 .. s \/ j = s + 1
    OBVIOUS
  <2>2. LevelAt(m, s) \in Texts /\ LevelAt(m, s) \in Nat
    BY <1>2, SizesAssumption DEF Fits, Texts
  <2> QED BY <1>1, <1>2, <2>1, <2>2 DEF Fits
<1>4. Fits(m, s + 1)
  BY <1>1, <1>3, s + 1 - 1 = s DEF Fits, WordTop
<1>5. \A i \in 1 .. s + 1 : i \in 1 .. s \/ i = s + 1
  OBVIOUS
<1> QED BY <1>1, <1>4, <1>5 DEF Sound

\* A nested run's return address on top of the source it keeps.
LEMMA SoundPushNested ==
  ASSUME NEW m, NEW s \in Nat, s >= 1, Sound(m, s),
         m[s + 1].kind = "nested", m[s + 1].val = LevelAt(m, s) + 1,
         m[s].kind = "ptr", LevelAt(m, s) < MaxNest,
         s + 1 <= GuardCell + 5 + 4 * LevelAt(m, s)
  PROVE  Sound(m, s + 1) /\ LevelAt(m, s + 1) = LevelAt(m, s) + 1
<1>1. LevelAt(m, s + 1) = LevelAt(m, s) + 1
  BY LevelAtStep, s + 1 - 1 = s
<1>2. Fits(m, s)
  BY DEF Sound
<1>3. LevelAt(m, s) \in 0 .. MaxNest
  BY <1>2 DEF Fits, Texts
<1>4. /\ LevelAt(m, s + 1) \in Texts
      /\ \A j \in 0 .. s + 1 : LevelAt(m, j) <= LevelAt(m, s + 1)
  <2>1. \A j \in 0 .. s + 1 : j \in 0 .. s \/ j = s + 1
    OBVIOUS
  <2>2. \A j \in 0 .. s : LevelAt(m, j) \in Nat
    <3>1. LevelAt(m, 0) = 0
      BY LevelAtZero
    <3>2. \A j \in 1 .. s : LevelAt(m, j) \in Texts
      BY DEF Sound, Fits
    <3> QED BY <3>1, <3>2, SizesAssumption DEF Texts
  <2> QED BY <1>1, <1>2, <1>3, <2>1, <2>2, SizesAssumption DEF Fits, Texts
<1>5. s + 1 <= Highest /\ s + 1 <= GuardCell + 1 + 4 * LevelAt(m, s + 1)
  BY <1>1, <1>3, SizesAssumption DEF Highest
<1>6. Fits(m, s + 1)
  BY <1>1, <1>4, <1>5, s + 1 - 1 = s DEF Fits, WordTop
<1>7. \A i \in 1 .. s + 1 : i \in 1 .. s \/ i = s + 1
  OBVIOUS
<1> QED BY <1>1, <1>6, <1>7 DEF Sound

(* A sound stack is sound at every height below.                            *)
LEMMA SoundBelow ==
  ASSUME NEW m, NEW h, NEW s \in Nat, h \in Nat, s <= h, Sound(m, h)
  PROVE  Sound(m, s)
BY DEF Sound

(* A cell that is no CATCH's does not change the count.                     *)
LEMMA CountedPush ==
  ASSUME NEW m, NEW s \in Nat, NEW f \in Slots, NEW n \in 0 .. CATCH_MAX_DEPTH,
         Counted(m, s, f, n), m[s + 1].kind # "xt"
  PROVE  Counted(m, s + 1, f, n)
<1>1. \A k \in 1 .. n : f[k].sp \in Nat
  BY SizesAssumption DEF Slots, Frame
<1>2. \A i \in 1 .. s + 1 : i \in 1 .. s \/ i = s + 1
  OBVIOUS
<1> QED BY <1>1, <1>2 DEF Counted

(* The return cell of CATCH's xt counts its new frame.                      *)
LEMMA CountedPushXt ==
  ASSUME NEW m, NEW s \in Nat, NEW f \in Slots, NEW n \in 1 .. CATCH_MAX_DEPTH,
         Counted(m, s, f, n - 1), m[s + 1].kind = "xt", f[n].sp = s
  PROVE  Counted(m, s + 1, f, n)
<1>1. \A k \in 1 .. n : f[k].sp \in Nat
  BY SizesAssumption DEF Slots, Frame
<1>2. \A i \in 1 .. s + 1 : i \in 1 .. s \/ i = s + 1
  OBVIOUS
<1>3. \A k \in 1 .. n : k \in 1 .. n - 1 \/ k = n
  OBVIOUS
<1>4. n \in 1 .. n /\ \A k \in 1 .. n - 1 : k \in 1 .. n
  OBVIOUS
<1> QED BY <1>1, <1>2, <1>3, <1>4 DEF Counted

(* Popping a cell that is no CATCH's does not change the count.             *)
LEMMA CountedPop ==
  ASSUME NEW m, NEW s \in Nat, s >= 1, NEW f \in Slots,
         NEW n \in 0 .. CATCH_MAX_DEPTH,
         Counted(m, s, f, n), m[s].kind # "xt"
  PROVE  Counted(m, s - 1, f, n)
<1>1. \A k \in 1 .. n : f[k].sp \in Nat
  BY SizesAssumption DEF Slots, Frame
<1>2. \A k \in 1 .. n : f[k].sp + 1 <= s - 1
  BY <1>1 DEF Counted
<1> QED BY <1>1, <1>2 DEF Counted

\* Only the innermost counted CATCH's xt can return: it is the innermost frame.
LEMMA CountedPopXt ==
  ASSUME NEW m, NEW s \in Nat, s >= 1, NEW f \in Slots,
         NEW n \in 0 .. CATCH_MAX_DEPTH,
         Counted(m, s, f, n), Bases(m, f, n), m[s].kind = "xt"
  PROVE  n >= 1 /\ f[n].sp = s - 1 /\ Counted(m, s - 1, f, n - 1)
<1>1. \A k \in 1 .. n : f[k].sp \in Nat
  BY SizesAssumption DEF Slots, Frame
<1>2. PICK k \in 1 .. n : f[k].sp + 1 = s
  BY DEF Counted
<1>3. n >= 1 /\ n \in 1 .. n
  BY <1>2
<1>4. \A j \in 1 .. n - 1 : f[j].sp + 1 <= f[n].sp - 2
  BY <1>3 DEF Bases, Base, Counted
<1>5. f[n].sp + 1 <= s
  BY <1>3 DEF Counted
<1>6. k = n
  <2>1. k # n => k \in 1 .. n - 1
    BY <1>2
  <2> QED BY <1>1, <1>2, <1>3, <1>4, <1>5, <2>1
<1>7. f[n].sp = s - 1
  BY <1>1, <1>2, <1>3, <1>6
<1>8. ASSUME NEW i \in 1 .. s - 1, m[i].kind = "xt"
      PROVE  \E j \in 1 .. n - 1 : f[j].sp + 1 = i
  <2>1. PICK j \in 1 .. n : f[j].sp + 1 = i
    BY <1>8 DEF Counted
  <2>2. j # n
    BY <1>1, <1>3, <1>7, <2>1
  <2> QED BY <2>1, <2>2
<1>9. \A j \in 1 .. n - 1 : f[j].sp + 1 <= s - 1 /\ m[f[j].sp + 1].kind = "xt"
  <2>1. \A j \in 1 .. n - 1 : m[f[j].sp + 1].kind = "xt" /\ f[j].sp \in Nat
    BY <1>1 DEF Counted
  <2> QED BY <1>1, <1>3, <1>4, <1>7, <2>1
<1> QED BY <1>3, <1>7, <1>8, <1>9 DEF Counted
-----------------------------------------------------------------------------
(* What each program point finds.                                           *)

AtWord == {"word", "section", "sectionEnd", "view", "viewEnd", "edit",
           "bareDone", "restorePtr"}
Going == AtWord \cup {"run", "loop", "catch", "nest", "nestPtr", "nestEnd",
                      "nestEndPtr"}
\* From the counting of CATCH's frame to its uncounting, outside xt.
Ending == {"catchGo", "xtDone", "xtPop", "xtPopped"}
Thrown == {"stop", "throw", "unwind", "restore", "report"}

Under(p) ==
  CASE p = "run" -> {"root"}
    [] p = "loop" -> {"root", "nested"}
    [] p \in {"nest", "nestPtr"} -> {"nested"}
    [] p \in {"catch", "nestEnd", "catchGo", "xtDone"} -> {"ptr"}
    [] p \in {"nestEndPtr", "xtPop"} -> {"end"}
    [] OTHER -> WordTop

\* The cells popped of the two CATCH kept.
Popped(p) == CASE p = "xtPop" -> 1 [] p = "xtPopped" -> 2 [] OTHER -> 0

\* At the points where the stack is what the code pushed.
StackAt(p, m, s, f, n) ==
  /\ p \in {"console", "back"} => s = 0 /\ n = 0
  /\ p \in Going \cup Ending => s >= 1 /\ Sound(m, s) /\ m[s].kind \in Under(p)
  /\ p \in Going => Counted(m, s, f, n)
  /\ p \in Ending => /\ n >= 1 /\ Counted(m, s, f, n - 1)
                     /\ f[n].sp = s + Popped(p)
  /\ p = "catch" => n < CATCH_MAX_DEPTH
  /\ p \in {"catch", "catchGo"} => s <= GuardCell + 1
  /\ p \in {"edit", "nestEnd", "nestEndPtr"} => LevelAt(m, s) < MaxNest
  /\ p = "nestEnd" => s <= GuardCell + 4 + 4 * LevelAt(m, s)
  /\ p = "nestEndPtr" => s <= GuardCell + 3 + 4 * LevelAt(m, s)

\* In a THROW, whatever an interrupt left on top: the frames' stacks are whole
\* below it, and INTERPRET_RUN's caller is still the first cell.
ThrownAt(p, m, s, f, n, t, b) ==
  /\ p \in Thrown => /\ s <= Highest + 2 * b
                     /\ m[1].kind \in {"root", "isr"}
                     /\ \A k \in 1 .. n : f[k].sp <= s
  /\ p \in {"unwind", "restore"} => Base(m, t, f, n) /\ t.sp <= s
  /\ p = "restore" => t.sp = s

(* What a program point needs of the stack survives a change above it.      *)
LEMMA StackAtSame ==
  ASSUME NEW p \in Points, NEW m, NEW m2, NEW s \in Nat, NEW f \in Slots,
         NEW f2, NEW n \in 0 .. CATCH_MAX_DEPTH, \A k \in 1 .. n : f2[k] = f[k],
         Same(m, m2, s), StackAt(p, m, s, f, n)
  PROVE  StackAt(p, m2, s, f2, n)
<1>1. LevelAt(m2, s) = LevelAt(m, s)
  BY LevelAtSame
<1>2. s >= 1 => m2[s].kind = m[s].kind
  BY DEF Same
<1>3. Sound(m, s) => Sound(m2, s)
  BY SoundSame
<1>4. Counted(m, s, f, n) => Counted(m2, s, f2, n)
  BY CountedSame
<1>5. ASSUME n >= 1, Counted(m, s, f, n - 1)
      PROVE  Counted(m2, s, f2, n - 1) /\ f2[n] = f[n]
  <2>1. n - 1 \in 0 .. CATCH_MAX_DEPTH /\ \A k \in 1 .. n - 1 : f2[k] = f[k]
    BY <1>5, SizesAssumption
  <2> QED BY <1>5, <2>1, CountedSame
<1> QED BY <1>1, <1>2, <1>3, <1>4, <1>5 DEF StackAt, Going, Ending, AtWord, Under

\* A RET from a stack a word, a line or a nested run was running on lands at a
\* point that finds the stack it needs.
LEMMA Landed ==
  ASSUME NEW m, NEW s \in Nat, s >= 1, NEW f \in Slots,
         NEW n \in 0 .. CATCH_MAX_DEPTH,
         Sound(m, s), Counted(m, s, f, n), Bases(m, f, n),
         m[s].kind \in WordTop \cup {"root", "nested"}
  PROVE  /\ Landing(m[s]) \in {"back", "loop", "word", "bareDone", "xtDone", "nestEnd"}
         /\ StackAt(Landing(m[s]), m, s - 1, f, n)
<1> DEFINE p == Landing(m[s])
<1>1. Fits(m, s) /\ s - 1 \in Nat
  BY DEF Sound
<1>2. Sound(m, s - 1)
  BY SoundBelow
<1>3. m[s].kind # "xt" => Counted(m, s - 1, f, n)
  BY CountedPop
<1>4. LevelAt(m, s) = IF m[s].kind = "nested" THEN m[s].val ELSE LevelAt(m, s - 1)
  BY LevelAtStep
<1>5. s - 1 >= 1 \/ s = 1
  OBVIOUS
<1>6. CASE m[s].kind = "root"
  <2>1. p = "back" /\ s = 1
    BY <1>1, <1>6 DEF Landing, Fits
  <2>2. n = 0
    <3>1. \A k \in 1 .. n : f[k].sp \in Nat
      BY SizesAssumption DEF Slots, Frame
    <3>2. \A k \in 1 .. n : f[k].sp + 1 <= 0
      BY <1>3, <1>6, <2>1 DEF Counted
    <3> QED BY <3>1, <3>2
  <2> QED BY <2>1, <2>2 DEF StackAt, Going, Ending, AtWord
<1>7. CASE m[s].kind = "xt"
  <2>1. p = "xtDone" /\ m[s - 1].kind = "ptr" /\ s # 1
    BY <1>1, <1>7 DEF Landing, Fits
  <2>2. n >= 1 /\ f[n].sp = s - 1 /\ Counted(m, s - 1, f, n - 1)
    BY <1>7, CountedPopXt
  <2> QED BY <1>2, <1>5, <2>1, <2>2
          DEF StackAt, Going, Ending, AtWord, Under, Popped
<1>8. CASE m[s].kind = "nested"
  <2>1. p = "nestEnd" /\ m[s - 1].kind = "ptr" /\ s # 1
    BY <1>1, <1>8 DEF Landing, Fits
  <2>2. /\ LevelAt(m, s) = LevelAt(m, s - 1) + 1
        /\ LevelAt(m, s) \in Texts
        /\ s <= GuardCell + 1 + 4 * LevelAt(m, s)
    BY <1>1, <1>4, <1>8 DEF Fits
  <2>3. LevelAt(m, s - 1) \in Nat
    <3>1. Fits(m, s - 1)
      BY <1>2, <1>5, <2>1 DEF Sound
    <3> QED BY <3>1, SizesAssumption DEF Fits, Texts
  <2>4. LevelAt(m, s - 1) < MaxNest /\ s - 1 <= GuardCell + 4 + 4 * LevelAt(m, s - 1)
    BY <2>2, <2>3, SizesAssumption DEF Texts
  <2> QED BY <1>2, <1>3, <1>5, <1>8, <2>1, <2>4
          DEF StackAt, Going, Ending, AtWord, Under
<1>9. CASE m[s].kind = "loop"
  <2>1. p = "loop" /\ m[s - 1].kind \in {"root", "nested"} /\ s # 1
    BY <1>1, <1>9 DEF Landing, Fits
  <2> QED BY <1>2, <1>3, <1>5, <1>9, <2>1
          DEF StackAt, Going, Ending, AtWord, Under
<1>10. CASE m[s].kind \in {"call", "bare"}
  <2>1. p \in {"word", "bareDone"} /\ m[s - 1].kind \in WordTop /\ s # 1
    BY <1>1, <1>10 DEF Landing, Fits
  <2> QED BY <1>2, <1>3, <1>5, <1>10, <2>1
          DEF StackAt, Going, Ending, AtWord, Under
<1> QED BY <1>6, <1>7, <1>8, <1>9, <1>10 DEF WordTop
-----------------------------------------------------------------------------
(* The invariant.                                                           *)

Typed ==
  /\ pc \in Points
  /\ mem \in Memory
  /\ sp \in Nat
  /\ catchDepth \in 0 .. CATCH_MAX_DEPTH
  /\ frames \in Slots
  /\ tmp \in Frame /\ regN \in Codes /\ regPtr \in Addresses
  /\ ds \in Nat
  /\ srcPtr \in Addresses /\ srcEnd \in Addresses
  /\ rootSp \in Nat
  /\ brkPend \in 0 .. 1
  /\ reached \in [Texts -> Addresses]
  /\ breaks \in 0 .. MaxBreaks

StackInv ==
  /\ Typed
  /\ Bases(mem, frames, catchDepth)
  /\ StackAt(pc, mem, sp, frames, catchDepth)
  /\ ThrownAt(pc, mem, sp, frames, catchDepth, tmp, breaks)
  /\ IF pc = "console" THEN nobrk = 1 ELSE rootSp = 1
  /\ pc = "catch" => ds < MaxData

\* Where the frames and the top of the stack are.
LEMMA Extents ==
  ASSUME StackInv
  PROVE  /\ \A k \in 1 .. catchDepth :
              frames[k] \in Frame /\ frames[k].sp \in Nat /\ frames[k].sp >= 3
         /\ \A k \in 1 .. catchDepth : frames[k].sp <= sp + Popped(pc)
         /\ Popped(pc) \in 0 .. 2
         /\ pc \in Going => \A k \in 1 .. catchDepth : frames[k].sp + 1 <= sp
         /\ pc \in Going \cup Ending =>
              sp <= Highest /\ mem[1].kind = "root" /\ LevelAt(mem, sp) \in Texts
         /\ sp <= Highest + 2 * breaks /\ sp <= StackCells
         /\ Highest \in Nat /\ Highest <= StackCells
<1>1. /\ catchDepth \in 0 .. CATCH_MAX_DEPTH /\ frames \in Slots /\ sp \in Nat
      /\ breaks \in 0 .. MaxBreaks /\ pc \in Points
  BY DEF StackInv, Typed
<1>2. \A k \in 1 .. catchDepth :
        frames[k] \in Frame /\ frames[k].sp \in Nat /\ frames[k].sp >= 3
  <2>1. \A k \in 1 .. catchDepth : frames[k] \in Frame
    BY <1>1, SizesAssumption DEF Slots
  <2> QED BY <2>1, SizesAssumption DEF StackInv, Bases, Base, Frame
<1>3. Popped(pc) \in 0 .. 2 /\ (pc \notin Ending => Popped(pc) = 0)
  BY DEF Popped, Ending
<1>4. pc \in Going => \A k \in 1 .. catchDepth : frames[k].sp + 1 <= sp
  BY DEF StackInv, StackAt, Counted
<1>5. pc \in Ending => \A k \in 1 .. catchDepth : frames[k].sp <= sp + Popped(pc)
  <2> SUFFICES ASSUME pc \in Ending, NEW k \in 1 .. catchDepth
               PROVE  frames[k].sp <= sp + Popped(pc)
    OBVIOUS
  <2>1. CASE k = catchDepth
    BY <1>1, <1>3, <2>1 DEF StackInv, StackAt
  <2>2. CASE k # catchDepth
    <3>1. k \in 1 .. catchDepth - 1
      BY <1>1, <2>2
    <3>2. frames[k].sp + 1 <= sp
      BY <3>1 DEF StackInv, StackAt, Counted
    <3> QED BY <1>1, <1>2, <1>3, <3>2
  <2> QED BY <2>1, <2>2
<1>6. pc \in Going \cup Ending \cup Thrown \cup {"console", "back"}
  BY <1>1 DEF Points, Going, Ending, Thrown, AtWord
<1>7. pc \in Thrown => /\ \A k \in 1 .. catchDepth : frames[k].sp <= sp
                       /\ sp <= Highest + 2 * breaks
  BY DEF StackInv, ThrownAt
<1>8. pc \in {"console", "back"} => sp = 0 /\ catchDepth = 0
  BY DEF StackInv, StackAt
<1>9. \A k \in 1 .. catchDepth : frames[k].sp <= sp + Popped(pc)
  <2>1. CASE pc \in Going
    BY <1>1, <1>2, <1>3, <1>4, <2>1
  <2>2. CASE pc \in Thrown
    BY <1>1, <1>2, <1>3, <1>7, <2>2
  <2> QED BY <1>5, <1>6, <1>8, <2>1, <2>2
<1>10. Highest \in Nat /\ Highest + 2 * breaks <= StackCells /\ Highest <= StackCells
  BY <1>1, SizesAssumption, RoomAssumption DEF Highest
<1>11. pc \in Going \cup Ending =>
         sp <= Highest /\ mem[1].kind = "root" /\ LevelAt(mem, sp) \in Texts
  <2> SUFFICES ASSUME pc \in Going \cup Ending
               PROVE  sp <= Highest /\ mem[1].kind = "root" /\ LevelAt(mem, sp) \in Texts
    OBVIOUS
  <2>1. sp >= 1 /\ Sound(mem, sp)
    BY DEF StackInv, StackAt
  <2>2. Fits(mem, 1) /\ Fits(mem, sp)
    BY <1>1, <2>1 DEF Sound
  <2> QED BY <2>2 DEF Fits
<1>12. sp <= Highest + 2 * breaks
  BY <1>1, <1>6, <1>7, <1>8, <1>10, <1>11
<1>13. sp <= StackCells
  BY <1>1, <1>10, <1>12, SizesAssumption
<1> QED BY <1>1, <1>2, <1>3, <1>4, <1>9, <1>10, <1>11, <1>12, <1>13

(* The console's own return cell alone is a sound stack.                    *)
LEMMA SoundRoot ==
  ASSUME NEW m, m[1].kind = "root"
  PROVE  Sound(m, 1) /\ LevelAt(m, 1) = 0
<1>1. LevelAt(m, 1) = 0
  <2>1. 1 \in Nat /\ 1 >= 1 /\ 1 - 1 = 0
    OBVIOUS
  <2>2. LevelAt(m, 1) = LevelAt(m, 1 - 1)
    BY <2>1, LevelAtStep
  <2> QED BY <2>1, <2>2, LevelAtZero
<1>2. \A j \in 0 .. 1 : LevelAt(m, j) = 0
  <2>1. \A j \in 0 .. 1 : j = 0 \/ j = 1
    OBVIOUS
  <2> QED BY <1>1, <2>1, LevelAtZero
<1>3. 1 <= Highest /\ 0 \in Texts
  BY SizesAssumption DEF Highest, Texts
<1>4. Fits(m, 1)
  BY <1>1, <1>2, <1>3, SizesAssumption DEF Fits, WordTop
<1>5. \A i \in 1 .. 1 : i = 1
  OBVIOUS
<1> QED BY <1>1, <1>4, <1>5 DEF Sound

(* The stack at power-on.                                                   *)
LEMMA InitStack == Init => StackInv
<1> SUFFICES ASSUME Init PROVE StackInv
  OBVIOUS
<1>1. 0 \in Addresses /\ \A l \in Texts : TextStart(l) \in Addresses
  BY JunkIsNat DEF Addresses
<1>2. Ret("free") \in Cell
  BY CellsTyped DEF Kinds
<1>3. NoFrame \in Frame
  BY SizesAssumption DEF NoFrame, Frame, DataDepths
<1>4. Typed
  BY <1>1, <1>2, <1>3, SizesAssumption DEF Init, Typed, Points, Memory, Slots, Codes
<1> QED BY <1>4 DEF Init, StackInv, Bases, StackAt, ThrownAt, Going, Ending,
                    AtWord, Thrown

\* A RET, whatever becomes of the cells above the one it popped.
LEMMA Returned ==
  ASSUME NEW m, NEW m2, NEW s \in Nat, s >= 1,
         NEW f \in Slots, NEW f2, NEW n \in 0 .. CATCH_MAX_DEPTH,
         \A k \in 1 .. n : f2[k] = f[k], \A i \in 1 .. s - 1 : m2[i] = m[i],
         Sound(m, s), Counted(m, s, f, n), Bases(m, f, n),
         m[s].kind \in WordTop \cup {"root", "nested"}
  PROVE  /\ Landing(m[s]) \in {"back", "loop", "word", "bareDone", "xtDone", "nestEnd"}
         /\ StackAt(Landing(m[s]), m2, s - 1, f2, n)
         /\ Bases(m2, f2, n)
<1>1. /\ Landing(m[s]) \in {"back", "loop", "word", "bareDone", "xtDone", "nestEnd"}
      /\ StackAt(Landing(m[s]), m, s - 1, f, n)
  BY Landed
<1>2. s - 1 \in Nat /\ Same(m, m2, s - 1)
  BY SameIs
<1>3. StackAt(Landing(m[s]), m2, s - 1, f2, n)
  <2>1. Landing(m[s]) \in Points
    BY <1>1 DEF Points
  <2> QED BY <1>1, <1>2, <2>1, StackAtSame
<1>4. \A k \in 1 .. n : f[k].sp - 2 <= s - 1
  <2>1. \A k \in 1 .. n : f[k].sp \in Nat
    BY SizesAssumption DEF Slots, Frame
  <2> QED BY <2>1 DEF Counted
<1>5. Bases(m2, f2, n)
  BY <1>2, <1>4, BasesSame
<1> QED BY <1>1, <1>3, <1>5
-----------------------------------------------------------------------------
(* The steps.                                                               *)

\* Steps that move nothing on the stack and go on running.
LEMMA SamePlace ==
  ASSUME StackInv, Typed', UNCHANGED <<mem, sp, catchVars>>,
         pc' \in Going \ {"catch"}, pc \in Going, Under(pc) = Under(pc'),
         pc' = "edit" => LevelAt(mem, sp) < MaxNest,
         pc' # "nestEnd" /\ pc' # "nestEndPtr",
         rootSp' = 1
  PROVE  StackInv'
BY DEF StackInv, StackAt, ThrownAt, Going, Ending, AtWord, Thrown, catchVars

\* Steps that give up: an error is reported, or -n thrown.
LEMMA GivesUp ==
  ASSUME StackInv, Typed', UNCHANGED <<mem, sp, catchVars, breaks>>,
         pc \in Going \cup {"stop", "throw"}, pc' \in {"report", "throw", "stop"}, rootSp' = rootSp
  PROVE  StackInv'
<1>1. /\ \A k \in 1 .. catchDepth : frames[k].sp <= sp
      /\ sp <= Highest + 2 * breaks
      /\ pc \in Going => mem[1].kind = "root"
  <2>1. pc \in Going => \A k \in 1 .. catchDepth : frames[k].sp <= sp
    BY Extents DEF StackInv, Typed
  <2>2. pc \notin Going => \A k \in 1 .. catchDepth : frames[k].sp <= sp
    BY DEF StackInv, ThrownAt, Thrown
  <2> QED BY <2>1, <2>2, Extents
<1>2. pc \in Thrown => mem[1].kind \in {"root", "isr"}
  BY DEF StackInv, ThrownAt
<1> QED BY <1>1, <1>2
        DEF StackInv, StackAt, ThrownAt, Going, Ending, AtWord, Thrown, catchVars

\* The words that read the source leave its cells addresses.
LEMMA ReadTyped ==
  ASSUME Typed, ReadWord
  PROVE  /\ srcPtr' \in Addresses /\ srcEnd' \in Addresses
         /\ reached' \in [Texts -> Addresses] /\ Past(srcPtr) \in Addresses
<1>1. Past(srcPtr) \in Addresses
  BY JunkIsNat DEF Typed, Past, Addresses
<1> QED BY <1>1 DEF Typed, ReadWord

(* The console's steps keep the stack.                                      *)
LEMMA EnterLineStack == ASSUME StackInv, EnterLine PROVE StackInv'
<1>1. sp = 0 /\ catchDepth = 0
  BY DEF EnterLine, StackInv, StackAt
<1>2. 1 <= StackCells
  BY SizesAssumption, RoomAssumption
<1>3. mem' \in Memory /\ mem'[1] = Ret("root")
  <2>1. Ret("root") \in Cell /\ mem \in Memory /\ 0 + 1 = 1 /\ 0 \in Nat
    BY CellsTyped DEF Kinds, StackInv, Typed
  <2>2. mem' = Forgotten(Pushed(Ret("root"), mem, 0), 0 + 1)
    BY <1>1 DEF EnterLine
  <2>3. 0 + 1 <= StackCells
    BY <1>2
  <2>4. mem' \in Memory /\ mem'[0 + 1] = Ret("root")
    BY <2>1, <2>2, <2>3, CallIs
  <2> QED BY <2>1, <2>4
<1>4. Sound(mem', 1) /\ mem'[1].kind = "root"
  BY <1>3, SoundRoot DEF Ret
<1>5. Counted(mem', 1, frames', 0)
  <2>1. \A i \in 1 .. 1 : i = 1
    OBVIOUS
  <2> QED BY <1>4, <2>1 DEF Counted
<1>6. Typed'
  BY <1>1, <1>3 DEF EnterLine, StackInv, Typed, Points, catchVars, throwVars, srcVars
<1>7. sp' = 1 /\ rootSp' = 1 /\ pc' = "run" /\ catchDepth' = 0
  BY <1>1 DEF EnterLine, catchVars
<1> QED BY <1>4, <1>5, <1>6, <1>7
        DEF StackInv, Bases, StackAt, ThrownAt, Going, Ending, AtWord, Thrown, Under

LEMMA StartRunStack == ASSUME StackInv, StartRun PROVE StackInv'
<1>1. Typed'
  <2>1. /\ TextStart(0) \in Addresses /\ TextEnd(0) \in Addresses
        /\ [l \in Texts |-> TextStart(l)] \in [Texts -> Addresses]
    BY JunkIsNat, SizesAssumption DEF Texts
  <2> QED BY <2>1 DEF StartRun, StackInv, Typed, Points, catchVars, throwVars
<1>2. /\ pc = "run" /\ pc' = "loop" /\ rootSp' = rootSp
      /\ UNCHANGED <<mem, sp, catchVars, breaks>>
  BY DEF StartRun, catchVars
<1> QED BY <1>1, <1>2
        DEF StackInv, StackAt, ThrownAt, Going, Ending, AtWord, Thrown, Under, catchVars

LEMMA ReportStack == ASSUME StackInv, Report PROVE StackInv'
<1>1. rootSp = 1 /\ mem[1].kind \in {"root", "isr"}
  BY DEF Report, StackInv, ThrownAt, Thrown
<1>2. pc' = "back" /\ sp' = 0
  BY <1>1 DEF Report, Return, Landing
<1>3. mem' \in Memory
  <2>1. 1 <= StackCells /\ mem \in Memory
    BY SizesAssumption, RoomAssumption DEF StackInv, Typed
  <2> QED BY <1>1, <2>1, ForgottenIs DEF Report
<1>4. frames' \in Slots /\ catchDepth' = 0
  <2>1. NoFrame \in Frame
    BY SizesAssumption DEF NoFrame, Frame, DataDepths
  <2>2. DOMAIN frames = 1 .. CATCH_MAX_DEPTH
    BY DEF StackInv, Typed, Slots
  <2> QED BY <2>1, <2>2 DEF Report, Slots
<1>5. Typed'
  BY <1>2, <1>3, <1>4, SizesAssumption
  DEF Report, StackInv, Typed, Points, throwVars, srcVars, brkVars
<1>6. rootSp' = 1
  BY <1>1 DEF Report
<1> QED BY <1>2, <1>4, <1>5, <1>6
        DEF StackInv, Bases, StackAt, ThrownAt, Going, Ending, AtWord, Thrown

LEMMA BackToConsoleStack == ASSUME StackInv, BackToConsole PROVE StackInv'
<1>1. Typed'
  BY DEF BackToConsole, StackInv, Typed, Points, catchVars, throwVars, srcVars
<1> QED BY <1>1
        DEF BackToConsole, StackInv, StackAt, ThrownAt, Going, Ending, AtWord,
            Thrown, catchVars

\* Above what is in use every cell may change: the frames stay whole.
LEMMA BasesKept ==
  ASSUME StackInv, NEW m2, \A i \in 1 .. sp : m2[i] = mem[i]
  PROVE  Bases(m2, frames, catchDepth)
<1>1. \A k \in 1 .. catchDepth : frames[k].sp - 2 <= sp
  BY Extents DEF StackInv, Typed
<1>2. sp \in Nat /\ Same(mem, m2, sp)
  BY SameIs DEF StackInv, Typed
<1> QED BY <1>1, <1>2, BasesSame DEF StackInv, Typed

\* A word is called: by the interpreter, by itself, by a CATCH without a frame.
LEMMA Called ==
  ASSUME StackInv, pc \in Going, NEW m2, \A i \in 1 .. sp : m2[i] = mem[i],
         m2[sp + 1].kind \in {"loop", "call", "bare"},
         m2[sp + 1].kind = "loop" => mem[sp].kind \in {"root", "nested"},
         m2[sp + 1].kind # "loop" => mem[sp].kind \in WordTop,
         sp + 1 <= GuardCell + 2 + 4 * LevelAt(mem, sp)
  PROVE  StackAt("word", m2, sp + 1, frames, catchDepth)
<1>1. sp \in Nat /\ sp >= 1 /\ sp + 1 \in Nat /\ sp + 1 >= 1
  BY DEF StackInv, Typed, StackAt
<1>2. /\ frames \in Slots /\ catchDepth \in 0 .. CATCH_MAX_DEPTH
      /\ Sound(mem, sp) /\ Counted(mem, sp, frames, catchDepth)
  BY DEF StackInv, Typed, StackAt
<1>3. Same(mem, m2, sp) /\ m2[sp] = mem[sp]
  BY <1>1, SameIs
<1>4. /\ Sound(m2, sp) /\ Counted(m2, sp, frames, catchDepth)
      /\ LevelAt(m2, sp) = LevelAt(mem, sp)
  BY <1>1, <1>2, <1>3, SoundSame, CountedSame, LevelAtSame
<1>5. sp + 1 <= Highest
  BY <1>1, Extents, SizesAssumption DEF Highest, Texts
<1>6. Sound(m2, sp + 1)
  BY <1>1, <1>3, <1>4, <1>5, SoundPush DEF WordTop
<1>7. Counted(m2, sp + 1, frames, catchDepth)
  BY <1>1, <1>2, <1>4, CountedPush
<1> QED BY <1>1, <1>6, <1>7 DEF StackAt, Going, Ending, AtWord, Under, WordTop

(* The interpreter's steps keep the stack.                                  *)
LEMMA InterpretWordStack == ASSUME StackInv, InterpretWord PROVE StackInv'
<1>1. /\ pc \in Going /\ sp \in Nat /\ sp >= 1 /\ Sound(mem, sp) /\ mem \in Memory
      /\ mem[sp].kind \in {"root", "nested"}
  BY DEF InterpretWord, StackInv, Typed, StackAt, Going, Under, AtWord, Ending
<1>2. sp + 1 <= GuardCell + 2 + 4 * LevelAt(mem, sp)
  <2>1. Fits(mem, sp) /\ LevelAt(mem, sp) \in Nat
    BY <1>1, Extents, SizesAssumption DEF Sound, Texts
  <2> QED BY <1>1, <2>1, SizesAssumption DEF Fits
<1>3. sp + 1 <= StackCells
  BY <1>1, <1>2, Extents, SizesAssumption, RoomAssumption DEF Texts
<1>4. mem' \in Memory /\ mem'[sp + 1] = Ret("loop") /\ \A i \in 1 .. sp : mem'[i] = mem[i]
  <2>1. Ret("loop") \in Cell
    BY CellsTyped DEF Kinds
  <2>2. mem' = Forgotten(Pushed(Ret("loop"), mem, sp), sp + 1)
    BY DEF InterpretWord
  <2> QED BY <1>1, <1>3, <2>1, <2>2, CallIs
<1>5. mem'[sp + 1].kind = "loop"
  BY <1>4 DEF Ret
<1>6. StackAt("word", mem', sp + 1, frames, catchDepth) /\ Bases(mem', frames, catchDepth)
  BY <1>1, <1>2, <1>4, <1>5, Called, BasesKept
<1>7. Typed'
  <2>1. /\ UNCHANGED <<catchDepth, frames, tmp, regN, regPtr, ds, rootSp,
                       nobrk, brkPend, breaks>>
        /\ ReadWord /\ pc' = "word" /\ sp' = sp + 1
    BY DEF InterpretWord, catchVars, throwVars, brkVars
  <2> QED BY <1>1, <1>4, <2>1, ReadTyped DEF StackInv, Typed, Points
<1>8. /\ pc' = "word" /\ sp' = sp + 1 /\ UNCHANGED <<catchDepth, frames>>
      /\ rootSp' = 1
  BY <1>1 DEF InterpretWord, StackInv, catchVars, Going
<1> QED BY <1>6, <1>7, <1>8 DEF StackInv, ThrownAt, Thrown

LEMMA InterpretErrorStack == ASSUME StackInv, InterpretError PROVE StackInv'
<1>1. /\ UNCHANGED <<mem, sp, catchDepth, frames, tmp, regN, regPtr, rootSp,
                     nobrk, brkPend, breaks>>
      /\ ReadWord /\ pc = "loop" /\ pc' = "report" /\ ds' = 0
  BY DEF InterpretError, catchVars, throwVars, brkVars
<1>2. Typed'
  BY <1>1, ReadTyped DEF StackInv, Typed, Points
<1> QED BY <1>1, <1>2, GivesUp DEF Going, catchVars

\* The steps that RET: what they leave above it is forgotten or stays.
LEMMA ReturnStack ==
  ASSUME StackInv, Typed', pc \in Going, UNCHANGED <<catchVars, rootSp>>,
         mem[sp].kind \in WordTop \cup {"root", "nested"},
         Return(sp, mem), \A i \in 1 .. sp - 1 : mem'[i] = mem[i]
  PROVE  StackInv'
<1>1. /\ sp \in Nat /\ sp >= 1 /\ Sound(mem, sp) /\ Counted(mem, sp, frames, catchDepth)
      /\ frames \in Slots /\ catchDepth \in 0 .. CATCH_MAX_DEPTH
      /\ Bases(mem, frames, catchDepth) /\ rootSp = 1
  BY DEF StackInv, Typed, StackAt, Going
<1>2. sp' = sp - 1 /\ pc' = Landing(mem[sp]) /\ UNCHANGED <<frames, catchDepth, rootSp>>
  BY DEF Return, catchVars
<1>3. /\ pc' \in {"back", "loop", "word", "bareDone", "xtDone", "nestEnd"}
      /\ StackAt(pc', mem', sp', frames', catchDepth')
      /\ Bases(mem', frames', catchDepth')
  BY <1>1, <1>2, Returned
<1> QED BY <1>1, <1>2, <1>3 DEF StackInv, ThrownAt, Thrown

(* A RET always lands on a program point of the model.                      *)
LEMMA LandingIsPoint == \A c : Landing(c) \in Points
BY DEF Landing, Points

LEMMA EndOfSourceStack == ASSUME StackInv, EndOfSource PROVE StackInv'
<1>1. /\ pc \in Going /\ mem[sp].kind \in {"root", "nested"} /\ sp - 1 \in Nat
  BY DEF EndOfSource, StackInv, StackAt, Going, Under, AtWord, Ending, Typed
<1>2. /\ Return(sp, mem)
      /\ UNCHANGED <<mem, catchDepth, frames, tmp, regN, regPtr, ds, srcPtr, srcEnd,
                     reached, rootSp, nobrk, brkPend, breaks>>
  BY DEF EndOfSource, catchVars, throwVars, srcVars, brkVars
<1>3. Typed'
  BY <1>1, <1>2, LandingIsPoint DEF Return, StackInv, Typed
<1> QED BY <1>1, <1>2, <1>3, ReturnStack DEF catchVars

(* What a word finds when it runs.                                          *)
LEMMA AtWordIs ==
  ASSUME StackInv, pc \in AtWord
  PROVE  /\ pc \in Going /\ sp \in Nat /\ sp >= 1 /\ sp - 1 \in Nat
         /\ mem \in Memory /\ mem[sp].kind \in WordTop /\ Sound(mem, sp)
         /\ Counted(mem, sp, frames, catchDepth)
         /\ frames \in Slots /\ catchDepth \in 0 .. CATCH_MAX_DEPTH
         /\ rootSp = 1 /\ LevelAt(mem, sp) \in 0 .. MaxNest
         /\ sp <= GuardCell + 2 + 4 * LevelAt(mem, sp) /\ sp <= StackCells
<1>1. /\ pc \in Going /\ sp \in Nat /\ sp >= 1 /\ mem \in Memory
      /\ mem[sp].kind \in WordTop /\ Sound(mem, sp)
      /\ Counted(mem, sp, frames, catchDepth) /\ rootSp = 1
      /\ frames \in Slots /\ catchDepth \in 0 .. CATCH_MAX_DEPTH
  BY DEF StackInv, Typed, StackAt, Going, Under, AtWord, Ending
<1>2. Fits(mem, sp)
  BY <1>1 DEF Sound
<1>3. LevelAt(mem, sp) \in 0 .. MaxNest /\ sp <= StackCells
  BY <1>1, Extents DEF Texts
<1> QED BY <1>1, <1>2, <1>3 DEF Fits

(* A word's steps keep the stack.                                           *)
LEMMA WordWorkStack == ASSUME StackInv, WordWork \/ WordParses PROVE StackInv'
<1>1. /\ pc = "word" /\ pc' = "word"
      /\ UNCHANGED <<mem, sp, catchDepth, frames, tmp, regN, regPtr, rootSp,
                     nobrk, brkPend, breaks>>
  BY DEF WordWork, WordParses, catchVars, throwVars, brkVars
<1>2. Typed'
  <2>1. CASE WordWork
    <3>1. ds' \in Nat /\ UNCHANGED <<srcPtr, srcEnd, reached>>
      BY <2>1, SizesAssumption DEF WordWork, StackInv, Typed, srcVars
    <3> QED BY <1>1, <3>1 DEF StackInv, Typed
  <2>2. CASE WordParses
    <3>1. ReadWord /\ ds' = ds
      BY <2>2 DEF WordParses
    <3> QED BY <1>1, <3>1, ReadTyped DEF StackInv, Typed
  <2> QED BY <2>1, <2>2
<1> QED BY <1>1, <1>2, SamePlace DEF StackInv, Going, AtWord, catchVars

LEMMA WordReturnsStack == ASSUME StackInv, WordReturns PROVE StackInv'
<1>1. pc \in AtWord
  BY DEF WordReturns, AtWord
<1>2. /\ Return(sp, mem) /\ mem' = Forgotten(mem, sp - 1)
      /\ UNCHANGED <<catchDepth, frames, tmp, regN, regPtr, ds, srcPtr, srcEnd,
                     reached, rootSp, nobrk, brkPend, breaks>>
  BY DEF WordReturns, catchVars, throwVars, srcVars, brkVars
<1>3. mem' \in Memory /\ \A i \in 1 .. sp - 1 : mem'[i] = mem[i]
  <2>1. sp - 1 <= StackCells
    BY <1>1, AtWordIs, SizesAssumption
  <2> QED BY <1>1, <1>2, <2>1, AtWordIs, ForgottenIs
<1>4. Typed'
  BY <1>1, <1>2, <1>3, AtWordIs, LandingIsPoint DEF Return, StackInv, Typed
<1> QED BY <1>1, <1>2, <1>3, <1>4, AtWordIs, ReturnStack DEF catchVars

LEMMA WordAbortsStack == ASSUME StackInv, WordAborts PROVE StackInv'
<1>1. /\ pc = "word" /\ pc' = "report" /\ ds' \in {0, ds}
      /\ UNCHANGED <<mem, sp, catchDepth, frames, tmp, regN, regPtr, rootSp,
                     srcPtr, srcEnd, reached, nobrk, brkPend, breaks>>
  BY DEF WordAborts, catchVars, throwVars, srcVars, brkVars
<1>2. Typed'
  BY <1>1 DEF StackInv, Typed, Points
<1> QED BY <1>1, <1>2, GivesUp DEF Going, AtWord, catchVars

LEMMA ThrowsStack ==
  ASSUME StackInv, pc = "word", StackGuardThrows \/ WordThrows PROVE StackInv'
<1>1. /\ pc' = "throw" /\ regN' \in {FullCode, "n"}
      /\ UNCHANGED <<mem, sp, catchDepth, frames, tmp, regPtr, ds, rootSp,
                     srcPtr, srcEnd, reached, nobrk, brkPend, breaks>>
  BY DEF StackGuardThrows, WordThrows, catchVars, srcVars, brkVars
<1>2. Typed'
  BY <1>1 DEF StackInv, Typed, Points, Codes
<1> QED BY <1>1, <1>2, GivesUp DEF Going, AtWord, catchVars

LEMMA RecurseStack == ASSUME StackInv, Recurse PROVE StackInv'
<1>1. CASE StackGuardThrows
  BY <1>1, ThrowsStack DEF Recurse
<1>2. CASE ~ StackGuardThrows
  <2>1. /\ pc = "word" /\ StackGuardPasses /\ pc' = "word" /\ sp' = sp + 1
        /\ mem' = Forgotten(Pushed(Ret("call"), mem, sp), sp + 1)
        /\ UNCHANGED <<catchDepth, frames, tmp, regN, regPtr, ds, rootSp,
                       srcPtr, srcEnd, reached, nobrk, brkPend, breaks>>
    BY <1>2 DEF Recurse, catchVars, throwVars, srcVars, brkVars
  <2>2. pc \in AtWord
    BY <2>1 DEF AtWord
  <2>3. sp + 1 <= GuardCell + 2 + 4 * LevelAt(mem, sp) /\ sp + 1 <= StackCells
    BY <2>1, <2>2, AtWordIs, SizesAssumption, RoomAssumption DEF StackGuardPasses
  <2>4. mem' \in Memory /\ mem'[sp + 1] = Ret("call") /\ \A i \in 1 .. sp : mem'[i] = mem[i]
    <3>1. Ret("call") \in Cell
      BY CellsTyped DEF Kinds
    <3> QED BY <2>1, <2>2, <2>3, <3>1, AtWordIs, CallIs
  <2>5. mem'[sp + 1].kind = "call"
    BY <2>4 DEF Ret
  <2>6. StackAt("word", mem', sp + 1, frames, catchDepth) /\ Bases(mem', frames, catchDepth)
    BY <2>2, <2>3, <2>4, <2>5, AtWordIs, Called, BasesKept
  <2>7. Typed'
    BY <2>1, <2>2, <2>4, AtWordIs DEF StackInv, Typed
  <2> QED BY <2>1, <2>2, <2>6, <2>7, AtWordIs DEF StackInv, ThrownAt, Thrown
<1> QED BY <1>1, <1>2
-----------------------------------------------------------------------------
(* CATCH's steps keep the stack.                                            *)
LEMMA CatchStack == ASSUME StackInv, Catch PROVE StackInv'
<1>1. pc = "word" /\ pc \in AtWord /\ ds < MaxData
  BY DEF Catch, AtWord
<1>2. CASE StackGuardThrows
  BY <1>1, <1>2, ThrowsStack
<1>3. CASE ~ StackGuardThrows /\ catchDepth < CATCH_MAX_DEPTH
  <2> DEFINE m1 == Pushed(End(srcEnd), mem, sp)
  <2>1. /\ StackGuardPasses /\ pc' = "catch" /\ sp' = sp + 2
        /\ mem' = Pushed(Ptr(srcPtr), m1, sp + 1)
        /\ UNCHANGED <<catchDepth, frames, tmp, regN, regPtr, ds, rootSp,
                       srcPtr, srcEnd, reached, nobrk, brkPend, breaks>>
    <3>1. catchDepth # CATCH_MAX_DEPTH
      BY <1>1, <1>3, AtWordIs, SizesAssumption
    <3> QED BY <1>3, <3>1 DEF Catch, catchVars, throwVars, srcVars, brkVars
  <2>2. /\ sp + 1 <= GuardCell /\ sp + 2 <= Highest /\ sp + 1 <= Highest
        /\ sp + 1 <= StackCells /\ sp + 2 <= StackCells /\ sp + 2 <= GuardCell + 1
    BY <1>1, <2>1, AtWordIs, SizesAssumption, RoomAssumption
    DEF StackGuardPasses, Highest
  <2>3. m1 \in Memory /\ m1[sp + 1] = End(srcEnd) /\ \A i \in 1 .. sp : m1[i] = mem[i]
    <3>1. End(srcEnd) \in Cell
      BY CellsTyped DEF StackInv, Typed
    <3> QED BY <1>1, <2>2, <3>1, AtWordIs, PushedIs
  <2> HIDE DEF m1
  <2>4. /\ mem' \in Memory /\ mem'[sp + 2] = Ptr(srcPtr)
        /\ \A i \in 1 .. sp + 1 : mem'[i] = m1[i]
    <3>1. Ptr(srcPtr) \in Cell
      BY CellsTyped DEF StackInv, Typed
    <3>2. sp + 1 \in Nat /\ sp + 1 + 1 = sp + 2
      BY <1>1, AtWordIs
    <3>3. /\ mem' \in Memory /\ mem'[sp + 1 + 1] = Ptr(srcPtr)
          /\ \A i \in 1 .. sp + 1 : mem'[i] = m1[i]
      BY <2>1, <2>2, <2>3, <3>1, <3>2, PushedIs
    <3> QED BY <3>2, <3>3
  <2>5. /\ \A i \in 1 .. sp : mem'[i] = mem[i]
        /\ mem'[sp + 1].kind = "end" /\ mem'[sp + 2].kind = "ptr"
        /\ mem'[sp] = mem[sp]
    BY <1>1, <2>3, <2>4, AtWordIs DEF Ptr, End
  <2>6. Sound(mem', sp) /\ Counted(mem', sp, frames, catchDepth)
    BY <1>1, <2>5, AtWordIs, SameIs, SoundSame, CountedSame
  <2>7. Sound(mem', sp + 1)
    BY <1>1, <2>2, <2>5, <2>6, AtWordIs, SoundPush DEF WordTop
  <2>8. sp + 1 \in Nat /\ sp + 1 >= 1 /\ sp + 1 + 1 = sp + 2
    BY <1>1, AtWordIs
  <2>9. Sound(mem', sp + 1 + 1)
    BY <2>2, <2>5, <2>7, <2>8, SoundPush DEF WordTop
  <2>10. Counted(mem', sp + 2, frames, catchDepth)
    <3>1. Counted(mem', sp + 1, frames, catchDepth)
      BY <1>1, <2>5, <2>6, AtWordIs, CountedPush
    <3>2. Counted(mem', sp + 1 + 1, frames, catchDepth)
      BY <1>1, <2>5, <2>8, <3>1, AtWordIs, CountedPush
    <3> QED BY <2>8, <3>2
  <2>11. Typed'
    BY <1>1, <2>1, <2>4, AtWordIs DEF StackInv, Typed, Points
  <2>12. Bases(mem', frames, catchDepth)
    BY <2>5, BasesKept
  <2>13. StackAt("catch", mem', sp + 2, frames, catchDepth)
    BY <1>1, <1>3, <2>2, <2>5, <2>8, <2>9, <2>10, AtWordIs
    DEF StackAt, Going, Ending, AtWord, Under
  <2> QED BY <1>1, <2>1, <2>11, <2>12, <2>13, AtWordIs DEF StackInv, ThrownAt, Thrown
<1>4. CASE ~ StackGuardThrows /\ ~ (catchDepth < CATCH_MAX_DEPTH)
  <2>1. /\ StackGuardPasses /\ pc' = "word" /\ sp' = sp + 1
        /\ mem' = Pushed(Ret("bare"), mem, sp)
        /\ UNCHANGED <<catchDepth, frames, tmp, regN, regPtr, ds, rootSp,
                       srcPtr, srcEnd, reached, nobrk, brkPend, breaks>>
    BY <1>1, <1>4 DEF Catch, catchVars, throwVars, srcVars, brkVars
  <2>2. sp + 1 <= GuardCell + 2 + 4 * LevelAt(mem, sp) /\ sp + 1 <= StackCells
    BY <1>1, <2>1, AtWordIs, SizesAssumption, RoomAssumption DEF StackGuardPasses
  <2>3. mem' \in Memory /\ mem'[sp + 1] = Ret("bare") /\ \A i \in 1 .. sp : mem'[i] = mem[i]
    <3>1. Ret("bare") \in Cell
      BY CellsTyped DEF Kinds
    <3> QED BY <1>1, <2>1, <2>2, <3>1, AtWordIs, PushedIs
  <2>4. mem'[sp + 1].kind = "bare"
    BY <2>3 DEF Ret
  <2>5. StackAt("word", mem', sp + 1, frames, catchDepth) /\ Bases(mem', frames, catchDepth)
    BY <1>1, <2>2, <2>3, <2>4, AtWordIs, Called, BasesKept
  <2>6. Typed'
    BY <1>1, <2>1, <2>3, AtWordIs DEF StackInv, Typed, Points
  <2> QED BY <1>1, <2>1, <2>5, <2>6, AtWordIs DEF StackInv, ThrownAt, Thrown
<1> QED BY <1>2, <1>3, <1>4

LEMMA CatchFrameStack == ASSUME StackInv, CatchFrame PROVE StackInv'
<1> DEFINE n == catchDepth + 1
<1>1. /\ pc = "catch" /\ sp \in Nat /\ sp >= 1 /\ Sound(mem, sp)
      /\ mem[sp].kind = "ptr" /\ Counted(mem, sp, frames, catchDepth)
      /\ frames \in Slots /\ catchDepth \in 0 .. CATCH_MAX_DEPTH
      /\ catchDepth < CATCH_MAX_DEPTH /\ sp <= GuardCell + 1 /\ ds < MaxData
      /\ ds \in Nat /\ rootSp = 1 /\ Bases(mem, frames, catchDepth)
  BY DEF CatchFrame, StackInv, Typed, StackAt, Going, Under, AtWord, Ending
<1>2. n \in 1 .. CATCH_MAX_DEPTH /\ n - 1 = catchDepth
  BY <1>1, SizesAssumption
<1>3. [sp |-> sp, ds |-> ds] \in Frame
  BY <1>1, SizesAssumption, RoomAssumption DEF Frame, DataDepths
<1>4. /\ frames' \in Slots /\ frames'[n] = [sp |-> sp, ds |-> ds]
      /\ \A k \in 1 .. catchDepth : frames'[k] = frames[k]
  BY <1>1, <1>2, <1>3 DEF CatchFrame, Slots
<1>5. Counted(mem, sp, frames', catchDepth)
  <2>1. Same(mem, mem, sp)
    BY <1>1, SameIs
  <2> QED BY <1>1, <1>4, <2>1, CountedSame
<1>6. /\ mem[sp - 1].kind = "end" /\ mem[sp - 2].kind \in WordTop /\ sp >= 3
      /\ sp - 2 \in Nat
  <2>1. Fits(mem, sp) /\ sp # 1 /\ mem[sp - 1].kind = "end"
    BY <1>1 DEF Sound, Fits
  <2>2. sp - 1 \in 1 .. sp /\ sp - 1 - 1 = sp - 2
    BY <1>1, <2>1
  <2>3. Fits(mem, sp - 1)
    BY <1>1, <2>2 DEF Sound
  <2>4. sp - 1 # 1 /\ mem[sp - 1 - 1].kind \in WordTop
    BY <2>1, <2>3 DEF Fits
  <2> QED BY <1>1, <2>1, <2>2, <2>4
<1>7. Counted(mem, sp - 2, frames, catchDepth)
  <2>1. mem[sp].kind # "xt" /\ mem[sp - 1].kind # "xt"
    BY <1>1, <1>6
  <2>2. Counted(mem, sp - 1, frames, catchDepth)
    BY <1>1, <2>1, CountedPop
  <2>3. sp - 1 \in Nat /\ sp - 1 >= 1 /\ sp - 1 - 1 = sp - 2
    BY <1>1, <1>6
  <2>4. Counted(mem, sp - 1 - 1, frames, catchDepth)
    BY <1>1, <2>1, <2>2, <2>3, CountedPop
  <2> QED BY <2>3, <2>4
<1>8. Base(mem, frames'[n], frames, catchDepth)
  BY <1>1, <1>4, <1>6, <1>7, SoundBelow DEF Base
<1>9. Bases(mem, frames', n)
  <2> SUFFICES ASSUME NEW k \in 1 .. n PROVE Base(mem, frames'[k], frames', k - 1)
    BY DEF Bases
  <2>1. k - 1 \in 0 .. CATCH_MAX_DEPTH /\ \A j \in 1 .. k - 1 : frames'[j] = frames[j]
    <3>1. k \in Int /\ 1 <= k /\ k <= catchDepth + 1
      BY <1>1
    <3>2. \A j \in 1 .. k - 1 : j \in 1 .. catchDepth
      BY <1>1, <3>1
    <3>3. k - 1 \in 0 .. CATCH_MAX_DEPTH
      BY <1>1, <3>1, SizesAssumption
    <3> QED BY <1>4, <3>2, <3>3
  <2>2. Base(mem, frames'[k], frames, k - 1)
    <3>1. CASE k = n
      BY <1>2, <1>8, <3>1
    <3>2. CASE k # n
      <4>1. k \in 1 .. catchDepth
        BY <1>1, <3>2
      <4> QED BY <1>1, <1>4, <4>1 DEF Bases
    <3> QED BY <3>1, <3>2
  <2>3. frames'[k] \in Frame
    BY <1>2, <1>4, SizesAssumption DEF Slots
  <2>4. frames'[k].sp - 2 \in Nat
    BY <2>2, <2>3, SizesAssumption DEF Base, Frame
  <2>5. Same(mem, mem, frames'[k].sp - 2)
    BY <2>4, SameIs
  <2> QED BY <1>1, <2>1, <2>2, <2>3, <2>4, <2>5, BaseSame
<1>10. Typed'
  BY <1>2, <1>4, SizesAssumption
  DEF CatchFrame, StackInv, Typed, Points, throwVars, srcVars, brkVars
<1>11. /\ pc' = "catchGo" /\ catchDepth' = n /\ UNCHANGED <<mem, sp, rootSp>>
  BY DEF CatchFrame
<1>12. StackAt("catchGo", mem, sp, frames', n)
  <2>1. frames'[n].sp = sp + Popped("catchGo")
    BY <1>1, <1>4 DEF Popped
  <2> QED BY <1>1, <1>2, <1>5, <2>1 DEF StackAt, Going, Ending, AtWord, Under
<1> QED BY <1>1, <1>9, <1>10, <1>11, <1>12 DEF StackInv, ThrownAt, Thrown

\* Between the counting and the uncounting of a frame.
LEMMA EndingIs ==
  ASSUME StackInv, pc \in Ending
  PROVE  /\ sp \in Nat /\ sp >= 1 /\ sp - 1 \in Nat /\ mem \in Memory
         /\ Sound(mem, sp) /\ Fits(mem, sp) /\ mem[sp].kind \in Under(pc)
         /\ catchDepth \in 1 .. CATCH_MAX_DEPTH
         /\ catchDepth - 1 \in 0 .. CATCH_MAX_DEPTH
         /\ Counted(mem, sp, frames, catchDepth - 1)
         /\ frames \in Slots /\ frames[catchDepth].sp = sp + Popped(pc)
         /\ Bases(mem, frames, catchDepth)
         /\ rootSp = 1 /\ LevelAt(mem, sp) \in 0 .. MaxNest /\ sp <= StackCells
<1>1. /\ sp \in Nat /\ sp >= 1 /\ mem \in Memory /\ Sound(mem, sp)
      /\ mem[sp].kind \in Under(pc) /\ catchDepth \in 0 .. CATCH_MAX_DEPTH
      /\ catchDepth >= 1 /\ Counted(mem, sp, frames, catchDepth - 1)
      /\ frames \in Slots /\ frames[catchDepth].sp = sp + Popped(pc)
      /\ Bases(mem, frames, catchDepth) /\ rootSp = 1
  BY DEF StackInv, Typed, StackAt, Ending
<1>2. Fits(mem, sp)
  BY <1>1 DEF Sound
<1>3. catchDepth \in 1 .. CATCH_MAX_DEPTH /\ catchDepth - 1 \in 0 .. CATCH_MAX_DEPTH
  BY <1>1, SizesAssumption
<1>4. LevelAt(mem, sp) \in 0 .. MaxNest /\ sp <= StackCells
  BY <1>1, Extents DEF Texts
<1> QED BY <1>1, <1>2, <1>3, <1>4

(* CATCH's end keeps the stack, frame by frame.                             *)
LEMMA CatchRunsXtStack == ASSUME StackInv, CatchRunsXt PROVE StackInv'
<1>1. /\ pc = "catchGo" /\ pc \in Ending /\ pc' = "word" /\ sp' = sp + 1
      /\ mem' = Pushed(Ret("xt"), mem, sp)
      /\ UNCHANGED <<catchDepth, frames, tmp, regN, regPtr, ds, rootSp,
                     srcPtr, srcEnd, reached, nobrk, brkPend, breaks>>
  BY DEF CatchRunsXt, Ending, catchVars, throwVars, srcVars, brkVars
<1>2. /\ sp <= GuardCell + 1 /\ frames[catchDepth].sp = sp /\ mem[sp].kind = "ptr"
      /\ sp \in Nat /\ sp + 1 \in Nat
  BY <1>1, EndingIs DEF StackInv, StackAt, Popped, Under, AtWord
<1>3. /\ sp + 1 <= Highest /\ sp + 1 <= StackCells
      /\ sp + 1 <= GuardCell + 2 + 4 * LevelAt(mem, sp)
  BY <1>1, <1>2, EndingIs, SizesAssumption, RoomAssumption DEF Highest
<1>4. mem' \in Memory /\ mem'[sp + 1] = Ret("xt") /\ \A i \in 1 .. sp : mem'[i] = mem[i]
  <2>1. Ret("xt") \in Cell
    BY CellsTyped DEF Kinds
  <2> QED BY <1>1, <1>3, <2>1, EndingIs, PushedIs
<1>5. mem'[sp + 1].kind = "xt" /\ mem'[sp] = mem[sp]
  BY <1>1, <1>4, EndingIs DEF Ret
<1>6. /\ Sound(mem', sp) /\ Counted(mem', sp, frames, catchDepth - 1)
      /\ LevelAt(mem', sp) = LevelAt(mem, sp)
  <2>1. Same(mem, mem', sp)
    BY <1>2, <1>4, SameIs
  <2>2. Sound(mem', sp) /\ LevelAt(mem', sp) = LevelAt(mem, sp)
    BY <1>1, <2>1, EndingIs, SoundSame, LevelAtSame
  <2>3. Counted(mem', sp, frames, catchDepth - 1)
    BY <1>1, <2>1, EndingIs, CountedSame
  <2> QED BY <2>2, <2>3
<1>7. Sound(mem', sp + 1)
  BY <1>1, <1>2, <1>3, <1>5, <1>6, EndingIs, SoundPush DEF WordTop
<1>8. Counted(mem', sp + 1, frames, catchDepth)
  BY <1>1, <1>2, <1>5, <1>6, EndingIs, CountedPushXt
<1>9. Typed'
  BY <1>1, <1>2, <1>4 DEF StackInv, Typed, Points
<1>10. Bases(mem', frames, catchDepth)
  BY <1>4, BasesKept
<1>11. StackAt("word", mem', sp + 1, frames, catchDepth)
  BY <1>2, <1>5, <1>7, <1>8 DEF StackAt, Going, Ending, AtWord, Under, WordTop
<1> QED BY <1>1, <1>9, <1>10, <1>11, EndingIs DEF StackInv, ThrownAt, Thrown

LEMMA CatchPopsStack == ASSUME StackInv, CatchPops PROVE StackInv'
<1>1. /\ pc \in {"xtDone", "xtPop"} /\ pc \in Ending /\ sp' = sp - 1
      /\ pc' = IF pc = "xtDone" THEN "xtPop" ELSE "xtPopped"
      /\ UNCHANGED <<mem, catchDepth, frames, tmp, regN, regPtr, ds, rootSp,
                     srcPtr, srcEnd, reached, nobrk, brkPend, breaks>>
  BY DEF CatchPops, Ending, catchVars, throwVars, srcVars, brkVars
<1>2. /\ mem[sp].kind = IF pc = "xtDone" THEN "ptr" ELSE "end"
      /\ mem[sp - 1].kind \in Under(pc') /\ sp - 1 >= 1
  <2>1. mem[sp].kind = IF pc = "xtDone" THEN "ptr" ELSE "end"
    BY <1>1, EndingIs DEF Under, AtWord
  <2>2. mem[sp - 1].kind \in IF pc = "xtDone" THEN {"end"} ELSE WordTop
    BY <1>1, <2>1, EndingIs DEF Fits
  <2>3. sp # 1
    BY <1>1, <2>1, EndingIs DEF Fits
  <2>4. Under("xtPop") = {"end"} /\ Under("xtPopped") = WordTop
    BY DEF Under
  <2> QED BY <1>1, <2>1, <2>2, <2>3, <2>4, EndingIs
<1>3. Sound(mem, sp - 1) /\ Counted(mem, sp - 1, frames, catchDepth - 1)
  <2>1. mem[sp].kind # "xt"
    BY <1>2
  <2>2. Sound(mem, sp - 1)
    BY <1>1, EndingIs, SoundBelow
  <2>3. Counted(mem, sp - 1, frames, catchDepth - 1)
    BY <1>1, <2>1, EndingIs, CountedPop
  <2> QED BY <2>2, <2>3
<1>4. frames[catchDepth].sp = sp - 1 + Popped(pc')
  BY <1>1, EndingIs DEF Popped
<1>5. Typed'
  BY <1>1, EndingIs DEF StackInv, Typed, Points
<1>6. StackAt(pc', mem', sp', frames', catchDepth')
  <2>1. pc' \in Ending /\ pc' \notin Going /\ pc' \in {"xtPop", "xtPopped"}
    BY <1>1 DEF Ending, Going, AtWord
  <2> QED BY <1>1, <1>2, <1>3, <1>4, <2>1, EndingIs DEF StackAt
<1>7. Bases(mem', frames', catchDepth') /\ rootSp' = 1
  BY <1>1, EndingIs
<1>8. pc' \in {"xtPop", "xtPopped"}
  BY <1>1
<1> QED BY <1>5, <1>6, <1>7, <1>8 DEF StackInv, ThrownAt, Thrown

LEMMA CatchReturnsStack == ASSUME StackInv, CatchReturns PROVE StackInv'
<1>1. /\ pc = "xtPopped" /\ pc \in Ending /\ catchDepth' = catchDepth - 1
      /\ frames' = [frames EXCEPT ![catchDepth] = NoFrame] /\ ds' = ds + 1
      /\ mem' = Forgotten(mem, sp) /\ sp' = sp - 1 /\ pc' = Landing(mem[sp])
      /\ UNCHANGED <<tmp, regN, regPtr, rootSp,
                     srcPtr, srcEnd, reached, nobrk, brkPend, breaks>>
  BY DEF CatchReturns, Released, Return, Ending, catchVars, throwVars, srcVars, brkVars
<1>2. mem[sp].kind \in WordTop
  BY <1>1, EndingIs DEF Under, AtWord
<1>3. mem' \in Memory /\ \A i \in 1 .. sp - 1 : mem'[i] = mem[i]
  <2>1. mem' \in Memory /\ \A i \in 1 .. sp : mem'[i] = mem[i]
    BY <1>1, EndingIs, ForgottenIs
  <2>2. \A i \in 1 .. sp - 1 : i \in 1 .. sp
    BY <1>1, EndingIs
  <2> QED BY <2>1, <2>2
<1>4. frames' \in Slots /\ \A k \in 1 .. catchDepth - 1 : frames'[k] = frames[k]
  <2>1. NoFrame \in Frame
    BY SizesAssumption DEF NoFrame, Frame, DataDepths
  <2>2. catchDepth \in Int
    BY <1>1, EndingIs
  <2> QED BY <1>1, <2>1, <2>2, EndingIs, SizesAssumption DEF Slots
<1>5. Bases(mem, frames, catchDepth - 1)
  BY <1>1, EndingIs DEF Bases
<1>6. /\ pc' \in {"back", "loop", "word", "bareDone", "xtDone", "nestEnd"}
      /\ StackAt(pc', mem', sp - 1, frames', catchDepth - 1)
      /\ Bases(mem', frames', catchDepth - 1)
  BY <1>1, <1>2, <1>3, <1>4, <1>5, EndingIs, Returned
<1>7. Typed'
  BY <1>1, <1>3, <1>4, EndingIs, LandingIsPoint DEF StackInv, Typed
<1> QED BY <1>1, <1>6, <1>7, EndingIs DEF StackInv, ThrownAt, Thrown

LEMMA BareCatchReturnsStack == ASSUME StackInv, BareCatchReturns PROVE StackInv'
<1>1. pc \in AtWord
  BY DEF BareCatchReturns, AtWord
<1>2. /\ Return(sp, mem) /\ mem' = Forgotten(mem, sp) /\ ds' = ds + 1
      /\ UNCHANGED <<catchDepth, frames, tmp, regN, regPtr, srcPtr, srcEnd,
                     reached, rootSp, nobrk, brkPend, breaks>>
  BY DEF BareCatchReturns, catchVars, throwVars, srcVars, brkVars
<1>3. mem' \in Memory /\ \A i \in 1 .. sp - 1 : mem'[i] = mem[i]
  <2>1. mem' \in Memory /\ \A i \in 1 .. sp : mem'[i] = mem[i]
    BY <1>1, <1>2, AtWordIs, ForgottenIs
  <2>2. \A i \in 1 .. sp - 1 : i \in 1 .. sp
    BY <1>1, AtWordIs
  <2> QED BY <2>1, <2>2
<1>4. Typed'
  BY <1>1, <1>2, <1>3, AtWordIs, LandingIsPoint DEF Return, StackInv, Typed
<1> QED BY <1>1, <1>2, <1>3, <1>4, AtWordIs, ReturnStack DEF catchVars
-----------------------------------------------------------------------------
(* THROW's steps keep the stack.                                            *)
LEMMA UncaughtStack == ASSUME StackInv, Uncaught PROVE StackInv'
<1>1. /\ pc = "throw" /\ catchDepth = 0 /\ rootSp = 1 /\ sp' = 1 /\ pc' = "report"
      /\ ds' = 0 /\ tmp' = NoFrame /\ regN' = "n" /\ regPtr' = 0
      /\ UNCHANGED <<mem, catchDepth, frames, rootSp, srcPtr, srcEnd, reached,
                     nobrk, brkPend, breaks>>
  BY DEF Uncaught, ScratchDone, StackInv, catchVars, srcVars, brkVars
<1>2. mem[1].kind \in {"root", "isr"} /\ 1 <= Highest + 2 * breaks
  BY <1>1, SizesAssumption DEF StackInv, Typed, ThrownAt, Thrown, Highest
<1>3. Typed'
  <2>1. NoFrame \in Frame /\ 0 \in Addresses
    BY SizesAssumption, JunkIsNat DEF NoFrame, Frame, DataDepths, Addresses
  <2> QED BY <1>1, <2>1 DEF StackInv, Typed, Points, Codes
<1> QED BY <1>1, <1>2, <1>3
        DEF StackInv, Bases, StackAt, ThrownAt, Going, Ending, AtWord, Thrown

LEMMA TakeFrameStack == ASSUME StackInv, TakeFrame PROVE StackInv'
<1>1. /\ pc = "throw" /\ catchDepth > 0 /\ catchDepth' = catchDepth - 1
      /\ tmp' = frames[catchDepth] /\ pc' = "unwind"
      /\ frames' = [frames EXCEPT ![catchDepth] = NoFrame]
      /\ UNCHANGED <<mem, sp, regN, regPtr, ds, rootSp, srcPtr, srcEnd, reached,
                     nobrk, brkPend, breaks>>
  BY DEF TakeFrame, Released, srcVars, brkVars
<1>2. /\ catchDepth \in 1 .. CATCH_MAX_DEPTH /\ catchDepth \in 1 .. catchDepth
      /\ catchDepth - 1 \in 0 .. CATCH_MAX_DEPTH /\ frames \in Slots
      /\ Bases(mem, frames, catchDepth) /\ sp \in Nat /\ rootSp = 1
  BY <1>1, SizesAssumption DEF StackInv, Typed
<1>3. /\ sp <= Highest + 2 * breaks /\ mem[1].kind \in {"root", "isr"}
      /\ \A k \in 1 .. catchDepth : frames[k].sp <= sp
  BY <1>1 DEF StackInv, ThrownAt, Thrown
<1>4. frames' \in Slots /\ \A k \in 1 .. catchDepth - 1 : frames'[k] = frames[k]
  <2>1. NoFrame \in Frame
    BY SizesAssumption DEF NoFrame, Frame, DataDepths
  <2> QED BY <1>1, <1>2, <2>1, SizesAssumption DEF Slots
<1>5. tmp' \in Frame /\ tmp'.sp - 2 \in Nat /\ tmp'.sp <= sp
  <2>1. tmp' \in Frame
    BY <1>1, <1>2 DEF Slots
  <2>2. Base(mem, tmp', frames, catchDepth - 1)
    BY <1>1, <1>2 DEF Bases
  <2> QED BY <1>1, <1>2, <1>3, <2>1, <2>2, SizesAssumption DEF Base, Frame
<1>6. Base(mem, tmp', frames', catchDepth - 1)
  <2>1. Base(mem, tmp', frames, catchDepth - 1)
    BY <1>1, <1>2 DEF Bases
  <2>2. Same(mem, mem, tmp'.sp - 2)
    BY <1>5, SameIs
  <2> QED BY <1>2, <1>4, <1>5, <2>1, <2>2, BaseSame
<1>7. Bases(mem, frames', catchDepth - 1)
  <2>1. Bases(mem, frames, catchDepth - 1)
    BY <1>2 DEF Bases
  <2>2. \A k \in 1 .. catchDepth - 1 : frames[k].sp - 2 <= sp
    <3>1. \A k \in 1 .. catchDepth - 1 : frames[k] \in Frame /\ frames[k].sp <= sp
      BY <1>2, <1>3, SizesAssumption DEF Slots
    <3> QED BY <1>2, <3>1, SizesAssumption DEF Frame
  <2>3. Same(mem, mem, sp)
    BY <1>2, SameIs
  <2> QED BY <1>2, <1>4, <2>1, <2>2, <2>3, BasesSame
<1>8. Typed'
  BY <1>1, <1>2, <1>4, <1>5 DEF StackInv, Typed, Points
<1>9. \A k \in 1 .. catchDepth - 1 : frames'[k].sp <= sp
  BY <1>2, <1>3, <1>4
<1> QED BY <1>1, <1>2, <1>3, <1>5, <1>6, <1>7, <1>8, <1>9
        DEF StackInv, StackAt, ThrownAt, Going, Ending, AtWord, Thrown

LEMMA UnwindStack == ASSUME StackInv, Unwind PROVE StackInv'
<1>1. /\ pc = "unwind" /\ sp' = tmp.sp /\ ds' = tmp.ds /\ pc' = "restore"
      /\ UNCHANGED <<mem, catchDepth, frames, tmp, regN, regPtr, rootSp,
                     srcPtr, srcEnd, reached, nobrk, brkPend, breaks>>
  BY DEF Unwind, catchVars, throwVars, srcVars, brkVars
<1>2. /\ Base(mem, tmp, frames, catchDepth) /\ tmp.sp <= sp
      /\ sp <= Highest + 2 * breaks /\ mem[1].kind \in {"root", "isr"}
  BY <1>1 DEF StackInv, ThrownAt, Thrown
<1>3. /\ tmp.sp \in Nat /\ tmp.ds \in Nat /\ tmp.sp >= 3 /\ sp \in Nat
      /\ breaks \in Nat /\ Highest \in Nat
  BY <1>2, Extents, SizesAssumption DEF StackInv, Typed, Frame, DataDepths, Base
<1>4. \A k \in 1 .. catchDepth : frames[k].sp <= tmp.sp
  <2>1. \A k \in 1 .. catchDepth : frames[k].sp \in Nat
    BY Extents
  <2> QED BY <1>2, <1>3, <2>1 DEF Base, Counted
<1>5. Typed'
  BY <1>1, <1>3 DEF StackInv, Typed, Points
<1>6. tmp.sp <= Highest + 2 * breaks
  BY <1>2, <1>3
<1> QED BY <1>1, <1>2, <1>3, <1>4, <1>5, <1>6
        DEF StackInv, StackAt, ThrownAt, Going, Ending, AtWord, Thrown

LEMMA RestoreSourceStack == ASSUME StackInv, RestoreSource PROVE StackInv'
<1>1. /\ pc = "restore"
      /\ UNCHANGED <<catchDepth, frames, rootSp, nobrk, brkPend, breaks>>
  BY DEF RestoreSource, catchVars, brkVars
<1>2. /\ Base(mem, tmp, frames, catchDepth) /\ tmp.sp = sp /\ sp \in Nat
      /\ frames \in Slots /\ catchDepth \in 0 .. CATCH_MAX_DEPTH
      /\ mem \in Memory /\ Bases(mem, frames, catchDepth) /\ rootSp = 1 /\ ds \in Nat
      /\ sp <= StackCells
  BY <1>1, Extents DEF StackInv, Typed, ThrownAt
<1> DEFINE b == sp - 2
<1>3. /\ sp >= 3 /\ b \in Nat /\ b >= 1 /\ Sound(mem, b)
      /\ mem[b].kind \in WordTop /\ Counted(mem, b, frames, catchDepth)
      /\ b <= StackCells /\ b - 1 \in Nat
  BY <1>2, SizesAssumption DEF Base
<1>4. CASE mem[sp - 1].val = srcEnd
  <2>1. /\ ds' = ds + 1 /\ mem' = Forgotten(mem, b) /\ sp' = b - 1
        /\ pc' = Landing(mem[b]) /\ tmp' = NoFrame /\ regN' = "n" /\ regPtr' = 0
        /\ UNCHANGED <<srcPtr, srcEnd, reached>>
    BY <1>4 DEF RestoreSource, Caught, Return, ScratchDone, srcVars
  <2> HIDE DEF b
  <2>2. mem' \in Memory /\ \A i \in 1 .. b - 1 : mem'[i] = mem[i]
    <3>1. mem' \in Memory /\ \A i \in 1 .. b : mem'[i] = mem[i]
      BY <1>2, <1>3, <2>1, ForgottenIs
    <3>2. \A i \in 1 .. b - 1 : i \in 1 .. b
      BY <1>3
    <3> QED BY <3>1, <3>2
  <2>3. /\ pc' \in {"back", "loop", "word", "bareDone", "xtDone", "nestEnd"}
        /\ StackAt(pc', mem', b - 1, frames, catchDepth)
        /\ Bases(mem', frames, catchDepth)
    BY <1>2, <1>3, <2>1, <2>2, Returned
  <2>4. Typed'
    <3>1. NoFrame \in Frame /\ 0 \in Addresses
      BY SizesAssumption, JunkIsNat DEF NoFrame, Frame, DataDepths, Addresses
    <3> QED BY <1>1, <1>2, <1>3, <2>1, <2>2, <3>1, LandingIsPoint
            DEF StackInv, Typed, Codes
  <2> QED BY <1>1, <1>2, <2>1, <2>3, <2>4 DEF StackInv, ThrownAt, Thrown
<1>5. CASE mem[sp - 1].val # srcEnd
  <2>1. /\ srcEnd' = mem[sp - 1].val /\ regPtr' = mem[sp].val /\ sp' = b
        /\ pc' = "restorePtr" /\ UNCHANGED <<mem, ds, tmp, regN, srcPtr, reached>>
    BY <1>5 DEF RestoreSource
  <2>2. mem[sp - 1].val \in Addresses /\ mem[sp].val \in Addresses
    <3>1. sp - 1 \in 1 .. StackCells /\ sp \in 1 .. StackCells
      BY <1>2, <1>3, SizesAssumption
    <3> QED BY <1>2, <3>1 DEF Memory, Cell
  <2>3. Typed'
    BY <1>1, <1>3, <2>1, <2>2 DEF StackInv, Typed, Points
  <2> HIDE DEF b
  <2>4. StackAt("restorePtr", mem, b, frames, catchDepth)
    BY <1>3 DEF StackAt, Going, Ending, AtWord, Under
  <2> QED BY <1>1, <1>2, <2>1, <2>3, <2>4 DEF StackInv, ThrownAt, Thrown
<1> QED BY <1>4, <1>5

LEMMA RestorePtrStack == ASSUME StackInv, RestorePtr PROVE StackInv'
<1>1. pc \in AtWord
  BY DEF RestorePtr, AtWord
<1>2. /\ Return(sp, mem) /\ mem' = Forgotten(mem, sp) /\ ds' = ds + 1
      /\ srcPtr' = regPtr /\ tmp' = NoFrame /\ regN' = "n" /\ regPtr' = 0
      /\ UNCHANGED <<catchDepth, frames, srcEnd, reached, rootSp, nobrk, brkPend, breaks>>
  BY DEF RestorePtr, Caught, ScratchDone, catchVars, brkVars
<1>3. mem' \in Memory /\ \A i \in 1 .. sp - 1 : mem'[i] = mem[i]
  <2>1. mem' \in Memory /\ \A i \in 1 .. sp : mem'[i] = mem[i]
    BY <1>1, <1>2, AtWordIs, ForgottenIs
  <2>2. \A i \in 1 .. sp - 1 : i \in 1 .. sp
    BY <1>1, AtWordIs
  <2> QED BY <2>1, <2>2
<1>4. Typed'
  <2>1. NoFrame \in Frame /\ 0 \in Addresses
    BY SizesAssumption, JunkIsNat DEF NoFrame, Frame, DataDepths, Addresses
  <2> QED BY <1>1, <1>2, <1>3, <2>1, AtWordIs, LandingIsPoint
          DEF Return, StackInv, Typed, Codes
<1> QED BY <1>1, <1>2, <1>3, <1>4, AtWordIs, ReturnStack DEF catchVars
-----------------------------------------------------------------------------
(* The level of the model is the level of the proof.                        *)
LEMMA LevelIs == Level = LevelAt(mem, sp)
BY DEF Level, LevelAt

\* The positions the frames note are cells CATCH kept SRC_PTR in.
LEMMA NotedAre ==
  ASSUME StackInv, pc \in AtWord, NEW k \in 1 .. catchDepth
  PROVE  /\ frames[k].sp \in 1 .. sp - 1 /\ frames[k].sp >= 3
         /\ mem[frames[k].sp].kind = "ptr" /\ mem[frames[k].sp + 1].kind = "xt"
<1>1. frames[k].sp \in Nat /\ frames[k].sp >= 3 /\ frames[k].sp + 1 <= sp
  BY Extents, AtWordIs
<1>2. mem[frames[k].sp + 1].kind = "xt"
  BY AtWordIs DEF Counted
<1>3. PICK j \in 1 .. sp : j = frames[k].sp + 1 /\ j - 1 = frames[k].sp
  BY <1>1, AtWordIs
<1>4. Fits(mem, j)
  BY <1>3, AtWordIs DEF Sound
<1>5. mem[j - 1].kind = "ptr"
  BY <1>2, <1>3, <1>4 DEF Fits
<1> QED BY <1>1, <1>2, <1>3, <1>5, AtWordIs

\* What LOAD-TEXT and EDIT push: the source to go back to, and their call.
LEMMA SourceKeptIs ==
  ASSUME StackInv, pc \in {"word", "edit"}, NEW p \in Addresses,
         LevelAt(mem, sp) < MaxNest, NEW m2,
         m2 = Pushed(NestedCall(Level + 1), SourceKept(p), sp + 2)
  PROVE  /\ m2 \in Memory /\ Same(mem, m2, sp)
         /\ m2[sp + 1] = End(srcEnd) /\ m2[sp + 2] = Ptr(p)
         /\ m2[sp + 3].kind = "nested" /\ m2[sp + 3].val = LevelAt(mem, sp) + 1
         /\ \A i \in 1 .. sp : m2[i] = SourceNoted(mem, p)[i]
         /\ sp + 3 <= GuardCell + 5 + 4 * LevelAt(mem, sp)
         /\ sp + 3 <= Highest /\ sp + 3 <= StackCells
<1> DEFINE m0 == SourceNoted(mem, p)
           m1 == Pushed(End(srcEnd), m0, sp)
           m3 == Pushed(Ptr(p), m1, sp + 1)
<1>1. /\ pc \in AtWord /\ mem \in Memory /\ sp \in Nat /\ srcEnd \in Addresses
      /\ LevelAt(mem, sp) \in 0 .. MaxNest
      /\ sp <= GuardCell + 2 + 4 * LevelAt(mem, sp)
  BY AtWordIs DEF AtWord, StackInv, Typed
<1>2. /\ sp + 3 <= GuardCell + 5 + 4 * LevelAt(mem, sp)
      /\ sp + 3 <= Highest /\ sp + 3 <= StackCells
      /\ sp + 1 <= StackCells /\ sp + 1 + 1 <= StackCells /\ sp + 2 + 1 <= StackCells
  BY <1>1, SizesAssumption, RoomAssumption DEF Highest
<1>3. /\ End(srcEnd) \in Cell /\ Ptr(p) \in Cell /\ NestedCall(Level + 1) \in Cell
      /\ NestedCall(Level + 1).kind = "nested"
      /\ NestedCall(Level + 1).val = LevelAt(mem, sp) + 1
  <2>1. Level + 1 \in Texts /\ Level + 1 \in Addresses /\ Level = LevelAt(mem, sp)
    BY <1>1, LevelIs, TextsAreAddresses, SizesAssumption DEF Texts
  <2> QED BY <1>1, <2>1, CellsTyped DEF NestedCall, Cell, Kinds
<1>4. m0 \in Memory /\ Same(mem, m0, sp)
  <2>1. DOMAIN mem = 1 .. StackCells
    BY <1>1 DEF Memory
  <2>2. m0 \in Memory
    BY <1>1, <1>3, <2>1 DEF SourceNoted, Memory
  <2>3. ASSUME NEW i \in 1 .. sp
        PROVE  /\ m0[i].kind = mem[i].kind
               /\ mem[i].kind = "nested" => m0[i].val = mem[i].val
    <3>1. i \in DOMAIN mem
      BY <1>1, <1>2, <2>1, SizesAssumption
    <3>2. m0[i] = mem[i] \/ (m0[i] = Ptr(p) /\ i \in {frames[k].sp : k \in 1 .. catchDepth})
      BY <3>1 DEF SourceNoted
    <3>3. i \in {frames[k].sp : k \in 1 .. catchDepth} => mem[i].kind = "ptr"
      BY <1>1, NotedAre
    <3> QED BY <3>2, <3>3 DEF Ptr
  <2> QED BY <2>2, <2>3 DEF Same
<1> HIDE DEF m0
<1>5. m1 \in Memory /\ m1[sp + 1] = End(srcEnd) /\ \A i \in 1 .. sp : m1[i] = m0[i]
  BY <1>1, <1>2, <1>3, <1>4, PushedIs
<1> HIDE DEF m1
<1>6. /\ m3 \in Memory /\ m3[sp + 1 + 1] = Ptr(p)
      /\ \A i \in 1 .. sp + 1 : m3[i] = m1[i]
  BY <1>1, <1>2, <1>3, <1>5, PushedIs
<1>7. m2 = Pushed(NestedCall(Level + 1), m3, sp + 2)
  BY DEF SourceKept, m0, m1, m3
<1> HIDE DEF m3
<1>8. /\ m2 \in Memory /\ m2[sp + 2 + 1] = NestedCall(Level + 1)
      /\ \A i \in 1 .. sp + 2 : m2[i] = m3[i]
  <2>1. sp + 2 \in Nat /\ m3 \in Memory
    BY <1>1, <1>6
  <2> QED BY <1>2, <1>3, <1>7, <2>1, PushedIs
<1>9. /\ sp + 1 + 1 = sp + 2 /\ sp + 2 + 1 = sp + 3 /\ sp + 1 \in 1 .. sp + 1
      /\ sp + 1 \in 1 .. sp + 2 /\ sp + 2 \in 1 .. sp + 2
      /\ \A i \in 1 .. sp : i \in 1 .. sp + 1 /\ i \in 1 .. sp + 2
  BY <1>1
<1>10. \A i \in 1 .. sp : m2[i] = m0[i]
  BY <1>5, <1>6, <1>8, <1>9
<1>11. m2[sp + 1] = End(srcEnd) /\ m2[sp + 2] = Ptr(p)
  BY <1>5, <1>6, <1>8, <1>9
<1>12. Same(mem, m2, sp)
  BY <1>4, <1>10 DEF Same
<1> QED BY <1>2, <1>3, <1>8, <1>9, <1>10, <1>11, <1>12 DEF m0

(* Three cells of a nested run on a word's stack: the frames under them     *)
(* stand where they stood.                                                  *)
LEMMA NestStarts ==
  ASSUME StackInv, pc \in {"word", "edit"}, NEW p \in Addresses,
         LevelAt(mem, sp) < MaxNest, NEW m2,
         m2 = Pushed(NestedCall(Level + 1), SourceKept(p), sp + 2)
  PROVE  /\ StackAt("nest", m2, sp + 3, frames, catchDepth)
         /\ Bases(m2, frames, catchDepth) /\ m2 \in Memory
         /\ LevelAt(m2, sp + 3) = LevelAt(mem, sp) + 1
         /\ LevelAt(m2, sp + 2) = LevelAt(mem, sp)
         /\ LevelAt(m2, sp) = LevelAt(mem, sp)
<1>1. /\ m2 \in Memory /\ Same(mem, m2, sp)
      /\ m2[sp + 1] = End(srcEnd) /\ m2[sp + 2] = Ptr(p)
      /\ m2[sp + 3].kind = "nested" /\ m2[sp + 3].val = LevelAt(mem, sp) + 1
      /\ sp + 3 <= GuardCell + 5 + 4 * LevelAt(mem, sp)
      /\ sp + 3 <= Highest /\ sp + 3 <= StackCells
  BY SourceKeptIs
<1>2. /\ pc \in AtWord /\ sp \in Nat /\ sp >= 1 /\ Sound(mem, sp)
      /\ mem[sp].kind \in WordTop /\ Counted(mem, sp, frames, catchDepth)
      /\ frames \in Slots /\ catchDepth \in 0 .. CATCH_MAX_DEPTH
      /\ LevelAt(mem, sp) \in 0 .. MaxNest
  BY AtWordIs DEF AtWord
<1>3. /\ Sound(m2, sp) /\ Counted(m2, sp, frames, catchDepth)
      /\ LevelAt(m2, sp) = LevelAt(mem, sp) /\ m2[sp].kind = mem[sp].kind
  <2>1. Sound(m2, sp) /\ LevelAt(m2, sp) = LevelAt(mem, sp)
    BY <1>1, <1>2, SoundSame, LevelAtSame
  <2>2. Counted(m2, sp, frames, catchDepth)
    BY <1>1, <1>2, CountedSame
  <2>3. m2[sp].kind = mem[sp].kind
    BY <1>1, <1>2 DEF Same
  <2> QED BY <2>1, <2>2, <2>3
<1>4. m2[sp + 1].kind = "end" /\ m2[sp + 2].kind = "ptr"
  BY <1>1 DEF End, Ptr
<1>5. /\ sp + 1 \in Nat /\ sp + 1 >= 1 /\ sp + 2 \in Nat /\ sp + 2 >= 1
      /\ sp + 1 + 1 = sp + 2 /\ sp + 2 + 1 = sp + 3
      /\ sp + 1 <= Highest /\ sp + 2 <= Highest
  BY <1>1, <1>2, Extents
<1>6. Sound(m2, sp + 1) /\ LevelAt(m2, sp + 1) = LevelAt(mem, sp)
  BY <1>2, <1>3, <1>4, <1>5, SoundPush DEF WordTop
<1>7. Sound(m2, sp + 1 + 1) /\ LevelAt(m2, sp + 1 + 1) = LevelAt(mem, sp)
  BY <1>4, <1>5, <1>6, SoundPush DEF WordTop
<1>8. Sound(m2, sp + 2 + 1) /\ LevelAt(m2, sp + 2 + 1) = LevelAt(mem, sp) + 1
  <2>1. Sound(m2, sp + 2) /\ LevelAt(m2, sp + 2) = LevelAt(mem, sp)
    BY <1>5, <1>7
  <2>2. sp + 2 + 1 <= GuardCell + 5 + 4 * LevelAt(m2, sp + 2)
    BY <1>1, <1>5, <2>1
  <2>3. m2[sp + 2 + 1].kind = "nested" /\ m2[sp + 2 + 1].val = LevelAt(m2, sp + 2) + 1
    BY <1>1, <1>5, <2>1
  <2> QED BY <1>4, <1>5, <2>1, <2>2, <2>3, SoundPushNested
<1>9. Counted(m2, sp + 3, frames, catchDepth)
  <2>1. Counted(m2, sp + 1, frames, catchDepth)
    BY <1>2, <1>3, <1>4, CountedPush
  <2>2. Counted(m2, sp + 1 + 1, frames, catchDepth)
    BY <1>2, <1>4, <1>5, <2>1, CountedPush
  <2>3. Counted(m2, sp + 2 + 1, frames, catchDepth)
    BY <1>1, <1>2, <1>5, <2>2, CountedPush
  <2> QED BY <1>5, <2>3
<1>10. Bases(m2, frames, catchDepth)
  <2>1. \A k \in 1 .. catchDepth : frames[k].sp - 2 <= sp
    BY <1>2, Extents
  <2> QED BY <1>1, <1>2, <2>1, BasesSame DEF StackInv
<1>11. StackAt("nest", m2, sp + 3, frames, catchDepth)
  BY <1>1, <1>2, <1>5, <1>8, <1>9 DEF StackAt, Going, Ending, AtWord, Under
<1> QED BY <1>1, <1>3, <1>5, <1>7, <1>8, <1>10, <1>11

(* LOAD, EDIT and the nested runs keep the stack.                           *)
LEMMA LoadTextStack == ASSUME StackInv, LoadText PROVE StackInv'
<1>1. /\ pc = "word" /\ pc \in AtWord /\ pc \in Going /\ ReadWord
      /\ UNCHANGED <<catchDepth, frames, tmp, regPtr, ds, rootSp,
                     nobrk, brkPend, breaks>>
  BY DEF LoadText, AtWord, Going, catchVars, brkVars
<1>2. /\ srcPtr' \in Addresses /\ srcEnd' \in Addresses
      /\ reached' \in [Texts -> Addresses] /\ Past(srcPtr) \in Addresses
  BY <1>1, ReadTyped DEF StackInv
<1>3. CASE pc' = "nest"
  <2>1. /\ LevelAt(mem, sp) < MaxNest /\ sp' = sp + 3 /\ regN' = regN
        /\ mem' = Pushed(NestedCall(Level + 1), SourceKept(Past(srcPtr)), sp + 2)
    BY <1>3, LevelIs DEF LoadText
  <2>2. /\ StackAt("nest", mem', sp + 3, frames, catchDepth)
        /\ Bases(mem', frames, catchDepth) /\ mem' \in Memory
    BY <1>1, <1>2, <2>1, NestStarts
  <2>3. Typed'
    BY <1>1, <1>2, <1>3, <2>1, <2>2, AtWordIs DEF StackInv, Typed, Points
  <2> QED BY <1>1, <1>3, <2>1, <2>2, <2>3, AtWordIs DEF StackInv, ThrownAt, Thrown
<1>4. CASE pc' # "nest"
  <2>1. /\ pc' \in {"throw", "stop"} /\ regN' \in {"-37", regN}
        /\ UNCHANGED <<mem, sp>>
    BY <1>4 DEF LoadText
  <2>2. Typed'
    BY <1>1, <1>2, <2>1 DEF StackInv, Typed, Points, Codes
  <2> QED BY <1>1, <2>1, <2>2, GivesUp DEF catchVars
<1> QED BY <1>3, <1>4

LEMMA EditSectionStack ==
  ASSUME StackInv, EditView \/ EditViewLeft PROVE StackInv'
<1>1. /\ pc \in AtWord \ {"restorePtr"} /\ pc' \in {"view", "viewEnd"}
      /\ UNCHANGED <<mem, sp, catchDepth, frames, tmp, regN, regPtr, ds, rootSp,
                     breaks>>
      /\ brkPend' \in {brkPend, 0}
      /\ ReadWord \/ UNCHANGED <<srcPtr, srcEnd, reached>>
  BY DEF EditView, EditViewLeft, AtWord, catchVars, throwVars, srcVars
<1>2. Typed'
  <2>1. /\ srcPtr' \in Addresses /\ srcEnd' \in Addresses
        /\ reached' \in [Texts -> Addresses]
    BY <1>1, ReadTyped DEF StackInv, Typed
  <2> QED BY <1>1, <2>1 DEF StackInv, Typed, Points
<1>3. pc \in Going /\ pc' \in Going /\ Under(pc) = Under(pc')
  BY <1>1 DEF Going, AtWord, Under
<1> QED BY <1>1, <1>2, <1>3, AtWordIs, SamePlace DEF catchVars

LEMMA EditSectionEndsStack == ASSUME StackInv, EditSectionEnds PROVE StackInv'
<1>1. /\ pc = "viewEnd" /\ pc \in AtWord /\ pc \in Going
      /\ UNCHANGED <<mem, sp, catchDepth, frames, tmp, regN, regPtr, rootSp,
                     srcPtr, srcEnd, reached, brkPend, breaks>>
      /\ pc' \in {"word", "report", "edit"} /\ ds' \in {0, ds}
      /\ pc' = "edit" => LevelAt(mem, sp) < MaxNest
  BY LevelIs DEF EditSectionEnds, AtWord, Going, catchVars, throwVars, srcVars
<1>2. Typed'
  BY <1>1 DEF StackInv, Typed, Points
<1>3. CASE pc' = "report"
  BY <1>1, <1>2, <1>3, GivesUp DEF catchVars
<1>4. CASE pc' # "report"
  <2>1. pc' \in Going /\ Under(pc) = Under(pc')
    BY <1>1, <1>4 DEF Going, AtWord, Under
  <2> QED BY <1>1, <1>2, <1>4, <2>1, AtWordIs, SamePlace DEF catchVars
<1> QED BY <1>3, <1>4

LEMMA EditCommitStack == ASSUME StackInv, EditCommit PROVE StackInv'
<1>1. /\ pc = "edit" /\ pc \in AtWord /\ pc' = "nest" /\ sp' = sp + 3
      /\ mem' = Pushed(NestedCall(Level + 1), SourceKept(srcPtr), sp + 2)
      /\ UNCHANGED <<catchDepth, frames, tmp, regN, regPtr, ds, rootSp,
                     srcPtr, srcEnd, reached, nobrk, brkPend, breaks>>
  BY DEF EditCommit, AtWord, catchVars, throwVars, srcVars, brkVars
<1>2. LevelAt(mem, sp) < MaxNest /\ srcPtr \in Addresses
  BY <1>1 DEF StackInv, StackAt, Typed
<1>3. /\ StackAt("nest", mem', sp + 3, frames, catchDepth)
      /\ Bases(mem', frames, catchDepth) /\ mem' \in Memory
  BY <1>1, <1>2, NestStarts
<1>4. Typed'
  BY <1>1, <1>3, AtWordIs DEF StackInv, Typed, Points
<1> QED BY <1>1, <1>3, <1>4, AtWordIs DEF StackInv, ThrownAt, Thrown

LEMMA NestStack == ASSUME StackInv, NestPtr \/ NestEnd PROVE StackInv'
<1>1. /\ pc \in {"nest", "nestPtr"} /\ pc' \in {"nestPtr", "loop"}
      /\ UNCHANGED <<mem, sp, catchDepth, frames, tmp, regN, regPtr, ds, rootSp,
                     nobrk, brkPend, breaks>>
      /\ srcPtr' \in {srcPtr, TextStart(Level)} /\ srcEnd' \in {srcEnd, TextEnd(Level)}
      /\ reached' \in {reached, [reached EXCEPT ![Level] = TextStart(Level)]}
  BY DEF NestPtr, NestEnd, catchVars, throwVars, brkVars
<1>2. TextStart(Level) \in Addresses /\ TextEnd(Level) \in Addresses
  <2>1. Level \in Texts
    BY <1>1, Extents, LevelIs DEF Going
  <2> QED BY <2>1, JunkIsNat
<1>3. Typed'
  <2>1. reached' \in [Texts -> Addresses] /\ srcPtr' \in Addresses /\ srcEnd' \in Addresses
    BY <1>1, <1>2 DEF StackInv, Typed
  <2> QED BY <1>1, <2>1 DEF StackInv, Typed, Points
<1>4. /\ StackAt(pc, mem, sp, frames, catchDepth) /\ Bases(mem, frames, catchDepth)
      /\ rootSp = 1
  BY <1>1 DEF StackInv
<1>5. StackAt(pc', mem', sp', frames', catchDepth')
  BY <1>1, <1>4 DEF StackAt, Going, Ending, AtWord, Under
<1>6. pc' # "catch" /\ pc' \notin Thrown
  BY <1>1 DEF Thrown
<1> QED BY <1>1, <1>3, <1>4, <1>5, <1>6 DEF StackInv, ThrownAt, Thrown

\* The nested run is over: its source's two cells are on top.
LEMMA NestedIs ==
  ASSUME StackInv, pc \in {"nestEnd", "nestEndPtr"}
  PROVE  /\ pc \in Going /\ sp \in Nat /\ sp >= 1 /\ mem \in Memory
         /\ Sound(mem, sp) /\ Fits(mem, sp)
         /\ mem[sp].kind = IF pc = "nestEnd" THEN "ptr" ELSE "end"
         /\ mem[sp].val \in Addresses /\ sp # 1 /\ sp - 1 \in Nat /\ sp - 1 >= 1
         /\ Counted(mem, sp, frames, catchDepth)
         /\ frames \in Slots /\ catchDepth \in 0 .. CATCH_MAX_DEPTH
         /\ rootSp = 1 /\ LevelAt(mem, sp) \in Nat /\ LevelAt(mem, sp) < MaxNest
         /\ sp <= GuardCell + 4 + 4 * LevelAt(mem, sp) /\ sp + 1 <= StackCells
         /\ LevelAt(mem, sp - 1) = LevelAt(mem, sp)
<1>1. /\ pc \in Going /\ sp \in Nat /\ sp >= 1 /\ mem \in Memory
      /\ Sound(mem, sp)
      /\ mem[sp].kind = IF pc = "nestEnd" THEN "ptr" ELSE "end"
      /\ Counted(mem, sp, frames, catchDepth)
      /\ frames \in Slots /\ catchDepth \in 0 .. CATCH_MAX_DEPTH /\ rootSp = 1
      /\ LevelAt(mem, sp) < MaxNest
      /\ sp <= GuardCell + (IF pc = "nestEnd" THEN 4 ELSE 3) + 4 * LevelAt(mem, sp)
  BY DEF StackInv, Typed, StackAt, Going, Ending, AtWord, Under
<1>2. Fits(mem, sp)
  BY <1>1 DEF Sound
<1>3. sp # 1 /\ sp - 1 \in Nat /\ sp - 1 >= 1
  BY <1>1, <1>2 DEF Fits
<1>4. LevelAt(mem, sp) \in Nat
  BY <1>1, Extents, SizesAssumption DEF Texts
<1>5. /\ sp <= GuardCell + 4 + 4 * LevelAt(mem, sp) /\ sp + 1 <= StackCells
      /\ sp <= StackCells
  BY <1>1, <1>4, SizesAssumption, RoomAssumption
<1>6. mem[sp].val \in Addresses
  <2>1. sp \in 1 .. StackCells
    BY <1>1, <1>5, SizesAssumption
  <2> QED BY <1>1, <2>1 DEF Memory, Cell
<1>7. LevelAt(mem, sp - 1) = LevelAt(mem, sp)
  BY <1>1, LevelAtStep
<1> QED BY <1>1, <1>2, <1>3, <1>4, <1>5, <1>6, <1>7

(* A nested run's end keeps the stack.                                      *)
LEMMA EditNextLineStack == ASSUME StackInv, EditNextLine PROVE StackInv'
<1>1. /\ pc = "nestEnd" /\ pc' = "nest" /\ sp' = sp + 1
      /\ mem' = Forgotten(Pushed(NestedCall(Level + 1), mem, sp), sp + 1)
      /\ UNCHANGED <<catchDepth, frames, tmp, regN, regPtr, ds, rootSp,
                     srcPtr, srcEnd, reached, nobrk, brkPend, breaks>>
  BY DEF EditNextLine, catchVars, throwVars, srcVars, brkVars
<1>2. /\ NestedCall(Level + 1) \in Cell /\ NestedCall(Level + 1).kind = "nested"
      /\ NestedCall(Level + 1).val = LevelAt(mem, sp) + 1
  <2>1. Level + 1 \in Texts /\ Level + 1 \in Addresses /\ Level = LevelAt(mem, sp)
    BY <1>1, NestedIs, LevelIs, TextsAreAddresses, SizesAssumption DEF Texts
  <2> QED BY <1>1, <2>1, NestedIs DEF NestedCall, Cell, Kinds
<1>3. /\ mem' \in Memory /\ mem'[sp + 1] = NestedCall(Level + 1)
      /\ \A i \in 1 .. sp : mem'[i] = mem[i]
  BY <1>1, <1>2, NestedIs, CallIs
<1>4. /\ Sound(mem', sp) /\ Counted(mem', sp, frames, catchDepth)
      /\ LevelAt(mem', sp) = LevelAt(mem, sp)
  <2>1. Same(mem, mem', sp)
    BY <1>1, <1>3, NestedIs, SameIs
  <2>2. Sound(mem', sp) /\ LevelAt(mem', sp) = LevelAt(mem, sp)
    BY <1>1, <2>1, NestedIs, SoundSame, LevelAtSame
  <2>3. Counted(mem', sp, frames, catchDepth)
    BY <1>1, <2>1, NestedIs, CountedSame
  <2> QED BY <2>2, <2>3
<1>5. mem'[sp].kind = "ptr" /\ mem'[sp + 1].kind = "nested"
  BY <1>1, <1>2, <1>3, NestedIs
<1>6. Sound(mem', sp + 1)
  <2>1. sp + 1 <= GuardCell + 5 + 4 * LevelAt(mem', sp)
    BY <1>1, <1>4, NestedIs, SizesAssumption
  <2> QED BY <1>1, <1>2, <1>3, <1>4, <1>5, <2>1, NestedIs, SoundPushNested
<1>7. Counted(mem', sp + 1, frames, catchDepth)
  BY <1>1, <1>4, <1>5, NestedIs, CountedPush
<1>8. Bases(mem', frames, catchDepth)
  BY <1>3, BasesKept
<1>9. Typed'
  BY <1>1, <1>3, NestedIs DEF StackInv, Typed, Points
<1>10. StackAt("nest", mem', sp + 1, frames, catchDepth)
  BY <1>1, <1>5, <1>6, <1>7, NestedIs DEF StackAt, Going, Ending, AtWord, Under
<1> QED BY <1>1, <1>8, <1>9, <1>10, NestedIs DEF StackInv, ThrownAt, Thrown

LEMMA NestedReturnsStack ==
  ASSUME StackInv, NestedReturns \/ NestedReturned PROVE StackInv'
<1>1. /\ pc \in {"nestEnd", "nestEndPtr"} /\ sp' = sp - 1
      /\ pc' = IF pc = "nestEnd" THEN "nestEndPtr" ELSE "word"
      /\ mem' = IF pc = "nestEnd" THEN mem ELSE Forgotten(mem, sp - 1)
      /\ srcPtr' \in {srcPtr, mem[sp].val} /\ srcEnd' \in {srcEnd, mem[sp].val}
      /\ UNCHANGED <<catchDepth, frames, tmp, regN, regPtr, ds, rootSp,
                     reached, nobrk, brkPend, breaks>>
  BY DEF NestedReturns, NestedReturned, catchVars, throwVars, brkVars
<1>2. mem' \in Memory /\ \A i \in 1 .. sp - 1 : mem'[i] = mem[i]
  <2>1. sp - 1 <= StackCells
    BY <1>1, NestedIs, SizesAssumption
  <2> QED BY <1>1, <2>1, NestedIs, ForgottenIs
<1>3. /\ Sound(mem', sp - 1) /\ Counted(mem', sp - 1, frames, catchDepth)
      /\ LevelAt(mem', sp - 1) = LevelAt(mem, sp)
  <2>1. mem[sp].kind # "xt"
    BY <1>1, NestedIs
  <2>2. Sound(mem, sp - 1) /\ Counted(mem, sp - 1, frames, catchDepth)
    BY <1>1, <2>1, NestedIs, SoundBelow, CountedPop
  <2>3. Same(mem, mem', sp - 1)
    BY <1>1, <1>2, NestedIs, SameIs
  <2>4. Sound(mem', sp - 1) /\ LevelAt(mem', sp - 1) = LevelAt(mem, sp - 1)
    BY <1>1, <2>2, <2>3, NestedIs, SoundSame, LevelAtSame
  <2>5. Counted(mem', sp - 1, frames, catchDepth)
    BY <1>1, <2>2, <2>3, NestedIs, CountedSame
  <2> QED BY <1>1, <2>4, <2>5, NestedIs
<1>4. mem'[sp - 1].kind \in IF pc = "nestEnd" THEN {"end"} ELSE WordTop
  <2>1. mem'[sp - 1] = mem[sp - 1]
    BY <1>1, <1>2, NestedIs
  <2> QED BY <1>1, <2>1, NestedIs DEF Fits
<1>5. Bases(mem', frames, catchDepth)
  <2>1. \A k \in 1 .. catchDepth : frames[k].sp - 2 <= sp - 1
    BY <1>1, Extents, NestedIs
  <2>2. Same(mem, mem', sp - 1)
    BY <1>1, <1>2, NestedIs, SameIs
  <2> QED BY <1>1, <2>1, <2>2, NestedIs, BasesSame DEF StackInv
<1>6. Typed'
  BY <1>1, <1>2, NestedIs DEF StackInv, Typed, Points
<1>7. CASE pc = "nestEnd"
  <2>1. sp <= GuardCell + 4 + 4 * LevelAt(mem, sp) /\ GuardCell \in Nat
    BY <1>1, NestedIs, SizesAssumption
  <2>2. StackAt("nestEndPtr", mem', sp - 1, frames, catchDepth)
    BY <1>3, <1>4, <1>7, <2>1, NestedIs DEF StackAt, Going, Ending, AtWord, Under
  <2> QED BY <1>1, <1>5, <1>6, <1>7, <2>2, NestedIs DEF StackInv, ThrownAt, Thrown
<1>8. CASE pc = "nestEndPtr"
  <2>1. StackAt("word", mem', sp - 1, frames, catchDepth)
    BY <1>3, <1>4, <1>8, NestedIs DEF StackAt, Going, Ending, AtWord, Under
  <2> QED BY <1>1, <1>5, <1>6, <1>8, <2>1, NestedIs DEF StackInv, ThrownAt, Thrown
<1> QED BY <1>1, <1>7, <1>8
-----------------------------------------------------------------------------
(* The BREAK sections and a BREAK itself keep the stack.                    *)
LEMMA SectionStack ==
  ASSUME StackInv, SectionStarts \/ SectionReleases \/ SectionStops
  PROVE  StackInv'
<1>1. /\ pc \in {"word", "section", "sectionEnd"} /\ pc \in Going
      /\ pc' \in {"word", "section", "sectionEnd", "stop"}
      /\ UNCHANGED <<mem, sp, catchDepth, frames, tmp, regN, regPtr, ds, rootSp,
                     srcPtr, srcEnd, reached, brkPend, breaks>>
  BY DEF SectionStarts, SectionReleases, SectionStops, Going, AtWord, catchVars,
         throwVars, srcVars, brkVars
<1>2. Typed'
  BY <1>1 DEF StackInv, Typed, Points
<1>3. CASE pc' = "stop"
  BY <1>1, <1>2, <1>3, GivesUp DEF catchVars
<1>4. CASE pc' # "stop"
  <2>1. pc' \in Going /\ pc \in AtWord /\ Under(pc) = Under(pc')
    BY <1>1, <1>4 DEF Going, AtWord, Under
  <2> QED BY <1>1, <1>2, <1>4, <2>1, AtWordIs, SamePlace DEF catchVars
<1> QED BY <1>3, <1>4

LEMMA BreakStopStack == ASSUME StackInv, BreakStop PROVE StackInv'
<1>1. /\ pc = "stop" /\ pc' = "throw" /\ brkPend' = 0 /\ regN' = BreakCode
      /\ UNCHANGED <<mem, sp, catchDepth, frames, tmp, regPtr, ds, rootSp,
                     srcPtr, srcEnd, reached, nobrk, breaks>>
  BY DEF BreakStop, catchVars, srcVars
<1>2. Typed'
  BY <1>1 DEF StackInv, Typed, Points, Codes
<1> QED BY <1>1, <1>2, GivesUp DEF catchVars

LEMMA BreakStack == ASSUME StackInv, Break PROVE StackInv'
<1>1. /\ breaks < MaxBreaks /\ breaks' = breaks + 1 /\ brkPend' = 1
      /\ mem' = Pushed(Isr, Pushed(Isr, mem, sp), sp + 1)
      /\ UNCHANGED <<catchDepth, frames, tmp, regN, regPtr, ds, rootSp,
                     srcPtr, srcEnd, reached, nobrk>>
  BY DEF Break, catchVars, throwVars, srcVars
<1>2. /\ pc \in Points /\ mem \in Memory /\ sp \in Nat /\ frames \in Slots
      /\ catchDepth \in 0 .. CATCH_MAX_DEPTH /\ breaks \in 0 .. MaxBreaks
      /\ tmp \in Frame
  BY DEF StackInv, Typed
<1>3. mem' \in Memory /\ \A i \in 1 .. sp : mem'[i] = mem[i]
  <2> DEFINE m1 == Pushed(Isr, mem, sp)
  <2>1. Isr \in Cell /\ sp + 1 \in Nat
    BY <1>2, CellsTyped
  <2>2. m1 \in Memory /\ \A i \in 1 .. sp : m1[i] = mem[i]
    BY <1>2, <2>1, PushedTyped
  <2> HIDE DEF m1
  <2>3. Pushed(Isr, m1, sp + 1) \in Memory /\ \A i \in 1 .. sp + 1 : Pushed(Isr, m1, sp + 1)[i] = m1[i]
    BY <2>1, <2>2, PushedTyped
  <2>4. \A i \in 1 .. sp : i \in 1 .. sp + 1
    BY <1>2
  <2> QED BY <1>1, <2>2, <2>3, <2>4 DEF m1
<1>4. Same(mem, mem', sp)
  BY <1>2, <1>3, SameIs
<1>5. Bases(mem', frames, catchDepth) /\ StackAt(pc, mem', sp, frames, catchDepth)
  BY <1>2, <1>3, <1>4, BasesKept, StackAtSame DEF StackInv
<1>6. mem[1].kind \in {"root", "isr"} \/ sp = 0 => mem'[1].kind \in {"root", "isr"}
  <2>1. CASE sp = 0
    <3>1. 1 \in 1 .. StackCells /\ 2 \in 1 .. StackCells
      BY SizesAssumption, RoomAssumption
    <3>2. mem'[1] = Isr
      BY <1>1, <1>2, <2>1, <3>1 DEF Pushed, Memory
    <3> QED BY <3>2 DEF Isr
  <2>2. CASE sp # 0
    BY <1>2, <1>3, <2>2
  <2> QED BY <2>1, <2>2
<1>7. Highest + 2 * breaks <= Highest + 2 * breaks' /\ Highest \in Nat
  BY <1>1, <1>2, Extents, SizesAssumption
<1>8. CASE nobrk > 0
  <2>1. pc' = pc /\ sp' = sp
    BY <1>8 DEF Break
  <2>2. Typed'
    BY <1>1, <1>2, <1>3, <2>1, SizesAssumption DEF StackInv, Typed
  <2>3. ASSUME pc \in {"unwind", "restore"}
        PROVE  Base(mem', tmp, frames, catchDepth) /\ tmp.sp <= sp
    <3>1. Base(mem, tmp, frames, catchDepth) /\ tmp.sp <= sp
      BY <2>3 DEF StackInv, ThrownAt
    <3>2. tmp.sp - 2 <= sp
      BY <1>2, <3>1, SizesAssumption DEF Frame
    <3> QED BY <1>2, <1>4, <3>1, <3>2, BaseSame
  <2>4. ThrownAt(pc, mem', sp, frames, catchDepth, tmp, breaks')
    <3>1. ThrownAt(pc, mem, sp, frames, catchDepth, tmp, breaks)
      BY DEF StackInv
    <3>2. pc \in Thrown => sp <= Highest + 2 * breaks'
      BY <1>1, <1>2, <1>7, <3>1 DEF ThrownAt
    <3> QED BY <1>6, <2>3, <3>1, <3>2 DEF ThrownAt
  <2> QED BY <1>1, <1>5, <2>1, <2>2, <2>4 DEF StackInv
<1>9. CASE ~ (nobrk > 0)
  <2>1. pc' = "stop" /\ sp' = sp + 2
    BY <1>9 DEF Break
  <2>2. Typed'
    BY <1>1, <1>2, <1>3, <2>1, SizesAssumption DEF StackInv, Typed, Points
  <2>3. mem'[1].kind \in {"root", "isr"}
    <3>1. pc \in Going \cup Ending \cup Thrown \cup {"console", "back"}
      BY <1>2 DEF Points, Going, Ending, Thrown, AtWord
    <3>2. pc \in Thrown => mem[1].kind \in {"root", "isr"}
      BY DEF StackInv, ThrownAt
    <3>3. pc \in {"console", "back"} => sp = 0
      BY DEF StackInv, StackAt
    <3> QED BY <1>6, <3>1, <3>2, <3>3, Extents
  <2>4. sp + 2 <= Highest + 2 * breaks'
    BY <1>1, <1>2, <1>7, Extents
  <2>5. \A k \in 1 .. catchDepth : frames[k].sp <= sp + 2
    BY <1>2, Extents
  <2>6. ThrownAt("stop", mem', sp + 2, frames, catchDepth, tmp, breaks')
    BY <2>3, <2>4, <2>5 DEF ThrownAt
  <2>7. StackAt("stop", mem', sp + 2, frames, catchDepth)
    BY DEF StackAt, Going, Ending, AtWord
  <2>8. rootSp = 1
    \* at the console, before the first line is entered, BREAK is deferred
    BY <1>9 DEF StackInv
  <2> QED BY <1>1, <1>5, <2>1, <2>2, <2>6, <2>7, <2>8 DEF StackInv
<1> QED BY <1>8, <1>9

(* Every step keeps the stack's invariant, wherever a BREAK falls.          *)
LEMMA StackStep == ASSUME StackInv, [Next]_vars PROVE StackInv'
<1>1. CASE Console
  BY <1>1, EnterLineStack, StartRunStack, ReportStack, BackToConsoleStack DEF Console
<1>2. CASE Interpreter
  BY <1>2, InterpretWordStack, InterpretErrorStack, EndOfSourceStack DEF Interpreter
<1>3. CASE Word
  <2>1. CASE WordThrows
    BY <2>1, ThrowsStack DEF WordThrows
  <2> QED BY <1>3, <2>1, WordWorkStack, WordReturnsStack, WordAbortsStack,
             RecurseStack DEF Word
<1>4. CASE CatchSteps
  BY <1>4, CatchStack, CatchFrameStack, CatchRunsXtStack, CatchPopsStack,
     CatchReturnsStack, BareCatchReturnsStack DEF CatchSteps
<1>5. CASE Throw
  BY <1>5, UncaughtStack, TakeFrameStack, UnwindStack, RestoreSourceStack,
     RestorePtrStack DEF Throw
<1>6. CASE Nested
  BY <1>6, LoadTextStack, EditSectionStack, EditSectionEndsStack, EditCommitStack,
     NestStack, EditNextLineStack, NestedReturnsStack DEF Nested
<1>7. CASE Section
  BY <1>7, SectionStack, BreakStopStack DEF Section
<1>8. CASE UNCHANGED vars
  BY <1>8 DEF vars, StackInv, Typed
<1> QED BY <1>1, <1>2, <1>3, <1>4, <1>5, <1>6, <1>7, <1>8, BreakStack DEF Next, Cpu

(* The room below STK_GUARD's line is enough, for every guard line, every       *)
(* nesting and every number of BREAKs, wherever they fall.                        *)
THEOREM RoomIsEnough == Spec => []NoOverrun
<1>1. StackInv => NoOverrun
  BY Extents DEF NoOverrun
<1> QED BY <1>1, InitStack, StackStep, PTL DEF Spec

\* The counted frames are in order: no two are the same CATCH's.
LEMMA FramesDiffer ==
  ASSUME StackInv, NEW j \in 1 .. catchDepth, NEW k \in 1 .. catchDepth, j < k
  PROVE  frames[j].sp < frames[k].sp
<1>1. j \in 1 .. k - 1
  BY DEF StackInv, Typed
<1>2. frames[j].sp + 1 <= frames[k].sp - 2
  BY <1>1 DEF StackInv, Bases, Base, Counted
<1> QED BY <1>2, Extents

(* CATCH_DEPTH is the number of CATCHes whose xt is on the stack, for every      *)
(* size of CATCH_STACK and wherever BREAKs fall.                                  *)
THEOREM DepthCountsCatches == Spec => []CatchDepthIsActive
<1>1. StackInv => CatchDepthIsActive
  <2> SUFFICES ASSUME StackInv, pc \in {"loop", "word", "console"}
               PROVE  catchDepth = Cardinality({i \in 1 .. sp : mem[i].kind = "xt"})
    BY DEF CatchDepthIsActive
  <2> DEFINE X == {i \in 1 .. sp : mem[i].kind = "xt"}
             S == 1 .. catchDepth
             g == [k \in S |-> frames[k].sp + 1]
  <2>1. Counted(mem, sp, frames, catchDepth) /\ sp \in Nat /\ catchDepth \in Nat
    <3>1. sp \in Nat /\ catchDepth \in Nat
      BY DEF StackInv, Typed
    <3>2. CASE pc = "console"
      BY <3>2 DEF StackInv, StackAt, Counted
    <3>3. CASE pc # "console"
      <4>1. pc \in Going
        BY <3>3 DEF Going, AtWord
      <4> QED BY <3>1, <4>1 DEF StackInv, StackAt
    <3> QED BY <3>1, <3>2, <3>3
  <2>2. \A k \in S : frames[k].sp + 1 \in X
    BY <2>1, Extents DEF Counted
  <2>3. \A i \in X : \E k \in S : frames[k].sp + 1 = i
    BY <2>1 DEF Counted
  <2>4. \A j, k \in S : frames[j].sp + 1 = frames[k].sp + 1 => j = k
    <3> SUFFICES ASSUME NEW j \in S, NEW k \in S, frames[j].sp + 1 = frames[k].sp + 1,
                        j < k \/ k < j
                 PROVE  FALSE
      BY <2>1
    <3>1. frames[j].sp < frames[k].sp \/ frames[k].sp < frames[j].sp
      BY FramesDiffer
    <3> QED BY <3>1, Extents
  <2>5. g \in Bijection(S, X)
    <3> HIDE DEF X, S
    <3>1. g \in [S -> X]
      BY <2>2
    <3>2. \A a, b \in S : g[a] = g[b] => a = b
      BY <2>4
    <3>3. \A t \in X : \E a \in S : g[a] = t
      BY <2>3
    <3> QED BY <3>1, <3>2, <3>3 DEF Bijection, Injection, Surjection, IsInjective
  <2>6. IsFiniteSet(S) /\ Cardinality(S) = catchDepth
    <3>1. 1 \in Int /\ catchDepth \in Int
      BY <2>1
    <3>2. IsFiniteSet(1 .. catchDepth)
          /\ Cardinality(1 .. catchDepth) = IF 1 > catchDepth THEN 0 ELSE catchDepth - 1 + 1
      BY <3>1, FS_Interval
    <3> QED BY <2>1, <3>2
  <2>7. Cardinality(X) = Cardinality(S)
    <3> HIDE DEF X, S, g
    <3>1. ExistsBijection(S, X)
      BY <2>5 DEF ExistsBijection
    <3> QED BY <2>6, <3>1, FS_Bijection
  <2> QED BY <2>6, <2>7
<1> QED BY <1>1, InitStack, StackStep, PTL DEF Spec
-----------------------------------------------------------------------------
(* The BREAK protocol.                                                        *)

(* The two places a BREAK falls between BRK_PEND's clearing and NOBRK's        *)
(* release, INTERPRET_RUN's and EDIT's: each has a run that shows what it      *)
(* breaks.                                                                      *)
NoBreakAtRelease == {"run", "viewEnd"} \subseteq Shielded

Deferring == {"console", "run", "section", "view", "viewEnd"}

(* NOBRK is raised exactly in the sections.                                    *)
SectionInv ==
  /\ pc \in Deferring => nobrk = 1
  /\ pc \notin Deferring => nobrk = 0

(* BREAK can be pending only in a section that has yet to drop it or stop on   *)
(* it.                                                                          *)
PendingInv ==
  brkPend # 0 => pc \in {"console", "section", "view", "sectionEnd", "stop"}

(* Both cells after a step: the sections need no assumption, what is pending    *)
(* was pending rightly.                                                          *)
Protocol == SectionInv' /\ (PendingInv => PendingInv')

(* A RET never lands in a section: no word's code calls into the middle of one.*)
LEMMA LandsOutside ==
  ASSUME NEW c
  PROVE  Landing(c) \notin Deferring \cup {"sectionEnd", "stop"}
BY DEF Landing, Deferring

(* No section is open and no BREAK pending at power-on.                     *)
LEMMA BreakInit == Init => SectionInv /\ PendingInv
BY DEF Init, SectionInv, PendingInv, Deferring

(* Actions outside the protocol: neither cell changes, no section is entered    *)
(* or left.                                                                      *)
LEMMA Elsewhere ==
  ASSUME SectionInv, pc \notin Deferring \cup {"sectionEnd", "stop"},
         pc' \notin Deferring \cup {"sectionEnd"}, UNCHANGED brkVars
  PROVE  Protocol
BY DEF Protocol, SectionInv, PendingInv, Deferring, brkVars

(* One lemma for each group of actions.                                          *)
LEMMA ConsoleStep == ASSUME SectionInv, Console PROVE Protocol
<1>1. CASE EnterLine
  BY <1>1 DEF EnterLine, Protocol, SectionInv, PendingInv, Deferring
<1>2. CASE StartRun
  BY <1>2 DEF StartRun, Protocol, SectionInv, PendingInv, Deferring
<1>3. CASE Report
  BY <1>3, LandsOutside, Elsewhere DEF Report, Return, Deferring
<1>4. CASE BackToConsole
  BY <1>4 DEF BackToConsole, Protocol, SectionInv, PendingInv, Deferring
<1> QED BY <1>1, <1>2, <1>3, <1>4 DEF Console

LEMMA InterpreterStep == ASSUME SectionInv, Interpreter PROVE Protocol
<1>1. CASE InterpretWord \/ InterpretError
  BY <1>1, Elsewhere DEF InterpretWord, InterpretError, Deferring
<1>2. CASE EndOfSource
  BY <1>2, LandsOutside, Elsewhere DEF EndOfSource, Return, Deferring
<1> QED BY <1>1, <1>2 DEF Interpreter

LEMMA WordStep == ASSUME SectionInv, Word PROVE Protocol
<1>1. CASE WordWork \/ WordParses \/ Recurse \/ WordThrows \/ WordAborts
  BY <1>1, Elsewhere
  DEF WordWork, WordParses, Recurse, StackGuardThrows, WordThrows, WordAborts,
      Deferring
<1>2. CASE WordReturns
  BY <1>2, LandsOutside, Elsewhere DEF WordReturns, Return, Deferring
<1> QED BY <1>1, <1>2 DEF Word

LEMMA CatchStep == ASSUME SectionInv, CatchSteps PROVE Protocol
<1>1. CASE Catch \/ CatchFrame \/ CatchRunsXt \/ CatchPops
  BY <1>1, Elsewhere
  DEF Catch, StackGuardThrows, CatchFrame, CatchRunsXt, CatchPops, Deferring
<1>2. CASE CatchReturns \/ BareCatchReturns
  BY <1>2, LandsOutside, Elsewhere
  DEF CatchReturns, BareCatchReturns, Return, Deferring
<1> QED BY <1>1, <1>2 DEF CatchSteps

LEMMA ThrowStep == ASSUME SectionInv, Throw PROVE Protocol
<1>1. CASE Uncaught \/ TakeFrame \/ Unwind
  BY <1>1, Elsewhere DEF Uncaught, TakeFrame, Unwind, Deferring
<1>2. CASE RestoreSource \/ RestorePtr
  BY <1>2, LandsOutside, Elsewhere
  DEF RestoreSource, RestorePtr, Caught, Return, Deferring
<1> QED BY <1>1, <1>2 DEF Throw

LEMMA NestedStep == ASSUME SectionInv, Nested PROVE Protocol
<1>1. CASE \/ LoadText \/ EditCommit \/ NestPtr \/ NestEnd \/ EditNextLine
           \/ NestedReturns \/ NestedReturned
  BY <1>1, Elsewhere
  DEF LoadText, EditCommit, NestPtr, NestEnd, EditNextLine, NestedReturns,
      NestedReturned, Deferring
<1>2. CASE EditView
  BY <1>2 DEF EditView, Protocol, SectionInv, PendingInv, Deferring
<1>3. CASE EditViewLeft
  BY <1>3 DEF EditViewLeft, Protocol, SectionInv, PendingInv, Deferring
<1>4. CASE EditSectionEnds
  BY <1>4 DEF EditSectionEnds, Protocol, SectionInv, PendingInv, Deferring
<1> QED BY <1>1, <1>2, <1>3, <1>4 DEF Nested

LEMMA SectionStep == ASSUME SectionInv, Section PROVE Protocol
<1>1. CASE SectionStarts
  BY <1>1 DEF SectionStarts, Protocol, SectionInv, PendingInv, Deferring
<1>2. CASE SectionReleases
  BY <1>2 DEF SectionReleases, Protocol, SectionInv, PendingInv, Deferring
<1>3. CASE SectionStops
  BY <1>3 DEF SectionStops, Protocol, SectionInv, PendingInv, Deferring, brkVars
<1>4. CASE BreakStop
  BY <1>4 DEF BreakStop, Protocol, SectionInv, PendingInv, Deferring
<1> QED BY <1>1, <1>2, <1>3, <1>4 DEF Section

(* BREAK in a section is only noted; outside one it goes to BREAK_STOP.          *)
LEMMA BreakStep ==
  ASSUME SectionInv, Break PROVE SectionInv' /\ (NoBreakAtRelease => Protocol)
<1>1. CASE nobrk > 0
  <2>1. pc' = pc /\ nobrk' = nobrk /\ pc \notin Shielded
    BY <1>1 DEF Break
  <2>2. pc \in Deferring
    BY <1>1 DEF SectionInv
  <2> QED BY <2>1, <2>2
          DEF Protocol, SectionInv, PendingInv, Deferring, NoBreakAtRelease
<1>2. CASE ~ (nobrk > 0)
  <2>1. pc' = "stop" /\ nobrk' = nobrk /\ pc \notin Deferring
    BY <1>2 DEF Break, SectionInv
  <2> QED BY <2>1 DEF Protocol, SectionInv, PendingInv, Deferring
<1> QED BY <1>1, <1>2

(* Every step keeps the protocol; what is pending needs no BREAK at the     *)
(* releases.                                                                *)
LEMMA ProtocolStep ==
  ASSUME SectionInv, [Next]_vars
  PROVE  /\ SectionInv'
         /\ NoBreakAtRelease => (PendingInv => PendingInv')
<1>1. CASE Cpu
  BY <1>1, ConsoleStep, InterpreterStep, WordStep, CatchStep, ThrowStep,
     NestedStep, SectionStep DEF Cpu, Protocol
<1>2. CASE Break
  BY <1>2, BreakStep DEF Protocol
<1>3. CASE UNCHANGED vars
  BY <1>3 DEF vars, brkVars, SectionInv, PendingInv
<1> QED BY <1>1, <1>2, <1>3 DEF Next

(* NOBRK alone needs no assumption.                                         *)
LEMMA SectionInvStep == ASSUME SectionInv, [Next]_vars PROVE SectionInv'
BY ProtocolStep

(* Without a BREAK at the two releases, a BREAK is never left pending by code    *)
(* that neither stops on it (BRK_SECTION_END) nor drops it (INTERPRET_RUN, EDIT).*)
THEOREM PendingIsDeferred ==
  ASSUME NoBreakAtRelease PROVE Spec => []PendingOnlyInSection
<1> DEFINE IInv == SectionInv /\ PendingInv
<1>1. Init => IInv
  BY BreakInit
<1>2. IInv /\ [Next]_vars => IInv'
  BY ProtocolStep
<1>3. IInv => PendingOnlyInSection
  BY DEF SectionInv, PendingInv, PendingOnlyInSection, Deferring
<1> HIDE DEF IInv
<1> QED BY <1>1, <1>2, <1>3, PTL DEF Spec

(* NOBRK counts one section: 1 inside it and 0 outside, at every point and       *)
(* wherever a BREAK falls, so BRK_SECTION_END's and EDIT's decrement never wraps.*)
THEOREM NobrkCountsTheSection ==
  Spec => [](nobrk = IF pc \in Deferring THEN 1 ELSE 0)
<1>1. Init => SectionInv
  BY BreakInit
<1>2. SectionInv /\ [Next]_vars => SectionInv'
  BY SectionInvStep
<1>3. SectionInv => (nobrk = IF pc \in Deferring THEN 1 ELSE 0)
  BY DEF SectionInv
<1> QED BY <1>1, <1>2, <1>3, PTL DEF Spec
-----------------------------------------------------------------------------
(* The data stack: every result still owed has its cell on the stack.       *)

Owes(m, i) == {j \in 1 .. i : m[j].kind \in {"xt", "bare"}}
Owed(m, i) == Cardinality(Owes(m, i))
Due(p) == IF p \in Ending \cup {"bareDone"} THEN 1 ELSE 0

DepthInv ==
  /\ pc \in Going \cup Ending => ds + Owed(mem, sp) + Due(pc) <= MaxData + StackCells
  /\ pc \notin Going \cup Ending => ds <= MaxData + StackCells
  /\ \A k \in 1 .. catchDepth : frames[k].ds < MaxData
  /\ pc \in {"unwind", "restore"} => tmp.ds < MaxData
  /\ pc \in {"restore", "restorePtr"} => ds < MaxData

(* What is owed is a number no larger than the stack.                       *)
LEMMA OwedType ==
  ASSUME NEW m, NEW i \in Nat
  PROVE  IsFiniteSet(Owes(m, i)) /\ Owed(m, i) \in Nat /\ Owed(m, i) <= i
<1>1. i \in Int /\ 1 \in Int
  OBVIOUS
<1>2. IsFiniteSet(1 .. i) /\ Cardinality(1 .. i) = IF 1 > i THEN 0 ELSE i - 1 + 1
  BY <1>1, FS_Interval
<1>3. Cardinality(1 .. i) = i
  BY <1>2
<1>4. Owes(m, i) \in SUBSET (1 .. i)
  BY DEF Owes
<1>5. IsFiniteSet(Owes(m, i)) /\ Owed(m, i) <= Cardinality(1 .. i)
  BY <1>2, <1>4, FS_Subset DEF Owed
<1>6. Owed(m, i) \in Nat
  BY <1>5, FS_CardinalityType DEF Owed
<1> QED BY <1>3, <1>5, <1>6

(* One more is owed at a CATCH's return cell and at no other.               *)
LEMMA OwedStep ==
  ASSUME NEW m, NEW i \in Nat, i >= 1
  PROVE  Owed(m, i) = IF m[i].kind \in {"xt", "bare"} THEN Owed(m, i - 1) + 1
                                                      ELSE Owed(m, i - 1)
<1>1. i - 1 \in Nat /\ IsFiniteSet(Owes(m, i - 1))
  BY OwedType
<1>2. CASE m[i].kind \in {"xt", "bare"}
  <2>1. Owes(m, i) = Owes(m, i - 1) \cup {i} /\ i \notin Owes(m, i - 1)
    BY <1>2 DEF Owes
  <2> QED BY <1>1, <1>2, <2>1, FS_AddElement DEF Owed
<1>3. CASE m[i].kind \notin {"xt", "bare"}
  <2>1. Owes(m, i) = Owes(m, i - 1)
    BY <1>3 DEF Owes
  <2> QED BY <1>3, <2>1 DEF Owed
<1> QED BY <1>2, <1>3

(* The same cells owe the same.                                             *)
LEMMA OwedSame ==
  ASSUME NEW m, NEW m2, NEW i \in Nat, Same(m, m2, i)
  PROVE  Owed(m2, i) = Owed(m, i)
<1>1. Owes(m2, i) = Owes(m, i)
  BY DEF Owes, Same
<1> QED BY <1>1 DEF Owed

(* Pushing any other cell owes nothing more.                                *)
LEMMA OwedPush ==
  ASSUME NEW m, NEW m2, NEW i \in Nat, Same(m, m2, i),
         m2[i + 1].kind \notin {"xt", "bare"}
  PROVE  Owed(m2, i + 1) = Owed(m, i)
<1>1. i + 1 \in Nat /\ i + 1 >= 1 /\ i + 1 - 1 = i
  OBVIOUS
<1>2. Owed(m2, i + 1) = Owed(m2, i + 1 - 1)
  BY <1>1, OwedStep
<1> QED BY <1>1, <1>2, OwedSame

(* Pushing a CATCH's return cell owes one more.                             *)
LEMMA OwedPushOwed ==
  ASSUME NEW m, NEW m2, NEW i \in Nat, Same(m, m2, i),
         m2[i + 1].kind \in {"xt", "bare"}
  PROVE  Owed(m2, i + 1) = Owed(m, i) + 1
<1>1. i + 1 \in Nat /\ i + 1 >= 1 /\ i + 1 - 1 = i
  OBVIOUS
<1>2. Owed(m2, i + 1) = Owed(m2, i + 1 - 1) + 1
  BY <1>1, OwedStep
<1> QED BY <1>1, <1>2, OwedSame

\* There is room for the results of every cell there is, above MaxData.
LEMMA Enough ==
  ASSUME NEW m, NEW s \in Nat, s >= 1, Sound(m, s),
         NEW d \in Nat, d <= MaxData, NEW p
  PROVE  d + Owed(m, s) + Due(p) <= MaxData + StackCells
<1>0. s <= StackCells
  <2>1. Fits(m, s)
    BY DEF Sound
  <2> QED BY <2>1, SizesAssumption, RoomAssumption DEF Fits, Highest
<1>1. m[1].kind = "root"
  BY DEF Sound, Fits
<1>2. Owes(m, s) \in SUBSET (2 .. s)
  <2>1. \A j \in 1 .. s : j = 1 \/ j \in 2 .. s
    OBVIOUS
  <2> QED BY <1>1, <2>1 DEF Owes
<1>3. 2 \in Int /\ s \in Int
  OBVIOUS
<1>4. IsFiniteSet(2 .. s) /\ Cardinality(2 .. s) = IF 2 > s THEN 0 ELSE s - 2 + 1
  BY <1>3, FS_Interval
<1>5. Cardinality(2 .. s) = s - 1
  BY <1>4
<1>6. Owed(m, s) <= s - 1 /\ Owed(m, s) \in Nat
  BY <1>2, <1>4, <1>5, OwedType, FS_Subset DEF Owed
<1> QED BY <1>0, <1>6, SizesAssumption DEF Due

\* A RET leaves a result due for each cell of a CATCH it takes off.
LEMMA ReturnDue ==
  ASSUME NEW m, NEW m2, NEW s \in Nat, s >= 1, \A i \in 1 .. s - 1 : m2[i] = m[i],
         m[s].kind \in WordTop \cup {"root", "nested"}
  PROVE  Owed(m2, s - 1) + Due(Landing(m[s])) = Owed(m, s)
<1>1. s - 1 \in Nat /\ Same(m, m2, s - 1)
  BY SameIs
<1>2. Owed(m2, s - 1) = Owed(m, s - 1) /\ Owed(m, s - 1) \in Nat
  BY <1>1, OwedSame, OwedType
<1>3. Owed(m, s) = IF m[s].kind \in {"xt", "bare"} THEN Owed(m, s - 1) + 1
                                                   ELSE Owed(m, s - 1)
  BY OwedStep
<1>4. Due(Landing(m[s])) = IF m[s].kind \in {"xt", "bare"} THEN 1 ELSE 0
  BY DEF Due, Landing, Ending, WordTop
<1> QED BY <1>2, <1>3, <1>4

(* Nothing is owed at power-on.                                             *)
LEMMA InitDepth == Init => DepthInv
BY SizesAssumption DEF Init, DepthInv, Going, Ending, AtWord

\* Steps that neither call nor return, and leave the data stack no deeper.
LEMMA DepthKept ==
  ASSUME StackInv, DepthInv, UNCHANGED <<mem, sp, catchVars, tmp>>,
         ds' \in {0, ds}, pc' \in Points, pc' \notin {"unwind", "restore", "restorePtr"},
         Due(pc') <= Due(pc) \/ pc' \notin Going \cup Ending,
         pc' \in Going \cup Ending => pc \in Going \cup Ending
  PROVE  DepthInv'
<1>1. /\ Owed(mem, sp) \in Nat /\ ds \in Nat /\ ds' \in Nat /\ ds' <= ds
      /\ Due(pc) \in {0, 1} /\ Due(pc') \in {0, 1}
  BY OwedType DEF StackInv, Typed, Due
<1>2. \A k \in 1 .. catchDepth' : frames'[k].ds < MaxData
  BY DEF DepthInv, catchVars
<1>3. pc' \in Going \cup Ending => ds' + Owed(mem', sp') + Due(pc') <= MaxData + StackCells
  BY <1>1, SizesAssumption DEF DepthInv
<1>4. pc' \notin Going \cup Ending => ds' <= MaxData + StackCells
  BY <1>1, SizesAssumption DEF DepthInv
<1> QED BY <1>2, <1>3, <1>4 DEF DepthInv

(* What DepthInv asks of a step that keeps the frames and no THROW's copy.  *)
LEMMA DepthStep ==
  ASSUME DepthInv, UNCHANGED <<catchVars, tmp>>,
         pc' \notin {"unwind", "restore", "restorePtr"},
         pc' \in Going \cup Ending =>
           ds' + Owed(mem', sp') + Due(pc') <= MaxData + StackCells,
         pc' \notin Going \cup Ending => ds' <= MaxData + StackCells
  PROVE  DepthInv'
BY DEF DepthInv, catchVars

\* A running word left no more than MaxData.
LEMMA DepthWithin ==
  ASSUME StackInv', ds' <= MaxData, pc' \in Going \cup Ending
  PROVE  ds' + Owed(mem', sp') + Due(pc') <= MaxData + StackCells
<1>1. sp' \in Nat /\ sp' >= 1 /\ Sound(mem', sp') /\ ds' \in Nat
  BY DEF StackInv, Typed, StackAt
<1> QED BY <1>1, Enough

\* A step whose RET takes one cell, with or without a result put down first.
LEMMA DepthReturned ==
  ASSUME StackInv, DepthInv, pc \in Going \cup Ending,
         pc \in Going => mem[sp].kind \in WordTop \cup {"root", "nested"},
         pc \in Ending => pc = "xtPopped",
         Return(sp, mem), \A i \in 1 .. sp - 1 : mem'[i] = mem[i],
         ds' = ds + Due(pc), pc \in Going => UNCHANGED catchVars,
         pc \in Ending => catchDepth' = catchDepth - 1 /\ \A k \in 1 .. catchDepth - 1 : frames'[k] = frames[k]
  PROVE  DepthInv'
<1>1. sp \in Nat /\ sp >= 1 /\ ds \in Nat /\ catchDepth \in Nat
  BY DEF StackInv, Typed, StackAt
<1>2. mem[sp].kind \in WordTop \cup {"root", "nested"}
  BY EndingIs DEF Under, AtWord
<1>3. Owed(mem', sp - 1) + Due(Landing(mem[sp])) = Owed(mem, sp)
  BY <1>1, <1>2, ReturnDue
<1>4. sp' = sp - 1 /\ pc' = Landing(mem[sp]) /\ sp - 1 \in Nat
  BY <1>1 DEF Return
<1>5. /\ Owed(mem', sp - 1) \in Nat /\ Owed(mem, sp) \in Nat /\ Due(pc) \in Nat
      /\ Due(Landing(mem[sp])) \in Nat
  BY <1>1, <1>4, OwedType DEF Due
<1>6. ds + Owed(mem, sp) + Due(pc) <= MaxData + StackCells
  BY DEF DepthInv
<1>7. ds' + Owed(mem', sp') + Due(pc') <= MaxData + StackCells
  BY <1>1, <1>3, <1>4, <1>5, <1>6, SizesAssumption
<1>8. ds' <= MaxData + StackCells
  BY <1>1, <1>4, <1>5, <1>7, SizesAssumption
<1>9. pc' \notin {"unwind", "restore", "restorePtr"}
  BY <1>4 DEF Landing
<1>10. \A k \in 1 .. catchDepth' : frames'[k].ds < MaxData
  <2>1. CASE pc \in Going
    BY <2>1 DEF DepthInv, catchVars
  <2>2. CASE pc \in Ending
    <3>1. \A k \in 1 .. catchDepth - 1 : k \in 1 .. catchDepth
      BY <1>1
    <3> QED BY <2>2, <3>1 DEF DepthInv
  <2> QED BY <2>1, <2>2
<1> QED BY <1>7, <1>8, <1>9, <1>10 DEF DepthInv

\* A step that pushes k cells, none of them a CATCH's return address.
LEMMA DepthPushed ==
  ASSUME StackInv, DepthInv, pc \in Going, pc' \in Going, pc # "bareDone",
         pc' \notin {"bareDone", "restorePtr"}, UNCHANGED <<catchVars, tmp, ds>>,
         NEW n \in Nat, sp' = sp + n, Same(mem, mem', sp),
         \A i \in sp + 1 .. sp + n : mem'[i].kind \notin {"xt", "bare"}
  PROVE  DepthInv'
<1>1. sp \in Nat /\ ds \in Nat
  BY DEF StackInv, Typed
<1>2. Owes(mem', sp + n) = Owes(mem, sp)
  <2>1. \A i \in 1 .. sp + n : i \in 1 .. sp \/ i \in sp + 1 .. sp + n
    BY <1>1
  <2>2. \A i \in 1 .. sp : i \in 1 .. sp + n
    BY <1>1
  <2> QED BY <2>1, <2>2 DEF Owes, Same
<1>3. Owed(mem', sp') = Owed(mem, sp)
  BY <1>2 DEF Owed
<1>4. Due(pc) = 0 /\ Due(pc') = 0
  BY DEF Due, Going, AtWord, Ending
<1>5. ds' + Owed(mem', sp') + Due(pc') <= MaxData + StackCells
  BY <1>3, <1>4 DEF DepthInv
<1> QED BY <1>5, DepthStep DEF Going, AtWord

\* A step that takes off one cell of the two a source is kept in.
LEMMA DepthPopped ==
  ASSUME StackInv, DepthInv, pc \in Going \cup Ending, pc' \in Going \cup Ending,
         Due(pc') = Due(pc), pc' # "restorePtr", UNCHANGED <<catchVars, tmp, ds>>,
         sp' = sp - 1, \A i \in 1 .. sp - 1 : mem'[i] = mem[i],
         mem[sp].kind \notin {"xt", "bare"}
  PROVE  DepthInv'
<1>1. sp \in Nat /\ sp >= 1 /\ sp - 1 \in Nat
  BY DEF StackInv, Typed, StackAt
<1>2. Owed(mem, sp) = Owed(mem, sp - 1)
  BY <1>1, OwedStep
<1>3. Owed(mem', sp - 1) = Owed(mem, sp - 1)
  BY <1>1, SameIs, OwedSame
<1>4. ds' + Owed(mem', sp') + Due(pc') <= MaxData + StackCells
  BY <1>2, <1>3 DEF DepthInv
<1> QED BY <1>4, DepthStep DEF Going, AtWord, Ending
-----------------------------------------------------------------------------
(* Each group of actions keeps the data stack's invariant.                  *)
LEMMA ConsoleDepth ==
  ASSUME StackInv, StackInv', DepthInv, Console PROVE DepthInv'
<1>1. CASE EnterLine
  <2>1. sp' = 1 /\ pc' = "run" /\ ds' = ds /\ UNCHANGED <<catchVars, tmp>> /\ pc = "console"
    BY <1>1 DEF EnterLine, StackInv, StackAt, throwVars
  <2>2. ds <= MaxData + StackCells /\ ds \in Nat
    BY <2>1 DEF DepthInv, StackInv, Typed, Going, Ending, AtWord
  <2>3. mem'[1].kind = "root"
    BY <2>1 DEF StackInv, StackAt, Going, Under, AtWord
  <2>4. Owes(mem', 1) = {}
    <3>1. \A i \in 1 .. 1 : i = 1
      OBVIOUS
    <3> QED BY <2>3, <3>1 DEF Owes
  <2>5. Owed(mem', 1) = 0
    BY <2>4, FS_EmptySet DEF Owed
  <2>6. Due(pc') = 0
    BY <2>1 DEF Due, Ending
  <2> QED BY <2>1, <2>2, <2>5, <2>6, DepthStep, SizesAssumption
<1>2. CASE StartRun
  BY <1>2, DepthKept DEF StartRun, Points, Going, Ending, AtWord, Due, throwVars
<1>3. CASE Report
  <2>1. pc = "report" /\ pc' = "back" /\ ds' = ds /\ catchDepth' = 0
    <3>1. rootSp = 1 /\ mem[1].kind \in {"root", "isr"}
      BY <1>3 DEF Report, StackInv, ThrownAt, Thrown
    <3> QED BY <1>3, <3>1 DEF Report, Return, Landing
  <2> QED BY <2>1 DEF DepthInv, Going, Ending, AtWord
<1>4. CASE BackToConsole
  BY <1>4, DepthKept DEF BackToConsole, Points, Going, Ending, AtWord, Due, throwVars
<1> QED BY <1>1, <1>2, <1>3, <1>4 DEF Console

LEMMA InterpreterDepth == ASSUME StackInv, DepthInv, Interpreter PROVE DepthInv'
<1>0. pc = "loop" /\ pc \in Going /\ sp \in Nat
  BY DEF Interpreter, InterpretWord, InterpretError, EndOfSource, Going, StackInv, Typed
<1>1. CASE InterpretWord
  <2>1. sp + 1 <= StackCells
    <3>1. /\ sp >= 1 /\ Sound(mem, sp) /\ mem[sp].kind \in {"root", "nested"}
      BY <1>0 DEF StackInv, StackAt, Under, AtWord
    <3>2. Fits(mem, sp) /\ LevelAt(mem, sp) \in 0 .. MaxNest
      BY <1>0, <3>1, Extents DEF Sound, Texts
    <3> QED BY <1>0, <3>1, <3>2, SizesAssumption, RoomAssumption DEF Fits
  <2>2. mem'[sp + 1].kind = "loop" /\ Same(mem, mem', sp)
    <3>1. Ret("loop") \in Cell /\ mem \in Memory
      BY CellsTyped DEF Kinds, StackInv, Typed
    <3>2. mem' = Forgotten(Pushed(Ret("loop"), mem, sp), sp + 1)
      BY <1>1 DEF InterpretWord
    <3>3. mem'[sp + 1] = Ret("loop") /\ \A i \in 1 .. sp : mem'[i] = mem[i]
      BY <1>0, <2>1, <3>1, <3>2, CallIs
    <3> QED BY <1>0, <3>3, SameIs DEF Ret
  <2>3. \A i \in sp + 1 .. sp + 1 : mem'[i].kind \notin {"xt", "bare"}
    <3>1. \A i \in sp + 1 .. sp + 1 : i = sp + 1
      BY <1>0
    <3> QED BY <2>2, <3>1
  <2> QED BY <1>0, <1>1, <2>2, <2>3, DepthPushed
          DEF InterpretWord, Going, AtWord, throwVars
<1>2. CASE InterpretError
  BY <1>2, DepthKept DEF InterpretError, Points, Going, Ending, AtWord, Due, throwVars
<1>3. CASE EndOfSource
  <2>1. mem[sp].kind \in WordTop \cup {"root", "nested"}
    BY <1>0 DEF StackInv, StackAt, Under, AtWord
  <2>2. ds' = ds + Due(pc)
    BY <1>0, <1>3 DEF EndOfSource, Due, Ending, StackInv, Typed
  <2> QED BY <1>0, <1>3, <2>1, <2>2, DepthReturned DEF EndOfSource, Ending
<1> QED BY <1>1, <1>2, <1>3 DEF Interpreter

LEMMA ThrowsDepth ==
  ASSUME StackInv, DepthInv, pc = "word", StackGuardThrows \/ WordThrows
  PROVE  DepthInv'
BY DepthKept
DEF StackGuardThrows, WordThrows, Points, Going, Ending, AtWord, Due

LEMMA WordDepth ==
  ASSUME StackInv, StackInv', DepthInv, Word PROVE DepthInv'
<1>0. pc = "word" /\ pc \in AtWord /\ pc \in Going /\ Due(pc) = 0
  BY DEF Word, WordWork, WordParses, WordReturns, Recurse, WordThrows, WordAborts,
         AtWord, Going, Due, Ending
<1>1. CASE WordWork
  <2>1. ds' <= MaxData \/ (ds \in Nat /\ ds' = ds - 1 /\ ds > 0)
    BY <1>1, SizesAssumption DEF WordWork, StackInv, Typed
  <2>2. pc' = "word" /\ UNCHANGED <<mem, sp, catchVars, tmp>>
    BY <1>0, <1>1 DEF WordWork, throwVars
  <2>3. pc' \in Going /\ pc' \notin {"unwind", "restore", "restorePtr"}
    BY <2>2 DEF Going, AtWord
  <2>4. CASE ds' <= MaxData
    BY <2>2, <2>3, <2>4, DepthWithin, DepthStep
  <2>5. CASE ds \in Nat /\ ds' = ds - 1 /\ ds > 0
    <3>1. ds + Owed(mem, sp) + Due(pc) <= MaxData + StackCells
      BY <1>0 DEF DepthInv
    <3>2. Owed(mem, sp) \in Nat
      BY <1>0, AtWordIs, OwedType
    <3>3. ds' + Owed(mem', sp') + Due(pc') <= MaxData + StackCells
      BY <1>0, <2>2, <2>5, <3>1, <3>2, SizesAssumption
    <3> QED BY <2>2, <2>3, <3>3, DepthStep
  <2> QED BY <2>1, <2>4, <2>5
<1>2. CASE WordParses \/ WordAborts
  BY <1>2, DepthKept
  DEF WordParses, WordAborts, Points, Going, Ending, AtWord, Due, throwVars
<1>3. CASE WordReturns
  <2>1. \A i \in 1 .. sp - 1 : mem'[i] = mem[i]
    <3>1. sp - 1 <= StackCells
      BY <1>0, AtWordIs, SizesAssumption
    <3> QED BY <1>0, <1>3, <3>1, AtWordIs, ForgottenIs DEF WordReturns
  <2>2. ds' = ds + Due(pc)
    BY <1>0, <1>3 DEF WordReturns, StackInv, Typed
  <2> QED BY <1>0, <1>3, <2>1, <2>2, AtWordIs, DepthReturned DEF WordReturns, Ending
<1>4. CASE Recurse
  <2>1. CASE StackGuardThrows
    BY <1>0, <2>1, ThrowsDepth
  <2>2. CASE ~ StackGuardThrows
    <3>1. /\ StackGuardPasses /\ pc' = "word" /\ sp' = sp + 1
          /\ mem' = Forgotten(Pushed(Ret("call"), mem, sp), sp + 1)
          /\ UNCHANGED <<catchVars, tmp, ds>>
      BY <1>4, <2>2 DEF Recurse, throwVars
    <3>2. sp + 1 <= StackCells
      BY <1>0, <3>1, AtWordIs, SizesAssumption, RoomAssumption DEF StackGuardPasses
    <3>3. mem'[sp + 1] = Ret("call") /\ \A i \in 1 .. sp : mem'[i] = mem[i]
      <4>1. Ret("call") \in Cell
        BY CellsTyped DEF Kinds
      <4> QED BY <1>0, <3>1, <3>2, <4>1, AtWordIs, CallIs
    <3>4. Same(mem, mem', sp)
      BY <1>0, <3>3, AtWordIs, SameIs
    <3>5. \A i \in sp + 1 .. sp + 1 : mem'[i].kind \notin {"xt", "bare"}
      <4>1. \A i \in sp + 1 .. sp + 1 : i = sp + 1
        BY <1>0, AtWordIs
      <4> QED BY <3>3, <4>1 DEF Ret
    <3> QED BY <1>0, <3>1, <3>4, <3>5, DepthPushed
  <2> QED BY <2>1, <2>2
<1>5. CASE WordThrows
  BY <1>0, <1>5, ThrowsDepth
<1> QED BY <1>1, <1>2, <1>3, <1>4, <1>5 DEF Word

LEMMA CatchStepsDepth ==
  ASSUME StackInv, StackInv', DepthInv, CatchSteps PROVE DepthInv'
<1>1. CASE Catch
  <2>1. pc = "word" /\ ds < MaxData
    BY <1>1 DEF Catch
  <2>2. CASE StackGuardThrows
    BY <2>1, <2>2, ThrowsDepth
  <2>3. CASE ~ StackGuardThrows
    <3>1. pc' \in {"catch", "word"} /\ UNCHANGED <<catchVars, tmp, ds>>
      BY <1>1, <2>3 DEF Catch, throwVars
    <3>2. pc' \in Going /\ ds' <= MaxData
      BY <2>1, <3>1, SizesAssumption DEF Going, AtWord, StackInv, Typed
    <3> QED BY <3>1, <3>2, DepthWithin, DepthStep
  <2> QED BY <2>2, <2>3
<1>2. CASE CatchFrame
  <2>1. /\ pc = "catch" /\ pc' = "catchGo" /\ ds' = ds /\ ds < MaxData
        /\ catchDepth' = catchDepth + 1 /\ catchDepth < CATCH_MAX_DEPTH
        /\ frames' = [frames EXCEPT ![catchDepth + 1] = [sp |-> sp, ds |-> ds]]
        /\ ds \in Nat /\ catchDepth \in Nat /\ frames \in Slots
    BY <1>2, SizesAssumption DEF CatchFrame, StackInv, Typed, StackAt
  <2>2. ds' + Owed(mem', sp') + Due(pc') <= MaxData + StackCells
    <3>1. pc' \in Ending /\ ds' <= MaxData
      BY <2>1, SizesAssumption DEF Ending
    <3> QED BY <3>1, DepthWithin
  <2>3. \A k \in 1 .. catchDepth + 1 : frames'[k].ds < MaxData
    <3>1. \A k \in 1 .. catchDepth + 1 : k \in 1 .. catchDepth \/ k = catchDepth + 1
      BY <2>1
    <3>2. catchDepth + 1 \in 1 .. CATCH_MAX_DEPTH
      BY <2>1, SizesAssumption
    <3>3. \A k \in 1 .. catchDepth : k # catchDepth + 1 /\ k \in 1 .. CATCH_MAX_DEPTH
      BY <2>1, SizesAssumption
    <3>4. frames'[catchDepth + 1].ds = ds
      BY <2>1, <3>2 DEF Slots
    <3>5. \A k \in 1 .. catchDepth : frames'[k] = frames[k]
      BY <2>1, <3>3 DEF Slots
    <3> QED BY <2>1, <3>1, <3>4, <3>5 DEF DepthInv
  <2> QED BY <2>1, <2>2, <2>3 DEF DepthInv, Going, Ending, AtWord
<1>3. CASE CatchRunsXt
  <2>1. /\ pc = "catchGo" /\ pc \in Ending /\ pc' = "word" /\ sp' = sp + 1
        /\ mem' = Pushed(Ret("xt"), mem, sp) /\ UNCHANGED <<catchVars, tmp, ds>>
    BY <1>3 DEF CatchRunsXt, Ending, throwVars
  <2>2. sp + 1 <= StackCells /\ sp + 1 \in Nat /\ sp + 1 >= 1 /\ sp + 1 - 1 = sp
    <3>1. sp <= GuardCell + 1
      BY <2>1 DEF StackInv, StackAt
    <3> QED BY <2>1, <3>1, EndingIs, SizesAssumption, RoomAssumption
  <2>3. mem'[sp + 1].kind = "xt" /\ Same(mem, mem', sp)
    <3>1. Ret("xt") \in Cell
      BY CellsTyped DEF Kinds
    <3>2. mem'[sp + 1] = Ret("xt") /\ \A i \in 1 .. sp : mem'[i] = mem[i]
      BY <2>1, <2>2, <3>1, EndingIs, PushedIs
    <3> QED BY <2>1, <3>2, EndingIs, SameIs DEF Ret
  <2>4. Owed(mem', sp + 1) = Owed(mem, sp) + 1
    <3>1. mem'[sp + 1].kind \in {"xt", "bare"}
      BY <2>3
    <3> QED BY <2>1, <2>3, <3>1, EndingIs, OwedPushOwed
  <2>5. Due(pc) = 1 /\ Due(pc') = 0
    BY <2>1 DEF Due, Ending
  <2>6. ds + Owed(mem, sp) + Due(pc) <= MaxData + StackCells
    BY <2>1 DEF DepthInv
  <2>7. Owed(mem, sp) \in Nat /\ ds \in Nat
    BY <2>1, EndingIs, OwedType DEF StackInv, Typed
  <2>8. ds' + Owed(mem', sp') + Due(pc') <= MaxData + StackCells
    BY <2>1, <2>4, <2>5, <2>6, <2>7, SizesAssumption
  <2>9. pc' \in Going /\ pc' \notin {"unwind", "restore", "restorePtr"}
    BY <2>1 DEF Going, AtWord
  <2> QED BY <2>1, <2>8, <2>9, DepthStep
<1>4. CASE CatchPops
  <2>1. /\ pc \in {"xtDone", "xtPop"} /\ pc \in Ending /\ sp' = sp - 1
        /\ pc' \in {"xtPop", "xtPopped"} /\ mem' = mem
        /\ UNCHANGED <<catchVars, tmp, ds>>
    BY <1>4 DEF CatchPops, Ending, throwVars
  <2>2. mem[sp].kind \in {"ptr", "end"}
    BY <2>1, EndingIs DEF Under, AtWord
  <2>3. Due(pc') = Due(pc) /\ pc' \in Ending
    BY <2>1 DEF Due, Ending
  <2> QED BY <2>1, <2>2, <2>3, DepthPopped
<1>5. CASE CatchReturns
  <2>1. /\ pc = "xtPopped" /\ pc \in Ending /\ pc \notin Going
        /\ catchDepth' = catchDepth - 1
        /\ frames' = [frames EXCEPT ![catchDepth] = NoFrame] /\ ds' = ds + 1
        /\ mem' = Forgotten(mem, sp) /\ Return(sp, mem)
    BY <1>5 DEF CatchReturns, Released, Ending, Going, AtWord
  <2>2. \A i \in 1 .. sp - 1 : mem'[i] = mem[i]
    <3>1. \A i \in 1 .. sp - 1 : i \in 1 .. sp
      BY <2>1, EndingIs
    <3> QED BY <2>1, <3>1, EndingIs, ForgottenIs
  <2>3. \A k \in 1 .. catchDepth - 1 : frames'[k] = frames[k]
    <3>1. \A k \in 1 .. catchDepth - 1 : k # catchDepth /\ k \in 1 .. CATCH_MAX_DEPTH
      BY <2>1, EndingIs, SizesAssumption
    <3> QED BY <2>1, <3>1, EndingIs DEF Slots
  <2>4. Due(pc) = 1
    BY <2>1 DEF Due
  <2> QED BY <2>1, <2>2, <2>3, <2>4, DepthReturned
<1>6. CASE BareCatchReturns
  <2>1. /\ pc = "bareDone" /\ pc \in AtWord /\ pc \notin Ending /\ ds' = ds + 1
        /\ mem' = Forgotten(mem, sp) /\ Return(sp, mem) /\ UNCHANGED catchVars
    BY <1>6 DEF BareCatchReturns, AtWord, Ending
  <2>2. \A i \in 1 .. sp - 1 : mem'[i] = mem[i]
    <3>1. \A i \in 1 .. sp - 1 : i \in 1 .. sp
      BY <2>1, AtWordIs
    <3> QED BY <2>1, <3>1, AtWordIs, ForgottenIs
  <2>3. Due(pc) = 1
    BY <2>1 DEF Due
  <2> QED BY <2>1, <2>2, <2>3, AtWordIs, DepthReturned
<1> QED BY <1>1, <1>2, <1>3, <1>4, <1>5, <1>6 DEF CatchSteps

LEMMA ThrowDepth ==
  ASSUME StackInv, StackInv', DepthInv, Throw PROVE DepthInv'
<1>1. CASE Uncaught
  BY <1>1, SizesAssumption
  DEF Uncaught, ScratchDone, DepthInv, catchVars, Going, Ending, AtWord
<1>2. CASE TakeFrame
  <2>1. /\ pc = "throw" /\ pc' = "unwind" /\ ds' = ds /\ tmp' = frames[catchDepth]
        /\ catchDepth' = catchDepth - 1 /\ catchDepth \in 1 .. CATCH_MAX_DEPTH
        /\ frames' = [frames EXCEPT ![catchDepth] = NoFrame] /\ frames \in Slots
    BY <1>2, SizesAssumption DEF TakeFrame, Released, StackInv, Typed
  <2>2. \A k \in 1 .. catchDepth - 1 : frames'[k] = frames[k] /\ k \in 1 .. catchDepth
    BY <2>1, SizesAssumption DEF Slots
  <2>3. catchDepth \in 1 .. catchDepth
    BY <2>1
  <2> QED BY <2>1, <2>2, <2>3 DEF DepthInv, Going, Ending, AtWord
<1>3. CASE Unwind
  <2>1. /\ pc = "unwind" /\ pc' = "restore" /\ ds' = tmp.ds
        /\ UNCHANGED <<catchVars, tmp>> /\ ds' \in Nat
    BY <1>3 DEF Unwind, throwVars, StackInv, Typed
  <2> QED BY <2>1, SizesAssumption DEF DepthInv, Going, Ending, AtWord, catchVars
<1>4. CASE RestoreSource \/ RestorePtr
  <2>1. /\ pc \in {"restore", "restorePtr"} /\ UNCHANGED catchVars /\ ds < MaxData
        /\ ds \in Nat
    BY <1>4 DEF RestoreSource, RestorePtr, DepthInv, StackInv, Typed
  <2>2. CASE pc' = "restorePtr"
    <3>1. ds' = ds
      BY <1>4, <2>2 DEF RestoreSource, RestorePtr, Caught, Return, Landing
    <3>2. ds' + Owed(mem', sp') + Due(pc') <= MaxData + StackCells
      <4>1. pc' \in Going /\ ds' <= MaxData
        BY <2>1, <2>2, <3>1, SizesAssumption DEF Going, AtWord
      <4> QED BY <4>1, DepthWithin
    <3> QED BY <2>1, <2>2, <3>1, <3>2 DEF DepthInv, catchVars, Going, AtWord
  <2>3. CASE pc' # "restorePtr"
    <3>1. ds' = ds + 1 /\ \E c : pc' = Landing(c)
      BY <1>4, <2>3 DEF RestoreSource, RestorePtr, Caught, Return
    <3>2. ds' <= MaxData /\ pc' \notin {"unwind", "restore", "restorePtr"}
      BY <2>1, <3>1, SizesAssumption DEF Landing
    <3>3. \A k \in 1 .. catchDepth' : frames'[k].ds < MaxData
      BY <2>1 DEF DepthInv, catchVars
    <3>4. pc' \in Going \cup Ending => ds' + Owed(mem', sp') + Due(pc') <= MaxData + StackCells
      BY <3>2, DepthWithin
    <3>5. ds' <= MaxData + StackCells
      BY <2>1, <3>1, <3>2, SizesAssumption
    <3> QED BY <3>2, <3>3, <3>4, <3>5 DEF DepthInv
  <2> QED BY <2>2, <2>3
<1> QED BY <1>1, <1>2, <1>3, <1>4 DEF Throw

LEMMA NestDepth ==
  ASSUME StackInv, DepthInv, pc \in {"word", "edit"}, pc' = "nest", sp' = sp + 3,
         LevelAt(mem, sp) < MaxNest, UNCHANGED <<catchVars, tmp, ds>>,
         NEW p \in Addresses,
         mem' = Pushed(NestedCall(Level + 1), SourceKept(p), sp + 2)
  PROVE  DepthInv'
<1>1. /\ Same(mem, mem', sp) /\ mem'[sp + 1] = End(srcEnd)
      /\ mem'[sp + 2] = Ptr(p) /\ mem'[sp + 3].kind = "nested"
  BY SourceKeptIs
<1>2. \A i \in sp + 1 .. sp + 3 : i = sp + 1 \/ i = sp + 2 \/ i = sp + 3
  BY DEF StackInv, Typed
<1>3. \A i \in sp + 1 .. sp + 3 : mem'[i].kind \in {"end", "ptr", "nested"}
  BY <1>1, <1>2 DEF End, Ptr
<1>4. \A i \in sp + 1 .. sp + 3 : mem'[i].kind \notin {"xt", "bare"}
  BY <1>3
<1>5. pc \in Going /\ pc' \in Going /\ 3 \in Nat
  BY DEF Going, AtWord
<1> QED BY <1>1, <1>4, <1>5, DepthPushed

LEMMA NestedDepth == ASSUME StackInv, DepthInv, Nested PROVE DepthInv'
<1>1. CASE LoadText
  <2>1. pc = "word" /\ UNCHANGED <<catchVars, tmp, ds>> /\ ReadWord
    BY <1>1 DEF LoadText
  <2>2. CASE pc' = "nest"
    <3>1. /\ LevelAt(mem, sp) < MaxNest /\ sp' = sp + 3
          /\ mem' = Pushed(NestedCall(Level + 1), SourceKept(Past(srcPtr)), sp + 2)
      BY <1>1, <2>2, LevelIs DEF LoadText
    <3>2. Past(srcPtr) \in Addresses
      BY <2>1, ReadTyped DEF StackInv
    <3> QED BY <2>1, <2>2, <3>1, <3>2, NestDepth
  <2>3. CASE pc' # "nest"
    <3>1. pc' \in {"throw", "stop"} /\ UNCHANGED <<mem, sp>>
      BY <1>1, <2>3 DEF LoadText
    <3> QED BY <2>1, <3>1, DepthKept DEF Points, Going, Ending, AtWord, Due
  <2> QED BY <2>2, <2>3
<1>2. CASE EditView \/ EditViewLeft \/ EditSectionEnds
  <2>1. /\ pc \in {"word", "view", "viewEnd"}
        /\ pc' \in {"view", "viewEnd", "word", "report", "edit"}
        /\ UNCHANGED <<mem, sp, catchVars, tmp>> /\ ds' \in {0, ds}
    BY <1>2 DEF EditView, EditViewLeft, EditSectionEnds, throwVars
  <2> QED BY <2>1, DepthKept DEF Points, Going, Ending, AtWord, Due
<1>3. CASE EditCommit
  <2>1. /\ pc = "edit" /\ pc' = "nest" /\ sp' = sp + 3
        /\ mem' = Pushed(NestedCall(Level + 1), SourceKept(srcPtr), sp + 2)
        /\ UNCHANGED <<catchVars, tmp, ds>>
    BY <1>3 DEF EditCommit, throwVars
  <2>2. LevelAt(mem, sp) < MaxNest /\ srcPtr \in Addresses
    BY <2>1 DEF StackInv, StackAt, Typed
  <2> QED BY <2>1, <2>2, NestDepth
<1>4. CASE NestPtr \/ NestEnd
  <2>1. /\ pc \in {"nest", "nestPtr"} /\ pc' \in {"nestPtr", "loop"} /\ ds' = ds
        /\ UNCHANGED <<mem, sp, catchVars, tmp>>
    BY <1>4 DEF NestPtr, NestEnd, throwVars
  <2> QED BY <2>1, DepthKept DEF Points, Going, Ending, AtWord, Due
<1>5. CASE EditNextLine
  <2>1. /\ pc = "nestEnd" /\ pc' = "nest" /\ sp' = sp + 1
        /\ mem' = Forgotten(Pushed(NestedCall(Level + 1), mem, sp), sp + 1)
        /\ UNCHANGED <<catchVars, tmp, ds>>
    BY <1>5 DEF EditNextLine, throwVars
  <2>2. NestedCall(Level + 1) \in Cell /\ NestedCall(Level + 1).kind = "nested"
    <3>1. Level + 1 \in Addresses
      BY <2>1, NestedIs, LevelIs, TextsAreAddresses, SizesAssumption DEF Texts
    <3> QED BY <3>1 DEF NestedCall, Cell, Kinds
  <2>3. mem'[sp + 1].kind = "nested" /\ \A i \in 1 .. sp : mem'[i] = mem[i]
    BY <2>1, <2>2, NestedIs, CallIs
  <2>4. Same(mem, mem', sp)
    BY <2>1, <2>3, NestedIs, SameIs
  <2>5. \A i \in sp + 1 .. sp + 1 : i = sp + 1
    BY <2>1, NestedIs
  <2>6. \A i \in sp + 1 .. sp + 1 : mem'[i].kind \notin {"xt", "bare"}
    BY <2>3, <2>5
  <2>7. pc \in Going /\ pc' \in Going
    BY <2>1 DEF Going
  <2> QED BY <2>1, <2>4, <2>6, <2>7, DepthPushed
<1>6. CASE NestedReturns \/ NestedReturned
  <2>1. /\ pc \in {"nestEnd", "nestEndPtr"} /\ sp' = sp - 1
        /\ pc' \in {"nestEndPtr", "word"}
        /\ mem' \in {mem, Forgotten(mem, sp - 1)}
        /\ UNCHANGED <<catchVars, tmp, ds>>
    BY <1>6 DEF NestedReturns, NestedReturned, throwVars
  <2>2. \A i \in 1 .. sp - 1 : mem'[i] = mem[i]
    <3>1. sp - 1 <= StackCells
      BY <2>1, NestedIs, SizesAssumption
    <3> QED BY <2>1, <3>1, NestedIs, ForgottenIs
  <2>3. mem[sp].kind \notin {"xt", "bare"}
    BY <2>1, NestedIs
  <2>4. Due(pc') = Due(pc) /\ pc \in Going /\ pc' \in Going
    BY <2>1 DEF Due, Going, AtWord, Ending
  <2> QED BY <2>1, <2>2, <2>3, <2>4, DepthPopped
<1> QED BY <1>1, <1>2, <1>3, <1>4, <1>5, <1>6 DEF Nested

LEMMA SectionDepth == ASSUME StackInv, DepthInv, Section PROVE DepthInv'
<1>1. /\ pc \in {"word", "section", "sectionEnd", "stop"}
      /\ pc' \in {"section", "sectionEnd", "stop", "word", "throw"}
      /\ pc = "stop" => pc' = "throw"
      /\ UNCHANGED <<mem, sp, catchVars, tmp, ds>>
  BY DEF Section, SectionStarts, SectionReleases, SectionStops, BreakStop, throwVars
<1> QED BY <1>1, DepthKept DEF Points, Going, Ending, AtWord, Due

LEMMA BreakDepth == ASSUME StackInv, DepthInv, Break PROVE DepthInv'
<1>1. /\ UNCHANGED <<catchVars, tmp, ds>>
      /\ mem' = Pushed(Isr, Pushed(Isr, mem, sp), sp + 1)
      /\ (pc' = pc /\ sp' = sp) \/ pc' = "stop"
  BY DEF Break, throwVars
<1>2. sp \in Nat /\ mem \in Memory /\ ds \in Nat /\ Owed(mem, sp) \in Nat /\ Due(pc) \in Nat
  BY OwedType DEF StackInv, Typed, Due
<1>3. ds <= MaxData + StackCells
  BY <1>2, SizesAssumption DEF DepthInv
<1>4. CASE pc' = pc /\ sp' = sp
  <2>1. \A i \in 1 .. sp : mem'[i] = mem[i]
    <3> DEFINE m1 == Pushed(Isr, mem, sp)
    <3>1. Isr \in Cell /\ sp + 1 \in Nat
      BY <1>2, CellsTyped
    <3>2. m1 \in Memory /\ \A i \in 1 .. sp : m1[i] = mem[i]
      BY <1>2, <3>1, PushedTyped
    <3> HIDE DEF m1
    <3>3. \A i \in 1 .. sp + 1 : Pushed(Isr, m1, sp + 1)[i] = m1[i]
      BY <3>1, <3>2, PushedTyped
    <3>4. \A i \in 1 .. sp : i \in 1 .. sp + 1
      BY <1>2
    <3> QED BY <1>1, <3>2, <3>3, <3>4 DEF m1
  <2>2. Owed(mem', sp) = Owed(mem, sp)
    BY <1>2, <2>1, SameIs, OwedSame
  <2> QED BY <1>1, <1>4, <2>2 DEF DepthInv, catchVars
<1>5. CASE pc' = "stop"
  BY <1>1, <1>3, <1>5, DepthStep DEF Going, Ending, AtWord
<1> QED BY <1>1, <1>4, <1>5

(* Every step keeps it.                                                     *)
LEMMA DepthInvStep ==
  ASSUME StackInv, StackInv', DepthInv, [Next]_vars PROVE DepthInv'
<1>1. CASE UNCHANGED vars
  BY <1>1 DEF vars, DepthInv
<1> QED BY <1>1, ConsoleDepth, InterpreterDepth, WordDepth, CatchStepsDepth,
           ThrowDepth, NestedDepth, SectionDepth, BreakDepth DEF Next, Cpu
-----------------------------------------------------------------------------
(* Every variable keeps its type for every size of the two stacks, wherever a*)
(* BREAK falls: CATCH's frames fit their table, a text's position stays an  *)
(* address, and the data stack never needs more than a result per CATCH on top*)
(* of what words leave.                                                     *)
THEOREM TypeCorrect == Spec => []TypeOK
<1> DEFINE IInv == StackInv /\ DepthInv /\ SectionInv
<1>1. Init => IInv
  BY InitStack, InitDepth DEF Init, SectionInv, Deferring
<1>2. IInv /\ [Next]_vars => IInv'
  <2>1. ASSUME StackInv, DepthInv, SectionInv, [Next]_vars
        PROVE  StackInv' /\ DepthInv' /\ SectionInv'
    BY <2>1, StackStep, DepthInvStep, SectionInvStep
  <2> QED BY <2>1
<1>3. IInv => TypeOK
  <2> SUFFICES ASSUME StackInv, DepthInv, SectionInv PROVE TypeOK
    OBVIOUS
  <2>1. ds \in DataDepths
    <3>1. Owed(mem, sp) \in Nat /\ Due(pc) \in Nat /\ ds \in Nat
      BY OwedType DEF StackInv, Typed, Due
    <3> QED BY <3>1, SizesAssumption DEF DepthInv, DataDepths
  <2>2. nobrk \in 0 .. 1
    BY DEF SectionInv
  <2> QED BY <2>1, <2>2 DEF StackInv, Typed, TypeOK, Memory, Slots
<1> HIDE DEF IInv
<1> QED BY <1>1, <1>2, <1>3, PTL DEF Spec
-----------------------------------------------------------------------------
(* The source.                                                              *)

\* The points between two stores of SRC_PTR and SRC_END, or after the cells
\* they are kept in were popped.
NoBreakBetweenStores == {"xtPopped", "nestPtr", "restorePtr"} \subseteq Shielded

\* The source each nested run among the first h cells keeps is the text of the
\* level below, read as far as r says.
CellSource(m, i, r) ==
  m[i].kind = "nested" =>
    /\ m[i - 1].val = r[LevelAt(m, i - 1)]
    /\ m[i - 2].val = TextEnd(LevelAt(m, i - 1))
Kept(m, h, r) == \A i \in 1 .. h : CellSource(m, i, r)

\* A frame's source is its level's text; its position is the current one while
\* that text is still the source, and the frame's own cell otherwise.
FrameSource(m, fr, ptr, end, r) ==
  /\ m[fr.sp - 1].val = TextEnd(LevelAt(m, fr.sp - 2))
  /\ TextEnd(LevelAt(m, fr.sp - 2)) <= end
  /\ TextEnd(LevelAt(m, fr.sp - 2)) = end => ptr = r[LevelAt(m, fr.sp - 2)]
  /\ TextEnd(LevelAt(m, fr.sp - 2)) # end =>
       m[fr.sp].val = r[LevelAt(m, fr.sp - 2)]
  /\ Kept(m, fr.sp - 2, r)
FramesSource(m, f, n, ptr, end, r) ==
  \A k \in 1 .. n : FrameSource(m, f[k], ptr, end, r)

\* Every frame's own cells hold its source.
FramesNoted(m, f, n, r) ==
  \A k \in 1 .. n : /\ m[f[k].sp - 1].val = TextEnd(LevelAt(m, f[k].sp - 2))
                    /\ m[f[k].sp].val = r[LevelAt(m, f[k].sp - 2)]
                    /\ Kept(m, f[k].sp - 2, r)

OwnSource == AtWord \cup Ending \cup {"loop", "catch"}
Position == IF pc = "restorePtr" THEN regPtr ELSE srcPtr

SourceInv ==
  /\ pc # "nestPtr" =>
       FramesSource(mem, frames, catchDepth, Position, srcEnd, reached)
  /\ pc \in Going \cup Ending => Kept(mem, sp, reached)
  /\ pc \in OwnSource => /\ srcEnd = TextEnd(LevelAt(mem, sp))
                         /\ Position = reached[LevelAt(mem, sp)]
  /\ pc = "catch" => mem[sp - 1].val = srcEnd
  /\ pc \in {"unwind", "restore"} => FrameSource(mem, tmp, srcPtr, srcEnd, reached)
  /\ pc \in {"nest", "nestPtr"} => FramesNoted(mem, frames, catchDepth, reached)
  /\ pc = "nestPtr" => srcPtr = reached[LevelAt(mem, sp)]
  /\ pc \in {"nestEnd", "nestEndPtr"} => srcEnd = TextEnd(LevelAt(mem, sp) + 1)
  /\ pc = "nestEnd" => /\ mem[sp].val = reached[LevelAt(mem, sp)]
                       /\ mem[sp - 1].val = TextEnd(LevelAt(mem, sp))
  /\ pc = "nestEndPtr" => /\ srcPtr = reached[LevelAt(mem, sp)]
                          /\ mem[sp].val = TextEnd(LevelAt(mem, sp))
-----------------------------------------------------------------------------
(* Texts and levels.                                                        *)

(* A text's end tells its level, and deeper texts end later.                *)
LEMMA TextEnds ==
  \A a, b \in Nat : /\ TextEnd(a) \in Nat
                    /\ a < b => TextEnd(a) < TextEnd(b)
                    /\ TextEnd(a) = TextEnd(b) => a = b
<1>1. ASSUME NEW a \in Nat PROVE TextEnd(a) \in Nat
  BY SizesAssumption DEF TextEnd, TextStart
<1>2. ASSUME NEW a \in Nat, NEW b \in Nat, a < b PROVE TextEnd(a) < TextEnd(b)
  <2>1. TextLen + 1 \in Nat /\ b - a \in Nat /\ b - a >= 1
    BY <1>2, SizesAssumption
  <2>2. b * (TextLen + 1) = a * (TextLen + 1) + (b - a) * (TextLen + 1)
    BY <2>1
  <2>3. (b - a) * (TextLen + 1) = (b - a) * TextLen + (b - a) /\ (b - a) * TextLen \in Nat
    BY <2>1, SizesAssumption
  <2>4. a * (TextLen + 1) \in Nat /\ b * (TextLen + 1) \in Nat
    BY <2>1
  <2> QED BY <2>1, <2>2, <2>3, <2>4, SizesAssumption DEF TextEnd, TextStart
<1>3. ASSUME NEW a \in Nat, NEW b \in Nat, TextEnd(a) = TextEnd(b) PROVE a = b
  <2>1. a < b \/ b < a \/ a = b
    OBVIOUS
  <2> QED BY <1>1, <1>2, <1>3, <2>1
<1> QED BY <1>1, <1>2, <1>3

(* The levels below the top of a sound stack are texts, none deeper than it.*)
LEMMA LevelsBelow ==
  ASSUME NEW m, NEW h \in Nat, h >= 1, Sound(m, h), NEW i \in 0 .. h
  PROVE  /\ LevelAt(m, i) \in Texts /\ LevelAt(m, i) \in Nat
         /\ LevelAt(m, i) <= LevelAt(m, h)
<1>1. LevelAt(m, 0) = 0 /\ 0 \in Texts /\ Texts \subseteq Nat
  BY LevelAtZero, SizesAssumption DEF Texts
<1>2. i # 0 => Fits(m, i)
  BY DEF Sound
<1>3. i # 0 => LevelAt(m, i) \in Texts
  BY <1>2 DEF Fits
<1>4. Fits(m, h)
  BY DEF Sound
<1>5. LevelAt(m, i) <= LevelAt(m, h)
  BY <1>4 DEF Fits
<1> QED BY <1>1, <1>3, <1>5

\* Where the frames' sources are.
LEMMA FrameIs ==
  ASSUME StackInv, NEW k \in 1 .. catchDepth
  PROVE  /\ frames[k] \in Frame /\ frames[k].sp \in Nat /\ frames[k].sp >= 3
         /\ frames[k].sp - 2 \in Nat /\ frames[k].sp - 2 >= 1
         /\ frames[k].sp - 1 \in 1 .. frames[k].sp
         /\ Sound(mem, frames[k].sp - 2)
         /\ LevelAt(mem, frames[k].sp - 2) \in Texts
         /\ LevelAt(mem, frames[k].sp - 2) \in Nat
         /\ pc \in Going \cup Ending =>
              LevelAt(mem, frames[k].sp - 2) <= LevelAt(mem, sp)
<1>1. frames[k] \in Frame /\ frames[k].sp \in Nat /\ frames[k].sp >= 3
  BY Extents
<1>2. frames[k].sp - 2 \in Nat /\ frames[k].sp - 2 >= 1
      /\ frames[k].sp - 1 \in 1 .. frames[k].sp
  BY <1>1
<1>3. Sound(mem, frames[k].sp - 2)
  BY DEF StackInv, Bases, Base
<1>4. frames[k].sp - 2 \in 0 .. frames[k].sp - 2
  BY <1>2
<1>5. LevelAt(mem, frames[k].sp - 2) \in Texts /\ LevelAt(mem, frames[k].sp - 2) \in Nat
  BY <1>2, <1>3, <1>4, LevelsBelow
<1>6. ASSUME pc \in Going \cup Ending
      PROVE  LevelAt(mem, frames[k].sp - 2) <= LevelAt(mem, sp)
  <2>1. sp \in Nat /\ sp >= 1 /\ Sound(mem, sp)
    BY <1>6 DEF StackInv, Typed, StackAt
  <2>2. frames[k].sp <= sp + 2
    BY <1>1, <2>1, Extents
  <2>3. frames[k].sp - 2 \in 0 .. sp
    BY <1>1, <1>2, <2>1, <2>2
  <2> QED BY <2>1, <2>3, LevelsBelow
<1> QED BY <1>1, <1>2, <1>3, <1>5, <1>6

(* The level again, from the cells alone.                                   *)
LEMMA LevelEqual ==
  ASSUME NEW m, NEW m2, NEW h \in Nat, \A i \in 1 .. h : m2[i] = m[i]
  PROVE  LevelAt(m2, h) = LevelAt(m, h)
BY SameIs, LevelAtSame

(* A cell that is no nested run's keeps the level.                          *)
LEMMA LevelPush ==
  ASSUME NEW m, NEW h \in Nat, m[h + 1].kind # "nested"
  PROVE  LevelAt(m, h + 1) = LevelAt(m, h)
<1>1. h + 1 \in Nat /\ h + 1 >= 1 /\ h + 1 - 1 = h
  OBVIOUS
<1>2. LevelAt(m, h + 1) = LevelAt(m, h + 1 - 1)
  BY <1>1, LevelAtStep
<1> QED BY <1>1, <1>2

\* What is under a nested run's call.
LEMMA UnderNested ==
  ASSUME NEW m, NEW h \in Nat, Sound(m, h), NEW i \in 1 .. h, m[i].kind = "nested"
  PROVE  /\ i >= 3 /\ i - 1 \in 1 .. h /\ i - 2 \in 1 .. h
         /\ m[i - 1].kind = "ptr" /\ m[i - 2].kind = "end"
         /\ LevelAt(m, i) = LevelAt(m, i - 1) + 1
         /\ LevelAt(m, i - 1) \in Nat
<1>1. Fits(m, i)
  BY DEF Sound
<1>2. i # 1 /\ m[i - 1].kind = "ptr" /\ m[i].val = LevelAt(m, i - 1) + 1
  BY <1>1 DEF Fits
<1>3. PICK j \in 1 .. h : j = i - 1
  BY <1>2
<1>4. Fits(m, j)
  BY DEF Sound
<1>5. j # 1 /\ m[j - 1].kind = "end"
  BY <1>2, <1>3, <1>4 DEF Fits
<1>6. i >= 3 /\ i - 1 \in 1 .. h /\ i - 2 \in 1 .. h /\ j - 1 = i - 2
  BY <1>2, <1>3, <1>5
<1>7. LevelAt(m, i) = LevelAt(m, i - 1) + 1
  <2>1. i \in Nat /\ i >= 1
    OBVIOUS
  <2> QED BY <1>2, <2>1, LevelAtStep
<1>8. LevelAt(m, i - 1) \in Nat
  <2>1. LevelAt(m, j) \in Texts
    BY <1>4 DEF Fits
  <2> QED BY <1>3, <2>1, SizesAssumption DEF Texts
<1> QED BY <1>2, <1>5, <1>6, <1>7, <1>8
-----------------------------------------------------------------------------
(* The kept sources in another memory, and after a word was read.           *)

(* The sources nested runs keep stay right in another memory and after more *)
(* was read, if their cells and the texts below them did not change.        *)
LEMMA KeptOther ==
  ASSUME NEW m, NEW m2, NEW h \in Nat, NEW r, NEW r2,
         Sound(m, h), Same(m, m2, h), Kept(m, h, r),
         \A i \in 1 .. h : m[i].kind = "nested" =>
           /\ m2[i - 1].val = m[i - 1].val /\ m2[i - 2].val = m[i - 2].val
           /\ r2[LevelAt(m, i - 1)] = r[LevelAt(m, i - 1)]
  PROVE  Kept(m2, h, r2)
<1> SUFFICES ASSUME NEW i \in 1 .. h PROVE CellSource(m2, i, r2)
  BY DEF Kept
<1>1. m2[i].kind = m[i].kind
  BY DEF Same
<1>2. CellSource(m, i, r)
  BY DEF Kept
<1>3. LevelAt(m2, i - 1) = LevelAt(m, i - 1)
  <2>1. i - 1 \in 0 .. h
    OBVIOUS
  <2> QED BY <2>1, LevelAtSameBelow
<1> QED BY <1>1, <1>2, <1>3 DEF CellSource

(* In particular where every cell stays the same.                           *)
LEMMA KeptSame ==
  ASSUME NEW m, NEW m2, NEW h \in Nat, NEW r, Sound(m, h),
         \A i \in 1 .. h : m2[i] = m[i], Kept(m, h, r)
  PROVE  Kept(m2, h, r)
<1>1. Same(m, m2, h)
  BY SameIs
<1>2. \A i \in 1 .. h : m[i].kind = "nested" => i - 1 \in 1 .. h /\ i - 2 \in 1 .. h
  BY UnderNested
<1> QED BY <1>1, <1>2, KeptOther

\* A nested run's call on the source it keeps.
LEMMA KeptPush ==
  ASSUME NEW m, NEW h \in Nat, NEW r, Kept(m, h, r),
         m[h + 1].kind = "nested" =>
           m[h].val = r[LevelAt(m, h)] /\ m[h - 1].val = TextEnd(LevelAt(m, h))
  PROVE  Kept(m, h + 1, r)
<1>1. \A i \in 1 .. h + 1 : i \in 1 .. h \/ i = h + 1
  OBVIOUS
<1>2. h + 1 - 1 = h /\ h + 1 - 2 = h - 1
  OBVIOUS
<1>3. CellSource(m, h + 1, r)
  BY <1>2 DEF CellSource
<1> QED BY <1>1, <1>3 DEF Kept

(* And at every height below.                                               *)
LEMMA KeptBelow ==
  ASSUME NEW m, NEW h \in Nat, NEW s \in Nat, s <= h, NEW r, Kept(m, h, r)
  PROVE  Kept(m, s, r)
BY DEF Kept

(* A frame's source survives a change above the frame.                      *)
LEMMA FrameKept ==
  ASSUME NEW m, NEW m2, NEW fr \in Frame, fr.sp >= 3, Sound(m, fr.sp - 2),
         \A i \in 1 .. fr.sp : m2[i] = m[i], NEW ptr, NEW end, NEW r,
         FrameSource(m, fr, ptr, end, r)
  PROVE  FrameSource(m2, fr, ptr, end, r)
<1>1. /\ fr.sp \in Nat /\ fr.sp - 2 \in Nat /\ fr.sp - 1 \in 1 .. fr.sp
      /\ fr.sp \in 1 .. fr.sp
      /\ \A i \in 1 .. fr.sp - 2 : i \in 1 .. fr.sp
  BY SizesAssumption DEF Frame
<1>2. LevelAt(m2, fr.sp - 2) = LevelAt(m, fr.sp - 2)
  BY <1>1, LevelEqual
<1>3. Kept(m2, fr.sp - 2, r)
  BY <1>1, KeptSame DEF FrameSource
<1> QED BY <1>1, <1>2, <1>3 DEF FrameSource

(* So do those of all the frames below a change.                            *)
LEMMA FramesKept ==
  ASSUME StackInv, NEW m2, NEW f2, NEW n \in 0 .. catchDepth, NEW h \in Nat,
         \A i \in 1 .. h : m2[i] = mem[i],
         \A k \in 1 .. n : f2[k] = frames[k] /\ frames[k].sp <= h,
         NEW ptr, NEW end, NEW r, FramesSource(mem, frames, n, ptr, end, r)
  PROVE  FramesSource(m2, f2, n, ptr, end, r)
<1> SUFFICES ASSUME NEW k \in 1 .. n PROVE FrameSource(m2, f2[k], ptr, end, r)
  BY DEF FramesSource
<1>1. k \in 1 .. catchDepth
  BY DEF StackInv, Typed
<1>2. \A i \in 1 .. frames[k].sp : m2[i] = mem[i]
  BY <1>1, FrameIs
<1>3. FrameSource(mem, frames[k], ptr, end, r)
  BY DEF FramesSource
<1> QED BY <1>1, <1>2, <1>3, FrameIs, FrameKept

\* A word of the innermost text was read: no other source has moved.
LEMMA ReadKept ==
  ASSUME StackInv, SourceInv, pc \in OwnSource, pc # "restorePtr", ReadWord
  PROVE  /\ FramesSource(mem, frames, catchDepth, srcPtr', srcEnd', reached')
         /\ Kept(mem, sp, reached')
         /\ srcEnd' = TextEnd(LevelAt(mem, sp))
         /\ srcPtr' = reached'[LevelAt(mem, sp)]
         /\ srcPtr' = Past(srcPtr) /\ srcEnd' = srcEnd
<1> DEFINE l == LevelAt(mem, sp)
<1>1. /\ pc \in Going \cup Ending /\ pc # "nestPtr" /\ sp \in Nat /\ sp >= 1 /\ Sound(mem, sp)
      /\ reached \in [Texts -> Addresses]
  BY DEF OwnSource, Going, Ending, AtWord, StackInv, Typed, StackAt
<1>2. l \in Texts /\ l \in Nat
  <2>1. sp \in 0 .. sp
    BY <1>1
  <2> QED BY <1>1, <2>1, LevelsBelow
<1>3. /\ srcPtr' = Past(srcPtr) /\ srcEnd' = srcEnd
      /\ reached' = [reached EXCEPT ![l] = Past(srcPtr)]
  BY LevelIs DEF ReadWord
<1>4. reached'[l] = srcPtr' /\ \A i \in Texts : i # l => reached'[i] = reached[i]
  BY <1>1, <1>2, <1>3
<1>5. srcEnd = TextEnd(l) /\ FramesSource(mem, frames, catchDepth, srcPtr, srcEnd, reached)
  BY <1>1 DEF SourceInv, Position
<1>6. Kept(mem, sp, reached)
  BY <1>1 DEF SourceInv
<1> HIDE DEF l
<1>7. ASSUME NEW h \in 0 .. sp, Kept(mem, h, reached) PROVE Kept(mem, h, reached')
  <2>1. h \in Nat /\ Sound(mem, h) /\ Same(mem, mem, h)
    BY <1>1, SoundBelow, SameIs
  <2>2. ASSUME NEW i \in 1 .. h, mem[i].kind = "nested"
        PROVE  reached'[LevelAt(mem, i - 1)] = reached[LevelAt(mem, i - 1)]
    <3>1. LevelAt(mem, i) = LevelAt(mem, i - 1) + 1 /\ LevelAt(mem, i - 1) \in Nat
      BY <2>1, <2>2, UnderNested
    <3>2. i \in 0 .. sp /\ i - 1 \in 0 .. sp
      BY <1>1
    <3>3. LevelAt(mem, i) <= l /\ LevelAt(mem, i - 1) \in Texts
      BY <1>1, <3>2, LevelsBelow DEF l
    <3> QED BY <1>2, <1>4, <3>1, <3>3
  <2> QED BY <1>7, <2>1, <2>2, KeptOther
<1>8. ASSUME NEW k \in 1 .. catchDepth
      PROVE  FrameSource(mem, frames[k], srcPtr', srcEnd', reached')
  <2> DEFINE b == frames[k].sp - 2
             j == LevelAt(mem, b)
  <2>1. FrameSource(mem, frames[k], srcPtr, srcEnd, reached)
    BY <1>5 DEF FramesSource
  <2>2. j \in Texts /\ j \in Nat /\ j <= l /\ b \in Nat
    BY <1>1, FrameIs DEF l
  <2>3. TextEnd(j) = srcEnd <=> j = l
    BY <1>2, <1>5, <2>2, TextEnds
  <2>4. Kept(mem, b, reached')
    <3>1. b \in 0 .. sp
      <4>1. frames[k].sp <= sp + 2 /\ frames[k].sp \in Nat
        BY <1>1, FrameIs, Extents
      <4> QED BY <1>1, <2>2, <4>1
    <3> QED BY <1>7, <2>1, <3>1 DEF FrameSource
  <2>5. j # l => reached'[j] = reached[j]
    BY <1>4, <2>2
  <2>6. /\ mem[frames[k].sp - 1].val = TextEnd(j) /\ TextEnd(j) <= srcEnd
        /\ TextEnd(j) # srcEnd => mem[frames[k].sp].val = reached[j]
    BY <2>1 DEF FrameSource
  <2> QED BY <1>3, <1>4, <2>3, <2>4, <2>5, <2>6 DEF FrameSource
<1>9. Kept(mem, sp, reached')
  <2>1. sp \in 0 .. sp
    BY <1>1
  <2> QED BY <1>6, <1>7, <2>1
<1> QED BY <1>3, <1>4, <1>5, <1>8, <1>9 DEF FramesSource, l
-----------------------------------------------------------------------------
(* What a step has to leave behind.                                         *)

(* What a step to a running word has to leave behind.                       *)
LEMMA RunsOn ==
  ASSUME pc' \in OwnSource \ {"catch", "restorePtr"},
         FramesSource(mem', frames', catchDepth', srcPtr', srcEnd', reached'),
         Kept(mem', sp', reached'),
         srcEnd' = TextEnd(LevelAt(mem', sp')),
         srcPtr' = reached'[LevelAt(mem', sp')]
  PROVE  SourceInv'
BY DEF SourceInv, Position, OwnSource, AtWord, Ending

(* What a step that gives the run up has to leave behind.                   *)
LEMMA Stops ==
  ASSUME pc' \in {"report", "throw", "stop", "console", "back"},
         FramesSource(mem', frames', catchDepth', srcPtr', srcEnd', reached')
  PROVE  SourceInv'
BY DEF SourceInv, Position, OwnSource, Going, AtWord, Ending

(* A RET from the source's own level leaves it the source of the cell below.*)
LEMMA SourceReturned ==
  ASSUME NEW s \in Nat, s >= 1, Sound(mem, s), Kept(mem, s, reached),
         mem[s].kind \in WordTop \cup {"root", "nested"},
         sp' = s - 1, pc' = Landing(mem[s]), reached' = reached,
         \A i \in 1 .. s - 1 : mem'[i] = mem[i],
         srcEnd' = TextEnd(LevelAt(mem, s)), srcPtr' = reached[LevelAt(mem, s)],
         FramesSource(mem', frames', catchDepth', srcPtr', srcEnd', reached')
  PROVE  SourceInv'
<1>1. s - 1 \in Nat /\ Sound(mem, s - 1) /\ Kept(mem, s - 1, reached)
  BY SoundBelow, KeptBelow
<1>2. Kept(mem', s - 1, reached) /\ LevelAt(mem', s - 1) = LevelAt(mem, s - 1)
  BY <1>1, KeptSame, LevelEqual
<1>3. CASE mem[s].kind = "root"
  BY <1>3, Stops DEF Landing
<1>4. CASE mem[s].kind = "nested"
  <2>1. s \in 1 .. s
    OBVIOUS
  <2>2. /\ s >= 3 /\ s - 1 \in 1 .. s - 1 /\ s - 2 \in 1 .. s - 1
        /\ LevelAt(mem, s) = LevelAt(mem, s - 1) + 1
    BY <1>4, <2>1, UnderNested
  <2>3. mem'[s - 1] = mem[s - 1] /\ mem'[s - 2] = mem[s - 2] /\ s - 1 - 1 = s - 2
    BY <2>2
  <2>4. /\ mem[s - 1].val = reached[LevelAt(mem, s - 1)]
        /\ mem[s - 2].val = TextEnd(LevelAt(mem, s - 1))
    BY <1>4, <2>1 DEF Kept, CellSource
  <2>5. pc' = "nestEnd"
    BY <1>4 DEF Landing
  <2> QED BY <1>2, <2>2, <2>3, <2>4, <2>5
          DEF SourceInv, Position, OwnSource, AtWord, Ending
<1>5. CASE mem[s].kind \in WordTop
  <2>1. pc' \in {"loop", "word", "bareDone", "xtDone"}
    BY <1>5 DEF Landing, WordTop
  <2>2. mem[s].kind # "nested"
    BY <1>5 DEF WordTop
  <2>3. LevelAt(mem, s) = LevelAt(mem, s - 1)
    BY <2>2, LevelAtStep
  <2>4. pc' \in OwnSource \ {"catch", "restorePtr"}
    BY <2>1 DEF OwnSource, AtWord, Ending
  <2> QED BY <1>2, <2>3, <2>4, RunsOn
<1> QED BY <1>3, <1>4, <1>5

\* A RET out of a running word, with the source and the frames as they are.
LEMMA WordSourceReturned ==
  ASSUME StackInv, SourceInv, pc \in OwnSource \cap Going, pc # "restorePtr",
         mem[sp].kind \in WordTop \cup {"root", "nested"}, Return(sp, mem),
         \A i \in 1 .. sp - 1 : mem'[i] = mem[i], UNCHANGED <<srcVars, catchVars>>
  PROVE  SourceInv'
<1>1. /\ sp \in Nat /\ sp >= 1 /\ Sound(mem, sp) /\ sp - 1 \in Nat
      /\ Counted(mem, sp, frames, catchDepth) /\ pc # "nestPtr"
      /\ catchDepth \in 0 .. catchDepth
  BY DEF StackInv, Typed, StackAt, OwnSource, AtWord, Ending
<1>2. /\ FramesSource(mem, frames, catchDepth, srcPtr, srcEnd, reached)
      /\ Kept(mem, sp, reached)
      /\ srcEnd = TextEnd(LevelAt(mem, sp)) /\ srcPtr = reached[LevelAt(mem, sp)]
  BY <1>1 DEF SourceInv, Position
<1>3. \A k \in 1 .. catchDepth : frames[k].sp <= sp - 1
  BY <1>1, FrameIs DEF Counted
<1>4. FramesSource(mem', frames, catchDepth, srcPtr, srcEnd, reached)
  BY <1>1, <1>2, <1>3, FramesKept
<1>5. sp' = sp - 1 /\ pc' = Landing(mem[sp])
  BY DEF Return
<1>6. UNCHANGED <<srcPtr, srcEnd, reached, catchDepth, frames>>
  BY DEF srcVars, catchVars
<1> QED BY <1>1, <1>2, <1>4, <1>5, <1>6, SourceReturned

\* A step that leaves the stack as it is and goes on, in the innermost text.
LEMMA SamePlaceSource ==
  ASSUME StackInv, SourceInv, pc \in OwnSource \ {"restorePtr"},
         pc' \in OwnSource \ {"catch", "restorePtr"},
         UNCHANGED <<mem, sp, catchVars>>, ReadWord \/ UNCHANGED srcVars
  PROVE  SourceInv'
<1>1. pc # "nestPtr" /\ pc \in Going \cup Ending
  BY DEF OwnSource, Going, AtWord, Ending
<1>2. CASE ReadWord
  BY <1>2, ReadKept, RunsOn DEF catchVars
<1>3. CASE UNCHANGED srcVars
  <2>1. /\ FramesSource(mem, frames, catchDepth, srcPtr, srcEnd, reached)
        /\ Kept(mem, sp, reached)
        /\ srcEnd = TextEnd(LevelAt(mem, sp)) /\ srcPtr = reached[LevelAt(mem, sp)]
    BY <1>1 DEF SourceInv, Position
  <2> QED BY <1>3, <2>1, RunsOn DEF catchVars, srcVars
<1> QED BY <1>2, <1>3

(* An error, a THROW and a BREAK leave the frames' sources as they are.     *)
LEMMA GivesUpSource ==
  ASSUME StackInv, SourceInv, pc \in (OwnSource \ {"restorePtr"}) \cup {"stop"},
         pc' \in {"report", "throw", "stop"},
         UNCHANGED <<mem, sp, catchVars>>, (pc # "stop" /\ ReadWord) \/ UNCHANGED srcVars
  PROVE  SourceInv'
<1>1. pc # "nestPtr" /\ pc # "restorePtr"
  BY DEF OwnSource, AtWord, Ending
<1>2. CASE pc # "stop" /\ ReadWord
  BY <1>1, <1>2, ReadKept, Stops DEF catchVars
<1>3. CASE UNCHANGED srcVars
  <2>1. FramesSource(mem, frames, catchDepth, srcPtr, srcEnd, reached)
    BY <1>1 DEF SourceInv, Position
  <2> QED BY <1>3, <2>1, Stops DEF catchVars, srcVars
<1> QED BY <1>2, <1>3

\* A cell that is no nested run's call is pushed and the word goes on.
LEMMA PushedSource ==
  ASSUME StackInv, SourceInv, pc \in {"loop", "word", "catchGo"},
         pc' \in OwnSource \ {"catch", "restorePtr"},
         sp' = sp + 1, \A i \in 1 .. sp : mem'[i] = mem[i],
         mem'[sp + 1].kind # "nested",
         UNCHANGED catchVars, ReadWord \/ UNCHANGED srcVars
  PROVE  SourceInv'
<1>1. /\ pc \in OwnSource /\ sp \in Nat /\ sp >= 1 /\ Sound(mem, sp)
      /\ catchDepth \in 0 .. catchDepth /\ Popped(pc) = 0
  BY DEF OwnSource, Going, AtWord, Ending, StackInv, Typed, StackAt, Popped
<1>2. /\ FramesSource(mem, frames, catchDepth, srcPtr', srcEnd', reached')
      /\ Kept(mem, sp, reached')
      /\ srcEnd' = TextEnd(LevelAt(mem, sp)) /\ srcPtr' = reached'[LevelAt(mem, sp)]
  <2>1. CASE ReadWord
    BY <1>1, <2>1, ReadKept
  <2>2. CASE UNCHANGED srcVars
    <3>1. pc \in Going \cup Ending /\ pc # "nestPtr"
      BY DEF Going, Ending, AtWord
    <3> QED BY <1>1, <2>2, <3>1 DEF SourceInv, Position, srcVars
  <2> QED BY <2>1, <2>2
<1>3. \A k \in 1 .. catchDepth : frames[k].sp <= sp
  BY <1>1, Extents
<1>4. FramesSource(mem', frames', catchDepth', srcPtr', srcEnd', reached')
  <2>1. FramesSource(mem', frames, catchDepth, srcPtr', srcEnd', reached')
    BY <1>1, <1>2, <1>3, FramesKept
  <2> QED BY <2>1 DEF catchVars
<1>5. Kept(mem', sp, reached') /\ LevelAt(mem', sp) = LevelAt(mem, sp)
  BY <1>1, <1>2, KeptSame, LevelEqual
<1>6. Kept(mem', sp + 1, reached')
  BY <1>1, <1>5, KeptPush
<1>7. LevelAt(mem', sp + 1) = LevelAt(mem', sp)
  BY <1>1, LevelPush
<1> QED BY <1>2, <1>4, <1>5, <1>6, <1>7, RunsOn
-----------------------------------------------------------------------------
(* The console's steps keep the source.                                     *)
LEMMA ConsoleSource ==
  ASSUME StackInv, StackInv', SourceInv, Console PROVE SourceInv'
<1>1. ASSUME catchDepth' = 0
      PROVE  FramesSource(mem', frames', catchDepth', srcPtr', srcEnd', reached')
  BY <1>1 DEF FramesSource
<1>2. CASE EnterLine
  <2>1. pc = "console" /\ pc' = "run" /\ sp' = 1 /\ catchDepth' = 0
    BY <1>2 DEF EnterLine, StackInv, StackAt, catchVars
  <2>2. mem'[1].kind = "root"
    BY <2>1 DEF StackInv, StackAt, Going, Under, AtWord
  <2>3. Kept(mem', 1, reached')
    <3>1. \A i \in 1 .. 1 : i = 1
      OBVIOUS
    <3> QED BY <2>2, <3>1 DEF Kept, CellSource
  <2> QED BY <1>1, <2>1, <2>3
          DEF SourceInv, Position, OwnSource, AtWord, Ending
<1>3. CASE StartRun
  <2>1. /\ pc = "run" /\ pc' = "loop" /\ mem' = mem /\ sp' = sp
        /\ catchDepth' = catchDepth /\ srcPtr' = TextStart(0) /\ srcEnd' = TextEnd(0)
        /\ reached' = [l \in Texts |-> TextStart(l)]
    BY <1>3 DEF StartRun, catchVars
  <2>2. sp \in Nat /\ sp >= 1 /\ mem[sp].kind = "root" /\ Sound(mem, sp)
    BY <2>1 DEF StackInv, Typed, StackAt, Going, Under, AtWord
  <2>3. sp = 1
    BY <2>2 DEF Sound, Fits
  <2>4. catchDepth = 0
    <3>1. \A k \in 1 .. catchDepth : frames[k].sp + 1 <= sp /\ frames[k].sp >= 3
      BY <2>1, Extents DEF Going
    <3>2. \A k \in 1 .. catchDepth : FALSE
      BY <2>3, <3>1, Extents
    <3> QED BY <3>2 DEF StackInv, Typed
  <2>5. LevelAt(mem, 1) = 0
    BY <2>2, <2>3, SoundRoot
  <2>6. Kept(mem', 1, reached')
    <3>1. \A i \in 1 .. 1 : i = 1
      OBVIOUS
    <3> QED BY <2>1, <2>2, <2>3, <3>1 DEF Kept, CellSource
  <2>7. 0 \in Texts
    BY SizesAssumption DEF Texts
  <2>8. pc' \in OwnSource \ {"catch", "restorePtr"}
    BY <2>1 DEF OwnSource
  <2> QED BY <1>1, <2>1, <2>3, <2>4, <2>5, <2>6, <2>7, <2>8, RunsOn
<1>4. CASE Report
  <2>1. pc' = "back" /\ catchDepth' = 0
    <3>1. rootSp = 1 /\ mem[1].kind \in {"root", "isr"}
      BY <1>4 DEF Report, StackInv, ThrownAt, Thrown
    <3> QED BY <1>4, <3>1 DEF Report, Return, Landing
  <2> QED BY <1>1, <2>1, Stops
<1>5. CASE BackToConsole
  <2>1. pc' = "console" /\ catchDepth' = 0
    BY <1>5 DEF BackToConsole, StackInv, StackAt, catchVars
  <2> QED BY <1>1, <2>1, Stops
<1> QED BY <1>2, <1>3, <1>4, <1>5 DEF Console

\* What the words that call leave on the stack.
LEMMA CallPushed ==
  ASSUME StackInv, sp + 1 <= StackCells, NEW k \in Kinds,
         mem' = Forgotten(Pushed(Ret(k), mem, sp), sp + 1)
         \/ mem' = Pushed(Ret(k), mem, sp)
  PROVE  mem'[sp + 1].kind = k /\ \A i \in 1 .. sp : mem'[i] = mem[i]
<1>1. Ret(k) \in Cell /\ Ret(k).kind = k /\ mem \in Memory /\ sp \in Nat
  BY CellsTyped DEF StackInv, Typed, Ret
<1>2. CASE mem' = Forgotten(Pushed(Ret(k), mem, sp), sp + 1)
  BY <1>1, <1>2, CallIs
<1>3. CASE mem' = Pushed(Ret(k), mem, sp)
  BY <1>1, <1>3, PushedIs
<1> QED BY <1>2, <1>3

(* The interpreter's steps keep the source.                                 *)
LEMMA InterpreterSource ==
  ASSUME StackInv, StackInv', SourceInv, Interpreter PROVE SourceInv'
<1>1. pc = "loop" /\ pc \in OwnSource \cap Going
  BY DEF Interpreter, InterpretWord, InterpretError, EndOfSource, OwnSource, Going
<1>2. CASE InterpretWord
  <2>1. /\ pc' = "word" /\ sp' = sp + 1 /\ ReadWord /\ UNCHANGED catchVars
        /\ mem' = Forgotten(Pushed(Ret("loop"), mem, sp), sp + 1)
    BY <1>2 DEF InterpretWord
  <2>2. sp + 1 <= StackCells
    <3>1. sp' <= Highest
      <4>1. sp' \in Nat /\ sp' >= 1 /\ Sound(mem', sp')
        BY <2>1 DEF StackInv, Typed, StackAt, Going, AtWord
      <4> QED BY <4>1 DEF Sound, Fits
    <3> QED BY <2>1, <3>1, Extents, SizesAssumption DEF StackInv, Typed
  <2>3. mem'[sp + 1].kind = "loop" /\ \A i \in 1 .. sp : mem'[i] = mem[i]
    BY <2>1, <2>2, CallPushed DEF Kinds
  <2>4. pc' \in OwnSource \ {"catch", "restorePtr"}
    BY <2>1 DEF OwnSource, AtWord
  <2> QED BY <1>1, <2>1, <2>3, <2>4, PushedSource
<1>3. CASE InterpretError
  BY <1>1, <1>3, GivesUpSource DEF InterpretError
<1>4. CASE EndOfSource
  <2>1. mem[sp].kind \in WordTop \cup {"root", "nested"}
    BY <1>1 DEF StackInv, StackAt, Under, AtWord
  <2> QED BY <1>1, <1>4, <2>1, WordSourceReturned DEF EndOfSource
<1> QED BY <1>2, <1>3, <1>4 DEF Interpreter

(* A word that throws, or that the stack guard throws for, keeps the frames'*)
(* sources.                                                                 *)
LEMMA ThrowsSource ==
  ASSUME StackInv, SourceInv, pc = "word", StackGuardThrows \/ WordThrows
  PROVE  SourceInv'
BY GivesUpSource DEF StackGuardThrows, WordThrows, OwnSource, AtWord

(* A word's steps keep the source.                                          *)
LEMMA WordSource ==
  ASSUME StackInv, StackInv', SourceInv, Word PROVE SourceInv'
<1>1. pc = "word" /\ pc \in OwnSource \cap Going /\ pc \in AtWord
  BY DEF Word, WordWork, WordParses, WordReturns, Recurse, WordThrows, WordAborts,
         OwnSource, Going, AtWord
<1>2. CASE WordWork \/ WordParses
  BY <1>1, <1>2, SamePlaceSource DEF WordWork, WordParses
<1>3. CASE WordAborts
  BY <1>1, <1>3, GivesUpSource DEF WordAborts
<1>4. CASE WordReturns
  <2>1. \A i \in 1 .. sp - 1 : mem'[i] = mem[i]
    <3>1. sp - 1 <= StackCells
      BY <1>1, AtWordIs, SizesAssumption
    <3> QED BY <1>1, <1>4, <3>1, AtWordIs, ForgottenIs DEF WordReturns
  <2> QED BY <1>1, <1>4, <2>1, AtWordIs, WordSourceReturned DEF WordReturns
<1>5. CASE Recurse
  <2>1. CASE StackGuardThrows
    BY <1>1, <2>1, ThrowsSource
  <2>2. CASE ~ StackGuardThrows
    <3>1. /\ StackGuardPasses /\ pc' = "word" /\ sp' = sp + 1
          /\ mem' = Forgotten(Pushed(Ret("call"), mem, sp), sp + 1)
          /\ UNCHANGED catchVars /\ UNCHANGED srcVars
      BY <1>1, <1>5, <2>2 DEF Recurse
    <3>2. sp + 1 <= StackCells
      BY <1>1, <3>1, AtWordIs, SizesAssumption, RoomAssumption DEF StackGuardPasses
    <3>3. mem'[sp + 1].kind = "call" /\ \A i \in 1 .. sp : mem'[i] = mem[i]
      BY <3>1, <3>2, CallPushed DEF Kinds
    <3>4. pc' \in OwnSource \ {"catch", "restorePtr"}
      BY <3>1 DEF OwnSource, AtWord
    <3> QED BY <1>1, <3>1, <3>3, <3>4, PushedSource
  <2> QED BY <2>1, <2>2
<1>6. CASE WordThrows
  BY <1>1, <1>6, ThrowsSource
<1> QED BY <1>2, <1>3, <1>4, <1>5, <1>6 DEF Word

(* CATCH's steps keep the source: its two cells are the source it returns to.*)
LEMMA CatchStepsSource ==
  ASSUME StackInv, StackInv', SourceInv, CatchSteps PROVE SourceInv'
<1>1. CASE Catch
  <2>1. pc = "word" /\ pc \in AtWord /\ pc \in OwnSource /\ pc \in Going
    BY <1>1 DEF Catch, AtWord, OwnSource, Going
  <2>2. CASE StackGuardThrows
    BY <2>1, <2>2, ThrowsSource
  <2>3. CASE ~ StackGuardThrows /\ pc' = "catch"
    <3> DEFINE m1 == Pushed(End(srcEnd), mem, sp)
    <3>1. /\ StackGuardPasses /\ sp' = sp + 2 /\ mem' = Pushed(Ptr(srcPtr), m1, sp + 1)
          /\ UNCHANGED <<catchDepth, frames, srcPtr, srcEnd, reached>>
      BY <1>1, <2>1, <2>3 DEF Catch, catchVars, srcVars
    <3>2. /\ sp + 1 <= StackCells /\ sp + 1 + 1 <= StackCells /\ sp + 1 \in Nat
          /\ sp + 1 + 1 = sp + 2 /\ sp + 2 - 1 = sp + 1
          /\ sp + 1 \in 1 .. sp + 1 /\ \A i \in 1 .. sp : i \in 1 .. sp + 1
      BY <2>1, <3>1, AtWordIs, SizesAssumption, RoomAssumption DEF StackGuardPasses
    <3>3. m1 \in Memory /\ m1[sp + 1] = End(srcEnd) /\ \A i \in 1 .. sp : m1[i] = mem[i]
      <4>1. End(srcEnd) \in Cell
        BY CellsTyped DEF StackInv, Typed
      <4> QED BY <2>1, <3>2, <4>1, AtWordIs, PushedIs
    <3> HIDE DEF m1
    <3>4. mem'[sp + 1 + 1] = Ptr(srcPtr) /\ \A i \in 1 .. sp + 1 : mem'[i] = m1[i]
      <4>1. Ptr(srcPtr) \in Cell
        BY CellsTyped DEF StackInv, Typed
      <4> QED BY <3>1, <3>2, <3>3, <4>1, PushedIs
    <3>5. /\ \A i \in 1 .. sp : mem'[i] = mem[i]
          /\ mem'[sp + 1] = End(srcEnd)
      BY <3>2, <3>3, <3>4
    <3>6. mem'[sp + 1].kind # "nested" /\ mem'[sp + 1 + 1].kind # "nested"
          /\ mem'[sp + 1].val = srcEnd
      BY <3>4, <3>5 DEF End, Ptr
    <3>7. /\ FramesSource(mem, frames, catchDepth, srcPtr, srcEnd, reached)
          /\ Kept(mem, sp, reached)
          /\ srcEnd = TextEnd(LevelAt(mem, sp)) /\ srcPtr = reached[LevelAt(mem, sp)]
      BY <2>1 DEF SourceInv, Position
    <3>8. Kept(mem', sp, reached) /\ LevelAt(mem', sp) = LevelAt(mem, sp)
      BY <2>1, <3>5, <3>7, AtWordIs, KeptSame, LevelEqual
    <3>9. Kept(mem', sp + 1, reached) /\ LevelAt(mem', sp + 1) = LevelAt(mem, sp)
      <4>1. Kept(mem', sp + 1, reached)
        BY <2>1, <3>6, <3>8, AtWordIs, KeptPush
      <4> QED BY <2>1, <3>6, <3>8, <4>1, AtWordIs, LevelPush
    <3>10. Kept(mem', sp + 1 + 1, reached) /\ LevelAt(mem', sp + 1 + 1) = LevelAt(mem, sp)
      <4>1. Kept(mem', sp + 1 + 1, reached)
        BY <3>2, <3>6, <3>9, KeptPush
      <4>2. LevelAt(mem', sp + 1 + 1) = LevelAt(mem', sp + 1)
        BY <3>2, <3>6, LevelPush
      <4> QED BY <3>9, <4>1, <4>2
    <3>11. FramesSource(mem', frames, catchDepth, srcPtr, srcEnd, reached)
      <4>1. catchDepth \in 0 .. catchDepth /\ \A k \in 1 .. catchDepth : frames[k].sp <= sp
        BY <2>1, Extents, AtWordIs
      <4> QED BY <2>1, <3>5, <3>7, <4>1, AtWordIs, FramesKept
    <3> QED BY <2>3, <3>1, <3>2, <3>6, <3>7, <3>10, <3>11
            DEF SourceInv, Position, OwnSource, AtWord, Ending
  <2>4. CASE ~ StackGuardThrows /\ pc' # "catch"
    <3>1. /\ StackGuardPasses /\ pc' = "word" /\ sp' = sp + 1
          /\ mem' = Pushed(Ret("bare"), mem, sp)
          /\ UNCHANGED catchVars /\ UNCHANGED srcVars
      BY <1>1, <2>1, <2>4 DEF Catch
    <3>2. sp + 1 <= StackCells
      BY <2>1, <3>1, AtWordIs, SizesAssumption, RoomAssumption DEF StackGuardPasses
    <3>3. mem'[sp + 1].kind = "bare" /\ \A i \in 1 .. sp : mem'[i] = mem[i]
      BY <3>1, <3>2, CallPushed DEF Kinds
    <3>4. pc' \in OwnSource \ {"catch", "restorePtr"}
      BY <3>1 DEF OwnSource, AtWord
    <3> QED BY <2>1, <3>1, <3>3, <3>4, PushedSource
  <2> QED BY <2>2, <2>3, <2>4
<1>2. CASE CatchFrame
  <2> DEFINE n == catchDepth + 1
  <2>1. /\ pc = "catch" /\ pc \in OwnSource /\ pc \in Going /\ pc' = "catchGo"
        /\ UNCHANGED <<mem, sp, srcPtr, srcEnd, reached>>
        /\ catchDepth' = n
        /\ frames' = [frames EXCEPT ![n] = [sp |-> sp, ds |-> ds]]
    BY <1>2 DEF CatchFrame, OwnSource, Going, srcVars
  <2>2. /\ sp \in Nat /\ sp >= 1 /\ Sound(mem, sp) /\ mem[sp].kind = "ptr"
        /\ catchDepth \in Nat /\ catchDepth < CATCH_MAX_DEPTH /\ frames \in Slots
    BY <2>1 DEF StackInv, Typed, StackAt, Going, Under, AtWord, Ending
  <2>3. /\ sp - 1 \in Nat /\ sp - 2 \in Nat /\ sp - 1 - 1 = sp - 2 /\ sp - 1 >= 1
        /\ mem[sp - 1].kind = "end"
    <3>1. sp # 1 /\ mem[sp - 1].kind = "end"
      BY <2>2 DEF Sound, Fits
    <3> QED BY <2>2, <3>1
  <2>4. LevelAt(mem, sp - 2) = LevelAt(mem, sp)
    <3>1. LevelAt(mem, sp) = LevelAt(mem, sp - 1)
      BY <2>2, LevelAtStep
    <3>2. LevelAt(mem, sp - 1) = LevelAt(mem, sp - 1 - 1)
      BY <2>3, LevelAtStep
    <3> QED BY <2>3, <3>1, <3>2
  <2>5. /\ FramesSource(mem, frames, catchDepth, srcPtr, srcEnd, reached)
        /\ Kept(mem, sp, reached) /\ mem[sp - 1].val = srcEnd
        /\ srcEnd = TextEnd(LevelAt(mem, sp)) /\ srcPtr = reached[LevelAt(mem, sp)]
    BY <2>1 DEF SourceInv, Position
  <2>6. n \in 1 .. CATCH_MAX_DEPTH /\ \A k \in 1 .. n : k \in 1 .. catchDepth \/ k = n
    BY <2>2, SizesAssumption
  <2>7. /\ frames'[n].sp = sp
        /\ \A k \in 1 .. catchDepth : frames'[k] = frames[k]
    BY <2>1, <2>2, <2>6, SizesAssumption DEF Slots
  <2>8. srcEnd <= srcEnd
    BY DEF StackInv, Typed, Addresses
  <2>9. FrameSource(mem, frames'[n], srcPtr, srcEnd, reached)
    BY <2>2, <2>3, <2>4, <2>5, <2>7, <2>8, KeptBelow DEF FrameSource
  <2>10. FramesSource(mem, frames', n, srcPtr, srcEnd, reached)
    BY <2>5, <2>6, <2>7, <2>9 DEF FramesSource
  <2>11. pc' \in OwnSource \ {"catch", "restorePtr"}
    BY <2>1 DEF OwnSource, Ending
  <2> QED BY <2>1, <2>5, <2>10, <2>11, RunsOn
<1>3. CASE CatchRunsXt
  <2>1. /\ pc = "catchGo" /\ pc \in Ending /\ pc' = "word" /\ sp' = sp + 1
        /\ mem' = Pushed(Ret("xt"), mem, sp)
        /\ UNCHANGED catchVars /\ UNCHANGED srcVars
    BY <1>3 DEF CatchRunsXt, Ending
  <2>2. sp + 1 <= StackCells
    <3>1. sp <= GuardCell + 1 /\ sp \in Nat
      BY <2>1, EndingIs DEF StackInv, StackAt
    <3> QED BY <3>1, SizesAssumption, RoomAssumption
  <2>3. mem'[sp + 1].kind = "xt" /\ \A i \in 1 .. sp : mem'[i] = mem[i]
    BY <2>1, <2>2, CallPushed DEF Kinds
  <2>4. pc' \in OwnSource \ {"catch", "restorePtr"}
    BY <2>1 DEF OwnSource, AtWord
  <2> QED BY <2>1, <2>3, <2>4, PushedSource
<1>4. CASE CatchPops
  <2>1. /\ pc \in {"xtDone", "xtPop"} /\ pc \in Ending /\ pc \in OwnSource
        /\ pc # "nestPtr" /\ pc # "restorePtr"
        /\ pc' \in OwnSource \ {"catch", "restorePtr"} /\ sp' = sp - 1
        /\ UNCHANGED <<mem, catchDepth, frames, srcPtr, srcEnd, reached>>
    BY <1>4 DEF CatchPops, Ending, OwnSource, AtWord, catchVars, srcVars
  <2>2. LevelAt(mem, sp) = LevelAt(mem, sp - 1)
    <3>1. mem[sp].kind # "nested"
      BY <2>1, EndingIs DEF Under, AtWord
    <3> QED BY <2>1, <3>1, EndingIs, LevelAtStep
  <2>3. /\ FramesSource(mem, frames, catchDepth, srcPtr, srcEnd, reached)
        /\ Kept(mem, sp, reached)
        /\ srcEnd = TextEnd(LevelAt(mem, sp)) /\ srcPtr = reached[LevelAt(mem, sp)]
    BY <2>1 DEF SourceInv, Position
  <2>4. Kept(mem, sp - 1, reached)
    BY <2>1, <2>3, EndingIs, KeptBelow
  <2> QED BY <2>1, <2>2, <2>3, <2>4, RunsOn
<1>5. CASE CatchReturns
  <2>1. /\ pc = "xtPopped" /\ pc \in Ending /\ pc \in OwnSource
        /\ catchDepth' = catchDepth - 1
        /\ frames' = [frames EXCEPT ![catchDepth] = NoFrame]
        /\ mem' = Forgotten(mem, sp) /\ sp' = sp - 1 /\ pc' = Landing(mem[sp])
        /\ UNCHANGED <<srcPtr, srcEnd, reached>>
    BY <1>5 DEF CatchReturns, Released, Return, Ending, OwnSource, srcVars
  <2>2. mem[sp].kind \in WordTop
    BY <2>1, EndingIs DEF Under, AtWord
  <2>3. \A i \in 1 .. sp - 1 : mem'[i] = mem[i]
    <3>1. \A i \in 1 .. sp - 1 : i \in 1 .. sp
      BY <2>1, EndingIs
    <3> QED BY <2>1, <3>1, EndingIs, ForgottenIs
  <2>4. /\ FramesSource(mem, frames, catchDepth, srcPtr, srcEnd, reached)
        /\ Kept(mem, sp, reached)
        /\ srcEnd = TextEnd(LevelAt(mem, sp)) /\ srcPtr = reached[LevelAt(mem, sp)]
    BY <2>1 DEF SourceInv, Position
  <2>5. /\ catchDepth - 1 \in 0 .. catchDepth
        /\ \A k \in 1 .. catchDepth - 1 : k \in 1 .. catchDepth
    BY <2>1, EndingIs
  <2>6. FramesSource(mem, frames, catchDepth - 1, srcPtr, srcEnd, reached)
    BY <2>4, <2>5 DEF FramesSource
  <2>7. \A k \in 1 .. catchDepth - 1 : frames'[k] = frames[k] /\ frames[k].sp <= sp - 1
    <3>1. \A k \in 1 .. catchDepth - 1 : k # catchDepth /\ k \in 1 .. CATCH_MAX_DEPTH
      BY <2>1, EndingIs, SizesAssumption
    <3>2. \A k \in 1 .. catchDepth - 1 : frames'[k] = frames[k]
      BY <2>1, <3>1, EndingIs DEF Slots
    <3>3. \A k \in 1 .. catchDepth - 1 : frames[k].sp + 1 <= sp
      BY <2>1, EndingIs DEF Counted
    <3>4. \A k \in 1 .. catchDepth - 1 : frames[k].sp \in Nat
      BY <2>5, FrameIs
    <3> QED BY <2>1, <3>2, <3>3, <3>4, EndingIs
  <2>8. FramesSource(mem', frames', catchDepth - 1, srcPtr, srcEnd, reached)
    BY <2>1, <2>3, <2>5, <2>6, <2>7, EndingIs, FramesKept
  <2> QED BY <2>1, <2>2, <2>3, <2>4, <2>8, EndingIs, SourceReturned
<1>6. CASE BareCatchReturns
  <2>1. /\ pc = "bareDone" /\ pc \in AtWord /\ pc \in OwnSource \cap Going
        /\ mem' = Forgotten(mem, sp) /\ Return(sp, mem)
        /\ UNCHANGED <<srcVars, catchVars>>
    BY <1>6 DEF BareCatchReturns, AtWord, OwnSource, Going
  <2>2. \A i \in 1 .. sp - 1 : mem'[i] = mem[i]
    <3>1. \A i \in 1 .. sp - 1 : i \in 1 .. sp
      BY <2>1, AtWordIs
    <3> QED BY <2>1, <3>1, AtWordIs, ForgottenIs
  <2> QED BY <2>1, <2>2, AtWordIs, WordSourceReturned
<1> QED BY <1>1, <1>2, <1>3, <1>4, <1>5, <1>6 DEF CatchSteps
-----------------------------------------------------------------------------
(* THROW brings the frame's source back: SRC_END from the frame's own cell, *)
(* SRC_PTR only where SRC_END differed.                                     *)
LEMMA ThrowSource ==
  ASSUME StackInv, StackInv', SourceInv, Throw PROVE SourceInv'
<1>0. /\ sp \in Nat /\ frames \in Slots /\ catchDepth \in 0 .. CATCH_MAX_DEPTH
      /\ mem \in Memory /\ catchDepth \in 0 .. catchDepth
      /\ srcEnd \in Nat
  BY SizesAssumption DEF StackInv, Typed, Addresses
<1>1. CASE Uncaught
  <2>1. pc' = "report" /\ catchDepth' = 0
    BY <1>1 DEF Uncaught, catchVars
  <2> QED BY <2>1, Stops DEF FramesSource
<1>2. CASE TakeFrame
  <2>1. /\ pc = "throw" /\ pc' = "unwind" /\ catchDepth > 0
        /\ catchDepth' = catchDepth - 1 /\ tmp' = frames[catchDepth]
        /\ frames' = [frames EXCEPT ![catchDepth] = NoFrame]
        /\ UNCHANGED <<mem, srcPtr, srcEnd, reached>>
    BY <1>2 DEF TakeFrame, Released, srcVars
  <2>2. FramesSource(mem, frames, catchDepth, srcPtr, srcEnd, reached)
    BY <2>1 DEF SourceInv, Position
  <2>3. catchDepth \in 1 .. catchDepth
        /\ \A k \in 1 .. catchDepth - 1 : k \in 1 .. catchDepth /\ k # catchDepth
                                          /\ k \in 1 .. CATCH_MAX_DEPTH
    BY <1>0, <2>1, SizesAssumption
  <2>4. \A k \in 1 .. catchDepth - 1 : frames'[k] = frames[k]
    BY <1>0, <2>1, <2>3 DEF Slots
  <2>5. FramesSource(mem, frames', catchDepth - 1, srcPtr, srcEnd, reached)
    BY <2>2, <2>3, <2>4 DEF FramesSource
  <2>6. FrameSource(mem, tmp', srcPtr, srcEnd, reached)
    BY <2>1, <2>2, <2>3 DEF FramesSource
  <2> QED BY <2>1, <2>5, <2>6 DEF SourceInv, Position, OwnSource, Going, AtWord, Ending
<1>3. CASE Unwind
  <2>1. /\ pc = "unwind" /\ pc' = "restore"
        /\ UNCHANGED <<mem, catchDepth, frames, tmp, srcPtr, srcEnd, reached>>
    BY <1>3 DEF Unwind, catchVars, throwVars, srcVars
  <2> QED BY <2>1 DEF SourceInv, Position, OwnSource, Going, AtWord, Ending
<1>4. CASE RestoreSource
  <2> DEFINE s == sp - 2
             l == LevelAt(mem, s)
  <2>1. /\ pc = "restore" /\ UNCHANGED <<catchDepth, frames>>
        /\ Base(mem, tmp, frames, catchDepth) /\ tmp.sp = sp
    BY <1>4 DEF RestoreSource, catchVars, StackInv, ThrownAt
  <2>2. /\ s \in Nat /\ s >= 1 /\ s - 1 \in Nat /\ Sound(mem, s)
        /\ mem[s].kind \in WordTop /\ Counted(mem, s, frames, catchDepth)
        /\ s \in 0 .. s /\ sp <= StackCells /\ s <= StackCells
    <3>1. sp <= StackCells
      BY Extents
    <3> QED BY <1>0, <2>1, <3>1, SizesAssumption DEF Base
  <2>3. /\ FramesSource(mem, frames, catchDepth, srcPtr, srcEnd, reached)
        /\ FrameSource(mem, tmp, srcPtr, srcEnd, reached)
    BY <2>1 DEF SourceInv, Position
  <2>4. /\ mem[sp - 1].val = TextEnd(l) /\ TextEnd(l) <= srcEnd
        /\ TextEnd(l) = srcEnd => srcPtr = reached[l]
        /\ TextEnd(l) # srcEnd => mem[sp].val = reached[l]
        /\ Kept(mem, s, reached)
    BY <2>1, <2>3 DEF FrameSource
  <2>5. l \in Nat /\ \A k \in 1 .. catchDepth :
          /\ frames[k].sp \in Nat /\ frames[k].sp + 1 <= s /\ frames[k].sp - 2 \in 0 .. s
          /\ LevelAt(mem, frames[k].sp - 2) \in Nat
          /\ LevelAt(mem, frames[k].sp - 2) <= l
    <3>1. l \in Nat
      BY <2>2, LevelsBelow
    <3>2. ASSUME NEW k \in 1 .. catchDepth
          PROVE  /\ frames[k].sp \in Nat /\ frames[k].sp + 1 <= s
                 /\ frames[k].sp - 2 \in 0 .. s
      <4>1. frames[k].sp \in Nat /\ frames[k].sp - 2 \in Nat
        BY FrameIs
      <4>2. frames[k].sp + 1 <= s
        BY <2>2 DEF Counted
      <4> QED BY <2>2, <4>1, <4>2
    <3>3. \A k \in 1 .. catchDepth : LevelAt(mem, frames[k].sp - 2) <= l
      BY <2>2, <3>2, LevelsBelow
    <3> QED BY <3>1, <3>2, <3>3, FrameIs
  <2> HIDE DEF s, l
  <2>6. CASE mem[sp - 1].val = srcEnd
    <3>1. /\ mem' = Forgotten(mem, s) /\ sp' = s - 1 /\ pc' = Landing(mem[s])
          /\ UNCHANGED <<srcPtr, srcEnd, reached>>
      BY <1>4, <2>6 DEF RestoreSource, Caught, Return, srcVars, s
    <3>2. \A i \in 1 .. s - 1 : mem'[i] = mem[i]
      <4>1. \A i \in 1 .. s - 1 : i \in 1 .. s
        BY <2>2
      <4> QED BY <1>0, <2>2, <3>1, <4>1, ForgottenIs
    <3>3. \A k \in 1 .. catchDepth : frames'[k] = frames[k] /\ frames[k].sp <= s - 1
      BY <2>1, <2>2, <2>5
    <3>4. FramesSource(mem', frames', catchDepth, srcPtr, srcEnd, reached)
      BY <1>0, <2>2, <2>3, <3>2, <3>3, FramesKept
    <3>5. srcEnd' = TextEnd(LevelAt(mem, s)) /\ srcPtr' = reached[LevelAt(mem, s)]
      BY <2>4, <2>6, <3>1 DEF l
    <3> QED BY <2>1, <2>2, <2>4, <3>1, <3>2, <3>4, <3>5, SourceReturned
  <2>7. CASE mem[sp - 1].val # srcEnd
    <3>1. /\ srcEnd' = TextEnd(l) /\ regPtr' = reached[l] /\ sp' = s
          /\ pc' = "restorePtr" /\ UNCHANGED <<mem, reached>>
      BY <1>4, <2>4, <2>7 DEF RestoreSource, s
    <3>2. ASSUME NEW k \in 1 .. catchDepth
          PROVE  FrameSource(mem, frames[k], regPtr', srcEnd', reached)
      <4> DEFINE j == LevelAt(mem, frames[k].sp - 2)
      <4>1. FrameSource(mem, frames[k], srcPtr, srcEnd, reached)
        BY <2>3 DEF FramesSource
      <4>2. /\ mem[frames[k].sp - 1].val = TextEnd(j) /\ TextEnd(j) <= srcEnd
            /\ TextEnd(j) # srcEnd => mem[frames[k].sp].val = reached[j]
            /\ Kept(mem, frames[k].sp - 2, reached)
        BY <4>1 DEF FrameSource
      <4>3. j \in Nat /\ l \in Nat /\ j <= l
        BY <2>5
      <4> HIDE DEF j
      <4>4. TextEnd(j) \in Nat /\ TextEnd(l) \in Nat
        BY <4>3, TextEnds
      <4>5. j = l \/ TextEnd(j) < TextEnd(l)
        BY <4>3, TextEnds
      <4>6. TextEnd(j) <= srcEnd'
        BY <3>1, <4>4, <4>5
      <4>7. TextEnd(j) = srcEnd' => regPtr' = reached[j]
        BY <3>1, <4>4, <4>5
      <4>8. TextEnd(j) # srcEnd' => mem[frames[k].sp].val = reached[j]
        <5>1. ASSUME TextEnd(j) # srcEnd' PROVE TextEnd(j) # srcEnd
          BY <1>0, <2>4, <3>1, <4>4, <4>5, <5>1
        <5> QED BY <4>2, <5>1
      <4> QED BY <4>2, <4>6, <4>7, <4>8 DEF FrameSource, j
    <3>3. FramesSource(mem', frames', catchDepth', regPtr', srcEnd', reached')
      BY <2>1, <3>1, <3>2 DEF FramesSource
    <3>4. Kept(mem', sp', reached') /\ srcEnd' = TextEnd(LevelAt(mem', sp'))
          /\ regPtr' = reached'[LevelAt(mem', sp')]
      BY <2>4, <3>1 DEF l
    <3> QED BY <3>1, <3>3, <3>4 DEF SourceInv, Position, OwnSource, Going, AtWord, Ending
  <2> QED BY <2>6, <2>7
<1>5. CASE RestorePtr
  <2>1. /\ pc = "restorePtr" /\ pc \in AtWord /\ pc \in OwnSource /\ pc # "nestPtr"
        /\ pc \in Going
        /\ srcPtr' = regPtr /\ mem' = Forgotten(mem, sp) /\ sp' = sp - 1
        /\ pc' = Landing(mem[sp])
        /\ UNCHANGED <<catchDepth, frames, srcEnd, reached>>
    BY <1>5 DEF RestorePtr, Caught, Return, AtWord, OwnSource, Going, catchVars
  <2>2. /\ FramesSource(mem, frames, catchDepth, regPtr, srcEnd, reached)
        /\ Kept(mem, sp, reached)
        /\ srcEnd = TextEnd(LevelAt(mem, sp)) /\ regPtr = reached[LevelAt(mem, sp)]
    BY <2>1 DEF SourceInv, Position
  <2>3. \A i \in 1 .. sp - 1 : mem'[i] = mem[i]
    <3>1. \A i \in 1 .. sp - 1 : i \in 1 .. sp
      BY <2>1, AtWordIs
    <3> QED BY <2>1, <3>1, AtWordIs, ForgottenIs
  <2>4. \A k \in 1 .. catchDepth : frames'[k] = frames[k] /\ frames[k].sp <= sp - 1
    <3>1. \A k \in 1 .. catchDepth : frames[k].sp \in Nat /\ frames[k].sp + 1 <= sp
      BY <2>1, FrameIs, AtWordIs DEF Counted
    <3> QED BY <2>1, <3>1, AtWordIs
  <2>5. FramesSource(mem', frames', catchDepth', srcPtr', srcEnd', reached')
    <3>1. sp - 1 \in Nat
      BY <2>1, AtWordIs
    <3>2. FramesSource(mem', frames', catchDepth, regPtr, srcEnd, reached)
      BY <1>0, <2>2, <2>3, <2>4, <3>1, FramesKept
    <3> QED BY <2>1, <3>2
  <2> QED BY <2>1, <2>2, <2>3, <2>5, AtWordIs, SourceReturned
<1> QED BY <1>1, <1>2, <1>3, <1>4, <1>5 DEF Throw
-----------------------------------------------------------------------------
\* LOAD-TEXT and EDIT keep the source on the stack and note it in the frames.
LEMMA NestSource ==
  ASSUME StackInv, pc \in {"word", "edit"}, NEW p \in Addresses, NEW r,
         LevelAt(mem, sp) < MaxNest, NEW m2,
         m2 = Pushed(NestedCall(Level + 1), SourceKept(p), sp + 2),
         FramesSource(mem, frames, catchDepth, p, srcEnd, r), Kept(mem, sp, r),
         srcEnd = TextEnd(LevelAt(mem, sp)), p = r[LevelAt(mem, sp)]
  PROVE  /\ FramesSource(m2, frames, catchDepth, p, srcEnd, r)
         /\ FramesNoted(m2, frames, catchDepth, r)
         /\ Kept(m2, sp + 3, r)
<1>1. /\ pc \in AtWord /\ sp \in Nat /\ sp >= 1 /\ Sound(mem, sp) /\ mem \in Memory
      /\ sp <= StackCells
  BY AtWordIs DEF AtWord
<1>2. /\ Same(mem, m2, sp) /\ m2[sp + 1] = End(srcEnd) /\ m2[sp + 2] = Ptr(p)
      /\ \A i \in 1 .. sp : m2[i] = SourceNoted(mem, p)[i]
      /\ m2 \in Memory
  BY SourceKeptIs
<1>3. LevelAt(m2, sp + 2) = LevelAt(mem, sp) /\ LevelAt(m2, sp) = LevelAt(mem, sp)
  BY NestStarts
<1>4. ASSUME NEW i \in 1 .. sp
      PROVE  /\ mem[i].kind # "ptr" => m2[i] = mem[i]
             /\ (\A k \in 1 .. catchDepth : frames[k].sp # i) => m2[i] = mem[i]
             /\ \A k \in 1 .. catchDepth : frames[k].sp = i =>
                  m2[i] = IF mem[i - 1].val = srcEnd THEN Ptr(p) ELSE mem[i]
  <2>1. i \in DOMAIN mem
    <3>1. DOMAIN mem = 1 .. StackCells
      BY <1>1 DEF Memory
    <3> QED BY <1>1, <3>1, SizesAssumption
  <2>2. m2[i] = IF i \in {frames[k].sp : k \in 1 .. catchDepth} /\ mem[i - 1].val = srcEnd
                THEN Ptr(p) ELSE mem[i]
    BY <1>2, <2>1 DEF SourceNoted
  <2>3. i \in {frames[k].sp : k \in 1 .. catchDepth} => mem[i].kind = "ptr"
    BY <1>1, NotedAre
  <2> QED BY <2>2, <2>3
<1>5. Kept(m2, sp, r)
  <2> SUFFICES ASSUME NEW i \in 1 .. sp, mem[i].kind = "nested"
               PROVE  m2[i - 1].val = mem[i - 1].val /\ m2[i - 2].val = mem[i - 2].val
    BY <1>1, <1>2, KeptOther
  <2>1. i - 1 \in 1 .. sp /\ i - 2 \in 1 .. sp /\ mem[i - 2].kind = "end" /\ i - 1 + 1 = i
    BY <1>1, UnderNested
  <2>2. ASSUME NEW k \in 1 .. catchDepth PROVE frames[k].sp # i - 1
    <3>1. mem[frames[k].sp + 1].kind = "xt"
      BY <1>1, NotedAre
    <3> QED BY <2>1, <3>1
  <2> QED BY <1>4, <2>1, <2>2
<1>6. Kept(m2, sp + 3, r)
  <2>1. /\ sp + 1 \in Nat /\ sp + 2 \in Nat /\ sp + 1 + 1 = sp + 2 /\ sp + 2 + 1 = sp + 3
        /\ sp + 2 - 1 = sp + 1
    BY <1>1
  <2>2. /\ m2[sp + 1].kind = "end" /\ m2[sp + 2].kind = "ptr"
        /\ m2[sp + 1].val = srcEnd /\ m2[sp + 2].val = p
    BY <1>2 DEF End, Ptr
  <2>3. Kept(m2, sp + 1, r)
    BY <1>1, <1>5, <2>2, KeptPush
  <2>4. m2[sp + 1 + 1].kind # "nested"
    BY <2>1, <2>2
  <2>5. Kept(m2, sp + 1 + 1, r)
    BY <2>1, <2>3, <2>4, KeptPush
  <2>6. Kept(m2, sp + 2, r)
    BY <2>1, <2>5
  <2>7. m2[sp + 2].val = r[LevelAt(m2, sp + 2)]
        /\ m2[sp + 2 - 1].val = TextEnd(LevelAt(m2, sp + 2))
    BY <1>3, <2>1, <2>2
  <2>8. Kept(m2, sp + 2 + 1, r)
    BY <2>1, <2>6, <2>7, KeptPush
  <2> QED BY <2>1, <2>8
<1>7. ASSUME NEW k \in 1 .. catchDepth
      PROVE  /\ FrameSource(m2, frames[k], p, srcEnd, r)
             /\ m2[frames[k].sp - 1].val = TextEnd(LevelAt(m2, frames[k].sp - 2))
             /\ m2[frames[k].sp].val = r[LevelAt(m2, frames[k].sp - 2)]
             /\ Kept(m2, frames[k].sp - 2, r)
  <2> DEFINE f == frames[k].sp
             j == LevelAt(mem, f - 2)
  <2>1. FrameSource(mem, frames[k], p, srcEnd, r)
    BY DEF FramesSource
  <2>2. f \in 1 .. sp - 1 /\ f >= 3 /\ mem[f].kind = "ptr"
    BY <1>1, NotedAre
  <2>3. f \in 1 .. sp /\ f - 1 \in 1 .. sp /\ f - 2 \in 0 .. sp /\ f - 2 \in Nat /\ f # 1
        /\ f - 2 <= sp
    BY <1>1, <2>2
  <2>4. mem[f - 1].kind = "end"
    <3>1. Fits(mem, f)
      BY <1>1, <2>3 DEF Sound
    <3> QED BY <2>2, <3>1 DEF Fits
  <2>5. LevelAt(m2, f - 2) = j
    BY <1>1, <1>2, <2>3, LevelAtSameBelow
  <2>6. /\ mem[f - 1].val = TextEnd(j) /\ TextEnd(j) <= srcEnd
        /\ TextEnd(j) = srcEnd => p = r[j]
        /\ TextEnd(j) # srcEnd => mem[f].val = r[j]
    BY <2>1 DEF FrameSource
  <2>7. m2[f - 1] = mem[f - 1]
    BY <1>4, <2>3, <2>4
  <2>8. m2[f] = IF mem[f - 1].val = srcEnd THEN Ptr(p) ELSE mem[f]
    BY <1>4, <2>3
  <2>9. m2[f].val = r[j]
    <3>1. CASE mem[f - 1].val = srcEnd
      BY <2>6, <2>8, <3>1 DEF Ptr
    <3>2. CASE mem[f - 1].val # srcEnd
      BY <2>6, <2>8, <3>2
    <3> QED BY <3>1, <3>2
  <2>10. Kept(m2, f - 2, r)
    BY <1>1, <1>5, <2>3, KeptBelow
  <2> QED BY <2>5, <2>6, <2>7, <2>9, <2>10 DEF FrameSource
<1> QED BY <1>6, <1>7 DEF FramesSource, FramesNoted

\* The frames' texts are below a nested run's own.
LEMMA FramesBelow ==
  ASSUME StackInv, pc \in {"nest", "nestPtr", "nestEnd", "nestEndPtr"},
         NEW k \in 1 .. catchDepth
  PROVE  /\ LevelAt(mem, frames[k].sp - 2) \in Texts
         /\ LevelAt(mem, frames[k].sp - 2) \in Nat
         /\ LevelAt(mem, sp) \in Nat /\ LevelAt(mem, sp) \in Texts
         /\ LevelAt(mem, frames[k].sp - 2) <= LevelAt(mem, sp)
         /\ pc \in {"nest", "nestPtr"} =>
              LevelAt(mem, frames[k].sp - 2) < LevelAt(mem, sp)
<1> DEFINE b == frames[k].sp - 2
<1>1. /\ pc \in Going /\ sp \in Nat /\ sp >= 1 /\ Sound(mem, sp)
      /\ Counted(mem, sp, frames, catchDepth) /\ sp \in 1 .. sp /\ sp \in 0 .. sp
      /\ pc \in {"nest", "nestPtr"} => mem[sp].kind = "nested"
  BY DEF StackInv, Typed, StackAt, Going, Under, AtWord, Ending
<1>2. /\ LevelAt(mem, b) \in Texts /\ LevelAt(mem, b) \in Nat
      /\ LevelAt(mem, b) <= LevelAt(mem, sp)
  BY <1>1, FrameIs
<1>3. LevelAt(mem, sp) \in Nat /\ LevelAt(mem, sp) \in Texts
  BY <1>1, LevelsBelow
<1>4. ASSUME pc \in {"nest", "nestPtr"}
      PROVE  LevelAt(mem, b) < LevelAt(mem, sp)
  <2>1. /\ sp >= 3 /\ LevelAt(mem, sp) = LevelAt(mem, sp - 1) + 1
        /\ LevelAt(mem, sp - 1) \in Nat
    BY <1>1, <1>4, UnderNested
  <2>2. frames[k].sp + 1 <= sp /\ frames[k].sp \in Nat /\ b \in Nat
    BY <1>1, FrameIs DEF Counted
  <2>3. sp - 1 \in Nat /\ sp - 1 >= 1 /\ b \in 0 .. sp - 1
    BY <1>1, <2>1, <2>2
  <2>4. Sound(mem, sp - 1)
    BY <1>1, <2>3, SoundBelow
  <2>5. LevelAt(mem, b) <= LevelAt(mem, sp - 1)
    BY <2>3, <2>4, LevelsBelow
  <2> QED BY <1>2, <2>1, <2>5
<1> QED BY <1>2, <1>3, <1>4
-----------------------------------------------------------------------------
(* A nested run's steps keep the source: its two cells are popped into      *)
(* SRC_PTR and SRC_END one after the other.                                 *)
LEMMA NestedSource ==
  ASSUME StackInv, StackInv', SourceInv, Nested PROVE SourceInv'
<1>1. CASE LoadText
  <2>1. /\ pc = "word" /\ pc \in OwnSource \ {"restorePtr"} /\ pc # "restorePtr"
        /\ ReadWord /\ UNCHANGED <<catchDepth, frames>>
        /\ UNCHANGED catchVars
    BY <1>1 DEF LoadText, OwnSource, AtWord, catchVars
  <2>2. CASE pc' = "nest"
    <3>1. /\ LevelAt(mem, sp) < MaxNest /\ sp' = sp + 3
          /\ mem' = Pushed(NestedCall(Level + 1), SourceKept(Past(srcPtr)), sp + 2)
      BY <1>1, <2>2, LevelIs DEF LoadText
    <3>2. /\ FramesSource(mem, frames, catchDepth, srcPtr', srcEnd, reached')
          /\ Kept(mem, sp, reached')
          /\ srcEnd = TextEnd(LevelAt(mem, sp))
          /\ srcPtr' = reached'[LevelAt(mem, sp)]
          /\ srcPtr' = Past(srcPtr) /\ srcEnd' = srcEnd
      BY <2>1, ReadKept
    <3>3. srcPtr' \in Addresses
      BY DEF StackInv, Typed
    <3>4. mem' = Pushed(NestedCall(Level + 1), SourceKept(srcPtr'), sp + 2)
      BY <3>1, <3>2
    <3>5. /\ FramesSource(mem', frames, catchDepth, srcPtr', srcEnd, reached')
          /\ FramesNoted(mem', frames, catchDepth, reached')
          /\ Kept(mem', sp + 3, reached')
      BY <2>1, <3>1, <3>2, <3>3, <3>4, NestSource
    <3> QED BY <2>1, <2>2, <3>1, <3>2, <3>5
            DEF SourceInv, Position, OwnSource, Going, AtWord, Ending
  <2>3. CASE pc' # "nest"
    <3>1. pc' \in {"throw", "stop"} /\ UNCHANGED <<mem, sp>>
      BY <1>1, <2>3 DEF LoadText
    <3> QED BY <2>1, <3>1, GivesUpSource
  <2> QED BY <2>2, <2>3
<1>2. CASE EditView \/ EditViewLeft
  BY <1>2, SamePlaceSource DEF EditView, EditViewLeft, OwnSource, AtWord
<1>3. CASE EditSectionEnds
  <2>1. /\ pc = "viewEnd" /\ pc \in OwnSource \ {"restorePtr"}
        /\ UNCHANGED <<mem, sp, catchVars>> /\ UNCHANGED srcVars
        /\ pc' \in {"word", "report", "edit"}
    BY <1>3 DEF EditSectionEnds, OwnSource, AtWord
  <2>2. CASE pc' = "report"
    BY <2>1, <2>2, GivesUpSource
  <2>3. CASE pc' # "report"
    <3>1. pc' \in OwnSource \ {"catch", "restorePtr"}
      BY <2>1, <2>3 DEF OwnSource, AtWord
    <3> QED BY <2>1, <3>1, SamePlaceSource
  <2> QED BY <2>2, <2>3
<1>4. CASE EditCommit
  <2>1. /\ pc = "edit" /\ pc' = "nest" /\ sp' = sp + 3
        /\ mem' = Pushed(NestedCall(Level + 1), SourceKept(srcPtr), sp + 2)
        /\ UNCHANGED <<catchDepth, frames, srcPtr, srcEnd, reached>>
    BY <1>4 DEF EditCommit, catchVars, srcVars
  <2>2. /\ LevelAt(mem, sp) < MaxNest /\ srcPtr \in Addresses
        /\ pc \in OwnSource /\ pc # "nestPtr" /\ pc # "restorePtr"
        /\ pc \in Going
    BY <2>1 DEF StackInv, StackAt, Typed, OwnSource, AtWord, Going
  <2>3. /\ FramesSource(mem, frames, catchDepth, srcPtr, srcEnd, reached)
        /\ Kept(mem, sp, reached)
        /\ srcEnd = TextEnd(LevelAt(mem, sp)) /\ srcPtr = reached[LevelAt(mem, sp)]
    BY <2>2 DEF SourceInv, Position
  <2>4. /\ FramesSource(mem', frames, catchDepth, srcPtr, srcEnd, reached)
        /\ FramesNoted(mem', frames, catchDepth, reached)
        /\ Kept(mem', sp + 3, reached)
    BY <2>1, <2>2, <2>3, NestSource
  <2> QED BY <2>1, <2>4 DEF SourceInv, Position, OwnSource, Going, AtWord, Ending
<1>5. CASE NestPtr
  <2> DEFINE l == LevelAt(mem, sp)
  <2>1. /\ pc = "nest" /\ pc' = "nestPtr" /\ srcPtr' = TextStart(l)
        /\ reached' = [reached EXCEPT ![l] = TextStart(l)]
        /\ UNCHANGED <<mem, sp, catchDepth, frames>>
    BY <1>5, LevelIs DEF NestPtr, catchVars
  <2>2. /\ FramesNoted(mem, frames, catchDepth, reached) /\ Kept(mem, sp, reached)
        /\ sp \in Nat /\ sp >= 1 /\ Sound(mem, sp) /\ sp \in 0 .. sp
        /\ reached \in [Texts -> Addresses]
    BY <2>1 DEF SourceInv, StackInv, Typed, StackAt, Going
  <2>3. l \in Texts /\ l \in Nat
    BY <2>2, LevelsBelow
  <2>4. reached'[l] = srcPtr' /\ \A j \in Texts : j # l => reached'[j] = reached[j]
    BY <2>1, <2>2, <2>3
  <2> HIDE DEF l
  <2>5. ASSUME NEW h \in 0 .. sp, Kept(mem, h, reached) PROVE Kept(mem, h, reached')
    <3>1. h \in Nat /\ Sound(mem, h) /\ Same(mem, mem, h)
      BY <2>2, SoundBelow, SameIs
    <3>2. ASSUME NEW i \in 1 .. h, mem[i].kind = "nested"
          PROVE  reached'[LevelAt(mem, i - 1)] = reached[LevelAt(mem, i - 1)]
      <4>1. LevelAt(mem, i) = LevelAt(mem, i - 1) + 1 /\ LevelAt(mem, i - 1) \in Nat
        BY <3>1, <3>2, UnderNested
      <4>2. i \in 0 .. sp /\ i - 1 \in 0 .. sp
        BY <2>2
      <4>3. LevelAt(mem, i) <= l /\ LevelAt(mem, i - 1) \in Texts
        BY <2>2, <4>2, LevelsBelow DEF l
      <4> QED BY <2>3, <2>4, <4>1, <4>3
    <3> QED BY <2>5, <3>1, <3>2, KeptOther
  <2>6. Kept(mem, sp, reached')
    BY <2>2, <2>5
  <2>7. FramesNoted(mem, frames, catchDepth, reached')
    <3> SUFFICES ASSUME NEW k \in 1 .. catchDepth
                 PROVE  /\ mem[frames[k].sp - 1].val = TextEnd(LevelAt(mem, frames[k].sp - 2))
                        /\ mem[frames[k].sp].val = reached'[LevelAt(mem, frames[k].sp - 2)]
                        /\ Kept(mem, frames[k].sp - 2, reached')
      BY DEF FramesNoted
    <3>1. /\ mem[frames[k].sp - 1].val = TextEnd(LevelAt(mem, frames[k].sp - 2))
          /\ mem[frames[k].sp].val = reached[LevelAt(mem, frames[k].sp - 2)]
          /\ Kept(mem, frames[k].sp - 2, reached)
      BY <2>2 DEF FramesNoted
    <3>2. LevelAt(mem, frames[k].sp - 2) \in Texts /\ LevelAt(mem, frames[k].sp - 2) # l
      BY <2>1, FramesBelow DEF l
    <3>3. frames[k].sp - 2 \in 0 .. sp
      <4>1. frames[k].sp \in Nat /\ frames[k].sp - 2 \in Nat /\ frames[k].sp + 1 <= sp
        BY <2>1, FrameIs, Extents DEF Going
      <4> QED BY <2>2, <4>1
    <3> QED BY <2>4, <2>5, <3>1, <3>2, <3>3
  <2> QED BY <2>1, <2>4, <2>6, <2>7
          DEF SourceInv, Position, OwnSource, Going, AtWord, Ending, l
<1>6. CASE NestEnd
  <2> DEFINE l == LevelAt(mem, sp)
  <2>1. /\ pc = "nestPtr" /\ pc' = "loop" /\ srcEnd' = TextEnd(l)
        /\ UNCHANGED <<mem, sp, catchDepth, frames, srcPtr, reached>>
    BY <1>6, LevelIs DEF NestEnd, catchVars
  <2>2. /\ FramesNoted(mem, frames, catchDepth, reached) /\ Kept(mem, sp, reached)
        /\ srcPtr = reached[l]
    BY <2>1 DEF SourceInv, Going
  <2>3. ASSUME NEW k \in 1 .. catchDepth
        PROVE  FrameSource(mem, frames[k], srcPtr, srcEnd', reached)
    <3> DEFINE j == LevelAt(mem, frames[k].sp - 2)
    <3>1. /\ mem[frames[k].sp - 1].val = TextEnd(j) /\ mem[frames[k].sp].val = reached[j]
          /\ Kept(mem, frames[k].sp - 2, reached)
      BY <2>2 DEF FramesNoted
    <3>2. j \in Nat /\ l \in Nat /\ j < l
      BY <2>1, FramesBelow
    <3> HIDE DEF j, l
    <3>3. TextEnd(j) < TextEnd(l) /\ TextEnd(j) \in Nat /\ TextEnd(l) \in Nat
      BY <3>2, TextEnds
    <3> QED BY <2>1, <3>1, <3>3 DEF FrameSource, j
  <2>4. FramesSource(mem', frames', catchDepth', srcPtr', srcEnd', reached')
    BY <2>1, <2>3 DEF FramesSource
  <2>5. pc' \in OwnSource \ {"catch", "restorePtr"}
    BY <2>1 DEF OwnSource
  <2> QED BY <2>1, <2>2, <2>4, <2>5, RunsOn
<1>7. CASE EditNextLine
  <2> DEFINE l == LevelAt(mem, sp)
  <2>1. /\ pc = "nestEnd" /\ pc' = "nest" /\ sp' = sp + 1
        /\ mem' = Forgotten(Pushed(NestedCall(Level + 1), mem, sp), sp + 1)
        /\ UNCHANGED <<catchDepth, frames, srcPtr, srcEnd, reached>>
    BY <1>7 DEF EditNextLine, catchVars, srcVars
  <2>2. /\ FramesSource(mem, frames, catchDepth, srcPtr, srcEnd, reached)
        /\ Kept(mem, sp, reached) /\ srcEnd = TextEnd(l + 1)
        /\ mem[sp].val = reached[l] /\ mem[sp - 1].val = TextEnd(l)
    BY <2>1 DEF SourceInv, Position, Going
  <2>3. /\ sp \in Nat /\ sp >= 1 /\ sp - 1 \in 1 .. sp /\ sp \in 1 .. sp /\ l \in Nat
        /\ sp + 1 <= StackCells /\ l < MaxNest
        /\ catchDepth \in 0 .. catchDepth
    BY <2>1, NestedIs
  <2>4. NestedCall(Level + 1) \in Cell
    <3>1. Level + 1 \in Texts /\ Level + 1 \in Addresses
      BY <2>3, LevelIs, TextsAreAddresses, SizesAssumption DEF Texts
    <3> QED BY <3>1 DEF NestedCall, Cell, Kinds
  <2>5. /\ \A i \in 1 .. sp : mem'[i] = mem[i]
        /\ mem \in Memory
    BY <2>1, <2>3, <2>4, NestedIs, CallIs
  <2>6. LevelAt(mem', sp) = l /\ Kept(mem', sp, reached)
    BY <2>1, <2>2, <2>3, <2>5, NestedIs, LevelEqual, KeptSame
  <2>7. mem'[sp] = mem[sp] /\ mem'[sp - 1] = mem[sp - 1]
    BY <2>3, <2>5
  <2> HIDE DEF l
  <2>8. Kept(mem', sp + 1, reached)
    BY <2>2, <2>3, <2>6, <2>7, KeptPush
  <2>9. \A k \in 1 .. catchDepth : frames[k].sp <= sp
    <3>1. \A k \in 1 .. catchDepth : frames[k].sp + 1 <= sp /\ frames[k].sp \in Nat
      BY <2>1, NestedIs, Extents
    <3> QED BY <2>3, <3>1
  <2>10. FramesSource(mem', frames, catchDepth, srcPtr, srcEnd, reached)
    BY <2>2, <2>3, <2>5, <2>9, FramesKept
  <2>11. FramesNoted(mem', frames, catchDepth, reached)
    <3> SUFFICES ASSUME NEW k \in 1 .. catchDepth
                 PROVE  /\ mem'[frames[k].sp - 1].val = TextEnd(LevelAt(mem', frames[k].sp - 2))
                        /\ mem'[frames[k].sp].val = reached[LevelAt(mem', frames[k].sp - 2)]
                        /\ Kept(mem', frames[k].sp - 2, reached)
      BY DEF FramesNoted
    <3> DEFINE j == LevelAt(mem, frames[k].sp - 2)
    <3>1. j \in Nat /\ j <= l
      BY <2>1, FramesBelow DEF l
    <3>2. LevelAt(mem', frames[k].sp - 2) = j
      <4>1. frames[k].sp - 2 \in Nat /\ frames[k].sp \in Nat /\ frames[k].sp <= sp
        BY <2>9, FrameIs
      <4>2. \A i \in 1 .. frames[k].sp - 2 : mem'[i] = mem[i]
        BY <2>3, <2>5, <4>1
      <4> QED BY <4>1, <4>2, LevelEqual
    <3>3. /\ mem'[frames[k].sp - 1].val = TextEnd(LevelAt(mem', frames[k].sp - 2))
          /\ TextEnd(LevelAt(mem', frames[k].sp - 2)) # srcEnd =>
               mem'[frames[k].sp].val = reached[LevelAt(mem', frames[k].sp - 2)]
          /\ Kept(mem', frames[k].sp - 2, reached)
      BY <2>10 DEF FramesSource, FrameSource
    <3> HIDE DEF j
    <3>4. TextEnd(j) # srcEnd
      <4>1. l + 1 \in Nat /\ j < l + 1
        BY <2>3, <3>1
      <4> QED BY <2>2, <3>1, <4>1, TextEnds
    <3> QED BY <3>2, <3>3, <3>4
  <2> QED BY <2>1, <2>8, <2>10, <2>11
          DEF SourceInv, Position, OwnSource, Going, AtWord, Ending
<1>8. CASE NestedReturns
  <2> DEFINE l == LevelAt(mem, sp)
  <2>1. /\ pc = "nestEnd" /\ pc' = "nestEndPtr" /\ sp' = sp - 1
        /\ srcPtr' = mem[sp].val
        /\ UNCHANGED <<mem, catchDepth, frames, srcEnd, reached>>
    BY <1>8 DEF NestedReturns, catchVars
  <2>2. /\ FramesSource(mem, frames, catchDepth, srcPtr, srcEnd, reached)
        /\ Kept(mem, sp, reached) /\ srcEnd = TextEnd(l + 1)
        /\ mem[sp].val = reached[l] /\ mem[sp - 1].val = TextEnd(l)
    BY <2>1 DEF SourceInv, Position, Going
  <2>3. sp \in Nat /\ sp - 1 \in Nat /\ sp - 1 <= sp /\ LevelAt(mem, sp - 1) = l /\ l \in Nat
    BY <2>1, NestedIs
  <2>4. Kept(mem, sp - 1, reached)
    BY <2>2, <2>3, KeptBelow
  <2> HIDE DEF l
  <2>5. ASSUME NEW k \in 1 .. catchDepth
        PROVE  FrameSource(mem, frames[k], srcPtr', srcEnd, reached)
    <3> DEFINE j == LevelAt(mem, frames[k].sp - 2)
    <3>1. j \in Nat /\ j < l + 1 /\ l + 1 \in Nat
      BY <2>1, <2>3, FramesBelow DEF l
    <3> HIDE DEF j
    <3>2. TextEnd(j) # srcEnd
      BY <2>2, <3>1, TextEnds
    <3>3. FrameSource(mem, frames[k], srcPtr, srcEnd, reached)
      BY <2>2 DEF FramesSource
    <3> QED BY <3>2, <3>3 DEF FrameSource, j
  <2>6. FramesSource(mem', frames', catchDepth', srcPtr', srcEnd', reached')
    BY <2>1, <2>5 DEF FramesSource
  <2> QED BY <2>1, <2>2, <2>3, <2>4, <2>6
          DEF SourceInv, Position, OwnSource, Going, AtWord, Ending
<1>9. CASE NestedReturned
  <2> DEFINE l == LevelAt(mem, sp)
  <2>1. /\ pc = "nestEndPtr" /\ pc' = "word" /\ sp' = sp - 1
        /\ srcEnd' = mem[sp].val /\ mem' = Forgotten(mem, sp - 1)
        /\ UNCHANGED <<catchDepth, frames, srcPtr, reached>>
    BY <1>9 DEF NestedReturned, catchVars
  <2>2. /\ FramesSource(mem, frames, catchDepth, srcPtr, srcEnd, reached)
        /\ Kept(mem, sp, reached) /\ srcEnd = TextEnd(l + 1)
        /\ srcPtr = reached[l] /\ mem[sp].val = TextEnd(l)
    BY <2>1 DEF SourceInv, Position, Going
  <2>3. /\ sp \in Nat /\ sp - 1 \in Nat /\ sp - 1 <= sp /\ LevelAt(mem, sp - 1) = l
        /\ l \in Nat /\ sp - 1 <= StackCells /\ mem \in Memory /\ Sound(mem, sp)
        /\ catchDepth \in 0 .. catchDepth
    BY <2>1, NestedIs, SizesAssumption
  <2>4. \A i \in 1 .. sp - 1 : mem'[i] = mem[i]
    BY <2>1, <2>3, ForgottenIs
  <2>5. Kept(mem', sp - 1, reached) /\ LevelAt(mem', sp - 1) = l
    <3>1. Kept(mem, sp - 1, reached) /\ Sound(mem, sp - 1)
      BY <2>2, <2>3, KeptBelow, SoundBelow
    <3> QED BY <2>3, <2>4, <3>1, KeptSame, LevelEqual
  <2> HIDE DEF l
  <2>6. ASSUME NEW k \in 1 .. catchDepth
        PROVE  FrameSource(mem, frames[k], srcPtr, srcEnd', reached)
    <3> DEFINE j == LevelAt(mem, frames[k].sp - 2)
    <3>1. j \in Nat /\ j <= l /\ j < l + 1 /\ l + 1 \in Nat
      BY <2>1, <2>3, FramesBelow DEF l
    <3> HIDE DEF j
    <3>2. TextEnd(j) # srcEnd
      BY <2>2, <3>1, TextEnds
    <3>3. FrameSource(mem, frames[k], srcPtr, srcEnd, reached)
      BY <2>2 DEF FramesSource
    <3>4. /\ TextEnd(j) <= srcEnd'
          /\ TextEnd(j) = srcEnd' => j = l
      <4>1. j = l \/ j < l
        BY <2>3, <3>1
      <4>2. TextEnd(j) \in Nat /\ TextEnd(l) \in Nat
        BY <2>3, <3>1, TextEnds
      <4>3. j < l => TextEnd(j) < TextEnd(l)
        BY <2>3, <3>1, TextEnds
      <4> QED BY <2>1, <2>2, <4>1, <4>2, <4>3
    <3> QED BY <2>2, <3>2, <3>3, <3>4 DEF FrameSource, j
  <2>7. FramesSource(mem, frames, catchDepth, srcPtr, srcEnd', reached)
    BY <2>6 DEF FramesSource
  <2>8. \A k \in 1 .. catchDepth : frames[k].sp <= sp - 1
    <3>1. \A k \in 1 .. catchDepth : frames[k].sp + 1 <= sp /\ frames[k].sp \in Nat
      BY <2>1, NestedIs, Extents
    <3> QED BY <2>3, <3>1
  <2>9. FramesSource(mem', frames', catchDepth', srcPtr', srcEnd', reached')
    <3>1. FramesSource(mem', frames, catchDepth, srcPtr, srcEnd', reached)
      BY <2>3, <2>4, <2>7, <2>8, FramesKept
    <3> QED BY <2>1, <3>1
  <2>10. pc' \in OwnSource \ {"catch", "restorePtr"}
    BY <2>1 DEF OwnSource, AtWord
  <2> QED BY <2>1, <2>2, <2>5, <2>9, <2>10, RunsOn
<1> QED BY <1>1, <1>2, <1>3, <1>4, <1>5, <1>6, <1>7, <1>8, <1>9 DEF Nested
-----------------------------------------------------------------------------
(* The BREAK sections keep the source.                                      *)
LEMMA SectionSource ==
  ASSUME StackInv, StackInv', SourceInv, Section PROVE SourceInv'
<1>1. CASE BreakStop
  BY <1>1, GivesUpSource DEF BreakStop
<1>2. CASE SectionStarts \/ SectionReleases \/ SectionStops
  <2>1. /\ pc \in OwnSource \ {"restorePtr"} /\ UNCHANGED <<mem, sp, catchVars>>
        /\ UNCHANGED srcVars /\ pc # "stop"
        /\ pc' \in {"section", "sectionEnd", "stop", "word"}
    BY <1>2 DEF SectionStarts, SectionReleases, SectionStops, OwnSource, AtWord
  <2>2. CASE pc' = "stop"
    BY <2>1, <2>2, GivesUpSource
  <2>3. CASE pc' # "stop"
    <3>1. pc' \in OwnSource \ {"catch", "restorePtr"}
      BY <2>1, <2>3 DEF OwnSource, AtWord
    <3> QED BY <2>1, <3>1, SamePlaceSource
  <2> QED BY <2>2, <2>3
<1> QED BY <1>1, <1>2 DEF Section

\* What an interrupt leaves of the frames' sources: at most the position that
\* CATCH's end has popped goes, of a text that is the source still.
LEMMA BreakFrames ==
  ASSUME StackInv, SourceInv, pc # "nestPtr", pc # "xtPopped",
         NEW m2, \A i \in 1 .. sp : m2[i] = mem[i],
         NEW k \in 1 .. catchDepth
  PROVE  FrameSource(m2, frames[k], Position, srcEnd, reached)
<1> DEFINE b == frames[k].sp - 2
           j == LevelAt(mem, b)
<1>1. FrameSource(mem, frames[k], Position, srcEnd, reached)
  BY DEF SourceInv, FramesSource
<1>2. /\ frames[k] \in Frame /\ frames[k].sp \in Nat /\ frames[k].sp >= 3
      /\ b \in Nat /\ frames[k].sp - 1 \in 1 .. frames[k].sp /\ Sound(mem, b)
      /\ frames[k].sp <= sp + Popped(pc) /\ sp \in Nat
      /\ Popped(pc) \in 0 .. 2
  BY FrameIs, Extents DEF StackInv, Typed
<1>3. CASE frames[k].sp <= sp
  <2>1. \A i \in 1 .. frames[k].sp : m2[i] = mem[i]
    BY <1>2, <1>3
  <2> QED BY <1>1, <1>2, <2>1, FrameKept
<1>4. CASE ~ (frames[k].sp <= sp)
  <2>1. pc = "xtPop" /\ frames[k].sp = sp + 1
    <3>1. Popped(pc) # 0
      BY <1>2, <1>4
    <3>2. pc = "xtPop" /\ Popped(pc) = 1
      BY <3>1 DEF Popped
    <3> QED BY <1>2, <1>4, <3>2
  <2>2. k = catchDepth
    <3>1. pc \in Ending /\ Counted(mem, sp, frames, catchDepth - 1)
      BY <2>1 DEF StackInv, StackAt, Ending
    <3>2. k # catchDepth => k \in 1 .. catchDepth - 1
      BY DEF StackInv, Typed
    <3> QED BY <1>2, <1>4, <3>1, <3>2 DEF Counted
  <2>3. \A i \in 1 .. frames[k].sp - 1 : m2[i] = mem[i]
    BY <1>2, <2>1
  <2>4. m2[frames[k].sp - 1] = mem[frames[k].sp - 1]
    BY <1>2, <2>3
  <2>5. LevelAt(m2, b) = j /\ Kept(m2, b, reached)
    <3>1. \A i \in 1 .. b : m2[i] = mem[i]
      BY <1>2, <2>3
    <3> QED BY <1>1, <1>2, <3>1, LevelEqual, KeptSame DEF FrameSource
  <2>6. TextEnd(j) = srcEnd
    <3>1. /\ srcEnd = TextEnd(LevelAt(mem, sp)) /\ sp >= 1 /\ Sound(mem, sp)
          /\ mem[sp].kind = "end" /\ sp - 1 \in Nat /\ b = sp - 1
      <4>1. srcEnd = TextEnd(LevelAt(mem, sp))
        BY <2>1 DEF SourceInv, OwnSource, Ending
      <4>2. sp >= 1 /\ Sound(mem, sp) /\ mem[sp].kind = "end"
        BY <2>1 DEF StackInv, StackAt, Ending, Under, AtWord
      <4> QED BY <1>2, <2>1, <4>1, <4>2
    <3>2. LevelAt(mem, sp) = LevelAt(mem, sp - 1)
      BY <1>2, <3>1, LevelAtStep
    <3> QED BY <3>1, <3>2
  <2> QED BY <1>1, <2>4, <2>5, <2>6 DEF FrameSource
<1> QED BY <1>3, <1>4

(* A BREAK anywhere but between the two stores keeps the frames' sources.   *)
LEMMA BreakSource ==
  ASSUME NoBreakBetweenStores, StackInv, StackInv', SectionInv, SourceInv, Break
  PROVE  SourceInv'
<1>1. /\ pc \notin {"xtPopped", "nestPtr", "restorePtr"}
      /\ mem' = Pushed(Isr, Pushed(Isr, mem, sp), sp + 1)
      /\ UNCHANGED <<catchDepth, frames, tmp, srcPtr, srcEnd, reached, nobrk>>
  BY DEF Break, NoBreakBetweenStores, catchVars, throwVars, srcVars
<1>2. \A i \in 1 .. sp : mem'[i] = mem[i]
  <2> DEFINE m1 == Pushed(Isr, mem, sp)
  <2>1. Isr \in Cell /\ sp + 1 \in Nat /\ sp \in Nat /\ mem \in Memory
    BY CellsTyped DEF StackInv, Typed
  <2>2. m1 \in Memory /\ \A i \in 1 .. sp : m1[i] = mem[i]
    BY <2>1, PushedTyped
  <2> HIDE DEF m1
  <2>3. \A i \in 1 .. sp + 1 : Pushed(Isr, m1, sp + 1)[i] = m1[i]
    BY <2>1, <2>2, PushedTyped
  <2>4. \A i \in 1 .. sp : i \in 1 .. sp + 1
    BY <2>1
  <2> QED BY <1>1, <2>2, <2>3, <2>4 DEF m1
<1>3. FramesSource(mem', frames, catchDepth, srcPtr, srcEnd, reached)
  <2>1. ASSUME NEW k \in 1 .. catchDepth
        PROVE  FrameSource(mem', frames[k], srcPtr, srcEnd, reached)
    <3>1. Position = srcPtr
      BY <1>1 DEF Position
    <3>2. FrameSource(mem', frames[k], Position, srcEnd, reached)
      BY <1>1, <1>2, BreakFrames
    <3> QED BY <3>1, <3>2
  <2> QED BY <2>1 DEF FramesSource
<1>4. CASE nobrk > 0
  <2>1. pc' = pc /\ sp' = sp /\ pc \in Deferring
    <3>1. nobrk = 1 \/ pc \in Deferring
      BY <1>4 DEF SectionInv
    <3>2. pc' = pc /\ sp' = sp
      BY <1>4 DEF Break
    <3> QED BY <1>4, <3>2 DEF SectionInv
  <2>2. CASE pc \in {"section", "view", "viewEnd"}
    <3>1. pc \in AtWord /\ pc \in OwnSource /\ pc # "restorePtr" /\ pc \in Going
          /\ pc' \in OwnSource \ {"catch", "restorePtr"}
      BY <2>1, <2>2 DEF AtWord, OwnSource, Going
    <3>2. Kept(mem, sp, reached) /\ srcEnd = TextEnd(LevelAt(mem, sp))
          /\ srcPtr = reached[LevelAt(mem, sp)]
      BY <3>1 DEF SourceInv, Position
    <3>3. Kept(mem', sp, reached) /\ LevelAt(mem', sp) = LevelAt(mem, sp)
      BY <1>2, <3>1, <3>2, AtWordIs, KeptSame, LevelEqual
    <3> QED BY <1>1, <1>3, <2>1, <3>1, <3>2, <3>3, RunsOn
  <2>3. CASE pc = "run"
    <3>1. sp \in Nat /\ Sound(mem, sp) /\ Kept(mem, sp, reached)
      BY <2>3 DEF StackInv, Typed, StackAt, SourceInv, Going
    <3>2. Kept(mem', sp, reached)
      BY <1>2, <3>1, KeptSame
    <3> QED BY <1>1, <1>3, <2>1, <2>3, <3>2
            DEF SourceInv, Position, OwnSource, AtWord, Ending
  <2>4. CASE pc \in {"console", "back", "report", "throw", "stop"}
    BY <1>1, <1>3, <2>1, <2>4, Stops
  <2> QED BY <2>1, <2>2, <2>3, <2>4 DEF Deferring
<1>5. CASE ~ (nobrk > 0)
  <2>1. pc' = "stop"
    BY <1>5 DEF Break
  <2> QED BY <1>1, <1>3, <2>1, Stops
<1> QED BY <1>4, <1>5
-----------------------------------------------------------------------------
(* No run and no frame at power-on.                                         *)
LEMMA InitSource == Init => SourceInv
BY DEF Init, SourceInv, FramesSource, OwnSource, Going, AtWord, Ending

(* Every step keeps the source.                                             *)
LEMMA SourceStep ==
  ASSUME NoBreakBetweenStores, StackInv, StackInv', SectionInv, SourceInv,
         [Next]_vars
  PROVE  SourceInv'
<1>1. CASE UNCHANGED vars
  <2>1. UNCHANGED <<pc, mem, sp, frames, catchDepth, srcPtr, regPtr, srcEnd, reached, tmp>>
    BY <1>1 DEF vars
  <2> QED BY <2>1 DEF SourceInv, Position
<1> QED BY <1>1, ConsoleSource, InterpreterSource, WordSource, CatchStepsSource,
           ThrowSource, NestedSource, SectionSource, BreakSource
        DEF Next, Cpu

(* While words run, the source is the innermost nested run's text, read on from *)
(* where it was last read.                                                        *)
THEOREM SourceIsTheInnermost ==
  ASSUME NoBreakBetweenStores
  PROVE  Spec => []SourceIsThisRuns
<1>1. StackInv /\ SourceInv => SourceIsThisRuns
  <2> SUFFICES ASSUME StackInv, SourceInv, pc \in {"loop", "word"}
               PROVE  srcEnd = TextEnd(Level) /\ srcPtr = reached[Level]
    BY DEF SourceIsThisRuns
  <2>1. pc \in OwnSource /\ pc # "restorePtr"
    BY DEF OwnSource, AtWord
  <2> QED BY <2>1, LevelIs DEF SourceInv, Position
<1>2. Init => SectionInv
  BY DEF Init, SectionInv, Deferring
<1>3. /\ StackInv /\ SectionInv /\ SourceInv /\ [Next]_vars
      => StackInv' /\ SectionInv' /\ SourceInv'
  BY StackStep, SectionInvStep, SourceStep
<1> QED BY <1>1, <1>2, <1>3, InitStack, InitSource, PTL DEF Spec
-----------------------------------------------------------------------------
(* The mapping.                                                             *)
ActOf(m, fr) == [src |-> m[fr.sp - 1].val, depth |-> fr.ds]
Acts == [i \in 1 .. catchDepth |-> ActOf(mem, frames[i])]
Mode == CASE pc \in {"console", "run", "back"} -> [k |-> "idle"]
          [] pc \in {"stop", "throw"} -> [k |-> "raise"]
          [] pc = "report" -> [k |-> "report"]
          [] pc \in {"unwind", "restore", "restorePtr"} ->
               [k |-> "throw", to |-> ActOf(mem, tmp)]
          [] OTHER -> [k |-> "run"]

Idling == {"console", "run", "back"}
Raising == {"stop", "throw"}
Throwing == {"unwind", "restore", "restorePtr"}
Running == Points \ (Idling \cup Raising \cup Throwing \cup {"report"})

(* The mode the promise is in, from the program point.                      *)
LEMMA ModeIs ==
  /\ pc \in Idling => Mode = Promise!Idle
  /\ pc \in Raising => Mode = Promise!Raise
  /\ pc = "report" => Mode = Promise!Report
  /\ pc \in Throwing => Mode = Promise!To(ActOf(mem, tmp))
  /\ pc \in Running => Mode = Promise!Run
BY DEF Mode, Idling, Raising, Throwing, Running, Promise!Idle, Promise!Raise,
       Promise!Report, Promise!To, Promise!Run

(* The activations are a sequence, one for each frame.                      *)
LEMMA ActsIs ==
  ASSUME catchDepth \in Nat
  PROVE  /\ Acts \in Seq({Acts[i] : i \in 1 .. catchDepth}) /\ Len(Acts) = catchDepth
         /\ \A i \in 1 .. catchDepth : Acts[i] = ActOf(mem, frames[i])
<1> DEFINE S == {Acts[i] : i \in 1 .. catchDepth}
<1>1. DOMAIN Acts = 1 .. catchDepth /\ Acts \in [1 .. catchDepth -> S]
  BY DEF Acts
<1>2. Acts \in Seq(S) /\ Len(Acts) = catchDepth
  <2> HIDE DEF S
  <2>1. Acts \in Seq(S)
    BY <1>1, SeqDef
  <2>2. Len(Acts) \in Nat /\ DOMAIN Acts = 1 .. Len(Acts)
    BY <2>1, LenProperties
  <2> QED BY <1>1, <2>1, <2>2
<1>3. \A i \in 1 .. catchDepth : Acts[i] = ActOf(mem, frames[i])
  BY DEF Acts
<1> QED BY <1>2, <1>3

(* Equal frames over equal cells are equal activations.                     *)
LEMMA ActsEqual ==
  ASSUME catchDepth \in Nat, catchDepth' = catchDepth,
         \A k \in 1 .. catchDepth :
           /\ frames'[k].ds = frames[k].ds
           /\ mem'[frames'[k].sp - 1].val = mem[frames[k].sp - 1].val
  PROVE  Acts' = Acts
BY DEF Acts, ActOf

(* No frame, no activation.                                                 *)
LEMMA ActsNone ==
  ASSUME catchDepth = 0 PROVE Acts = <<>>
<1>1. 0 \in Nat /\ catchDepth \in Nat
  BY Zenon
<1>2. Acts \in Seq({Acts[i] : i \in 1 .. catchDepth}) /\ Len(Acts) = 0
  BY <1>1, ActsIs
<1> DEFINE S == {Acts[i] : i \in 1 .. catchDepth}
<1> HIDE DEF S
<1>3. Acts \in Seq(S) /\ <<>> \in Seq(S) /\ Len(<<>>) = 0
  BY <1>2, EmptySeq DEF S
<1> QED BY <1>2, <1>3, EmptySeq

\* The last frame goes: the last CATCH's act does.
LEMMA ActsPopped ==
  ASSUME catchDepth \in Nat \ {0}, catchDepth' = catchDepth - 1,
         \A k \in 1 .. catchDepth - 1 :
           /\ frames'[k].ds = frames[k].ds
           /\ mem'[frames'[k].sp - 1].val = mem[frames[k].sp - 1].val
  PROVE  /\ Acts # <<>> /\ Promise!Last(Acts) = ActOf(mem, frames[catchDepth])
         /\ Acts' = Promise!Front(Acts)
<1> DEFINE S == {Acts[i] : i \in 1 .. catchDepth}
           n == catchDepth - 1
           F == SubSeq(Acts, 1, n)
<1>0. n \in Nat /\ catchDepth \in Nat /\ n \in Int /\ 1 \in Int /\ n - 1 + 1 = n
      /\ catchDepth \in 1 .. catchDepth /\ \A k \in 1 .. n : k \in 1 .. catchDepth
      /\ n <= catchDepth
  OBVIOUS
<1>1. /\ Acts \in Seq(S) /\ Len(Acts) = catchDepth
      /\ \A i \in 1 .. catchDepth : Acts[i] = ActOf(mem, frames[i])
  BY <1>0, ActsIs
<1>2. \A i \in 1 .. catchDepth : Acts[i] \in S
  OBVIOUS
<1> HIDE DEF S
<1>3. Acts # <<>> /\ Promise!Last(Acts) = ActOf(mem, frames[catchDepth])
  <2>1. Len(<<>>) = 0
    BY EmptySeq
  <2> QED BY <1>0, <1>1, <2>1 DEF Promise!Last
<1>4. F \in Seq(S) /\ Len(F) = n /\ \A i \in 1 .. n : F[i] = Acts[i]
  <2>1. \A i \in 1 .. n : Acts[i] \in S
    BY <1>0, <1>2
  <2>2. /\ F \in Seq(S) /\ Len(F) = IF 1 <= n THEN n - 1 + 1 ELSE 0
        /\ \A i \in 1 .. n - 1 + 1 : F[i] = Acts[1 + i - 1]
    BY <1>0, <2>1, SubSeqProperties
  <2>3. \A i \in 1 .. n : 1 + i - 1 = i
    OBVIOUS
  <2> QED BY <1>0, <2>2, <2>3
<1>5. Promise!Front(Acts) = F
  BY <1>1 DEF Promise!Front
<1>6. Acts' = [i \in 1 .. n |-> ActOf(mem', frames'[i])]
  BY DEF Acts
<1>7. \A i \in 1 .. n : ActOf(mem', frames'[i]) = ActOf(mem, frames[i])
  BY DEF ActOf
<1> DEFINE G == [i \in 1 .. n |-> Acts[i]]
<1>8. Acts' = G
  BY <1>0, <1>1, <1>6, <1>7
<1>9. F = G
  <2> HIDE DEF F, n
  <2>1. F \in [1 .. n -> S]
    BY <1>4, LenProperties
  <2> QED BY <1>4, <2>1
<1> QED BY <1>3, <1>5, <1>8, <1>9

\* A frame is counted: its act is the last.
LEMMA ActsPushed ==
  ASSUME catchDepth \in Nat, catchDepth' = catchDepth + 1,
         \A k \in 1 .. catchDepth :
           /\ frames'[k].ds = frames[k].ds
           /\ mem'[frames'[k].sp - 1].val = mem[frames[k].sp - 1].val
  PROVE  Acts' = Append(Acts, ActOf(mem', frames'[catchDepth + 1]))
<1> DEFINE a == ActOf(mem', frames'[catchDepth + 1])
           S == {Acts[i] : i \in 1 .. catchDepth}
           T == S \cup {a}
           A == Append(Acts, a)
           n == catchDepth + 1
<1>1. /\ Acts \in Seq(S) /\ Len(Acts) = catchDepth
      /\ \A i \in 1 .. catchDepth : Acts[i] = ActOf(mem, frames[i])
  BY ActsIs
<1>2. Acts' = [i \in 1 .. n |-> ActOf(mem', frames'[i])]
  BY DEF Acts
<1>3. \A i \in 1 .. catchDepth : ActOf(mem', frames'[i]) = ActOf(mem, frames[i])
  BY DEF ActOf
<1> HIDE DEF S
<1>4. /\ A \in Seq(T) /\ Len(A) = catchDepth + 1
      /\ \A i \in 1 .. catchDepth : A[i] = Acts[i]
      /\ A[catchDepth + 1] = a
  <2>1. S \subseteq T /\ a \in T
    OBVIOUS
  <2> HIDE DEF T, a
  <2>2. Acts \in Seq(T)
    BY <1>1, <2>1, SeqMonotonic
  <2> QED BY <1>1, <2>1, <2>2, AppendProperties
<1>5. \A i \in 1 .. n : i \in 1 .. catchDepth \/ i = n
  OBVIOUS
<1>6. \A i \in 1 .. n : A[i] = ActOf(mem', frames'[i])
  BY <1>1, <1>3, <1>4, <1>5
<1>7. A = [i \in 1 .. n |-> ActOf(mem', frames'[i])]
  <2> HIDE DEF A, n, T
  <2>1. A \in [1 .. n -> T]
    BY <1>4, LenProperties DEF n
  <2> QED BY <1>6, <2>1
<1> QED BY <1>2, <1>7
-----------------------------------------------------------------------------
(* The steps of the promise.                                                *)
Unseen == Acts' = Acts /\ Mode' = Mode /\ srcEnd' = srcEnd /\ ds' = ds
Step == [Promise!Next]_(Promise!vars)

(* One lemma for each action of CatchSpec: what a step of the code must show*)
(* to be that action.                                                       *)
LEMMA Stutters == ASSUME Unseen PROVE Step
BY DEF Unseen, Step, Promise!vars, Acts, Mode, ActOf

LEMMA Begins ==
  ASSUME Mode = Promise!Idle, Mode' = Promise!Run, srcEnd' \in Addresses,
         Acts' = Acts, ds' = ds
  PROVE  Step
BY DEF Step, Promise!Next, Promise!Begin, Acts, Mode, ActOf

LEMMA Works ==
  ASSUME Mode = Promise!Run, Mode' = Promise!Run, srcEnd' \in Addresses,
         ds' \in DataDepths, Acts' = Acts
  PROVE  Step
BY DEF Step, Promise!Next, Promise!Work, Acts, Mode, ActOf

LEMMA Catches ==
  ASSUME Mode = Promise!Run, Mode' = Promise!Run, srcEnd' = srcEnd, ds' = ds,
         Acts' = Append(Acts, [src |-> srcEnd, depth |-> ds])
  PROVE  Step
BY DEF Step, Promise!Next, Promise!Catch, Acts, Mode, ActOf

LEMMA Returns ==
  ASSUME Mode = Promise!Run, Mode' = Promise!Run, srcEnd' = srcEnd, ds' = ds + 1,
         Acts # <<>>, srcEnd = Promise!Last(Acts).src, Acts' = Promise!Front(Acts)
  PROVE  Step
BY DEF Step, Promise!Next, Promise!Return, Acts, Mode, ActOf

LEMMA Raises ==
  ASSUME Mode' = Promise!Raise, Acts' = Acts, srcEnd' = srcEnd, ds' = ds
  PROVE  Step
BY DEF Step, Promise!Next, Promise!Raised, Acts, Mode, ActOf

LEMMA Takes ==
  ASSUME Mode = Promise!Raise, Acts # <<>>, Mode' = Promise!To(Promise!Last(Acts)),
         Acts' = Promise!Front(Acts), srcEnd' = srcEnd, ds' = ds
  PROVE  Step
BY DEF Step, Promise!Next, Promise!Taken, Acts, Mode, ActOf

LEMMA Unwinds ==
  ASSUME pc \in Throwing, Mode' = Mode, Acts' = Acts, srcEnd' \in Addresses,
         ds' \in DataDepths
  PROVE  Step
<1>1. Mode.k = "throw"
  BY ModeIs DEF Promise!To
<1> QED BY <1>1 DEF Step, Promise!Next, Promise!Unwinding, Acts, Mode, ActOf

LEMMA Resumes ==
  ASSUME pc \in Throwing, srcEnd' = mem[tmp.sp - 1].val, ds' = tmp.ds + 1,
         Mode' = Promise!Run, Acts' = Acts
  PROVE  Step
<1>1. Mode.k = "throw" /\ Mode.to.src = mem[tmp.sp - 1].val /\ Mode.to.depth = tmp.ds
  BY ModeIs DEF Promise!To, ActOf
<1>2. srcEnd' = Mode.to.src /\ ds' = Mode.to.depth + 1
  BY <1>1
<1> QED BY <1>1, <1>2 DEF Step, Promise!Next, Promise!Resumed, Acts, Mode, ActOf

LEMMA NotCaught ==
  ASSUME Mode = Promise!Raise, Acts = <<>>, Mode' = Promise!Report, ds' = 0,
         Acts' = Acts, srcEnd' = srcEnd
  PROVE  Step
BY DEF Step, Promise!Next, Promise!Uncaught, Acts, Mode, ActOf

LEMMA Fails ==
  ASSUME Mode = Promise!Run, Mode' = Promise!Report, ds' \in {0, ds},
         srcEnd' \in Addresses, Acts' = Acts
  PROVE  Step
BY DEF Step, Promise!Next, Promise!Failed, Acts, Mode, ActOf

LEMMA Reports ==
  ASSUME Mode = Promise!Report, Mode' = Promise!Idle, Acts' = <<>>,
         srcEnd' = srcEnd, ds' = ds
  PROVE  Step
BY DEF Step, Promise!Next, Promise!Reported, Acts, Mode, ActOf

LEMMA Finishes ==
  ASSUME Mode = Promise!Run, Acts = <<>>, Mode' = Promise!Idle, Acts' = Acts,
         srcEnd' = srcEnd, ds' = ds
  PROVE  Step
BY DEF Step, Promise!Next, Promise!Finished, Acts, Mode, ActOf
-----------------------------------------------------------------------------
\* The same, in the next state.
LEMMA ModeBecomes ==
  /\ pc' \in Idling => Mode' = Promise!Idle
  /\ pc' \in Raising => Mode' = Promise!Raise
  /\ pc' = "report" => Mode' = Promise!Report
  /\ pc' \in Throwing => Mode' = Promise!To(ActOf(mem', tmp'))
  /\ pc' \in Running => Mode' = Promise!Run
BY DEF Mode, Idling, Raising, Throwing, Running, Promise!Idle, Promise!Raise,
       Promise!Report, Promise!To, Promise!Run

(* The data stack is in the promise's range after any step.                 *)
LEMMA DepthBecomes == ASSUME StackInv', DepthInv' PROVE ds' \in DataDepths
<1>1. Owed(mem', sp') \in Nat /\ Due(pc') \in Nat /\ ds' \in Nat
  BY OwedType DEF StackInv, Typed, Due
<1> QED BY <1>1, SizesAssumption DEF DepthInv, DataDepths

(* The activations stay when the frames and the cells below them do.        *)
LEMMA ActsKept ==
  ASSUME StackInv, NEW h \in Nat, \A i \in 1 .. h : mem'[i] = mem[i],
         \A k \in 1 .. catchDepth : frames[k].sp <= h + 1, UNCHANGED catchVars
  PROVE  Acts' = Acts
<1>1. catchDepth \in Nat /\ UNCHANGED <<catchDepth, frames>>
  BY DEF StackInv, Typed, catchVars
<1>2. \A k \in 1 .. catchDepth : frames[k].sp - 1 \in 1 .. h
  <2>1. \A k \in 1 .. catchDepth : frames[k].sp \in Nat /\ frames[k].sp >= 3
    BY Extents
  <2> QED BY <2>1
<1> QED BY <1>1, <1>2, ActsEqual

\* What is pushed above sp touches no frame's cell, except where CATCH's end has
\* popped both.
LEMMA ActsUnder ==
  ASSUME StackInv, pc # "xtPopped", \A i \in 1 .. sp : mem'[i] = mem[i],
         UNCHANGED catchVars
  PROVE  Acts' = Acts
<1>1. Popped(pc) <= 1 /\ Popped(pc) \in Nat /\ sp \in Nat
  BY DEF Popped, StackInv, Typed
<1>2. \A k \in 1 .. catchDepth : frames[k].sp <= sp + 1
  <2>1. \A k \in 1 .. catchDepth : frames[k].sp \in Nat /\ frames[k].sp <= sp + Popped(pc)
    BY Extents
  <2> QED BY <1>1, <2>1
<1> QED BY <1>1, <1>2, ActsKept

(* A RET keeps the activations: no frame stands on a word's return cell.    *)
LEMMA ActsReturned ==
  ASSUME StackInv, pc \in Going, \A i \in 1 .. sp - 1 : mem'[i] = mem[i],
         UNCHANGED catchVars
  PROVE  Acts' = Acts
<1>1. sp \in Nat /\ sp >= 1 /\ sp - 1 \in Nat /\ sp - 1 + 1 = sp
  BY DEF StackInv, Typed, StackAt
<1>2. \A k \in 1 .. catchDepth : frames[k].sp <= sp
  <2>1. \A k \in 1 .. catchDepth : frames[k].sp \in Nat /\ frames[k].sp + 1 <= sp
    BY Extents
  <2> QED BY <1>1, <2>1
<1> QED BY <1>1, <1>2, ActsKept

(* Nothing changes where neither the memory nor the frames do.              *)
LEMMA ActsSame ==
  ASSUME StackInv, UNCHANGED <<mem, catchVars>> PROVE Acts' = Acts
<1>1. catchDepth \in Nat /\ UNCHANGED <<catchDepth, frames, mem>>
  BY DEF StackInv, Typed, catchVars
<1> QED BY <1>1, ActsEqual

\* Words, calls and nested runs.
LEMMA RunWorks ==
  ASSUME StackInv', DepthInv', pc \in Running, pc' \in Running, Acts' = Acts
  PROVE  Step
<1>1. srcEnd' \in Addresses /\ ds' \in DataDepths
  BY DepthBecomes DEF StackInv, Typed
<1> QED BY <1>1, ModeIs, ModeBecomes, Works

(* A step into THROW or BREAK_STOP raises.                                  *)
LEMMA RunThrows ==
  ASSUME pc' \in Raising, Acts' = Acts, srcEnd' = srcEnd, ds' = ds
  PROVE  Step
BY ModeBecomes, Raises

(* A step into the error report fails.                                      *)
LEMMA RunFails ==
  ASSUME StackInv', pc \in Running, pc' = "report", ds' \in {0, ds}, Acts' = Acts
  PROVE  Step
<1>1. srcEnd' \in Addresses
  BY DEF StackInv, Typed
<1> QED BY <1>1, ModeIs, ModeBecomes, Fails

(* The console's own steps are invisible.                                   *)
LEMMA IdleStays ==
  ASSUME pc \in Idling, pc' \in Idling, Acts' = Acts, srcEnd' = srcEnd, ds' = ds
  PROVE  Step
BY ModeIs, ModeBecomes, Stutters DEF Unseen
-----------------------------------------------------------------------------
(* Each group of actions is a step of the promise.                          *)
LEMMA ConsolePromise ==
  ASSUME StackInv, StackInv', Console PROVE Step
<1>1. CASE EnterLine
  <2>1. catchDepth = 0 /\ catchDepth' = 0
    BY <1>1 DEF EnterLine, StackInv, StackAt, catchVars
  <2>2. Acts' = Acts
    BY <2>1, ActsEqual
  <2> QED BY <1>1, <2>2, IdleStays DEF EnterLine, Idling, srcVars
<1>2. CASE StartRun
  <2>1. Acts' = Acts
    BY <1>2, ActsSame DEF StartRun
  <2>2. pc \in Idling /\ pc' \in Running /\ ds' = ds
    BY <1>2 DEF StartRun, Idling, Running, Raising, Throwing, Points
  <2>3. srcEnd' \in Addresses
    BY DEF StackInv, Typed
  <2> QED BY <2>1, <2>2, <2>3, ModeIs, ModeBecomes, Begins
<1>3. CASE Report
  <2>1. pc = "report" /\ catchDepth' = 0 /\ srcEnd' = srcEnd /\ ds' = ds
    BY <1>3 DEF Report, srcVars
  <2>2. pc' = "back"
    <3>1. rootSp = 1 /\ mem[1].kind \in {"root", "isr"}
      BY <1>3 DEF Report, StackInv, ThrownAt, Thrown
    <3> QED BY <1>3, <3>1 DEF Report, Return, Landing
  <2>3. Acts' = <<>>
    <3>1. Acts' = [i \in 1 .. 0 |-> ActOf(mem', frames'[i])]
      BY <2>1 DEF Acts
    <3>2. \A i \in 1 .. 0 : FALSE
      OBVIOUS
    <3> QED BY <3>1, <3>2
  <2> QED BY <2>1, <2>2, <2>3, ModeIs, ModeBecomes, Reports DEF Idling
<1>4. CASE BackToConsole
  <2>1. Acts' = Acts
    BY <1>4, ActsSame DEF BackToConsole
  <2> QED BY <1>4, <2>1, IdleStays DEF BackToConsole, Idling, srcVars
<1> QED BY <1>1, <1>2, <1>3, <1>4 DEF Console

\* A RET out of a line is the end of the run; every other goes on.
LEMMA RunReturns ==
  ASSUME StackInv, StackInv', DepthInv', pc \in Going \cap Running,
         mem[sp].kind \in WordTop \cup {"root", "nested"}, Return(sp, mem),
         \A i \in 1 .. sp - 1 : mem'[i] = mem[i], UNCHANGED catchVars,
         mem[sp].kind = "root" => srcEnd' = srcEnd /\ ds' = ds
  PROVE  Step
<1>1. Acts' = Acts
  BY ActsReturned
<1>2. pc' = Landing(mem[sp])
  BY DEF Return
<1>3. CASE mem[sp].kind = "root"
  <2>1. pc' \in Idling
    BY <1>2, <1>3 DEF Landing, Idling
  <2>2. catchDepth = 0
    <3>1. sp = 1
      BY <1>3 DEF StackInv, Typed, StackAt, Sound, Fits
    <3>2. \A k \in 1 .. catchDepth : FALSE
      BY <3>1, Extents
    <3> QED BY <3>2 DEF StackInv, Typed
  <2> QED BY <1>1, <1>3, <2>1, <2>2, ActsNone, ModeIs, ModeBecomes, Finishes
<1>4. CASE mem[sp].kind \in WordTop \cup {"nested"}
  <2>1. pc' \in Running
    BY <1>2, <1>4 DEF Landing, WordTop, Running, Idling, Raising, Throwing, Points
  <2> QED BY <1>1, <2>1, RunWorks
<1> QED BY <1>3, <1>4

LEMMA InterpreterPromise ==
  ASSUME StackInv, StackInv', DepthInv', Interpreter PROVE Step
<1>1. pc = "loop" /\ pc \in Going \cap Running
  BY DEF Interpreter, InterpretWord, InterpretError, EndOfSource, Going, Running,
         Idling, Raising, Throwing, Points
<1>2. CASE InterpretWord
  <2>1. /\ pc' = "word" /\ sp' = sp + 1
        /\ mem' = Forgotten(Pushed(Ret("loop"), mem, sp), sp + 1)
        /\ UNCHANGED catchVars
    BY <1>2 DEF InterpretWord
  <2>2. sp + 1 <= StackCells
    <3>1. sp' <= Highest
      <4>1. sp' \in Nat /\ sp' >= 1 /\ Sound(mem', sp')
        BY <2>1 DEF StackInv, Typed, StackAt, Going, AtWord
      <4> QED BY <4>1 DEF Sound, Fits
    <3> QED BY <2>1, <3>1, Extents, SizesAssumption DEF StackInv, Typed
  <2>3. \A i \in 1 .. sp : mem'[i] = mem[i]
    BY <2>1, <2>2, CallPushed DEF Kinds
  <2>4. Acts' = Acts
    BY <1>1, <2>1, <2>3, ActsUnder
  <2>5. pc' \in Running
    BY <2>1 DEF Running, Idling, Raising, Throwing, Points
  <2> QED BY <1>1, <2>4, <2>5, RunWorks
<1>3. CASE InterpretError
  <2>1. Acts' = Acts
    BY <1>3, ActsSame DEF InterpretError
  <2> QED BY <1>1, <1>3, <2>1, RunFails DEF InterpretError
<1>4. CASE EndOfSource
  <2>1. mem[sp].kind \in WordTop \cup {"root", "nested"}
    BY <1>1 DEF StackInv, StackAt, Under, AtWord
  <2> QED BY <1>1, <1>4, <2>1, RunReturns DEF EndOfSource, srcVars
<1> QED BY <1>2, <1>3, <1>4 DEF Interpreter

LEMMA WordPromise ==
  ASSUME StackInv, StackInv', DepthInv', Word PROVE Step
<1>1. /\ pc = "word" /\ pc \in Going \cap Running /\ pc \in AtWord
  BY DEF Word, WordWork, WordParses, WordReturns, Recurse, WordThrows, WordAborts,
         Going, AtWord, Running, Idling, Raising, Throwing, Points
<1>2. CASE WordWork \/ WordParses
  <2>1. Acts' = Acts
    BY <1>2, ActsSame DEF WordWork, WordParses
  <2> QED BY <1>1, <1>2, <2>1, RunWorks DEF WordWork, WordParses
<1>3. CASE WordReturns
  <2>1. \A i \in 1 .. sp - 1 : mem'[i] = mem[i]
    <3>1. sp - 1 <= StackCells
      BY <1>1, AtWordIs, SizesAssumption
    <3> QED BY <1>1, <1>3, <3>1, AtWordIs, ForgottenIs DEF WordReturns
  <2> QED BY <1>1, <1>3, <2>1, AtWordIs, RunReturns DEF WordReturns, srcVars
<1>4. CASE WordAborts
  <2>1. Acts' = Acts
    BY <1>4, ActsSame DEF WordAborts
  <2> QED BY <1>1, <1>4, <2>1, RunFails DEF WordAborts
<1>5. CASE StackGuardThrows \/ WordThrows
  <2>1. Acts' = Acts
    BY <1>5, ActsSame DEF StackGuardThrows, WordThrows
  <2> QED BY <1>5, <2>1, RunThrows DEF StackGuardThrows, WordThrows, Raising, srcVars
<1>6. CASE Recurse /\ ~ StackGuardThrows
  <2>1. /\ StackGuardPasses /\ pc' = pc
        /\ mem' = Forgotten(Pushed(Ret("call"), mem, sp), sp + 1)
        /\ UNCHANGED catchVars
    BY <1>6 DEF Recurse
  <2>2. sp + 1 <= StackCells
    BY <1>1, <2>1, AtWordIs, SizesAssumption, RoomAssumption DEF StackGuardPasses
  <2>3. \A i \in 1 .. sp : mem'[i] = mem[i]
    BY <2>1, <2>2, CallPushed DEF Kinds
  <2>4. Acts' = Acts
    BY <1>1, <2>1, <2>3, ActsUnder
  <2> QED BY <1>1, <2>1, <2>4, RunWorks
<1> QED BY <1>2, <1>3, <1>4, <1>5, <1>6 DEF Word
-----------------------------------------------------------------------------
\* Two cells pushed: none of the cells in use changes.
LEMMA TwoPushed ==
  ASSUME StackInv, NEW a \in Cell, NEW b \in Cell,
         mem' = Pushed(a, Pushed(b, mem, sp), sp + 1)
  PROVE  \A i \in 1 .. sp : mem'[i] = mem[i]
<1> DEFINE m1 == Pushed(b, mem, sp)
<1>1. sp + 1 \in Nat /\ sp \in Nat /\ mem \in Memory
  BY DEF StackInv, Typed
<1>2. m1 \in Memory /\ \A i \in 1 .. sp : m1[i] = mem[i]
  BY <1>1, PushedTyped
<1> HIDE DEF m1
<1>3. \A i \in 1 .. sp + 1 : Pushed(a, m1, sp + 1)[i] = m1[i]
  BY <1>1, <1>2, PushedTyped
<1>4. \A i \in 1 .. sp : i \in 1 .. sp + 1
  BY <1>1
<1> QED BY <1>2, <1>3, <1>4 DEF m1

(* CATCH, its return and the bare CATCH.                                    *)
LEMMA CatchStepsPromise ==
  ASSUME StackInv, StackInv', DepthInv', SourceInv, CatchSteps PROVE Step
<1>1. CASE Catch
  <2>1. pc = "word" /\ pc \in AtWord /\ pc \in Running
    BY <1>1 DEF Catch, AtWord, Running, Idling, Raising, Throwing, Points
  <2>2. CASE StackGuardThrows
    <3>1. Acts' = Acts
      BY <2>2, ActsSame DEF StackGuardThrows
    <3> QED BY <2>2, <3>1, RunThrows DEF StackGuardThrows, Raising, srcVars
  <2>3. CASE ~ StackGuardThrows
    <3>1. /\ StackGuardPasses /\ pc' \in {"catch", "word"} /\ UNCHANGED catchVars
          /\ \/ mem' = Pushed(Ptr(srcPtr), Pushed(End(srcEnd), mem, sp), sp + 1)
             \/ mem' = Pushed(Ret("bare"), mem, sp)
      BY <1>1, <2>1, <2>3 DEF Catch
    <3>2. Ptr(srcPtr) \in Cell /\ End(srcEnd) \in Cell /\ Ret("bare") \in Cell
      BY CellsTyped DEF StackInv, Typed, Kinds
    <3>3. CASE mem' = Pushed(Ptr(srcPtr), Pushed(End(srcEnd), mem, sp), sp + 1)
      BY <2>1, <3>1, <3>2, <3>3, TwoPushed, ActsUnder, RunWorks
         DEF Running, Idling, Raising, Throwing, Points
    <3>4. CASE mem' = Pushed(Ret("bare"), mem, sp)
      <4>1. \A i \in 1 .. sp : mem'[i] = mem[i]
        BY <2>1, <3>2, <3>4, AtWordIs, PushedTyped
      <4> QED BY <2>1, <3>1, <4>1, ActsUnder, RunWorks
              DEF Running, Idling, Raising, Throwing, Points
    <3> QED BY <3>1, <3>3, <3>4
  <2> QED BY <2>2, <2>3
<1>2. CASE CatchFrame
  <2> DEFINE n == catchDepth + 1
  <2>1. /\ pc = "catch" /\ pc \in Running /\ pc' \in Running
        /\ UNCHANGED <<mem, srcEnd, ds>> /\ catchDepth' = n
        /\ frames' = [frames EXCEPT ![n] = [sp |-> sp, ds |-> ds]]
    BY <1>2 DEF CatchFrame, Running, Idling, Raising, Throwing, Points, srcVars
  <2>2. /\ catchDepth \in Nat /\ catchDepth < CATCH_MAX_DEPTH /\ frames \in Slots
        /\ mem[sp - 1].val = srcEnd
    BY <2>1 DEF StackInv, Typed, StackAt, SourceInv
  <2>3. n \in 1 .. CATCH_MAX_DEPTH
        /\ \A k \in 1 .. catchDepth : k # n /\ k \in 1 .. CATCH_MAX_DEPTH
    BY <2>2, SizesAssumption
  <2>4. frames'[n] = [sp |-> sp, ds |-> ds] /\ \A k \in 1 .. catchDepth : frames'[k] = frames[k]
    BY <2>1, <2>2, <2>3 DEF Slots
  <2>5. Acts' = Append(Acts, ActOf(mem', frames'[n]))
    BY <2>1, <2>2, <2>4, ActsPushed
  <2>6. ActOf(mem', frames'[n]) = [src |-> srcEnd, depth |-> ds]
    BY <2>1, <2>2, <2>4 DEF ActOf
  <2> QED BY <2>1, <2>5, <2>6, ModeIs, ModeBecomes, Catches
<1>3. CASE CatchRunsXt
  <2>1. /\ pc = "catchGo" /\ pc \in Running /\ pc' \in Running
        /\ mem' = Pushed(Ret("xt"), mem, sp) /\ UNCHANGED catchVars
    BY <1>3 DEF CatchRunsXt, Running, Idling, Raising, Throwing, Points
  <2>2. \A i \in 1 .. sp : mem'[i] = mem[i]
    <3>1. Ret("xt") \in Cell
      BY CellsTyped DEF Kinds
    <3> QED BY <2>1, <3>1, PushedTyped DEF StackInv, Typed
  <2> QED BY <2>1, <2>2, ActsUnder, RunWorks
<1>4. CASE CatchPops
  <2>1. pc \in Running /\ pc' \in Running /\ UNCHANGED <<mem, catchVars>>
    BY <1>4 DEF CatchPops, Running, Idling, Raising, Throwing, Points
  <2> QED BY <2>1, ActsSame, RunWorks
<1>5. CASE CatchReturns
  <2>1. /\ pc = "xtPopped" /\ pc \in Ending /\ pc \in OwnSource /\ pc \in Running
        /\ catchDepth' = catchDepth - 1
        /\ frames' = [frames EXCEPT ![catchDepth] = NoFrame]
        /\ mem' = Forgotten(mem, sp) /\ pc' = Landing(mem[sp])
        /\ srcEnd' = srcEnd /\ ds' = ds + 1
    BY <1>5 DEF CatchReturns, Released, Return, Ending, OwnSource, srcVars, Running,
                Idling, Raising, Throwing, Points
  <2>2. mem[sp].kind \in WordTop
    BY <2>1, EndingIs DEF Under, AtWord
  <2>3. pc' \in Running
    BY <2>1, <2>2 DEF Landing, WordTop, Running, Idling, Raising, Throwing, Points
  <2>4. \A i \in 1 .. sp : mem'[i] = mem[i]
    BY <2>1, EndingIs, ForgottenIs
  <2>5. \A k \in 1 .. catchDepth - 1 : /\ frames'[k] = frames[k]
                                       /\ mem'[frames[k].sp - 1] = mem[frames[k].sp - 1]
    <3>1. \A k \in 1 .. catchDepth - 1 :
            k # catchDepth /\ k \in 1 .. CATCH_MAX_DEPTH /\ k \in 1 .. catchDepth
      BY <2>1, EndingIs, SizesAssumption
    <3>2. \A k \in 1 .. catchDepth - 1 : frames'[k] = frames[k]
      BY <2>1, <3>1, EndingIs DEF Slots
    <3>3. \A k \in 1 .. catchDepth - 1 : frames[k].sp + 1 <= sp
      BY <2>1, EndingIs DEF Counted
    <3>4. \A k \in 1 .. catchDepth - 1 : frames[k].sp \in Nat /\ frames[k].sp >= 3
      BY <3>1, FrameIs
    <3>5. \A k \in 1 .. catchDepth - 1 : frames[k].sp - 1 \in 1 .. sp
      BY <2>1, <3>3, <3>4, EndingIs
    <3> QED BY <2>4, <3>2, <3>5
  <2>6. catchDepth \in Nat \ {0} /\ catchDepth \in 1 .. catchDepth
        /\ frames[catchDepth].sp = sp + 2 /\ sp + 2 - 2 = sp
    BY <2>1, EndingIs DEF Popped
  <2>7. /\ Acts # <<>> /\ Promise!Last(Acts) = ActOf(mem, frames[catchDepth])
        /\ Acts' = Promise!Front(Acts)
    BY <2>1, <2>5, <2>6, ActsPopped
  <2>8. srcEnd = Promise!Last(Acts).src
    <3>1. srcEnd = TextEnd(LevelAt(mem, sp))
      BY <2>1 DEF SourceInv
    <3>2. FrameSource(mem, frames[catchDepth], Position, srcEnd, reached)
      BY <2>1, <2>6 DEF SourceInv, FramesSource
    <3>3. mem[frames[catchDepth].sp - 1].val = TextEnd(LevelAt(mem, sp))
      <4>1. mem[frames[catchDepth].sp - 1].val
              = TextEnd(LevelAt(mem, frames[catchDepth].sp - 2))
        BY <3>2 DEF FrameSource
      <4>2. frames[catchDepth].sp - 2 = sp
        <5>1. sp \in Nat
          BY <2>1, EndingIs
        <5> QED BY <2>6, <5>1
      <4> QED BY <4>1, <4>2
    <3> QED BY <2>7, <3>1, <3>3 DEF ActOf
  <2> QED BY <2>1, <2>3, <2>7, <2>8, ModeIs, ModeBecomes, Returns
<1>6. CASE BareCatchReturns
  <2>1. /\ pc = "bareDone" /\ pc \in AtWord /\ pc \in Going \cap Running
        /\ mem' = Forgotten(mem, sp) /\ Return(sp, mem) /\ UNCHANGED catchVars
    BY <1>6 DEF BareCatchReturns, AtWord, Going, Running, Idling, Raising, Throwing, Points
  <2>2. \A i \in 1 .. sp - 1 : mem'[i] = mem[i]
    <3>1. \A i \in 1 .. sp - 1 : i \in 1 .. sp
      BY <2>1, AtWordIs
    <3> QED BY <2>1, <3>1, AtWordIs, ForgottenIs
  <2>3. mem[sp].kind \in WordTop
    BY <2>1, AtWordIs
  <2> QED BY <2>1, <2>2, <2>3, RunReturns DEF WordTop
<1> QED BY <1>1, <1>2, <1>3, <1>4, <1>5, <1>6 DEF CatchSteps

\* Between THROW's steps: the depth is the frame's, and once SRC_END is back it is
\* the frame's source's.
ThrowInv ==
  /\ pc \in {"restore", "restorePtr"} => ds = tmp.ds
  /\ pc = "restorePtr" => mem[tmp.sp - 1].val = srcEnd

(* THROW takes the innermost frame, and it alone.                           *)
LEMMA ThrowPromise ==
  ASSUME StackInv, StackInv', DepthInv', ThrowInv, Throw PROVE Step
<1>0. frames \in Slots /\ catchDepth \in 0 .. CATCH_MAX_DEPTH /\ sp \in Nat /\ mem \in Memory
  BY DEF StackInv, Typed
<1>1. CASE Uncaught
  <2>1. /\ pc = "throw" /\ pc' = "report" /\ catchDepth = 0 /\ ds' = 0
        /\ UNCHANGED <<mem, catchVars>> /\ srcEnd' = srcEnd
    BY <1>1 DEF Uncaught, srcVars
  <2>2. Acts' = Acts /\ Acts = <<>>
    BY <2>1, ActsSame, ActsNone
  <2> QED BY <2>1, <2>2, ModeIs, ModeBecomes, NotCaught DEF Raising
<1>2. CASE TakeFrame
  <2>1. /\ pc = "throw" /\ pc' = "unwind" /\ catchDepth > 0
        /\ catchDepth' = catchDepth - 1 /\ tmp' = frames[catchDepth]
        /\ frames' = [frames EXCEPT ![catchDepth] = NoFrame]
        /\ UNCHANGED <<mem, srcEnd, ds>>
    BY <1>2 DEF TakeFrame, Released, srcVars
  <2>2. \A k \in 1 .. catchDepth - 1 : frames'[k] = frames[k]
    <3>1. \A k \in 1 .. catchDepth - 1 : k # catchDepth /\ k \in 1 .. CATCH_MAX_DEPTH
      BY <1>0, SizesAssumption
    <3> QED BY <1>0, <2>1, <3>1 DEF Slots
  <2>3. catchDepth \in Nat \ {0}
    BY <1>0, <2>1
  <2>4. /\ Acts # <<>> /\ Promise!Last(Acts) = ActOf(mem, frames[catchDepth])
        /\ Acts' = Promise!Front(Acts)
    BY <2>1, <2>2, <2>3, ActsPopped
  <2>5. Mode = Promise!Raise /\ Mode' = Promise!To(Promise!Last(Acts))
    BY <2>1, <2>4, ModeIs, ModeBecomes DEF Raising, Throwing
  <2> QED BY <2>1, <2>4, <2>5, Takes
<1>3. CASE Unwind
  <2>1. /\ pc \in Throwing /\ pc' \in Throwing
        /\ UNCHANGED <<mem, catchVars, tmp, srcEnd>>
    BY <1>3 DEF Unwind, Throwing, throwVars, srcVars
  <2>2. ds' \in DataDepths /\ srcEnd' \in Addresses
    BY DepthBecomes DEF StackInv, Typed
  <2>3. Mode' = Mode
    BY <2>1, ModeIs, ModeBecomes
  <2> QED BY <2>1, <2>2, <2>3, ActsSame, Unwinds
<1>4. CASE RestoreSource
  <2>1. /\ pc = "restore" /\ pc \in Throwing /\ UNCHANGED catchVars
        /\ Base(mem, tmp, frames, catchDepth) /\ tmp.sp = sp /\ ds = tmp.ds
    BY <1>4 DEF RestoreSource, Throwing, StackInv, ThrownAt, ThrowInv
  <2>2. CASE mem[sp - 1].val = srcEnd
    <3> DEFINE s == sp - 2
    <3>1. /\ mem' = Forgotten(mem, s) /\ pc' = Landing(mem[s]) /\ srcEnd' = srcEnd
          /\ ds' = ds + 1
      BY <1>4, <2>2 DEF RestoreSource, Caught, Return, srcVars
    <3>2. /\ s \in Nat /\ s >= 1 /\ s <= StackCells /\ mem[s].kind \in WordTop
          /\ Counted(mem, s, frames, catchDepth)
      <4>1. sp <= StackCells
        BY Extents
      <4> QED BY <1>0, <2>1, <4>1, SizesAssumption DEF Base
    <3> HIDE DEF s
    <3>3. \A i \in 1 .. s : mem'[i] = mem[i]
      BY <1>0, <3>1, <3>2, ForgottenIs
    <3>4. \A k \in 1 .. catchDepth : frames[k].sp <= s + 1
      <4>1. \A k \in 1 .. catchDepth : frames[k].sp \in Nat /\ frames[k].sp + 1 <= s
        BY <3>2, Extents DEF Counted
      <4> QED BY <3>2, <4>1
    <3>5. Acts' = Acts
      BY <2>1, <3>2, <3>3, <3>4, ActsKept
    <3>6. pc' \in Running
      BY <3>1, <3>2 DEF Landing, WordTop, Running, Idling, Raising, Throwing, Points
    <3>7. Mode' = Promise!Run
      BY <3>6, ModeBecomes
    <3> QED BY <2>1, <2>2, <3>1, <3>5, <3>7, Resumes
  <2>3. CASE mem[sp - 1].val # srcEnd
    <3>1. pc' \in Throwing /\ UNCHANGED <<mem, tmp, ds>>
      BY <1>4, <2>3 DEF RestoreSource, Throwing
    <3>2. ds' \in DataDepths /\ srcEnd' \in Addresses
      BY DepthBecomes DEF StackInv, Typed
    <3>3. Mode' = Mode
      BY <2>1, <3>1, ModeIs, ModeBecomes
    <3> QED BY <2>1, <3>1, <3>2, <3>3, ActsSame, Unwinds
  <2> QED BY <2>2, <2>3
<1>5. CASE RestorePtr
  <2>1. /\ pc = "restorePtr" /\ pc \in Throwing /\ pc \in AtWord /\ pc \in Going
        /\ UNCHANGED catchVars
        /\ mem' = Forgotten(mem, sp) /\ pc' = Landing(mem[sp]) /\ ds' = ds + 1
        /\ srcEnd' = mem[tmp.sp - 1].val /\ ds = tmp.ds
    BY <1>5 DEF RestorePtr, Caught, Return, Throwing, AtWord, Going, ThrowInv
  <2>2. \A i \in 1 .. sp - 1 : mem'[i] = mem[i]
    <3>1. \A i \in 1 .. sp - 1 : i \in 1 .. sp
      BY <2>1, AtWordIs
    <3> QED BY <2>1, <3>1, AtWordIs, ForgottenIs
  <2>3. mem[sp].kind \in WordTop
    BY <2>1, AtWordIs
  <2>4. Mode' = Promise!Run
    <3>1. pc' \in Running
      BY <2>1, <2>3 DEF Landing, WordTop, Running, Idling, Raising, Throwing, Points
    <3> QED BY <3>1, ModeBecomes
  <2> QED BY <2>1, <2>2, <2>4, ActsReturned, Resumes
<1> QED BY <1>1, <1>2, <1>3, <1>4, <1>5 DEF Throw

\* CATCH_SRC_HERE writes the frames' positions, not their sources.
LEMMA ActsNoted ==
  ASSUME StackInv, pc \in {"word", "edit"}, NEW p \in Addresses,
         LevelAt(mem, sp) < MaxNest, UNCHANGED catchVars,
         mem' = Pushed(NestedCall(Level + 1), SourceKept(p), sp + 2)
  PROVE  Acts' = Acts
<1>1. pc \in AtWord /\ sp \in Nat /\ Sound(mem, sp) /\ mem \in Memory /\ sp <= StackCells
  BY AtWordIs DEF AtWord
<1>2. \A i \in 1 .. sp : mem'[i] = SourceNoted(mem, p)[i]
  BY SourceKeptIs
<1>3. ASSUME NEW k \in 1 .. catchDepth
      PROVE  mem'[frames[k].sp - 1] = mem[frames[k].sp - 1]
  <2> DEFINE i == frames[k].sp - 1
  <2>1. frames[k].sp \in 1 .. sp - 1 /\ frames[k].sp >= 3 /\ mem[frames[k].sp].kind = "ptr"
    BY <1>1, NotedAre
  <2>2. i \in 1 .. sp /\ i \in 1 .. StackCells /\ frames[k].sp \in 1 .. sp
    BY <1>1, <2>1, SizesAssumption
  <2>3. mem[i].kind = "end"
    <3>1. Fits(mem, frames[k].sp)
      BY <2>2 , <1>1 DEF Sound
    <3> QED BY <2>1, <3>1 DEF Fits
  <2>4. \A j \in 1 .. catchDepth : frames[j].sp # i
    BY <1>1, <2>3, NotedAre
  <2> HIDE DEF i
  <2>5. SourceNoted(mem, p)[i] = mem[i]
    <3>1. DOMAIN mem = 1 .. StackCells
      BY <1>1 DEF Memory
    <3> QED BY <2>2, <2>4, <3>1 DEF SourceNoted
  <2> QED BY <1>2, <2>2, <2>5 DEF i
<1>4. catchDepth \in Nat /\ UNCHANGED <<catchDepth, frames>>
  BY DEF StackInv, Typed, catchVars
<1> QED BY <1>3, <1>4, ActsEqual
-----------------------------------------------------------------------------
(* The nested runs, the sections and BREAK.                                 *)
LEMMA NestedPromise ==
  ASSUME StackInv, StackInv', DepthInv', Nested PROVE Step
<1>1. CASE LoadText
  <2>1. pc = "word" /\ pc \in Running /\ UNCHANGED catchVars /\ srcEnd' = srcEnd /\ ds' = ds
    BY <1>1 DEF LoadText, ReadWord, Running, Idling, Raising, Throwing, Points
  <2>2. CASE pc' = "nest"
    <3>1. /\ Level < MaxNest /\ ReadWord
          /\ mem' = Pushed(NestedCall(Level + 1), SourceKept(Past(srcPtr)), sp + 2)
      BY <1>1, <2>2 DEF LoadText
    <3>2. Past(srcPtr) \in Addresses
      BY <3>1, ReadTyped DEF StackInv
    <3>3. Acts' = Acts
      BY <2>1, <3>1, <3>2, LevelIs, ActsNoted
    <3>4. pc' \in Running
      BY <2>2 DEF Running, Idling, Raising, Throwing, Points
    <3> QED BY <2>1, <3>3, <3>4, RunWorks
  <2>3. CASE pc' # "nest"
    <3>1. pc' \in Raising /\ mem' = mem
      BY <1>1, <2>3 DEF LoadText, Raising
    <3> QED BY <2>1, <3>1, ActsSame, RunThrows
  <2> QED BY <2>2, <2>3
<1>2. CASE EditView \/ EditViewLeft
  <2>1. pc \in Running /\ pc' \in Running /\ UNCHANGED <<mem, catchVars>>
    BY <1>2 DEF EditView, EditViewLeft, Running, Idling, Raising, Throwing, Points
  <2> QED BY <2>1, ActsSame, RunWorks
<1>3. CASE EditSectionEnds
  <2>1. /\ pc \in Running /\ UNCHANGED <<mem, catchVars>> /\ ds' \in {0, ds}
        /\ pc' \in {"word", "report", "edit"}
    BY <1>3 DEF EditSectionEnds, Running, Idling, Raising, Throwing, Points
  <2>2. CASE pc' = "report"
    BY <2>1, <2>2, ActsSame, RunFails
  <2>3. CASE pc' # "report"
    <3>1. pc' \in Running
      BY <2>1, <2>3 DEF Running, Idling, Raising, Throwing, Points
    <3> QED BY <2>1, <3>1, ActsSame, RunWorks
  <2> QED BY <2>2, <2>3
<1>4. CASE EditCommit
  <2>1. /\ pc = "edit" /\ pc \in Running /\ pc' \in Running /\ UNCHANGED catchVars
        /\ mem' = Pushed(NestedCall(Level + 1), SourceKept(srcPtr), sp + 2)
    BY <1>4 DEF EditCommit, Running, Idling, Raising, Throwing, Points
  <2>2. LevelAt(mem, sp) < MaxNest /\ srcPtr \in Addresses
    BY <2>1 DEF StackInv, StackAt, Typed
  <2>3. Acts' = Acts
    BY <2>1, <2>2, ActsNoted
  <2> QED BY <2>1, <2>3, RunWorks
<1>5. CASE NestPtr \/ NestEnd
  <2>1. pc \in Running /\ pc' \in Running /\ UNCHANGED <<mem, catchVars>>
    BY <1>5 DEF NestPtr, NestEnd, Running, Idling, Raising, Throwing, Points
  <2> QED BY <2>1, ActsSame, RunWorks
<1>6. CASE EditNextLine
  <2>1. /\ pc = "nestEnd" /\ pc \in Running /\ pc' \in Running /\ UNCHANGED catchVars
        /\ mem' = Forgotten(Pushed(NestedCall(Level + 1), mem, sp), sp + 1)
    BY <1>6 DEF EditNextLine, Running, Idling, Raising, Throwing, Points
  <2>2. NestedCall(Level + 1) \in Cell
    <3>1. Level + 1 \in Texts /\ Level + 1 \in Addresses
      BY <2>1, NestedIs, LevelIs, TextsAreAddresses, SizesAssumption DEF Texts
    <3> QED BY <3>1 DEF NestedCall, Cell, Kinds
  <2>3. \A i \in 1 .. sp : mem'[i] = mem[i]
    BY <2>1, <2>2, NestedIs, CallIs
  <2> QED BY <2>1, <2>3, ActsUnder, RunWorks
<1>7. CASE NestedReturns
  <2>1. pc \in Running /\ pc' \in Running /\ UNCHANGED <<mem, catchVars>>
    BY <1>7 DEF NestedReturns, Running, Idling, Raising, Throwing, Points
  <2> QED BY <2>1, ActsSame, RunWorks
<1>8. CASE NestedReturned
  <2>1. /\ pc = "nestEndPtr" /\ pc \in Running /\ pc' \in Running /\ UNCHANGED catchVars
        /\ mem' = Forgotten(mem, sp - 1)
    BY <1>8 DEF NestedReturned, Running, Idling, Raising, Throwing, Points
  <2>2. sp - 1 \in Nat /\ sp - 1 <= StackCells /\ mem \in Memory /\ pc \in Going
    BY <2>1, NestedIs, SizesAssumption
  <2>3. \A i \in 1 .. sp - 1 : mem'[i] = mem[i]
    BY <2>1, <2>2, ForgottenIs
  <2> QED BY <2>1, <2>2, <2>3, ActsReturned, RunWorks
<1> QED BY <1>1, <1>2, <1>3, <1>4, <1>5, <1>6, <1>7, <1>8 DEF Nested

LEMMA SectionPromise ==
  ASSUME StackInv, StackInv', DepthInv', Section PROVE Step
<1>1. CASE BreakStop
  <2>1. /\ pc \in Raising /\ pc' \in Raising /\ UNCHANGED <<mem, catchVars>>
        /\ srcEnd' = srcEnd /\ ds' = ds
    BY <1>1 DEF BreakStop, Raising, srcVars
  <2> QED BY <2>1, ActsSame, RunThrows
<1>2. CASE SectionStarts \/ SectionReleases \/ SectionStops
  <2>1. /\ pc \in Running /\ UNCHANGED <<mem, catchVars>> /\ srcEnd' = srcEnd /\ ds' = ds
        /\ pc' \in {"section", "sectionEnd", "stop", "word"}
    BY <1>2 DEF SectionStarts, SectionReleases, SectionStops, srcVars, Running, Idling,
                Raising, Throwing, Points
  <2>2. CASE pc' = "stop"
    BY <2>1, <2>2, ActsSame, RunThrows DEF Raising
  <2>3. CASE pc' # "stop"
    <3>1. pc' \in Running
      BY <2>1, <2>3 DEF Running, Idling, Raising, Throwing, Points
    <3> QED BY <2>1, <3>1, ActsSame, RunWorks
  <2> QED BY <2>2, <2>3
<1> QED BY <1>1, <1>2 DEF Section

LEMMA BreakPromise ==
  ASSUME NoBreakBetweenStores, StackInv, StackInv', DepthInv', SectionInv, Break PROVE Step
<1>1. /\ pc # "xtPopped" /\ UNCHANGED catchVars /\ srcEnd' = srcEnd /\ ds' = ds
      /\ mem' = Pushed(Isr, Pushed(Isr, mem, sp), sp + 1)
  BY DEF Break, NoBreakBetweenStores, srcVars
<1>2. Acts' = Acts
  BY <1>1, CellsTyped, TwoPushed, ActsUnder
<1>3. CASE nobrk > 0
  <2>1. pc' = pc /\ pc \in Deferring
    BY <1>3 DEF Break, SectionInv
  <2>2. pc \in Idling \/ pc \in Running
    BY <2>1 DEF Deferring, Running, Idling, Raising, Throwing, Points
  <2> QED BY <1>1, <1>2, <2>1, <2>2, IdleStays, RunWorks
<1>4. CASE ~ (nobrk > 0)
  BY <1>1, <1>2, <1>4, RunThrows DEF Break, Raising
<1> QED BY <1>3, <1>4
-----------------------------------------------------------------------------
(* What THROW has done when it restores the source.                         *)
LEMMA ThrowInvStep ==
  ASSUME StackInv, StackInv', SectionInv, ThrowInv, [Next]_vars PROVE ThrowInv'
<1>1. ASSUME pc' \notin {"restore", "restorePtr"} PROVE ThrowInv'
  BY <1>1 DEF ThrowInv
<1>2. \A c : Landing(c) \notin {"restore", "restorePtr"}
  BY DEF Landing
<1>3. CASE Unwind
  <2>1. pc' = "restore" /\ ds' = tmp.ds /\ tmp' = tmp
    BY <1>3 DEF Unwind, throwVars
  <2> QED BY <2>1 DEF ThrowInv
<1>4. CASE RestoreSource
  <2>1. pc = "restore" /\ tmp.sp = sp
    BY <1>4 DEF RestoreSource, StackInv, ThrownAt
  <2>2. CASE mem[sp - 1].val = srcEnd
    BY <1>1, <1>2, <1>4, <2>2 DEF RestoreSource, Caught, Return
  <2>3. CASE mem[sp - 1].val # srcEnd
    BY <1>4, <2>1, <2>3 DEF RestoreSource, ThrowInv
  <2> QED BY <2>2, <2>3
<1>5. CASE Console \/ Interpreter
  BY <1>1, <1>2, <1>5 DEF Console, EnterLine, StartRun, Report, BackToConsole, Interpreter,
     InterpretWord, InterpretError, EndOfSource, Return
<1>6. CASE Word \/ CatchSteps
  BY <1>1, <1>2, <1>6 DEF Word, WordWork, WordParses, WordReturns, Recurse,
     StackGuardThrows, WordThrows, WordAborts, CatchSteps, Catch, CatchFrame,
     CatchRunsXt, CatchPops, CatchReturns, BareCatchReturns, Return
<1>7. CASE Uncaught \/ TakeFrame \/ RestorePtr
  BY <1>1, <1>2, <1>7 DEF Uncaught, TakeFrame, RestorePtr, Caught, Return
<1>8. CASE Nested \/ Section
  BY <1>1, <1>2, <1>8 DEF Nested, LoadText, EditView, EditViewLeft, EditSectionEnds,
     EditCommit, NestPtr, NestEnd, EditNextLine, NestedReturns, NestedReturned,
     Section, SectionStarts, SectionReleases, SectionStops, BreakStop
<1>9. CASE Break
  BY <1>1, <1>9 DEF Break, SectionInv, Deferring
<1>10. CASE UNCHANGED vars
  BY <1>10 DEF vars, ThrowInv
<1> QED BY <1>3, <1>4, <1>5, <1>6, <1>7, <1>8, <1>9, <1>10 DEF Next, Cpu, Throw

(* Every step of the code is a step of the promise.                         *)
LEMMA PromiseStep ==
  ASSUME NoBreakBetweenStores, StackInv, StackInv', DepthInv', SectionInv, SourceInv,
         ThrowInv, [Next]_vars
  PROVE  Step
<1>1. CASE UNCHANGED vars
  <2>1. UNCHANGED <<pc, mem, tmp, frames, catchDepth, srcEnd, ds>>
    BY <1>1 DEF vars
  <2>2. UNCHANGED <<Acts, Mode>>
    BY <2>1 DEF Acts, Mode, ActOf
  <2> QED BY <2>1, <2>2, Stutters DEF Unseen
<1> QED BY <1>1, ConsolePromise, InterpreterPromise, WordPromise, CatchStepsPromise,
           ThrowPromise, NestedPromise, SectionPromise, BreakPromise DEF Next, Cpu

(* CATCH, THROW and BREAK on the machine stack implement CatchSpec.               *)
THEOREM CatchKeepsItsPromise ==
  ASSUME NoBreakBetweenStores
  PROVE  Spec => CatchPromise
<1> DEFINE IInv == StackInv /\ DepthInv /\ SectionInv /\ SourceInv /\ ThrowInv
<1>1. Init => IInv
  BY InitStack, InitDepth, InitSource DEF Init, SectionInv, Deferring, ThrowInv
<1>2. IInv /\ [Next]_vars => IInv'
  BY StackStep, DepthInvStep, SectionInvStep, SourceStep, ThrowInvStep
<1>3. Init => Promise!Init
  <2> SUFFICES ASSUME Init PROVE Promise!Init
    OBVIOUS
  <2>1. Acts = <<>> /\ Mode = Promise!Idle
    BY ActsNone, ModeIs DEF Init, Idling
  <2>2. srcEnd \in Addresses /\ ds = 0
    BY InitStack DEF Init, StackInv, Typed
  <2> QED BY <2>1, <2>2 DEF Promise!Init, Acts, Mode, ActOf
<1>4. IInv /\ IInv' /\ [Next]_vars => [Promise!Next]_(Promise!vars)
  BY PromiseStep DEF Step
<1> HIDE DEF IInv
<1> QED BY <1>1, <1>2, <1>3, <1>4, PTL DEF Spec, CatchPromise, Promise!Spec
=============================================================================
