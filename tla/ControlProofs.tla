--------------------------- MODULE ControlProofs ----------------------------
(* For every table of LEAVE heads, every size of a cell, every bound on the words and
   every nesting:

   - while a definition is compiled, LEAVE_DEPTH counts its open DO loops and never
     passes the table, so each LEAVE, LOOP and +LOOP uses a slot of a loop that is open;
     when it is closed, the compile-time stack is as it was before it and LEAVE_DEPTH is
     0, also when a definition before it failed with structures open (NestInv);
   - a compiled definition does what its words mean (CompiledAsMeant).  The invariant,
     CompiledBy(h), has h[k] for the structures that are open before the k-th word
     (History): the code of each word lies after the one before it and is what the word
     compiles (Laid); each forward branch was patched by the word that ends what it
     leaves or still waits for it (Patched); the LEAVEs of each open loop are a chain
     from its head in LEAVE_HEAD_TABLE (Chained); the compile-time stack has the
     addresses the open structures need (Holds).  Each compiling word keeps it.  In a
     definition that is closed, where a branch goes is where its word's meaning goes,
     and a run stands at the code of the word to be done with the frames of the loops
     open there (Stands, RunBy): each run-time half keeps that.                       *)
EXTENDS Control, TLAPS, FiniteSetTheorems, SequenceTheorems, WellFoundedInduction

Structures == {"IF", "ELSE", "BEGIN", "WHILE", "DO"}
Names == Structures \cup {"THEN", "UNTIL", "REPEAT", "LOOP", "+LOOP", "LEAVE", "EXIT", ";"}
Routines == {"QBRANCH", "BRANCH", "DO_RT", "LOOP_RT", "PLUSLOOP_RT", "LEAVE_RT", "POP HL", "RET", "target"}
Weight(s) == IF s = "DO" THEN 1 ELSE 0
Kept(s) == IF s = "WHILE" THEN 2 ELSE 1          \* WHILE keeps BEGIN's address under its own

\* d is the number of the loops in o: count has it for the structures up to each one, from the outermost on.
LoopsAre(o, d) ==
    \E count \in [0..Len(o) -> Nat] :
       /\ count[0] = 0 /\ d = count[Len(o)]
       /\ \A i \in 1..Len(o) : count[i] = count[i - 1] + Weight(o[i])
       /\ \A i, j \in 0..Len(o) : i <= j => count[i] <= count[j]
       /\ \A i \in 0..Len(o) : count[i] > 0 => \E j \in 1..i : o[j] = "DO"
\* n is the number of the addresses the structures in o keep on the compile-time stack.
AddressesAre(o, n) ==
    \E held \in [0..Len(o) -> Nat] :
       /\ held[0] = 0 /\ n = held[Len(o)]
       /\ \A i \in 1..Len(o) : held[i] = held[i - 1] + Kept(o[i])
\* The stack s holds what was there before, and n addresses on top.
HoldsAbove(base, s, n) == Len(s) = Len(base) + n /\ \A j \in 1..Len(base) : s[j] = base[j]

Cell == [op : Routines, to : Nat]
CompileTypes ==
    /\ open \in Seq(Structures) /\ cstack \in Seq(Nat) /\ left \in Seq(Nat) /\ code \in Seq(Cell)
    /\ Levels \in Nat \ {0} /\ depth \in 0..Levels /\ heads \in [1..Levels -> Nat] /\ words \in Seq([word : Names, code : Nat, deep : Nat])
NestInv ==
    /\ CompileTypes /\ LoopsAre(open, depth)
    /\ \E n \in Nat : AddressesAre(open, n) /\ HoldsAbove(left, cstack, n)
    /\ pos = 0 \/ open = <<>>

----------------------------------------------------------------------------
LEMMA LoopsPush == ASSUME NEW o \in Seq(Structures), NEW d, LoopsAre(o, d), NEW s \in Structures
                   PROVE  d \in Nat /\ LoopsAre(Append(o, s), d + Weight(s))
<1>1. PICK count \in [0..Len(o) -> Nat] :
         /\ count[0] = 0 /\ d = count[Len(o)]
         /\ \A i \in 1..Len(o) : count[i] = count[i - 1] + Weight(o[i])
         /\ \A i, j \in 0..Len(o) : i <= j => count[i] <= count[j]
         /\ \A i \in 0..Len(o) : count[i] > 0 => \E j \in 1..i : o[j] = "DO"
  BY DEF LoopsAre
<1> DEFINE q == Append(o, s)
           more == [i \in 0..Len(q) |-> IF i <= Len(o) THEN count[i] ELSE d + Weight(s)]
<1>2. /\ Len(o) \in Nat /\ Len(q) = Len(o) + 1 /\ q[Len(o) + 1] = s /\ \A i \in 1..Len(o) : q[i] = o[i]
      /\ d \in Nat /\ Weight(s) \in {0, 1}
  BY <1>1 DEF Weight
<1>3. \A i \in 0..Len(o) : more[i] = count[i]
  BY <1>2
<1>4. more[Len(q)] = d + Weight(s)
  BY <1>2
<1>5. more \in [0..Len(q) -> Nat]
  BY <1>1, <1>2
<1>6. \A i \in 1..Len(q) : more[i] = more[i - 1] + Weight(q[i])
  <2> TAKE i \in 1..Len(q)
  <2>1. CASE i <= Len(o)
    BY <2>1, <1>1, <1>2, <1>3
  <2>2. CASE i = Len(q)
    BY <2>2, <1>1, <1>2, <1>3, <1>4
  <2>3. i <= Len(o) \/ i = Len(q)
    BY <1>2
  <2> QED BY <2>1, <2>2, <2>3
<1>7. \A i, j \in 0..Len(q) : i <= j => more[i] <= more[j]
  <2> TAKE i, j \in 0..Len(q)
  <2> HAVE i <= j
  <2>1. CASE j <= Len(o)
    BY <2>1, <1>1, <1>2, <1>3
  <2>2. CASE j = Len(q) /\ i <= Len(o)
    <3>1. more[i] = count[i] /\ count[i] <= d /\ count[i] \in Nat /\ more[j] = d + Weight(s)
      BY <2>2, <1>1, <1>2, <1>3, <1>4
    <3> QED BY <3>1, <1>2
  <2>3. CASE j = Len(q) /\ i = Len(q)
    BY <2>3, <1>2, <1>4
  <2>4. j <= Len(o) \/ (j = Len(q) /\ i <= Len(o)) \/ (j = Len(q) /\ i = Len(q))
    BY <1>2
  <2> QED BY <2>1, <2>2, <2>3, <2>4
<1>8. \A i \in 0..Len(q) : more[i] > 0 => \E j \in 1..i : q[j] = "DO"
  <2> TAKE i \in 0..Len(q)
  <2> HAVE more[i] > 0
  <2>1. CASE i <= Len(o)
    <3>1. PICK j \in 1..i : o[j] = "DO"
      BY <2>1, <1>1, <1>2, <1>3
    <3> QED BY <3>1, <2>1, <1>2
  <2>2. CASE i = Len(q) /\ s = "DO"
    BY <2>2, <1>2
  <2>3. CASE i = Len(q) /\ s # "DO"
    <3>1. count[Len(o)] > 0
      BY <2>3, <1>1, <1>2, <1>4 DEF Weight
    <3>2. PICK j \in 1..Len(o) : o[j] = "DO"
      BY <3>1, <1>1, <1>2
    <3> QED BY <3>2, <2>3, <1>2
  <2>4. i <= Len(o) \/ i = Len(q)
    BY <1>2
  <2> QED BY <2>1, <2>2, <2>3, <2>4
<1> HIDE DEF more, q
<1>9. LoopsAre(q, d + Weight(s))
  <2>1. more[0] = 0
    BY <1>1, <1>2, <1>3
  <2> QED BY <2>1, <1>4, <1>5, <1>6, <1>7, <1>8 DEF LoopsAre
<1> QED BY <1>2, <1>9 DEF q

LEMMA LoopsPop == ASSUME NEW o \in Seq(Structures), NEW d, LoopsAre(o, d), o # <<>>
                  PROVE  /\ LoopsAre(SubSeq(o, 1, Len(o) - 1), d - Weight(o[Len(o)]))
                         /\ d - Weight(o[Len(o)]) \in Nat /\ d \in Nat
<1>1. PICK count \in [0..Len(o) -> Nat] :
         /\ count[0] = 0 /\ d = count[Len(o)]
         /\ \A i \in 1..Len(o) : count[i] = count[i - 1] + Weight(o[i])
         /\ \A i, j \in 0..Len(o) : i <= j => count[i] <= count[j]
         /\ \A i \in 0..Len(o) : count[i] > 0 => \E j \in 1..i : o[j] = "DO"
  BY DEF LoopsAre
<1> DEFINE q == SubSeq(o, 1, Len(o) - 1)
           less == [i \in 0..Len(q) |-> count[i]]
<1>2. Len(o) \in Nat /\ Len(o) >= 1 /\ Len(q) = Len(o) - 1 /\ \A i \in 1..Len(q) : q[i] = o[i]
  OBVIOUS
<1>3. count[Len(o)] = count[Len(q)] + Weight(o[Len(o)]) /\ count[Len(q)] \in Nat /\ Weight(o[Len(o)]) \in {0, 1}
  BY <1>1, <1>2 DEF Weight
<1>4. less \in [0..Len(q) -> Nat] /\ \A i \in 0..Len(q) : less[i] = count[i]
  BY <1>1, <1>2
<1>5. \A i \in 1..Len(q) : less[i] = less[i - 1] + Weight(q[i])
  BY <1>1, <1>2, <1>4
<1>6. \A i, j \in 0..Len(q) : i <= j => less[i] <= less[j]
  BY <1>1, <1>2, <1>4
<1>7. ASSUME NEW i \in 0..Len(q), less[i] > 0 PROVE \E j \in 1..i : q[j] = "DO"
  <2>1. PICK j \in 1..i : o[j] = "DO"
    BY <1>1, <1>2, <1>4, <1>7
  <2> QED BY <2>1, <1>2, <1>7
<1>8. less[0] = 0 /\ d - Weight(o[Len(o)]) = less[Len(q)] /\ d \in Nat
  BY <1>1, <1>2, <1>3, <1>4
<1> HIDE DEF less, q
<1>9. LoopsAre(q, d - Weight(o[Len(o)]))
  BY <1>4, <1>5, <1>6, <1>7, <1>8 DEF LoopsAre
<1> QED BY <1>9, <1>8, <1>4, <1>2 DEF q

LEMMA LoopsOpen == ASSUME NEW o \in Seq(Structures), NEW d, LoopsAre(o, d)
                   PROVE  d \in Nat /\ ((\E i \in DOMAIN o : o[i] = "DO") <=> d > 0) /\ (o = <<>> => d = 0)
<1>1. PICK count \in [0..Len(o) -> Nat] :
         /\ count[0] = 0 /\ d = count[Len(o)]
         /\ \A i \in 1..Len(o) : count[i] = count[i - 1] + Weight(o[i])
         /\ \A i, j \in 0..Len(o) : i <= j => count[i] <= count[j]
         /\ \A i \in 0..Len(o) : count[i] > 0 => \E j \in 1..i : o[j] = "DO"
  BY DEF LoopsAre
<1>2. Len(o) \in Nat /\ d \in Nat /\ DOMAIN o = 1..Len(o)
  BY <1>1
<1>3. ASSUME NEW i \in DOMAIN o, o[i] = "DO" PROVE d > 0
  <2>1. i - 1 \in 0..Len(o) /\ count[i - 1] \in Nat /\ count[i] = count[i - 1] + 1 /\ count[i] <= d /\ count[i] \in Nat
    BY <1>1, <1>2, <1>3 DEF Weight
  <2> QED BY <2>1, <1>2
<1>4. d > 0 => \E i \in DOMAIN o : o[i] = "DO"
  <2>1. Len(o) \in 0..Len(o)
    BY <1>2
  <2> QED BY <2>1, <1>1, <1>2
<1>5. o = <<>> => d = 0
  BY <1>1, <1>2
<1> QED BY <1>2, <1>3, <1>4, <1>5

LEMMA AddressesPush == ASSUME NEW o \in Seq(Structures), NEW n, AddressesAre(o, n), NEW s \in Structures
                       PROVE  n \in Nat /\ AddressesAre(Append(o, s), n + Kept(s))
<1>1. PICK held \in [0..Len(o) -> Nat] :
         /\ held[0] = 0 /\ n = held[Len(o)]
         /\ \A i \in 1..Len(o) : held[i] = held[i - 1] + Kept(o[i])
  BY DEF AddressesAre
<1> DEFINE q == Append(o, s)
           more == [i \in 0..Len(q) |-> IF i <= Len(o) THEN held[i] ELSE n + Kept(s)]
<1>2. /\ Len(o) \in Nat /\ Len(q) = Len(o) + 1 /\ q[Len(o) + 1] = s /\ \A i \in 1..Len(o) : q[i] = o[i]
      /\ n \in Nat /\ Kept(s) \in {1, 2}
  BY <1>1 DEF Kept
<1>3. /\ \A i \in 0..Len(o) : more[i] = held[i]
      /\ more[Len(q)] = n + Kept(s)
  BY <1>2
<1>4. more \in [0..Len(q) -> Nat] /\ more[0] = 0
  BY <1>1, <1>2
<1>5. \A i \in 1..Len(q) : more[i] = more[i - 1] + Kept(q[i])
  <2> TAKE i \in 1..Len(q)
  <2>1. CASE i <= Len(o)
    BY <2>1, <1>1, <1>2, <1>3
  <2>2. CASE i = Len(q)
    <3>1. i - 1 = Len(o) /\ more[i - 1] = n /\ q[i] = s
      BY <2>2, <1>1, <1>2, <1>3
    <3> QED BY <3>1, <2>2, <1>3
  <2>3. i <= Len(o) \/ i = Len(q)
    BY <1>2
  <2> QED BY <2>1, <2>2, <2>3
<1> HIDE DEF more, q
<1>6. AddressesAre(q, n + Kept(s))
  BY <1>3, <1>4, <1>5 DEF AddressesAre
<1> QED BY <1>2, <1>6 DEF q

LEMMA AddressesPop == ASSUME NEW o \in Seq(Structures), NEW n, AddressesAre(o, n), o # <<>>
                      PROVE  /\ AddressesAre(SubSeq(o, 1, Len(o) - 1), n - Kept(o[Len(o)]))
                             /\ n - Kept(o[Len(o)]) \in Nat /\ n \in Nat
<1>1. PICK held \in [0..Len(o) -> Nat] :
         /\ held[0] = 0 /\ n = held[Len(o)]
         /\ \A i \in 1..Len(o) : held[i] = held[i - 1] + Kept(o[i])
  BY DEF AddressesAre
<1> DEFINE q == SubSeq(o, 1, Len(o) - 1)
           less == [i \in 0..Len(q) |-> held[i]]
<1>2. Len(o) \in Nat /\ Len(o) >= 1 /\ Len(q) = Len(o) - 1 /\ \A i \in 1..Len(q) : q[i] = o[i]
  OBVIOUS
<1>3. held[Len(o)] = held[Len(q)] + Kept(o[Len(o)]) /\ held[Len(q)] \in Nat /\ Kept(o[Len(o)]) \in {1, 2}
  BY <1>1, <1>2 DEF Kept
<1>4. less \in [0..Len(q) -> Nat] /\ \A i \in 0..Len(q) : less[i] = held[i]
  BY <1>1, <1>2
<1>5. \A i \in 1..Len(q) : less[i] = less[i - 1] + Kept(q[i])
  BY <1>1, <1>2, <1>4
<1>6. less[0] = 0 /\ n - Kept(o[Len(o)]) = less[Len(q)] /\ n \in Nat
  BY <1>1, <1>2, <1>3, <1>4
<1> HIDE DEF less, q
<1>7. AddressesAre(q, n - Kept(o[Len(o)]))
  BY <1>4, <1>5, <1>6 DEF AddressesAre
<1> QED BY <1>7, <1>6, <1>4, <1>2 DEF q

LEMMA NothingOpen == /\ LoopsAre(<<>>, 0) /\ AddressesAre(<<>>, 0)
                     /\ \A n : AddressesAre(<<>>, n) => n = 0
<1> DEFINE none == [i \in 0..0 |-> 0]
<1>1. none \in [0..Len(<<>>) -> Nat] /\ none[0] = 0 /\ Len(<<>>) = 0
  OBVIOUS
<1> HIDE DEF none
<1>2. LoopsAre(<<>>, 0)
  BY <1>1 DEF LoopsAre
<1>3. AddressesAre(<<>>, 0)
  BY <1>1 DEF AddressesAre
<1>4. ASSUME NEW n, AddressesAre(<<>>, n) PROVE n = 0
  BY <1>4 DEF AddressesAre
<1> QED BY <1>2, <1>3, <1>4

\* The compile-time stack pushed and popped above what was there.
LEMMA StackPush == ASSUME NEW base \in Seq(Nat), NEW s \in Seq(Nat), NEW n \in Nat, HoldsAbove(base, s, n), NEW a \in Nat
                   PROVE  Append(s, a) \in Seq(Nat) /\ HoldsAbove(base, Append(s, a), n + 1)
BY DEF HoldsAbove
LEMMA StackPop == ASSUME NEW base \in Seq(Nat), NEW s \in Seq(Nat), NEW n \in Nat, HoldsAbove(base, s, n), NEW k \in 0..n
                  PROVE  SubSeq(s, 1, Len(s) - k) \in Seq(Nat) /\ HoldsAbove(base, SubSeq(s, 1, Len(s) - k), n - k)
BY DEF HoldsAbove

\* Code stays code.
LEMMA CallTypes == /\ \A r \in Routines : Call(r) \in Cell /\ Byte(r) \in Cell
                   /\ \A a \in Nat : Target(a) \in Cell
<1>1. \A r \in Routines : Call(r) \in Cell
  BY DEF Call, Cell, Routines
<1>2. \A r \in Routines : Byte(r) \in Cell
  BY DEF Byte, Cell, Routines
<1>3. \A a \in Nat : Target(a) \in Cell
  BY DEF Target, Cell, Routines
<1> QED BY <1>1, <1>2, <1>3
LEMMA PatchTypes == ASSUME NEW c \in Seq(Cell), NEW a \in Nat, NEW to \in Nat
                    PROVE  Patch(c, a, to) \in Seq(Cell)
<1>1. c \in [1..Len(c) -> Cell] /\ Len(c) \in Nat
  OBVIOUS
<1>2. \A i \in 1..Len(c) : [c[i] EXCEPT !.to = to] \in Cell
  BY <1>1 DEF Cell
<1>3. Patch(c, a, to) \in [1..Len(c) -> Cell]
  BY <1>1, <1>2 DEF Patch
<1> QED BY <1>1, <1>3
LEMMA LeavesTypes == ASSUME NEW c \in Seq(Cell), NEW head \in Nat, NEW to \in Nat
                     PROVE  PatchLeaves(c, head, to) \in Seq(Cell)
<1>1. c \in [1..Len(c) -> Cell] /\ DOMAIN c = 1..Len(c) /\ Len(c) \in Nat
  OBVIOUS
<1>2. PatchLeaves(c, head, to) \in [1..Len(c) -> Cell]
  BY <1>1, CallTypes DEF PatchLeaves
<1> QED BY <1>1, <1>2
----------------------------------------------------------------------------
\* What a compiling word finds, and what is left when the innermost structure is taken off.
LEMMA Found == ASSUME NestInv PROVE /\ HERE \in Nat /\ HERE + 1 \in Nat /\ HERE + 2 \in Nat
                                    /\ \A i \in 1..Len(cstack) : cstack[i] \in Nat
BY DEF NestInv, CompileTypes, HERE

LEMMA InsideFacts ==
    ASSUME NestInv, open # <<>>
    PROVE  LET s == open[Len(open)] IN
           /\ s \in Structures /\ Inside \in Seq(Structures)
           /\ LoopsAre(Inside, depth - Weight(s)) /\ depth - Weight(s) \in Nat
           /\ \E n \in Nat : /\ n - Kept(s) \in Nat /\ AddressesAre(Inside, n - Kept(s)) /\ HoldsAbove(left, cstack, n)
<1> DEFINE s == open[Len(open)]
<1>1. open \in Seq(Structures) /\ LoopsAre(open, depth)
  BY DEF NestInv, CompileTypes
<1>2. s \in Structures /\ Inside \in Seq(Structures)
  BY <1>1 DEF Inside
<1>3. LoopsAre(Inside, depth - Weight(s)) /\ depth - Weight(s) \in Nat
  BY <1>1, LoopsPop DEF Inside
<1>4. PICK n \in Nat : AddressesAre(open, n) /\ HoldsAbove(left, cstack, n)
  BY DEF NestInv
<1>5. n - Kept(s) \in Nat /\ AddressesAre(Inside, n - Kept(s))
  BY <1>1, <1>4, AddressesPop DEF Inside
<1> QED BY <1>2, <1>3, <1>4, <1>5

\* A word that is read and typed keeps the invariant when what it leaves open and on the stack fits.
LEMMA ReadKeeps ==
    ASSUME NestInv, NEW w \in Names, NEW o \in Seq(Structures), Reads(w, o), NEW n \in Nat,
           LoopsAre(o, depth'), AddressesAre(o, n), cstack' \in Seq(Nat), HoldsAbove(left, cstack', n),
           code' \in Seq(Cell), depth' \in 0..Levels, heads' \in [1..Levels -> Nat]
    PROVE  NestInv'
<1>1. open' = o /\ left' = left /\ pos' = pos /\ pos = 0
  BY DEF Reads, runVars
<1>2. words' \in Seq([word : Names, code : Nat, deep : Nat])
  <2>1. [word |-> w, code |-> HERE, deep |-> Len(o)] \in [word : Names, code : Nat, deep : Nat]
    BY Found
  <2> QED BY <2>1 DEF Reads, NestInv, CompileTypes
<1>3. CompileTypes'
  BY <1>1, <1>2 DEF NestInv, CompileTypes
<1>4. LoopsAre(open', depth') /\ AddressesAre(open', n) /\ HoldsAbove(left', cstack', n)
  BY <1>1
<1> QED BY <1>1, <1>3, <1>4 DEF NestInv

LEMMA SameCells == ASSUME NEW x \in Cell, NEW n \in Nat PROVE [i \in 1..n |-> x] \in Seq(Cell)
<1>1. [i \in 1..n |-> x] \in [1..n -> Cell]
  OBVIOUS
<1> QED BY <1>1
LEMMA Joined == ASSUME NEW a \in Seq(Cell), NEW b \in Seq(Cell) PROVE a \o b \in Seq(Cell)
OBVIOUS
LEMMA CodeGrows == ASSUME NEW c \in Seq(Cell), NEW x \in Cell, NEW y \in Cell
                   PROVE  c \o <<x>> \in Seq(Cell) /\ c \o <<x, y>> \in Seq(Cell)
OBVIOUS
LEMMA StructuresNamed == /\ \A s \in Structures : s \in Names
                         /\ \A s \in {"IF", "ELSE", "BEGIN", "WHILE", "DO"} : s \in Structures
                         /\ \A s \in {"THEN", "UNTIL", "REPEAT", "LOOP", "+LOOP", "LEAVE", "EXIT", ";"} : s \in Names
BY DEF Structures, Names

\* IF and BEGIN open a structure with one address; WHILE opens the second half of BEGIN's; DO opens a loop.
LEMMA OpensKeep ==
    ASSUME NestInv, NEW s \in Structures, s # "WHILE", Reads(s, Append(open, s)), Pushes(HERE) \/ Pushes(HERE + 1),
           code' \in Seq(Cell), depth' = depth + Weight(s), depth' <= Levels, heads' \in [1..Levels -> Nat]
    PROVE  NestInv'
<1>1. PICK n \in Nat : AddressesAre(open, n) /\ HoldsAbove(left, cstack, n)
  BY DEF NestInv
<1>2. open \in Seq(Structures) /\ left \in Seq(Nat) /\ cstack \in Seq(Nat) /\ depth \in Nat /\ Levels \in Nat
  BY DEF NestInv, CompileTypes
<1>3. s \in Names
  BY StructuresNamed
<1>4. Append(open, s) \in Seq(Structures) /\ n + 1 \in Nat
  BY <1>2
<1>5. LoopsAre(Append(open, s), depth + Weight(s)) /\ Weight(s) \in Nat
  BY <1>2, LoopsPush DEF NestInv, Weight
<1>6. AddressesAre(Append(open, s), n + 1)
  BY <1>1, <1>2, AddressesPush DEF Kept
<1>7. PICK a \in Nat : cstack' = Append(cstack, a)
  BY Found DEF Pushes
<1>8. cstack' \in Seq(Nat) /\ HoldsAbove(left, cstack', n + 1)
  BY <1>1, <1>2, <1>7, StackPush
<1>9. depth' \in 0..Levels /\ LoopsAre(Append(open, s), depth')
  BY <1>2, <1>5
<1> QED BY <1>3, <1>4, <1>6, <1>8, <1>9, ReadKeeps

LEMMA IfKeeps == ASSUME NestInv, If PROVE NestInv'
<1>1. code' \in Seq(Cell)
  BY CallTypes, CodeGrows DEF If, Compiles, NestInv, CompileTypes, Routines
<1>2. depth' = depth + Weight("IF") /\ depth' <= Levels /\ heads' \in [1..Levels -> Nat] /\ "IF" \in Structures
  BY DEF If, NoLoopWord, NestInv, CompileTypes, Weight, Structures
<1> QED BY <1>1, <1>2, OpensKeep DEF If

LEMMA BeginKeeps == ASSUME NestInv, Begin PROVE NestInv'
<1>1. code' \in Seq(Cell)
  BY DEF Begin, NestInv, CompileTypes
<1>2. depth' = depth + Weight("BEGIN") /\ depth' <= Levels /\ heads' \in [1..Levels -> Nat] /\ "BEGIN" \in Structures
  BY DEF Begin, NoLoopWord, NestInv, CompileTypes, Weight, Structures
<1> QED BY <1>1, <1>2, OpensKeep DEF Begin

LEMMA DoKeeps == ASSUME NestInv, Do PROVE NestInv'
<1>1. code' \in Seq(Cell)
  BY CallTypes, CodeGrows DEF Do, Compiles, NestInv, CompileTypes, Routines
<1>2. depth' = depth + Weight("DO") /\ depth' <= Levels /\ heads' \in [1..Levels -> Nat] /\ "DO" \in Structures
  BY DEF Do, NestInv, CompileTypes, Weight, Structures
<1> QED BY <1>1, <1>2, OpensKeep DEF Do

\* A word that ends the innermost structure s takes off its addresses.
LEMMA EndsKeep ==
    ASSUME NestInv, open # <<>>, NEW w \in Names, Reads(w, Inside), cstack' = Pops(Kept(open[Len(open)])),
           code' \in Seq(Cell), depth' = depth - Weight(open[Len(open)]), heads' = heads
    PROVE  NestInv'
<1> DEFINE s == open[Len(open)]
<1>1. PICK n \in Nat : n - Kept(s) \in Nat /\ AddressesAre(Inside, n - Kept(s)) /\ HoldsAbove(left, cstack, n)
  BY InsideFacts
<1>2. /\ s \in Structures /\ Inside \in Seq(Structures) /\ Kept(s) \in {1, 2} /\ Weight(s) \in {0, 1}
      /\ LoopsAre(Inside, depth - Weight(s)) /\ depth - Weight(s) \in Nat
  BY InsideFacts DEF Kept, Weight
<1>3. left \in Seq(Nat) /\ cstack \in Seq(Nat) /\ depth \in 0..Levels /\ Levels \in Nat
  BY DEF NestInv, CompileTypes
<1>4. Kept(s) \in 0..n
  BY <1>1, <1>2
<1>5. cstack' \in Seq(Nat) /\ HoldsAbove(left, cstack', n - Kept(s))
  BY <1>1, <1>3, <1>4, StackPop DEF Pops
<1>6. depth' \in 0..Levels /\ LoopsAre(Inside, depth') /\ heads' \in [1..Levels -> Nat]
  BY <1>2, <1>3 DEF NestInv, CompileTypes
<1> QED BY <1>1, <1>2, <1>5, <1>6, ReadKeeps

LEMMA TopTypes == ASSUME NestInv, open # <<>>
                  PROVE  Top(1) \in Nat /\ (open[Len(open)] = "WHILE" => Top(2) \in Nat)
<1> DEFINE s == open[Len(open)]
<1>1. PICK n \in Nat : n - Kept(s) \in Nat /\ HoldsAbove(left, cstack, n)
  BY InsideFacts
<1>2. left \in Seq(Nat) /\ cstack \in Seq(Nat) /\ Len(cstack) >= n
  BY <1>1 DEF HoldsAbove, NestInv, CompileTypes
<1>3. n >= 1 /\ (s = "WHILE" => n >= 2)
  BY <1>1 DEF Kept
<1> QED BY <1>2, <1>3 DEF Top

LEMMA ThenKeeps == ASSUME NestInv, Then PROVE NestInv'
<1>1. open # <<>> /\ open[Len(open)] \in {"IF", "ELSE"}
  BY DEF Then, Innermost
<1>2. code' \in Seq(Cell)
  BY <1>1, TopTypes, Found, PatchTypes DEF Then, NestInv, CompileTypes
<1>3. Kept(open[Len(open)]) = 1 /\ Weight(open[Len(open)]) = 0 /\ "THEN" \in Names
  BY <1>1, StructuresNamed DEF Kept, Weight
<1>4. depth \in Int /\ depth' = depth - Weight(open[Len(open)]) /\ heads' = heads
  BY <1>3 DEF Then, NoLoopWord, NestInv, CompileTypes
<1> QED BY <1>1, <1>2, <1>3, <1>4, EndsKeep DEF Then

LEMMA UntilKeeps == ASSUME NestInv, Until PROVE NestInv'
<1>1. open # <<>> /\ open[Len(open)] = "BEGIN"
  BY DEF Until, Innermost
<1>2. code' \in Seq(Cell)
  BY <1>1, TopTypes, CallTypes, CodeGrows DEF Until, Compiles, NestInv, CompileTypes, Routines
<1>3. Kept(open[Len(open)]) = 1 /\ Weight(open[Len(open)]) = 0 /\ "UNTIL" \in Names
  BY <1>1, StructuresNamed DEF Kept, Weight
<1>4. depth \in Int /\ depth' = depth - Weight(open[Len(open)]) /\ heads' = heads
  BY <1>3 DEF Until, NoLoopWord, NestInv, CompileTypes
<1> QED BY <1>1, <1>2, <1>3, <1>4, EndsKeep DEF Until

LEMMA RepeatKeeps == ASSUME NestInv, Repeat PROVE NestInv'
<1>1. open # <<>> /\ open[Len(open)] = "WHILE"
  BY DEF Repeat, Innermost
<1>2. code \o <<Call("BRANCH"), Target(Top(2))>> \in Seq(Cell)
  BY <1>1, TopTypes, CallTypes, CodeGrows DEF NestInv, CompileTypes, Routines
<1>3. code' \in Seq(Cell)
  BY <1>1, <1>2, TopTypes, Found, PatchTypes DEF Repeat
<1>4. Kept(open[Len(open)]) = 2 /\ Weight(open[Len(open)]) = 0 /\ "REPEAT" \in Names
  BY <1>1, StructuresNamed DEF Kept, Weight
<1>5. depth \in Int /\ depth' = depth - Weight(open[Len(open)]) /\ heads' = heads
  BY <1>4 DEF Repeat, NoLoopWord, NestInv, CompileTypes
<1> QED BY <1>1, <1>3, <1>4, <1>5, EndsKeep DEF Repeat

LEMMA EndLoopKeeps == ASSUME NestInv, NEW w \in {"LOOP", "+LOOP"}, NEW r \in Routines, EndLoop(w, r) PROVE NestInv'
<1>1. open # <<>> /\ open[Len(open)] = "DO"
  BY DEF EndLoop, Innermost
<1>2. code \o <<Call(r), Target(Top(1))>> \in Seq(Cell)
  BY <1>1, TopTypes, CallTypes, CodeGrows DEF NestInv, CompileTypes
<1>3. heads[depth] \in Nat
  <2>1. depth - Weight(open[Len(open)]) \in Nat /\ Weight(open[Len(open)]) = 1
    BY <1>1, InsideFacts DEF Weight
  <2>2. depth \in 0..Levels /\ heads \in [1..Levels -> Nat] /\ Levels \in Nat
    BY DEF NestInv, CompileTypes
  <2>3. depth \in 1..Levels
    BY <2>1, <2>2
  <2> QED BY <2>2, <2>3
<1>4. code' \in Seq(Cell)
  BY <1>2, <1>3, Found, LeavesTypes DEF EndLoop
<1>5. Kept(open[Len(open)]) = 1 /\ depth' = depth - Weight(open[Len(open)]) /\ heads' = heads /\ w \in Names
  BY <1>1, StructuresNamed DEF Kept, Weight, EndLoop
<1> QED BY <1>1, <1>4, <1>5, EndsKeep DEF EndLoop
\* ELSE and WHILE change the innermost structure for the one they begin.
LEMMA ElseKeeps == ASSUME NestInv, Else PROVE NestInv'
<1>1. open # <<>> /\ open[Len(open)] = "IF"
  BY DEF Else, Innermost
<1>2. Kept(open[Len(open)]) = 1 /\ Weight(open[Len(open)]) = 0 /\ Kept("ELSE") = 1 /\ Weight("ELSE") = 0
  BY <1>1 DEF Kept, Weight
<1>3. PICK n \in Nat : n - 1 \in Nat /\ AddressesAre(Inside, n - 1) /\ HoldsAbove(left, cstack, n)
  BY <1>1, <1>2, InsideFacts
<1>4. Inside \in Seq(Structures) /\ LoopsAre(Inside, depth - 0)
  BY <1>1, <1>2, InsideFacts
<1>5. left \in Seq(Nat) /\ cstack \in Seq(Nat) /\ depth \in 0..Levels /\ Levels \in Nat /\ code \in Seq(Cell) /\ HERE + 1 \in Nat
  BY Found DEF NestInv, CompileTypes
<1>6. "ELSE" \in Structures /\ "ELSE" \in Names
  BY StructuresNamed
<1>7. Append(Inside, "ELSE") \in Seq(Structures)
  BY <1>4, <1>6
<1>8. LoopsAre(Append(Inside, "ELSE"), depth)
  <2>1. LoopsAre(Inside, depth)
    BY <1>4, <1>5
  <2>2. LoopsAre(Append(Inside, "ELSE"), depth + 0)
    BY <2>1, <1>2, <1>4, <1>6, LoopsPush
  <2> QED BY <2>2, <1>5
<1>9. AddressesAre(Append(Inside, "ELSE"), n)
  <2>1. AddressesAre(Append(Inside, "ELSE"), (n - 1) + 1)
    BY <1>2, <1>3, <1>4, <1>6, AddressesPush
  <2> QED BY <2>1
<1>10. Pops(1) \in Seq(Nat) /\ HoldsAbove(left, Pops(1), n - 1)
  <2>1. 1 \in 0..n
    BY <1>3
  <2> QED BY <2>1, <1>3, <1>5, StackPop DEF Pops
<1>11. Append(Pops(1), HERE + 1) \in Seq(Nat) /\ HoldsAbove(left, Append(Pops(1), HERE + 1), (n - 1) + 1)
  BY <1>3, <1>5, <1>10, StackPush
<1>12. cstack' \in Seq(Nat) /\ HoldsAbove(left, cstack', n)
  BY <1>11 DEF Else
<1>13. code \o <<Call("BRANCH"), Target(0)>> \in Seq(Cell)
  BY <1>5, CallTypes, CodeGrows DEF Routines
<1>14. code' \in Seq(Cell)
  BY <1>1, <1>13, TopTypes, Found, PatchTypes DEF Else
<1>15. Reads("ELSE", Append(Inside, "ELSE")) /\ depth' = depth /\ heads' = heads /\ heads \in [1..Levels -> Nat]
  BY DEF Else, NoLoopWord, NestInv, CompileTypes
<1> QED BY <1>5, <1>6, <1>7, <1>8, <1>9, <1>12, <1>14, <1>15, ReadKeeps

LEMMA WhileKeeps == ASSUME NestInv, While PROVE NestInv'
<1>1. open # <<>> /\ open[Len(open)] = "BEGIN"
  BY DEF While, Innermost
<1>2. Kept(open[Len(open)]) = 1 /\ Weight(open[Len(open)]) = 0 /\ Kept("WHILE") = 2 /\ Weight("WHILE") = 0
  BY <1>1 DEF Kept, Weight
<1>3. PICK n \in Nat : n - 1 \in Nat /\ AddressesAre(Inside, n - 1) /\ HoldsAbove(left, cstack, n)
  BY <1>1, <1>2, InsideFacts
<1>4. Inside \in Seq(Structures) /\ LoopsAre(Inside, depth - 0)
  BY <1>1, <1>2, InsideFacts
<1>5. left \in Seq(Nat) /\ cstack \in Seq(Nat) /\ depth \in 0..Levels /\ Levels \in Nat /\ code \in Seq(Cell) /\ HERE + 1 \in Nat
  BY Found DEF NestInv, CompileTypes
<1>6. "WHILE" \in Structures /\ "WHILE" \in Names
  BY StructuresNamed
<1>7. Append(Inside, "WHILE") \in Seq(Structures) /\ n + 1 \in Nat
  BY <1>4, <1>6
<1>8. LoopsAre(Append(Inside, "WHILE"), depth)
  <2>1. LoopsAre(Inside, depth)
    BY <1>4, <1>5
  <2>2. LoopsAre(Append(Inside, "WHILE"), depth + 0)
    BY <2>1, <1>2, <1>4, <1>6, LoopsPush
  <2> QED BY <2>2, <1>5
<1>9. AddressesAre(Append(Inside, "WHILE"), n + 1)
  <2>1. AddressesAre(Append(Inside, "WHILE"), (n - 1) + 2)
    BY <1>2, <1>3, <1>4, <1>6, AddressesPush
  <2>2. (n - 1) + 2 = n + 1
    OBVIOUS
  <2> QED BY <2>1, <2>2
<1>10. cstack' \in Seq(Nat) /\ HoldsAbove(left, cstack', n + 1)
  BY <1>3, <1>5, StackPush DEF While, Pushes
<1>11. code' \in Seq(Cell)
  BY <1>5, CallTypes, CodeGrows DEF While, Compiles, Routines
<1>12. Reads("WHILE", Append(Inside, "WHILE")) /\ depth' = depth /\ heads' = heads /\ heads \in [1..Levels -> Nat]
  BY DEF While, NoLoopWord, NestInv, CompileTypes
<1> QED BY <1>5, <1>6, <1>7, <1>8, <1>9, <1>10, <1>11, <1>12, ReadKeeps

\* LEAVE and EXIT leave what is open as it is.
LEMMA StaysKeep ==
    ASSUME NestInv, NEW w \in Names, Reads(w, open), UNCHANGED <<cstack, depth>>,
           code' \in Seq(Cell), heads' \in [1..Levels -> Nat]
    PROVE  NestInv'
<1>1. PICK n \in Nat : AddressesAre(open, n) /\ HoldsAbove(left, cstack, n)
  BY DEF NestInv
<1>2. open \in Seq(Structures) /\ cstack' \in Seq(Nat) /\ depth' \in 0..Levels /\ LoopsAre(open, depth') /\ HoldsAbove(left, cstack', n)
  BY <1>1 DEF NestInv, CompileTypes
<1> QED BY <1>1, <1>2, ReadKeeps

LEMMA LeaveKeeps == ASSUME NestInv, Leave PROVE NestInv'
<1>1. open \in Seq(Structures) /\ LoopsAre(open, depth) /\ depth \in 0..Levels /\ Levels \in Nat /\ heads \in [1..Levels -> Nat]
  BY DEF NestInv, CompileTypes
<1>2. depth > 0
  BY <1>1, LoopsOpen DEF Leave, InLoop
<1>3. depth \in 1..Levels /\ heads[depth] \in Nat
  BY <1>1, <1>2
<1>4. code' \in Seq(Cell)
  BY <1>3, CallTypes, CodeGrows DEF Leave, Compiles, NestInv, CompileTypes, Routines
<1>5. heads' \in [1..Levels -> Nat]
  BY <1>1, Found DEF Leave
<1>6. "LEAVE" \in Names
  BY StructuresNamed
<1> QED BY <1>4, <1>5, <1>6, StaysKeep DEF Leave

LEMMA ExitKeeps == ASSUME NestInv, Exit PROVE NestInv'
<1>1. depth \in 0..Levels /\ Levels \in Nat /\ code \in Seq(Cell)
  BY DEF NestInv, CompileTypes
<1>2. Byte("POP HL") \in Cell /\ Byte("RET") \in Cell
  BY CallTypes DEF Routines
<1>3. 2 * depth \in Nat
  BY <1>1
<1>4. [i \in 1..2 * depth |-> Byte("POP HL")] \o <<Byte("RET")>> \in Seq(Cell)
  BY <1>2, <1>3, SameCells, CodeGrows
<1>5. code' \in Seq(Cell)
  BY <1>1, <1>4, Joined DEF Exit, Compiles
<1>6. "EXIT" \in Names
  BY StructuresNamed
<1> QED BY <1>5, <1>6, StaysKeep DEF Exit, NoLoopWord, NestInv, CompileTypes
\* `;` ends a definition with nothing open; an error drops it and leaves the addresses, or none, as what was there before.
LEMMA Appended == ASSUME NEW T, NEW s \in Seq(T), NEW e \in T PROVE Append(s, e) \in Seq(T)
  OBVIOUS
LEMMA SemicolonKeeps == ASSUME NestInv, SemicolonRet PROVE NestInv'
<1>1. code' \in Seq(Cell)
  <2>1. Byte("RET") \in Cell
    BY CallTypes DEF Routines
  <2> QED BY <2>1, CodeGrows DEF SemicolonRet, Compiles, NestInv, CompileTypes
<1>2. words' \in Seq([word : Names, code : Nat, deep : Nat])
  <2>1. ";" \in Names
    BY StructuresNamed
  <2>2. [word |-> ";", code |-> HERE, deep |-> 0] \in [word : Names, code : Nat, deep : Nat]
    BY <2>1, Found
  <2>3. words \in Seq([word : Names, code : Nat, deep : Nat])
    BY DEF NestInv, CompileTypes
  <2>4. words' = Append(words, [word |-> ";", code |-> HERE, deep |-> 0])
    BY DEF SemicolonRet
  <2> QED BY <2>2, <2>3, <2>4, Appended
<1>3. CompileTypes'
  BY <1>1, <1>2 DEF SemicolonRet, NestInv, CompileTypes
<1>4. LoopsAre(open', depth') /\ \E n \in Nat : AddressesAre(open', n) /\ HoldsAbove(left', cstack', n)
  BY DEF SemicolonRet, NestInv
<1>5. open' = <<>>
  BY DEF SemicolonRet
<1> QED BY <1>3, <1>4, <1>5 DEF NestInv

LEMMA ColonDropKeeps == ASSUME NestInv, DropDefinition PROVE NestInv'
<1>1. cstack' \in Seq(Nat) /\ left' = cstack'
  <2>1. cstack' = <<>> \/ cstack' = cstack
    BY DEF DropDefinition
  <2>2. cstack \in Seq(Nat) /\ <<>> \in Seq(Nat)
    BY DEF NestInv, CompileTypes
  <2> QED BY <2>1, <2>2 DEF DropDefinition
<1>2. HoldsAbove(left', cstack', 0)
  BY <1>1 DEF HoldsAbove
<1>3. open' = <<>> /\ depth' = 0 /\ LoopsAre(open', depth') /\ AddressesAre(open', 0)
  BY NothingOpen DEF DropDefinition
<1>4. CompileTypes'
  <2>1. Levels \in Nat \ {0} /\ depth' \in 0..Levels /\ heads' \in [1..Levels -> Nat]
    BY DEF DropDefinition, NestInv, CompileTypes
  <2> QED BY <1>1, <2>1 DEF DropDefinition, CompileTypes
<1> QED BY <1>2, <1>3, <1>4 DEF NestInv

\* Nothing is compiled while the definition runs: pos is not 0 then, and nothing is open.
LEMMA RunKeeps == ASSUME NestInv, UNCHANGED <<textVars, compileVars>>, Running \/ Closed PROVE NestInv'
<1>1. pos # 0
  BY DEF Running, Closed, NestInv, CompileTypes
<1>2. open = <<>>
  BY <1>1 DEF NestInv
<1> QED BY <1>2 DEF NestInv, CompileTypes, textVars, compileVars

LEMMA NextKeeps == NestInv /\ [ControlNext]_controlVars => NestInv'
<1> SUFFICES ASSUME NestInv, [ControlNext]_controlVars PROVE NestInv'
  OBVIOUS
<1>1. CASE CompileWord
  <2>1. Loop => NestInv'
    BY EndLoopKeeps DEF Loop, Routines
  <2>2. PlusLoop => NestInv'
    BY EndLoopKeeps DEF PlusLoop, Routines
  <2> QED BY <1>1, <2>1, <2>2, IfKeeps, ElseKeeps, ThenKeeps, BeginKeeps, UntilKeeps, WhileKeeps, RepeatKeeps, DoKeeps, LeaveKeeps,
             ExitKeeps, SemicolonKeeps, ColonDropKeeps DEF CompileWord
<1>2. CASE Called
  BY <1>2, RunKeeps DEF Called
<1>3. CASE Execute /\ UNCHANGED <<textVars, compileVars>>
  <2>1. Running
    BY <1>3 DEF Execute, QBranch, Branch, DoRT, LoopRT, PlusLoopRT, LeaveRT, Ret, Executes
  <2> QED BY <1>3, <2>1, RunKeeps
<1>4. CASE PopHL /\ UNCHANGED <<pos, loops, textVars, compileVars>>
  <2>1. Running /\ UNCHANGED <<textVars, compileVars>>
    BY <1>4 DEF PopHL, Executes
  <2> QED BY <2>1, RunKeeps
<1>5. CASE UNCHANGED controlVars
  BY <1>5 DEF controlVars, textVars, compileVars, runVars, NestInv, CompileTypes
<1> QED BY <1>1, <1>2, <1>3, <1>4, <1>5 DEF ControlNext

LEMMA InitNests == ASSUME ControlParameters PROVE ControlInit => NestInv
<1> SUFFICES ASSUME ControlInit PROVE NestInv
  OBVIOUS
<1>1. CompileTypes
  BY ControlParameters DEF ControlParameters, ControlInit, CompileTypes
<1>2. HoldsAbove(left, cstack, 0)
  BY DEF ControlInit, HoldsAbove
<1>3. LoopsAre(open, depth) /\ AddressesAre(open, 0)
  BY NothingOpen DEF ControlInit
<1> QED BY <1>1, <1>2, <1>3 DEF ControlInit, NestInv

LEMMA SameSequence == ASSUME NEW a \in Seq(Nat), NEW b \in Seq(Nat), Len(a) = Len(b), \A j \in 1..Len(b) : a[j] = b[j] PROVE a = b
<1>1. a \in [1..Len(a) -> Nat] /\ b \in [1..Len(b) -> Nat]
  OBVIOUS
<1> QED BY <1>1
LEMMA NoneOpen == ASSUME NEW o, NEW d, LoopsAre(o, d), o = <<>> PROVE d = 0
  BY DEF LoopsAre
LEMMA NestIsClosed == NestInv => NothingLeftOpen
<1> SUFFICES ASSUME NestInv PROVE NothingLeftOpen
  OBVIOUS
<1>1. open \in Seq(Structures) /\ LoopsAre(open, depth) /\ depth \in 0..Levels /\ left \in Seq(Nat) /\ cstack \in Seq(Nat)
  BY DEF NestInv, CompileTypes
<1>2. InLoop <=> depth > 0
  BY <1>1, LoopsOpen DEF InLoop
<1>3. ASSUME pos > 0 PROVE cstack = left /\ depth = 0
  <2>1. open = <<>>
    BY <1>3 DEF NestInv
  <2>2. depth = 0
    BY <1>1, <2>1, NoneOpen
  <2>3. HoldsAbove(left, cstack, 0)
    BY <2>1, NothingOpen DEF NestInv
  <2>4. Len(cstack) = Len(left) /\ \A j \in 1..Len(left) : cstack[j] = left[j]
    BY <1>1, <2>3 DEF HoldsAbove
  <2>5. cstack = left
    BY <1>1, <2>4, SameSequence
  <2> QED BY <2>2, <2>5
<1> QED BY <1>1, <1>2, <1>3 DEF NothingLeftOpen

\* For every table of LEAVE heads, nesting and failed definition: LEAVE_DEPTH stays in the table and is above 0 exactly inside
\* a loop, and a closed definition leaves neither an address on the compile-time stack nor a loop open.
THEOREM DefinitionsClose == ASSUME ControlParameters PROVE ControlSpec => []NothingLeftOpen
<1>1. ControlInit => NestInv
  BY ControlParameters, InitNests
<1>2. NestInv /\ [ControlNext]_controlVars => NestInv'
  BY NextKeeps
<1>3. NestInv => NothingLeftOpen
  BY NestIsClosed
<1> QED BY <1>1, <1>2, <1>3, PTL DEF ControlSpec

\* A structure that is open before a word: s what it is now, at the word that opened it, hole the word whose branch is
\* to be patched at its end (0: none), loop and nest the innermost loop around what follows and how many are open, sp
\* how many addresses the structures down to it keep on the compile-time stack.
Frame == [s : Structures, at : Nat, hole : Nat, loop : Nat, nest : Nat, sp : Nat]
TopOf(fs) == fs[Len(fs)]
LoopOf(fs) == IF fs = <<>> THEN 0 ELSE fs[Len(fs)].loop
NestOf(fs) == IF fs = <<>> THEN 0 ELSE fs[Len(fs)].nest
SpOf(fs) == IF fs = <<>> THEN 0 ELSE fs[Len(fs)].sp
Openers == {"IF", "BEGIN", "DO"}
LoopEnds == {"LOOP", "+LOOP"}
Closers == {"THEN", "UNTIL", "REPEAT"} \cup LoopEnds
Forward == {"IF", "ELSE", "WHILE", "LEAVE"}        \* what branches to a place not read yet
OpenerOf(s) == IF s \in {"IF", "ELSE"} THEN "IF" ELSE IF s = "DO" THEN "DO" ELSE "BEGIN"
Needs(w) == {s \in Structures : \/ w = "ELSE" /\ s = "IF"
                                \/ w \in {"WHILE", "UNTIL"} /\ s = "BEGIN"
                                \/ w = "THEN" /\ s \in {"IF", "ELSE"}
                                \/ w = "REPEAT" /\ s = "WHILE"
                                \/ w \in LoopEnds /\ s = "DO"}
Opened(fs, w, k) ==
    Append(fs, [s |-> w, at |-> k, hole |-> IF w = "IF" THEN k ELSE 0, loop |-> IF w = "DO" THEN k ELSE LoopOf(fs),
                nest |-> NestOf(fs) + Weight(w), sp |-> SpOf(fs) + 1])
TurnedTop(f, w, k) == [s |-> w, at |-> f.at, hole |-> k, loop |-> f.loop, nest |-> f.nest,
                       sp |-> IF w = "WHILE" THEN f.sp + 1 ELSE f.sp]
Turned(fs, w, k) == [fs EXCEPT ![Len(fs)] = TurnedTop(fs[Len(fs)], w, k)]
Dropped(fs) == SubSeq(fs, 1, Len(fs) - 1)
\* The k-th word, w, read with fs open leaves gs open.
After(fs, w, k, gs) ==
    \/ w \in Openers /\ gs = Opened(fs, w, k)
    \/ w \in {"ELSE", "WHILE"} /\ fs # <<>> /\ TopOf(fs).s \in Needs(w) /\ gs = Turned(fs, w, k)
    \/ w \in Closers /\ fs # <<>> /\ TopOf(fs).s \in Needs(w) /\ gs = Dropped(fs)
    \/ w \in {"LEAVE", "EXIT", ";"} /\ gs = fs /\ (w = "LEAVE" => LoopOf(fs) # 0) /\ (w = ";" => fs = <<>>)

\* What an open structure is, j-th from the outermost before word k.
FrameSound(ws, fs, k, j) ==
    /\ fs[j].at \in 1..k - 1 /\ ws[fs[j].at].word = OpenerOf(fs[j].s) /\ ws[fs[j].at].deep = j
    /\ fs[j].s \in {"BEGIN", "DO"} => fs[j].hole = 0
    /\ fs[j].s = "IF" => fs[j].hole = fs[j].at
    /\ fs[j].s \in {"ELSE", "WHILE"} => fs[j].hole \in fs[j].at + 1..k - 1 /\ ws[fs[j].hole].word = fs[j].s
    /\ fs[j].s = "DO" => fs[j].loop = fs[j].at
    /\ fs[j].sp >= Kept(fs[j].s)
    /\ fs[j].loop # 0 <=> fs[j].nest # 0
\* How two of them lie.
FramesSound(fs, i, j) ==
    /\ fs[i].at < fs[j].at /\ fs[i].hole < fs[j].at
    /\ fs[i].nest + Weight(fs[j].s) <= fs[j].nest /\ fs[i].sp + Kept(fs[j].s) <= fs[j].sp
    /\ fs[i].s = "DO" => fs[i].at <= fs[j].loop
LoopSound(fs, j) ==
    fs[j].loop # 0 => \E i \in 1..j : fs[i].s = "DO" /\ fs[i].at = fs[j].loop /\ fs[i].nest = fs[j].nest
\* What it counts over the one around it.
BelowSound(fs, j) ==
    /\ j = 1 => fs[j].nest = Weight(fs[j].s) /\ fs[j].sp = Kept(fs[j].s)
    /\ j > 1 => fs[j].nest = fs[j - 1].nest + Weight(fs[j].s) /\ fs[j].sp = fs[j - 1].sp + Kept(fs[j].s)
\* It has been there since it was opened, and waited for its end since its branch was read.
Since(h, k, j) ==
    /\ \A t \in h[k][j].at + 1..k :
          j <= Len(h[t]) /\ h[t][j].at = h[k][j].at /\ h[t][j].nest = h[k][j].nest /\ h[t][j].loop = h[k][j].loop
    /\ h[k][j].hole # 0 => \A t \in h[k][j].hole + 1..k : h[t][j].hole = h[k][j].hole
SoundAt(h, ws, k, j) ==
    /\ FrameSound(ws, h[k], k, j) /\ LoopSound(h[k], j) /\ BelowSound(h[k], j) /\ Since(h, k, j)
    /\ \A i \in 1..j - 1 : FramesSound(h[k], i, j)
StackSound(h, ws, k) == \A j \in 1..Len(h[k]) : SoundAt(h, ws, k, j)
EndsAt(h, ws, l, e) == ws[e].word \in Closers /\ h[e] # <<>> /\ TopOf(h[e]).at = l
IsOpen(fs, l) == \E j \in 1..Len(fs) : fs[j].at = l
History(h, ws) ==
    /\ h \in [1..Len(ws) + 1 -> Seq(Frame)] /\ h[1] = <<>>
    /\ \A k \in 1..Len(ws) : After(h[k], ws[k].word, k, h[k + 1]) /\ ws[k].deep = Len(h[k + 1])
    /\ \A k \in 1..Len(ws) + 1 : StackSound(h, ws, k)
    /\ \A l \in 1..Len(ws) : ws[l].word \in Openers =>
          IsOpen(h[Len(ws) + 1], l) \/ \E e \in l + 1..Len(ws) : EndsAt(h, ws, l, e)

At(ws, cd, k) == IF k <= Len(ws) THEN ws[k].code ELSE Len(cd) + 1
Size(w, n) == IF w \in {"THEN", "BEGIN"} THEN 0 ELSE IF w \in {"DO", ";"} THEN 1 ELSE IF w = "EXIT" THEN 2 * n + 1 ELSE 2
Runs(w) == CASE w \in {"IF", "UNTIL", "WHILE"} -> "QBRANCH" [] w \in {"ELSE", "REPEAT"} -> "BRANCH" [] w = "DO" -> "DO_RT"
             [] w = "LOOP" -> "LOOP_RT" [] w = "+LOOP" -> "PLUSLOOP_RT" [] w = "LEAVE" -> "LEAVE_RT" [] OTHER -> "RET"
\* The code of each word, but for the branches that go forward.
Coded(h, ws, cd, k) ==
    /\ ws[k].word \notin {"THEN", "BEGIN", "EXIT"} => cd[ws[k].code].op = Runs(ws[k].word)
    /\ ws[k].word = "EXIT" => /\ \A i \in 0..2 * NestOf(h[k]) - 1 : cd[ws[k].code + i].op = "POP HL"
                              /\ cd[ws[k].code + 2 * NestOf(h[k])].op = "RET"
    /\ ws[k].word \in {"UNTIL", "REPEAT"} => cd[ws[k].code + 1].to = ws[TopOf(h[k]).at].code
    /\ ws[k].word \in LoopEnds => cd[ws[k].code + 1].to = ws[TopOf(h[k]).at].code + 1
Laid(h, ws, cd) ==
    /\ At(ws, cd, 1) = 1
    /\ \A k \in 1..Len(ws) : At(ws, cd, k + 1) = ws[k].code + Size(ws[k].word, NestOf(h[k]))
    /\ \A i, k \in 1..Len(ws) : i < k => ws[i].code + Size(ws[i].word, NestOf(h[i])) <= ws[k].code
    /\ \A k \in 1..Len(ws) : Coded(h, ws, cd, k)
\* Word e patches the branch of word x, or it still waits before word n.
Fixes(h, ws, x, e) ==
    /\ h[e] # <<>> /\ x < e
    /\ \/ ws[x].word # "LEAVE" /\ ws[e].word \in {"ELSE", "THEN", "REPEAT"} /\ TopOf(h[e]).hole = x
       \/ ws[x].word = "LEAVE" /\ ws[e].word \in LoopEnds /\ TopOf(h[e]).at = LoopOf(h[x])
Waits(h, ws, x, n) ==
    IF ws[x].word = "LEAVE" THEN \E j \in 1..Len(h[n]) : h[n][j].s = "DO" /\ h[n][j].at = LoopOf(h[x])
    ELSE \E j \in 1..Len(h[n]) : h[n][j].hole = x
Patched(h, ws, cd) ==
    \A x \in 1..Len(ws) : ws[x].word \in Forward =>
        \/ Waits(h, ws, x, Len(ws) + 1)
        \/ \E e \in x + 1..Len(ws) : Fixes(h, ws, x, e) /\ cd[ws[x].code + 1].to = At(ws, cd, e + 1)
\* The compile-time stack has the addresses the open structures need over the base that was there before.
HoldsFrame(ws, f, cs, base) ==
    /\ f.hole # 0 => cs[base + f.sp] = ws[f.hole].code + 1
    /\ f.s = "BEGIN" => cs[base + f.sp] = ws[f.at].code
    /\ f.s = "WHILE" => cs[base + f.sp - 1] = ws[f.at].code
    /\ f.s = "DO" => cs[base + f.sp] = ws[f.at].code + 1
Holds(ws, fs, cs, lf) ==
    /\ Len(cs) = Len(lf) + SpOf(fs)
    /\ \A j \in 1..Len(fs) : HoldsFrame(ws, fs[j], cs, Len(lf))
\* From head on, each of the nodes holds the one before it, and the first of them 0.
ChainIs(cells, head, nodes) ==
    /\ head \in nodes \cup {0} /\ \A b \in nodes : b <= head
    /\ \A a \in nodes : /\ cells[a].to \in nodes \cup {0} /\ cells[a].to < a
                        /\ \A b \in nodes : b < a => b <= cells[a].to
Leaves(h, ws, l) == {x \in 1..Len(ws) : ws[x].word = "LEAVE" /\ LoopOf(h[x]) = l}
Nodes(h, ws, l) == {ws[x].code + 1 : x \in Leaves(h, ws, l)}
Chained(h, ws, cd, hd) ==
    \A j \in 1..Len(h[Len(ws) + 1]) : h[Len(ws) + 1][j].s = "DO" =>
        ChainIs(cd, hd[h[Len(ws) + 1][j].nest], Nodes(h, ws, h[Len(ws) + 1][j].at))
OpenIs(fs, o) == Len(o) = Len(fs) /\ \A j \in 1..Len(fs) : o[j] = fs[j].s
Compiled(h, ws, o, cd, cs, dp, hd, lf) ==
    /\ History(h, ws) /\ Laid(h, ws, cd) /\ Patched(h, ws, cd) /\ Chained(h, ws, cd, hd)
    /\ Holds(ws, h[Len(ws) + 1], cs, lf)
    /\ OpenIs(h[Len(ws) + 1], o) /\ dp = NestOf(h[Len(ws) + 1])

WordRecord == [word : Names, code : Nat, deep : Nat]
----------------------------------------------------------------------------
LEMMA FrameFields == ASSUME NEW f \in Frame
                     PROVE  /\ f.s \in Structures /\ f.at \in Nat /\ f.hole \in Nat /\ f.loop \in Nat /\ f.nest \in Nat /\ f.sp \in Nat
BY DEF Frame

LEMMA StackFields == ASSUME NEW fs \in Seq(Frame)
                     PROVE  /\ Len(fs) \in Nat /\ \A j \in 1..Len(fs) : fs[j] \in Frame
                            /\ LoopOf(fs) \in Nat /\ NestOf(fs) \in Nat /\ SpOf(fs) \in Nat
<1>1. Len(fs) \in Nat /\ \A j \in 1..Len(fs) : fs[j] \in Frame
  OBVIOUS
<1>2. CASE fs = <<>>
  BY <1>1, <1>2 DEF LoopOf, NestOf, SpOf
<1>3. CASE fs # <<>>
  <2>1. fs[Len(fs)] \in Frame
    BY <1>1, <1>3
  <2> QED BY <2>1, <1>1, <1>3, FrameFields DEF LoopOf, NestOf, SpOf
<1> QED BY <1>2, <1>3

\* The stacks a word may leave, field by field.
IsOpened(fs, w, k, gs, n) ==
    /\ n = Len(fs) + 1 /\ gs \in Seq(Frame) /\ Len(gs) = n /\ \A j \in 1..Len(fs) : gs[j] = fs[j]
    /\ gs[n].s = w /\ gs[n].at = k /\ gs[n].hole = (IF w = "IF" THEN k ELSE 0)
    /\ gs[n].loop = (IF w = "DO" THEN k ELSE LoopOf(fs))
    /\ gs[n].nest = NestOf(fs) + Weight(w) /\ gs[n].sp = SpOf(fs) + 1
LEMMA OpenedIs == ASSUME NEW fs \in Seq(Frame), NEW w \in Openers, NEW k \in Nat
                  PROVE  IsOpened(fs, w, k, Opened(fs, w, k), Len(fs) + 1)
<1> DEFINE f == [s |-> w, at |-> k, hole |-> IF w = "IF" THEN k ELSE 0, loop |-> IF w = "DO" THEN k ELSE LoopOf(fs),
                 nest |-> NestOf(fs) + Weight(w), sp |-> SpOf(fs) + 1]
<1>1. f \in Frame
  BY StackFields DEF Frame, Openers, Structures, Weight
<1>2. Opened(fs, w, k) = Append(fs, f)
  BY DEF Opened
<1>3. /\ f.s = w /\ f.at = k /\ f.hole = (IF w = "IF" THEN k ELSE 0) /\ f.loop = (IF w = "DO" THEN k ELSE LoopOf(fs))
      /\ f.nest = NestOf(fs) + Weight(w) /\ f.sp = SpOf(fs) + 1
  OBVIOUS
<1> HIDE DEF f
<1>4. /\ Append(fs, f) \in Seq(Frame) /\ Len(Append(fs, f)) = Len(fs) + 1 /\ Append(fs, f)[Len(fs) + 1] = f
      /\ \A j \in 1..Len(fs) : Append(fs, f)[j] = fs[j]
  BY <1>1
<1> QED BY <1>2, <1>3, <1>4 DEF IsOpened

IsTurned(fs, w, k, gs, n) ==
    /\ n = Len(fs) /\ gs \in Seq(Frame) /\ Len(gs) = n /\ n >= 1 /\ \A j \in 1..n - 1 : gs[j] = fs[j]
    /\ gs[n].s = w /\ gs[n].at = fs[n].at /\ gs[n].hole = k /\ gs[n].loop = fs[n].loop
    /\ gs[n].nest = fs[n].nest /\ gs[n].sp = (IF w = "WHILE" THEN fs[n].sp + 1 ELSE fs[n].sp)
LEMMA TurnedIs == ASSUME NEW fs \in Seq(Frame), fs # <<>>, NEW w \in {"ELSE", "WHILE"}, NEW k \in Nat
                  PROVE  IsTurned(fs, w, k, Turned(fs, w, k), Len(fs))
<1> DEFINE n == Len(fs)
           f == TurnedTop(fs[n], w, k)
<1>1. n \in Nat /\ n >= 1 /\ fs[n] \in Frame
  OBVIOUS
<1>2. f \in Frame
  BY <1>1, SMTT(30) DEF TurnedTop, Frame, Structures
<1>3. /\ f.s = w /\ f.at = fs[n].at /\ f.hole = k /\ f.loop = fs[n].loop
      /\ f.nest = fs[n].nest /\ f.sp = (IF w = "WHILE" THEN fs[n].sp + 1 ELSE fs[n].sp)
  BY DEF TurnedTop
<1>4. Turned(fs, w, k) = [fs EXCEPT ![n] = f]
  BY DEF Turned
<1> HIDE DEF f
<1>5. /\ [fs EXCEPT ![n] = f] \in Seq(Frame) /\ Len([fs EXCEPT ![n] = f]) = n /\ [fs EXCEPT ![n] = f][n] = f
      /\ \A j \in 1..n - 1 : [fs EXCEPT ![n] = f][j] = fs[j]
  BY <1>1, <1>2
<1> QED BY <1>1, <1>3, <1>4, <1>5 DEF IsTurned

IsDropped(fs, gs) ==
    gs \in Seq(Frame) /\ Len(fs) \in Nat /\ Len(fs) >= 1 /\ Len(gs) = Len(fs) - 1 /\ \A j \in 1..Len(gs) : gs[j] = fs[j]
LEMMA DroppedIs == ASSUME NEW fs \in Seq(Frame), fs # <<>> PROVE IsDropped(fs, Dropped(fs))
<1>1. Len(fs) \in Nat /\ Len(fs) >= 1
  OBVIOUS
<1>2. Len(fs) - 1 \in 0..Len(fs)
  BY <1>1
<1>3. \A i \in 1..Len(fs) - 1 : fs[i] \in Frame
  BY <1>1
<1>4. PICK n \in Nat : n = Len(fs) - 1
  BY <1>1
<1>5. /\ SubSeq(fs, 1, n) \in Seq(Frame) /\ Len(SubSeq(fs, 1, n)) = IF 1 <= n THEN n - 1 + 1 ELSE 0
      /\ \A i \in 1..n - 1 + 1 : SubSeq(fs, 1, n)[i] = fs[1 + i - 1]
  <2>1. \A i \in 1..n : fs[i] \in Frame
    BY <1>3, <1>4
  <2>2. n \in Int /\ 1 \in Int
    OBVIOUS
  <2> QED BY <2>1, <2>2, SubSeqProperties
<1>6. Len(SubSeq(fs, 1, n)) = n
  BY <1>5
<1>7. \A i \in 1..n : SubSeq(fs, 1, n)[i] = fs[i]
  BY <1>5
<1> QED BY <1>1, <1>4, <1>5, <1>6, <1>7 DEF Dropped, IsDropped
\* The history h of the words ws goes on to h2 with a word w that leaves gs open.
Grows(h, ws, w, gs, h2, ws2) ==
    /\ ws \in Seq(WordRecord) /\ ws2 \in Seq(WordRecord) /\ Len(ws2) = Len(ws) + 1
    /\ \A x \in 1..Len(ws) : ws2[x] = ws[x]
    /\ ws2[Len(ws) + 1].word = w /\ ws2[Len(ws) + 1].deep = Len(gs)
    /\ h2 \in [1..Len(ws) + 2 -> Seq(Frame)] /\ \A k \in 1..Len(ws) + 1 : h2[k] = h[k]
    /\ h2[Len(ws) + 2] = gs
    /\ History(h, ws) /\ After(h[Len(ws) + 1], w, Len(ws) + 1, gs)

LEMMA GrowsFacts ==
    ASSUME NEW h, NEW ws, NEW w, NEW gs, NEW h2, NEW ws2, Grows(h, ws, w, gs, h2, ws2), NEW L, L = Len(ws) + 1
    PROVE  /\ L \in Nat /\ L >= 1 /\ Len(ws) = L - 1 /\ Len(ws2) = L /\ \A x \in 1..L - 1 : ws2[x] = ws[x]
           /\ ws2[L].word = w /\ ws2[L].deep = Len(gs) /\ \A k \in 1..L : h2[k] = h[k]
           /\ h2[L + 1] = gs /\ h[L] \in Seq(Frame) /\ gs \in Seq(Frame) /\ h2 \in [1..L + 1 -> Seq(Frame)]
           /\ StackSound(h, ws, L) /\ After(h[L], w, L, gs) /\ History(h, ws)
<1>1. Len(ws) \in Nat /\ ws \in Seq(WordRecord)
  BY DEF Grows
<1>2. L \in Nat /\ L >= 1 /\ Len(ws) = L - 1 /\ Len(ws) + 2 = L + 1 /\ L \in 1..L /\ L + 1 \in 1..L + 1
  BY <1>1
<1>3. /\ Len(ws2) = L /\ (\A x \in 1..L - 1 : ws2[x] = ws[x]) /\ ws2[L].word = w /\ ws2[L].deep = Len(gs)
      /\ h2 \in [1..L + 1 -> Seq(Frame)] /\ (\A k \in 1..L : h2[k] = h[k]) /\ h2[L + 1] = gs
      /\ History(h, ws) /\ After(h[L], w, L, gs)
  BY <1>2 DEF Grows
<1>4. h \in [1..L -> Seq(Frame)] /\ StackSound(h, ws, L)
  BY <1>2, <1>3 DEF History
<1>5. h[L] \in Seq(Frame) /\ gs \in Seq(Frame)
  BY <1>2, <1>3, <1>4
<1> QED BY <1>2, <1>3, <1>4, <1>5

LEMMA NotLast == ASSUME NEW L \in Nat, NEW a \in Nat, NEW t \in a + 1..L + 1, t # L + 1 PROVE t \in a + 1..L /\ t \in 1..L
OBVIOUS
\* A structure that stays as it was is sound, and has been there still longer.
LEMMA OldFrame ==
    ASSUME NEW h, NEW ws, NEW w, NEW gs, NEW h2, NEW ws2, Grows(h, ws, w, gs, h2, ws2),
           NEW L, L = Len(ws) + 1, NEW j \in 1..Len(h[L]), j <= Len(gs), gs[j] = h[L][j]
    PROVE  FrameSound(ws2, gs, L + 1, j) /\ Since(h2, L + 1, j)
<1>1. /\ L \in Nat /\ L >= 1 /\ Len(ws) = L - 1 /\ \A x \in 1..L - 1 : ws2[x] = ws[x]
      /\ \A k \in 1..L : h2[k] = h[k]
      /\ h2[L + 1] = gs /\ StackSound(h, ws, L) /\ h[L] \in Seq(Frame) /\ gs \in Seq(Frame)
  BY GrowsFacts
<1>2. FrameSound(ws, h[L], L, j) /\ Since(h, L, j) /\ h[L][j] \in Frame
  BY <1>1 DEF StackSound, SoundAt
<1>3. h[L][j].at \in Nat /\ h[L][j].hole \in Nat /\ h[L][j].at \in 1..L - 1
  BY <1>2, FrameFields DEF FrameSound
<1>4. FrameSound(ws2, gs, L + 1, j)
  <2>1. ws2[h[L][j].at] = ws[h[L][j].at]
    BY <1>1, <1>3
  <2>2. h[L][j].s \in {"ELSE", "WHILE"} => ws2[h[L][j].hole] = ws[h[L][j].hole]
    BY <1>1, <1>2, <1>3 DEF FrameSound
  <2>3. \A n \in Nat, m \in Nat : n \in m..L - 1 => n \in m..(L + 1) - 1
    BY <1>1
  <2> QED BY <1>2, <1>3, <2>1, <2>2, <2>3, <1>1 DEF FrameSound
<1>5. Since(h2, L + 1, j)
  <2>1. ASSUME NEW t \in h[L][j].at + 1..L + 1
        PROVE  j <= Len(h2[t]) /\ h2[t][j].at = gs[j].at /\ h2[t][j].nest = gs[j].nest /\ h2[t][j].loop = gs[j].loop
    <3>1. CASE t = L + 1
      BY <3>1, <1>1
    <3>2. CASE t # L + 1
      <4>1. PICK a \in Nat : a = h[L][j].at
        BY <1>3
      <4>2. t \in a + 1..L /\ t \in 1..L
        BY ONLY <3>2, <4>1, a \in Nat, <1>1, t \in h[L][j].at + 1..L + 1, NotLast
      <4> QED BY <4>1, <4>2, <1>1, <1>2 DEF Since
    <3> QED BY <3>1, <3>2
  <2>2. ASSUME h[L][j].hole # 0, NEW t \in h[L][j].hole + 1..L + 1
        PROVE  h2[t][j].hole = gs[j].hole
    <3>1. CASE t = L + 1
      BY <3>1, <1>1
    <3>2. CASE t # L + 1
      <4>1. PICK a \in Nat : a = h[L][j].hole
        BY <1>3
      <4>2. t \in a + 1..L /\ t \in 1..L
        BY ONLY <3>2, <4>1, a \in Nat, <1>1, t \in h[L][j].hole + 1..L + 1, NotLast
      <4> QED BY <4>1, <4>2, <1>1, <1>2, <2>2 DEF Since
    <3> QED BY <3>1, <3>2
  <2> QED BY <2>1, <2>2, <1>1 DEF Since
<1> QED BY <1>4, <1>5

LEMMA OldPair == ASSUME NEW fs, NEW gs, NEW i, NEW j, FramesSound(fs, i, j), gs[i] = fs[i], gs[j] = fs[j]
                 PROVE  FramesSound(gs, i, j)
BY DEF FramesSound
LEMMA OldLoop == ASSUME NEW fs, NEW gs, NEW j \in Nat, LoopSound(fs, j), \A i \in 1..j : gs[i] = fs[i], j >= 1
                 PROVE  LoopSound(gs, j)
<1>1. gs[j] = fs[j]
  OBVIOUS
<1> QED BY <1>1 DEF LoopSound
LEMMA OldBelow == ASSUME NEW fs, NEW gs, NEW j \in Nat, BelowSound(fs, j), \A i \in 1..j : gs[i] = fs[i], j >= 1
                  PROVE  BelowSound(gs, j)
<1>1. gs[j] = fs[j] /\ (j > 1 => gs[j - 1] = fs[j - 1])
  OBVIOUS
<1> QED BY <1>1 DEF BelowSound

\* The structures that stay, below what is changed.
LEMMA OldFrames ==
    ASSUME NEW h, NEW ws, NEW w, NEW gs, NEW h2, NEW ws2, Grows(h, ws, w, gs, h2, ws2),
           NEW L, L = Len(ws) + 1, NEW n \in 0..Len(h[L]), n <= Len(gs), \A i \in 1..n : gs[i] = h[L][i]
    PROVE  \A j \in 1..n : SoundAt(h2, ws2, L + 1, j)
<1>1. /\ h2[L + 1] = gs /\ StackSound(h, ws, L) /\ L \in Nat /\ h[L] \in Seq(Frame) /\ gs \in Seq(Frame)
  BY GrowsFacts
<1> TAKE j \in 1..n
<1>2. j \in 1..Len(h[L]) /\ j <= Len(gs) /\ j \in Nat /\ j >= 1 /\ gs[j] = h[L][j] /\ \A i \in 1..j : gs[i] = h[L][i]
  BY <1>1
<1>3. FrameSound(ws2, gs, L + 1, j) /\ Since(h2, L + 1, j)
  BY <1>2, OldFrame
<1>4. LoopSound(h[L], j) /\ BelowSound(h[L], j) /\ \A i \in 1..j - 1 : FramesSound(h[L], i, j)
  BY <1>1, <1>2 DEF StackSound, SoundAt
<1>5. LoopSound(gs, j) /\ BelowSound(gs, j)
  BY <1>2, <1>4, OldLoop, OldBelow
<1>6. \A i \in 1..j - 1 : FramesSound(gs, i, j)
  <2> TAKE i \in 1..j - 1
  <2>1. gs[i] = h[L][i] /\ FramesSound(h[L], i, j)
    BY <1>2, <1>4
  <2> QED BY <2>1, <1>2, OldPair
<1> QED BY <1>1, <1>3, <1>5, <1>6 DEF SoundAt
\* The innermost structure tells the loop, and the count of loops and of addresses, of all of them.
LEMMA InnermostTells ==
    ASSUME NEW h, NEW ws, NEW L, h[L] \in Seq(Frame), StackSound(h, ws, L)
    PROVE  /\ LoopOf(h[L]) # 0 <=> NestOf(h[L]) # 0
           /\ \A i \in 1..Len(h[L]) : /\ h[L][i].nest <= NestOf(h[L]) /\ h[L][i].sp <= SpOf(h[L])
                                      /\ h[L][i].s = "DO" => h[L][i].at <= LoopOf(h[L])
           /\ LoopOf(h[L]) # 0 => \E i \in 1..Len(h[L]) : /\ h[L][i].s = "DO" /\ h[L][i].at = LoopOf(h[L])
                                                          /\ h[L][i].nest = NestOf(h[L])
<1> DEFINE fs == h[L]
           n == Len(fs)
<1>1. CASE fs = <<>>
  BY <1>1 DEF LoopOf, NestOf
<1>2. CASE fs # <<>>
  <2>1. n \in Nat /\ n >= 1 /\ LoopOf(fs) = fs[n].loop /\ NestOf(fs) = fs[n].nest /\ SpOf(fs) = fs[n].sp /\ n \in 1..n
    BY <1>2 DEF LoopOf, NestOf, SpOf
  <2>2. FrameSound(ws, fs, L, n) /\ LoopSound(fs, n) /\ \A i \in 1..n - 1 : FramesSound(fs, i, n)
    BY <2>1 DEF StackSound, SoundAt
  <2>3. \A i \in 1..n : fs[i] \in Frame /\ fs[i].nest \in Nat /\ fs[i].sp \in Nat /\ fs[i].at \in Nat /\ fs[i].loop \in Nat
    BY <2>1, StackFields, FrameFields
  <2>4. Weight(fs[n].s) \in Nat /\ Kept(fs[n].s) \in Nat
    BY DEF Weight, Kept
  <2>5. ASSUME NEW i \in 1..n
        PROVE  fs[i].nest <= fs[n].nest /\ fs[i].sp <= fs[n].sp /\ (fs[i].s = "DO" => fs[i].at <= fs[n].loop)
    <3>1. CASE i = n
      <4>1. fs[n].s = "DO" => fs[n].loop = fs[n].at
        BY <2>2 DEF FrameSound
      <4> QED BY <3>1, <4>1, <2>3
    <3>2. CASE i # n
      <4>1. i \in 1..n - 1
        BY <3>2, <2>1
      <4>2. fs[i].nest + Weight(fs[n].s) <= fs[n].nest /\ fs[i].sp + Kept(fs[n].s) <= fs[n].sp
            /\ (fs[i].s = "DO" => fs[i].at <= fs[n].loop)
        BY <4>1, <2>2 DEF FramesSound
      <4>3. fs[i].nest \in Nat /\ fs[i].sp \in Nat /\ fs[n].nest \in Nat /\ fs[n].sp \in Nat
        BY <2>1, <2>3
      <4> QED BY <4>2, <4>3, <2>4
    <3> QED BY <3>1, <3>2
  <2>6. fs[n].loop # 0 <=> fs[n].nest # 0
    BY <2>2 DEF FrameSound
  <2>7. fs[n].loop # 0 => \E i \in 1..n : fs[i].s = "DO" /\ fs[i].at = fs[n].loop /\ fs[i].nest = fs[n].nest
    BY <2>2 DEF LoopSound
  <2> HIDE DEF n
  <2>8. LoopOf(fs) # 0 <=> NestOf(fs) # 0
    BY <2>1, <2>6
  <2>9. \A i \in 1..n : fs[i].nest <= NestOf(fs) /\ fs[i].sp <= SpOf(fs) /\ (fs[i].s = "DO" => fs[i].at <= LoopOf(fs))
    BY <2>1, <2>5
  <2>10. LoopOf(fs) # 0 => \E i \in 1..n : fs[i].s = "DO" /\ fs[i].at = LoopOf(fs) /\ fs[i].nest = NestOf(fs)
    BY <2>1, <2>7
  <2> QED BY <2>8, <2>9, <2>10 DEF n
<1> QED BY <1>1, <1>2

LEMMA OpenSound ==
    ASSUME NEW h, NEW ws, NEW w \in Openers, NEW gs, NEW h2, NEW ws2, Grows(h, ws, w, gs, h2, ws2),
           NEW L, L = Len(ws) + 1, NEW fs, fs = h[L], gs = Opened(fs, w, L), NEW n, n = Len(fs) + 1
    PROVE  StackSound(h2, ws2, L + 1)
<1>1. /\ L \in Nat /\ L >= 1 /\ ws2[L].word = w /\ ws2[L].deep = Len(gs) /\ h2[L + 1] = gs /\ fs \in Seq(Frame)
      /\ StackSound(h, ws, L)
  BY GrowsFacts
<1>2. /\ gs \in Seq(Frame) /\ Len(gs) = n /\ \A j \in 1..Len(fs) : gs[j] = fs[j]
      /\ gs[n].s = w /\ gs[n].at = L /\ gs[n].hole = (IF w = "IF" THEN L ELSE 0)
      /\ gs[n].loop = (IF w = "DO" THEN L ELSE LoopOf(fs))
      /\ gs[n].nest = NestOf(fs) + Weight(w) /\ gs[n].sp = SpOf(fs) + 1
  <2>1. IsOpened(fs, w, L, gs, n)
    BY <1>1, OpenedIs
  <2> QED BY <2>1 DEF IsOpened
<1>3. Len(fs) \in 0..Len(fs) /\ Len(fs) <= Len(gs) /\ Len(fs) \in Nat /\ n \in Nat /\ n >= 1 /\ n - 1 = Len(fs)
  <2>1. Len(fs) \in Nat /\ n \in Nat /\ n >= 1 /\ n - 1 = Len(fs) /\ Len(fs) \in 0..Len(fs) /\ Len(fs) <= n
    <3>1. fs \in Seq(Frame)
      BY <1>1
    <3> QED BY <3>1
  <2> QED BY <2>1, <1>2
<1>4. \A j \in 1..Len(fs) : SoundAt(h2, ws2, L + 1, j)
  <2>1. PICK m \in 0..Len(h[L]) : m = Len(fs)
    BY <1>3
  <2>2. /\ Grows(h, ws, w, gs, h2, ws2) /\ L = Len(ws) + 1 /\ m \in 0..Len(h[L]) /\ m <= Len(gs)
        /\ \A i \in 1..m : gs[i] = h[L][i]
    BY <2>1, <1>2, <1>3
  <2>3. \A j \in 1..m : SoundAt(h2, ws2, L + 1, j)
    BY ONLY <2>2, OldFrames
  <2> QED BY <2>1, <2>3
<1>5. /\ LoopOf(fs) \in Nat /\ NestOf(fs) \in Nat /\ SpOf(fs) \in Nat
      /\ \A i \in 1..Len(fs) : fs[i] \in Frame
  <2>1. fs \in Seq(Frame)
    BY <1>1
  <2> QED BY <2>1, StackFields
<1>6. /\ LoopOf(fs) # 0 <=> NestOf(fs) # 0
      /\ \A i \in 1..Len(fs) : /\ fs[i].nest <= NestOf(fs) /\ fs[i].sp <= SpOf(fs)
                               /\ fs[i].s = "DO" => fs[i].at <= LoopOf(fs)
      /\ LoopOf(fs) # 0 => \E i \in 1..Len(fs) : fs[i].s = "DO" /\ fs[i].at = LoopOf(fs) /\ fs[i].nest = NestOf(fs)
  BY <1>1, InnermostTells
<1>12. Weight(w) \in Nat
  BY DEF Weight
<1>7. w \in {"IF", "BEGIN", "DO"} /\ Weight(w) = (IF w = "DO" THEN 1 ELSE 0) /\ Kept(w) = 1 /\ OpenerOf(w) = w
  BY DEF Openers, Weight, Kept, OpenerOf
<1>8. FrameSound(ws2, gs, L + 1, n)
  <2>1. gs[n].at \in 1..(L + 1) - 1 /\ ws2[gs[n].at].word = OpenerOf(gs[n].s) /\ ws2[gs[n].at].deep = n
    BY <1>1, <1>2, <1>7
  <2>2. /\ gs[n].s \in {"BEGIN", "DO"} => gs[n].hole = 0
        /\ gs[n].s = "IF" => gs[n].hole = gs[n].at
        /\ gs[n].s \notin {"ELSE", "WHILE"}
        /\ gs[n].s = "DO" => gs[n].loop = gs[n].at
    BY <1>2, <1>7
  <2>3. gs[n].sp >= Kept(gs[n].s)
    BY <1>2, <1>5, <1>7
  <2>4. gs[n].loop # 0 <=> gs[n].nest # 0
    BY <1>1, <1>2, <1>5, <1>6, <1>7, SMTT(30)
  <2> QED BY <2>1, <2>2, <2>3, <2>4 DEF FrameSound
<1>9. LoopSound(gs, n)
  <2>1. CASE w = "DO"
    BY <2>1, <1>2, <1>3 DEF LoopSound
  <2>2. CASE w # "DO"
    <3> SUFFICES ASSUME gs[n].loop # 0
                 PROVE  \E i \in 1..n : gs[i].s = "DO" /\ gs[i].at = gs[n].loop /\ gs[i].nest = gs[n].nest
      BY DEF LoopSound
    <3>1. PICK i \in 1..Len(fs) : fs[i].s = "DO" /\ fs[i].at = LoopOf(fs) /\ fs[i].nest = NestOf(fs)
      BY <2>2, <1>2, <1>6
    <3>2. gs[i] = fs[i] /\ i \in 1..n
      BY <1>2, <1>3
    <3>3. gs[n].nest = NestOf(fs)
      BY <2>2, <1>2, <1>5, <1>7
    <3> QED BY <3>1, <3>2, <3>3, <2>2, <1>2
  <2> QED BY <2>1, <2>2
<1>10. Since(h2, L + 1, n)
  <2>1. ASSUME NEW t \in gs[n].at + 1..L + 1 PROVE t = L + 1
    BY <1>1, <1>2
  <2>2. ASSUME gs[n].hole # 0, NEW t \in gs[n].hole + 1..L + 1 PROVE t = L + 1
    BY <2>2, <1>1, <1>2
  <2> QED BY <2>1, <2>2, <1>1, <1>2, <1>3 DEF Since
<1>11. \A i \in 1..n - 1 : FramesSound(gs, i, n)
  <2> TAKE i \in 1..n - 1
  <2>1. i \in 1..Len(fs) /\ gs[i] = fs[i] /\ fs[i] \in Frame
    BY <1>2, <1>3, <1>5
  <2>2. FrameSound(ws, fs, L, i)
    BY <2>1, <1>1 DEF StackSound, SoundAt
  <2>3. fs[i].at \in 1..L - 1 /\ fs[i].hole < L /\ fs[i].nest \in Nat /\ fs[i].sp \in Nat
    <3>1. fs[i].at \in Nat /\ fs[i].s \in Structures
      BY <2>1, FrameFields
    <3> QED BY <3>1, <2>1, <2>2, <1>1, FrameFields DEF FrameSound, Structures
  <2>4. gs[i].at < gs[n].at /\ gs[i].hole < gs[n].at
    BY <2>1, <2>3, <1>1, <1>2
  <2>5. gs[i].nest + Weight(gs[n].s) <= gs[n].nest
    <3>1. fs[i].nest <= NestOf(fs)
      BY <2>1, <1>6
    <3>2. gs[i].nest = fs[i].nest /\ gs[n].nest = NestOf(fs) + Weight(w) /\ gs[n].s = w
      BY <2>1, <1>2
    <3> QED BY <3>1, <3>2, <2>3, <1>5, <1>12, SMTT(30)
  <2>6. gs[i].sp + Kept(gs[n].s) <= gs[n].sp
    <3>1. fs[i].sp <= SpOf(fs)
      BY <2>1, <1>6
    <3>2. gs[i].sp = fs[i].sp /\ gs[n].sp = SpOf(fs) + 1 /\ Kept(gs[n].s) = 1
      BY <2>1, <1>2, <1>7
    <3> QED BY <3>1, <3>2, <2>3, <1>5
  <2>7. gs[i].s = "DO" => gs[i].at <= gs[n].loop
    BY <2>1, <2>3, <1>1, <1>2, <1>6
  <2> QED BY <2>4, <2>5, <2>6, <2>7 DEF FramesSound
<1>13. BelowSound(gs, n)
  <2>1. CASE n = 1
    <3>1. fs = <<>>
      BY <2>1, <1>1, <1>3
    <3>2. NestOf(fs) = 0 /\ SpOf(fs) = 0
      BY <3>1 DEF NestOf, SpOf
    <3> QED BY <2>1, <3>2, <1>2, <1>7, <1>12 DEF BelowSound
  <2>2. CASE n > 1
    <3>1. fs # <<>> /\ gs[n - 1] = fs[n - 1] /\ n - 1 = Len(fs)
      BY <2>2, <1>2, <1>3
    <3>2. NestOf(fs) = gs[n - 1].nest /\ SpOf(fs) = gs[n - 1].sp
      BY <3>1 DEF NestOf, SpOf
    <3> QED BY <2>2, <3>2, <1>2, <1>7 DEF BelowSound
  <2> QED BY <2>1, <2>2, <1>3
<1> QED
  <2> SUFFICES ASSUME NEW j \in 1..Len(h2[L + 1])
               PROVE  SoundAt(h2, ws2, L + 1, j)
    BY DEF StackSound
  <2>1. CASE j = n
    BY <2>1, <1>1, <1>8, <1>9, <1>10, <1>11, <1>13 DEF SoundAt
  <2>2. CASE j # n
    <3>1. j \in 1..Len(fs)
      BY <2>2, <1>1, <1>2, <1>3
    <3> QED BY <3>1, <1>4
  <2> QED BY <2>1, <2>2
LEMMA TurnSound ==
    ASSUME NEW h, NEW ws, NEW w \in {"ELSE", "WHILE"}, NEW gs, NEW h2, NEW ws2, Grows(h, ws, w, gs, h2, ws2),
           NEW L, L = Len(ws) + 1, NEW fs, fs = h[L], fs # <<>>, TopOf(fs).s \in Needs(w), gs = Turned(fs, w, L),
           NEW n, n = Len(fs)
    PROVE  StackSound(h2, ws2, L + 1)
<1>1. /\ L \in Nat /\ L >= 1 /\ ws2[L].word = w /\ ws2[L].deep = Len(gs) /\ h2[L + 1] = gs /\ fs \in Seq(Frame)
      /\ StackSound(h, ws, L) /\ \A k \in 1..L : h2[k] = h[k]
  BY GrowsFacts
<1>2. /\ gs \in Seq(Frame) /\ Len(gs) = n /\ n >= 1 /\ n \in Nat /\ \A j \in 1..n - 1 : gs[j] = fs[j]
      /\ gs[n].s = w /\ gs[n].at = fs[n].at /\ gs[n].hole = L /\ gs[n].loop = fs[n].loop
      /\ gs[n].nest = fs[n].nest /\ gs[n].sp = (IF w = "WHILE" THEN fs[n].sp + 1 ELSE fs[n].sp)
  <2>1. IsTurned(fs, w, L, gs, n)
    BY <1>1, TurnedIs
  <2> QED BY <2>1 DEF IsTurned
<1>3. fs[n] \in Frame /\ FrameSound(ws, fs, L, n) /\ LoopSound(fs, n) /\ BelowSound(fs, n) /\ Since(h, L, n) /\ \A i \in 1..n - 1 : FramesSound(fs, i, n)
  BY <1>1, <1>2 DEF StackSound, SoundAt
<1>4. \A j \in 1..n - 1 : SoundAt(h2, ws2, L + 1, j)
  <2>1. PICK m \in Nat : m = n - 1
    <3>1. n \in Nat /\ n >= 1
      BY <1>2
    <3> QED BY <3>1
  <2>2. /\ Grows(h, ws, w, gs, h2, ws2) /\ L = Len(ws) + 1 /\ m \in 0..Len(h[L]) /\ m <= Len(gs)
        /\ \A i \in 1..m : gs[i] = h[L][i]
    BY <2>1, <1>1, <1>2
  <2>3. \A j \in 1..m : SoundAt(h2, ws2, L + 1, j)
    BY ONLY <2>2, OldFrames
  <2> QED BY <2>1, <2>3
<1>5. fs[n].s = (IF w = "ELSE" THEN "IF" ELSE "BEGIN")
  BY DEF Needs, TopOf, LoopEnds
<1>6. fs[n].at \in 1..L - 1 /\ fs[n].at \in Nat /\ fs[n].sp \in Nat /\ fs[n].nest \in Nat /\ fs[n].loop \in Nat
  <2>1. fs[n].at \in 1..L - 1
    BY <1>3 DEF FrameSound
  <2>2. fs[n] \in Frame
    BY <1>3
  <2> QED BY <2>1, <2>2, FrameFields
<1>7. FrameSound(ws2, gs, L + 1, n)
  <2>1. ws2[fs[n].at] = ws[fs[n].at]
    BY <1>6, GrowsFacts, SMTT(30)
  <2>2. gs[n].at \in 1..(L + 1) - 1 /\ ws2[gs[n].at].word = OpenerOf(gs[n].s) /\ ws2[gs[n].at].deep = n
    BY <2>1, <1>1, <1>2, <1>3, <1>5, <1>6 DEF FrameSound, OpenerOf
  <2>3. gs[n].s \in {"ELSE", "WHILE"} /\ gs[n].hole \in gs[n].at + 1..(L + 1) - 1 /\ ws2[gs[n].hole].word = gs[n].s
    BY <1>1, <1>2, <1>6
  <2>4. gs[n].sp >= Kept(gs[n].s)
    <3>1. fs[n].sp >= 1
      BY <1>3, <1>5, <1>6 DEF FrameSound, Kept
    <3> QED BY <3>1, <1>2, <1>6 DEF Kept
  <2>5. gs[n].loop # 0 <=> gs[n].nest # 0
    BY <1>2, <1>3 DEF FrameSound
  <2> QED BY <2>2, <2>3, <2>4, <2>5 DEF FrameSound
<1>8. LoopSound(gs, n)
  <2> SUFFICES ASSUME gs[n].loop # 0
               PROVE  \E i \in 1..n : gs[i].s = "DO" /\ gs[i].at = gs[n].loop /\ gs[i].nest = gs[n].nest
    BY DEF LoopSound
  <2>1. PICK i \in 1..n : fs[i].s = "DO" /\ fs[i].at = fs[n].loop /\ fs[i].nest = fs[n].nest
    BY <1>2, <1>3 DEF LoopSound
  <2>2. i \in 1..n - 1
    BY <2>1, <1>2, <1>5
  <2> QED BY <2>1, <2>2, <1>2
<1>9. Since(h2, L + 1, n)
  <2>1. ASSUME NEW t \in gs[n].at + 1..L + 1
        PROVE  n <= Len(h2[t]) /\ h2[t][n].at = gs[n].at /\ h2[t][n].nest = gs[n].nest /\ h2[t][n].loop = gs[n].loop
    <3>1. CASE t = L + 1
      BY <3>1, <1>1, <1>2
    <3>2. CASE t # L + 1
      <4>1. t \in fs[n].at + 1..L /\ t \in 1..L
        BY <3>2, <2>1, <1>1, <1>2, <1>6
      <4>2. n <= Len(h[t]) /\ h[t][n].at = fs[n].at /\ h[t][n].nest = fs[n].nest /\ h[t][n].loop = fs[n].loop
        BY <4>1, <1>3 DEF Since
      <4> QED BY <4>1, <4>2, <1>1, <1>2
    <3> QED BY <3>1, <3>2
  <2>2. ASSUME NEW t \in gs[n].hole + 1..L + 1 PROVE h2[t][n].hole = gs[n].hole
    <3>1. t = L + 1
      BY <2>2, <1>1, <1>2
    <3> QED BY <3>1, <1>1
  <2> QED BY <2>1, <2>2, <1>1 DEF Since
<1>10. \A i \in 1..n - 1 : FramesSound(gs, i, n)
  <2> TAKE i \in 1..n - 1
  <2>1. gs[i] = fs[i] /\ fs[i] \in Frame /\ FramesSound(fs, i, n)
    BY <1>1, <1>2, <1>3
  <2>2. fs[i].at < fs[n].at /\ fs[i].hole < fs[n].at /\ (fs[i].s = "DO" => fs[i].at <= fs[n].loop)
    BY <2>1 DEF FramesSound
  <2>3. fs[i].nest + Weight(fs[n].s) <= fs[n].nest /\ fs[i].sp + Kept(fs[n].s) <= fs[n].sp
    BY <2>1 DEF FramesSound
  <2>4. fs[i].nest \in Nat /\ fs[i].sp \in Nat
    BY <2>1, FrameFields
  <2>5. gs[i].nest + Weight(gs[n].s) <= gs[n].nest
    BY <2>1, <2>3, <2>4, <1>2, <1>5, <1>6 DEF Weight
  <2>6. gs[i].sp + Kept(gs[n].s) <= gs[n].sp
    <3>1. gs[i].sp = fs[i].sp /\ gs[n].s = w /\ fs[i].sp + Kept(fs[n].s) <= fs[n].sp
      BY <2>1, <2>3, <1>2
    <3>2. CASE w = "ELSE"
      <4>1. Kept(gs[n].s) = 1 /\ Kept(fs[n].s) = 1 /\ gs[n].sp = fs[n].sp
        BY <3>1, <3>2, <1>2, <1>5 DEF Kept
      <4> QED BY <3>1, <4>1
    <3>3. CASE w = "WHILE"
      <4>1. Kept(gs[n].s) = 2
        BY <3>1, <3>3 DEF Kept
      <4>2. fs[n].s = "BEGIN"
        BY <3>3, <1>5
      <4>3. Kept(fs[n].s) = 1
        BY <4>2 DEF Kept
      <4>4. gs[n].sp = fs[n].sp + 1
        BY <3>3, <1>2
      <4>5. fs[i].sp \in Nat /\ fs[n].sp \in Nat
        BY <2>4, <1>6
      <4> QED BY <3>1, <4>1, <4>3, <4>4, <4>5, SMTT(30)
    <3> QED BY <3>2, <3>3
  <2> QED BY <2>1, <2>2, <2>5, <2>6, <1>2 DEF FramesSound
<1>11. BelowSound(gs, n)
  <2>1. Weight(gs[n].s) = Weight(fs[n].s) /\ Weight(gs[n].s) = 0
    BY <1>2, <1>5 DEF Weight
  <2>2. Kept(gs[n].s) = (IF w = "WHILE" THEN Kept(fs[n].s) + 1 ELSE Kept(fs[n].s)) /\ Kept(fs[n].s) \in Nat
    BY <1>2, <1>5 DEF Kept
  <2>3. CASE n = 1
    BY <2>1, <2>2, <2>3, <1>2, <1>3 DEF BelowSound
  <2>4. ASSUME n > 1 PROVE BelowSound(gs, n)
    <3>1. n - 1 \in 1..n - 1 /\ gs[n - 1] = fs[n - 1] /\ fs[n - 1] \in Frame
      BY <2>4, <1>1, <1>2, SMTT(30)
    <3>2. fs[n - 1].sp \in Nat
      BY <3>1, FrameFields
    <3>3. gs[n].nest = gs[n - 1].nest + Weight(gs[n].s)
      BY <2>1, <2>4, <3>1, <1>2, <1>3 DEF BelowSound
    <3>4. fs[n].sp = fs[n - 1].sp + Kept(fs[n].s)
      BY <2>4, <1>3 DEF BelowSound
    <3>5. gs[n].sp = gs[n - 1].sp + Kept(gs[n].s)
      <4>1. CASE w = "WHILE"
        <5>1. gs[n].sp = fs[n].sp + 1 /\ Kept(gs[n].s) = Kept(fs[n].s) + 1
          BY <4>1, <2>2, <1>2
        <5>2. gs[n - 1].sp = fs[n - 1].sp /\ Kept(fs[n].s) \in Nat
          BY <3>1, <2>2
        <5> QED BY <5>1, <5>2, <3>2, <3>4
      <4>2. CASE w # "WHILE"
        <5>1. gs[n].sp = fs[n].sp /\ Kept(gs[n].s) = Kept(fs[n].s)
          BY <4>2, <2>2, <1>2
        <5> QED BY <5>1, <3>1, <3>4
      <4> QED BY <4>1, <4>2
    <3> QED BY <2>4, <3>3, <3>5, <1>2 DEF BelowSound
  <2>5. n = 1 \/ n > 1
    <3>1. \A i \in Nat : i >= 1 => i = 1 \/ i > 1
      OBVIOUS
    <3> QED BY <3>1, <1>2
  <2> QED BY <2>3, <2>4, <2>5
<1> QED
  <2> SUFFICES ASSUME NEW j \in 1..Len(h2[L + 1]) PROVE SoundAt(h2, ws2, L + 1, j)
    BY DEF StackSound
  <2>1. CASE j = n
    BY <2>1, <1>1, <1>7, <1>8, <1>9, <1>10, <1>11 DEF SoundAt
  <2>2. CASE j # n
    <3>1. j \in 1..n - 1
      BY <2>2, <1>1, <1>2
    <3> QED BY <3>1, <1>4
  <2> QED BY <2>1, <2>2

LEMMA AfterSound ==
    ASSUME NEW h, NEW ws, NEW w, NEW gs, NEW h2, NEW ws2, Grows(h, ws, w, gs, h2, ws2), NEW L, L = Len(ws) + 1
    PROVE  StackSound(h2, ws2, L + 1)
<1>1. After(h[L], w, L, gs) /\ h[L] \in Seq(Frame) /\ h2[L + 1] = gs
  BY GrowsFacts
<1>2. CASE w \in Openers /\ gs = Opened(h[L], w, L)
  BY <1>2, OpenSound
<1>3. CASE w \in {"ELSE", "WHILE"} /\ h[L] # <<>> /\ TopOf(h[L]).s \in Needs(w) /\ gs = Turned(h[L], w, L)
  BY <1>3, TurnSound
<1>4. CASE w \in Closers /\ h[L] # <<>> /\ gs = Dropped(h[L])
  <2>1. IsDropped(h[L], gs)
    BY <1>1, <1>4, DroppedIs
  <2>2. Len(gs) \in 0..Len(h[L]) /\ Len(gs) <= Len(gs) /\ \A i \in 1..Len(gs) : gs[i] = h[L][i]
    BY <2>1 DEF IsDropped
  <2>3. \A j \in 1..Len(gs) : SoundAt(h2, ws2, L + 1, j)
    BY <2>2, OldFrames
  <2> QED BY <2>3, <1>1 DEF StackSound
<1>5. CASE gs = h[L]
  <2>1. Len(gs) \in 0..Len(h[L]) /\ Len(gs) <= Len(gs) /\ \A i \in 1..Len(gs) : gs[i] = h[L][i]
    BY <1>1, <1>5
  <2>2. \A j \in 1..Len(gs) : SoundAt(h2, ws2, L + 1, j)
    BY <2>1, OldFrames
  <2> QED BY <2>2, <1>1 DEF StackSound
<1> QED BY <1>1, <1>2, <1>3, <1>4, <1>5 DEF After
\* Nothing that was sound before an earlier word changes.
LEMMA EarlierSound ==
    ASSUME NEW h, NEW ws, NEW w, NEW gs, NEW h2, NEW ws2, Grows(h, ws, w, gs, h2, ws2), NEW L, L = Len(ws) + 1,
           NEW k \in 1..L
    PROVE  StackSound(h2, ws2, k)
<1>1. /\ L \in Nat /\ Len(ws) = L - 1 /\ \A x \in 1..L - 1 : ws2[x] = ws[x]
      /\ \A t \in 1..L : h2[t] = h[t]
      /\ History(h, ws)
  BY GrowsFacts
<1>2. StackSound(h, ws, k) /\ h2[k] = h[k] /\ h[k] \in Seq(Frame) /\ k \in Nat /\ k <= L
  BY <1>1 DEF History
<1> SUFFICES ASSUME NEW j \in 1..Len(h2[k]) PROVE SoundAt(h2, ws2, k, j)
  BY DEF StackSound
<1>3. SoundAt(h, ws, k, j) /\ h[k][j] \in Frame
  BY <1>2 DEF StackSound
<1>4. FrameSound(ws, h[k], k, j) /\ LoopSound(h[k], j) /\ BelowSound(h[k], j) /\ Since(h, k, j) /\ \A i \in 1..j - 1 : FramesSound(h[k], i, j)
  BY <1>3 DEF SoundAt
<1>5. h[k][j].at \in 1..k - 1
  BY <1>4 DEF FrameSound
<1>6. h[k][j].hole \in Nat /\ h[k][j].at \in Nat
  BY <1>3, FrameFields
<1>7. FrameSound(ws2, h2[k], k, j)
  <2>1. ws2[h[k][j].at] = ws[h[k][j].at]
    BY <1>1, <1>2, <1>5
  <2>2. ASSUME h[k][j].s \in {"ELSE", "WHILE"} PROVE ws2[h[k][j].hole] = ws[h[k][j].hole]
    <3>1. h[k][j].hole \in h[k][j].at + 1..k - 1
      BY <2>2, <1>4 DEF FrameSound
    <3>2. h[k][j].hole \in 1..L - 1
      BY <3>1, <1>1, <1>2, <1>5, <1>6, SMTT(30)
    <3> QED BY <3>2, <1>1
  <2> QED BY <2>1, <2>2, <1>2, <1>4 DEF FrameSound
<1>8. Since(h2, k, j)
  <2>1. ASSUME NEW t \in h[k][j].at + 1..k PROVE t \in 1..L
    BY <2>1, <1>1, <1>2, <1>5
  <2>2. ASSUME NEW t \in h[k][j].hole + 1..k PROVE t \in 1..L
    BY <2>2, <1>1, <1>2, <1>6
  <2> QED BY <2>1, <2>2, <1>1, <1>2, <1>4 DEF Since
<1> QED BY <1>2, <1>4, <1>7, <1>8 DEF SoundAt

\* An opening word is open still, or there is a word that ends it.
LEMMA OpenersEnd ==
    ASSUME NEW h, NEW ws, NEW w, NEW gs, NEW h2, NEW ws2, Grows(h, ws, w, gs, h2, ws2), NEW L, L = Len(ws) + 1,
           NEW l \in 1..L, ws2[l].word \in Openers
    PROVE  IsOpen(gs, l) \/ \E e \in l + 1..L : EndsAt(h2, ws2, l, e)
<1>1. /\ L \in Nat /\ L >= 1 /\ Len(ws) = L - 1 /\ \A x \in 1..L - 1 : ws2[x] = ws[x]
      /\ \A t \in 1..L : h2[t] = h[t]
      /\ History(h, ws) /\ ws2[L].word = w /\ After(h[L], w, L, gs) /\ h[L] \in Seq(Frame)
  BY GrowsFacts
<1>2. CASE l = L
  <2>1. w \in Openers /\ gs = Opened(h[L], w, L)
    BY <1>1, <1>2 DEF After, Openers, Closers, LoopEnds
  <2>2. IsOpened(h[L], w, L, gs, Len(h[L]) + 1)
    BY <1>1, <2>1, OpenedIs
  <2>3. Len(h[L]) + 1 \in 1..Len(gs) /\ gs[Len(h[L]) + 1].at = L
    BY <1>1, <2>2 DEF IsOpened
  <2> QED BY <2>3, <1>2 DEF IsOpen
<1>3. CASE l # L
  <2>1. l \in 1..L - 1 /\ ws[l].word \in Openers
    BY <1>1, <1>3
  <2>2. IsOpen(h[L], l) \/ \E e \in l + 1..L - 1 : EndsAt(h, ws, l, e)
    BY <2>1, <1>1 DEF History
  <2>3. CASE \E e \in l + 1..L - 1 : EndsAt(h, ws, l, e)
    <3>1. PICK e \in l + 1..L - 1 : EndsAt(h, ws, l, e)
      BY <2>3
    <3>2. e \in l + 1..L /\ e \in 1..L /\ e \in 1..L - 1
      BY <1>1
    <3>3. EndsAt(h2, ws2, l, e)
      BY <3>1, <3>2, <1>1 DEF EndsAt
    <3> QED BY <3>2, <3>3
  <2>4. CASE IsOpen(h[L], l)
    <3>1. PICK j \in 1..Len(h[L]) : h[L][j].at = l
      BY <2>4 DEF IsOpen
    <3>2. CASE w \in Openers /\ gs = Opened(h[L], w, L)
      <4>1. IsOpened(h[L], w, L, gs, Len(h[L]) + 1)
        BY <1>1, <3>2, OpenedIs
      <4>2. j \in 1..Len(gs) /\ gs[j].at = l
        BY <4>1, <3>1, <1>1 DEF IsOpened
      <4> QED BY <4>2 DEF IsOpen
    <3>3. CASE w \in {"ELSE", "WHILE"} /\ h[L] # <<>> /\ gs = Turned(h[L], w, L)
      <4>1. IsTurned(h[L], w, L, gs, Len(h[L]))
        BY <1>1, <3>3, TurnedIs
      <4>2. j \in 1..Len(gs) /\ gs[j].at = l
        BY <4>1, <3>1, <1>1 DEF IsTurned
      <4> QED BY <4>2 DEF IsOpen
    <3>4. CASE w \in Closers /\ h[L] # <<>> /\ gs = Dropped(h[L])
      <4>1. IsDropped(h[L], gs)
        BY <1>1, <3>4, DroppedIs
      <4>2. CASE j = Len(h[L])
        <5>1. EndsAt(h2, ws2, l, L) /\ L \in l + 1..L
          BY <4>2, <3>1, <3>4, <1>1, <2>1 DEF EndsAt, TopOf
        <5> QED BY <5>1
      <4>3. CASE j # Len(h[L])
        <5>1. j \in 1..Len(gs) /\ gs[j].at = l
          BY <4>1, <4>3, <3>1 DEF IsDropped
        <5> QED BY <5>1 DEF IsOpen
      <4> QED BY <4>2, <4>3
    <3>5. CASE gs = h[L]
      BY <3>5, <2>4
    <3> QED BY <1>1, <3>2, <3>3, <3>4, <3>5 DEF After
  <2> QED BY <2>2, <2>3, <2>4
<1> QED BY <1>2, <1>3

LEMMA HistoryGrows ==
    ASSUME NEW h, NEW ws, NEW w, NEW gs, NEW h2, NEW ws2, Grows(h, ws, w, gs, h2, ws2)
    PROVE  History(h2, ws2)
<1>1. PICK L : L = Len(ws) + 1
  OBVIOUS
<1>2. /\ L \in Nat /\ L >= 1 /\ Len(ws) = L - 1 /\ Len(ws2) = L /\ \A x \in 1..L - 1 : ws2[x] = ws[x]
      /\ ws2[L].word = w /\ ws2[L].deep = Len(gs) /\ \A t \in 1..L : h2[t] = h[t]
      /\ h2[L + 1] = gs /\ h2 \in [1..L + 1 -> Seq(Frame)]
      /\ History(h, ws) /\ After(h[L], w, L, gs)
  BY <1>1, GrowsFacts
<1>3. h2[1] = <<>>
  BY <1>2 DEF History
<1>4. ASSUME NEW k \in 1..L PROVE After(h2[k], ws2[k].word, k, h2[k + 1]) /\ ws2[k].deep = Len(h2[k + 1])
  <2>1. CASE k = L
    BY <2>1, <1>2
  <2>2. CASE k # L
    <3>1. k \in 1..L - 1 /\ k + 1 \in 1..L
      BY <2>2, <1>2
    <3>2. After(h[k], ws[k].word, k, h[k + 1]) /\ ws[k].deep = Len(h[k + 1])
      BY <3>1, <1>2 DEF History
    <3>3. h2[k] = h[k] /\ h2[k + 1] = h[k + 1] /\ ws2[k] = ws[k]
      BY <3>1, <1>2
    <3> QED BY <3>2, <3>3
  <2> QED BY <2>1, <2>2
<1>5. ASSUME NEW k \in 1..L + 1 PROVE StackSound(h2, ws2, k)
  <2>1. CASE k = L + 1
    BY <2>1, <1>1, AfterSound
  <2>2. CASE k # L + 1
    <3>1. k \in 1..L
      BY <2>2, <1>2
    <3> QED BY <3>1, <1>1, EarlierSound
  <2> QED BY <2>1, <2>2
<1>6. \A l \in 1..L : ws2[l].word \in Openers => IsOpen(h2[L + 1], l) \/ \E e \in l + 1..L : EndsAt(h2, ws2, l, e)
  BY <1>1, <1>2, OpenersEnd
<1> QED BY <1>2, <1>3, <1>4, <1>5, <1>6 DEF History
LEMMA WordFields == ASSUME NEW ws \in Seq(WordRecord), NEW x \in 1..Len(ws)
                    PROVE  ws[x].word \in Names /\ ws[x].code \in Nat /\ ws[x].deep \in Nat
<1>1. ws[x] \in WordRecord
  OBVIOUS
<1> QED BY <1>1 DEF WordRecord

Short == {"DO", ";"}
LEMMA ShortIs == ASSUME NEW w \in Short
                 PROVE  w \notin {"THEN", "BEGIN", "EXIT", "UNTIL", "REPEAT"} /\ w \notin LoopEnds /\ w \notin Forward
BY Zenon DEF Short, LoopEnds, Forward
LEMMA SizeIs ==
    ASSUME NEW w, NEW n \in Nat
    PROVE  /\ w \in {"THEN", "BEGIN"} => Size(w, n) = 0
           /\ w \in Short => Size(w, n) = 1
           /\ w = "EXIT" => Size(w, n) = 2 * n + 1
           /\ w \notin {"THEN", "BEGIN", "EXIT"} => Size(w, n) \in {1, 2}
           /\ w \in Forward \cup {"UNTIL", "REPEAT"} \cup LoopEnds => Size(w, n) = 2
           /\ Size(w, n) \in Nat
<1>1. ASSUME w \in {"THEN", "BEGIN"} PROVE Size(w, n) = 0
  BY <1>1 DEF Size
<1>2. ASSUME w \in Short PROVE Size(w, n) = 1
  BY <1>2, Zenon DEF Size, Short
<1>3. ASSUME w = "EXIT" PROVE Size(w, n) = 2 * n + 1
  BY <1>3 DEF Size
<1>4. ASSUME w \notin {"THEN", "BEGIN", "EXIT"} \cup Short PROVE Size(w, n) = 2
  BY <1>4, Zenon DEF Size, Short
<1>5. ASSUME w \in Forward \cup {"UNTIL", "REPEAT"} \cup LoopEnds PROVE Size(w, n) = 2
  <2>1. w \notin {"THEN", "BEGIN", "EXIT"} \cup Short
    BY <1>5, ShortIs DEF Forward, LoopEnds
  <2> QED BY <2>1, <1>4
<1>6. Size(w, n) \in Nat
  <2>1. 2 * n + 1 \in Nat
    OBVIOUS
  <2>2. Size(w, n) \in {0, 1, 2, 2 * n + 1}
    BY <1>1, <1>2, <1>3, <1>4
  <2> QED BY <2>1, <2>2
<1> QED BY <1>1, <1>2, <1>3, <1>4, <1>5, <1>6

\* A word's code lies inside the code, before the next word's.
LEMMA InTheCode ==
    ASSUME NEW h, NEW ws \in Seq(WordRecord), NEW cd \in Seq(Cell), History(h, ws), Laid(h, ws, cd), NEW k \in 1..Len(ws)
    PROVE  /\ ws[k].code \in Nat /\ ws[k].code >= 1 /\ Size(ws[k].word, NestOf(h[k])) \in Nat
           /\ ws[k].code + Size(ws[k].word, NestOf(h[k])) <= Len(cd) + 1
<1> DEFINE n == Len(ws)
           Sz(i) == Size(ws[i].word, NestOf(h[i]))
<1>1. n \in Nat /\ Len(cd) \in Nat /\ \A i \in 1..n : ws[i].code \in Nat /\ ws[i].word \in Names
  BY WordFields
<1>2. \A i \in 1..n : Sz(i) \in Nat
  <2> TAKE i \in 1..n
  <2>1. i \in 1..n + 1
    BY <1>1
  <2>3. h[i] \in Seq(Frame)
    BY <2>1 DEF History
  <2>2. NestOf(h[i]) \in Nat
    BY <2>3, StackFields
  <2> QED BY <1>1, <2>2, SizeIs
<1> HIDE DEF Sz
<1>3. At(ws, cd, 1) = 1 /\ At(ws, cd, n + 1) = ws[n].code + Sz(n) /\ \A i, m \in 1..n : i < m => ws[i].code + Sz(i) <= ws[m].code
  <2>1. n \in 1..n
    BY <1>1
  <2> QED BY <2>1 DEF Laid, Sz
<1>4. At(ws, cd, 1) = ws[1].code /\ At(ws, cd, n + 1) = Len(cd) + 1 /\ 1 \in 1..n /\ n \in 1..n
  BY <1>1 DEF At
<1>5. ws[k].code >= 1
  <2>1. CASE k = 1
    BY <2>1, <1>3, <1>4
  <2>2. CASE k # 1
    <3>1. ws[1].code + Sz(1) <= ws[k].code
      BY <2>2, <1>3, <1>4, <1>1
    <3> QED BY <3>1, <1>1, <1>2, <1>3, <1>4
  <2> QED BY <2>1, <2>2
<1>6. ws[k].code + Sz(k) <= Len(cd) + 1
  <2>1. CASE k = n
    BY <2>1, <1>1, <1>2, <1>3, <1>4
  <2>2. CASE k # n
    <3>1. ws[k].code + Sz(k) <= ws[n].code
      BY <2>2, <1>3, <1>4, <1>1
    <3>2. ws[n].code + Sz(n) = Len(cd) + 1
      BY <1>3, <1>4
    <3> QED BY <3>1, <3>2, <1>1, <1>2, <1>4, SMTT(30)
  <2> QED BY <2>1, <2>2
<1> QED BY <1>1, <1>2, <1>5, <1>6 DEF Sz

\* The branches' cells are apart from each other's and from the other cells of the code.
LEMMA BranchesApart ==
    ASSUME NEW h, NEW ws \in Seq(WordRecord), NEW cd \in Seq(Cell), History(h, ws), Laid(h, ws, cd),
           NEW x \in 1..Len(ws), ws[x].word \in Forward, NEW k \in 1..Len(ws), k # x,
           NEW i \in 0..Size(ws[k].word, NestOf(h[k])) - 1
    PROVE  ws[k].code + i # ws[x].code + 1
<1> DEFINE Sz(m) == Size(ws[m].word, NestOf(h[m]))
<1>1. ws[k].code \in Nat /\ Sz(k) \in Nat /\ ws[x].code \in Nat /\ Len(ws) \in Nat
  BY InTheCode, SMTT(30)
<1>2. Sz(x) = 2
  <2>2. x \in 1..Len(ws) + 1
    BY <1>1
  <2>1. h[x] \in Seq(Frame)
    BY <2>2 DEF History
  <2> QED BY <2>1, StackFields, SizeIs
<1>3. \A a, b \in 1..Len(ws) : a < b => ws[a].code + Sz(a) <= ws[b].code
  BY DEF Laid
<1> HIDE DEF Sz
<1>4. CASE k < x
  <2>1. ws[k].code + Sz(k) <= ws[x].code
    BY <1>3, <1>4
  <2>2. i \in 0..Sz(k) - 1
    BY DEF Sz
  <2> QED BY <2>1, <2>2, <1>1, SMTT(30)
<1>5. CASE x < k
  <2>1. ws[x].code + 2 <= ws[k].code
    BY <1>2, <1>3, <1>5
  <2>2. i \in Nat
    BY <1>1 DEF Sz
  <2> QED BY <2>1, <2>2, <1>1, SMTT(30)
<1> QED BY <1>1, <1>4, <1>5

\* Code that grows by a word's cells, only branches being patched.
CellsGrow(h, ws, cd, w, gs, h2, ws2, cd2, A) ==
    /\ Grows(h, ws, w, gs, h2, ws2) /\ cd \in Seq(Cell) /\ cd2 \in Seq(Cell) /\ Laid(h, ws, cd)
    /\ ws2[Len(ws) + 1].code = Len(cd) + 1 /\ Len(cd2) = Len(cd) + Size(w, NestOf(h[Len(ws) + 1]))
    /\ \A a \in A : \E x \in 1..Len(ws) : ws[x].word \in Forward /\ Fixes(h2, ws2, x, Len(ws) + 1) /\ a = ws[x].code + 1
    /\ \A a \in 1..Len(cd) : a \notin A => cd2[a] = cd[a]
    /\ Coded(h2, ws2, cd2, Len(ws) + 1)

LEMMA OldCells ==
    ASSUME NEW h, NEW ws, NEW cd, NEW w, NEW gs, NEW h2, NEW ws2, NEW cd2, NEW A,
           CellsGrow(h, ws, cd, w, gs, h2, ws2, cd2, A), NEW k \in 1..Len(ws),
           NEW i \in 0..Size(ws[k].word, NestOf(h[k])) - 1, ws[k].word \in Forward => i = 0
    PROVE  cd2[ws[k].code + i] = cd[ws[k].code + i]
<1>1. /\ ws \in Seq(WordRecord) /\ cd \in Seq(Cell) /\ Laid(h, ws, cd) /\ History(h, ws)
      /\ \A a \in A : \E x \in 1..Len(ws) : ws[x].word \in Forward /\ a = ws[x].code + 1
      /\ \A a \in 1..Len(cd) : a \notin A => cd2[a] = cd[a]
  BY DEF CellsGrow, Grows
<1>2. /\ ws[k].code \in Nat /\ ws[k].code >= 1 /\ Size(ws[k].word, NestOf(h[k])) \in Nat
      /\ ws[k].code + Size(ws[k].word, NestOf(h[k])) <= Len(cd) + 1 /\ Len(cd) \in Nat
  BY <1>1, InTheCode
<1>3. ws[k].code + i \in 1..Len(cd)
  BY <1>2
<1>4. ASSUME ws[k].code + i \in A PROVE FALSE
  <2>1. PICK x \in 1..Len(ws) : ws[x].word \in Forward /\ ws[k].code + i = ws[x].code + 1
    BY <1>1, <1>4
  <2>2. x = k
    BY <2>1, <1>1, BranchesApart
  <2>3. i = 0
    BY <2>1, <2>2
  <2> QED BY <2>1, <2>2, <2>3, <1>2
<1> QED BY <1>1, <1>3, <1>4

LEMMA LaidGrows ==
    ASSUME NEW h, NEW ws, NEW cd, NEW w \in Names, NEW gs, NEW h2, NEW ws2, NEW cd2, NEW A,
           CellsGrow(h, ws, cd, w, gs, h2, ws2, cd2, A)
    PROVE  Laid(h2, ws2, cd2)
<1>1. PICK L : L = Len(ws) + 1
  OBVIOUS
<1>2. Grows(h, ws, w, gs, h2, ws2) /\ cd \in Seq(Cell) /\ cd2 \in Seq(Cell) /\ Laid(h, ws, cd) /\ ws \in Seq(WordRecord)
  BY DEF CellsGrow, Grows
<1>3. /\ L \in Nat /\ L >= 1 /\ Len(ws) = L - 1 /\ Len(ws2) = L /\ \A x \in 1..L - 1 : ws2[x] = ws[x]
      /\ ws2[L].word = w /\ \A t \in 1..L : h2[t] = h[t]
      /\ h[L] \in Seq(Frame) /\ History(h, ws)
  BY <1>1, <1>2, GrowsFacts
<1>4. ws2[L].code = Len(cd) + 1 /\ Len(cd2) = Len(cd) + Size(w, NestOf(h[L])) /\ Coded(h2, ws2, cd2, L) /\ Len(cd) \in Nat
  BY <1>1, <1>2 DEF CellsGrow
<1>5. Size(w, NestOf(h[L])) \in Nat
  BY <1>3, StackFields, SizeIs
<1>6. \A k \in 1..L : At(ws2, cd2, k) = At(ws, cd, k)
  BY <1>3, <1>4 DEF At
<1>7. At(ws2, cd2, L + 1) = Len(cd2) + 1
  BY <1>3 DEF At
<1>8. At(ws2, cd2, 1) = 1
  BY <1>2, <1>3, <1>6 DEF Laid
<1>9. ASSUME NEW k \in 1..L PROVE At(ws2, cd2, k + 1) = ws2[k].code + Size(ws2[k].word, NestOf(h2[k]))
  <2>1. CASE k = L
    <3>1. At(ws2, cd2, k + 1) = Len(cd2) + 1 /\ ws2[k].word = w /\ h2[k] = h[L] /\ ws2[k].code = Len(cd) + 1
      BY <2>1, <1>3, <1>4, <1>7
    <3> QED BY <3>1, <1>4, <1>5
  <2>2. CASE k # L
    <3>1. k \in 1..L - 1 /\ k + 1 \in 1..L /\ k \in 1..Len(ws)
      BY <2>2, <1>3
    <3>2. At(ws, cd, k + 1) = ws[k].code + Size(ws[k].word, NestOf(h[k]))
      BY <3>1, <1>2 DEF Laid
    <3> QED BY <3>1, <3>2, <1>3, <1>6
  <2> QED BY <2>1, <2>2
<1>10. ASSUME NEW i \in 1..L, NEW k \in 1..L, i < k
       PROVE  ws2[i].code + Size(ws2[i].word, NestOf(h2[i])) <= ws2[k].code
  <2>1. i \in 1..L - 1 /\ i \in 1..Len(ws) /\ ws2[i] = ws[i] /\ h2[i] = h[i]
    BY <1>3, <1>10
  <2>2. CASE k = L
    <3>1. ws[i].code + Size(ws[i].word, NestOf(h[i])) <= Len(cd) + 1
      BY <2>1, <1>2, <1>3, InTheCode
    <3> QED BY <3>1, <2>1, <2>2, <1>4
  <2>3. CASE k # L
    <3>1. k \in 1..L - 1 /\ k \in 1..Len(ws) /\ ws2[k] = ws[k]
      BY <2>3, <1>3
    <3> QED BY <3>1, <2>1, <1>2, <1>10 DEF Laid
  <2> QED BY <2>2, <2>3
<1>11. ASSUME NEW k \in 1..L PROVE Coded(h2, ws2, cd2, k)
  <2>1. CASE k = L
    BY <2>1, <1>4
  <2>2. CASE k # L
    <3>1. k \in 1..L - 1 /\ k \in 1..Len(ws) /\ ws2[k] = ws[k] /\ h2[k] = h[k] /\ h[k] \in Seq(Frame)
      BY <2>2, <1>3 DEF History
    <3>2. Coded(h, ws, cd, k)
      BY <3>1, <1>2 DEF Laid
    <3>3. NestOf(h[k]) \in Nat /\ ws[k].word \in Names /\ ws[k].code \in Nat
      BY <3>1, <1>2, StackFields, WordFields
    <3>4. \A i \in 0..Size(ws[k].word, NestOf(h[k])) - 1 :
             (ws[k].word \in Forward => i = 0) => cd2[ws[k].code + i] = cd[ws[k].code + i]
      BY <3>1, OldCells
    <3>5. ws[k].word \notin {"THEN", "BEGIN", "EXIT"} => cd2[ws[k].code].op = Runs(ws[k].word)
      <4> HAVE ws[k].word \notin {"THEN", "BEGIN", "EXIT"}
      <4>1. 0 \in 0..Size(ws[k].word, NestOf(h[k])) - 1
        <5>1. Size(ws[k].word, NestOf(h[k])) \in {1, 2}
          BY <3>3, SizeIs
        <5> QED BY <5>1
      <4>2. cd2[ws[k].code + 0] = cd[ws[k].code + 0]
        BY <3>4, <4>1
      <4>3. ws[k].code + 0 = ws[k].code
        BY <3>3
      <4> QED BY <4>2, <4>3, <3>2 DEF Coded
    <3>6. ws[k].word = "EXIT" => /\ \A i \in 0..2 * NestOf(h[k]) - 1 : cd2[ws[k].code + i].op = "POP HL"
                                 /\ cd2[ws[k].code + 2 * NestOf(h[k])].op = "RET"
      <4> HAVE ws[k].word = "EXIT"
      <4>1. Size(ws[k].word, NestOf(h[k])) = 2 * NestOf(h[k]) + 1 /\ ws[k].word \notin Forward
        BY <3>3, SizeIs DEF Forward
      <4>2. \A i \in 0..2 * NestOf(h[k]) : cd2[ws[k].code + i] = cd[ws[k].code + i]
        BY <3>3, <3>4, <4>1
      <4>3. /\ \A i \in 0..2 * NestOf(h[k]) - 1 : i \in 0..2 * NestOf(h[k])
            /\ 2 * NestOf(h[k]) \in 0..2 * NestOf(h[k])
        BY <3>3
      <4> QED BY <4>2, <4>3, <3>2 DEF Coded
    <3>7. ASSUME ws[k].word \in {"UNTIL", "REPEAT"} \cup LoopEnds
          PROVE  cd2[ws[k].code + 1] = cd[ws[k].code + 1] /\ ws2[TopOf(h[k]).at] = ws[TopOf(h[k]).at]
      <4>1. 1 \in 0..Size(ws[k].word, NestOf(h[k])) - 1 /\ ws[k].word \notin Forward
        <5>1. Size(ws[k].word, NestOf(h[k])) = 2
          BY <3>3, <3>7, SizeIs
        <5> QED BY <5>1, <3>7 DEF Forward, LoopEnds
      <4>2. After(h[k], ws[k].word, k, h[k + 1]) /\ StackSound(h, ws, k)
        BY <3>1, <1>3 DEF History
      <4>3. h[k] # <<>>
        BY <3>7, <4>2 DEF After, Openers, Closers, LoopEnds
      <4>4. Len(h[k]) \in 1..Len(h[k])
        BY <3>1, <4>3
      <4>5. TopOf(h[k]).at \in 1..k - 1
        BY <4>2, <4>4 DEF StackSound, SoundAt, FrameSound, TopOf
      <4>6. TopOf(h[k]).at \in 1..L - 1
        BY <4>5, <3>1, <1>3
      <4> QED BY <4>1, <4>6, <3>4, <1>3
    <3> QED BY <3>1, <3>2, <3>5, <3>6, <3>7 DEF Coded
  <2> QED BY <2>1, <2>2
<1> QED BY <1>3, <1>8, <1>9, <1>10, <1>11 DEF Laid
\* Each open structure was opened by a word of its own, and waits with a branch of its own.
LEMMA FramesApart ==
    ASSUME NEW h, NEW ws, NEW k \in Nat, h[k] \in Seq(Frame), StackSound(h, ws, k), NEW i \in 1..Len(h[k]), NEW j \in 1..Len(h[k])
    PROVE  /\ h[k][i].at = h[k][j].at => i = j
           /\ h[k][i].hole = h[k][j].hole /\ h[k][i].hole # 0 => i = j
           /\ i < j => h[k][i].at < h[k][j].at
           /\ h[k][j].hole # 0 => h[k][j].at <= h[k][j].hole /\ h[k][j].hole < k
           /\ h[k][j].at \in Nat /\ h[k][j].hole \in Nat /\ h[k][j].at < k /\ h[k][j].at >= 1
<1>1. ASSUME NEW m \in 1..Len(h[k])
      PROVE  /\ FrameSound(ws, h[k], k, m) /\ h[k][m].at \in Nat /\ h[k][m].hole \in Nat /\ h[k][m].s \in Structures
             /\ \A n \in 1..m - 1 : FramesSound(h[k], n, m)
  <2>1. h[k][m] \in Frame
    OBVIOUS
  <2> QED BY <2>1, FrameFields DEF StackSound, SoundAt
<1>2. ASSUME NEW m \in 1..Len(h[k])
      PROVE  /\ h[k][m].hole # 0 => h[k][m].at <= h[k][m].hole /\ h[k][m].hole < k
             /\ h[k][m].at \in 1..k - 1
  <2>1. h[k][m].at \in 1..k - 1
    BY <1>1 DEF FrameSound
  <2>2. ASSUME h[k][m].s \in {"ELSE", "WHILE"} PROVE h[k][m].hole \in h[k][m].at + 1..k - 1
    BY <2>2, <1>1 DEF FrameSound
  <2>3. ASSUME h[k][m].s = "IF" PROVE h[k][m].hole = h[k][m].at
    BY <2>3, <1>1 DEF FrameSound
  <2>4. ASSUME h[k][m].s \in {"BEGIN", "DO"} PROVE h[k][m].hole = 0
    BY <2>4, <1>1 DEF FrameSound
  <2>5. h[k][m].s \in {"ELSE", "WHILE"} \/ h[k][m].s = "IF" \/ h[k][m].s \in {"BEGIN", "DO"}
    BY <1>1 DEF Structures
  <2>6. k \in Int
    BY <2>1
  <2> QED BY <1>1, <2>1, <2>2, <2>3, <2>4, <2>5, <2>6
<1>3. ASSUME NEW m \in 1..Len(h[k]), NEW n \in 1..Len(h[k]), n < m
      PROVE  h[k][n].at < h[k][m].at /\ h[k][n].hole < h[k][m].at
  <2>1. n \in 1..m - 1
    BY <1>3
  <2> QED BY <2>1, <1>1 DEF FramesSound
<1>4. h[k][i].at = h[k][j].at => i = j
  <2> SUFFICES ASSUME h[k][i].at = h[k][j].at, i # j PROVE FALSE
    OBVIOUS
  <2>1. CASE i < j
    <3>1. h[k][i].at < h[k][j].at
      BY <2>1, <1>3
    <3> QED BY <3>1, <1>1
  <2>2. CASE j < i
    <3>1. h[k][j].at < h[k][i].at
      BY <2>2, <1>3
    <3> QED BY <3>1, <1>1
  <2>3. i < j \/ j < i
    BY Len(h[k]) \in Nat
  <2> QED BY <2>1, <2>2, <2>3
<1>5. h[k][i].hole = h[k][j].hole /\ h[k][i].hole # 0 => i = j
  <2> SUFFICES ASSUME h[k][i].hole = h[k][j].hole, h[k][i].hole # 0, i # j PROVE FALSE
    OBVIOUS
  <2>1. CASE i < j
    BY <2>1, <1>1, <1>2, <1>3
  <2>2. CASE j < i
    BY <2>2, <1>1, <1>2, <1>3
  <2> QED BY <2>1, <2>2
<1>6. h[k][j].at < k /\ h[k][j].at >= 1
  BY <1>2
<1> QED BY <1>1, <1>2, <1>3, <1>4, <1>5, <1>6

\* What the history says of one word and of one place in it.
LEMMA HistoryAt ==
    ASSUME NEW h, NEW ws, History(h, ws), Len(ws) \in Nat, NEW k \in 1..Len(ws) + 1
    PROVE  /\ h[k] \in Seq(Frame) /\ StackSound(h, ws, k)
           /\ k <= Len(ws) => /\ h[k + 1] \in Seq(Frame) /\ After(h[k], ws[k].word, k, h[k + 1])
                              /\ ws[k].deep = Len(h[k + 1])
<1>1. h[k] \in Seq(Frame) /\ StackSound(h, ws, k)
  BY DEF History
<1>2. ASSUME k <= Len(ws) PROVE k \in 1..Len(ws) /\ k + 1 \in 1..Len(ws) + 1
  BY <1>2
<1> QED BY <1>1, <1>2 DEF History

LEMMA OpenSince ==
    ASSUME NEW h, NEW ws, History(h, ws), Len(ws) \in Nat, NEW k \in 1..Len(ws) + 1, NEW j \in 1..Len(h[k]),
           NEW t \in h[k][j].at + 1..k
    PROVE  /\ t \in 1..Len(ws) + 1 /\ j \in 1..Len(h[t]) /\ h[t][j].at = h[k][j].at
           /\ h[t][j].nest = h[k][j].nest /\ h[t][j].loop = h[k][j].loop
           /\ h[k][j].hole # 0 /\ h[k][j].hole < t => h[t][j].hole = h[k][j].hole
<1>1. h[k] \in Seq(Frame) /\ StackSound(h, ws, k) /\ Len(h[k]) \in Nat /\ k \in Nat
  BY HistoryAt
<1>2. h[k][j].at \in Nat /\ h[k][j].hole \in Nat /\ Since(h, k, j)
  BY <1>1, FramesApart DEF StackSound, SoundAt
<1>3. t \in 1..Len(ws) + 1 /\ t \in Nat
  BY <1>2
<1>4. Len(h[t]) \in Nat
  BY <1>3, HistoryAt
<1>5. j <= Len(h[t]) /\ h[t][j].at = h[k][j].at /\ h[t][j].nest = h[k][j].nest /\ h[t][j].loop = h[k][j].loop
  BY <1>2 DEF Since
<1>6. ASSUME h[k][j].hole # 0, h[k][j].hole < t PROVE h[t][j].hole = h[k][j].hole
  <2>1. t \in h[k][j].hole + 1..k
    BY <1>2, <1>3, <1>6
  <2> QED BY <2>1, <1>2, <1>6 DEF Since
<1> QED BY <1>3, <1>4, <1>5, <1>6

\* The word that ends a structure drops it.
LEMMA EndDrops ==
    ASSUME NEW h, NEW ws, History(h, ws), Len(ws) \in Nat, NEW e \in 1..Len(ws), ws[e].word \in Closers
    PROVE  /\ h[e] # <<>> /\ IsDropped(h[e], h[e + 1]) /\ TopOf(h[e]).s \in Needs(ws[e].word)
           /\ Len(h[e]) \in 1..Len(h[e]) /\ Len(h[e + 1]) = Len(h[e]) - 1
<1>1. e \in 1..Len(ws) + 1 /\ e <= Len(ws)
  OBVIOUS
<1>2. After(h[e], ws[e].word, e, h[e + 1]) /\ h[e] \in Seq(Frame)
  BY <1>1, HistoryAt
<1>3. h[e] # <<>> /\ TopOf(h[e]).s \in Needs(ws[e].word) /\ h[e + 1] = Dropped(h[e])
  BY <1>2 DEF After, Openers, Closers, LoopEnds
<1>4. IsDropped(h[e], h[e + 1])
  BY <1>2, <1>3, DroppedIs
<1>5. Len(h[e]) \in 1..Len(h[e]) /\ Len(h[e + 1]) = Len(h[e]) - 1
  BY <1>4 DEF IsDropped
<1> QED BY <1>3, <1>4, <1>5

\* What ended is not open again.
LEMMA EndedOnce ==
    ASSUME NEW h, NEW ws, History(h, ws), Len(ws) \in Nat, NEW l, NEW e \in 1..Len(ws), EndsAt(h, ws, l, e),
           NEW k \in e + 1..Len(ws) + 1
    PROVE  ~IsOpen(h[k], l)
<1> SUFFICES ASSUME NEW j \in 1..Len(h[k]), h[k][j].at = l PROVE FALSE
  BY DEF IsOpen
<1>1. ws[e].word \in Closers /\ TopOf(h[e]).at = l
  BY DEF EndsAt
<1>2. IsDropped(h[e], h[e + 1]) /\ Len(h[e]) \in 1..Len(h[e]) /\ Len(h[e + 1]) = Len(h[e]) - 1
  BY <1>1, EndDrops
<1>3. h[e] \in Seq(Frame) /\ StackSound(h, ws, e) /\ k \in 1..Len(ws) + 1 /\ e \in Nat /\ e \in 1..Len(ws) + 1
  BY HistoryAt
<1>4. l \in Nat /\ l < e
  <2>1. h[e][Len(h[e])].at \in Nat /\ h[e][Len(h[e])].at < e
    BY <1>2, <1>3, FramesApart
  <2> QED BY <2>1, <1>1 DEF TopOf
<1>5. e \in h[k][j].at + 1..k /\ e + 1 \in h[k][j].at + 1..k
  BY <1>3, <1>4
<1>6. j \in 1..Len(h[e]) /\ h[e][j].at = l /\ j \in 1..Len(h[e + 1])
  <2>1. j \in 1..Len(h[e]) /\ h[e][j].at = h[k][j].at
    BY <1>3, <1>5, OpenSince
  <2>2. j \in 1..Len(h[e + 1])
    BY <1>3, <1>5, OpenSince
  <2> QED BY <2>1, <2>2
<1>7. j = Len(h[e])
  <2>1. h[e][j].at = h[e][Len(h[e])].at
    BY <1>1, <1>6 DEF TopOf
  <2>2. h[e][j].at = h[e][Len(h[e])].at => j = Len(h[e])
    BY <1>2, <1>3, <1>6, FramesApart
  <2> QED BY <2>1, <2>2
<1> QED BY <1>2, <1>6, <1>7

\* A branch is patched once.
LEMMA FixedOnce ==
    ASSUME NEW h, NEW ws, History(h, ws), Len(ws) \in Nat, NEW x \in 1..Len(ws), NEW e \in 1..Len(ws), NEW f \in e + 1..Len(ws),
           Fixes(h, ws, x, e), Fixes(h, ws, x, f)
    PROVE  FALSE
<1>1. /\ h[e] \in Seq(Frame) /\ StackSound(h, ws, e) /\ h[f] \in Seq(Frame) /\ StackSound(h, ws, f)
      /\ e \in 1..Len(ws) + 1 /\ f \in 1..Len(ws) + 1 /\ f \in 1..Len(ws) /\ e + 1 \in 1..Len(ws) + 1 /\ e <= Len(ws)
  <2>1. e \in 1..Len(ws) + 1 /\ f \in 1..Len(ws) + 1 /\ f \in 1..Len(ws) /\ e + 1 \in 1..Len(ws) + 1 /\ e <= Len(ws)
    OBVIOUS
  <2> QED BY <2>1, HistoryAt
<1>2. h[e] # <<>> /\ h[f] # <<>> /\ x < e
  BY DEF Fixes
<1>3. /\ Len(h[e]) \in 1..Len(h[e]) /\ Len(h[f]) \in 1..Len(h[f])
  BY <1>1, <1>2
<1>4. CASE ws[x].word = "LEAVE"
  <2>1. ws[f].word \in LoopEnds /\ ws[e].word \in LoopEnds /\ TopOf(h[e]).at = LoopOf(h[x]) /\ TopOf(h[f]).at = LoopOf(h[x])
    BY <1>4 DEF Fixes
  <2>2. EndsAt(h, ws, LoopOf(h[x]), e)
    BY <1>2, <2>1 DEF EndsAt, Closers
  <2>3. IsOpen(h[f], LoopOf(h[x]))
    BY <1>3, <2>1 DEF IsOpen, TopOf
  <2>4. f \in e + 1..Len(ws) + 1
    BY <1>1
  <2> QED BY <2>2, <2>3, <2>4, EndedOnce
<1>5. CASE ws[x].word # "LEAVE"
  <2> DEFINE j == Len(h[f])
             m == Len(h[e])
  <2>1. h[f][j].hole = x /\ h[e][m].hole = x /\ ws[e].word \in {"ELSE", "THEN", "REPEAT"}
    BY <1>5 DEF Fixes, TopOf
  <2>2. x \in Nat /\ x >= 1 /\ e \in Nat /\ f \in Nat
    OBVIOUS
  <2>3. h[f][j].at \in Nat /\ h[f][j].at <= x
    <3>1. h[f][j].at \in Nat
      BY <1>1, <1>3, FramesApart
    <3>2. h[f][j].hole # 0 => h[f][j].at <= h[f][j].hole
      BY <1>1, <1>3, FramesApart
    <3> QED BY <3>1, <3>2, <2>1, <2>2
  <2>4. e \in h[f][j].at + 1..f /\ e + 1 \in h[f][j].at + 1..f
    BY <2>2, <2>3, <1>2
  <2>5. j \in 1..Len(h[e]) /\ h[e][j].hole = x /\ j \in 1..Len(h[e + 1]) /\ h[e + 1][j].hole = x
    <3>1. h[f][j].hole # 0 /\ h[f][j].hole < e /\ h[f][j].hole < e + 1
      BY <2>1, <2>2, <1>2
    <3>2. j \in 1..Len(h[f])
      BY <1>3
    <3>3. j \in 1..Len(h[e]) /\ (h[f][j].hole # 0 /\ h[f][j].hole < e => h[e][j].hole = h[f][j].hole)
      BY <3>2, <2>4, <1>1, OpenSince
    <3>4. j \in 1..Len(h[e + 1]) /\ (h[f][j].hole # 0 /\ h[f][j].hole < e + 1 => h[e + 1][j].hole = h[f][j].hole)
      BY <3>2, <2>4, <1>1, OpenSince, SMTT(30)
    <3> QED BY <3>1, <3>3, <3>4, <2>1
  <2>6. j = m
    <3>1. m \in 1..Len(h[e]) /\ h[e][j].hole = h[e][m].hole /\ h[e][j].hole # 0
      BY <2>1, <2>2, <2>5, <1>3
    <3>2. j \in 1..Len(h[e]) /\ h[e] \in Seq(Frame) /\ StackSound(h, ws, e) /\ e \in Nat
      BY <2>2, <2>5, <1>1
    <3>3. h[e][j].hole = h[e][m].hole /\ h[e][j].hole # 0 => j = m
      BY <3>1, <3>2, FramesApart
    <3> QED BY <3>1, <3>3
  <2>7. CASE ws[e].word = "ELSE"
    <3>1. After(h[e], ws[e].word, e, h[e + 1])
      BY <1>1, HistoryAt
    <3>2. h[e + 1] = Turned(h[e], "ELSE", e)
      BY <3>1, <2>7 DEF After, Openers, Closers, LoopEnds
    <3>3. IsTurned(h[e], "ELSE", e, h[e + 1], m)
      BY <3>2, <1>1, <1>2, TurnedIs
    <3>4. h[e + 1][m].hole = e
      BY <3>3 DEF IsTurned
    <3> QED BY <3>4, <2>2, <2>5, <2>6, <1>2
  <2>8. CASE ws[e].word \in {"THEN", "REPEAT"}
    <3>1. Len(h[e + 1]) = Len(h[e]) - 1
      BY <2>8, EndDrops DEF Closers
    <3> QED BY <3>1, <2>5, <2>6, <1>3
  <2> QED BY <2>1, <2>7, <2>8
<1> QED BY <1>4, <1>5
\* The word that is read patches every branch that waited for it.
PatchesThem(h2, ws, ws2, cd2) ==
    \A x \in 1..Len(ws) : ws[x].word \in Forward /\ Fixes(h2, ws2, x, Len(ws) + 1) => cd2[ws[x].code + 1].to = Len(cd2) + 1

\* A branch just read waits.
LEMMA NewWaits ==
    ASSUME NEW h, NEW ws, NEW w \in Forward, NEW gs, NEW h2, NEW ws2, Grows(h, ws, w, gs, h2, ws2), NEW L, L = Len(ws) + 1
    PROVE  Waits(h2, ws2, L, L + 1)
<1>1. /\ L \in Nat /\ L >= 1 /\ ws2[L].word = w /\ h2[L] = h[L] /\ h2[L + 1] = gs /\ h[L] \in Seq(Frame)
      /\ StackSound(h, ws, L) /\ After(h[L], w, L, gs)
  <2>1. L \in 1..L
    BY GrowsFacts
  <2> QED BY <2>1, GrowsFacts
<1>2. CASE w = "IF"
  <2>1. gs = Opened(h[L], w, L)
    BY <1>1, <1>2 DEF After, Openers, Closers, LoopEnds
  <2>2. IsOpened(h[L], w, L, gs, Len(h[L]) + 1)
    BY <1>1, <1>2, <2>1, OpenedIs DEF Openers
  <2>3. Len(h[L]) + 1 \in 1..Len(gs) /\ gs[Len(h[L]) + 1].hole = L
    BY <1>1, <1>2, <2>2 DEF IsOpened
  <2> QED BY <2>3, <1>1, <1>2 DEF Waits
<1>3. CASE w \in {"ELSE", "WHILE"}
  <2>1. gs = Turned(h[L], w, L) /\ h[L] # <<>>
    BY <1>1, <1>3 DEF After, Openers, Closers, LoopEnds
  <2>2. IsTurned(h[L], w, L, gs, Len(h[L]))
    BY <1>1, <1>3, <2>1, TurnedIs
  <2>3. Len(h[L]) \in 1..Len(gs) /\ gs[Len(h[L])].hole = L
    BY <1>1, <2>2 DEF IsTurned
  <2> QED BY <2>3, <1>1, <1>3 DEF Waits
<1>4. CASE w = "LEAVE"
  <2>1. gs = h[L] /\ LoopOf(h[L]) # 0
    BY <1>1, <1>4 DEF After, Openers, Closers, LoopEnds
  <2>2. \E i \in 1..Len(h[L]) : h[L][i].s = "DO" /\ h[L][i].at = LoopOf(h[L])
    BY <1>1, <2>1, InnermostTells
  <2> QED BY <2>1, <2>2, <1>1, <1>4 DEF Waits
<1> QED BY <1>2, <1>3, <1>4 DEF Forward

\* A branch that waits goes on waiting, or this word patches it.
LEMMA StillWaits ==
    ASSUME NEW h, NEW ws, NEW w, NEW gs, NEW h2, NEW ws2, Grows(h, ws, w, gs, h2, ws2), NEW L, L = Len(ws) + 1,
           NEW x \in 1..L - 1, Waits(h, ws, x, L)
    PROVE  Waits(h2, ws2, x, L + 1) \/ Fixes(h2, ws2, x, L)
<1> DEFINE fs == h[L]
           n == Len(fs)
           Mine(f) == IF ws[x].word = "LEAVE" THEN f.s = "DO" /\ f.at = LoopOf(h[x]) ELSE f.hole = x
<1>1. /\ L \in Nat /\ L >= 1 /\ ws2[L].word = w /\ h2[L] = fs /\ h2[L + 1] = gs /\ fs \in Seq(Frame)
      /\ StackSound(h, ws, L) /\ After(fs, w, L, gs) /\ ws2[x] = ws[x] /\ h2[x] = h[x] /\ n \in Nat
  <2>1. /\ L \in Nat /\ L >= 1 /\ \A k \in 1..L - 1 : ws2[k] = ws[k]
        /\ ws2[L].word = w /\ \A k \in 1..L : h2[k] = h[k]
        /\ h2[L + 1] = gs /\ h[L] \in Seq(Frame)
        /\ StackSound(h, ws, L) /\ After(h[L], w, L, gs)
    BY GrowsFacts
  <2>2. L \in 1..L /\ x \in 1..L /\ Len(h[L]) \in Nat
    BY <2>1
  <2> QED BY <2>1, <2>2
<1>2. PICK j \in 1..n : Mine(fs[j])
  BY DEF Waits
<1>3. ASSUME NEW i \in 1..Len(gs), Mine(gs[i]) PROVE Waits(h2, ws2, x, L + 1)
  BY <1>1, <1>3 DEF Waits
<1>4. FrameSound(ws, fs, L, j) /\ x >= 1 /\ x < L /\ fs[j].s \in Structures
  <2>1. fs[j] \in Frame
    BY <1>1
  <2> QED BY <2>1, <1>1, FrameFields DEF StackSound, SoundAt
<1>5. CASE w \in Openers /\ gs = Opened(fs, w, L)
  <2>1. IsOpened(fs, w, L, gs, n + 1)
    BY <1>1, <1>5, OpenedIs
  <2>2. j \in 1..Len(gs) /\ gs[j] = fs[j]
    BY <2>1, <1>1 DEF IsOpened
  <2> QED BY <2>2, <1>2, <1>3
<1>6. CASE w \in {"ELSE", "WHILE"} /\ fs # <<>> /\ TopOf(fs).s \in Needs(w) /\ gs = Turned(fs, w, L)
  <2>1. IsTurned(fs, w, L, gs, n)
    BY <1>1, <1>6, TurnedIs
  <2>2. CASE j # n
    <3>1. j \in 1..Len(gs) /\ gs[j] = fs[j]
      BY <2>1, <2>2, <1>1 DEF IsTurned
    <3> QED BY <3>1, <1>2, <1>3
  <2>3. CASE j = n
    <3>1. fs[j].s \in Needs(w)
      BY <2>3, <1>6 DEF TopOf
    <3>2. fs[j].s # "DO"
      BY <3>1, <1>6 DEF Needs, LoopEnds
    <3>3. fs[j].hole = x /\ ws[x].word # "LEAVE"
      BY <3>2, <1>2
    <3>4. fs[j].s \notin {"BEGIN", "DO"}
      BY <3>3, <1>4 DEF FrameSound
    <3>5. w = "ELSE"
      BY <3>1, <3>4, <1>6 DEF Needs, LoopEnds
    <3> QED BY <3>3, <3>5, <2>3, <1>1, <1>4, <1>6 DEF Fixes, TopOf
  <2> QED BY <2>2, <2>3
<1>7. CASE w \in Closers /\ fs # <<>> /\ TopOf(fs).s \in Needs(w) /\ gs = Dropped(fs)
  <2>1. IsDropped(fs, gs)
    BY <1>1, <1>7, DroppedIs
  <2>2. CASE j # n
    <3>1. j \in 1..Len(gs) /\ gs[j] = fs[j]
      BY <2>1, <2>2, <1>1 DEF IsDropped
    <3> QED BY <3>1, <1>2, <1>3
  <2>3. CASE j = n
    <3>1. fs[j].s \in Needs(w)
      BY <2>3, <1>7 DEF TopOf
    <3>2. CASE ws[x].word = "LEAVE"
      <4>1. fs[j].s = "DO" /\ fs[j].at = LoopOf(h[x])
        BY <3>2, <1>2
      <4>2. w \in LoopEnds
        BY <4>1, <3>1, <1>7 DEF Needs, Closers
      <4> QED BY <4>1, <4>2, <3>2, <2>3, <1>1, <1>4, <1>7 DEF Fixes, TopOf
    <3>3. CASE ws[x].word # "LEAVE"
      <4>1. fs[j].hole = x
        BY <3>3, <1>2
      <4>2. fs[j].s \notin {"BEGIN", "DO"}
        BY <4>1, <1>4 DEF FrameSound
      <4>3. w \in {"THEN", "REPEAT"}
        BY <4>2, <3>1, <1>7 DEF Needs, Closers, LoopEnds
      <4> QED BY <4>1, <4>3, <3>3, <2>3, <1>1, <1>4, <1>7 DEF Fixes, TopOf
    <3> QED BY <3>2, <3>3
  <2> QED BY <2>2, <2>3
<1>8. CASE gs = fs
  BY <1>2, <1>3, <1>8
<1> QED BY <1>1, <1>5, <1>6, <1>7, <1>8 DEF After

LEMMA PatchedGrows ==
    ASSUME NEW h, NEW ws, NEW cd, NEW w \in Names, NEW gs, NEW h2, NEW ws2, NEW cd2, NEW A,
           CellsGrow(h, ws, cd, w, gs, h2, ws2, cd2, A), PatchesThem(h2, ws, ws2, cd2), Patched(h, ws, cd)
    PROVE  Patched(h2, ws2, cd2)
<1>1. PICK L : L = Len(ws) + 1
  OBVIOUS
<1>2. /\ Grows(h, ws, w, gs, h2, ws2) /\ ws \in Seq(WordRecord) /\ cd \in Seq(Cell) /\ Laid(h, ws, cd)
      /\ ws2[L].code = Len(cd) + 1 /\ Len(cd2) = Len(cd) + Size(w, NestOf(h[L]))
      /\ \A a \in A : \E x \in 1..Len(ws) : ws[x].word \in Forward /\ Fixes(h2, ws2, x, L) /\ a = ws[x].code + 1
      /\ \A a \in 1..Len(cd) : a \notin A => cd2[a] = cd[a]
      /\ ws2 \in Seq(WordRecord)
  BY <1>1 DEF CellsGrow, Grows
<1>3. /\ L \in Nat /\ L >= 1 /\ Len(ws) = L - 1 /\ Len(ws2) = L /\ \A x \in 1..L - 1 : ws2[x] = ws[x]
      /\ ws2[L].word = w /\ \A t \in 1..L : h2[t] = h[t]
      /\ h2[L + 1] = gs /\ History(h, ws)
  BY <1>1, <1>2, GrowsFacts
<1>4. History(h2, ws2)
  BY <1>2, HistoryGrows
<1> SUFFICES ASSUME NEW x \in 1..L, ws2[x].word \in Forward
             PROVE  \/ Waits(h2, ws2, x, L + 1)
                    \/ \E e \in x + 1..L : Fixes(h2, ws2, x, e) /\ cd2[ws2[x].code + 1].to = At(ws2, cd2, e + 1)
  BY <1>3 DEF Patched
<1>5. CASE x = L
  BY <1>1, <1>2, <1>3, <1>5, NewWaits
<1>6. CASE x # L
  <2>1. x \in 1..L - 1 /\ ws2[x] = ws[x] /\ x \in 1..Len(ws) /\ ws[x].word \in Forward
    BY <1>3, <1>6
  <2>2. ASSUME Fixes(h2, ws2, x, L)
        PROVE  L \in x + 1..L /\ cd2[ws2[x].code + 1].to = At(ws2, cd2, L + 1)
    <3>1. At(ws2, cd2, L + 1) = Len(cd2) + 1
      BY <1>3 DEF At
    <3>2. cd2[ws[x].code + 1].to = Len(cd2) + 1
      BY <1>1, <2>1, <2>2 DEF PatchesThem
    <3> QED BY <2>1, <3>1, <3>2, <1>3
  <2>3. CASE Waits(h, ws, x, L)
    <3>1. Waits(h2, ws2, x, L + 1) \/ Fixes(h2, ws2, x, L)
      BY <1>1, <1>2, <2>1, <2>3, StillWaits
    <3> QED BY <3>1, <2>2
  <2>4. ASSUME NEW e \in x + 1..L - 1, Fixes(h, ws, x, e), cd[ws[x].code + 1].to = At(ws, cd, e + 1)
        PROVE  e \in x + 1..L /\ Fixes(h2, ws2, x, e) /\ cd2[ws2[x].code + 1].to = At(ws2, cd2, e + 1)
    <3>1. e \in 1..L - 1 /\ e \in 1..L /\ ws2[e] = ws[e] /\ h2[e] = h[e] /\ h2[x] = h[x] /\ e + 1 \in 1..L
      BY <1>3, <2>1
    <3>2. Fixes(h2, ws2, x, e)
      BY <2>4, <3>1, <2>1 DEF Fixes
    <3>3. At(ws2, cd2, e + 1) = At(ws, cd, e + 1)
      <4>1. CASE e + 1 = L
        <5>1. ~(L <= Len(ws)) /\ L <= Len(ws2)
          BY <1>3
        <5> QED BY <4>1, <5>1, <1>2 DEF At
      <4>2. CASE e + 1 # L
        <5>1. e + 1 \in 1..L - 1 /\ e + 1 <= Len(ws) /\ e + 1 <= Len(ws2)
          BY <4>2, <3>1, <1>3
        <5> QED BY <5>1, <1>3 DEF At
      <4> QED BY <4>1, <4>2
    <3>4. ws[x].code \in Nat /\ ws[x].code >= 1 /\ ws[x].code + 2 <= Len(cd) + 1 /\ Len(cd) \in Nat /\ NestOf(h[x]) \in Nat
      <4>1. ws[x].code \in Nat /\ ws[x].code >= 1 /\ ws[x].code + Size(ws[x].word, NestOf(h[x])) <= Len(cd) + 1
        BY <1>2, <1>3, <2>1, InTheCode
      <4>2. NestOf(h[x]) \in Nat
        <5>1. x \in 1..Len(ws) + 1
          BY <2>1, <1>3
        <5>2. h[x] \in Seq(Frame)
          BY <5>1, <1>3 DEF History
        <5> QED BY <5>2, StackFields
      <4>3. Size(ws[x].word, NestOf(h[x])) = 2
        BY <2>1, <4>2, SizeIs
      <4> QED BY <4>1, <4>2, <4>3, <1>2
    <3>5. ws[x].code + 1 \notin A
      <4> SUFFICES ASSUME ws[x].code + 1 \in A PROVE FALSE
        OBVIOUS
      <4>1. PICK y \in 1..Len(ws) : ws[y].word \in Forward /\ Fixes(h2, ws2, y, L) /\ ws[x].code + 1 = ws[y].code + 1
        BY <1>2
      <4>2. y = x
        <5>1. 1 \in 0..Size(ws[x].word, NestOf(h[x])) - 1
          <6>1. Size(ws[x].word, NestOf(h[x])) = 2
            BY <2>1, <3>4, SizeIs
          <6> QED BY <6>1
        <5>2. y # x => ws[x].code + 1 # ws[y].code + 1
          <6>1. /\ ws \in Seq(WordRecord) /\ cd \in Seq(Cell) /\ History(h, ws) /\ Laid(h, ws, cd)
                /\ x \in 1..Len(ws) /\ y \in 1..Len(ws) /\ ws[y].word \in Forward
            BY <4>1, <2>1, <1>2, <1>3
          <6> HAVE y # x
          <6>2. \A i \in 0..Size(ws[x].word, NestOf(h[x])) - 1 : ws[x].code + i # ws[y].code + 1
            BY <6>1, BranchesApart
          <6> QED BY <6>2, <5>1
        <5> QED BY <5>2, <4>1
      <4>3. x \in 1..Len(ws2) /\ e \in 1..Len(ws2) /\ L \in e + 1..Len(ws2) /\ Len(ws2) \in Nat
        BY <1>3, <2>1, <3>1
      <4> QED BY <4>1, <4>2, <4>3, <3>2, <1>4, FixedOnce
    <3>6. cd2[ws[x].code + 1] = cd[ws[x].code + 1]
      <4>1. ws[x].code + 1 \in 1..Len(cd)
        BY <3>4
      <4> QED BY <4>1, <3>5, <1>2
    <3> QED BY <2>1, <2>4, <3>1, <3>2, <3>3, <3>6
  <2> QED BY <2>1, <2>2, <2>3, <2>4, <1>3 DEF Patched
<1> QED BY <1>5, <1>6
\* Induction over the naturals, for a set.
LEMMA Induction ==
  ASSUME NEW S, 0 \in S, \A n \in Nat : n \in S => n + 1 \in S
  PROVE  Nat \subseteq S
<1> SUFFICES ASSUME NEW x \in Nat, x \notin S PROVE FALSE
  OBVIOUS
<1> DEFINE below == {0..n : n \in Nat \ S}
           R == StrictSubsetOrdering(Nat)
<1>1. below \subseteq FiniteSubsetsOf(Nat) /\ below # {}
  <2>1. \A n \in Nat : 0..n \in FiniteSubsetsOf(Nat)
    BY FS_Interval DEF FiniteSubsetsOf
  <2>2. QED
    BY <2>1
<1>2. PICK M \in below : \A B \in below : ~ (<<B, M>> \in R)
  <2> HIDE DEF below, R
  <2>1. IsWellFoundedOn(R, FiniteSubsetsOf(Nat))
    BY FS_StrictSubsetOrderingWellFounded DEF R
  <2>2. QED
    BY <1>1, <2>1, WFMin, Zenon
<1>3. PICK n \in Nat \ S : M = 0..n
  BY <1>2
<1>4. n # 0 /\ n - 1 \in Nat \ S
  BY <1>3
<1>5. 0..n - 1 \subseteq 0..n /\ n \notin 0..n - 1 /\ n \in 0..n
  BY <1>3
<1>6. <<0..n - 1, 0..n>> \in R
  BY <1>5 DEF StrictSubsetOrdering
<1>7. QED
  BY <1>2, <1>3, <1>4, <1>6

\* g follows the chain from head on, m nodes far.
Follows(cells, head, m, g) == g = [i \in 0..m |-> IF i = 0 THEN head ELSE IF g[i - 1] = 0 THEN 0 ELSE cells[g[i - 1]].to]

GoesAlong(cells, head, m, g) == g[0] = head /\ \A i \in 1..m : g[i] = IF g[i - 1] = 0 THEN 0 ELSE cells[g[i - 1]].to

LEMMA FollowsStep ==
    ASSUME NEW cells, NEW head, NEW m \in Nat, NEW g, Follows(cells, head, m, g)
    PROVE  GoesAlong(cells, head, m, g)
<1>1. g = [i \in 0..m |-> IF i = 0 THEN head ELSE IF g[i - 1] = 0 THEN 0 ELSE cells[g[i - 1]].to]
  BY DEF Follows
<1>2. \A i \in 0..m : g[i] = IF i = 0 THEN head ELSE IF g[i - 1] = 0 THEN 0 ELSE cells[g[i - 1]].to
  BY <1>1, Zenon
<1>3. 0 \in 0..m /\ \A i \in 1..m : i \in 0..m /\ i # 0
  OBVIOUS
<1> QED BY <1>2, <1>3, Zenon DEF GoesAlong

LEMMA ChainCanBeFollowed ==
    ASSUME NEW cells, NEW head, NEW M \in Nat
    PROVE  \E g : Follows(cells, head, M, g)
<1> DEFINE Good == {n \in Nat : \E g : Follows(cells, head, n, g)}
<1>1. 0 \in Good
  <2> DEFINE g == [k \in 0..0 |-> head]
  <2>1. g = [i \in 0..0 |-> IF i = 0 THEN head ELSE IF g[i - 1] = 0 THEN 0 ELSE cells[g[i - 1]].to]
    OBVIOUS
  <2> HIDE DEF g
  <2>2. Follows(cells, head, 0, g)
    BY <2>1 DEF Follows
  <2> QED BY <2>2
<1>2. ASSUME NEW n \in Nat, n \in Good PROVE n + 1 \in Good
  <2>1. PICK g : Follows(cells, head, n, g)
    BY <1>2
  <2> DEFINE next == IF g[n] = 0 THEN 0 ELSE cells[g[n]].to
             f == [k \in 0..n + 1 |-> IF k = n + 1 THEN next ELSE g[k]]
  <2> HIDE DEF Good
  <2>2. f[n + 1] = next /\ \A k \in 0..n : f[k] = g[k]
    OBVIOUS
  <2>3. f = [k \in 0..n + 1 |-> f[k]]
    OBVIOUS
  <2> HIDE DEF f
  <2>4. g[0] = head /\ \A i \in 1..n : g[i] = IF g[i - 1] = 0 THEN 0 ELSE cells[g[i - 1]].to
    <3>1. GoesAlong(cells, head, n, g)
      BY <2>1, FollowsStep
    <3> QED BY <3>1 DEF GoesAlong
  <2>5. \A i \in 0..n + 1 : f[i] = IF i = 0 THEN head ELSE IF f[i - 1] = 0 THEN 0 ELSE cells[f[i - 1]].to
    <3> TAKE i \in 0..n + 1
    <3>1. CASE i = 0
      <4>1. 0 \in 0..n
        OBVIOUS
      <4> QED BY <4>1, <3>1, <2>2, <2>4
    <3>2. CASE i = n + 1
      <4>1. n \in 0..n /\ i - 1 = n /\ i # 0
        BY <3>2
      <4> QED BY <4>1, <3>2, <2>2
    <3>3. CASE i \in 1..n
      <4>1. i \in 0..n /\ i - 1 \in 0..n /\ i # 0
        BY <3>3
      <4>2. f[i] = g[i] /\ f[i - 1] = g[i - 1]
        BY <4>1, <2>2
      <4>3. g[i] = IF g[i - 1] = 0 THEN 0 ELSE cells[g[i - 1]].to
        BY <3>3, <2>4, Zenon
      <4> QED BY <4>1, <4>2, <4>3, Zenon
    <3> QED BY <3>1, <3>2, <3>3
  <2>6. [i \in 0..n + 1 |-> f[i]] = [i \in 0..n + 1 |-> IF i = 0 THEN head ELSE IF f[i - 1] = 0 THEN 0 ELSE cells[f[i - 1]].to]
    BY <2>5, Zenon
  <2>7. Follows(cells, head, n + 1, f)
    BY <2>3, <2>6, Zenon DEF Follows
  <2> QED BY <2>7 DEF Good
<1> HIDE DEF Good
<1>3. Nat \subseteq Good
  BY <1>1, <1>2, Induction
<1> QED BY <1>3 DEF Good

\* Followed as far as there are cells, the chain has gone through its nodes and no other cell.
GoesThrough(g, m, nodes) == \A a \in 1..m : a \in nodes <=> \E i \in 0..m : g[i] = a
LEMMA ChainFollowed ==
    ASSUME NEW cells, NEW head \in Nat, NEW M \in Nat, NEW nodes, nodes \subseteq 1..M, ChainIs(cells, head, nodes),
           NEW g, Follows(cells, head, M, g)
    PROVE  GoesThrough(g, M, nodes)
<1> DEFINE Reached(b, i) == \E k \in 0..i : g[k] = b
           S == {i \in Nat : i <= M => /\ g[i] \in nodes \cup {0} /\ (g[i] = 0 \/ g[i] + i <= M)
                                       /\ \A b \in nodes : Reached(b, i) \/ b <= g[i]}
<1>1. g[0] = head /\ \A i \in 1..M : g[i] = IF g[i - 1] = 0 THEN 0 ELSE cells[g[i - 1]].to
  <2>1. GoesAlong(cells, head, M, g)
    BY FollowsStep
  <2> QED BY <2>1 DEF GoesAlong
<1>8. \A b \in nodes : b \in Nat /\ b >= 1 /\ b <= M
  OBVIOUS
<1>2. /\ head \in nodes \cup {0} /\ \A b \in nodes : b <= head
      /\ \A a \in nodes : /\ cells[a].to \in nodes \cup {0} /\ cells[a].to < a
                          /\ \A b \in nodes : b < a => b <= cells[a].to
  BY DEF ChainIs
<1>3. 0 \in S
  <2>1. g[0] \in nodes \cup {0} /\ \A b \in nodes : b <= g[0]
    BY <1>1, <1>2
  <2>2. g[0] = 0 \/ g[0] + 0 <= M
    <3>1. CASE g[0] \in nodes
      <4>1. g[0] \in Nat /\ g[0] <= M
        BY <3>1, <1>8
      <4> QED BY <4>1
    <3> QED BY <3>1, <2>1
  <2> QED BY <2>1, <2>2
<1>4. ASSUME NEW n \in Nat, n \in S PROVE n + 1 \in S
  <2> SUFFICES ASSUME n + 1 <= M
               PROVE  /\ g[n + 1] \in nodes \cup {0} /\ (g[n + 1] = 0 \/ g[n + 1] + (n + 1) <= M)
                      /\ \A b \in nodes : Reached(b, n + 1) \/ b <= g[n + 1]
    OBVIOUS
  <2>1. /\ g[n] \in nodes \cup {0} /\ (g[n] = 0 \/ g[n] + n <= M)
        /\ \A b \in nodes : Reached(b, n) \/ b <= g[n]
    BY <1>4
  <2>2. n + 1 \in 1..M /\ (n + 1) - 1 = n
    OBVIOUS
  <2>3. g[n + 1] = IF g[n] = 0 THEN 0 ELSE cells[g[n]].to
    BY <1>1, <2>2
  <2>4. \A b : Reached(b, n) => Reached(b, n + 1)
    <3> TAKE b
    <3> HAVE Reached(b, n)
    <3>1. PICK k \in 0..n : g[k] = b
      OBVIOUS
    <3>2. k \in 0..n + 1
      OBVIOUS
    <3> QED BY <3>1, <3>2
  <2>5. Reached(g[n], n + 1)
    <3>1. n \in 0..n + 1
      OBVIOUS
    <3> QED BY <3>1
  <2> HIDE DEF Reached
  <2>6. CASE g[n] = 0
    <3>1. g[n + 1] = 0
      BY <2>3, <2>6
    <3> QED BY <3>1, <2>1, <2>4, <2>6
  <2>7. CASE g[n] # 0
    <3>1. g[n] \in nodes /\ g[n + 1] = cells[g[n]].to /\ g[n] \in 1..M
      BY <2>1, <2>3, <2>7
    <3>2. g[n + 1] \in nodes \cup {0} /\ g[n + 1] < g[n] /\ \A b \in nodes : b < g[n] => b <= g[n + 1]
      BY <3>1, <1>2
    <3>3. g[n + 1] = 0 \/ g[n + 1] + (n + 1) <= M
      <4>1. g[n + 1] \in Nat /\ g[n] + n <= M /\ g[n] \in Nat
        <5>1. g[n] \in Nat
          BY <3>1
        <5>2. CASE g[n + 1] \in nodes
          BY <5>1, <5>2, <1>8, <2>1, <2>7
        <5>3. CASE g[n + 1] = 0
          BY <5>1, <5>3, <2>1, <2>7
        <5> QED BY <5>2, <5>3, <3>2
      <4> QED BY <4>1, <3>2
    <3>4. ASSUME NEW b \in nodes PROVE Reached(b, n + 1) \/ b <= g[n + 1]
      <4>1. Reached(b, n) \/ b <= g[n]
        BY <2>1
      <4>2. CASE b = g[n]
        BY <4>2, <2>5
      <4>3. CASE b # g[n]
        <5>1. b \in 1..M
          OBVIOUS
        <5>2. Reached(b, n) \/ b < g[n]
          BY <4>1, <4>3, <5>1, <3>1
        <5> QED BY <5>2, <3>2, <2>4
      <4> QED BY <4>2, <4>3
    <3> QED BY <3>2, <3>3, <3>4
  <2> QED BY <2>6, <2>7
<1> HIDE DEF S
<1>5. Nat \subseteq S
  BY <1>3, <1>4, Induction
<1> USE DEF S
<1>6. ASSUME NEW a \in nodes PROVE \E i \in 0..M : g[i] = a
  <2>1. M \in S
    BY <1>5
  <2>2. g[M] = 0
    <3>1. g[M] \in nodes \cup {0} /\ (g[M] = 0 \/ g[M] + M <= M)
      BY <2>1
    <3>2. CASE g[M] \in nodes
      <4>1. g[M] \in Nat /\ g[M] >= 1
        BY <3>2, <1>8
      <4> QED BY <3>1, <4>1
    <3> QED BY <3>1, <3>2
  <2>3. Reached(a, M) \/ a <= g[M]
    BY <2>1
  <2> QED BY <2>2, <2>3
<1>7. ASSUME NEW a \in 1..M, NEW i \in 0..M, g[i] = a PROVE a \in nodes
  <2>1. i \in S /\ i <= M
    BY <1>5
  <2>2. g[i] \in nodes \cup {0}
    BY <2>1
  <2> QED BY <2>2, <1>7
<1> QED BY <1>6, <1>7 DEF GoesThrough

LEMMA ChainPatched ==
    ASSUME NEW cells \in Seq(Cell), NEW head \in Nat, NEW nodes, nodes \subseteq 1..Len(cells), ChainIs(cells, head, nodes), NEW to
    PROVE  /\ Len(PatchLeaves(cells, head, to)) = Len(cells)
           /\ \A a \in nodes : PatchLeaves(cells, head, to)[a].to = to
           /\ \A a \in 1..Len(cells) : a \notin nodes => PatchLeaves(cells, head, to)[a] = cells[a]
<1> DEFINE M == Len(cells)
           node == CHOOSE g : Follows(cells, head, M, g)
           new == [a \in DOMAIN cells |-> IF \E i \in 0..M : node[i] = a THEN Target(to) ELSE cells[a]]
<1>1. M \in Nat /\ DOMAIN cells = 1..M
  OBVIOUS
<1>2. Follows(cells, head, M, node)
  BY <1>1, ChainCanBeFollowed
<1>3. PatchLeaves(cells, head, to) = new
  BY DEF PatchLeaves, Follows
<1>9. nodes \subseteq 1..M /\ ChainIs(cells, head, nodes)
  OBVIOUS
<1> HIDE DEF node, M
<1>4. \A a \in 1..M : a \in nodes <=> \E i \in 0..M : node[i] = a
  <2>1. GoesThrough(node, M, nodes)
    BY <1>1, <1>2, <1>9, ChainFollowed
  <2> QED BY <2>1 DEF GoesThrough
<1>5. \A a \in nodes : new[a] = Target(to)
  BY <1>1, <1>4
<1>6. \A a \in 1..M : a \notin nodes => new[a] = cells[a]
  BY <1>1, <1>4
<1>7. Len(new) = M
  BY <1>1
<1>8. Target(to).to = to
  BY DEF Target
<1> QED BY <1>3, <1>5, <1>6, <1>7, <1>8 DEF M
\* The kinds of words, by what they do to what is open.
Opens(fs, w, L, gs) == w \in Openers /\ gs = Opened(fs, w, L)
Turns(fs, w, L, gs) == w \in {"ELSE", "WHILE"} /\ fs # <<>> /\ TopOf(fs).s \in Needs(w) /\ gs = Turned(fs, w, L)
Drops(fs, w, L, gs) == w \in Closers /\ fs # <<>> /\ TopOf(fs).s \in Needs(w) /\ gs = Dropped(fs)
Stays(fs, w, L, gs) == w \in {"LEAVE", "EXIT", ";"} /\ gs = fs /\ (w = "LEAVE" => LoopOf(fs) # 0) /\ (w = ";" => fs = <<>>)

LEMMA KindsOf == ASSUME NEW fs, NEW w, NEW L, NEW gs
                 PROVE  After(fs, w, L, gs) <=> Opens(fs, w, L, gs) \/ Turns(fs, w, L, gs) \/ Drops(fs, w, L, gs) \/ Stays(fs, w, L, gs)
BY DEF After, Opens, Turns, Drops, Stays

\* The structures named, as Control has them.
LEMMA OpenPush == ASSUME NEW fs \in Seq(Frame), NEW w \in Openers, NEW L \in Nat, NEW o \in Seq(Structures), OpenIs(fs, o)
                  PROVE  OpenIs(Opened(fs, w, L), Append(o, w))
<1>1. PICK n : n = Len(fs) + 1
  OBVIOUS
<1>2. IsOpened(fs, w, L, Opened(fs, w, L), n)
  BY <1>1, OpenedIs
<1>3. /\ Len(fs) \in Nat /\ Len(Opened(fs, w, L)) = Len(fs) + 1 /\ \A j \in 1..Len(fs) : Opened(fs, w, L)[j] = fs[j]
      /\ Opened(fs, w, L)[Len(fs) + 1].s = w
  BY <1>1, <1>2 DEF IsOpened
<1>4. Len(o) = Len(fs) /\ \A j \in 1..Len(fs) : o[j] = fs[j].s
  BY DEF OpenIs
<1>5. Len(Append(o, w)) = Len(fs) + 1 /\ Append(o, w)[Len(fs) + 1] = w /\ \A j \in 1..Len(fs) : Append(o, w)[j] = o[j]
  BY <1>3, <1>4
<1>6. ASSUME NEW j \in 1..Len(fs) + 1 PROVE Append(o, w)[j] = Opened(fs, w, L)[j].s
  <2>1. CASE j = Len(fs) + 1
    BY <2>1, <1>3, <1>5
  <2>2. CASE j # Len(fs) + 1
    <3>1. j \in 1..Len(fs)
      BY <2>2, <1>3
    <3> QED BY <3>1, <1>3, <1>4, <1>5
  <2> QED BY <2>1, <2>2
<1> QED BY <1>3, <1>5, <1>6 DEF OpenIs

Shorter(o) == SubSeq(o, 1, Len(o) - 1)
LEMMA ShorterIs == ASSUME NEW T, NEW o \in Seq(T), o # <<>>
                   PROVE  Shorter(o) \in Seq(T) /\ Len(Shorter(o)) = Len(o) - 1 /\ \A j \in 1..Len(o) - 1 : Shorter(o)[j] = o[j]
<1>1. Len(o) \in Nat /\ Len(o) >= 1
  OBVIOUS
<1>2. PICK n \in Nat : n = Len(o) - 1
  BY <1>1
<1>3. SubSeq(o, 1, n) \in Seq(T) /\ Len(SubSeq(o, 1, n)) = n /\ \A j \in 1..n : SubSeq(o, 1, n)[j] = o[j]
  <2>1. \A i \in 1..n : o[i] \in T
    BY <1>1, <1>2
  <2>2. n \in Int /\ 1 \in Int
    OBVIOUS
  <2>3. /\ SubSeq(o, 1, n) \in Seq(T) /\ Len(SubSeq(o, 1, n)) = IF 1 <= n THEN n - 1 + 1 ELSE 0
        /\ \A i \in 1..n - 1 + 1 : SubSeq(o, 1, n)[i] = o[1 + i - 1]
    BY <2>1, <2>2, SubSeqProperties
  <2>4. Len(SubSeq(o, 1, n)) = n
    BY <2>3
  <2>5. \A i \in 1..n : SubSeq(o, 1, n)[i] = o[i]
    BY <2>3
  <2> QED BY <2>3, <2>4, <2>5
<1> QED BY <1>2, <1>3 DEF Shorter

LEMMA OpenTurn == ASSUME NEW fs \in Seq(Frame), fs # <<>>, NEW w \in {"ELSE", "WHILE"}, NEW L \in Nat,
                         NEW o \in Seq(Structures), OpenIs(fs, o)
                  PROVE  OpenIs(Turned(fs, w, L), Append(Shorter(o), w))
<1>1. PICK n : n = Len(fs)
  OBVIOUS
<1>2. IsTurned(fs, w, L, Turned(fs, w, L), n)
  BY <1>1, TurnedIs
<1>3. /\ n \in Nat /\ n >= 1 /\ Len(Turned(fs, w, L)) = n /\ \A j \in 1..n - 1 : Turned(fs, w, L)[j] = fs[j]
      /\ Turned(fs, w, L)[n].s = w
  BY <1>1, <1>2 DEF IsTurned
<1>4. Len(o) = n /\ (\A j \in 1..n : o[j] = fs[j].s) /\ o # <<>>
  BY <1>1, <1>3 DEF OpenIs
<1>5. Shorter(o) \in Seq(Structures) /\ Len(Shorter(o)) = n - 1 /\ \A j \in 1..n - 1 : Shorter(o)[j] = o[j]
  BY <1>4, ShorterIs
<1>6. /\ Len(Append(Shorter(o), w)) = n /\ Append(Shorter(o), w)[n] = w
      /\ \A j \in 1..n - 1 : Append(Shorter(o), w)[j] = Shorter(o)[j]
  <2>1. PICK q \in Seq(Structures) : q = Shorter(o)
    BY <1>5
  <2> QED BY <2>1, <1>3, <1>5
<1>7. ASSUME NEW j \in 1..n PROVE Append(Shorter(o), w)[j] = Turned(fs, w, L)[j].s
  <2>1. CASE j = n
    BY <2>1, <1>3, <1>6
  <2>2. CASE j # n
    <3>1. j \in 1..n - 1
      BY <2>2, <1>3
    <3> QED BY <3>1, <1>3, <1>4, <1>5, <1>6
  <2> QED BY <2>1, <2>2
<1> QED BY <1>3, <1>6, <1>7 DEF OpenIs

LEMMA OpenDrop == ASSUME NEW fs \in Seq(Frame), fs # <<>>, NEW o \in Seq(Structures), OpenIs(fs, o)
                  PROVE  OpenIs(Dropped(fs), Shorter(o))
<1>1. IsDropped(fs, Dropped(fs))
  BY DroppedIs
<1>2. Len(o) = Len(fs) /\ \A j \in 1..Len(fs) : o[j] = fs[j].s
  BY DEF OpenIs
<1>3. /\ Len(fs) \in Nat /\ Len(fs) >= 1 /\ Len(Dropped(fs)) = Len(fs) - 1
      /\ \A j \in 1..Len(Dropped(fs)) : Dropped(fs)[j] = fs[j]
  BY <1>1 DEF IsDropped
<1>4. o # <<>>
  BY <1>2, <1>3
<1>5. Len(Shorter(o)) = Len(fs) - 1 /\ \A j \in 1..Len(fs) - 1 : Shorter(o)[j] = o[j]
  BY <1>2, <1>4, ShorterIs
<1> QED BY <1>2, <1>3, <1>5 DEF OpenIs

\* What the word that ends a structure leaves of the count of loops and of addresses.
LEMMA DropCounts ==
    ASSUME NEW h, NEW ws, NEW L, h[L] \in Seq(Frame), StackSound(h, ws, L), h[L] # <<>>
    PROVE  /\ NestOf(h[L]) = NestOf(Dropped(h[L])) + Weight(TopOf(h[L]).s)
           /\ SpOf(h[L]) = SpOf(Dropped(h[L])) + Kept(TopOf(h[L]).s)
<1>1. PICK fs : fs = h[L]
  OBVIOUS
<1>2. PICK n : n = Len(fs)
  OBVIOUS
<1>3. fs \in Seq(Frame) /\ fs # <<>> /\ n \in Nat /\ n >= 1 /\ n \in 1..Len(fs)
  BY <1>1, <1>2
<1>4. IsDropped(fs, Dropped(fs))
  BY <1>3, DroppedIs
<1>5. Dropped(fs) \in Seq(Frame) /\ Len(Dropped(fs)) = n - 1 /\ \A j \in 1..n - 1 : Dropped(fs)[j] = fs[j]
  BY <1>2, <1>4 DEF IsDropped
<1>6. BelowSound(fs, n)
  BY <1>1, <1>3 DEF StackSound, SoundAt
<1>7. NestOf(fs) = fs[n].nest /\ SpOf(fs) = fs[n].sp /\ TopOf(fs) = fs[n]
  BY <1>2, <1>3 DEF NestOf, SpOf, TopOf
<1>8. CASE n = 1
  <2>1. Dropped(fs) = <<>>
    BY <1>5, <1>8
  <2>2. NestOf(Dropped(fs)) = 0 /\ SpOf(Dropped(fs)) = 0
    BY <2>1 DEF NestOf, SpOf
  <2>3. Weight(fs[n].s) \in Nat /\ Kept(fs[n].s) \in Nat
    BY DEF Weight, Kept
  <2> QED BY <2>2, <2>3, <1>1, <1>6, <1>7, <1>8 DEF BelowSound
<1>9. CASE n # 1
  <2>1. n > 1 /\ n - 1 \in 1..n - 1
    BY <1>3, <1>9
  <2>2. Dropped(fs) # <<>> /\ Dropped(fs)[n - 1] = fs[n - 1]
    BY <2>1, <1>5
  <2>3. NestOf(Dropped(fs)) = fs[n - 1].nest /\ SpOf(Dropped(fs)) = fs[n - 1].sp
    BY <2>2, <1>5 DEF NestOf, SpOf
  <2> QED BY <2>1, <2>3, <1>1, <1>6, <1>7 DEF BelowSound
<1> QED BY <1>8, <1>9

\* What a word finds innermost.
LEMMA InnermostIs ==
    ASSUME NEW fs \in Seq(Frame), open \in Seq(Structures), OpenIs(fs, open), NEW S, Innermost(S)
    PROVE  fs # <<>> /\ TopOf(fs).s \in S /\ TopOf(fs).s = open[Len(open)]
<1>1. Len(open) = Len(fs) /\ \A j \in 1..Len(fs) : open[j] = fs[j].s
  BY DEF OpenIs
<1>2. Len(fs) \in Nat
  OBVIOUS
<1>3. open # <<>> /\ open[Len(open)] \in S
  BY DEF Innermost
<1>4. CASE fs = <<>>
  <2>1. Len(open) = 0
    BY <1>1, <1>4
  <2> QED BY <2>1, <1>3
<1>5. CASE fs # <<>>
  <2>1. Len(fs) \in 1..Len(fs)
    BY <1>5
  <2> QED BY <2>1, <1>1, <1>3, <1>5 DEF TopOf
<1> QED BY <1>4, <1>5
AgreeTo(cs2, cs, m) == \A i \in 1..m : cs2[i] = cs[i]
\* The addresses of a structure that stays are where they were.
LEMMA HoldsKept ==
    ASSUME NEW ws, NEW ws2, NEW L \in Nat, \A x \in 1..L - 1 : ws2[x] = ws[x], NEW fs, NEW j, FrameSound(ws, fs, L, j), fs[j] \in Frame,
           NEW cs, NEW cs2, NEW base \in Nat, HoldsFrame(ws, fs[j], cs, base),
           NEW m \in Nat, base + fs[j].sp <= m, AgreeTo(cs2, cs, m)
    PROVE  HoldsFrame(ws2, fs[j], cs2, base)
<1>1. PICK f : f = fs[j]
  OBVIOUS
<1>2. f.at \in Nat /\ f.hole \in Nat /\ f.sp \in Nat /\ f.s \in Structures
  BY <1>1, FrameFields
<1>3. /\ f.at \in 1..L - 1 /\ (f.s \in {"BEGIN", "DO"} => f.hole = 0) /\ (f.s = "IF" => f.hole = f.at)
      /\ (f.s \in {"ELSE", "WHILE"} => f.hole \in f.at + 1..L - 1) /\ f.sp >= Kept(f.s)
  BY <1>1 DEF FrameSound
<1>4. ws2[f.at] = ws[f.at]
  BY <1>3
<1>5. f.hole # 0 => ws2[f.hole] = ws[f.hole]
  <2> SUFFICES ASSUME f.hole # 0 PROVE f.hole \in 1..L - 1
    OBVIOUS
  <2> QED BY <1>2, <1>3 DEF Structures
<1>6. f.sp >= 1 /\ (f.s = "WHILE" => f.sp >= 2)
  BY <1>2, <1>3 DEF Kept
<1>7. base + f.sp \in 1..m
  BY <1>1, <1>2, <1>6
<1>8. f.s = "WHILE" => base + f.sp - 1 \in 1..m
  BY <1>1, <1>2, <1>6
<1>9. cs2[base + f.sp] = cs[base + f.sp] /\ (f.s = "WHILE" => cs2[base + f.sp - 1] = cs[base + f.sp - 1])
  BY <1>7, <1>8 DEF AgreeTo
<1> QED BY <1>1, <1>4, <1>5, <1>9 DEF HoldsFrame

\* What is known before the word is read.
HoldsBefore(h, ws, w, gs, h2, ws2, cs, lf) ==
    /\ Grows(h, ws, w, gs, h2, ws2) /\ cs \in Seq(Nat) /\ lf \in Seq(Nat) /\ Holds(ws, h[Len(ws) + 1], cs, lf)

LEMMA HoldsAllKept ==
    ASSUME NEW h, NEW ws, NEW w, NEW gs, NEW h2, NEW ws2, NEW cs, NEW lf, HoldsBefore(h, ws, w, gs, h2, ws2, cs, lf),
           NEW L, L = Len(ws) + 1, NEW cs2, NEW m \in Nat, AgreeTo(cs2, cs, m),
           NEW j \in 1..Len(h[L]), Len(lf) + h[L][j].sp <= m
    PROVE  HoldsFrame(ws2, h[L][j], cs2, Len(lf))
<1>1. /\ L \in Nat /\ (\A x \in 1..L - 1 : ws2[x] = ws[x]) /\ h[L] \in Seq(Frame) /\ StackSound(h, ws, L)
  BY GrowsFacts DEF HoldsBefore
<1>2. FrameSound(ws, h[L], L, j) /\ h[L][j] \in Frame
  BY <1>1 DEF StackSound, SoundAt
<1>3. HoldsFrame(ws, h[L][j], cs, Len(lf)) /\ Len(lf) \in Nat
  BY DEF HoldsBefore, Holds
<1>4. PICK fs : fs = h[L]
  OBVIOUS
<1> QED BY <1>1, <1>2, <1>3, HoldsKept

LEMMA HoldsStays ==
    ASSUME NEW h, NEW ws, NEW w, NEW gs, NEW h2, NEW ws2, NEW cs, NEW lf, HoldsBefore(h, ws, w, gs, h2, ws2, cs, lf),
           gs = h[Len(ws) + 1]
    PROVE  Holds(ws2, gs, cs, lf)
<1>1. PICK L : L = Len(ws) + 1
  OBVIOUS
<1>2. h[L] \in Seq(Frame) /\ StackSound(h, ws, L) /\ cs \in Seq(Nat) /\ lf \in Seq(Nat) /\ gs = h[L]
  BY <1>1, GrowsFacts DEF HoldsBefore
<1>3. Len(cs) = Len(lf) + SpOf(gs) /\ Len(cs) \in Nat /\ Len(lf) \in Nat
  BY <1>1, <1>2 DEF HoldsBefore, Holds
<1>4. ASSUME NEW j \in 1..Len(gs) PROVE HoldsFrame(ws2, gs[j], cs, Len(lf))
  <2>1. gs[j].sp <= SpOf(gs)
    BY <1>2, InnermostTells
  <2>2. gs[j].sp \in Nat /\ SpOf(gs) \in Nat
    BY <1>2, StackFields, FrameFields
  <2>3. Len(lf) + gs[j].sp <= Len(cs)
    BY <2>1, <2>2, <1>3
  <2>4. AgreeTo(cs, cs, Len(cs))
    BY DEF AgreeTo
  <2> QED BY <2>3, <2>4, <1>1, <1>2, <1>3, HoldsAllKept
<1> QED BY <1>3, <1>4 DEF Holds

LEMMA HoldsOpens ==
    ASSUME NEW h, NEW ws, NEW w, NEW gs, NEW h2, NEW ws2, NEW cs, NEW lf, HoldsBefore(h, ws, w, gs, h2, ws2, cs, lf),
           NEW L, L = Len(ws) + 1, Opens(h[L], w, L, gs), NEW a \in Nat,
           w \in {"IF", "DO"} => a = ws2[L].code + 1, w = "BEGIN" => a = ws2[L].code
    PROVE  Holds(ws2, gs, Append(cs, a), lf)
<1>1. PICK fs : fs = h[L]
  OBVIOUS
<1>2. L \in Nat /\ L >= 1 /\ fs \in Seq(Frame) /\ StackSound(h, ws, L) /\ cs \in Seq(Nat) /\ lf \in Seq(Nat) /\ w \in Openers /\ Len(fs) \in Nat
  <2>1. L \in Nat /\ L >= 1 /\ fs \in Seq(Frame) /\ StackSound(h, ws, L)
    BY <1>1, GrowsFacts DEF HoldsBefore
  <2> QED BY <2>1 DEF HoldsBefore, Opens
<1>3. Len(cs) = Len(lf) + SpOf(fs) /\ Len(cs) \in Nat /\ Len(lf) \in Nat /\ SpOf(fs) \in Nat
  BY <1>1, <1>2, StackFields DEF HoldsBefore, Holds
<1>4. PICK n : n = Len(fs) + 1
  OBVIOUS
<1>5. IsOpened(fs, w, L, gs, n)
  BY <1>1, <1>2, <1>4, OpenedIs DEF Opens
<1>6. /\ gs \in Seq(Frame) /\ Len(gs) = n /\ \A j \in 1..Len(fs) : gs[j] = fs[j]
      /\ gs[n].s = w /\ gs[n].at = L /\ gs[n].hole = (IF w = "IF" THEN L ELSE 0) /\ gs[n].sp = SpOf(fs) + 1
  BY <1>5 DEF IsOpened
<1>7. /\ Len(Append(cs, a)) = Len(cs) + 1 /\ Append(cs, a)[Len(cs) + 1] = a
      /\ AgreeTo(Append(cs, a), cs, Len(cs))
  BY <1>2 DEF AgreeTo
<1>8. SpOf(gs) = SpOf(fs) + 1
  <2>1. gs # <<>> /\ Len(gs) = n
    BY <1>2, <1>4, <1>6
  <2> QED BY <2>1, <1>6 DEF SpOf
<1>9. Len(Append(cs, a)) = Len(lf) + SpOf(gs)
  BY <1>3, <1>7, <1>8
<1>10. ASSUME NEW j \in 1..Len(gs) PROVE HoldsFrame(ws2, gs[j], Append(cs, a), Len(lf))
  <2>1. CASE j = n
    <3>1. Len(lf) + gs[n].sp = Len(cs) + 1
      BY <1>3, <1>6
    <3>2. Append(cs, a)[Len(lf) + gs[n].sp] = a
      BY <3>1, <1>7
    <3>3. w \in {"IF", "BEGIN", "DO"}
      BY <1>2 DEF Openers
    <3> QED BY <2>1, <3>2, <3>3, <1>6 DEF HoldsFrame
  <2>2. CASE j # n
    <3>1. j \in 1..Len(fs) /\ gs[j] = fs[j]
      BY <2>2, <1>2, <1>4, <1>6
    <3>2. fs[j].sp <= SpOf(fs) /\ fs[j].sp \in Nat
      BY <3>1, <1>1, <1>2, InnermostTells, StackFields, FrameFields
    <3>3. Len(lf) + fs[j].sp <= Len(cs)
      BY <3>2, <1>3
    <3> QED BY <3>1, <3>3, <1>1, <1>3, <1>7, HoldsAllKept
  <2> QED BY <2>1, <2>2
<1> QED BY <1>9, <1>10 DEF Holds

LEMMA HoldsDrops ==
    ASSUME NEW h, NEW ws, NEW w, NEW gs, NEW h2, NEW ws2, NEW cs, NEW lf, HoldsBefore(h, ws, w, gs, h2, ws2, cs, lf),
           NEW L, L = Len(ws) + 1, Drops(h[L], w, L, gs), NEW k, k = Kept(TopOf(h[L]).s)
    PROVE  Holds(ws2, gs, SubSeq(cs, 1, Len(cs) - k), lf)
<1>1. PICK fs : fs = h[L]
  OBVIOUS
<1>2. L \in Nat /\ L >= 1 /\ fs \in Seq(Frame) /\ StackSound(h, ws, L) /\ cs \in Seq(Nat) /\ lf \in Seq(Nat) /\ fs # <<>>
  <2>1. L \in Nat /\ L >= 1 /\ fs \in Seq(Frame) /\ StackSound(h, ws, L)
    BY <1>1, GrowsFacts DEF HoldsBefore
  <2> QED BY <2>1, <1>1 DEF HoldsBefore, Drops
<1>3. Len(cs) = Len(lf) + SpOf(fs) /\ Len(cs) \in Nat /\ Len(lf) \in Nat /\ SpOf(fs) \in Nat
  BY <1>1, <1>2, StackFields DEF HoldsBefore, Holds
<1>4. gs = Dropped(fs) /\ IsDropped(fs, gs)
  BY <1>1, <1>2, DroppedIs DEF Drops
<1>5. gs \in Seq(Frame) /\ Len(gs) = Len(fs) - 1 /\ Len(fs) \in Nat /\ \A j \in 1..Len(gs) : gs[j] = fs[j]
  BY <1>4 DEF IsDropped
<1>6. SpOf(fs) = SpOf(gs) + k /\ SpOf(gs) \in Nat /\ k \in {1, 2}
  <2>1. SpOf(fs) = SpOf(gs) + k
    BY <1>1, <1>2, <1>4, DropCounts
  <2> QED BY <2>1, <1>5, StackFields DEF Kept
<1>7. PICK m \in Nat : m = Len(cs) - k
  BY <1>3, <1>6
<1>8. Len(SubSeq(cs, 1, m)) = m /\ AgreeTo(SubSeq(cs, 1, m), cs, m)
  <2>1. m \in 0..Len(cs)
    BY <1>3, <1>6, <1>7
  <2> QED BY <2>1, <1>2 DEF AgreeTo
<1>9. m = Len(lf) + SpOf(gs)
  BY <1>3, <1>6, <1>7
<1>10. ASSUME NEW j \in 1..Len(gs) PROVE HoldsFrame(ws2, gs[j], SubSeq(cs, 1, m), Len(lf))
  <2>1. j \in 1..Len(fs) /\ gs[j] = fs[j] /\ Len(fs) \in 1..Len(fs) /\ j < Len(fs)
    BY <1>5
  <2>2. j \in 1..Len(fs) - 1
    BY <2>1, <1>5
  <2>3. fs[j].sp + Kept(fs[Len(fs)].s) <= fs[Len(fs)].sp /\ fs[j].sp \in Nat
    BY <2>1, <2>2, <1>1, <1>2, StackFields, FrameFields DEF StackSound, SoundAt, FramesSound
  <2>4. fs[Len(fs)].sp = SpOf(fs) /\ Kept(fs[Len(fs)].s) = k
    BY <1>1, <1>2 DEF SpOf, TopOf
  <2>6. fs[j].sp + k <= SpOf(gs) + k
    BY <2>3, <2>4, <1>6
  <2>7. fs[j].sp <= SpOf(gs)
    BY <2>3, <2>6, <1>6
  <2>5. Len(lf) + fs[j].sp <= m
    BY <2>3, <2>7, <1>3, <1>6, <1>9, SMTT(30)
  <2> QED BY <2>1, <2>5, <1>1, <1>8, HoldsAllKept
<1> QED BY <1>7, <1>8, <1>9, <1>10 DEF Holds

\* ELSE puts its branch where IF's was; WHILE puts its own over BEGIN's address.
LEMMA HoldsElse ==
    ASSUME NEW h, NEW ws, NEW gs, NEW h2, NEW ws2, NEW cs, NEW lf, HoldsBefore(h, ws, "ELSE", gs, h2, ws2, cs, lf),
           NEW L, L = Len(ws) + 1, Turns(h[L], "ELSE", L, gs), NEW a \in Nat, a = ws2[L].code + 1
    PROVE  Holds(ws2, gs, Append(SubSeq(cs, 1, Len(cs) - 1), a), lf)
<1>1. PICK fs : fs = h[L]
  OBVIOUS
<1>2. L \in Nat /\ L >= 1 /\ fs \in Seq(Frame) /\ StackSound(h, ws, L) /\ cs \in Seq(Nat) /\ lf \in Seq(Nat) /\ fs # <<>>
  <2>1. L \in Nat /\ L >= 1 /\ fs \in Seq(Frame) /\ StackSound(h, ws, L)
    BY <1>1, GrowsFacts DEF HoldsBefore
  <2> QED BY <2>1, <1>1 DEF HoldsBefore, Turns
<1>3. Len(cs) = Len(lf) + SpOf(fs) /\ Len(cs) \in Nat /\ Len(lf) \in Nat /\ SpOf(fs) \in Nat
  BY <1>1, <1>2, StackFields DEF HoldsBefore, Holds
<1>4. PICK n : n = Len(fs)
  OBVIOUS
<1>5. IsTurned(fs, "ELSE", L, gs, n)
  BY <1>1, <1>2, <1>4, TurnedIs DEF Turns
<1>6. /\ gs \in Seq(Frame) /\ Len(gs) = n /\ n >= 1 /\ n \in Nat /\ \A j \in 1..n - 1 : gs[j] = fs[j]
      /\ gs[n].s = "ELSE" /\ gs[n].at = fs[n].at /\ gs[n].hole = L /\ gs[n].sp = fs[n].sp
  BY <1>2, <1>4, <1>5 DEF IsTurned
<1>7. SpOf(fs) = fs[n].sp /\ SpOf(gs) = fs[n].sp /\ fs[n].s = "IF"
  <2>1. gs # <<>>
    BY <1>6
  <2> QED BY <2>1, <1>1, <1>2, <1>4, <1>6 DEF SpOf, Turns, TopOf, Needs, LoopEnds
<1>8. fs[n].sp >= 1
  <2>1. FrameSound(ws, fs, L, n)
    BY <1>1, <1>4, <1>6, <1>2 DEF StackSound, SoundAt
  <2> QED BY <2>1, <1>7 DEF FrameSound, Kept
<1>9. PICK m \in Nat : m = Len(cs) - 1
  BY <1>3, <1>7, <1>8
<1>10. SubSeq(cs, 1, m) \in Seq(Nat) /\ Len(SubSeq(cs, 1, m)) = m /\ \A i \in 1..m : SubSeq(cs, 1, m)[i] = cs[i]
  <2>1. m \in 0..Len(cs)
    BY <1>3, <1>9
  <2> QED BY <2>1, <1>2
<1>11. PICK cs2 : cs2 = Append(SubSeq(cs, 1, m), a)
  OBVIOUS
<1>12. Len(cs2) = m + 1 /\ cs2[m + 1] = a /\ AgreeTo(cs2, cs, m)
  <2>1. PICK q \in Seq(Nat) : q = SubSeq(cs, 1, m)
    BY <1>10
  <2> QED BY <2>1, <1>10, <1>11 DEF AgreeTo
<1>13. Len(cs2) = Len(lf) + SpOf(gs)
  BY <1>3, <1>7, <1>9, <1>12
<1>14. ASSUME NEW j \in 1..Len(gs) PROVE HoldsFrame(ws2, gs[j], cs2, Len(lf))
  <2>1. CASE j = n
    <3>1. Len(lf) + gs[n].sp = m + 1
      BY <1>3, <1>6, <1>7, <1>9
    <3> QED BY <2>1, <3>1, <1>6, <1>12 DEF HoldsFrame
  <2>2. CASE j # n
    <3>1. j \in 1..n - 1 /\ gs[j] = fs[j] /\ j \in 1..Len(fs)
      BY <2>2, <1>4, <1>6
    <3>2. fs[j].sp + Kept(fs[n].s) <= fs[n].sp /\ fs[j].sp \in Nat
      <4>1. n \in 1..Len(fs)
        BY <1>4, <1>6
      <4> QED BY <3>1, <4>1, <1>1, <1>2, StackFields, FrameFields DEF StackSound, SoundAt, FramesSound
    <3>3. Kept(fs[n].s) = 1
      BY <1>7 DEF Kept
    <3>5. fs[j].sp + 1 <= SpOf(fs)
      BY <3>2, <3>3, <1>7
    <3>4. Len(lf) + fs[j].sp <= m
      BY <3>2, <3>5, <1>3, <1>9
    <3> QED BY <3>1, <3>4, <1>1, <1>12, HoldsAllKept
  <2> QED BY <2>1, <2>2
<1> QED BY <1>9, <1>11, <1>13, <1>14 DEF Holds

LEMMA HoldsWhile ==
    ASSUME NEW h, NEW ws, NEW gs, NEW h2, NEW ws2, NEW cs, NEW lf, HoldsBefore(h, ws, "WHILE", gs, h2, ws2, cs, lf),
           NEW L, L = Len(ws) + 1, Turns(h[L], "WHILE", L, gs), NEW a \in Nat, a = ws2[L].code + 1
    PROVE  Holds(ws2, gs, Append(cs, a), lf)
<1>1. PICK fs : fs = h[L]
  OBVIOUS
<1>2. L \in Nat /\ L >= 1 /\ fs \in Seq(Frame) /\ StackSound(h, ws, L) /\ cs \in Seq(Nat) /\ lf \in Seq(Nat) /\ fs # <<>>
      /\ \A x \in 1..L - 1 : ws2[x] = ws[x]
  <2>1. L \in Nat /\ L >= 1 /\ fs \in Seq(Frame) /\ StackSound(h, ws, L) /\ \A x \in 1..L - 1 : ws2[x] = ws[x]
    BY <1>1, GrowsFacts DEF HoldsBefore
  <2> QED BY <2>1, <1>1 DEF HoldsBefore, Turns
<1>3. Len(cs) = Len(lf) + SpOf(fs) /\ Len(cs) \in Nat /\ Len(lf) \in Nat /\ SpOf(fs) \in Nat
  BY <1>1, <1>2, StackFields DEF HoldsBefore, Holds
<1>4. PICK n : n = Len(fs)
  OBVIOUS
<1>5. IsTurned(fs, "WHILE", L, gs, n)
  BY <1>1, <1>2, <1>4, TurnedIs DEF Turns
<1>6. /\ gs \in Seq(Frame) /\ Len(gs) = n /\ n >= 1 /\ n \in Nat /\ \A j \in 1..n - 1 : gs[j] = fs[j]
      /\ gs[n].s = "WHILE" /\ gs[n].at = fs[n].at /\ gs[n].hole = L /\ gs[n].sp = fs[n].sp + 1
  BY <1>2, <1>4, <1>5 DEF IsTurned
<1>7. SpOf(fs) = fs[n].sp /\ SpOf(gs) = fs[n].sp + 1 /\ fs[n].s = "BEGIN" /\ n \in 1..Len(fs)
  <2>1. gs # <<>>
    BY <1>6
  <2> QED BY <2>1, <1>1, <1>2, <1>4, <1>6 DEF SpOf, Turns, TopOf, Needs, LoopEnds
<1>8. /\ Len(Append(cs, a)) = Len(cs) + 1 /\ Append(cs, a)[Len(cs) + 1] = a
      /\ AgreeTo(Append(cs, a), cs, Len(cs))
  BY <1>2 DEF AgreeTo
<1>9. Len(Append(cs, a)) = Len(lf) + SpOf(gs)
  BY <1>3, <1>7, <1>8
<1>10. ASSUME NEW j \in 1..Len(gs) PROVE HoldsFrame(ws2, gs[j], Append(cs, a), Len(lf))
  <2>0. j \in 1..Len(fs)
    BY <1>4, <1>6
  <2>1. fs[j].sp <= SpOf(fs) /\ fs[j].sp \in Nat
    BY <2>0, <1>1, <1>2, InnermostTells, StackFields, FrameFields
  <2>2. Len(lf) + fs[j].sp <= Len(cs)
    BY <2>1, <1>3
  <2>3. HoldsFrame(ws2, fs[j], Append(cs, a), Len(lf))
    BY <2>0, <2>2, <1>1, <1>3, <1>8, HoldsAllKept
  <2>4. CASE j = n
    <3>1. Append(cs, a)[Len(lf) + fs[n].sp] = ws2[fs[n].at].code
      BY <2>3, <2>4, <1>7 DEF HoldsFrame
    <3>2. Len(lf) + gs[n].sp = Len(cs) + 1 /\ Len(lf) + gs[n].sp - 1 = Len(lf) + fs[n].sp
      <4>1. gs[n].sp = SpOf(fs) + 1 /\ fs[n].sp = SpOf(fs)
        BY <1>6, <1>7
      <4> QED BY <4>1, <1>3
    <3>3. Append(cs, a)[Len(lf) + gs[n].sp] = a /\ Append(cs, a)[Len(lf) + gs[n].sp - 1] = ws2[gs[n].at].code
      BY <3>1, <3>2, <1>6, <1>8
    <3> QED BY <2>4, <3>3, <1>6 DEF HoldsFrame
  <2>5. CASE j # n
    <3>1. j \in 1..n - 1 /\ gs[j] = fs[j]
      BY <2>0, <2>5, <1>4, <1>6
    <3> QED BY <3>1, <2>3
  <2> QED BY <2>4, <2>5
<1> QED BY <1>9, <1>10 DEF Holds
LEMMA ChainCells == ASSUME NEW cells, NEW cells2, NEW head, NEW nodes, ChainIs(cells, head, nodes), \A a \in nodes : cells2[a] = cells[a]
                    PROVE  ChainIs(cells2, head, nodes)
BY DEF ChainIs

\* What the code that grew is, with L the word read.
LEMMA CellsFacts ==
    ASSUME NEW h, NEW ws, NEW cd, NEW w, NEW gs, NEW h2, NEW ws2, NEW cd2, NEW A,
           CellsGrow(h, ws, cd, w, gs, h2, ws2, cd2, A), NEW L, L = Len(ws) + 1
    PROVE  /\ Grows(h, ws, w, gs, h2, ws2) /\ ws \in Seq(WordRecord) /\ cd \in Seq(Cell) /\ Laid(h, ws, cd)
           /\ ws2[L].code = Len(cd) + 1 /\ Len(cd2) = Len(cd) + Size(w, NestOf(h[L])) /\ Len(cd) \in Nat
           /\ \A a \in A : \E x \in 1..Len(ws) : ws[x].word \in Forward /\ Fixes(h2, ws2, x, L) /\ a = ws[x].code + 1
           /\ \A a \in 1..Len(cd) : a \notin A => cd2[a] = cd[a]
           /\ ws2 \in Seq(WordRecord)
           /\ L \in Nat /\ L >= 1 /\ Len(ws) = L - 1 /\ Len(ws2) = L /\ \A x \in 1..L - 1 : ws2[x] = ws[x]
           /\ ws2[L].word = w /\ \A t \in 1..L : h2[t] = h[t]
           /\ h2[L + 1] = gs /\ History(h, ws) /\ History(h2, ws2) /\ h[L] \in Seq(Frame) /\ gs \in Seq(Frame)
           /\ StackSound(h, ws, L) /\ After(h[L], w, L, gs)
<1>1. /\ Grows(h, ws, w, gs, h2, ws2) /\ ws \in Seq(WordRecord) /\ cd \in Seq(Cell) /\ Laid(h, ws, cd)
      /\ ws2[L].code = Len(cd) + 1 /\ Len(cd2) = Len(cd) + Size(w, NestOf(h[L])) /\ ws2 \in Seq(WordRecord)
  BY DEF CellsGrow, Grows
<1>2. /\ \A a \in A : \E x \in 1..Len(ws) : ws[x].word \in Forward /\ Fixes(h2, ws2, x, L) /\ a = ws[x].code + 1
      /\ \A a \in 1..Len(cd) : a \notin A => cd2[a] = cd[a]
  BY DEF CellsGrow
<1>3. /\ L \in Nat /\ L >= 1 /\ Len(ws) = L - 1 /\ Len(ws2) = L /\ \A x \in 1..L - 1 : ws2[x] = ws[x]
      /\ ws2[L].word = w /\ \A t \in 1..L : h2[t] = h[t]
      /\ h2[L + 1] = gs /\ History(h, ws) /\ h[L] \in Seq(Frame) /\ gs \in Seq(Frame)
      /\ StackSound(h, ws, L) /\ After(h[L], w, L, gs)
  BY <1>1, GrowsFacts
<1>4. History(h2, ws2)
  BY <1>1, HistoryGrows
<1> QED BY <1>1, <1>2, <1>3, <1>4

\* A branch's two cells, and the one it waits with.
LEMMA BranchCell ==
    ASSUME NEW h, NEW ws \in Seq(WordRecord), NEW cd \in Seq(Cell), History(h, ws), Laid(h, ws, cd),
           NEW x \in 1..Len(ws), ws[x].word \in Forward
    PROVE  /\ ws[x].code \in Nat /\ ws[x].code >= 1 /\ ws[x].code + 1 \in 1..Len(cd)
           /\ \A y \in 1..Len(ws) : ws[y].code + 1 = ws[x].code + 1 /\ ws[y].word \in Forward => y = x
<1>1. ASSUME NEW y \in 1..Len(ws), ws[y].word \in Forward
      PROVE  ws[y].code \in Nat /\ ws[y].code >= 1 /\ Size(ws[y].word, NestOf(h[y])) = 2 /\ ws[y].code + 2 <= Len(cd) + 1
  <2>1. y \in 1..Len(ws) + 1 /\ Len(ws) \in Nat
    OBVIOUS
  <2>2. NestOf(h[y]) \in Nat
    BY <2>1, HistoryAt, StackFields
  <2>3. Size(ws[y].word, NestOf(h[y])) = 2
    BY <1>1, <2>2, SizeIs
  <2>4. ws[y].code \in Nat /\ ws[y].code >= 1 /\ ws[y].code + Size(ws[y].word, NestOf(h[y])) <= Len(cd) + 1
    BY InTheCode
  <2> QED BY <2>3, <2>4
<1>2. Len(cd) \in Nat
  OBVIOUS
<1>3. ws[x].code + 1 \in 1..Len(cd) /\ ws[x].code \in Nat /\ ws[x].code >= 1
  BY <1>1, <1>2
<1>4. ASSUME NEW y \in 1..Len(ws), ws[y].code + 1 = ws[x].code + 1, ws[y].word \in Forward PROVE y = x
  <2>1. 1 \in 0..Size(ws[y].word, NestOf(h[y])) - 1
    <3>1. Size(ws[y].word, NestOf(h[y])) = 2
      BY <1>1, <1>4
    <3> QED BY <3>1
  <2> SUFFICES ASSUME y # x PROVE FALSE
    OBVIOUS
  <2>2. \A i \in 0..Size(ws[y].word, NestOf(h[y])) - 1 : ws[y].code + i # ws[x].code + 1
    BY BranchesApart
  <2> QED BY <2>1, <2>2, <1>4
<1> QED BY <1>3, <1>4

\* The chain of a loop that stays open, and gets no LEAVE, stays.
LEMMA ChainStays ==
    ASSUME NEW h, NEW ws, NEW cd, NEW w, NEW gs, NEW h2, NEW ws2, NEW cd2, NEW A,
           CellsGrow(h, ws, cd, w, gs, h2, ws2, cd2, A), NEW L, L = Len(ws) + 1,
           NEW l, IsOpen(gs, l), w = "LEAVE" => LoopOf(h[L]) # l, NEW head, ChainIs(cd, head, Nodes(h, ws, l))
    PROVE  ChainIs(cd2, head, Nodes(h2, ws2, l))
<1>1. /\ ws \in Seq(WordRecord) /\ cd \in Seq(Cell) /\ Laid(h, ws, cd) /\ History(h, ws) /\ History(h2, ws2)
      /\ \A a \in A : \E x \in 1..Len(ws) : ws[x].word \in Forward /\ Fixes(h2, ws2, x, L) /\ a = ws[x].code + 1
      /\ \A a \in 1..Len(cd) : a \notin A => cd2[a] = cd[a]
  BY CellsFacts
<1>2. /\ L \in Nat /\ L >= 1 /\ Len(ws) = L - 1 /\ Len(ws2) = L /\ \A x \in 1..L - 1 : ws2[x] = ws[x]
      /\ ws2[L].word = w /\ \A t \in 1..L : h2[t] = h[t]
      /\ h2[L + 1] = gs
  BY CellsFacts
<1>3. Leaves(h2, ws2, l) = Leaves(h, ws, l)
  <2>1. ASSUME NEW x \in 1..L - 1 PROVE ws2[x] = ws[x] /\ h2[x] = h[x]
    BY <1>2
  <2>2. ~(ws2[L].word = "LEAVE" /\ LoopOf(h2[L]) = l)
    BY <1>2
  <2>3. ASSUME NEW x \in Leaves(h2, ws2, l) PROVE x \in Leaves(h, ws, l)
    <3>1. x \in 1..L /\ ws2[x].word = "LEAVE" /\ LoopOf(h2[x]) = l
      BY <1>2 DEF Leaves
    <3>2. x # L
      BY <3>1, <2>2
    <3>3. x \in 1..L - 1 /\ x \in 1..Len(ws)
      BY <3>1, <3>2, <1>2
    <3> QED BY <3>1, <3>3, <2>1 DEF Leaves
  <2>4. ASSUME NEW x \in Leaves(h, ws, l) PROVE x \in Leaves(h2, ws2, l)
    <3>1. x \in 1..L - 1 /\ ws[x].word = "LEAVE" /\ LoopOf(h[x]) = l
      BY <1>2 DEF Leaves
    <3>2. x \in 1..Len(ws2)
      BY <3>1, <1>2
    <3> QED BY <3>1, <3>2, <2>1 DEF Leaves
  <2> QED BY <2>3, <2>4
<1>4. ASSUME NEW x \in Leaves(h, ws, l) PROVE ws2[x] = ws[x] /\ cd2[ws[x].code + 1] = cd[ws[x].code + 1]
  <2>1. x \in 1..Len(ws) /\ x \in 1..L - 1 /\ ws[x].word = "LEAVE" /\ LoopOf(h[x]) = l /\ ws[x].word \in Forward /\ ws2[x] = ws[x] /\ h2[x] = h[x]
    BY <1>2 DEF Leaves, Forward
  <2>2. /\ ws[x].code + 1 \in 1..Len(cd)
        /\ \A y \in 1..Len(ws) : ws[y].code + 1 = ws[x].code + 1 /\ ws[y].word \in Forward => y = x
    BY <1>1, <2>1, BranchCell
  <2>3. ASSUME ws[x].code + 1 \in A PROVE FALSE
    <3>1. PICK y \in 1..Len(ws) : ws[y].word \in Forward /\ Fixes(h2, ws2, y, L) /\ ws[x].code + 1 = ws[y].code + 1
      BY <1>1, <2>3
    <3>2. Fixes(h2, ws2, x, L)
      BY <3>1, <2>2
    <3>3. h2[L] # <<>> /\ ws2[L].word \in LoopEnds /\ TopOf(h2[L]).at = l
      BY <3>2, <2>1 DEF Fixes
    <3>4. EndsAt(h2, ws2, l, L)
      BY <3>3 DEF EndsAt, Closers
    <3>5. L \in 1..Len(ws2) /\ Len(ws2) \in Nat /\ L + 1 \in L + 1..Len(ws2) + 1
      BY <1>2
    <3>6. ~IsOpen(h2[L + 1], l)
      BY <3>4, <3>5, <1>1, EndedOnce
    <3> QED BY <3>6, <1>2
  <2> QED BY <2>1, <2>2, <2>3, <1>1
<1>5. Nodes(h2, ws2, l) = Nodes(h, ws, l)
  BY <1>3, <1>4 DEF Nodes
<1>6. \A a \in Nodes(h, ws, l) : cd2[a] = cd[a]
  BY <1>4 DEF Nodes
<1> QED BY <1>5, <1>6, ChainCells

LEMMA ChainedGrows ==
    ASSUME NEW h, NEW ws, NEW cd, NEW w, NEW gs, NEW h2, NEW ws2, NEW cd2, NEW A,
           CellsGrow(h, ws, cd, w, gs, h2, ws2, cd2, A), NEW L, L = Len(ws) + 1, NEW hd, Chained(h, ws, cd, hd), NEW hd2,
           \A j \in 1..Len(gs) : gs[j].s = "DO" =>
              \/ /\ j \in 1..Len(h[L]) /\ gs[j] = h[L][j] /\ hd2[gs[j].nest] = hd[gs[j].nest]
                 /\ (w = "LEAVE" => LoopOf(h[L]) # gs[j].at)
              \/ ChainIs(cd2, hd2[gs[j].nest], Nodes(h2, ws2, gs[j].at))
    PROVE  Chained(h2, ws2, cd2, hd2)
<1>1. Len(ws2) = L /\ h2[L + 1] = gs
  BY CellsFacts
<1> SUFFICES ASSUME NEW j \in 1..Len(gs), gs[j].s = "DO"
             PROVE  ChainIs(cd2, hd2[gs[j].nest], Nodes(h2, ws2, gs[j].at))
  BY <1>1 DEF Chained
<1>2. CASE /\ j \in 1..Len(h[L]) /\ gs[j] = h[L][j] /\ hd2[gs[j].nest] = hd[gs[j].nest]
           /\ (w = "LEAVE" => LoopOf(h[L]) # gs[j].at)
  <2>1. ChainIs(cd, hd[gs[j].nest], Nodes(h, ws, gs[j].at))
    BY <1>2 DEF Chained
  <2>2. IsOpen(gs, gs[j].at)
    BY DEF IsOpen
  <2> QED BY <1>2, <2>1, <2>2, ChainStays
<1> QED BY <1>2

\* Open loops are counted apart.
LEMMA LoopsApart ==
    ASSUME NEW h, NEW ws, NEW L, h[L] \in Seq(Frame), StackSound(h, ws, L), NEW j \in 1..Len(h[L]), h[L][j].s = "DO"
    PROVE  /\ h[L][j].nest \in Nat /\ h[L][j].nest >= 1 /\ h[L][j].nest <= NestOf(h[L])
           /\ \A i \in 1..Len(h[L]) : h[L][i].s = "DO" /\ h[L][i].nest = h[L][j].nest => i = j
<1>1. ASSUME NEW m \in 1..Len(h[L]) PROVE h[L][m].nest \in Nat /\ FrameSound(ws, h[L], L, m) /\ \A n \in 1..m - 1 : FramesSound(h[L], n, m)
  BY StackFields, FrameFields DEF StackSound, SoundAt
<1>2. ASSUME NEW i \in 1..Len(h[L]), NEW m \in 1..Len(h[L]), i < m, h[L][m].s = "DO" PROVE h[L][i].nest < h[L][m].nest
  <2>1. i \in 1..m - 1
    BY <1>2
  <2>2. h[L][i].nest + Weight(h[L][m].s) <= h[L][m].nest /\ Weight(h[L][m].s) = 1
    BY <2>1, <1>1, <1>2 DEF FramesSound, Weight
  <2> QED BY <2>2, <1>1
<1>3. ASSUME NEW i \in 1..Len(h[L]), h[L][i].s = "DO", h[L][i].nest = h[L][j].nest, i # j PROVE FALSE
  <2>1. CASE i < j
    BY <2>1, <1>1, <1>2, <1>3
  <2>2. CASE j < i
    BY <2>2, <1>1, <1>2, <1>3
  <2> QED BY <2>1, <2>2, <1>3
<1>4. h[L][j].nest <= NestOf(h[L])
  BY InnermostTells
<1>5. h[L][j].nest >= 1
  <2>1. h[L][j].loop = h[L][j].at /\ (h[L][j].loop # 0 <=> h[L][j].nest # 0) /\ h[L][j].at \in 1..L - 1
    BY <1>1 DEF FrameSound
  <2> QED BY <2>1, <1>1
<1> QED BY <1>1, <1>3, <1>4, <1>5
\* The words and their history, one longer.
CanGrowTo(h, ws, w, gs, ws2, c) == \E h2 : Grows(h, ws, w, gs, h2, ws2) /\ ws2[Len(ws) + 1].code = c
LEMMA CanGrow ==
    ASSUME NEW h, NEW ws \in Seq(WordRecord), History(h, ws), NEW w \in Names, NEW gs \in Seq(Frame),
           NEW L, L = Len(ws) + 1, After(h[L], w, L, gs), NEW r \in WordRecord, r.word = w, r.deep = Len(gs),
           NEW ws2, ws2 = Append(ws, r)
    PROVE  CanGrowTo(h, ws, w, gs, ws2, r.code)
<1>1. Len(ws) \in Nat /\ L \in Nat /\ Len(gs) \in Nat
  OBVIOUS
<1> DEFINE h2 == [k \in 1..Len(ws) + 2 |-> IF k <= Len(ws) + 1 THEN h[k] ELSE gs]
<1>4. ws2 \in Seq(WordRecord) /\ Len(ws2) = Len(ws) + 1 /\ ws2[Len(ws) + 1] = r /\ \A x \in 1..Len(ws) : ws2[x] = ws[x]
  OBVIOUS
<1>5. h \in [1..Len(ws) + 1 -> Seq(Frame)]
  BY DEF History
<1>6. \A k \in 1..Len(ws) + 1 : h2[k] = h[k]
  BY <1>1
<1>7. h2[Len(ws) + 2] = gs
  BY <1>1
<1>8. h2 \in [1..Len(ws) + 2 -> Seq(Frame)]
  BY <1>1, <1>5
<1> HIDE DEF h2
<1>9. Grows(h, ws, w, gs, h2, ws2)
  BY <1>4, <1>6, <1>7, <1>8 DEF Grows
<1> QED BY <1>1, <1>4, <1>9 DEF CanGrowTo

\* The code with the cells of a word put behind it.
Extends(h, ws, cd, w, gs, h2, ws2) ==
    /\ Grows(h, ws, w, gs, h2, ws2) /\ cd \in Seq(Cell) /\ Laid(h, ws, cd) /\ ws2[Len(ws) + 1].code = Len(cd) + 1

LEMMA ExtendsFacts ==
    ASSUME NEW h, NEW ws, NEW cd, NEW w, NEW gs, NEW h2, NEW ws2, Extends(h, ws, cd, w, gs, h2, ws2), NEW L, L = Len(ws) + 1
    PROVE  /\ ws2[L].word = w /\ ws2[L].code = Len(cd) + 1 /\ h2[L] = h[L] /\ h[L] \in Seq(Frame) /\ NestOf(h[L]) \in Nat
           /\ Len(cd) \in Nat /\ L \in Nat /\ cd \in Seq(Cell) /\ StackSound(h, ws, L)
           /\ h[L] # <<>> => ws2[TopOf(h[L]).at] = ws[TopOf(h[L]).at] /\ TopOf(h[L]).at \in 1..L - 1
<1>1. /\ L \in Nat /\ L >= 1 /\ \A x \in 1..L - 1 : ws2[x] = ws[x]
      /\ ws2[L].word = w /\ \A t \in 1..L : h2[t] = h[t]
      /\ h[L] \in Seq(Frame) /\ StackSound(h, ws, L)
  BY GrowsFacts DEF Extends
<1>2. L \in 1..L /\ cd \in Seq(Cell) /\ ws2[L].code = Len(cd) + 1
  BY <1>1 DEF Extends
<1>3. ASSUME h[L] # <<>> PROVE TopOf(h[L]).at \in 1..L - 1
  <2>1. Len(h[L]) \in 1..Len(h[L])
    BY <1>1, <1>3
  <2> QED BY <2>1, <1>1 DEF StackSound, SoundAt, FrameSound, TopOf
<1> QED BY <1>1, <1>2, <1>3, StackFields

LEMMA ExtendsPlainly ==
    ASSUME NEW h, NEW ws, NEW cd, NEW w, NEW gs, NEW h2, NEW ws2, Extends(h, ws, cd, w, gs, h2, ws2), NEW L, L = Len(ws) + 1
    PROVE  /\ ws2[L].word = w /\ ws2[L].code = Len(cd) + 1 /\ h2[L] = h[L] /\ h[L] \in Seq(Frame) /\ NestOf(h[L]) \in Nat
           /\ Len(cd) \in Nat /\ L \in Nat /\ cd \in Seq(Cell)
<1> QED BY ExtendsFacts

IsBehind(c, d, e) == /\ e \in Seq(Cell) /\ Len(e) = Len(c) + Len(d)
                     /\ \A i \in 1..Len(c) : e[i] = c[i]
                     /\ \A i \in 1..Len(d) : e[Len(c) + i] = d[i]
LEMMA Behind == ASSUME NEW c \in Seq(Cell), NEW d \in Seq(Cell) PROVE IsBehind(c, d, c \o d)
<1>1. Len(c) \in Nat /\ Len(d) \in Nat
  OBVIOUS
<1>2. c \o d \in Seq(Cell)
  OBVIOUS
<1>3. Len(c \o d) = Len(c) + Len(d)
  OBVIOUS
<1>4. \A i \in 1..Len(c) : (c \o d)[i] = c[i]
  BY <1>1
<1>5. \A i \in 1..Len(d) : (c \o d)[Len(c) + i] = d[i]
  BY <1>1
<1> QED BY <1>2, <1>3, <1>4, <1>5 DEF IsBehind
LEMMA OneCell == ASSUME NEW x \in Cell PROVE <<x>> \in Seq(Cell) /\ Len(<<x>>) = 1 /\ <<x>>[1] = x
OBVIOUS

LEMMA ExtendsTwo ==
    ASSUME NEW h, NEW ws, NEW cd, NEW w, NEW gs, NEW h2, NEW ws2, Extends(h, ws, cd, w, gs, h2, ws2), NEW L, L = Len(ws) + 1,
           w \in Forward \cup {"UNTIL", "REPEAT"} \cup LoopEnds, NEW x \in Cell, NEW y \in Cell, x.op = Runs(w),
           w \in {"UNTIL", "REPEAT"} => h[L] # <<>> /\ y.to = ws[TopOf(h[L]).at].code,
           w \in LoopEnds => h[L] # <<>> /\ y.to = ws[TopOf(h[L]).at].code + 1
    PROVE  CellsGrow(h, ws, cd, w, gs, h2, ws2, cd \o <<x, y>>, {})
<1>1. PICK cd2 : cd2 = cd \o <<x, y>>
  OBVIOUS
<1>2. /\ ws2[L].word = w /\ ws2[L].code = Len(cd) + 1 /\ h2[L] = h[L] /\ h[L] \in Seq(Frame) /\ NestOf(h[L]) \in Nat
      /\ Len(cd) \in Nat /\ L \in Nat /\ cd \in Seq(Cell)
      /\ h[L] # <<>> => ws2[TopOf(h[L]).at] = ws[TopOf(h[L]).at]
  BY ExtendsFacts
<1>3. cd2 \in Seq(Cell) /\ Len(cd2) = Len(cd) + 2 /\ (\A a \in 1..Len(cd) : cd2[a] = cd[a]) /\ cd2[Len(cd) + 1] = x /\ cd2[Len(cd) + 2] = y
  BY <1>1, <1>2
<1>4. Len(cd2) = Len(cd) + Size(w, NestOf(h[L]))
  BY <1>2, <1>3, SizeIs
<1>5. w # "EXIT"
  BY DEF Forward, LoopEnds
<1>6. (Len(cd) + 1) + 1 = Len(cd) + 2
  BY <1>2
<1>7. Coded(h2, ws2, cd2, L)
  BY <1>2, <1>3, <1>5, <1>6 DEF Coded
<1> QED BY <1>1, <1>2, <1>3, <1>4, <1>7 DEF CellsGrow, Extends

LEMMA ExtendsOne ==
    ASSUME NEW h, NEW ws, NEW cd, NEW w, NEW gs, NEW h2, NEW ws2, Extends(h, ws, cd, w, gs, h2, ws2),
           NEW L, L = Len(ws) + 1, w \in Short, NEW x \in Cell, x.op = Runs(w)
    PROVE  CellsGrow(h, ws, cd, w, gs, h2, ws2, cd \o <<x>>, {})
<1>1. PICK cd2 : cd2 = cd \o <<x>>
  OBVIOUS
<1>2. /\ ws2[L].word = w /\ ws2[L].code = Len(cd) + 1 /\ h2[L] = h[L] /\ h[L] \in Seq(Frame) /\ NestOf(h[L]) \in Nat
      /\ Len(cd) \in Nat /\ L \in Nat /\ cd \in Seq(Cell)
  <2>1. Extends(h, ws, cd, w, gs, h2, ws2) /\ L = Len(ws) + 1
    OBVIOUS
  <2> QED BY ONLY <2>1, ExtendsPlainly
<1>3. cd2 \in Seq(Cell) /\ Len(cd2) = Len(cd) + 1 /\ (\A a \in 1..Len(cd) : cd2[a] = cd[a]) /\ cd2[Len(cd) + 1] = x
  <2>1. IsBehind(cd, <<x>>, cd2)
    BY <1>1, <1>2, OneCell, Behind
  <2>2. Len(<<x>>) = 1 /\ <<x>>[1] = x
    BY OneCell
  <2>3. 1 \in 1..Len(<<x>>)
    <3>1. \A m \in Nat : m = 1 => 1 \in 1..m
      OBVIOUS
    <3> QED BY <2>2, <3>1
  <2> QED BY <2>1, <2>2, <2>3 DEF IsBehind
<1>4. Len(cd2) = Len(cd) + Size(w, NestOf(h[L]))
  BY <1>2, <1>3, SizeIs
<1>7. Coded(h2, ws2, cd2, L)
  BY <1>2, <1>3, ShortIs DEF Coded
<1> QED BY <1>1, <1>2, <1>3, <1>4, <1>7 DEF CellsGrow, Extends

LEMMA ExtendsNone ==
    ASSUME NEW h, NEW ws, NEW cd, NEW w, NEW gs, NEW h2, NEW ws2, Extends(h, ws, cd, w, gs, h2, ws2), NEW L, L = Len(ws) + 1, w \in {"THEN", "BEGIN"}
    PROVE  CellsGrow(h, ws, cd, w, gs, h2, ws2, cd, {})
<1>2. /\ ws2[L].word = w /\ NestOf(h[L]) \in Nat /\ Len(cd) \in Nat /\ cd \in Seq(Cell)
  BY ExtendsFacts
<1>4. Len(cd) = Len(cd) + Size(w, NestOf(h[L]))
  <2>1. Size(w, NestOf(h[L])) = 0
    BY <1>2, SizeIs
  <2> QED BY <2>1, <1>2
<1>7. Coded(h2, ws2, cd, L)
  BY <1>2 DEF Coded, LoopEnds
<1> QED BY <1>2, <1>4, <1>7 DEF CellsGrow, Extends

LEMMA LenIs == ASSUME NEW c \in Seq(Cell), NEW n \in Nat, DOMAIN c = 1..n PROVE Len(c) = n
<1>1. DOMAIN c = 1..Len(c) /\ Len(c) \in Nat
  OBVIOUS
<1> QED BY <1>1
LEMMA ExtendsExit ==
    ASSUME NEW h, NEW ws, NEW cd, NEW gs, NEW h2, NEW ws2, Extends(h, ws, cd, "EXIT", gs, h2, ws2), NEW L, L = Len(ws) + 1,
           NEW n, n = 2 * NestOf(h[L])
    PROVE  CellsGrow(h, ws, cd, "EXIT", gs, h2, ws2, cd \o ([i \in 1..n |-> Byte("POP HL")] \o <<Byte("RET")>>), {})
<1> DEFINE pops == [i \in 1..n |-> Byte("POP HL")]
           tail == pops \o <<Byte("RET")>>
<1>1. PICK cd2 : cd2 = cd \o tail
  OBVIOUS
<1>2. /\ ws2[L].word = "EXIT" /\ ws2[L].code = Len(cd) + 1 /\ h2[L] = h[L] /\ h[L] \in Seq(Frame) /\ NestOf(h[L]) \in Nat
      /\ Len(cd) \in Nat /\ L \in Nat /\ cd \in Seq(Cell) /\ n \in Nat
  BY ExtendsFacts
<1>3. pops \in Seq(Cell) /\ Len(pops) = n /\ \A i \in 1..n : pops[i] = Byte("POP HL")
  <2>1. Byte("POP HL") \in Cell
    BY CallTypes DEF Routines
  <2>2. DOMAIN pops = 1..n
    OBVIOUS
  <2>3. pops \in Seq(Cell)
    BY <2>1, <1>2, SameCells
  <2>4. Len(pops) = n
    BY <2>2, <2>3, <1>2, LenIs
  <2>5. \A i \in 1..n : pops[i] = Byte("POP HL")
    OBVIOUS
  <2> QED BY <2>3, <2>4, <2>5
<1> HIDE DEF pops
<1>4. tail \in Seq(Cell) /\ Len(tail) = n + 1 /\ (\A i \in 1..n : tail[i] = Byte("POP HL")) /\ tail[n + 1] = Byte("RET")
  <2>1. Byte("RET") \in Cell
    BY CallTypes DEF Routines
  <2>2. IsBehind(pops, <<Byte("RET")>>, tail)
    BY <2>1, <1>3, OneCell, Behind
  <2>3. 1 \in 1..Len(<<Byte("RET")>>) /\ Len(<<Byte("RET")>>) = 1 /\ <<Byte("RET")>>[1] = Byte("RET")
    BY <2>1, OneCell
  <2> QED BY <2>2, <2>3, <1>3 DEF IsBehind
<1> HIDE DEF tail
<1>5. cd2 \in Seq(Cell) /\ Len(cd2) = Len(cd) + (n + 1) /\ (\A a \in 1..Len(cd) : cd2[a] = cd[a]) /\ \A i \in 1..n + 1 : cd2[Len(cd) + i] = tail[i]
  <2>1. IsBehind(cd, tail, cd2)
    BY <1>1, <1>2, <1>4, Behind
  <2> QED BY <2>1, <1>4 DEF IsBehind
<1>6. Byte("POP HL").op = "POP HL" /\ Byte("RET").op = "RET"
  BY DEF Byte
<1>7. ASSUME NEW i \in 0..n - 1 PROVE cd2[(Len(cd) + 1) + i].op = "POP HL"
  <2>1. i + 1 \in 1..n /\ i + 1 \in 1..n + 1 /\ (Len(cd) + 1) + i = Len(cd) + (i + 1)
    BY <1>2
  <2> QED BY <2>1, <1>4, <1>5, <1>6
<1>8. cd2[(Len(cd) + 1) + n].op = "RET"
  <2>1. n + 1 \in 1..n + 1 /\ (Len(cd) + 1) + n = Len(cd) + (n + 1)
    <3>1. n \in Nat /\ Len(cd) \in Nat
      BY <1>2
    <3> QED BY <3>1
  <2> QED BY <2>1, <1>4, <1>5, <1>6
<1>9. Len(cd2) = Len(cd) + Size("EXIT", NestOf(h[L]))
  BY <1>2, <1>5, SizeIs
<1>10. Coded(h2, ws2, cd2, L)
  BY <1>2, <1>7, <1>8 DEF Coded, LoopEnds
<1> QED BY <1>1, <1>2, <1>5, <1>9, <1>10 DEF CellsGrow, Extends, pops, tail

\* And with the branches that waited for the word patched.
LEMMA ThenPatched ==
    ASSUME NEW h, NEW ws, NEW cd, NEW w, NEW gs, NEW h2, NEW ws2, NEW cd1, CellsGrow(h, ws, cd, w, gs, h2, ws2, cd1, {}),
           NEW L, L = Len(ws) + 1, NEW A, \A a \in A : \E x \in 1..Len(ws) : ws[x].word \in Forward /\ Fixes(h2, ws2, x, L) /\ a = ws[x].code + 1,
           NEW cd2 \in Seq(Cell), Len(cd2) = Len(cd1), \A a \in 1..Len(cd1) : a \notin A => cd2[a] = cd1[a],
           w \in Names
    PROVE  CellsGrow(h, ws, cd, w, gs, h2, ws2, cd2, A)
<1>1. /\ Grows(h, ws, w, gs, h2, ws2) /\ ws \in Seq(WordRecord) /\ cd \in Seq(Cell) /\ Laid(h, ws, cd)
      /\ ws2[L].code = Len(cd) + 1 /\ Len(cd1) = Len(cd) + Size(w, NestOf(h[L])) /\ Len(cd) \in Nat
      /\ \A a \in 1..Len(cd) : cd1[a] = cd[a]
      /\ ws2[L].word = w /\ h2[L] = h[L] /\ History(h, ws) /\ h[L] \in Seq(Frame) /\ L \in Nat
  <2>1. /\ Grows(h, ws, w, gs, h2, ws2) /\ ws \in Seq(WordRecord) /\ cd \in Seq(Cell) /\ Laid(h, ws, cd)
        /\ ws2[L].code = Len(cd) + 1 /\ Len(cd1) = Len(cd) + Size(w, NestOf(h[L])) /\ Len(cd) \in Nat
        /\ ws2[L].word = w /\ History(h, ws) /\ h[L] \in Seq(Frame) /\ L \in Nat /\ L >= 1 /\ \A t \in 1..L : h2[t] = h[t]
    BY CellsFacts
  <2>2. L \in 1..L
    BY <2>1
  <2>3. \A a \in 1..Len(cd) : a \notin {} => cd1[a] = cd[a]
    BY DEF CellsGrow
  <2> QED BY <2>1, <2>2, <2>3
<1>2. Coded(h2, ws2, cd1, L) /\ NestOf(h[L]) \in Nat /\ Size(w, NestOf(h[L])) \in Nat
  BY <1>1, StackFields, SizeIs DEF CellsGrow
<1>3. ASSUME NEW a \in A PROVE a \in 1..Len(cd)
  <2>1. PICK x \in 1..Len(ws) : ws[x].word \in Forward /\ a = ws[x].code + 1
    OBVIOUS
  <2> QED BY <2>1, <1>1, BranchCell
<1>4. \A a \in 1..Len(cd) : a \notin A => cd2[a] = cd[a]
  BY <1>1, <1>2
<1>5. ASSUME NEW i \in 0..Size(w, NestOf(h[L])) - 1 PROVE cd2[(Len(cd) + 1) + i] = cd1[(Len(cd) + 1) + i]
  <2>1. (Len(cd) + 1) + i \in 1..Len(cd1) /\ (Len(cd) + 1) + i \notin 1..Len(cd)
    BY <1>1, <1>2
  <2> QED BY <2>1, <1>3
<1>6. Coded(h2, ws2, cd2, L)
  <2>1. w \notin {"THEN", "BEGIN", "EXIT"} => cd2[Len(cd) + 1].op = Runs(w)
    <3> HAVE w \notin {"THEN", "BEGIN", "EXIT"}
    <3>1. Size(w, NestOf(h[L])) \in {1, 2}
      BY <1>2, SizeIs
    <3>2. 0 \in 0..Size(w, NestOf(h[L])) - 1 /\ (Len(cd) + 1) + 0 = Len(cd) + 1
      BY <3>1, <1>1
    <3> QED BY <3>2, <1>1, <1>2, <1>5 DEF Coded
  <2>2. w = "EXIT" => /\ \A i \in 0..2 * NestOf(h[L]) - 1 : cd2[(Len(cd) + 1) + i].op = "POP HL"
                      /\ cd2[(Len(cd) + 1) + 2 * NestOf(h[L])].op = "RET"
    <3> HAVE w = "EXIT"
    <3>1. Size(w, NestOf(h[L])) = 2 * NestOf(h[L]) + 1
      BY <1>2, SizeIs
    <3>2. (\A i \in 0..2 * NestOf(h[L]) - 1 : i \in 0..Size(w, NestOf(h[L])) - 1) /\ 2 * NestOf(h[L]) \in 0..Size(w, NestOf(h[L])) - 1
      BY <3>1, <1>2
    <3>3. /\ \A i \in 0..2 * NestOf(h[L]) - 1 : cd1[(Len(cd) + 1) + i].op = "POP HL"
          /\ cd1[(Len(cd) + 1) + 2 * NestOf(h[L])].op = "RET"
      BY <1>1, <1>2 DEF Coded
    <3> QED BY <3>2, <3>3, <1>5
  <2>3. w \in {"UNTIL", "REPEAT"} \cup LoopEnds => cd2[(Len(cd) + 1) + 1] = cd1[(Len(cd) + 1) + 1]
    <3> HAVE w \in {"UNTIL", "REPEAT"} \cup LoopEnds
    <3>1. Size(w, NestOf(h[L])) = 2
      BY <1>2, SizeIs
    <3>2. 1 \in 0..Size(w, NestOf(h[L])) - 1
      BY <3>1
    <3> QED BY <3>2, <1>5
  <2>4. ws2[L].word = w /\ ws2[L].code = Len(cd) + 1 /\ h2[L] = h[L]
    BY <1>1
  <2> QED BY <2>1, <2>2, <2>3, <2>4, <1>2, ZenonT(40) DEF Coded
<1> QED BY <1>1, <1>4, <1>6 DEF CellsGrow
\* The chains of the loops that stay open go on.
ChainsGo(h, L, w, gs, hd, h2, ws2, cd2, hd2) ==
    \A j \in 1..Len(gs) : gs[j].s = "DO" =>
       \/ /\ j \in 1..Len(h[L]) /\ gs[j] = h[L][j] /\ hd2[gs[j].nest] = hd[gs[j].nest]
          /\ (w = "LEAVE" => LoopOf(h[L]) # gs[j].at)
       \/ ChainIs(cd2, hd2[gs[j].nest], Nodes(h2, ws2, gs[j].at))
LEMMA ReadCompiles ==
    ASSUME NEW h, NEW ws, NEW o, NEW cd, NEW cs, NEW dp, NEW hd, NEW lf, Compiled(h, ws, o, cd, cs, dp, hd, lf),
           NEW w \in Names, NEW gs, NEW h2, NEW ws2, NEW cd2, NEW A, CellsGrow(h, ws, cd, w, gs, h2, ws2, cd2, A),
           PatchesThem(h2, ws, ws2, cd2), NEW o2, NEW cs2, NEW dp2, NEW hd2, NEW L, L = Len(ws) + 1,
           ChainsGo(h, L, w, gs, hd, h2, ws2, cd2, hd2), Holds(ws2, gs, cs2, lf), OpenIs(gs, o2), dp2 = NestOf(gs)
    PROVE  Compiled(h2, ws2, o2, cd2, cs2, dp2, hd2, lf)
<1>1. Patched(h, ws, cd) /\ Chained(h, ws, cd, hd)
  BY DEF Compiled
<1>2. Grows(h, ws, w, gs, h2, ws2)
  BY DEF CellsGrow
<1>3. Len(ws2) + 1 = L + 1 /\ h2[L + 1] = gs
  BY <1>2, GrowsFacts
<1>4. History(h2, ws2)
  BY <1>2, HistoryGrows
<1>5. Laid(h2, ws2, cd2)
  BY LaidGrows
<1>6. Patched(h2, ws2, cd2)
  BY <1>1, PatchedGrows
<1>7. Chained(h2, ws2, cd2, hd2)
  <2>1. \A j \in 1..Len(gs) : gs[j].s = "DO" =>
           \/ /\ j \in 1..Len(h[L]) /\ gs[j] = h[L][j] /\ hd2[gs[j].nest] = hd[gs[j].nest]
              /\ (w = "LEAVE" => LoopOf(h[L]) # gs[j].at)
           \/ ChainIs(cd2, hd2[gs[j].nest], Nodes(h2, ws2, gs[j].at))
    BY DEF ChainsGo
  <2> QED BY <2>1, <1>1, ChainedGrows
<1> QED BY <1>3, <1>4, <1>5, <1>6, <1>7 DEF Compiled

\* A word that patches nothing, and one that touches no chain.
LEMMA NoPatch ==
    ASSUME NEW h, NEW ws, NEW w, NEW gs, NEW h2, NEW ws2, Grows(h, ws, w, gs, h2, ws2), NEW cd2,
           w \notin {"ELSE", "THEN", "REPEAT"} \cup LoopEnds
    PROVE  PatchesThem(h2, ws, ws2, cd2)
<1>1. ws2[Len(ws) + 1].word = w
  BY DEF Grows
<1> QED BY <1>1 DEF PatchesThem, Fixes
LEMMA ChainsSame ==
    ASSUME NEW h, NEW ws, NEW w, NEW gs, NEW h2, NEW ws2, Grows(h, ws, w, gs, h2, ws2), NEW cd2, NEW hd, NEW L, L = Len(ws) + 1,
           w \notin {"DO", "LEAVE"}
    PROVE  ChainsGo(h, L, w, gs, hd, h2, ws2, cd2, hd)
<1>1. L \in Nat /\ h[L] \in Seq(Frame) /\ After(h[L], w, L, gs) /\ Len(h[L]) \in Nat
  BY GrowsFacts, StackFields
<1>2. Opens(h[L], w, L, gs) \/ Turns(h[L], w, L, gs) \/ Drops(h[L], w, L, gs) \/ Stays(h[L], w, L, gs)
  BY <1>1, KindsOf
<1>3. ASSUME NEW j \in 1..Len(gs), gs[j].s = "DO" PROVE j \in 1..Len(h[L]) /\ gs[j] = h[L][j]
  <2>1. CASE Opens(h[L], w, L, gs)
    <3>1. IsOpened(h[L], w, L, gs, Len(h[L]) + 1)
      BY <2>1, <1>1, OpenedIs DEF Opens
    <3>2. j # Len(h[L]) + 1
      BY <3>1, <1>3 DEF IsOpened
    <3> QED BY <3>1, <3>2, <1>1 DEF IsOpened
  <2>2. CASE Turns(h[L], w, L, gs)
    <3>1. IsTurned(h[L], w, L, gs, Len(h[L]))
      BY <2>2, <1>1, TurnedIs DEF Turns
    <3>2. w # "DO"
      OBVIOUS
    <3>3. j # Len(h[L])
      BY <3>1, <3>2, <1>3 DEF IsTurned
    <3> QED BY <3>1, <3>3, <1>1 DEF IsTurned
  <2>3. CASE Drops(h[L], w, L, gs)
    <3>1. IsDropped(h[L], gs)
      BY <2>3, <1>1, DroppedIs DEF Drops
    <3> QED BY <3>1, <1>1 DEF IsDropped
  <2>4. CASE Stays(h[L], w, L, gs)
    <3>1. gs = h[L]
      BY <2>4, Zenon DEF Stays
    <3> QED BY <3>1
  <2> QED BY <1>2, <2>1, <2>2, <2>3, <2>4
<1> QED BY <1>3 DEF ChainsGo

\* The top of the compile-time stack is what the innermost structure keeps there.
LEMMA HoldsAt ==
    ASSUME NEW ws, NEW f, NEW cs, NEW base \in Nat, HoldsFrame(ws, f, cs, base), f.sp \in Nat, NEW n, base + f.sp = n
    PROVE  /\ f.hole # 0 => cs[n] = ws[f.hole].code + 1
           /\ f.s = "BEGIN" => cs[n] = ws[f.at].code
           /\ f.s = "WHILE" => cs[n - 1] = ws[f.at].code
           /\ f.s = "DO" => cs[n] = ws[f.at].code + 1
<1>1. f.hole # 0 => cs[base + f.sp] = ws[f.hole].code + 1
  BY DEF HoldsFrame
<1>2. f.s = "BEGIN" => cs[base + f.sp] = ws[f.at].code
  BY DEF HoldsFrame
<1>3. f.s = "WHILE" => cs[base + f.sp - 1] = ws[f.at].code
  BY DEF HoldsFrame
<1>4. f.s = "DO" => cs[base + f.sp] = ws[f.at].code + 1
  BY DEF HoldsFrame
<1>5. f.hole # 0 => cs[n] = ws[f.hole].code + 1
  BY <1>1
<1>6. f.s = "BEGIN" => cs[n] = ws[f.at].code
  BY <1>2
<1>7. f.s = "WHILE" => cs[n - 1] = ws[f.at].code
  <2>1. base + f.sp - 1 = n - 1
    OBVIOUS
  <2> QED BY <2>1, <1>3
<1>8. f.s = "DO" => cs[n] = ws[f.at].code + 1
  BY <1>4
<1> QED BY <1>5, <1>6, <1>7, <1>8
TopHolds(ws, f, cs) ==
    /\ f.hole # 0 => cs[Len(cs)] = ws[f.hole].code + 1
    /\ f.s = "BEGIN" => cs[Len(cs)] = ws[f.at].code
    /\ f.s = "WHILE" => cs[Len(cs) - 1] = ws[f.at].code
    /\ f.s = "DO" => cs[Len(cs)] = ws[f.at].code + 1
LEMMA TopIs ==
    ASSUME NEW ws, NEW fs \in Seq(Frame), fs # <<>>, NEW cs, NEW lf \in Seq(Nat), Holds(ws, fs, cs, lf), NEW f, f = TopOf(fs)
    PROVE  TopHolds(ws, f, cs)
<1>1. Len(fs) \in 1..Len(fs) /\ SpOf(fs) = f.sp /\ f = fs[Len(fs)]
  BY DEF SpOf, TopOf
<1>2. Len(lf) + f.sp = Len(cs) /\ HoldsFrame(ws, f, cs, Len(lf)) /\ Len(lf) \in Nat
  BY <1>1 DEF Holds
<1>3. f.sp \in Nat
  <2>1. f \in Frame
    BY <1>1
  <2> QED BY <2>1, FrameFields
<1>4. /\ f.hole # 0 => cs[Len(cs)] = ws[f.hole].code + 1
      /\ f.s = "BEGIN" => cs[Len(cs)] = ws[f.at].code
      /\ f.s = "WHILE" => cs[Len(cs) - 1] = ws[f.at].code
      /\ f.s = "DO" => cs[Len(cs)] = ws[f.at].code + 1
  BY <1>2, <1>3, HoldsAt, SMTT(30)
<1> QED BY <1>4 DEF TopHolds
LEMMA PatchIs ==
    ASSUME NEW c \in Seq(Cell), NEW a \in 1..Len(c), NEW to
    PROVE  /\ Len(Patch(c, a, to)) = Len(c) /\ Patch(c, a, to)[a].to = to
           /\ \A b \in 1..Len(c) : b # a => Patch(c, a, to)[b] = c[b]
<1>1. DOMAIN c = 1..Len(c) /\ Len(c) \in Nat /\ c[a] \in Cell
  OBVIOUS
<1>2. Patch(c, a, to) = [c EXCEPT ![a] = [c[a] EXCEPT !.to = to]]
  BY DEF Patch
<1>3. [c[a] EXCEPT !.to = to].to = to
  BY <1>1 DEF Cell
<1> QED BY <1>1, <1>2, <1>3

\* IF, ELSE and WHILE wait with a branch, which the word that ends them patches.
LEMMA HolePatched ==
    ASSUME NEW h, NEW ws, NEW cd, NEW w, NEW gs, NEW h2, NEW ws2, NEW cd1, CellsGrow(h, ws, cd, w, gs, h2, ws2, cd1, {}),
           NEW L, L = Len(ws) + 1, w \in {"ELSE", "THEN", "REPEAT"}, h[L] # <<>>, NEW f, f = TopOf(h[L]),
           f.s \in {"IF", "ELSE", "WHILE"}, NEW a, a = ws[f.hole].code + 1, NEW to \in Nat, to = Len(cd1) + 1
    PROVE  /\ f.hole # 0 /\ CellsGrow(h, ws, cd, w, gs, h2, ws2, Patch(cd1, a, to), {a})
           /\ PatchesThem(h2, ws, ws2, Patch(cd1, a, to))
<1>1. /\ Grows(h, ws, w, gs, h2, ws2) /\ ws \in Seq(WordRecord) /\ cd \in Seq(Cell) /\ Laid(h, ws, cd) /\ History(h, ws)
      /\ L \in Nat /\ L >= 1 /\ Len(ws) = L - 1 /\ ws2[L].word = w /\ h[L] \in Seq(Frame) /\ StackSound(h, ws, L)
      /\ (\A x \in 1..L - 1 : ws2[x] = ws[x]) /\ (\A t \in 1..L : h2[t] = h[t])
      /\ Len(cd1) = Len(cd) + Size(w, NestOf(h[L])) /\ Len(cd) \in Nat
  BY CellsFacts
<1>2. cd1 \in Seq(Cell) /\ w \in Names /\ w # "LEAVE" /\ w \notin LoopEnds
  <2>1. w \in Names
    BY Zenon DEF Names, Structures
  <2> QED BY <2>1 DEF CellsGrow, LoopEnds
<1>3. L \in 1..L /\ h2[L] = h[L] /\ Len(h[L]) \in 1..Len(h[L]) /\ f = h[L][Len(h[L])]
  BY <1>1 DEF TopOf
<1>4. FrameSound(ws, h[L], L, Len(h[L])) /\ f \in Frame
  BY <1>1, <1>3 DEF StackSound, SoundAt
<1>5. f.hole \in 1..L - 1 /\ f.hole # 0 /\ ws[f.hole].word \in Forward /\ ws[f.hole].word # "LEAVE"
  <2>1. f.at \in 1..L - 1 /\ f.at \in Nat /\ f.hole \in Nat
    BY <1>3, <1>4, FrameFields DEF FrameSound
  <2>2. CASE f.s = "IF"
    BY <2>1, <2>2, <1>1, <1>3, <1>4 DEF FrameSound, OpenerOf, Forward
  <2>3. CASE f.s # "IF"
    <3>1. f.s \in {"ELSE", "WHILE"} /\ f.hole \in f.at + 1..L - 1 /\ ws[f.hole].word = f.s
      BY <2>3, <1>3, <1>4 DEF FrameSound
    <3> QED BY <3>1, <2>1, <1>1 DEF Forward
  <2> QED BY <2>2, <2>3
<1>6. Fixes(h2, ws2, f.hole, L)
  <2>1. ws2[f.hole] = ws[f.hole] /\ f.hole < L
    BY <1>1, <1>5
  <2> QED BY <2>1, <1>1, <1>3, <1>5 DEF Fixes
<1>7. a \in 1..Len(cd) /\ a \in 1..Len(cd1) /\ a \in Nat
  <2>1. f.hole \in 1..Len(ws)
    BY <1>1, <1>5
  <2>2. a \in 1..Len(cd)
    BY <2>1, <1>1, <1>5, BranchCell
  <2>3. Size(w, NestOf(h[L])) \in Nat
    BY <1>1, StackFields, SizeIs
  <2> QED BY <2>2, <2>3, <1>1
<1>8. PICK cd2 : cd2 = Patch(cd1, a, to)
  OBVIOUS
<1>9. cd2 \in Seq(Cell) /\ Len(cd2) = Len(cd1) /\ cd2[a].to = to /\ \A b \in 1..Len(cd1) : b # a => cd2[b] = cd1[b]
  <2>1. cd2 \in Seq(Cell)
    BY <1>2, <1>7, <1>8, PatchTypes
  <2>2. Len(Patch(cd1, a, to)) = Len(cd1) /\ Patch(cd1, a, to)[a].to = to
    BY <1>2, <1>7, PatchIs
  <2>3. \A b \in 1..Len(cd1) : b # a => Patch(cd1, a, to)[b] = cd1[b]
    BY <1>2, <1>7, PatchIs
  <2> QED BY <2>1, <2>2, <2>3, <1>8
<1>10. CellsGrow(h, ws, cd, w, gs, h2, ws2, cd2, {a})
  <2> DEFINE A == {a}
  <2>1. \A b \in A : \E x \in 1..Len(ws) : ws[x].word \in Forward /\ Fixes(h2, ws2, x, L) /\ b = ws[x].code + 1
    <3>1. f.hole \in 1..Len(ws)
      BY <1>1, <1>5
    <3> QED BY <3>1, <1>5, <1>6
  <2>2. \A b \in 1..Len(cd1) : b \notin A => cd2[b] = cd1[b]
    BY <1>9
  <2> HIDE DEF A
  <2>3. CellsGrow(h, ws, cd, w, gs, h2, ws2, cd2, A)
    BY <2>1, <2>2, <1>2, <1>9, ThenPatched
  <2> QED BY <2>3 DEF A
<1>11. PatchesThem(h2, ws, ws2, cd2)
  <2>1. ASSUME NEW x \in 1..Len(ws), Fixes(h2, ws2, x, L) PROVE x = f.hole
    BY <2>1, <1>1, <1>2, <1>3 DEF Fixes
  <2>2. to = Len(cd2) + 1
    BY <1>9
  <2> QED BY <2>1, <2>2, <1>9 DEF PatchesThem
<1> QED BY <1>5, <1>8, <1>10, <1>11

\* LOOP and +LOOP patch the LEAVEs of their loop.
LEMMA LeavesPatched ==
    ASSUME NEW h, NEW ws, NEW cd, NEW w, NEW gs, NEW h2, NEW ws2, NEW cd1, CellsGrow(h, ws, cd, w, gs, h2, ws2, cd1, {}),
           NEW L, L = Len(ws) + 1, w \in LoopEnds, h[L] # <<>>, TopOf(h[L]).s = "DO", NEW hd, Chained(h, ws, cd, hd),
           NEW head \in Nat, head = hd[NestOf(h[L])], NEW to \in Nat, to = Len(cd1) + 1, NEW A, A = Nodes(h, ws, TopOf(h[L]).at)
    PROVE  /\ CellsGrow(h, ws, cd, w, gs, h2, ws2, PatchLeaves(cd1, head, to), A)
           /\ PatchesThem(h2, ws, ws2, PatchLeaves(cd1, head, to))
<1>1. /\ Grows(h, ws, w, gs, h2, ws2) /\ ws \in Seq(WordRecord) /\ cd \in Seq(Cell) /\ Laid(h, ws, cd) /\ History(h, ws)
      /\ L \in Nat /\ L >= 1 /\ Len(ws) = L - 1 /\ ws2[L].word = w /\ h[L] \in Seq(Frame) /\ StackSound(h, ws, L)
      /\ (\A x \in 1..L - 1 : ws2[x] = ws[x]) /\ (\A t \in 1..L : h2[t] = h[t])
      /\ Len(cd1) = Len(cd) + Size(w, NestOf(h[L])) /\ Len(cd) \in Nat
  BY CellsFacts, SMTT(30)
<1>2. cd1 \in Seq(Cell) /\ w \in Names /\ (\A b \in 1..Len(cd) : cd1[b] = cd[b]) /\ w \notin {"ELSE", "THEN", "REPEAT"}
  <2>1. w \in Names
    BY Zenon DEF Names, LoopEnds
  <2> QED BY <2>1 DEF CellsGrow, LoopEnds
<1>3. L \in 1..L /\ h2[L] = h[L] /\ Len(h[L]) \in 1..Len(h[L]) /\ TopOf(h[L]) = h[L][Len(h[L])] /\ NestOf(h[L]) = TopOf(h[L]).nest
  BY <1>1 DEF TopOf, NestOf
<1>4. ChainIs(cd, head, A)
  BY <1>1, <1>3 DEF Chained
<1>5. ASSUME NEW a \in A PROVE /\ a \in 1..Len(cd)
                               /\ \E x \in 1..Len(ws) : ws[x].word = "LEAVE" /\ LoopOf(h[x]) = TopOf(h[L]).at /\ a = ws[x].code + 1
  <2>1. PICK x \in 1..Len(ws) : ws[x].word = "LEAVE" /\ LoopOf(h[x]) = TopOf(h[L]).at /\ a = ws[x].code + 1
    BY DEF Nodes, Leaves
  <2>2. ws[x].word \in Forward
    BY <2>1 DEF Forward
  <2>3. a \in 1..Len(cd)
    BY <2>1, <2>2, <1>1, BranchCell
  <2> QED BY <2>1, <2>3
<1>6. Len(cd1) \in Nat /\ A \subseteq 1..Len(cd1)
  <2>1. Size(w, NestOf(h[L])) \in Nat
    BY <1>1, StackFields, SizeIs
  <2> QED BY <2>1, <1>1, <1>5
<1>7. ChainIs(cd1, head, A)
  <2>1. \A a \in A : cd1[a] = cd[a]
    BY <1>2, <1>5
  <2> QED BY <2>1, <1>4, ChainCells
<1>8. PICK cd2 : cd2 = PatchLeaves(cd1, head, to)
  OBVIOUS
<1>9. /\ cd2 \in Seq(Cell) /\ Len(cd2) = Len(cd1) /\ \A a \in A : cd2[a].to = to
      /\ \A b \in 1..Len(cd1) : b \notin A => cd2[b] = cd1[b]
  <2>1. cd2 \in Seq(Cell)
    BY <1>2, <1>8, LeavesTypes
  <2>2. /\ Len(PatchLeaves(cd1, head, to)) = Len(cd1)
        /\ \A a \in A : PatchLeaves(cd1, head, to)[a].to = to
        /\ \A b \in 1..Len(cd1) : b \notin A => PatchLeaves(cd1, head, to)[b] = cd1[b]
    BY <1>2, <1>6, <1>7, ChainPatched
  <2> QED BY <2>1, <2>2, <1>8
<1>10. CellsGrow(h, ws, cd, w, gs, h2, ws2, cd2, A)
  <2>1. ASSUME NEW a \in A
        PROVE  \E x \in 1..Len(ws) : ws[x].word \in Forward /\ Fixes(h2, ws2, x, L) /\ a = ws[x].code + 1
    <3>1. PICK x \in 1..Len(ws) : ws[x].word = "LEAVE" /\ LoopOf(h[x]) = TopOf(h[L]).at /\ a = ws[x].code + 1
      BY <1>5
    <3>2. ws[x].word \in Forward
      BY <3>1 DEF Forward
    <3>3. ws2[x] = ws[x] /\ h2[x] = h[x] /\ x < L
      BY <1>1
    <3>4. Fixes(h2, ws2, x, L)
      BY <3>1, <3>3, <1>1, <1>3 DEF Fixes
    <3> QED BY <3>1, <3>2, <3>4
  <2> QED BY <2>1, <1>2, <1>9, ThenPatched
<1>11. PatchesThem(h2, ws, ws2, cd2)
  <2>1. ASSUME NEW x \in 1..Len(ws), Fixes(h2, ws2, x, L) PROVE ws[x].code + 1 \in A
    <3>1. ws2[x] = ws[x] /\ h2[x] = h[x]
      BY <1>1
    <3>2. ws[x].word = "LEAVE" /\ LoopOf(h[x]) = TopOf(h[L]).at
      BY <3>1, <2>1, <1>1, <1>2, <1>3 DEF Fixes
    <3> QED BY <3>2 DEF Nodes, Leaves
  <2>2. to = Len(cd2) + 1
    BY <1>9
  <2> QED BY <2>1, <2>2, <1>9 DEF PatchesThem
<1> QED BY <1>8, <1>10, <1>11
LEMMA LoopBefore ==
    ASSUME NEW h, NEW ws, History(h, ws), Len(ws) \in Nat, NEW k \in 1..Len(ws) + 1
    PROVE  LoopOf(h[k]) \in Nat /\ LoopOf(h[k]) < k
<1>1. h[k] \in Seq(Frame) /\ StackSound(h, ws, k) /\ k \in Nat /\ k >= 1
  BY HistoryAt
<1>2. LoopOf(h[k]) \in Nat
  BY <1>1, StackFields
<1>3. CASE LoopOf(h[k]) # 0
  <2>1. PICK i \in 1..Len(h[k]) : h[k][i].at = LoopOf(h[k])
    BY <1>1, <1>3, InnermostTells
  <2> QED BY <2>1, <1>1, <1>2, FramesApart
<1> QED BY <1>1, <1>2, <1>3

\* DO starts a chain of its own.
LEMMA ChainsDo ==
    ASSUME NEW h, NEW ws, NEW gs, NEW h2, NEW ws2, Grows(h, ws, "DO", gs, h2, ws2), NEW cd2, NEW hd, NEW L, L = Len(ws) + 1,
           Opens(h[L], "DO", L, gs), NEW m \in Nat, hd \in [1..m -> Nat], NestOf(h[L]) + 1 \in 1..m, NEW hd2,
           hd2 = [hd EXCEPT ![NestOf(h[L]) + 1] = 0]
    PROVE  ChainsGo(h, L, "DO", gs, hd, h2, ws2, cd2, hd2)
<1>1. /\ L \in Nat /\ L >= 1 /\ Len(ws) = L - 1 /\ Len(ws2) = L /\ ws2[L].word = "DO" /\ h[L] \in Seq(Frame) /\ StackSound(h, ws, L)
      /\ (\A x \in 1..L - 1 : ws2[x] = ws[x]) /\ (\A t \in 1..L : h2[t] = h[t]) /\ History(h, ws)
  BY GrowsFacts, SMTT(30)
<1>2. NestOf(h[L]) \in Nat /\ Len(h[L]) \in Nat
  BY <1>1, StackFields
<1>3. IsOpened(h[L], "DO", L, gs, Len(h[L]) + 1)
  BY <1>1, OpenedIs DEF Opens
<1>4. /\ Len(gs) = Len(h[L]) + 1 /\ (\A j \in 1..Len(h[L]) : gs[j] = h[L][j]) /\ gs[Len(gs)].at = L
      /\ gs[Len(gs)].nest = NestOf(h[L]) + 1
  BY <1>3 DEF IsOpened, Weight
<1>5. hd2[NestOf(h[L]) + 1] = 0 /\ \A n \in 1..m : n # NestOf(h[L]) + 1 => hd2[n] = hd[n]
  OBVIOUS
<1>6. Nodes(h2, ws2, L) = {}
  <2>1. ASSUME NEW x \in 1..L, ws2[x].word = "LEAVE", LoopOf(h2[x]) = L PROVE FALSE
    <3>1. x # L
      BY <2>1, <1>1
    <3>2. h2[x] = h[x] /\ LoopOf(h[x]) < x
      BY <3>1, <1>1, LoopBefore
    <3> QED BY <3>2, <2>1, <1>1
  <2> QED BY <2>1, <1>1 DEF Nodes, Leaves
<1>7. ASSUME NEW j \in 1..Len(gs), gs[j].s = "DO"
      PROVE  \/ /\ j \in 1..Len(h[L]) /\ gs[j] = h[L][j] /\ hd2[gs[j].nest] = hd[gs[j].nest]
                /\ ("DO" = "LEAVE" => LoopOf(h[L]) # gs[j].at)
             \/ ChainIs(cd2, hd2[gs[j].nest], Nodes(h2, ws2, gs[j].at))
  <2>1. CASE j = Len(gs)
    <3>1. ChainIs(cd2, 0, {})
      BY DEF ChainIs
    <3>2. gs[j].at = L /\ hd2[gs[j].nest] = 0
      BY <2>1, <1>4, <1>5
    <3> QED BY <3>1, <3>2, <1>6
  <2>2. CASE j # Len(gs)
    <3>0. \A n \in Nat : \A q \in 1..n + 1 : q # n + 1 => q \in 1..n
      OBVIOUS
    <3>1. j \in 1..Len(h[L]) /\ gs[j] = h[L][j]
      <4>1. j \in 1..Len(h[L]) + 1 /\ j # Len(h[L]) + 1
        BY <2>2, <1>4
      <4>2. j \in 1..Len(h[L])
        BY <4>1, <3>0, <1>2
      <4> QED BY <4>2, <1>4
    <3>2. gs[j].nest \in Nat /\ gs[j].nest >= 1 /\ gs[j].nest <= NestOf(h[L])
      BY <3>1, <1>7, <1>1, LoopsApart
    <3>3. gs[j].nest \in 1..m /\ gs[j].nest # NestOf(h[L]) + 1
      BY <3>2, <1>2
    <3> QED BY <3>1, <3>3, <1>5
  <2> QED BY <2>1, <2>2
<1> QED BY <1>7 DEF ChainsGo

\* LEAVE puts itself at the head of its loop's.
LEMMA ChainHead ==
    ASSUME NEW cells, NEW cells2, NEW head \in Nat, NEW nodes, ChainIs(cells, head, nodes), NEW m \in Nat, nodes \subseteq 1..m,
           \A a \in nodes : cells2[a] = cells[a], NEW n, n = m + 2, cells2[n].to = head
    PROVE  ChainIs(cells2, n, nodes \cup {n})
<1>1. /\ head \in nodes \cup {0} /\ \A b \in nodes : b <= head
      /\ \A a \in nodes : /\ cells[a].to \in nodes \cup {0} /\ cells[a].to < a
                          /\ \A b \in nodes : b < a => b <= cells[a].to
  BY DEF ChainIs
<1>2. \A b \in nodes : b \in 1..m
  OBVIOUS
<1>3. \A b \in nodes \cup {n} : b <= n
  BY <1>2
<1>4. ASSUME NEW a \in nodes \cup {n}
      PROVE  /\ cells2[a].to \in nodes \cup {n} \cup {0} /\ cells2[a].to < a
             /\ \A b \in nodes \cup {n} : b < a => b <= cells2[a].to
  <2>1. CASE a = n
    <3>1. cells2[a].to = head /\ head < n
      BY <2>1, <1>1, <1>2
    <3>2. \A b \in nodes \cup {n} : b < n => b \in nodes
      BY <1>2
    <3> QED BY <2>1, <3>1, <3>2, <1>1
  <2>2. CASE a \in nodes
    <3>1. cells2[a] = cells[a] /\ a \in 1..m
      BY <2>2
    <3>2. \A b \in nodes \cup {n} : b < a => b \in nodes
      BY <3>1
    <3> QED BY <2>2, <3>1, <3>2, <1>1
  <2> QED BY <2>1, <2>2
<1> QED BY <1>3, <1>4 DEF ChainIs
LEMMA ChainsLeave ==
    ASSUME NEW h, NEW ws, NEW cd, NEW gs, NEW h2, NEW ws2, NEW cd2, NEW w, w = "LEAVE", CellsGrow(h, ws, cd, w, gs, h2, ws2, cd2, {}),
           NEW hd, Chained(h, ws, cd, hd), NEW L, L = Len(ws) + 1,
           LoopOf(h[L]) # 0, gs = h[L], NEW m \in Nat, hd \in [1..m -> Nat], NestOf(h[L]) \in 1..m, NEW hd2,
           hd2 = [hd EXCEPT ![NestOf(h[L])] = Len(cd) + 2], cd2[Len(cd) + 2].to = hd[NestOf(h[L])]
    PROVE  ChainsGo(h, L, w, gs, hd, h2, ws2, cd2, hd2)
<1>1. /\ L \in Nat /\ L >= 1 /\ Len(ws) = L - 1 /\ Len(ws2) = L /\ ws2[L].word = w /\ h[L] \in Seq(Frame) /\ StackSound(h, ws, L)
      /\ (\A x \in 1..L - 1 : ws2[x] = ws[x]) /\ (\A t \in 1..L : h2[t] = h[t]) /\ History(h, ws)
      /\ ws \in Seq(WordRecord) /\ cd \in Seq(Cell) /\ Laid(h, ws, cd) /\ ws2[L].code = Len(cd) + 1 /\ Len(cd) \in Nat
  <2>1. CellsGrow(h, ws, cd, w, gs, h2, ws2, cd2, {}) /\ L = Len(ws) + 1
    OBVIOUS
  <2> QED BY ONLY <2>1, w = "LEAVE", CellsFacts
<1>2. \A a \in 1..Len(cd) : cd2[a] = cd[a]
  BY DEF CellsGrow
<1>3. PICK l : l = LoopOf(h[L])
  OBVIOUS
<1>4. PICK i \in 1..Len(h[L]) : h[L][i].s = "DO" /\ h[L][i].at = l /\ h[L][i].nest = NestOf(h[L])
  <2>1. \E i \in 1..Len(h[L]) : h[L][i].s = "DO" /\ h[L][i].at = LoopOf(h[L]) /\ h[L][i].nest = NestOf(h[L])
    <3>1. h[L] \in Seq(Frame) /\ StackSound(h, ws, L)
      BY <1>1
    <3>2. LoopOf(h[L]) # 0 => \E i \in 1..Len(h[L]) : h[L][i].s = "DO" /\ h[L][i].at = LoopOf(h[L]) /\ h[L][i].nest = NestOf(h[L])
      BY ONLY <3>1, InnermostTells
    <3> QED BY <3>2
  <2> QED BY <2>1, <1>3
<1>5. ChainIs(cd, hd[NestOf(h[L])], Nodes(h, ws, l))
  <2>1. \A j \in 1..Len(h[L]) : h[L][j].s = "DO" => ChainIs(cd, hd[h[L][j].nest], Nodes(h, ws, h[L][j].at))
    BY DEF Chained
  <2> QED BY <2>1, <1>4
<1>6. Nodes(h, ws, l) \subseteq 1..Len(cd)
  <2>1. ASSUME NEW x \in 1..Len(ws), ws[x].word = "LEAVE" PROVE ws[x].code + 1 \in 1..Len(cd)
    <3>1. ws[x].word \in Forward
      BY <2>1 DEF Forward
    <3> QED BY <3>1, <1>1, BranchCell
  <2> QED BY <2>1 DEF Nodes, Leaves
<1>7. Nodes(h2, ws2, l) = Nodes(h, ws, l) \cup {Len(cd) + 2}
  <2>1. L \in 1..L /\ h2[L] = h[L] /\ ws2[L].code + 1 = Len(cd) + 2
    BY <1>1
  <2>2. \A x \in 1..L - 1 : h2[x] = h[x] /\ ws2[x] = ws[x]
    BY <1>1
  <2>3. ASSUME NEW a \in Nodes(h2, ws2, l) PROVE a \in Nodes(h, ws, l) \cup {Len(cd) + 2}
    <3>1. PICK x \in 1..L : ws2[x].word = "LEAVE" /\ LoopOf(h2[x]) = l /\ a = ws2[x].code + 1
      BY <1>1 DEF Nodes, Leaves
    <3>2. CASE x = L
      BY <3>1, <3>2, <2>1
    <3>3. CASE x # L
      <4>1. x \in 1..Len(ws) /\ x \in 1..L - 1
        BY <3>3, <1>1
      <4> QED BY <4>1, <3>1, <2>2 DEF Nodes, Leaves
    <3> QED BY <3>2, <3>3
  <2>4. ASSUME NEW a \in Nodes(h, ws, l) PROVE a \in Nodes(h2, ws2, l)
    <3>1. PICK x \in 1..Len(ws) : ws[x].word = "LEAVE" /\ LoopOf(h[x]) = l /\ a = ws[x].code + 1
      BY DEF Nodes, Leaves
    <3>2. x \in 1..L - 1 /\ x \in 1..L
      BY <1>1
    <3> QED BY <3>1, <3>2, <2>2, <1>1 DEF Nodes, Leaves
  <2>5. Len(cd) + 2 \in Nodes(h2, ws2, l)
    BY <2>1, <1>1, <1>3 DEF Nodes, Leaves
  <2> QED BY <2>3, <2>4, <2>5
<1>8. ChainIs(cd2, Len(cd) + 2, Nodes(h2, ws2, l))
  <2>1. \A a \in Nodes(h, ws, l) : cd2[a] = cd[a]
    BY <1>2, <1>6
  <2>2. hd[NestOf(h[L])] \in Nat
    OBVIOUS
  <2>3. PICK N : N = Nodes(h, ws, l)
    OBVIOUS
  <2>4. PICK n : n = Len(cd) + 2
    OBVIOUS
  <2>5. PICK head \in Nat : head = hd[NestOf(h[L])]
    BY <2>2
  <2>6. ChainIs(cd2, n, N \cup {n})
    <3>1. ChainIs(cd, head, N) /\ N \subseteq 1..Len(cd) /\ (\A a \in N : cd2[a] = cd[a]) /\ cd2[n].to = head
      BY <1>5, <1>6, <2>1, <2>3, <2>4, <2>5
    <3>2. Len(cd) \in Nat
      BY <1>1
    <3> QED BY ONLY <2>5, <2>4, <3>1, <3>2, ChainHead
  <2> QED BY <2>3, <2>4, <2>6, <1>7
<1>9. hd2[NestOf(h[L])] = Len(cd) + 2 /\ \A n \in 1..m : n # NestOf(h[L]) => hd2[n] = hd[n]
  OBVIOUS
<1>10. ASSUME NEW j \in 1..Len(gs), gs[j].s = "DO"
       PROVE  \/ /\ j \in 1..Len(h[L]) /\ gs[j] = h[L][j] /\ hd2[gs[j].nest] = hd[gs[j].nest]
                 /\ (w = "LEAVE" => LoopOf(h[L]) # gs[j].at)
              \/ ChainIs(cd2, hd2[gs[j].nest], Nodes(h2, ws2, gs[j].at))
  <2>1. CASE j = i
    BY <2>1, <1>4, <1>8, <1>9
  <2>2. CASE j # i
    <3>1. gs[j].nest \in Nat /\ gs[j].nest >= 1 /\ gs[j].nest <= NestOf(h[L]) /\ gs[j].nest # NestOf(h[L])
      <4>1. h[L][i].s = "DO" /\ h[L][i].nest = h[L][j].nest => i = j
        BY <1>1, <1>10, LoopsApart
      <4> QED BY <4>1, <2>2, <1>1, <1>4, <1>10, LoopsApart
    <3>2. gs[j].nest \in 1..m
      BY <3>1
    <3>3. gs[j].at # l
      <4>1. h[L][i].at = h[L][j].at => i = j
        BY <1>1, FramesApart
      <4> QED BY <4>1, <2>2, <1>4
    <3> QED BY <3>1, <3>2, <3>3, <1>3, <1>9
  <2> QED BY <2>1, <2>2
<1> QED BY <1>10 DEF ChainsGo
LEMMA OpenedNest == ASSUME NEW fs \in Seq(Frame), NEW w \in Openers, NEW k \in Nat
                    PROVE  Opened(fs, w, k) \in Seq(Frame) /\ NestOf(Opened(fs, w, k)) = NestOf(fs) + Weight(w)
<1>1. PICK gs : gs = Opened(fs, w, k)
  OBVIOUS
<1>2. Len(fs) \in Nat
  OBVIOUS
<1>3. gs \in Seq(Frame) /\ Len(gs) = Len(fs) + 1 /\ gs[Len(fs) + 1].nest = NestOf(fs) + Weight(w)
  <2>1. IsOpened(fs, w, k, gs, Len(fs) + 1)
    BY <1>1, OpenedIs
  <2> QED BY <2>1 DEF IsOpened
<1>4. gs # <<>>
  BY <1>2, <1>3
<1>5. NestOf(gs) = gs[Len(gs)].nest
  BY <1>4 DEF NestOf
<1> QED BY <1>1, <1>3, <1>5
LEMMA TurnedNest == ASSUME NEW fs \in Seq(Frame), fs # <<>>, NEW w \in {"ELSE", "WHILE"}, NEW k \in Nat
                    PROVE  Turned(fs, w, k) \in Seq(Frame) /\ NestOf(Turned(fs, w, k)) = NestOf(fs)
<1>1. PICK gs : gs = Turned(fs, w, k)
  OBVIOUS
<1>2. gs \in Seq(Frame) /\ Len(gs) = Len(fs) /\ gs[Len(fs)].nest = fs[Len(fs)].nest
  BY <1>1, TurnedIs DEF IsTurned
<1>3. gs # <<>>
  BY <1>2
<1>5. NestOf(gs) = gs[Len(gs)].nest /\ NestOf(fs) = fs[Len(fs)].nest
  BY <1>3 DEF NestOf
<1> QED BY <1>1, <1>2, <1>5
LEMMA DroppedTypes == ASSUME NEW fs \in Seq(Frame), fs # <<>> PROVE Dropped(fs) \in Seq(Frame)
BY DroppedIs DEF IsDropped

\* The compile-time state, and what of it a word's lemma needs.
CompiledBy(h) == Compiled(h, words, open, code, cstack, depth, heads, left)
LEMMA Before ==
    ASSUME NestInv, NEW h, CompiledBy(h), NEW L, L = Len(words) + 1
    PROVE  /\ words \in Seq(WordRecord) /\ code \in Seq(Cell) /\ cstack \in Seq(Nat) /\ left \in Seq(Nat)
           /\ open \in Seq(Structures) /\ heads \in [1..Levels -> Nat] /\ depth \in 0..Levels /\ Levels \in Nat
           /\ HERE \in Nat /\ HERE = Len(code) + 1 /\ Len(code) \in Nat /\ Len(words) \in Nat /\ L \in Nat /\ L >= 1
           /\ History(h, words) /\ h[L] \in Seq(Frame) /\ StackSound(h, words, L)
           /\ Laid(h, words, code) /\ Chained(h, words, code, heads) /\ Holds(words, h[L], cstack, left)
           /\ OpenIs(h[L], open) /\ depth = NestOf(h[L])
<1>1. /\ words \in Seq(WordRecord) /\ code \in Seq(Cell) /\ cstack \in Seq(Nat) /\ left \in Seq(Nat)
      /\ open \in Seq(Structures) /\ heads \in [1..Levels -> Nat] /\ depth \in 0..Levels /\ Levels \in Nat
  BY DEF NestInv, CompileTypes, WordRecord
<1>2. Len(code) \in Nat /\ Len(words) \in Nat /\ L \in Nat /\ L >= 1
  BY <1>1
<1>3. HERE \in Nat /\ HERE = Len(code) + 1
  BY <1>2 DEF HERE
<1>4. /\ History(h, words) /\ Laid(h, words, code) /\ Chained(h, words, code, heads) /\ Holds(words, h[L], cstack, left)
      /\ OpenIs(h[L], open) /\ depth = NestOf(h[L])
  BY DEF CompiledBy, Compiled
<1>5. L \in 1..Len(words) + 1
  BY <1>2
<1>6. h[L] \in Seq(Frame) /\ StackSound(h, words, L)
  BY <1>2, <1>4, <1>5, HistoryAt
<1> QED BY <1>1, <1>2, <1>3, <1>4, <1>6

\* A word read, with the structures gs it leaves open.
ReadWith(h, w, gs, h2) ==
    Extends(h, words, code, w, gs, h2, words') /\ HoldsBefore(h, words, w, gs, h2, words', cstack, left)
ReadTo(h, w, gs) == \E h2 : ReadWith(h, w, gs, h2)
LEMMA ReadsOn ==
    ASSUME NestInv, NEW h, CompiledBy(h), NEW w \in Names, NEW o, words' = Append(words, [word |-> w, code |-> HERE, deep |-> Len(o)]),
           NEW L, L = Len(words) + 1, NEW gs \in Seq(Frame), After(h[L], w, L, gs), OpenIs(gs, o)
    PROVE  ReadTo(h, w, gs)
<1>1. /\ words \in Seq(WordRecord) /\ code \in Seq(Cell) /\ cstack \in Seq(Nat) /\ left \in Seq(Nat)
      /\ HERE \in Nat /\ HERE = Len(code) + 1 /\ History(h, words) /\ Laid(h, words, code) /\ Holds(words, h[L], cstack, left)
  BY Before
<1>2. Len(o) = Len(gs)
  BY DEF OpenIs
<1>3. PICK ws2 : ws2 = words'
  OBVIOUS
<1>4. ws2 = Append(words, [word |-> w, code |-> HERE, deep |-> Len(gs)])
  BY <1>2, <1>3
<1>5. PICK h2 : Grows(h, words, w, gs, h2, ws2) /\ ws2[L].code = HERE
  <2>1. PICK r : r = [word |-> w, code |-> HERE, deep |-> Len(gs)]
    OBVIOUS
  <2>2. r \in WordRecord /\ r.word = w /\ r.code = HERE /\ r.deep = Len(gs)
    BY <2>1, <1>1 DEF WordRecord
  <2>3. ws2 = Append(words, r) /\ words \in Seq(WordRecord) /\ History(h, words)
    BY <1>1, <1>4, <2>1
  <2>4. L = Len(words) + 1 /\ After(h[L], w, L, gs) /\ w \in Names /\ gs \in Seq(Frame)
    OBVIOUS
  <2>5. CanGrowTo(h, words, w, gs, ws2, r.code)
    BY ONLY <2>2, <2>3, <2>4, CanGrow
  <2> QED BY <2>2, <2>5 DEF CanGrowTo
<1>6. Extends(h, words, code, w, gs, h2, ws2)
  BY <1>1, <1>5 DEF Extends
<1>7. HoldsBefore(h, words, w, gs, h2, ws2, cstack, left)
  BY <1>1, <1>5 DEF HoldsBefore
<1> QED BY <1>3, <1>6, <1>7 DEF ReadWith, ReadTo

\* What has to be shown of a word's action.
LEMMA WordCompiles ==
    ASSUME NEW h, CompiledBy(h), NEW w \in Names, NEW gs, NEW h2, NEW A, NEW L, L = Len(words) + 1,
           CellsGrow(h, words, code, w, gs, h2, words', code', A), PatchesThem(h2, words, words', code'),
           ChainsGo(h, L, w, gs, heads, h2, words', code', heads'), Holds(words', gs, cstack', left),
           OpenIs(gs, open'), depth' = NestOf(gs), left' = left
    PROVE  CompiledBy(h2)'
<1>1. Compiled(h2, words', open', code', cstack', depth', heads', left)
  BY ReadCompiles DEF CompiledBy
<1> QED BY <1>1 DEF CompiledBy
CompiledNow == \E h : CompiledBy(h)
\* A word read, named as Control's Reads does.
LEMMA ReadsIs == ASSUME NEW w, NEW o, Reads(w, o)
                 PROVE  /\ words' = Append(words, [word |-> w, code |-> HERE, deep |-> Len(o)])
                        /\ open' = o /\ left' = left /\ pos' = pos /\ pos = 0
BY DEF Reads, runVars
\* The words that open a structure.
LEMMA OpeningRead ==
    ASSUME NestInv, NEW h, CompiledBy(h), NEW w \in Openers, Reads(w, Append(open, w)), NEW L, L = Len(words) + 1,
           NEW gs, gs = Opened(h[L], w, L)
    PROVE  /\ ReadTo(h, w, gs) /\ OpenIs(gs, open') /\ NestOf(gs) = NestOf(h[L]) + Weight(w) /\ Opens(h[L], w, L, gs)
           /\ left' = left
<1>1. open \in Seq(Structures) /\ L \in Nat /\ h[L] \in Seq(Frame) /\ OpenIs(h[L], open)
  BY Before
<1>2. w \in Names
  BY StructuresNamed DEF Openers
<1>3. Opens(h[L], w, L, gs)
  BY DEF Opens
<1>4. After(h[L], w, L, gs)
  BY <1>3, KindsOf
<1>5. gs \in Seq(Frame) /\ NestOf(gs) = NestOf(h[L]) + Weight(w)
  BY <1>1, OpenedNest
<1>6. PICK o : o = Append(open, w)
  OBVIOUS
<1>7. OpenIs(gs, o)
  BY <1>1, <1>6, OpenPush
<1>8. words' = Append(words, [word |-> w, code |-> HERE, deep |-> Len(o)]) /\ open' = o /\ left' = left
  BY <1>6, ReadsIs
<1>9. ReadTo(h, w, gs)
  BY <1>2, <1>4, <1>5, <1>7, <1>8, ReadsOn
<1> QED BY <1>3, <1>5, <1>7, <1>8, <1>9

LEMMA IfCompiles == ASSUME NestInv, NEW h, CompiledBy(h), If PROVE CompiledNow'
<1>1. PICK L : L = Len(words) + 1
  OBVIOUS
<1>2. PICK gs : gs = Opened(h[L], "IF", L)
  OBVIOUS
<1>3. /\ Reads("IF", Append(open, "IF")) /\ code' = code \o <<Call("QBRANCH"), Target(0)>>
      /\ cstack' = Append(cstack, HERE + 1) /\ depth' = depth /\ heads' = heads
  BY DEF If, Compiles, Pushes, NoLoopWord
<1>4. /\ ReadTo(h, "IF", gs) /\ OpenIs(gs, open') /\ NestOf(gs) = NestOf(h[L]) + Weight("IF") /\ Opens(h[L], "IF", L, gs)
      /\ left' = left
  BY <1>1, <1>2, <1>3, OpeningRead DEF Openers
<1>5. PICK h2 : ReadWith(h, "IF", gs, h2)
  BY <1>4 DEF ReadTo
<1>6. /\ Extends(h, words, code, "IF", gs, h2, words') /\ HoldsBefore(h, words, "IF", gs, h2, words', cstack, left)
      /\ Grows(h, words, "IF", gs, h2, words')
  BY <1>5 DEF ReadWith, Extends
<1>7. depth = NestOf(h[L]) /\ HERE \in Nat /\ HERE = Len(code) + 1 /\ L \in Nat
  BY <1>1, Before
<1>8. words'[L].code = HERE
  BY <1>1, <1>6, <1>7 DEF Extends
<1>9. CellsGrow(h, words, code, "IF", gs, h2, words', code', {})
  <2>1. Call("QBRANCH") \in Cell /\ Target(0) \in Cell /\ Call("QBRANCH").op = Runs("IF")
    BY CallTypes DEF Routines, Call, Runs
  <2>2. "IF" \in Forward /\ "IF" \notin {"UNTIL", "REPEAT"} \cup LoopEnds
    BY DEF Forward, LoopEnds
  <2> QED BY <2>1, <2>2, <1>1, <1>3, <1>6, ExtendsTwo
<1>10. PatchesThem(h2, words, words', code')
  BY <1>6, NoPatch DEF LoopEnds
<1>11. ChainsGo(h, L, "IF", gs, heads, h2, words', code', heads')
  BY <1>1, <1>3, <1>6, ChainsSame
<1>12. Holds(words', gs, cstack', left)
  <2>1. PICK a \in Nat : a = HERE + 1
    BY <1>7
  <2>2. a = words'[L].code + 1 /\ "IF" # "BEGIN"
    BY <2>1, <1>8
  <2>3. Holds(words', gs, Append(cstack, a), left)
    BY ONLY <2>1, <2>2, <1>1, <1>4, <1>6, HoldsOpens
  <2> QED BY <2>1, <2>3, <1>3
<1>13. depth' = NestOf(gs)
  BY <1>3, <1>4, <1>7, Before, StackFields DEF Weight
<1>14. CompiledBy(h2)'
  BY <1>1, <1>4, <1>9, <1>10, <1>11, <1>12, <1>13, WordCompiles, StructuresNamed
<1> QED BY <1>14 DEF CompiledNow
LEMMA BeginCompiles == ASSUME NestInv, NEW h, CompiledBy(h), Begin PROVE CompiledNow'
<1>1. PICK L : L = Len(words) + 1
  OBVIOUS
<1>2. PICK gs : gs = Opened(h[L], "BEGIN", L)
  OBVIOUS
<1>3. /\ Reads("BEGIN", Append(open, "BEGIN")) /\ code' = code
      /\ cstack' = Append(cstack, HERE) /\ depth' = depth /\ heads' = heads
  BY DEF Begin, Pushes, NoLoopWord
<1>4. /\ ReadTo(h, "BEGIN", gs) /\ OpenIs(gs, open') /\ NestOf(gs) = NestOf(h[L]) + Weight("BEGIN") /\ Opens(h[L], "BEGIN", L, gs)
      /\ left' = left
  BY <1>1, <1>2, <1>3, OpeningRead DEF Openers
<1>5. PICK h2 : ReadWith(h, "BEGIN", gs, h2)
  BY <1>4 DEF ReadTo
<1>6. /\ Extends(h, words, code, "BEGIN", gs, h2, words') /\ HoldsBefore(h, words, "BEGIN", gs, h2, words', cstack, left)
      /\ Grows(h, words, "BEGIN", gs, h2, words')
  BY <1>5 DEF ReadWith, Extends
<1>7. depth = NestOf(h[L]) /\ HERE \in Nat /\ HERE = Len(code) + 1 /\ L \in Nat
  BY <1>1, Before
<1>8. words'[L].code = HERE
  BY <1>1, <1>6, <1>7 DEF Extends
<1>9. CellsGrow(h, words, code, "BEGIN", gs, h2, words', code', {})
  BY <1>1, <1>3, <1>6, ExtendsNone
<1>10. PatchesThem(h2, words, words', code')
  BY <1>6, NoPatch DEF LoopEnds
<1>11. ChainsGo(h, L, "BEGIN", gs, heads, h2, words', code', heads')
  BY <1>1, <1>3, <1>6, ChainsSame
<1>12. Holds(words', gs, cstack', left)
  <2>1. PICK a \in Nat : a = HERE
    BY <1>7
  <2>2. a = words'[L].code /\ "BEGIN" \notin {"IF", "DO"}
    BY <2>1, <1>8
  <2>3. Holds(words', gs, Append(cstack, a), left)
    BY ONLY <2>1, <2>2, <1>1, <1>4, <1>6, HoldsOpens
  <2> QED BY <2>1, <2>3, <1>3
<1>13. depth' = NestOf(gs)
  BY <1>3, <1>4, <1>7, Before, StackFields DEF Weight
<1>14. CompiledBy(h2)'
  BY <1>1, <1>4, <1>9, <1>10, <1>11, <1>12, <1>13, WordCompiles, StructuresNamed
<1> QED BY <1>14 DEF CompiledNow

LEMMA DoCompiles == ASSUME NestInv, NEW h, CompiledBy(h), Do PROVE CompiledNow'
<1>1. PICK L : L = Len(words) + 1
  OBVIOUS
<1>2. PICK gs : gs = Opened(h[L], "DO", L)
  OBVIOUS
<1>3. /\ Reads("DO", Append(open, "DO")) /\ code' = code \o <<Call("DO_RT")>> /\ depth < Levels
      /\ cstack' = Append(cstack, HERE + 1) /\ depth' = depth + 1 /\ heads' = [heads EXCEPT ![depth + 1] = 0]
  BY DEF Do, Pushes, Compiles
<1>4. /\ ReadTo(h, "DO", gs) /\ OpenIs(gs, open') /\ NestOf(gs) = NestOf(h[L]) + Weight("DO") /\ Opens(h[L], "DO", L, gs)
      /\ left' = left
  BY <1>1, <1>2, <1>3, OpeningRead DEF Openers
<1>5. PICK h2 : ReadWith(h, "DO", gs, h2)
  BY <1>4 DEF ReadTo
<1>6. /\ Extends(h, words, code, "DO", gs, h2, words') /\ HoldsBefore(h, words, "DO", gs, h2, words', cstack, left)
      /\ Grows(h, words, "DO", gs, h2, words')
  BY <1>5 DEF ReadWith, Extends
<1>7. /\ depth = NestOf(h[L]) /\ HERE \in Nat /\ HERE = Len(code) + 1 /\ L \in Nat
      /\ heads \in [1..Levels -> Nat] /\ depth \in 0..Levels /\ Levels \in Nat
  BY <1>1, Before
<1>8. words'[L].code = HERE
  BY <1>1, <1>6, <1>7 DEF Extends
<1>9. CellsGrow(h, words, code, "DO", gs, h2, words', code', {})
  <2>1. Call("DO_RT") \in Cell /\ Call("DO_RT").op = Runs("DO")
    BY CallTypes DEF Routines, Call, Runs
  <2>2. "DO" \in Short
    BY Zenon DEF Short
  <2> QED BY <2>1, <2>2, <1>1, <1>3, <1>6, ExtendsOne
<1>10. PatchesThem(h2, words, words', code')
  BY <1>6, NoPatch DEF LoopEnds
<1>11. ChainsGo(h, L, "DO", gs, heads, h2, words', code', heads')
  <2>1. NestOf(h[L]) + 1 \in 1..Levels /\ heads' = [heads EXCEPT ![NestOf(h[L]) + 1] = 0]
    BY <1>3, <1>7
  <2>2. PICK hd2 : hd2 = heads'
    OBVIOUS
  <2>3. ChainsGo(h, L, "DO", gs, heads, h2, words', code', hd2)
    BY <2>1, <2>2, <1>1, <1>4, <1>6, <1>7, ChainsDo
  <2> QED BY <2>2, <2>3
<1>12. Holds(words', gs, cstack', left)
  <2>1. PICK a \in Nat : a = HERE + 1
    BY <1>7
  <2>2. a = words'[L].code + 1 /\ "DO" # "BEGIN"
    BY <2>1, <1>8
  <2>3. Holds(words', gs, Append(cstack, a), left)
    BY ONLY <2>1, <2>2, <1>1, <1>4, <1>6, HoldsOpens
  <2> QED BY <2>1, <2>3, <1>3
<1>13. depth' = NestOf(gs)
  BY <1>3, <1>4, <1>7 DEF Weight
<1>14. CompiledBy(h2)'
  BY <1>1, <1>4, <1>9, <1>10, <1>11, <1>12, <1>13, WordCompiles, StructuresNamed
<1> QED BY <1>14 DEF CompiledNow

\* The words that need a structure: it is innermost.
LEMMA Needed ==
    ASSUME NestInv, NEW h, CompiledBy(h), NEW S, Innermost(S), NEW L, L = Len(words) + 1, NEW f, f = TopOf(h[L])
    PROVE  h[L] # <<>> /\ f.s \in S /\ f \in Frame /\ FrameSound(words, h[L], L, Len(h[L])) /\ f = h[L][Len(h[L])]
<1>1. open \in Seq(Structures) /\ h[L] \in Seq(Frame) /\ OpenIs(h[L], open) /\ StackSound(h, words, L)
  BY Before
<1>2. h[L] # <<>> /\ f.s \in S
  BY <1>1, InnermostIs
<1>3. Len(h[L]) \in 1..Len(h[L]) /\ f = h[L][Len(h[L])]
  BY <1>1, <1>2 DEF TopOf
<1> QED BY <1>1, <1>2, <1>3 DEF StackSound, SoundAt
\* Those that end one.
LEMMA ClosingRead ==
    ASSUME NestInv, NEW h, CompiledBy(h), NEW w \in Closers, NEW S, Innermost(S), \A s \in S : s \in Needs(w), Reads(w, Inside),
           NEW L, L = Len(words) + 1, NEW gs, gs = Dropped(h[L])
    PROVE  /\ ReadTo(h, w, gs) /\ OpenIs(gs, open') /\ NestOf(h[L]) = NestOf(gs) + Weight(TopOf(h[L]).s) /\ Drops(h[L], w, L, gs)
           /\ left' = left
<1>1. open \in Seq(Structures) /\ L \in Nat /\ h[L] \in Seq(Frame) /\ OpenIs(h[L], open) /\ StackSound(h, words, L)
  BY Before
<1>2. w \in Names
  BY StructuresNamed DEF Closers, LoopEnds
<1>3. h[L] # <<>> /\ TopOf(h[L]).s \in Needs(w)
  BY Needed
<1>4. Drops(h[L], w, L, gs) /\ After(h[L], w, L, gs)
  BY <1>3, KindsOf DEF Drops
<1>5. gs \in Seq(Frame) /\ NestOf(h[L]) = NestOf(gs) + Weight(TopOf(h[L]).s)
  BY <1>1, <1>3, DroppedTypes, DropCounts
<1>6. PICK o : o = Inside
  OBVIOUS
<1>7. OpenIs(gs, o)
  BY <1>1, <1>3, <1>6, OpenDrop DEF Inside, Shorter
<1>8. words' = Append(words, [word |-> w, code |-> HERE, deep |-> Len(o)]) /\ open' = o /\ left' = left
  BY <1>6, ReadsIs
<1>9. ReadTo(h, w, gs)
  BY <1>2, <1>4, <1>5, <1>7, <1>8, ReadsOn
<1> QED BY <1>4, <1>5, <1>7, <1>8, <1>9
\* And those that turn one.
LEMMA TurningRead ==
    ASSUME NestInv, NEW h, CompiledBy(h), NEW w \in {"ELSE", "WHILE"}, NEW S, Innermost(S), \A s \in S : s \in Needs(w),
           Reads(w, Append(Inside, w)), NEW L, L = Len(words) + 1, NEW gs, gs = Turned(h[L], w, L)
    PROVE  /\ ReadTo(h, w, gs) /\ OpenIs(gs, open') /\ NestOf(gs) = NestOf(h[L]) /\ Turns(h[L], w, L, gs)
           /\ left' = left
<1>1. open \in Seq(Structures) /\ L \in Nat /\ h[L] \in Seq(Frame) /\ OpenIs(h[L], open) /\ StackSound(h, words, L)
  BY Before
<1>2. w \in Names
  BY StructuresNamed
<1>3. h[L] # <<>> /\ TopOf(h[L]).s \in Needs(w)
  BY Needed
<1>4. Turns(h[L], w, L, gs) /\ After(h[L], w, L, gs)
  BY <1>3, KindsOf DEF Turns
<1>5. gs \in Seq(Frame) /\ NestOf(gs) = NestOf(h[L])
  BY <1>1, <1>3, TurnedNest
<1>6. PICK o : o = Append(Inside, w)
  OBVIOUS
<1>7. OpenIs(gs, o)
  BY <1>1, <1>3, <1>6, OpenTurn DEF Inside, Shorter
<1>8. words' = Append(words, [word |-> w, code |-> HERE, deep |-> Len(o)]) /\ open' = o /\ left' = left
  BY <1>6, ReadsIs
<1>9. ReadTo(h, w, gs)
  BY <1>2, <1>4, <1>5, <1>7, <1>8, ReadsOn
<1> QED BY <1>4, <1>5, <1>7, <1>8, <1>9
LEMMA NeedsAre == /\ "IF" \in Needs("ELSE") /\ "IF" \in Needs("THEN") /\ "ELSE" \in Needs("THEN")
                  /\ "BEGIN" \in Needs("WHILE") /\ "BEGIN" \in Needs("UNTIL") /\ "WHILE" \in Needs("REPEAT")
                  /\ \A w \in LoopEnds : "DO" \in Needs(w)
BY DEF Needs, Structures, LoopEnds

LEMMA UntilCompiles == ASSUME NestInv, NEW h, CompiledBy(h), Until PROVE CompiledNow'
<1>1. PICK L : L = Len(words) + 1
  OBVIOUS
<1>2. PICK gs : gs = Dropped(h[L])
  OBVIOUS
<1>3. PICK f : f = TopOf(h[L])
  OBVIOUS
<1>4. /\ Innermost({"BEGIN"}) /\ Reads("UNTIL", Inside) /\ code' = code \o <<Call("QBRANCH"), Target(Top(1))>>
      /\ cstack' = Pops(1) /\ depth' = depth /\ heads' = heads
  BY DEF Until, Compiles, NoLoopWord
<1>5. /\ ReadTo(h, "UNTIL", gs) /\ OpenIs(gs, open') /\ NestOf(h[L]) = NestOf(gs) + Weight(f.s) /\ Drops(h[L], "UNTIL", L, gs)
      /\ left' = left
  <2>1. "UNTIL" \in Closers /\ \A s \in {"BEGIN"} : s \in Needs("UNTIL")
    BY NeedsAre DEF Closers
  <2> QED BY <2>1, <1>1, <1>2, <1>3, <1>4, ClosingRead
<1>6. h[L] # <<>> /\ f.s = "BEGIN"
  <2>1. f.s \in {"BEGIN"} /\ h[L] # <<>>
    BY <1>1, <1>3, <1>4, Needed
  <2> QED BY <2>1
<1>7. PICK h2 : ReadWith(h, "UNTIL", gs, h2)
  BY <1>5 DEF ReadTo
<1>8. /\ Extends(h, words, code, "UNTIL", gs, h2, words') /\ HoldsBefore(h, words, "UNTIL", gs, h2, words', cstack, left)
      /\ Grows(h, words, "UNTIL", gs, h2, words')
  BY <1>7 DEF ReadWith, Extends
<1>9. /\ depth = NestOf(h[L]) /\ depth \in Nat /\ h[L] \in Seq(Frame) /\ Holds(words, h[L], cstack, left) /\ left \in Seq(Nat)
      /\ gs \in Seq(Frame) /\ NestOf(gs) \in Nat
  BY <1>1, <1>2, <1>6, Before, DroppedTypes, StackFields
<1>10. Top(1) = words[f.at].code /\ Top(1) = cstack[Len(cstack)]
  <2>1. cstack \in Seq(Nat)
    BY <1>1, Before
  <2>2. Len(cstack) + 1 - 1 = Len(cstack)
    BY <2>1
  <2>3. h[L] \in Seq(Frame) /\ h[L] # <<>> /\ left \in Seq(Nat) /\ Holds(words, h[L], cstack, left) /\ f = TopOf(h[L])
    BY <1>3, <1>6, <1>9
  <2>4. TopHolds(words, f, cstack)
    BY ONLY <2>3, TopIs
  <2> QED BY <2>2, <2>4, <1>6 DEF Top, TopHolds
<1>11. CellsGrow(h, words, code, "UNTIL", gs, h2, words', code', {})
  <2>1. FrameSound(words, h[L], L, Len(h[L])) /\ f = h[L][Len(h[L])]
    BY <1>1, <1>3, <1>4, Needed
  <2>2. f.at \in 1..Len(words)
    BY <2>1, <1>1 DEF FrameSound
  <2>3. words[f.at].code \in Nat
    BY <2>2, <1>1, Before, WordFields
  <2>4. PICK y : y = Target(Top(1))
    OBVIOUS
  <2>5. y \in Cell /\ y.to = words[f.at].code
    BY <2>3, <2>4, <1>10, CallTypes DEF Target
  <2>6. Call("QBRANCH") \in Cell /\ Call("QBRANCH").op = Runs("UNTIL")
    BY CallTypes DEF Routines, Call, Runs
  <2>7. "UNTIL" \notin LoopEnds
    BY DEF LoopEnds
  <2>8. code' = code \o <<Call("QBRANCH"), y>>
    BY <2>4, <1>4
  <2> QED BY <2>5, <2>6, <2>7, <2>8, <1>1, <1>3, <1>6, <1>8, ExtendsTwo
<1>12. PatchesThem(h2, words, words', code')
  BY <1>8, NoPatch DEF LoopEnds
<1>13. ChainsGo(h, L, "UNTIL", gs, heads, h2, words', code', heads')
  BY <1>1, <1>4, <1>8, ChainsSame
<1>14. Holds(words', gs, cstack', left)
  <2>1. Kept(f.s) = 1
    BY <1>6 DEF Kept
  <2>2. Holds(words', gs, SubSeq(cstack, 1, Len(cstack) - 1), left)
    BY <2>1, <1>1, <1>3, <1>5, <1>8, HoldsDrops
  <2> QED BY <2>2, <1>4 DEF Pops
<1>15. depth' = NestOf(gs)
  BY <1>4, <1>5, <1>6, <1>9 DEF Weight
<1>16. CompiledBy(h2)'
  BY <1>1, <1>5, <1>11, <1>12, <1>13, <1>14, <1>15, WordCompiles, StructuresNamed
<1> QED BY <1>16 DEF CompiledNow

LEMMA WhileCompiles == ASSUME NestInv, NEW h, CompiledBy(h), While PROVE CompiledNow'
<1>1. PICK L : L = Len(words) + 1
  OBVIOUS
<1>2. PICK gs : gs = Turned(h[L], "WHILE", L)
  OBVIOUS
<1>3. PICK f : f = TopOf(h[L])
  OBVIOUS
<1>4. /\ Innermost({"BEGIN"}) /\ Reads("WHILE", Append(Inside, "WHILE")) /\ code' = code \o <<Call("QBRANCH"), Target(0)>>
      /\ cstack' = Append(cstack, HERE + 1) /\ depth' = depth /\ heads' = heads
  BY DEF While, Compiles, NoLoopWord, Pushes
<1>5. /\ ReadTo(h, "WHILE", gs) /\ OpenIs(gs, open') /\ NestOf(gs) = NestOf(h[L]) /\ Turns(h[L], "WHILE", L, gs)
      /\ left' = left
  <2>1. \A s \in {"BEGIN"} : s \in Needs("WHILE")
    BY NeedsAre
  <2> QED BY <2>1, <1>1, <1>2, <1>3, <1>4, TurningRead
<1>7. PICK h2 : ReadWith(h, "WHILE", gs, h2)
  BY <1>5 DEF ReadTo
<1>8. /\ Extends(h, words, code, "WHILE", gs, h2, words') /\ HoldsBefore(h, words, "WHILE", gs, h2, words', cstack, left)
      /\ Grows(h, words, "WHILE", gs, h2, words')
  BY <1>7 DEF ReadWith, Extends
<1>9. depth = NestOf(h[L]) /\ HERE \in Nat /\ HERE = Len(code) + 1 /\ L \in Nat
  BY <1>1, Before
<1>10. words'[L].code = HERE
  BY <1>1, <1>8, <1>9 DEF Extends
<1>11. CellsGrow(h, words, code, "WHILE", gs, h2, words', code', {})
  <2>1. Call("QBRANCH") \in Cell /\ Target(0) \in Cell /\ Call("QBRANCH").op = Runs("WHILE")
    BY CallTypes DEF Routines, Call, Runs
  <2>2. "WHILE" \in Forward /\ "WHILE" \notin {"UNTIL", "REPEAT"} \cup LoopEnds
    BY DEF Forward, LoopEnds
  <2> QED BY <2>1, <2>2, <1>1, <1>4, <1>8, ExtendsTwo
<1>12. PatchesThem(h2, words, words', code')
  BY <1>8, NoPatch DEF LoopEnds
<1>13. ChainsGo(h, L, "WHILE", gs, heads, h2, words', code', heads')
  BY <1>1, <1>4, <1>8, ChainsSame
<1>14. Holds(words', gs, cstack', left)
  <2>1. PICK a \in Nat : a = HERE + 1
    BY <1>9
  <2>2. a = words'[L].code + 1
    BY <2>1, <1>10
  <2>3. Holds(words', gs, Append(cstack, a), left)
    BY ONLY <2>1, <2>2, <1>1, <1>5, <1>8, HoldsWhile
  <2> QED BY <2>1, <2>3, <1>4
<1>15. depth' = NestOf(gs)
  BY <1>4, <1>5, <1>9
<1>16. CompiledBy(h2)'
  BY <1>1, <1>5, <1>11, <1>12, <1>13, <1>14, <1>15, WordCompiles, StructuresNamed
<1> QED BY <1>16 DEF CompiledNow

LEMMA ElseCompiles == ASSUME NestInv, NEW h, CompiledBy(h), Else PROVE CompiledNow'
<1>1. PICK L : L = Len(words) + 1
  OBVIOUS
<1>2. PICK gs : gs = Turned(h[L], "ELSE", L)
  OBVIOUS
<1>3. PICK f : f = TopOf(h[L])
  OBVIOUS
<1>4. /\ Innermost({"IF"}) /\ Reads("ELSE", Append(Inside, "ELSE"))
      /\ code' = Patch(code \o <<Call("BRANCH"), Target(0)>>, Top(1), HERE + 2)
      /\ cstack' = Append(Pops(1), HERE + 1) /\ depth' = depth /\ heads' = heads
  BY DEF Else, NoLoopWord
<1>5. /\ ReadTo(h, "ELSE", gs) /\ OpenIs(gs, open') /\ NestOf(gs) = NestOf(h[L]) /\ Turns(h[L], "ELSE", L, gs)
      /\ left' = left
  <2>1. \A s \in {"IF"} : s \in Needs("ELSE")
    BY NeedsAre
  <2> QED BY <2>1, <1>1, <1>2, <1>3, <1>4, TurningRead
<1>6. h[L] # <<>> /\ f.s = "IF"
  <2>1. f.s \in {"IF"} /\ h[L] # <<>>
    BY <1>1, <1>3, <1>4, Needed
  <2> QED BY <2>1
<1>7. PICK h2 : ReadWith(h, "ELSE", gs, h2)
  BY <1>5 DEF ReadTo
<1>8. /\ Extends(h, words, code, "ELSE", gs, h2, words') /\ HoldsBefore(h, words, "ELSE", gs, h2, words', cstack, left)
      /\ Grows(h, words, "ELSE", gs, h2, words')
  BY <1>7 DEF ReadWith, Extends
<1>9. /\ depth = NestOf(h[L]) /\ HERE \in Nat /\ HERE = Len(code) + 1 /\ L \in Nat /\ Len(code) \in Nat
      /\ h[L] \in Seq(Frame) /\ Holds(words, h[L], cstack, left) /\ left \in Seq(Nat) /\ cstack \in Seq(Nat) /\ code \in Seq(Cell)
  BY <1>1, Before
<1>10. words'[L].code = HERE
  BY <1>1, <1>8, <1>9 DEF Extends
<1>11. PICK cd1 : cd1 = code \o <<Call("BRANCH"), Target(0)>>
  OBVIOUS
<1>12. CellsGrow(h, words, code, "ELSE", gs, h2, words', cd1, {}) /\ Len(cd1) = Len(code) + 2
  <2>1. Call("BRANCH") \in Cell /\ Target(0) \in Cell /\ Call("BRANCH").op = Runs("ELSE")
    BY CallTypes DEF Routines, Call, Runs
  <2>2. "ELSE" \in Forward /\ "ELSE" \notin {"UNTIL", "REPEAT"} \cup LoopEnds
    BY DEF Forward, LoopEnds
  <2>3. CellsGrow(h, words, code, "ELSE", gs, h2, words', cd1, {})
    BY <2>1, <2>2, <1>1, <1>8, <1>11, ExtendsTwo
  <2>4. Len(cd1) = Len(code) + 2
    BY <2>1, <1>9, <1>11
  <2> QED BY <2>3, <2>4
<1>13. PICK a : a = words[f.hole].code + 1
  OBVIOUS
<1>14. PICK to \in Nat : to = HERE + 2 /\ to = Len(cd1) + 1
  BY <1>9, <1>12
<1>15. /\ f.hole # 0 /\ CellsGrow(h, words, code, "ELSE", gs, h2, words', Patch(cd1, a, to), {a})
       /\ PatchesThem(h2, words, words', Patch(cd1, a, to))
  BY <1>1, <1>3, <1>6, <1>12, <1>13, <1>14, HolePatched
<1>16. Top(1) = a
  <2>1. Len(cstack) + 1 - 1 = Len(cstack)
    BY <1>9
  <2>2. f.hole # 0 => cstack[Len(cstack)] = words[f.hole].code + 1
    <3>1. h[L] \in Seq(Frame) /\ h[L] # <<>> /\ left \in Seq(Nat) /\ Holds(words, h[L], cstack, left) /\ f = TopOf(h[L])
      BY <1>3, <1>6, <1>9
    <3>2. TopHolds(words, f, cstack)
      BY ONLY <3>1, TopIs
    <3> QED BY <3>2 DEF TopHolds
  <2> QED BY <2>1, <2>2, <1>13, <1>15 DEF Top
<1>17. code' = Patch(cd1, a, to)
  BY <1>4, <1>11, <1>14, <1>16
<1>18. ChainsGo(h, L, "ELSE", gs, heads, h2, words', code', heads')
  BY <1>1, <1>4, <1>8, ChainsSame
<1>19. Holds(words', gs, cstack', left)
  <2>1. PICK b \in Nat : b = HERE + 1
    BY <1>9
  <2>2. b = words'[L].code + 1
    BY <2>1, <1>10
  <2>3. Holds(words', gs, Append(SubSeq(cstack, 1, Len(cstack) - 1), b), left)
    BY ONLY <2>1, <2>2, <1>1, <1>5, <1>8, HoldsElse
  <2> QED BY <2>1, <2>3, <1>4 DEF Pops
<1>20. depth' = NestOf(gs)
  BY <1>4, <1>5, <1>9
<1>21. CompiledBy(h2)'
  <2>1. CellsGrow(h, words, code, "ELSE", gs, h2, words', code', {a}) /\ PatchesThem(h2, words, words', code')
    BY <1>15, <1>17
  <2> QED BY <2>1, <1>1, <1>5, <1>18, <1>19, <1>20, WordCompiles, StructuresNamed
<1> QED BY <1>21 DEF CompiledNow
LEMMA ThenCompiles == ASSUME NestInv, NEW h, CompiledBy(h), Then PROVE CompiledNow'
<1>1. PICK L : L = Len(words) + 1
  OBVIOUS
<1>2. PICK gs : gs = Dropped(h[L])
  OBVIOUS
<1>3. PICK f : f = TopOf(h[L])
  OBVIOUS
<1>4. /\ Innermost({"IF", "ELSE"}) /\ Reads("THEN", Inside)
      /\ code' = Patch(code, Top(1), HERE) /\ cstack' = Pops(1) /\ depth' = depth /\ heads' = heads
  BY DEF Then, NoLoopWord
<1>5. /\ ReadTo(h, "THEN", gs) /\ OpenIs(gs, open') /\ NestOf(h[L]) = NestOf(gs) + Weight(f.s) /\ Drops(h[L], "THEN", L, gs)
      /\ left' = left
  <2>1. "THEN" \in Closers /\ \A s \in {"IF", "ELSE"} : s \in Needs("THEN")
    BY NeedsAre DEF Closers
  <2> QED BY <2>1, <1>1, <1>2, <1>3, <1>4, ClosingRead
<1>6. h[L] # <<>> /\ f.s \in {"IF", "ELSE"} /\ f.s \in {"IF", "ELSE", "WHILE"}
  <2>1. f.s \in {"IF", "ELSE"} /\ h[L] # <<>>
    BY <1>1, <1>3, <1>4, Needed
  <2> QED BY <2>1
<1>7. PICK h2 : ReadWith(h, "THEN", gs, h2)
  BY <1>5 DEF ReadTo
<1>8. /\ Extends(h, words, code, "THEN", gs, h2, words') /\ HoldsBefore(h, words, "THEN", gs, h2, words', cstack, left)
      /\ Grows(h, words, "THEN", gs, h2, words')
  BY <1>7 DEF ReadWith, Extends
<1>9. /\ depth = NestOf(h[L]) /\ depth \in Nat /\ HERE \in Nat /\ HERE = Len(code) + 1 /\ L \in Nat /\ Len(code) \in Nat
      /\ h[L] \in Seq(Frame) /\ Holds(words, h[L], cstack, left) /\ left \in Seq(Nat) /\ cstack \in Seq(Nat) /\ code \in Seq(Cell)
      /\ gs \in Seq(Frame) /\ NestOf(gs) \in Nat
  BY <1>1, <1>2, <1>6, Before, DroppedTypes, StackFields
<1>12. CellsGrow(h, words, code, "THEN", gs, h2, words', code, {})
  BY <1>1, <1>8, ExtendsNone
<1>13. PICK a : a = words[f.hole].code + 1
  OBVIOUS
<1>14. PICK to \in Nat : to = HERE /\ to = Len(code) + 1
  BY <1>9
<1>15. /\ f.hole # 0 /\ CellsGrow(h, words, code, "THEN", gs, h2, words', Patch(code, a, to), {a})
       /\ PatchesThem(h2, words, words', Patch(code, a, to))
  BY <1>1, <1>3, <1>6, <1>12, <1>13, <1>14, HolePatched, ZenonT(40)
<1>16. Top(1) = a
  <2>1. Len(cstack) + 1 - 1 = Len(cstack)
    BY <1>9
  <2>2. h[L] \in Seq(Frame) /\ h[L] # <<>> /\ left \in Seq(Nat) /\ Holds(words, h[L], cstack, left) /\ f = TopOf(h[L])
    BY <1>3, <1>6, <1>9
  <2>3. TopHolds(words, f, cstack)
    BY ONLY <2>2, TopIs
  <2> QED BY <2>1, <2>3, <1>13, <1>15 DEF Top, TopHolds
<1>17. code' = Patch(code, a, to)
  BY <1>4, <1>14, <1>16
<1>18. ChainsGo(h, L, "THEN", gs, heads, h2, words', code', heads')
  BY <1>1, <1>4, <1>8, ChainsSame
<1>19. Holds(words', gs, cstack', left)
  <2>1. Kept(f.s) = 1
    BY <1>6 DEF Kept
  <2>2. Holds(words', gs, SubSeq(cstack, 1, Len(cstack) - 1), left)
    BY <2>1, <1>1, <1>3, <1>5, <1>8, HoldsDrops
  <2> QED BY <2>2, <1>4 DEF Pops
<1>20. depth' = NestOf(gs)
  BY <1>4, <1>5, <1>6, <1>9 DEF Weight
<1>21. CompiledBy(h2)'
  <2>1. CellsGrow(h, words, code, "THEN", gs, h2, words', code', {a}) /\ PatchesThem(h2, words, words', code')
    BY <1>15, <1>17
  <2> QED BY <2>1, <1>1, <1>5, <1>18, <1>19, <1>20, WordCompiles, StructuresNamed
<1> QED BY <1>21 DEF CompiledNow

LEMMA RepeatCompiles == ASSUME NestInv, NEW h, CompiledBy(h), Repeat PROVE CompiledNow'
<1>1. PICK L : L = Len(words) + 1
  OBVIOUS
<1>2. PICK gs : gs = Dropped(h[L])
  OBVIOUS
<1>3. PICK f : f = TopOf(h[L])
  OBVIOUS
<1>4. /\ Innermost({"WHILE"}) /\ Reads("REPEAT", Inside)
      /\ code' = Patch(code \o <<Call("BRANCH"), Target(Top(2))>>, Top(1), HERE + 2)
      /\ cstack' = Pops(2) /\ depth' = depth /\ heads' = heads
  BY DEF Repeat, NoLoopWord
<1>5. /\ ReadTo(h, "REPEAT", gs) /\ OpenIs(gs, open') /\ NestOf(h[L]) = NestOf(gs) + Weight(f.s) /\ Drops(h[L], "REPEAT", L, gs)
      /\ left' = left
  <2>1. "REPEAT" \in Closers /\ \A s \in {"WHILE"} : s \in Needs("REPEAT")
    BY NeedsAre DEF Closers
  <2> QED BY <2>1, <1>1, <1>2, <1>3, <1>4, ClosingRead
<1>6. h[L] # <<>> /\ f.s = "WHILE" /\ f.s \in {"IF", "ELSE", "WHILE"}
  <2>1. f.s \in {"WHILE"} /\ h[L] # <<>>
    BY <1>1, <1>3, <1>4, Needed
  <2> QED BY <2>1
<1>7. PICK h2 : ReadWith(h, "REPEAT", gs, h2)
  BY <1>5 DEF ReadTo
<1>8. /\ Extends(h, words, code, "REPEAT", gs, h2, words') /\ HoldsBefore(h, words, "REPEAT", gs, h2, words', cstack, left)
      /\ Grows(h, words, "REPEAT", gs, h2, words')
  BY <1>7 DEF ReadWith, Extends
<1>9. /\ depth = NestOf(h[L]) /\ depth \in Nat /\ HERE \in Nat /\ HERE = Len(code) + 1 /\ L \in Nat /\ Len(code) \in Nat
      /\ h[L] \in Seq(Frame) /\ Holds(words, h[L], cstack, left) /\ left \in Seq(Nat) /\ cstack \in Seq(Nat) /\ code \in Seq(Cell)
      /\ gs \in Seq(Frame) /\ NestOf(gs) \in Nat
  BY <1>1, <1>2, <1>6, Before, DroppedTypes, StackFields
<1>10. TopHolds(words, f, cstack)
  <2>1. h[L] \in Seq(Frame) /\ h[L] # <<>> /\ left \in Seq(Nat) /\ Holds(words, h[L], cstack, left) /\ f = TopOf(h[L])
    BY <1>3, <1>6, <1>9
  <2> QED BY ONLY <2>1, TopIs
<1>11. Top(2) = words[f.at].code /\ (f.hole # 0 => Top(1) = words[f.hole].code + 1)
  <2>1. Len(cstack) + 1 - 1 = Len(cstack) /\ Len(cstack) + 1 - 2 = Len(cstack) - 1
    BY <1>9
  <2> QED BY <2>1, <1>6, <1>10 DEF Top, TopHolds
<1>12. PICK y : y = Target(Top(2))
  OBVIOUS
<1>13. PICK cd1 : cd1 = code \o <<Call("BRANCH"), y>>
  OBVIOUS
<1>14. CellsGrow(h, words, code, "REPEAT", gs, h2, words', cd1, {}) /\ Len(cd1) = Len(code) + 2
  <2>1. FrameSound(words, h[L], L, Len(h[L])) /\ f = h[L][Len(h[L])]
    BY <1>1, <1>3, <1>4, Needed
  <2>2. f.at \in 1..Len(words)
    BY <2>1, <1>1 DEF FrameSound
  <2>3. words[f.at].code \in Nat
    BY <2>2, <1>1, Before, WordFields
  <2>5. y \in Cell /\ y.to = words[f.at].code
    BY <2>3, <1>11, <1>12, CallTypes DEF Target
  <2>6. Call("BRANCH") \in Cell /\ Call("BRANCH").op = Runs("REPEAT")
    BY CallTypes DEF Routines, Call, Runs
  <2>7. "REPEAT" \notin LoopEnds
    BY DEF LoopEnds
  <2>8. CellsGrow(h, words, code, "REPEAT", gs, h2, words', cd1, {})
    BY <2>5, <2>6, <2>7, <1>1, <1>3, <1>6, <1>8, <1>13, ExtendsTwo
  <2>9. Len(cd1) = Len(code) + 2
    BY <2>5, <2>6, <1>9, <1>13
  <2> QED BY <2>8, <2>9
<1>15. PICK a : a = words[f.hole].code + 1
  OBVIOUS
<1>16. PICK to \in Nat : to = HERE + 2 /\ to = Len(cd1) + 1
  BY <1>9, <1>14
<1>17. /\ f.hole # 0 /\ CellsGrow(h, words, code, "REPEAT", gs, h2, words', Patch(cd1, a, to), {a})
       /\ PatchesThem(h2, words, words', Patch(cd1, a, to))
  BY <1>1, <1>3, <1>6, <1>14, <1>15, <1>16, HolePatched
<1>18. code' = Patch(cd1, a, to)
  BY <1>4, <1>11, <1>12, <1>13, <1>15, <1>16, <1>17
<1>19. ChainsGo(h, L, "REPEAT", gs, heads, h2, words', code', heads')
  BY <1>1, <1>4, <1>8, ChainsSame
<1>20. Holds(words', gs, cstack', left)
  <2>1. Kept(f.s) = 2
    BY <1>6 DEF Kept
  <2>2. Holds(words', gs, SubSeq(cstack, 1, Len(cstack) - 2), left)
    BY <2>1, <1>1, <1>3, <1>5, <1>8, HoldsDrops
  <2> QED BY <2>2, <1>4 DEF Pops
<1>21. depth' = NestOf(gs)
  BY <1>4, <1>5, <1>6, <1>9 DEF Weight
<1>22. CompiledBy(h2)'
  <2>1. CellsGrow(h, words, code, "REPEAT", gs, h2, words', code', {a}) /\ PatchesThem(h2, words, words', code')
    BY <1>17, <1>18
  <2> QED BY <2>1, <1>1, <1>5, <1>19, <1>20, <1>21, WordCompiles, StructuresNamed
<1> QED BY <1>22 DEF CompiledNow

LEMMA EndLoopCompiles ==
    ASSUME NestInv, NEW h, CompiledBy(h), NEW w \in LoopEnds, NEW routine \in Routines, routine = Runs(w), EndLoop(w, routine)
    PROVE  CompiledNow'
<1>1. PICK L : L = Len(words) + 1
  OBVIOUS
<1>2. PICK gs : gs = Dropped(h[L])
  OBVIOUS
<1>3. PICK f : f = TopOf(h[L])
  OBVIOUS
<1>4. /\ Innermost({"DO"}) /\ Reads(w, Inside)
      /\ code' = PatchLeaves(code \o <<Call(routine), Target(Top(1))>>, heads[depth], HERE + 2)
      /\ cstack' = Pops(1) /\ depth' = depth - 1 /\ heads' = heads
  BY DEF EndLoop
<1>5. /\ ReadTo(h, w, gs) /\ OpenIs(gs, open') /\ NestOf(h[L]) = NestOf(gs) + Weight(f.s) /\ Drops(h[L], w, L, gs)
      /\ left' = left
  <2>1. w \in Closers /\ \A s \in {"DO"} : s \in Needs(w)
    BY NeedsAre DEF Closers
  <2> QED BY <2>1, <1>1, <1>2, <1>3, <1>4, ClosingRead
<1>6. h[L] # <<>> /\ f.s = "DO"
  <2>1. f.s \in {"DO"} /\ h[L] # <<>>
    BY <1>1, <1>3, <1>4, Needed
  <2> QED BY <2>1
<1>7. PICK h2 : ReadWith(h, w, gs, h2)
  BY <1>5 DEF ReadTo
<1>8. /\ Extends(h, words, code, w, gs, h2, words') /\ HoldsBefore(h, words, w, gs, h2, words', cstack, left)
      /\ Grows(h, words, w, gs, h2, words')
  BY <1>7 DEF ReadWith, Extends
<1>9. /\ depth = NestOf(h[L]) /\ depth \in 0..Levels /\ HERE \in Nat /\ HERE = Len(code) + 1 /\ L \in Nat /\ Len(code) \in Nat
      /\ h[L] \in Seq(Frame) /\ Holds(words, h[L], cstack, left) /\ left \in Seq(Nat) /\ cstack \in Seq(Nat) /\ code \in Seq(Cell)
      /\ gs \in Seq(Frame) /\ NestOf(gs) \in Nat /\ heads \in [1..Levels -> Nat] /\ Levels \in Nat
      /\ Chained(h, words, code, heads) /\ w \in Names
  <2>1. w \in Names
    BY StructuresNamed DEF LoopEnds
  <2> QED BY <2>1, <1>1, <1>2, <1>6, Before, DroppedTypes, StackFields
<1>10. TopHolds(words, f, cstack)
  <2>1. h[L] \in Seq(Frame) /\ h[L] # <<>> /\ left \in Seq(Nat) /\ Holds(words, h[L], cstack, left) /\ f = TopOf(h[L])
    BY <1>3, <1>6, <1>9
  <2> QED BY ONLY <2>1, TopIs
<1>11. Top(1) = words[f.at].code + 1
  <2>1. Len(cstack) + 1 - 1 = Len(cstack)
    BY <1>9
  <2> QED BY <2>1, <1>6, <1>10 DEF Top, TopHolds
<1>12. PICK y : y = Target(Top(1))
  OBVIOUS
<1>13. PICK cd1 : cd1 = code \o <<Call(routine), y>>
  OBVIOUS
<1>14. CellsGrow(h, words, code, w, gs, h2, words', cd1, {}) /\ Len(cd1) = Len(code) + 2
  <2>1. FrameSound(words, h[L], L, Len(h[L])) /\ f = h[L][Len(h[L])]
    BY <1>1, <1>3, <1>4, Needed
  <2>2. f.at \in 1..Len(words)
    BY <2>1, <1>1 DEF FrameSound
  <2>3. words[f.at].code + 1 \in Nat
    BY <2>2, <1>1, Before, WordFields
  <2>5. y \in Cell /\ y.to = words[f.at].code + 1
    BY <2>3, <1>11, <1>12, CallTypes DEF Target
  <2>6. Call(routine) \in Cell /\ Call(routine).op = Runs(w)
    BY CallTypes DEF Call
  <2>7. w \notin {"UNTIL", "REPEAT"}
    BY DEF LoopEnds
  <2>8. CellsGrow(h, words, code, w, gs, h2, words', cd1, {})
    BY <2>5, <2>6, <2>7, <1>1, <1>3, <1>6, <1>8, <1>13, ExtendsTwo
  <2>9. Len(cd1) = Len(code) + 2
    BY <2>5, <2>6, <1>9, <1>13
  <2> QED BY <2>8, <2>9
<1>15. PICK A : A = Nodes(h, words, TopOf(h[L]).at)
  OBVIOUS
<1>16. PICK to \in Nat : to = HERE + 2 /\ to = Len(cd1) + 1
  BY <1>9, <1>14
<1>17. depth \in 1..Levels /\ depth - 1 = NestOf(gs)
  BY <1>5, <1>6, <1>9 DEF Weight
<1>18. PICK head \in Nat : head = heads[depth] /\ head = heads[NestOf(h[L])]
  BY <1>9, <1>17
<1>19. /\ CellsGrow(h, words, code, w, gs, h2, words', PatchLeaves(cd1, head, to), A)
       /\ PatchesThem(h2, words, words', PatchLeaves(cd1, head, to))
  BY <1>1, <1>3, <1>6, <1>9, <1>14, <1>15, <1>16, <1>18, LeavesPatched
<1>20. code' = PatchLeaves(cd1, head, to)
  BY <1>4, <1>12, <1>13, <1>16, <1>18
<1>21. ChainsGo(h, L, w, gs, heads, h2, words', code', heads')
  <2>1. w \notin {"DO", "LEAVE"}
    BY DEF LoopEnds
  <2> QED BY <2>1, <1>1, <1>4, <1>8, ChainsSame
<1>22. Holds(words', gs, cstack', left)
  <2>1. Kept(f.s) = 1
    BY <1>6 DEF Kept
  <2>2. Holds(words', gs, SubSeq(cstack, 1, Len(cstack) - 1), left)
    BY <2>1, <1>1, <1>3, <1>5, <1>8, HoldsDrops
  <2> QED BY <2>2, <1>4 DEF Pops
<1>23. depth' = NestOf(gs)
  BY <1>4, <1>17
<1>24. CompiledBy(h2)'
  <2>1. CellsGrow(h, words, code, w, gs, h2, words', code', A) /\ PatchesThem(h2, words, words', code')
    BY <1>19, <1>20
  <2> QED BY <2>1, <1>1, <1>5, <1>9, <1>21, <1>22, <1>23, WordCompiles
<1> QED BY <1>24 DEF CompiledNow
\* The words that leave what is open as it is.
LEMMA StayingRead ==
    ASSUME NestInv, NEW h, CompiledBy(h), NEW w \in Names, NEW L, L = Len(words) + 1, After(h[L], w, L, h[L]),
           words' = Append(words, [word |-> w, code |-> HERE, deep |-> Len(open)]), cstack' = cstack
    PROVE  /\ ReadTo(h, w, h[L]) /\ OpenIs(h[L], open)
           /\ \A h2 : ReadWith(h, w, h[L], h2) => Holds(words', h[L], cstack', left)
<1>1. h[L] \in Seq(Frame) /\ OpenIs(h[L], open)
  BY Before
<1>2. ReadTo(h, w, h[L])
  BY <1>1, ReadsOn
<1>3. ASSUME NEW h2, ReadWith(h, w, h[L], h2) PROVE Holds(words', h[L], cstack', left)
  <2>1. HoldsBefore(h, words, w, h[L], h2, words', cstack, left)
    BY <1>3 DEF ReadWith
  <2>2. Holds(words', h[L], cstack, left)
    BY <2>1, HoldsStays
  <2> QED BY <2>2
<1> QED BY <1>1, <1>2, <1>3

LEMMA LoopIsOpen ==
    ASSUME NestInv, NEW h, CompiledBy(h), InLoop, NEW L, L = Len(words) + 1
    PROVE  LoopOf(h[L]) # 0 /\ depth \in 1..Levels
<1>1. /\ open \in Seq(Structures) /\ h[L] \in Seq(Frame) /\ OpenIs(h[L], open) /\ StackSound(h, words, L)
      /\ depth = NestOf(h[L]) /\ depth \in 0..Levels /\ Levels \in Nat
  BY Before
<1>2. PICK i \in DOMAIN open : open[i] = "DO"
  BY DEF InLoop
<1>3. i \in 1..Len(h[L]) /\ h[L][i].s = "DO"
  BY <1>1, <1>2 DEF OpenIs
<1>4. h[L][i].nest \in Nat /\ h[L][i].nest >= 1 /\ h[L][i].nest <= NestOf(h[L])
  BY <1>1, <1>3, LoopsApart
<1>5. NestOf(h[L]) # 0 /\ depth \in 1..Levels
  BY <1>1, <1>4
<1>6. LoopOf(h[L]) # 0 <=> NestOf(h[L]) # 0
  BY <1>1, InnermostTells
<1> QED BY <1>5, <1>6

LEMMA LeaveCompiles == ASSUME NestInv, NEW h, CompiledBy(h), Leave PROVE CompiledNow'
<1>1. PICK L : L = Len(words) + 1
  OBVIOUS
<1>2. /\ InLoop /\ Reads("LEAVE", open) /\ code' = code \o <<Call("LEAVE_RT"), Target(heads[depth])>>
      /\ heads' = [heads EXCEPT ![depth] = HERE + 1] /\ cstack' = cstack /\ depth' = depth
  BY DEF Leave, Compiles
<1>3. PICK w : w = "LEAVE"
  OBVIOUS
<1>4. LoopOf(h[L]) # 0 /\ depth \in 1..Levels
  BY <1>1, <1>2, LoopIsOpen
<1>5. After(h[L], w, L, h[L]) /\ w \in Names
  <2>1. Stays(h[L], w, L, h[L])
    BY <1>3, <1>4, Zenon DEF Stays
  <2> QED BY <2>1, <1>3, KindsOf, StructuresNamed
<1>6. words' = Append(words, [word |-> w, code |-> HERE, deep |-> Len(open)]) /\ open' = open /\ left' = left
  BY <1>2, <1>3, ReadsIs
<1>7. /\ ReadTo(h, w, h[L]) /\ OpenIs(h[L], open)
      /\ \A h2 : ReadWith(h, w, h[L], h2) => Holds(words', h[L], cstack', left)
  BY <1>1, <1>2, <1>5, <1>6, StayingRead
<1>8. PICK h2 : ReadWith(h, w, h[L], h2)
  BY <1>7 DEF ReadTo
<1>9. Extends(h, words, code, w, h[L], h2, words') /\ Grows(h, words, w, h[L], h2, words')
  BY <1>8 DEF ReadWith, Extends
<1>10. /\ depth = NestOf(h[L]) /\ HERE \in Nat /\ HERE = Len(code) + 1 /\ Len(code) \in Nat /\ code \in Seq(Cell)
       /\ heads \in [1..Levels -> Nat] /\ Levels \in Nat /\ Chained(h, words, code, heads)
  BY <1>1, Before
<1>11. PICK y : y = Target(heads[depth])
  OBVIOUS
<1>12. PICK gs : gs = h[L]
  OBVIOUS
<1>13. CellsGrow(h, words, code, w, gs, h2, words', code', {}) /\ code'[Len(code) + 2].to = heads[depth]
  <2>1. y \in Cell /\ y.to = heads[depth]
    BY <1>4, <1>10, <1>11, CallTypes DEF Target
  <2>2. Call("LEAVE_RT") \in Cell /\ Call("LEAVE_RT").op = Runs(w)
    BY <1>3, CallTypes DEF Routines, Call, Runs
  <2>3. w \in Forward /\ w \notin {"UNTIL", "REPEAT"} \cup LoopEnds
    BY <1>3 DEF Forward, LoopEnds
  <2>4. code' = code \o <<Call("LEAVE_RT"), y>>
    BY <1>2, <1>11
  <2>5. CellsGrow(h, words, code, w, gs, h2, words', code', {})
    BY <2>1, <2>2, <2>3, <2>4, <1>1, <1>9, <1>12, ExtendsTwo
  <2>6. code'[Len(code) + 2] = y
    BY <2>1, <2>2, <2>4, <1>10
  <2> QED BY <2>1, <2>5, <2>6
<1>14. PatchesThem(h2, words, words', code')
  BY <1>3, <1>9, NoPatch DEF LoopEnds
<1>15. ChainsGo(h, L, w, gs, heads, h2, words', code', heads')
  <2>1. NestOf(h[L]) \in 1..Levels /\ code'[Len(code) + 2].to = heads[NestOf(h[L])]
    BY <1>4, <1>10, <1>13
  <2>2. PICK hd2 : hd2 = heads'
    OBVIOUS
  <2>3. hd2 = [heads EXCEPT ![NestOf(h[L])] = Len(code) + 2]
    <3>1. HERE + 1 = Len(code) + 2
      BY <1>10
    <3> QED BY <3>1, <2>2, <1>2, <1>10
  <2>4. ChainsGo(h, L, w, gs, heads, h2, words', code', hd2)
    BY <2>1, <2>3, <1>1, <1>3, <1>4, <1>10, <1>12, <1>13, ChainsLeave
  <2> QED BY <2>2, <2>4
<1>16. Holds(words', gs, cstack', left) /\ OpenIs(gs, open') /\ depth' = NestOf(gs)
  BY <1>2, <1>6, <1>7, <1>8, <1>10, <1>12
<1>17. CompiledBy(h2)'
  BY <1>1, <1>5, <1>6, <1>13, <1>14, <1>15, <1>16, WordCompiles
<1> QED BY <1>17 DEF CompiledNow

LEMMA ExitCompiles == ASSUME NestInv, NEW h, CompiledBy(h), Exit PROVE CompiledNow'
<1>1. PICK L : L = Len(words) + 1
  OBVIOUS
<1>2. /\ Reads("EXIT", open) /\ code' = code \o ([i \in 1..2 * depth |-> Byte("POP HL")] \o <<Byte("RET")>>)
      /\ heads' = heads /\ cstack' = cstack /\ depth' = depth
  BY DEF Exit, Compiles, NoLoopWord
<1>5. After(h[L], "EXIT", L, h[L]) /\ "EXIT" \in Names
  <2>1. Stays(h[L], "EXIT", L, h[L])
    BY Zenon DEF Stays
  <2>2. "EXIT" \in Names
    BY Zenon DEF Names
  <2> QED BY <2>1, <2>2, KindsOf
<1>6. words' = Append(words, [word |-> "EXIT", code |-> HERE, deep |-> Len(open)]) /\ open' = open /\ left' = left
  BY <1>2, ReadsIs
<1>7. /\ ReadTo(h, "EXIT", h[L]) /\ OpenIs(h[L], open)
      /\ \A h2 : ReadWith(h, "EXIT", h[L], h2) => Holds(words', h[L], cstack', left)
  BY <1>1, <1>2, <1>5, <1>6, StayingRead
<1>8. PICK h2 : ReadWith(h, "EXIT", h[L], h2)
  BY <1>7 DEF ReadTo
<1>9. Extends(h, words, code, "EXIT", h[L], h2, words') /\ Grows(h, words, "EXIT", h[L], h2, words')
  BY <1>8 DEF ReadWith, Extends
<1>10. depth = NestOf(h[L])
  BY <1>1, Before
<1>11. CellsGrow(h, words, code, "EXIT", h[L], h2, words', code', {})
  <2>1. PICK n : n = 2 * NestOf(h[L])
    OBVIOUS
  <2>2. CellsGrow(h, words, code, "EXIT", h[L], h2, words', code \o ([i \in 1..n |-> Byte("POP HL")] \o <<Byte("RET")>>), {})
    BY <2>1, <1>1, <1>9, ExtendsExit
  <2> QED BY <2>1, <2>2, <1>2, <1>10
<1>12. PatchesThem(h2, words, words', code')
  BY <1>9, NoPatch DEF LoopEnds
<1>13. ChainsGo(h, L, "EXIT", h[L], heads, h2, words', code', heads')
  BY <1>1, <1>2, <1>9, ChainsSame
<1>14. Holds(words', h[L], cstack', left) /\ OpenIs(h[L], open') /\ depth' = NestOf(h[L])
  BY <1>2, <1>6, <1>7, <1>8, <1>10
<1>15. CompiledBy(h2)'
  BY <1>1, <1>5, <1>6, <1>11, <1>12, <1>13, <1>14, WordCompiles
<1> QED BY <1>15 DEF CompiledNow

LEMMA SemicolonCompiles == ASSUME NestInv, NEW h, CompiledBy(h), SemicolonRet PROVE CompiledNow'
<1>1. PICK L : L = Len(words) + 1
  OBVIOUS
<1>2. PICK w : w = ";"
  OBVIOUS
<1>3. /\ words' = Append(words, [word |-> w, code |-> HERE, deep |-> 0]) /\ open = <<>> /\ code' = code \o <<Byte("RET")>>
      /\ heads' = heads /\ cstack' = cstack /\ depth' = depth /\ open' = open /\ left' = left
  BY <1>2, Zenon DEF SemicolonRet, Compiles
<1>4. h[L] = <<>> /\ h[L] \in Seq(Frame)
  <2>1. h[L] \in Seq(Frame) /\ OpenIs(h[L], open)
    BY <1>1, Before
  <2>2. Len(h[L]) = 0
    BY <2>1, <1>3 DEF OpenIs
  <2> QED BY <2>1, <2>2
<1>5. After(h[L], w, L, h[L]) /\ w \in Names /\ w \in Short /\ w \notin {"DO", "LEAVE", "ELSE", "IF", "WHILE"}
  <2>1. Stays(h[L], w, L, h[L])
    BY <1>2, <1>4, Zenon DEF Stays
  <2>2. w \in Names /\ w \in Short /\ w \notin {"DO", "LEAVE", "ELSE", "IF", "WHILE"}
    BY <1>2, Zenon DEF Names, Short
  <2> QED BY <2>1, <2>2, KindsOf
<1>6. words' = Append(words, [word |-> w, code |-> HERE, deep |-> Len(open)])
  BY <1>3
<1>7. /\ ReadTo(h, w, h[L]) /\ OpenIs(h[L], open)
      /\ \A h2 : ReadWith(h, w, h[L], h2) => Holds(words', h[L], cstack', left)
  BY <1>1, <1>3, <1>5, <1>6, StayingRead
<1>8. PICK h2 : ReadWith(h, w, h[L], h2)
  BY <1>7 DEF ReadTo
<1>9. Extends(h, words, code, w, h[L], h2, words') /\ Grows(h, words, w, h[L], h2, words')
  BY <1>8 DEF ReadWith, Extends
<1>10. depth = NestOf(h[L])
  BY <1>1, Before
<1>11. CellsGrow(h, words, code, w, h[L], h2, words', code', {})
  <2>1. Byte("RET") \in Cell /\ Byte("RET").op = "RET"
    BY CallTypes DEF Routines, Byte
  <2>2. Runs(w) = "RET"
    BY <1>5, ShortIs DEF Runs, LoopEnds
  <2> QED BY <2>1, <2>2, <1>1, <1>3, <1>5, <1>9, ExtendsOne
<1>12. PatchesThem(h2, words, words', code')
  BY <1>5, <1>9, ShortIs, NoPatch
<1>13. ChainsGo(h, L, w, h[L], heads, h2, words', code', heads')
  BY <1>1, <1>3, <1>5, <1>9, ChainsSame
<1>14. Holds(words', h[L], cstack', left) /\ OpenIs(h[L], open') /\ depth' = NestOf(h[L])
  BY <1>3, <1>7, <1>8, <1>10
<1>15. CompiledBy(h2)'
  BY <1>1, <1>3, <1>5, <1>11, <1>12, <1>13, <1>14, WordCompiles
<1> QED BY <1>15 DEF CompiledNow

\* Nothing read: the code is empty, and the stack is what was left on it.
LEMMA NothingCompiled == ASSUME NEW hd, NEW lf \in Seq(Nat) PROVE \E h : Compiled(h, <<>>, <<>>, <<>>, lf, 0, hd, lf)
<1> DEFINE h == [k \in 1..1 |-> <<>>]
<1>1. h \in [1..1 -> Seq(Frame)] /\ h[1] = <<>>
  OBVIOUS
<1> HIDE DEF h
<1>2. PICK ws : ws = <<>>
  OBVIOUS
<1>3. Len(ws) = 0 /\ Len(ws) + 1 = 1 /\ 1..Len(ws) = {} /\ 1..Len(ws) + 1 = 1..1
  BY <1>2
<1>4. h[Len(ws) + 1] = <<>>
  BY <1>1, <1>3
<1>5. History(h, ws)
  BY <1>1, <1>3 DEF History, StackSound
<1>6. PICK cd : cd = <<>>
  OBVIOUS
<1>7. Laid(h, ws, cd)
  BY <1>3, <1>6 DEF Laid, At
<1>8. Patched(h, ws, cd)
  BY <1>3 DEF Patched
<1>9. Chained(h, ws, cd, hd)
  BY <1>4 DEF Chained
<1>10. Holds(ws, <<>>, lf, lf)
  BY DEF Holds, SpOf
<1>11. OpenIs(<<>>, <<>>) /\ 0 = NestOf(<<>>)
  BY DEF OpenIs, NestOf
<1>12. Compiled(h, ws, <<>>, cd, lf, 0, hd, lf)
  BY <1>4, <1>5, <1>7, <1>8, <1>9, <1>10, <1>11 DEF Compiled
<1> QED BY <1>2, <1>6, <1>12

LEMMA DropCompiles == ASSUME NestInv, DropDefinition PROVE CompiledNow'
<1>1. /\ words' = <<>> /\ open' = <<>> /\ code' = <<>> /\ depth' = 0 /\ left' = cstack' /\ heads' = heads
      /\ cstack' \in Seq(Nat)
  <2>1. cstack' \in {<<>>, cstack} /\ cstack \in Seq(Nat)
    BY DEF DropDefinition, NestInv, CompileTypes
  <2>2. <<>> \in Seq(Nat)
    OBVIOUS
  <2>3. cstack' \in Seq(Nat)
    BY <2>1, <2>2
  <2> QED BY <2>3 DEF DropDefinition
<1>2. PICK lf \in Seq(Nat) : lf = cstack'
  BY <1>1
<1>3. PICK h : Compiled(h, <<>>, <<>>, <<>>, lf, 0, heads, lf)
  BY <1>2, NothingCompiled
<1>4. Compiled(h, words', open', code', cstack', depth', heads', left')
  BY <1>1, <1>2, <1>3
<1> QED BY <1>4 DEF CompiledNow, CompiledBy
LEMMA InitCompiled == ASSUME ControlInit PROVE CompiledNow
<1>1. words = <<>> /\ open = <<>> /\ code = <<>> /\ depth = 0 /\ left = cstack /\ cstack = <<>>
  BY DEF ControlInit
<1>2. PICK lf \in Seq(Nat) : lf = cstack
  <2>1. <<>> \in Seq(Nat)
    OBVIOUS
  <2> QED BY <2>1, <1>1
<1>3. PICK h : Compiled(h, <<>>, <<>>, <<>>, lf, 0, heads, lf)
  BY <1>2, NothingCompiled
<1>4. Compiled(h, words, open, code, cstack, depth, heads, left)
  BY <1>1, <1>2, <1>3
<1> QED BY <1>4 DEF CompiledNow, CompiledBy

LEMMA CompiledStep == ASSUME NestInv, CompiledNow, [ControlNext]_controlVars PROVE CompiledNow'
<1>1. PICK h : CompiledBy(h)
  BY DEF CompiledNow
<1>2. ASSUME CompileWord PROVE CompiledNow'
  <2>1. CASE Loop
    <3>1. "LOOP" \in LoopEnds /\ "LOOP_RT" \in Routines /\ "LOOP_RT" = Runs("LOOP")
      BY DEF LoopEnds, Routines, Runs
    <3> QED BY <3>1, <2>1, <1>1, EndLoopCompiles DEF Loop
  <2>2. CASE PlusLoop
    <3>1. "+LOOP" \in LoopEnds /\ "PLUSLOOP_RT" \in Routines /\ "PLUSLOOP_RT" = Runs("+LOOP")
      BY DEF LoopEnds, Routines, Runs
    <3> QED BY <3>1, <2>2, <1>1, EndLoopCompiles DEF PlusLoop
  <2> QED BY <2>1, <2>2, <1>1, <1>2, IfCompiles, ElseCompiles, ThenCompiles, BeginCompiles, UntilCompiles, WhileCompiles,
             RepeatCompiles, DoCompiles, LeaveCompiles, ExitCompiles, SemicolonCompiles, DropCompiles DEF CompileWord
<1>3. ASSUME UNCHANGED <<textVars, compileVars>> PROVE CompiledNow'
  <2>1. CompiledBy(h)'
    BY <1>1, <1>3 DEF CompiledBy, textVars, compileVars
  <2> QED BY <2>1 DEF CompiledNow
<1>4. Called \/ (Execute /\ UNCHANGED <<textVars, compileVars>>) \/ (PopHL /\ UNCHANGED <<pos, loops, textVars, compileVars>>)
         \/ UNCHANGED controlVars => UNCHANGED <<textVars, compileVars>>
  BY DEF Called, controlVars
<1> QED BY <1>2, <1>3, <1>4 DEF ControlNext
----------------------------------------------------------------------------
\* Arithmetic in a cell.
LEMMA Wraps == ASSUME NEW M \in Nat, M > 0, NEW n \in Int
               PROVE  /\ n \in 0..M - 1 => n % M = n
                      /\ n \in M..2 * M - 1 => n % M = n - M
                      /\ n \in -M..-1 => n % M = n + M
<1>1. ASSUME n \in 0..M - 1 PROVE n % M = n
  BY <1>1
<1>2. ASSUME n \in M..2 * M - 1 PROVE n % M = n - M
  BY <1>2
<1>3. ASSUME n \in -M..-1 PROVE n % M = n + M
  BY <1>3
<1> QED BY <1>1, <1>2, <1>3
LEMMA BitsIs == ASSUME Half \in Nat \ {0}, NEW n \in Int
                PROVE  /\ n \in 0..2 * Half - 1 => Bits(n) = n
                       /\ n \in 2 * Half..4 * Half - 1 => Bits(n) = n - 2 * Half
                       /\ n \in -(2 * Half)..-1 => Bits(n) = n + 2 * Half
<1>1. PICK M \in Nat : M = 2 * Half /\ M > 0
  OBVIOUS
<1>2. Bits(n) = n % M
  BY <1>1 DEF Bits
<1>3. 2 * M - 1 = 4 * Half - 1
  BY <1>1
<1> QED BY <1>1, <1>2, <1>3, Wraps
Moves(H, j, u, v, d, s) ==
    /\ d \in -H..H - 1 /\ s \in -H..H - 1 /\ u \in 0..2 * H - 1 /\ v \in 0..2 * H - 1 /\ j \in 0..2 * H - 1
    /\ Negative(u) <=> d < 0
    /\ v = d + s \/ v = d + s + 2 * H \/ v = d + s - 2 * H
\* A step of the index, from -2 * Half to 2 * Half - 2 around the limit: it ends the loop as StepEnds says.
LEMMA DistanceMoves ==
    ASSUME Half \in Nat \ {0}, NEW H, H = Half, NEW i \in 0..2 * H - 1, NEW l \in 0..2 * H - 1, NEW st \in 0..2 * H - 1,
           NEW j, j = Bits(i + st), NEW u, u = Bits(i - l), NEW v, v = Bits(j - l), NEW d, d = Signed(u), NEW s, s = Signed(st)
    PROVE  Moves(H, j, u, v, d, s)
<1>1. H \in Nat /\ H >= 1
  OBVIOUS
<1>2. j \in 0..2 * H - 1 /\ (j = i + st \/ j = i + st - 2 * H)
  <2>1. CASE i + st \in 0..2 * H - 1
    BY <2>1, <1>1, BitsIs
  <2>2. CASE i + st \in 2 * H..4 * H - 1
    BY <2>2, <1>1, BitsIs
  <2>3. i + st \in 0..2 * H - 1 \/ i + st \in 2 * H..4 * H - 1
    BY <1>1
  <2> QED BY <2>1, <2>2, <2>3
<1>3. ASSUME NEW a \in 0..2 * H - 1
      PROVE  Bits(a - l) \in 0..2 * H - 1 /\ (Bits(a - l) = a - l \/ Bits(a - l) = a - l + 2 * H)
  <2>1. CASE a - l \in 0..2 * H - 1
    BY <2>1, <1>1, BitsIs
  <2>2. CASE a - l \in -(2 * H)..-1
    BY <2>2, <1>1, BitsIs
  <2>3. a - l \in 0..2 * H - 1 \/ a - l \in -(2 * H)..-1
    BY <1>1
  <2> QED BY <2>1, <2>2, <2>3
<1>4. u \in 0..2 * H - 1 /\ (u = i - l \/ u = i - l + 2 * H)
  BY <1>3
<1>5. v \in 0..2 * H - 1 /\ (v = j - l \/ v = j - l + 2 * H)
  BY <1>2, <1>3
<1>6. d \in -H..H - 1 /\ (d = u \/ d = u - 2 * H) /\ (Negative(u) <=> d < 0)
  BY <1>1, <1>4 DEF Signed, Negative
<1>7. s \in -H..H - 1 /\ (s = st \/ s = st - 2 * H)
  BY <1>1 DEF Signed, Negative
<1>8. v = d + s \/ v = d + s + 2 * H \/ v = d + s - 2 * H
  <2>1. d \in Int /\ s \in Int /\ u \in Int /\ v \in Int /\ j \in Int /\ i \in Int /\ l \in Int /\ st \in Int
    BY <1>1, <1>2, <1>4, <1>5, <1>6, <1>7
  <2>2. H \in Int /\ (d = i - l \/ d = i - l + 2 * H \/ d = i - l - 2 * H)
    BY <2>1, <1>1, <1>4, <1>6
  <2>3. d + s = i - l + st \/ d + s = i - l + st + 2 * H \/ d + s = i - l + st - 2 * H \/ d + s = i - l + st - 4 * H
    BY <2>1, <2>2, <1>7
  <2>4. v = i - l + st \/ v = i - l + st + 2 * H \/ v = i - l + st - 2 * H
    BY <2>1, <2>2, <1>2, <1>5
  <2>5. v - (d + s) < 4 * H /\ v - (d + s) > -4 * H
    BY <2>1, <2>2, <1>1, <1>5, <1>6, <1>7
  <2> QED BY <2>1, <2>2, <2>3, <2>4, <2>5, <1>1
<1> QED BY <1>2, <1>4, <1>5, <1>6, <1>7, <1>8 DEF Moves
LEMMA StepEndsIs ==
    ASSUME Half \in Nat \ {0}, NEW loop, loop.index \in Cells, loop.limit \in Cells, NEW step \in Cells
    PROVE  StepEnds(loop, step) <=> Negative(Bits(loop.index - loop.limit)) # Negative(Bits(Bits(loop.index + step) - loop.limit))
<1>1. PICK H : H = Half
  OBVIOUS
<1>2. PICK i \in 0..2 * H - 1 : i = loop.index
  BY <1>1 DEF Cells
<1>3. PICK l \in 0..2 * H - 1 : l = loop.limit
  BY <1>1 DEF Cells
<1>4. PICK st \in 0..2 * H - 1 : st = step
  BY <1>1 DEF Cells
<1>5. PICK j : j = Bits(i + st)
  OBVIOUS
<1>6. PICK u : u = Bits(i - l)
  OBVIOUS
<1>7. PICK v : v = Bits(j - l)
  OBVIOUS
<1>8. PICK d : d = Signed(u)
  OBVIOUS
<1>9. PICK s : s = Signed(st)
  OBVIOUS
<1>10. /\ d \in -H..H - 1 /\ s \in -H..H - 1 /\ u \in 0..2 * H - 1 /\ v \in 0..2 * H - 1 /\ j \in 0..2 * H - 1
       /\ Negative(u) <=> d < 0
       /\ v = d + s \/ v = d + s + 2 * H \/ v = d + s - 2 * H
  <2>1. Moves(H, j, u, v, d, s)
    BY <1>1, <1>5, <1>6, <1>7, <1>8, <1>9, DistanceMoves
  <2> QED BY <2>1 DEF Moves
<1>11. H \in Nat /\ H >= 1 /\ (Negative(v) <=> v >= H)
  BY <1>1 DEF Negative
<1>12. StepEnds(loop, step) <=> \/ d < 0 /\ d + s >= 0
                                \/ d >= 0 /\ d + s < 0
                                \/ d + s \notin -H..H - 1
  BY <1>1, <1>2, <1>3, <1>4, <1>6, <1>8, <1>9 DEF StepEnds
<1>13. d < 0 => (StepEnds(loop, step) <=> v < H)
  BY <1>10, <1>11, <1>12
<1>14. d >= 0 => (StepEnds(loop, step) <=> v >= H)
  BY <1>10, <1>11, <1>12
<1>15. Negative(u) \in BOOLEAN /\ Negative(v) \in BOOLEAN
  BY DEF Negative
<1>16. StepEnds(loop, step) <=> ~(Negative(u) <=> Negative(v))
  BY <1>10, <1>11, <1>13, <1>14
<1>17. (Negative(u) # Negative(v)) <=> ~(Negative(u) <=> Negative(v))
  BY <1>15, Zenon
<1> QED BY <1>2, <1>3, <1>4, <1>5, <1>6, <1>7, <1>16, <1>17
\* The return stack with these loops open.
LoopRecord == [limit : Cells, index : Cells]
FramesAre(l, s) ==
    /\ s \in Seq(Cells) /\ Len(s) = 2 * Len(l) + 1 /\ s[2 * Len(l) + 1] = Home
    /\ \A i \in 1..Len(l) : s[2 * i - 1] = l[i].index /\ s[2 * i] = l[i].limit
LEMMA RecordIs == ASSUME NEW r \in LoopRecord PROVE r.index \in Cells /\ r.limit \in Cells
BY DEF LoopRecord
LEMMA RecordMoves == ASSUME NEW r \in LoopRecord, NEW x \in Cells, NEW q, q = [r EXCEPT !.index = x]
                     PROVE  q \in LoopRecord /\ q.index = x /\ q.limit = r.limit
<1>1. PICK i \in Cells, l \in Cells : r = [limit |-> l, index |-> i]
  BY DEF LoopRecord
<1>2. q = [limit |-> l, index |-> x]
  BY <1>1
<1> QED BY <1>1, <1>2 DEF LoopRecord
LEMMA TailIs == ASSUME NEW T, NEW s \in Seq(T), NEW n \in Nat, Len(s) = n + 1, NEW t, t = Tail(s)
                PROVE  t \in Seq(T) /\ Len(t) = n /\ \A k \in 1..n : t[k] = s[k + 1]
OBVIOUS
LEMMA FramesIs == ASSUME Half \in Nat \ {0}, NEW l \in Seq(LoopRecord) PROVE FramesAre(l, Frames(l))
<1>1. PICK n \in Nat : n = Len(l)
  OBVIOUS
<1>2. \A i \in 1..n : l[i] \in LoopRecord /\ l[i].index \in Cells /\ l[i].limit \in Cells
  <2> TAKE i \in 1..n
  <2>1. l[i] \in LoopRecord
    BY <1>1
  <2> QED BY <2>1, RecordIs
<1>3. Home \in Cells
  BY DEF Home, Cells
<1> DEFINE F(k) == IF k > 2 * n THEN Home ELSE IF k % 2 = 1 THEN l[(k + 1) \div 2].index ELSE l[k \div 2].limit
<1>4. \A k \in 1..2 * n + 1 : F(k) \in Cells
  <2> TAKE k \in 1..2 * n + 1
  <2>1. CASE k > 2 * n
    BY <2>1, <1>3
  <2>2. CASE k <= 2 * n /\ k % 2 = 1
    <3>1. (k + 1) \div 2 \in 1..n
      BY <2>2, <1>1
    <3> QED BY <3>1, <2>2, <1>2
  <2>3. CASE k <= 2 * n /\ k % 2 # 1
    <3>1. k \div 2 \in 1..n
      BY <2>3, <1>1
    <3> QED BY <3>1, <2>3, <1>2
  <2> QED BY <2>1, <2>2, <2>3
<1> DEFINE s == [k \in 1..2 * n + 1 |-> F(k)]
<1>5. Frames(l) = s
  BY <1>1 DEF Frames
<1>6. s \in Seq(Cells)
  BY <1>4
<1>7. Len(s) = 2 * n + 1
  OBVIOUS
<1>8. s[2 * n + 1] = Home
  BY <1>1
<1>9. ASSUME NEW i \in 1..n PROVE s[2 * i - 1] = l[i].index /\ s[2 * i] = l[i].limit
  <2>1. 2 * i - 1 \in 1..2 * n + 1 /\ 2 * i \in 1..2 * n + 1 /\ ~(2 * i - 1 > 2 * n) /\ ~(2 * i > 2 * n)
    BY <1>1
  <2>2. (2 * i - 1) % 2 = 1 /\ (2 * i) % 2 # 1 /\ ((2 * i - 1) + 1) \div 2 = i /\ (2 * i) \div 2 = i
    OBVIOUS
  <2> QED BY <2>1, <2>2
<1> HIDE DEF s
<1> QED BY <1>1, <1>5, <1>6, <1>7, <1>8, <1>9 DEF FramesAre
\* Only one sequence is like that.
LEMMA FramesAlone == ASSUME NEW l, Len(l) \in Nat, NEW s, FramesAre(l, s), NEW t, FramesAre(l, t) PROVE s = t
<1>1. PICK n \in Nat : n = Len(l)
  OBVIOUS
<1>2. /\ s \in Seq(Cells) /\ Len(s) = 2 * n + 1 /\ s[2 * n + 1] = Home
      /\ \A i \in 1..n : s[2 * i - 1] = l[i].index /\ s[2 * i] = l[i].limit
      /\ t \in Seq(Cells) /\ Len(t) = 2 * n + 1 /\ t[2 * n + 1] = Home
      /\ \A i \in 1..n : t[2 * i - 1] = l[i].index /\ t[2 * i] = l[i].limit
  BY <1>1 DEF FramesAre
<1>3. ASSUME NEW k \in 1..2 * n + 1 PROVE s[k] = t[k]
  <2>1. k = 2 * n + 1 \/ \E i \in 1..n : k = 2 * i - 1 \/ k = 2 * i
    <3>1. CASE k > 2 * n
      BY <3>1
    <3>2. CASE k <= 2 * n /\ k % 2 = 1
      <4>1. (k + 1) \div 2 \in 1..n /\ k = 2 * ((k + 1) \div 2) - 1
        BY <3>2
      <4> QED BY <4>1
    <3>3. CASE k <= 2 * n /\ k % 2 # 1
      <4>1. k \div 2 \in 1..n /\ k = 2 * (k \div 2)
        BY <3>3
      <4> QED BY <4>1
    <3> QED BY <3>1, <3>2, <3>3
  <2> QED BY <2>1, <1>2
<1> QED BY <1>2, <1>3, SeqEqual

LEMMA FramesPush == ASSUME Half \in Nat \ {0}, NEW l \in Seq(LoopRecord), NEW r \in LoopRecord
                    PROVE  <<r>> \o l \in Seq(LoopRecord) /\ <<r.index, r.limit>> \o Frames(l) = Frames(<<r>> \o l)
<1>1. PICK m : m = <<r>> \o l
  OBVIOUS
<1>2. m \in Seq(LoopRecord) /\ Len(m) = Len(l) + 1 /\ m[1] = r /\ (\A i \in 1..Len(l) : m[i + 1] = l[i]) /\ Len(l) \in Nat
  BY <1>1
<1>3. PICK f : f = Frames(l)
  OBVIOUS
<1>4. FramesAre(l, f)
  BY <1>3, FramesIs
<1>5. f \in Seq(Cells) /\ Len(f) = 2 * Len(l) + 1 /\ f[2 * Len(l) + 1] = Home
      /\ \A i \in 1..Len(l) : f[2 * i - 1] = l[i].index /\ f[2 * i] = l[i].limit
  BY <1>4 DEF FramesAre
<1>6. r.index \in Cells /\ r.limit \in Cells
  BY DEF LoopRecord
<1>7. PICK s : s = <<r.index, r.limit>> \o f
  OBVIOUS
<1>8. s \in Seq(Cells) /\ Len(s) = Len(f) + 2 /\ s[1] = r.index /\ s[2] = r.limit /\ \A k \in 1..Len(f) : s[k + 2] = f[k]
  BY <1>5, <1>6, <1>7
<1>9. s[2 * Len(m) + 1] = Home
  <2>1. 2 * Len(m) + 1 = (2 * Len(l) + 1) + 2 /\ 2 * Len(l) + 1 \in 1..Len(f)
    BY <1>2, <1>5
  <2> QED BY <2>1, <1>5, <1>8
<1>10. ASSUME NEW i \in 1..Len(m) PROVE s[2 * i - 1] = m[i].index /\ s[2 * i] = m[i].limit
  <2>1. CASE i = 1
    BY <2>1, <1>2, <1>8
  <2>2. CASE i # 1
    <3>1. PICK q \in 1..Len(l) : i = q + 1
      <4>1. i - 1 \in 1..Len(l) /\ i = (i - 1) + 1
        BY <2>2, <1>2
      <4> QED BY <4>1
    <3>5. i = q + 1 /\ q \in 1..Len(l) /\ q \in Int /\ Len(l) \in Int
      BY <3>1, <1>2
    <3>2. 2 * i - 1 = (2 * q - 1) + 2 /\ 2 * i = (2 * q) + 2 /\ 2 * q - 1 \in 1..Len(f) /\ 2 * q \in 1..Len(f)
      BY <3>5, <1>5
    <3>3. m[i] = l[q]
      BY <3>5, <1>2
    <3>4. s[2 * i - 1] = f[2 * q - 1] /\ s[2 * i] = f[2 * q]
      BY <3>2, <1>8
    <3> QED BY <3>3, <3>4, <3>5, <1>5
  <2> QED BY <2>1, <2>2
<1>11. FramesAre(m, s)
  BY <1>2, <1>5, <1>8, <1>9, <1>10 DEF FramesAre
<1>12. FramesAre(m, Frames(m))
  BY <1>2, FramesIs
<1>13. Len(m) \in Nat
  BY <1>2
<1>14. s = Frames(m)
  BY ONLY <1>11, <1>12, <1>13, FramesAlone
<1> QED BY <1>1, <1>2, <1>3, <1>7, <1>14
LEMMA HeadTail == ASSUME NEW T, NEW s \in Seq(T), s # <<>>
                  PROVE  Head(s) \in T /\ Tail(s) \in Seq(T) /\ Len(Tail(s)) = Len(s) - 1 /\ s = <<Head(s)>> \o Tail(s) /\ Head(s) = s[1]
                         /\ Len(s) \in Nat /\ Len(s) >= 1
<1>1. Head(s) \in T /\ Tail(s) \in Seq(T) /\ Len(Tail(s)) = Len(s) - 1 /\ Len(s) \in Nat /\ Len(s) >= 1 /\ Head(s) = s[1]
      /\ \A i \in 1..Len(s) - 1 : Tail(s)[i] = s[i + 1]
  OBVIOUS
<1>2. PICK t : t = Tail(s)
  OBVIOUS
<1>3. PICK x : x = Head(s)
  OBVIOUS
<1>4. <<x>> \o t \in Seq(T) /\ Len(<<x>> \o t) = Len(s) /\ (<<x>> \o t)[1] = x /\ \A i \in 1..Len(t) : (<<x>> \o t)[i + 1] = t[i]
  BY <1>1, <1>2, <1>3
<1>5. \A i \in 1..Len(s) : s[i] = (<<x>> \o t)[i]
  <2> TAKE i \in 1..Len(s)
  <2>1. CASE i = 1
    BY <2>1, <1>1, <1>3, <1>4
  <2>2. CASE i # 1
    <3>1. i - 1 \in 1..Len(t) /\ i - 1 \in 1..Len(s) - 1 /\ i = (i - 1) + 1
      BY <2>2, <1>1, <1>2
    <3> QED BY <3>1, <1>1, <1>2, <1>4
  <2> QED BY <2>1, <2>2
<1>6. s = <<x>> \o t
  BY <1>4, <1>5, SeqEqual
<1> QED BY <1>1, <1>2, <1>3, <1>6
\* The innermost loop's index and limit, and what is under them.
LEMMA FramesTop ==
    ASSUME Half \in Nat \ {0}, NEW l \in Seq(LoopRecord), l # <<>>, NEW f, f = Frames(l)
    PROVE  /\ f[1] = Head(l).index /\ f[2] = Head(l).limit /\ f[1] \in Cells /\ f[2] \in Cells
           /\ Tail(Tail(f)) = Frames(Tail(l))
           /\ \A x \in Cells : [f EXCEPT ![1] = x] = Frames(<<[Head(l) EXCEPT !.index = x]>> \o Tail(l))
<1>1. Head(l) \in LoopRecord /\ Tail(l) \in Seq(LoopRecord) /\ l = <<Head(l)>> \o Tail(l)
  BY HeadTail
<1>2. PICK r \in LoopRecord : r = Head(l)
  BY <1>1
<1>3. PICK m \in Seq(LoopRecord) : m = Tail(l)
  BY <1>1
<1>4. PICK g : g = Frames(m)
  OBVIOUS
<1>5. g \in Seq(Cells)
  <2>1. FramesAre(m, g)
    BY <1>4, FramesIs
  <2> QED BY <2>1 DEF FramesAre
<1>6. f = <<r.index, r.limit>> \o g
  BY <1>1, <1>2, <1>3, <1>4, FramesPush
<1>7. r.index \in Cells /\ r.limit \in Cells
  BY DEF LoopRecord
<1>8. f[1] = r.index /\ f[2] = r.limit /\ f \in Seq(Cells) /\ Len(f) = Len(g) + 2 /\ Len(g) \in Nat /\ \A k \in 1..Len(g) : f[k + 2] = g[k]
  BY <1>5, <1>6, <1>7
<1>9. Tail(Tail(f)) = g
  <2>5. PICK n \in Nat : n = Len(g)
    BY <1>8
  <2>6. PICK t : t = Tail(f)
    OBVIOUS
  <2>7. f \in Seq(Cells) /\ n + 1 \in Nat /\ Len(f) = (n + 1) + 1
    BY <2>5, <1>8
  <2>8. t \in Seq(Cells) /\ Len(t) = n + 1 /\ \A k \in 1..n + 1 : t[k] = f[k + 1]
    BY <2>6, <2>7, TailIs
  <2>9. PICK v : v = Tail(t)
    OBVIOUS
  <2>10. v \in Seq(Cells) /\ Len(v) = n /\ \A k \in 1..n : v[k] = t[k + 1]
    BY <2>8, <2>9, TailIs
  <2>1. t \in Seq(Cells) /\ t = Tail(f) /\ Len(t) = Len(g) + 1 /\ \A k \in 1..Len(g) + 1 : t[k] = f[k + 1]
    BY <2>5, <2>6, <2>8
  <2>2. v \in Seq(Cells) /\ v = Tail(t) /\ Len(v) = Len(g) /\ \A k \in 1..Len(g) : v[k] = t[k + 1]
    BY <2>5, <2>9, <2>10
  <2>3. \A k \in 1..Len(v) : v[k] = g[k]
    <3> TAKE k \in 1..Len(v)
    <3>1. k \in 1..Len(g) /\ k + 1 \in 1..Len(g) + 1 /\ (k + 1) + 1 = k + 2
      BY <2>2, <1>8
    <3> QED BY <3>1, <2>1, <2>2, <1>8
  <2>4. v = g
    BY <2>2, <2>3, <1>5, SeqEqual
  <2> QED BY <2>1, <2>2, <2>4
<1>10. ASSUME NEW x \in Cells PROVE [f EXCEPT ![1] = x] = Frames(<<[r EXCEPT !.index = x]>> \o m)
  <2>9. PICK q : q = [r EXCEPT !.index = x]
    OBVIOUS
  <2>1. q \in LoopRecord /\ q = [r EXCEPT !.index = x] /\ q.index = x /\ q.limit = r.limit
    BY <2>9, RecordMoves
  <2>2. <<q.index, q.limit>> \o g = Frames(<<q>> \o m)
    BY <1>4, <2>1, FramesPush
  <2>3. PICK e : e = <<q.index, q.limit>> \o g
    OBVIOUS
  <2>4. e \in Seq(Cells) /\ Len(e) = Len(g) + 2 /\ e[1] = x /\ e[2] = r.limit /\ \A k \in 1..Len(g) : e[k + 2] = g[k]
    BY <2>1, <2>3, <1>5, <1>7
  <2>5. PICK c : c = [f EXCEPT ![1] = x]
    OBVIOUS
  <2>6. c \in Seq(Cells) /\ Len(c) = Len(f) /\ c[1] = x /\ \A k \in 2..Len(f) : c[k] = f[k]
    BY <2>5, <1>8
  <2>7. \A k \in 1..Len(c) : c[k] = e[k]
    <3> TAKE k \in 1..Len(c)
    <3>1. CASE k = 1
      BY <3>1, <2>4, <2>6
    <3>2. CASE k = 2
      BY <3>2, <2>4, <2>6, <1>8
    <3>3. CASE k > 2
      <4>1. k - 2 \in 1..Len(g) /\ k = (k - 2) + 2 /\ k \in 2..Len(f)
        BY <3>3, <2>6, <1>8
      <4>2. PICK j \in 1..Len(g) : k = j + 2
        BY <4>1
      <4>3. c[k] = f[k] /\ f[k] = g[j] /\ e[k] = g[j]
        BY <4>1, <4>2, <2>4, <2>6, <1>8
      <4> QED BY <4>3
    <3> QED BY <3>1, <3>2, <3>3, <2>6, <1>8
  <2>8. c = e
    BY <2>4, <2>6, <2>7, <1>8, SeqEqual
  <2> QED BY <2>1, <2>2, <2>3, <2>5, <2>8
<1> QED BY <1>2, <1>3, <1>4, <1>7, <1>8, <1>9, <1>10
----------------------------------------------------------------------------
\* A definition that is closed: every structure in it has its end, and what it means is where its code goes.
LEMMA LeastIs == ASSUME NEW S \in SUBSET Int, NEW e \in S, \A k \in S : e <= k PROVE Least(S) = e
<1>1. \E k \in S : \A l \in S : k <= l
  OBVIOUS
<1>2. Least(S) \in S /\ \A l \in S : Least(S) <= l
  BY <1>1 DEF Least
<1>3. Least(S) \in Int /\ e \in Int /\ Least(S) <= e /\ e <= Least(S)
  BY <1>2
<1> QED BY <1>3
LEMMA MostIs == ASSUME NEW S \in SUBSET Int, NEW e \in S, \A k \in S : k <= e PROVE Most(S) = e
<1>1. \E k \in S : \A l \in S : l <= k
  OBVIOUS
<1>2. Most(S) \in S /\ \A l \in S : l <= Most(S)
  BY <1>1 DEF Most
<1>3. Most(S) \in Int /\ e \in Int /\ Most(S) <= e /\ e <= Most(S)
  BY <1>2
<1> QED BY <1>3

Whole(h) == words \in Seq(WordRecord) /\ History(h, words) /\ h[Len(words) + 1] = <<>>
LEMMA WholeAt ==
    ASSUME NEW h, Whole(h), NEW k \in 1..Len(words) + 1
    PROVE  /\ words \in Seq(WordRecord) /\ History(h, words) /\ Len(words) \in Nat /\ k \in Nat
           /\ h[k] \in Seq(Frame) /\ StackSound(h, words, k) /\ Len(h[k]) \in Nat
<1>1. words \in Seq(WordRecord) /\ History(h, words) /\ Len(words) \in Nat /\ k \in Nat
  BY DEF Whole
<1>2. h[k] \in Seq(Frame) /\ StackSound(h, words, k)
  BY <1>1, HistoryAt
<1> QED BY <1>1, <1>2

\* The innermost structure before word k, and where it was opened.
LEMMA TopAt ==
    ASSUME NEW h, Whole(h), NEW k \in 1..Len(words) + 1, h[k] # <<>>, NEW j, j = Len(h[k]), NEW l, l = TopOf(h[k]).at
    PROVE  /\ j \in 1..Len(h[k]) /\ h[k][j] = TopOf(h[k]) /\ l \in 1..k - 1 /\ l \in 1..Len(words)
           /\ WordAt(l) = OpenerOf(TopOf(h[k]).s) /\ TopOf(h[k]).s \in Structures /\ words[l].deep = j /\ Len(h[l + 1]) = j
           /\ FrameSound(words, h[k], k, j) /\ NestOf(h[l + 1]) = NestOf(h[k]) /\ WordAt(l) \in Openers
<1>1. /\ words \in Seq(WordRecord) /\ History(h, words) /\ Len(words) \in Nat /\ k \in Nat
      /\ h[k] \in Seq(Frame) /\ StackSound(h, words, k) /\ Len(h[k]) \in Nat
  BY WholeAt
<1>2. j \in 1..Len(h[k]) /\ h[k][j] = TopOf(h[k]) /\ j \in Nat /\ j >= 1
  BY <1>1 DEF TopOf
<1>3. FrameSound(words, h[k], k, j) /\ h[k][j] \in Frame
  BY <1>1, <1>2 DEF StackSound, SoundAt
<1>4. l \in 1..k - 1 /\ WordAt(l) = OpenerOf(TopOf(h[k]).s) /\ words[l].deep = j /\ h[k][j].at = l
  BY <1>2, <1>3 DEF FrameSound, WordAt
<1>5. TopOf(h[k]).s \in Structures
  BY <1>2, <1>3, FrameFields
<1>6. l \in 1..Len(words) /\ l + 1 \in l + 1..k /\ l + 1 \in 1..Len(words) + 1 /\ l \in 1..Len(words) + 1 /\ l <= Len(words)
  BY <1>1, <1>4
<1>7. Len(h[l + 1]) = j /\ h[l + 1] \in Seq(Frame)
  BY <1>1, <1>4, <1>6, HistoryAt
<1>8. h[l + 1][j].nest = h[k][j].nest
  <2>1. l + 1 \in h[k][j].at + 1..k
    BY <1>4, <1>6
  <2> QED BY <2>1, <1>1, <1>2, OpenSince
<1>9. NestOf(h[l + 1]) = NestOf(h[k])
  <2>1. h[l + 1] # <<>>
    BY <1>2, <1>7
  <2> QED BY <2>1, <1>7, <1>8 DEF NestOf
<1>10. WordAt(l) \in Openers
  BY <1>4, <1>5 DEF Openers, OpenerOf
<1> QED BY <1>2, <1>3, <1>4, <1>5, <1>6, <1>7, <1>9, <1>10

LEMMA EndIs ==
    ASSUME NEW h, Whole(h), NEW e \in 1..Len(words), NEW l, EndsAt(h, words, l, e)
    PROVE  EndOf(l) = e
<1>1. WordAt(e) \in Closers /\ h[e] # <<>> /\ l = TopOf(h[e]).at /\ words[e].word \in Closers
  BY DEF EndsAt, WordAt
<1>2. e \in 1..Len(words) + 1 /\ words \in Seq(WordRecord) /\ Len(words) \in Nat /\ e \in Nat /\ History(h, words) /\ e <= Len(words)
  BY WholeAt
<1>3. PICK j : j = Len(h[e])
  OBVIOUS
<1>4. /\ j \in 1..Len(h[e]) /\ h[e][j] = TopOf(h[e]) /\ l \in 1..e - 1 /\ words[l].deep = j /\ l \in 1..Len(words)
  BY <1>1, <1>2, <1>3, TopAt
<1>5. Len(h[e + 1]) = j - 1 /\ words[e].deep = Len(h[e + 1])
  BY <1>1, <1>2, <1>3, EndDrops, HistoryAt
<1> DEFINE S == {m \in l + 1..Len(words) : words[m].deep < words[l].deep}
<1>6. e \in S /\ S \in SUBSET Int
  <2>1. j \in Int /\ words[e].deep = j - 1 /\ words[l].deep = j
    BY <1>4, <1>5
  <2> QED BY <2>1, <1>2, <1>4
<1>7. ASSUME NEW m \in l + 1..Len(words), words[m].deep < words[l].deep PROVE e <= m
  <2> SUFFICES ASSUME ~(e <= m) PROVE FALSE
    OBVIOUS
  <2>1. m + 1 \in l + 1..e /\ m \in 1..Len(words) + 1 /\ m <= Len(words)
    BY <1>2, <1>4
  <2>2. j \in 1..Len(h[m + 1])
    <3>1. h[e][j].at = l
      BY <1>1, <1>4
    <3> QED BY <3>1, <2>1, <1>2, <1>4, OpenSince
  <2>3. words[m].deep = Len(h[m + 1])
    BY <2>1, <1>2, HistoryAt
  <2>4. words[m].deep \in Nat
    BY <2>1, <1>2, <1>7, WordFields
  <2>5. PICK d \in Nat : d = words[m].deep
    BY <2>4
  <2>6. j \in 1..d /\ d < j
    BY <2>2, <2>3, <2>5, <1>7, <1>4
  <2> QED BY <2>5, <2>6
<1>8. \A m \in S : e <= m
  BY <1>7
<1> HIDE DEF S
<1>9. Least(S) = e
  BY <1>6, <1>8, LeastIs
<1> QED BY <1>9 DEF EndOf, S

LEMMA EndOfOpen ==
    ASSUME NEW h, Whole(h), NEW l \in 1..Len(words), WordAt(l) \in Openers, NEW k \in l + 1..Len(words) + 1
    PROVE  EndOf(l) >= k <=> IsOpen(h[k], l)
<1>1. words \in Seq(WordRecord) /\ Len(words) \in Nat /\ History(h, words) /\ h[Len(words) + 1] = <<>> /\ k \in 1..Len(words) + 1
      /\ words[l].word \in Openers /\ k \in Nat
  BY DEF Whole, WordAt
<1>2. ~IsOpen(h[Len(words) + 1], l)
  BY <1>1 DEF IsOpen
<1>3. PICK e \in l + 1..Len(words) : EndsAt(h, words, l, e)
  BY <1>1, <1>2 DEF History
<1>4. e \in 1..Len(words) /\ e \in 1..Len(words) + 1 /\ e \in Nat /\ l \in Nat
  BY <1>1, <1>3
<1>5. EndOf(l) = e
  BY <1>3, <1>4, EndIs
<1>6. ASSUME IsOpen(h[k], l) PROVE e >= k
  <2> SUFFICES ASSUME ~(e >= k) PROVE FALSE
    OBVIOUS
  <2>1. k \in e + 1..Len(words) + 1
    BY <1>1, <1>4
  <2> QED BY <2>1, <1>1, <1>3, <1>4, <1>6, EndedOnce
<1>7. ASSUME e >= k PROVE IsOpen(h[k], l)
  <2>1. h[e] # <<>> /\ l = TopOf(h[e]).at
    BY <1>3 DEF EndsAt
  <2>2. PICK j : j = Len(h[e])
    OBVIOUS
  <2>3. j \in 1..Len(h[e]) /\ h[e][j].at = l
    BY <2>1, <2>2, <1>4, TopAt
  <2>4. k \in h[e][j].at + 1..e
    BY <2>3, <1>7, <1>1, <1>4
  <2>5. j \in 1..Len(h[k]) /\ h[k][j].at = l
    BY <2>3, <2>4, <1>1, <1>4, OpenSince
  <2> QED BY <2>5 DEF IsOpen
<1> QED BY <1>5, <1>6, <1>7
\* The innermost word of these around another.
LEMMA AroundIs ==
    ASSUME NEW h, Whole(h), NEW k \in 1..Len(words), NEW O \in SUBSET Openers, NEW j \in 1..Len(h[k]), NEW a, a = h[k][j].at,
           WordAt(a) \in O, \A i \in j + 1..Len(h[k]) : WordAt(h[k][i].at) \notin O
    PROVE  Around(k, O) = a
<1>1. /\ words \in Seq(WordRecord) /\ History(h, words) /\ Len(words) \in Nat /\ k \in Nat /\ k \in 1..Len(words) + 1
      /\ h[k] \in Seq(Frame) /\ StackSound(h, words, k) /\ Len(h[k]) \in Nat
  <2>1. k \in 1..Len(words) + 1
    BY DEF Whole
  <2> QED BY <2>1, WholeAt
<1>2. ASSUME NEW i \in 1..Len(h[k]) PROVE h[k][i].at \in 1..k - 1 /\ h[k][i].at \in 1..Len(words) /\ k \in h[k][i].at + 1..Len(words) + 1
  <2>1. h[k][i].at \in Nat /\ h[k][i].at < k /\ h[k][i].at >= 1
    BY <1>1, FramesApart
  <2> QED BY <2>1, <1>1
<1> DEFINE S == {l \in 1..k - 1 : WordAt(l) \in O /\ EndOf(l) >= k}
<1>3. a \in S
  <2>1. IsOpen(h[k], a) /\ WordAt(a) \in Openers
    BY DEF IsOpen
  <2>2. a \in 1..k - 1 /\ a \in 1..Len(words) /\ k \in a + 1..Len(words) + 1
    BY <1>2
  <2>3. EndOf(a) >= k
    BY <2>1, <2>2, EndOfOpen
  <2> QED BY <2>2, <2>3
<1>4. ASSUME NEW l \in S PROVE l <= a
  <2>1. l \in 1..Len(words) /\ k \in l + 1..Len(words) + 1 /\ WordAt(l) \in Openers /\ WordAt(l) \in O
    BY <1>1, <1>4
  <2>2. EndOf(l) >= k
    BY <1>4
  <2>3. IsOpen(h[k], l)
    BY <2>1, <2>2, EndOfOpen
  <2>4. PICK i \in 1..Len(h[k]) : h[k][i].at = l
    BY <2>3 DEF IsOpen
  <2>5. i <= j
    <3> SUFFICES ASSUME ~(i <= j) PROVE FALSE
      OBVIOUS
    <3>1. i \in j + 1..Len(h[k])
      BY <1>1
    <3> QED BY <3>1, <2>1, <2>4
  <2>6. CASE i = j
    BY <2>4, <2>6, <1>2
  <2>7. CASE i # j
    <3>1. i < j
      BY <2>5, <2>7, <1>1
    <3>2. h[k][i].at < h[k][j].at
      BY <3>1, <1>1, FramesApart
    <3> QED BY <3>2, <2>4, <1>2
  <2> QED BY <2>6, <2>7
<1>5. S \in SUBSET Int
  BY <1>1
<1> HIDE DEF S
<1>6. Most(S) = a
  BY <1>3, <1>4, <1>5, MostIs
<1> QED BY <1>6 DEF Around, S

LEMMA AroundTop ==
    ASSUME NEW h, Whole(h), NEW k \in 1..Len(words), h[k] # <<>>, NEW O \in SUBSET Openers, OpenerOf(TopOf(h[k]).s) \in O
    PROVE  Around(k, O) = TopOf(h[k]).at
<1>1. PICK j : j = Len(h[k])
  OBVIOUS
<1>2. k \in 1..Len(words) + 1
  BY DEF Whole
<1>3. PICK l : l = TopOf(h[k]).at
  OBVIOUS
<1>4. j \in 1..Len(h[k]) /\ h[k][j] = TopOf(h[k]) /\ WordAt(l) = OpenerOf(TopOf(h[k]).s)
  BY <1>1, <1>2, <1>3, TopAt
<1>5. \A i \in j + 1..Len(h[k]) : WordAt(h[k][i].at) \notin O
  BY <1>1, <1>4
<1>6. l = h[k][j].at /\ WordAt(l) \in O
  BY <1>3, <1>4
<1> QED BY <1>3, <1>4, <1>5, <1>6, AroundIs

\* The loop around a word.
LEMMA AroundLoop ==
    ASSUME NEW h, Whole(h), NEW k \in 1..Len(words), LoopOf(h[k]) # 0, NEW O, O = {"DO"}
    PROVE  /\ Around(k, O) = LoopOf(h[k])
           /\ \E i \in 1..Len(h[k]) : h[k][i].s = "DO" /\ h[k][i].at = LoopOf(h[k]) /\ h[k][i].nest = NestOf(h[k])
<1>1. /\ words \in Seq(WordRecord) /\ History(h, words) /\ Len(words) \in Nat /\ k \in Nat /\ k \in 1..Len(words) + 1
      /\ h[k] \in Seq(Frame) /\ StackSound(h, words, k) /\ Len(h[k]) \in Nat
  <2>1. k \in 1..Len(words) + 1
    BY DEF Whole
  <2> QED BY <2>1, WholeAt
<1>2. PICK i \in 1..Len(h[k]) : h[k][i].s = "DO" /\ h[k][i].at = LoopOf(h[k]) /\ h[k][i].nest = NestOf(h[k])
  BY <1>1, InnermostTells
<1>3. ASSUME NEW m \in 1..Len(h[k])
      PROVE  WordAt(h[k][m].at) = OpenerOf(h[k][m].s) /\ h[k][m].s \in Structures /\ h[k][m].at \in Nat
             /\ (h[k][m].s = "DO" => h[k][m].at <= LoopOf(h[k]))
  <2>1. FrameSound(words, h[k], k, m) /\ h[k][m] \in Frame
    BY <1>1 DEF StackSound, SoundAt
  <2>2. h[k][m].s = "DO" => h[k][m].at <= LoopOf(h[k])
    BY <1>1, InnermostTells
  <2> QED BY <2>1, <2>2, FrameFields DEF FrameSound, WordAt
<1>4. ASSUME NEW m \in i + 1..Len(h[k]) PROVE WordAt(h[k][m].at) \notin O
  <2>1. m \in 1..Len(h[k]) /\ i < m /\ i \in Nat /\ m \in Nat
    BY <1>1, <1>2
  <2>2. h[k][i].at < h[k][m].at
    BY <2>1, <1>1, <1>2, FramesApart
  <2>3. h[k][m].s # "DO"
    BY <2>1, <2>2, <1>2, <1>3
  <2> QED BY <2>1, <2>3, <1>3 DEF OpenerOf, Structures
<1>5. WordAt(h[k][i].at) \in O /\ O \in SUBSET Openers
  BY <1>2, <1>3 DEF OpenerOf, Openers
<1>6. Around(k, O) = h[k][i].at
  BY <1>2, <1>4, <1>5, AroundIs
<1> QED BY <1>2, <1>6
\* What each kind of word leaves.
LEMMA OpenerLeaves ==
    ASSUME NEW h, Whole(h), NEW k \in 1..Len(words), WordAt(k) \in Openers
    PROVE  h[k + 1] = Opened(h[k], WordAt(k), k) /\ NestOf(h[k + 1]) = NestOf(h[k]) + Weight(WordAt(k))
<1>1. k \in 1..Len(words) + 1 /\ k <= Len(words) /\ Len(words) \in Nat /\ History(h, words) /\ k \in Nat
  BY DEF Whole
<1>2. After(h[k], WordAt(k), k, h[k + 1]) /\ h[k] \in Seq(Frame)
  BY <1>1, HistoryAt DEF WordAt
<1>3. h[k + 1] = Opened(h[k], WordAt(k), k)
  BY <1>2 DEF After, Openers, Closers, LoopEnds
<1> QED BY <1>1, <1>2, <1>3, OpenedNest
LEMMA TurnLeaves ==
    ASSUME NEW h, Whole(h), NEW k \in 1..Len(words), WordAt(k) \in {"ELSE", "WHILE"}
    PROVE  /\ h[k] # <<>> /\ TopOf(h[k]).s \in Needs(WordAt(k)) /\ NestOf(h[k + 1]) = NestOf(h[k])
           /\ IsTurned(h[k], WordAt(k), k, h[k + 1], Len(h[k]))
<1>1. k \in 1..Len(words) + 1 /\ k <= Len(words) /\ Len(words) \in Nat /\ History(h, words) /\ k \in Nat
  BY DEF Whole
<1>2. After(h[k], WordAt(k), k, h[k + 1]) /\ h[k] \in Seq(Frame)
  BY <1>1, HistoryAt DEF WordAt
<1>3. h[k] # <<>> /\ TopOf(h[k]).s \in Needs(WordAt(k)) /\ h[k + 1] = Turned(h[k], WordAt(k), k)
  BY <1>2 DEF After, Openers, Closers, LoopEnds
<1>4. NestOf(h[k + 1]) = NestOf(h[k]) /\ IsTurned(h[k], WordAt(k), k, h[k + 1], Len(h[k]))
  <2>1. PICK w : w = WordAt(k)
    OBVIOUS
  <2>2. w \in {"ELSE", "WHILE"} /\ h[k] \in Seq(Frame) /\ h[k] # <<>> /\ k \in Nat /\ h[k + 1] = Turned(h[k], w, k)
    BY <2>1, <1>1, <1>2, <1>3
  <2>3. NestOf(Turned(h[k], w, k)) = NestOf(h[k])
    BY ONLY <2>2, TurnedNest
  <2>4. IsTurned(h[k], w, k, Turned(h[k], w, k), Len(h[k]))
    BY ONLY <2>2, TurnedIs
  <2> QED BY <2>1, <2>2, <2>3, <2>4
<1> QED BY <1>3, <1>4
LEMMA EndLeaves ==
    ASSUME NEW h, Whole(h), NEW k \in 1..Len(words), WordAt(k) \in Closers, NEW l, l = TopOf(h[k]).at
    PROVE  /\ h[k] # <<>> /\ TopOf(h[k]).s \in Needs(WordAt(k)) /\ EndsAt(h, words, l, k)
           /\ NestOf(h[k]) = NestOf(h[k + 1]) + Weight(TopOf(h[k]).s) /\ NestOf(h[k + 1]) = NestOf(h[l])
           /\ NestOf(h[k + 1]) \in Nat
<1>1. k \in 1..Len(words) + 1 /\ k <= Len(words) /\ Len(words) \in Nat /\ History(h, words) /\ k \in Nat /\ k + 1 \in 1..Len(words) + 1
  BY DEF Whole
<1>2. After(h[k], WordAt(k), k, h[k + 1]) /\ h[k] \in Seq(Frame) /\ StackSound(h, words, k) /\ h[k + 1] \in Seq(Frame)
  BY <1>1, HistoryAt DEF WordAt
<1>3. h[k] # <<>> /\ TopOf(h[k]).s \in Needs(WordAt(k)) /\ h[k + 1] = Dropped(h[k])
  BY <1>2 DEF After, Openers, Closers, LoopEnds
<1>4. EndsAt(h, words, l, k)
  BY <1>3 DEF EndsAt, WordAt
<1>5. NestOf(h[k]) = NestOf(h[k + 1]) + Weight(TopOf(h[k]).s)
  BY <1>2, <1>3, DropCounts
<1>6. PICK j : j = Len(h[k])
  OBVIOUS
<1>7. /\ l \in 1..Len(words) /\ WordAt(l) = OpenerOf(TopOf(h[k]).s) /\ TopOf(h[k]).s \in Structures /\ WordAt(l) \in Openers
      /\ NestOf(h[l + 1]) = NestOf(h[k])
  BY <1>1, <1>3, <1>6, TopAt
<1>8. NestOf(h[l + 1]) = NestOf(h[l]) + Weight(WordAt(l))
  BY <1>7, OpenerLeaves
<1>9. Weight(WordAt(l)) = Weight(TopOf(h[k]).s) /\ Weight(WordAt(l)) \in {0, 1}
  BY <1>7 DEF OpenerOf, Weight, Structures
<1>10. NestOf(h[k + 1]) \in Nat /\ NestOf(h[l]) \in Nat
  <2>1. l \in 1..Len(words) + 1
    BY <1>1, <1>7
  <2>2. h[l] \in Seq(Frame)
    BY <2>1, WholeAt
  <2> QED BY <2>2, <1>2, StackFields
<1>11. NestOf(h[k + 1]) = NestOf(h[l])
  BY <1>5, <1>7, <1>8, <1>9, <1>10
<1> QED BY <1>3, <1>4, <1>5, <1>10, <1>11
LEMMA StayLeaves ==
    ASSUME NEW h, Whole(h), NEW k \in 1..Len(words), WordAt(k) \in {"LEAVE", "EXIT"}
    PROVE  h[k + 1] = h[k] /\ (WordAt(k) = "LEAVE" => LoopOf(h[k]) # 0)
<1>1. k \in 1..Len(words) + 1 /\ k <= Len(words) /\ Len(words) \in Nat /\ History(h, words) /\ k \in Nat /\ k + 1 \in 1..Len(words) + 1
  BY DEF Whole
<1>2. After(h[k], WordAt(k), k, h[k + 1])
  BY <1>1, HistoryAt DEF WordAt
<1> QED BY <1>2 DEF After, Openers, Closers, LoopEnds

\* The word whose branch an open structure waits with, and what was open after it.
LEMMA HoleIs ==
    ASSUME NEW h, Whole(h), NEW e \in 1..Len(words), h[e] # <<>>, NEW j, j = Len(h[e]), NEW x, x = TopOf(h[e]).hole, x # 0
    PROVE  /\ x \in 1..e - 1 /\ x \in 1..Len(words) /\ WordAt(x) = TopOf(h[e]).s /\ TopOf(h[e]).at <= x
           /\ Len(h[x + 1]) = j /\ h[x + 1][j].at = TopOf(h[e]).at /\ h[x + 1][j].hole = x /\ NestOf(h[x + 1]) = NestOf(h[e])
           /\ (WordAt(x) = "IF" => x = TopOf(h[e]).at) /\ WordAt(x) \in {"IF", "ELSE", "WHILE"}
<1>1. e \in 1..Len(words) + 1 /\ e <= Len(words) /\ Len(words) \in Nat /\ History(h, words) /\ e \in Nat
  BY DEF Whole
<1>2. PICK l : l = TopOf(h[e]).at
  OBVIOUS
<1>3. /\ j \in 1..Len(h[e]) /\ h[e][j] = TopOf(h[e]) /\ l \in 1..e - 1 /\ l \in 1..Len(words)
      /\ WordAt(l) = OpenerOf(TopOf(h[e]).s) /\ TopOf(h[e]).s \in Structures /\ Len(h[l + 1]) = j
      /\ FrameSound(words, h[e], e, j) /\ NestOf(h[l + 1]) = NestOf(h[e])
  BY <1>1, <1>2, TopAt
<1>4. /\ h[e][j].s \in {"BEGIN", "DO"} => x = 0
      /\ h[e][j].s = "IF" => x = l
      /\ h[e][j].s \in {"ELSE", "WHILE"} => x \in l + 1..e - 1 /\ words[x].word = h[e][j].s
  BY <1>2, <1>3 DEF FrameSound
<1>5. WordAt(x) = TopOf(h[e]).s /\ x \in l..e - 1 /\ WordAt(x) \in {"IF", "ELSE", "WHILE"} /\ (WordAt(x) = "IF" => x = l)
  <2>1. CASE h[e][j].s = "IF"
    <3>1. x = l /\ WordAt(l) = "IF"
      BY <2>1, <1>3, <1>4 DEF OpenerOf
    <3> QED BY <3>1, <2>1, <1>3
  <2>2. CASE h[e][j].s \in {"ELSE", "WHILE"}
    <3>1. x \in l + 1..e - 1 /\ WordAt(x) = h[e][j].s
      BY <2>2, <1>4 DEF WordAt
    <3> QED BY <3>1, <2>2, <1>3
  <2>3. h[e][j].s = "IF" \/ h[e][j].s \in {"ELSE", "WHILE"}
    BY <1>3, <1>4 DEF Structures
  <2> QED BY <2>1, <2>2, <2>3
<1>6. x \in 1..e - 1 /\ x \in 1..Len(words) /\ l <= x /\ x + 1 \in l + 1..e /\ x + 1 \in 1..Len(words) + 1
  BY <1>1, <1>3, <1>5
<1>7. j \in 1..Len(h[x + 1]) /\ h[x + 1][j].at = l /\ h[x + 1][j].hole = x /\ h[x + 1][j].nest = h[e][j].nest
  <2>1. h[e][j].hole = x /\ h[e][j].at = l /\ x < x + 1
    BY <1>2, <1>3, <1>6
  <2>2. x + 1 \in h[e][j].at + 1..e
    BY <2>1, <1>6
  <2>3. PICK y : y = x + 1
    OBVIOUS
  <2>4. y \in h[e][j].at + 1..e /\ h[e][j].hole # 0 /\ h[e][j].hole < y
    BY <2>1, <2>2, <2>3
  <2>5. /\ j \in 1..Len(h[y]) /\ h[y][j].at = h[e][j].at /\ h[y][j].nest = h[e][j].nest
        /\ h[e][j].hole # 0 /\ h[e][j].hole < y => h[y][j].hole = h[e][j].hole
    <3>1. History(h, words) /\ Len(words) \in Nat /\ e \in 1..Len(words) + 1 /\ j \in 1..Len(h[e]) /\ y \in h[e][j].at + 1..e
      BY <2>4, <1>1, <1>3
    <3> QED BY ONLY <3>1, OpenSince
  <2> QED BY <2>1, <2>3, <2>4, <2>5
<1>8. Len(h[x + 1]) = j
  <2>1. CASE WordAt(x) = "IF"
    BY <2>1, <1>3, <1>5
  <2>2. CASE WordAt(x) \in {"ELSE", "WHILE"}
    <3>1. IsTurned(h[x], WordAt(x), x, h[x + 1], Len(h[x]))
      BY <2>2, <1>6, TurnLeaves
    <3>2. PICK m : m = Len(h[x + 1])
      OBVIOUS
    <3>3. h[x + 1][m].hole = x /\ m \in 1..Len(h[x + 1])
      BY <3>1, <3>2, SMTT(30) DEF IsTurned
    <3>4. h[x + 1] \in Seq(Frame) /\ StackSound(h, words, x + 1) /\ x + 1 \in Nat
      BY <1>6, WholeAt
    <3>5. h[x + 1][j].hole = h[x + 1][m].hole /\ h[x + 1][j].hole # 0
      BY <3>3, <1>7
    <3>6. j = m
      <4>1. PICK y : y = x + 1
        OBVIOUS
      <4>2. /\ y \in Nat /\ h[y] \in Seq(Frame) /\ StackSound(h, words, y) /\ j \in 1..Len(h[y]) /\ m \in 1..Len(h[y])
            /\ h[y][j].hole = h[y][m].hole /\ h[y][j].hole # 0
        BY <4>1, <3>3, <3>4, <3>5, <1>7
      <4>3. h[y][j].hole = h[y][m].hole /\ h[y][j].hole # 0 => j = m
        BY ONLY <4>2, FramesApart
      <4> QED BY <4>2, <4>3
    <3> QED BY <3>2, <3>6
  <2> QED BY <2>1, <2>2, <1>5
<1>9. NestOf(h[x + 1]) = NestOf(h[e])
  <2>1. h[x + 1] # <<>>
    BY <1>7
  <2>2. NestOf(h[x + 1]) = h[x + 1][j].nest
    BY <2>1, <1>8 DEF NestOf
  <2>3. NestOf(h[e]) = h[e][j].nest
    BY DEF NestOf
  <2> QED BY <2>2, <2>3, <1>7
<1> QED BY <1>2, <1>5, <1>6, <1>7, <1>8, <1>9
\* The branch of a word in a whole definition is patched by one word, to the word after it.
PatchedBy(h, x, e) ==
    /\ e \in x + 1..Len(words) /\ e + 1 \in 1..Len(words) /\ Fixes(h, words, x, e) /\ code[words[x].code + 1].to = words[e + 1].code
IsLast(w) == w = ";"
Final == Len(words) >= 1 /\ IsLast(WordAt(Len(words)))
LEMMA LastIs == ASSUME NEW w, IsLast(w)
                PROVE  w \notin {"ELSE", "THEN", "REPEAT", "BEGIN", "EXIT"} /\ w \notin LoopEnds /\ w \notin Forward /\ w \in Short
BY Zenon DEF IsLast, LoopEnds, Forward, Short
LEMMA BranchPatched ==
    ASSUME NEW h, Whole(h), Patched(h, words, code), Final, NEW x \in 1..Len(words), WordAt(x) \in Forward
    PROVE  \E e : PatchedBy(h, x, e)
<1>1. Len(words) \in Nat /\ h[Len(words) + 1] = <<>> /\ words[x].word \in Forward
  BY DEF Whole, WordAt
<1>2. ~Waits(h, words, x, Len(words) + 1)
  BY <1>1 DEF Waits
<1>3. PICK e \in x + 1..Len(words) : Fixes(h, words, x, e) /\ code[words[x].code + 1].to = At(words, code, e + 1)
  BY <1>1, <1>2 DEF Patched
<1>4. e # Len(words)
  <2> SUFFICES ASSUME e = Len(words) PROVE FALSE
    OBVIOUS
  <2>1. IsLast(words[e].word)
    BY DEF Final, WordAt
  <2>2. words[e].word \notin {"ELSE", "THEN", "REPEAT"} /\ words[e].word \notin LoopEnds
    BY <2>1, LastIs
  <2> QED BY <2>2, <1>3 DEF Fixes
<1>5. e + 1 \in 1..Len(words) /\ e + 1 <= Len(words)
  BY <1>1, <1>3, <1>4
<1>6. At(words, code, e + 1) = words[e + 1].code
  BY <1>5 DEF At
<1> QED BY <1>3, <1>5, <1>6 DEF PatchedBy

\* No ELSE or WHILE comes between a branch and the word that patches it.
LEMMA NoneBetween ==
    ASSUME NEW h, Whole(h), NEW e \in 1..Len(words), h[e] # <<>>, NEW x, x = TopOf(h[e]).hole, x # 0,
           NEW m \in x + 1..e - 1, WordAt(m) \in {"ELSE", "WHILE"}
    PROVE  words[m].deep # Len(h[e])
<1> SUFFICES ASSUME words[m].deep = Len(h[e]) PROVE FALSE
  OBVIOUS
<1>1. e \in 1..Len(words) + 1 /\ Len(words) \in Nat /\ History(h, words) /\ e \in Nat
  BY DEF Whole
<1>2. PICK j : j = Len(h[e])
  OBVIOUS
<1>3. j \in 1..Len(h[e]) /\ h[e][j] = TopOf(h[e])
  BY <1>1, <1>2, TopAt
<1>4. x \in 1..e - 1 /\ TopOf(h[e]).at <= x /\ TopOf(h[e]).at \in 1..e - 1
  BY <1>1, <1>2, HoleIs, TopAt
<1>5. m \in 1..Len(words) /\ m \in 1..Len(words) + 1 /\ m <= Len(words) /\ m \in Nat
  BY <1>1, <1>4
<1>6. IsTurned(h[m], WordAt(m), m, h[m + 1], Len(h[m]))
  BY <1>5, TurnLeaves
<1>7. words[m].deep = Len(h[m + 1])
  BY <1>1, <1>5, HistoryAt
<1>8. h[m + 1][j].hole = m
  BY <1>2, <1>6, <1>7 DEF IsTurned
<1>9. PICK y : y = m + 1
  OBVIOUS
<1>10. History(h, words) /\ Len(words) \in Nat /\ e \in 1..Len(words) + 1 /\ j \in 1..Len(h[e]) /\ y \in h[e][j].at + 1..e
  BY <1>1, <1>3, <1>4, <1>5, <1>9
<1>11. h[e][j].hole # 0 /\ h[e][j].hole < y => h[y][j].hole = h[e][j].hole
  BY ONLY <1>10, OpenSince
<1>12. h[e][j].hole = x /\ x < y /\ x # m
  BY <1>3, <1>4, <1>5, <1>9
<1> QED BY <1>8, <1>9, <1>11, <1>12

\* IF goes to what follows its ELSE or its THEN.
LEMMA IfGoes ==
    ASSUME NEW h, Whole(h), NEW x \in 1..Len(words), WordAt(x) = "IF", NEW e, PatchedBy(h, x, e)
    PROVE  Least(Middle(x) \cup {EndOf(x)}) = e /\ NestOf(h[e + 1]) = NestOf(h[x])
<1>1. /\ Len(words) \in Nat /\ e \in x + 1..Len(words) /\ e \in 1..Len(words) /\ h[e] # <<>> /\ e \in Nat /\ x \in Nat /\ x # 0
      /\ words[e].word \in {"ELSE", "THEN", "REPEAT"} /\ TopOf(h[e]).hole = x /\ e <= Len(words) /\ e \in 1..Len(words) + 1
      /\ History(h, words)
  BY DEF Whole, PatchedBy, Fixes, WordAt
<1>2. PICK j : j = Len(h[e])
  OBVIOUS
<1>3. TopOf(h[e]).s = "IF" /\ TopOf(h[e]).at = x /\ NestOf(h[x + 1]) = NestOf(h[e])
  BY <1>1, <1>2, HoleIs
<1>4. words[x].deep = j /\ j \in 1..Len(h[e]) /\ h[e][j] = TopOf(h[e]) /\ WordAt(x) \in Openers
  BY <1>1, <1>2, <1>3, TopAt
<1>5. NestOf(h[e]) = NestOf(h[x]) /\ h[x] \in Seq(Frame) /\ h[e + 1] \in Seq(Frame)
  <2>1. NestOf(h[x + 1]) = NestOf(h[x]) + Weight("IF")
    BY <1>4, OpenerLeaves
  <2>2. x \in 1..Len(words) + 1 /\ e + 1 \in 1..Len(words) + 1
    BY <1>1
  <2>3. h[x] \in Seq(Frame) /\ h[e + 1] \in Seq(Frame)
    BY <2>2, WholeAt
  <2>4. NestOf(h[x]) \in Nat
    BY <2>3, StackFields
  <2> QED BY <2>1, <2>3, <2>4, <1>3 DEF Weight
<1>6. ASSUME NEW m \in Middle(x) PROVE e <= m /\ m \in Int
  <2>1. m \in x + 1..EndOf(x) /\ WordAt(m) \in {"ELSE", "WHILE"} /\ words[m].deep = j
    BY <1>4 DEF Middle
  <2>2. ASSUME m < e PROVE FALSE
    <3>1. m \in x + 1..e - 1
      BY <2>1, <2>2, <1>1
    <3> QED BY <3>1, <2>1, <1>1, <1>2, NoneBetween
  <2> QED BY <2>1, <2>2, <1>1
<1> DEFINE S == Middle(x) \cup {EndOf(x)}
<1>7. CASE WordAt(e) = "ELSE"
  <2>1. EndOf(x) >= e /\ EndOf(x) \in Int
    <3>1. e \in x + 1..Len(words) + 1
      BY <1>1
    <3>2. IsOpen(h[e], x)
      BY <1>3, <1>4 DEF IsOpen
    <3>3. EndOf(x) >= e
      BY <3>1, <3>2, <1>4, EndOfOpen
    <3>4. EndOf(x) \in Int
      <4>1. h[Len(words) + 1] = <<>> /\ words[x].word \in Openers
        BY <1>4 DEF Whole, WordAt
      <4>2. ~IsOpen(h[Len(words) + 1], x)
        BY <4>1 DEF IsOpen
      <4>3. PICK f \in x + 1..Len(words) : EndsAt(h, words, x, f)
        BY <4>1, <4>2, <1>1 DEF History
      <4>4. f \in 1..Len(words) /\ f \in Int
        BY <4>3, <1>1
      <4> QED BY <4>3, <4>4, EndIs
    <3> QED BY <3>3, <3>4
  <2>2. IsTurned(h[e], WordAt(e), e, h[e + 1], Len(h[e])) /\ NestOf(h[e + 1]) = NestOf(h[e])
    BY <1>1, <1>7, TurnLeaves
  <2>3. words[e].deep = j
    <3>1. words[e].deep = Len(h[e + 1])
      BY <1>1, HistoryAt
    <3> QED BY <3>1, <2>2, <1>2 DEF IsTurned
  <2>4. e \in Middle(x)
    BY <2>1, <2>3, <1>1, <1>4, <1>7 DEF Middle
  <2>5. S \in SUBSET Int /\ e \in S /\ \A m \in S : e <= m
    BY <2>1, <2>4, <1>6
  <2> HIDE DEF S
  <2>6. Least(S) = e
    BY <2>5, LeastIs
  <2> QED BY <2>2, <2>6, <1>5 DEF S
<1>8. CASE WordAt(e) \in {"THEN", "REPEAT"}
  <2>1. WordAt(e) \in Closers
    BY <1>8 DEF Closers
  <2>2. EndsAt(h, words, x, e) /\ NestOf(h[e + 1]) = NestOf(h[x])
    BY <2>1, <1>1, <1>3, EndLeaves
  <2>3. EndOf(x) = e
    BY <2>2, <1>1, EndIs
  <2>5. S \in SUBSET Int /\ e \in S /\ \A m \in S : e <= m
    BY <2>3, <1>1, <1>6
  <2> HIDE DEF S
  <2>6. Least(S) = e
    BY <2>5, LeastIs
  <2> QED BY <2>2, <2>6 DEF S
<1> QED BY <1>1, <1>7, <1>8 DEF WordAt
\* ELSE goes to the THEN of its IF, WHILE past the REPEAT of its BEGIN.
LEMMA TurnGoes ==
    ASSUME NEW h, Whole(h), NEW x \in 1..Len(words), WordAt(x) \in {"ELSE", "WHILE"}, NEW e, PatchedBy(h, x, e),
           NEW O, O = {OpenerOf(WordAt(x))}
    PROVE  EndOf(Around(x, O)) = e /\ NestOf(h[e + 1]) = NestOf(h[x]) /\ (WordAt(x) = "ELSE" => WordAt(e) = "THEN")
<1>1. /\ Len(words) \in Nat /\ e \in x + 1..Len(words) /\ e \in 1..Len(words) /\ h[e] # <<>> /\ e \in Nat /\ x \in Nat /\ x # 0
      /\ words[e].word \in {"ELSE", "THEN", "REPEAT"} /\ TopOf(h[e]).hole = x /\ e <= Len(words) /\ e \in 1..Len(words) + 1
      /\ History(h, words)
  BY DEF Whole, PatchedBy, Fixes, WordAt
<1>2. PICK j : j = Len(h[e])
  OBVIOUS
<1>3. PICK a : a = TopOf(h[e]).at
  OBVIOUS
<1>4. /\ TopOf(h[e]).s = WordAt(x) /\ Len(h[x + 1]) = j /\ h[x + 1][j].at = a /\ NestOf(h[x + 1]) = NestOf(h[e])
  BY <1>1, <1>2, <1>3, HoleIs
<1>5. /\ h[x] # <<>> /\ TopOf(h[x]).s \in Needs(WordAt(x)) /\ NestOf(h[x + 1]) = NestOf(h[x])
      /\ IsTurned(h[x], WordAt(x), x, h[x + 1], Len(h[x]))
  BY TurnLeaves
<1>6. TopOf(h[x]).at = a
  BY <1>4, <1>5 DEF IsTurned, TopOf
<1>7. O \in SUBSET Openers /\ OpenerOf(TopOf(h[x]).s) \in O
  BY <1>5 DEF OpenerOf, Openers, Needs, LoopEnds
<1>8. Around(x, O) = a
  BY <1>5, <1>6, <1>7, AroundTop
<1>9. WordAt(e) \in Closers /\ (WordAt(x) = "ELSE" => WordAt(e) = "THEN")
  <2>1. WordAt(e) = "ELSE" => TopOf(h[e]).s \in Needs(WordAt(e))
    BY <1>1, TurnLeaves
  <2>2. WordAt(e) \in {"THEN", "REPEAT"} => TopOf(h[e]).s \in Needs(WordAt(e))
    BY <1>1, EndLeaves DEF Closers
  <2>3. TopOf(h[e]).s \in Needs(WordAt(e)) /\ WordAt(e) \in {"ELSE", "THEN", "REPEAT"}
    BY <2>1, <2>2, <1>1 DEF WordAt
  <2> QED BY <2>3, <1>4 DEF Needs, LoopEnds, Closers
<1>10. EndsAt(h, words, a, e) /\ NestOf(h[e]) = NestOf(h[e + 1]) + Weight(TopOf(h[e]).s) /\ NestOf(h[e + 1]) \in Nat
  BY <1>1, <1>3, <1>9, EndLeaves
<1>11. EndOf(a) = e
  BY <1>1, <1>10, EndIs
<1>12. Weight(TopOf(h[e]).s) = 0
  BY <1>4 DEF Weight
<1>13. NestOf(h[e + 1]) = NestOf(h[e])
  BY <1>10, <1>12
<1> QED BY <1>4, <1>5, <1>8, <1>9, <1>11, <1>13

\* LEAVE goes past the end of the loop around it.
LEMMA LeaveGoes ==
    ASSUME NEW h, Whole(h), NEW x \in 1..Len(words), WordAt(x) = "LEAVE", NEW e, PatchedBy(h, x, e), NEW O, O = {"DO"}
    PROVE  /\ EndOf(Around(x, O)) = e /\ NestOf(h[x]) = NestOf(h[e + 1]) + 1 /\ NestOf(h[e + 1]) \in Nat
<1>1. /\ Len(words) \in Nat /\ e \in x + 1..Len(words) /\ e \in 1..Len(words) /\ h[e] # <<>> /\ e \in Nat /\ x \in Nat /\ x # 0
      /\ WordAt(e) \in LoopEnds /\ TopOf(h[e]).at = LoopOf(h[x]) /\ e <= Len(words) /\ e \in 1..Len(words) + 1 /\ x \in 1..Len(words) + 1
      /\ History(h, words)
  BY DEF Whole, PatchedBy, Fixes, WordAt
<1>2. PICK a : a = LoopOf(h[x])
  OBVIOUS
<1>3. LoopOf(h[x]) # 0
  BY StayLeaves
<1>4. Around(x, O) = a
  BY <1>2, <1>3, AroundLoop
<1>5. PICK i \in 1..Len(h[x]) : h[x][i].s = "DO" /\ h[x][i].at = a /\ h[x][i].nest = NestOf(h[x])
  BY <1>2, <1>3, AroundLoop
<1>6. WordAt(e) \in Closers
  BY <1>1 DEF Closers
<1>7. EndsAt(h, words, a, e) /\ NestOf(h[e]) = NestOf(h[e + 1]) + Weight(TopOf(h[e]).s) /\ NestOf(h[e + 1]) \in Nat
      /\ TopOf(h[e]).s \in Needs(WordAt(e))
  BY <1>1, <1>2, <1>6, EndLeaves
<1>8. EndOf(a) = e
  BY <1>1, <1>7, EndIs
<1>9. Weight(TopOf(h[e]).s) = 1
  <2>1. TopOf(h[e]).s = "DO"
    BY <1>1, <1>7 DEF Needs, LoopEnds
  <2> QED BY <2>1 DEF Weight
<1>10. PICK j : j = Len(h[e])
  OBVIOUS
<1>11. j \in 1..Len(h[e]) /\ h[e][j] = TopOf(h[e]) /\ h[e][j].at = a
  BY <1>1, <1>2, <1>10, TopAt
<1>12. /\ h[x] \in Seq(Frame) /\ StackSound(h, words, x) /\ a < x /\ a \in Nat
  <2>1. h[x] \in Seq(Frame) /\ StackSound(h, words, x)
    BY <1>1, WholeAt
  <2>2. h[x][i].at \in Nat /\ h[x][i].at < x
    BY <2>1, <1>1, FramesApart
  <2> QED BY <2>1, <2>2, <1>5
<1>13. j \in 1..Len(h[x]) /\ h[x][j].at = a /\ h[x][j].nest = h[e][j].nest
  <2>1. x \in h[e][j].at + 1..e
    BY <1>1, <1>11, <1>12
  <2>2. History(h, words) /\ Len(words) \in Nat /\ e \in 1..Len(words) + 1 /\ j \in 1..Len(h[e]) /\ x \in h[e][j].at + 1..e
    BY <2>1, <1>1, <1>11
  <2>3. j \in 1..Len(h[x]) /\ h[x][j].at = h[e][j].at /\ h[x][j].nest = h[e][j].nest
    BY ONLY <2>2, OpenSince
  <2> QED BY <2>3, <1>11
<1>14. i = j
  BY <1>1, <1>5, <1>12, <1>13, FramesApart
<1>15. NestOf(h[e]) = h[e][j].nest
  BY <1>1, <1>10 DEF NestOf
<1> QED BY <1>4, <1>5, <1>7, <1>8, <1>9, <1>13, <1>14, <1>15

\* What ends a structure by going back goes to the word that opened it.
BackTo(x) == IF WordAt(x) \in LoopEnds THEN "DO" ELSE "BEGIN"
IsBack(h, x, a, w, O) ==
    /\ Around(x, O) = a /\ a \in 1..Len(words) /\ a < x /\ WordAt(a) = w /\ NestOf(h[a + 1]) = NestOf(h[x])
    /\ NestOf(h[x]) = NestOf(h[a]) + Weight(w) /\ NestOf(h[x + 1]) = NestOf(h[a]) /\ NestOf(h[a]) \in Nat
LEMMA BackGoes ==
    ASSUME NEW h, Whole(h), NEW x \in 1..Len(words), WordAt(x) \in {"UNTIL", "REPEAT"} \cup LoopEnds, NEW a, a = TopOf(h[x]).at,
           NEW w, w = BackTo(x), NEW O, O = {w}
    PROVE  IsBack(h, x, a, w, O)
<1>1. WordAt(x) \in Closers /\ x \in 1..Len(words) + 1 /\ x \in Nat
  BY DEF Closers, Whole
<1>2. h[x] # <<>> /\ TopOf(h[x]).s \in Needs(WordAt(x)) /\ NestOf(h[x + 1]) = NestOf(h[a]) /\ NestOf(h[x + 1]) \in Nat
  BY <1>1, EndLeaves
<1>3. OpenerOf(TopOf(h[x]).s) = w /\ w \in Openers
  BY <1>2 DEF OpenerOf, Openers, Needs, LoopEnds, BackTo
<1>4. O \in SUBSET Openers /\ OpenerOf(TopOf(h[x]).s) \in O
  BY <1>3
<1>5. Around(x, O) = a
  BY <1>2, <1>4, AroundTop
<1>6. PICK j : j = Len(h[x])
  OBVIOUS
<1>7. a \in 1..x - 1 /\ a \in 1..Len(words) /\ WordAt(a) = w /\ NestOf(h[a + 1]) = NestOf(h[x])
  BY <1>1, <1>2, <1>3, <1>6, TopAt
<1>8. NestOf(h[a + 1]) = NestOf(h[a]) + Weight(w)
  BY <1>3, <1>7, OpenerLeaves
<1>9. a < x
  BY <1>1, <1>7
<1> QED BY <1>2, <1>5, <1>7, <1>8, <1>9 DEF IsBack
\* BEGIN and THEN do nothing: what follows them has the same code and the same loops around it.
Quiet(k) == WordAt(k) \in {"BEGIN", "THEN"}
FromAt(h, k, p) == /\ p \in k..Len(words) /\ ~Quiet(p) /\ \A m \in k..p - 1 : Quiet(m)
                   /\ words[p].code = words[k].code /\ NestOf(h[p]) = NestOf(h[k])
CodeAfter(h) == \A k \in 1..Len(words) : k + 1 <= Len(words) => words[k + 1].code = words[k].code + Size(words[k].word, NestOf(h[k]))
LEMMA LaidAfter == ASSUME NEW h, Laid(h, words, code), Len(words) \in Nat PROVE CodeAfter(h)
<1> SUFFICES ASSUME NEW k \in 1..Len(words), k + 1 <= Len(words) PROVE words[k + 1].code = words[k].code + Size(words[k].word, NestOf(h[k]))
  BY DEF CodeAfter
<1>1. At(words, code, k + 1) = words[k].code + Size(words[k].word, NestOf(h[k]))
  BY DEF Laid
<1>2. At(words, code, k + 1) = words[k + 1].code
  BY DEF At
<1> QED BY <1>1, <1>2
LEMMA QuietNext ==
    ASSUME NEW h, Whole(h), CodeAfter(h), NEW k \in 1..Len(words), k + 1 <= Len(words), Quiet(k)
    PROVE  words[k + 1].code = words[k].code /\ NestOf(h[k + 1]) = NestOf(h[k])
<1>1. words \in Seq(WordRecord) /\ Len(words) \in Nat /\ h[k] \in Seq(Frame) /\ h[k + 1] \in Seq(Frame)
  <2>1. words \in Seq(WordRecord) /\ Len(words) \in Nat
    BY DEF Whole
  <2>2. k \in 1..Len(words) + 1 /\ k + 1 \in 1..Len(words) + 1
    BY <2>1
  <2> QED BY <2>1, <2>2, WholeAt
<1>2. NestOf(h[k]) \in Nat /\ NestOf(h[k + 1]) \in Nat /\ words[k].code \in Nat
  BY <1>1, StackFields, WordFields
<1>3. words[k + 1].code = words[k].code
  <2>1. words[k + 1].code = words[k].code + Size(words[k].word, NestOf(h[k]))
    BY DEF CodeAfter
  <2>2. Size(words[k].word, NestOf(h[k])) = 0
    BY <1>2, SizeIs DEF Quiet, WordAt
  <2> QED BY <2>1, <2>2, <1>2
<1>4. CASE WordAt(k) = "BEGIN"
  <2>1. NestOf(h[k + 1]) = NestOf(h[k]) + Weight(WordAt(k))
    BY <1>4, OpenerLeaves DEF Openers
  <2> QED BY <2>1, <1>2, <1>3, <1>4 DEF Weight
<1>5. CASE WordAt(k) = "THEN"
  <2>1. NestOf(h[k]) = NestOf(h[k + 1]) + Weight(TopOf(h[k]).s) /\ TopOf(h[k]).s \in Needs(WordAt(k))
    BY <1>5, EndLeaves DEF Closers
  <2>2. Weight(TopOf(h[k]).s) = 0
    BY <2>1, <1>5 DEF Weight, Needs, LoopEnds
  <2> QED BY <2>1, <2>2, <1>2, <1>3
<1> QED BY <1>4, <1>5 DEF Quiet

LEMMA FromSomewhere ==
    ASSUME NEW h, Whole(h), CodeAfter(h), Final, NEW k \in 1..Len(words)
    PROVE  \E p : FromAt(h, k, p)
<1>1. PICK n \in Nat : n = Len(words)
  BY DEF Whole
<1> DEFINE S == {d \in Nat : \A i \in 1..n : n - i = d => \E p : FromAt(h, i, p)}
<1>2. 0 \in S
  <2>1. ASSUME NEW i \in 1..n, n - i = 0 PROVE \E p : FromAt(h, i, p)
    <3>1. i = n
      BY <2>1, <1>1
    <3>2. ~Quiet(n)
      BY <1>1, LastIs DEF Quiet, Final
    <3>3. n \in n..n /\ n..n - 1 = {}
      BY <1>1
    <3>4. FromAt(h, n, n)
      BY <3>2, <3>3, <1>1 DEF FromAt
    <3> QED BY <3>1, <3>4
  <2> QED BY <2>1
<1>3. ASSUME NEW d \in Nat, d \in S PROVE d + 1 \in S
  <2>1. ASSUME NEW i \in 1..n, n - i = d + 1 PROVE \E p : FromAt(h, i, p)
    <3>1. i + 1 \in 1..n /\ n - (i + 1) = d /\ i + 1 <= Len(words) /\ i \in 1..Len(words) /\ i \in Nat
      BY <2>1, <1>1
    <3>2. CASE ~Quiet(i)
      <4>1. i \in i..n /\ i..i - 1 = {}
        BY <3>1, <1>1
      <4>2. FromAt(h, i, i)
        BY <3>2, <4>1, <1>1 DEF FromAt
      <4> QED BY <4>2
    <3>3. CASE Quiet(i)
      <4>1. PICK p : FromAt(h, i + 1, p)
        BY <1>3, <3>1
      <4>2. /\ p \in i + 1..Len(words) /\ ~Quiet(p) /\ (\A m \in i + 1..p - 1 : Quiet(m))
            /\ words[p].code = words[i + 1].code /\ NestOf(h[p]) = NestOf(h[i + 1])
        BY <4>1 DEF FromAt
      <4>3. words[i + 1].code = words[i].code /\ NestOf(h[i + 1]) = NestOf(h[i])
        BY <3>1, <3>3, QuietNext
      <4>4. p \in i..Len(words)
        BY <4>2, <3>1
      <4>5. \A m \in i..p - 1 : Quiet(m)
        <5> TAKE m \in i..p - 1
        <5>1. m = i \/ m \in i + 1..p - 1
          BY <3>1, <4>2
        <5> QED BY <5>1, <3>3, <4>2
      <4>6. FromAt(h, i, p)
        BY <4>2, <4>3, <4>4, <4>5 DEF FromAt
      <4> QED BY <4>6
    <3> QED BY <3>2, <3>3
  <2> QED BY <2>1
<1>4. Nat \subseteq S
  <2> HIDE DEF S
  <2> QED BY <1>2, <1>3, Induction
<1>5. n - k \in Nat /\ k \in 1..n
  BY <1>1
<1>6. n - k \in S
  BY <1>4, <1>5
<1> QED BY <1>5, <1>6

LEMMA FromIs ==
    ASSUME NEW h, Whole(h), CodeAfter(h), Final, NEW k \in 1..Len(words), NEW p, p = From(words, k)
    PROVE  p \in 1..Len(words) /\ ~Quiet(p) /\ words[p].code = words[k].code /\ NestOf(h[p]) = NestOf(h[k])
<1>1. PICK q : FromAt(h, k, q)
  BY FromSomewhere
<1>2. Len(words) \in Nat
  BY DEF Whole
<1>3. /\ q \in k..Len(words) /\ ~Quiet(q) /\ (\A m \in k..q - 1 : Quiet(m))
      /\ words[q].code = words[k].code /\ NestOf(h[q]) = NestOf(h[k])
  BY <1>1 DEF FromAt
<1> DEFINE S == {l \in k..Len(words) : words[l].word \notin {"BEGIN", "THEN"}}
<1>4. q \in S /\ S \in SUBSET Int
  BY <1>2, <1>3 DEF Quiet, WordAt
<1>5. ASSUME NEW m \in S PROVE q <= m
  <2> SUFFICES ASSUME ~(q <= m) PROVE FALSE
    OBVIOUS
  <2>1. m \in k..q - 1
    BY <1>2, <1>3
  <2> QED BY <2>1, <1>3 DEF Quiet, WordAt
<1> HIDE DEF S
<1>6. Least(S) = q
  BY <1>4, <1>5, LeastIs
<1>7. p = q
  BY <1>6 DEF S, From
<1>8. q \in 1..Len(words)
  BY <1>2, <1>3
<1> QED BY <1>3, <1>7, <1>8
----------------------------------------------------------------------------
\* The code running beside what its words mean.
LEMMA SubAll == ASSUME NEW T, NEW f \in Seq(T) PROVE SubSeq(f, 1, Len(f)) = f
OBVIOUS
LEMMA SubTail ==
    ASSUME NEW T, NEW f \in Seq(T), NEW n \in Nat, n = Len(f), NEW g \in Nat, g + 1 <= n
    PROVE  /\ SubSeq(f, g + 1, n) \in Seq(T) /\ Len(SubSeq(f, g + 1, n)) = n - g /\ Head(SubSeq(f, g + 1, n)) = f[g + 1]
           /\ Tail(SubSeq(f, g + 1, n)) = SubSeq(f, g + 2, n)
<1>1. \A i \in 1..n : f[i] \in T
  OBVIOUS
<1>2. PICK s : s = SubSeq(f, g + 1, n)
  OBVIOUS
<1>3. s \in Seq(T) /\ Len(s) = n - g /\ \A i \in 1..n - g : s[i] = f[g + i]
  <2>1. PICK a \in Int : a = g + 1
    OBVIOUS
  <2>2. \A i \in a..n : f[i] \in T
    BY <1>1, <2>1
  <2>3. /\ SubSeq(f, a, n) \in Seq(T) /\ Len(SubSeq(f, a, n)) = (IF a <= n THEN n - a + 1 ELSE 0)
        /\ \A i \in 1..n - a + 1 : SubSeq(f, a, n)[i] = f[a + i - 1]
    BY <2>2, SubSeqProperties
  <2>4. n - a + 1 = n - g /\ \A i \in 1..n - g : a + i - 1 = g + i
    BY <2>1
  <2> QED BY <2>1, <2>3, <2>4, <1>2
<1>4. Head(s) = f[g + 1]
  <2>1. 1 \in 1..n - g /\ s # <<>>
    BY <1>3
  <2> QED BY <2>1, <1>3
<1>5. PICK m \in Nat : m = n - g - 1
  OBVIOUS
<1>6. PICK t : t = Tail(s)
  OBVIOUS
<1>7. t \in Seq(T) /\ Len(t) = m /\ \A k \in 1..m : t[k] = s[k + 1]
  <2>1. Len(s) = m + 1
    BY <1>3, <1>5
  <2> QED BY <2>1, <1>3, <1>6, TailIs
<1>8. PICK u : u = SubSeq(f, g + 2, n)
  OBVIOUS
<1>9. u \in Seq(T) /\ Len(u) = m /\ \A k \in 1..m : u[k] = f[g + 1 + k]
  <2>1. PICK a \in Int : a = g + 2
    OBVIOUS
  <2>2. \A i \in a..n : f[i] \in T
    BY <1>1, <2>1
  <2>3. /\ SubSeq(f, a, n) \in Seq(T) /\ Len(SubSeq(f, a, n)) = (IF a <= n THEN n - a + 1 ELSE 0)
        /\ \A i \in 1..n - a + 1 : SubSeq(f, a, n)[i] = f[a + i - 1]
    BY <2>2, SubSeqProperties
  <2>4. n - a + 1 = m /\ (\A i \in 1..m : a + i - 1 = g + 1 + i) /\ (a <= n \/ m = 0)
    BY <2>1, <1>5
  <2> QED BY <2>1, <2>3, <2>4, <1>8
<1>10. \A k \in 1..m : t[k] = u[k]
  <2> TAKE k \in 1..m
  <2>1. k + 1 \in 1..n - g /\ g + (k + 1) = g + 1 + k
    BY <1>5
  <2> QED BY <2>1, <1>3, <1>7, <1>9
<1>11. t = u
  BY <1>7, <1>9, <1>10, SeqEqual
<1> QED BY <1>2, <1>3, <1>4, <1>6, <1>8, <1>11

\* The code stands at the code of word p, with the frames of these loops, at EXIT less those already dropped.
Gone(p, c, rs, l, gone) ==
    /\ rs = SubSeq(Frames(l), gone + 1, 2 * Len(l) + 1) /\ c = words[p].code + gone
    /\ gone > 0 => WordAt(p) = "EXIT"
Stands(h, p, c, rs, l) ==
    /\ p \in 1..Len(words) /\ ~Quiet(p) /\ l \in Seq(LoopRecord) /\ Len(l) = NestOf(h[p])
    /\ \E gone \in 0..2 * Len(l) : Gone(p, c, rs, l, gone)
Set(h) == /\ Half \in Nat \ {0} /\ Whole(h) /\ Laid(h, words, code) /\ CodeAfter(h) /\ Patched(h, words, code) /\ Final
Ready(h) == /\ Half \in Nat \ {0} /\ Whole(h) /\ Laid(h, words, code) /\ CodeAfter(h) /\ Patched(h, words, code) /\ Final
            /\ Stands(h, pos, pcRun, rstack, loops)
LEMMA FramesWhole == ASSUME Half \in Nat \ {0}, NEW l \in Seq(LoopRecord)
                     PROVE  /\ Frames(l) \in Seq(Cells) /\ Len(Frames(l)) = 2 * Len(l) + 1 /\ Len(l) \in Nat
                            /\ SubSeq(Frames(l), 1, 2 * Len(l) + 1) = Frames(l) /\ Frames(l)[2 * Len(l) + 1] = Home
<1>1. FramesAre(l, Frames(l))
  BY FramesIs
<1>2. Frames(l) \in Seq(Cells) /\ Len(Frames(l)) = 2 * Len(l) + 1 /\ Frames(l)[2 * Len(l) + 1] = Home
  BY <1>1 DEF FramesAre
<1>3. SubSeq(Frames(l), 1, 2 * Len(l) + 1) = Frames(l)
  BY <1>2, SubAll
<1> QED BY <1>2, <1>3
LEMMA ArrivedCalled ==
    ASSUME NEW h, Set(h), NEW k \in 1..Len(words), NEW c, words[k].code = c, NEW l \in Seq(LoopRecord), Len(l) = NestOf(h[k]),
           NEW rs, rs = Frames(l), NEW p, p = From(words, k)
    PROVE  Stands(h, p, c, rs, l)
<1>1. p \in 1..Len(words) /\ ~Quiet(p) /\ words[p].code = c /\ NestOf(h[p]) = Len(l)
  BY FromIs DEF Set
<1>2. rs = SubSeq(Frames(l), 1, 2 * Len(l) + 1) /\ Len(l) \in Nat
  BY FramesWhole DEF Set
<1>3. words[p].code \in Nat
  BY <1>1, WordFields DEF Set, Whole
<1>4. PICK z \in 0..2 * Len(l) : z = 0
  BY <1>2
<1>5. rs = SubSeq(Frames(l), z + 1, 2 * Len(l) + 1) /\ c = words[p].code + z /\ ~(z > 0)
  BY <1>1, <1>2, <1>3, <1>4
<1>6. Gone(p, c, rs, l, z)
  BY <1>5 DEF Gone
<1>7. p \in 1..Len(words) /\ ~Quiet(p) /\ l \in Seq(LoopRecord) /\ Len(l) = NestOf(h[p])
  BY <1>1
<1> QED BY <1>4, <1>6, <1>7 DEF Stands
LEMMA Arrived ==
    ASSUME NEW h, Ready(h), NEW k \in 1..Len(words), NEW c, words[k].code = c, NEW l \in Seq(LoopRecord), Len(l) = NestOf(h[k]),
           NEW rs, rs = Frames(l), NEW p, p = From(words, k)
    PROVE  Stands(h, p, c, rs, l)
<1>1. Set(h)
  BY DEF Ready, Set
<1> QED BY <1>1, ArrivedCalled

\* The word after one that is not the last.
LEMMA NextWord ==
    ASSUME NEW h, Ready(h), NEW k \in 1..Len(words), ~IsLast(WordAt(k))
    PROVE  k + 1 \in 1..Len(words) /\ words[k + 1].code = words[k].code + Size(WordAt(k), NestOf(h[k]))
<1>1. Len(words) \in Nat
  BY DEF Ready, Whole
<1>2. k # Len(words)
  BY DEF Ready, Final
<1>3. k + 1 \in 1..Len(words) /\ k + 1 <= Len(words)
  BY <1>1, <1>2
<1> QED BY <1>3 DEF Ready, CodeAfter, WordAt
\* What is run at a word other than EXIT.
LEMMA AtWord ==
    ASSUME NEW h, Ready(h), WordAt(pos) # "EXIT"
    PROVE  /\ pos \in 1..Len(words) /\ pcRun = words[pos].code /\ rstack = Frames(loops) /\ loops \in Seq(LoopRecord)
           /\ Len(loops) = NestOf(h[pos]) /\ code[pcRun].op = Runs(WordAt(pos)) /\ pcRun \in Nat /\ words \in Seq(WordRecord)
           /\ WordAt(pos) \in Names /\ Len(loops) \in Nat /\ h[pos] \in Seq(Frame)
<1>1. /\ pos \in 1..Len(words) /\ ~Quiet(pos) /\ loops \in Seq(LoopRecord) /\ Len(loops) = NestOf(h[pos])
      /\ words \in Seq(WordRecord) /\ Laid(h, words, code)
  BY DEF Ready, Stands, Whole
<1>2. PICK gone \in 0..2 * Len(loops) : Gone(pos, pcRun, rstack, loops, gone)
  BY DEF Ready, Stands
<1>3. words[pos].code \in Nat /\ WordAt(pos) \in Names
  BY <1>1, WordFields DEF WordAt
<1>4. Len(loops) \in Nat /\ gone = 0
  BY <1>1, <1>2 DEF Gone
<1>5. pcRun = words[pos].code
  BY <1>2, <1>3, <1>4 DEF Gone
<1>6. rstack = Frames(loops)
  <2>1. rstack = SubSeq(Frames(loops), 1, 2 * Len(loops) + 1)
    BY <1>2, <1>4 DEF Gone
  <2> QED BY <2>1, <1>1, FramesWhole DEF Ready
<1>7. Coded(h, words, code, pos)
  BY <1>1 DEF Laid
<1>8. code[pcRun].op = Runs(WordAt(pos))
  BY <1>1, <1>5, <1>7 DEF Coded, Quiet, WordAt
<1>9. h[pos] \in Seq(Frame)
  <2>1. pos \in 1..Len(words) + 1
    BY <1>1
  <2> QED BY <2>1, WholeAt DEF Ready
<1> QED BY <1>1, <1>3, <1>4, <1>5, <1>6, <1>8, <1>9
\* A step of the code that does what the word at pos means; on from it, or to the word a branch goes to.
OnTo(h) == Stands(h, pos', pcRun', rstack', loops')
LEMMA GoesTo ==
    ASSUME NEW h, Ready(h), NEW k \in 1..Len(words), NEW l \in Seq(LoopRecord), Does(k, l), pcRun' = words[k].code, rstack' = Frames(l),
           Len(l) = NestOf(h[k])
    PROVE  OnTo(h)
<1>1. pos' = From(words, k) /\ loops' = l
  BY DEF Does
<1>2. PICK c : c = pcRun'
  OBVIOUS
<1>3. PICK rs : rs = rstack'
  OBVIOUS
<1>4. PICK p : p = pos'
  OBVIOUS
<1>5. Stands(h, p, c, rs, l)
  BY <1>1, <1>2, <1>3, <1>4, Arrived
<1> QED BY <1>1, <1>2, <1>3, <1>4, <1>5 DEF OnTo

\* QBRANCH either skips its target or branches to it, as the flag says.
LEMMA FlagBranches ==
    ASSUME NEW n, QBranch(n)
    PROVE  rstack' = rstack /\ (n = 0 => pcRun' = code[pcRun + 1].to) /\ (n # 0 => pcRun' = pcRun + 2)
BY DEF QBranch, Branches, Skips
LEMMA IfDoes ==
    ASSUME NEW h, Ready(h), NEW n, NEW bounds, WordAt(pos) = "IF", QBranch(n), Means(n, bounds)
    PROVE  OnTo(h)
<1>1. /\ pos \in 1..Len(words) /\ pcRun = words[pos].code /\ rstack = Frames(loops) /\ loops \in Seq(LoopRecord)
      /\ Len(loops) = NestOf(h[pos]) /\ pcRun \in Nat /\ h[pos] \in Seq(Frame)
  BY AtWord
<1>2. Does(IF n # 0 THEN pos + 1 ELSE Least(Middle(pos) \cup {EndOf(pos)}) + 1, loops)
  BY Zenon DEF Means
<1>3. rstack' = rstack /\ (n = 0 => pcRun' = code[pcRun + 1].to) /\ (n # 0 => pcRun' = pcRun + 2)
  BY FlagBranches
<1>4. ~IsLast(WordAt(pos)) /\ WordAt(pos) \in Forward /\ WordAt(pos) \in Openers
  BY LastIs DEF Forward, Openers
<1>5. Whole(h) /\ Patched(h, words, code) /\ Final
  BY DEF Ready
<1>6. CASE n = 0
  <2>1. PICK e : PatchedBy(h, pos, e)
    BY <1>1, <1>4, <1>5, BranchPatched
  <2>2. Least(Middle(pos) \cup {EndOf(pos)}) = e /\ NestOf(h[e + 1]) = NestOf(h[pos])
    BY <2>1, <1>1, <1>5, IfGoes
  <2>3. PICK k : k = e + 1
    OBVIOUS
  <2>4. k \in 1..Len(words) /\ pcRun' = words[k].code /\ NestOf(h[k]) = Len(loops)
    BY <2>1, <2>2, <2>3, <1>1, <1>3, <1>6 DEF PatchedBy
  <2>5. Does(k, loops)
    BY <2>2, <2>3, <1>2, <1>6
  <2> QED BY <2>4, <2>5, <1>1, <1>3, GoesTo
<1>7. CASE n # 0
  <2>1. PICK k : k = pos + 1
    OBVIOUS
  <2>2. k \in 1..Len(words) /\ words[k].code = words[pos].code + Size(WordAt(pos), NestOf(h[pos]))
    BY <2>1, <1>1, <1>4, NextWord
  <2>3. NestOf(h[pos]) \in Nat
    BY <1>1, StackFields
  <2>4. Size(WordAt(pos), NestOf(h[pos])) = 2
    BY <2>3, <1>4, SizeIs
  <2>5. NestOf(h[k]) = NestOf(h[pos]) + Weight(WordAt(pos))
    BY <2>1, <1>1, <1>4, <1>5, OpenerLeaves
  <2>6. NestOf(h[k]) = Len(loops) /\ pcRun' = words[k].code
    BY <2>2, <2>3, <2>4, <2>5, <1>1, <1>3, <1>7 DEF Weight
  <2>7. Does(k, loops)
    BY <2>1, <1>2, <1>7
  <2> QED BY <2>2, <2>6, <2>7, <1>1, <1>3, GoesTo
<1> QED BY <1>6, <1>7

LEMMA WhileDoes ==
    ASSUME NEW h, Ready(h), NEW n, NEW bounds, WordAt(pos) = "WHILE", QBranch(n), Means(n, bounds)
    PROVE  OnTo(h)
<1>1. /\ pos \in 1..Len(words) /\ pcRun = words[pos].code /\ rstack = Frames(loops) /\ loops \in Seq(LoopRecord)
      /\ Len(loops) = NestOf(h[pos]) /\ pcRun \in Nat /\ h[pos] \in Seq(Frame)
  BY AtWord
<1>2. Does(IF n # 0 THEN pos + 1 ELSE EndOf(Around(pos, {"BEGIN"})) + 1, loops)
  BY Zenon DEF Means
<1>3. rstack' = rstack /\ (n = 0 => pcRun' = code[pcRun + 1].to) /\ (n # 0 => pcRun' = pcRun + 2)
  BY FlagBranches
<1>4. ~IsLast(WordAt(pos)) /\ WordAt(pos) \in Forward /\ WordAt(pos) \in {"ELSE", "WHILE"}
  BY LastIs DEF Forward
<1>5. Whole(h) /\ Patched(h, words, code) /\ Final
  BY DEF Ready
<1>6. CASE n = 0
  <2>1. PICK e : PatchedBy(h, pos, e)
    BY <1>1, <1>4, <1>5, BranchPatched
  <2>2. PICK O : O = {OpenerOf(WordAt(pos))}
    OBVIOUS
  <2>3. EndOf(Around(pos, O)) = e /\ NestOf(h[e + 1]) = NestOf(h[pos])
    BY <2>1, <2>2, <1>1, <1>4, <1>5, TurnGoes
  <2>4. O = {"BEGIN"}
    BY <2>2 DEF OpenerOf
  <2>5. PICK k : k = e + 1
    OBVIOUS
  <2>6. k \in 1..Len(words) /\ pcRun' = words[k].code /\ NestOf(h[k]) = Len(loops)
    BY <2>1, <2>3, <2>5, <1>1, <1>3, <1>6 DEF PatchedBy
  <2>7. Does(k, loops)
    BY <2>3, <2>4, <2>5, <1>2, <1>6
  <2> QED BY <2>6, <2>7, <1>1, <1>3, GoesTo
<1>7. CASE n # 0
  <2>1. PICK k : k = pos + 1
    OBVIOUS
  <2>2. k \in 1..Len(words) /\ words[k].code = words[pos].code + Size(WordAt(pos), NestOf(h[pos]))
    BY <2>1, <1>1, <1>4, NextWord
  <2>3. NestOf(h[pos]) \in Nat
    BY <1>1, StackFields
  <2>4. Size(WordAt(pos), NestOf(h[pos])) = 2
    BY <2>3, <1>4, SizeIs
  <2>5. NestOf(h[k]) = NestOf(h[pos])
    BY <2>1, <1>1, <1>4, <1>5, TurnLeaves
  <2>6. NestOf(h[k]) = Len(loops) /\ pcRun' = words[k].code
    BY <2>2, <2>4, <2>5, <1>1, <1>3, <1>7
  <2>7. Does(k, loops)
    BY <2>1, <1>2, <1>7
  <2> QED BY <2>2, <2>6, <2>7, <1>1, <1>3, GoesTo
<1> QED BY <1>6, <1>7

LEMMA ElseDoes ==
    ASSUME NEW h, Ready(h), NEW n, NEW bounds, WordAt(pos) = "ELSE", Branch, Means(n, bounds)
    PROVE  OnTo(h)
<1>1. /\ pos \in 1..Len(words) /\ pcRun = words[pos].code /\ rstack = Frames(loops) /\ loops \in Seq(LoopRecord)
      /\ Len(loops) = NestOf(h[pos]) /\ pcRun \in Nat /\ h[pos] \in Seq(Frame)
  BY AtWord
<1>2. Does(EndOf(Around(pos, {"IF"})), loops)
  BY Zenon DEF Means
<1>3. rstack' = rstack /\ pcRun' = code[pcRun + 1].to
  BY DEF Branch, Branches
<1>4. WordAt(pos) \in Forward /\ WordAt(pos) \in {"ELSE", "WHILE"}
  BY DEF Forward
<1>5. Whole(h) /\ Patched(h, words, code) /\ Final /\ CodeAfter(h) /\ Len(words) \in Nat
  BY DEF Ready, Whole
<1>6. PICK e : PatchedBy(h, pos, e)
  BY <1>1, <1>4, <1>5, BranchPatched
<1>7. PICK O : O = {OpenerOf(WordAt(pos))}
  OBVIOUS
<1>8. EndOf(Around(pos, O)) = e /\ NestOf(h[e + 1]) = NestOf(h[pos]) /\ WordAt(e) = "THEN"
  BY <1>1, <1>4, <1>5, <1>6, <1>7, TurnGoes
<1>9. O = {"IF"}
  BY <1>7 DEF OpenerOf
<1>10. e \in 1..Len(words) /\ e + 1 <= Len(words) /\ Quiet(e)
  BY <1>1, <1>5, <1>6, <1>8 DEF PatchedBy, Quiet
<1>11. words[e + 1].code = words[e].code /\ NestOf(h[e + 1]) = NestOf(h[e])
  BY <1>5, <1>10, QuietNext
<1>12. pcRun' = words[e].code /\ NestOf(h[e]) = Len(loops)
  BY <1>1, <1>3, <1>6, <1>8, <1>11 DEF PatchedBy
<1>13. Does(e, loops)
  BY <1>2, <1>8, <1>9
<1> QED BY <1>1, <1>3, <1>10, <1>12, <1>13, GoesTo
LEMMA BackHas ==
    ASSUME NEW h, Ready(h), WordAt(pos) \in {"UNTIL", "REPEAT"} \cup LoopEnds, NEW a, a = TopOf(h[pos]).at
    PROVE  /\ WordAt(pos) \in {"UNTIL", "REPEAT"} => code[pcRun + 1].to = words[a].code
           /\ WordAt(pos) \in LoopEnds => code[pcRun + 1].to = words[a].code + 1
<1>1. pos \in 1..Len(words) /\ pcRun = words[pos].code
  <2>1. WordAt(pos) # "EXIT"
    BY DEF LoopEnds
  <2> QED BY <2>1, AtWord
<1>2. Coded(h, words, code, pos)
  BY <1>1 DEF Ready, Laid
<1> QED BY <1>1, <1>2 DEF Coded, WordAt

LEMMA UntilDoes ==
    ASSUME NEW h, Ready(h), NEW n, NEW bounds, WordAt(pos) = "UNTIL", QBranch(n), Means(n, bounds)
    PROVE  OnTo(h)
<1>1. /\ pos \in 1..Len(words) /\ pcRun = words[pos].code /\ rstack = Frames(loops) /\ loops \in Seq(LoopRecord)
      /\ Len(loops) = NestOf(h[pos]) /\ pcRun \in Nat /\ h[pos] \in Seq(Frame)
  BY AtWord
<1>2. Does(IF n # 0 THEN pos + 1 ELSE Around(pos, {"BEGIN"}), loops)
  BY Zenon DEF Means
<1>3. rstack' = rstack /\ (n = 0 => pcRun' = code[pcRun + 1].to) /\ (n # 0 => pcRun' = pcRun + 2)
  BY FlagBranches
<1>4. ~IsLast(WordAt(pos)) /\ WordAt(pos) \in {"UNTIL", "REPEAT"} /\ WordAt(pos) \in {"UNTIL", "REPEAT"} \cup LoopEnds
      /\ WordAt(pos) \in Forward \cup {"UNTIL", "REPEAT"} \cup LoopEnds /\ WordAt(pos) \notin LoopEnds
  <2>1. ~IsLast(WordAt(pos))
    BY Zenon DEF IsLast
  <2> QED BY <2>1 DEF LoopEnds
<1>5. Whole(h)
  BY DEF Ready
<1>6. PICK a : a = TopOf(h[pos]).at
  OBVIOUS
<1>7. PICK w : w = "BEGIN"
  OBVIOUS
<1>8. w = BackTo(pos)
  BY <1>4, <1>7 DEF BackTo
<1>9. PICK O : O = {w}
  OBVIOUS
<1>10. /\ Around(pos, O) = a /\ a \in 1..Len(words) /\ NestOf(h[pos]) = NestOf(h[a]) + Weight(w)
       /\ NestOf(h[pos + 1]) = NestOf(h[a]) /\ NestOf(h[a]) \in Nat
  <2>1. /\ Whole(h) /\ pos \in 1..Len(words) /\ WordAt(pos) \in {"UNTIL", "REPEAT"} \cup LoopEnds
        /\ a = TopOf(h[pos]).at /\ w = BackTo(pos) /\ O = {w}
    BY <1>1, <1>4, <1>5, <1>6, <1>8, <1>9
  <2>2. IsBack(h, pos, a, w, O)
    BY ONLY <2>1, BackGoes
  <2> QED BY <2>2 DEF IsBack
<1>11. NestOf(h[a]) = Len(loops) /\ NestOf(h[pos + 1]) = Len(loops)
  BY <1>1, <1>7, <1>10 DEF Weight
<1>12. CASE n = 0
  <2>1. pcRun' = words[a].code
    BY <1>3, <1>4, <1>6, <1>12, BackHas
  <2>2. Does(a, loops)
    BY <1>2, <1>7, <1>9, <1>10, <1>12
  <2> QED BY <2>1, <2>2, <1>1, <1>3, <1>10, <1>11, GoesTo
<1>13. CASE n # 0
  <2>1. PICK k : k = pos + 1
    OBVIOUS
  <2>2. k \in 1..Len(words) /\ words[k].code = words[pos].code + Size(WordAt(pos), NestOf(h[pos]))
    BY <2>1, <1>1, <1>4, NextWord
  <2>3. NestOf(h[pos]) \in Nat
    BY <1>1, StackFields
  <2>4. Size(WordAt(pos), NestOf(h[pos])) = 2
    BY <2>3, <1>4, SizeIs
  <2>6. NestOf(h[k]) = Len(loops) /\ pcRun' = words[k].code
    BY <2>1, <2>2, <2>4, <1>1, <1>3, <1>11, <1>13
  <2>7. Does(k, loops)
    BY <2>1, <1>2, <1>13
  <2> QED BY <2>2, <2>6, <2>7, <1>1, <1>3, GoesTo
<1> QED BY <1>12, <1>13

LEMMA RepeatDoes ==
    ASSUME NEW h, Ready(h), NEW n, NEW bounds, WordAt(pos) = "REPEAT", Branch, Means(n, bounds)
    PROVE  OnTo(h)
<1>1. /\ pos \in 1..Len(words) /\ pcRun = words[pos].code /\ rstack = Frames(loops) /\ loops \in Seq(LoopRecord)
      /\ Len(loops) = NestOf(h[pos]) /\ pcRun \in Nat /\ h[pos] \in Seq(Frame)
  BY AtWord
<1>2. Does(Around(pos, {"BEGIN"}), loops)
  BY Zenon DEF Means
<1>3. rstack' = rstack /\ pcRun' = code[pcRun + 1].to
  BY DEF Branch, Branches
<1>4. WordAt(pos) \in {"UNTIL", "REPEAT"} /\ WordAt(pos) \in {"UNTIL", "REPEAT"} \cup LoopEnds /\ WordAt(pos) \notin LoopEnds
  BY DEF LoopEnds
<1>5. Whole(h)
  BY DEF Ready
<1>6. PICK a : a = TopOf(h[pos]).at
  OBVIOUS
<1>7. PICK w : w = "BEGIN"
  OBVIOUS
<1>8. w = BackTo(pos)
  BY <1>4, <1>7 DEF BackTo
<1>9. PICK O : O = {w}
  OBVIOUS
<1>10. /\ Around(pos, O) = a /\ a \in 1..Len(words) /\ NestOf(h[pos]) = NestOf(h[a]) + Weight(w) /\ NestOf(h[a]) \in Nat
  <2>1. /\ Whole(h) /\ pos \in 1..Len(words) /\ WordAt(pos) \in {"UNTIL", "REPEAT"} \cup LoopEnds
        /\ a = TopOf(h[pos]).at /\ w = BackTo(pos) /\ O = {w}
    BY <1>1, <1>4, <1>5, <1>6, <1>8, <1>9
  <2>2. IsBack(h, pos, a, w, O)
    BY ONLY <2>1, BackGoes
  <2> QED BY <2>2 DEF IsBack
<1>11. NestOf(h[a]) = Len(loops)
  BY <1>1, <1>7, <1>10 DEF Weight
<1>12. pcRun' = words[a].code
  BY <1>3, <1>4, <1>6, BackHas
<1>13. Does(a, loops)
  BY <1>2, <1>7, <1>9, <1>10
<1> QED BY <1>1, <1>3, <1>10, <1>11, <1>12, <1>13, GoesTo

\* DO puts a frame on the return stack.
LEMMA DoDoes ==
    ASSUME NEW h, Ready(h), NEW n, NEW bounds \in Cells \X Cells, WordAt(pos) = "DO", DoRT(bounds), Means(n, bounds)
    PROVE  OnTo(h)
<1>1. /\ pos \in 1..Len(words) /\ pcRun = words[pos].code /\ rstack = Frames(loops) /\ loops \in Seq(LoopRecord)
      /\ Len(loops) = NestOf(h[pos]) /\ pcRun \in Nat /\ h[pos] \in Seq(Frame) /\ Len(loops) \in Nat
  BY AtWord
<1>2. PICK r : r = [limit |-> bounds[1], index |-> bounds[2]]
  OBVIOUS
<1>3. Does(pos + 1, <<r>> \o loops)
  <2>1. Does(pos + 1, <<[limit |-> bounds[1], index |-> bounds[2]]>> \o loops)
    BY Zenon DEF Means
  <2> QED BY <2>1, <1>2
<1>4. r \in LoopRecord /\ r.limit = bounds[1] /\ r.index = bounds[2]
  <2>1. bounds[1] \in Cells /\ bounds[2] \in Cells
    OBVIOUS
  <2> QED BY <2>1, <1>2 DEF LoopRecord
<1>5. pcRun' = pcRun + 1 /\ rstack' = <<r.index, r.limit>> \o rstack
  BY <1>4 DEF DoRT
<1>6. PICK m : m = <<r>> \o loops
  OBVIOUS
<1>7. m \in Seq(LoopRecord) /\ rstack' = Frames(m)
  BY <1>1, <1>4, <1>5, <1>6, FramesPush DEF Ready
<1>8. Len(m) = Len(loops) + 1
  BY <1>1, <1>4, <1>6
<1>9. ~IsLast(WordAt(pos)) /\ WordAt(pos) \in Openers /\ WordAt(pos) \in Short
  <2>1. ~IsLast(WordAt(pos))
    BY Zenon DEF IsLast
  <2>2. WordAt(pos) \in Openers /\ WordAt(pos) \in Short
    BY Zenon DEF Openers, Short
  <2> QED BY <2>1, <2>2
<1>10. PICK k : k = pos + 1
  OBVIOUS
<1>11. k \in 1..Len(words) /\ words[k].code = words[pos].code + Size(WordAt(pos), NestOf(h[pos]))
  BY <1>1, <1>9, <1>10, NextWord
<1>12. Size(WordAt(pos), NestOf(h[pos])) = 1
  <2>1. NestOf(h[pos]) \in Nat
    BY <1>1, StackFields
  <2> QED BY <2>1, <1>9, SizeIs
<1>13. NestOf(h[k]) = NestOf(h[pos]) + Weight(WordAt(pos))
  BY <1>1, <1>9, <1>10, OpenerLeaves DEF Ready
<1>14. Len(m) = NestOf(h[k]) /\ pcRun' = words[k].code
  BY <1>1, <1>5, <1>8, <1>11, <1>12, <1>13 DEF Weight
<1>15. Does(k, m)
  BY <1>3, <1>6, <1>10
<1> QED BY <1>7, <1>11, <1>14, <1>15, GoesTo
\* What a loop's end finds.
LoopAt(h, a) ==
    /\ loops # <<>> /\ a + 1 \in 1..Len(words) /\ words[a + 1].code = code[pcRun + 1].to /\ NestOf(h[a + 1]) = Len(loops)
    /\ pos + 1 \in 1..Len(words) /\ words[pos + 1].code = pcRun + 2 /\ NestOf(h[pos + 1]) = Len(Tail(loops))
    /\ Head(loops) \in LoopRecord /\ Tail(loops) \in Seq(LoopRecord)
LEMMA LoopHas ==
    ASSUME NEW h, Ready(h), WordAt(pos) \in LoopEnds, NEW a, a = TopOf(h[pos]).at, NEW O, O = {"DO"}
    PROVE  LoopAt(h, a) /\ Around(pos, O) = a
<1>1. /\ pos \in 1..Len(words) /\ pcRun = words[pos].code /\ rstack = Frames(loops) /\ loops \in Seq(LoopRecord)
      /\ Len(loops) = NestOf(h[pos]) /\ pcRun \in Nat /\ h[pos] \in Seq(Frame) /\ Len(loops) \in Nat /\ words \in Seq(WordRecord)
  <2>1. WordAt(pos) # "EXIT"
    BY DEF LoopEnds
  <2> QED BY <2>1, AtWord
<1>2. PICK w : w = "DO"
  OBVIOUS
<1>3. IsBack(h, pos, a, w, O)
  <2>1. Whole(h) /\ WordAt(pos) \in {"UNTIL", "REPEAT"} \cup LoopEnds
    BY DEF Ready
  <2>2. w = BackTo(pos) /\ O = {w}
    BY <1>2 DEF BackTo
  <2> QED BY ONLY <2>1, <2>2, <1>1, a = TopOf(h[pos]).at, BackGoes
<1>4. /\ Around(pos, O) = a /\ a \in 1..Len(words) /\ a < pos /\ WordAt(a) = w /\ NestOf(h[a + 1]) = NestOf(h[pos])
      /\ NestOf(h[pos]) = NestOf(h[a]) + Weight(w) /\ NestOf(h[pos + 1]) = NestOf(h[a]) /\ NestOf(h[a]) \in Nat
  BY <1>3 DEF IsBack
<1>5. Weight(w) = 1
  BY <1>2 DEF Weight
<1>6. loops # <<>> /\ Len(loops) = NestOf(h[a]) + 1
  <2>1. Len(loops) = NestOf(h[a]) + 1
    BY <1>1, <1>4, <1>5
  <2>2. Len(loops) # 0
    BY <2>1, <1>4
  <2> QED BY <2>1, <2>2
<1>7. Head(loops) \in LoopRecord /\ Tail(loops) \in Seq(LoopRecord) /\ Len(Tail(loops)) = NestOf(h[pos + 1])
  <2>1. Head(loops) \in LoopRecord /\ Tail(loops) \in Seq(LoopRecord) /\ Len(Tail(loops)) = Len(loops) - 1
    BY <1>1, <1>6, HeadTail
  <2> QED BY <2>1, <1>4, <1>6
<1>8. a + 1 \in 1..Len(words) /\ words[a + 1].code = words[a].code + 1
  <2>1. ~IsLast(WordAt(a)) /\ WordAt(a) \in Short
    <3>1. ~IsLast(WordAt(a))
      BY <1>2, <1>4, Zenon DEF IsLast
    <3>2. WordAt(a) \in Short
      BY <1>2, <1>4, Zenon DEF Short
    <3> QED BY <3>1, <3>2
  <2>2. a + 1 \in 1..Len(words) /\ words[a + 1].code = words[a].code + Size(WordAt(a), NestOf(h[a]))
    BY <2>1, <1>4, NextWord
  <2>3. Size(WordAt(a), NestOf(h[a])) = 1
    BY <2>1, <1>4, SizeIs
  <2> QED BY <2>2, <2>3
<1>9. code[pcRun + 1].to = words[a].code + 1
  BY BackHas
<1>10. pos + 1 \in 1..Len(words) /\ words[pos + 1].code = pcRun + 2
  <2>1. ~IsLast(WordAt(pos)) /\ WordAt(pos) \in Forward \cup {"UNTIL", "REPEAT"} \cup LoopEnds
    BY LastIs
  <2>2. pos + 1 \in 1..Len(words) /\ words[pos + 1].code = words[pos].code + Size(WordAt(pos), NestOf(h[pos]))
    BY <2>1, <1>1, NextWord
  <2>3. Size(WordAt(pos), NestOf(h[pos])) = 2
    BY <2>1, <1>1, SizeIs
  <2> QED BY <2>2, <2>3, <1>1
<1>11. NestOf(h[a + 1]) = Len(loops)
  BY <1>1, <1>4
<1> QED BY <1>4, <1>6, <1>7, <1>8, <1>9, <1>10, <1>11 DEF LoopAt

\* A loop that ends, and one that goes on with another index.
LEMMA LoopEnded ==
    ASSUME NEW h, Ready(h), WordAt(pos) \in LoopEnds, Does(pos + 1, Outer), Ends
    PROVE  OnTo(h)
<1>1. pcRun \in Nat /\ rstack = Frames(loops) /\ loops \in Seq(LoopRecord)
  <2>1. WordAt(pos) # "EXIT"
    BY DEF LoopEnds
  <2> QED BY <2>1, AtWord
<1>2. PICK a : a = TopOf(h[pos]).at
  OBVIOUS
<1>3. LoopAt(h, a)
  BY <1>2, LoopHas
<1>4. PICK k : k = pos + 1
  OBVIOUS
<1>5. PICK m : m = Tail(loops)
  OBVIOUS
<1>6. /\ loops # <<>> /\ k \in 1..Len(words) /\ words[k].code = pcRun + 2 /\ NestOf(h[k]) = Len(m)
      /\ m \in Seq(LoopRecord)
  BY <1>3, <1>4, <1>5 DEF LoopAt
<1>7. pcRun' = words[k].code /\ rstack' = Tail(Tail(rstack))
  BY <1>6 DEF Ends, Skips
<1>8. rstack' = Frames(m)
  BY <1>1, <1>5, <1>6, <1>7, FramesTop DEF Ready
<1>9. Does(k, m)
  BY <1>4, <1>5 DEF Outer
<1> QED BY <1>6, <1>7, <1>8, <1>9, GoesTo
LEMMA LoopGoesOn ==
    ASSUME NEW h, Ready(h), WordAt(pos) \in LoopEnds, NEW n, NEW x \in Cells, x = Bits(Head(loops).index + n), GoesOn(x),
           Does(Around(pos, {"DO"}) + 1, Stepped(n))
    PROVE  OnTo(h)
<1>1. pcRun \in Nat /\ rstack = Frames(loops) /\ loops \in Seq(LoopRecord)
  <2>1. WordAt(pos) # "EXIT"
    BY DEF LoopEnds
  <2> QED BY <2>1, AtWord
<1>2. PICK a : a = TopOf(h[pos]).at
  OBVIOUS
<1>3. PICK O : O = {"DO"}
  OBVIOUS
<1>4. LoopAt(h, a) /\ Around(pos, O) = a
  BY <1>2, <1>3, LoopHas
<1>5. PICK k : k = a + 1
  OBVIOUS
<1>6. PICK q : q = [Head(loops) EXCEPT !.index = x]
  OBVIOUS
<1>7. PICK t : t = Tail(loops)
  OBVIOUS
<1>8. PICK m : m = <<q>> \o t
  OBVIOUS
<1>9. /\ loops # <<>> /\ k \in 1..Len(words) /\ words[k].code = code[pcRun + 1].to /\ NestOf(h[k]) = Len(loops)
      /\ Head(loops) \in LoopRecord /\ t \in Seq(LoopRecord)
  BY <1>4, <1>5, <1>7 DEF LoopAt
<1>10. q \in LoopRecord
  BY <1>6, <1>9, RecordMoves
<1>11. m \in Seq(LoopRecord) /\ Len(m) = Len(loops)
  <2>1. m \in Seq(LoopRecord) /\ Len(m) = Len(t) + 1 /\ Len(t) \in Nat
    BY <1>8, <1>9, <1>10
  <2>2. Len(t) = Len(loops) - 1 /\ Len(loops) \in Nat
    BY <1>1, <1>7, <1>9, HeadTail
  <2> QED BY <2>1, <2>2
<1>12. Stepped(n) = m
  <2>1. Stepped(n) = <<[Head(loops) EXCEPT !.index = Bits(Head(loops).index + n)]>> \o Tail(loops)
    BY <1>9 DEF Stepped, Outer, LoopRecord
  <2> QED BY <2>1, <1>6, <1>7, <1>8
<1>13. Does(k, m)
  BY <1>3, <1>4, <1>5, <1>12
<1>14. pcRun' = words[k].code /\ rstack' = [rstack EXCEPT ![1] = x]
  BY <1>9 DEF GoesOn, Branches
<1>15. rstack' = Frames(m)
  <2>1. Half \in Nat \ {0} /\ loops \in Seq(LoopRecord) /\ loops # <<>> /\ rstack = Frames(loops)
    BY <1>1, <1>9 DEF Ready
  <2>2. \A y \in Cells : [rstack EXCEPT ![1] = y] = Frames(<<[Head(loops) EXCEPT !.index = y]>> \o Tail(loops))
    BY ONLY <2>1, FramesTop
  <2>3. [rstack EXCEPT ![1] = x] = Frames(<<[Head(loops) EXCEPT !.index = x]>> \o Tail(loops))
    BY <2>2
  <2> QED BY <2>3, <1>6, <1>7, <1>8, <1>14
<1>16. Len(m) = NestOf(h[k])
  BY <1>9, <1>11
<1> QED BY <1>9, <1>11, <1>13, <1>14, <1>15, <1>16, GoesTo
LEMMA BitsCell == ASSUME Half \in Nat \ {0}, NEW n \in Int PROVE Bits(n) \in Cells
<1>1. PICK M \in Nat : M = 2 * Half /\ M > 0
  OBVIOUS
<1>2. n % M \in 0..M - 1
  BY <1>1
<1> QED BY <1>1, <1>2 DEF Bits, Cells
\* The innermost loop is on the return stack.
LoopTop == /\ rstack[1] = Head(loops).index /\ rstack[2] = Head(loops).limit /\ rstack[1] \in Cells /\ rstack[2] \in Cells
           /\ rstack[1] \in Int /\ rstack[2] \in Int
LEMMA LoopOnStack == ASSUME NEW h, Ready(h), WordAt(pos) \in LoopEnds PROVE LoopTop
<1>1. pcRun \in Nat /\ rstack = Frames(loops) /\ loops \in Seq(LoopRecord)
  <2>1. WordAt(pos) # "EXIT"
    BY DEF LoopEnds
  <2> QED BY <2>1, AtWord
<1>2. PICK O : O = {"DO"}
  OBVIOUS
<1>3. PICK a : a = TopOf(h[pos]).at
  OBVIOUS
<1>4. loops # <<>>
  BY <1>2, <1>3, LoopHas DEF LoopAt
<1>5. rstack[1] = Head(loops).index /\ rstack[2] = Head(loops).limit /\ rstack[1] \in Cells /\ rstack[2] \in Cells
  BY <1>1, <1>4, FramesTop DEF Ready
<1>6. \A y \in Cells : y \in Int
  BY DEF Cells, Ready
<1> QED BY <1>5, <1>6 DEF LoopTop
LEMMA LoopWordDoes ==
    ASSUME NEW h, Ready(h), NEW n, NEW bounds, WordAt(pos) = "LOOP", LoopRT, Means(n, bounds)
    PROVE  OnTo(h)
<1>1. WordAt(pos) \in LoopEnds
  BY DEF LoopEnds
<1>2. LoopTop
  BY <1>1, LoopOnStack
<1>3. PICK x : x = Bits(Head(loops).index + 1)
  OBVIOUS
<1>4. x \in Cells /\ x = Bits(rstack[1] + 1)
  <2>1. rstack[1] + 1 \in Int /\ rstack[1] = Head(loops).index
    BY <1>2 DEF LoopTop
  <2> QED BY <2>1, <1>3, BitsCell DEF Ready
<1>5. LoopDoes(Bits(Head(loops).index + 1) = Head(loops).limit, 1)
  BY Zenon DEF Means
<1>6. CASE x = Head(loops).limit
  <2>1. Ends
    BY <1>2, <1>4, <1>6 DEF LoopRT, LoopTop
  <2>2. Does(pos + 1, Outer)
    BY <1>3, <1>5, <1>6 DEF LoopDoes
  <2> QED BY <2>1, <2>2, <1>1, LoopEnded
<1>7. CASE x # Head(loops).limit
  <2>1. GoesOn(x)
    BY <1>2, <1>4, <1>7 DEF LoopRT, LoopTop
  <2>2. Does(Around(pos, {"DO"}) + 1, Stepped(1))
    BY <1>3, <1>5, <1>7 DEF LoopDoes
  <2>3. PICK i : i = 1
    OBVIOUS
  <2>4. x = Bits(Head(loops).index + i) /\ Does(Around(pos, {"DO"}) + 1, Stepped(i))
    BY <2>2, <2>3, <1>3
  <2> QED BY <2>1, <2>4, <1>1, <1>4, LoopGoesOn
<1> QED BY <1>6, <1>7
LEMMA PlusLoopDoes ==
    ASSUME NEW h, Ready(h), NEW n \in Cells, NEW bounds, WordAt(pos) = "+LOOP", PlusLoopRT(n), Means(n, bounds)
    PROVE  OnTo(h)
<1>1. WordAt(pos) \in LoopEnds
  BY DEF LoopEnds
<1>2. LoopTop
  BY <1>1, LoopOnStack
<1>3. PICK x : x = Bits(Head(loops).index + n)
  OBVIOUS
<1>4. x \in Cells /\ x = Bits(rstack[1] + n)
  <2>1. n \in Int
    BY DEF Cells, Ready
  <2>2. rstack[1] + n \in Int /\ rstack[1] = Head(loops).index
    BY <2>1, <1>2 DEF LoopTop
  <2> QED BY <2>2, <1>3, BitsCell DEF Ready
<1>5. LoopDoes(StepEnds(Head(loops), n), n)
  BY Zenon DEF Means
<1>6. PICK loop : loop = Head(loops)
  OBVIOUS
<1>7. StepEnds(loop, n) <=> Negative(Bits(loop.index - loop.limit)) # Negative(Bits(Bits(loop.index + n) - loop.limit))
  <2>1. Half \in Nat \ {0} /\ loop.index \in Cells /\ loop.limit \in Cells /\ n \in Cells
    BY <1>2, <1>6 DEF LoopTop, Ready
  <2> QED BY ONLY <2>1, StepEndsIs
<1>8. /\ rstack[1] = loop.index /\ rstack[2] = loop.limit /\ Bits(rstack[1] + n) = x /\ Bits(loop.index + n) = x
  BY <1>2, <1>3, <1>4, <1>6 DEF LoopTop
<1>9. CASE StepEnds(loop, n)
  <2>1. Negative(Bits(rstack[1] - rstack[2])) # Negative(Bits(x - rstack[2]))
    BY <1>7, <1>8, <1>9
  <2>2. Ends
    BY <2>1, <1>8 DEF PlusLoopRT
  <2>3. Does(pos + 1, Outer)
    BY <1>5, <1>6, <1>9 DEF LoopDoes
  <2> QED BY <2>2, <2>3, <1>1, LoopEnded
<1>10. CASE ~StepEnds(loop, n)
  <2>1. ~(Negative(Bits(rstack[1] - rstack[2])) # Negative(Bits(x - rstack[2])))
    BY <1>7, <1>8, <1>10
  <2>2. GoesOn(x)
    BY <2>1, <1>8 DEF PlusLoopRT
  <2>3. Does(Around(pos, {"DO"}) + 1, Stepped(n))
    BY <1>5, <1>6, <1>10 DEF LoopDoes
  <2> QED BY <2>2, <2>3, <1>1, <1>3, <1>4, LoopGoesOn
<1> QED BY <1>9, <1>10
LEMMA LeaveDoes ==
    ASSUME NEW h, Ready(h), NEW n, NEW bounds, WordAt(pos) = "LEAVE", LeaveRT, Means(n, bounds)
    PROVE  OnTo(h)
<1>1. /\ pos \in 1..Len(words) /\ pcRun = words[pos].code /\ rstack = Frames(loops) /\ loops \in Seq(LoopRecord)
      /\ Len(loops) = NestOf(h[pos]) /\ pcRun \in Nat /\ h[pos] \in Seq(Frame) /\ Len(loops) \in Nat
  BY AtWord
<1>2. Does(EndOf(Around(pos, {"DO"})) + 1, Outer)
  BY Zenon DEF Means
<1>3. pcRun' = code[pcRun + 1].to /\ rstack' = Tail(Tail(rstack))
  BY DEF LeaveRT, Branches
<1>4. WordAt(pos) \in Forward
  BY DEF Forward
<1>5. Whole(h) /\ Patched(h, words, code) /\ Final
  BY DEF Ready
<1>6. PICK e : PatchedBy(h, pos, e)
  BY <1>1, <1>4, <1>5, BranchPatched
<1>7. PICK O : O = {"DO"}
  OBVIOUS
<1>8. EndOf(Around(pos, O)) = e /\ NestOf(h[pos]) = NestOf(h[e + 1]) + 1 /\ NestOf(h[e + 1]) \in Nat
  BY <1>1, <1>5, <1>6, <1>7, LeaveGoes
<1>9. PICK k : k = e + 1
  OBVIOUS
<1>10. PICK m : m = Tail(loops)
  OBVIOUS
<1>11. loops # <<>> /\ Len(loops) = NestOf(h[k]) + 1
  <2>1. Len(loops) = NestOf(h[k]) + 1 /\ Len(loops) # 0
    BY <1>1, <1>8, <1>9
  <2> QED BY <2>1
<1>12. m \in Seq(LoopRecord) /\ Len(m) = NestOf(h[k])
  <2>1. m \in Seq(LoopRecord) /\ Len(m) = Len(loops) - 1
    BY <1>1, <1>10, <1>11, HeadTail
  <2> QED BY <2>1, <1>8, <1>9, <1>11
<1>13. k \in 1..Len(words) /\ pcRun' = words[k].code
  BY <1>3, <1>1, <1>6, <1>9 DEF PatchedBy
<1>14. rstack' = Frames(m)
  BY <1>1, <1>3, <1>10, <1>11, FramesTop DEF Ready
<1>15. Does(k, m)
  BY <1>2, <1>7, <1>8, <1>9, <1>10 DEF Outer
<1> QED BY <1>12, <1>13, <1>14, <1>15, GoesTo
\* EXIT drops the frames one cell after another, and then returns.
Home1(rs) == rs \in Seq(Cells) /\ Len(rs) = 1 /\ rs[1] = Home
LEMMA Returned == ASSUME NEW rs, Home1(rs) PROVE Head(rs) = Home /\ Tail(rs) = <<>>
<1>1. rs \in Seq(Cells) /\ Len(rs) = 1 /\ rs[1] = Home
  BY DEF Home1
<1>2. PICK z \in Nat : z = 0 /\ Len(rs) = z + 1
  BY <1>1
<1>3. PICK t : t = Tail(rs)
  OBVIOUS
<1>4. t \in Seq(Cells) /\ Len(t) = z
  <2>1. rs \in Seq(Cells) /\ Len(rs) = z + 1 /\ t = Tail(rs) /\ z \in Nat
    BY <1>1, <1>2, <1>3
  <2> QED BY ONLY <2>1, TailIs
<1>5. t = <<>>
  BY <1>2, <1>4
<1>6. Head(rs) = rs[1]
  BY <1>1
<1> QED BY <1>1, <1>3, <1>5, <1>6
LEMMA AtExit ==
    ASSUME NEW h, Ready(h), WordAt(pos) = "EXIT"
    PROVE  /\ pos \in 1..Len(words) /\ ~Quiet(pos) /\ loops \in Seq(LoopRecord) /\ Len(loops) = NestOf(h[pos]) /\ Len(loops) \in Nat
           /\ words[pos].code \in Nat /\ Frames(loops) \in Seq(Cells) /\ Len(Frames(loops)) = 2 * Len(loops) + 1
           /\ Frames(loops)[2 * Len(loops) + 1] = Home
           /\ \E gone \in 0..2 * Len(loops) :
                 /\ Gone(pos, pcRun, rstack, loops, gone)
                 /\ gone < 2 * Len(loops) => code[pcRun].op = "POP HL"
                 /\ gone = 2 * Len(loops) => code[pcRun].op = "RET"
<1>1. /\ pos \in 1..Len(words) /\ ~Quiet(pos) /\ loops \in Seq(LoopRecord) /\ Len(loops) = NestOf(h[pos])
      /\ words \in Seq(WordRecord) /\ Laid(h, words, code)
  BY DEF Ready, Stands, Whole
<1>2. PICK gone \in 0..2 * Len(loops) : Gone(pos, pcRun, rstack, loops, gone)
  BY DEF Ready, Stands
<1>3. words[pos].code \in Nat /\ Len(loops) \in Nat
  BY <1>1, WordFields
<1>4. /\ Frames(loops) \in Seq(Cells) /\ Len(Frames(loops)) = 2 * Len(loops) + 1 /\ Frames(loops)[2 * Len(loops) + 1] = Home
  BY <1>1, FramesWhole DEF Ready
<1>5. Coded(h, words, code, pos)
  BY <1>1 DEF Laid
<1>6. /\ \A i \in 0..2 * Len(loops) - 1 : code[words[pos].code + i].op = "POP HL"
      /\ code[words[pos].code + 2 * Len(loops)].op = "RET"
  BY <1>1, <1>5 DEF Coded, WordAt
<1>7. pcRun = words[pos].code + gone
  BY <1>2 DEF Gone
<1>8. gone < 2 * Len(loops) => code[pcRun].op = "POP HL"
  <2>1. ASSUME gone < 2 * Len(loops) PROVE gone \in 0..2 * Len(loops) - 1
    BY <2>1, <1>3
  <2> QED BY <2>1, <1>6, <1>7
<1>9. gone = 2 * Len(loops) => code[pcRun].op = "RET"
  BY <1>6, <1>7
<1>10. \E g \in 0..2 * Len(loops) :
                 /\ Gone(pos, pcRun, rstack, loops, g)
                 /\ g < 2 * Len(loops) => code[pcRun].op = "POP HL"
                 /\ g = 2 * Len(loops) => code[pcRun].op = "RET"
  BY <1>2, <1>8, <1>9
<1> QED BY <1>1, <1>3, <1>4, <1>10
LEMMA ExitPops ==
    ASSUME NEW h, Ready(h), WordAt(pos) = "EXIT", PopHL
    PROVE  Stands(h, pos, pcRun', rstack', loops)
<1>1. /\ pos \in 1..Len(words) /\ ~Quiet(pos) /\ loops \in Seq(LoopRecord) /\ Len(loops) = NestOf(h[pos]) /\ Len(loops) \in Nat
      /\ words[pos].code \in Nat /\ Frames(loops) \in Seq(Cells) /\ Len(Frames(loops)) = 2 * Len(loops) + 1
  BY AtExit
<1>2. PICK gone \in 0..2 * Len(loops) :
         /\ Gone(pos, pcRun, rstack, loops, gone)
         /\ gone < 2 * Len(loops) => code[pcRun].op = "POP HL"
         /\ gone = 2 * Len(loops) => code[pcRun].op = "RET"
  BY AtExit
<1>3. code[pcRun].op = "POP HL" /\ pcRun' = pcRun + 1 /\ rstack' = Tail(rstack)
  BY DEF PopHL, Executes
<1>4. gone # 2 * Len(loops)
  BY <1>2, <1>3
<1>5. PICK n \in Nat : n = 2 * Len(loops) + 1
  BY <1>1
<1>6. gone + 1 <= n /\ gone \in Nat /\ gone + 1 \in 0..2 * Len(loops)
  BY <1>1, <1>4, <1>5
<1>7. rstack = SubSeq(Frames(loops), gone + 1, n) /\ pcRun = words[pos].code + gone
  BY <1>2, <1>5 DEF Gone
<1>8. Tail(SubSeq(Frames(loops), gone + 1, n)) = SubSeq(Frames(loops), gone + 2, n)
  <2>1. PICK f \in Seq(Cells) : f = Frames(loops)
    BY <1>1
  <2>2. n = Len(f) /\ gone \in Nat /\ gone + 1 <= n
    BY <2>1, <1>1, <1>5, <1>6
  <2>3. Tail(SubSeq(f, gone + 1, n)) = SubSeq(f, gone + 2, n)
    BY ONLY <2>2, f \in Seq(Cells), n \in Nat, SubTail
  <2> QED BY <2>1, <2>3
<1>9. PICK g : g = gone + 1
  OBVIOUS
<1>10. g \in 0..2 * Len(loops) /\ g + 1 = gone + 2 /\ words[pos].code + g = (words[pos].code + gone) + 1
  <2>1. PICK c \in Nat : c = words[pos].code
    BY <1>1
  <2>2. g + 1 = gone + 2 /\ c + g = (c + gone) + 1
    BY <1>6, <1>9
  <2> QED BY <2>1, <2>2, <1>6, <1>9
<1>11. Gone(pos, pcRun', rstack', loops, g)
  BY <1>3, <1>5, <1>7, <1>8, <1>10 DEF Gone
<1> QED BY <1>1, <1>10, <1>11 DEF Stands
IsDone == pos' = Len(words) + 1 /\ pcRun' = Home /\ rstack' = <<>> /\ loops' = <<>>
LEMMA ExitReturns ==
    ASSUME NEW h, Ready(h), NEW n, NEW bounds, WordAt(pos) = "EXIT", Ret, Means(n, bounds)
    PROVE  IsDone
<1>1. /\ Len(loops) \in Nat /\ Frames(loops) \in Seq(Cells) /\ Len(Frames(loops)) = 2 * Len(loops) + 1
      /\ Frames(loops)[2 * Len(loops) + 1] = Home
  BY AtExit
<1>2. PICK gone \in 0..2 * Len(loops) :
         /\ Gone(pos, pcRun, rstack, loops, gone)
         /\ gone < 2 * Len(loops) => code[pcRun].op = "POP HL"
         /\ gone = 2 * Len(loops) => code[pcRun].op = "RET"
  BY AtExit
<1>3. code[pcRun].op = "RET" /\ pcRun' = Head(rstack) /\ rstack' = Tail(rstack)
  BY DEF Ret, Executes
<1>4. gone = 2 * Len(loops) /\ gone \in Nat
  BY <1>1, <1>2, <1>3
<1>5. PICK m \in Nat : m = 2 * Len(loops) + 1
  BY <1>1
<1>6. m = Len(Frames(loops)) /\ gone + 1 <= m /\ m - gone = 1 /\ gone + 1 = m
  BY <1>1, <1>4, <1>5
<1>7. rstack = SubSeq(Frames(loops), gone + 1, m)
  BY <1>2, <1>5 DEF Gone
<1>8. /\ SubSeq(Frames(loops), gone + 1, m) \in Seq(Cells) /\ Len(SubSeq(Frames(loops), gone + 1, m)) = m - gone
      /\ Head(SubSeq(Frames(loops), gone + 1, m)) = Frames(loops)[gone + 1]
  BY <1>1, <1>4, <1>6, SubTail
<1>9. rstack \in Seq(Cells) /\ Len(rstack) = 1 /\ Head(rstack) = Home
  BY <1>1, <1>5, <1>6, <1>7, <1>8
<1>10. Home1(rstack)
  BY <1>9 DEF Home1
<1>11. pcRun' = Home /\ rstack' = <<>>
  BY <1>3, <1>10, Returned
<1>12. Returns
  BY Zenon DEF Means
<1> QED BY <1>11, <1>12 DEF Returns, IsDone
LEMMA LastReturns ==
    ASSUME NEW h, Ready(h), NEW n, NEW bounds, IsLast(WordAt(pos)), Ret, Means(n, bounds)
    PROVE  IsDone
<1>1. /\ pos \in 1..Len(words) /\ rstack = Frames(loops) /\ loops \in Seq(LoopRecord)
      /\ Len(loops) = NestOf(h[pos]) /\ h[pos] \in Seq(Frame) /\ Len(loops) \in Nat
  <2>1. WordAt(pos) # "EXIT"
    BY LastIs
  <2> QED BY <2>1, AtWord
<1>2. h[pos] = <<>>
  <2>1. History(h, words) /\ Len(words) \in Nat /\ pos \in 1..Len(words) + 1 /\ pos <= Len(words)
    BY <1>1 DEF Ready, Whole
  <2>2. After(h[pos], WordAt(pos), pos, h[pos + 1])
    BY <2>1, HistoryAt DEF WordAt
  <2>3. PICK w : w = WordAt(pos)
    OBVIOUS
  <2>4. After(h[pos], w, pos, h[pos + 1]) /\ w = ";"
    BY <2>2, <2>3, Zenon DEF IsLast
  <2> QED BY <2>4, Zenon DEF After, Openers, Closers, LoopEnds
<1>3. Len(loops) = 0
  BY <1>1, <1>2 DEF NestOf
<1>4. Home1(rstack)
  <2>1. Frames(loops) \in Seq(Cells) /\ Len(Frames(loops)) = 2 * Len(loops) + 1 /\ Frames(loops)[2 * Len(loops) + 1] = Home
    BY <1>1, FramesWhole DEF Ready
  <2> QED BY <2>1, <1>1, <1>3 DEF Home1
<1>5. pcRun' = Head(rstack) /\ rstack' = Tail(rstack)
  BY DEF Ret
<1>6. pcRun' = Home /\ rstack' = <<>>
  BY <1>4, <1>5, Returned
<1>7. Returns
  BY Zenon DEF Means, IsLast
<1> QED BY <1>6, <1>7 DEF Returns, IsDone
\* What is run at a word is its routine.
Operates(n, bounds) == QBranch(n) \/ Branch \/ DoRT(bounds) \/ LoopRT \/ PlusLoopRT(n) \/ LeaveRT \/ Ret
OpIs(op, n, bounds) ==
    /\ op = "QBRANCH" => QBranch(n)
    /\ op = "BRANCH" => Branch
    /\ op = "DO_RT" => DoRT(bounds)
    /\ op = "LOOP_RT" => LoopRT
    /\ op = "PLUSLOOP_RT" => PlusLoopRT(n)
    /\ op = "LEAVE_RT" => LeaveRT
    /\ op = "RET" => Ret
LEMMA OnlyOp == ASSUME NEW n, NEW bounds, Operates(n, bounds), NEW op, code[pcRun].op = op PROVE OpIs(op, n, bounds)
<1>1. /\ QBranch(n) => op = "QBRANCH"
      /\ Branch => op = "BRANCH"
      /\ DoRT(bounds) => op = "DO_RT"
      /\ LoopRT => op = "LOOP_RT"
      /\ PlusLoopRT(n) => op = "PLUSLOOP_RT"
      /\ LeaveRT => op = "LEAVE_RT"
      /\ Ret => op = "RET"
  BY DEF QBranch, Branch, DoRT, LoopRT, PlusLoopRT, LeaveRT, Ret, Executes
<1> QED BY <1>1 DEF Operates, OpIs
LEMMA NamesAre == ASSUME NEW w \in Names
                  PROVE  w \in {"IF", "ELSE", "BEGIN", "WHILE", "DO", "THEN", "UNTIL", "REPEAT", "LOOP", "+LOOP", "LEAVE", "EXIT"} \/ IsLast(w)
BY Zenon DEF Names, Structures, IsLast
LEMMA LastRuns == ASSUME NEW w, IsLast(w) PROVE Runs(w) = "RET"
<1>1. w \in Short /\ w # "DO"
  BY LastIs, Zenon DEF IsLast, Short
<1> QED BY <1>1, ShortIs DEF Runs, LoopEnds, Forward
LEMMA ExitOp == ASSUME NEW h, Ready(h), WordAt(pos) = "EXIT" PROVE code[pcRun].op \in {"POP HL", "RET"}
<1>1. Len(loops) \in Nat
  BY AtExit
<1>2. PICK gone \in 0..2 * Len(loops) :
         /\ Gone(pos, pcRun, rstack, loops, gone)
         /\ gone < 2 * Len(loops) => code[pcRun].op = "POP HL"
         /\ gone = 2 * Len(loops) => code[pcRun].op = "RET"
  BY AtExit
<1>3. gone < 2 * Len(loops) \/ gone = 2 * Len(loops)
  BY <1>1
<1>4. CASE gone < 2 * Len(loops)
  <2>1. code[pcRun].op = "POP HL"
    BY <1>2, <1>4
  <2> QED BY <2>1
<1>5. CASE gone = 2 * Len(loops)
  <2>1. code[pcRun].op = "RET"
    BY <1>2, <1>5
  <2> QED BY <2>1
<1> QED BY <1>3, <1>4, <1>5
\* A step at a word that is being run does what the word means.
LEMMA DoesAsMeant ==
    ASSUME NEW h, Ready(h), NEW n \in Cells, NEW bounds \in Cells \X Cells, Operates(n, bounds), Means(n, bounds)
    PROVE  OnTo(h) \/ IsDone
<1>1. pos \in 1..Len(words) /\ ~Quiet(pos) /\ WordAt(pos) \in Names
  <2>1. pos \in 1..Len(words) /\ ~Quiet(pos) /\ words \in Seq(WordRecord)
    BY DEF Ready, Stands, Whole
  <2> QED BY <2>1, WordFields DEF WordAt
<1>2. CASE WordAt(pos) = "EXIT"
  <2>1. code[pcRun].op \in {"POP HL", "RET"}
    BY <1>2, ExitOp
  <2>2. Ret
    BY <2>1 DEF Operates, QBranch, Branch, DoRT, LoopRT, PlusLoopRT, LeaveRT, Executes
  <2> QED BY <2>2, <1>2, ExitReturns
<1>3. CASE WordAt(pos) # "EXIT"
  <2>1. OpIs(Runs(WordAt(pos)), n, bounds)
    <3>1. code[pcRun].op = Runs(WordAt(pos))
      BY <1>3, AtWord
    <3> QED BY <3>1, OnlyOp
  <2>2. CASE IsLast(WordAt(pos))
    <3>1. Ret
      BY <2>1, <2>2, LastRuns DEF OpIs
    <3> QED BY <3>1, <2>2, LastReturns
  <2>3. CASE WordAt(pos) = "IF"
    <3>1. QBranch(n)
      BY <2>1, <2>3 DEF OpIs, Runs
    <3> QED BY <3>1, <2>3, IfDoes
  <2>4. CASE WordAt(pos) = "WHILE"
    <3>1. QBranch(n)
      BY <2>1, <2>4 DEF OpIs, Runs
    <3> QED BY <3>1, <2>4, WhileDoes
  <2>5. CASE WordAt(pos) = "ELSE"
    <3>1. Branch
      BY <2>1, <2>5 DEF OpIs, Runs
    <3> QED BY <3>1, <2>5, ElseDoes
  <2>6. CASE WordAt(pos) = "UNTIL"
    <3>1. QBranch(n)
      BY <2>1, <2>6 DEF OpIs, Runs
    <3> QED BY <3>1, <2>6, UntilDoes
  <2>7. CASE WordAt(pos) = "REPEAT"
    <3>1. Branch
      BY <2>1, <2>7 DEF OpIs, Runs
    <3> QED BY <3>1, <2>7, RepeatDoes
  <2>8. CASE WordAt(pos) = "DO"
    <3>1. DoRT(bounds)
      BY <2>1, <2>8 DEF OpIs, Runs
    <3> QED BY <3>1, <2>8, DoDoes
  <2>9. CASE WordAt(pos) = "LOOP"
    <3>1. LoopRT
      BY <2>1, <2>9 DEF OpIs, Runs
    <3> QED BY <3>1, <2>9, LoopWordDoes
  <2>10. CASE WordAt(pos) = "+LOOP"
    <3>1. PlusLoopRT(n)
      BY <2>1, <2>10 DEF OpIs, Runs
    <3> QED BY <3>1, <2>10, PlusLoopDoes
  <2>11. CASE WordAt(pos) = "LEAVE"
    <3>1. LeaveRT
      BY <2>1, <2>11 DEF OpIs, Runs
    <3> QED BY <3>1, <2>11, LeaveDoes
  <2>12. WordAt(pos) \notin {"BEGIN", "THEN"}
    BY <1>1 DEF Quiet
  <2>13. WordAt(pos) \in {"IF", "ELSE", "WHILE", "DO", "UNTIL", "REPEAT", "LOOP", "+LOOP", "LEAVE"} \/ IsLast(WordAt(pos))
    BY <2>12, <1>1, <1>3, NamesAre
  <2> QED BY <2>2, <2>3, <2>4, <2>5, <2>6, <2>7, <2>8, <2>9, <2>10, <2>11, <2>13
<1> QED BY <1>2, <1>3
LEMMA PopsAtExit == ASSUME NEW h, Ready(h), PopHL PROVE WordAt(pos) = "EXIT"
<1> SUFFICES ASSUME WordAt(pos) # "EXIT" PROVE FALSE
  OBVIOUS
<1>1. code[pcRun].op = Runs(WordAt(pos))
  BY AtWord
<1>2. code[pcRun].op = "POP HL"
  BY DEF PopHL, Executes
<1>3. Runs(WordAt(pos)) # "POP HL"
  BY DEF Runs
<1> QED BY <1>1, <1>2, <1>3
----------------------------------------------------------------------------
\* The code that was compiled, and where it stands.
AtRest(c, rs, l) == c = Home /\ rs = <<>> /\ l = <<>>
RunBy(h) ==
    /\ pos \in 0..Len(words) + 1
    /\ (pos = 0 \/ Closed) => AtRest(pcRun, rstack, loops)
    /\ pos > 0 => Final
    /\ Running => Stands(h, pos, pcRun, rstack, loops)
RunNow == \E h : CompiledBy(h) /\ RunBy(h)
LEMMA ClosedIsSet == ASSUME ControlParameters, NestInv, NEW h, CompiledBy(h), RunBy(h), pos > 0 PROVE Set(h)
<1>1. Half \in Nat \ {0}
  BY DEF ControlParameters
<1>2. PICK L : L = Len(words) + 1
  OBVIOUS
<1>3. /\ words \in Seq(WordRecord) /\ History(h, words) /\ Laid(h, words, code) /\ Len(words) \in Nat
      /\ h[L] \in Seq(Frame) /\ OpenIs(h[L], open)
  BY <1>2, Before
<1>4. open = <<>> /\ pos # 0
  <2>1. pos = 0 \/ open = <<>>
    BY DEF NestInv
  <2>2. pos # 0
    OBVIOUS
  <2> QED BY <2>1, <2>2
<1>5. h[L] = <<>>
  <2>1. Len(h[L]) = 0
    BY <1>3, <1>4 DEF OpenIs
  <2> QED BY <2>1, <1>3
<1>6. Whole(h)
  BY <1>2, <1>3, <1>5 DEF Whole
<1>7. CodeAfter(h)
  BY <1>3, LaidAfter
<1>8. Patched(h, words, code)
  BY DEF CompiledBy, Compiled
<1>9. Final
  BY DEF RunBy
<1> QED BY <1>1, <1>3, <1>6, <1>7, <1>8, <1>9 DEF Set
LEMMA SetIsReady == ASSUME NEW h, Set(h), Stands(h, pos, pcRun, rstack, loops) PROVE Ready(h)
BY DEF Set, Ready
LEMMA StandsStays == ASSUME words' = words, NEW h, OnTo(h) PROVE Stands(h, pos, pcRun, rstack, loops)'
BY DEF OnTo, Stands, Gone, Quiet, WordAt
LEMMA SameCompiled == ASSUME NEW h, CompiledBy(h), UNCHANGED <<textVars, compileVars>> PROVE CompiledBy(h)'
BY DEF CompiledBy, textVars, compileVars
LEMMA FinalStays == ASSUME Final, words' = words PROVE Final'
BY DEF Final, WordAt
LEMMA OnToRuns == ASSUME NEW h, OnTo(h), Final, words' = words, Len(words) \in Nat PROVE RunBy(h)'
<1>1. Stands(h, pos, pcRun, rstack, loops)' /\ Final'
  BY StandsStays, FinalStays
<1>2. pos' \in 1..Len(words)
  BY DEF OnTo, Stands
<1>3. pos' \in 0..Len(words') + 1 /\ pos' # 0 /\ pos' # Len(words') + 1
  BY <1>2
<1> QED BY <1>1, <1>3 DEF RunBy, Closed

LEMMA InitRuns == ASSUME ControlInit PROVE RunNow
<1>1. PICK h : CompiledBy(h)
  BY InitCompiled DEF CompiledNow
<1>2. words = <<>> /\ pos = 0 /\ pcRun = Home /\ rstack = <<>> /\ loops = <<>>
  BY DEF ControlInit
<1>3. Len(words) = 0
  BY <1>2
<1>4. RunBy(h)
  BY <1>2, <1>3 DEF RunBy, AtRest, Running
<1> QED BY <1>1, <1>4 DEF RunNow

\* Compiling leaves the code at rest, and `;` ends it.
LEMMA CompileRests == ASSUME CompileWord PROVE pos = 0 /\ pcRun' = pcRun /\ rstack' = rstack /\ loops' = loops /\ (pos' = 0 \/ SemicolonRet)
<1>1. CASE SemicolonRet
  BY <1>1, Zenon DEF SemicolonRet
<1>2. CASE DropDefinition
  BY <1>2 DEF DropDefinition, runVars
<1>3. CASE If \/ Else \/ Then \/ Begin \/ Until \/ While \/ Repeat \/ Do \/ Loop \/ PlusLoop \/ Leave \/ Exit
  <2>1. PICK w, o : Reads(w, o)
    BY <1>3, Zenon DEF If, Else, Then, Begin, Until, While, Repeat, Do, Loop, PlusLoop, EndLoop, Leave, Exit
  <2> QED BY <2>1 DEF Reads, runVars
<1> QED BY <1>1, <1>2, <1>3 DEF CompileWord
LEMMA SemicolonEnds == ASSUME words \in Seq(WordRecord), SemicolonRet PROVE Final' /\ pos' = Len(words') + 1
<1>1. PICK w : IsLast(w) /\ words' = Append(words, [word |-> w, code |-> HERE, deep |-> 0])
  BY Zenon DEF SemicolonRet, IsLast
<1>2. PICK r : r = [word |-> w, code |-> HERE, deep |-> 0]
  OBVIOUS
<1>3. r.word = w /\ words' = Append(words, r)
  BY <1>1, <1>2
<1>4. Len(words') = Len(words) + 1 /\ words'[Len(words) + 1] = r /\ Len(words) \in Nat
  BY <1>3
<1>5. Len(words') >= 1 /\ words'[Len(words')].word = w
  BY <1>3, <1>4
<1>6. pos' = Len(words') + 1
  BY Zenon DEF SemicolonRet
<1> QED BY <1>1, <1>5, <1>6 DEF Final, WordAt
LEMMA CompileRuns == ASSUME NestInv, NestInv', RunNow, CompiledNow', CompileWord PROVE RunNow'
<1>1. PICK h : RunBy(h)
  BY DEF RunNow
<1>2. PICK g : CompiledBy(g)'
  BY DEF CompiledNow
<1>3. pos = 0 /\ pcRun' = pcRun /\ rstack' = rstack /\ loops' = loops /\ (pos' = 0 \/ SemicolonRet)
  BY CompileRests
<1>4. words \in Seq(WordRecord) /\ words' \in Seq(WordRecord)
  BY DEF NestInv, CompileTypes, WordRecord
<1>5. Len(words') \in Nat
  BY <1>4
<1>6. AtRest(pcRun', rstack', loops')
  BY <1>1, <1>3 DEF RunBy, AtRest
<1>7. CASE pos' = 0
  <2>1. pos' \in 0..Len(words') + 1 /\ pos' # Len(words') + 1 /\ pos' \notin 1..Len(words') /\ ~(pos' > 0)
    BY <1>5, <1>7
  <2>2. RunBy(g)'
    BY <2>1, <1>6 DEF RunBy, Closed, Running, AtRest
  <2> QED BY <1>2, <2>2 DEF RunNow
<1>8. CASE SemicolonRet
  <2>1. Final' /\ pos' = Len(words') + 1
    BY <1>4, <1>8, SemicolonEnds
  <2>2. pos' \in 0..Len(words') + 1 /\ pos' \notin 1..Len(words')
    BY <1>5, <2>1
  <2>3. RunBy(g)'
    BY <2>1, <2>2, <1>6 DEF RunBy, Running, AtRest
  <2> QED BY <1>2, <2>3 DEF RunNow
<1> QED BY <1>3, <1>7, <1>8
LEMMA NoFrames == ASSUME Half \in Nat \ {0} PROVE Frames(<<>>) = <<Home>>
<1>1. PICK l \in Seq(LoopRecord) : l = <<>>
  <2>1. <<>> \in Seq(LoopRecord)
    OBVIOUS
  <2> QED BY <2>1, Zenon
<1>2. FramesAre(l, Frames(l)) /\ Len(l) = 0
  BY <1>1, FramesIs
<1>3. Home \in Cells
  BY DEF Home, Cells
<1>4. PICK s \in Seq(Cells) : s = <<Home>>
  <2>1. <<Home>> \in Seq(Cells)
    BY <1>3
  <2> QED BY <2>1, Zenon
<1>5. FramesAre(l, s)
  BY <1>2, <1>3, <1>4 DEF FramesAre
<1>6. Frames(l) = s
  BY <1>2, <1>5, FramesAlone
<1> QED BY <1>1, <1>4, <1>6

\* Every step of the run keeps the code at its words.
LEMMA CalledRuns == ASSUME ControlParameters, NestInv, RunNow, Called PROVE RunNow'
<1>1. PICK h : CompiledBy(h) /\ RunBy(h)
  BY DEF RunNow
<1>2. Closed /\ pcRun' = 1 /\ rstack' = <<Home>> /\ pos' = From(words, 1) /\ loops' = loops /\ UNCHANGED <<textVars, compileVars>>
  BY DEF Called
<1>3. Len(words) \in Nat
  <2>1. words \in Seq(WordRecord)
    BY DEF NestInv, CompileTypes, WordRecord
  <2> QED BY <2>1
<1>4. pos > 0
  BY <1>2, <1>3 DEF Closed
<1>5. Set(h)
  BY <1>1, <1>4, ClosedIsSet
<1>6. loops = <<>>
  BY <1>1, <1>2 DEF RunBy, AtRest
<1>7. 1 \in 1..Len(words) /\ words[1].code = 1
  <2>1. Len(words) >= 1
    BY <1>5 DEF Set, Final
  <2>2. At(words, code, 1) = 1
    BY <1>5 DEF Set, Laid
  <2> QED BY <2>1, <2>2, <1>3 DEF At
<1>8. NestOf(h[1]) = 0
  <2>1. h[1] = <<>>
    BY <1>5 DEF Set, Whole, History
  <2> QED BY <2>1 DEF NestOf
<1>9. rstack' = Frames(loops)
  BY <1>2, <1>5, <1>6, NoFrames DEF Set
<1>10. loops \in Seq(LoopRecord) /\ Len(loops) = 0
  BY <1>6
<1>11. OnTo(h)
  <2>1. PICK k \in 1..Len(words) : k = 1
    BY <1>7
  <2>2. words[k].code = pcRun' /\ Len(loops) = NestOf(h[k]) /\ pos' = From(words, k)
    BY <2>1, <1>2, <1>7, <1>8, <1>10
  <2>3. PICK p, c, rs : p = pos' /\ c = pcRun' /\ rs = rstack'
    OBVIOUS
  <2>4. words[k].code = c /\ p = From(words, k) /\ rs = Frames(loops)
    BY <2>2, <2>3, <1>9
  <2>5. Stands(h, p, c, rs, loops)
    BY <2>2, <2>4, <1>5, <1>10, ArrivedCalled
  <2> QED BY <2>3, <2>5, <1>2 DEF OnTo
<1>12. CompiledBy(h)'
  BY <1>1, <1>2, SameCompiled
<1>13. words' = words
  BY <1>2 DEF textVars
<1>14. Final
  BY <1>5 DEF Set
<1>15. RunBy(h)'
  BY <1>3, <1>11, <1>13, <1>14, OnToRuns
<1> QED BY <1>12, <1>15 DEF RunNow
LEMMA RunningIsReady == ASSUME ControlParameters, NestInv, NEW h, CompiledBy(h), RunBy(h), Running
                        PROVE  Ready(h) /\ Len(words) \in Nat /\ Final /\ Half \in Nat \ {0}
<1>1. Len(words) \in Nat
  <2>1. words \in Seq(WordRecord)
    BY DEF NestInv, CompileTypes, WordRecord
  <2> QED BY <2>1
<1>2. pos > 0
  BY <1>1 DEF Running
<1>3. Set(h)
  BY <1>2, ClosedIsSet
<1>4. Stands(h, pos, pcRun, rstack, loops)
  BY DEF RunBy
<1> QED BY <1>1, <1>3, <1>4, SetIsReady DEF Set
LEMMA ExecuteRuns == ASSUME ControlParameters, NestInv, RunNow, Execute, UNCHANGED <<textVars, compileVars>> PROVE RunNow'
<1>1. PICK h : CompiledBy(h) /\ RunBy(h)
  BY DEF RunNow
<1>2. PICK n \in Numbers, bounds \in Bounds : Operates(n, bounds) /\ Means(n, bounds)
  BY DEF Execute, Operates
<1>3. n \in Cells /\ bounds \in Cells \X Cells
  BY <1>2 DEF ControlParameters
<1>4. Running
  BY <1>2 DEF Operates, QBranch, Branch, DoRT, LoopRT, PlusLoopRT, LeaveRT, Ret, Executes
<1>5. Ready(h) /\ Len(words) \in Nat /\ Final
  BY <1>1, <1>4, RunningIsReady
<1>6. OnTo(h) \/ IsDone
  BY <1>2, <1>3, <1>5, DoesAsMeant
<1>7. CompiledBy(h)'
  BY <1>1, SameCompiled
<1>8. words' = words
  BY DEF textVars
<1>9. CASE OnTo(h)
  <2>1. RunBy(h)'
    BY <1>5, <1>8, <1>9, OnToRuns
  <2> QED BY <1>7, <2>1 DEF RunNow
<1>10. CASE IsDone
  <2>1. pos' = Len(words') + 1 /\ AtRest(pcRun', rstack', loops') /\ Final'
    BY <1>5, <1>8, <1>10, FinalStays DEF IsDone, AtRest
  <2>2. pos' \in 0..Len(words') + 1 /\ pos' \notin 1..Len(words')
    BY <1>5, <1>8, <2>1
  <2>3. RunBy(h)'
    BY <2>1, <2>2 DEF RunBy, Running, AtRest
  <2> QED BY <1>7, <2>3 DEF RunNow
<1> QED BY <1>6, <1>9, <1>10
LEMMA PopRuns == ASSUME ControlParameters, NestInv, RunNow, PopHL, UNCHANGED <<pos, loops, textVars, compileVars>> PROVE RunNow'
<1>1. PICK h : CompiledBy(h) /\ RunBy(h)
  BY DEF RunNow
<1>2. Running
  BY DEF PopHL, Executes
<1>3. Ready(h) /\ Len(words) \in Nat /\ Final
  BY <1>1, <1>2, RunningIsReady
<1>4. Stands(h, pos, pcRun', rstack', loops)
  BY <1>3, PopsAtExit, ExitPops
<1>5. OnTo(h)
  BY <1>4 DEF OnTo
<1>6. CompiledBy(h)' /\ words' = words
  BY <1>1, SameCompiled DEF textVars
<1>7. RunBy(h)'
  BY <1>3, <1>5, <1>6, OnToRuns
<1> QED BY <1>6, <1>7 DEF RunNow
LEMMA StillRuns == ASSUME RunNow, UNCHANGED controlVars PROVE RunNow'
<1>1. PICK h : CompiledBy(h) /\ RunBy(h)
  BY DEF RunNow
<1>2. UNCHANGED <<textVars, compileVars>> /\ words' = words /\ pcRun' = pcRun /\ rstack' = rstack /\ pos' = pos /\ loops' = loops
  BY DEF controlVars, textVars, runVars
<1>3. CompiledBy(h)'
  BY <1>1, <1>2, SameCompiled
<1>4. RunBy(h)'
  BY <1>1, <1>2 DEF RunBy, Closed, Running, AtRest, Final, WordAt, Stands, Gone, Quiet
<1> QED BY <1>3, <1>4 DEF RunNow
LEMMA RunStep == ASSUME ControlParameters, NestInv, RunNow, [ControlNext]_controlVars PROVE RunNow'
<1>1. CASE CompileWord
  <2>1. NestInv'
    BY NextKeeps
  <2>2. CompiledNow
    BY DEF RunNow, CompiledNow
  <2>3. CompiledNow'
    BY <2>2, CompiledStep
  <2> QED BY <1>1, <2>1, <2>3, CompileRuns
<1>2. CASE Called
  BY <1>2, CalledRuns
<1>3. CASE Execute /\ UNCHANGED <<textVars, compileVars>>
  BY <1>3, ExecuteRuns
<1>4. CASE PopHL /\ UNCHANGED <<pos, loops, textVars, compileVars>>
  BY <1>4, PopRuns
<1>5. CASE UNCHANGED controlVars
  BY <1>5, StillRuns
<1> QED BY <1>1, <1>2, <1>3, <1>4, <1>5 DEF ControlNext

\* Code that stands at its words has the loops' frames on the return stack.
LEMMA StandingMeans ==
    ASSUME Half \in Nat \ {0}, NEW h, Stands(h, pos, pcRun, rstack, loops), words[pos].code \in Nat,
           NEW f, f = Frames(loops), NEW g, g = Len(f) - Len(rstack)
    PROVE  /\ g >= 0 /\ rstack = SubSeq(f, g + 1, Len(f)) /\ pcRun = words[pos].code + g /\ (g > 0 => WordAt(pos) = "EXIT")
           /\ g = 0 => /\ loops # <<>> => W_I = loops[1].index
                       /\ Len(loops) > 1 => W_J = loops[2].index
<1>1. loops \in Seq(LoopRecord)
  BY DEF Stands
<1>2. PICK gone \in 0..2 * Len(loops) : Gone(pos, pcRun, rstack, loops, gone)
  BY DEF Stands
<1>3. /\ f \in Seq(Cells) /\ Len(f) = 2 * Len(loops) + 1 /\ Len(loops) \in Nat /\ SubSeq(f, 1, 2 * Len(loops) + 1) = f
      /\ FramesAre(loops, f)
  BY <1>1, FramesWhole, FramesIs
<1>4. PICK m \in Nat : m = 2 * Len(loops) + 1
  BY <1>3
<1>5. gone \in Nat /\ gone + 1 <= m /\ m = Len(f)
  BY <1>2, <1>3, <1>4
<1>6. rstack = SubSeq(f, gone + 1, m) /\ pcRun = words[pos].code + gone
  BY <1>2, <1>4 DEF Gone
<1>7. gone > 0 => WordAt(pos) = "EXIT"
  BY <1>2 DEF Gone
<1>8. Len(SubSeq(f, gone + 1, m)) = m - gone
  <2>1. PICK x \in Seq(Cells) : x = f
    BY <1>3
  <2>2. m = Len(x) /\ gone \in Nat /\ gone + 1 <= m
    BY <2>1, <1>5
  <2>3. Len(SubSeq(x, gone + 1, m)) = m - gone
    BY ONLY <2>2, x \in Seq(Cells), m \in Nat, SubTail
  <2> QED BY <2>1, <2>3
<1>9. g = gone
  <2>1. Len(rstack) = m - gone
    BY <1>6, <1>8
  <2>2. g = m - (m - gone)
    BY <2>1, <1>5
  <2> QED BY <2>2, <1>5
<1>10. /\ g >= 0 /\ rstack = SubSeq(f, g + 1, Len(f)) /\ pcRun = words[pos].code + g /\ (g > 0 => WordAt(pos) = "EXIT")
  BY <1>5, <1>6, <1>7, <1>9
<1>11. ASSUME g = 0 PROVE /\ loops # <<>> => W_I = loops[1].index
                          /\ Len(loops) > 1 => W_J = loops[2].index
  <2>1. rstack = f
    <3>1. SubSeq(f, 0 + 1, m) = f
      BY <1>3, <1>4
    <3> QED BY <3>1, <1>6, <1>9, <1>11
  <2>2. \A i \in 1..Len(loops) : f[2 * i - 1] = loops[i].index
    BY <1>3 DEF FramesAre
  <2>3. ASSUME loops # <<>> PROVE W_I = loops[1].index
    <3>1. 1 \in 1..Len(loops)
      BY <2>3, <1>1
    <3>2. f[2 * 1 - 1] = loops[1].index
      BY <2>2, <3>1
    <3> QED BY <3>2, <2>1 DEF W_I
  <2>4. ASSUME Len(loops) > 1 PROVE W_J = loops[2].index
    <3>1. 2 \in 1..Len(loops)
      BY <2>4, <1>3
    <3>2. f[2 * 2 - 1] = loops[2].index
      BY <2>2, <3>1
    <3> QED BY <3>2, <2>1 DEF W_J
  <2> QED BY <2>3, <2>4
<1> QED BY <1>10, <1>11
LEMMA RunIsMeant == ASSUME ControlParameters, NestInv, RunNow PROVE CompiledAsMeant
<1>1. PICK h : CompiledBy(h) /\ RunBy(h)
  BY DEF RunNow
<1>2. NothingLeftOpen
  BY NestIsClosed
<1>3. ASSUME Closed PROVE pcRun = Home /\ rstack = <<>>
  BY <1>1, <1>3 DEF RunBy, AtRest
<1>4. PICK f : f = Frames(loops)
  OBVIOUS
<1>5. PICK g : g = Len(f) - Len(rstack)
  OBVIOUS
<1>6. ASSUME Running
      PROVE  /\ g >= 0 /\ rstack = SubSeq(f, g + 1, Len(f)) /\ pcRun = words[pos].code + g /\ (g > 0 => WordAt(pos) = "EXIT")
             /\ g = 0 => /\ loops # <<>> => W_I = loops[1].index
                         /\ Len(loops) > 1 => W_J = loops[2].index
  <2>1. Ready(h) /\ Half \in Nat \ {0}
    BY <1>1, <1>6, RunningIsReady
  <2>2. Stands(h, pos, pcRun, rstack, loops) /\ words \in Seq(WordRecord) /\ pos \in 1..Len(words)
    BY <2>1 DEF Ready, Stands, Whole
  <2>3. words[pos].code \in Nat
    BY <2>2, WordFields
  <2> QED BY <2>1, <2>2, <2>3, <1>4, <1>5, StandingMeans
<1> QED BY <1>2, <1>3, <1>4, <1>5, <1>6 DEF CompiledAsMeant

\* A compiled definition does what its words mean, whatever was nested in it and whatever definition failed before it:
\* it stands at the code of the word to be done with the open loops' frames, and returns where it was called from.
THEOREM CompiledCodeMeans == ASSUME ControlParameters PROVE ControlSpec => []CompiledAsMeant
<1>1. ControlInit => NestInv /\ RunNow
  BY ControlParameters, InitNests, InitRuns
<1>2. (NestInv /\ RunNow) /\ [ControlNext]_controlVars => (NestInv /\ RunNow)'
  BY ControlParameters, NextKeeps, RunStep
<1>3. NestInv /\ RunNow => CompiledAsMeant
  BY ControlParameters, RunIsMeant
<1> QED BY <1>1, <1>2, <1>3, PTL DEF ControlSpec
=============================================================================
