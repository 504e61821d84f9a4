------------------------------ MODULE Control -------------------------------
(* Compiled control flow (core/control.asm, loop.asm, doloop.asm, loopext.asm): the
   immediate words compile calls and branch targets, keep their addresses on the data
   stack and their LEAVE chains in a table, and the run-time halves run on the return
   stack.  Every definition of properly nested words, read after a definition that
   failed or not, is compiled and run beside what its words mean.

   An address is a cell's place in the definition: a CALL, a byte or a branch target is
   one cell.  The compile-time stack is written with its top last, the return stack with
   its top first.                                                                     *)
EXTENDS Integers, Sequences

CONSTANTS Levels,      \* the slots of LEAVE_HEAD_TABLE
          Half,        \* 2^(bits of a cell - 1)
          MostWords, MostFailed,     \* words in a definition, and in one that fails
          Bounds, Numbers            \* what a DO finds as <<limit, start>>, and what a flag or a step may be

Cells == 0..2 * Half - 1
ControlParameters ==
    /\ {Levels, Half, MostWords} \subseteq Nat \ {0} /\ MostFailed \in 0..MostWords
    /\ Bounds \subseteq Cells \X Cells /\ Numbers \subseteq Cells

VARIABLES words,       \* the definition read so far: each word, the address of its code, the structures open after it
          open,        \* the structures still open in it, innermost last
          code, cstack, depth, heads,     \* the code, the compile-time stack, LEAVE_DEPTH, LEAVE_HEAD_TABLE
          left, failed,                   \* what a failed definition left on that stack; has one failed
          pcRun, rstack,                     \* the compiled definition running
          pos, loops                      \* its words as they are meant: the word to do, the open loops
textVars == <<words, open>>
compileVars == <<code, cstack, depth, heads, left, failed>>
runVars == <<pcRun, rstack, pos, loops>>
controlVars == <<textVars, compileVars, runVars>>

Home == 0              \* where the definition was called from
Call(routine) == [op |-> routine, to |-> 0]
Byte(b) == [op |-> b, to |-> 0]
Target(a) == [op |-> "target", to |-> a]
HERE == Len(code) + 1
Patch(cells, a, to) == [cells EXCEPT ![a].to = to]

ControlInit == /\ words = <<>> /\ open = <<>>
               /\ code = <<>> /\ cstack = <<>> /\ depth = 0 /\ heads = [l \in 1..Levels |-> 0] /\ left = <<>> /\ failed = FALSE
               /\ pcRun = Home /\ rstack = <<>> /\ pos = 0 /\ loops = <<>>
----------------------------------------------------------------------------
\* Compiling
Least(S) == CHOOSE k \in S : \A l \in S : k <= l
Most(S) == CHOOSE k \in S : \A l \in S : l <= k
\* The next word of a definition, from the k-th on, that does something when it is run.
From(text, k) == Least({l \in k..Len(text) : text[l].word \notin {"BEGIN", "THEN"}})
InLoop == \E i \in DOMAIN open : open[i] = "DO"
Inside == SubSeq(open, 1, Len(open) - 1)          \* what is open when the innermost structure is left

\* The word is read with the structures it needs open, and leaves these open.
Reads(word, nowOpen) ==
    /\ pos = 0 /\ Len(words) + 1 + Len(nowOpen) < MostWords
    /\ words' = Append(words, [word |-> word, code |-> HERE, deep |-> Len(nowOpen)]) /\ open' = nowOpen
    /\ UNCHANGED <<left, failed, runVars>>
Compiles(cells) == code' = code \o cells
NoLoopWord == UNCHANGED <<depth, heads>>
Innermost(structures) == open # <<>> /\ open[Len(open)] \in structures
Top(n) == cstack[Len(cstack) + 1 - n]
Pops(n) == SubSeq(cstack, 1, Len(cstack) - n)
Pushes(a) == cstack' = Append(cstack, a)

If == /\ Reads("IF", Append(open, "IF"))
      /\ Compiles(<<Call("QBRANCH"), Target(0)>>) /\ Pushes(HERE + 1) /\ NoLoopWord
Else == /\ Innermost({"IF"}) /\ Reads("ELSE", Append(Inside, "ELSE"))
        /\ code' = Patch(code \o <<Call("BRANCH"), Target(0)>>, Top(1), HERE + 2)
        /\ cstack' = Append(Pops(1), HERE + 1) /\ NoLoopWord
Then == /\ Innermost({"IF", "ELSE"}) /\ Reads("THEN", Inside)
        /\ code' = Patch(code, Top(1), HERE) /\ cstack' = Pops(1) /\ NoLoopWord
Begin == /\ Reads("BEGIN", Append(open, "BEGIN"))
         /\ Pushes(HERE) /\ UNCHANGED code /\ NoLoopWord
Until == /\ Innermost({"BEGIN"}) /\ Reads("UNTIL", Inside)
         /\ Compiles(<<Call("QBRANCH"), Target(Top(1))>>) /\ cstack' = Pops(1) /\ NoLoopWord
While == /\ Innermost({"BEGIN"}) /\ Reads("WHILE", Append(Inside, "WHILE"))
         /\ Compiles(<<Call("QBRANCH"), Target(0)>>) /\ Pushes(HERE + 1) /\ NoLoopWord
Repeat == /\ Innermost({"WHILE"}) /\ Reads("REPEAT", Inside)
          /\ code' = Patch(code \o <<Call("BRANCH"), Target(Top(2))>>, Top(1), HERE + 2)
          /\ cstack' = Pops(2) /\ NoLoopWord
\* LEAVE_HEAD_TABLE's slots are not checked: a definition that opens more loops is left out.
Do == /\ depth < Levels /\ Reads("DO", Append(open, "DO"))
      /\ Compiles(<<Call("DO_RT")>>) /\ Pushes(HERE + 1)
      /\ depth' = depth + 1 /\ heads' = [heads EXCEPT ![depth + 1] = 0]

\* (a mutant of PatchLeaves) The chain is not followed: only the last LEAVE is patched.
PatchLastLeave(cells, head, to) == [a \in DOMAIN cells |-> IF a = head THEN Target(to) ELSE cells[a]]
\* PATCH_LEAVE_CHAIN: each node holds the one before it, and 0 ends the chain.
PatchLeaves(cells, head, to) ==
    LET node[i \in 0..Len(cells)] == IF i = 0 THEN head ELSE IF node[i - 1] = 0 THEN 0 ELSE cells[node[i - 1]].to
    IN  [a \in DOMAIN cells |-> IF \E i \in 0..Len(cells) : node[i] = a THEN Target(to) ELSE cells[a]]
EndLoop(word, routine) ==
    /\ Innermost({"DO"}) /\ Reads(word, Inside)
    /\ code' = PatchLeaves(code \o <<Call(routine), Target(Top(1))>>, heads[depth], HERE + 2)
    /\ cstack' = Pops(1) /\ depth' = depth - 1 /\ UNCHANGED heads
Loop == EndLoop("LOOP", "LOOP_RT")
PlusLoop == EndLoop("+LOOP", "PLUSLOOP_RT")
Leave == /\ InLoop /\ Reads("LEAVE", open)
         /\ Compiles(<<Call("LEAVE_RT"), Target(heads[depth])>>)
         /\ heads' = [heads EXCEPT ![depth] = HERE + 1] /\ UNCHANGED <<cstack, depth>>
Exit == /\ Reads("EXIT", open)
        /\ Compiles([i \in 1..2 * depth |-> Byte("POP HL")] \o <<Byte("RET")>>)
        /\ UNCHANGED cstack /\ NoLoopWord
\* `;` closes the definition: it can be called.
SemicolonRet == /\ open = <<>> /\ pos = 0 /\ words' = Append(words, [word |-> ";", code |-> HERE, deep |-> 0])
                /\ Compiles(<<Byte("RET")>>) /\ pos' = Len(words') + 1
                /\ UNCHANGED <<open, cstack, depth, heads, left, failed, pcRun, rstack, loops>>
\* The line ends in an error, ABORT or QUIT (which keeps the data stack), and the console drops the definition (COLON_DROP).
DropDefinition == /\ pos = 0 /\ ~failed /\ Len(words) \in 1..MostFailed
                  /\ words' = <<>> /\ open' = <<>> /\ code' = <<>> /\ depth' = 0
                  /\ cstack' \in {<<>>, cstack} /\ left' = cstack' /\ failed' = TRUE
                  /\ UNCHANGED <<heads, runVars>>
CompileWord == \/ If \/ Else \/ Then \/ Begin \/ Until \/ While \/ Repeat \/ Do \/ Loop \/ PlusLoop \/ Leave \/ Exit
               \/ SemicolonRet \/ DropDefinition
----------------------------------------------------------------------------
\* Running the code
Closed == pos = Len(words) + 1
Called == /\ Closed /\ pcRun' = 1 /\ rstack' = <<Home>>
          /\ pos' = From(words, 1) /\ UNCHANGED <<loops, textVars, compileVars>>
Running == pos \in 1..Len(words)
Executes(op) == Running /\ pcRun \in DOMAIN code /\ code[pcRun].op = op
Branches == pcRun' = code[pcRun + 1].to
Skips == pcRun' = pcRun + 2
Bits(n) == n % (2 * Half)
Negative(n) == n >= Half
QBranch(flag) == /\ Executes("QBRANCH") /\ UNCHANGED rstack
                 /\ (flag = 0 /\ Branches) \/ (flag # 0 /\ Skips)
Branch == Executes("BRANCH") /\ Branches /\ UNCHANGED rstack
DoRT(bounds) == Executes("DO_RT") /\ pcRun' = pcRun + 1 /\ rstack' = <<bounds[2], bounds[1]>> \o rstack
\* A loop's end: on with this index, or the frame is dropped.
GoesOn(index) == Branches /\ rstack' = [rstack EXCEPT ![1] = index]
Ends == Skips /\ rstack' = Tail(Tail(rstack))
LoopRT == LET index == Bits(rstack[1] + 1)
          IN  Executes("LOOP_RT") /\ IF index = rstack[2] THEN Ends ELSE GoesOn(index)
PlusLoopRT(step) ==
    LET index == Bits(rstack[1] + step)
        limit == rstack[2]
    IN  /\ Executes("PLUSLOOP_RT")
        /\ IF Negative(Bits(rstack[1] - limit)) # Negative(Bits(index - limit)) THEN Ends ELSE GoesOn(index)
LeaveRT == Executes("LEAVE_RT") /\ Branches /\ rstack' = Tail(Tail(rstack))
PopHL == Executes("POP HL") /\ pcRun' = pcRun + 1 /\ rstack' = Tail(rstack)
Ret == Executes("RET") /\ pcRun' = Head(rstack) /\ rstack' = Tail(rstack)
W_I == rstack[1]
W_J == rstack[3]
----------------------------------------------------------------------------
\* What the words mean: the structures by how they are nested, the loops by their bounds, the arithmetic without wrapping.
WordAt(k) == words[k].word
EndOf(k) == Least({l \in k + 1..Len(words) : words[l].deep < words[k].deep})
Around(k, openers) == Most({l \in 1..k - 1 : WordAt(l) \in openers /\ EndOf(l) >= k})
Middle(k) == {l \in k + 1..EndOf(k) : WordAt(l) \in {"ELSE", "WHILE"} /\ words[l].deep = words[k].deep}

Signed(n) == IF Negative(n) THEN n - 2 * Half ELSE n
\* +LOOP ends when the index steps over the boundary below the limit, or so far that its distance leaves a cell's range.
StepEnds(loop, step) ==
    LET distance == Signed(Bits(loop.index - loop.limit))
        moved == distance + Signed(step)
    IN  \/ distance < 0 /\ moved >= 0
        \/ distance >= 0 /\ moved < 0
        \/ moved \notin -Half..Half - 1

Outer == Tail(loops)
Stepped(n) == <<[Head(loops) EXCEPT !.index = Bits(@ + n)]>> \o Outer
Does(k, l) == pos' = From(words, k) /\ loops' = l
Returns == pos' = Len(words) + 1 /\ loops' = <<>>
LoopDoes(ends, n) == IF ends THEN Does(pos + 1, Outer) ELSE Does(Around(pos, {"DO"}) + 1, Stepped(n))
Means(n, bounds) ==
    CASE WordAt(pos) = "IF" -> Does(IF n # 0 THEN pos + 1 ELSE Least(Middle(pos) \cup {EndOf(pos)}) + 1, loops)
      [] WordAt(pos) = "ELSE" -> Does(EndOf(Around(pos, {"IF"})), loops)
      [] WordAt(pos) = "WHILE" -> Does(IF n # 0 THEN pos + 1 ELSE EndOf(Around(pos, {"BEGIN"})) + 1, loops)
      [] WordAt(pos) = "UNTIL" -> Does(IF n # 0 THEN pos + 1 ELSE Around(pos, {"BEGIN"}), loops)
      [] WordAt(pos) = "REPEAT" -> Does(Around(pos, {"BEGIN"}), loops)
      [] WordAt(pos) = "DO" -> Does(pos + 1, <<[limit |-> bounds[1], index |-> bounds[2]]>> \o loops)
      [] WordAt(pos) = "LOOP" -> LoopDoes(Bits(Head(loops).index + 1) = Head(loops).limit, 1)
      [] WordAt(pos) = "+LOOP" -> LoopDoes(StepEnds(Head(loops), n), n)
      [] WordAt(pos) = "LEAVE" -> Does(EndOf(Around(pos, {"DO"})) + 1, Outer)
      [] WordAt(pos) \in {"EXIT", ";"} -> Returns

Execute == \E n \in Numbers, bounds \in Bounds :
              /\ \/ QBranch(n) \/ Branch \/ DoRT(bounds) \/ LoopRT \/ PlusLoopRT(n) \/ LeaveRT \/ Ret
              /\ Means(n, bounds)
ControlNext == \/ CompileWord
               \/ Called
               \/ Execute /\ UNCHANGED <<textVars, compileVars>>
               \/ PopHL /\ UNCHANGED <<pos, loops, textVars, compileVars>>
ControlSpec == ControlInit /\ [][ControlNext]_controlVars
----------------------------------------------------------------------------
\* The return stack with these loops open, innermost first.
Frames(l) == [k \in 1..2 * Len(l) + 1 |-> IF k > 2 * Len(l) THEN Home
                                          ELSE IF k % 2 = 1 THEN l[(k + 1) \div 2].index ELSE l[k \div 2].limit]

\* LEAVE_DEPTH is above 0 exactly inside a loop and never past the table, and a definition that is closed leaves no address
\* on the compile-time stack and no loop open, also after one that failed (doloop.asm's header, COLON_DROP).
NothingLeftOpen ==
    /\ depth \in 0..Levels /\ (InLoop <=> depth > 0)
    /\ pos > 0 => cstack = left /\ depth = 0
\* A definition's code does what its words mean: it stands at the code of the word to be done, with the frames of the loops
\* that are open above its return address and no other, at EXIT less those already dropped; I and J read the two innermost
\* indexes; it returns where it was called from (control.asm's, doloop.asm's and loopext.asm's headers).
CompiledAsMeant ==
    LET frames == Frames(loops)
        gone == Len(frames) - Len(rstack)
    IN  /\ Running => /\ gone >= 0 /\ rstack = SubSeq(frames, gone + 1, Len(frames))
                      /\ pcRun = words[pos].code + gone /\ (gone > 0 => WordAt(pos) = "EXIT")
                      /\ gone = 0 => /\ loops # <<>> => W_I = loops[1].index
                                     /\ Len(loops) > 1 => W_J = loops[2].index
        /\ Closed => pcRun = Home /\ rstack = <<>>
        /\ NothingLeftOpen
=============================================================================
