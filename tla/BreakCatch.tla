----------------------------- MODULE BreakCatch -----------------------------
(***************************************************************************)
(* CATCH, THROW, the nested interpreters (EDIT, LOAD-TEXT) and the sections *)
(* that defer BREAK, with the interrupt routine throwing -28 between any    *)
(* two of their steps (core/throwcatch.asm, core/interp.asm, core/edit.asm, *)
(* core/loadtext.asm, core/rectfill.asm, core/editor.asm).                  *)
(*                                                                         *)
(* The machine stack is the return stack.  Here it is a memory of cells     *)
(* with an index sp that grows upwards (a push in the code lowers SP by 2). *)
(* Popping a cell leaves it in memory: an interrupt is what overwrites it.  *)
(* A program point (pc) is a place where an interrupt finds the shared      *)
(* cells in a state of their own; the instructions between two points make  *)
(* one action.                                                              *)
(***************************************************************************)
EXTENDS Naturals, FiniteSets

CONSTANTS
  CATCH_MAX_DEPTH, \* frames of CATCH_STACK (8 in the ROM)
  GuardCell,       \* MACHINE_STACK_GUARD, in cells from the console's SP
  StackCells,      \* the machine stack's region, in cells
  MaxNest,         \* bound: nested LOAD-TEXT / EDIT runs
  TextLen,         \* bound: words in one source text
  MaxData,         \* bound: data stack cells a word leaves (CATCH's results go above)
  MaxBreaks,       \* bound: BREAKs accepted in one behaviour
  Shielded         \* points no BREAK is accepted at ({}: the ROM as it is)

ASSUME SizesAssumption ==
  /\ CATCH_MAX_DEPTH \in Nat \ {0}
  /\ GuardCell \in Nat
  /\ StackCells \in Nat
  /\ MaxNest \in Nat
  /\ TextLen \in Nat \ {0}
  /\ MaxData \in Nat \ {0}
  /\ MaxBreaks \in Nat

(* The room below the guard line ("for the ROM's own calls and the          *)
(* interrupt", STK_GUARD): CATCH's three cells, four for each nested run,   *)
(* two for each interrupt that does not return.                             *)
ASSUME RoomAssumption ==
  StackCells >= GuardCell + 2 + 4 * MaxNest + 2 * MaxBreaks

VARIABLES
  pc,          \* the program point
  mem, sp,     \* the machine stack: its cells, and how many are in use
  catchDepth,  \* CATCH_DEPTH
  frames,      \* CATCH_STACK: SP and IX of each frame
  tmp,         \* CATCH_TMP_*: the frame THROW is unwinding to
  regN, regPtr,\* THROW's n (in BC) and the frame's SRC_PTR (in DE)
  ds,          \* the data stack's depth (IX)
  srcPtr, srcEnd, \* SRC_PTR and SRC_END
  rootSp,      \* THROW_ROOT_SP
  nobrk, brkPend, \* NOBRK and BRK_PEND
  reached,     \* history: how far each text was read in its current run
  breaks       \* BREAKs accepted so far (bounded by MaxBreaks)

vars == <<pc, mem, sp, catchDepth, frames, tmp, regN, regPtr, ds, srcPtr,
          srcEnd, rootSp, nobrk, brkPend, reached, breaks>>
-----------------------------------------------------------------------------
(* Texts.  Text 0 is the console's line, text l the one a nested run of     *)
(* level l interprets; each has addresses of its own.                       *)
Texts == 0 .. MaxNest
TextStart(l) == l * (TextLen + 1)
TextEnd(l) == TextStart(l) + TextLen
Junk == TextStart(MaxNest + 1)      \* an interrupt's PC or AF read as an address
Addresses == 0 .. Junk

(* THROW codes: BREAK, a full return stack, a tape error, a program's own.  *)
BreakCode == "-28"
FullCode == "-5"
Codes == {BreakCode, FullCode, "-37", "n"}

(* Cells: return addresses by what they return into, the two source cells   *)
(* of CATCH and of a nested run, and what an interrupt pushed.              *)
Kinds == {"root", "loop", "xt", "bare", "call", "nested",
          "ptr", "end", "isr", "free"}
Cell == [kind : Kinds, val : Addresses]
Ret(k) == [kind |-> k, val |-> 0]
Ptr(a) == [kind |-> "ptr", val |-> a]
End(a) == [kind |-> "end", val |-> a]
Isr == [kind |-> "isr", val |-> Junk]

\* A CATCH pushes a result above what its xt left, and there is room for fewer
\* CATCHes than for cells.
DataDepths == 0 .. MaxData + StackCells
Frame == [sp : 0 .. StackCells, ds : DataDepths]
NoFrame == [sp |-> 0, ds |-> 0]

Points == {"console", "run", "back", "loop", "word", "catch", "catchGo",
           "xtDone", "xtPop", "xtPopped", "bareDone", "throw", "unwind",
           "restore", "restorePtr", "report", "section", "sectionEnd",
           "view", "viewEnd", "edit", "nest", "nestPtr", "nestEnd",
           "nestEndPtr", "stop"}

(* Where a RET lands.  The cell an interrupt pushed is only returned into   *)
(* from the point after INTERPRET_RUN, which it then interrupted.           *)
Landing(c) ==
  CASE c.kind = "root"   -> "back"
    [] c.kind = "isr"    -> "back"
    [] c.kind = "loop"   -> "loop"
    [] c.kind = "xt"     -> "xtDone"
    [] c.kind = "bare"   -> "bareDone"
    [] c.kind = "nested" -> "nestEnd"
    [] OTHER             -> "word"

(* The memory with the cell c pushed; with the unused cells forgotten,      *)
(* which every call made by ordinary code overwrites anyway; the frames     *)
(* with slot i forgotten, which CATCH writes before it counts it again.     *)
Pushed(c, m, s) == [m EXCEPT ![s + 1] = c]
Forgotten(m, s) == [i \in DOMAIN m |-> IF i <= s THEN m[i] ELSE Ret("free")]
Released(i) == frames' = [frames EXCEPT ![i] = NoFrame]

Level == LET nested == {i \in 1 .. sp : mem[i].kind = "nested"}
         IN  IF nested = {} THEN 0 ELSE mem[CHOOSE i \in nested :
                                             \A j \in nested : j <= i].val
-----------------------------------------------------------------------------
Init ==
  /\ pc = "console"
  /\ mem = [i \in 1 .. StackCells |-> Ret("free")]
  /\ sp = 0
  /\ catchDepth = 0
  /\ frames = [i \in 1 .. CATCH_MAX_DEPTH |-> NoFrame]
  /\ tmp = NoFrame
  /\ regN = "n" /\ regPtr = 0
  /\ ds = 0
  /\ srcPtr = 0 /\ srcEnd = 0
  /\ rootSp = 0
  /\ nobrk = 1 /\ brkPend = 0
  /\ reached = [l \in Texts |-> TextStart(l)]
  /\ breaks = 0

srcVars == <<srcPtr, srcEnd, reached>>
catchVars == <<catchDepth, frames>>
throwVars == <<tmp, regN, regPtr>>
brkVars == <<nobrk, brkPend, breaks>>

(* A RET: the innermost cell is popped and control goes where it says.      *)
Return(s, m) == sp' = s - 1 /\ pc' = Landing(m[s])
-----------------------------------------------------------------------------
(* The console and the outer interpreter.                                   *)

\* EDITOR_LOOP_LIVE calls INTERPRET_RUN, which notes its SP and drops a BREAK
\* that was the console's key.
EnterLine ==
  /\ pc = "console"
  /\ mem' = Forgotten(Pushed(Ret("root"), mem, sp), sp + 1)
  /\ sp' = sp + 1
  /\ rootSp' = sp + 1
  /\ brkPend' = 0
  /\ pc' = "run"
  /\ UNCHANGED <<catchVars, throwVars, ds, srcVars, nobrk, breaks>>

\* INTERPRET_RUN releases BREAK and takes the line as its source.
StartRun ==
  /\ pc = "run"
  /\ nobrk' = 0
  /\ srcPtr' = TextStart(0) /\ srcEnd' = TextEnd(0)
  /\ reached' = [l \in Texts |-> TextStart(l)]
  /\ pc' = "loop"
  /\ UNCHANGED <<mem, sp, catchVars, throwVars, ds, rootSp, brkPend, breaks>>

\* W_WORD: one more word of the source.  The end is a comparison for equality
\* (WORD_SKIP): past it a word is read from whatever memory holds.
Past(a) == IF a = Junk THEN 0 ELSE a + 1
ReadWord ==
  /\ srcPtr # srcEnd
  /\ srcPtr' = Past(srcPtr)
  /\ reached' = [reached EXCEPT ![Level] = Past(srcPtr)]
  /\ UNCHANGED srcEnd

\* The interpreter executes a word: its RET comes back to .loop.
InterpretWord ==
  /\ pc = "loop"
  /\ ReadWord
  /\ mem' = Forgotten(Pushed(Ret("loop"), mem, sp), sp + 1)
  /\ sp' = sp + 1
  /\ pc' = "word"
  /\ UNCHANGED <<catchVars, throwVars, ds, rootSp, brkVars>>

\* An unknown word, or a stack out of range: both stacks are emptied and the
\* error is reported.  CATCH does not see it.
InterpretError ==
  /\ pc = "loop"
  /\ ReadWord
  /\ ds' = 0
  /\ pc' = "report"
  /\ UNCHANGED <<mem, sp, catchVars, throwVars, rootSp, brkVars>>

\* The source is exhausted: INTERPRET_RUN / INTERPRET_NESTED returns.
EndOfSource ==
  /\ pc = "loop"
  /\ srcPtr = srcEnd
  /\ Return(sp, mem)
  /\ UNCHANGED <<mem, catchVars, throwVars, ds, srcVars, rootSp, brkVars>>

\* Mutant: the frames' count survives the reload of SP.
ReportKeepsDepth ==
  /\ pc = "report"
  /\ Return(rootSp, mem)
  /\ mem' = Forgotten(mem, rootSp)
  /\ UNCHANGED <<catchVars, throwVars, ds, srcVars, rootSp, brkVars>>

\* REPORT_INTERP_ERROR: the message is out; every frame goes with the stack.
Report ==
  /\ pc = "report"
  /\ catchDepth' = 0
  /\ frames' = [i \in DOMAIN frames |-> NoFrame]
  /\ Return(rootSp, mem)
  /\ mem' = Forgotten(mem, rootSp)
  /\ UNCHANGED <<throwVars, ds, srcVars, rootSp, brkVars>>

\* EDITOR_LOOP_LIVE after INTERPRET_RUN: BREAK is a key again.
BackToConsole ==
  /\ pc = "back"
  /\ nobrk' = 1
  /\ pc' = "console"
  /\ UNCHANGED <<mem, sp, catchVars, throwVars, ds, srcVars, rootSp, brkPend,
                 breaks>>
-----------------------------------------------------------------------------
(* What a running word does.                                                *)

WordWork == \* the data stack changes
  /\ pc = "word"
  /\ \/ ds < MaxData /\ ds' = ds + 1
     \/ ds > 0 /\ ds' = ds - 1
  /\ UNCHANGED <<pc, mem, sp, catchVars, throwVars, srcVars, rootSp, brkVars>>

WordParses == \* ' CHAR CREATE ...: the word reads a word of the source
  /\ pc = "word"
  /\ ReadWord
  /\ UNCHANGED <<pc, mem, sp, catchVars, throwVars, ds, rootSp, brkVars>>

WordReturns ==
  /\ pc = "word"
  /\ Return(sp, mem)
  /\ mem' = Forgotten(mem, sp - 1)
  /\ UNCHANGED <<catchVars, throwVars, ds, srcVars, rootSp, brkVars>>

\* ABORT, QUIT (the stacks kept), a compile-only word at the prompt: reported
\* like an interpreter's error, past every CATCH.
WordAborts ==
  /\ pc = "word"
  /\ ds' \in {0, ds}
  /\ pc' = "report"
  /\ UNCHANGED <<mem, sp, catchVars, throwVars, srcVars, rootSp, brkVars>>

\* Mutant: the guard line one cell too low.
StackGuardLow == sp <= GuardCell

\* STK_GUARD, called by a definition's call to itself, EXECUTE and CATCH.
StackGuardPasses == sp + 1 <= GuardCell
StackGuardThrows ==
  /\ ~ StackGuardPasses
  /\ regN' = FullCode
  /\ pc' = "throw"
  /\ UNCHANGED <<mem, sp, catchVars, tmp, regPtr, ds, srcVars, rootSp, brkVars>>

\* A definition calls itself (COMPILE_CALL_GUARDED put the guard before it).
Recurse ==
  /\ pc = "word"
  /\ \/ StackGuardThrows
     \/ /\ StackGuardPasses
        /\ mem' = Forgotten(Pushed(Ret("call"), mem, sp), sp + 1)
        /\ sp' = sp + 1
        /\ UNCHANGED <<pc, catchVars, throwVars, ds, srcVars, rootSp, brkVars>>

WordThrows ==
  /\ pc = "word"
  /\ regN' = "n"
  /\ pc' = "throw"
  /\ UNCHANGED <<mem, sp, catchVars, tmp, regPtr, ds, srcVars, rootSp, brkVars>>
-----------------------------------------------------------------------------
(* CATCH.                                                                   *)

\* W_CATCH: the guard, then the two source cells -- or, with CATCH_STACK full,
\* xt unguarded.
Catch ==
  /\ pc = "word"
  /\ ds < MaxData
  /\ \/ StackGuardThrows
     \/ /\ StackGuardPasses
        /\ catchDepth < CATCH_MAX_DEPTH
        /\ mem' = Pushed(Ptr(srcPtr), Pushed(End(srcEnd), mem, sp), sp + 1)
        /\ sp' = sp + 2
        /\ pc' = "catch"
        /\ UNCHANGED <<catchVars, throwVars, ds, srcVars, rootSp, brkVars>>
     \/ /\ StackGuardPasses
        /\ catchDepth = CATCH_MAX_DEPTH
        /\ mem' = Pushed(Ret("bare"), mem, sp)
        /\ sp' = sp + 1
        /\ UNCHANGED <<pc, catchVars, throwVars, ds, srcVars, rootSp, brkVars>>

\* The frame is copied into its slot and counted.
CatchFrame ==
  /\ pc = "catch"
  /\ frames' = [frames EXCEPT ![catchDepth + 1] = [sp |-> sp, ds |-> ds]]
  /\ catchDepth' = catchDepth + 1
  /\ pc' = "catchGo"
  /\ UNCHANGED <<mem, sp, throwVars, ds, srcVars, rootSp, brkVars>>

CatchRunsXt ==
  /\ pc = "catchGo"
  /\ mem' = Pushed(Ret("xt"), mem, sp)
  /\ sp' = sp + 1
  /\ pc' = "word"
  /\ UNCHANGED <<catchVars, throwVars, ds, srcVars, rootSp, brkVars>>

\* xt returned: the two source cells are popped ...
CatchPops ==
  /\ pc \in {"xtDone", "xtPop"}
  /\ sp' = sp - 1
  /\ pc' = IF pc = "xtDone" THEN "xtPop" ELSE "xtPopped"
  /\ UNCHANGED <<mem, catchVars, throwVars, ds, srcVars, rootSp, brkVars>>

\* ... then the frame is uncounted, 0 pushed, and CATCH returns.
CatchReturns ==
  /\ pc = "xtPopped"
  /\ catchDepth' = catchDepth - 1
  /\ Released(catchDepth)
  /\ ds' = ds + 1
  /\ mem' = Forgotten(mem, sp)
  /\ Return(sp, mem)
  /\ UNCHANGED <<throwVars, srcVars, rootSp, brkVars>>

BareCatchReturns == \* .no_room: no frame
  /\ pc = "bareDone"
  /\ ds' = ds + 1
  /\ mem' = Forgotten(mem, sp)
  /\ Return(sp, mem)
  /\ UNCHANGED <<catchVars, throwVars, srcVars, rootSp, brkVars>>
-----------------------------------------------------------------------------
(* THROW (W_THROW_HL).                                                      *)

\* The scratch THROW is done with is forgotten: nothing reads it again.
ScratchDone == tmp' = NoFrame /\ regN' = "n" /\ regPtr' = 0

Uncaught ==
  /\ pc = "throw"
  /\ catchDepth = 0
  /\ ds' = 0
  /\ sp' = rootSp
  /\ pc' = "report"
  /\ ScratchDone
  /\ UNCHANGED <<mem, catchVars, srcVars, rootSp, brkVars>>

\* The frame leaves CATCH_STACK before anything else is done with it.
TakeFrame ==
  /\ pc = "throw"
  /\ catchDepth > 0
  /\ catchDepth' = catchDepth - 1
  /\ tmp' = frames[catchDepth]
  /\ Released(catchDepth)
  /\ pc' = "unwind"
  /\ UNCHANGED <<mem, sp, regN, regPtr, ds, srcVars, rootSp, brkVars>>

\* Mutant: SP is restored and IX is not.
UnwindKeepsData ==
  /\ pc = "unwind"
  /\ sp' = tmp.sp
  /\ pc' = "restore"
  /\ UNCHANGED <<mem, catchVars, throwVars, ds, srcVars, rootSp, brkVars>>

Unwind ==
  /\ pc = "unwind"
  /\ sp' = tmp.sp /\ ds' = tmp.ds
  /\ pc' = "restore"
  /\ UNCHANGED <<mem, catchVars, throwVars, srcVars, rootSp, brkVars>>

\* THROW's last steps: n onto the restored stack, RET to CATCH's caller.
Caught(s) ==
  /\ ds' = ds + 1
  /\ mem' = Forgotten(mem, s)
  /\ Return(s, mem)
  /\ ScratchDone

\* In the frame's own source interpretation goes on; else SRC_END goes back
\* first ...
RestoreSource ==
  /\ pc = "restore"
  /\ \/ /\ mem[sp - 1].val = srcEnd
        /\ Caught(sp - 2)
        /\ UNCHANGED srcVars
     \/ /\ mem[sp - 1].val # srcEnd
        /\ srcEnd' = mem[sp - 1].val
        /\ regPtr' = mem[sp].val
        /\ sp' = sp - 2
        /\ pc' = "restorePtr"
        /\ UNCHANGED <<mem, ds, tmp, regN, srcPtr, reached>>
  /\ UNCHANGED <<catchVars, rootSp, brkVars>>

\* ... and SRC_PTR after it.
RestorePtr ==
  /\ pc = "restorePtr"
  /\ srcPtr' = regPtr
  /\ Caught(sp)
  /\ UNCHANGED <<catchVars, srcEnd, reached, rootSp, brkVars>>
-----------------------------------------------------------------------------
(* Nested runs.                                                             *)

\* Mutant: the frames keep the position CATCH was called at.
SourceNotNoted(m, p) == m

\* CATCH_SRC_HERE: the frames taken in this source note how far it was read.
SourceNoted(m, p) ==
  LET here == {frames[i].sp : i \in 1 .. catchDepth}
  IN  [i \in DOMAIN m |->
         IF i \in here /\ m[i - 1].val = srcEnd THEN Ptr(p) ELSE m[i]]

SourceKept(p) == Pushed(Ptr(p), Pushed(End(srcEnd), SourceNoted(mem, p), sp), sp + 1)
NestedCall(l) == [kind |-> "nested", val |-> l]

\* LOAD-TEXT: its name and the tape.  A load that fails throws -37, SPACE on
\* the tape stops as BREAK does; one that succeeds has interrupts off until
\* INTERPRET_NESTED is about to start.
LoadText ==
  /\ pc = "word"
  /\ ReadWord
  /\ \/ /\ Level < MaxNest
        /\ mem' = Pushed(NestedCall(Level + 1), SourceKept(Past(srcPtr)), sp + 2)
        /\ sp' = sp + 3
        /\ pc' = "nest"
        /\ UNCHANGED regN
     \/ /\ pc' = "throw" /\ regN' = "-37"
        /\ UNCHANGED <<mem, sp>>
     \/ /\ pc' = "stop"
        /\ UNCHANGED <<mem, sp, regN>>
  /\ UNCHANGED <<catchVars, tmp, regPtr, ds, rootSp, brkVars>>

\* EDIT: the view runs with BREAK deferred ...
EditView ==
  /\ pc = "word"
  /\ ReadWord
  /\ nobrk' = nobrk + 1
  /\ pc' = "view"
  /\ UNCHANGED <<mem, sp, catchVars, throwVars, ds, rootSp, brkPend, breaks>>

\* ... its BREAK, the view's key, is dropped ...
EditViewLeft ==
  /\ pc = "view"
  /\ brkPend' = 0
  /\ pc' = "viewEnd"
  /\ UNCHANGED <<mem, sp, catchVars, throwVars, ds, srcVars, rootSp, nobrk,
                 breaks>>

\* Mutant: an early return that leaves NOBRK raised.
EditSectionEndsEarly ==
  /\ pc = "viewEnd"
  /\ pc' = "word"
  /\ UNCHANGED <<mem, sp, catchVars, throwVars, ds, srcVars, rootSp, nobrk,
                 brkPend, breaks>>

\* ... and the section ends: no view or one that refused, a name it did not
\* find (reported as an unknown word), or a session.
EditSectionEnds ==
  /\ pc = "viewEnd"
  /\ nobrk' = nobrk - 1
  /\ \/ pc' = "word" /\ UNCHANGED ds
     \/ pc' = "report" /\ ds' = 0
     \/ Level < MaxNest /\ pc' = "edit" /\ UNCHANGED ds
  /\ UNCHANGED <<mem, sp, catchVars, throwVars, srcVars, rootSp, brkPend,
                 breaks>>

\* EDIT's commit loop begins: the frames note the position, the source is kept
\* on the stack, and the first changed line is run.
EditCommit ==
  /\ pc = "edit"
  /\ mem' = Pushed(NestedCall(Level + 1), SourceKept(srcPtr), sp + 2)
  /\ sp' = sp + 3
  /\ pc' = "nest"
  /\ UNCHANGED <<catchVars, throwVars, ds, srcVars, rootSp, brkVars>>

\* INTERPRET_NESTED: SRC_PTR ...
NestPtr ==
  /\ pc = "nest"
  /\ srcPtr' = TextStart(Level)
  /\ reached' = [reached EXCEPT ![Level] = TextStart(Level)]
  /\ pc' = "nestPtr"
  /\ UNCHANGED <<mem, sp, catchVars, throwVars, ds, srcEnd, rootSp, brkVars>>

\* ... then SRC_END.
NestEnd ==
  /\ pc = "nestPtr"
  /\ srcEnd' = TextEnd(Level)
  /\ pc' = "loop"
  /\ UNCHANGED <<mem, sp, catchVars, throwVars, ds, srcPtr, reached, rootSp,
                 brkVars>>

\* The nested run returned: EDIT runs the next changed line ...
EditNextLine ==
  /\ pc = "nestEnd"
  /\ mem' = Forgotten(Pushed(NestedCall(Level + 1), mem, sp), sp + 1)
  /\ sp' = sp + 1
  /\ pc' = "nest"
  /\ UNCHANGED <<catchVars, throwVars, ds, srcVars, rootSp, brkVars>>

\* ... or the outer source goes back, SRC_PTR first ...
NestedReturns ==
  /\ pc = "nestEnd"
  /\ srcPtr' = mem[sp].val
  /\ sp' = sp - 1
  /\ pc' = "nestEndPtr"
  /\ UNCHANGED <<mem, catchVars, throwVars, ds, srcEnd, reached, rootSp, brkVars>>

\* ... SRC_END after it.
NestedReturned ==
  /\ pc = "nestEndPtr"
  /\ srcEnd' = mem[sp].val
  /\ sp' = sp - 1
  /\ mem' = Forgotten(mem, sp - 1)
  /\ pc' = "word"
  /\ UNCHANGED <<catchVars, throwVars, ds, srcPtr, reached, rootSp, brkVars>>
-----------------------------------------------------------------------------
(* Sections that defer BREAK, and BREAK.                                    *)

\* EXROM_CALL_NOBRK (the SPRITE-* words), GFX_SET_MODE (HIRES, NORMAL).
SectionStarts ==
  /\ pc = "word"
  /\ nobrk' = nobrk + 1
  /\ pc' = "section"
  /\ UNCHANGED <<mem, sp, catchVars, throwVars, ds, srcVars, rootSp, brkPend,
                 breaks>>

SectionReleases == \* BRK_SECTION_END: NOBRK - 1 ...
  /\ pc = "section"
  /\ nobrk' = nobrk - 1
  /\ pc' = "sectionEnd"
  /\ UNCHANGED <<mem, sp, catchVars, throwVars, ds, srcVars, rootSp, brkPend,
                 breaks>>

\* Mutant: the section's end does not look at BRK_PEND.
SectionForgets ==
  /\ pc = "sectionEnd"
  /\ pc' = "word"
  /\ UNCHANGED <<mem, sp, catchVars, throwVars, ds, srcVars, rootSp, brkVars>>

SectionStops == \* ... and a BREAK pressed during the section stops now
  /\ pc = "sectionEnd"
  /\ pc' = IF nobrk = 0 /\ brkPend # 0 THEN "stop" ELSE "word"
  /\ UNCHANGED <<mem, sp, catchVars, throwVars, ds, srcVars, rootSp, brkVars>>

\* Mutant: the stop leaves BRK_PEND set.
BreakStopKeepsPend ==
  /\ pc = "stop"
  /\ regN' = BreakCode
  /\ pc' = "throw"
  /\ UNCHANGED <<mem, sp, catchVars, tmp, regPtr, ds, srcVars, rootSp, brkVars>>

\* BRK_STOP: the EXROM paged out, the AY silent, the latch used up; -28 THROW.
BreakStop ==
  /\ pc = "stop"
  /\ brkPend' = 0
  /\ regN' = BreakCode
  /\ pc' = "throw"
  /\ UNCHANGED <<mem, sp, catchVars, tmp, regPtr, ds, srcVars, rootSp, nobrk,
                 breaks>>

\* BRK_ACCEPTED: the interrupt routine accepted BREAK.  Its frame overwrites
\* the unused cells above sp; in a section BREAK is noted, otherwise the
\* interrupt never returns.
Break ==
  /\ pc \notin Shielded
  /\ breaks < MaxBreaks
  /\ breaks' = breaks + 1
  /\ mem' = Pushed(Isr, Pushed(Isr, mem, sp), sp + 1)
  /\ brkPend' = 1
  /\ IF nobrk > 0 THEN UNCHANGED <<pc, sp>> ELSE pc' = "stop" /\ sp' = sp + 2
  /\ UNCHANGED <<catchVars, throwVars, ds, srcVars, rootSp, nobrk>>
-----------------------------------------------------------------------------
Console == EnterLine \/ StartRun \/ Report \/ BackToConsole
Interpreter == InterpretWord \/ InterpretError \/ EndOfSource
Word == \/ WordWork \/ WordParses \/ WordReturns \/ Recurse
        \/ WordThrows \/ WordAborts
CatchSteps == \/ Catch \/ CatchFrame \/ CatchRunsXt \/ CatchPops
              \/ CatchReturns \/ BareCatchReturns
Throw == Uncaught \/ TakeFrame \/ Unwind \/ RestoreSource \/ RestorePtr
Nested == \/ LoadText \/ EditView \/ EditViewLeft \/ EditSectionEnds
          \/ EditCommit \/ NestPtr \/ NestEnd \/ EditNextLine
          \/ NestedReturns \/ NestedReturned
Section == SectionStarts \/ SectionReleases \/ SectionStops \/ BreakStop

Cpu == Console \/ Interpreter \/ Word \/ CatchSteps \/ Throw \/ Nested \/ Section
Next == Cpu \/ Break

Spec == Init /\ [][Next]_vars
\* The processor never stops executing instructions.
FairSpec == Spec /\ WF_vars(Cpu)
-----------------------------------------------------------------------------
(* Every variable keeps its range: in particular THROW never takes a frame  *)
(* from below CATCH_STACK, and NOBRK is never decremented at 0.             *)
TypeOK ==
  /\ pc \in Points
  /\ mem \in [1 .. StackCells -> Cell]
  /\ sp \in Nat
  /\ catchDepth \in 0 .. CATCH_MAX_DEPTH
  /\ frames \in [1 .. CATCH_MAX_DEPTH -> Frame]
  /\ tmp \in Frame /\ regN \in Codes /\ regPtr \in Addresses
  /\ ds \in DataDepths
  /\ srcPtr \in Addresses /\ srcEnd \in Addresses
  /\ rootSp \in Nat
  /\ nobrk \in 0 .. 1 /\ brkPend \in 0 .. 1
  /\ reached \in [Texts -> Addresses]
  /\ breaks \in 0 .. MaxBreaks

(* While words run, the input source is the text of the innermost nested    *)
(* run still on the machine stack, read on from where that text was last    *)
(* read: THROW puts a moved source back, past whatever xt read              *)
(* (W_THROW_HL's SRC_END comparison, CATCH_SRC_HERE), and no BREAK between  *)
(* two of their steps mixes two sources.                                    *)
SourceIsThisRuns ==
  pc \in {"loop", "word"} => /\ srcEnd = TextEnd(Level)
                             /\ srcPtr = reached[Level]

(* CATCH_DEPTH counts exactly the CATCHes whose xt is still running: the    *)
(* "stale count [that] would let the next THROW catch in a dead frame"      *)
(* (REPORT_INTERP_ERROR) never arises, whatever errors, BREAKs and THROWs   *)
(* cut the nested runs short.                                               *)
CatchDepthIsActive ==
  pc \in {"loop", "word", "console"} =>
    catchDepth = Cardinality({i \in 1 .. sp : mem[i].kind = "xt"})

(* The room below STK_GUARD's line is enough for everything a word can push *)
(* after the guard passed: CATCH's cells, the nested runs and an interrupt. *)
NoOverrun == sp <= StackCells

(* A BREAK is pending only while a section defers it (NOBRK > 0) or the     *)
(* very next thing is the stop: BRK_PEND never survives into code that      *)
(* neither stops on it nor drops it.                                        *)
PendingOnlyInSection ==
  brkPend # 0 /\ nobrk = 0 => pc \in {"sectionEnd", "stop"}

(* A BREAK pressed while a section defers it stops the word when the        *)
(* section ends (BRK_SECTION_END).                                          *)
DeferredBreakStops ==
  (pc = "section" /\ brkPend # 0) ~> (pc = "throw" /\ regN = BreakCode)

(* CATCH, THROW and BREAK on the machine stack do what CatchSpec promises.  *)
Promise == INSTANCE CatchSpec WITH
  Sources <- Addresses,
  Depths <- DataDepths,
  acts <- [i \in 1 .. catchDepth |->
             [src |-> mem[frames[i].sp - 1].val, depth |-> frames[i].ds]],
  mode <- CASE pc \in {"console", "run", "back"} -> [k |-> "idle"]
            [] pc \in {"stop", "throw"} -> [k |-> "raise"]
            [] pc = "report" -> [k |-> "report"]
            [] pc \in {"unwind", "restore", "restorePtr"} ->
                 [k |-> "throw", to |-> [src |-> mem[tmp.sp - 1].val,
                                         depth |-> tmp.ds]]
            [] OTHER -> [k |-> "run"],
  src <- srcEnd,
  depth <- ds

CatchPromise == Promise!Spec
=============================================================================
