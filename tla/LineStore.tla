------------------------------ MODULE LineStore ------------------------------
(***************************************************************************)
(* The line store under everything that writes it or runs text from it: the *)
(* console's append, SAVE-TEXT, LOAD-TEXT and EDIT, with errors, CATCH and   *)
(* BREAK between their steps (core/recall.asm, core/loadtext.asm,           *)
(* core/edit.asm, core/editor.asm, core/throwcatch.asm).                    *)
(*                                                                         *)
(* A cell of memory holds a word of text (its spaces with it) or a line's   *)
(* terminator.  Words are told apart by who wrote them, not by what they    *)
(* do: a word that is run may do whatever a word can do to this state.      *)
(***************************************************************************)
EXTENDS Integers, Sequences, FiniteSets, FiniteSetsExt

CONSTANTS
  EDIT_MAX_LEN,  \* cells of EDIT_BUF (128 bytes in the ROM)
  StoreCells,    \* STORE_LIMIT - STORE_START
  Tapes,         \* the texts a tape may hold
  EditedWord,    \* how a word typed in the view is told apart ("typed": not at all)
  MaxRuns,       \* bound: nested runs and CATCHes, the console's run included
  CatchIn,       \* the sources CATCH is used in: a subset of {"line", "load", "edit"}
  Clobber,       \* what may be overwritten before it is read: "line", "store"
  Shielded       \* points no BREAK is accepted at ({}: the ROM as it is)

CR == "CR"         \* $0D
MARK == "MARK"     \* $8D, a line changed in EDIT's view
Terminators == {CR, MARK}
Written == {"typed", "tape", EditedWord}   \* words by where they come from

ASSUME StoreAssumption ==
  /\ EDIT_MAX_LEN \in Nat \ {0}
  /\ StoreCells \in Nat \ {0}
  /\ MaxRuns \in Nat \ {0}
  /\ Clobber \subseteq {"line", "store"}
  /\ \A t \in Tapes : t \in Seq({"tape", CR, MARK}) /\ Len(t) <= StoreCells + 1

(* Addresses: EDIT_BUF, a cell of something else, the store, and two cells   *)
(* above it: sprite images (SPRITE_SLOT_IMG_BUF is at STORE_LIMIT).         *)
EDIT_BUF == 1
STORE_START == EDIT_MAX_LEN + 2
STORE_LIMIT == STORE_START + StoreCells
Memory == EDIT_BUF .. STORE_LIMIT + 1

VARIABLES
  pc,           \* the program point
  cmd,          \* the command whose line is being trimmed
  mem,          \* the memory
  editLen,      \* EDIT_LEN
  storeEnd,     \* STORE_END
  lastLine,     \* STORE_LAST_LINE
  viewResult,   \* VIEW_RESULT
  lineNo,       \* EDIT_LINE_NO
  runs,         \* the return stack: the sources being read and the CATCHes among them
  srcPtr, srcEnd, \* SRC_PTR and SRC_END
  exrom,        \* does the machine have the Leap-Forth EXROM?
  before        \* history: the store before the console appended its line

vars == <<pc, cmd, mem, editLen, storeEnd, lastLine, viewResult, lineNo, runs,
          srcPtr, srcEnd, exrom, before>>
storeVars == <<mem, editLen, storeEnd, lastLine, before>>
sessionVars == <<viewResult, lineNo>>
srcVars == <<srcPtr, srcEnd>>

Points == {"console", "loop", "word", "trim", "trimmed", "edit", "view",
           "commit", "marked", "back"}
-----------------------------------------------------------------------------
(* Text in memory.                                                          *)
Put(m, a, t) == [b \in DOMAIN m |->
                   IF b \in a .. a + Len(t) - 1 THEN t[b - a + 1] ELSE m[b]]
TextIn(m, a, b) == [i \in 1 .. b - a |-> m[a + i - 1]]
Text == TextIn(mem, STORE_START, storeEnd)
Repeated(w, n) == [i \in 1 .. n |-> w]

(* Lines: where one starts, and the first terminator at or after an address.*)
LineStarts == {a \in STORE_START .. storeEnd - 1 :
                 a = STORE_START \/ mem[a - 1] \in Terminators}
LineEnd(a) == Min({b \in a .. STORE_LIMIT + 1 : mem[b] \in Terminators})
Terminated == storeEnd = STORE_START \/ mem[storeEnd - 1] \in Terminators

(* A source being read and a CATCH: both remember where SRC_PTR and SRC_END *)
(* were.  at and text are history: how far the run has read, and what was   *)
(* in the rest of its source when it began.                                 *)
Source(by, p, e, a, b, m) ==
  [by |-> by, ptr |-> p, end |-> e, at |-> a, text |-> TextIn(m, a, b)]
CatchFrame ==
  [by |-> "catch", ptr |-> srcPtr, end |-> srcEnd, at |-> 0, text |-> << >>]

Catches == {i \in DOMAIN runs : runs[i].by = "catch"}
Reading == Max(DOMAIN runs \ Catches)     \* the run whose words are executed
Top == runs[Len(runs)]
Popped == SubSeq(runs, 1, Len(runs) - 1)

(* The interpreter's next word, which it reads past its delimiter (every    *)
(* terminator but MARK is one).  A source at its end stays there.           *)
WordsLeft == {a \in srcPtr .. srcEnd - 1 : mem[a] # CR}
NextWord ==
  IF WordsLeft = {} THEN srcEnd
  ELSE LET a == Min(WordsLeft)
       IN  IF a + 1 < srcEnd /\ mem[a + 1] = CR THEN a + 2 ELSE a + 1
ReadTo(a) == [runs EXCEPT ![Reading].at = a,
                          ![Reading].text = SubSeq(@, a - srcPtr + 1, Len(@))]

(* EDIT writes EDIT_BUF and the store, LOAD-TEXT the store: has every run    *)
(* read the text it has there, blank lines at its end included?             *)
Unread(r) == r.text # << >>
MayOverwrite(c, rs) ==
  \A i \in DOMAIN rs : Unread(rs[i]) =>
    IF rs[i].by = "line" THEN c = "load" \/ "line" \in Clobber
                         ELSE "store" \in Clobber
-----------------------------------------------------------------------------
\* The prompt, the store empty, a sprite captured.
Init ==
  /\ pc = "console" /\ cmd = "none"
  /\ mem = [a \in Memory |-> IF a = STORE_LIMIT THEN MARK ELSE CR]
  /\ editLen = 0
  /\ storeEnd = STORE_START /\ lastLine = 0
  /\ viewResult = 0 /\ lineNo = 0
  /\ runs = << >>
  /\ srcPtr = EDIT_BUF /\ srcEnd = EDIT_BUF
  /\ exrom \in BOOLEAN
  /\ before = << >>

(* ENTER at the console: the line is appended, unless it is empty or does   *)
(* not fit, and run from EDIT_BUF either way.                               *)
\* (a mutant of Fits) The CR is not counted.
FitsWithoutCR(n) == storeEnd + n <= STORE_LIMIT
Fits(n) == storeEnd + n + 1 <= STORE_LIMIT

EnterLine(n) ==
  LET line == Put(mem, EDIT_BUF, Repeated("typed", n) \o Repeated(CR, EDIT_MAX_LEN - n))
      kept == n > 0 /\ Fits(n)
  IN  /\ pc = "console"
      /\ pc' = "loop"
      /\ editLen' = n
      /\ mem' = IF kept THEN Put(line, storeEnd, Repeated("typed", n) \o <<CR>>)
                        ELSE line
      /\ lastLine' = IF kept THEN storeEnd ELSE 0
      /\ storeEnd' = IF kept THEN storeEnd + n + 1 ELSE storeEnd
      /\ before' = IF kept THEN Text ELSE << >>
      /\ srcPtr' = EDIT_BUF /\ srcEnd' = EDIT_BUF + n
      /\ runs' = <<Source("line", EDIT_BUF, EDIT_BUF, EDIT_BUF, EDIT_BUF + n, line)>>
      /\ UNCHANGED <<cmd, sessionVars, exrom>>

(* The interpreter executes the next word, until its source ends.           *)
ReadWord ==
  /\ pc = "loop"
  /\ WordsLeft # {}
  /\ pc' = "word"
  /\ srcPtr' = NextWord
  /\ runs' = ReadTo(NextWord)
  /\ UNCHANGED <<cmd, storeVars, sessionVars, srcEnd, exrom>>

\* The source that ends was the console's line, a loaded text, or a line EDIT
\* runs.
EndOfSource ==
  /\ pc = "loop"
  /\ WordsLeft = {}
  /\ \/ /\ Top.by = "line"
        /\ pc' = "back" /\ runs' = << >>
        /\ srcPtr' = srcEnd /\ srcEnd' = srcEnd
     \/ /\ Top.by = "load"
        /\ pc' = "word" /\ runs' = Popped
        /\ srcPtr' = Top.ptr /\ srcEnd' = Top.end
     \/ /\ Top.by = "edit"
        /\ pc' = "commit" /\ runs' = runs
        /\ srcPtr' = srcEnd /\ srcEnd' = srcEnd
  /\ UNCHANGED <<cmd, storeVars, sessionVars, exrom>>

(* A word returns, to the interpreter or to the CATCH that runs it.         *)
WordReturns ==
  /\ pc = "word"
  /\ IF Top.by = "catch" THEN pc' = "word" /\ runs' = Popped
                         ELSE pc' = "loop" /\ runs' = runs
  /\ UNCHANGED <<cmd, storeVars, sessionVars, srcVars, exrom>>

Catch ==
  /\ pc = "word"
  /\ runs[Reading].by \in CatchIn
  /\ Len(runs) < MaxRuns
  /\ runs' = Append(runs, CatchFrame)
  /\ UNCHANGED <<pc, cmd, storeVars, sessionVars, srcVars, exrom>>

(* An error the user sees unwinds every run.  A THROW goes to the innermost *)
(* CATCH: SRC_PTR and SRC_END are put back, unless SRC_END has not moved.   *)
Reported == pc' = "back" /\ runs' = << >> /\ UNCHANGED srcVars

Thrown ==
  IF Catches = {} THEN Reported
  ELSE LET c == Max(Catches)
       IN  /\ pc' = "word"
           /\ runs' = SubSeq(runs, 1, c - 1)
           /\ IF runs[c].end = srcEnd THEN UNCHANGED srcVars
              ELSE srcPtr' = runs[c].ptr /\ srcEnd' = runs[c].end

\* An unknown word, ABORT, QUIT or STACK?; a word's THROW.
WordFails ==
  /\ pc = "word"
  /\ Reported \/ Thrown
  /\ UNCHANGED <<cmd, storeVars, sessionVars, exrom>>

Break ==
  /\ pc \in (Points \ {"console", "view", "back"}) \ Shielded
  /\ Thrown
  /\ cmd' = "none"
  /\ UNCHANGED <<storeVars, sessionVars, exrom>>

(* CATCH_SRC_HERE: the CATCHes taken in the source that is about to be left *)
(* go on after what was read.                                               *)
\* (a mutant of SourceNoted) The CATCHes go back to where they were taken.
SourceNotNoted == runs
SourceNoted == [i \in DOMAIN runs |->
                  IF runs[i].by = "catch" /\ runs[i].end = srcEnd
                    THEN [runs[i] EXCEPT !.ptr = srcPtr] ELSE runs[i]]
-----------------------------------------------------------------------------
(* SAVE-TEXT, VERIFY-TEXT, LOAD-TEXT and EDIT read a name, if the source    *)
(* has one, and take the console's line off the store, once.  The two       *)
(* stores of STORE_TRIM are two steps.                                      *)
Trim(c) ==
  /\ pc = "word"
  /\ cmd' = c
  /\ c = "bare" => WordsLeft = {}
  /\ c = "edit" => WordsLeft # {}
  /\ c # "save" => Len(runs) < MaxRuns
  /\ srcPtr' = NextWord
  /\ runs' = ReadTo(NextWord)
  /\ c # "save" => MayOverwrite(c, runs')
  /\ IF lastLine = 0 THEN pc' = "trimmed" /\ storeEnd' = storeEnd
                     ELSE pc' = "trim" /\ storeEnd' = lastLine
  /\ UNCHANGED <<mem, editLen, lastLine, before, sessionVars, srcEnd, exrom>>

\* (a mutant of TrimDone) STORE_LAST_LINE is not retired.
TrimKeepsLine ==
  /\ pc = "trim"
  /\ pc' = "trimmed"
  /\ UNCHANGED <<cmd, storeVars, sessionVars, runs, srcVars, exrom>>
TrimDone ==
  /\ pc = "trim"
  /\ pc' = "trimmed"
  /\ lastLine' = 0
  /\ before' = << >>
  /\ UNCHANGED <<cmd, mem, editLen, storeEnd, sessionVars, runs, srcVars, exrom>>

\* SAVE-TEXT or VERIFY-TEXT is done, or the tape failed.
SaveText ==
  /\ pc = "trimmed" /\ cmd = "save"
  /\ \/ pc' = "word" /\ UNCHANGED <<runs, srcVars>>
     \/ Thrown
  /\ cmd' = "none"
  /\ UNCHANGED <<storeVars, sessionVars, exrom>>

TooLong(t) == Len(t) > StoreCells

(* LOAD-TEXT.  No such text, or one too long, changes nothing; a tape that  *)
(* fails has written part of its text.                                      *)
LoadFails(t) ==
  /\ pc = "trimmed" /\ cmd = "load"
  /\ \E n \in 0 .. IF TooLong(t) THEN 0 ELSE Len(t) :
       mem' = Put(mem, STORE_START, SubSeq(t, 1, n))
  /\ Thrown
  /\ cmd' = "none"
  /\ UNCHANGED <<editLen, storeEnd, lastLine, before, sessionVars, exrom>>

\* The text a load leaves: with a CR at its end, if there is room for one.
Ended(t) == IF t = << >> \/ t[Len(t)] = CR \/ Len(t) = StoreCells
            THEN t ELSE t \o <<CR>>

LoadText(t) ==
  LET loaded == Put(mem, STORE_START, Ended(t))
      end == STORE_START + Len(t)
  IN  /\ pc = "trimmed" /\ cmd = "load"
      /\ ~TooLong(t)
      /\ mem' = loaded
      /\ storeEnd' = STORE_START + Len(Ended(t))
      /\ runs' = Append(SourceNoted, Source("load", srcPtr, srcEnd, STORE_START, end, loaded))
      /\ srcPtr' = STORE_START /\ srcEnd' = end
      /\ pc' = "loop" /\ cmd' = "none"
      /\ UNCHANGED <<editLen, lastLine, before, sessionVars, exrom>>
-----------------------------------------------------------------------------
(* EDIT: VIEW_RESULT is cleared before BREAK is deferred.                   *)
Edit ==
  /\ pc = "trimmed" /\ cmd \in {"edit", "bare"}
  /\ viewResult' = 0
  /\ pc' = "edit"
  /\ UNCHANGED <<cmd, storeVars, lineNo, runs, srcVars, exrom>>

\* No EXROM; a line too long for the view; no such name (an unknown word).
NoExrom ==
  /\ pc = "edit" /\ ~exrom
  /\ pc' = "word" /\ cmd' = "none"
  /\ UNCHANGED <<storeVars, sessionVars, runs, srcVars, exrom>>

Viewable == Terminated /\ \A a \in LineStarts : LineEnd(a) - a <= EDIT_MAX_LEN

\* (A line of several words may also wrap to a fifth row.)
ViewRefuses ==
  /\ pc = "edit" /\ exrom
  /\ \/ ~Viewable
     \/ \E a \in LineStarts : LineEnd(a) > a + 1
     \/ cmd = "bare" /\ storeEnd = STORE_LIMIT
  /\ viewResult' = 2
  /\ pc' = "word" /\ cmd' = "none"
  /\ UNCHANGED <<storeVars, lineNo, runs, srcVars, exrom>>

NotFound ==
  /\ pc = "edit" /\ exrom /\ Viewable /\ cmd = "edit"
  /\ viewResult' = 1
  /\ Reported /\ cmd' = "none"
  /\ UNCHANGED <<storeVars, lineNo, exrom>>

(* The session: lines are replaced, inserted and deleted, and the changed   *)
(* ones marked.  BREAK is the view's key.                                   *)
Spliced(a, b, t) ==
  LET text == SubSeq(Text, 1, a - STORE_START) \o t
                \o SubSeq(Text, b - STORE_START + 1, Len(Text))
  IN  /\ STORE_START + Len(text) <= STORE_LIMIT
      /\ mem' = Put(mem, STORE_START, text)
      /\ storeEnd' = STORE_START + Len(text)
      /\ UNCHANGED <<editLen, lastLine, before>>

\* On the line that defines a name, or on a new line at the end.
ViewOpens ==
  /\ pc = "edit" /\ exrom /\ Viewable
  /\ IF cmd = "edit" THEN storeEnd # STORE_START /\ UNCHANGED storeVars
                     ELSE Spliced(storeEnd, storeEnd, <<MARK>>)
  /\ pc' = "view" /\ cmd' = "none"
  /\ UNCHANGED <<sessionVars, runs, srcVars, exrom>>

ViewReplaces(a, n) ==
  /\ pc = "view"
  /\ Spliced(a, LineEnd(a) + 1, Repeated(EditedWord, n) \o <<MARK>>)
  /\ UNCHANGED <<pc, cmd, sessionVars, runs, srcVars, exrom>>

ViewInserts(a) ==
  /\ pc = "view"
  /\ Spliced(a, a, <<MARK>>)
  /\ UNCHANGED <<pc, cmd, sessionVars, runs, srcVars, exrom>>

\* The only line is emptied instead.
ViewDeletes(a) ==
  /\ pc = "view"
  /\ Spliced(a, LineEnd(a) + 1,
             IF Cardinality(LineStarts) = 1 THEN <<MARK>> ELSE << >>)
  /\ UNCHANGED <<pc, cmd, sessionVars, runs, srcVars, exrom>>

\* EDIT_BUF is left with the line the cursor was on.
ViewLeaves(a) ==
  /\ pc = "view"
  /\ mem' = Put(mem, EDIT_BUF, TextIn(mem, a, LineEnd(a)))
  /\ editLen' = LineEnd(a) - a
  /\ viewResult' = 3
  /\ runs' = Append(SourceNoted, Source("edit", srcPtr, srcEnd, a, a, mem))
  /\ pc' = "commit"
  /\ UNCHANGED <<cmd, storeEnd, lastLine, before, lineNo, srcVars, exrom>>

(* EDIT_NEXT_MARK looks at every line that starts below STORE_END, whatever *)
(* its end: the marks it would find, and the line of the first.             *)
LineStart(b) == Max({STORE_START} \cup
                    {c + 1 : c \in {c \in STORE_START .. b - 1 : mem[c] \in Terminators}})
Marks == {b \in STORE_START .. STORE_LIMIT + 1 :
            mem[b] = MARK /\ LineStart(b) < storeEnd}
Cleared(marks) == [b \in Memory |-> IF b \in marks THEN CR ELSE mem[b]]

\* The commit loop: the first changed line, as a source; its number; it runs.
CommitLine ==
  /\ pc = "commit"
  /\ Marks # {}
  /\ LET b == Min(Marks)
         a == LineStart(b)
     IN  /\ mem' = Cleared({b})
         /\ runs' = [runs EXCEPT ![Len(runs)] =
                       [@ EXCEPT !.at = a, !.text = TextIn(mem, a, b)]]
  /\ pc' = "marked"
  /\ UNCHANGED <<cmd, editLen, storeEnd, lastLine, before, sessionVars, srcVars, exrom>>

CommitRuns ==
  /\ pc = "marked"
  /\ lineNo' = Cardinality({a \in LineStarts : a <= Top.at})
  /\ srcPtr' = Top.at /\ srcEnd' = Top.at + Len(Top.text)
  /\ pc' = "loop"
  /\ UNCHANGED <<cmd, storeVars, viewResult, runs, exrom>>

CommitEnds ==
  /\ pc = "commit"
  /\ Marks = {}
  /\ lineNo' = 0
  /\ srcPtr' = Top.ptr /\ srcEnd' = Top.end
  /\ runs' = Popped
  /\ pc' = "word"
  /\ UNCHANGED <<cmd, storeVars, viewResult, exrom>>

(* Back at the console: the marks an error left are cleared if a view       *)
(* answered, and the edit line is emptied.  (SRC_PTR and SRC_END are not    *)
(* read again before the next line sets them, the rest of EDIT_BUF never.)  *)
\* (a mutant of BackToConsole) Only a session that ran is cleared up after.
BackAfterView ==
  /\ pc = "back"
  /\ IF viewResult = 3
       THEN mem' = Cleared(Marks) /\ viewResult' = 0 /\ lineNo' = 0
       ELSE mem' = mem /\ viewResult' = 0 /\ lineNo' = lineNo
  /\ editLen' = 0
  /\ srcPtr' = EDIT_BUF /\ srcEnd' = EDIT_BUF
  /\ pc' = "console" /\ cmd' = "none"
  /\ UNCHANGED <<storeEnd, lastLine, before, runs, exrom>>
BackToConsole ==
  /\ pc = "back"
  /\ IF viewResult # 0
       THEN mem' = Cleared(Marks) /\ viewResult' = 0 /\ lineNo' = 0
       ELSE UNCHANGED <<mem, sessionVars>>
  /\ editLen' = 0
  /\ srcPtr' = EDIT_BUF /\ srcEnd' = EDIT_BUF
  /\ pc' = "console" /\ cmd' = "none"
  /\ UNCHANGED <<storeEnd, lastLine, before, runs, exrom>>
-----------------------------------------------------------------------------
Next ==
  \/ \E n \in 0 .. EDIT_MAX_LEN : EnterLine(n)
  \/ ReadWord \/ EndOfSource \/ WordReturns \/ Catch \/ WordFails \/ Break
  \/ \E c \in {"save", "load", "edit", "bare"} : Trim(c)
  \/ TrimDone \/ SaveText
  \/ \E t \in Tapes : LoadFails(t) \/ LoadText(t)
  \/ Edit \/ NoExrom \/ ViewRefuses \/ NotFound \/ ViewOpens
  \/ \E a \in LineStarts : \/ \E n \in 0 .. EDIT_MAX_LEN : ViewReplaces(a, n)
                           \/ ViewInserts(a) \/ ViewDeletes(a) \/ ViewLeaves(a)
  \/ CommitLine \/ CommitRuns \/ CommitEnds
  \/ BackToConsole

Spec == Init /\ [][Next]_vars
-----------------------------------------------------------------------------
(* Properties.                                                              *)

\* "The command line is not source": whatever the line did before, a trim
\* takes off the store the line the console appended, all of it and nothing
\* else (STORE_TRIM, core/recall.asm:66).
TrimTakesOwnLine == [][pc' = "trim" /\ pc # "trim" => Text' = before]_vars

\* At the prompt no line is marked as changed, no session is reported and no
\* line of one is running, whatever ended the last line (EDIT_CLEAR_MARKS,
\* core/edit.asm:135).
SessionClosed ==
  pc = "console" => /\ \A a \in STORE_START .. storeEnd - 1 : mem[a] # MARK
                    /\ viewResult = 0 /\ lineNo = 0

\* The words the interpreter reads are those of the source it was given, from
\* where that source was read to, across nested runs, EDIT's changes to the
\* store and THROWs caught (core/throwcatch.asm:160, core/loadtext.asm:114,
\* core/edit.asm:57).
SourceIntact ==
  pc \in {"loop", "word"} =>
    LET r == runs[Reading]
    IN  /\ srcPtr = r.at
        /\ srcEnd = r.at + Len(r.text)
        /\ \A i \in DOMAIN r.text : mem[r.at + i - 1] = r.text[i]

\* "The store never writes at or above" STORE_LIMIT (include/forth_layout.inc:56):
\* the sprite images there are never changed.
AboveKept == [][\A a \in STORE_LIMIT .. STORE_LIMIT + 1 : mem'[a] = mem[a]]_vars
=============================================================================
