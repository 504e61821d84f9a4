------------------------------ MODULE Keyboard ------------------------------
(***************************************************************************)
(* The keyboard: the frame interrupt's debounce and repeat machine, which   *)
(* latches one key, and the code that waits for the latched key             *)
(* (kernel/interrupt/interrupt.asm, kernel/io/io.asm), with the BREAK that  *)
(* the interrupt accepts (core/throwcatch.asm).                             *)
(*                                                                         *)
(* The matrix is the set of keys down and the state of CAPS SHIFT; SYMBOL   *)
(* SHIFT decodes as CAPS SHIFT does and is left out.  A key code is the key *)
(* and the shift it was decoded with.                                       *)
(***************************************************************************)
EXTENDS Integers, FiniteSets

CONSTANTS
  Keys,               \* the keys other than the shifts
  Space,              \* the one that is BREAK with CAPS SHIFT
  KBD_DEBOUNCE_TICKS, \* 2 in the ROM
  KBD_REPDEL,         \* 35
  KBD_REPPER          \* 5

NoKey == "none"
ASSUME KeyboardAssumption ==
  /\ Space \in Keys /\ NoKey \notin Keys
  /\ KBD_DEBOUNCE_TICKS \in Nat /\ KBD_DEBOUNCE_TICKS >= 2
  /\ KBD_REPDEL \in 1 .. 255 /\ KBD_REPPER \in 1 .. 255

Codes == [key : Keys, caps : BOOLEAN]
NoCode == [key |-> NoKey, caps |-> FALSE]
KEY_BREAK == [key |-> Space, caps |-> TRUE]

VARIABLES
  down, caps,   \* the matrix: keys down, CAPS SHIFT down
  cur,          \* KBD_CUR_ROW / KBD_CUR_BIT: the key tracked, or NoKey
  debounce, repeat, \* KBD_DEBOUNCE, KBD_REPEAT
  lastk, keyhit,    \* KBD_LASTK, KBD_KEYHIT: the latch
  deferred,     \* NOBRK # 0: the console or a section is running
  pend,         \* BRK_PEND: a BREAK was deferred
  reader,       \* IO_READ_KEY: busy (elsewhere), wait, latch, clear
  seen,         \* history: ticks in a row each key was down, up to the debounce
  unread        \* history: the code latched last, NoCode once it was read

keyboardVars == <<down, caps, cur, debounce, repeat, lastk, keyhit, deferred, pend,
                  reader, seen, unread>>
matrix == <<down, caps>>
tracker == <<cur, debounce, repeat>>
latch == <<lastk, keyhit, unread>>
brk == <<deferred, pend>>

KeyboardInit ==
  /\ down = {} /\ caps = FALSE
  /\ cur = NoKey /\ debounce = 0 /\ repeat = 0
  /\ lastk = NoCode /\ keyhit = FALSE
  /\ deferred = TRUE /\ pend = FALSE
  /\ reader = "busy"
  /\ seen = [k \in Keys |-> 0]
  /\ unread = NoCode
-----------------------------------------------------------------------------
(* The keys, at any moment.                                                 *)
PressKey(k) == k \notin down /\ down' = down \cup {k} /\ UNCHANGED caps
ReleaseKey(k) == k \in down /\ down' = down \ {k} /\ UNCHANGED caps
ShiftKey == caps' = ~ caps /\ UNCHANGED down

Fingers ==
  /\ ShiftKey \/ \E k \in Keys : PressKey(k) \/ ReleaseKey(k)
  /\ UNCHANGED <<tracker, latch, brk, reader, seen>>
-----------------------------------------------------------------------------
(* KBD_ISR_TICK.                                                            *)

IO_DECODE_KEY(k) == [key |-> k, caps |-> caps]

\* IO_FIND_KEY: the one key down; none when two are.
Found(k) == down = {k}
NoneFound == \A k \in Keys : ~ Found(k)

\* (a mutant of StillDown) Any key down stands for the tracked one.
AnyDown(k) == k # NoKey /\ down # {}

\* IO_KEY_STILL_DOWN; no key tracked is no key down.
StillDown(k) == k \in down

Seen == seen' = [k \in Keys |->
          IF k \notin down THEN 0
          ELSE IF seen[k] < KBD_DEBOUNCE_TICKS THEN seen[k] + 1 ELSE seen[k]]

\* (a mutant of Track) The debounce counts down to 0 from KBD_DEBOUNCE_TICKS.
TrackLong(k) == cur' = k /\ debounce' = KBD_DEBOUNCE_TICKS /\ UNCHANGED repeat

Track(k) ==
  /\ cur' = k
  /\ debounce' = KBD_DEBOUNCE_TICKS - 1
  /\ UNCHANGED repeat

Latch(c) == lastk' = c /\ keyhit' = TRUE /\ unread' = c

\* Nothing tracked, or the tracked key was released: look for a new one.
LookForNew ==
  /\ ~ StillDown(cur)
  /\ \/ \E k \in Keys : Found(k) /\ Track(k)
     \/ NoneFound /\ cur' = NoKey /\ UNCHANGED <<debounce, repeat>>
  /\ UNCHANGED <<latch, brk, reader>>

Debouncing ==
  /\ StillDown(cur)
  /\ debounce > 1
  /\ debounce' = debounce - 1
  /\ UNCHANGED <<cur, repeat, latch, brk, reader>>

\* BRK_STOP: the running word ends, with any key wait it was in, and the
\* latched key is used up.
Stop ==
  /\ pend' = FALSE
  /\ keyhit' = FALSE /\ unread' = NoCode
  /\ reader' = "busy"

\* The debounce ends: the key is latched, and BRK_ACCEPTED stops the running
\* word at a BREAK that nothing defers.
Accept ==
  /\ StillDown(cur)
  /\ debounce = 1
  /\ debounce' = 0
  /\ repeat' = KBD_REPDEL
  /\ LET c == IO_DECODE_KEY(cur)
     IN  \/ /\ c # KEY_BREAK \/ deferred
            /\ Latch(c)
            /\ pend' = (pend \/ c = KEY_BREAK)
            /\ UNCHANGED reader
         \/ /\ c = KEY_BREAK /\ ~ deferred
            /\ lastk' = c
            /\ Stop
  /\ UNCHANGED <<cur, deferred>>

Holding ==
  /\ StillDown(cur)
  /\ debounce = 0 /\ repeat # 1
  /\ repeat' = (repeat - 1) % 256
  /\ UNCHANGED <<cur, debounce, latch, brk, reader>>

\* (a mutant of Repeat) The repeated key is stored and not flagged.
RepeatUnflagged ==
  /\ StillDown(cur)
  /\ debounce = 0 /\ repeat = 1
  /\ repeat' = KBD_REPPER
  /\ lastk' = IO_DECODE_KEY(cur)
  /\ UNCHANGED <<cur, debounce, keyhit, unread, brk, reader>>

Repeat == \* a repeated BREAK is only a key
  /\ StillDown(cur)
  /\ debounce = 0 /\ repeat = 1
  /\ repeat' = KBD_REPPER
  /\ Latch(IO_DECODE_KEY(cur))
  /\ UNCHANGED <<cur, debounce, brk, reader>>

KBD_ISR_TICK ==
  /\ LookForNew \/ Debouncing \/ Accept \/ Holding \/ Repeat
  /\ Seen
  /\ UNCHANGED matrix
-----------------------------------------------------------------------------
(* The foreground.                                                          *)

\* A word's section, or the console after a line: BREAK is deferred from here.
Defer ==
  /\ reader = "busy" /\ ~ deferred
  /\ deferred' = TRUE
  /\ UNCHANGED <<matrix, tracker, latch, pend, reader, seen>>

\* INTERPRET_RUN releases the console's hold and drops the BREAK it deferred.
LineStarts ==
  /\ reader = "busy" /\ deferred
  /\ deferred' = FALSE /\ pend' = FALSE
  /\ UNCHANGED <<matrix, tracker, latch, reader, seen>>

\* BRK_SECTION_END: a BREAK pressed during the section stops the word now.
SectionEnds ==
  /\ reader = "busy" /\ deferred
  /\ deferred' = FALSE
  /\ \/ pend /\ Stop
     \/ ~ pend /\ UNCHANGED <<pend, keyhit, unread, reader>>
  /\ UNCHANGED <<matrix, tracker, lastk, seen>>

AskKey == \* KEY, ACCEPT, the console: IO_READ_KEY
  /\ reader = "busy"
  /\ reader' = "wait"
  /\ UNCHANGED <<matrix, tracker, latch, brk, seen>>

\* .wait_hit sees the flag ...
KeyHit ==
  /\ reader = "wait" /\ keyhit
  /\ reader' = "latch"
  /\ UNCHANGED <<matrix, tracker, latch, brk, seen>>

\* (a mutant of TakeKey) The code is returned with the flag still set.
TakeOnly ==
  /\ reader = "latch"
  /\ unread' = NoCode
  /\ reader' = "busy"
  /\ UNCHANGED <<matrix, tracker, lastk, keyhit, brk, seen>>

\* ... IO_LATCH_AND_CLEAR takes the code ...
TakeKey ==
  /\ reader = "latch"
  /\ unread' = NoCode
  /\ reader' = "clear"
  /\ UNCHANGED <<matrix, tracker, lastk, keyhit, brk, seen>>

\* ... and clears the flag.
ClearHit ==
  /\ reader = "clear"
  /\ keyhit' = FALSE
  /\ reader' = "busy"
  /\ UNCHANGED <<matrix, tracker, lastk, unread, brk, seen>>

ReadKey == KeyHit \/ TakeKey \/ ClearHit
-----------------------------------------------------------------------------
KeyboardNext == Fingers \/ KBD_ISR_TICK \/ Defer \/ LineStarts \/ SectionEnds
                  \/ AskKey \/ ReadKey

KeyboardSpec == KeyboardInit /\ [][KeyboardNext]_keyboardVars

\* The frame interrupt comes 50 or 60 times a second, and between two of them
\* a key wait goes on.
KeyboardFairSpec == KeyboardSpec /\ WF_keyboardVars(KBD_ISR_TICK) /\ WF_keyboardVars(ReadKey)
-----------------------------------------------------------------------------
(* Properties.                                                              *)

TypeOK ==
  /\ down \subseteq Keys /\ caps \in BOOLEAN
  /\ cur \in Keys \cup {NoKey}
  /\ debounce \in 0 .. KBD_DEBOUNCE_TICKS - 1
  /\ repeat \in 0 .. 255
  /\ lastk \in Codes \cup {NoCode} /\ keyhit \in BOOLEAN
  /\ deferred \in BOOLEAN /\ pend \in BOOLEAN
  /\ reader \in {"busy", "wait", "latch", "clear"}
  /\ seen \in [Keys -> 0 .. KBD_DEBOUNCE_TICKS]
  /\ unread \in Codes \cup {NoCode}

(* A key waiting in the latch has not been read: KEY? never promises, and KEY *)
(* never returns, a key press a second time, whenever the interrupt falls      *)
(* between IO_LATCH_AND_CLEAR's instructions.                                   *)
WaitingIsUnread ==
  /\ keyhit /\ reader # "clear" => unread # NoCode /\ unread = lastk
  /\ reader = "latch" => unread = lastk /\ unread # NoCode

(* The key latched last stays until it is read: only a later key replaces it    *)
(* ("a latched key not yet consumed is overwritten by the next").                *)
LastKeyKept == unread # NoCode => keyhit

(* A key is taken only after it was down for KBD_DEBOUNCE_TICKS interrupts in    *)
(* a row, whatever other keys come and go meanwhile: a bouncing contact types     *)
(* nothing.                                                                       *)
OnlySteadyKeys ==
  [][unread' # unread /\ unread' # NoCode =>
       seen'[unread'.key] = KBD_DEBOUNCE_TICKS]_keyboardVars

(* Held alone, a key ends every wait for a key (IO_READ_KEY): it is accepted,     *)
(* and repeats for the waits that follow.                                          *)
HeldKeyEndsWait ==
  \A k \in Keys : <>[](down = {k}) => (reader = "wait" ~> reader # "wait")
=============================================================================
