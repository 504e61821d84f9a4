---------------------------- MODULE KeyboardProofs ----------------------------
(* What the latch holds, for any keys, debounce and delays: a key waiting was not read, and
   only a key that was down long enough is latched.                                      *)
EXTENDS Keyboard, TLAPS

\* A tracked key was down at every tick since it was tracked: at Track once, and once more at each Debouncing.
Tracked == cur # NoKey => seen[cur] >= KBD_DEBOUNCE_TICKS - debounce
KeyInv == TypeOK /\ WaitingIsUnread /\ Tracked

LEMMA CodesAreKeys == ASSUME NEW k \in Keys, caps \in BOOLEAN
                      PROVE IO_DECODE_KEY(k) \in Codes /\ IO_DECODE_KEY(k) # NoCode /\ IO_DECODE_KEY(k).key = k
BY KeyboardAssumption DEF IO_DECODE_KEY, Codes, NoCode

\* The count a key has after a tick, and what it gains.
LEMMA SeenCounts ==
    ASSUME TypeOK, Seen
    PROVE  /\ seen' \in [Keys -> 0 .. KBD_DEBOUNCE_TICKS]
           /\ \A k \in Keys \cap down : seen'[k] = IF seen[k] < KBD_DEBOUNCE_TICKS THEN seen[k] + 1 ELSE KBD_DEBOUNCE_TICKS
<1>1. \A k \in Keys : seen[k] \in 0 .. KBD_DEBOUNCE_TICKS
  BY DEF TypeOK
<1>2. \A k \in Keys : seen'[k] = IF k \notin down THEN 0 ELSE IF seen[k] < KBD_DEBOUNCE_TICKS THEN seen[k] + 1 ELSE seen[k]
  BY DEF Seen
<1>3. \A k \in Keys : seen'[k] \in 0 .. KBD_DEBOUNCE_TICKS
  BY <1>1, <1>2, KeyboardAssumption
<1>4. seen' \in [Keys -> 0 .. KBD_DEBOUNCE_TICKS]
  BY <1>3 DEF Seen
<1> QED
  BY <1>1, <1>2, <1>4, KeyboardAssumption

LEMMA InitInv == KeyboardInit => KeyInv
<1> SUFFICES ASSUME KeyboardInit PROVE KeyInv
  OBVIOUS
<1>1. debounce \in 0 .. KBD_DEBOUNCE_TICKS - 1 /\ repeat \in 0 .. 255 /\ seen \in [Keys -> 0 .. KBD_DEBOUNCE_TICKS]
  BY KeyboardAssumption DEF KeyboardInit
<1>2. TypeOK
  BY <1>1 DEF KeyboardInit, TypeOK
<1>3. WaitingIsUnread /\ Tracked
  BY DEF KeyboardInit, WaitingIsUnread, Tracked
<1> QED
  BY <1>2, <1>3 DEF KeyInv

LEMMA TickKeeps == ASSUME KeyInv, KBD_ISR_TICK PROVE KeyInv'
<1> USE KeyboardAssumption DEF KeyInv, matrix, tracker, latch, brk
<1>1. Seen /\ UNCHANGED <<down, caps>>
  BY DEF KBD_ISR_TICK
<1>2. CASE LookForNew
  <2>1. TypeOK'
    BY <1>1, <1>2, SeenCounts DEF LookForNew, Found, Track, TypeOK
  <2>2. WaitingIsUnread'
    BY <1>2 DEF LookForNew, WaitingIsUnread
  <2>3. ASSUME NEW k \in Keys, Found(k), Track(k) PROVE Tracked'
    BY <1>1, <2>3, SeenCounts DEF Found, Track, Tracked, TypeOK
  <2>4. ASSUME cur' = NoKey PROVE Tracked'
    BY <2>4 DEF Tracked
  <2> QED
    BY <1>2, <2>1, <2>2, <2>3, <2>4 DEF LookForNew
<1>3. CASE Debouncing
  <2>1. TypeOK'
    BY <1>1, <1>3, SeenCounts DEF Debouncing, StillDown, TypeOK
  <2>2. WaitingIsUnread'
    BY <1>3 DEF Debouncing, WaitingIsUnread
  <2>3. Tracked'
    BY <1>1, <1>3, SeenCounts DEF Debouncing, StillDown, Tracked, TypeOK
  <2> QED
    BY <2>1, <2>2, <2>3
<1>4. CASE Accept
  <2>1. cur \in Keys /\ IO_DECODE_KEY(cur) \in Codes /\ IO_DECODE_KEY(cur) # NoCode
    BY <1>4, CodesAreKeys DEF Accept, StillDown, TypeOK
  <2>2. TypeOK'
    <3>1. debounce' \in 0 .. KBD_DEBOUNCE_TICKS - 1 /\ repeat' \in 0 .. 255 /\ seen' \in [Keys -> 0 .. KBD_DEBOUNCE_TICKS]
      BY <1>1, <1>4, SeenCounts DEF Accept
    <3>2. lastk' \in Codes \cup {NoCode} /\ unread' \in Codes \cup {NoCode}
      BY <1>4, <2>1 DEF Accept, Latch, Stop
    <3>3. keyhit' \in BOOLEAN /\ deferred' \in BOOLEAN /\ pend' \in BOOLEAN
      BY <1>4 DEF Accept, Latch, Stop, TypeOK
    <3>4. cur' \in Keys \cup {NoKey} /\ reader' \in {"busy", "wait", "latch", "clear"}
      BY <1>4 DEF Accept, Stop, TypeOK
    <3> QED
      BY <1>1, <3>1, <3>2, <3>3, <3>4 DEF TypeOK
  <2>3. WaitingIsUnread'
    BY <1>4, <2>1 DEF Accept, Latch, Stop, WaitingIsUnread, TypeOK
  <2>4. Tracked'
    BY <1>1, <1>4, SeenCounts DEF Accept, StillDown, Tracked, TypeOK
  <2> QED
    BY <2>2, <2>3, <2>4
<1>5. CASE Holding
  <2>1. TypeOK'
    BY <1>1, <1>5, SeenCounts DEF Holding, TypeOK
  <2>2. WaitingIsUnread'
    BY <1>5 DEF Holding, WaitingIsUnread
  <2>3. Tracked'
    BY <1>1, <1>5, SeenCounts DEF Holding, StillDown, Tracked, TypeOK
  <2> QED
    BY <2>1, <2>2, <2>3
<1>6. CASE Repeat
  <2>1. cur \in Keys /\ IO_DECODE_KEY(cur) \in Codes /\ IO_DECODE_KEY(cur) # NoCode
    BY <1>6, CodesAreKeys DEF Repeat, StillDown, TypeOK
  <2>2. TypeOK'
    BY <1>1, <1>6, <2>1, SeenCounts DEF Repeat, Latch, TypeOK
  <2>3. WaitingIsUnread'
    BY <1>6, <2>1 DEF Repeat, Latch, WaitingIsUnread, TypeOK
  <2>4. Tracked'
    BY <1>1, <1>6, SeenCounts DEF Repeat, StillDown, Tracked, TypeOK
  <2> QED
    BY <2>2, <2>3, <2>4
<1> QED
  BY <1>2, <1>3, <1>4, <1>5, <1>6 DEF KBD_ISR_TICK

\* Everything but the tick leaves the tracker and the counts alone.
LEMMA ForegroundKeeps ==
    ASSUME KeyInv, Fingers \/ Defer \/ LineStarts \/ SectionEnds \/ AskKey \/ ReadKey
    PROVE  KeyInv' /\ UNCHANGED seen
<1> USE DEF matrix, tracker, latch, brk
<1>1. CASE Fingers
  <2>1. TypeOK'
    BY <1>1 DEF Fingers, PressKey, ReleaseKey, ShiftKey, KeyInv, TypeOK
  <2>2. WaitingIsUnread' /\ Tracked' /\ UNCHANGED seen
    BY <1>1 DEF Fingers, KeyInv, WaitingIsUnread, Tracked
  <2> QED
    BY <2>1, <2>2 DEF KeyInv
<1>2. CASE Defer \/ LineStarts \/ SectionEnds \/ AskKey
  <2>1. TypeOK'
    <3>1. UNCHANGED <<down, caps, cur, debounce, repeat, seen, lastk>>
      BY <1>2 DEF Defer, LineStarts, SectionEnds, Stop, AskKey
    <3>2. unread' \in Codes \cup {NoCode} /\ reader' \in {"busy", "wait", "latch", "clear"}
      BY <1>2 DEF Defer, LineStarts, SectionEnds, Stop, AskKey, KeyInv, TypeOK
    <3>3. keyhit' \in BOOLEAN /\ deferred' \in BOOLEAN /\ pend' \in BOOLEAN
      BY <1>2 DEF Defer, LineStarts, SectionEnds, Stop, AskKey, KeyInv, TypeOK
    <3> QED
      BY <3>1, <3>2, <3>3 DEF KeyInv, TypeOK
  <2>2. Tracked' /\ UNCHANGED seen
    BY <1>2 DEF Defer, LineStarts, SectionEnds, Stop, AskKey, KeyInv, Tracked
  <2>3. WaitingIsUnread'
    BY <1>2 DEF Defer, LineStarts, SectionEnds, Stop, AskKey, KeyInv, WaitingIsUnread
  <2> QED
    BY <2>1, <2>2, <2>3 DEF KeyInv
<1>3. CASE ReadKey
  <2>1. TypeOK'
    <3>1. UNCHANGED <<down, caps, cur, debounce, repeat, seen, lastk>>
      BY <1>3 DEF ReadKey, KeyHit, TakeKey, ClearHit
    <3>2. unread' \in Codes \cup {NoCode} /\ reader' \in {"busy", "wait", "latch", "clear"}
      BY <1>3 DEF ReadKey, KeyHit, TakeKey, ClearHit, KeyInv, TypeOK
    <3>3. keyhit' \in BOOLEAN /\ deferred' \in BOOLEAN /\ pend' \in BOOLEAN
      BY <1>3 DEF ReadKey, KeyHit, TakeKey, ClearHit, KeyInv, TypeOK
    <3> QED
      BY <3>1, <3>2, <3>3 DEF KeyInv, TypeOK
  <2>2. Tracked' /\ UNCHANGED seen
    BY <1>3 DEF ReadKey, KeyHit, TakeKey, ClearHit, KeyInv, Tracked
  <2>3. WaitingIsUnread'
    BY <1>3 DEF ReadKey, KeyHit, TakeKey, ClearHit, KeyInv, WaitingIsUnread
  <2> QED
    BY <2>1, <2>2, <2>3 DEF KeyInv
<1> QED
  BY <1>1, <1>2, <1>3

LEMMA NextKeeps == ASSUME KeyInv, [KeyboardNext]_keyboardVars PROVE KeyInv'
<1>1. CASE KeyboardNext
  BY <1>1, TickKeeps, ForegroundKeeps DEF KeyboardNext
<1>2. CASE UNCHANGED keyboardVars
  BY <1>2 DEF keyboardVars, KeyInv, TypeOK, WaitingIsUnread, Tracked
<1> QED
  BY <1>1, <1>2

LEMMA InvHolds == KeyboardSpec => []KeyInv
BY InitInv, NextKeeps, PTL DEF KeyboardSpec

\* Every variable of the interrupt and of the key wait stays in its range.
THEOREM KeyboardTypes == KeyboardSpec => []TypeOK
<1>1. KeyInv => TypeOK
  BY DEF KeyInv
<1> QED
  BY <1>1, InvHolds, PTL

\* KEY never returns a key press a second time, wherever the interrupt falls in IO_READ_KEY: what waits in the latch was
\* not read.
THEOREM NothingReadTwice == KeyboardSpec => []WaitingIsUnread
<1>1. KeyInv => WaitingIsUnread
  BY DEF KeyInv
<1> QED
  BY <1>1, InvHolds, PTL

\* A code becomes a latched one only in the tick that ends its key's debounce, or repeats it.
LEMMA OnlySteadyStep ==
    ASSUME KeyInv, KeyboardNext, unread' # unread, unread' # NoCode
    PROVE  seen'[unread'.key] = KBD_DEBOUNCE_TICKS
<1> USE KeyboardAssumption DEF matrix, tracker, latch, brk
<1>1. KBD_ISR_TICK
  <2>1. ~ (Fingers \/ Defer \/ LineStarts \/ SectionEnds \/ AskKey \/ ReadKey)
    BY DEF Fingers, Defer, LineStarts, SectionEnds, Stop, AskKey, ReadKey, KeyHit, TakeKey, ClearHit
  <2> QED
    BY <2>1 DEF KeyboardNext
<1>2. cur \in Keys \cap down /\ unread' = IO_DECODE_KEY(cur) /\ debounce \in {0, 1}
  <2>1. CASE Accept
    BY <2>1 DEF Accept, Latch, Stop, StillDown, KeyInv, TypeOK
  <2>2. CASE Repeat
    BY <2>2 DEF Repeat, Latch, StillDown, KeyInv, TypeOK
  <2>3. ~ (LookForNew \/ Debouncing \/ Holding)
    BY DEF LookForNew, Debouncing, Holding
  <2> QED
    BY <1>1, <2>1, <2>2, <2>3 DEF KBD_ISR_TICK
<1>3. unread'.key = cur
  BY <1>2, CodesAreKeys DEF KeyInv, TypeOK
<1>4. seen[cur] >= KBD_DEBOUNCE_TICKS - 1
  BY <1>2 DEF KeyInv, Tracked, TypeOK
<1>5. seen'[cur] = IF seen[cur] < KBD_DEBOUNCE_TICKS THEN seen[cur] + 1 ELSE KBD_DEBOUNCE_TICKS
  BY <1>1, <1>2, SeenCounts DEF KeyInv, KBD_ISR_TICK
<1> QED
  BY <1>2, <1>3, <1>4, <1>5 DEF KeyInv, TypeOK

\* A bouncing contact types nothing: the key of a code that is latched was down for KBD_DEBOUNCE_TICKS interrupts in a row.
THEOREM SteadyKeysOnly == KeyboardSpec => OnlySteadyKeys
<1>1. KeyInv /\ [KeyboardNext]_keyboardVars =>
        [unread' # unread /\ unread' # NoCode => seen'[unread'.key] = KBD_DEBOUNCE_TICKS]_keyboardVars
  BY OnlySteadyStep DEF keyboardVars
<1> QED
  BY <1>1, InvHolds, PTL DEF KeyboardSpec, OnlySteadyKeys
=============================================================================
