------------------------------- MODULE Pulses --------------------------------
(* The tape signals of tapes.py and tapetol.py: blocks to pulses, pulses to a capture and to
   sample files, a capture back to blocks, distorted signals and the file formats.  A run is
   [t, edge]: t T-states at one level, ended by an edge or not (a flat stretch, which joins
   the pulse after it); the level is the parity of the edges before.                     *)
EXTENDS Integers, Sequences, FiniteSets, SequencesExt

CONSTANTS ByteBits,       \* bits a byte (8), most significant first
          MinPilot,       \* decode: pilot pulses below which there is no block (100)
          HeaderPilot,    \* pilot pulses of a header block and of a data block (8063, 3223)
          DataPilot,
          Counter         \* the capture's counter wraps at this many T-states (2^28)
PulsesParameters ==
    ByteBits \in Nat \ {0} /\ Counter \in Nat \ {0} /\ MinPilot \in Nat /\ HeaderPilot \in Nat /\ DataPilot \in Nat

PILOT_T == 2168   SYNC1_T == 667   SYNC2_T == 735   ZERO_T == 855   ONE_T == 1710
Second == 100000                    \* silences: anything well over a pulse
sumTo[s \in Seq(Int), n \in Nat] == IF n = 0 THEN 0 ELSE s[n] + sumTo[s, n - 1]
Total(s) == sumTo[s, Len(s)]

----------------------------------------------------------------------------
\* Tape
Pulse(t) == [t |-> t, edge |-> TRUE]
Flat(t) == [t |-> t, edge |-> FALSE]
BitsOf(v) == [k \in 1..ByteBits |-> (v \div 2^(ByteBits - k)) % 2]
BitWidth(b) == IF b = 1 THEN ONE_T ELSE ZERO_T
Widths(v) == [k \in 1..2 * ByteBits |-> BitWidth(BitsOf(v)[(k + 1) \div 2])]
Constant(n, x) == [i \in 1..n |-> x]
IsData(data) == data[1] >= 2^(ByteBits - 1)
Pilots(data) == IF IsData(data) THEN DataPilot ELSE HeaderPilot
\* drop: byte numbers that are a flat stretch; cut: the bytes before the block breaks off
Block(data, drop, cut) ==
    Constant(Pilots(data), Pulse(PILOT_T)) \o <<Pulse(SYNC1_T), Pulse(SYNC2_T)>>
    \o FlattenSeq([i \in 1..(IF cut < Len(data) THEN cut ELSE Len(data)) |->
           IF i \in drop THEN <<Flat(Total(Widths(data[i])))>>
           ELSE [k \in 1..2 * ByteBits |-> Pulse(Widths(data[i])[k])]])
    \o <<Pulse(ZERO_T), Flat(Second)>>
\* the pulse widths, a flat stretch joined to the pulse after it, the trailing silence dropped
Joined(acc, run) == IF run.edge THEN [w |-> Append(acc.w, acc.rest + run.t), rest |-> 0]
                    ELSE [acc EXCEPT !.rest = @ + run.t]
PulsesOf(runs) == FoldLeft(Joined, [w |-> <<>>, rest |-> 0], runs).w
edgeAt[w \in Seq(Int), i \in Nat] == IF i = 0 THEN 0 ELSE w[i] + edgeAt[w, i - 1]
Edges(runs, t0) == LET w == PulsesOf(runs) IN [i \in 1..Len(w) |-> [t |-> t0 + edgeAt[w, i], level |-> i % 2]]

----------------------------------------------------------------------------
\* A capture: the counter's value and the level at each `out`; after the edges in `again` a
\* sample at the same level comes too (the border's restore).
CaptureValues(edges, again) ==
    FlattenSeq([i \in 1..Len(edges) |->
        LET s == [t |-> edges[i].t % Counter, level |-> edges[i].level]
        IN  IF i \in again THEN <<s, [s EXCEPT !.t = (@ + 20) % Counter]>> ELSE <<s>>])
\* (a mutant of Captured) The unwrapped count forgets the sample it compares with.
CapturedKeepsBase(acc, v) ==
    LET base == acc.base + IF v.t < acc.prev THEN Counter ELSE 0
        new == acc.out = <<>> \/ Last(acc.out).level # v.level
    IN  [base |-> base, prev |-> IF new THEN v.t ELSE acc.prev + Counter,
         out |-> IF new THEN Append(acc.out, [t |-> base + v.t, level |-> v.level]) ELSE acc.out]
Captured(acc, v) ==
    LET base == acc.base + IF v.t < acc.prev THEN Counter ELSE 0
        new == acc.out = <<>> \/ Last(acc.out).level # v.level
    IN  [base |-> base, prev |-> v.t,
         out |-> IF new THEN Append(acc.out, [t |-> base + v.t, level |-> v.level]) ELSE acc.out]
EdgesFromCapture(values) == FoldLeft(Captured, [base |-> 0, prev |-> 0, out |-> <<>>], values).out

\* decode: pilot pulses, two sync pulses, bit pulses in pairs up to a long one
IsPilot(t) == t \in 1900..2500
RECURSIVE DecodeFrom(_, _)
DecodeFrom(w, i) ==
    LET starts == {j \in i..Len(w) : IsPilot(w[j])}
    IN  IF starts = {} THEN <<>>
        ELSE LET start == CHOOSE j \in starts : \A k \in starts : j <= k
                 sync == CHOOSE j \in start..Len(w) + 1 :
                             (j > Len(w) \/ ~IsPilot(w[j])) /\ \A k \in start..j - 1 : IsPilot(w[k])
                 long == CHOOSE j \in sync + 2..Len(w) + 1 :
                             /\ j + 1 > Len(w) \/ w[j] >= 2500 \/ w[j + 1] >= 2500
                             /\ (j - sync) % 2 = 0
                             /\ \A k \in sync + 2..j - 1 : w[k] < 2500
                 bits == [k \in 1..(long - sync - 2) \div 2 |->
                             IF w[sync + 2 * k] + w[sync + 2 * k + 1] > ZERO_T + ONE_T THEN 1 ELSE 0]
                 byte(n) == Total([k \in 1..ByteBits |-> bits[ByteBits * (n - 1) + k] * 2^(ByteBits - k)])
             IN  IF sync - start < MinPilot THEN DecodeFrom(w, sync)
                 ELSE IF sync + 1 > Len(w) THEN <<>>
                 ELSE <<[data |-> [n \in 1..Len(bits) \div ByteBits |-> byte(n)], pilot |-> sync - start,
                         extra_bits |-> Len(bits) % ByteBits]>> \o DecodeFrom(w, long)
Decode(edges) == DecodeFrom([i \in 1..Len(edges) - 1 |-> edges[i + 1].t - edges[i].t], 1)

----------------------------------------------------------------------------
\* tapetol's signals: a distortion d = [pilot, sync, bits, skew (percent), n, missing, extra, flat, drop]
Undistorted == [pilot |-> 0, sync |-> 0, bits |-> 0, skew |-> 0, n |-> 0, missing |-> "", extra |-> FALSE,
                flat |-> 0, drop |-> 0]
W(t, percent, skew) == (t * (100 + percent) * (100 + skew) + 5000) \div 10000
SynthBlock(data, d) ==
    LET n == (IF d.n = 0 THEN Pilots(data) ELSE d.n) + IF d.extra THEN 1 ELSE 0
        hole == IF d.missing = "mid" THEN n \div 2 ELSE n - 4
        pilot(i) == IF d.missing # "" /\ i = hole - 1 THEN <<Flat(W(PILOT_T, d.pilot, 0))>>
                    ELSE IF d.flat > 0 /\ i = n \div 2 THEN <<Flat(d.flat), Pulse(W(PILOT_T, d.pilot, 0))>>
                    ELSE <<Pulse(W(PILOT_T, d.pilot, 0))>>
        bits == FlattenSeq([i \in 1..Len(data) |-> BitsOf(data[i])])
        bit(j) == (IF d.drop > 0 /\ IsData(data) /\ j - 1 = Len(bits) \div 2 THEN <<Flat(d.drop)>> ELSE <<>>)
                  \o <<Pulse(W(BitWidth(bits[j]), d.bits, d.skew)), Pulse(W(BitWidth(bits[j]), d.bits, -d.skew))>>
    IN  FlattenSeq([i \in 1..n |-> pilot(i - 1)])
        \o <<Pulse(W(SYNC1_T, d.sync, 0)), Pulse(W(SYNC2_T, d.sync, 0))>>
        \o FlattenSeq([j \in 1..Len(bits) |-> bit(j)])
        \o <<Pulse(W(ZERO_T, d.bits, 0)), Flat(Second)>>
Synth(blocks, d) == <<Flat(Second)>> \o FlattenSeq([i \in 1..Len(blocks) |-> SynthBlock(blocks[i], d)])

\* rwa and tzx_direct: the samples of each run, at `sample` T-states, the time counted from the
\* start so that no error adds up
Samples(runs, sample) ==
    LET t == [i \in 1..Len(runs) |-> runs[i].t]
    IN  [i \in 1..Len(runs) |-> (edgeAt[t, i] \div sample) - (edgeAt[t, i - 1] \div sample)]

\* .tap and .tzx: a length before each block; pauses of at most 65 s, pulses 255 at a time
Tap(blocks) == FlattenSeq([i \in 1..Len(blocks) |-> <<Len(blocks[i])>> \o blocks[i]])
RECURSIVE ReadTap(_), Chunks(_, _)
ReadTap(s) == IF s = <<>> THEN <<>>
              ELSE <<SubSeq(s, 2, IF 1 + Head(s) < Len(s) THEN 1 + Head(s) ELSE Len(s))>>
                   \o ReadTap(SubSeq(s, 2 + Head(s), Len(s)))
Chunks(ms, most) == IF ms <= 0 THEN <<>> ELSE LET n == IF ms < most THEN ms ELSE most IN <<n>> \o Chunks(ms - n, most)
Parts(w, most) == [i \in 1..(Len(w) + most - 1) \div most |->
                      SubSeq(w, (i - 1) * most + 1, IF i * most < Len(w) THEN i * most ELSE Len(w))]

----------------------------------------------------------------------------
\* The tape written from `blocks`, its bytes `drop` of the last block flat and that block cut.
TapeOf(blocks, drop, cut) ==
    FlattenSeq([i \in 1..Len(blocks) |-> IF i = Len(blocks) THEN Block(blocks[i], drop, cut) ELSE Block(blocks[i], {}, 99)])
Data(found) == [i \in 1..Len(found) |-> found[i].data]
Shifted(edges) == [i \in 1..Len(edges) |-> [edges[i] EXCEPT !.t = @ - edges[1].t]]

\* A capture gives back the edges and the blocks, wherever its counter wraps and whatever samples
\* at the same level are in it; a block with a dropout or cut short comes back as its
\* beginning, the others whole.
CaptureGivesBack(blocks, drop, cut, t0, again) ==
    LET edges == Edges(TapeOf(blocks, drop, cut), t0)
        captured == EdgesFromCapture(CaptureValues(edges, again))
        found == Data(Decode(captured))
        broken == drop # {} \/ cut < Len(Last(blocks))
    IN  /\ Shifted(captured) = Shifted(edges)
        /\ IF ~broken THEN found = blocks
           ELSE /\ Len(found) = Len(blocks) /\ IsPrefix(Last(found), Last(blocks))
                /\ SubSeq(found, 1, Len(found) - 1) = SubSeq(blocks, 1, Len(blocks) - 1)
                /\ Len(Last(found)) <= cut /\ \A n \in drop : Len(Last(found)) < n

\* What the decoder's limits let through (a hole in the pilot is a sync pulse to it).
Decodable(d) ==
    /\ d.missing = "" /\ d.flat = 0
    /\ IsPilot(W(PILOT_T, d.pilot, 0)) /\ W(ONE_T, d.bits, d.skew) < 2500
    /\ W(ZERO_T, d.bits, d.skew) + W(ZERO_T, d.bits, -d.skew) <= ZERO_T + ONE_T
    /\ W(ONE_T, d.bits, d.skew) + W(ONE_T, d.bits, -d.skew) > ZERO_T + ONE_T

\* tapetol's signal is the one tapes.py writes, distorted: every distortion the decoder's limits
\* let through decodes to the same blocks, one with a data dropout to a beginning of the data block,
\* and without distortion the two signals are the same pulses.
SynthIsTheTape(blocks, d) ==
    LET runs == Synth(blocks, d)
        found == Data(Decode(Edges(runs, 0)))
        mine == PulsesOf(runs)
        tape == PulsesOf(TapeOf(blocks, {}, 99))
    IN  /\ d.drop = 0 /\ Decodable(d) => found = blocks
        /\ d.drop > 0 /\ Decodable(d) => Len(found) = Len(blocks) /\ \A i \in 1..Len(found) :
                             IF IsData(blocks[i]) THEN IsStrictPrefix(found[i], blocks[i]) ELSE found[i] = blocks[i]
        /\ d = Undistorted => Tail(mine) = Tail(tape) /\ mine[1] = tape[1] + Second

\* A sample file is never further than a sample from the signal, however long the signal is.
NoDrift(runs, sample) ==
    LET t == [i \in 1..Len(runs) |-> runs[i].t]
        n == Samples(runs, sample)
    IN  \A i \in 1..Len(runs) : edgeAt[t, i] - edgeAt[n, i] * sample \in 0..sample - 1

\* The files hold what was written into them.
FilesKeep(blocks, ms, w, most) ==
    /\ ReadTap(Tap(blocks)) = blocks
    /\ Total(Chunks(ms, most)) = ms /\ \A i \in DOMAIN Chunks(ms, most) : Chunks(ms, most)[i] \in 1..most
    /\ FlattenSeq(Parts(w, most)) = w /\ \A i \in DOMAIN Parts(w, most) : Len(Parts(w, most)[i]) \in 1..most
=============================================================================
