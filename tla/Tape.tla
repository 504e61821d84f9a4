-------------------------------- MODULE Tape --------------------------------
(* The six tape words: SAVE-, LOAD- and VERIFY-LIB (src/core/storage.asm) and -TEXT
   (src/core/loadtext.asm) over the header layer (src/kernel/storage/storage.asm) and the
   block receiver and sender (tapeblock.asm), byte by byte, with SPACE going down and up
   between any two of them.  A tape is a sequence of blocks; the tape runs on while the
   words look elsewhere, so a receiver that gives up in a block waits for the next one.
   The tape formats are those of src/tools/tapes.py, and the scenes are the cases of
   src/tools/tapetest.py (TapeCases) and every short tape of MCMachines.                     *)
EXTENDS Integers, Sequences, SequencesExt, FiniteSetsExt

CONSTANTS DictCap,        \* DICT_RAM_CEILING - FORTH_DICT_RAM
          TextCap,        \* LOADTEXT_MAX_LEN: the line store begins where the dictionary ends
          Identity,       \* ROM_IDENTITY
          Cold,           \* DICT_LATEST_COLD
          Attempts,       \* STORAGE_HEADER_ATTEMPTS_MAX
          Scenes          \* what is on the tape, what is in memory, and the word that is run

VARIABLES scene, m,       \* [cell, here, latest, end]: memory, HERE, LATEST, STORE_END
          op,             \* the word that runs
          tape,           \* [blocks, pos, late, lead]: late = the receives left before the first block
          out,            \* the blocks sent
          space,          \* SPACE is down
          hist            \* [start, seen, pressed]: m at the start; was SPACE down, was it pressed
vars == <<scene, m, op, tape, out, space, hist>>

CR == 13
TypeText == 0
TypeLib == 3
FlagHeader == 0
FlagData == 255
NoAutostart == 32768
NoName == ""
Limit == DictCap + TextCap          \* STORE_LIMIT

----------------------------------------------------------------------------
\* framed, crc16 and the files of tapes.py.  A header's 17 bytes are a record.
Nibble == [a \in 0..15 |-> [b \in 0..15 |->
    LET Bit(p) == p * ((a \div p + b \div p) % 2) IN Bit(1) + Bit(2) + Bit(4) + Bit(8)]]
Xor(a, b) == LET N(p) == p * Nibble[(a \div p) % 16][(b \div p) % 16] IN N(1) + N(16) + N(256) + N(4096)
\* f folded over the bytes of s, from its first one.
Fold(f, a, s) == LET g[k \in 0..Len(s)] == IF k = 0 THEN a ELSE f[g[k - 1]][s[k]] IN g[Len(s)]
xorByte == [a \in Nat |-> [b \in Nat |-> Xor(a, b)]]
Checksum(flag, s) == Fold(xorByte, flag, s)
\* CRC-16/CCITT-FALSE: polynomial $1021, most significant bit first.
shift == [c \in Nat |-> IF c >= 32768 THEN Xor((2 * c) % 65536, 4129) ELSE 2 * c]
crcByte == [c \in Nat |-> [b \in Nat |-> shift[shift[shift[shift[shift[shift[shift[shift[Xor(c, 256 * b)]]]]]]]]]]
Crc(s) == Fold(crcByte, 65535, s)
ASSUME CrcCheck == Crc(<<49, 50, 51, 52, 53, 54, 55, 56, 57>>) = 10673      \* $29B1
CrcBytes(s) == LET c == Crc(s) IN <<c % 256, c \div 256>>

Header(type, name, length, p1, p2) ==
    [flag |-> FlagHeader, raw |-> <<>>, good |-> TRUE,
     head |-> [type |-> type, name |-> name, length |-> length, p1 |-> p1, p2 |-> p2]]
NoHead == [type |-> 0, name |-> NoName, length |-> 0, p1 |-> 0, p2 |-> 0]
Data(flag, s) == [flag |-> flag, raw |-> Append(s, Checksum(flag, s)), good |-> TRUE, head |-> NoHead]
TextFile(name, s) == <<Header(TypeText, name, Len(s), NoAutostart, Len(s)), Data(FlagData, s)>>
LibFile(name, dict, latest, id) ==
    <<Header(TypeLib, name, Len(dict) + 2, id, latest), Data(FlagData, dict \o CrcBytes(dict))>>

\* What a scene may hold: a block that is good has its bytes' checksum behind them (unframe).
Words == {"SAVE-LIB", "LOAD-LIB", "VERIFY-LIB", "SAVE-TEXT", "LOAD-TEXT", "VERIFY-TEXT"}
Name == STRING \cup {NoName}
Heads == [type : Nat, name : Name, length : Nat, p1 : Nat, p2 : Nat]
Block == [flag : Nat, raw : Seq(Nat), good : BOOLEAN, head : Heads]
Framed(b) == b.flag = FlagData /\ b.good => b.raw # <<>> /\ Checksum(FlagData, b.raw) = 0
SceneSound(s) ==
    /\ s.word \in Words /\ s.name \in Name /\ s.wild \in BOOLEAN /\ s.back \in {"none", "LOAD-LIB", "LOAD-TEXT"}
    /\ s.dict \in Seq(Nat) /\ Len(s.dict) <= DictCap /\ s.latest \in Nat
    /\ s.text \in Seq(Nat) /\ Len(s.text) <= TextCap
    /\ s.late \in Nat /\ s.tape \in Seq(Block) /\ \A k \in DOMAIN s.tape : Framed(s.tape[k])
\* STORAGE_LIB_CRC has room behind the dictionary: SAVE-LIB asks for it, VERIFY-LIB does not.
HasRoom(s) == s.word = "VERIFY-LIB" => Len(s.dict) + 2 <= DictCap
ASSUME TapeAssumption ==
    /\ {DictCap, TextCap, Identity, Cold} \subseteq Nat /\ Attempts \in Nat \ {0}
    /\ \A s \in Scenes : SceneSound(s)

----------------------------------------------------------------------------
Cells(c, from, n) == [k \in 1..n |-> c[from + k - 1]]
DictNow == Cells(m.cell, 0, m.here)
TextNow == Cells(m.cell, DictCap, m.end - DictCap)
IsLib == op.word \in {"SAVE-LIB", "LOAD-LIB", "VERIFY-LIB"}
Goes(pc) == op' = [op EXCEPT !.pc = pc]
\* STORAGE_END and STORAGE_REFUSED: 0, or the code that is thrown.
Ends(code) == op' = [op EXCEPT !.pc = "done", !.code = code]
Stopped == -28
TapeError == -37

\* STORAGE_LIB_CRC writes at HERE whatever lies there.
WithCrc == LET c == CrcBytes(DictNow)
           IN  [m EXCEPT !.cell[m.here] = c[1], !.cell[m.here + 1] = c[2]]
Start ==
    /\ op.pc = "start"
    /\ hist' = [hist EXCEPT !.start = m, !.seen = space]
    /\ \/ op.word = "SAVE-LIB" /\ m.here + 2 > DictCap /\ Ends(-8) /\ UNCHANGED m
       \/ op.word = "SAVE-LIB" /\ m.here + 2 <= DictCap /\ Goes("send header") /\ m' = WithCrc
       \/ op.word = "SAVE-TEXT" /\ Goes("send header") /\ UNCHANGED m
       \/ op.word = "VERIFY-LIB" /\ Goes("find") /\ m' = WithCrc
       \/ op.word \in {"LOAD-LIB", "VERIFY-TEXT", "LOAD-TEXT"} /\ Goes("find") /\ UNCHANGED m
    /\ UNCHANGED <<scene, tape, out, space>>

----------------------------------------------------------------------------
\* STORAGE_SAVE: the data block only after a header that went out whole.
Image == IF IsLib THEN Cells(m.cell, 0, m.here + 2) ELSE TextNow
SavedHeader == IF IsLib THEN Header(TypeLib, op.name, m.here + 2, Identity, m.latest)
               ELSE Header(TypeText, op.name, Len(Image), NoAutostart, Len(Image))
SendHeader ==
    /\ op.pc = "send header"
    /\ out' = Append(out, [SavedHeader EXCEPT !.good = ~space])
    /\ IF space THEN Ends(Stopped) ELSE Goes("gap")
    /\ UNCHANGED <<scene, m, tape, space, hist>>
\* 50 frames with interrupts on: BREAK (CAPS SHIFT too) stops the word here.
Gap ==
    /\ op.pc = "gap"
    /\ \/ Goes("send byte") /\ out' = Append(out, [flag |-> FlagData, raw |-> <<>>, good |-> FALSE, head |-> NoHead])
       \/ space /\ Ends(Stopped) /\ UNCHANGED out
    /\ UNCHANGED <<scene, m, tape, space, hist>>
\* TAPE_SEND_BLOCK: SPACE is looked at after every byte, the checksum included.
SendByte ==
    /\ op.pc = "send byte"
    /\ LET sent == out[Len(out)].raw
           whole == Len(sent) = Len(Image)
           next == IF whole THEN Checksum(FlagData, Image) ELSE Image[Len(sent) + 1]
       IN  /\ out' = [out EXCEPT ![Len(out)].raw = Append(@, next), ![Len(out)].good = whole /\ ~space]
           /\ IF space THEN Ends(Stopped) ELSE IF whole THEN Ends(0) ELSE UNCHANGED op
    /\ UNCHANGED <<scene, m, tape, space, hist>>

----------------------------------------------------------------------------
\* TAPE_RECV_BLOCK: which block comes next, if one comes within the receiver's 8.6 s.
Silence == tape.late > 0 \/ tape.pos > Len(tape.blocks)
NextBlock == tape.blocks[tape.pos]
TapeMoves == tape' = IF tape.late > 0 THEN [tape EXCEPT !.late = @ - 1]
                     ELSE IF Silence THEN tape ELSE [tape EXCEPT !.pos = @ + 1]

\* STORAGE_FIND
Find ==
    /\ op.pc = "find"
    /\ IF space THEN Goes("failed") /\ UNCHANGED tape
       ELSE /\ TapeMoves
            /\ IF ~Silence /\ NextBlock.flag = FlagHeader /\ NextBlock.good
               THEN op' = [op EXCEPT !.pc = "header", !.head = NextBlock.head]
               ELSE Goes("failed")
    /\ UNCHANGED <<scene, m, out, space, hist>>
\* (a mutant of Refused) A refused header costs no attempt.
RefusedForFree == Goes("find")
Refused == IF op.left = 1 THEN Ends(TapeError) ELSE op' = [op EXCEPT !.pc = "find", !.left = @ - 1]
\* (a mutant of SearchFailed) SPACE is not read after a failed receive.
SearchNotStopped == op.pc = "failed" /\ Refused /\ UNCHANGED <<scene, m, tape, out, space, hist>>
\* STORAGE_SPACE_HELD is read after the receiver has returned.
SearchFailed ==
    /\ op.pc = "failed"
    /\ IF space THEN Ends(Stopped) ELSE Refused
    /\ UNCHANGED <<scene, m, tape, out, space, hist>>
Matches(h) == /\ h.type = IF IsLib THEN TypeLib ELSE TypeText
              /\ op.name = NoName \/ h.name = op.name
\* What each word takes of a header it found.
Acceptable(h) ==
    CASE op.word = "LOAD-LIB" -> h.p1 = Identity /\ h.length \in 2..DictCap
      [] op.word = "VERIFY-LIB" -> h.p1 = Identity /\ h.length = m.here + 2 /\ h.p2 = m.latest
      [] op.word = "LOAD-TEXT" -> h.length <= TextCap
      [] op.word = "VERIFY-TEXT" -> h.length = m.end - DictCap
CheckHeader ==
    /\ op.pc = "header"
    /\ IF ~Matches(op.head) THEN Refused
       ELSE IF ~Acceptable(op.head) THEN Ends(TapeError)
       ELSE op' = [op EXCEPT !.pc = "data", !.de = op.head.length, !.ix = IF IsLib THEN 0 ELSE DictCap]
    /\ UNCHANGED <<scene, m, tape, out, space, hist>>

\* STORAGE_LOAD_DATA: the flag first, then byte by byte; SPACE is seen at any edge.
DataBegins ==
    /\ op.pc = "data"
    /\ IF space THEN Goes("data failed") /\ UNCHANGED tape
       ELSE /\ TapeMoves
            /\ IF ~Silence /\ NextBlock.flag = FlagData
               THEN op' = [op EXCEPT !.pc = "byte", !.rest = NextBlock.raw, !.sum = FlagData]
               ELSE Goes("data failed")
    /\ UNCHANGED <<scene, m, out, space, hist>>
Loading == op.word \in {"LOAD-LIB", "LOAD-TEXT"}
Byte1 == op.rest[1]
Stored == [m EXCEPT !.cell[op.ix] = Byte1]
DataByte ==
    /\ op.pc = "byte"
    /\ IF space \/ op.rest = <<>> THEN Goes("data failed") /\ UNCHANGED m
       ELSE IF op.de = 0
       THEN Goes(IF Xor(op.sum, Byte1) = 0 THEN "loaded" ELSE "data failed") /\ UNCHANGED m
       ELSE /\ m' = IF Loading THEN Stored ELSE m
            /\ IF ~Loading /\ m.cell[op.ix] # Byte1 THEN Goes("data failed")
               ELSE op' = [op EXCEPT !.rest = Tail(@), !.sum = Xor(@, Byte1), !.ix = @ + 1, !.de = @ - 1]
    /\ UNCHANGED <<scene, tape, out, space, hist>>

\* A failure: Z says whether anything was written; SPACE is read again.
Emptied == [m EXCEPT !.here = 0, !.latest = Cold]
\* (a mutant of DataFailed) The dictionary is kept, half overwritten.
DataFailedKeeps == /\ op.pc = "data failed" /\ Ends(IF space THEN Stopped ELSE TapeError)
                   /\ UNCHANGED <<scene, m, tape, out, space, hist>>
DataFailed ==
    /\ op.pc = "data failed"
    /\ Ends(IF space THEN Stopped ELSE TapeError)
    /\ m' = IF op.word = "LOAD-LIB" /\ op.de # op.head.length THEN Emptied ELSE m
    /\ UNCHANGED <<scene, tape, out, space, hist>>
Loaded ==
    /\ op.pc = "loaded"
    /\ LET n == op.head.length
           image == Cells(m.cell, 0, n - 2)
           end == DictCap + n
       IN  \/ ~Loading /\ Ends(0) /\ UNCHANGED m
           \/ /\ op.word = "LOAD-LIB" /\ Cells(m.cell, n - 2, 2) = CrcBytes(image)
              /\ Ends(0) /\ m' = [m EXCEPT !.here = n - 2, !.latest = op.head.p2]
           \/ /\ op.word = "LOAD-LIB" /\ Cells(m.cell, n - 2, 2) # CrcBytes(image)
              /\ Ends(TapeError) /\ m' = Emptied
           \/ /\ op.word = "LOAD-TEXT" /\ Ends(0)
              /\ m' = IF n = 0 \/ m.cell[end - 1] = CR \/ end = Limit THEN [m EXCEPT !.end = end]
                      ELSE [m EXCEPT !.cell[end] = CR, !.end = end + 1]
    /\ UNCHANGED <<scene, tape, out, space, hist>>

----------------------------------------------------------------------------
\* SPACE goes down once, and up again: at once, or, where the scene holds it, at the end.
Press == /\ scene.press # "none" /\ ~hist.pressed /\ op.pc \notin {"start", "done"}
         /\ scene.press = "header" => op.pc = "send header"
         /\ space' = TRUE /\ hist' = [hist EXCEPT !.pressed = TRUE, !.seen = TRUE]
         /\ UNCHANGED <<scene, m, op, tape, out>>
Release == /\ space /\ (scene.press = "any" \/ op.pc = "done") /\ space' = FALSE
           /\ UNCHANGED <<scene, m, op, tape, out, hist>>

OpOf(word, name) == [pc |-> "start", word |-> word, name |-> name, left |-> Attempts, head |-> NoHead,
                     ix |-> 0, de |-> 0, rest |-> <<>>, sum |-> 0, code |-> 0]
\* What was saved is played into a fresh machine.
PlayBack ==
    /\ op.pc = "done" /\ op.code = 0 /\ op.word \in {"SAVE-LIB", "SAVE-TEXT"} /\ scene.back # "none"
    /\ tape' = [blocks |-> out, pos |-> 1, late |-> 1, lead |-> 1]
    /\ m' = [cell |-> [x \in DOMAIN m.cell |-> 0], here |-> 0, latest |-> Cold, end |-> DictCap]
    /\ op' = OpOf(scene.back, IF scene.wild THEN NoName ELSE scene.name)
    /\ UNCHANGED <<scene, out, space, hist>>

Init ==
    /\ scene \in Scenes
    /\ m = [cell |-> [x \in 0..Limit - 1 |->
                        IF x < Len(scene.dict) THEN scene.dict[x + 1]
                        ELSE IF x \in DictCap..DictCap + Len(scene.text) - 1 THEN scene.text[x - DictCap + 1] ELSE 0],
            here |-> Len(scene.dict), latest |-> scene.latest, end |-> DictCap + Len(scene.text)]
    /\ op = OpOf(scene.word, scene.name)
    /\ tape = [blocks |-> scene.tape, pos |-> 1, late |-> scene.late, lead |-> scene.late]
    /\ out = <<>> /\ space = FALSE
    /\ hist = [start |-> m, seen |-> FALSE, pressed |-> FALSE]

WordStep == \/ Start \/ SendHeader \/ Gap \/ SendByte \/ Find \/ SearchFailed \/ CheckHeader
            \/ DataBegins \/ DataByte \/ DataFailed \/ Loaded \/ PlayBack
Next == WordStep \/ Press \/ Release
\* The machine runs on; nobody need press SPACE or let it go before the word ends.
Spec == Init /\ [][Next]_vars /\ WF_vars(WordStep)

----------------------------------------------------------------------------
Done == op.pc = "done"
\* Nothing is received outside the area of its word, and a receive never starts without room for the block.
InArea == op.pc = "byte" => IF IsLib THEN op.ix + op.de <= DictCap ELSE op.ix \in DictCap..Limit /\ op.ix + op.de <= Limit

\* What every word promises when it is done (storage.asm, loadtext.asm, STORAGE_SPEC).
Candidate(k) == tape.blocks[k].flag = FlagHeader /\ tape.blocks[k].good /\ Matches(tape.blocks[k].head)
\* A file on the tape: a header of the word's, the bytes it counts of the block behind it, and their checksum.
Bytes(k) == SubSeq(tape.blocks[k + 1].raw, 1, tape.blocks[k].head.length)
Read(k) == /\ k + 1 < tape.pos /\ Candidate(k) /\ tape.blocks[k + 1].flag = FlagData
           /\ LET n == tape.blocks[k].head.length  raw == tape.blocks[k + 1].raw
              IN  n < Len(raw) /\ Xor(Checksum(FlagData, Bytes(k)), raw[n + 1]) = 0
SameDict == m.here = hist.start.here /\ m.latest = hist.start.latest
            /\ Cells(m.cell, 0, m.here) = Cells(hist.start.cell, 0, m.here)
SameText == m.end = hist.start.end /\ TextNow = Cells(hist.start.cell, DictCap, m.end - DictCap)
\* A LOAD-LIB that succeeds has one file's image, made by this ROM and with its CRC right;
\* one that fails leaves the dictionary as it was or empty; the text stays.
LoadLibPromise == op.word = "LOAD-LIB" =>
    /\ SameText
    /\ IF op.code = 0
       THEN \E k \in DOMAIN tape.blocks :
              /\ Read(k) /\ tape.blocks[k].head.p1 = Identity /\ tape.blocks[k].head.p2 = m.latest
              /\ Bytes(k) = DictNow \o CrcBytes(DictNow)
       ELSE SameDict \/ (m.here = 0 /\ m.latest = Cold)
\* A LOAD-TEXT that succeeds has one file's bytes, its last line ended when there is room.
LoadTextPromise == op.word = "LOAD-TEXT" =>
    /\ SameDict
    /\ IF op.code = 0
       THEN \E k \in DOMAIN tape.blocks :
              /\ Read(k)
              /\ \/ TextNow = Bytes(k) /\ (TextNow = <<>> \/ Last(TextNow) = CR \/ m.end = Limit)
                 \/ TextNow = Append(Bytes(k), CR)
       ELSE m.end = hist.start.end
\* A SAVE leaves two whole blocks of memory's bytes, or no whole data block; a VERIFY that
\* succeeds found memory's bytes on the tape; neither changes the dictionary or the text.
SaveVerifyPromise == op.word \notin {"LOAD-LIB", "LOAD-TEXT"} =>
    /\ SameDict /\ SameText
    /\ op.word = "VERIFY-LIB" /\ op.code = 0 =>
         \E k \in DOMAIN tape.blocks : Read(k) /\ Bytes(k) = DictNow \o CrcBytes(DictNow)
    /\ op.word = "VERIFY-TEXT" /\ op.code = 0 => \E k \in DOMAIN tape.blocks : Read(k) /\ Bytes(k) = TextNow
    /\ op.word \in {"SAVE-LIB", "SAVE-TEXT"} =>
         IF op.code = 0 THEN out = <<SavedHeader, Data(FlagData, Image)>> /\ (IsLib => Image = DictNow \o CrcBytes(DictNow))
         ELSE \A k \in DOMAIN out : out[k].flag = FlagData => ~out[k].good
\* -28 is for SPACE alone, and without SPACE a good file that is among the first blocks loads.
Whole(k) == /\ k < Len(tape.blocks) /\ Candidate(k)
            /\ LET d == tape.blocks[k + 1]  h == tape.blocks[k].head
               IN  /\ d.flag = FlagData /\ d.good /\ h.length = Len(d.raw) - 1
                   /\ IsLib => h.p1 = Identity /\ Front(d.raw) = Front(Front(Front(d.raw))) \o CrcBytes(Front(Front(Front(d.raw))))
SpacePromise ==
    /\ op.code = Stopped => hist.seen
    /\ \A k \in DOMAIN tape.blocks :
         (/\ op.word \in {"LOAD-LIB", "LOAD-TEXT"} /\ ~hist.pressed /\ Whole(k)
          /\ k + tape.lead <= Attempts /\ tape.blocks[k].head.length <= (IF IsLib THEN DictCap ELSE TextCap)
          /\ \A j \in 1..k - 1 : ~Candidate(j)) => op.code = 0
\* Each of the six words keeps its promise (named above) when it is done, and writes nothing outside its area on the way.
Promise == InArea /\ (Done => LoadLibPromise /\ LoadTextPromise /\ SaveVerifyPromise /\ SpacePromise)

\* VERIFY-LIB writes nothing but its CRC, "which is free dictionary space" (storage.asm).
VerifyKeepsText == Done /\ op.word = "VERIFY-LIB" => SameText

\* Every word comes back to the prompt, with no tape or whatever is on it.
WordEnds == <>Done
=============================================================================
