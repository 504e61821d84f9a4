------------------------------ MODULE TapeCases ------------------------------
(* The case table of src/tools/tapetest.py on the model of Tape: each case is a scene, and
   what the case checks is the scene's `expect` (the THROW code) and `after` (what of the
   dictionary and the store is compared).  Three bytes stand for SYN_DICT's 96; the screen
   checks of the cases, what the loaded text prints, are not about the tape.              *)
EXTENDS Tape

SYN_DICT == <<17, 3, 9>>
SYN_LATEST == 64
Foreign == Identity + 1             \* foreign_identity
TEXT_DBL == <<50, 49>>
StoreLines == <<49, CR, 50, CR>>    \* two typed lines, ended by CR, as the console appends them
SetupDict == <<5, 6, 7>>            \* the dictionary after the setup lines
SetupLatest == 70

\* framed with a flag, length or CRC of the case's own; a dropout ends the data early.
Malformed(name, s, length, flag, crc) ==
    <<Header(TypeLib, name, length, Identity, SYN_LATEST), Data(flag, s \o crc)>>
V1LibFile(name, dict, latest) ==
    LET body == <<latest % 256, latest \div 256>> \o dict
    IN  <<Header(TypeText, name, Len(body), NoAutostart, Len(body)), Data(FlagData, body)>>
DropoutItems(name) ==
    LET file == LibFile(name, SYN_DICT, SYN_LATEST, Identity)
    IN  [file EXCEPT ![2].raw = SubSeq(@, 1, 2), ![2].good = FALSE]
\* One byte of a sequence changed (bad[k] ^= 1).
Altered(s, k) == [s EXCEPT ![k] = Xor(@, 1)]
\* store_text: a host file's line ends become CR (10 is LF).
StoreText(s) ==
    FoldLeft(LAMBDA t, c : IF c # 10 THEN Append(t, c)
                           ELSE IF t # <<>> /\ Last(t) = CR THEN t ELSE Append(t, CR), <<>>, s)
GenTap(name, file) == TextFile(name, StoreText(file))

----------------------------------------------------------------------------
Scene(items, word, name, expect, after) ==
    [tape |-> items, dict |-> <<>>, latest |-> Cold, text |-> <<>>, word |-> word, name |-> name, press |-> "none",
     late |-> 1, back |-> "none", wild |-> FALSE, judged |-> TRUE, expect |-> expect, after |-> after]
\* lib_case: a machine with its setup line, a tape, one LOAD-LIB caught.
LibCase(items, name, after) ==
    [Scene(items, "LOAD-LIB", name, TapeError, after) EXCEPT !.dict = SetupDict, !.latest = SetupLatest]
\* lib_roundtrip and case_3, case_n4: save, then play what was captured into a fresh machine.
LibRoundtrip(name, dict, wild) ==
    [Scene(<<>>, "SAVE-LIB", name, 0, "saved") EXCEPT !.dict = dict, !.latest = SetupLatest, !.back = "LOAD-LIB", !.wild = wild]
TextRoundtrip(name, text) ==
    [Scene(<<>>, "SAVE-TEXT", name, 0, "saved") EXCEPT !.text = text, !.back = "LOAD-TEXT"]
\* timed_command: no tape at all; SPACE goes down and stays down to the prompt.
TimedCommand(word, press, expect) ==
    [Scene(<<>>, word, "", expect, "same") EXCEPT !.dict = SetupDict, !.latest = SetupLatest, !.press = press]

Case1 == Scene(GenTap("MINI", <<50, 10, 49>>), "LOAD-TEXT", "MINI", 0, "text")
Case3 == TextRoundtrip("TXTSAVE", StoreLines)
CaseN4 == TextRoundtrip("N4TXT", <<58, CR, CR, 59, CR>>)
Case4 == LibRoundtrip("LIBA", SetupDict, FALSE)
Case15 == LibRoundtrip("LIBB", <<1, 2, 3, 4>>, TRUE)
Case5 == LibCase(LibFile("LIBF", SYN_DICT, SYN_LATEST, Foreign), "LIBF", "same")
Case6 == LibCase(V1LibFile("LIBV1", SYN_DICT, SYN_LATEST), "LIBV1", "same")
Case7 == LibCase(Malformed("LIBC", Altered(SYN_DICT, 2), Len(SYN_DICT) + 2, FlagData, CrcBytes(SYN_DICT)), "LIBC", "reset")
Case8 == LibCase(Malformed("LIBL0", <<>>, 0, FlagData, <<>>) \o Malformed("LIBL1", <<90>>, 1, FlagData, <<>>), "", "same")
Case9 == LibCase(Malformed("LIBW", SYN_DICT, Len(SYN_DICT) + 2, 85, CrcBytes(SYN_DICT)), "LIBW", "same")
Case10 == LibCase(DropoutItems("LIBD"), "LIBD", "reset")
Case11 == TimedCommand("LOAD-TEXT", "held", Stopped)
Case11L == TimedCommand("LOAD-LIB", "held", Stopped)
Case11a == TimedCommand("LOAD-TEXT", "none", TapeError)
Case12 == [Scene(<<>>, "SAVE-TEXT", "SPCX", Stopped, "one block") EXCEPT !.text = StoreLines, !.press = "header"]
Case13 == Scene(TextFile("WRONG", <<57>>) \o TextFile("RIGHT", TEXT_DBL), "LOAD-TEXT", "RIGHT", 0, "text")
Verify(word, items, name, expect) ==
    [Scene(items, word, name, expect, "same") EXCEPT !.dict = SetupDict, !.latest = SetupLatest, !.text = StoreLines]
Case14 ==
    {Verify("VERIFY-LIB", LibFile("GOODLIB", SetupDict, SetupLatest, Identity), "GOODLIB", 0),
     Verify("VERIFY-LIB", LibFile("BADLIB", Altered(SetupDict, 2), SetupLatest, Identity), "BADLIB", TapeError),
     Verify("VERIFY-TEXT", TextFile("GOODTXT", StoreLines), "GOODTXT", 0),
     Verify("VERIFY-TEXT", TextFile("BADTXT", Altered(StoreLines, 2)), "BADTXT", TapeError),
     Verify("VERIFY-TEXT", TextFile("SHORTTXT", Front(StoreLines)), "SHORTTXT", TapeError),
     Verify("VERIFY-TEXT", TextFile("LONGTXT", Append(StoreLines, CR)), "LONGTXT", TapeError)}
Cases == {Case1, Case3, CaseN4, Case4, Case15, Case5, Case6, Case7, Case8, Case9, Case10, Case11, Case11L,
          Case11a, Case12, Case13} \cup Case14

----------------------------------------------------------------------------
\* The judges chk_same, chk_reset, chk_header and chk_bytes.
ChkSame == /\ m.here = hist.start.here /\ m.latest = hist.start.latest
           /\ \A x \in 0..DictCap - 1 :
                m.cell[x] # hist.start.cell[x] => op.word = "VERIFY-LIB" /\ x \in {m.here, m.here + 1}
           /\ TextNow = scene.text
ChkReset == m.here = 0 /\ m.latest = Cold
ChkHeader(block) == block.good /\ block.head = SavedHeader.head
ChkBytes(block, want) == block.flag = FlagData /\ block.good /\ Front(block.raw) = want
\* The file the case expects to be loaded: the last of the tape's.
Loads == LET want == Front(Last(scene.tape).raw)
         IN  TextNow = IF Last(want) = CR THEN want ELSE Append(want, CR)
CameBack == IF op.word = "LOAD-LIB" THEN DictNow = scene.dict /\ m.latest = scene.latest ELSE TextNow = scene.text

\* Every case of the table passes: its THROW code, and the dictionary or the store as it
\* expects them, whenever in the case SPACE goes down (tapetest.py).
CasesPass == Done /\ scene.judged /\ (scene.press # "none" => hist.pressed) =>
    /\ op.code = scene.expect
    /\ scene.after = "same" => ChkSame
    /\ scene.after = "reset" => ChkReset
    /\ scene.after = "text" => Loads
    /\ scene.after = "one block" => Len(out) = 1 /\ out[1].flag = FlagHeader
    /\ scene.after = "saved" =>
         IF op.word = scene.word
         THEN Len(out) = 2 /\ ChkHeader(out[1])
              /\ ChkBytes(out[2], IF IsLib THEN scene.dict \o CrcBytes(scene.dict) ELSE scene.text)
         ELSE CameBack
=============================================================================
