----------------------------- MODULE MCMachines -----------------------------
(* Three machines that share nothing, in one run: the keyboard, the tape words and the
   simulator of the tools.  part says which one goes; the others stay where they begin.  *)
EXTENDS Keyboard, TapeCases, Z80Sim

CONSTANT Parts
VARIABLE part

\* Every tape of up to two of these files, stopped in a header or a block or damaged, against
\* every word with and without a name, SPACE pressed and let go anywhere; and the cases.
FileA == LibFile("A", <<1, 2>>, 8, Identity)
FileB == LibFile("B", <<3>>, 9, Identity)
Foreigner == LibFile("A", <<4>>, 9, Foreign)
FileT == TextFile("A", <<49>>)
FileU == TextFile("B", <<49, CR>>)
Cut == [FileB EXCEPT ![2].raw = SubSeq(@, 1, 1), ![2].good = FALSE]
Longer == [FileA EXCEPT ![2].raw = Append(@, 0), ![2].good = FALSE]     \* a byte behind the checksum
BadHeader == [FileT EXCEPT ![1].good = FALSE]
Damaged == [FileA EXCEPT ![2] = Data(FlagData, Altered(Front(FileA[2].raw), 1))]
Long == Malformed("A", <<5, 5, 5, 5, 5>>, DictCap + 1, FlagData, CrcBytes(<<5, 5, 5, 5, 5>>))
Files == {<<>>, FileA, FileB, Foreigner, FileT, FileU, Cut, Longer, BadHeader, Damaged, Tail(FileA), <<FileT[1]>>, Long}
Scenario(t, w, n, dict, text) ==
    [Scene(t, w, n, 0, "any") EXCEPT !.dict = dict, !.latest = 9, !.text = text, !.press = "any", !.late = 0, !.judged = FALSE]
McScenes == Cases
    \cup {Scenario(s \o t, w, n, <<3>>, <<49, CR>>) :
            s \in Files, t \in Files \ {<<>>}, w \in {"LOAD-LIB", "LOAD-TEXT", "VERIFY-LIB", "VERIFY-TEXT"}, n \in {"", "A"}}
    \cup {Scenario(<<>>, w, "A", d, <<49, 50, 51, 52>>) : w \in {"SAVE-LIB", "SAVE-TEXT"}, d \in {<<>>, <<7, 7>>, <<7, 7, 7, 7, 7>>}}
ASSUME McScenesHaveRoom == \A s \in McScenes : HasRoom(s)
\* VERIFY-LIB with every byte of the dictionary in use.
FullScenes == {Scenario(FileA, "VERIFY-LIB", "A", <<7, 7, 7, 7, 7, 7>>, <<49, CR>>)}
-----------------------------------------------------------------------------
MCSeeds == {[BC |-> 2, DE |-> 16385, HL |-> 16384], [BC |-> 257, DE |-> 32768, HL |-> 0],
            [BC |-> 1, DE |-> 16385, HL |-> 65535]}
MCMem == {0, 16384, 16385, 16386, 65535}
MCScript == <<5, 32768>>

allVars == <<part, keyboardVars, vars, simVars>>
AllInit ==
  /\ part \in Parts
  /\ part # "tape" => scene = CHOOSE s \in Scenes : TRUE
  /\ part # "simulator" => sim = Seeded(CHOOSE d \in Seeds : TRUE)
  /\ KeyboardInit /\ Init /\ SimInit
AllNext ==
  \/ part = "keyboard" /\ KeyboardNext /\ UNCHANGED <<part, vars, simVars>>
  \/ part = "tape" /\ Next /\ UNCHANGED <<part, keyboardVars, simVars>>
  \/ part = "simulator" /\ SimNext /\ UNCHANGED <<part, keyboardVars, vars>>
\* The fairness of KeyboardFairSpec and of the tape words' Spec.
AllSpec ==
  /\ AllInit /\ [][AllNext]_allVars
  /\ WF_allVars(part = "keyboard" /\ KBD_ISR_TICK /\ UNCHANGED <<part, vars, simVars>>)
  /\ WF_allVars(part = "keyboard" /\ ReadKey /\ UNCHANGED <<part, vars, simVars>>)
  /\ WF_allVars(part = "tape" /\ WordStep /\ UNCHANGED <<part, keyboardVars, simVars>>)

\* In the runs of the tape words, every word comes back to the prompt, with no tape or whatever is on it.
TapeWordEnds == part = "tape" => WordEnds
=============================================================================
