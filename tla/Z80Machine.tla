----------------------------- MODULE Z80Machine -----------------------------
(* What a driver relies on when it replays a routine of the ROM: code addresses are
   numbers like any other.  Loaded, moved, pushed, exchanged or popped, an address
   stays the address of its line, and RET and JP (HL) go where it says.  Only the
   register pairs, the stack and the program counter are kept: what a conditional
   jump tests and what 8-bit code computes is left open.                          *)
EXTENDS Integers, Sequences

CONSTANT Lines        \* the lines of the loaded source are 0 .. Lines - 1

VARIABLES pair,       \* BC, DE, HL, IX as words
          alt,        \* BC', DE', HL'
          sp, stack,  \* SP, and the words pushed (last pushed last)
          pc,         \* the line to execute next
          ins,        \* the last instruction executed: <<mnemonic, operands...>>
          saved       \* <<>> or the machine a snapshot holds
vars == <<pair, alt, sp, stack, pc, ins, saved>>

Pairs == {"BC", "DE", "HL", "IX"}
Main == {"BC", "DE", "HL"}
Stopped == -1
Address(i) == i       \* the tool's address of a line is its index
Low(w) == w % 256

\* Only pair p may change, and to v.
PairBecomes(p, v) == pair' = [pair EXCEPT ![p] = v] /\ UNCHANGED <<alt, sp, stack>>
Onward == pc' = pc + 1

LdPair == LET p == ins'[2] IN
          /\ \/ ins'[1] = "ld number" /\ PairBecomes(p, ins'[3])
             \/ ins'[1] = "ld label"  /\ PairBecomes(p, Address(ins'[3]))
             \/ ins'[1] = "ld pair"   /\ PairBecomes(p, pair[ins'[3]])
             \/ ins'[1] = "inc"       /\ PairBecomes(p, (pair[p] + 1) % 65536)
             \/ ins'[1] = "ld memory" /\ PairBecomes(p, pair'[p])
          /\ Onward
LdHalf == /\ ins'[1] = "ld high" /\ PairBecomes(ins'[2], 256 * ins'[3] + Low(pair[ins'[2]]))
          /\ Onward
AddHL == /\ ins'[1] = "add hl" /\ PairBecomes("HL", (pair["HL"] + pair[ins'[2]]) % 65536)
         /\ Onward
Push == /\ ins'[1] \in {"push", "push af"}
        /\ stack' = Append(stack, IF ins'[1] = "push" THEN pair[ins'[2]] ELSE stack'[Len(stack) + 1])
        /\ sp' = (sp - 2) % 65536 /\ UNCHANGED <<pair, alt>> /\ Onward
PopWord == stack' = SubSeq(stack, 1, Len(stack) - 1) /\ sp' = (sp + 2) % 65536
Pop == /\ \/ ins'[1] = "pop" /\ pair' = [pair EXCEPT ![ins'[2]] = stack[Len(stack)]]
          \/ ins'[1] = "pop af" /\ UNCHANGED pair
       /\ PopWord /\ UNCHANGED alt /\ Onward
ExDEHL == /\ ins'[1] = "ex de,hl" /\ pair' = [pair EXCEPT !["DE"] = pair["HL"], !["HL"] = pair["DE"]]
          /\ UNCHANGED <<alt, sp, stack>> /\ Onward
Exx == /\ ins'[1] = "exx"
       /\ pair' = [p \in Pairs |-> IF p \in Main THEN alt[p] ELSE pair[p]]
       /\ alt' = [p \in Main |-> pair[p]]
       /\ UNCHANGED <<sp, stack>> /\ Onward
Ldir == /\ ins'[1] = "ldir"
        /\ pair' = [pair EXCEPT !["HL"] = (@ + pair["BC"]) % 65536, !["DE"] = (@ + pair["BC"]) % 65536, !["BC"] = 0]
        /\ UNCHANGED <<alt, sp, stack>> /\ Onward
Djnz == /\ ins'[1] = "djnz" /\ PairBecomes("BC", (pair["BC"] - 256) % 65536)
        /\ pc' \in {ins'[2], pc + 1}
Other == /\ ins'[1] = "other" /\ UNCHANGED <<pair, alt, sp, stack>> /\ Onward
Jump == /\ ins'[1] = "jp" /\ UNCHANGED <<pair, alt, sp, stack>>
        /\ pc' \in {ins'[2], pc + 1}
JpHL == /\ ins'[1] = "jp (hl)" /\ UNCHANGED <<pair, alt, sp, stack>>
        /\ Address(pc') = pair["HL"]
Call == /\ ins'[1] = "call"
        /\ UNCHANGED <<pair, alt>>
        /\ \/ pc' = ins'[2] /\ stack' = Append(stack, Address(pc + 1)) /\ sp' = (sp - 2) % 65536
           \/ Onward /\ UNCHANGED <<sp, stack>>
Ret == /\ ins'[1] = "ret" /\ UNCHANGED <<pair, alt>>
       /\ \/ stack # <<>> /\ PopWord /\ Address(pc') = stack[Len(stack)]
          \/ Onward /\ UNCHANGED <<sp, stack>>
\* A called routine that a driver scripts sets what the script says and comes back.
Scripted == /\ ins'[1] = "script" /\ PairBecomes("HL", ins'[2]) /\ Onward

Execute == /\ pc # Stopped
           /\ UNCHANGED saved
           /\ \/ LdPair \/ LdHalf \/ AddHL \/ Push \/ Pop \/ ExDEHL \/ Exx \/ Ldir \/ Djnz
              \/ Other \/ Jump \/ JpHL \/ Call \/ Ret \/ Scripted

\* The run ends: the outermost RET, the step limit, or an instruction the tool refuses.
Stop == /\ pc' = Stopped /\ ins'[1] = "stop"
        /\ UNCHANGED <<pair, alt, saved>>
        /\ \/ UNCHANGED <<sp, stack>>
           \/ stack # <<>> /\ PopWord

\* A snapshot keeps the machine; going back to it restores every part of it.
Machine == <<pair, alt, sp, stack, pc>>
Save == saved' = <<Machine>> /\ UNCHANGED <<pair, alt, sp, stack, pc, ins>>
GoBack == saved # <<>> /\ Machine' = saved[1] /\ ins' = <<"go back">> /\ UNCHANGED saved

Init == /\ pc = 0 /\ ins = <<"other">> /\ saved = <<>>
        /\ stack = <<Address(Lines)>>
        /\ alt = [p \in Main |-> 0]
Next == Execute \/ Stop \/ Save \/ GoBack
Spec == Init /\ [][Next]_vars
=============================================================================
