----------------------------- MODULE Dictionary -----------------------------
(***************************************************************************)
(* The RAM dictionary: HERE, LATEST, the chain of headers and the `:`       *)
(* definition still open, under every word that changes them, with BREAK    *)
(* between their stores (core/interp.asm, core/create.asm,                  *)
(* core/variable.asm, core/dictspace.asm, core/forget.asm, core/tick.asm,   *)
(* core/storage.asm, core/editor.asm).                                      *)
(*                                                                         *)
(* An address is a unit of dictionary space: a header is one unit, the code *)
(* a defining word compiles one unit, a compiled word one unit.  Address 0  *)
(* stands for the ROM chain every RAM word is above.                        *)
(***************************************************************************)
EXTENDS Integers

CONSTANTS
  CEILING,   \* DICT_RAM_CEILING: the line store begins here
  Reserve,   \* the units DICT_ROOM keeps back (256 bytes)
  MaxBody,   \* bound: units of a `:` definition, from its header
  MaxData    \* bound: data units of VARIABLE, ARRAY, STRING, ALLOT

ASSUME DictAssumption ==
  /\ CEILING \in Nat /\ Reserve \in Nat /\ Reserve < CEILING
  /\ MaxBody \in Nat \ {0} /\ MaxData \in Nat

FORTH_DICT_RAM == 1
ROM == 0
Addresses == FORTH_DICT_RAM .. CEILING + MaxBody + 1
Code == CEILING + MaxBody + 2     \* a unit that is not a header
Units == Addresses \cup {ROM, Code}
Memories == [Addresses -> Units]
Extents == [Addresses -> Nat]     \* where each word ends
Images == [here : Addresses, latest : Units, mem : Memories,
           linked : SUBSET Addresses, whole : SUBSET Addresses,
           cut : SUBSET Addresses, bodyEnd : Extents]

VARIABLES
  pc,        \* the point the running word has reached
  here, latest, \* HERE and LATEST
  mem,       \* a header's LINK, or Code
  newHeader, \* NEW_HEADER_ADDR
  colonHdr,  \* COLON_HDR: the open definition's header, ROM (0) when none
  state,     \* STATE: TRUE while compiling
  target,    \* FORGET's target, VARIABLE_N's data size (a register)
  tape,      \* the LIB image SAVE-LIB wrote
  linked,    \* history: the RAM headers FIND meets from LATEST
  whole,     \* history: those of words completely defined
  bodyEnd,   \* history: where each word's code and data end
  cut,       \* history: variables whose data a BREAK left above HERE
  nested     \* history: a word that builds, removes, saves or loads words
             \* was run while COLON_HDR named a definition

vars == <<pc, here, latest, mem, newHeader, colonHdr, state, target, tape,
          linked, whole, bodyEnd, cut, nested>>
chainVars == <<latest, linked, whole, bodyEnd, cut>>
-----------------------------------------------------------------------------
NoTape == [here |-> FORTH_DICT_RAM, latest |-> ROM,
           mem |-> [a \in Addresses |-> Code], linked |-> {}, whole |-> {},
           cut |-> {}, bodyEnd |-> [a \in Addresses |-> a + 1]]

Init ==
  /\ pc = "idle"
  /\ here = FORTH_DICT_RAM /\ latest = ROM
  /\ mem = NoTape.mem
  /\ newHeader = ROM /\ colonHdr = ROM
  /\ state = FALSE
  /\ target = 0
  /\ tape = NoTape
  /\ linked = {} /\ whole = {} /\ cut = {} /\ nested = FALSE
  /\ bodyEnd = NoTape.bodyEnd

Points == {"idle", "built", "noted", "colonLinked", "createBuilt", "varBuilt",
           "varLinked", "semicolon", "forget", "throw", "report"}

(* The definition a user is in the middle of: its header can still be found.*)
Open == colonHdr # ROM /\ colonHdr \in linked
Interpreting == pc = "idle" /\ ~ state

\* A word that builds, removes, saves or loads words is run: nothing asks whether
\* a definition is open.
Defining == Interpreting /\ nested' = (nested \/ colonHdr # ROM)

\* Whose code or data the units at HERE become, and the end of what HERE keeps for a
\* word: its code alone (a header, a unit) when a BREAK cut its data off.
Owner == IF colonHdr # ROM THEN colonHdr ELSE latest
End(a) == IF a \in cut THEN a + 2 ELSE bodyEnd[a]
Extended(e) == IF Owner \in Addresses \ cut THEN [bodyEnd EXCEPT ![Owner] = e] ELSE bodyEnd

Below(S, a) == {b \in S : b < a}

\* The history when the headers from h up are gone.
Rewound(h) ==
  /\ linked' = Below(linked, h)
  /\ whole' = Below(whole, h)
  /\ cut' = Below(cut, h)
  /\ bodyEnd' = [a \in Addresses |-> IF a < h THEN bodyEnd[a] ELSE a + 1]

\* (a mutant of Room) DICT_ROOM checks the ceiling itself, not the reserve below it.
RoomToCeiling(n) == here + n <= CEILING

\* DICT_ROOM: n units fit below the reserve.
Room(n) == here + n <= CEILING - Reserve
NoRoom(n) ==
  /\ ~ Room(n)
  /\ pc' = "throw"
  /\ UNCHANGED <<here, chainVars, mem, newHeader, colonHdr, state, target, tape>>

\* HEADER_BUILD: LINK and the name at HERE; LATEST does not change.
HeaderBuild(next) ==
  /\ mem' = [mem EXCEPT ![here] = latest]
  /\ newHeader' = here
  /\ here' = here + 1
  /\ pc' = next

\* A unit of code compiled at HERE.
CompileCode(m, a) == [m EXCEPT ![a] = Code]

\* HEADER_LINK: the new word can be found; its body ends at e.
HeaderLink(e) ==
  /\ latest' = newHeader
  /\ linked' = linked \cup {newHeader}
  /\ bodyEnd' = [bodyEnd EXCEPT ![newHeader] = e]
  /\ cut' = cut \ {newHeader}
-----------------------------------------------------------------------------
(* `:` and `;`.                                                             *)

Colon ==
  /\ Defining
  /\ \/ NoRoom(0)
     \/ /\ Room(0)
        /\ HeaderBuild("built")
        /\ UNCHANGED <<chainVars, colonHdr, state, target, tape>>

\* (a mutant of ColonNotes) COLON_HDR noted only after the link: a BREAK between the two loses it.
ColonNotesLate ==
  /\ pc = "built"
  /\ pc' = "noted"
  /\ UNCHANGED <<here, chainVars, mem, newHeader, colonHdr, state, target, tape, nested>>

ColonNotes == \* COLON_HDR and COLON_XT, before the link
  /\ pc = "built"
  /\ colonHdr' = newHeader
  /\ pc' = "noted"
  /\ UNCHANGED <<here, chainVars, mem, newHeader, state, target, tape, nested>>

ColonLinks ==
  /\ pc = "noted"
  /\ HeaderLink(here)
  /\ pc' = "colonLinked"
  /\ UNCHANGED <<here, whole, mem, newHeader, colonHdr, state, target, tape, nested>>

ColonCompiles == \* W_RBRACKET
  /\ pc = "colonLinked"
  /\ state' = TRUE
  /\ pc' = "idle"
  /\ UNCHANGED <<here, chainVars, mem, newHeader, colonHdr, target, tape, nested>>

\* The body: compiled words and literals, whose room nobody checks.
Compile ==
  /\ pc = "idle" /\ state
  /\ here - colonHdr < MaxBody
  /\ mem' = CompileCode(mem, here)
  /\ here' = here + 1
  /\ bodyEnd' = Extended(here + 1)
  /\ UNCHANGED <<pc, latest, linked, whole, cut, newHeader, colonHdr, state, target,
                 tape, nested>>

LeftBracket ==
  /\ pc = "idle" /\ state
  /\ state' = FALSE
  /\ UNCHANGED <<pc, here, chainVars, mem, newHeader, colonHdr, target, tape, nested>>

\* Outside a definition `]` compiles code that no word has: that is left out.
RightBracket ==
  /\ Interpreting /\ Open
  /\ state' = TRUE
  /\ UNCHANGED <<pc, here, chainVars, mem, newHeader, colonHdr, target, tape, nested>>

\* `;` compiles the RET and leaves compilation ...
Semicolon ==
  /\ pc = "idle" /\ state
  /\ here - colonHdr <= MaxBody
  /\ mem' = CompileCode(mem, here)
  /\ here' = here + 1
  /\ bodyEnd' = Extended(here + 1)
  /\ state' = FALSE
  /\ pc' = "semicolon"
  /\ UNCHANGED <<latest, linked, whole, cut, newHeader, colonHdr, target, tape, nested>>

\* (a mutant of ColonClose) `;` does not close the definition.
ColonStaysOpen ==
  /\ pc = "semicolon"
  /\ whole' = whole \cup {colonHdr}
  /\ pc' = "idle"
  /\ UNCHANGED <<here, latest, linked, bodyEnd, cut, mem, newHeader, colonHdr, state,
                 target, tape, nested>>

\* ... and closes the definition (COLON_CLOSE).
ColonClose ==
  /\ pc = "semicolon"
  /\ whole' = whole \cup {colonHdr}
  /\ colonHdr' = ROM
  /\ pc' = "idle"
  /\ UNCHANGED <<here, latest, linked, bodyEnd, cut, mem, newHeader, state, target,
                 tape, nested>>
-----------------------------------------------------------------------------
(* CREATE, VARIABLE_N (VARIABLE, ARRAY, STRING, FVARIABLE) and CONSTANT.    *)

Create ==
  /\ Defining
  /\ \/ NoRoom(0)
     \/ /\ Room(0)
        /\ HeaderBuild("createBuilt")
        /\ UNCHANGED <<chainVars, colonHdr, state, target, tape>>

CreateLinks == \* the 6-byte run time, then HEADER_LINK
  /\ pc = "createBuilt"
  /\ mem' = CompileCode(mem, here)
  /\ here' = here + 1
  /\ HeaderLink(here + 1)
  /\ whole' = whole \cup {newHeader}
  /\ pc' = "idle"
  /\ UNCHANGED <<newHeader, colonHdr, state, target, tape, nested>>

\* n = 0 is CONSTANT: no data after the code.
Variable(n) ==
  /\ Defining
  /\ \/ NoRoom(n)
     \/ /\ Room(n)
        /\ HeaderBuild("varBuilt")
        /\ target' = n
        /\ UNCHANGED <<chainVars, colonHdr, state, tape>>

VariableLinks == \* the literal, its RET and HEADER_LINK (HEADER_END)
  /\ pc = "varBuilt"
  /\ mem' = CompileCode(mem, here)
  /\ here' = here + 1
  /\ HeaderLink(here + 1 + target)
  /\ whole' = whole \cup {newHeader}
  /\ pc' = "varLinked"
  /\ UNCHANGED <<newHeader, colonHdr, state, target, tape, nested>>

VariableData == \* the data zeroed, HERE past it
  /\ pc = "varLinked"
  /\ mem' = [a \in Addresses |->
               IF here <= a /\ a < here + target THEN Code ELSE mem[a]]
  /\ here' = here + target
  /\ target' = 0
  /\ pc' = "idle"
  /\ UNCHANGED <<chainVars, newHeader, colonHdr, state, tape, nested>>
-----------------------------------------------------------------------------
(* , C, and ALLOT.                                                          *)

Comma ==
  /\ Interpreting /\ UNCHANGED nested
  /\ \/ NoRoom(1)
     \/ /\ Room(1)
        /\ mem' = CompileCode(mem, here)
        /\ here' = here + 1
        /\ bodyEnd' = Extended(here + 1)
        /\ UNCHANGED <<pc, latest, linked, whole, cut, newHeader, colonHdr, state,
                       target, tape>>

Allot(n) ==
  /\ Interpreting /\ UNCHANGED nested
  /\ \/ NoRoom(n)
     \/ /\ Room(n)
        /\ here' = here + n
        /\ UNCHANGED <<pc, chainVars, mem, newHeader, colonHdr, state, target,
                       tape>>

\* A negative ALLOT is not checked; here a program gives back only space it had
\* from ALLOT.
AllotBack(n) ==
  /\ Interpreting
  /\ here - n >= IF Owner \in Addresses THEN End(Owner) ELSE FORTH_DICT_RAM
  /\ here' = here - n
  /\ UNCHANGED <<pc, chainVars, mem, newHeader, colonHdr, state, target, tape, nested>>
-----------------------------------------------------------------------------
(* FORGET: LATEST first ...                                                 *)
\* (a mutant of Forget) FORGET stores HERE before LATEST.
ForgetHereFirst(h) ==
  /\ Defining
  /\ h \in linked
  /\ here' = h
  /\ target' = h
  /\ pc' = "idle"
  /\ UNCHANGED <<chainVars, mem, newHeader, colonHdr, state, tape>>

Forget(h) ==
  /\ Defining
  /\ h \in linked
  /\ latest' = mem[h]
  /\ Rewound(h)
  /\ target' = h
  /\ pc' = "forget"
  /\ UNCHANGED <<here, mem, newHeader, colonHdr, state, tape>>

\* (a mutant of ForgetHere) FORGET leaves HERE one unit low: at the end of the word before.
ForgetHereLow ==
  /\ pc = "forget"
  /\ here' = IF target > FORTH_DICT_RAM THEN target - 1 ELSE target
  /\ target' = 0
  /\ pc' = "idle"
  /\ UNCHANGED <<chainVars, mem, newHeader, colonHdr, state, tape, nested>>

ForgetHere == \* ... then HERE
  /\ pc = "forget"
  /\ here' = target
  /\ target' = 0
  /\ pc' = "idle"
  /\ UNCHANGED <<chainVars, mem, newHeader, colonHdr, state, tape, nested>>
-----------------------------------------------------------------------------
(* SAVE-LIB and LOAD-LIB.                                                   *)

SaveLib ==
  /\ Defining
  /\ \/ /\ here + 1 > CEILING   \* the CRC does not fit
        /\ pc' = "throw"
        /\ UNCHANGED tape
     \/ /\ here + 1 <= CEILING
        /\ tape' = [here |-> here, latest |-> latest,
                    mem |-> [a \in Addresses |->
                               IF a < here THEN mem[a] ELSE Code],
                    linked |-> linked, whole |-> whole, cut |-> cut, bodyEnd |-> bodyEnd]
        /\ UNCHANGED pc
  /\ UNCHANGED <<here, chainVars, mem, newHeader, colonHdr, state, target>>

\* The whole load runs with interrupts off.  Refused or nothing written: the
\* dictionary is as it was; part of it written or a wrong CRC: it is emptied.
LoadLib ==
  /\ Defining
  /\ \/ /\ pc' = "throw"
        /\ UNCHANGED <<here, chainVars, mem>>
     \/ /\ pc' = "throw"
        /\ here' = FORTH_DICT_RAM /\ latest' = ROM
        /\ Rewound(FORTH_DICT_RAM)
        /\ UNCHANGED mem
     \/ /\ here' = tape.here /\ latest' = tape.latest
        /\ mem' = [a \in Addresses |->
                     IF a < tape.here THEN tape.mem[a] ELSE mem[a]]
        /\ linked' = tape.linked /\ whole' = tape.whole /\ cut' = tape.cut
        /\ bodyEnd' = tape.bodyEnd
        /\ UNCHANGED pc
  /\ UNCHANGED <<newHeader, colonHdr, state, target, tape>>
-----------------------------------------------------------------------------
(* Errors and BREAK.                                                        *)

Error == \* an unknown word, STACK?, ABORT: reported, CATCH does not see it
  /\ pc = "idle"
  /\ pc' = "report"
  /\ UNCHANGED <<here, chainVars, mem, newHeader, colonHdr, state, target, tape, nested>>

Throw == \* a word throws
  /\ pc = "idle"
  /\ pc' = "throw"
  /\ UNCHANGED <<here, chainVars, mem, newHeader, colonHdr, state, target, tape, nested>>

ThrowCaught == \* CATCH: the line goes on, STATE and the definition as they were
  /\ pc = "throw"
  /\ target' = 0
  /\ pc' = "idle"
  /\ UNCHANGED <<here, chainVars, mem, newHeader, colonHdr, state, tape, nested>>

ThrowUncaught ==
  /\ pc = "throw"
  /\ pc' = "report"
  /\ UNCHANGED <<here, chainVars, mem, newHeader, colonHdr, state, target, tape, nested>>

\* (a mutant of ColonDrop) COLON_DROP loads HERE from the wrong register pair: the header's LINK.
ColonDropHere ==
  /\ pc = "report"
  /\ state' = FALSE
  /\ IF colonHdr = ROM
     THEN UNCHANGED <<here, chainVars>>
     ELSE /\ latest' = mem[colonHdr]
          /\ here' = mem[colonHdr]
          /\ Rewound(colonHdr)
  /\ colonHdr' = ROM
  /\ target' = 0
  /\ pc' = "idle"
  /\ UNCHANGED <<mem, newHeader, tape, nested>>

\* REPORT_INTERP_ERROR ends compilation; the console drops the definition left
\* open (COLON_DROP).
ColonDrop ==
  /\ pc = "report"
  /\ state' = FALSE
  /\ IF colonHdr = ROM
     THEN UNCHANGED <<here, chainVars>>
     ELSE /\ latest' = mem[colonHdr]
          /\ here' = colonHdr
          /\ Rewound(colonHdr)
  /\ colonHdr' = ROM
  /\ target' = 0
  /\ pc' = "idle"
  /\ UNCHANGED <<mem, newHeader, tape, nested>>

\* BREAK throws, and any CATCH around the word may catch it: ' LOAD-TEXT CATCH runs
\* definitions too.  In VARIABLE_N's loop HERE is left below the data.  At "throw" and
\* "report" a BREAK only raises once more: what it may lead to is what a THROW leads to.
Break ==
  /\ pc \notin {"throw", "report"}
  /\ pc' = "throw"
  /\ cut' = IF pc = "varLinked" /\ target # 0 THEN cut \cup {newHeader} ELSE cut
  /\ UNCHANGED <<here, latest, linked, whole, bodyEnd, mem, newHeader, colonHdr, state,
                 target, tape, nested>>
-----------------------------------------------------------------------------
Definition == \/ Colon \/ ColonNotes \/ ColonLinks \/ ColonCompiles \/ Compile
              \/ LeftBracket \/ RightBracket \/ Semicolon \/ ColonClose
DataWord == \/ Create \/ CreateLinks
            \/ \E n \in 0 .. MaxData : Variable(n)
            \/ VariableLinks \/ VariableData
Space == \/ Comma
         \/ \E n \in 1 .. MaxData : Allot(n) \/ AllotBack(n)
Removal == (\E h \in linked : Forget(h)) \/ ForgetHere
Library == SaveLib \/ LoadLib
Failure == \/ Error \/ Throw \/ ThrowCaught \/ ThrowUncaught \/ ColonDrop
           \/ Break

Next == Definition \/ DataWord \/ Space \/ Removal \/ Library \/ Failure

Spec == Init /\ [][Next]_vars
-----------------------------------------------------------------------------
(* Properties.                                                              *)

TypeOK ==
  /\ pc \in Points
  /\ here \in Addresses /\ latest \in Units /\ mem \in Memories
  /\ newHeader \in Addresses \cup {ROM} /\ colonHdr \in Addresses \cup {ROM}
  /\ state \in BOOLEAN /\ target \in Nat
  /\ tape \in Images
  /\ linked \subseteq Addresses /\ whole \subseteq Addresses
  /\ bodyEnd \in Extents
  /\ cut \subseteq Addresses /\ nested \in BOOLEAN

\* x is the highest header of S, or the ROM chain when S is empty.
IsTop(x, S) ==
  /\ x \in S \cup {ROM}
  /\ \A a \in S : a <= x

(* LATEST and the LINKs visit exactly the linked headers, newest first, down *)
(* to the ROM, and HERE is above every one: a walk of FIND, WORDS or FORGET   *)
(* never leaves the dictionary, whatever store a BREAK fell behind, caught or  *)
(* not.  (With a definition open, FORGET, LOAD-LIB and the words that build a  *)
(* header break that: COLON_HDR goes on naming it.)                            *)
ChainSound ==
  ~ nested =>
    /\ IsTop(latest, linked)
    /\ \A a \in linked : a < here /\ IsTop(mem[a], Below(linked, a))

(* Between words, HERE is past the code and data of every complete word, and  *)
(* no later header lies inside them: nothing a later definition compiles can   *)
(* overwrite a word that can still be run.  A variable whose data a BREAK left *)
(* above HERE keeps its code alone, and costs no other word anything.          *)
BodiesApart ==
  pc = "idle" /\ ~ nested =>
    \A a \in whole :
      /\ End(a) <= here
      /\ \A b \in linked : a < b => End(a) <= b

(* A word with half its code can be found only while its definition is the    *)
(* open one, the one an error drops, wherever a BREAK was caught in `:` or `;` *)
(* and until a word is built, removed or loaded over it.                       *)
HalfOnlyWhileOpen == ~ nested => \A a \in linked \ whole : a = colonHdr

(* The reserve is enough for any definition's body: HERE never enters the line *)
(* store.                                                                      *)
BelowLineStore == here <= CEILING

(* Dropping what a failed line left open never removes a complete word, unless *)
(* one was built, removed or loaded while the definition was open.             *)
ErrorsKeepWords == [][pc = "report" /\ ~ nested => whole \subseteq whole']_vars
=============================================================================
