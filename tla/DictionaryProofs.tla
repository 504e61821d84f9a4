-------------------------- MODULE DictionaryProofs --------------------------
(***************************************************************************)
(* What Dictionary's properties rest on, for every size of the dictionary,  *)
(* of its reserve and of the words: one inductive invariant, and the          *)
(* properties that follow from it.                                            *)
(*                                                                         *)
(* The types and the sizes hold of every program (Types).  The chain, and    *)
(* what is said of words and of the open definition (Chains), hold with      *)
(* every BREAK accepted and caught, until a word that builds, removes, saves *)
(* or loads words is run over an open definition (nested): from there on     *)
(* COLON_HDR names a header the chain may no longer hold.                     *)
(***************************************************************************)
EXTENDS Dictionary, TLAPS

Limit == CEILING - Reserve
Building == pc \in {"built", "noted", "createBuilt", "varBuilt"}

\* Every header was built below the reserve, and every word has an end.
HeadersInv ==
  /\ \A a \in linked : a <= Limit
  /\ \A a \in tape.linked : a <= Limit
  /\ newHeader <= Limit /\ colonHdr <= Limit
  /\ \A a \in Addresses : 1 <= bodyEnd[a] /\ 1 <= tape.bodyEnd[a]

\* HERE is past the reserve by a definition's body at most.
HereInv ==
  /\ here <= Limit + MaxBody + 1
  /\ tape.here <= Limit + MaxBody + 1
  /\ Building => here <= Limit + 1
  /\ pc = "varBuilt" => here + target <= Limit + 1
  /\ pc = "varLinked" => here + target <= Limit + 2

\* What the running word holds at its points.
PointInv ==
  /\ Building \/ pc = "varLinked" => newHeader # ROM
  /\ pc = "forget" => target \in Addresses /\ target <= Limit
  /\ pc \notin {"idle", "throw", "report"} => ~ state
  /\ state \/ pc \in {"noted", "colonLinked", "semicolon"} => colonHdr # ROM

Types == TypeOK /\ HeadersInv /\ HereInv /\ PointInv

\* Where each word's units end, data cut off by a BREAK left out; and on the tape.
Full == [a \in Addresses |-> End(a)]
TapeFull ==
  [a \in Addresses |-> IF a \in tape.cut THEN a + 2 ELSE tape.bodyEnd[a]]

\* A chain (of the dictionary, or of the image on tape) whose words end below h.
Sound(l, m, S, end, h) ==
  /\ IsTop(l, S)
  /\ \A a \in S : /\ a < h /\ a < end[a]
                  /\ IsTop(m[a], Below(S, a))
                  /\ \A b \in S : a < b => end[a] <= b

Ends(S, end, h) == \A a \in S : end[a] <= h

ChainInv ==
  /\ Sound(latest, mem, linked, Full, here)
  /\ pc # "varLinked" => Ends(linked, Full, here)
  /\ cut \subseteq linked
  /\ \A a \in Addresses : a < bodyEnd[a]

TapeInv ==
  /\ Sound(tape.latest, tape.mem, tape.linked, TapeFull, tape.here)
  /\ Ends(tape.linked, TapeFull, tape.here)
  /\ tape.whole = tape.linked /\ tape.cut \subseteq tape.linked
  /\ \A a \in Addresses : a < tape.bodyEnd[a]

\* A header not linked yet continues the chain.
Next1(h) ==
  /\ h \in Addresses /\ h < here
  /\ mem[h] = latest
  /\ \A a \in linked : a < h /\ Full[a] <= h

BuildInv ==
  /\ Building => /\ Next1(newHeader)
                 /\ colonHdr = IF pc = "noted" THEN newHeader ELSE ROM
  /\ pc = "varLinked" => /\ newHeader \in linked /\ newHeader = latest
                         /\ newHeader + 2 <= here
                         /\ Ends(linked, Full, here + target)

\* The open definition is the last word, or, its BREAK caught, one not linked.
OpenInv ==
  /\ colonHdr # ROM =>
       \/ /\ colonHdr \in linked /\ colonHdr = latest
          /\ pc \in {"colonLinked", "idle", "semicolon", "throw", "report"}
       \/ /\ colonHdr \notin linked /\ Next1(colonHdr)
          /\ pc \in {"noted", "idle", "throw", "report"}
  /\ state \/ pc \in {"colonLinked", "semicolon"} => colonHdr \in linked

WholeInv ==
  /\ whole \subseteq linked
  /\ colonHdr \notin whole
  /\ \A a \in linked \ whole : a = colonHdr

ForgetInv ==
  pc = "forget" =>
    /\ target <= here
    /\ \A a \in linked : a < target /\ Full[a] <= target

Chains == ChainInv /\ TapeInv /\ BuildInv /\ OpenInv /\ WholeInv /\ ForgetInv

IInv == Types /\ (~ nested => Chains)
-----------------------------------------------------------------------------
(* Numbers and memory.                                                        *)

LEMMA AddressesAreNumbers ==
  /\ Addresses \subseteq Nat
  /\ ROM \notin Addresses
  /\ \A a \in Addresses : 1 <= a
BY DictAssumption DEF Addresses, FORTH_DICT_RAM, ROM

LEMMA Sizes ==
  /\ Limit \in Nat /\ 1 <= Limit /\ Limit <= CEILING
  /\ MaxBody \in Nat /\ 1 <= MaxBody /\ CEILING \in Nat /\ MaxData \in Nat
  /\ Limit = CEILING - Reserve
BY DictAssumption DEF Limit

LEMMA Fits ==
  \A n \in Nat : 1 <= n /\ n <= Limit + MaxBody + 1 => n \in Addresses
BY Sizes DEF Addresses, FORTH_DICT_RAM

(* What every step starts from, with the types spelled out.                   *)
LEMMA Before ==
  ASSUME Types
  PROVE  /\ here \in Nat /\ 1 <= here /\ here \in Addresses
         /\ here <= Limit + MaxBody + 1
         /\ \A a \in linked : a \in Nat /\ a \in Addresses /\ 1 <= a
         /\ newHeader \in Nat /\ colonHdr \in Nat /\ target \in Nat
         /\ newHeader <= Limit /\ colonHdr <= Limit
         /\ ROM = 0 /\ Code \in Units /\ ROM \in Units
         /\ mem \in Memories /\ bodyEnd \in Extents
         /\ linked \in SUBSET Addresses
<1>1. /\ here \in Addresses /\ linked \subseteq Addresses /\ bodyEnd \in Extents
      /\ mem \in Memories /\ target \in Nat
      /\ newHeader \in Addresses \cup {ROM} /\ colonHdr \in Addresses \cup {ROM}
  BY DEF Types, TypeOK
<1>2. here \in Nat /\ 1 <= here
  BY <1>1, AddressesAreNumbers
<1>3. \A a \in linked : a \in Nat /\ a \in Addresses /\ 1 <= a
  BY <1>1, AddressesAreNumbers
<1>4. newHeader \in Nat /\ colonHdr \in Nat
  BY <1>1, AddressesAreNumbers DEF ROM
<1> QED BY <1>1, <1>2, <1>3, <1>4 DEF Types, HereInv, HeadersInv, ROM, Units
-----------------------------------------------------------------------------
(* Types and sizes, whatever is run.  First the steps that move no memory:    *)
(* the running word reaches a point, or stops.                                 *)

LEMMA QuietTypes ==
  ASSUME Types,
         UNCHANGED <<here, latest, mem, newHeader, linked, bodyEnd, tape>>,
         \/ pc' \in {"idle", "throw", "report"}
         \/ pc = "built" /\ pc' = "noted" /\ ~ state',
         \/ colonHdr' \in {colonHdr, ROM}
         \/ pc = "built" /\ colonHdr' = newHeader,
         state' \in BOOLEAN, state' \/ pc' = "noted" => colonHdr' # ROM,
         target' \in {target, 0},
         whole' \subseteq Addresses, cut' \subseteq Addresses, nested' \in BOOLEAN
  PROVE  Types'
<1>1. TypeOK'
  BY DEF Types, TypeOK, Points
<1>2. HeadersInv'
  <2>1. newHeader' <= Limit /\ colonHdr' <= Limit
    BY Before, Sizes DEF ROM
  <2> QED BY <2>1 DEF Types, HeadersInv
<1>3. HereInv'
  BY DEF Types, HereInv, Building
<1>4. PointInv'
  BY DEF Types, PointInv, Building
<1> QED BY <1>1, <1>2, <1>3, <1>4 DEF Types

LEMMA NoRoomTypes ==
  ASSUME Types, NEW n, pc = "idle", NoRoom(n), nested' \in BOOLEAN PROVE Types'
BY QuietTypes DEF NoRoom, chainVars, Types, TypeOK, PointInv

LEMMA NestedBoolean == ASSUME Types, Defining PROVE nested' \in BOOLEAN
BY DEF Types, TypeOK, Defining

LEMMA MovesTypes ==
  ASSUME Types,
         \/ ColonNotes \/ LeftBracket \/ RightBracket \/ ColonCompiles
         \/ ColonClose \/ Error \/ Throw \/ ThrowCaught \/ ThrowUncaught \/ Break
  PROVE  Types'
<1> USE DEF chainVars
<1>1. /\ whole \subseteq Addresses /\ cut \subseteq Addresses /\ nested \in BOOLEAN
      /\ state \in BOOLEAN /\ (state => colonHdr # ROM)
  BY DEF Types, TypeOK, PointInv
<1>2. CASE ColonNotes
  <2>1. newHeader # ROM /\ ~ state
    BY <1>2 DEF Types, PointInv, Building, ColonNotes
  <2> QED BY <1>1, <1>2, <2>1, QuietTypes DEF ColonNotes
<1>3. CASE LeftBracket \/ RightBracket
  BY <1>1, <1>3, QuietTypes DEF LeftBracket, RightBracket, Interpreting, Open
<1>4. CASE ColonCompiles
  <2>1. colonHdr # ROM
    BY <1>4 DEF Types, PointInv, ColonCompiles
  <2> QED BY <1>1, <1>4, <2>1, QuietTypes DEF ColonCompiles
<1>5. CASE ColonClose
  <2>1. colonHdr \in Addresses /\ ~ state
    BY <1>5 DEF Types, TypeOK, PointInv, ColonClose
  <2> QED BY <1>1, <1>5, <2>1, QuietTypes DEF ColonClose
<1>6. CASE Error \/ Throw \/ ThrowCaught \/ ThrowUncaught
  BY <1>1, <1>6, QuietTypes DEF Error, Throw, ThrowCaught, ThrowUncaught
<1>7. CASE Break
  <2>1. pc = "varLinked" => newHeader \in Addresses
    BY DEF Types, TypeOK, PointInv
  <2>2. cut' \subseteq Addresses
    BY <1>1, <1>7, <2>1 DEF Break
  <2> QED BY <1>1, <1>7, <2>2, QuietTypes DEF Break
<1> QED BY <1>2, <1>3, <1>4, <1>5, <1>6, <1>7
-----------------------------------------------------------------------------
(* Steps that store a header, a unit of code, or HERE alone.                   *)

LEMMA HeaderTypes ==
  ASSUME Types, Defining, NEW n \in Nat, Room(n),
         NEW next \in {"built", "createBuilt", "varBuilt"}, HeaderBuild(next),
         target' \in Nat, next = "varBuilt" => target' = n,
         UNCHANGED <<chainVars, colonHdr, state, tape>>
  PROVE  Types'
<1> USE DEF chainVars
<1>1. ~ state /\ here + n <= Limit /\ nested' \in BOOLEAN
  BY NestedBoolean DEF Defining, Interpreting, Room, Limit
<1>2. /\ here' = here + 1 /\ here' \in Nat /\ 1 <= here' /\ here' + n <= Limit + 1
      /\ here' <= Limit + 1 /\ here <= Limit /\ here' <= Limit + MaxBody + 1
  BY <1>1, Before, Sizes DEF HeaderBuild
<1>3. mem' \in Memories
  BY Before DEF HeaderBuild, Memories, Types, TypeOK
<1>4. TypeOK'
  BY <1>1, <1>2, <1>3, Before, Fits DEF HeaderBuild, Types, TypeOK, Points
<1>5. HeadersInv'
  BY <1>2 DEF Types, HeadersInv, HeaderBuild
<1>6. HereInv'
  BY <1>2 DEF Types, HereInv, HeaderBuild, Building
<1>7. PointInv'
  BY <1>1, Before, AddressesAreNumbers DEF Types, PointInv, HeaderBuild, Building
<1> QED BY <1>4, <1>5, <1>6, <1>7 DEF Types

LEMMA LinkTypes ==
  ASSUME Types, Building, NEW e \in Nat, 1 <= e, HeaderLink(e), mem' \in Memories,
         here' \in Nat, here <= here', here' <= Limit + MaxBody + 1,
         whole' \in {whole, whole \cup {newHeader}},
         \/ pc = "noted" /\ pc' = "colonLinked"
         \/ pc' = "idle"
         \/ pc' = "varLinked" /\ here' + target <= Limit + 2,
         UNCHANGED <<newHeader, colonHdr, state, target, tape, nested>>
  PROVE  Types'
<1>1. newHeader \in Addresses /\ newHeader # ROM /\ ~ state
  BY DEF Types, TypeOK, PointInv, Building
<1>2. 1 <= here' /\ here' \in Addresses
  BY Before, Fits
<1>3. TypeOK'
  BY <1>1, <1>2 DEF Types, TypeOK, HeaderLink, Points, Units, Extents
<1>4. HeadersInv'
  <2>1. \A a \in Addresses : bodyEnd'[a] = e \/ bodyEnd'[a] = bodyEnd[a]
    BY Before DEF HeaderLink, Extents
  <2>2. \A a \in Addresses : 1 <= bodyEnd'[a]
    BY <2>1 DEF Types, HeadersInv
  <2> QED BY <2>2 DEF Types, HeadersInv, HeaderLink
<1>5. HereInv'
  BY DEF Types, HereInv, Building
<1>6. PointInv'
  BY <1>1 DEF Types, PointInv, Building
<1> QED BY <1>3, <1>4, <1>5, <1>6 DEF Types

LEMMA LinksTypes ==
  ASSUME Types, ColonLinks \/ CreateLinks \/ VariableLinks PROVE Types'
<1>1. /\ mem \in Memories /\ here \in Nat /\ 1 <= here /\ target \in Nat
      /\ (here <= Limit + 1 => here + 1 <= Limit + MaxBody + 1)
  BY Before, Sizes
<1>2. CompileCode(mem, here) \in Memories
  BY Before DEF CompileCode, Memories
<1>3. CASE ColonLinks
  BY <1>1, <1>3, Before, LinkTypes DEF ColonLinks, Building
<1>4. CASE CreateLinks
  <2>1. Building /\ here <= Limit + 1 /\ here' = here + 1 /\ here + 1 \in Nat
    BY <1>1, <1>4 DEF CreateLinks, Building, Types, HereInv
  <2> QED BY <1>1, <1>2, <1>4, <2>1, LinkTypes DEF CreateLinks
<1>5. CASE VariableLinks
  <2>1. Building /\ here <= Limit + 1 /\ here' = here + 1 /\ here + 1 \in Nat
    BY <1>1, <1>5 DEF VariableLinks, Building, Types, HereInv
  <2>2. here + 1 + target \in Nat /\ 1 <= here + 1 + target
    BY <1>1
  <2>3. here' + target <= Limit + 2
    <3>1. here + target <= Limit + 1
      BY <1>5 DEF VariableLinks, Types, HereInv
    <3> QED BY <1>1, <2>1, <3>1, Sizes
  <2> QED BY <1>1, <1>2, <1>5, <2>1, <2>2, <2>3, LinkTypes DEF VariableLinks
<1> QED BY <1>3, <1>4, <1>5

LEMMA ExtentsExtended ==
  ASSUME Types, NEW e \in Nat, 1 <= e
  PROVE  Extended(e) \in Extents /\ \A a \in Addresses : 1 <= Extended(e)[a]
<1>1. bodyEnd \in Extents /\ \A a \in Addresses : 1 <= bodyEnd[a]
  BY DEF Types, TypeOK, HeadersInv
<1>2. [bodyEnd EXCEPT ![Owner] = e] \in Extents
  BY <1>1 DEF Extents
<1>3. \A a \in Addresses : 1 <= [bodyEnd EXCEPT ![Owner] = e][a]
  BY <1>1 DEF Extents
<1> QED BY <1>1, <1>2, <1>3 DEF Extended

(* A unit compiled at HERE.                                                    *)
LEMMA GrowTypes ==
  ASSUME Types, pc = "idle", mem' = CompileCode(mem, here), here' = here + 1,
         here + 1 <= Limit + MaxBody + 1, bodyEnd' = Extended(here + 1),
         \/ pc' = pc
         \/ pc' = "semicolon" /\ colonHdr # ROM /\ ~ state',
         state' \in {state, FALSE},
         UNCHANGED <<latest, linked, whole, cut, newHeader, colonHdr, target, tape,
                     nested>>
  PROVE  Types'
<1>1. here' \in Nat /\ 1 <= here' /\ here' <= Limit + MaxBody + 1 /\ here' \in Addresses
  BY Before, Fits
<1>2. bodyEnd' \in Extents /\ \A a \in Addresses : 1 <= bodyEnd'[a]
  BY <1>1, ExtentsExtended
<1>3. mem' \in Memories
  BY Before DEF CompileCode, Memories
<1>4. TypeOK'
  BY <1>1, <1>2, <1>3 DEF Types, TypeOK, Points
<1>5. HeadersInv'
  BY <1>2 DEF Types, HeadersInv
<1>6. HereInv'
  BY <1>1 DEF Types, HereInv, Building
<1>7. PointInv'
  <2>1. state' => colonHdr' # ROM
    <3>1. state => colonHdr # ROM
      BY DEF Types, PointInv
    <3> QED BY <3>1
  <2>2. /\ pc' \in {"idle", "semicolon"}
        /\ pc' = "semicolon" => ~ state' /\ colonHdr' # ROM
    OBVIOUS
  <2> QED BY <2>1, <2>2 DEF PointInv, Building
<1> QED BY <1>4, <1>5, <1>6, <1>7 DEF Types

LEMMA CompileTypes == ASSUME Types, Compile \/ Semicolon PROVE Types'
<1>1. colonHdr # ROM /\ state \in BOOLEAN
  BY DEF Types, TypeOK, PointInv, Compile, Semicolon
<1>2. here + 1 <= Limit + MaxBody + 1
  BY Before, Sizes DEF Compile, Semicolon
<1> QED BY <1>1, <1>2, GrowTypes DEF Compile, Semicolon

LEMMA CommaTypes == ASSUME Types, Comma PROVE Types'
<1>1. nested' \in BOOLEAN /\ pc = "idle"
  BY DEF Types, TypeOK, Comma, Interpreting
<1>2. CASE NoRoom(1)
  BY <1>1, <1>2, NoRoomTypes
<1>3. CASE ~ NoRoom(1)
  <2>1. here + 1 <= Limit + MaxBody + 1
    BY <1>3, Before, Sizes DEF Comma, Room
  <2> QED BY <1>1, <1>3, <2>1, GrowTypes DEF Comma, Types, TypeOK
<1> QED BY <1>2, <1>3

(* HERE moves between words: VARIABLE's data, ALLOT either way, FORGET's end.    *)
LEMMA HereTypes ==
  ASSUME Types, pc' = "idle", here' \in Nat, 1 <= here', here' <= Limit + MaxBody + 1,
         mem' \in Memories, target' \in {target, 0},
         UNCHANGED <<chainVars, newHeader, colonHdr, state, tape, nested>>
  PROVE  Types'
<1> USE DEF chainVars
<1>1. TypeOK'
  BY Fits DEF Types, TypeOK, Points
<1>2. HeadersInv' /\ HereInv'
  BY DEF Types, HeadersInv, HereInv, Building
<1>3. PointInv'
  BY DEF Types, PointInv, Building
<1> QED BY <1>1, <1>2, <1>3 DEF Types

LEMMA VariableDataTypes == ASSUME Types, VariableData PROVE Types'
<1>1. here + target <= Limit + 2
  BY DEF Types, HereInv, VariableData
<1>2. here' \in Nat /\ 1 <= here' /\ here' <= Limit + MaxBody + 1
  BY <1>1, Before, Sizes DEF VariableData
<1>3. mem' \in Memories
  BY Before DEF Memories, VariableData
<1> QED BY <1>2, <1>3, HereTypes DEF VariableData

LEMMA AllotTypes ==
  ASSUME Types, NEW n \in 1 .. MaxData, Allot(n) \/ AllotBack(n) PROVE Types'
<1>1. /\ n \in Nat /\ 1 <= n /\ nested \in BOOLEAN /\ mem \in Memories
  BY Sizes DEF Types, TypeOK
<1>2. CASE Allot(n)
  <2>1. CASE NoRoom(n)
    BY <1>1, <1>2, <2>1, NoRoomTypes DEF Allot, Interpreting
  <2>2. CASE ~ NoRoom(n)
    <3>1. here' \in Nat /\ 1 <= here' /\ here' <= Limit + MaxBody + 1
      BY <1>1, <1>2, <2>2, Before, Sizes DEF Allot, Room
    <3> QED BY <1>1, <1>2, <2>2, <3>1, HereTypes DEF Allot, Interpreting
  <2> QED BY <2>1, <2>2
<1>3. CASE AllotBack(n)
  <2>1. Owner \in Addresses => End(Owner) \in Nat /\ 1 <= End(Owner)
    <3>1. ASSUME NEW a \in Addresses PROVE End(a) \in Nat /\ 1 <= End(a)
      <4>1. a \in Nat /\ bodyEnd[a] \in Nat /\ 1 <= bodyEnd[a]
        BY AddressesAreNumbers DEF Types, TypeOK, HeadersInv, Extents
      <4> QED BY <4>1 DEF End
    <3> QED BY <3>1
  <2>2. here' = here - n /\ 1 <= here'
    <3>1. CASE Owner \in Addresses
      BY <1>1, <1>3, <2>1, <3>1, Before DEF AllotBack
    <3>2. CASE Owner \notin Addresses
      BY <1>1, <1>3, <3>2, Before DEF AllotBack, FORTH_DICT_RAM
    <3> QED BY <3>1, <3>2
  <2>3. here' \in Nat /\ here' <= Limit + MaxBody + 1
    BY <1>1, <2>2, Before, Sizes
  <2> QED BY <1>1, <1>3, <2>2, <2>3, HereTypes DEF AllotBack, Interpreting
<1> QED BY <1>2, <1>3
-----------------------------------------------------------------------------
(* Steps that take the dictionary back, or exchange it with the tape.            *)

LEMMA RewoundTypes ==
  ASSUME Types, NEW h \in Nat, 1 <= h, Rewound(h)
  PROVE  /\ linked' \subseteq linked /\ whole' \subseteq Addresses
         /\ cut' \subseteq Addresses /\ bodyEnd' \in Extents
         /\ \A a \in Addresses : 1 <= bodyEnd'[a]
<1>1. \A a \in Addresses : /\ bodyEnd[a] \in Nat /\ 1 <= bodyEnd[a]
                           /\ a + 1 \in Nat /\ 1 <= a + 1
  BY AddressesAreNumbers DEF Types, TypeOK, HeadersInv, Extents
<1> QED BY <1>1 DEF Rewound, Below, Types, TypeOK, Extents

LEMMA ForgetTypes == ASSUME Types, NEW h \in linked, Forget(h) PROVE Types'
<1> USE DEF Forget
<1>1. h \in Addresses /\ h \in Nat /\ 1 <= h /\ h <= Limit
  BY Before DEF Types, HeadersInv
<1>2. /\ linked' \subseteq linked /\ whole' \subseteq Addresses
      /\ cut' \subseteq Addresses /\ bodyEnd' \in Extents
      /\ \A a \in Addresses : 1 <= bodyEnd'[a]
  BY <1>1, RewoundTypes
<1>3. nested' \in BOOLEAN /\ ~ state /\ latest' \in Units
  BY <1>1, NestedBoolean DEF Defining, Interpreting, Types, TypeOK, Memories
<1>4. TypeOK'
  BY <1>1, <1>2, <1>3 DEF Types, TypeOK, Points
<1>5. HeadersInv'
  BY <1>2 DEF Types, HeadersInv
<1>6. HereInv'
  BY DEF Types, HereInv, Building
<1>7. PointInv'
  BY <1>1, <1>3 DEF Types, PointInv, Building
<1> QED BY <1>4, <1>5, <1>6, <1>7 DEF Types

LEMMA ForgetHereTypes == ASSUME Types, ForgetHere PROVE Types'
<1>1. target \in Addresses /\ target <= Limit /\ mem \in Memories
  BY DEF ForgetHere, Types, PointInv, TypeOK
<1>2. here' \in Nat /\ 1 <= here' /\ here' <= Limit + MaxBody + 1
  BY <1>1, AddressesAreNumbers, Sizes DEF ForgetHere
<1> QED BY <1>1, <1>2, HereTypes DEF ForgetHere

LEMMA ColonDropTypes == ASSUME Types, ColonDrop PROVE Types'
<1> USE DEF chainVars, ColonDrop
<1>1. /\ here' \in Addresses /\ here' <= Limit + MaxBody + 1
      /\ latest' \in Units /\ linked' \subseteq linked
      /\ whole' \subseteq Addresses /\ cut' \subseteq Addresses
      /\ bodyEnd' \in Extents /\ \A a \in Addresses : 1 <= bodyEnd'[a]
  <2>1. CASE colonHdr = ROM
    BY <2>1 DEF Types, TypeOK, HereInv, HeadersInv
  <2>2. CASE colonHdr # ROM
    <3>1. colonHdr \in Addresses /\ colonHdr \in Nat /\ 1 <= colonHdr
      BY <2>2, AddressesAreNumbers DEF Types, TypeOK
    <3>2. colonHdr <= Limit + MaxBody + 1 /\ mem[colonHdr] \in Units
      BY <3>1, Before, Sizes DEF Memories
    <3>3. Rewound(colonHdr) /\ here' = colonHdr /\ latest' = mem[colonHdr]
      BY <2>2
    <3> QED BY <3>1, <3>2, <3>3, RewoundTypes
  <2> QED BY <2>1, <2>2
<1>2. TypeOK'
  BY <1>1 DEF Types, TypeOK, Points
<1>3. HeadersInv'
  BY <1>1, Sizes DEF Types, HeadersInv, ROM
<1>4. HereInv' /\ PointInv'
  BY <1>1 DEF Types, HereInv, PointInv, Building
<1> QED BY <1>2, <1>3, <1>4 DEF Types

LEMMA SaveLibTypes == ASSUME Types, SaveLib PROVE Types'
<1> USE DEF SaveLib, chainVars
<1>1. pc = "idle" /\ nested' \in BOOLEAN /\ pc' \in {"idle", "throw"}
  BY NestedBoolean DEF Defining, Interpreting
<1>2. tape' = tape \/ /\ tape'.here = here /\ tape'.linked = linked
                      /\ tape'.bodyEnd = bodyEnd
  OBVIOUS
<1>3. tape' \in Images
  <2> DEFINE m == [a \in Addresses |-> IF a < here THEN mem[a] ELSE Code]
  <2>1. m \in Memories
    BY Before DEF Memories
  <2>2. tape' = tape \/ tape' = [here |-> here, latest |-> latest, mem |-> m,
                                 linked |-> linked, whole |-> whole, cut |-> cut,
                                 bodyEnd |-> bodyEnd]
    OBVIOUS
  <2> QED BY <2>1, <2>2 DEF Types, TypeOK, Images
<1>4. TypeOK'
  BY <1>1, <1>3 DEF Types, TypeOK, Points
<1>5. HeadersInv'
  BY <1>2 DEF Types, HeadersInv
<1>6. HereInv' /\ PointInv'
  BY <1>1, <1>2 DEF Types, HereInv, PointInv, Building
<1> QED BY <1>4, <1>5, <1>6 DEF Types

LEMMA LoadLibTypes == ASSUME Types, LoadLib PROVE Types'
<1> USE DEF chainVars
<1>1. /\ pc = "idle" /\ nested' \in BOOLEAN /\ pc' \in {"idle", "throw"}
      /\ UNCHANGED <<newHeader, colonHdr, state, target, tape>>
  BY NestedBoolean DEF LoadLib, Defining, Interpreting
<1>2. /\ tape.here \in Addresses /\ tape.latest \in Units /\ tape.mem \in Memories
      /\ tape.linked \subseteq Addresses /\ tape.whole \subseteq Addresses
      /\ tape.cut \subseteq Addresses /\ tape.bodyEnd \in Extents
  BY DEF Types, TypeOK, Images
<1>3. /\ here' \in Addresses /\ here' <= Limit + MaxBody + 1
      /\ latest' \in Units /\ mem' \in Memories
      /\ linked' \subseteq Addresses /\ \A a \in linked' : a <= Limit
      /\ whole' \subseteq Addresses /\ cut' \subseteq Addresses
      /\ bodyEnd' \in Extents /\ \A a \in Addresses : 1 <= bodyEnd'[a]
  <2>1. CASE UNCHANGED <<here, chainVars, mem>>
    BY <2>1 DEF Types, TypeOK, HereInv, HeadersInv
  <2>2. CASE /\ here' = FORTH_DICT_RAM /\ latest' = ROM
             /\ Rewound(FORTH_DICT_RAM) /\ mem' = mem
    <3>1. /\ linked' \subseteq linked /\ whole' \subseteq Addresses
          /\ cut' \subseteq Addresses /\ bodyEnd' \in Extents
          /\ \A a \in Addresses : 1 <= bodyEnd'[a]
      BY <2>2, RewoundTypes DEF FORTH_DICT_RAM
    <3>2. here' \in Addresses /\ here' <= Limit + MaxBody + 1
      BY <2>2, Sizes, Fits DEF FORTH_DICT_RAM
    <3> QED BY <2>2, <3>1, <3>2, Before DEF Types, TypeOK, HeadersInv
  <2>3. CASE /\ here' = tape.here /\ latest' = tape.latest
             /\ mem' = [a \in Addresses |->
                          IF a < tape.here THEN tape.mem[a] ELSE mem[a]]
             /\ linked' = tape.linked /\ whole' = tape.whole /\ cut' = tape.cut
             /\ bodyEnd' = tape.bodyEnd
    <3>1. mem' \in Memories
      BY <1>2, <2>3, Before DEF Memories
    <3> QED BY <1>2, <2>3, <3>1 DEF Types, HereInv, HeadersInv
  <2> QED BY <2>1, <2>2, <2>3 DEF LoadLib
<1>4. TypeOK'
  BY <1>1, <1>3 DEF Types, TypeOK, Points
<1>5. HeadersInv'
  BY <1>1, <1>3 DEF Types, HeadersInv
<1>6. HereInv' /\ PointInv'
  BY <1>1, <1>3 DEF Types, HereInv, PointInv, Building
<1> QED BY <1>4, <1>5, <1>6 DEF Types

(* Every step keeps the types and the sizes.                                     *)
LEMMA TypesStep == ASSUME Types, [Next]_vars PROVE Types'
<1>1. CASE Definition
  <2>1. ASSUME Colon PROVE Types'
    BY <2>1, HeaderTypes, NoRoomTypes, NestedBoolean
    DEF Colon, Defining, Interpreting, Types, TypeOK, chainVars
  <2> QED BY <1>1, <2>1, MovesTypes, LinksTypes, CompileTypes DEF Definition
<1>2. CASE DataWord
  <2>1. ASSUME Create PROVE Types'
    BY <2>1, HeaderTypes, NoRoomTypes, NestedBoolean
    DEF Create, Defining, Interpreting, Types, TypeOK, chainVars
  <2>2. ASSUME NEW n \in 0 .. MaxData, Variable(n) PROVE Types'
    <3>1. n \in Nat
      BY Sizes
    <3> QED BY <2>2, <3>1, HeaderTypes, NoRoomTypes, NestedBoolean
        DEF Variable, Defining, Interpreting, chainVars
  <2> QED BY <1>2, <2>1, <2>2, LinksTypes, VariableDataTypes DEF DataWord
<1>3. CASE Space
  BY <1>3, CommaTypes, AllotTypes DEF Space
<1>4. CASE Removal
  BY <1>4, ForgetTypes, ForgetHereTypes DEF Removal
<1>5. CASE Library
  BY <1>5, SaveLibTypes, LoadLibTypes DEF Library
<1>6. CASE Failure
  BY <1>6, MovesTypes, ColonDropTypes DEF Failure
<1>7. CASE UNCHANGED vars
  <2> USE <1>7 DEF vars, chainVars
  <2>1. TypeOK'
    BY DEF Types, TypeOK
  <2>2. HeadersInv' /\ HereInv' /\ PointInv'
    BY DEF Types, HeadersInv, HereInv, PointInv, Building
  <2> QED BY <2>1, <2>2 DEF Types
<1> QED BY <1>1, <1>2, <1>3, <1>4, <1>5, <1>6, <1>7 DEF Next
-----------------------------------------------------------------------------
(* Chains.                                                                    *)

(* A chain does not depend on what is stored away from its headers, nor on     *)
(* where words outside it end, and stays sound when HERE moves anywhere above   *)
(* its headers.                                                                 *)
LEMMA SoundElsewhere ==
  ASSUME NEW l, NEW m, NEW m2, NEW S \in SUBSET Addresses, NEW end, NEW end2,
         NEW h, NEW h2,
         Sound(l, m, S, end, h),
         \A a \in S : m2[a] = m[a] /\ end2[a] = end[a],
         \A a \in S : a < h2
  PROVE  Sound(l, m2, S, end2, h2)
BY DEF Sound

(* HEADER_LINK: a header above the chain, whose LINK is its top, continues it.  *)
LEMMA SoundLinked ==
  ASSUME NEW l, NEW m, NEW S \in SUBSET Addresses, NEW end, NEW end2,
         NEW h \in Nat, NEW n \in Addresses, NEW e \in Nat,
         Sound(l, m, S, end, h),
         m[n] = l, n < h, n < e,
         \A a \in S : a < n /\ end[a] <= n,
         end2[n] = e /\ \A a \in S : end2[a] = end[a]
  PROVE  Sound(n, m, S \cup {n}, end2, h)
<1> DEFINE T == S \cup {n}
<1>2. IsTop(n, T)
  BY AddressesAreNumbers DEF IsTop
<1>3. /\ Below(T, n) = S
      /\ \A a \in S : Below(T, a) = Below(S, a)
  <2>1. ~ (n < n) /\ \A a \in S : ~ (n < a)
    BY AddressesAreNumbers
  <2>2. Below(T, n) = S
    BY <2>1 DEF Below
  <2>3. ASSUME NEW a \in S PROVE Below(T, a) = Below(S, a)
    BY <2>1 DEF Below
  <2> QED BY <2>2, <2>3
<1>4. ASSUME NEW a \in T
      PROVE  /\ a < h /\ a < end2[a]
             /\ IsTop(m[a], Below(T, a))
             /\ \A b \in T : a < b => end2[a] <= b
  <2>1. CASE a = n
    BY AddressesAreNumbers, <1>3, <2>1 DEF Sound
  <2>2. CASE a \in S
    BY AddressesAreNumbers, <1>3, <2>2 DEF Sound
  <2> QED BY <2>1, <2>2
<1> QED BY <1>2, <1>4 DEF Sound

(* Code or data compiled after the last word belongs to it.                     *)
LEMMA SoundGrows ==
  ASSUME NEW l, NEW m, NEW S \in SUBSET Addresses, NEW end, NEW end2, NEW h,
         NEW e \in Nat,
         Sound(l, m, S, end, h), l \in S, l < e,
         end2[l] = e /\ \A a \in S : a # l => end2[a] = end[a]
  PROVE  Sound(l, m, S, end2, h)
<1>1. \A b \in S : ~ (l < b)
  BY AddressesAreNumbers DEF Sound, IsTop
<1> QED BY <1>1 DEF Sound

(* FORGET, COLON_DROP: without the header k and those above it, the chain goes   *)
(* on from k's LINK, and every word left ends below k.                            *)
LEMMA SoundRewound ==
  ASSUME NEW l, NEW m, NEW S \in SUBSET Addresses, NEW end, NEW end2,
         NEW h \in Nat, NEW k \in S, NEW h2 \in Nat,
         \A a \in S : end[a] \in Nat,
         Sound(l, m, S, end, h), k <= h2,
         \A a \in Addresses : a < k => end2[a] = end[a]
  PROVE  /\ Sound(m[k], m, Below(S, k), end2, h2)
         /\ Ends(Below(S, k), end2, k)
<1> DEFINE T == Below(S, k)
<1>1. T \subseteq S /\ \A a \in T : a < k /\ end2[a] = end[a]
  BY DEF Below
<1>2. ASSUME NEW a \in T PROVE Below(T, a) = Below(S, a)
  <2>1. \A b \in S : b < a => b < k
    BY AddressesAreNumbers DEF Below
  <2> QED BY <2>1 DEF Below
<1>3. IsTop(m[k], T)
  BY DEF Sound
<1>4. ASSUME NEW a \in T PROVE a < h2 /\ a < end2[a] /\ end2[a] <= k
  <2>1. a \in Nat /\ k \in Nat /\ a < k /\ end2[a] = end[a]
    BY AddressesAreNumbers, <1>1
  <2>2. a < end[a] /\ end[a] <= k
    BY <2>1, <1>1 DEF Sound
  <2> QED BY <2>1, <2>2
<1>5. \A a \in T : \A b \in T : a < b => end2[a] <= b
  BY <1>1 DEF Sound
<1>6. \A a \in T : IsTop(m[a], Below(T, a))
  BY <1>1, <1>2 DEF Sound
<1> QED BY <1>3, <1>4, <1>5, <1>6 DEF Sound, Ends
-----------------------------------------------------------------------------
(* What Chains says, with the types spelled out.                                *)

LEMMA FullIs ==
  ASSUME Types
  PROVE  \A a \in Addresses : /\ Full[a] \in Nat
                              /\ Full[a] = IF a \in cut THEN a + 2 ELSE bodyEnd[a]
<1> SUFFICES ASSUME NEW a \in Addresses
             PROVE  /\ Full[a] \in Nat
                    /\ Full[a] = IF a \in cut THEN a + 2 ELSE bodyEnd[a]
  OBVIOUS
<1>1. Full[a] = IF a \in cut THEN a + 2 ELSE bodyEnd[a]
  BY DEF Full, End
<1>2. a + 2 \in Nat /\ bodyEnd[a] \in Nat
  BY Before, AddressesAreNumbers DEF Extents
<1> QED BY <1>1, <1>2

LEMMA FullNext ==
  \A a \in Addresses : Full'[a] = IF a \in cut' THEN a + 2 ELSE bodyEnd'[a]
BY DEF Full, End

LEMMA FullKept == ASSUME UNCHANGED <<cut, bodyEnd>> PROVE Full' = Full
BY DEF Full, End

LEMMA TapeKept == ASSUME Chains, UNCHANGED tape PROVE TapeInv'
<1>1. TapeFull' = TapeFull
  BY DEF TapeFull
<1> QED BY <1>1 DEF Chains, TapeInv

(* Between words, every word ends below HERE.                                   *)
LEMMA BelowHere ==
  ASSUME Types, Chains
  PROVE  /\ Sound(latest, mem, linked, Full, here)
         /\ \A a \in linked : a \in Addresses /\ a \in Nat /\ a < here /\ a < Full[a]
                              /\ a <= latest
         /\ pc # "varLinked" => \A a \in linked : Full[a] <= here
         /\ latest \in linked \/ latest = ROM
         /\ ROM \notin linked
<1>1. Sound(latest, mem, linked, Full, here)
  BY DEF Chains, ChainInv
<1> QED BY <1>1, Before, AddressesAreNumbers DEF Sound, Ends, IsTop, Chains, ChainInv

LEMMA Next1Kept ==
  ASSUME NEW h, Next1(h), here' \in Nat, here \in Nat, h \in Nat, h < here',
         mem'[h] = mem[h], latest' = latest, linked' = linked,
         \A a \in linked : Full'[a] = Full[a]
  PROVE  Next1(h)'
BY DEF Next1

(* A defining word starts with no definition open, or has run over one.          *)
LEMMA NothingOpen ==
  ASSUME Types, ~ nested', Defining
  PROVE  pc = "idle" /\ ~ state /\ colonHdr = ROM /\ nested' = FALSE
BY DEF Defining, Interpreting, Types, TypeOK
-----------------------------------------------------------------------------
(* Steps that move no memory: a word stops (NoRoom, Throw, Error, a refused      *)
(* SAVE-LIB or LOAD-LIB, a BREAK), CATCH goes on, [ and ] change STATE.           *)

LEMMA QuietStep ==
  ASSUME Types, Chains, pc' \in {"idle", "throw", "report"}, pc # "varLinked",
         UNCHANGED <<here, chainVars, mem, colonHdr, tape>>,
         state' => colonHdr \in linked
  PROVE  Chains'
<1> USE DEF chainVars
<1>1. Full' = Full
  BY FullKept
<1>2. ChainInv'
  BY <1>1 DEF Chains, ChainInv
<1>3. TapeInv'
  BY TapeKept
<1>4. BuildInv' /\ ForgetInv' /\ WholeInv'
  BY DEF Chains, BuildInv, Building, ForgetInv, WholeInv
<1>5. OpenInv'
  BY <1>1 DEF Chains, OpenInv, Next1
<1> QED BY <1>2, <1>3, <1>4, <1>5 DEF Chains

LEMMA NoRoomStep == ASSUME Types, Chains, NEW n, pc = "idle", NoRoom(n) PROVE Chains'
<1>1. state => colonHdr \in linked
  BY DEF Chains, OpenInv
<1> QED BY <1>1, QuietStep DEF NoRoom

LEMMA MovesStep ==
  ASSUME Types, Chains,
         \/ LeftBracket \/ RightBracket \/ ColonCompiles
         \/ Error \/ Throw \/ ThrowCaught \/ ThrowUncaught
  PROVE  Chains'
<1>1. state \/ pc = "colonLinked" => colonHdr \in linked
  BY DEF Chains, OpenInv
<1>2. CASE LeftBracket \/ RightBracket \/ ColonCompiles
  BY <1>1, <1>2, QuietStep
  DEF LeftBracket, RightBracket, ColonCompiles, Interpreting, Open
<1>3. CASE Error \/ Throw \/ ThrowCaught \/ ThrowUncaught
  BY <1>1, <1>3, QuietStep DEF Error, Throw, ThrowCaught, ThrowUncaught
<1> QED BY <1>2, <1>3

(* A BREAK, caught or not.  In VARIABLE's data the new word keeps its code alone; *)
(* every other word ends below its header.                                         *)
LEMMA BreakStep == ASSUME Types, Chains, Break PROVE Chains'
<1> USE DEF Break
<1>1. CASE pc # "varLinked"
  <2>1. state => colonHdr \in linked
    BY DEF Chains, OpenInv
  <2> QED BY <1>1, <2>1, QuietStep DEF chainVars
<1>2. CASE pc = "varLinked"
  <2>1. /\ newHeader \in linked /\ newHeader = latest /\ newHeader + 2 <= here
        /\ Ends(linked, Full, here + target)
        /\ colonHdr = ROM /\ ~ state
    BY <1>2, AddressesAreNumbers
    DEF Chains, BuildInv, OpenInv, Types, TypeOK, PointInv
  <2>2. /\ newHeader \in Addresses /\ newHeader \in Nat /\ target \in Nat /\ here \in Nat
    BY <2>1, Before
  <2>3. \A a \in linked : a # newHeader => a < newHeader /\ Full[a] <= newHeader
    BY <2>1, BelowHere DEF Sound
  <2>4. \A a \in Addresses :
          Full'[a] = IF a = newHeader /\ target # 0 THEN newHeader + 2 ELSE Full[a]
    BY <1>2, FullIs, FullNext
  <2>5. Ends(linked, Full', here)
    <3> SUFFICES ASSUME NEW a \in linked PROVE Full'[a] <= here
      BY DEF Ends
    <3>1. a \in Addresses /\ Full[a] \in Nat
      BY Before, FullIs
    <3>2. CASE target = 0
      BY <2>1, <2>2, <2>4, <3>1, <3>2 DEF Ends
    <3>3. CASE target # 0 /\ a = newHeader
      BY <2>1, <2>4, <3>1, <3>3
    <3>4. CASE target # 0 /\ a # newHeader
      BY <2>1, <2>2, <2>3, <2>4, <3>1, <3>4
    <3> QED BY <3>2, <3>3, <3>4
  <2>6. Sound(latest, mem, linked, Full', here)
    <3>1. CASE target = 0
      BY <2>4, <3>1, BelowHere, SoundElsewhere, Before
    <3>2. CASE target # 0
      <4>1. /\ Full'[newHeader] = newHeader + 2 /\ newHeader < newHeader + 2
            /\ newHeader + 2 \in Nat
            /\ \A a \in linked : a # newHeader => Full'[a] = Full[a]
        BY <2>2, <2>4, <3>2, Before
      <4> QED BY <2>1, <4>1, BelowHere, SoundGrows, Before
    <3> QED BY <3>1, <3>2
  <2>7. cut' \subseteq linked
    BY <2>1 DEF Chains, ChainInv
  <2>8. ChainInv' /\ TapeInv'
    BY <2>5, <2>6, <2>7, TapeKept DEF Chains, ChainInv
  <2>9. BuildInv' /\ ForgetInv' /\ WholeInv' /\ OpenInv'
    BY <1>2, <2>1 DEF Chains, BuildInv, Building, ForgetInv, WholeInv, OpenInv
  <2> QED BY <2>8, <2>9 DEF Chains
<1> QED BY <1>1, <1>2
-----------------------------------------------------------------------------
(* `:`, CREATE and VARIABLE build a header above the chain.                    *)

LEMMA HeaderStep ==
  ASSUME Types, Chains, ~ nested', Defining,
         NEW next \in {"built", "createBuilt", "varBuilt"}, HeaderBuild(next),
         UNCHANGED <<chainVars, colonHdr, state, tape>>
  PROVE  Chains'
<1> USE DEF chainVars
<1>1. pc = "idle" /\ ~ state /\ colonHdr = ROM /\ Full' = Full
  BY NothingOpen, FullKept
<1>2. here' = here + 1 /\ here' \in Nat /\ here \in Nat /\ here \in Addresses
  BY Before DEF HeaderBuild
<1>3. /\ mem'[here] = latest
      /\ \A a \in linked : mem'[a] = mem[a]
  <2>1. \A a \in linked : a # here /\ a \in Addresses
    BY <1>2, BelowHere
  <2> QED BY <2>1, Before DEF Memories, HeaderBuild
<1>4. \A a \in linked : a < here /\ a < here' /\ Full[a] <= here /\ Full[a] <= here'
  BY <1>1, <1>2, BelowHere, FullIs
<1>5. ChainInv'
  <2>1. Sound(latest, mem', linked, Full, here')
    BY <1>3, <1>4, SoundElsewhere, BelowHere, Before
  <2> QED BY <1>1, <1>4, <2>1 DEF Chains, ChainInv, Ends
<1>6. TapeInv'
  BY TapeKept
<1>7. BuildInv'
  <2>1. Next1(newHeader)'
    BY <1>1, <1>2, <1>3, <1>4 DEF Next1, HeaderBuild
  <2> QED BY <1>1, <2>1 DEF BuildInv, Building, HeaderBuild
<1>8. OpenInv' /\ WholeInv' /\ ForgetInv'
  BY <1>1 DEF Chains, OpenInv, WholeInv, ForgetInv, HeaderBuild
<1> QED BY <1>5, <1>6, <1>7, <1>8 DEF Chains

LEMMA BuildsStep ==
  ASSUME Types, Chains, ~ nested',
         Colon \/ Create \/ \E n \in 0 .. MaxData : Variable(n)
  PROVE  Chains'
<1>1. CASE Colon \/ Create
  BY <1>1, HeaderStep, NoRoomStep, NothingOpen DEF Colon, Create
<1>2. ASSUME NEW n \in 0 .. MaxData, Variable(n) PROVE Chains'
  BY <1>2, HeaderStep, NoRoomStep, NothingOpen DEF Variable
<1> QED BY <1>1, <1>2

LEMMA ColonNotesStep == ASSUME Types, Chains, ColonNotes PROVE Chains'
<1> USE DEF chainVars, ColonNotes
<1>1. /\ Full' = Full /\ Next1(newHeader) /\ newHeader \in Addresses
      /\ newHeader \notin linked /\ ~ state
  <2>1. Next1(newHeader) /\ ~ state
    BY DEF Chains, BuildInv, Building, Types, PointInv
  <2> QED BY <2>1, FullKept, Before DEF Next1
<1>2. ChainInv' /\ TapeInv'
  BY <1>1, TapeKept DEF Chains, ChainInv
<1>3. Next1(newHeader)'
  BY <1>1 DEF Next1
<1>4. BuildInv'
  BY <1>3 DEF Chains, BuildInv, Building
<1>5. OpenInv'
  BY <1>1, <1>3 DEF OpenInv
<1>6. colonHdr = ROM
  BY DEF Chains, BuildInv, Building
<1>7. WholeInv' /\ ForgetInv'
  BY <1>1, <1>6, AddressesAreNumbers DEF Chains, WholeInv, ForgetInv, Types, TypeOK
<1> QED BY <1>2, <1>4, <1>5, <1>7 DEF Chains

(* HEADER_LINK, in each of its users: the chain with the new header.            *)
LEMMA LinkStep ==
  ASSUME Types, Chains, Building, NEW e \in Nat, HeaderLink(e),
         newHeader < e, here' \in Nat, here <= here',
         \A a \in Addresses : a # here => mem'[a] = mem[a]
  PROVE  /\ Sound(latest, mem, linked, Full, here)'
         /\ newHeader \in Addresses /\ newHeader \in Nat /\ newHeader < here
         /\ newHeader \notin linked
         /\ Full'[newHeader] = e
         /\ \A a \in linked : Full'[a] <= newHeader
         /\ linked' = linked \cup {newHeader} /\ latest' = newHeader
         /\ cut' \subseteq linked'
         /\ \A a \in Addresses : a < bodyEnd'[a]
<1>1. /\ newHeader \in Addresses /\ newHeader \in Nat /\ newHeader < here
      /\ \A a \in linked : a < newHeader /\ Full[a] <= newHeader
      /\ mem[newHeader] = latest
  BY AddressesAreNumbers DEF Chains, BuildInv, Next1
<1>2. here \in Nat /\ linked \in SUBSET Addresses /\ bodyEnd \in Extents
  BY Before
<1>3. mem'[newHeader] = latest /\ newHeader < here' /\ newHeader \notin linked
  BY <1>1, <1>2
<1>4. \A a \in linked : mem'[a] = mem[a] /\ a < here'
  BY <1>2, BelowHere
<1>5. Sound(latest, mem', linked, Full, here')
  BY <1>2, <1>4, SoundElsewhere, BelowHere
<1>6. /\ bodyEnd' = [bodyEnd EXCEPT ![newHeader] = e] /\ cut' = cut \ {newHeader}
      /\ linked' = linked \cup {newHeader} /\ latest' = newHeader
  BY DEF HeaderLink
<1>7. /\ bodyEnd'[newHeader] = e
      /\ \A a \in Addresses : a # newHeader => bodyEnd'[a] = bodyEnd[a]
  BY <1>1, <1>2, <1>6 DEF Extents
<1>8. /\ Full'[newHeader] = e
      /\ \A a \in linked : Full'[a] = Full[a]
  <2>1. Full'[newHeader] = e
    BY <1>1, <1>6, <1>7, FullNext
  <2>2. ASSUME NEW a \in linked PROVE Full'[a] = Full[a]
    BY <1>2, <1>3, <1>6, <1>7, FullNext, FullIs
  <2> QED BY <2>1, <2>2
<1>9. Sound(newHeader, mem', linked \cup {newHeader}, Full', here')
  BY <1>1, <1>2, <1>3, <1>5, <1>8, SoundLinked
<1>10. cut' \subseteq linked'
  BY <1>6 DEF Chains, ChainInv
<1>11. \A a \in Addresses : a < bodyEnd'[a]
  BY <1>7 DEF Chains, ChainInv
<1> QED BY <1>1, <1>3, <1>6, <1>8, <1>9, <1>10, <1>11

LEMMA ColonLinksStep == ASSUME Types, Chains, ColonLinks PROVE Chains'
<1> USE DEF ColonLinks
<1>1. Building /\ colonHdr = newHeader
  BY DEF Chains, BuildInv, Building
<1>2. here \in Nat /\ newHeader < here
  BY Before, <1>1 DEF Chains, BuildInv, Next1
<1>3. /\ Sound(latest, mem, linked, Full, here)'
      /\ newHeader \in Addresses /\ newHeader \in Nat /\ newHeader \notin linked
      /\ Full'[newHeader] = here
      /\ \A a \in linked : Full'[a] <= newHeader
      /\ linked' = linked \cup {newHeader} /\ latest' = newHeader
      /\ cut' \subseteq linked' /\ \A a \in Addresses : a < bodyEnd'[a]
  BY <1>1, <1>2, LinkStep
<1>4. \A a \in linked : Full'[a] \in Nat
  <2>1. \A a \in linked : a \in Addresses /\ bodyEnd'[a] = bodyEnd[a]
    BY <1>3, Before DEF HeaderLink, Extents
  <2>2. \A a \in linked : bodyEnd[a] \in Nat /\ a + 2 \in Nat
    BY Before DEF Extents
  <2> QED BY <2>1, <2>2, FullNext
<1>5. ChainInv'
  BY <1>2, <1>3, <1>4 DEF ChainInv, Ends
<1>6. TapeInv'
  BY TapeKept
<1>7. BuildInv' /\ ForgetInv'
  BY DEF BuildInv, Building, ForgetInv
<1>8. OpenInv'
  BY <1>1, <1>3 DEF OpenInv
<1>9. WholeInv'
  BY <1>1, <1>3 DEF Chains, WholeInv
<1> QED BY <1>5, <1>6, <1>7, <1>8, <1>9 DEF Chains

(* CREATE, VARIABLE: one unit of code, then the link.                            *)
LEMMA LinkWholeStep ==
  ASSUME Types, Chains, pc \in {"createBuilt", "varBuilt"}, NEW n \in Nat,
         mem' = CompileCode(mem, here), here' = here + 1,
         HeaderLink(here + 1 + n), whole' = whole \cup {newHeader},
         pc' \in {"idle", "varLinked"},
         pc' = "varLinked" => n = target,
         pc' # "varLinked" => n = 0,
         UNCHANGED <<newHeader, colonHdr, state, target, tape>>
  PROVE  Chains'
<1>1. Building /\ colonHdr = ROM /\ ~ state
  BY DEF Chains, BuildInv, Building, Types, PointInv
<1>2. here \in Nat /\ newHeader < here
  BY Before, <1>1 DEF Chains, BuildInv, Next1
<1>3. /\ here' \in Nat /\ here <= here' /\ here + 1 + n \in Nat
      /\ newHeader \in Nat /\ newHeader < here + 1 + n /\ newHeader + 2 <= here'
  BY <1>2, Before
<1>4. \A a \in Addresses : a # here => mem'[a] = mem[a]
  BY Before DEF CompileCode, Memories
<1>5. /\ Sound(latest, mem, linked, Full, here)'
      /\ newHeader \in Addresses /\ newHeader \notin linked
      /\ Full'[newHeader] = here + 1 + n
      /\ \A a \in linked : Full'[a] <= newHeader
      /\ linked' = linked \cup {newHeader} /\ latest' = newHeader
      /\ cut' \subseteq linked' /\ \A a \in Addresses : a < bodyEnd'[a]
  BY <1>1, <1>3, <1>4, LinkStep
<1>6. \A a \in linked : Full'[a] \in Nat
  <2>1. \A a \in linked : a \in Addresses /\ bodyEnd'[a] = bodyEnd[a]
    BY <1>5, Before DEF HeaderLink, Extents
  <2>2. \A a \in linked : bodyEnd[a] \in Nat /\ a + 2 \in Nat
    BY Before DEF Extents
  <2> QED BY <2>1, <2>2, FullNext
<1>7. Ends(linked', Full', here' + n)
  BY <1>2, <1>3, <1>5, <1>6 DEF Ends
<1>8. ChainInv'
  <2>1. here' + 0 = here'
    BY <1>3
  <2> QED BY <1>5, <1>7, <2>1 DEF ChainInv
<1>9. TapeInv'
  BY TapeKept
<1>10. BuildInv'
  BY <1>3, <1>5, <1>7 DEF BuildInv, Building
<1>11. OpenInv' /\ ForgetInv'
  BY <1>1 DEF OpenInv, ForgetInv
<1>12. WholeInv'
  BY <1>1, <1>5, AddressesAreNumbers DEF Chains, WholeInv
<1> QED BY <1>8, <1>9, <1>10, <1>11, <1>12 DEF Chains

LEMMA LinksWholeStep ==
  ASSUME Types, Chains, CreateLinks \/ VariableLinks PROVE Chains'
<1>1. CASE CreateLinks
  <2>1. here + 1 + 0 = here + 1 /\ 0 \in Nat
    BY Before
  <2> QED BY <1>1, <2>1, LinkWholeStep DEF CreateLinks
<1>2. CASE VariableLinks
  BY <1>2, Before, LinkWholeStep DEF VariableLinks
<1> QED BY <1>1, <1>2
-----------------------------------------------------------------------------
(* What is compiled above the chain.                                            *)

(* A unit stored at HERE, above every header, belongs to the open definition, or *)
(* to the last word, or, after data cut off by a BREAK, to none.                 *)
LEMMA GrowStep ==
  ASSUME Types, Chains, pc = "idle", mem' = CompileCode(mem, here),
         here' = here + 1, bodyEnd' = Extended(here + 1),
         UNCHANGED <<latest, linked, cut, colonHdr>>
  PROVE  /\ ChainInv'
         /\ colonHdr # ROM /\ colonHdr \notin linked => Next1(colonHdr)'
<1>1. /\ here \in Nat /\ here \in Addresses /\ here + 1 \in Nat /\ here' = here + 1
      /\ bodyEnd \in Extents /\ linked \in SUBSET Addresses
  BY Before
<1>2. \A a \in linked : /\ a \in Addresses /\ a \in Nat /\ a < here /\ a # here
                        /\ Full[a] \in Nat /\ Full[a] <= here
  BY <1>1, BelowHere, FullIs
<1>3. \A a \in Addresses : a # here => mem'[a] = mem[a]
  BY Before DEF CompileCode, Memories
<1>4. colonHdr # ROM /\ colonHdr \notin linked =>
        Next1(colonHdr) /\ colonHdr \in Addresses /\ colonHdr \in Nat /\ colonHdr < here
  BY Before DEF Chains, OpenInv, Next1
<1>5. Owner \in linked => Owner = latest
  BY BelowHere DEF Chains, OpenInv, Owner
<1>6. Owner \in Addresses => Owner \in Nat /\ Owner < here
  <2>1. CASE colonHdr # ROM
    <3>1. Owner = colonHdr
      BY <2>1 DEF Owner
    <3> QED BY <1>2, <1>4, <2>1, <3>1
  <2>2. CASE colonHdr = ROM
    <3>1. Owner = latest
      BY <2>2 DEF Owner
    <3> QED BY <1>2, <3>1, BelowHere, AddressesAreNumbers
  <2> QED BY <2>1, <2>2
<1>7. \A a \in Addresses :
        bodyEnd'[a] = IF a = Owner /\ a \notin cut THEN here + 1 ELSE bodyEnd[a]
  BY <1>1 DEF Extended, Extents
<1>8. \A a \in Addresses :
        Full'[a] = IF a = Owner /\ a \notin cut THEN here + 1 ELSE Full[a]
  BY <1>7, FullIs, FullNext
<1>9. \A a \in Addresses : a < bodyEnd'[a]
  <2> SUFFICES ASSUME NEW a \in Addresses PROVE a < bodyEnd'[a]
    OBVIOUS
  <2>1. a < bodyEnd[a] /\ (a = Owner => a \in Nat /\ a < here)
    BY <1>6 DEF Chains, ChainInv
  <2> QED BY <1>1, <1>7, <2>1
<1>10. \A a \in linked : Full'[a] <= here'
  BY <1>1, <1>2, <1>8
<1>11. Sound(latest, mem', linked, Full, here')
  <2>1. \A a \in linked : mem'[a] = mem[a] /\ a < here'
    BY <1>1, <1>2, <1>3
  <2> QED BY <1>1, <2>1, BelowHere, SoundElsewhere
<1>12. Sound(latest, mem', linked, Full', here')
  <2>1. CASE Owner \in linked /\ Owner \notin cut
    <3>1. /\ latest \in linked /\ Full'[latest] = here + 1 /\ latest < here + 1
          /\ \A a \in linked : a # latest => Full'[a] = Full[a]
      BY <1>1, <1>2, <1>5, <1>8, <2>1
    <3> QED BY <1>1, <1>11, <3>1, SoundGrows
  <2>2. CASE ~ (Owner \in linked /\ Owner \notin cut)
    <3>1. \A a \in linked : Full'[a] = Full[a] /\ mem'[a] = mem'[a] /\ a < here'
      BY <1>1, <1>2, <1>8, <2>2
    <3> QED BY <1>1, <1>11, <3>1, SoundElsewhere
  <2> QED BY <2>1, <2>2
<1>13. ChainInv'
  BY <1>9, <1>10, <1>12 DEF Chains, ChainInv, Ends
<1>14. ASSUME colonHdr # ROM, colonHdr \notin linked PROVE Next1(colonHdr)'
  <2>1. Owner = colonHdr
    BY <1>14 DEF Owner
  <2>2. \A a \in linked : Full'[a] = Full[a]
    BY <1>2, <1>8, <1>14, <2>1
  <2>3. colonHdr < here' /\ mem'[colonHdr] = mem[colonHdr]
    BY <1>1, <1>3, <1>4, <1>14
  <2> QED BY <1>1, <1>4, <1>14, <2>2, <2>3, Next1Kept DEF Next1
<1> QED BY <1>13, <1>14

LEMMA CompileStep == ASSUME Types, Chains, Compile \/ Semicolon PROVE Chains'
<1> USE DEF Compile, Semicolon
<1>1. colonHdr # ROM /\ colonHdr \in linked /\ colonHdr = latest
  <2>1. state /\ colonHdr \in linked
    BY DEF Chains, OpenInv
  <2> QED BY <2>1, BelowHere DEF Chains, OpenInv
<1>2. ChainInv' /\ TapeInv'
  BY GrowStep, TapeKept
<1>3. BuildInv' /\ ForgetInv' /\ WholeInv' /\ OpenInv'
  BY <1>1 DEF Chains, BuildInv, Building, ForgetInv, WholeInv, OpenInv
<1> QED BY <1>2, <1>3 DEF Chains

LEMMA CommaStep == ASSUME Types, Chains, Comma PROVE Chains'
<1> USE DEF Comma, Interpreting
<1>1. CASE NoRoom(1)
  BY <1>1, NoRoomStep
<1>2. CASE ~ NoRoom(1)
  <2>1. /\ ChainInv' /\ TapeInv'
        /\ colonHdr # ROM /\ colonHdr \notin linked => Next1(colonHdr)'
    BY <1>2, GrowStep, TapeKept
  <2>2. BuildInv' /\ ForgetInv' /\ WholeInv'
    BY <1>2 DEF Chains, BuildInv, Building, ForgetInv, WholeInv
  <2>3. OpenInv'
    BY <1>2, <2>1 DEF Chains, OpenInv
  <2> QED BY <2>1, <2>2, <2>3 DEF Chains
<1> QED BY <1>1, <1>2

LEMMA ColonCloseStep == ASSUME Types, Chains, ColonClose PROVE Chains'
<1> USE DEF ColonClose
<1>1. /\ colonHdr \in linked /\ ROM \notin linked /\ ~ state
      /\ Full' = Full
  BY BelowHere, FullKept DEF Chains, OpenInv, Types, PointInv
<1>2. ChainInv' /\ TapeInv'
  BY <1>1, TapeKept DEF Chains, ChainInv
<1>3. BuildInv' /\ ForgetInv' /\ OpenInv'
  BY <1>1 DEF BuildInv, Building, ForgetInv, OpenInv
<1>4. WholeInv'
  BY <1>1 DEF Chains, WholeInv
<1> QED BY <1>2, <1>3, <1>4 DEF Chains
-----------------------------------------------------------------------------
(* Data and space: HERE moves, never below a word's end.                        *)

LEMMA VariableDataStep == ASSUME Types, Chains, VariableData PROVE Chains'
<1> USE DEF chainVars, VariableData
<1>1. /\ Ends(linked, Full, here + target) /\ colonHdr = ROM /\ ~ state
      /\ here \in Nat /\ target \in Nat /\ here' \in Nat
      /\ Full' = Full
  BY Before, FullKept, AddressesAreNumbers
  DEF Chains, BuildInv, OpenInv, Types, PointInv
<1>2. \A a \in linked : mem'[a] = mem[a] /\ a < here'
  BY <1>1, BelowHere
<1>3. Sound(latest, mem', linked, Full, here')
  BY <1>2, SoundElsewhere, BelowHere, Before
<1>4. ChainInv' /\ TapeInv'
  BY <1>1, <1>3, TapeKept DEF Chains, ChainInv
<1>5. BuildInv' /\ ForgetInv' /\ WholeInv' /\ OpenInv'
  BY <1>1 DEF Chains, BuildInv, Building, ForgetInv, WholeInv, OpenInv
<1> QED BY <1>4, <1>5 DEF Chains

(* ALLOT, either way.                                                            *)
LEMMA SpaceStep ==
  ASSUME Types, Chains, pc = "idle", here' \in Nat,
         here <= here' \/ (Owner \in Addresses => End(Owner) <= here'),
         UNCHANGED <<pc, chainVars, mem, colonHdr, state, tape>>
  PROVE  Chains'
<1> USE DEF chainVars
<1>1. here \in Nat /\ Full' = Full /\ linked \in SUBSET Addresses
  BY Before, FullKept
<1>2. \A a \in linked : /\ a \in Addresses /\ a \in Nat /\ a < here /\ a < Full[a]
                        /\ Full[a] \in Nat /\ Full[a] <= here /\ a <= latest
  BY BelowHere, FullIs
<1>3. ASSUME NEW a \in linked PROVE a < here' /\ Full[a] <= here'
  <2>1. CASE here <= here'
    BY <1>1, <1>2, <2>1
  <2>2. CASE ~ (here <= here')
    <3>1. /\ latest \in linked /\ latest \in Addresses
          /\ a = latest \/ (a < latest /\ Full[a] <= latest)
      BY <1>2, BelowHere, AddressesAreNumbers DEF Sound, ROM
    <3>2. Owner \in Addresses /\ Owner \in Nat
      BY <3>1, AddressesAreNumbers DEF Owner, Types, TypeOK
    <3>3. Full[Owner] = End(Owner) /\ Full[Owner] <= here' /\ Full[Owner] \in Nat
      BY <2>2, <3>2, FullIs DEF End
    <3>4. CASE Owner = latest
      BY <1>2, <3>1, <3>3, <3>4
    <3>5. CASE Owner # latest
      <4>1. Owner = colonHdr /\ Next1(colonHdr) /\ colonHdr \notin linked
        BY <3>5 DEF Owner, Chains, OpenInv
      <4>2. a < Owner /\ Full[a] <= Owner /\ Owner < Full[Owner]
        <5>1. Owner \notin cut /\ Owner < bodyEnd[Owner]
          BY <3>2, <4>1 DEF Chains, ChainInv
        <5> QED BY <3>2, <4>1, <5>1, FullIs DEF Next1
      <4> QED BY <1>2, <3>2, <3>3, <4>2
    <3> QED BY <3>4, <3>5
  <2> QED BY <2>1, <2>2
<1>4. Sound(latest, mem, linked, Full, here')
  BY <1>1, <1>3, SoundElsewhere, BelowHere
<1>5. ChainInv' /\ TapeInv'
  BY <1>1, <1>3, <1>4, TapeKept DEF Chains, ChainInv, Ends
<1>6. BuildInv' /\ ForgetInv' /\ WholeInv'
  BY DEF Chains, BuildInv, Building, ForgetInv, WholeInv
<1>7. ASSUME colonHdr # ROM, colonHdr \notin linked PROVE Next1(colonHdr)'
  <2>1. Next1(colonHdr) /\ Owner = colonHdr /\ colonHdr \in Addresses
        /\ colonHdr \in Nat /\ colonHdr < here
    BY <1>7, AddressesAreNumbers DEF Chains, OpenInv, Next1, Owner
  <2>2. colonHdr < here'
    <3>1. Owner \notin cut /\ Owner < bodyEnd[Owner] /\ bodyEnd[Owner] \in Nat
      BY <1>7, <2>1, Before DEF Chains, ChainInv, Extents
    <3>2. Owner < End(Owner) /\ End(Owner) \in Nat
      BY <3>1 DEF End
    <3> QED BY <1>1, <2>1, <3>2
  <2> QED BY <1>1, <2>1, <2>2, Next1Kept
<1>8. OpenInv'
  BY <1>7 DEF Chains, OpenInv
<1> QED BY <1>5, <1>6, <1>8 DEF Chains

LEMMA AllotStep ==
  ASSUME Types, Chains, NEW n \in 1 .. MaxData, Allot(n) \/ AllotBack(n),
         here' \in Nat
  PROVE  Chains'
<1>1. n \in Nat /\ here \in Nat
  BY Before, Sizes
<1>2. CASE Allot(n)
  <2>1. CASE NoRoom(n)
    BY <1>2, <2>1, NoRoomStep DEF Allot, Interpreting
  <2>2. CASE ~ NoRoom(n)
    <3>1. here <= here'
      BY <1>1, <1>2, <2>2 DEF Allot
    <3> QED BY <1>2, <2>2, <3>1, SpaceStep DEF Allot, Interpreting
  <2> QED BY <2>1, <2>2
<1>3. CASE AllotBack(n)
  <2>1. Owner \in Addresses => End(Owner) <= here'
    <3>1. Owner \in Addresses => End(Owner) <= here - n /\ here' = here - n
      <4> HIDE DEF End
      <4> QED BY <1>3 DEF AllotBack
    <3> QED BY <3>1
  <2> QED BY <1>3, <2>1, SpaceStep DEF AllotBack, Interpreting
<1> QED BY <1>2, <1>3
-----------------------------------------------------------------------------
(* Rewinding: FORGET and COLON_DROP.                                            *)

(* The history from h up goes; LATEST is h's LINK and HERE may be h.            *)
LEMMA RewindStep ==
  ASSUME Types, Chains, NEW h \in linked, Rewound(h),
         latest' = mem[h], mem' = mem, here' \in Nat, h <= here'
  PROVE  /\ ChainInv'
         /\ Ends(linked', Full', h)
         /\ whole' \subseteq linked'
         /\ \A a \in linked' : a < h /\ a \in linked
<1>1. h \in Addresses /\ h \in Nat /\ here \in Nat /\ linked \in SUBSET Addresses
  BY Before
<1>2. \A a \in Addresses : bodyEnd'[a] = IF a < h THEN bodyEnd[a] ELSE a + 1
  BY DEF Rewound
<1>3. \A a \in Addresses : a < h => Full'[a] = Full[a]
  BY <1>2, FullIs, FullNext DEF Rewound, Below
<1>4. \A a \in linked : Full[a] \in Nat
  BY <1>1, FullIs
<1>5. /\ Sound(mem[h], mem, linked', Full', here')
      /\ Ends(linked', Full', h)
  BY <1>1, <1>3, <1>4, BelowHere, SoundRewound DEF Rewound
<1>6. /\ \A a \in linked' : a < h /\ a \in linked
      /\ whole' \subseteq linked' /\ cut' \subseteq linked'
  BY DEF Rewound, Below, Chains, WholeInv, ChainInv
<1>7. Ends(linked', Full', here')
  <2>1. \A a \in linked' : Full'[a] \in Nat
    BY <1>1, <1>3, <1>4, <1>6
  <2> QED BY <1>1, <1>5, <2>1 DEF Ends
<1>8. \A a \in Addresses : a < bodyEnd'[a]
  BY <1>2, AddressesAreNumbers DEF Chains, ChainInv
<1> QED BY <1>5, <1>6, <1>7, <1>8 DEF ChainInv

LEMMA ForgetStep ==
  ASSUME Types, Chains, ~ nested', NEW h \in linked, Forget(h) PROVE Chains'
<1> USE DEF Forget
<1>1. pc = "idle" /\ ~ state /\ colonHdr = ROM /\ whole = linked
  <2>1. pc = "idle" /\ ~ state /\ colonHdr = ROM
    BY NothingOpen
  <2> QED BY <2>1, BelowHere DEF Chains, WholeInv
<1>2. h <= here /\ here \in Nat /\ h \in Nat
  BY Before, BelowHere
<1>3. /\ ChainInv' /\ Ends(linked', Full', h)
      /\ whole' \subseteq linked' /\ \A a \in linked' : a < h /\ a \in linked
  BY <1>1, <1>2, RewindStep
<1>4. TapeInv'
  BY TapeKept
<1>5. BuildInv' /\ OpenInv'
  BY <1>1 DEF BuildInv, Building, OpenInv
<1>6. WholeInv'
  BY <1>1, <1>3, BelowHere DEF WholeInv, Rewound
<1>7. ForgetInv'
  BY <1>2, <1>3 DEF ForgetInv, Ends
<1> QED BY <1>3, <1>4, <1>5, <1>6, <1>7 DEF Chains

LEMMA ForgetHereStep == ASSUME Types, Chains, ForgetHere PROVE Chains'
<1> USE DEF chainVars, ForgetHere
<1>1. /\ target \in Nat /\ target <= here /\ colonHdr = ROM
      /\ \A a \in linked : a < target /\ Full[a] <= target
      /\ ~ state /\ Full' = Full
  BY Before, FullKept, AddressesAreNumbers
  DEF Chains, ForgetInv, OpenInv, Types, PointInv
<1>2. Sound(latest, mem, linked, Full, here')
  BY <1>1, SoundElsewhere, BelowHere, Before
<1>3. ChainInv' /\ TapeInv'
  BY <1>1, <1>2, TapeKept DEF Chains, ChainInv, Ends
<1>4. BuildInv' /\ ForgetInv' /\ WholeInv' /\ OpenInv'
  BY <1>1 DEF Chains, BuildInv, Building, ForgetInv, WholeInv, OpenInv
<1> QED BY <1>3, <1>4 DEF Chains

(* COLON_DROP finds the open definition on top of the chain, or just above it:   *)
(* every complete word is below.                                                  *)
LEMMA WholeBelow ==
  ASSUME Types, Chains, colonHdr # ROM, NEW a \in whole PROVE a < colonHdr
<1>1. a \in linked /\ a # colonHdr /\ a \in Nat /\ a <= latest
  BY BelowHere DEF Chains, WholeInv
<1>2. colonHdr \in linked => a <= colonHdr /\ colonHdr \in Nat
  BY <1>1, Before DEF Chains, OpenInv, Next1
<1>3. colonHdr \notin linked => a < colonHdr
  BY <1>1 DEF Chains, OpenInv, Next1
<1> QED BY <1>1, <1>2, <1>3

LEMMA ColonDropStep == ASSUME Types, Chains, ColonDrop PROVE Chains'
<1> USE DEF chainVars, ColonDrop
<1>1. /\ BuildInv' /\ ForgetInv' /\ OpenInv' /\ TapeInv'
      /\ colonHdr' = ROM
  BY TapeKept DEF BuildInv, Building, ForgetInv, OpenInv
<1>2. /\ colonHdr # ROM => colonHdr \in Addresses /\ colonHdr \in Nat
      /\ ROM \notin linked
  BY Before, BelowHere DEF Types, TypeOK
<1>3. CASE colonHdr = ROM
  <2>1. Full' = Full
    BY <1>3, FullKept
  <2>2. ChainInv' /\ WholeInv'
    BY <1>1, <1>3, <2>1 DEF Chains, ChainInv, WholeInv
  <2> QED BY <1>1, <2>2 DEF Chains
<1>4. CASE colonHdr \in linked
  <2>1. Rewound(colonHdr) /\ here' = colonHdr /\ latest' = mem[colonHdr] /\ mem' = mem
    BY <1>2, <1>4
  <2>2. colonHdr <= here' /\ here' \in Nat
    BY <1>2, <1>4, <2>1
  <2>3. /\ ChainInv' /\ whole' \subseteq linked'
        /\ \A a \in linked' : a < colonHdr /\ a \in linked
    BY <1>4, <2>1, <2>2, RewindStep
  <2>4. WholeInv'
    BY <1>1, <1>2, <1>4, <2>1, <2>3 DEF Chains, WholeInv, Rewound, Below
  <2> QED BY <1>1, <2>3, <2>4 DEF Chains
<1>5. CASE colonHdr # ROM /\ colonHdr \notin linked   \* not linked yet
  <2>1. Next1(colonHdr) /\ colonHdr \in Nat /\ Rewound(colonHdr)
    BY <1>2, <1>5 DEF Chains, OpenInv
  <2>2. /\ linked' = linked /\ whole' = whole /\ cut' = cut /\ latest' = latest
        /\ here' = colonHdr /\ mem' = mem
    BY <1>5, <2>1 DEF Rewound, Below, Next1, Chains, WholeInv, ChainInv
  <2>3. \A a \in Addresses : bodyEnd'[a] = IF a < colonHdr THEN bodyEnd[a] ELSE a + 1
    BY <2>1 DEF Rewound
  <2>4. \A a \in linked : /\ a < here' /\ Full'[a] = Full[a] /\ Full[a] <= here'
                          /\ mem'[a] = mem[a]
    BY <2>1, <2>2, <2>3, FullIs, FullNext, Before DEF Next1
  <2>5. Sound(latest, mem, linked, Full', here')
    BY <2>2, <2>4, BelowHere, SoundElsewhere, Before
  <2>6. \A a \in Addresses : a < bodyEnd'[a]
    BY <2>3, AddressesAreNumbers DEF Chains, ChainInv
  <2>7. ChainInv'
    BY <2>2, <2>4, <2>5, <2>6 DEF Chains, ChainInv, Ends
  <2>8. WholeInv'
    BY <1>1, <1>2, <1>5, <2>2 DEF Chains, WholeInv
  <2> QED BY <1>1, <2>7, <2>8 DEF Chains
<1> QED BY <1>3, <1>4, <1>5
-----------------------------------------------------------------------------
(* The library on tape.                                                         *)

LEMMA SaveLibStep == ASSUME Types, Chains, ~ nested', SaveLib PROVE Chains'
<1> USE DEF SaveLib
<1>1. /\ pc = "idle" /\ ~ state /\ colonHdr = ROM /\ pc' \in {"idle", "throw"}
      /\ UNCHANGED <<here, chainVars, mem, newHeader, colonHdr, state, target>>
  BY NothingOpen
<1>2. CASE tape' = tape
  BY <1>1, <1>2, QuietStep
<1>3. CASE tape' # tape
  <2> DEFINE m == [a \in Addresses |-> IF a < here THEN mem[a] ELSE Code]
  <2>1. tape' = [here |-> here, latest |-> latest, mem |-> m, linked |-> linked,
                 whole |-> whole, cut |-> cut, bodyEnd |-> bodyEnd]
    BY <1>3
  <2>2. \A a \in linked : m[a] = mem[a] /\ a < here
    BY BelowHere
  <2>3. Sound(latest, m, linked, Full, here)
    BY <2>2, BelowHere, SoundElsewhere, Before
  <2>4. TapeFull' = Full
    BY <2>1 DEF TapeFull, Full, End
  <2>5. whole = linked
    BY <1>1, BelowHere DEF Chains, WholeInv
  <2>6. /\ tape'.here = here /\ tape'.latest = latest /\ tape'.mem = m
        /\ tape'.linked = linked /\ tape'.whole = whole /\ tape'.cut = cut
        /\ tape'.bodyEnd = bodyEnd
    BY <2>1
  <2> HIDE DEF m
  <2>7. TapeInv'
    BY <1>1, <2>3, <2>4, <2>5, <2>6 DEF TapeInv, Chains, ChainInv
  <2>8. Full' = Full
    BY <1>1, FullKept DEF chainVars
  <2>9. ChainInv'
    BY <1>1, <2>8 DEF Chains, ChainInv, chainVars
  <2>10. BuildInv' /\ ForgetInv' /\ WholeInv' /\ OpenInv'
    BY <1>1 DEF Chains, BuildInv, Building, ForgetInv, WholeInv, OpenInv, chainVars
  <2> QED BY <2>7, <2>9, <2>10 DEF Chains
<1> QED BY <1>2, <1>3

LEMMA LoadLibStep == ASSUME Types, Chains, ~ nested', LoadLib PROVE Chains'
<1>1. /\ pc = "idle" /\ ~ state /\ colonHdr = ROM /\ pc' \in {"idle", "throw"}
      /\ UNCHANGED <<newHeader, colonHdr, state, target, tape>>
  BY NothingOpen DEF LoadLib
<1>2. ASSUME ChainInv', whole' = linked', ROM \notin linked' PROVE Chains'
  <2>1. TapeInv'
    BY <1>1, TapeKept
  <2>2. BuildInv' /\ ForgetInv' /\ OpenInv' /\ WholeInv'
    BY <1>1, <1>2 DEF BuildInv, Building, ForgetInv, OpenInv, WholeInv
  <2> QED BY <1>2, <2>1, <2>2 DEF Chains
<1>3. CASE UNCHANGED <<here, chainVars, mem>>                     \* as it was
  BY <1>1, <1>3, QuietStep
<1>4. CASE /\ here' = FORTH_DICT_RAM /\ latest' = ROM
           /\ Rewound(FORTH_DICT_RAM) /\ mem' = mem                \* emptied
  <2>1. linked' = {} /\ whole' = {} /\ cut' = {}
    <3>1. linked \subseteq Addresses /\ whole \subseteq Addresses /\ cut \subseteq Addresses
      BY DEF Types, TypeOK
    <3>2. \A a \in Addresses : ~ (a < FORTH_DICT_RAM)
      BY DictAssumption DEF Addresses, FORTH_DICT_RAM
    <3> QED BY <1>4, <3>1, <3>2 DEF Rewound, Below
  <2>2. \A a \in Addresses : a < bodyEnd'[a]
    BY <1>4, AddressesAreNumbers DEF Rewound, Chains, ChainInv
  <2>3. ChainInv'
    BY <1>4, <2>1, <2>2 DEF ChainInv, Sound, Ends, IsTop
  <2> QED BY <1>2, <2>1, <2>3
<1>5. CASE /\ here' = tape.here /\ latest' = tape.latest
           /\ mem' = [a \in Addresses |->
                        IF a < tape.here THEN tape.mem[a] ELSE mem[a]]
           /\ linked' = tape.linked /\ whole' = tape.whole /\ cut' = tape.cut
           /\ bodyEnd' = tape.bodyEnd                              \* the tape's
  <2>1. tape.linked \in SUBSET Addresses
    BY DEF Types, TypeOK, Images
  <2>2. /\ Sound(tape.latest, tape.mem, tape.linked, TapeFull, tape.here)
        /\ Ends(tape.linked, TapeFull, tape.here)
        /\ tape.whole = tape.linked /\ tape.cut \subseteq tape.linked
        /\ \A a \in Addresses : a < tape.bodyEnd[a]
    BY DEF Chains, TapeInv
  <2>3. \A a \in tape.linked : mem'[a] = tape.mem[a] /\ a < tape.here
    BY <1>5, <2>1, <2>2 DEF Sound
  <2>4. Sound(tape.latest, mem', tape.linked, TapeFull, tape.here)
    BY <2>1, <2>2, <2>3, SoundElsewhere
  <2>5. Full' = TapeFull
    BY <1>5 DEF Full, End, TapeFull
  <2>6. ChainInv'
    BY <1>5, <2>2, <2>4, <2>5 DEF ChainInv
  <2> QED BY <1>2, <1>5, <2>1, <2>2, <2>6, AddressesAreNumbers
<1> QED BY <1>3, <1>4, <1>5 DEF LoadLib
-----------------------------------------------------------------------------
(* The invariant and the properties.                                            *)

LEMMA InitInv == Init => IInv
<1> SUFFICES ASSUME Init PROVE Types /\ Chains
  BY DEF IInv
<1> USE DEF Init, NoTape
<1>1. FORTH_DICT_RAM \in Addresses /\ FORTH_DICT_RAM <= Limit + MaxBody + 1
  BY Sizes, Fits DEF FORTH_DICT_RAM
<1>2. /\ [a \in Addresses |-> Code] \in Memories /\ [a \in Addresses |-> a + 1] \in Extents
      /\ \A a \in Addresses : 1 <= a + 1 /\ a < a + 1
  BY AddressesAreNumbers DEF Memories, Units, Extents
<1>3. ROM \in Units /\ 0 \in Nat /\ ROM <= Limit
  BY Sizes DEF Units, ROM
<1>4. TypeOK
  BY <1>1, <1>2, <1>3 DEF TypeOK, Points, Images
<1>5. HeadersInv /\ HereInv /\ PointInv
  BY <1>1, <1>2, <1>3 DEF HeadersInv, HereInv, PointInv, Building
<1>6. ChainInv /\ TapeInv
  BY <1>2 DEF ChainInv, TapeInv, Sound, Ends, IsTop
<1>7. BuildInv /\ OpenInv /\ WholeInv /\ ForgetInv
  BY DEF BuildInv, Building, OpenInv, WholeInv, ForgetInv
<1> QED BY <1>4, <1>5, <1>6, <1>7 DEF Types, Chains

(* Until a word is run over an open definition, every step keeps the chains.      *)
LEMMA ChainsStep ==
  ASSUME Types, Types', Chains, ~ nested', [Next]_vars PROVE Chains'
<1>1. CASE Definition
  BY <1>1, BuildsStep, ColonNotesStep, ColonLinksStep, MovesStep, CompileStep,
     ColonCloseStep DEF Definition
<1>2. CASE DataWord
  BY <1>2, BuildsStep, LinksWholeStep, VariableDataStep DEF DataWord
<1>3. CASE Space
  <2>1. here' \in Nat
    BY AddressesAreNumbers DEF Types, TypeOK
  <2> QED BY <1>3, <2>1, CommaStep, AllotStep DEF Space
<1>4. CASE Removal
  BY <1>4, ForgetStep, ForgetHereStep DEF Removal
<1>5. CASE Library
  BY <1>5, SaveLibStep, LoadLibStep DEF Library
<1>6. CASE Failure
  BY <1>6, MovesStep, ColonDropStep, BreakStep DEF Failure
<1>7. CASE UNCHANGED vars
  <2> USE <1>7 DEF vars, chainVars
  <2>1. Full' = Full
    BY FullKept
  <2>2. ChainInv' /\ TapeInv'
    BY <2>1, TapeKept DEF Chains, ChainInv
  <2>3. BuildInv' /\ ForgetInv' /\ WholeInv'
    BY <2>1 DEF Chains, BuildInv, Building, ForgetInv, WholeInv, Next1
  <2>4. OpenInv'
    BY <2>1 DEF Chains, OpenInv, Next1
  <2> QED BY <2>2, <2>3, <2>4 DEF Chains
<1> QED BY <1>1, <1>2, <1>3, <1>4, <1>5, <1>6, <1>7 DEF Next

(* A word run over an open definition is remembered.                              *)
LEMMA NestedStays == ASSUME Types, [Next]_vars, nested PROVE nested'
BY DEF Next, Definition, DataWord, Space, Removal, Library, Failure, vars,
       Colon, ColonNotes, ColonLinks, ColonCompiles, Compile, LeftBracket,
       RightBracket, Semicolon, ColonClose, Create, CreateLinks, Variable,
       VariableLinks, VariableData, Comma, Allot, AllotBack, Forget, ForgetHere,
       SaveLib, LoadLib, Error, Throw, ThrowCaught, ThrowUncaught, ColonDrop, Break,
       Defining, Types, TypeOK

LEMMA NextInv == IInv /\ [Next]_vars => IInv'
<1> SUFFICES ASSUME IInv, [Next]_vars PROVE IInv'
  OBVIOUS
<1>1. Types /\ Types'
  BY TypesStep DEF IInv
<1>2. ASSUME ~ nested' PROVE Chains'
  <2>1. Chains
    BY <1>1, <1>2, NestedStays DEF IInv
  <2> QED BY <1>1, <1>2, <2>1, ChainsStep
<1> QED BY <1>1, <1>2 DEF IInv

(* The invariant holds in every state, whatever is typed and wherever BREAK is    *)
(* pressed.                                                                        *)
THEOREM Invariance == Spec => []IInv
BY InitInv, NextInv, PTL DEF Spec

(* Every variable of the dictionary keeps its type, whatever is typed: HERE in     *)
(* particular stays inside the dictionary's memory.                                *)
THEOREM TypeCorrect == Spec => []TypeOK
<1>1. IInv => TypeOK
  BY DEF IInv, Types
<1> QED BY <1>1, Invariance, PTL

(* LATEST and the LINKs visit exactly the linked headers, all below HERE, with a  *)
(* BREAK caught or not at any point of any word, until a word that builds,        *)
(* removes, saves or loads words is run over an open definition (HEADER_BUILD,    *)
(* HEADER_LINK, FORGET, COLON_DROP, LOAD-LIB).                                     *)
THEOREM ChainStaysSound == Spec => []ChainSound
<1>1. IInv => ChainSound
  BY DEF IInv, Chains, ChainInv, Sound, ChainSound
<1> QED BY <1>1, Invariance, PTL

(* No later definition overlaps a complete word's code or data, but the data that *)
(* a BREAK in VARIABLE's own loop left above HERE; until a word is built, removed,*)
(* saved or loaded over an open definition (HEADER_LINK, VARIABLE_N, FORGET).     *)
THEOREM BodiesStayApart == Spec => []BodiesApart
<1>1. IInv => BodiesApart
  <2> SUFFICES ASSUME IInv, pc = "idle", ~ nested, NEW a \in whole
               PROVE  End(a) <= here /\ \A b \in linked : a < b => End(a) <= b
    BY DEF BodiesApart
  <2>1. a \in linked /\ a \in Addresses /\ Full[a] = End(a)
    BY Before DEF IInv, Chains, WholeInv, Full
  <2> QED BY <2>1 DEF IInv, Chains, ChainInv, Sound, Ends
<1> QED BY <1>1, Invariance, PTL

(* A word with half its code is found only while its definition is open, also     *)
(* after a BREAK caught inside `:` or `;`; until a word is built, removed, saved  *)
(* or loaded over it (COLON, SEMICOLON, COLON_CLOSE, COLON_DROP).                  *)
THEOREM HalfWordsAreOpen == Spec => []HalfOnlyWhileOpen
<1>1. IInv => HalfOnlyWhileOpen
  BY DEF IInv, Chains, WholeInv, HalfOnlyWhileOpen
<1> QED BY <1>1, Invariance, PTL

(* With a reserve of a whole definition's length, HERE never enters the line      *)
(* store, whatever is typed (DICT_ROOM).                                           *)
THEOREM ReserveIsEnough ==
  ASSUME MaxBody + 1 <= Reserve PROVE Spec => []BelowLineStore
<1>1. IInv => BelowLineStore
  <2> SUFFICES ASSUME IInv PROVE here <= CEILING
    BY DEF BelowLineStore
  <2>1. Reserve \in Nat
    BY DictAssumption
  <2> QED BY <2>1, Before, Sizes DEF IInv
<1> QED BY <1>1, Invariance, PTL

(* COLON_DROP, run after every line that ended in an error, removes no complete   *)
(* word, unless one was built, removed, saved or loaded over the open definition. *)
THEOREM ErrorsDropOnlyHalfWords == Spec => ErrorsKeepWords
<1>1. ASSUME IInv, [Next]_vars
      PROVE  [pc = "report" /\ ~ nested => whole \subseteq whole']_vars
  <2> SUFFICES ASSUME Next, pc = "report", ~ nested PROVE whole \subseteq whole'
    BY <1>1
  <2>1. ColonDrop
    BY DEF Next, Definition, DataWord, Space, Removal, Library, Failure,
           Colon, ColonNotes, ColonLinks, ColonCompiles, Compile, LeftBracket,
           RightBracket, Semicolon, ColonClose, Create, CreateLinks, Variable,
           VariableLinks, VariableData, Comma, Allot, AllotBack, Forget, ForgetHere,
           SaveLib, LoadLib, Error, Throw, ThrowCaught, ThrowUncaught, Break,
           Defining, Interpreting
  <2>2. ASSUME colonHdr # ROM, NEW a \in whole PROVE a < colonHdr
    BY <1>1, <2>2, WholeBelow DEF IInv
  <2> QED BY <2>1, <2>2 DEF ColonDrop, Rewound, Below, chainVars
<1> QED BY <1>1, Invariance, PTL DEF Spec, ErrorsKeepWords
=============================================================================
