----------------------------- MODULE Cartridge ------------------------------
(* A program's way onto a DOCK cartridge and into the machine: forthcart.py reads a
   SAVE-LIB tape and writes the cartridge file, cart_check.py compares the cartridge
   build with the release, kernel/bank/cart.asm checks the image at power-on and copies
   it, and carttest.py's cases say what the machine must show.  A dictionary is
   [len, words, mark]: the words at their offsets, each [link, name], and a mark that
   stands for the bytes.  A name is a string; Upper gives its upper case.             *)
EXTENDS Integers, Sequences, FiniteSets, TLC

CONSTANTS Base,             \* FORTH_DICT_RAM
          MaxLen,           \* CART_IMG_MAX: DICT_RAM_CEILING - FORTH_DICT_RAM
          LatestCold,       \* DICT_LATEST_COLD
          Identity,         \* the build's ROM_IDENTITY
          UdgLen,           \* UDG_COUNT * 8
          HeadLen,          \* CART_IMG_UDG: the image's bytes before the UDG table
          ChunkLen,         \* CHUNK
          Upper             \* names to names

CartridgeParameters ==
    /\ Base \in Nat /\ MaxLen \in Nat /\ UdgLen \in Nat /\ HeadLen \in Nat /\ ChunkLen \in Nat \ {0}
    /\ HeadLen + UdgLen + MaxLen + 2 <= 2 * ChunkLen        \* cart.asm's ASSERT
    /\ \A n \in DOMAIN Upper : Upper[n] \in DOMAIN Upper /\ Upper[Upper[n]] = Upper[n]

Refused(why) == [ok |-> FALSE, why |-> why]

(***************************************************************************)
(* forthcart.py.  A tape is a sequence of framed blocks:                   *)
(* [header, type, name, length, identity, latest, sum] or                  *)
(* [header = FALSE, data (the flag is $FF), len, dict, crc, sum], where    *)
(* sum and crc say whether the checksum and the CRC are right.             *)
(***************************************************************************)
Header(type, name, length, identity, latest) ==
    [header |-> TRUE, type |-> type, name |-> name, length |-> length, identity |-> identity, latest |-> latest, sum |-> TRUE]
Body(dict, crc) == [header |-> FALSE, data |-> TRUE, len |-> dict.len + 2, dict |-> dict, crc |-> crc, sum |-> TRUE]
LibFile(name, p, crc) == <<Header("LIB", name, p.dict.len + 2, p.identity, p.latest), Body(p.dict, crc)>>

ReadLib(blocks, name) ==
    LET found == {i \in 1 .. Len(blocks) - 1 : /\ blocks[i].header /\ blocks[i].sum /\ blocks[i].type = "LIB"
                                               /\ name = "" \/ blocks[i].name = name}
        i == CHOOSE k \in found : TRUE
        hdr == blocks[i]
        body == blocks[i + 1]
    IN  IF found = {} THEN Refused("no file")
        ELSE IF Cardinality(found) > 1 THEN Refused("--name")
        ELSE IF body.header \/ ~body.data \/ ~body.sum \/ body.len # hdr.length \/ body.len < 2 THEN Refused("damaged")
        ELSE IF ~body.crc THEN Refused("CRC")
        ELSE [ok |-> TRUE, dict |-> body.dict, latest |-> hdr.latest, identity |-> hdr.identity]

\* find_word: down the links from LATEST, in either case; a link out of the program ends it.
RECURSIVE Follow(_, _, _, _)
Follow(dict, link, seen, name) ==
    IF link < Base \/ link >= Base + dict.len - 2 \/ link \in seen THEN ""
    ELSE LET w == dict.words[link - Base]
         IN  IF Upper[w.name] = Upper[name] THEN w.name ELSE Follow(dict, w.link, seen \cup {link}, name)
FindWord(dict, latest, name) == Follow(dict, latest, {}, name)

NoUdg == "zeros"
ProgramImage(p, start, udg) ==
    LET word == FindWord(p.dict, p.latest, start)
    IN  IF p.identity # Identity THEN Refused("another ROM")
        ELSE IF p.dict.len > MaxLen THEN Refused("too long")
        ELSE IF word = "" THEN Refused("not a word")
        ELSE [ok |-> TRUE,
              image |-> [magic |-> TRUE, identity |-> p.identity, length |-> p.dict.len, latest |-> p.latest,
                         start |-> word, startLen |-> 1, udg |-> udg, dict |-> p.dict]]
ImageSize(image) == HeadLen + UdgLen + image.length + 2

\* main: the tape, then the image.
Pack(blocks, name, start, udg) ==
    LET lib == ReadLib(blocks, name) IN IF lib.ok THEN ProgramImage(lib, start, udg) ELSE lib

(***************************************************************************)
(* chunks, dck and flat_bin.  A byte of a file is <<what, offset>>; Pad is *)
(* $FF.  An image of size 0 is none.                                       *)
(***************************************************************************)
Pad == <<"pad", 0>>
ImageChunks(size) == {2 + i : i \in {k \in 0 .. size : k * ChunkLen < size}}
Chunks(size) ==
    [c \in {0, 1, 5} \cup ImageChunks(size) |->
        [x \in 0 .. ChunkLen - 1 |->
            CASE c = 0 -> <<"home", x>>
              [] c = 1 -> <<"home", ChunkLen + x>>
              [] c = 5 -> <<"exrom", x>>
              [] OTHER -> LET k == (c - 2) * ChunkLen + x IN IF k < size THEN <<"image", k>> ELSE Pad]]
\* The .dck: a descriptor per chunk, then the ROM chunks in order.
Dck(size) ==
    LET c == Chunks(size)
        has == SelectSeq([i \in 1 .. 8 |-> i - 1], LAMBDA i : i \in DOMAIN c)
    IN  [chunk |-> [i \in 0 .. 7 |-> IF i \in DOMAIN c THEN 2 ELSE 0], roms |-> [i \in DOMAIN has |-> c[has[i]]]]
FlatBin(size) ==
    LET c == Chunks(size)
    IN  [x \in 0 .. 8 * ChunkLen - 1 |->
            IF x \div ChunkLen \in DOMAIN c THEN c[x \div ChunkLen][x % ChunkLen] ELSE Pad]
\* What an emulator that loads the .dck puts at an address (external): the n-th ROM chunk is the n-th of the file.
Loaded(dck, x) ==
    LET c == x \div ChunkLen
    IN  IF dck.chunk[c] = 0 THEN Pad ELSE dck.roms[Cardinality({i \in 0 .. c : dck.chunk[i] = 2})][x % ChunkLen]

\* The two files of one cartridge say the same of every address, and the image is in it whole and in
\* order from chunk 2 on: it never reaches the EXROM's chunk 5.
FilesAgree(size) ==
    /\ \A x \in 0 .. 8 * ChunkLen - 1 : Loaded(Dck(size), x) = FlatBin(size)[x]
    /\ \A k \in 0 .. size - 1 : FlatBin(size)[2 * ChunkLen + k] = <<"image", k>>
    /\ \A k \in 0 .. ChunkLen - 1 : FlatBin(size)[5 * ChunkLen + k] = <<"exrom", k>>

(***************************************************************************)
(* cart.asm at power-on: COLD_START's state, then CART_START_PROGRAM.      *)
(***************************************************************************)
Empty == [len |-> 0, words |-> <<>>, mark |-> "none"]
ColdStart == [here |-> Base, latest |-> LatestCold, dict |-> Empty, udg |-> NoUdg, line |-> "", hsr |-> "home",
              message |-> "", ran |-> FALSE]
None == [magic |-> FALSE]
Bad(image) == image.identity # Identity \/ image.length > MaxLen \/ image.startLen \notin 1 .. 31
Load(m, image) ==
    [m EXCEPT !.udg = image.udg, !.here = Base + image.length, !.latest = image.latest,
              !.dict = [image.dict EXCEPT !.len = image.length], !.line = image.start, !.ran = TRUE]
CartStartProgram(image) ==
    IF ~image.magic THEN ColdStart
    ELSE IF Bad(image) THEN [ColdStart EXCEPT !.message = "BAD PROGRAM"]
    ELSE Load(ColdStart, image)

\* What the packer accepts the power-on code accepts, although it looks at less (no CRC, no word list):
\* the machine then has the saved dictionary, LATEST and UDGs, and the line it runs is a word of the
\* program as the program spells it.
PackedRuns(blocks, name, start, udg) ==
    LET r == Pack(blocks, name, start, udg)
        lib == ReadLib(blocks, name)
        m == CartStartProgram(r.image)
    IN  r.ok => /\ m.ran /\ m.message = ""
                /\ m.dict = lib.dict /\ m.here = Base + lib.dict.len /\ m.latest = lib.latest /\ m.udg = udg
                /\ Upper[m.line] = Upper[start] /\ \E x \in DOMAIN lib.dict.words : lib.dict.words[x].name = m.line
                /\ FilesAgree(ImageSize(r.image))

(***************************************************************************)
(* carttest.py.  progs: the programs compiled on the release ROMs, each    *)
(* [dict, latest, identity, udg]; does: what a start word prints and the   *)
(* error it ends with (external: the program's own words).                 *)
(***************************************************************************)
HELLO == [prints |-> "HELLO CART", error |-> 0]
Does == [hello |-> HELLO, largest |-> HELLO, udg |-> [prints |-> "UDGOK", error |-> 0],
         error |-> [prints |-> "DIVISION BY ZERO", error |-> -42], break |-> [prints |-> "BREAK", error |-> -28]]
Image(p, dict) == ProgramImage([p EXCEPT !.dict = dict], "GO", p.udg).image
Cases(progs) ==
    LET hello == Image(progs.hello, progs.hello.dict)
    IN  [plain |-> None, hello |-> hello, udg |-> Image(progs.udg, progs.udg.dict),
         error |-> Image(progs.error, progs.error.dict), break |-> Image(progs.break, progs.break.dict),
         largest |-> Image(progs.hello, [progs.hello.dict EXCEPT !.len = MaxLen]),
         bad_identity |-> [hello EXCEPT !.identity = @ + 1],
         bad_length |-> [hello EXCEPT !.length = MaxLen + 1],
         bad_start |-> [hello EXCEPT !.startLen = 0]]

Unpacked == {"plain", "bad_identity", "bad_length", "bad_start"}
\* run_case's checks on the machine at the prompt.
RunCase(progs, name) ==
    LET image == Cases(progs)[name]
        m == CartStartProgram(image)
        prog == progs[IF name = "largest" THEN "hello" ELSE name]
        printed == IF m.ran THEN Does[name] ELSE [prints |-> m.message, error |-> 0]
    IN  /\ m.hsr = "home"
        /\ IF name \in Unpacked
             THEN /\ m.here = Base /\ m.latest = LatestCold
                  /\ printed.prints = (IF image.magic THEN "BAD PROGRAM" ELSE "")
             ELSE /\ m.here = Base + (IF name = "largest" THEN MaxLen ELSE prog.dict.len)
                  /\ m.latest = prog.latest /\ m.dict.mark = prog.dict.mark /\ m.line = "GO"
        /\ name \in {"hello", "largest"} => printed = HELLO
        /\ name = "udg" => m.udg = progs.udg.udg /\ printed.prints = "UDGOK"
        /\ name = "error" => printed.error = -42
        /\ name = "break" => printed.error = -28

\* packer_case: two tapes that pack, four that are refused for the reason said.
PackerCase(progs) ==
    LET text == <<Header("TEXT", "NOTES", 3, 0, 0), Body(Empty, TRUE)>>
        tap == text \o LibFile("HELLO", progs.hello, TRUE)
        tzx == text \o LibFile("UDGPROG", progs.udg, TRUE) \o LibFile("HELLO", progs.hello, TRUE)
        other == LibFile("OLD", [progs.hello EXCEPT !.identity = @ + 1], TRUE)
    IN  /\ Pack(tap, "", "go", progs.hello.udg) = ProgramImage(progs.hello, "GO", progs.hello.udg)
        /\ Pack(tzx, "UDGPROG", "GO", progs.udg.udg) = ProgramImage(progs.udg, "GO", progs.udg.udg)
        /\ Pack(tzx, "", "GO", NoUdg) = Refused("--name")
        /\ Pack(other, "", "GO", NoUdg) = Refused("another ROM")
        /\ Pack(LibFile("BAD", progs.hello, FALSE), "", "GO", NoUdg) = Refused("CRC")
        /\ Pack(tap, "", "NOPE", NoUdg) = Refused("not a word")

\* Every case of the suite, as its own checks judge it, passes on the model of packer and cartridge.
CartCasesPass(progs) == PackerCase(progs) /\ \A name \in DOMAIN Cases(progs) : RunCase(progs, name)

(***************************************************************************)
(* cart_check.py.  An image is a sequence of bytes from address 0, "FF"    *)
(* the pad; a build is [labels, img, exrom].  places: the release's own    *)
(* COLD_START.chime, ROM_IDENTITY and paging routines, [name -> size].     *)
(***************************************************************************)
CodeEnd(img) == CHOOSE n \in 0 .. Len(img) : /\ n > 0 => img[n] # "FF"
                                             /\ \A k \in n + 1 .. Len(img) : img[k] = "FF"
Allowed(rel, paging) ==
    0 .. 4 \cup {rel.labels["COLD_START.chime"] + k : k \in 1 .. 2} \cup {rel.labels["ROM_IDENTITY"] + k : k \in 0 .. 1}
    \cup CodeEnd(rel.img) .. Len(rel.img) - 1
    \cup UNION {rel.labels[n] .. rel.labels[n] + paging[n] - 1 : n \in DOMAIN paging}
Patch(rel, cart) ==
    [cart EXCEPT !.img = [i \in DOMAIN @ |-> IF i - 1 \in {rel.labels["ROM_IDENTITY"] + k : k \in 0 .. 1} THEN rel.img[i] ELSE @[i]]]
CartCheck(rel, cart, paging, locals, floor) ==
    /\ \A n \in DOMAIN rel.labels \ locals : n \in DOMAIN cart.labels /\ cart.labels[n] = rel.labels[n]
    /\ \A i \in DOMAIN rel.img : rel.img[i] # cart.img[i] => i - 1 \in Allowed(rel, paging)
    /\ \A k \in 0 .. 1 : cart.img[rel.labels["ROM_IDENTITY"] + k + 1] = rel.img[rel.labels["ROM_IDENTITY"] + k + 1]
    /\ cart.img[rel.labels["COLD_START.chime"] + 1] = "CALL"
    /\ CodeEnd(cart.img) - CodeEnd(rel.img) <= floor
    /\ rel.exrom = cart.exrom

\* A cartridge build that passes runs what the release compiled: a routine outside the named places is
\* the same bytes at the same address, and programs it saves carry the release's identity.
CheckedIsRelease(rel, cart, paging, locals, floor) ==
    LET c == Patch(rel, cart)
    IN  CartCheck(rel, c, paging, locals, floor) =>
          /\ \A n \in DOMAIN rel.labels \ locals : c.labels[n] = rel.labels[n]
          /\ \A x \in 5 .. CodeEnd(rel.img) - 1 :
                c.img[x + 1] # rel.img[x + 1] =>
                   \/ x - rel.labels["COLD_START.chime"] \in 1 .. 2
                   \/ \E n \in DOMAIN paging : x - rel.labels[n] \in 0 .. paging[n] - 1
=============================================================================
