---------------------------- MODULE ImageChecks -----------------------------
(* The checks of the built images: budget.py, rom_inventory.py, check_ram_layout.py and
   provenance.py, with snapshot.py's memory ranges.  An image is a sequence of bytes, a
   listing AsmText's; addresses start at 0.                                            *)
EXTENDS AsmText

CONSTANTS Top,              \* 0x10000: one past the last address
          Rom,              \* 0x4000: where RAM starts
          MinRun            \* 12: the shortest run of stock-ROM bytes that counts

ImageParameters == Top \in Nat /\ Rom \in 0 .. Top /\ MinRun \in Nat \ {0}

RECURSIVE Total(_, _)
Total(f, S) == IF S = {} THEN 0 ELSE LET x == CHOOSE y \in S : TRUE IN f[x] + Total(f, S \ {x})

\* What roots lead to by succ, from a list of work (inventory's live, census's used).
RECURSIVE Worked(_, _, _)
Worked(seen, work, succ) ==
    IF work = {} THEN seen
    ELSE LET x == CHOOSE y \in work : TRUE
         IN  Worked(seen \cup {x}, (work \cup (IF x \in DOMAIN succ THEN succ[x] ELSE {})) \ (seen \cup {x}), succ)
Reached(roots, succ) == Worked({}, roots, succ)
IsLeast(S, roots, succ, all) ==
    LET Closed(T) == roots \subseteq T /\ \A x \in T \cap DOMAIN succ : succ[x] \subseteq T
    IN  Closed(S) /\ \A T \in SUBSET all : Closed(T) => S \subseteq T

(***************************************************************************)
(* budget.py.  A component is [files, ranges, budget]; a range is a set of *)
(* addresses <<first, last>>.                                              *)
(***************************************************************************)
NoOne == "none"
RECURSIVE RowsIn(_, _, _)
RowsIn(listing, i, stack) ==
    IF i > Len(listing) THEN <<>>
    ELSE LET e == listing[i] IN
         CASE e.ev = "open" -> RowsIn(listing, i + 1, <<BaseName(e.path)>> \o stack)
           [] e.ev = "close" -> RowsIn(listing, i + 1, Tail(stack))
           [] OTHER -> (IF stack = <<>> THEN <<>> ELSE <<<<e.address, Head(stack)>>>>) \o RowsIn(listing, i + 1, stack)
\* owners: a row's bytes go up to the next row's address.
Owners(listing, n) ==
    LET rows == RowsIn(listing, 1, <<>>)
    IN  [x \in 0 .. n - 1 |->
            LET k == {j \in 1 .. Len(rows) - 1 : rows[j][1] <= x /\ x < rows[j + 1][1]}
            IN  IF k = {} THEN NoOne ELSE rows[CHOOSE j \in k : \A i \in k : i <= j][2]]
\* Every byte of the image belongs to the file whose line emitted it; only the bytes of the listing's
\* very last line have no owner, since no line comes after it.
OwnersAreTrue(files, main) ==
    LET listing == Listing(files, main)
        emitted == {listing[k] : k \in {j \in DOMAIN listing : listing[j].ev = "line" /\ listing[j].bytes}}
        own == Owners(listing, Cardinality(emitted))
        last == Cardinality({j \in DOMAIN listing : listing[j].ev = "line"})
        lines == SelectSeq(listing, LAMBDA e : e.ev = "line")
    IN  \A e \in emitted : own[e.address] = BaseName(e.of) \/ (own[e.address] = NoOne /\ lines[last] = e)

\* image_report: a later range of the configuration wins over an earlier one and over the files.
CompOf(own, comps) ==
    [x \in DOMAIN own |->
        LET ranged == {c \in DOMAIN comps : \E r \in comps[c].ranges : r[1] <= x /\ x <= r[2]}
            filed == {c \in DOMAIN comps : own[x] \in comps[c].files}
            Latest(S) == CHOOSE c \in S : \A d \in S : d <= c
        IN  IF ranged # {} THEN Latest(ranged) ELSE IF filed # {} THEN Latest(filed) ELSE 0]
SizeIn(own, comps, c) == Cardinality({x \in DOMAIN own : CompOf(own, comps)[x] = c})
BudgetErrors(own, comps, free, floor) ==
    {<<"twice", f>> : f \in {f \in UNION {comps[c].files : c \in DOMAIN comps} :
                                Cardinality({c \in DOMAIN comps : f \in comps[c].files}) > 1}}
    \cup {<<"loose", x>> : x \in {x \in DOMAIN own : CompOf(own, comps)[x] = 0}}
    \cup {<<"over", c>> : c \in {c \in DOMAIN comps : SizeIn(own, comps, c) > comps[c].budget}}
    \cup (IF free < floor THEN {<<"reserve", free>>} ELSE {})
\* A clean report accounts for the whole image: the components' sizes and the free bytes add up to it,
\* so that the budgets and the floor bound it, whatever ranges take bytes from whatever files.
BudgetAccounts(own, comps, free, floor) ==
    BudgetErrors(own, comps, free, floor) = {} =>
      /\ Total([c \in DOMAIN comps |-> SizeIn(own, comps, c)], DOMAIN comps) = Cardinality(DOMAIN own)
      /\ Cardinality(DOMAIN own) <= Total([c \in DOMAIN comps |-> comps[c].budget], DOMAIN comps)
      /\ \A x \in DOMAIN own : \A c, d \in DOMAIN comps : own[x] \in comps[c].files \cap comps[d].files => c = d

(***************************************************************************)
(* rom_inventory.py.  labels are [at, name, top]; a row is [kind, refs,    *)
(* ends] at its address, one byte long: kind is code, words (DW), data or  *)
(* fill, and ends says that control stops there.                           *)
(***************************************************************************)
Starts(labels) == {l.at : l \in {k \in labels : k.top}} \cup {0}
RoutineAt(labels, x) == CHOOSE s \in Starts(labels) : s <= x /\ \A t \in Starts(labels) : t <= x => t <= s
Edges(labels, rows) ==
    LET n == Cardinality(DOMAIN rows)
        Of(x) == RoutineAt(labels, x)
        Where(name) == Of((CHOOSE l \in labels : l.name = name).at)
        After(s) == {t \in Starts(labels) : t > s /\ \A u \in Starts(labels) : u > s => t <= u}
        LastOf(s) == CHOOSE x \in 0 .. n - 1 : Of(x) = s /\ \A y \in 0 .. n - 1 : Of(y) = s => y <= x
    IN  [s \in Starts(labels) |->
            ({Where(r) : r \in UNION {rows[x].refs : x \in {y \in DOMAIN rows : Of(y) = s /\ rows[y].kind \in {"code", "words"}}}} \ {s})
            \cup (IF rows[LastOf(s)].kind = "code" /\ ~rows[LastOf(s)].ends THEN After(s) ELSE {})]
Live(labels, rows, roots) == Reached({RoutineAt(labels, (CHOOSE l \in labels : l.name = r).at) : r \in roots}, Edges(labels, rows))

\* Where a machine can go from an address (external): on, unless control ends there, to what it names,
\* and through a table of words to what the table names.
RECURSIVE Goes(_, _, _, _)
Goes(labels, rows, seen, work) ==
    IF work = {} THEN seen
    ELSE LET x == CHOOSE y \in work : TRUE
             on == /\ x + 1 \in DOMAIN rows /\ rows[x + 1].kind = rows[x].kind
                   /\ rows[x].kind \in {"code", "words"} /\ ~rows[x].ends
                   /\ rows[x].kind = "words" => x + 1 \notin Starts(labels)
             next == (IF on THEN {x + 1} ELSE {})
                     \cup (IF rows[x].kind \in {"code", "words"} THEN {l.at : l \in {k \in labels : k.name \in rows[x].refs}} ELSE {})
         IN  Goes(labels, rows, seen \cup {x}, (work \cup next) \ (seen \cup {x}))
\* No routine that the inventory calls unreachable holds an instruction that runs: what runs from the
\* roots, byte by byte, is inside the routines it calls live.
LiveHoldsWhatRuns(labels, rows, roots) ==
    LET run == Goes(labels, rows, {}, {(CHOOSE l \in labels : l.name = r).at : r \in roots})
    IN  \A x \in run : RoutineAt(labels, x) \in Live(labels, rows, roots)

(***************************************************************************)
(* check_ram_layout.py.  The map is a sequence of tiles [name, start,      *)
(* end]; names have values; a row of a listing names what it uses.         *)
(***************************************************************************)
MapErrors(tiles) ==
    {<<"first">> : k \in {j \in {1} : tiles[1].start # Rom}}
    \cup {<<"gap", k>> : k \in {j \in 1 .. Len(tiles) - 1 : tiles[j].end # tiles[j + 1].start}}
    \cup {<<"empty", k>> : k \in {j \in DOMAIN tiles : tiles[j].start >= tiles[j].end}}
\* census: the names that emitted lines use, and the names that the EQUs of those use.
Census(used, deps) == Reached(used, deps)
\* Each name a value; region gives a region name's images; hardware is $SCREEN_ADDR and the like.
Misused(names, value, region, values, who, tiles) ==
    {n \in names : /\ value[n] >= Rom /\ n \notin values
                   /\ IF n \in DOMAIN region THEN who \notin region[n]
                      ELSE \A t \in {"display file 1", "the cells block"} :
                             \A k \in DOMAIN tiles : tiles[k].name = t => value[n] \notin tiles[k].start .. tiles[k].end - 1}
\* A map that passes gives every RAM address exactly one tile, and then every RAM address that an image
\* uses, directly or by way of an EQU, and that is not one of its own regions' names, is in the
\* display or the cells: never in a stack, the dictionary, the line store or free space.
LayoutHolds(tiles, used, deps, value, region, who) ==
    LET names == Census(used, deps)
    IN  /\ IsLeast(names, used, deps, used \cup UNION {deps[n] : n \in DOMAIN deps})
        /\ (MapErrors(tiles) = {} /\ tiles[Len(tiles)].end = Top) =>
             /\ \A x \in Rom .. Top - 1 : Cardinality({k \in DOMAIN tiles : x \in tiles[k].start .. tiles[k].end - 1}) = 1
             /\ Misused(names, value, region, {}, who, tiles) = {} =>
                  \A n \in names : value[n] >= Rom =>
                     \E k \in DOMAIN tiles : /\ value[n] \in tiles[k].start .. tiles[k].end - 1
                                             /\ tiles[k].name \in {"display file 1", "the cells block"}
                                                \/ (n \in DOMAIN region /\ who \in region[n])

(***************************************************************************)
(* provenance.py: the runs of at least MinRun bytes that an image shares   *)
(* with a stock ROM, as <<image offset, ROM offset, length>>.              *)
(***************************************************************************)
Uniform(s, i) == \A k \in i .. i + MinRun - 1 : s[k] = s[i]
\* index: the windows of the ROM, but for those of one repeated byte.
Windows(rom) == {j \in 1 .. Len(rom) - MinRun + 1 : ~Uniform(rom, j)}
RunLength(img, rom, i, j) ==
    CHOOSE k \in 0 .. Len(img) :
      /\ i + k - 1 <= Len(img) /\ j + k - 1 <= Len(rom) /\ \A d \in 0 .. k - 1 : img[i + d] = rom[j + d]
      /\ (i + k > Len(img) \/ j + k > Len(rom) \/ img[i + k] # rom[j + k])
Same(img, rom, i, j) == \A d \in 0 .. MinRun - 1 : img[i + d] = rom[j + d]
Runs(img, rom) ==
    {<<i, j, RunLength(img, rom, i, j)>> :
        <<i, j>> \in {p \in (1 .. Len(img) - MinRun + 1) \X Windows(rom) :
                        Same(img, rom, p[1], p[2]) /\ ~(p[1] > 1 /\ p[2] > 1 /\ img[p[1] - 1] = rom[p[2] - 1])}}
\* trimmed: the length without the repeated bytes at either end.
RECURSIVE FromLeft(_, _), FromRight(_, _, _)
FromLeft(s, a) == IF a < Len(s) /\ s[a] = s[a + 1] THEN FromLeft(s, a + 1) ELSE a
FromRight(s, a, z) == IF z > a /\ s[z] = s[z - 1] THEN FromRight(s, a, z - 1) ELSE z
Trimmed(s) == LET a == FromLeft(s, 1) IN FromRight(s, a, Len(s)) - a + 1
Unaccounted(img, rom) == {r \in Runs(img, rom) : Trimmed(SubSeq(img, r[1], r[1] + r[3] - 1)) >= MinRun}

\* The longest stretches that an image and the ROM share.
Shared(img, rom) ==
    {<<i, j, RunLength(img, rom, i, j)>> :
        <<i, j>> \in {p \in (1 .. Len(img) - MinRun + 1) \X (1 .. Len(rom) - MinRun + 1) :
                        Same(img, rom, p[1], p[2]) /\ ~(p[1] > 1 /\ p[2] > 1 /\ img[p[1] - 1] = rom[p[2] - 1])}}
\* Every stretch of MinRun bytes or more that is not mostly one byte repeated is reported, whole, unless
\* it starts with MinRun equal bytes; and nothing else is.
RunsFound(img, rom) ==
    Unaccounted(img, rom) = {r \in Shared(img, rom) : /\ ~Uniform(img, r[1])
                                                      /\ Trimmed(SubSeq(img, r[1], r[1] + r[3] - 1)) >= MinRun}

(***************************************************************************)
(* snapshot.py's _normalize_ranges: a sequence of <<start, length>>.       *)
(***************************************************************************)
Before(r, i, j) == r[i][1] < r[j][1] \/ (r[i][1] = r[j][1] /\ (r[i][2] < r[j][2] \/ (r[i][2] = r[j][2] /\ i < j)))
Sorted(r) == [k \in DOMAIN r |-> r[CHOOSE i \in DOMAIN r : Cardinality({j \in DOMAIN r : Before(r, j, i)}) = k - 1]]
NormalizeRanges(r) ==
    IF \/ \E k \in DOMAIN r : r[k][2] < 1 \/ r[k][1] + r[k][2] > Top
       \/ \E k \in 1 .. Len(r) - 1 : Sorted(r)[k][1] + Sorted(r)[k][2] > Sorted(r)[k + 1][1]
      THEN <<>> ELSE Sorted(r)
\* Ranges are accepted exactly when no two of them share an address and none passes the top.
RangesApart(r) ==
    (r # <<>> /\ NormalizeRanges(r) = <<>>) <=>
       \/ \E k \in DOMAIN r : r[k][2] < 1 \/ r[k][1] + r[k][2] > Top
       \/ \E i, j \in DOMAIN r : i # j /\ (r[i][1] .. r[i][1] + r[i][2] - 1) \cap (r[j][1] .. r[j][1] + r[j][2] - 1) # {}
=============================================================================
