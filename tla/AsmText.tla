------------------------------ MODULE AsmText -------------------------------
(* How the source-level simulator reads assembler text: extract_routine.extract cuts
   one routine out of a file, Program.load_file turns lines into rows and labels,
   load_listing gives a row the address the assembler gave it, resolve_label and
   parse_val turn names into lines and numbers, split_operands divides an operand
   field.  A line of a file is one of

     [kind |-> "blank"], [kind |-> "comment"]
     [kind |-> "global", name, inset]    NAME:, at column 0 or indented (inset)
     [kind |-> "local",  name, ins]      .name:, alone (ins = "") or before ins
     [kind |-> "equ",    name, expr]     NAME EQU expr
     [kind |-> "ins",    ins]            an instruction
     [kind |-> "include", path]          another file's lines (an instruction to load_file)
     [kind |-> "marker", at]             extract's own "; z80sim-source:" comment

   and an instruction's text is a name, or a reference to a label.                  *)
EXTENDS Integers, Sequences, FiniteSets, TLC

Blank == [kind |-> "blank"]
Comment == [kind |-> "comment"]
Global(n, inset) == [kind |-> "global", name |-> n, inset |-> inset]
Local(n, i) == [kind |-> "local", name |-> n, ins |-> i]
Equ(n, e) == [kind |-> "equ", name |-> n, expr |-> e]
Ins(i) == [kind |-> "ins", ins |-> i]
Include(path) == [kind |-> "include", ins |-> "include", path |-> path]
Marker(path, n, l) == [kind |-> "marker", at |-> [path |-> path, line |-> n, text |-> l]]

(***************************************************************************)
(* extract: from start's line to the next global label at column 0 (or to  *)
(* end's), without comments, each line after a marker if locations is set. *)
(***************************************************************************)
AtColumn0(l) == l.kind = "global" /\ ~l.inset
IsLabel(l, n) == AtColumn0(l) /\ l.name = n

First(file, start) == CHOOSE i \in DOMAIN file : IsLabel(file[i], start) /\ \A j \in 1 .. i - 1 : ~IsLabel(file[j], start)
Ends(file, start, end, i) ==
    IF end # "" THEN IsLabel(file[i], end) ELSE AtColumn0(file[i]) /\ file[i].name # start
Past(file, start, end) ==
    LET after == {i \in First(file, start) + 1 .. Len(file) : Ends(file, start, end, i)}
    IN  IF after = {} THEN Len(file) + 1 ELSE CHOOSE i \in after : \A j \in after : i <= j

RECURSIVE Copied(_, _, _, _, _)
Copied(path, file, i, past, locations) ==
    IF i >= past THEN <<>>
    ELSE (IF file[i].kind \in {"comment", "marker"} THEN <<>>
          ELSE IF locations /\ file[i].kind # "blank" THEN <<Marker(path, i, file[i]), file[i]>>
          ELSE <<file[i]>>)
         \o Copied(path, file, i + 1, past, locations)

Extract(path, file, start, end, locations) ==
    IF \E i \in DOMAIN file : IsLabel(file[i], start)
      THEN Copied(path, file, First(file, start), Past(file, start, end), locations)
      ELSE <<>>

(***************************************************************************)
(* parse_val: a token is a number, a character, a registered name, or a    *)
(* sum of such terms from left to right.  A token that starts with $ or %  *)
(* is read as one hexadecimal or binary number whatever follows.           *)
(* Failed stands for ValueError.                                           *)
(***************************************************************************)
Failed == [ok |-> FALSE, n |-> 0]
Value(n) == [ok |-> TRUE, n |-> n]
Term(t, sysvars) ==
    IF t.kind = "name" THEN (IF t.name \in DOMAIN sysvars THEN Value(sysvars[t.name]) ELSE Failed)
    ELSE Value(t.n)
RECURSIVE SumOf(_, _, _, _)
SumOf(expr, i, sofar, sysvars) ==
    IF i > Len(expr) \/ ~sofar.ok THEN sofar
    ELSE LET t == Term(expr[i], sysvars)
         IN  SumOf(expr, i + 1,
                   IF ~t.ok THEN Failed
                   ELSE Value(IF expr[i].minus THEN sofar.n - t.n ELSE sofar.n + t.n), sysvars)
ParseVal(expr, sysvars) ==
    IF Len(expr) > 1 /\ expr[1].kind = "based" THEN Failed
    ELSE SumOf(expr, 2, Term(expr[1], sysvars), sysvars)

(***************************************************************************)
(* load_file.  A program: rows, the source of each row, the rows of the    *)
(* labels, those of the global names, and the constants (SYSVARS).         *)
(***************************************************************************)
NewProgram(sysvars) ==
    [rows |-> <<>>, source |-> <<>>, labels |-> <<>>, globals |-> <<>>, sysvars |-> sysvars]
NoScope == ""

\* _append_line: the row and where it came from.
AppendLine(p, scope, label, ins, at) ==
    [p EXCEPT !.rows = Append(@, [scope |-> scope, label |-> label, ins |-> ins]),
              !.source = Append(@, [path |-> at.path, line |-> at.line, text |-> at.text, scope |-> scope, address |-> <<>>])]

\* s: the program read so far, the nearest global label, a marker not yet used, the EQUs put off.
ReadLine(s, path, n, l) ==
    LET at == IF s.override # <<>> THEN s.override[1] ELSE [path |-> path, line |-> n, text |-> l]
        used == [s EXCEPT !.override = <<>>]
        row == Len(s.p.rows) + 1
    IN  CASE l.kind = "blank" -> s
          [] l.kind = "marker" -> [s EXCEPT !.override = <<l.at>>]
          [] l.kind = "comment" -> used
          [] l.kind = "equ" -> [used EXCEPT !.equs = Append(@, <<l.name, l.expr>>)]
          [] l.kind = "global" ->
               [used EXCEPT !.scope = l.name,
                            !.p = AppendLine([s.p EXCEPT !.globals = (l.name :> row) @@ @,
                                                         !.labels = (<<NoScope, l.name>> :> row) @@ @],
                                             l.name, l.name, "", at)]
          [] l.kind = "local" ->
               [used EXCEPT !.p = AppendLine([s.p EXCEPT !.labels = (<<s.scope, l.name>> :> row) @@ @],
                                             s.scope, l.name, l.ins, at)]
          [] OTHER -> [used EXCEPT !.p = AppendLine(s.p, s.scope, "", l.ins, at)]

RECURSIVE ReadFrom(_, _, _, _)
ReadFrom(s, path, file, i) == IF i > Len(file) THEN s ELSE ReadFrom(ReadLine(s, path, i, file[i]), path, file, i + 1)

\* A name already registered keeps its value; one whose value does not resolve is left out.
RECURSIVE Registered(_, _)
Registered(sysvars, equs) ==
    IF equs = <<>> THEN sysvars
    ELSE LET name == Head(equs)[1]
             v == ParseVal(Head(equs)[2], sysvars)
         IN  Registered(IF name \in DOMAIN sysvars \/ ~v.ok THEN sysvars ELSE (name :> v.n) @@ sysvars, Tail(equs))

LoadFile(p, path, file) ==
    LET s == ReadFrom([p |-> p, scope |-> NoScope, override |-> <<>>, equs |-> <<>>], path, file, 1)
    IN  [s.p EXCEPT !.sysvars = Registered(@, s.equs)]

\* resolve_label: 0 stands for KeyError.  A reference is .name, parent.name or a global name.
LocalRef(n) == [parent |-> "", name |-> n, local |-> TRUE]
Qualified(parent, n) == [parent |-> parent, name |-> n, local |-> TRUE]
ResolveLabel(p, scope, r) ==
    IF ~r.local THEN (IF r.name \in DOMAIN p.globals THEN p.globals[r.name] ELSE 0)
    ELSE LET key == <<IF r.parent = "" THEN scope ELSE r.parent, r.name>>
         IN  IF key \in DOMAIN p.labels THEN p.labels[key] ELSE 0

(***************************************************************************)
(* load_listing.  A listing is a sequence of [ev |-> "open", path],        *)
(* [ev |-> "close"] and [ev |-> "line", n, address, bytes, text]; lines    *)
(* without bytes are skipped.  A row gets the address of the lines of its  *)
(* file's name, number and text if they agree on one.                      *)
(***************************************************************************)
Normalized(l) == IF l.kind = "local" /\ l.ins # "" THEN <<"local", l.name, l.ins>>
                 ELSE IF l.kind \in {"global", "local"} THEN <<l.kind, l.name>> ELSE <<"ins", l.ins>>
BaseName(path) == path[2]

RECURSIVE Entries(_, _, _, _)
Entries(listing, i, current, stack) ==
    IF i > Len(listing) THEN {}
    ELSE LET e == listing[i] IN
         CASE e.ev = "open" -> Entries(listing, i + 1, <<e.path>>, <<current>> \o stack)
           [] e.ev = "close" -> Entries(listing, i + 1, IF stack = <<>> THEN <<>> ELSE Head(stack),
                                        IF stack = <<>> THEN <<>> ELSE Tail(stack))
           [] OTHER -> (IF current = <<>> \/ ~e.bytes THEN {}
                        ELSE {<<BaseName(current[1]), e.n, Normalized(e.text), e.address>>})
                       \cup Entries(listing, i + 1, current, stack)

AddressesOf(entries, src) ==
    {e[4] : e \in {x \in entries : x[1] = BaseName(src.path) /\ x[2] = src.line /\ x[3] = Normalized(src.text)}}
LoadListing(p, listing) ==
    LET entries == Entries(listing, 1, <<>>, <<>>)
    IN  [p EXCEPT !.source =
            [i \in DOMAIN @ |->
                LET a == AddressesOf(entries, @[i])
                IN  IF Cardinality(a) = 1 THEN [@[i] EXCEPT !.address = <<CHOOSE x \in a : TRUE>>] ELSE @[i]]]

(***************************************************************************)
(* split_operands: an operand field divided at the commas outside brackets *)
(* and quotes; a character is "c", a bracket, a comma or a quote.          *)
(***************************************************************************)
Quotes == {"'", "\""}
RECURSIVE SplitFrom(_, _, _, _, _)
SplitFrom(op, i, depth, quote, cur) ==
    IF i > Len(op) THEN (IF cur = <<>> THEN <<>> ELSE <<cur>>)
    ELSE LET ch == op[i]
             d == IF ch = "(" THEN depth + 1 ELSE IF ch = ")" THEN depth - 1 ELSE depth
         IN  IF quote # "" THEN SplitFrom(op, i + 1, depth, IF ch = quote THEN "" ELSE quote, Append(cur, ch))
             ELSE IF ch \in Quotes THEN SplitFrom(op, i + 1, depth, ch, Append(cur, ch))
             ELSE IF ch = "," /\ d = 0 THEN <<cur>> \o SplitFrom(op, i + 1, d, "", <<>>)
             ELSE SplitFrom(op, i + 1, d, "", Append(cur, ch))
SplitOperands(op) == SplitFrom(op, 1, 0, "", <<>>)

-----------------------------------------------------------------------------
(* The assembler, for the listings: files is a function from paths to their lines; a
   line [kind |-> "include", path] brings a file in, twice if it is named twice.  "of"
   is the file a line really came from: load_listing never reads it.                *)
Bytes(l) == l.kind = "ins" \/ (l.kind = "local" /\ l.ins # "")
RECURSIVE Assembled(_, _, _, _)
Assembled(files, path, i, address) ==
    IF i > Len(files[path]) THEN <<>>
    ELSE LET l == files[path][i] IN
         IF l.kind = "include"
           THEN LET inner == Assembled(files, l.path, 1, address)
                    used == Cardinality({k \in DOMAIN inner : inner[k].ev = "line" /\ inner[k].bytes})
                IN  <<[ev |-> "open", path |-> l.path]>> \o inner \o <<[ev |-> "close"]>>
                    \o Assembled(files, path, i + 1, address + used)
           ELSE <<[ev |-> "line", n |-> i, address |-> address, bytes |-> Bytes(l), text |-> l, of |-> path]>>
                \o Assembled(files, path, i + 1, IF Bytes(l) THEN address + 1 ELSE address)
Listing(files, main) == <<[ev |-> "open", path |-> main]>> \o Assembled(files, main, 1, 0) \o <<[ev |-> "close"]>>

\* Every row that load_listing gives an address has the one the assembler put that very line
\* at, and only that one: a file included twice, or another file of the same name with the
\* same text on the same line, leaves the row without one.
ListingIsTrue(files, main, path) ==
    LET listing == Listing(files, main)
        p == LoadListing(LoadFile(NewProgram(<<>>), path, files[path]), listing)
    IN  \A i \in DOMAIN p.source :
          p.source[i].address # <<>> =>
             {listing[k].address : k \in {j \in DOMAIN listing : listing[j].ev = "line" /\ listing[j].bytes
                                            /\ listing[j].of = path /\ listing[j].n = p.source[i].line}}
             = {p.source[i].address[1]}

\* A routine cut out with its locations and loaded keeps, row by row, the file and line it
\* was written on, and the labels it refers to are the ones the whole file gives it:
\* extract's markers and load_file's one-line override agree, and cutting at global labels
\* leaves every local label in its scope.
ExtractionKeepsPlaces(path, file, start) ==
    LET whole == LoadFile(NewProgram(<<>>), path, file)
        part == LoadFile(NewProgram(<<>>), <<"", "out">>, Extract(path, file, start, "", TRUE))
        RowAt(n) == CHOOSE k \in DOMAIN whole.source : whole.source[k].line = n
        PlaceOf(p, k) == <<p.source[k].path, p.source[k].line>>
    IN  \A i \in DOMAIN part.rows :
          LET k == RowAt(part.source[i].line)
          IN  /\ PlaceOf(part, i) = PlaceOf(whole, k) /\ part.rows[i] = whole.rows[k]
              /\ \A key \in DOMAIN part.labels :
                    key[1] = part.rows[i].scope =>
                       PlaceOf(part, ResolveLabel(part, key[1], LocalRef(key[2])))
                       = PlaceOf(whole, ResolveLabel(whole, NoScope, Qualified(key[1], key[2])))

\* Operands joined with commas come apart again as they were.
RECURSIVE Joined(_)
Joined(operands) == IF Len(operands) = 1 THEN operands[1] ELSE operands[1] \o <<",">> \o Joined(Tail(operands))
SplitsBack(operands) == SplitOperands(Joined(operands)) = operands

\* What a file's EQUs add to the constants never changes one already there, and each new one
\* is worth what its expression says of the constants before it.
ConstantsStand(sysvars, file) ==
    LET after == LoadFile(NewProgram(sysvars), <<"", "f">>, file).sysvars
    IN  /\ \A n \in DOMAIN sysvars : after[n] = sysvars[n]
        /\ \A n \in DOMAIN after \ DOMAIN sysvars :
              \E i \in DOMAIN file : file[i].kind = "equ" /\ file[i].name = n /\ ParseVal(file[i].expr, after) = Value(after[n])
=============================================================================
