------------------------------ MODULE MCTools -------------------------------
(* The console with the tool that reads its output back (forthtest), and the tools that are
   functions of what they are given.  in[1] says which: each kind of input is chosen in a
   step of its own, from small sets, by the tools' own constants at a small size.       *)
EXTENDS Console, FiniteSets, TLC

VARIABLES in,
          before, row0, cleared      \* forthtest: the screen and PRINT_ROW before the line, did the line clear it; <<>> when
                                 \* DELETE was pressed, which forthtest never does
readVars == <<before, row0, cleared>>

A == INSTANCE AsmText
MCJumps == {"jr .a", "jp .a", "jr F", "push", "pop", "big"}
B == INSTANCE BuildChecks WITH
        Jump <- [i \in MCJumps |-> IF i \in {"jr .a", "jp .a"} THEN ".a" ELSE IF i = "jr F" THEN "F" ELSE ""],
        Size <- [i \in MCJumps |-> IF i = "big" THEN 4 ELSE IF i = "jp .a" THEN 3 ELSE IF i \in {"jr .a", "jr F"} THEN 2 ELSE 1],
        StackOp <- [i \in MCJumps |-> IF i \in {"push", "pop"} THEN i ELSE ""],
        LocalNames <- {".a"}, Short <- {"jr .a", "jr F"}, Reach <- 4, Near <- 1, Entry <- 3
I == INSTANCE ImageChecks WITH Top <- 8, Rom <- 2, MinRun <- 2
K == INSTANCE Cartridge WITH Base <- 100, MaxLen <- 6, LatestCold <- 7, Identity <- 1, UdgLen <- 2, HeadLen <- 4, ChunkLen <- 8,
        Upper <- ("GO" :> "GO") @@ ("go" :> "GO") @@ ("HI" :> "HI") @@ ("NOPE" :> "NOPE")
T == INSTANCE ForthTest WITH Top <- EDIT_ROW
O == INSTANCE PowerOn WITH Size <- 4, Bits <- 2, Chunk <- 3, Cap <- 7,
        Random <- ("random:1" :> [x \in 0..3 |-> <<1, 0, 3, 2>>[x + 1]]) @@ ("random:2" :> [x \in 0..3 |-> <<0, 2, 1, 3>>[x + 1]]),
        Regions <- {[lo |-> 2, hi |-> 0, sp |-> TRUE], [lo |-> 3, hi |-> 4, sp |-> FALSE]}
Z == INSTANCE Z80Flags
P == INSTANCE Pulses WITH ByteBits <- 3, MinPilot <- 3, HeaderPilot <- 9, DataPilot <- 8, Counter <- 262144
S == INSTANCE Shapes WITH W <- 4, H <- 3, Cell <- 2, Half <- 16, LineMax <- 6
F == INSTANCE Shapes WITH W <- 4, H <- 4, Cell <- 2, Half <- 16, LineMax <- 6
R == INSTANCE Shapes WITH W <- 256, H <- 192, Cell <- 8, Half <- 32768, LineMax <- 100
N == INSTANCE Floats WITH W <- 4, G <- 2, Bias <- 6, EMax <- 11, IntBits <- 2, NLimit <- 1, MaxPow <- 1
M == INSTANCE Floats WITH W <- 8, G <- 3, Bias <- 6, EMax <- 15, IntBits <- 4, NLimit <- 25, MaxPow <- 2
Y == INSTANCE FloatTest WITH FTop <- 8, DTop <- 16, Cell <- 2, MostF <- 3, MostI <- 3, RetSlot <- 18, StopAddr <- 20, ThrowSlot <- 26,
        MemTop <- 28, Modulus <- 16
ASSUME ToolsAssumption ==
    /\ ConsoleParameters /\ B!BuildParameters /\ I!ImageParameters /\ K!CartridgeParameters /\ O!PowerOnParameters
    /\ P!PulsesParameters /\ S!ShapesParameters /\ F!ShapesParameters /\ R!ShapesParameters
    /\ N!FloatParameters /\ M!FloatParameters /\ Y!FloatTestParameters

Upto(set, n) == UNION {[1..k -> set] : k \in 0..n}
----------------------------------------------------------------------------
\* Sources
Main == <<"a", "x">>
Files == Upto({A!Blank, A!Comment, A!Global("F", FALSE), A!Global("G", FALSE), A!Global("H", TRUE), A!Local(".a", ""),
               A!Local(".a", "i"), A!Ins("i")}, 4)
Distinct(file) == \A i, j \in DOMAIN file : i < j /\ file[i].kind = "global" /\ file[j].kind = "global" => file[i].name # file[j].name
Trees == {(Main :> m) @@ (<<"b", "x">> :> b) @@ (<<"a", "y">> :> c) :
            m \in Upto({A!Ins("i"), A!Ins("j"), A!Local(".a", "i"), A!Include(<<"b", "x">>), A!Include(<<"a", "y">>)}, 3),
            b \in Upto({A!Ins("i"), A!Ins("j"), A!Include(<<"a", "y">>)}, 2), c \in {<<A!Ins("i")>>, <<A!Ins("j")>>}}
Operands == {<<"c">>, <<"(", "c", ",", "c", ")">>, <<"'", "\"", "'">>} \cup {<<"'", ch, "'">> : ch \in {",", "(", ")"}}
Terms == [kind : {"number", "based"}, n : {1, 2}, minus : BOOLEAN] \cup [kind : {"name"}, name : {"N", "M", "S"}, minus : BOOLEAN]
Exprs == {e \in Upto(Terms, 2) : e # <<>> /\ ~e[1].minus}
Sums == {<<A!Equ("N", e), A!Equ(n, <<t>>)>> : e \in Exprs, n \in {"M", "N", "S"}, t \in {u \in Terms : ~u.minus}}
Checked == Upto({A!Global("F", FALSE), A!Global("G", FALSE), A!Global("G", TRUE), A!Local(".a", ""),
                 A!Local(".a", "jr .a"), A!Ins("jr .a"), A!Ins("pop"), A!Ins("push"), A!Ins("big"), A!Ins("jr F")}, 4)
Relaxed(n) == [1..n -> [op : {"jp"}, to : 1..n, size : {0}, keep : BOOLEAN] \cup [op : {""}, to : {1}, size : {1, 3}, keep : {FALSE}]]
Raws == [kind : {"bench"}, arg : {"b"}] \cup [kind : {"keys"}, arg : {1}] \cup [kind : {"brk"}, arg : {"at"}]
        \cup [kind : {"exrom"}, arg : {"stock", "ours"}] \cup [kind : {"typed"}, arg : {"", "A", "draws", "endsB"}]
Behaves == [reads : {0, 1}, stops : BOOLEAN, breaks : {TRUE}, out : {"", "A"}]
           \cup [reads : {0}, stops : {TRUE}, breaks : {FALSE}, out : {"AB"}]
TypedOf(raws) == Cardinality({i \in DOMAIN raws : raws[i].kind = "typed"})

SourceInput ==
    \/ in = <<"extract">> /\ \E f \in {g \in Files : Distinct(g)} : in' = <<"extract", f>>
    \/ in = <<"listing">> /\ \E t \in Trees : in' = <<"listing", t>>
    \/ in = <<"split">> /\ \E o \in Upto(Operands, 3) \ {<<>>} : in' = <<"split", o>>
    \/ in = <<"equ">> /\ \E e \in Sums : in' = <<"equ", e>>
    \/ in = <<"check">> /\ \E f \in Checked : in' = <<"check", f>>
    \/ in = <<"relax">> /\ \E n \in 1..3 : \E p \in Relaxed(n) : in' = <<"relax", p>>
    \/ in = <<"case">> /\ \E r \in Upto(Raws, 3) : \E b \in [1..TypedOf(r) -> Behaves] : in' = <<"case", r, b>>

\* Images, tapes and pages
Owned == {(Main :> m) @@ (<<"b", "z">> :> b) @@ (<<"a", "y">> :> c) :
            m \in Upto({A!Ins("i"), A!Global("F", FALSE), A!Local(".a", "i"), A!Include(<<"b", "z">>), A!Include(<<"a", "y">>)}, 3),
            b \in Upto({A!Ins("i"), A!Blank, A!Include(<<"a", "y">>)}, 2), c \in {<<A!Ins("i")>>, <<A!Ins("j")>>}}
Parts == Upto([files : {{"f"}, {"f", "g"}}, ranges : {{}, {<<0, 1>>}, {<<1, 2>>}}, budget : {1, 3}], 2) \ {<<>>}
Labels == {[at |-> 0, name |-> "A", top |-> TRUE], [at |-> 1, name |-> "a", top |-> FALSE],
           [at |-> 2, name |-> "B", top |-> TRUE], [at |-> 3, name |-> "C", top |-> TRUE]}
ImageRows == [kind : {"code"}, refs : {{}, {"A"}, {"a"}, {"C"}}, ends : BOOLEAN]
             \cup [kind : {"words"}, refs : {{"B"}}, ends : {FALSE}] \cup [kind : {"data", "fill"}, refs : {{"C"}}, ends : {FALSE}]
Tiles == {<<[name |-> "display file 1", start |-> a, end |-> b], [name |-> "the cells block", start |-> c, end |-> d],
            [name |-> "free space", start |-> e, end |-> 8]>> : a \in {2, 3}, b \in 3..5, c \in 3..5, d \in {5, 6}, e \in 5..8}
Calls == {("p" :> {"q"}), ("q" :> {"p"}) @@ ("p" :> {}), ("r" :> {"q"}) @@ ("q" :> {"r"})}
Dict(n, len, mark) == [len |-> len, mark |-> mark,
                       words |-> (0 :> [link |-> 7, name |-> n]) @@ (2 :> [link |-> 100, name |-> "HI"]) @@ (1 :> [link |-> 101, name |-> "HI"])
                                 @@ (3 :> [link |-> 103, name |-> "HI"]) @@ (4 :> [link |-> 103, name |-> "HI"])]
Program(n, len, mark, latest, id) == [dict |-> Dict(n, len, mark), latest |-> latest, identity |-> id, udg |-> mark]
CartCases == [hello |-> Program("GO", 5, "h", 102, 1), udg |-> Program("GO", 4, "u", 100, 1),
              error |-> Program("GO", 6, "e", 102, 1), break |-> Program("GO", 3, "b", 100, 1)]
LibFiles == {K!LibFile(f, Program(n, len, "p", latest, id), c) :
               f \in {"A", "B"}, n \in {"GO", "go"}, len \in {0, 2, 3, 4, 6}, latest \in {7, 100, 101, 102, 103}, id \in {1, 2}, c \in BOOLEAN}
TextBlocks == <<K!Header("TEXT", "A", 3, 0, 0), K!Body(K!Empty, TRUE)>>
Tapes == LibFiles \cup {TextBlocks \o f : f \in LibFiles} \cup {<<f[1]>> : f \in LibFiles}
         \cup {K!LibFile("A", CartCases.hello, TRUE) \o f : f \in LibFiles}
ROMLabels == ("COLD_START.chime" :> 0) @@ ("ROM_IDENTITY" :> 3) @@ ("P" :> 5) @@ ("P.x" :> 6) @@ ("Z" :> 7)
Image(labels, fill, bytes) == [labels |-> labels, img |-> <<"CALL", fill, fill, fill, fill>> \o bytes, exrom |-> 0]
Ram == 0..3
Effects == {[op |-> "const", a |-> 0, b |-> 0, v |-> 2]} \cup [op : {"copy"}, a : {0, 3}, b : {0}, v : {0}]
           \cup [op : {"and", "xor"}, a : {0}, b : {0, 3}, v : {0}]

ImageInput ==
    \/ in = <<"owners">> /\ \E t \in Owned : in' = <<"owners", t>>
    \/ in = <<"budget">> /\ \E n \in 1..2 : \E o \in [0..n -> {"f", "g", "none"}], p \in Parts, a \in {0, 1} : in' = <<"budget", o, p, a>>
    \/ in = <<"inventory">> /\ \E r \in [0..3 -> ImageRows] : in' = <<"inventory", r>>
    \/ in = <<"layout">> /\ \E t \in Tiles, u \in {{"p"}, {"p", "r"}}, c \in Calls, at \in [{"p", "q", "r"} -> {1, 3, 7}],
                               h \in {("r" :> {"H"}), ("p" :> {"X"})} : in' = <<"layout", t, u, c, at, h>>
    \/ in = <<"runs">> /\ \E a, b \in Upto({0, 1}, 5) : Len(a) > 1 /\ Len(b) > 1 /\ in' = <<"runs", a, b>>
    \/ in = <<"ranges">> /\ \E r \in Upto((0..4) \X (0..4), 2) \ {<<>>} : in' = <<"ranges", r>>
    \/ in = <<"tape">> /\ \E t \in Tapes, f \in {"", "A"}, n \in {"GO", "NOPE"} : in' = <<"tape", t, f, n>>
    \/ in = <<"dock">> /\ \E n \in 0..16 : in' = <<"dock", n>>
    \/ in = <<"image">> /\ \E a, b \in [1..3 -> {"1", "FF", "CALL"}], l \in {ROMLabels, ("P.x" :> 9) @@ ROMLabels, ("Z" :> 6) @@ ROMLabels} :
                              in' = <<"image", Image(ROMLabels, "1", a), Image(l, "2", b)>>
    \/ in = <<"power">> /\ \E r \in [Ram -> Effects], sp \in {1, 3} :
                              in' = <<"power", [ram |-> r, sp |-> sp, opcodes |-> 5, noise |-> FALSE]>>
    \/ in = <<"power">> /\ \E n \in {0, 9, 10}, noise \in BOOLEAN, e \in Effects :
                              in' = <<"power", [ram |-> [a \in Ram |-> e], sp |-> 3, opcodes |-> n, noise |-> noise]>>
    \/ in = <<"symbols">> /\ \E r \in Upto((0..2) \X {"a", "b"}, 3), a \in Ram :
                                (\A i \in 1..Len(r) - 1 : r[i][1] <= r[i + 1][1]) /\ in' = <<"symbols", r, a>>
    \/ in = <<"classes">> /\ \E d \in SUBSET Ram, sp \in 0..5, x \in SUBSET {1, 3} : in' = <<"classes", d, sp, x>>

\* Models of the ROM's arithmetic, signals and shapes
Bytes == {0, 1, 15, 16, 127, 128, 129, 240, 255}
Blocks == {<<<<1, 2>>, <<7, 0, 5>>>>, <<<<0>>, <<6, 3>>>>}
Distortions == [pilot : {-10, 10}, sync : {-20, 20}, bits : {0, 20}, skew : {0, 30}, n : {0, 9}, missing : {"", "mid", "end"},
                extra : BOOLEAN, flat : {0, 5000}, drop : {0, 7000}]
Digits == {0, 3, 9}
Tokens == {t \in [int : Upto(Digits, 3), frac : Upto(Digits, 2), exp : -1..2] :
             (t.int # <<>> \/ t.frac # <<>>) /\ t.exp - Len(t.frac) >= -2}
ShapeCalls == {[word |-> "FILL", args |-> <<1, 1>>], [word |-> "PLOT", args |-> <<3, 40>>], [word |-> "LINE", args |-> <<-1, 0, 3, 2>>],
               [word |-> "CIRCLE", args |-> <<1, 1, 1>>]}
Screen(dots, m) == [bmp |-> [p \in S!Pixels |-> IF p \in dots THEN 1 ELSE 0], attr |-> [c \in 0..3 |-> 0], hi |-> [c \in 0..5 |-> 0],
                    mode |-> m, cur |-> 1]
Answer(scr, calls, n, fault) ==
    LET drawn == S!After(scr, calls, n)
    IN  [returned |-> fault # "stuck", t |-> 1, outside |-> IF fault = "ram" THEN {9} ELSE {1}, args |-> {2}, clean |-> fault # "ix",
         scr |-> IF fault = "pixel" THEN [drawn EXCEPT !.bmp[<<0, 2>>] = 1] ELSE drawn]
C1 == <<0, 1>>
C2 == <<1, 1>>
Word(how, pop, push, ipop, ipush) == [Y!Returns EXCEPT !.how = how, !.pop = pop, !.push = push, !.ipop = ipop, !.ipush = ipush, !.code = -43]
Words == {Word(how, p, f, q, i) : how \in {"returns", "throws", "stuck", "slips", "tears"}, p \in {0, 1}, f \in {<<>>, <<C1>>},
                                  q \in {0, 1}, i \in {<<>>, <<3>>}}
FirstWords == {Word(how, 1, <<C2, C2>>, 0, <<7, 7>>) : how \in {"returns", "throws", "stuck", "slips", "tears"}}
Case(kind, w, f, i, exp) == [kind |-> kind, w |-> w, f |-> f, i |-> i, exp |-> exp, places |-> {}]
Answers == [end : {"ok"}, f : {<<C2, C1>>}, i : {<<>>}] \cup [end : {"throws"}, code : {-43}]
Numbers == [end : {"none"}] \cup [end : {"int"}, v : {3}] \cup [end : {"float"}, c : {C1}] \cup [end : {"throws"}, code : {-43}]
FloatCases == {Case("std", Word(how, 1, <<C1>>, 0, <<>>), <<C2, C2>>, <<>>, e) : how \in {"returns", "throws", "stuck", "tears"}, e \in Answers}
              \cup {Case("number", Word(how, 0, f, 1, i), <<>>, <<5>>, e) : how \in {"returns", "throws"}, f \in {<<>>, <<C1>>}, i \in {<<0>>, <<3, 1>>, <<2>>}, e \in Numbers}
              \cup {[Case("print", [Word(how, 1, <<>>, 0, <<>>) EXCEPT !.out = o], <<C1>>, <<>>, [text |-> <<"x">>]) EXCEPT !.places = p] :
                      how \in {"returns", "stuck"}, o \in {<<"x">>, <<"x", " ">>}, p \in {{}, {Y!Returns}, {Word("throws", 0, <<>>, 0, <<>>)}}}
              \cup {Case("beep", [Word(how, 1, <<>>, q, <<>>) EXCEPT !.frames = 2, !.semitones = s], <<C1>>, <<5>>, [frames |-> n]) :
                      how \in {"returns", "plays", "stuck"}, q \in {0, 1}, s \in {5, 6}, n \in {0, 2}}
Hanging == {Case("std", Word(how, 1, <<C1>>, 0, <<>>), <<C2, C2>>, <<>>, [end |-> "ok", f |-> <<C2, C1>>, i |-> <<>>]) :
              how \in {"returns", "stuck", "throws"}}
FloatChecks == [group : {"new", "speed"}, tasks : {0, 1, 2}, model : BOOLEAN]
FloatRan == {[ok |-> TRUE, harness |-> "no"], [ok |-> FALSE, harness |-> "no"], [ok |-> FALSE, harness |-> "raised"],
             [ok |-> FALSE, harness |-> "never ran"]}
Ran == {[ok |-> TRUE, t |-> 1, harness |-> "no"], [ok |-> TRUE, t |-> 3, harness |-> "no"], [ok |-> FALSE, t |-> 0, harness |-> "no"],
        [ok |-> FALSE, t |-> 0, harness |-> "raised"], [ok |-> FALSE, t |-> 0, harness |-> "never ran"]}

ModelInput ==
    \/ in = <<"flags">> /\ \E a, b \in Bytes, c \in {0, 1} : in' = <<"flags", a, b, [n \in Z!FlagNames |-> c]>>
    \/ in = <<"capture">> /\ \E b \in Blocks, d \in SUBSET {1, 2}, cut \in {0, 1, 99}, t \in {0, 240000, 262000}, a \in {{}, {1, 5}, {2, 20}} :
                                in' = <<"capture", b, d, cut, t, a>>
    \/ in = <<"synth">> /\ \E b \in Blocks, d \in Distortions : in' = <<"synth", b, d>>
    \/ in = <<"sample">> /\ \E b \in Blocks, s \in {4, 224, 1000} : in' = <<"sample", b, s>>
    \/ in = <<"tapefile">> /\ \E b \in Blocks, ms \in {0, 1, 6, 7, 20}, w \in {0, 3, 6, 7}, most \in {1, 3, 7} :
                                 in' = <<"tapefile", b, ms, [i \in 1..w |-> i], most>>
    \/ in = <<"float">> /\ \E x \in N!Floats : in' = <<"float", x>>
    \/ in = <<"digits">> /\ \E x \in M!Floats : in' = <<"digits", x>>
    \/ in = <<"token">> /\ \E t \in Tokens : in' = <<"token", t>>
    \/ in = <<"random">> /\ \E h \in SUBSET (8..15) : in' = <<"random", h>>
    \/ in = <<"fill">> /\ \E m \in SUBSET F!Pixels, x \in 0..3 : Cardinality(m) = 6 /\ in' = <<"fill", m, x, 0>>
    \/ in = <<"circle">> /\ \E x \in -2..2, r \in -1..12 : in' = <<"circle", x, r>>
    \/ in = <<"line">> /\ \E a \in {0, 3}, c, e \in -8..8 : in' = <<"line", a, 0, c, e>>
    \/ in = <<"pack">> /\ \E c \in Upto(1..5, 5) : in' = <<"pack", c>>
    \/ in = <<"shapes">> /\ \E c, d \in ShapeCalls, f, g \in {"none", "stuck", "ram", "ix", "pixel"}, w \in {{"FILL", "PLOT", "LINE", "CIRCLE"}, {"LINE"}},
                               s \in {Screen({}, 0), Screen({<<1, 0>>, <<1, 1>>}, 0), Screen({<<1, 1>>}, 1)}, b \in 0..2 :
                               in' = <<"shapes", <<c, d>>, <<f, g>>, s, w, b>>
    \/ in = <<"report">> /\ \E n \in [1..2 -> 1..2], g \in [1..2 -> {"old", "speed"}], o \in [1..2 -> {0, 2}] : \E r \in [1..n[1] + n[2] -> Ran] :
                               in' = <<"report", n, g, o, r>>
    \/ in = <<"fcall">> /\ \E u \in FirstWords, w \in Words, f \in Upto({C1, C2}, 2), i \in Upto({5}, 2), c, d \in BOOLEAN :
                               in' = <<"fcall", u, w, f, i, c, d>>
    \/ in = <<"fcases">> /\ \E c \in Upto(FloatCases, 2), n \in {1, 2} : in' = <<"fcases", c, n>>
    \/ in = <<"fcases">> /\ \E c \in Upto(Hanging, 6), n \in {1, 3, 4, 6} : in' = <<"fcases", c, n>>
    \/ in = <<"integers">> /\ \E x \in -8..7 : in' = <<"integers", x>>
    \/ in = <<"chunks">> /\ \E k \in 0..6, n \in 1..4 : in' = <<"chunks", [i \in 1..k |-> i], n>>
    \/ in = <<"freport">> /\ \E c, d \in FloatChecks, m \in BOOLEAN : \E r \in [1..c.tasks + d.tasks -> FloatRan] :
                               in' = <<"freport", <<c, d>>, r, m>>
    \/ in = <<"real">> /\ in' = <<"real", "cases">>

----------------------------------------------------------------------------
Tools == {"extract", "listing", "split", "equ", "check", "relax", "case",
          "owners", "budget", "inventory", "layout", "runs", "ranges", "tape", "dock", "image", "power", "symbols", "classes",
          "flags", "capture", "synth", "sample", "tapefile", "float", "digits", "token", "random", "fill", "circle", "line", "pack",
          "shapes", "report", "fcall", "fcases", "integers", "chunks", "freport", "real"}
OutputRows(rows) == [i \in 1..EDIT_ROW |-> rows[i - 1]]
RowsText(screen) == [r \in Rows |-> Trimmed(screen[r])]
AllInit == Init /\ before = RowsText(con.screen) /\ row0 = 0 /\ cleared = FALSE /\ in \in {<<t>> : t \in Tools \cup {"console"}}
ConsoleStep ==
    /\ in = <<"console">> /\ Next /\ UNCHANGED in
    /\ cleared' = (~(mode = "prompt" /\ mode' = "run") /\ (cleared \/ (mode = "run" /\ mode' = "run" /\ printed' = << <<>> >>)))
    /\ CASE mode = "prompt" /\ line = Empty /\ <<mode, line>>' # <<mode, line>> -> before' = RowsText(con.screen) /\ row0' = con.row
         [] mode = "prompt" /\ Len(line'.text) < Len(line.text) -> before' = <<>> /\ UNCHANGED row0
         [] OTHER -> UNCHANGED <<before, row0>>
AllNext == ConsoleStep \/ (UNCHANGED <<vars, readVars>> /\ (SourceInput \/ ImageInput \/ ModelInput))
AllSpec == AllInit /\ [][AllNext]_<<vars, readVars, in>>

----------------------------------------------------------------------------
Zero == [a \in Ram |-> 0]
Given(tool) == Len(in) > 1 /\ in[1] = tool
\* What the tools that read text read is there: a routine is cut out and located, a listing placed, an operand field and a
\* constant read, a file checked and relaxed (AsmText, BuildChecks), a line's output read back from the screen and a case
\* judged by it (ForthTest), as their own properties say.
TextsRead ==
    /\ Given("extract") => \A s \in {"F", "G"} : A!ExtractionKeepsPlaces(Main, in[2], s)
    /\ Given("listing") => A!ListingIsTrue(in[2], Main, Main)
    /\ Given("split") => A!SplitsBack(in[2])
    /\ Given("equ") => A!ConstantsStand([S |-> 5], in[2])
    /\ Given("check") => B!PassedFileResolves(in[2]) /\ B!JumpsWatched(in[2])
    /\ Given("relax") => B!RelaxesSafely(in[2])
    /\ Given("case") => T!CaseJudged(in[2], in[3])
    /\ (mode = "prompt" /\ line = Empty /\ tall = 1 /\ lines > 0 /\ before # <<>>) =>
          /\ T!ReadsItsOutput(before, row0, RowsText(con.screen), con.row, [i \in DOMAIN printed |-> Trimmed(printed[i])], cleared)
          /\ (~cleared /\ row0 + Len(printed) <= EDIT_ROW) =>
                Y!LineReadBack(OutputRows(before), OutputRows(RowsText(con.screen)), [i \in DOMAIN printed |-> Trimmed(printed[i])])

\* What is said of an image, a tape, a cartridge or a boot is so: owners, budgets, live code, layout and shared runs
\* (ImageChecks), a packed program and a checked cartridge ROM (Cartridge), the power-on patterns (PowerOn).
ImagesJudged ==
    /\ Given("owners") => I!OwnersAreTrue(in[2], Main)
    /\ Given("budget") => I!BudgetAccounts(in[2], in[3], in[4], 1)
    /\ Given("inventory") => I!LiveHoldsWhatRuns(Labels, in[2], {"A"})
    /\ Given("layout") => I!LayoutHolds(in[2], in[3], in[4], in[5], in[6], "H")
    /\ Given("runs") => I!RunsFound(in[2], in[3])
    /\ Given("ranges") => I!RangesApart(in[2])
    /\ Given("dock") => K!CartCasesPass(CartCases) /\ K!FilesAgree(in[2])
    /\ Given("tape") => K!PackedRuns(in[2], in[3], in[4], "u")
    /\ Given("image") => K!CheckedIsRelease(in[2], in[3], ("P" :> 2), {"P.x"}, 1)
    /\ Given("power") => O!PowerOnQualifies(in[2])
    /\ Given("symbols") => O!NearestSymbol(in[2], in[3])
    /\ Given("classes") => O!ClassifiedExactly(Zero, [a \in Ram |-> IF a \in in[2] THEN 1 ELSE 0], in[3], in[4])

\* The models the ROM is tested against are right themselves: flags (Z80Flags), a tape's signal and a capture of it (Pulses),
\* floats, their digits and RND (Floats), shapes, their cases and their report (Shapes).
ModelsExact ==
    /\ Given("flags") => Z!FlagsRight(in[4], in[2], in[3])
    /\ Given("capture") => P!CaptureGivesBack(in[2], in[3], in[4], in[5], in[6])
    /\ Given("synth") => P!SynthIsTheTape(in[2], in[3])
    /\ Given("sample") => P!NoDrift(P!Synth(in[2], P!Undistorted), in[3]) /\ P!NoDrift(P!TapeOf(in[2], {}, 99), in[3])
    /\ Given("tapefile") => P!FilesKeep(in[2], in[3], in[4], in[5])
    /\ Given("float") => \A y \in N!Floats : N!OperationsRound(in[2], y)
    /\ Given("digits") => M!IntegersRight(in[2]) /\ M!DigitsNear(in[2])
    /\ Given("token") => M!ConstantNear(in[2])
    /\ Given("random") => /\ N!SToFExact /\ M!SToFExact
                          /\ \A l \in SUBSET (0..7) : N!RndGoesOn(in[2] \cup l, 6) /\ N!RndGoesOn(in[2] \cup l, 32774)
    /\ Given("fill") => F!FillsTheRegion([p \in F!Pixels |-> IF p \in in[2] THEN 1 ELSE 0], in[3], in[4])
    /\ Given("circle") => S!CircleRound(in[2], 1, in[3])
    /\ Given("line") => S!LineStraight(in[2], in[3], in[4], in[5])
    /\ Given("pack") => S!PacksInOrder(in[2])
    /\ Given("shapes") => S!CaseIsTrue([calls |-> in[2], seedBit |-> in[6], region |-> <<1, 20>>, ceil |-> 5, allowed |-> {1}], in[5], in[4],
                                       [i \in 1..2 |-> Answer(in[4], in[2], i, in[3][i])])
    /\ Given("report") => S!ReportTrue([k \in 1..2 |-> [tasks |-> in[2][k], group |-> in[3][k]]], in[5], in[4])
    /\ Given("fcall") => Y!CallTells(Y!Call(Y!Booted, in[2], <<C2, C1>>, <<6>>, in[6], {}).m, in[3], in[4], in[5], in[7])
    /\ Given("fcases") => Y!CasesJudged(in[2], in[3])
    /\ Given("integers") => \A y \in -8..7 : Y!DivisionRight(in[2], y)
    /\ Given("chunks") => Y!ChunksKeep(in[2], in[3])
    /\ Given("freport") => Y!FloatReportTrue(in[2], in[3], in[4])
    /\ Given("real") => R!CasesSayWhatTheyClaim /\ R!BytesOnce /\ S!BytesOnce
=============================================================================
