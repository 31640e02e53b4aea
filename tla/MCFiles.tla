------------------------------ MODULE MCFiles ------------------------------
\* KicadFiles and Matching over bounded inputs, against reference definitions.
EXTENDS Cases, KicadFiles, Matching, TLC

SmallLess(a, b) == <<a, b>> \in {<<"a", "b">>, <<"", "a">>, <<"", "b">>}

\* C = 1, R = 2; KiKit_FID sorts between them.
SomeRefs == [R1 |-> <<3, 1>>, R2 |-> <<3, 2>>, R10 |-> <<3, 10>>, C1 |-> <<1, 1>>,
             PWR |-> <<0, 1>>, FID |-> <<2, 1>>, X1 |-> <<5, 1>>]
PowerOnly == {"power:GND"}
Fits      == {<<"0603", "R_0603_1608Metric">>}

SumOver(s, f) == FoldLeft(LAMBDA n, x : n + x[f], 0, s)
SeqsTo(S, n)  == UNION {[1 .. k -> S] : k \in 0 .. n}

-----------------------------------------------------------------------------
\* Grouping.

SomeComponents ==
    {[NoComponent EXCEPT !.reference = r, !.value = v, !.manufacturer = m] :
        r \in {"R1", "R10", "R2", "C1", ""}, v \in {"a", "b"}, m \in {"", "x"}}

AskGrouping == Ask("grouping", SeqsTo(SomeComponents, 3))

\* Grouping loses and invents nothing: each (value, footprint, MPN) has one line, which
\* counts its components, lists their references in natural order and says the first
\* manufacturer any of them says; lines that have references are in the order of their
\* first (GroupComponents).
GroupingExact ==
    Asked("grouping") =>
        LET comps == case.in
            lines == GroupComponents(comps)
            Of(l) == SelectSeq(comps, LAMBDA c : SameGroup(l, c))
            Says(s) == SelectSeq(s, LAMBDA c : c.manufacturer # "")
        IN  /\ SumOver(lines, "quantity") = Len(comps)
            /\ \A i, j \in DOMAIN lines : i # j => ~SameGroup(lines[i], lines[j])
            /\ \A i \in DOMAIN lines :
                   LET cs == Of(lines[i])
                       refs == lines[i].refs
                   IN  /\ lines[i].quantity = Len(cs)
                       /\ \A r \in DOMAIN SomeRefs :
                              Len(SelectSeq(refs, LAMBDA x : x = r)) = Len(SelectSeq(cs, LAMBDA c : c.reference = r))
                       /\ \A k \in 1 .. Len(refs) - 1 : ~RefLess(refs[k + 1], refs[k])
                       /\ lines[i].manufacturer = IF Says(cs) = <<>> THEN "" ELSE Says(cs)[1].manufacturer
            /\ (\A i \in DOMAIN lines : lines[i].refs # <<>>) =>
                   \A i \in 1 .. Len(lines) - 1 : ~RefLess(lines[i + 1].refs[1], lines[i].refs[1])

-----------------------------------------------------------------------------
\* S-expressions.

Leaves == {Atom("x"), Atom("y")}
Trees1 == {List(s) : s \in SeqsTo(Leaves, 2)}
Trees2 == {List(s) : s \in SeqsTo(Leaves \cup Trees1, 2)}
Trees3 == Trees2 \cup {List(<<t, u>>) : t \in Trees2, u \in Leaves}

Tokens(tree) ==
    LET Written[n \in Trees3 \cup Leaves] ==
            IF ~n.list THEN <<n.value>>
            ELSE <<"(">> \o FlattenSeq([i \in DOMAIN n.children |-> Written[n.children[i]]]) \o <<")">>
    IN  Written[tree]

AskSexpr == Ask("sexpr", Trees3)

\* Reading what was written gives the tree, whatever follows it; a file that was cut
\* off anywhere is refused and not read as a smaller one (parseSexpr).
SexprRoundTrip ==
    Asked("sexpr") =>
        LET ts == Tokens(case.in)
        IN  /\ ParseSexpr(ts) = case.in /\ ParseSexpr(ts \o <<")", "x">>) = case.in
            /\ \A n \in 0 .. Len(ts) - 1 : ParseSexpr(SubSeq(ts, 1, n)) = NoParse

-----------------------------------------------------------------------------
\* Panels. Footprints of a board, arrayed n times, in a frame.

Prop(k, v)        == List(<<Atom("property"), Atom(k), Atom(v)>>)
Footprint(r, v)   == List(<<Atom("footprint"), Atom("lib"), Prop("reference", r), Prop("value", v)>>)
FramePart(r)      == List(<<Atom("footprint"), Atom("kikit"), List(<<Atom("attr"), Atom("board_only")>>),
                            Prop("reference", r)>>)
Pcb(parts)        == List(<<Atom("kicad_pcb")>> \o parts)
Arrayed(parts, n) == FlattenSeq([i \in 1 .. n |-> parts])

SomeBoards == {s \in SeqsTo({Footprint(r, v) : r \in {"R1", "R10", "C1"}, v \in {"a", "b"}}, 3) :
                  s # <<>> /\ \A i, j \in DOMAIN s : AtomAt(s[i].children[3], 2) = AtomAt(s[j].children[3], 2) => i = j}
Frames == {<<>>, <<FramePart("FID")>>, <<FramePart("FID"), FramePart("FID")>>}

AskPanel == Ask("panel", SomeBoards \X (1 .. 3) \X Frames)

\* The BOM of a panel is the BOM of one board, the number of copies is how often the
\* board is in it, and both together are every part on the panel ("copies multiplier
\* gives the panel total without double-counting", CreateBoard).
PanelCountsOnce ==
    Asked("panel") =>
        LET board == case.in[1]
            n     == case.in[2]
            frame == case.in[3]
            panel == Pcb(Arrayed(board, n) \o frame)
        IN  /\ ParsePanelBoardBOM(panel) = GroupComponents(ComponentsFromPCB(Pcb(board)))
            /\ DetectPanelPCB(panel) = {n}
            /\ frame # <<>> \/ n > 1 => PanelCopies(panel, Len(board)) = n
            /\ n * SumOver(ParsePanelBoardBOM(panel), "quantity") = Len(ComponentsFromPCB(panel))

-----------------------------------------------------------------------------
\* Archives.

Symbol(r, v) == List(<<Atom("symbol"), Prop("reference", r), Prop("value", v)>>)
Sheet(f)     == List(<<Atom("sheet"), Atom(f)>>)
Sch(s)       == List(<<Atom("kicad_sch")>> \o s)

File(dir, stem, ext, root) ==
    [dir |-> dir, stem |-> stem, ext |-> ext, root |-> root, skipped |-> FALSE,
     big |-> FALSE, asset |-> "", rows |-> <<>>]
NoRoot == List(<<>>)

SheetNames == <<"s", "t", "u">>
Hierarchies == [1 .. 3 -> SeqsTo({"s", "t", "u"}, 2)]

\* The archive of a hierarchy: sheet i has a part of its own and refers to h[i].
HierarchyZip(h) ==
    <<File(<<>>, "s", "kicad_pro", NoRoot)>> \o
    [i \in 1 .. 3 |-> File(<<>>, SheetNames[i], "kicad_sch",
        Sch(<<Symbol("", SheetNames[i])>> \o [j \in DOMAIN h[i] |-> Sheet(h[i][j])]))]

SheetNo(n) == CHOOSE i \in 1 .. 3 : SheetNames[i] = n

\* How often a sheet is drawn: ways to get to it from the root without going through
\* a sheet twice.
Drawn(h, i) ==
    LET Refs(a, b) == Cardinality({k \in DOMAIN h[a] : h[a][k] = SheetNames[b]})
        other == CHOOSE o \in 2 .. 3 : o # i
    IN  IF i = 1 THEN 1 ELSE Refs(1, i) + Refs(1, other) * Refs(other, i)

AskHierarchy == Ask("hierarchy", Hierarchies)

\* A part is counted once for every time its sheet is drawn, also when sheets refer to
\* each other in a circle, and a sheet nobody refers to is not counted (collectSheet).
SheetsCounted ==
    Asked("hierarchy") =>
        LET lines == ParseZip(HierarchyZip(case.in))
        IN  \A i \in 1 .. 3 :
                SumOver(SelectSeq(lines, LAMBDA l : l.value = SheetNames[i]), "quantity") = Drawn(case.in, i)

\* Projects at the top or below, each with a schematic and a board, or one of them,
\* whose board may be a panel.
Titled(rev) == Sch(<<List(<<Atom("title_block"), List(<<Atom("rev"), Atom(rev)>>)>>), Symbol("R1", rev)>>)

ProjectFiles(dir, stem, has, panel) ==
    <<File(dir, stem, "kicad_pro", NoRoot)>>
    \o (IF "sch" \in has THEN <<File(dir, stem, "kicad_sch", Titled(stem))>> ELSE <<>>)
    \o (IF "pcb" \in has THEN <<File(dir, stem, "kicad_pcb",
            Pcb(Arrayed(<<Footprint("R1", stem)>>, IF panel THEN 2 ELSE 1)))>> ELSE <<>>)

SomeProjects(stem) ==
    {ProjectFiles(d, stem, h, x) : d \in {<<>>, <<"d">>, <<"d", "e">>},
                                   h \in SUBSET {"sch", "pcb"}, x \in BOOLEAN}

AskArchive == Ask("archive", {<<p, q>> : p \in SomeProjects("a"), q \in SomeProjects("b")})

BoardsAndPanels(boards, panels) ==
    /\ boards[1].name = "a" /\ boards[1].root
    /\ \A i \in DOMAIN panels : panels[i].name = "b"
    /\ Len(boards) = 1 \/ panels = <<>>

\* When one project lies above the others and has a schematic and an ordinary board,
\* the BOM, the name and revision, the render, the base of the panel count and the root
\* of several boards are all of that project (five functions look for it, each its own way).
RootsAgree ==
    Asked("archive") =>
        LET top  == case.in[1]
            rest == case.in[2]
            zip  == rest \o top
            one  == /\ Len(top) = 3 /\ Len(top[1].dir) < Len(rest[1].dir)
                    /\ DetectPanelPCB(top[3].root) = {1}
        IN  one => /\ ParseZip(zip)[1].value = "a" /\ ProjectInfo(zip) = [name |-> "a", revision |-> "a"]
                   /\ zip[RootPCB(zip)].stem = "a"
                   /\ BoardsAndPanels(ParseZipBoards(zip), DetectPanels(zip))

AskAssets == Ask("assets", SeqsTo({[File(<<>>, "f", "x", NoRoot) EXCEPT !.asset = a, !.big = b, !.skipped = s] :
                                     a \in {"ibom", "image", ""}, b \in BOOLEAN, s \in BOOLEAN}, 3))

\* An interactive BOM is not dropped for an image, and nothing that was to be skipped
\* is kept (ExtractAssets).
BOMsBeforeImages ==
    Asked("assets") =>
        LET out  == ExtractAssets(case.in)
            good == {i \in DOMAIN case.in : ~case.in[i].skipped /\ ~case.in[i].big /\ case.in[i].asset = "ibom"}
        IN  /\ Len(out) <= MaxAssets
            /\ \A i \in DOMAIN out : ~out[i].skipped /\ ~out[i].big /\ out[i].asset # ""
            /\ (\E i \in DOMAIN out : out[i].asset = "image") =>
                   Len(SelectSeq(out, LAMBDA f : f.asset = "ibom")) = Cardinality(good)

-----------------------------------------------------------------------------
\* Spreadsheets.

Text(t)    == [text |-> t, refs |-> <<>>, number |-> 0]
RefCell(r) == [text |-> "refs", refs |-> r, number |-> 0]
NumCell(n) == [text |-> "n", refs |-> <<>>, number |-> n]

Columns == {<<"designator", RefCell(<<"R1", "R2">>)>>, <<"designator", Blank>>, <<"qty", NumCell(3)>>,
            <<"qty", NumCell(0)>>, <<"comment", Text("a")>>, <<"partnumber", Text("m")>>, <<"other", Text("z")>>}
Distinct(s) == \A i, j \in DOMAIN s : s[i][1] = s[j][1] => i = j

AskSheet == Ask("sheet", {s \in SeqsTo(Columns, 3) : Distinct(s)})

\* The order of the columns does not matter, nor do blank rows or columns nobody knows;
\* a row without a quantity counts its references, or one (rowsToLines).
ColumnsByName ==
    Asked("sheet") =>
        LET cols    == case.in
            Grid(s) == <<[i \in DOMAIN s |-> Text(s[i][1])], [i \in DOMAIN s |-> Blank],
                         [i \in DOMAIN s |-> s[i][2]]>>
            lines   == RowsToLines(Grid(cols))
            Has(n)  == SelectSeq(cols, LAMBDA c : c[1] = n)
            refs    == IF Has("designator") = <<>> THEN <<>> ELSE Has("designator")[1][2].refs
            said    == IF Has("qty") = <<>> THEN 0 ELSE Has("qty")[1][2].number
        IN  /\ lines = RowsToLines(Grid(Reverse(cols)))
            /\ lines = RowsToLines(<<<<Blank>>>> \o Grid(Append(cols, <<"new", Text("z")>>)))
            /\ Len(lines) = IF Has("comment") = <<>> /\ Has("partnumber") = <<>> /\ refs = <<>> THEN 0 ELSE 1
            /\ \A i \in DOMAIN lines :
                   lines[i].quantity = IF said > 0 THEN said ELSE IF refs # <<>> THEN Len(refs) ELSE 1

\* The letters of column n, A = 0.
ColumnLetters(n) == IF n < 26 THEN <<n + 1>>
                    ELSE IF n < 702 THEN <<(n - 26) \div 26 + 1, ((n - 26) % 26) + 1>>
                    ELSE <<1, (n - 702) \div 26 + 1, ((n - 702) % 26) + 1>>

AskColumn == Ask("column", 0 .. 730)

\* A cell lands in the column its letters name, and the cells before it are blank (colIndex).
CellsInPlace ==
    Asked("column") =>
        LET n   == case.in
            row == WorksheetRow(<<[col |-> ColumnLetters(n), cell |-> Text("x")]>>)
        IN  /\ ColIndex(ColumnLetters(n)) = n
            /\ Len(row) = n + 1 /\ row[n + 1] = Text("x")
            /\ n > 0 => row[n] = Blank

-----------------------------------------------------------------------------
\* Matching.

Qwiic == <<"q", "w">>
QT    == <<"q", "t">>
Stemma == <<"s", "t">>

SomeTagPairs == SUBSET {<<Qwiic, "p1">>, <<Qwiic, "p2">>, <<Stemma \o QT, "p1">>, <<QT, "p3">>}
SomeWords    == SeqsTo({Qwiic, QT, Stemma, <<"q">>, <<"w">>}, 3)
TaggedDb(ts) == [names |-> [p \in {"p1", "p2", "p3"} |-> [name |-> "n", package |-> ""]],
                 ipns |-> {}, mpns |-> {}, skus |-> {}, tags |-> ts]

AskTags == Ask("tags", SomeTagPairs \X SomeWords)

\* A line that only words could match gets a part only if the words name exactly one
\* tag and it is on exactly one part; a tag inside a word is not named (tagMatch).
TagsNeverGuess ==
    Asked("tags") =>
        LET tags  == case.in[1]
            words == case.in[2]
            line  == [ipn |-> "", mpn |-> "", sku |-> "", value |-> "", footprint |-> "", words |-> words]
            Joined(i, j) == FlattenSeq(SubSeq(words, i, j))
            named == {t \in {x[1] : x \in tags} : \E i, j \in DOMAIN words : i <= j /\ Joined(i, j) = t}
            sits  == {x \in tags : x[1] \in named}
        IN  resolveMatch(TaggedDb(tags), <<>>, line) =
                IF Cardinality(named) = 1 /\ Cardinality(sits) = 1
                THEN {[part |-> (CHOOSE x \in sits : TRUE)[2], kind |-> "tag"]}
                ELSE {[part |-> NoPart, kind |-> "none"]}

SomeTexts == {"", "x", "y"}
SomeLines == [ipn : {"", "x"}, mpn : SomeTexts, sku : {"", "x"}, value : SomeTexts,
              footprint : {"", "R_0603_1608Metric"}, words : {<<>>, <<Qwiic>>}]
SomeDb(hit) ==
    [names |-> ("p1" :> [name |-> IF "value" \in hit THEN "x" ELSE "o", package |-> "0603"]
             @@ "p2" :> [name |-> IF "value" \in hit THEN "x" ELSE "o", package |-> ""]),
     ipns |-> IF "ipn" \in hit THEN {<<"x", "p1">>} ELSE {}, mpns |-> IF "mpn" \in hit THEN {<<"x", "p2">>} ELSE {},
     skus |-> IF "sku" \in hit THEN {<<"x", "p1">>} ELSE {}, tags |-> {<<Qwiic, "p1">>}]

AskMatch == Ask("match", SomeLines \X SUBSET {"ipn", "mpn", "sku", "value"})

\* A choice made for one line holds for every line of the same identity whose own part
\* number names no part, and for no other line: a rule changes the match of exactly the
\* lines it is about (resolveMatch with matchKey).
RuleDecidesItsLines ==
    Asked("match") =>
        LET l    == case.in[1]
            db   == SomeDb(case.in[2])
            own  == l.ipn # "" /\ "ipn" \in case.in[2]
        IN  \A o \in SomeLines :
                LET rules == [k \in {matchKey(o)} |-> "p9"]
                IN  matchKey(o) # <<>> /\ o.sku = "" /\ o.words = <<>> =>
                        resolveMatch(db, rules, l) =
                            IF ~own /\ matchKey(l) = matchKey(o) THEN {[part |-> "p9", kind |-> "project"]}
                            ELSE resolveMatch(db, <<>>, l)

SomeBomLines == SeqsTo([part : {"p1", "p2", NoPart}, quantity : {0, 2}], 2)
SomeLots     ==
    {s \in SeqsTo({[part |-> p[1], name |-> p[2], quantity |-> q, bin |-> b] :
                       p \in {<<"p1", 2>>, <<"p2", 1>>}, q \in {1, 3}, b \in 0 .. 2}, 2) \cup
             [1 .. 3 -> {[part |-> "p1", name |-> 2, quantity |-> q, bin |-> b] : q \in {1, 2}, b \in 0 .. 2}] :
        \A i \in 1 .. Len(s) - 1 : s[i + 1].bin = 0 \/ (s[i].bin # 0 /\ s[i].bin <= s[i + 1].bin)}

AskPick == Ask("pick", SomeBomLines \X {0, 2} \X {1} \X SomeLots)

\* A pick list takes from each part what is needed or what there is, whichever is less,
\* from no lot twice or more than it holds, reports every part that is short by how
\* much, and every line nobody matched; one walk past the bins is enough (Compute).
PickListExact ==
    Asked("pick") =>
        LET lines == case.in[1]
            times == (IF case.in[2] < 1 THEN 1 ELSE case.in[2]) * case.in[3]
            lots  == case.in[4]
            out   == Compute(lines, case.in[2], case.in[3], lots)
            Part(s, p) == SelectSeq(s, LAMBDA x : x.part = p)
            Need(p) == times * SumOver(Part(lines, p), "quantity")
            Have(p) == SumOver(Part(lots, p), "quantity")
            Less(a, b) == IF a < b THEN a ELSE b
        IN  /\ \A p \in {"p1", "p2"} :
                   /\ SumOver(Part(out.entries, p), "quantity") = Less(Need(p), Have(p))
                   /\ SumOver(Part(out.shortfalls, p), "short") = IF Need(p) > Have(p) THEN Need(p) - Have(p) ELSE 0
            /\ \A i, j \in DOMAIN out.entries :
                   LET e == out.entries[i]
                   IN  /\ e.part = lots[e.lot].part /\ e.quantity \in 1 .. lots[e.lot].quantity
                       /\ i # j => e.lot # out.entries[j].lot
            /\ \A i \in 1 .. Len(out.entries) - 1 : ~WalkLess(out.entries[i + 1], out.entries[i])
            /\ FoldLeft(LAMBDA n, q : n + q, 0, out.unmatched) = times * SumOver(Part(lines, NoPart), "quantity")

-----------------------------------------------------------------------------
AskFiles == \/ AskGrouping \/ AskSexpr \/ AskPanel \/ AskHierarchy \/ AskArchive \/ AskAssets
            \/ AskSheet \/ AskColumn \/ AskTags \/ AskMatch \/ AskPick

\* An archive becomes the bill of what it draws: read back as it was written, lines
\* grouped without loss, sheets and panels counted as often as they are there, all of
\* the one project it is about.
BillsExact == /\ SexprRoundTrip /\ ColumnsByName /\ CellsInPlace /\ BOMsBeforeImages
              /\ GroupingExact /\ SheetsCounted /\ PanelCountsOnce /\ RootsAgree

\* A match is decided by the line and its rules and never guessed, and what is picked is
\* what the matched lines need.
MatchesExact == TagsNeverGuess /\ RuleDecidesItsLines /\ PickListExact

\* From the archive to the pick list: an archive becomes the bill of what it draws, and
\* each of its lines the part it means.
BillsMatched == BillsExact /\ MatchesExact
=============================================================================
