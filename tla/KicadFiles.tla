----------------------------- MODULE KicadFiles -----------------------------
\* What an uploaded KiCad file becomes: s-expressions, the components of schematics
\* and boards, their grouping into BOM lines, spreadsheets, project archives, panels
\* and assets (kicad/sexpr.go, bom.go, xlsx.go, zip.go, panel.go, project.go,
\* assets.go). Operators only.
\*
\* Text is a string that is compared and never taken apart. What the code finds by
\* looking inside a string is told by the constants: the letters and the number of a
\* reference designator, and which symbol libraries hold power symbols.
EXTENDS Sorting, FiniteSets

CONSTANTS RefParts,     \* reference |-> <<rank of its letters, number>>
          Hash, KiKit,  \* ranks of the letters # and KiKit
          PowerLibs,    \* library ids that begin with power:
          MaxAssets     \* how many assets of an archive are kept

Letters(ref) == RefParts[ref][1]
Number(ref)  == RefParts[ref][2]

RefLess(a, b) == \/ Letters(a) < Letters(b)
                 \/ Letters(a) = Letters(b) /\ Number(a) < Number(b)

-----------------------------------------------------------------------------
\* S-expressions. A token is a bracket, an atom or a quoted text.

Atom(v)  == [list |-> FALSE, value |-> v, children |-> <<>>]
List(cs) == [list |-> TRUE, value |-> "", children |-> cs]

Head1(n)     == IF n.list /\ n.children # <<>> THEN n.children[1].value ELSE ""
AtomAt(n, i) == IF i + 1 <= Len(n.children) THEN n.children[i + 1].value ELSE ""

NoParse == List(<<Atom("error")>>)

\* The lists that are open, innermost last, and the root once it is closed.
ParseToken(p, t) ==
    LET top     == p.open[Len(p.open)]
        outer   == Front(p.open)
        Into(c) == [p EXCEPT !.open = Append(outer, Append(top, c))]
    IN  CASE p.root # NoParse -> p
          [] t = "(" -> [p EXCEPT !.open = Append(@, <<>>)]
          [] t = ")" -> IF outer = <<>> THEN [open |-> <<>>, root |-> List(top)]
                        ELSE [p EXCEPT !.open = Append(Front(outer), Append(Last(outer), List(top)))]
          [] OTHER   -> Into(Atom(t))

ParseSexpr(tokens) ==
    IF tokens = <<>> \/ tokens[1] # "(" THEN NoParse
    ELSE FoldLeft(ParseToken, [open |-> <<>>, root |-> NoParse], tokens).root

-----------------------------------------------------------------------------
\* Components.

Optional == {"mpn", "manufacturer", "ipn", "sku", "description"}
Names    == [mpn          |-> {"mpn", "manufacturer part number", "part number"},
             manufacturer |-> {"manufacturer", "mfr", "mfg"},
             ipn          |-> {"fbpn", "ipn"},
             sku          |-> {"lcsc", "sku"},
             description  |-> {"description", "desc"}]

NoComponent == [reference |-> "", value |-> "", footprint |-> "", lib |-> "",
                mpn |-> "", manufacturer |-> "", ipn |-> "", sku |-> "", description |-> ""]

Property(c, name, val, known) ==
    IF name \in {"reference", "value", "footprint"} THEN [c EXCEPT ![name] = val]
    ELSE [f \in DOMAIN c |->
             IF f \in known /\ name \in Names[f] /\ c[f] = "" THEN val ELSE c[f]]

IsHash(ref) == ref # "" /\ Letters(ref) = Hash

\* A symbol is in the BOM unless a flag, a power library or its reference says no.
ComponentFromSymbol(sym) ==
    LET Field(c, ch) == CASE Head1(ch) = "lib_id" -> [c EXCEPT !.lib = AtomAt(ch, 1)]
                          [] Head1(ch) = "property" ->
                                 Property(c, AtomAt(ch, 1), AtomAt(ch, 2), Optional)
                          [] OTHER -> c
        c == FoldLeft(Field, NoComponent, sym.children)
        Flag(head, v) == \E i \in DOMAIN sym.children :
            /\ Head1(sym.children[i]) = head /\ AtomAt(sym.children[i], 1) = v
            /\ \A j \in i + 1 .. Len(sym.children) : Head1(sym.children[j]) # head
    IN  [ok |-> /\ ~Flag("in_bom", "no") /\ ~Flag("on_board", "no") /\ ~Flag("dnp", "yes")
                /\ ~IsHash(c.reference) /\ c.lib \notin PowerLibs
                /\ (c.reference # "" \/ c.value # ""),
         c  |-> c]

\* A footprint of a board names neither symbol nor supplier.
ComponentFromPCBFootprint(fp) ==
    LET Field(c, ch) == IF Head1(ch) \in {"property", "fp_text"} /\ AtomAt(ch, 1) # "footprint"
                        THEN Property(c, AtomAt(ch, 1), AtomAt(ch, 2), {"mpn", "manufacturer"}) ELSE c
        c == FoldLeft(Field, [NoComponent EXCEPT !.footprint = AtomAt(fp, 1)], fp.children)
        Left(ch) == Head1(ch) = "attr" /\ \E i \in 2 .. Len(ch.children) :
                        ch.children[i].value \in {"exclude_from_bom", "dnp", "board_only"}
    IN  [ok |-> /\ \A i \in DOMAIN fp.children : ~Left(fp.children[i])
                /\ ~IsHash(c.reference) /\ (c.reference # "" \/ c.value # ""),
         c  |-> c]

Kept(found) == LET good == SelectSeq(found, LAMBDA f : f.ok) IN [i \in DOMAIN good |-> good[i].c]

ChildrenOf(root, heads) == SelectSeq(root.children, LAMBDA ch : Head1(ch) \in heads)

ComponentsFromSchematic(root) ==
    LET s == ChildrenOf(root, {"symbol"}) IN Kept([i \in DOMAIN s |-> ComponentFromSymbol(s[i])])

ComponentsFromPCB(root) ==
    LET s == ChildrenOf(root, {"footprint", "module"})
    IN  Kept([i \in DOMAIN s |-> ComponentFromPCBFootprint(s[i])])

-----------------------------------------------------------------------------
\* Grouping.

NewLine(c) == [refs |-> <<>>, quantity |-> 0, value |-> c.value, footprint |-> c.footprint,
               lib |-> c.lib, mpn |-> c.mpn, manufacturer |-> c.manufacturer,
               ipn |-> c.ipn, sku |-> c.sku, description |-> c.description]

SameGroup(l, c) == l.value = c.value /\ l.footprint = c.footprint /\ l.mpn = c.mpn

\* The first component of a group says what the line says; later ones fill in blanks.
Tally(l, c) ==
    [f \in DOMAIN l |->
        CASE f = "refs" -> IF c.reference = "" THEN l.refs ELSE Append(l.refs, c.reference)
          [] f = "quantity" -> l.quantity + 1
          [] f \in {"lib", "manufacturer", "ipn", "sku", "description"} ->
                 IF l[f] = "" THEN c[f] ELSE l[f]
          [] OTHER -> l[f]]

AddComponent(lines, c) ==
    IF \E i \in DOMAIN lines : SameGroup(lines[i], c)
    THEN [i \in DOMAIN lines |-> IF SameGroup(lines[i], c) THEN Tally(lines[i], c) ELSE lines[i]]
    ELSE Append(lines, Tally(NewLine(c), c))

CONSTANT ValueLess(_, _)    \* the order of values, for lines without references

LineLess(a, b) == IF a.refs = <<>> \/ b.refs = <<>> THEN ValueLess(a.value, b.value)
                  ELSE RefLess(a.refs[1], b.refs[1])

GroupComponents(comps) ==
    LET lines == FoldLeft(AddComponent, <<>>, comps)
    IN  StableSort(LineLess, [i \in DOMAIN lines |->
                                 [lines[i] EXCEPT !.refs = StableSort(RefLess, @)]])

\* The parts of one board of a panel: each reference once.
FirstOfEachRef(comps) ==
    LET Keep(acc, c) == IF c.reference = "" \/ \E i \in DOMAIN acc : acc[i].reference = c.reference
                        THEN acc ELSE Append(acc, c)
    IN  FoldLeft(Keep, <<>>, comps)

ParsePanelBoardBOM(root) == GroupComponents(FirstOfEachRef(ComponentsFromPCB(root)))

-----------------------------------------------------------------------------
\* Spreadsheets. A row is a sequence of cells; a cell has its text, the references
\* in it, and its number (0 when it is not a positive one).

Blank == [text |-> "", refs |-> <<>>, number |-> 0]

Headers == [refs  |-> <<"references", "reference", "designator">>, value |-> <<"value", "comment">>,
            footprint |-> <<"footprint", "package">>, quantity |-> <<"quantity", "qty">>,
            mpn |-> <<"mpn", "partnumber">>, manufacturer |-> <<"manufacturer", "mfr">>,
            sku |-> <<"lcsc", "sku">>, ipn |-> <<"fbpn", "ipn">>,
            description |-> <<"description", "desc">>]

\* The last column with a header is the column of that header; the first of the
\* accepted headers that the sheet has is used.
Column(head, f) ==
    LET has  == {n \in DOMAIN Headers[f] : \E i \in DOMAIN head : head[i].text = Headers[f][n]}
        name == Headers[f][CHOOSE n \in has : \A o \in has : n <= o]
        at   == {i \in DOMAIN head : head[i].text = name}
    IN  IF has = {} THEN 0 ELSE CHOOSE i \in at : \A j \in at : j <= i

RowEmpty(row) == \A i \in DOMAIN row : row[i].text = ""

RowLine(head, row) ==
    LET Get(f) == LET i == Column(head, f) IN IF i \in DOMAIN row THEN row[i] ELSE Blank
        counted == IF Get("quantity").number > 0 THEN Get("quantity").number ELSE Len(Get("refs").refs)
    IN  [f \in DOMAIN Headers |->
            CASE f = "refs" -> Get("refs").refs
              [] f = "quantity" -> IF counted = 0 THEN 1 ELSE counted
              [] OTHER -> Get(f).text]

RowsToLines(rows) ==
    LET full == SelectSeq(rows, LAMBDA r : ~RowEmpty(r))
        said == [i \in 1 .. Len(full) - 1 |-> RowLine(full[1], full[i + 1])]
    IN  IF full = <<>> THEN <<>>
        ELSE SelectSeq(said, LAMBDA l : l.value # "" \/ l.mpn # "" \/ l.refs # <<>>)

\* A ColIndex that forgets that A is a digit of its own.
BadColIndex(letters) == FoldLeft(LAMBDA acc, d : acc * 26 + d - 1, 0, letters)

\* A cell of a worksheet names its column in letters, A = 1.
ColIndex(letters) ==
    LET n == FoldLeft(LAMBDA acc, d : acc * 26 + d, 0, letters) IN IF n > 0 THEN n - 1 ELSE 0

WorksheetRow(cells) ==
    LET Place(row, c) ==
            LET i == ColIndex(c.col) + 1
                width == IF Len(row) < i THEN i ELSE Len(row)
            IN  [j \in 1 .. width |-> IF j = i THEN c.cell
                                      ELSE IF j \in DOMAIN row THEN row[j] ELSE Blank]
    IN  FoldLeft(Place, <<>>, cells)

ParseWorksheet(rows) == [r \in DOMAIN rows |-> WorksheetRow(rows[r])]

-----------------------------------------------------------------------------
\* Archives. An archive is a sequence of files: directory, stem, extension, whether
\* it is kept (no backup, no metadata), and what it holds.

Entries(zip) == SelectSeq(zip, LAMBDA f : ~f.skipped)

FileAt(zip, dir, stem, ext) ==
    LET at == {i \in DOMAIN zip : ~zip[i].skipped /\ zip[i].dir = dir /\ zip[i].stem = stem
                                  /\ zip[i].ext = ext}
    IN  IF at = {} THEN 0 ELSE CHOOSE i \in at : \A j \in at : j <= i

Sibling(zip, pro, ext) == FileAt(zip, pro.dir, pro.stem, ext)

Projects(zip, ext) ==
    SelectSeq(Entries(zip), LAMBDA f : f.ext = "kicad_pro" /\ Sibling(zip, f, ext) # 0)

\* Of the projects with such a sibling, the shallowest, and the first of those.
Shallowest(zip, ext) ==
    LET ps    == Projects(zip, ext)
        least == {i \in DOMAIN ps : \A j \in DOMAIN ps : Len(ps[i].dir) <= Len(ps[j].dir)}
    IN  IF ps = <<>> THEN 0 ELSE Sibling(zip, ps[CHOOSE i \in least : \A j \in least : i <= j], ext)

\* A CollectSheet that leaves out every sheet it has been to.
BadCollectSheet(zip, key) ==
    LET Visit(s, ch) ==
            LET k == FileAt(zip, zip[key].dir, AtomAt(ch, 1), "kicad_sch")
            IN  IF Head1(ch) # "sheet" \/ k = 0 \/ k \in s.seen THEN s
                ELSE [seen |-> s.seen \cup {k},
                      comps |-> s.comps \o ComponentsFromSchematic(zip[k].root)]
    IN  ComponentsFromSchematic(zip[key].root)
        \o FoldLeft(Visit, [seen |-> {key}, comps |-> <<>>], zip[key].root.children).comps

\* Sheets refer to files of their own directory; a sheet on the way to itself is left out.
CollectSheet(zip, key) ==
    LET Sheets == DOMAIN zip
        Collected[k \in 0 .. Len(zip), onPath \in SUBSET Sheets] ==
            IF k = 0 \/ k \in onPath THEN <<>>
            ELSE LET Part(ch) ==
                         CASE Head1(ch) = "symbol" -> Kept(<<ComponentFromSymbol(ch)>>)
                           [] Head1(ch) = "sheet" ->
                                  Collected[FileAt(zip, zip[k].dir, AtomAt(ch, 1), "kicad_sch"), onPath \cup {k}]
                           [] OTHER -> <<>>
                     cs == zip[k].root.children
                 IN  FlattenSeq([i \in DOMAIN cs |-> Part(cs[i])])
    IN  Collected[key, {}]

Schematics(zip) == {i \in DOMAIN zip : ~zip[i].skipped /\ zip[i].ext = "kicad_sch"}

\* The root schematic with its sheets, else a BOM, else every schematic there is.
ParseZip(zip) ==
    LET root == IF Shallowest(zip, "kicad_sch") # 0 THEN Shallowest(zip, "kicad_sch")
                ELSE IF Cardinality(Schematics(zip)) = 1 THEN CHOOSE i \in Schematics(zip) : TRUE ELSE 0
        csvs == SelectSeq(Entries(zip), LAMBDA f : f.ext = "csv")
        all  == SelectSeq(Entries(zip), LAMBDA f : f.ext = "kicad_sch")
    IN  IF root # 0 THEN GroupComponents(CollectSheet(zip, root))
        ELSE IF csvs # <<>> THEN RowsToLines(csvs[1].rows)
        ELSE GroupComponents(FlattenSeq([i \in DOMAIN all |-> ComponentsFromSchematic(all[i].root)]))

RootPCB(zip) == Shallowest(zip, "kicad_pcb")

\* The first revision in a title block.
SchematicRevision(root) ==
    LET revs == FlattenSeq([i \in DOMAIN root.children |->
                    IF Head1(root.children[i]) = "title_block"
                    THEN SelectSeq(root.children[i].children, LAMBDA c : Head1(c) = "rev") ELSE <<>>])
    IN  IF revs = <<>> THEN "" ELSE AtomAt(revs[1], 1)

ProjectInfo(zip) ==
    LET s == Shallowest(zip, "kicad_sch")
    IN  IF s = 0 THEN [name |-> "", revision |-> ""]
        ELSE [name |-> zip[s].stem, revision |-> SchematicRevision(zip[s].root)]

-----------------------------------------------------------------------------
\* Panels.

RefsOf(root) ==
    LET fps == ChildrenOf(root, {"footprint"})
        Ref(fp) == AtomAt(SelectSeq(fp.children, LAMBDA ch : Head1(ch) = "property"
                                                             /\ AtomAt(ch, 1) = "reference")[1], 2)
    IN  [i \in DOMAIN fps |-> Ref(fps[i])]

\* The most frequent count of a reference, the greater of two that are as frequent,
\* found by going over the counts in any order.
Mode(counts) ==
    LET Frequency(n) == Cardinality({r \in DOMAIN counts : counts[r] = n})
        Better(m, n) == IF Frequency(n) > m.best \/ (Frequency(n) = m.best /\ n > m.mode)
                        THEN [mode |-> n, best |-> Frequency(n)] ELSE m
    IN  {FoldLeft(Better, [mode |-> 1, best |-> 0], o).mode :
             o \in SetToSeqs({counts[r] : r \in DOMAIN counts})}

DetectPanelPCB(root) ==
    LET refs    == SelectSeq(RefsOf(root), LAMBDA r : r # "" /\ Letters(r) # KiKit)
        counts  == [r \in ToSet(refs) |-> Cardinality({i \in DOMAIN refs : refs[i] = r})]
    IN  IF refs = <<>> THEN {1} ELSE {IF m < 2 THEN 1 ELSE m : m \in Mode(counts)}

\* A second board of an archive is a panel when KiKit made it or when it holds the
\* main board more than once.
PanelCopies(pcb, mainCount) ==
    LET refs   == RefsOf(pcb)
        frame  == Len(SelectSeq(refs, LAMBDA r : r # "" /\ Letters(r) = KiKit))
        named  == ChildrenOf(pcb, {"kikit"}) # <<>>
        copies == ((Len(refs) - frame) + mainCount \div 2) \div mainCount
    IN  IF frame = 0 /\ ~named /\ copies < 2 THEN 0 ELSE IF copies < 1 THEN 1 ELSE copies

DetectPanels(zip) ==
    LET main      == RootPCB(zip)
        mainCount == Len(RefsOf(zip[main].root))
        others    == SelectSeq(Entries(zip), LAMBDA f : f.ext = "kicad_pcb" /\ f # zip[main])
        panels    == [i \in DOMAIN others |->
                        [name |-> others[i].stem, copies |-> PanelCopies(others[i].root, mainCount)]]
    IN  IF main = 0 \/ mainCount = 0 THEN <<>> ELSE SelectSeq(panels, LAMBDA p : p.copies > 0)

\* The distinct boards of an archive, the root first.
ParseZipBoards(zip) ==
    LET pros  == SelectSeq(Projects(zip, "kicad_sch"), LAMBDA f :
                     LET pcb == Sibling(zip, f, "kicad_pcb")
                     IN  pcb = 0 \/ DetectPanelPCB(zip[pcb].root) = {1})
        Before(a, b) == \/ Len(a.dir) < Len(b.dir)
                        \/ Len(a.dir) = Len(b.dir) /\ ValueLess(a.stem, b.stem)
        order == StableSort(Before, pros)
    IN  [i \in DOMAIN order |->
            LET sch == Sibling(zip, order[i], "kicad_sch")
            IN  [name |-> order[i].stem, sch |-> sch, pcb |-> Sibling(zip, order[i], "kicad_pcb"),
                 lines |-> GroupComponents(CollectSheet(zip, sch)), root |-> i = 1]]

\* Interactive BOMs first, then images, and no more than MaxAssets.
ExtractAssets(zip) ==
    LET Of(kind) == SelectSeq(Entries(zip), LAMBDA f : ~f.big /\ f.asset = kind)
        out      == Of("ibom") \o Of("image")
    IN  SubSeq(out, 1, IF Len(out) > MaxAssets THEN MaxAssets ELSE Len(out))
=============================================================================
