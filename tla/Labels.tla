------------------------------- MODULE Labels -------------------------------
\* Labels for parts, locations and lots: which label is in which cell of which sheet, what
\* an element says, where the built-in layout puts it, and the catalogue of sheets
\* (internal/labels and its handlers). Operators only.
\*
\* Lengths are whole points, those of the built-in layout hundredths of them. A code
\* and what is searched for are sequences of numbers, for characters.
EXTENDS Integers, Sequences, FiniteSets, SequencesExt, Sorting

Refused(status) == [status |-> status]
Done(x)        == [status |-> "ok", is |-> x]
IsOk(r)        == r.status = "ok"

-----------------------------------------------------------------------------
\* Elements: [type, field, param, value], where a field binds the value to the item:
\* [kind, id, called, of, parameters], a part, a location or a lot, whose fields are of.

Literal(e) == e.field \in {"", "text"}
LinkFields == {"qr", "link", "deeplink"}

\* What is scanned: the code a person reads, or the id of what has none.
Code(x) == x.of[IF x.kind = "part" THEN "ipn" ELSE "barcode"]
Link(to, x)         == [to |-> to, at |-> IF Code(x) = "" THEN x.id ELSE Code(x)]
locationDeepLink(x) == Link("l", x)
stockDeepLink(x)    == Link("s", x)
deepLink(x)         == CASE x.kind = "part" -> Link("p", x) [] x.kind = "location" -> locationDeepLink(x) [] OTHER -> stockDeepLink(x)

\* A field it has no use for is empty.
Says(e, x, fields) ==
    IF e.field \in LinkFields THEN deepLink(x) ELSE IF e.field \in fields THEN x.of[e.field] ELSE ""

resolveLocationValue(e, x) == Says(e, x, {"name", "barcode", "description"})
resolveStockValue(e, x)    == Says(e, x, {"name", "quantity", "location", "barcode"})

\* A part has parameters as well.
resolveLabelValue(e, x) ==
    LET named == SelectSeq(x.parameters, LAMBDA q : q.name = e.param)
    IN  IF e.field = "param" THEN IF named # <<>> THEN named[1].value ELSE ""
        ELSE Says(e, x, DOMAIN x.of)

\* A renderTemplate that takes a lot for what is in it.
BadRenderTemplate(els, x) ==
    [i \in DOMAIN els |-> IF Literal(els[i]) THEN els[i]
                          ELSE [els[i] EXCEPT !.value = IF x.kind = "lot" THEN resolveLocationValue(els[i], x) ELSE resolveLabelValue(els[i], x)]]

renderTemplate(els, x) ==
    [i \in DOMAIN els |->
        IF Literal(els[i]) THEN els[i]
        ELSE [els[i] EXCEPT !.value = CASE x.kind = "part" -> resolveLabelValue(els[i], x)
                                        [] x.kind = "location" -> resolveLocationValue(els[i], x)
                                        [] OTHER -> resolveStockValue(els[i], x)]]

-----------------------------------------------------------------------------
\* The built-in layout, for a label of lw by lh points.

clamp(v, lo, hi) == IF v < lo THEN lo ELSE IF v > hi THEN hi ELSE v
AtMost(a, b)     == IF a > b THEN b ELSE a
AtLeast(a, b)    == IF a < b THEN b ELSE a

Element(type, x, y, w, h, font) == [type |-> type, x |-> x, y |-> y, w |-> w, h |-> h, font |-> font]

Pad(lh)    == clamp(8 * lh, 300, 700)
QrSide(lw, lh)    == AtMost(100 * lh - 2 * Pad(lh), 50 * lw)
TextX(lw, lh)     == Pad(lh) + QrSide(lw, lh) + 800
TextWidth(lw, lh) == AtLeast(100 * lw - TextX(lw, lh) - Pad(lh), 800)

\* The link and the name; a text without a height is drawn as one line.
Heading(lw, lh) ==
    <<Element("qr", Pad(lh), Pad(lh), QrSide(lw, lh), QrSide(lw, lh), 0),
      Element("text", TextX(lw, lh), Pad(lh), TextWidth(lw, lh), 0, clamp(13 * lh, 700, 1200))>>

\* A BuildPartLabel that puts the code under its bars.
BadBuildPartLabel(lw, lh, ipn) ==
    LET bcH == clamp(28 * lh, 1200, 4000)
        bcY == 100 * lh - Pad(lh) - bcH
    IN  Heading(lw, lh) \o
        IF ipn = "" THEN <<>>
        ELSE <<Element("text", TextX(lw, lh), bcY + bcH - 900, TextWidth(lw, lh), 0, 650),
               Element("barcode", TextX(lw, lh), bcY, TextWidth(lw, lh), bcH, 0)>>

BuildPartLabel(lw, lh, ipn) ==
    LET bcH == clamp(28 * lh, 1200, 4000)
        bcY == 100 * lh - Pad(lh) - bcH
    IN  Heading(lw, lh) \o
        IF ipn = "" THEN <<>>
        ELSE <<Element("text", TextX(lw, lh), bcY - 900, TextWidth(lw, lh), 0, 650),
               Element("barcode", TextX(lw, lh), bcY, TextWidth(lw, lh), bcH, 0)>>

BuildStockLabel(lw, lh, sub) ==
    LET nameFont == clamp(13 * lh, 700, 1200)
    IN  Heading(lw, lh) \o
        IF sub = <<>> THEN <<>>
        ELSE <<Element("text", TextX(lw, lh), Pad(lh) + (nameFont * 5) \div 2, TextWidth(lw, lh), 0, clamp(11 * lh, 600, 900))>>

\* What of a box is drawn: of a text as many of its lines as fit, and at least one,
\* from the top, the middle or the bottom of its box.
LineHeight(font) == (118 * font) \div 100
drawText(box, lines, valign) ==
    LET most  == AtLeast(box.h \div LineHeight(box.font), 1)
        shown == AtMost(lines, most)
        slack == AtLeast(box.h - shown * LineHeight(box.font), 0)
        off   == CASE valign = "M" -> slack \div 2 [] valign = "B" -> slack [] OTHER -> 0
    IN  [box EXCEPT !.y = @ + off, !.h = shown * LineHeight(box.font)]

Inked(box) == IF box.type = "text" THEN drawText(box, 1, "T") ELSE box

\* What is drawn is on the label, and no part of it on another.
Apart(a, b) == a.x + a.w <= b.x \/ b.x + b.w <= a.x \/ a.y + a.h <= b.y \/ b.y + b.h <= a.y
FitsOn(boxes, lw, lh) ==
    \A i, j \in DOMAIN boxes :
        LET a == Inked(boxes[i])
        IN  /\ a.x >= 0 /\ a.y >= 0 /\ a.x + a.w <= 100 * lw /\ a.y + a.h <= 100 * lh
            /\ i # j => Apart(a, Inked(boxes[j]))

-----------------------------------------------------------------------------
\* Sheets. A placement is [sheet, cell, label], cells counted by rows from 0; the cells
\* in used are gone from the first sheet.

PerSheet(media) == media.cols * media.rows

\* The first free cell at or after one, or the end of the sheet.
Free(cell, used, most) ==
    CHOOSE c \in cell .. most : (c = most \/ c \notin used) /\ \A d \in cell .. c - 1 : d \in used

\* A Place that goes on skipping on fresh sheets.
BadPlace(s, label, used, most) ==
    LET at == Free(s.cell, used, most)
        to == IF at >= most THEN [sheet |-> s.sheet + 1, cell |-> Free(0, used, most)]
              ELSE [sheet |-> s.sheet, cell |-> at]
    IN  [sheet |-> to.sheet, cell |-> to.cell + 1, placed |-> Append(s.placed, [sheet |-> to.sheet, cell |-> to.cell, label |-> label])]

Place(s, label, used, most) ==
    LET at == IF s.sheet = 1 THEN Free(s.cell, used, most) ELSE s.cell
        to == IF at >= most THEN [sheet |-> s.sheet + 1, cell |-> 0] ELSE [sheet |-> s.sheet, cell |-> at]
    IN  [sheet |-> to.sheet, cell |-> to.cell + 1, placed |-> Append(s.placed, [sheet |-> to.sheet, cell |-> to.cell, label |-> label])]

RenderSheet(media, items, used) ==
    IF PerSheet(media) <= 0 THEN Refused("error")
    ELSE LET end == FoldLeft(LAMBDA s, label : Place(s, label, used, PerSheet(media)),
                             [sheet |-> 1, cell |-> 0, placed |-> <<>>], items)
         IN  Done([sheets |-> end.sheet, placed |-> end.placed])

\* A place before another, and labels that fill the free places in order: each on one, no
\* two on the same, and none left out before it.
Earlier(sheet, cell, at) == sheet < at.sheet \/ (sheet = at.sheet /\ cell < at.cell)
Filled(placed, used, most) ==
    /\ \A i \in DOMAIN placed : placed[i].sheet > 0 /\ placed[i].cell \in 0 .. most - 1
    /\ \A i \in DOMAIN placed : placed[i].sheet = 1 => placed[i].cell \notin used
    /\ \A i, j \in DOMAIN placed : i < j => Earlier(placed[i].sheet, placed[i].cell, placed[j])
    /\ \A i \in DOMAIN placed : \A sheet \in 1 .. placed[i].sheet : \A cell \in 0 .. most - 1 :
           Earlier(sheet, cell, placed[i]) =>
               \/ sheet = 1 /\ cell \in used
               \/ \E j \in 1 .. i - 1 : placed[j].sheet = sheet /\ placed[j].cell = cell

\* Where a cell is on its sheet.
At(media, cell) == [x |-> media.x0 + (cell % media.cols) * media.pitchX, y |-> media.y0 + (cell \div media.cols) * media.pitchY]

\* The label of an item: of a template, or the built-in one. Under the name of a lot
\* stands what it is called and how much is in it.
Subtitle(x) == IF x.called = "" THEN <<"qty", x.of["quantity"]>> ELSE <<x.called, "qty", x.of["quantity"]>>
LabelOf(x, template, media) ==
    IF template # <<>> THEN [item |-> x.id, els |-> renderTemplate(template[1], x)]
    ELSE [item |-> x.id, link |-> deepLink(x),
          boxes |-> IF x.kind = "lot" THEN BuildStockLabel(media.labelW, media.labelH, Subtitle(x))
                    ELSE BuildPartLabel(media.labelW, media.labelH, Code(x))]

\* The elements of the designer; none are the built-in layout.
resolveOne(x, els, media) == LabelOf(x, IF els = <<>> THEN <<>> ELSE <<els>>, media)
resolveOneLocation(x, els, media) == resolveOne(x, els, media)
resolveOneStock(x, els, media)    == resolveOne(x, els, media)

\* Labels for what is still there of what was asked for, copy by copy.
PrintLabels(media, asked, known, template, copies, used) ==
    LET there == SelectSeq(asked, LAMBDA i : i \in DOMAIN known)
        Copies(i) == [k \in 1 .. AtLeast(copies, 1) |-> LabelOf(known[i], template, media)]
    IN  IF there = <<>> THEN Refused("bad request")
        ELSE RenderSheet(media, FlattenSeq([k \in DOMAIN there |-> Copies(there[k])]), used)

\* Its twins.
PrintLocationLabels(media, asked, known, template, copies, used) == PrintLabels(media, asked, known, template, copies, used)
PrintStockLabels(media, asked, known, template, copies, used)    == PrintLabels(media, asked, known, template, copies, used)

-----------------------------------------------------------------------------
\* The catalogue. A template is [brand, part, equiv, round, size, geometry], an entry
\* [brand, code, geometry]. What is not rectangular, or has no cells or no known page
\* (size ""), is no entry; what is equivalent to one has its geometry.

Bases(templates) ==
    LET Is(t) == t.equiv = "" /\ ~t.round /\ t.size # ""
    IN  FoldLeft(LAMBDA m, t : IF Is(t) THEN [k \in DOMAIN m \cup {t.part} |-> IF k = t.part THEN t ELSE m[k]] ELSE m,
                 <<>>, templates)

\* A buildCatalog in which an alias may hide what it is an alias of.
BadBuildCatalog(templates) ==
    LET bases == Bases(templates)
        Entry(k) == [brand |-> bases[k].brand, code |-> k, geometry |-> bases[k].geometry]
        Alias(a) == [brand |-> a.brand, code |-> a.part, geometry |-> bases[a.equiv].geometry]
        aliases  == {a \in ToSet(templates) : a.equiv \in DOMAIN bases}
    IN  {Entry(k) : k \in {k \in DOMAIN bases : \A a \in aliases : a.equiv # k}} \cup {Alias(a) : a \in aliases}

\* The set of its entries; they are listed by brand and code.
buildCatalog(templates) ==
    LET bases == Bases(templates)
        Entry(k)    == [brand |-> bases[k].brand, code |-> k, geometry |-> bases[k].geometry]
        Alias(a)    == [brand |-> IF a.brand = "" THEN bases[a.equiv].brand ELSE a.brand, code |-> a.part,
                        geometry |-> bases[a.equiv].geometry]
        Seen(es, e) == \E x \in es : x.brand = e.brand /\ x.code = e.code
        Add(es, t)  == IF t.equiv \in DOMAIN bases /\ ~Seen(es, Alias(t)) THEN es \cup {Alias(t)} ELSE es
    IN  FoldLeft(Add, {Entry(k) : k \in DOMAIN bases}, templates)

\* A code in the order of the alphabet.
Before(a, b) == LET n == AtMost(Len(a), Len(b))
                IN  \/ \E i \in 1 .. n : a[i] < b[i] /\ SubSeq(a, 1, i - 1) = SubSeq(b, 1, i - 1)
                    \/ Len(a) < Len(b) /\ SubSeq(b, 1, n) = a

Part(s, q) == \E i \in 0 .. Len(s) - Len(q) : SubSeq(s, i + 1, i + Len(q)) = q

\* The code itself, what it begins with, what is in it, or a name that has it.
Rank(e, q) == CASE e.code = q -> 0 [] IsPrefix(q, e.code) -> 1 [] Part(e.code, q) -> 2 [] Part(e.name, q) -> 3 [] OTHER -> 4

\* A SearchCatalog that cuts before it ranks.
BadSearchCatalog(all, q, limit) ==
    LET Less(a, b) == Rank(a, q) < Rank(b, q) \/ (Rank(a, q) = Rank(b, q) /\ Before(a.code, b.code))
        hits == SelectSeq(all, LAMBDA e : Rank(e, q) < 4)
    IN  StableSort(Less, SubSeq(hits, 1, AtMost(limit, Len(hits))))

SearchCatalog(all, q, limit) ==
    LET Less(a, b) == Rank(a, q) < Rank(b, q) \/ (Rank(a, q) = Rank(b, q) /\ Before(a.code, b.code))
        most  == IF limit <= 0 THEN 50 ELSE limit
        found == IF q = <<>> THEN all ELSE StableSort(Less, SelectSeq(all, LAMBDA e : Rank(e, q) < 4))
    IN  SubSeq(found, 1, AtMost(most, Len(found)))

\* A limit of the request counts within bounds.
SearchLabelCatalog(all, q, limit) == SearchCatalog(all, q, IF limit \in 1 .. 500 THEN limit ELSE 60)

-----------------------------------------------------------------------------
\* The sheets and templates a person keeps.

\* No two sheets of one brand and code; what was built in is listed first.
CreateLabelMedia(list, m) ==
    LET named == [m EXCEPT !.brand = IF @ = "" THEN "Custom" ELSE @]
    IN  IF m.code = "" \/ m.cols < 1 \/ m.rows < 1 THEN Refused("bad request")
        ELSE IF \E x \in list : x.brand = named.brand /\ x.code = named.code THEN Refused("conflict")
        ELSE Done(list \cup {named})

\* A deleted sheet leaves the templates made for it, without a sheet.
DeleteLabelMedia(list, templates, id) ==
    IF \A x \in list : x.id # id THEN Refused("not found")
    ELSE Done([list |-> {x \in list : x.id # id}, templates |-> {[t EXCEPT !.media = IF @ = id THEN "" ELSE @] : t \in templates}])
=============================================================================
