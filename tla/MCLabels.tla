------------------------------ MODULE MCLabels ------------------------------
\* Labels over bounded inputs.
EXTENDS Cases, Labels

Upto(S, n) == UNION {[1 .. k -> S] : k \in 0 .. n}

-----------------------------------------------------------------------------
\* Printing: sheets of up to 2 by 2; of each kind an item with a code and one without.

Thing(kind, id, of, ps) == [kind |-> kind, id |-> id, called |-> IF id = "n" THEN "reel" ELSE "", of |-> of, parameters |-> ps]
PartFields(name, ipn)   == [name |-> name, ipn |-> ipn, barcode |-> ipn, quantity |-> "7"]
LotFields(name, code)   == [name |-> name, barcode |-> code, quantity |-> "5", location |-> "L"]
Items == [part |-> [p |-> Thing("part", "p", PartFields("P", "IPN"), <<[name |-> "r", value |-> "10"]>>),
                    q |-> Thing("part", "q", PartFields("Q", ""), <<>>)],
          location |-> [l |-> Thing("location", "l", [name |-> "L", barcode |-> "BIN", description |-> "D"], <<>>),
                        k |-> Thing("location", "k", [name |-> "K", barcode |-> "", description |-> ""], <<>>)],
          lot |-> [s |-> Thing("lot", "s", LotFields("P", ""), <<>>), n |-> Thing("lot", "n", LotFields("P", "LOT"), <<>>)]]

PrintKind(kind, media, asked, template, copies, used) ==
    CASE kind = "part" -> PrintLabels(media, asked, Items.part, template, copies, used)
      [] kind = "location" -> PrintLocationLabels(media, asked, Items.location, template, copies, used)
      [] OTHER -> PrintStockLabels(media, asked, Items.lot, template, copies, used)

ShownKind(kind, x, els, media) ==
    CASE kind = "part" -> resolveOne(x, els, media) [] kind = "location" -> resolveOneLocation(x, els, media)
      [] OTHER -> resolveOneStock(x, els, media)

El(field, param) == [type |-> "text", field |-> field, param |-> param, value |-> "lit"]
SomeElements == {<<El("text", ""), El("qr", "")>>, <<El("name", ""), El("param", "r"), El("ipn", ""), El("quantity", ""), El("nothing", "")>>}
SomeTemplates == {<<>>} \cup {<<els>> : els \in SomeElements}

Medium(c, r) == [cols |-> c, rows |-> r, labelW |-> 189, labelH |-> 72, x0 |-> 11, y0 |-> 36, pitchX |-> 200, pitchY |-> 72]

AskPrint == \E c, r \in 0 .. 2 : \E kind \in DOMAIN Items : \E copies \in {0, 1, 3} :
                \E asked \in IF kind = "part" THEN Upto({"p", "q", "gone"}, 3) ELSE {SetToSeq(DOMAIN Items[kind] \cup {"gone"})} :
                \E template \in IF Len(asked) = 3 /\ ToSet(asked) = DOMAIN Items[kind] \cup {"gone"} THEN SomeTemplates ELSE {<<>>} :
                    Ask("print", {[media |-> Medium(c, r), kind |-> kind, asked |-> asked, template |-> template, copies |-> copies, used |-> u] :
                                     u \in SUBSET (0 .. c * r)})

\* Everything that is still there is printed, as often and in the order it was asked
\* for, each label in the next free place: on no cell that is used up, none on another,
\* no place left out, and the used cells count on the first sheet alone (RenderSheet);
\* so for parts, locations and lots, and as the preview shows it. A label says what its item says, and scanning it leads to the item.
PrintedOnce ==
    Asked("print") =>
        LET x == case.in
            out    == PrintKind(x.kind, x.media, x.asked, x.template, x.copies, x.used)
            there  == SelectSeq(x.asked, LAMBDA i : i # "gone")
            times  == IF x.copies < 1 THEN 1 ELSE x.copies
            most   == PerSheet(x.media)
            placed == out.is.placed
            Cell(i) == At(x.media, placed[i].cell)
            Only(kinds, said) == IF x.kind \in kinds THEN said ELSE ""
        IN  IF there = <<>> THEN out = Refused("bad request")
            ELSE IF most = 0 THEN out = Refused("error")
            ELSE /\ Len(placed) = times * Len(there) /\ Filled(placed, x.used, most)
                 /\ out.is.sheets = Last(placed).sheet
                 /\ \A i \in DOMAIN placed :
                        LET p == placed[i]
                            item == Items[x.kind][there[((i - 1) \div times) + 1]]
                        IN  /\ p.label.item = item.id
                            /\ x.template = <<>> => /\ p.label.link.at \in {item.id, Code(item)} \ {""}
                                                    /\ p.label.link.to = [part |-> "p", location |-> "l", lot |-> "s"][x.kind]
                                                    /\ p.label = ShownKind(x.kind, item, <<>>, x.media)
                            /\ x.template # <<>> =>
                                   /\ p.label = ShownKind(x.kind, item, x.template[1], x.media)
                                   /\ \A e \in DOMAIN p.label.els :
                                          LET was == x.template[1][e]
                                          IN  p.label.els[e].value =
                                              CASE was.field = "text" -> "lit" [] was.field = "qr" -> deepLink(item)
                                                [] was.field = "name" -> item.of["name"]
                                                [] was.field = "ipn" -> Only({"part"}, Code(item))
                                                [] was.field = "quantity" -> IF item.id \in {"p", "q"} THEN "7" ELSE Only({"lot"}, "5")
                                                [] was.field = "param" -> IF item.id = "p" THEN "10" ELSE ""
                                                [] OTHER -> ""
                 /\ \A i, j \in DOMAIN placed :
                        placed[i].sheet = placed[j].sheet /\ i # j =>
                            \/ Cell(i).x - Cell(j).x \notin -x.media.labelW + 1 .. x.media.labelW - 1
                            \/ Cell(i).y - Cell(j).y \notin -x.media.labelH + 1 .. x.media.labelH - 1

-----------------------------------------------------------------------------
\* The built-in layout on labels of half an inch and higher.

AskLayout == Ask("layout", {<<w, h>> : w \in 80 .. 300, h \in {36, 37, 40, 43, 54, 72, 87, 88, 96, 144, 150, 240, 300}})

\* On a label of that size, and wider than high, what is drawn is inside of it and apart:
\* the link, the name, the code and its bars ("It adapts to the media's label size").
BuiltInFits ==
    Asked("layout") =>
        LET w == case.in[1]
            h == case.in[2]
        IN  \A boxes \in {BuildPartLabel(w, h, "IPN"), BuildPartLabel(w, h, ""), BuildStockLabel(w, h, <<"sub">>)} : FitsOn(boxes, w, h)

AskText == Ask("text", {[box |-> Element("text", 0, 0, 100, h, f), lines |-> n, valign |-> v] :
                           h \in {0, 500, 1000, 2000, 4000}, f \in {600, 900, 1200}, n \in 1 .. 5, v \in {"T", "M", "B"}})

\* A text stays in its box when one line of it fits there.
TextInBox ==
    Asked("text") =>
        LET x == case.in
            d == drawText(x.box, x.lines, x.valign)
        IN  /\ d.h > 0
            /\ LineHeight(x.box.font) <= x.box.h => d.y >= 0 /\ d.y + d.h <= x.box.h

-----------------------------------------------------------------------------
\* The catalogue: codes of up to two characters.

Tmpl(part, equiv, round, size, g) == [brand |-> "Avery", part |-> part, equiv |-> equiv, round |-> round, size |-> size, geometry |-> g]
SomeTmpls == {Tmpl("a", "", FALSE, "A4", 1), Tmpl("b", "", FALSE, "Letter", 2), Tmpl("c", "", TRUE, "A4", 3), Tmpl("d", "", FALSE, "", 4),
              [Tmpl("e", "a", FALSE, "", 0) EXCEPT !.brand = ""], Tmpl("f", "b", FALSE, "", 0), Tmpl("g", "c", FALSE, "", 0),
              [Tmpl("a", "a", FALSE, "", 0) EXCEPT !.brand = "Other"]}

AskCatalogue == Ask("catalogue", {s \in Upto(SomeTmpls, 4) : \A i, j \in DOMAIN s : s[i] = s[j] => i = j})

\* Every rectangular sheet of a known page is in the catalogue, and whatever is equivalent
\* to one, under its own code with that one's geometry, wherever the two stand in the
\* files; nothing else is, and no sheet twice.
CatalogueWhole ==
    Asked("catalogue") =>
        LET ts == ToSet(case.in)
            out == buildCatalog(case.in)
            Base(t) == t.equiv = "" /\ ~t.round /\ t.size # ""
        IN  /\ \A t \in ts : (\E e \in out : e.code = t.part /\ t.brand \in {"", e.brand} /\
                                  \E b \in ts : Base(b) /\ b.part \in {t.part, t.equiv} /\ b.geometry = e.geometry)
                             <=> (Base(t) \/ \E b \in ts : Base(b) /\ b.part = t.equiv)
            /\ \A e, f \in out : (e.brand = f.brand /\ e.code = f.code) => e = f
            /\ \A e \in out : \E t \in ts : t.part = e.code

Entry1(c, n) == [code |-> c, name |-> n]
Codes == UNION {[1 .. k -> {1, 2}] : k \in 1 .. 2}
SomeEntries == {Entry1(c, n) : c \in Codes, n \in {<<1, 2>>, <<3>>}}

AskSearch == \E k \in 0 .. 3 : \E S \in kSubset(k, SomeEntries) :
                 LET all == SetToSortSeq(S, LAMBDA a, b : Before(a.code, b.code) \/ (a.code = b.code /\ Before(a.name, b.name)))
                 IN  Ask("search", {[all |-> all, q |-> q, limit |-> n] : q \in Upto({1, 2, 3}, 2), n \in {0, 1, 2, 501}})

\* A search finds all that match up to its limit, and leaves out nothing for a worse
\* match; a sheet is found first by its own code.
SearchRanks ==
    Asked("search") =>
        LET x == case.in
            out  == SearchLabelCatalog(x.all, x.q, x.limit)
            hits == {e \in ToSet(x.all) : x.q = <<>> \/ Rank(e, x.q) < 4}
        IN  /\ ToSet(out) \subseteq hits /\ IsInjective(out)
            /\ Len(out) = IF x.limit \in 1 .. Cardinality(hits) THEN x.limit ELSE Cardinality(hits)
            /\ x.q # <<>> => \A i \in DOMAIN out : \A e \in hits \ {out[j] : j \in 1 .. i} : Rank(out[i], x.q) <= Rank(e, x.q)
            /\ \A e \in hits : e.code = x.q => out[1].code = x.q

-----------------------------------------------------------------------------
\* The kept sheets: what was added and deleted in any order.

Sheet1(id, brand, code) == [id |-> id, brand |-> brand, code |-> code, cols |-> 1, rows |-> 1]
Changes == {<<"create", Sheet1(i, b, "c")>> : i \in {"m", "n"}, b \in {"", "Custom", "B"}} \cup {<<"delete", i>> : i \in {"m", "n"}}

AskMedia == Ask("media", Upto(Changes, 4))

\* No two kept sheets have one brand and code, and no template is for one that is gone.
MediaUnique ==
    Asked("media") =>
        LET Change(s, c) ==
                LET old  == {m.id : m \in s.list}
                    made == IF c[1] = "create" THEN CreateLabelMedia(s.list, c[2]) ELSE DeleteLabelMedia(s.list, s.templates, c[2])
                IN  IF ~IsOk(made) \/ (c[1] = "create" /\ c[2].id \in old) THEN s
                    ELSE IF c[1] = "delete" THEN made.is
                    ELSE [list |-> made.is, templates |-> s.templates \cup {[for |-> c[2].id, media |-> c[2].id]}]
            end == FoldLeft(Change, [list |-> {}, templates |-> {}], case.in)
        IN  /\ \A a, b \in end.list : a.brand = b.brand /\ a.code = b.code => a = b
            /\ \A t \in end.templates : t.media = "" \/ \E m \in end.list : m.id = t.media

AskLabels == AskPrint \/ AskLayout \/ AskText \/ AskCatalogue \/ AskSearch \/ AskMedia

\* A printed sheet has what was asked for, once and in its place, and sheets are found.
LabelsPrinted == PrintedOnce /\ BuiltInFits /\ TextInBox /\ CatalogueWhole /\ SearchRanks /\ MediaUnique
=============================================================================
