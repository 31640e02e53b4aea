------------------------------ MODULE MCParts ------------------------------
\* Quantities, Enrichment, Listing, Chooser and Barcodes over bounded inputs, against
\* reference definitions; the loop from a part to a symbol, a BOM and back goes through
\* KicadFiles and Matching.
EXTENDS MCFiles, Enrichment, Listing, Chooser, Barcodes

SomeJunk    == {"eccn"}
SomeLong    == {<<"a long text">>}
SomeKeys    == [s \in {"Digi-Key", "DigiKey"} |-> "digikey"] @@ [s \in {"Mouser"} |-> "mouser"] @@ [s \in {"Shop"} |-> "shop"]
SomeMajor   == {"Digi-Key", "DigiKey", "Mouser"}
\* Of two descriptions the one that ends with a type, and not with a measurement.
SomeTypes   == [d \in {"2.1 mm, Power Jack"} |-> "Power Jack"]

-----------------------------------------------------------------------------
\* Quantities.

Digits == {<<"1">>, <<"1", "0">>, <<"1", "0", "0", "0">>, <<"0", ".", "1">>, <<"4", ".", "7">>, <<"4", "7", "0", "0">>}
Units0 == {<<"greek">>, <<"k", "greek">>, <<"m", "greek">>, <<"M", "ohm">>, <<"K", "ohmsign">>, <<"Ohms">>,
           <<"F">>, <<"u", "F">>, <<"micro", "f">>, <<"n", "F">>, <<"m", "farad">>, <<"V">>, <<"m", "volts">>, <<>>}
Asked0 == (Units0 \ {<<>>}) \cup {<<"k">>, <<"u">>}

\* Which digit x has at a power of ten, when its unit counts by powers of shift.
DigitAt(x, shift, power) ==
    LET point == IF \E i \in DOMAIN x : x[i] = "." THEN CHOOSE i \in DOMAIN x : x[i] = "." ELSE Len(x) + 1
        i == point - 1 - (power - shift)
        at == IF i < point THEN i ELSE i + 1
    IN  IF at \in DOMAIN x THEN x[at] ELSE "0"
Shift(unit) == IF unit # <<>> /\ unit[1] \in DOMAIN PowerOf /\ ~(Len(unit) = 1 /\ unit[1] \in DOMAIN BaseOf)
               THEN PowerOf[unit[1]] ELSE 0
Kind(unit)  == IF unit # <<>> /\ unit[Len(unit)] \in DOMAIN BaseOf THEN BaseOf[unit[Len(unit)]] ELSE ""
SameAmount(a, ua, b, ub) == \A power \in -10 .. 10 : DigitAt(a, Shift(ua), power) = DigitAt(b, Shift(ub), power)

AskAmount == Ask("amount", Digits \X Units0 \X Digits \X Asked0)

\* A search that says a unit finds exactly the parts of that amount, however the two are
\* written; one that says a prefix only finds that amount of anything (SearchParametric).
FoundByAmount ==
    Asked("amount") =>
        LET v == case.in[1]  u == case.in[2]  w == case.in[3]  a == case.in[4]
        IN  (matchParameters(<<[value |-> v, units |-> u]>>, <<>>, w \o a) # <<>>) =
                ((Kind(a) = "" \/ Kind(u) = Kind(a)) /\ SameAmount(v, u, w, a))

Printed == {d \o u : d \in Digits, u \in {<<"greek">>, <<"k", "greek">>, <<"m", "Ohm">>, <<"M", "Ohms">>, <<"u", "F">>,
                                           <<"micro", "H">>, <<"p", "F">>, <<"H">>, <<"m", "V">>, <<"M", "Hz">>}}

AskPrinted == Ask("printed", Printed)

\* What a distributor prints is stored so that searching what it printed finds it, and
\* so that a schematic shows the same amount (peelUnit, matchParameters, fuseSIPrefix).
PrintedIsKept ==
    Asked("printed") =>
        LET p == peelUnit(ohmsRepl(case.in))
            q == CHOOSE x \in ParseQuery(ohmsRepl(case.in)) : TRUE
            drawn == fuseSIPrefix(p.value, p.units)
        IN  /\ p.units # <<>> /\ matchParameters(<<p>>, <<>>, case.in) = <<p>>
            /\ q.base \in {"ohm", "F", "H"} =>
                   \E x \in Parse(drawn, <<[ohm |-> "greek", F |-> "F", H |-> "H"][q.base]>>) : x.value = q.value /\ x.base = q.base

-----------------------------------------------------------------------------
\* Prices.

Wholes   == {<<"0">>, <<"7">>, <<"1", "2">>, <<"1", "2", "3", "4">>, <<"1", "2", "3", "4", "5", "6", "7">>}
Cents    == {<<>>, <<"5">>, <<"4", "2">>, <<"0", "0">>}
Grouped(w, sep) == FlattenSeq([i \in DOMAIN w |-> IF i < Len(w) /\ (Len(w) - i) % 3 = 0 THEN <<w[i], sep>> ELSE <<w[i]>>])

AskPrice == Ask("price", Wholes \X Cents \X BOOLEAN \X BOOLEAN)

\* A price reads as what was printed, in a locale with points or with commas, grouped
\* or not, the symbol before or after (parsePrice; it takes three digits behind a comma
\* for thousands, and a group behind a point for decimals).
PriceAsPrinted ==
    Asked("price") =>
        LET w == case.in[1]  c == case.in[2]  comma == case.in[3]  grouped == case.in[4]
            whole == IF grouped THEN Grouped(w, IF comma THEN "." ELSE ",") ELSE w
            text  == IF c = <<>> THEN whole ELSE whole \o <<IF comma THEN "," ELSE ".">> \o c
        IN  c # <<>> \/ ~comma =>
                /\ parsePrice(<<"$">> \o text) = {DecimalOf(FALSE, w \o c, -Len(c))}
                /\ parsePrice(text \o <<" ", "EUR">>) = parsePrice(<<"$">> \o text)

-----------------------------------------------------------------------------
\* Enrichment.

Ohms(v)   == [name |-> <<"resistance", "Resistance">>, value |-> v]
Case      == [name |-> <<"package / case", "Package / Case">>, value |-> <<"0603">>]
Params    == {<<>>, <<Ohms(<<"1", "0", "k", "Ohms">>), Case>>, <<Case, Ohms(<<"2", "k", "greek">>)>>,
              <<[name |-> <<"eccn", "ECCN">>, value |-> <<"x">>], Ohms(<<"-">>)>>}
Units(d)  == DecimalOf(FALSE, <<d>>, 0)
PriceList == {<<>>, <<[quantity |-> 1, price |-> Units("5"), currency |-> "USD"]>>,
              <<[quantity |-> 1, price |-> Units("6"), currency |-> "CAD"], [quantity |-> 10, price |-> Units("4"), currency |-> "CAD"]>>}
Facts     == {<<"", "">>, <<"Acme", "url1">>, <<"Other", "url2">>}

Product(ps, f, prices) ==
    [mpn |-> <<"m", "M">>, description |-> f[2], manufacturer |-> f[1], category |-> "resistor", datasheet |-> f[2], url |-> "u",
     attributes |-> ps, variations |-> <<[sku |-> "s1", packaging |-> <<"Reel">>, prices |-> prices]>>]
NexarPart(ps, f, prices) ==
    [mpn |-> <<"m", "m">>, description |-> f[1], manufacturer |-> f[1], category |-> "", datasheet |-> f[2],
     attributes |-> SelectSeq(ps, LAMBDA p : p.value # <<"-">>), similar |-> <<<<"n", "N">>, <<"n", "n">>>>,
     sellers |-> <<[name |-> <<"digikey", "DigiKey">>, offers |-> <<[sku |-> "s2", moq |-> Zero, prices |-> prices]>>],
                   [name |-> <<"shop", "Shop">>, offers |-> <<[sku |-> "s3", moq |-> Zero, prices |-> prices]>>]>>]

\* Two of its prices can be read, one cannot.
MouserPart(ps, f) ==
    mapPart([mpn |-> <<"m", "M">>, description |-> f[1], manufacturer |-> f[1], category |-> "resistor", datasheet |-> f[2], url |-> "u",
             attributes |-> ps, sku |-> "s4", min |-> <<"1", ",", "0", "0", "0">>,
             breaks |-> <<[quantity |-> 1, price |-> <<"$", "0", ".", "5">>, currency |-> "USD"],
                          [quantity |-> 9, price |-> <<"Quote">>, currency |-> ""],
                          [quantity |-> 10, price |-> <<"0", ",", "4", "EUR">>, currency |-> ""]>>], "EUR")

Offers0 == {mapProduct(Product(ps, f, x)) : ps \in Params, f \in Facts, x \in PriceList}
Offers1 == {nexarPart(NexarPart(ps, f, x)) : ps \in Params, f \in Facts, x \in PriceList}
           \cup {MouserPart(ps, f) : ps \in Params, f \in Facts}

NewPart == [package |-> <<>>, description |-> "", params |-> <<>>, templates |-> <<>>, brand |-> "", datasheet |-> "", offers |-> <<>>]
\* A part as it was entered, and one whose first order number has old prices.
Old     == [packaging |-> <<>>, moq |-> Zero, url |-> "", prices |-> [x \in {<<1, "USD">>, <<25, "USD">>} |-> Units("9")]]
Stored  == {[NewPart EXCEPT !.brand = b, !.package = <<"0402">>, !.description = "mine",
                            !.offers = IF b = "" THEN <<>> ELSE Put(<<>>, <<"digikey", "s1">>, Old)] : b \in {"", "Mine"}}

AskEnrich == Ask("enrich", Offers0 \X Offers1 \X Stored)

\* The price list of an offer as it is stored.
Quoted(s) == FoldLeft(LAMBDA f, x : Put(f, <<x.quantity, Currency(x)>>, x.price), <<>>, s.prices)

\* A passive whose value is stored is called by it as it is shown, units and all.
CalledBy(m, shown) ==
    LET ohms == {n \in DOMAIN shown : n[1] = "resistance"}
    IN  deriveName(m, cleanParameters(m.parameters)) \in
            IF ohms = {} THEN {<<"mpn", m.mpn>>} ELSE {<<"resistor", shown[n].value \o shown[n].units>> : n \in ohms}

\* What writing the merge m of a and b onto db leaves (once), and writing b and then a.
AddUp(a, b, db, m, once, apart) ==
    LET offered == {Quoted(s) : s \in Range(a.suppliers) \cup Range(b.suppliers)} \cup {o.prices : o \in Range(db.offers)}
    IN  /\ once.params = apart.params /\ once.package = apart.package /\ once.description = apart.description
        /\ once.offers = apart.offers
        /\ applyEnrichment(once, m) = once
        /\ once.package # <<>> /\ once.description # "" /\ (db.brand # "" => once.brand = db.brand)
        /\ a.datasheet # "" /\ db.brand = "" => once.brand = a.manufacturer
        /\ \A k \in DOMAIN once.offers : once.offers[k].prices \in offered /\ k[1] # "shop"
        /\ \A k \in DOMAIN db.offers : once.offers[k].prices # <<>>
        /\ \A p \in Range(GetParameters(once)) :
               p.value \o p.units \in {<<"1", "0", "k", "greek">>, <<"2", "k", "greek">>, <<"0603">>}
        /\ CalledBy(m, GetParameters(once))
        /\ b.source = <<"nexar">> => Len(m.alternatives) = 1

\* Answers merged and written once leave what writing the better one over the worse
\* leaves; writing the same answer again changes nothing; nothing that was known becomes
\* blank, a brand somebody set stays, every stored price list is one that was offered or
\* stored, whole, and the name that is offered for a passive is the value it is then
\* stored with, whoever said it and in whatever units (mergeEnriched, applyEnrichment,
\* deriveName).
AnswersAddUp ==
    Asked("enrich") =>
        LET a == case.in[1]  b == case.in[2]  db == case.in[3]
            m == mergeEnriched(<<a, b>>)
        IN  AddUp(a, b, db, m, applyEnrichment(db, m), applyEnrichment(applyEnrichment(db, b), a))

Answer(x)  == [enabled : BOOLEAN, configured : BOOLEAN, error : BOOLEAN, name : {x[1]}, answer : {{}, {x[2]}}]
Plain0     == mapProduct(Product(<<>>, <<"Acme", "url1">>, <<>>))
Plain1     == nexarPart(NexarPart(<<>>, <<"Other", "url2">>, <<>>))

AskLookup == Ask("lookup", Answer(<<"digikey", Plain0>>) \X Answer(<<"nexar", Plain1>>) \X {{}, {"nexar"}} \X BOOLEAN \X {{}, {Plain0}})

Ran(p, want) == p.configured /\ (p.name \in want \/ (want = {} /\ p.enabled))

\* A number that was found is found again when nobody can be asked; one provider's error
\* costs nothing while another answers, and is said when none does, even if another was
\* asked and knows no such number (see OnlyIfAllErrored); a lookup that finds
\* nothing leaves the cache alone; who is switched off is asked only by name (Enrich).
LookupsLast ==
    Asked("lookup") =>
        LET ps == <<case.in[1], case.in[2]>>  want == case.in[3]  refresh == case.in[4]  cache == case.in[5]
            r     == Enrich(cache, ps, want, refresh)
            again == Enrich(r.cache, <<>>, {}, FALSE)
        IN  /\ r.kind = "found" => again.kind = "found" /\ again.part = r.part
            /\ r.kind # "found" => r.cache = cache
            /\ (\E i \in 1 .. 2 : Ran(ps[i], want) /\ ~ps[i].error /\ ps[i].answer # {}) => r.kind = "found"
            /\ r.kind = "found" /\ r.part \notin cache =>
                   \A i \in DOMAIN r.part.source : \E k \in 1 .. 2 : ps[k].name = r.part.source[i] /\ Ran(ps[k], want) /\ ~ps[k].error
            /\ r.kind = "none" => \A i \in 1 .. 2 : ~(Ran(ps[i], want) /\ ps[i].error)

\* "or the last error only if every provider that ran errored" (enrich.go:376-379). It
\* does not hold: one that answers that it knows no such number does not take back the
\* error of another.
OnlyIfAllErrored ==
    Asked("lookup") =>
        LET ps == <<case.in[1], case.in[2]>>  want == case.in[3]
        IN  Enrich(case.in[5], ps, want, case.in[4]).kind = "error" => \A i \in 1 .. 2 : Ran(ps[i], want) => ps[i].error

AskNaming == Ask("naming", [mpn : {<<"", "">>, <<"m", "M">>}, description : {"", "2.1 mm, Power Jack", "Power Jack, 50 C"},
                            category : {"", "resistor", "jack"}, parameters : {Stated(ps) : ps \in Params}])

\* A part is nameless only when nothing is known of it; it is called by a value only when
\* that is of its kind, and by a description that ends with a measurement only when
\* nothing else is known (deriveName, looksLikeType).
NamedByWhatItIs ==
    Asked("naming") =>
        LET o == case.in  name == deriveName(o, cleanParameters(o.parameters))
            known == {f \in {"mpn", "description", "category"} : o[f] # BlankOf[f]}
        IN  /\ name = <<"description", "">> => known = {}
            /\ name[1] \in {"resistor", "jack"} => o.category = "resistor" /\ name[2] \in {<<"1", "0", "k", "greek">>, <<"2", "k", "greek">>}
            /\ name = <<"description", "Power Jack, 50 C">> => known = {"description"}
            /\ name[1] = "type" => o.description = "2.1 mm, Power Jack"

Numbers == {<<"m", "M">>, <<"m", "m-">>, <<"n", "N">>}
AskPickMatch == Ask("pickmatch", SeqsTo({[mpn |-> x] : x \in Numbers}, 3))

\* A part whose number is not the one asked for is taken only when none of that number
\* is among the answers (pickMatch).
TheOneAsked ==
    Asked("pickmatch") =>
        LET all == case.in  got == pickMatch(<<"m", "M">>, <<>>, all)
        IN  /\ (got = {}) = (all = <<>>)
            /\ (\E i \in DOMAIN all : all[i].mpn[1] = "m") => \A x \in got : x.mpn[1] = "m"

Mints == [ok : BOOLEAN, token : {"t1", "t2"}, until : {2, 4}]
AskToken == Ask("token", [client : {"c", "d", ""}, secret : {"x"}] \X (0 .. 4) \X Mints
                         \X [token : {"", "t0"}, client : {"c", "d"}, until : {1, 3}])

\* A token that is used was minted for this client and has not run out, and a failure to
\* mint one costs the old one nothing (accessToken).
TokensLive ==
    Asked("token") =>
        LET creds == case.in[1]  now == case.in[2]  next == case.in[3]  cache == case.in[4]
            r == accessToken(cache, creds, now, next)
        IN  /\ r.ok => r.cache.client = creds.client /\ (now < r.cache.until \/ r.cache.token = next.token)
            /\ ~r.ok => r.cache = cache

EnrichmentExact == AnswersAddUp /\ NamedByWhatItIs /\ LookupsLast /\ TheOneAsked /\ TokensLive
QuantitiesExact == FoundByAmount /\ PrintedIsKept /\ PriceAsPrinted

AskEnrichment == AskAmount \/ AskPrinted \/ AskPrice \/ AskEnrich \/ AskNaming \/ AskLookup \/ AskPickMatch \/ AskToken

-----------------------------------------------------------------------------
\* Listing.

\* Parts a, b and c in the order of their names.
Named0(kinds) == [i \in DOMAIN kinds |-> kinds[i] @@ [id |-> <<"a", "b", "c">>[i]]]
ShelfPart     == [texts |-> {<<"x">>}, category |-> "c", package |-> <<>>, tags |-> {}, params |-> <<>>]
SpecPart      == [base |-> "", tags |-> {}, minimum |-> 0, reference |-> FALSE, stock |-> 1]

Param(name, value, units) == [name |-> name, value |-> value, units |-> units]
TenK   == Param(<<"Resist", "ance">>, <<"1", "0">>, <<"k", "greek">>)
Specs  == {<<TenK>>, <<Param(<<"Tolerance">>, <<"1", "0", "%">>, <<>>)>>,
           <<Param(<<"Resist", "ance">>, <<"0", ".", "0", "1", "M", "Ohm">>, <<"greek">>), Param(<<"Tolerance">>, <<"5", "%">>, <<>>)>>}
Kinds0 == {[texts |-> {<<"x", "y">>}, category |-> "c", package |-> <<"0603", "metric">>, params |-> ps] @@ SpecPart : ps \in Specs}
          \cup {[texts |-> {<<"x">>}, category |-> "d", package |-> <<>>, params |-> ps] @@ SpecPart : ps \in Specs \cup {<<>>}}
Wants  == [search : {<<>>, <<"y">>}, category : {"", "c"}, package : {<<>>, <<"0603">>}, parameter : {<<>>, <<"Tol">>},
           value : {<<>>, <<"1", "0">>, <<"1", "0", "k", "Ohms">>}, limit : {0, 1}]

AskSpec == Ask("spec", {Named0(ks) : ks \in SeqsTo(Kinds0, 3)} \X Wants)

Ids(s)       == [i \in DOMAIN s |-> s[i].part.id]
First0(s, n) == SubSeq(s, 1, IF Len(s) < n THEN Len(s) ELSE n)

\* A search by value answers, in order and up to its limit, exactly the parts that fit
\* everything that was asked, however many do not fit between them; what it highlights
\* is of the parameter that was asked for. Without a value it finds what the list of
\* parts finds, as far as both go ("they have to agree", part_search.go).
FoundBySpec ==
    Asked("spec") =>
        LET db == case.in[1]  o == case.in[2]
            Of(q) == o.parameter = <<>> \/ Within(o.parameter, q.name)
            Hit(q) == CASE o.value = <<"1", "0">> -> q = TenK \/ q.value = <<"1", "0", "%">>
                        [] OTHER -> q = TenK \/ q.value = <<"0", ".", "0", "1", "M", "Ohm">>
            Suits(p) == /\ o.category \in {"", p.category} /\ partSearchClause(p, o.search)
                        /\ o.package # <<>> => p.package # <<>>
                        /\ o.parameter # <<>> => \E q \in Range(p.params) : Of(q)
                        /\ o.value # <<>> => \E q \in Range(p.params) : Of(q) /\ Hit(q)
            fits == SelectSeq(db, Suits)
            out  == SearchParametric(db, o)
            bare == [o EXCEPT !.package = <<>>, !.parameter = <<>>, !.value = <<>>, !.limit = 0]
            both == Ids(ListParts(db, [top |-> FALSE, category |-> o.category, tag |-> "", search |-> o.search]))
        IN  /\ Ids(out) = [i \in DOMAIN First0(fits, IF o.limit = 0 THEN FoundCap ELSE o.limit) |-> fits[i].id]
            /\ \A i \in DOMAIN out : Range(out[i].matched) = {q \in Range(out[i].part.params) : o.value # <<>> /\ Of(q) /\ Hit(q)}
            /\ First0(Ids(SearchParametric(db, bare)), ListCap) = First0(both, FoundCap)

Levels == [stock : {0, 1, 3}, minimum : {0, 2}, reference : BOOLEAN]
Family == {<<"">>, <<"", "">>, <<"", "a">>} \cup {<<"", x, y>> : x \in {"", "a"}, y \in {"", "a", "b"}}

AskShelf == \E bases \in Family : Ask("shelf", {[i \in DOMAIN bases |-> ls[i] @@ ShelfPart @@ [base |-> bases[i]]] : ls \in [DOMAIN bases -> Levels]})

\* The dashboard counts what its lists show: as many parts run low as are listed, up to
\* the end of the list, and none that is left out is more depleted than one that is in;
\* the units of the top level are all there are, when no variant has variants ("A count
\* that disagrees with the list it heads is worse than no count").
DashboardAgrees ==
    Asked("shelf") =>
        LET db  == Named0(case.in)
            low == ListLowStock(db)
            now == Get(db, <<>>)
            top == ListParts(db, [top |-> TRUE, category |-> "", tag |-> "", search |-> <<>>])
            Depth(p) == p.stock - p.minimum
            flat == \A i, j \in DOMAIN db : db[i].base = db[j].id => db[j].base = ""
        IN  /\ Len(low) = IF now.low < LowCap THEN now.low ELSE LowCap
            /\ \A i \in DOMAIN db : (Low(db, db[i]) /\ db[i] \notin Range(low)) => \A p \in Range(low) : Depth(p) <= Depth(db[i])
            /\ \A p \in Range(low) : p.minimum >= p.stock /\ ~p.reference
            /\ now.parts + now.variants = Len(db)
            /\ flat => FoldLeft(LAMBDA n, r : n + r.total, 0, top) = now.units

\* A board the dashboard calls complete is one whose pick list has everything, and the
\* two tell as many parts and lines apart (boardFill, Compute).
BoardsAgree ==
    Asked("pick") =>
        LET lines == case.in[1]  lots == case.in[4]
            Stocked(p) == SumOver(SelectSeq(lots, LAMBDA x : x.part = p), "quantity")
            fill == boardFill(lines, [p \in {l.part : l \in Range(lines)} |-> Stocked(p)])
            pick == Compute(lines, 1, 1, lots)
        IN  fill.short = Len(pick.shortfalls) /\ fill.unmatched = Len(pick.unmatched)

ListsAgree == FoundBySpec /\ DashboardAgrees /\ BoardsAgree
AskListing == AskSpec \/ AskShelf

-----------------------------------------------------------------------------
\* The chooser.

SomePrefix   == {<<"abc", "abc">>, <<"abcd", "abc">>, <<"abc", "ab">>, <<"abcd", "ab">>, <<"R_0603", <<"R_", "0603">>>>,
                 <<"D_0603", <<"D_", "0603">>>>}
SomeReadings == <<"1", "0", "0", "k">> :> "100k" @@ <<"4", ".", "7", "u">> :> "4.7u"

-----------------------------------------------------------------------------
\* Out to KiCad and back.

Resistor(value) == [value |-> value, units |-> <<"k", "greek">>]
APart(mpn, ipn, fp, value, tags) ==
    [name |-> "n", symbol |-> "lib:sym", footprint |-> fp, value |-> value, ipnText |-> ipn, primaryMPN |-> mpn,
     primaryManufacturer |-> "", mps |-> IF mpn = "" THEN <<>>
         ELSE <<[mpn |-> mpn, manufacturer |-> "", datasheet |-> "", words |-> <<<<mpn, mpn>>>>, skus |-> <<<<<<"sku", "SKU">>>>>>]>>,
     keywords |-> <<<<"kw", "Kw">>>>, package |-> <<<<"kw", "KW">>>>, ipn |-> IF ipn = "" THEN <<>> ELSE <<<<ipn, ipn>>>>,
     mpnWords |-> IF mpn = "" THEN <<>> ELSE <<<<mpn, mpn>>>>, tags |-> tags]
SomeParts == {APart(m, i, fp, v, t) : m \in {"", "abc", "abcd"}, i \in {"", "i1", "i2"}, fp \in {"", "R_0603_1608Metric"},
                                      v \in {{}, {Resistor(<<"1", "0", "0">>)}}, t \in {<<>>, <<<<"q", "Q">>>>}}

\* What KiCad draws of a chosen part.
Drawing(p, ref) ==
    LET f == MapPart(p).fields
    IN  List(<<Atom("symbol"), List(<<Atom("lib_id"), Atom(p.symbol)>>), Prop("reference", ref)>>
             \o [i \in DOMAIN f |-> Prop(f[i][1], f[i][2])])

Inventory(ps) ==
    [names |-> [i \in DOMAIN ps |-> [name |-> "n", package |-> ""]],
     ipns  |-> {<<ps[i].ipnText, i>> : i \in {k \in DOMAIN ps : ps[k].ipnText # ""}},
     mpns  |-> {<<ps[i].primaryMPN, i>> : i \in {k \in DOMAIN ps : ps[k].primaryMPN # ""}}, skus |-> {}, tags |-> {}]
Line0(l) == [ipn |-> l.ipn, mpn |-> l.mpn, sku |-> l.sku, value |-> l.value, footprint |-> l.footprint, words |-> <<>>]

AskLoop == Ask("loop", {ps \in SomeParts \X SomeParts : ps[1].ipnText # ps[2].ipnText \/ ps[1].ipnText = ""})

\* What the BOM tells parts apart by.
KeyOf(p) == <<valueFor(p), p.footprint, mpnFor(p)>>

LineOf(lines, ref) == {l \in Range(lines) : ref \in Range(l.refs)}

\* Each of two parts is on one line, and, if they are told apart, that line is of it.
ComesBack(ps, apart, lines) ==
    \A i \in 1 .. 2 :
        LET on == LineOf(lines, <<"R1", "R2">>[i])
            Got(l) == resolveMatch(Inventory(ps), <<>>, Line0(l))
        IN  /\ Cardinality(on) = 1
            /\ apart => \A l \in on :
                   /\ l.quantity = <<2, 1>>[i]
                   /\ ps[i].ipnText # "" => Got(l) = {[part |-> i, kind |-> "fbpn"]}
                   /\ (ps[i].ipnText = "" /\ ps[i].primaryMPN # "" /\ ps[1].primaryMPN # ps[2].primaryMPN) =>
                          Got(l) = {[part |-> i, kind |-> "mpn"]}

\* A part placed from the chooser comes back from the BOM as that part: by its internal
\* number, or by a part number nobody else has, with the amount its value says
\* ("it matches back to this exact inventory row", MapPart). Parts that the BOM tells
\* apart by value, footprint and part number only do; see LoopClosesForAll.
LoopCloses ==
    Asked("loop") =>
        LET ps == case.in
        IN  ComesBack(ps, KeyOf(ps[1]) # KeyOf(ps[2]),
                      GroupComponents(ComponentsFromSchematic(Sch(<<Drawing(ps[1], "R1"), Drawing(ps[2], "R2"), Drawing(ps[1], "R10")>>))))

\* Every part with an internal number comes back as itself. It does not: the BOM groups
\* symbols by value, footprint and part number, and a group is the part of its first.
LoopClosesForAll ==
    Asked("loop") =>
        LET ps    == case.in
            lines == GroupComponents(ComponentsFromSchematic(Sch(<<Drawing(ps[1], "R1"), Drawing(ps[2], "R2")>>)))
        IN  \A i \in 1 .. 2 : ps[i].ipnText # "" =>
                \E n \in DOMAIN lines : resolveMatch(Inventory(ps), <<>>, Line0(lines[n])) = {[part |-> i, kind |-> "fbpn"]}

\* The chooser finds a part by every word it is known by, and says none twice (keywordsFor).
KeywordsFind ==
    Asked("loop") =>
        LET p == case.in[1]
            said == keywordsFor(p)
            known == {"kw"} \cup {w[1] : w \in Range(p.ipn) \cup Range(p.tags) \cup Range(p.mpnWords)}
                     \cup (IF p.mps = <<>> THEN {} ELSE {"sku"})
        IN  {said[i][1] : i \in DOMAIN said} = known /\ Len(said) = Cardinality(known)

-----------------------------------------------------------------------------
\* Proposals.

Ids0 == {<<"", "">>, <<"L", "abc">>, <<"L", "abcd">>, <<"Device", "R">>}
SymbolLib == <<<<"L", "abc">>, <<"M", "abcd">>, <<"Device", "R">>>>
FootprintLib == <<<<"F", "R_0603">>, <<"G", "R_0603">>, <<"F", "D_0603">>>>

\* Categories by the words in their names, and the symbol each is drawn with.
DrawnAs == {"resistor"} :> {"R"} @@ {"capacitor"} :> {"C"} @@ {"inductor"} :> {"L"} @@ {"ferrite"} :> {"FerriteBead"}
           @@ {"led"} :> {"LED"} @@ {"diode"} :> {"D"} @@ {"diode", "schottky"} :> {"D_Schottky"} @@ {"diode", "zener"} :> {"D_Zener"}
           @@ {"fuse"} :> {"Fuse"} @@ {"crystal"} :> {"Crystal"} @@ {"ic"} :> {}
SizedAs == {"resistor"} :> "R_0603" @@ [c \in {{"diode"}, {"diode", "schottky"}, {"diode", "zener"}} |-> "D_0603"]
AskSuggest == Ask("suggest", SeqsTo([symbol : Ids0, footprint : {<<"", "">>, <<"F", "R_0603">>, <<"F", "x">>}], 2)
                             \X [mpn : {"", "ab", "abc"}, category : DOMAIN DrawnAs, size : {"", "0603"}])

Shipped(f) == {case.in[1][i][f] : i \in DOMAIN case.in[1]} \ {<<"", "">>}
Suggested  == SuggestKicad(case.in[2], case.in[1], [symbols |-> SymbolLib, footprints |-> FootprintLib])
IdsOf(s)   == {s[i].id : i \in DOMAIN s}
NamedAfter == {x \in Range(SymbolLib) : <<x[2], case.in[2].mpn>> \in StartsWith}

\* An id is proposed once, with a library, and as what the strongest evidence for it says:
\* on a board before named after the number before the plain one. What is proposed for a
\* category alone is the symbol of the most particular kind in its name, and footprints
\* that symbol fits, of the part's size: a Zener diode has the symbol of one and the
\* footprints of a diode (SuggestKicad, passiveFor).
ProposalsGrounded ==
    Asked("suggest") =>
        LET part == case.in[2]
            Sure(s, f) == /\ \A i, j \in DOMAIN s : s[i].id = s[j].id => i = j
                          /\ \A i \in DOMAIN s : s[i].id[1] # "" /\ (s[i].confidence = 100) = (s[i].id \in Shipped(f))
                          /\ {s[i].id : i \in 1 .. Cardinality(Shipped(f))} = Shipped(f)
            plain == {<<"Device", n>> : n \in DrawnAs[part.category]}
            sized == {x \in Range(FootprintLib) : part.size # "" /\ part.category \in DOMAIN SizedAs /\ x[2] = SizedAs[part.category]}
        IN  /\ Sure(Suggested.symbols, "symbol") /\ Sure(Suggested.footprints, "footprint")
            /\ IdsOf(Suggested.symbols) = Shipped("symbol") \cup NamedAfter \cup plain
            /\ IdsOf(Suggested.footprints) = Shipped("footprint") \cup sized

\* "Category alone never suggests a semiconductor symbol" (kicad_suggest.go:29),
\* "Restricted to two-pin passives on purpose: these symbols have no meaningful pin order
\* to get wrong" (kicad_suggest.go:146-148). It does not hold: passiveFor has rows for
\* LEDs and for three kinds of diodes, which have an anode and a cathode.
OnlyPassivesByCategory ==
    Asked("suggest") =>
        (case.in[2].category \cap {"led", "diode", "schottky", "zener", "ic"} # {} =>
            IdsOf(Suggested.symbols) \subseteq Shipped("symbol") \cup NamedAfter)

Dictionary == <<[tags |-> <<<<"qwiic", "Qwiic">>, <<"stemmaqt", "STEMMA QT">>>>, prefixes |-> {"ab"}, allOf |-> {"jst sh", "4"}],
                [tags |-> <<<<"grove", "Grove">>, <<"qwiic", "QWIIC">>>>, prefixes |-> {}, allOf |-> {"grove"}],
                [tags |-> <<<<"neopixel", "NeoPixel">>>>, prefixes |-> {"abc"}, allOf |-> {}]>>
AskTagging == Ask("tagging", [mpns : SeqsTo({"abc", "zz"}, 1), words : SUBSET {"jst sh", "4", "grove"},
                              existing : SUBSET {<<"qwiic", "qwiic">>, <<"stemmaqt", "stemma-qt">>, <<"other", "Other">>}])

\* A part is never offered a tag it has in any spelling, and once it has taken what it
\* was offered it is offered nothing (Suggest).
OffersEnd ==
    Asked("tagging") =>
        LET p == case.in
            offered == Suggest(Dictionary, p)
            tags == UNION {Range(offered[i]) : i \in DOMAIN offered}
        IN  /\ \A t \in tags : t[1] \notin {x[1] : x \in p.existing}
            /\ \A i \in DOMAIN offered : offered[i] # <<>>
            /\ Suggest(Dictionary, [p EXCEPT !.existing = @ \cup tags]) = <<>>
            /\ p.mpns = <<>> /\ ~({"jst sh", "4"} \subseteq p.words) /\ "grove" \notin p.words => tags = {}

-----------------------------------------------------------------------------
\* Bags.

Bag0 == {<<<<"1", "P">>, <<"R", "C", "1">>>>, <<<<"P">>, <<"1", "K", "-", "N", "D">>>>, <<<<"Q">>, <<"2", "5">>>>,
         <<<<"1", "K">>, <<"S", "O">>>>, <<<<"1", "1", "K">>, <<"7">>>>, <<<<"1", "T">>, <<"P", "Q">>>>, <<<<"2", "0", "Z">>, <<"Q">>>>}
Labels0 == {s \in SeqsTo(Bag0, 3) : \A i, j \in DOMAIN s : s[i] = s[j] => i = j}
Envelope == {[front |-> <<"[)>", "RS", "0", "6", "GS">>, sep |-> "GS", end |-> <<"RS", "EOT">>],
             [front |-> <<"[)>", "F9", "0", "6", "F8">>, sep |-> "F8", end |-> <<"F9", "EOT">>],
             [front |-> <<"[)>", "RS", "0", "6", "GS">>, sep |-> "F7", end |-> <<>>],
             [front |-> <<"GS">>, sep |-> "GS", end |-> <<"GS">>]}
Coded(fields, e) ==
    e.front \o FlattenSeq([i \in DOMAIN fields |-> fields[i][1] \o fields[i][2] \o (IF i < Len(fields) THEN <<e.sep>> ELSE <<>>)]) \o e.end

AskLabel == Ask("bag", Labels0 \X Envelope)

InStock == <<"R", "C", "1">> :> "p1"

LcscBag == <<"{", "qty", ":", "2", "5", ",", "pm", ":", "R", "C", "1", ",", "pc", ":", "}">>
TwentyFive == DecimalOf(FALSE, <<"2", "5">>, 0)

Printed0(fields, k) == {fields[i][2] : i \in {x \in DOMAIN fields : fields[x][1] = k}}
AllFields(fields, f) == /\ DOMAIN f = {x[1] : x \in Range(fields)}
                        /\ \A k \in DOMAIN f : Printed0(fields, k) = {f[k]}
PartOfBag(fields, r) ==
    /\ r.match = IF Printed0(fields, <<"1", "P">>) = {} THEN {} ELSE {"p1"}
    /\ r.match # {} => r.mpn = <<"R", "C", "1">>
    /\ r.quantity = IF Printed0(fields, <<"Q">>) = {} THEN Zero ELSE TwentyFive

\* Every field of a label is read, in whatever order they are printed and however the
\* scanner spells the separators, and the part it is of is the one with its number
\* (ParseEIGP, Scan); so is an LCSC code with the same number.
BagsRead ==
    Asked("bag") =>
        LET fields == case.in[1]
            code == Coded(fields, case.in[2])
        IN  /\ AllFields(fields, ParseEIGP(code)) /\ PartOfBag(fields, Scan(code, InStock))
            /\ Scan(LcscBag, InStock) = [mpn |-> <<"R", "C", "1">>, quantity |-> TwentyFive, order |-> <<>>, match |-> {"p1"}]

\* "A bare scan (no envelope) is treated as an MPN itself" (scan.go). Not one that begins
\* like a field: 1PS76SB40 is scanned as S76SB40.
BareIsMPN ==
    Asked("bag") => \A m \in {<<"P", "I", "C">>, <<"1", "P", "S", "7">>} : Scan(m, InStock).mpn = m

ChooserExact == LoopCloses /\ KeywordsFind /\ ProposalsGrounded /\ OffersEnd
BagsExact    == BagsRead

AskChooser == AskLoop \/ AskSuggest \/ AskTagging \/ AskLabel
=============================================================================
