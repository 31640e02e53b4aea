---------------------------- MODULE Enrichment ----------------------------
\* Looking a part number up at distributors and writing what they say onto the part
\* (providers/digikey, mouser and nexar, handlers/enrich.go, repository/catalog.go and
\* part.go). Operators only.
\*
\* A name that is compared without regard to case is a pair <<what, spelling>>. A value
\* is a text of Quantities, "" and <<>> are blank. What a provider says of a part is an
\* offer; the records below name its fields.
EXTENDS Quantities

CONSTANTS Junk,             \* what the parameters nobody stores are called
          Long,             \* texts over 60 bytes
          SupplierKey,      \* a seller's stable key by its spelling
          Major,            \* spellings of the sellers whose offers are stored
          TypeSaid          \* the type a description ends with, of those whose last clause names one

-----------------------------------------------------------------------------
\* The providers.

\* A bearer token, minted again near its end or for another client. A cache is
\* [token, client, until]; next is what the provider would mint now.
accessToken(cache, creds, now, next) ==
    IF creds.client = "" \/ creds.secret = "" THEN [ok |-> FALSE, cache |-> cache]
    ELSE IF cache.token # "" /\ cache.client = creds.client /\ now < cache.until
         THEN [ok |-> TRUE, cache |-> cache]
         ELSE IF next.ok THEN [ok |-> TRUE, cache |-> [token |-> next.token, client |-> creds.client, until |-> next.until]]
              ELSE [ok |-> FALSE, cache |-> cache]

\* A pickMatch that takes the first result.
BadPickMatch(mpn, exact, products) ==
    IF products # <<>> THEN {products[1]} ELSE IF exact # <<>> THEN {exact[1]} ELSE {}

\* An exact result, else one whose number is the same but for punctuation and case
\* (the first half of the pair), else whatever came first.
pickMatch(mpn, exact, products) ==
    LET same == SelectSeq(products, LAMBDA p : p.mpn[1] = mpn[1])
        all  == exact \o same \o products
    IN  IF all = <<>> THEN {} ELSE {all[1]}

Stated(attributes) == SelectSeq(attributes, LAMBDA a : a.name # <<"", "">> /\ a.value \notin {<<>>, <<"-">>})
PackageOf(attributes, called) ==
    LET said == SelectSeq(attributes, LAMBDA a : a.name[1] \in called)
    IN  IF said = <<>> THEN <<>> ELSE said[1].value

\* Every packaging of a product is an order number of its own.
mapProduct(p) ==
    LET sold == SelectSeq(p.variations, LAMBDA v : v.sku # "")
        said == PackageOf(Stated(p.attributes), {"package / case", "supplier device package"})
        reel == SelectSeq(sold, LAMBDA v : v.packaging # <<>>)
    IN  [source |-> <<"digikey">>, mpn |-> p.mpn, description |-> p.description, manufacturer |-> p.manufacturer,
         category |-> p.category, datasheet |-> p.datasheet, parameters |-> Stated(p.attributes),
         package |-> IF said # <<>> \/ reel = <<>> THEN said ELSE reel[1].packaging,
         suppliers |-> [i \in DOMAIN sold |-> [name |-> <<"digikey", "Digi-Key">>, sku |-> sold[i].sku, moq |-> Zero,
                                               packaging |-> sold[i].packaging, url |-> p.url, prices |-> sold[i].prices]],
         alternatives |-> <<>>]

\* Texts that are not numbers: digits and separators stay.
Priced == NumberTokens \cup {".", ",", "-"}

\* A parsePrice to which every comma groups thousands.
BadParsePrice(s) ==
    LET t == SelectSeq(s, LAMBDA c : c \in Priced \ {","})
    IN  {x.value : x \in {y \in splitNumber(t) : y.rest = <<>>}}

\* The rightmost of two kinds of separator is the decimal one; of commas alone, one
\* with at most two digits behind it.
parsePrice(s) ==
    LET t      == SelectSeq(s, LAMBDA c : c \in Priced)
        At0(c) == {i \in DOMAIN t : t[i] = c}
        end(c) == IF At0(c) = {} THEN 0 ELSE CHOOSE i \in At0(c) : \A j \in At0(c) : j <= i
        front  == CHOOSE i \in At0(",") : \A j \in At0(",") : i <= j
        Point  == ReplaceAt(t, front, ".")
        Without(u, c) == SelectSeq(u, LAMBDA x : x # c)
        n == IF end(".") > 0 /\ end(",") > end(".")
             THEN [i \in DOMAIN Without(t, ".") |->
                      LET u == Without(t, ".")
                      IN  IF u[i] = "," /\ \A j \in 1 .. i - 1 : u[j] # "," THEN "." ELSE u[i]]
             ELSE IF end(",") > 0 /\ end(".") = 0 /\ Len(t) - end(",") <= 2 /\ Cardinality(At0(",")) = 1 THEN Point
             ELSE Without(t, ",")
    IN  {x.value : x \in {y \in splitNumber(n) : y.rest = <<>>}}

\* A count has its thousands separated at most.
parseQuantity(s) ==
    {x.value : x \in {y \in splitNumber(SelectSeq(s, LAMBDA c : c # ",")) : y.rest = <<>> /\ ~y.value.neg /\ y.value # Zero}}

\* Prices come as texts; one that cannot be read is left out, not zero.
mapPart(p, currency) ==
    LET read == SelectSeq(p.breaks, LAMBDA b : parsePrice(b.price) # {})
        Currency(b) == IF b.currency # "" THEN b.currency ELSE IF currency # "" THEN currency ELSE "USD"
    IN  [source |-> <<"mouser">>, mpn |-> p.mpn, description |-> p.description, manufacturer |-> p.manufacturer,
         category |-> p.category, datasheet |-> p.datasheet, parameters |-> Stated(p.attributes),
         package |-> PackageOf(Stated(p.attributes), {"package / case", "supplier device package", "package"}),
         suppliers |-> IF p.sku = "" THEN <<>>
             ELSE <<[name |-> <<"mouser", "Mouser">>, sku |-> p.sku, packaging |-> <<>>, url |-> p.url,
                     moq |-> IF parseQuantity(p.min) = {} THEN Zero ELSE CHOOSE q \in parseQuantity(p.min) : TRUE,
                     prices |-> [i \in DOMAIN read |->
                         [quantity |-> read[i].quantity, currency |-> Currency(read[i]),
                          price |-> CHOOSE x \in parsePrice(read[i].price) : TRUE]]]>>,
         alternatives |-> <<>>]

\* Nexar's values say their units; it names sellers, and up to twelve similar parts.
nexarPart(p) ==
    [source |-> <<"nexar">>, mpn |-> p.mpn, description |-> p.description, manufacturer |-> p.manufacturer,
     category |-> p.category, datasheet |-> p.datasheet, parameters |-> p.attributes,
     package |-> PackageOf(p.attributes, {"case/package", "case / package", "package / case", "package"}),
     suppliers |-> FlattenSeq([i \in DOMAIN p.sellers |->
         LET sold == SelectSeq(p.sellers[i].offers, LAMBDA o : o.sku # "")
         IN  [k \in DOMAIN sold |-> [name |-> p.sellers[i].name, sku |-> sold[k].sku, moq |-> sold[k].moq,
                                     packaging |-> <<>>, url |-> "", prices |-> sold[k].prices]]]),
     alternatives |-> SelectSeq(SubSeq(p.similar, 1, IF Len(p.similar) < 12 THEN Len(p.similar) ELSE 12),
                                LAMBDA a : a # <<"", "">>)]

-----------------------------------------------------------------------------
\* One part out of several answers.

\* The members of a sequence whose key none before them has.
Unioned(s, Key(_)) ==
    LET at == SelectSeq([i \in DOMAIN s |-> i], LAMBDA i : \A j \in 1 .. i - 1 : Key(s[j]) # Key(s[i]))
    IN  [i \in DOMAIN at |-> s[at[i]]]

\* What is blank of the fields an offer says once.
BlankOf == [mpn |-> <<"", "">>, package |-> <<>>, description |-> "", manufacturer |-> "", category |-> "", datasheet |-> ""]

\* A mergeEnriched in which the last provider to say something wins.
BadMergeEnriched(offers) ==
    LET All(f)  == FlattenSeq([i \in DOMAIN offers |-> offers[i][f]])
    IN  [f \in DOMAIN offers[1] |->
            CASE f \in DOMAIN BlankOf -> offers[Len(offers)][f]
              [] f = "source" -> All(f)
              [] f = "parameters" -> Unioned(All(f), LAMBDA p : p.name[1])
              [] f = "suppliers" -> Unioned(All(f), LAMBDA s : <<s.name[1], s.sku>>)
              [] f = "alternatives" -> Unioned(All(f), LAMBDA a : a[1])]

\* The first to say something wins, field by field and parameter by parameter.
mergeEnriched(offers) ==
    LET First(f) == LET says == SelectSeq(offers, LAMBDA o : o[f] # BlankOf[f])
                    IN  IF says = <<>> THEN offers[1][f] ELSE says[1][f]
        All(f)   == FlattenSeq([i \in DOMAIN offers |-> offers[i][f]])
    IN  [f \in DOMAIN offers[1] |->
            CASE f = "source" -> All(f)
              [] f = "parameters" -> Unioned(SelectSeq(All(f), LAMBDA p : p.name[1] # ""), LAMBDA p : p.name[1])
              [] f = "suppliers" -> Unioned(All(f), LAMBDA s : <<s.name[1], s.sku>>)
              [] f = "alternatives" -> Unioned(All(f), LAMBDA a : a[1])
              [] OTHER -> First(f)]

\* The providers that are asked, in order, and what comes of it. Each is
\* [name, enabled, configured, error, answer], an answer one offer or none.
enrichAll(providers, want) ==
    LET asked == SelectSeq(providers, LAMBDA p : /\ p.configured
                                                 /\ IF want = {} THEN p.enabled ELSE p.name \in want)
        heard == SelectSeq(asked, LAMBDA p : ~p.error /\ p.answer # {})
    IN  IF heard # <<>>
        THEN [kind |-> "found", part |-> mergeEnriched([i \in DOMAIN heard |-> CHOOSE o \in heard[i].answer : TRUE])]
        ELSE [kind |-> IF \E i \in DOMAIN asked : asked[i].error THEN "error" ELSE "none", part |-> {}]

\* A lookup: a cached answer, or what the providers say, which is then cached. The
\* cache is what it holds for this number, one offer or none.
Enrich(cache, providers, want, refresh) ==
    LET fresh == enrichAll(providers, want)
        any   == \E i \in DOMAIN providers : providers[i].configured
    IN  IF ~refresh /\ want = {} /\ cache # {} THEN [kind |-> "found", part |-> CHOOSE o \in cache : TRUE, cache |-> cache]
        ELSE IF ~any THEN [kind |-> "unavailable", part |-> {}, cache |-> cache]
        ELSE [kind |-> fresh.kind, part |-> fresh.part, cache |-> IF fresh.kind = "found" THEN {fresh.part} ELSE cache]

\* Parameters worth storing, each with its unit in its own column.
cleanParameters(params) ==
    LET good == SelectSeq(params, LAMBDA p : p.value # <<>> /\ p.value \notin Long /\ p.name[1] \notin Junk)
    IN  [i \in DOMAIN good |->
            LET split == peelUnit(ohmsRepl(good[i].value))
            IN  [name |-> good[i].name, value |-> split.value, units |-> split.units]]

\* A deriveName that does not wait for the units to be split off.
BadDeriveName(o, params) ==
    LET value == SelectSeq(o.parameters, LAMBDA p : p.name[1] \in {"resistance", "capacitance", "inductance"})
    IN  IF value # <<>> /\ o.category # "" THEN <<o.category, value[1].value>> ELSE <<"mpn", o.mpn>>

\* A passive is called by its value, anything else by its number; what has none by the
\* type its description ends with, else by its category. The first half of the pair says
\* which it is.
deriveName(o, params) ==
    LET value == SelectSeq(params, LAMBDA p : p.name[1] \in {"resistance", "capacitance", "inductance"})
    IN  IF value # <<>> /\ o.category \in {"resistor", "capacitor", "inductor", "ferrite"}
        THEN <<o.category, value[1].value \o value[1].units>>
        ELSE IF o.mpn # <<"", "">> THEN <<"mpn", o.mpn>>
        ELSE IF o.description \in DOMAIN TypeSaid THEN <<"type", TypeSaid[o.description]>>
        ELSE IF o.category # "" THEN <<"category", o.category>> ELSE <<"description", o.description>>

-----------------------------------------------------------------------------
\* Onto the part. db is what is stored of one part and its first number: package,
\* description, params (by template, [value, units]), templates (the unit each was
\* first stored with), brand, datasheet and offers (by supplier key and order number,
\* [packaging, moq, url, prices], prices by <<quantity, currency>>).

Put(f, k, v) == [x \in DOMAIN f \cup {k} |-> IF x = k THEN v ELSE f[x]]

\* A template keeps the unit it was made with; the part has its own.
SetParameter(db, p) ==
    [db EXCEPT !.templates = IF p.name \in DOMAIN db.templates THEN db.templates ELSE Put(db.templates, p.name, p.units),
               !.params    = Put(db.params, p.name, [value |-> p.value, units |-> p.units])]

\* What a reader is shown: the part's unit, else the template's.
GetParameters(db) ==
    [n \in DOMAIN db.params |-> [db.params[n] EXCEPT !.units = IF @ # <<>> THEN @ ELSE db.templates[n]]]

Currency(b) == IF b.currency = "" THEN "USD" ELSE b.currency

\* A CreateSupplierPart that adds to the prices there are.
BadCreateSupplierPart(db, key, s) ==
    LET prices == IF key \in DOMAIN db.offers THEN db.offers[key].prices ELSE <<>>
        Priced1(f, b) == Put(f, <<b.quantity, Currency(b)>>, b.price)
    IN  [db EXCEPT !.offers = Put(@, key, [packaging |-> s.packaging, moq |-> s.moq, url |-> s.url,
                                           prices |-> FoldLeft(Priced1, prices, s.prices)])]

\* An order number is written over: what it does not say stays, prices are replaced
\* when it says any.
CreateSupplierPart(db, key, s) ==
    LET old == IF key \in DOMAIN db.offers THEN db.offers[key] ELSE [packaging |-> <<>>, moq |-> Zero, url |-> "", prices |-> <<>>]
        Priced1(f, b) == Put(f, <<b.quantity, Currency(b)>>, b.price)
    IN  [db EXCEPT !.offers = Put(@, key,
            [packaging |-> IF s.packaging # <<>> THEN s.packaging ELSE old.packaging,
             moq       |-> IF s.moq # Zero THEN s.moq ELSE old.moq,
             url       |-> IF s.url # "" THEN s.url ELSE old.url,
             prices    |-> IF s.prices = <<>> THEN old.prices ELSE FoldLeft(Priced1, <<>>, s.prices)])]

UpdateManufacturerPart(db, brand, datasheet) == [db EXCEPT !.brand = brand, !.datasheet = datasheet]

\* An applyEnrichment that takes the brand from the provider.
BadApplyEnrichment(db, o) == [db EXCEPT !.brand = o.manufacturer, !.datasheet = o.datasheet, !.package = o.package]

\* All that an answer writes; the brand that is stored stays, and is only written with
\* a datasheet.
applyEnrichment(db, o) ==
    LET named   == [db EXCEPT !.package     = IF o.package # <<>> THEN o.package ELSE @,
                              !.description = IF o.description # "" THEN o.description ELSE @]
        specced == FoldLeft(SetParameter, named, cleanParameters(o.parameters))
        branded == IF o.datasheet = "" THEN specced
                   ELSE UpdateManufacturerPart(specced, IF db.brand # "" THEN db.brand ELSE o.manufacturer, o.datasheet)
        sold    == SelectSeq(o.suppliers, LAMBDA s : s.name[2] \in Major)
    IN  FoldLeft(LAMBDA d, s : CreateSupplierPart(d, <<SupplierKey[s.name[2]], s.sku>>, s), branded, sold)
=============================================================================
