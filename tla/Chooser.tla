------------------------------ MODULE Chooser ------------------------------
\* A part as KiCad's symbol chooser sees it (kicad/httplib/mapping.go and source.go), the
\* symbols and footprints proposed for one (repository/kicad_suggest.go) and the tags
\* (tags/dictionary.go). Operators only.
\*
\* A part is a record; symbol and footprint are "" when nobody has mapped it, value is
\* the parameter its category calls for ([value, units], or none), mps its manufacturer
\* parts in order. A word is a pair <<what, spelling>>.
EXTENDS Quantities

CONSTANTS UnmappedMarker,
          StartsWith,       \* pairs <<text, prefix>>
          ReadsAs           \* what a text of tokens is called as one string

\* A passive shows its value on the drawing, anything else its name.
valueFor(p) == IF p.value = {} THEN p.name
               ELSE ReadsAs[LET v == CHOOSE x \in p.value : TRUE IN fuseSIPrefix(v.value, v.units)]

mpnFor(p)          == IF p.mps # <<>> /\ p.mps[1].mpn # "" THEN p.mps[1].mpn ELSE p.primaryMPN
manufacturerFor(p) == IF p.mps # <<>> /\ p.mps[1].manufacturer # "" THEN p.mps[1].manufacturer ELSE p.primaryManufacturer
datasheetFor(p)    == LET has == SelectSeq(p.mps, LAMBDA x : x.datasheet # "")
                      IN  IF has = <<>> THEN "" ELSE has[1].datasheet

\* A keywordsFor that leaves the order numbers out.
BadKeywordsFor(p) == p.keywords \o p.package \o p.tags

\* Everything a part is known by, each word once whatever its case.
keywordsFor(p) ==
    LET said == p.keywords \o p.package \o p.ipn \o p.mpnWords \o p.tags
                \o FlattenSeq([i \in DOMAIN p.mps |-> p.mps[i].words \o FlattenSeq(p.mps[i].skus)])
        Add(out, w) == IF \E i \in DOMAIN out : out[i][1] = w[1] THEN out ELSE Append(out, w)
    IN  FoldLeft(Add, <<>>, said)

\* A MapPart that does not say the internal number.
BadMapPart(p) ==
    [symbol |-> p.symbol, name |-> p.name, keywords |-> keywordsFor(p),
     fields |-> <<<<"value", valueFor(p)>>, <<"mpn", mpnFor(p)>>, <<"footprint", p.footprint>>>>]

\* What the chooser is given of a part; a field without a value is not a field. The
\* names are the ones the BOM reads back.
MapPart(p) ==
    LET fields == <<<<"value", valueFor(p)>>, <<"footprint", p.footprint>>, <<"datasheet", datasheetFor(p)>>,
                    <<"mpn", mpnFor(p)>>, <<"manufacturer", manufacturerFor(p)>>, <<"fbpn", p.ipnText>>>>
    IN  [symbol   |-> p.symbol,
         name     |-> IF p.symbol = "" THEN UnmappedMarker ELSE p.name,
         keywords |-> keywordsFor(p),
         fields   |-> SelectSeq(fields, LAMBDA f : f[1] = "value" \/ f[2] # "")]

-----------------------------------------------------------------------------
\* Proposals. A library id is <<library, name>>; one without a library is not one.

\* The kinds that are proposed a symbol for what they are: <<word, footprint prefix, symbol>>.
passives == <<<<"resistor", "R_", "R">>, <<"capacitor", "C_", "C">>, <<"inductor", "L_", "L">>, <<"ferrite", "L_", "FerriteBead">>,
              <<"led", "LED_", "LED">>, <<"schottky", "D_", "D_Schottky">>, <<"zener", "D_", "D_Zener">>, <<"diode", "D_", "D">>,
              <<"fuse", "Fuse_", "Fuse">>, <<"crystal", "Crystal_", "Crystal">>>>

\* A passiveFor that looks for "diode" first.
BadPassiveFor(category) ==
    LET rows == SelectSeq(<<passives[8]>> \o passives, LAMBDA r : r[1] \in category)
    IN  IF rows = <<>> THEN {} ELSE {[prefix |-> rows[1][2], symbol |-> <<"Device", rows[1][3]>>]}

\* The first kind whose word the category's name contains. A category is the set of the
\* words in it.
passiveFor(category) ==
    LET rows == SelectSeq(passives, LAMBDA r : r[1] \in category)
    IN  IF rows = <<>> THEN {} ELSE {[prefix |-> rows[1][2], symbol |-> <<"Device", rows[1][3]>>]}

\* A SuggestKicad that looks at the boards last.
BadSuggestKicad(part, lines, library) ==
    [symbols |-> [i \in DOMAIN lines |-> [id |-> lines[i].symbol, confidence |-> 100]], footprints |-> <<>>]

\* Boards the part is on, newest first; symbols named after its number, shortest first,
\* five of them; for what passiveFor knows the plain symbol and the footprints of its size.
\* An id is proposed once, by the first that has it.
SuggestKicad(part, lines, library) ==
    LET Upto5(s)  == SubSeq(s, 1, IF Len(s) < 5 THEN Len(s) ELSE 5)
        Says(s, c) == [i \in DOMAIN s |-> [id |-> s[i], confidence |-> c]]
        named     == Upto5(SelectSeq(library.symbols, LAMBDA x : part.mpn # "" /\ <<x[2], part.mpn>> \in StartsWith))
        plain     == SetToSeq(passiveFor(part.category))
        sized     == IF part.size = "" \/ plain = <<>> THEN <<>>
                     ELSE Upto5(SelectSeq(library.footprints,
                              LAMBDA x : <<x[2], <<plain[1].prefix, part.size>>>> \in StartsWith))
        Add(out, x) == IF x.id[1] = "" \/ \E i \in DOMAIN out : out[i].id = x.id THEN out ELSE Append(out, x)
        Once(s)   == FoldLeft(Add, <<>>, s)
    IN  [symbols    |-> Once(Says([i \in DOMAIN lines |-> lines[i].symbol], 100)
                             \o [i \in DOMAIN named |-> [id |-> named[i], confidence |-> IF named[i][2] = part.mpn THEN 90 ELSE 70]]
                             \o Says([i \in DOMAIN plain |-> plain[i].symbol], 80)),
         footprints |-> Once(Says([i \in DOMAIN lines |-> lines[i].footprint], 100) \o Says(sized, 75))]

-----------------------------------------------------------------------------
\* Tags. An entry of the dictionary is [tags, prefixes, allOf].

matches(e, p) ==
    \/ \E i \in DOMAIN p.mpns, x \in e.prefixes : <<p.mpns[i], x>> \in StartsWith
    \/ e.allOf # {} /\ e.allOf \subseteq p.words

\* A Suggest that compares spellings.
BadSuggest(dictionary, p) ==
    LET hits == SelectSeq(dictionary, LAMBDA e : matches(e, p))
        Fresh0(e) == SelectSeq(e.tags, LAMBDA t : t \notin p.existing)
        new  == SelectSeq(hits, LAMBDA e : Fresh0(e) # <<>>)
    IN  [i \in DOMAIN new |-> Fresh0(new[i])]

\* The tags of the entries that know the part, without those it has in any spelling.
Suggest(dictionary, p) ==
    LET hits == SelectSeq(dictionary, LAMBDA e : matches(e, p))
        Fresh0(e) == SelectSeq(e.tags, LAMBDA t : t[1] \notin {x[1] : x \in p.existing})
        new  == SelectSeq(hits, LAMBDA e : Fresh0(e) # <<>>)
    IN  [i \in DOMAIN new |-> Fresh0(new[i])]
=============================================================================
