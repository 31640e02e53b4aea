------------------------------ MODULE Matching ------------------------------
\* Which part a BOM line means, and what building boards takes from stock
\* (handlers/projects.go, repository/catalog.go, picklist/picklist.go). Operators only.
\*
\* A line has an ipn, an mpn, a sku, a value, a footprint and words; "" and <<>> are
\* blank. The catalogue is a record of the parts there are, with what names them: names[p]
\* is the name of p, ipns, mpns, skus and tags are sets of pairs <<text, part>>.
\* Queries that take one row of several without an order may answer any of them, so
\* each rung is the set of parts it may answer.
EXTENDS Sorting, FiniteSets

CONSTANTS NoPart,
          InFootprint       \* pairs <<package, footprint>>: the one is written in the other

Unsaid(text) == text = ""

Named(pairs, text) == {x[2] : x \in {y \in pairs : y[1] = text}}

FindPartByIPN(db, ipn)         == Named(db.ipns, ipn)
FindPartByMPN(db, mpn)         == Named(db.mpns, mpn)
FindPartBySupplierSKU(db, sku) == Named(db.skus, sku)

\* Parts of that name whose package is in the footprint; a part without a package
\* fits any footprint, and is taken only when no part with one does.
FindPartByValueFootprint(db, value, footprint) ==
    LET fits   == {p \in DOMAIN db.names :
                     /\ db.names[p].name = value
                     /\ \/ Unsaid(footprint) \/ Unsaid(db.names[p].package)
                        \/ <<db.names[p].package, footprint>> \in InFootprint}
        strict == {p \in fits : ~Unsaid(db.names[p].package)}
    IN  IF strict # {} THEN strict ELSE fits

\* A line's identity across boards: its MPN, else value and footprint, else none.
matchKey(l) == IF ~Unsaid(l.mpn) THEN <<"mpn", l.mpn>>
               ELSE IF Unsaid(l.value) THEN <<>> ELSE <<"vf", l.value, l.footprint>>

\* The tags a line names: those spelled by up to four whole words in a row.
tagsNamedBy(words, tags) ==
    LET Spelled(i, j) == FlattenSeq(SubSeq(words, i, j))
        runs == {x \in (DOMAIN words) \X (DOMAIN words) : x[1] <= x[2] /\ x[2] < x[1] + 4}
    IN  {t \in tags : \E x \in runs : Spelled(x[1], x[2]) = t}

\* A tagMatch that takes any part of a tag the line names.
BadTagMatch(db, words) ==
    UNION {Named(db.tags, t) : t \in tagsNamedBy(words, {x[1] : x \in db.tags})}

\* One tag on one part, or no answer.
tagMatch(db, words) ==
    LET named == tagsNamedBy(words, {x[1] : x \in db.tags})
        parts == UNION {Named(db.tags, t) : t \in named}
    IN  IF Cardinality(named) = 1 /\ Cardinality(parts) = 1 THEN parts ELSE {}

ProjectMatch(rules, key) == IF key \in DOMAIN rules THEN {rules[key]} \ {NoPart} ELSE {}

\* The rungs, best first, with what each may answer.
Rungs(db, rules, l) ==
    << <<"fbpn", IF Unsaid(l.ipn) THEN {} ELSE FindPartByIPN(db, l.ipn)>>,
       <<"project", ProjectMatch(rules, matchKey(l))>>,
       <<"mpn", IF Unsaid(l.mpn) THEN {} ELSE FindPartByMPN(db, l.mpn)>>,
       <<"supplier", IF Unsaid(l.sku) THEN {} ELSE FindPartBySupplierSKU(db, l.sku)>>,
       <<"value_footprint", IF Unsaid(l.value) THEN {}
                            ELSE FindPartByValueFootprint(db, l.value, l.footprint)>>,
       <<"tag", tagMatch(db, l.words)>> >>

\* The matches a line may get when every lookup is answered: a part and the rung that
\* named it. Projects has what becomes of lookups that fail.
resolveMatch(db, rules, l) ==
    LET rungs == Rungs(db, rules, l)
        hits  == {i \in DOMAIN rungs : rungs[i][2] # {}}
        first == CHOOSE i \in hits : \A j \in hits : i <= j
    IN  IF hits = {} THEN {[part |-> NoPart, kind |-> "none"]}
        ELSE {[part |-> p, kind |-> rungs[first][1]] : p \in rungs[first][2]}

-----------------------------------------------------------------------------
\* The pick list. lots is a sequence of records [part, name, quantity, bin], each with
\* something in it; a bin is the rank of its name, 0 for none, and name that of the part's.

Required(lines, part, copies, qty) ==
    FoldLeft(LAMBDA n, l : IF l.part = part THEN n + l.quantity * copies * qty ELSE n, 0, lines)

\* The parts of the lines, each once.
Order(lines) ==
    LET Seen(acc, l) == IF l.part = NoPart \/ Contains(acc, l.part) THEN acc ELSE Append(acc, l.part)
    IN  FoldLeft(Seen, <<>>, lines)

Available(lots, part) == FoldLeft(LAMBDA n, l : IF l.part = part THEN n + l.quantity ELSE n, 0, lots)

\* A Pull that takes the whole need from every lot.
BadPull(lots, part, need) ==
    LET of == SelectSeq([i \in DOMAIN lots |-> i], LAMBDA i : lots[i].part = part)
    IN  [left |-> 0,
         entries |-> [k \in DOMAIN of |->
             [lot |-> of[k], part |-> part, name |-> lots[of[k]].name, bin |-> lots[of[k]].bin,
              quantity |-> IF lots[of[k]].quantity < need THEN lots[of[k]].quantity ELSE need]]]

\* Lot after lot until the need is met: what is left of it, and what each lot gives.
Pull(lots, part, need) ==
    LET Take(s, i) ==
            LET pull == IF lots[i].quantity < s.left THEN lots[i].quantity ELSE s.left
            IN  IF lots[i].part # part \/ s.left <= 0 THEN s
                ELSE [left |-> s.left - pull,
                      entries |-> Append(s.entries, [lot |-> i, part |-> part, name |-> lots[i].name,
                                                  bin |-> lots[i].bin, quantity |-> pull])]
    IN  FoldLeft(Take, [left |-> need, entries |-> <<>>], [i \in DOMAIN lots |-> i])

\* Named bins in order, then what is in none; in one bin by the name of the part.
WalkLess(a, b) == \/ a.bin # 0 /\ (b.bin = 0 \/ a.bin < b.bin)
                  \/ a.bin = b.bin /\ a.name < b.name

Compute(lines, givenCopies, givenQty, lots) ==
    LET copies == IF givenCopies < 1 THEN 1 ELSE givenCopies
        qty    == IF givenQty < 1 THEN 1 ELSE givenQty
        lost   == SelectSeq(lines, LAMBDA l : l.part = NoPart)
        order  == Order(lines)
        Need(p) == Required(lines, p, copies, qty)
        short  == SelectSeq(order, LAMBDA p : Available(lots, p) < Need(p))
        pulls  == FlattenSeq([i \in DOMAIN order |-> Pull(lots, order[i], Need(order[i])).entries])
    IN  [entries    |-> StableSort(WalkLess, pulls),
         shortfalls |-> [i \in DOMAIN short |-> [part |-> short[i], short |-> Need(short[i]) - Available(lots, short[i])]],
         unmatched  |-> [i \in DOMAIN lost |-> lost[i].quantity * copies * qty]]
=============================================================================
