------------------------------ MODULE Listing ------------------------------
\* The lists parts are found in and the numbers of the dashboard (repository/part.go,
\* part_search.go, part_parametric.go and stats.go). Operators only.
\*
\* db is the sequence of all parts in the order of their names, each [id, base, texts,
\* category, package, tags, params, minimum, reference, stock]: base is the part it is
\* a variant of, "" for none, texts are what free text is looked for in, stock is the
\* sum of its lots. Lots and BOM lines are those of Matching.
EXTENDS Quantities, Matching

CONSTANTS ListCap,      \* how many parts ListParts answers
          FoundCap,     \* how many SearchParametric does when it is not told
          LowCap        \* how many ListLowStock does

Variants(db, id) == SelectSeq(db, LAMBDA v : v.base = id)
Summed(s)        == FoldLeft(LAMBDA n, p : n + p.stock, 0, s)

\* A template has what its variants have, one level deep.
TotalStock(db, p) == Summed(SelectSeq(db, LAMBDA q : q.id = p.id \/ q.base = p.id))

\* Name, keywords, own number, manufacturers' numbers and tags.
partSearchClause(p, search) == search = <<>> \/ \E t \in p.texts : Within(search, t)

\* o has the fields top, category, tag and search, "" for any.
ListParts(db, o) ==
    LET Shown(p) == /\ o.top => p.base = ""
                    /\ o.category \in {"", p.category}
                    /\ o.tag # "" => o.tag \in p.tags
                    /\ partSearchClause(p, o.search)
        found == SelectSeq(db, Shown)
        Row(p) == [part |-> p, total |-> TotalStock(db, p), variants |-> Len(Variants(db, p.id))]
    IN  [i \in 1 .. (IF Len(found) < ListCap THEN Len(found) ELSE ListCap) |-> Row(found[i])]

\* A SearchParametric that reads no more rows than it may answer.
BadSearchParametric(db, o) ==
    LET Row(p)  == [part |-> p, matched |-> matchParameters(p.params, o.parameter, o.value)]
        kept    == SelectSeq(db, LAMBDA p : Within(o.package, p.package) /\ o.category \in {"", p.category} /\ partSearchClause(p, o.search))
        most    == IF o.limit <= 0 THEN FoundCap ELSE o.limit
        read    == SubSeq(kept, 1, IF Len(kept) < most THEN Len(kept) ELSE most)
    IN  SelectSeq([i \in DOMAIN read |-> Row(read[i])], LAMBDA r : o.value = <<>> \/ r.matched # <<>>)

\* o has category, search, package, parameter, value and limit. The value is compared
\* row by row, and rows are read until there are enough.
SearchParametric(db, o) ==
    LET Kept(p) == /\ o.category \in {"", p.category}
                   /\ Within(o.package, p.package)
                   /\ partSearchClause(p, o.search)
                   /\ o.parameter # <<>> => \E i \in DOMAIN p.params : Within(o.parameter, p.params[i].name)
        Row(p)  == [part |-> p, matched |-> matchParameters(p.params, o.parameter, o.value)]
        kept    == SelectSeq(db, Kept)
        rows    == SelectSeq([i \in DOMAIN kept |-> Row(kept[i])], LAMBDA r : o.value = <<>> \/ r.matched # <<>>)
        most    == IF o.limit <= 0 THEN FoundCap ELSE o.limit
    IN  SubSeq(rows, 1, IF Len(rows) < most THEN Len(rows) ELSE most)

\* A leaf that somebody keeps and whose stock is at or under its minimum.
Low(db, p) == p.minimum > 0 /\ ~p.reference /\ Variants(db, p.id) = <<>> /\ p.stock <= p.minimum

\* The most depleted first.
ListLowStock(db) ==
    LET low == StableSort(LAMBDA a, b : a.stock - a.minimum < b.stock - b.minimum, SelectSeq(db, LAMBDA p : Low(db, p)))
    IN  SubSeq(low, 1, IF Len(low) < LowCap THEN Len(low) ELSE LowCap)

\* A boardFill that looks at every line by itself.
BadBoardFill(lines, shelf) ==
    [lines     |-> Len(lines),
     short     |-> Cardinality({l \in ToSet(lines) : l.part # NoPart /\ l.quantity > shelf[l.part]}),
     unmatched |-> Len(SelectSeq(lines, LAMBDA l : l.part = NoPart))]

\* How far one of a board is from being built. shelf is the stock of each part.
boardFill(lines, shelf) ==
    LET needed == {l.part : l \in ToSet(lines)} \ {NoPart}
    IN  [lines     |-> Len(lines),
         short     |-> Cardinality({p \in needed : Required(lines, p, 1, 1) > shelf[p]}),
         unmatched |-> Len(SelectSeq(lines, LAMBDA l : l.part = NoPart))]

\* The numbers at the top of the dashboard.
Get(db, lines) ==
    LET Count(Of(_)) == Len(SelectSeq(db, Of))
    IN  [parts     |-> Count(LAMBDA p : p.base = ""),
         variants  |-> Count(LAMBDA p : p.base # ""),
         low       |-> Count(LAMBDA p : Low(db, p)),
         units     |-> Summed(db),
         reference |-> Count(LAMBDA p : p.reference),
         unmatched |-> Len(SelectSeq(lines, LAMBDA l : l.part = NoPart))]
=============================================================================
