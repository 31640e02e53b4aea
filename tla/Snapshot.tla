------------------------------ MODULE Snapshot ------------------------------
\* The catalogue as KiCad sees it: built from the database on a timer, and served
\* whole until the next one is there (kicad/httplib/snapshot.go, server.go, and
\* handlers/kicad_httplib_source.go). part and cat are the tables, which requests
\* change meanwhile (Catalogue).
EXTENDS FiniteSets

CONSTANTS Parts, Cats, Unused, Gone, NoCat, Uncategorized

VARIABLES part, cat,    \* the category of each part, the name of each category
          snap,         \* what is served: categories listed, and parts by category
          build,        \* the snapshot in the making
          moved         \* parts that the snapshot served may be wrong about

vars == <<snap, build, moved>>

Alive(table) == {x \in DOMAIN table : table[x] \notin {Unused, Gone}}

Empty   == [cats |-> {}, under |-> <<>>]
NoBuild == [pc |-> "idle", cats |-> {}, rows |-> {}, under |-> <<>>, moved |-> {}]

\* Before the first snapshot an empty one is served.
Init == snap = Empty /\ build = NoBuild /\ moved = Parts

CategoryOf(q) == IF part[q] = NoCat THEN Uncategorized ELSE part[q]

-----------------------------------------------------------------------------
\* Refresh, one at a time. Each of its reads is a statement of its own.

ReadCategories ==
    /\ build.pc = "idle"
    /\ build' = [NoBuild EXCEPT !.pc = "list", !.cats = Alive(cat)]
    /\ UNCHANGED <<snap, moved>>

\* Every part, with or without a category.
ReadIdentities ==
    /\ build.pc = "list"
    /\ build' = [build EXCEPT !.pc = "detail", !.rows = Alive(part)]
    /\ UNCHANGED <<snap, moved>>

\* The category is the detail's, not that of the list.
ReadDetail ==
    /\ build.pc = "detail"
    /\ \E q \in build.rows :
           build' = [build EXCEPT !.rows = @ \ {q},
                                  !.under = IF q \in Alive(part)
                                            THEN [x \in DOMAIN @ \cup {q} |-> IF x = q THEN CategoryOf(q) ELSE @[x]]
                                            ELSE @]
    /\ UNCHANGED <<snap, moved>>

\* One unreadable part does not empty the library.
SkipDetail ==
    /\ build.pc = "detail"
    /\ \E q \in build.rows : build' = [build EXCEPT !.rows = @ \ {q}, !.moved = @ \cup {q}]
    /\ UNCHANGED <<snap, moved>>

\* Without the categories or the list there is no new snapshot; the old one stays.
FailRefresh == build.pc = "list" /\ build' = NoBuild /\ UNCHANGED <<snap, moved>>

BadListed(cats, under) == {c \in cats : \E q \in DOMAIN under : under[q] = c}

\* Categories that have a part, and one for the parts that have none.
Listed(cats, under) == {c \in cats \cup {Uncategorized} : \E q \in DOMAIN under : under[q] = c}

Swap ==
    /\ build.pc = "detail" /\ build.rows = {}
    /\ snap' = [cats |-> Listed(build.cats, build.under), under |-> build.under]
    /\ moved' = build.moved /\ build' = NoBuild

Refresh == ReadCategories \/ ReadIdentities \/ ReadDetail \/ SkipDetail \/ FailRefresh \/ Swap

\* Parts that change while a snapshot is built or served.
Watch ==
    LET changed == {q \in Parts : part'[q] # part[q]}
    IN  /\ build' = IF build.pc = "idle" THEN build ELSE [build EXCEPT !.moved = @ \cup changed]
        /\ moved' = moved \cup changed /\ UNCHANGED snap

-----------------------------------------------------------------------------
\* What is answered, always with a 200: an unknown category is an empty list.
handleCategories         == snap.cats
handlePartsByCategory(c) == {q \in DOMAIN snap.under : snap.under[q] = c}

\* KiCad's user finds every part under its category in the chooser, and no part that is
\* gone, whatever was filed, renamed and deleted since, but for the parts that changed
\* since the snapshot was begun or could not be read; and no listed category is a dead
\* end.
CatalogueServed ==
    /\ \A c \in handleCategories : handlePartsByCategory(c) # {}
    /\ \A q \in Parts \ moved, c \in Cats \cup {Uncategorized} :
           (c \in handleCategories /\ q \in handlePartsByCategory(c)) <=> (q \in Alive(part) /\ c = CategoryOf(q))
=============================================================================
