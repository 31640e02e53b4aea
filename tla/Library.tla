------------------------------ MODULE Library ------------------------------
\* The uploaded copy of KiCad's libraries: imports in batches, drawings that are parsed
\* when first asked for and kept, and what is renamed and removed
\* (repository/kicad_library.go, handlers/kicad_library.go).
\*
\* A source is a version; Base[v] is the name of the symbol it extends, in the same
\* library, or NoName when it has its own graphics. A drawing is of one source.
EXTENDS Naturals, FiniteSets

CONSTANTS Libs, ItemNames, Versions, Base, NoName, NoSource,
          Scans,        \* ids of imports
          Readers,      \* requests for a drawing, each served once
          MaxDepth,     \* of a chain of symbols that extend one another
          MaxChanges,   \* bound: uploads, renames and removals
          BatchMax      \* bound: items of an upload

VARIABLES items,        \* what is stored, by library and name
          finished,     \* imports that were finished
          reader,
          changes,      \* how many there were
          raced,        \* items changed, or that extend one that was, while drawn or since
          cut           \* items drawn as far as could be read: the read of an ancestor failed

vars == <<items, finished, reader, changes, raced, cut>>

Ids == Libs \X ItemNames

\* No drawing yet, or the source it shows.
Row(source, drawing, scan) == [source |-> source, drawing |-> drawing, scan |-> scan]

Idle == [pc |-> "idle"]
Over == [pc |-> "done"]

\* Nothing stored, or what one import of a library left.
Init == /\ \E lib \in Libs, scan \in Scans, ids \in SUBSET ItemNames : \E v \in [ids -> Versions] :
               items = [i \in {lib} \X ids |-> Row(v[i[2]], {}, scan)]
        /\ finished = {} /\ reader = [r \in Readers |-> Idle]
        /\ changes = 0 /\ raced = {} /\ cut = {}

Stored == DOMAIN items

\* The source of an item, when it has one.
Source(i) == IF i \in Stored THEN items[i].source ELSE NoSource

\* What each source extends in a library, and where the chain from it ends in at most so
\* many steps.
Above(lib) == [v \in Versions |-> Source(<<lib, Base[v]>>)]
Ends(up) ==
    LET End[n \in 0 .. MaxDepth] ==
            [v \in Versions |-> IF n = 0 \/ Base[v] = NoName \/ up[v] = NoSource THEN v ELSE End[n - 1][up[v]]]
    IN  End

\* The item whose graphics a source takes, as far as it is there.
resolveSymbolExtends(lib, v) == Ends(Above(lib))[MaxDepth][v]

Change == changes < MaxChanges /\ changes' = changes + 1

\* What a change of rows makes of the drawings kept of others that extend one of their
\* names, and of drawings in the making.
Extends(i)     == items[i].drawing # {} /\ items[i].source # NoSource /\ Base[items[i].source] # NoName
Raced(ids)     == {i \in Stored \ ids : Extends(i) /\ \E j \in ids : j[1] = i[1]}
Overtaken(ids) == [r \in Readers |-> IF reader[r].pc \notin {"idle", "done"} /\ \E j \in ids : j[1] = reader[r].id[1]
                                      THEN [reader[r] EXCEPT !.raced = TRUE] ELSE reader[r]]

Without(ids) == [i \in Stored \ ids |-> items[i]]

-----------------------------------------------------------------------------
\* Imports.

BadMerged(old, v, scan, overwrite) ==
    IF overwrite THEN [old EXCEPT !.source = IF v = NoSource THEN @ ELSE v, !.scan = scan] ELSE old

\* What an upload makes of a row that is there: left as it is, or replaced. An upload
\* without a source keeps the old one; the drawing goes unless the source is the same.
Merged(old, v, scan, overwrite) ==
    IF overwrite THEN Row(IF v = NoSource THEN old.source ELSE v, IF v = old.source THEN old.drawing ELSE {}, scan)
    ELSE old

\* One batch, of one item or several, is one implicit transaction.
UpsertBatch(scan, batch, overwrite) ==
    items' = [i \in Stored \cup DOMAIN batch |->
                 IF i \notin DOMAIN batch THEN items[i]
                 ELSE IF i \notin Stored THEN Row(batch[i], {}, scan)
                 ELSE Merged(items[i], batch[i], scan, overwrite)]

UploadBatch ==
    /\ Change
    /\ \E scan \in Scans, overwrite \in BOOLEAN, ids \in {s \in SUBSET Ids : Cardinality(s) \in 1 .. BatchMax} :
       \E batch \in [ids -> Versions \cup {NoSource}] :
           LET touched == {i \in ids : i \notin Stored \/ (overwrite /\ batch[i] # items[i].source)}
           IN  /\ UpsertBatch(scan, batch, overwrite)
               /\ raced' = (raced \ touched) \cup Raced(touched)
               /\ cut' = cut \ touched
               /\ reader' = Overtaken(touched)
    /\ UNCHANGED finished

\* Provenance of the import; nothing is removed.
FinishScan ==
    /\ \E scan \in Scans \ finished : finished' = finished \cup {scan}
    /\ UNCHANGED <<items, reader, changes, raced, cut>>

\* Libraries that are listed: they have an item of a finished import.
Libraries == {i[1] : i \in {j \in Stored : items[j].scan \in finished}}

-----------------------------------------------------------------------------
\* Renames and removals.

\* Items whose name is taken in the other library stay where they are.
Moving(from, to) == {i \in Stored : i[1] = from /\ <<to, i[2]>> \notin Stored}

RenameLibrary ==
    /\ Change
    /\ \E from, to \in Libs :
           LET moving == Moving(from, to)
               there  == {<<to, i[2]>> : i \in moving}
               drawn  == {i \in moving : Extends(i)}
           IN  /\ from # to /\ moving # {}
               /\ items' = [i \in (Stored \ moving) \cup there |->
                               IF i \in there THEN items[<<from, i[2]>>] ELSE items[i]]
               /\ raced' = ((raced \cup Raced(moving \cup there)) \ moving)
                           \cup {<<to, i[2]>> : i \in drawn \cup (raced \cap moving)}
               /\ cut' = (cut \ moving) \cup {<<to, i[2]>> : i \in cut \cap moving}
               /\ reader' = Overtaken(moving \cup there)
    /\ UNCHANGED finished

DeleteItems ==
    /\ Change
    /\ \E lib \in Libs, names \in {ItemNames} \cup {{n} : n \in ItemNames} :
           LET gone == {i \in Stored : i[1] = lib /\ i[2] \in names}
           IN  /\ gone # {} /\ items' = Without(gone)
               /\ raced' = (raced \ gone) \cup Raced(gone) /\ cut' = cut \ gone /\ reader' = Overtaken(gone)
    /\ UNCHANGED finished

-----------------------------------------------------------------------------
\* Drawings.

Read(r) == reader[r].source

\* A drawing that is kept is answered; when there is none, or it cannot be read, the
\* source is read.
GetDrawing(r) ==
    /\ reader[r].pc = "idle"
    /\ \E i \in Stored : \E found \in {{}, items[i].drawing} :
           reader' = [reader EXCEPT ![r] =
               IF found # {} THEN Over
               ELSE [pc |-> "source", id |-> i, source |-> NoSource, up |-> 0, raced |-> FALSE, cut |-> FALSE]]
    /\ UNCHANGED <<items, finished, changes, raced, cut>>

ReadSource(r) ==
    /\ reader[r].pc = "source"
    /\ LET v == Source(reader[r].id)
       IN  reader' = [reader EXCEPT ![r] = IF v = NoSource THEN Over ELSE [@ EXCEPT !.pc = "extends", !.source = v]]
    /\ UNCHANGED <<items, finished, changes, raced, cut>>

\* One ancestor after another, each a statement of its own.
ReadBase(r) ==
    /\ reader[r].pc = "extends"
    /\ LET up == Source(<<reader[r].id[1], Base[Read(r)]>>)
       IN  reader' = IF reader[r].up = MaxDepth \/ Base[Read(r)] = NoName \/ up = NoSource
                     THEN [reader EXCEPT ![r].pc = "save"]
                     ELSE [reader EXCEPT ![r].source = up, ![r].up = @ + 1]
    /\ UNCHANGED <<items, finished, changes, raced, cut>>

\* An ancestor that cannot be read is taken for one that is not there.
MissBase(r) ==
    /\ reader[r].pc = "extends" /\ reader[r].up < MaxDepth /\ Base[Read(r)] # NoName
    /\ reader' = [reader EXCEPT ![r].pc = "save", ![r].cut = TRUE]
    /\ UNCHANGED <<items, finished, changes, raced, cut>>

\* By library and name, whatever its source is by now.
SaveDrawing(r) ==
    /\ reader[r].pc = "save"
    /\ LET i == reader[r].id
       IN  /\ items' = IF i \in Stored THEN [items EXCEPT ![i].drawing = {Read(r)}] ELSE items
           /\ raced' = IF i \in Stored /\ reader[r].raced THEN raced \cup {i} ELSE raced \ {i}
           /\ cut'   = IF i \in Stored /\ reader[r].cut THEN cut \cup {i} ELSE cut \ {i}
    /\ reader' = [reader EXCEPT ![r] = Over]
    /\ UNCHANGED <<finished, changes>>

\* Its own source cannot be read or not be drawn, or the drawing is not kept.
GiveUp(r) ==
    /\ reader[r].pc \in {"source", "save"}
    /\ reader' = [reader EXCEPT ![r] = Over]
    /\ UNCHANGED <<items, finished, changes, raced, cut>>

Draw(r) == GetDrawing(r) \/ ReadSource(r) \/ ReadBase(r) \/ MissBase(r) \/ SaveDrawing(r) \/ GiveUp(r)

Next ==
    \/ UploadBatch \/ FinishScan \/ RenameLibrary \/ DeleteItems
    \/ \E r \in Readers : Draw(r)

Spec == Init /\ [][Next]_vars

-----------------------------------------------------------------------------
Current(i) == items[i].drawing # {} => items[i].drawing = {resolveSymbolExtends(i[1], items[i].source)}

\* A drawing that is kept is the one the stored sources give: a replaced source takes
\* its drawing with it ("a stale drawing would render the old geometry forever",
\* UpsertBatch). Not so of an item that was changed while it was drawn, for the drawing
\* is saved by name, nor of one that extends another that was changed since, nor of one
\* whose ancestor could not be read when it was drawn.
DrawingsCurrent == \A i \in Stored \ (raced \cup cut) : Current(i)

\* "A missing ancestor is not an error: the caller renders what it has"
\* (handlers/kicad_library.go:195-197), so that only what is missing leaves a drawing
\* short. It does not hold: any error of the ancestor's read is taken for a missing one,
\* and what is drawn then is kept, for everybody, until the source is replaced.
OnlyMissingCutsShort == \A i \in Stored \ raced : Current(i)

\* An import shows when it is finished and not before ("the scan is not visible as
\* current until FinishScan runs", UpsertBatch). It does not hold: what an import
\* replaces leaves the list with its library until the import is finished.
ImportsShowWhenFinished == [][UploadBatch => Libraries' = Libraries]_vars
=============================================================================
