----------------------------- MODULE Catalogue -----------------------------
\* Parts, their tags, the categories they are filed under, and the backup of the three
\* (repository/tag.go, category.go, part.go, backup.go and their handlers).
\*
\* Requests run at the same time and the database is READ COMMITTED. A merge of tags
\* and a replacement of a part's tags are transactions of several statements, whose
\* rows others see when it commits and whose locks make others wait; a names-to-ids
\* lookup, the count before a category's delete and the read before a part's write are
\* statements of their own.
EXTENDS Naturals, FiniteSets

CONSTANTS Parts, Tags, Cats,          \* ids, each created at most once
          Slugs, Names,               \* what tags fold to, what categories are called
          Procs,                      \* requests, each served once
          Unused, Gone, NoCat         \* a row not there yet, one deleted, filed nowhere

VARIABLES part,       \* the category of each part
          tag,        \* the slug of each tag
          cat,        \* the name of each category
          links,      \* part_tags
          proc,
          file,       \* the last complete export, if there is one
          owed, home, \* what requests asked for: a part's tags, and its category
          crossed     \* in which respect two requests have met in the middle of one

vars == <<part, tag, cat, links, proc, file, owed, home, crossed>>

Live(table) == {x \in DOMAIN table : table[x] \notin {Unused, Gone}}
Fresh(table) == {x \in DOMAIN table : table[x] = Unused}
Tagged(slugs) == {t \in Live(tag) : tag[t] \in slugs}
On(t) == {l \in links : l[2] = t}
Of(q) == {l \in links : l[1] = q}

NoFile == [part |-> <<>>, tag |-> <<>>, cat |-> <<>>, links |-> {}]

NoProc == [pc |-> "idle", part |-> Unused, from |-> Unused, into |-> Unused, ids |-> {}, add |-> FALSE,
           ins |-> {}, del |-> {}, cat |-> NoCat, carry |-> FALSE, copy |-> NoFile]
Done   == [NoProc EXCEPT !.pc = "done"]

Init ==
    /\ part \in [Parts -> {Unused, NoCat}] /\ tag = [t \in Tags |-> Unused]
    /\ cat \in [Cats -> {Unused} \cup Names] /\ (\A c, d \in Cats : cat[c] = cat[d] => c = d \/ cat[c] = Unused)
    /\ links = {} /\ proc = [p \in Procs |-> NoProc]
    /\ file = {} /\ owed = {} /\ home = [q \in Parts |-> NoCat] /\ crossed = {}

AtPc(p, pc)    == proc[p].pc = pc
Goto(p, pc)    == proc' = [proc EXCEPT ![p].pc = pc]
Finish(p)      == proc' = [proc EXCEPT ![p] = Done]
Others(p)      == Procs \ {p}
TagsUnchanged  == UNCHANGED <<tag, links, owed>>
PartsUnchanged == UNCHANGED <<part, home>>

\* The order of an export, and one that reads what refers before what it refers to.
BadBackupTables(i) == <<"part_tags", "parts", "tags", "categories">>[i]
backupTables(i)    == <<"categories", "tags", "parts", "part_tags">>[i]

\* Rows added to a table that an open export has read.
At(table)   == CHOOSE i \in 1 .. 4 : backupTables(i) = table
Tables      == {backupTables(i) : i \in 1 .. 4}
Adds(table) == IF \E p \in Procs : proc[p].pc \in Tables /\ At(proc[p].pc) > At(table)
               THEN {"export"} ELSE {}

\* Transactions that have read links of these, and have not ended.
Touched(p, changed) ==
    IF \E o \in Others(p), l \in changed :
           \/ proc[o].pc \in {"delete", "merged"} /\ l[2] \in {proc[o].from, proc[o].into}
           \/ proc[o].pc \in {"insert", "replaced"} /\ l[1] = proc[o].part
    THEN {"tags"} ELSE {}

\* Whom a statement waits for: it inserts links, whose tag must stay and whose key must
\* be free, or it deletes links, or a tag that nobody may have linked to meanwhile.
ToInsert(p) ==
    IF AtPc(p, "copy") THEN {<<l[1], proc[p].into>> : l \in On(proc[p].from)} \ links
    ELSE IF AtPc(p, "insert") THEN {<<proc[p].part, t>> : t \in proc[p].ids} \ (links \ proc[p].del)
    ELSE {}
Doomed(o) == IF AtPc(o, "merged") THEN {proc[o].from} ELSE {}
InsertWaits(p, new) ==
    {o \in Others(p) : \E l \in new : l[2] \in Doomed(o) \/ l \in proc[o].ins \/ l \in proc[o].del}
DeleteWaits(p, gone) == {o \in Others(p) : gone \cap proc[o].del # {}}
DropWaits(p, t) ==
    {o \in Others(p) : t \in Doomed(o) \/ \E l \in proc[o].ins \cup proc[o].del : l[2] = t}

Waits(p) ==
    {o \in Others(p) :
        \/ proc[p].pc \in {"copy", "insert"} /\ o \in InsertWaits(p, ToInsert(p))
        \/ AtPc(p, "replace") /\ o \in DeleteWaits(p, {l \in Of(proc[p].part) : l[2] \notin proc[p].ids})
        \/ AtPc(p, "delete") /\ o \in DropWaits(p, proc[p].from)}

\* The database ends one of a circle of waiting transactions.
Deadlock(p) ==
    /\ \E o \in Waits(p) : p \in Waits(o) \/ \E x \in Waits(o) : p \in Waits(x)
    /\ Finish(p) /\ TagsUnchanged /\ PartsUnchanged /\ UNCHANGED <<cat, file, crossed>>

-----------------------------------------------------------------------------
\* Tags.

InsertTag(t, s) == Tagged({s}) = {} /\ tag' = [tag EXCEPT ![t] = s]

CreateTag(p) ==
    /\ AtPc(p, "idle") /\ Finish(p)
    /\ \E t \in Fresh(tag), s \in Slugs : InsertTag(t, s) /\ crossed' = crossed \cup Adds("tags")
    /\ PartsUnchanged /\ UNCHANGED <<cat, links, file, owed>>

\* Never onto another tag's slug: that is what a merge is for.
RenameTag(t, s) == Tagged({s}) \subseteq {t} /\ tag' = [tag EXCEPT ![t] = s]

UpdateTag(p) ==
    /\ AtPc(p, "idle") /\ Finish(p)
    /\ \E t \in Live(tag), s \in Slugs : DropWaits(p, t) = {} /\ RenameTag(t, s)
    /\ PartsUnchanged /\ UNCHANGED <<cat, links, file, owed, crossed>>

\* By cascade, every part's link to it.
DropTag(t) == tag' = [tag EXCEPT ![t] = Gone] /\ links' = links \ On(t)

DeleteTag(p) ==
    /\ AtPc(p, "idle") /\ Finish(p)
    /\ \E t \in Live(tag) :
           /\ DropWaits(p, t) = {} /\ DropTag(t)
           /\ owed' = {l \in owed : l[2] # t}
           /\ crossed' = crossed \cup Touched(p, On(t))
    /\ PartsUnchanged /\ UNCHANGED <<cat, file>>

\* Merge: is `into` there; copy the links; delete `from`; commit.
BeginMerge(p) ==
    /\ AtPc(p, "idle")
    /\ \E from, into \in Live(tag) :
           /\ from # into
           /\ proc' = [proc EXCEPT ![p] = [NoProc EXCEPT !.pc = "copy", !.from = from, !.into = into]]
    /\ TagsUnchanged /\ PartsUnchanged /\ UNCHANGED <<cat, file, crossed>>

BadCopied(p) == {}
Copied(p)    == ToInsert(p)

CopyLinks(p) ==
    /\ AtPc(p, "copy") /\ Waits(p) = {}
    /\ IF Copied(p) # {} /\ proc[p].into \notin Live(tag) THEN Finish(p)
       ELSE proc' = [proc EXCEPT ![p].pc = "delete", ![p].ins = Copied(p)]
    /\ TagsUnchanged /\ PartsUnchanged /\ UNCHANGED <<cat, file, crossed>>

DropMerged(p) ==
    /\ AtPc(p, "delete") /\ Waits(p) = {}
    /\ IF proc[p].from \notin Live(tag) THEN Finish(p)
       ELSE proc' = [proc EXCEPT ![p].pc = "merged", ![p].del = On(proc[p].from)]
    /\ TagsUnchanged /\ PartsUnchanged /\ UNCHANGED <<cat, file, crossed>>

CommitMerge(p) ==
    /\ AtPc(p, "merged") /\ Finish(p)
    /\ LET from == proc[p].from
           moved == {l \in owed : l[2] = from}
       IN  /\ links' = (links \ proc[p].del) \cup proc[p].ins
           /\ tag' = [tag EXCEPT ![from] = Gone]
           /\ owed' = (owed \ moved) \cup {<<l[1], proc[p].into>> : l \in moved}
           /\ crossed' = crossed \cup Touched(p, proc[p].del \cup proc[p].ins)
    /\ PartsUnchanged /\ UNCHANGED <<cat, file>>

\* The tags of a part: SetPartTags looks the part up, AddPartTags does not.
BeginPartTags(p) ==
    /\ AtPc(p, "idle")
    /\ \E q \in Live(part), add \in BOOLEAN, slugs \in SUBSET Slugs :
           /\ add => slugs # {}
           /\ proc' = [proc EXCEPT ![p] = [NoProc EXCEPT !.pc = "resolve", !.part = q,
                                           !.add = add, !.ids = slugs]]
    /\ TagsUnchanged /\ PartsUnchanged /\ UNCHANGED <<cat, file, crossed>>

\* Names become tags, made where there are none, in a transaction of its own.
Resolve(p) ==
    /\ AtPc(p, "resolve")
    /\ LET missing == proc[p].ids \ {tag[t] : t \in Live(tag)}
       IN  \E new \in [missing -> Fresh(tag)] :
               /\ \A r, s \in missing : new[r] = new[s] => r = s
               /\ \A s \in proc[p].ids, o \in Others(p) : Tagged({s}) \cap Doomed(o) = {}
               /\ tag' = [t \in Tags |-> IF \E s \in missing : new[s] = t
                                         THEN CHOOSE s \in missing : new[s] = t ELSE tag[t]]
               /\ crossed' = crossed \cup IF missing = {} THEN {} ELSE Adds("tags")
    /\ proc' = [proc EXCEPT ![p].pc = IF @ = "resolve" /\ proc[p].add THEN "insert" ELSE "replace",
                            ![p].ids = {t \in Tags : tag'[t] \in proc[p].ids}]
    /\ PartsUnchanged /\ UNCHANGED <<cat, links, file, owed>>

BadUnnamed(p) == {}
Unnamed(p)    == {l \in Of(proc[p].part) : l[2] \notin proc[p].ids}

ReplaceTags(p) ==
    /\ AtPc(p, "replace") /\ Waits(p) = {}
    /\ proc' = [proc EXCEPT ![p].pc = "insert", ![p].del = Unnamed(p)]
    /\ TagsUnchanged /\ PartsUnchanged /\ UNCHANGED <<cat, file, crossed>>

\* A part or a tag that is gone makes the statement fail, and the transaction with it.
InsertTags(p) ==
    /\ AtPc(p, "insert") /\ Waits(p) = {}
    /\ IF ToInsert(p) # {} /\ ~(proc[p].part \in Live(part) /\ proc[p].ids \subseteq Live(tag)) THEN Finish(p)
       ELSE proc' = [proc EXCEPT ![p].pc = "replaced", ![p].ins = ToInsert(p)]
    /\ TagsUnchanged /\ PartsUnchanged /\ UNCHANGED <<cat, file, crossed>>

CommitTags(p) ==
    /\ AtPc(p, "replaced") /\ Finish(p)
    /\ LET asked == {<<proc[p].part, t>> : t \in proc[p].ids \cap Live(tag)}
           had   == {l \in owed : l[1] = proc[p].part}
       IN  /\ links' = (links \ proc[p].del) \cup proc[p].ins
           /\ owed' = IF proc[p].part \notin Live(part) THEN owed
                      ELSE (IF proc[p].add THEN owed ELSE owed \ had) \cup asked
           /\ crossed' = crossed \cup Touched(p, proc[p].del \cup proc[p].ins)
    /\ PartsUnchanged /\ UNCHANGED <<tag, cat, file>>

Carried(q, slugs) == {l \in Of(q) : l[2] \in Tagged(slugs)}

RemovePartTags(p) ==
    /\ AtPc(p, "idle") /\ Finish(p)
    /\ \E q \in Live(part), slugs \in SUBSET Slugs \ {{}} :
           LET gone == Carried(q, slugs)
           IN  /\ DeleteWaits(p, gone) = {}
               /\ links' = links \ gone
               /\ owed' = {l \in owed : ~(l[1] = q /\ l[2] \in Tagged(slugs))}
               /\ crossed' = crossed \cup Touched(p, gone)
    /\ PartsUnchanged /\ UNCHANGED <<tag, cat, file>>

-----------------------------------------------------------------------------
\* Categories and parts.

\* Get or create, by name; the index refuses a second of the same name.
InsertCategory(c, n) == (\A d \in Live(cat) : cat[d] # n) /\ cat' = [cat EXCEPT ![c] = n]

CreateCategory(p) ==
    /\ AtPc(p, "idle") /\ Finish(p)
    /\ \E c \in Fresh(cat), n \in Names : InsertCategory(c, n) /\ crossed' = crossed \cup Adds("categories")
    /\ TagsUnchanged /\ PartsUnchanged /\ UNCHANGED file

RenameCategory(c, n) == (\A d \in Live(cat) \ {c} : cat[d] # n) /\ cat' = [cat EXCEPT ![c] = n]

UpdateCategory(p) ==
    /\ AtPc(p, "idle") /\ Finish(p)
    /\ \E c \in Live(cat), n \in Names : RenameCategory(c, n)
    /\ TagsUnchanged /\ PartsUnchanged /\ UNCHANGED <<file, crossed>>

\* Only an empty category may go: the count, then the delete.
BadEmpty(c) == TRUE
Empty(c)    == \A q \in Live(part) : part[q] # c

CountParts(p) ==
    /\ AtPc(p, "idle")
    /\ \E c \in Live(cat) : /\ Empty(c)
                            /\ proc' = [proc EXCEPT ![p] = [NoProc EXCEPT !.pc = "drop", !.cat = c]]
    /\ TagsUnchanged /\ PartsUnchanged /\ UNCHANGED <<cat, file, crossed>>

DropCategory(c) ==
    /\ cat' = IF c \in Live(cat) THEN [cat EXCEPT ![c] = Gone] ELSE cat
    /\ part' = [q \in Parts |-> IF part[q] = c THEN NoCat ELSE part[q]]

DeleteCategory(p) ==
    /\ AtPc(p, "drop") /\ Finish(p) /\ DropCategory(proc[p].cat)
    /\ TagsUnchanged /\ UNCHANGED <<file, home, crossed>>

\* A part is filed while somebody has found its category empty.
Filed(c) == IF \E o \in Procs : AtPc(o, "drop") /\ proc[o].cat = c THEN {"filing"} ELSE {}

StorePart(q, c) == part' = [part EXCEPT ![q] = c]

CreatePart(p) ==
    /\ AtPc(p, "idle") /\ Finish(p)
    /\ \E q \in Fresh(part), c \in Live(cat) \cup {NoCat} :
           /\ StorePart(q, c) /\ home' = [home EXCEPT ![q] = c]
           /\ crossed' = crossed \cup Filed(c) \cup Adds("parts")
    /\ TagsUnchanged /\ UNCHANGED <<cat, file>>

\* UpdatePart and EnrichPart read the whole part, and write it whole with what they
\* were given; a patch may leave the category out, and an enrichment gives none.
Mentioned == {[cat |-> c, carry |-> FALSE] : c \in Live(cat) \cup {NoCat}}
Patches(q) == Mentioned \cup {[cat |-> part[q], carry |-> TRUE]}

Hold(p, q, patch) ==
    proc' = [proc EXCEPT ![p] = [NoProc EXCEPT !.pc = "write", !.part = q,
                                               !.cat = patch.cat, !.carry = patch.carry]]

ReadPart(p) ==
    /\ AtPc(p, "idle")
    /\ \E q \in Live(part) : \E patch \in Patches(q) : Hold(p, q, patch)
    /\ TagsUnchanged /\ PartsUnchanged /\ UNCHANGED <<cat, file, crossed>>

WritePart(p) ==
    /\ AtPc(p, "write") /\ Finish(p)
    /\ LET q == proc[p].part
           c == proc[p].cat
       IN  IF q \in Live(part) /\ c \in Live(cat) \cup {NoCat}
           THEN /\ StorePart(q, c)
                /\ home' = IF proc[p].carry THEN home ELSE [home EXCEPT ![q] = c]
                /\ crossed' = crossed \cup Filed(c)
                              \cup IF \E o \in Others(p) : AtPc(o, "write") /\ proc[o].part = q
                                   THEN {"filing"} ELSE {}
           ELSE PartsUnchanged /\ UNCHANGED crossed
    /\ TagsUnchanged /\ UNCHANGED <<cat, file>>

DropPart(q) == part' = [part EXCEPT ![q] = Gone] /\ links' = links \ Of(q)

DeletePart(p) ==
    /\ AtPc(p, "idle") /\ Finish(p)
    /\ \E q \in Live(part) :
           /\ \A o \in Others(p) : \A l \in proc[o].ins \cup proc[o].del : l[1] # q
           /\ DropPart(q)
           /\ owed' = {l \in owed : l[1] # q} /\ home' = [home EXCEPT ![q] = NoCat]
           /\ crossed' = crossed \cup Touched(p, Of(q))
    /\ UNCHANGED <<tag, cat, file>>

-----------------------------------------------------------------------------
\* Backup. ExportAll reads table after table, what is referred to first.

Rows(table) == [x \in Live(table) |-> table[x]]

Read(copy, table) ==
    IF table = "categories" THEN [copy EXCEPT !.cat = Rows(cat)]
    ELSE IF table = "tags" THEN [copy EXCEPT !.tag = Rows(tag)]
    ELSE IF table = "parts" THEN [copy EXCEPT !.part = Rows(part)]
    ELSE [copy EXCEPT !.links = links]

BeginExport(p) ==
    /\ AtPc(p, "idle")
    /\ proc' = [proc EXCEPT ![p] = [NoProc EXCEPT !.pc = backupTables(2), !.copy = Read(NoFile, backupTables(1))]]
    /\ TagsUnchanged /\ PartsUnchanged /\ UNCHANGED <<cat, file, crossed>>

ExportTable(p) ==
    /\ proc[p].pc \in {backupTables(2), backupTables(3)}
    /\ proc' = [proc EXCEPT ![p].pc = backupTables(At(@) + 1), ![p].copy = Read(@, proc[p].pc)]
    /\ TagsUnchanged /\ PartsUnchanged /\ UNCHANGED <<cat, file, crossed>>

FinishExport(p) ==
    /\ AtPc(p, backupTables(4)) /\ Finish(p)
    /\ file' = {Read(proc[p].copy, backupTables(4))}
    /\ TagsUnchanged /\ PartsUnchanged /\ UNCHANGED <<cat, crossed>>

\* Every reference of these rows is to one of them: what the deferred foreign keys ask.
Closed(f) ==
    /\ \A q \in DOMAIN f.part : f.part[q] \in DOMAIN f.cat \cup {NoCat}
    /\ \A l \in f.links : l[1] \in DOMAIN f.part /\ l[2] \in DOMAIN f.tag

\* ON CONFLICT DO NOTHING: not over a row of the same id, nor one of the same name.
Absent(table, rows) ==
    {x \in DOMAIN rows : x \notin Live(table) /\ rows[x] \notin {table[y] : y \in Live(table)}}
Added(table, rows, new) == [x \in Live(table) \cup new |-> IF x \in new THEN rows[x] ELSE table[x]]

Imported(f, replace) ==
    IF replace THEN f
    ELSE [part |-> Added(part, f.part, DOMAIN f.part \ Live(part)),
          tag |-> Added(tag, f.tag, Absent(tag, f.tag)),
          cat |-> Added(cat, f.cat, Absent(cat, f.cat)), links |-> links \cup f.links]

Table(old, rows) ==
    [x \in DOMAIN old |-> IF x \in DOMAIN rows THEN rows[x] ELSE IF old[x] = Unused THEN Unused ELSE Gone]

\* One transaction, after those that have written rows; with mode=replace it locks the
\* tables. All of it or nothing.
ImportAll(p) ==
    /\ AtPc(p, "idle") /\ Finish(p)
    /\ \A o \in Procs : proc[o].ins = {} /\ proc[o].del = {} /\ Doomed(o) = {}
    /\ \E f \in file, replace \in BOOLEAN :
           LET all == Imported(f, replace)
           IN  /\ Closed(all)
               /\ part' = Table(part, all.part) /\ tag' = Table(tag, all.tag)
               /\ cat' = Table(cat, all.cat) /\ links' = all.links
               /\ owed' = IF replace THEN f.links ELSE owed \cup (f.links \ links)
               /\ home' = [q \in Parts |-> IF q \in Live(part') /\ (replace \/ q \notin Live(part))
                                           THEN part'[q] ELSE home[q]]
    /\ crossed' = crossed \cup IF \E o \in Others(p) : proc[o].pc \notin {"idle", "done"}
                               THEN {"tags", "filing", "export"} ELSE {}
    /\ UNCHANGED file

-----------------------------------------------------------------------------
Request(p) ==
    \/ CreateTag(p) \/ UpdateTag(p) \/ DeleteTag(p)
    \/ BeginMerge(p) \/ CopyLinks(p) \/ DropMerged(p) \/ CommitMerge(p)
    \/ BeginPartTags(p) \/ Resolve(p) \/ ReplaceTags(p) \/ InsertTags(p) \/ CommitTags(p) \/ RemovePartTags(p)
    \/ CreateCategory(p) \/ UpdateCategory(p) \/ CountParts(p) \/ DeleteCategory(p)
    \/ CreatePart(p) \/ ReadPart(p) \/ WritePart(p) \/ DeletePart(p)
    \/ BeginExport(p) \/ ExportTable(p) \/ FinishExport(p) \/ ImportAll(p)
    \/ Deadlock(p)

Next == \E p \in Procs : Request(p)

Spec == Init /\ [][Next]_vars

-----------------------------------------------------------------------------
\* A part has exactly the tags that were put on it and not taken off, under the name
\* the last merge gave them, unless a request changed a link that an open merge, or an
\* open replacement of the part's tags, had read: then a link can go with the merged
\* tag, or a replacement leaves more than "exactly these names" (SetPartTags).
TagsAsAsked == "tags" \notin crossed => links = owed

\* A part is in the category it was last filed under ("parts are never silently
\* orphaned", CategoryRepo.Delete), unless it was filed between the count and the
\* delete of that category, or between another request's read and write of the part.
FiledAsAsked == "filing" \notin crossed => \A q \in Live(part) : part[q] = home[q]

\* No interleaving of requests changes what a part was given, but those.
KeptAsAsked == TagsAsAsked /\ FiledAsAsked

\* An export can be restored: every row it has refers to rows it has, whatever was
\* changed and deleted while it was read, unless rows were added.
ExportRestores == "export" \notin crossed => \A f \in file : Closed(f)
=============================================================================
