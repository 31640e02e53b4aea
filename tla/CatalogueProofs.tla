-------------------------- MODULE CatalogueProofs --------------------------
(***************************************************************************)
(* What is stored of parts, tags and categories is what was asked for, an  *)
(* export of it can be restored, and what KiCad is served of it and of the *)
(* uploaded libraries is current, for any number of rows and of requests   *)
(* at the same time. First comes what every step keeps of the tables: rows *)
(* refer to rows, in the tables and in what open transactions hold. On it  *)
(* rest the tags, the filing of parts, the exports and the snapshot, each  *)
(* with what a request has read and nobody has changed since. The library  *)
(* shares no state with them; its drawings rest on the function that       *)
(* follows chains of symbols, which is shown to exist first.               *)
(***************************************************************************)
EXTENDS MCServices, FiniteSetTheorems, WellFoundedInduction, TLAPS

-----------------------------------------------------------------------------
\* What the tables and requests of the catalogue keep.

Pairs == Parts \X Tags

PartTables == UNION {[S -> Cats \cup {NoCat}] : S \in SUBSET Parts}
TagTables  == UNION {[S -> Slugs] : S \in SUBSET Tags}
CatTables  == UNION {[S -> Names] : S \in SUBSET Cats}

Files == [part : PartTables, tag : TagTables, cat : CatTables, links : SUBSET Pairs]

ProcRows ==
    [pc : {"idle", "done", "copy", "delete", "merged", "resolve", "replace", "insert", "replaced",
           "drop", "write", "tags", "parts", "part_tags"},
     part : Parts \cup {Unused}, from : Tags \cup {Unused}, into : Tags \cup {Unused},
     ids : SUBSET (Tags \cup Slugs), add : BOOLEAN, ins : SUBSET Pairs, del : SUBSET Pairs,
     cat : Cats \cup {NoCat}, carry : BOOLEAN, copy : Files]

TablesTyped ==
    /\ part \in [Parts -> Cats \cup {NoCat, Unused, Gone}] /\ tag \in [Tags -> Slugs \cup {Unused, Gone}]
    /\ cat \in [Cats -> Names \cup {Unused, Gone}] /\ links \in SUBSET Pairs /\ file \in SUBSET Files
    /\ home \in [Parts -> Cats \cup {NoCat}]

ProcsTyped == proc \in [Procs -> ProcRows]

\* What a request holds at each of its statements.
StageOf(r) ==
    /\ r.pc \in {"copy", "delete", "merged"} => r.from \in Tags /\ r.into \in Tags /\ r.from # r.into
    /\ r.pc = "resolve" => r.part \in Parts /\ r.ids \subseteq Slugs
    /\ r.pc \in {"replace", "insert", "replaced"} => r.part \in Parts /\ r.ids \subseteq Tags
    /\ r.pc = "replace" => ~r.add
    /\ r.pc \in {"insert", "replaced"} /\ r.add => r.del = {}
    /\ r.pc \notin {"delete", "merged", "replaced"} => r.ins = {}
    /\ r.pc \notin {"merged", "insert", "replaced"} => r.del = {}
    /\ r.pc \in {"delete", "merged"} => \A l \in r.ins : l[2] = r.into
    /\ r.pc = "replaced" => \A l \in r.ins : l[1] = r.part
    /\ r.pc = "drop" => r.cat \in Cats

\* Rows refer to rows that are there: those of the tables, and those a transaction is to
\* commit.
Referring(l) == l[1] \in Shelf!Live(part) /\ l[2] \in Shelf!Live(tag)
Referred ==
    /\ \A q \in Shelf!Live(part) : part[q] \in Shelf!Live(cat) \cup {NoCat}
    /\ \A l \in links : Referring(l)
    /\ \A p \in Procs : \A l \in proc[p].ins : Referring(l)

\* A tag that a merge has deleted gets no links any more, and goes with those it has.
Dooming(p) ==
    proc[p].pc = "merged" =>
        /\ proc[p].from \in Shelf!Live(tag)
        /\ \A l \in links : l[2] = proc[p].from => l \in proc[p].del
        /\ \A o \in Procs \ {p} :
               /\ \A l \in proc[o].ins : l[2] # proc[p].from
               /\ proc[o].pc = "merged" => proc[o].from # proc[p].from

ShelfInv == /\ TablesTyped /\ ProcsTyped /\ (\A p \in Procs : StageOf(proc[p]))
            /\ Referred /\ (\A p \in Procs : Dooming(p))

\* What was asked for is stored, and an open transaction will store what it is asked.
AskedOf(r) ==
    /\ r.pc \in {"delete", "merged"} => r.ins = {<<l[1], r.into>> : l \in Shelf!On(r.from)} \ links
    /\ r.pc = "merged" => r.del = Shelf!On(r.from)
    /\ r.pc \in {"insert", "replaced"} /\ ~r.add => r.del = {l \in Shelf!Of(r.part) : l[2] \notin r.ids}
    /\ r.pc = "replaced" => r.ins = {<<r.part, t>> : t \in r.ids} \ (links \ r.del)
Asked == "tags" \notin crossed => links = owed /\ \A p \in Procs : AskedOf(proc[p])

\* Parts are where they were filed, and stay there when their category goes.
FiledOf(r) ==
    /\ r.pc = "write" => /\ r.part \in Parts /\ part[r.part] # Unused
                         /\ r.carry /\ r.part \in Shelf!Live(part) => r.cat = part[r.part]
    /\ r.pc = "drop" => \A q \in Shelf!Live(part) : part[q] # r.cat
Written == \A p \in Procs : proc[p].pc = "write" => proc[p].part \in Parts /\ part[proc[p].part] # Unused
Filed ==
    "filing" \notin crossed => /\ \A q \in Shelf!Live(part) : part[q] = home[q]
                               /\ \A p \in Procs : FiledOf(proc[p])

\* An export has read what the rows there are refer to.
CopiedOf(r) ==
    /\ r.pc \in {"tags", "parts", "part_tags"} => Shelf!Live(cat) \subseteq DOMAIN r.copy.cat
    /\ r.pc \in {"parts", "part_tags"} => Shelf!Live(tag) \subseteq DOMAIN r.copy.tag
    /\ r.pc = "part_tags" =>
           /\ Shelf!Live(part) \subseteq DOMAIN r.copy.part
           /\ \A q \in DOMAIN r.copy.part : r.copy.part[q] \in DOMAIN r.copy.cat \cup {NoCat}
Exported ==
    "export" \notin crossed => (\A f \in file : Shelf!Closed(f)) /\ \A p \in Procs : CopiedOf(proc[p])

-----------------------------------------------------------------------------
\* An export that has read nothing yet.
LEMMA NoFileIsFile == Shelf!NoFile \in Files
<1>1. <<>> \in PartTables
  <2>1. <<>> \in [{} -> Cats \cup {NoCat}] /\ {} \in SUBSET Parts
    OBVIOUS
  <2> QED BY <2>1 DEF PartTables
<1>2. <<>> \in TagTables
  <2>1. <<>> \in [{} -> Slugs] /\ {} \in SUBSET Tags
    OBVIOUS
  <2> QED BY <2>1 DEF TagTables
<1>3. <<>> \in CatTables
  <2>1. <<>> \in [{} -> Names] /\ {} \in SUBSET Cats
    OBVIOUS
  <2> QED BY <2>1 DEF CatTables
<1> QED BY <1>1, <1>2, <1>3 DEF Files, Shelf!NoFile

\* The rows of requests that have not begun, and that are over.
LEMMA NoRows ==
    /\ Shelf!NoProc \in ProcRows /\ StageOf(Shelf!NoProc) /\ Shelf!NoProc.pc = "idle" /\ Shelf!NoProc.ins = {}
    /\ Shelf!Done \in ProcRows /\ StageOf(Shelf!Done) /\ Shelf!Done.pc = "done" /\ Shelf!Done.ins = {}
BY NoFileIsFile DEF ProcRows, Shelf!NoProc, Shelf!Done, StageOf

\* All of it holds of a database that has just been filled.
LEMMA ShelfInit == Shelf!Init => ShelfInv /\ Asked /\ Written /\ Filed /\ Exported
<1> SUFFICES ASSUME Shelf!Init PROVE ShelfInv /\ Asked /\ Written /\ Filed /\ Exported
  OBVIOUS
<1>1. TablesTyped /\ ProcsTyped
  BY NoRows DEF Shelf!Init, TablesTyped, ProcsTyped
<1>2. \A p \in Procs : proc[p] = Shelf!NoProc
  BY DEF Shelf!Init
<1>3. Referred
  BY <1>2, NoRows, CatalogueAssumption DEF Shelf!Init, Referred, Shelf!Live
<1>4. ShelfInv
  BY <1>1, <1>2, <1>3, NoRows DEF ShelfInv, Dooming
<1>5. Asked /\ Written
  BY <1>2, NoRows DEF Asked, AskedOf, Written, Shelf!Init
<1>6. Filed
  BY <1>2, NoRows, CatalogueAssumption DEF Filed, FiledOf, Shelf!Init, Shelf!Live
<1>7. Exported
  BY <1>2, NoRows DEF Exported, CopiedOf, Shelf!Init
<1> QED BY <1>4, <1>5, <1>6, <1>7

-----------------------------------------------------------------------------
\* The tables and the references.

\* A step of one request: what it holds changes, and tags may be added.
LEMMA RowAndTagStep ==
    ASSUME ShelfInv, NEW p \in Procs, NEW r \in ProcRows, StageOf(r), proc' = [proc EXCEPT ![p] = r],
           UNCHANGED <<part, cat, links, file, home>>,
           tag' \in [Tags -> Slugs \cup {Unused, Gone}], Shelf!Live(tag) \subseteq Shelf!Live(tag)',
           \A l \in r.ins : Referring(l) /\ \A o \in Procs \ {p} : proc[o].pc = "merged" => l[2] # proc[o].from,
           r.pc = "merged" =>
               /\ r.from \in Shelf!Live(tag)
               /\ \A l \in links : l[2] = r.from => l \in r.del
               /\ \A o \in Procs \ {p} :
                      /\ \A l \in proc[o].ins : l[2] # r.from
                      /\ proc[o].pc = "merged" => proc[o].from # r.from,
           \A l \in r.ins : r.pc = "merged" => l[2] # r.from
    PROVE  ShelfInv'
<1>1. proc'[p] = r /\ \A o \in Procs \ {p} : proc'[o] = proc[o]
  BY DEF ShelfInv, ProcsTyped
<1>2. TablesTyped' /\ ProcsTyped'
  BY DEF ShelfInv, TablesTyped, ProcsTyped
<1>3. \A o \in Procs : StageOf(proc[o])'
  BY <1>1 DEF ShelfInv, StageOf
<1>4. Referred'
  <2>1. \A l : Referring(l) => Referring(l)'
    <3>1. Shelf!Live(part)' = Shelf!Live(part)
      BY DEF Shelf!Live
    <3> QED BY <3>1 DEF Referring
  <2>2. \A o \in Procs : \A l \in proc'[o].ins : Referring(l)
    BY <1>1 DEF ShelfInv, Referred
  <2>3. \A q \in Shelf!Live(part)' : part'[q] \in Shelf!Live(cat)' \cup {NoCat}
    BY DEF ShelfInv, Referred, Shelf!Live
  <2>4. \A l \in links' : Referring(l)
    BY DEF ShelfInv, Referred
  <2> QED BY <2>1, <2>2, <2>3, <2>4 DEF Referred
<1>5. ASSUME NEW o \in Procs PROVE Dooming(o)'
  <2>1. CASE o = p
    BY <1>1, <2>1 DEF Dooming
  <2>2. CASE o # p
    <3>1. Dooming(o) /\ proc'[o] = proc[o]
      BY <1>1, <2>2 DEF ShelfInv
    <3>2. ASSUME proc[o].pc = "merged", NEW x \in Procs \ {o}
          PROVE  /\ \A l \in proc'[x].ins : l[2] # proc[o].from
                 /\ proc'[x].pc = "merged" => proc'[x].from # proc[o].from
      <4>1. CASE x = p
        BY <1>1, <2>2, <3>2, <4>1
      <4>2. CASE x # p
        BY <1>1, <3>1, <3>2, <4>2 DEF Dooming
      <4> QED BY <4>1, <4>2
    <3> QED BY <3>1, <3>2 DEF Dooming
  <2> QED BY <2>1, <2>2
<1> QED BY <1>2, <1>3, <1>4, <1>5 DEF ShelfInv

\* A step of one request alone: no table changes.
LEMMA RowStep ==
    ASSUME ShelfInv, NEW p \in Procs, NEW r \in ProcRows, StageOf(r), proc' = [proc EXCEPT ![p] = r],
           UNCHANGED <<part, tag, cat, links, file, home>>,
           \A l \in r.ins : Referring(l) /\ \A o \in Procs \ {p} : proc[o].pc = "merged" => l[2] # proc[o].from,
           r.pc = "merged" =>
               /\ r.from \in Shelf!Live(tag)
               /\ \A l \in links : l[2] = r.from => l \in r.del
               /\ \A o \in Procs \ {p} :
                      /\ \A l \in proc[o].ins : l[2] # r.from
                      /\ proc[o].pc = "merged" => proc[o].from # r.from,
           \A l \in r.ins : r.pc = "merged" => l[2] # r.from
    PROVE  ShelfInv'
<1>1. tag' \in [Tags -> Slugs \cup {Unused, Gone}] /\ Shelf!Live(tag)' = Shelf!Live(tag)
  BY DEF ShelfInv, TablesTyped, Shelf!Live
<1> QED BY <1>1, RowAndTagStep

\* A step that ends a request and changes tables.
LEMMA TableStep ==
    ASSUME ShelfInv, NEW p \in Procs, proc' = [proc EXCEPT ![p] = Shelf!Done], TablesTyped',
           \A q \in Shelf!Live(part)' : part'[q] \in Shelf!Live(cat)' \cup {NoCat},
           \A l \in links' : Referring(l)',
           \A o \in Procs \ {p} : \A l \in proc[o].ins : Referring(l)',
           \A o \in Procs \ {p} : proc[o].pc = "merged" =>
               proc[o].from \in Shelf!Live(tag)' /\ \A l \in links' : l[2] = proc[o].from => l \in proc[o].del
    PROVE  ShelfInv'
<1>1. proc'[p] = Shelf!Done /\ \A o \in Procs \ {p} : proc'[o] = proc[o]
  BY DEF ShelfInv, ProcsTyped
<1>2. ProcsTyped'
  BY NoRows DEF ShelfInv, ProcsTyped
<1>3. \A o \in Procs : StageOf(proc[o])'
  BY <1>1, NoRows DEF ShelfInv, StageOf
<1>4. Referred'
  <2>1. \A o \in Procs : \A l \in proc'[o].ins : Referring(l)'
    BY <1>1, NoRows
  <2> QED BY <2>1 DEF Referred
<1>5. ASSUME NEW o \in Procs PROVE Dooming(o)'
  <2>1. CASE o = p
    BY <1>1, <2>1, NoRows DEF Dooming
  <2>2. CASE o # p
    <3>1. Dooming(o) /\ proc'[o] = proc[o]
      BY <1>1, <2>2 DEF ShelfInv
    <3>2. ASSUME proc[o].pc = "merged", NEW x \in Procs \ {o}
          PROVE  /\ \A l \in proc'[x].ins : l[2] # proc[o].from
                 /\ proc'[x].pc = "merged" => proc'[x].from # proc[o].from
      <4>1. CASE x = p
        BY <1>1, <4>1, NoRows
      <4>2. CASE x # p
        BY <1>1, <3>1, <3>2, <4>2 DEF Dooming
      <4> QED BY <4>1, <4>2
    <3> QED BY <2>2, <3>1, <3>2 DEF Dooming
  <2> QED BY <2>1, <2>2
<1> QED BY <1>2, <1>3, <1>4, <1>5 DEF ShelfInv

\* The row of a request changes as far as an action says, and the rest does not.
LEMMA FinishKeeps ==
    ASSUME ShelfInv, NEW p \in Procs, Shelf!Finish(p), UNCHANGED <<part, tag, cat, links, file, home>>
    PROVE  ShelfInv'
BY NoRows, RowStep DEF Shelf!Finish

LEMMA ProcRow == ASSUME ShelfInv, NEW p \in Procs PROVE proc[p] \in ProcRows /\ StageOf(proc[p])
BY DEF ShelfInv, ProcsTyped

\* Rows that are there are rows.
LEMMA LiveIn ==
    ASSUME ShelfInv
    PROVE  Shelf!Live(part) \subseteq Parts /\ Shelf!Live(tag) \subseteq Tags /\ Shelf!Live(cat) \subseteq Cats
BY DEF ShelfInv, TablesTyped, Shelf!Live

\* A link is of a part and a tag.
LEMMA LinkParts == \A l \in Pairs : l = <<l[1], l[2]>> /\ l[1] \in Parts /\ l[2] \in Tags
BY DEF Pairs

\* What is stored of links.
LEMMA LinksTyped == ASSUME ShelfInv PROVE links \in SUBSET Pairs /\ \A l \in links : Referring(l)
BY DEF ShelfInv, TablesTyped, Referred

\* A merge has found its two tags.
LEMMA BeginMergeKeeps == ASSUME ShelfInv, NEW p \in Procs, Shelf!BeginMerge(p) PROVE ShelfInv'
<1>1. PICK from, into \in Shelf!Live(tag) :
          /\ from # into
          /\ proc' = [proc EXCEPT ![p] = [Shelf!NoProc EXCEPT !.pc = "copy", !.from = from, !.into = into]]
  BY DEF Shelf!BeginMerge
<1> DEFINE r == [Shelf!NoProc EXCEPT !.pc = "copy", !.from = from, !.into = into]
<1>2. r \in ProcRows /\ StageOf(r) /\ r.pc = "copy" /\ r.ins = {}
  <2>1. r \in ProcRows
    BY <1>1, LiveIn, NoRows, NoFileIsFile DEF ProcRows, Shelf!NoProc
  <2>2. StageOf(r)
    BY <1>1, LiveIn, NoRows, NoFileIsFile DEF StageOf, Shelf!NoProc
  <2>3. r.pc = "copy" /\ r.ins = {}
    BY <1>1, LiveIn, NoRows, NoFileIsFile DEF Shelf!NoProc
  <2> QED BY <2>1, <2>2, <2>3
<1>3. UNCHANGED <<part, tag, cat, links, file, home>>
  BY DEF Shelf!BeginMerge, Shelf!TagsUnchanged, Shelf!PartsUnchanged
<1>4. proc' = [proc EXCEPT ![p] = r]
  BY <1>1
<1> HIDE DEF r
<1> QED BY <1>2, <1>3, <1>4, RowStep

\* The links a statement inserts.
LEMMA Inserted ==
    ASSUME ShelfInv, NEW p \in Procs, proc[p].pc \in {"copy", "insert"}
    PROVE  LET new == Shelf!ToInsert(p)
           IN  /\ new \in SUBSET Pairs
               /\ proc[p].pc = "copy" => /\ \A l \in new : l[2] = proc[p].into /\ l[1] \in Shelf!Live(part)
                                         /\ new = {<<l[1], proc[p].into>> : l \in Shelf!On(proc[p].from)} \ links
               /\ proc[p].pc = "insert" => /\ \A l \in new : l[1] = proc[p].part /\ l[2] \in proc[p].ids
                                           /\ new = {<<proc[p].part, t>> : t \in proc[p].ids} \ (links \ proc[p].del)
<1>1. CASE proc[p].pc = "copy"
  <2>1. Shelf!ToInsert(p) = {<<l[1], proc[p].into>> : l \in Shelf!On(proc[p].from)} \ links
    BY <1>1 DEF Shelf!ToInsert, Shelf!AtPc
  <2>2. \A l \in Shelf!On(proc[p].from) : l[1] \in Shelf!Live(part) /\ l[1] \in Parts
    BY LinksTyped, LiveIn DEF Shelf!On, Referring
  <2>3. proc[p].into \in Tags
    BY <1>1, ProcRow DEF StageOf
  <2> QED BY <1>1, <2>1, <2>2, <2>3 DEF Pairs
<1>2. CASE proc[p].pc = "insert"
  <2>1. Shelf!ToInsert(p) = {<<proc[p].part, t>> : t \in proc[p].ids} \ (links \ proc[p].del)
    BY <1>2 DEF Shelf!ToInsert, Shelf!AtPc
  <2>2. proc[p].part \in Parts /\ proc[p].ids \subseteq Tags
    BY <1>2, ProcRow DEF StageOf
  <2> QED BY <1>2, <2>1, <2>2 DEF Pairs
<1> QED BY <1>1, <1>2

\* A statement that waits for nobody adds no link to a tag that a merge has deleted.
LEMMA NotDoomed ==
    ASSUME ShelfInv, NEW p \in Procs, proc[p].pc \in {"copy", "insert"}, Shelf!Waits(p) = {}
    PROVE  \A l \in Shelf!ToInsert(p) : \A o \in Procs \ {p} : proc[o].pc = "merged" => l[2] # proc[o].from
<1> SUFFICES ASSUME NEW l \in Shelf!ToInsert(p), NEW o \in Procs \ {p}, proc[o].pc = "merged"
             PROVE  l[2] # proc[o].from
  OBVIOUS
<1>1. o \notin Shelf!InsertWaits(p, Shelf!ToInsert(p))
  BY DEF Shelf!Waits, Shelf!Others
<1> QED BY <1>1 DEF Shelf!InsertWaits, Shelf!Doomed, Shelf!Others, Shelf!AtPc

\* It inserts links to the tag that stays, when nobody is to delete that.
LEMMA CopyLinksKeeps == ASSUME ShelfInv, NEW p \in Procs, Shelf!CopyLinks(p) PROVE ShelfInv'
<1>1. UNCHANGED <<part, tag, cat, links, file, home>>
  BY DEF Shelf!CopyLinks, Shelf!TagsUnchanged, Shelf!PartsUnchanged
<1>2. CASE Shelf!Finish(p)
  BY <1>1, <1>2, FinishKeeps
<1>3. CASE ~Shelf!Finish(p)
  <2> DEFINE new == Shelf!ToInsert(p)
             r == [proc[p] EXCEPT !.pc = "delete", !.ins = new]
  <2>1. /\ proc[p].pc = "copy" /\ Shelf!Waits(p) = {} /\ (new # {} => proc[p].into \in Shelf!Live(tag))
        /\ proc' = [proc EXCEPT ![p].pc = "delete", ![p].ins = new]
    BY <1>3 DEF Shelf!CopyLinks, Shelf!Copied, Shelf!AtPc
  <2>2. new \in SUBSET Pairs /\ \A l \in new : l[2] = proc[p].into /\ l[1] \in Shelf!Live(part)
    BY <2>1, Inserted
  <2>3. \A l \in new : Referring(l) /\ \A o \in Procs \ {p} : proc[o].pc = "merged" => l[2] # proc[o].from
    BY <2>1, <2>2, NotDoomed DEF Referring
  <2>4. proc' = [proc EXCEPT ![p] = r]
    BY <2>1 DEF ShelfInv, ProcsTyped
  <2> HIDE DEF new
  <2>5. r \in ProcRows /\ StageOf(r) /\ r.pc = "delete" /\ r.ins = new
    <3>1. r \in ProcRows
      BY ZenonT(40), <2>1, <2>2, ProcRow DEF ProcRows
    <3>2. StageOf(r)
      BY <2>1, <2>2, ProcRow DEF StageOf
    <3>3. r.pc = "delete" /\ r.ins = new
      BY <2>1, <2>2, ProcRow DEF ProcRows
    <3> QED BY <3>1, <3>2, <3>3
  <2> HIDE DEF r
  <2> QED BY <1>1, <2>3, <2>4, <2>5, RowStep
<1> QED BY <1>2, <1>3

\* It deletes the other tag, once no open transaction has linked to it.
LEMMA DropMergedKeeps == ASSUME ShelfInv, NEW p \in Procs, Shelf!DropMerged(p) PROVE ShelfInv'
<1>1. UNCHANGED <<part, tag, cat, links, file, home>>
  BY DEF Shelf!DropMerged, Shelf!TagsUnchanged, Shelf!PartsUnchanged
<1>2. CASE Shelf!Finish(p)
  BY <1>1, <1>2, FinishKeeps
<1>3. CASE ~Shelf!Finish(p)
  <2> DEFINE from == proc[p].from
             gone == Shelf!On(from)
             r == [proc[p] EXCEPT !.pc = "merged", !.del = gone]
  <2>1. /\ proc[p].pc = "delete" /\ Shelf!Waits(p) = {} /\ from \in Shelf!Live(tag)
        /\ proc' = [proc EXCEPT ![p].pc = "merged", ![p].del = gone]
    BY <1>3 DEF Shelf!DropMerged, Shelf!AtPc
  <2>2. gone \in SUBSET Pairs /\ \A l \in links : l[2] = from => l \in gone
    BY LinksTyped DEF Shelf!On
  <2>3. \A o \in Procs \ {p} : o \notin Shelf!DropWaits(p, from)
    BY <2>1 DEF Shelf!Waits, Shelf!AtPc, Shelf!Others
  <2>4. \A o \in Procs \ {p} : (\A l \in proc[o].ins : l[2] # from) /\ (proc[o].pc = "merged" => proc[o].from # from)
    BY <2>3 DEF Shelf!DropWaits, Shelf!Doomed, Shelf!AtPc, Shelf!Others
  <2>5. proc' = [proc EXCEPT ![p] = r]
    BY <2>1 DEF ShelfInv, ProcsTyped
  <2>6. proc[p].ins \in SUBSET Pairs /\ \A l \in proc[p].ins : l[2] = proc[p].into /\ l[2] # from /\ Referring(l)
    BY <2>1, ProcRow DEF StageOf, ProcRows, ShelfInv, Referred
  <2>7. \A l \in proc[p].ins, o \in Procs \ {p} : proc[o].pc = "merged" => l[2] # proc[o].from
    BY DEF ShelfInv, Dooming
  <2> HIDE DEF gone
  <2>8. r \in ProcRows /\ StageOf(r) /\ r.pc = "merged" /\ r.ins = proc[p].ins /\ r.from = from /\ r.del = gone
    <3>1. r \in ProcRows
      BY ZenonT(40), <2>1, <2>2, ProcRow DEF ProcRows
    <3>2. StageOf(r)
      BY <2>1, <2>2, ProcRow DEF StageOf
    <3>3. r.pc = "merged" /\ r.ins = proc[p].ins /\ r.from = from /\ r.del = gone
      BY <2>1, <2>2, ProcRow DEF ProcRows
    <3> QED BY <3>1, <3>2, <3>3
  <2> HIDE DEF r, from
  <2>9. from \in Shelf!Live(tag)
    BY <2>1
  <2>10. \A l \in r.ins : /\ Referring(l) /\ (r.pc = "merged" => l[2] # r.from)
                         /\ \A o \in Procs \ {p} : proc[o].pc = "merged" => l[2] # proc[o].from
    BY <2>6, <2>7, <2>8
  <2> QED BY ONLY ShelfInv, <1>1, <2>2, <2>4, <2>5, <2>8, <2>9, <2>10, p \in Procs, RowStep
<1> QED BY <1>2, <1>3

LEMMA BeginPartTagsKeeps == ASSUME ShelfInv, NEW p \in Procs, Shelf!BeginPartTags(p) PROVE ShelfInv'
<1>1. PICK q \in Shelf!Live(part), add \in BOOLEAN, slugs \in SUBSET Slugs :
          proc' = [proc EXCEPT ![p] = [Shelf!NoProc EXCEPT !.pc = "resolve", !.part = q, !.add = add, !.ids = slugs]]
  BY DEF Shelf!BeginPartTags
<1> DEFINE r == [Shelf!NoProc EXCEPT !.pc = "resolve", !.part = q, !.add = add, !.ids = slugs]
<1>2. r \in ProcRows /\ StageOf(r) /\ r.pc = "resolve" /\ r.ins = {}
  <2>1. r \in ProcRows
    BY <1>1, LiveIn, NoRows, NoFileIsFile DEF ProcRows, Shelf!NoProc
  <2>2. StageOf(r)
    BY <1>1, LiveIn, NoRows, NoFileIsFile DEF StageOf, Shelf!NoProc
  <2>3. r.pc = "resolve" /\ r.ins = {}
    BY <1>1, LiveIn, NoRows, NoFileIsFile DEF Shelf!NoProc
  <2> QED BY <2>1, <2>2, <2>3
<1>3. UNCHANGED <<part, tag, cat, links, file, home>>
  BY DEF Shelf!BeginPartTags, Shelf!TagsUnchanged, Shelf!PartsUnchanged
<1>4. proc' = [proc EXCEPT ![p] = r]
  BY <1>1
<1> HIDE DEF r
<1> QED BY <1>2, <1>3, <1>4, RowStep

\* A replacement deletes the links that were not named.
LEMMA ReplaceTagsKeeps == ASSUME ShelfInv, NEW p \in Procs, Shelf!ReplaceTags(p) PROVE ShelfInv'
<1> DEFINE gone == Shelf!Unnamed(p)
           r == [proc[p] EXCEPT !.pc = "insert", !.del = gone]
<1>1. UNCHANGED <<part, tag, cat, links, file, home>>
  BY DEF Shelf!ReplaceTags, Shelf!TagsUnchanged, Shelf!PartsUnchanged
<1>2. proc[p].pc = "replace" /\ proc' = [proc EXCEPT ![p].pc = "insert", ![p].del = gone]
  BY DEF Shelf!ReplaceTags, Shelf!AtPc
<1>3. gone \in SUBSET Pairs
  BY LinksTyped DEF Shelf!Unnamed, Shelf!Of
<1>4. proc' = [proc EXCEPT ![p] = r]
  BY <1>2 DEF ShelfInv, ProcsTyped
<1> HIDE DEF gone
<1>5. r \in ProcRows /\ StageOf(r) /\ r.pc = "insert" /\ r.ins = {}
  <2>1. r \in ProcRows
    BY ZenonT(40), <1>2, <1>3, ProcRow DEF ProcRows
  <2>2. StageOf(r)
    BY <1>2, <1>3, ProcRow DEF StageOf
  <2>3. r.pc = "insert" /\ r.ins = {}
    BY <1>2, ProcRow DEF ProcRows, StageOf
  <2> QED BY <2>1, <2>2, <2>3
<1> HIDE DEF r
<1> QED BY <1>1, <1>4, <1>5, RowStep

\* It inserts those that were.
LEMMA InsertTagsKeeps == ASSUME ShelfInv, NEW p \in Procs, Shelf!InsertTags(p) PROVE ShelfInv'
<1>1. UNCHANGED <<part, tag, cat, links, file, home>>
  BY DEF Shelf!InsertTags, Shelf!TagsUnchanged, Shelf!PartsUnchanged
<1>2. CASE Shelf!Finish(p)
  BY <1>1, <1>2, FinishKeeps
<1>3. CASE ~Shelf!Finish(p)
  <2> DEFINE new == Shelf!ToInsert(p)
             r == [proc[p] EXCEPT !.pc = "replaced", !.ins = new]
  <2>1. /\ proc[p].pc = "insert" /\ Shelf!Waits(p) = {}
        /\ new # {} => proc[p].part \in Shelf!Live(part) /\ proc[p].ids \subseteq Shelf!Live(tag)
        /\ proc' = [proc EXCEPT ![p].pc = "replaced", ![p].ins = new]
    BY <1>3 DEF Shelf!InsertTags, Shelf!AtPc
  <2>2. new \in SUBSET Pairs /\ \A l \in new : l[1] = proc[p].part /\ l[2] \in proc[p].ids
    BY <2>1, Inserted
  <2>3. \A l \in new : Referring(l) /\ \A o \in Procs \ {p} : proc[o].pc = "merged" => l[2] # proc[o].from
    BY <2>1, <2>2, NotDoomed DEF Referring
  <2>4. proc' = [proc EXCEPT ![p] = r]
    BY <2>1 DEF ShelfInv, ProcsTyped
  <2> HIDE DEF new
  <2>5. r \in ProcRows /\ StageOf(r) /\ r.pc = "replaced" /\ r.ins = new
    <3>1. r \in ProcRows
      BY ZenonT(40), <2>1, <2>2, ProcRow DEF ProcRows
    <3>2. StageOf(r)
      BY <2>1, <2>2, ProcRow DEF StageOf
    <3>3. r.pc = "replaced" /\ r.ins = new
      BY <2>1, <2>2, ProcRow DEF ProcRows
    <3> QED BY <3>1, <3>2, <3>3
  <2> HIDE DEF r
  <2> QED BY <1>1, <2>3, <2>4, <2>5, RowStep
<1> QED BY <1>2, <1>3

LEMMA CountPartsKeeps == ASSUME ShelfInv, NEW p \in Procs, Shelf!CountParts(p) PROVE ShelfInv'
<1>1. PICK c \in Shelf!Live(cat) :
          proc' = [proc EXCEPT ![p] = [Shelf!NoProc EXCEPT !.pc = "drop", !.cat = c]]
  BY DEF Shelf!CountParts
<1> DEFINE r == [Shelf!NoProc EXCEPT !.pc = "drop", !.cat = c]
<1>2. r \in ProcRows /\ StageOf(r) /\ r.pc = "drop" /\ r.ins = {}
  <2>1. r \in ProcRows
    BY <1>1, LiveIn, NoRows, NoFileIsFile DEF ProcRows, Shelf!NoProc
  <2>2. StageOf(r)
    BY <1>1, LiveIn, NoRows, NoFileIsFile DEF StageOf, Shelf!NoProc
  <2>3. r.pc = "drop" /\ r.ins = {}
    BY <1>1, LiveIn, NoRows, NoFileIsFile DEF Shelf!NoProc
  <2> QED BY <2>1, <2>2, <2>3
<1>3. UNCHANGED <<part, tag, cat, links, file, home>>
  BY DEF Shelf!CountParts, Shelf!TagsUnchanged, Shelf!PartsUnchanged
<1>4. proc' = [proc EXCEPT ![p] = r]
  BY <1>1
<1> HIDE DEF r
<1> QED BY <1>2, <1>3, <1>4, RowStep

LEMMA ReadPartKeeps == ASSUME ShelfInv, NEW p \in Procs, Shelf!ReadPart(p) PROVE ShelfInv'
<1>1. PICK q \in Shelf!Live(part) : \E patch \in Shelf!Patches(q) : Shelf!Hold(p, q, patch)
  BY DEF Shelf!ReadPart
<1>2. PICK patch \in Shelf!Patches(q) : Shelf!Hold(p, q, patch)
  BY <1>1
<1> DEFINE c == patch.cat
           y == patch.carry
           r == [Shelf!NoProc EXCEPT !.pc = "write", !.part = q, !.cat = c, !.carry = y]
<1>3. c \in Cats \cup {NoCat} /\ y \in BOOLEAN
  <2>1. part[q] \in Cats \cup {NoCat} /\ Shelf!Live(cat) \subseteq Cats
    BY LiveIn DEF ShelfInv, Referred
  <2>2. CASE patch \in Shelf!Mentioned
    <3>1. PICK d \in Shelf!Live(cat) \cup {NoCat} : patch = [cat |-> d, carry |-> FALSE]
      BY <2>2 DEF Shelf!Mentioned
    <3> QED BY <2>1, <3>1
  <2>3. CASE patch = [cat |-> part[q], carry |-> TRUE]
    BY <2>1, <2>3
  <2> QED BY <2>2, <2>3 DEF Shelf!Patches
<1>4. r \in ProcRows /\ StageOf(r) /\ r.pc = "write" /\ r.ins = {}
  <2>1. q \in Parts /\ c \in Cats \cup {NoCat} /\ y \in BOOLEAN
    BY <1>3, LiveIn
  <2> HIDE DEF c, y
  <2> QED BY ONLY <2>1, NoFileIsFile DEF ProcRows, StageOf, Shelf!NoProc
<1>5. UNCHANGED <<part, tag, cat, links, file, home>>
  BY DEF Shelf!ReadPart, Shelf!TagsUnchanged, Shelf!PartsUnchanged
<1>6. proc' = [proc EXCEPT ![p] = r]
  BY <1>2 DEF Shelf!Hold
<1> HIDE DEF r
<1> QED BY <1>4, <1>5, <1>6, RowStep

\* The order of an export.
LEMMA TableOrder ==
    /\ Shelf!backupTables(1) = "categories" /\ Shelf!backupTables(2) = "tags"
    /\ Shelf!backupTables(3) = "parts" /\ Shelf!backupTables(4) = "part_tags"
    /\ Shelf!At("categories") = 1 /\ Shelf!At("tags") = 2 /\ Shelf!At("parts") = 3 /\ Shelf!At("part_tags") = 4
    /\ Shelf!Tables = {"categories", "tags", "parts", "part_tags"}
<1>1. /\ Shelf!backupTables(1) = "categories" /\ Shelf!backupTables(2) = "tags"
      /\ Shelf!backupTables(3) = "parts" /\ Shelf!backupTables(4) = "part_tags"
  BY DEF Shelf!backupTables
<1>2. \A i : i \in 1 .. 4 <=> i \in {1, 2, 3, 4}
  OBVIOUS
<1>3. Shelf!At("categories") = 1
  BY <1>1, <1>2 DEF Shelf!At
<1>4. Shelf!At("tags") = 2
  BY <1>1, <1>2 DEF Shelf!At
<1>5. Shelf!At("parts") = 3
  BY <1>1, <1>2 DEF Shelf!At
<1>6. Shelf!At("part_tags") = 4
  BY <1>1, <1>2 DEF Shelf!At
<1>7. Shelf!Tables = {"categories", "tags", "parts", "part_tags"}
  BY <1>1, <1>2 DEF Shelf!Tables
<1> QED BY <1>1, <1>3, <1>4, <1>5, <1>6, <1>7

\* What an export has read is rows of the tables, whichever it reads next.
LEMMA ReadIsFile ==
    ASSUME ShelfInv, NEW copy \in Files, NEW table
    PROVE  Shelf!Read(copy, table) \in Files
<1>1. Shelf!Rows(part) \in PartTables
  <2>1. \A q \in Shelf!Live(part) : part[q] \in Cats \cup {NoCat}
    BY LiveIn DEF ShelfInv, Referred
  <2>2. Shelf!Rows(part) \in [Shelf!Live(part) -> Cats \cup {NoCat}] /\ Shelf!Live(part) \in SUBSET Parts
    BY <2>1, LiveIn DEF Shelf!Rows
  <2> QED BY <2>2 DEF PartTables
<1>2. Shelf!Rows(tag) \in TagTables
  <2>1. \A t \in Shelf!Live(tag) : tag[t] \in Slugs
    BY DEF ShelfInv, TablesTyped, Shelf!Live
  <2>2. Shelf!Rows(tag) \in [Shelf!Live(tag) -> Slugs] /\ Shelf!Live(tag) \in SUBSET Tags
    BY <2>1, LiveIn DEF Shelf!Rows
  <2> QED BY <2>2 DEF TagTables
<1>3. Shelf!Rows(cat) \in CatTables
  <2>1. \A c \in Shelf!Live(cat) : cat[c] \in Names
    BY DEF ShelfInv, TablesTyped, Shelf!Live
  <2>2. Shelf!Rows(cat) \in [Shelf!Live(cat) -> Names] /\ Shelf!Live(cat) \in SUBSET Cats
    BY <2>1, LiveIn DEF Shelf!Rows
  <2> QED BY <2>2 DEF CatTables
<1>4. links \in SUBSET Pairs
  BY DEF ShelfInv, TablesTyped
<1>5. ASSUME NEW a \in PartTables, NEW b \in TagTables, NEW c \in CatTables, NEW d \in SUBSET Pairs
      PROVE  /\ [copy EXCEPT !.part = a] \in Files /\ [copy EXCEPT !.tag = b] \in Files
             /\ [copy EXCEPT !.cat = c] \in Files /\ [copy EXCEPT !.links = d] \in Files
  BY DEF Files
<1> QED BY <1>1, <1>2, <1>3, <1>4, <1>5 DEF Shelf!Read

LEMMA BeginExportKeeps == ASSUME ShelfInv, NEW p \in Procs, Shelf!BeginExport(p) PROVE ShelfInv'
<1> DEFINE f == Shelf!Read(Shelf!NoFile, "categories")
           r == [Shelf!NoProc EXCEPT !.pc = "tags", !.copy = f]
<1>1. proc' = [proc EXCEPT ![p] = r]
  BY TableOrder DEF Shelf!BeginExport
<1>2. f \in Files
  BY NoFileIsFile, ReadIsFile
<1> HIDE DEF f
<1>3. r \in ProcRows /\ StageOf(r) /\ r.pc = "tags" /\ r.ins = {}
  <2>1. r \in ProcRows
    BY <1>2 DEF ProcRows, Shelf!NoProc
  <2>2. StageOf(r)
    BY <1>2 DEF StageOf, Shelf!NoProc
  <2>3. r.pc = "tags" /\ r.ins = {}
    BY <1>2 DEF Shelf!NoProc
  <2> QED BY <2>1, <2>2, <2>3
<1>4. UNCHANGED <<part, tag, cat, links, file, home>>
  BY DEF Shelf!BeginExport, Shelf!TagsUnchanged, Shelf!PartsUnchanged
<1> HIDE DEF r
<1> QED BY <1>1, <1>3, <1>4, RowStep

\* The table that is read, and the one to be read next.
LEMMA Exporting ==
    ASSUME ShelfInv, NEW p \in Procs, Shelf!ExportTable(p)
    PROVE  /\ proc[p].pc \in {"tags", "parts"}
           /\ LET f == Shelf!Read(proc[p].copy, proc[p].pc)
                  r == [proc[p] EXCEPT !.pc = IF proc[p].pc = "tags" THEN "parts" ELSE "part_tags", !.copy = f]
              IN  f \in Files /\ r \in ProcRows /\ proc' = [proc EXCEPT ![p] = r]
           /\ UNCHANGED <<part, tag, cat, links, file, home, owed, crossed>>
<1> DEFINE f == Shelf!Read(proc[p].copy, proc[p].pc)
           pc == IF proc[p].pc = "tags" THEN "parts" ELSE "part_tags"
           r == [proc[p] EXCEPT !.pc = pc, !.copy = f]
<1>1. proc[p].pc \in {"tags", "parts"}
  BY TableOrder DEF Shelf!ExportTable
<1>2. Shelf!backupTables(Shelf!At(proc[p].pc) + 1) = pc
  <2>1. 2 + 1 = 3 /\ 3 + 1 = 4
    OBVIOUS
  <2> QED BY <1>1, <2>1, TableOrder
<1>3. f \in Files
  BY ProcRow, ReadIsFile DEF ProcRows
<1>4. proc' = [proc EXCEPT ![p].pc = Shelf!backupTables(Shelf!At(proc[p].pc) + 1), ![p].copy = f]
  BY DEF Shelf!ExportTable, ShelfInv, ProcsTyped
<1> HIDE DEF f
<1>5. proc' = [proc EXCEPT ![p] = r]
  BY <1>2, <1>4 DEF ShelfInv, ProcsTyped
<1>6. r \in ProcRows
  BY ZenonT(40), <1>1, <1>3, ProcRow DEF ProcRows
<1>7. UNCHANGED <<part, tag, cat, links, file, home, owed, crossed>>
  BY DEF Shelf!ExportTable, Shelf!TagsUnchanged, Shelf!PartsUnchanged
<1> QED BY <1>1, <1>3, <1>5, <1>6, <1>7 DEF f

LEMMA ExportTableKeeps == ASSUME ShelfInv, NEW p \in Procs, Shelf!ExportTable(p) PROVE ShelfInv'
<1> DEFINE f == Shelf!Read(proc[p].copy, proc[p].pc)
           r == [proc[p] EXCEPT !.pc = IF proc[p].pc = "tags" THEN "parts" ELSE "part_tags", !.copy = f]
<1>1. /\ proc[p].pc \in {"tags", "parts"} /\ r \in ProcRows /\ proc' = [proc EXCEPT ![p] = r] /\ f \in Files
      /\ UNCHANGED <<part, tag, cat, links, file, home>>
  BY Exporting
<1> HIDE DEF f
<1>2. StageOf(r) /\ r.ins = {} /\ r.pc # "merged"
  BY <1>1, ProcRow DEF ProcRows, StageOf
<1> HIDE DEF r
<1> QED BY <1>1, <1>2, RowStep

LEMMA FinishExportKeeps == ASSUME ShelfInv, NEW p \in Procs, Shelf!FinishExport(p) PROVE ShelfInv'
<1>1. UNCHANGED <<part, tag, cat, links, home>> /\ Shelf!Finish(p)
      /\ file' = {Shelf!Read(proc[p].copy, Shelf!backupTables(4))}
  BY DEF Shelf!FinishExport, Shelf!TagsUnchanged, Shelf!PartsUnchanged
<1>2. TablesTyped'
  BY <1>1, ProcRow, ReadIsFile DEF ProcRows, ShelfInv, TablesTyped
<1>3. /\ Shelf!Live(part)' = Shelf!Live(part) /\ Shelf!Live(tag)' = Shelf!Live(tag)
      /\ Shelf!Live(cat)' = Shelf!Live(cat)
  BY <1>1 DEF Shelf!Live
<1> QED BY <1>1, <1>2, <1>3, TableStep DEF ShelfInv, Referred, Referring, Dooming, Shelf!Finish

\* Tags are made and renamed, and none goes.
LEMMA MoreTags ==
    ASSUME ShelfInv, NEW p \in Procs, Shelf!Finish(p), UNCHANGED <<part, cat, links, file, home>>,
           tag' \in [Tags -> Slugs \cup {Unused, Gone}], Shelf!Live(tag) \subseteq Shelf!Live(tag)'
    PROVE  ShelfInv'
<1>1. TablesTyped'
  BY DEF ShelfInv, TablesTyped
<1>2. Shelf!Live(part)' = Shelf!Live(part) /\ Shelf!Live(cat)' = Shelf!Live(cat)
  BY DEF Shelf!Live
<1>3. \A l : Referring(l) => Referring(l)'
  BY <1>2 DEF Referring
<1> QED BY <1>1, <1>2, <1>3, TableStep DEF ShelfInv, Referred, Dooming, Shelf!Finish

LEMMA CreateTagKeeps == ASSUME ShelfInv, NEW p \in Procs, Shelf!CreateTag(p) PROVE ShelfInv'
<1>1. PICK t \in Shelf!Fresh(tag), s \in Slugs : tag' = [tag EXCEPT ![t] = s]
  BY DEF Shelf!CreateTag, Shelf!InsertTag
<1>2. tag' \in [Tags -> Slugs \cup {Unused, Gone}] /\ Shelf!Live(tag) \subseteq Shelf!Live(tag)'
  BY <1>1 DEF ShelfInv, TablesTyped, Shelf!Live, Shelf!Fresh
<1> QED BY <1>2, MoreTags DEF Shelf!CreateTag, Shelf!PartsUnchanged

LEMMA UpdateTagKeeps == ASSUME ShelfInv, NEW p \in Procs, Shelf!UpdateTag(p) PROVE ShelfInv'
<1>1. PICK t \in Shelf!Live(tag), s \in Slugs : tag' = [tag EXCEPT ![t] = s]
  BY DEF Shelf!UpdateTag, Shelf!RenameTag
<1>2. tag' \in [Tags -> Slugs \cup {Unused, Gone}] /\ Shelf!Live(tag) \subseteq Shelf!Live(tag)'
  BY <1>1, CatalogueAssumption DEF ShelfInv, TablesTyped, Shelf!Live
<1> QED BY <1>2, MoreTags DEF Shelf!UpdateTag, Shelf!PartsUnchanged

\* A request that has not begun holds no rows.
LEMMA IdleHoldsNothing ==
    ASSUME ShelfInv, NEW p \in Procs, proc[p].pc = "idle"
    PROVE  proc[p].ins = {} /\ proc[p].del = {}
BY ProcRow DEF StageOf

\* A tag goes with its links, and with nothing that is to be committed.
LEMMA DeleteTagKeeps == ASSUME ShelfInv, NEW p \in Procs, Shelf!DeleteTag(p) PROVE ShelfInv'
<1>1. PICK t \in Shelf!Live(tag) : Shelf!DropWaits(p, t) = {} /\ Shelf!DropTag(t)
  BY DEF Shelf!DeleteTag
<1>2. UNCHANGED <<part, cat, home, file>> /\ Shelf!Finish(p)
  BY DEF Shelf!DeleteTag, Shelf!PartsUnchanged
<1>3. tag' = [tag EXCEPT ![t] = Gone] /\ \A l : l \in links' <=> l \in links /\ l[2] # t
  BY <1>1 DEF Shelf!DropTag, Shelf!On
<1>4. TablesTyped'
  BY <1>2, <1>3 DEF ShelfInv, TablesTyped
<1>5. /\ Shelf!Live(part)' = Shelf!Live(part) /\ Shelf!Live(cat)' = Shelf!Live(cat)
      /\ Shelf!Live(tag)' = Shelf!Live(tag) \ {t}
  BY <1>2, <1>3 DEF Shelf!Live, ShelfInv, TablesTyped
<1>6. ASSUME NEW o \in Procs \ {p}
      PROVE  (\A l \in proc[o].ins : l[2] # t) /\ (proc[o].pc = "merged" => proc[o].from # t)
  BY <1>1 DEF Shelf!DropWaits, Shelf!Others, Shelf!Doomed, Shelf!AtPc
<1>7. \A l \in links' : Referring(l)'
  BY <1>3, <1>5 DEF ShelfInv, Referred, Referring
<1>8. \A o \in Procs \ {p} : \A l \in proc[o].ins : Referring(l)'
  BY <1>5, <1>6 DEF ShelfInv, Referred, Referring
<1>9. \A o \in Procs \ {p} : proc[o].pc = "merged" =>
          proc[o].from \in Shelf!Live(tag)' /\ \A l \in links' : l[2] = proc[o].from => l \in proc[o].del
  BY <1>3, <1>5, <1>6 DEF ShelfInv, Dooming
<1>10. \A q \in Shelf!Live(part)' : part'[q] \in Shelf!Live(cat)' \cup {NoCat}
  BY <1>2, <1>5 DEF ShelfInv, Referred
<1> QED BY <1>2, <1>4, <1>7, <1>8, <1>9, <1>10, TableStep DEF Shelf!Finish

\* The merge commits: the tag goes with every link to it, those that came since included.
LEMMA CommitMergeKeeps == ASSUME ShelfInv, NEW p \in Procs, Shelf!CommitMerge(p) PROVE ShelfInv'
<1> DEFINE from == proc[p].from
<1>1. UNCHANGED <<part, cat, home, file>> /\ Shelf!Finish(p) /\ proc[p].pc = "merged"
  BY DEF Shelf!CommitMerge, Shelf!PartsUnchanged, Shelf!AtPc
<1>2. tag' = [tag EXCEPT ![from] = Gone] /\ links' = (links \ proc[p].del) \cup proc[p].ins
  BY DEF Shelf!CommitMerge
<1>3. /\ from \in Shelf!Live(tag) /\ (\A l \in links : l[2] = from => l \in proc[p].del)
      /\ proc[p].ins \subseteq Pairs /\ (\A l \in proc[p].ins : l[2] # from)
  BY <1>1, ProcRow DEF ShelfInv, Dooming, StageOf, ProcRows
<1>4. TablesTyped'
  BY <1>1, <1>2, <1>3 DEF ShelfInv, TablesTyped
<1>5. /\ Shelf!Live(part)' = Shelf!Live(part) /\ Shelf!Live(cat)' = Shelf!Live(cat)
      /\ Shelf!Live(tag)' = Shelf!Live(tag) \ {from}
  BY <1>1, <1>2 DEF Shelf!Live, ShelfInv, TablesTyped
<1>6. \A o \in Procs \ {p} : (\A l \in proc[o].ins : l[2] # from) /\ (proc[o].pc = "merged" => proc[o].from # from)
  BY <1>1 DEF ShelfInv, Dooming
<1>7. \A l \in links' : l[2] # from /\ Referring(l)
  BY <1>2, <1>3 DEF ShelfInv, Referred
<1>8. \A o \in Procs \ {p} : \A l \in proc[o].ins : Referring(l)'
  BY <1>5, <1>6 DEF ShelfInv, Referred, Referring
<1>9. \A o \in Procs \ {p} : proc[o].pc = "merged" =>
          proc[o].from \in Shelf!Live(tag)' /\ \A l \in links' : l[2] = proc[o].from => l \in proc[o].del
  BY <1>2, <1>5, <1>6 DEF ShelfInv, Dooming
<1>10. \A q \in Shelf!Live(part)' : part'[q] \in Shelf!Live(cat)' \cup {NoCat}
  BY <1>1, <1>5 DEF ShelfInv, Referred
<1>11. \A l \in links' : Referring(l)'
  BY <1>5, <1>7 DEF Referring
<1> QED BY <1>1, <1>4, <1>8, <1>9, <1>10, <1>11, TableStep DEF Shelf!Finish

\* Links are taken away, or those of a transaction added, and no row goes.
LEMMA LinkStep ==
    ASSUME ShelfInv, NEW p \in Procs, Shelf!Finish(p), UNCHANGED <<part, tag, cat, home, file>>,
           \A l \in links' : l \in links \cup proc[p].ins
    PROVE  ShelfInv'
<1>1. \A l \in links' : l \in Pairs /\ Referring(l)
  BY ProcRow DEF ShelfInv, TablesTyped, Referred, ProcRows
<1>2. TablesTyped'
  BY <1>1 DEF ShelfInv, TablesTyped
<1>3. /\ Shelf!Live(part)' = Shelf!Live(part) /\ Shelf!Live(cat)' = Shelf!Live(cat)
      /\ Shelf!Live(tag)' = Shelf!Live(tag)
  BY DEF Shelf!Live
<1>4. \A l : Referring(l)' <=> Referring(l)
  BY <1>3 DEF Referring
<1>5. \A o \in Procs \ {p} : proc[o].pc = "merged" =>
          proc[o].from \in Shelf!Live(tag)' /\ \A l \in links' : l[2] = proc[o].from => l \in proc[o].del
  BY <1>3 DEF ShelfInv, Dooming
<1>6. \A q \in Shelf!Live(part)' : part'[q] \in Shelf!Live(cat)' \cup {NoCat}
  BY <1>3 DEF ShelfInv, Referred
<1>7. \A o \in Procs \ {p} : \A l \in proc[o].ins : Referring(l)'
  BY <1>4 DEF ShelfInv, Referred
<1> QED BY <1>1, <1>2, <1>4, <1>5, <1>6, <1>7, TableStep DEF Shelf!Finish

LEMMA CommitTagsKeeps == ASSUME ShelfInv, NEW p \in Procs, Shelf!CommitTags(p) PROVE ShelfInv'
<1>1. Shelf!Finish(p) /\ UNCHANGED <<part, tag, cat, home, file>>
      /\ links' = (links \ proc[p].del) \cup proc[p].ins
  BY DEF Shelf!CommitTags, Shelf!PartsUnchanged
<1> QED BY <1>1, LinkStep

LEMMA RemovePartTagsKeeps == ASSUME ShelfInv, NEW p \in Procs, Shelf!RemovePartTags(p) PROVE ShelfInv'
<1>1. Shelf!Finish(p) /\ UNCHANGED <<part, tag, cat, home, file>>
  BY DEF Shelf!RemovePartTags, Shelf!PartsUnchanged
<1>2. PICK q \in Shelf!Live(part), slugs \in SUBSET Slugs : links' = links \ Shelf!Carried(q, slugs)
  BY DEF Shelf!RemovePartTags
<1> QED BY <1>1, <1>2, LinkStep

\* What the names of a request become: a tag for each, the ones there are and new ones.
LEMMA Resolved ==
    ASSUME ShelfInv, NEW p \in Procs, Shelf!Resolve(p)
    PROVE  /\ proc[p].pc = "resolve" /\ UNCHANGED <<part, cat, links, file, home, owed>>
           /\ tag' \in [Tags -> Slugs \cup {Unused, Gone}] /\ (\A t \in Shelf!Live(tag) : tag'[t] = tag[t])
           /\ (\E t \in Tags : tag'[t] # tag[t]) => crossed' = crossed \cup Shelf!Adds("tags")
           /\ crossed \subseteq crossed' /\ crossed' \subseteq crossed \cup Shelf!Adds("tags")
           /\ LET r == [proc[p] EXCEPT !.pc = IF proc[p].add THEN "insert" ELSE "replace",
                                       !.ids = {t \in Tags : tag'[t] \in proc[p].ids}]
              IN  r \in ProcRows /\ StageOf(r) /\ r.ins = {} /\ r.del = {} /\ proc' = [proc EXCEPT ![p] = r]
<1> DEFINE missing == proc[p].ids \ {tag[t] : t \in Shelf!Live(tag)}
<1>1. PICK new \in [missing -> Shelf!Fresh(tag)] :
          /\ \A r, s \in missing : new[r] = new[s] => r = s
          /\ tag' = [t \in Tags |-> IF \E s \in missing : new[s] = t
                                    THEN CHOOSE s \in missing : new[s] = t ELSE tag[t]]
          /\ crossed' = crossed \cup IF missing = {} THEN {} ELSE Shelf!Adds("tags")
  BY DEF Shelf!Resolve
<1>2. proc[p].pc = "resolve" /\ UNCHANGED <<part, cat, links, file, home, owed>>
  BY DEF Shelf!Resolve, Shelf!PartsUnchanged, Shelf!AtPc
<1>3. proc[p] \in ProcRows /\ StageOf(proc[p]) /\ missing \subseteq Slugs
  BY <1>2, ProcRow DEF StageOf
<1> HIDE DEF missing
<1>4. tag' \in [Tags -> Slugs \cup {Unused, Gone}]
  <2> SUFFICES ASSUME NEW t \in Tags PROVE tag'[t] \in Slugs \cup {Unused, Gone}
    BY <1>1
  <2>1. CASE \E s \in missing : new[s] = t
    BY <1>1, <1>3, <2>1
  <2>2. CASE ~\E s \in missing : new[s] = t
    BY <1>1, <2>2 DEF ShelfInv, TablesTyped
  <2> QED BY <2>1, <2>2
<1>5. \A t \in Shelf!Live(tag) : tag'[t] = tag[t]
  <2>1. \A s \in missing : new[s] \notin Shelf!Live(tag)
    BY <1>1 DEF Shelf!Live, Shelf!Fresh
  <2> QED BY <1>1, <2>1, LiveIn
<1>6. (\E t \in Tags : tag'[t] # tag[t]) => missing # {}
  BY <1>1
<1> DEFINE ids == {t \in Tags : tag'[t] \in proc[p].ids}
           pc == IF proc[p].add THEN "insert" ELSE "replace"
           r == [proc[p] EXCEPT !.pc = pc, !.ids = ids]
<1>7. proc' = [proc EXCEPT ![p].pc = pc, ![p].ids = ids]
  BY <1>2 DEF Shelf!Resolve, ShelfInv, ProcsTyped
<1>8. ids \subseteq Tags
  OBVIOUS
<1> HIDE DEF ids
<1>9. proc' = [proc EXCEPT ![p] = r]
  BY <1>7 DEF ShelfInv, ProcsTyped
<1>10. r \in ProcRows /\ StageOf(r) /\ r.ins = {} /\ r.del = {}
  <2>1. proc[p].ids \subseteq Slugs /\ proc[p].add \in BOOLEAN /\ proc[p].part \in Parts
        /\ proc[p].ins = {} /\ proc[p].del = {}
    BY <1>2, <1>3 DEF StageOf, ProcRows
  <2>2. CASE proc[p].add
    BY <1>3, <1>8, <2>1, <2>2 DEF ProcRows, StageOf
  <2>3. CASE ~proc[p].add
    BY <1>3, <1>8, <2>1, <2>3 DEF ProcRows, StageOf
  <2> QED BY <2>1, <2>2, <2>3
<1> HIDE DEF r
<1>11. crossed \subseteq crossed' /\ crossed' \subseteq crossed \cup Shelf!Adds("tags")
       /\ (missing # {} => crossed' = crossed \cup Shelf!Adds("tags"))
  BY <1>1
<1> QED BY <1>2, <1>4, <1>5, <1>6, <1>9, <1>10, <1>11 DEF r, ids

\* Names become tags: the tags there were stay.
LEMMA ResolveKeeps == ASSUME ShelfInv, NEW p \in Procs, Shelf!Resolve(p) PROVE ShelfInv'
<1> DEFINE ids == {t \in Tags : tag'[t] \in proc[p].ids}
           r == [proc[p] EXCEPT !.pc = IF proc[p].add THEN "insert" ELSE "replace", !.ids = ids]
<1>1. /\ r \in ProcRows /\ StageOf(r) /\ r.ins = {} /\ proc' = [proc EXCEPT ![p] = r]
      /\ UNCHANGED <<part, cat, links, file, home>> /\ proc[p].pc = "resolve"
      /\ tag' \in [Tags -> Slugs \cup {Unused, Gone}] /\ (\A t \in Shelf!Live(tag) : tag'[t] = tag[t])
  BY Resolved
<1>2. r.pc # "merged"
  BY <1>1, ProcRow DEF ProcRows
<1>3. Shelf!Live(tag) \subseteq Shelf!Live(tag)'
  BY <1>1, LiveIn DEF Shelf!Live
<1> HIDE DEF r
<1> QED BY <1>1, <1>2, <1>3, RowAndTagStep

-----------------------------------------------------------------------------
\* Categories, parts and imports: no tag or link goes but with its part.

\* A request about categories and parts ends.
LEMMA CatStep ==
    ASSUME ShelfInv, NEW p \in Procs, Shelf!Finish(p), UNCHANGED <<tag, links, file>>,
           cat' \in [Cats -> Names \cup {Unused, Gone}], home' \in [Parts -> Cats \cup {NoCat}],
           part' \in [Parts -> Cats \cup {NoCat, Unused, Gone}], Shelf!Live(part) \subseteq Shelf!Live(part)',
           \A q \in Shelf!Live(part)' : part'[q] \in Shelf!Live(cat)' \cup {NoCat}
    PROVE  ShelfInv'
<1>1. TablesTyped'
  BY DEF ShelfInv, TablesTyped
<1>2. Shelf!Live(tag)' = Shelf!Live(tag)
  BY DEF Shelf!Live
<1>3. \A l : Referring(l) => Referring(l)'
  BY <1>2 DEF Referring
<1> QED BY <1>1, <1>2, <1>3, TableStep DEF ShelfInv, Referred, Dooming, Shelf!Finish

LEMMA CreateCategoryKeeps == ASSUME ShelfInv, NEW p \in Procs, Shelf!CreateCategory(p) PROVE ShelfInv'
<1>1. PICK c \in Shelf!Fresh(cat), n \in Names : cat' = [cat EXCEPT ![c] = n]
  BY DEF Shelf!CreateCategory, Shelf!InsertCategory
<1>2. Shelf!Finish(p) /\ UNCHANGED <<part, tag, links, home, file>>
  BY DEF Shelf!CreateCategory, Shelf!TagsUnchanged, Shelf!PartsUnchanged
<1>3. cat' \in [Cats -> Names \cup {Unused, Gone}] /\ Shelf!Live(cat) \subseteq Shelf!Live(cat)'
  BY <1>1 DEF ShelfInv, TablesTyped, Shelf!Live, Shelf!Fresh
<1>4. Shelf!Live(part)' = Shelf!Live(part)
  BY <1>2 DEF Shelf!Live
<1> QED BY <1>2, <1>3, <1>4, CatStep DEF ShelfInv, TablesTyped, Referred

LEMMA UpdateCategoryKeeps == ASSUME ShelfInv, NEW p \in Procs, Shelf!UpdateCategory(p) PROVE ShelfInv'
<1>1. PICK c \in Shelf!Live(cat), n \in Names : cat' = [cat EXCEPT ![c] = n]
  BY DEF Shelf!UpdateCategory, Shelf!RenameCategory
<1>2. Shelf!Finish(p) /\ UNCHANGED <<part, tag, links, home, file>>
  BY DEF Shelf!UpdateCategory, Shelf!TagsUnchanged, Shelf!PartsUnchanged
<1>3. cat' \in [Cats -> Names \cup {Unused, Gone}] /\ Shelf!Live(cat) \subseteq Shelf!Live(cat)'
  BY <1>1, CatalogueAssumption DEF ShelfInv, TablesTyped, Shelf!Live
<1>4. Shelf!Live(part)' = Shelf!Live(part)
  BY <1>2 DEF Shelf!Live
<1> QED BY <1>2, <1>3, <1>4, CatStep DEF ShelfInv, TablesTyped, Referred

\* A category goes, and the parts filed under it are filed nowhere.
LEMMA DeleteCategoryKeeps == ASSUME ShelfInv, NEW p \in Procs, Shelf!DeleteCategory(p) PROVE ShelfInv'
<1> DEFINE c == proc[p].cat
<1>1. /\ Shelf!Finish(p) /\ UNCHANGED <<tag, links, home, file>> /\ c \in Cats
      /\ cat' = IF c \in Shelf!Live(cat) THEN [cat EXCEPT ![c] = Gone] ELSE cat
      /\ part' = [q \in Parts |-> IF part[q] = c THEN NoCat ELSE part[q]]
  BY ProcRow DEF Shelf!DeleteCategory, Shelf!TagsUnchanged, Shelf!DropCategory, StageOf, Shelf!AtPc
<1> HIDE DEF c
<1>2. cat' \in [Cats -> Names \cup {Unused, Gone}] /\ Shelf!Live(cat)' = Shelf!Live(cat) \ {c}
  BY <1>1 DEF ShelfInv, TablesTyped, Shelf!Live
<1>3. part' \in [Parts -> Cats \cup {NoCat, Unused, Gone}] /\ Shelf!Live(part)' = Shelf!Live(part)
  BY <1>1, CatalogueAssumption DEF ShelfInv, TablesTyped, Shelf!Live
<1>4. \A q \in Shelf!Live(part)' : part'[q] \in Shelf!Live(cat)' \cup {NoCat}
  BY <1>1, <1>2, <1>3, LiveIn DEF ShelfInv, Referred
<1> QED BY <1>1, <1>2, <1>3, <1>4, CatStep DEF ShelfInv, TablesTyped

\* A part is stored under a category there is, or under none.
LEMMA StoreKeeps ==
    ASSUME ShelfInv, NEW p \in Procs, Shelf!Finish(p), UNCHANGED <<tag, cat, links, file>>,
           NEW q \in Parts, NEW c \in Shelf!Live(cat) \cup {NoCat}, part' = [part EXCEPT ![q] = c],
           home' \in [Parts -> Cats \cup {NoCat}]
    PROVE  ShelfInv'
<1>1. c \in Cats \cup {NoCat} /\ c \notin {Unused, Gone}
  BY LiveIn, CatalogueAssumption
<1>2. part' \in [Parts -> Cats \cup {NoCat, Unused, Gone}] /\ Shelf!Live(part)' = Shelf!Live(part) \cup {q}
  BY <1>1 DEF ShelfInv, TablesTyped, Shelf!Live
<1>3. Shelf!Live(cat)' = Shelf!Live(cat)
  BY DEF Shelf!Live
<1>4. \A x \in Shelf!Live(part)' : part'[x] \in Shelf!Live(cat)' \cup {NoCat}
  BY <1>2, <1>3 DEF ShelfInv, Referred, TablesTyped
<1> QED BY <1>2, <1>4, CatStep DEF ShelfInv, TablesTyped

LEMMA CreatePartKeeps == ASSUME ShelfInv, NEW p \in Procs, Shelf!CreatePart(p) PROVE ShelfInv'
<1>1. PICK q \in Shelf!Fresh(part), c \in Shelf!Live(cat) \cup {NoCat} :
          part' = [part EXCEPT ![q] = c] /\ home' = [home EXCEPT ![q] = c]
  BY DEF Shelf!CreatePart, Shelf!StorePart
<1>2. Shelf!Finish(p) /\ UNCHANGED <<tag, cat, links, file>>
  BY DEF Shelf!CreatePart, Shelf!TagsUnchanged
<1>3. q \in Parts /\ home' \in [Parts -> Cats \cup {NoCat}]
  BY <1>1, LiveIn DEF Shelf!Fresh, ShelfInv, TablesTyped
<1> QED BY <1>1, <1>2, <1>3, StoreKeeps

\* A part is written when its category is there.
LEMMA WritePartKeeps == ASSUME ShelfInv, NEW p \in Procs, Shelf!WritePart(p) PROVE ShelfInv'
<1> DEFINE q == proc[p].part
           c == proc[p].cat
<1>1. Shelf!Finish(p) /\ UNCHANGED <<tag, cat, links, file>>
  BY DEF Shelf!WritePart, Shelf!TagsUnchanged
<1>2. CASE q \in Shelf!Live(part) /\ c \in Shelf!Live(cat) \cup {NoCat}
  <2>1. part' = [part EXCEPT ![q] = c] /\ home' = IF proc[p].carry THEN home ELSE [home EXCEPT ![q] = c]
    BY <1>2 DEF Shelf!WritePart, Shelf!StorePart
  <2>2. q \in Parts /\ c \in Cats \cup {NoCat}
    BY <1>2, LiveIn
  <2>3. home' \in [Parts -> Cats \cup {NoCat}]
    BY <2>1, <2>2 DEF ShelfInv, TablesTyped
  <2> HIDE DEF q, c
  <2> QED BY <1>1, <1>2, <2>1, <2>2, <2>3, StoreKeeps
<1>3. CASE ~(q \in Shelf!Live(part) /\ c \in Shelf!Live(cat) \cup {NoCat})
  <2>1. UNCHANGED <<part, home>>
    BY <1>3 DEF Shelf!WritePart, Shelf!PartsUnchanged
  <2> QED BY <1>1, <2>1, FinishKeeps
<1> QED BY <1>2, <1>3

\* A part goes with its links, and with nothing that is to be committed.
LEMMA DeletePartKeeps == ASSUME ShelfInv, NEW p \in Procs, Shelf!DeletePart(p) PROVE ShelfInv'
<1>1. PICK q \in Shelf!Live(part) :
          /\ \A o \in Procs \ {p} : \A l \in proc[o].ins \cup proc[o].del : l[1] # q
          /\ part' = [part EXCEPT ![q] = Gone] /\ links' = links \ Shelf!Of(q) /\ home' = [home EXCEPT ![q] = NoCat]
  BY DEF Shelf!DeletePart, Shelf!Others, Shelf!DropPart
<1>2. Shelf!Finish(p) /\ UNCHANGED <<tag, cat, file>>
  BY DEF Shelf!DeletePart
<1>3. TablesTyped'
  BY <1>1, <1>2, LiveIn DEF ShelfInv, TablesTyped
<1>4. /\ Shelf!Live(part)' = Shelf!Live(part) \ {q} /\ Shelf!Live(cat)' = Shelf!Live(cat)
      /\ Shelf!Live(tag)' = Shelf!Live(tag)
  BY <1>1, <1>2 DEF Shelf!Live, ShelfInv, TablesTyped
<1>5. \A l \in links' : l \in links /\ l[1] # q
  BY <1>1 DEF Shelf!Of
<1>6. \A l \in links' : Referring(l)'
  BY <1>4, <1>5 DEF ShelfInv, Referred, Referring
<1>7. \A o \in Procs \ {p} : \A l \in proc[o].ins : Referring(l)'
  BY <1>1, <1>4 DEF ShelfInv, Referred, Referring
<1>8. \A o \in Procs \ {p} : proc[o].pc = "merged" =>
          proc[o].from \in Shelf!Live(tag)' /\ \A l \in links' : l[2] = proc[o].from => l \in proc[o].del
  BY <1>4, <1>5 DEF ShelfInv, Dooming
<1>9. \A x \in Shelf!Live(part)' : part'[x] \in Shelf!Live(cat)' \cup {NoCat}
  BY <1>1, <1>4, LiveIn DEF ShelfInv, Referred
<1> QED BY <1>2, <1>3, <1>6, <1>7, <1>8, <1>9, TableStep DEF Shelf!Finish

\* What a table is once it has been replaced by rows.
LEMMA Tabled ==
    ASSUME NEW X, NEW V, NEW old \in [X -> V \cup {Unused, Gone}], NEW S \in SUBSET X, NEW rows \in [S -> V],
           Unused \notin V, Gone \notin V
    PROVE  /\ Shelf!Table(old, rows) \in [X -> V \cup {Unused, Gone}]
           /\ Shelf!Live(Shelf!Table(old, rows)) = S
           /\ \A x \in S : Shelf!Table(old, rows)[x] = rows[x]
           /\ \A x \in X : Shelf!Table(old, rows)[x] = Unused => old[x] = Unused
BY CatalogueAssumption DEF Shelf!Table, Shelf!Live

\* The tables of a file, as functions.
LEMMA FileRows ==
    ASSUME NEW f \in Files
    PROVE  /\ DOMAIN f.part \subseteq Parts /\ f.part \in [DOMAIN f.part -> Cats \cup {NoCat}]
           /\ DOMAIN f.tag \subseteq Tags /\ f.tag \in [DOMAIN f.tag -> Slugs]
           /\ DOMAIN f.cat \subseteq Cats /\ f.cat \in [DOMAIN f.cat -> Names]
           /\ f.links \subseteq Pairs
<1>1. f.part \in PartTables /\ f.tag \in TagTables /\ f.cat \in CatTables /\ f.links \in SUBSET Pairs
  BY DEF Files
<1>2. DOMAIN f.part \subseteq Parts /\ f.part \in [DOMAIN f.part -> Cats \cup {NoCat}]
  BY <1>1 DEF PartTables
<1>3. DOMAIN f.tag \subseteq Tags /\ f.tag \in [DOMAIN f.tag -> Slugs]
  BY <1>1 DEF TagTables
<1>4. DOMAIN f.cat \subseteq Cats /\ f.cat \in [DOMAIN f.cat -> Names]
  BY <1>1 DEF CatTables
<1> QED BY <1>1, <1>2, <1>3, <1>4

\* What an import leaves in the tables is of their types.
LEMMA ImportedIsFile ==
    ASSUME ShelfInv, NEW f \in Files, NEW replace \in BOOLEAN
    PROVE  Shelf!Imported(f, replace) \in Files
<1>1. CASE replace
  BY <1>1 DEF Shelf!Imported
<1>2. CASE ~replace
  <2> DEFINE ps == DOMAIN f.part \ Shelf!Live(part)
             ts == Shelf!Absent(tag, f.tag)
             cs == Shelf!Absent(cat, f.cat)
  <2>1. ps \subseteq DOMAIN f.part /\ ts \subseteq DOMAIN f.tag /\ cs \subseteq DOMAIN f.cat
    BY DEF Shelf!Absent
  <2> HIDE DEF ps, ts, cs
  <2>2. Shelf!Added(part, f.part, ps) \in PartTables
    <3>1. \A q \in Shelf!Live(part) : part[q] \in Cats \cup {NoCat}
      BY LiveIn DEF ShelfInv, Referred
    <3>2. Shelf!Live(part) \cup ps \in SUBSET Parts
      BY <2>1, LiveIn, FileRows
    <3>3. Shelf!Added(part, f.part, ps) \in [Shelf!Live(part) \cup ps -> Cats \cup {NoCat}]
      BY <2>1, <3>1, FileRows DEF Shelf!Added
    <3> QED BY <3>2, <3>3 DEF PartTables
  <2>3. Shelf!Added(tag, f.tag, ts) \in TagTables
    <3>1. \A q \in Shelf!Live(tag) : tag[q] \in Slugs
      BY DEF ShelfInv, TablesTyped, Shelf!Live
    <3>2. Shelf!Live(tag) \cup ts \in SUBSET Tags
      BY <2>1, LiveIn, FileRows
    <3>3. Shelf!Added(tag, f.tag, ts) \in [Shelf!Live(tag) \cup ts -> Slugs]
      BY <2>1, <3>1, FileRows DEF Shelf!Added
    <3> QED BY <3>2, <3>3 DEF TagTables
  <2>4. Shelf!Added(cat, f.cat, cs) \in CatTables
    <3>1. \A q \in Shelf!Live(cat) : cat[q] \in Names
      BY DEF ShelfInv, TablesTyped, Shelf!Live
    <3>2. Shelf!Live(cat) \cup cs \in SUBSET Cats
      BY <2>1, LiveIn, FileRows
    <3>3. Shelf!Added(cat, f.cat, cs) \in [Shelf!Live(cat) \cup cs -> Names]
      BY <2>1, <3>1, FileRows DEF Shelf!Added
    <3> QED BY <3>2, <3>3 DEF CatTables
  <2>5. links \cup f.links \in SUBSET Pairs
    BY FileRows DEF ShelfInv, TablesTyped
  <2>6. Shelf!Imported(f, replace) = [part |-> Shelf!Added(part, f.part, ps), tag |-> Shelf!Added(tag, f.tag, ts),
                                     cat |-> Shelf!Added(cat, f.cat, cs), links |-> links \cup f.links]
    BY <1>2 DEF Shelf!Imported, ps, ts, cs
  <2> QED BY <2>2, <2>3, <2>4, <2>5, <2>6 DEF Files
<1> QED BY <1>1, <1>2

\* What an import leaves: the rows of a file that is closed.
LEMMA Importing ==
    ASSUME ShelfInv, NEW p \in Procs, Shelf!ImportAll(p)
    PROVE  \E f \in file, replace \in BOOLEAN :
               LET all == Shelf!Imported(f, replace)
               IN  /\ f \in Files /\ all \in Files /\ Shelf!Closed(all)
                   /\ part' \in [Parts -> Cats \cup {NoCat, Unused, Gone}] /\ Shelf!Live(part)' = DOMAIN all.part
                   /\ tag' \in [Tags -> Slugs \cup {Unused, Gone}] /\ Shelf!Live(tag)' = DOMAIN all.tag
                   /\ cat' \in [Cats -> Names \cup {Unused, Gone}] /\ Shelf!Live(cat)' = DOMAIN all.cat
                   /\ links' = all.links /\ links' \in SUBSET Pairs
                   /\ \A q \in Shelf!Live(part)' : part'[q] = all.part[q]
                   /\ \A q \in Parts : part'[q] = Unused => part[q] = Unused
                   /\ owed' = IF replace THEN f.links ELSE owed \cup (f.links \ links)
                   /\ home' = [q \in Parts |-> IF q \in Shelf!Live(part') /\ (replace \/ q \notin Shelf!Live(part))
                                               THEN part'[q] ELSE home[q]]
<1>1. PICK f \in file, replace \in BOOLEAN :
          LET all == Shelf!Imported(f, replace)
          IN  /\ Shelf!Closed(all)
              /\ part' = Shelf!Table(part, all.part) /\ tag' = Shelf!Table(tag, all.tag)
              /\ cat' = Shelf!Table(cat, all.cat) /\ links' = all.links
              /\ owed' = IF replace THEN f.links ELSE owed \cup (f.links \ links)
              /\ home' = [q \in Parts |-> IF q \in Shelf!Live(part') /\ (replace \/ q \notin Shelf!Live(part))
                                          THEN part'[q] ELSE home[q]]
  BY DEF Shelf!ImportAll
<1> DEFINE all == Shelf!Imported(f, replace)
<1>2. f \in Files /\ all \in Files
  BY ImportedIsFile DEF ShelfInv, TablesTyped
<1>a. /\ Shelf!Closed(all)
      /\ part' = Shelf!Table(part, all.part) /\ tag' = Shelf!Table(tag, all.tag)
      /\ cat' = Shelf!Table(cat, all.cat) /\ links' = all.links
  BY <1>1
<1> HIDE DEF all
<1>3. /\ part' \in [Parts -> Cats \cup {NoCat, Unused, Gone}] /\ Shelf!Live(part') = DOMAIN all.part
      /\ (\A q \in DOMAIN all.part : part'[q] = all.part[q])
      /\ \A q \in Parts : part'[q] = Unused => part[q] = Unused
  <2> DEFINE V == Cats \cup {NoCat}
  <2>1. part \in [Parts -> V \cup {Unused, Gone}] /\ Unused \notin V /\ Gone \notin V
    <3>1. V \cup {Unused, Gone} = Cats \cup {NoCat, Unused, Gone}
      OBVIOUS
    <3> QED BY <3>1, CatalogueAssumption DEF ShelfInv, TablesTyped
  <2>2. DOMAIN all.part \in SUBSET Parts /\ all.part \in [DOMAIN all.part -> V]
    BY <1>2, FileRows
  <2> HIDE DEF V
  <2>3. LET new == Shelf!Table(part, all.part)
        IN  /\ new \in [Parts -> V \cup {Unused, Gone}] /\ Shelf!Live(new) = DOMAIN all.part
            /\ (\A q \in DOMAIN all.part : new[q] = all.part[q])
            /\ \A q \in Parts : new[q] = Unused => part[q] = Unused
    BY ONLY <2>1, <2>2, Tabled
  <2>4. V \cup {Unused, Gone} = Cats \cup {NoCat, Unused, Gone}
    BY DEF V
  <2> QED BY <1>a, <2>3, <2>4
<1>4. tag' \in [Tags -> Slugs \cup {Unused, Gone}] /\ Shelf!Live(tag') = DOMAIN all.tag
  <2>1. tag \in [Tags -> Slugs \cup {Unused, Gone}] /\ Unused \notin Slugs /\ Gone \notin Slugs
    BY CatalogueAssumption DEF ShelfInv, TablesTyped
  <2>2. DOMAIN all.tag \in SUBSET Tags /\ all.tag \in [DOMAIN all.tag -> Slugs]
    BY <1>2, FileRows
  <2>3. LET new == Shelf!Table(tag, all.tag)
        IN  new \in [Tags -> Slugs \cup {Unused, Gone}] /\ Shelf!Live(new) = DOMAIN all.tag
    BY ONLY <2>1, <2>2, Tabled
  <2> QED BY <1>a, <2>3
<1>5. cat' \in [Cats -> Names \cup {Unused, Gone}] /\ Shelf!Live(cat') = DOMAIN all.cat
  <2>1. cat \in [Cats -> Names \cup {Unused, Gone}] /\ Unused \notin Names /\ Gone \notin Names
    BY CatalogueAssumption DEF ShelfInv, TablesTyped
  <2>2. DOMAIN all.cat \in SUBSET Cats /\ all.cat \in [DOMAIN all.cat -> Names]
    BY <1>2, FileRows
  <2>3. LET new == Shelf!Table(cat, all.cat)
        IN  new \in [Cats -> Names \cup {Unused, Gone}] /\ Shelf!Live(new) = DOMAIN all.cat
    BY ONLY <2>1, <2>2, Tabled
  <2> QED BY <1>a, <2>3
<1>6. links' \in SUBSET Pairs
  BY <1>2, <1>a, FileRows
<1>7. /\ Shelf!Live(part)' = Shelf!Live(part') /\ Shelf!Live(tag)' = Shelf!Live(tag')
      /\ Shelf!Live(cat)' = Shelf!Live(cat')
  BY DEF Shelf!Live
<1>8. /\ owed' = IF replace THEN f.links ELSE owed \cup (f.links \ links)
      /\ home' = [q \in Parts |-> IF q \in Shelf!Live(part') /\ (replace \/ q \notin Shelf!Live(part))
                                  THEN part'[q] ELSE home[q]]
  BY <1>1
<1> WITNESS f \in file, replace \in BOOLEAN
<1> QED BY <1>2, <1>3, <1>4, <1>5, <1>6, <1>7, <1>8, <1>a DEF all

\* An import commits rows that refer to rows, when no transaction is open.
LEMMA ImportAllKeeps == ASSUME ShelfInv, NEW p \in Procs, Shelf!ImportAll(p) PROVE ShelfInv'
<1>1. PICK f \in file, replace \in BOOLEAN :
               LET all == Shelf!Imported(f, replace)
               IN  /\ f \in Files /\ all \in Files /\ Shelf!Closed(all)
                   /\ part' \in [Parts -> Cats \cup {NoCat, Unused, Gone}] /\ Shelf!Live(part)' = DOMAIN all.part
                   /\ tag' \in [Tags -> Slugs \cup {Unused, Gone}] /\ Shelf!Live(tag)' = DOMAIN all.tag
                   /\ cat' \in [Cats -> Names \cup {Unused, Gone}] /\ Shelf!Live(cat)' = DOMAIN all.cat
                   /\ links' = all.links /\ links' \in SUBSET Pairs
                   /\ \A q \in Shelf!Live(part)' : part'[q] = all.part[q]
                   /\ home' = [q \in Parts |-> IF q \in Shelf!Live(part') /\ (replace \/ q \notin Shelf!Live(part))
                                               THEN part'[q] ELSE home[q]]
  BY Importing
<1> DEFINE all == Shelf!Imported(f, replace)
<1>a. /\ Shelf!Closed(all) /\ Shelf!Live(part)' = DOMAIN all.part /\ Shelf!Live(tag)' = DOMAIN all.tag
      /\ Shelf!Live(cat)' = DOMAIN all.cat /\ links' = all.links
      /\ \A q \in Shelf!Live(part)' : part'[q] = all.part[q]
  BY <1>1
<1> HIDE DEF all
<1>2. Shelf!Finish(p) /\ UNCHANGED file /\ \A o \in Procs : proc[o].ins = {} /\ proc[o].pc # "merged"
  BY DEF Shelf!ImportAll, Shelf!Doomed, Shelf!AtPc
<1>3. \A q \in Shelf!Live(part)' : part'[q] \in Shelf!Live(cat)' \cup {NoCat}
  BY <1>a DEF Shelf!Closed
<1>4. \A l \in links' : Referring(l)'
  BY <1>a DEF Shelf!Closed, Referring
<1>5. home' \in [Parts -> Cats \cup {NoCat}]
  <2>1. \A q \in Shelf!Live(part') : part'[q] \in Cats \cup {NoCat}
    <3>1. Shelf!Live(cat)' \subseteq Cats /\ Shelf!Live(part') = Shelf!Live(part)'
      BY <1>1 DEF Shelf!Live
    <3> QED BY <1>3, <3>1
  <2> QED BY <1>1, <2>1 DEF ShelfInv, TablesTyped
<1>6. TablesTyped'
  BY <1>1, <1>2, <1>5 DEF ShelfInv, TablesTyped
<1> QED BY <1>2, <1>3, <1>4, <1>6, TableStep DEF Shelf!Finish

LEMMA DeadlockKeeps == ASSUME ShelfInv, NEW p \in Procs, Shelf!Deadlock(p) PROVE ShelfInv'
BY FinishKeeps DEF Shelf!Deadlock, Shelf!TagsUnchanged, Shelf!PartsUnchanged

\* So every step of a request keeps them.
LEMMA ShelfStep == ShelfInv /\ Shelf!Next => ShelfInv'
<1> SUFFICES ASSUME ShelfInv, NEW p \in Procs, Shelf!Request(p) PROVE ShelfInv'
  BY DEF Shelf!Next
<1> QED
  BY CreateTagKeeps, UpdateTagKeeps, DeleteTagKeeps, BeginMergeKeeps, CopyLinksKeeps, DropMergedKeeps,
     CommitMergeKeeps, BeginPartTagsKeeps, ResolveKeeps, ReplaceTagsKeeps, InsertTagsKeeps, CommitTagsKeeps,
     RemovePartTagsKeeps, CreateCategoryKeeps, UpdateCategoryKeeps, CountPartsKeeps, DeleteCategoryKeeps,
     CreatePartKeeps, ReadPartKeeps, WritePartKeeps, DeletePartKeeps, BeginExportKeeps, ExportTableKeeps,
     FinishExportKeeps, ImportAllKeeps, DeadlockKeeps
  DEF Shelf!Request

-----------------------------------------------------------------------------
\* Tags as asked.

\* Links that no open transaction has read change nothing of what one will store.
LEMMA Untouched ==
    ASSUME NEW p, NEW o \in Procs, o # p, NEW r, r = proc[o], AskedOf(r),
           NEW changed, "tags" \notin Shelf!Touched(p, changed),
           \A l : l \notin changed => (l \in links' <=> l \in links)
    PROVE  AskedOf(r)'
<1>1. \A l \in changed : /\ r.pc \in {"delete", "merged"} => l[2] # r.from /\ l[2] # r.into
                         /\ r.pc \in {"insert", "replaced"} => l[1] # r.part
  BY DEF Shelf!Touched, Shelf!Others
<1>2. r.pc \in {"delete", "merged"} => Shelf!On(r.from)' = Shelf!On(r.from)
  BY <1>1 DEF Shelf!On
<1>3. r.pc \in {"delete", "merged"} =>
          {<<l[1], r.into>> : l \in Shelf!On(r.from)} \ links' = {<<l[1], r.into>> : l \in Shelf!On(r.from)} \ links
  BY <1>1
<1>4. r.pc \in {"insert", "replaced"} => Shelf!Of(r.part)' = Shelf!Of(r.part)
  BY <1>1 DEF Shelf!Of
<1>5. r.pc \in {"insert", "replaced"} =>
          {<<r.part, t>> : t \in r.ids} \ (links' \ r.del) = {<<r.part, t>> : t \in r.ids} \ (links \ r.del)
  BY <1>1
<1> QED BY <1>2, <1>3, <1>4, <1>5 DEF AskedOf

\* A step of one request that changes no link.
LEMMA AskedRow ==
    ASSUME ShelfInv, Asked, NEW p \in Procs, NEW r, proc' = [proc EXCEPT ![p] = r],
           UNCHANGED <<links, owed>>, crossed \subseteq crossed', "tags" \notin crossed => AskedOf(r)
    PROVE  Asked'
<1> SUFFICES ASSUME "tags" \notin crossed' PROVE links' = owed' /\ \A o \in Procs : AskedOf(proc[o])'
  BY DEF Asked
<1>1. links = owed /\ AskedOf(r) /\ \A o \in Procs : AskedOf(proc[o])
  BY DEF Asked
<1>2. \A o \in Procs : proc'[o] = r \/ proc'[o] = proc[o]
  BY DEF ShelfInv, ProcsTyped
<1>3. \A o \in Procs : AskedOf(proc[o])'
  BY <1>1, <1>2 DEF AskedOf, Shelf!On, Shelf!Of
<1> QED BY <1>1, <1>3

\* A step that ends a request and changes links.
LEMMA AskedStep ==
    ASSUME ShelfInv, Asked, NEW p \in Procs, Shelf!Finish(p), NEW changed,
           crossed \cup Shelf!Touched(p, changed) \subseteq crossed',
           \A l : l \notin changed => (l \in links' <=> l \in links),
           "tags" \notin crossed' /\ links = owed /\ AskedOf(proc[p]) => links' = owed'
    PROVE  Asked'
<1> SUFFICES ASSUME "tags" \notin crossed' PROVE links' = owed' /\ \A o \in Procs : AskedOf(proc[o])'
  BY DEF Asked
<1>1. links = owed /\ "tags" \notin Shelf!Touched(p, changed) /\ \A o \in Procs : AskedOf(proc[o])
  BY DEF Asked
<1>2. proc'[p] = Shelf!Done /\ \A o \in Procs \ {p} : proc'[o] = proc[o]
  BY DEF ShelfInv, ProcsTyped, Shelf!Finish
<1>3. AskedOf(proc[p])'
  BY <1>2, NoRows DEF AskedOf
<1>4. ASSUME NEW o \in Procs \ {p} PROVE AskedOf(proc[o])'
  <2>1. \A r : r = proc[o] => AskedOf(r)'
    BY <1>1, Untouched
  <2> QED BY <1>2, <2>1 DEF AskedOf, Shelf!On, Shelf!Of
<1> QED BY <1>1, <1>3, <1>4

\* A request that changes no link ends.
LEMMA AskedFinish ==
    ASSUME ShelfInv, Asked, NEW p \in Procs, Shelf!Finish(p), UNCHANGED <<links, owed>>, crossed \subseteq crossed'
    PROVE  Asked'
BY AskedRow, NoRows DEF Shelf!Finish, AskedOf

\* Requests that touch no links.
LEMMA AskedElsewhere ==
    ASSUME ShelfInv, Asked, NEW p \in Procs,
           \/ Shelf!CreateTag(p) \/ Shelf!UpdateTag(p) \/ Shelf!CreateCategory(p) \/ Shelf!UpdateCategory(p)
           \/ Shelf!DeleteCategory(p) \/ Shelf!CreatePart(p) \/ Shelf!WritePart(p) \/ Shelf!FinishExport(p)
           \/ Shelf!Deadlock(p)
    PROVE  Asked'
<1>1. Shelf!Finish(p) /\ UNCHANGED <<links, owed>>
  BY DEF Shelf!CreateTag, Shelf!UpdateTag, Shelf!CreateCategory, Shelf!UpdateCategory, Shelf!DeleteCategory,
         Shelf!CreatePart, Shelf!WritePart, Shelf!FinishExport, Shelf!Deadlock, Shelf!TagsUnchanged
<1>2. crossed \subseteq crossed'
  BY DEF Shelf!CreateTag, Shelf!UpdateTag, Shelf!CreateCategory, Shelf!UpdateCategory, Shelf!DeleteCategory,
         Shelf!CreatePart, Shelf!WritePart, Shelf!FinishExport, Shelf!Deadlock
<1> QED BY <1>1, <1>2, AskedFinish

\* What requests hold that begin.
LEMMA Begun ==
    ASSUME NEW p \in Procs
    PROVE  /\ Shelf!BeginMerge(p) => \E r : proc' = [proc EXCEPT ![p] = r] /\ r.pc = "copy"
           /\ Shelf!BeginPartTags(p) => \E r : proc' = [proc EXCEPT ![p] = r] /\ r.pc = "resolve"
           /\ Shelf!CountParts(p) => \E r : /\ proc' = [proc EXCEPT ![p] = r] /\ r.pc = "drop"
                                            /\ Shelf!Empty(r.cat)
           /\ Shelf!ReadPart(p) => \E r : /\ proc' = [proc EXCEPT ![p] = r] /\ r.pc = "write"
                                          /\ r.part \in Shelf!Live(part) /\ (r.carry => r.cat = part[r.part])
           /\ Shelf!BeginExport(p) => \E r : /\ proc' = [proc EXCEPT ![p] = r] /\ r.pc = "tags"
                                             /\ r.copy = Shelf!Read(Shelf!NoFile, "categories")
<1>1. ASSUME Shelf!BeginMerge(p) PROVE \E r : proc' = [proc EXCEPT ![p] = r] /\ r.pc = "copy"
  <2>1. PICK from, into \in Shelf!Live(tag) :
            proc' = [proc EXCEPT ![p] = [Shelf!NoProc EXCEPT !.pc = "copy", !.from = from, !.into = into]]
    BY <1>1 DEF Shelf!BeginMerge
  <2>2. [Shelf!NoProc EXCEPT !.pc = "copy", !.from = from, !.into = into].pc = "copy"
    BY DEF Shelf!NoProc
  <2> QED BY <2>1, <2>2
<1>2. ASSUME Shelf!BeginPartTags(p) PROVE \E r : proc' = [proc EXCEPT ![p] = r] /\ r.pc = "resolve"
  <2>1. PICK q \in Shelf!Live(part), add \in BOOLEAN, slugs \in SUBSET Slugs :
            proc' = [proc EXCEPT ![p] = [Shelf!NoProc EXCEPT !.pc = "resolve", !.part = q, !.add = add, !.ids = slugs]]
    BY <1>2 DEF Shelf!BeginPartTags
  <2>2. [Shelf!NoProc EXCEPT !.pc = "resolve", !.part = q, !.add = add, !.ids = slugs].pc = "resolve"
    BY DEF Shelf!NoProc
  <2> QED BY <2>1, <2>2
<1>3. ASSUME Shelf!CountParts(p)
      PROVE  \E r : proc' = [proc EXCEPT ![p] = r] /\ r.pc = "drop" /\ Shelf!Empty(r.cat)
  <2>1. PICK c \in Shelf!Live(cat) :
            Shelf!Empty(c) /\ proc' = [proc EXCEPT ![p] = [Shelf!NoProc EXCEPT !.pc = "drop", !.cat = c]]
    BY <1>3 DEF Shelf!CountParts
  <2> DEFINE r == [Shelf!NoProc EXCEPT !.pc = "drop", !.cat = c]
  <2>2. r.pc = "drop" /\ r.cat = c
    BY DEF Shelf!NoProc
  <2>3. proc' = [proc EXCEPT ![p] = r]
    BY <2>1
  <2> HIDE DEF r
  <2> QED BY <2>1, <2>2, <2>3
<1>4. ASSUME Shelf!ReadPart(p)
      PROVE  \E r : /\ proc' = [proc EXCEPT ![p] = r] /\ r.pc = "write"
                    /\ r.part \in Shelf!Live(part) /\ (r.carry => r.cat = part[r.part])
  <2>1. PICK q \in Shelf!Live(part) : \E patch \in Shelf!Patches(q) : Shelf!Hold(p, q, patch)
    BY <1>4 DEF Shelf!ReadPart
  <2>2. PICK patch \in Shelf!Patches(q) : Shelf!Hold(p, q, patch)
    BY <2>1
  <2> DEFINE c == patch.cat
             y == patch.carry
             r == [Shelf!NoProc EXCEPT !.pc = "write", !.part = q, !.cat = c, !.carry = y]
  <2>3. y => c = part[q]
    BY DEF Shelf!Patches, Shelf!Mentioned
  <2>4. proc' = [proc EXCEPT ![p] = r]
    BY <2>2 DEF Shelf!Hold
  <2> HIDE DEF c, y
  <2>5. r.pc = "write" /\ r.part = q /\ r.cat = c /\ r.carry = y
    BY DEF Shelf!NoProc
  <2> HIDE DEF r
  <2> QED BY <2>1, <2>3, <2>4, <2>5
<1>5. ASSUME Shelf!BeginExport(p)
      PROVE  \E r : /\ proc' = [proc EXCEPT ![p] = r] /\ r.pc = "tags"
                    /\ r.copy = Shelf!Read(Shelf!NoFile, "categories")
  <2> DEFINE f == Shelf!Read(Shelf!NoFile, "categories")
             r == [Shelf!NoProc EXCEPT !.pc = "tags", !.copy = f]
  <2>1. proc' = [proc EXCEPT ![p] = r]
    BY <1>5, TableOrder DEF Shelf!BeginExport
  <2> HIDE DEF f
  <2>2. r.pc = "tags" /\ r.copy = f
    BY DEF Shelf!NoProc
  <2> HIDE DEF r
  <2> QED BY <2>1, <2>2 DEF f
<1> QED BY <1>1, <1>2, <1>3, <1>4, <1>5

\* Requests that begin have read no links yet.
LEMMA AskedBegins ==
    ASSUME ShelfInv, Asked, NEW p \in Procs,
           \/ Shelf!BeginMerge(p) \/ Shelf!BeginPartTags(p) \/ Shelf!CountParts(p) \/ Shelf!ReadPart(p)
           \/ Shelf!BeginExport(p)
    PROVE  Asked'
<1>1. UNCHANGED <<links, owed>> /\ crossed \subseteq crossed'
  BY DEF Shelf!BeginMerge, Shelf!BeginPartTags, Shelf!CountParts, Shelf!ReadPart, Shelf!BeginExport,
         Shelf!TagsUnchanged
<1>2. \E r : proc' = [proc EXCEPT ![p] = r] /\ r.pc \in {"copy", "resolve", "drop", "write", "tags"}
  BY Begun
<1>3. PICK r : proc' = [proc EXCEPT ![p] = r] /\ r.pc \in {"copy", "resolve", "drop", "write", "tags"}
  BY <1>2
<1>4. AskedOf(r)
  BY <1>3 DEF AskedOf
<1> QED BY <1>1, <1>3, <1>4, AskedRow

\* An export has nothing to store.
LEMMA AskedExport == ASSUME ShelfInv, Asked, NEW p \in Procs, Shelf!ExportTable(p) PROVE Asked'
<1> DEFINE r == [proc[p] EXCEPT !.pc = IF proc[p].pc = "tags" THEN "parts" ELSE "part_tags",
                                !.copy = Shelf!Read(proc[p].copy, proc[p].pc)]
<1>1. proc' = [proc EXCEPT ![p] = r] /\ UNCHANGED <<links, owed, crossed>> /\ proc[p] \in ProcRows
  BY Exporting, ProcRow
<1>2. r.pc \in {"parts", "part_tags"}
  BY <1>1 DEF ProcRows
<1>3. AskedOf(r)
  BY <1>2 DEF AskedOf
<1> HIDE DEF r
<1> QED BY <1>1, <1>3, AskedRow

\* What a merge copies is what was linked, for nobody has met it.
LEMMA AskedCopy == ASSUME ShelfInv, Asked, NEW p \in Procs, Shelf!CopyLinks(p) PROVE Asked'
<1>1. UNCHANGED <<links, owed>> /\ crossed \subseteq crossed'
  BY DEF Shelf!CopyLinks, Shelf!TagsUnchanged
<1>2. CASE Shelf!Finish(p)
  BY <1>1, <1>2, AskedFinish
<1>3. CASE ~Shelf!Finish(p)
  <2> DEFINE new == Shelf!ToInsert(p)
             r == [proc[p] EXCEPT !.pc = "delete", !.ins = new]
  <2>1. proc[p].pc = "copy" /\ proc' = [proc EXCEPT ![p].pc = "delete", ![p].ins = new]
    BY <1>3 DEF Shelf!CopyLinks, Shelf!Copied, Shelf!AtPc
  <2>2. new = {<<l[1], proc[p].into>> : l \in Shelf!On(proc[p].from)} \ links
    BY <2>1, Inserted
  <2>3. proc' = [proc EXCEPT ![p] = r]
    BY <2>1 DEF ShelfInv, ProcsTyped
  <2> HIDE DEF new
  <2>4. r.pc = "delete" /\ r.ins = new /\ r.into = proc[p].into /\ r.from = proc[p].from
    BY ProcRow DEF ProcRows
  <2> HIDE DEF r
  <2>5. AskedOf(r)
    BY <2>2, <2>4 DEF AskedOf
  <2> QED BY <1>1, <2>3, <2>5, AskedRow
<1> QED BY <1>2, <1>3

\* What it deletes too.
LEMMA AskedDropMerged == ASSUME ShelfInv, Asked, NEW p \in Procs, Shelf!DropMerged(p) PROVE Asked'
<1>1. UNCHANGED <<links, owed>> /\ crossed \subseteq crossed'
  BY DEF Shelf!DropMerged, Shelf!TagsUnchanged
<1>2. CASE Shelf!Finish(p)
  BY <1>1, <1>2, AskedFinish
<1>3. CASE ~Shelf!Finish(p)
  <2> DEFINE gone == Shelf!On(proc[p].from)
             r == [proc[p] EXCEPT !.pc = "merged", !.del = gone]
  <2>1. proc[p].pc = "delete" /\ proc' = [proc EXCEPT ![p].pc = "merged", ![p].del = gone]
    BY <1>3 DEF Shelf!DropMerged, Shelf!AtPc
  <2>2. proc' = [proc EXCEPT ![p] = r]
    BY <2>1 DEF ShelfInv, ProcsTyped
  <2>3. "tags" \notin crossed => proc[p].ins = {<<l[1], proc[p].into>> : l \in Shelf!On(proc[p].from)} \ links
    BY <2>1 DEF Asked, AskedOf
  <2>4. /\ r.pc = "merged" /\ r.ins = proc[p].ins /\ r.into = proc[p].into /\ r.from = proc[p].from
        /\ r.del = Shelf!On(proc[p].from)
    BY ProcRow DEF ProcRows
  <2> HIDE DEF r
  <2>5. "tags" \notin crossed => AskedOf(r)
    BY <2>3, <2>4 DEF AskedOf
  <2> QED BY <1>1, <2>2, <2>5, AskedRow
<1> QED BY <1>2, <1>3

LEMMA AskedResolve == ASSUME ShelfInv, Asked, NEW p \in Procs, Shelf!Resolve(p) PROVE Asked'
<1> DEFINE ids == {t \in Tags : tag'[t] \in proc[p].ids}
           r == [proc[p] EXCEPT !.pc = IF proc[p].add THEN "insert" ELSE "replace", !.ids = ids]
<1>1. /\ proc' = [proc EXCEPT ![p] = r] /\ UNCHANGED <<links, owed>> /\ crossed \subseteq crossed'
      /\ proc[p] \in ProcRows
  BY Resolved, ProcRow
<1>2. /\ r.add = proc[p].add /\ (proc[p].add => r.pc = "insert") /\ (~proc[p].add => r.pc = "replace")
      /\ proc[p].add \in BOOLEAN
  BY <1>1 DEF ProcRows
<1> HIDE DEF r
<1>3. AskedOf(r)
  BY <1>2 DEF AskedOf
<1> QED BY <1>1, <1>3, AskedRow

\* What a replacement deletes and inserts is what the names ask for.
LEMMA AskedReplace == ASSUME ShelfInv, Asked, NEW p \in Procs, Shelf!ReplaceTags(p) PROVE Asked'
<1> DEFINE gone == Shelf!Unnamed(p)
           r == [proc[p] EXCEPT !.pc = "insert", !.del = gone]
<1>1. UNCHANGED <<links, owed, crossed>> /\ proc' = [proc EXCEPT ![p].pc = "insert", ![p].del = gone]
  BY DEF Shelf!ReplaceTags, Shelf!TagsUnchanged
<1>2. proc' = [proc EXCEPT ![p] = r]
  BY <1>1 DEF ShelfInv, ProcsTyped
<1>3. gone = {l \in Shelf!Of(proc[p].part) : l[2] \notin proc[p].ids}
  BY DEF Shelf!Unnamed
<1> HIDE DEF gone
<1>4. r.pc = "insert" /\ r.del = gone /\ r.part = proc[p].part /\ r.ids = proc[p].ids
  BY ProcRow DEF ProcRows
<1> HIDE DEF r
<1>5. AskedOf(r)
  BY <1>3, <1>4 DEF AskedOf
<1> QED BY <1>1, <1>2, <1>5, AskedRow

LEMMA AskedInsert == ASSUME ShelfInv, Asked, NEW p \in Procs, Shelf!InsertTags(p) PROVE Asked'
<1>1. UNCHANGED <<links, owed>> /\ crossed \subseteq crossed'
  BY DEF Shelf!InsertTags, Shelf!TagsUnchanged
<1>2. CASE Shelf!Finish(p)
  BY <1>1, <1>2, AskedFinish
<1>3. CASE ~Shelf!Finish(p)
  <2> DEFINE new == Shelf!ToInsert(p)
             r == [proc[p] EXCEPT !.pc = "replaced", !.ins = new]
  <2>1. proc[p].pc = "insert" /\ proc' = [proc EXCEPT ![p].pc = "replaced", ![p].ins = new]
    BY <1>3 DEF Shelf!InsertTags, Shelf!AtPc
  <2>2. new = {<<proc[p].part, t>> : t \in proc[p].ids} \ (links \ proc[p].del)
    BY <2>1, Inserted
  <2>3. proc' = [proc EXCEPT ![p] = r]
    BY <2>1 DEF ShelfInv, ProcsTyped
  <2> HIDE DEF new
  <2>4. /\ r.pc = "replaced" /\ r.ins = new /\ r.part = proc[p].part /\ r.ids = proc[p].ids
        /\ r.del = proc[p].del /\ r.add = proc[p].add
    BY ProcRow DEF ProcRows
  <2> HIDE DEF r
  <2>5. "tags" \notin crossed => AskedOf(r)
    BY <2>1, <2>2, <2>4 DEF AskedOf, Asked
  <2> QED BY <1>1, <2>3, <2>5, AskedRow
<1> QED BY <1>2, <1>3

\* The links of a tag go with it, in what is stored and in what is asked.
LEMMA AskedDeleteTag == ASSUME ShelfInv, Asked, NEW p \in Procs, Shelf!DeleteTag(p) PROVE Asked'
<1>1. PICK t \in Shelf!Live(tag) :
          links' = links \ Shelf!On(t) /\ owed' = {l \in owed : l[2] # t}
          /\ crossed' = crossed \cup Shelf!Touched(p, Shelf!On(t))
  BY DEF Shelf!DeleteTag, Shelf!DropTag
<1>2. \A l : l \notin Shelf!On(t) => (l \in links' <=> l \in links)
  BY <1>1
<1>3. links = owed => links' = owed'
  BY <1>1 DEF Shelf!On
<1> QED BY <1>1, <1>2, <1>3, AskedStep DEF Shelf!DeleteTag

LEMMA AskedRemove == ASSUME ShelfInv, Asked, NEW p \in Procs, Shelf!RemovePartTags(p) PROVE Asked'
<1>1. PICK q \in Shelf!Live(part), slugs \in SUBSET Slugs :
          /\ links' = links \ Shelf!Carried(q, slugs)
          /\ owed' = {l \in owed : ~(l[1] = q /\ l[2] \in Shelf!Tagged(slugs))}
          /\ crossed' = crossed \cup Shelf!Touched(p, Shelf!Carried(q, slugs))
  BY DEF Shelf!RemovePartTags
<1>2. \A l : l \notin Shelf!Carried(q, slugs) => (l \in links' <=> l \in links)
  BY <1>1
<1>3. links = owed => links' = owed'
  BY <1>1 DEF Shelf!Carried, Shelf!Of
<1> QED BY <1>1, <1>2, <1>3, AskedStep DEF Shelf!RemovePartTags

LEMMA AskedDeletePart == ASSUME ShelfInv, Asked, NEW p \in Procs, Shelf!DeletePart(p) PROVE Asked'
<1>1. PICK q \in Shelf!Live(part) :
          /\ links' = links \ Shelf!Of(q) /\ owed' = {l \in owed : l[1] # q}
          /\ crossed' = crossed \cup Shelf!Touched(p, Shelf!Of(q))
  BY DEF Shelf!DeletePart, Shelf!DropPart
<1>2. \A l : l \notin Shelf!Of(q) => (l \in links' <=> l \in links)
  BY <1>1
<1>3. links = owed => links' = owed'
  BY <1>1 DEF Shelf!Of
<1> QED BY <1>1, <1>2, <1>3, AskedStep DEF Shelf!DeletePart

\* A merge: the links of the one tag become links of the other.
LEMMA AskedCommitMerge == ASSUME ShelfInv, Asked, NEW p \in Procs, Shelf!CommitMerge(p) PROVE Asked'
<1> DEFINE from == proc[p].from
           into == proc[p].into
           shifted == {l \in owed : l[2] = from}
           changed == proc[p].del \cup proc[p].ins
<1>1. /\ proc[p].pc = "merged" /\ Shelf!Finish(p) /\ links' = (links \ proc[p].del) \cup proc[p].ins
      /\ owed' = (owed \ shifted) \cup {<<l[1], into>> : l \in shifted}
      /\ crossed' = crossed \cup Shelf!Touched(p, changed)
  BY DEF Shelf!CommitMerge, Shelf!AtPc
<1>2. \A l : l \notin changed => (l \in links' <=> l \in links)
  BY <1>1
<1>3. ASSUME links = owed, AskedOf(proc[p]) PROVE links' = owed'
  <2>1. /\ proc[p].ins = {<<l[1], into>> : l \in Shelf!On(from)} \ links
        /\ proc[p].del = Shelf!On(from)
    BY <1>1, <1>3 DEF AskedOf
  <2>2. from # into /\ shifted = Shelf!On(from)
    BY <1>1, <1>3, ProcRow DEF StageOf, Shelf!On
  <2>3. \A l \in {<<x[1], into>> : x \in Shelf!On(from)} : l \notin Shelf!On(from)
    BY <2>2 DEF Shelf!On
  <2> HIDE DEF shifted, from, into
  <2> QED BY <1>1, <1>3, <2>1, <2>2, <2>3
<1> QED BY <1>1, <1>2, <1>3, AskedStep

\* A replacement: exactly the tags that were named, or those besides.
LEMMA AskedCommitTags == ASSUME ShelfInv, Asked, NEW p \in Procs, Shelf!CommitTags(p) PROVE Asked'
<1> DEFINE q == proc[p].part
           ids == proc[p].ids
           asked == {<<q, t>> : t \in ids \cap Shelf!Live(tag)}
           had == {l \in owed : l[1] = q}
           changed == proc[p].del \cup proc[p].ins
<1>1. /\ proc[p].pc = "replaced" /\ Shelf!Finish(p) /\ links' = (links \ proc[p].del) \cup proc[p].ins
      /\ owed' = IF q \notin Shelf!Live(part) THEN owed
                 ELSE (IF proc[p].add THEN owed ELSE owed \ had) \cup asked
      /\ crossed' = crossed \cup Shelf!Touched(p, changed)
  BY DEF Shelf!CommitTags, Shelf!AtPc
<1>2. \A l : l \notin changed => (l \in links' <=> l \in links)
  BY <1>1
<1>3. ASSUME links = owed, AskedOf(proc[p]) PROVE links' = owed'
  <2>1. /\ proc[p].ins = {<<q, t>> : t \in ids} \ (links \ proc[p].del)
        /\ ~proc[p].add => proc[p].del = {l \in Shelf!Of(q) : l[2] \notin ids}
        /\ proc[p].add => proc[p].del = {}
    BY <1>1, <1>3, ProcRow DEF AskedOf, StageOf
  <2>2. links' = (links \ proc[p].del) \cup {<<q, t>> : t \in ids}
    BY <1>1, <2>1
  <2>3. \A l \in links \cup proc[p].ins : Referring(l)
    BY DEF ShelfInv, Referred
  <2>4. \A l \in links : l \in Pairs
    BY DEF ShelfInv, TablesTyped
  <2>5. CASE q \notin Shelf!Live(part)
    <3>1. \A l \in links \cup proc[p].ins : l[1] # q
      BY <2>3, <2>5 DEF Referring
    <3>2. proc[p].del = {}
      BY <2>1, <3>1, ProcRow DEF Shelf!Of, ProcRows
    <3>3. proc[p].ins = {}
      BY <1>1, <3>1, ProcRow DEF StageOf
    <3> QED BY <1>1, <1>3, <2>5, <3>2, <3>3
  <2>6. CASE q \in Shelf!Live(part)
    <3>1. \A t \in ids : t \in Shelf!Live(tag)
      <4> SUFFICES ASSUME NEW t \in ids PROVE t \in Shelf!Live(tag)
        OBVIOUS
      <4>1. <<q, t>> \in links \cup proc[p].ins
        BY <2>1
      <4>2. Referring(<<q, t>>)
        BY <2>3, <4>1
      <4> QED BY <4>2 DEF Referring
    <3>2. asked = {<<q, t>> : t \in ids}
      BY <3>1
    <3>3. CASE proc[p].add
      BY <1>1, <1>3, <2>1, <2>2, <2>6, <3>2, <3>3
    <3>4. CASE ~proc[p].add
      <4>1. owed' = (links \ Shelf!Of(q)) \cup {<<q, t>> : t \in ids}
        <5>1. had = Shelf!Of(q)
          BY <1>3 DEF Shelf!Of
        <5> HIDE DEF asked, had
        <5> QED BY <1>1, <1>3, <2>6, <3>2, <3>4, <5>1
      <4>2. links' = (links \ {l \in Shelf!Of(q) : l[2] \notin ids}) \cup {<<q, t>> : t \in ids}
        BY <2>1, <2>2, <3>4
      <4>3. \A l \in Shelf!Of(q) : l[2] \in ids => l \in {<<q, t>> : t \in ids}
        BY <2>4, LinkParts DEF Shelf!Of
      <4> HIDE DEF q, ids
      <4> QED BY <4>1, <4>2, <4>3
    <3> QED BY <3>3, <3>4, ProcRow DEF ProcRows
  <2> QED BY <2>5, <2>6
<1> QED BY <1>1, <1>2, <1>3, AskedStep

\* Whom an import meets in the middle.
LEMMA ImportAlone ==
    ASSUME ShelfInv, NEW p \in Procs, Shelf!ImportAll(p), {"tags", "filing", "export"} \ crossed' # {}
    PROVE  \A o \in Procs : proc[o].pc \in {"idle", "done"}
BY DEF Shelf!ImportAll, Shelf!Others, Shelf!AtPc

\* An import asks for what it stores.
LEMMA AskedImport == ASSUME ShelfInv, Asked, NEW p \in Procs, Shelf!ImportAll(p) PROVE Asked'
<1> SUFFICES ASSUME "tags" \notin crossed' PROVE links' = owed' /\ \A o \in Procs : AskedOf(proc[o])'
  BY DEF Asked
<1>1. \A o \in Procs : proc[o].pc \in {"idle", "done"}
  BY ImportAlone
<1>2. crossed \subseteq crossed' /\ Shelf!Finish(p)
  BY DEF Shelf!ImportAll
<1>3. PICK f \in file, replace \in BOOLEAN :
          /\ links' = Shelf!Imported(f, replace).links
          /\ owed' = IF replace THEN f.links ELSE owed \cup (f.links \ links)
  BY Importing
<1>4. links = owed
  BY <1>2 DEF Asked
<1>5. Shelf!Imported(f, replace).links = IF replace THEN f.links ELSE links \cup f.links
  BY DEF Shelf!Imported
<1>6. links' = owed'
  BY <1>3, <1>4, <1>5
<1>7. \A o \in Procs : proc'[o].pc \in {"idle", "done"}
  BY <1>1, <1>2, NoRows DEF ShelfInv, ProcsTyped, Shelf!Finish
<1> QED BY <1>6, <1>7 DEF AskedOf

\* So no step loses or adds a link that was not asked for.
LEMMA AskedKept == ShelfInv /\ Asked /\ Shelf!Next => Asked'
<1> SUFFICES ASSUME ShelfInv, Asked, NEW p \in Procs, Shelf!Request(p) PROVE Asked'
  BY DEF Shelf!Next
<1> QED
  BY AskedElsewhere, AskedBegins, AskedExport, AskedCopy, AskedDropMerged, AskedCommitMerge, AskedResolve,
     AskedReplace, AskedInsert, AskedCommitTags, AskedRemove, AskedDeleteTag, AskedDeletePart, AskedImport
  DEF Shelf!Request

-----------------------------------------------------------------------------
\* Parts as they were filed.

\* A statement that files no part.
LEMMA FiledRow ==
    ASSUME ShelfInv, Written, Filed, NEW p \in Procs, NEW r, proc' = [proc EXCEPT ![p] = r],
           UNCHANGED <<part, home>>, crossed \subseteq crossed',
           r.pc = "write" => r.part \in Shelf!Live(part),
           "filing" \notin crossed => FiledOf(r)
    PROVE  Written' /\ Filed'
<1>1. \A o \in Procs : proc'[o] = r \/ proc'[o] = proc[o]
  BY DEF ShelfInv, ProcsTyped
<1>2. Written'
  <2>1. r.pc = "write" => r.part \in Parts /\ part[r.part] # Unused
    BY LiveIn DEF Shelf!Live
  <2> QED BY <1>1, <2>1 DEF Written
<1>3. Filed'
  <2> SUFFICES ASSUME "filing" \notin crossed'
               PROVE  (\A q \in Shelf!Live(part)' : part'[q] = home'[q]) /\ \A o \in Procs : FiledOf(proc[o])'
    BY DEF Filed
  <2>1. FiledOf(r) /\ (\A q \in Shelf!Live(part) : part[q] = home[q]) /\ \A o \in Procs : FiledOf(proc[o])
    BY DEF Filed
  <2>2. Shelf!Live(part)' = Shelf!Live(part)
    BY DEF Shelf!Live
  <2>3. \A o \in Procs : FiledOf(proc[o])'
    BY <1>1, <2>1, <2>2 DEF FiledOf
  <2> QED BY <2>1, <2>2, <2>3
<1> QED BY <1>2, <1>3

\* A step that ends a request and may change what parts are filed under.
LEMMA FiledStep ==
    ASSUME ShelfInv, Written, Filed, NEW p \in Procs, Shelf!Finish(p), crossed \subseteq crossed',
           \A q \in Parts : part'[q] = Unused => part[q] = Unused,
           "filing" \notin crossed' => /\ \A q \in Shelf!Live(part)' : part'[q] = home'[q]
                                       /\ \A o \in Procs \ {p} : \A r : r = proc[o] => FiledOf(r)'
    PROVE  Written' /\ Filed'
<1>1. proc'[p] = Shelf!Done /\ \A o \in Procs \ {p} : proc'[o] = proc[o]
  BY DEF ShelfInv, ProcsTyped, Shelf!Finish
<1>2. Written'
  BY <1>1, NoRows DEF Written
<1>3. ASSUME "filing" \notin crossed', NEW o \in Procs PROVE FiledOf(proc[o])'
  <2>1. CASE o = p
    BY <1>1, <2>1, NoRows DEF FiledOf
  <2>2. CASE o # p
    <3>1. \A r : r = proc[o] => FiledOf(r)'
      BY <1>3, <2>2
    <3> QED BY <1>1, <2>2, <3>1 DEF FiledOf, Shelf!Live
  <2> QED BY <2>1, <2>2
<1> QED BY <1>2, <1>3 DEF Filed

\* A request that files no part ends.
LEMMA FiledFinish ==
    ASSUME ShelfInv, Written, Filed, NEW p \in Procs, Shelf!Finish(p), UNCHANGED <<part, home>>, crossed \subseteq crossed'
    PROVE  Written' /\ Filed'
BY FiledRow, NoRows DEF Shelf!Finish, FiledOf

\* Requests that end without a word on categories of parts.
LEMMA FiledElsewhere ==
    ASSUME ShelfInv, Written, Filed, NEW p \in Procs,
           \/ Shelf!CreateTag(p) \/ Shelf!UpdateTag(p) \/ Shelf!DeleteTag(p) \/ Shelf!CommitMerge(p)
           \/ Shelf!CommitTags(p) \/ Shelf!RemovePartTags(p) \/ Shelf!CreateCategory(p) \/ Shelf!UpdateCategory(p)
           \/ Shelf!FinishExport(p) \/ Shelf!Deadlock(p)
    PROVE  Written' /\ Filed'
<1>1. Shelf!Finish(p) /\ UNCHANGED <<part, home>>
  BY DEF Shelf!CreateTag, Shelf!UpdateTag, Shelf!DeleteTag, Shelf!CommitMerge, Shelf!CommitTags,
         Shelf!RemovePartTags, Shelf!CreateCategory, Shelf!UpdateCategory, Shelf!FinishExport, Shelf!Deadlock,
         Shelf!PartsUnchanged
<1>2. crossed \subseteq crossed'
  BY DEF Shelf!CreateTag, Shelf!UpdateTag, Shelf!DeleteTag, Shelf!CommitMerge, Shelf!CommitTags,
         Shelf!RemovePartTags, Shelf!CreateCategory, Shelf!UpdateCategory, Shelf!FinishExport, Shelf!Deadlock
<1> QED BY <1>1, <1>2, FiledFinish

\* Requests on their way that neither count nor write parts.
LEMMA OnTheirWay ==
    ASSUME ShelfInv, NEW p \in Procs,
           \/ Shelf!BeginMerge(p) \/ Shelf!CopyLinks(p) \/ Shelf!DropMerged(p) \/ Shelf!BeginPartTags(p)
           \/ Shelf!Resolve(p) \/ Shelf!ReplaceTags(p) \/ Shelf!InsertTags(p)
    PROVE  /\ Shelf!Finish(p) \/ \E r : /\ proc' = [proc EXCEPT ![p] = r]
                                        /\ r.pc \in {"copy", "delete", "merged", "resolve", "replace", "insert", "replaced"}
           /\ UNCHANGED <<part, cat, links, file, home>> /\ crossed \subseteq crossed'
<1>1. UNCHANGED <<part, cat, links, file, home>>
  BY DEF Shelf!BeginMerge, Shelf!CopyLinks, Shelf!DropMerged, Shelf!BeginPartTags, Shelf!Resolve, Shelf!ReplaceTags,
         Shelf!InsertTags, Shelf!PartsUnchanged, Shelf!TagsUnchanged
<1>2. crossed \subseteq crossed'
  BY DEF Shelf!BeginMerge, Shelf!CopyLinks, Shelf!DropMerged, Shelf!BeginPartTags, Shelf!Resolve, Shelf!ReplaceTags,
         Shelf!InsertTags
<1>3. Shelf!Finish(p) \/ \E r : /\ proc' = [proc EXCEPT ![p] = r]
                                /\ r.pc \in {"copy", "delete", "merged", "resolve", "replace", "insert", "replaced"}
  <2>1. CASE Shelf!BeginMerge(p) \/ Shelf!BeginPartTags(p)
    BY <2>1, Begun
  <2>2. CASE Shelf!CopyLinks(p) /\ ~Shelf!Finish(p)
    <3> DEFINE r == [proc[p] EXCEPT !.pc = "delete", !.ins = Shelf!Copied(p)]
    <3>1. proc' = [proc EXCEPT ![p] = r] /\ r.pc = "delete"
      BY <2>2, ProcRow DEF Shelf!CopyLinks, ProcRows, ShelfInv, ProcsTyped
    <3> QED BY <3>1
  <2>3. CASE Shelf!DropMerged(p) /\ ~Shelf!Finish(p)
    <3> DEFINE r == [proc[p] EXCEPT !.pc = "merged", !.del = Shelf!On(proc[p].from)]
    <3>1. proc' = [proc EXCEPT ![p] = r] /\ r.pc = "merged"
      BY <2>3, ProcRow DEF Shelf!DropMerged, ProcRows, ShelfInv, ProcsTyped
    <3> QED BY <3>1
  <2>4. CASE Shelf!Resolve(p)
    <3> DEFINE r == [proc[p] EXCEPT !.pc = IF proc[p].add THEN "insert" ELSE "replace",
                                    !.ids = {t \in Tags : tag'[t] \in proc[p].ids}]
    <3>1. proc' = [proc EXCEPT ![p] = r] /\ proc[p] \in ProcRows
      BY <2>4, Resolved, ProcRow
    <3>2. r.pc \in {"replace", "insert"}
      BY <3>1 DEF ProcRows
    <3> QED BY <3>1, <3>2
  <2>5. CASE Shelf!ReplaceTags(p)
    <3> DEFINE r == [proc[p] EXCEPT !.pc = "insert", !.del = Shelf!Unnamed(p)]
    <3>1. proc' = [proc EXCEPT ![p] = r] /\ r.pc = "insert"
      BY <2>5, ProcRow DEF Shelf!ReplaceTags, ProcRows, ShelfInv, ProcsTyped
    <3> QED BY <3>1
  <2>6. CASE Shelf!InsertTags(p) /\ ~Shelf!Finish(p)
    <3> DEFINE r == [proc[p] EXCEPT !.pc = "replaced", !.ins = Shelf!ToInsert(p)]
    <3>1. proc' = [proc EXCEPT ![p] = r] /\ r.pc = "replaced"
      BY <2>6, ProcRow DEF Shelf!InsertTags, ProcRows, ShelfInv, ProcsTyped
    <3> QED BY <3>1
  <2> QED BY <2>1, <2>2, <2>3, <2>4, <2>5, <2>6
<1> QED BY <1>1, <1>2, <1>3

\* Statements that begin no filing.
LEMMA FiledOnTheWay ==
    ASSUME ShelfInv, Written, Filed, NEW p \in Procs,
           \/ Shelf!BeginMerge(p) \/ Shelf!CopyLinks(p) \/ Shelf!DropMerged(p) \/ Shelf!BeginPartTags(p)
           \/ Shelf!Resolve(p) \/ Shelf!ReplaceTags(p) \/ Shelf!InsertTags(p)
           \/ Shelf!BeginExport(p) \/ Shelf!ExportTable(p)
    PROVE  Written' /\ Filed'
<1>1. CASE Shelf!BeginExport(p)
  <2>1. UNCHANGED <<part, home>> /\ crossed \subseteq crossed'
    BY <1>1 DEF Shelf!BeginExport, Shelf!PartsUnchanged
  <2>2. \E r : proc' = [proc EXCEPT ![p] = r] /\ r.pc = "tags"
    BY <1>1, Begun
  <2> QED BY <2>1, <2>2, FiledRow DEF FiledOf
<1>2. CASE Shelf!ExportTable(p)
  <2> DEFINE r == [proc[p] EXCEPT !.pc = IF proc[p].pc = "tags" THEN "parts" ELSE "part_tags",
                                  !.copy = Shelf!Read(proc[p].copy, proc[p].pc)]
  <2>1. proc' = [proc EXCEPT ![p] = r] /\ UNCHANGED <<part, home, crossed>> /\ proc[p] \in ProcRows
    BY <1>2, Exporting, ProcRow
  <2>2. r.pc \in {"parts", "part_tags"}
    BY <2>1 DEF ProcRows
  <2> HIDE DEF r
  <2> QED BY <2>1, <2>2, FiledRow DEF FiledOf
<1>3. CASE ~(Shelf!BeginExport(p) \/ Shelf!ExportTable(p))
  <2>1. /\ Shelf!Finish(p) \/ \E r : /\ proc' = [proc EXCEPT ![p] = r]
                                     /\ r.pc \in {"copy", "delete", "merged", "resolve", "replace", "insert", "replaced"}
        /\ UNCHANGED <<part, home>> /\ crossed \subseteq crossed'
    BY <1>3, OnTheirWay
  <2>2. CASE Shelf!Finish(p)
    BY <2>1, <2>2, FiledFinish
  <2>3. CASE ~Shelf!Finish(p)
    <3>1. PICK r : /\ proc' = [proc EXCEPT ![p] = r]
                   /\ r.pc \in {"copy", "delete", "merged", "resolve", "replace", "insert", "replaced"}
      BY <2>1, <2>3
    <3>2. FiledOf(r) /\ r.pc # "write"
      BY <3>1 DEF FiledOf
    <3> QED BY <2>1, <3>1, <3>2, FiledRow
  <2> QED BY <2>2, <2>3
<1> QED BY <1>1, <1>2, <1>3

\* A category is found empty.
LEMMA FiledCount == ASSUME ShelfInv, Written, Filed, NEW p \in Procs, Shelf!CountParts(p) PROVE Written' /\ Filed'
<1>1. PICK r : proc' = [proc EXCEPT ![p] = r] /\ r.pc = "drop" /\ Shelf!Empty(r.cat)
  BY Begun
<1>2. UNCHANGED <<part, home>> /\ crossed \subseteq crossed'
  BY DEF Shelf!CountParts, Shelf!PartsUnchanged
<1>3. FiledOf(r)
  BY <1>1 DEF FiledOf, Shelf!Empty
<1> QED BY <1>1, <1>2, <1>3, FiledRow

\* A part is read, to be written with the category it is in.
LEMMA FiledRead == ASSUME ShelfInv, Written, Filed, NEW p \in Procs, Shelf!ReadPart(p) PROVE Written' /\ Filed'
<1>1. PICK r : /\ proc' = [proc EXCEPT ![p] = r] /\ r.pc = "write"
               /\ r.part \in Shelf!Live(part) /\ (r.carry => r.cat = part[r.part])
  BY Begun
<1>2. UNCHANGED <<part, home>> /\ crossed \subseteq crossed'
  BY DEF Shelf!ReadPart, Shelf!PartsUnchanged
<1>3. FiledOf(r)
  BY <1>1, LiveIn DEF FiledOf, Shelf!Live
<1> QED BY <1>1, <1>2, <1>3, FiledRow

\* The category that was found empty still is, for nobody has filed a part there.
LEMMA FiledDrop == ASSUME ShelfInv, Written, Filed, NEW p \in Procs, Shelf!DeleteCategory(p) PROVE Written' /\ Filed'
<1> DEFINE c == proc[p].cat
<1>1. /\ proc[p].pc = "drop" /\ Shelf!Finish(p) /\ UNCHANGED <<home, crossed>> /\ c \in Cats
      /\ part' = [q \in Parts |-> IF part[q] = c THEN NoCat ELSE part[q]]
  BY ProcRow DEF Shelf!DeleteCategory, Shelf!DropCategory, StageOf, Shelf!AtPc
<1>2. \A q \in Parts : part'[q] = Unused => part[q] = Unused
  BY <1>1, CatalogueAssumption
<1>3. ASSUME "filing" \notin crossed'
      PROVE  UNCHANGED part
  <2>1. \A q \in Shelf!Live(part) : part[q] # c
    BY <1>1, <1>3 DEF Filed, FiledOf
  <2>2. \A q \in Parts : part[q] # c
    BY <1>1, <2>1, CatalogueAssumption DEF Shelf!Live, ShelfInv, TablesTyped
  <2> HIDE DEF c
  <2> QED BY <1>1, <2>2 DEF ShelfInv, TablesTyped
<1>4. ASSUME "filing" \notin crossed'
      PROVE  /\ \A q \in Shelf!Live(part)' : part'[q] = home'[q]
             /\ \A o \in Procs \ {p} : \A r : r = proc[o] => FiledOf(r)'
  BY <1>1, <1>3, <1>4 DEF Filed, FiledOf, Shelf!Live
<1> QED BY <1>1, <1>2, <1>4, FiledStep

\* A part is filed under a category that nobody is to delete.
LEMMA FiledCreate == ASSUME ShelfInv, Written, Filed, NEW p \in Procs, Shelf!CreatePart(p) PROVE Written' /\ Filed'
<1>1. PICK q \in Shelf!Fresh(part), c \in Shelf!Live(cat) \cup {NoCat} :
          /\ part' = [part EXCEPT ![q] = c] /\ home' = [home EXCEPT ![q] = c]
          /\ crossed' = crossed \cup Shelf!Filed(c) \cup Shelf!Adds("parts")
  BY DEF Shelf!CreatePart, Shelf!StorePart
<1>2. Shelf!Finish(p)
  BY DEF Shelf!CreatePart
<1>3. q \in Parts /\ part[q] = Unused /\ c \in Cats \cup {NoCat} /\ c # Unused
  BY <1>1, LiveIn, CatalogueAssumption DEF Shelf!Fresh, ShelfInv, TablesTyped
<1>4. \A x \in Parts : part'[x] = Unused => part[x] = Unused
  BY <1>1, <1>3 DEF ShelfInv, TablesTyped
<1>5. ASSUME "filing" \notin crossed'
      PROVE  /\ \A x \in Shelf!Live(part)' : part'[x] = home'[x]
             /\ \A o \in Procs \ {p} : \A r : r = proc[o] => FiledOf(r)'
  <2>1. "filing" \notin crossed /\ \A o \in Procs : proc[o].pc = "drop" => proc[o].cat # c
    BY <1>1, <1>5 DEF Shelf!Filed, Shelf!AtPc
  <2>2. Shelf!Live(part)' \subseteq Shelf!Live(part) \cup {q}
    BY <1>1, <1>3 DEF Shelf!Live, ShelfInv, TablesTyped
  <2>3. \A x \in Shelf!Live(part)' : part'[x] = home'[x]
    BY <1>1, <1>3, <2>1, <2>2 DEF Filed, ShelfInv, TablesTyped, Shelf!Live
  <2>4. ASSUME NEW o \in Procs \ {p}, NEW r, r = proc[o] PROVE FiledOf(r)'
    <3>1. FiledOf(r) /\ (r.pc = "write" => r.part \in Parts /\ r.part # q) /\ (r.pc = "drop" => r.cat # c)
      BY <1>3, <2>1, <2>4 DEF Filed, Written
    <3>2. \A x \in Parts : x # q => part'[x] = part[x]
      BY <1>1 DEF ShelfInv, TablesTyped
    <3>3. r.pc = "write" => (r.part \in Shelf!Live(part)' <=> r.part \in Shelf!Live(part))
      BY <1>1, <3>1, <3>2 DEF Shelf!Live, ShelfInv, TablesTyped
    <3>4. part'[q] = c
      BY <1>1, <1>3 DEF ShelfInv, TablesTyped
    <3>5. r.pc = "drop" => \A x \in Shelf!Live(part)' : part'[x] # r.cat
      BY <2>2, <3>1, <3>2, <3>4, LiveIn DEF FiledOf
    <3> QED BY <3>1, <3>2, <3>3, <3>5 DEF FiledOf
  <2> QED BY <2>3, <2>4
<1> QED BY <1>1, <1>2, <1>4, <1>5, FiledStep

\* A part is written where it is asked for, or where it was, for nobody has written it since.
LEMMA FiledWrite == ASSUME ShelfInv, Written, Filed, NEW p \in Procs, Shelf!WritePart(p) PROVE Written' /\ Filed'
<1> DEFINE q == proc[p].part
           c == proc[p].cat
           carry == proc[p].carry
<1>1. Shelf!Finish(p) /\ proc[p].pc = "write"
  BY DEF Shelf!WritePart, Shelf!AtPc
<1>2. CASE ~(q \in Shelf!Live(part) /\ c \in Shelf!Live(cat) \cup {NoCat})
  <2>1. UNCHANGED <<part, home, crossed>>
    BY <1>2 DEF Shelf!WritePart, Shelf!PartsUnchanged
  <2> QED BY <1>1, <2>1, FiledFinish
<1>3. CASE q \in Shelf!Live(part) /\ c \in Shelf!Live(cat) \cup {NoCat}
  <2>1. /\ part' = [part EXCEPT ![q] = c] /\ home' = IF carry THEN home ELSE [home EXCEPT ![q] = c]
        /\ crossed' = crossed \cup Shelf!Filed(c)
                      \cup IF \E o \in Procs \ {p} : proc[o].pc = "write" /\ proc[o].part = q
                           THEN {"filing"} ELSE {}
    BY <1>3 DEF Shelf!WritePart, Shelf!StorePart, Shelf!Others, Shelf!AtPc
  <2>2. q \in Parts /\ part[q] # Unused /\ c \in Cats \cup {NoCat} /\ c # Unused /\ c # Gone /\ carry \in BOOLEAN
    BY <1>3, LiveIn, CatalogueAssumption, ProcRow DEF Shelf!Live, ProcRows
  <2>3. "filing" \notin crossed /\ carry => c = part[q]
    BY <1>1, <1>3 DEF Filed, FiledOf
  <2>4. \A o \in Procs : "filing" \notin crossed' /\ proc[o].pc = "drop" => proc[o].cat # c
    BY <2>1 DEF Shelf!Filed, Shelf!AtPc
  <2> HIDE DEF q, c, carry
  <2>5. \A x \in Parts : part'[x] = Unused => part[x] = Unused
    BY <2>1, <2>2 DEF ShelfInv, TablesTyped
  <2>6. ASSUME "filing" \notin crossed'
        PROVE  /\ \A x \in Shelf!Live(part)' : part'[x] = home'[x]
               /\ \A o \in Procs \ {p} : \A r : r = proc[o] => FiledOf(r)'
    <3>1. "filing" \notin crossed /\ \A o \in Procs \ {p} : proc[o].pc = "write" => proc[o].part # q
      BY <2>1, <2>6
    <3>2. Shelf!Live(part)' = Shelf!Live(part) /\ part'[q] = c /\ \A x \in Parts : x # q => part'[x] = part[x]
      BY <1>3, <2>1, <2>2 DEF Shelf!Live, ShelfInv, TablesTyped, q, c
    <3>3. ASSUME NEW x \in Shelf!Live(part)' PROVE part'[x] = home'[x]
      <4>1. x \in Parts /\ x \in Shelf!Live(part) /\ part[x] = home[x] /\ home \in [Parts -> Cats \cup {NoCat}]
        BY <3>1, <3>2, <3>3, LiveIn DEF Filed, ShelfInv, TablesTyped
      <4>2. CASE carry
        BY <2>1, <2>3, <3>1, <3>2, <4>1, <4>2
      <4>3. CASE ~carry
        BY <2>1, <2>2, <3>2, <4>1, <4>3
      <4> QED BY <2>2, <4>2, <4>3
    <3>4. ASSUME NEW o \in Procs \ {p}, NEW r, r = proc[o] PROVE FiledOf(r)'
      <4>1. FiledOf(r) /\ (r.pc = "write" => r.part \in Parts /\ r.part # q) /\ (r.pc = "drop" => r.cat # c)
        BY <2>4, <2>6, <3>1, <3>4 DEF Filed, Written
      <4>2. r.pc = "write" => part'[r.part] = part[r.part]
        BY <3>2, <4>1
      <4>3. r.pc = "drop" => \A x \in Shelf!Live(part)' : part'[x] # r.cat
        BY <3>2, <4>1, LiveIn DEF FiledOf
      <4> QED BY <3>2, <4>1, <4>2, <4>3 DEF FiledOf
    <3> QED BY <3>3, <3>4
  <2>7. crossed \subseteq crossed'
    BY <2>1
  <2> QED BY <1>1, <2>5, <2>6, <2>7, FiledStep
<1> QED BY <1>2, <1>3

LEMMA FiledDelete == ASSUME ShelfInv, Written, Filed, NEW p \in Procs, Shelf!DeletePart(p) PROVE Written' /\ Filed'
<1>1. PICK q \in Shelf!Live(part) : part' = [part EXCEPT ![q] = Gone] /\ home' = [home EXCEPT ![q] = NoCat]
  BY DEF Shelf!DeletePart, Shelf!DropPart
<1>2. Shelf!Finish(p) /\ crossed \subseteq crossed'
  BY DEF Shelf!DeletePart
<1>3. q \in Parts /\ part'[q] = Gone /\ \A x \in Parts : x # q => part'[x] = part[x]
  BY <1>1, LiveIn DEF ShelfInv, TablesTyped
<1>4. Shelf!Live(part)' = Shelf!Live(part) \ {q}
  BY <1>1 DEF Shelf!Live, ShelfInv, TablesTyped
<1>5. \A x \in Parts : part'[x] = Unused => part[x] = Unused
  BY <1>3, CatalogueAssumption
<1>6. ASSUME "filing" \notin crossed'
      PROVE  /\ \A x \in Shelf!Live(part)' : part'[x] = home'[x]
             /\ \A o \in Procs \ {p} : \A r : r = proc[o] => FiledOf(r)'
  <2>1. \A x \in Shelf!Live(part)' : part'[x] = home'[x]
    BY <1>1, <1>2, <1>3, <1>4, <1>6, LiveIn DEF Filed, ShelfInv, TablesTyped
  <2>2. ASSUME NEW o \in Procs \ {p}, NEW r, r = proc[o] PROVE FiledOf(r)'
    <3>1. FiledOf(r)
      BY <1>2, <1>6, <2>2 DEF Filed
    <3>2. r.pc = "write" => r.part \in Parts /\ part'[r.part] # Unused
      BY <1>3, <3>1, CatalogueAssumption DEF FiledOf
    <3>3. r.pc = "write" /\ r.carry /\ r.part \in Shelf!Live(part)' => r.cat = part'[r.part]
      BY <1>3, <1>4, <3>1 DEF FiledOf
    <3>4. r.pc = "drop" => \A x \in Shelf!Live(part)' : part'[x] # r.cat
      BY <1>3, <1>4, <3>1, LiveIn DEF FiledOf
    <3> QED BY <3>2, <3>3, <3>4 DEF FiledOf
  <2> QED BY <2>1, <2>2
<1> QED BY <1>2, <1>5, <1>6, FiledStep

\* An import files the parts it writes.
LEMMA FiledImport == ASSUME ShelfInv, Written, Filed, NEW p \in Procs, Shelf!ImportAll(p) PROVE Written' /\ Filed'
<1>1. PICK f \in file, replace \in BOOLEAN :
               LET all == Shelf!Imported(f, replace)
               IN  /\ Shelf!Live(part)' = DOMAIN all.part
                   /\ \A q \in Shelf!Live(part)' : part'[q] = all.part[q]
                   /\ \A q \in Parts : part'[q] = Unused => part[q] = Unused
                   /\ home' = [q \in Parts |-> IF q \in Shelf!Live(part') /\ (replace \/ q \notin Shelf!Live(part))
                                               THEN part'[q] ELSE home[q]]
                   /\ all \in Files
  BY Importing
<1>2. crossed \subseteq crossed' /\ Shelf!Finish(p)
  BY DEF Shelf!ImportAll
<1>3. ASSUME "filing" \notin crossed'
      PROVE  /\ \A x \in Shelf!Live(part)' : part'[x] = home'[x]
             /\ \A o \in Procs \ {p} : \A r : r = proc[o] => FiledOf(r)'
  <2>1. \A o \in Procs : proc[o].pc \in {"idle", "done"}
    BY <1>3, ImportAlone
  <2>2. ASSUME NEW x \in Shelf!Live(part)' PROVE part'[x] = home'[x]
    <3>1. x \in Parts /\ x \in Shelf!Live(part')
      BY <1>1, <2>2, FileRows DEF Shelf!Live
    <3>2. CASE replace \/ x \notin Shelf!Live(part)
      BY <1>1, <3>1, <3>2
    <3>3. CASE ~replace /\ x \in Shelf!Live(part)
      <4>1. home'[x] = home[x] /\ home[x] = part[x]
        BY <1>1, <1>2, <1>3, <3>1, <3>3 DEF Filed
      <4>2. Shelf!Imported(f, replace).part = Shelf!Added(part, f.part, DOMAIN f.part \ Shelf!Live(part))
        BY <3>3 DEF Shelf!Imported
      <4>3. Shelf!Imported(f, replace).part[x] = part[x]
        BY <3>3, <4>2 DEF Shelf!Added
      <4> QED BY <1>1, <2>2, <4>1, <4>3
    <3> QED BY <3>2, <3>3
  <2> QED BY <2>1, <2>2 DEF FiledOf
<1> QED BY <1>1, <1>2, <1>3, FiledStep

\* So no step moves a part that was not to be moved.
LEMMA FiledKept == ShelfInv /\ Written /\ Filed /\ Shelf!Next => Written' /\ Filed'
<1> SUFFICES ASSUME ShelfInv, Written, Filed, NEW p \in Procs, Shelf!Request(p) PROVE Written' /\ Filed'
  BY DEF Shelf!Next
<1> QED
  BY FiledElsewhere, FiledOnTheWay, FiledCount, FiledRead, FiledDrop, FiledCreate, FiledWrite, FiledDelete,
     FiledImport
  DEF Shelf!Request

-----------------------------------------------------------------------------
\* Exports that can be restored.

\* Rows are added to a table only before an open export reads it, but where it says so.
LEMMA NotAdded ==
    ASSUME NEW o \in Procs
    PROVE  /\ "export" \notin Shelf!Adds("categories") => proc[o].pc \notin {"tags", "parts", "part_tags"}
           /\ "export" \notin Shelf!Adds("tags") => proc[o].pc \notin {"parts", "part_tags"}
           /\ "export" \notin Shelf!Adds("parts") => proc[o].pc # "part_tags"
BY TableOrder DEF Shelf!Adds

\* A step of one request, by which the tables lose rows or gain ones still to be read.
LEMMA ExportStep ==
    ASSUME ShelfInv, Exported, NEW p \in Procs, NEW r, proc' = [proc EXCEPT ![p] = r], UNCHANGED file,
           crossed \subseteq crossed',
           "export" \notin crossed' => CopiedOf(r)',
           Shelf!Live(cat)' \subseteq Shelf!Live(cat) \/ Shelf!Adds("categories") \subseteq crossed',
           Shelf!Live(tag)' \subseteq Shelf!Live(tag) \/ Shelf!Adds("tags") \subseteq crossed',
           Shelf!Live(part)' \subseteq Shelf!Live(part) \/ Shelf!Adds("parts") \subseteq crossed'
    PROVE  Exported'
<1> SUFFICES ASSUME "export" \notin crossed'
             PROVE  (\A f \in file : Shelf!Closed(f)) /\ \A o \in Procs : CopiedOf(proc[o])'
  BY DEF Exported, Shelf!Closed
<1>1. (\A f \in file : Shelf!Closed(f)) /\ \A o \in Procs : CopiedOf(proc[o])
  BY DEF Exported
<1>2. ASSUME NEW o \in Procs PROVE CopiedOf(proc[o])'
  <2>1. CASE o = p
    <3>1. proc'[o] = r
      BY <2>1 DEF ShelfInv, ProcsTyped
    <3> QED BY <3>1 DEF CopiedOf, Shelf!Live
  <2>2. CASE o # p
    <3>1. proc'[o] = proc[o] /\ CopiedOf(proc[o])
      BY <1>1, <2>2 DEF ShelfInv, ProcsTyped
    <3>2. /\ proc[o].pc \in {"tags", "parts", "part_tags"} => Shelf!Live(cat)' \subseteq Shelf!Live(cat)
          /\ proc[o].pc \in {"parts", "part_tags"} => Shelf!Live(tag)' \subseteq Shelf!Live(tag)
          /\ proc[o].pc = "part_tags" => Shelf!Live(part)' \subseteq Shelf!Live(part)
      BY NotAdded
    <3> QED BY <3>1, <3>2 DEF CopiedOf
  <2> QED BY <2>1, <2>2
<1> QED BY <1>1, <1>2

\* A request that ends.
LEMMA ExportFinish ==
    ASSUME ShelfInv, Exported, NEW p \in Procs, Shelf!Finish(p), UNCHANGED file, crossed \subseteq crossed',
           Shelf!Live(cat)' \subseteq Shelf!Live(cat) \/ Shelf!Adds("categories") \subseteq crossed',
           Shelf!Live(tag)' \subseteq Shelf!Live(tag) \/ Shelf!Adds("tags") \subseteq crossed',
           Shelf!Live(part)' \subseteq Shelf!Live(part) \/ Shelf!Adds("parts") \subseteq crossed'
    PROVE  Exported'
BY ExportStep, NoRows DEF Shelf!Finish, CopiedOf

\* Requests that add and take away no rows but links.
LEMMA ExportedElsewhere ==
    ASSUME ShelfInv, Exported, NEW p \in Procs,
           \/ Shelf!BeginMerge(p) \/ Shelf!CopyLinks(p) \/ Shelf!DropMerged(p) \/ Shelf!BeginPartTags(p)
           \/ Shelf!ReplaceTags(p) \/ Shelf!InsertTags(p)
           \/ Shelf!CommitTags(p) \/ Shelf!RemovePartTags(p) \/ Shelf!CountParts(p) \/ Shelf!ReadPart(p)
           \/ Shelf!Deadlock(p)
    PROVE  Exported'
<1>1. UNCHANGED <<part, tag, cat, file>>
  BY DEF Shelf!BeginMerge, Shelf!CopyLinks, Shelf!DropMerged, Shelf!BeginPartTags, Shelf!ReplaceTags,
         Shelf!InsertTags, Shelf!CommitTags, Shelf!RemovePartTags, Shelf!CountParts, Shelf!ReadPart,
         Shelf!Deadlock, Shelf!TagsUnchanged, Shelf!PartsUnchanged
<1>2. crossed \subseteq crossed'
  BY DEF Shelf!BeginMerge, Shelf!CopyLinks, Shelf!DropMerged, Shelf!BeginPartTags, Shelf!ReplaceTags,
         Shelf!InsertTags, Shelf!CommitTags, Shelf!RemovePartTags, Shelf!CountParts, Shelf!ReadPart,
         Shelf!Deadlock
<1>3. /\ Shelf!Live(part)' = Shelf!Live(part) /\ Shelf!Live(tag)' = Shelf!Live(tag)
      /\ Shelf!Live(cat)' = Shelf!Live(cat)
  BY <1>1 DEF Shelf!Live
<1>4. CASE Shelf!Finish(p)
  BY <1>1, <1>2, <1>3, <1>4, ExportFinish
<1>5. CASE ~Shelf!Finish(p)
  <2>1. \E r : proc' = [proc EXCEPT ![p] = r] /\ r.pc \notin {"tags", "parts", "part_tags"}
    <3>1. ~(Shelf!CommitTags(p) \/ Shelf!RemovePartTags(p) \/ Shelf!Deadlock(p))
      BY <1>5 DEF Shelf!CommitTags, Shelf!RemovePartTags, Shelf!Deadlock
    <3>2. CASE Shelf!CountParts(p) \/ Shelf!ReadPart(p)
      <4>1. \E r : proc' = [proc EXCEPT ![p] = r] /\ r.pc \in {"drop", "write"}
        BY <3>2, Begun
      <4> QED BY <4>1
    <3>3. CASE ~(Shelf!CountParts(p) \/ Shelf!ReadPart(p))
      <4>1. \E r : /\ proc' = [proc EXCEPT ![p] = r]
                   /\ r.pc \in {"copy", "delete", "merged", "resolve", "replace", "insert", "replaced"}
        BY <1>5, <3>1, <3>3, OnTheirWay
      <4> QED BY <4>1
    <3> QED BY <3>2, <3>3
  <2>2. PICK r : proc' = [proc EXCEPT ![p] = r] /\ r.pc \notin {"tags", "parts", "part_tags"}
    BY <2>1
  <2>3. r.pc \notin {"tags", "parts", "part_tags"}
    BY <2>2
  <2>4. CopiedOf(r)'
    BY ONLY <2>3 DEF CopiedOf
  <2> QED BY ONLY ShelfInv, Exported, p \in Procs, <1>1, <1>2, <1>3, <2>2, <2>4, ExportStep
<1> QED BY <1>4, <1>5

\* Tags that come and go.
LEMMA ExportedTags ==
    ASSUME ShelfInv, Exported, NEW p \in Procs,
           Shelf!CreateTag(p) \/ Shelf!UpdateTag(p) \/ Shelf!DeleteTag(p) \/ Shelf!CommitMerge(p)
    PROVE  Exported'
<1>1. Shelf!Finish(p) /\ UNCHANGED <<part, cat, file>>
  BY DEF Shelf!CreateTag, Shelf!UpdateTag, Shelf!DeleteTag, Shelf!CommitMerge, Shelf!PartsUnchanged
<1>2. crossed \subseteq crossed'
  BY DEF Shelf!CreateTag, Shelf!UpdateTag, Shelf!DeleteTag, Shelf!CommitMerge
<1>3. Shelf!Live(part)' = Shelf!Live(part) /\ Shelf!Live(cat)' = Shelf!Live(cat)
  BY <1>1 DEF Shelf!Live
<1>4. Shelf!Live(tag)' \subseteq Shelf!Live(tag) \/ Shelf!Adds("tags") \subseteq crossed'
  <2>1. CASE Shelf!CreateTag(p)
    BY <2>1 DEF Shelf!CreateTag
  <2>2. CASE Shelf!UpdateTag(p)
    <3>1. PICK t \in Shelf!Live(tag), s \in Slugs : tag' = [tag EXCEPT ![t] = s]
      BY <2>2 DEF Shelf!UpdateTag, Shelf!RenameTag
    <3> QED BY <3>1 DEF Shelf!Live, ShelfInv, TablesTyped
  <2>3. CASE Shelf!DeleteTag(p) \/ Shelf!CommitMerge(p)
    <3>1. \E t : tag' = [tag EXCEPT ![t] = Gone]
      BY <2>3 DEF Shelf!DeleteTag, Shelf!CommitMerge, Shelf!DropTag
    <3> QED BY <3>1 DEF Shelf!Live, ShelfInv, TablesTyped
  <2> QED BY <2>1, <2>2, <2>3
<1> QED BY <1>1, <1>2, <1>3, <1>4, ExportFinish

\* Tags that are made for names.
LEMMA ExportedResolve == ASSUME ShelfInv, Exported, NEW p \in Procs, Shelf!Resolve(p) PROVE Exported'
<1>1. /\ UNCHANGED <<part, cat, file>> /\ crossed \subseteq crossed'
      /\ tag' \in [Tags -> Slugs \cup {Unused, Gone}]
      /\ (\E t \in Tags : tag'[t] # tag[t]) => crossed' = crossed \cup Shelf!Adds("tags")
  BY Resolved
<1>2. PICK r : proc' = [proc EXCEPT ![p] = r] /\ r.pc \in {"insert", "replace"}
  <2> DEFINE pc  == IF proc[p].add THEN "insert" ELSE "replace"
             ids == {t \in Tags : tag'[t] \in proc[p].ids}
             x   == [proc[p] EXCEPT !.pc = pc, !.ids = ids]
  <2>1. proc' = [proc EXCEPT ![p] = x] /\ proc[p] \in ProcRows
    BY Resolved, ProcRow
  <2>2. pc \in {"insert", "replace"}
    OBVIOUS
  <2> HIDE DEF pc, ids
  <2>3. x.pc = pc
    BY <2>1 DEF ProcRows
  <2> HIDE DEF x
  <2> QED BY <2>1, <2>2, <2>3
<1>3. Shelf!Live(part)' = Shelf!Live(part) /\ Shelf!Live(cat)' = Shelf!Live(cat)
  BY <1>1 DEF Shelf!Live
<1>4. Shelf!Live(tag)' \subseteq Shelf!Live(tag) \/ Shelf!Adds("tags") \subseteq crossed'
  <2>1. CASE \A t \in Tags : tag'[t] = tag[t]
    BY <1>1, <2>1 DEF Shelf!Live, ShelfInv, TablesTyped
  <2>2. CASE ~\A t \in Tags : tag'[t] = tag[t]
    BY <1>1, <2>2
  <2> QED BY <2>1, <2>2
<1>5. r.pc \notin {"tags", "parts", "part_tags"}
  BY <1>2
<1>6. CopiedOf(r)'
  BY ONLY <1>5 DEF CopiedOf
<1> QED BY ONLY ShelfInv, Exported, p \in Procs, <1>1, <1>2, <1>3, <1>4, <1>6, ExportStep

\* Categories and parts that come and go.
LEMMA ExportedFiling ==
    ASSUME ShelfInv, Exported, NEW p \in Procs,
           \/ Shelf!CreateCategory(p) \/ Shelf!UpdateCategory(p) \/ Shelf!DeleteCategory(p)
           \/ Shelf!CreatePart(p) \/ Shelf!WritePart(p) \/ Shelf!DeletePart(p)
    PROVE  Exported'
<1>1. Shelf!Finish(p) /\ UNCHANGED <<tag, file>>
  BY DEF Shelf!CreateCategory, Shelf!UpdateCategory, Shelf!DeleteCategory, Shelf!CreatePart, Shelf!WritePart,
         Shelf!DeletePart, Shelf!TagsUnchanged
<1>2. crossed \subseteq crossed'
  BY DEF Shelf!CreateCategory, Shelf!UpdateCategory, Shelf!DeleteCategory, Shelf!CreatePart, Shelf!WritePart,
         Shelf!DeletePart
<1>3. Shelf!Live(tag)' = Shelf!Live(tag)
  BY <1>1 DEF Shelf!Live
<1>4. Shelf!Live(cat)' \subseteq Shelf!Live(cat) \/ Shelf!Adds("categories") \subseteq crossed'
  <2>1. CASE Shelf!CreateCategory(p)
    BY <2>1 DEF Shelf!CreateCategory
  <2>2. CASE Shelf!UpdateCategory(p)
    <3>1. PICK c \in Shelf!Live(cat), n \in Names : cat' = [cat EXCEPT ![c] = n]
      BY <2>2 DEF Shelf!UpdateCategory, Shelf!RenameCategory
    <3> QED BY <3>1 DEF Shelf!Live, ShelfInv, TablesTyped
  <2>3. CASE Shelf!DeleteCategory(p)
    <3>1. \E c : cat' = IF c \in Shelf!Live(cat) THEN [cat EXCEPT ![c] = Gone] ELSE cat
      BY <2>3 DEF Shelf!DeleteCategory, Shelf!DropCategory
    <3> QED BY <3>1 DEF Shelf!Live, ShelfInv, TablesTyped
  <2>4. CASE Shelf!CreatePart(p) \/ Shelf!WritePart(p) \/ Shelf!DeletePart(p)
    <3>1. UNCHANGED cat
      BY <2>4 DEF Shelf!CreatePart, Shelf!WritePart, Shelf!DeletePart
    <3> QED BY <3>1 DEF Shelf!Live
  <2> QED BY <2>1, <2>2, <2>3, <2>4
<1>5. Shelf!Live(part)' \subseteq Shelf!Live(part) \/ Shelf!Adds("parts") \subseteq crossed'
  <2>1. CASE Shelf!CreatePart(p)
    BY <2>1 DEF Shelf!CreatePart
  <2>2. CASE Shelf!CreateCategory(p) \/ Shelf!UpdateCategory(p)
    <3>1. UNCHANGED part
      BY <2>2 DEF Shelf!CreateCategory, Shelf!UpdateCategory, Shelf!PartsUnchanged
    <3> QED BY <3>1 DEF Shelf!Live
  <2>3. CASE Shelf!DeleteCategory(p)
    <3>1. proc[p].cat \in Cats /\ part' = [q \in Parts |-> IF part[q] = proc[p].cat THEN NoCat ELSE part[q]]
      BY <2>3, ProcRow DEF Shelf!DeleteCategory, Shelf!DropCategory, StageOf, Shelf!AtPc
    <3> QED BY <3>1, CatalogueAssumption DEF Shelf!Live, ShelfInv, TablesTyped
  <2>4. CASE Shelf!WritePart(p)
    <3>1. CASE proc[p].part \in Shelf!Live(part) /\ proc[p].cat \in Shelf!Live(cat) \cup {NoCat}
      <4>1. part' = [part EXCEPT ![proc[p].part] = proc[p].cat]
        BY <2>4, <3>1 DEF Shelf!WritePart, Shelf!StorePart
      <4> QED BY <3>1, <4>1 DEF Shelf!Live, ShelfInv, TablesTyped
    <3>2. CASE ~(proc[p].part \in Shelf!Live(part) /\ proc[p].cat \in Shelf!Live(cat) \cup {NoCat})
      <4>1. UNCHANGED part
        BY <2>4, <3>2 DEF Shelf!WritePart, Shelf!PartsUnchanged
      <4> QED BY <4>1 DEF Shelf!Live
    <3> QED BY <3>1, <3>2
  <2>5. CASE Shelf!DeletePart(p)
    <3>1. \E q : part' = [part EXCEPT ![q] = Gone]
      BY <2>5 DEF Shelf!DeletePart, Shelf!DropPart
    <3> QED BY <3>1 DEF Shelf!Live, ShelfInv, TablesTyped
  <2> QED BY <2>1, <2>2, <2>3, <2>4, <2>5
<1> QED BY <1>1, <1>2, <1>3, <1>4, <1>5, ExportFinish

\* An export reads its first table.
LEMMA ExportedBegin == ASSUME ShelfInv, Exported, NEW p \in Procs, Shelf!BeginExport(p) PROVE Exported'
<1>1. UNCHANGED <<part, tag, cat, file, crossed>>
  BY DEF Shelf!BeginExport, Shelf!TagsUnchanged, Shelf!PartsUnchanged
<1>2. PICK r : proc' = [proc EXCEPT ![p] = r] /\ r.pc = "tags" /\ r.copy = Shelf!Read(Shelf!NoFile, "categories")
  BY Begun
<1>3. DOMAIN r.copy.cat = Shelf!Live(cat)
  BY <1>2 DEF Shelf!Read, Shelf!NoFile, Shelf!Rows
<1>4. /\ Shelf!Live(part)' = Shelf!Live(part) /\ Shelf!Live(tag)' = Shelf!Live(tag)
      /\ Shelf!Live(cat)' = Shelf!Live(cat)
  BY <1>1 DEF Shelf!Live
<1>5. CopiedOf(r)'
  BY <1>2, <1>3, <1>4 DEF CopiedOf
<1> QED BY <1>1, <1>2, <1>4, <1>5, ExportStep

\* It reads another: what its rows refer to it has read before.
LEMMA ExportedTable == ASSUME ShelfInv, Exported, NEW p \in Procs, Shelf!ExportTable(p) PROVE Exported'
<1>1. /\ proc[p].pc \in {"tags", "parts"} /\ UNCHANGED <<part, tag, cat, file, crossed>>
      /\ proc[p] \in ProcRows /\ proc[p].copy \in Files
  BY Exporting, ProcRow DEF ProcRows
<1>2. PICK r : /\ proc' = [proc EXCEPT ![p] = r]
               /\ r.pc = IF proc[p].pc = "tags" THEN "parts" ELSE "part_tags"
               /\ r.copy = Shelf!Read(proc[p].copy, proc[p].pc)
  <2> DEFINE pc == IF proc[p].pc = "tags" THEN "parts" ELSE "part_tags"
             f  == Shelf!Read(proc[p].copy, proc[p].pc)
             x  == [proc[p] EXCEPT !.pc = pc, !.copy = f]
  <2>1. proc' = [proc EXCEPT ![p] = x]
    BY Exporting
  <2> HIDE DEF pc, f
  <2>2. x.pc = pc /\ x.copy = f
    BY <1>1 DEF ProcRows
  <2> HIDE DEF x
  <2> QED BY <2>1, <2>2 DEF pc, f
<1>3. /\ Shelf!Live(part)' = Shelf!Live(part) /\ Shelf!Live(tag)' = Shelf!Live(tag)
      /\ Shelf!Live(cat)' = Shelf!Live(cat)
  BY <1>1 DEF Shelf!Live
<1>4. ASSUME "export" \notin crossed PROVE CopiedOf(r)'
  <2>1. CopiedOf(proc[p])
    BY <1>4 DEF Exported
  <2>2. CASE proc[p].pc = "tags"
    <3>1. r.pc = "parts" /\ r.copy = [proc[p].copy EXCEPT !.tag = Shelf!Rows(tag)]
      BY <1>2, <2>2 DEF Shelf!Read
    <3>2. r.copy.cat = proc[p].copy.cat /\ DOMAIN r.copy.tag = Shelf!Live(tag)
      BY <1>1, <3>1 DEF Files, Shelf!Rows
    <3>3. Shelf!Live(cat) \subseteq DOMAIN proc[p].copy.cat
      BY <2>1, <2>2 DEF CopiedOf
    <3> QED BY ONLY <1>3, <3>1, <3>2, <3>3 DEF CopiedOf
  <2>3. CASE proc[p].pc = "parts"
    <3>1. r.pc = "part_tags" /\ r.copy = [proc[p].copy EXCEPT !.part = Shelf!Rows(part)]
      BY <1>2, <2>3 DEF Shelf!Read
    <3>2. r.copy.cat = proc[p].copy.cat /\ r.copy.tag = proc[p].copy.tag /\ r.copy.part = Shelf!Rows(part)
      BY <1>1, <3>1 DEF Files
    <3>3. DOMAIN r.copy.part = Shelf!Live(part) /\ \A q \in Shelf!Live(part) : r.copy.part[q] = part[q]
      BY <3>2 DEF Shelf!Rows
    <3>4. \A q \in Shelf!Live(part) : part[q] \in Shelf!Live(cat) \cup {NoCat}
      BY DEF ShelfInv, Referred
    <3>5. Shelf!Live(cat) \subseteq DOMAIN proc[p].copy.cat /\ Shelf!Live(tag) \subseteq DOMAIN proc[p].copy.tag
      BY <2>1, <2>3 DEF CopiedOf
    <3> QED BY ONLY <1>3, <3>1, <3>2, <3>3, <3>4, <3>5 DEF CopiedOf
  <2> QED BY <1>1, <2>2, <2>3
<1> QED BY ONLY ShelfInv, Exported, p \in Procs, <1>1, <1>2, <1>3, <1>4, ExportStep

\* The last table is read: every link is between rows that were read before.
LEMMA ExportedFinish == ASSUME ShelfInv, Exported, NEW p \in Procs, Shelf!FinishExport(p) PROVE Exported'
<1> DEFINE f == Shelf!Read(proc[p].copy, "part_tags")
<1>1. /\ proc[p].pc = "part_tags" /\ Shelf!Finish(p) /\ file' = {f}
      /\ UNCHANGED <<part, tag, cat, crossed>> /\ proc[p].copy \in Files
  BY TableOrder, ProcRow DEF Shelf!FinishExport, Shelf!AtPc, Shelf!TagsUnchanged, Shelf!PartsUnchanged, ProcRows
<1>2. /\ f.part = proc[p].copy.part /\ f.tag = proc[p].copy.tag /\ f.cat = proc[p].copy.cat /\ f.links = links
  BY <1>1 DEF Shelf!Read, Files
<1> HIDE DEF f
<1>3. /\ Shelf!Live(part)' = Shelf!Live(part) /\ Shelf!Live(tag)' = Shelf!Live(tag)
      /\ Shelf!Live(cat)' = Shelf!Live(cat)
  BY <1>1 DEF Shelf!Live
<1>4. ASSUME "export" \notin crossed PROVE Shelf!Closed(f) /\ \A o \in Procs : CopiedOf(proc[o])'
  <2>1. \A o \in Procs : CopiedOf(proc[o])
    BY <1>4 DEF Exported
  <2>2. Shelf!Closed(f)
    BY <1>1, <1>2, <2>1 DEF CopiedOf, Shelf!Closed, ShelfInv, Referred, Referring
  <2>3. \A o \in Procs : proc'[o] = proc[o] \/ proc'[o] = Shelf!Done
    BY <1>1 DEF Shelf!Finish, ShelfInv, ProcsTyped
  <2>4. \A o \in Procs : CopiedOf(proc[o])'
    BY <1>3, <2>1, <2>3, NoRows DEF CopiedOf
  <2> QED BY <2>2, <2>4
<1> QED BY <1>1, <1>4 DEF Exported, Shelf!Closed

\* An import waits until no export is open, or says that they met.
LEMMA ExportedImport == ASSUME ShelfInv, Exported, NEW p \in Procs, Shelf!ImportAll(p) PROVE Exported'
<1> SUFFICES ASSUME "export" \notin crossed'
             PROVE  (\A f \in file' : Shelf!Closed(f)) /\ \A o \in Procs : CopiedOf(proc[o])'
  BY DEF Exported, Shelf!Closed
<1>1. \A o \in Procs : proc[o].pc \in {"idle", "done"}
  BY ImportAlone
<1>2. crossed \subseteq crossed' /\ Shelf!Finish(p) /\ UNCHANGED file
  BY DEF Shelf!ImportAll
<1>3. \A o \in Procs : proc'[o].pc \in {"idle", "done"}
  BY <1>1, <1>2, NoRows DEF ShelfInv, ProcsTyped, Shelf!Finish
<1>4. \A o \in Procs : CopiedOf(proc[o])'
  BY <1>3 DEF CopiedOf
<1>5. \A f \in file' : Shelf!Closed(f)
  BY <1>2 DEF Exported
<1> QED BY <1>4, <1>5

\* So an export that met no new row can be restored.
LEMMA ExportedKept == ShelfInv /\ Exported /\ Shelf!Next => Exported'
<1> SUFFICES ASSUME ShelfInv, Exported, NEW p \in Procs, Shelf!Request(p) PROVE Exported'
  BY DEF Shelf!Next
<1> QED
  BY ExportedElsewhere, ExportedTags, ExportedResolve, ExportedFiling, ExportedBegin, ExportedTable,
     ExportedFinish, ExportedImport
  DEF Shelf!Request

-----------------------------------------------------------------------------
\* The catalogue as KiCad is served it.

Unders == UNION {[S -> Cats \cup {Uncategorized}] : S \in SUBSET Parts}
Builds == [pc : {"idle", "list", "detail"}, cats : SUBSET Cats, rows : SUBSET Parts, under : Unders,
           moved : SUBSET Parts]

\* Of the parts that did not change since the build was begun it has what it has read.
Building ==
    /\ build.pc # "idle" => \A q \in Shelf!Live(part) \ build.moved : part[q] \in build.cats \cup {NoCat}
    /\ build.pc = "list" => build.rows = {} /\ build.under = <<>>
    /\ build.pc = "detail" => \A q \in Parts \ build.moved :
           /\ q \in build.rows \cup DOMAIN build.under <=> q \in Shelf!Live(part)
           /\ q \in DOMAIN build.under => build.under[q] = Shown!CategoryOf(q)

\* What is served shows the parts that did not change since, and lists no empty category.
Showing ==
    /\ \A c \in snap.cats : \E q \in DOMAIN snap.under : snap.under[q] = c
    /\ \A q \in Parts \ moved :
           /\ q \in DOMAIN snap.under <=> q \in Shelf!Live(part)
           /\ q \in DOMAIN snap.under => snap.under[q] = Shown!CategoryOf(q) /\ snap.under[q] \in snap.cats

ShownInv == build \in Builds /\ moved \in SUBSET Parts /\ Building /\ Showing

\* Nothing is listed under a category.
LEMMA NothingUnder == <<>> \in Unders /\ DOMAIN <<>> = {}
<1>1. <<>> \in [{} -> Cats \cup {Uncategorized}] /\ {} \in SUBSET Parts
  OBVIOUS
<1> QED BY <1>1 DEF Unders

\* No snapshot in the making.
LEMMA NoBuildIs == Shown!NoBuild \in Builds /\ Shown!NoBuild.pc = "idle"
BY NothingUnder DEF Builds, Shown!NoBuild

\* The first snapshot is empty, and may be wrong about every part.
LEMMA ShownInit == Shown!Init => ShownInv
<1> SUFFICES ASSUME Shown!Init PROVE ShownInv
  OBVIOUS
<1>1. build \in Builds /\ build.pc = "idle"
  BY NoBuildIs DEF Shown!Init
<1>2. snap.cats = {} /\ moved = Parts
  BY DEF Shown!Init, Shown!Empty
<1> QED BY <1>1, <1>2 DEF ShownInv, Building, Showing

\* A request changes parts that are then watched.
LEMMA WatchStep ==
    ASSUME TablesTyped, TablesTyped', ShownInv, Shown!Watch
    PROVE  ShownInv'
<1> DEFINE changed == {q \in Parts : part'[q] # part[q]}
<1>1. /\ build' = IF build.pc = "idle" THEN build ELSE [build EXCEPT !.moved = build.moved \cup changed]
      /\ moved' = moved \cup changed /\ snap' = snap
  BY DEF Shown!Watch
<1>2. \A q \in Parts \ changed : /\ part'[q] = part[q] /\ Shown!CategoryOf(q)' = Shown!CategoryOf(q)
                                 /\ q \in Shelf!Live(part)' <=> q \in Shelf!Live(part)
  BY DEF Shown!CategoryOf, Shelf!Live, TablesTyped
<1>3. changed \subseteq Parts /\ Shelf!Live(part)' \subseteq Parts
  BY DEF Shelf!Live, TablesTyped
<1> HIDE DEF changed
<1>4. Showing'
  BY <1>1, <1>2 DEF ShownInv, Showing
<1>5. CASE build.pc = "idle"
  BY <1>1, <1>3, <1>4, <1>5 DEF ShownInv, Building
<1>6. CASE build.pc # "idle"
  <2>1. /\ build' \in Builds /\ build'.pc = build.pc /\ build'.cats = build.cats /\ build'.rows = build.rows
        /\ build'.under = build.under /\ build'.moved = build.moved \cup changed
    BY <1>1, <1>3, <1>6 DEF ShownInv, Builds
  <2>2. Building'
    BY <1>2, <1>3, <1>6, <2>1 DEF ShownInv, Building
  <2> QED BY <1>1, <1>3, <1>4, <2>1, <2>2 DEF ShownInv
<1> QED BY <1>5, <1>6

\* Rows that are there for a snapshot are those that are there for requests.
LEMMA AliveIsLive == Shown!Alive(part) = Shelf!Live(part) /\ Shown!Alive(cat) = Shelf!Live(cat)
BY DEF Shown!Alive, Shelf!Live

\* A statement of the build.
LEMMA RefreshStep ==
    ASSUME ShelfInv, ShownInv, Shown!Refresh, UNCHANGED <<part, cat>>
    PROVE  ShownInv'
<1>1. Shelf!Live(part)' = Shelf!Live(part) /\ \A q : Shown!CategoryOf(q)' = Shown!CategoryOf(q)
  BY DEF Shelf!Live, Shown!CategoryOf
<1>2. Shelf!Live(part) \subseteq Parts /\ Shelf!Live(cat) \subseteq Cats
  BY LiveIn
<1>3. /\ build \in Builds /\ Building /\ Showing /\ moved \in SUBSET Parts
      /\ \A q \in Shelf!Live(part) : part[q] \in Shelf!Live(cat) \cup {NoCat}
  BY DEF ShownInv, ShelfInv, Referred
<1>4. UNCHANGED <<snap, moved>> => Showing'
  BY <1>1, <1>3 DEF Showing
<1>5. CASE Shown!ReadCategories
  <2>1. build' = [Shown!NoBuild EXCEPT !.pc = "list", !.cats = Shelf!Live(cat)]
    BY <1>5, AliveIsLive DEF Shown!ReadCategories
  <2>2. /\ build' \in Builds /\ build'.pc = "list" /\ build'.cats = Shelf!Live(cat) /\ build'.rows = {}
        /\ build'.under = <<>>
    BY <1>2, <2>1, NothingUnder DEF Builds, Shown!NoBuild
  <2>3. Building'
    BY <1>1, <1>3, <2>2 DEF Building
  <2> QED BY <1>3, <1>4, <1>5, <2>2, <2>3 DEF ShownInv, Shown!ReadCategories
<1>6. CASE Shown!ReadIdentities
  <2>1. build.pc = "list" /\ build' = [build EXCEPT !.pc = "detail", !.rows = Shelf!Live(part)]
    BY <1>6, AliveIsLive DEF Shown!ReadIdentities
  <2>2. /\ build' \in Builds /\ build'.pc = "detail" /\ build'.cats = build.cats /\ build'.rows = Shelf!Live(part)
        /\ build'.under = build.under /\ build'.moved = build.moved
    BY <1>2, <1>3, <2>1 DEF Builds
  <2>3. Building'
    BY <1>1, <1>3, <2>1, <2>2, NothingUnder DEF Building
  <2> QED BY <1>3, <1>4, <1>6, <2>2, <2>3 DEF ShownInv, Shown!ReadIdentities
<1>7. CASE Shown!ReadDetail
  <2>1. PICK q \in build.rows :
            build' = [build EXCEPT !.rows = @ \ {q},
                                   !.under = IF q \in Shelf!Live(part)
                                             THEN [x \in DOMAIN @ \cup {q} |-> IF x = q THEN Shown!CategoryOf(q) ELSE @[x]]
                                             ELSE @]
    BY <1>7, AliveIsLive DEF Shown!ReadDetail
  <2> DEFINE rows  == build.rows \ {q}
             more  == [x \in DOMAIN build.under \cup {q} |-> IF x = q THEN Shown!CategoryOf(q) ELSE build.under[x]]
             under == IF q \in Shelf!Live(part) THEN more ELSE build.under
  <2>2. build.pc = "detail" /\ build' = [build EXCEPT !.rows = rows, !.under = under]
    BY <1>7, <2>1 DEF Shown!ReadDetail
  <2>3. rows \in SUBSET Parts /\ under \in Unders
    <3>1. build.under \in Unders /\ rows \in SUBSET Parts /\ q \in Parts
      BY <1>3 DEF Builds
    <3>2. PICK S \in SUBSET Parts : build.under \in [S -> Cats \cup {Uncategorized}]
      BY <3>1 DEF Unders
    <3>3. q \in Shelf!Live(part) => Shown!CategoryOf(q) \in Cats \cup {Uncategorized}
      BY <1>2, <1>3 DEF Shown!CategoryOf
    <3>4. q \in Shelf!Live(part) => more \in [S \cup {q} -> Cats \cup {Uncategorized}] /\ S \cup {q} \in SUBSET Parts
      BY <3>1, <3>2, <3>3
    <3> HIDE DEF more
    <3>5. q \in Shelf!Live(part) => more \in Unders
      BY <3>4 DEF Unders
    <3> QED BY <3>1, <3>5
  <2>4. /\ DOMAIN under = IF q \in Shelf!Live(part) THEN DOMAIN build.under \cup {q} ELSE DOMAIN build.under
        /\ \A x \in DOMAIN under : under[x] = IF x = q /\ q \in Shelf!Live(part) THEN Shown!CategoryOf(q) ELSE build.under[x]
    OBVIOUS
  <2> HIDE DEF rows, under
  <2>5. /\ build' \in Builds /\ build'.pc = "detail" /\ build'.cats = build.cats /\ build'.rows = rows
        /\ build'.under = under /\ build'.moved = build.moved
    BY <1>3, <2>2, <2>3 DEF Builds
  <2>6. ASSUME NEW x \in Parts \ build'.moved
        PROVE  /\ x \in build'.rows \cup DOMAIN build'.under <=> x \in Shelf!Live(part)'
               /\ x \in DOMAIN build'.under => build'.under[x] = Shown!CategoryOf(x)'
    <3>1. /\ x \in build.rows \cup DOMAIN build.under <=> x \in Shelf!Live(part)
          /\ x \in DOMAIN build.under => build.under[x] = Shown!CategoryOf(x)
      BY <1>3, <2>2, <2>5, <2>6 DEF Building
    <3>2. CASE x = q
      BY <1>1, <2>1, <2>4, <2>5, <3>1, <3>2 DEF rows
    <3>3. CASE x # q
      BY <1>1, <2>4, <2>5, <3>1, <3>3 DEF rows
    <3> QED BY <3>2, <3>3
  <2>7. Building'
    BY <1>1, <1>3, <2>2, <2>5, <2>6 DEF Building
  <2> QED BY <1>3, <1>4, <1>7, <2>5, <2>7 DEF ShownInv, Shown!ReadDetail
<1>8. CASE Shown!SkipDetail
  <2>1. PICK q \in build.rows :
            build.pc = "detail" /\ build' = [build EXCEPT !.rows = build.rows \ {q}, !.moved = build.moved \cup {q}]
    BY <1>8 DEF Shown!SkipDetail
  <2>2. /\ build' \in Builds /\ build'.pc = "detail" /\ build'.cats = build.cats /\ build'.rows = build.rows \ {q}
        /\ build'.under = build.under /\ build'.moved = build.moved \cup {q}
    BY <1>3, <2>1 DEF Builds
  <2>3. Building'
    BY <1>1, <1>3, <2>1, <2>2 DEF Building
  <2> QED BY <1>3, <1>4, <1>8, <2>2, <2>3 DEF ShownInv, Shown!SkipDetail
<1>9. CASE Shown!FailRefresh
  BY <1>3, <1>4, <1>9, NoBuildIs DEF ShownInv, Building, Shown!FailRefresh
<1>10. CASE Shown!Swap
  <2>1. /\ build.pc = "detail" /\ build.rows = {} /\ build' = Shown!NoBuild /\ moved' = build.moved
        /\ snap'.cats = Shown!Listed(build.cats, build.under) /\ snap'.under = build.under
    BY <1>10 DEF Shown!Swap
  <2>2. ASSUME NEW q \in Parts \ moved'
        PROVE  /\ q \in DOMAIN snap'.under <=> q \in Shelf!Live(part)'
               /\ q \in DOMAIN snap'.under =>
                      snap'.under[q] = Shown!CategoryOf(q)' /\ snap'.under[q] \in snap'.cats
    <3>1. /\ q \in DOMAIN build.under <=> q \in Shelf!Live(part)
          /\ q \in DOMAIN build.under => build.under[q] = Shown!CategoryOf(q)
          /\ q \in Shelf!Live(part) => part[q] \in build.cats \cup {NoCat}
      BY <1>3, <2>1, <2>2 DEF Building
    <3>2. q \in DOMAIN build.under => build.under[q] \in Shown!Listed(build.cats, build.under)
      BY <3>1 DEF Shown!Listed, Shown!CategoryOf
    <3> QED BY <1>1, <2>1, <3>1, <3>2
  <2>3. \A c \in snap'.cats : \E q \in DOMAIN snap'.under : snap'.under[q] = c
    BY <2>1 DEF Shown!Listed
  <2>4. build' \in Builds /\ moved' \in SUBSET Parts /\ Building'
    BY <1>3, <2>1, NoBuildIs DEF Builds, Building
  <2> QED BY <2>2, <2>3, <2>4 DEF ShownInv, Showing
<1> QED BY <1>5, <1>6, <1>7, <1>8, <1>9, <1>10 DEF Shown!Refresh

\* What the invariant says of the snapshot is what a user of the chooser sees.
LEMMA ShownServes == ShelfInv /\ ShownInv => Shown!CatalogueServed
<1> SUFFICES ASSUME ShelfInv, ShownInv PROVE Shown!CatalogueServed
  OBVIOUS
<1>1. Showing /\ Shown!Alive(part) = Shelf!Live(part)
  BY AliveIsLive DEF ShownInv
<1> QED BY <1>1 DEF Showing, Shown!CatalogueServed, Shown!handleCategories, Shown!handlePartsByCategory

-----------------------------------------------------------------------------
\* Chains of symbols.

\* A set of numbers has a least: what an induction over them is made of here.
LEMMA Least ==
    ASSUME NEW S \in SUBSET Nat, S # {}
    PROVE  \E x \in S : \A y \in S : x <= y
<1>1. \E x \in S : \A y \in S : ~ (<<y, x>> \in OpToRel(<, Nat))
  BY NatLessThanWellFounded, WFMin
<1>2. PICK x \in S : \A y \in S : ~ (<<y, x>> \in OpToRel(<, Nat))
  BY <1>1
<1>3. \A y \in S : ~(y < x)
  BY <1>2 DEF OpToRel
<1> QED BY <1>3

\* Where chains end after n steps, from where they end after one less.
OneUp(up, n, ends) ==
    [v \in Versions |-> IF n = 0 \/ Base[v] = NoName \/ up[v] = NoSource THEN v ELSE ends[up[v]]]

\* That is defined for every number of steps: of a first for which it were not, it is by
\* the one before.
LEMMA EndsDefined ==
    ASSUME NEW up, NEW N \in 0 .. MaxDepth
    PROVE  \E f : f = [n \in 0 .. N |-> OneUp(up, n, f[n - 1])]
<1> DEFINE Defined(M) == \E f : f = [n \in 0 .. M |-> OneUp(up, n, f[n - 1])]
           S == {M \in 0 .. MaxDepth : ~Defined(M)}
<1>1. CASE S = {}
  BY <1>1
<1>2. CASE S # {}
  <2>1. S \in SUBSET Nat
    BY LibraryAssumption
  <2> HIDE DEF S
  <2>2. PICK M \in S : \A y \in S : M <= y
    BY <1>2, <2>1, Least
  <2> USE DEF S
  <2>3. CASE M = 0
    <3> DEFINE f == [n \in 0 .. 0 |-> [v \in Versions |-> v]]
    <3>1. \A n \in 0 .. 0 : OneUp(up, n, f[n - 1]) = [v \in Versions |-> v]
      BY DEF OneUp
    <3>2. f = [n \in 0 .. 0 |-> OneUp(up, n, f[n - 1])]
      BY <3>1
    <3> HIDE DEF f
    <3> QED BY <2>2, <2>3, <3>2
  <2>4. CASE M # 0
    <3>1. M - 1 \in 0 .. MaxDepth /\ M \in 1 .. MaxDepth
      BY <2>2, <2>4, LibraryAssumption
    <3>2. Defined(M - 1)
      BY <2>2, <3>1
    <3>3. PICK f : f = [n \in 0 .. M - 1 |-> OneUp(up, n, f[n - 1])]
      BY <3>2
    <3> DEFINE g == [n \in 0 .. M |-> IF n = M THEN OneUp(up, M, f[M - 1]) ELSE f[n]]
    <3>4. ASSUME NEW n \in 0 .. M PROVE g[n] = OneUp(up, n, g[n - 1])
      <4>1. CASE n = 0
        <5>1. g[0] = OneUp(up, 0, f[0 - 1])
          BY <3>1, <3>3
        <5>2. OneUp(up, 0, f[0 - 1]) = OneUp(up, 0, g[0 - 1])
          BY DEF OneUp
        <5> QED BY <4>1, <5>1, <5>2
      <4>2. CASE n # 0
        <5>1. n - 1 \in 0 .. M /\ n - 1 # M /\ n - 1 \in 0 .. M - 1
          BY <3>1, <4>2
        <5>2. g[n - 1] = f[n - 1]
          BY <5>1
        <5>3. CASE n = M
          BY <5>2, <5>3
        <5>4. CASE n # M
          <6>1. n \in 0 .. M - 1
            BY <3>1, <5>4
          <6>2. g[n] = f[n]
            BY <5>4
          <6> HIDE DEF g
          <6>3. f[n] = OneUp(up, n, f[n - 1])
            BY <3>3, <6>1
          <6> QED BY <5>2, <6>2, <6>3
        <5> QED BY <5>3, <5>4
      <4> QED BY <4>1, <4>2
    <3>5. g = [n \in 0 .. M |-> OneUp(up, n, g[n - 1])]
      <4>1. g = [n \in 0 .. M |-> g[n]]
        OBVIOUS
      <4> HIDE DEF g
      <4>2. [n \in 0 .. M |-> g[n]] = [n \in 0 .. M |-> OneUp(up, n, g[n - 1])]
        BY <3>4
      <4> QED BY <4>1, <4>2
    <3> HIDE DEF g
    <3> QED BY <2>2, <3>5
  <2> QED BY <2>3, <2>4
<1> QED BY <1>1, <1>2

\* So it is defined, and is what its definition says.
LEMMA EndsAre ==
    ASSUME NEW up, NEW n \in 0 .. MaxDepth
    PROVE  Books!Ends(up)[n] = OneUp(up, n, Books!Ends(up)[n - 1])
<1> DEFINE F(f) == [m \in 0 .. MaxDepth |-> OneUp(up, m, f[m - 1])]
<1>1. \E f : f = F(f)
  <2>1. MaxDepth \in 0 .. MaxDepth
    BY LibraryAssumption
  <2> QED BY <2>1, EndsDefined
<1>2. Books!Ends(up) = CHOOSE f : f = F(f)
  BY DEF Books!Ends, OneUp
<1>3. Books!Ends(up) = F(Books!Ends(up))
  <2> HIDE DEF F
  <2>1. (CHOOSE f : f = F(f)) = F(CHOOSE f : f = F(f))
    BY <1>1
  <2> QED BY <1>2, <2>1
<1> DEFINE e == Books!Ends(up)
<1>4. e = [m \in 0 .. MaxDepth |-> OneUp(up, m, e[m - 1])]
  BY <1>3
<1> HIDE DEF e
<1>5. e[n] = OneUp(up, n, e[n - 1])
  BY <1>4
<1> QED BY <1>5 DEF e

\* One step of the walk up, and where it stops.
LEMMA WalkUp ==
    ASSUME NEW up, NEW v \in Versions, NEW n \in 0 .. MaxDepth
    PROVE  /\ n = 0 \/ Base[v] = NoName \/ up[v] = NoSource => Books!Ends(up)[n][v] = v
           /\ n # 0 /\ Base[v] # NoName /\ up[v] # NoSource => Books!Ends(up)[n][v] = Books!Ends(up)[n - 1][up[v]]
<1> DEFINE e == Books!Ends(up)
<1>1. e[n] = OneUp(up, n, e[n - 1])
  BY EndsAre
<1> HIDE DEF e
<1>2. e[n][v] = IF n = 0 \/ Base[v] = NoName \/ up[v] = NoSource THEN v ELSE e[n - 1][up[v]]
  BY <1>1 DEF OneUp
<1> QED BY <1>2 DEF e

-----------------------------------------------------------------------------
\* What the uploaded libraries and the requests for drawings keep.

ItemRows   == [source : Versions \cup {NoSource}, drawing : SUBSET Versions, scan : Scans]
Asking     == [pc : {"source", "extends", "save"}, id : Books!Ids, source : Versions \cup {NoSource},
               up : 0 .. MaxDepth, raced : BOOLEAN, cut : BOOLEAN]
ReaderRows == {x \in Asking : x.pc = "source" => x.up = 0}

BooksTyped ==
    /\ DOMAIN items \subseteq Books!Ids /\ \A i \in DOMAIN items : items[i] \in ItemRows
    /\ DOMAIN reader = Readers /\ reader = [r \in Readers |-> reader[r]]
    /\ \A r \in Readers : reader[r].pc \in {"idle", "done"} \/ reader[r] \in ReaderRows

\* A drawing shows what the sources give.
Drawn(i) ==
    items[i].drawing # {} => /\ items[i].source \in Versions
                             /\ items[i].drawing = {Books!resolveSymbolExtends(i[1], items[i].source)}

\* What a request has come to on its way up is on the way of the source that is stored, as
\* long as nothing was changed and every read found what there is.
Resolving(x) ==
    x.pc \in {"extends", "save"} =>
        /\ x.source \in Versions
        /\ ~x.raced /\ ~x.cut =>
                       /\ x.id \in DOMAIN items /\ items[x.id].source \in Versions
                       /\ Books!resolveSymbolExtends(x.id[1], items[x.id].source)
                            = IF x.pc = "save" THEN x.source
                              ELSE Books!Ends(Books!Above(x.id[1]))[MaxDepth - x.up][x.source]

BooksInv == BooksTyped /\ (\A i \in DOMAIN items \ (raced \cup cut) : Drawn(i)) /\ \A r \in Readers : Resolving(reader[r])

-----------------------------------------------------------------------------
\* The steps of the library.

\* What an upload left: nothing is drawn yet.
LEMMA BooksInit == Books!Init => BooksInv
<1> SUFFICES ASSUME Books!Init PROVE BooksInv
  OBVIOUS
<1>1. PICK lib \in Libs, scan \in Scans, ids \in SUBSET ItemNames : \E v \in [ids -> Versions] :
          items = [i \in {lib} \X ids |-> Books!Row(v[i[2]], {}, scan)]
  BY DEF Books!Init
<1>2. PICK v \in [ids -> Versions] : items = [i \in {lib} \X ids |-> Books!Row(v[i[2]], {}, scan)]
  BY <1>1
<1>3. DOMAIN items \subseteq Books!Ids /\ \A i \in DOMAIN items : items[i] \in ItemRows /\ items[i].drawing = {}
  BY <1>2 DEF ItemRows, Books!Row, Books!Ids
<1>4. /\ DOMAIN reader = Readers /\ reader = [r \in Readers |-> reader[r]]
      /\ \A r \in Readers : reader[r].pc = "idle"
  BY DEF Books!Init, Books!Idle
<1> QED BY <1>3, <1>4 DEF BooksInv, BooksTyped, Drawn, Resolving

\* What is looked up for the symbols of a library.
LEMMA AboveIs ==
    ASSUME BooksTyped, NEW lib
    PROVE  Books!Above(lib) \in [Versions -> Versions \cup {NoSource}]
BY DEF Books!Above, Books!Source, Books!Stored, BooksTyped, ItemRows

\* A library whose sources stay resolves what it did.
LEMMA SameSources ==
    ASSUME NEW lib, \A n : Books!Source(<<lib, n>>)' = Books!Source(<<lib, n>>)
    PROVE  /\ Books!Above(lib)' = Books!Above(lib)
           /\ \A v : Books!resolveSymbolExtends(lib, v)' = Books!resolveSymbolExtends(lib, v)
<1>1. Books!Above(lib)' = Books!Above(lib)
  BY DEF Books!Above
<1>2. \A up : Books!Ends(up)' = Books!Ends(up)
  BY DEF Books!Ends
<1> QED BY <1>1 DEF Books!resolveSymbolExtends, Books!Ends

\* A symbol with its own graphics is drawn from its own source.
LEMMA OwnGraphics ==
    ASSUME NEW up, NEW v \in Versions, Base[v] = NoName
    PROVE  Books!Ends(up)[MaxDepth][v] = v
<1>1. MaxDepth \in 0 .. MaxDepth
  BY LibraryAssumption
<1> QED BY <1>1, WalkUp

\* A change of the items `ids`: the sources of others stay, and so do their drawings; those
\* of the ids that are not marked show their own source or nothing.
LEMMA ChangeStep ==
    ASSUME BooksInv, NEW ids,
           DOMAIN items' \subseteq Books!Ids, \A i \in DOMAIN items' : items'[i] \in ItemRows,
           \A i \in Books!Ids \ ids :
               /\ i \in DOMAIN items' <=> i \in DOMAIN items
               /\ i \in DOMAIN items =>
                      items'[i].source = items[i].source /\ items'[i].drawing = items[i].drawing,
           Books!Raced(ids) \subseteq raced', raced \ ids \subseteq raced', cut \ ids \subseteq cut',
           \A i \in DOMAIN items' \ (raced' \cup cut') : i \in ids /\ items'[i].drawing # {} =>
               /\ items'[i].source \in Versions /\ Base[items'[i].source] = NoName
               /\ items'[i].drawing = {items'[i].source},
           reader' = Books!Overtaken(ids)
    PROVE  BooksInv'
<1>1. BooksTyped'
  <2>1. ASSUME NEW r \in Readers
        PROVE  reader'[r].pc \in {"idle", "done"} \/ reader'[r] \in ReaderRows
    <3>1. reader[r].pc \in {"idle", "done"} \/ reader[r] \in ReaderRows
      BY DEF BooksInv, BooksTyped
    <3>2. reader'[r] = reader[r] \/ (reader'[r] = [reader[r] EXCEPT !.raced = TRUE] /\ reader[r].pc \notin {"idle", "done"})
      BY DEF Books!Overtaken
    <3>3. reader[r] \in ReaderRows => [reader[r] EXCEPT !.raced = TRUE] \in ReaderRows
      BY DEF ReaderRows, Asking
    <3> QED BY <3>1, <3>2, <3>3
  <2>2. DOMAIN reader' = Readers /\ reader' = [r \in Readers |-> reader'[r]]
    BY DEF Books!Overtaken
  <2> QED BY <2>1, <2>2 DEF BooksTyped
<1>2. ASSUME NEW lib, \A j \in ids : j[1] # lib
      PROVE  /\ \A n : Books!Source(<<lib, n>>)' = Books!Source(<<lib, n>>)
             /\ Books!Above(lib)' = Books!Above(lib)
             /\ \A v : Books!resolveSymbolExtends(lib, v)' = Books!resolveSymbolExtends(lib, v)
  <2>1. ASSUME NEW n PROVE Books!Source(<<lib, n>>)' = Books!Source(<<lib, n>>)
    <3>1. <<lib, n>> \notin ids
      BY <1>2
    <3>2. <<lib, n>> \in DOMAIN items' <=> <<lib, n>> \in DOMAIN items
      BY <3>1 DEF BooksInv, BooksTyped
    <3> QED BY <3>1, <3>2 DEF Books!Source, Books!Stored, BooksInv, BooksTyped
  <2> QED BY <2>1, SameSources
<1>3. ASSUME NEW i \in DOMAIN items' \ (raced' \cup cut') PROVE Drawn(i)'
  <2>1. CASE i \in ids
    <3> SUFFICES ASSUME items'[i].drawing # {}
                 PROVE  /\ items'[i].source \in Versions
                        /\ items'[i].drawing = {Books!resolveSymbolExtends(i[1], items[i].source)'}
      BY DEF Drawn
    <3>1. /\ items'[i].source \in Versions /\ Base[items'[i].source] = NoName
          /\ items'[i].drawing = {items'[i].source}
      BY <1>3, <2>1
    <3>2. Books!resolveSymbolExtends(i[1], items[i].source)' = items'[i].source
      BY <3>1, OwnGraphics DEF Books!resolveSymbolExtends
    <3> QED BY <3>1, <3>2
  <2>2. CASE i \notin ids
    <3>1. /\ i \in DOMAIN items \ (raced \cup cut) /\ i \in Books!Ids
          /\ items'[i].source = items[i].source /\ items'[i].drawing = items[i].drawing
      BY <1>3, <2>2
    <3>2. Drawn(i) /\ i \notin Books!Raced(ids)
      BY <1>3, <3>1 DEF BooksInv
    <3>3. CASE \A j \in ids : j[1] # i[1]
      <4>1. \A v : Books!resolveSymbolExtends(i[1], v)' = Books!resolveSymbolExtends(i[1], v)
        BY <1>2, <3>3
      <4>2. Books!resolveSymbolExtends(i[1], items[i].source)' = Books!resolveSymbolExtends(i[1], items[i].source)
        BY <3>1, <4>1 DEF Books!resolveSymbolExtends
      <4> QED BY <3>1, <3>2, <4>2 DEF Drawn
    <3>4. CASE ~Books!Extends(i)
      <4>1. CASE items[i].drawing = {}
        BY <3>1, <4>1 DEF Drawn
      <4>2. CASE items[i].drawing # {}
        <5>1. items[i].source \in Versions /\ Base[items[i].source] = NoName
          BY <3>2, <3>4, <4>2, LibraryAssumption DEF Drawn, Books!Extends
        <5>2. items[i].drawing = {items[i].source}
          BY <3>2, <4>2, <5>1, OwnGraphics DEF Drawn, Books!resolveSymbolExtends
        <5>3. Books!resolveSymbolExtends(i[1], items[i].source)' = items'[i].source
          BY <3>1, <5>1, OwnGraphics DEF Books!resolveSymbolExtends
        <5> QED BY <3>1, <5>1, <5>2, <5>3 DEF Drawn
      <4> QED BY <4>1, <4>2
    <3> QED BY <2>2, <3>1, <3>2, <3>3, <3>4 DEF Books!Raced, Books!Stored
  <2> QED BY <2>1, <2>2
<1>4. ASSUME NEW r \in Readers PROVE Resolving(reader[r])'
  <2> SUFFICES ASSUME reader'[r].pc \in {"extends", "save"} PROVE Resolving(reader[r])'
    BY DEF Resolving
  <2>1. Resolving(reader[r]) /\ (reader[r].pc \in {"idle", "done"} \/ reader[r] \in ReaderRows)
    BY DEF BooksInv, BooksTyped
  <2>2. CASE reader[r].pc \notin {"idle", "done"} /\ \E j \in ids : j[1] = reader[r].id[1]
    <3>1. reader'[r] = [reader[r] EXCEPT !.raced = TRUE] /\ reader[r] \in ReaderRows
      BY <2>1, <2>2 DEF Books!Overtaken
    <3>2. /\ reader'[r].raced /\ reader'[r].pc = reader[r].pc /\ reader'[r].source = reader[r].source
          /\ reader'[r].cut = reader[r].cut
      BY <3>1 DEF ReaderRows, Asking
    <3> QED BY <2>1, <3>2 DEF Resolving
  <2>3. CASE ~(reader[r].pc \notin {"idle", "done"} /\ \E j \in ids : j[1] = reader[r].id[1])
    <3>1. reader'[r] = reader[r]
      BY <2>3 DEF Books!Overtaken
    <3> DEFINE x == reader[r]
               lib == reader[r].id[1]
    <3>2. x.pc \in {"extends", "save"} /\ x \in ReaderRows /\ \A j \in ids : j[1] # lib
      BY <2>1, <2>3, <3>1
    <3>3. PICK z : z = x
      OBVIOUS
    <3>4. CASE z.raced \/ z.cut
      BY <2>1, <3>1, <3>2, <3>3, <3>4 DEF Resolving
    <3>5. CASE ~z.raced /\ ~z.cut
      <4>1. z.id \in DOMAIN items /\ z.id \notin ids /\ z.id \in Books!Ids
        BY <2>1, <3>2, <3>3, <3>5 DEF Resolving, ReaderRows, Asking
      <4>2. z.id \in DOMAIN items' /\ items'[z.id].source = items[z.id].source
        BY <4>1
      <4>3. /\ Books!Above(z.id[1])' = Books!Above(z.id[1])
            /\ \A v : Books!resolveSymbolExtends(z.id[1], v)' = Books!resolveSymbolExtends(z.id[1], v)
        BY <1>2, <3>2, <3>3
      <4> QED BY <2>1, <3>1, <3>2, <3>3, <4>1, <4>2, <4>3 DEF Resolving
    <3> QED BY <3>4, <3>5
  <2> QED BY <2>2, <2>3
<1> QED BY <1>1, <1>3, <1>4 DEF BooksInv

\* An upload takes the drawings of the items it changes.
LEMMA UploadKeeps == ASSUME BooksInv, Books!UploadBatch PROVE BooksInv'
<1>1. PICK scan \in Scans, overwrite \in BOOLEAN, ids \in SUBSET Books!Ids :
      \E batch \in [ids -> Versions \cup {NoSource}] :
          LET touched == {i \in ids : i \notin Books!Stored \/ (overwrite /\ batch[i] # items[i].source)}
          IN  /\ Books!UpsertBatch(scan, batch, overwrite)
              /\ raced' = (raced \ touched) \cup Books!Raced(touched)
              /\ cut' = cut \ touched
              /\ reader' = Books!Overtaken(touched)
  BY DEF Books!UploadBatch
<1>2. PICK batch \in [ids -> Versions \cup {NoSource}] :
          LET touched == {i \in ids : i \notin Books!Stored \/ (overwrite /\ batch[i] # items[i].source)}
          IN  /\ Books!UpsertBatch(scan, batch, overwrite)
              /\ raced' = (raced \ touched) \cup Books!Raced(touched)
              /\ cut' = cut \ touched
              /\ reader' = Books!Overtaken(touched)
  BY <1>1
<1> DEFINE touched == {i \in ids : i \notin DOMAIN items \/ (overwrite /\ batch[i] # items[i].source)}
<1>3. /\ raced' = (raced \ touched) \cup Books!Raced(touched) /\ cut' = cut \ touched
      /\ reader' = Books!Overtaken(touched)
      /\ items' = [i \in DOMAIN items \cup ids |->
                     IF i \notin ids THEN items[i]
                     ELSE IF i \notin DOMAIN items THEN Books!Row(batch[i], {}, scan)
                     ELSE Books!Merged(items[i], batch[i], scan, overwrite)]
  BY <1>2 DEF Books!UpsertBatch, Books!Stored
<1>4. DOMAIN items' = DOMAIN items \cup ids
  BY <1>3
<1>5. ASSUME NEW i \in DOMAIN items'
      PROVE  /\ items'[i] \in ItemRows
             /\ i \in touched => items'[i].drawing = {}
             /\ i \notin touched => i \in DOMAIN items /\ items'[i].source = items[i].source
                                    /\ items'[i].drawing = items[i].drawing
  <2>1. CASE i \notin ids
    BY <1>3, <1>4, <2>1 DEF BooksInv, BooksTyped
  <2>2. CASE i \in ids /\ i \notin DOMAIN items
    <3>1. items'[i] = Books!Row(batch[i], {}, scan)
      BY <1>3, <1>4, <2>2
    <3> QED BY <2>2, <3>1 DEF ItemRows, Books!Row
  <2>3. CASE i \in ids /\ i \in DOMAIN items
    <3>1. items'[i] = Books!Merged(items[i], batch[i], scan, overwrite) /\ items[i] \in ItemRows
      BY <1>3, <1>4, <2>3 DEF BooksInv, BooksTyped
    <3> DEFINE old == items[i]
               v == batch[i]
    <3>2. v \in Versions \cup {NoSource} /\ old.source \in Versions \cup {NoSource}
      BY <2>3, <3>1 DEF ItemRows
    <3>3. CASE ~overwrite
      BY <2>3, <3>1, <3>3 DEF Books!Merged
    <3>4. CASE overwrite
      <4>1. items'[i] = Books!Row(IF v = NoSource THEN old.source ELSE v, IF v = old.source THEN old.drawing ELSE {}, scan)
        BY <3>1, <3>4 DEF Books!Merged
      <4>2. i \in touched <=> v # old.source
        BY <2>3, <3>4
      <4>3. old.drawing \in SUBSET Versions
        BY <3>1 DEF ItemRows
      <4> HIDE DEF v, touched
      <4>4. /\ items'[i].source = IF v = NoSource THEN old.source ELSE v
            /\ items'[i].drawing = IF v = old.source THEN old.drawing ELSE {}
        BY <4>1 DEF Books!Row
      <4>5. items'[i] \in ItemRows
        BY <3>2, <4>1, <4>3 DEF ItemRows, Books!Row
      <4> QED BY <2>3, <4>2, <4>4, <4>5
    <3> QED BY <3>3, <3>4
  <2> QED BY <2>1, <2>2, <2>3
<1>6. ids \subseteq Books!Ids /\ DOMAIN items \subseteq Books!Ids /\ touched \subseteq ids
  BY DEF BooksInv, BooksTyped
<1>7. \A i \in Books!Ids \ touched : i \in DOMAIN items' <=> i \in DOMAIN items
  BY <1>4, <1>5
<1> HIDE DEF touched
<1> QED BY <1>3, <1>4, <1>5, <1>6, <1>7, ChangeStep

\* What moves to another library keeps the drawings of its own graphics, and the others are marked.
LEMMA RenameKeeps == ASSUME BooksInv, Books!RenameLibrary PROVE BooksInv'
<1>1. PICK from \in Libs, to \in Libs :
      LET moving == Books!Moving(from, to)
          there  == {<<to, i[2]>> : i \in moving}
          drawn  == {i \in moving : Books!Extends(i)}
      IN  /\ from # to /\ moving # {}
          /\ items' = [i \in (Books!Stored \ moving) \cup there |->
                          IF i \in there THEN items[<<from, i[2]>>] ELSE items[i]]
          /\ raced' = ((raced \cup Books!Raced(moving \cup there)) \ moving)
                      \cup {<<to, i[2]>> : i \in drawn \cup (raced \cap moving)}
          /\ cut' = (cut \ moving) \cup {<<to, i[2]>> : i \in cut \cap moving}
          /\ reader' = Books!Overtaken(moving \cup there)
  BY DEF Books!RenameLibrary
<1> DEFINE moving == Books!Moving(from, to)
           there  == {<<to, i[2]>> : i \in moving}
           ids    == moving \cup there
<1>2. /\ from # to
      /\ items' = [i \in (DOMAIN items \ moving) \cup there |->
                      IF i \in there THEN items[<<from, i[2]>>] ELSE items[i]]
      /\ raced' = ((raced \cup Books!Raced(ids)) \ moving)
                  \cup {<<to, i[2]>> : i \in {j \in moving : Books!Extends(j)} \cup (raced \cap moving)}
      /\ cut' = (cut \ moving) \cup {<<to, i[2]>> : i \in cut \cap moving}
      /\ reader' = Books!Overtaken(ids)
  BY <1>1 DEF Books!Stored
<1>3. /\ moving \subseteq DOMAIN items /\ moving \subseteq Books!Ids
      /\ \A i \in moving : i = <<from, i[2]>> /\ i[2] \in ItemNames /\ <<to, i[2]>> \notin DOMAIN items
  BY DEF Books!Moving, Books!Stored, Books!Ids, BooksInv, BooksTyped
<1> HIDE DEF moving
<1>4. there \subseteq Books!Ids /\ \A i \in there : i = <<to, i[2]>> /\ <<from, i[2]>> \in moving /\ i \notin DOMAIN items
  BY <1>3 DEF Books!Ids
<1>5. DOMAIN items' = (DOMAIN items \ moving) \cup there
  BY <1>2
<1>6. ASSUME NEW i \in DOMAIN items'
      PROVE  /\ items'[i] \in ItemRows
             /\ i \notin ids => i \in DOMAIN items /\ items'[i] = items[i]
             /\ i \in ids => i \in there /\ items'[i] = items[<<from, i[2]>>]
  <2>1. CASE i \in there
    BY <1>2, <1>3, <1>4, <1>5, <2>1 DEF BooksInv, BooksTyped
  <2>2. CASE i \notin there
    BY <1>2, <1>4, <1>5, <2>2 DEF BooksInv, BooksTyped
  <2> QED BY <2>1, <2>2
<1>7. \A i \in Books!Ids \ ids : i \in DOMAIN items' <=> i \in DOMAIN items
  BY <1>5
<1>8. Books!Raced(ids) \subseteq raced' /\ raced \ ids \subseteq raced' /\ cut \ ids \subseteq cut'
  <2>1. \A i \in Books!Raced(ids) : i \notin ids
    BY DEF Books!Raced
  <2> QED BY <1>2, <2>1
<1>9. ASSUME NEW i \in DOMAIN items' \ (raced' \cup cut'), i \in ids, items'[i].drawing # {}
      PROVE  /\ items'[i].source \in Versions /\ Base[items'[i].source] = NoName
             /\ items'[i].drawing = {items'[i].source}
  <2>1. i \in there /\ <<from, i[2]>> \in moving /\ items'[i] = items[<<from, i[2]>>] /\ i = <<to, i[2]>>
    BY <1>4, <1>6, <1>9
  <2> DEFINE j == <<from, i[2]>>
  <2>2. j \in moving /\ items'[i] = items[j] /\ i = <<to, j[2]>>
    BY <2>1
  <2> HIDE DEF j
  <2>3. j \notin raced /\ j \notin cut /\ ~Books!Extends(j) /\ j \in DOMAIN items
    BY <1>2, <1>3, <1>9, <2>2
  <2>4. Drawn(j)
    BY <2>3 DEF BooksInv
  <2>5. items[j].source \in Versions /\ Base[items[j].source] = NoName
    BY <1>9, <2>2, <2>3, <2>4, LibraryAssumption DEF Drawn, Books!Extends
  <2>6. items[j].drawing = {items[j].source}
    BY <1>9, <2>2, <2>4, <2>5, OwnGraphics DEF Drawn, Books!resolveSymbolExtends
  <2> QED BY <2>2, <2>5, <2>6
<1>10. DOMAIN items' \subseteq Books!Ids
  BY <1>4, <1>5 DEF BooksInv, BooksTyped
<1> HIDE DEF ids
<1> QED BY <1>2, <1>6, <1>7, <1>8, <1>9, <1>10, ChangeStep

\* What is removed is drawn of nothing any more.
LEMMA DeleteKeeps == ASSUME BooksInv, Books!DeleteItems PROVE BooksInv'
<1>1. PICK lib \in Libs, names \in {ItemNames} \cup {{n} : n \in ItemNames} :
      LET gone == {i \in Books!Stored : i[1] = lib /\ i[2] \in names}
      IN  /\ items' = Books!Without(gone)
          /\ raced' = (raced \ gone) \cup Books!Raced(gone) /\ cut' = cut \ gone /\ reader' = Books!Overtaken(gone)
  BY DEF Books!DeleteItems
<1> DEFINE gone == {i \in DOMAIN items : i[1] = lib /\ i[2] \in names}
<1>2. /\ items' = [i \in DOMAIN items \ gone |-> items[i]]
      /\ raced' = (raced \ gone) \cup Books!Raced(gone) /\ cut' = cut \ gone /\ reader' = Books!Overtaken(gone)
  BY <1>1 DEF Books!Stored, Books!Without
<1>3. DOMAIN items' = DOMAIN items \ gone
  BY <1>2
<1> HIDE DEF gone
<1>4. /\ DOMAIN items' \subseteq Books!Ids /\ \A i \in DOMAIN items' : items'[i] \in ItemRows
      /\ \A i \in Books!Ids \ gone :
             /\ i \in DOMAIN items' <=> i \in DOMAIN items
             /\ i \in DOMAIN items => items'[i].source = items[i].source /\ items'[i].drawing = items[i].drawing
  BY <1>2, <1>3 DEF BooksInv, BooksTyped
<1> QED BY <1>2, <1>3, <1>4, ChangeStep

\* A step of one request for a drawing, with the sources as they are.
LEMMA ReaderStep ==
    ASSUME BooksInv, NEW r \in Readers, NEW x, x.pc = "done" \/ x \in ReaderRows, reader' = [reader EXCEPT ![r] = x],
           DOMAIN items' = DOMAIN items, \A i \in DOMAIN items : items'[i] \in ItemRows,
           \A i \in DOMAIN items : items'[i].source = items[i].source,
           \A i \in DOMAIN items \ (raced' \cup cut') :
               /\ i \notin raced \cup cut /\ items'[i].drawing = items[i].drawing
               \/ /\ items'[i].source \in Versions
                  /\ items'[i].drawing = {Books!resolveSymbolExtends(i[1], items[i].source)},
           Resolving(x)
    PROVE  BooksInv'
<1>1. \A lib : /\ Books!Above(lib)' = Books!Above(lib)
               /\ \A v : Books!resolveSymbolExtends(lib, v)' = Books!resolveSymbolExtends(lib, v)
  <2>1. \A lib, n : Books!Source(<<lib, n>>)' = Books!Source(<<lib, n>>)
    BY DEF Books!Source, Books!Stored
  <2> QED BY <2>1, SameSources
<1>2. reader'[r] = x /\ \A o \in Readers \ {r} : reader'[o] = reader[o]
  BY DEF BooksInv, BooksTyped
<1>3. BooksTyped'
  BY <1>2 DEF BooksInv, BooksTyped
<1>4. ASSUME NEW i \in DOMAIN items' \ (raced' \cup cut') PROVE Drawn(i)'
  <2>1. Books!resolveSymbolExtends(i[1], items[i].source)' = Books!resolveSymbolExtends(i[1], items[i].source)
    BY <1>1
  <2>2. i \notin raced \cup cut => Drawn(i)
    BY DEF BooksInv
  <2> QED BY <2>1, <2>2 DEF Drawn
<1>5. ASSUME NEW o \in Readers PROVE Resolving(reader[o])'
  <2>1. PICK z : z = reader'[o]
    OBVIOUS
  <2>2. Resolving(z)
    BY <1>2, <2>1 DEF BooksInv
  <2>3. z.pc \in {"extends", "save"} /\ ~z.raced /\ ~z.cut =>
            /\ items'[z.id].source = items[z.id].source /\ Books!Above(z.id[1])' = Books!Above(z.id[1])
            /\ Books!resolveSymbolExtends(z.id[1], items[z.id].source)'
                 = Books!resolveSymbolExtends(z.id[1], items[z.id].source)
    BY <1>1, <2>2 DEF Resolving
  <2> QED BY <1>1, <2>1, <2>2, <2>3 DEF Resolving
<1> QED BY <1>3, <1>4, <1>5 DEF BooksInv

\* A request for a drawing that has begun.
LEMMA ReaderRow == ASSUME BooksInv, NEW r \in Readers, reader[r].pc \notin {"idle", "done"} PROVE reader[r] \in ReaderRows
BY DEF BooksInv, BooksTyped

\* A request begins.
LEMMA GetKeeps == ASSUME BooksInv, NEW r \in Readers, Books!GetDrawing(r) PROVE BooksInv'
<1>1. PICK i \in DOMAIN items : \E found \in {{}, items[i].drawing} :
          reader' = [reader EXCEPT ![r] =
              IF found # {} THEN Books!Over
              ELSE [pc |-> "source", id |-> i, source |-> NoSource, up |-> 0, raced |-> FALSE, cut |-> FALSE]]
  BY DEF Books!GetDrawing, Books!Stored
<1>2. PICK found : reader' = [reader EXCEPT ![r] =
              IF found # {} THEN Books!Over
              ELSE [pc |-> "source", id |-> i, source |-> NoSource, up |-> 0, raced |-> FALSE, cut |-> FALSE]]
  BY <1>1
<1> DEFINE z == [pc |-> "source", id |-> i, source |-> NoSource, up |-> 0, raced |-> FALSE, cut |-> FALSE]
           x == IF found # {} THEN Books!Over ELSE z
<1>3. i \in Books!Ids /\ 0 \in 0 .. MaxDepth
  BY LibraryAssumption DEF BooksInv, BooksTyped
<1>4. reader' = [reader EXCEPT ![r] = x]
  BY <1>2
<1>8. z \in ReaderRows /\ z.pc = "source"
  BY <1>3 DEF ReaderRows, Asking
<1> HIDE DEF z
<1>5. (x.pc = "done" \/ x \in ReaderRows) /\ Resolving(x)
  BY <1>8 DEF Resolving, Books!Over
<1>6. UNCHANGED <<items, raced, cut>>
  BY DEF Books!GetDrawing
<1>7. \A j \in DOMAIN items : items'[j] \in ItemRows
  BY <1>6 DEF BooksInv, BooksTyped
<1> HIDE DEF x
<1> QED BY <1>4, <1>5, <1>6, <1>7, ReaderStep

\* It reads the source of its item: it has all the steps to go.
LEMMA ReadSourceKeeps == ASSUME BooksInv, NEW r \in Readers, Books!ReadSource(r) PROVE BooksInv'
<1> DEFINE v  == Books!Source(reader[r].id)
           z  == [reader[r] EXCEPT !.pc = "extends", !.source = v]
           x  == IF v = NoSource THEN Books!Over ELSE z
<1>1. reader[r] \in ReaderRows
  BY ReaderRow DEF Books!ReadSource
<1>2. reader' = [reader EXCEPT ![r] = x] /\ UNCHANGED <<items, raced, cut>>
  BY DEF Books!ReadSource, BooksInv, BooksTyped
<1>3. /\ v \in Versions \cup {NoSource}
      /\ v # NoSource => reader[r].id \in DOMAIN items /\ items[reader[r].id].source = v /\ v \in Versions
  BY DEF Books!Source, Books!Stored, BooksInv, BooksTyped, ItemRows
<1> HIDE DEF v
<1>4. z \in ReaderRows /\ z.pc = "extends" /\ z.source = v /\ z.id = reader[r].id /\ z.up = 0
  BY <1>1, <1>3 DEF Books!ReadSource, ReaderRows, Asking
<1> HIDE DEF z
<1>5. x.pc = "done" \/ x \in ReaderRows
  BY <1>4 DEF Books!Over
<1>6. Resolving(x)
  <2>1. CASE v = NoSource
    BY <2>1 DEF Resolving, Books!Over
  <2>2. CASE v # NoSource
    <3>1. MaxDepth - 0 = MaxDepth
      BY LibraryAssumption
    <3>2. reader[r].id \in DOMAIN items /\ items[reader[r].id].source = v /\ v \in Versions
      BY <1>3, <2>2
    <3>3. x = z
      BY <2>2
    <3> HIDE DEF x
    <3> QED BY <1>4, <3>1, <3>2, <3>3 DEF Resolving, Books!resolveSymbolExtends
  <2> QED BY <2>1, <2>2
<1>7. \A i \in DOMAIN items : items'[i] \in ItemRows
  BY <1>2 DEF BooksInv, BooksTyped
<1> HIDE DEF x
<1> QED BY <1>2, <1>5, <1>6, <1>7, ReaderStep

\* It goes a step up, or has come to where the chain ends.
LEMMA ReadBaseKeeps == ASSUME BooksInv, NEW r \in Readers, Books!ReadBase(r) PROVE BooksInv'
<1>1. reader[r] \in ReaderRows /\ reader[r].pc = "extends" /\ UNCHANGED <<items, raced, cut>>
  BY ReaderRow DEF Books!ReadBase
<1>2. PICK z : z = reader[r]
  OBVIOUS
<1> DEFINE above == Books!Above(z.id[1])
           up == Books!Source(<<z.id[1], Base[z.source]>>)
<1>3. /\ z \in Asking /\ z.source \in Versions /\ z.up \in 0 .. MaxDepth /\ above[z.source] = up
      /\ ~z.raced /\ ~z.cut =>
                     /\ z.id \in DOMAIN items /\ items[z.id].source \in Versions
                     /\ Books!resolveSymbolExtends(z.id[1], items[z.id].source)
                          = Books!Ends(above)[MaxDepth - z.up][z.source]
  BY <1>1, <1>2 DEF BooksInv, Resolving, ReaderRows, Asking, Books!Above
<1>4. MaxDepth - z.up \in 0 .. MaxDepth /\ (MaxDepth - z.up = 0 <=> z.up = MaxDepth)
  BY <1>3, LibraryAssumption
<1>5. reader' = IF z.up = MaxDepth \/ Base[z.source] = NoName \/ up = NoSource
                THEN [reader EXCEPT ![r].pc = "save"]
                ELSE [reader EXCEPT ![r].source = up, ![r].up = @ + 1]
  BY <1>2 DEF Books!ReadBase, Books!Read
<1>6. up \in Versions \cup {NoSource}
  BY DEF Books!Source, Books!Stored, BooksInv, BooksTyped, ItemRows
<1>7. \A i \in DOMAIN items : items'[i] \in ItemRows
  BY <1>1 DEF BooksInv, BooksTyped
<1> HIDE DEF above, up
<1>8. CASE z.up = MaxDepth \/ Base[z.source] = NoName \/ up = NoSource
  <2> DEFINE x == [z EXCEPT !.pc = "save"]
  <2>1. reader' = [reader EXCEPT ![r] = x]
    BY <1>2, <1>5, <1>8 DEF BooksInv, BooksTyped
  <2>2. /\ x \in ReaderRows /\ x.pc = "save" /\ x.source = z.source /\ x.id = z.id /\ x.raced = z.raced /\ x.cut = z.cut
    BY <1>3 DEF ReaderRows, Asking
  <2>3. Books!Ends(above)[MaxDepth - z.up][z.source] = z.source
    BY <1>3, <1>4, <1>8, WalkUp
  <2> HIDE DEF x
  <2>4. Resolving(x)
    BY <1>3, <2>2, <2>3 DEF Resolving
  <2> QED BY <1>1, <1>7, <2>1, <2>2, <2>4, ReaderStep
<1>9. CASE ~(z.up = MaxDepth \/ Base[z.source] = NoName \/ up = NoSource)
  <2> DEFINE x == [z EXCEPT !.source = up, !.up = z.up + 1]
  <2>1. reader' = [reader EXCEPT ![r] = x]
    BY <1>2, <1>5, <1>9 DEF BooksInv, BooksTyped
  <2>2. /\ up \in Versions /\ z.up + 1 \in 0 .. MaxDepth /\ MaxDepth - (z.up + 1) = (MaxDepth - z.up) - 1
    BY <1>3, <1>6, <1>9, LibraryAssumption
  <2>3. z.pc = "extends"
    BY <1>1, <1>2
  <2>4. /\ x \in ReaderRows /\ x.pc = "extends" /\ x.source = up /\ x.id = z.id /\ x.raced = z.raced /\ x.cut = z.cut
        /\ x.up = z.up + 1
    BY <1>3, <2>2, <2>3 DEF ReaderRows, Asking
  <2>5. Books!Ends(above)[MaxDepth - z.up][z.source] = Books!Ends(above)[(MaxDepth - z.up) - 1][up]
    BY <1>3, <1>4, <1>9, WalkUp
  <2> HIDE DEF x
  <2>6. Resolving(x)
    BY <1>3, <2>2, <2>4, <2>5 DEF Resolving, above
  <2> QED BY <1>1, <1>7, <2>1, <2>4, <2>6, ReaderStep
<1> QED BY <1>8, <1>9

\* An ancestor could not be read: what has been read will do.
LEMMA MissKeeps == ASSUME BooksInv, NEW r \in Readers, Books!MissBase(r) PROVE BooksInv'
<1>1. reader[r] \in ReaderRows /\ reader[r].pc = "extends" /\ UNCHANGED <<items, raced, cut>>
  BY ReaderRow DEF Books!MissBase
<1>2. PICK z : z = reader[r]
  OBVIOUS
<1> DEFINE x == [z EXCEPT !.pc = "save", !.cut = TRUE]
<1>3. reader' = [reader EXCEPT ![r] = x]
  BY <1>2 DEF Books!MissBase, BooksInv, BooksTyped
<1>4. z \in Asking /\ z.source \in Versions
  BY <1>1, <1>2 DEF BooksInv, Resolving, ReaderRows
<1>5. x \in ReaderRows /\ x.pc = "save" /\ x.source = z.source /\ x.cut
  BY <1>4 DEF ReaderRows, Asking
<1> HIDE DEF x
<1>6. Resolving(x)
  BY <1>4, <1>5 DEF Resolving
<1>7. \A i \in DOMAIN items : items'[i] \in ItemRows
  BY <1>1 DEF BooksInv, BooksTyped
<1> QED BY <1>1, <1>3, <1>5, <1>6, <1>7, ReaderStep

\* It ends without a drawing being kept.
LEMMA GiveUpKeeps == ASSUME BooksInv, NEW r \in Readers, Books!GiveUp(r) PROVE BooksInv'
<1> DEFINE x == Books!Over
<1>1. UNCHANGED <<items, raced, cut>>
  BY DEF Books!GiveUp
<1>2. reader' = [reader EXCEPT ![r] = x]
  BY DEF Books!GiveUp
<1>3. x.pc = "done"
  BY DEF Books!Over
<1> HIDE DEF x
<1>4. Resolving(x)
  BY <1>3 DEF Resolving
<1>5. \A i \in DOMAIN items : items'[i] \in ItemRows
  BY <1>1 DEF BooksInv, BooksTyped
<1> QED BY <1>1, <1>2, <1>3, <1>4, <1>5, ReaderStep

\* It saves the drawing of where the chain ends.
LEMMA SaveKeeps == ASSUME BooksInv, NEW r \in Readers, Books!SaveDrawing(r) PROVE BooksInv'
<1>1. reader[r] \in ReaderRows /\ reader[r].pc = "save"
  BY ReaderRow DEF Books!SaveDrawing
<1>2. PICK z : z = reader[r]
  OBVIOUS
<1>3. /\ z \in Asking /\ z.source \in Versions
      /\ ~z.raced /\ ~z.cut =>
                     /\ z.id \in DOMAIN items /\ items[z.id].source \in Versions
                     /\ Books!resolveSymbolExtends(z.id[1], items[z.id].source) = z.source
  BY <1>1, <1>2 DEF BooksInv, Resolving, ReaderRows
<1>4. /\ items' = IF z.id \in DOMAIN items THEN [items EXCEPT ![z.id].drawing = {z.source}] ELSE items
      /\ raced' = IF z.id \in DOMAIN items /\ z.raced THEN raced \cup {z.id} ELSE raced \ {z.id}
      /\ cut' = IF z.id \in DOMAIN items /\ z.cut THEN cut \cup {z.id} ELSE cut \ {z.id}
      /\ reader' = [reader EXCEPT ![r] = Books!Over]
  BY <1>2 DEF Books!SaveDrawing, Books!Read, Books!Stored
<1> DEFINE x == Books!Over
<1>5. reader' = [reader EXCEPT ![r] = x] /\ x.pc = "done"
  BY <1>4 DEF Books!Over
<1> HIDE DEF x
<1>6. Resolving(x)
  BY <1>5 DEF Resolving
<1>7. ASSUME NEW i \in DOMAIN items
      PROVE  /\ items'[i] \in ItemRows /\ items'[i].source = items[i].source
             /\ i # z.id => items'[i] = items[i]
             /\ i = z.id => items'[i].drawing = {z.source}
  <2>1. items[i] \in ItemRows
    BY DEF BooksInv, BooksTyped
  <2>2. CASE i = z.id
    <3>1. items'[i] = [items[i] EXCEPT !.drawing = {z.source}]
      BY <1>4, <2>2
    <3> QED BY <1>3, <2>1, <2>2, <3>1 DEF ItemRows
  <2>3. CASE i # z.id
    BY <1>4, <2>1, <2>3
  <2> QED BY <2>2, <2>3
<1>8. DOMAIN items' = DOMAIN items
  BY <1>4
<1>9. ASSUME NEW i \in DOMAIN items \ (raced' \cup cut')
      PROVE  \/ i \notin raced \cup cut /\ items'[i].drawing = items[i].drawing
             \/ /\ items'[i].source \in Versions
                /\ items'[i].drawing = {Books!resolveSymbolExtends(i[1], items[i].source)}
  <2>1. CASE i = z.id
    <3>1. ~z.raced /\ ~z.cut
      BY <1>4, <1>9, <2>1
    <3> QED BY <1>3, <1>7, <2>1, <3>1
  <2>2. CASE i # z.id
    BY <1>4, <1>7, <1>9, <2>2
  <2> QED BY <2>1, <2>2
<1> QED BY <1>5, <1>6, <1>7, <1>8, <1>9, ReaderStep

\* Nothing of this changes.
LEMMA BooksSame == BooksInv /\ UNCHANGED <<items, reader, raced, cut>> => BooksInv'
<1> SUFFICES ASSUME BooksInv, UNCHANGED <<items, reader, raced, cut>> PROVE BooksInv'
  OBVIOUS
<1>1. \A lib : /\ Books!Above(lib)' = Books!Above(lib)
               /\ \A v : Books!resolveSymbolExtends(lib, v)' = Books!resolveSymbolExtends(lib, v)
  <2>1. \A lib, n : Books!Source(<<lib, n>>)' = Books!Source(<<lib, n>>)
    BY DEF Books!Source, Books!Stored
  <2> QED BY <2>1, SameSources
<1>2. BooksTyped'
  BY DEF BooksInv, BooksTyped
<1>3. \A i \in DOMAIN items' \ (raced' \cup cut') : Drawn(i)'
  BY <1>1 DEF BooksInv, Drawn
<1>4. ASSUME NEW r \in Readers PROVE Resolving(reader[r])'
  <2>1. PICK z : z = reader[r]
    OBVIOUS
  <2>2. Resolving(z)
    BY <2>1 DEF BooksInv
  <2> QED BY <1>1, <2>1, <2>2 DEF Resolving
<1> QED BY <1>2, <1>3, <1>4 DEF BooksInv

\* So every step of the library keeps it.
LEMMA BooksStep == BooksInv /\ Books!Next => BooksInv'
<1> SUFFICES ASSUME BooksInv, Books!Next PROVE BooksInv'
  OBVIOUS
<1>1. CASE Books!FinishScan
  BY <1>1, BooksSame DEF Books!FinishScan
<1>2. CASE \E r \in Readers : Books!Draw(r)
  BY <1>2, GetKeeps, ReadSourceKeeps, ReadBaseKeeps, MissKeeps, SaveKeeps, GiveUpKeeps DEF Books!Draw
<1> QED BY <1>1, <1>2, UploadKeeps, RenameKeeps, DeleteKeeps DEF Books!Next

LEMMA BooksStays == BooksInv /\ UNCHANGED booksVars => BooksInv'
BY BooksSame DEF booksVars

LEMMA BooksServe == BooksInv => Books!DrawingsCurrent
BY DEF BooksInv, Drawn, Books!DrawingsCurrent, Books!Current, Books!Stored

-----------------------------------------------------------------------------
\* The specification.

CatalogueInv == ShelfInv /\ Asked /\ Written /\ Filed /\ Exported /\ ShownInv

\* Steps of the other services leave the catalogue alone.
LEMMA ShelfStays ==
    ASSUME ShelfInv, Asked, Written, Filed, Exported, UNCHANGED shelfVars
    PROVE  ShelfInv' /\ Asked' /\ Written' /\ Filed' /\ Exported'
<1>1. UNCHANGED <<part, tag, cat, links, proc, file, owed, home, crossed>>
  BY DEF shelfVars
<1>2. /\ Shelf!Live(part)' = Shelf!Live(part) /\ Shelf!Live(tag)' = Shelf!Live(tag)
      /\ Shelf!Live(cat)' = Shelf!Live(cat)
      /\ \A x : Shelf!On(x)' = Shelf!On(x) /\ Shelf!Of(x)' = Shelf!Of(x)
  BY <1>1 DEF Shelf!Live, Shelf!On, Shelf!Of
<1>3. ShelfInv'
  <2>1. TablesTyped' /\ ProcsTyped'
    BY <1>1 DEF ShelfInv, TablesTyped, ProcsTyped
  <2>2. Referred'
    BY <1>1, <1>2 DEF ShelfInv, Referred, Referring
  <2>3. \A p \in Procs : StageOf(proc[p])' /\ Dooming(p)'
    BY <1>1, <1>2 DEF ShelfInv, StageOf, Dooming
  <2> QED BY <2>1, <2>2, <2>3 DEF ShelfInv
<1>4. Asked'
  BY <1>1, <1>2 DEF Asked, AskedOf
<1>5. Written' /\ Filed'
  BY <1>1, <1>2 DEF Written, Filed, FiledOf
<1>6. Exported'
  BY <1>1, <1>2 DEF Exported, CopiedOf, Shelf!Closed
<1> QED BY <1>3, <1>4, <1>5, <1>6

\* Steps of the other services leave the snapshot alone.
LEMMA ShownStays == ASSUME ShownInv, UNCHANGED <<part, shownVars>> PROVE ShownInv'
<1>1. UNCHANGED <<part, snap, build, moved>>
  BY DEF shownVars
<1>2. Shelf!Live(part)' = Shelf!Live(part) /\ \A q : Shown!CategoryOf(q)' = Shown!CategoryOf(q)
  BY <1>1 DEF Shelf!Live, Shown!CategoryOf
<1> QED BY <1>1, <1>2 DEF ShownInv, Building, Showing

\* Every step of the services keeps what the catalogue keeps.
LEMMA CatalogueStep == CatalogueInv /\ [Next]_allVars => CatalogueInv'
<1> SUFFICES ASSUME CatalogueInv, [Next]_allVars PROVE CatalogueInv'
  OBVIOUS
<1>1. ShelfInv /\ Asked /\ Written /\ Filed /\ Exported /\ ShownInv
  BY DEF CatalogueInv
<1>2. CASE Shelf!Next /\ Shown!Watch
  <2>1. ShelfInv' /\ Asked' /\ Written' /\ Filed' /\ Exported'
    BY <1>1, <1>2, ShelfStep, AskedKept, FiledKept, ExportedKept
  <2>2. TablesTyped /\ TablesTyped'
    BY <1>1, <2>1 DEF ShelfInv
  <2>3. ShownInv'
    BY <1>1, <1>2, <2>2, WatchStep
  <2> QED BY <2>1, <2>3 DEF CatalogueInv
<1>3. CASE Shown!Refresh /\ UNCHANGED shelfVars
  <2>1. UNCHANGED <<part, cat>>
    BY <1>3 DEF shelfVars
  <2> QED BY <1>1, <1>3, <2>1, ShelfStays, RefreshStep DEF CatalogueInv
<1>4. CASE UNCHANGED <<shelfVars, shownVars>>
  <2>1. UNCHANGED part
    BY <1>4 DEF shelfVars
  <2> QED BY <1>1, <1>4, <2>1, ShelfStays, ShownStays DEF CatalogueInv
<1>5. CASE Next
  BY <1>2, <1>3, <1>4, <1>5 DEF Next
<1>6. CASE UNCHANGED allVars
  BY <1>4, <1>6 DEF allVars
<1> QED BY <1>5, <1>6

LEMMA CatalogueAlways == Spec => []CatalogueInv
<1>1. Init => CatalogueInv
  BY ShelfInit, ShownInit DEF Init, CatalogueInv
<1> QED BY <1>1, CatalogueStep, PTL DEF Spec

LEMMA BooksAlways == Spec => []BooksInv
<1>1. Init => BooksInv
  BY BooksInit DEF Init
<1>2. BooksInv /\ [Next]_allVars => BooksInv'
  BY BooksStep, BooksStays DEF Next, allVars
<1> QED BY <1>1, <1>2, PTL DEF Spec

\* A part keeps the tags and the category it was given, whatever requests run at the same
\* time: merges and replacements of tags, deletes of categories, writes of parts and
\* imports, but for the meetings of two requests that the model names (MergeTags,
\* SetPartTags, CategoryRepo.Delete, UpdatePart).
THEOREM TagsAndPlacesKept == Spec => []KeptAsAsked
<1>1. CatalogueInv => KeptAsAsked
  BY DEF CatalogueInv, Asked, Filed, KeptAsAsked, Shelf!KeptAsAsked, Shelf!TagsAsAsked, Shelf!FiledAsAsked
<1> QED BY <1>1, CatalogueAlways, PTL

\* An export refers only to rows it has, whatever was changed and deleted while it was read
\* table after table, unless rows were added: what is referred to is read first
\* (backupTables, ExportAll).
THEOREM ExportsRestore == Spec => []ExportRestores
<1>1. CatalogueInv => ExportRestores
  BY DEF CatalogueInv, Exported, ExportRestores, Shelf!ExportRestores
<1> QED BY <1>1, CatalogueAlways, PTL

\* KiCad is served every part under its category and no dead end, but for what changed
\* since the snapshot was begun, and a drawing that is kept is the one the stored sources
\* give, for chains of symbols of any length (Refresh, UpsertBatch, resolveSymbolExtends).
THEOREM LibraryAlwaysServed == Spec => []LibraryServed
<1>1. CatalogueInv /\ BooksInv => LibraryServed
  BY ShownServes, BooksServe DEF CatalogueInv, LibraryServed
<1> QED BY <1>1, CatalogueAlways, BooksAlways, PTL
=============================================================================
