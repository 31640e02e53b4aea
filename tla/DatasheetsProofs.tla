-------------------------- MODULE DatasheetsProofs --------------------------
\* The library of datasheets, for any contents, rows, requests and workers: files
\* are complete, identical bytes have one row, and a row has its file unless the
\* same bytes were stored and deleted at the same time.
EXTENDS Datasheets, TLAPS

-----------------------------------------------------------------------------
\* Types. What a request, a row or a worker refers to depends on how far it is.

PlacedProc == {q \in Proc :
    /\ q.pc \in {"stat", "temp", "rename", "create", "sidecar", "pdf"} => q.sha \in Shas
    /\ q.pc \in {"row", "link", "enqueue"} => q.id \in Ids}

PlacedRow == {q \in Row : q.state # "unused" => q.sha \in Shas}

PlacedWorker == {q \in Worker :
    /\ q.pc # "idle" => q.id \in Ids
    /\ q.pc \notin {"idle", "get"} => q.sha \in Shas}

Placed ==
    /\ proc \in [Procs -> PlacedProc]
    /\ row \in [Ids -> PlacedRow]
    /\ worker \in [Workers -> PlacedWorker]

Counted ==
    /\ file \in [Shas -> OnDisk] /\ text \in [Shas -> OnDisk]
    /\ jobs \in [Ids -> 0 .. MaxJobs]
    /\ crashes \in 0 .. MaxCrashes /\ faults \in 0 .. MaxFaults
    /\ overlapped \in SUBSET Shas /\ lost \in SUBSET Ids

LEMMA DoneIsProc == DoneProc \in PlacedProc
BY DEF DoneProc, NewProc, PlacedProc, Proc

LEMMA IdleIsWorker == Idle \in PlacedWorker
BY DEF Idle, PlacedWorker, Worker

LEMMA NoRowIsRow == NoRow \in PlacedRow
BY DEF NoRow, PlacedRow, Row, Status, Title

\* A request, or a worker, goes on to its next step.
LEMMA ProcGoes ==
    ASSUME proc \in [Procs -> PlacedProc], NEW p \in Procs,
           NEW pc \in {"rename", "create", "link", "enqueue"},
           pc \in {"rename", "create"} => proc[p].sha \in Shas,
           pc \in {"link", "enqueue"} => proc[p].id \in Ids
    PROVE  [proc EXCEPT ![p].pc = pc] \in [Procs -> PlacedProc]
<1>1. [proc[p] EXCEPT !.pc = pc] \in PlacedProc
  <2>1. proc[p] \in Proc
    BY DEF PlacedProc
  <2> QED BY <2>1 DEF PlacedProc, Proc
<1> QED BY <1>1

LEMMA WorkerGoes ==
    ASSUME worker \in [Workers -> PlacedWorker], NEW w \in Workers,
           worker[w].pc \notin {"idle", "get"},
           NEW pc \in {"truncate", "fill", "title", "record"}
    PROVE  [worker EXCEPT ![w].pc = pc] \in [Workers -> PlacedWorker]
<1>1. [worker[w] EXCEPT !.pc = pc] \in PlacedWorker
  <2>1. worker[w] \in Worker
    BY DEF PlacedWorker
  <2> QED BY <2>1 DEF PlacedWorker, Worker
<1> QED BY <1>1

\* Create leaves a row that refers to the content it was given.
LEMMA UpsertIsRow ==
    ASSUME row \in [Ids -> PlacedRow], NEW i \in Ids, NEW s \in Shas, NEW titled \in BOOLEAN
    PROVE  AfterUpsert(i, s, titled) \in PlacedRow
<1>1. row[i] \in Row /\ (Live(i) => row[i].sha \in Shas)
  BY DEF PlacedRow, Live
<1>2. CASE Live(i)
  <2> DEFINE t == IF titled /\ row[i].title = "none" THEN "person" ELSE row[i].title
  <2>1. t \in Title
    BY <1>1 DEF Row, Title
  <2>2. AfterUpsert(i, s, titled) = [row[i] EXCEPT !.title = t]
    BY <1>2, <1>1 DEF AfterUpsert, Row
  <2> HIDE DEF t
  <2> QED BY <1>1, <1>2, <2>1, <2>2 DEF PlacedRow, Row, Live
<1>3. CASE ~Live(i)
  BY <1>3 DEF AfterUpsert, PlacedRow, Row, Status, Title
<1> QED BY <1>2, <1>3

LEMMA TypesStep == Placed /\ Counted /\ [Next]_vars => Placed' /\ Counted'
<1> SUFFICES ASSUME Placed, Counted, [Next]_vars PROVE Placed' /\ Counted'
  OBVIOUS
<1> USE DEF Placed, Counted
<1>1. ASSUME NEW p \in Procs, BeginStore(p) PROVE Placed' /\ Counted'
  <2>1. proc' \in [Procs -> PlacedProc]
    BY <1>1 DEF BeginStore, PlacedProc, Proc
  <2>2. row' \in [Ids -> PlacedRow]
    BY <1>1 DEF BeginStore
  <2>3. worker' \in [Workers -> PlacedWorker]
    BY <1>1 DEF BeginStore
  <2>4. Counted'
    BY <1>1, BudgetAssumption DEF BeginStore, OnDisk, NoFault, Fault, PlacedProc, PlacedWorker, PlacedRow, Live
  <2> QED BY <2>1, <2>2, <2>3, <2>4
<1>2. ASSUME NEW p \in Procs, Stat(p) PROVE Placed' /\ Counted'
  <2>1. proc' \in [Procs -> PlacedProc]
    BY <1>2 DEF Stat, PlacedProc, Proc
  <2>2. row' \in [Ids -> PlacedRow]
    BY <1>2 DEF Stat
  <2>3. worker' \in [Workers -> PlacedWorker]
    BY <1>2 DEF Stat
  <2>4. Counted'
    BY <1>2, BudgetAssumption DEF Stat, OnDisk, NoFault, Fault, Deleting, PlacedProc, PlacedWorker, PlacedRow, Live
  <2> QED BY <2>1, <2>2, <2>3, <2>4
<1>3. ASSUME NEW p \in Procs, WriteTemp(p) PROVE Placed' /\ Counted'
  <2>1. proc' \in [Procs -> PlacedProc]
    <3>1. proc[p].sha \in Shas
      BY <1>3 DEF WriteTemp, PlacedProc
    <3> QED BY <1>3, <3>1, DoneIsProc, ProcGoes DEF WriteTemp
  <2>2. row' \in [Ids -> PlacedRow]
    BY <1>3 DEF WriteTemp
  <2>3. worker' \in [Workers -> PlacedWorker]
    BY <1>3 DEF WriteTemp
  <2>4. Counted'
    BY <1>3, BudgetAssumption DEF WriteTemp, OnDisk, NoFault, Fault, Written, PlacedProc, PlacedWorker, PlacedRow, Live
  <2> QED BY <2>1, <2>2, <2>3, <2>4
<1>4. ASSUME NEW p \in Procs, Rename(p) PROVE Placed' /\ Counted'
  <2>1. proc' \in [Procs -> PlacedProc]
    <3>1. proc[p].sha \in Shas
      BY <1>4 DEF Rename, PlacedProc
    <3> QED BY <1>4, <3>1, DoneIsProc, ProcGoes DEF Rename, RenameFailed
  <2>2. row' \in [Ids -> PlacedRow]
    BY <1>4 DEF Rename
  <2>3. worker' \in [Workers -> PlacedWorker]
    BY <1>4 DEF Rename
  <2>4. Counted'
    BY <1>4, BudgetAssumption DEF Rename, OnDisk, NoFault, Fault, RenameFailed, PlacedProc, PlacedWorker, PlacedRow, Live
  <2> QED BY <2>1, <2>2, <2>3, <2>4
<1>5. ASSUME NEW p \in Procs, Create(p) PROVE Placed' /\ Counted'
  <2>1. proc' \in [Procs -> PlacedProc]
    <3>1. CASE proc' = [proc EXCEPT ![p] = DoneProc]
      BY <3>1, DoneIsProc
    <3>2. ASSUME NEW i \in Ids, NEW pc \in {"link", "enqueue"},
                 proc' = [proc EXCEPT ![p].id = i, ![p].pc = pc]
          PROVE  proc' \in [Procs -> PlacedProc]
      <4>1. proc[p] \in Proc
        BY DEF PlacedProc
      <4>2. [proc[p] EXCEPT !.id = i, !.pc = pc] \in PlacedProc
        BY <4>1 DEF PlacedProc, Proc
      <4> QED BY <3>2, <4>2
    <3> QED BY <1>5, <3>1, <3>2 DEF Create
  <2>2. row' \in [Ids -> PlacedRow]
    <3>1. proc[p].sha \in Shas /\ proc[p].titled \in BOOLEAN
      BY <1>5 DEF Create, PlacedProc, Proc
    <3>2. ASSUME NEW i \in Ids,
                 row' = [row EXCEPT ![i] = AfterUpsert(i, proc[p].sha, proc[p].titled)]
          PROVE  row' \in [Ids -> PlacedRow]
      <4>1. AfterUpsert(i, proc[p].sha, proc[p].titled) \in PlacedRow
        BY <3>1, UpsertIsRow
      <4> QED BY <3>2, <4>1
    <3>3. CASE UNCHANGED row
      BY <3>3
    <3> QED BY <1>5, <3>2, <3>3 DEF Create
  <2>3. worker' \in [Workers -> PlacedWorker]
    BY <1>5 DEF Create
  <2>4. Counted'
    BY <1>5, BudgetAssumption DEF Create, OnDisk, NoFault, Fault, PlacedProc, PlacedWorker, PlacedRow, Live
  <2> QED BY <2>1, <2>2, <2>3, <2>4
<1>6. ASSUME NEW p \in Procs, Link(p) PROVE Placed' /\ Counted'
  <2>1. proc' \in [Procs -> PlacedProc]
    <3>1. proc[p].id \in Ids
      BY <1>6 DEF Link, PlacedProc
    <3> QED BY <1>6, <3>1, DoneIsProc, ProcGoes DEF Link
  <2>2. row' \in [Ids -> PlacedRow]
    BY <1>6 DEF Link
  <2>3. worker' \in [Workers -> PlacedWorker]
    BY <1>6 DEF Link
  <2>4. Counted'
    BY <1>6, BudgetAssumption DEF Link, OnDisk, NoFault, Fault, PlacedProc, PlacedWorker, PlacedRow, Live
  <2> QED BY <2>1, <2>2, <2>3, <2>4
<1>7. ASSUME NEW p \in Procs, EnqueueExtraction(p) PROVE Placed' /\ Counted'
  <2>1. proc' \in [Procs -> PlacedProc]
    BY <1>7, DoneIsProc DEF EnqueueExtraction
  <2>2. row' \in [Ids -> PlacedRow]
    BY <1>7 DEF EnqueueExtraction
  <2>3. worker' \in [Workers -> PlacedWorker]
    BY <1>7 DEF EnqueueExtraction
  <2>4. Counted'
    BY <1>7, BudgetAssumption DEF EnqueueExtraction, OnDisk, NoFault, Fault, PlacedProc, PlacedWorker, PlacedRow, Live
  <2> QED BY <2>1, <2>2, <2>3, <2>4
<1>8. ASSUME NEW p \in Procs, BeginDelete(p) PROVE Placed' /\ Counted'
  <2>1. proc' \in [Procs -> PlacedProc]
    <3>1. PICK i \in Ids : proc' = [proc EXCEPT ![p].pc = "row", ![p].id = i]
      BY <1>8 DEF BeginDelete
    <3>2. proc[p] \in Proc
      BY DEF PlacedProc
    <3>3. [proc[p] EXCEPT !.pc = "row", !.id = i] \in PlacedProc
      BY <3>2 DEF PlacedProc, Proc
    <3> QED BY <3>1, <3>3
  <2>2. row' \in [Ids -> PlacedRow]
    BY <1>8 DEF BeginDelete
  <2>3. worker' \in [Workers -> PlacedWorker]
    BY <1>8 DEF BeginDelete
  <2>4. Counted'
    BY <1>8, BudgetAssumption DEF BeginDelete, OnDisk, NoFault, Fault, PlacedProc, PlacedWorker, PlacedRow, Live
  <2> QED BY <2>1, <2>2, <2>3, <2>4
<1>9. ASSUME NEW p \in Procs, DeleteRow(p) PROVE Placed' /\ Counted'
  <2>1. proc' \in [Procs -> PlacedProc]
    BY <1>9, DoneIsProc DEF DeleteRow, PlacedProc, Proc, PlacedRow, Live
  <2>2. row' \in [Ids -> PlacedRow]
    BY <1>9 DEF DeleteRow, PlacedRow, Row, PlacedProc, Live
  <2>3. worker' \in [Workers -> PlacedWorker]
    BY <1>9 DEF DeleteRow
  <2>4. Counted'
    BY <1>9, BudgetAssumption DEF DeleteRow, OnDisk, NoFault, Fault, Storing, PlacedProc, PlacedWorker, PlacedRow, Live
  <2> QED BY <2>1, <2>2, <2>3, <2>4
<1>10. ASSUME NEW p \in Procs, RemoveSidecar(p) PROVE Placed' /\ Counted'
  <2>1. proc' \in [Procs -> PlacedProc]
    BY <1>10 DEF RemoveSidecar, PlacedProc, Proc
  <2>2. row' \in [Ids -> PlacedRow]
    BY <1>10 DEF RemoveSidecar
  <2>3. worker' \in [Workers -> PlacedWorker]
    BY <1>10 DEF RemoveSidecar, PlacedWorker, Worker
  <2>4. Counted'
    BY <1>10, BudgetAssumption DEF RemoveSidecar, OnDisk, NoFault, Fault, PlacedProc, PlacedWorker, PlacedRow, Live
  <2> QED BY <2>1, <2>2, <2>3, <2>4
<1>11. ASSUME NEW p \in Procs, RemovePDF(p) PROVE Placed' /\ Counted'
  <2>1. proc' \in [Procs -> PlacedProc]
    BY <1>11, DoneIsProc DEF RemovePDF
  <2>2. row' \in [Ids -> PlacedRow]
    BY <1>11 DEF RemovePDF
  <2>3. worker' \in [Workers -> PlacedWorker]
    BY <1>11 DEF RemovePDF
  <2>4. Counted'
    BY <1>11, BudgetAssumption DEF RemovePDF, OnDisk, NoFault, Fault, PlacedProc, PlacedWorker, PlacedRow, Live
  <2> QED BY <2>1, <2>2, <2>3, <2>4
<1>12. ASSUME NEW w \in Workers, Get(w) PROVE Placed' /\ Counted'
  <2>1. proc' \in [Procs -> PlacedProc]
    BY <1>12 DEF Get
  <2>2. row' \in [Ids -> PlacedRow]
    BY <1>12 DEF Get
  <2>3. worker' \in [Workers -> PlacedWorker]
    BY <1>12, IdleIsWorker DEF Get, PlacedWorker, Worker, PlacedRow, Live
  <2>4. Counted'
    BY <1>12, BudgetAssumption DEF Get, OnDisk, NoFault, Fault, PlacedProc, PlacedWorker, PlacedRow, Live
  <2> QED BY <2>1, <2>2, <2>3, <2>4
<1>13. ASSUME NEW w \in Workers, Read(w) PROVE Placed' /\ Counted'
  <2>1. proc' \in [Procs -> PlacedProc]
    BY <1>13 DEF Read
  <2>2. row' \in [Ids -> PlacedRow]
    BY <1>13 DEF Read, Recorded, PlacedRow, Row, Status
  <2>3. worker' \in [Workers -> PlacedWorker]
    <3>1. CASE worker' = [worker EXCEPT ![w] = Idle]
      BY <3>1, IdleIsWorker
    <3>2. CASE worker' = [worker EXCEPT ![w].pc = "truncate"]
      BY <1>13, <3>2, WorkerGoes DEF Read
    <3> QED BY <1>13, <3>1, <3>2 DEF Read
  <2>4. Counted'
    BY <1>13, BudgetAssumption DEF Read, OnDisk, NoFault, Fault, Recorded, PlacedProc, PlacedWorker, PlacedRow, Live
  <2> QED BY <2>1, <2>2, <2>3, <2>4
<1>14. ASSUME NEW w \in Workers, Truncate(w) PROVE Placed' /\ Counted'
  <2>1. proc' \in [Procs -> PlacedProc]
    BY <1>14 DEF Truncate
  <2>2. row' \in [Ids -> PlacedRow]
    BY <1>14 DEF Truncate
  <2>3. worker' \in [Workers -> PlacedWorker]
    BY <1>14, WorkerGoes DEF Truncate
  <2>4. Counted'
    BY <1>14, BudgetAssumption DEF Truncate, OnDisk, NoFault, Fault, PlacedProc, PlacedWorker, PlacedRow, Live
  <2> QED BY <2>1, <2>2, <2>3, <2>4
<1>15. ASSUME NEW w \in Workers, Fill(w) PROVE Placed' /\ Counted'
  <2>1. proc' \in [Procs -> PlacedProc]
    BY <1>15 DEF Fill
  <2>2. row' \in [Ids -> PlacedRow]
    BY <1>15 DEF Fill
  <2>3. worker' \in [Workers -> PlacedWorker]
    BY <1>15, WorkerGoes DEF Fill
  <2>4. Counted'
    BY <1>15, BudgetAssumption DEF Fill, OnDisk, NoFault, Fault, PlacedProc, PlacedWorker, PlacedRow, Live
  <2> QED BY <2>1, <2>2, <2>3, <2>4
<1>16. ASSUME NEW w \in Workers, FillTitle(w) PROVE Placed' /\ Counted'
  <2>1. proc' \in [Procs -> PlacedProc]
    BY <1>16 DEF FillTitle
  <2>2. row' \in [Ids -> PlacedRow]
    <3>1. worker[w].id \in Ids
      BY <1>16 DEF FillTitle, PlacedWorker
    <3>2. row[worker[w].id] \in Row
      BY <3>1 DEF PlacedRow
    <3>3. [row[worker[w].id] EXCEPT !.title = "pdf"] \in PlacedRow
      BY <3>1, <3>2 DEF PlacedRow, Row, Title
    <3> QED BY <1>16, <3>3 DEF FillTitle
  <2>3. worker' \in [Workers -> PlacedWorker]
    BY <1>16, WorkerGoes DEF FillTitle
  <2>4. Counted'
    BY <1>16, BudgetAssumption DEF FillTitle, OnDisk, NoFault, Fault, Unset, PlacedProc, PlacedWorker, PlacedRow, Live
  <2> QED BY <2>1, <2>2, <2>3, <2>4
<1>17. ASSUME NEW w \in Workers, Record(w) PROVE Placed' /\ Counted'
  <2>1. proc' \in [Procs -> PlacedProc]
    BY <1>17 DEF Record
  <2>2. row' \in [Ids -> PlacedRow]
    BY <1>17, ContentAssumption DEF Record, Recorded, Outcome, PlacedRow, Row, Status, PlacedWorker
  <2>3. worker' \in [Workers -> PlacedWorker]
    BY <1>17, IdleIsWorker DEF Record
  <2>4. Counted'
    BY <1>17, BudgetAssumption DEF Record, OnDisk, NoFault, Fault, Recorded, Outcome, PlacedProc, PlacedWorker, PlacedRow, Live
  <2> QED BY <2>1, <2>2, <2>3, <2>4
<1>18. ASSUME NEW w \in Workers, NEW i \in Ids, Take(w, i) PROVE Placed' /\ Counted'
  <2>1. worker[w] \in Worker
    BY DEF PlacedWorker
  <2>2. [worker[w] EXCEPT !.pc = "get", !.id = i] \in PlacedWorker
    BY <2>1 DEF PlacedWorker, Worker
  <2>3. worker' \in [Workers -> PlacedWorker]
    BY <1>18, <2>2 DEF Take
  <2>4. jobs' \in [Ids -> 0 .. MaxJobs]
    BY <1>18, BudgetAssumption DEF Take
  <2> QED BY <1>18, <2>3, <2>4 DEF Take
<1>19. ASSUME NEW i \in Ids, SetTitle(i) PROVE Placed' /\ Counted'
  <2>1. PICK t \in Title : row' = [row EXCEPT ![i] = [row[i] EXCEPT !.title = t]]
    BY <1>19 DEF SetTitle, Retitled, Cleared, Title
  <2>2. row[i] \in Row
    BY DEF PlacedRow
  <2>3. [row[i] EXCEPT !.title = t] \in PlacedRow
    BY <2>2 DEF PlacedRow, Row
  <2> QED BY <1>19, <2>1, <2>3 DEF SetTitle
<1>20. ASSUME NEW S \in SUBSET Ids, ExtractDatasheetText(S) PROVE Placed' /\ Counted'
  <2>1. jobs' \in [Ids -> 0 .. MaxJobs]
    BY <1>20, BudgetAssumption DEF ExtractDatasheetText
  <2> QED BY <1>20, <2>1 DEF ExtractDatasheetText
<1>21. ASSUME Crash PROVE Placed' /\ Counted'
  <2>1. proc' \in [Procs -> PlacedProc] /\ worker' \in [Workers -> PlacedWorker]
    BY <1>21, DoneIsProc, IdleIsWorker DEF Crash
  <2>2. jobs' \in [Ids -> 0 .. MaxJobs]
    BY <1>21, BudgetAssumption DEF Crash
  <2>3. crashes' \in 0 .. MaxCrashes
    BY <1>21, BudgetAssumption DEF Crash
  <2> QED BY <1>21, <2>1, <2>2, <2>3 DEF Crash
<1>22. CASE UNCHANGED vars
  BY <1>22 DEF vars
<1> QED BY <1>1, <1>2, <1>3, <1>4, <1>5, <1>6, <1>7, <1>8, <1>9, <1>10, <1>11, <1>12, <1>13, <1>14, <1>15, <1>16, <1>17, <1>18, <1>19, <1>20, <1>21, <1>22
  DEF Next, Serve, Work, Pending

LEMMA TypesInit == Init => Placed /\ Counted
<1> SUFFICES ASSUME Init PROVE Placed /\ Counted
  OBVIOUS
<1>1. NewProc \in PlacedProc
  BY DEF NewProc, PlacedProc, Proc
<1>2. Placed
  BY <1>1, NoRowIsRow, IdleIsWorker DEF Init, Placed
<1>3. Counted
  BY BudgetAssumption DEF Init, Counted, OnDisk
<1> QED BY <1>2, <1>3

\* Files, rows, requests and workers keep their types (all operations here).
THEOREM TypeCorrect == Spec => []TypeOK
<1>1. Placed /\ Counted => TypeOK
  BY DEF Placed, Counted, TypeOK, PlacedProc, PlacedRow, PlacedWorker
<1> QED BY <1>1, TypesInit, TypesStep, PTL DEF Spec

-----------------------------------------------------------------------------
\* Files and rows. As long as the same bytes are not stored and deleted at once, a
\* store that has found or renamed the file may rely on it, and a delete that has
\* removed the row may remove the file.

Apart(s) ==
    /\ \A p, q \in Procs : ~(p \in Storing(s) /\ q \in Deleting(s))
    /\ \A q \in Deleting(s) : Rows(s) = {}
    /\ \A p \in Storing(s) : proc[p].pc = "create" => file[s] = "whole"
    /\ Rows(s) # {} => file[s] = "whole"

FilesInv ==
    /\ NoTornFile /\ OneRowPerContent
    /\ \A s \in Shas \ overlapped : Apart(s)

\* Steps that leave files, rows and the places of other requests alone.
Quiet(old, new) ==
    \/ new = old
    \/ new.pc \in {"idle", "stat", "row", "link", "enqueue", "done"}
    \/ /\ new.sha = old.sha
       /\ \/ old.pc = "temp" /\ new.pc = "rename"
          \/ old.pc = "sidecar" /\ new.pc = "pdf"

LEMMA SameRows ==
    ASSUME \A i \in Ids : row'[i].state = row[i].state /\ row'[i].sha = row[i].sha, NEW s
    PROVE  Rows(s)' = Rows(s)
BY DEF Rows, Live

LEMMA QuietStep ==
    ASSUME FilesInv, UNCHANGED <<file, overlapped>>,
           \A i \in Ids : row'[i].state = row[i].state /\ row'[i].sha = row[i].sha,
           \A q \in Procs : Quiet(proc[q], proc'[q])
    PROVE  FilesInv'
<1>1. NoTornFile' /\ OneRowPerContent'
  BY DEF FilesInv, NoTornFile, OneRowPerContent, Live
<1>2. ASSUME NEW s \in Shas \ overlapped PROVE Apart(s)'
  <2>1. Apart(s) /\ Rows(s)' = Rows(s)
    BY SameRows DEF FilesInv
  <2>2. Deleting(s)' \subseteq Deleting(s)
    BY DEF Deleting, Quiet
  <2>3. \A p \in Storing(s)' : p \in Storing(s) /\ (proc'[p].pc = "create" => proc[p].pc = "create")
    BY DEF Storing, Quiet
  <2> QED BY <2>1, <2>2, <2>3 DEF Apart
<1> QED BY <1>1, <1>2 DEF FilesInv

LEMMA StatStep ==
    ASSUME Placed, FilesInv, Counted, NEW p \in Procs, Stat(p)
    PROVE  FilesInv'
<1>1. NoTornFile' /\ OneRowPerContent'
  BY DEF Stat, FilesInv, NoTornFile, OneRowPerContent, Live
<1>2. ASSUME NEW s \in Shas \ overlapped' PROVE Apart(s)'
  <2>1. s \notin overlapped /\ Apart(s) /\ Rows(s)' = Rows(s)
    BY <1>2 DEF Stat, FilesInv, Rows, Live
  <2>2. Deleting(s)' = Deleting(s)
    BY DEF Stat, Deleting, Placed, PlacedProc, Proc
  <2>3. CASE s # proc[p].sha
    <3>1. \A q \in Storing(s)' : q \in Storing(s) /\ proc'[q] = proc[q]
      BY <2>3 DEF Stat, Storing, Placed, PlacedProc, Proc
    <3>2. UNCHANGED file
      BY DEF Stat
    <3> QED BY <2>1, <2>2, <3>1, <3>2 DEF Apart
  <2>4. CASE s = proc[p].sha
    <3>1. Deleting(s) = {}
      BY <1>2, <2>4 DEF Stat
    <3>2. file[s] \in OnDisk /\ file[s] # "torn"
      BY DEF FilesInv, NoTornFile, Counted
    <3>3. \A q \in Storing(s)' : proc'[q].pc = "create" => file'[s] = "whole"
      BY <2>1, <2>4, <3>2 DEF Stat, Storing, Placed, PlacedProc, Proc, Apart, OnDisk
    <3>4. UNCHANGED file
      BY DEF Stat
    <3> QED BY <2>1, <2>2, <3>1, <3>3, <3>4 DEF Apart
  <2> QED BY <2>3, <2>4
<1> QED BY <1>1, <1>2 DEF FilesInv

LEMMA RenameStep ==
    ASSUME Placed, Counted, FilesInv, NEW p \in Procs, Rename(p)
    PROVE  FilesInv'
<1>1. CASE UNCHANGED file
  <2>1. proc' = [proc EXCEPT ![p] = DoneProc] \/ file[proc[p].sha] = "whole"
    BY <1>1 DEF Rename, RenameFailed, Placed, PlacedProc, Counted
  <2>2. CASE proc' = [proc EXCEPT ![p] = DoneProc]
    BY <1>1, <2>2, QuietStep DEF Rename, Quiet, DoneProc, NewProc, Placed
  <2>3. CASE file[proc[p].sha] = "whole" /\ proc' = [proc EXCEPT ![p].pc = "create"]
    <3>1. NoTornFile' /\ OneRowPerContent'
      BY <1>1 DEF Rename, FilesInv, NoTornFile, OneRowPerContent, Live
    <3>2. ASSUME NEW s \in Shas \ overlapped' PROVE Apart(s)'
      <4>1. Apart(s) /\ Rows(s)' = Rows(s)
        BY <3>2 DEF Rename, FilesInv, Rows, Live
      <4>2. Deleting(s)' = Deleting(s) /\ Storing(s)' = Storing(s)
        BY <2>3 DEF Rename, Deleting, Storing, Placed, PlacedProc, Proc
      <4>3. \A q \in Storing(s)' : proc'[q].pc = "create" => file'[s] = "whole"
        BY <1>1, <2>3, <4>1, <4>2 DEF Storing, Placed, PlacedProc, Proc, Apart
      <4> QED BY <1>1, <4>1, <4>2, <4>3 DEF Apart
    <3> QED BY <3>1, <3>2 DEF FilesInv
  <2> QED BY <2>1, <2>2, <2>3 DEF Rename, RenameFailed
<1>2. CASE file' = [file EXCEPT ![proc[p].sha] = "whole"] /\ proc' = [proc EXCEPT ![p].pc = "create"]
  <2>1. NoTornFile' /\ OneRowPerContent'
    BY <1>2 DEF Rename, FilesInv, NoTornFile, OneRowPerContent, Live, Counted
  <2>2. ASSUME NEW s \in Shas \ overlapped' PROVE Apart(s)'
    <3>1. Apart(s) /\ Rows(s)' = Rows(s)
      BY <2>2 DEF Rename, FilesInv, Rows, Live
    <3>2. Deleting(s)' = Deleting(s) /\ Storing(s)' = Storing(s)
      BY <1>2 DEF Rename, Deleting, Storing, Placed, PlacedProc, Proc
    <3>3. file[s] = "whole" => file'[s] = "whole"
      BY <1>2 DEF Counted
    <3>4. \A q \in Storing(s)' : proc'[q].pc = "create" => file'[s] = "whole"
      BY <1>2, <3>1, <3>2, <3>3 DEF Storing, Placed, PlacedProc, Proc, Apart, Counted
    <3> QED BY <3>1, <3>2, <3>3, <3>4 DEF Apart
  <2> QED BY <2>1, <2>2 DEF FilesInv
<1> QED BY <1>1, <1>2 DEF Rename

\* A row that Create adds is the only one with its content, and has its file.
LEMMA CreateStep ==
    ASSUME Placed, FilesInv, NEW p \in Procs, Create(p)
    PROVE  FilesInv'
<1>1. CASE UNCHANGED row /\ proc' = [proc EXCEPT ![p] = DoneProc]
  BY <1>1, QuietStep DEF Create, Quiet, DoneProc, NewProc, Placed
<1>2. ASSUME NEW i \in Ids, NEW pc \in {"link", "enqueue"},
             Upserted(i, proc[p].sha),
             row' = [row EXCEPT ![i] = AfterUpsert(i, proc[p].sha, proc[p].titled)],
             proc' = [proc EXCEPT ![p].id = i, ![p].pc = pc]
      PROVE  FilesInv'
  <2> DEFINE c == proc[p].sha
  <2>1. c \in Shas /\ p \in Storing(c) /\ proc[p].pc = "create" /\ proc[p] \in Proc
    BY DEF Create, Storing, Placed, PlacedProc
  <2>2. \A j \in Ids : row[j] \in Row
    BY DEF Placed, PlacedRow
  <2>3. \A q \in Procs : Quiet(proc[q], proc'[q])
    BY <1>2, <2>1 DEF Quiet, Placed, Proc
  <2>4. CASE Rows(c) # {}
    <3>1. Live(i)
      BY <1>2, <2>4 DEF Upserted, Rows
    <3>2. row'[i].state = row[i].state /\ row'[i].sha = row[i].sha
      BY <1>2, <2>2, <3>1 DEF AfterUpsert, Row, Placed
    <3>3. \A j \in Ids : row'[j].state = row[j].state /\ row'[j].sha = row[j].sha
      BY <1>2, <3>2 DEF Placed
    <3> QED BY <2>3, <3>3, QuietStep DEF Create
  <2>5. CASE Rows(c) = {}
    <3>1. ~Live(i)
      BY <1>2, <2>5 DEF Upserted, Live
    <3>2. row'[i].state = "live" /\ row'[i].sha = c
      BY <1>2, <3>1 DEF AfterUpsert, Placed
    <3>3. \A j \in Ids \ {i} : row'[j] = row[j]
      BY <1>2 DEF Placed
    <3>4. \A j \in Ids \ {i} : ~(Live(j) /\ row[j].sha = c)
      BY <2>5 DEF Rows
    <3>5. OneRowPerContent'
      BY <3>2, <3>3, <3>4 DEF FilesInv, OneRowPerContent, Live
    <3>6. NoTornFile'
      BY DEF Create, FilesInv, NoTornFile
    <3>7. ASSUME NEW s \in Shas \ overlapped' PROVE Apart(s)'
      <4>1. Apart(s) /\ UNCHANGED file
        BY <3>7 DEF Create, FilesInv
      <4>2. Deleting(s)' \subseteq Deleting(s)
        BY <2>3 DEF Deleting, Quiet
      <4>3. \A q \in Storing(s)' : q \in Storing(s) /\ (proc'[q].pc = "create" => proc[q].pc = "create")
        BY <2>3 DEF Storing, Quiet
      <4>4. CASE s = c
        <5>1. Deleting(s) = {} /\ file[s] = "whole"
          BY <2>1, <4>1, <4>4 DEF Apart, Deleting
        <5> QED BY <4>1, <4>2, <4>3, <5>1 DEF Apart
      <4>5. CASE s # c
        <5>1. Rows(s)' = Rows(s)
          BY <3>1, <3>2, <3>3, <4>5 DEF Rows, Live
        <5> QED BY <4>1, <4>2, <4>3, <5>1 DEF Apart
      <4> QED BY <4>4, <4>5
    <3> QED BY <3>5, <3>6, <3>7 DEF FilesInv
  <2> QED BY <2>4, <2>5
<1> QED BY <1>1, <1>2 DEF Create

\* Once its row is gone no other row has the content.
LEMMA DeleteRowStep ==
    ASSUME Placed, FilesInv, NEW p \in Procs, DeleteRow(p)
    PROVE  FilesInv'
<1> DEFINE i == proc[p].id
           c == row[i].sha
<1>1. CASE ~Live(i)
  BY <1>1, QuietStep DEF DeleteRow, Quiet, DoneProc, NewProc, Placed
<1>2. CASE Live(i)
  <2>1. i \in Ids /\ row[i] \in Row /\ c \in Shas /\ proc[p] \in Proc
    BY <1>2 DEF DeleteRow, Placed, PlacedProc, PlacedRow, Live
  <2>2. row' = [row EXCEPT ![i].state = "deleted"]
        /\ proc' = [proc EXCEPT ![p].pc = "sidecar", ![p].sha = c]
        /\ overlapped' = (IF Storing(c) = {} THEN overlapped ELSE overlapped \cup {c})
        /\ UNCHANGED file /\ proc[p].pc = "row"
    BY <1>2 DEF DeleteRow
  <2>3. \A j \in Ids \ {i} : row'[j] = row[j]
    BY <2>2 DEF Placed
  <2>4. row'[i].state = "deleted"
    BY <2>1, <2>2 DEF Placed, Row
  <2>5. NoTornFile' /\ OneRowPerContent'
    BY <2>2, <2>3, <2>4 DEF FilesInv, NoTornFile, OneRowPerContent, Live
  <2>6. ASSUME NEW s \in Shas \ overlapped' PROVE Apart(s)'
    <3>1. Apart(s) /\ s \notin overlapped
      BY <2>2, <2>6 DEF FilesInv
    <3>2. Storing(s)' = Storing(s) /\ \A q \in Storing(s) : proc'[q] = proc[q]
      BY <2>1, <2>2 DEF Storing, Placed, Proc
    <3>3. Rows(s)' \subseteq Rows(s)
      BY <2>3, <2>4 DEF Rows, Live
    <3>4. CASE s = c
      <4>1. Storing(s) = {}
        BY <2>2, <2>6, <3>4
      <4>2. Rows(s) \subseteq {i}
        BY <1>2, <2>1, <3>4 DEF FilesInv, OneRowPerContent, Rows
      <4>3. Rows(s)' = {}
        BY <2>4, <3>3, <4>2 DEF Rows, Live
      <4> QED BY <3>2, <4>1, <4>3 DEF Apart
    <3>5. CASE s # c
      <4>1. Deleting(s)' \subseteq Deleting(s)
        BY <2>1, <2>2, <3>5 DEF Deleting, Placed, Proc
      <4> QED BY <2>2, <3>1, <3>2, <3>3, <4>1 DEF Apart
    <3> QED BY <3>4, <3>5
  <2> QED BY <2>5, <2>6 DEF FilesInv
<1> QED BY <1>1, <1>2

LEMMA RemovePDFStep ==
    ASSUME Placed, Counted, FilesInv, NEW p \in Procs, RemovePDF(p)
    PROVE  FilesInv'
<1> DEFINE c == proc[p].sha
<1>1. \A q \in Procs : Quiet(proc[q], proc'[q])
  BY DEF RemovePDF, Quiet, DoneProc, NewProc, Placed
<1>2. CASE UNCHANGED file
  BY <1>1, <1>2, QuietStep DEF RemovePDF
<1>3. CASE file' = [file EXCEPT ![c] = "absent"]
  <2>1. p \in Deleting(c)
    BY DEF RemovePDF, Deleting
  <2>2. NoTornFile' /\ OneRowPerContent'
    BY <1>3 DEF RemovePDF, FilesInv, NoTornFile, OneRowPerContent, Live, Counted
  <2>3. ASSUME NEW s \in Shas \ overlapped' PROVE Apart(s)'
    <3>1. Apart(s) /\ Rows(s)' = Rows(s)
      BY <2>3 DEF RemovePDF, FilesInv, Rows, Live
    <3>2. Deleting(s)' \subseteq Deleting(s)
      BY <1>1 DEF Deleting, Quiet
    <3>3. \A q \in Storing(s)' : q \in Storing(s) /\ (proc'[q].pc = "create" => proc[q].pc = "create")
      BY <1>1 DEF Storing, Quiet
    <3>4. CASE s = c
      <4>1. Storing(s) = {} /\ Rows(s) = {}
        BY <2>1, <3>1, <3>4 DEF Apart, Deleting, Storing
      <4> QED BY <3>1, <3>2, <3>3, <4>1 DEF Apart
    <3>5. CASE s # c
      <4>1. file'[s] = file[s]
        BY <1>3, <3>5 DEF Counted
      <4> QED BY <3>1, <3>2, <3>3, <4>1 DEF Apart
    <3> QED BY <3>4, <3>5
  <2> QED BY <2>2, <2>3 DEF FilesInv
<1> QED BY <1>2, <1>3 DEF RemovePDF

LEMMA FilesStep == Placed /\ Counted /\ FilesInv /\ [Next]_vars => FilesInv'
<1> SUFFICES ASSUME Placed, Counted, FilesInv, [Next]_vars PROVE FilesInv'
  OBVIOUS
<1>1. ASSUME NEW p \in Procs, BeginStore(p) PROVE FilesInv'
  BY <1>1, QuietStep DEF BeginStore, Quiet, Placed, PlacedProc, Proc
<1>2. ASSUME NEW p \in Procs, Stat(p) PROVE FilesInv'
  BY <1>2, StatStep
<1>3. ASSUME NEW p \in Procs, WriteTemp(p) PROVE FilesInv'
  BY <1>3, QuietStep DEF WriteTemp, Written, DoneProc, NewProc, Quiet, Placed, PlacedProc, Proc
<1>4. ASSUME NEW p \in Procs, Rename(p) PROVE FilesInv'
  BY <1>4, RenameStep
<1>5. ASSUME NEW p \in Procs, Create(p) PROVE FilesInv'
  BY <1>5, CreateStep
<1>6. ASSUME NEW p \in Procs, Link(p) PROVE FilesInv'
  BY <1>6, QuietStep DEF Link, DoneProc, NewProc, Quiet, Placed, PlacedProc, Proc
<1>7. ASSUME NEW p \in Procs, EnqueueExtraction(p) PROVE FilesInv'
  BY <1>7, QuietStep DEF EnqueueExtraction, Quiet, Placed, DoneProc, NewProc
<1>8. ASSUME NEW p \in Procs, BeginDelete(p) PROVE FilesInv'
  BY <1>8, QuietStep DEF BeginDelete, Quiet, Placed, PlacedProc, Proc
<1>9. ASSUME NEW p \in Procs, DeleteRow(p) PROVE FilesInv'
  BY <1>9, DeleteRowStep
<1>10. ASSUME NEW p \in Procs, RemoveSidecar(p) PROVE FilesInv'
  BY <1>10, QuietStep DEF RemoveSidecar, Quiet, Placed, PlacedProc, Proc
<1>11. ASSUME NEW p \in Procs, RemovePDF(p) PROVE FilesInv'
  BY <1>11, RemovePDFStep
<1>12. ASSUME NEW w \in Workers, Get(w) PROVE FilesInv'
  BY <1>12, QuietStep DEF Get, Quiet
<1>13. ASSUME NEW w \in Workers, Read(w) PROVE FilesInv'
  BY <1>13, QuietStep DEF Read, Recorded, Quiet, Placed, PlacedRow, Row
<1>14. ASSUME NEW w \in Workers, Truncate(w) PROVE FilesInv'
  BY <1>14, QuietStep DEF Truncate, Quiet
<1>15. ASSUME NEW w \in Workers, Fill(w) PROVE FilesInv'
  BY <1>15, QuietStep DEF Fill, Quiet
<1>16. ASSUME NEW w \in Workers, FillTitle(w) PROVE FilesInv'
  BY <1>16, QuietStep DEF FillTitle, Quiet, Placed, PlacedRow, Row
<1>17. ASSUME NEW w \in Workers, Record(w) PROVE FilesInv'
  BY <1>17, QuietStep DEF Record, Recorded, Quiet, Placed, PlacedRow, Row
<1>18. ASSUME NEW w \in Workers, NEW i \in Ids, Take(w, i) PROVE FilesInv'
  BY <1>18, QuietStep DEF Take, Quiet
<1>19. ASSUME NEW i \in Ids, SetTitle(i) PROVE FilesInv'
  BY <1>19, QuietStep DEF SetTitle, Retitled, Quiet, Placed, PlacedRow, Row
<1>20. ASSUME NEW S \in SUBSET Ids, ExtractDatasheetText(S) PROVE FilesInv'
  BY <1>20, QuietStep DEF ExtractDatasheetText, Quiet
<1>21. ASSUME Crash PROVE FilesInv'
  BY <1>21, QuietStep DEF Crash, Quiet, Placed, DoneProc, NewProc
<1>22. CASE UNCHANGED vars
  BY <1>22, QuietStep DEF vars, Quiet
<1> QED BY <1>1, <1>2, <1>3, <1>4, <1>5, <1>6, <1>7, <1>8, <1>9, <1>10, <1>11, <1>12, <1>13, <1>14, <1>15, <1>16, <1>17, <1>18, <1>19, <1>20, <1>21, <1>22
  DEF Next, Serve, Work, Pending

LEMMA FilesInit == Init => FilesInv
<1> SUFFICES ASSUME Init PROVE FilesInv
  OBVIOUS
<1>1. \A i \in Ids : ~Live(i)
  BY DEF Init, Live, NoRow
<1>2. \A s \in Shas : Storing(s) = {} /\ Deleting(s) = {} /\ Rows(s) = {}
  BY <1>1 DEF Init, Storing, Deleting, Rows, NewProc
<1>3. NoTornFile
  BY DEF Init, NoTornFile
<1> QED BY <1>1, <1>2, <1>3 DEF FilesInv, OneRowPerContent, Apart

LEMMA FilesAlways == Spec => [](Placed /\ Counted /\ FilesInv)
BY TypesInit, TypesStep, FilesInit, FilesStep, PTL DEF Spec

\* Store.Put never leaves half a file under a hash, whatever it overlaps or fails at.
THEOREM FilesComplete == Spec => []NoTornFile
BY FilesAlways, PTL DEF FilesInv

\* Create (ON CONFLICT on the hash) keeps one row for identical bytes.
THEOREM RowsUnique == Spec => []OneRowPerContent
BY FilesAlways, PTL DEF FilesInv

\* DeleteDatasheet and the stores of other requests: a row has its file, unless the
\* same bytes were stored and deleted at the same time.
THEOREM RowsHaveFiles == Spec => []FilePresent
<1>1. Placed /\ FilesInv => FilePresent
  <2> SUFFICES ASSUME Placed, FilesInv,
                      NEW i \in Ids, Live(i), row[i].sha \notin overlapped
               PROVE  file[row[i].sha] = "whole"
    BY DEF FilePresent
  <2>1. row[i].sha \in Shas \ overlapped
    BY DEF Placed, PlacedRow, Live
  <2> QED BY <2>1 DEF FilesInv, Apart, Rows
<1> QED BY <1>1, FilesAlways, PTL

\* Extraction (SetTitleIfUnset) leaves a title that a person gave.
THEOREM TitlesKept == Spec => PersonsTitleStays
<1>1. Placed /\ [Next]_vars => \A i \in Ids : row[i].title = "person" => row'[i].title # "pdf"
  <2> SUFFICES ASSUME Placed, [Next]_vars, NEW i \in Ids, row[i].title = "person"
               PROVE  row'[i].title # "pdf"
    OBVIOUS
  <2>1. row[i] \in Row
    BY DEF Placed, PlacedRow
  <2>2. ASSUME NEW p \in Procs, Create(p) PROVE row'[i].title # "pdf"
    <3>1. ASSUME NEW j \in Ids, row' = [row EXCEPT ![j] = AfterUpsert(j, proc[p].sha, proc[p].titled)]
          PROVE  row'[i].title # "pdf"
      BY <2>1, <3>1 DEF AfterUpsert, Row, Placed
    <3> QED BY <2>2, <3>1 DEF Create
  <2>3. ASSUME NEW p \in Procs, DeleteRow(p) PROVE row'[i].title # "pdf"
    BY <2>1, <2>3 DEF DeleteRow, Row, Placed
  <2>4. ASSUME NEW j \in Ids, SetTitle(j) PROVE row'[i].title # "pdf"
    BY <2>1, <2>4 DEF SetTitle, Retitled, Cleared, Row, Placed
  <2>5. ASSUME NEW w \in Workers, Read(w) \/ Record(w) PROVE row'[i].title # "pdf"
    BY <2>1, <2>5 DEF Read, Record, Recorded, Row, Placed
  <2>6. ASSUME NEW w \in Workers, FillTitle(w) PROVE row'[i].title # "pdf"
    BY <2>1, <2>6 DEF FillTitle, Unset, Placed
  <2>7. CASE UNCHANGED row
    BY <2>7
  <2> QED BY <2>2, <2>3, <2>4, <2>5, <2>6, <2>7
    DEF Next, Serve, Work, vars, BeginStore, Stat, WriteTemp, Rename, Link, EnqueueExtraction,
        BeginDelete, RemoveSidecar, RemovePDF, Get, Truncate, Fill, Take, ExtractDatasheetText, Crash
<1> QED BY <1>1, FilesAlways, PTL DEF Spec, PersonsTitleStays

-----------------------------------------------------------------------------
\* What a pending document waits for.
Cause(i) ==
    \/ i \in lost \/ jobs[i] > 0
    \/ \E p \in Procs : proc[p].id = i /\ proc[p].pc \in {"link", "enqueue"}
    \/ \E w \in Workers : worker[w].id = i /\ worker[w].pc # "idle"

LEMMA CauseStep ==
    ASSUME Placed, Counted, \A j \in Pending : Cause(j), [Next]_vars, NEW i \in Pending'
    PROVE  Cause(i)'
<1>0. i \in Ids /\ (i \in Pending => Cause(i))
  BY DEF Pending
<1>1. ASSUME NEW p \in Procs, BeginStore(p) PROVE Cause(i)'
  BY <1>0, <1>1 DEF BeginStore, Placed, Pending, Live, Cause
<1>2. ASSUME NEW p \in Procs, Stat(p) PROVE Cause(i)'
  BY <1>0, <1>2 DEF Stat, Placed, PlacedProc, Proc, Pending, Live, Cause
<1>3. ASSUME NEW p \in Procs, WriteTemp(p) PROVE Cause(i)'
  BY <1>0, <1>3 DEF WriteTemp, Placed, PlacedProc, Proc, Pending, Live, Cause
<1>4. ASSUME NEW p \in Procs, Rename(p) PROVE Cause(i)'
  BY <1>0, <1>4 DEF Rename, RenameFailed, Placed, PlacedProc, Proc, Pending, Live, Cause
<1>5. ASSUME NEW p \in Procs, Create(p) PROVE Cause(i)'
  <2>1. CASE UNCHANGED row /\ proc' = [proc EXCEPT ![p] = DoneProc]
    BY <1>0, <1>5, <2>1 DEF Create, Placed, Pending, Live, Cause
  <2>2. ASSUME NEW j \in Ids, NEW pc \in {"link", "enqueue"},
               row' = [row EXCEPT ![j] = AfterUpsert(j, proc[p].sha, proc[p].titled)],
               proc' = [proc EXCEPT ![p].id = j, ![p].pc = pc]
        PROVE  Cause(i)'
    <3>1. proc[p] \in Proc /\ proc[p].pc = "create"
      BY <1>0, <1>5 DEF Create, Placed, PlacedProc
    <3>2. proc'[p].id = j /\ proc'[p].pc = pc /\ \A q \in Procs \ {p} : proc'[q] = proc[q]
      BY <2>2, <3>1 DEF Placed, Proc
    <3>3. CASE i = j
      BY <3>2, <3>3 DEF Cause
    <3>4. CASE i # j
      BY <1>0, <1>5, <2>2, <3>1, <3>2, <3>4 DEF Create, Placed, Pending, Live, Cause
    <3> QED BY <3>3, <3>4
  <2> QED BY <1>5, <2>1, <2>2 DEF Create
<1>6. ASSUME NEW p \in Procs, Link(p) PROVE Cause(i)'
  BY <1>0, <1>6 DEF Link, Placed, PlacedProc, Proc, Pending, Live, Cause
<1>7. ASSUME NEW p \in Procs, EnqueueExtraction(p) PROVE Cause(i)'
  BY <1>0, <1>7 DEF EnqueueExtraction, Placed, Counted, PlacedProc, Proc, Pending, Live, Cause
<1>8. ASSUME NEW p \in Procs, BeginDelete(p) PROVE Cause(i)'
  BY <1>0, <1>8 DEF BeginDelete, Placed, Pending, Live, Cause
<1>9. ASSUME NEW p \in Procs, DeleteRow(p) PROVE Cause(i)'
  <2>1. row[i] \in Row
    BY <1>0 DEF Placed, PlacedRow
  <2>2. i \in Pending
    BY <1>0, <1>9, <2>1 DEF DeleteRow, Placed, Row, Pending, Live
  <2>3. \A q \in Procs : proc[q].pc \in {"link", "enqueue"} => proc'[q] = proc[q]
    BY <1>9 DEF DeleteRow, Placed
  <2>4. UNCHANGED <<jobs, worker, lost>>
    BY <1>9 DEF DeleteRow
  <2> QED BY <1>0, <2>2, <2>3, <2>4 DEF Cause
<1>10. ASSUME NEW p \in Procs, RemoveSidecar(p) PROVE Cause(i)'
  BY <1>0, <1>10 DEF RemoveSidecar, Placed, PlacedProc, Proc, PlacedWorker, Worker, Pending, Live, Cause
<1>11. ASSUME NEW p \in Procs, RemovePDF(p) PROVE Cause(i)'
  BY <1>0, <1>11 DEF RemovePDF, Placed, Pending, Live, Cause
<1>12. ASSUME NEW w \in Workers, Get(w) PROVE Cause(i)'
  BY <1>0, <1>12 DEF Get, Placed, PlacedWorker, Worker, Pending, Live, Cause
<1>13. ASSUME NEW w \in Workers, Read(w) PROVE Cause(i)'
  <2>1. row[i] \in Row /\ worker[w] \in Worker /\ worker[w].id \in Ids
    BY <1>0, <1>13 DEF Read, Placed, PlacedRow, PlacedWorker
  <2>2. i \in Pending /\ UNCHANGED <<jobs, proc>> /\ lost \subseteq lost'
    BY <1>0, <1>13, <2>1 DEF Read, Recorded, Placed, Row, Pending, Live
  <2>3. \A v \in Workers \ {w} : worker'[v] = worker[v]
    BY <1>13 DEF Read, Placed
  <2>4. CASE worker[w].id # i
    BY <1>0, <2>2, <2>3, <2>4 DEF Cause
  <2>5. CASE worker[w].id = i
    <3>1. i \in lost' \/ worker'[w] = [worker[w] EXCEPT !.pc = "truncate"]
      BY <1>0, <1>13, <2>1, <2>5 DEF Read, Recorded, Placed, Row, Pending, Live
    <3>2. i \in lost' \/ (worker'[w].id = i /\ worker'[w].pc # "idle")
      BY <2>1, <2>5, <3>1 DEF Worker
    <3> QED BY <3>2 DEF Cause
  <2> QED BY <2>4, <2>5
<1>14. ASSUME NEW w \in Workers, Truncate(w) PROVE Cause(i)'
  BY <1>0, <1>14 DEF Truncate, Placed, PlacedWorker, Worker, Pending, Live, Cause
<1>15. ASSUME NEW w \in Workers, Fill(w) PROVE Cause(i)'
  BY <1>0, <1>15 DEF Fill, Placed, PlacedWorker, Worker, Pending, Live, Cause
<1>16. ASSUME NEW w \in Workers, FillTitle(w) PROVE Cause(i)'
  BY <1>0, <1>16 DEF FillTitle, Unset, Placed, PlacedWorker, Worker, PlacedRow, Row, Pending, Live, Cause
<1>17. ASSUME NEW w \in Workers, Record(w) PROVE Cause(i)'
  BY <1>0, <1>17, ContentAssumption DEF Record, Recorded, Outcome, Placed, PlacedWorker, Worker, PlacedRow, Row, Pending, Live, Cause
<1>18. ASSUME NEW w \in Workers, NEW j \in Ids, Take(w, j) PROVE Cause(i)'
  BY <1>0, <1>18 DEF Take, Placed, Counted, PlacedWorker, Worker, Pending, Live, Cause
<1>19. ASSUME NEW j \in Ids, SetTitle(j) PROVE Cause(i)'
  BY <1>0, <1>19 DEF SetTitle, Retitled, Placed, PlacedRow, Row, Pending, Live, Cause
<1>20. ASSUME NEW S \in SUBSET Ids, ExtractDatasheetText(S) PROVE Cause(i)'
  BY <1>0, <1>20 DEF ExtractDatasheetText, Counted, Pending, Live, Cause
<1>21. ASSUME Crash PROVE Cause(i)'
  BY <1>0, <1>21 DEF Crash, Interrupted, Pending, Live, Cause
<1>22. CASE UNCHANGED vars
  BY <1>0, <1>22 DEF vars, Pending, Live, Cause
<1> QED BY <1>1, <1>2, <1>3, <1>4, <1>5, <1>6, <1>7, <1>8, <1>9, <1>10, <1>11, <1>12, <1>13, <1>14, <1>15, <1>16, <1>17, <1>18, <1>19, <1>20, <1>21, <1>22
  DEF Next, Serve, Work, Pending

\* A document that was stored and not read is on its way, or one of the errors the
\* code drops took it away (enqueueExtraction, SetExtraction).
THEOREM PendingExplained == Spec => []PendingHasCause
<1>1. Init => PendingHasCause
  BY DEF Init, PendingHasCause, Pending, Live, NoRow
<1>2. PendingHasCause <=> \A i \in Pending : Cause(i)
  BY DEF PendingHasCause, Cause
<1>3. Placed /\ Counted /\ PendingHasCause /\ [Next]_vars => PendingHasCause'
  BY <1>2, CauseStep DEF PendingHasCause, Cause
<1> QED BY <1>1, <1>3, FilesAlways, PTL DEF Spec
=============================================================================
