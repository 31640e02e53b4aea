----------------------------- MODULE Datasheets -----------------------------
\* The datasheet library: PDFs and their extracted text on disk, named by the hash
\* of the PDF, and rows in Postgres that refer to them (datasheets/store.go,
\* repository/datasheet.go, handlers/datasheets.go, handlers/datasheets_jobs.go).
\*
\* File and row are two stores without a transaction around them. Requests that
\* store a document (an upload, or one target of the mirror job), requests that
\* delete one, and workers that extract text interleave at every statement and
\* every file operation; the process may die between any two.
EXTENDS Naturals

CONSTANTS Shas,         \* contents, by their hash
          Content,      \* what extraction makes of each: "ok", "no_text_layer", "failed"
          Ids,          \* ids of rows, each used at most once
          Procs,        \* requests, each served once
          Workers,      \* workers of the queue that extraction runs on
          NoSha, NoId,  \* neither
          MaxCrashes,   \* how often the process may die
          MaxFaults,    \* how many calls may fail, a cancelled one included
          MaxJobs       \* how many extractions of one document may be queued

ASSUME ContentAssumption == Content \in [Shas -> {"ok", "no_text_layer", "failed"}]
ASSUME NoneAssumption == NoSha \notin Shas /\ NoId \notin Ids
ASSUME BudgetAssumption == MaxCrashes \in Nat /\ MaxFaults \in Nat /\ MaxJobs \in Nat

VARIABLES file,         \* the PDF at each hash
          text,         \* the sidecar with its text
          row,          \* the rows of datasheets
          jobs,         \* how many extractions of a row are queued
          proc,         \* requests
          worker,       \* extraction workers
          crashes, faults,
          overlapped,   \* contents that were stored while being deleted
          lost          \* rows whose extraction was not queued or not recorded

vars == <<file, text, row, jobs, proc, worker, crashes, faults, overlapped, lost>>

OnDisk == {"absent", "torn", "whole"}
Status == {"pending", "ok", "no_text_layer", "failed"}
Title  == {"none", "person", "pdf"}

Row    == [state : {"unused", "live", "deleted"}, sha : Shas \cup {NoSha},
           status : Status, title : Title]
Proc   == [pc : {"idle", "stat", "temp", "rename", "create", "link", "enqueue",
                 "row", "sidecar", "pdf", "done"},
           sha : Shas \cup {NoSha}, id : Ids \cup {NoId},
           titled : BOOLEAN, links : BOOLEAN]
Worker == [pc : {"idle", "get", "read", "truncate", "fill", "title", "record"},
           sha : Shas \cup {NoSha}, id : Ids \cup {NoId}, untitled : BOOLEAN]

NoRow    == [state |-> "unused", sha |-> NoSha, status |-> "pending", title |-> "none"]
NewProc  == [pc |-> "idle", sha |-> NoSha, id |-> NoId, titled |-> FALSE, links |-> FALSE]
DoneProc == [NewProc EXCEPT !.pc = "done"]
Idle     == [pc |-> "idle", sha |-> NoSha, id |-> NoId, untitled |-> FALSE]

TypeOK ==
    /\ file \in [Shas -> OnDisk] /\ text \in [Shas -> OnDisk]
    /\ row \in [Ids -> Row] /\ jobs \in [Ids -> 0 .. MaxJobs]
    /\ proc \in [Procs -> Proc] /\ worker \in [Workers -> Worker]
    /\ crashes \in 0 .. MaxCrashes /\ faults \in 0 .. MaxFaults
    /\ overlapped \in SUBSET Shas /\ lost \in SUBSET Ids

Init ==
    /\ file = [s \in Shas |-> "absent"] /\ text = [s \in Shas |-> "absent"]
    /\ row = [i \in Ids |-> NoRow] /\ jobs = [i \in Ids |-> 0]
    /\ proc = [p \in Procs |-> NewProc] /\ worker = [w \in Workers |-> Idle]
    /\ crashes = 0 /\ faults = 0 /\ overlapped = {} /\ lost = {}

Live(i)   == row[i].state = "live"
Rows(s)   == {i \in Ids : Live(i) /\ row[i].sha = s}

\* A call may fail while the budget lasts.
Fault == faults < MaxFaults /\ faults' = faults + 1
NoFault == UNCHANGED faults

-----------------------------------------------------------------------------
\* Storing: Store.Put, Create, LinkPart, enqueueExtraction. The upload handler and
\* the mirror job make the same calls, and both give up when one of them fails.

Storing(s)  == {p \in Procs : proc[p].sha = s /\ proc[p].pc \in {"temp", "rename", "create"}}
Deleting(s) == {p \in Procs : proc[p].sha = s /\ proc[p].pc \in {"sidecar", "pdf"}}

BeginStore(p) ==
    /\ proc[p].pc = "idle"
    /\ \E s \in Shas, titled, links \in BOOLEAN :
         proc' = [proc EXCEPT ![p] = [pc |-> "stat", sha |-> s, id |-> NoId,
                                      titled |-> titled, links |-> links]]
    /\ UNCHANGED <<file, text, row, jobs, worker, crashes, faults, overlapped, lost>>

\* A file that is there is taken to be complete.
Stat(p) ==
    LET s == proc[p].sha IN
    /\ proc[p].pc = "stat"
    /\ proc' = [proc EXCEPT ![p].pc = IF file[s] = "absent" THEN "temp" ELSE "create"]
    /\ overlapped' = IF Deleting(s) = {} THEN overlapped ELSE overlapped \cup {s}
    /\ UNCHANGED <<file, text, row, jobs, worker, crashes, faults, lost>>

\* What writing the temporary file does to the file at the hash: nothing.
\* Names that begin with Bad are plausible bugs. Nothing uses them: put in the
\* place of the definition after them, they break a property.
BadWritten(s) == [file EXCEPT ![s] = "torn"]

Written(s) == file

WriteTemp(p) ==
    /\ proc[p].pc = "temp"
    /\ \/ proc' = [proc EXCEPT ![p].pc = "rename"] /\ NoFault
       \/ proc' = [proc EXCEPT ![p] = DoneProc] /\ Fault
    /\ file' = Written(proc[p].sha)
    /\ UNCHANGED <<text, row, jobs, worker, crashes, overlapped, lost>>

\* A rename that fails ends the request.
BadRenameFailed(p) == [proc EXCEPT ![p].pc = "create"]

RenameFailed(p) == [proc EXCEPT ![p] = DoneProc]

Rename(p) ==
    /\ proc[p].pc = "rename"
    /\ \/ /\ file' = [file EXCEPT ![proc[p].sha] = "whole"]
          /\ proc' = [proc EXCEPT ![p].pc = "create"]
          /\ NoFault
       \/ proc' = RenameFailed(p) /\ Fault /\ UNCHANGED file
    /\ UNCHANGED <<text, row, jobs, worker, crashes, overlapped, lost>>

\* The row an INSERT ... ON CONFLICT (sha256) leaves: the one that has the hash, or
\* a new one.
BadUpserted(i, s) == row[i].state = "unused"

Upserted(i, s) == IF Rows(s) = {} THEN row[i].state = "unused" ELSE i \in Rows(s)

AfterUpsert(i, s, titled) ==
    IF Live(i)
    THEN [row[i] EXCEPT !.title = IF titled /\ @ = "none" THEN "person" ELSE @]
    ELSE [state |-> "live", sha |-> s, status |-> "pending",
          title |-> IF titled THEN "person" ELSE "none"]

Create(p) ==
    /\ proc[p].pc = "create"
    /\ \/ /\ \E i \in Ids :
              /\ Upserted(i, proc[p].sha)
              /\ row' = [row EXCEPT ![i] = AfterUpsert(i, proc[p].sha, proc[p].titled)]
              /\ proc' = [proc EXCEPT ![p].id = i,
                              ![p].pc = IF proc[p].links THEN "link" ELSE "enqueue"]
          /\ NoFault
       \/ proc' = [proc EXCEPT ![p] = DoneProc] /\ Fault /\ UNCHANGED row
    /\ UNCHANGED <<file, text, jobs, worker, crashes, overlapped, lost>>

\* The link fails when part or document has been deleted meanwhile. Then nothing is
\* queued.
Link(p) ==
    /\ proc[p].pc = "link"
    /\ \/ /\ Live(proc[p].id)
          /\ proc' = [proc EXCEPT ![p].pc = "enqueue"]
          /\ UNCHANGED lost
       \/ /\ proc' = [proc EXCEPT ![p] = DoneProc]
          /\ lost' = lost \cup {proc[p].id}
    /\ UNCHANGED <<file, text, row, jobs, worker, crashes, faults, overlapped>>

\* The error of enqueueExtraction is dropped. Extraction is turned on here
\* (datasheets.extract_text); turned off, a document waits for ExtractDatasheetText.
EnqueueExtraction(p) ==
    LET i == proc[p].id IN
    /\ proc[p].pc = "enqueue"
    /\ proc' = [proc EXCEPT ![p] = DoneProc]
    /\ \/ /\ jobs[i] < MaxJobs
          /\ jobs' = [jobs EXCEPT ![i] = @ + 1]
          /\ UNCHANGED lost
          /\ NoFault
       \/ Fault /\ lost' = lost \cup {i} /\ UNCHANGED jobs
    /\ UNCHANGED <<file, text, row, worker, crashes, overlapped>>

-----------------------------------------------------------------------------
\* Deleting: the row, then the sidecar, then the PDF.

BeginDelete(p) ==
    /\ proc[p].pc = "idle"
    /\ \E i \in Ids : Live(i) /\ proc' = [proc EXCEPT ![p].pc = "row", ![p].id = i]
    /\ UNCHANGED <<file, text, row, jobs, worker, crashes, faults, overlapped, lost>>

\* DELETE ... RETURNING sha256. A row that is gone ends the request.
DeleteRow(p) ==
    LET i == proc[p].id
        s == row[i].sha
    IN
    /\ proc[p].pc = "row"
    /\ \/ /\ Live(i)
          /\ row' = [row EXCEPT ![i].state = "deleted"]
          /\ proc' = [proc EXCEPT ![p].pc = "sidecar", ![p].sha = s]
          /\ overlapped' = IF Storing(s) = {} THEN overlapped ELSE overlapped \cup {s}
       \/ /\ ~Live(i)
          /\ proc' = [proc EXCEPT ![p] = DoneProc]
          /\ UNCHANGED <<row, overlapped>>
    /\ UNCHANGED <<file, text, jobs, worker, crashes, faults, lost>>

\* A worker that has the sidecar open goes on writing into a file without a name.
RemoveSidecar(p) ==
    LET s == proc[p].sha IN
    /\ proc[p].pc = "sidecar"
    /\ \/ /\ text' = [text EXCEPT ![s] = "absent"]
          /\ worker' = [w \in Workers |->
                           IF worker[w].pc = "fill" /\ worker[w].sha = s
                           THEN [worker[w] EXCEPT !.pc = "title"] ELSE worker[w]]
          /\ NoFault
       \/ UNCHANGED <<text, worker>> /\ Fault
    /\ proc' = [proc EXCEPT ![p].pc = "pdf"]
    /\ UNCHANGED <<file, row, jobs, crashes, overlapped, lost>>

RemovePDF(p) ==
    /\ proc[p].pc = "pdf"
    /\ \/ file' = [file EXCEPT ![proc[p].sha] = "absent"] /\ NoFault
       \/ UNCHANGED file /\ Fault
    /\ proc' = [proc EXCEPT ![p] = DoneProc]
    /\ UNCHANGED <<text, row, jobs, worker, crashes, overlapped, lost>>

-----------------------------------------------------------------------------
\* PATCH of the title, and the request to extract again, of one document or of
\* all that are pending. Both are single statements.

\* A title of spaces is a cleared one.
Cleared(t) == IF t = "blank" THEN "none" ELSE t

BadRetitled(i, t) == [row[i] EXCEPT !.title = t, !.status = "pending"]

Retitled(i, t) == [row[i] EXCEPT !.title = t]

SetTitle(i) ==
    /\ Live(i)
    /\ \E t \in {"none", "blank", "person"} :
         row' = [row EXCEPT ![i] = Retitled(i, Cleared(t))]
    /\ UNCHANGED <<file, text, jobs, proc, worker, crashes, faults, overlapped, lost>>

ExtractDatasheetText(S) ==
    /\ \A i \in S : row[i].state # "unused" /\ jobs[i] < MaxJobs
    /\ jobs' = [i \in Ids |-> IF i \in S THEN jobs[i] + 1 ELSE jobs[i]]
    /\ UNCHANGED <<file, text, row, proc, worker, crashes, faults, overlapped, lost>>

Pending == {i \in Ids : Live(i) /\ row[i].status = "pending"}

-----------------------------------------------------------------------------
\* Extraction.

Take(w, i) ==
    /\ worker[w].pc = "idle"
    /\ jobs[i] > 0
    /\ jobs' = [jobs EXCEPT ![i] = @ - 1]
    /\ worker' = [worker EXCEPT ![w].pc = "get", ![w].id = i]
    /\ UNCHANGED <<file, text, row, proc, crashes, faults, overlapped, lost>>

\* A row that is not there, or cannot be read, is skipped.
Get(w) ==
    LET i == worker[w].id IN
    /\ worker[w].pc = "get"
    /\ \/ /\ Live(i)
          /\ worker' = [worker EXCEPT ![w].pc = "read", ![w].sha = row[i].sha,
                                      ![w].untitled = (row[i].title = "none")]
          /\ NoFault
          /\ UNCHANGED lost
       \/ /\ ~Live(i)
          /\ worker' = [worker EXCEPT ![w] = Idle]
          /\ NoFault
          /\ UNCHANGED lost
       \/ /\ worker' = [worker EXCEPT ![w] = Idle]
          /\ Fault
          /\ lost' = lost \cup {i}
    /\ UNCHANGED <<file, text, row, jobs, proc, crashes, overlapped>>

\* SetExtraction, whose error is dropped.
Recorded(i, status) ==
    \/ /\ row' = IF Live(i) THEN [row EXCEPT ![i].status = status] ELSE row
       /\ NoFault /\ UNCHANGED lost
    \/ UNCHANGED row /\ Fault /\ lost' = lost \cup {i}

\* A file that is missing, or cannot be read, is a failed extraction.
Read(w) ==
    LET i == worker[w].id IN
    /\ worker[w].pc = "read"
    /\ \/ /\ file[worker[w].sha] = "absent"
          /\ Recorded(i, "failed")
          /\ worker' = [worker EXCEPT ![w] = Idle]
       \/ /\ file[worker[w].sha] # "absent"
          /\ Fault
          /\ row' = IF Live(i) THEN [row EXCEPT ![i].status = "failed"] ELSE row
          /\ worker' = [worker EXCEPT ![w] = Idle]
          /\ UNCHANGED lost
       \/ /\ file[worker[w].sha] # "absent"
          /\ worker' = [worker EXCEPT ![w].pc = "truncate"]
          /\ UNCHANGED <<row, faults, lost>>
    /\ UNCHANGED <<file, text, jobs, proc, crashes, overlapped>>

\* WriteSidecar: os.WriteFile truncates the file, then fills it. Its error is
\* logged and dropped.
Truncate(w) ==
    /\ worker[w].pc = "truncate"
    /\ \/ /\ text' = [text EXCEPT ![worker[w].sha] = "torn"]
          /\ worker' = [worker EXCEPT ![w].pc = "fill"]
          /\ NoFault
       \/ /\ worker' = [worker EXCEPT ![w].pc = "title"]
          /\ Fault
          /\ UNCHANGED text
    /\ UNCHANGED <<file, row, jobs, proc, crashes, overlapped, lost>>

Fill(w) ==
    /\ worker[w].pc = "fill"
    /\ \/ text' = [text EXCEPT ![worker[w].sha] = "whole"] /\ NoFault
       \/ UNCHANGED text /\ Fault
    /\ worker' = [worker EXCEPT ![w].pc = "title"]
    /\ UNCHANGED <<file, row, jobs, proc, crashes, overlapped, lost>>

\* The rows SetTitleIfUnset writes.
BadUnset(i) == Live(i)

Unset(i) == Live(i) /\ row[i].title = "none"

\* A title the PDF declares fills a blank. Not every PDF declares one.
FillTitle(w) ==
    LET i == worker[w].id IN
    /\ worker[w].pc = "title"
    /\ \/ worker[w].untitled /\ Unset(i) /\ row' = [row EXCEPT ![i].title = "pdf"]
       \/ UNCHANGED row
    /\ worker' = [worker EXCEPT ![w].pc = "record"]
    /\ UNCHANGED <<file, text, jobs, proc, crashes, faults, overlapped, lost>>

\* The status that goes with what was found.
BadOutcome(s) == IF Content[s] = "no_text_layer" THEN "pending" ELSE Content[s]

Outcome(s) == Content[s]

Record(w) ==
    /\ worker[w].pc = "record"
    /\ Recorded(worker[w].id, Outcome(worker[w].sha))
    /\ worker' = [worker EXCEPT ![w] = Idle]
    /\ UNCHANGED <<file, text, jobs, proc, crashes, overlapped>>

-----------------------------------------------------------------------------
\* The process dies. A row whose store was under way may have been written and
\* not queued. River runs an extraction again, until it has used up its attempts.
Interrupted(i) == \/ \E p \in Procs : proc[p].id = i /\ proc[p].pc \in {"link", "enqueue"}
                  \/ \E w \in Workers : worker[w].id = i /\ worker[w].pc # "idle"

Crash ==
    /\ crashes < MaxCrashes
    /\ crashes' = crashes + 1
    /\ proc' = [p \in Procs |-> IF proc[p].pc = "idle" THEN proc[p] ELSE DoneProc]
    /\ worker' = [w \in Workers |-> Idle]
    /\ lost' = lost \cup {i \in Ids : Interrupted(i)}
    /\ \E again \in SUBSET {w \in Workers : worker[w].pc # "idle"} :
         jobs' = [i \in Ids |-> IF jobs[i] < MaxJobs /\ \E w \in again : worker[w].id = i
                                THEN jobs[i] + 1 ELSE jobs[i]]
    /\ UNCHANGED <<file, text, row, faults, overlapped>>

-----------------------------------------------------------------------------
Serve(p) ==
    \/ Stat(p) \/ WriteTemp(p) \/ Rename(p) \/ Create(p) \/ Link(p) \/ EnqueueExtraction(p)
    \/ DeleteRow(p) \/ RemoveSidecar(p) \/ RemovePDF(p)

Work(w) ==
    Get(w) \/ Read(w) \/ Truncate(w) \/ Fill(w) \/ FillTitle(w) \/ Record(w)

Next ==
    \/ \E p \in Procs : BeginStore(p) \/ BeginDelete(p) \/ Serve(p)
    \/ \E w \in Workers : Work(w) \/ \E i \in Ids : Take(w, i)
    \/ \E i \in Ids : SetTitle(i) \/ ExtractDatasheetText({i})
    \/ ExtractDatasheetText(Pending)
    \/ Crash

Spec == Init /\ [][Next]_vars

\* A handler that runs goes on, and so does a worker. River hands out the jobs of a
\* queue in order, so each one gets its turn.
FairSpec == /\ Spec
            /\ \A p \in Procs : WF_vars(Serve(p))
            /\ \A w \in Workers : WF_vars(Work(w))
            /\ \A i \in Ids : SF_vars(\E w \in Workers : Take(w, i))

-----------------------------------------------------------------------------
\* A file that is there is complete (Store.Put, whatever it was interrupted by):
\* Stat would otherwise believe it for ever.
NoTornFile == \A s \in Shas : file[s] # "torn"

\* Identical bytes have one row (Create, "one PDF shared by a whole family").
OneRowPerContent ==
    \A i, j \in Ids : Live(i) /\ Live(j) /\ row[i].sha = row[j].sha => i = j

\* A document in the library has its file, unless the same bytes were stored and
\* deleted at the same time (DeleteDatasheet, "row first, then file").
FilePresent ==
    \A i \in Ids : Live(i) /\ row[i].sha \notin overlapped => file[row[i].sha] = "whole"

\* A document is pending because its extraction is on its way, or because one of
\* the errors the code drops took it away.
PendingHasCause ==
    \A i \in Pending :
        \/ i \in lost \/ jobs[i] > 0
        \/ \E p \in Procs : proc[p].id = i /\ proc[p].pc \in {"link", "enqueue"}
        \/ \E w \in Workers : worker[w].id = i /\ worker[w].pc # "idle"

\* Extraction never replaces a title that a person gave (SetTitleIfUnset).
PersonsTitleStays ==
    [][\A i \in Ids : row[i].title = "person" => row'[i].title # "pdf"]_vars

\* Every pending document is read, deleted or lost to a dropped error.
GetsRead ==
    \A i \in Ids : i \in Pending ~> i \notin Pending \/ i \in lost

-----------------------------------------------------------------------------
\* What the repository says and the code does not do.

\* handlers/datasheets.go:391-393: at worst a file is left over, never a row that
\* points at nothing.
RowHasFile == \A i \in Ids : Live(i) => file[row[i].sha] = "whole"

\* assistant/datasheet_tools.go:57: a document whose status is ok can be read.
OkMeansReadable ==
    \A i \in Ids : Live(i) /\ row[i].status = "ok" => text[row[i].sha] = "whole"

\* handlers/datasheets.go:379: deleting a document removes its extracted text. A
\* text without a document is there only while something is at work.
TextGoesWithDocument ==
    \A s \in Shas :
        \/ text[s] = "absent" \/ Rows(s) # {}
        \/ \E p \in Procs : proc[p].pc \notin {"idle", "done"}
        \/ \E w \in Workers : worker[w].pc # "idle"

\* assistant/datasheet_tools.go:243-244: a pending document is being processed.
PendingIsProcessed ==
    \A i \in Pending :
        \/ jobs[i] > 0
        \/ \E p \in Procs : proc[p].id = i /\ proc[p].pc \in {"link", "enqueue"}
        \/ \E w \in Workers : worker[w].id = i /\ worker[w].pc # "idle"
=============================================================================
