-------------------------------- MODULE Jobs --------------------------------
(***************************************************************************)
(* The background job processor: the tasks table clients read, the River   *)
(* queue that executes, the Run harness a worker goes through, the Cancel  *)
(* handler and the reconciler (internal/jobs, handlers/tasks.go).          *)
(*                                                                         *)
(* A task row and its River job live in Postgres and survive a crash; the  *)
(* worker, the cancel handler and the reconciler's snapshot live in the    *)
(* API process and do not.  River is a library: it is modelled from how    *)
(* the code uses it.                                                       *)
(***************************************************************************)
EXTENDS Integers, FiniteSets

CONSTANTS
  Tasks,          \* task ids; an id is used once, as a UUID is
  NoTask,         \* no task
  AskedAttempts,  \* the MaxAttempts values callers of Enqueue pass
  MaxWorkers,     \* workers of the queue the tasks are on
  MaxCrashes,     \* bound: how often the API process dies
  MaxFaults       \* bound: how many database calls with an ignored error fail

ASSUME NoTaskAssumption == NoTask \notin Tasks
ASSUME AttemptsAssumption == AskedAttempts \subseteq Nat
ASSUME WorkersAssumption == MaxWorkers \in Nat \ {0}
ASSUME BudgetAssumption == MaxCrashes \in Nat /\ MaxFaults \in Nat

VARIABLES
  status,       \* tasks.status, or "none" (not enqueued yet), "deleted"
  finished,     \* tasks.finished_at is not null
  attempt,      \* tasks.attempt
  maxAttempts,  \* tasks.max_attempts and the River job's
  origin,       \* the task this one is a retry of, or NoTask
  stale,        \* tasks whose updated_at is older than two minutes
  river,        \* the River job's state
  tries,        \* the River job's attempt number
  cancelAsked,  \* River recorded a cancel of the running job
  pc,           \* where the worker executing the job is
  verdict,      \* the status the worker is about to write, or wrote
  ctxDone,      \* the worker's context is cancelled
  cancelPc,     \* where the Cancel handler is
  todo,         \* the rows FindStuck returned and the sweep has yet to see
  doomed,       \* the task whose job the sweep found dead
  crashes, faults,
  past          \* history: what happened to each task

taskRows  == <<status, finished, attempt, maxAttempts, origin, stale>>
riverRows == <<river, tries, cancelAsked>>
worker    == <<pc, verdict, ctxDone>>
sweep     == <<todo, doomed>>
vars == <<taskRows, riverRows, worker, cancelPc, sweep, crashes, faults, past>>

Final    == {"completed", "failed", "cancelled"}
NonFinal == {"queued", "running", "retrying", "cancelling"}
Gone     == {"none", "deleted"}
Live     == {"available", "running", "retryable"}
Dead     == {"completed", "cancelled", "discarded"}
Pcs      == {"idle", "fetched", "marked", "body", "erred", "writing", "returned"}

\* "cancel": RequestCancel accepted one; "answered": JobCancel went through;
\* "died": a worker of the task died with the process; "torn": it died after
\* its last write and before River recorded the outcome; "dropped": a call
\* about the task failed and its error was ignored; "misread": that call was
\* the reconciler's look at River.
Events == {"cancel", "answered", "died", "torn", "dropped", "misread"}

(* Names that begin with Bad are plausible bugs.  Nothing uses them: put in   *)
(* the place of the definition after them, they break a property.            *)

Note(t, e) == past' = [past EXCEPT ![t] = @ \cup {e}]

\* A call whose error the code ignores: it works, or the fault budget shrinks.
Call(t, ok, e) ==
  IF ok THEN UNCHANGED <<faults, past>>
        ELSE /\ faults < MaxFaults
             /\ faults' = faults + 1
             /\ Note(t, e)

Init ==
  /\ status = [t \in Tasks |-> "none"]
  /\ finished = [t \in Tasks |-> FALSE]
  /\ attempt = [t \in Tasks |-> 0]
  /\ maxAttempts = [t \in Tasks |-> 1]
  /\ origin = [t \in Tasks |-> NoTask]
  /\ stale = {}
  /\ river = [t \in Tasks |-> "none"]
  /\ tries = [t \in Tasks |-> 0]
  /\ cancelAsked = [t \in Tasks |-> FALSE]
  /\ pc = [t \in Tasks |-> "idle"]
  /\ verdict = [t \in Tasks |-> "none"]
  /\ ctxDone = [t \in Tasks |-> FALSE]
  /\ cancelPc = [t \in Tasks |-> "idle"]
  /\ todo = {}
  /\ doomed = NoTask
  /\ crashes = 0
  /\ faults = 0
  /\ past = [t \in Tasks |-> {}]

-----------------------------------------------------------------------------
(* Enqueue: task row, River job and the link between them in one transaction. *)

BadAttempts(asked) == asked                       \* no default for 0
Attempts(asked) == IF asked < 1 THEN 1 ELSE asked

Insert(t, asked, from) ==
  /\ status[t] = "none"
  /\ status' = [status EXCEPT ![t] = "queued"]
  /\ maxAttempts' = [maxAttempts EXCEPT ![t] = Attempts(asked)]
  /\ origin' = [origin EXCEPT ![t] = from]
  /\ river' = [river EXCEPT ![t] = "available"]
  /\ UNCHANGED <<finished, attempt, stale, tries, cancelAsked, worker, cancelPc,
                 sweep, crashes, faults, past>>

Enqueue(t, asked) == Insert(t, asked, NoTask)

\* POST /tasks/{id}/retry: a fresh task with the arguments of an existing one.
RetryTask(s, t) ==
  /\ status[s] \notin Gone
  /\ \E asked \in AskedAttempts : asked > 1 /\ Insert(t, asked, s)

\* DELETE /tasks and the hourly prune: finished rows created before a cutoff.
BadClearable == {t \in Tasks : status[t] \notin Gone}  \* no WHERE on the status
Clearable == {t \in Tasks : status[t] \in Final}

ClearFinished(S) ==
  /\ S # {}
  /\ S \subseteq Clearable
  /\ status' = [t \in Tasks |-> IF t \in S THEN "deleted" ELSE status[t]]
  /\ UNCHANGED <<finished, attempt, maxAttempts, origin, stale, riverRows, worker,
                 cancelPc, sweep, crashes, faults, past>>

-----------------------------------------------------------------------------
(* Writes to a task row.  An UPDATE of a deleted row changes nothing; any    *)
(* other sets updated_at.                                                    *)

BadAttemptNumber(t) == tries[t] + 1               \* River counts from 1 already
AttemptNumber(t) == tries[t]

MarkRunning(t) ==
  /\ stale' = stale \ {t}
  /\ IF status[t] = "deleted"
       THEN UNCHANGED <<status, attempt>>
       ELSE /\ status' = [status EXCEPT ![t] = "running"]
            /\ attempt' = [attempt EXCEPT ![t] = AttemptNumber(t)]

MarkTerminal(t, s) ==
  /\ stale' = stale \ {t}
  /\ IF status[t] = "deleted"
       THEN UNCHANGED <<status, finished>>
       ELSE /\ status' = [status EXCEPT ![t] = s]
            /\ finished' = [finished EXCEPT ![t] = @ \/ s \in Final]

\* Two minutes pass without a write to the row.
Age(t) ==
  /\ status[t] \in NonFinal
  /\ t \notin stale
  /\ stale' = stale \cup {t}
  /\ UNCHANGED <<status, finished, attempt, maxAttempts, origin, riverRows, worker,
                 cancelPc, sweep, crashes, faults, past>>

-----------------------------------------------------------------------------
(* A worker: River fetches the job and calls Run.                            *)

Fetch(t) ==
  /\ river[t] \in {"available", "retryable"}
  /\ pc[t] = "idle"
  /\ Cardinality({u \in Tasks : pc[u] # "idle"}) < MaxWorkers
  /\ river' = [river EXCEPT ![t] = "running"]
  /\ tries' = [tries EXCEPT ![t] = @ + 1]
  /\ pc' = [pc EXCEPT ![t] = "fetched"]
  /\ UNCHANGED <<taskRows, cancelAsked, verdict, ctxDone, cancelPc, sweep, crashes,
                 faults, past>>

\* The first write uses the worker's own context: a cancelled one writes nothing.
StartRun(t, ok) ==
  /\ pc[t] = "fetched"
  /\ pc' = [pc EXCEPT ![t] = "marked"]
  /\ IF ok /\ ~ctxDone[t]
       THEN MarkRunning(t)
       ELSE UNCHANGED <<status, attempt, stale>>
  /\ Call(t, ok, "dropped")
  /\ UNCHANGED <<finished, maxAttempts, origin, riverRows, verdict, ctxDone, cancelPc,
                 sweep, crashes>>

\* cancels.add: from here a Cancel handler can reach the worker's context.
Register(t) ==
  /\ pc[t] = "marked"
  /\ pc' = [pc EXCEPT ![t] = "body"]
  /\ UNCHANGED <<taskRows, riverRows, verdict, ctxDone, cancelPc, sweep, crashes,
                 faults, past>>

Registered(t) == pc[t] \in {"body", "erred", "writing"}

Progress(t) ==
  /\ pc[t] = "body"
  /\ t \in stale
  /\ stale' = stale \ {t}
  /\ UNCHANGED <<status, finished, attempt, maxAttempts, origin, riverRows, worker,
                 cancelPc, sweep, crashes, faults, past>>

BodyReturnsNil(t) ==
  /\ pc[t] = "body"
  /\ pc' = [pc EXCEPT ![t] = "writing"]
  /\ verdict' = [verdict EXCEPT ![t] = "completed"]
  /\ UNCHANGED <<taskRows, riverRows, ctxDone, cancelPc, sweep, crashes, faults, past>>

BodyReturnsError(t) ==
  /\ pc[t] = "body"
  /\ pc' = [pc EXCEPT ![t] = "erred"]
  /\ UNCHANGED <<taskRows, riverRows, verdict, ctxDone, cancelPc, sweep, crashes,
                 faults, past>>

IsCancelling(t) == status[t] \in {"cancelling", "cancelled"}

\* One attempt too many is announced: River discards the job after the last.
BadAfterError(t, ok) ==
  IF ok /\ IsCancelling(t) THEN "cancelled"
  ELSE IF tries[t] <= maxAttempts[t] THEN "retrying" ELSE "failed"

\* The switch of Run after an error; a failed read counts as not cancelling.
AfterError(t, ok) ==
  IF ok /\ IsCancelling(t) THEN "cancelled"
  ELSE IF tries[t] < maxAttempts[t] THEN "retrying" ELSE "failed"

Judge(t, ok) ==
  /\ pc[t] = "erred"
  /\ pc' = [pc EXCEPT ![t] = "writing"]
  /\ verdict' = [verdict EXCEPT ![t] = AfterError(t, ok)]
  /\ Call(t, ok, "dropped")
  /\ UNCHANGED <<taskRows, riverRows, ctxDone, cancelPc, sweep, crashes>>

\* The terminal write, on a context nothing cancels; then cancels.remove.
WriteVerdict(t, ok) ==
  /\ pc[t] = "writing"
  /\ pc' = [pc EXCEPT ![t] = "returned"]
  /\ IF ok THEN MarkTerminal(t, verdict[t])
           ELSE UNCHANGED <<status, finished, stale>>
  /\ Call(t, ok, "dropped")
  /\ UNCHANGED <<attempt, maxAttempts, origin, riverRows, verdict, ctxDone, cancelPc,
                 sweep, crashes>>

\* River records what Run returned.  Of a plain error it makes a retry, unless
\* the attempts are used up or a cancel was recorded while the job ran.
Outcomes(t) ==
  IF verdict[t] \in {"completed", "cancelled"} THEN {verdict[t]}
  ELSE IF tries[t] >= maxAttempts[t]
    THEN IF cancelAsked[t] THEN {"discarded", "cancelled"} ELSE {"discarded"}
  ELSE IF cancelAsked[t] THEN {"cancelled"} ELSE {"retryable"}

RiverFinish(t) ==
  /\ pc[t] = "returned"
  /\ \E s \in Outcomes(t) : river' = [river EXCEPT ![t] = s]
  /\ pc' = [pc EXCEPT ![t] = "idle"]
  /\ verdict' = [verdict EXCEPT ![t] = "none"]
  /\ ctxDone' = [ctxDone EXCEPT ![t] = FALSE]
  /\ UNCHANGED <<taskRows, tries, cancelAsked, cancelPc, sweep, crashes, faults, past>>

\* River's rescuer takes a job whose worker died.
Rescue(t) ==
  /\ river[t] = "running"
  /\ pc[t] = "idle"
  /\ river' = [river EXCEPT ![t] = IF cancelAsked[t] THEN "cancelled"
                                   ELSE IF tries[t] < maxAttempts[t] THEN "retryable"
                                   ELSE "discarded"]
  /\ UNCHANGED <<taskRows, tries, cancelAsked, worker, cancelPc, sweep, crashes,
                 faults, past>>

-----------------------------------------------------------------------------
(* POST /tasks/{id}/cancel: flag the row, stop the worker, tell River.       *)

BadCancellable == NonFinal \cup Final             \* no WHERE status IN (...)
Cancellable == {"queued", "running", "retrying"}

RequestCancel(t) ==
  /\ cancelPc[t] = "idle"
  /\ status[t] \in Cancellable
  /\ status' = [status EXCEPT ![t] = "cancelling"]
  /\ stale' = stale \ {t}
  /\ cancelPc' = [cancelPc EXCEPT ![t] = "flagged"]
  /\ Note(t, "cancel")
  /\ UNCHANGED <<finished, attempt, maxAttempts, origin, riverRows, worker, sweep,
                 crashes, faults>>

SignalWorker(t) ==
  /\ cancelPc[t] = "flagged"
  /\ cancelPc' = [cancelPc EXCEPT ![t] = "signalled"]
  /\ ctxDone' = [ctxDone EXCEPT ![t] = @ \/ Registered(t)]
  /\ UNCHANGED <<taskRows, riverRows, pc, verdict, sweep, crashes, faults, past>>

\* River's JobCancel: a running job is only marked, a waiting one is cancelled.
JobCancel(t) ==
  /\ river' = [river EXCEPT ![t] = IF @ \in {"available", "retryable"}
                                     THEN "cancelled" ELSE @]
  /\ cancelAsked' = [cancelAsked EXCEPT ![t] = @ \/ river[t] = "running"]

\* River is told only of jobs that no worker of this process is running.
BadCancelInRiver(t, ok) ==
  /\ cancelPc[t] = "signalled"
  /\ cancelPc' = [cancelPc EXCEPT ![t] = "idle"]
  /\ IF ok /\ ~Registered(t) THEN JobCancel(t) ELSE UNCHANGED <<river, cancelAsked>>
  /\ Note(t, "answered")
  /\ UNCHANGED <<taskRows, tries, worker, sweep, crashes, faults>>

CancelInRiver(t, ok) ==
  /\ cancelPc[t] = "signalled"
  /\ cancelPc' = [cancelPc EXCEPT ![t] = "idle"]
  /\ IF ok
       THEN JobCancel(t) /\ Note(t, "answered") /\ UNCHANGED faults
       ELSE Call(t, FALSE, "dropped") /\ UNCHANGED <<river, cancelAsked>>
  /\ UNCHANGED <<taskRows, tries, worker, sweep, crashes>>

\* River's notifier cancels the context of a running job marked for cancel.
RiverNotify(t) ==
  /\ cancelAsked[t]
  /\ pc[t] # "idle"
  /\ ~ctxDone[t]
  /\ ctxDone' = [ctxDone EXCEPT ![t] = TRUE]
  /\ UNCHANGED <<taskRows, riverRows, pc, verdict, cancelPc, sweep, crashes, faults,
                 past>>

-----------------------------------------------------------------------------
(* The reconciler: a list of stale rows, then a look at River and a write    *)
(* for each, with no transaction around them.                                *)

BadStuck == {t \in stale : status[t] \in {"queued", "running"}}
Stuck == {t \in stale : status[t] \in NonFinal}

FindStuck ==
  /\ todo = {}
  /\ doomed = NoTask
  /\ Stuck # {}
  /\ todo' = Stuck
  /\ UNCHANGED <<taskRows, riverRows, worker, cancelPc, doomed, crashes, faults, past>>

BadLooksLive(t, ok) == ok /\ river[t] \in {"running", "retryable"}   \* not "available"
LooksLive(t, ok) == ok /\ river[t] \in Live

\* A failed look is taken for a dead job.
RiverJobLive(t, ok) ==
  /\ t \in todo
  /\ doomed = NoTask
  /\ todo' = todo \ {t}
  /\ doomed' = IF LooksLive(t, ok) THEN NoTask ELSE t
  /\ Call(t, ok, "misread")
  /\ UNCHANGED <<taskRows, riverRows, worker, cancelPc, crashes>>

FailStuck(t, ok) ==
  /\ doomed = t
  /\ doomed' = NoTask
  /\ IF ok THEN MarkTerminal(t, "failed")
           ELSE UNCHANGED <<status, finished, stale>>
  /\ Call(t, ok, "dropped")
  /\ UNCHANGED <<attempt, maxAttempts, origin, riverRows, worker, cancelPc, todo,
                 crashes>>

-----------------------------------------------------------------------------
(* The process dies and comes back: workers, handlers and the sweep are gone. *)

Crash ==
  /\ crashes < MaxCrashes
  /\ crashes' = crashes + 1
  /\ past' = [t \in Tasks |->
                past[t] \cup {e \in {"died"} : pc[t] # "idle"}
                        \cup {e \in {"torn"} : pc[t] = "returned"}]
  /\ pc' = [t \in Tasks |-> "idle"]
  /\ verdict' = [t \in Tasks |-> "none"]
  /\ ctxDone' = [t \in Tasks |-> FALSE]
  /\ cancelPc' = [t \in Tasks |-> "idle"]
  /\ todo' = {}
  /\ doomed' = NoTask
  /\ UNCHANGED <<taskRows, riverRows, faults>>

\* Every task id is used up and cleared: the bounded model has nothing to do.
Rest ==
  /\ \A t \in Tasks : status[t] = "deleted" /\ river[t] \in Dead
  /\ UNCHANGED vars

WorkerStep(t) ==
  \/ \E ok \in BOOLEAN : StartRun(t, ok) \/ Judge(t, ok) \/ WriteVerdict(t, ok)
  \/ Register(t)
  \/ BodyReturnsNil(t) \/ BodyReturnsError(t)

CancelStep(t) == SignalWorker(t) \/ \E ok \in BOOLEAN : CancelInRiver(t, ok)

SweepStep ==
  \/ FindStuck
  \/ \E t \in Tasks, ok \in BOOLEAN : RiverJobLive(t, ok) \/ FailStuck(t, ok)

Next ==
  \/ \E t \in Tasks, asked \in AskedAttempts : Enqueue(t, asked)
  \/ \E s, t \in Tasks : RetryTask(s, t)
  \/ \E S \in SUBSET Tasks : ClearFinished(S)
  \/ \E t \in Tasks :
       \/ Age(t) \/ Progress(t)
       \/ Fetch(t) \/ WorkerStep(t) \/ RiverFinish(t) \/ Rescue(t)
       \/ RequestCancel(t) \/ CancelStep(t) \/ RiverNotify(t)
  \/ SweepStep
  \/ Crash
  \/ Rest

Spec == Init /\ [][Next]_vars

(***************************************************************************)
(* Fairness.  River's workers poll, every attempt has a timeout, River      *)
(* retries its own bookkeeping and rescues, a handler runs to its end, time *)
(* passes and the sweep ticks once a minute.  Nothing obliges a client to   *)
(* enqueue, cancel, retry or clear.                                         *)
(***************************************************************************)
Fairness ==
  /\ \A t \in Tasks :
       /\ WF_vars(Fetch(t)) /\ WF_vars(WorkerStep(t)) /\ WF_vars(RiverFinish(t))
       /\ WF_vars(Rescue(t)) /\ WF_vars(CancelStep(t)) /\ WF_vars(Age(t))
       /\ WF_vars(\E ok \in BOOLEAN : RiverJobLive(t, ok))
       /\ WF_vars(\E ok \in BOOLEAN : FailStuck(t, ok))
  /\ WF_vars(FindStuck)

FairSpec == Spec /\ Fairness

-----------------------------------------------------------------------------
(* Properties.                                                               *)

\* Every variable has its type.
TypeOK ==
  /\ status \in [Tasks -> Final \cup NonFinal \cup Gone]
  /\ finished \in [Tasks -> BOOLEAN]
  /\ attempt \in [Tasks -> Nat]
  /\ maxAttempts \in [Tasks -> Nat \ {0}]
  /\ origin \in [Tasks -> Tasks \cup {NoTask}]
  /\ stale \subseteq Tasks
  /\ river \in [Tasks -> Live \cup Dead \cup {"none"}]
  /\ tries \in [Tasks -> Nat]
  /\ cancelAsked \in [Tasks -> BOOLEAN]
  /\ pc \in [Tasks -> Pcs]
  /\ verdict \in [Tasks -> Final \cup {"retrying", "none"}]
  /\ ctxDone \in [Tasks -> BOOLEAN]
  /\ cancelPc \in [Tasks -> {"idle", "flagged", "signalled"}]
  /\ todo \subseteq Tasks
  /\ doomed \in Tasks \cup {NoTask}
  /\ crashes \in 0..MaxCrashes
  /\ faults \in 0..MaxFaults
  /\ past \in [Tasks -> SUBSET Events]

\* A task a client sees finished (or that was cleared from the list) has no job
\* River will still run, unless a worker died between its last write and River's,
\* or the reconciler took a failed look at River for a dead job.  ("returned" is
\* the moment between the worker's last write and River recording it.)
FinishedMeansDone ==
  \A t \in Tasks :
    status[t] \in Final \cup {"deleted"} /\ past[t] \cap {"torn", "misread"} = {}
      => river[t] \notin Live \/ pc[t] = "returned"

\* What the reconciler exists for: a task is left unfinished with its job over
\* only if a worker died, a write was lost, or someone asked for a cancel.  The
\* everyday path never needs the backstop.
StuckHasCause ==
  \A t \in Tasks :
    status[t] \in NonFinal /\ river[t] \notin Live
      => past[t] \cap {"died", "dropped", "cancel"} # {}

\* Once Cancel has got through to River no further attempt starts, whatever
\* MarkRunning and the retry path write over the row in the meantime.
CancelSticks ==
  \A t \in Tasks : "answered" \in past[t] => river[t] \notin {"available", "retryable"}

\* No job is executed more often than its cap, through crashes and rescues.
AttemptsCapped ==
  \A t \in Tasks : attempt[t] <= tries[t] /\ tries[t] <= maxAttempts[t]

\* A finished task changes again only by being cleared, by the reconciler's
\* verdict, or because one of FinishedMeansDone's two exceptions happened.
FinalIsFinal ==
  [][\A t \in Tasks :
       status[t] \in Final /\ past[t] \cap {"torn", "misread"} = {}
         => \/ status'[t] \in {status[t], "deleted"}
            \/ doomed = t /\ status'[t] = "failed"]_vars

\* A queued, running, retrying or cancelling task is eventually finished.
Settles == \A t \in Tasks : status[t] \in NonFinal ~> status[t] \notin NonFinal

-----------------------------------------------------------------------------
(* The promise to the client, and how this system keeps it.                  *)

PhaseOf(s) == IF s \in Final THEN "settled"
              ELSE IF s = "none" THEN "none"
              ELSE IF s = "deleted" THEN "cleared" ELSE "open"

LooseTasks   == {t \in Tasks : past[t] \cap {"torn", "misread"} # {}}
StoppedTasks == {t \in Tasks : "answered" \in past[t]}

Promise == INSTANCE TaskLifecycle WITH
             phase <- [t \in Tasks |-> PhaseOf(status[t])],
             cap <- maxAttempts, runs <- tries,
             stopped <- StoppedTasks, loose <- LooseTasks

\* Queue, workers, cancel handler, sweep and crashes together implement the life of a
\* task: it settles once, is attempted only while it is open and not stopped and within
\* its cap, and is taken up again only when the process had lost hold of it.
KeepsPromise == Promise!Spec

-----------------------------------------------------------------------------
(* What the code's comments and documents say, and the code does not do.     *)

\* service.go: the reconciler fails tasks after "a hard crash the worker could
\* not write itself" - so without a crash or a lost call it fails nobody.
ReconcilerOnlyAfterCrash ==
  [][\A t \in Tasks :
       doomed = t /\ status'[t] = "failed" /\ status[t] # "failed"
         => past[t] \cap {"died", "dropped", "misread"} # {}]_vars

\* service.go: the reconciler "only ever corrects, never leads" - it does not
\* overwrite what a worker recorded as the outcome.
ReconcilerOnlyCorrects ==
  [][\A t \in Tasks :
       doomed = t /\ status[t] = "completed" => status'[t] # "failed"]_vars

\* docs/JOB_PROCESSOR.md: a cancelled item loop "returns promptly, committing
\* already-processed items and setting `cancelled`" - an attempt that fails with
\* its context cancelled by a cancel request settles on that status.
CancelledWorkerSaysCancelled ==
  [][\A t \in Tasks :
       pc[t] = "erred" /\ pc'[t] = "writing" /\ ctxDone[t]
         => verdict'[t] = "cancelled"]_vars

\* store.go: "finished_at is stamped only for truly terminal states".
FinishedAtOnlyWhenFinal ==
  \A t \in Tasks : finished[t] => status[t] \in Final \cup {"deleted"}

\* tasks.go: RetryTask "enqueues a fresh job from a finished task's arguments".
RetriesFinishedTask ==
  [][\A t \in Tasks :
       origin'[t] # origin[t] => status[origin'[t]] \in Final]_vars
=============================================================================
