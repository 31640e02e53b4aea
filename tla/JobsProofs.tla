----------------------------- MODULE JobsProofs -----------------------------
(* The safety properties of Jobs, for any set of tasks, any attempt caps and *)
(* any number of crashes and lost calls.                                     *)
EXTENDS Jobs, TLAPS

-----------------------------------------------------------------------------
(* The inductive invariant, in parts, each about one task.                   *)

\* A task that was never enqueued is untouched, and only such a task has no job.
Untouched(t) ==
  /\ status[t] = "none" <=> river[t] = "none"
  /\ status[t] = "none" => past[t] = {} /\ tries[t] = 0 /\ attempt[t] = 0
  /\ t \in todo \/ doomed = t => status[t] # "none"

\* A worker executes a running job; a running job without one lost it to a crash.
OneWorker(t) ==
  /\ pc[t] # "idle" => river[t] = "running"
  /\ river[t] = "running" /\ pc[t] = "idle" => "died" \in past[t]

\* Attempts are counted up to the cap, and the verdict agrees with the count.
Counted(t) ==
  /\ attempt[t] <= tries[t]
  /\ tries[t] <= maxAttempts[t]
  /\ river[t] \in {"available", "retryable"} => tries[t] < maxAttempts[t]
  /\ pc[t] \in {"writing", "returned"} => verdict[t] # "none"
  /\ verdict[t] = "retrying" => tries[t] < maxAttempts[t]
  /\ verdict[t] = "failed" => tries[t] = maxAttempts[t]
  /\ verdict[t] # "none" => pc[t] \in {"writing", "returned"}

\* A cancel River knows of was requested, and leaves no attempt to start.
CancelKept(t) ==
  /\ cancelAsked[t] => river[t] \notin {"available", "retryable"}
  /\ cancelAsked[t] => "cancel" \in past[t]
  /\ cancelPc[t] # "idle" => "cancel" \in past[t]
  /\ "answered" \in past[t] => cancelAsked[t] \/ river[t] \in Dead

\* FinishedMeansDone, with what the worker in between is about to report.
DoneKept(t) ==
  past[t] \cap {"torn", "misread"} = {} =>
    /\ status[t] \in Final \cup {"deleted"} =>
         \/ river[t] \in Dead
         \/ pc[t] = "returned" /\ verdict[t] # "retrying"
    /\ doomed = t => river[t] \in Dead

\* StuckHasCause, with what River will make of the attempt that just returned.
CauseKept(t) ==
  past[t] \cap {"died", "dropped", "cancel"} = {} =>
    /\ status[t] \in NonFinal => river[t] \in Live
    /\ status[t] \in NonFinal /\ pc[t] = "returned" => verdict[t] = "retrying"

TaskInv(t) ==
  /\ Untouched(t)
  /\ OneWorker(t)
  /\ Counted(t)
  /\ CancelKept(t)
  /\ DoneKept(t)
  /\ CauseKept(t)

Inv == TypeOK /\ \A t \in Tasks : TaskInv(t)

-----------------------------------------------------------------------------
(* Type correctness.                                                         *)

\* Every step of the system keeps every variable in its type.
LEMMA TypeStep == TypeOK /\ [Next]_vars => TypeOK'
<1> SUFFICES ASSUME TypeOK, [Next]_vars PROVE TypeOK'
  OBVIOUS
<1>1. ASSUME NEW t \in Tasks, NEW asked \in AskedAttempts, Enqueue(t, asked) PROVE TypeOK'
  BY <1>1, AttemptsAssumption DEF TypeOK, Enqueue, Insert, Attempts, vars, taskRows,
     riverRows, worker, sweep, Final, NonFinal, Gone, Live, Dead, Pcs,
     Events
<1>2. ASSUME NEW s \in Tasks, NEW t \in Tasks, RetryTask(s, t) PROVE TypeOK'
  BY <1>2, AttemptsAssumption DEF TypeOK, RetryTask, Insert, Attempts, vars,
     taskRows, riverRows, worker, sweep, Final, NonFinal, Gone, Live,
     Dead, Pcs, Events
<1>3. ASSUME NEW S \in SUBSET Tasks, ClearFinished(S) PROVE TypeOK'
  BY <1>3 DEF TypeOK, ClearFinished, Clearable, vars, taskRows, riverRows, worker,
     sweep, Final, NonFinal, Gone, Live, Dead, Pcs, Events
<1>4. ASSUME NEW t \in Tasks, Age(t) PROVE TypeOK'
  BY <1>4 DEF TypeOK, Age, vars, taskRows, riverRows, worker, sweep,
     Final, NonFinal, Gone, Live, Dead, Pcs, Events
<1>5. ASSUME NEW t \in Tasks, Progress(t) PROVE TypeOK'
  BY <1>5 DEF TypeOK, Progress, vars, taskRows, riverRows, worker, sweep,
     Final, NonFinal, Gone, Live, Dead, Pcs, Events
<1>6. ASSUME NEW t \in Tasks, Fetch(t) PROVE TypeOK'
  BY <1>6 DEF TypeOK, Fetch, vars, taskRows, riverRows, worker, sweep,
     Final, NonFinal, Gone, Live, Dead, Pcs, Events
<1>7. ASSUME NEW t \in Tasks, NEW ok \in BOOLEAN, StartRun(t, ok) PROVE TypeOK'
  BY <1>7, BudgetAssumption DEF TypeOK, StartRun, MarkRunning, AttemptNumber, Call, Note,
     vars, taskRows, riverRows, worker, sweep, Final, NonFinal, Gone,
     Live, Dead, Pcs, Events
<1>8. ASSUME NEW t \in Tasks, NEW ok \in BOOLEAN, Judge(t, ok) PROVE TypeOK'
  BY <1>8, BudgetAssumption DEF TypeOK, Judge, AfterError, IsCancelling, Call, Note,
     vars, taskRows, riverRows, worker, sweep, Final, NonFinal, Gone,
     Live, Dead, Pcs, Events
<1>9. ASSUME NEW t \in Tasks, NEW ok \in BOOLEAN, WriteVerdict(t, ok) PROVE TypeOK'
  BY <1>9, BudgetAssumption DEF TypeOK, WriteVerdict, MarkTerminal, Call,
     Note, vars, taskRows, riverRows, worker, sweep, Final, NonFinal,
     Gone, Live, Dead, Pcs, Events
<1>10. ASSUME NEW t \in Tasks, Register(t) PROVE TypeOK'
  BY <1>10 DEF TypeOK, Register, vars, taskRows, riverRows, worker, sweep,
     Final, NonFinal, Gone, Live, Dead, Pcs, Events
<1>11. ASSUME NEW t \in Tasks, BodyReturnsNil(t) PROVE TypeOK'
  BY <1>11 DEF TypeOK, BodyReturnsNil, vars, taskRows, riverRows, worker,
     sweep, Final, NonFinal, Gone, Live, Dead, Pcs, Events
<1>12. ASSUME NEW t \in Tasks, BodyReturnsError(t) PROVE TypeOK'
  BY <1>12 DEF TypeOK, BodyReturnsError, vars, taskRows, riverRows,
     worker, sweep, Final, NonFinal, Gone, Live, Dead, Pcs, Events
<1>13. ASSUME NEW t \in Tasks, RiverFinish(t) PROVE TypeOK'
  BY <1>13 DEF TypeOK, RiverFinish, Outcomes, vars, taskRows, riverRows,
     worker, sweep, Final, NonFinal, Gone, Live, Dead, Pcs, Events
<1>14. ASSUME NEW t \in Tasks, Rescue(t) PROVE TypeOK'
  BY <1>14 DEF TypeOK, Rescue, vars, taskRows, riverRows, worker, sweep,
     Final, NonFinal, Gone, Live, Dead, Pcs, Events
<1>15. ASSUME NEW t \in Tasks, RequestCancel(t) PROVE TypeOK'
  BY <1>15 DEF TypeOK, RequestCancel, Cancellable, Note, vars, taskRows, riverRows,
     worker, sweep, Final, NonFinal, Gone, Live, Dead, Pcs, Events
<1>16. ASSUME NEW t \in Tasks, SignalWorker(t) PROVE TypeOK'
  BY <1>16 DEF TypeOK, SignalWorker, Registered, vars, taskRows,
     riverRows, worker, sweep, Final, NonFinal, Gone, Live, Dead, Pcs,
     Events
<1>17. ASSUME NEW t \in Tasks, NEW ok \in BOOLEAN, CancelInRiver(t, ok) PROVE TypeOK'
  BY <1>17, BudgetAssumption DEF TypeOK, CancelInRiver, JobCancel, Call,
     Note, vars, taskRows, riverRows, worker, sweep, Final, NonFinal,
     Gone, Live, Dead, Pcs, Events
<1>18. ASSUME NEW t \in Tasks, RiverNotify(t) PROVE TypeOK'
  BY <1>18 DEF TypeOK, RiverNotify, vars, taskRows, riverRows, worker,
     sweep, Final, NonFinal, Gone, Live, Dead, Pcs, Events
<1>19. ASSUME FindStuck PROVE TypeOK'
  BY <1>19 DEF TypeOK, FindStuck, Stuck, vars, taskRows, riverRows,
     worker, sweep, Final, NonFinal, Gone, Live, Dead, Pcs, Events
<1>20. ASSUME NEW t \in Tasks, NEW ok \in BOOLEAN, RiverJobLive(t, ok) PROVE TypeOK'
  BY <1>20, BudgetAssumption DEF TypeOK, RiverJobLive, LooksLive, Call, Note, vars,
     taskRows, riverRows, worker, sweep, Final, NonFinal, Gone, Live,
     Dead, Pcs, Events
<1>21. ASSUME NEW t \in Tasks, NEW ok \in BOOLEAN, FailStuck(t, ok) PROVE TypeOK'
  BY <1>21, BudgetAssumption DEF TypeOK, FailStuck, MarkTerminal, Call,
     Note, vars, taskRows, riverRows, worker, sweep, Final, NonFinal,
     Gone, Live, Dead, Pcs, Events
<1>22. ASSUME Crash PROVE TypeOK'
  BY <1>22, BudgetAssumption DEF TypeOK, Crash, vars, taskRows, riverRows,
     worker, sweep, Final, NonFinal, Gone, Live, Dead, Pcs, Events
<1>23. ASSUME Rest PROVE TypeOK'
  BY <1>23 DEF TypeOK, Rest, vars, taskRows, riverRows, worker, sweep,
     Final, NonFinal, Gone, Live, Dead, Pcs, Events
<1>24. CASE UNCHANGED vars
  BY <1>24 DEF TypeOK, vars, taskRows, riverRows, worker, sweep
<1> QED
  BY <1>1, <1>2, <1>3, <1>4, <1>5, <1>6, <1>7, <1>8, <1>9, <1>10, <1>11,
     <1>12, <1>13, <1>14, <1>15, <1>16, <1>17, <1>18, <1>19, <1>20, <1>21,
     <1>22, <1>23, <1>24 DEF Next, WorkerStep, CancelStep, SweepStep

\* The initial state is well typed.
LEMMA TypeInit == Init => TypeOK
BY BudgetAssumption DEF Init, TypeOK, Final, NonFinal, Gone, Live, Dead, Pcs, Events

\* Every variable always has its type, for every choice of the constants.
THEOREM TypeCorrect == Spec => []TypeOK
BY TypeInit, TypeStep, PTL DEF Spec

-----------------------------------------------------------------------------
(* The invariant is inductive.                                               *)

\* Every step preserves the inductive invariant of every task.
LEMMA InvStep == Inv /\ [Next]_vars => (\A u \in Tasks : TaskInv(u))'
<1> SUFFICES ASSUME Inv, [Next]_vars, NEW u \in Tasks PROVE TaskInv(u)'
  OBVIOUS
<1>a. TypeOK /\ TaskInv(u)
  BY DEF Inv
<1>b. TypeOK'
  BY <1>a, TypeStep
<1>1. ASSUME NEW t \in Tasks, NEW asked \in AskedAttempts, Enqueue(t, asked)
   PROVE TaskInv(u)'
  BY <1>a, <1>b, <1>1, NoTaskAssumption DEF TypeOK, TaskInv, Untouched,
     OneWorker, Counted, CancelKept, DoneKept, CauseKept, Enqueue, Insert, Attempts,
     taskRows, riverRows, worker, sweep, Final, NonFinal, Gone, Live,
     Dead, Pcs, Events
<1>2. ASSUME NEW s \in Tasks, NEW t \in Tasks, RetryTask(s, t) PROVE
   TaskInv(u)'
  BY <1>a, <1>b, <1>2, NoTaskAssumption DEF TypeOK, TaskInv, Untouched,
     OneWorker, Counted, CancelKept, DoneKept, CauseKept, RetryTask,
     Insert, Attempts, taskRows, riverRows, worker, sweep, Final, NonFinal, Gone,
     Live, Dead, Pcs, Events
<1>3. ASSUME NEW S \in SUBSET Tasks, ClearFinished(S) PROVE TaskInv(u)'
  BY <1>a, <1>b, <1>3, NoTaskAssumption DEF TypeOK, TaskInv, Untouched,
     OneWorker, Counted, CancelKept, DoneKept, CauseKept, ClearFinished, Clearable,
     taskRows, riverRows, worker, sweep, Final, NonFinal, Gone, Live,
     Dead, Pcs, Events
<1>4. ASSUME NEW t \in Tasks, Age(t) PROVE TaskInv(u)'
  BY <1>a, <1>b, <1>4, NoTaskAssumption DEF TypeOK, TaskInv, Untouched,
     OneWorker, Counted, CancelKept, DoneKept, CauseKept, Age, taskRows,
     riverRows, worker, sweep, Final, NonFinal, Gone, Live, Dead, Pcs,
     Events
<1>5. ASSUME NEW t \in Tasks, Progress(t) PROVE TaskInv(u)'
  BY <1>a, <1>b, <1>5, NoTaskAssumption DEF TypeOK, TaskInv, Untouched,
     OneWorker, Counted, CancelKept, DoneKept, CauseKept, Progress,
     taskRows, riverRows, worker, sweep, Final, NonFinal, Gone, Live,
     Dead, Pcs, Events
<1>6. ASSUME NEW t \in Tasks, Fetch(t) PROVE TaskInv(u)'
  BY <1>a, <1>b, <1>6, NoTaskAssumption DEF TypeOK, TaskInv, Untouched,
     OneWorker, Counted, CancelKept, DoneKept, CauseKept, Fetch, taskRows,
     riverRows, worker, sweep, Final, NonFinal, Gone, Live, Dead, Pcs,
     Events
<1>7. ASSUME NEW t \in Tasks, NEW ok \in BOOLEAN, StartRun(t, ok) PROVE
   TaskInv(u)'
  BY <1>a, <1>b, <1>7, NoTaskAssumption DEF TypeOK, TaskInv, Untouched,
     OneWorker, Counted, CancelKept, DoneKept, CauseKept, StartRun,
     MarkRunning, AttemptNumber, Call, Note, taskRows, riverRows, worker, sweep, Final,
     NonFinal, Gone, Live, Dead, Pcs, Events
<1>8. ASSUME NEW t \in Tasks, NEW ok \in BOOLEAN, Judge(t, ok) PROVE
   TaskInv(u)'
  BY <1>a, <1>b, <1>8, NoTaskAssumption DEF TypeOK, TaskInv, Untouched,
     OneWorker, Counted, CancelKept, DoneKept, CauseKept, Judge, AfterError,
     IsCancelling, Call, Note, taskRows, riverRows, worker, sweep, Final,
     NonFinal, Gone, Live, Dead, Pcs, Events
<1>9. ASSUME NEW t \in Tasks, NEW ok \in BOOLEAN, WriteVerdict(t, ok) PROVE
   TaskInv(u)'
  <2>1. CASE u = t /\ ok
    <3>1. status' = [status EXCEPT ![t] = IF status[t] = "deleted"
                                            THEN "deleted" ELSE verdict[t]]
      BY <1>a, <1>9, <2>1 DEF WriteVerdict, MarkTerminal, TypeOK
    <3>2. pc[t] = "writing" /\ river[t] = "running" /\ pc'[t] = "returned"
      BY <1>a, <1>9, <2>1 DEF WriteVerdict, TypeOK, TaskInv, OneWorker
    <3>3. UNCHANGED <<attempt, maxAttempts, river, tries, cancelAsked, verdict,
                      cancelPc, todo, doomed, past>>
      BY <1>9, <2>1 DEF WriteVerdict, Call, riverRows, sweep
    <3> QED
      BY <1>a, <2>1, <3>1, <3>2, <3>3 DEF TypeOK, TaskInv, Untouched, OneWorker,
         Counted, CancelKept, DoneKept, CauseKept, Final, NonFinal, Gone, Live,
         Dead, Pcs, Events
  <2>2. CASE u = t /\ ~ok
    BY <1>a, <1>9, <2>2 DEF TypeOK, TaskInv, Untouched, OneWorker, Counted,
       CancelKept, DoneKept, CauseKept, WriteVerdict, Call, Note, riverRows, sweep,
       Final, NonFinal, Gone, Live, Dead, Pcs, Events
  <2>3. CASE u # t
    BY <1>a, <1>9, <2>3 DEF TypeOK, TaskInv, Untouched, OneWorker, Counted,
       CancelKept, DoneKept, CauseKept, WriteVerdict, MarkTerminal, Call, Note,
       riverRows, sweep
  <2> QED
    BY <2>1, <2>2, <2>3
<1>10. ASSUME NEW t \in Tasks, Register(t) PROVE TaskInv(u)'
  BY <1>a, <1>b, <1>10, NoTaskAssumption DEF TypeOK, TaskInv, Untouched,
     OneWorker, Counted, CancelKept, DoneKept, CauseKept, Register,
     taskRows, riverRows, worker, sweep, Final, NonFinal, Gone, Live,
     Dead, Pcs, Events
<1>11. ASSUME NEW t \in Tasks, BodyReturnsNil(t) PROVE TaskInv(u)'
  BY <1>a, <1>b, <1>11, NoTaskAssumption DEF TypeOK, TaskInv, Untouched,
     OneWorker, Counted, CancelKept, DoneKept, CauseKept, BodyReturnsNil,
     taskRows, riverRows, worker, sweep, Final, NonFinal, Gone, Live,
     Dead, Pcs, Events
<1>12. ASSUME NEW t \in Tasks, BodyReturnsError(t) PROVE TaskInv(u)'
  BY <1>a, <1>b, <1>12, NoTaskAssumption DEF TypeOK, TaskInv, Untouched,
     OneWorker, Counted, CancelKept, DoneKept, CauseKept,
     BodyReturnsError, taskRows, riverRows, worker, sweep, Final,
     NonFinal, Gone, Live, Dead, Pcs, Events
<1>13. ASSUME NEW t \in Tasks, RiverFinish(t) PROVE TaskInv(u)'
  BY <1>a, <1>b, <1>13, NoTaskAssumption DEF TypeOK, TaskInv, Untouched,
     OneWorker, Counted, CancelKept, DoneKept, CauseKept, RiverFinish,
     Outcomes, taskRows, riverRows, worker, sweep, Final, NonFinal, Gone,
     Live, Dead, Pcs, Events
<1>14. ASSUME NEW t \in Tasks, Rescue(t) PROVE TaskInv(u)'
  BY <1>a, <1>b, <1>14, NoTaskAssumption DEF TypeOK, TaskInv, Untouched,
     OneWorker, Counted, CancelKept, DoneKept, CauseKept, Rescue,
     taskRows, riverRows, worker, sweep, Final, NonFinal, Gone, Live,
     Dead, Pcs, Events
<1>15. ASSUME NEW t \in Tasks, RequestCancel(t) PROVE TaskInv(u)'
  BY <1>a, <1>b, <1>15, NoTaskAssumption DEF TypeOK, TaskInv, Untouched,
     OneWorker, Counted, CancelKept, DoneKept, CauseKept, RequestCancel, Cancellable,
     Note, taskRows, riverRows, worker, sweep, Final, NonFinal, Gone,
     Live, Dead, Pcs, Events
<1>16. ASSUME NEW t \in Tasks, SignalWorker(t) PROVE TaskInv(u)'
  BY <1>a, <1>b, <1>16, NoTaskAssumption DEF TypeOK, TaskInv, Untouched,
     OneWorker, Counted, CancelKept, DoneKept, CauseKept, SignalWorker,
     Registered, taskRows, riverRows, worker, sweep, Final, NonFinal,
     Gone, Live, Dead, Pcs, Events
<1>17. ASSUME NEW t \in Tasks, NEW ok \in BOOLEAN, CancelInRiver(t, ok)
   PROVE TaskInv(u)'
  BY <1>a, <1>b, <1>17, NoTaskAssumption DEF TypeOK, TaskInv, Untouched,
     OneWorker, Counted, CancelKept, DoneKept, CauseKept, CancelInRiver,
     JobCancel, Call, Note, taskRows, riverRows, worker, sweep, Final,
     NonFinal, Gone, Live, Dead, Pcs, Events
<1>18. ASSUME NEW t \in Tasks, RiverNotify(t) PROVE TaskInv(u)'
  BY <1>a, <1>b, <1>18, NoTaskAssumption DEF TypeOK, TaskInv, Untouched,
     OneWorker, Counted, CancelKept, DoneKept, CauseKept, RiverNotify,
     taskRows, riverRows, worker, sweep, Final, NonFinal, Gone, Live,
     Dead, Pcs, Events
<1>19. ASSUME FindStuck PROVE TaskInv(u)'
  BY <1>a, <1>b, <1>19, NoTaskAssumption DEF TypeOK, TaskInv, Untouched,
     OneWorker, Counted, CancelKept, DoneKept, CauseKept, FindStuck,
     Stuck, taskRows, riverRows, worker, sweep, Final, NonFinal, Gone,
     Live, Dead, Pcs, Events
<1>20. ASSUME NEW t \in Tasks, NEW ok \in BOOLEAN, RiverJobLive(t, ok) PROVE
   TaskInv(u)'
  BY <1>a, <1>b, <1>20, NoTaskAssumption DEF TypeOK, TaskInv, Untouched,
     OneWorker, Counted, CancelKept, DoneKept, CauseKept, RiverJobLive, LooksLive,
     Call, Note, taskRows, riverRows, worker, sweep, Final, NonFinal,
     Gone, Live, Dead, Pcs, Events
<1>21. ASSUME NEW t \in Tasks, NEW ok \in BOOLEAN, FailStuck(t, ok) PROVE
   TaskInv(u)'
  BY <1>a, <1>b, <1>21, NoTaskAssumption DEF TypeOK, TaskInv, Untouched,
     OneWorker, Counted, CancelKept, DoneKept, CauseKept, FailStuck,
     MarkTerminal, Call, Note, taskRows, riverRows, worker, sweep, Final,
     NonFinal, Gone, Live, Dead, Pcs, Events
<1>22. ASSUME Crash PROVE TaskInv(u)'
  <2>1. Untouched(u)'
    BY <1>a, <1>b, <1>22, NoTaskAssumption DEF TypeOK, TaskInv, Untouched,
       OneWorker, Counted, CancelKept, DoneKept, CauseKept, Crash, taskRows,
       riverRows, worker, sweep, Final, NonFinal, Gone, Live, Dead, Pcs, Events
  <2>2. OneWorker(u)'
    BY <1>a, <1>b, <1>22, NoTaskAssumption DEF TypeOK, TaskInv, Untouched,
       OneWorker, Counted, CancelKept, DoneKept, CauseKept, Crash, taskRows,
       riverRows, worker, sweep, Final, NonFinal, Gone, Live, Dead, Pcs, Events
  <2>3. Counted(u)'
    BY <1>a, <1>b, <1>22, NoTaskAssumption DEF TypeOK, TaskInv, Untouched,
       OneWorker, Counted, CancelKept, DoneKept, CauseKept, Crash, taskRows,
       riverRows, worker, sweep, Final, NonFinal, Gone, Live, Dead, Pcs, Events
  <2>4. CancelKept(u)'
    BY <1>a, <1>b, <1>22, NoTaskAssumption DEF TypeOK, TaskInv, Untouched,
       OneWorker, Counted, CancelKept, DoneKept, CauseKept, Crash, taskRows,
       riverRows, worker, sweep, Final, NonFinal, Gone, Live, Dead, Pcs, Events
  <2>5. DoneKept(u)'
    BY <1>a, <1>b, <1>22, NoTaskAssumption DEF TypeOK, TaskInv, Untouched,
       OneWorker, Counted, CancelKept, DoneKept, CauseKept, Crash, taskRows,
       riverRows, worker, sweep, Final, NonFinal, Gone, Live, Dead, Pcs, Events
  <2>6. CauseKept(u)'
    BY <1>a, <1>b, <1>22, NoTaskAssumption DEF TypeOK, TaskInv, Untouched,
       OneWorker, Counted, CancelKept, DoneKept, CauseKept, Crash, taskRows,
       riverRows, worker, sweep, Final, NonFinal, Gone, Live, Dead, Pcs, Events
  <2>7. QED
    BY <2>1, <2>2, <2>3, <2>4, <2>5, <2>6 DEF TaskInv
<1>23. ASSUME Rest PROVE TaskInv(u)'
  BY <1>a, <1>b, <1>23, NoTaskAssumption DEF TypeOK, TaskInv, Untouched,
     OneWorker, Counted, CancelKept, DoneKept, CauseKept, Rest, taskRows,
     riverRows, worker, sweep, Final, NonFinal, Gone, Live, Dead, Pcs,
     Events, vars
<1>24. CASE UNCHANGED vars
  BY <1>a, <1>24 DEF TaskInv, Untouched, OneWorker, Counted, CancelKept,
     DoneKept, CauseKept, vars, taskRows, riverRows, worker, sweep
<1> QED
  BY <1>1, <1>2, <1>3, <1>4, <1>5, <1>6, <1>7, <1>8, <1>9, <1>10, <1>11,
     <1>12, <1>13, <1>14, <1>15, <1>16, <1>17, <1>18, <1>19, <1>20, <1>21,
     <1>22, <1>23, <1>24 DEF Next, WorkerStep, CancelStep, SweepStep

\* The initial state satisfies the inductive invariant.
LEMMA InvInit == Init => Inv
<1>1. Init => TypeOK
  BY TypeInit
<1>2. Init => \A t \in Tasks : TaskInv(t)
  BY NoTaskAssumption DEF Init, TaskInv, Untouched, OneWorker, Counted, CancelKept,
     DoneKept, CauseKept, Final, NonFinal
<1> QED
  BY <1>1, <1>2 DEF Inv

\* The inductive invariant holds in every reachable state.
THEOREM Invariance == Spec => []Inv
<1>1. Inv /\ [Next]_vars => Inv'
  BY TypeStep, InvStep DEF Inv
<1> QED
  BY InvInit, <1>1, PTL DEF Spec

-----------------------------------------------------------------------------
(* What follows from it.                                                     *)

\* A task shown finished has no job left that will run, outside the two cases
\* FinishedMeansDone names.
THEOREM FinishedIsDone == Spec => []FinishedMeansDone
<1>1. Inv => FinishedMeansDone
  BY DEF Inv, TaskInv, DoneKept, FinishedMeansDone, Live, Dead
<1> QED
  BY <1>1, Invariance, PTL

\* No task is left to the reconciler without a crash, a lost call or a cancel.
THEOREM StuckIsExplained == Spec => []StuckHasCause
<1>1. Inv => StuckHasCause
  BY DEF Inv, TaskInv, CauseKept, StuckHasCause
<1> QED
  BY <1>1, Invariance, PTL

\* No attempt starts after a cancel got through to River.
THEOREM CancelIsFinal == Spec => []CancelSticks
<1>1. Inv => CancelSticks
  BY DEF Inv, TaskInv, CancelKept, CancelSticks, Dead
<1> QED
  BY <1>1, Invariance, PTL

\* No job is executed more often than its cap.
THEOREM AttemptsAreCapped == Spec => []AttemptsCapped
<1>1. Inv => AttemptsCapped
  BY DEF Inv, TaskInv, Counted, AttemptsCapped
<1> QED
  BY <1>1, Invariance, PTL

\* A finished task leaves its status only by being cleared or failed by the
\* reconciler, outside the same two cases: a worker that could write over it
\* would be executing a job FinishedIsDone says is over.
THEOREM FinalStays == Spec => FinalIsFinal
<1> DEFINE Kept == \A t \in Tasks :
                     status[t] \in Final /\ past[t] \cap {"torn", "misread"} = {}
                       => \/ status'[t] \in {status[t], "deleted"}
                          \/ doomed = t /\ status'[t] = "failed"
<1>1. Inv /\ [Next]_vars => [Kept]_vars
  <2> SUFFICES ASSUME Inv, Next, NEW u \in Tasks,
                      status[u] \in Final, past[u] \cap {"torn", "misread"} = {}
               PROVE  \/ status'[u] \in {status[u], "deleted"}
                      \/ doomed = u /\ status'[u] = "failed"
    BY DEF vars
  <2>1. TypeOK /\ pc[u] \notin {"fetched", "writing"}
    BY DEF Inv, TaskInv, OneWorker, DoneKept, Dead
  <2>2. ASSUME NEW t \in Tasks, NEW asked \in AskedAttempts, NEW s,
               Insert(t, asked, s)
        PROVE  status'[u] = status[u]
    BY <2>1, <2>2 DEF Insert, Attempts, TypeOK, Final
  <2>3. ASSUME NEW S \in SUBSET Tasks, ClearFinished(S)
        PROVE  status'[u] \in {status[u], "deleted"}
    BY <2>3 DEF ClearFinished, Clearable
  <2>4. ASSUME NEW t \in Tasks, NEW ok \in BOOLEAN,
               StartRun(t, ok) \/ WriteVerdict(t, ok)
        PROVE  status'[u] = status[u]
    BY <2>1, <2>4 DEF StartRun, MarkRunning, AttemptNumber, WriteVerdict, MarkTerminal, TypeOK
  <2>5. ASSUME NEW t \in Tasks, RequestCancel(t)
        PROVE  status'[u] = status[u]
    BY <2>1, <2>5 DEF RequestCancel, Cancellable, TypeOK, Final
  <2>6. ASSUME NEW t \in Tasks, NEW ok \in BOOLEAN, FailStuck(t, ok)
        PROVE  \/ status'[u] = status[u]
               \/ doomed = u /\ status'[u] = "failed"
    BY <2>1, <2>6 DEF FailStuck, MarkTerminal, TypeOK
  <2>7. ASSUME NEW t \in Tasks, NEW ok \in BOOLEAN,
               \/ Age(t) \/ Progress(t) \/ Fetch(t) \/ Judge(t, ok)
               \/ Register(t) \/ BodyReturnsNil(t) \/ BodyReturnsError(t)
               \/ RiverFinish(t) \/ Rescue(t) \/ SignalWorker(t)
               \/ CancelInRiver(t, ok) \/ RiverNotify(t) \/ RiverJobLive(t, ok)
        PROVE  status' = status
    BY <2>7 DEF Age, Progress, Fetch, Judge, AfterError, Register, BodyReturnsNil,
       BodyReturnsError, RiverFinish, Rescue, SignalWorker, CancelInRiver,
       RiverNotify, RiverJobLive, LooksLive, taskRows
  <2>8. FindStuck \/ Crash \/ Rest => status' = status
    BY DEF FindStuck, Crash, Rest, vars, taskRows
  <2> QED
    BY <2>2, <2>3, <2>4, <2>5, <2>6, <2>7, <2>8
    DEF Next, Enqueue, RetryTask, WorkerStep, CancelStep, SweepStep
<1> QED
  BY <1>1, Invariance, PTL DEF Spec, FinalIsFinal
-----------------------------------------------------------------------------
(* The system implements TaskLifecycle.                                      *)

PromiseVars == <<[t \in Tasks |-> PhaseOf(status[t])], maxAttempts, tries, StoppedTasks, LooseTasks>>

\* The initial state is one of the abstract specification.
LEMMA PromiseInit == Init => Promise!Init
BY DEF Init, Promise!Init, PhaseOf, Final, StoppedTasks, LooseTasks

\* A step that leaves status, caps, attempts and history alone does nothing abstractly.
LEMMA Stutter == UNCHANGED <<status, maxAttempts, tries, past>> => UNCHANGED Promise!vars
BY DEF Promise!vars, PhaseOf, StoppedTasks, LooseTasks

\* A step that only takes one task from one phase to another: what of the abstract step
\* is about the phase.
LEMMA PhaseStep ==
  ASSUME TypeOK, NEW t \in Tasks, NEW s \in Final \cup NonFinal \cup Gone,
         status' = [status EXCEPT ![t] = s]
  PROVE  [u \in Tasks |-> PhaseOf(status'[u])]
           = [[u \in Tasks |-> PhaseOf(status[u])] EXCEPT ![t] = PhaseOf(s)]
BY DEF TypeOK

\* A note that is neither "answered" nor a loss of hold says nothing abstractly.
LEMMA NoteKeeps ==
  ASSUME TypeOK, NEW t \in Tasks, NEW e \in {"cancel", "dropped"}, Note(t, e)
  PROVE  UNCHANGED <<StoppedTasks, LooseTasks>>
BY DEF TypeOK, Note, StoppedTasks, LooseTasks

\* The same of a call that worked or whose error was dropped.
LEMMA CallKeeps ==
  ASSUME TypeOK, NEW t \in Tasks, NEW ok \in BOOLEAN, Call(t, ok, "dropped")
  PROVE  UNCHANGED <<StoppedTasks, LooseTasks>>
BY NoteKeeps DEF Call, StoppedTasks, LooseTasks

\* A write to the status of an existing task is, abstractly, nothing, its settling, or
\* (once hold of it was lost) its reopening.
LEMMA StatusWrite ==
  ASSUME TypeOK, NEW t \in Tasks, NEW s \in Final \cup NonFinal,
         status[t] \notin Gone,
         status[t] \in Final /\ s \in NonFinal => t \in LooseTasks,
         status' = [status EXCEPT ![t] = s],
         UNCHANGED <<maxAttempts, tries, StoppedTasks, LooseTasks>>
  PROVE  Promise!Next \/ UNCHANGED Promise!vars
<1> DEFINE before == [u \in Tasks |-> PhaseOf(status[u])]
           after  == [u \in Tasks |-> PhaseOf(status'[u])]
<1>1. after = [before EXCEPT ![t] = PhaseOf(s)]
  BY PhaseStep
<1>2. before[t] = PhaseOf(status[t])
  OBVIOUS
<1>3. before \in [Tasks -> {"none", "open", "settled", "cleared"}]
  BY DEF PhaseOf
<1>4. CASE status[t] \in NonFinal /\ s \in Final
  <2>1. before[t] = "open" /\ PhaseOf(s) = "settled"
    BY <1>2, <1>4 DEF PhaseOf, Final, NonFinal
  <2>2. Promise!Settle(t)
    BY <1>1, <2>1 DEF Promise!Settle
  <2> QED
    BY <2>2 DEF Promise!Next
<1>5. CASE status[t] \in Final /\ s \in NonFinal
  <2>1. before[t] = "settled" /\ PhaseOf(s) = "open"
    BY <1>2, <1>5 DEF PhaseOf, Final, NonFinal
  <2>2. Promise!Reopen(t)
    BY <1>1, <1>5, <2>1 DEF Promise!Reopen
  <2> QED
    BY <2>2 DEF Promise!Next
<1>6. CASE (status[t] \in Final <=> s \in Final)
  <2>1. before[t] = PhaseOf(s)
    BY <1>2, <1>6 DEF TypeOK, PhaseOf, Final, NonFinal, Gone
  <2>2. after = before
    BY <1>1, <1>3, <2>1
  <2> QED
    BY <2>2 DEF Promise!vars
<1> QED
  BY <1>4, <1>5, <1>6 DEF TypeOK, Final, NonFinal, Gone
\* Every step of the system is a step of the abstract specification, or none.
LEMMA PromiseStep == Inv /\ [Next]_vars => Promise!Next \/ UNCHANGED Promise!vars
<1> DEFINE Goal == Promise!Next \/ UNCHANGED Promise!vars
<1> SUFFICES ASSUME Inv, [Next]_vars PROVE Goal
  OBVIOUS
<1>a. TypeOK /\ \A t \in Tasks : TaskInv(t)
  BY DEF Inv
<1>1. ASSUME NEW t \in Tasks, NEW asked \in AskedAttempts, NEW s, Insert(t, asked, s)
      PROVE  Goal
  <2>1. /\ [u \in Tasks |-> PhaseOf(status'[u])]
             = [[u \in Tasks |-> PhaseOf(status[u])] EXCEPT ![t] = "open"]
        /\ PhaseOf(status[t]) = "none"
    BY <1>a, <1>1 DEF Insert, TypeOK, PhaseOf, Final
  <2>2. Attempts(asked) \in Nat \ {0}
    BY AttemptsAssumption DEF Attempts
  <2>3. maxAttempts' = [maxAttempts EXCEPT ![t] = Attempts(asked)]
    BY <1>1 DEF Insert
  <2>4. /\ maxAttempts' = [maxAttempts EXCEPT ![t] = maxAttempts'[t]]
        /\ maxAttempts'[t] \in Nat \ {0}
    BY <1>a, <2>2, <2>3 DEF TypeOK
  <2>5. UNCHANGED <<tries, StoppedTasks, LooseTasks>>
    BY <1>1 DEF Insert, StoppedTasks, LooseTasks
  <2>6. Promise!Submit(t)
    BY <2>1, <2>4, <2>5 DEF Promise!Submit
  <2> QED
    BY <2>6 DEF Promise!Next
<1>2. ASSUME NEW S \in SUBSET Tasks, ClearFinished(S) PROVE Goal
  <2>1. \A t \in S : PhaseOf(status[t]) = "settled"
    BY <1>2 DEF ClearFinished, Clearable, PhaseOf
  <2>2. [t \in Tasks |-> PhaseOf(status'[t])]
          = [t \in Tasks |-> IF t \in S THEN "cleared" ELSE PhaseOf(status[t])]
    BY <1>2 DEF ClearFinished, PhaseOf, Final
  <2>3. UNCHANGED <<maxAttempts, tries, StoppedTasks, LooseTasks>>
    BY <1>2 DEF ClearFinished, riverRows, StoppedTasks, LooseTasks
  <2>4. Promise!Clear(S)
    BY <2>1, <2>2, <2>3 DEF Promise!Clear
  <2> QED
    BY <2>4 DEF Promise!Next
<1>3. ASSUME NEW t \in Tasks, Fetch(t) PROVE Goal
  <2>1. /\ river[t] \in {"available", "retryable"}
        /\ tries' = [tries EXCEPT ![t] = @ + 1]
        /\ UNCHANGED <<status, maxAttempts, past>>
    BY <1>3 DEF Fetch, taskRows
  <2>2. /\ tries[t] < maxAttempts[t] /\ "answered" \notin past[t] /\ status[t] # "none"
        /\ past[t] \cap {"torn", "misread"} = {} => status[t] \notin Final \cup {"deleted"}
    BY <1>a, <1>3, <2>1 DEF Fetch, TaskInv, Untouched, Counted, CancelKept, DoneKept, Dead
  <2>3. PhaseOf(status[t]) = "open" \/ t \in LooseTasks
    BY <1>a, <2>2 DEF PhaseOf, LooseTasks
  <2>4. t \notin StoppedTasks
    BY <2>2 DEF StoppedTasks
  <2>5. UNCHANGED <<[u \in Tasks |-> PhaseOf(status[u])], maxAttempts, StoppedTasks, LooseTasks>>
    BY <2>1 DEF StoppedTasks, LooseTasks
  <2>6. Promise!Attempt(t)
    BY <2>1, <2>2, <2>3, <2>4, <2>5 DEF Promise!Attempt
  <2> QED
    BY <2>6 DEF Promise!Next
<1>4. ASSUME NEW t \in Tasks, NEW ok \in BOOLEAN, StartRun(t, ok) PROVE Goal
  <2>1. UNCHANGED <<maxAttempts, tries, StoppedTasks, LooseTasks>>
    BY <1>a, <1>4, CallKeeps DEF StartRun, riverRows
  <2>2. CASE ok /\ ~ctxDone[t] /\ status[t] # "deleted"
    <3>1. status' = [status EXCEPT ![t] = "running"]
      BY <1>4, <2>2 DEF StartRun, MarkRunning
    <3>2. status[t] # "none" /\ (status[t] \in Final => t \in LooseTasks)
      BY <1>a, <1>4 DEF StartRun, TaskInv, Untouched, OneWorker, DoneKept, LooseTasks, Dead
    <3> QED
      BY <1>a, <2>1, <2>2, <3>1, <3>2, StatusWrite DEF Gone, NonFinal
  <2>3. CASE ~(ok /\ ~ctxDone[t] /\ status[t] # "deleted")
    <3>1. UNCHANGED status
      BY <1>4, <2>3 DEF StartRun, MarkRunning
    <3> QED
      BY <2>1, <3>1 DEF Promise!vars, PhaseOf
  <2> QED
    BY <2>2, <2>3
<1>5. ASSUME NEW t \in Tasks, NEW ok \in BOOLEAN, WriteVerdict(t, ok) PROVE Goal
  <2>1. UNCHANGED <<maxAttempts, tries, StoppedTasks, LooseTasks>>
    BY <1>a, <1>5, CallKeeps DEF WriteVerdict, riverRows
  <2>2. CASE ok /\ status[t] # "deleted"
    <3>1. status' = [status EXCEPT ![t] = verdict[t]]
      BY <1>5, <2>2 DEF WriteVerdict, MarkTerminal
    <3>2. verdict[t] \in Final \cup {"retrying"}
      BY <1>a, <1>5 DEF WriteVerdict, TypeOK, TaskInv, Counted
    <3>3. status[t] # "none" /\ (status[t] \in Final => t \in LooseTasks)
      BY <1>a, <1>5 DEF WriteVerdict, TaskInv, Untouched, OneWorker, DoneKept, LooseTasks, Dead
    <3> QED
      BY <1>a, <2>1, <2>2, <3>1, <3>2, <3>3, StatusWrite DEF Gone, NonFinal
  <2>3. CASE ~(ok /\ status[t] # "deleted")
    <3>1. UNCHANGED status
      BY <1>5, <2>3 DEF WriteVerdict, MarkTerminal
    <3> QED
      BY <2>1, <3>1 DEF Promise!vars, PhaseOf
  <2> QED
    BY <2>2, <2>3
<1>6. ASSUME NEW t \in Tasks, RequestCancel(t) PROVE Goal
  <2>1. UNCHANGED <<maxAttempts, tries, StoppedTasks, LooseTasks>>
    BY <1>a, <1>6, NoteKeeps DEF RequestCancel, riverRows
  <2>2. status[t] \in NonFinal /\ status' = [status EXCEPT ![t] = "cancelling"]
    BY <1>6 DEF RequestCancel, Cancellable, NonFinal
  <2> QED
    BY <1>a, <2>1, <2>2, StatusWrite DEF Gone, NonFinal, Final
<1>7. ASSUME NEW t \in Tasks, NEW ok \in BOOLEAN, CancelInRiver(t, ok) PROVE Goal
  <2>1. UNCHANGED <<status, maxAttempts, tries>>
    BY <1>7 DEF CancelInRiver, taskRows
  <2>2. CASE ok
    <3>1. past' = [past EXCEPT ![t] = @ \cup {"answered"}]
      BY <1>7, <2>2 DEF CancelInRiver, Note
    <3>2. StoppedTasks' = StoppedTasks \cup {t} /\ LooseTasks' = LooseTasks
      BY <1>a, <3>1 DEF TypeOK, StoppedTasks, LooseTasks
    <3>3. Promise!Stop(t)
      BY <2>1, <3>2 DEF Promise!Stop
    <3> QED
      BY <3>3 DEF Promise!Next
  <2>3. CASE ~ok
    <3>1. UNCHANGED <<StoppedTasks, LooseTasks>>
      BY <1>a, <1>7, <2>3, CallKeeps DEF CancelInRiver
    <3> QED
      BY <2>1, <3>1 DEF Promise!vars
  <2> QED
    BY <2>2, <2>3
<1>8. ASSUME NEW t \in Tasks, NEW ok \in BOOLEAN, RiverJobLive(t, ok) PROVE Goal
  <2>1. UNCHANGED <<status, maxAttempts, tries>>
    BY <1>8 DEF RiverJobLive, taskRows, riverRows
  <2>2. CASE ok
    BY <1>8, <2>1, <2>2, Stutter DEF RiverJobLive, Call
  <2>3. CASE ~ok
    <3>1. past' = [past EXCEPT ![t] = @ \cup {"misread"}]
      BY <1>8, <2>3 DEF RiverJobLive, Call, Note
    <3>2. StoppedTasks' = StoppedTasks /\ LooseTasks' = LooseTasks \cup {t}
      BY <1>a, <3>1 DEF TypeOK, StoppedTasks, LooseTasks
    <3>3. Promise!Lose({t})
      BY <2>1, <3>2 DEF Promise!Lose
    <3> QED
      BY <3>3 DEF Promise!Next
  <2> QED
    BY <2>2, <2>3
<1>9. ASSUME NEW t \in Tasks, NEW ok \in BOOLEAN, FailStuck(t, ok) PROVE Goal
  <2>1. UNCHANGED <<maxAttempts, tries, StoppedTasks, LooseTasks>>
    BY <1>a, <1>9, CallKeeps DEF FailStuck, riverRows
  <2>2. CASE ok /\ status[t] # "deleted"
    <3>1. status' = [status EXCEPT ![t] = "failed"] /\ status[t] # "none"
      BY <1>a, <1>9, <2>2 DEF FailStuck, MarkTerminal, TaskInv, Untouched
    <3> QED
      BY <1>a, <2>1, <2>2, <3>1, StatusWrite DEF Gone, NonFinal, Final
  <2>3. CASE ~(ok /\ status[t] # "deleted")
    <3>1. UNCHANGED status
      BY <1>9, <2>3 DEF FailStuck, MarkTerminal
    <3> QED
      BY <2>1, <3>1 DEF Promise!vars, PhaseOf
  <2> QED
    BY <2>2, <2>3
<1>10. ASSUME Crash PROVE Goal
  <2> DEFINE torn == {t \in Tasks : pc[t] = "returned"}
  <2>1. UNCHANGED <<status, maxAttempts, tries>>
    BY <1>10 DEF Crash, taskRows, riverRows
  <2>2. StoppedTasks' = StoppedTasks /\ LooseTasks' = LooseTasks \cup torn
    BY <1>10 DEF Crash, StoppedTasks, LooseTasks
  <2>3. Promise!Lose(torn)
    BY <2>1, <2>2 DEF Promise!Lose
  <2> QED
    BY <2>3 DEF Promise!Next
<1>11. ASSUME NEW t \in Tasks, NEW ok \in BOOLEAN, Judge(t, ok) PROVE Goal
  <2>1. UNCHANGED <<status, maxAttempts, tries, StoppedTasks, LooseTasks>>
    BY <1>a, <1>11, CallKeeps DEF Judge, taskRows, riverRows
  <2> QED
    BY <2>1 DEF Promise!vars, PhaseOf
<1>12. ASSUME NEW t \in Tasks,
              \/ Age(t) \/ Progress(t) \/ Register(t) \/ BodyReturnsNil(t)
              \/ BodyReturnsError(t) \/ RiverFinish(t) \/ Rescue(t)
              \/ SignalWorker(t) \/ RiverNotify(t)
       PROVE  Goal
  BY <1>12, Stutter DEF Age, Progress, Register, BodyReturnsNil, BodyReturnsError,
     RiverFinish, Rescue, SignalWorker, RiverNotify, taskRows, riverRows
<1>13. FindStuck \/ Rest \/ UNCHANGED vars => Goal
  BY Stutter DEF FindStuck, Rest, vars, taskRows, riverRows
<1> QED
  BY <1>1, <1>2, <1>3, <1>4, <1>5, <1>6, <1>7, <1>8, <1>9, <1>10, <1>11, <1>12, <1>13
  DEF Next, Enqueue, RetryTask, WorkerStep, CancelStep, SweepStep

\* The job processor implements the life of a task: whatever crashes and loses calls,
\* a client sees each task settle once and cleared only then, no attempt starts after it
\* settled or was stopped, or beyond its cap, unless the process lost hold of it.
THEOREM ImplementsPromise == Spec => KeepsPromise
<1>1. Init => Promise!Init
  BY PromiseInit
<1>2. Inv /\ [Next]_vars => [Promise!Next]_(Promise!vars)
  BY PromiseStep
<1> QED
  BY <1>1, <1>2, Invariance, PTL DEF Spec, KeepsPromise, Promise!Spec
=============================================================================
