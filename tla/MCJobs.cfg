\* Safety. One task: up to three attempts, two crashes, two ignored errors. Two tasks
\* that share a worker and a sweep: up to two attempts, nothing fails, one cancel.
CONSTANTS
  Tasks = {t1, t2}
  NoTask = NoTask
  AskedAttempts = {0, 2, 3}
  MaxWorkers = 1
  MaxCrashes = 2
  MaxFaults = 2
SPECIFICATION Spec
CONSTRAINT OneOrCalm
SYMMETRY TaskSymmetry
INVARIANTS
  TypeOK
  FinishedMeansDone
  StuckHasCause
  CancelSticks
  AttemptsCapped
PROPERTY
  FinalIsFinal
\* With one of the two tasks left out, the system stops when the other is cleared.
CHECK_DEADLOCK FALSE
