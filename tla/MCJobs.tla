------------------------------- MODULE MCJobs -------------------------------
\* Model values and symmetry for the runs of Jobs.
EXTENDS Jobs, TLC

TaskSymmetry == Permutations(Tasks)

\* One run looks at two families of instances: one task with everything that can
\* happen to it, and two tasks of which nothing fails and one may be cancelled.
OneTask == \A t, u \in Tasks : status[t] = "none" \/ status[u] = "none" \/ t = u
Calm ==
  /\ crashes = 0
  /\ faults = 0
  /\ \A t \in Tasks : maxAttempts[t] <= 2
  /\ Cardinality({t \in Tasks : "cancel" \in past[t]}) <= 1

OneOrCalm == OneTask \/ Calm
=============================================================================
