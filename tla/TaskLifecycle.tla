--------------------------- MODULE TaskLifecycle ---------------------------
(***************************************************************************)
(* What a background task promises to the client that enqueued it, without  *)
(* queue, workers, cancel handler or sweep: a task is open until it settles *)
(* once; it is attempted only while it is open, no more often than its cap  *)
(* and never after it was stopped; only a settled task is cleared.  A task  *)
(* the process lost hold of (it died between two writes, or misread the     *)
(* queue) is loose, and may be taken up again after it settled.             *)
(***************************************************************************)
EXTENDS Naturals

CONSTANT Tasks

VARIABLES
  phase,    \* "none", "open", "settled" or "cleared"
  cap,      \* how often a task may be attempted
  runs,     \* how often it was
  stopped,  \* tasks nothing may start any more
  loose     \* tasks the process lost hold of

vars == <<phase, cap, runs, stopped, loose>>

Init ==
  /\ phase = [t \in Tasks |-> "none"]
  /\ cap = [t \in Tasks |-> 1]
  /\ runs = [t \in Tasks |-> 0]
  /\ stopped = {}
  /\ loose = {}

Submit(t) ==
  /\ phase[t] = "none"
  /\ phase' = [phase EXCEPT ![t] = "open"]
  /\ cap' = [cap EXCEPT ![t] = cap'[t]]
  /\ cap'[t] \in Nat \ {0}
  /\ UNCHANGED <<runs, stopped, loose>>

Attempt(t) ==
  /\ phase[t] = "open" \/ t \in loose
  /\ t \notin stopped
  /\ runs[t] < cap[t]
  /\ runs' = [runs EXCEPT ![t] = @ + 1]
  /\ UNCHANGED <<phase, cap, stopped, loose>>

Settle(t) ==
  /\ phase[t] = "open"
  /\ phase' = [phase EXCEPT ![t] = "settled"]
  /\ UNCHANGED <<cap, runs, stopped, loose>>

Reopen(t) ==
  /\ phase[t] = "settled"
  /\ t \in loose
  /\ phase' = [phase EXCEPT ![t] = "open"]
  /\ UNCHANGED <<cap, runs, stopped, loose>>

Clear(S) ==
  /\ \A t \in S : phase[t] = "settled"
  /\ phase' = [t \in Tasks |-> IF t \in S THEN "cleared" ELSE phase[t]]
  /\ UNCHANGED <<cap, runs, stopped, loose>>

Stop(t) ==
  /\ stopped' = stopped \cup {t}
  /\ UNCHANGED <<phase, cap, runs, loose>>

Lose(S) ==
  /\ loose' = loose \cup S
  /\ UNCHANGED <<phase, cap, runs, stopped>>

Next ==
  \/ \E t \in Tasks : Submit(t) \/ Attempt(t) \/ Settle(t) \/ Reopen(t) \/ Stop(t)
  \/ \E S \in SUBSET Tasks : Clear(S) \/ Lose(S)

Spec == Init /\ [][Next]_vars
=============================================================================
