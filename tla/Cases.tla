------------------------------- MODULE Cases -------------------------------
\* Checking pure operators: a case is the name of a question and one input of it. A
\* module that asks questions has an action per question and an invariant for its
\* answer.
VARIABLE case

NoCase == [of |-> "none"]

Init == case = NoCase

\* Ask a question of one of its inputs.
Ask(name, inputs) == /\ case = NoCase
                     /\ \E x \in inputs : case' = [of |-> name, in |-> x]

Asked(name) == case.of = name
=============================================================================
