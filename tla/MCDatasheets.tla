---------------------------- MODULE MCDatasheets ----------------------------
\* Datasheets on small instances.
EXTENDS Datasheets, FiniteSets, TLC

\* Every content is readable, or none is.
AllText == [s \in Shas |-> "ok"]
Scans   == [s \in Shas |-> "no_text_layer"]

\* Neither ids nor requests nor workers are told apart by anything but their state.
Symmetry == Permutations(Ids) \cup Permutations(Procs) \cup Permutations(Workers)

\* One run looks at two families of instances: three requests while nothing is
\* being extracted, and two requests while something is.
Idling == \A w \in Workers : worker[w] = Idle
Begun  == {p \in Procs : proc[p].pc # "idle"}

StoringOrReading == Idling \/ Cardinality(Begun) <= 2
=============================================================================
