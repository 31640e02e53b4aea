----------------------------- MODULE MCProjects -----------------------------
\* Projects on small instances.
EXTENDS Projects, TLC

CONSTANTS q1, q2

Said(mpn, ipn, value) ==
    [ipn |-> ipn, mpn |-> mpn, sku |-> "", value |-> value, footprint |-> "", words |-> <<>>]

\* A line that the catalogue matches, one that only a rule can match, one whose own
\* part number wins over any rule, and one without an identity.
Known    == Said("m", "", "")
Valued   == Said("", "", "v")
Labelled == Said("m", "i", "")
Nameless == Said("", "", "")
SomeContents == {Known, Nameless}
MoreContents == {Known, Labelled}

SomeCatalogue == [names |-> [p \in {q1, q2} |-> [name |-> p, package |-> ""]],
                  ipns |-> {<<"i", q1>>}, mpns |-> {<<"m", q1>>}, skus |-> {}, tags |-> {}]
SomeFiles == {[lines |-> <<Known>>, panel |-> TRUE, iboms |-> 2],
              [lines |-> <<Nameless>>, panel |-> FALSE, iboms |-> 0]}
NoWords   == {}

Symmetry == Permutations(Procs) \cup Permutations(Boards) \cup Permutations(Lines) \cup Permutations(Assets)

\* One run looks at two families of instances: three requests about the lines of one
\* board without a failure, and two requests of any kind of which a statement may fail.
Begun  == {p \in Procs : proc[p].pc # "idle"}
Images == {a \in Assets : asset[a].state # "unused" /\ asset[a].board = NoBoard}
OneBoard == \E b \in Boards : board[b] = "unused"

CalmOrTwo == (faults = 0 /\ Images = {} /\ OneBoard) \/ Cardinality(Begun) <= 2
=============================================================================
