------------------------------ MODULE Sorting ------------------------------
\* What Go's sort package does with an order that leaves elements alike.
EXTENDS Naturals, Sequences, SequencesExt

\* sort.SliceStable and sort.Slice on short slices: insertion, from the left.
Insert(Less(_, _), s, x) ==
    LET n == CHOOSE n \in 0 .. Len(s) :
                 /\ \A i \in n + 1 .. Len(s) : Less(x, s[i])
                 /\ n > 0 => ~Less(x, s[n])
    IN  SubSeq(s, 1, n) \o <<x>> \o SubSeq(s, n + 1, Len(s))

StableSort(Less(_, _), s) == FoldLeft(LAMBDA acc, x : Insert(Less, acc, x), <<>>, s)
=============================================================================
