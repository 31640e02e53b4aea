CONSTANTS
    Shas = {s1}
    Content <- AllText
    Ids = {i1, i2}
    Procs = {p1, p2, p3}
    Workers = {}
    NoSha = NoSha
    NoId = NoId
    MaxCrashes = 0
    MaxFaults = 0
    MaxJobs = 1
SPECIFICATION Spec
SYMMETRY Symmetry
INVARIANT RowHasFile
\* Requests are served once.
CHECK_DEADLOCK FALSE
