CONSTANTS
    Shas = {s1}
    Content <- AllText
    Ids = {i1, i2}
    Procs = {p1, p2, p3}
    Workers = {w1}
    NoSha = NoSha
    NoId = NoId
    MaxCrashes = 1
    MaxFaults = 1
    MaxJobs = 1
SPECIFICATION Spec
CONSTRAINT StoringOrReading
SYMMETRY Symmetry
INVARIANTS NoTornFile OneRowPerContent FilePresent PendingHasCause
PROPERTY PersonsTitleStays
\* Requests are served once.
CHECK_DEADLOCK FALSE
