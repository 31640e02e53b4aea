CONSTANTS
    Shas = {s1}
    Content <- Scans
    Ids = {i1, i2}
    Procs = {p1, p2}
    Workers = {w1}
    NoSha = NoSha
    NoId = NoId
    MaxCrashes = 0
    MaxFaults = 1
    MaxJobs = 1
SPECIFICATION FairSpec
PROPERTY GetsRead
\* Requests are served once.
CHECK_DEADLOCK FALSE
