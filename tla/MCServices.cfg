CONSTANTS
    Parts = {q1}
    Tags = {1, 2}
    Cats = {c1}
    Slugs = {s1, s2}
    Names = {n1}
    Procs = {1, 2, 3}
    Unused = Unused
    Gone = Gone
    NoCat = NoCat
    Uncategorized = Uncategorized
    Libs = {l1, l2}
    ItemNames = {"n1", "n2"}
    Versions = {"v1", "v2", "d1"}
    Base <- Chain
    NoName = "none"
    NoSource = "no source"
    Scans = {i1}
    Readers = {r1}
    MaxDepth = 2
    MaxChanges = 2
    BatchMax = 1
    Users = {u1}
    Tokens = {1, 2, 3}
    NoToken = NoToken
    Values = {"a"}
    Convs = {k1}
    Turns = {t1, t2}
    NoConv = NoConv
    Sizes = {40}
    Budget = 24
    StubSize = 8
    MaxToolRounds = 2
    MaxUnparsedRetries = 1
    MaxCalls = 1
    MaxFaults = 1
    Clients = {v1}
    Writers = {w1, w2}
    Buffer = 2
SPECIFICATION Spec
CONSTRAINT Bound
SYMMETRY Symmetry
INVARIANTS KeptAsAsked ExportRestores LibraryServed SessionsEnd SettingsLive TranscriptsWhole RequestsPaired SpendAndScreen SignalsArrive
PROPERTIES KeepsTranscripts
CHECK_DEADLOCK FALSE
