CONSTANTS
    q1 = q1
    q2 = q2
    NoPart = NoPart
    InFootprint <- NoWords
    Boards = {b1, b2}
    Lines = {l1, l2}
    Assets = {a1, a2, a3}
    Parts = {q1, q2}
    Catalogue <- SomeCatalogue
    Contents <- SomeContents
    Files <- SomeFiles
    Procs = {p1, p2, p3}
    NoBoard = NoBoard
    NoLine = NoLine
    NoAsset = NoAsset
    NoContent = NoContent
    MaxFaults = 1
SPECIFICATION Spec
CONSTRAINT CalmOrTwo
SYMMETRY Symmetry
INVARIANTS TypeOK RulesReachLines AttachmentsReplaced
\* Requests are served once.
CHECK_DEADLOCK FALSE
