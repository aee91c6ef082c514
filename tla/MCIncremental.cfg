CONSTANTS
    c0 = c0
    c1 = c1
    c3 = c3
    c4 = c4
    Content = {c0, c1, c3, c4}
    Length <- MCLength
    Buffer = 2
    Width = 3
    CryptKey = {k1}
    MaxRuns = 2
    MaxWrites = 2
    MaxClock = 2
SPECIFICATION Spec
CHECK_DEADLOCK FALSE
SYMMETRY Symmetry
INVARIANTS TypeOK SkipsOnlyGoodCopies Repairs UploadsOnlyModified
PROPERTY HashEnds
