CONSTANTS
    h1 = h1
    h2 = h2
    Absent = Absent
    Empty = Empty
    Garbage = Garbage
    Handler <- MCHandler
    MaxIssued = 3
    MaxFaults = 2
SPECIFICATION Spec
INVARIANTS
    TypeOK
    SaveAlonePersists
    FsqKeyKept
    FileIsWhole
    TripitPairWhole
PROPERTY SavedKeyIsUsed
CHECK_DEADLOCK FALSE
