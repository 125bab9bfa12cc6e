CONSTANTS
    c1 = c1
    c2 = c2
    c3 = c3
    Checkin <- MCCheckin
    Deletable <- MCDeletable
    Limit = 2
    Window = 3
    MaxLag = 1
    MaxRun = 1
    MaxClock = 5
    MaxFaults = 1
SPECIFICATION Spec
INVARIANTS
    TypeOK
    RunCovers
    BufferSuffices
    NothingMissed
PROPERTIES
    PostedIsStored
    RunEnds
    ImplementsMirror
