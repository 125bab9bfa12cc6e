CONSTANTS
    LastDay = 5
    PageSize = 2
    MaxFaults = 1
    MaxLate = 1
SPECIFICATION Spec
INVARIANTS
    TypeOK
    RunCovers
    FetchAllCovers
    NoHole
PROPERTIES
    RunEnds
    ImplementsMirror
