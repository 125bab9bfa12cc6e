CONSTANTS
    ping = ping
    bare = bare
    broken = broken
    status = status
    Message <- MCMessage
    Kind <- MCKind
    File <- MCFile
    DayLength = 4
    Window = 2
    StandardOffset = 0
    Shift = 2
    ChangeAt = 3
    MaxClock = 5
    MaxImports = 1
    MaxFaults = 2
SPECIFICATION Spec
INVARIANTS
    TypeOK
    AcknowledgedIsStored
    OneRowPerLostAnswer
    ImportWhole
    LatestWithinShift
    IndexShowsRange
PROPERTY Delivered
CHECK_DEADLOCK FALSE
