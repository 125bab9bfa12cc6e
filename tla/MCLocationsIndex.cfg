CONSTANTS
    ping = ping
    bare = bare
    broken = broken
    status = status
    Message <- MCOddMessage
    Kind <- MCOddKind
    File <- MCFile
    DayLength = 4
    Window = 2
    StandardOffset = 0
    Shift = 2
    ChangeAt = 3
    MaxClock = 5
    MaxImports = 1
    MaxFaults = 0
SPECIFICATION Spec
INVARIANT IndexAnswers
CHECK_DEADLOCK FALSE
