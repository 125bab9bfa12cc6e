CONSTANTS
    h1 = h1
    h2 = h2
    Absent = Absent
    Empty = Empty
    Garbage = Garbage
    Handler <- MCOneHandler
    MaxIssued = 4
    MaxFaults = 0
SPECIFICATION Spec
INVARIANT SavedTripitStays
CHECK_DEADLOCK FALSE
