CONSTANTS
    LastDay = 3
    PageSize = 2
    MaxFaults = 1
    MaxLate = 0
SPECIFICATION Spec
INVARIANT RunFetchesNew
