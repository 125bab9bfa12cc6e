CONSTANTS
    old = old
    new = new
    newer = newer
    NoProcess = NoProcess
    Process <- MCProcess
    Version <- MCVersion
    MaxWrites = 2
    MaxFaults = 2
SPECIFICATION Spec
INVARIANTS
    TypeOK
    SchemaIsWhole
    RunningIsMigrated
PROPERTY StartsEventually
CHECK_DEADLOCK FALSE
