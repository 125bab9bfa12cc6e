CONSTANTS
    fsq = fsq
    tripit = tripit
    ot = ot
    main = main
    signal = signal
    None = None
    Loop <- MCLoop
    Server <- MCServer
    Order <- MCOrder
    Signal = signal
    MaxRequests = 1
SPECIFICATION Spec
INVARIANTS
    TypeOK
    OrderlyExit
    OneLateSync
PROPERTIES
    ShutdownCompletes
    KeyIsPickedUp
CHECK_DEADLOCK FALSE
