CONSTANTS
    serve = serve
    cli = cli
    ann = ann
    v1 = v1
    v2 = v2
    NoId = NoId
    Loop <- MCLoop
    Cli <- MCCli
    Person <- MCPerson
    Venue <- MCVenue
    With <- MCWith
    N = 2
    MaxEdits = 1
    MaxFaults = 1
SPECIFICATION Spec
INVARIANTS
    TypeOK
    ReferencesResolve
    RunDenormalises
    RunMatchesRaw
PROPERTIES
    Converges
