CONSTANTS
    serve = serve
    cli = cli
    ann = ann
    v1 = v1
    v2 = v2
    NoId = NoId
    Loop <- MCLoop
    Cli = {}
    Person <- MCPerson
    Venue <- MCVenue
    With <- MCWith
    N = 2
    MaxEdits = 1
    MaxFaults = 0
SPECIFICATION Spec
INVARIANT NamesUpToDate
