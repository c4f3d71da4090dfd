SPECIFICATION Spec
CONSTANTS
    Documents = {d1}
    Ranges = {r1}
    d1 = d1
    d2 = d2
    r1 = r1
    r2 = r2
    Relocates <- MCRelocates
    NoSource = NoSource
    NoText = NoText
    Clients = {c1, c2}
    StartClock = 1
    ClockStepsBack = TRUE
    MaxOps = 3
    MaxClock = 4
    Text <- MCText
    Requests <- TurnRequests
    PastOps <- MCPastOps
    InitialSidecars <- MCDetachedSidecars
INVARIANTS
    TypeOK
    AppliedPersists
    FileAlwaysLoads
    StatusFollowsThread
    MovesCarryActivity
PROPERTIES
    ThreadsOnlyGrow
    ImplementsConversation
SYMMETRY MCSymmetry
CHECK_DEADLOCK FALSE
