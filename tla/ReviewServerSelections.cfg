SPECIFICATION Spec
CONSTANTS
    Documents = {d1, d2}
    Ranges = {r1, r2}
    d1 = d1
    d2 = d2
    r1 = r1
    r2 = r2
    Relocates <- MCRelocates
    NoSource = NoSource
    NoText = NoText
    Clients = {c1, c2}
    StartClock = 1
    ClockStepsBack = FALSE
    MaxOps = 3
    MaxClock = 4
    Text <- MCText
    Requests <- SelectionRequests
    PastOps <- MCPastOps
    InitialSidecars <- MCInitialSidecars
INVARIANTS
    SourceWasSelected
    RevisionSpentOnce
SYMMETRY MCSymmetry
