SPECIFICATION Spec
CONSTANTS
    Documents = {d1, d2}
    Ranges = {r1}
    Text <- MCText
    Relocates = {}
    NoSource = NoSource
    NoText = NoText
    InitialReview <- MCInitialReview
    MaxRevision = 3
    MaxComments = 1
    MaxRequests = 2
    MaxEdits = 1
INVARIANTS
    TypeOK
    RetryCarriesPanelRevision
    SeenIsQuoted
PROPERTIES
    PanelNeverGoesBack
    WaitingKeepsDraft
    OffersAreAccepted
CHECK_DEADLOCK FALSE
SYMMETRY MCSymmetry
