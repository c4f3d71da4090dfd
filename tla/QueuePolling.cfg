SPECIFICATION Spec
CONSTANTS
    Index <- TwoDocuments
    MaxRevision = 3
    MaxEdits = 1
    MaxFailures = 2
INVARIANTS
    TypeOK
    CursorNamesQueue
PROPERTY QueueCatchesUp
