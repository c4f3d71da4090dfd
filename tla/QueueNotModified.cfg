SPECIFICATION Spec
CONSTANTS
    Index <- TwoDocuments
    MaxRevision = 2
    MaxEdits = 1
    MaxFailures = 0
PROPERTY NotModifiedIsCurrent
