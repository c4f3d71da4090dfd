SPECIFICATION Spec
CONSTANTS
    server = server
    t1 = t1
    t2 = t2
    t3 = t3
    Processes = {server}
    Threads = {t1, t2}
    ProcessOf <- OneServer
    Free = Free
    MaxUpdates = 4
    MaxFaults = 2
INVARIANTS
    TypeOK
    FileIsWhole
    AckedIsDurable
PROPERTIES
    AddsToCurrent
    ImplementsAtomicStore
    SaveReturns
CHECK_DEADLOCK FALSE
