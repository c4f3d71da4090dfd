SPECIFICATION Spec
CONSTANTS
    server = server
    t1 = t1
    t2 = t2
    t3 = t3
    Processes = {t1, t2}
    Threads = {t1, t2}
    ProcessOf <- OneProcessEach
    Free = Free
    MaxUpdates = 3
    MaxFaults = 0
INVARIANT ConfirmedStays
CHECK_DEADLOCK FALSE
