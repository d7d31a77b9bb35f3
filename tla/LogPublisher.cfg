SPECIFICATION FairSpec
CONSTANTS
    Loop = Loop
    t1 = t1
    t2 = t2
    Threads = {t1, t2}
    Capacity = 2
    MaxRecords = 5
INVARIANTS
    CleanFeed
    RecordsAccounted
PROPERTIES
    RecordsFlow
CHECK_DEADLOCK FALSE
