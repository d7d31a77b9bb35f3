SPECIFICATION FairSpec
CONSTANTS
    Nodes = {n1}
    n1 = n1
    None = None
    Options = {{"logs"}, {"health"}}
    Capacity = 2
    StaleAfter = 1
    MaxRecords = 4
    MaxRuns = 2
    MaxCount = 1
    MaxPushes = 2
    MaxTime = 3
INVARIANTS
    BatchesAccounted
    SeenOnce
    LastBatchOut
PROPERTIES
    ReportsCurrent
    ExportEnds
CHECK_DEADLOCK FALSE
