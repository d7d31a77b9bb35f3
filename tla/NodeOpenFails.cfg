SPECIFICATION Spec
CONSTANTS
    Tasks = {beat, t1}
    Heartbeat = beat
    beat = beat
    t1 = t1
    StartTimeout = TRUE
    Bindings = 1
    MaxStarts = 2
    AllowDuplicates = TRUE
    OpenMayFail = TRUE
    Concurrent = FALSE
    MaxSubs = 1
    CutGoesOn = FALSE
    MaxInterrupts = 0
INVARIANTS
    FailedStartRetryable
