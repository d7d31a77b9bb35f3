SPECIFICATION FairSpec
CONSTANTS
    Tasks = {beat, t1}
    Heartbeat = beat
    beat = beat
    t1 = t1
    StartTimeout = TRUE
    Bindings = 1
    MaxStarts = 2
    AllowDuplicates = FALSE
    OpenMayFail = TRUE
    Concurrent = TRUE
    MaxSubs = 1
    CutGoesOn = FALSE
    MaxInterrupts = 1
INVARIANTS
    EndsClean
    OnStopPaired
    NoLateDuplicate
PROPERTIES
    SafedBeforeJoin
    ImplementsLifecycle
    StartsAndStopsEnd
