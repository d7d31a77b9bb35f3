SPECIFICATION Spec
CONSTANTS
    None = None
    Length = 4
    Recording = {3}
    Roots = {1,3}
    Ringed = {2,4}
    MaxTraces = 2
    MaxSent = 3
    MaxSpawned = 2
INVARIANTS
    RecordedWhole
    FollowsCause
CHECK_DEADLOCK FALSE
