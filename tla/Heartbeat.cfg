SPECIFICATION BeatSpec
CONSTANTS
    Interval = 2
    MaxTime = 6
    Callers = {loop, worker}
    Loop = loop
    Publishers = {health, frames}
    Health = health
    Pooled = {frames}
    Nobody = nobody
    MaxPuts = 3
    QueueSize = 2
    Durations = {1, 2}
    Loads <- Mixed
    loop = loop
    worker = worker
    health = health
    frames = frames
    nobody = nobody
INVARIANTS
    WireAccounted
    PoolDegrades
    GridAccounting
    StopsOnError
PROPERTIES
    AimsAtNextPoint
    BeatsCoverWindow
