SPECIFICATION FairSpec
CONSTANTS
    None = None
    Mode = "latest"
    QueueSize = 1
    MaxAge = 1
    Deadline = 1
    SilenceLogInterval = 2
    OnDeadline = "stop"
    SilenceHooks = {s1}
    ResumeHooks = {r1}
    PolicyHook = policy
    Bodies = {"good"}
    Outcomes = {"returns", "raises"}
    Transits = {0, 2}
    MaxSent = 2
    MaxTime = 3
    s1 = s1
    r1 = r1
INVARIANTS
    OneTimerArmed
    OutagesTold
PROPERTIES
    NoEarlySilence
    QuietAfterStop
    ImplementsFairMailbox
    StopReturns
