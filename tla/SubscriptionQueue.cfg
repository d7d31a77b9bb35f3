SPECIFICATION Spec
CONSTANTS
    None = None
    Mode = "queue"
    QueueSize = 2
    MaxAge = 1
    Deadline = 2
    SilenceLogInterval = 3
    OnDeadline = "callable"
    SilenceHooks = {}
    ResumeHooks = {}
    PolicyHook = policy
    Bodies = {"good", "malformed"}
    Outcomes = {"returns", "raises", "cancels", "masks"}
    Transits = {None, 0, 2}
    MaxSent = 3
    MaxTime = 2
INVARIANTS
    Accounting
PROPERTIES
    StaleNeverEvicts
    ImplementsMailbox
CHECK_DEADLOCK FALSE
