SPECIFICATION FairSpec
CONSTANTS
    Nodes = {n1, n2}
    Wanted = {n1, n2}
    Poll = 1
    Timeout = 3
    MaxChanges = 4
    n1 = n1
    n2 = n2
INVARIANTS
    ViewSettles
PROPERTIES
    WaitRight
    WaitEnds
