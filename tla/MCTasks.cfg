CONSTANTS
    MaxPid = 5
    MaxChildren = 2
    Busy = {TRUE, FALSE}
    NoMemory = {TRUE, FALSE}
    None = None
SPECIFICATION FairSpec
INVARIANTS
    FamilyTree
PROPERTIES
    WaitReturnsUncontended
    ForkReturnsWithMemory
CHECK_DEADLOCK FALSE
