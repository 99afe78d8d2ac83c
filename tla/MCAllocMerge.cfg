CONSTANTS
    Base = 4
    Size = 32
    Requests <- MCMixed
    UserSizes <- MCNoUser
    UserSize = 64
    MinAlign = 8
    TableLen = 8
    EntryBytes = 2
    MaxTables = 2
    Garbage <- MCClean
SPECIFICATION Spec
INVARIANT Disjoint
CHECK_DEADLOCK FALSE
