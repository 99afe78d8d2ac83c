CONSTANTS
    Base = 8
    Size = 64
    Requests <- MCUniform
    UserSizes <- MCUser
    UserSize = 64
    MinAlign = 8
    TableLen = 8
    EntryBytes = 2
    MaxTables = 2
    Garbage <- MCClean
SPECIFICATION Spec
INVARIANTS
    EntriesTile
PROPERTIES
    ImplementsHeap
CHECK_DEADLOCK FALSE
