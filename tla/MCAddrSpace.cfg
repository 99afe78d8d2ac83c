SPECIFICATION Spec
CONSTANTS
    None = None
    MaxProcs = 3
    MaxFrames = 13
    MaxStores = 1
    Requests <- MCRequests
    WholeSegments = FALSE
    StoresArguments = FALSE
INVARIANTS KernelReachable UserPagesOwned
PROPERTY MemoryKept
VIEW MCView
CHECK_DEADLOCK FALSE
