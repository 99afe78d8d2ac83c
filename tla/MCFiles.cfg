CONSTANTS
    Null = Null
    Stdin = Stdin
    p1 = p1
    p2 = p2
    Procs = {p1, p2}
    InitProc = p1
    MaxOpen = 3
    MaxHandles = 3
    Archive <- MCArchive
    Requests <- MCRequests
    ReadSizes = {2}
    SizeRange = 5
    MaxPos = 2
    Readers = {p1}
    Preload <- MCPreload
    Loads <- MCLoads
    KtermPaths <- MCKtermPaths
    MaxLoads = 2
    ListPaths <- MCListPaths
SPECIFICATION Spec
VIEW MCView
INVARIANTS
    FilesInv
    PositionIsRead
    LockAccounted
PROPERTIES
    ListingsComplete
CHECK_DEADLOCK FALSE
