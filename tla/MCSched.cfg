CONSTANTS
    NoThread = NoThread
    idle = idle
    main = main
    u1 = u1
    u2 = u2
    u3 = u3
    u4 = u4
    Idle = idle
    Main = main
    Threads <- MCThreads6
    Kernel <- MCKernel
    Creators <- MCCreators
    Reapers <- MCReapers
    Blockers <- MCNobody
    TickNs = 10000010
    LockTimeout = 2000
    WaitCap = 2000
SPECIFICATION Spec
INVARIANTS
    SchedInv
    OnePlace
    NeverAllBlocked
SYMMETRY MCSymmetry
