CONSTANTS
    NoThread = NoThread
    idle = idle
    main = main
    u1 = u1
    u2 = u2
    u3 = u3
    u4 = u4
    Idle = idle
    Main = main
    Threads <- MCThreads4
    Kernel <- MCKernel
    Creators <- MCCreators
    Reapers <- MCNobody
    Blockers <- MCBlockers
    TickNs = 10000010
    LockTimeout = 2000
    WaitCap = 2000
SPECIFICATION FairSpec
PROPERTIES
    QueuedIsScheduled
    RunnableRuns
