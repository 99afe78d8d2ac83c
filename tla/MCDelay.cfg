CONSTANTS
    Nobody = Nobody
    idle = idle
    main = main
    kinput = kinput
    user = user
    Ring <- MCRing
    Sleepers <- MCSleepers
    Reapers <- MCReapers
    Modes <- MCModes
    MaxBlocks = 2
    Delays <- MCDelays
    MaxNested = 2
    TickNs = 10000010
SPECIFICATION FairSpec
INVARIANTS
    SleepInv
    NeverOutOfBlocks
PROPERTIES
    DelayReturns
