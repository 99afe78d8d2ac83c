CONSTANTS
    serial = serial
    keyb = keyb
    r1 = r1
    r2 = r2
    Idevs <- MCIdevs
    Keyboard = keyb
    EventLen = 2
    EventCount = 2
    StreamLen = 2
    Readers <- MCReaders
    MaxRead = 2
    MaxTyped = 3
    FirstScan = FALSE
SPECIFICATION FairSpec
INVARIANTS
    InputInv
PROPERTIES
    EventsAreFifo
    StdinIsFifo
    EventsAreTaken
    ReadersServed
