CONSTANTS
    NULL = NULL
    i1 = i1
    i2 = i2
    i3 = i3
    i4 = i4
    w1 = w1
    w2 = w2
    r1 = r1
    Items <- MCItems3
    Writers <- MCWriters2
    Readers <- MCReaders
    RemoveHead = "lone"
    Modes <- MCBoth
SPECIFICATION Spec
INVARIANTS
    ListInv
    ListIsContents
    IterationIsContents
    LockedNeverFaults
