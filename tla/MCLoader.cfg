SPECIFICATION Spec
CONSTANTS
    Base = 8
    PageSz = 4
    Stride = 16
    MaxAlign = 2
    KernelSymbols <- MCKernelSymbols
    Files <- MCFiles
    Preloads <- MCPreloads
    KtermFiles <- MCKterm
    MaxLoads = 4
INVARIANTS SectionsStay ReferencesLead RequiredFirst
CHECK_DEADLOCK FALSE
