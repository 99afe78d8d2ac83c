CONSTANTS
    Null = Null
    Archives <- MCArchives
    PathSet <- MCPathSet
    OptionRoom = 3
    Lines <- MCLines
    Behind <- MCBehind
    LevelLists <- MCLevelLists
    KeySeqs <- MCKeySeqs
    Bits <- MCBits
    Specs <- MCSpecs
    Numbers <- MCNumbers
    FarM2 = 3
    FarM4 = 4
    Texts <- MCTexts
    Stored <- MCStored
    ContainerFlags <- MCContainerFlags
    MaxParams = 3
    ShellLines <- MCShellLines
    Environ <- MCEnviron
    EnvNames <- MCEnvNames
    Executable <- MCExecutable
    AddrSpace = 128
    PageSize = 4
    UpperBase = 8
    TagLists <- MCTagLists
    Memories <- MCMemories
SPECIFICATION Spec
INVARIANTS
    PathsResolve
    CmdlineMeans
    FormatMeans
    LzopRestores
    ShellMeans
    BootTablesFound
    HeapClear
    
