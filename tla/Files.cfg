CONSTANTS
    p1 = p1
    p2 = p2
    Process <- TwoProcesses
    Archives <- MCArchives
    Paths <- MCPaths
    Flags <- MCFlags
    Sizes = {1, 3}
    MaxFd = 3
    MaxOffset = 4
    MaxNodes = 10
    Block = 2
    TarBlock = 2
    SizeMod = 16
    Garbage = Garbage
SPECIFICATION Spec
INVARIANTS
    Tree
    ReadsLoaded
    StoredUntilMiscounted
    FdNamesNode
    RefsCounted
SYMMETRY Symmetry
CHECK_DEADLOCK FALSE
