CONSTANTS
    p1 = p1
    p2 = p2
    Process <- OneProcess
    Archives <- OneArchive
    Paths <- RootPaths
    Flags <- OpenFlags
    Sizes = {1, 3}
    MaxFd = 2
    MaxOffset = 6
    MaxNodes = 8
    Block = 2
    TarBlock = 2
    SizeMod = 16
    Garbage = Garbage
SPECIFICATION Spec
INVARIANTS
    LookupNeedsNoDriver
CHECK_DEADLOCK FALSE
