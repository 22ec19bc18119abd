CONSTANTS
    p1 = p1
    p2 = p2
    Procs <- TwoProcs
    ENTRIES = 3
    HHDM = 54
    Kernel = 74
    Text <- MCText
    Rodata <- MCRodata
    Data <- MCData
    MemMap <- MCMemMap
    Bitmap = 4
    Devices <- MCDevices
    Heap = {5, 6, 7, 8}
    Fb <- MCFb
    FbOffset = 30
    Elfs <- MCElfs
    StackPages = 1
    Lens = {9}
    Unmaps = {59}
    MaxUnmaps = 1
SPECIFICATION Spec
SYMMETRY Symmetry
CHECK_DEADLOCK FALSE
INVARIANTS
    KernelShared
    SegmentRights
    UserReachesOwn
PROPERTIES
    RefinesAddressSpace
