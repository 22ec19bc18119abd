CONSTANTS
    p1 = p1
    p2 = p2
    Procs = {p1}
    ENTRIES = 3
    HHDM = 54
    Kernel = 74
    Text <- MCText
    Rodata <- MCRodata
    Data <- MCData
    MemMap <- MCMemMap
    Bitmap = 4
    Devices <- MCDevices
    Heap = {5, 6, 7, 8}
    Fb <- MCFb
    FbOffset = 30
    Elfs <- MCElfsUnaligned
    StackPages = 1
    Lens = {9}
    Unmaps = {59}
    MaxUnmaps = 1
SPECIFICATION Spec
CHECK_DEADLOCK FALSE
INVARIANTS
    SegmentRights
