CONSTANTS
    c1 = c1
    c2 = c2
    Core <- TwoCores
    NULL = NULL
    PageSize = 2
    MaxPages = 2
    MemoryMaps <- Maps
SPECIFICATION FairSpec
INVARIANTS
    TypeOK
    FramesOwnedOnce
    BitsAreAccounted
    BitmapOutOfReach
    SearchMissesNothing
PROPERTIES
    PallocReturns
