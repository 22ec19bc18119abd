CONSTANTS
    c1 = c1
    c2 = c2
    Core <- TwoCores
    NULL = NULL
    PageBytes = 16
    HeaderBytes = 1
    known_chunks <- TwoCaches
    Workloads <- MCWorkloads
    Pages = 9
    MaxHeld = 4
SPECIFICATION Spec
INVARIANTS
    OwnedOnce
    RoomIsFound
    PagesAccounted
SYMMETRY Symmetry
CHECK_DEADLOCK FALSE
