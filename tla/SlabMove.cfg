CONSTANTS
    c1 = c1
    c2 = c2
    Core <- OneCore
    NULL = NULL
    PageBytes = 16
    HeaderBytes = 1
    known_chunks <- OneCache
    Pages = 6
    Workloads <- OnlyChunks
    MaxHeld = 5
SPECIFICATION Spec
PROPERTIES
    FreeMovesFullSlab
CHECK_DEADLOCK FALSE
