CONSTANTS
    c1 = c1
    c2 = c2
    Core <- OneCore
    NULL = NULL
    PageBytes = 16
    HeaderBytes = 1
    known_chunks <- OneCache
    Pages = 6
    Workloads <- ChunksAndBlocks
    MaxHeld = 6
SPECIFICATION Spec
INVARIANTS
    HeadersIntact
CHECK_DEADLOCK FALSE
