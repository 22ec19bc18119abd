CONSTANTS
    c1 = c1
    c2 = c2
    t1 = t1
    t2 = t2
    t3 = t3
    e1 = e1
    e2 = e2
    Main = t1
    Idle = Idle
    NULL = NULL
    Core <- TwoCores
    Thread <- TwoThreads
    JoinSlots = 1
    Calls <- EventCalls
    EventObject <- OneEvent
    ListenSlots = 2
SPECIFICATION EventSpec
INVARIANTS
    ResumesInsideYield
