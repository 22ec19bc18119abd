CONSTANTS
    c1 = c1
    c2 = c2
    t1 = t1
    t2 = t2
    t3 = t3
    Main = t1
    Idle = Idle
    NULL = NULL
    Core <- OneCore
    Thread <- ThreeThreads
    JoinSlots = 2
    Calls <- AllCalls
SPECIFICATION FairSpec
INVARIANTS
    ThreadInOnePlace
    NoThreadLost
    NoJoinerLeftBehind
    JoinReturnsAfterExit
    YieldLockFree
PROPERTIES
    RoundRobin
    JoinerResumes
