CONSTANTS
    t1 = t1
    t2 = t2
    Thread <- TwoThreads
    NULL = NULL
    Byte = {0, 1}
    Capacity = 3
    HeadMod = 6
    MaxLen = 2
SPECIFICATION Spec
PROPERTIES
    IsByteQueue
