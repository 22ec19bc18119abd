CONSTANTS
    server = server
    client = client
    Thread <- Threads
    NULL = NULL
    Calls <- Talk
    Sockets = 4
    Capacity = 2
    Backlog = 2
    MaxBound = 1
    MaxSend <- ServerOneClientThree
SPECIFICATION Spec
INVARIANTS
    ConnectedHasPeer
    StreamInOrder
CHECK_DEADLOCK FALSE
