CONSTANTS
    server = server
    client = client
    Thread <- Threads
    NULL = NULL
    Calls <- ClientSends
    Sockets = 4
    Capacity = 2
    Backlog = 2
    MaxBound = 1
    MaxSend <- TwoEach
SPECIFICATION Spec
INVARIANTS
    AcceptedLeavesBacklog
CHECK_DEADLOCK FALSE
