CONSTANTS
    server = server
    client = client
    Thread <- Threads
    NULL = NULL
    Calls <- ClientSends
    Sockets = 3
    Capacity = 1
    Backlog = 2
    MaxBound = 1
    MaxSend <- TwoEach
SPECIFICATION Spec
INVARIANTS
    ReceiverSleepsOnEmpty
CHECK_DEADLOCK FALSE
