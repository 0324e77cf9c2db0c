SPECIFICATION Spec
CONSTANTS
    q1 = q1
    q2 = q2
    q3 = q3
    t1 = t1
    t2 = t2
    NoQuery = NoQuery
    Queries <- TwoQueries
    Terminals <- MCTerminals
    Owner <- TwoOwner
    MaxBatches = 1
    Backlog = 1
    SockBuf = 1
    RequestKinds = {"query", "undecodable", "wrongType"}
    Faults = {"clientCrash"}
INVARIANT ServesUntilStopped
CHECK_DEADLOCK FALSE
