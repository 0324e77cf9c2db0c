SPECIFICATION FairSpec
CONSTANTS
    q1 = q1
    q2 = q2
    q3 = q3
    t1 = t1
    t2 = t2
    NoQuery = NoQuery
    Queries <- ThreeQueries
    Terminals <- MCTerminals
    Owner <- ThreeOwner
    MaxBatches = 1
    Backlog = 1
    SockBuf = 1
    RequestKinds = {"query", "undecodable", "wrongType"}
    Faults = {"clientCrash"}
PROPERTIES Answered ServerReturnsToAccept
CHECK_DEADLOCK FALSE
