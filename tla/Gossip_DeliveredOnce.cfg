SPECIFICATION Spec
CONSTANTS
    n1 = n1  n2 = n2  n3 = n3  n4 = n4  m1 = m1  m2 = m2
    NoTtl = NoTtl
    Node <- MCNode
    Conn <- TriangleWithTail
    from <- MCFrom
    to <- MCTo
    NoConn = NoConn
    MaxPeers = 3
    Msg <- OneMsg
    origin <- OneOrigin
    ttlArg <- TransactionTtl
    DefaultTtl = 5
    Fanout = 3
    MaxFaults = 0
INVARIANT DeliveredOnce
CHECK_DEADLOCK FALSE
