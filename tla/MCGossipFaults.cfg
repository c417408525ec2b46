SPECIFICATION Spec
CONSTANTS
    n1 = n1  n2 = n2  n3 = n3  n4 = n4  m1 = m1  m2 = m2
    NoTtl = NoTtl
    Node <- ThreeNodes
    Conn <- Cross
    from <- MCFrom
    to <- MCTo
    NoConn = NoConn
    MaxPeers = 2
    Msg <- OneMsg
    origin <- OneOrigin
    ttlArg <- NoTtlGiven
    DefaultTtl = 5
    Fanout = 2
    MaxFaults = 1
INVARIANTS GossipTypeOK Attended HopsBounded DeliveriesBounded
CHECK_DEADLOCK FALSE
