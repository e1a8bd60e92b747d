CONSTANTS
    n1 = n1
    n2 = n2
    n3 = n3
    n4 = n4
    Node = {n1, n2, n3, n4}
    Conn <- Diamond
    GOSSIP_FANOUT = 3
    MAX_TTL = 4
    MaxPublish <- OneAndTwo
    Throttled <- Nobody
SPECIFICATION FairSpec
PROPERTIES CausalOrder
CHECK_DEADLOCK FALSE
