CONSTANTS
    n1 = n1
    n2 = n2
    n3 = n3
    n4 = n4
    Node = {n1, n2, n3, n4}
    Conn <- Diamond
    GOSSIP_FANOUT = 2
    MAX_TTL = 4
    MaxPublish <- OneAndThree
    Throttled <- Throttle32
SPECIFICATION FairSpec
INVARIANTS SafetyInv TransmissionBound
PROPERTIES ImplementsBroadcast Quiescence Coverage
CHECK_DEADLOCK FALSE
