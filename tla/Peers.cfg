CONSTANTS
    Peer = {p}
    BootstrapNode = p
    Self = Self
    Bootstrap0 = Bootstrap0
    MAX_PEERS = 1
    PEER_TIMEOUT = 1
    MaxFaults = 2
SPECIFICATION FairSpec
INVARIANTS PeerInv
PROPERTIES NoFalseDeath Forgotten Joins
CHECK_DEADLOCK FALSE
