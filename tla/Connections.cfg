CONSTANTS
    Socket = {s1, s2}
    NoSocket = NoSocket
    MAX_RECONNECT_ATTEMPTS = 2
    INITIAL_RECONNECT_DELAY_MS = 2
    MAX_RECONNECT_DELAY_MS = 6
    MaxSend = 3
SPECIFICATION FairSpec
INVARIANTS ConnectionInv NoDuplicates
PROPERTIES Settled
CHECK_DEADLOCK FALSE
