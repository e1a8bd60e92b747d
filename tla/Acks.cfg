CONSTANTS
    Message = {m1}
    AckPeer = {p, q, r}
    Outbound = {p, q}
    Inbound = {q, r}
    MAX_RETRY_ATTEMPTS = 2
    Timer = {t1, t2, t3}
    MaxSend = 3
SPECIFICATION AckFairSpec
INVARIANTS AckInv
PROPERTIES ConfirmedGenuine Resolved
CHECK_DEADLOCK FALSE
