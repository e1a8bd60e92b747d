CONSTANTS
    Peer = {p1}
    CAPACITY = 4
    REFILL = 1
    COST = 2
    BAN_THRESHOLD = 1
    VIOLATION_WINDOW_MS = 2
    BAN_DURATION_MS = 3
    MaxTime = 12
    MaxChecks = 10
SPECIFICATION Spec
INVARIANTS TypeOK Conformance PacedIsServed
PROPERTIES BanExact ServedAfterBan
CHECK_DEADLOCK FALSE
