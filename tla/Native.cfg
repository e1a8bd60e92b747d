CONSTANTS
    Client = {c1, c2}
    Fd = {f1}
    NoFd = NoFd
    NoClient = NoClient
    MaxUrgent = 1
    Sender = {c1}
    MaxSend = 2
SPECIFICATION Spec
INVARIANTS NativeInv InOrder
PROPERTIES MisdeliveryWindow
CHECK_DEADLOCK FALSE
