CONSTANTS
    Topic = {t}
    THRESHOLD = 2
    LIMIT = 2
    BUFFER_LIMIT = 2
    MaxChat = 3
    MaxManual = 1
SPECIFICATION FairSpec
INVARIANTS SummaryInv ReadsTrigger StopKeeps
PROPERTIES Released
CHECK_DEADLOCK FALSE
