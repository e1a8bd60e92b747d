CONSTANTS
    Msg = {m1, m2, m3}
    Reader = {r1, r2}
    Old = {m3}
    MAX_BUFFER_SIZE = 4
    WriteFails = TRUE
SPECIFICATION FairSpec
INVARIANTS TypeOK NotStranded IndexConsistent NothingVanishes ReadBarrier
PROPERTIES SavedBecomesDurable
CHECK_DEADLOCK FALSE
