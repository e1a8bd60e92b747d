CONSTANTS
    m1 = m1
    m2 = m2
    m3 = m3
    global = global
    news = news
    Msg = {m1, m2}
    Ts <- Stamps
    TopicOf <- TwoTopics
    Always = {global}
    Session = {s1, s2}
    BATCH = 1
    Burst = 1
    Faults = TRUE
SPECIFICATION FairSpec
INVARIANTS SyncInv AckGenuine SyncDelivers
PROPERTIES SessionsEnd
CHECK_DEADLOCK FALSE
