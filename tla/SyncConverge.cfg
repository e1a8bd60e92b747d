CONSTANTS
    m1 = m1
    m2 = m2
    m3 = m3
    global = global
    news = news
    Msg = {m1, m2}
    Ts <- Stamps
    TopicOf <- OneTopic
    Always = {global}
    Session = {s1, s2}
    BATCH = 2
    Burst = 2
    Faults = TRUE
SPECIFICATION FairSpec
INVARIANTS NoOvertaking
CHECK_DEADLOCK FALSE
