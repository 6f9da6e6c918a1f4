SPECIFICATION FairSpec
CONSTANTS
    m1 = m1  m2 = m2  p1 = p1  p2 = p2  w1 = w1  w2 = w2
    t1 = t1  t2 = t2  t3 = t3  t4 = t4  t5 = t5
    Messages = {m1}
    Profiles = {p1}
    Workers = {w1, w2}
    Tokens = {t1, t2}
    NoToken = NoToken
    ProfilesOf <- AllProfiles
    Concurrency = 1
    BatchSize = 4
    MaxAttempts = 2
    MaxFaults = 1
INVARIANTS
    SafetyInv
    AttemptsAreAccounted
    NoMissedWakeup
PROPERTIES
    OutcomesHold
    EventuallyResolved
CHECK_DEADLOCK FALSE
