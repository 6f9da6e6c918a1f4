SPECIFICATION Spec
CONSTANTS
    m1 = m1  m2 = m2  p1 = p1  p2 = p2  w1 = w1  w2 = w2
    t1 = t1  t2 = t2  t3 = t3  t4 = t4  t5 = t5
    Messages = {m1}
    Profiles = {p1, p2}
    Workers = {w1, w2}
    Tokens = {t1, t2, t3, t4}
    NoToken = NoToken
    ProfilesOf <- Reconfigured
    Concurrency = 2
    BatchSize = 2
    MaxAttempts = 1
    MaxFaults = 0
SYMMETRY TokenSymmetry
INVARIANTS
    OnceWithoutFaults
CHECK_DEADLOCK FALSE
