SPECIFICATION FairSpec
CONSTANTS
    r1 = r1  r2 = r2  r3 = r3  w1 = w1  w2 = w2  k1 = k1  textA = textA  textB = textB  textC = textC
    Requests = {r1, r2}
    Workers = {w1, w2}
    Owners = {r1, r2, w1, w2}
    NoOwner = NoOwner
    Keys = {k1}
    NoKey = NoKey
    Contents = {textA}
    KeyOf <- SharedKey
    ContentOf <- SameText
    MaxId = 1
    MaxPath = 1
    MaxModemRestarts = 0
    MaxFaults = 2
INVARIANTS
    AcknowledgedWasAnnounced
PROPERTIES
    KeepsPromise
    EverySendConcludes
CHECK_DEADLOCK FALSE
