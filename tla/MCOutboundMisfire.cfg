SPECIFICATION Spec
CONSTANTS
    r1 = r1  r2 = r2  r3 = r3  w1 = w1  w2 = w2  k1 = k1  textA = textA  textB = textB  textC = textC
    Requests = {r1, r2}
    Workers = {w1}
    Owners = {r1, r2, w1}
    NoOwner = NoOwner
    Keys = {k1}
    NoKey = NoKey
    Contents = {textA, textB}
    KeyOf <- NoKeys
    ContentOf <- DistinctText
    MaxId = 2
    MaxPath = 2
    MaxModemRestarts = 1
    MaxFaults = 2
PROPERTIES
    RecoverySendsItsOwn
CHECK_DEADLOCK FALSE
