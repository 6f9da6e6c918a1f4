SPECIFICATION Spec
CONSTANTS
    r1 = r1  r2 = r2  r3 = r3  w1 = w1  w2 = w2  k1 = k1  textA = textA  textB = textB  textC = textC
    Requests = {r1, r2, r3}
    Workers = {w1}
    Owners = {r1, r2, r3, w1}
    NoOwner = NoOwner
    Keys = {k1}
    NoKey = NoKey
    Contents = {textA, textB, textC}
    KeyOf <- MixedKeys
    ContentOf <- DistinctText
    MaxId = 2
    MaxPath = 1
    MaxModemRestarts = 1
    MaxFaults = 1
INVARIANTS
    SafetyInv
    AtMostOneSend
    KeysAreHonoured
PROPERTIES
    VerdictsHold
CHECK_DEADLOCK FALSE
