SPECIFICATION FairSpec
CONSTANTS
    a = a  b = b  path0 = path0  s1 = s1  s2 = s2  t1 = t1  t2 = t2
    Modems = {a}
    Paths = {path0}
    Configured = path0
    Legacy = Legacy  Local = Local  None = None
    Sms = {s1, s2}
    Home <- AllOnA
    Multipart = {s2}
    Old = {s1}
    Tasks = {t1, t2}
    InitialMeta <- Anything
    MaxSwaps = 2
    MaxFaults = 1
    MaxDeletes = 1
INVARIANTS
    ReceptionIsComplete
PROPERTIES
    KeepsReception
    EventuallyStored
CHECK_DEADLOCK FALSE
