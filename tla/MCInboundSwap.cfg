SPECIFICATION Spec
CONSTANTS
    a = a  b = b  path0 = path0  s1 = s1  s2 = s2  t1 = t1  t2 = t2
    Modems = {a, b}
    Paths = {path0}
    Configured = path0
    Legacy = Legacy  Local = Local  None = None
    Sms = {s1}
    Home <- AllOnA
    Multipart = {}
    Old = {}
    Tasks = {t1}
    InitialMeta <- AEnrolled
    MaxSwaps = 2
    MaxFaults = 0
    MaxDeletes = 0
INVARIANTS
    StoredOnce
CHECK_DEADLOCK FALSE
