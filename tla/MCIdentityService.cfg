SPECIFICATION FairSpec
CONSTANTS
    a = a  b = b  path0 = path0  path1 = path1  path2 = path2
    service = service  cli = cli
    Modems = {a, b}
    Paths = {path0, path1}
    Configured = path0
    Legacy = Legacy  Local = Local  None = None
    Service = service
    Clis = {}
    InitialMeta <- Anything
    MaxMoves = 2
    MaxFaults = 2
INVARIANTS
    TargetsAreSafe
PROPERTIES
    IdentityIsKept
    FindsTheModem
