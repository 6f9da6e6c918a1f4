CONSTANTS
    Phones = {p}
    Times = {1, 2}
    MaxId = 3
    Keys = {1, 2}
    PageIds = {1, 2, 3}
    PageSize = 1
    Malformed = {2}
    RingSize = 1
    MaxChanges = 2
    MaxLosses = 1
    Contents = {c1, c2}
    Secret <- SecretOf
    Browsers = {b1, b2}
    Nobody = Nobody
    MaxEdits = 1
    MaxBreaks = 1
    Passwords = {p, q}
    NoPassword = NoPassword
    Tokens = {t1, t2, t3, t4}
    MaxSessions = 2
    Clients = {x, y}
    Logins = {b1, b2}
    MaxStall = 1
    MaxFailures = 2
    Window = 3
    Horizon = 3
    Callers = {b1, b2}
    NoCaller = Nobody
    FreshFor = 2
    StaleFor = 4
    RefreshTime = 2
    HealthEnd = 8
    Requests = {b1, b2}
    NoRequest = Nobody
    Operators = {x}
    ActionPaths = {m}
    NoActionPath = Nobody
    ResetLimit = 3
    MmcliTime = 1
    ActionEnd = 4
    MaxQueries = 3
    Senders = {b1, b2}
    MaxConnections = 2
    MaxDrops = 1
    Slots = {b1, b2}
    LeaseFloor = 3
    Waves = 4
    ChannelTimeout = 2
    RequestsPerAttempt = 2
    Pending = 4
    Deferral = 3
    InspectTime = 3
    Updaters = {b1, b2}
    MaxRelease = 2
    ReleaseKinds <- SomeReleaseKinds
    MaxRewrites = 2
    Reporters = {b1, b2}
    Codes = {x, y}
    ReportEvery = 2
    ReportEnd = 2
SPECIFICATION Spec
INVARIANTS
    ComponentsTypeOK
    SummariesMatch
    PagesCoverOnce
    SessionsEnd
    LimitIsFair
    CommandsTakeTurns
    StatusIsEarned
    GapsAreTold
    IdsComeBack
    VerdictsAgree
    LeaseCoversTheBatch
    EveryoneGetsATurn
    UpdateIsWhole
    ReportsThrottled
PROPERTIES
    ViewKeepsUp
    EventuallyShown
    SavesAreChecked
    RestartComesToAnEnd
    HealthIsRecent
    SenderIsHonest
    AcceptedRuns
CHECK_DEADLOCK FALSE
