SPECIFICATION ServicesSpec
CONSTANTS
    chooser = chooser
    follower = follower
    orders = orders
    signals = signals
    Callers = {c1, c2, c3}
    FailureThreshold = 2
    HalfOpenMaxCalls = 2
    TokenEvery = 2
    BurstSize = 2
    WindowLength = 6
    Jobs = {j1, j2, j3, j4}
    MaxConcurrent = 2
    MaxQueue = 2
    MaxFailures = 2
    MaxCancels = 1
    MaxAttempts = 4
    BaseDelay = 1
    MaxDelay = 3
    JitterMax = 1
    Loggers = {l1, l2}
    MaxEntries = 4
    MaxRuns = 2
    MaxDeleted = 1
    MaxSeconds = 3
    KeepCounts = {1, 2}
    AnyTopic = AnyTopic
    Clients = {chooser, follower}
    Topics = {orders, signals}
    Endpoint <- Endpoints
    Broadcasts = {b1, b2}
    MaxMessages = 2
INVARIANTS
    TablesAgree
    BreakerInvariant
    RateInvariant
    BulkheadInvariant
    RetryInvariant
    AuditInvariant
    BackupInvariant
PROPERTIES
    SubscriptionsAreOwn
    DroppedAreForgotten
    BreakerProgress
    SpacedRequestsAreAdmitted
    LossIsReported
CHECK_DEADLOCK FALSE
