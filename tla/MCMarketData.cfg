SPECIFICATION Spec
CONSTANTS
    primary = primary
    backup = backup
    wti = wti
    brent = brent
    Adapters = {primary, backup}
    MaxRegistrations <- Registrations
    MaxLoops = 2
    Intervals = {2, 3}
    BarPrices = {1, 2}
    MaxTime = 6
    MaxLate = 2
    MaxEarly = 1
    MaxTicks = 4
    CheckInterval = 3
    StaleThreshold = 2
    MinMessages = 1
    MaxErrors = 0
    Latencies = {100, 2000}
    MaxLatency = 1000
    MaxSamples = 2
    MaxCount = 2
    MaxStaleCalls = 1
    Sources = {primary, backup}
    TickPrices = {1000, 1052}
    Spreads = {1, 201}
    Distances = {100, 60001}
    Volumes = {0, 1, 11}
    MaxAnomalies = 1
    MaxVolumes = 2
    MaxPrices = 3
    Feeds = {primary, backup}
    Symbols = {wti, brent}
    Prices = {4, 5}
    Window = 2
    SpikePct = 15
    RequiredFeeds = 1
    MaxPending = 2
    Timeout = 1
    BlockTime = 2
INVARIANTS
    FeedInvariant
    BarInvariant
    HeartbeatInvariant
    WatchInvariant
PROPERTIES
    FeedProgress
    BlocksHaveCause
    OnlyPendingSpikesHold
CHECK_DEADLOCK FALSE
