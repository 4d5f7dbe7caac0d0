SPECIFICATION BotSpec
CONSTANTS
    s1 = s1
    s2 = s2
    Symbols = {s1, s2}
    OrderIds = {o1, o2}
    NoOrder = NoOrder
    NoPosition = NoPosition
    SignalSet <- TwoSymbolSignals
    Prices <- LowAndHigh
    Commission = 1
    InitialBalance = 1000
    SlippagePct = 1
    MaxTicks = 3
    MaxPositionSize = 2
    MaxPositionPct = 50
    MaxOpenPositions = 1
    MaxDailyLoss = 150
    MaxDrawdownPct = 10
    PerTradeRisk = 200
    MaxTradesPerDay = 3
    KillSwitchEnabled = TRUE
    CooldownLosses = 2
INVARIANTS
    MaxConcurrentPositions
