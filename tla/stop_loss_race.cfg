SPECIFICATION Spec
CONSTANTS
    s1 = s1
    Symbols = {s1}
    None = None
    InitialBalance = 8
    MaxDailyLossPct = 100
    MaxTotalDrawdownPct = 100
    MaxPositionPct = 1000
    MinOrder = 2
    MaxOrder = 8
    RiskPerTradePct = 10
    MaxOpenPositions = 1
    SeenMax = 2
    FilledMax = 2
    Requests <- MCRequests
    Stops <- MCStops
    FillSpread = 1
    ExactPnls <- MCPnls
    Cent = 2
    Serialised = TRUE
    MaxMonitorCloses = 1
    MaxLost = 0
    MaxRedelivered = 0
    MaxProposals = 1
    MaxAgentCrashes = 2
INVARIANTS SidesAgree
CHECK_DEADLOCK FALSE
