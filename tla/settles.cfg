SPECIFICATION FairSpec
CONSTANTS
    s1 = s1
    s2 = s2
    Symbols = {s1, s2}
    None = None
    InitialBalance = 8
    MaxDailyLossPct = 20
    MaxTotalDrawdownPct = 100
    MaxPositionPct = 1000
    MinOrder = 2
    MaxOrder = 8
    RiskPerTradePct = 10
    MaxOpenPositions = 1
    SeenMax = 2
    FilledMax = 2
    Requests <- MCRequests
    Stops <- MCStops
    FillSpread = 1
    ExactPnls <- MCPnls
    Cent = 2
    Serialised = TRUE
    MaxMonitorCloses = 0
    MaxLost = 0
    MaxRedelivered = 1
    MaxProposals = 4
    MaxAgentCrashes = 2
INVARIANTS TypeOK SidesAgree EquityAgrees
PROPERTIES LedgerConverges BreachStopsTrading
CHECK_DEADLOCK FALSE
