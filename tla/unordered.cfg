SPECIFICATION HistorySpec
CONSTANTS
    s1 = s1
    s2 = s2
    Symbols = {s1, s2}
    None = None
    InitialBalance = 12
    MaxDailyLossPct = 100
    MaxTotalDrawdownPct = 100
    MaxPositionPct = 1000
    MinOrder = 2
    MaxOrder = 8
    RiskPerTradePct = 10
    MaxOpenPositions = 1
    SeenMax = 1
    FilledMax = 2
    Requests <- MCRequests
    Stops <- MCStops
    FillSpread = 0
    ExactPnls <- MCPnls
    Cent = 1
    Serialised = FALSE
    MaxMonitorCloses = 1
    MaxLost = 1
    MaxRedelivered = 1
    MaxProposals = 3
    MaxAgentCrashes = 2
INVARIANTS FilledOnce ClearPositionsReserved BrokerWithinLimit
SYMMETRY SymbolSymmetry
CHECK_DEADLOCK FALSE
