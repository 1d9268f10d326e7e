SPECIFICATION Spec
CONSTANTS
    s1 = s1
    s2 = s2
    Symbols = {s1, s2}
    None = None
    MaxAgentCrashes = 1
    InitialBalance = 10
    MaxDailyLossPct = 20
    MaxTotalDrawdownPct = 40
    MaxPositionPct = 500
    MinOrder = 2
    MaxOrder = 8
    RiskPerTradePct = 10
    MaxOpenPositions = 1
    SeenMax = 2
    Requests <- MCRequests
    Stops <- MCStops
    MaxProposals = 2
    MaxLost = 1
    MaxRedelivered = 1
    MaxResults = 2
    MaxDays = 1
    Costs <- MCCosts
    Profits <- MCProfits
    Prices <- MCPrices
    VolumeStep = 1
    MinVolume = 1
    MaxVolume = 3
INVARIANTS DailyBooks WorthWhatApproved
PROPERTIES HaltIsFinal
SYMMETRY SymbolSymmetry
CHECK_DEADLOCK FALSE
