SPECIFICATION Spec
CONSTANTS
    None = None
    TechnicalWeight = 7
    SentimentWeight = 3
    Bar = 2
    Start = 6
    MaxTime = 12
    MaxFaults = 1
    Faults = {"publish", "persist", "fetch", "late", "read", "restart", "halt"}
    PollInterval = 1
    PollLimit = 3
    HistoryLimit = 4
    DedupSize = 3
    TTL = 10
    WarmupLimit = 4
    BufferSize = 3
    MinWarmup = 2
    Readings <- MCReadings
    NewsTTL = 4
    NewsDirections = {"strong_buy", "strong_sell"}
    MaxNews = 1
    MaxStaleness = 2
INVARIANTS TypeOK OnceAndWhole NotAgainstTechnical AcceptedDataBound
CHECK_DEADLOCK FALSE
