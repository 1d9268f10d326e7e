SPECIFICATION Spec
CONSTANTS
    None = None
    Horizon = 1
    Threshold = 100
    LastBar = 7
    Histories <- MCHistories
    FeePct = 10
    SlippagePct = 10
    StopLossPct = 200
    TakeProfitPct = 300
    MaxPositionPct = 300
    MinOrder = 200
    MaxOrder = 400
    InitialBalance = 1000
    MinConfidence = 5
    RsiPeriod = 2
    RsiOverbought = 70
    RsiOversold = 30
    MacdFast = 1
    MacdSlow = 2
    MacdSignal = 2
    BBPeriod = 3
    BBStdDev = 1
    EmaShort = 1
    EmaLong = 2
    VolumeLookback = 3
    AtrPeriod = 2
    MinBars = 3
    ReturnLags = {1, 2}
    VolumeLags = {1, 2}
    TrendLag = 2
    MinSamples = 2
    RsiPeriods = {1, 2}
    AverageWindows = {1, 2, 3}
    Warm = 5
    InitialTrain = 4
    RetrainEvery = 2
    MinTrainSamples = 2
    Deciders = {"rules", "random", "walk_forward"}
INVARIANTS TypeOK TrainsOnThePast RowsAreCausal SamplesAligned ModelInTerm CurveMatchesTrades BracketsAreAdverse BooksBalance DrawdownIsWorst UnanimityIsHeard ExtremesSilence
CHECK_DEADLOCK FALSE
