SPECIFICATION Spec
CONSTANTS
    None = None
    Horizon = 12
    Threshold = 3
    LastBar = 51
    Histories <- MCBullHistories
    FeePct = 10
    SlippagePct = 10
    StopLossPct = 200
    TakeProfitPct = 300
    MaxPositionPct = 300
    MinOrder = 200
    MaxOrder = 400
    InitialBalance = 1000
    MinConfidence = 5
    RsiPeriod = 14
    RsiOverbought = 70
    RsiOversold = 30
    MacdFast = 12
    MacdSlow = 26
    MacdSignal = 9
    BBPeriod = 20
    BBStdDev = 2
    EmaShort = 9
    EmaLong = 21
    VolumeLookback = 20
    AtrPeriod = 14
    MinBars = 60
    ReturnLags = {1, 3, 5, 10, 20}
    VolumeLags = {5, 20}
    TrendLag = 5
    MinSamples = 20
    RsiPeriods = {7, 14}
    AverageWindows = {9, 21, 50}
    Warm = 50
    InitialTrain = 50
    RetrainEvery = 2
    MinTrainSamples = 2
    Deciders = {"rules"}
INVARIANTS TrendIsNotSold
CHECK_DEADLOCK FALSE
