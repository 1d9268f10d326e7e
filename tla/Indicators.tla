------------------------------ MODULE Indicators ------------------------------
(***************************************************************************)
(* agents/technical_analysis/indicators.py and the same formulas of        *)
(* ml/feature_engineer.py.  Operators only.                                *)
(*                                                                         *)
(* Prices and volumes are sequences of integers, oldest first.  A computed *)
(* series is a function on the positions where the code's array is not     *)
(* NaN.  Divisions round down; a standard deviation is represented by its  *)
(* square, and comparisons with it are comparisons of squares.             *)
(***************************************************************************)
EXTENDS Integers, Sequences

CONSTANTS
    RsiPeriod, RsiOverbought, RsiOversold,   \* levels in per cent
    MacdFast, MacdSlow, MacdSignal,
    BBPeriod, BBStdDev,
    EmaShort, EmaLong,
    VolumeLookback, AtrPeriod

ASSUME IndicatorAssumption ==
    /\ {RsiPeriod, MacdFast, MacdSlow, MacdSignal, BBPeriod, BBStdDev,
        EmaShort, EmaLong, AtrPeriod} \subseteq Nat \ {0}
    /\ MacdFast <= MacdSlow /\ EmaShort <= EmaLong /\ VolumeLookback \in Nat \ {0, 1}
    /\ RsiOversold \in 0 .. RsiOverbought /\ RsiOverbought \in 0 .. 100

Directions == {"strong_sell", "sell", "neutral", "buy", "strong_buy"}

\* An indicator that raised InsufficientDataError.
Missing == "missing"

Abs(x) == IF x < 0 THEN -x ELSE x
Larger(x, y) == IF x < y THEN y ELSE x

\* The sum of v over the positions a..b.
SumOver(v, a, b) ==
    LET s[k \in a - 1 .. b] == IF k < a THEN 0 ELSE s[k - 1] + v[k]
    IN  s[b]

\* np.mean of the positions a..b.
MeanOver(v, a, b) == SumOver(v, a, b) \div (b - a + 1)

\* The exponential average of a series given on first..last: it starts at the
\* position of the p-th value with the mean of the values up to there.
Ema(v, first, last, p) ==
    LET seed == first + p - 1
        e[k \in seed .. last] ==
            IF k = seed THEN MeanOver(v, first, seed)
                        ELSE (2 * v[k] + (p - 1) * e[k - 1]) \div (p + 1)
    IN  e

\* Wilder's smoothing, which RSI and ATR share: the mean of the first p values,
\* then one p-th of each new one.
Wilder(v, first, last, p) ==
    LET seed == first + p - 1
        w[k \in seed .. last] ==
            IF k = seed THEN MeanOver(v, first, seed)
                        ELSE ((p - 1) * w[k - 1] + v[k]) \div p
    IN  w

\* Gains and losses, a hundred times; there are none at the first position.
Gains(closes) ==
    [k \in 2 .. Len(closes) |-> 100 * Larger(closes[k] - closes[k - 1], 0)]
Losses(closes) ==
    [k \in 2 .. Len(closes) |-> 100 * Larger(closes[k - 1] - closes[k], 0)]

\* RSI from the two averages, in hundredths; whatever it is when nothing fell.
RsiOf(gain, loss, nothingFell) ==
    IF loss > 0 THEN (10000 * gain) \div (gain + loss) ELSE nothingFell

\* _rsi_numpy: the seed gives no value, and without losses rs is 100.
Rsi(closes, p) ==
    LET n == Len(closes)
        gain == Wilder(Gains(closes), 2, n, p)
        loss == Wilder(Losses(closes), 2, n, p)
    IN  [k \in p + 2 .. n |-> RsiOf(gain[k], loss[k], 9900)]

\* compute_rsi: a level at which the market counts as bought or sold out is read
\* against its direction if RSI turns, and with it as long as RSI rises.
ComputeRsi(closes) ==
    LET n == Len(closes)
        rsi == Rsi(closes, RsiPeriod)
        now == rsi[n]
        rising == n - 1 \in DOMAIN rsi /\ now > rsi[n - 1]
    IN  IF n \notin DOMAIN rsi THEN Missing
        ELSE IF now <= 100 * RsiOversold
             THEN IF now <= 2000 THEN "strong_buy" ELSE "buy"
        ELSE IF now >= 100 * RsiOverbought
             THEN IF rising THEN IF now < 9000 THEN "buy" ELSE "neutral"
                  ELSE IF now >= 8000 THEN "strong_sell" ELSE "sell"
        ELSE "neutral"

\* _macd_numpy: the histogram.  The signal line is the average of a line that
\* starts with the slow average.
MacdLine(closes, fast, slow) ==
    LET n == Len(closes)
        quick == Ema(closes, 1, n, fast)
        late == Ema(closes, 1, n, slow)
    IN  [k \in slow .. n |-> quick[k] - late[k]]

Macd(closes, fast, slow, signal) ==
    LET line == MacdLine(closes, fast, slow)
        average == Ema(line, slow, Len(closes), signal)
    IN  [k \in DOMAIN average |-> line[k] - average[k]]

\* compute_macd: momentum counts while it grows.  A histogram of zero is decided
\* by the lines it is the difference of, which are equal then.
ComputeMacd(closes) ==
    LET n == Len(closes)
        hist == Macd(closes, MacdFast, MacdSlow, MacdSignal)
        now == hist[n]
        before == hist[n - 1]
        surge == 2 * Abs(now) > 3 * Abs(before)
    IN  IF n < MacdSlow + MacdSignal + 1 THEN Missing
        ELSE IF now = 0 THEN "neutral"
        ELSE IF now > 0 /\ now > before THEN IF surge THEN "strong_buy" ELSE "buy"
        ELSE IF now < 0 /\ now <= before THEN IF surge THEN "strong_sell" ELSE "sell"
        ELSE "neutral"

\* _bbands_numpy at position k: how far the price is from the mean of the window
\* and the standard deviation, p times each, the latter squared.
Bands(closes, k, p) ==
    LET total == SumOver(closes, k - p + 1, k)
        squares == SumOver([j \in DOMAIN closes |-> closes[j] * closes[j]], k - p + 1, k)
    IN  [off |-> p * closes[k] - total, dev2 |-> p * squares - total * total, sum |-> total]

\* Whether the price is at least tenths/10 of the band's half width away.
Beyond(b, tenths) == 100 * b.off * b.off >= tenths * tenths * BBStdDev * BBStdDev * b.dev2

\* compute_bollinger_bands: percent_b at most 0 or 0.1, at least 1 or 0.9, that is
\* 10/10 or 8/10 of the half width below or above the mean.  A band of no width
\* has its price in the middle.
ComputeBollinger(closes) ==
    LET b == Bands(closes, Len(closes), BBPeriod)
    IN  IF Len(closes) < BBPeriod THEN Missing
        ELSE IF b.dev2 = 0 \/ ~Beyond(b, 8) THEN "neutral"
        ELSE IF b.off < 0 THEN IF Beyond(b, 10) THEN "strong_buy" ELSE "buy"
        ELSE IF Beyond(b, 10) THEN "strong_sell" ELSE "sell"

\* compute_ema_cross: a cross on the last bar, or a spread of 0.3 % of the slower
\* average.
ComputeEmaCross(closes) ==
    LET n == Len(closes)
        short == Ema(closes, 1, n, EmaShort)
        long == Ema(closes, 1, n, EmaLong)
        above == short[n] > long[n]
        wide == 1000 * Abs(short[n] - long[n]) > 3 * long[n]
    IN  IF n < EmaLong + 1 THEN Missing
        ELSE IF above # (short[n - 1] > long[n - 1])
             THEN IF above THEN "strong_buy" ELSE "strong_sell"
        ELSE IF ~wide THEN "neutral"
        ELSE IF above THEN "buy" ELSE "sell"

\* compute_volume_signal and the generator's two thresholds on its ratio, 1.5 and
\* 0.6: what the last volume is to the mean of the others of the lookback.
VolumeOf(volumes) ==
    LET n == Len(volumes)
        others == SumOver(volumes, n - VolumeLookback + 1, n - 1)
        now == volumes[n] * (VolumeLookback - 1)
    IN  IF n < VolumeLookback THEN Missing
        ELSE IF others = 0 THEN "usual"
        ELSE IF 2 * now >= 3 * others THEN "high"
        ELSE IF 5 * now <= 3 * others THEN "low"
        ELSE "usual"

\* _atr_numpy.
TrueRanges(highs, lows, closes) ==
    [k \in 2 .. Len(closes) |->
        Larger(highs[k] - lows[k],
               Larger(Abs(highs[k] - closes[k - 1]), Abs(lows[k] - closes[k - 1])))]

Atr(highs, lows, closes, p) ==
    Wilder(TrueRanges(highs, lows, closes), 2, Len(closes), p)

\* compute_atr: the regime that goes to Risk with the signal, 0.5 % and 2 %.
ComputeAtr(highs, lows, closes) ==
    LET n == Len(closes)
        atr == Atr(highs, lows, closes, AtrPeriod)[n]
    IN  IF n < AtrPeriod + 1 THEN Missing
        ELSE IF 1000 * atr < 5 * closes[n] THEN "low"
        ELSE IF 100 * atr > 2 * closes[n] THEN "high"
        ELSE "normal"
===============================================================================
