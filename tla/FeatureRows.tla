------------------------------ MODULE FeatureRows ------------------------------
(***************************************************************************)
(* agents/technical_analysis/ml/feature_engineer.py: the row of features   *)
(* of a bar, taken live from a buffer or, for training, from series that   *)
(* were computed once over a whole history.  Operators only.               *)
(*                                                                         *)
(* Bars are a sequence, oldest first.  Quotients are in thousandths; the   *)
(* width of a band and the place in it are functions of Bands; the         *)
(* logarithm of the return, its trend strength and the time of day are     *)
(* functions of what is in the row already or of the bar alone.  The       *)
(* lengths that the code has as literals are the indicators' defaults.     *)
(***************************************************************************)
EXTENDS Indicators

CONSTANTS
    MinBars,          \* MIN_BARS_REQUIRED
    ReturnLags, VolumeLags, TrendLag, RsiPeriods, AverageWindows

\* "Longest lookback used by any feature": no series is undefined at a bar that
\* has a row, so that what stands in for an undefined value is never used.
ASSUME FeatureAssumption ==
    /\ MinBars \in Nat \ {0, 1}
    /\ ReturnLags \union VolumeLags \union RsiPeriods \union {TrendLag, AtrPeriod}
          \subseteq 1 .. MinBars - 1
    /\ AverageWindows \union {BBPeriod, MacdSlow + MacdSignal - 1} \subseteq 1 .. MinBars
    /\ {EmaShort, EmaLong} \subseteq AverageWindows

Column(bars, field) == [k \in DOMAIN bars |-> bars[k][field]]

\* _safe_div.
SafeDiv(num, denom, default) == IF denom = 0 THEN default ELSE (1000 * num) \div denom

\* _rsi: unlike the indicator's, it has a value at the seed, and a market in which
\* nothing fell is at 100, or in the middle if nothing rose either; at the seed
\* the latter is at 0.
RsiColumn(closes, p) ==
    LET n == Len(closes)
        gain == Wilder(Gains(closes), 2, n, p)
        loss == Wilder(Losses(closes), 2, n, p)
        Still(k) == IF gain[k] > 0 THEN 10000 ELSE IF k = p + 1 THEN 0 ELSE 5000
    IN  [k \in p + 1 .. n |-> RsiOf(gain[k], loss[k], Still(k))]

\* _ema, _macd's histogram, _atr and _bollinger: the formulas of the indicators.
EmaColumn(closes, p) == Ema(closes, 1, Len(closes), p)
HistColumn(closes) == Macd(closes, MacdFast, MacdSlow, MacdSignal)
AtrColumn(bars) ==
    Atr(Column(bars, "high"), Column(bars, "low"), Column(bars, "close"), AtrPeriod)
BandAt(closes, k) == Bands(closes, k, BBPeriod)

\* The series computed once for all rows.
Precomputed(bars) ==
    LET closes == Column(bars, "close")
    IN  [closes |-> closes,
         volumes |-> Column(bars, "volume"),
         rsi  |-> [p \in RsiPeriods |-> RsiColumn(closes, p)],
         hist |-> HistColumn(closes),
         atr  |-> AtrColumn(bars),
         ema  |-> [p \in AverageWindows |-> EmaColumn(closes, p)]]

\* macd_signal_cross: the histogram changed its side in one of the last three
\* steps; lags at which it is undefined are skipped.
Crossed(hist, k) ==
    \E lag \in 1 .. 3 :
        LET before == k - lag
        IN  /\ {before, before + 1} \subseteq DOMAIN hist
            /\ \/ hist[before] <= 0 /\ hist[before + 1] > 0
               \/ hist[before] >= 0 /\ hist[before + 1] < 0

\* The parts of the row of position k, in their order; s is what is precomputed.
PriceFeatures(c, s, k) ==
    [returns |->
        [lag \in ReturnLags |-> SafeDiv(c.close - s.closes[k - lag], s.closes[k - lag], 0)],
     high_low_ratio |-> SafeDiv(c.high - c.low, c.close, 0),
     close_position |-> SafeDiv(c.close - c.low, c.high - c.low, 500)]

VolumeFeatures(c, s, k) ==
    [volume_ratio |->
        [lag \in VolumeLags |-> SafeDiv(lag * c.volume, SumOver(s.volumes, k - lag, k - 1), 1000)],
     volume_trend |-> SafeDiv(c.volume - s.volumes[k - TrendLag], s.volumes[k - TrendLag], 0)]

MomentumFeatures(c, s, k) ==
    [rsi |-> [p \in RsiPeriods |-> s.rsi[p][k]],
     macd_hist |-> SafeDiv(s.hist[k], c.close, 0),
     macd_signal_cross |-> Crossed(s.hist, k)]

VolatilityFeatures(c, s, k) ==
    [atr_pct |-> SafeDiv(s.atr[k], c.close, 0), bb |-> BandAt(s.closes, k)]

TrendFeatures(c, s, k) ==
    [ema_dist |-> [p \in AverageWindows |-> SafeDiv(c.close - s.ema[p][k], c.close, 0)],
     ema_cross |-> s.ema[EmaShort][k] > s.ema[EmaLong][k]]

CandleFeatures(c) ==
    LET range == c.high - c.low
        top == Larger(c.open, c.close)
        bottom == c.open + c.close - top
    IN  [candle_body |-> SafeDiv(top - bottom, range, 0),
         upper_wick |-> SafeDiv(c.high - top, range, 0),
         lower_wick |-> SafeDiv(bottom - c.low, range, 0)]

\* _row_from_precomputed: the row of position k.
RowAt(bars, s, k) ==
    LET c == bars[k]
    IN  <<PriceFeatures(c, s, k), VolumeFeatures(c, s, k), MomentumFeatures(c, s, k),
          VolatilityFeatures(c, s, k), TrendFeatures(c, s, k), CandleFeatures(c)>>

\* build_features: the row of the buffer's last bar, none of a short buffer.
BuildFeatures(buffer) ==
    IF Len(buffer) < MinBars THEN << >>
    ELSE RowAt(buffer, Precomputed(buffer), Len(buffer))

\* build_feature_matrix: its first row is that of the first bar that can have one.
BuildFeatureMatrix(bars) ==
    LET s == Precomputed(bars)
    IN  [r \in 1 .. Larger(Len(bars) - MinBars + 1, 0) |-> RowAt(bars, s, r + MinBars - 1)]
===============================================================================
