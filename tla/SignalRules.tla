------------------------------ MODULE SignalRules ------------------------------
(***************************************************************************)
(* agents/technical_analysis/signal_generator.py: how the indicators vote. *)
(* A reading is a function from the four indicators that have a weight to  *)
(* what they say, or Missing.  Scalars are counted in halves and weights   *)
(* in twentieths; confidence is compared, never computed, because the      *)
(* agreement is a square root.                                             *)
(***************************************************************************)
EXTENDS Indicators

CONSTANT
    MinConfidence     \* in tenths

ASSUME ConfidenceAssumption == MinConfidence \in 0 .. 10

\* indicator_map, in its order.
Voters == <<"rsi", "macd", "bb", "ema">>

\* INDICATOR_WEIGHTS.
Weight == [rsi |-> 5, macd |-> 6, bb |-> 4, ema |-> 5]

VoterNames == {Voters[k] : k \in 1 .. 4}

AllReadings == [VoterNames -> Directions \union {Missing}]

Volumes == {"high", "usual", "low", Missing}

\* _direction_to_scalar.
Scalar(d) ==
    CASE d = "strong_buy"  -> 2
      [] d = "buy"         -> 1
      [] d = "sell"        -> -1
      [] d = "strong_sell" -> -2
      [] OTHER             -> 0

\* The sum of one number per indicator that could be computed.
OfPresent(r, number) ==
    SumOver([k \in 1 .. 4 |-> IF r[Voters[k]] = Missing THEN 0 ELSE number[Voters[k]]], 1, 4)

Count(r) == OfPresent(r, [x \in VoterNames |-> 1])

\* Wrong: an indicator that could not be computed is divided by all the same.
TotalWeightOfAll(r) == 20

\* total_weight: that of the indicators that could be computed.
TotalWeight(r) == OfPresent(r, Weight)

\* The composite score is Score / (2 * TotalWeight).
Score(r) == OfPresent(r, [x \in VoterNames |-> Weight[x] * Scalar(r[x])])

\* _scalar_to_direction: thresholds 0.65 and 0.25 on both sides.
DirectionOf(score, weight) ==
    IF 10 * score >= 13 * weight THEN "strong_buy"
    ELSE IF 2 * score >= weight THEN "buy"
    ELSE IF 10 * score <= -(13 * weight) THEN "strong_sell"
    ELSE IF 2 * score <= -weight THEN "sell"
    ELSE "neutral"

\* _compute_agreement: the agreement of n readings is 1 - sqrt(Spread) / (2 * n),
\* whatever their weights.
Spread(r) ==
    LET total == OfPresent(r, [x \in VoterNames |-> Scalar(r[x])])
    IN  Count(r) * OfPresent(r, [x \in VoterNames |-> Scalar(r[x]) * Scalar(r[x])]) - total * total

VolumeTenths(volume) ==
    CASE volume = "high" -> 1
      [] volume = "low"  -> -1
      [] OTHER           -> 0

\* Wrong: disagreement counts for nothing.
ConfidentWhateverSpread(r, volume, tenths) ==
    (6 + VolumeTenths(volume) - tenths) * TotalWeight(r) + 2 * Abs(Score(r)) >= 0

\* 0.6 * agreement + 0.4 * |score|, moved by the volume, reaches the minimum.  The
\* clamps to [0, 1] only matter for a minimum of 0.
Confident(r, volume, tenths) ==
    LET n == Count(r)
        w == TotalWeight(r)
        rest == (6 + VolumeTenths(volume) - tenths) * n * w + 2 * n * Abs(Score(r))
    IN  tenths = 0 \/ (rest >= 0 /\ rest * rest >= 9 * w * w * Spread(r))

\* What generate returns of a warm buffer's readings: a direction or "none".
Vote(r, volume, tenths) ==
    IF Count(r) < 2 \/ ~Confident(r, volume, tenths) THEN "none"
    ELSE DirectionOf(Score(r), TotalWeight(r))

\* The readings of a buffer.
ReadingsOf(closes) ==
    [rsi |-> ComputeRsi(closes), macd |-> ComputeMacd(closes),
     bb |-> ComputeBollinger(closes), ema |-> ComputeEmaCross(closes)]
-----------------------------------------------------------------------------
Says(r, sides) == \A x \in VoterNames : r[x] = Missing \/ r[x] \in sides

Bulls == {"buy", "strong_buy"}
Bears == {"sell", "strong_sell"}

\* The votes that go wrong, as pairs of readings and a volume.
Unheard ==
    {p \in AllReadings \X Volumes :
        LET v == Vote(p[1], p[2], MinConfidence)
        IN  /\ Count(p[1]) >= 2
            /\ \/ Says(p[1], Bulls) /\ v \notin Bulls
               \/ Says(p[1], Bears) /\ v \notin Bears}

Overruling ==
    {p \in AllReadings \X Volumes :
        LET v == Vote(p[1], p[2], MinConfidence)
        IN  \E x \in VoterNames :
                \/ p[1][x] = "strong_sell" /\ v \in Bulls
                \/ p[1][x] = "strong_buy" /\ v \in Bears}
===============================================================================
