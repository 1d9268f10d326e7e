------------------------------- MODULE ModelSignal -------------------------------
(***************************************************************************)
(* What the technical agent's classifier says, as a signal                 *)
(* (ml/ml_signal_generator.py).  Probabilities are in percent and stand    *)
(* for a call of predict_proba; dist is the distance of the price to its   *)
(* mean, the feature ema_50_dist.                                          *)
(***************************************************************************)
EXTENDS Integers

CONSTANT MinConfidence   \* min_signal_confidence, 0 to 100

DirectionalThreshold == 35

Probabilities ==
    {p \in [sell : 0..100, hold : 0..100, buy : 0..100] : p.sell + p.hold + p.buy = 100}

\* A side counts that clears the threshold and beats the other one, whatever "hold" has.
Leads(p, q) == p >= DirectionalThreshold /\ p > q

Direction(p) ==
    CASE Leads(p.buy, p.sell) -> "buy"
      [] Leads(p.sell, p.buy) -> "sell"
      [] OTHER                -> "neutral"

\* In each of the three cases that of the likelier side.
Confidence(p) == IF p.sell > p.buy THEN p.sell ELSE p.buy

\* The metadata the decision agent's trend filter reads.
Trend(dist) ==
    CASE dist < 0 -> "below"
      [] dist > 0 -> "above"
      [] dist = 0 -> "none"

\* generate: no signal without a loaded model, without features or a prediction, or
\* below the confidence asked for; a model of other features fails at each prediction.
MLSignals(loaded, predicted, p, dist) ==
    {s \in {<<Direction(p), Trend(dist)>>} :
        loaded /\ predicted /\ Confidence(p) >= MinConfidence}
================================================================================
