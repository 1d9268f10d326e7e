-------------------------------- MODULE SignalFusion --------------------------------
(***************************************************************************)
(* How the Decision agent turns signals into the side of a proposal        *)
(* (agents/decision/signal_aggregator.py, proposal_builder.py).  A signal  *)
(* is a record with a direction; None stands for a signal that is absent   *)
(* or was dropped.  The strength of the fused direction has no reader, so  *)
(* only its side is modelled.                                              *)
(***************************************************************************)
EXTENDS Integers

CONSTANTS
    None,
    TechnicalWeight,   \* in the same unit: 7 and 3 for 0.7 and 0.3
    SentimentWeight

ASSUME FusionAssumption ==
    /\ TechnicalWeight \in Nat /\ SentimentWeight \in Nat
    /\ TechnicalWeight > SentimentWeight
    /\ SentimentWeight > 0

Directions == {"strong_buy", "buy", "neutral", "sell", "strong_sell"}

\* scalar_direction, in halves.
Scalar(direction) ==
    CASE direction = "strong_buy"  -> 2
      [] direction = "buy"         -> 1
      [] direction = "neutral"     -> 0
      [] direction = "sell"        -> -1
      [] direction = "strong_sell" -> -2

\* The side of a single direction.
SideOf(direction) ==
    CASE direction \in {"strong_buy", "buy"}   -> "buy"
      [] direction \in {"strong_sell", "sell"} -> "sell"
      [] direction = "neutral"                 -> "none"

Present(signal, x) == IF signal = None THEN 0 ELSE x

\* Twice score_sum and weight_sum.
ScoreSum(technical, sentiment) ==
    Present(technical, Scalar(technical.direction) * TechnicalWeight) +
    Present(sentiment, Scalar(sentiment.direction) * SentimentWeight)

WeightSum(technical, sentiment) ==
    Present(technical, TechnicalWeight) + Present(sentiment, SentimentWeight)

\* Wrong: the weights are swapped.
FusedSideSwapped(technical, sentiment) ==
    LET score  == Present(technical, Scalar(technical.direction) * SentimentWeight) +
                  Present(sentiment, Scalar(sentiment.direction) * TechnicalWeight)
        weight == Present(technical, SentimentWeight) + Present(sentiment, TechnicalWeight)
    IN  CASE weight = 0           -> "none"
          [] 2 * score >= weight  -> "buy"
          [] 2 * score <= -weight -> "sell"
          [] OTHER                -> "none"

\* aggregate, _scalar_to_direction and build: a composite score of a quarter decides
\* for a side, and a neutral one makes no proposal.
FusedSide(technical, sentiment) ==
    LET score  == ScoreSum(technical, sentiment)
        weight == WeightSum(technical, sentiment)
    IN  CASE weight = 0                           -> "none"
          [] weight # 0 /\ 2 * score >= weight  -> "buy"
          [] weight # 0 /\ 2 * score <= -weight -> "sell"
          [] OTHER                                -> "none"
================================================================================
