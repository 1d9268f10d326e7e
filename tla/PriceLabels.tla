------------------------------ MODULE PriceLabels ------------------------------
(***************************************************************************)
(* agents/technical_analysis/ml/label_generator.py: the label of a bar is  *)
(* the sign of its return over the next Horizon bars, if it is large       *)
(* enough.  Operators only.  A series of closes is a function on 0..n-1,   *)
(* as the code's arrays are indexed.  Thresholds are per mille.            *)
(***************************************************************************)
EXTENDS Integers

CONSTANTS
    Horizon,      \* bars a label looks ahead
    Threshold     \* the return that makes a label, per mille

\* LabelGenerator.__init__ raises on anything else.
ASSUME LabelAssumption ==
    /\ Horizon \in Nat \ {0}
    /\ Threshold \in Nat \ {0}

Labels == {"sell", "hold", "buy"}

\* The price that is not there yet: no label.
NaN == "nan"

\* What the return from one price to another is called; a price that is not
\* positive is bad data and counts as no return.
ReturnLabel(present, future) ==
    IF present <= 0 THEN "hold"
    ELSE IF 1000 * (future - present) > Threshold * present THEN "buy"
    ELSE IF 1000 * (future - present) < -(Threshold * present) THEN "sell"
    ELSE "hold"

\* The labels of a series of n closes: the last Horizon bars have none.
Generate(closes, n) ==
    [b \in 0 .. n - 1 |->
        IF b + Horizon <= n - 1 THEN ReturnLabel(closes[b], closes[b + Horizon])
                                ELSE NaN]
===============================================================================
