------------------------------ MODULE TrainingData ------------------------------
(***************************************************************************)
(* ml/model_trainer.py and its twin backtest/ml_eval.py: which rows and    *)
(* labels a model that is saved is fitted to and measured with.  Operators *)
(* only; bars are a sequence, oldest first.                                *)
(***************************************************************************)
EXTENDS FeatureRows, PriceLabels

CONSTANT
    MinSamples        \* below which train() raises

ASSUME TrainingAssumption == MinSamples \in Nat

\* Wrong: the rows without a label are taken off at the wrong end.
LoadDataTail(bars) ==
    LET rows   == BuildFeatureMatrix(bars)
        labels == Generate([b \in 0 .. Len(bars) - 1 |-> bars[b + 1].close], Len(bars))
        start  == MinBars - 1
        end    == Len(bars) - Horizon
    IN  IF end <= start THEN << >>
        ELSE [k \in 1 .. end - start |->
                [row |-> rows[k + Len(rows) - end + start], label |-> labels[start + k - 1]]]

\* load_data_from_db and _build_xy: rows start at bar MinBars - 1, labels end
\* Horizon bars before the end; both are cut to what they share.
LoadData(bars) ==
    LET rows   == BuildFeatureMatrix(bars)
        labels == Generate([b \in 0 .. Len(bars) - 1 |-> bars[b + 1].close], Len(bars))
        start  == MinBars - 1
        end    == Len(bars) - Horizon
    IN  IF end <= start THEN << >>
        ELSE [k \in 1 .. end - start |-> [row |-> rows[k], label |-> labels[start + k - 1]]]

\* train: nothing is fitted to too few samples; the first four fifths are what the
\* model is fitted to, the rest is what it is measured with.
Trained(samples) == Len(samples) >= MinSamples
TrainSize(samples) == (Len(samples) * 8) \div 10
===============================================================================
