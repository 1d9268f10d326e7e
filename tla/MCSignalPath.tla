------------------------------- MODULE MCSignalPath -------------------------------
EXTENDS SignalPath

Model == INSTANCE ModelSignal WITH MinConfidence <- 50

\* A classifier that is unsure, torn between the sides, sure of a rise, or cannot
\* predict; the price is below or above its mean.
ModelReadings ==
    LET Said(sell, buy, dist) ==
            Model!MLSignals(TRUE, TRUE, [sell |-> sell, hold |-> 100 - sell - buy, buy |-> buy], dist)
    IN  Said(40, 10, -1) \union Said(50, 50, -1) \union Said(15, 80, 1)
        \union Model!MLSignals(TRUE, FALSE, [sell |-> 0, hold |-> 0, buy |-> 100], 1)

\* A rule's signal says nothing of the trend, a model's does.
MCReadings == {<<"buy", "none">>} \union ModelReadings
================================================================================
