------------------------------ MODULE WalkForward ------------------------------
(***************************************************************************)
(* backtest/walkforward.py and the deciders of backtest/engine.py and      *)
(* backtest/benchmarks.py, over the replay loop.  The walk-forward model   *)
(* has features and labels of the whole history in memory from the start,  *)
(* so that nothing but its arithmetic keeps the future out of what it is   *)
(* trained on.  What a fitted model says of a bar is arbitrary; a model is *)
(* the samples it was fitted to.                                           *)
(***************************************************************************)
EXTENDS BacktestEngine, SignalRules, TrainingData, FiniteSets

CONSTANTS
    Warm,             \* bars until a buffer is warm (rules, random entry)
    InitialTrain, RetrainEvery, MinTrainSamples,
    Deciders          \* the strategies replayed

ASSUME WalkForwardAssumption ==
    /\ Warm \in Nat
    /\ {InitialTrain, RetrainEvery, MinTrainSamples} \subseteq Nat
    /\ Deciders \subseteq {"rules", "random", "walk_forward"}

VARIABLES
    decider,      \* the strategy of this replay
    model,        \* the samples the current model was fitted to, or None
    lastTrain,    \* the bar of the last fit, meaningless before the first
    asked         \* the bar the decider was asked about last, -1 before

vars == <<candles, i, pending, book, curve, over, decider, model, lastTrain, asked>>

N == LastBar + 1
Closes == [b \in Bars |-> candles[b].close]

\* The buffer after bar t, as the live agent would have filled it.  The histories
\* of the model are shorter than its capacity.
Buffer(t) == [k \in 1 .. t + 1 |-> candles[k - 1]]

\* X_full: the rows of the whole history, computed at once, and the first bar
\* that has one.
XFull == BuildFeatureMatrix(Buffer(LastBar))
Start == MinBars - 1

\* y_full: labels are generated once, from all closes.
YFull == Generate(Closes, N)

\* Wrong: every labelled bar seen so far, realised or not.
TrainingBarsUnrealised(t) == {b \in Start .. t : YFull[b] # NaN}

\* The bars a fit at bar t is trained on: labels realised by t, none missing.
TrainingBars(t) == {b \in Start .. t - Horizon : YFull[b] # NaN}

Samples(t) == [b \in TrainingBars(t) |-> YFull[b]]

ClassesOf(samples) == {samples[b] : b \in DOMAIN samples}

\* Wrong: a model serves one bar too many.
FreshTooLong(t) == model # None /\ t - lastTrain <= RetrainEvery

\* _maybe_retrain leaves the old model alone for RetrainEvery bars.
Fresh(t) == model # None /\ t - lastTrain < RetrainEvery

Trainable(t) ==
    /\ t - Horizon - Start >= 0
    /\ Cardinality(TrainingBars(t)) >= MinTrainSamples
    /\ Cardinality(ClassesOf(Samples(t))) >= 2

MaybeRetrain(t) ==
    IF ~Fresh(t) /\ Trainable(t)
    THEN model' = Samples(t) /\ lastTrain' = t
    ELSE UNCHANGED <<model, lastTrain>>

\* Wrong: the row of the next bar.
RowForBarNext(t) == t - Start + 2

\* _row_for_bar: bars before the first row have none.
RowForBar(t) == t - Start + 1
HasRow(t) == t >= Start /\ RowForBar(t) <= N - Start

\* What the walk-forward model may answer; with no model, None.
Answers(m, t) == IF m = None \/ ~HasRow(t) THEN {None} ELSE {"buy", "sell", None}

\* The walk-forward decider: nothing before InitialTrain, then a fit if one is
\* due and a forecast of this bar.
DecideWalkForward(t, d) ==
    /\ decider = "walk_forward"
    /\ IF t < InitialTrain
       THEN d = None /\ UNCHANGED <<model, lastTrain>>
       ELSE MaybeRetrain(t) /\ d \in Answers(model', t)

\* The rule-based generator, asked with the confidence of the backtest.
RulesDecide(t) ==
    LET bars == Buffer(t)
        vote == Vote(ReadingsOf(Column(bars, "close")), VolumeOf(Column(bars, "volume")),
                     MinConfidence)
    IN  IF t + 1 < Warm THEN None
        ELSE IF vote \in Bulls THEN "buy"
        ELSE IF vote \in Bears THEN "sell"
        ELSE None

DecideRules(t, d) ==
    /\ decider = "rules"
    /\ d = RulesDecide(t)
    /\ UNCHANGED <<model, lastTrain>>

\* The random entries of the benchmark.
DecideRandom(t, d) ==
    /\ decider = "random"
    /\ d \in IF t + 1 < Warm THEN {None} ELSE {"buy", "sell", None}
    /\ UNCHANGED <<model, lastTrain>>

\* One bar; the decider is not asked about the last one.
NextBar ==
    \E d \in {"buy", "sell", None} :
        /\ ReplayBar(d)
        /\ IF i < LastBar
           THEN /\ DecideWalkForward(i, d) \/ DecideRules(i, d) \/ DecideRandom(i, d)
                /\ asked' = i
           ELSE d = None /\ UNCHANGED <<model, lastTrain, asked>>
        /\ UNCHANGED decider

Finish == EndOfData /\ UNCHANGED <<decider, model, lastTrain, asked>>

Init ==
    /\ EngineInit
    /\ decider \in Deciders
    /\ model = None
    /\ lastTrain = 0
    /\ asked = -1

Next == NextBar \/ Finish

Spec == Init /\ [][Next]_vars
-----------------------------------------------------------------------------
(***************************************************************************)
(* Properties.                                                             *)
(***************************************************************************)
Trades == {book.trades[k] : k \in 1 .. Len(book.trades)}

\* Type correctness of the replay's variables.
TypeOK ==
    /\ candles \in Histories
    /\ i \in 0 .. N
    /\ pending \in {"buy", "sell", None}
    /\ book.realized \in Int
    /\ book.position = None \/
          /\ book.position.side \in {"buy", "sell"}
          /\ book.position.entered \in Bars
          /\ book.position.qty \in Nat
    /\ \A t \in Trades : t.entered \in Bars /\ t.exited \in Bars /\ t.pnl \in Int
    /\ Len(curve) = i
    /\ over \in BOOLEAN
    /\ decider \in Deciders
    /\ model = None \/ DOMAIN model \subseteq Bars
    /\ lastTrain \in Bars
    /\ asked \in -1 .. LastBar - 1

\* No look-ahead, line 11 of walkforward.py: every label a model was fitted to is
\* the one that the bars known at the fit give by themselves.
TrainsOnThePast ==
    model # None =>
        LET known == Generate(Closes, lastTrain + 1)
        IN  \A b \in DOMAIN model : b <= lastTrain /\ model[b] = known[b]

\* "Each row uses bars [0 .. i]", line 280 of feature_engineer.py: the row that the
\* model is asked with at a bar, taken from series computed over the whole
\* history, is the one the live agent computes from its buffer at that bar.
RowsAreCausal ==
    i = 0 =>
        LET rows == XFull
        IN  \A t \in Bars :
                IF HasRow(t) THEN rows[RowForBar(t)] = BuildFeatures(Buffer(t))
                             ELSE t + 1 < MinBars

\* The data set of a model that is saved: one sample for every bar that has both
\* features and a label, made of the row the live agent will compute and of the
\* return that followed; what the model is fitted to lies before what it is
\* measured with.  (The labels of the last Horizon samples before the split look
\* at closes behind it.)
SamplesAligned ==
    i = 0 =>
        LET samples == LoadData(Buffer(LastBar))
            BarOf(k) == Start + k - 1
        IN  /\ Len(samples) = Cardinality({b \in Bars : b >= Start /\ b + Horizon <= LastBar})
            /\ \A k \in 1 .. Len(samples) :
                  /\ samples[k].row = BuildFeatures(Buffer(BarOf(k)))
                  /\ samples[k].label =
                        ReturnLabel(Closes[BarOf(k)], Closes[BarOf(k) + Horizon])
            /\ Trained(samples) => TrainSize(samples) \in 1 .. Len(samples) - 1

\* "This avoids RSI=99 being read as SELL in a powerful bull market", line 203 of
\* indicators.py: a warm buffer whose closes have only risen is not sold on RSI.
TrendIsNotSold ==
    (asked + 1 >= Warm /\ \A b \in 1 .. asked : Closes[b] > Closes[b - 1]) =>
        ComputeRsi(Column(Buffer(asked), "close")) \notin Bears

\* "Confidence measures agreement", line 26 of signal_generator.py: two or more
\* indicators that all point to one side are never filtered out nor called
\* neutral, however weakly they point there and whatever the volume says.  The
\* minimum of 0.5 is exceeded by 0.11 at worst.
UnanimityIsHeard == i = 0 => Unheard = {}

\* "many neutral readings are better than a false directional signal", line 123
\* there: no direction is emitted against an indicator at the other extreme.
ExtremesSilence == i = 0 => Overruling = {}

\* "That model predicts bars [t, t+retrain_every)", line 12 of walkforward.py:
\* once there is a model it never answers for a bar beyond its term, because
\* what could be fitted once can be fitted again.
ModelInTerm ==
    model # None => lastTrain <= asked /\ asked < lastTrain + RetrainEvery

\* The trades are disjoint in time and, with the open position, they cover
\* exactly the points of the curve that count as in the market: what exposure
\* and the trade statistics of the report say belong to the same positions.
CurveMatchesTrades ==
    /\ \A j, k \in 1 .. Len(book.trades) :
          j < k => book.trades[j].exited <= book.trades[k].entered
    /\ \A k \in 1 .. Len(curve) :
          curve[k].inMarket <=>
            \/ \E t \in Trades : t.entered <= k - 1 /\ k - 1 < t.exited
            \/ book.position # None /\ book.position.entered <= k - 1

\* Line 10 of engine.py and "adverse level checked first": a bar that takes a
\* profit has not touched the position's stop, and a level that is traded at was
\* in the bar's range or the bar opened beyond it.
BracketsAreAdverse ==
    \A t \in Trades :
        LET c == candles[t.exited]
            profit == t.reason = "take_profit"
            entry == Fill(t.side, candles[t.entered].open)
            p == [side |-> t.side, entry |-> entry]
        IN  /\ profit => ~Stopped(p, c)
            /\ t.reason \in {"stop_loss", "take_profit"} =>
                  \/ c.low <= t.raw /\ t.raw <= c.high
                  \/ t.entered < t.exited /\ ((t.side = "buy") = (profit = (c.open > t.raw)))
===============================================================================
