# A verification of the multi-agent trading system

TLA+ modules that model the trading core of the repository, TLC runs that check
them on small instances, and TLAPS proofs of what matters most. Paths below are
relative to `src/`.

## 1. The system

Agents are asyncio processes that talk over Redis pub/sub (at most once, FIFO
per channel) and keep a few keys in Redis. In production each agent is a
container; `scripts/start.py` runs all of them in one event loop.

| Component | State | Operations | Talks to |
|---|---|---|---|
| Market data (`agents/market_data`) | seen candles per symbol and timeframe, gap statistics | fetch a history, poll, drop duplicates and forming candles, publish, write rows | publishes candles, tickers; database |
| Technical analysis (`agents/technical_analysis`) | candle buffers, time of the last signal | warm up from the database, buffer, compute, suppress, publish | candles in, `signal.technical` out |
| Decision (`agents/decision`) | latest technical and sentiment signal per symbol | store, fuse, filter by trend, build a proposal | signals in, `decision.proposal` out |
| Risk (`agents/risk`) | in-memory ledger (cash, positions, daily figures), breaker, seen results | evaluate, reserve, halt, apply results | `decision.proposal`, `execution.result` in; `risk.assessment`, `system.risk_override`, latch out |
| Execution (`agents/execution`) | broker (cash, positions, filled orders) and its copy in Redis, prices | place, close on stop loss or take profit, publish, save and restore | `risk.assessment` in; `execution.result` out |
| MT5 bridge and EA (`agents/execution/mt5_bridge.py`, `mt5_ea/`) | command queue, pending results, terminal state | HTTP polling, place, close, time out | the terminal |
| Base agent and supervisor (`agents/base.py`, `scripts/start.py`) | status, consecutive errors, halted flag | start, stop, quarantine, restart, heartbeat | latch, override channel |
| Control API (`api/`) | the latch | halt, resume, commands, WebSocket fan-out | Redis |
| Monitoring (`agents/monitoring`) | last heartbeat and status per agent | staleness, alerts, health | heartbeats, overrides |
| Machine learning (`agents/technical_analysis/ml`) | model files and a pointer to the latest | features, labels, train, save, load, forecast | files, database; used by the technical agent |
| Backtest (`backtest/`) | a simulated portfolio and its equity curve | replay a history with rules, random entries or a model refitted on the way; report | files |

What is hard here: two processes keep the same portfolio (Risk's ledger and the
broker) and are only connected by messages; inside Execution two tasks, the
assessment loop and the stop-loss monitor, share one broker and yield at every
await; errors are counted and end an agent; halts have to reach agents that
run, that are starting and that start later; state is restored after a restart
on one side and not on the other; days change under the daily loss limit;
signals and candles carry ages that are checked far from where they arise; the
terminal is polled and its answers come late or never; silence is the only sign
of a crash; a model is trained by one process, file by file, and loaded by
another; a backtest has the whole history in memory and must not look at it.

What makes the parts correct: ledger and broker are the same portfolio when
nothing is in flight; limits hold at the broker, not only in the ledger; no
proposal fills twice; every reservation is eventually confirmed, closed or
released; a breached limit ends all trading and a halt is final until an
operator clears it; money is neither created nor lost by bookkeeping; what was
published is saved; each candle goes out once and final; no proposal goes
against its own technical signal, and none rests on old data; a command to the
terminal is executed at most once and a fill is reported only if it happened; a
silent agent raises an alert in time; indicators that agree are heard; a model
learns and is asked only with what was known at the time, and an agent never
comes away from the registry with less than it was promised; a backtest's
trades, curve and report tell one story.

## 2. Modules

| Module | Models | Extends |
|---|---|---|
| `PositionSizer` | `position_sizer.py`: operators only | |
| `DrawdownMonitor` | `drawdown_monitor.py`: the ledger and the limits | |
| `TradeBus` | the channels `risk.assessment` and `execution.result`, latch, override, message loss and repetition; error counting | `DrawdownMonitor` |
| `RiskAgent` | `agents/risk/agent.py` | `TradeBus`, `PositionSizer` |
| `PaperBroker` | `paper_broker.py` as Execution sees it | `TradeBus` |
| `ExecutionAgent` | `agents/execution/agent.py` in paper mode | `PaperBroker` |
| `TradePipeline` | Risk and Execution over the bus | `RiskAgent`, `ExecutionAgent` |
| `PipelineHistory` | the same, with a record of the symbols whose orders met | `TradePipeline` |
| `MT5Orders` | the volumes `mt5_bridge.py` orders for an approved size: operators only | |
| `RiskLimits` | Risk against a broker that reports anything, with days passing, and what an approval becomes in MT5 mode | `RiskAgent`, `MT5Orders` |
| `PaperPersistence` | the paper portfolio's copy in Redis: two keys, the loop and the monitor that save, the override listener that stops the agent beside them, shutdowns, crashes, restarts | |
| `AgentLifecycle` | `agents/base.py`, `scripts/start.py`, halt and resume of `api/routers/control.py`, Docker's restart policy | |
| `Monitoring` | `agents/monitoring/agent.py`: registry, scan and alerts in discrete time | |
| `MT5Terminal` | `mt5_ea/TradingSystemEA.mq5` and the terminal's positions | |
| `MT5Bridge` | `agents/execution/mt5_bridge.py`: the queue, the futures, both callers, the rounds of the monitor in `agents/execution/agent.py` | `MT5Terminal` |
| `SignalFusion` | `signal_aggregator.py`, `proposal_builder.py`: operators only | |
| `SignalBus` | time, the channels from candles to proposals, the faults | `SignalFusion` |
| `CandleFeed` | `agents/market_data/agent.py`, `normalizer.py` | `SignalBus` |
| `TechnicalAgent` | `agents/technical_analysis/agent.py`, `candle_buffer.py` | `CandleFeed` |
| `DecisionAgent` | `agents/decision/agent.py` | `TechnicalAgent` |
| `SignalPath` | the three agents above and Risk's check for stale data | `DecisionAgent` |
| `ModelSignal` | `ml_signal_generator.py`: operators only; `MCSignalPath` takes its readings from them | |
| `Indicators` | `indicators.py`: series and readings, operators only | |
| `SignalRules` | `signal_generator.py`: votes, agreement, confidence, operators only | `Indicators` |
| `FeatureRows` | `feature_engineer.py`: the row of a bar, from a buffer and from a whole history | `Indicators` |
| `PriceLabels` | `label_generator.py` | |
| `TrainingData` | the samples of `model_trainer.py` and `ml_eval.py` | `FeatureRows`, `PriceLabels` |
| `BacktestEngine` | `backtest/engine.py`: the replay loop | `PriceLabels` |
| `WalkForward` | `backtest/walkforward.py` and the other deciders over the replay | `BacktestEngine`, `SignalRules`, `TrainingData` |
| `BacktestReport` | `backtest/metrics.py`: drawdown and accounting | `WalkForward` |
| `ModelShelf` | abstract: what a registry of models promises | |
| `ModelRegistry` | `model_registry.py`, the training that saves and the agent that loads, file by file; an `INSTANCE` of `ModelShelf` states what it implements | |
| `DrawdownMonitor_proofs` | lemmas: sums over any finite set of symbols, induction on numbers and on finite sets | `DrawdownMonitor` |
| `TradePipeline_proofs` | the theorems about `TradePipeline` and `PipelineHistory` | `PipelineHistory`, `DrawdownMonitor_proofs` |
| `RiskLimits_proofs`, `AgentLifecycle_proofs`, `ModelRegistry_proofs`, `SignalPath_proofs` | the theorems of section 4 (those about `Monitoring` are in `AgentLifecycle_proofs`) | their component |
| `Brokers_proofs` | the theorems about what Execution has behind it | `MT5Bridge`, `PaperPersistence` |
| `Backtest_proofs` | the theorems about the backtest | `BacktestReport`, and with it `WalkForward`, `TrainingData`, `SignalRules` |
| `MC...` | small values for TLC | their component |

**State and actions.** Every step is what the code does between two awaits.
One action stands for one outcome of a handler, with the guards in the order of
the code's checks.

*Trading.* Risk's evaluation loop holds `outgoing` between the verdict and the
publish (the audit write and the publish are awaits in which the result tracker may
run); `haltStep` is the progress of `_emergency_halt`. Execution's loop holds
`order` while `place_order` sleeps through its latency and `filling` until the
result is published; the monitor holds `scan` (the positions it took a snapshot of)
and `closing`, and `monitorAsleep` tells that it has passed its check and sleeps:
the scan that follows may come after a stop. A position is `held[s]` in {buy, sell,
flat} and a cost. Prices are abstracted to what they do: a fill's cost is near the
approved size, a closing fill's profit is one of a few numbers. Money is a small
integer; realised profits are rounded to `Cent` ticks, as the code rounds to cents.
Order sizes come from `PositionSizer` applied to the ledger's portfolio value.

Nothing in the code keeps the orders of one symbol apart, and where they meet the two
books may go different ways for good (section 6). `PipelineHistory` adds a variable
that no action reads: `tangled` holds the symbols to which it has happened. A symbol
enters it when an order for it is approved, or its position closed by the monitor,
while an approval or an unapplied result for it is still on its way, when such a message is
lost, or when an approval is delivered twice (a result
may be). It leaves it when nothing is on its way and neither book holds the symbol. What is said of the other symbols is said of
them while all this happens to their neighbours.

*Persistence.* A portfolio is the number of the fill that made it, and each of
its two halves has its own number, so that a mixture can be told from a
portfolio that existed. `task[t].phase` is how far a task's
`_save_portfolio_state` has come; a value is taken when its request is sent.
`mode` is the agent's life. An override's `stop()` runs in the listener
(`agents/base.py:388`): while it saves ("stopping") and after it has disconnected the
bus ("stopped") the loop may still be in the latency of an order and the monitor may
make its last scan. A fill made then changes memory, and a save that begins after
the disconnection does nothing. The main task's `stop()` ("ending") runs alone.

*Life cycle.* `status` runs from "starting" over "setup" to "running" and ends
in "stopped", "quarantined", "backoff" or "down". The listener of overrides is a
task of its own (`listener`); an override waits in `override` until it is read.
`errors` and `crashes` are the two counters that end an agent or a process.
`ended` is the shutdown of `scripts/start.py` by its first ended task.

*Monitoring.* `age`, `cooling` and `timer` count seconds. `checker` tells what
the scanning task does; between two of its awaits nothing else runs.

*MT5.* The EA is a single thread: state, command, execution, result
(`ea.phase`). `waiting` is the id each caller awaits; `told` is what it got. A
timeout may come at any moment, because the bridge waits 5 s
(`core/config.py:244`) and the EA's timer has a period of 10 s
(`TradingSystemEA.mq5:55`). `round` is what the monitor has still to look at of
the positions it copied; a close it gives up on ends its round.

*Signals.* Candles are numbered; candle `b` is final from `Closes(b)` on. The
buffer and the table of candles are sets of numbers, their order is that of the
numbers. Time goes on only when every ready task has done its work (`Quiet`), so
that no age found here is due to a slow agent. What the rules or the model make
of a buffer is any member of `Readings`: here those that `ModelSignal` gives for
three forecasts, and a rule-based one, which has no trend. Symbols do not interact on this
path, so one is enough.

*Indicators, rules, features.* Prices are integers, rates per mille, RSI in
hundredths; an exponential average is carried as a fraction of integers, and the
bands compare squares, so that only the divisions named in the modules round.
The generator's confidence contains a square root and is compared, never
computed (`Confident`).

*Backtest.* `i` is the bar the loop looks at, `pending` the decision of the last
one, `book` what `_open` and `_close` change, `curve` the equity points. A model
is the samples it was fitted to (`model`); what it then says is arbitrary, so
every property holds whatever a fit produces. Features and labels of the whole
history are computed first, as the code does, and indexed by the same arithmetic.

*Registry.* A version is three files, each absent, partial or whole (`disk`); the
pointer is truncated and written. `trainer` and `agent` are the next file
operation of either process, and both may be killed before each.

**Faults.** Trading: `MaxLost` messages may be lost (Redis pub/sub is at most once)
and `MaxRedelivered` delivered twice, because Risk's and the broker's code promise
to cope with repetition; errors count towards quarantine (`MaxAgentCrashes`); one
behaviour covers one lifetime of each agent. Life cycle: crashes in every state, a
latch that cannot be read, a listener whose connection drops, halters that die
half-way. Persistence: overrides and shutdowns at every await, crashes, refused
reads and writes. MT5: lost commands, lost results, late results, rejected and
partial executions, native stops. Signals: a failed publication, row, request or
read, a row that the exchange delivers late, a restart of the market data or the
technical agent, a halt of Decision. Registry: a training that is killed or cannot
write, an agent that stops, both at any file.

## 3. Runs

| Run | Checks | Shows |
|---|---|---|
| `settles` | `TypeOK`, `SidesAgree`, `EquityAgrees`, `LedgerConverges`, `BreachStopsTrading` | two symbols, one order per symbol at a time, repeated messages, refusals, a daily limit that is reached: settled books agree up to half a cent per close; every disagreement ends unless Execution stops, and a breached limit sets the latch and stops both agents |
| `unordered` | `FilledOnce`, `ClearPositionsReserved`, `BrokerWithinLimit` | two symbols, several proposals in flight for each, stop-loss closes, losses, repetitions, stops: no proposal fills twice; a position of a symbol that is not tangled is in Risk's ledger on its side at every moment; beyond the position limit the broker holds tangled symbols only |
| `risk_limits` | `DailyBooks`, `WorthWhatApproved`, `HaltIsFinal` | whatever is reported, today's loss is today's realised result; a tripped breaker approves nothing again; an order in MT5 mode is worth what was approved up to half a step of the broker's lots, unless its smallest or largest volume decides |
| `agent_halts` | `TypeOK`, `HeardStaysHalted`, `LatchInv`, `HaltTakesHold` | both deployments, all faults: who heard an override trades no more before a resume, and an override that waits for an agent takes hold of it |
| `persistence` | `PersistenceTypeOK`, `PublishedIsSaved`, `QuietIsSaved` | two tasks that save, an override, a shutdown or a crash anywhere, restarts: what was published and was filled before the stop is saved, and nothing older overwrites it |
| `mt5_bridge` | `TypeOK`, `ExecutedInOrder`, `FillsAreReal` | losses, timeouts and late results: nothing is executed twice or out of order, and a reported fill happened |
| `alerts` | `MonitoringTypeOK`, `AlertedInTime` | a silent agent is alerted within `Bound`, as long as the scanning task lives |
| `signal_path` | `TypeOK`, `OnceAndWhole`, `NotAgainstTechnical`, `AcceptedDataBound` | candles go out once and final; no proposal is against its technical signal; what Risk accepts after a polled candle rests on data of bounded age |
| `stop_loss_race` | `SidesAgree` is violated | one buy is enough: the monitor closes the position and publishes that before the loop has published the opening fill; Risk closes and then adopts the opening, and keeps a position the broker does not have |
| `backtest` | `TypeOK`, `TrainsOnThePast`, `RowsAreCausal`, `SamplesAligned`, `ModelInTerm`, `CurveMatchesTrades`, `BracketsAreAdverse`, `BooksBalance`, `DrawdownIsWorst`, `UnanimityIsHeard`, `ExtremesSilence` | every history of a few bars of three shapes, three deciders: models learn only from labels that were realised, from the rows the live agent would have had, and are replaced in term; trades, curve and report agree and no money appears; indicators that agree are heard, and none at the other extreme is overruled |
| `models` | `PointerIsWhole`, `KeepsPromise` | trainings and agent starts interleaved file by file and killed anywhere: the pointer names finished models only, and the registry implements `ModelShelf` |
| `bull_market` | `TrendIsNotSold` is violated | with the default settings RSI reads a market whose closes only rise as a strong sale |

**Bounds.** *Trading*: one or two symbols, since a symbol's order, close and
reopening interact only with each other, and a second symbol is what the
position limit, the portfolio value and the record of tangled symbols need. Three or
four proposals: open, close, reopen and one more (two in `risk_limits`, whose broker
reports results nobody ordered; one in `stop_loss_race`). `SeenMax` and `FilledMax` are
2 (`SeenMax` is 1 in `unordered`), so that their eviction happens within a behaviour. One
lost, one repeated message and one stop-loss close each suffice for every
pairwise race. Symbols are interchangeable (`SymbolSymmetry`), which runs with
liveness properties do not use. Prices of 0 to 3 and 10 with volumes of 1 to 3 let
the broker's floor, its cap and both roundings decide. *Life cycle*: two agents and
one halter; two errors end an agent, two crashes a process. *Persistence*:
five fills and three restarts, so that both tasks save at the same time before
and after a restart. *MT5*: three commands of two callers on two symbols: one
that times out, one that the late result must not answer, one more. *Monitoring*:
two agents besides the monitoring agent itself, timeout 3 s, interval 2 s,
cooldown 6 s: stale, alerted, back and silent again, while the other one's alert
is on its way. *Signals*: a candle takes two ticks and the poll interval,
which the code limits to the timeframe, is one; three rows per poll, a history of
four; a memory of three candles and a buffer of three, so that both forget within
the six ticks of a behaviour; one fault per behaviour and one sentiment signal.
*Backtest*: eight bars of three shapes, which reach no level, the upper one, both,
or open beyond the lower one; lookbacks of two or three bars, a fit due every two
bars from the fourth on, so that a model is fitted, kept, due when the data do not
allow it, and replaced. `RowsAreCausal` and `SamplesAligned` speak of the history
alone and are asked once for each (`i = 0`), as are the two properties of the vote,
which range over all readings of the four indicators. `bull_market` has the
indicators' default lengths. *Registry*: four trainings: an older model, one that
is being replaced, one that was killed, and the next.

Deadlock checking is off except where the system never stops (`agent_halts`,
`alerts`, `models`): elsewhere behaviours end when the agents have stopped
or the proposals, commands, fills or ticks of a bound are used up.

**Fairness.** `FairSpec` of `TradePipeline`: weak fairness of the event loops,
a message that has arrived is handled, an order in its latency completes, an
await returns, the override listener runs. No fairness for proposals, monitor
rounds, losses and failures. `FairSpec` of `AgentLifecycle`: start-up, a
subscribed listener with an override, `run_loop` after the stop event (messages
and timers do come), back-off, Docker's restart and the watcher of
`scripts/start.py`; nobody has to halt, resume or launch, and no crash has to
happen. This is what asyncio's scheduling gives to a task that is ready. The
bounds in `AlertedInTime` and `AcceptedDataBound` replace fairness by discrete
time: a sleep or an alert ends in time (`RaiseTime` is an assumption about Redis,
Slack and the database), and ready tasks run before time goes on.

## 4. Proofs

TLAPS proves the following for every value of the constants that the named
assumptions of the modules admit. Each safety invariant and action property that a
passing run checks is stated by a theorem. Where a theorem has a hypothesis of its
own, it is given with what the code makes of it.

**Trading** (`TradePipeline_proofs`)

* `TypeCorrect` (`TypeOK`) and `OrdersFillOnce` (`FilledOnce`), for all numbers of
  symbols, proposals and faults. The invariant behind the second is that the order in
  its latency is never among the remembered fills, because the loop handles one
  order at a time.
* `HistoryInvariant`, and from it `PositionsStayReserved` (`ClearPositionsReserved`) and
  `PositionLimit` (`BrokerWithinLimit`), assume nothing of the order of proposals, the
  monitor or the bus: stop-loss closes, losses, repetitions, refusals, halts and stops
  are all in. `HistoryInv` says of every symbol that is not tangled (`Straight`) that one
  message for it has something to say at most, that each approval is in one place and
  each result is applied once (`RequestsOnce`, `ResultsOnce`), and that what is on
  its way finds both books as its sender left them (`BooksFit`); and of all
  symbols, tangled or not, what the numbering of proposals and results guarantees
  (`Orderly`). It is needed because the reservation that `PositionsStayReserved` speaks of
  is released by results: one that is applied late or twice would release it
  under an open position. A symbol that is no longer tangled starts anew. The limit then
  holds because Risk's check counts tangled symbols too (`LedgerWithinLimit`).
* Two theorems assume `Calm`: one order per symbol at a time (`Serialised`), no monitor
  close, nothing lost. They speak of sides, costs and sums of settled books, for all
  symbols at once. Refusals, failures, halts and any number of repeated messages are in.
* `RepeatInvariant` holds with repeated messages and gives `LedgerAgreement`
  (`SidesAgree`), which alone is not inductive: it says nothing while a message is in
  flight. There may now be several requests and results for one proposal, since a
  repeated approval is tried again after a refusal, even when Risk has already
  released the reservation. `RepeatInv` speaks only of those that still have
  something to say: approvals that no remembered fill answers, results whose ids Risk
  has not seen. Such a message finds the books in the state it was made for, or
  released, or a later fill makes up for it (`Standing`); a symbol with no such
  message agrees. It needs that a proposal's fill comes after all its refusals
  (`OneProposal`), that queues keep copies in place (`RequestsInOrder`,
  `ResultsInOrder`: an id leaves the memories, which are bounded, only after
  its last copy is gone), and that the fill that answers a copy has been reported
  (`Answered`). It ends with the first of the two agents that stops.
* `EquityAgreement` (`EquityAgrees`), from the same invariant. `GapInv` follows the
  difference while it exists: the ledger's value, plus the profits of the closes
  reported and not yet applied, is the broker's equity up to half a cent for every two
  results, where the one result of an open position does not count yet (`Paired`). A
  reservation that is not filled yet, and a fill at a cost other than the approved
  one, move cash into the position and change no sum; only a close carries a profit,
  and rounds it once.

**Risk** (`RiskLimits_proofs`): `SizeBounds`, for every portfolio value and stop
distance; `HaltFinal` (`HaltIsFinal`); `OrdersAreWorthIt` (`WorthWhatApproved`) for
every size, price, lot step, floor and cap, even a floor above the cap, which needs
that approvals carry numbers (`SizeInv`), because a close is approved at the cost the
ledger took from a report; and `BooksAreKept` (`DailyBooks`), for any set of
symbols, whatever is reported and however many days pass. The sums over symbols in
`BooksAreKept` and `EquityAgreement` rest on `DrawdownMonitor_proofs`: the fold is a
function on finite sets that exists (by induction on their size), and changing
one summand changes the sum by the difference.

**Life cycle and monitoring** (`AgentLifecycle_proofs`)

* `LifecycleTypeCorrect` (`TypeOK`), which needs that an agent still running has fewer
  errors and crashes than the limit; `LatchStands` (`LatchInv`), by itself inductive:
  the latch stands behind every override that was published or heard, and whoever heard
  one is halted or has yet to read the latch; and from it `HaltHolds`
  (`HeardStaysHalted`), for any agents, halters, crashes, restarts and either
  deployment.
* `MonitoringTypes` (`MonitoringTypeOK`) and `SilenceIsReported` (`AlertedInTime`), for
  any agents and any timeout, interval and delay, provided that `Cooldown >
  RaiseTime`: the code's cooldown is 300 s, and raising an alert takes seconds.
  `AlertInv` says where the scanning task is (`ScanInv`: the agents it has still to look
  at, whose alert it is raising) and bounds the time that is left (`WaitInv`): how
  long an agent has been overdue, plus the time the scan takes to reach it, never
  exceeds `Bound`.

**What Execution has behind it** (`Brokers_proofs`)

* MT5: `BridgeTypeCorrect` (`TypeOK`), `InOrder` (`ExecutedInOrder`) and
  `ReportedFillsAreReal` (`FillsAreReal`). Ids increase along the deals, the command the
  EA holds and the queue, all of them below the next id; a result the EA holds is that
  of a deal.
* Redis: `PersistenceTypes` (`PersistenceTypeOK`), `PublishedStaysSaved`
  (`PublishedIsSaved`, of the fills made before a stop) and `QuietRedisAgrees`
  (`QuietIsSaved`), for any number of fills and restarts. What is saved alone does
  not determine what will be: the invariant is about the wire as well. Each request
  on it is one that its task waits for (`WireInv`); along the wire the portfolios
  only get newer, none is older than what is saved or newer than memory (`Ordered`);
  what a save claims to have written is written (`Covered`); the save of an
  override's `stop()` is no older than any fill that counts, so that it makes up for
  the saves its disconnection cuts off (`StopSaves`); and what memory holds is
  saved, sent or about to be sent (`Coming`). The last four need that Redis refuses
  nothing.

**Signals** (`SignalPath_proofs`)

* `SignalTypeCorrect` (`TypeOK`); `TechnicalLeads`, the arithmetic of fusion for any
  two weights of which the technical one is the larger, and from it
  `NeverAgainstTechnical` (`NotAgainstTechnical`).
* `AcceptedDataBounded` (`AcceptedDataBound`) for any timeframe, poll limit, buffer
  size and staleness limit, provided that no request straddles the close of a candle.
  `AgeInv` follows the age: a polled candle is younger than the span of a poll for as
  long as it is on its way, because time stands still until it is handled; the newest
  bar in the buffer is never older than the candle just handled; a signal is born
  at that moment; and Risk bounds the time since.
* `PublishedOnceAndWhole` (`OnceAndWhole`), without the same fault and for
  `2 * PollLimit < DedupSize + 4`: the code remembers 200 candles and polls 3. What is
  forgotten must be older than anything a later poll can bring, although late rows
  may have filled the memory out of order. Both hypotheses are needed: a candle that
  closes while the response is on its way counts as closed with the values it had
  before (section 6), and TLC finds a candle published twice when the memory in
  `signal_path` is 2 instead of 3.

**Registry** (`ModelRegistry_proofs`): `RegistryInvariant` (`RegistryInv`),
`PointerNamesWholeModels` (`PointerIsWhole`) and `RegistryKeepsPromise`
(`KeepsPromise`), a refinement, for any number of trainings and kills. Two facts
carry it: a version is allocated above every file there is, and a file once
whole is never touched again; so what an agent has chosen can only become whole while it
loads. Closing the last file is `Put`, truncating the pointer `Unlabel`, writing it
`Label`; reading it is `Look`, the scan and each load `LookOn` or `Finish`, a stop
`Leave`; everything else stutters. What an agent may come away with is defined from
its step (`Offer`) and narrows.

**Backtest** (`Backtest_proofs`), for every history, all periods and settings, and any
answers of a model

* `ReplayInvHolds`: the book knows nothing of the bar that is looked at next, and the
  curve says of each earlier bar what the book says of it (`EngineInv`); a model
  is the samples known at the bar of its fit (`DeciderInv`). From it
  `BacktestTypes` (`TypeOK`), `CurveAgreesWithTrades` (`CurveMatchesTrades`),
  `ReportAddsUp` (`BooksBalance`), `NoLookAhead` (`TrainsOnThePast`) and
  `LevelsTradeAdversely` (`BracketsAreAdverse`). The last one assumes `LevelsApart`, a
  stop further away than the slippage: 3% and 0.05% by default, and nothing validates
  it. Without it a stop may lie on the wrong side of the open it was entered at.
* `ModelsServeTheirTerm` (`ModelInTerm`), if `RetrainEvery > 0` (30 by default). It is
  not a matter of the counter alone: a fit that is due fails for want of samples or
  classes. `TermInv` says that what could be fitted at one bar can be fitted at every
  later one.
* `RowsLookBack` (`RowsAreCausal`): RSI, MACD, ATR, bands and averages of a prefix
  are the prefix of those of the whole, for any periods and any history that the
  live buffer holds whole (500 bars in the code), and so is each feature row;
  `SamplesAreAligned` (`SamplesAligned`), if at least two samples are asked for (the
  code asks for 100).
* `DrawdownIsMaximal` (`DrawdownIsWorst`): the single pass over the curve finds what the
  definition over all pairs of points finds, with the running peak as the loop's
  invariant.
* `UnanimousAreHeard` (`UnanimityIsHeard`) for a minimum confidence up to 0.5, and
  `ExtremesAreRespected` (`ExtremesSilence`) from 0.5 on. The default, 0.5, is the one
  value for which both hold. They speak of the rules alone, so that their invariant is
  the bare statement about all readings.

The series, the pass over the curve and the sums are recursive functions and folds;
what they compute is proved from well-foundedness (`NatInductive` and the lemmas after
it), which needs no theorem with an operator as a parameter.

Model-checked only:

* liveness (`LedgerConverges`, `BreachStopsTrading`, `HaltTakesHold`), which is out of the
  prover's reach;
* the two violations, which are single behaviours.

## 5. Not modelled, and the plan

Next, in this order:

1. costs and values of the symbols that are not tangled, which `HistoryInv` leaves out:
   `SidesAgree` and `EquityAgrees` without `Calm`;
2. an abstract specification of the portfolio as one book with atomic fills,
   implemented by `TradePipeline` in its calm system: `RepeatInv` and `GapInv` are what
   its steps need;
3. restarts of both trading agents: an empty ledger against a restored broker,
   with `PaperPersistence` as the broker's memory;
4. the rest of the bridge (start-up, stale heartbeats) and of the bus (caches,
   lists, reconnection), so that `MT5Bridge` can take the place of `PaperBroker` in
   the pipeline.

The WebSocket fan-out (`api/websocket.py`) pushes to browsers what others have
published; nothing that trades reads it. `websocket_handler.py`, a streaming feed,
has no caller; the fetcher's own retries only take time, and their errors are those
of `FetchErrors`. The test order of the control API (`api/routers/control.py:179`) is
an operator's tool beside the pipeline.

The fit of a model (XGBoost) and its metrics, exchange adapters, the sentiment
placeholder, audit rows, the dashboard, configuration and the deployment files are
library code or pure I/O and stay outside.

## 6. Divergences not run

The two runs that end in a violation show disagreements between code and
documentation. The following ones were met while
modelling. Where they lie in what is modelled, the models contain them: as choices
that the properties of section 3 allow for, or as states that the assumptions of
section 4 exclude.

**Trading**

* *Double close.* An approved close leaves no mark in Risk's ledger
  (`agents/risk/agent.py:309`). With a second proposal for the symbol in flight
  the second close finds no position at the broker and opens one there that
  nobody reserved, which can take the broker over `max_open_positions`
  (`docs/ARCHITECTURE.md:35`, `core/config.py:138`). Decision's two tasks may
  propose twice from the same pair of signals. `settles` leaves it out
  (`Serialised`); in `unordered` such a symbol is tangled.
* *Stop-loss races.* Besides the order of two results (`stop_loss_race`): a position
  that the monitor closes during the latency of an approved close is gone when
  `place_order` wakes, which then opens one on the closing side
  (`paper_broker.py:293-316`). Tangled as well.
* *A repeated approval.* An approval delivered twice is caught by the broker's
  memory of filled proposals only if the first copy filled: after a refusal the
  second copy may open a position whose reservation has been released, on top of a
  full book. Its symbol is tangled from the repetition on.
* *One scan after the stop.* `_paper_position_monitor` checks `_should_continue()`
  before its sleep of 30 s and not after it (`agents/execution/agent.py:272`), so that
  it may close positions once more after the agent was told to stop; the MT5 monitor
  asks again. Risk hears of it if it still runs.
* *Refusals count as crashes.* An order the broker refuses is answered, as
  `agents/execution/agent.py:213` promises, but also counted
  (`agents/execution/agent.py:168`), so a run of refusals quarantines Execution
  and the approvals after that are answered by nobody. `LedgerConverges` excepts
  an Execution that has stopped.
* *Half a halt.* Latch and broadcast share one `except` clause
  (`agents/risk/agent.py:420`): if writing the latch fails the broadcast is skipped and
  neither is tried again, so the other agents trade on. `settles` loses no message
  and does not reach it; in `risk_limits` Risk approves nothing all the same.
* *The minimum check cannot fire.* Check 9 of `agents/risk/agent.py:26` rejects
  a size below the minimum, but the sizer has raised it to the minimum before
  (`position_sizer.py:88`); `SizeBounds` proves it.
* *Lazy midnight.* The daily figures are rebased at the first check after
  midnight (`drawdown_monitor.py:184`), not at the "start of current UTC day"
  (`drawdown_monitor.py:39`): results between the two count for the old day.

**Portfolio in Redis**

* Cash and positions are two writes. A crash between them leaves a portfolio
  that never existed. `PublishedIsSaved` speaks of each key on its own for this
  reason.
* A fill made after an override's `stop()` has disconnected the bus is published and
  never saved, although Redis refuses nothing: `_save_portfolio_state` returns when the
  bus is not connected (`paper_broker.py:220`), while `publish` only asks for a pool
  (`core/messaging.py:216`), which `disconnect` leaves in place
  (`core/messaging.py:179-184`). The order was in its latency, or the monitor made its
  last scan, when the listener called `stop()` (`agents/base.py:388-391,158-177`). After
  the restart the position is missing, or a closed one is back, against "state survives
  an unexpected restart" (`paper_broker.py:217`). `PublishedIsSaved` speaks of the
  fills made before the stop for this reason.
* A read that fails at start-up leaves the initial portfolio in memory, and
  `connect` writes it over the saved one at once (`paper_broker.py:186,193`). The
  docstring at line 153 has restore as best effort, of the overwriting it says
  nothing. Both properties except a Redis that refuses.
* `paper_broker.py:107` says that Execution calls the broker sequentially; the
  loop and the stop-loss monitor call it from two tasks.
* That Redis serves requests in the order sent is an assumption: two connections
  of the pool are ordered by the network only.

**Life cycle**

* A lost connection raises in `subscribe()`, and `core/messaging.py:17` says that
  the supervisor restarts the process. The override listener catches the exception
  (`agents/base.py:394`), so the agent runs on without it (`Deaf`).
* The latch's read fails open (`agents/base.py:316`), although
  `docs/runbook.md:117` has a halt hold "until an operator clears it".
* An override published between an agent's read of the latch and its subscription
  is heard by nobody there (`agents/base.py:140`, `core/messaging.py:59`), against
  `docs/runbook.md:97`; the agent trades on until it restarts.
* Docker restarts a quarantined agent with fresh counters; `core/models/system.py:36`
  has it "awaiting human review" and `docs/runbook.md:178` calls it "now down".
* In the single process a clean exit after an override ends all agents and the
  API (`scripts/start.py:185`); the docstring there speaks of exhausted restarts.

**MT5**

* A command whose caller has timed out stays in the queue and is executed later
  (`mt5_bridge.py:428`), after Execution has published a failure and Risk has
  released the reservation. A timeout of 5 s against a timer of 10 s makes this
  the normal case, not a rare one.
* A partial fill is reported as an error (`TradingSystemEA.mq5:305`).
* `broker_interface.py:106` asks for an idempotent `place_order`; the bridge has
  no memory of proposals.
* A close names a symbol, not the position that was judged, and the positions are
  those of the last heartbeat. The header of the bridge has the EA poll "every
  second", and a heartbeat counts as stale after 5 s.
* Positions closed by the terminal at their stop are reported to nobody.
* An approved close is an order on the other side (`mt5_bridge.py:164`), of the size
  in money that Risk remembers. On a hedging account it opens a second position.
* The smallest lot may be worth more than Risk's largest order
  (`core/config.py:252` notes the 700 dollars); `WorthWhatApproved` says that this
  and rounding are all that can come between an approval and its order.

**Monitoring**

* An agent heard for the first time while the scan awaits an alert ends the
  scanning task (`agents/monitoring/agent.py:241`): iterating over a dictionary
  that has grown raises, and nobody awaits the task. `AlertedInTime` excepts it.
* After a restart agents that died before are unknown and not missed.
* The agent hears its own alerts on `system.alert` and routes them again.

**Signals**

* *Half bars.* Whether a candle is closed is asked of the clock after the
  response (`normalizer.py:64`), its values are those of the request. A request that
  straddles the close publishes an unfinished candle as closed, against the comment
  at `agents/market_data/agent.py:174`, and for good, because it then counts as
  seen. With "straddle" among `Faults`, `OnceAndWhole` fails; the runs leave it
  out and `AcceptedDataBounded` assumes it away.
* A candle counts as seen before it is published; a failed publication is logged
  and not repeated, and the age "of the most recent published candle"
  (`agents/market_data/agent.py:363`) is that of the latest seen one.
* The technical agent reads the database before it subscribes: candles in between
  are missing from its buffer, and rows that come late are refused by it. What
  indicators make of a gap is their own business (`normalizer.py:232`).
* The suppression window is a third of the time to live, not the half of the
  module's documentation (`agents/technical_analysis/agent.py:25,338`), and a
  failed publication starts it as well.
* Risk takes the age of a signal as a proxy for that of its data and 0 where
  there is no technical signal (`agents/risk/agent.py:434`). `AcceptedDataBound`
  is what remains of the staleness limit; it holds for candles of a poll only.
* The trend filter looks at the latest technical signal even when that has
  expired, and never applies to rule-based signals.
* A history published to a technical agent that has just started yields a signal
  that is born now from an old candle, which Risk accepts
  (`agents/technical_analysis/agent.py:265`, `agents/risk/agent.py:434`), against
  `core/config.py:150`.
* After a rate limit or an empty answer the agent polls again after the *shorter*
  pause; only a connection error doubles it (`agents/market_data/agent.py:185-194`).

**Indicators and rules**

* RSI's comment excludes a sale in a rising market (`bull_market`), but
  `tests/unit/test_indicators.py:81-88` asserts SELL or STRONG_SELL for a strongly
  rising series, which is what the code does: comment and test disagree.
* The live buffer keeps 500 bars (`candle_buffer.py:46`). Beyond that its exponential
  averages start from a later bar than those of the whole history, and the live row is
  no longer the row of `build_feature_matrix` that the model was fitted to.
  `RowsAreCausal` speaks of histories the buffer holds whole.
* In a market that does not move at all RSI is 99 and says STRONG_SELL; the feature
  engineer's is 50, or 0 at its seed. The bands' documentation has limits of 0.05
  and 0.95, the code 0.1 and 0.9.
* A signal is "only emitted once the primary indicators (RSI, MACD) are all
  available" (`signal_generator.py:31`); any two indicators suffice.
* Agreement is "1.0 when all indicators point the same direction"
  (`signal_generator.py:142`); it measures the spread, and a buy and a strong buy give
  0.75. `UnanimityIsHeard` is what remains.

**Models**

* "If HOLD wins, direction is NEUTRAL" (`ml_signal_generator.py:17`) is not what the
  code does: a side that clears 0.35 and beats the other one leads. A minimum
  confidence of 0.5 or more hides the difference.
* A model with other features than the engineer's is loaded with a warning
  (`ml_signal_generator.py:96`), although line 9 there guards against it; every
  prediction then fails and the agent never signals again nor falls back on rules.
* The pointer is not moved "atomically" (`model_registry.py:130`): it is truncated
  first. An agent that finds it empty, or deleted, takes the highest version with a
  model file, finished or not; if that cannot be loaded it uses the rules, though a
  good older model exists. `ModelShelf` promises no more.
* The registry has no lock. Two trainings at a time may allocate the same version
  (`model_registry.py:79`), and the pointer may then name half a model after all.
* One model, that of the first symbol, serves all symbols (`agent.py:134`, a TODO).
* The labels of the last `horizon` training samples look at closes of the test
  period, and early stopping uses the test set (`model_trainer.py:191-236`), against
  "no lookahead" in `backtest/ml_eval.py:7`. `SamplesAligned` says so.

**Backtest**

* A bar that opens beyond the stop fills at the stop, a price that was never traded
  (`engine.py:178`): results are better than they could have been.
  `BracketsAreAdverse` excepts such bars.
* Metrics are documented as of the "realised equity curve", the curve is marked to
  market; monthly returns leave out what happens between two months.
