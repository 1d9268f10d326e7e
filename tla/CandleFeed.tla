-------------------------------- MODULE CandleFeed --------------------------------
(***************************************************************************)
(* The market data agent for one symbol and timeframe                      *)
(* (agents/market_data/agent.py, normalizer.py): it fetches a history,     *)
(* then polls the exchange for the last candles, keeps the closed and      *)
(* unseen ones, publishes each of them and writes it to the database.      *)
(***************************************************************************)
EXTENDS SignalBus, SequencesExt

CONSTANTS
    PollInterval,  \* in ticks
    PollLimit,     \* candles per poll: 3
    HistoryLimit,  \* ohlcv_history_limit
    DedupSize      \* DEDUP_BUFFER_SIZE

ASSUME FeedAssumption ==
    /\ PollInterval \in Nat \ {0}
    /\ PollLimit \in Nat \ {0}
    /\ HistoryLimit \in Nat \ {0}
    /\ DedupSize \in Nat \ {0}

VARIABLES
    phase,     \* "history" during setup, then "poll"
    fetching,  \* a request is on its way
    answer,    \* the candles of its response
    seen,      \* _seen: the timestamps of the latest candles
    batch,     \* the clean candles still to be published and written
    halfDone,  \* the first of the two is done for the oldest of them
    sleep,     \* until the next poll
    sent,      \* the candles published by this process
    db         \* the bars of which ohlcv_candles has a row

feedVars == <<phase, fetching, answer, seen, batch, halfDone, sleep, sent, db>>

\* What an exchange holds when the agents start: nothing is in the database yet, or
\* all that closed before.
ClosedBefore(t) == {b \in 0..t : Closes(b) <= t}

FeedInit ==
    /\ phase = "history"
    /\ fetching = FALSE
    /\ answer = {}
    /\ seen = <<>>
    /\ batch = {}
    /\ halfDone = FALSE
    /\ sleep = 0
    /\ sent = {}
    /\ db \in {{}, ClosedBefore(Start)}

Limit == IF phase = "poll" THEN PollLimit ELSE HistoryLimit
Rows == {b \in 0..Forming : b > Forming - Limit}

\* fetch_ohlcv: the exchange answers with the values of this moment, the candle that
\* is still forming included.  It may be late with one row.
Fetch ==
    /\ ~fetching /\ batch = {} /\ sleep = 0
    /\ fetching' = TRUE
    /\ \E late \in SUBSET Rows :
          /\ \/ late = {} /\ UNCHANGED faults
             \/ Cardinality(late) = 1 /\ Fault("late")
          /\ answer' = {[bar |-> b, whole |-> Closes(b) <= now, polled |-> phase = "poll"] :
                           b \in Rows \ late}
    /\ UNCHANGED <<phase, seen, batch, halfDone, sleep, sent, db, now, listening, channelVars>>

\* After the setup the first poll starts at once; after a poll the task sleeps.
Rest ==
    /\ phase' = "poll"
    /\ sleep' = IF phase = "poll" THEN PollInterval ELSE 0

\* What a request that fails leaves with: "connection" when the network failed for the
\* fifth time or the symbol is unknown, "other" for no candles and all the rest, a
\* limited rate included.
FetchErrors == {"connection", "other"}

\* The longer pause is for the connection only.
Backoff(error) == IF error = "connection" THEN 2 * PollInterval ELSE PollInterval

\* An exception of the request: the setup goes on without a history, a poll backs off.
FetchFails ==
    /\ fetching
    /\ Fault("fetch")
    /\ fetching' = FALSE
    /\ answer' = {}
    /\ phase' = "poll"
    /\ \E error \in FetchErrors : sleep' = IF phase = "poll" THEN Backoff(error) ELSE 0
    /\ UNCHANGED <<seen, batch, halfDone, sent, db, now, listening, channelVars>>

\* closed_candles.
Closed(c) == Closes(c.bar) <= now

\* Wrong: only the candle before is remembered.
IsDuplicateOfLast(c) == seen # <<>> /\ c.bar = Last(seen)

\* _is_duplicate.
IsDuplicate(c) == c.bar \in Range(seen)

\* The bars of a set of candles, oldest first.
InOrder(S) ==
    LET bars == {c.bar : c \in S}
    IN  CHOOSE s \in [1..Cardinality(bars) -> bars] :
            /\ Range(s) = bars
            /\ \A j, k \in DOMAIN s : j < k => s[j] < s[k]

\* process_batch: the clean candles count as seen from here on, whether they are
\* published or not.
Process ==
    /\ fetching
    /\ fetching' = FALSE
    /\ answer' = {}
    /\ batch' = {c \in answer : Closed(c) /\ ~IsDuplicate(c)}
    /\ LET all == seen \o InOrder(batch')
       IN  seen' = IF Len(all) > DedupSize
                   THEN SubSeq(all, Len(all) - DedupSize + 1, Len(all)) ELSE all
    /\ IF batch' = {} THEN Rest ELSE UNCHANGED <<phase, sleep>>
    /\ UNCHANGED <<halfDone, sent, db, busVars>>

Oldest(c) == c \in batch /\ \A d \in batch : c.bar <= d.bar

\* One of the two awaits for the oldest candle is over.
Advance(c) ==
    /\ halfDone' = ~halfDone
    /\ batch' = IF halfDone THEN batch \ {c} ELSE batch
    /\ IF batch' = {} THEN Rest ELSE UNCHANGED <<phase, sleep>>
    /\ UNCHANGED <<fetching, answer, seen>>

\* _publish_candle: a poll publishes first, the history is written first.
PublishCandle(c) ==
    /\ Oldest(c) /\ (halfDone <=> phase = "history")
    /\ Publish(candles, candles', c, listening)
    /\ sent' = sent \union {c.bar}
    /\ Advance(c)
    /\ UNCHANGED <<db, now, listening, signals, proposals>>

\* _persist_candle: INSERT ... ON CONFLICT DO UPDATE, a failure is logged.
PersistCandle(c) ==
    /\ Oldest(c) /\ (halfDone <=> phase = "poll")
    /\ \/ db' = db \union {c.bar} /\ UNCHANGED faults
       \/ db' = db /\ Fault("persist")
    /\ Advance(c)
    /\ UNCHANGED <<sent, now, listening, channelVars>>

\* The container is restarted.
RestartFeed ==
    /\ phase = "poll"
    /\ Fault("restart")
    /\ phase' = "history"
    /\ fetching' = FALSE
    /\ answer' = {}
    /\ seen' = <<>>
    /\ batch' = {}
    /\ halfDone' = FALSE
    /\ sleep' = 0
    /\ sent' = {}
    /\ UNCHANGED <<db, now, listening, channelVars>>

FeedStep ==
    \/ Fetch \/ FetchFails \/ Process
    \/ \E c \in batch : PublishCandle(c) \/ PersistCandle(c)
    \/ RestartFeed
================================================================================
