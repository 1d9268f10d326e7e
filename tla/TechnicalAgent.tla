------------------------------ MODULE TechnicalAgent ------------------------------
(***************************************************************************)
(* The technical analysis agent (agents/technical_analysis/agent.py,       *)
(* candle_buffer.py) for one symbol in its primary timeframe.  What the    *)
(* indicators or the model make of the buffer is any signal or none.       *)
(***************************************************************************)
EXTENDS CandleFeed

CONSTANTS
    TTL,          \* signal_ttl_seconds
    WarmupLimit,  \* warmup_limit
    BufferSize,   \* MAX_BUFFER_SIZE
    MinWarmup,    \* MIN_WARMUP_CANDLES
    Readings      \* <<direction, trend>> pairs a generator may come to

ASSUME TechnicalAssumption ==
    /\ TTL \in Nat
    /\ WarmupLimit \in Nat
    /\ BufferSize \in Nat \ {0}
    /\ MinWarmup \in Nat \ {0}
    /\ Readings \subseteq Directions \X Trends

VARIABLES
    warmedUp,    \* the database has been read
    buffer,      \* the bars in CandleBuffer, whose deque is in their order
    lastSignal,  \* _last_signal_at
    outgoing     \* the signal whose publication is awaited

technicalVars == <<warmedUp, buffer, lastSignal, outgoing>>

TechnicalInit ==
    /\ warmedUp = FALSE
    /\ buffer = {}
    /\ lastSignal = None
    /\ outgoing = None

\* What a deque of the buffer's capacity keeps.
Kept(S) == {b \in S : Cardinality({d \in S : d > b}) < BufferSize}

\* CandleBuffer.add: old and repeated candles are rejected.
AddCandle(c) == IF \A b \in buffer : b < c.bar THEN Kept(buffer \union {c.bar}) ELSE buffer

\* _warmup_from_db: the rows of the last WarmupLimit candles, or a warning.
WarmUp ==
    /\ ~warmedUp
    /\ warmedUp' = TRUE
    /\ \/ buffer' = Kept({b \in db : Opens(b) >= now - WarmupLimit * Bar}) /\ UNCHANGED faults
       \/ buffer' = {} /\ Fault("read")
    /\ UNCHANGED <<lastSignal, outgoing, feedVars, now, listening, channelVars>>

\* run_loop subscribes: what was published in between is not heard.
Subscribe ==
    /\ warmedUp /\ ~listening
    /\ listening' = TRUE
    /\ UNCHANGED <<now, faults, channelVars, technicalVars, feedVars>>

IsWarm == Cardinality(buffer') >= MinWarmup
Suppressed == lastSignal # None /\ 3 * (now - lastSignal) < TTL

\* _process_candle up to its await: a rejected candle triggers a signal as well.
ProcessCandle ==
    /\ candles # <<>> /\ outgoing = None
    /\ candles' = Tail(candles)
    /\ buffer' = AddCandle(Head(candles))
    /\ \/ outgoing' = None
       \/ /\ IsWarm /\ ~Suppressed
          /\ \E newest \in buffer', r \in Readings :
                /\ \A b \in buffer' : b <= newest
                /\ outgoing' = [direction |-> r[1], trend |-> r[2], born |-> now,
                                data |-> newest, polled |-> Head(candles).polled]
    /\ UNCHANGED <<warmedUp, lastSignal, now, listening, faults, signals, proposals, feedVars>>

\* _publish_signal swallows a failure; the signal counts as emitted all the same.
PublishSignal ==
    /\ outgoing # None
    /\ Publish(signals, signals', outgoing, TRUE)
    /\ lastSignal' = now
    /\ outgoing' = None
    /\ UNCHANGED <<warmedUp, buffer, now, listening, candles, proposals, feedVars>>

\* The container is restarted.
RestartTechnical ==
    /\ listening
    /\ Fault("restart")
    /\ listening' = FALSE
    /\ candles' = <<>>
    /\ warmedUp' = FALSE
    /\ buffer' = {}
    /\ lastSignal' = None
    /\ outgoing' = None
    /\ UNCHANGED <<now, signals, proposals, feedVars>>

TechnicalStep == WarmUp \/ Subscribe \/ ProcessCandle \/ PublishSignal \/ RestartTechnical
================================================================================
