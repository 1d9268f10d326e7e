------------------------------- MODULE DecisionAgent -------------------------------
(***************************************************************************)
(* The Decision agent (agents/decision/agent.py) for one symbol.  Two      *)
(* tasks, one per kind of signal, store what they hear, await the copy in  *)
(* Redis, and then fuse whatever both have stored.  The sentiment agent is *)
(* a placeholder in this commit, its signals are arbitrary.                *)
(***************************************************************************)
EXTENDS TechnicalAgent

CONSTANTS
    NewsTTL,         \* sentiment_ttl_seconds
    NewsDirections,  \* the directions a sentiment may have
    MaxNews          \* bounds the sentiment signals of a behaviour; 0 where they are disabled

ASSUME DecisionAssumption ==
    /\ NewsTTL \in Nat
    /\ NewsDirections \subseteq Directions
    /\ MaxNews \in Nat

VARIABLES
    technical,  \* _latest_technical
    sentiment,  \* _latest_sentiment
    storing,    \* [Tasks -> BOOLEAN]: the task awaits the copy in Redis
    news,       \* the number of sentiment signals so far
    halted      \* _trading_halted

decisionVars == <<technical, sentiment, storing, news, halted>>

Tasks == {"technical", "sentiment"}

DecisionInit ==
    /\ technical = None
    /\ sentiment = None
    /\ storing = [t \in Tasks |-> FALSE]
    /\ news = 0
    /\ halted = FALSE

\* The override listener of the base class: the agent stops, its tasks end at the next
\* signal and a handler in its await proposes nothing.
Halt ==
    /\ ~halted
    /\ Fault("halt")
    /\ halted' = TRUE
    /\ UNCHANGED <<technical, sentiment, storing, news, now, listening, channelVars, technicalVars,
                   feedVars>>

\* _on_technical_signal up to its await.
OnTechnicalSignal ==
    /\ signals # <<>> /\ ~storing["technical"] /\ ~halted
    /\ signals' = Tail(signals)
    /\ technical' = Head(signals)
    /\ storing' = [storing EXCEPT !["technical"] = TRUE]
    /\ UNCHANGED <<sentiment, news, halted, now, listening, faults, candles, proposals,
                   technicalVars, feedVars>>

\* _on_sentiment_signal up to its await.
OnSentimentSignal ==
    /\ news < MaxNews /\ ~storing["sentiment"] /\ ~halted
    /\ news' = news + 1
    /\ \E d \in NewsDirections, sure \in BOOLEAN :
          sentiment' = [direction |-> d, sure |-> sure, born |-> now]
    /\ storing' = [storing EXCEPT !["sentiment"] = TRUE]
    /\ UNCHANGED <<technical, halted, busVars, technicalVars, feedVars>>

\* The filter of aggregate: an expired or unsure signal is dropped.  A technical
\* signal of too little confidence is not even generated.
ValidTechnical ==
    IF technical # None /\ now <= technical.born + TTL THEN technical ELSE None
ValidSentiment ==
    IF sentiment # None /\ sentiment.sure /\ now <= sentiment.born + NewsTTL
    THEN sentiment ELSE None

\* The trend filter looks at the latest technical signal, expired or not.
AgainstTrend(side) ==
    /\ technical # None
    /\ \/ side = "buy" /\ technical.trend = "below"
       \/ side = "sell" /\ technical.trend = "above"

\* Wrong: neutral aggregates are not suppressed.
ProposeNeutralToo ==
    LET side == FusedSide(ValidTechnical, ValidSentiment)
    IN  IF ~halted /\ ~AgainstTrend(side)
        THEN Publish(proposals, proposals', [side |-> side, technical |-> ValidTechnical,
                                             sentiment |-> ValidSentiment], TRUE)
        ELSE UNCHANGED <<proposals, faults>>

\* _try_aggregate_and_propose: there is no await before the publication.
AggregateAndPropose ==
    LET side == FusedSide(ValidTechnical, ValidSentiment)
    IN  IF ~halted /\ side \in {"buy", "sell"} /\ ~AgainstTrend(side)
        THEN Publish(proposals, proposals', [side |-> side, technical |-> ValidTechnical,
                                             sentiment |-> ValidSentiment], TRUE)
        ELSE UNCHANGED <<proposals, faults>>

\* A handler goes on after its await, or the copy fails and it ends.
Aggregate(t) ==
    /\ storing[t]
    /\ storing' = [storing EXCEPT ![t] = FALSE]
    /\ AggregateAndPropose \/ (Fault("publish") /\ proposals' = proposals)
    /\ UNCHANGED <<technical, sentiment, news, halted, now, listening, candles, signals,
                   technicalVars, feedVars>>

DecisionStep ==
    \/ Halt \/ OnTechnicalSignal \/ OnSentimentSignal
    \/ \E t \in Tasks : Aggregate(t)
================================================================================
