----------------------------- MODULE SignalPath_proofs -----------------------------
(***************************************************************************)
(* No proposal goes against its technical signal, whatever the weights as  *)
(* long as the technical one is the larger, what Risk accepts rests on     *)
(* data of bounded age, for any timeframe, limits, faults and restarts,    *)
(* and no candle is published twice or before it is whole.                 *)
(***************************************************************************)
EXTENDS SignalPath, SequenceTheorems, FiniteSetTheorems, WellFoundedInduction, TLAPS

--------------------------------------------------------------------------------
(* Fusion *)

LEMMA ScalarValues ==
    ASSUME NEW d \in Directions
    PROVE  /\ Scalar(d) \in {-2, -1, 0, 1, 2}
           /\ SideOf(d) = "buy" => Scalar(d) >= 1
           /\ SideOf(d) = "sell" => Scalar(d) <= -1
           /\ SideOf(d) \in {"buy", "sell", "none"}
BY DEF Directions, Scalar, SideOf

\* A technical signal that takes a side is never turned round by news: its weight is
\* the larger one (aggregate, _scalar_to_direction).
THEOREM TechnicalLeads ==
    ASSUME NEW t, t # None, t.direction \in Directions,
           NEW s, s # None => s.direction \in Directions
    PROVE  FusedSide(t, s) \in {"buy", "sell"} => SideOf(t.direction) \in {FusedSide(t, s), "none"}
<1> DEFINE a == Scalar(t.direction)
           b == IF s = None THEN 0 ELSE Scalar(s.direction)
           w == IF s = None THEN 0 ELSE SentimentWeight
<1>1. a \in {-2, -1, 0, 1, 2} /\ b \in {-2, -1, 0, 1, 2}
  BY ScalarValues
<1>2. TechnicalWeight \in Nat /\ SentimentWeight \in Nat /\ TechnicalWeight > SentimentWeight
      /\ SentimentWeight > 0 /\ w \in {0, SentimentWeight}
  BY FusionAssumption
<1>3. ScoreSum(t, s) = a * TechnicalWeight + b * w
  BY <1>1, <1>2 DEF ScoreSum, Present
<1>4. WeightSum(t, s) = TechnicalWeight + w
  BY <1>2 DEF WeightSum, Present
<1>5. CASE SideOf(t.direction) = "buy"
  <2>1. a \in {1, 2}
    BY <1>1, <1>5, ScalarValues
  <2>2. ~(2 * ScoreSum(t, s) <= -WeightSum(t, s))
    BY <2>1, <1>1, <1>2, <1>3, <1>4
  <2>3. FusedSide(t, s) # "sell"
    BY <2>2, <1>2, <1>4 DEF FusedSide
  <2> QED BY <2>3, <1>5
<1>6. CASE SideOf(t.direction) = "sell"
  <2>1. a \in {-1, -2}
    BY <1>1, <1>6, ScalarValues
  <2>2. ~(2 * ScoreSum(t, s) >= WeightSum(t, s))
    BY <2>1, <1>1, <1>2, <1>3, <1>4
  <2>3. FusedSide(t, s) # "buy"
    BY <2>2, <1>2, <1>4 DEF FusedSide
  <2> QED BY <2>3, <1>6
<1> QED BY <1>5, <1>6, ScalarValues

--------------------------------------------------------------------------------
(* Types *)

LEMMA ClosesNat == ASSUME BusAssumption, NEW b \in Nat PROVE Closes(b) \in Nat
BY DEF BusAssumption, Closes

LEMMA PublishType ==
    ASSUME NEW T, NEW channel \in Seq(T), NEW newChannel, NEW message \in T, NEW heard,
           Publish(channel, newChannel, message, heard),
           faults \in 0..MaxFaults, BusAssumption
    PROVE  newChannel \in Seq(T) /\ faults' \in 0..MaxFaults
BY DEF Publish, Fault, BusAssumption

\* The steps of the market data agent.
LEMMA FeedStepType ==
    ASSUME TypeOK, BusAssumption, FeedAssumption, FeedStep,
           UNCHANGED <<technicalVars, decisionVars, accepted>>
    PROVE  TypeOK'
<1> USE BusAssumption, FeedAssumption DEF TypeOK, technicalVars, decisionVars
<1>1. CASE Fetch
  <2>1. answer' \subseteq Candles
    <3>1. PICK late : answer' = {[bar |-> b, whole |-> Closes(b) <= now,
                                  polled |-> phase = "poll"] : b \in Rows \ late}
      BY <1>1 DEF Fetch
    <3>2. Rows \subseteq Nat
      BY DEF Rows
    <3>3. ASSUME NEW b \in Nat
          PROVE  [bar |-> b, whole |-> Closes(b) <= now, polled |-> phase = "poll"] \in Candles
      <4>1. (Closes(b) <= now) \in BOOLEAN /\ (phase = "poll") \in BOOLEAN
        BY ClosesNat
      <4> QED BY <4>1 DEF Candles
    <3> QED BY <3>1, <3>2, <3>3
  <2>2. faults' \in 0..MaxFaults
    BY <1>1 DEF Fetch, Fault
  <2>3. batch' \subseteq Candles
    BY <1>1 DEF Fetch
  <2>4. fetching' = TRUE /\ UNCHANGED <<phase, halfDone, sleep, sent, db, now, listening>>
        /\ UNCHANGED <<candles, signals, proposals>>
    BY <1>1 DEF Fetch, channelVars
  <2> QED BY <2>1, <2>2, <2>3, <2>4
<1>2. CASE FetchFails
  <2>1. faults' \in 0..MaxFaults /\ sleep' \in Nat
    <3>1. \A error \in FetchErrors : Backoff(error) \in Nat
      BY DEF FeedAssumption, Backoff
    <3> QED BY <1>2, <3>1 DEF FetchFails, Fault
  <2>2. answer' \subseteq Candles
    BY <1>2 DEF FetchFails
  <2>3. fetching' = FALSE /\ phase' = "poll" /\ UNCHANGED <<batch, halfDone, sent, db, now, listening>>
        /\ UNCHANGED <<candles, signals, proposals>>
    BY <1>2 DEF FetchFails, channelVars
  <2> QED BY <2>1, <2>2, <2>3
<1>3. CASE Process
  <2>1. batch' \subseteq Candles
    BY <1>3 DEF Process
  <2>2. phase' \in {"history", "poll"} /\ sleep' \in Nat
    BY <1>3 DEF Process, Rest
  <2> QED BY <1>3, <2>1, <2>2 DEF Process, busVars, channelVars
<1>4. ASSUME NEW c \in batch, PublishCandle(c)
      PROVE  TypeOK'
  <2>1. candles' \in Seq(Candles) /\ faults' \in 0..MaxFaults
    BY <1>4, PublishType DEF PublishCandle
  <2>2. phase' \in {"history", "poll"} /\ sleep' \in Nat /\ batch' \subseteq Candles
        /\ halfDone' \in BOOLEAN
    BY <1>4 DEF PublishCandle, Advance, Rest
  <2>3. sent' \subseteq Nat
    BY <1>4 DEF PublishCandle, Candles
  <2> QED BY <1>4, <2>1, <2>2, <2>3 DEF PublishCandle, Advance
<1>5. ASSUME NEW c \in batch, PersistCandle(c)
      PROVE  TypeOK'
  <2>1. faults' \in 0..MaxFaults
    BY <1>5 DEF PersistCandle, Fault
  <2>2. phase' \in {"history", "poll"} /\ sleep' \in Nat /\ batch' \subseteq Candles
        /\ halfDone' \in BOOLEAN
    BY <1>5 DEF PersistCandle, Advance, Rest
  <2>3. db' \subseteq Nat
    BY <1>5 DEF PersistCandle, Candles
  <2> QED BY <1>5, <2>1, <2>2, <2>3 DEF PersistCandle, Advance, channelVars
<1>6. CASE RestartFeed
  <2>1. faults' \in 0..MaxFaults
    BY <1>6 DEF RestartFeed, Fault
  <2>2. answer' \subseteq Candles /\ batch' \subseteq Candles /\ sent' \subseteq Nat
    BY <1>6 DEF RestartFeed
  <2>3. fetching' = FALSE /\ halfDone' = FALSE /\ sleep' = 0 /\ phase' = "history"
        /\ UNCHANGED <<db, now, listening>> /\ UNCHANGED <<candles, signals, proposals>>
    BY <1>6 DEF RestartFeed, channelVars
  <2> QED BY <2>1, <2>2, <2>3
<1> QED BY <1>1, <1>2, <1>3, <1>4, <1>5, <1>6 DEF FeedStep

\* The steps of the technical analysis agent.
LEMMA TechnicalStepType ==
    ASSUME TypeOK, BusAssumption, TechnicalAssumption, TechnicalStep,
           UNCHANGED <<decisionVars, accepted>>
    PROVE  TypeOK'
<1> USE BusAssumption, TechnicalAssumption DEF TypeOK, decisionVars
<1>1. CASE WarmUp
  <2>1. faults' \in 0..MaxFaults
    BY <1>1 DEF WarmUp, Fault
  <2>2. buffer' \subseteq Nat
    BY <1>1 DEF WarmUp, Kept
  <2>3. warmedUp' = TRUE /\ UNCHANGED <<lastSignal, outgoing, now, listening>>
        /\ UNCHANGED <<candles, signals, proposals>> /\ UNCHANGED feedVars
    BY <1>1 DEF WarmUp, channelVars
  <2> QED BY <2>1, <2>2, <2>3 DEF feedVars
<1>2. CASE Subscribe
  BY <1>2 DEF Subscribe, channelVars, technicalVars, feedVars
<1>3. CASE ProcessCandle
  <2>1. Head(candles) \in Candles /\ candles' \in Seq(Candles)
    BY <1>3 DEF ProcessCandle
  <2>2. buffer' \subseteq Nat
    BY <1>3, <2>1 DEF ProcessCandle, AddCandle, Kept, Candles
  <2>3. outgoing' \in Signals \union {None}
    BY <1>3, <2>1, <2>2 DEF ProcessCandle, Signals, Candles
  <2> QED BY <1>3, <2>1, <2>2, <2>3 DEF ProcessCandle, feedVars
<1>4. CASE PublishSignal
  <2>1. outgoing \in Signals
    BY <1>4 DEF PublishSignal
  <2>2. signals' \in Seq(Signals) /\ faults' \in 0..MaxFaults
    BY <1>4, <2>1, PublishType DEF PublishSignal
  <2> QED BY <1>4, <2>2 DEF PublishSignal, feedVars
<1>5. CASE RestartTechnical
  <2>1. faults' \in 0..MaxFaults
    BY <1>5 DEF RestartTechnical, Fault
  <2>2. buffer' \subseteq Nat /\ candles' \in Seq(Candles)
    BY <1>5 DEF RestartTechnical
  <2>3. listening' = FALSE /\ warmedUp' = FALSE /\ lastSignal' = None /\ outgoing' = None
        /\ UNCHANGED <<now, signals, proposals>> /\ UNCHANGED feedVars
    BY <1>5 DEF RestartTechnical
  <2> QED BY <2>1, <2>2, <2>3 DEF feedVars
<1> QED BY <1>1, <1>2, <1>3, <1>4, <1>5 DEF TechnicalStep

\* What a handler of the Decision agent proposes is a proposal.
LEMMA AggregateType ==
    ASSUME TypeOK, BusAssumption, AggregateAndPropose \/ (Fault("publish") /\ proposals' = proposals)
    PROVE  proposals' \in Seq(Proposals) /\ faults' \in 0..MaxFaults
<1> DEFINE side == FusedSide(ValidTechnical, ValidSentiment)
           p == [side |-> side, technical |-> ValidTechnical, sentiment |-> ValidSentiment]
<1> USE BusAssumption DEF TypeOK
<1>1. CASE side \in {"buy", "sell"} /\ Publish(proposals, proposals', p, TRUE)
  <2>1. p \in Proposals
    BY <1>1 DEF Proposals, ValidTechnical, ValidSentiment
  <2> QED BY <1>1, <2>1, PublishType
<1>2. CASE UNCHANGED <<proposals, faults>>
  BY <1>2
<1>3. CASE Fault("publish") /\ proposals' = proposals
  BY <1>3 DEF Fault
<1> QED BY <1>1, <1>2, <1>3 DEF AggregateAndPropose

\* The steps of the Decision agent.
LEMMA DecisionStepType ==
    ASSUME TypeOK, BusAssumption, DecisionAssumption, DecisionStep, UNCHANGED accepted
    PROVE  TypeOK'
<1> USE BusAssumption, DecisionAssumption DEF TypeOK
<1>1. CASE Halt
  BY <1>1 DEF Halt, Fault, channelVars, technicalVars, feedVars
<1>2. CASE OnTechnicalSignal
  <2>1. Head(signals) \in Signals /\ signals' \in Seq(Signals)
    BY <1>2 DEF OnTechnicalSignal
  <2>2. storing' \in [Tasks -> BOOLEAN]
    BY <1>2 DEF OnTechnicalSignal
  <2> QED BY <1>2, <2>1, <2>2 DEF OnTechnicalSignal, technicalVars, feedVars
<1>3. CASE OnSentimentSignal
  <2>1. sentiment' \in News
    BY <1>3 DEF OnSentimentSignal, News
  <2>2. storing' \in [Tasks -> BOOLEAN]
    BY <1>3 DEF OnSentimentSignal
  <2> QED BY <1>3, <2>1, <2>2 DEF OnSentimentSignal, busVars, channelVars, technicalVars, feedVars
<1>4. ASSUME NEW t \in Tasks, Aggregate(t)
      PROVE  TypeOK'
  <2>1. proposals' \in Seq(Proposals) /\ faults' \in 0..MaxFaults
    BY <1>4, AggregateType DEF Aggregate
  <2>2. storing' \in [Tasks -> BOOLEAN]
    BY <1>4 DEF Aggregate
  <2> QED BY <1>4, <2>1, <2>2 DEF Aggregate, technicalVars, feedVars
<1> QED BY <1>1, <1>2, <1>3, <1>4 DEF DecisionStep

\* Every variable of the signal path keeps its type.
THEOREM SignalTypeCorrect == Spec => []TypeOK
<1> USE BusAssumption, FeedAssumption, TechnicalAssumption, DecisionAssumption
<1>1. Init => TypeOK
  <2> SUFFICES ASSUME Init PROVE TypeOK
    OBVIOUS
  <2>1. now \in Nat /\ faults \in 0..MaxFaults
    BY DEF Init
  <2>2. candles \in Seq(Candles) /\ signals \in Seq(Signals) /\ proposals \in Seq(Proposals)
    BY DEF Init
  <2>3. /\ answer \subseteq Candles /\ batch \subseteq Candles
        /\ sent \subseteq Nat /\ buffer \subseteq Nat
    BY DEF Init, FeedInit, TechnicalInit
  <2>4. db \subseteq Nat
    BY DEF Init, FeedInit, ClosedBefore
  <2>5. storing \in [Tasks -> BOOLEAN]
    BY DEF Init, DecisionInit
  <2>6. phase \in {"history", "poll"} /\ fetching \in BOOLEAN /\ halfDone \in BOOLEAN /\ sleep \in Nat
    BY DEF Init, FeedInit
  <2> QED BY <2>1, <2>2, <2>3, <2>4, <2>5, <2>6 DEF TypeOK, Init, TechnicalInit, DecisionInit
<1>2. TypeOK /\ [Next]_vars => TypeOK'
  <2> SUFFICES ASSUME TypeOK, [Next]_vars PROVE TypeOK'
    OBVIOUS
  <2>1. CASE FeedStep /\ UNCHANGED <<technicalVars, decisionVars, accepted>>
    BY <2>1, FeedStepType
  <2>2. CASE TechnicalStep /\ UNCHANGED <<decisionVars, accepted>>
    BY <2>2, TechnicalStepType
  <2>3. CASE DecisionStep /\ UNCHANGED accepted
    BY <2>3, DecisionStepType
  <2>4. CASE CheckStaleness
    <3>1. Head(proposals) \in Proposals /\ proposals' \in Seq(Proposals)
      BY <2>4 DEF CheckStaleness, TypeOK
    <3> QED BY <2>4, <3>1 DEF CheckStaleness, TypeOK, feedVars, technicalVars, decisionVars
  <2>5. CASE Tick
    BY <2>5 DEF Tick, TypeOK, channelVars, technicalVars, decisionVars
  <2>6. CASE UNCHANGED vars
    BY <2>6 DEF vars, TypeOK, busVars, channelVars, feedVars, technicalVars, decisionVars
  <2> QED BY <2>1, <2>2, <2>3, <2>4, <2>5, <2>6 DEF Next
<1> QED BY <1>1, <1>2, PTL DEF Spec

--------------------------------------------------------------------------------
(* Proposals and their technical signals *)

\* A proposal that is added agrees with its technical signal.
LEMMA AggregateAgrees ==
    ASSUME FusionAssumption, TypeOK, NotAgainstTechnical,
           AggregateAndPropose \/ (Fault("publish") /\ proposals' = proposals)
    PROVE  NotAgainstTechnical'
<1> DEFINE side == FusedSide(ValidTechnical, ValidSentiment)
           p == [side |-> side, technical |-> ValidTechnical, sentiment |-> ValidSentiment]
           Agrees(q) == q.technical # None =>
                            SideOf(q.technical.direction) \in {q.side, "none"}
<1>1. ValidTechnical \in Signals \union {None} /\ ValidSentiment \in News \union {None}
  BY DEF TypeOK, ValidTechnical, ValidSentiment
<1>2. side \in {"buy", "sell"} => Agrees(p)
  <2> SUFFICES ASSUME side \in {"buy", "sell"}, ValidTechnical # None
               PROVE  SideOf(ValidTechnical.direction) \in {side, "none"}
    OBVIOUS
  <2>1. ValidTechnical.direction \in Directions
    BY <1>1 DEF Signals
  <2>2. ValidSentiment # None => ValidSentiment.direction \in Directions
    BY <1>1 DEF News
  <2> QED BY <2>1, <2>2, TechnicalLeads
<1>3. \/ proposals' = proposals
      \/ side \in {"buy", "sell"} /\ proposals' = Append(proposals, p)
  BY DEF AggregateAndPropose, Publish
<1>4. CASE side \in {"buy", "sell"} /\ proposals' = Append(proposals, p)
  <2>1. proposals \in Seq(Proposals)
    BY DEF TypeOK
  <2>2. ASSUME NEW i \in 1..Len(proposals') PROVE Agrees(proposals'[i])
    <3>1. CASE i \in 1..Len(proposals)
      <4>1. proposals'[i] = proposals[i]
        BY <1>4, <2>1, <3>1
      <4> QED BY <3>1, <4>1 DEF NotAgainstTechnical
    <3>2. CASE i = Len(proposals) + 1
      <4>1. proposals'[i] = p
        BY <1>4, <2>1, <3>2
      <4> QED BY <4>1, <1>2, <1>4
    <3> QED BY <1>4, <2>1, <3>1, <3>2
  <2> QED BY <2>2 DEF NotAgainstTechnical
<1>5. CASE proposals' = proposals
  BY <1>5 DEF NotAgainstTechnical
<1> QED BY <1>3, <1>4, <1>5

\* Only the Decision agent adds proposals, and only Risk takes one.
LEMMA ProposalsStep ==
    ASSUME [Next]_vars
    PROVE  \/ UNCHANGED proposals
           \/ AggregateAndPropose \/ (Fault("publish") /\ proposals' = proposals)
           \/ CheckStaleness
<1>1. CASE FeedStep
  BY <1>1 DEF FeedStep, Fetch, FetchFails, Process, PublishCandle, PersistCandle, RestartFeed,
              busVars, channelVars
<1>2. CASE TechnicalStep
  BY <1>2 DEF TechnicalStep, WarmUp, Subscribe, ProcessCandle, PublishSignal, RestartTechnical,
              channelVars
<1>3. CASE DecisionStep
  BY <1>3 DEF DecisionStep, Halt, OnTechnicalSignal, OnSentimentSignal, Aggregate,
              busVars, channelVars
<1>4. CASE CheckStaleness
  BY <1>4
<1>5. CASE Tick
  BY <1>5 DEF Tick, channelVars
<1>6. CASE UNCHANGED vars
  BY <1>6 DEF vars, busVars, channelVars
<1> QED BY <1>1, <1>2, <1>3, <1>4, <1>5, <1>6 DEF Next

\* No proposal goes against a technical signal it rests on, whatever the news, the
\* timeframe and the faults: the aggregator's weights decide.
THEOREM NeverAgainstTechnical == Spec => []NotAgainstTechnical
<1> USE FusionAssumption, BusAssumption, FeedAssumption, TechnicalAssumption, DecisionAssumption
<1>1. Init => NotAgainstTechnical
  BY DEF Init, NotAgainstTechnical
<1>2. TypeOK /\ NotAgainstTechnical /\ [Next]_vars => NotAgainstTechnical'
  <2> SUFFICES ASSUME TypeOK, NotAgainstTechnical, [Next]_vars PROVE NotAgainstTechnical'
    OBVIOUS
  <2>1. CASE UNCHANGED proposals
    BY <2>1 DEF NotAgainstTechnical
  <2>2. CASE AggregateAndPropose \/ (Fault("publish") /\ proposals' = proposals)
    BY <2>2, FusionAssumption, AggregateAgrees
  <2>3. CASE CheckStaleness
    <3>1. proposals \in Seq(Proposals) /\ proposals # <<>> /\ proposals' = Tail(proposals)
      BY <2>3 DEF CheckStaleness, TypeOK
    <3>2. Len(proposals') = Len(proposals) - 1
          /\ \A i \in 1..Len(proposals') : proposals'[i] = proposals[i + 1]
      BY <3>1
    <3>3. \A i \in 1..Len(proposals') : i + 1 \in 1..Len(proposals)
      BY <3>1, <3>2
    <3> QED BY <3>2, <3>3 DEF NotAgainstTechnical
  <2> QED BY <2>1, <2>2, <2>3, ProposalsStep
<1>3. Spec => []TypeOK
  BY SignalTypeCorrect, BusAssumption, FeedAssumption, TechnicalAssumption, DecisionAssumption
<1> QED BY <1>1, <1>2, <1>3, PTL DEF Spec

--------------------------------------------------------------------------------
(* The age of the data behind what Risk accepts *)

\* A poll returns no candle that closed this much earlier or more.
Slack == (PollLimit - 1) * Bar

InTime(c) == c.polled => now < Closes(c.bar) + Slack

\* Time stands still while candles wait for a handler.
CandlesInTime ==
    /\ ~fetching => answer = {}
    /\ \A c \in answer : InTime(c)
    /\ \A c \in batch : InTime(c)
    /\ \A i \in 1..Len(candles) : InTime(candles[i])

\* A signal is born no later than now, from data that a poll had just returned.
WellBorn(s) ==
    s # None => /\ s.born <= now
                /\ s.polled => s.born < Closes(s.data) + Slack

SignalsWellBorn ==
    /\ outgoing # None => outgoing.born = now
    /\ WellBorn(outgoing)
    /\ WellBorn(technical)
    /\ \A i \in 1..Len(signals) : WellBorn(signals[i])
    /\ \A i \in 1..Len(proposals) : WellBorn(proposals[i].technical)

AcceptedYoung ==
    accepted # None =>
        /\ WellBorn(accepted.technical)
        /\ accepted.technical # None => now - accepted.technical.born <= MaxStaleness

AgeInv == CandlesInTime /\ SignalsWellBorn /\ AcceptedYoung

LEMMA TimesMonotone ==
    ASSUME NEW a \in Int, NEW b \in Int, a <= b, NEW k \in Nat
    PROVE  a * k <= b * k
<1>1. (b - a) * k >= 0
  OBVIOUS
<1> QED BY <1>1

LEMMA FormingNow ==
    ASSUME BusAssumption, now \in Nat
    PROVE  Forming \in Nat /\ now < (Forming + 1) * Bar
BY DEF BusAssumption, Forming

LEMMA ClosesMonotone ==
    ASSUME BusAssumption, NEW a \in Nat, NEW b \in Nat, a <= b
    PROVE  Closes(a) <= Closes(b)
BY TimesMonotone DEF BusAssumption, Closes

LEMMA RowInTime ==
    ASSUME BusAssumption, FeedAssumption, now \in Nat, NEW b \in Nat, b > Forming - PollLimit
    PROVE  now < Closes(b) + Slack
<1>1. Forming \in Nat /\ now < (Forming + 1) * Bar
  BY FormingNow
<1>2. Bar \in Nat /\ PollLimit \in Nat
  BY DEF BusAssumption, FeedAssumption
<1>3. Forming + 1 <= b + PollLimit
  BY <1>1, <1>2
<1>4. (Forming + 1) * Bar <= (b + PollLimit) * Bar
  BY <1>1, <1>2, <1>3, TimesMonotone
<1>5. (b + PollLimit) * Bar = (b + 1) * Bar + (PollLimit - 1) * Bar
  BY <1>2
<1> QED BY <1>1, <1>2, <1>4, <1>5 DEF Closes, Slack

LEMMA TailIndex ==
    ASSUME NEW T, NEW s \in Seq(T), s # <<>>
    PROVE  /\ Head(s) = s[1] /\ 1 \in 1..Len(s)
           /\ \A i \in 1..Len(Tail(s)) : i + 1 \in 1..Len(s) /\ Tail(s)[i] = s[i + 1]
OBVIOUS

LEMMA AppendIndex ==
    ASSUME NEW T, NEW s \in Seq(T), NEW x
    PROVE  \A i \in 1..Len(Append(s, x)) :
               \/ i \in 1..Len(s) /\ Append(s, x)[i] = s[i]
               \/ Append(s, x)[i] = x
OBVIOUS

\* The parts of the invariant that no step of the market data agent touches.
LEMMA FeedStepAge ==
    ASSUME TypeOK, BusAssumption, FeedAssumption, AgeInv, FeedStep,
           UNCHANGED <<technicalVars, decisionVars, accepted>>
    PROVE  AgeInv'
<1> USE BusAssumption, FeedAssumption
<1>1. now' = now /\ UNCHANGED <<signals, proposals>>
  BY DEF FeedStep, Fetch, FetchFails, Process, PublishCandle, PersistCandle, RestartFeed,
         busVars, channelVars
<1>2. ASSUME NEW c, InTime(c) PROVE InTime(c)'
  BY <1>1, <1>2 DEF InTime
<1>3. SignalsWellBorn' /\ AcceptedYoung'
  BY <1>1 DEF AgeInv, SignalsWellBorn, AcceptedYoung, WellBorn, technicalVars, decisionVars
<1>4. CandlesInTime'
  <2> USE DEF AgeInv, CandlesInTime
  <2>1. CASE Fetch
    <3>1. PICK late : answer' = {[bar |-> b, whole |-> Closes(b) <= now,
                                  polled |-> phase = "poll"] : b \in Rows \ late}
      BY <2>1 DEF Fetch
    <3>2. ASSUME NEW b \in Rows, phase = "poll" PROVE now < Closes(b) + Slack
      BY <3>2, RowInTime DEF Rows, Limit, TypeOK
    <3>3. ASSUME NEW c \in answer' PROVE InTime(c)
      <4>1. PICK b \in Rows : c = [bar |-> b, whole |-> Closes(b) <= now, polled |-> phase = "poll"]
        BY <3>1
      <4>2. c.bar = b /\ c.polled = (phase = "poll")
        BY <4>1
      <4> QED BY <4>2, <3>2 DEF InTime
    <3>4. fetching' = TRUE /\ UNCHANGED <<batch, candles>>
      BY <2>1 DEF Fetch, channelVars
    <3> QED BY <3>3, <3>4, <1>2
  <2>2. CASE FetchFails
    <3>1. answer' = {} /\ UNCHANGED <<batch, candles>>
      BY <2>2 DEF FetchFails, channelVars
    <3> QED BY <3>1, <1>2
  <2>3. CASE Process
    <3>1. answer' = {} /\ batch' \subseteq answer /\ candles' = candles
      BY <2>3 DEF Process, busVars, channelVars
    <3> QED BY <3>1, <1>2
  <2>4. ASSUME NEW c \in batch, PublishCandle(c) PROVE CandlesInTime'
    <3>1. batch' \subseteq batch /\ UNCHANGED <<answer, fetching>>
      BY <2>4 DEF PublishCandle, Advance
    <3>2. candles' = candles \/ candles' = Append(candles, c)
      BY <2>4 DEF PublishCandle, Publish
    <3>3. candles \in Seq(Candles)
      BY DEF TypeOK
    <3>4. ASSUME NEW i \in 1..Len(candles') PROVE InTime(candles'[i])
      BY <3>2, <3>3, AppendIndex, InTime(c)
    <3> QED BY <3>1, <3>4, <1>2
  <2>5. ASSUME NEW c \in batch, PersistCandle(c) PROVE CandlesInTime'
    <3>1. batch' \subseteq batch /\ UNCHANGED <<answer, fetching, candles>>
      BY <2>5 DEF PersistCandle, Advance, channelVars
    <3> QED BY <3>1, <1>2
  <2>6. CASE RestartFeed
    <3>1. answer' = {} /\ batch' = {} /\ candles' = candles
      BY <2>6 DEF RestartFeed, channelVars
    <3> QED BY <3>1, <1>2
  <2> QED BY <2>1, <2>2, <2>3, <2>4, <2>5, <2>6 DEF FeedStep
<1> QED BY <1>3, <1>4 DEF AgeInv

\* The newest bar in the buffer is no older than the candle that was just handled.
LEMMA NewestCoversCandle ==
    ASSUME TypeOK, BusAssumption, TechnicalAssumption, NEW c \in Candles, buffer' = AddCandle(c),
           NEW newest \in buffer', \A b \in buffer' : b <= newest
    PROVE  newest \in Nat /\ c.bar \in Nat /\ c.bar <= newest
<1>1. buffer \subseteq Nat /\ c.bar \in Nat
  BY DEF TypeOK, Candles
<1>2. newest \in Nat
  BY <1>1 DEF AddCandle, Kept
<1>3. CASE \A b \in buffer : b < c.bar
  <2> DEFINE S == buffer \union {c.bar}
  <2>1. \A d \in S : ~(d > c.bar)
    BY <1>1, <1>3
  <2>2. Cardinality({d \in S : d > c.bar}) = 0
    <3>1. {d \in S : d > c.bar} = {}
      BY <2>1
    <3> QED BY <3>1, FS_EmptySet
  <2>3. c.bar \in Kept(S)
    BY <2>2 DEF Kept, TechnicalAssumption
  <2>4. c.bar \in buffer'
    BY <1>3, <2>3 DEF AddCandle
  <2> QED BY <1>1, <1>2, <2>4
<1>4. CASE ~(\A b \in buffer : b < c.bar)
  <2>1. PICK b \in buffer : ~(b < c.bar)
    BY <1>4
  <2>2. b \in buffer'
    BY <1>4 DEF AddCandle
  <2> QED BY <1>1, <1>2, <2>1, <2>2
<1> QED BY <1>3, <1>4

\* The steps of the technical analysis agent.
LEMMA TechnicalStepAge ==
    ASSUME TypeOK, BusAssumption, FeedAssumption, TechnicalAssumption, AgeInv, TechnicalStep,
           UNCHANGED <<decisionVars, accepted>>
    PROVE  AgeInv'
<1> USE BusAssumption, FeedAssumption, TechnicalAssumption
<1>1. now' = now /\ UNCHANGED <<proposals, technical, accepted, answer, batch, fetching>>
  BY DEF TechnicalStep, WarmUp, Subscribe, ProcessCandle, PublishSignal, RestartTechnical,
         channelVars, feedVars, decisionVars
<1>2. ASSUME NEW c, InTime(c) PROVE InTime(c)'
  BY <1>1, <1>2 DEF InTime
<1>3. ASSUME UNCHANGED signals PROVE (\A i \in 1..Len(signals) : WellBorn(signals[i]))'
  BY <1>1, <1>3 DEF AgeInv, SignalsWellBorn, WellBorn
<1>4. AcceptedYoung'
  BY <1>1 DEF AgeInv, AcceptedYoung, WellBorn
<1>5. /\ WellBorn(technical)'
      /\ (\A i \in 1..Len(proposals) : WellBorn(proposals[i].technical))'
  BY <1>1 DEF AgeInv, SignalsWellBorn, WellBorn
<1>6. ASSUME UNCHANGED <<candles, signals, outgoing>> PROVE AgeInv'
  <2>1. CandlesInTime'
    BY <1>1, <1>2, <1>6 DEF AgeInv, CandlesInTime
  <2>2. (outgoing # None => outgoing.born = now)' /\ WellBorn(outgoing)'
    BY <1>1, <1>6 DEF AgeInv, SignalsWellBorn, WellBorn
  <2> QED BY <1>3, <1>4, <1>5, <1>6, <2>1, <2>2 DEF AgeInv, SignalsWellBorn
<1>7. CASE ProcessCandle
  <2>1. candles \in Seq(Candles) /\ candles # <<>> /\ candles' = Tail(candles) /\ signals' = signals
    BY <1>7 DEF ProcessCandle, TypeOK
  <2>2. Head(candles) \in Candles /\ InTime(Head(candles))
    BY <2>1, TailIndex DEF AgeInv, CandlesInTime
  <2>3. CandlesInTime'
    <3>1. ASSUME NEW i \in 1..Len(candles') PROVE InTime(candles'[i])
      BY <2>1, TailIndex DEF AgeInv, CandlesInTime
    <3> QED BY <1>1, <1>2, <3>1 DEF AgeInv, CandlesInTime
  <2>4. outgoing' # None => outgoing'.born = now /\ WellBorn(outgoing')
    <3>1. CASE outgoing' = None
      BY <3>1
    <3>2. CASE outgoing' # None
      <4>1. buffer' = AddCandle(Head(candles))
        BY <1>7 DEF ProcessCandle
      <4>2. PICK newest \in buffer', r \in Readings :
               /\ \A b \in buffer' : b <= newest
               /\ outgoing' = [direction |-> r[1], trend |-> r[2], born |-> now,
                               data |-> newest, polled |-> Head(candles).polled]
        BY <1>7, <3>2 DEF ProcessCandle
      <4>3. newest \in Nat /\ Head(candles).bar \in Nat /\ Head(candles).bar <= newest
        BY <2>2, <4>1, <4>2, NewestCoversCandle
      <4>4. Closes(Head(candles).bar) <= Closes(newest)
        BY <4>3, ClosesMonotone
      <4>5. Slack \in Int
        BY DEF Slack, FeedAssumption, BusAssumption
      <4>6. Closes(newest) \in Nat /\ Closes(Head(candles).bar) \in Nat /\ now \in Nat
        BY <4>3, ClosesNat DEF TypeOK
      <4> QED BY <2>2, <4>2, <4>4, <4>5, <4>6 DEF WellBorn, InTime
    <3> QED BY <3>1, <3>2
  <2>5. (outgoing # None => outgoing.born = now)' /\ WellBorn(outgoing)'
    BY <2>4, <1>1 DEF WellBorn
  <2> QED BY <1>3, <1>4, <1>5, <2>1, <2>3, <2>5 DEF AgeInv, SignalsWellBorn
<1>8. CASE PublishSignal
  <2>1. outgoing' = None /\ candles' = candles
    BY <1>8 DEF PublishSignal
  <2>2. signals' = signals \/ signals' = Append(signals, outgoing)
    BY <1>8 DEF PublishSignal, Publish
  <2>3. signals \in Seq(Signals)
    BY DEF TypeOK
  <2>4. ASSUME NEW i \in 1..Len(signals') PROVE WellBorn(signals'[i])
    BY <2>2, <2>3, AppendIndex DEF AgeInv, SignalsWellBorn
  <2>5. CandlesInTime'
    BY <1>1, <1>2, <2>1 DEF AgeInv, CandlesInTime
  <2>6. WellBorn(outgoing)'
    BY <2>1 DEF WellBorn
  <2>7. (\A i \in 1..Len(signals) : WellBorn(signals[i]))'
    BY <1>1, <2>4 DEF WellBorn
  <2> QED BY <1>4, <1>5, <2>1, <2>5, <2>6, <2>7 DEF AgeInv, SignalsWellBorn
<1>9. CASE RestartTechnical
  <2>1. outgoing' = None /\ candles' = <<>> /\ signals' = signals
    BY <1>9 DEF RestartTechnical
  <2>2. CandlesInTime'
    BY <1>1, <1>2, <2>1 DEF AgeInv, CandlesInTime
  <2>3. WellBorn(outgoing)'
    BY <2>1 DEF WellBorn
  <2> QED BY <1>3, <1>4, <1>5, <2>1, <2>2, <2>3 DEF AgeInv, SignalsWellBorn
<1>10. CASE WarmUp \/ Subscribe
  BY <1>6, <1>10 DEF WarmUp, Subscribe, channelVars, technicalVars
<1> QED BY <1>7, <1>8, <1>9, <1>10 DEF TechnicalStep

\* The steps of the Decision agent.
LEMMA DecisionStepAge ==
    ASSUME TypeOK, AgeInv, DecisionStep, UNCHANGED accepted
    PROVE  AgeInv'
<1>1. now' = now /\ UNCHANGED <<candles, outgoing, accepted, answer, batch, fetching>>
  BY DEF DecisionStep, Halt, OnTechnicalSignal, OnSentimentSignal, Aggregate,
         busVars, channelVars, technicalVars, feedVars
<1>2. CandlesInTime'
  BY <1>1 DEF AgeInv, CandlesInTime, InTime
<1>3. AcceptedYoung'
  BY <1>1 DEF AgeInv, AcceptedYoung, WellBorn
<1>4. (outgoing # None => outgoing.born = now)' /\ WellBorn(outgoing)'
  BY <1>1 DEF AgeInv, SignalsWellBorn, WellBorn
<1>5. CASE OnTechnicalSignal
  <2>1. signals \in Seq(Signals) /\ signals # <<>> /\ signals' = Tail(signals)
        /\ technical' = Head(signals) /\ proposals' = proposals
    BY <1>5 DEF OnTechnicalSignal, TypeOK
  <2>2. WellBorn(Head(signals))
    BY <2>1, TailIndex DEF AgeInv, SignalsWellBorn
  <2>3. WellBorn(technical)'
    BY <1>1, <2>1, <2>2 DEF WellBorn
  <2>4. ASSUME NEW i \in 1..Len(signals') PROVE WellBorn(signals'[i])
    BY <2>1, TailIndex DEF AgeInv, SignalsWellBorn
  <2>5. (\A i \in 1..Len(signals) : WellBorn(signals[i]))'
    BY <1>1, <2>4 DEF WellBorn
  <2>6. (\A i \in 1..Len(proposals) : WellBorn(proposals[i].technical))'
    BY <1>1, <2>1 DEF AgeInv, SignalsWellBorn, WellBorn
  <2> QED BY <1>2, <1>3, <1>4, <2>3, <2>5, <2>6 DEF AgeInv, SignalsWellBorn
<1>6. CASE Halt \/ OnSentimentSignal
  <2>1. UNCHANGED <<signals, proposals, technical>>
    BY <1>6 DEF Halt, OnSentimentSignal, busVars, channelVars
  <2>2. WellBorn(technical)' /\ (\A i \in 1..Len(signals) : WellBorn(signals[i]))'
    BY <1>1, <2>1 DEF AgeInv, SignalsWellBorn, WellBorn
  <2>3. (\A i \in 1..Len(proposals) : WellBorn(proposals[i].technical))'
    BY <1>1, <2>1 DEF AgeInv, SignalsWellBorn, WellBorn
  <2> QED BY <1>2, <1>3, <1>4, <2>2, <2>3 DEF AgeInv, SignalsWellBorn
<1>7. ASSUME NEW t \in Tasks, Aggregate(t) PROVE AgeInv'
  <2> DEFINE p == [side |-> FusedSide(ValidTechnical, ValidSentiment),
                   technical |-> ValidTechnical, sentiment |-> ValidSentiment]
  <2>1. UNCHANGED <<signals, technical>>
    BY <1>7 DEF Aggregate
  <2>2. proposals' = proposals \/ proposals' = Append(proposals, p)
    BY <1>7 DEF Aggregate, AggregateAndPropose, Publish
  <2>3. proposals \in Seq(Proposals)
    BY DEF TypeOK
  <2>4. WellBorn(p.technical)
    BY DEF AgeInv, SignalsWellBorn, WellBorn, ValidTechnical
  <2>5. ASSUME NEW i \in 1..Len(proposals') PROVE WellBorn(proposals'[i].technical)
    BY <2>2, <2>3, <2>4, AppendIndex DEF AgeInv, SignalsWellBorn
  <2>6. (\A i \in 1..Len(proposals) : WellBorn(proposals[i].technical))'
    BY <1>1, <2>5 DEF WellBorn
  <2>7. WellBorn(technical)' /\ (\A i \in 1..Len(signals) : WellBorn(signals[i]))'
    BY <1>1, <2>1 DEF AgeInv, SignalsWellBorn, WellBorn
  <2> QED BY <1>2, <1>3, <1>4, <2>6, <2>7 DEF AgeInv, SignalsWellBorn
<1> QED BY <1>5, <1>6, <1>7 DEF DecisionStep

\* Risk's check: what passes is as young as the limit says.
LEMMA CheckStalenessAge ==
    ASSUME TypeOK, StalenessAssumption, AgeInv, CheckStaleness
    PROVE  AgeInv'
<1>1. /\ proposals \in Seq(Proposals) /\ proposals # <<>> /\ proposals' = Tail(proposals)
      /\ UNCHANGED <<now, candles, signals, outgoing, technical, answer, batch, fetching>>
  BY DEF CheckStaleness, TypeOK, feedVars, technicalVars, decisionVars
<1>2. CandlesInTime'
  BY <1>1 DEF AgeInv, CandlesInTime, InTime
<1>3. Head(proposals) \in Proposals /\ WellBorn(Head(proposals).technical)
  BY <1>1, TailIndex DEF AgeInv, SignalsWellBorn
<1>4. AcceptedYoung'
  <2> SUFFICES ASSUME accepted' # None
               PROVE  /\ WellBorn(accepted.technical)'
                      /\ accepted'.technical # None => now - accepted'.technical.born <= MaxStaleness
    BY <1>1 DEF AcceptedYoung
  <2>1. accepted' = Head(proposals) /\ ~(SignalAge(Head(proposals)) > MaxStaleness)
    BY DEF CheckStaleness
  <2>2. WellBorn(accepted.technical)'
    BY <1>1, <1>3, <2>1 DEF WellBorn
  <2>3. ASSUME accepted'.technical # None PROVE now - accepted'.technical.born <= MaxStaleness
    <3>1. now \in Nat /\ Head(proposals).technical \in Signals
      BY <1>3, <2>1, <2>3 DEF TypeOK, Proposals
    <3>2. Head(proposals).technical.born \in Nat
      BY <3>1 DEF Signals
    <3> QED BY <2>1, <2>3, <3>1, <3>2 DEF SignalAge, StalenessAssumption
  <2> QED BY <2>2, <2>3
<1>5. ASSUME NEW i \in 1..Len(proposals') PROVE WellBorn(proposals'[i].technical)
  BY <1>1, TailIndex DEF AgeInv, SignalsWellBorn
<1>6. (\A i \in 1..Len(proposals) : WellBorn(proposals[i].technical))'
  BY <1>1, <1>5 DEF WellBorn
<1>7. /\ (outgoing # None => outgoing.born = now)' /\ WellBorn(outgoing)' /\ WellBorn(technical)'
      /\ (\A i \in 1..Len(signals) : WellBorn(signals[i]))'
  BY <1>1 DEF AgeInv, SignalsWellBorn, WellBorn
<1> QED BY <1>2, <1>4, <1>6, <1>7 DEF AgeInv, SignalsWellBorn

\* Time goes on only when nothing is on its way.
LEMMA TickAge ==
    ASSUME TypeOK, "straddle" \notin Faults, AgeInv, Tick
    PROVE  AgeInv'
<1>1. /\ candles = <<>> /\ proposals = <<>> /\ outgoing = None /\ batch = {} /\ answer = {}
      /\ now' = now + 1 /\ accepted' = None
      /\ UNCHANGED <<candles, proposals, signals, outgoing, batch, answer, technical>>
  BY DEF Tick, Quiet, AgeInv, CandlesInTime, channelVars, technicalVars, decisionVars
<1>2. CandlesInTime' /\ AcceptedYoung'
  BY <1>1 DEF CandlesInTime, AcceptedYoung
<1>3. now \in Nat /\ signals \in Seq(Signals) /\ technical \in Signals \union {None}
  BY DEF TypeOK
<1>4. WellBorn(technical)'
  <2>1. CASE technical = None
    BY <1>1, <2>1 DEF WellBorn
  <2>2. CASE technical \in Signals
    <3>1. technical.born \in Nat
      BY <2>2 DEF Signals
    <3> QED BY <1>1, <1>3, <3>1 DEF AgeInv, SignalsWellBorn, WellBorn
  <2> QED BY <1>3, <2>1, <2>2
<1>5. (\A i \in 1..Len(signals) : WellBorn(signals[i]))'
  <2> SUFFICES ASSUME NEW i \in 1..Len(signals) PROVE WellBorn(signals[i])'
    BY <1>1
  <2>1. signals[i] \in Signals
    BY <1>3
  <2>2. signals[i].born \in Nat
    BY <2>1 DEF Signals
  <2>3. WellBorn(signals[i])
    BY DEF AgeInv, SignalsWellBorn
  <2> QED BY <1>1, <1>3, <2>2, <2>3 DEF WellBorn
<1>6. (outgoing # None => outgoing.born = now)' /\ WellBorn(outgoing)'
      /\ (\A i \in 1..Len(proposals) : WellBorn(proposals[i].technical))'
  BY <1>1 DEF WellBorn
<1> QED BY <1>2, <1>4, <1>5, <1>6 DEF AgeInv, SignalsWellBorn

\* What Risk accepts rests on data of bounded age, for any timeframe, limits and numbers
\* of candles per poll, as long as no request straddles the close of a candle.
THEOREM AcceptedDataBounded ==
    ASSUME "straddle" \notin Faults
    PROVE  Spec => []AcceptedDataBound
<1> USE BusAssumption, FeedAssumption, TechnicalAssumption, DecisionAssumption,
        StalenessAssumption
<1>1. Init => AgeInv
  BY DEF Init, FeedInit, TechnicalInit, DecisionInit, AgeInv, CandlesInTime, SignalsWellBorn,
         AcceptedYoung, WellBorn
<1>2. TypeOK /\ AgeInv /\ [Next]_vars => AgeInv'
  <2> SUFFICES ASSUME TypeOK, AgeInv, [Next]_vars PROVE AgeInv'
    OBVIOUS
  <2>1. CASE FeedStep /\ UNCHANGED <<technicalVars, decisionVars, accepted>>
    BY <2>1, FeedStepAge
  <2>2. CASE TechnicalStep /\ UNCHANGED <<decisionVars, accepted>>
    BY <2>2, TechnicalStepAge
  <2>3. CASE DecisionStep /\ UNCHANGED accepted
    BY <2>3, DecisionStepAge
  <2>4. CASE CheckStaleness
    BY <2>4, CheckStalenessAge
  <2>5. CASE Tick
    BY <2>5, "straddle" \notin Faults, TickAge
  <2>6. CASE UNCHANGED vars
    BY <2>6 DEF vars, busVars, channelVars, feedVars, technicalVars, decisionVars, AgeInv,
                CandlesInTime, SignalsWellBorn, AcceptedYoung, WellBorn, InTime
  <2> QED BY <2>1, <2>2, <2>3, <2>4, <2>5, <2>6 DEF Next
<1>3. TypeOK /\ AgeInv => AcceptedDataBound
  <2> SUFFICES ASSUME TypeOK, AgeInv, accepted # None, accepted.technical # None,
                      accepted.technical.polled
               PROVE  DataAge(accepted) < (PollLimit - 1) * Bar + MaxStaleness
    BY DEF AcceptedDataBound
  <2>1. accepted.technical \in Signals
    BY DEF TypeOK, Proposals
  <2>2. /\ accepted.technical.born < Closes(accepted.technical.data) + Slack
        /\ now - accepted.technical.born <= MaxStaleness
    BY DEF AgeInv, AcceptedYoung, WellBorn
  <2>3. now \in Nat /\ accepted.technical.born \in Nat /\ accepted.technical.data \in Nat
    BY <2>1 DEF TypeOK, Signals
  <2>4. Closes(accepted.technical.data) \in Nat
    BY <2>3, ClosesNat
  <2>5. Slack \in Int /\ MaxStaleness \in Nat
    BY DEF Slack, FeedAssumption, BusAssumption, StalenessAssumption
  <2>6. DataAge(accepted) < Slack + MaxStaleness
    BY <2>2, <2>3, <2>4, <2>5 DEF DataAge
  <2> QED BY <2>6 DEF Slack
<1>4. Spec => []TypeOK
  BY SignalTypeCorrect
<1> QED BY <1>1, <1>2, <1>3, <1>4, PTL DEF Spec

LEMMA NatInductive ==
    ASSUME NEW Good \in SUBSET Nat, 0 \in Good, \A n \in Good : n + 1 \in Good
    PROVE  Good = Nat
<1> SUFFICES ASSUME Nat \ Good # {} PROVE FALSE
  OBVIOUS
<1>1. IsWellFoundedOn(OpToRel(<, Nat), Nat)
  BY NatLessThanWellFounded
<1>2. PICK n \in Nat \ Good : \A m \in Nat \ Good : ~ (<<m, n>> \in OpToRel(<, Nat))
  BY <1>1, WFMin
<1>3. \A m \in Nat \ Good : ~(m < n)
  BY <1>2 DEF OpToRel
<1>4. n - 1 \in Nat
  OBVIOUS
<1>5. (n - 1) + 1 \in Good
  BY <1>3, <1>4
<1> QED
  BY <1>4, <1>5

--------------------------------------------------------------------------------
(***************************************************************************)
(* What is published once, and whole.  A bar that was taken from a         *)
(* response (Taken) and can still be in a response (Recent) is remembered: *)
(* later entries of the memory are not much older than earlier ones        *)
(* (Overlapping), so that those that push a recent one out would have to   *)
(* be more than fit between it and the present.                            *)
(***************************************************************************)

\* The bars that a poll may still return.
Recent(b) == b > Forming - PollLimit

\* The bars taken from a response so far.
Taken == sent \union {c.bar : c \in batch}

\* A memory of bars that closed before bar limit: no bar twice, and a later entry
\* at most PollLimit - 2 bars older than an earlier one.
Memory(s, limit) ==
    /\ s \in Seq(Nat)
    /\ \A j \in 1..Len(s) : s[j] < limit
    /\ \A j, k \in 1..Len(s) : j < k => s[j] # s[k] /\ s[j] + 2 <= s[k] + PollLimit

\* A response, and what is left of it, has one candle per bar.
OnePerBar(S) == \A c, d \in S : c.bar = d.bar => c = d

\* A response holds the values of the moment, and none is expected with a batch at hand.
AnswerInv ==
    /\ OnePerBar(answer)
    /\ \A c \in answer : c.whole = (Closes(c.bar) <= now) /\ (phase = "poll" => Recent(c.bar))
    /\ ~fetching => answer = {}
    /\ fetching => batch = {}

\* The history is the first batch.
BatchInv ==
    /\ OnePerBar(batch)
    /\ batch = {} => ~halfDone
    /\ phase = "history" /\ batch = {} => seen = <<>> /\ sent = {}

\* What was taken and may come again is remembered.
MemoryInv ==
    /\ Memory(seen, Forming)
    /\ \A b \in Taken : Recent(b) => b \in Range(seen)

\* The inductive invariant behind OnceAndWhole.
FeedInv == AnswerInv /\ BatchInv /\ MemoryInv /\ OnceAndWhole

--------------------------------------------------------------------------------
\* Bars can be put in order.
LEMMA OrderExists ==
    ASSUME NEW m \in Nat, NEW S \in SUBSET (0..m - 1)
    PROVE  \E n \in Nat : \E s \in [1..n -> S] :
               Range(s) = S /\ \A j, k \in 1..n : j < k => s[j] < s[k]
<1> DEFINE Ordered(T, n, s) == Range(s) = T /\ \A j, k \in 1..n : j < k => s[j] < s[k]
           Good == {p \in Nat : \A T \in SUBSET (0..p - 1) :
                                   \E n \in Nat : \E s \in [1..n -> T] : Ordered(T, n, s)}
<1>1. 0 \in Good
  <2>1. ASSUME NEW T \in SUBSET (0..0 - 1)
        PROVE  \E n \in Nat : \E s \in [1..n -> T] : Ordered(T, n, s)
    <3>1. T = {} /\ 1..0 = {}
      OBVIOUS
    <3> DEFINE e == [k \in 1..0 |-> 0]
    <3>2. e \in [1..0 -> T] /\ Range(e) = {}
      BY <3>1 DEF Range
    <3>3. Ordered(T, 0, e)
      BY <3>1, <3>2
    <3> QED BY <3>2, <3>3
  <2> QED BY <2>1
<1>2. ASSUME NEW p \in Good PROVE p + 1 \in Good
  <2>1. ASSUME NEW T \in SUBSET (0..(p + 1) - 1)
        PROVE  \E n \in Nat : \E s \in [1..n -> T] : Ordered(T, n, s)
    <3> DEFINE U == T \ {p}
    <3>1. p \in Nat /\ U \in SUBSET (0..p - 1) /\ \A b \in U : b < p /\ b \in Nat
      OBVIOUS
    <3>2. PICK n \in Nat : \E s \in [1..n -> U] : Ordered(U, n, s)
      BY <3>1
    <3>3. PICK s \in [1..n -> U] : Ordered(U, n, s)
      BY <3>2
    <3>4. CASE p \notin T
      <4>1. U = T
        BY <3>4
      <4> QED BY <3>3, <4>1
    <3>5. CASE p \in T
      <4> DEFINE t == [k \in 1..n + 1 |-> IF k = n + 1 THEN p ELSE s[k]]
      <4>1. \A k \in 1..n + 1 : k = n + 1 \/ k \in 1..n
        OBVIOUS
      <4>2. \A k \in 1..n : k \in 1..n + 1 /\ k # n + 1
        OBVIOUS
      <4>3. n + 1 \in 1..n + 1
        OBVIOUS
      <4>4. \A k \in 1..n : t[k] = s[k] /\ s[k] \in U
        BY <4>2
      <4>5. t[n + 1] = p
        BY <4>3
      <4>6. t \in [1..n + 1 -> T]
        BY <4>1, <3>5
      <4> HIDE DEF t
      <4>7. Range(t) = T
        <5>1. ASSUME NEW b \in T PROVE b \in Range(t)
          <6>1. CASE b = p
            BY <4>3, <4>5, <4>6, <6>1 DEF Range
          <6>2. CASE b # p
            <7>1. PICK k \in 1..n : s[k] = b
              BY <3>3, <6>2 DEF Range
            <7> QED BY <4>2, <4>4, <4>6, <7>1 DEF Range
          <6> QED BY <6>1, <6>2
        <5>2. ASSUME NEW b \in Range(t) PROVE b \in T
          BY <4>6 DEF Range
        <5> QED BY <5>1, <5>2
      <4>8. ASSUME NEW j \in 1..n + 1, NEW k \in 1..n + 1, j < k PROVE t[j] < t[k]
        <5>1. j \in 1..n
          BY <4>8
        <5>2. CASE k = n + 1
          BY <3>1, <4>4, <4>5, <5>1, <5>2
        <5>3. CASE k \in 1..n
          BY <3>3, <4>4, <4>8, <5>1, <5>3
        <5> QED BY <4>1, <5>2, <5>3
      <4>9. Ordered(T, n + 1, t)
        BY <4>7, <4>8
      <4>10. n + 1 \in Nat
        OBVIOUS
      <4> HIDE DEF Ordered
      <4> QED BY <4>6, <4>9, <4>10
    <3> QED BY <3>4, <3>5
  <2>2. p + 1 \in Nat
    OBVIOUS
  <2> HIDE DEF Ordered
  <2> QED BY <2>1, <2>2
<1>3. Good = Nat
  <2> HIDE DEF Ordered
  <2>1. Good \in SUBSET Nat
    OBVIOUS
  <2> HIDE DEF Good
  <2> QED BY <1>1, <1>2, <2>1, NatInductive
<1>4. \A T \in SUBSET (0..m - 1) : \E n \in Nat : \E s \in [1..n -> T] : Ordered(T, n, s)
  <2>1. m \in Good
    BY <1>3
  <2> HIDE DEF Ordered
  <2> QED BY <2>1
<1> QED BY <1>4

\* process_batch appends the bars of a response in order.
LEMMA InOrderIs ==
    ASSUME NEW S \in SUBSET Candles, NEW m \in Nat, \A c \in S : c.bar < m
    PROVE  LET s == InOrder(S)
           IN  /\ s \in Seq(Nat)
               /\ Range(s) = {c.bar : c \in S}
               /\ \A j, k \in 1..Len(s) : j < k => s[j] < s[k]
<1> DEFINE bars == {c.bar : c \in S}
           Is(s) == Range(s) = bars /\ \A j, k \in DOMAIN s : j < k => s[j] < s[k]
           n == Cardinality(bars)
<1>1. bars \in SUBSET (0..m - 1) /\ bars \in SUBSET Nat
  BY DEF Candles
<1>2. PICK p \in Nat : \E s \in [1..p -> bars] :
         Range(s) = bars /\ \A j, k \in 1..p : j < k => s[j] < s[k]
  <2> HIDE DEF bars
  <2> QED BY <1>1, OrderExists
<1>3. PICK s \in [1..p -> bars] : Range(s) = bars /\ \A j, k \in 1..p : j < k => s[j] < s[k]
  BY <1>2
<1> HIDE DEF bars
<1>4. p = n /\ n \in Nat
  <2>1. \A j, k \in 1..p : s[j] = s[k] => j = k
    <3>1. \A k \in 1..p : s[k] \in Nat
      BY <1>1, <1>3
    <3>2. \A j, k \in 1..p : j < k \/ k < j \/ j = k
      OBVIOUS
    <3> QED BY <1>3, <3>1, <3>2
  <2>2. s \in Bijection(1..p, bars)
    <3>1. \A b \in bars : \E k \in 1..p : s[k] = b
      BY <1>3 DEF Range
    <3> QED BY <1>3, <2>1, <3>1 DEF Bijection, Injection, Surjection, IsInjective
  <2>3. IsFiniteSet(1..p) /\ Cardinality(1..p) = p
    <3>1. 1 \in Int /\ p \in Int
      OBVIOUS
    <3>2. Cardinality(1..p) = (IF 1 > p THEN 0 ELSE p - 1 + 1) /\ IsFiniteSet(1..p)
      BY <3>1, FS_Interval
    <3> QED BY <3>2
  <2>4. ExistsBijection(1..p, bars)
    BY <2>2 DEF ExistsBijection
  <2> QED BY <2>3, <2>4, FS_Bijection
<1>5. s \in [1..n -> bars] /\ Is(s)
  BY <1>3, <1>4
<1>6. InOrder(S) = CHOOSE t \in [1..n -> bars] : Is(t)
  BY DEF InOrder, bars
<1> DEFINE r == InOrder(S)
<1>7. r \in [1..n -> bars] /\ Is(r)
  <2> HIDE DEF Is
  <2> QED BY <1>5, <1>6
<1> HIDE DEF r
<1>8. r \in [1..n -> Nat]
  BY <1>1, <1>7
<1>9. r \in Seq(Nat) /\ Len(r) = n /\ DOMAIN r = 1..n
  BY <1>4, <1>8
<1> QED BY <1>7, <1>9 DEF r, bars

\* Bars appended in order are remembered like those before, if they are new, closed and
\* either the first ones or Recent.
LEMMA MemoryGrows ==
    ASSUME NEW s \in Seq(Nat), NEW t \in Seq(Nat), NEW F \in Nat, PollLimit \in Nat,
           PollLimit > 0,
           Memory(s, F),
           \A j, k \in 1..Len(t) : j < k => t[j] < t[k],
           \A k \in 1..Len(t) : t[k] < F /\ t[k] \notin Range(s),
           s = <<>> \/ \A k \in 1..Len(t) : t[k] > F - PollLimit
    PROVE  Memory(s \o t, F)
<1> DEFINE a == s \o t
           n == Len(s)
<1>1. /\ a \in Seq(Nat) /\ Len(a) = n + Len(t) /\ n \in Nat /\ Len(t) \in Nat
      /\ \A j \in 1..n : a[j] = s[j] /\ s[j] \in Nat /\ s[j] \in Range(s)
      /\ \A j \in 1..Len(a) : j \in 1..n \/ (j - n \in 1..Len(t) /\ a[j] = t[j - n] /\ ~(j \in 1..n))
      /\ \A j \in 1..Len(t) : t[j] \in Nat
  BY DEF Range
<1> HIDE DEF a
<1>2. ASSUME NEW j \in 1..Len(a) PROVE a[j] < F
  BY <1>1 DEF Memory
<1>3. ASSUME NEW j \in 1..Len(a), NEW k \in 1..Len(a), j < k
      PROVE  a[j] # a[k] /\ a[j] + 2 <= a[k] + PollLimit
  <2>1. CASE k \in 1..n
    <3>1. j \in 1..n
      BY <1>1, <1>3, <2>1
    <3>2. s[j] # s[k] /\ s[j] + 2 <= s[k] + PollLimit
      BY <1>3, <2>1, <3>1 DEF Memory
    <3> QED BY <1>1, <2>1, <3>1, <3>2
  <2>2. CASE k - n \in 1..Len(t) /\ a[k] = t[k - n] /\ j \in 1..n
    <3>1. a[j] < F /\ a[j] = s[j] /\ a[j] \in Nat /\ a[j] \in Range(s)
      BY <1>1, <1>2, <2>2
    <3>2. s # <<>>
      BY <2>2
    <3>3. t[k - n] > F - PollLimit /\ t[k - n] \in Nat /\ t[k - n] \notin Range(s)
      BY <1>1, <2>2, <3>2
    <3>4. a[k] > F - PollLimit /\ a[k] \in Nat /\ a[k] \notin Range(s)
      BY <2>2, <3>3
    <3> HIDE DEF n
    <3> QED BY <3>1, <3>4
  <2>3. CASE k - n \in 1..Len(t) /\ a[k] = t[k - n] /\ ~(j \in 1..n)
    <3>1. j - n \in 1..Len(t) /\ a[j] = t[j - n] /\ j - n < k - n
      BY <1>1, <1>3, <2>3
    <3>2. t[j - n] < t[k - n] /\ t[j - n] \in Nat /\ t[k - n] \in Nat
      BY <1>1, <2>3, <3>1
    <3>3. a[j] < a[k] /\ a[j] \in Nat /\ a[k] \in Nat
      BY <2>3, <3>1, <3>2
    <3> QED BY <3>3
  <2> QED BY <1>1, <2>1, <2>2, <2>3
<1> QED BY <1>1, <1>2, <1>3 DEF Memory, a

\* A bar that is pushed out of the memory is not Recent: between it and the present
\* there is no room for as many bars as were appended after it.
LEMMA PushedOut ==
    ASSUME NEW a, NEW F \in Nat, Memory(a, F), PollLimit \in Nat, DedupSize \in Nat,
           DedupSize + 4 > 2 * PollLimit,
           NEW j \in 1..Len(a), j + DedupSize <= Len(a),
           a[j] > F - PollLimit
    PROVE  FALSE
<1> DEFINE x == a[j]
           n == Len(a)
           room == x + 2 - PollLimit..F - 1
           after == [k \in j + 1..n |-> a[k]]
<1>1. a \in Seq(Nat) /\ n \in Nat /\ j \in Nat /\ j >= 1 /\ x \in Nat /\ x < F
  BY DEF Memory
<1>2. ASSUME NEW k \in j + 1..n
      PROVE  k \in 1..n /\ a[k] \in room /\ a[k] # x
  <2>1. k \in 1..n /\ j \in 1..n /\ j < k
    BY <1>1
  <2>2. /\ \A i \in 1..n : a[i] < F
        /\ \A i, m \in 1..n : i < m => a[i] # a[m] /\ a[i] + 2 <= a[m] + PollLimit
    BY DEF Memory
  <2>3. a[k] \in Nat
    BY <1>1, <2>1
  <2> HIDE DEF n
  <2>4. a[j] # a[k] /\ a[j] + 2 <= a[k] + PollLimit /\ a[k] < F
    BY <2>1, <2>2
  <2>5. x # a[k] /\ x + 2 <= a[k] + PollLimit
    BY <2>4
  <2> HIDE DEF x
  <2>6. a[k] \in x + 2 - PollLimit..F - 1
    <3>1. \A y, z \in Nat : z + 2 <= y + PollLimit /\ y < F => y \in z + 2 - PollLimit..F - 1
      OBVIOUS
    <3>2. x \in Nat /\ a[k] \in Nat /\ x + 2 <= a[k] + PollLimit /\ a[k] < F
      BY <1>1, <2>3, <2>4, <2>5
    <3> QED BY <3>1, <3>2
  <2> QED BY <2>1, <2>5, <2>6
<1>3. after \in Injection(j + 1..n, room \ {x})
  <2>1. ASSUME NEW k \in j + 1..n, NEW m \in j + 1..n, a[k] = a[m] PROVE k = m
    <3>1. k \in 1..n /\ m \in 1..n
      BY <1>2
    <3>2. k < m \/ m < k \/ k = m
      BY <1>1
    <3> QED BY <2>1, <3>1, <3>2 DEF Memory
  <2>2. after \in [j + 1..n -> room \ {x}]
    <3> HIDE DEF room, x, n
    <3> QED BY <1>2
  <2> HIDE DEF room, x, n
  <2> QED BY <2>1, <2>2 DEF Injection, IsInjective
<1>4. PollLimit >= 2
  BY <1>1
<1>5. IsFiniteSet(room) /\ Cardinality(room) = F - x + PollLimit - 2
  <2>1. x + 2 - PollLimit \in Int /\ F - 1 \in Int /\ ~(x + 2 - PollLimit > F - 1)
    BY <1>1, <1>4
  <2>2. Cardinality(room) = (F - 1) - (x + 2 - PollLimit) + 1 /\ IsFiniteSet(room)
    <3> DEFINE lo == x + 2 - PollLimit hi == F - 1
    <3>1. lo \in Int /\ hi \in Int /\ ~(lo > hi)
      BY <2>1
    <3> HIDE DEF lo, hi
    <3>2. IsFiniteSet(lo..hi) /\ Cardinality(lo..hi) = hi - lo + 1
      BY <3>1, FS_Interval
    <3> QED BY <3>2 DEF lo, hi
  <2> HIDE DEF room, x
  <2>3. PollLimit \in Int
    OBVIOUS
  <2> QED BY <1>1, <2>2, <2>3
<1>6. x \in room
  BY <1>1, <1>4
<1>7. IsFiniteSet(room \ {x}) /\ Cardinality(room \ {x}) = F - x + PollLimit - 3
  <2> HIDE DEF room, x
  <2>1. IsFiniteSet(room \ {x}) /\ Cardinality(room \ {x}) = Cardinality(room) - 1
    BY <1>5, <1>6, FS_RemoveElement
  <2> QED BY <1>1, <1>5, <2>1
<1>8. IsFiniteSet(j + 1..n) /\ Cardinality(j + 1..n) = IF j + 1 > n THEN 0 ELSE n - j
  <2> DEFINE lo == j + 1
  <2>1. lo \in Int /\ n \in Int
    BY <1>1
  <2> HIDE DEF lo, n
  <2>2. IsFiniteSet(lo..n) /\ Cardinality(lo..n) = IF lo > n THEN 0 ELSE n - lo + 1
    BY <2>1, FS_Interval
  <2>3. n - (j + 1) + 1 = n - j
    BY <1>1, <2>1
  <2> QED BY <2>2, <2>3 DEF lo
<1>9. Cardinality(j + 1..n) <= Cardinality(room \ {x})
  <2> HIDE DEF after, room, x, n
  <2> QED BY <1>3, <1>7, FS_Injection
<1> HIDE DEF room, x, n
<1>10. j + DedupSize <= n /\ x > F - PollLimit
  BY DEF x, n
<1> QED BY <1>1, <1>4, <1>7, <1>8, <1>9, <1>10

\* A memory of which the oldest entries are dropped.
LEMMA MemoryShrinks ==
    ASSUME NEW a, NEW F \in Nat, Memory(a, F), NEW d \in Nat, d <= Len(a)
    PROVE  /\ Memory(SubSeq(a, d + 1, Len(a)), F)
           /\ \A j \in d + 1..Len(a) : a[j] \in Range(SubSeq(a, d + 1, Len(a)))
<1> DEFINE n == Len(a)
           s == SubSeq(a, d + 1, n)
<1>1. a \in Seq(Nat) /\ n \in Nat /\ \A j \in 1..n : a[j] \in Nat
  BY DEF Memory
<1>2. s \in Seq(Nat) /\ Len(s) = n - d /\ \A k \in 1..n - d : s[k] = a[d + k]
  <2>1. d + 1 \in 1..n + 1 /\ n \in 0..n
    BY <1>1
  <2> QED BY <1>1, <2>1
<1> HIDE DEF s
<1>3. \A k \in 1..n - d : d + k \in 1..n
  BY <1>1
<1>4. \A j, k \in 1..n - d : j < k => d + j < d + k
  BY <1>1
<1>5. Memory(s, F)
  <2> HIDE DEF n
  <2>1. \A k \in 1..n - d : s[k] < F
    BY <1>2, <1>3 DEF Memory, n
  <2>2. \A j, k \in 1..n - d : j < k => s[j] # s[k] /\ s[j] + 2 <= s[k] + PollLimit
    <3>1. ASSUME NEW j \in 1..n - d, NEW k \in 1..n - d, j < k
          PROVE  a[d + j] # a[d + k] /\ a[d + j] + 2 <= a[d + k] + PollLimit
      <4>1. d + j \in 1..n /\ d + k \in 1..n /\ d + j < d + k
        BY <1>3, <1>4, <3>1
      <4> QED BY <4>1 DEF Memory, n
    <3> QED BY <1>2, <3>1
  <2> QED BY <1>2, <2>1, <2>2 DEF Memory
<1>6. ASSUME NEW j \in d + 1..n PROVE a[j] \in Range(s)
  <2>1. j - d \in 1..n - d /\ d + (j - d) = j /\ DOMAIN s = 1..n - d
    BY <1>1, <1>2
  <2>2. s[j - d] = a[j]
    BY <1>2, <2>1
  <2> QED BY <2>1, <2>2 DEF Range
<1> QED BY <1>5, <1>6 DEF s

\* What is Recent is not forgotten by process_batch.
LEMMA Remembered ==
    ASSUME NEW s, NEW t \in Seq(Nat), NEW F \in Nat, PollLimit \in Nat, PollLimit > 0,
           DedupSize \in Nat \ {0}, DedupSize + 4 > 2 * PollLimit,
           Memory(s, F),
           \A j, k \in 1..Len(t) : j < k => t[j] < t[k],
           \A k \in 1..Len(t) : t[k] < F /\ t[k] \notin Range(s),
           s = <<>> \/ \A k \in 1..Len(t) : t[k] > F - PollLimit
    PROVE  LET all == s \o t
               kept == IF Len(all) > DedupSize
                       THEN SubSeq(all, Len(all) - DedupSize + 1, Len(all)) ELSE all
           IN  /\ Memory(kept, F)
               /\ \A b \in Range(s) \union Range(t) : b > F - PollLimit => b \in Range(kept)
<1> DEFINE all == s \o t
           n == Len(all)
           kept == IF n > DedupSize THEN SubSeq(all, n - DedupSize + 1, n) ELSE all
<1>1. s \in Seq(Nat)
  BY DEF Memory
<1>2. Memory(all, F)
  BY <1>1, MemoryGrows
<1>3. all \in Seq(Nat) /\ n \in Nat /\ DOMAIN all = 1..n
  BY <1>1
<1>4. Range(s) \union Range(t) \subseteq Range(all)
  <2>1. Len(s) \in Nat /\ Len(t) \in Nat /\ n = Len(s) + Len(t)
    BY <1>1
  <2>2. ASSUME NEW b \in Range(s) PROVE b \in Range(all)
    <3>1. PICK j \in 1..Len(s) : s[j] = b
      BY <1>1 DEF Range
    <3>2. j \in 1..n /\ all[j] = b
      BY <1>1, <2>1, <3>1
    <3> HIDE DEF all
    <3> QED BY <1>3, <3>2 DEF Range
  <2>3. ASSUME NEW b \in Range(t) PROVE b \in Range(all)
    <3>1. PICK j \in 1..Len(t) : t[j] = b
      BY DEF Range
    <3>2. Len(s) + j \in 1..n /\ all[Len(s) + j] = b
      BY <1>1, <2>1, <3>1
    <3> HIDE DEF all
    <3> QED BY <1>3, <3>2 DEF Range
  <2> QED BY <2>2, <2>3
<1> HIDE DEF all
<1>5. CASE n > DedupSize
  <2> DEFINE d == n - DedupSize
  <2>1. d \in Nat /\ d <= n /\ kept = SubSeq(all, d + 1, n)
    BY <1>3, <1>5
  <2>2. Memory(kept, F) /\ \A j \in d + 1..n : all[j] \in Range(kept)
    <3> HIDE DEF d, kept
    <3> QED BY <1>2, <2>1, MemoryShrinks
  <2>3. ASSUME NEW b \in Range(all), b > F - PollLimit PROVE b \in Range(kept)
    <3>1. PICK j \in 1..n : all[j] = b
      BY <1>3 DEF Range
    <3>2. ~(j + DedupSize <= n)
      BY <1>2, <2>3, <3>1, PushedOut
    <3>3. j \in d + 1..n
      BY <1>3, <3>1, <3>2
    <3> HIDE DEF d, kept
    <3> QED BY <2>2, <3>1, <3>3
  <2> HIDE DEF kept
  <2> QED BY <1>4, <2>2, <2>3 DEF kept, all
<1>6. CASE ~(n > DedupSize)
  BY <1>2, <1>4, <1>6 DEF all
<1> QED BY <1>5, <1>6

\* Time makes fewer bars Recent, and more of them closed.
LEMMA LaterForming ==
    ASSUME BusAssumption, now \in Nat, now' = now + 1
    PROVE  Forming \in Nat /\ Forming' \in Nat /\ Forming <= Forming'
<1>1. \A x \in Nat, B \in Nat \ {0} : x \div B \in Nat /\ x \div B <= (x + 1) \div B
  OBVIOUS
<1> QED BY <1>1 DEF BusAssumption, Forming

\* A bar is closed if it lies before the forming one.
LEMMA ClosedIsPast ==
    ASSUME BusAssumption, now \in Nat, NEW b \in Nat
    PROVE  Closes(b) <= now => b < Forming
<1>1. \A x, y \in Nat, B \in Nat \ {0} : (y + 1) * B <= x => y < x \div B
  <2>1. ASSUME NEW x \in Nat, NEW y \in Nat, NEW B \in Nat \ {0}, (y + 1) * B <= x
        PROVE  y < x \div B
    <3>1. x \div B \in Nat /\ x < (x \div B + 1) * B
      OBVIOUS
    <3>2. ~(x \div B + 1 <= y + 1)
      <4>1. x \div B + 1 <= y + 1 => (x \div B + 1) * B <= (y + 1) * B
        BY <3>1, TimesMonotone
      <4>2. (y + 1) * B \in Nat /\ (x \div B + 1) * B \in Nat
        BY <3>1
      <4> QED BY <2>1, <3>1, <4>1, <4>2
    <3> QED BY <3>1, <3>2
  <2> QED BY <2>1
<1> QED BY <1>1 DEF BusAssumption, Forming, Closes

\* The settings under which that is so.
FeedSettings ==
    /\ BusAssumption /\ FeedAssumption
    /\ "straddle" \notin Faults
    /\ 2 * PollLimit < DedupSize + 4

\* Nothing else touches what the feed remembers.
LEMMA FeedAlone ==
    ASSUME FeedInv, UNCHANGED <<now, phase, fetching, answer, seen, batch, halfDone, sent>>
    PROVE  FeedInv'
BY DEF FeedInv, AnswerInv, BatchInv, MemoryInv, OnceAndWhole, OnePerBar, Recent, Forming, Taken,
       Oldest, Memory, Closes

\* A request and its response, or its failure.
LEMMA FetchKeeps ==
    ASSUME FeedSettings, TypeOK, FeedInv, Fetch \/ FetchFails \/ RestartFeed
    PROVE  FeedInv'
<1> USE DEF FeedInv
<1>0. now \in Nat /\ now' = now
  BY DEF TypeOK, Fetch, FetchFails, RestartFeed
<1>1. CASE Fetch
  <2>1. PICK late \in SUBSET Rows :
           answer' = {[bar |-> b, whole |-> Closes(b) <= now, polled |-> phase = "poll"] :
                         b \in Rows \ late}
    BY <1>1 DEF Fetch
  <2>2. fetching' = TRUE /\ UNCHANGED <<phase, seen, batch, halfDone, sent>> /\ batch = {}
    BY <1>1 DEF Fetch
  <2>3. OnePerBar(answer)'
    BY <2>1 DEF OnePerBar
  <2>4. ASSUME NEW c \in answer'
        PROVE  c.whole = (Closes(c.bar) <= now) /\ (phase = "poll" => c.bar > Forming - PollLimit)
    <3>1. PICK b \in Rows : c.bar = b /\ c.whole = (Closes(b) <= now)
      BY <2>1
    <3> QED BY <3>1 DEF Rows, Limit
  <2>5. AnswerInv'
    BY <1>0, <2>2, <2>3, <2>4 DEF AnswerInv, Recent, Closes, Forming
  <2>6. BatchInv'
    BY <2>2 DEF BatchInv, OnePerBar
  <2>7. MemoryInv'
    BY <1>0, <2>2 DEF MemoryInv, Memory, Recent, Taken, Forming
  <2> QED BY <2>2, <2>5, <2>6, <2>7 DEF OnceAndWhole
<1>2. CASE FetchFails
  <2>1. /\ fetching /\ fetching' = FALSE /\ answer' = {} /\ phase' = "poll"
        /\ UNCHANGED <<seen, batch, halfDone, sent>>
    BY <1>2 DEF FetchFails
  <2>2. batch = {}
    BY <2>1 DEF AnswerInv
  <2>3. AnswerInv'
    BY <2>1 DEF AnswerInv, OnePerBar
  <2>4. BatchInv'
    BY <2>1, <2>2 DEF BatchInv, OnePerBar
  <2>5. MemoryInv'
    BY <1>0, <2>1 DEF MemoryInv, Memory, Recent, Taken, Forming
  <2> QED BY <2>1, <2>2, <2>3, <2>4, <2>5 DEF OnceAndWhole
<1>3. CASE RestartFeed
  <2>1. /\ fetching' = FALSE /\ answer' = {} /\ phase' = "history" /\ seen' = <<>>
        /\ batch' = {} /\ halfDone' = FALSE /\ sent' = {}
    BY <1>3 DEF RestartFeed
  <2>2. AnswerInv' /\ BatchInv' /\ OnceAndWhole'
    BY <2>1 DEF AnswerInv, BatchInv, OnePerBar, OnceAndWhole
  <2>3. MemoryInv'
    <3>1. Memory(<<>>, Forming)'
      BY DEF Memory
    <3> QED BY <2>1, <3>1 DEF MemoryInv, Taken
  <2> QED BY <2>2, <2>3
<1> QED BY <1>1, <1>2, <1>3

\* process_batch takes what is closed and not remembered: what it takes was not
\* published before.
LEMMA ProcessKeeps ==
    ASSUME FeedSettings, TypeOK, FeedInv, Process
    PROVE  FeedInv'
<1> USE DEF FeedInv
<1> DEFINE unseen == {c \in answer : Closed(c) /\ ~IsDuplicate(c)}
           t == InOrder(unseen)
<1>0. now \in Nat /\ UNCHANGED <<now, sent, halfDone>> /\ fetching' = FALSE /\ answer' = {} /\ fetching
      /\ BusAssumption /\ FeedAssumption /\ answer \subseteq Candles
  BY DEF Process, TypeOK, busVars, FeedSettings
<1>1. batch = {} /\ ~halfDone
  BY <1>0 DEF AnswerInv, BatchInv
<1>2. /\ batch' = unseen
      /\ seen' = IF Len(seen \o t) > DedupSize
                 THEN SubSeq(seen \o t, Len(seen \o t) - DedupSize + 1, Len(seen \o t))
                 ELSE seen \o t
  BY DEF Process
<1>3. phase' = phase \/ (unseen = {} /\ phase' = "poll")
  BY <1>2 DEF Process, Rest
<1>4. Forming \in Nat
  BY <1>0, FormingNow
<1>5. unseen \in SUBSET Candles /\ \A c \in unseen : c.bar < Forming
  <2>1. \A c \in unseen : c.bar \in Nat /\ Closes(c.bar) <= now
    BY <1>0 DEF Closed, Candles
  <2> QED BY <1>0, <2>1, ClosedIsPast
<1>6. /\ t \in Seq(Nat) /\ Range(t) = {c.bar : c \in unseen}
      /\ \A j, k \in 1..Len(t) : j < k => t[j] < t[k]
  <2> HIDE DEF unseen
  <2> QED BY <1>4, <1>5, InOrderIs
<1>7. \A k \in 1..Len(t) : \E c \in unseen : t[k] = c.bar
  <2> HIDE DEF unseen, t
  <2>1. \A k \in 1..Len(t) : t[k] \in Range(t)
    BY <1>6 DEF Range
  <2> QED BY <1>6, <2>1
<1>8. \A k \in 1..Len(t) : t[k] < Forming /\ t[k] \notin Range(seen)
  <2>1. \A c \in unseen : c.bar < Forming /\ c.bar \notin Range(seen)
    BY <1>5 DEF IsDuplicate
  <2> HIDE DEF unseen, t
  <2> QED BY <1>7, <2>1
<1>9. seen = <<>> \/ \A k \in 1..Len(t) : t[k] > Forming - PollLimit
  <2>1. CASE phase = "history"
    BY <1>1, <2>1 DEF BatchInv
  <2>2. CASE phase = "poll"
    <3>1. \A c \in unseen : c.bar > Forming - PollLimit
      BY <2>2 DEF AnswerInv, Recent
    <3> HIDE DEF unseen, t
    <3> QED BY <1>7, <3>1
  <2> QED BY <2>1, <2>2 DEF TypeOK
<1>10. /\ Memory(seen', Forming)
       /\ \A b \in Range(seen) \union Range(t) : b > Forming - PollLimit => b \in Range(seen')
  <2>1. /\ PollLimit \in Nat /\ PollLimit > 0 /\ DedupSize \in Nat \ {0}
        /\ DedupSize + 4 > 2 * PollLimit /\ Memory(seen, Forming)
    BY DEF FeedSettings, FeedAssumption, MemoryInv
  <2> HIDE DEF t
  <2> QED BY <1>2, <1>4, <1>6, <1>8, <1>9, <2>1, Remembered
<1>11. MemoryInv'
  <2>1. ASSUME NEW b \in Taken', b > Forming - PollLimit PROVE b \in Range(seen')
    <3>1. b \in sent \/ b \in Range(t)
      BY <1>0, <1>2, <1>6, <2>1 DEF Taken
    <3>2. b \in sent => b \in Range(seen)
      BY <2>1 DEF MemoryInv, Taken, Recent
    <3> QED BY <1>10, <2>1, <3>1, <3>2
  <2> QED BY <1>0, <1>10, <2>1 DEF MemoryInv, Memory, Recent, Forming
<1>12. AnswerInv'
  BY <1>0 DEF AnswerInv, OnePerBar
<1>13. OnePerBar(batch)'
  BY <1>2 DEF AnswerInv, OnePerBar
<1>14. BatchInv'
  <2>1. phase' = "history" => phase = "history" /\ sent = {} /\ seen = <<>>
    BY <1>1, <1>3 DEF BatchInv
  <2>2. batch' = {} => phase' = "poll"
    BY <1>2 DEF Process, Rest
  <2> QED BY <1>0, <1>1, <1>13, <2>2 DEF BatchInv
<1>15. ASSUME NEW c \in batch' PROVE c.whole /\ c.bar \notin sent
  <2>1. c \in answer /\ Closed(c) /\ ~IsDuplicate(c)
    BY <1>2, <1>15
  <2>2. c.whole
    BY <2>1 DEF AnswerInv, Closed
  <2>3. CASE phase = "history"
    BY <1>1, <2>2, <2>3 DEF BatchInv
  <2>4. CASE phase = "poll"
    BY <2>1, <2>2, <2>4 DEF AnswerInv, MemoryInv, Taken, IsDuplicate
  <2> QED BY <2>3, <2>4 DEF TypeOK
<1>16. OnceAndWhole'
  BY <1>0, <1>15 DEF OnceAndWhole
<1> QED BY <1>11, <1>12, <1>14, <1>16

\* One of the two awaits for the oldest candle ends.
LEMMA AdvanceKeeps ==
    ASSUME TypeOK, FeedInv, NEW c \in batch, PublishCandle(c) \/ PersistCandle(c)
    PROVE  FeedInv'
<1> USE DEF FeedInv
<1>1. /\ Oldest(c) /\ UNCHANGED <<now, fetching, answer, seen>>
      /\ halfDone' = ~halfDone
      /\ batch' = IF halfDone THEN batch \ {c} ELSE batch
      /\ phase' = phase \/ (batch' = {} /\ phase' = "poll")
      /\ batch' = {} => phase' = "poll"
      /\ phase \in {"history", "poll"} /\ halfDone \in BOOLEAN
  BY DEF PublishCandle, PersistCandle, Advance, Rest, TypeOK
<1>2. \/ (halfDone <=> phase = "history") /\ sent' = sent \union {c.bar}
      \/ (halfDone <=> phase = "poll") /\ sent' = sent
  BY DEF PublishCandle, PersistCandle
<1>3. Taken' \subseteq Taken
  BY <1>1, <1>2 DEF Taken
<1>4. MemoryInv'
  BY <1>1, <1>3 DEF MemoryInv, Memory, Recent, Forming
<1>5. ~fetching /\ answer = {}
  BY DEF AnswerInv
<1>6. AnswerInv'
  BY <1>1, <1>5 DEF AnswerInv, OnePerBar
<1>7. BatchInv'
  BY <1>1 DEF BatchInv, OnePerBar
<1>8. OnceAndWhole'
  <2> SUFFICES ASSUME NEW d \in batch'
               PROVE  d.whole /\ (d.bar \in sent' => halfDone' /\ phase' = "poll" /\ Oldest(d)')
    BY DEF OnceAndWhole
  <2>1. d \in batch /\ d.whole
    BY <1>1 DEF OnceAndWhole
  <2>2. d.bar \in sent => halfDone /\ phase = "poll" /\ Oldest(d)
    BY <2>1 DEF OnceAndWhole
  <2>3. d.bar = c.bar => d = c
    BY <2>1 DEF BatchInv, OnePerBar
  <2>4. halfDone => d # c
    BY <1>1
  <2>5. d.bar \in sent => FALSE
    <3>1. SUFFICES ASSUME d.bar \in sent, halfDone, phase = "poll", Oldest(d) PROVE FALSE
      BY <2>2
    <3>2. d.bar \in Nat /\ c.bar \in Nat
      BY <2>1 DEF TypeOK, Candles
    <3>3. d.bar = c.bar
      BY <1>1, <2>1, <3>1, <3>2 DEF Oldest
    <3> QED BY <2>3, <2>4, <3>1, <3>3
  <2>6. d.bar \in sent' => ~halfDone /\ phase = "poll" /\ d = c
    BY <1>1, <1>2, <2>3, <2>4, <2>5
  <2>7. ~halfDone => batch' = batch /\ phase' = phase
    BY <1>1
  <2> QED BY <1>1, <2>1, <2>6, <2>7 DEF Oldest
<1> QED BY <1>4, <1>6, <1>7, <1>8

\* No bar is published twice in a lifetime of the market data agent and none before its
\* values are final (process_batch and the loops of agents/market_data), for any limits
\* with a memory (DEDUP_BUFFER_SIZE) of twice the poll's limit, less three: the code has
\* 200 for polls of 3.  Without the fault "straddle": a candle that closes while its
\* response is on the way counts as closed with the values of the request.
THEOREM PublishedOnceAndWhole ==
    ASSUME "straddle" \notin Faults, 2 * PollLimit < DedupSize + 4
    PROVE  Spec => []OnceAndWhole
<1> USE BusAssumption, FeedAssumption, TechnicalAssumption, DecisionAssumption
<1>0. FeedSettings
  BY DEF FeedSettings
<1>1. Init => FeedInv
  <2> SUFFICES ASSUME Init PROVE FeedInv
    OBVIOUS
  <2>1. AnswerInv /\ BatchInv /\ OnceAndWhole
    BY DEF Init, FeedInit, AnswerInv, BatchInv, OnePerBar, OnceAndWhole
  <2>2. MemoryInv
    <3>1. Memory(<<>>, Forming)
      BY DEF Memory
    <3> QED BY <3>1 DEF Init, FeedInit, MemoryInv, Taken
  <2> QED BY <2>1, <2>2 DEF FeedInv
<1>2. TypeOK /\ FeedInv /\ [Next]_vars => FeedInv'
  <2> SUFFICES ASSUME TypeOK, FeedInv, [Next]_vars PROVE FeedInv'
    OBVIOUS
  <2>1. CASE FeedStep
    BY <1>0, <2>1, FetchKeeps, ProcessKeeps, AdvanceKeeps DEF FeedStep
  <2>2. CASE TechnicalStep
    BY <2>2, FeedAlone DEF TechnicalStep, WarmUp, Subscribe, ProcessCandle, PublishSignal,
                           RestartTechnical, feedVars
  <2>3. CASE DecisionStep
    BY <2>3, FeedAlone DEF DecisionStep, Halt, OnTechnicalSignal, OnSentimentSignal, Aggregate,
                           busVars, feedVars
  <2>4. CASE CheckStaleness
    BY <2>4, FeedAlone DEF CheckStaleness, feedVars
  <2>5. CASE Tick
    <3>1. ~fetching /\ batch = {} /\ now' = now + 1 /\ now \in Nat
      BY <1>0, <2>5 DEF Tick, Quiet, FeedSettings, TypeOK
    <3>2. UNCHANGED <<phase, fetching, answer, seen, batch, halfDone, sent>>
      BY <2>5 DEF Tick
    <3>3. Forming \in Nat /\ Forming' \in Nat /\ Forming <= Forming'
      BY <3>1, LaterForming
    <3>4. answer = {}
      BY <3>1 DEF FeedInv, AnswerInv
    <3>5. AnswerInv' /\ BatchInv' /\ OnceAndWhole'
      BY <3>1, <3>2, <3>4 DEF FeedInv, AnswerInv, BatchInv, OnePerBar, OnceAndWhole
    <3>6. MemoryInv'
      <4>1. seen' = seen /\ seen \in Seq(Nat)
        BY <3>2 DEF FeedInv, MemoryInv, Memory
      <4>2. \A j \in 1..Len(seen) : seen[j] < Forming'
        BY <3>3, <4>1 DEF FeedInv, MemoryInv, Memory
      <4>3. \A b \in Taken : b \in Nat
        BY DEF Taken, TypeOK, Candles
      <4>4. ASSUME NEW b \in Taken, b > Forming' - PollLimit PROVE b \in Range(seen)
        <5>1. b > Forming - PollLimit
          BY <3>3, <4>3, <4>4 DEF FeedAssumption
        <5> QED BY <5>1 DEF FeedInv, MemoryInv, Recent
      <4> QED BY <3>2, <4>1, <4>2, <4>4 DEF FeedInv, MemoryInv, Memory, Recent, Taken
    <3> QED BY <3>5, <3>6 DEF FeedInv
  <2>6. CASE UNCHANGED vars
    BY <2>6, FeedAlone DEF vars, busVars, feedVars
  <2> QED BY <2>1, <2>2, <2>3, <2>4, <2>5, <2>6 DEF Next
<1>3. FeedInv => OnceAndWhole
  BY DEF FeedInv
<1> QED BY <1>1, <1>2, <1>3, SignalTypeCorrect, PTL DEF Spec
================================================================================
