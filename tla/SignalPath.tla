--------------------------------- MODULE SignalPath ---------------------------------
(***************************************************************************)
(* From the exchange to the Risk agent: market data, technical analysis,   *)
(* Decision and Risk's check for stale data (agents/risk/agent.py), in     *)
(* discrete time.  Whatever is ready is done before time goes on, so no    *)
(* age that is found here is due to a slow agent.                          *)
(***************************************************************************)
EXTENDS DecisionAgent

CONSTANTS MaxStaleness  \* max_data_staleness_seconds

ASSUME StalenessAssumption == MaxStaleness \in Nat

VARIABLES accepted  \* the proposal that passed the check at this moment

vars == <<busVars, feedVars, technicalVars, decisionVars, accepted>>

Init ==
    /\ now = Start
    /\ listening = FALSE
    /\ candles = <<>> /\ signals = <<>> /\ proposals = <<>> /\ faults = 0
    /\ FeedInit /\ TechnicalInit /\ DecisionInit
    /\ accepted = None

\* Wrong: without the age of the signal.
SignalAgeUnknown(p) == 0

\* _signal_age_seconds.
SignalAge(p) == IF p.technical = None THEN 0 ELSE now - p.technical.born

\* The staleness check of _evaluate.
CheckStaleness ==
    /\ proposals # <<>>
    /\ proposals' = Tail(proposals)
    /\ accepted' = IF SignalAge(Head(proposals)) > MaxStaleness THEN None ELSE Head(proposals)
    /\ UNCHANGED <<now, listening, candles, signals, faults, feedVars, technicalVars, decisionVars>>

\* Everything that can be done has been done.
Quiet ==
    /\ candles = <<>> /\ (signals = <<>> \/ halted) /\ proposals = <<>>
    /\ outgoing = None
    /\ \A t \in Tasks : ~storing[t]
    /\ batch = {}

\* Time passes while the feed sleeps; with the fault "straddle" during a request as well.
Tick ==
    /\ now < MaxTime
    /\ Quiet
    /\ IF fetching THEN "straddle" \in Faults ELSE sleep > 0
    /\ now' = now + 1
    /\ sleep' = IF fetching THEN sleep ELSE sleep - 1
    /\ accepted' = None
    /\ UNCHANGED <<listening, channelVars, faults, phase, fetching, answer, seen, batch,
                   halfDone, sent, db, technicalVars, decisionVars>>

Next ==
    \/ (FeedStep /\ UNCHANGED <<technicalVars, decisionVars, accepted>>)
    \/ (TechnicalStep /\ UNCHANGED <<decisionVars, accepted>>)
    \/ (DecisionStep /\ UNCHANGED accepted)
    \/ CheckStaleness
    \/ Tick

Spec == Init /\ [][Next]_vars

--------------------------------------------------------------------------------
TypeOK ==
    /\ now \in Nat
    /\ listening \in BOOLEAN
    /\ candles \in Seq(Candles)
    /\ signals \in Seq(Signals)
    /\ proposals \in Seq(Proposals)
    /\ faults \in 0..MaxFaults
    /\ phase \in {"history", "poll"}
    /\ fetching \in BOOLEAN
    /\ answer \subseteq Candles
    /\ batch \subseteq Candles
    /\ halfDone \in BOOLEAN
    /\ sleep \in Nat
    /\ sent \subseteq Nat
    /\ db \subseteq Nat
    /\ warmedUp \in BOOLEAN
    /\ buffer \subseteq Nat
    /\ lastSignal \in Nat \union {None}
    /\ outgoing \in Signals \union {None}
    /\ technical \in Signals \union {None}
    /\ sentiment \in News \union {None}
    /\ storing \in [Tasks -> BOOLEAN]
    /\ news \in Nat
    /\ halted \in BOOLEAN
    /\ accepted \in Proposals \union {None}

\* Whatever is still to be published is final and new: no candle is published twice in
\* a lifetime of the agent, in whatever order rows come and however many the memory of
\* process_batch has dropped, and none before it has its final values.
OnceAndWhole ==
    \A c \in batch : c.whole /\ (c.bar \in sent => halfDone /\ phase = "poll" /\ Oldest(c))

\* A proposal is never against a technical signal it rests on, whatever the news.
NotAgainstTechnical ==
    \A i \in 1..Len(proposals) :
        proposals[i].technical # None =>
            SideOf(proposals[i].technical.direction) \in {proposals[i].side, "none"}

DataAge(p) == now - Closes(p.technical.data)

\* A proposal that passes the check rests on data no older than the oldest candle of a
\* poll and the check allow, if the candle that triggered its signal was polled.
AcceptedDataBound ==
    accepted # None =>
        (accepted.technical # None =>
            (accepted.technical.polled =>
                DataAge(accepted) < (PollLimit - 1) * Bar + MaxStaleness))
================================================================================
