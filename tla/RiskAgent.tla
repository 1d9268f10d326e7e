-------------------------------- MODULE RiskAgent --------------------------------
(***************************************************************************)
(* The Risk agent (agents/risk/agent.py).  Two asyncio tasks share one     *)
(* ledger: the evaluation loop, which takes a proposal, decides, reserves  *)
(* and publishes an assessment, and the result tracker, which applies      *)
(* execution results.  Each step below runs between two awaits, so it is   *)
(* atomic; "outgoing" is the assessment the loop holds while it awaits the *)
(* audit write and the publish, and the tracker may run in between.        *)
(*                                                                         *)
(* Where proposals come from is left open: any proposal may arrive         *)
(* whenever the loop is free, at most MaxProposals of them.                *)
(***************************************************************************)
EXTENDS TradeBus, PositionSizer

CONSTANTS
    MaxOpenPositions,  \* risk.max_open_positions
    SeenMax,           \* _SEEN_RESULTS_MAX
    Requests,          \* the values of requested_size_usd
    Stops,             \* the values of the stop distance, per mille
    MaxProposals       \* bound on the proposals of a behaviour

ASSUME RiskAssumption ==
    /\ MaxOpenPositions \in Nat
    /\ SeenMax \in Nat \ {0}
    /\ Requests \subseteq Nat \ {0}
    /\ Stops \subseteq Nat
    /\ MaxProposals \in Nat

VARIABLES
    seen,         \* _seen_results, oldest first
    breaker,      \* the circuit breaker is tripped
    riskHalted,   \* _trading_halted
    riskRunning,  \* stop() has not been called
    riskErrors,   \* _consecutive_errors; at MaxAgentCrashes the agent is quarantined
    outgoing,     \* the assessment evaluated and not yet published, or None
    haltStep,     \* how far _emergency_halt has come
    proposed      \* proposals taken so far

riskVars == <<ledger, daily, seen, breaker, riskHalted, riskRunning, riskErrors, outgoing,
              haltStep, proposed>>

RiskInit ==
    /\ LedgerInit
    /\ seen = <<>>
    /\ breaker = FALSE
    /\ riskHalted = FALSE
    /\ riskRunning = TRUE
    /\ riskErrors = 0
    /\ outgoing = None
    /\ haltStep = "none"
    /\ proposed = 0

RiskTypeOK ==
    /\ cash \in Int
    /\ held \in [Symbols -> Positions]
    /\ cost \in [Symbols -> Int]
    /\ dailyStart \in Int
    /\ dailyPnl \in Int
    /\ newDay \in BOOLEAN
    /\ seen \in Seq(Nat)
    /\ breaker \in BOOLEAN
    /\ riskHalted \in BOOLEAN
    /\ riskRunning \in BOOLEAN
    /\ riskErrors \in 0..MaxAgentCrashes
    /\ outgoing \in Assessments \cup {None}
    /\ haltStep \in {"none", "latch", "broadcast"}
    /\ proposed \in 0..MaxProposals

--------------------------------------------------------------------------------
(***************************************************************************)
(* The evaluation loop: one action per outcome of _evaluate, in the order  *)
(* of its checks.                                                          *)
(***************************************************************************)
RiskQuarantined == riskErrors >= MaxAgentCrashes

TakeProposal ==
    /\ riskRunning /\ ~RiskQuarantined
    /\ outgoing = None
    /\ proposed < MaxProposals
    /\ proposed' = proposed + 1
    /\ UNCHANGED <<seen, riskHalted, riskRunning, riskErrors, bus>>

Verdict(s, side, size, approved) ==
    outgoing' = Assessment(proposed + 1, s, side, size, approved)

\* Checks 1 and 2.
RejectHalted(s, side) ==
    /\ TakeProposal
    /\ breaker \/ riskHalted
    /\ Verdict(s, side, 0, FALSE)
    /\ UNCHANGED <<ledger, daily, breaker, haltStep>>

\* Checks 3 and 4: a breach trips the breaker and starts _emergency_halt.
Breached == DailyLossLimitBreached \/ TotalDrawdownLimitBreached

RejectBreach(s, side) ==
    /\ TakeProposal
    /\ ~breaker /\ ~riskHalted
    /\ Breached
    /\ MaybeResetDaily
    /\ breaker' = TRUE
    /\ haltStep' = "latch"
    /\ Verdict(s, side, 0, FALSE)
    /\ UNCHANGED ledger

\* Wrong: a new day resumes trading although the breaker is tripped.
ScreenedUnlessHalted ==
    /\ TakeProposal
    /\ ~riskHalted
    /\ ~Breached
    /\ MaybeResetDaily
    /\ UNCHANGED <<breaker, haltStep>>

Screened ==
    /\ TakeProposal
    /\ ~breaker /\ ~riskHalted
    /\ ~Breached
    /\ MaybeResetDaily
    /\ UNCHANGED <<breaker, haltStep>>

\* Checks 5 to 9: stale data, stacking, the position limit.  The order-size
\* check cannot fail, because calculate never returns less than MinOrder.
RejectScreened(s, side, stale) ==
    /\ Screened
    /\ \/ stale
       \/ held[s] = side
       \/ held[s] = "flat" /\ OpenPositionsCount >= MaxOpenPositions
    /\ Verdict(s, side, 0, FALSE)
    /\ UNCHANGED ledger

\* Check 6: an opposite-side proposal closes the position.  Nothing in the
\* ledger records that the close is under way.
ApproveClose(s, side) ==
    /\ Screened
    /\ held[s] = Opposite(side)
    /\ Verdict(s, side, cost[s], TRUE)
    /\ UNCHANGED ledger

\* Checks 7 to 10: size the order and reserve it before the first await.
\* The size is at least 1 and never more than requested.
ApprovedSize(requested, stop) == Lesser(requested, Calculate(PortfolioValue, stop))

\* Wrong: one position too many.
ApproveOpenAtLimit(s, side, requested, stop) ==
    /\ Screened
    /\ held[s] = "flat"
    /\ OpenPositionsCount <= MaxOpenPositions
    /\ \E size \in 1..requested :
           /\ size = ApprovedSize(requested, stop)
           /\ OpenPosition(s, size, side)
           /\ Verdict(s, side, size, TRUE)

\* Wrong: nothing is reserved until the fill is reported.
ApproveOpenUnreserved(s, side, requested, stop) ==
    /\ Screened
    /\ held[s] = "flat"
    /\ OpenPositionsCount < MaxOpenPositions
    /\ \E size \in 1..requested :
           /\ size = ApprovedSize(requested, stop)
           /\ Verdict(s, side, size, TRUE)
    /\ UNCHANGED ledger

ApproveOpen(s, side, requested, stop) ==
    /\ Screened
    /\ held[s] = "flat"
    /\ OpenPositionsCount < MaxOpenPositions
    /\ \E size \in 1..requested :
           /\ size = ApprovedSize(requested, stop)
           /\ OpenPosition(s, size, side)
           /\ Verdict(s, side, size, TRUE)

Evaluate(s) ==
    \E side \in Sides :
        \/ RejectHalted(s, side)
        \/ RejectBreach(s, side)
        \/ \E stale \in BOOLEAN : RejectScreened(s, side, stale)
        \/ ApproveClose(s, side)
        \/ \E requested \in Requests, stop \in Stops :
               ApproveOpen(s, side, requested, stop)

--------------------------------------------------------------------------------
(***************************************************************************)
(* The awaits of the evaluation loop.  _emergency_halt writes the latch,   *)
(* then broadcasts; one except clause covers both, so a failed latch write *)
(* skips the broadcast and neither is tried again.                         *)
(***************************************************************************)
afterVerdict == <<ledger, daily, seen, breaker, riskHalted, riskRunning, proposed>>
halting == <<afterVerdict, riskErrors, outgoing>>

\* Wrong: only agents that start later are told.
WriteLatchOnly ==
    /\ haltStep = "latch"
    /\ latch' = TRUE
    /\ haltStep' = "none"
    /\ UNCHANGED <<halting, channels, overridden, faults>>

WriteLatch ==
    /\ haltStep = "latch"
    /\ latch' = TRUE
    /\ haltStep' = "broadcast"
    /\ UNCHANGED <<halting, channels, overridden, faults>>

BroadcastOverride ==
    /\ haltStep = "broadcast"
    /\ overridden' = TRUE
    /\ haltStep' = "none"
    /\ UNCHANGED <<halting, channels, latch, faults>>

EmergencyHaltFails ==
    /\ haltStep # "none"
    /\ Lose
    /\ haltStep' = "none"
    /\ UNCHANGED <<halting, channels, control, redelivered>>

PublishAssessment ==
    /\ outgoing # None
    /\ haltStep = "none"
    /\ assessments' = Append(assessments, outgoing)
    /\ outgoing' = None
    /\ riskErrors' = 0
    /\ UNCHANGED <<afterVerdict, haltStep, results, control, faults>>

\* The publish raises: the loop records an error and takes the next
\* proposal; a reservation made by the verdict stays.  After stop() closed
\* the connection pool, a publish may reconnect or raise.
PublishAssessmentFails ==
    /\ outgoing # None
    /\ haltStep = "none"
    /\ IF riskRunning THEN Lose ELSE lost' = lost
    /\ outgoing' = None
    /\ riskErrors' = ErrorAfter(riskErrors)
    /\ UNCHANGED <<afterVerdict, haltStep, channels, control, redelivered>>

\* The override listener: halt, then stop() because every override in the
\* code base has requires_human_reset set.
RiskHearsOverride ==
    /\ overridden
    /\ riskRunning
    /\ riskHalted' = TRUE
    /\ riskRunning' = FALSE
    /\ UNCHANGED <<ledger, daily, seen, breaker, riskErrors, outgoing, haltStep, proposed, bus>>

\* A quarantined agent leaves its loop at the next proposal, which is
\* dropped, and stops; run_agent does not restart it.
RiskLeaves ==
    /\ riskRunning /\ RiskQuarantined
    /\ proposed < MaxProposals
    /\ proposed' = proposed + 1
    /\ riskRunning' = FALSE
    /\ UNCHANGED <<ledger, daily, seen, breaker, riskHalted, riskErrors, outgoing, haltStep, bus>>

--------------------------------------------------------------------------------
(***************************************************************************)
(* The result tracker: one action per value _apply_execution_result        *)
(* returns.                                                                *)
(***************************************************************************)
SeenIds == {seen[i] : i \in DOMAIN seen}

Remembered(q, id, max) ==
    LET longer == Append(q, id) IN IF Len(longer) > max THEN Tail(longer) ELSE longer

TakeResult ==
    /\ riskRunning /\ ~RiskQuarantined
    /\ results # <<>>
    /\ results' = Tail(results)
    /\ UNCHANGED <<breaker, riskHalted, riskRunning, riskErrors, outgoing, haltStep,
                   proposed, assessments, control, faults, dailyStart, newDay>>

\* The tracker of a quarantined or stopped agent reads one more result and
\* ends; that result and all later ones are gone.
ResultUnheard ==
    /\ ~riskRunning \/ RiskQuarantined
    /\ results # <<>>
    /\ results' = Tail(results)
    /\ UNCHANGED <<riskVars, assessments, control, faults>>

\* Wrong: remembered but never compared.
AnySight(r) == seen' = Remembered(seen, r.id, SeenMax)

FirstSight(r) == r.id \notin SeenIds /\ seen' = Remembered(seen, r.id, SeenMax)

ResultDuplicate ==
    /\ TakeResult
    /\ Head(results).id \in SeenIds
    /\ UNCHANGED <<ledger, dailyPnl, seen>>

\* Wrong: a failed close gives the position back too.
ResultReleasedAnySide ==
    /\ TakeResult
    /\ LET r == Head(results)
       IN  /\ FirstSight(r)
           /\ ~r.filled
           /\ held[r.symbol] # "flat"
           /\ ClosePosition(r.symbol, 0)

\* A failed opening order gives its reservation back.
ResultReleased ==
    /\ TakeResult
    /\ LET r == Head(results)
       IN  /\ FirstSight(r)
           /\ ~r.filled
           /\ held[r.symbol] = r.side
           /\ ClosePosition(r.symbol, 0)

ResultIgnored ==
    /\ TakeResult
    /\ LET r == Head(results)
       IN  /\ FirstSight(r)
           /\ ~r.filled
           /\ held[r.symbol] # r.side
    /\ UNCHANGED <<ledger, dailyPnl>>

\* A fill against the held side closes the position.
ResultClosed ==
    /\ TakeResult
    /\ LET r == Head(results)
       IN  /\ FirstSight(r)
           /\ r.filled
           /\ held[r.symbol] = Opposite(r.side)
           /\ ClosePosition(r.symbol, r.pnl)

\* A fill on the held side replaces the reservation by the actual cost.
ResultReconciled ==
    /\ TakeResult
    /\ LET r == Head(results)
       IN  /\ FirstSight(r)
           /\ r.filled
           /\ held[r.symbol] = r.side
           /\ AdjustPositionCost(r.symbol, r.cost)
    /\ UNCHANGED dailyPnl

\* A fill for a symbol the ledger holds flat is taken over as a position.
ResultAdopted ==
    /\ TakeResult
    /\ LET r == Head(results)
       IN  /\ FirstSight(r)
           /\ r.filled
           /\ held[r.symbol] = "flat"
           /\ OpenPosition(r.symbol, r.cost, r.side)
    /\ UNCHANGED dailyPnl

ApplyExecutionResult ==
    \/ ResultDuplicate \/ ResultReleased \/ ResultIgnored
    \/ ResultClosed \/ ResultReconciled \/ ResultAdopted

RiskStep ==
    \/ WriteLatch \/ BroadcastOverride \/ EmergencyHaltFails
    \/ PublishAssessment \/ PublishAssessmentFails
    \/ RiskHearsOverride \/ RiskLeaves
    \/ ApplyExecutionResult \/ ResultUnheard
================================================================================
