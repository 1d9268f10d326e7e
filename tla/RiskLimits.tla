-------------------------------- MODULE RiskLimits --------------------------------
(***************************************************************************)
(* The Risk agent on its own, against a broker that may report anything:   *)
(* what its limits promise (agents/risk/agent.py, position_sizer.py,       *)
(* drawdown_monitor.py).  The environment publishes execution results on   *)
(* either side, filled or not, and lets UTC days go by; MaxResults and     *)
(* MaxDays bound it.                                                       *)
(***************************************************************************)
EXTENDS RiskAgent, MT5Orders

CONSTANTS
    MaxResults, MaxDays,
    Costs,   \* total_cost_usd + fee_usd of a fill
    Profits, \* realized_pnl_usd of a fill
    Prices   \* the price of a proposal's technical signal, 0 without one

ASSUME EnvironmentAssumption ==
    /\ MaxResults \in Nat
    /\ MaxDays \in Nat
    /\ Costs \subseteq Nat
    /\ Profits \subseteq Int
    /\ Prices \subseteq Nat

VARIABLES
    reported,  \* results published so far
    days       \* midnights so far

envVars == <<reported, days>>
vars == <<bus, riskVars, envVars>>

Init ==
    /\ BusInit
    /\ RiskInit
    /\ reported = 0
    /\ days = 0

Report ==
    /\ reported < MaxResults
    /\ reported' = reported + 1
    /\ \E s \in Symbols, side \in Sides, filled \in BOOLEAN, actual \in Costs, pnl \in Profits :
           results' = Append(results, Result(reported + 1, 0, s, side, filled, actual, pnl))
    /\ UNCHANGED <<assessments, control, faults, riskVars, days>>

\* datetime.now(UTC).date() moves on; nothing in the agent notices yet.
Midnight ==
    /\ days < MaxDays
    /\ days' = days + 1
    /\ newDay' = TRUE
    /\ UNCHANGED <<bus, ledger, dailyStart, dailyPnl, seen, breaker, riskHalted,
                   riskRunning, riskErrors, outgoing, haltStep, proposed, reported>>

Next ==
    \/ \E s \in Symbols : Evaluate(s) /\ UNCHANGED envVars
    \/ RiskStep /\ UNCHANGED envVars
    \/ Report
    \/ Redeliver /\ UNCHANGED <<riskVars, envVars>>
    \/ Midnight

Spec == Init /\ [][Next]_vars

TypeOK ==
    /\ BusTypeOK
    /\ RiskTypeOK
    /\ reported \in 0..MaxResults
    /\ days \in 0..MaxDays

--------------------------------------------------------------------------------
\* Today's loss is exactly today's realised profit and loss: reserving,
\* reconciling, releasing and adopting positions move money between cash and
\* positions without creating any (DrawdownMonitor, lines 141-178), whatever
\* the broker reports and in whatever order.
DailyBooks == PortfolioValue = dailyStart + dailyPnl

\* What the bridge orders for an approval is worth what Risk approved, up to half a
\* step, unless the broker's smallest volume is worth more or its largest less
\* (mt5_bridge.py, _clamp_volume): the floor is applied after all of Risk's limits.
WorthWhatApproved ==
    \A i \in DOMAIN assessments : assessments[i].approved =>
        \A price \in Prices : \A v \in Volumes(assessments[i].size, price) :
            LET size == assessments[i].size
            IN  /\ v > MinVolume => 2 * price * v <= 2 * size + price * VolumeStep
                /\ v < MaxVolume => 2 * price * v >= 2 * size - price * VolumeStep

\* Once a limit breach tripped the breaker it stays tripped and nothing is
\* approved any more, on this day or a later one.
HaltIsFinal ==
    [][breaker => breaker' /\ (outgoing' # None => outgoing' = outgoing \/ ~outgoing'.approved)]_vars
================================================================================
