----------------------------- MODULE ExecutionAgent -----------------------------
(***************************************************************************)
(* The Execution agent in paper mode (agents/execution/agent.py).  Its     *)
(* assessment loop handles one order at a time; beside it runs the         *)
(* stop-loss / take-profit monitor.  Both use the same broker and yield at *)
(* every await, so a close by the monitor can fall between the moment an   *)
(* order is taken and the moment it fills (20 to 150 ms of simulated       *)
(* latency), and between a fill and the publication of its result.         *)
(*                                                                         *)
(* The monitor works through a snapshot of the positions.  Prices are left *)
(* open: a position of the snapshot may or may not have crossed a          *)
(* threshold.  MaxMonitorCloses bounds the closes it makes.                *)
(***************************************************************************)
EXTENDS PaperBroker

CONSTANT MaxMonitorCloses

ASSUME MonitorAssumption == MaxMonitorCloses \in Nat

VARIABLES
    execRunning,    \* stop() has not been called
    execErrors,     \* _consecutive_errors; at MaxAgentCrashes the agent is quarantined
    order,          \* the assessment place_order is working on, or None
    filling,        \* the order's result, not yet published, or None
    scan,           \* symbols of the monitor's snapshot still to be looked at
    closing,        \* the monitor's result, not yet published, or None
    monitorAsleep,  \* the monitor has passed its check and sleeps until its next scan
    monitorCloses   \* closes made by the monitor

loopVars == <<order, filling>>
monitorVars == <<scan, closing, monitorAsleep, monitorCloses>>
lifeVars == <<execRunning, execErrors>>
execVars == <<brokerVars, lifeVars, loopVars, monitorVars>>

ExecInit ==
    /\ BrokerInit
    /\ execRunning = TRUE
    /\ execErrors = 0
    /\ order = None
    /\ filling = None
    /\ scan = {}
    /\ closing = None
    /\ monitorAsleep = TRUE
    /\ monitorCloses = 0

ExecTypeOK ==
    /\ BrokerTypeOK
    /\ execRunning \in BOOLEAN
    /\ execErrors \in 0..MaxAgentCrashes
    /\ order \in Assessments \cup {None}
    /\ filling \in Results \cup {None}
    /\ scan \subseteq Symbols
    /\ closing \in Results \cup {None}
    /\ monitorAsleep \in BOOLEAN
    /\ monitorCloses \in 0..MaxMonitorCloses

--------------------------------------------------------------------------------
(***************************************************************************)
(* The assessment loop.                                                    *)
(***************************************************************************)
ExecQuarantined == execErrors >= MaxAgentCrashes

TakeAssessment ==
    /\ execRunning /\ ~ExecQuarantined
    /\ order = None /\ filling = None
    /\ assessments # <<>>
    /\ assessments' = Tail(assessments)
    /\ UNCHANGED <<results, control, faults, execRunning, monitorVars>>

RecordSuccess == execErrors' = 0
RecordError == execErrors' = ErrorAfter(execErrors)

SkipRejected ==
    /\ TakeAssessment
    /\ ~Head(assessments).approved
    /\ RecordSuccess
    /\ UNCHANGED <<brokerVars, loopVars>>

\* place_order finds the proposal among the filled orders and returns the
\* same result, which the loop publishes again.
ReplayFilled ==
    /\ TakeAssessment
    /\ LET a == Head(assessments)
       IN  /\ a.approved
           /\ \E i \in Cached(a.id) : filling' = filledOrders[i]
    /\ UNCHANGED <<brokerVars, execErrors, order>>

\* Wrong: the remembered fills are not looked at.
BeginUnchecked ==
    /\ TakeAssessment
    /\ Head(assessments).approved
    /\ order' = Head(assessments)
    /\ UNCHANGED <<brokerVars, execErrors, filling>>

\* place_order goes to sleep for the simulated latency.
BeginOrder ==
    /\ TakeAssessment
    /\ LET a == Head(assessments)
       IN  /\ a.approved
           /\ Cached(a.id) = {}
           /\ order' = a
    /\ UNCHANGED <<brokerVars, execErrors, filling>>

\* A quarantined agent leaves its loop at the next assessment, which is
\* dropped whatever it says, and stops; run_agent does not restart it.
ExecLeaves ==
    /\ execRunning /\ ExecQuarantined
    /\ order = None /\ filling = None
    /\ assessments # <<>>
    /\ assessments' = Tail(assessments)
    /\ execRunning' = FALSE
    /\ UNCHANGED <<results, control, faults, brokerVars, execErrors, loopVars, monitorVars>>

Placing ==
    /\ order # None
    /\ order' = None
    /\ UNCHANGED <<bus, execRunning, monitorVars>>

\* Wrong: the exception is logged and no result is published.
RefusedSilently(a) == Refuse /\ RecordError /\ filling' = filling

\* place_order raises OrderRejectedError (no usable price or quantity, or
\* a same-side position: no stacking) or InsufficientBalanceError, and the
\* loop counts the exception as an error of its own and turns it into a
\* REJECTED result on the proposal's side.
Refused(a) ==
    /\ Refuse
    /\ RecordError
    /\ filling' = NextResult(a.id, a.symbol, a.side, FALSE, 0, 0)

RefuseUnusable == Placing /\ Refused(order)

RefuseStacking ==
    /\ Placing
    /\ bheld[order.symbol] = order.side
    /\ Refused(order)

RefuseUnfunded ==
    /\ Placing
    /\ bheld[order.symbol] = "flat"
    /\ \E actual \in FillCosts(order.size) : actual > bcash
    /\ Refused(order)

\* An order against an open position closes it whatever its size is.
FillClose ==
    /\ Placing
    /\ bheld[order.symbol] = Opposite(order.side)
    /\ \E p \in Pnls(order.symbol) :
           LET r == ClosingFill(order.id, order.symbol, p)
           IN  Close(order.symbol, p) /\ filling' = r /\ Remember(r)
    /\ execErrors' = execErrors

FillOpen ==
    /\ Placing
    /\ bheld[order.symbol] = "flat"
    /\ \E actual \in FillCosts(order.size) :
           LET r == NextResult(order.id, order.symbol, order.side, TRUE, actual, 0)
           IN  Open(order.symbol, order.side, actual) /\ filling' = r /\ Remember(r)
    /\ execErrors' = execErrors

\* _record_fill or _publish_failure, after the broker saved its portfolio.
PublishResult ==
    /\ filling # None
    /\ results' = Append(results, filling)
    /\ filling' = None
    /\ IF filling.filled THEN RecordSuccess ELSE execErrors' = execErrors
    /\ UNCHANGED <<assessments, control, faults, brokerVars, execRunning, order, monitorVars>>

\* The publish raises; the result is gone, and a fill counts as an error.
\* After stop() closed the connection pool, a publish may reconnect or raise.
PublishResultFails ==
    /\ filling # None
    /\ IF execRunning THEN Lose ELSE lost' = lost
    /\ filling' = None
    /\ IF filling.filled THEN RecordError ELSE execErrors' = execErrors
    /\ UNCHANGED <<channels, control, redelivered, brokerVars, execRunning, order, monitorVars>>

--------------------------------------------------------------------------------
(***************************************************************************)
(* The stop-loss / take-profit monitor.                                    *)
(***************************************************************************)
MonitorStep == UNCHANGED <<assessments, control, redelivered, lifeVars, loopVars>>

\* _should_continue() is asked before the sleep of 30 s and not after it: the
\* scan that follows may come after a stop.
MonitorChecks ==
    /\ ~monitorAsleep
    /\ scan = {} /\ closing = None
    /\ execRunning /\ ~ExecQuarantined
    /\ monitorAsleep' = TRUE
    /\ MonitorStep
    /\ UNCHANGED <<results, lost, brokerVars, scan, closing, monitorCloses>>

MonitorScan ==
    /\ monitorAsleep
    /\ scan = {} /\ closing = None
    /\ monitorCloses < MaxMonitorCloses
    /\ BrokerOpen # {}
    /\ scan' = BrokerOpen
    /\ monitorAsleep' = FALSE
    /\ MonitorStep
    /\ UNCHANGED <<results, lost, brokerVars, closing, monitorCloses>>

\* No price yet, no threshold crossed, or close_position found nothing.
MonitorPass(s) ==
    /\ s \in scan /\ closing = None
    /\ scan' = scan \ {s}
    /\ MonitorStep
    /\ UNCHANGED <<results, lost, brokerVars, closing, monitorAsleep, monitorCloses>>

\* close_position takes whatever position the symbol has by now.  Its ids
\* are synthetic: proposal id 0 stands for "no proposal".
MonitorClose(s) ==
    /\ s \in scan /\ closing = None
    /\ monitorCloses < MaxMonitorCloses
    /\ \E p \in Pnls(s) : Close(s, p) /\ closing' = ClosingFill(0, s, p)
    /\ scan' = scan \ {s}
    /\ monitorCloses' = monitorCloses + 1
    /\ MonitorStep
    /\ UNCHANGED <<results, lost, filledOrders, monitorAsleep>>

MonitorPublish ==
    /\ closing # None
    /\ results' = Append(results, closing)
    /\ closing' = None
    /\ MonitorStep
    /\ UNCHANGED <<lost, brokerVars, scan, monitorAsleep, monitorCloses>>

\* The publish raises: the except clause of the monitor loop drops the rest
\* of the snapshot too.
MonitorPublishFails ==
    /\ closing # None
    /\ IF execRunning THEN Lose ELSE lost' = lost
    /\ closing' = None
    /\ scan' = {}
    /\ MonitorStep
    /\ UNCHANGED <<results, brokerVars, monitorAsleep, monitorCloses>>

--------------------------------------------------------------------------------
\* The override listener calls stop(): the bus is disconnected, no further
\* assessment is taken, and an order past its latency still fills.
ExecHearsOverride ==
    /\ overridden
    /\ execRunning
    /\ execRunning' = FALSE
    /\ UNCHANGED <<bus, brokerVars, execErrors, loopVars, monitorVars>>

PlaceOrder ==
    \/ RefuseUnusable \/ RefuseStacking \/ RefuseUnfunded \/ FillClose \/ FillOpen

ExecStep ==
    \/ SkipRejected \/ ReplayFilled \/ BeginOrder
    \/ PlaceOrder
    \/ PublishResult \/ PublishResultFails
    \/ MonitorChecks \/ MonitorScan
    \/ \E s \in Symbols : MonitorPass(s) \/ MonitorClose(s)
    \/ MonitorPublish \/ MonitorPublishFails
    \/ ExecHearsOverride \/ ExecLeaves
================================================================================
