-------------------------- MODULE TradePipeline_proofs --------------------------
(***************************************************************************)
(* Proofs about TradePipeline and PipelineHistory for every set of         *)
(* symbols, every bound and every choice of prices.                        *)
(***************************************************************************)
EXTENDS PipelineHistory, DrawdownMonitor_proofs

(***************************************************************************)
(* Queues.                                                                 *)
(***************************************************************************)

\* Appending to a bounded queue keeps its elements in S: the memories of
\* seen result ids and of filled orders (Remembered, Remember).
LEMMA RememberedType ==
    ASSUME NEW S, NEW q \in Seq(S), NEW x \in S, NEW max \in Nat
    PROVE  Remembered(q, x, max) \in Seq(S)
  BY DEF Remembered

\* Taking the head of a queue.
LEMMA TailType ==
    ASSUME NEW S, NEW q \in Seq(S), q # <<>>
    PROVE  Head(q) \in S /\ Tail(q) \in Seq(S)
  OBVIOUS

\* Delivering the head of a queue twice keeps the type of the queue.
LEMMA TwiceType ==
    ASSUME NEW S, NEW q \in Seq(S), q # <<>>
    PROVE  Twice(q) \in Seq(S)
  BY DEF Twice

--------------------------------------------------------------------------------
(***************************************************************************)
(* Types.                                                                  *)
(***************************************************************************)
TypeInv == TypeOK /\ ~newDay

USE DEF Positions, Sides

\* Consecutive errors are counted up to the limit.
LEMMA ErrorsBounded ==
    /\ 0 \in 0..MaxAgentCrashes
    /\ \A n \in 0..MaxAgentCrashes : ErrorAfter(n) \in 0..MaxAgentCrashes
  BY BusAssumption DEF ErrorAfter

LEMMA InitTypeInv == Init => TypeInv
<1> SUFFICES ASSUME Init PROVE TypeInv
  OBVIOUS
<1> USE DEF Init
<1>1. latch \in BOOLEAN /\ overridden \in BOOLEAN
  BY Zenon DEF BusInit
<1>2. BusTypeOK
  BY <1>1, BusAssumption DEF BusInit, BusTypeOK
<1>3. /\ breaker \in BOOLEAN /\ riskHalted \in BOOLEAN /\ riskRunning \in BOOLEAN
      /\ newDay \in BOOLEAN /\ ~newDay
      /\ outgoing \in Assessments \cup {None}
  BY Zenon DEF RiskInit, LedgerInit
<1>4. RiskTypeOK
  BY <1>3, ErrorsBounded, LedgerAssumption, RiskAssumption DEF RiskInit, LedgerInit, RiskTypeOK
<1>5. /\ execRunning \in BOOLEAN
      /\ order \in Assessments \cup {None}
      /\ filling \in Results \cup {None}
      /\ closing \in Results \cup {None}
  BY Zenon DEF ExecInit
<1>6. ExecTypeOK
  BY <1>5, ErrorsBounded, LedgerAssumption, MonitorAssumption
     DEF ExecInit, BrokerInit, ExecTypeOK, BrokerTypeOK
<1> QED
  BY <1>2, <1>3, <1>4, <1>6 DEF TypeInv, TypeOK

\* The day does not change in the pipeline, so the daily limit's reset
\* leaves the ledger alone.
LEMMA NoReset == TypeInv /\ MaybeResetDaily => UNCHANGED daily
  BY DEF TypeInv, TypeOK, RiskTypeOK, MaybeResetDaily, StartOfDay, daily

\* What DrawdownMonitor's operations do to the type of the ledger.
LEMMA OpenPositionType ==
    ASSUME LedgerType, NEW s \in Symbols, NEW side \in Sides, NEW size \in Int,
           OpenPosition(s, size, side)
    PROVE  LedgerType'
  BY DEF LedgerType, OpenPosition

LEMMA AdjustPositionCostType ==
    ASSUME LedgerType, NEW s \in Symbols, NEW actual \in Int, AdjustPositionCost(s, actual)
    PROVE  LedgerType'
  BY DEF LedgerType, AdjustPositionCost

LEMMA ClosePositionType ==
    ASSUME LedgerType, dailyPnl \in Int, NEW s \in Symbols, NEW pnl \in Int,
           ClosePosition(s, pnl)
    PROVE  LedgerType' /\ dailyPnl' \in Int
  BY DEF LedgerType, ClosePosition

\* A verdict is an assessment, whatever it says.
LEMMA RejectedType ==
    ASSUME TypeInv, NEW s \in Symbols, NEW side \in Sides, Verdict(s, side, 0, FALSE)
    PROVE  outgoing' \in Assessments
<1>1. proposed + 1 \in Nat
  BY RiskAssumption DEF TypeInv, TypeOK, RiskTypeOK
<1>2. FALSE \in BOOLEAN
  BY Zenon
<1> QED
  BY <1>1, <1>2 DEF Verdict, Assessment, Assessments

LEMMA ApprovedType ==
    ASSUME TypeInv, NEW s \in Symbols, NEW side \in Sides, NEW size \in Int,
           Verdict(s, side, size, TRUE)
    PROVE  outgoing' \in Assessments
<1>1. proposed + 1 \in Nat
  BY RiskAssumption DEF TypeInv, TypeOK, RiskTypeOK
<1> QED
  BY <1>1 DEF Verdict, Assessment, Assessments

LEMMA ProposeType ==
    ASSUME TypeInv, NEW s \in Symbols, Propose(s)
    PROVE  TypeInv' /\ outgoing' \in Assessments
<1>1. PICK side \in Sides :
         \/ RejectHalted(s, side)
         \/ RejectBreach(s, side)
         \/ \E stale \in BOOLEAN : RejectScreened(s, side, stale)
         \/ ApproveClose(s, side)
         \/ \E requested \in Requests, stop \in Stops : ApproveOpen(s, side, requested, stop)
  BY DEF Propose, Evaluate
<1>2. TakeProposal
  BY <1>1 DEF RejectHalted, RejectBreach, RejectScreened, ApproveClose, ApproveOpen, Screened
<1>3. BusTypeOK' /\ ExecTypeOK'
  BY <1>2 DEF TypeInv, TypeOK, TakeProposal, Propose, bus, channels, control, faults,
              execVars, lifeVars, brokerVars, loopVars, monitorVars, BusTypeOK, ExecTypeOK,
              BrokerTypeOK
<1>4. proposed' \in 0..MaxProposals
  BY <1>2, RiskAssumption DEF TypeInv, TypeOK, TakeProposal, RiskTypeOK
<1>5. UNCHANGED daily
  BY <1>1, NoReset DEF RejectHalted, RejectBreach, RejectScreened, ApproveClose,
                       ApproveOpen, Screened
<1>6. breaker' \in BOOLEAN
  BY <1>1, Zenon DEF RejectHalted, RejectBreach, RejectScreened, ApproveClose, ApproveOpen,
                     Screened, TypeInv, TypeOK, RiskTypeOK
<1>7. haltStep' \in {"none", "latch", "broadcast"}
  BY <1>1 DEF RejectHalted, RejectBreach, RejectScreened, ApproveClose, ApproveOpen,
              Screened, TypeInv, TypeOK, RiskTypeOK
<1>8. \/ UNCHANGED ledger /\ Verdict(s, side, 0, FALSE)
      \/ UNCHANGED ledger /\ Verdict(s, side, cost[s], TRUE)
      \/ \E size \in Int : OpenPosition(s, size, side) /\ Verdict(s, side, size, TRUE)
  <2>1. ASSUME NEW requested \in Requests, NEW stop \in Stops,
               ApproveOpen(s, side, requested, stop)
        PROVE  \E size \in Int : OpenPosition(s, size, side) /\ Verdict(s, side, size, TRUE)
    <3>1. PICK size \in 1..requested : OpenPosition(s, size, side) /\ Verdict(s, side, size, TRUE)
      BY <2>1, Zenon DEF ApproveOpen
    <3>2. size \in Int
      BY RiskAssumption
    <3> QED
      BY <3>1, <3>2, Zenon
  <2>2. CASE RejectHalted(s, side)
    BY <2>2, Zenon DEF RejectHalted
  <2>3. CASE RejectBreach(s, side)
    BY <2>3, Zenon DEF RejectBreach
  <2>4. ASSUME NEW stale \in BOOLEAN, RejectScreened(s, side, stale)
        PROVE  UNCHANGED ledger /\ Verdict(s, side, 0, FALSE)
    BY <2>4, Zenon DEF RejectScreened
  <2>5. CASE ApproveClose(s, side)
    BY <2>5, Zenon DEF ApproveClose
  <2> QED
    BY <1>1, <2>1, <2>2, <2>3, <2>4, <2>5
<1>9. LedgerType' /\ outgoing' \in Assessments
  <2>1. LedgerType /\ cost[s] \in Int
    BY DEF TypeInv, TypeOK, RiskTypeOK, LedgerType
  <2>2. CASE UNCHANGED ledger /\ Verdict(s, side, 0, FALSE)
    BY <2>1, <2>2, RejectedType DEF ledger, LedgerType
  <2>3. CASE UNCHANGED ledger /\ Verdict(s, side, cost[s], TRUE)
    BY <2>1, <2>3, ApprovedType DEF ledger, LedgerType
  <2>4. ASSUME NEW size \in Int, OpenPosition(s, size, side), Verdict(s, side, size, TRUE)
        PROVE  LedgerType' /\ outgoing' \in Assessments
    BY <2>1, <2>4, OpenPositionType, ApprovedType
  <2> QED
    BY <1>8, <2>2, <2>3, <2>4
<1> QED
  BY <1>2, <1>3, <1>4, <1>5, <1>6, <1>7, <1>9
     DEF TypeInv, TypeOK, TakeProposal, RiskTypeOK, LedgerType, daily

\* What an agent leaves alone keeps its type.
LEMMA BusUnchanged == BusTypeOK /\ UNCHANGED bus => BusTypeOK'
  BY DEF BusTypeOK, bus, channels, control, faults

LEMMA RiskUnchanged == RiskTypeOK /\ UNCHANGED riskVars => RiskTypeOK'
  BY DEF RiskTypeOK, riskVars, ledger, daily

LEMMA ExecUnchanged == ExecTypeOK /\ UNCHANGED execVars => ExecTypeOK'
  BY DEF ExecTypeOK, BrokerTypeOK, execVars, lifeVars, brokerVars, loopVars, monitorVars

LEMMA LoseType == BusTypeOK /\ Lose => lost' \in 0..MaxLost
  BY BusAssumption DEF BusTypeOK, Lose

\* The awaits of Risk's evaluation loop and its override listener.
Awaits ==
    \/ WriteLatch \/ BroadcastOverride \/ EmergencyHaltFails
    \/ PublishAssessment \/ PublishAssessmentFails
    \/ RiskHearsOverride \/ RiskLeaves
    \/ ResultUnheard

LEMMA AwaitsType == ASSUME TypeInv, Awaits PROVE BusTypeOK' /\ RiskTypeOK' /\ ~newDay'
<1> USE DEF TypeInv, TypeOK, halting, afterVerdict, ledger, daily, channels, control, faults
<1>1. CASE WriteLatch
  BY <1>1 DEF WriteLatch, BusTypeOK, RiskTypeOK
<1>2. CASE BroadcastOverride
  BY <1>2 DEF BroadcastOverride, BusTypeOK, RiskTypeOK
<1>3. CASE EmergencyHaltFails
  BY <1>3, LoseType DEF EmergencyHaltFails, BusTypeOK, RiskTypeOK
<1>4. CASE PublishAssessment
  BY <1>4, ErrorsBounded DEF PublishAssessment, BusTypeOK, RiskTypeOK
<1>5. CASE PublishAssessmentFails
  BY <1>5, LoseType, ErrorsBounded DEF PublishAssessmentFails, BusTypeOK, RiskTypeOK
<1>6. CASE RiskHearsOverride
  BY <1>6, BusUnchanged DEF RiskHearsOverride, RiskTypeOK
<1>7. CASE RiskLeaves
  <2>1. riskRunning' \in BOOLEAN
    BY <1>7, Zenon DEF RiskLeaves
  <2>2. proposed' \in 0..MaxProposals
    BY <1>7, RiskAssumption DEF RiskLeaves, RiskTypeOK
  <2>3. BusTypeOK'
    BY <1>7, BusUnchanged DEF RiskLeaves
  <2> QED
    BY <1>7, <2>1, <2>2, <2>3 DEF RiskLeaves, RiskTypeOK
<1>8. CASE ResultUnheard
  <2>1. UNCHANGED riskVars
    BY <1>8 DEF ResultUnheard
  <2>2. BusTypeOK'
    BY <1>8, TailType DEF ResultUnheard, BusTypeOK
  <2> QED
    BY <2>1, <2>2, RiskUnchanged DEF riskVars
<1> QED
  BY <1>1, <1>2, <1>3, <1>4, <1>5, <1>6, <1>7, <1>8 DEF Awaits

\* The result tracker.
LEMMA ApplyType ==
    ASSUME TypeInv, ApplyExecutionResult
    PROVE  BusTypeOK' /\ RiskTypeOK' /\ ~newDay'
<1> DEFINE r == Head(results)
<1>1. TakeResult
  BY DEF ApplyExecutionResult, ResultDuplicate, ResultReleased, ResultIgnored, ResultClosed,
         ResultReconciled, ResultAdopted
<1>2. r \in Results /\ Tail(results) \in Seq(Results)
  BY <1>1, TailType DEF TakeResult, TypeInv, TypeOK, BusTypeOK
<1>3. r.id \in Nat /\ r.symbol \in Symbols /\ r.side \in Sides /\ r.cost \in Int /\ r.pnl \in Int
  BY <1>2 DEF Results
<1>4. BusTypeOK'
  BY <1>1, <1>2 DEF TakeResult, TypeInv, TypeOK, BusTypeOK, control, faults
<1>5. seen' \in Seq(Nat)
  <2>1. seen \in Seq(Nat) /\ SeenMax \in Nat
    BY RiskAssumption DEF TypeInv, TypeOK, RiskTypeOK
  <2>2. CASE FirstSight(r)
    BY <2>1, <2>2, <1>3, RememberedType DEF FirstSight
  <2>3. CASE seen' = seen
    BY <2>1, <2>3
  <2> QED
    BY <2>2, <2>3 DEF ApplyExecutionResult, ResultDuplicate, ResultReleased, ResultIgnored,
                      ResultClosed, ResultReconciled, ResultAdopted
<1>6. LedgerType' /\ dailyPnl' \in Int
  <2>1. LedgerType /\ dailyPnl \in Int
    BY DEF TypeInv, TypeOK, RiskTypeOK, LedgerType
  <2>2. CASE ResultDuplicate \/ ResultIgnored
    BY <2>1, <2>2 DEF ResultDuplicate, ResultIgnored, LedgerType, ledger
  <2>3. CASE ResultReleased
    <3>1. ClosePosition(r.symbol, 0)
      BY <2>3 DEF ResultReleased
    <3> QED
      BY <2>1, <3>1, <1>3, ClosePositionType
  <2>4. CASE ResultClosed
    <3>1. ClosePosition(r.symbol, r.pnl)
      BY <2>4 DEF ResultClosed
    <3> QED
      BY <2>1, <3>1, <1>3, ClosePositionType
  <2>5. CASE ResultReconciled
    <3>1. AdjustPositionCost(r.symbol, r.cost) /\ dailyPnl' = dailyPnl
      BY <2>5 DEF ResultReconciled
    <3> QED
      BY <2>1, <3>1, <1>3, AdjustPositionCostType
  <2>6. CASE ResultAdopted
    <3>1. OpenPosition(r.symbol, r.cost, r.side) /\ dailyPnl' = dailyPnl
      BY <2>6 DEF ResultAdopted
    <3> QED
      BY <2>1, <3>1, <1>3, OpenPositionType
  <2> QED
    BY <2>2, <2>3, <2>4, <2>5, <2>6 DEF ApplyExecutionResult
<1> QED
  BY <1>1, <1>4, <1>5, <1>6 DEF TakeResult, TypeInv, TypeOK, RiskTypeOK, LedgerType

\* realized_pnl_usd is an amount of money, and so is the notional of an exit.
LEMMA QuantizeType == ASSUME NEW n \in Int PROVE Quantize(n) \in Int
<1>1. Cent \in Int /\ Cent > 0
  BY BrokerAssumption
<1>2. n \div Cent \in Int
  BY <1>1
<1> DEFINE q == n \div Cent
<1>3. q \in Int /\ q + 1 \in Int
  BY <1>2
<1> HIDE DEF q
<1>4. \A k \in Int : Cent * k \in Int
  BY <1>1
<1>5. Quantize(n) = Cent * q \/ Quantize(n) = Cent * (q + 1)
  BY Zenon DEF Quantize, q
<1> QED
  BY <1>3, <1>4, <1>5

\* A result the broker creates is a result.
LEMMA NextResultType ==
    ASSUME TypeInv, NEW pid \in Nat, NEW s \in Symbols, NEW side \in Sides,
           NEW filled \in BOOLEAN, NEW actual \in Int, NEW pnl \in Int
    PROVE  NextResult(pid, s, side, filled, actual, pnl) \in Results
<1>1. issued + 1 \in Nat
  BY DEF TypeInv, TypeOK, ExecTypeOK, BrokerTypeOK
<1> QED
  BY <1>1 DEF NextResult, Result, Results

BrokerType == bcash \in Int /\ bheld \in [Symbols -> Positions] /\ bcost \in [Symbols -> Int]

LEMMA CloseType ==
    ASSUME TypeInv, NEW pid \in Nat, NEW s \in Symbols, NEW p \in Pnls(s), Close(s, p)
    PROVE  BrokerType' /\ issued' \in Nat /\ ClosingFill(pid, s, p) \in Results
<1>1. BrokerType /\ issued \in Nat
  BY DEF TypeInv, TypeOK, ExecTypeOK, BrokerTypeOK, BrokerType
<1>2. p \in Int
  BY BrokerAssumption DEF Pnls
<1>3. BrokerType' /\ issued' \in Nat
  BY <1>1, <1>2 DEF Close, BrokerType
<1>4. Opposite(bheld[s]) \in Sides
  BY DEF Opposite
<1>5. ExitCost(s, p) \in Int
  BY <1>1, <1>2 DEF ExitCost, BrokerType
<1>6. Quantize(p) \in Int
  BY <1>2, QuantizeType
<1>7. TRUE \in BOOLEAN
  BY Zenon
<1>8. ClosingFill(pid, s, p) \in Results
  BY <1>4, <1>5, <1>6, <1>7, NextResultType, Zenon DEF ClosingFill
<1> QED
  BY <1>3, <1>8

LEMMA RememberType ==
    ASSUME filledOrders \in Seq(Results), NEW r \in Results, Remember(r)
    PROVE  filledOrders' \in Seq(Results)
<1>1. filledOrders' = Remembered(filledOrders, r, FilledMax)
  BY DEF Remember, Remembered
<1> QED
  BY <1>1, RememberedType, BrokerAssumption

--------------------------------------------------------------------------------
\* The assessment loop between two orders.
LEMMA TakeType ==
    ASSUME TypeInv, SkipRejected \/ ReplayFilled \/ BeginOrder
    PROVE  BusTypeOK' /\ ExecTypeOK'
<1>1. TakeAssessment
  BY DEF SkipRejected, ReplayFilled, BeginOrder
<1>2. Head(assessments) \in Assessments /\ Tail(assessments) \in Seq(Assessments)
  BY <1>1, TailType DEF TakeAssessment, TypeInv, TypeOK, BusTypeOK
<1>3. BusTypeOK'
  BY <1>1, <1>2 DEF TakeAssessment, TypeInv, TypeOK, BusTypeOK, control, faults
<1>4. order' \in Assessments \cup {None} /\ filling' \in Results \cup {None}
  <2>1. \A i \in DOMAIN filledOrders : filledOrders[i] \in Results
    BY DEF TypeInv, TypeOK, ExecTypeOK, BrokerTypeOK
  <2>2. CASE ReplayFilled
    BY <2>1, <2>2 DEF ReplayFilled, Cached, TypeInv, TypeOK, ExecTypeOK
  <2> QED
    BY <2>2, <1>2 DEF SkipRejected, BeginOrder, loopVars, TypeInv, TypeOK, ExecTypeOK
<1>5. UNCHANGED <<brokerVars, execRunning, monitorVars>>
  BY <1>1 DEF TakeAssessment, SkipRejected, ReplayFilled, BeginOrder
<1>6. execErrors' \in 0..MaxAgentCrashes
  BY ErrorsBounded DEF SkipRejected, ReplayFilled, BeginOrder, RecordSuccess, TypeInv, TypeOK,
                       ExecTypeOK
<1> QED
  BY <1>3, <1>4, <1>5, <1>6 DEF TypeInv, TypeOK, ExecTypeOK, BrokerTypeOK, brokerVars, monitorVars

\* place_order completes.
LEMMA PlaceType ==
    ASSUME TypeInv, PlaceOrder
    PROVE  BusTypeOK' /\ ExecTypeOK' /\ filling' \in Results
<1>1. Placing
  BY DEF PlaceOrder, RefuseUnusable, RefuseStacking, RefuseUnfunded, FillClose, FillOpen
<1>2. order \in Assessments
  BY <1>1 DEF Placing, TypeInv, TypeOK, ExecTypeOK
<1>3. /\ order.id \in Nat /\ order.symbol \in Symbols /\ order.side \in Sides
      /\ order.size \in Int
  BY <1>2 DEF Assessments
<1>4. BrokerType /\ issued \in Nat /\ filledOrders \in Seq(Results)
  BY DEF TypeInv, TypeOK, ExecTypeOK, BrokerTypeOK, BrokerType
<1>5. BrokerType' /\ issued' \in Nat /\ filledOrders' \in Seq(Results) /\ filling' \in Results
  <2>1. CASE Refused(order)
    <3>1. FALSE \in BOOLEAN /\ 0 \in Int
      OBVIOUS
    <3>2. NextResult(order.id, order.symbol, order.side, FALSE, 0, 0) \in Results
      BY <3>1, <1>3, NextResultType, Zenon
    <3>3. Refuse /\ filling' = NextResult(order.id, order.symbol, order.side, FALSE, 0, 0)
      BY <2>1, Zenon DEF Refused
    <3>4. filling' \in Results
      BY <3>2, <3>3, Zenon
    <3>5. Refuse
      BY <3>3
    <3> QED
      BY <3>4, <3>5, <1>4 DEF Refuse, BrokerType
  <2>2. CASE FillClose
    <3>1. PICK p \in Pnls(order.symbol) :
             /\ Close(order.symbol, p)
             /\ filling' = ClosingFill(order.id, order.symbol, p)
             /\ Remember(filling')
      BY <2>2 DEF FillClose
    <3>2. BrokerType' /\ issued' \in Nat /\ filling' \in Results
      BY <3>1, <1>3, CloseType
    <3> QED
      BY <3>1, <3>2, <1>4, RememberType
  <2>3. CASE FillOpen
    <3>1. PICK actual \in FillCosts(order.size) :
             /\ Open(order.symbol, order.side, actual)
             /\ filling' = NextResult(order.id, order.symbol, order.side, TRUE, actual, 0)
             /\ Remember(filling')
      BY <2>3 DEF FillOpen
    <3>2. actual \in Int
      BY <1>3, BrokerAssumption DEF FillCosts
    <3>3. filling' \in Results
      <4>1. TRUE \in BOOLEAN /\ 0 \in Int
        OBVIOUS
      <4> QED
        BY <3>1, <3>2, <4>1, <1>3, NextResultType, Zenon
    <3>4. BrokerType' /\ issued' \in Nat
      BY <3>1, <3>2, <1>3, <1>4 DEF Open, BrokerType
    <3> QED
      BY <3>1, <3>3, <3>4, <1>4, RememberType
  <2> QED
    BY <2>1, <2>2, <2>3 DEF PlaceOrder, RefuseUnusable, RefuseStacking, RefuseUnfunded
<1>6. BusTypeOK'
  BY <1>1, BusUnchanged DEF Placing, TypeInv, TypeOK
<1>7. execErrors' \in 0..MaxAgentCrashes
  <2>1. execErrors' = execErrors \/ RecordError
    BY DEF PlaceOrder, RefuseUnusable, RefuseStacking, RefuseUnfunded, FillClose, FillOpen, Refused
  <2> QED
    BY <2>1, ErrorsBounded DEF RecordError, TypeInv, TypeOK, ExecTypeOK
<1> QED
  BY <1>1, <1>5, <1>6, <1>7 DEF Placing, TypeInv, TypeOK, ExecTypeOK, BrokerTypeOK, BrokerType,
                          monitorVars

\* Publishing the result, and what makes Execution stop.
Publishing == PublishResult \/ PublishResultFails \/ ExecHearsOverride \/ ExecLeaves

LEMMA PublishingType == ASSUME TypeInv, Publishing PROVE BusTypeOK' /\ ExecTypeOK'
<1> USE DEF TypeInv, TypeOK, channels, control, faults, brokerVars, loopVars, monitorVars,
            ExecTypeOK, BrokerTypeOK
<1>1. CASE PublishResult
  BY <1>1, ErrorsBounded DEF PublishResult, RecordSuccess, BusTypeOK
<1>2. CASE PublishResultFails
  BY <1>2, LoseType, ErrorsBounded DEF PublishResultFails, RecordError, BusTypeOK
<1>3. CASE ExecHearsOverride
  BY <1>3, BusUnchanged DEF ExecHearsOverride
<1>4. CASE ExecLeaves
  BY <1>4, TailType DEF ExecLeaves, BusTypeOK
<1> QED
  BY <1>1, <1>2, <1>3, <1>4 DEF Publishing

\* The stop-loss monitor.
Monitoring ==
    \/ MonitorChecks \/ MonitorScan
    \/ \E s \in Symbols : MonitorPass(s) \/ MonitorClose(s)
    \/ MonitorPublish \/ MonitorPublishFails

LEMMA MonitoringType == ASSUME TypeInv, Monitoring PROVE BusTypeOK' /\ ExecTypeOK'
<1> USE DEF TypeInv, TypeOK, control, lifeVars, brokerVars, loopVars, ExecTypeOK, BrokerTypeOK,
            MonitorStep
<1>1. CASE MonitorChecks \/ MonitorScan
  BY <1>1 DEF MonitorChecks, MonitorScan, BusTypeOK, BrokerOpen
<1>2. ASSUME NEW s \in Symbols, MonitorPass(s) PROVE BusTypeOK' /\ ExecTypeOK'
  BY <1>2 DEF MonitorPass, BusTypeOK
<1>3. ASSUME NEW s \in Symbols, MonitorClose(s) PROVE BusTypeOK' /\ ExecTypeOK'
  <2>1. PICK p \in Pnls(s) : Close(s, p) /\ closing' = ClosingFill(0, s, p)
    BY <1>3 DEF MonitorClose
  <2>2. BrokerType' /\ issued' \in Nat /\ closing' \in Results
    BY <2>1, CloseType
  <2>3. monitorCloses' \in 0..MaxMonitorCloses
    BY <1>3, MonitorAssumption DEF MonitorClose
  <2> QED
    BY <1>3, <2>2, <2>3 DEF MonitorClose, BrokerType, BusTypeOK
<1>4. CASE MonitorPublish
  BY <1>4 DEF MonitorPublish, BusTypeOK
<1>5. CASE MonitorPublishFails
  BY <1>5, LoseType DEF MonitorPublishFails, BusTypeOK
<1> QED
  BY <1>1, <1>2, <1>3, <1>4, <1>5 DEF Monitoring

\* Lost and repeated messages.
Faults == LoseAssessment \/ LoseResult \/ Redeliver

LEMMA FaultsType == ASSUME TypeInv, Faults PROVE BusTypeOK'
<1> USE DEF TypeInv, TypeOK, control, BusTypeOK
<1>1. CASE LoseAssessment
  BY <1>1, LoseType, TailType DEF LoseAssessment
<1>2. CASE LoseResult
  BY <1>2, LoseType, TailType DEF LoseResult
<1>3. CASE Redeliver
  BY <1>3, BusAssumption, TwiceType DEF Redeliver
<1> QED
  BY <1>1, <1>2, <1>3 DEF Faults

LEMMA NextTypeInv == TypeInv /\ [Next]_vars => TypeInv'
<1> SUFFICES ASSUME TypeInv, [Next]_vars PROVE TypeInv'
  OBVIOUS
<1> USE DEF TypeInv, TypeOK
<1>1. ASSUME NEW s \in Symbols, Propose(s) PROVE TypeInv'
  BY <1>1, ProposeType
<1>2. CASE RiskStep /\ UNCHANGED execVars
  BY <1>2, AwaitsType, ApplyType, ExecUnchanged DEF RiskStep, Awaits
<1>3. CASE ExecStep /\ UNCHANGED riskVars
  <2>1. BusTypeOK' /\ ExecTypeOK'
    BY <1>3, TakeType, PlaceType, PublishingType, MonitoringType
       DEF ExecStep, Publishing, Monitoring
  <2> QED
    BY <1>3, <2>1, RiskUnchanged DEF riskVars, daily
<1>4. CASE Faults /\ UNCHANGED <<riskVars, execVars>>
  BY <1>4, FaultsType, RiskUnchanged, ExecUnchanged DEF riskVars, daily
<1>5. CASE UNCHANGED vars
  BY <1>5, BusUnchanged, RiskUnchanged, ExecUnchanged DEF vars, riskVars, daily
<1> QED
  BY <1>1, <1>2, <1>3, <1>4, <1>5 DEF Next, Faults

\* Every variable of the pipeline keeps its type, whatever the symbols, the
\* limits, the prices and the faults (agents/risk/agent.py,
\* agents/execution/agent.py).
THEOREM TypeCorrect == Spec => []TypeOK
<1>1. Spec => []TypeInv
  BY InitTypeInv, NextTypeInv, PTL DEF Spec
<1>2. TypeInv => TypeOK
  BY DEF TypeInv
<1> QED
  BY <1>1, <1>2, PTL

--------------------------------------------------------------------------------
(***************************************************************************)
(* Idempotent orders.  The cache is consulted when an order is taken and   *)
(* extended when it fills, a latency later: in between no other order is   *)
(* placed, because the loop handles one at a time, and the monitor's       *)
(* closes are not remembered.                                              *)
(***************************************************************************)
FillInv ==
    /\ TypeInv
    /\ FilledOnce
    /\ order # None => \A i \in DOMAIN filledOrders : filledOrders[i].pid # order.id

LEMMA RememberedOnce ==
    ASSUME TypeInv, FilledOnce, NEW r \in Results, Remember(r),
           \A i \in DOMAIN filledOrders : filledOrders[i].pid # r.pid
    PROVE  FilledOnce'
<1> DEFINE longer == Append(filledOrders, r)
<1>1. filledOrders \in Seq(Results)
  BY DEF TypeInv, TypeOK, ExecTypeOK, BrokerTypeOK
<1>2. Len(filledOrders) \in Nat /\ DOMAIN filledOrders = 1..Len(filledOrders)
  BY <1>1
<1>3. longer \in Seq(Results) /\ Len(longer) = Len(filledOrders) + 1
  BY <1>1
<1>4. DOMAIN longer = 1..Len(filledOrders) + 1
  BY <1>2, <1>3
<1>5. \A i \in 1..Len(filledOrders) : longer[i] = filledOrders[i]
  BY <1>1
<1>6. longer[Len(filledOrders) + 1] = r
  BY <1>1
<1>7. \A i, j \in DOMAIN longer : i # j => longer[i].pid # longer[j].pid
  <2> SUFFICES ASSUME NEW i \in 1..Len(filledOrders) + 1, NEW j \in 1..Len(filledOrders) + 1, i # j
               PROVE  longer[i].pid # longer[j].pid
    BY <1>4
  <2>1. CASE i \in 1..Len(filledOrders) /\ j \in 1..Len(filledOrders)
    BY <2>1, <1>2, <1>5 DEF FilledOnce
  <2>2. CASE i = Len(filledOrders) + 1 /\ j \in 1..Len(filledOrders)
    BY <2>2, <1>2, <1>5, <1>6
  <2>3. CASE i \in 1..Len(filledOrders) /\ j = Len(filledOrders) + 1
    BY <2>3, <1>2, <1>5, <1>6
  <2> QED
    BY <2>1, <2>2, <2>3, <1>2
<1> HIDE DEF longer
<1>8. Len(longer) > 0 /\ DOMAIN Tail(longer) = 1..Len(longer) - 1
      /\ \A i \in 1..Len(longer) - 1 : Tail(longer)[i] = longer[i + 1]
  BY <1>2, <1>3
<1>9. \A i, j \in DOMAIN Tail(longer) : i # j => Tail(longer)[i].pid # Tail(longer)[j].pid
  <2> SUFFICES ASSUME NEW i \in 1..Len(longer) - 1, NEW j \in 1..Len(longer) - 1, i # j
               PROVE  longer[i + 1].pid # longer[j + 1].pid
    BY <1>8
  <2>1. i + 1 \in DOMAIN longer /\ j + 1 \in DOMAIN longer /\ i + 1 # j + 1
    BY <1>2, <1>3, <1>4
  <2> QED
    BY <2>1, <1>7
<1>10. filledOrders' = Tail(longer) \/ filledOrders' = longer
  BY DEF Remember, longer
<1> QED
  BY <1>7, <1>9, <1>10 DEF FilledOnce

LEMMA PlaceOnce == ASSUME FillInv, PlaceOrder PROVE FilledOnce' /\ order' = None
<1> USE DEF FillInv
<1>1. order # None /\ order' = None
  BY DEF PlaceOrder, RefuseUnusable, RefuseStacking, RefuseUnfunded, FillClose, FillOpen, Placing
<1>2. CASE filledOrders' = filledOrders
  BY <1>1, <1>2 DEF FilledOnce
<1>3. CASE Remember(filling') /\ filling'.pid = order.id
  BY <1>1, <1>3, PlaceType, RememberedOnce
<1>4. CASE FillClose
  <2>1. PICK p : filling' = ClosingFill(order.id, order.symbol, p) /\ Remember(filling')
    BY <1>4 DEF FillClose
  <2>2. filling'.pid = order.id
    BY <2>1, Zenon DEF ClosingFill, NextResult, Result
  <2> QED
    BY <2>1, <2>2, <1>3
<1>5. CASE FillOpen
  <2>1. PICK actual : /\ filling' = NextResult(order.id, order.symbol, order.side, TRUE, actual, 0)
                      /\ Remember(filling')
    BY <1>5, Zenon DEF FillOpen
  <2>2. filling'.pid = order.id
    BY <2>1, Zenon DEF NextResult, Result
  <2>3. Remember(filling')
    BY <2>1
  <2> QED
    BY <2>2, <2>3, <1>3
<1> QED
  BY <1>1, <1>2, <1>4, <1>5 DEF PlaceOrder, RefuseUnusable, RefuseStacking, RefuseUnfunded,
                                Refused, Refuse

LEMMA NextFillInv == FillInv /\ [Next]_vars => FillInv'
<1> SUFFICES ASSUME FillInv, [Next]_vars PROVE FillInv'
  OBVIOUS
<1>1. TypeInv'
  BY NextTypeInv DEF FillInv
<1>2. CASE UNCHANGED <<filledOrders, order>>
  BY <1>1, <1>2 DEF FillInv, FilledOnce
<1>3. CASE UNCHANGED execVars
  BY <1>2, <1>3 DEF execVars, brokerVars, loopVars
<1>4. CASE BeginOrder
  <2>1. /\ filledOrders' = filledOrders /\ order' = Head(assessments)
        /\ Cached(order'.id) = {}
    BY <1>4 DEF BeginOrder, brokerVars
  <2> QED
    BY <1>1, <2>1 DEF FillInv, FilledOnce, Cached
<1>5. CASE PlaceOrder
  BY <1>1, <1>5, PlaceOnce DEF FillInv
<1>6. CASE SkipRejected \/ ReplayFilled \/ Publishing
  BY <1>2, <1>6 DEF SkipRejected, ReplayFilled, Publishing, PublishResult, PublishResultFails,
                    ExecHearsOverride, ExecLeaves, brokerVars, loopVars
<1>7. CASE Monitoring
  BY <1>2, <1>7 DEF Monitoring, MonitorChecks, MonitorScan, MonitorPass, MonitorClose, MonitorPublish,
                    MonitorPublishFails, MonitorStep, brokerVars, loopVars
<1>8. ASSUME NEW s \in Symbols, Propose(s) PROVE UNCHANGED execVars
  BY <1>8 DEF Propose
<1> QED
  BY <1>3, <1>4, <1>5, <1>6, <1>7, <1>8 DEF Next, ExecStep, vars, Publishing, Monitoring

\* place_order is idempotent (paper_broker.py:269-273): no two remembered fills
\* answer the same proposal, however often assessments are repeated and
\* whatever the monitor closes meanwhile.
THEOREM OrdersFillOnce == Spec => []FilledOnce
<1>1. Init => FillInv
  <2> SUFFICES ASSUME Init PROVE FillInv
    OBVIOUS
  <2>1. filledOrders = <<>> /\ order = None
    BY DEF Init, ExecInit, BrokerInit
  <2> QED
    BY <2>1, InitTypeInv DEF FillInv, FilledOnce
<1>2. FillInv => FilledOnce
  BY DEF FillInv
<1> QED
  BY <1>1, <1>2, NextFillInv, PTL DEF Spec

--------------------------------------------------------------------------------
(***************************************************************************)
(* Queues as sets of messages.                                             *)
(***************************************************************************)

\* Publishing adds the message to the channel.
LEMMA MessagesAppend ==
    ASSUME NEW S, NEW q \in Seq(S), NEW x \in S
    PROVE  Messages(Append(q, x)) = Messages(q) \cup {x}
<1> DEFINE p == Append(q, x)
<1>1. p \in Seq(S) /\ Len(p) = Len(q) + 1 /\ Len(q) \in Nat
  OBVIOUS
<1>2. DOMAIN p = 1..Len(q) + 1 /\ DOMAIN q = 1..Len(q)
  BY <1>1
<1>3. \A i \in 1..Len(q) : p[i] = q[i]
  OBVIOUS
<1>4. p[Len(q) + 1] = x
  OBVIOUS
<1>5. 1..Len(q) + 1 = 1..Len(q) \cup {Len(q) + 1}
  BY <1>1
<1> HIDE DEF p
<1>6. \A i \in DOMAIN p : p[i] \in Messages(q) \cup {x}
  BY <1>2, <1>3, <1>4, <1>5 DEF Messages
<1>7. \A i \in DOMAIN q : i \in DOMAIN p /\ p[i] = q[i]
  BY <1>2, <1>3, <1>5
<1>8. Len(q) + 1 \in DOMAIN p
  BY <1>2, <1>5
<1>9. Messages(p) \subseteq Messages(q) \cup {x}
  BY <1>6 DEF Messages
<1>10. Messages(q) \cup {x} \subseteq Messages(p)
  BY <1>4, <1>7, <1>8 DEF Messages
<1> QED
  BY <1>9, <1>10 DEF p

\* Receiving removes the head.
LEMMA MessagesTail ==
    ASSUME NEW S, NEW q \in Seq(S), q # <<>>
    PROVE  /\ Head(q) \in Messages(q)
           /\ Messages(Tail(q)) \subseteq Messages(q)
           /\ Messages(q) = Messages(Tail(q)) \cup {Head(q)}
<1> DEFINE t == Tail(q)
<1>1. Len(q) \in Nat /\ Len(q) > 0 /\ DOMAIN q = 1..Len(q) /\ Head(q) = q[1]
  OBVIOUS
<1>2. DOMAIN t = 1..Len(q) - 1 /\ \A i \in 1..Len(q) - 1 : t[i] = q[i + 1]
  OBVIOUS
<1>3. \A i \in DOMAIN t : i + 1 \in DOMAIN q
  BY <1>1, <1>2
<1>4. ASSUME NEW i \in DOMAIN q, i # 1 PROVE i - 1 \in DOMAIN t /\ t[i - 1] = q[i]
  <2>1. i - 1 \in 1..Len(q) - 1 /\ (i - 1) + 1 = i
    BY <1>1, <1>4
  <2>2. t[i - 1] = q[(i - 1) + 1]
    BY <2>1, <1>2
  <2> QED
    BY <2>1, <2>2, <1>2
<1>5. 1 \in DOMAIN q
  BY <1>1
<1> HIDE DEF t
<1>6. Head(q) \in Messages(q)
  BY <1>1, <1>5 DEF Messages
<1>7. Messages(t) \subseteq Messages(q)
  BY <1>2, <1>3 DEF Messages
<1>8. ASSUME NEW i \in DOMAIN q PROVE q[i] \in Messages(t) \cup {Head(q)}
  <2>1. CASE i = 1
    BY <2>1, <1>1
  <2>2. CASE i # 1
    BY <2>2, <1>4 DEF Messages
  <2> QED
    BY <2>1, <2>2
<1>9. Messages(q) \subseteq Messages(t) \cup {Head(q)}
  BY <1>8 DEF Messages
<1> QED
  BY <1>6, <1>7, <1>9 DEF t

\* A bounded memory never remembers more than it was told.
LEMMA MessagesRemembered ==
    ASSUME NEW S, NEW q \in Seq(S), NEW x \in S, NEW max \in Nat
    PROVE  Messages(Remembered(q, x, max)) \subseteq Messages(q) \cup {x}
<1>1. Append(q, x) \in Seq(S) /\ Append(q, x) # <<>>
  <2>1. Len(Append(q, x)) = Len(q) + 1 /\ Len(q) \in Nat /\ Len(<<>>) = 0
    OBVIOUS
  <2>2. Append(q, x) # <<>>
    BY <2>1
  <2> QED
    BY <2>2
<1>2. Messages(Tail(Append(q, x))) \subseteq Messages(Append(q, x))
  BY <1>1, MessagesTail
<1>3. Messages(Append(q, x)) = Messages(q) \cup {x}
  BY MessagesAppend
<1> QED
  BY <1>2, <1>3 DEF Remembered

--------------------------------------------------------------------------------
(***************************************************************************)
(* What the steps do, whatever is in flight.                               *)
(***************************************************************************)
LEMMA NoneApart == None \notin Assessments /\ None \notin Results
  BY BusAssumption DEF Assessments, Results

LEMMA CarriedType ==
    ASSUME TypeInv
    PROVE  Requested \subseteq Assessments /\ Reported \subseteq Results
<1>1. assessments \in Seq(Assessments) /\ results \in Seq(Results)
  BY DEF TypeInv, TypeOK, BusTypeOK
<1>2. Messages(assessments) \subseteq Assessments /\ Messages(results) \subseteq Results
  BY <1>1 DEF Messages
<1> QED
  BY <1>2 DEF Requested, Reported, TypeInv, TypeOK, RiskTypeOK, ExecTypeOK

Books == <<held, cost, bheld, bcost>>

\* A step that concerns symbol s only.
Only(s) ==
    \A t \in Symbols : t # s =>
        /\ held'[t] = held[t] /\ cost'[t] = cost[t]
        /\ bheld'[t] = bheld[t] /\ bcost'[t] = bcost[t]

LEMMA VerdictFields ==
    ASSUME TypeInv, NEW s, NEW side, NEW size, NEW approved, Verdict(s, side, size, approved)
    PROVE  /\ outgoing'.id = proposed + 1 /\ outgoing'.symbol = s /\ outgoing'.side = side
           /\ outgoing'.size = size /\ outgoing'.approved = approved
  BY DEF Verdict, Assessment

LEMMA ProposeShape ==
    ASSUME TypeInv, NEW s \in Symbols, Propose(s)
    PROVE  /\ outgoing = None /\ proposed' = proposed + 1 /\ riskRunning
           /\ outgoing'.id = proposed + 1 /\ outgoing'.symbol = s
           /\ UNCHANGED <<bus, execVars, seen, riskRunning, riskErrors>>
           /\ breaker => breaker'
           /\ \/ ~outgoing'.approved /\ UNCHANGED ledger
              \/ /\ outgoing'.approved /\ ~breaker'
                 /\ held[s] = Opposite(outgoing'.side)
                 /\ outgoing'.side \in Sides
                 /\ UNCHANGED ledger
              \/ /\ outgoing'.approved /\ ~breaker'
                 /\ held[s] = "flat" /\ OpenPositionsCount < MaxOpenPositions
                 /\ outgoing'.side \in Sides
                 /\ OpenPosition(s, outgoing'.size, outgoing'.side)
           /\ haltStep' # "none" => haltStep' = haltStep \/ breaker'
           /\ outgoing'.approved => ~breaker'
<1>1. PICK side \in Sides :
         \/ RejectHalted(s, side)
         \/ RejectBreach(s, side)
         \/ \E stale \in BOOLEAN : RejectScreened(s, side, stale)
         \/ ApproveClose(s, side)
         \/ \E requested \in Requests, stop \in Stops : ApproveOpen(s, side, requested, stop)
  BY DEF Propose, Evaluate
<1>2. TakeProposal /\ UNCHANGED execVars
  BY <1>1, Zenon DEF Propose, RejectHalted, RejectBreach, RejectScreened, ApproveClose,
                     ApproveOpen, Screened
<1>3. PICK size, approved : Verdict(s, side, size, approved)
  BY <1>1, Zenon DEF RejectHalted, RejectBreach, RejectScreened, ApproveClose, ApproveOpen
<1>4. outgoing'.id = proposed + 1 /\ outgoing'.symbol = s /\ outgoing'.side = side
  BY <1>3, VerdictFields
<1>5. CASE RejectHalted(s, side)
  <2>1. ~outgoing'.approved /\ UNCHANGED <<ledger, breaker, haltStep>>
    BY <1>5, VerdictFields, Zenon DEF RejectHalted
  <2> QED
    BY <2>1, <1>2, <1>4 DEF TakeProposal
<1>6. CASE RejectBreach(s, side)
  <2>1. ~outgoing'.approved /\ UNCHANGED ledger /\ breaker'
    BY <1>6, VerdictFields, Zenon DEF RejectBreach
  <2> QED
    BY <2>1, <1>2, <1>4 DEF TakeProposal
<1>7. ASSUME NEW stale \in BOOLEAN, RejectScreened(s, side, stale)
      PROVE  ~outgoing'.approved /\ UNCHANGED <<ledger, breaker, haltStep>>
  BY <1>7, VerdictFields, Zenon DEF RejectScreened, Screened
<1>8. CASE ApproveClose(s, side)
  <2>1. /\ outgoing'.approved
        /\ ~breaker' /\ held[s] = Opposite(side) /\ UNCHANGED <<ledger, breaker, haltStep>>
    BY <1>8, VerdictFields, Zenon DEF ApproveClose, Screened
  <2> QED
    BY <2>1, <1>2, <1>4 DEF TakeProposal
<1>9. ASSUME NEW requested \in Requests, NEW stop \in Stops,
             ApproveOpen(s, side, requested, stop)
      PROVE  /\ outgoing'.approved
             /\ ~breaker' /\ held[s] = "flat" /\ OpenPositionsCount < MaxOpenPositions
             /\ OpenPosition(s, outgoing'.size, side)
             /\ UNCHANGED <<breaker, haltStep>>
  <2>1. PICK n \in 1..requested : OpenPosition(s, n, side) /\ Verdict(s, side, n, TRUE)
    BY <1>9, Zenon DEF ApproveOpen
  <2>2. outgoing'.size = n /\ outgoing'.approved
    BY <2>1, VerdictFields, Zenon
  <2>3. UNCHANGED <<breaker, haltStep>> /\ ~breaker
    BY <1>9, Zenon DEF ApproveOpen, Screened
  <2> QED
    BY <1>9, <2>1, <2>2, <2>3, Zenon DEF ApproveOpen
<1> QED
  BY <1>1, <1>2, <1>4, <1>5, <1>6, <1>7, <1>8, <1>9 DEF TakeProposal

\* What the broker does with an order, whatever Risk believes.
LEMMA PlaceAnswer ==
    ASSUME TypeInv, PlaceOrder, UNCHANGED riskVars
    PROVE  LET s == order.symbol
               f == filling'
           IN  /\ Placing /\ order # None /\ order \in Assessments
               /\ s \in Symbols /\ order.side \in Sides /\ order.id \in Nat
               /\ Only(s)
               /\ held' = held /\ cost' = cost /\ issued' = issued + 1
               /\ f.symbol = s /\ f.id = issued + 1 /\ f.side = order.side /\ f.pid = order.id
               /\ \/ ~f.filled /\ UNCHANGED <<bheld, bcost, filledOrders>>
                  \/ /\ f.filled /\ Remember(f)
                     /\ \/ /\ bheld[s] = Opposite(f.side)
                           /\ bheld'[s] = "flat" /\ bcost'[s] = 0
                        \/ /\ bheld[s] = "flat"
                           /\ bheld'[s] = f.side /\ bcost'[s] = f.cost
<1> DEFINE s == order.symbol
<1>1. Placing /\ order # None
  BY DEF PlaceOrder, RefuseUnusable, RefuseStacking, RefuseUnfunded, FillClose, FillOpen, Placing
<1>2. order \in Assessments
  BY <1>1 DEF TypeInv, TypeOK, ExecTypeOK
<1>3. s \in Symbols /\ order.side \in Sides /\ order.id \in Nat
  BY <1>2 DEF Assessments
<1>4. held' = held /\ cost' = cost
  BY DEF riskVars, ledger
<1>5. bheld \in [Symbols -> Positions] /\ bcost \in [Symbols -> Int]
  BY DEF TypeInv, TypeOK, ExecTypeOK, BrokerTypeOK
<1>6. CASE Refused(order)
  <2>1. /\ UNCHANGED <<bheld, bcost, filledOrders>> /\ issued' = issued + 1
        /\ filling' = NextResult(order.id, s, order.side, FALSE, 0, 0)
    BY <1>6, Zenon DEF Refused, Refuse
  <2>2. /\ filling'.symbol = s /\ filling'.id = issued + 1 /\ filling'.side = order.side
        /\ filling'.pid = order.id /\ ~filling'.filled
    BY <2>1, Zenon DEF NextResult, Result
  <2>3. UNCHANGED <<bheld, bcost, filledOrders>> /\ issued' = issued + 1
    BY <2>1
  <2> QED
    BY <2>2, <2>3, <1>1, <1>2, <1>3, <1>4 DEF Only
<1>7. CASE FillClose
  <2>1. PICK p \in Pnls(s) :
           Close(s, p) /\ filling' = ClosingFill(order.id, s, p) /\ Remember(filling')
    BY <1>7 DEF FillClose
  <2>2. bheld[s] = Opposite(order.side)
    BY <1>7 DEF FillClose
  <2>3. /\ filling'.symbol = s /\ filling'.id = issued + 1 /\ filling'.pid = order.id
        /\ filling'.side = Opposite(bheld[s]) /\ filling'.filled
    BY <2>1, Zenon DEF ClosingFill, NextResult, Result
  <2>4. /\ bheld'[s] = "flat" /\ bcost'[s] = 0 /\ issued' = issued + 1
        /\ \A t \in Symbols : t # s => bheld'[t] = bheld[t] /\ bcost'[t] = bcost[t]
    BY <2>1, <1>3, <1>5 DEF Close
  <2>5. filling'.side = order.side
    BY <2>2, <2>3, <1>3 DEF Opposite
  <2>6. Remember(filling')
    BY <2>1
  <2>7. Only(s)
    BY <2>4, <1>4 DEF Only
  <2> QED
    BY <2>2, <2>3, <2>4, <2>5, <2>6, <2>7, <1>1, <1>2, <1>3, <1>4
<1>8. CASE FillOpen
  <2>1. PICK actual \in FillCosts(order.size) :
           /\ Open(s, order.side, actual)
           /\ filling' = NextResult(order.id, s, order.side, TRUE, actual, 0)
           /\ Remember(filling')
    BY <1>8 DEF FillOpen
  <2>2. bheld[s] = "flat"
    BY <1>8 DEF FillOpen
  <2>3. /\ filling'.symbol = s /\ filling'.id = issued + 1 /\ filling'.pid = order.id
        /\ filling'.side = order.side /\ filling'.filled /\ filling'.cost = actual
    BY <2>1, Zenon DEF NextResult, Result
  <2>4. /\ bheld'[s] = order.side /\ bcost'[s] = actual /\ issued' = issued + 1
        /\ \A t \in Symbols : t # s => bheld'[t] = bheld[t] /\ bcost'[t] = bcost[t]
    BY <2>1, <1>3, <1>5 DEF Open
  <2>5. Remember(filling')
    BY <2>1
  <2>6. Only(s)
    BY <2>4, <1>4 DEF Only
  <2> QED
    BY <2>2, <2>3, <2>4, <2>5, <2>6, <1>1, <1>2, <1>3, <1>4
<1> QED
  BY <1>6, <1>7, <1>8 DEF PlaceOrder, RefuseUnusable, RefuseStacking, RefuseUnfunded

--------------------------------------------------------------------------------
(***************************************************************************)
(* The two books under the assumption Calm: one order per symbol at a      *)
(* time, no stop-loss close, nothing lost.  Messages may be repeated.      *)
(***************************************************************************)
RInv == TypeInv /\ RepeatInv

\* Nothing is lost in a calm system.
LEMMA CalmFaults == ASSUME Calm, TypeInv PROVE ~Lose
  BY DEF Calm, TypeInv, TypeOK, BusTypeOK, Lose

LEMMA NoMonitorSteps == ASSUME Calm, TypeInv, Undisturbed PROVE ~Monitoring
<1>1. /\ monitorCloses \in 0..0 /\ scan = {} /\ closing = None /\ monitorAsleep
      /\ MaxMonitorCloses = 0
  BY DEF Calm, TypeInv, TypeOK, ExecTypeOK, Undisturbed
<1> QED
  BY <1>1 DEF Monitoring, MonitorChecks, MonitorScan, MonitorPass, MonitorClose, MonitorPublish,
              MonitorPublishFails

(***************************************************************************)
(* Queues with copies.                                                     *)
(***************************************************************************)

\* A queue keeps its order when a message that is not older is published ...
LEMMA InOrderAppend ==
    ASSUME NEW S, NEW q \in Seq(S), NEW x \in S, InOrder(q),
           \A m \in Messages(q) : m.id <= x.id
    PROVE  InOrder(Append(q, x))
<1>1. Len(q) \in Nat /\ DOMAIN q = 1..Len(q) /\ DOMAIN Append(q, x) = 1..Len(q) + 1
  OBVIOUS
<1>2. \A i \in 1..Len(q) : Append(q, x)[i] = q[i] /\ q[i] \in Messages(q)
  BY <1>1 DEF Messages
<1>3. Append(q, x)[Len(q) + 1] = x
  OBVIOUS
<1> SUFFICES ASSUME NEW i \in 1..Len(q) + 1, NEW j \in 1..Len(q) + 1, i < j
             PROVE  Append(q, x)[i].id <= Append(q, x)[j].id
  BY <1>1 DEF InOrder
<1>4. i \in 1..Len(q)
  BY <1>1
<1>5. CASE j = Len(q) + 1
  BY <1>2, <1>3, <1>4, <1>5
<1>6. CASE j \in 1..Len(q)
  BY <1>1, <1>2, <1>4, <1>6 DEF InOrder
<1> QED
  BY <1>1, <1>5, <1>6

\* ... when its head is received, which is not newer than the rest ...
LEMMA InOrderTail ==
    ASSUME NEW S, NEW q \in Seq(S), q # <<>>, InOrder(q)
    PROVE  InOrder(Tail(q)) /\ \A m \in Messages(Tail(q)) : Head(q).id <= m.id
<1>1. Len(q) \in Nat /\ Len(q) > 0 /\ DOMAIN q = 1..Len(q) /\ Head(q) = q[1]
  OBVIOUS
<1>2. DOMAIN Tail(q) = 1..Len(q) - 1 /\ \A i \in 1..Len(q) - 1 : Tail(q)[i] = q[i + 1]
  OBVIOUS
<1>3. \A i \in DOMAIN Tail(q) : i + 1 \in DOMAIN q /\ 1 < i + 1 /\ i \in Int
  BY <1>1, <1>2
<1>4. \A i, j \in DOMAIN Tail(q) : i < j => i + 1 < j + 1
  BY <1>2
<1>5. InOrder(Tail(q))
  BY <1>2, <1>3, <1>4 DEF InOrder
<1>6. 1 \in DOMAIN q
  BY <1>1
<1>7. ASSUME NEW i \in DOMAIN Tail(q) PROVE Head(q).id <= Tail(q)[i].id
  <2>1. i + 1 \in DOMAIN q /\ 1 < i + 1
    BY <1>3
  <2>2. q[1].id <= q[i + 1].id
    BY <2>1, <1>6 DEF InOrder
  <2> QED
    BY <2>2, <1>1, <1>2
<1> QED
  BY <1>5, <1>7 DEF Messages

\* ... and when its head is received twice.
LEMMA InOrderTwice ==
    ASSUME NEW S, NEW q \in Seq(S), q # <<>>, InOrder(q), \A m \in S : m.id \in Int
    PROVE  InOrder(Twice(q)) /\ Messages(Twice(q)) = Messages(q)
<1> DEFINE t == Twice(q)
<1>1. /\ Len(q) \in Nat /\ Len(q) > 0 /\ DOMAIN q = 1..Len(q) /\ Head(q) = q[1]
      /\ 1 \in DOMAIN q /\ \A i \in DOMAIN q : q[i] \in S
  OBVIOUS
<1>2. /\ DOMAIN t = 1..Len(q) + 1 /\ t[1] = q[1]
      /\ \A i \in 2..Len(q) + 1 : t[i] = q[i - 1]
  BY <1>1 DEF Twice
<1> DEFINE at(i) == IF i = 1 THEN 1 ELSE i - 1
<1>3. \A i \in 1..Len(q) + 1 : at(i) \in DOMAIN q /\ t[i] = q[at(i)]
  BY <1>1, <1>2
<1>4. \A i, j \in 1..Len(q) + 1 : i < j => at(i) < at(j) \/ at(i) = at(j)
  BY <1>1
<1>5. \A i \in DOMAIN q : i + 1 \in 1..Len(q) + 1 /\ at(i + 1) = i
  BY <1>1
<1> HIDE DEF t, at
<1>6. InOrder(t)
  <2> SUFFICES ASSUME NEW i \in 1..Len(q) + 1, NEW j \in 1..Len(q) + 1, i < j
               PROVE  t[i].id <= t[j].id
    BY <1>2 DEF InOrder
  <2>1. t[i] = q[at(i)] /\ t[j] = q[at(j)] /\ at(i) \in DOMAIN q /\ at(j) \in DOMAIN q
    BY <1>3
  <2>2. CASE at(i) < at(j)
    BY <2>1, <2>2 DEF InOrder
  <2>3. CASE at(i) = at(j)
    <3>1. q[at(i)].id \in Int
      BY <2>1, <1>1
    <3> QED
      BY <2>1, <2>3, <3>1
  <2> QED
    BY <2>2, <2>3, <1>4
<1>7. Messages(t) \subseteq Messages(q)
  BY <1>2, <1>3 DEF Messages
<1>8. Messages(q) \subseteq Messages(t)
  <2>1. \A i \in DOMAIN q : i + 1 \in DOMAIN t /\ t[i + 1] = q[i]
    BY <1>2, <1>3, <1>5
  <2> QED
    BY <2>1 DEF Messages
<1> QED
  BY <1>6, <1>7, <1>8 DEF t

\* A bounded memory remembers at least what it was told last.
LEMMA RememberedNewest ==
    ASSUME NEW S, NEW q \in Seq(S), NEW x \in S, NEW max \in Nat \ {0}
    PROVE  x \in Messages(Remembered(q, x, max))
<1> DEFINE longer == Append(q, x)
<1>1. longer \in Seq(S) /\ Len(longer) = Len(q) + 1 /\ Len(q) \in Nat
  OBVIOUS
<1>2. longer[Len(q) + 1] = x /\ Len(q) + 1 \in DOMAIN longer
  OBVIOUS
<1> HIDE DEF longer
<1>3. x \in Messages(longer)
  BY <1>2 DEF Messages
<1>4. ASSUME Len(longer) > max PROVE x \in Messages(Tail(longer))
  <2>1. Len(q) \in 1..Len(longer) - 1 /\ DOMAIN Tail(longer) = 1..Len(longer) - 1
    BY <1>1, <1>4
  <2>2. Tail(longer)[Len(q)] = longer[Len(q) + 1]
    BY <2>1, <1>1
  <2> QED
    BY <2>1, <2>2, <1>2 DEF Messages
<1> QED
  BY <1>3, <1>4 DEF Remembered, longer

(***************************************************************************)
(* What every step keeps.                                                  *)
(***************************************************************************)
LEMMA UndisturbedKept == ASSUME Calm, TypeInv, Undisturbed, [Next]_vars PROVE Undisturbed'
<1> USE DEF Undisturbed
<1>1. /\ ~Lose /\ ~newDay'
      /\ ~RiskQuarantined \/ ~riskRunning
  BY CalmFaults, NextTypeInv, BusAssumption DEF TypeInv, RiskQuarantined
<1>2. ~Monitoring
  BY NoMonitorSteps
<1>3. ASSUME NEW s \in Symbols, Propose(s) PROVE Undisturbed'
  BY <1>1, <1>3, ProposeShape DEF execVars, loopVars, monitorVars
<1>4. CASE RiskStep /\ UNCHANGED execVars
  <2>1. UNCHANGED <<scan, closing, monitorAsleep, order, filling>>
    BY <1>4 DEF execVars, loopVars, monitorVars
  <2>2. riskRunning' => riskErrors' = 0
    BY <1>1, <1>4 DEF RiskStep, WriteLatch, BroadcastOverride, EmergencyHaltFails,
       PublishAssessment, PublishAssessmentFails, RiskHearsOverride, RiskLeaves, ResultUnheard,
       ApplyExecutionResult, ResultDuplicate, ResultReleased, ResultIgnored, ResultClosed,
       ResultReconciled, ResultAdopted, TakeResult, halting, afterVerdict, riskVars
  <2> QED
    BY <1>1, <2>1, <2>2
<1>5. CASE ExecStep /\ UNCHANGED riskVars
  <2>1. UNCHANGED <<riskRunning, riskErrors>>
    BY <1>5 DEF riskVars
  <2>2. CASE SkipRejected \/ ReplayFilled \/ BeginOrder
    BY <1>1, <2>1, <2>2 DEF SkipRejected, ReplayFilled, BeginOrder, TakeAssessment, loopVars,
                            monitorVars
  <2>3. CASE PlaceOrder
    BY <1>1, <2>1, <2>3 DEF PlaceOrder, RefuseUnusable, RefuseStacking, RefuseUnfunded,
                            FillClose, FillOpen, Placing, monitorVars
  <2>4. CASE Publishing
    BY <1>1, <2>1, <2>4 DEF Publishing, PublishResult, PublishResultFails, ExecHearsOverride,
                            ExecLeaves, loopVars, monitorVars
  <2> QED
    BY <1>2, <1>5, <2>2, <2>3, <2>4 DEF ExecStep, Publishing, Monitoring
<1>6. CASE UNCHANGED <<riskVars, execVars>>
  BY <1>1, <1>6 DEF riskVars, execVars, loopVars, monitorVars
<1> QED
  BY <1>3, <1>4, <1>5, <1>6 DEF Next, vars

\* Neither agent starts again.
LEMMA BothRunKept ==
    ASSUME Undisturbed, riskRunning' => riskRunning, execRunning' => execRunning
    PROVE  BothRun' => BothRun
  BY BusAssumption DEF Undisturbed, BothRun, RiskQuarantined

LEMMA IdsType ==
    ASSUME TypeInv
    PROVE  /\ \A a \in Requested : a.id \in Nat /\ a.symbol \in Symbols /\ a.side \in Sides
           /\ \A r \in Reported : r.id \in Nat /\ r.symbol \in Symbols /\ r.side \in Sides
           /\ \A f \in Messages(filledOrders) : f \in Results /\ f.id \in Nat /\ f.pid \in Nat
           /\ \A id \in SeenIds : id \in Nat
           /\ issued \in Nat /\ proposed \in Nat
<1>1. Requested \subseteq Assessments /\ Reported \subseteq Results
  BY CarriedType
<1>2. Messages(filledOrders) \subseteq Results
  BY DEF Messages, TypeInv, TypeOK, ExecTypeOK, BrokerTypeOK
<1>3. \A id \in SeenIds : id \in Nat
  BY DEF SeenIds, TypeInv, TypeOK, RiskTypeOK
<1>4. issued \in Nat /\ proposed \in Nat
  BY RiskAssumption DEF TypeInv, TypeOK, RiskTypeOK, ExecTypeOK, BrokerTypeOK
<1> QED
  BY <1>1, <1>2, <1>3, <1>4 DEF Assessments, Results

(***************************************************************************)
(* Steps that move messages and leave both books alone.                    *)
(***************************************************************************)

\* An approval that is dropped had been answered, and no result is dropped that
\* was not applied.
LEMMA StandingKept ==
    ASSUME Standing, UNCHANGED Books, filledOrders' = filledOrders,
           Requested' \subseteq Requested,
           \A a \in Requested \ Requested' : ~Unanswered(a),
           Unheard' = Unheard,
           order' # None => order'.approved
    PROVE  Standing'
<1>1. /\ \A m : Stands(m)' = Stands(m)
      /\ \A m : FillStands(m)' = FillStands(m)
      /\ \A s : Agree(s)' = Agree(s)
  BY Zenon DEF Books, Stands, FillStands, Agree
<1>2. \A m : Unanswered(m)' = Unanswered(m)
  BY DEF Unanswered, Cached
<1>3. \A m : Superseded(m)' = Superseded(m)
  BY DEF Superseded
<1>4. \A s : Pending(s) => Pending(s)'
  BY <1>2 DEF Pending
<1>5. \A a \in Requested' : Unanswered(a)' => Stands(a)'
  BY <1>1, <1>2 DEF Standing
<1>6. \A r \in Unheard' : IF r.filled THEN FillStands(r)' ELSE Stands(r)' \/ Superseded(r)'
  BY <1>1, <1>3 DEF Standing
<1>7. \A s \in Symbols : ~Pending(s)' => Agree(s)'
  BY <1>1, <1>4 DEF Standing
<1> QED
  BY <1>5, <1>6, <1>7 DEF Standing

LEMMA OneProposalKept ==
    ASSUME OneProposal, Requested' \subseteq Requested, Reported' \subseteq Reported
    PROVE  OneProposal'
  BY DEF OneProposal

LEMMA RequestsKept ==
    ASSUME RequestsInOrder, Requested' = Requested,
           InOrder(assessments)', Messages(assessments)' = Messages(assessments),
           UNCHANGED <<outgoing, order, filledOrders, proposed>>
    PROVE  RequestsInOrder'
<1>1. Messages(filledOrders)' = Messages(filledOrders)
  BY DEF Messages
<1> QED
  BY <1>1 DEF RequestsInOrder

LEMMA ResultsKept ==
    ASSUME ResultsInOrder, Reported' = Reported,
           InOrder(results)', Messages(results)' = Messages(results),
           UNCHANGED <<filling, filledOrders, seen, issued>>
    PROVE  ResultsInOrder'
<1>1. Messages(filledOrders)' = Messages(filledOrders) /\ SeenIds' = SeenIds
  BY DEF Messages, SeenIds
<1> QED
  BY <1>1 DEF ResultsInOrder

LEMMA AnsweredKept ==
    ASSUME Answered, Requested' \subseteq Requested, Reported' = Reported,
           UNCHANGED <<filledOrders, issued, seen>>
    PROVE  Answered'
<1>1. /\ Messages(filledOrders)' = Messages(filledOrders) /\ SeenIds' = SeenIds
      /\ \A a : Unanswered(a)' = Unanswered(a)
  BY DEF Messages, SeenIds, Unanswered, Cached
<1> QED
  BY <1>1 DEF Answered

LEMMA FlatKept == FlatCostsNothing /\ UNCHANGED Books => FlatCostsNothing'
  BY DEF FlatCostsNothing, Books

LEMMA UnheardKept == Reported' = Reported /\ seen' = seen => Unheard' = Unheard
  BY DEF Unheard, SeenIds

\* The same messages are in flight, in the same order.
LEMMA SameMessages ==
    ASSUME Consistent, UNCHANGED Books,
           Requested' = Requested, Reported' = Reported,
           InOrder(assessments)', Messages(assessments)' = Messages(assessments),
           InOrder(results)', Messages(results)' = Messages(results),
           UNCHANGED <<outgoing, order, filling, filledOrders, proposed, seen, issued>>
    PROVE  Consistent'
<1>1. Unheard' = Unheard
  BY UnheardKept
<1>2. order' # None => order'.approved
  BY DEF Consistent, Standing
<1>3. Standing'
  BY <1>1, <1>2, StandingKept DEF Consistent
<1>4. OneProposal' /\ RequestsInOrder' /\ ResultsInOrder' /\ Answered' /\ FlatCostsNothing'
  BY OneProposalKept, RequestsKept, ResultsKept, AnsweredKept, FlatKept DEF Consistent
<1> QED
  BY <1>3, <1>4 DEF Consistent

\* A calm system in which both agents run.
Steady == Calm /\ TypeInv /\ Undisturbed /\ BothRun /\ Consistent

\* Publishing hands a message over; the halt moves none.
LEMMA AwaitsRepeat ==
    ASSUME Steady, Awaits, UNCHANGED execVars, BothRun'
    PROVE  Consistent'
<1> USE DEF Steady
<1>1. ~Lose /\ riskRunning /\ riskRunning' /\ ~RiskQuarantined
  BY CalmFaults DEF BothRun
<1>2. CASE WriteLatch \/ BroadcastOverride
  <2>1. /\ UNCHANGED <<Books, seen, proposed, results, assessments, outgoing>>
        /\ UNCHANGED <<filledOrders, issued, order, filling, closing>>
    BY <1>2 DEF WriteLatch, BroadcastOverride, halting, afterVerdict, ledger, channels,
                execVars, brokerVars, loopVars, monitorVars, Books
  <2>2. /\ Requested' = Requested /\ Reported' = Reported
        /\ Messages(assessments)' = Messages(assessments) /\ Messages(results)' = Messages(results)
    BY <2>1 DEF Requested, Reported, Messages
  <2>3. InOrder(assessments)' /\ InOrder(results)'
    BY <2>1 DEF Consistent, RequestsInOrder, ResultsInOrder, InOrder
  <2> QED
    BY <2>1, <2>2, <2>3, SameMessages
<1>3. CASE PublishAssessment
  <2>1. /\ outgoing # None /\ outgoing' = None
        /\ assessments' = Append(assessments, outgoing)
        /\ UNCHANGED <<Books, seen, proposed, results, filledOrders, issued, order, filling, closing>>
    BY <1>3 DEF PublishAssessment, afterVerdict, ledger, execVars, brokerVars, loopVars,
                monitorVars, Books
  <2>2. outgoing \in Assessments /\ assessments \in Seq(Assessments)
    BY <2>1 DEF TypeInv, TypeOK, RiskTypeOK, BusTypeOK
  <2>3. Messages(assessments)' = Messages(assessments) \cup {outgoing}
    <3>1. Messages(Append(assessments, outgoing)) = Messages(assessments) \cup {outgoing}
      BY <2>2, MessagesAppend
    <3> QED
      BY <2>1, <3>1 DEF Messages
  <2>4. Requested' = Requested
    BY <2>1, <2>3 DEF Requested
  <2>5. Reported' = Reported /\ Messages(results)' = Messages(results)
    BY <2>1 DEF Reported, Messages
  <2>6. \A a \in Messages(assessments) \cup ({order} \ {None}) : a.id <= outgoing.id
    <3>1. \A a \in Messages(assessments) \cup ({order} \ {None}) :
              a.id < outgoing.id /\ a.id \in Nat
      BY <2>1, IdsType DEF Consistent, RequestsInOrder, Requested
    <3> QED
      BY <3>1, <2>2 DEF Assessments
  <2>7. InOrder(assessments)'
    <3>1. InOrder(Append(assessments, outgoing))
      BY <2>2, <2>6, InOrderAppend DEF Consistent, RequestsInOrder
    <3> QED
      BY <2>1, <3>1 DEF InOrder
  <2>8. RequestsInOrder'
    <3>1. Messages(filledOrders)' = Messages(filledOrders)
      BY <2>1 DEF Messages
    <3>2. order' # None => \A a \in Messages(assessments)' : order'.id <= a.id
      BY <2>1, <2>3, <2>6 DEF Consistent, RequestsInOrder
    <3> QED
      BY <2>1, <2>4, <2>7, <3>1, <3>2 DEF Consistent, RequestsInOrder
  <2>9. ResultsInOrder'
    <3>1. InOrder(results)'
      BY <2>1 DEF Consistent, ResultsInOrder, InOrder
    <3> QED
      BY <2>1, <2>5, <3>1, ResultsKept DEF Consistent
  <2>10. Standing'
    <3>1. Unheard' = Unheard /\ (order' # None => order'.approved)
      BY <2>1, <2>5, UnheardKept DEF Consistent, Standing
    <3> QED
      BY <2>1, <2>4, <3>1, StandingKept DEF Consistent
  <2>11. OneProposal' /\ Answered' /\ FlatCostsNothing'
    BY <2>1, <2>4, <2>5, OneProposalKept, AnsweredKept, FlatKept DEF Consistent
  <2> QED
    BY <2>8, <2>9, <2>10, <2>11 DEF Consistent
<1>4. ~EmergencyHaltFails /\ ~PublishAssessmentFails
  BY <1>1 DEF EmergencyHaltFails, PublishAssessmentFails
<1>5. ~RiskHearsOverride /\ ~RiskLeaves /\ ~ResultUnheard
  BY <1>1 DEF RiskHearsOverride, RiskLeaves, ResultUnheard
<1> QED
  BY <1>2, <1>3, <1>4, <1>5 DEF Awaits

LEMMA PublishingRepeat ==
    ASSUME Steady, Publishing, UNCHANGED riskVars, BothRun'
    PROVE  Consistent'
<1> USE DEF Steady
<1>1. /\ PublishResult
  <2>1. ~Lose /\ execRunning /\ execRunning'
    BY CalmFaults DEF BothRun
  <2> QED
    BY <2>1 DEF Publishing, PublishResultFails, ExecHearsOverride, ExecLeaves
<1>2. /\ filling # None /\ filling' = None /\ results' = Append(results, filling)
      /\ UNCHANGED <<Books, seen, proposed, assessments, outgoing, filledOrders, issued, order, closing>>
  BY <1>1 DEF PublishResult, riskVars, ledger, brokerVars, monitorVars, Books
<1>3. filling \in Results /\ results \in Seq(Results)
  BY <1>2 DEF TypeInv, TypeOK, ExecTypeOK, BusTypeOK
<1>4. Messages(results)' = Messages(results) \cup {filling}
  <2>1. Messages(Append(results, filling)) = Messages(results) \cup {filling}
    BY <1>3, MessagesAppend
  <2> QED
    BY <1>2, <2>1 DEF Messages
<1>5. Reported' = Reported
  BY <1>2, <1>4 DEF Reported
<1>6. Requested' = Requested /\ Messages(assessments)' = Messages(assessments)
  BY <1>2 DEF Requested, Messages
<1>7. InOrder(results)'
  <2>1. InOrder(Append(results, filling))
    BY <1>2, <1>3, InOrderAppend DEF Consistent, ResultsInOrder
  <2> QED
    BY <1>2, <2>1 DEF InOrder
<1>8. RequestsInOrder'
  <2>1. InOrder(assessments)'
    BY <1>2 DEF Consistent, RequestsInOrder, InOrder
  <2> QED
    BY <1>2, <1>6, <2>1, RequestsKept DEF Consistent
<1>9. ResultsInOrder'
  <2>1. Messages(filledOrders)' = Messages(filledOrders) /\ SeenIds' = SeenIds
    BY <1>2 DEF Messages, SeenIds
  <2> QED
    BY <1>2, <1>5, <1>7, <2>1 DEF Consistent, ResultsInOrder
<1>10. Standing'
  <2>1. Unheard' = Unheard /\ (order' # None => order'.approved)
    BY <1>2, <1>5, UnheardKept DEF Consistent, Standing
  <2> QED
    BY <1>2, <1>6, <2>1, StandingKept DEF Consistent
<1>11. OneProposal' /\ Answered' /\ FlatCostsNothing'
  BY <1>2, <1>5, <1>6, OneProposalKept, AnsweredKept, FlatKept DEF Consistent
<1> QED
  BY <1>8, <1>9, <1>10, <1>11 DEF Consistent

\* A repeated message is in flight already.
LEMMA RedeliverRepeat ==
    ASSUME Steady, Redeliver, UNCHANGED <<riskVars, execVars>>
    PROVE  Consistent'
<1> USE DEF Steady
<1>1. /\ UNCHANGED <<Books, seen, proposed, outgoing, filledOrders, issued, order, filling, closing>>
      /\ assessments \in Seq(Assessments) /\ results \in Seq(Results)
  BY DEF riskVars, ledger, execVars, brokerVars, loopVars, monitorVars, Books, TypeInv, TypeOK,
         BusTypeOK
<1>2. /\ \A m \in Assessments : m.id \in Int
      /\ \A m \in Results : m.id \in Int
  BY DEF Assessments, Results
<1>3. InOrder(assessments) /\ InOrder(results)
  BY DEF Consistent, RequestsInOrder, ResultsInOrder
<1>4. /\ InOrder(assessments') /\ Messages(assessments') = Messages(assessments)
      /\ InOrder(results') /\ Messages(results') = Messages(results)
  <2>1. CASE /\ assessments # <<>> /\ assessments' = Twice(assessments) /\ results' = results
    BY <1>1, <1>2, <1>3, <2>1, InOrderTwice
  <2>2. CASE /\ results # <<>> /\ results' = Twice(results) /\ assessments' = assessments
    BY <1>1, <1>2, <1>3, <2>2, InOrderTwice
  <2> QED
    BY <2>1, <2>2 DEF Redeliver
<1>5. /\ InOrder(assessments)' /\ Messages(assessments)' = Messages(assessments)
      /\ InOrder(results)' /\ Messages(results)' = Messages(results)
  BY <1>4 DEF InOrder, Messages
<1>6. Requested' = Requested /\ Reported' = Reported
  BY <1>1, <1>5 DEF Requested, Reported
<1> QED
  BY <1>1, <1>5, <1>6, SameMessages

LEMMA StutterRepeat == ASSUME Consistent, UNCHANGED vars PROVE Consistent'
<1>1. UNCHANGED <<Books, seen, proposed, results, assessments, outgoing, filledOrders, issued, order,
                  filling, closing>>
  BY DEF vars, bus, channels, riskVars, ledger, execVars, brokerVars, loopVars, monitorVars, Books
<1>2. /\ Requested' = Requested /\ Reported' = Reported
      /\ Messages(assessments)' = Messages(assessments) /\ Messages(results)' = Messages(results)
  BY <1>1 DEF Requested, Reported, Messages
<1>3. InOrder(assessments)' /\ InOrder(results)'
  BY <1>1 DEF Consistent, RequestsInOrder, ResultsInOrder, InOrder
<1> QED
  BY <1>1, <1>2, <1>3, SameMessages

(***************************************************************************)
(* Execution takes an assessment.                                          *)
(***************************************************************************)
LEMMA TakeRepeat ==
    ASSUME Steady, SkipRejected \/ ReplayFilled \/ BeginOrder, UNCHANGED riskVars
    PROVE  Consistent' /\ Unheard' = Unheard
<1> USE DEF Steady
<1>1. PICK a : a = Head(assessments)
  OBVIOUS
<1>2. /\ TakeAssessment
      /\ UNCHANGED <<Books, filledOrders, issued, outgoing, proposed, seen, results, closing>>
  BY DEF SkipRejected, ReplayFilled, BeginOrder, TakeAssessment, riskVars, ledger, brokerVars,
         monitorVars, Books
<1>3. /\ assessments \in Seq(Assessments) /\ assessments # <<>>
      /\ assessments' = Tail(assessments)
      /\ order = None /\ filling = None /\ closing = None
  BY <1>2 DEF TakeAssessment, TypeInv, TypeOK, BusTypeOK, Undisturbed
<1>4. /\ a \in Assessments /\ a \in Messages(assessments)
      /\ Messages(assessments) = Messages(Tail(assessments)) \cup {a}
  BY <1>1, <1>3, TailType, MessagesTail
<1>5. a \in Requested /\ a.id \in Nat /\ a # None
  BY <1>4, NoneApart DEF Requested, Assessments
<1>6. /\ Messages(assessments)' = Messages(Tail(assessments))
      /\ Messages(results)' = Messages(results)
      /\ Messages(filledOrders)' = Messages(filledOrders)
      /\ SeenIds' = SeenIds
  BY <1>2, <1>3 DEF Messages, SeenIds
<1>7. InOrder(assessments)' /\ \A m \in Messages(assessments)' : a.id <= m.id
  <2>1. InOrder(Tail(assessments)) /\ \A m \in Messages(Tail(assessments)) : a.id <= m.id
    BY <1>1, <1>3, InOrderTail DEF Consistent, RequestsInOrder
  <2> QED
    BY <2>1, <1>3, <1>6 DEF InOrder
<1>8. InOrder(results)'
  BY <1>2 DEF Consistent, ResultsInOrder, InOrder
<1>9. FlatCostsNothing'
  BY <1>2, FlatKept DEF Consistent
<1>10. ASSUME order' = a \/ order' = None,
              order' = a => \A f \in Messages(filledOrders) : f.pid # a.id
       PROVE  /\ Requested' \subseteq Requested /\ Requested \ Requested' \subseteq {a}
              /\ order' = a => Requested' = Requested
              /\ RequestsInOrder'
  <2>1. Requested = Messages(Tail(assessments)) \cup {a} \cup ({outgoing} \ {None})
    BY <1>3, <1>4, <1>5 DEF Requested
  <2>2. Requested' = Messages(Tail(assessments)) \cup ({outgoing, order'} \ {None})
    BY <1>2, <1>6 DEF Requested
  <2>3. /\ Requested' \subseteq Requested /\ Requested \ Requested' \subseteq {a}
        /\ order' = a => Requested' = Requested
    BY <2>1, <2>2, <1>5, <1>10
  <2>4. outgoing' # None =>
            /\ \A m \in (Messages(assessments) \cup ({order} \ {None}))' : m.id < outgoing'.id
            /\ \A f \in Messages(filledOrders)' : f.pid < outgoing'.id
    <3>1. outgoing # None =>
              /\ \A m \in Messages(assessments) : m.id < outgoing.id
              /\ \A f \in Messages(filledOrders) : f.pid < outgoing.id
      BY DEF Consistent, RequestsInOrder
    <3>2. (Messages(assessments) \cup ({order} \ {None}))' \subseteq Messages(assessments)
      BY <1>4, <1>6, <1>10
    <3> QED
      BY <3>1, <3>2, <1>2, <1>6
  <2>5. order' # None =>
            /\ \A m \in Messages(assessments)' : order'.id <= m.id
            /\ \A f \in Messages(filledOrders)' : f.pid # order'.id
    BY <1>6, <1>7, <1>10
  <2>6. /\ \A m, n \in Requested' : m.id = n.id => m = n
        /\ \A m \in Requested' : m.id <= proposed'
        /\ \A f \in Messages(filledOrders)' :
               f.pid <= proposed' /\ \A m \in Requested' : f.pid <= m.id
    BY <2>3, <1>2, <1>6 DEF Consistent, RequestsInOrder
  <2> QED
    BY <2>3, <2>4, <2>5, <2>6, <1>7 DEF RequestsInOrder
<1>11. ASSUME filling' = None, order' = a \/ order' = None,
              order' = a => a.approved /\ \A f \in Messages(filledOrders) : f.pid # a.id,
              order' = None => ~Unanswered(a)
       PROVE  Consistent' /\ Unheard' = Unheard
  <2>1. /\ Requested' \subseteq Requested /\ Requested \ Requested' \subseteq {a}
        /\ order' = a => Requested' = Requested
        /\ RequestsInOrder'
    BY <1>10, <1>11
  <2>2. Reported' = Reported
    BY <1>2, <1>3, <1>6, <1>11 DEF Reported
  <2>3. Unheard' = Unheard
    BY <2>2, <1>2, UnheardKept
  <2>4. \A m \in Requested \ Requested' : ~Unanswered(m)
    BY <2>1, <1>11
  <2>5. Standing'
    BY <2>1, <2>3, <2>4, <1>2, <1>11, StandingKept DEF Consistent
  <2>6. ResultsInOrder'
    BY <2>2, <1>2, <1>3, <1>6, <1>8, <1>11, ResultsKept DEF Consistent
  <2>7. OneProposal' /\ Answered'
    BY <2>1, <2>2, <1>2, OneProposalKept, AnsweredKept DEF Consistent
  <2> QED
    BY <2>1, <2>3, <2>5, <2>6, <2>7, <1>9 DEF Consistent
<1>12. CASE SkipRejected
  <2>1. ~a.approved /\ order' = None /\ filling' = None
    BY <1>1, <1>3, <1>12 DEF SkipRejected, loopVars
  <2> QED
    BY <2>1, <1>5, <1>11 DEF Unanswered
<1>13. CASE BeginOrder
  <2>1. a.approved /\ Cached(a.id) = {} /\ order' = a /\ filling' = None
    BY <1>1, <1>3, <1>13 DEF BeginOrder
  <2>2. \A f \in Messages(filledOrders) : f.pid # a.id
    BY <2>1 DEF Cached, Messages
  <2> QED
    BY <2>1, <2>2, <1>5, <1>11
<1>14. CASE ReplayFilled
  <2>1. PICK i \in Cached(a.id) : filling' = filledOrders[i]
    BY <1>1, <1>14 DEF ReplayFilled
  <2>2. order' = None
    BY <1>3, <1>14 DEF ReplayFilled
  <2>3. PICK f : f = filledOrders[i]
    OBVIOUS
  <2>4. f \in Messages(filledOrders) /\ f.pid = a.id /\ filling' = f
    BY <2>1, <2>3 DEF Cached, Messages
  <2>5. /\ f \in Results /\ f.id \in Nat /\ issued \in Nat /\ f # None
        /\ f.filled /\ f.symbol = a.symbol /\ f.side = a.side /\ f.id = issued
        /\ f \in Reported \/ f.id \in SeenIds
    BY <2>4, <1>5, IdsType, NoneApart DEF Consistent, Answered
  <2>6. Reported' = Reported \cup {f}
    BY <2>4, <2>5, <1>2, <1>3, <1>6 DEF Reported
  <2>7. Reported = {} \/ f \in Reported
    <3>1. SUFFICES ASSUME f \notin Reported, NEW r \in Reported PROVE FALSE
      OBVIOUS
    <3>2. f.id <= r.id
      BY <2>5, <3>1 DEF Consistent, ResultsInOrder
    <3>3. r.id \in Nat /\ r.id <= issued
      BY IdsType DEF Consistent, ResultsInOrder
    <3>4. f.id = r.id
      BY <3>2, <3>3, <2>5
    <3> QED
      BY <3>1, <3>4, <2>4 DEF Consistent, ResultsInOrder
  <2>8. Unheard' = Unheard
    BY <2>5, <2>6, <1>6 DEF Unheard
  <2>9. Requested' \subseteq Requested /\ Requested \ Requested' \subseteq {a} /\ RequestsInOrder'
    BY <2>2, <1>5, <1>10
  <2>10. a.approved /\ ~Unanswered(a)
    BY <2>1, <1>1, <1>14 DEF ReplayFilled, Unanswered
  <2>11. Standing'
    <3>1. \A m \in Requested \ Requested' : ~Unanswered(m)
      BY <2>9, <2>10
    <3> QED
      BY <2>2, <2>8, <2>9, <3>1, <1>2, StandingKept DEF Consistent
  <2>12. \A m \in Requested' : m.symbol = f.symbol => m = a
    BY <2>5, <2>9, <1>5 DEF Consistent, OneProposal
  <2>13. OneProposal'
    <3>1. \A m, n \in Requested' : m.symbol = n.symbol => m = n
      BY <2>9 DEF Consistent, OneProposal
    <3>2. \A m \in Requested', r \in Reported' :
              m.symbol = r.symbol => m.approved /\ m.side = r.side
      BY <2>5, <2>6, <2>9, <2>10, <2>12 DEF Consistent, OneProposal
    <3>3. \A r, q \in Reported' :
              r.symbol = q.symbol =>
                  r.side = q.side /\ (r.filled => q = r \/ (~q.filled /\ q.id < r.id))
      BY <2>6, <2>7 DEF Consistent, OneProposal
    <3> QED
      BY <3>1, <3>2, <3>3 DEF OneProposal
  <2>14. ResultsInOrder'
    <3>1. /\ \A r \in Reported \cup Messages(filledOrders) : r.id <= issued /\ (f.id = r.id => f = r)
          /\ \A id \in SeenIds : id <= issued
      BY <2>4 DEF Consistent, ResultsInOrder
    <3>2. \A r, q \in Reported' : r.id = q.id => r = q
      BY <2>6, <3>1 DEF Consistent, ResultsInOrder
    <3>3. \A r \in Reported' : r.id <= issued'
      BY <2>5, <2>6, <3>1, <1>2
    <3>4. \A r \in Messages(results)' : r.id <= filling'.id
      BY <2>4, <2>5, <3>1, <1>6 DEF Reported
    <3>5. \A id \in SeenIds' : id <= issued' /\ \A r \in Reported' : id <= r.id
      BY <2>5, <2>6, <3>1, <1>2, <1>6 DEF Consistent, ResultsInOrder
    <3>6. \A g \in Messages(filledOrders)' :
              /\ g.id <= issued'
              /\ \A r \in (Reported \cup Messages(filledOrders))' : g.id = r.id => g = r
      BY <2>6, <3>1, <1>2, <1>6 DEF Consistent, ResultsInOrder
    <3> QED
      BY <3>2, <3>3, <3>4, <3>5, <3>6, <1>8 DEF ResultsInOrder
  <2>15. Answered'
    <3>1. \A m : Unanswered(m)' = Unanswered(m)
      BY <1>2 DEF Unanswered, Cached
    <3> QED
      BY <2>6, <2>9, <2>10, <2>12, <3>1, <1>2, <1>6 DEF Consistent, Answered
  <2> QED
    BY <2>8, <2>9, <2>11, <2>13, <2>14, <2>15, <1>9 DEF Consistent
<1> QED
  BY <1>12, <1>13, <1>14

(***************************************************************************)
(* Steps about one symbol.                                                 *)
(***************************************************************************)
LEMMA StandsElsewhere ==
    ASSUME NEW s \in Symbols, Only(s), NEW m, m.symbol \in Symbols, m.symbol # s
    PROVE  /\ Stands(m) => Stands(m)'
           /\ FillStands(m) => FillStands(m)'
           /\ Agree(m.symbol) => Agree(m.symbol)'
<1> DEFINE t == m.symbol
<1>1. held'[t] = held[t] /\ cost'[t] = cost[t] /\ bheld'[t] = bheld[t] /\ bcost'[t] = bcost[t]
  BY DEF Only
<1> QED
  BY <1>1, Zenon DEF Stands, FillStands, Agree

\* What is in flight for the other symbols, and what it has to say, stays: only
\* the step's own symbol is left to look at.
LEMMA StandingElsewhere ==
    ASSUME TypeInv, Standing, NEW s \in Symbols, Only(s),
           order' # None => order'.approved,
           \A a : a.symbol # s =>
               ((a \in Requested' /\ Unanswered(a)') <=> (a \in Requested /\ Unanswered(a))),
           \A r : r.symbol # s => (r \in Unheard' <=> r \in Unheard),
           \A a \in Requested' : a.symbol = s /\ Unanswered(a)' => Stands(a)',
           \A r \in Unheard' :
               r.symbol = s =>
                   IF r.filled THEN FillStands(r)' ELSE Stands(r)' \/ Superseded(r)',
           ~Pending(s)' => Agree(s)'
    PROVE  Standing'
<1>1. /\ \A a \in Requested : a.symbol \in Symbols
      /\ \A r \in Unheard : r.symbol \in Symbols
  BY IdsType DEF Unheard
<1>2. ASSUME NEW a \in Requested', Unanswered(a)', a.symbol # s PROVE Stands(a)'
  <2>1. a \in Requested /\ Unanswered(a)
    BY <1>2
  <2>2. Stands(a) /\ a.symbol \in Symbols
    BY <2>1, <1>1 DEF Standing
  <2> QED
    BY <2>2, <1>2, StandsElsewhere
<1>3. ASSUME NEW r \in Unheard', r.symbol # s
      PROVE  IF r.filled THEN FillStands(r)' ELSE Stands(r)' \/ Superseded(r)'
  <2>1. r \in Unheard /\ r.symbol \in Symbols
    BY <1>1, <1>3
  <2>2. Superseded(r) => Superseded(r)'
    <3> SUFFICES ASSUME NEW q \in Unheard, q.filled, q.symbol = r.symbol PROVE Superseded(r)'
      BY DEF Superseded
    <3>1. q \in Unheard'
      BY <1>3
    <3> QED
      BY <3>1 DEF Superseded
  <2>3. IF r.filled THEN FillStands(r) ELSE Stands(r) \/ Superseded(r)
    BY <2>1 DEF Standing
  <2>4. /\ Stands(r) => Stands(r)'
        /\ FillStands(r) => FillStands(r)'
    BY <2>1, <1>3, StandsElsewhere
  <2> QED
    BY <2>2, <2>3, <2>4
<1>4. ASSUME NEW t \in Symbols, t # s, ~Pending(t)' PROVE Agree(t)'
  <2>1. ~Pending(t)
    BY <1>4 DEF Pending
  <2>2. Agree(t)
    BY <2>1 DEF Standing
  <2> QED
    BY <2>2, <1>4 DEF Only, Agree
<1> QED
  BY <1>2, <1>3, <1>4 DEF Standing

LEMMA FlatElsewhere ==
    ASSUME NEW s \in Symbols, Only(s), FlatCostsNothing,
           held'[s] = "flat" => cost'[s] = 0,
           bheld'[s] = "flat" => bcost'[s] = 0
    PROVE  FlatCostsNothing'
  BY DEF Only, FlatCostsNothing

(***************************************************************************)
(* A proposal.                                                             *)
(***************************************************************************)
LEMMA ProposeRepeat ==
    ASSUME Steady, NEW s \in Symbols, Propose(s)
    PROVE  Consistent' /\ Unheard' = Unheard
<1> USE DEF Steady
<1>1. PICK o : o = outgoing'
  OBVIOUS
<1>2. /\ outgoing = None /\ proposed' = proposed + 1
      /\ o.id = proposed + 1 /\ o.symbol = s
      /\ UNCHANGED <<bus, execVars, seen>>
      /\ \/ ~o.approved /\ UNCHANGED ledger
         \/ held[s] = Opposite(o.side) /\ UNCHANGED ledger
         \/ held[s] = "flat" /\ OpenPosition(s, o.size, o.side)
  BY <1>1, ProposeShape
<1>3. o \in Assessments /\ o # None /\ o.side \in Sides /\ proposed \in Nat
  <2>1. TypeInv
    OBVIOUS
  <2>2. o \in Assessments
    BY <1>1, <2>1, ProposeType, Zenon
  <2> QED
    BY <2>2, NoneApart, IdsType DEF Assessments
<1>4. UNCHANGED <<assessments, results, filling, closing, order, filledOrders, issued, bheld, bcost>>
  BY <1>2 DEF bus, channels, execVars, brokerVars, loopVars, monitorVars
<1>5. /\ Messages(assessments)' = Messages(assessments) /\ Messages(results)' = Messages(results)
      /\ Messages(filledOrders)' = Messages(filledOrders)
      /\ \A a : Cached(a.id)' = Cached(a.id)
      /\ \A a : Unanswered(a)' = Unanswered(a)
  BY <1>4 DEF Messages, Cached, Unanswered
<1>6. Requested' = Requested \cup {o} /\ Reported' = Reported
  BY <1>1, <1>2, <1>3, <1>4, <1>5 DEF Requested, Reported
<1>7. Unheard' = Unheard
  BY <1>2, <1>6, UnheardKept
<1>8. \A m \in Requested \cup Reported : m.symbol # s
  BY DEF Propose, Calm, InFlight, Carried
<1>9. Agree(s)
  <2>1. ~Pending(s)
    BY <1>8 DEF Pending, Unheard
  <2> QED
    BY <2>1 DEF Consistent, Standing
<1>10. \A f \in Messages(filledOrders) : f.pid # o.id /\ f.pid <= proposed /\ f.pid \in Nat
  BY <1>2, <1>3, IdsType DEF Consistent, RequestsInOrder
<1>11. Cached(o.id) = {}
  BY <1>10 DEF Cached, Messages
<1>12. held \in [Symbols -> Positions] /\ cost \in [Symbols -> Int]
  BY DEF TypeInv, TypeOK, RiskTypeOK
<1>13. /\ Only(s)
       /\ \/ ~o.approved /\ UNCHANGED ledger
          \/ held[s] = Opposite(o.side) /\ UNCHANGED ledger
          \/ held[s] = "flat" /\ held'[s] = o.side
  <2>1. CASE UNCHANGED ledger /\ (~o.approved \/ held[s] = Opposite(o.side))
    BY <2>1, <1>4 DEF Only, ledger
  <2>2. CASE held[s] = "flat" /\ OpenPosition(s, o.size, o.side)
    <3>1. Only(s) /\ held'[s] = o.side
      BY <2>2, <1>4, <1>12 DEF Only, OpenPosition
    <3> QED
      BY <2>2, <3>1
  <2> QED
    BY <2>1, <2>2, <1>2
<1>14. o.approved => Stands(o)'
  <2>1. CASE held[s] = Opposite(o.side) /\ UNCHANGED ledger
    BY <2>1, <1>2, <1>4, <1>9 DEF Stands, Agree, ledger
  <2>2. CASE held[s] = "flat" /\ held'[s] = o.side
    BY <2>2, <1>2, <1>4, <1>9 DEF Stands, Agree
  <2> QED
    BY <2>1, <2>2, <1>13
<1>15. ~Pending(s)' => Agree(s)'
  <2>1. SUFFICES ASSUME ~Pending(s)' PROVE Agree(s)'
    OBVIOUS
  <2>2. ~Unanswered(o)'
    BY <2>1, <1>2, <1>6 DEF Pending
  <2>3. ~o.approved
    BY <2>2, <1>5, <1>11 DEF Unanswered
  <2>4. CASE UNCHANGED ledger
    BY <2>4, <1>4, <1>9 DEF Agree, ledger
  <2>5. CASE held[s] = Opposite(o.side) /\ UNCHANGED ledger
    BY <2>4, <2>5
  <2> QED
    BY <1>1, <2>3, <2>4, ProposeShape
<1>16. Standing'
  <2>1. order' # None => order'.approved
    BY <1>4 DEF Consistent, Standing
  <2>2. \A a : a.symbol # s =>
            ((a \in Requested' /\ Unanswered(a)') <=> (a \in Requested /\ Unanswered(a)))
    BY <1>2, <1>5, <1>6
  <2>3. \A r : r.symbol # s => (r \in Unheard' <=> r \in Unheard)
    BY <1>7
  <2>4. \A a \in Requested' : a.symbol = s /\ Unanswered(a)' => Stands(a)'
    <3>1. \A a \in Requested' : a.symbol = s => a = o
      BY <1>6, <1>8
    <3> QED
      BY <3>1, <1>14, <1>5 DEF Unanswered
  <2>5. \A r \in Unheard' : r.symbol # s
    BY <1>7, <1>8 DEF Unheard
  <2> QED
    BY <2>1, <2>2, <2>3, <2>4, <2>5, <1>13, <1>15, StandingElsewhere DEF Consistent
<1>17. OneProposal'
  <2>1. \A m \in Requested' \cup Reported' : m = o \/ m.symbol # s
    BY <1>6, <1>8
  <2>2. \A a, b \in Requested' : a.symbol = b.symbol => a = b
    BY <2>1, <1>2, <1>6, <1>8 DEF Consistent, OneProposal
  <2>3. \A a \in Requested', r \in Reported' :
            a.symbol = r.symbol => a.approved /\ a.side = r.side
    BY <1>2, <1>6, <1>8 DEF Consistent, OneProposal
  <2> QED
    BY <2>2, <2>3, <1>6 DEF Consistent, OneProposal
<1>18. RequestsInOrder'
  <2>1. \A a \in Requested : a.id \in Nat /\ a.id <= proposed /\ a.id < o.id
    BY <1>2, <1>3, IdsType DEF Consistent, RequestsInOrder
  <2>2. InOrder(assessments)'
    BY <1>4 DEF Consistent, RequestsInOrder, InOrder
  <2>3. \A a, b \in Requested' : a.id = b.id => a = b
    BY <2>1, <1>3, <1>6 DEF Consistent, RequestsInOrder
  <2>4. \A a \in Requested' : a.id <= proposed'
    BY <2>1, <1>2, <1>3, <1>6
  <2>5. /\ \A a \in (Messages(assessments) \cup ({order} \ {None}))' : a.id < outgoing'.id
        /\ \A f \in Messages(filledOrders)' : f.pid < outgoing'.id
    <3>1. (Messages(assessments) \cup ({order} \ {None}))' \subseteq Requested
      BY <1>4, <1>5 DEF Requested
    <3> QED
      BY <3>1, <2>1, <1>1, <1>2, <1>3, <1>5, <1>10
  <2>6. order' # None =>
            /\ \A a \in Messages(assessments)' : order'.id <= a.id
            /\ \A f \in Messages(filledOrders)' : f.pid # order'.id
    BY <1>4, <1>5 DEF Consistent, RequestsInOrder
  <2>7. \A f \in Messages(filledOrders)' :
            f.pid <= proposed' /\ \A a \in Requested' : f.pid <= a.id
    BY <1>2, <1>3, <1>5, <1>6, <1>10 DEF Consistent, RequestsInOrder
  <2> QED
    BY <2>2, <2>3, <2>4, <2>5, <2>6, <2>7 DEF RequestsInOrder
<1>19. ResultsInOrder'
  <2>1. InOrder(results)'
    BY <1>4 DEF Consistent, ResultsInOrder, InOrder
  <2> QED
    BY <2>1, <1>2, <1>4, <1>5, <1>6, ResultsKept DEF Consistent
<1>20. Answered'
  <2>1. SeenIds' = SeenIds
    BY <1>2 DEF SeenIds
  <2>2. \A f \in Messages(filledOrders)' : f.pid # o.id
    BY <1>5, <1>10
  <2>3. \A r \in Reported' : r.symbol # o.symbol
    BY <1>2, <1>6, <1>8
  <2> QED
    BY <2>1, <2>2, <2>3, <1>4, <1>5, <1>6 DEF Consistent, Answered
<1>21. FlatCostsNothing'
  <2>1. held'[s] = "flat" => cost'[s] = 0
    BY <1>3, <1>13 DEF ledger, Consistent, FlatCostsNothing
  <2>2. bheld'[s] = "flat" => bcost'[s] = 0
    BY <1>4 DEF Consistent, FlatCostsNothing
  <2> QED
    BY <2>1, <2>2, <1>13, FlatElsewhere DEF Consistent
<1> QED
  BY <1>7, <1>16, <1>17, <1>18, <1>19, <1>20, <1>21 DEF Consistent

(***************************************************************************)
(* The broker answers an order: the answer is the newest result, and a     *)
(* fill speaks for all that is in flight for its symbol.                   *)
(***************************************************************************)
LEMMA PlaceRepeat ==
    ASSUME Steady, PlaceOrder, UNCHANGED riskVars
    PROVE  /\ Consistent'
           /\ Unheard' = Unheard \cup {filling'}
           /\ Stands(order)
           /\ \A r \in Reported : r.symbol = order.symbol => ~r.filled
<1> USE DEF Steady
<1>1. PICK o : o = order
  OBVIOUS
<1>2. PICK f : f = filling'
  OBVIOUS
<1> DEFINE s == o.symbol
<1>3. /\ Placing /\ o # None /\ o \in Assessments
      /\ s \in Symbols /\ o.side \in Sides /\ o.id \in Nat
      /\ Only(s)
      /\ held' = held /\ cost' = cost /\ issued' = issued + 1
      /\ f.symbol = s /\ f.id = issued + 1 /\ f.side = o.side
      /\ \/ ~f.filled /\ UNCHANGED <<bheld, bcost, filledOrders>>
         \/ /\ f.filled /\ f.pid = o.id /\ Remember(f)
            /\ \/ bheld[s] = Opposite(f.side) /\ bheld'[s] = "flat" /\ bcost'[s] = 0
               \/ bheld[s] = "flat" /\ bheld'[s] = f.side /\ bcost'[s] = f.cost
  BY <1>1, <1>2, PlaceAnswer
<1>4. /\ order' = None /\ filling = None /\ closing = None /\ closing' = None
      /\ UNCHANGED <<assessments, results, outgoing, proposed, seen>>
  BY <1>1, <1>3 DEF Placing, bus, channels, riskVars, monitorVars, Undisturbed
<1>5. /\ \A a \in Requested : a.id \in Nat /\ a.symbol \in Symbols /\ a.side \in Sides
      /\ \A r \in Reported : r.id \in Nat /\ r.symbol \in Symbols /\ r.id <= issued
      /\ \A g \in Messages(filledOrders) : g.id \in Nat /\ g.pid \in Nat /\ g.id <= issued
      /\ \A id \in SeenIds : id \in Nat /\ id <= issued
      /\ issued \in Nat /\ proposed \in Nat
  BY IdsType DEF Consistent, ResultsInOrder
<1>6. f \in Results /\ f # None
  BY <1>2, PlaceType, NoneApart
<1>7. Messages(assessments)' = Messages(assessments) /\ Messages(results)' = Messages(results)
  BY <1>4 DEF Messages
<1>8. /\ Requested = Requested' \cup {o} /\ o \in Requested /\ Requested' \subseteq Requested
      /\ Requested' = Messages(assessments) \cup ({outgoing} \ {None})
  BY <1>1, <1>3, <1>4, <1>7 DEF Requested
<1>9. Reported' = Reported \cup {f}
  BY <1>2, <1>4, <1>6, <1>7 DEF Reported
<1>10. Unheard' = Unheard \cup {f}
  <2>1. SeenIds' = SeenIds
    BY <1>4 DEF SeenIds
  <2>2. f.id \notin SeenIds
    BY <1>3, <1>5
  <2> QED
    BY <2>1, <2>2, <1>9 DEF Unheard
\* The requests in flight: none is answered before, and only this one after.
<1>11. \A a \in Requested, g \in Messages(filledOrders) : g.pid # a.id
  <2>1. \A g \in Messages(filledOrders) : g.pid # o.id /\ g.pid <= o.id
    BY <1>1, <1>3, <1>8 DEF Consistent, RequestsInOrder
  <2>2. \A a \in Messages(assessments) : o.id <= a.id
    BY <1>1, <1>3 DEF Consistent, RequestsInOrder
  <2>3. \A a \in {outgoing} \ {None}, g \in Messages(filledOrders) : g.pid < a.id
    BY DEF Consistent, RequestsInOrder
  <2>4. \A a \in Requested : a = o \/ a \in Messages(assessments) \/ a \in {outgoing} \ {None}
    BY <1>8
  <2> SUFFICES ASSUME NEW a \in Requested, NEW g \in Messages(filledOrders) PROVE g.pid # a.id
    OBVIOUS
  <2>5. a.id \in Nat /\ g.pid \in Nat
    BY <1>5
  <2> QED
    BY <2>1, <2>2, <2>3, <2>4, <2>5, <1>3
<1>12. \A a \in Requested : Unanswered(a) <=> a.approved
  BY <1>11 DEF Unanswered, Cached, Messages
<1>13. o.approved /\ Unanswered(o) /\ Stands(o)
  BY <1>1, <1>3, <1>8, <1>12 DEF Consistent, Standing
<1>14. /\ \A g \in Messages(filledOrders)' : g \in Messages(filledOrders) \/ (g = f /\ f.filled)
       /\ f.filled => f \in Messages(filledOrders)' /\ f.pid = o.id
  <2>1. filledOrders \in Seq(Results)
    BY DEF TypeInv, TypeOK, ExecTypeOK, BrokerTypeOK
  <2>2. CASE ~f.filled /\ UNCHANGED <<bheld, bcost, filledOrders>>
    BY <2>2 DEF Messages
  <2>3. CASE f.filled /\ f.pid = o.id /\ Remember(f)
    <3>1. filledOrders' = Remembered(filledOrders, f, FilledMax)
      BY <2>3 DEF Remember, Remembered
    <3>2. /\ Messages(Remembered(filledOrders, f, FilledMax)) \subseteq Messages(filledOrders) \cup {f}
          /\ f \in Messages(Remembered(filledOrders, f, FilledMax))
      BY <2>1, <1>6, MessagesRemembered, RememberedNewest, BrokerAssumption
    <3>3. Messages(filledOrders)' = Messages(Remembered(filledOrders, f, FilledMax))
      BY <3>1 DEF Messages
    <3> QED
      BY <2>3, <3>2, <3>3
  <2> QED
    BY <2>2, <2>3, <1>3
<1>15. \A a \in Requested :
          /\ a # o => (Unanswered(a)' <=> a.approved)
          /\ f.filled => ~Unanswered(o)'
  <2>1. \A a \in Requested : a # o => a.id # o.id
    BY <1>8 DEF Consistent, RequestsInOrder
  <2>2. \A a \in Requested, g \in Messages(filledOrders)' : a # o => g.pid # a.id
    BY <2>1, <1>11, <1>14
  <2>3. \A a \in Requested : a # o => Cached(a.id)' = {}
    BY <2>2 DEF Cached, Messages
  <2>4. f.filled => Cached(o.id)' # {}
    BY <1>14 DEF Cached, Messages
  <2> QED
    BY <2>3, <2>4 DEF Unanswered
<1>16. \A a \in Requested : a.symbol = s => a = o
  BY <1>8 DEF Consistent, OneProposal
<1>17. \A r \in Reported : r.symbol = s => ~r.filled /\ r.side = f.side
  BY <1>3, <1>8, <1>13 DEF Consistent, Answered, OneProposal
<1>18. UNCHANGED <<bheld, bcost>> => Stands(o)'
  BY <1>3, <1>13 DEF Stands, Agree
<1>19. Standing'
  <2>1. \A a : a.symbol # s =>
            ((a \in Requested' /\ Unanswered(a)') <=> (a \in Requested /\ Unanswered(a)))
    BY <1>8, <1>12, <1>15
  <2>2. \A r : r.symbol # s => (r \in Unheard' <=> r \in Unheard)
    BY <1>3, <1>10
  <2>3. \A a \in Requested' : a.symbol = s /\ Unanswered(a)' => Stands(a)'
    BY <1>3, <1>8, <1>15, <1>16, <1>18
  <2>4. f.filled => FillStands(f)'
    BY <1>3, <1>13 DEF Stands, FillStands, Agree, Opposite
  <2>5. ~f.filled => Stands(f)'
    BY <1>3, <1>18 DEF Stands, Agree
  <2>6. \A r \in Unheard' :
            r.symbol = s => IF r.filled THEN FillStands(r)' ELSE Stands(r)' \/ Superseded(r)'
    <3> SUFFICES ASSUME NEW r \in Unheard, r.symbol = s
                 PROVE  ~r.filled /\ (Stands(r)' \/ Superseded(r)')
      BY <2>4, <2>5, <1>10
    <3>1. r \in Reported /\ ~r.filled
      BY <1>17 DEF Unheard
    <3>2. CASE f.filled
      BY <3>1, <3>2, <1>3, <1>10 DEF Superseded
    <3>3. CASE ~f.filled
      <4>1. Stands(r) \/ Superseded(r)
        BY <3>1 DEF Consistent, Standing
      <4>2. Superseded(r) => Superseded(r)'
        BY <1>10 DEF Superseded
      <4>3. Stands(r) => Stands(r)'
        BY <3>3, <1>3 DEF Stands, Agree
      <4> QED
        BY <3>1, <4>1, <4>2, <4>3
    <3> QED
      BY <3>2, <3>3
  <2>7. Pending(s)'
    BY <1>3, <1>10 DEF Pending
  <2> QED
    BY <2>1, <2>2, <2>3, <2>6, <2>7, <1>3, <1>4, StandingElsewhere DEF Consistent
<1>20. OneProposal'
  <2>1. \A a, b \in Requested' : a.symbol = b.symbol => a = b
    BY <1>8 DEF Consistent, OneProposal
  <2>2. \A a \in Requested', r \in Reported' :
            a.symbol = r.symbol => a.approved /\ a.side = r.side
    BY <1>3, <1>8, <1>9, <1>13, <1>16 DEF Consistent, OneProposal
  <2>3. \A r, q \in Reported' :
            r.symbol = q.symbol =>
                r.side = q.side /\ (r.filled => q = r \/ (~q.filled /\ q.id < r.id))
    <3> SUFFICES ASSUME NEW r \in Reported', NEW q \in Reported', r.symbol = q.symbol
                 PROVE  r.side = q.side /\ (r.filled => q = r \/ (~q.filled /\ q.id < r.id))
      OBVIOUS
    <3>1. CASE r = f /\ q = f
      BY <3>1
    <3>2. CASE r = f /\ q \in Reported
      BY <3>2, <1>3, <1>5, <1>17
    <3>3. CASE r \in Reported /\ q = f
      BY <3>3, <1>3, <1>17
    <3>4. CASE r \in Reported /\ q \in Reported
      BY <3>4 DEF Consistent, OneProposal
    <3> QED
      BY <3>1, <3>2, <3>3, <3>4, <1>9
  <2> QED
    BY <2>1, <2>2, <2>3 DEF OneProposal
<1>21. RequestsInOrder'
  <2>1. InOrder(assessments)'
    BY <1>4 DEF Consistent, RequestsInOrder, InOrder
  <2>2. /\ \A a, b \in Requested' : a.id = b.id => a = b
        /\ \A a \in Requested' : a.id <= proposed'
    BY <1>4, <1>8 DEF Consistent, RequestsInOrder
  <2>3. outgoing' # None =>
            /\ \A a \in (Messages(assessments) \cup ({order} \ {None}))' : a.id < outgoing'.id
            /\ \A g \in Messages(filledOrders)' : g.pid < outgoing'.id
    BY <1>1, <1>3, <1>4, <1>7, <1>14 DEF Consistent, RequestsInOrder
  <2>4. \A g \in Messages(filledOrders)' : g.pid <= proposed'
    BY <1>4, <1>8, <1>14 DEF Consistent, RequestsInOrder
  <2>5. \A a \in Requested' : o.id <= a.id
    <3>1. \A a \in Messages(assessments) : o.id <= a.id
      BY <1>1, <1>3 DEF Consistent, RequestsInOrder
    <3>2. outgoing # None => o.id < outgoing.id /\ outgoing.id \in Nat
      BY <1>1, <1>3, <1>5 DEF Consistent, RequestsInOrder, Requested
    <3> QED
      BY <3>1, <3>2, <1>3, <1>8
  <2>6. \A g \in Messages(filledOrders)', a \in Requested' : g.pid <= a.id
    BY <2>5, <1>8, <1>14 DEF Consistent, RequestsInOrder
  <2> QED
    BY <2>1, <2>2, <2>3, <2>4, <2>6, <1>4 DEF RequestsInOrder
<1>22. ResultsInOrder'
  <2>1. InOrder(results)'
    BY <1>4 DEF Consistent, ResultsInOrder, InOrder
  <2>2. /\ \A r \in Reported' \cup Messages(filledOrders)' :
               r = f \/ (r \in Reported \cup Messages(filledOrders) /\ r.id # f.id)
        /\ \A r \in Reported' \cup Messages(filledOrders)' : r.id <= issued'
    BY <1>3, <1>5, <1>9, <1>14
  <2>3. \A r, q \in Reported' : r.id = q.id => r = q
    BY <2>2, <1>9 DEF Consistent, ResultsInOrder
  <2>4. \A r \in Messages(results)' : r.id <= filling'.id
    BY <1>2, <1>3, <1>5, <1>7 DEF Reported
  <2>5. \A id \in SeenIds' : id <= issued' /\ \A r \in Reported' : id <= r.id
    <3>1. SeenIds' = SeenIds
      BY <1>4 DEF SeenIds
    <3>2. \A id \in SeenIds : id <= issued' /\ id <= f.id
      BY <1>3, <1>5
    <3> QED
      BY <3>1, <3>2, <1>9 DEF Consistent, ResultsInOrder
  <2>6. \A g \in Messages(filledOrders)', r \in (Reported \cup Messages(filledOrders))' :
            g.id = r.id => g = r
    <3> SUFFICES ASSUME NEW g \in Messages(filledOrders)',
                        NEW r \in (Reported \cup Messages(filledOrders))', g.id = r.id
                 PROVE  g = r
      OBVIOUS
    <3>1. CASE g = f \/ r = f
      BY <3>1, <2>2
    <3>2. CASE g # f /\ r # f
      <4>1. g \in Messages(filledOrders) /\ r \in Reported \cup Messages(filledOrders)
        BY <3>2, <1>14, <2>2
      <4> QED
        BY <4>1 DEF Consistent, ResultsInOrder
    <3> QED
      BY <3>1, <3>2
  <2> QED
    BY <2>1, <2>2, <2>3, <2>4, <2>5, <2>6 DEF ResultsInOrder
<1>23. Answered'
  <2> SUFFICES ASSUME NEW b \in Requested'
               PROVE  /\ \A g \in Messages(filledOrders)' :
                             g.pid = b.id =>
                                 /\ g.filled /\ g.symbol = b.symbol /\ g.side = b.side
                                 /\ g.id = issued'
                                 /\ g \in Reported' \/ g.id \in SeenIds'
                      /\ \A r \in Reported' :
                             r.filled /\ r.symbol = b.symbol => ~Unanswered(b)'
    BY DEF Answered
  <2>1. b \in Requested
    BY <1>8
  <2>2. ASSUME NEW g \in Messages(filledOrders)', g.pid = b.id
        PROVE  g = f /\ f.filled /\ b = o
    <3>1. g = f /\ f.filled
      BY <2>1, <2>2, <1>11, <1>14
    <3>2. b.id = o.id
      BY <3>1, <2>2, <1>14
    <3> QED
      BY <3>1, <3>2, <2>1, <1>8 DEF Consistent, RequestsInOrder
  <2>3. ASSUME NEW r \in Reported', r.filled, r.symbol = b.symbol PROVE ~Unanswered(b)'
    <3>1. CASE r = f
      BY <3>1, <2>1, <2>3, <1>3, <1>15, <1>16
    <3>2. CASE r \in Reported
      <4>1. ~Unanswered(b)
        BY <3>2, <2>1, <2>3 DEF Consistent, Answered
      <4>2. ~b.approved
        BY <4>1, <2>1, <1>12
      <4> QED
        BY <4>2 DEF Unanswered
    <3> QED
      BY <3>1, <3>2, <2>3, <1>9
  <2> QED
    BY <2>2, <2>3, <1>3, <1>9
<1>24. FlatCostsNothing'
  <2>1. held'[s] = "flat" => cost'[s] = 0
    BY <1>3 DEF Consistent, FlatCostsNothing
  <2>2. bheld'[s] = "flat" => bcost'[s] = 0
    BY <1>3 DEF Consistent, FlatCostsNothing
  <2> QED
    BY <2>1, <2>2, <1>3, FlatElsewhere DEF Consistent
<1>25. Consistent'
  BY <1>19, <1>20, <1>21, <1>22, <1>23, <1>24 DEF Consistent
<1> QED
  BY <1>1, <1>2, <1>10, <1>13, <1>17, <1>25

(***************************************************************************)
(* Risk hears a result.                                                    *)
(***************************************************************************)
LEMMA HeadRepeat ==
    ASSUME Steady, TakeResult, UNCHANGED execVars
    PROVE  LET r == Head(results)
           IN  /\ r \in Reported /\ r \in Results /\ r.id \in Nat
               /\ r.symbol \in Symbols /\ r.side \in Sides
               /\ \A m \in Reported : r.id <= m.id
               /\ Reported = Reported' \cup {r} /\ Reported' \subseteq Reported
               /\ InOrder(results)' /\ Messages(results)' \subseteq Messages(results)
<1> USE DEF Steady
<1>1. PICK r : r = Head(results)
  OBVIOUS
<1>2. /\ results \in Seq(Results) /\ results # <<>> /\ results' = Tail(results)
      /\ UNCHANGED <<filling, closing>> /\ closing = None
  BY DEF TakeResult, TypeInv, TypeOK, BusTypeOK, execVars, loopVars, monitorVars, Undisturbed
<1>3. /\ r \in Results /\ r \in Messages(results)
      /\ Messages(results) = Messages(Tail(results)) \cup {r}
  BY <1>1, <1>2, TailType, MessagesTail
<1>4. InOrder(Tail(results)) /\ \A m \in Messages(Tail(results)) : r.id <= m.id
  BY <1>1, <1>2, InOrderTail DEF Consistent, ResultsInOrder
<1>5. r.id \in Nat /\ r.symbol \in Symbols /\ r.side \in Sides
  BY <1>3 DEF Results
<1>6. Messages(results)' = Messages(Tail(results)) /\ InOrder(results)'
  BY <1>2, <1>4 DEF Messages, InOrder
<1>7. Reported = Reported' \cup {r} /\ Reported' \subseteq Reported
  BY <1>2, <1>3, <1>6 DEF Reported
<1>8. \A m \in Reported : r.id <= m.id
  <2>1. filling # None => r.id <= filling.id
    BY <1>3 DEF Consistent, ResultsInOrder
  <2> QED
    BY <2>1, <1>2, <1>3, <1>4, <1>5 DEF Reported
<1> QED
  BY <1>1, <1>3, <1>5, <1>6, <1>7, <1>8

\* What a result that is heard for the first time leaves unheard.
LEMMA FirstSightRepeat ==
    ASSUME Steady, TakeResult, FirstSight(Head(results)), UNCHANGED execVars
    PROVE  LET r == Head(results)
           IN  /\ Unheard = Reported /\ Unheard' = Unheard \ {r}
               /\ r.id \notin SeenIds /\ r.id \in SeenIds'
               /\ SeenIds' \subseteq SeenIds \cup {r.id}
               /\ r.filled => \A m \in Reported : m.symbol = r.symbol => m = r
<1> USE DEF Steady
<1>1. PICK r : r = Head(results)
  OBVIOUS
<1>2. /\ r \in Reported /\ r.id \in Nat /\ \A m \in Reported : r.id <= m.id
      /\ Reported = Reported' \cup {r}
  BY <1>1, HeadRepeat
<1>3. r.id \notin SeenIds /\ seen' = Remembered(seen, r.id, SeenMax)
  BY <1>1 DEF FirstSight
<1>4. r.id \in SeenIds' /\ SeenIds' \subseteq SeenIds \cup {r.id}
  <2>1. seen \in Seq(Nat)
    BY DEF TypeInv, TypeOK, RiskTypeOK
  <2>2. /\ Messages(Remembered(seen, r.id, SeenMax)) \subseteq Messages(seen) \cup {r.id}
        /\ r.id \in Messages(Remembered(seen, r.id, SeenMax))
    BY <2>1, <1>2, MessagesRemembered, RememberedNewest, RiskAssumption
  <2> QED
    BY <2>2, <1>3 DEF Messages, SeenIds
<1>5. \A m \in Reported : m.id \in Nat /\ m.id \notin SeenIds
  <2> SUFFICES ASSUME NEW m \in Reported, m.id \in SeenIds PROVE FALSE
    BY IdsType
  <2>1. m.id <= r.id /\ r.id <= m.id /\ m.id \in Nat
    BY <1>2, IdsType DEF Consistent, ResultsInOrder
  <2>2. m.id = r.id
    BY <2>1, <1>2
  <2> QED
    BY <2>2, <1>3
<1>6. Unheard = Reported
  BY <1>5 DEF Unheard
<1>7. \A m \in Reported : m.id = r.id => m = r
  BY <1>2 DEF Consistent, ResultsInOrder
<1>8. \A m \in Reported : m.id \in SeenIds' <=> m = r
  BY <1>4, <1>5, <1>7
<1>9. Unheard' = Unheard \ {r}
  BY <1>2, <1>6, <1>8 DEF Unheard
<1>10. ASSUME r.filled, NEW m \in Reported, m.symbol = r.symbol PROVE m = r
  <2>1. m = r \/ m.id < r.id
    BY <1>2, <1>10 DEF Consistent, OneProposal
  <2>2. r.id <= m.id /\ m.id \in Nat
    BY <1>2, <1>5
  <2> QED
    BY <2>1, <2>2, <1>2
<1> QED
  BY <1>1, <1>3, <1>4, <1>6, <1>9, <1>10

\* The order of what is left is kept, whatever is heard.
LEMMA HeardInOrder ==
    ASSUME Steady, TakeResult, UNCHANGED execVars,
           \/ Head(results).id \in SeenIds /\ seen' = seen
           \/ FirstSight(Head(results))
    PROVE  /\ OneProposal' /\ RequestsInOrder' /\ ResultsInOrder' /\ Answered'
           /\ Requested' = Requested
           /\ \A a : Unanswered(a)' = Unanswered(a)
           /\ order' # None => order'.approved
<1> USE DEF Steady
<1>1. PICK r : r = Head(results)
  OBVIOUS
<1>2. /\ r \in Reported /\ r \in Results /\ r.id \in Nat
      /\ \A m \in Reported : r.id <= m.id
      /\ Reported = Reported' \cup {r} /\ Reported' \subseteq Reported
      /\ InOrder(results)' /\ Messages(results)' \subseteq Messages(results)
  BY <1>1, HeadRepeat
<1>3. UNCHANGED <<assessments, outgoing, order, filling, filledOrders, proposed, issued>>
  BY DEF TakeResult, execVars, brokerVars, loopVars
<1>4. /\ Messages(assessments)' = Messages(assessments)
      /\ Messages(filledOrders)' = Messages(filledOrders)
      /\ InOrder(assessments)'
      /\ \A a : Unanswered(a)' = Unanswered(a)
  BY <1>3 DEF Messages, Unanswered, Cached, InOrder, Consistent, RequestsInOrder
<1>5. Requested' = Requested
  BY <1>3, <1>4 DEF Requested
<1>6. OneProposal'
  BY <1>2, <1>5, OneProposalKept DEF Consistent
<1>7. RequestsInOrder'
  BY <1>3, <1>4, <1>5, RequestsKept DEF Consistent
<1>8. /\ SeenIds' \subseteq SeenIds \cup {r.id} /\ r.id \in SeenIds'
      /\ SeenIds' = SeenIds \/ r.id \notin SeenIds
  <2>1. CASE r.id \in SeenIds /\ seen' = seen
    BY <2>1 DEF SeenIds
  <2>2. CASE FirstSight(r)
    BY <2>2, <1>1, FirstSightRepeat
  <2> QED
    BY <2>1, <2>2, <1>1
<1>9. ResultsInOrder'
  <2>1. \A id \in SeenIds' : id <= issued' /\ \A m \in Reported' : id <= m.id
    BY <1>2, <1>3, <1>8 DEF Consistent, ResultsInOrder
  <2>2. filling' # None => \A m \in Messages(results)' : m.id <= filling'.id
    BY <1>2, <1>3 DEF Consistent, ResultsInOrder
  <2> QED
    BY <2>1, <2>2, <1>2, <1>3, <1>4 DEF Consistent, ResultsInOrder
<1>10. Answered'
  <2>1. ASSUME NEW a \in Requested, NEW g \in Messages(filledOrders), g.pid = a.id
        PROVE  g \in Reported' \/ g.id \in SeenIds'
    <3>1. (g \in Reported \/ g.id \in SeenIds) /\ g.id = issued
      BY <2>1 DEF Consistent, Answered
    <3>2. CASE g \in Reported
      BY <3>2, <1>2, <1>8
    <3>3. CASE g.id \in SeenIds
      <4>1. g.id <= r.id /\ r.id <= issued /\ issued \in Nat
        BY <3>3, <1>2, IdsType DEF Consistent, ResultsInOrder
      <4>2. r.id = g.id
        BY <4>1, <3>1, <1>2
      <4> QED
        BY <4>2, <1>8
    <3> QED
      BY <3>1, <3>2, <3>3
  <2> QED
    BY <2>1, <1>2, <1>3, <1>4, <1>5 DEF Consistent, Answered
<1>11. order' # None => order'.approved
  BY <1>3 DEF Consistent, Standing
<1> QED
  BY <1>4, <1>5, <1>6, <1>7, <1>9, <1>10, <1>11

\* A failed order gives back what is reserved for it: then nothing is open, and
\* what is still to come about the symbol stands as before.
LEMMA FailureRepeat ==
    ASSUME Steady, ResultReleased \/ ResultIgnored, UNCHANGED execVars
    PROVE  Standing' /\ FlatCostsNothing'
<1> USE DEF Steady
<1>1. PICK r : r = Head(results)
  OBVIOUS
<1> DEFINE s == r.symbol
<1>2. TakeResult /\ FirstSight(r) /\ ~r.filled
  BY <1>1, Zenon DEF ResultReleased, ResultIgnored
<1>3. r \in Reported /\ s \in Symbols /\ r.side \in Sides
  BY <1>1, <1>2, HeadRepeat
<1>4. Unheard = Reported /\ Unheard' = Unheard \ {r}
  BY <1>1, <1>2, FirstSightRepeat
<1>5. /\ Requested' = Requested
      /\ \A a : Unanswered(a)' = Unanswered(a)
      /\ order' # None => order'.approved
  BY <1>1, <1>2, HeardInOrder
<1>6. held \in [Symbols -> Positions] /\ cost \in [Symbols -> Int]
  BY DEF TypeInv, TypeOK, RiskTypeOK
<1>7. /\ bheld' = bheld /\ bcost' = bcost
      /\ \/ held[s] # r.side /\ held' = held /\ cost' = cost
         \/ held[s] = r.side /\ held'[s] = "flat" /\ cost'[s] = 0
      /\ Only(s)
  <2>1. bheld' = bheld /\ bcost' = bcost
    BY DEF execVars, brokerVars
  <2>2. CASE ResultReleased
    <3>1. held[s] = r.side /\ ClosePosition(s, 0)
      BY <2>2, <1>1 DEF ResultReleased
    <3> QED
      BY <3>1, <2>1, <1>3, <1>6 DEF ClosePosition, Only
  <2>3. CASE ResultIgnored
    BY <2>1, <2>3, <1>1 DEF ResultIgnored, ledger, Only
  <2> QED
    BY <2>2, <2>3
<1>8. ASSUME NEW m, m.symbol = s, m.side = r.side
      PROVE  /\ Stands(m) => Stands(m)'
             /\ FillStands(m) => FillStands(m)'
  BY <1>3, <1>7, <1>8 DEF Stands, FillStands, Agree, Opposite
<1>9. Standing'
  <2>1. \A a : a.symbol # s =>
            ((a \in Requested' /\ Unanswered(a)') <=> (a \in Requested /\ Unanswered(a)))
    BY <1>5
  <2>2. \A m : m.symbol # s => (m \in Unheard' <=> m \in Unheard)
    BY <1>4
  <2>3. \A a \in Requested' : a.symbol = s /\ Unanswered(a)' => Stands(a)'
    <3> SUFFICES ASSUME NEW a \in Requested, a.symbol = s, Unanswered(a) PROVE Stands(a)'
      BY <1>5
    <3>1. Stands(a) /\ a.side = r.side
      BY <1>3 DEF Consistent, Standing, OneProposal
    <3> QED
      BY <3>1, <1>8
  <2>4. \A q \in Unheard : q.filled => q \in Unheard'
    BY <1>2, <1>4
  <2>5. \A q : Superseded(q) => Superseded(q)'
    BY <2>4 DEF Superseded
  <2>6. \A q \in Unheard' :
            q.symbol = s => IF q.filled THEN FillStands(q)' ELSE Stands(q)' \/ Superseded(q)'
    <3> SUFFICES ASSUME NEW q \in Unheard, q.symbol = s
                 PROVE  IF q.filled THEN FillStands(q)' ELSE Stands(q)' \/ Superseded(q)'
      BY <1>4
    <3>1. q.side = r.side
      BY <1>3, <1>4 DEF Consistent, OneProposal
    <3>2. IF q.filled THEN FillStands(q) ELSE Stands(q) \/ Superseded(q)
      BY DEF Consistent, Standing
    <3> QED
      BY <3>1, <3>2, <2>5, <1>8
  <2>7. ~Pending(s)' => Agree(s)'
    <3> SUFFICES ASSUME ~Pending(s)' PROVE Agree(s)'
      OBVIOUS
    <3>1. ~Superseded(r)
      BY <2>4 DEF Superseded, Pending
    <3>2. Stands(r)
      BY <3>1, <1>2, <1>3, <1>4 DEF Consistent, Standing
    <3>3. /\ held[s] = "flat" => cost[s] = 0
          /\ bheld[s] = "flat" => bcost[s] = 0
      BY <1>3 DEF Consistent, FlatCostsNothing
    <3> QED
      BY <3>2, <3>3, <1>3, <1>7 DEF Stands, Agree, Opposite
  <2> QED
    BY <2>1, <2>2, <2>3, <2>6, <2>7, <1>3, <1>5, <1>7, StandingElsewhere DEF Consistent
<1>10. FlatCostsNothing'
  <2>1. held'[s] = "flat" => cost'[s] = 0
    BY <1>3, <1>7 DEF Consistent, FlatCostsNothing
  <2>2. bheld'[s] = "flat" => bcost'[s] = 0
    BY <1>3, <1>7 DEF Consistent, FlatCostsNothing
  <2> QED
    BY <2>1, <2>2, <1>3, <1>7, FlatElsewhere DEF Consistent
<1> QED
  BY <1>9, <1>10

\* A fill is the last that is said about its symbol: the books agree on it
\* afterwards.
LEMMA FillRepeat ==
    ASSUME Steady, ResultClosed \/ ResultReconciled \/ ResultAdopted, UNCHANGED execVars
    PROVE  Standing' /\ FlatCostsNothing'
<1> USE DEF Steady
<1>1. PICK r : r = Head(results)
  OBVIOUS
<1> DEFINE s == r.symbol
<1>2. TakeResult /\ FirstSight(r) /\ r.filled
  BY <1>1, Zenon DEF ResultClosed, ResultReconciled, ResultAdopted
<1>3. r \in Reported /\ s \in Symbols /\ r.side \in Sides
  BY <1>1, <1>2, HeadRepeat
<1>4. /\ Unheard = Reported /\ Unheard' = Unheard \ {r}
      /\ \A m \in Reported : m.symbol = s => m = r
  BY <1>1, <1>2, FirstSightRepeat
<1>5. /\ Requested' = Requested
      /\ \A a : Unanswered(a)' = Unanswered(a)
      /\ order' # None => order'.approved
  BY <1>1, <1>2, HeardInOrder
<1>6. held \in [Symbols -> Positions] /\ cost \in [Symbols -> Int]
  BY DEF TypeInv, TypeOK, RiskTypeOK
<1>7. FillStands(r)
  BY <1>2, <1>3, <1>4 DEF Consistent, Standing
<1>8. /\ bheld' = bheld /\ bcost' = bcost
      /\ \/ held[s] = Opposite(r.side) /\ held'[s] = "flat" /\ cost'[s] = 0
         \/ held[s] \in {r.side, "flat"} /\ held'[s] = r.side /\ cost'[s] = r.cost
      /\ Only(s)
  <2>1. bheld' = bheld /\ bcost' = bcost
    BY DEF execVars, brokerVars
  <2>2. CASE ResultClosed
    <3>1. held[s] = Opposite(r.side) /\ ClosePosition(s, r.pnl)
      BY <2>2, <1>1 DEF ResultClosed
    <3> QED
      BY <3>1, <2>1, <1>3, <1>6 DEF ClosePosition, Only
  <2>3. CASE ResultReconciled
    <3>1. held[s] = r.side /\ AdjustPositionCost(s, r.cost)
      BY <2>3, <1>1 DEF ResultReconciled
    <3> QED
      BY <3>1, <2>1, <1>3, <1>6 DEF AdjustPositionCost, Only
  <2>4. CASE ResultAdopted
    <3>1. held[s] = "flat" /\ OpenPosition(s, r.cost, r.side)
      BY <2>4, <1>1 DEF ResultAdopted
    <3> QED
      BY <3>1, <2>1, <1>3, <1>6 DEF OpenPosition, Only
  <2> QED
    BY <2>2, <2>3, <2>4
<1>9. bheld[s] = "flat" => bcost[s] = 0
  BY <1>3 DEF Consistent, FlatCostsNothing
<1>10. Agree(s)'
  BY <1>3, <1>7, <1>8, <1>9 DEF FillStands, Agree, Opposite
<1>11. Standing'
  <2>1. \A a : a.symbol # s =>
            ((a \in Requested' /\ Unanswered(a)') <=> (a \in Requested /\ Unanswered(a)))
    BY <1>5
  <2>2. \A m : m.symbol # s => (m \in Unheard' <=> m \in Unheard)
    BY <1>4
  <2>3. \A a \in Requested' : ~(a.symbol = s /\ Unanswered(a)')
    BY <1>2, <1>3, <1>5 DEF Consistent, Answered
  <2>4. \A q \in Unheard' : q.symbol # s
    BY <1>4
  <2> QED
    BY <2>1, <2>2, <2>3, <2>4, <1>3, <1>5, <1>8, <1>10, StandingElsewhere DEF Consistent
<1>12. FlatCostsNothing'
  <2>1. held'[s] = "flat" => cost'[s] = 0
    BY <1>3, <1>8
  <2> QED
    BY <2>1, <1>3, <1>8, <1>9, FlatElsewhere DEF Consistent
<1> QED
  BY <1>11, <1>12

LEMMA ApplyRepeat ==
    ASSUME Steady, ApplyExecutionResult, UNCHANGED execVars
    PROVE  Consistent'
<1> USE DEF Steady
<1>1. PICK r : r = Head(results)
  OBVIOUS
<1>2. /\ TakeResult
      /\ \/ r.id \in SeenIds /\ seen' = seen
         \/ FirstSight(r)
  BY <1>1, Zenon DEF ApplyExecutionResult, ResultDuplicate, ResultReleased, ResultIgnored,
     ResultClosed, ResultReconciled, ResultAdopted
<1>3. /\ OneProposal' /\ RequestsInOrder' /\ ResultsInOrder' /\ Answered'
      /\ Requested' = Requested
      /\ order' # None => order'.approved
  BY <1>1, <1>2, HeardInOrder
<1>4. CASE ResultDuplicate
  <2>1. r.id \in SeenIds /\ seen' = seen /\ UNCHANGED Books /\ filledOrders' = filledOrders
    BY <1>1, <1>4 DEF ResultDuplicate, ledger, execVars, brokerVars, Books
  <2>2. Reported = Reported' \cup {r} /\ Reported' \subseteq Reported
    BY <1>1, <1>2, HeadRepeat
  <2>3. Unheard' = Unheard
    BY <2>1, <2>2 DEF Unheard, SeenIds
  <2>4. Standing'
    BY <2>1, <2>3, <1>3, StandingKept DEF Consistent
  <2>5. FlatCostsNothing'
    BY <2>1, FlatKept DEF Consistent
  <2> QED
    BY <2>4, <2>5, <1>3 DEF Consistent
<1>5. CASE ~ResultDuplicate
  <2>1. Standing' /\ FlatCostsNothing'
    BY <1>5, FailureRepeat, FillRepeat DEF ApplyExecutionResult
  <2> QED
    BY <2>1, <1>3 DEF Consistent
<1> QED
  BY <1>4, <1>5

(***************************************************************************)
(* The inductive invariant and what it says of the two books.              *)
(***************************************************************************)
LEMMA InitRepeat == Init => RepeatInv
<1> SUFFICES ASSUME Init PROVE RepeatInv
  OBVIOUS
<1>1. /\ assessments = <<>> /\ results = <<>>
      /\ held = [s \in Symbols |-> "flat"] /\ cost = [s \in Symbols |-> 0]
      /\ ~newDay /\ seen = <<>> /\ riskErrors = 0 /\ outgoing = None /\ proposed = 0
      /\ bheld = [s \in Symbols |-> "flat"] /\ bcost = [s \in Symbols |-> 0]
      /\ filledOrders = <<>> /\ issued = 0 /\ order = None /\ filling = None
      /\ scan = {} /\ closing = None /\ monitorAsleep = TRUE
  BY Zenon DEF Init, BusInit, RiskInit, LedgerInit, ExecInit, BrokerInit
<1>2. Messages(<<>>) = {}
  BY DEF Messages
<1>3. Requested = {} /\ Reported = {} /\ Messages(filledOrders) = {} /\ SeenIds = {}
  BY <1>1, <1>2 DEF Requested, Reported, SeenIds
<1>4. InOrder(<<>>)
  BY DEF InOrder
<1>5. \A s \in Symbols : held[s] = "flat" /\ cost[s] = 0 /\ bheld[s] = "flat" /\ bcost[s] = 0
  BY <1>1
<1>6. Undisturbed
  BY <1>1 DEF Undisturbed
<1>7. Unheard = {}
  BY <1>3 DEF Unheard
<1>8. Standing
  BY <1>1, <1>3, <1>5, <1>7 DEF Standing, Agree
<1>9. OneProposal /\ Answered
  BY <1>3 DEF OneProposal, Answered
<1>10. RequestsInOrder /\ ResultsInOrder
  BY <1>1, <1>3, <1>4 DEF RequestsInOrder, ResultsInOrder, Reported
<1>11. FlatCostsNothing
  BY <1>5 DEF FlatCostsNothing
<1> QED
  BY <1>6, <1>8, <1>9, <1>10, <1>11 DEF RepeatInv, Consistent

\* An agent that has stopped stays stopped: the steps of a system in which both
\* run start in one in which both run.
LEMMA RunningBefore ==
    ASSUME Calm, RInv, [Next]_vars, BothRun'
    PROVE  BothRun
<1>1. riskRunning' => riskRunning
  <2>1. ASSUME NEW s \in Symbols, Propose(s) PROVE riskRunning' => riskRunning
    BY <2>1, ProposeShape DEF RInv
  <2>2. CASE RiskStep
    BY <2>2 DEF RiskStep, WriteLatch, BroadcastOverride, EmergencyHaltFails, PublishAssessment,
       PublishAssessmentFails, RiskHearsOverride, RiskLeaves, ResultUnheard, ApplyExecutionResult,
       ResultDuplicate, ResultReleased, ResultIgnored, ResultClosed, ResultReconciled,
       ResultAdopted, TakeResult, halting, afterVerdict, riskVars
  <2>3. CASE UNCHANGED riskVars
    BY <2>3 DEF riskVars
  <2> QED
    BY <2>1, <2>2, <2>3 DEF Next, vars
<1>2. execRunning' => execRunning
  <2>1. CASE UNCHANGED execVars
    BY <2>1 DEF execVars, lifeVars
  <2>2. CASE ExecStep
    <3>1. CASE PlaceOrder
      BY <3>1 DEF PlaceOrder, RefuseUnusable, RefuseStacking, RefuseUnfunded, FillClose, FillOpen,
                  Placing
    <3>2. CASE SkipRejected \/ ReplayFilled \/ BeginOrder
      BY <3>2 DEF SkipRejected, ReplayFilled, BeginOrder, TakeAssessment
    <3>3. CASE Publishing
      BY <3>3 DEF Publishing, PublishResult, PublishResultFails, ExecHearsOverride, ExecLeaves
    <3>4. CASE Monitoring
      BY <3>4 DEF Monitoring, MonitorChecks, MonitorScan, MonitorPass, MonitorClose, MonitorPublish,
                  MonitorPublishFails, MonitorStep, lifeVars
    <3> QED
      BY <2>2, <3>1, <3>2, <3>3, <3>4 DEF ExecStep, Publishing, Monitoring
  <2>3. ASSUME NEW s \in Symbols, Propose(s) PROVE UNCHANGED execVars
    BY <2>3 DEF Propose
  <2> QED
    BY <2>1, <2>2, <2>3 DEF Next, vars
<1> QED
  BY <1>1, <1>2, BothRunKept DEF RInv, RepeatInv

LEMMA NextRepeat == ASSUME Calm, RInv, [Next]_vars PROVE RepeatInv'
<1>1. Undisturbed'
  BY UndisturbedKept DEF RInv, RepeatInv
<1> SUFFICES ASSUME BothRun' PROVE Consistent'
  BY <1>1 DEF RepeatInv
<1>2. Steady
  BY RunningBefore DEF RInv, RepeatInv, Steady
<1>3. ASSUME NEW s \in Symbols, Propose(s) PROVE Consistent'
  BY <1>2, <1>3, ProposeRepeat
<1>4. CASE RiskStep /\ UNCHANGED execVars
  BY <1>2, <1>4, AwaitsRepeat, ApplyRepeat DEF RiskStep, Awaits
<1>5. CASE ExecStep /\ UNCHANGED riskVars
  <2>1. ~Monitoring
    BY <1>2, NoMonitorSteps DEF Steady
  <2> QED
    BY <2>1, <1>2, <1>5, TakeRepeat, PlaceRepeat, PublishingRepeat
       DEF ExecStep, Publishing, Monitoring
<1>6. CASE LoseAssessment \/ LoseResult
  BY <1>2, <1>6, CalmFaults DEF LoseAssessment, LoseResult, Steady
<1>7. CASE Redeliver /\ UNCHANGED <<riskVars, execVars>>
  BY <1>2, <1>7, RedeliverRepeat
<1>8. CASE UNCHANGED vars
  BY <1>2, <1>8, StutterRepeat DEF Steady
<1> QED
  BY <1>3, <1>4, <1>5, <1>6, <1>7, <1>8 DEF Next

\* The inductive invariant of a calm system, however often messages are repeated:
\* whatever is in flight and not yet answered or applied stands by the two books.
THEOREM RepeatInvariant == ASSUME Calm PROVE Spec => []RInv
<1>1. Init => RInv
  BY InitTypeInv, InitRepeat DEF RInv
<1>2. RInv /\ [Next]_vars => RInv'
  BY NextTypeInv, NextRepeat DEF RInv
<1> QED
  BY <1>1, <1>2, PTL DEF Spec

\* While both agents run, a symbol with nothing in flight is held on the same side
\* and at the same cost by Risk's ledger (drawdown_monitor.py) and by the broker
\* (paper_broker.py): "Risk's ledger stays in sync" (agents/execution/agent.py:31),
\* however often an assessment or a result is repeated.
THEOREM LedgerAgreement == ASSUME Calm PROVE Spec => []SidesAgree
<1>1. RInv => SidesAgree
  <2> SUFFICES ASSUME RInv, BothRun, NEW s \in Symbols, ~InFlight(s) PROVE Agree(s)
    BY DEF SidesAgree
  <2>1. ~Pending(s)
    BY DEF InFlight, Carried, Pending, Unheard
  <2> QED
    BY <2>1 DEF RInv, RepeatInv, Consistent, Standing
<1> QED
  BY <1>1, RepeatInvariant, PTL

--------------------------------------------------------------------------------
(***************************************************************************)
(* Money.  Ledger and broker are worth the same once every result in       *)
(* flight has been told, up to the rounding of the profits.                *)
(***************************************************************************)

\* What the results in R will tell the ledger to have earned, by symbol.
Earned(R) ==
    [s \in Symbols |-> IF \E r \in R : r.symbol = s
                       THEN (CHOOSE r \in R : r.symbol = s).pnl
                       ELSE 0]

\* The fills that Risk has not heard of.
Due == {r \in Unheard : r.filled}

Gap == PortfolioValue + TotalOf(Earned(Due)) - TotalEquity

\* Each close may be half a cent out.  It takes two results, its own and that of
\* the opening fill, and open positions have only had the first.
Paired == issued - Cardinality(BrokerOpen)

\* Only a close that the ledger has not heard of carries a profit.
PnlFits == \A r \in Due : r.pnl # 0 => held[r.symbol] = Opposite(r.side)

\* The strengthening behind EquityAgrees.
GapInv == BothRun => PnlFits /\ -(Paired * Cent) <= 4 * Gap /\ 4 * Gap <= Paired * Cent

(***************************************************************************)
(* Profits in flight, at most one per symbol.                              *)
(***************************************************************************)
LEMMA EarnedType == ASSUME NEW R \in SUBSET Results PROVE Earned(R) \in [Symbols -> Int]
<1>1. \A r \in R : r.pnl \in Int
  BY DEF Results
<1>2. ASSUME NEW s \in Symbols, \E r \in R : r.symbol = s
      PROVE  (CHOOSE r \in R : r.symbol = s).pnl \in Int
  BY <1>1, <1>2
<1> QED
  BY <1>2 DEF Earned

LEMMA EarnedNone == TotalOf(Earned({})) = 0
<1>1. Earned({}) = [s \in Symbols |-> 0]
  BY DEF Earned
<1> QED
  BY <1>1, TotalOfNone

\* One result more is its profit more.
LEMMA EarnedWithout ==
    ASSUME NEW R \in SUBSET Results, NEW r \in R,
           \A m \in R : m.symbol = r.symbol => m = r
    PROVE  TotalOf(Earned(R)) = TotalOf(Earned(R \ {r})) + r.pnl
<1> DEFINE s == r.symbol
           f == Earned(R)
           g == Earned(R \ {r})
<1>1. s \in Symbols /\ r.pnl \in Int
  BY DEF Results
<1>2. f \in [Symbols -> Int] /\ g \in [Symbols -> Int]
  BY EarnedType
<1>3. f[s] = r.pnl
  <2>1. (CHOOSE m \in R : m.symbol = s) = r
    OBVIOUS
  <2> QED
    BY <2>1, <1>1 DEF Earned
<1>4. g[s] = 0
  BY <1>1 DEF Earned
<1>5. ASSUME NEW t \in Symbols \ {s} PROVE f[t] = g[t]
  <2>1. \A m : (m \in R /\ m.symbol = t) <=> (m \in R \ {r} /\ m.symbol = t)
    OBVIOUS
  <2>2. (CHOOSE m \in R : m.symbol = t) = (CHOOSE m \in R \ {r} : m.symbol = t)
    <3>1. (CHOOSE m : m \in R /\ m.symbol = t) = (CHOOSE m : m \in R \ {r} /\ m.symbol = t)
      BY <2>1
    <3> QED
      BY <3>1
  <2>3. (\E m \in R : m.symbol = t) <=> (\E m \in R \ {r} : m.symbol = t)
    BY <2>1
  <2> QED
    BY <2>2, <2>3 DEF Earned
<1>6. TotalOf(f) \in Int /\ TotalOf(g) \in Int
  BY <1>2, TotalType
<1>7. TotalOf(f) = TotalOf(g) + (f[s] - g[s])
  <2> HIDE DEF f, g, s
  <2> QED
    BY <1>1, <1>2, <1>5, TotalDiffers
<1> QED
  BY <1>1, <1>3, <1>4, <1>6, <1>7

(***************************************************************************)
(* The broker.                                                             *)
(***************************************************************************)

\* Decimal.quantize is half a cent out at most.
LEMMA QuantizeClose ==
    ASSUME NEW n \in Int
    PROVE  -Cent <= 2 * (Quantize(n) - n) /\ 2 * (Quantize(n) - n) <= Cent
<1>1. Cent \in Int /\ Cent > 0
  BY BrokerAssumption
<1> DEFINE q == n \div Cent
           r == n % Cent
<1>2. q \in Int /\ r \in Int /\ n = Cent * q + r /\ 0 <= r /\ r < Cent
  BY <1>1
<1>3. \/ Quantize(n) = Cent * q /\ 2 * r <= Cent
      \/ Quantize(n) = Cent * (q + 1) /\ 2 * r >= Cent
  <2> HIDE DEF q, r
  <2>1. Quantize(n) = Cent * (IF 2 * r < Cent \/ (2 * r = Cent /\ q % 2 = 0) THEN q ELSE q + 1)
    BY DEF Quantize, q, r
  <2>2. CASE 2 * r < Cent \/ (2 * r = Cent /\ q % 2 = 0)
    BY <2>1, <2>2, <1>1, <1>2
  <2>3. CASE ~(2 * r < Cent \/ (2 * r = Cent /\ q % 2 = 0))
    <3>1. 2 * r >= Cent
      BY <2>3, <1>1, <1>2
    <3> QED
      BY <2>1, <2>3, <3>1
  <2> QED
    BY <2>2, <2>3
<1> HIDE DEF q, r
<1>4. Cent * (q + 1) = Cent * q + Cent /\ Cent * q \in Int
  BY <1>1, <1>2
<1> DEFINE c == Cent * q
<1> HIDE DEF c
<1>5. /\ c \in Int /\ n = c + r
      /\ \/ Quantize(n) = c /\ 2 * r <= Cent
         \/ Quantize(n) = c + Cent /\ 2 * r >= Cent
  BY <1>2, <1>3, <1>4 DEF c
<1> QED
  BY <1>1, <1>2, <1>5

LEMMA EquityType == BrokerType => TotalEquity \in Int
  BY TotalType DEF BrokerType, TotalEquity

\* A fill turns cash into a position ...
LEMMA OpenEquity ==
    ASSUME BrokerType, NEW s \in Symbols, bcost[s] = 0, NEW side, NEW actual \in Int,
           Open(s, side, actual)
    PROVE  TotalEquity' = TotalEquity
<1>1. bcash' = bcash - actual /\ bcost' = [bcost EXCEPT ![s] = actual]
  BY DEF Open
<1>2. bcash \in Int /\ bcost \in [Symbols -> Int]
  BY DEF BrokerType
<1>3. TotalOf(bcost') = TotalOf(bcost) + (actual - 0) /\ TotalOf(bcost) \in Int
  BY <1>1, <1>2, TotalExcept, TotalType
<1>4. TotalEquity' = bcash' + TotalOf(bcost')
  BY DEF TotalEquity
<1> QED
  BY <1>1, <1>2, <1>3, <1>4 DEF TotalEquity

\* ... and a close realises its exact profit.
LEMMA CloseEquity ==
    ASSUME BrokerType, NEW s \in Symbols, NEW p \in Int, Close(s, p)
    PROVE  TotalEquity' = TotalEquity + p
<1>1. bcash' = bcash + bcost[s] + p /\ bcost' = [bcost EXCEPT ![s] = 0]
  BY DEF Close
<1>2. bcash \in Int /\ bcost \in [Symbols -> Int] /\ bcost[s] \in Int
  BY DEF BrokerType
<1>3. TotalOf(bcost') = TotalOf(bcost) + (0 - bcost[s]) /\ TotalOf(bcost) \in Int
  <2>1. 0 \in Int
    OBVIOUS
  <2>2. TotalOf([bcost EXCEPT ![s] = 0]) = TotalOf(bcost) + (0 - bcost[s])
    BY <1>2, <2>1, TotalExcept, Zenon
  <2> QED
    BY <1>1, <1>2, <2>2, TotalType
<1>4. TotalEquity' = bcash' + TotalOf(bcost')
  BY DEF TotalEquity
<1> QED
  BY <1>1, <1>2, <1>3, <1>4 DEF TotalEquity

\* The number of open positions.
LEMMA OpenCount == Cardinality(BrokerOpen) \in Nat /\ IsFiniteSet(BrokerOpen)
<1>1. IsFiniteSet(BrokerOpen)
  BY LedgerAssumption, FS_Subset DEF BrokerOpen
<1> QED
  BY <1>1, FS_CardinalityType

LEMMA OpenCountOpens ==
    ASSUME BrokerType, NEW s \in Symbols, bheld[s] = "flat", NEW side \in Sides,
           bheld' = [bheld EXCEPT ![s] = side]
    PROVE  Cardinality(BrokerOpen') = Cardinality(BrokerOpen) + 1
<1>1. BrokerOpen' = BrokerOpen \cup {s} /\ s \notin BrokerOpen
  BY DEF BrokerOpen, BrokerType
<1> QED
  BY <1>1, OpenCount, FS_AddElement

LEMMA OpenCountCloses ==
    ASSUME BrokerType, NEW s \in Symbols, bheld[s] # "flat",
           bheld' = [bheld EXCEPT ![s] = "flat"]
    PROVE  Cardinality(BrokerOpen') = Cardinality(BrokerOpen) - 1
<1>1. BrokerOpen' = BrokerOpen \ {s} /\ s \in BrokerOpen
  BY DEF BrokerOpen, BrokerType
<1> QED
  BY <1>1, OpenCount, FS_RemoveElement

(***************************************************************************)
(* What a step does to the gap.                                            *)
(***************************************************************************)
LEMMA GapType ==
    ASSUME TypeInv
    PROVE  /\ LedgerType /\ BrokerType /\ issued \in Nat
           /\ PortfolioValue \in Int /\ TotalEquity \in Int /\ Paired \in Int
           /\ Due \in SUBSET Results
           /\ TotalOf(Earned(Due)) \in Int
           /\ Gap \in Int
<1>1. LedgerType /\ BrokerType /\ issued \in Nat
  BY DEF TypeInv, TypeOK, RiskTypeOK, ExecTypeOK, BrokerTypeOK, LedgerType, BrokerType
<1>2. PortfolioValue \in Int /\ TotalEquity \in Int
  BY <1>1, ValueType, EquityType
<1>3. Paired \in Int
  BY <1>1, OpenCount DEF Paired
<1>4. Due \in SUBSET Results
  BY CarriedType DEF Due, Unheard
<1>5. TotalOf(Earned(Due)) \in Int
  BY <1>4, EarnedType, TotalType
<1> QED
  BY <1>1, <1>2, <1>3, <1>4, <1>5 DEF Gap

LEMMA CentTimes ==
    ASSUME NEW n \in Int
    PROVE  /\ n * Cent \in Int /\ Cent \in Int /\ Cent > 0
           /\ (n + 1) * Cent = n * Cent + Cent
           /\ (n + 2) * Cent = n * Cent + 2 * Cent
  BY BrokerAssumption

\* A result more allows half a cent more, and a close is two results of the pair.
LEMMA GapMoves ==
    ASSUME TypeInv, BothRun, GapInv, PnlFits',
           NEW d \in Int, Gap' = Gap + d, NEW k \in 0..2, Paired' = Paired + k,
           -(k * Cent) <= 4 * d, 4 * d <= k * Cent
    PROVE  GapInv'
<1>1. Gap \in Int /\ Paired \in Int
  BY GapType
<1> DEFINE w == Paired * Cent
<1>2. /\ w \in Int /\ Cent \in Int /\ Cent > 0
      /\ (Paired + 1) * Cent = w + Cent
      /\ (Paired + 2) * Cent = w + 2 * Cent
  BY <1>1, CentTimes
<1>3. Paired' * Cent = w + k * Cent
  <2>1. CASE k = 0
    BY <2>1, <1>1, <1>2
  <2>2. CASE k = 1
    BY <2>2, <1>1, <1>2
  <2>3. CASE k = 2
    BY <2>3, <1>1, <1>2
  <2> QED
    BY <2>1, <2>2, <2>3
<1> DEFINE x == k * Cent
<1>4. x \in Int
  BY <1>2
<1>5. -(w + x) <= 4 * Gap' /\ 4 * Gap' <= w + x
  <2>1. -w <= 4 * Gap /\ 4 * Gap <= w
    BY DEF GapInv
  <2>2. -x <= 4 * d /\ 4 * d <= x
    OBVIOUS
  <2>3. Gap' = Gap + d
    OBVIOUS
  <2> HIDE DEF w, x
  <2> QED
    BY <2>1, <2>2, <2>3, <1>1, <1>2, <1>4
<1>6. -(Paired' * Cent) <= 4 * Gap' /\ 4 * Gap' <= Paired' * Cent
  BY <1>3, <1>5
<1>7. Cent' = Cent
  OBVIOUS
<1> QED
  BY <1>6 DEF GapInv

\* A step that leaves both sides' money and the fills not heard of alone.
LEMMA GapKept ==
    ASSUME TypeInv, BothRun, GapInv, PnlFits',
           PortfolioValue' = PortfolioValue, Due' = Due,
           UNCHANGED <<bcash, bheld, bcost, issued>>
    PROVE  GapInv'
<1>1. Gap \in Int /\ Paired \in Int
  BY GapType
<1>2. TotalEquity' = TotalEquity /\ Paired' = Paired
  BY DEF TotalEquity, Paired, BrokerOpen
<1>3. Gap' = PortfolioValue' + TotalOf(Earned(Due')) - TotalEquity'
  BY DEF Gap
<1>4. Gap' = Gap
  BY <1>2, <1>3 DEF Gap
<1>5. Gap' = Gap + 0 /\ Paired' = Paired + 0
  BY <1>1, <1>2, <1>4
<1>6. -(0 * Cent) <= 4 * 0 /\ 4 * 0 <= 0 * Cent
  BY BrokerAssumption
<1> QED
  BY <1>5, <1>6, GapMoves

LEMMA DueKept == Unheard' = Unheard => Due' = Due
  BY DEF Due

\* A step that moves messages and no money.
LEMMA NoMoneyMoves ==
    ASSUME Steady, GapInv, Unheard' = Unheard,
           UNCHANGED <<ledger, bcash, bheld, bcost, issued>>
    PROVE  GapInv'
<1> USE DEF Steady
<1>1. Due' = Due
  BY DueKept
<1>2. PortfolioValue' = PortfolioValue
  BY ValueUnchanged
<1>3. PnlFits'
  BY <1>1 DEF GapInv, PnlFits, ledger
<1> QED
  BY <1>1, <1>2, <1>3, GapKept

(***************************************************************************)
(* The steps.                                                              *)
(***************************************************************************)

\* A proposal reserves: cash becomes a position of the same value.
LEMMA ProposeGap == ASSUME Steady, GapInv, NEW s \in Symbols, Propose(s) PROVE GapInv'
<1> USE DEF Steady
<1>1. /\ ~InFlight(s)
      /\ UNCHANGED execVars
      /\ \/ UNCHANGED ledger
         \/ /\ held[s] = "flat" /\ outgoing'.side \in Sides
            /\ OpenPosition(s, outgoing'.size, outgoing'.side)
  BY ProposeShape DEF Propose, Calm
<1>2. UNCHANGED <<bcash, bheld, bcost, issued>>
  BY <1>1 DEF execVars, brokerVars
<1>3. Due' = Due
  BY ProposeRepeat, DueKept
<1>4. LedgerType /\ FlatIsFreeOfCost
  BY GapType DEF Consistent, FlatCostsNothing, FlatIsFreeOfCost
<1>5. PortfolioValue' = PortfolioValue /\ \A t \in Symbols : t # s => held'[t] = held[t]
  <2>1. CASE UNCHANGED ledger
    BY <2>1, ValueUnchanged DEF ledger
  <2>2. CASE /\ held[s] = "flat" /\ outgoing'.side \in Sides
             /\ OpenPosition(s, outgoing'.size, outgoing'.side)
    <3>1. PICK side : side = outgoing'.side
      OBVIOUS
    <3>2. PICK size : size = outgoing'.size
      OBVIOUS
    <3>3. TypeInv'
      BY NextTypeInv DEF Next
    <3>4. size \in Int
      BY <2>2, <3>2, <3>3, <1>4 DEF OpenPosition, LedgerType, TypeInv, TypeOK, RiskTypeOK
    <3>5. PortfolioValue' = PortfolioValue
      BY <2>2, <3>1, <3>2, <3>4, <1>4, OpenPositionValue
    <3> QED
      BY <2>2, <3>5, <1>4 DEF OpenPosition, LedgerType
  <2> QED
    BY <1>1, <2>1, <2>2
<1>6. PnlFits'
  <2>1. \A r \in Due : r.symbol \in Symbols /\ r.symbol # s
    BY <1>1, GapType DEF InFlight, Carried, Due, Unheard, Results
  <2> QED
    BY <2>1, <1>3, <1>5 DEF GapInv, PnlFits
<1> QED
  BY <1>2, <1>3, <1>5, <1>6, GapKept

\* The awaits of the loops move no money.
LEMMA AwaitsGap ==
    ASSUME Steady, GapInv, Awaits, UNCHANGED execVars, BothRun'
    PROVE  GapInv'
<1> USE DEF Steady
<1>1. ~Lose /\ riskRunning /\ riskRunning' /\ ~RiskQuarantined
  BY CalmFaults DEF BothRun
<1>2. WriteLatch \/ BroadcastOverride \/ PublishAssessment
  BY <1>1 DEF Awaits, EmergencyHaltFails, PublishAssessmentFails, RiskHearsOverride, RiskLeaves,
              ResultUnheard
<1>3. UNCHANGED <<ledger, seen, results, filling, closing, bcash, bheld, bcost, issued>>
  BY <1>2 DEF WriteLatch, BroadcastOverride, PublishAssessment, halting, afterVerdict, channels,
         execVars, brokerVars, loopVars, monitorVars
<1>4. Reported' = Reported
  BY <1>3 DEF Reported, Messages
<1> QED
  BY <1>3, <1>4, UnheardKept, NoMoneyMoves

\* Risk books exactly the profit of a fill it hears of for the first time.
LEMMA ApplyValue ==
    ASSUME Steady, PnlFits, ApplyExecutionResult, UNCHANGED execVars, FirstSight(Head(results))
    PROVE  PortfolioValue' = PortfolioValue + (IF Head(results).filled THEN Head(results).pnl ELSE 0)
<1> USE DEF Steady
<1>1. PICK r : r = Head(results)
  OBVIOUS
<1> DEFINE t == r.symbol
<1>2. TakeResult /\ FirstSight(r)
  BY <1>1, Zenon DEF ApplyExecutionResult, ResultDuplicate, ResultReleased, ResultIgnored,
     ResultClosed, ResultReconciled, ResultAdopted
<1>3. r \in Reported /\ r \in Results
  BY <1>1, <1>2, HeadRepeat
<1>4. t \in Symbols /\ r.side \in Sides /\ r.pnl \in Int /\ r.cost \in Int
  BY <1>3 DEF Results
<1>5. LedgerType /\ FlatIsFreeOfCost /\ PortfolioValue \in Int
  BY GapType DEF Consistent, FlatCostsNothing, FlatIsFreeOfCost
<1>6. r.filled /\ r.pnl # 0 => held[t] = Opposite(r.side)
  BY <1>1, <1>2, <1>3, FirstSightRepeat DEF PnlFits, Due
<1>7. CASE ResultDuplicate
  BY <1>1, <1>2, <1>7 DEF ResultDuplicate, FirstSight
<1>8. CASE ResultReleased
  <2>1. ~r.filled /\ ClosePosition(t, 0)
    BY <1>1, <1>8 DEF ResultReleased
  <2>2. 0 \in Int
    OBVIOUS
  <2>3. PortfolioValue' = PortfolioValue + 0
    BY <2>1, <2>2, <1>4, <1>5, ClosePositionValue, Zenon
  <2> QED
    BY <2>1, <2>3, <1>1
<1>9. CASE ResultIgnored
  <2>1. ~r.filled /\ UNCHANGED ledger
    BY <1>1, <1>9 DEF ResultIgnored
  <2> QED
    BY <2>1, <1>1, <1>5, ValueUnchanged
<1>10. CASE ResultClosed
  <2>1. r.filled /\ ClosePosition(t, r.pnl)
    BY <1>1, <1>10 DEF ResultClosed
  <2>2. PortfolioValue' = PortfolioValue + r.pnl
    BY <2>1, <1>4, <1>5, ClosePositionValue, Zenon
  <2> QED
    BY <2>1, <2>2, <1>1
<1>11. CASE ResultReconciled
  <2>1. r.filled /\ held[t] = r.side /\ AdjustPositionCost(t, r.cost)
    BY <1>1, <1>11 DEF ResultReconciled
  <2>2. PortfolioValue' = PortfolioValue
    BY <2>1, <1>4, <1>5, AdjustPositionCostValue, Zenon
  <2>3. r.pnl = 0
    BY <2>1, <1>4, <1>6 DEF Opposite
  <2> QED
    BY <2>1, <2>2, <2>3, <1>1, <1>5
<1>12. CASE ResultAdopted
  <2>1. r.filled /\ held[t] = "flat" /\ OpenPosition(t, r.cost, r.side)
    BY <1>1, <1>12 DEF ResultAdopted
  <2>2. PortfolioValue' = PortfolioValue
    BY <2>1, <1>4, <1>5, OpenPositionValue, Zenon
  <2>3. r.pnl = 0
    BY <2>1, <1>4, <1>6 DEF Opposite
  <2> QED
    BY <2>1, <2>2, <2>3, <1>1, <1>5
<1> QED
  BY <1>7, <1>8, <1>9, <1>10, <1>11, <1>12 DEF ApplyExecutionResult

\* What a result that is heard for the first time does to the other fills: it
\* releases none of the positions they close.
LEMMA ApplyHeld ==
    ASSUME Steady, PnlFits, ApplyExecutionResult, UNCHANGED execVars, FirstSight(Head(results))
    PROVE  PnlFits'
<1> USE DEF Steady
<1>1. PICK r : r = Head(results)
  OBVIOUS
<1> DEFINE s == r.symbol
<1>2. TakeResult /\ FirstSight(r) /\ ~ResultDuplicate
  BY <1>1, Zenon DEF ApplyExecutionResult, ResultDuplicate, ResultReleased, ResultIgnored,
     ResultClosed, ResultReconciled, ResultAdopted, FirstSight
<1>3. r \in Reported /\ s \in Symbols /\ r.side \in Sides
  BY <1>1, <1>2, HeadRepeat
<1>4. /\ Unheard = Reported /\ Unheard' = Unheard \ {r}
      /\ r.filled => \A m \in Reported : m.symbol = s => m = r
  BY <1>1, <1>2, FirstSightRepeat
<1>5. held \in [Symbols -> Positions]
  BY DEF TypeInv, TypeOK, RiskTypeOK
<1>6. \A t \in Symbols : t # s => held'[t] = held[t]
  <2>1. CASE ResultReleased \/ ResultClosed
    BY <2>1, <1>1, <1>3, <1>5 DEF ResultReleased, ResultClosed, ClosePosition
  <2>2. CASE ResultIgnored \/ ResultReconciled
    BY <2>2 DEF ResultIgnored, ResultReconciled, ledger, AdjustPositionCost
  <2>3. CASE ResultAdopted
    BY <2>3, <1>1, <1>3, <1>5 DEF ResultAdopted, OpenPosition
  <2> QED
    BY <2>1, <2>2, <2>3, <1>2 DEF ApplyExecutionResult
<1>7. ~r.filled => held[s] = r.side \/ held' = held
  BY <1>1, <1>2 DEF ApplyExecutionResult, ResultReleased, ResultIgnored, ResultClosed,
     ResultReconciled, ResultAdopted, ledger
<1> SUFFICES ASSUME NEW m \in Due', m.pnl # 0 PROVE held'[m.symbol] = Opposite(m.side)
  BY DEF PnlFits
<1>8. m \in Due /\ m \in Reported /\ m # r /\ m.symbol \in Symbols /\ m.side \in Sides
  BY <1>4, IdsType DEF Due
<1>9. held[m.symbol] = Opposite(m.side)
  BY <1>8 DEF PnlFits
<1>10. CASE m.symbol # s
  BY <1>6, <1>8, <1>9, <1>10
<1>11. CASE m.symbol = s
  <2>1. ~r.filled /\ m.side = r.side
    BY <1>3, <1>4, <1>8, <1>11 DEF Consistent, OneProposal
  <2>2. held[s] # r.side
    BY <2>1, <1>3, <1>9, <1>11 DEF Opposite
  <2> QED
    BY <2>1, <2>2, <1>7, <1>9, <1>11
<1> QED
  BY <1>10, <1>11

LEMMA ApplyGap ==
    ASSUME Steady, GapInv, ApplyExecutionResult, UNCHANGED execVars
    PROVE  GapInv'
<1> USE DEF Steady
<1>1. PICK r : r = Head(results)
  OBVIOUS
<1>2. /\ TakeResult
      /\ \/ r.id \in SeenIds /\ seen' = seen /\ UNCHANGED ledger
         \/ FirstSight(r)
  BY <1>1, Zenon DEF ApplyExecutionResult, ResultDuplicate, ResultReleased, ResultIgnored,
     ResultClosed, ResultReconciled, ResultAdopted
<1>3. r \in Reported /\ r \in Results /\ Reported = Reported' \cup {r}
  BY <1>1, <1>2, HeadRepeat
<1>4. r.symbol \in Symbols /\ r.pnl \in Int
  BY <1>3 DEF Results
<1>5. UNCHANGED <<bcash, bheld, bcost, issued>>
  BY DEF execVars, brokerVars
<1>6. CASE r.id \in SeenIds /\ seen' = seen /\ UNCHANGED ledger
  <2>1. Unheard' = Unheard
    BY <1>3, <1>6 DEF Unheard, SeenIds
  <2> QED
    BY <2>1, <1>5, <1>6, NoMoneyMoves
<1>7. CASE FirstSight(r)
  <2>1. /\ Unheard = Reported /\ Unheard' = Unheard \ {r}
        /\ r.filled => \A m \in Reported : m.symbol = r.symbol => m = r
    BY <1>1, <1>2, <1>7, FirstSightRepeat
  <2>2. PnlFits
    BY DEF GapInv
  <2>3. PnlFits'
    BY <2>2, <1>1, <1>7, ApplyHeld
  <2>4. PortfolioValue' = PortfolioValue + (IF r.filled THEN r.pnl ELSE 0)
    BY <2>2, <1>1, <1>7, ApplyValue
  <2>5. CASE ~r.filled
    <3>1. Due' = Due
      BY <2>1, <2>5 DEF Due
    <3>2. PortfolioValue' = PortfolioValue
      BY <2>4, <2>5, GapType
    <3> QED
      BY <2>3, <3>1, <3>2, <1>5, GapKept
  <2>6. CASE r.filled
    <3>1. Due' = Due \ {r} /\ r \in Due /\ \A m \in Due : m.symbol = r.symbol => m = r
      BY <2>1, <2>6, <1>3 DEF Due
    <3>2. TotalOf(Earned(Due)) = TotalOf(Earned(Due')) + r.pnl
      BY <3>1, GapType, EarnedWithout
    <3>3. TotalEquity' = TotalEquity /\ Paired' = Paired
      BY <1>5 DEF TotalEquity, Paired, BrokerOpen
    <3>4. /\ Gap = PortfolioValue + TotalOf(Earned(Due)) - TotalEquity
          /\ Gap' = PortfolioValue' + TotalOf(Earned(Due')) - TotalEquity'
      BY DEF Gap
    <3>5. TotalOf(Earned(Due')) \in Int
      <4>1. Due' \in SUBSET Results
        BY <3>1, GapType
      <4> QED
        BY <4>1, EarnedType, TotalType
    <3>6. PortfolioValue \in Int /\ TotalEquity \in Int /\ Paired \in Int
      BY GapType
    <3>7. PortfolioValue' = PortfolioValue + r.pnl
      BY <2>4, <2>6
    <3>8. Gap' = Gap + 0 /\ Paired' = Paired + 0
      BY <3>2, <3>3, <3>4, <3>5, <3>6, <3>7, <1>4
    <3>9. -(0 * Cent) <= 4 * 0 /\ 4 * 0 <= 0 * Cent
      BY BrokerAssumption
    <3> QED
      BY <2>3, <3>8, <3>9, GapMoves
  <2> QED
    BY <2>5, <2>6
<1> QED
  BY <1>2, <1>6, <1>7

\* Taking an assessment and publishing a result move no money.
LEMMA TakeGap ==
    ASSUME Steady, GapInv, SkipRejected \/ ReplayFilled \/ BeginOrder, UNCHANGED riskVars
    PROVE  GapInv'
<1>1. UNCHANGED <<ledger, bcash, bheld, bcost, issued>>
  BY DEF SkipRejected, ReplayFilled, BeginOrder, riskVars, brokerVars
<1>2. Unheard' = Unheard
  BY TakeRepeat
<1> QED
  BY <1>1, <1>2, NoMoneyMoves

LEMMA PublishingGap ==
    ASSUME Steady, GapInv, Publishing, UNCHANGED riskVars, BothRun'
    PROVE  GapInv'
<1> USE DEF Steady
<1>1. PublishResult
  <2>1. ~Lose /\ execRunning /\ execRunning'
    BY CalmFaults DEF BothRun
  <2> QED
    BY <2>1 DEF Publishing, PublishResultFails, ExecHearsOverride, ExecLeaves
<1>2. /\ filling # None /\ filling' = None /\ results' = Append(results, filling)
      /\ UNCHANGED <<ledger, seen, closing, bcash, bheld, bcost, issued>>
  BY <1>1 DEF PublishResult, riskVars, ledger, brokerVars, monitorVars
<1>3. filling \in Results /\ results \in Seq(Results)
  BY <1>2 DEF TypeInv, TypeOK, ExecTypeOK, BusTypeOK
<1>4. Messages(results)' = Messages(results) \cup {filling}
  <2>1. Messages(Append(results, filling)) = Messages(results) \cup {filling}
    BY <1>3, MessagesAppend
  <2> QED
    BY <1>2, <2>1 DEF Messages
<1>5. Reported' = Reported
  BY <1>2, <1>4 DEF Reported
<1> QED
  BY <1>2, <1>5, UnheardKept, NoMoneyMoves

\* A repeated message is one that is in flight.
LEMMA RedeliverGap ==
    ASSUME Steady, GapInv, Redeliver, UNCHANGED <<riskVars, execVars>>
    PROVE  GapInv'
<1>1. UNCHANGED <<ledger, seen, filling, closing, bcash, bheld, bcost, issued>>
  BY DEF riskVars, execVars, brokerVars, loopVars, monitorVars
<1>2. results \in Seq(Results) /\ InOrder(results) /\ \A m \in Results : m.id \in Int
  BY DEF Steady, TypeInv, TypeOK, BusTypeOK, Consistent, ResultsInOrder, Results
<1>3. Messages(results') = Messages(results)
  BY <1>2, InOrderTwice DEF Redeliver
<1>4. Reported' = Reported
  BY <1>1, <1>3 DEF Reported, Messages
<1> QED
  BY <1>1, <1>4, UnheardKept, NoMoneyMoves

\* The broker answers an order: equity moves by the exact profit of a close, what
\* Risk will be told by the rounded one.
LEMMA PlaceValue ==
    ASSUME Steady, PlaceOrder, UNCHANGED riskVars
    PROVE  LET f == filling'
           IN  /\ f \in Results
               /\ f.pnl # 0 => f.filled /\ held[order.symbol] = Opposite(f.side)
               /\ \E d \in Int, k \in 0..2 :
                      /\ f.pnl - (TotalEquity' - TotalEquity) = d
                      /\ Paired' = Paired + k
                      /\ -(k * Cent) <= 4 * d /\ 4 * d <= k * Cent
<1> USE DEF Steady
<1>1. PICK s : s = order.symbol
  OBVIOUS
<1>2. PICK f : f = filling'
  OBVIOUS
<1>3. /\ order \in Assessments /\ s \in Symbols /\ order.side \in Sides /\ order.id \in Nat
      /\ Stands(order)
  BY <1>1, PlaceAnswer, PlaceRepeat
<1>4. BrokerType /\ issued \in Nat /\ TotalEquity \in Int /\ Paired \in Int
  BY GapType
<1>5. Cardinality(BrokerOpen) \in Nat
  BY OpenCount
<1>6. Cent \in Int /\ Cent > 0
  BY BrokerAssumption
<1>7. CASE Refused(order)
  <2>1. /\ UNCHANGED <<bcash, bheld, bcost>> /\ issued' = issued + 1
        /\ f = NextResult(order.id, s, order.side, FALSE, 0, 0)
    BY <1>1, <1>2, <1>7, Zenon DEF Refused, Refuse
  <2>2. 0 \in Int
    OBVIOUS
  <2>3. f \in Results
    BY <2>1, <2>2, <1>3, NextResultType, Zenon
  <2>4. f.pnl = 0
    BY <2>1, Zenon DEF NextResult, Result
  <2>5. TotalEquity' = TotalEquity /\ Paired' = Paired + 1
    BY <2>1, <1>4, <1>5 DEF TotalEquity, Paired, BrokerOpen
  <2>6. f.pnl - (TotalEquity' - TotalEquity) = 0
    BY <2>4, <2>5, <1>4
  <2>7. -(1 * Cent) <= 4 * 0 /\ 4 * 0 <= 1 * Cent /\ 1 \in 0..2
    BY <1>6
  <2> QED
    BY <2>3, <2>4, <2>5, <2>6, <2>7, <1>2
<1>8. CASE FillOpen
  <2>1. PICK actual \in FillCosts(order.size) :
           /\ Open(s, order.side, actual)
           /\ f = NextResult(order.id, s, order.side, TRUE, actual, 0)
    BY <1>1, <1>2, <1>8 DEF FillOpen
  <2>2. actual \in Int
    BY <1>3, BrokerAssumption DEF FillCosts, Assessments
  <2>3. bheld[s] = "flat" /\ bcost[s] = 0
    BY <1>1, <1>3, <1>8 DEF FillOpen, Consistent, FlatCostsNothing
  <2>4. 0 \in Int
    OBVIOUS
  <2>5. f \in Results
    BY <2>1, <2>2, <2>4, <1>3, NextResultType, Zenon
  <2>6. f.pnl = 0
    BY <2>1, Zenon DEF NextResult, Result
  <2>7. TotalEquity' = TotalEquity
    BY <2>1, <2>2, <2>3, <1>3, <1>4, OpenEquity
  <2>8. Cardinality(BrokerOpen') = Cardinality(BrokerOpen) + 1 /\ issued' = issued + 1
    BY <2>1, <2>3, <1>3, <1>4, OpenCountOpens DEF Open
  <2>9. Paired' = Paired + 0
    BY <2>8, <1>4, <1>5 DEF Paired
  <2>10. f.pnl - (TotalEquity' - TotalEquity) = 0
    BY <2>6, <2>7, <1>4
  <2>11. -(0 * Cent) <= 4 * 0 /\ 4 * 0 <= 0 * Cent /\ 0 \in 0..2
    BY <1>6
  <2> QED
    BY <2>5, <2>6, <2>9, <2>10, <2>11, <1>2
<1>9. CASE FillClose
  <2>1. PICK p \in Pnls(s) : Close(s, p) /\ f = ClosingFill(order.id, s, p)
    BY <1>1, <1>2, <1>9 DEF FillClose
  <2>2. p \in Int
    BY BrokerAssumption DEF Pnls
  <2>3. f \in Results
    BY <2>1, <1>3, CloseType
  <2>4. f.pnl = Quantize(p) /\ f.filled /\ f.side = Opposite(bheld[s])
    BY <2>1, Zenon DEF ClosingFill, NextResult, Result
  <2>5. bheld[s] = Opposite(order.side) /\ bheld[s] # "flat"
    BY <1>1, <1>3, <1>9 DEF FillClose, Opposite
  <2>6. held[s] = Opposite(f.side)
    BY <2>4, <2>5, <1>1, <1>3 DEF Stands, Opposite, Agree
  <2>7. TotalEquity' = TotalEquity + p
    BY <2>1, <2>2, <1>3, <1>4, CloseEquity
  <2>8. Cardinality(BrokerOpen') = Cardinality(BrokerOpen) - 1 /\ issued' = issued + 1
    BY <2>1, <2>5, <1>3, <1>4, OpenCountCloses DEF Close
  <2>9. Paired' = Paired + 2
    BY <2>8, <1>4, <1>5 DEF Paired
  <2>10. PICK q \in Int : q = Quantize(p)
    BY <2>2, QuantizeType
  <2>11. f.pnl - (TotalEquity' - TotalEquity) = q - p
    BY <2>2, <2>4, <2>7, <2>10, <1>4
  <2>12. -Cent <= 2 * (q - p) /\ 2 * (q - p) <= Cent
    BY <2>2, <2>10, QuantizeClose
  <2>13. -(2 * Cent) <= 4 * (q - p) /\ 4 * (q - p) <= 2 * Cent /\ q - p \in Int /\ 2 \in 0..2
    BY <2>2, <2>10, <2>12, <1>6
  <2> QED
    BY <2>3, <2>4, <2>6, <2>9, <2>11, <2>13, <1>1, <1>2
<1> QED
  BY <1>7, <1>8, <1>9 DEF PlaceOrder, RefuseUnusable, RefuseStacking, RefuseUnfunded

LEMMA PlaceGap == ASSUME Steady, GapInv, PlaceOrder, UNCHANGED riskVars PROVE GapInv'
<1> USE DEF Steady
<1>1. PICK s : s = order.symbol
  OBVIOUS
<1>2. PICK f : f = filling'
  OBVIOUS
<1>3. /\ held' = held /\ f.symbol = s
      /\ f \in Results
      /\ f.pnl # 0 => f.filled /\ held[s] = Opposite(f.side)
  BY <1>1, <1>2, PlaceAnswer, PlaceValue
<1>4. PICK d \in Int, k \in 0..2 :
         /\ f.pnl - (TotalEquity' - TotalEquity) = d
         /\ Paired' = Paired + k
         /\ -(k * Cent) <= 4 * d /\ 4 * d <= k * Cent
  BY <1>2, PlaceValue
<1>5. Unheard' = Unheard \cup {f} /\ \A r \in Reported : r.symbol = s => ~r.filled
  BY <1>1, <1>2, PlaceRepeat
<1>6. \A m \in Due : m.symbol # s
  BY <1>5 DEF Due, Unheard
<1>7. PnlFits'
  <2>1. Due' \subseteq Due \cup {f}
    BY <1>5 DEF Due
  <2> QED
    BY <2>1, <1>3 DEF GapInv, PnlFits
<1>8. f.pnl \in Int /\ TotalOf(Earned(Due)) \in Int
  BY <1>3, GapType DEF Results
<1>9. TotalOf(Earned(Due')) = TotalOf(Earned(Due)) + f.pnl
  <2>1. CASE f.filled
    <3>1. Due' = Due \cup {f}
      BY <2>1, <1>5 DEF Due
    <3>2. Due' \in SUBSET Results /\ f \in Due' /\ Due' \ {f} = Due
      BY <3>1, <1>3, <1>6, GapType
    <3>3. \A m \in Due' : m.symbol = f.symbol => m = f
      BY <3>1, <1>3, <1>6
    <3> QED
      BY <3>2, <3>3, EarnedWithout
  <2>2. CASE ~f.filled
    <3>1. Due' = Due
      BY <2>2, <1>5 DEF Due
    <3> QED
      BY <2>2, <3>1, <1>3, <1>8
  <2> QED
    BY <2>1, <2>2
<1>10. PortfolioValue' = PortfolioValue
  BY ValueUnchanged DEF riskVars
<1>11. /\ Gap = PortfolioValue + TotalOf(Earned(Due)) - TotalEquity
       /\ Gap' = PortfolioValue' + TotalOf(Earned(Due')) - TotalEquity'
  BY DEF Gap
<1>12. PortfolioValue \in Int /\ TotalEquity \in Int
  BY GapType
<1>13. TotalEquity' \in Int
  <2>1. TypeInv'
    BY NextTypeInv DEF Next, ExecStep
  <2>2. BrokerType'
    BY <2>1 DEF TypeInv, TypeOK, ExecTypeOK, BrokerTypeOK, BrokerType
  <2>3. bcash' \in Int /\ bcost' \in [Symbols -> Int]
    BY <2>2 DEF BrokerType
  <2>4. TotalOf(bcost') \in Int
    BY <2>3, TotalType
  <2> QED
    BY <2>3, <2>4 DEF TotalEquity
<1>14. Gap' = Gap + d
  BY <1>4, <1>8, <1>9, <1>10, <1>11, <1>12, <1>13
<1> QED
  BY <1>4, <1>7, <1>14, GapMoves

LEMMA InitGap == Init => GapInv
<1> SUFFICES ASSUME Init PROVE GapInv
  OBVIOUS
<1>1. /\ results = <<>> /\ filling = None /\ closing = None /\ issued = 0
      /\ bcash = InitialBalance /\ bheld = [s \in Symbols |-> "flat"]
      /\ bcost = [s \in Symbols |-> 0] /\ LedgerInit
  BY Zenon DEF Init, BusInit, RiskInit, ExecInit, BrokerInit
<1>2. Due = {}
  <2>1. Messages(<<>>) = {}
    BY DEF Messages
  <2> QED
    BY <1>1, <2>1 DEF Due, Unheard, Reported
<1>3. PortfolioValue = InitialBalance
  BY <1>1, LedgerInitValue
<1>4. TotalEquity = InitialBalance
  BY <1>1, TotalOfNone, LedgerAssumption DEF TotalEquity
<1>5. Paired = 0
  <2>1. BrokerOpen = {}
    BY <1>1 DEF BrokerOpen
  <2> QED
    BY <2>1, <1>1, FS_EmptySet DEF Paired
<1>6. Gap = 0
  BY <1>2, <1>3, <1>4, EarnedNone, LedgerAssumption DEF Gap
<1>7. -(Paired * Cent) <= 4 * Gap /\ 4 * Gap <= Paired * Cent
  BY <1>5, <1>6, BrokerAssumption
<1> QED
  BY <1>2, <1>7 DEF GapInv, PnlFits

LEMMA NextGap == ASSUME Calm, RInv, GapInv, [Next]_vars PROVE GapInv'
<1> SUFFICES ASSUME BothRun' PROVE GapInv'
  BY DEF GapInv
<1>1. Steady
  BY RunningBefore DEF RInv, RepeatInv, Steady
<1>2. ASSUME NEW s \in Symbols, Propose(s) PROVE GapInv'
  BY <1>1, <1>2, ProposeGap
<1>3. CASE RiskStep /\ UNCHANGED execVars
  BY <1>1, <1>3, AwaitsGap, ApplyGap DEF RiskStep, Awaits
<1>4. CASE ExecStep /\ UNCHANGED riskVars
  <2>1. ~Monitoring
    BY <1>1, NoMonitorSteps DEF Steady
  <2> QED
    BY <2>1, <1>1, <1>4, TakeGap, PlaceGap, PublishingGap DEF ExecStep, Publishing, Monitoring
<1>5. CASE LoseAssessment \/ LoseResult
  BY <1>1, <1>5, CalmFaults DEF LoseAssessment, LoseResult, Steady
<1>6. CASE Redeliver /\ UNCHANGED <<riskVars, execVars>>
  BY <1>1, <1>6, RedeliverGap
<1>7. CASE UNCHANGED vars
  <2>1. UNCHANGED <<ledger, seen, results, filling, closing, bcash, bheld, bcost, issued>>
    BY <1>7 DEF vars, riskVars, execVars, bus, channels, brokerVars, loopVars, monitorVars
  <2>2. Reported' = Reported
    BY <2>1 DEF Reported, Messages
  <2> QED
    BY <2>1, <2>2, <1>1, UnheardKept, NoMoneyMoves
<1> QED
  BY <1>2, <1>3, <1>4, <1>5, <1>6, <1>7 DEF Next

\* With everything settled, the portfolio value that Risk's loss limits look at
\* (drawdown_monitor.py, portfolio_value) is the broker's equity up to the rounding
\* of realized_pnl_usd (agents/execution/paper_broker.py, _close): half a cent for
\* every two results, however often an assessment or a result is repeated.
THEOREM EquityAgreement == ASSUME Calm PROVE Spec => []EquityAgrees
<1>1. Init => GapInv
  BY InitGap
<1>2. RInv /\ GapInv /\ [Next]_vars => GapInv'
  BY NextGap
<1>3. RInv /\ GapInv => EquityAgrees
  <2> SUFFICES ASSUME RInv, GapInv, BothRun, \A s \in Symbols : ~InFlight(s)
               PROVE  LET gap == PortfolioValue - TotalEquity
                      IN  -issued * Cent <= 4 * gap /\ 4 * gap <= issued * Cent
    BY DEF EquityAgrees
  <2>1. /\ PortfolioValue \in Int /\ TotalEquity \in Int /\ Paired \in Int /\ issued \in Nat
        /\ Due \in SUBSET Results
    BY GapType DEF RInv
  <2>2. Due = {}
    BY <2>1 DEF InFlight, Carried, Due, Unheard, Results
  <2>3. Gap = PortfolioValue - TotalEquity
    BY <2>1, <2>2, EarnedNone DEF Gap
  <2>4. -(Paired * Cent) <= 4 * Gap /\ 4 * Gap <= Paired * Cent
    BY DEF GapInv
  <2>5. /\ Paired * Cent <= issued * Cent /\ -issued * Cent = -(issued * Cent)
        /\ Paired * Cent \in Int /\ issued * Cent \in Int
    <3>1. Cent \in Int /\ Cent > 0
      BY BrokerAssumption
    <3>2. Cardinality(BrokerOpen) \in Nat
      BY OpenCount
    <3>3. Paired <= issued
      BY <2>1, <3>2 DEF Paired
    <3>4. \A m, n \in Int : m <= n => m * Cent <= n * Cent
      BY <3>1
    <3>5. \A n \in Int : n * Cent \in Int /\ -n * Cent = -(n * Cent)
      BY <3>1
    <3> QED
      BY <2>1, <3>3, <3>4, <3>5
  <2> DEFINE w == Paired * Cent
             x == issued * Cent
             y == -issued * Cent
  <2>6. w \in Int /\ x \in Int /\ y = -x /\ w <= x /\ -w <= 4 * Gap /\ 4 * Gap <= w
    BY <2>4, <2>5
  <2> HIDE DEF w, x, y
  <2>7. y <= 4 * (PortfolioValue - TotalEquity) /\ 4 * (PortfolioValue - TotalEquity) <= x
    BY <2>1, <2>3, <2>6
  <2> QED
    BY <2>7 DEF x, y
<1> QED
  BY <1>1, <1>2, <1>3, RepeatInvariant, PTL DEF Spec

--------------------------------------------------------------------------------
(***************************************************************************)
(* The two books of a symbol whose orders never met, without Calm: other   *)
(* symbols' orders overlap, the stop-loss monitor closes, messages are     *)
(* lost and repeated, either agent stops.  A step of the pipeline is       *)
(* looked at from one symbol s that is clear and stays so.                 *)
(***************************************************************************)
HInv == TypeInv /\ HistoryInv

(***************************************************************************)
(* Queues, place by place.                                                 *)
(***************************************************************************)
LEMMA TailAt ==
    ASSUME NEW S, NEW q \in Seq(S), q # <<>>
    PROVE  /\ Len(q) \in Nat /\ DOMAIN q = 1..Len(q) /\ DOMAIN Tail(q) = 1..(Len(q) - 1)
           /\ 1 \in DOMAIN q /\ Head(q) = q[1]
           /\ \A i \in DOMAIN Tail(q) : i + 1 \in DOMAIN q /\ Tail(q)[i] = q[i + 1]
  OBVIOUS

LEMMA AppendAt ==
    ASSUME NEW S, NEW q \in Seq(S), NEW x \in S
    PROVE  /\ Len(q) \in Nat /\ DOMAIN q = 1..Len(q) /\ DOMAIN Append(q, x) = 1..(Len(q) + 1)
           /\ Append(q, x)[Len(q) + 1] = x
           /\ \A i \in DOMAIN q : Append(q, x)[i] = q[i]
  OBVIOUS

LEMMA TwiceAt ==
    ASSUME NEW S, NEW q \in Seq(S), q # <<>>
    PROVE  /\ Len(q) \in Nat /\ DOMAIN q = 1..Len(q) /\ DOMAIN Twice(q) = 1..(Len(q) + 1)
           /\ 1 \in DOMAIN q /\ Head(q) = q[1] /\ Twice(q)[1] = q[1]
           /\ \A i \in 2..(Len(q) + 1) : i - 1 \in DOMAIN q /\ Twice(q)[i] = q[i - 1]
  BY DEF Twice

LEMMA MessagesTwice ==
    ASSUME NEW S, NEW q \in Seq(S), q # <<>>
    PROVE  Messages(Twice(q)) = Messages(q)
<1> DEFINE t == Twice(q)
<1>1. /\ Len(q) \in Nat /\ DOMAIN q = 1..Len(q) /\ DOMAIN t = 1..(Len(q) + 1)
      /\ 1 \in DOMAIN q /\ t[1] = q[1]
      /\ \A i \in 2..(Len(q) + 1) : i - 1 \in DOMAIN q /\ t[i] = q[i - 1]
  BY TwiceAt
<1> HIDE DEF t
<1>2. \A i \in DOMAIN t : \E j \in DOMAIN q : t[i] = q[j]
  <2> TAKE i \in DOMAIN t
  <2>1. i = 1 \/ i \in 2..(Len(q) + 1)
    BY <1>1
  <2> QED BY <1>1, <2>1
<1>3. \A j \in DOMAIN q : \E i \in DOMAIN t : t[i] = q[j]
  <2> TAKE j \in DOMAIN q
  <2>1. j + 1 \in 2..(Len(q) + 1) /\ j + 1 \in DOMAIN t /\ (j + 1) - 1 = j
    BY <1>1
  <2> QED BY <1>1, <2>1
<1> QED BY <1>2, <1>3 DEF Messages, t

\* Copies of a message stand one behind the other at the head of the queue.
Copies(q, s) ==
    \A i, j \in DOMAIN q :
        q[i].symbol = s /\ i < j /\ q[i] = q[j] => \A k \in 1..j : q[k] = q[j]

HeardLast(q, s, ids, last) ==
    \A j \in DOMAIN q :
        q[j].symbol = s /\ q[j].id \in ids => last = q[j].id /\ \A k \in 1..j : q[k] = q[j]

LEMMA CopiesTail ==
    ASSUME NEW S, NEW q \in Seq(S), q # <<>>, NEW s, NEW ids, NEW last
    PROVE  /\ Copies(q, s) => Copies(Tail(q), s)
           /\ HeardLast(q, s, ids, last) => HeardLast(Tail(q), s, ids, last)
<1> DEFINE t == Tail(q)
<1>1. /\ Len(q) \in Nat /\ DOMAIN q = 1..Len(q) /\ DOMAIN t = 1..(Len(q) - 1)
      /\ \A i \in DOMAIN t : i + 1 \in DOMAIN q /\ t[i] = q[i + 1]
  BY TailAt
<1> HIDE DEF t
<1>2. ASSUME Copies(q, s) PROVE Copies(t, s)
  <2> SUFFICES ASSUME NEW i \in DOMAIN t, NEW j \in DOMAIN t, t[i].symbol = s, i < j, t[i] = t[j],
                      NEW k \in 1..j
               PROVE  t[k] = t[j]
    BY DEF Copies
  <2>1. /\ i + 1 \in DOMAIN q /\ j + 1 \in DOMAIN q /\ i + 1 < j + 1 /\ k \in DOMAIN t
        /\ k + 1 \in 1..(j + 1)
    BY <1>1
  <2> QED BY <1>1, <1>2, <2>1 DEF Copies
<1>3. ASSUME HeardLast(q, s, ids, last) PROVE HeardLast(t, s, ids, last)
  <2> SUFFICES ASSUME NEW j \in DOMAIN t, t[j].symbol = s, t[j].id \in ids
               PROVE  last = t[j].id /\ \A k \in 1..j : t[k] = t[j]
    BY DEF HeardLast
  <2>1. /\ j + 1 \in DOMAIN q /\ t[j] = q[j + 1]
        /\ \A k \in 1..j : k \in DOMAIN t /\ k + 1 \in 1..(j + 1)
    BY <1>1
  <2> QED BY <1>1, <1>3, <2>1 DEF HeardLast
<1> QED BY <1>2, <1>3 DEF t

LEMMA CopiesAppend ==
    ASSUME NEW S, NEW q \in Seq(S), NEW x \in S, NEW s, NEW ids, NEW last,
           x.symbol = s => x \notin Messages(q) /\ x.id \notin ids
    PROVE  /\ Copies(q, s) => Copies(Append(q, x), s)
           /\ HeardLast(q, s, ids, last) => HeardLast(Append(q, x), s, ids, last)
<1> DEFINE t == Append(q, x)
           n == Len(q) + 1
<1>1. /\ Len(q) \in Nat /\ DOMAIN q = 1..Len(q) /\ DOMAIN t = 1..n /\ t[n] = x
      /\ \A i \in DOMAIN q : t[i] = q[i]
  BY AppendAt
<1> HIDE DEF t
<1>2. ASSUME Copies(q, s) PROVE Copies(t, s)
  <2> SUFFICES ASSUME NEW i \in DOMAIN t, NEW j \in DOMAIN t, t[i].symbol = s, i < j, t[i] = t[j]
               PROVE  \A k \in 1..j : t[k] = t[j]
    BY DEF Copies
  <2>1. i \in DOMAIN q /\ t[i] = q[i]
    BY <1>1
  <2>2. j # n
    BY <1>1, <2>1 DEF Messages
  <2>3. j \in DOMAIN q /\ t[j] = q[j] /\ \A k \in 1..j : k \in DOMAIN q /\ t[k] = q[k]
    BY <1>1, <2>2
  <2> QED BY <1>2, <2>1, <2>3 DEF Copies
<1>3. ASSUME HeardLast(q, s, ids, last) PROVE HeardLast(t, s, ids, last)
  <2> SUFFICES ASSUME NEW j \in DOMAIN t, t[j].symbol = s, t[j].id \in ids
               PROVE  last = t[j].id /\ \A k \in 1..j : t[k] = t[j]
    BY DEF HeardLast
  <2>2. j # n
    BY <1>1
  <2>3. j \in DOMAIN q /\ t[j] = q[j] /\ \A k \in 1..j : k \in DOMAIN q /\ t[k] = q[k]
    BY <1>1, <2>2
  <2> QED BY <1>3, <2>3 DEF HeardLast
<1> QED BY <1>2, <1>3 DEF t

LEMMA CopiesTwice ==
    ASSUME NEW S, NEW q \in Seq(S), q # <<>>, NEW s, NEW ids, NEW last
    PROVE  /\ Copies(q, s) => Copies(Twice(q), s)
           /\ HeardLast(q, s, ids, last) => HeardLast(Twice(q), s, ids, last)
<1> DEFINE t == Twice(q)
           at(i) == IF i = 1 THEN 1 ELSE i - 1
<1>1. /\ Len(q) \in Nat /\ DOMAIN q = 1..Len(q) /\ DOMAIN t = 1..(Len(q) + 1) /\ 1 \in DOMAIN q
      /\ t[1] = q[1] /\ \A i \in 2..(Len(q) + 1) : i - 1 \in DOMAIN q /\ t[i] = q[i - 1]
  BY TwiceAt
<1>2. \A i \in DOMAIN t : at(i) \in DOMAIN q /\ t[i] = q[at(i)]
  BY <1>1
<1>3. \A i, j \in DOMAIN t : i <= j => at(i) \in 1..at(j)
  BY <1>1
<1>4. \A i, j \in DOMAIN t : i < j => at(i) < at(j) \/ (i = 1 /\ j = 2)
  BY <1>1
<1> HIDE DEF t, at
<1>5. ASSUME Copies(q, s) PROVE Copies(t, s)
  <2> SUFFICES ASSUME NEW i \in DOMAIN t, NEW j \in DOMAIN t, t[i].symbol = s, i < j, t[i] = t[j],
                      NEW k \in 1..j
               PROVE  t[k] = t[j]
    BY DEF Copies
  <2>1. k \in DOMAIN t /\ k <= j
    BY <1>1
  <2>2. CASE at(i) < at(j)
    BY <1>2, <1>3, <1>5, <2>1, <2>2 DEF Copies
  <2>3. CASE i = 1 /\ j = 2
    BY <1>1, <2>3
  <2> QED BY <1>4, <2>2, <2>3
<1>6. ASSUME HeardLast(q, s, ids, last) PROVE HeardLast(t, s, ids, last)
  <2> SUFFICES ASSUME NEW j \in DOMAIN t, t[j].symbol = s, t[j].id \in ids
               PROVE  last = t[j].id /\ \A k \in 1..j : t[k] = t[j]
    BY DEF HeardLast
  <2>1. \A k \in 1..j : k \in DOMAIN t /\ k <= j
    BY <1>1
  <2> QED BY <1>2, <1>3, <1>6, <2>1 DEF HeardLast
<1> QED BY <1>5, <1>6 DEF t

\* The result applied last is the one remembered last.
LEMMA LastRemembered ==
    ASSUME NEW S, NEW q \in Seq(S), NEW x \in S, NEW max \in Nat \ {0}
    PROVE  Remembered(q, x, max)[Len(Remembered(q, x, max))] = x
<1> DEFINE longer == Append(q, x)
<1>1. longer \in Seq(S) /\ Len(longer) = Len(q) + 1 /\ Len(q) \in Nat /\ longer[Len(q) + 1] = x
  OBVIOUS
<1> HIDE DEF longer
<1>2. CASE Len(longer) > max
  <2>1. Len(Tail(longer)) = Len(q) /\ Len(q) \in 1..(Len(longer) - 1)
    BY <1>1, <1>2
  <2>2. Tail(longer)[Len(q)] = longer[Len(q) + 1]
    BY <1>1, <2>1
  <2> QED BY <1>1, <1>2, <2>1, <2>2 DEF Remembered, longer
<1>3. CASE ~(Len(longer) > max)
  BY <1>1, <1>3 DEF Remembered, longer
<1> QED BY <1>2, <1>3

LEMMA LastSeen ==
    ASSUME NEW q \in Seq(Nat), NEW x \in Nat
    PROVE  Remembered(q, x, SeenMax)[Len(Remembered(q, x, SeenMax))] = x
<1>1. SeenMax \in Nat \ {0}
  BY RiskAssumption
<1> QED BY <1>1, LastRemembered

(***************************************************************************)
(* Messages and numbers.                                                   *)
(***************************************************************************)

\* A request and a result are never the same message.
LEMMA Apart == ASSUME NEW a \in Assessments, NEW r \in Results PROVE a # r
<1>1. "pid" \notin DOMAIN a /\ "pid" \in DOMAIN r
  BY DEF Assessments, Results
<1> QED BY <1>1

LEMMA HistoryTypes ==
    ASSUME TypeInv
    PROVE  /\ assessments \in Seq(Assessments) /\ results \in Seq(Results)
           /\ outgoing \in Assessments \cup {None} /\ order \in Assessments \cup {None}
           /\ filling \in Results \cup {None} /\ closing \in Results \cup {None}
           /\ filledOrders \in Seq(Results) /\ seen \in Seq(Nat)
           /\ held \in [Symbols -> Positions] /\ bheld \in [Symbols -> Positions]
           /\ proposed \in Nat /\ issued \in Nat
           /\ Messages(filledOrders) \subseteq Results
           /\ Approvals \subseteq Assessments /\ Unheard \subseteq Results
<1>1. filledOrders \in Seq(Results)
  BY DEF TypeInv, TypeOK, ExecTypeOK, BrokerTypeOK
<1>2. Messages(filledOrders) \subseteq Results
  BY <1>1 DEF Messages
<1>3. proposed \in Nat
  BY RiskAssumption DEF TypeInv, TypeOK, RiskTypeOK
<1> QED BY <1>1, <1>2, <1>3, CarriedType
        DEF TypeInv, TypeOK, BusTypeOK, RiskTypeOK, ExecTypeOK, BrokerTypeOK, Approvals, Unheard

LEMMA MessageTypes ==
    ASSUME TypeInv
    PROVE  /\ \A a \in Requested : /\ a.id \in Nat /\ a.symbol \in Symbols /\ a.side \in Sides
                                   /\ a # None
           /\ \A r \in Reported \cup Messages(filledOrders) :
                 /\ r.id \in Nat /\ r.pid \in Nat /\ r.symbol \in Symbols /\ r.side \in Sides
                 /\ r # None
<1>1. Requested \subseteq Assessments /\ Reported \cup Messages(filledOrders) \subseteq Results
  BY CarriedType, HistoryTypes
<1> QED BY <1>1, NoneApart DEF Assessments, Results

\* No remembered fill answers the proposal.
LEMMA CachedNone ==
    /\ \A id : Cached(id) = {} <=> \A f \in Messages(filledOrders) : f.pid # id
    /\ \A id : Cached(id)' = {} <=> \A f \in Messages(filledOrders)' : f.pid # id
  BY DEF Cached, Messages

\* Nothing new is numbered.
LEMMA OrderlyKept ==
    ASSUME TypeInv, Orderly, Requested' \subseteq Requested,
           Messages(filledOrders)' \subseteq Messages(filledOrders),
           Reported' \subseteq Reported \cup Messages(filledOrders),
           proposed' \in {proposed, proposed + 1}, issued' = issued,
           \A id \in SeenIds' : id \in SeenIds \/ \E r \in Reported : id = r.id,
           order' = None \/ filling' = None, order' # None => order'.approved,
           RiskQuarantined' => outgoing' = None
    PROVE  Orderly'
<1>1. \A a \in Requested' : a.id <= proposed'
  <2>1. \A a \in Requested : a.id \in Nat /\ a.id <= proposed
    BY MessageTypes DEF Orderly
  <2> QED BY <2>1, HistoryTypes
<1>2. \A f \in Messages(filledOrders)' : f.pid <= proposed'
  <2>1. \A f \in Messages(filledOrders) : f.pid \in Nat /\ f.pid <= proposed
    BY MessageTypes DEF Orderly
  <2> QED BY <2>1, HistoryTypes
<1>3. \A id \in SeenIds' : id <= issued'
  BY DEF Orderly
<1>4. /\ \A a, b \in Requested' : a.id = b.id => a = b
      /\ \A f \in Messages(filledOrders)', a \in Requested' : f.pid = a.id => f.symbol = a.symbol
      /\ \A r \in Reported' \cup Messages(filledOrders)' :
            /\ r.id <= issued'
            /\ \A q \in Reported' \cup Messages(filledOrders)' : r.id = q.id => r = q
  BY DEF Orderly
<1> QED BY <1>1, <1>2, <1>3, <1>4 DEF Orderly

\* The broker has answered with a result of its own: the next number is given.
LEMMA OrderlyIssued ==
    ASSUME TypeInv, Orderly, NEW f \in Results, f.id = issued + 1, issued' = issued + 1,
           Requested' \subseteq Requested, Reported' \subseteq Reported \cup {f},
           \/ Messages(filledOrders)' \subseteq Messages(filledOrders)
           \/ /\ Messages(filledOrders)' \subseteq Messages(filledOrders) \cup {f}
              /\ \E a \in Requested : f.pid = a.id /\ f.symbol = a.symbol,
           UNCHANGED <<proposed, seen, riskErrors, outgoing>>, order' = None \/ filling' = None,
           order' # None => order'.approved
    PROVE  Orderly'
<1>1. SeenIds' = SeenIds /\ RiskQuarantined' = RiskQuarantined
  BY DEF SeenIds, RiskQuarantined
<1>2. issued \in Nat /\ proposed \in Nat /\ f.id \in Nat /\ f.pid \in Nat
  BY HistoryTypes DEF Results
<1>3. \A r \in Reported \cup Messages(filledOrders) : r.id \in Nat /\ r.id <= issued /\ r.id # f.id
  BY <1>2, MessageTypes DEF Orderly
<1>4. \A r \in Reported' \cup Messages(filledOrders)' :
         /\ r.id <= issued'
         /\ \A q \in Reported' \cup Messages(filledOrders)' : r.id = q.id => r = q
  <2>1. Reported' \cup Messages(filledOrders)' \subseteq Reported \cup Messages(filledOrders) \cup {f}
    OBVIOUS
  <2>2. \A r \in Reported \cup Messages(filledOrders) \cup {f} : r.id <= issued + 1
    BY <1>2, <1>3
  <2>3. \A r, q \in Reported \cup Messages(filledOrders) \cup {f} : r.id = q.id => r = q
    BY <1>3 DEF Orderly
  <2> QED BY <2>1, <2>2, <2>3
<1>5. \A id \in SeenIds' : id <= issued'
  <2>1. seen \in Seq(Nat)
    BY HistoryTypes
  <2>2. \A id \in SeenIds : id \in Nat /\ id <= issued
    BY <2>1 DEF Orderly, SeenIds
  <2> QED BY <1>1, <1>2, <2>2
<1>6. \A g \in Messages(filledOrders)' :
         /\ g.pid <= proposed'
         /\ \A a \in Requested' : g.pid = a.id => g.symbol = a.symbol
  <2> SUFFICES ASSUME NEW g \in Messages(filledOrders)', g \notin Messages(filledOrders)
               PROVE  /\ g.pid <= proposed
                      /\ \A a \in Requested : g.pid = a.id => g.symbol = a.symbol
    BY DEF Orderly
  <2>1. g = f
    OBVIOUS
  <2>2. PICK b \in Requested : f.pid = b.id /\ f.symbol = b.symbol
    OBVIOUS
  <2> QED BY <2>1, <2>2 DEF Orderly
<1>7. \A a \in Requested' : a.id <= proposed' /\ \A b \in Requested' : a.id = b.id => a = b
  BY DEF Orderly
<1> QED BY <1>1, <1>4, <1>5, <1>6, <1>7 DEF Orderly

(***************************************************************************)
(* The ways in which a step leaves symbol s as it should be.               *)
(***************************************************************************)

\* The books of s, and what is live for it.
Fitting(s) ==
    /\ \A m, n \in Live : m.symbol = s /\ n.symbol = s => m = n
    /\ BooksFit(s)
    /\ PositionReserved(s)

LEMMA StraightParts ==
    ASSUME NEW s
    PROVE  /\ Straight(s) <=> RequestsOnce(s) /\ ResultsOnce(s) /\ Fitting(s)
           /\ Straight(s)' <=> RequestsOnce(s)' /\ ResultsOnce(s)' /\ Fitting(s)'
  BY DEF Straight, Fitting

\* Nothing is left of s.
LEMMA SettledStraight == ASSUME TypeInv', NEW s \in Symbols, Settles(s) PROVE Straight(s)'
<1>1. /\ held'[s] = "flat" /\ bheld'[s] = "flat"
      /\ \A m \in Requested' \cup Reported' : m.symbol # s
  BY DEF Settles, InFlight, Carried
<1>2. /\ Approvals' \subseteq Requested' /\ Unheard' \subseteq Reported'
      /\ Live' = Approvals' \cup Unheard'
  BY DEF Approvals, Unheard, Live
<1>3. /\ Requested' = Messages(assessments') \cup ({outgoing', order'} \ {None})
      /\ Reported' = Messages(results') \cup ({filling', closing'} \ {None})
  BY DEF Requested, Reported, Messages
<1>4. /\ \A i \in DOMAIN assessments' : assessments'[i].symbol # s
      /\ \A i \in DOMAIN results' : results'[i].symbol # s
      /\ order' # None => order'.symbol # s
      /\ outgoing' # None => outgoing'.symbol # s
      /\ filling' # None => filling'.symbol # s
      /\ closing' # None => closing'.symbol # s
  BY <1>1, <1>3 DEF Messages
<1>5. RequestsOnce(s)'
  BY <1>1, <1>2, <1>4 DEF RequestsOnce
<1>6. ResultsOnce(s)'
  BY <1>4 DEF ResultsOnce
<1>7. Fitting(s)'
  BY <1>1, <1>2, <1>4 DEF Fitting, BooksFit, PositionReserved
<1> QED BY <1>5, <1>6, <1>7, StraightParts

\* Messages for s are handed on, or lost with the agent that would have read them.
LEMMA FittingKept ==
    ASSUME NEW s \in Symbols, Fitting(s),
           \A a \in Approvals' : a.symbol = s => a \in Approvals,
           \A r \in Unheard' : r.symbol = s => r \in Unheard,
           order' # None /\ order'.symbol = s =>
               order' = order \/ (execRunning /\ order' \in Approvals),
           held'[s] = held[s], bheld'[s] = bheld[s],
           execRunning' => execRunning, RiskHears' => RiskHears,
           execRunning' /\ RiskHears' /\ LiveFor(s) => LiveFor(s)'
    PROVE  Fitting(s)'
<1>1. /\ \A a : a.symbol = s => (ApprovalFits(a)' <=> ApprovalFits(a))
      /\ \A r : r.symbol = s => (ReportFits(r)' <=> ReportFits(r))
  BY DEF ApprovalFits, ReportFits
<1>2. \A m, n \in Live' : m.symbol = s /\ n.symbol = s => m = n
  BY DEF Live, Fitting
<1>3. BooksFit(s)'
  <2>1. \A r \in Unheard' : r.symbol = s => ReportFits(r)'
    BY <1>1 DEF Fitting, BooksFit
  <2>2. order' # None /\ order'.symbol = s => ApprovalFits(order')
    BY DEF Fitting, BooksFit
  <2>3. order' # None /\ order'.symbol = s => ApprovalFits(order)'
    BY <2>2 DEF ApprovalFits
  <2>4. execRunning' => \A a \in Approvals' : a.symbol = s => ApprovalFits(a)'
    BY <1>1 DEF Fitting, BooksFit
  <2>5. execRunning' /\ RiskHears' /\ ~LiveFor(s)' => held'[s] = bheld'[s]
    BY DEF Fitting, BooksFit
  <2> QED BY <2>1, <2>3, <2>4, <2>5 DEF BooksFit
<1>4. PositionReserved(s)'
  BY DEF Fitting, PositionReserved
<1> QED BY <1>2, <1>3, <1>4 DEF Fitting

(***************************************************************************)
(* Approvals for s stay single.                                            *)
(***************************************************************************)
Singly(q, s) ==
    \A i, j \in DOMAIN q : q[i].symbol = s /\ q[i].approved /\ q[i] = q[j] => i = j

LEMMA RequestsParts ==
    ASSUME NEW s
    PROVE  /\ RequestsOnce(s) <=>
                 /\ Singly(assessments, s)
                 /\ \A a \in {order, outgoing} \ {None} :
                        a.symbol = s /\ a.approved => a \notin Messages(assessments)
                 /\ order # None /\ order.symbol = s => order # outgoing
                 /\ \A a \in Approvals : a.symbol = s => \A f \in Messages(filledOrders) : f.pid # a.id
           /\ RequestsOnce(s)' <=>
                 /\ Singly(assessments', s)
                 /\ \A a \in {order', outgoing'} \ {None} :
                        a.symbol = s /\ a.approved => a \notin Messages(assessments')
                 /\ order' # None /\ order'.symbol = s => order' # outgoing'
                 /\ \A a \in Approvals' : a.symbol = s => \A f \in Messages(filledOrders') : f.pid # a.id
  BY CachedNone DEF RequestsOnce, Singly, Messages

LEMMA SinglyTail ==
    ASSUME NEW S, NEW q \in Seq(S), q # <<>>, NEW s, Singly(q, s)
    PROVE  /\ Singly(Tail(q), s)
           /\ Head(q).symbol = s /\ Head(q).approved => Head(q) \notin Messages(Tail(q))
<1> DEFINE t == Tail(q)
<1>1. /\ Len(q) \in Nat /\ DOMAIN q = 1..Len(q) /\ DOMAIN t = 1..(Len(q) - 1)
      /\ 1 \in DOMAIN q /\ Head(q) = q[1]
      /\ \A i \in DOMAIN t : i + 1 \in DOMAIN q /\ t[i] = q[i + 1]
  BY TailAt
<1> HIDE DEF t
<1>2. ASSUME NEW i \in DOMAIN t, NEW j \in DOMAIN t, t[i].symbol = s, t[i].approved, t[i] = t[j]
      PROVE  i = j
  <2>1. i + 1 = j + 1
    BY <1>1, <1>2 DEF Singly
  <2> QED BY <1>1, <2>1
<1>3. ASSUME q[1].symbol = s, q[1].approved, NEW i \in DOMAIN t, t[i] = q[1] PROVE FALSE
  <2>1. i + 1 = 1
    BY <1>1, <1>3 DEF Singly
  <2> QED BY <1>1, <2>1
<1> QED BY <1>1, <1>2, <1>3 DEF Singly, Messages, t

LEMMA SinglyAppend ==
    ASSUME NEW S, NEW q \in Seq(S), NEW x \in S, NEW s, Singly(q, s),
           x.symbol = s /\ x.approved => x \notin Messages(q)
    PROVE  Singly(Append(q, x), s)
<1> DEFINE t == Append(q, x)
           n == Len(q) + 1
<1>1. /\ Len(q) \in Nat /\ DOMAIN q = 1..Len(q) /\ DOMAIN t = 1..n /\ t[n] = x
      /\ \A i \in DOMAIN q : t[i] = q[i]
  BY AppendAt
<1>2. \A i \in 1..n : i = n \/ i \in DOMAIN q
  BY <1>1
<1> HIDE DEF t, n
<1> SUFFICES ASSUME NEW i \in DOMAIN t, NEW j \in DOMAIN t, t[i].symbol = s, t[i].approved, t[i] = t[j]
             PROVE  i = j
  BY DEF Singly, t
<1>3. CASE i = n /\ j # n
  BY <1>1, <1>2, <1>3 DEF Messages
<1>4. CASE i # n /\ j = n
  BY <1>1, <1>2, <1>4 DEF Messages
<1>5. CASE i # n /\ j # n
  BY <1>1, <1>2, <1>5 DEF Singly
<1> QED BY <1>3, <1>4, <1>5

LEMMA SinglyTwice ==
    ASSUME NEW S, NEW q \in Seq(S), q # <<>>, NEW s, Singly(q, s),
           ~(Head(q).symbol = s /\ Head(q).approved)
    PROVE  Singly(Twice(q), s)
<1> DEFINE t == Twice(q)
<1>1. /\ Len(q) \in Nat /\ DOMAIN q = 1..Len(q) /\ DOMAIN t = 1..(Len(q) + 1)
      /\ Head(q) = q[1] /\ t[1] = q[1]
      /\ \A i \in 2..(Len(q) + 1) : i - 1 \in DOMAIN q /\ t[i] = q[i - 1]
  BY TwiceAt
<1> HIDE DEF t
<1> SUFFICES ASSUME NEW i \in DOMAIN t, NEW j \in DOMAIN t, t[i].symbol = s, t[i].approved, t[i] = t[j]
             PROVE  i = j
  BY DEF Singly, t
<1>2. i # 1 /\ j # 1
  BY <1>1
<1>3. i \in 2..(Len(q) + 1) /\ j \in 2..(Len(q) + 1)
  BY <1>1, <1>2
<1>4. i - 1 = j - 1
  BY <1>1, <1>3 DEF Singly
<1> QED BY <1>3, <1>4

\* Requests are handed back or dropped.
LEMMA RequestsOnceKept ==
    ASSUME TypeInv, NEW s, RequestsOnce(s),
           assessments' = assessments \/ (assessments # <<>> /\ assessments' = Tail(assessments)),
           order' \in {order, None}, outgoing' \in {outgoing, None},
           Messages(filledOrders)' \subseteq Messages(filledOrders)
    PROVE  RequestsOnce(s)' /\ Requested' \subseteq Requested
<1>1. Singly(assessments', s) /\ Messages(assessments') \subseteq Messages(assessments)
  <2>1. assessments \in Seq(Assessments) /\ Singly(assessments, s)
    BY HistoryTypes, RequestsParts
  <2>2. CASE assessments' = assessments
    BY <2>1, <2>2
  <2>3. CASE assessments # <<>> /\ assessments' = Tail(assessments)
    BY <2>1, <2>3, SinglyTail, MessagesTail
  <2> QED BY <2>2, <2>3
<1>2. Requested' \subseteq Requested
  BY <1>1 DEF Requested, Messages
<1>3. Messages(filledOrders') \subseteq Messages(filledOrders)
  BY DEF Messages
<1>4. Approvals' \subseteq Approvals
  BY <1>2 DEF Approvals
<1>5. /\ \A a \in {order', outgoing'} \ {None} :
             a.symbol = s /\ a.approved => a \notin Messages(assessments')
      /\ order' # None /\ order'.symbol = s => order' # outgoing'
  BY <1>1, RequestsParts
<1>6. \A a \in Approvals' : a.symbol = s => \A f \in Messages(filledOrders') : f.pid # a.id
  BY <1>3, <1>4, RequestsParts
<1> QED BY <1>1, <1>2, <1>5, <1>6, RequestsParts

\* Execution takes one.
LEMMA RequestsOnceTaken ==
    ASSUME TypeInv, NEW s, RequestsOnce(s), order = None, assessments # <<>>, Head(assessments).approved,
           assessments' = Tail(assessments), order' = Head(assessments),
           UNCHANGED <<outgoing, filledOrders>>
    PROVE  RequestsOnce(s)' /\ Requested' = Requested
<1> DEFINE a == Head(assessments)
<1>1. /\ assessments \in Seq(Assessments) /\ a \in Assessments /\ a # None
      /\ Messages(assessments) = Messages(assessments') \cup {a}
  BY HistoryTypes, MessagesTail, NoneApart
<1>2. /\ Singly(assessments', s)
      /\ a.symbol = s /\ a.approved => a \notin Messages(assessments')
  BY HistoryTypes, SinglyTail, RequestsParts
<1>3. a \in Messages(assessments) /\ order' = a /\ a.approved
  BY <1>1
<1> HIDE DEF a
<1>4. Requested' = Requested
  BY <1>1, <1>3 DEF Requested, Messages
<1>5. Approvals' = Approvals
  BY <1>4 DEF Approvals
<1>6. \A b \in {order', outgoing'} \ {None} :
         b.symbol = s /\ b.approved => b \notin Messages(assessments')
  BY <1>1, <1>2, <1>3, RequestsParts
<1>7. \A b \in Approvals' : b.symbol = s => \A f \in Messages(filledOrders') : f.pid # b.id
  BY <1>5, RequestsParts DEF Messages
<1>8. order'.symbol = s => order' # outgoing'
  BY <1>1, <1>3, RequestsParts
<1> QED BY <1>2, <1>4, <1>6, <1>7, <1>8, RequestsParts

\* Risk publishes one.
LEMMA RequestsOncePublished ==
    ASSUME TypeInv, NEW s, RequestsOnce(s), outgoing # None,
           assessments' = Append(assessments, outgoing), outgoing' = None,
           UNCHANGED <<order, filledOrders>>
    PROVE  RequestsOnce(s)' /\ Requested' = Requested
<1>1. /\ assessments \in Seq(Assessments) /\ outgoing \in Assessments
      /\ Messages(assessments') = Messages(assessments) \cup {outgoing}
  BY HistoryTypes, MessagesAppend
<1>2. Singly(assessments', s)
  BY <1>1, SinglyAppend, RequestsParts
<1>3. Requested' = Requested
  BY <1>1 DEF Requested, Messages
<1>4. Approvals' = Approvals
  BY <1>3 DEF Approvals
<1>5. \A b \in {order', outgoing'} \ {None} :
         b.symbol = s /\ b.approved => b \notin Messages(assessments')
  BY <1>1, RequestsParts
<1>6. order' # None /\ order'.symbol = s => order' # outgoing'
  OBVIOUS
<1>7. \A b \in Approvals' : b.symbol = s => \A f \in Messages(filledOrders') : f.pid # b.id
  BY <1>4, RequestsParts
<1> QED BY <1>2, <1>3, <1>5, <1>6, <1>7, RequestsParts

\* Risk has a new one, which has the next number.
LEMMA RequestsOnceProposed ==
    ASSUME TypeInv, Orderly, NEW s, RequestsOnce(s), outgoing = None, outgoing'.id = proposed + 1,
           UNCHANGED <<assessments, order, filledOrders>>
    PROVE  RequestsOnce(s)' /\ Requested' \subseteq Requested \cup {outgoing'}
<1>1. Messages(assessments') = Messages(assessments) /\ Messages(filledOrders') = Messages(filledOrders)
  OBVIOUS
<1>2. /\ Requested' = Requested \cup ({outgoing'} \ {None})
      /\ Messages(assessments) \subseteq Requested /\ {order} \ {None} \subseteq Requested
  BY DEF Requested, Messages
<1>3. /\ \A a \in Requested : a.id # outgoing'.id
      /\ \A f \in Messages(filledOrders) : f.pid # outgoing'.id
  <2>1. /\ proposed \in Nat
        /\ \A a \in Requested : a.id \in Nat /\ a.id <= proposed
        /\ \A f \in Messages(filledOrders) : f.pid \in Nat /\ f.pid <= proposed
    BY HistoryTypes, MessageTypes DEF Orderly
  <2> QED BY <2>1
<1>4. \A a \in {order', outgoing'} \ {None} :
         a.symbol = s /\ a.approved => a \notin Messages(assessments')
  BY <1>1, <1>2, <1>3, RequestsParts
<1>5. order' # None /\ order'.symbol = s => order' # outgoing'
  BY <1>2, <1>3
<1>6. \A a \in Approvals' : a.symbol = s => \A f \in Messages(filledOrders') : f.pid # a.id
  <2>1. Approvals' \subseteq Approvals \cup {outgoing'}
    BY <1>2 DEF Approvals
  <2> QED BY <2>1, <1>1, <1>3, RequestsParts
<1>7. Singly(assessments', s)
  BY RequestsParts
<1> QED BY <1>2, <1>4, <1>5, <1>6, <1>7, RequestsParts

\* The broker has worked on one and remembers its fill.
LEMMA RequestsOncePlaced ==
    ASSUME TypeInv, Orderly, NEW s, RequestsOnce(s), order # None, order' = None, NEW f,
           f.pid = order.id, Messages(filledOrders)' \subseteq Messages(filledOrders) \cup {f},
           UNCHANGED <<assessments, outgoing>>
    PROVE  /\ RequestsOnce(s)'
           /\ Requested' \subseteq Requested
           /\ \A a \in Approvals' : a.symbol = s => a \in Approvals /\ a # order
<1>1. Messages(assessments') = Messages(assessments)
  OBVIOUS
<1>2. /\ Requested' \subseteq Requested /\ order \in Requested
      /\ Requested' = Messages(assessments) \cup ({outgoing} \ {None})
  BY DEF Requested, Messages
<1>3. Approvals' \subseteq Approvals /\ \A a \in Approvals' : a \in Requested' /\ a.approved
  BY <1>2 DEF Approvals
<1>4. \A a \in Approvals' : a.symbol = s => a # order
  BY <1>2, <1>3, RequestsParts
<1>5. ASSUME NEW a \in Approvals', a.symbol = s, NEW g \in Messages(filledOrders') PROVE g.pid # a.id
  <2>1. a # order /\ a \in Requested /\ a \in Approvals
    BY <1>2, <1>3, <1>4, <1>5
  <2>2. a.id # order.id
    BY <1>2, <2>1 DEF Orderly
  <2>3. g \in Messages(filledOrders) \cup {f}
    BY <1>5 DEF Messages
  <2> QED BY <1>5, <2>1, <2>2, <2>3, RequestsParts
<1>6. \A a \in {order', outgoing'} \ {None} :
         a.symbol = s /\ a.approved => a \notin Messages(assessments')
  BY <1>1, RequestsParts
<1>7. Singly(assessments', s)
  BY RequestsParts
<1> QED BY <1>2, <1>3, <1>4, <1>5, <1>6, <1>7, RequestsParts

\* The head of the channel is delivered twice; it is no approval for s.
LEMMA RequestsOnceTwice ==
    ASSUME TypeInv, NEW s, RequestsOnce(s), assessments # <<>>, assessments' = Twice(assessments),
           ~(Head(assessments).symbol = s /\ Head(assessments).approved),
           UNCHANGED <<order, outgoing, filledOrders>>
    PROVE  RequestsOnce(s)'
<1>1. assessments \in Seq(Assessments) /\ \A m \in Assessments : m.id \in Int
  BY HistoryTypes DEF Assessments
<1>2. Singly(assessments', s)
  BY <1>1, SinglyTwice, RequestsParts
<1>3. Messages(assessments') = Messages(assessments)
  BY <1>1, MessagesTwice
<1>4. Requested' = Requested
  BY <1>3 DEF Requested, Messages
<1>5. Approvals' = Approvals
  BY <1>4 DEF Approvals
<1> QED BY <1>2, <1>3, <1>5, RequestsParts

(***************************************************************************)
(* Results for s are published once.                                       *)
(***************************************************************************)
LEMMA ResultsParts ==
    ASSUME NEW s
    PROVE  /\ ResultsOnce(s) <=>
                 /\ \A r \in {filling, closing} \ {None} :
                        r.symbol = s => r.id \notin SeenIds /\ r \notin Messages(results)
                 /\ filling # None /\ filling.symbol = s => filling # closing
                 /\ Copies(results, s)
                 /\ HeardLast(results, s, SeenIds, seen[Len(seen)])
           /\ ResultsOnce(s)' <=>
                 /\ \A r \in {filling', closing'} \ {None} :
                        r.symbol = s => r.id \notin SeenIds' /\ r \notin Messages(results')
                 /\ filling' # None /\ filling'.symbol = s => filling' # closing'
                 /\ Copies(results', s)
                 /\ HeardLast(results', s, SeenIds', seen'[Len(seen')])
  BY DEF ResultsOnce, Copies, HeardLast, Messages

\* A result is handed on, or it is dropped.
LEMMA ResultsOnceKept ==
    ASSUME TypeInv, NEW s, ResultsOnce(s), seen' = seen,
           results' = results \/ (results # <<>> /\ results' = Tail(results)),
           filling' # None /\ filling'.symbol = s => filling' = filling,
           closing' # None /\ closing'.symbol = s => closing' = closing
    PROVE  ResultsOnce(s)'
<1>1. results \in Seq(Results)
  BY HistoryTypes
<1>2. /\ Copies(results', s) /\ HeardLast(results', s, SeenIds', seen'[Len(seen')])
      /\ Messages(results') \subseteq Messages(results)
  <2>1. Copies(results, s) /\ HeardLast(results, s, SeenIds, seen[Len(seen)]) /\ SeenIds' = SeenIds
    BY ResultsParts DEF SeenIds
  <2>2. CASE results' = results
    BY <2>1, <2>2
  <2>3. CASE results # <<>> /\ results' = Tail(results)
    BY <1>1, <2>1, <2>3, CopiesTail, MessagesTail
  <2> QED BY <2>2, <2>3
<1>3. SeenIds' = SeenIds
  BY DEF SeenIds
<1>4. \A r \in {filling', closing'} \ {None} :
         r.symbol = s => r.id \notin SeenIds' /\ r \notin Messages(results')
  BY <1>2, <1>3, ResultsParts
<1>5. filling' # None /\ filling'.symbol = s => filling' # closing'
  BY ResultsParts
<1> QED BY <1>2, <1>4, <1>5, ResultsParts

\* A result is published.
LEMMA ResultsOncePublished ==
    ASSUME TypeInv, NEW s, ResultsOnce(s), seen' = seen, NEW r \in Results,
           results' = Append(results, r),
           \/ r = filling /\ filling' = None /\ closing' = closing
           \/ r = closing /\ closing' = None /\ filling' = filling
    PROVE  ResultsOnce(s)' /\ Reported' = Reported
<1>1. /\ results \in Seq(Results) /\ r # None /\ SeenIds' = SeenIds
      /\ Messages(results') = Messages(results) \cup {r}
  BY HistoryTypes, MessagesAppend, NoneApart DEF SeenIds
<1>2. r.symbol = s => r \notin Messages(results) /\ r.id \notin SeenIds
  BY <1>1, ResultsParts
<1>3. Copies(results', s) /\ HeardLast(results', s, SeenIds', seen'[Len(seen')])
  <2>1. Copies(results, s) /\ HeardLast(results, s, SeenIds, seen[Len(seen)])
    BY ResultsParts
  <2> QED BY <1>1, <1>2, <2>1, CopiesAppend
<1>4. \A q \in {filling', closing'} \ {None} :
         q.symbol = s => q.id \notin SeenIds' /\ q \notin Messages(results')
  BY <1>1, ResultsParts
<1>5. filling' # None /\ filling'.symbol = s => filling' # closing'
  OBVIOUS
<1>6. Reported' = Reported
  BY <1>1 DEF Reported, Messages
<1> QED BY <1>3, <1>4, <1>5, <1>6, ResultsParts

\* The broker has a new one.
LEMMA ResultsOnceIssued ==
    ASSUME TypeInv, Orderly, NEW s, ResultsOnce(s), UNCHANGED <<results, seen>>,
           NEW f \in Results, f.id = issued + 1,
           \/ filling' = f /\ closing' = closing
           \/ closing' = f /\ filling' = filling
    PROVE  ResultsOnce(s)'
<1>1. SeenIds' = SeenIds /\ Messages(results') = Messages(results)
  BY DEF SeenIds
<1>2. /\ Messages(results) \subseteq Reported
      /\ {filling, closing} \ {None} \subseteq Reported
  BY DEF Reported
<1>3. /\ \A r \in Reported : r.id # f.id
      /\ f.id \notin SeenIds
  <2>1. /\ issued \in Nat
        /\ \A r \in Reported : r.id \in Nat /\ r.id <= issued
        /\ \A id \in SeenIds : id \in Nat /\ id <= issued
    BY HistoryTypes, MessageTypes DEF Orderly, SeenIds
  <2> QED BY <2>1
<1>4. \A r \in {filling', closing'} \ {None} :
         r.symbol = s => r.id \notin SeenIds' /\ r \notin Messages(results')
  BY <1>1, <1>2, <1>3, ResultsParts
<1>5. filling' # None /\ filling'.symbol = s => filling' # closing'
  <2>1. ASSUME filling' = closing', filling' # None PROVE FALSE
    BY <2>1, <1>2, <1>3
  <2> QED BY <2>1
<1>6. Copies(results', s) /\ HeardLast(results', s, SeenIds', seen'[Len(seen')])
  BY <1>1, ResultsParts
<1> QED BY <1>4, <1>5, <1>6, ResultsParts

\* The head of the channel is delivered twice.
LEMMA ResultsOnceTwice ==
    ASSUME TypeInv, NEW s, ResultsOnce(s), results # <<>>, results' = Twice(results),
           UNCHANGED <<seen, filling, closing>>
    PROVE  ResultsOnce(s)' /\ Reported' = Reported
<1>1. results \in Seq(Results) /\ SeenIds' = SeenIds
  BY HistoryTypes DEF SeenIds
<1>2. Messages(results') = Messages(results)
  BY <1>1, MessagesTwice
<1>3. Copies(results', s) /\ HeardLast(results', s, SeenIds', seen'[Len(seen')])
  <2>1. Copies(results, s) /\ HeardLast(results, s, SeenIds, seen[Len(seen)])
    BY ResultsParts
  <2> QED BY <1>1, <2>1, CopiesTwice
<1>4. Reported' = Reported
  BY <1>2 DEF Reported, Messages
<1>5. /\ \A r \in {filling, closing} \ {None} :
             r.symbol = s => r.id \notin SeenIds /\ r \notin Messages(results)
      /\ filling # None /\ filling.symbol = s => filling # closing
  BY ResultsParts
<1>6. /\ \A r \in {filling', closing'} \ {None} :
             r.symbol = s => r.id \notin SeenIds' /\ r \notin Messages(results')
      /\ filling' # None /\ filling'.symbol = s => filling' # closing'
  BY <1>1, <1>2, <1>5
<1>7. ResultsOnce(s)'
  BY <1>3, <1>6, ResultsParts
<1> QED BY <1>4, <1>7

\* What Risk remembers of a result it applies.
LEMMA SightRemembered ==
    ASSUME TypeInv, NEW h \in Results, FirstSight(h)
    PROVE  /\ h.id \in SeenIds' /\ seen'[Len(seen')] = h.id
           /\ \A id \in SeenIds' : id \in SeenIds \/ id = h.id
<1>1. seen \in Seq(Nat) /\ h.id \in Nat /\ SeenMax \in Nat \ {0}
  BY HistoryTypes, RiskAssumption DEF Results
<1> HIDE DEF Sides, Positions
<1>2. seen' = Remembered(seen, h.id, SeenMax)
  BY DEF FirstSight
<1>3. SeenIds' = Messages(seen') /\ SeenIds = Messages(seen)
  BY DEF SeenIds, Messages
<1>4. Messages(seen') \subseteq Messages(seen) \cup {h.id} /\ h.id \in Messages(seen')
  BY <1>1, <1>2, MessagesRemembered, RememberedNewest
<1>5. seen'[Len(seen')] = h.id
  <2>1. Remembered(seen, h.id, SeenMax)[Len(Remembered(seen, h.id, SeenMax))] = h.id
    BY <1>1, LastSeen
  <2> QED BY <1>2, <2>1, Zenon
<1> QED BY <1>3, <1>4, <1>5

\* Risk applies one and remembers it.  What it forgets at the same moment was no
\* result for s that is still on its way.
LEMMA ResultsOnceHeard ==
    ASSUME TypeInv, Orderly, NEW s, ResultsOnce(s), results # <<>>, FirstSight(Head(results)),
           results' = Tail(results), UNCHANGED <<filling, closing>>
    PROVE  LET h == Head(results)
           IN  /\ ResultsOnce(s)'
               /\ Reported' \subseteq Reported /\ h \in Unheard
               /\ \A r \in Unheard' : r.symbol = s => r \in Unheard /\ r # h
               /\ \A r \in Unheard : r # h => r \in Unheard'
<1>1. PICK h : h = Head(results)
  OBVIOUS
<1>2. /\ results \in Seq(Results) /\ h \in Results /\ h.id \in Nat
      /\ Messages(results) = Messages(results') \cup {h}
  <2>1. results \in Seq(Results)
    BY HistoryTypes
  <2>2. h \in Results /\ Messages(results) = Messages(results') \cup {h}
    BY <1>1, <2>1, TailType, MessagesTail
  <2>3. h.id \in Nat
    BY <2>2 DEF Results
  <2> QED BY <2>1, <2>2, <2>3
<1>3. h \in Reported /\ Reported' \subseteq Reported /\ \A r \in Reported : r # h => r \in Reported'
  BY <1>2 DEF Reported, Messages
<1>4. h.id \notin SeenIds
  BY <1>1 DEF FirstSight
<1>5. h \in Unheard
  BY <1>3, <1>4 DEF Unheard
<1>6. /\ \A id \in SeenIds' : id \in SeenIds \/ id = h.id
      /\ h.id \in SeenIds' /\ seen'[Len(seen')] = h.id
  BY <1>1, <1>2, SightRemembered
<1>7. \A r \in Reported : r.id = h.id => r = h
  BY <1>3 DEF Orderly
<1>8. Copies(results, s) /\ HeardLast(results, s, SeenIds, seen[Len(seen)])
  BY ResultsParts
<1>9. /\ Len(results) \in Nat /\ DOMAIN results = 1..Len(results)
      /\ DOMAIN results' = 1..(Len(results) - 1) /\ h = results[1] /\ 1 \in DOMAIN results
      /\ \A i \in DOMAIN results' : i + 1 \in DOMAIN results /\ results'[i] = results[i + 1]
  BY <1>1, <1>2, TailAt
<1>10. ASSUME NEW j \in DOMAIN results', results'[j].symbol = s PROVE results'[j].id \notin SeenIds
  <2>1. j + 1 \in DOMAIN results /\ 1 \in 1..(j + 1) /\ results'[j] = results[j + 1]
    BY <1>9
  <2>2. ASSUME results[j + 1].id \in SeenIds PROVE FALSE
    <3>1. results[1] = results[j + 1]
      BY <1>8, <1>10, <2>1, <2>2 DEF HeardLast
    <3> QED BY <1>4, <1>9, <2>2, <3>1
  <2> QED BY <2>1, <2>2
<1>11. HeardLast(results', s, SeenIds', h.id)
  <2> SUFFICES ASSUME NEW j \in DOMAIN results', results'[j].symbol = s, results'[j].id \in SeenIds'
               PROVE  h.id = results'[j].id /\ \A k \in 1..j : results'[k] = results'[j]
    BY DEF HeardLast
  <2>1. results'[j].id = h.id
    BY <1>6, <1>10
  <2>2. results'[j] \in Reported
    BY <1>3 DEF Reported, Messages
  <2>3. /\ j + 1 \in DOMAIN results /\ 1 < j + 1 /\ results[j + 1] = results'[j] /\ results[1] = h
        /\ \A k \in 1..j : k \in DOMAIN results' /\ k + 1 \in 1..(j + 1)
    BY <1>9
  <2>4. \A k \in 1..(j + 1) : results[k] = results[j + 1]
    BY <1>7, <1>8, <1>9, <2>1, <2>2, <2>3 DEF Copies
  <2> QED BY <1>9, <2>1, <2>3, <2>4
<1>12. \A r \in {filling', closing'} \ {None} :
          r.symbol = s => r.id \notin SeenIds' /\ r \notin Messages(results')
  <2> SUFFICES ASSUME NEW r \in {filling, closing} \ {None}, r.symbol = s
               PROVE  r.id \notin SeenIds' /\ r \notin Messages(results')
    OBVIOUS
  <2>1. r \in Reported /\ r.id \notin SeenIds /\ r \notin Messages(results)
    BY ResultsParts DEF Reported
  <2> QED BY <1>2, <1>6, <1>7, <2>1
<1>13. ASSUME NEW r \in Unheard', r.symbol = s PROVE r \in Unheard /\ r # h
  <2>1. r \in Reported /\ r \in Reported' /\ r.id \notin SeenIds'
    BY <1>3, <1>13 DEF Unheard
  <2>2. r.id \notin SeenIds
    <3>1. CASE r \in {filling, closing} \ {None}
      BY <1>13, <3>1, ResultsParts
    <3>2. CASE r \in Messages(results')
      BY <1>10, <1>13, <3>2 DEF Messages
    <3> QED BY <2>1, <3>1, <3>2 DEF Reported, Messages
  <2> QED BY <1>6, <2>1, <2>2 DEF Unheard
<1>14. \A r \in Unheard : r # h => r \in Unheard'
  BY <1>3, <1>6, <1>7 DEF Unheard
<1>15. ResultsOnce(s)'
  <2>1. Copies(results', s)
    BY <1>2, <1>8, CopiesTail
  <2>2. filling' # None /\ filling'.symbol = s => filling' # closing'
    BY ResultsParts
  <2>3. HeardLast(results', s, SeenIds', seen'[Len(seen')])
    BY <1>6, <1>11
  <2> QED BY <1>12, <2>1, <2>2, <2>3, ResultsParts
<1> QED BY <1>1, <1>3, <1>5, <1>6, <1>13, <1>14, <1>15

(***************************************************************************)
(* Steps that hand a message on or drop one.                               *)
(***************************************************************************)

\* What every step has to keep.
KeepsStraight == Orderly' /\ \A s \in Symbols : Straight(s) /\ ~Tangles(s) => Straight(s)'

Dropping ==
    /\ assessments' = assessments \/ (assessments # <<>> /\ assessments' = Tail(assessments))
    /\ results' = results \/ (results # <<>> /\ results' = Tail(results))
    /\ order' \in {order, None} /\ outgoing' \in {outgoing, None}
    /\ filling' \in {filling, None} /\ closing' \in {closing, None}
    /\ UNCHANGED <<seen, issued, filledOrders, held, bheld>>
    /\ proposed' \in {proposed, proposed + 1}
    /\ execRunning' => execRunning
    /\ RiskHears' => RiskHears
    /\ RiskQuarantined' => outgoing' = None

LEMMA DroppedMessages ==
    ASSUME TypeInv, Dropping
    PROVE  /\ Requested' \subseteq Requested /\ Reported' \subseteq Reported
           /\ SeenIds' = SeenIds /\ Messages(filledOrders)' = Messages(filledOrders)
           /\ Approvals' \subseteq Approvals /\ Unheard' \subseteq Unheard
<1>1. assessments \in Seq(Assessments) /\ results \in Seq(Results)
  BY HistoryTypes
<1>2. Messages(assessments') \subseteq Messages(assessments)
  <2>1. CASE assessments' = assessments
    BY <2>1
  <2>2. CASE assessments # <<>> /\ assessments' = Tail(assessments)
    BY <1>1, <2>2, MessagesTail
  <2> QED BY <2>1, <2>2 DEF Dropping
<1>3. Messages(results') \subseteq Messages(results)
  <2>1. CASE results' = results
    BY <2>1
  <2>2. CASE results # <<>> /\ results' = Tail(results)
    BY <1>1, <2>2, MessagesTail
  <2> QED BY <2>1, <2>2 DEF Dropping
<1>4. Requested' \subseteq Requested
  BY <1>2 DEF Requested, Messages, Dropping
<1>5. Reported' \subseteq Reported
  BY <1>3 DEF Reported, Messages, Dropping
<1>6. SeenIds' = SeenIds /\ Messages(filledOrders)' = Messages(filledOrders)
  BY DEF Dropping, SeenIds, Messages
<1> QED BY <1>4, <1>5, <1>6 DEF Approvals, Unheard

\* s is not troubled when the agent that would have acted on the message has
\* stopped, or when something is left for s.
LEMMA DroppedStraight ==
    ASSUME TypeInv, Orderly, Dropping
    PROVE  /\ Orderly'
           /\ \A s \in Symbols :
                  Straight(s) /\ (execRunning' /\ RiskHears' /\ LiveFor(s) => LiveFor(s)')
                      => Straight(s)'
<1>1. Orderly'
  BY DroppedMessages, OrderlyKept DEF Dropping, Orderly
<1>2. ASSUME NEW s \in Symbols, Straight(s),
             execRunning' /\ RiskHears' /\ LiveFor(s) => LiveFor(s)'
      PROVE  Straight(s)'
  <2>1. RequestsOnce(s) /\ ResultsOnce(s) /\ Fitting(s)
    BY <1>2, StraightParts
  <2>2. RequestsOnce(s)'
    BY <2>1, DroppedMessages, RequestsOnceKept DEF Dropping
  <2>3. ResultsOnce(s)'
    BY <2>1, ResultsOnceKept DEF Dropping
  <2>4. Fitting(s)'
    BY <1>2, <2>1, DroppedMessages, FittingKept DEF Dropping
  <2> QED BY <2>2, <2>3, <2>4, StraightParts
<1> QED BY <1>1, <1>2

\* A loss that does not concern s leaves what is live for s.
LEMMA LossElsewhere ==
    ASSUME NEW s, ~Tangles(s), lost' # lost, LiveFor(s)
    PROVE  LiveFor(s)'
  BY DEF Tangles, Loses, LiveFor

LEMMA LoseCounts == ASSUME TypeInv, Lose PROVE lost' # lost
  BY BusAssumption DEF TypeInv, TypeOK, BusTypeOK, Lose

\* Nothing moves, or what is dropped had nothing more to say.
LEMMA LiveKept ==
    ASSUME NEW s, Approvals \subseteq Approvals', Unheard \subseteq Unheard', LiveFor(s)
    PROVE  LiveFor(s)'
  BY DEF LiveFor, Live

LEMMA QuietStraight ==
    ASSUME TypeInv, Orderly, Dropping,
           UNCHANGED <<assessments, outgoing, order, results, filling, closing>>
    PROVE  KeepsStraight
<1>1. Requested' = Requested /\ Reported' = Reported /\ SeenIds' = SeenIds
  BY DEF Requested, Reported, Messages, Dropping, SeenIds
<1>2. Approvals' = Approvals /\ Unheard' = Unheard
  BY <1>1 DEF Approvals, Unheard
<1> QED BY <1>2, LiveKept, DroppedStraight DEF KeepsStraight

\* A message is handed on: what is live stays live.
LEMMA HandedOn ==
    ASSUME TypeInv, NEW s \in Symbols, Straight(s), RequestsOnce(s)', ResultsOnce(s)',
           Requested' = Requested, Reported' = Reported,
           UNCHANGED <<seen, held, bheld, execRunning>>, RiskHears' => RiskHears,
           order' # None /\ order'.symbol = s =>
               order' = order \/ (execRunning /\ order' \in Approvals)
    PROVE  Straight(s)'
<1>1. SeenIds' = SeenIds
  BY DEF SeenIds
<1>2. Approvals' = Approvals /\ Unheard' = Unheard
  BY <1>1 DEF Approvals, Unheard
<1>3. Fitting(s)'
  BY <1>2, LiveKept, FittingKept, StraightParts
<1> QED BY <1>3, StraightParts

LEMMA AwaitsStraight == ASSUME TypeInv, Orderly, Awaits, UNCHANGED execVars PROVE KeepsStraight
<1> USE DEF execVars, brokerVars, lifeVars, loopVars, monitorVars, RiskHears, RiskQuarantined
<1>1. CASE WriteLatch \/ BroadcastOverride \/ EmergencyHaltFails \/ RiskHearsOverride \/ RiskLeaves
  <2>1. /\ UNCHANGED <<assessments, results, order, outgoing, filling, closing>>
        /\ UNCHANGED <<seen, issued, filledOrders, held, bheld, execRunning, riskErrors>>
        /\ proposed' \in {proposed, proposed + 1} /\ (riskRunning' => riskRunning)
    <3>1. CASE WriteLatch \/ BroadcastOverride \/ EmergencyHaltFails
      BY <3>1 DEF WriteLatch, BroadcastOverride, EmergencyHaltFails, halting, afterVerdict,
                  ledger, channels
    <3>2. CASE RiskHearsOverride \/ RiskLeaves
      BY <3>2 DEF RiskHearsOverride, RiskLeaves, ledger, channels, bus
    <3> QED BY <1>1, <3>1, <3>2
  <2>2. Dropping
    BY <2>1 DEF Dropping, Orderly
  <2> QED BY <2>1, <2>2, QuietStraight
<1>2. CASE PublishAssessment
  <2>1. /\ outgoing # None /\ assessments' = Append(assessments, outgoing) /\ outgoing' = None
        /\ UNCHANGED <<results, order, filling, closing, seen, issued, filledOrders, held, bheld>>
        /\ UNCHANGED <<execRunning, riskRunning, proposed>>
    BY <1>2 DEF PublishAssessment, afterVerdict, ledger
  <2>2. RiskHears' => RiskHears
    BY <2>1 DEF Orderly
  <2>3. /\ Reported' = Reported /\ SeenIds' = SeenIds
        /\ Messages(filledOrders)' = Messages(filledOrders)
    BY <2>1 DEF Reported, Messages, SeenIds
  <2>4. Requested' = Requested
    <3>1. Messages(assessments') = Messages(assessments) \cup {outgoing}
      BY <2>1, HistoryTypes, MessagesAppend
    <3> QED BY <2>1, <3>1 DEF Requested, Messages
  <2>5. Orderly'
    BY <2>1, <2>3, <2>4, OrderlyKept DEF Orderly
  <2>6. ASSUME NEW s \in Symbols, Straight(s) PROVE Straight(s)'
    <3>1. RequestsOnce(s)' /\ ResultsOnce(s)'
      BY <2>1, <2>6, RequestsOncePublished, ResultsOnceKept, StraightParts
    <3> QED BY <2>1, <2>2, <2>3, <2>4, <2>6, <3>1, HandedOn
  <2> QED BY <2>5, <2>6 DEF KeepsStraight
<1>3. CASE PublishAssessmentFails
  <2>1. /\ outgoing' = None /\ riskErrors' = ErrorAfter(riskErrors)
        /\ UNCHANGED <<assessments, results, order, filling, closing, seen, issued, filledOrders>>
        /\ UNCHANGED <<held, bheld, execRunning, riskRunning, proposed>>
        /\ riskRunning => Lose
    BY <1>3 DEF PublishAssessmentFails, afterVerdict, ledger, channels
  <2>2. RiskHears' => RiskHears
    BY <2>1, BusAssumption DEF ErrorAfter, TypeInv, TypeOK, RiskTypeOK
  <2>3. Dropping
    BY <2>1, <2>2 DEF Dropping
  <2>4. ASSUME NEW s \in Symbols, Straight(s), ~Tangles(s) PROVE Straight(s)'
    BY <2>1, <2>3, <2>4, DroppedStraight, LossElsewhere, LoseCounts
  <2> QED BY <2>3, <2>4, DroppedStraight DEF KeepsStraight
<1>4. CASE ResultUnheard
  <2>1. /\ results # <<>> /\ results' = Tail(results) /\ ~RiskHears'
        /\ UNCHANGED <<assessments, outgoing, order, filling, closing, seen, issued, filledOrders>>
        /\ UNCHANGED <<held, bheld, execRunning, riskErrors, proposed>>
    BY <1>4 DEF ResultUnheard, riskVars, ledger
  <2>2. Dropping
    BY <2>1 DEF Dropping, Orderly
  <2> QED BY <2>1, <2>2, DroppedStraight DEF KeepsStraight
<1> QED BY <1>1, <1>2, <1>3, <1>4 DEF Awaits

\* The channels lose a message or repeat one.
LEMMA FaultsStraight ==
    ASSUME TypeInv, Orderly, Faults, UNCHANGED <<riskVars, execVars>>
    PROVE  KeepsStraight
<1>1. /\ UNCHANGED <<order, outgoing, filling, closing, seen, issued, filledOrders>>
      /\ UNCHANGED <<held, bheld, execRunning, riskRunning, riskErrors, proposed>>
  BY DEF riskVars, ledger, execVars, brokerVars, lifeVars, loopVars, monitorVars
<1>2. CASE LoseAssessment \/ LoseResult
  <2>1. Dropping
    BY <1>1, <1>2 DEF Dropping, LoseAssessment, LoseResult, Orderly, RiskHears, RiskQuarantined
  <2>2. lost' # lost
    BY <1>2, LoseCounts DEF LoseAssessment, LoseResult
  <2> QED BY <2>1, <2>2, DroppedStraight, LossElsewhere DEF KeepsStraight
<1>3. CASE Redeliver
  <2>1. /\ assessments \in Seq(Assessments) /\ results \in Seq(Results)
        /\ redelivered \in Nat /\ redelivered' = redelivered + 1
    BY <1>3, HistoryTypes, BusAssumption DEF Redeliver, TypeInv, TypeOK, BusTypeOK
  <2>2. \/ assessments # <<>> /\ assessments' = Twice(assessments) /\ results' = results
        \/ results # <<>> /\ results' = Twice(results) /\ assessments' = assessments
    BY <1>3 DEF Redeliver
  <2>3. Messages(assessments') = Messages(assessments) /\ Messages(results') = Messages(results)
    BY <2>1, <2>2, MessagesTwice
  <2>4. /\ Requested' = Requested /\ Reported' = Reported
        /\ Messages(filledOrders)' = Messages(filledOrders) /\ SeenIds' = SeenIds
    BY <1>1, <2>3 DEF Requested, Reported, Messages, SeenIds
  <2>5. Orderly'
    BY <1>1, <2>4, OrderlyKept DEF Orderly, RiskQuarantined
  <2>6. ASSUME NEW s \in Symbols, Straight(s), ~Tangles(s) PROVE Straight(s)'
    <3>1. RequestsOnce(s) /\ ResultsOnce(s)
      BY <2>6, StraightParts
    <3>2. RequestsOnce(s)'
      <4>1. CASE assessments' = assessments
        BY <1>1, <3>1, <4>1, RequestsOnceKept
      <4>2. CASE assessments # <<>> /\ assessments' = Twice(assessments)
        <5>1. assessments' # assessments
          <6>1. Len(Twice(assessments)) = Len(assessments) + 1 /\ Len(assessments) \in Nat
            BY <2>1, <4>2 DEF Twice
          <6> QED BY <4>2, <6>1
        <5>2. ~(Head(assessments).symbol = s /\ Head(assessments).approved)
          BY <2>1, <2>6, <5>1 DEF Tangles, Repeats
        <5> QED BY <1>1, <3>1, <4>2, <5>2, RequestsOnceTwice
      <4> QED BY <2>2, <4>1, <4>2
    <3>3. ResultsOnce(s)'
      BY <1>1, <2>2, <3>1, ResultsOnceKept, ResultsOnceTwice
    <3> QED BY <1>1, <2>4, <2>6, <3>2, <3>3, HandedOn DEF RiskHears, RiskQuarantined
  <2> QED BY <2>5, <2>6 DEF KeepsStraight
<1> QED BY <1>2, <1>3 DEF Faults

(***************************************************************************)
(* Execution's loop between two orders, and its monitor between two closes.*)
(***************************************************************************)

\* A result is published.
LEMMA PublishedStraight ==
    ASSUME TypeInv, Orderly, NEW r \in Results, results' = Append(results, r),
           \/ r = filling /\ filling' = None /\ closing' = closing
           \/ r = closing /\ closing' = None /\ filling' = filling,
           UNCHANGED <<assessments, outgoing, order, filledOrders, seen, issued, proposed>>,
           UNCHANGED <<held, bheld, execRunning, riskRunning, riskErrors>>
    PROVE  KeepsStraight
<1>1. /\ Requested' = Requested /\ SeenIds' = SeenIds
      /\ Messages(filledOrders)' = Messages(filledOrders)
  BY DEF Requested, Messages, SeenIds
<1>2. Reported' = Reported
  <2>1. Messages(results') = Messages(results) \cup {r} /\ r # None
    BY HistoryTypes, MessagesAppend, NoneApart
  <2> QED BY <2>1 DEF Reported, Messages
<1>3. Orderly'
  BY <1>1, <1>2, OrderlyKept DEF Orderly, RiskQuarantined
<1>4. ASSUME NEW s \in Symbols, Straight(s) PROVE Straight(s)'
  <2>1. RequestsOnce(s)' /\ ResultsOnce(s)'
    BY <1>4, RequestsOnceKept, ResultsOncePublished, StraightParts
  <2> QED BY <1>1, <1>2, <1>4, <2>1, HandedOn DEF RiskHears, RiskQuarantined
<1> QED BY <1>3, <1>4 DEF KeepsStraight

LEMMA PublishingStraight ==
    ASSUME TypeInv, Orderly, Publishing, UNCHANGED riskVars
    PROVE  KeepsStraight
<1>1. /\ UNCHANGED <<outgoing, filledOrders, seen, issued, proposed>>
      /\ UNCHANGED <<held, bheld, riskRunning, riskErrors, order, closing>>
  BY DEF Publishing, PublishResult, PublishResultFails, ExecHearsOverride, ExecLeaves, riskVars, ledger,
         brokerVars, loopVars, monitorVars
<1>2. CASE PublishResult
  BY <1>1, <1>2, HistoryTypes, PublishedStraight DEF PublishResult
<1>3. CASE PublishResultFails
  <2>1. /\ UNCHANGED <<assessments, results, execRunning>> /\ filling' = None
        /\ execRunning => Lose
    BY <1>3 DEF PublishResultFails, channels
  <2>2. Dropping
    BY <1>1, <2>1 DEF Dropping, Orderly, RiskHears, RiskQuarantined
  <2>3. ASSUME NEW s \in Symbols, Straight(s), ~Tangles(s) PROVE Straight(s)'
    BY <2>1, <2>2, <2>3, DroppedStraight, LossElsewhere, LoseCounts
  <2> QED BY <2>2, <2>3, DroppedStraight DEF KeepsStraight
<1>4. CASE ExecHearsOverride \/ ExecLeaves
  <2>1. /\ ~execRunning' /\ UNCHANGED <<results, filling>>
        /\ assessments' = assessments \/ (assessments # <<>> /\ assessments' = Tail(assessments))
    BY <1>4 DEF ExecHearsOverride, ExecLeaves, bus, channels, loopVars
  <2>2. Dropping
    BY <1>1, <2>1 DEF Dropping, Orderly, RiskHears, RiskQuarantined
  <2> QED BY <2>1, <2>2, DroppedStraight DEF KeepsStraight
<1> QED BY <1>2, <1>3, <1>4 DEF Publishing

\* The loop takes the next assessment.
LEMMA TakeStraight ==
    ASSUME TypeInv, Orderly, SkipRejected \/ ReplayFilled \/ BeginOrder, UNCHANGED riskVars
    PROVE  KeepsStraight
<1> DEFINE a == Head(assessments)
<1>1. /\ TakeAssessment /\ order = None /\ filling = None /\ execRunning
      /\ assessments # <<>> /\ assessments' = Tail(assessments)
      /\ UNCHANGED <<outgoing, filledOrders, seen, issued, proposed, closing, results>>
      /\ UNCHANGED <<held, bheld, execRunning, riskRunning, riskErrors>>
  BY DEF SkipRejected, ReplayFilled, BeginOrder, TakeAssessment, riskVars, ledger, brokerVars, monitorVars
<1>2. /\ a \in Assessments /\ a # None /\ a \in Requested
      /\ Messages(assessments) = Messages(assessments') \cup {a}
  <2>1. a \in Assessments /\ Messages(assessments) = Messages(assessments') \cup {a}
    BY <1>1, HistoryTypes, TailType, MessagesTail
  <2> QED BY <2>1, NoneApart DEF Requested
<1>3. RiskHears' => RiskHears
  BY <1>1 DEF RiskHears, RiskQuarantined
<1> HIDE DEF a
<1>4. CASE SkipRejected
  <2>1. ~a.approved /\ UNCHANGED <<order, filling>>
    BY <1>4 DEF SkipRejected, loopVars, a
  <2>2. Dropping
    BY <1>1, <1>3, <2>1 DEF Dropping, Orderly, RiskQuarantined
  <2>3. Approvals \subseteq Approvals' /\ Unheard \subseteq Unheard'
    BY <1>1, <1>2, <2>1 DEF Approvals, Requested, Unheard, Reported, Messages, SeenIds
  <2> QED BY <2>2, <2>3, LiveKept, DroppedStraight DEF KeepsStraight
<1>5. CASE BeginOrder
  <2>1. a.approved /\ order' = a /\ filling' = filling
    BY <1>5 DEF BeginOrder, a
  <2>2. /\ Requested' = Requested /\ Reported' = Reported
        /\ Messages(filledOrders)' = Messages(filledOrders) /\ SeenIds' = SeenIds
    BY <1>1, <1>2, <2>1 DEF Requested, Reported, Messages, SeenIds
  <2>3. Orderly'
    BY <1>1, <2>1, <2>2, OrderlyKept DEF Orderly, RiskQuarantined
  <2>4. a \in Approvals
    BY <1>2, <2>1 DEF Approvals
  <2>5. ASSUME NEW s \in Symbols, Straight(s) PROVE Straight(s)'
    <3>1. RequestsOnce(s)'
      BY <1>1, <2>1, <2>5, RequestsOnceTaken, StraightParts DEF a
    <3>2. ResultsOnce(s)'
      BY <1>1, <2>1, <2>5, ResultsOnceKept, StraightParts
    <3> QED BY <1>1, <1>3, <2>1, <2>2, <2>4, <2>5, <3>1, <3>2, HandedOn
  <2> QED BY <2>3, <2>5 DEF KeepsStraight
<1>6. CASE ReplayFilled
  <2>1. PICK i \in Cached(a.id) : filling' = filledOrders[i]
    BY <1>6 DEF ReplayFilled, a
  <2>2. /\ a.approved /\ order' = order
        /\ filling' \in Messages(filledOrders) /\ filling'.pid = a.id
    BY <1>6, <2>1 DEF ReplayFilled, a, Cached, Messages
  <2>3. /\ Requested' \subseteq Requested /\ SeenIds' = SeenIds
        /\ Messages(filledOrders)' = Messages(filledOrders)
        /\ Reported' \subseteq Reported \cup Messages(filledOrders) /\ Reported \subseteq Reported'
    BY <1>1, <1>2, <2>2 DEF Requested, Reported, Messages, SeenIds
  <2>4. Orderly'
    BY <1>1, <2>2, <2>3, OrderlyKept DEF Orderly, RiskQuarantined
  <2>5. ASSUME NEW s \in Symbols, Straight(s) PROVE Straight(s)'
    <3>1. RequestsOnce(s) /\ ResultsOnce(s) /\ Fitting(s)
      BY <2>5, StraightParts
    <3>2. filling'.symbol # s /\ a.symbol # s
      <4>1. a \in Approvals
        BY <1>2, <2>2 DEF Approvals
      <4>2. a.symbol # s
        BY <2>2, <3>1, <4>1, RequestsParts
      <4> QED BY <1>2, <2>2, <4>2 DEF Orderly
    <3>3. RequestsOnce(s)' /\ ResultsOnce(s)'
      BY <1>1, <2>2, <3>1, <3>2, RequestsOnceKept, ResultsOnceKept
    <3>4. /\ \A b \in Approvals' : b \in Approvals
          /\ \A r \in Unheard' : r.symbol = s => r \in Unheard
      <4>1. \A r \in Reported' : r = filling' \/ r \in Reported
        BY <1>1 DEF Reported, Messages
      <4> QED BY <2>3, <3>2, <4>1 DEF Approvals, Unheard
    <3>5. LiveFor(s) => LiveFor(s)'
      <4>1. \A b \in Approvals : b = a \/ b \in Approvals'
        BY <1>1, <1>2, <2>2 DEF Approvals, Requested, Messages
      <4>2. Unheard \subseteq Unheard'
        BY <2>3 DEF Unheard
      <4> QED BY <3>2, <4>1, <4>2 DEF LiveFor, Live
    <3>6. Fitting(s)'
      BY <1>1, <1>3, <2>2, <3>1, <3>4, <3>5, FittingKept
    <3> QED BY <3>3, <3>6, StraightParts
  <2> QED BY <2>4, <2>5 DEF KeepsStraight
<1> QED BY <1>4, <1>5, <1>6

\* The monitor between two closes.
LEMMA WatchingStraight ==
    ASSUME TypeInv, Orderly, UNCHANGED riskVars,
           \/ MonitorChecks \/ MonitorScan \/ \E s \in Symbols : MonitorPass(s)
           \/ MonitorPublish \/ MonitorPublishFails
    PROVE  KeepsStraight
<1>1. /\ UNCHANGED <<assessments, outgoing, order, filling, filledOrders, seen, issued, proposed>>
      /\ UNCHANGED <<held, bheld, execRunning, riskRunning, riskErrors>>
  BY DEF MonitorChecks, MonitorScan, MonitorPass, MonitorPublish, MonitorPublishFails, MonitorStep,
         riskVars, ledger, brokerVars, lifeVars, loopVars
<1>2. CASE MonitorChecks \/ MonitorScan \/ \E s \in Symbols : MonitorPass(s)
  <2>1. UNCHANGED <<results, closing>>
    BY <1>2 DEF MonitorChecks, MonitorScan, MonitorPass
  <2>2. Dropping
    BY <1>1, <2>1 DEF Dropping, Orderly, RiskHears, RiskQuarantined
  <2> QED BY <1>1, <2>1, <2>2, QuietStraight
<1>3. CASE MonitorPublish
  BY <1>1, <1>3, HistoryTypes, PublishedStraight DEF MonitorPublish
<1>4. CASE MonitorPublishFails
  <2>1. results' = results /\ closing' = None /\ (execRunning => Lose)
    BY <1>4 DEF MonitorPublishFails
  <2>2. Dropping
    BY <1>1, <2>1 DEF Dropping, Orderly, RiskHears, RiskQuarantined
  <2>3. ASSUME NEW s \in Symbols, Straight(s), ~Tangles(s) PROVE Straight(s)'
    BY <1>1, <2>1, <2>2, <2>3, DroppedStraight, LossElsewhere, LoseCounts
  <2> QED BY <2>2, <2>3, DroppedStraight DEF KeepsStraight
<1> QED BY <1>2, <1>3, <1>4

(***************************************************************************)
(* The result tracker.                                                     *)
(***************************************************************************)

\* A ledger position of s that is open had been open before.
KeepsOpen == \A s \in Symbols : Straight(s) /\ held'[s] # "flat" => held[s] # "flat"

LEMMA ApplyShape ==
    ASSUME TypeInv, ApplyExecutionResult
    PROVE  LET r == Head(results)
               s == r.symbol
           IN  /\ TakeResult /\ results # <<>> /\ r \in Results /\ s \in Symbols /\ r.side \in Sides
               /\ \A t \in Symbols : t # s => held'[t] = held[t]
               /\ \/ r.id \in SeenIds /\ seen' = seen /\ held' = held
                  \/ /\ FirstSight(r)
                     /\ \/ ~r.filled /\ held[s] = r.side /\ held'[s] = "flat"
                        \/ ~r.filled /\ held[s] # r.side /\ held' = held
                        \/ r.filled /\ held[s] = Opposite(r.side) /\ held'[s] = "flat"
                        \/ r.filled /\ held[s] = r.side /\ held' = held
                        \/ r.filled /\ held[s] = "flat"
<1> DEFINE r == Head(results)
           s == r.symbol
<1>1. TakeResult /\ results # <<>>
  BY DEF ApplyExecutionResult, ResultDuplicate, ResultReleased, ResultIgnored, ResultClosed,
         ResultReconciled, ResultAdopted, TakeResult
<1>2. r \in Results /\ held \in [Symbols -> Positions]
  BY <1>1, HistoryTypes, TailType
<1>3. s \in Symbols /\ r.side \in Sides
  BY <1>2 DEF Results
<1>4. CASE ResultDuplicate
  BY <1>1, <1>2, <1>3, <1>4 DEF ResultDuplicate, ledger
<1>5. CASE ResultReleased \/ ResultClosed
  <2>1. held' = [held EXCEPT ![s] = "flat"]
    BY <1>5 DEF ResultReleased, ResultClosed, ClosePosition
  <2>2. /\ FirstSight(r)
        /\ \/ ~r.filled /\ held[s] = r.side
           \/ r.filled /\ held[s] = Opposite(r.side)
    BY <1>5 DEF ResultReleased, ResultClosed
  <2> QED BY <1>1, <1>2, <1>3, <2>1, <2>2
<1>6. CASE ResultIgnored \/ ResultReconciled
  <2>1. /\ held' = held /\ FirstSight(r)
        /\ \/ ~r.filled /\ held[s] # r.side
           \/ r.filled /\ held[s] = r.side
    BY <1>6 DEF ResultIgnored, ResultReconciled, ledger, AdjustPositionCost
  <2> QED BY <1>1, <1>2, <1>3, <2>1
<1>7. CASE ResultAdopted
  <2>1. /\ held' = [held EXCEPT ![s] = r.side] /\ FirstSight(r)
        /\ r.filled /\ held[s] = "flat"
    BY <1>7 DEF ResultAdopted, OpenPosition
  <2> QED BY <1>1, <1>2, <1>3, <2>1
<1> QED BY <1>4, <1>5, <1>6, <1>7 DEF ApplyExecutionResult

LEMMA ApplyStraight ==
    ASSUME TypeInv, Orderly, ApplyExecutionResult, UNCHANGED execVars
    PROVE  KeepsStraight /\ KeepsOpen
<1> DEFINE h == Head(results)
<1>1. /\ results # <<>> /\ results' = Tail(results) /\ h \in Results /\ h.symbol \in Symbols
      /\ h.side \in Sides
      /\ UNCHANGED <<assessments, outgoing, proposed, riskRunning, riskErrors>>
      /\ \A t \in Symbols : t # h.symbol => held'[t] = held[t]
      /\ \/ h.id \in SeenIds /\ seen' = seen /\ held' = held
         \/ FirstSight(h)
  BY ApplyShape DEF TakeResult
<1>2. UNCHANGED <<order, filling, closing, filledOrders, issued, bheld, execRunning>>
  BY DEF execVars, brokerVars, lifeVars, loopVars, monitorVars
<1>3. RiskHears' = RiskHears /\ RiskQuarantined' = RiskQuarantined
  BY <1>1 DEF RiskHears, RiskQuarantined
<1>4. Messages(results) = Messages(results') \cup {h} /\ h \in Reported
  BY <1>1, HistoryTypes, MessagesTail DEF Reported
<1>5. ~FirstSight(h) \/ h.id \notin SeenIds
  BY DEF FirstSight
<1>6. FirstSight(h) =>
         \/ ~h.filled /\ held[h.symbol] = h.side /\ held'[h.symbol] = "flat"
         \/ ~h.filled /\ held[h.symbol] # h.side /\ held' = held
         \/ h.filled /\ held[h.symbol] = Opposite(h.side) /\ held'[h.symbol] = "flat"
         \/ h.filled /\ held[h.symbol] = h.side /\ held' = held
         \/ h.filled /\ held[h.symbol] = "flat"
  BY <1>5, ApplyShape
<1> HIDE DEF h
<1>7. CASE h.id \in SeenIds /\ seen' = seen /\ held' = held
  <2>1. Dropping
    BY <1>1, <1>2, <1>3, <1>7 DEF Dropping, Orderly
  <2>2. Approvals \subseteq Approvals' /\ Unheard \subseteq Unheard'
    BY <1>1, <1>2, <1>4, <1>7 DEF Approvals, Requested, Unheard, Reported, SeenIds, Messages
  <2>3. KeepsStraight
    BY <2>1, <2>2, LiveKept, DroppedStraight DEF KeepsStraight
  <2> QED BY <1>7, <2>3 DEF KeepsOpen
<1>8. CASE FirstSight(h)
  <2>1. Requested' = Requested /\ Messages(filledOrders)' = Messages(filledOrders)
    BY <1>1, <1>2 DEF Requested, Messages
  <2>2. Reported' \subseteq Reported
    BY <1>2, <1>4 DEF Reported, Messages
  <2>3. Orderly'
    <3>1. \A id \in SeenIds' : id \in SeenIds \/ \E r \in Reported : id = r.id
      BY <1>1, <1>4, <1>8, SightRemembered
    <3> QED BY <1>1, <1>2, <1>3, <2>1, <2>2, <3>1, OrderlyKept DEF Orderly
  <2>4. ASSUME NEW s \in Symbols, Straight(s)
        PROVE  Straight(s)' /\ (held'[s] # "flat" => held[s] # "flat")
    <3>1. RequestsOnce(s) /\ ResultsOnce(s) /\ Fitting(s)
      BY <2>4, StraightParts
    <3>2. /\ ResultsOnce(s)' /\ h \in Unheard
          /\ \A r \in Unheard' : r.symbol = s => r \in Unheard /\ r # h
          /\ \A r \in Unheard : r # h => r \in Unheard'
      BY <1>1, <1>2, <1>8, <3>1, ResultsOnceHeard DEF h
    <3>3. RequestsOnce(s)' /\ Approvals' = Approvals
      BY <1>1, <1>2, <2>1, <3>1, RequestsOnceKept DEF Approvals
    <3>4. CASE h.symbol # s
      <4>1. held'[s] = held[s]
        BY <1>1, <3>4
      <4>2. LiveFor(s) => LiveFor(s)'
        BY <3>2, <3>3, <3>4 DEF LiveFor, Live
      <4>3. Fitting(s)'
        BY <1>2, <1>3, <3>1, <3>2, <3>3, <4>1, <4>2, FittingKept
      <4> QED BY <3>2, <3>3, <4>1, <4>3, StraightParts
    <3>5. CASE h.symbol = s
      <4>1. ReportFits(h) /\ \A m \in Live : m.symbol = s => m = h
        BY <3>1, <3>2, <3>5 DEF Fitting, BooksFit, Live
      <4>2. \A a \in Approvals : a.symbol # s
        BY <1>1, <4>1, HistoryTypes, Apart DEF Live
      <4>3. \A r \in Unheard' : r.symbol # s
        BY <3>2, <4>1 DEF Live
      <4>4. order' # None => order'.symbol # s
        BY <1>2, <4>2 DEF Orderly, Approvals, Requested
      <4>5. held'[s] = bheld[s]
        BY <1>1, <1>6, <1>8, <3>5, <4>1 DEF ReportFits, Opposite
      <4>6. Fitting(s)'
        BY <1>2, <3>3, <4>2, <4>3, <4>4, <4>5 DEF Fitting, BooksFit, PositionReserved, Live
      <4> QED BY <3>1, <3>2, <3>3, <4>5, <4>6, StraightParts DEF Fitting, PositionReserved
    <3> QED BY <3>4, <3>5
  <2> QED BY <2>3, <2>4 DEF KeepsStraight, KeepsOpen
<1> QED BY <1>1, <1>7, <1>8

(***************************************************************************)
(* A new approval, its fill, and a close by the monitor.                   *)
(***************************************************************************)
LEMMA ProposeStraight ==
    ASSUME TypeInv, Orderly, NEW t \in Symbols, Propose(t)
    PROVE  KeepsStraight
<1>a. PICK a : a = outgoing'
  OBVIOUS
<1>1. /\ outgoing = None /\ proposed' = proposed + 1 /\ a.id = proposed + 1 /\ a.symbol = t
      /\ \/ ~a.approved /\ held' = held
         \/ /\ a.approved /\ a.side \in Sides /\ held' = held
            /\ held[t] = Opposite(a.side)
         \/ /\ a.approved /\ a.side \in Sides /\ held' = [held EXCEPT ![t] = a.side]
            /\ held[t] = "flat"
  BY <1>a, ProposeShape DEF ledger, OpenPosition
<1>2. /\ UNCHANGED <<assessments, results, order, filling, closing, filledOrders, seen, issued>>
      /\ UNCHANGED <<bheld, execRunning, riskRunning, riskErrors>>
  BY ProposeShape DEF bus, channels, execVars, brokerVars, lifeVars, loopVars, monitorVars
<1>3. ~RiskQuarantined /\ riskRunning
  BY Zenon DEF Propose, Evaluate, RejectHalted, RejectBreach, RejectScreened, ApproveClose,
     ApproveOpen, Screened, TakeProposal
<1>4. a \in Assessments /\ a # None
  BY <1>a, ProposeType, NoneApart
<1>5. RiskHears /\ RiskHears' /\ ~RiskQuarantined'
  BY <1>2, <1>3 DEF RiskHears, RiskQuarantined
<1>6. /\ Requested' = Requested \cup {a} /\ Reported' = Reported /\ SeenIds' = SeenIds
      /\ Messages(filledOrders)' = Messages(filledOrders)
  BY <1>a, <1>1, <1>2, <1>4 DEF Requested, Reported, Messages, SeenIds
<1>7. Unheard' = Unheard /\ Approvals' \subseteq Approvals \cup {a} /\ Approvals \subseteq Approvals'
      /\ (~a.approved => Approvals' = Approvals)
  BY <1>6 DEF Unheard, Approvals
<1>8. Orderly'
  <2>1. /\ proposed \in Nat
        /\ \A b \in Requested : b.id \in Nat /\ b.id <= proposed
        /\ \A f \in Messages(filledOrders) : f.pid \in Nat /\ f.pid <= proposed
    BY HistoryTypes, MessageTypes DEF Orderly
  <2>2. \A b \in Requested' : b.id <= proposed' /\ \A c \in Requested' : b.id = c.id => b = c
    BY <1>1, <1>6, <2>1 DEF Orderly
  <2>3. \A f \in Messages(filledOrders)' :
           /\ f.pid <= proposed'
           /\ \A b \in Requested' : f.pid = b.id => f.symbol = b.symbol
    BY <1>1, <1>6, <2>1 DEF Orderly
  <2> QED BY <1>2, <1>5, <1>6, <2>2, <2>3 DEF Orderly
<1>9. ASSUME NEW s \in Symbols, Straight(s), ~Tangles(s) PROVE Straight(s)'
  <2>1. RequestsOnce(s) /\ ResultsOnce(s) /\ Fitting(s)
    BY <1>9, StraightParts
  <2>2. RequestsOnce(s)' /\ ResultsOnce(s)'
    BY <1>a, <1>1, <1>2, <2>1, RequestsOnceProposed, ResultsOnceKept
  <2>3. held \in [Symbols -> Positions]
    BY HistoryTypes
  <2>4. CASE ~(a.approved /\ t = s)
    <3>1. held'[s] = held[s] /\ \A b \in Approvals' : b.symbol = s => b \in Approvals
      BY <1>1, <1>7, <2>3, <2>4
    <3>2. Fitting(s)'
      BY <1>2, <1>5, <1>7, <2>1, <3>1, LiveKept, FittingKept
    <3> QED BY <2>2, <3>2, StraightParts
  <2>5. CASE a.approved /\ t = s
    <3>1. ~LiveFor(s)
      BY <1>a, <1>1, <1>4, <1>9, <2>5 DEF Tangles, Approves
    <3>2. /\ \A b \in Approvals' : b.symbol = s => b = a
          /\ \A r \in Unheard' : r.symbol # s
          /\ order' # None => order'.symbol # s
          /\ a \in Approvals'
      <4>1. order # None => order \in Approvals
        BY DEF Orderly, Approvals, Requested
      <4> QED BY <1>2, <1>6, <1>7, <2>5, <3>1, <4>1 DEF LiveFor, Live, Approvals
    <3>3. execRunning' => ApprovalFits(a)'
      <4> SUFFICES ASSUME execRunning PROVE ApprovalFits(a)'
        BY <1>2
      <4>1. held[s] = bheld[s]
        BY <1>5, <2>1, <3>1 DEF Fitting, BooksFit
      <4>2. \/ bheld'[s] = "flat" /\ held'[s] = a.side
            \/ held'[s] = Opposite(a.side) /\ held'[s] = bheld'[s]
        BY <1>1, <1>2, <2>3, <2>5, <4>1
      <4> QED BY <1>1, <2>5, <4>2 DEF ApprovalFits
    <3>4. LiveFor(s)'
      BY <1>1, <2>5, <3>2 DEF LiveFor, Live
    <3>5. BooksFit(s)'
      BY <3>2, <3>3, <3>4 DEF BooksFit
    <3>6. PositionReserved(s)'
      BY <1>1, <1>2, <2>1, <2>3, <2>5 DEF Fitting, PositionReserved, Opposite
    <3> QED BY <2>2, <3>2, <3>5, <3>6, StraightParts DEF Fitting, Live
  <2> QED BY <2>4, <2>5
<1> QED BY <1>8, <1>9 DEF KeepsStraight

LEMMA PlaceStraight ==
    ASSUME TypeInv, Orderly, PlaceOrder, UNCHANGED riskVars
    PROVE  KeepsStraight
<1>f. PICK f : f = filling'
  OBVIOUS
<1>t. PICK t : t = order.symbol
  OBVIOUS
<1>1. /\ order # None /\ order' = None /\ t \in Symbols /\ order.side \in Sides
      /\ \A s \in Symbols : s # t => bheld'[s] = bheld[s]
      /\ held' = held /\ issued' = issued + 1
      /\ f.symbol = t /\ f.id = issued + 1 /\ f.side = order.side /\ f.pid = order.id
      /\ UNCHANGED <<assessments, results, closing, execRunning>>
  BY <1>f, <1>t, PlaceAnswer DEF Placing, Only, bus, channels, monitorVars
<1>2. f \in Results /\ f # None
  BY <1>f, PlaceType, NoneApart
<1>3. \/ ~f.filled /\ UNCHANGED <<bheld, filledOrders>>
      \/ f.filled /\ Remember(f) /\ bheld[t] = Opposite(f.side) /\ bheld'[t] = "flat"
      \/ f.filled /\ Remember(f) /\ bheld[t] = "flat" /\ bheld'[t] = f.side
  BY <1>f, <1>t, PlaceAnswer
<1>4. UNCHANGED <<outgoing, seen, proposed, riskRunning, riskErrors>>
  BY DEF riskVars
<1>5. Messages(filledOrders)' \subseteq Messages(filledOrders) \cup {f}
  <2>1. CASE filledOrders' = filledOrders
    BY <2>1 DEF Messages
  <2>2. CASE Remember(f)
    <3>1. filledOrders' = Remembered(filledOrders, f, FilledMax)
      BY <2>2 DEF Remember, Remembered
    <3>2. filledOrders \in Seq(Results) /\ FilledMax \in Nat
      BY HistoryTypes, BrokerAssumption
    <3>3. Messages(filledOrders') \subseteq Messages(filledOrders) \cup {f}
      BY <1>2, <3>1, <3>2, MessagesRemembered
    <3> QED BY <3>3 DEF Messages
  <2> QED BY <1>3, <2>1, <2>2
<1>6. filling = None /\ order \in Requested /\ order \in Approvals
  BY <1>1 DEF Orderly, Requested, Approvals
<1>7. /\ Requested' \subseteq Requested /\ \A a \in Requested : a # order => a \in Requested'
      /\ Reported' = Reported \cup {f} /\ SeenIds' = SeenIds
  BY <1>f, <1>1, <1>2, <1>4, <1>6 DEF Requested, Reported, Messages, SeenIds
<1>8. Orderly'
  BY <1>t, <1>1, <1>2, <1>4, <1>5, <1>6, <1>7, OrderlyIssued
<1>9. f.id \notin SeenIds
  <2>1. issued \in Nat /\ \A id \in SeenIds : id \in Nat /\ id <= issued
    BY HistoryTypes DEF Orderly, SeenIds
  <2> QED BY <1>1, <2>1
<1>10. Unheard' = Unheard \cup {f} /\ Approvals' \subseteq Approvals
       /\ \A a \in Approvals : a # order => a \in Approvals'
  BY <1>7, <1>9 DEF Unheard, Approvals
<1>11. ASSUME NEW s \in Symbols, Straight(s) PROVE Straight(s)'
  <2>1. RequestsOnce(s) /\ ResultsOnce(s) /\ Fitting(s)
    BY <1>11, StraightParts
  <2>2. RequestsOnce(s)' /\ \A a \in Approvals' : a.symbol = s => a \in Approvals /\ a # order
    BY <1>1, <1>4, <1>5, <2>1, RequestsOncePlaced
  <2>3. ResultsOnce(s)'
    BY <1>f, <1>1, <1>2, <1>4, <2>1, ResultsOnceIssued
  <2>4. CASE s # t
    <3>1. LiveFor(s) => LiveFor(s)'
      BY <1>t, <1>10, <2>4 DEF LiveFor, Live
    <3>2. Fitting(s)'
      BY <1>1, <1>4, <1>10, <2>1, <2>2, <2>4, <3>1, FittingKept DEF RiskHears, RiskQuarantined
    <3> QED BY <2>2, <2>3, <3>2, StraightParts
  <2>5. CASE s = t
    <3>1. ApprovalFits(order) /\ \A m \in Live : m.symbol = s => m = order
      BY <1>t, <1>1, <1>6, <2>1, <2>5 DEF Fitting, BooksFit, Live
    <3>2. \A a \in Approvals' : a.symbol # s
      BY <2>2, <3>1 DEF Live
    <3>3. \A r \in Unheard' : r.symbol = s => r = f
      <4>1. \A r \in Unheard : r # order
        BY <1>6, HistoryTypes, Apart
      <4> QED BY <1>10, <3>1, <4>1 DEF Live
    <3>4. /\ LiveFor(s)'
      BY <1>1, <1>10, <2>5 DEF LiveFor, Live
    <3>5. ReportFits(f)' /\ PositionReserved(s)'
      <4>1. \/ bheld[s] = "flat" /\ held[s] = f.side
            \/ held[s] = Opposite(f.side) /\ held[s] = bheld[s]
        BY <1>t, <1>1, <2>5, <3>1 DEF ApprovalFits
      <4>2. held'[s] = held[s] /\ f.symbol = s /\ f.side \in Sides
        BY <1>1, <2>5
      <4>3. IF f.filled
            THEN \/ bheld'[s] = f.side /\ held'[s] = f.side
                 \/ bheld'[s] = "flat" /\ held'[s] = Opposite(f.side)
            ELSE \/ bheld'[s] = "flat" /\ held'[s] = f.side
                 \/ held'[s] = Opposite(f.side) /\ held'[s] = bheld'[s]
        BY <1>3, <2>5, <4>1, <4>2 DEF Opposite
      <4>4. PositionReserved(s)'
        BY <4>2, <4>3, <1>3, <2>1, <2>5 DEF PositionReserved, Fitting
      <4> QED BY <1>f, <4>2, <4>3, <4>4 DEF ReportFits
    <3>6. BooksFit(s)'
      BY <1>f, <1>1, <3>2, <3>3, <3>4, <3>5 DEF BooksFit, ReportFits
    <3> QED BY <2>2, <2>3, <3>2, <3>3, <3>5, <3>6, StraightParts DEF Fitting, Live
  <2> QED BY <2>4, <2>5
<1> QED BY <1>8, <1>11 DEF KeepsStraight

LEMMA MonitorCloseStraight ==
    ASSUME TypeInv, Orderly, NEW t \in Symbols, MonitorClose(t), UNCHANGED riskVars
    PROVE  KeepsStraight
<1>f. PICK f : f = closing'
  OBVIOUS
<1>1. PICK p \in Pnls(t) : Close(t, p) /\ f = ClosingFill(0, t, p)
  BY <1>f DEF MonitorClose
<1>2. /\ f.id = issued + 1 /\ f.symbol = t /\ f.side = Opposite(bheld[t]) /\ f.filled
  BY <1>1, Zenon DEF ClosingFill, NextResult, Result
<1>3. /\ bheld[t] # "flat" /\ bheld' = [bheld EXCEPT ![t] = "flat"] /\ issued' = issued + 1
      /\ f \in Results /\ f # None
  BY <1>f, <1>1, CloseType, NoneApart DEF Close
<1>4. /\ closing = None
      /\ UNCHANGED <<assessments, results, order, filling, filledOrders, execRunning>>
      /\ UNCHANGED <<outgoing, seen, proposed, riskRunning, riskErrors, held>>
  BY DEF MonitorClose, MonitorStep, lifeVars, loopVars, riskVars, ledger
<1>5. held \in [Symbols -> Positions] /\ bheld \in [Symbols -> Positions]
  BY HistoryTypes
<1>6. /\ Requested' = Requested /\ Reported' = Reported \cup {f} /\ SeenIds' = SeenIds
      /\ Messages(filledOrders)' = Messages(filledOrders)
  BY <1>f, <1>3, <1>4 DEF Requested, Reported, Messages, SeenIds
<1>7. Orderly'
  BY <1>2, <1>3, <1>4, <1>6, OrderlyIssued DEF Orderly
<1>8. f.id \notin SeenIds
  <2>1. issued \in Nat /\ \A id \in SeenIds : id \in Nat /\ id <= issued
    BY HistoryTypes DEF Orderly, SeenIds
  <2> QED BY <1>2, <2>1
<1>9. Unheard' = Unheard \cup {f} /\ Approvals' = Approvals
  BY <1>6, <1>8 DEF Unheard, Approvals
<1>10. ASSUME NEW s \in Symbols, Straight(s), ~Tangles(s) PROVE Straight(s)'
  <2>1. RequestsOnce(s) /\ ResultsOnce(s) /\ Fitting(s)
    BY <1>10, StraightParts
  <2>2. RequestsOnce(s)' /\ ResultsOnce(s)'
    <3>1. RequestsOnce(s)'
      BY <1>4, <2>1, RequestsOnceKept
    <3>2. ResultsOnce(s)'
      BY <1>f, <1>2, <1>3, <1>4, <2>1, ResultsOnceIssued
    <3> QED BY <3>1, <3>2
  <2>3. CASE s # t
    <3>1. Fitting(s)'
      BY <1>2, <1>3, <1>4, <1>5, <1>9, <2>1, <2>3, LiveKept, FittingKept DEF RiskHears, RiskQuarantined
    <3> QED BY <2>2, <3>1, StraightParts
  <2>4. CASE s = t
    <3>1. ~LiveFor(s)
      BY <1>f, <1>2, <1>3, <1>4, <1>10, <2>4 DEF Tangles, MonitorCloses
    <3>2. /\ \A a \in Approvals' : a.symbol # s
          /\ \A r \in Unheard' : r.symbol = s => r = f
          /\ order' # None => order'.symbol # s
      <4>1. order # None => order \in Approvals
        BY DEF Orderly, Approvals, Requested
      <4> QED BY <1>4, <1>9, <3>1, <4>1 DEF LiveFor, Live
    <3>3. LiveFor(s)'
      BY <1>2, <1>9, <2>4 DEF LiveFor, Live
    <3>4. bheld'[s] = "flat" /\ held'[s] = Opposite(f.side)
      BY <1>2, <1>3, <1>4, <1>5, <2>1, <2>4 DEF Fitting, PositionReserved, Opposite
    <3>5. ReportFits(f)' /\ PositionReserved(s)'
      BY <1>f, <1>2, <2>4, <3>4 DEF ReportFits, PositionReserved
    <3>6. BooksFit(s)'
      BY <1>f, <3>2, <3>3, <3>5 DEF BooksFit, ReportFits
    <3> QED BY <2>2, <3>2, <3>5, <3>6, StraightParts DEF Fitting, Live
  <2> QED BY <2>3, <2>4
<1> QED BY <1>7, <1>10 DEF KeepsStraight

(***************************************************************************)
(* All steps.                                                              *)
(***************************************************************************)
LEMMA NextStraight == ASSUME TypeInv, Orderly, [Next]_vars PROVE KeepsStraight
<1>1. ASSUME NEW t \in Symbols, Propose(t) PROVE KeepsStraight
  BY <1>1, ProposeStraight
<1>2. CASE RiskStep /\ UNCHANGED execVars
  BY <1>2, AwaitsStraight, ApplyStraight DEF RiskStep, Awaits
<1>3. CASE ExecStep /\ UNCHANGED riskVars
  BY <1>3, TakeStraight, PlaceStraight, PublishingStraight, WatchingStraight, MonitorCloseStraight
     DEF ExecStep, Publishing
<1>4. CASE Faults /\ UNCHANGED <<riskVars, execVars>>
  BY <1>4, FaultsStraight
<1>5. CASE UNCHANGED vars
  <2>1. /\ UNCHANGED <<assessments, results, order, outgoing, filling, closing>>
        /\ UNCHANGED <<seen, issued, filledOrders, held, bheld, execRunning, riskRunning>>
        /\ UNCHANGED <<riskErrors, proposed>>
    BY <1>5 DEF vars, bus, channels, riskVars, ledger, execVars, brokerVars, lifeVars, loopVars,
                monitorVars
  <2>2. Dropping
    BY <2>1 DEF Dropping, Orderly, RiskHears, RiskQuarantined
  <2> QED BY <2>1, <2>2, QuietStraight
<1> QED BY <1>1, <1>2, <1>3, <1>4, <1>5 DEF Next, Faults

\* A symbol that is clear after the step was so before, or nothing is left of it.
LEMMA ClearBefore ==
    ASSUME TypeInv, [HistoryNext]_history, NEW s \in Symbols, s \notin tangled'
    PROVE  Settles(s) \/ (s \notin tangled /\ ~Tangles(s))
<1>1. CASE UNCHANGED history
  <2>1. UNCHANGED <<tangled, outgoing, closing, lost, redelivered>>
    BY <1>1 DEF history, vars, bus, faults, riskVars, execVars, monitorVars
  <2> QED BY <2>1 DEF Tangles, Approves, MonitorCloses, Loses, Repeats
<1>2. CASE HistoryNext
  BY <1>2 DEF HistoryNext, Record
<1> QED BY <1>1, <1>2

\* The number of symbols that count.
LEMMA CountType ==
    /\ IsFiniteSet(OpenSymbols) /\ OpenPositionsCount \in Nat
    /\ \A S \in SUBSET OpenSymbols : IsFiniteSet(S) /\ Cardinality(S) \in Nat
                                     /\ Cardinality(S) <= OpenPositionsCount
<1>1. OpenSymbols \subseteq Symbols /\ IsFiniteSet(Symbols)
  BY LedgerAssumption DEF OpenSymbols
<1>2. IsFiniteSet(OpenSymbols)
  BY <1>1, FS_Subset
<1> QED BY <1>2, FS_Subset, FS_CardinalityType DEF OpenPositionsCount

\* Only the approval of an opening order adds a position to those that count, and
\* check 7 has looked at all of them.
LEMMA LimitKept ==
    ASSUME HInv, [HistoryNext]_history
    PROVE  LedgerWithinLimit'
<1> USE DEF HInv
<1>1. [Next]_vars /\ TypeInv /\ Orderly /\ LedgerWithinLimit
  BY DEF HistoryNext, history, HistoryInv
<1>2. ASSUME KeepsOpen PROVE LedgerWithinLimit'
  <2>1. (OpenSymbols \ tangled)' \subseteq OpenSymbols \ tangled
    <3> SUFFICES ASSUME NEW s \in Symbols, held'[s] # "flat", s \notin tangled'
                 PROVE  held[s] # "flat" /\ s \notin tangled
      BY DEF OpenSymbols
    <3>1. s \notin tangled
      BY <1>1, ClearBefore DEF Settles
    <3> QED BY <1>2, <3>1 DEF KeepsOpen, HistoryInv, Clear
  <2>2. IsFiniteSet(OpenSymbols \ tangled)
    BY CountType
  <2>3. /\ Cardinality((OpenSymbols \ tangled)') <= Cardinality(OpenSymbols \ tangled)
        /\ Cardinality((OpenSymbols \ tangled)') \in Nat
        /\ Cardinality(OpenSymbols \ tangled) \in Nat
    BY <2>1, <2>2, FS_Subset, FS_CardinalityType
  <2> QED BY <1>1, <2>3, RiskAssumption DEF LedgerWithinLimit
<1>3. CASE held' = held
  BY <1>2, <1>3 DEF KeepsOpen
<1>4. ASSUME NEW t \in Symbols, Propose(t) PROVE LedgerWithinLimit'
  <2>1. \/ held' = held
        \/ \E side : held' = [held EXCEPT ![t] = side] /\ OpenPositionsCount < MaxOpenPositions
    BY <1>1, <1>4, ProposeShape DEF ledger, OpenPosition
  <2>2. CASE OpenPositionsCount < MaxOpenPositions /\ \E side : held' = [held EXCEPT ![t] = side]
    <3>1. (OpenSymbols \ tangled)' \subseteq (OpenSymbols \ tangled') \cup {t}
      BY <1>1, <2>2, HistoryTypes DEF OpenSymbols
    <3>2. /\ IsFiniteSet(OpenSymbols \ tangled')
          /\ Cardinality(OpenSymbols \ tangled') \in Nat
          /\ Cardinality(OpenSymbols \ tangled') <= OpenPositionsCount
      BY CountType
    <3>3. /\ IsFiniteSet((OpenSymbols \ tangled') \cup {t})
          /\ Cardinality((OpenSymbols \ tangled') \cup {t}) <= Cardinality(OpenSymbols \ tangled') + 1
          /\ Cardinality((OpenSymbols \ tangled') \cup {t}) \in Nat
      <4>1. PICK S : S = OpenSymbols \ tangled'
        OBVIOUS
      <4>2. IsFiniteSet(S) /\ Cardinality(S) \in Nat
        BY <3>2, <4>1
      <4>3. /\ IsFiniteSet(S \cup {t})
            /\ Cardinality(S \cup {t}) = IF t \in S THEN Cardinality(S) ELSE Cardinality(S) + 1
        BY <4>2, FS_AddElement, Zenon
      <4>4. Cardinality(S \cup {t}) <= Cardinality(S) + 1
        BY <4>2, <4>3
      <4>5. Cardinality(S \cup {t}) \in Nat
        BY <4>2, <4>3
      <4> QED BY <4>1, <4>3, <4>4, <4>5
    <3>4. /\ Cardinality((OpenSymbols \ tangled)') <= Cardinality((OpenSymbols \ tangled') \cup {t})
          /\ Cardinality((OpenSymbols \ tangled)') \in Nat
      BY <3>1, <3>3, FS_Subset, FS_CardinalityType
    <3>5. OpenPositionsCount \in Nat /\ MaxOpenPositions \in Nat
      BY CountType, RiskAssumption
    <3> QED BY <2>2, <3>2, <3>3, <3>4, <3>5 DEF LedgerWithinLimit
  <2> QED BY <1>3, <2>1, <2>2
<1>5. CASE RiskStep /\ UNCHANGED execVars
  <2>1. CASE ApplyExecutionResult
    BY <1>1, <1>2, <1>5, <2>1, ApplyStraight
  <2>2. CASE Awaits
    BY <1>3, <2>2 DEF Awaits, WriteLatch, BroadcastOverride, EmergencyHaltFails, PublishAssessment,
       PublishAssessmentFails, RiskHearsOverride, RiskLeaves, ResultUnheard, halting, afterVerdict,
       riskVars, ledger
  <2> QED BY <1>5, <2>1, <2>2 DEF RiskStep, Awaits
<1>6. CASE UNCHANGED riskVars
  BY <1>3, <1>6 DEF riskVars, ledger
<1>7. CASE UNCHANGED vars
  BY <1>6, <1>7 DEF vars
<1> QED BY <1>1, <1>4, <1>5, <1>6, <1>7 DEF Next

LEMMA InitHistory == HistoryInit => HInv
<1> SUFFICES ASSUME HistoryInit PROVE HistoryInv
  BY InitTypeInv DEF HistoryInit, HInv
<1>1. /\ assessments = <<>> /\ results = <<>> /\ filledOrders = <<>> /\ seen = <<>>
      /\ order = None /\ outgoing = None /\ filling = None /\ closing = None
      /\ held = [s \in Symbols |-> "flat"] /\ bheld = [s \in Symbols |-> "flat"]
      /\ tangled = {}
  BY DEF HistoryInit, Init, BusInit, RiskInit, LedgerInit, ExecInit, BrokerInit
<1>2. /\ Requested = {} /\ Reported = {} /\ Messages(filledOrders) = {} /\ SeenIds = {}
      /\ Approvals = {} /\ Unheard = {} /\ Live = {}
  BY <1>1 DEF Requested, Reported, Messages, SeenIds, Approvals, Unheard, Live
<1>3. Orderly
  BY <1>1, <1>2 DEF Orderly
<1>4. ASSUME NEW s \in Symbols PROVE Straight(s)
  BY <1>1, <1>2 DEF Straight, RequestsOnce, ResultsOnce, BooksFit, PositionReserved
<1>5. LedgerWithinLimit
  <2>1. OpenSymbols \ tangled = {}
    BY <1>1 DEF OpenSymbols
  <2> QED BY <2>1, FS_EmptySet, RiskAssumption DEF LedgerWithinLimit
<1> QED BY <1>1, <1>3, <1>4, <1>5 DEF HistoryInv, Clear

LEMMA NextHistory == ASSUME HInv, [HistoryNext]_history PROVE HInv'
<1>1. [Next]_vars /\ TypeInv /\ Orderly
  BY DEF HistoryNext, history, HInv, HistoryInv
<1>2. TypeInv' /\ KeepsStraight
  BY <1>1, NextTypeInv, NextStraight
<1>3. (tangled \subseteq Symbols)'
  BY DEF HistoryNext, Record, history, HInv, HistoryInv
<1>4. ASSUME NEW s \in Clear' PROVE Straight(s)'
  <2>1. s \in Symbols /\ s \notin tangled'
    BY DEF Clear
  <2>2. CASE Settles(s)
    BY <1>2, <2>1, <2>2, SettledStraight
  <2>3. CASE s \notin tangled /\ ~Tangles(s)
    BY <1>2, <2>1, <2>3 DEF KeepsStraight, HInv, HistoryInv, Clear
  <2> QED BY <1>1, <2>1, <2>2, <2>3, ClearBefore
<1> QED BY <1>2, <1>3, <1>4, LimitKept DEF HInv, HistoryInv, KeepsStraight

\* The inductive invariant of the pipeline with its record: an approval for a symbol
\* whose orders never met is in one place, its result is published and applied once
\* (agents/risk/agent.py:192-197), and each finds the two books as the agent that
\* sent it left them.  Nothing is assumed of the order of proposals, of the monitor
\* (agents/execution/agent.py:272-282) or of the bus.
THEOREM HistoryInvariant == HistorySpec => []HInv
<1> QED BY InitHistory, NextHistory, PTL DEF HistorySpec

\* Risk reserves a position before the approval leaves it (agents/risk/agent.py:368)
\* and gives it up only when Execution reports a refusal or a close: a position the
\* broker holds (paper_broker.py:302-331) is in Risk's ledger on the same side, at
\* every moment, for every symbol whose orders never met.
THEOREM PositionsStayReserved == HistorySpec => []ClearPositionsReserved
<1>1. HInv => ClearPositionsReserved
  BY DEF HInv, HistoryInv, ClearPositionsReserved, Straight
<1> QED BY <1>1, HistoryInvariant, PTL

\* Risk compares its own ledger with risk.max_open_positions
\* (agents/risk/agent.py:332), another process opens the positions: beyond the
\* limit the broker holds only positions of symbols whose orders met.
THEOREM PositionLimit == HistorySpec => []BrokerWithinLimit
<1>1. HInv => BrokerWithinLimit
  <2> SUFFICES ASSUME HInv PROVE BrokerWithinLimit
    OBVIOUS
  <2>1. BrokerOpen \ tangled \subseteq OpenSymbols \ tangled
    BY DEF HInv, HistoryInv, Clear, Straight, PositionReserved, BrokerOpen, OpenSymbols
  <2>2. IsFiniteSet(OpenSymbols \ tangled)
    BY CountType
  <2>3. /\ Cardinality(BrokerOpen \ tangled) <= Cardinality(OpenSymbols \ tangled)
        /\ Cardinality(BrokerOpen \ tangled) \in Nat
        /\ Cardinality(OpenSymbols \ tangled) \in Nat
    BY <2>1, <2>2, FS_Subset, FS_CardinalityType
  <2> QED BY <2>3, RiskAssumption DEF HInv, HistoryInv, LedgerWithinLimit, BrokerWithinLimit
<1> QED BY <1>1, HistoryInvariant, PTL
================================================================================
