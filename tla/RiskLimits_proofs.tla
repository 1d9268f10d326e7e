---------------------------- MODULE RiskLimits_proofs ----------------------------
(***************************************************************************)
(* What Risk's limits promise for every portfolio value, every proposal    *)
(* and every result a broker can report.                                   *)
(***************************************************************************)
EXTENDS RiskLimits, DrawdownMonitor_proofs

(***************************************************************************)
(* The sizer.                                                              *)
(***************************************************************************)
LEMMA LesserType == ASSUME NEW a \in Int, NEW b \in Int
                    PROVE  Lesser(a, b) \in Int /\ Lesser(a, b) <= a /\ Lesser(a, b) <= b
  BY DEF Lesser

LEMMA GreaterType == ASSUME NEW a \in Int, NEW b \in Int
                     PROVE  Greater(a, b) \in {a, b} /\ Greater(a, b) >= a /\ Greater(a, b) >= b
  BY DEF Greater

LEMMA CappedType == ASSUME NEW value \in Int, NEW stop \in Int
                    PROVE  Capped(value, stop) \in Int /\ Capped(value, stop) <= MaxOrder
<1> DEFINE effective == Greater(stop, MinStopLossPct)
           raw == (RiskPerTradePct * value) \div effective
           fromPct == (MaxPositionPct * value) \div 1000
<1>1. MaxOrder \in Int /\ RiskPerTradePct \in Int /\ MaxPositionPct \in Int
  BY SizerAssumption
<1>2. effective \in Int /\ effective > 0
  BY GreaterType DEF MinStopLossPct
<1>3. RiskPerTradePct * value \in Int /\ MaxPositionPct * value \in Int
  BY <1>1
<1> HIDE DEF effective
<1>4. raw \in Int /\ fromPct \in Int
  BY <1>2, <1>3
<1> HIDE DEF raw, fromPct
<1>5. Capped(value, stop) = Lesser(raw, Lesser(fromPct, MaxOrder))
  BY DEF Capped, raw, fromPct, effective
<1>6. Lesser(fromPct, MaxOrder) \in Int /\ Lesser(fromPct, MaxOrder) <= MaxOrder
  BY <1>1, <1>4, LesserType
<1>7. /\ Lesser(raw, Lesser(fromPct, MaxOrder)) \in Int
      /\ Lesser(raw, Lesser(fromPct, MaxOrder)) <= Lesser(fromPct, MaxOrder)
  BY <1>4, <1>6, LesserType
<1> QED
  BY <1>1, <1>5, <1>6, <1>7

\* The floor is applied after the caps (position_sizer.py:86-88): whatever the
\* portfolio is worth the size is at least min_order_size_usd, so check 9 of
\* the Risk agent (agent.py:348-357) never rejects, and it exceeds
\* max_order_size_usd only when the minimum does.
THEOREM SizeBounds ==
    ASSUME NEW value \in Int, NEW stop \in Int
    PROVE  /\ Calculate(value, stop) >= MinOrder
           /\ MinOrder <= MaxOrder => Calculate(value, stop) <= MaxOrder
<1>1. Capped(value, stop) \in Int /\ Capped(value, stop) <= MaxOrder
  BY CappedType
<1>2. MinOrder \in Int /\ MaxOrder \in Int
  BY SizerAssumption
<1>3. /\ Greater(Capped(value, stop), MinOrder) \in {Capped(value, stop), MinOrder}
      /\ Greater(Capped(value, stop), MinOrder) >= MinOrder
  BY <1>1, <1>2, GreaterType
<1> QED
  BY <1>1, <1>2, <1>3 DEF Calculate

--------------------------------------------------------------------------------
(***************************************************************************)
(* The volume the bridge orders.                                           *)
(***************************************************************************)
LEMMA Rounded ==
    ASSUME NEW a \in Int, NEW b \in Nat \ {0}
    PROVE  /\ RoundHalfEven(a, b) \in Int
           /\ 2 * (b * RoundHalfEven(a, b)) <= 2 * a + b
           /\ 2 * (b * RoundHalfEven(a, b)) >= 2 * a - b
<1> DEFINE q == a \div b
           r == a % b
<1>1. q \in Int /\ r \in 0 .. b - 1 /\ a = b * q + r
  OBVIOUS
<1>2. CASE RoundHalfEven(a, b) = q /\ 2 * r <= b
  <2> HIDE DEF q, r
  <2> QED
    BY <1>1, <1>2
<1>3. CASE RoundHalfEven(a, b) = q + 1 /\ 2 * r >= b
  <2> HIDE DEF q, r
  <2>1. b * (q + 1) = b * q + b
    BY <1>1
  <2> DEFINE p == b * q
  <2>2. p \in Int
    BY <1>1
  <2> HIDE DEF p
  <2> QED
    BY <1>1, <1>3, <2>1, <2>2 DEF p
<1> QED
  BY <1>1, <1>2, <1>3 DEF RoundHalfEven

\* Half a step is the most an order is off, unless the floor or the cap decides
\* (mt5_bridge.py, _clamp_volume), for every size, price and lot step.
Faithful(size, price, v) ==
    /\ v > MinVolume => 2 * price * v <= 2 * size + price * VolumeStep
    /\ v < MaxVolume => 2 * price * v >= 2 * size - price * VolumeStep

LEMMA VolumeFaithful ==
    ASSUME NEW size \in Int, NEW price \in Nat, NEW v \in Volumes(size, price)
    PROVE  Faithful(size, price, v)
<1> DEFINE unit    == price * VolumeStep
           steps   == RoundHalfEven(size, unit)
           stepped == VolumeStep * steps
<1>1. price > 0 /\ v = ClampVolume(size, price)
  BY DEF Volumes
<1>2. VolumeStep \in Nat \ {0} /\ MinVolume \in Nat \ {0} /\ MaxVolume \in Nat \ {0}
  BY VolumeAssumption
<1>3. unit \in Nat \ {0}
  BY <1>1, <1>2
<1>4. steps \in Int /\ 2 * (unit * steps) <= 2 * size + unit /\ 2 * (unit * steps) >= 2 * size - unit
  BY <1>3, Rounded
<1>5. /\ v = IF (IF stepped < MinVolume THEN MinVolume ELSE stepped) > MaxVolume THEN MaxVolume
             ELSE IF stepped < MinVolume THEN MinVolume ELSE stepped
  BY <1>1 DEF ClampVolume
<1>6. steps \in Int /\ stepped \in Int /\ unit * steps = price * stepped
  BY <1>2, <1>3, <1>4
<1> HIDE DEF steps, stepped, unit
<1>7. v \in Int /\ (v > MinVolume => v <= stepped) /\ (v < MaxVolume => v >= stepped)
  BY <1>2, <1>5, <1>6
<1>8. /\ v <= stepped => price * v <= price * stepped
      /\ v >= stepped => price * v >= price * stepped
  BY <1>6, <1>7
<1>9. 2 * price * v = 2 * (price * v) /\ price * v \in Int /\ price * stepped \in Int
  BY <1>6, <1>7
<1> QED
  BY <1>3, <1>4, <1>6, <1>7, <1>8, <1>9 DEF Faithful, unit

(***************************************************************************)
(* Sizes of approvals are numbers, since reserved and reported costs are.  *)
(***************************************************************************)
SizeInv ==
    /\ cost \in [Symbols -> Int]
    /\ proposed \in Nat /\ reported \in Nat
    /\ outgoing \in Assessments \cup {None}
    /\ assessments \in Seq(Assessments)
    /\ results \in Seq(Results)

LEMMA VerdictType ==
    ASSUME SizeInv, NEW s \in Symbols, NEW side \in Sides, NEW size \in Int,
           NEW approved \in BOOLEAN, Verdict(s, side, size, approved)
    PROVE  outgoing' \in Assessments
  BY DEF SizeInv, Verdict, Assessment, Assessments

LEMMA EvaluateSize ==
    ASSUME SizeInv, NEW s \in Symbols, Evaluate(s), UNCHANGED envVars
    PROVE  SizeInv'
<1>1. PICK side \in Sides :
         \/ RejectHalted(s, side)
         \/ RejectBreach(s, side)
         \/ \E stale \in BOOLEAN : RejectScreened(s, side, stale)
         \/ ApproveClose(s, side)
         \/ \E requested \in Requests, stop \in Stops : ApproveOpen(s, side, requested, stop)
  BY DEF Evaluate
<1>2. TakeProposal
  BY <1>1 DEF RejectHalted, RejectBreach, RejectScreened, ApproveClose, ApproveOpen, Screened
<1>3. proposed' \in Nat /\ assessments' \in Seq(Assessments) /\ results' \in Seq(Results)
  BY <1>2 DEF TakeProposal, SizeInv, bus, channels
<1>4. TRUE \in BOOLEAN /\ FALSE \in BOOLEAN
  BY Zenon
<1>5. cost' \in [Symbols -> Int] /\ outgoing' \in Assessments
  <2>1. CASE RejectHalted(s, side) \/ RejectBreach(s, side)
             \/ \E stale \in BOOLEAN : RejectScreened(s, side, stale)
    <3>1. Verdict(s, side, 0, FALSE) /\ cost' = cost
      BY <2>1 DEF RejectHalted, RejectBreach, RejectScreened, ledger
    <3>2. 0 \in Int
      OBVIOUS
    <3>3. outgoing' \in Assessments
      BY <3>1, <3>2, <1>4, VerdictType, Zenon
    <3> QED
      BY <3>1, <3>3 DEF SizeInv
  <2>2. CASE ApproveClose(s, side)
    <3>1. Verdict(s, side, cost[s], TRUE) /\ cost' = cost /\ cost[s] \in Int
      BY <2>2 DEF ApproveClose, ledger, SizeInv
    <3>2. outgoing' \in Assessments
      BY <3>1, <1>4, VerdictType, Zenon
    <3> QED
      BY <3>1, <3>2 DEF SizeInv
  <2>3. CASE \E requested \in Requests, stop \in Stops : ApproveOpen(s, side, requested, stop)
    <3>1. PICK requested \in Requests, stop \in Stops : ApproveOpen(s, side, requested, stop)
      BY <2>3
    <3>2. PICK size \in 1 .. requested : OpenPosition(s, size, side) /\ Verdict(s, side, size, TRUE)
      BY <3>1 DEF ApproveOpen
    <3>3. size \in Int
      BY RiskAssumption
    <3>4. outgoing' \in Assessments
      BY <3>2, <3>3, <1>4, VerdictType, Zenon
    <3> QED
      BY <3>2, <3>3, <3>4 DEF OpenPosition, SizeInv
  <2> QED
    BY <1>1, <2>1, <2>2, <2>3
<1> QED
  BY <1>3, <1>5 DEF SizeInv, envVars

LEMMA ApplySize ==
    ASSUME SizeInv, ApplyExecutionResult \/ ResultUnheard, UNCHANGED envVars
    PROVE  SizeInv'
<1>1. /\ results # <<>> /\ results' = Tail(results)
      /\ UNCHANGED <<proposed, outgoing, assessments>>
  BY DEF ApplyExecutionResult, ResultDuplicate, ResultReleased, ResultIgnored, ResultClosed,
         ResultReconciled, ResultAdopted, TakeResult, ResultUnheard, riskVars
<1>2. Head(results) \in Results /\ results' \in Seq(Results)
  BY <1>1 DEF SizeInv
<1> DEFINE r == Head(results)
<1>3. r.symbol \in Symbols /\ r.cost \in Int
  BY <1>2 DEF Results
<1>4. \/ cost' = cost
      \/ cost' = [cost EXCEPT ![r.symbol] = 0]
      \/ cost' = [cost EXCEPT ![r.symbol] = r.cost]
  BY DEF ApplyExecutionResult, ResultDuplicate, ResultReleased, ResultIgnored, ResultClosed,
         ResultReconciled, ResultAdopted, ResultUnheard, riskVars, ledger,
         OpenPosition, AdjustPositionCost, ClosePosition
<1>5. cost' \in [Symbols -> Int]
  BY <1>3, <1>4 DEF SizeInv
<1> QED
  BY <1>1, <1>2, <1>5 DEF SizeInv, envVars

LEMMA TwiceType ==
    ASSUME NEW S, NEW q \in Seq(S), q # <<>>
    PROVE  Twice(q) \in Seq(S)
  BY DEF Twice

LEMMA NextSize == SizeInv /\ [Next]_vars => SizeInv'
<1> SUFFICES ASSUME SizeInv, [Next]_vars PROVE SizeInv'
  OBVIOUS
<1>1. ASSUME NEW s \in Symbols, Evaluate(s), UNCHANGED envVars PROVE SizeInv'
  BY <1>1, EvaluateSize
<1>2. ASSUME ApplyExecutionResult \/ ResultUnheard, UNCHANGED envVars PROVE SizeInv'
  BY <1>2, ApplySize
<1>3. ASSUME PublishAssessment \/ PublishAssessmentFails, UNCHANGED envVars PROVE SizeInv'
  <2>1. /\ outgoing \in Assessments /\ outgoing' = None
        /\ assessments' \in {assessments, Append(assessments, outgoing)}
        /\ UNCHANGED <<cost, proposed, results, reported>>
    BY <1>3 DEF envVars, PublishAssessment, PublishAssessmentFails, afterVerdict, ledger, channels, SizeInv
  <2> QED
    BY <2>1 DEF SizeInv
<1>4. ASSUME WriteLatch \/ BroadcastOverride \/ EmergencyHaltFails \/ RiskHearsOverride,
             UNCHANGED envVars
      PROVE  SizeInv'
  BY <1>4 DEF WriteLatch, BroadcastOverride, EmergencyHaltFails, RiskHearsOverride,
         envVars, halting, afterVerdict, bus, channels, ledger, SizeInv
<1>5. ASSUME RiskLeaves, UNCHANGED envVars PROVE SizeInv'
  BY <1>5 DEF RiskLeaves, envVars, bus, channels, ledger, SizeInv
<1>6. CASE Report
  <2>1. PICK s \in Symbols, side \in Sides, filled \in BOOLEAN, actual \in Costs,
             pnl \in Profits :
           results' = Append(results, Result(reported + 1, 0, s, side, filled, actual, pnl))
    BY <1>6 DEF Report
  <2>2. UNCHANGED <<cost, proposed, outgoing, assessments>>
    BY <1>6 DEF Report, riskVars, ledger
  <2>3. reported + 1 \in Nat /\ reported' = reported + 1
    BY <1>6 DEF Report, SizeInv
  <2>4. Result(reported + 1, 0, s, side, filled, actual, pnl) \in Results
    BY <2>3, EnvironmentAssumption DEF Result, Results
  <2> QED
    BY <2>1, <2>2, <2>3, <2>4 DEF SizeInv
<1>7. CASE Redeliver /\ UNCHANGED <<riskVars, envVars>>
  <2>1. /\ assessments' = assessments \/ (assessments # <<>> /\ assessments' = Twice(assessments))
        /\ results' = results \/ (results # <<>> /\ results' = Twice(results))
        /\ UNCHANGED <<cost, proposed, outgoing, reported>>
    BY <1>7 DEF Redeliver, riskVars, envVars, ledger
  <2>2. assessments \in Seq(Assessments) /\ results \in Seq(Results)
    BY DEF SizeInv
  <2>3. assessments' \in Seq(Assessments) /\ results' \in Seq(Results)
    BY <2>1, <2>2, TwiceType
  <2> QED
    BY <2>1, <2>2, <2>3 DEF SizeInv
<1>8. CASE Midnight \/ UNCHANGED vars
  BY <1>8 DEF Midnight, vars, envVars, riskVars, bus, channels, ledger, SizeInv
<1> QED
  BY <1>1, <1>2, <1>3, <1>4, <1>5, <1>6, <1>7, <1>8 DEF Next, RiskStep

\* An order in MT5 mode is worth what Risk approved, up to half a step of the
\* broker's lots, unless its smallest lot is worth more or its largest less.
THEOREM OrdersAreWorthIt == Spec => []WorthWhatApproved
<1>1. Init => SizeInv
  BY LedgerAssumption DEF Init, BusInit, RiskInit, LedgerInit, SizeInv
<1>2. SizeInv => WorthWhatApproved
  <2> SUFFICES ASSUME SizeInv, NEW i \in DOMAIN assessments, NEW price \in Prices,
                      NEW v \in Volumes(assessments[i].size, price)
               PROVE  Faithful(assessments[i].size, price, v)
    BY DEF WorthWhatApproved, Faithful
  <2>1. assessments[i] \in Assessments
    BY DEF SizeInv
  <2>2. assessments[i].size \in Int /\ price \in Nat
    BY <2>1, EnvironmentAssumption DEF Assessments
  <2> QED
    BY <2>2, VolumeFaithful
<1> QED
  BY <1>1, <1>2, NextSize, PTL DEF Spec

--------------------------------------------------------------------------------
(***************************************************************************)
(* The breaker.                                                            *)
(***************************************************************************)

\* A verdict of _evaluate while the breaker is tripped is a rejection.
LEMMA TrippedRejects ==
    ASSUME breaker, NEW s \in Symbols, Evaluate(s)
    PROVE  breaker' /\ ~outgoing'.approved
<1>1. PICK side \in Sides : RejectHalted(s, side)
  BY Zenon DEF Evaluate, RejectBreach, RejectScreened, ApproveClose, ApproveOpen, Screened
<1>2. outgoing' = Assessment(proposed + 1, s, side, 0, FALSE)
  BY <1>1, Zenon DEF RejectHalted, Verdict
<1>3. breaker' = breaker
  BY <1>1, Zenon DEF RejectHalted
<1> QED
  BY <1>2, <1>3, Zenon DEF Assessment

\* Nothing else creates an assessment or resets the breaker.
LEMMA OthersKeepOutgoing ==
    ASSUME RiskStep \/ Report \/ (Redeliver /\ UNCHANGED <<riskVars, envVars>>) \/ Midnight
           \/ UNCHANGED vars
    PROVE  outgoing' \in {outgoing, None} /\ breaker' = breaker
<1>1. ASSUME WriteLatch \/ BroadcastOverride \/ EmergencyHaltFails \/ PublishAssessment
             \/ PublishAssessmentFails \/ RiskHearsOverride \/ RiskLeaves
      PROVE  outgoing' \in {outgoing, None} /\ breaker' = breaker
  BY <1>1 DEF WriteLatch, BroadcastOverride, EmergencyHaltFails, PublishAssessment,
         PublishAssessmentFails, RiskHearsOverride, RiskLeaves, afterVerdict, halting
<1>2. ASSUME ApplyExecutionResult \/ ResultUnheard
      PROVE  outgoing' = outgoing /\ breaker' = breaker
  BY <1>2 DEF ApplyExecutionResult, ResultDuplicate, ResultReleased, ResultIgnored,
         ResultClosed, ResultReconciled, ResultAdopted, TakeResult, ResultUnheard, riskVars
<1> QED
  BY <1>1, <1>2 DEF RiskStep, Report, Midnight, riskVars, vars

\* Once a limit breach tripped the circuit breaker (agents/risk/agent.py:264-293)
\* no proposal is approved again, on this day or on a later one.
THEOREM HaltFinal == Spec => HaltIsFinal
<1> DEFINE A == breaker => /\ breaker'
                           /\ outgoing' # None => outgoing' = outgoing \/ ~outgoing'.approved
<1>1. [Next]_vars => [A]_vars
  BY TrippedRejects, OthersKeepOutgoing DEF Next
<1> QED
  BY <1>1, PTL DEF Spec, HaltIsFinal

--------------------------------------------------------------------------------
(***************************************************************************)
(* The day's books.                                                        *)
(***************************************************************************)

\* DailyBooks with what it needs to be inductive: a flat symbol costs nothing, so
\* that a position opened on one moves money without losing any.
BooksInv ==
    /\ SizeInv
    /\ LedgerType /\ FlatIsFreeOfCost
    /\ dailyStart \in Int /\ dailyPnl \in Int
    /\ DailyBooks

\* What a step has to show: the books are kept, whatever the rest does.
BooksKept ==
    /\ LedgerType' /\ FlatIsFreeOfCost'
    /\ dailyStart' \in Int /\ dailyPnl' \in Int
    /\ DailyBooks'

LEMMA BooksIdle == ASSUME BooksInv, UNCHANGED <<ledger, dailyStart, dailyPnl>> PROVE BooksKept
<1>1. PortfolioValue' = PortfolioValue
  BY ValueUnchanged DEF ledger
<1> QED
  BY <1>1 DEF BooksInv, BooksKept, DailyBooks, LedgerType, FlatIsFreeOfCost, ledger

\* The first check after midnight starts the new day with what there is.
LEMMA ResetKeepsBooks ==
    ASSUME BooksInv, MaybeResetDaily
    PROVE  /\ dailyStart' \in Int /\ dailyPnl' \in Int
           /\ dailyStart' + dailyPnl' = PortfolioValue
<1>1. PortfolioValue \in Int
  BY ValueType DEF BooksInv
<1> QED
  BY <1>1 DEF BooksInv, DailyBooks, MaybeResetDaily, StartOfDay

LEMMA EvaluateBooks == ASSUME BooksInv, NEW s \in Symbols, Evaluate(s) PROVE BooksKept
<1>1. PICK side \in Sides :
         \/ RejectHalted(s, side)
         \/ RejectBreach(s, side)
         \/ \E stale \in BOOLEAN : RejectScreened(s, side, stale)
         \/ ApproveClose(s, side)
         \/ \E requested \in Requests, stop \in Stops : ApproveOpen(s, side, requested, stop)
  BY DEF Evaluate
<1>2. CASE RejectHalted(s, side)
  BY <1>2, BooksIdle DEF RejectHalted, daily
<1>3. CASE \/ RejectBreach(s, side)
           \/ \E stale \in BOOLEAN : RejectScreened(s, side, stale)
           \/ ApproveClose(s, side)
  <2>1. MaybeResetDaily /\ UNCHANGED ledger
    BY <1>3 DEF RejectBreach, RejectScreened, ApproveClose, Screened
  <2>2. PortfolioValue' = PortfolioValue
    BY <2>1, ValueUnchanged
  <2> QED
    BY <2>1, <2>2, ResetKeepsBooks
       DEF BooksInv, BooksKept, DailyBooks, LedgerType, FlatIsFreeOfCost, ledger
<1>4. CASE \E requested \in Requests, stop \in Stops : ApproveOpen(s, side, requested, stop)
  <2>1. PICK requested \in Requests, stop \in Stops : ApproveOpen(s, side, requested, stop)
    BY <1>4
  <2>2. PICK size \in 1 .. requested : OpenPosition(s, size, side)
    BY <2>1 DEF ApproveOpen
  <2>3. MaybeResetDaily /\ held[s] = "flat" /\ size \in Int
    BY <2>1, RiskAssumption DEF ApproveOpen, Screened
  <2>4. LedgerType' /\ FlatIsFreeOfCost' /\ PortfolioValue' = PortfolioValue
    BY <2>2, <2>3, OpenPositionValue DEF BooksInv
  <2> QED
    BY <2>3, <2>4, ResetKeepsBooks DEF BooksKept, DailyBooks
<1> QED
  BY <1>1, <1>2, <1>3, <1>4

\* Whatever a broker reports, and in whatever order.
LEMMA ApplyBooks == ASSUME BooksInv, ApplyExecutionResult PROVE BooksKept
<1> DEFINE r == Head(results)
<1>1. results # <<>> /\ dailyStart' = dailyStart
  BY DEF ApplyExecutionResult, ResultDuplicate, ResultReleased, ResultIgnored, ResultClosed,
         ResultReconciled, ResultAdopted, TakeResult
<1>2. r \in Results
  BY <1>1 DEF BooksInv, SizeInv
<1>3. /\ r.symbol \in Symbols /\ r.side \in Sides /\ r.cost \in Int /\ r.pnl \in Int /\ 0 \in Int
      /\ LedgerType /\ FlatIsFreeOfCost /\ dailyStart \in Int /\ dailyPnl \in Int
      /\ PortfolioValue = dailyStart + dailyPnl
  BY <1>2 DEF Results, BooksInv, DailyBooks
<1> HIDE DEF r
<1>4. CASE ResultDuplicate \/ ResultIgnored
  BY <1>1, <1>4, BooksIdle DEF ResultDuplicate, ResultIgnored
<1>5. ASSUME NEW pnl \in Int, ClosePosition(r.symbol, pnl) PROVE BooksKept
  <2>1. LedgerType' /\ FlatIsFreeOfCost' /\ PortfolioValue' = PortfolioValue + pnl
    BY <1>3, <1>5, ClosePositionValue
  <2>2. dailyPnl' = dailyPnl + pnl
    BY <1>5 DEF ClosePosition
  <2> QED
    BY <1>1, <1>3, <2>1, <2>2 DEF BooksKept, DailyBooks
<1>6. CASE ResultReleased
  BY <1>3, <1>5, <1>6 DEF ResultReleased, r
<1>7. CASE ResultClosed
  BY <1>3, <1>5, <1>7 DEF ResultClosed, r
<1>8. CASE ResultReconciled \/ ResultAdopted
  <2>1. LedgerType' /\ FlatIsFreeOfCost' /\ PortfolioValue' = PortfolioValue
    <3>1. CASE ResultReconciled
      <4>1. AdjustPositionCost(r.symbol, r.cost)
        BY <3>1 DEF ResultReconciled, r
      <4> QED
        BY <1>3, <4>1, AdjustPositionCostValue
    <3>2. CASE ResultAdopted
      <4>1. held[r.symbol] = "flat" /\ OpenPosition(r.symbol, r.cost, r.side)
        BY <3>2 DEF ResultAdopted, r
      <4> QED
        BY <1>3, <4>1, OpenPositionValue
    <3> QED
      BY <1>8, <3>1, <3>2
  <2>2. dailyPnl' = dailyPnl
    BY <1>8 DEF ResultReconciled, ResultAdopted
  <2> QED
    BY <1>1, <1>3, <2>1, <2>2 DEF BooksKept, DailyBooks
<1> QED
  BY <1>4, <1>6, <1>7, <1>8 DEF ApplyExecutionResult

LEMMA NextBooks == BooksInv /\ [Next]_vars => BooksInv'
<1> SUFFICES ASSUME BooksInv, [Next]_vars PROVE BooksKept
  BY NextSize DEF BooksInv, BooksKept
<1>1. CASE \E s \in Symbols : Evaluate(s)
  BY <1>1, EvaluateBooks
<1>2. CASE ApplyExecutionResult
  BY <1>2, ApplyBooks
<1>3. CASE WriteLatch \/ BroadcastOverride \/ EmergencyHaltFails \/ PublishAssessment
           \/ PublishAssessmentFails \/ RiskHearsOverride \/ RiskLeaves \/ ResultUnheard
  <2>1. UNCHANGED <<ledger, dailyStart, dailyPnl>>
    BY <1>3 DEF WriteLatch, BroadcastOverride, EmergencyHaltFails, PublishAssessment,
           PublishAssessmentFails, RiskHearsOverride, RiskLeaves, ResultUnheard, riskVars,
           halting, afterVerdict, daily
  <2> QED
    BY <2>1, BooksIdle
<1>4. CASE Report \/ (Redeliver /\ UNCHANGED <<riskVars, envVars>>) \/ Midnight \/ UNCHANGED vars
  <2>1. UNCHANGED <<ledger, dailyStart, dailyPnl>>
    BY <1>4 DEF Report, Midnight, riskVars, vars, daily
  <2> QED
    BY <2>1, BooksIdle
<1> QED
  BY <1>1, <1>2, <1>3, <1>4 DEF Next, RiskStep

\* Today's loss is exactly today's realised result, for any set of symbols and
\* whatever the broker reports (drawdown_monitor.py:141-178): no operation of the
\* ledger creates or loses money.
THEOREM BooksAreKept == Spec => []DailyBooks
<1>1. Init => BooksInv
  <2> SUFFICES ASSUME Init PROVE BooksInv
    OBVIOUS
  <2>1. LedgerInit /\ dailyStart = InitialBalance /\ dailyPnl = 0 /\ InitialBalance \in Int
    BY LedgerAssumption DEF Init, RiskInit, LedgerInit
  <2>2. SizeInv
    BY LedgerAssumption DEF Init, BusInit, RiskInit, LedgerInit, SizeInv
  <2> QED
    BY <2>1, <2>2, LedgerInitValue DEF BooksInv, DailyBooks
<1>2. BooksInv => DailyBooks
  BY DEF BooksInv
<1> QED
  BY <1>1, <1>2, NextBooks, PTL DEF Spec
================================================================================
