------------------------------ MODULE TradePipeline ------------------------------
(***************************************************************************)
(* Risk and Execution composed over the bus: a proposal is approved and    *)
(* reserved, the order fills at the broker, the result corrects the        *)
(* ledger.  The question is whether Risk's ledger and the broker's         *)
(* positions, which are kept in two processes, stay the same portfolio.    *)
(***************************************************************************)
EXTENDS RiskAgent, ExecutionAgent

CONSTANT
    Serialised  \* TRUE: a symbol gets no proposal while one is in flight

ASSUME CadenceAssumption == Serialised \in BOOLEAN

vars == <<bus, riskVars, execVars>>

\* What is on its way: in a channel, or in the hands of a task that is going
\* to publish it.
Requested == Messages(assessments) \cup ({outgoing, order} \ {None})
Reported == Messages(results) \cup ({filling, closing} \ {None})
Carried == Requested \cup Reported

InFlight(s) == \E m \in Carried : m.symbol = s

Init == BusInit /\ RiskInit /\ ExecInit

Propose(s) ==
    /\ Serialised => ~InFlight(s)
    /\ Evaluate(s)
    /\ UNCHANGED execVars

Next ==
    \/ \E s \in Symbols : Propose(s)
    \/ RiskStep /\ UNCHANGED execVars
    \/ ExecStep /\ UNCHANGED riskVars
    \/ (LoseAssessment \/ LoseResult \/ Redeliver) /\ UNCHANGED <<riskVars, execVars>>

Spec == Init /\ [][Next]_vars

(***************************************************************************)
(* Both agents are event loops: a message that has arrived is handled, an  *)
(* order in its latency completes, an await returns.  A new proposal and a *)
(* round of the monitor need not come.                                     *)
(***************************************************************************)
Fairness ==
    /\ WF_vars((PublishAssessment \/ WriteLatch \/ BroadcastOverride) /\ UNCHANGED execVars)
    /\ WF_vars(ApplyExecutionResult /\ UNCHANGED execVars)
    /\ WF_vars((SkipRejected \/ ReplayFilled \/ BeginOrder \/ PlaceOrder \/ PublishResult
                \/ ExecLeaves) /\ UNCHANGED riskVars)
    /\ WF_vars(((\E s \in Symbols : MonitorPass(s)) \/ MonitorPublish) /\ UNCHANGED riskVars)
    /\ WF_vars(RiskHearsOverride /\ UNCHANGED execVars)
    /\ WF_vars(ExecHearsOverride /\ UNCHANGED riskVars)

FairSpec == Spec /\ Fairness

TypeOK == BusTypeOK /\ RiskTypeOK /\ ExecTypeOK

--------------------------------------------------------------------------------
(***************************************************************************)
(* Safety.                                                                 *)
(***************************************************************************)

\* Risk's ledger and the broker hold symbol s on the same side at the same
\* cost.
Agree(s) == held[s] = bheld[s] /\ cost[s] = bcost[s]

BothRun == riskRunning /\ ~RiskQuarantined /\ execRunning

\* As long as both agents run, a symbol with nothing in flight is the same in
\* Risk's ledger (position_side, open_positions) and at the broker.
SidesAgree == BothRun => \A s \in Symbols : ~InFlight(s) => Agree(s)

\* With everything settled the ledger's portfolio value is the broker's
\* equity up to the rounding of realized_pnl_usd: half a cent for each close,
\* and a close takes two results, its own and the opening one.
EquityAgrees ==
    BothRun /\ (\A s \in Symbols : ~InFlight(s)) =>
        LET gap == PortfolioValue - TotalEquity
        IN  -issued * Cent <= 4 * gap /\ 4 * gap <= issued * Cent

\* place_order is idempotent (paper_broker.py:269-273): although the check
\* comes before the latency and the entry is made after it, no proposal fills
\* twice while its first fill is remembered.
FilledOnce ==
    \A i, j \in DOMAIN filledOrders :
        i # j => filledOrders[i].pid # filledOrders[j].pid

\* Whenever the ledger and the broker disagree on a symbol's side, they agree
\* again later, unless Execution stops: every reservation is confirmed, closed
\* or released.
LedgerConverges ==
    \A s \in Symbols : (held[s] # bheld[s]) ~> (held[s] = bheld[s] \/ ~execRunning)

\* A breached limit ends all trading: the latch is set for agents to come and
\* both running agents hear the override and stop.
BreachStopsTrading == breaker ~> (latch /\ ~riskRunning /\ ~execRunning)

--------------------------------------------------------------------------------
(***************************************************************************)
(* What the proofs of SidesAgree and EquityAgrees assume: one order per    *)
(* symbol at a time, no stop-loss close, nothing lost.  Messages may be    *)
(* repeated.                                                               *)
(***************************************************************************)
Calm == Serialised /\ MaxMonitorCloses = 0 /\ MaxLost = 0

Undisturbed ==
    /\ scan = {} /\ closing = None /\ monitorAsleep
    /\ order = None \/ filling = None
    /\ riskRunning => riskErrors = 0
    /\ ~newDay

(***************************************************************************)
(* RepeatInv, the inductive invariant behind SidesAgree and EquityAgrees,  *)
(* allows for copies.  Several requests and several results of one         *)
(* proposal may be in flight, because a repeated approval is tried again   *)
(* after a refusal.  What counts is what still has something to say.       *)
(***************************************************************************)

\* An approval that no remembered fill answers, the results not yet applied.
Unanswered(a) == a.approved /\ Cached(a.id) = {}
Unheard == {r \in Reported : r.id \notin SeenIds}

Pending(s) ==
    \/ \E a \in Requested : a.symbol = s /\ Unanswered(a)
    \/ \E r \in Unheard : r.symbol = s

\* An unanswered approval finds the symbol free at the broker, and reserved or
\* released again in the ledger, or open on the other side in both books; and
\* so does the report of a refusal, unless a fill was reported after it.
Stands(m) ==
    \/ bheld[m.symbol] = "flat" /\ held[m.symbol] \in {m.side, "flat"}
    \/ held[m.symbol] = Opposite(m.side) /\ Agree(m.symbol)

\* A fill not yet applied has opened what the ledger reserves or has released,
\* or has closed what the ledger still holds.
FillStands(r) ==
    \/ /\ bheld[r.symbol] = r.side /\ bcost[r.symbol] = r.cost
       /\ held[r.symbol] \in {r.side, "flat"}
    \/ bheld[r.symbol] = "flat" /\ held[r.symbol] = Opposite(r.side)

Superseded(r) == \E q \in Unheard : q.filled /\ q.symbol = r.symbol

Standing ==
    /\ order # None => order.approved
    /\ \A a \in Requested : Unanswered(a) => Stands(a)
    /\ \A r \in Unheard : IF r.filled THEN FillStands(r) ELSE Stands(r) \/ Superseded(r)
    /\ \A s \in Symbols : ~Pending(s) => Agree(s)

\* What is in flight for a symbol belongs to one proposal; its fill, if it has
\* one, comes after all its refusals.
OneProposal ==
    /\ \A a, b \in Requested : a.symbol = b.symbol => a = b
    /\ \A a \in Requested, r \in Reported : a.symbol = r.symbol => a.approved /\ a.side = r.side
    /\ \A r, q \in Reported :
           r.symbol = q.symbol =>
               r.side = q.side /\ (r.filled => q = r \/ (~q.filled /\ q.id < r.id))

InOrder(q) == \A i, j \in DOMAIN q : i < j => q[i].id <= q[j].id

\* Copies keep their place: no stage of the pipeline holds a higher number than
\* the stage before it.
RequestsInOrder ==
    /\ InOrder(assessments)
    /\ \A a, b \in Requested : a.id = b.id => a = b
    /\ \A a \in Requested : a.id <= proposed
    /\ outgoing # None =>
           /\ \A a \in Messages(assessments) \cup ({order} \ {None}) : a.id < outgoing.id
           /\ \A f \in Messages(filledOrders) : f.pid < outgoing.id
    /\ order # None =>
           /\ \A a \in Messages(assessments) : order.id <= a.id
           /\ \A f \in Messages(filledOrders) : f.pid # order.id
    /\ \A f \in Messages(filledOrders) :
           f.pid <= proposed /\ \A a \in Requested : f.pid <= a.id

ResultsInOrder ==
    /\ InOrder(results)
    /\ \A r, q \in Reported : r.id = q.id => r = q
    /\ \A r \in Reported : r.id <= issued
    /\ filling # None => \A r \in Messages(results) : r.id <= filling.id
    /\ \A id \in SeenIds : id <= issued /\ \A r \in Reported : id <= r.id
    /\ \A f \in Messages(filledOrders) :
           /\ f.id <= issued
           /\ \A r \in Reported \cup Messages(filledOrders) : f.id = r.id => f = r

\* The fill that answers a repeated approval is the latest result, on its way
\* or applied; and a proposal whose fill is on its way is answered.
Answered ==
    \A a \in Requested :
        /\ \A f \in Messages(filledOrders) :
               f.pid = a.id =>
                   /\ f.filled /\ f.symbol = a.symbol /\ f.side = a.side
                   /\ f.id = issued
                   /\ f \in Reported \/ f.id \in SeenIds
        /\ \A r \in Reported : r.filled /\ r.symbol = a.symbol => ~Unanswered(a)

FlatCostsNothing ==
    \A s \in Symbols :
        /\ held[s] = "flat" => cost[s] = 0
        /\ bheld[s] = "flat" => bcost[s] = 0

Consistent ==
    /\ Standing
    /\ OneProposal
    /\ RequestsInOrder
    /\ ResultsInOrder
    /\ Answered
    /\ FlatCostsNothing

RepeatInv == Undisturbed /\ (BothRun => Consistent)
================================================================================
