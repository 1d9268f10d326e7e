----------------------------- MODULE PipelineHistory -----------------------------
(***************************************************************************)
(* The pipeline with a record of the symbols whose orders got tangled.     *)
(*                                                                         *)
(* Nothing in the code keeps a symbol's orders apart: Risk approves the    *)
(* next proposal without knowing what is still on its way, the stop-loss   *)
(* monitor closes whatever it finds, messages are lost and repeated.  This *)
(* module says how far the harm of that reaches: it records the symbols to *)
(* which it happened, for as long as it can have consequences, and states  *)
(* the two properties for all the others.  Every behaviour of the pipeline *)
(* is a behaviour here; the record is read by the properties alone.        *)
(***************************************************************************)
EXTENDS TradePipeline

VARIABLE tangled  \* symbols whose orders met, or whose messages were lost or repeated

history == <<vars, tangled>>

\* What can still change a book: approvals that are on their way to the broker
\* and results that Risk has not applied.
Approvals == {a \in Requested : a.approved}
Live == Approvals \cup Unheard
LiveFor(s) == \E m \in Live : m.symbol = s

\* A step approves an order for s, or closes its position at the monitor's wish.
Approves(s) ==
    outgoing = None /\ outgoing' # None /\ outgoing'.approved /\ outgoing'.symbol = s

MonitorCloses(s) == closing = None /\ closing' # None /\ closing'.symbol = s

Loses(s) == lost' # lost /\ \E m \in Live \ Live' : m.symbol = s

Repeats(s) ==
    /\ redelivered' # redelivered /\ assessments' # assessments
    /\ Head(assessments).approved /\ Head(assessments).symbol = s

Tangles(s) ==
    \/ (Approves(s) \/ MonitorCloses(s)) /\ LiveFor(s)
    \/ Loses(s)
    \/ Repeats(s)

\* It is over when nothing is on its way for s and neither book holds it.
Settles(s) == held'[s] = "flat" /\ bheld'[s] = "flat" /\ ~InFlight(s)'

Record ==
    tangled' = {s \in Symbols : (s \in tangled \/ Tangles(s)) /\ ~Settles(s)}

HistoryInit == Init /\ tangled = {}

HistoryNext == Next /\ Record

HistorySpec == HistoryInit /\ [][HistoryNext]_history

--------------------------------------------------------------------------------
(***************************************************************************)
(* Properties.                                                             *)
(***************************************************************************)
Clear == Symbols \ tangled

PositionReserved(s) == bheld[s] # "flat" => held[s] = bheld[s]

\* Whatever happens to other symbols, a position of a symbol whose orders never
\* met is in Risk's ledger, on the same side, at every moment: also while messages
\* are on their way, and after either agent has stopped.
ClearPositionsReserved == \A s \in Clear : PositionReserved(s)

\* Risk compares its own ledger with max_open_positions (agents/risk/agent.py:332);
\* at the broker every position beyond the limit is one of a tangled symbol.
BrokerWithinLimit == Cardinality(BrokerOpen \ tangled) <= MaxOpenPositions

--------------------------------------------------------------------------------
(***************************************************************************)
(* HistoryInv, the inductive invariant behind both.                        *)
(***************************************************************************)

\* What the numbering of proposals and results and the two duplicate checks rest
\* on, whatever was lost, repeated or tangled.
Orderly ==
    /\ order = None \/ filling = None
    /\ order # None => order.approved
    /\ RiskQuarantined => outgoing = None
    /\ \A a \in Requested : a.id <= proposed /\ \A b \in Requested : a.id = b.id => a = b
    /\ \A f \in Messages(filledOrders) :
           /\ f.pid <= proposed
           /\ \A a \in Requested : f.pid = a.id => f.symbol = a.symbol
    /\ \A r \in Reported \cup Messages(filledOrders) :
           /\ r.id <= issued
           /\ \A q \in Reported \cup Messages(filledOrders) : r.id = q.id => r = q
    /\ \A id \in SeenIds : id <= issued

\* An approval for s is in one place, and the broker has not filled it.
RequestsOnce(s) ==
    /\ \A i, j \in DOMAIN assessments :
           assessments[i].symbol = s /\ assessments[i].approved
               /\ assessments[i] = assessments[j] => i = j
    /\ \A a \in {order, outgoing} \ {None} :
           a.symbol = s /\ a.approved => a \notin Messages(assessments)
    /\ order # None /\ order.symbol = s => order # outgoing
    /\ \A a \in Approvals : a.symbol = s => Cached(a.id) = {}

\* A result for s is published once.  Copies of it reach Risk one after the other,
\* while it is the result heard last.
ResultsOnce(s) ==
    /\ \A r \in {filling, closing} \ {None} :
           r.symbol = s => r.id \notin SeenIds /\ r \notin Messages(results)
    /\ filling # None /\ filling.symbol = s => filling # closing
    /\ \A i, j \in DOMAIN results :
           results[i].symbol = s /\ i < j /\ results[i] = results[j]
               => \A k \in 1..j : results[k] = results[j]
    /\ \A j \in DOMAIN results :
           results[j].symbol = s /\ results[j].id \in SeenIds
               => seen[Len(seen)] = results[j].id /\ \A k \in 1..j : results[k] = results[j]

\* An approval opens what is reserved or closes what both books hold.
ApprovalFits(a) ==
    \/ bheld[a.symbol] = "flat" /\ held[a.symbol] = a.side
    \/ held[a.symbol] = Opposite(a.side) /\ held[a.symbol] = bheld[a.symbol]

\* A result tells Risk's ledger what it does not know yet.
ReportFits(r) ==
    IF r.filled
    THEN \/ bheld[r.symbol] = r.side /\ held[r.symbol] = r.side
         \/ bheld[r.symbol] = "flat" /\ held[r.symbol] = Opposite(r.side)
    ELSE \/ bheld[r.symbol] = "flat" /\ held[r.symbol] = r.side
         \/ held[r.symbol] = Opposite(r.side) /\ held[r.symbol] = bheld[r.symbol]

RiskHears == riskRunning /\ ~RiskQuarantined

BooksFit(s) ==
    /\ \A r \in Unheard : r.symbol = s => ReportFits(r)
    /\ order # None /\ order.symbol = s => ApprovalFits(order)
    /\ execRunning =>
           /\ \A a \in Approvals : a.symbol = s => ApprovalFits(a)
           /\ RiskHears /\ ~LiveFor(s) => held[s] = bheld[s]

Straight(s) ==
    /\ \A m, n \in Live : m.symbol = s /\ n.symbol = s => m = n
    /\ RequestsOnce(s)
    /\ ResultsOnce(s)
    /\ BooksFit(s)
    /\ PositionReserved(s)

LedgerWithinLimit == Cardinality(OpenSymbols \ tangled) <= MaxOpenPositions

HistoryInv ==
    /\ tangled \subseteq Symbols
    /\ Orderly
    /\ \A s \in Clear : Straight(s)
    /\ LedgerWithinLimit
================================================================================
