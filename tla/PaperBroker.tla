------------------------------- MODULE PaperBroker -------------------------------
(***************************************************************************)
(* The simulated broker (agents/execution/paper_broker.py) as Execution    *)
(* sees it: cash, one position per symbol, and the cache of filled orders  *)
(* that makes place_order idempotent.  The copies it keeps in Redis are    *)
(* the subject of module PaperPersistence.                                 *)
(*                                                                         *)
(* Prices are abstracted to what a fill does: the actual cost of an        *)
(* opening fill (partial fills, slippage and the fee make it differ from   *)
(* the approved size) and the exact profit of a closing one, both chosen   *)
(* from small sets.  Entry and exit fees are part of these amounts.        *)
(***************************************************************************)
EXTENDS TradeBus

CONSTANTS
    FillSpread,  \* how far the cost of an opening fill is from its size
    ExactPnls,   \* the profits of a closing fill, in ticks
    Cent,        \* ticks per cent: realized_pnl_usd is rounded to cents
    FilledMax    \* _IDEMPOTENCY_CACHE_SIZE

ASSUME BrokerAssumption ==
    /\ FillSpread \in Nat
    /\ ExactPnls \subseteq Int
    /\ Cent \in Nat \ {0}
    /\ FilledMax \in Nat \ {0}

VARIABLES
    bcash,         \* _cash_balance
    bheld,         \* the side of _positions[symbol], or "flat"
    bcost,         \* its cost_usd, or 0
    filledOrders,  \* _filled_orders, oldest first
    issued         \* results created so far: names the next result_id

brokerVars == <<bcash, bheld, bcost, filledOrders, issued>>

BrokerInit ==
    /\ bcash = InitialBalance
    /\ bheld = [s \in Symbols |-> "flat"]
    /\ bcost = [s \in Symbols |-> 0]
    /\ filledOrders = <<>>
    /\ issued = 0

BrokerTypeOK ==
    /\ bcash \in Int
    /\ bheld \in [Symbols -> Positions]
    /\ bcost \in [Symbols -> Int]
    /\ filledOrders \in Seq(Results)
    /\ issued \in Nat

\* get_balance: cash plus the cost basis of the open positions.
TotalEquity == bcash + TotalOf(bcost)

BrokerOpen == {s \in Symbols : bheld[s] # "flat"}

\* Decimal.quantize(0.01) under the default ROUND_HALF_EVEN context.
Quantize(n) ==
    LET q == n \div Cent
        r == n % Cent
    IN  Cent * (IF 2 * r < Cent \/ (2 * r = Cent /\ q % 2 = 0) THEN q ELSE q + 1)

FillCosts(size) == {c \in (size - FillSpread)..(size + FillSpread) : c > 0}

\* A long cannot lose more than it cost, a short cannot gain more.
Pnls(s) == {p \in ExactPnls : IF bheld[s] = "buy" THEN p >= -bcost[s] ELSE p <= bcost[s]}

\* total_cost_usd + fee_usd of a closing fill: the exit notional.
ExitCost(s, p) == IF bheld[s] = "buy" THEN bcost[s] + p ELSE bcost[s] - p

NextResult(pid, s, side, filled, actual, pnl) ==
    Result(issued + 1, pid, s, side, filled, actual, pnl)

Cached(pid) == {i \in DOMAIN filledOrders : filledOrders[i].pid = pid}

Remember(r) ==
    LET longer == Append(filledOrders, r)
    IN  filledOrders' = IF Len(longer) > FilledMax THEN Tail(longer) ELSE longer

--------------------------------------------------------------------------------
\* _close: the position is popped and cash returned in one step.
ClosingFill(pid, s, p) == NextResult(pid, s, Opposite(bheld[s]), TRUE, ExitCost(s, p), Quantize(p))

Close(s, p) ==
    /\ bheld[s] # "flat"
    /\ bcash' = bcash + bcost[s] + p
    /\ bheld' = [bheld EXCEPT ![s] = "flat"]
    /\ bcost' = [bcost EXCEPT ![s] = 0]
    /\ issued' = issued + 1

\* The opening branch of place_order, after its balance check.
Open(s, side, actual) ==
    /\ actual <= bcash
    /\ bcash' = bcash - actual
    /\ bheld' = [bheld EXCEPT ![s] = side]
    /\ bcost' = [bcost EXCEPT ![s] = actual]
    /\ issued' = issued + 1

\* place_order raised: only the caller's REJECTED result is created.
Refuse == UNCHANGED <<bcash, bheld, bcost, filledOrders>> /\ issued' = issued + 1
================================================================================
