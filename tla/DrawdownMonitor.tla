---------------------------- MODULE DrawdownMonitor ----------------------------
(***************************************************************************)
(* Risk's in-memory ledger (agents/risk/drawdown_monitor.py): cash, the    *)
(* open positions with their side and cost basis, and the two loss limits. *)
(*                                                                         *)
(* The dictionaries open_positions and position_sides always have the same *)
(* keys, because every caller passes a side; they are the functions cost   *)
(* and held over all symbols, with side "flat" and cost 0 for an absent    *)
(* key.  Money is an integer number of ticks.                              *)
(***************************************************************************)
EXTENDS Integers, FiniteSets, FiniteSetsExt

CONSTANTS
    Symbols,             \* the traded symbols
    InitialBalance,      \* paper_initial_balance_usd, in ticks
    MaxDailyLossPct,     \* max_daily_loss_pct, in percent
    MaxTotalDrawdownPct  \* max_total_drawdown_pct, in percent

ASSUME LedgerAssumption ==
    /\ IsFiniteSet(Symbols)
    /\ InitialBalance \in Nat
    /\ MaxDailyLossPct \in 1..100
    /\ MaxTotalDrawdownPct \in 1..100

Sides == {"buy", "sell"}

\* Wrong: the other side of "sell" was forgotten.
OppositeOfBuy(side) == IF side = "buy" THEN "sell" ELSE "flat"

Opposite(side) == IF side = "buy" THEN "sell" ELSE "buy"
Positions == Sides \cup {"flat"}

VARIABLES
    cash,        \* current_balance_usd
    held,        \* position_side(symbol), "flat" for None
    cost,        \* open_positions[symbol]
    dailyStart,  \* daily_start_balance_usd
    dailyPnl,    \* daily_realized_pnl
    newDay       \* last_reset_date is not today's UTC date

ledger == <<cash, held, cost>>
daily == <<dailyStart, dailyPnl, newDay>>

TotalOf(f) == MapThenSumSet(LAMBDA s : f[s], Symbols)

PortfolioValue == cash + TotalOf(cost)
OpenSymbols == {s \in Symbols : held[s] # "flat"}
OpenPositionsCount == Cardinality(OpenSymbols)

LedgerInit ==
    /\ cash = InitialBalance
    /\ held = [s \in Symbols |-> "flat"]
    /\ cost = [s \in Symbols |-> 0]
    /\ dailyStart = InitialBalance
    /\ dailyPnl = 0
    /\ newDay = FALSE

--------------------------------------------------------------------------------
(***************************************************************************)
(* Position management.  open_position overwrites whatever the symbol held *)
(* without giving its cost back: that callers only open flat symbols is a  *)
(* property of the callers.                                                *)
(***************************************************************************)
OpenPosition(s, size, side) ==
    /\ cash' = cash - size
    /\ held' = [held EXCEPT ![s] = side]
    /\ cost' = [cost EXCEPT ![s] = size]

\* Wrong: the difference is not given back to cash.
AdjustPositionOnly(s, actual) ==
    /\ held[s] # "flat"
    /\ cost' = [cost EXCEPT ![s] = actual]
    /\ UNCHANGED <<cash, held>>

AdjustPositionCost(s, actual) ==
    /\ held[s] # "flat"
    /\ cash' = cash + cost[s] - actual
    /\ cost' = [cost EXCEPT ![s] = actual]
    /\ held' = held

\* Wrong: the profit goes into the day's total only.
ClosePositionAtCost(s, pnl) ==
    /\ cash' = cash + cost[s]
    /\ held' = [held EXCEPT ![s] = "flat"]
    /\ cost' = [cost EXCEPT ![s] = 0]
    /\ dailyPnl' = dailyPnl + pnl

ClosePosition(s, pnl) ==
    /\ cash' = cash + cost[s] + pnl
    /\ held' = [held EXCEPT ![s] = "flat"]
    /\ cost' = [cost EXCEPT ![s] = 0]
    /\ dailyPnl' = dailyPnl + pnl

--------------------------------------------------------------------------------
(***************************************************************************)
(* The limits.  daily_loss_limit_breached first applies _maybe_reset_daily *)
(* so the day's start is whatever the portfolio is worth at the first      *)
(* check after midnight; a caller that checks the daily limit conjoins     *)
(* MaybeResetDaily.                                                        *)
(***************************************************************************)
StartOfDay == IF newDay THEN PortfolioValue ELSE dailyStart

MaybeResetDaily ==
    /\ dailyStart' = StartOfDay
    /\ dailyPnl' = IF newDay THEN 0 ELSE dailyPnl
    /\ newDay' = FALSE

\* A fraction of start lost; the quotient changes direction with start's sign.
LossAtLeast(pct, start) ==
    \/ start > 0 /\ (start - PortfolioValue) * 100 >= pct * start
    \/ start < 0 /\ (start - PortfolioValue) * 100 <= pct * start

DailyLossLimitBreached == LossAtLeast(MaxDailyLossPct, StartOfDay)
TotalDrawdownLimitBreached == LossAtLeast(MaxTotalDrawdownPct, InitialBalance)
================================================================================
