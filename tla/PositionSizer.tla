----------------------------- MODULE PositionSizer -----------------------------
(***************************************************************************)
(* Fixed-fraction position sizing (agents/risk/position_sizer.py).         *)
(*                                                                         *)
(* Money is counted in integer units.  Percentages are integers out of     *)
(* 1000, so that the stop floor of 0.5 % is the integer 5.  The division   *)
(* of the risk amount by the stop truncates here and is exact to 28 digits *)
(* in the code; every statement below is insensitive to the difference.    *)
(***************************************************************************)
EXTENDS Integers

CONSTANTS
    MaxPositionPct,  \* risk.max_position_pct, per mille of the portfolio
    MinOrder,        \* risk.min_order_size_usd
    MaxOrder,        \* risk.max_order_size_usd
    RiskPerTradePct  \* risk_per_trade_pct, per mille of the portfolio

(***************************************************************************)
(* The limits core/config.py accepts: nothing relates MinOrder to MaxOrder.*)
(***************************************************************************)
ASSUME SizerAssumption ==
    /\ MaxPositionPct \in 0..1000
    /\ RiskPerTradePct \in 0..1000
    /\ MinOrder \in Nat \ {0}
    /\ MaxOrder \in Nat \ {0}

MinStopLossPct == 5
FallbackStopPct == 20

Lesser(a, b) == IF a <= b THEN a ELSE b
Greater(a, b) == IF a >= b THEN a ELSE b

\* get_stop_loss_pct: the ATR stop (x 1.5) wins over the proposal's own, and
\* the 2 % fallback is last.  Zero stands for "absent or not positive".
StopLossPct(atr, suggested) ==
    IF atr > 0 THEN (atr * 3) \div 2
    ELSE IF suggested > 0 THEN suggested ELSE FallbackStopPct

\* calculate: the smallest of the three upper caps.
Capped(value, stop) ==
    LET effective == Greater(stop, MinStopLossPct)
        rawSize   == (RiskPerTradePct * value) \div effective
        fromPct   == (MaxPositionPct * value) \div 1000
    IN  Lesser(rawSize, Lesser(fromPct, MaxOrder))

\* calculate: the floor is applied last, so it wins over every cap.
Calculate(value, stop) == Greater(Capped(value, stop), MinOrder)
================================================================================
