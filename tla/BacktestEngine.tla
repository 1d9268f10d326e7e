---------------------------- MODULE BacktestEngine ----------------------------
(***************************************************************************)
(* backtest/engine.py: the replay of a history of bars, one position at a  *)
(* time.  What is decided at the close of a bar is filled at the open of   *)
(* the next one; stop and target are looked for in the bar's range, the    *)
(* stop first; the equity is marked at the close.  Rates are per mille,    *)
(* money and prices are integers, and divisions round down.                *)
(***************************************************************************)
EXTENDS PriceLabels, Sequences

CONSTANTS
    Histories,        \* the histories a replay may be given
    LastBar,          \* a history has the bars 0..LastBar
    FeePct, SlippagePct, StopLossPct, TakeProfitPct, MaxPositionPct,
    MinOrder, MaxOrder, InitialBalance,
    None              \* no position, no pending order, no model

Bars == 0 .. LastBar

\* The part of a bar that the loop reads; opens and closes lie in the range.
IsBar(c) ==
    /\ c \in [open : Nat \ {0}, high : Nat \ {0}, low : Nat \ {0}, close : Nat \ {0},
              volume : Nat]
    /\ c.low <= c.open /\ c.open <= c.high
    /\ c.low <= c.close /\ c.close <= c.high

ASSUME EngineAssumption ==
    /\ LastBar \in Nat
    /\ \A h \in Histories : DOMAIN h = Bars /\ \A b \in Bars : IsBar(h[b])
    /\ {FeePct, SlippagePct, StopLossPct, TakeProfitPct, MaxPositionPct,
        MinOrder, MaxOrder, InitialBalance} \subseteq Nat
    /\ SlippagePct < 1000 /\ StopLossPct < 1000
    /\ None \notin {"buy", "sell"}
    /\ None \notin [side : {"buy", "sell"}, entry : Int, entered : Bars, qty : Int]

VARIABLES
    candles,      \* the history of this replay
    i,            \* the bar the loop looks at next; LastBar + 1 at its end
    pending,      \* the decision of the last bar, None or a side
    book,         \* [position, realized, trades]: what _open and _close change
    curve,        \* one equity point per bar
    over          \* run_with_decider has returned

engineVars == <<candles, i, pending, book, curve, over>>

OtherSide(side) == IF side = "buy" THEN "sell" ELSE "buy"

PerMille(x, p) == (x * p) \div 1000

\* Slippage is adverse to whoever trades: a buy costs more, a sale brings less.
Fill(side, raw) ==
    IF side = "buy" THEN PerMille(raw, 1000 + SlippagePct)
                    ELSE PerMille(raw, 1000 - SlippagePct)

\* max_position_pct of the realized equity, within the order limits.
Size(realized) ==
    LET wanted == PerMille(realized, MaxPositionPct)
        capped == IF wanted > MaxOrder THEN MaxOrder ELSE wanted
    IN  IF capped < MinOrder THEN MinOrder ELSE capped

\* _open: quantities are in thousandths.
Open(b, side, bar) ==
    LET entry == Fill(side, candles[bar].open)
    IN  [b EXCEPT !.position =
            [side |-> side, entry |-> entry, entered |-> bar,
             qty |-> IF entry > 0 THEN (1000 * Size(b.realized)) \div entry ELSE 0]]

Gain(p, exit) == IF p.side = "buy" THEN exit - p.entry ELSE p.entry - exit

\* _close: the result net of the fees of both sides goes to the realized equity.
Close(b, raw, bar, reason) ==
    LET p    == b.position
        exit == Fill(OtherSide(p.side), raw)
        net  == (Gain(p, exit) * p.qty - PerMille((p.entry + exit) * p.qty, FeePct)) \div 1000
    IN  [position |-> None,
         realized |-> b.realized + net,
         trades   |-> Append(b.trades,
            [side |-> p.side, entered |-> p.entered, exited |-> bar,
             raw |-> raw, pnl |-> net, reason |-> reason])]

\* Wrong: the same side replaces what is open.
FillPendingStacks(b, bar) ==
    IF pending = None THEN b ELSE Open(b, pending, bar)

\* Wrong: a reversal forgets the result of the closed position.
FillPendingForgets(b, bar) ==
    IF pending = None THEN b
    ELSE IF b.position = None THEN Open(b, pending, bar)
    ELSE IF b.position.side # pending
         THEN Open([Close(b, candles[bar].open, bar, "signal") EXCEPT !.realized = b.realized],
                   pending, bar)
         ELSE b

\* (1) The pending order is filled at this bar's open; the other side closes
\* what is open first, the same side does not add to it.
FillPending(b, bar) ==
    IF pending = None THEN b
    ELSE IF b.position = None THEN Open(b, pending, bar)
    ELSE IF b.position.side # pending
         THEN Open(Close(b, candles[bar].open, bar, "signal"), pending, bar)
         ELSE b

StopPrice(p) ==
    PerMille(p.entry, IF p.side = "buy" THEN 1000 - StopLossPct ELSE 1000 + StopLossPct)
TakePrice(p) ==
    PerMille(p.entry, IF p.side = "buy" THEN 1000 + TakeProfitPct ELSE 1000 - TakeProfitPct)

\* Whether a bar's range reaches the stop or the target of a position.
Stopped(p, c) == IF p.side = "buy" THEN c.low <= StopPrice(p) ELSE c.high >= StopPrice(p)
Reached(p, c) == IF p.side = "buy" THEN c.high >= TakePrice(p) ELSE c.low <= TakePrice(p)

\* Wrong: the target is looked at first.
CheckBracketsHopeful(b, bar) ==
    IF b.position = None THEN b
    ELSE IF Reached(b.position, candles[bar])
         THEN Close(b, TakePrice(b.position), bar, "take_profit")
    ELSE IF Stopped(b.position, candles[bar])
         THEN Close(b, StopPrice(b.position), bar, "stop_loss")
    ELSE b

\* (2) The stop is looked at before the target.
CheckBrackets(b, bar) ==
    IF b.position = None THEN b
    ELSE IF Stopped(b.position, candles[bar])
         THEN Close(b, StopPrice(b.position), bar, "stop_loss")
    ELSE IF Reached(b.position, candles[bar])
         THEN Close(b, TakePrice(b.position), bar, "take_profit")
    ELSE b

\* (3) The equity at a bar's close.
Equity(b, price) ==
    IF b.position = None THEN b.realized
    ELSE b.realized + (Gain(b.position, price) * b.position.qty) \div 1000

EquityPoint(b, bar) ==
    [equity |-> Equity(b, candles[bar].close), inMarket |-> b.position # None]

EngineInit ==
    /\ candles \in Histories
    /\ i = 0
    /\ pending = None
    /\ book = [position |-> None, realized |-> InitialBalance, trades |-> << >>]
    /\ curve = << >>
    /\ over = FALSE

\* One turn of the loop; d is what the decider makes of the bars up to this one.
\* The last bar is not asked (4).
ReplayBar(d) ==
    LET after == CheckBrackets(FillPending(book, i), i)
    IN  /\ i <= LastBar
        /\ book' = after
        /\ curve' = Append(curve, EquityPoint(after, i))
        /\ pending' = IF i < LastBar THEN d ELSE None
        /\ i' = i + 1
        /\ UNCHANGED <<candles, over>>

\* Wrong: the result is one more point of the curve.
EndOfDataAppends ==
    LET after == Close(book, candles[LastBar].close, LastBar, "eod")
    IN  /\ i = LastBar + 1
        /\ ~over
        /\ over' = TRUE
        /\ IF book.position = None
             THEN UNCHANGED <<book, curve>>
             ELSE /\ book' = after
                  /\ curve' = Append(curve, [equity |-> after.realized, inMarket |-> FALSE])
        /\ UNCHANGED <<candles, i, pending>>

\* What is still open is closed at the last close, and the last point of the
\* curve shows the result.
EndOfData ==
    LET after == Close(book, candles[LastBar].close, LastBar, "eod")
    IN  /\ i = LastBar + 1
        /\ ~over
        /\ over' = TRUE
        /\ IF book.position = None
             THEN UNCHANGED <<book, curve>>
             ELSE /\ book' = after
                  /\ curve' = [curve EXCEPT ![Len(curve)] =
                                 [equity |-> after.realized, inMarket |-> FALSE]]
        /\ UNCHANGED <<candles, i, pending>>
-----------------------------------------------------------------------------
\* The stop is further from an entry's open than the slippage, whatever bar is
\* entered: what the settings' defaults ensure and nothing validates.
LevelsApart ==
    \A h \in Histories, b \in Bars :
        /\ StopPrice([side |-> "buy", entry |-> Fill("buy", h[b].open)]) <= h[b].open
        /\ StopPrice([side |-> "sell", entry |-> Fill("sell", h[b].open)]) >= h[b].open
===============================================================================
