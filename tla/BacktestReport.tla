---------------------------- MODULE BacktestReport ----------------------------
(***************************************************************************)
(* backtest/metrics.py: what the report says of a replay.                  *)
(***************************************************************************)
EXTENDS WalkForward

EquityOf(c) == [k \in 1 .. Len(c) |-> c[k].equity]

\* A drawdown is a fraction: the drop below a peak and that peak; none below a peak
\* that is not positive.
NoDrawdown == <<0, 1>>
Drawdown(peak, v) == IF peak > 0 THEN <<peak - v, peak>> ELSE NoDrawdown
Deeper(d, e) == d[1] * e[2] > e[1] * d[2]

\* Wrong: a new peak does not end the drawdown.
DrawdownStepNoReset(s, v) ==
    IF v >= s.peak THEN [s EXCEPT !.peak = v]
    ELSE [peak    |-> s.peak,
          worst   |-> IF Deeper(Drawdown(s.peak, v), s.worst) THEN Drawdown(s.peak, v) ELSE s.worst,
          len     |-> s.len + 1,
          longest |-> IF s.len + 1 > s.longest THEN s.len + 1 ELSE s.longest]

\* One turn of max_drawdown's loop: the peak so far, the worst drop below it, the
\* length of the drawdown the value is in and of the longest one.
DrawdownStep(s, v) ==
    IF v >= s.peak THEN [s EXCEPT !.peak = v, !.len = 0]
    ELSE [peak    |-> s.peak,
          worst   |-> IF Deeper(Drawdown(s.peak, v), s.worst) THEN Drawdown(s.peak, v) ELSE s.worst,
          len     |-> s.len + 1,
          longest |-> IF s.len + 1 > s.longest THEN s.len + 1 ELSE s.longest]

MaxDrawdown(eq) ==
    LET s[k \in 0 .. Len(eq)] ==
            IF k = 0 THEN [peak |-> eq[1], worst |-> NoDrawdown, len |-> 0, longest |-> 0]
                     ELSE DrawdownStep(s[k - 1], eq[k])
    IN  s[Len(eq)]

\* compute_metrics: the final equity and the profit of all trades.
FinalEquity == IF curve = << >> THEN InitialBalance ELSE curve[Len(curve)].equity
TotalPnl == SumOver([k \in DOMAIN book.trades |-> book.trades[k].pnl], 1, Len(book.trades))
-----------------------------------------------------------------------------
\* The return in the report (compute_metrics takes it from the curve) is the sum
\* of the trades (from which it takes expectancy and profit factor), through
\* reversals and the close at the end.
BooksBalance ==
    /\ book.realized = InitialBalance + TotalPnl
    /\ over => FinalEquity = book.realized

\* max_drawdown's single pass against its definition: no drop below an earlier
\* positive value is deeper than the reported one, which did happen unless there
\* was none, and the reported length is that of the longest run of points below an
\* earlier one.  A fall into debt is measured from the highest value only, as it is
\* a larger part of any other.
DrawdownIsWorst ==
    over =>
        LET eq == EquityOf(curve)
            report == MaxDrawdown(eq)
            Pairs == {p \in (1 .. Len(eq)) \X (1 .. Len(eq)) : p[1] <= p[2]}
            Falls == {p \in Pairs :
                /\ eq[p[1]] > 0
                /\ eq[p[2]] >= 0 \/ \A n \in 1 .. p[2] : eq[n] <= eq[p[1]]}
            under(k) == \E j \in 1 .. k : eq[j] > eq[k]
            Runs == {p \in Pairs : \A k \in p[1] .. p[2] : under(k)}
        IN  /\ \/ report.worst = NoDrawdown
               \/ \E p \in Falls : report.worst = Drawdown(eq[p[1]], eq[p[2]])
            /\ \A p \in Falls : ~Deeper(Drawdown(eq[p[1]], eq[p[2]]), report.worst)
            /\ \A p \in Runs : p[2] - p[1] + 1 <= report.longest
            /\ report.longest = 0 \/ \E p \in Runs : p[2] - p[1] + 1 = report.longest
===============================================================================
