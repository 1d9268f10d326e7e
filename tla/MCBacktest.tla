------------------------------ MODULE MCBacktest ------------------------------
(* Small histories for the backtest: sequences of a few bars that           *)
(* reach no level, the upper one, both, or open beyond the lower one; and a *)
(* market that has only risen, for the indicators with their defaults.      *)
EXTENDS BacktestReport

MCShapes ==
    {[open |-> 1000, high |-> 1100, low |-> 900,  close |-> 1000, volume |-> 5],
     [open |-> 1000, high |-> 1400, low |-> 600,  close |-> 1350, volume |-> 9],
     [open |-> 500,  high |-> 550,  low |-> 450,  close |-> 500,  volume |-> 5]}

MCHistories == {h \in [Bars -> MCShapes] : h[0] = h[1]}

MCBullHistories ==
    {[b \in Bars |-> [open |-> 100 + b * step, high |-> 100 + (b + 1) * step,
                      low |-> 100 + b * step, close |-> 100 + (b + 1) * step,
                      volume |-> 10]] : step \in 1 .. 3}

\* The histories of the runs meet the condition under which brackets are fair.
ASSUME MCLevelsApart == LevelsApart
===============================================================================
