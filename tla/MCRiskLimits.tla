------------------------------ MODULE MCRiskLimits ------------------------------
(***************************************************************************)
(* Small instances of RiskLimits.                                          *)
(***************************************************************************)
EXTENDS RiskLimits, TLC

SymbolSymmetry == Permutations(Symbols)

MCRequests == {4}
MCStops == {20}
MCCosts == {3}
MCProfits == {-2, 1}
MCPrices == {0, 1, 2, 3, 10}
================================================================================
