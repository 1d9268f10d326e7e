---------------------------- MODULE MCTradePipeline ----------------------------
(***************************************************************************)
(* Small instances of TradePipeline.  Symbols are interchangeable.         *)
(***************************************************************************)
EXTENDS TradePipeline, TLC

SymbolSymmetry == Permutations(Symbols)

MCRequests == {4}
MCStops == {20}
MCPnls == {-2, 1}
================================================================================
