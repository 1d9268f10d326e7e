--------------------------- MODULE MCPipelineHistory ---------------------------
(***************************************************************************)
(* Small instances of PipelineHistory.  Symbols are interchangeable.       *)
(***************************************************************************)
EXTENDS PipelineHistory, TLC

SymbolSymmetry == Permutations(Symbols)

MCRequests == {4}
MCStops == {20}
MCPnls == {1}
================================================================================
