----------------------------- MODULE MCAgentLifecycle -----------------------------
(***************************************************************************)
(* Small instances of AgentLifecycle.                                      *)
(***************************************************************************)
EXTENDS AgentLifecycle, TLC

\* Agents are interchangeable, and so are halters (no liveness property uses it).
LifecycleSymmetry == Permutations(Agents) \union Permutations(Halters)
================================================================================
