-------------------------------- MODULE TradeBus --------------------------------
(***************************************************************************)
(* What Risk and Execution share: the two Redis pub/sub channels between   *)
(* them, the persisted halt latch and the RiskOverride broadcast           *)
(* (core/messaging.py, core/models/trade.py).                              *)
(*                                                                         *)
(* A channel has one publisher connection and one subscriber per receiving *)
(* agent, so it is FIFO.  Pub/sub is at-most-once: a message published     *)
(* while the subscriber is not connected is gone.  MaxLost bounds how      *)
(* often that happens in a behaviour and MaxRedelivered how often a        *)
(* message is delivered twice: Risk promises to apply a result once        *)
(* (agents/risk/agent.py:30) and a broker to fill a proposal once          *)
(* (agents/execution/broker_interface.py), whoever repeats the message.    *)
(***************************************************************************)
EXTENDS Sequences, DrawdownMonitor

CONSTANTS
    None,           \* no message
    MaxAgentCrashes, \* risk.max_agent_crashes: consecutive errors an agent survives
    MaxLost,        \* bound on lost messages
    MaxRedelivered  \* bound on repeated messages

ASSUME BusAssumption ==
    /\ MaxAgentCrashes \in Nat \ {0}
    /\ MaxLost \in Nat
    /\ MaxRedelivered \in Nat
    /\ None \notin [id : Nat, symbol : Symbols, side : Sides, size : Int, approved : BOOLEAN]
    /\ None \notin [id : Nat, pid : Nat, symbol : Symbols, side : Sides,
                    filled : BOOLEAN, cost : Int, pnl : Int]

VARIABLES
    assessments,  \* the risk.assessment channel
    results,      \* the execution.result channel
    latch,        \* the Redis key system:trading_halted is set
    overridden,   \* a RiskOverride has been published
    lost,         \* messages lost so far
    redelivered   \* messages delivered twice so far

channels == <<assessments, results>>
control == <<latch, overridden>>
faults == <<lost, redelivered>>
bus == <<channels, control, faults>>

\* RiskAssessment: approved covers APPROVED and MODIFIED, which Execution
\* treats alike.  size is effective_size_usd.
Assessments ==
    [id : Nat, symbol : Symbols, side : Sides, size : Int, approved : BOOLEAN]

Assessment(id, s, side, size, approved) ==
    [id |-> id, symbol |-> s, side |-> side, size |-> size, approved |-> approved]

\* ExecutionResult: filled stands for a filled status with a positive
\* quantity, cost for total_cost_usd + fee_usd, pnl for realized_pnl_usd or 0.
Results ==
    [id : Nat, pid : Nat, symbol : Symbols, side : Sides, filled : BOOLEAN,
     cost : Int, pnl : Int]

Result(id, pid, s, side, filled, actual, pnl) ==
    [id |-> id, pid |-> pid, symbol |-> s, side |-> side, filled |-> filled,
     cost |-> actual, pnl |-> pnl]

BusInit ==
    /\ assessments = <<>>
    /\ results = <<>>
    /\ latch = FALSE
    /\ overridden = FALSE
    /\ lost = 0
    /\ redelivered = 0

BusTypeOK ==
    /\ assessments \in Seq(Assessments)
    /\ results \in Seq(Results)
    /\ latch \in BOOLEAN
    /\ overridden \in BOOLEAN
    /\ lost \in 0..MaxLost
    /\ redelivered \in 0..MaxRedelivered

\* _handle_error: one more consecutive error.  Counting stops at the limit,
\* where the agent is quarantined for good.
ErrorAfter(errors) == IF errors < MaxAgentCrashes THEN errors + 1 ELSE errors

Messages(q) == {q[i] : i \in DOMAIN q}

Lose == lost < MaxLost /\ lost' = lost + 1

\* The subscriber's connection is down while the oldest message is sent.
LoseAssessment ==
    /\ assessments # <<>>
    /\ Lose
    /\ assessments' = Tail(assessments)
    /\ UNCHANGED <<results, control, redelivered>>

LoseResult ==
    /\ results # <<>>
    /\ Lose
    /\ results' = Tail(results)
    /\ UNCHANGED <<assessments, control, redelivered>>

\* The oldest message of a channel reaches its subscriber twice.
Twice(q) == <<Head(q)>> \o q

Redeliver ==
    /\ redelivered < MaxRedelivered
    /\ redelivered' = redelivered + 1
    /\ \/ assessments # <<>> /\ assessments' = Twice(assessments) /\ results' = results
       \/ results # <<>> /\ results' = Twice(results) /\ assessments' = assessments
    /\ UNCHANGED <<control, lost>>
================================================================================
