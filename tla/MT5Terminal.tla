------------------------------- MODULE MT5Terminal -------------------------------
(***************************************************************************)
(* The MetaTrader terminal and the Expert Advisor that trades in it        *)
(* (mt5_ea/TradingSystemEA.mq5).  Its timer handler is a single thread:    *)
(* post the account's state, get one command, execute it, post the result. *)
(* The account is a hedging one, as the tickets the EA works with presume: *)
(* orders of both sides on one symbol are separate positions.              *)
(***************************************************************************)
EXTENDS Integers, Sequences, FiniteSets, SequencesExt

CONSTANTS Symbols, MaxCommands

ASSUME TerminalAssumption == MaxCommands \in Nat

Sides == {"buy", "sell"}
Ids == 1..MaxCommands
Commands == [id : Ids, action : {"PLACE_ORDER", "CLOSE_POSITION"}, symbol : Symbols, side : Sides]
Positions == [id : Ids, symbol : Symbols, side : Sides]

VARIABLES
    terminal,  \* the open positions, in the order they were opened
    deals,     \* ghost: the commands executed so far, with what OrderSend did
    ea         \* the EA's handler: idle, with a command, or with its result

terminalVars == <<terminal, deals, ea>>

Idle == [phase |-> "idle"]

TerminalInit ==
    /\ terminal = <<>>
    /\ deals = <<>>
    /\ ea = Idle

\* The command has been executed; its result says "ok" only if OrderSend returned
\* TRADE_RETCODE_DONE.
Executed(outcome) ==
    /\ deals' = Append(deals, [id |-> ea.command.id, outcome |-> outcome])
    /\ ea' = [phase |-> "result", id |-> ea.command.id,
              status |-> IF outcome = "done" THEN "ok" ELSE "error"]

\* A market order filled or killed at once.  A part may be filled: its return code
\* is TRADE_RETCODE_DONE_PARTIAL, which the EA reports as an error.
HandlePlaceOrder(outcome) ==
    /\ ea.phase = "command" /\ ea.command.action = "PLACE_ORDER"
    /\ outcome \in {"done", "partial", "rejected"}
    /\ terminal' = IF outcome = "rejected" THEN terminal
                   ELSE Append(terminal, [id |-> ea.command.id, symbol |-> ea.command.symbol,
                                          side |-> ea.command.side])
    /\ Executed(outcome)

Matching(s) == {i \in DOMAIN terminal : terminal[i].symbol = s}

\* The latest position of the symbol is closed, whichever the caller had in mind.
HandleClosePosition(outcome) ==
    /\ ea.phase = "command" /\ ea.command.action = "CLOSE_POSITION"
    /\ \/ /\ outcome = "done"
          /\ \E i \in Matching(ea.command.symbol) :
                /\ \A j \in Matching(ea.command.symbol) : j <= i
                /\ terminal' = RemoveAt(terminal, i)
       \/ /\ outcome = "partial" /\ Matching(ea.command.symbol) # {}
          /\ UNCHANGED terminal
       \/ outcome = "rejected" /\ UNCHANGED terminal
    /\ Executed(outcome)

\* The terminal closes a position at its stop loss or take profit; nothing is sent.
NativeStop(i) ==
    /\ i \in DOMAIN terminal
    /\ terminal' = RemoveAt(terminal, i)
    /\ UNCHANGED <<deals, ea>>

TerminalStep ==
    \/ \E outcome \in {"done", "partial", "rejected"} :
          HandlePlaceOrder(outcome) \/ HandleClosePosition(outcome)
    \/ \E i \in DOMAIN terminal : NativeStop(i)
================================================================================
