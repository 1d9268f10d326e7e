-------------------------------- MODULE SignalBus --------------------------------
(***************************************************************************)
(* What the market data, technical analysis and Decision agents share: the *)
(* time, and a Redis channel each for candles, technical signals and       *)
(* proposals of one symbol in its primary timeframe.                       *)
(***************************************************************************)
EXTENDS SignalFusion, Sequences, FiniteSets, Functions

CONSTANTS
    Bar,      \* the primary timeframe, in ticks
    Start,    \* the time at which the agents start
    MaxTime,  \* bounds a behaviour
    Faults,   \* which of the faults named below may happen
    MaxFaults

ASSUME BusAssumption ==
    /\ Bar \in Nat \ {0}
    /\ Start \in Nat
    /\ MaxTime \in Nat
    /\ Faults \subseteq {"publish", "persist", "fetch", "late", "straddle", "read", "restart",
                   "halt"}
    /\ MaxFaults \in Nat

VARIABLES
    now,        \* the clock all agents share
    listening,  \* the technical analysis agent is subscribed to the candles
    candles,    \* market.ohlcv: sent and not yet handled
    signals,    \* signal.technical
    proposals,  \* decision.proposal
    faults      \* the number of faults so far

channelVars == <<candles, signals, proposals>>
busVars == <<now, listening, channelVars, faults>>

\* Candle number b of the exchange covers the time from Opens(b) to Closes(b).
Opens(b) == b * Bar
Closes(b) == (b + 1) * Bar
Forming == now \div Bar

\* whole: its values are the final ones; polled: not from the warm-up history.
Candles == [bar : Nat, whole : BOOLEAN, polled : BOOLEAN]

\* Where the price is to the EMA50, if the generator says.
Trends == {"above", "below", "none"}

\* data is the newest candle the signal was computed from, polled tells of the
\* candle that triggered it.
Signals == [direction : Directions,
            trend : Trends,
            born : Nat, data : Nat, polled : BOOLEAN]

News == [direction : Directions,
         sure : BOOLEAN, born : Nat]

Proposals == [side : {"buy", "sell"}, technical : Signals \union {None},
              sentiment : News \union {None}]

\* One of the faults happens.
Fault(f) ==
    /\ f \in Faults
    /\ faults < MaxFaults
    /\ faults' = faults + 1

\* publish: the message is queued if anyone listens, or the call fails.
Publish(channel, newChannel, message, heard) ==
    \/ newChannel = (IF heard THEN Append(channel, message) ELSE channel) /\ UNCHANGED faults
    \/ newChannel = channel /\ Fault("publish")
================================================================================
