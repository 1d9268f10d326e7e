-------------------------------- MODULE MT5Bridge --------------------------------
(***************************************************************************)
(* The HTTP bridge between the Execution agent and the terminal            *)
(* (agents/execution/mt5_bridge.py).  Two tasks of the agent call it, the  *)
(* assessment loop and the stop-loss monitor; each puts a command on one   *)
(* queue and waits on a future with a timeout.  The EA polls: a response   *)
(* it does not get and a result that does not arrive are lost.             *)
(***************************************************************************)
EXTENDS MT5Terminal

VARIABLES
    issued,   \* the number of commands so far: command ids are 1..issued
    queue,    \* _command_queue
    waiting,  \* the id each caller awaits, 0 for none
    futures,  \* the ids in _result_futures
    told,     \* what the caller of each command got: a status or "timeout"
    cached,   \* _cached_state: the positions of the last heartbeat
    round     \* the positions the monitor has still to look at

bridgeVars == <<issued, queue, waiting, futures, told, cached, round>>
vars == <<terminalVars, bridgeVars>>

Callers == {"loop", "monitor"}

Init ==
    /\ TerminalInit
    /\ issued = 0
    /\ queue = <<>>
    /\ waiting = [c \in Callers |-> 0]
    /\ futures = {}
    /\ told = [id \in Ids |-> "nothing"]
    /\ cached = <<>>
    /\ round = <<>>

--------------------------------------------------------------------------------
(* The callers *)

\* Wrong: the command goes out without its id.
EnqueueNameless(caller, action, symbol, side) ==
    /\ waiting[caller] = 0
    /\ issued < MaxCommands
    /\ issued' = issued + 1
    /\ futures' = futures \union {issued + 1}
    /\ queue' = Append(queue, [id |-> 0, action |-> action, symbol |-> symbol, side |-> side])
    /\ waiting' = [waiting EXCEPT ![caller] = issued + 1]
    /\ UNCHANGED <<terminalVars, told, cached>>

\* _enqueue_and_wait up to its await.
Enqueue(caller, action, symbol, side) ==
    /\ waiting[caller] = 0
    /\ issued < MaxCommands
    /\ issued' = issued + 1
    /\ futures' = futures \union {issued + 1}
    /\ queue' = Append(queue, [id |-> issued + 1, action |-> action, symbol |-> symbol, side |-> side])
    /\ waiting' = [waiting EXCEPT ![caller] = issued + 1]
    /\ UNCHANGED <<terminalVars, told, cached>>

\* The loop executes an approved assessment.
PlaceOrder(symbol, side) == Enqueue("loop", "PLACE_ORDER", symbol, side) /\ UNCHANGED round

\* get_positions: those of the last heartbeat, in its order.
CachedPositions == cached

\* _position_monitor_loop begins a round.
MonitorScan ==
    /\ waiting["monitor"] = 0
    /\ round' = CachedPositions
    /\ UNCHANGED <<terminalVars, issued, queue, waiting, futures, told, cached>>

\* close_position, for the next position of the round that is beyond a threshold.
ClosePosition(i) ==
    /\ i \in DOMAIN round
    /\ Enqueue("monitor", "CLOSE_POSITION", round[i].symbol, round[i].side)
    /\ round' = SubSeq(round, i + 1, Len(round))

\* What the caller of command id learns, and that it waits no more.
Told(caller, what) ==
    /\ told' = [told EXCEPT ![waiting[caller]] = what]
    /\ waiting' = [waiting EXCEPT ![caller] = 0]

\* No result within request_timeout_ms: the future goes, the command stays.  The
\* loop publishes a failure, the monitor goes on with its round.
Timeout(caller) ==
    /\ waiting[caller] # 0
    /\ Told(caller, "timeout")
    /\ futures' = futures \ {waiting[caller]}
    /\ UNCHANGED <<terminalVars, issued, queue, cached, round>>

\* The monitor's own 15 s are over first: the cancelled future stays in the table and
\* the rest of the round is skipped.
GiveUp ==
    /\ waiting["monitor"] # 0
    /\ Told("monitor", "timeout")
    /\ round' = <<>>
    /\ UNCHANGED <<terminalVars, issued, queue, futures, cached>>

--------------------------------------------------------------------------------
(* The EA's requests *)

\* OnTimer begins with POST /mt5/state.
HandleState ==
    /\ ea.phase = "idle"
    /\ cached' = terminal
    /\ UNCHANGED <<terminalVars, issued, queue, waiting, futures, told, round>>

\* Wrong: the command leaves the queue only when its result comes.
HandleCommandPeeks ==
    /\ ea.phase = "idle" /\ queue # <<>>
    /\ ea' = [phase |-> "command", command |-> Head(queue)]
    /\ UNCHANGED <<queue, terminal, deals, issued, waiting, futures, told, cached, round>>

HandleCommand ==
    /\ ea.phase = "idle" /\ queue # <<>>
    /\ queue' = Tail(queue)
    /\ ea' = [phase |-> "command", command |-> Head(queue)]
    /\ UNCHANGED <<terminal, deals, issued, waiting, futures, told, cached, round>>

\* The response does not reach the EA within its HTTP timeout.
CommandLost ==
    /\ ea.phase = "idle" /\ queue # <<>>
    /\ queue' = Tail(queue)
    /\ UNCHANGED <<terminalVars, issued, waiting, futures, told, cached, round>>

\* Wrong: the result is taken for the oldest command that waits.
HandleResultOldest ==
    /\ ea.phase = "result"
    /\ ea' = Idle
    /\ futures' = futures \ {ea.id}
    /\ IF \E c \in Callers : waiting[c] # 0
       THEN LET oldest == CHOOSE c \in Callers : waiting[c] # 0 /\
                             \A d \in Callers : waiting[d] # 0 => waiting[c] <= waiting[d]
            IN  Told(oldest, ea.status)
       ELSE UNCHANGED <<told, waiting>>
    /\ UNCHANGED <<terminal, deals, issued, queue, cached, round>>

\* POST /mt5/result resolves the future of its command; an unknown or cancelled
\* one is logged and forgotten.
HandleResult ==
    /\ ea.phase = "result"
    /\ ea' = Idle
    /\ futures' = futures \ {ea.id}
    /\ \/ \E caller \in Callers : waiting[caller] = ea.id /\ Told(caller, ea.status)
       \/ (\A caller \in Callers : waiting[caller] # ea.id) /\ UNCHANGED <<told, waiting>>
    /\ UNCHANGED <<terminal, deals, issued, queue, cached, round>>

\* PostJSON fails: the EA prints it and goes on.
ResultLost ==
    /\ ea.phase = "result"
    /\ ea' = Idle
    /\ UNCHANGED <<terminal, deals, bridgeVars>>

Next ==
    \/ \E s \in Symbols, side \in Sides : PlaceOrder(s, side)
    \/ MonitorScan
    \/ \E i \in DOMAIN round : ClosePosition(i)
    \/ \E caller \in Callers : Timeout(caller)
    \/ GiveUp
    \/ HandleState \/ HandleCommand \/ CommandLost \/ HandleResult \/ ResultLost
    \/ TerminalStep /\ UNCHANGED bridgeVars

Spec == Init /\ [][Next]_vars

--------------------------------------------------------------------------------
TypeOK ==
    /\ terminal \in Seq(Positions)
    /\ deals \in Seq([id : Ids, outcome : {"done", "partial", "rejected"}])
    /\ ea \in {Idle} \union [phase : {"command"}, command : Commands]
                    \union [phase : {"result"}, id : Ids, status : {"ok", "error"}]
    /\ issued \in 0..MaxCommands
    /\ queue \in Seq(Commands)
    /\ waiting \in [Callers -> 0..MaxCommands]
    /\ futures \subseteq Ids
    /\ told \in [Ids -> {"nothing", "ok", "error", "timeout"}]
    /\ cached \in Seq(Positions)
    /\ round \in Seq(Positions)

\* Whatever is lost and however late it comes, no command is executed twice and
\* none before one that was issued earlier: the queue hands each out once
\* (_handle_command), and the EA asks for the next one when it is done.
ExecutedInOrder ==
    \A i, j \in DOMAIN deals : i < j => deals[i].id < deals[j].id

\* A caller is told "ok" only of a command the terminal did execute: results are
\* matched by command id, and a late one is never taken for another command's
\* (_handle_result).
FillsAreReal ==
    \A id \in Ids : told[id] = "ok" => \E i \in DOMAIN deals : deals[i] = [id |-> id, outcome |-> "done"]
================================================================================
