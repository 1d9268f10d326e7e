----------------------------- MODULE PaperPersistence -----------------------------
(***************************************************************************)
(* The paper portfolio's copy in Redis (agents/execution/paper_broker.py): *)
(* cash and positions are two keys, written one after the other by the     *)
(* task that changed the portfolio and read back when the broker connects. *)
(*                                                                         *)
(* A portfolio is represented by the number of the fill that made it, 0    *)
(* for the initial one; its two halves have a number each, so that a       *)
(* portfolio put together from two of them can be told from a real one.    *)
(* Redis serves the requests in the order they were sent.                  *)
(*                                                                         *)
(* An agent stops in one of two ways.  The override listener calls stop()  *)
(* beside the assessment loop and the monitor, which go on: an order that  *)
(* is in its latency fills, the monitor ends its scan and makes one more.  *)
(* The main task calls stop() after SIGTERM or at the end of the loop, and *)
(* nothing runs beside it.                                                 *)
(***************************************************************************)
EXTENDS Integers, SequencesExt

CONSTANTS
    MaxFills,
    MaxRestarts,
    Faults  \* which of "crash", "read" (kv_get) and "write" (kv_set) may happen

ASSUME PersistenceAssumption ==
    /\ MaxFills \in Nat
    /\ MaxRestarts \in Nat
    /\ Faults \subseteq {"crash", "read", "write"}

VARIABLES
    memory,     \* the fills behind _cash_balance and _positions
    saved,      \* the same of the two keys, Absent before the first save
    task,       \* how far each task's _save_portfolio_state is
    wire,       \* the requests that are on their way to Redis
    fills,      \* fills so far, in all lifetimes
    published,  \* of the fills made before a stop, the latest published one
    mode,       \* the agent's life, see Modes
    restarts,
    refused     \* ghost: Redis has refused a read or a write

persistenceVars == <<memory, saved, task, wire, fills, published, mode, restarts, refused>>

Tasks == {"loop", "monitor", "listener"}  \* assessments, stop-loss, overrides
Halves == {"cash", "positions"}
Absent == -1
Whole(n) == [h \in Halves |-> n]

\* "stopping": the listener's stop() saves; "stopped": it has disconnected the bus,
\* the loop and the monitor may be at work; "ending": the main task's stop() saves.
Modes == {"down", "starting", "up", "stopping", "stopped", "ending"}

\* What a task does: nothing, place_order's latency (the loop only), or a save, in
\* which it awaits a half's write or the write has returned.
Phases == {"rest", "latency", "cash", "cash_done", "positions", "done"}
Resting == [phase |-> "rest", fill |-> 0]
AllRest == [t \in Tasks |-> Resting]

PersistenceInit ==
    /\ memory = Whole(0)
    /\ saved = Whole(Absent)
    /\ task = AllRest
    /\ wire = <<>>
    /\ fills = 0
    /\ published = 0
    /\ mode = "down"
    /\ restarts = 0
    /\ refused = FALSE

--------------------------------------------------------------------------------
(* _save_portfolio_state *)

\* The value is taken when the request is sent.
Send(t, half, value, fill) ==
    /\ wire' = Append(wire, [task |-> t, half |-> half, value |-> value])
    /\ task' = [task EXCEPT ![t] = [phase |-> half, fill |-> fill]]

\* Redis serves the oldest request and the reply arrives.
Serve ==
    /\ wire # <<>>
    /\ LET r == Head(wire) IN
          /\ saved' = [saved EXCEPT ![r.half] = r.value]
          /\ task' = [task EXCEPT ![r.task].phase = IF r.half = "cash" THEN "cash_done" ELSE "done"]
    /\ wire' = Tail(wire)
    /\ UNCHANGED <<memory, fills, published, mode, restarts, refused>>

\* Wrong: both values are taken when the save begins.
SavePositionsOfFill(t) ==
    /\ task[t].phase = "cash_done"
    /\ Send(t, "positions", task[t].fill, task[t].fill)
    /\ UNCHANGED <<memory, saved, fills, published, mode, restarts, refused>>

\* Cash is written: now the positions, as they are by now.
SavePositions(t) ==
    /\ task[t].phase = "cash_done"
    /\ Send(t, "positions", memory.positions, task[t].fill)
    /\ UNCHANGED <<memory, saved, fills, published, mode, restarts, refused>>

\* kv_set raises: the save ends with a warning, and its caller goes on.  In a bus
\* that was disconnected the request is cut off without a refusal by Redis.
WriteFails(t) ==
    /\ "write" \in Faults \/ mode = "stopped"
    /\ \E k \in DOMAIN wire : wire[k].task = t /\ wire' = RemoveAt(wire, k)
    /\ task' = [task EXCEPT ![t].phase = "done"]
    /\ refused' = (refused \/ mode # "stopped")
    /\ UNCHANGED <<memory, saved, fills, published, mode, restarts>>

--------------------------------------------------------------------------------
(* Fills *)

AtWork == mode \in {"up", "stopping", "stopped"}

\* The loop takes an approved assessment; after a stop it takes none.
BeginOrder ==
    /\ mode = "up" /\ task["loop"].phase = "rest"
    /\ task' = [task EXCEPT !["loop"].phase = "latency"]
    /\ UNCHANGED <<memory, saved, wire, fills, published, mode, restarts, refused>>

OrderRefused ==
    /\ AtWork /\ task["loop"].phase = "latency"
    /\ task' = [task EXCEPT !["loop"] = Resting]
    /\ UNCHANGED <<memory, saved, wire, fills, published, mode, restarts, refused>>

\* What a save begins with.  A bus that is disconnected makes it a no-op.
BeginSave(t, value, fill) ==
    IF mode = "stopped"
    THEN task' = [task EXCEPT ![t] = [phase |-> "done", fill |-> fill]] /\ wire' = wire
    ELSE Send(t, "cash", value, fill)

\* place_order or close_position change cash and positions and begin to save them.
\* A fill made after the stop is not counted as one that has to survive.
Fill(t) ==
    /\ AtWork
    /\ \/ t = "loop" /\ task[t].phase = "latency"
       \/ t = "monitor" /\ task[t].phase = "rest"
    /\ fills < MaxFills
    /\ fills' = fills + 1
    /\ memory' = Whole(fills + 1)
    /\ BeginSave(t, fills + 1, IF mode = "up" THEN fills + 1 ELSE 0)
    /\ UNCHANGED <<saved, published, mode, restarts, refused>>

Latest(t) == IF task[t].fill > published THEN task[t].fill ELSE published

\* The save is over: _record_fill publishes the result, or raises.  publish() asks for
\* a connection pool only, which it still has after the bus was disconnected.
PublishFill(t) ==
    /\ AtWork /\ t # "listener" /\ task[t].phase = "done"
    /\ published' \in {published, Latest(t)}
    /\ task' = [task EXCEPT ![t] = Resting]
    /\ UNCHANGED <<memory, saved, wire, fills, mode, restarts, refused>>

--------------------------------------------------------------------------------
(* Starting and stopping *)

\* Wrong: an absent key is not told from a value.
ConnectUnchecked ==
    /\ mode = "down"
    /\ mode' = "starting"
    /\ memory' = saved
    /\ wire' = <<[task |-> "loop", half |-> "cash", value |-> memory'.cash]>>
    /\ task' = [AllRest EXCEPT !["loop"].phase = "cash"]
    /\ UNCHANGED <<saved, fills, published, restarts, refused>>

\* connect(): what can be read replaces the initial portfolio, and the outcome is
\* written at once.  An exception leaves the rest of it as it was initialised.
Connect ==
    /\ mode = "down"
    /\ mode' = "starting"
    /\ \/ /\ memory' = IF saved.cash = Absent THEN Whole(0)
                       ELSE [saved EXCEPT !.positions = IF @ = Absent THEN 0 ELSE @]
          /\ UNCHANGED refused
       \/ /\ "read" \in Faults
          /\ refused' = TRUE
          /\ \/ memory' = Whole(0)
             \/ saved.cash # Absent /\ memory' = [cash |-> saved.cash, positions |-> 0]
    /\ wire' = <<[task |-> "loop", half |-> "cash", value |-> memory'.cash]>>
    /\ task' = [AllRest EXCEPT !["loop"].phase = "cash"]
    /\ UNCHANGED <<saved, fills, published, restarts>>

Connected ==
    /\ mode = "starting" /\ task["loop"].phase = "done"
    /\ mode' = "up"
    /\ task' = AllRest
    /\ UNCHANGED <<memory, saved, wire, fills, published, restarts, refused>>

\* Wrong: the bus is disconnected before the broker saves.
StopDisconnectsFirst ==
    /\ mode = "up"
    /\ mode' = "stopped"
    /\ UNCHANGED <<memory, saved, task, wire, fills, published, restarts, refused>>

\* An override: the listener's stop() has the broker save, whatever the loop and the
\* monitor are doing.
Stop ==
    /\ mode = "up"
    /\ mode' = "stopping"
    /\ Send("listener", "cash", memory.cash, 0)
    /\ UNCHANGED <<memory, saved, fills, published, restarts, refused>>

\* The broker has saved; the bus is disconnected and the listener ends.
Disconnect ==
    /\ mode = "stopping" /\ task["listener"].phase = "done"
    /\ mode' = "stopped"
    /\ task' = [task EXCEPT !["listener"] = Resting]
    /\ UNCHANGED <<memory, saved, wire, fills, published, restarts, refused>>

\* The main task leaves its loop, or is cancelled wherever it is.  It cancels the
\* monitor and the listener and has the broker save.
Leave ==
    /\ mode \in {"up", "stopping"}
    /\ mode' = "ending"
    /\ wire' = <<[task |-> "loop", half |-> "cash", value |-> memory.cash]>>
    /\ task' = [AllRest EXCEPT !["loop"].phase = "cash"]
    /\ UNCHANGED <<memory, saved, fills, published, restarts, refused>>

Down ==
    /\ restarts < MaxRestarts
    /\ restarts' = restarts + 1
    /\ mode' = "down"
    /\ wire' = <<>>
    /\ task' = AllRest
    /\ UNCHANGED <<memory, saved, fills, published, refused>>

\* Its save is over and the process ends; after the listener's stop() it is a no-op.
Ended ==
    /\ \/ mode = "stopped"
       \/ mode = "ending" /\ task["loop"].phase = "done"
    /\ Down

\* The process dies; requests on the wire are lost with it.
Crash == "crash" \in Faults /\ mode # "down" /\ Down

PersistenceNext ==
    \/ Serve
    \/ \E t \in Tasks : SavePositions(t) \/ WriteFails(t) \/ Fill(t) \/ PublishFill(t)
    \/ BeginOrder \/ OrderRefused
    \/ Connect \/ Connected
    \/ Stop \/ Disconnect \/ Leave \/ Ended
    \/ Crash

PersistenceSpec == PersistenceInit /\ [][PersistenceNext]_persistenceVars

--------------------------------------------------------------------------------
Numbers == Absent..MaxFills

PersistenceTypeOK ==
    /\ memory \in [Halves -> 0..MaxFills]
    /\ saved \in [Halves -> Numbers]
    /\ task \in [Tasks -> [phase : Phases, fill : 0..MaxFills]]
    /\ wire \in Seq([task : Tasks, half : Halves, value : 0..MaxFills])
    /\ fills \in 0..MaxFills
    /\ published \in 0..MaxFills
    /\ mode \in Modes
    /\ restarts \in 0..MaxRestarts
    /\ refused \in BOOLEAN

\* As long as Redis refuses nothing, what the rest of the system has been told of is
\* saved, whichever task saves what at the same time and wherever a stop falls
\* (_save_portfolio_state is awaited before place_order and _close return): no restart
\* forgets a published fill that was made before the agent was told to stop.
PublishedIsSaved == \A h \in Halves : refused \/ published = 0 \/ saved[h] >= published

\* With nothing on its way Redis and memory hold the same portfolio: of two tasks
\* that save at the same time the later one saves what both have done.
Quiet == mode = "up" /\ \A t \in Tasks : task[t].phase \in {"rest", "latency"}
QuietIsSaved == Quiet => refused \/ saved = memory
================================================================================
