----------------------------- MODULE Brokers_proofs -----------------------------
(***************************************************************************)
(* No command of the MT5 bridge is executed twice or out of order, and no  *)
(* fill is reported that the terminal did not make, for any number of      *)
(* symbols and commands, whatever is lost or late.  The paper broker's     *)
(* portfolio is saved before a fill of it is published, for any number of  *)
(* fills and restarts.                                                     *)
(***************************************************************************)
EXTENDS MT5Bridge, PaperPersistence, SequenceTheorems, TLAPS

Outcomes == {"done", "partial", "rejected"}
Deals == [id : Ids, outcome : Outcomes]

\* RemoveAt takes one element out.
LEMMA RemoveAtType ==
    ASSUME NEW S, NEW s \in Seq(S), NEW i \in DOMAIN s
    PROVE  RemoveAt(s, i) \in Seq(S)
<1>1. SubSeq(s, 1, i - 1) \in Seq(S)
  BY SubSeqProperties
<1>2. SubSeq(s, i + 1, Len(s)) \in Seq(S)
  BY SubSeqProperties
<1> QED BY <1>1, <1>2, ConcatProperties DEF RemoveAt

LEMMA TypeInit == ASSUME TerminalAssumption, Init PROVE TypeOK
BY DEF TerminalAssumption, Init, TerminalInit, TypeOK, Idle, Ids, Callers

LEMMA ExecutedType ==
    ASSUME TerminalAssumption, TypeOK, ea.phase = "command", NEW outcome \in Outcomes,
           Executed(outcome)
    PROVE  /\ deals' \in Seq(Deals)
           /\ ea' \in [phase : {"result"}, id : Ids, status : {"ok", "error"}]
           /\ ea.command \in Commands
<1>1. ea \in [phase : {"command"}, command : Commands]
  BY DEF TypeOK, Idle
<1>2. [id |-> ea.command.id, outcome |-> outcome] \in Deals /\ ea.command.id \in Ids
  BY <1>1 DEF Commands, Deals
<1>3. deals \in Seq(Deals)
  BY DEF TypeOK, Deals, Outcomes
<1>4. deals' \in Seq(Deals)
  BY <1>2, <1>3 DEF Executed
<1>5. ea' \in [phase : {"result"}, id : Ids, status : {"ok", "error"}]
  BY <1>2 DEF Executed
<1> QED BY <1>1, <1>4, <1>5

Statuses == {"nothing", "ok", "error", "timeout"}

LEMMA ToldType ==
    ASSUME TerminalAssumption, TypeOK, NEW c \in Callers, NEW what \in Statuses, Told(c, what)
    PROVE  told' \in [Ids -> Statuses] /\ waiting' \in [Callers -> 0..MaxCommands]
<1>1. told \in [Ids -> Statuses] /\ waiting \in [Callers -> 0..MaxCommands]
  BY DEF TypeOK, Statuses
<1>2. 0 \in 0..MaxCommands
  BY DEF TerminalAssumption
<1> QED BY <1>1, <1>2 DEF Told

LEMMA TypeStep == ASSUME TerminalAssumption, TypeOK, [Next]_vars PROVE TypeOK'
<1>1. CASE UNCHANGED vars
  BY <1>1 DEF vars, terminalVars, bridgeVars, TypeOK
<1>2. ASSUME NEW c \in Callers, NEW a \in {"PLACE_ORDER", "CLOSE_POSITION"},
             NEW s \in Symbols, NEW side \in Sides, Enqueue(c, a, s, side),
             round' \in Seq(Positions)
      PROVE  TypeOK'
  <2>1. [id |-> issued + 1, action |-> a, symbol |-> s, side |-> side] \in Commands
    BY <1>2 DEF Enqueue, Commands, Ids, TypeOK, TerminalAssumption
  <2>2. queue' \in Seq(Commands)
    BY <1>2, <2>1 DEF Enqueue, TypeOK
  <2>3. issued' \in 0..MaxCommands /\ issued' \in Ids
    BY <1>2 DEF Enqueue, Ids, TypeOK, TerminalAssumption
  <2> QED BY <1>2, <2>2, <2>3 DEF Enqueue, TypeOK, terminalVars
<1>3. CASE \E s \in Symbols, side \in Sides : PlaceOrder(s, side)
  <2>1. UNCHANGED round => round' \in Seq(Positions)
    BY DEF TypeOK
  <2> QED BY <1>2, <1>3, <2>1 DEF PlaceOrder, Callers
<1>4. ASSUME NEW i \in DOMAIN round, ClosePosition(i) PROVE TypeOK'
  <2>1. round[i] \in Positions
    BY DEF TypeOK
  <2>2. round[i].symbol \in Symbols /\ round[i].side \in Sides
    BY <2>1 DEF Positions
  <2>3. round' \in Seq(Positions)
    BY <1>4, SubSeqProperties DEF ClosePosition, TypeOK
  <2> QED BY <1>2, <1>4, <2>2, <2>3 DEF ClosePosition, Callers
<1>5. ASSUME NEW c \in Callers, Timeout(c) PROVE TypeOK'
  BY <1>5, ToldType DEF Timeout, TypeOK, terminalVars, Statuses
<1>6. CASE GiveUp
  BY <1>6, ToldType DEF GiveUp, TypeOK, terminalVars, Statuses, Callers
<1>7. CASE HandleState
  BY <1>7 DEF HandleState, TypeOK, terminalVars
<1>8. CASE HandleCommand
  <2>1. queue' \in Seq(Commands) /\ Head(queue) \in Commands
    BY <1>8, HeadTailProperties DEF HandleCommand, TypeOK
  <2>2. ea' \in [phase : {"command"}, command : Commands]
    BY <1>8, <2>1 DEF HandleCommand
  <2> QED BY <1>8, <2>1, <2>2 DEF HandleCommand, TypeOK
<1>9. CASE CommandLost
  <2>1. queue' \in Seq(Commands)
    BY <1>9, HeadTailProperties DEF CommandLost, TypeOK
  <2> QED BY <1>9, <2>1 DEF CommandLost, TypeOK, terminalVars
<1>10. CASE HandleResult
  <2>1. ea.status \in {"ok", "error"}
    BY <1>10 DEF HandleResult, TypeOK, Idle
  <2>3. told' \in [Ids -> {"nothing", "ok", "error", "timeout"}]
        /\ waiting' \in [Callers -> 0..MaxCommands]
    BY <1>10, <2>1, ToldType DEF HandleResult, TypeOK, Statuses
  <2> QED BY <1>10, <2>3 DEF HandleResult, TypeOK
<1>11. CASE ResultLost
  BY <1>11 DEF ResultLost, TypeOK, bridgeVars
<1>12. CASE TerminalStep /\ UNCHANGED bridgeVars
  <2>1. ASSUME NEW outcome \in Outcomes, HandlePlaceOrder(outcome) PROVE TypeOK'
    <3>1. /\ deals' \in Seq(Deals)
          /\ ea' \in [phase : {"result"}, id : Ids, status : {"ok", "error"}]
          /\ ea.command \in Commands
      BY <2>1, ExecutedType DEF HandlePlaceOrder
    <3>2. [id |-> ea.command.id, symbol |-> ea.command.symbol, side |-> ea.command.side] \in Positions
      BY <3>1 DEF Commands, Positions
    <3>3. terminal' \in Seq(Positions)
      BY <2>1, <3>2 DEF HandlePlaceOrder, TypeOK
    <3> QED BY <1>12, <3>1, <3>3 DEF TypeOK, bridgeVars, Deals, Outcomes
  <2>2. ASSUME NEW outcome \in Outcomes, HandleClosePosition(outcome) PROVE TypeOK'
    <3>1. /\ deals' \in Seq(Deals)
          /\ ea' \in [phase : {"result"}, id : Ids, status : {"ok", "error"}]
      BY <2>2, ExecutedType DEF HandleClosePosition
    <3>2. terminal' \in Seq(Positions)
      BY <2>2, RemoveAtType DEF HandleClosePosition, TypeOK, Matching
    <3> QED BY <1>12, <3>1, <3>2 DEF TypeOK, bridgeVars, Deals, Outcomes
  <2>3. ASSUME NEW i \in DOMAIN terminal, NativeStop(i) PROVE TypeOK'
    <3>1. terminal' \in Seq(Positions)
      BY <2>3, RemoveAtType DEF NativeStop, TypeOK
    <3> QED BY <1>12, <2>3, <3>1 DEF NativeStop, TypeOK, bridgeVars
  <2> QED BY <1>12, <2>1, <2>2, <2>3 DEF TerminalStep, Outcomes
<1>13. CASE MonitorScan
  BY <1>13 DEF MonitorScan, CachedPositions, TypeOK, terminalVars
<1> QED
  BY <1>1, <1>13, <1>3, <1>4, <1>5, <1>6, <1>7, <1>8, <1>9, <1>10, <1>11, <1>12 DEF Next

\* The variables of the bridge (mt5_bridge.py) and of the terminal keep their types.
THEOREM BridgeTypeCorrect == Spec => []TypeOK
<1>1. Init => TypeOK
  BY TerminalAssumption, TypeInit
<1>2. TypeOK /\ [Next]_vars => TypeOK'
  BY TerminalAssumption, TypeStep
<1> QED BY <1>1, <1>2, PTL DEF Spec

--------------------------------------------------------------------------------
(* Order *)

\* A command goes from the queue through the EA into the deals, and the three
\* hold ids in the order they were issued: what ExecutedInOrder lacks to be
\* inductive.
QueueInOrder == \A i, j \in DOMAIN queue : i < j => queue[i].id < queue[j].id
QueueIssued == \A i \in DOMAIN queue : queue[i].id <= issued
DealsIssued == \A i \in DOMAIN deals : deals[i].id <= issued
QueueAfterDeals == \A i \in DOMAIN deals, j \in DOMAIN queue : deals[i].id < queue[j].id
CommandBetween ==
    ea.phase = "command" =>
        /\ ea.command.id <= issued
        /\ \A i \in DOMAIN deals : deals[i].id < ea.command.id
        /\ \A j \in DOMAIN queue : ea.command.id < queue[j].id

OrderInv ==
    /\ ExecutedInOrder /\ QueueInOrder /\ QueueIssued
    /\ DealsIssued /\ QueueAfterDeals /\ CommandBetween

LEMMA OrderInit == ASSUME Init PROVE OrderInv
BY DEF Init, TerminalInit, Idle, OrderInv, ExecutedInOrder, QueueInOrder, QueueIssued,
       DealsIssued, QueueAfterDeals, CommandBetween

\* Neither the queue nor the terminal's side of the order is touched.
LEMMA OrderKept ==
    ASSUME OrderInv, UNCHANGED <<deals, queue, issued>>, ea' = ea \/ ea' = Idle
    PROVE  OrderInv'
BY DEF Idle, OrderInv, ExecutedInOrder, QueueInOrder, QueueIssued, DealsIssued,
       QueueAfterDeals, CommandBetween

LEMMA OrderEnqueue ==
    ASSUME TypeOK, OrderInv, TerminalAssumption, NEW c, NEW a, NEW s, NEW side,
           Enqueue(c, a, s, side)
    PROVE  OrderInv'
<1> DEFINE new == [id |-> issued + 1, action |-> a, symbol |-> s, side |-> side]
<1>1. /\ queue' = Append(queue, new) /\ issued' = issued + 1
      /\ deals' = deals /\ ea' = ea
  BY DEF Enqueue, terminalVars
<1>2. /\ issued \in Nat
      /\ \A i \in DOMAIN queue : queue[i].id \in Nat
      /\ \A i \in DOMAIN deals : deals[i].id \in Nat
      /\ ea.phase = "command" => ea.command.id \in Nat
  <2>1. issued \in Nat /\ \A i \in DOMAIN queue : queue[i] \in Commands
    BY DEF TypeOK, TerminalAssumption
  <2>2. \A i \in DOMAIN deals : deals[i] \in Deals
    <3>1. deals \in Seq(Deals)
      BY DEF TypeOK, Deals, Outcomes
    <3> QED BY <3>1
  <2>3. ea.phase = "command" => ea.command \in Commands
    BY DEF TypeOK, Idle
  <2> QED BY <2>1, <2>2, <2>3 DEF Commands, Deals, Ids, TerminalAssumption
<1>3. /\ DOMAIN queue' = 1..Len(queue) + 1
      /\ \A i \in DOMAIN queue' : queue'[i] = IF i = Len(queue) + 1 THEN new ELSE queue[i]
      /\ DOMAIN queue = 1..Len(queue) /\ Len(queue) \in Nat
  BY <1>1 DEF TypeOK
<1>4. \A i \in DOMAIN queue' :
         \/ i \in DOMAIN queue /\ queue'[i] = queue[i] /\ i < Len(queue) + 1
         \/ i = Len(queue) + 1 /\ queue'[i].id = issued + 1
  BY <1>3
<1>5. QueueInOrder'
  BY <1>2, <1>3, <1>4 DEF OrderInv, QueueInOrder, QueueIssued
<1>6. QueueIssued'
  BY <1>1, <1>2, <1>4 DEF OrderInv, QueueIssued
<1>7. QueueAfterDeals'
  BY <1>1, <1>2, <1>4 DEF OrderInv, QueueAfterDeals, DealsIssued
<1>8. CommandBetween'
  BY <1>1, <1>2, <1>4 DEF OrderInv, CommandBetween
<1>9. ExecutedInOrder' /\ DealsIssued'
  BY <1>1, <1>2 DEF OrderInv, ExecutedInOrder, DealsIssued
<1> QED BY <1>5, <1>6, <1>7, <1>8, <1>9 DEF OrderInv

\* The head of the queue leaves it, for the EA or for good.
LEMMA OrderDequeue ==
    ASSUME TypeOK, OrderInv, TerminalAssumption, queue # <<>>, queue' = Tail(queue),
           UNCHANGED <<deals, issued>>,
           ea' = [phase |-> "command", command |-> Head(queue)] \/ (ea' = ea /\ ea.phase = "idle")
    PROVE  OrderInv'
<1>1. /\ DOMAIN queue = 1..Len(queue) /\ Len(queue) \in Nat /\ 1 \in DOMAIN queue
      /\ Head(queue) = queue[1]
  BY HeadTailProperties DEF TypeOK
<1>2. \A i \in DOMAIN queue' :
         i \in Nat /\ i + 1 \in DOMAIN queue /\ 1 < i + 1 /\ queue'[i] = queue[i + 1]
  BY <1>1, HeadTailProperties DEF TypeOK
<1>3. QueueInOrder' /\ QueueIssued' /\ QueueAfterDeals'
  BY <1>2 DEF OrderInv, QueueInOrder, QueueIssued, QueueAfterDeals
<1>4. CommandBetween'
  BY <1>1, <1>2 DEF OrderInv, CommandBetween, QueueInOrder, QueueIssued, QueueAfterDeals
<1>5. ExecutedInOrder' /\ DealsIssued'
  BY DEF OrderInv, ExecutedInOrder, DealsIssued
<1> QED BY <1>3, <1>4, <1>5 DEF OrderInv

\* The EA's command becomes the latest deal.
LEMMA OrderExecuted ==
    ASSUME TypeOK, OrderInv, TerminalAssumption, NEW outcome \in Outcomes,
           ea.phase = "command", Executed(outcome), UNCHANGED <<queue, issued>>
    PROVE  OrderInv'
<1> DEFINE new == [id |-> ea.command.id, outcome |-> outcome]
<1>1. deals' = Append(deals, new) /\ ea'.phase = "result"
  BY DEF Executed
<1>2. /\ DOMAIN deals' = 1..Len(deals) + 1
      /\ \A i \in DOMAIN deals' : deals'[i] = IF i = Len(deals) + 1 THEN new ELSE deals[i]
      /\ DOMAIN deals = 1..Len(deals) /\ Len(deals) \in Nat
  BY <1>1 DEF TypeOK
<1>3. \A i \in DOMAIN deals' :
         \/ i \in DOMAIN deals /\ deals'[i] = deals[i] /\ i < Len(deals) + 1
         \/ i = Len(deals) + 1 /\ deals'[i].id = ea.command.id
  BY <1>2
<1>4. ExecutedInOrder' /\ DealsIssued' /\ QueueAfterDeals'
  BY <1>3, <1>2 DEF OrderInv, ExecutedInOrder, DealsIssued, QueueAfterDeals, CommandBetween
<1>5. QueueInOrder' /\ QueueIssued' /\ CommandBetween'
  BY <1>1 DEF OrderInv, QueueInOrder, QueueIssued, CommandBetween
<1> QED BY <1>4, <1>5 DEF OrderInv

LEMMA OrderStep == ASSUME TypeOK, OrderInv, TerminalAssumption, [Next]_vars PROVE OrderInv'
<1>1. CASE UNCHANGED vars
  BY <1>1, OrderKept DEF vars, terminalVars, bridgeVars
<1>2. CASE \/ \E s \in Symbols, side \in Sides : PlaceOrder(s, side)
           \/ \E i \in DOMAIN round : ClosePosition(i)
  BY <1>2, OrderEnqueue DEF PlaceOrder, ClosePosition
<1>3. CASE (\E caller \in Callers : Timeout(caller)) \/ GiveUp \/ MonitorScan \/ HandleState \/ HandleResult \/ ResultLost
  <2>1. UNCHANGED <<deals, queue, issued>> /\ (ea' = ea \/ ea' = Idle)
    BY <1>3 DEF Timeout, GiveUp, MonitorScan, HandleState, HandleResult, ResultLost, terminalVars, bridgeVars
  <2> QED BY <2>1, OrderKept
<1>4. CASE HandleCommand \/ CommandLost
  BY <1>4, OrderDequeue DEF HandleCommand, CommandLost, terminalVars
<1>5. CASE TerminalStep /\ UNCHANGED bridgeVars
  <2>1. ASSUME NEW outcome \in Outcomes, HandlePlaceOrder(outcome) \/ HandleClosePosition(outcome)
        PROVE  OrderInv'
    BY <1>5, <2>1, OrderExecuted DEF HandlePlaceOrder, HandleClosePosition, bridgeVars
  <2>2. ASSUME NEW i \in DOMAIN terminal, NativeStop(i) PROVE OrderInv'
    BY <1>5, <2>2, OrderKept DEF NativeStop, bridgeVars
  <2> QED BY <1>5, <2>1, <2>2 DEF TerminalStep, Outcomes
<1> QED BY <1>1, <1>2, <1>3, <1>4, <1>5 DEF Next

\* Commands are executed at most once and in the order in which _enqueue_and_wait issued them
\* (mt5_bridge.py), whatever the EA's requests lose and however late its results are.
THEOREM InOrder == Spec => []ExecutedInOrder
<1> USE TerminalAssumption
<1>1. Init => TypeOK /\ OrderInv
  BY TypeInit, OrderInit
<1>2. TypeOK /\ OrderInv /\ [Next]_vars => (TypeOK /\ OrderInv)'
  BY TypeStep, OrderStep
<1>3. TypeOK /\ OrderInv => ExecutedInOrder
  BY DEF OrderInv
<1> QED BY <1>1, <1>2, <1>3, PTL DEF Spec

--------------------------------------------------------------------------------
(* Truth *)

Done(id) == \E i \in DOMAIN deals : deals[i] = [id |-> id, outcome |-> "done"]

\* The result the EA is about to post is of a command it executed.
ResultIsReal == ea.phase = "result" /\ ea.status = "ok" => Done(ea.id)

\* What is done stays done.
LEMMA DoneStays ==
    ASSUME TypeOK, NEW id, Done(id),
           deals' = deals \/ \E deal \in Deals : deals' = Append(deals, deal)
    PROVE  Done(id)'
<1>1. PICK i \in DOMAIN deals : deals[i] = [id |-> id, outcome |-> "done"]
  BY DEF Done
<1>2. deals \in Seq(Deals)
  BY DEF TypeOK, Deals, Outcomes
<1>3. i \in DOMAIN deals' /\ deals'[i] = deals[i]
  BY <1>2
<1> QED BY <1>1, <1>3 DEF Done

LEMMA RealStep ==
    ASSUME TypeOK, ResultIsReal, FillsAreReal, TerminalAssumption, [Next]_vars
    PROVE  (ResultIsReal /\ FillsAreReal)'
<1> DEFINE Told0 == \A id \in Ids : told[id] = "ok" => Done(id)
<1>0. Told0
  BY DEF FillsAreReal, Done
<1>1. SUFFICES ResultIsReal' /\ \A id \in Ids : told'[id] = "ok" => Done(id)'
  BY DEF FillsAreReal, Done
<1>2. CASE TerminalStep /\ UNCHANGED bridgeVars
  <2>1. ASSUME NEW outcome \in Outcomes, HandlePlaceOrder(outcome) \/ HandleClosePosition(outcome)
        PROVE  ResultIsReal' /\ \A id \in Ids : told'[id] = "ok" => Done(id)'
    <3>1. Executed(outcome) /\ ea.phase = "command"
      BY <2>1 DEF HandlePlaceOrder, HandleClosePosition
    <3>0. [id |-> ea.command.id, outcome |-> outcome] \in Deals
      BY <3>1 DEF TypeOK, Idle, Commands, Deals
    <3>2. \A id \in Ids : told'[id] = "ok" => Done(id)'
      BY <1>0, <1>2, <3>0, <3>1, DoneStays DEF Executed, bridgeVars
    <3>3. /\ deals \in Seq(Deals)
          /\ deals' = Append(deals, [id |-> ea.command.id, outcome |-> outcome])
          /\ ea'.id = ea.command.id /\ (ea'.status = "ok" => outcome = "done")
      BY <3>1 DEF Executed, TypeOK, Deals, Outcomes
    <3>4. deals'[Len(deals) + 1] = [id |-> ea.command.id, outcome |-> outcome]
          /\ Len(deals) + 1 \in DOMAIN deals'
      BY <3>3
    <3>5. ResultIsReal'
      BY <3>3, <3>4 DEF ResultIsReal, Done
    <3> QED BY <3>2, <3>5
  <2>2. ASSUME NEW i \in DOMAIN terminal, NativeStop(i)
        PROVE  ResultIsReal' /\ \A id \in Ids : told'[id] = "ok" => Done(id)'
    BY <1>0, <1>2, <2>2 DEF NativeStop, bridgeVars, ResultIsReal, Done
  <2> QED BY <1>2, <2>1, <2>2 DEF TerminalStep, Outcomes
<1>3. CASE HandleResult
  <2>1. deals' = deals /\ ea' = Idle
    BY <1>3 DEF HandleResult
  <2>2. ASSUME NEW c \in Callers, waiting[c] = ea.id, Told(c, ea.status), NEW id \in Ids, told'[id] = "ok"
        PROVE  Done(id)
    <3>1. CASE id = ea.id
      BY <1>3, <2>2, <3>1 DEF Told, HandleResult, ResultIsReal, TypeOK
    <3>2. CASE id # ea.id
      BY <1>0, <2>2, <3>2 DEF Told, TypeOK
    <3> QED BY <3>1, <3>2
  <2>3. \A id \in Ids : told'[id] = "ok" => Done(id)
    BY <1>0, <1>3, <2>2 DEF HandleResult
  <2> QED BY <2>1, <2>3 DEF ResultIsReal, Idle, Done
<1>4. CASE (\E caller \in Callers : Timeout(caller)) \/ GiveUp
  <2>1. UNCHANGED <<deals, ea>> /\ \E c \in Callers : Told(c, "timeout")
    BY <1>4 DEF Timeout, GiveUp, terminalVars, Callers
  <2>2. \A id \in Ids : told'[id] = "ok" => told[id] = "ok"
    BY <2>1 DEF Told, TypeOK
  <2> QED BY <1>0, <2>1, <2>2 DEF ResultIsReal, Done
<1>5. CASE \/ UNCHANGED vars
           \/ \E s \in Symbols, side \in Sides : PlaceOrder(s, side)
           \/ \E i \in DOMAIN round : ClosePosition(i)
           \/ MonitorScan \/ HandleState \/ HandleCommand \/ CommandLost \/ ResultLost
  <2>1. CASE UNCHANGED vars \/ MonitorScan \/ HandleState \/ HandleCommand \/ CommandLost \/ ResultLost
    <3>1. UNCHANGED <<deals, told>> /\ (ea' = ea \/ ea'.phase \in {"idle", "command"})
      BY <2>1 DEF vars, MonitorScan, HandleState, HandleCommand, CommandLost, ResultLost, terminalVars,
                  bridgeVars, Idle
    <3> QED BY <1>0, <3>1 DEF ResultIsReal, Done
  <2>2. ASSUME NEW c, NEW a, NEW s, NEW side, Enqueue(c, a, s, side)
        PROVE  UNCHANGED <<deals, told, ea>>
    BY <2>2 DEF Enqueue, terminalVars
  <2>3. CASE \/ \E s \in Symbols, side \in Sides : PlaceOrder(s, side)
             \/ \E i \in DOMAIN round : ClosePosition(i)
    <3>1. UNCHANGED <<deals, told, ea>>
      BY <2>2, <2>3 DEF PlaceOrder, ClosePosition
    <3> QED BY <1>0, <3>1 DEF ResultIsReal, Done
  <2> QED BY <1>5, <2>1, <2>3
<1> QED BY <1>2, <1>3, <1>4, <1>5 DEF Next

\* A caller told "ok" may rely on the terminal having executed its command: the result
\* that answers a future (mt5_bridge.py) is that of the command it waits for.
THEOREM ReportedFillsAreReal == Spec => []FillsAreReal
<1> USE TerminalAssumption
<1>1. Init => TypeOK /\ ResultIsReal /\ FillsAreReal
  BY TypeInit DEF Init, TerminalInit, Idle, ResultIsReal, FillsAreReal
<1>2. TypeOK /\ ResultIsReal /\ FillsAreReal /\ [Next]_vars => (TypeOK /\ ResultIsReal /\ FillsAreReal)'
  BY TypeStep, RealStep
<1> QED BY <1>1, <1>2, PTL DEF Spec

--------------------------------------------------------------------------------
(***************************************************************************)
(* The paper portfolio's copy in Redis.  The inductive invariant says that *)
(* a task has one request on the wire at most (WireInv) and that, while    *)
(* Redis refuses nothing, the requests for a half carry ever later         *)
(* portfolios, none older than what is saved nor newer than memory         *)
(* (Ordered); that what a save claims to have written is written           *)
(* (Covered); that the save of an override's stop() is no older than any   *)
(* fill that counts (StopSaves); and that what memory holds is saved, sent *)
(* or about to be sent (Coming).                                           *)
(***************************************************************************)

WireInv ==
    /\ \A k \in DOMAIN wire : task[wire[k].task].phase = wire[k].half
    /\ \A j, k \in DOMAIN wire : wire[j].task = wire[k].task => j = k
    /\ \A t \in Tasks : task[t].phase \in Halves => \E k \in DOMAIN wire : wire[k].task = t
    /\ mode \in {"starting", "ending"} => \A t \in Tasks \ {"loop"} : task[t].phase = "rest"
    /\ mode \in {"up", "stopped"} => task["listener"].phase = "rest"
    /\ mode = "down" => task = AllRest /\ wire = <<>>
Ordered ==
    /\ \A k \in DOMAIN wire :
          /\ saved[wire[k].half] <= wire[k].value
          /\ wire[k].value <= memory[wire[k].half]
          /\ task[wire[k].task].fill <= wire[k].value
    /\ \A j, k \in DOMAIN wire :
          j < k /\ wire[j].half = wire[k].half => wire[j].value <= wire[k].value
    /\ \A h \in Halves : saved[h] <= memory[h] /\ memory[h] <= fills
    /\ saved.cash = Absent => saved.positions = Absent
Covered ==
    /\ \A h \in Halves : published = 0 \/ published <= saved[h]
    /\ \A t \in Tasks :
          /\ \A h \in Halves : task[t].fill <= memory[h]
          /\ task[t].phase \in {"cash_done", "positions", "done"} => task[t].fill <= saved.cash
          /\ task[t].phase = "done" => task[t].fill <= saved.positions
StopSaves ==
    /\ mode = "stopping" =>
          /\ \A k \in DOMAIN wire :
                wire[k].task = "listener" => \A t \in Tasks : task[t].fill <= wire[k].value
          /\ task["listener"].phase \in {"cash_done", "positions", "done"} =>
                \A t \in Tasks : task[t].fill <= saved.cash
          /\ task["listener"].phase = "done" => \A t \in Tasks : task[t].fill <= saved.positions
    /\ mode = "stopped" => \A t \in Tasks, h \in Halves : task[t].fill <= saved[h]
Coming ==
    mode \notin {"down", "stopped"} =>
    /\ saved.cash = memory.cash
          \/ \E k \in DOMAIN wire : wire[k].half = "cash" /\ wire[k].value = memory.cash
    /\ \/ saved.positions = memory.positions
       \/ \E k \in DOMAIN wire : wire[k].half = "positions" /\ wire[k].value = memory.positions
       \/ \E t \in Tasks : task[t].phase \in {"cash", "cash_done"}
SaveInv == refused \/ (Ordered /\ Covered /\ StopSaves /\ Coming)

Requests == [task : Tasks, half : Halves, value : 0..MaxFills]

\* What is left of the wire are requests of it, each once and in their order.
LEMMA RemoveAtKeeps ==
    ASSUME NEW S, NEW s \in Seq(S), NEW i \in DOMAIN s
    PROVE  /\ DOMAIN RemoveAt(s, i) = 1..(Len(s) - 1)
           /\ \A k \in 1..(Len(s) - 1) :
                 /\ (IF k < i THEN k ELSE k + 1) \in DOMAIN s \ {i}
                 /\ RemoveAt(s, i)[k] = s[IF k < i THEN k ELSE k + 1]
<1>1. /\ SubSeq(s, 1, i - 1) \in Seq(S) /\ Len(SubSeq(s, 1, i - 1)) = i - 1
      /\ \A k \in 1..(i - 1) : SubSeq(s, 1, i - 1)[k] = s[k]
  BY SubSeqProperties
<1>2. /\ SubSeq(s, i + 1, Len(s)) \in Seq(S) /\ Len(SubSeq(s, i + 1, Len(s))) = Len(s) - i
      /\ \A k \in 1..(Len(s) - i) : SubSeq(s, i + 1, Len(s))[k] = s[k + i]
  BY SubSeqProperties
<1> DEFINE a == SubSeq(s, 1, i - 1)
           b == SubSeq(s, i + 1, Len(s))
<1>3. RemoveAt(s, i) = a \o b /\ i \in 1..Len(s) /\ Len(s) \in Nat
  BY DEF RemoveAt
<1> HIDE DEF a, b
<1>4. /\ Len(a \o b) = Len(a) + Len(b) /\ a \o b \in Seq(S)
      /\ \A k \in 1..(Len(a) + Len(b)) :
            (a \o b)[k] = IF k <= Len(a) THEN a[k] ELSE b[k - Len(a)]
  BY <1>1, <1>2, ConcatProperties DEF a, b
<1>5. DOMAIN (a \o b) = 1..(Len(s) - 1)
  BY <1>1, <1>2, <1>3, <1>4 DEF a, b
<1>6. ASSUME NEW k \in 1..(Len(s) - 1)
      PROVE  (a \o b)[k] = s[IF k < i THEN k ELSE k + 1]
  <2>1. CASE k < i
    <3>1. /\ Len(a) = i - 1 /\ Len(b) = Len(s) - i
          /\ \A n \in 1..(i - 1) : a[n] = s[n]
      BY <1>1, <1>2 DEF a, b
    <3>2. k \in 1..(i - 1) /\ k <= Len(a) /\ k \in 1..(Len(a) + Len(b))
      BY <1>3, <2>1, <3>1
    <3>3. (a \o b)[k] = a[k]
      BY <1>4, <3>2
    <3> QED BY <2>1, <3>1, <3>2, <3>3
  <2>2. CASE ~(k < i)
    <3> DEFINE j == k - i + 1
    <3>0. Len(a) = i - 1 /\ Len(b) = Len(s) - i
      BY <1>1, <1>2 DEF a, b
    <3>1. /\ j \in 1..(Len(s) - i) /\ j = k - Len(a) /\ j + i = k + 1 /\ ~(k <= Len(a))
          /\ k \in 1..(Len(a) + Len(b))
      <4>1. k \in Int /\ 1 <= i /\ i <= Len(s) /\ k <= Len(s) - 1 /\ i <= k /\ Len(s) \in Int /\ i \in Int
        BY <1>3, <2>2
      <4>2. j \in 1..(Len(s) - i) /\ j + i = k + 1
        BY <4>1
      <4>3. j = k - Len(a) /\ ~(k <= Len(a)) /\ k \in 1..(Len(a) + Len(b))
        <5>1. k - Len(a) = k - i + 1 /\ Len(a) + Len(b) = Len(s) - 1 /\ Len(a) < k
          BY <4>1, <3>0
        <5>2. 1 <= k /\ k <= Len(s) - 1
          BY <4>1
        <5>3. k \in 1..(Len(a) + Len(b))
          BY <4>1, <5>1, <5>2
        <5>4. ~(k <= Len(a))
          BY <4>1, <3>0, <5>1
        <5> QED BY <5>1, <5>3, <5>4
      <4> QED BY <4>2, <4>3
    <3> HIDE DEF j
    <3>2. (a \o b)[k] = b[j]
      BY <1>4, <3>1
    <3>3. b[j] = s[k + 1]
      BY <1>2, <3>1 DEF b
    <3> QED BY <2>2, <3>2, <3>3
  <2> QED BY <2>1, <2>2
<1> QED BY <1>3, <1>5, <1>6

\* A task moves on with the fill it saves.
LEMMA PhaseStep ==
    ASSUME NEW t \in Tasks, NEW phase \in Phases,
           task \in [Tasks -> [phase : Phases, fill : 0..MaxFills]],
           task' = [task EXCEPT ![t].phase = phase]
    PROVE  /\ task' = [task EXCEPT ![t] = [phase |-> phase, fill |-> task[t].fill]]
           /\ task' \in [Tasks -> [phase : Phases, fill : 0..MaxFills]]
<1>1. task[t] \in [phase : Phases, fill : 0..MaxFills]
  OBVIOUS
<1> DEFINE r == [phase |-> phase, fill |-> task[t].fill]
<1>2. [task[t] EXCEPT !.phase = phase] = r /\ r \in [phase : Phases, fill : 0..MaxFills]
  BY <1>1
<1> HIDE DEF r
<1>3. task' = [task EXCEPT ![t] = [task[t] EXCEPT !.phase = phase]]
  OBVIOUS
<1>4. task' = [task EXCEPT ![t] = r]
  BY <1>2, <1>3
<1> QED BY <1>2, <1>4 DEF r

\* Every task at rest.
LEMMA AllRestFacts ==
    ASSUME PersistenceAssumption
    PROVE  /\ AllRest \in [Tasks -> [phase : Phases, fill : 0..MaxFills]]
           /\ \A t \in Tasks : AllRest[t].phase = "rest" /\ AllRest[t].fill = 0
<1>1. Resting \in [phase : Phases, fill : 0..MaxFills]
  BY DEF Resting, Phases, PersistenceAssumption
<1>2. \A t \in Tasks : AllRest[t] = Resting
  BY DEF AllRest
<1>3. Resting.phase = "rest" /\ Resting.fill = 0
  BY DEF Resting
<1> QED BY <1>1, <1>2, <1>3 DEF AllRest

\* A task that has published is at rest again.
LEMMA PublishTask ==
    ASSUME PersistenceAssumption, NEW t \in Tasks,
           task \in [Tasks -> [phase : Phases, fill : 0..MaxFills]],
           task' = [task EXCEPT ![t] = Resting]
    PROVE  /\ task' \in [Tasks -> [phase : Phases, fill : 0..MaxFills]]
           /\ task'[t].phase = "rest" /\ task'[t].fill = 0
           /\ \A u \in Tasks : u # t => task'[u] = task[u]
<1>1. Resting \in [phase : Phases, fill : 0..MaxFills]
      /\ Resting.phase = "rest" /\ Resting.fill = 0
  BY DEF Resting, Phases, PersistenceAssumption
<1>2. task'[t] = Resting /\ \A u \in Tasks : u # t => task'[u] = task[u]
  OBVIOUS
<1> HIDE DEF Resting
<1>3. task' \in [Tasks -> [phase : Phases, fill : 0..MaxFills]]
  BY <1>1
<1> QED BY <1>1, <1>2, <1>3

LEMMA PersistenceTypeInit == ASSUME PersistenceAssumption, PersistenceInit PROVE PersistenceTypeOK
<1>1. wire \in Seq([task : Tasks, half : Halves, value : 0..MaxFills])
  BY DEF PersistenceInit
<1>2. Absent \in Numbers /\ 0 \in 0..MaxFills
  BY DEF PersistenceAssumption, Absent, Numbers
<1>3. memory \in [Halves -> 0..MaxFills] /\ saved \in [Halves -> Numbers]
  BY <1>2 DEF PersistenceInit, Whole
<1>4. task \in [Tasks -> [phase : Phases, fill : 0..MaxFills]]
  BY <1>2 DEF PersistenceInit, AllRest, Resting, Phases
<1>5. refused \in BOOLEAN
  BY DEF PersistenceInit
<1> QED BY <1>1, <1>2, <1>3, <1>4, <1>5
        DEF PersistenceAssumption, PersistenceInit, PersistenceTypeOK, Modes

LEMMA SendType ==
    ASSUME PersistenceAssumption, PersistenceTypeOK, NEW t \in Tasks, NEW half \in Halves,
           NEW value \in 0..MaxFills, NEW fill \in 0..MaxFills, Send(t, half, value, fill)
    PROVE  /\ task' \in [Tasks -> [phase : Phases, fill : 0..MaxFills]]
           /\ wire' \in Seq(Requests)
<1>1. [task |-> t, half |-> half, value |-> value] \in Requests
  BY DEF Requests
<1>2. wire' \in Seq(Requests)
  BY <1>1, AppendProperties DEF Send, PersistenceTypeOK, Requests
<1> QED BY <1>2 DEF Send, PersistenceTypeOK, Phases, Halves

\* A broker that starts or stops has sent its cash and nothing else.
LEMMA LoopSends ==
    ASSUME NEW value \in 0..MaxFills, PersistenceAssumption,
           wire' = <<[task |-> "loop", half |-> "cash", value |-> value]>>,
           task' = [AllRest EXCEPT !["loop"].phase = "cash"]
    PROVE  /\ task' \in [Tasks -> [phase : Phases, fill : 0..MaxFills]]
           /\ wire' \in Seq(Requests)
           /\ task'["loop"].phase = "cash"
           /\ \A t \in Tasks \ {"loop"} : task'[t].phase = "rest"
           /\ \A t \in Tasks : task'[t].fill = 0
           /\ DOMAIN wire' = {1} /\ wire'[1].task = "loop" /\ wire'[1].half = "cash"
           /\ wire'[1].value = value
<1>1. [task |-> "loop", half |-> "cash", value |-> value] \in Requests
  BY DEF Requests, Tasks, Halves
<1>2. wire' \in Seq(Requests) /\ DOMAIN wire' = {1}
  BY <1>1
<1>3. AllRest = [t \in Tasks |-> [phase |-> "rest", fill |-> 0]]
  BY DEF AllRest, Resting
<1>4. AllRest \in [Tasks -> [phase : Phases, fill : 0..MaxFills]]
  BY <1>3 DEF PersistenceAssumption, Phases
<1>5. task' \in [Tasks -> [phase : Phases, fill : 0..MaxFills]]
  BY <1>4 DEF Phases
<1> QED BY <1>2, <1>3, <1>5 DEF Tasks

LEMMA PersistenceTypeStep ==
    ASSUME PersistenceAssumption, PersistenceTypeOK, [PersistenceNext]_persistenceVars
    PROVE  PersistenceTypeOK'
<1> USE DEF PersistenceTypeOK, PersistenceAssumption
<1>0. Absent = -1 /\ Halves = {"cash", "positions"} /\ Tasks = {"loop", "monitor", "listener"}
      /\ Numbers = -1..MaxFills /\ wire \in Seq(Requests)
      /\ task \in [Tasks -> [phase : Phases, fill : 0..MaxFills]]
  BY DEF Absent, Halves, Tasks, Numbers, Requests, Phases
<1>m. mode \in Modes => mode' \in Modes
  BY DEF PersistenceNext, persistenceVars, Modes, Serve, SavePositions, WriteFails, Fill, PublishFill,
         BeginOrder, OrderRefused, Connect, Connected, Stop, Disconnect, Leave, Ended, Crash, Down
<1>1. CASE UNCHANGED persistenceVars
  BY <1>1 DEF persistenceVars
<1>2. CASE Serve
  <2>1. Head(wire) \in Requests /\ Tail(wire) \in Seq(Requests)
    BY <1>0, <1>2, HeadTailProperties DEF Serve
  <2> DEFINE phase == IF Head(wire).half = "cash" THEN "cash_done" ELSE "done"
  <2>4. task' = [task EXCEPT ![Head(wire).task].phase = phase] /\ phase \in Phases
    BY <1>2 DEF Serve, Phases
  <2> HIDE DEF phase
  <2>2. task' \in [Tasks -> [phase : Phases, fill : 0..MaxFills]]
    <3>1. Head(wire).task \in Tasks
      BY <2>1 DEF Requests
    <3>2. /\ task' = [task EXCEPT ![Head(wire).task].phase = phase] /\ phase \in Phases
          /\ task \in [Tasks -> [phase : Phases, fill : 0..MaxFills]]
      BY <1>0, <2>4
    <3> HIDE DEF PersistenceTypeOK, PersistenceAssumption
    <3> QED BY <3>1, <3>2, PhaseStep
  <2>3. saved' \in [Halves -> Numbers]
    <3>1. Head(wire).half \in Halves /\ Head(wire).value \in Numbers
      BY <1>0, <2>1 DEF Requests
    <3>2. saved' = [saved EXCEPT ![Head(wire).half] = Head(wire).value]
      BY <1>2 DEF Serve
    <3> QED BY <3>1, <3>2
  <2> QED BY <1>2, <2>1, <2>2, <2>3 DEF Serve, Requests
<1>3. ASSUME NEW t \in Tasks, SavePositions(t) PROVE PersistenceTypeOK'
  <2>1. Send(t, "positions", memory.positions, task[t].fill)
        /\ memory.positions \in 0..MaxFills /\ task[t].fill \in 0..MaxFills
    BY <1>0, <1>3 DEF SavePositions
  <2> QED BY <1>m, <1>0, <1>3, <2>1, SendType DEF SavePositions, Requests, Phases
<1>4. ASSUME NEW t \in Tasks, WriteFails(t) PROVE PersistenceTypeOK'
  <2>1. wire' \in Seq(Requests)
    BY <1>0, <1>4, RemoveAtType DEF WriteFails
  <2>2. task' \in [Tasks -> [phase : Phases, fill : 0..MaxFills]]
    <3>1. task' = [task EXCEPT ![t].phase = "done"] /\ "done" \in Phases
      BY <1>4 DEF WriteFails, Phases
    <3>2. task \in [Tasks -> [phase : Phases, fill : 0..MaxFills]]
      BY <1>0
    <3> HIDE DEF PersistenceTypeOK, PersistenceAssumption
    <3> QED BY <3>1, <3>2, PhaseStep
  <2> QED BY <1>m, <1>4, <2>1, <2>2 DEF WriteFails, Requests, Phases
<1>5. ASSUME NEW t \in Tasks, Fill(t) PROVE PersistenceTypeOK'
  <2> DEFINE fill == IF mode = "up" THEN fills + 1 ELSE 0
  <2>1. fills + 1 \in 0..MaxFills /\ BeginSave(t, fills + 1, fill) /\ fill \in 0..MaxFills
    BY <1>5 DEF Fill
  <2> HIDE DEF fill
  <2>2. memory' \in [Halves -> 0..MaxFills] /\ fills' \in 0..MaxFills
    BY <1>5, <2>1 DEF Fill, Whole
  <2>3. /\ task' \in [Tasks -> [phase : Phases, fill : 0..MaxFills]]
        /\ wire' \in Seq(Requests)
    <3>1. CASE mode = "stopped"
      BY <1>0, <2>1, <3>1 DEF BeginSave, Phases
    <3>2. CASE mode # "stopped"
      BY <1>0, <2>1, <3>2, SendType DEF BeginSave
    <3> QED BY <3>1, <3>2
  <2> QED BY <1>m, <1>0, <1>5, <2>2, <2>3 DEF Fill, Requests
<1>6. ASSUME NEW t \in Tasks, PublishFill(t) PROVE PersistenceTypeOK'
  <2>1. task' = [task EXCEPT ![t] = Resting]
    BY <1>6 DEF PublishFill
  <2>2. task' \in [Tasks -> [phase : Phases, fill : 0..MaxFills]]
    BY <1>0, <2>1, PublishTask
  <2>3. published' \in 0..MaxFills
    <3>1. task[t].fill \in 0..MaxFills
      BY <1>0
    <3> QED BY <1>6, <3>1 DEF PublishFill, Latest
  <2> QED BY <1>m, <1>6, <2>2, <2>3 DEF PublishFill, Phases
<1>7. CASE Connect
  <2>1. memory' \in [Halves -> 0..MaxFills] /\ memory'.cash \in 0..MaxFills
    <3>1. CASE saved.cash = Absent
      BY <1>0, <1>7, <3>1 DEF Connect, Whole
    <3>2. CASE saved.cash # Absent
      <4>0. saved \in [{"cash", "positions"} -> -1..MaxFills] /\ MaxFills \in Nat
        BY <1>0
      <4>1. saved.cash \in 0..MaxFills
        BY <1>0, <3>2, <4>0
      <4>2. \/ memory' = [saved EXCEPT !.positions = IF saved.positions = Absent THEN 0 ELSE saved.positions]
            \/ memory' = Whole(0)
            \/ memory' = [cash |-> saved.cash, positions |-> 0]
        BY <1>7, <3>2 DEF Connect
      <4> HIDE DEF PersistenceTypeOK, PersistenceAssumption
      <4>3. CASE memory' = [saved EXCEPT !.positions = IF saved.positions = Absent THEN 0 ELSE saved.positions]
        BY <1>0, <4>0, <4>1, <4>3
      <4>4. CASE memory' = Whole(0)
        BY <1>0, <4>0, <4>4 DEF Whole
      <4>5. CASE memory' = [cash |-> saved.cash, positions |-> 0]
        BY <1>0, <4>0, <4>1, <4>5
      <4> QED BY <4>2, <4>3, <4>4, <4>5
    <3> QED BY <3>1, <3>2
  <2> QED BY <1>m, <1>7, <2>1, LoopSends DEF Connect, Requests, Phases
<1>8. CASE Connected
  BY <1>m, <1>8, AllRestFacts DEF Connected, Phases
<1>9. CASE BeginOrder \/ OrderRefused
  <2>1. task' \in [Tasks -> [phase : Phases, fill : 0..MaxFills]]
    <3>1. CASE BeginOrder
      <4>1. task' = [task EXCEPT !["loop"].phase = "latency"] /\ "latency" \in Phases
        BY <3>1 DEF BeginOrder, Phases
      <4>2. task \in [Tasks -> [phase : Phases, fill : 0..MaxFills]] /\ "loop" \in Tasks
        BY <1>0
      <4> HIDE DEF PersistenceTypeOK, PersistenceAssumption
      <4> QED BY <4>1, <4>2, PhaseStep
    <3>2. CASE OrderRefused
      BY <1>0, <3>2, PublishTask DEF OrderRefused
    <3> QED BY <1>9, <3>1, <3>2
  <2> QED BY <1>m, <1>9, <2>1 DEF BeginOrder, OrderRefused
<1>10. CASE Stop
  <2>1. Send("listener", "cash", memory.cash, 0) /\ memory.cash \in 0..MaxFills
        /\ 0 \in 0..MaxFills /\ "listener" \in Tasks /\ "cash" \in Halves
    BY <1>0, <1>10 DEF Stop
  <2> QED BY <1>m, <1>10, <2>1, SendType DEF Stop, Requests
<1>11. CASE Leave
  <2>1. memory.cash \in 0..MaxFills
    BY <1>0
  <2> QED BY <1>m, <1>11, <2>1, LoopSends DEF Leave, Requests, Phases
<1>12. CASE Disconnect
  <2>1. task' = [task EXCEPT !["listener"] = Resting] /\ "listener" \in Tasks
    BY <1>0, <1>12 DEF Disconnect
  <2>2. task' \in [Tasks -> [phase : Phases, fill : 0..MaxFills]]
    BY <1>0, <2>1, PublishTask
  <2> QED BY <1>m, <1>12, <2>2 DEF Disconnect
<1>13. CASE Ended \/ Crash
  <2>1. <<>> \in Seq([task : Tasks, half : Halves, value : 0..MaxFills])
    OBVIOUS
  <2>2. Down
    BY <1>13 DEF Ended, Crash
  <2> QED BY <1>m, <2>1, <2>2, AllRestFacts DEF Down, Phases
<1> QED BY <1>1, <1>2, <1>3, <1>4, <1>5, <1>6, <1>7, <1>8, <1>9, <1>10, <1>11, <1>12, <1>13
        DEF PersistenceNext

LEMMA TypeFacts ==
    ASSUME PersistenceAssumption, PersistenceTypeOK
    PROVE  /\ wire \in Seq(Requests)
           /\ task \in [Tasks -> [phase : Phases, fill : 0..MaxFills]]
           /\ memory \in [Halves -> 0..MaxFills] /\ saved \in [Halves -> -1..MaxFills]
           /\ fills \in 0..MaxFills /\ published \in 0..MaxFills
           /\ MaxFills \in Nat
           /\ Halves = {"cash", "positions"} /\ Tasks = {"loop", "monitor", "listener"} /\ Absent = -1
BY DEF PersistenceAssumption, PersistenceTypeOK, Requests, Phases, Halves, Tasks, Numbers, Absent

\* The oldest request has been served.
LEMMA Served ==
    ASSUME PersistenceAssumption, PersistenceTypeOK, WireInv, Serve
    PROVE  /\ wire[1] \in Requests /\ 1 \in DOMAIN wire
           /\ DOMAIN wire' = 1..(Len(wire) - 1) /\ Len(wire) \in Nat
           /\ \A k \in DOMAIN wire' : k + 1 \in DOMAIN wire /\ wire'[k] = wire[k + 1]
           /\ saved' = [saved EXCEPT ![wire[1].half] = wire[1].value]
           /\ task' = [task EXCEPT ![wire[1].task] =
                          [phase |-> IF wire[1].half = "cash" THEN "cash_done" ELSE "done",
                           fill |-> task[wire[1].task].fill]]
           /\ UNCHANGED <<memory, fills, published, mode, restarts, refused>>
<1>1. wire \in Seq(Requests) /\ task \in [Tasks -> [phase : Phases, fill : 0..MaxFills]]
      /\ wire # <<>>
  BY TypeFacts DEF Serve
<1>2. Head(wire) = wire[1] /\ wire[1] \in Requests /\ 1 \in DOMAIN wire /\ Len(wire) \in Nat
  BY <1>1
<1>3. DOMAIN Tail(wire) = 1..(Len(wire) - 1)
      /\ \A k \in DOMAIN Tail(wire) : k + 1 \in DOMAIN wire /\ Tail(wire)[k] = wire[k + 1]
  BY <1>1
<1> DEFINE phase == IF wire[1].half = "cash" THEN "cash_done" ELSE "done"
<1>4. phase \in Phases /\ wire[1].task \in Tasks
  BY <1>2 DEF Phases, Requests
<1>5. task' = [task EXCEPT ![wire[1].task].phase = phase]
  BY <1>2 DEF Serve
<1> HIDE DEF phase
<1>6. task' = [task EXCEPT ![wire[1].task] = [phase |-> phase, fill |-> task[wire[1].task].fill]]
  <2>1. task \in [Tasks -> [phase : Phases, fill : 0..MaxFills]]
    BY <1>1
  <2> QED BY <1>4, <1>5, <2>1, PhaseStep
<1> QED BY <1>2, <1>3, <1>6 DEF Serve, phase

\* What Send does: the request is the last on the wire, the rest is where it was.
Sends(t, half, value, fill) ==
    /\ DOMAIN wire' = DOMAIN wire \cup {Len(wire) + 1} /\ Len(wire) \in Nat
    /\ Len(wire) + 1 \notin DOMAIN wire /\ DOMAIN wire = 1..Len(wire)
    /\ \A k \in DOMAIN wire : wire'[k] = wire[k]
    /\ wire'[Len(wire) + 1] = [task |-> t, half |-> half, value |-> value]
    /\ task' = [task EXCEPT ![t] = [phase |-> half, fill |-> fill]]

LEMMA Sent ==
    ASSUME PersistenceTypeOK, NEW t \in Tasks, NEW half \in Halves,
           NEW value \in 0..MaxFills, NEW fill \in 0..MaxFills, Send(t, half, value, fill)
    PROVE  Sends(t, half, value, fill)
<1>1. wire \in Seq(Requests) /\ [task |-> t, half |-> half, value |-> value] \in Requests
  BY PersistenceAssumption, TypeFacts DEF Requests
<1> DEFINE r == [task |-> t, half |-> half, value |-> value]
<1>2. wire' = Append(wire, r) /\ task' = [task EXCEPT ![t] = [phase |-> half, fill |-> fill]]
  BY DEF Send
<1> HIDE DEF r
<1>3. /\ Len(Append(wire, r)) = Len(wire) + 1 /\ Append(wire, r)[Len(wire) + 1] = r
      /\ \A k \in 1..Len(wire) : Append(wire, r)[k] = wire[k]
      /\ Append(wire, r) \in Seq(Requests)
  BY <1>1, AppendProperties DEF r
<1>4. Len(wire) \in Nat /\ DOMAIN wire = 1..Len(wire) /\ DOMAIN wire' = 1..(Len(wire) + 1)
  BY <1>1, <1>2, <1>3
<1>5. DOMAIN wire' = DOMAIN wire \cup {Len(wire) + 1} /\ Len(wire) + 1 \notin DOMAIN wire
  BY <1>4
<1> QED BY <1>2, <1>3, <1>4, <1>5 DEF r, Sends

LEMMA WireInit == ASSUME PersistenceInit PROVE WireInv
BY DEF PersistenceInit, WireInv, AllRest, Resting, Halves

LEMMA WireStep ==
    ASSUME PersistenceAssumption, PersistenceTypeOK, WireInv, [PersistenceNext]_persistenceVars
    PROVE  WireInv'
<1>0. /\ wire \in Seq(Requests)
      /\ task \in [Tasks -> [phase : Phases, fill : 0..MaxFills]]
      /\ Halves = {"cash", "positions"} /\ Tasks = {"loop", "monitor", "listener"}
      /\ \A k \in DOMAIN wire : wire[k] \in Requests
  BY TypeFacts
<1>1. CASE UNCHANGED persistenceVars
  BY <1>1 DEF persistenceVars, WireInv
<1>2. CASE Serve
  <2>1. wire[1].task \in Tasks /\ wire[1].half \in Halves
    BY <1>2, Served DEF Requests
  <2>2. task[wire[1].task].phase = wire[1].half /\ \A k \in DOMAIN wire : wire[k].task = wire[1].task => k = 1
    BY <1>2, Served DEF WireInv
  <2>3. \A t \in Tasks : t # wire[1].task => task'[t] = task[t]
    BY <1>0, <1>2, Served
  <2>4. task'[wire[1].task].phase \notin Halves
    BY <1>0, <1>2, <2>1, Served
  <2>0. /\ DOMAIN wire' = 1..(Len(wire) - 1) /\ Len(wire) \in Nat /\ DOMAIN wire = 1..Len(wire)
        /\ \A k \in DOMAIN wire' : k + 1 \in DOMAIN wire /\ wire'[k] = wire[k + 1]
    BY <1>0, <1>2, Served
  <2>5. ASSUME NEW k \in DOMAIN wire'
        PROVE  /\ wire'[k] = wire[k + 1] /\ k + 1 \in DOMAIN wire
               /\ wire'[k].task \in Tasks \ {wire[1].task}
    <3>1. wire'[k] = wire[k + 1] /\ k + 1 \in DOMAIN wire /\ k + 1 # 1
      BY <2>0
    <3>2. wire[k + 1].task \in Tasks
      BY <1>0, <3>1 DEF Requests
    <3> QED BY <2>2, <3>1, <3>2
  <2>6. \A k \in DOMAIN wire' : task'[wire'[k].task].phase = wire'[k].half
    BY <2>3, <2>5 DEF WireInv
  <2>7. \A j, k \in DOMAIN wire' : wire'[j].task = wire'[k].task => j = k
    BY <1>2, <2>5, Served DEF WireInv
  <2>8. ASSUME NEW t \in Tasks, task'[t].phase \in Halves
        PROVE  \E k \in DOMAIN wire' : wire'[k].task = t
    <3>1. t # wire[1].task /\ task[t].phase \in Halves
      BY <2>3, <2>4, <2>8
    <3>2. PICK k \in DOMAIN wire : wire[k].task = t
      BY <3>1 DEF WireInv
    <3>3. k # 1
      BY <3>1, <3>2
    <3>4. k - 1 \in DOMAIN wire' /\ (k - 1) + 1 = k
      BY <2>0, <3>3
    <3> QED BY <2>0, <3>2, <3>4
  <2>9. mode # "down"
    BY <1>2, Served DEF WireInv
  <2>10. /\ mode \in {"starting", "ending"} => \A t \in Tasks \ {"loop"} : task'[t].phase = "rest"
         /\ mode \in {"up", "stopped"} => task'["listener"].phase = "rest"
    <3>1. task[wire[1].task].phase # "rest"
      BY <1>0, <2>1, <2>2
    <3> QED BY <1>0, <2>1, <2>3, <3>1 DEF WireInv
  <2> QED BY <1>2, <2>6, <2>7, <2>8, <2>9, <2>10, Served DEF WireInv
<1>3. ASSUME NEW t \in Tasks, NEW half \in Halves, NEW value \in 0..MaxFills,
             NEW fill \in 0..MaxFills, Send(t, half, value, fill),
             task[t].phase \notin Halves, mode' # "down",
             mode' \in {"starting", "ending"} => mode' = mode /\ t = "loop",
             mode' \in {"up", "stopped"} => mode' = mode /\ t # "listener"
      PROVE  WireInv'
  <2>0. /\ DOMAIN wire' = DOMAIN wire \cup {Len(wire) + 1} /\ Len(wire) \in Nat
        /\ Len(wire) + 1 \notin DOMAIN wire
        /\ \A k \in DOMAIN wire : wire'[k] = wire[k]
        /\ wire'[Len(wire) + 1] = [task |-> t, half |-> half, value |-> value]
        /\ task' = [task EXCEPT ![t] = [phase |-> half, fill |-> fill]]
    <3>1. Sends(t, half, value, fill)
      BY <1>3, Sent
    <3> QED BY <3>1 DEF Sends
  <2>1. \A k \in DOMAIN wire : wire[k].task # t /\ wire[k].task \in Tasks
    BY <1>0, <1>3 DEF WireInv, Requests
  <2>2. \A u \in Tasks : u # t => task'[u] = task[u]
    BY <1>0, <2>0
  <2>3. task'[t].phase = half
    BY <1>0, <2>0
  <2>4. \A k \in DOMAIN wire' : task'[wire'[k].task].phase = wire'[k].half
    BY <2>0, <2>1, <2>2, <2>3 DEF WireInv
  <2>5. \A j, k \in DOMAIN wire' : wire'[j].task = wire'[k].task => j = k
    BY <2>0, <2>1 DEF WireInv
  <2>6. ASSUME NEW u \in Tasks, task'[u].phase \in Halves
        PROVE  \E k \in DOMAIN wire' : wire'[k].task = u
    <3>1. CASE u = t
      BY <2>0, <3>1
    <3>2. CASE u # t
      BY <2>0, <2>2, <2>6, <3>2 DEF WireInv
    <3> QED BY <3>1, <3>2
  <2>7. /\ mode' \in {"starting", "ending"} => \A u \in Tasks \ {"loop"} : task'[u].phase = "rest"
        /\ mode' \in {"up", "stopped"} => task'["listener"].phase = "rest"
    BY <1>0, <1>3, <2>2 DEF WireInv
  <2> QED BY <1>3, <2>4, <2>5, <2>6, <2>7 DEF WireInv
<1>4. ASSUME NEW t \in Tasks, SavePositions(t) PROVE WireInv'
  <2>1. /\ Send(t, "positions", memory.positions, task[t].fill)
        /\ memory.positions \in 0..MaxFills /\ task[t].fill \in 0..MaxFills
        /\ task[t].phase = "cash_done" /\ mode' = mode /\ "positions" \in Halves
    BY <1>4, TypeFacts DEF SavePositions
  <2>2. mode # "down"
    BY <2>1 DEF WireInv, AllRest, Resting
  <2>3. /\ mode \in {"starting", "ending"} => t = "loop"
        /\ mode \in {"up", "stopped"} => t # "listener"
    BY <1>0, <2>1 DEF WireInv
  <2> QED BY <1>0, <1>3, <2>1, <2>2, <2>3
<1>5. ASSUME NEW t \in Tasks, Fill(t) PROVE WireInv'
  <2> DEFINE fill == IF mode = "up" THEN fills + 1 ELSE 0
  <2>1. /\ BeginSave(t, fills + 1, fill) /\ fills + 1 \in 0..MaxFills /\ fill \in 0..MaxFills
        /\ t \in {"loop", "monitor"} /\ task[t].phase \notin Halves
        /\ mode \in {"up", "stopping", "stopped"} /\ mode' = mode
    BY <1>5, TypeFacts DEF Fill, AtWork
  <2> HIDE DEF fill
  <2>2. CASE mode = "stopped"
    <3>1. wire' = wire /\ task' = [task EXCEPT ![t] = [phase |-> "done", fill |-> fill]]
      BY <2>1, <2>2 DEF BeginSave
    <3>2. task'[t].phase = "done" /\ \A u \in Tasks : u # t => task'[u] = task[u]
      BY <1>0, <3>1
    <3>3. \A k \in DOMAIN wire : wire[k].task \in Tasks \ {t}
      BY <1>0, <2>1 DEF WireInv, Requests
    <3> QED BY <1>0, <2>1, <2>2, <3>1, <3>2, <3>3 DEF WireInv
  <2>3. CASE mode # "stopped"
    BY <1>0, <1>3, <2>1, <2>3 DEF BeginSave
  <2> QED BY <2>2, <2>3
<1>6. ASSUME NEW t \in Tasks, WriteFails(t) PROVE WireInv'
  <2>1. PICK i \in DOMAIN wire : wire[i].task = t /\ wire' = RemoveAt(wire, i)
    BY <1>6 DEF WriteFails
  <2> DEFINE Old(k) == IF k < i THEN k ELSE k + 1
  <2>2. /\ DOMAIN wire' = 1..(Len(wire) - 1)
        /\ \A k \in DOMAIN wire' : Old(k) \in DOMAIN wire \ {i} /\ wire'[k] = wire[Old(k)]
    <3>1. wire \in Seq(Requests)
      BY <1>0
    <3>2. /\ DOMAIN RemoveAt(wire, i) = 1..(Len(wire) - 1)
          /\ \A k \in 1..(Len(wire) - 1) :
                Old(k) \in DOMAIN wire \ {i} /\ RemoveAt(wire, i)[k] = wire[Old(k)]
      BY <3>1, RemoveAtKeeps
    <3> QED BY <2>1, <3>2
  <2>3. \A u \in Tasks : u # t => task'[u] = task[u]
    BY <1>0, <1>6 DEF WriteFails
  <2>4. task'[t].phase = "done"
    <3>1. task' = [task EXCEPT ![t].phase = "done"]
      BY <1>6 DEF WriteFails
    <3> QED BY <1>0, <3>1
  <2>5. \A k \in DOMAIN wire \ {i} : wire[k].task \in Tasks \ {t}
    BY <1>0, <2>1 DEF WireInv, Requests
  <2>6. \A k \in DOMAIN wire' : task'[wire'[k].task].phase = wire'[k].half
    BY <2>2, <2>3, <2>5 DEF WireInv
  <2>7. \A j, k \in DOMAIN wire' : Old(j) = Old(k) => j = k
    BY <1>0, <2>1, <2>2
  <2>8. \A j, k \in DOMAIN wire' : wire'[j].task = wire'[k].task => j = k
    BY <2>2, <2>7 DEF WireInv
  <2>9. ASSUME NEW u \in Tasks, task'[u].phase \in Halves
        PROVE  \E k \in DOMAIN wire' : wire'[k].task = u
    <3>1. u # t /\ task[u].phase \in Halves
      BY <1>0, <2>3, <2>4, <2>9
    <3>2. PICK k \in DOMAIN wire : wire[k].task = u
      BY <3>1 DEF WireInv
    <3>3. k # i
      BY <2>1, <3>1, <3>2
    <3> DEFINE n == IF k < i THEN k ELSE k - 1
    <3>4. n \in DOMAIN wire' /\ Old(n) = k
      BY <1>0, <2>1, <2>2, <3>2, <3>3
    <3> QED BY <2>2, <3>2, <3>4
  <2>10. mode # "down" /\ mode' = mode
    BY <1>6, <2>1 DEF WireInv, WriteFails
  <2>11. /\ mode \in {"starting", "ending"} => \A u \in Tasks \ {"loop"} : task'[u].phase = "rest"
         /\ mode \in {"up", "stopped"} => task'["listener"].phase = "rest"
    <3>1. task[t].phase = wire[i].half /\ wire[i].half \in Halves
      BY <1>0, <2>1 DEF WireInv, Requests
    <3> QED BY <1>0, <2>3, <3>1 DEF WireInv
  <2> QED BY <2>6, <2>8, <2>9, <2>10, <2>11 DEF WireInv
<1>7. ASSUME NEW t \in Tasks, PublishFill(t) PROVE WireInv'
  <2>1. task[t].phase = "done" /\ task'[t].phase = "rest" /\ mode # "down" /\ mode' = mode /\ wire' = wire
        /\ \A u \in Tasks : u # t => task'[u] = task[u]
    BY <1>0, <1>7 DEF PublishFill, Resting, AtWork
  <2>2. \A k \in DOMAIN wire : wire[k].task \in Tasks \ {t}
    BY <1>0, <2>1 DEF WireInv, Requests
  <2> QED BY <1>0, <2>1, <2>2 DEF WireInv
<1>8. ASSUME NEW value \in 0..MaxFills, mode' # "down",
             wire' = <<[task |-> "loop", half |-> "cash", value |-> value]>>,
             task' = [AllRest EXCEPT !["loop"].phase = "cash"]
      PROVE  WireInv'
  BY <1>0, <1>8, LoopSends DEF WireInv
<1>9. CASE Connect
  <2>1. memory'.cash \in 0..MaxFills
    <3>1. CASE saved.cash = Absent
      BY <1>9, <3>1, TypeFacts DEF Connect, Whole
    <3>2. CASE saved.cash # Absent
      BY <1>9, <3>2, TypeFacts DEF Connect, Whole
    <3> QED BY <3>1, <3>2
  <2> QED BY <1>8, <1>9, <2>1 DEF Connect
<1>10. CASE Leave
  BY <1>8, <1>10, TypeFacts DEF Leave
<1>11. CASE Connected
  <2>1. task["loop"].phase = "done" /\ wire' = wire /\ task' = AllRest /\ mode' = "up"
        /\ \A t \in Tasks \ {"loop"} : task[t].phase = "rest"
    BY <1>11 DEF Connected, WireInv
  <2>2. wire = <<>>
    BY <1>0, <2>1 DEF WireInv, Requests
  <2> QED BY <1>0, <2>1, <2>2 DEF WireInv, AllRest, Resting
<1>12. CASE BeginOrder \/ OrderRefused
  <2>1. /\ wire' = wire /\ mode' = mode /\ mode \in {"up", "stopping", "stopped"}
        /\ task["loop"].phase \in {"rest", "latency"} /\ task'["loop"].phase \in {"rest", "latency"}
        /\ \A u \in Tasks : u # "loop" => task'[u] = task[u]
    BY <1>0, <1>12 DEF BeginOrder, OrderRefused, AtWork, Resting
  <2>2. \A k \in DOMAIN wire : wire[k].task \in Tasks \ {"loop"}
    BY <1>0, <2>1 DEF WireInv, Requests
  <2> QED BY <1>0, <2>1, <2>2 DEF WireInv
<1>13. CASE Stop
  <2>1. /\ Send("listener", "cash", memory.cash, 0) /\ memory.cash \in 0..MaxFills
        /\ 0 \in 0..MaxFills /\ mode' = "stopping" /\ task["listener"].phase = "rest"
    BY <1>13, TypeFacts DEF Stop, WireInv
  <2> QED BY <1>0, <1>3, <2>1
<1>14. CASE Disconnect
  <2>1. /\ wire' = wire /\ mode' = "stopped" /\ task["listener"].phase = "done"
        /\ task'["listener"].phase = "rest"
        /\ \A u \in Tasks : u # "listener" => task'[u] = task[u]
    BY <1>0, <1>14 DEF Disconnect, Resting
  <2>2. \A k \in DOMAIN wire : wire[k].task \in Tasks \ {"listener"}
    BY <1>0, <2>1 DEF WireInv, Requests
  <2> QED BY <1>0, <2>1, <2>2 DEF WireInv
<1>15. CASE Ended \/ Crash
  BY <1>0, <1>15 DEF Ended, Crash, Down, WireInv, AllRest, Resting
<1> QED BY <1>1, <1>2, <1>4, <1>5, <1>6, <1>7, <1>9, <1>10, <1>11, <1>12, <1>13, <1>14, <1>15
        DEF PersistenceNext

\* A task that forgets which fill it saves disturbs no order.
LEMMA OrderedRests ==
    ASSUME PersistenceTypeOK, Ordered, UNCHANGED <<wire, saved>>,
           memory' \in [Halves -> 0..MaxFills], fills' \in 0..MaxFills,
           \A h \in Halves : memory[h] <= memory'[h] /\ memory'[h] <= fills',
           \A u \in Tasks : task'[u].fill \in {0, task[u].fill}
    PROVE  Ordered'
<1>1. ASSUME NEW k \in DOMAIN wire PROVE task'[wire[k].task].fill <= wire[k].value
  <2>1. wire[k] \in Requests
    BY PersistenceAssumption, TypeFacts
  <2>2. wire[k].task \in Tasks /\ 0 <= wire[k].value
    BY <2>1, PersistenceAssumption DEF Requests
  <2>3. task[wire[k].task].fill <= wire[k].value
    BY DEF Ordered
  <2> QED BY <2>2, <2>3
<1>2. ASSUME NEW k \in DOMAIN wire PROVE wire[k].value <= memory'[wire[k].half]
  <2>1. wire[k] \in Requests /\ memory \in [Halves -> 0..MaxFills]
    BY PersistenceAssumption, TypeFacts
  <2>2. wire[k].half \in Halves /\ wire[k].value \in Int /\ wire[k].value <= memory[wire[k].half]
    BY <2>1 DEF Requests, Ordered
  <2> QED BY <2>1, <2>2
<1>3. ASSUME NEW h \in Halves PROVE saved[h] <= memory'[h]
  BY PersistenceAssumption, TypeFacts DEF Ordered
<1>4. UNCHANGED wire /\ UNCHANGED saved
  OBVIOUS
<1> QED BY <1>1, <1>2, <1>3, <1>4 DEF Ordered

\* What a save has sent is never older than what is saved, nor newer than memory.
LEMMA OrderedStep ==
    ASSUME PersistenceAssumption, PersistenceTypeOK, WireInv, Ordered, Covered, ~refused',
           [PersistenceNext]_persistenceVars
    PROVE  Ordered'
<1>0. /\ wire \in Seq(Requests) /\ MaxFills \in Nat
      /\ task \in [Tasks -> [phase : Phases, fill : 0..MaxFills]]
      /\ memory \in [Halves -> 0..MaxFills] /\ saved \in [Halves -> -1..MaxFills]
      /\ fills \in 0..MaxFills /\ Absent = -1
      /\ Halves = {"cash", "positions"} /\ Tasks = {"loop", "monitor", "listener"}
  BY TypeFacts
<1>r. \A k \in DOMAIN wire : /\ wire[k].task \in Tasks /\ wire[k].half \in Halves
                             /\ wire[k].value \in 0..MaxFills
  <2>1. \A k \in DOMAIN wire : wire[k] \in Requests
    BY <1>0
  <2> QED BY <2>1 DEF Requests
<1>1. CASE UNCHANGED persistenceVars
  BY <1>1 DEF persistenceVars, Ordered
<1>2. CASE Serve
  <2> DEFINE r == wire[1]
  <2>0. /\ DOMAIN wire' = 1..(Len(wire) - 1) /\ Len(wire) \in Nat /\ DOMAIN wire = 1..Len(wire)
        /\ 1 \in DOMAIN wire
        /\ \A k \in DOMAIN wire' : k + 1 \in DOMAIN wire /\ wire'[k] = wire[k + 1]
        /\ saved' = [saved EXCEPT ![r.half] = r.value] /\ memory' = memory /\ fills' = fills
    BY <1>0, <1>2, Served
  <2>1. \A t \in Tasks : task'[t].fill = task[t].fill
    BY <1>0, <1>2, Served
  <2>2. r.half \in Halves /\ r.value \in 0..MaxFills /\ r.task \in Tasks
        /\ r.value <= memory[r.half] /\ saved[r.half] <= r.value
    BY <1>r, <2>0 DEF Ordered
  <2>3. ASSUME NEW k \in DOMAIN wire'
        PROVE  /\ saved'[wire'[k].half] <= wire'[k].value
               /\ wire'[k].value <= memory'[wire'[k].half]
               /\ task'[wire'[k].task].fill <= wire'[k].value
    <3>1. wire'[k] = wire[k + 1] /\ k + 1 \in DOMAIN wire /\ 1 < k + 1
      BY <2>0
    <3>2. /\ saved[wire[k + 1].half] <= wire[k + 1].value
          /\ wire[k + 1].value <= memory[wire[k + 1].half]
          /\ task[wire[k + 1].task].fill <= wire[k + 1].value
          /\ wire[k + 1].half = r.half => r.value <= wire[k + 1].value
      BY <2>0, <3>1 DEF Ordered
    <3>3. wire[k + 1].half \in Halves /\ wire[k + 1].task \in Tasks
      BY <1>r, <3>1
    <3> QED BY <1>0, <2>0, <2>1, <2>2, <3>1, <3>2, <3>3
  <2>4. ASSUME NEW j \in DOMAIN wire', NEW k \in DOMAIN wire', j < k, wire'[j].half = wire'[k].half
        PROVE  wire'[j].value <= wire'[k].value
    BY <2>0, <2>4 DEF Ordered
  <2>5. \A h \in Halves : saved'[h] <= memory'[h] /\ memory'[h] <= fills'
    BY <1>0, <2>0, <2>2 DEF Ordered
  <2>6. r.half = "positions" => saved["cash"] # Absent
    <3>1. task[r.task].phase = r.half /\ task[r.task].fill \in 0..MaxFills
      BY <1>0, <2>0, <2>2 DEF WireInv
    <3> QED BY <1>0, <2>2, <3>1 DEF Covered
  <2>7. saved'.cash = Absent => saved'.positions = Absent
    BY <1>0, <2>0, <2>2, <2>6 DEF Ordered
  <2> QED BY <2>3, <2>4, <2>5, <2>7 DEF Ordered
<1>3. ASSUME NEW t \in Tasks, NEW half \in Halves, NEW value \in 0..MaxFills,
             NEW fill \in 0..MaxFills, Send(t, half, value, fill), saved' = saved,
             memory' \in [Halves -> 0..MaxFills], fills' \in 0..MaxFills,
             \A h \in Halves : memory[h] <= memory'[h] /\ memory'[h] <= fills',
             value = memory'[half], fill <= value, task[t].phase \notin Halves
      PROVE  Ordered'
  <2>0. /\ DOMAIN wire' = DOMAIN wire \cup {Len(wire) + 1} /\ Len(wire) \in Nat
        /\ DOMAIN wire = 1..Len(wire)
        /\ \A k \in DOMAIN wire : wire'[k] = wire[k]
        /\ wire'[Len(wire) + 1] = [task |-> t, half |-> half, value |-> value]
        /\ task' = [task EXCEPT ![t] = [phase |-> half, fill |-> fill]]
    <3>1. Sends(t, half, value, fill)
      BY <1>3, Sent
    <3> QED BY <3>1 DEF Sends
  <2>1. \A h \in Halves : saved[h] <= memory'[h]
    BY <1>0, <1>3 DEF Ordered
  <2>m. \A h \in Halves : memory[h] \in Int /\ memory'[h] \in Int /\ memory[h] <= memory'[h]
    BY <1>0, <1>3
  <2>t. task'[t].fill = fill /\ \A u \in Tasks : u # t => task'[u] = task[u]
    BY <1>0, <2>0
  <2>2. ASSUME NEW k \in DOMAIN wire'
        PROVE  /\ saved'[wire'[k].half] <= wire'[k].value
               /\ wire'[k].value <= memory'[wire'[k].half]
               /\ task'[wire'[k].task].fill <= wire'[k].value
    <3>1. CASE k \in DOMAIN wire
      <4>1. wire'[k] = wire[k] /\ wire[k].half \in Halves /\ wire[k].task \in Tasks
            /\ wire[k].value \in 0..MaxFills
        BY <1>r, <2>0, <3>1
      <4>2. wire[k].task # t
        BY <1>3, <3>1, <4>1 DEF WireInv
      <4>3. /\ saved[wire[k].half] <= wire[k].value
            /\ wire[k].value <= memory[wire[k].half]
            /\ task[wire[k].task].fill <= wire[k].value
        BY <3>1 DEF Ordered
      <4>4. memory[wire[k].half] \in Int /\ memory'[wire[k].half] \in Int
            /\ memory[wire[k].half] <= memory'[wire[k].half]
        BY <2>m, <4>1
      <4>5. task'[wire[k].task] = task[wire[k].task]
        BY <2>t, <4>1, <4>2
      <4>6. wire[k].value <= memory'[wire[k].half]
        BY <4>1, <4>3, <4>4
      <4> QED BY <1>3, <4>1, <4>3, <4>5, <4>6
    <3>2. CASE k = Len(wire) + 1
      <4>1. wire'[k] = [task |-> t, half |-> half, value |-> value]
        BY <2>0, <3>2
      <4>2. wire'[k].task = t /\ wire'[k].half = half /\ wire'[k].value = value
        BY <4>1
      <4>3. saved'[half] <= value /\ value <= memory'[half] /\ task'[t].fill <= value
        BY <1>0, <1>3, <2>1, <2>t
      <4> QED BY <4>2, <4>3
    <3> QED BY <2>0, <3>1, <3>2
  <2>3. ASSUME NEW j \in DOMAIN wire', NEW k \in DOMAIN wire', j < k, wire'[j].half = wire'[k].half
        PROVE  wire'[j].value <= wire'[k].value
    <3>1. j \in DOMAIN wire /\ wire'[j] = wire[j]
      BY <2>0, <2>3
    <3>2. CASE k \in DOMAIN wire
      BY <2>0, <2>3, <3>1, <3>2 DEF Ordered
    <3>3. CASE k = Len(wire) + 1
      BY <1>3, <2>0, <2>2, <2>3, <3>1, <3>3
    <3> QED BY <2>0, <3>2, <3>3
  <2> QED BY <1>3, <2>1, <2>2, <2>3 DEF Ordered
<1>4. ASSUME NEW t \in Tasks, SavePositions(t) PROVE Ordered'
  <2>1. /\ Send(t, "positions", memory.positions, task[t].fill)
        /\ task[t].phase = "cash_done" /\ "positions" \in Halves
        /\ saved' = saved /\ memory' = memory /\ fills' = fills
    BY <1>0, <1>4 DEF SavePositions
  <2>2. memory.positions \in 0..MaxFills /\ task[t].fill \in 0..MaxFills
        /\ task[t].phase \notin Halves
    BY <1>0, <2>1
  <2>3. task[t].fill <= memory["positions"]
    BY <1>0 DEF Covered
  <2>4. \A h \in Halves : memory[h] <= memory[h] /\ memory[h] <= fills
    BY <1>0 DEF Ordered
  <2> QED BY <1>0, <1>3, <2>1, <2>2, <2>3, <2>4
<1>k. \A h \in Halves : memory[h] <= memory[h] /\ memory[h] <= fills
  BY <1>0 DEF Ordered
<1>5. ASSUME NEW t \in Tasks, Fill(t) PROVE Ordered'
  <2> DEFINE fill == IF mode = "up" THEN fills + 1 ELSE 0
  <2>1. /\ BeginSave(t, fills + 1, fill) /\ fills + 1 \in 0..MaxFills
        /\ task[t].phase \notin Halves /\ "cash" \in Halves
        /\ fill \in 0..MaxFills /\ fill <= fills + 1 /\ (mode = "stopped" => fill = 0)
        /\ saved' = saved /\ memory' = [h \in Halves |-> fills + 1] /\ fills' = fills + 1
    BY <1>0, <1>5 DEF Fill, Whole
  <2> HIDE DEF fill
  <2>2. \A h \in Halves : memory[h] <= fills + 1
    BY <1>0 DEF Ordered
  <2>3. /\ memory' \in [Halves -> 0..MaxFills] /\ memory'["cash"] = fills + 1
        /\ \A h \in Halves : memory[h] <= memory'[h] /\ memory'[h] <= fills'
        /\ fills' \in 0..MaxFills
    BY <1>0, <2>1, <2>2
  <2>4. CASE mode = "stopped"
    <3>1. UNCHANGED <<wire, saved>> /\ task' = [task EXCEPT ![t] = [phase |-> "done", fill |-> 0]]
      BY <2>1, <2>4 DEF BeginSave
    <3>2. \A u \in Tasks : task'[u].fill \in {0, task[u].fill}
      BY <1>0, <3>1
    <3> QED BY <2>3, <3>1, <3>2, OrderedRests
  <2>5. CASE mode # "stopped"
    <3>1. Send(t, "cash", fills + 1, fill)
      BY <2>1, <2>5 DEF BeginSave
    <3> QED BY <1>3, <2>1, <2>3, <3>1
  <2> QED BY <2>4, <2>5
<1>6. ASSUME NEW t \in Tasks, WriteFails(t) PROVE Ordered'
  <2>1. PICK i \in DOMAIN wire : wire[i].task = t /\ wire' = RemoveAt(wire, i)
    BY <1>6 DEF WriteFails
  <2> DEFINE Old(k) == IF k < i THEN k ELSE k + 1
  <2>2. /\ DOMAIN wire' = 1..(Len(wire) - 1)
        /\ \A k \in DOMAIN wire' : Old(k) \in DOMAIN wire \ {i} /\ wire'[k] = wire[Old(k)]
    <3> HIDE DEF Old
    <3>1. DOMAIN RemoveAt(wire, i) = 1..(Len(wire) - 1)
      BY <1>0, RemoveAtKeeps
    <3>2. \A k \in 1..(Len(wire) - 1) :
             /\ Old(k) \in DOMAIN wire \ {i} /\ RemoveAt(wire, i)[k] = wire[Old(k)]
      BY <1>0, RemoveAtKeeps DEF Old
    <3> QED BY <2>1, <3>1, <3>2
  <2>3. \A j, k \in DOMAIN wire' : j < k => Old(j) < Old(k)
    BY <1>0, <2>1, <2>2
  <2>4. \A u \in Tasks : task'[u].fill = task[u].fill
    BY <1>0, <1>6 DEF WriteFails
  <2>5. saved' = saved /\ memory' = memory /\ fills' = fills
    BY <1>6 DEF WriteFails
  <2> HIDE DEF Old
  <2> QED BY <1>r, <2>2, <2>3, <2>4, <2>5 DEF Ordered
<1>7. ASSUME NEW t \in Tasks, PublishFill(t) PROVE Ordered'
  <2>1. \A u \in Tasks : task'[u].fill \in {0, task[u].fill}
    <3>1. task' = [task EXCEPT ![t] = Resting]
      BY <1>7 DEF PublishFill
    <3> QED BY <1>0, <3>1, PublishTask
  <2>2. UNCHANGED <<wire, saved, memory, fills>>
    BY <1>7 DEF PublishFill
  <2> QED BY <1>0, <1>k, <2>1, <2>2, OrderedRests
<1>8. ASSUME NEW value \in 0..MaxFills,
             wire' = <<[task |-> "loop", half |-> "cash", value |-> value]>>,
             task' = [AllRest EXCEPT !["loop"].phase = "cash"],
             value = memory'.cash, saved' = saved, fills' = fills,
             \A h \in Halves : saved[h] <= memory'[h] /\ memory'[h] <= fills
      PROVE  Ordered'
  <2>1. /\ DOMAIN wire' = {1} /\ wire'[1].task = "loop" /\ wire'[1].half = "cash"
        /\ wire'[1].value = value /\ \A t \in Tasks : task'[t].fill = 0
    BY <1>8, LoopSends
  <2> QED BY <1>0, <1>8, <2>1 DEF Ordered
<1>9. CASE Connect
  <2>1. /\ memory' = IF saved.cash = Absent THEN Whole(0)
                     ELSE [saved EXCEPT !.positions = IF @ = Absent THEN 0 ELSE @]
        /\ saved' = saved /\ fills' = fills
        /\ wire' = <<[task |-> "loop", half |-> "cash", value |-> memory'.cash]>>
        /\ task' = [AllRest EXCEPT !["loop"].phase = "cash"]
    BY <1>9 DEF Connect
  <2>2. \A h \in Halves : saved[h] <= fills /\ saved[h] \in -1..MaxFills /\ 0 <= fills
    BY <1>0 DEF Ordered
  <2>3. /\ memory'.cash \in 0..MaxFills
        /\ \A h \in Halves : saved[h] <= memory'[h] /\ memory'[h] <= fills
    <3>1. CASE saved.cash = Absent
      BY <1>0, <2>1, <2>2, <3>1 DEF Whole, Ordered
    <3>2. CASE saved.cash # Absent
      BY <1>0, <2>1, <2>2, <3>2
    <3> QED BY <3>1, <3>2
  <2> QED BY <1>8, <2>1, <2>3
<1>10. CASE Leave
  <2>1. /\ UNCHANGED <<memory, saved, fills>> /\ memory.cash \in 0..MaxFills
        /\ wire' = <<[task |-> "loop", half |-> "cash", value |-> memory.cash]>>
        /\ task' = [AllRest EXCEPT !["loop"].phase = "cash"]
    BY <1>0, <1>10 DEF Leave
  <2>2. \A h \in Halves : saved[h] <= memory'[h] /\ memory'[h] <= fills'
    BY <2>1 DEF Ordered
  <2> QED BY <1>8, <2>1, <2>2
<1>11. CASE Connected \/ BeginOrder \/ OrderRefused \/ Disconnect
  <2>1. UNCHANGED <<wire, saved, memory, fills>>
    BY <1>11 DEF Connected, BeginOrder, OrderRefused, Disconnect
  <2>2. \A u \in Tasks : task'[u].fill \in {0, task[u].fill}
    <3>1. CASE Connected
      BY <3>1, AllRestFacts DEF Connected
    <3>2. CASE BeginOrder \/ OrderRefused \/ Disconnect
      BY <1>0, <3>2 DEF BeginOrder, OrderRefused, Disconnect, Resting
    <3> QED BY <1>11, <3>1, <3>2
  <2> QED BY <1>0, <1>k, <2>1, <2>2, OrderedRests
<1>12. CASE Stop
  <2>1. /\ Send("listener", "cash", memory.cash, 0) /\ memory.cash \in 0..MaxFills
        /\ 0 \in 0..MaxFills /\ 0 <= memory.cash /\ task["listener"].phase \notin Halves
        /\ saved' = saved /\ memory' = memory /\ fills' = fills
    BY <1>0, <1>12 DEF Stop, WireInv
  <2> QED BY <1>0, <1>k, <1>3, <2>1
<1>13. CASE Ended \/ Crash
  BY <1>0, <1>13 DEF Ended, Crash, Down, Ordered
<1> QED BY <1>1, <1>2, <1>4, <1>5, <1>6, <1>7, <1>9, <1>10, <1>11, <1>12, <1>13 DEF PersistenceNext

\* What has been published is saved, and so is what a save says it has written.
LEMMA CoveredStep ==
    ASSUME PersistenceAssumption, PersistenceTypeOK, WireInv, Ordered, Covered, StopSaves,
           ~refused', [PersistenceNext]_persistenceVars
    PROVE  Covered'
<1>0. /\ MaxFills \in Nat
      /\ task \in [Tasks -> [phase : Phases, fill : 0..MaxFills]]
      /\ memory \in [Halves -> 0..MaxFills] /\ saved \in [Halves -> -1..MaxFills]
      /\ fills \in 0..MaxFills /\ published \in 0..MaxFills /\ Absent = -1
      /\ Halves = {"cash", "positions"} /\ Tasks = {"loop", "monitor", "listener"}
  BY TypeFacts
<1>1. CASE UNCHANGED persistenceVars
  BY <1>1 DEF persistenceVars, Covered
<1>2. CASE Serve
  <2> DEFINE r == wire[1]
  <2>0. /\ r \in Requests /\ 1 \in DOMAIN wire
        /\ saved' = [saved EXCEPT ![r.half] = r.value] /\ memory' = memory /\ published' = published
        /\ task' = [task EXCEPT ![r.task] =
                       [phase |-> IF r.half = "cash" THEN "cash_done" ELSE "done",
                        fill |-> task[r.task].fill]]
    BY <1>2, Served
  <2>1. r.half \in Halves /\ r.value \in 0..MaxFills /\ r.task \in Tasks
    BY <2>0 DEF Requests
  <2>2. /\ saved[r.half] <= r.value /\ task[r.task].fill <= r.value
        /\ task[r.task].phase = r.half
    BY <2>0 DEF Ordered, WireInv
  <2> HIDE DEF r
  <2>3. \A h \in Halves : saved[h] <= saved'[h] /\ saved'[h] \in -1..MaxFills
    BY <1>0, <2>0, <2>1, <2>2
  <2>4. \A h \in Halves : published' = 0 \/ published' <= saved'[h]
    BY <1>0, <2>0, <2>3 DEF Covered
  <2>5. ASSUME NEW t \in Tasks
        PROVE  /\ \A h \in Halves : task'[t].fill <= memory'[h]
               /\ task'[t].phase \in {"cash_done", "positions", "done"} => task'[t].fill <= saved'.cash
               /\ task'[t].phase = "done" => task'[t].fill <= saved'.positions
    <3>1. task'[t].fill = task[t].fill /\ task[t].fill \in 0..MaxFills
      BY <1>0, <2>0
    <3>2. CASE t # r.task
      <4>1. task'[t] = task[t]
        BY <1>0, <2>0, <3>2
      <4> QED BY <1>0, <2>0, <2>3, <3>1, <4>1 DEF Covered
    <3>3. CASE t = r.task /\ r.half = "cash"
      BY <1>0, <2>0, <2>1, <2>2, <3>1, <3>3 DEF Covered
    <3>4. CASE t = r.task /\ r.half = "positions"
      <4>1. task[t].fill <= saved.cash
        BY <2>2, <3>4 DEF Covered
      <4> QED BY <1>0, <2>0, <2>1, <2>2, <2>3, <3>1, <3>4, <4>1 DEF Covered
    <3> QED BY <1>0, <2>1, <3>2, <3>3, <3>4
  <2> QED BY <2>4, <2>5 DEF Covered
<1>3. ASSUME NEW t \in Tasks, SavePositions(t) PROVE Covered'
  <2>1. /\ UNCHANGED <<saved, memory, published>> /\ task[t].phase = "cash_done"
        /\ task' = [task EXCEPT ![t] = [phase |-> "positions", fill |-> task[t].fill]]
    BY <1>3 DEF SavePositions, Send
  <2> QED BY <1>0, <2>1 DEF Covered
<1>4. ASSUME NEW t \in Tasks, Fill(t) PROVE Covered'
  <2> DEFINE fill == IF mode = "up" THEN fills + 1 ELSE 0
  <2>1. /\ UNCHANGED <<saved, published>> /\ memory' = [h \in Halves |-> fills + 1]
        /\ BeginSave(t, fills + 1, fill) /\ 0 <= fill /\ fill <= fills + 1
        /\ (mode = "stopped" => fill = 0)
    BY <1>0, <1>4 DEF Fill, Whole
  <2> HIDE DEF fill
  <2>2. \A u \in Tasks : task[u].fill <= fills
    BY <1>0 DEF Covered, Ordered
  <2>3. CASE mode = "stopped"
    <3>1. task' = [task EXCEPT ![t] = [phase |-> "done", fill |-> 0]]
      BY <2>1, <2>3 DEF BeginSave
    <3>2. \A h \in Halves : 0 <= saved[h]
      BY <1>0, <2>3 DEF StopSaves
    <3> QED BY <1>0, <2>1, <2>2, <3>1, <3>2 DEF Covered
  <2>4. CASE mode # "stopped"
    <3>1. task' = [task EXCEPT ![t] = [phase |-> "cash", fill |-> fill]]
      BY <2>1, <2>4 DEF BeginSave, Send
    <3> QED BY <1>0, <2>1, <2>2, <3>1 DEF Covered
  <2> QED BY <2>3, <2>4
<1>5. ASSUME NEW t \in Tasks, WriteFails(t) PROVE Covered'
  <2>1. /\ UNCHANGED <<saved, memory, published>> /\ mode = "stopped"
        /\ task' = [task EXCEPT ![t] = [phase |-> "done", fill |-> task[t].fill]]
    BY <1>0, <1>5, PhaseStep DEF WriteFails, Phases
  <2>2. \A h \in Halves : task[t].fill <= saved[h]
    BY <2>1 DEF StopSaves
  <2> QED BY <1>0, <2>1, <2>2 DEF Covered
<1>6. ASSUME NEW t \in Tasks, PublishFill(t) PROVE Covered'
  <2>1. /\ UNCHANGED <<saved, memory>> /\ task[t].phase = "done"
        /\ published' \in {published, task[t].fill}
        /\ task' = [task EXCEPT ![t] = [phase |-> "rest", fill |-> 0]]
    BY <1>6 DEF PublishFill, Resting, Latest
  <2>2. \A h \in Halves : task[t].fill <= saved[h]
    BY <1>0, <2>1 DEF Covered
  <2>3. \A h \in Halves : published' = 0 \/ published' <= saved'[h]
    BY <2>1, <2>2 DEF Covered
  <2>4. \A h \in Halves : 0 <= memory[h]
    BY <1>0
  <2> QED BY <1>0, <2>1, <2>3, <2>4 DEF Covered
<1>7. ASSUME saved' = saved, published' = published, \A h \in Halves : 0 <= memory'[h],
             \A t \in Tasks : task'[t].fill = 0 /\ task'[t].phase \in {"rest", "cash"}
      PROVE  Covered'
  BY <1>0, <1>7 DEF Covered
<1>8. task' = [AllRest EXCEPT !["loop"].phase = "cash"] \/ task' = AllRest =>
      \A t \in Tasks : task'[t].fill = 0 /\ task'[t].phase \in {"rest", "cash"}
  BY <1>0 DEF AllRest, Resting
<1>9. CASE Connect
  <2>1. /\ memory' = IF saved.cash = Absent THEN Whole(0)
                     ELSE [saved EXCEPT !.positions = IF @ = Absent THEN 0 ELSE @]
        /\ UNCHANGED <<saved, published>>
        /\ task' = [AllRest EXCEPT !["loop"].phase = "cash"]
    BY <1>9 DEF Connect
  <2>2. \A h \in Halves : 0 <= memory'[h]
    <3>1. CASE saved.cash = Absent
      BY <1>0, <2>1, <3>1 DEF Whole
    <3>2. CASE saved.cash # Absent
      BY <1>0, <2>1, <3>2
    <3> QED BY <3>1, <3>2
  <2> QED BY <1>7, <1>8, <2>1, <2>2
<1>10. CASE Leave \/ Connected \/ Ended \/ Crash
  <2>1. UNCHANGED <<memory, saved, published>> /\ \A h \in Halves : 0 <= memory[h]
    BY <1>0, <1>10 DEF Leave, Connected, Ended, Crash, Down
  <2>2. task' = [AllRest EXCEPT !["loop"].phase = "cash"] \/ task' = AllRest
    BY <1>10 DEF Leave, Connected, Ended, Crash, Down
  <2> QED BY <1>7, <1>8, <2>1, <2>2
<1>11. CASE BeginOrder \/ OrderRefused \/ Disconnect
  <2>1. /\ UNCHANGED <<memory, saved, published>> /\ \A h \in Halves : 0 <= memory[h]
        /\ \A t \in Tasks : \/ task'[t] = task[t]
                            \/ task'[t].phase = "rest" /\ task'[t].fill = 0
                            \/ task'[t].phase = "latency" /\ task'[t].fill = task[t].fill
    BY <1>0, <1>11 DEF BeginOrder, OrderRefused, Disconnect, Resting
  <2> QED BY <1>0, <2>1 DEF Covered
<1>12. CASE Stop
  <2>1. /\ UNCHANGED <<memory, saved, published>> /\ \A h \in Halves : 0 <= memory[h]
        /\ task' = [task EXCEPT !["listener"] = [phase |-> "cash", fill |-> 0]]
    BY <1>0, <1>12 DEF Stop, Send
  <2> QED BY <1>0, <2>1 DEF Covered
<1> QED BY <1>1, <1>2, <1>3, <1>4, <1>5, <1>6, <1>9, <1>10, <1>11, <1>12 DEF PersistenceNext

\* While the listener saves, what it has written or is writing is no older than any fill
\* that counts; once it has disconnected the bus, all of those are saved.
LEMMA StopStep ==
    ASSUME PersistenceAssumption, PersistenceTypeOK, WireInv, Ordered, Covered, StopSaves,
           ~refused', [PersistenceNext]_persistenceVars
    PROVE  StopSaves'
<1>0. /\ wire \in Seq(Requests) /\ MaxFills \in Nat
      /\ task \in [Tasks -> [phase : Phases, fill : 0..MaxFills]]
      /\ memory \in [Halves -> 0..MaxFills] /\ saved \in [Halves -> -1..MaxFills]
      /\ fills \in 0..MaxFills
      /\ Halves = {"cash", "positions"} /\ Tasks = {"loop", "monitor", "listener"}
  BY TypeFacts
<1>r. \A k \in DOMAIN wire : /\ wire[k].task \in Tasks /\ wire[k].half \in Halves
                             /\ wire[k].value \in 0..MaxFills
  <2>1. \A k \in DOMAIN wire : wire[k] \in Requests
    BY <1>0
  <2> QED BY <2>1 DEF Requests
\* Other tasks: their fills stay or no longer count, the listener's save is where it was.
<1>a. ASSUME mode' = mode, task'["listener"] = task["listener"],
             \A t \in Tasks : task'[t].fill \in {0, task[t].fill},
             \A k \in DOMAIN wire' : wire'[k].task = "listener" =>
                 \E j \in DOMAIN wire : wire'[k] = wire[j],
             \A h \in Halves : saved[h] <= saved'[h] /\ saved'[h] \in Int
      PROVE  StopSaves'
  <2>1. ASSUME NEW t \in Tasks, NEW n \in Int, task[t].fill <= n PROVE task'[t].fill <= n
    <3>1. task[t].fill \in Nat /\ task'[t].fill \in {0, task[t].fill}
      BY <1>0, <1>a
    <3> QED BY <2>1, <3>1
  <2>2. ASSUME NEW t \in Tasks, NEW h \in Halves, task[t].fill <= saved[h]
        PROVE  task'[t].fill <= saved'[h]
    <3>1. saved[h] \in Int /\ saved'[h] \in Int /\ saved[h] <= saved'[h] /\ task[t].fill \in Int
      BY <1>0, <1>a
    <3>2. task[t].fill <= saved'[h]
      BY <2>2, <3>1
    <3> QED BY <2>1, <3>1, <3>2
  <2>3. ASSUME mode = "stopping", NEW k \in DOMAIN wire', wire'[k].task = "listener", NEW t \in Tasks
        PROVE  task'[t].fill <= wire'[k].value
    <3>1. PICK j \in DOMAIN wire : wire'[k] = wire[j]
      BY <1>a, <2>3
    <3>2. task[t].fill <= wire[j].value /\ wire[j].value \in Int
      BY <1>r, <2>3, <3>1 DEF StopSaves
    <3> QED BY <2>1, <3>1, <3>2
  <2>4. "cash" \in Halves /\ "positions" \in Halves
    BY <1>0
  <2> QED BY <1>a, <2>2, <2>3, <2>4 DEF StopSaves
<1>b. ASSUME mode' \notin {"stopping", "stopped"} PROVE StopSaves'
  BY <1>b DEF StopSaves
<1>c. \A h \in Halves : saved[h] <= saved[h] /\ saved[h] \in Int
  BY <1>0
<1>1. CASE UNCHANGED persistenceVars
  BY <1>1 DEF persistenceVars, StopSaves
<1>2. CASE Serve
  <2> DEFINE r == wire[1]
  <2>0. /\ r \in Requests /\ 1 \in DOMAIN wire
        /\ \A k \in DOMAIN wire' : k + 1 \in DOMAIN wire /\ wire'[k] = wire[k + 1]
        /\ saved' = [saved EXCEPT ![r.half] = r.value] /\ mode' = mode
        /\ task' = [task EXCEPT ![r.task] =
                       [phase |-> IF r.half = "cash" THEN "cash_done" ELSE "done",
                        fill |-> task[r.task].fill]]
    BY <1>2, Served
  <2>1. r.half \in Halves /\ r.value \in 0..MaxFills /\ r.task \in Tasks
    BY <2>0 DEF Requests
  <2>2. saved[r.half] <= r.value /\ task[r.task].phase = r.half
    BY <2>0 DEF Ordered, WireInv
  <2>3. \A k \in DOMAIN wire' : \E j \in DOMAIN wire : wire'[k] = wire[j]
    BY <2>0
  <2>4. mode = "stopping" /\ r.task = "listener" => \A t \in Tasks : task[t].fill <= r.value
    BY <2>0 DEF StopSaves
  <2>9. \A j, k \in DOMAIN wire : wire[j].task = wire[k].task => j = k
    BY DEF WireInv
  <2>10. \A k \in DOMAIN wire' : wire'[k].task # r.task
    <3> SUFFICES ASSUME NEW k \in DOMAIN wire', wire'[k].task = r.task PROVE FALSE
      OBVIOUS
    <3>1. k + 1 \in DOMAIN wire /\ wire'[k] = wire[k + 1] /\ k + 1 = 1
      BY <2>0, <2>9
    <3>2. k \in Nat \ {0}
      BY <1>2, Served
    <3> QED BY <3>1, <3>2
  <2> HIDE DEF r
  <2>5. \A h \in Halves : saved[h] <= saved'[h] /\ saved'[h] \in Int
    BY <1>0, <2>0, <2>1, <2>2
  <2>6. \A t \in Tasks : task'[t].fill = task[t].fill /\ task[t].fill \in Int
    BY <1>0, <2>0
  <2>7. CASE r.task # "listener"
    <3>1. task'["listener"] = task["listener"]
      BY <1>0, <2>0, <2>7
    <3> QED BY <1>a, <2>0, <2>3, <2>5, <2>6, <3>1
  <2>8. CASE r.task = "listener"
    <3>1. mode \notin {"up", "stopped"}
      BY <1>0, <2>1, <2>2, <2>8 DEF WireInv
    <3>2. task'["listener"].phase = (IF r.half = "cash" THEN "cash_done" ELSE "done")
      BY <1>0, <2>0, <2>8
    <3>3. CASE mode = "stopping" /\ r.half = "cash"
      <4>1. \A t \in Tasks : task'[t].fill <= saved'.cash
        BY <1>0, <2>0, <2>4, <2>6, <2>8, <3>3
      <4> QED BY <2>0, <2>8, <2>10, <3>2, <3>3, <4>1 DEF StopSaves
    <3>4. CASE mode = "stopping" /\ r.half = "positions"
      <4>1. \A t \in Tasks : task'[t].fill <= saved'.positions
        BY <1>0, <2>0, <2>4, <2>6, <2>8, <3>4
      <4>2. \A t \in Tasks : task[t].fill <= saved.cash
        BY <2>2, <2>8, <3>4 DEF StopSaves
      <4>3. \A t \in Tasks : task'[t].fill <= saved'.cash
        BY <1>0, <2>5, <2>6, <4>2
      <4> QED BY <2>0, <2>8, <2>10, <3>2, <3>4, <4>1, <4>3 DEF StopSaves
    <3> QED BY <1>0, <1>b, <2>0, <2>1, <3>1, <3>3, <3>4
  <2> QED BY <2>7, <2>8
<1>s. ASSUME NEW t \in Tasks, NEW half \in Halves, NEW value \in 0..MaxFills,
             NEW fill \in 0..MaxFills, Send(t, half, value, fill), t # "listener",
             fill \in {0, task[t].fill}, saved' = saved, mode' = mode
      PROVE  StopSaves'
  <2>1. /\ DOMAIN wire' = DOMAIN wire \cup {Len(wire) + 1}
        /\ \A k \in DOMAIN wire : wire'[k] = wire[k]
        /\ wire'[Len(wire) + 1] = [task |-> t, half |-> half, value |-> value]
        /\ task' = [task EXCEPT ![t] = [phase |-> half, fill |-> fill]]
    <3>1. Sends(t, half, value, fill)
      BY <1>s, Sent
    <3> QED BY <3>1 DEF Sends
  <2>2. task'["listener"] = task["listener"] /\ \A u \in Tasks : task'[u].fill \in {0, task[u].fill}
    BY <1>0, <1>s, <2>1
  <2>3. ASSUME NEW k \in DOMAIN wire', wire'[k].task = "listener"
        PROVE  \E j \in DOMAIN wire : wire'[k] = wire[j]
    BY <1>s, <2>1, <2>3
  <2> QED BY <1>a, <1>c, <1>s, <2>2, <2>3
<1>3. ASSUME NEW t \in Tasks, SavePositions(t) PROVE StopSaves'
  <2>1. /\ Send(t, "positions", memory.positions, task[t].fill) /\ "positions" \in Halves
        /\ saved' = saved /\ mode' = mode /\ task[t].phase = "cash_done"
        /\ memory.positions \in 0..MaxFills /\ task[t].fill \in 0..MaxFills
    BY <1>0, <1>3 DEF SavePositions
  <2>2. CASE t # "listener"
    BY <1>s, <2>1, <2>2
  <2>3. CASE t = "listener"
    <3>1. /\ DOMAIN wire' = DOMAIN wire \cup {Len(wire) + 1}
          /\ \A k \in DOMAIN wire : wire'[k] = wire[k]
          /\ wire'[Len(wire) + 1] = [task |-> t, half |-> "positions", value |-> memory.positions]
          /\ task' = [task EXCEPT ![t] = [phase |-> "positions", fill |-> task[t].fill]]
      <4>1. Sends(t, "positions", memory.positions, task[t].fill)
        BY <2>1, Sent
      <4> QED BY <4>1 DEF Sends
    <3>2. \A u \in Tasks : task'[u].fill = task[u].fill /\ task[u].fill <= memory.positions
      BY <1>0, <3>1 DEF Covered
    <3>3. task'["listener"].phase = "positions"
      BY <1>0, <2>3, <3>1
    <3>4. mode \notin {"up", "stopped"}
      BY <1>0, <2>1, <2>3 DEF WireInv
    <3>5. ASSUME mode = "stopping" PROVE StopSaves'
      <4>1. \A k \in DOMAIN wire' : wire'[k].task = "listener" =>
                \A u \in Tasks : task'[u].fill <= wire'[k].value
        BY <3>1, <3>2, <3>5 DEF StopSaves
      <4>2. \A u \in Tasks : task[u].fill <= saved.cash
        BY <2>1, <2>3, <3>5 DEF StopSaves
      <4>3. saved' = saved /\ mode' = "stopping" /\ \A u \in Tasks : task'[u].fill <= saved.cash
        BY <2>1, <3>2, <3>5, <4>2
      <4> QED BY <3>3, <4>1, <4>3 DEF StopSaves
    <3> QED BY <1>b, <2>1, <3>4, <3>5
  <2> QED BY <2>2, <2>3
<1>4. ASSUME NEW t \in Tasks, Fill(t) PROVE StopSaves'
  <2>1. /\ mode \in {"up", "stopping", "stopped"} /\ mode' = mode /\ saved' = saved
        /\ BeginSave(t, fills + 1, IF mode = "up" THEN fills + 1 ELSE 0)
        /\ t # "listener" /\ fills + 1 \in 0..MaxFills /\ 0 \in 0..MaxFills
        /\ "cash" \in Halves
    BY <1>0, <1>4 DEF Fill, AtWork
  <2>2. CASE mode = "up"
    BY <1>b, <2>1, <2>2
  <2>3. CASE mode = "stopping"
    <3>1. Send(t, "cash", fills + 1, 0)
      BY <2>1, <2>3 DEF BeginSave
    <3> QED BY <1>s, <2>1, <3>1
  <2>4. CASE mode = "stopped"
    <3>1. wire' = wire /\ task' = [task EXCEPT ![t] = [phase |-> "done", fill |-> 0]]
      BY <2>1, <2>4 DEF BeginSave
    <3>2. task'["listener"] = task["listener"] /\ \A u \in Tasks : task'[u].fill \in {0, task[u].fill}
      BY <1>0, <2>1, <3>1
    <3> QED BY <1>a, <1>c, <2>1, <3>1, <3>2
  <2> QED BY <2>1, <2>2, <2>3, <2>4
<1>5. ASSUME NEW t \in Tasks, WriteFails(t) PROVE StopSaves'
  <2>1. PICK i \in DOMAIN wire : wire[i].task = t /\ wire' = RemoveAt(wire, i)
    BY <1>5 DEF WriteFails
  <2>2. \A k \in DOMAIN wire' : \E j \in DOMAIN wire : wire'[k] = wire[j]
    <3>0. wire \in Seq(Requests)
      BY <1>0
    <3>1. DOMAIN RemoveAt(wire, i) = 1..(Len(wire) - 1)
      BY <3>0, RemoveAtKeeps
    <3>2. \A k \in 1..(Len(wire) - 1) :
             /\ (IF k < i THEN k ELSE k + 1) \in DOMAIN wire
             /\ RemoveAt(wire, i)[k] = wire[IF k < i THEN k ELSE k + 1]
      BY <3>0, RemoveAtKeeps
    <3> SUFFICES ASSUME NEW k \in DOMAIN wire' PROVE \E j \in DOMAIN wire : wire'[k] = wire[j]
      OBVIOUS
    <3> DEFINE j == IF k < i THEN k ELSE k + 1
    <3>3. j \in DOMAIN wire /\ wire'[k] = wire[j]
      BY <2>1, <3>1, <3>2
    <3> QED BY <3>3
  <2>3. /\ saved' = saved /\ mode' = mode /\ mode = "stopped"
        /\ task' = [task EXCEPT ![t] = [phase |-> "done", fill |-> task[t].fill]]
    BY <1>0, <1>5, PhaseStep DEF WriteFails, Phases
  <2>4. t # "listener"
    <3>1. task[t].phase \in Halves
      BY <1>r, <2>1 DEF WireInv
    <3> QED BY <1>0, <2>3, <3>1 DEF WireInv
  <2>5. task'["listener"] = task["listener"] /\ \A u \in Tasks : task'[u].fill \in {0, task[u].fill}
    BY <1>0, <2>3, <2>4
  <2> QED BY <1>a, <1>c, <2>2, <2>3, <2>5
<1>6. ASSUME NEW t \in Tasks, PublishFill(t) PROVE StopSaves'
  <2>1. /\ UNCHANGED <<wire, saved, mode>> /\ t # "listener"
        /\ task' = [task EXCEPT ![t] = [phase |-> "rest", fill |-> 0]]
    BY <1>6 DEF PublishFill, Resting
  <2>2. task'["listener"] = task["listener"] /\ \A u \in Tasks : task'[u].fill \in {0, task[u].fill}
    BY <1>0, <2>1
  <2> QED BY <1>a, <1>c, <2>1, <2>2
<1>7. CASE BeginOrder \/ OrderRefused
  <2>1. /\ UNCHANGED <<wire, saved, mode>> /\ task'["listener"] = task["listener"]
        /\ \A u \in Tasks : task'[u].fill \in {0, task[u].fill}
    BY <1>0, <1>7 DEF BeginOrder, OrderRefused, Resting
  <2> QED BY <1>a, <1>c, <2>1
<1>8. CASE Stop
  <2>1. /\ Send("listener", "cash", memory.cash, 0) /\ memory.cash \in 0..MaxFills
        /\ 0 \in 0..MaxFills /\ mode = "up" /\ mode' = "stopping" /\ "cash" \in Halves
        /\ "listener" \in Tasks /\ task["listener"].phase = "rest"
    BY <1>0, <1>8 DEF Stop, WireInv
  <2>2. /\ DOMAIN wire' = DOMAIN wire \cup {Len(wire) + 1}
        /\ \A k \in DOMAIN wire : wire'[k] = wire[k]
        /\ wire'[Len(wire) + 1] = [task |-> "listener", half |-> "cash", value |-> memory.cash]
        /\ task' = [task EXCEPT !["listener"] = [phase |-> "cash", fill |-> 0]]
    <3>1. Sends("listener", "cash", memory.cash, 0)
      BY <2>1, Sent
    <3> QED BY <3>1 DEF Sends
  <2>3. \A u \in Tasks : task'[u].fill \in {0, task[u].fill} /\ task[u].fill \in Nat
    BY <1>0, <2>2
  <2>4. \A u \in Tasks : task[u].fill <= memory["cash"]
    BY <2>1 DEF Covered
  <2>5. \A u \in Tasks : task'[u].fill <= memory.cash
    BY <1>0, <2>3, <2>4
  <2>6. \A k \in DOMAIN wire : wire[k].task # "listener"
    BY <1>0, <1>r, <2>1 DEF WireInv
  <2>7. task'["listener"].phase = "cash"
    BY <1>0, <2>2
  <2> QED BY <2>1, <2>2, <2>5, <2>6, <2>7 DEF StopSaves
<1>9. CASE Disconnect
  <2>1. /\ saved' = saved /\ mode' = "stopped" /\ mode = "stopping" /\ task["listener"].phase = "done"
        /\ task' = [task EXCEPT !["listener"] = [phase |-> "rest", fill |-> 0]]
    BY <1>9 DEF Disconnect, Resting
  <2>2. \A u \in Tasks : task'[u].fill \in {0, task[u].fill} /\ task[u].fill \in Nat
    BY <1>0, <2>1
  <2>3. \A u \in Tasks : task[u].fill <= saved["cash"] /\ task[u].fill <= saved["positions"]
    BY <2>1 DEF StopSaves
  <2>4. \A u \in Tasks, h \in Halves : task'[u].fill <= saved[h]
    BY <1>0, <2>2, <2>3
  <2> QED BY <2>1, <2>4 DEF StopSaves
<1>10. CASE Connect \/ Connected \/ Leave \/ Ended \/ Crash
  BY <1>b, <1>10 DEF Connect, Connected, Leave, Ended, Crash, Down
<1> QED BY <1>1, <1>2, <1>3, <1>4, <1>5, <1>6, <1>7, <1>8, <1>9, <1>10 DEF PersistenceNext

\* What memory holds is saved or on its way, or a task will still send it.
LEMMA ComingStep ==
    ASSUME PersistenceAssumption, PersistenceTypeOK, WireInv, Ordered, Coming, ~refused',
           [PersistenceNext]_persistenceVars
    PROVE  Coming'
<1>0. /\ wire \in Seq(Requests) /\ MaxFills \in Nat
      /\ task \in [Tasks -> [phase : Phases, fill : 0..MaxFills]]
      /\ memory \in [Halves -> 0..MaxFills] /\ saved \in [Halves -> -1..MaxFills]
      /\ fills \in 0..MaxFills /\ Absent = -1
      /\ Halves = {"cash", "positions"} /\ Tasks = {"loop", "monitor", "listener"}
  BY TypeFacts
<1>1. CASE UNCHANGED persistenceVars
  BY <1>1 DEF persistenceVars, Coming
<1>2. CASE Serve
  <2> DEFINE r == wire[1]
  <2>0. /\ r \in Requests /\ 1 \in DOMAIN wire
        /\ DOMAIN wire' = 1..(Len(wire) - 1) /\ Len(wire) \in Nat /\ DOMAIN wire = 1..Len(wire)
        /\ \A k \in DOMAIN wire' : k + 1 \in DOMAIN wire /\ wire'[k] = wire[k + 1]
        /\ saved' = [saved EXCEPT ![r.half] = r.value] /\ memory' = memory /\ mode' = mode
        /\ task' = [task EXCEPT ![r.task] =
                       [phase |-> IF r.half = "cash" THEN "cash_done" ELSE "done",
                        fill |-> task[r.task].fill]]
    BY <1>0, <1>2, Served
  <2>1. r.half \in Halves /\ r.value \in 0..MaxFills /\ r.task \in Tasks
    BY <2>0 DEF Requests
  <2> SUFFICES ASSUME mode # "stopped" PROVE Coming'
    BY <2>0 DEF Coming
  <2>2. /\ saved[r.half] <= r.value /\ r.value <= memory[r.half]
        /\ task[r.task].phase = r.half
    BY <2>0 DEF Ordered, WireInv
  <2>3. mode # "down"
    BY <1>0, <2>0 DEF WireInv
  <2>4. ASSUME NEW h \in Halves,
               saved[h] = memory[h] \/ \E k \in DOMAIN wire : wire[k].half = h /\ wire[k].value = memory[h]
        PROVE  \/ saved'[h] = memory[h]
               \/ \E k \in DOMAIN wire' : wire'[k].half = h /\ wire'[k].value = memory[h]
    <3>1. CASE saved[h] = memory[h]
      BY <1>0, <2>0, <2>1, <2>2, <3>1
    <3>2. CASE \E k \in DOMAIN wire : wire[k].half = h /\ wire[k].value = memory[h]
      <4>1. PICK k \in DOMAIN wire : wire[k].half = h /\ wire[k].value = memory[h]
        BY <3>2
      <4>2. CASE k = 1
        BY <1>0, <2>0, <2>1, <4>1, <4>2
      <4>3. CASE k # 1
        <5>1. k - 1 \in DOMAIN wire' /\ (k - 1) + 1 = k
          BY <2>0, <4>1, <4>3
        <5> QED BY <2>0, <4>1, <5>1
      <4> QED BY <4>2, <4>3
    <3> QED BY <2>4, <3>1, <3>2
  <2>5. \/ saved'["cash"] = memory["cash"]
        \/ \E k \in DOMAIN wire' : wire'[k].half = "cash" /\ wire'[k].value = memory["cash"]
    BY <1>0, <2>3, <2>4 DEF Coming
  <2>6. \/ saved'["positions"] = memory["positions"]
        \/ \E k \in DOMAIN wire' : wire'[k].half = "positions" /\ wire'[k].value = memory["positions"]
        \/ \E t \in Tasks : task'[t].phase \in {"cash", "cash_done"}
    <3>1. CASE \E t \in Tasks : task[t].phase \in {"cash", "cash_done"}
      <4>1. PICK t \in Tasks : task[t].phase \in {"cash", "cash_done"}
        BY <3>1
      <4>2. task'[t].phase \in {"cash", "cash_done"}
        BY <1>0, <2>0, <2>1, <2>2, <4>1
      <4> QED BY <4>2
    <3>2. CASE ~\E t \in Tasks : task[t].phase \in {"cash", "cash_done"}
      BY <1>0, <2>3, <2>4, <3>2 DEF Coming
    <3> QED BY <3>1, <3>2
  <2> QED BY <2>0, <2>5, <2>6 DEF Coming
<1>3. ASSUME NEW t \in Tasks, SavePositions(t) PROVE Coming'
  <2>1. /\ Send(t, "positions", memory.positions, task[t].fill) /\ "positions" \in Halves
        /\ UNCHANGED <<saved, memory, mode>> /\ task[t].phase = "cash_done"
        /\ memory.positions \in 0..MaxFills /\ task[t].fill \in 0..MaxFills
    BY <1>0, <1>3 DEF SavePositions
  <2> SUFFICES ASSUME mode # "stopped" PROVE Coming'
    BY <2>1 DEF Coming
  <2>2. /\ DOMAIN wire' = DOMAIN wire \cup {Len(wire) + 1}
        /\ \A k \in DOMAIN wire : wire'[k] = wire[k]
        /\ wire'[Len(wire) + 1] = [task |-> t, half |-> "positions", value |-> memory.positions]
    <3>1. [task |-> t, half |-> "positions", value |-> memory.positions] \in Requests
      BY <2>1 DEF Requests
    <3> QED BY <1>0, <2>1, <3>1, AppendProperties DEF Send
  <2>3. mode # "down"
    BY <2>1 DEF WireInv, AllRest, Resting
  <2>4. \/ saved.cash = memory.cash
        \/ \E k \in DOMAIN wire' : wire'[k].half = "cash" /\ wire'[k].value = memory.cash
    BY <2>2, <2>3 DEF Coming
  <2>5. \E k \in DOMAIN wire' : wire'[k].half = "positions" /\ wire'[k].value = memory.positions
    BY <2>2
  <2> QED BY <2>1, <2>4, <2>5 DEF Coming
<1>4. ASSUME NEW t \in Tasks, Fill(t) PROVE Coming'
  <2> DEFINE fill == IF mode = "up" THEN fills + 1 ELSE 0
  <2>1. /\ BeginSave(t, fills + 1, fill) /\ "cash" \in Halves /\ fills + 1 \in 0..MaxFills
        /\ memory' = [h \in Halves |-> fills + 1] /\ fill \in 0..MaxFills /\ mode' = mode
    BY <1>0, <1>4 DEF Fill, Whole
  <2> HIDE DEF fill
  <2> SUFFICES ASSUME mode # "stopped" PROVE Coming'
    BY <2>1 DEF Coming
  <2>2. /\ Len(wire) + 1 \in DOMAIN wire'
        /\ wire'[Len(wire) + 1] = [task |-> t, half |-> "cash", value |-> fills + 1]
        /\ task' = [task EXCEPT ![t] = [phase |-> "cash", fill |-> fill]]
    <3>1. Sends(t, "cash", fills + 1, fill)
      BY <2>1, Sent DEF BeginSave
    <3> QED BY <3>1 DEF Sends
  <2>3. \E k \in DOMAIN wire' : wire'[k].half = "cash" /\ wire'[k].value = memory'.cash
    BY <1>0, <2>1, <2>2
  <2>4. task'[t].phase = "cash"
    BY <1>0, <2>2
  <2> QED BY <2>3, <2>4 DEF Coming
<1>5. ASSUME NEW t \in Tasks, WriteFails(t) PROVE Coming'
  BY <1>5 DEF WriteFails, Coming
<1>6. ASSUME NEW t \in Tasks, PublishFill(t) PROVE Coming'
  <2>1. /\ UNCHANGED <<wire, saved, memory, mode>> /\ task[t].phase = "done"
        /\ \A u \in Tasks : u # t => task'[u] = task[u]
    BY <1>0, <1>6 DEF PublishFill
  <2>2. \A u \in Tasks : task[u].phase \in {"cash", "cash_done"} => task'[u] = task[u]
    BY <2>1
  <2> QED BY <2>1, <2>2 DEF Coming
<1>7. ASSUME NEW value \in 0..MaxFills, value = memory'.cash,
             wire' = <<[task |-> "loop", half |-> "cash", value |-> value]>>,
             task' = [AllRest EXCEPT !["loop"].phase = "cash"]
      PROVE  Coming'
  <2>1. /\ DOMAIN wire' = {1} /\ wire'[1].half = "cash" /\ wire'[1].value = value
        /\ task'["loop"].phase = "cash"
    BY <1>7, LoopSends
  <2> QED BY <1>0, <1>7, <2>1 DEF Coming
<1>8. CASE Connect
  <2>1. /\ memory' = IF saved.cash = Absent THEN Whole(0)
                     ELSE [saved EXCEPT !.positions = IF @ = Absent THEN 0 ELSE @]
        /\ wire' = <<[task |-> "loop", half |-> "cash", value |-> memory'.cash]>>
        /\ task' = [AllRest EXCEPT !["loop"].phase = "cash"]
    BY <1>8 DEF Connect
  <2>2. memory'.cash \in 0..MaxFills
    <3>1. CASE saved.cash = Absent
      BY <1>0, <2>1, <3>1 DEF Whole
    <3>2. CASE saved.cash # Absent
      BY <1>0, <2>1, <3>2
    <3> QED BY <3>1, <3>2
  <2> QED BY <1>7, <2>1, <2>2
<1>9. CASE Leave
  BY <1>0, <1>7, <1>9 DEF Leave
<1>10. CASE Connected
  <2>1. /\ task["loop"].phase = "done" /\ mode = "starting" /\ UNCHANGED <<memory, saved>>
        /\ \A t \in Tasks \ {"loop"} : task[t].phase = "rest"
    BY <1>10 DEF Connected, WireInv
  <2>2. DOMAIN wire = {}
    <3> SUFFICES ASSUME NEW k \in DOMAIN wire PROVE FALSE
      OBVIOUS
    <3>1. wire[k].task \in Tasks /\ wire[k].half \in Halves
      <4>1. wire[k] \in Requests
        BY <1>0
      <4> QED BY <4>1 DEF Requests
    <3> QED BY <1>0, <2>1, <3>1 DEF WireInv
  <2>3. saved.cash = memory.cash /\ saved.positions = memory.positions
    BY <1>0, <2>1, <2>2 DEF Coming
  <2> QED BY <2>1, <2>3 DEF Coming
<1>11. CASE Disconnect \/ Ended \/ Crash
  BY <1>11 DEF Disconnect, Ended, Crash, Down, Coming
<1>12. CASE BeginOrder \/ OrderRefused
  <2>1. /\ UNCHANGED <<wire, saved, memory, mode>>
        /\ \A u \in Tasks : task[u].phase \in {"cash", "cash_done"} => task'[u] = task[u]
    BY <1>0, <1>12 DEF BeginOrder, OrderRefused
  <2> QED BY <2>1 DEF Coming
<1>13. CASE Stop
  <2>1. /\ Send("listener", "cash", memory.cash, 0) /\ memory.cash \in 0..MaxFills
        /\ 0 \in 0..MaxFills /\ "cash" \in Halves /\ "listener" \in Tasks /\ memory' = memory
    BY <1>0, <1>13 DEF Stop
  <2>2. /\ Len(wire) + 1 \in DOMAIN wire'
        /\ wire'[Len(wire) + 1] = [task |-> "listener", half |-> "cash", value |-> memory.cash]
        /\ task' = [task EXCEPT !["listener"] = [phase |-> "cash", fill |-> 0]]
    <3>1. Sends("listener", "cash", memory.cash, 0)
      BY <2>1, Sent
    <3> QED BY <3>1 DEF Sends
  <2>3. task'["listener"].phase = "cash"
    BY <1>0, <2>2
  <2> QED BY <2>1, <2>2, <2>3 DEF Coming
<1> QED BY <1>1, <1>2, <1>3, <1>4, <1>5, <1>6, <1>8, <1>9, <1>10, <1>11, <1>12, <1>13
        DEF PersistenceNext

--------------------------------------------------------------------------------
\* Every variable of the portfolio's copy stays what it is declared to be, in a
\* broker that crashes and restarts any number of times (connect reads what is there).
THEOREM PersistenceTypes == PersistenceSpec => []PersistenceTypeOK
<1> USE PersistenceAssumption
<1>1. PersistenceInit => PersistenceTypeOK
  BY PersistenceTypeInit
<1>2. PersistenceTypeOK /\ [PersistenceNext]_persistenceVars => PersistenceTypeOK'
  BY PersistenceTypeStep
<1> QED BY <1>1, <1>2, PTL DEF PersistenceSpec

PersistenceInv == PersistenceTypeOK /\ WireInv /\ SaveInv

LEMMA SavesAreOrdered == PersistenceSpec => []PersistenceInv
<1> USE PersistenceAssumption
<1>1. ASSUME PersistenceInit PROVE PersistenceInv
  <2>1. Ordered /\ Covered /\ StopSaves /\ Coming
    BY <1>1 DEF PersistenceInit, Ordered, Covered, StopSaves, Coming, Whole, Absent, AllRest, Resting, Halves,
                Tasks, PersistenceAssumption
  <2> QED BY <1>1, <2>1, PersistenceTypeInit, WireInit DEF PersistenceInv, SaveInv
<1>2. ASSUME PersistenceInv, [PersistenceNext]_persistenceVars PROVE PersistenceInv'
  <2>1. PersistenceTypeOK' /\ WireInv'
    BY <1>2, PersistenceTypeStep, WireStep DEF PersistenceInv
  <2>2. refused => refused'
    BY <1>2 DEF PersistenceNext, persistenceVars, Serve, SavePositions, WriteFails, Fill, PublishFill,
                BeginOrder, OrderRefused, Connect, Connected, Stop, Disconnect, Leave, Ended, Crash, Down
  <2>3. ASSUME ~refused' PROVE Ordered' /\ Covered' /\ StopSaves' /\ Coming'
    <3>1. Ordered /\ Covered /\ StopSaves /\ Coming
      BY <1>2, <2>2, <2>3 DEF PersistenceInv, SaveInv
    <3> QED BY <1>2, <2>3, <3>1, OrderedStep, CoveredStep, StopStep, ComingStep DEF PersistenceInv
  <2> QED BY <2>1, <2>3 DEF PersistenceInv, SaveInv
<1> QED BY <1>1, <1>2, PTL DEF PersistenceSpec

\* No restart forgets a fill made before the agent was told to stop and published, as
\* long as Redis refuses nothing: place_order and _close return when
\* _save_portfolio_state has, a task that saves at the same time never puts an older
\* portfolio back, and an override's stop(), which cuts off the save of an order still
\* at work, has saved all that is in memory before it disconnects the bus
\* (agents/base.py:158-177, agents/execution/paper_broker.py:213-221).
THEOREM PublishedStaysSaved == PersistenceSpec => []PublishedIsSaved
<1> USE PersistenceAssumption
<1>1. PersistenceInv => PublishedIsSaved
  <2> SUFFICES ASSUME PersistenceTypeOK, ~refused, Covered PROVE PublishedIsSaved
    BY DEF PersistenceInv, SaveInv, PublishedIsSaved
  <2>1. \A h \in Halves : saved[h] \in Int /\ published \in Int
    BY TypeFacts
  <2> QED BY <2>1 DEF Covered, PublishedIsSaved
<1> QED BY <1>1, SavesAreOrdered, PTL

\* With nothing on its way Redis holds the portfolio in memory: of two tasks that save at
\* the same time, the later writes what both have done (the positions are read when sent).
THEOREM QuietRedisAgrees == PersistenceSpec => []QuietIsSaved
<1> USE PersistenceAssumption
<1>1. PersistenceInv => QuietIsSaved
  <2> SUFFICES ASSUME PersistenceTypeOK, WireInv, Coming, Quiet PROVE saved = memory
    BY DEF PersistenceInv, SaveInv, QuietIsSaved
  <2>0. /\ wire \in Seq(Requests) /\ memory \in [Halves -> 0..MaxFills]
        /\ saved \in [Halves -> -1..MaxFills] /\ Halves = {"cash", "positions"}
    BY TypeFacts
  <2>1. mode = "up" /\ \A t \in Tasks : task[t].phase \in {"rest", "latency"}
    BY DEF Quiet
  <2>2. DOMAIN wire = {}
    <3> SUFFICES ASSUME NEW k \in DOMAIN wire PROVE FALSE
      OBVIOUS
    <3>1. wire[k].task \in Tasks /\ wire[k].half \in Halves
      <4>1. wire[k] \in Requests
        BY <2>0
      <4> QED BY <4>1 DEF Requests
    <3> QED BY <2>0, <2>1, <3>1 DEF WireInv
  <2>3. saved.cash = memory.cash /\ saved.positions = memory.positions
    BY <2>1, <2>2 DEF Coming
  <2> QED BY <2>0, <2>3
<1> QED BY <1>1, SavesAreOrdered, PTL
================================================================================
