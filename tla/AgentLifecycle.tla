------------------------------ MODULE AgentLifecycle ------------------------------
(***************************************************************************)
(* How agents start, halt, crash and come back: agents/base.py under       *)
(* either deployment.  With Docker every agent is a container of its own   *)
(* that docker-compose restarts (`unless-stopped'); scripts/start.py runs  *)
(* all agents and the control API in one process and ends it as soon as    *)
(* one agent's task has ended.                                             *)
(*                                                                         *)
(* A halt is two writes: the latch in Redis, which every instance reads    *)
(* when it starts, and an override on a pub/sub channel, which reaches     *)
(* those that listen at that moment.                                       *)
(***************************************************************************)
EXTENDS Naturals

CONSTANTS
    Agents,
    Halters,         \* who may order a halt: the control API, the Risk agent
    MaxAgentCrashes, \* settings.risk.max_agent_crashes
    Deployments,     \* a subset of {"docker", "single"}
    Faults           \* which of AllFaults this environment has

\* "latch_read": Redis may fail to answer the read of the latch.  "listener":
\* the listener's connection may drop.
AllFaults == {"latch_read", "listener"}

ASSUME LifecycleAssumption ==
    /\ MaxAgentCrashes \in Nat \ {0}
    /\ Deployments \subseteq {"docker", "single"}
    /\ Faults \subseteq AllFaults

\* down: no process; starting: bus.connect(), then the latch is read; setup:
\* setup() runs; running: run_loop(); stopped and quarantined: the stop event is
\* set and run_loop has not noticed yet; backoff: run_agent sleeps.
Statuses == {"down", "starting", "setup", "running", "stopped", "quarantined", "backoff"}

VARIABLES
    deployment, \* "docker": one container per agent; "single": scripts/start.py
    latch,      \* HALT_KEY is set in Redis
    halting,    \* [Halters -> BOOLEAN]: latch written, override not published yet
    status,     \* [Agents -> Statuses]
    halted,     \* [Agents -> BOOLEAN]: _trading_halted of the current instance
    listener,   \* [Agents -> {"off", "subscribing", "on"}]: _risk_override_listener
    override,   \* [Agents -> BOOLEAN]: an override waits on the listener's connection
    errors,     \* [Agents -> 0..MaxAgentCrashes]: _consecutive_errors
    crashes,    \* [Agents -> 0..MaxAgentCrashes]: crash_count of run_agent
    ended,      \* scripts/start.py has shut the process down
    \* History, for the properties:
    heard,      \* [Agents -> BOOLEAN]: heard an override since the last resume
    announced,  \* an override was published since the last resume
    unread      \* [Agents -> BOOLEAN]: could not read the latch once

control == <<deployment, latch, halting, ended, announced>>
instance == <<status, halted, listener, override, errors>>
vars == <<control, instance, crashes, heard, unread>>

Init ==
    /\ deployment \in Deployments
    /\ latch = FALSE
    /\ halting = [h \in Halters |-> FALSE]
    /\ status = [a \in Agents |-> "starting"]
    /\ halted = [a \in Agents |-> FALSE]
    /\ listener = [a \in Agents |-> "off"]
    /\ override = [a \in Agents |-> FALSE]
    /\ errors = [a \in Agents |-> 0]
    /\ crashes = [a \in Agents |-> 0]
    /\ ended = FALSE
    /\ heard = [a \in Agents |-> FALSE]
    /\ announced = FALSE
    /\ unread = [a \in Agents |-> FALSE]

\* The agent acts on the market: _should_continue() and not _trading_halted.
Trading(a) == status[a] = "running" /\ ~halted[a]

--------------------------------------------------------------------------------
(* Start-up *)

\* A new instance: BaseAgent.__init__ (its bus has no subscription).
Fresh(a, next) ==
    /\ status' = [status EXCEPT ![a] = next]
    /\ halted' = [halted EXCEPT ![a] = FALSE]
    /\ listener' = [listener EXCEPT ![a] = "off"]
    /\ override' = [override EXCEPT ![a] = FALSE]
    /\ errors' = [errors EXCEPT ![a] = 0]

\* Wrong: the latch is not consulted.
LoadHaltLatchIgnored(a) ==
    /\ status[a] = "starting"
    /\ status' = [status EXCEPT ![a] = "setup"]
    /\ UNCHANGED <<control, halted, listener, override, errors, crashes, heard, unread>>

\* _load_halt_latch()
LoadHaltLatch(a) ==
    /\ status[a] = "starting"
    /\ status' = [status EXCEPT ![a] = "setup"]
    /\ halted' = [halted EXCEPT ![a] = latch]
    /\ UNCHANGED <<control, listener, override, errors, crashes, heard, unread>>

\* The read fails: a warning, and the agent starts as if there were no halt.
LoadHaltLatchFails(a) ==
    /\ "latch_read" \in Faults
    /\ status[a] = "starting"
    /\ status' = [status EXCEPT ![a] = "setup"]
    /\ unread' = [unread EXCEPT ![a] = TRUE]
    /\ UNCHANGED <<control, halted, listener, override, errors, crashes, heard>>

\* setup() returns; the listener task is created and has yet to subscribe.
Started(a) ==
    /\ status[a] = "setup"
    /\ status' = [status EXCEPT ![a] = "running"]
    /\ listener' = [listener EXCEPT ![a] = "subscribing"]
    /\ UNCHANGED <<control, halted, override, errors, crashes, heard, unread>>

Subscribed(a) ==
    /\ listener[a] = "subscribing"
    /\ listener' = [listener EXCEPT ![a] = "on"]
    /\ UNCHANGED <<control, status, halted, override, errors, crashes, heard, unread>>

--------------------------------------------------------------------------------
(* The override listener *)

\* _risk_override_listener: halt, then stop() cancels the background tasks (this
\* one too) and closes the bus; run_loop notices later.
HearOverride(a) ==
    /\ listener[a] = "on"
    /\ override[a]
    /\ halted' = [halted EXCEPT ![a] = TRUE]
    /\ status' = [status EXCEPT ![a] = "stopped"]
    /\ listener' = [listener EXCEPT ![a] = "off"]
    /\ override' = [override EXCEPT ![a] = FALSE]
    /\ heard' = [heard EXCEPT ![a] = TRUE]
    /\ UNCHANGED <<control, errors, crashes, unread>>

\* subscribe() raises when its connection drops; the listener logs it and ends,
\* and the agent goes on without it.
ListenerDies(a) ==
    /\ "listener" \in Faults
    /\ listener[a] # "off"
    /\ listener' = [listener EXCEPT ![a] = "off"]
    /\ override' = [override EXCEPT ![a] = FALSE]
    /\ UNCHANGED <<control, status, halted, errors, crashes, heard, unread>>

--------------------------------------------------------------------------------
(* The run loop and its supervisor *)

\* A message is handled: _record_success().
Handle(a) ==
    /\ status[a] = "running"
    /\ errors' = [errors EXCEPT ![a] = 0]
    /\ UNCHANGED <<control, status, halted, listener, override, crashes, heard, unread>>

\* Wrong: > for >= in the circuit breaker.
HandleErrorOverLimit(a) ==
    /\ status[a] = "running"
    /\ errors' = [errors EXCEPT ![a] = @ + 1]
    /\ IF errors'[a] > MaxAgentCrashes
       THEN status' = [status EXCEPT ![a] = "quarantined"]
       ELSE UNCHANGED status
    /\ UNCHANGED <<control, halted, listener, override, crashes, heard, unread>>

\* A message cannot be handled: _handle_error().
HandleError(a) ==
    /\ status[a] = "running"
    /\ errors' = [errors EXCEPT ![a] = @ + 1]
    /\ IF errors'[a] >= MaxAgentCrashes
       THEN status' = [status EXCEPT ![a] = "quarantined"]
       ELSE UNCHANGED status
    /\ UNCHANGED <<control, halted, listener, override, crashes, heard, unread>>

\* The next message after the stop event: run_loop returns, run() calls stop(),
\* run_agent breaks out of its loop and the process ends.
LeaveLoop(a) ==
    /\ status[a] \in {"stopped", "quarantined"}
    /\ Fresh(a, "down")
    /\ UNCHANGED <<control, crashes, heard, unread>>

\* An exception leaves start() or run_loop: run_agent counts it and either sleeps
\* before it makes a new instance or gives up and returns.
Crash(a) ==
    /\ status[a] \in {"starting", "setup", "running", "stopped", "quarantined"}
    /\ crashes' = [crashes EXCEPT ![a] = @ + 1]
    /\ IF crashes'[a] >= MaxAgentCrashes
       THEN Fresh(a, "down")
       ELSE Fresh(a, "backoff")
    /\ UNCHANGED <<control, heard, unread>>

\* The back-off is over: agent = type(agent)().
NewInstance(a) ==
    /\ status[a] = "backoff"
    /\ Fresh(a, "starting")
    /\ UNCHANGED <<control, crashes, heard, unread>>

--------------------------------------------------------------------------------
(* Processes *)

\* restart: unless-stopped
DockerRestart(a) ==
    /\ deployment = "docker"
    /\ status[a] = "down"
    /\ Fresh(a, "starting")
    /\ crashes' = [crashes EXCEPT ![a] = 0]
    /\ UNCHANGED <<control, heard, unread>>

\* docker compose restart: SIGTERM cancels the agent's task; a new container.
OperatorRestart(a) ==
    /\ deployment = "docker"
    /\ Fresh(a, "starting")
    /\ crashes' = [crashes EXCEPT ![a] = 0]
    /\ UNCHANGED <<control, heard, unread>>

\* New instances of all agents.
AllFresh(next) ==
    /\ status' = [a \in Agents |-> next]
    /\ halted' = [a \in Agents |-> FALSE]
    /\ listener' = [a \in Agents |-> "off"]
    /\ override' = [a \in Agents |-> FALSE]
    /\ errors' = [a \in Agents |-> 0]

\* scripts/start.py, by hand, after a shutdown: every agent's task is created.
Launch ==
    /\ ended
    /\ ended' = FALSE
    /\ AllFresh("starting")
    /\ crashes' = [a \in Agents |-> 0]
    /\ UNCHANGED <<deployment, latch, halting, announced, heard, unread>>

\* _watch_for_crash finds a task that has ended; main() cancels all the others,
\* the API server among them.
WatchForCrash ==
    /\ deployment = "single" /\ ~ended
    /\ \E a \in Agents : status[a] = "down"
    /\ ended' = TRUE
    /\ AllFresh("down")
    /\ halting' = [h \in Halters |-> FALSE]
    /\ UNCHANGED <<deployment, latch, announced, crashes, heard, unread>>

--------------------------------------------------------------------------------
(* Halt and resume *)

\* Wrong: the halt is only broadcast.
SetLatchForgotten(h) ==
    /\ ~ended
    /\ ~halting[h]
    /\ halting' = [halting EXCEPT ![h] = TRUE]
    /\ UNCHANGED <<deployment, latch, ended, announced, instance, crashes, heard, unread>>

\* post_halt and _emergency_halt: the latch is written first.
SetLatch(h) ==
    /\ ~ended
    /\ ~halting[h]
    /\ latch' = TRUE
    /\ halting' = [halting EXCEPT ![h] = TRUE]
    /\ UNCHANGED <<deployment, ended, announced, instance, crashes, heard, unread>>

\* bus.publish(override) reaches the subscribed listeners, and only them.
PublishOverride(h) ==
    /\ halting[h]
    /\ halting' = [halting EXCEPT ![h] = FALSE]
    /\ override' = [a \in Agents |-> override[a] \/ listener[a] = "on"]
    /\ announced' = TRUE
    /\ UNCHANGED <<deployment, latch, ended, status, halted, listener, errors, crashes, heard, unread>>

\* The publish fails (the API answers 502, Risk logs it) or the halter dies.
PublishOverrideFails(h) ==
    /\ halting[h]
    /\ halting' = [halting EXCEPT ![h] = FALSE]
    /\ UNCHANGED <<deployment, latch, ended, announced, instance, crashes, heard, unread>>

\* A halt is being carried out or has not reached all its listeners yet.
HaltUnderWay == (\E h \in Halters : halting[h]) \/ (\E a \in Agents : override[a])

\* post_resume deletes the latch; what agents hold in memory stays.  Operators
\* resume when a halt has been carried out, not during it.
Resume ==
    /\ ~ended
    /\ ~HaltUnderWay
    /\ latch' = FALSE
    /\ announced' = FALSE
    /\ heard' = [a \in Agents |-> FALSE]
    /\ UNCHANGED <<deployment, halting, ended, instance, crashes, unread>>

--------------------------------------------------------------------------------
AgentStep(a) ==
    \/ LoadHaltLatch(a) \/ LoadHaltLatchFails(a) \/ Started(a) \/ Subscribed(a)
    \/ HearOverride(a) \/ ListenerDies(a)
    \/ Handle(a) \/ HandleError(a) \/ LeaveLoop(a) \/ Crash(a) \/ NewInstance(a)

Next ==
    \/ \E a \in Agents : AgentStep(a) \/ DockerRestart(a) \/ OperatorRestart(a)
    \/ Launch \/ WatchForCrash
    \/ \E h \in Halters : SetLatch(h) \/ PublishOverride(h) \/ PublishOverrideFails(h)
    \/ Resume

Spec == Init /\ [][Next]_vars

\* Ready tasks run: an instance that starts goes on, a subscribed listener reads
\* what has arrived, a message does come after the stop event, back-off and
\* Docker's restart delay end.  Nobody has to send commands, and no crash has to
\* happen.
Fairness ==
    /\ \A a \in Agents :
          /\ WF_vars(LoadHaltLatch(a))
          /\ WF_vars(Started(a))
          /\ WF_vars(Subscribed(a))
          /\ WF_vars(HearOverride(a))
          /\ WF_vars(LeaveLoop(a))
          /\ WF_vars(NewInstance(a))
          /\ WF_vars(DockerRestart(a))
    /\ WF_vars(WatchForCrash)

FairSpec == Spec /\ Fairness

--------------------------------------------------------------------------------
CountsTypeOK ==
    /\ errors \in [Agents -> 0..MaxAgentCrashes]
    /\ crashes \in [Agents -> 0..MaxAgentCrashes]

FlagsTypeOK ==
    /\ deployment \in Deployments
    /\ latch \in BOOLEAN
    /\ halting \in [Halters -> BOOLEAN]
    /\ status \in [Agents -> Statuses]
    /\ halted \in [Agents -> BOOLEAN]
    /\ listener \in [Agents -> {"off", "subscribing", "on"}]
    /\ override \in [Agents -> BOOLEAN]
    /\ ended \in BOOLEAN
    /\ heard \in [Agents -> BOOLEAN]
    /\ announced \in BOOLEAN
    /\ unread \in [Agents -> BOOLEAN]

TypeOK == CountsTypeOK /\ FlagsTypeOK

\* An agent that heard an override trades no more until an operator resumes,
\* whatever crashes and restarts come in between (api/routers/control.py:17-20,
\* docs/runbook.md:117), unless it once could not read the latch.
HeardStaysHalted ==
    \A a \in Agents : heard[a] /\ ~unread[a] => ~Trading(a)

\* A listener belongs to an instance that runs: none outlives a crash, a stop or a
\* shutdown and stops the instance that comes next (stop() cancels it, lines
\* 170-177), and what was sent to a listener that is gone is gone with it.
ListenerOfInstance ==
    \A a \in Agents :
        /\ listener[a] # "off" => status[a] \in {"running", "quarantined"}
        /\ override[a] => listener[a] = "on"

\* What makes HeardStaysHalted inductive: behind every override, published or
\* heard, stands the latch, and whoever heard one is halted or will read it.
LatchInv ==
    /\ ListenerOfInstance
    /\ HaltUnderWay \/ (\E a \in Agents : heard[a]) => latch
    /\ \A a \in Agents :
          heard[a] /\ ~unread[a]
              => halted[a] \/ status[a] \notin {"setup", "running"}

\* Once an override waits for an agent, there comes a time after which it never
\* trades again before the latch is cleared: it hears it, or it crashes first and
\* its next instance finds the latch (api/routers/control.py:134).  Only a listener
\* that dies and a latch that cannot be read prevent it.
Deaf(a) == status[a] = "running" /\ listener[a] = "off"

HaltTakesHold ==
    \A a \in Agents : override[a] ~> ([](~Trading(a)) \/ ~latch \/ unread[a] \/ Deaf(a))

================================================================================
