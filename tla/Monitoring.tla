-------------------------------- MODULE Monitoring --------------------------------
(***************************************************************************)
(* The staleness watch of the monitoring agent (agents/monitoring/agent.py)*)
(* in discrete time: one task hears heartbeats and keeps the registry, the *)
(* other one scans it every Interval and raises an alert for each agent    *)
(* not heard for more than Timeout.                                        *)
(*                                                                         *)
(* Agents say nothing but "running" in a heartbeat: the loop that sends    *)
(* them (agents/base.py:331-362) ends with the same stop event that every  *)
(* other status sets, so silence is the only sign of a crash and the       *)
(* branches of _process_heartbeat for other statuses are never taken.      *)
(***************************************************************************)
EXTENDS Integers, Sequences, FiniteSets, SequencesExt

CONSTANTS
    Watched,
    Self,       \* the monitoring agent, which hears its own heartbeats
    Interval,   \* heartbeat_interval_seconds, the sleep between two scans
    Timeout,    \* heartbeat_timeout_seconds
    Cooldown,   \* _ALERT_COOLDOWN_SECONDS
    RaiseTime   \* the longest time publishing, posting and storing an alert takes

ASSUME MonitoringAssumption ==
    /\ IsFiniteSet(Watched) /\ Cardinality(Watched) > 1
    /\ Self \in Watched
    /\ Interval \in Nat \ {0}
    /\ Timeout \in Nat
    /\ Cooldown \in Nat
    /\ RaiseTime \in Nat

VARIABLES
    known,    \* the registry self._agents, in its order of insertion
    age,      \* [Watched -> 0..Timeout + 1]: age_seconds
    cooling,  \* [Watched -> 0..Cooldown]: what is left of the alert cooldown
    checker,  \* the scanning task: "asleep", "scan", "raise" or "dead"
    timer,    \* until a sleep or an alert at most ends
    scan,     \* the scan's next index and the registry's size at its start
    overdue   \* [Watched -> Nat]: how long an agent has deserved an alert in vain

monitoringVars == <<known, age, cooling, checker, timer, scan, overdue>>

Known == Range(known)
Stale(a) == a \in Known /\ age[a] > Timeout

\* The longest delay: what is left of a sleep, and every other agent's alert on
\* the way.
Bound == Interval - 1 + (Cardinality(Watched) - 2) * RaiseTime

MonitoringInit ==
    /\ known = <<>>
    /\ age = [a \in Watched |-> 0]
    /\ cooling = [a \in Watched |-> 0]
    /\ checker = "asleep"
    /\ timer = Interval
    /\ scan = [next |-> 1, size |-> 0]
    /\ overdue = [a \in Watched |-> 0]

\* Wrong: every heartbeat makes a record.
HeartbeatAppends(a) ==
    /\ checker # "scan"
    /\ known' = Append(known, a)
    /\ Len(known) <= Cardinality(Watched)
    /\ age' = [age EXCEPT ![a] = 0]
    /\ overdue' = [overdue EXCEPT ![a] = 0]
    /\ UNCHANGED <<cooling, checker, timer, scan>>

\* _process_heartbeat: a record is made for a new agent and brought up to date.
\* Between two of its awaits the scan is not interrupted.
Heartbeat(a) ==
    /\ checker # "scan"
    /\ known' = IF a \in Known THEN known ELSE Append(known, a)
    /\ age' = [age EXCEPT ![a] = 0]
    /\ overdue' = [overdue EXCEPT ![a] = 0]
    /\ UNCHANGED <<cooling, checker, timer, scan>>

\* _staleness_check_loop wakes up and starts to iterate over the registry.
StartScan ==
    /\ checker = "asleep" /\ timer = 0
    /\ checker' = "scan"
    /\ scan' = [next |-> 1, size |-> Len(known)]
    /\ UNCHANGED <<known, age, cooling, timer, overdue>>

\* The iterator finds that the registry has grown: RuntimeError ends the task, and
\* nobody awaits it.
ScanBreaks ==
    /\ checker = "scan"
    /\ Len(known) # scan.size
    /\ checker' = "dead"
    /\ UNCHANGED <<known, age, cooling, timer, scan, overdue>>

\* The agent the scan has come to.
Current == known[scan.next]

DeservesAlert(a) == a # Self /\ Stale(a) /\ cooling[a] = 0

Skip ==
    /\ checker = "scan"
    /\ Len(known) = scan.size
    /\ scan.next <= scan.size
    /\ ~DeservesAlert(Current)
    /\ scan' = [scan EXCEPT !.next = @ + 1]
    /\ UNCHANGED <<known, age, cooling, checker, timer, overdue>>

\* _raise_alert: the cooldown starts; publish, route and persist are awaited.
RaiseAlert ==
    /\ checker = "scan"
    /\ Len(known) = scan.size
    /\ scan.next <= scan.size
    /\ DeservesAlert(Current)
    /\ cooling' = [cooling EXCEPT ![Current] = Cooldown]
    /\ overdue' = [overdue EXCEPT ![Current] = 0]
    /\ checker' = "raise"
    /\ timer' = RaiseTime
    /\ UNCHANGED <<known, age, scan>>

AlertRaised ==
    /\ checker = "raise"
    /\ checker' = "scan"
    /\ scan' = [scan EXCEPT !.next = @ + 1]
    /\ UNCHANGED <<known, age, cooling, timer, overdue>>

\* Wrong: it sleeps for the timeout instead of the interval.
EndScanSleepsTimeout ==
    /\ checker = "scan"
    /\ Len(known) = scan.size
    /\ scan.next > scan.size
    /\ checker' = "asleep"
    /\ timer' = Timeout
    /\ UNCHANGED <<known, age, cooling, scan, overdue>>

EndScan ==
    /\ checker = "scan"
    /\ Len(known) = scan.size
    /\ scan.next > scan.size
    /\ checker' = "asleep"
    /\ timer' = Interval
    /\ UNCHANGED <<known, age, cooling, scan, overdue>>

\* A second passes: not while the scan runs between two awaits, and not beyond
\* the end of a sleep or of an alert.
Tick ==
    /\ checker # "scan"
    /\ checker = "dead" \/ timer > 0
    /\ age' = [a \in Watched |-> IF a \in Known /\ age[a] <= Timeout THEN age[a] + 1 ELSE age[a]]
    /\ cooling' = [a \in Watched |-> IF cooling[a] > 0 THEN cooling[a] - 1 ELSE 0]
    /\ timer' = IF timer > 0 THEN timer - 1 ELSE 0
    /\ overdue' = [a \in Watched |->
                      IF DeservesAlert(a) /\ overdue[a] <= Bound THEN overdue[a] + 1
                                                                 ELSE overdue[a]]
    /\ UNCHANGED <<known, checker, scan>>

\* The agent crashes or is restarted: the registry starts empty.
Restart ==
    /\ known' = <<>>
    /\ age' = [a \in Watched |-> 0]
    /\ cooling' = [a \in Watched |-> 0]
    /\ checker' = "asleep"
    /\ timer' = Interval
    /\ scan' = [next |-> 1, size |-> 0]
    /\ overdue' = [a \in Watched |-> 0]

MonitoringNext ==
    \/ \E a \in Watched : Heartbeat(a)
    \/ StartScan \/ ScanBreaks \/ Skip \/ RaiseAlert \/ AlertRaised \/ EndScan
    \/ Tick
    \/ Restart

MonitoringSpec == MonitoringInit /\ [][MonitoringNext]_monitoringVars

--------------------------------------------------------------------------------
MonitoringTypeOK ==
    /\ known \in Seq(Watched) /\ IsInjective(known)
    /\ age \in [Watched -> 0..Timeout + 1]
    /\ cooling \in [Watched -> 0..Cooldown]
    /\ checker \in {"asleep", "scan", "raise", "dead"}
    /\ timer \in 0..Interval \/ timer \in 0..RaiseTime
    /\ scan \in [next : Nat \ {0}, size : Nat]
    /\ overdue \in [Watched -> 0..Bound + 1]

\* An agent that has gone silent has its alert at most Bound after it became
\* stale and its cooldown ended, as long as the scanning task lives.
AlertedInTime == \A a \in Watched : overdue[a] <= Bound \/ checker = "dead"
================================================================================
