--------------------------- MODULE AgentLifecycle_proofs ---------------------------
(***************************************************************************)
(* A halt that was heard holds: for any number of agents and halters,      *)
(* under either deployment, through every crash and restart.  And an agent *)
(* that goes silent is reported in time, however many agents are watched.  *)
(***************************************************************************)
EXTENDS AgentLifecycle, Monitoring, FiniteSetTheorems, SequenceTheorems, TLAPS

LEMMA FlagsStep == FlagsTypeOK /\ [Next]_vars => FlagsTypeOK'
<1> SUFFICES ASSUME FlagsTypeOK, [Next]_vars PROVE FlagsTypeOK'
  OBVIOUS
<1> USE DEF FlagsTypeOK, Statuses, control, instance
<1>1. ASSUME NEW a \in Agents, LoadHaltLatch(a) \/ LoadHaltLatchFails(a) PROVE FlagsTypeOK'
  BY <1>1 DEF LoadHaltLatch, LoadHaltLatchFails
<1>2. ASSUME NEW a \in Agents, Started(a) \/ Subscribed(a) \/ ListenerDies(a) \/ Handle(a)
      PROVE  FlagsTypeOK'
  BY <1>2 DEF Started, Subscribed, ListenerDies, Handle
<1>3. ASSUME NEW a \in Agents, HearOverride(a) PROVE FlagsTypeOK'
  BY <1>3 DEF HearOverride
<1>4. ASSUME NEW a \in Agents, HandleError(a) PROVE FlagsTypeOK'
  <2>1. /\ status' \in [Agents -> Statuses]
        /\ unread' \in [Agents -> BOOLEAN]
    BY <1>4, Zenon DEF HandleError
  <2> QED
    BY <1>4, <2>1 DEF HandleError
<1>5. ASSUME NEW a \in Agents, Crash(a) PROVE FlagsTypeOK'
  BY <1>5 DEF Crash, Fresh
<1>6. ASSUME NEW a \in Agents,
             LeaveLoop(a) \/ NewInstance(a) \/ DockerRestart(a) \/ OperatorRestart(a)
      PROVE  FlagsTypeOK'
  BY <1>6 DEF LeaveLoop, NewInstance, DockerRestart, OperatorRestart, Fresh
<1>7. ASSUME Launch \/ WatchForCrash PROVE FlagsTypeOK'
  <2>1. /\ status' \in [Agents -> Statuses]
        /\ listener' \in [Agents -> {"off", "subscribing", "on"}]
    BY <1>7 DEF Launch, WatchForCrash, AllFresh
  <2>2. /\ halted' \in [Agents -> BOOLEAN]
        /\ override' \in [Agents -> BOOLEAN]
    BY <1>7 DEF Launch, WatchForCrash, AllFresh
  <2>4. halting' \in [Halters -> BOOLEAN]
    BY <1>7 DEF Launch, WatchForCrash, AllFresh
  <2>5. unread' = unread
    BY <1>7 DEF Launch, WatchForCrash, AllFresh
  <2>3. /\ ended' \in BOOLEAN
        /\ latch' = latch /\ announced' = announced
        /\ heard' = heard /\ deployment' = deployment
    BY <1>7 DEF Launch, WatchForCrash, AllFresh
  <2> QED
    BY <2>1, <2>2, <2>3, <2>4, <2>5
<1>8. ASSUME NEW h \in Halters, SetLatch(h) \/ PublishOverride(h) \/ PublishOverrideFails(h)
      PROVE  FlagsTypeOK'
  BY <1>8 DEF SetLatch, PublishOverride, PublishOverrideFails
<1>9. ASSUME Resume \/ UNCHANGED vars PROVE FlagsTypeOK'
  BY <1>9 DEF Resume, vars
<1> QED
  BY <1>1, <1>2, <1>3, <1>4, <1>5, <1>6, <1>7, <1>8, <1>9 DEF Next, AgentStep

\* A listener belongs to an instance that runs.
LEMMA ListenerStep == FlagsTypeOK /\ ListenerOfInstance /\ [Next]_vars => ListenerOfInstance'
<1> SUFFICES ASSUME FlagsTypeOK, ListenerOfInstance, [Next]_vars PROVE ListenerOfInstance'
  OBVIOUS
<1>s. /\ status \in [Agents -> Statuses]
      /\ listener \in [Agents -> {"off", "subscribing", "on"}]
      /\ override \in [Agents -> BOOLEAN]
  BY DEF FlagsTypeOK
<1>1. ASSUME NEW a \in Agents, AgentStep(a) \/ DockerRestart(a) \/ OperatorRestart(a)
      PROVE  ListenerOfInstance'
  <2>1. CASE \/ LoadHaltLatch(a) \/ LoadHaltLatchFails(a) \/ Started(a) \/ Subscribed(a)
    BY <2>1, <1>s DEF LoadHaltLatch, LoadHaltLatchFails, Started, Subscribed, ListenerOfInstance
  <2>2. CASE HearOverride(a) \/ ListenerDies(a)
    BY <2>2, <1>s DEF HearOverride, ListenerDies, ListenerOfInstance
  <2>3. CASE HandleError(a)
    BY <2>3, <1>s, Zenon DEF HandleError, ListenerOfInstance
  <2>4. CASE Handle(a)
    BY <2>4 DEF Handle, ListenerOfInstance
  <2>5. CASE Crash(a)
    BY <2>5, <1>s DEF Crash, Fresh, ListenerOfInstance
  <2>6. CASE LeaveLoop(a) \/ NewInstance(a) \/ DockerRestart(a) \/ OperatorRestart(a)
    BY <2>6, <1>s DEF LeaveLoop, NewInstance, DockerRestart, OperatorRestart, Fresh,
           ListenerOfInstance
  <2> QED
    BY <1>1, <2>1, <2>2, <2>3, <2>4, <2>5, <2>6 DEF AgentStep
<1>2. ASSUME Launch PROVE ListenerOfInstance'
  BY <1>2 DEF Launch, AllFresh, ListenerOfInstance
<1>3. ASSUME WatchForCrash PROVE ListenerOfInstance'
  BY <1>3 DEF WatchForCrash, AllFresh, ListenerOfInstance
<1>4. ASSUME NEW h \in Halters, PublishOverride(h) PROVE ListenerOfInstance'
  BY <1>4, <1>s DEF PublishOverride, ListenerOfInstance
<1>5. ASSUME Resume \/ UNCHANGED vars \/ \E h \in Halters : SetLatch(h) \/ PublishOverrideFails(h)
      PROVE  ListenerOfInstance'
  BY <1>5 DEF Resume, SetLatch, PublishOverrideFails, vars, instance, ListenerOfInstance
<1> QED
  BY <1>1, <1>2, <1>3, <1>4, <1>5 DEF Next

\* An agent that has not been quarantined or stopped has errors to spare, and one
\* whose process is alive crashes.
Spare(a) ==
    /\ status[a] \notin {"quarantined", "stopped"} => errors[a] < MaxAgentCrashes
    /\ status[a] # "down" => crashes[a] < MaxAgentCrashes

CountsInv == CountsTypeOK /\ \A a \in Agents : Spare(a)

\* What a step of one agent does to the others' counts: nothing.
LEMMA OthersSpare ==
    ASSUME FlagsTypeOK, CountsInv, NEW a \in Agents,
           /\ errors' = [errors EXCEPT ![a] = errors'[a]]
           /\ crashes' = [crashes EXCEPT ![a] = crashes'[a]]
           /\ status' = [status EXCEPT ![a] = status'[a]],
           errors'[a] \in 0..MaxAgentCrashes, crashes'[a] \in 0..MaxAgentCrashes,
           Spare(a)'
    PROVE  CountsInv'
<1>1. CountsTypeOK'
  BY DEF CountsInv, CountsTypeOK
<1>2. ASSUME NEW b \in Agents PROVE Spare(b)'
  <2>1. CASE b = a
    BY <2>1
  <2>2. CASE b # a
    <3>1. errors'[b] = errors[b] /\ crashes'[b] = crashes[b] /\ status'[b] = status[b]
      BY <2>2 DEF CountsInv, CountsTypeOK, FlagsTypeOK
    <3> QED
      BY <3>1 DEF CountsInv, Spare
  <2> QED
    BY <2>1, <2>2
<1> QED
  BY <1>1, <1>2 DEF CountsInv

LEMMA CountsStep == FlagsTypeOK /\ ListenerOfInstance /\ CountsInv /\ [Next]_vars => CountsInv'
<1> SUFFICES ASSUME FlagsTypeOK, ListenerOfInstance, CountsInv, [Next]_vars PROVE CountsInv'
  OBVIOUS
<1>m. MaxAgentCrashes \in Nat \ {0}
  BY LifecycleAssumption
<1>s. /\ status \in [Agents -> Statuses]
      /\ errors \in [Agents -> 0..MaxAgentCrashes]
      /\ crashes \in [Agents -> 0..MaxAgentCrashes]
  BY DEF FlagsTypeOK, CountsInv, CountsTypeOK
<1>1. ASSUME NEW a \in Agents, AgentStep(a) \/ DockerRestart(a) \/ OperatorRestart(a)
      PROVE  CountsInv'
  <2>s. /\ errors[a] \in 0..MaxAgentCrashes
        /\ crashes[a] \in 0..MaxAgentCrashes
        /\ Spare(a)
    BY <1>s DEF CountsInv
  <2>1. /\ errors' = [errors EXCEPT ![a] = errors'[a]]
        /\ crashes' = [crashes EXCEPT ![a] = crashes'[a]]
        /\ status' = [status EXCEPT ![a] = status'[a]]
    BY <1>1, <1>s DEF AgentStep, LoadHaltLatch, LoadHaltLatchFails, Started, Subscribed,
           HearOverride, ListenerDies, Handle, HandleError, LeaveLoop, Crash, NewInstance,
           DockerRestart, OperatorRestart, Fresh
  <2>2. errors'[a] \in 0..MaxAgentCrashes /\ crashes'[a] \in 0..MaxAgentCrashes /\ Spare(a)'
    <3>1. CASE HandleError(a)
      BY <3>1, <1>m, <1>s, <2>s DEF HandleError, Spare
    <3>2. CASE Crash(a)
      BY <3>2, <1>m, <1>s, <2>s DEF Crash, Fresh, Spare
    <3>3. CASE \/ LoadHaltLatch(a) \/ LoadHaltLatchFails(a) \/ Started(a) \/ Subscribed(a)
               \/ HearOverride(a) \/ ListenerDies(a) \/ Handle(a)
      BY <3>3, <1>m, <1>s, <2>s DEF LoadHaltLatch, LoadHaltLatchFails, Started, Subscribed,
             HearOverride, ListenerDies, Handle, Spare, ListenerOfInstance
    <3>4. CASE LeaveLoop(a) \/ NewInstance(a) \/ DockerRestart(a) \/ OperatorRestart(a)
      BY <3>4, <1>m, <1>s, <2>s DEF LeaveLoop, NewInstance, DockerRestart, OperatorRestart,
             Fresh, Spare
    <3> QED
      BY <1>1, <3>1, <3>2, <3>3, <3>4 DEF AgentStep
  <2> QED
    BY <2>1, <2>2, OthersSpare
<1>2. ASSUME Launch PROVE CountsInv'
  BY <1>2, <1>m, <1>s DEF Launch, AllFresh, CountsInv, CountsTypeOK, Spare
<1>3. ASSUME WatchForCrash PROVE CountsInv'
  BY <1>3, <1>m, <1>s DEF WatchForCrash, AllFresh, CountsInv, CountsTypeOK, Spare
<1>4. ASSUME Resume \/ UNCHANGED vars \/ \E h \in Halters :
                 SetLatch(h) \/ PublishOverride(h) \/ PublishOverrideFails(h)
      PROVE  CountsInv'
  BY <1>4 DEF Resume, SetLatch, PublishOverride, PublishOverrideFails, vars, instance,
         CountsInv, CountsTypeOK, Spare
<1> QED
  BY <1>1, <1>2, <1>3, <1>4 DEF Next

\* Every variable of the life cycle keeps its type (agents/base.py).
THEOREM LifecycleTypeCorrect == Spec => []TypeOK
<1>1. Init => FlagsTypeOK
  BY DEF Init, FlagsTypeOK, Statuses
<1>2. Init => CountsInv
  BY LifecycleAssumption DEF Init, CountsInv, CountsTypeOK, Spare
<1>3. Init => ListenerOfInstance
  BY DEF Init, ListenerOfInstance
<1>4. FlagsTypeOK /\ CountsInv => TypeOK
  BY DEF CountsInv, TypeOK
<1> QED
  BY <1>1, <1>2, <1>3, <1>4, CountsStep, FlagsStep, ListenerStep, PTL DEF Spec

--------------------------------------------------------------------------------
(* Halts *)

LEMMA LatchStep ==
    ASSUME FlagsTypeOK, LatchInv, ListenerOfInstance', [Next]_vars
    PROVE  LatchInv'
<1>s. /\ status \in [Agents -> Statuses]
      /\ halted \in [Agents -> BOOLEAN]
      /\ heard \in [Agents -> BOOLEAN]
      /\ unread \in [Agents -> BOOLEAN]
      /\ override \in [Agents -> BOOLEAN]
      /\ halting \in [Halters -> BOOLEAN]
  BY DEF FlagsTypeOK
<1>1. ASSUME NEW a \in Agents, AgentStep(a) \/ DockerRestart(a) \/ OperatorRestart(a)
      PROVE  LatchInv'
  <2>1. latch' = latch /\ halting' = halting
    BY <1>1 DEF AgentStep, LoadHaltLatch, LoadHaltLatchFails, Started, Subscribed,
           HearOverride, ListenerDies, Handle, HandleError, LeaveLoop, Crash, NewInstance,
           DockerRestart, OperatorRestart, control
  <2>2. CASE HearOverride(a)
    BY <2>1, <2>2, <1>s DEF HearOverride, LatchInv, HaltUnderWay
  <2>3. CASE LoadHaltLatch(a)
    BY <2>1, <2>3, <1>s DEF LoadHaltLatch, LatchInv, HaltUnderWay
  <2>4. CASE Started(a)
    BY <2>1, <2>4, <1>s DEF Started, LatchInv, HaltUnderWay
  <2>5. CASE Subscribed(a) \/ ListenerDies(a) \/ Handle(a)
    BY <2>1, <2>5, <1>s DEF Subscribed, ListenerDies, Handle, LatchInv, HaltUnderWay
  <2>6. CASE HandleError(a)
    BY <2>1, <2>6, <1>s, Zenon DEF HandleError, LatchInv, HaltUnderWay
  <2>7. CASE Crash(a)
    BY <2>1, <2>7, <1>s DEF Crash, Fresh, LatchInv, HaltUnderWay
  <2>8. CASE LeaveLoop(a) \/ NewInstance(a) \/ DockerRestart(a) \/ OperatorRestart(a)
    BY <2>1, <2>8, <1>s DEF LeaveLoop, NewInstance, DockerRestart, OperatorRestart, Fresh,
           LatchInv, HaltUnderWay
  <2>9. CASE LoadHaltLatchFails(a)
    BY <2>1, <2>9, <1>s DEF LoadHaltLatchFails, LatchInv, HaltUnderWay
  <2> QED
    BY <1>1, <2>2, <2>3, <2>4, <2>5, <2>6, <2>7, <2>8, <2>9 DEF AgentStep
<1>2. ASSUME Launch PROVE LatchInv'
  BY <1>2, <1>s DEF Launch, AllFresh, LatchInv, HaltUnderWay
<1>3. ASSUME WatchForCrash PROVE LatchInv'
  BY <1>3, <1>s DEF WatchForCrash, AllFresh, LatchInv, HaltUnderWay
<1>4. ASSUME NEW h \in Halters, SetLatch(h) PROVE LatchInv'
  BY <1>4, <1>s DEF SetLatch, instance, LatchInv
<1>5. ASSUME NEW h \in Halters, PublishOverride(h) \/ PublishOverrideFails(h) PROVE LatchInv'
  BY <1>5, <1>s DEF PublishOverride, PublishOverrideFails, instance, LatchInv, HaltUnderWay
<1>6. ASSUME Resume PROVE LatchInv'
  BY <1>6, <1>s DEF Resume, instance, LatchInv, HaltUnderWay
<1>7. ASSUME UNCHANGED vars PROVE LatchInv'
  BY <1>7 DEF vars, control, instance, LatchInv, HaltUnderWay
<1> QED
  BY <1>1, <1>2, <1>3, <1>4, <1>5, <1>6, <1>7 DEF Next

\* Behind every override that was published or heard stands the latch, and whoever heard
\* one is halted or has yet to read the latch, through any crash and restart
\* (agents/base.py:140-170, api/routers/control.py:120-134).
THEOREM LatchStands == Spec => []LatchInv
<1>1. Init => FlagsTypeOK
  BY DEF Init, FlagsTypeOK, Statuses
<1>2. Init => LatchInv
  BY DEF Init, LatchInv, ListenerOfInstance, HaltUnderWay
<1>3. LatchInv => ListenerOfInstance
  BY DEF LatchInv
<1>4. FlagsTypeOK /\ LatchInv /\ ListenerOfInstance' /\ [Next]_vars => LatchInv'
  BY LatchStep
<1> QED
  BY <1>1, <1>2, <1>3, <1>4, FlagsStep, ListenerStep, PTL DEF Spec

\* An agent that heard an override trades no more before a resume, whatever
\* crashes and restarts come in between, unless it once could not read the latch
\* (agents/base.py:307-321, api/routers/control.py:134).
THEOREM HaltHolds == Spec => []HeardStaysHalted
<1>1. LatchInv => HeardStaysHalted
  BY DEF LatchInv, HeardStaysHalted, Trading
<1> QED
  BY <1>1, LatchStands, PTL

--------------------------------------------------------------------------------
(* The watch over the agents: Monitoring *)

\* The agents whose alerts may come between position lo and position hi.
Between(lo, hi) == {known[k] : k \in lo..hi} \ {Self}

\* Where the scan goes on once the alert that is being raised is out.
From == IF checker = "raise" THEN scan.next + 1 ELSE scan.next

\* The agents that can be alerted before the one at position p.
Ahead(p) ==
    IF checker = "asleep" THEN Between(1, p - 1)
    ELSE IF From <= p THEN Between(From, p - 1)
    ELSE Between(From, scan.size) \union Between(1, p - 1)

\* The longest time until the scan comes to the agent at position p.
Delay(p) ==
      (IF checker = "scan" THEN 0 ELSE timer)
    + (IF checker # "asleep" /\ From > p THEN Interval ELSE 0)
    + Cardinality(Ahead(p)) * RaiseTime

\* Where the scan is: an alert that is being raised is somebody else's, and its cooldown
\* outlasts it.
ScanInv ==
    /\ checker = "asleep" => timer <= Interval
    /\ checker \in {"scan", "raise"} => scan.size <= Len(known)
    /\ checker = "raise" =>
          /\ scan.next <= scan.size
          /\ known[scan.next] # Self
          /\ timer <= RaiseTime
          /\ cooling[known[scan.next]] > timer

\* Whoever has waited still deserves the alert, and what it has waited and may still have
\* to wait are not more than Bound.
WaitInv ==
    /\ \A a \in Watched : overdue[a] > 0 => DeservesAlert(a)
    /\ checker # "dead" =>
          \A p \in 1..Len(known) :
              DeservesAlert(known[p]) => overdue[known[p]] + Delay(p) <= Bound

\* The inductive invariant behind AlertedInTime.
AlertInv == MonitoringTypeOK /\ ScanInv /\ WaitInv

LEMMA RangeOfKnown ==
    ASSUME NEW s \in Seq(Watched)
    PROVE  /\ Len(s) \in Nat
           /\ \A p \in 1..Len(s) : s[p] \in Watched /\ s[p] \in Range(s)
           /\ \A a \in Range(s) : \E p \in 1..Len(s) : s[p] = a
           /\ Range(s) \subseteq Watched
BY DEF Range

LEMMA BoundIsNatural == Bound \in Nat /\ Cardinality(Watched) \in Nat /\ Cardinality(Watched) > 1
<1>1. Cardinality(Watched) \in Nat /\ Cardinality(Watched) > 1
  BY MonitoringAssumption, FS_CardinalityType
<1>2. \A n \in Nat : n * RaiseTime \in Nat
  BY MonitoringAssumption
<1>3. (Cardinality(Watched) - 2) * RaiseTime \in Nat
  BY <1>1, <1>2
<1> QED BY <1>1, <1>3, MonitoringAssumption DEF Bound

\* A scan that has fewer alerts before it takes no longer.
LEMMA FewerAlerts ==
    ASSUME NEW S, IsFiniteSet(S), NEW T \in SUBSET S
    PROVE  /\ Cardinality(T) * RaiseTime \in Nat
           /\ Cardinality(S) * RaiseTime \in Nat
           /\ Cardinality(T) * RaiseTime <= Cardinality(S) * RaiseTime
<1>1. Cardinality(T) \in Nat /\ Cardinality(S) \in Nat /\ Cardinality(T) <= Cardinality(S)
  BY FS_Subset, FS_CardinalityType
<1>2. \A m, n \in Nat : m <= n => m * RaiseTime \in Nat /\ n * RaiseTime \in Nat /\ m * RaiseTime <= n * RaiseTime
  BY MonitoringAssumption
<1> QED BY <1>1, <1>2

LEMMA OneAlertLess ==
    ASSUME NEW S, IsFiniteSet(S), NEW x \in S, NEW T \in SUBSET (S \ {x})
    PROVE  /\ Cardinality(T) * RaiseTime \in Nat
           /\ Cardinality(S) * RaiseTime \in Nat
           /\ Cardinality(T) * RaiseTime + RaiseTime <= Cardinality(S) * RaiseTime
<1>1. IsFiniteSet(S \ {x}) /\ Cardinality(S \ {x}) = Cardinality(S) - 1 /\ Cardinality(S) \in Nat
      /\ Cardinality(S \ {x}) \in Nat
  BY FS_RemoveElement, FS_CardinalityType
<1>2. /\ Cardinality(T) * RaiseTime \in Nat
      /\ Cardinality(T) * RaiseTime <= Cardinality(S \ {x}) * RaiseTime
  BY <1>1, FewerAlerts
<1>3. \A n \in Nat : n * RaiseTime \in Nat /\ (n + 1) * RaiseTime = n * RaiseTime + RaiseTime
  BY MonitoringAssumption
<1>4. Cardinality(S) = Cardinality(S \ {x}) + 1
  BY <1>1
<1>5. Cardinality(S) * RaiseTime = Cardinality(S \ {x}) * RaiseTime + RaiseTime /\ Cardinality(S) * RaiseTime \in Nat
  BY <1>1, <1>3, <1>4
<1> QED BY <1>1, <1>2, <1>3, <1>5, MonitoringAssumption

LEMMA KnownOnce ==
    ASSUME MonitoringTypeOK
    PROVE  /\ known \in Seq(Watched) /\ Len(known) \in Nat /\ DOMAIN known = 1..Len(known)
           /\ \A p \in 1..Len(known) : known[p] \in Watched
           /\ \A j, k \in 1..Len(known) : known[j] = known[k] => j = k
<1>1. known \in Seq(Watched) /\ Len(known) \in Nat /\ DOMAIN known = 1..Len(known)
  BY DEF MonitoringTypeOK
<1>2. \A j, k \in DOMAIN known : known[j] = known[k] => j = k
  BY DEF MonitoringTypeOK, IsInjective
<1> QED BY <1>1, <1>2

LEMMA MonitoringTypesStep ==
    MonitoringTypeOK /\ [MonitoringNext]_monitoringVars => MonitoringTypeOK'
<1> SUFFICES ASSUME MonitoringTypeOK, [MonitoringNext]_monitoringVars
             PROVE  MonitoringTypeOK'
  OBVIOUS
<1> USE MonitoringAssumption DEF MonitoringTypeOK
<1>b. Bound \in Nat
  BY BoundIsNatural
<1>i. /\ known \in Seq(Watched) /\ Len(known) \in Nat /\ DOMAIN known = 1..Len(known)
      /\ \A j, k \in 1..Len(known) : known[j] = known[k] => j = k
  BY KnownOnce
<1>1. ASSUME NEW a \in Watched, Heartbeat(a) PROVE MonitoringTypeOK'
  <2>1. known' \in Seq(Watched) /\ IsInjective(known')
    <3>1. CASE a \in Known
      BY <1>1, <3>1 DEF Heartbeat
    <3>2. CASE a \notin Known
      <4>1. known' = Append(known, a)
        BY <1>1, <3>2 DEF Heartbeat
      <4>2. \A j \in 1..Len(known) : known[j] # a
        <5>1. \A j \in 1..Len(known) : known[j] \in Known
          BY <1>i, RangeOfKnown DEF Known
        <5> QED BY <3>2, <5>1
      <4>3. DOMAIN known' = 1..Len(known) + 1 /\ DOMAIN known = 1..Len(known) /\ Len(known) \in Nat
        BY <4>1
      <4>4. known'[Len(known) + 1] = a /\ \A j \in 1..Len(known) : known'[j] = known[j]
        BY <4>1, AppendProperties
      <4> DEFINE n == Len(known)
                 t == known'
      <4>5. ASSUME NEW j \in 1..n + 1, NEW k \in 1..n + 1, t[j] = t[k] PROVE j = k
        <5>1. /\ n \in Nat /\ t[n + 1] = a
              /\ \A i \in 1..n : t[i] # a
              /\ \A i, m \in 1..n : t[i] = t[m] => i = m
          BY <1>i, <4>2, <4>4
        <5> HIDE DEF n, t
        <5>2. (j \in 1..n \/ j = n + 1) /\ (k \in 1..n \/ k = n + 1)
          BY <5>1
        <5>3. j = n + 1 <=> k = n + 1
          BY <4>5, <5>1, <5>2
        <5> QED BY <4>5, <5>1, <5>2, <5>3
      <4>6. IsInjective(known')
        BY <4>3, <4>5 DEF IsInjective
      <4> QED BY <4>1, <4>6
    <3> QED BY <3>1, <3>2
  <2>2. age' \in [Watched -> 0..Timeout + 1] /\ overdue' \in [Watched -> 0..Bound + 1]
    <3>1. age' = [age EXCEPT ![a] = 0] /\ overdue' = [overdue EXCEPT ![a] = 0]
      BY <1>1 DEF Heartbeat
    <3> QED BY <1>b, <3>1
  <2> QED BY <1>1, <2>1, <2>2 DEF Heartbeat
<1>2. ASSUME StartScan \/ ScanBreaks \/ Skip \/ AlertRaised \/ EndScan PROVE MonitoringTypeOK'
  <2>1. UNCHANGED <<known, age, cooling, overdue>>
    BY <1>2 DEF StartScan, ScanBreaks, Skip, AlertRaised, EndScan
  <2>2. checker' \in {"asleep", "scan", "raise", "dead"} /\ (timer' = timer \/ timer' = Interval)
    BY <1>2 DEF StartScan, ScanBreaks, Skip, AlertRaised, EndScan
  <2>3. scan' \in [next : Nat \ {0}, size : Nat]
    <3>1. CASE StartScan
      BY <3>1, RangeOfKnown DEF StartScan
    <3>2. CASE Skip \/ AlertRaised
      <4>1. scan' = [scan EXCEPT !.next = scan.next + 1]
        BY <3>2 DEF Skip, AlertRaised
      <4>2. scan.next + 1 \in Nat \ {0}
        OBVIOUS
      <4> QED BY <4>1, <4>2
    <3> QED BY <1>2, <3>1, <3>2 DEF ScanBreaks, EndScan
  <2> QED BY <2>1, <2>2, <2>3
<1>3. ASSUME RaiseAlert PROVE MonitoringTypeOK'
  <2>1. cooling' \in [Watched -> 0..Cooldown]
    <3>1. cooling' = [cooling EXCEPT ![Current] = Cooldown] /\ Cooldown \in 0..Cooldown
      BY <1>3 DEF RaiseAlert
    <3> QED BY <3>1
  <2>2. overdue' \in [Watched -> 0..Bound + 1]
    <3>1. overdue' = [overdue EXCEPT ![Current] = 0] /\ 0 \in 0..Bound + 1
      BY <1>3, <1>b DEF RaiseAlert
    <3> QED BY <3>1
  <2> QED BY <1>3, <2>1, <2>2 DEF RaiseAlert
<1>4. ASSUME Tick PROVE MonitoringTypeOK'
  <2>1. age' \in [Watched -> 0..Timeout + 1]
    <3>1. ASSUME NEW a \in Watched
          PROVE  (IF a \in Known /\ age[a] <= Timeout THEN age[a] + 1 ELSE age[a]) \in 0..Timeout + 1
      OBVIOUS
    <3> QED BY <1>4, <3>1 DEF Tick
  <2>2. cooling' \in [Watched -> 0..Cooldown]
    BY <1>4 DEF Tick
  <2>3. overdue' \in [Watched -> 0..Bound + 1]
    <3>1. ASSUME NEW a \in Watched
          PROVE  (IF DeservesAlert(a) /\ overdue[a] <= Bound THEN overdue[a] + 1 ELSE overdue[a])
                     \in 0..Bound + 1
      BY <1>b
    <3> QED BY <1>4, <3>1 DEF Tick
  <2> QED BY <1>4, <2>1, <2>2, <2>3 DEF Tick
<1>5. ASSUME Restart PROVE MonitoringTypeOK'
  <2>1. IsInjective(known')
    BY <1>5 DEF Restart, IsInjective
  <2> QED BY <1>5, <1>b, <2>1 DEF Restart
<1>6. ASSUME UNCHANGED monitoringVars PROVE MonitoringTypeOK'
  BY <1>6 DEF monitoringVars
<1> QED BY <1>1, <1>2, <1>3, <1>4, <1>5, <1>6 DEF MonitoringNext


LEMMA BetweenPositions ==
    ASSUME MonitoringTypeOK, NEW lo \in Nat \ {0}, NEW hi \in Int, hi <= Len(known)
    PROVE  /\ Between(lo, hi) \subseteq Watched \ {Self}
           /\ \A p \in 1..Len(known) : p \notin lo..hi => known[p] \notin Between(lo, hi)
           /\ \A p \in lo..hi : known[p] # Self => known[p] \in Between(lo, hi)
<1>1. /\ Len(known) \in Nat
      /\ \A p \in 1..Len(known) : known[p] \in Watched
      /\ \A j, k \in 1..Len(known) : known[j] = known[k] => j = k
  BY KnownOnce
<1>2. \A p \in lo..hi : p \in 1..Len(known)
  BY <1>1
<1> QED BY <1>1, <1>2 DEF Between

\* What is ahead of an agent is neither the monitor nor this agent nor the one whose alert
\* is being raised.
LEMMA AheadOfAnAgent ==
    ASSUME MonitoringTypeOK, ScanInv, checker # "dead", NEW p \in 1..Len(known)
    PROVE  /\ Ahead(p) \subseteq Watched \ {Self}
           /\ IsFiniteSet(Ahead(p)) /\ IsFiniteSet(Watched)
           /\ known[p] \notin Ahead(p)
           /\ checker = "raise" => known[scan.next] \notin Ahead(p)
<1>1. /\ Len(known) \in Nat
      /\ scan.next \in Nat \ {0} /\ scan.size \in Nat
      /\ From \in Nat \ {0}
      /\ checker \in {"asleep", "scan", "raise"}
  BY KnownOnce DEF MonitoringTypeOK, From
<1>2. checker # "asleep" => scan.size <= Len(known)
  BY <1>1 DEF ScanInv
<1>3. checker = "raise" => scan.next \in 1..Len(known) /\ From = scan.next + 1
  BY <1>1, <1>2 DEF ScanInv, From
<1>4. CASE checker = "asleep"
  <2>1. Ahead(p) = Between(1, p - 1)
    BY <1>4 DEF Ahead
  <2>2. p - 1 \in Int /\ p - 1 <= Len(known) /\ p \notin 1..p - 1 /\ 1 \in Nat \ {0}
    BY <1>1
  <2>3. Ahead(p) \subseteq Watched \ {Self} /\ known[p] \notin Ahead(p)
    BY <2>1, <2>2, BetweenPositions
  <2> QED BY <1>4, <2>3, FS_Subset, MonitoringAssumption
<1>5. CASE checker # "asleep" /\ From <= p
  <2>1. Ahead(p) = Between(From, p - 1)
    BY <1>5 DEF Ahead
  <2>2. p - 1 \in Int /\ p - 1 <= Len(known) /\ p \notin From..p - 1
    BY <1>1
  <2>3. Ahead(p) \subseteq Watched \ {Self} /\ known[p] \notin Ahead(p)
    BY <1>1, <2>1, <2>2, BetweenPositions
  <2>4. checker = "raise" => scan.next \notin From..p - 1
    BY <1>1, <1>3
  <2>5. checker = "raise" => known[scan.next] \notin Ahead(p)
    BY <1>1, <1>3, <2>1, <2>2, <2>4, BetweenPositions
  <2> QED BY <2>3, <2>5, FS_Subset, MonitoringAssumption
<1>6. CASE checker # "asleep" /\ ~(From <= p)
  <2>1. Ahead(p) = Between(From, scan.size) \union Between(1, p - 1)
    BY <1>6 DEF Ahead
  <2>2. /\ p - 1 \in Int /\ p - 1 <= Len(known) /\ 1 \in Nat \ {0}
        /\ scan.size \in Int /\ scan.size <= Len(known)
        /\ p \notin From..scan.size /\ p \notin 1..p - 1
    BY <1>1, <1>2, <1>6
  <2>3. /\ Between(From, scan.size) \subseteq Watched \ {Self}
        /\ known[p] \notin Between(From, scan.size)
    BY <1>1, <2>2, BetweenPositions
  <2>4. Between(1, p - 1) \subseteq Watched \ {Self} /\ known[p] \notin Between(1, p - 1)
    BY <2>2, BetweenPositions
  <2>6. checker = "raise" => scan.next \notin From..scan.size /\ scan.next \notin 1..p - 1
    BY <1>1, <1>3, <1>6
  <2>5. checker = "raise" =>
            /\ known[scan.next] \notin Between(From, scan.size)
            /\ known[scan.next] \notin Between(1, p - 1)
    <3>1. checker = "raise" => known[scan.next] \notin Between(From, scan.size)
      BY <1>1, <1>3, <2>2, <2>6, BetweenPositions
    <3>2. checker = "raise" => known[scan.next] \notin Between(1, p - 1)
      BY <1>1, <1>3, <2>2, <2>6, BetweenPositions
    <3> QED BY <3>1, <3>2
  <2> QED BY <2>1, <2>3, <2>4, <2>5, FS_Subset, MonitoringAssumption
<1> QED BY <1>4, <1>5, <1>6

\* Whoever is not being alerted waits, once a second has passed, no longer than Bound.
LEMMA DelayIsBounded ==
    ASSUME MonitoringTypeOK, ScanInv, checker # "dead", NEW p \in 1..Len(known),
           known[p] # Self,
           checker = "raise" => scan.next # p
    PROVE  Delay(p) \in Nat /\ Delay(p) <= Bound + 1
<1> DEFINE W == Watched
           n == Cardinality(Watched)
           wait == (IF checker = "scan" THEN 0 ELSE timer)
                 + (IF checker # "asleep" /\ From > p THEN Interval ELSE 0)
           alerts == Cardinality(Ahead(p)) * RaiseTime
           others == Watched \ {Self, known[p]}
<1>1. /\ Len(known) \in Nat /\ known[p] \in Watched
      /\ scan.next \in Nat \ {0} /\ scan.size \in Nat
      /\ From \in Nat \ {0}
      /\ checker \in {"asleep", "scan", "raise"}
      /\ timer \in Nat
      /\ Interval \in Nat \ {0} /\ RaiseTime \in Nat
      /\ n \in Nat /\ n > 1
  <2>1. Len(known) \in Nat /\ known[p] \in Watched
    BY KnownOnce
  <2>2. /\ scan.next \in Nat \ {0} /\ scan.size \in Nat
        /\ checker \in {"asleep", "scan", "raise"}
    BY DEF MonitoringTypeOK
  <2>3. From \in Nat \ {0}
    BY <2>2 DEF From
  <2>4. timer \in Nat /\ Interval \in Nat \ {0} /\ RaiseTime \in Nat
    BY MonitoringAssumption DEF MonitoringTypeOK
  <2> QED BY <2>1, <2>2, <2>3, <2>4, BoundIsNatural
<1>2. /\ Ahead(p) \subseteq others
      /\ IsFiniteSet(Ahead(p)) /\ IsFiniteSet(Watched)
      /\ checker = "raise" => known[scan.next] \notin Ahead(p)
  BY AheadOfAnAgent
<1>3. IsFiniteSet(others) /\ Cardinality(others) = n - 2
  <2>1. IsFiniteSet(Watched \ {Self}) /\ Cardinality(Watched \ {Self}) = n - 1
    BY <1>2, FS_RemoveElement, MonitoringAssumption
  <2>2. others = (Watched \ {Self}) \ {known[p]} /\ known[p] \in Watched \ {Self}
    BY <1>1
  <2>3. /\ IsFiniteSet((Watched \ {Self}) \ {known[p]})
        /\ Cardinality((Watched \ {Self}) \ {known[p]}) = Cardinality(Watched \ {Self}) - 1
    BY <2>1, <2>2, FS_RemoveElement
  <2>4. others = (Watched \ {Self}) \ {known[p]}
    BY <2>2
  <2> HIDE DEF others, n
  <2> QED BY <1>1, <2>1, <2>3, <2>4
<1>4. Bound + 1 = Interval + (n - 2) * RaiseTime /\ (n - 2) * RaiseTime \in Nat
  <2>1. \A m \in Nat : m * RaiseTime \in Nat
    BY <1>1
  <2>2. (n - 2) * RaiseTime \in Nat
    BY <1>1, <2>1
  <2> DEFINE prod == (n - 2) * RaiseTime
  <2>3. Bound = Interval - 1 + prod
    BY DEF Bound
  <2>4. prod \in Nat
    BY <2>2
  <2> HIDE DEF prod
  <2>5. Bound + 1 = Interval + prod
    BY <1>1, <2>3, <2>4
  <2> QED BY <2>4, <2>5 DEF prod
<1>5. Delay(p) = wait + alerts
  BY DEF Delay
<1>6. CASE checker = "raise"
  <2>1. scan.next \in 1..Len(known) /\ known[scan.next] # Self /\ timer <= RaiseTime
    BY <1>1, <1>6 DEF ScanInv
  <2>2. known[scan.next] # known[p]
    BY <1>6, <2>1, KnownOnce
  <2>3. known[scan.next] \in others
    BY <2>1, <2>2, KnownOnce
  <2>4. Ahead(p) \subseteq others \ {known[scan.next]}
    BY <1>2, <1>6
  <2> HIDE DEF others
  <2>5. /\ alerts \in Nat
        /\ alerts + RaiseTime <= Cardinality(others) * RaiseTime
    BY <1>3, <2>3, <2>4, OneAlertLess
  <2>6. wait \in Nat /\ wait <= RaiseTime + Interval
    BY <1>1, <1>6, <2>1
  <2>7. Cardinality(others) * RaiseTime = (n - 2) * RaiseTime
    BY <1>3
  <2> HIDE DEF wait, alerts, n
  <2> QED BY <1>1, <1>4, <1>5, <2>5, <2>6, <2>7
<1>7. CASE checker # "raise"
  <2>1. wait \in Nat /\ wait <= Interval
    BY <1>1, <1>7 DEF ScanInv
  <2> HIDE DEF others
  <2>2. alerts \in Nat /\ alerts <= Cardinality(others) * RaiseTime
    BY <1>2, <1>3, FewerAlerts
  <2>3. Cardinality(others) * RaiseTime = (n - 2) * RaiseTime
    BY <1>3
  <2> HIDE DEF wait, alerts, n
  <2> QED BY <1>1, <1>4, <1>5, <2>1, <2>2, <2>3
<1> QED BY <1>6, <1>7

LEMMA ScanStep ==
    MonitoringTypeOK /\ ScanInv /\ Cooldown > RaiseTime /\ [MonitoringNext]_monitoringVars => ScanInv'
<1> SUFFICES ASSUME MonitoringTypeOK, ScanInv, Cooldown > RaiseTime,
                    [MonitoringNext]_monitoringVars
             PROVE  ScanInv'
  OBVIOUS
<1>a. /\ Len(known) \in Nat /\ scan.next \in Nat \ {0} /\ scan.size \in Nat
      /\ timer \in Nat /\ Interval \in Nat \ {0} /\ RaiseTime \in Nat /\ Cooldown \in Nat
      /\ \A a \in Watched : cooling[a] \in Nat
      /\ \A q \in 1..Len(known) : known[q] \in Watched
  BY MonitoringAssumption, KnownOnce DEF MonitoringTypeOK
<1>b. checker = "raise" => scan.next \in 1..Len(known)
  BY <1>a DEF ScanInv
<1>1. ASSUME NEW a \in Watched, Heartbeat(a) PROVE ScanInv'
  <2>1. /\ Len(known') \in Nat /\ Len(known') >= Len(known)
        /\ \A q \in 1..Len(known) : known'[q] = known[q]
    BY <1>1, AppendProperties DEF Heartbeat, MonitoringTypeOK
  <2>2. UNCHANGED <<cooling, checker, timer, scan>>
    BY <1>1 DEF Heartbeat
  <2> QED BY <1>a, <1>b, <2>1, <2>2 DEF ScanInv
<1>2. ASSUME StartScan \/ ScanBreaks \/ Skip \/ AlertRaised \/ EndScan PROVE ScanInv'
  <2>1. CASE StartScan
    BY <2>1, <1>a DEF StartScan, ScanInv
  <2>2. CASE ScanBreaks \/ EndScan
    BY <2>2, <1>a DEF ScanBreaks, EndScan, ScanInv
  <2>3. CASE Skip \/ AlertRaised
    <3>1. checker' = "scan" /\ known' = known /\ checker \in {"scan", "raise"}
      BY <2>3 DEF Skip, AlertRaised
    <3>2. scan'.size = scan.size
      BY <2>3 DEF Skip, AlertRaised, MonitoringTypeOK
    <3> QED BY <3>1, <3>2 DEF ScanInv
  <2> QED BY <1>2, <2>1, <2>2, <2>3
<1>3. ASSUME RaiseAlert PROVE ScanInv'
  <2>1. Current \in Watched /\ Current # Self /\ scan.next \in 1..Len(known)
    BY <1>3, <1>a DEF RaiseAlert, DeservesAlert, Current
  <2>2. cooling'[Current] = Cooldown
    BY <1>3, <2>1 DEF RaiseAlert, MonitoringTypeOK
  <2>3. /\ checker' = "raise" /\ timer' = RaiseTime /\ UNCHANGED <<known, scan>>
        /\ Current = known[scan.next]
        /\ scan.next <= scan.size /\ scan.size = Len(known)
    BY <1>3 DEF RaiseAlert, Current
  <2> QED BY <1>a, <2>1, <2>2, <2>3 DEF ScanInv
<1>4. ASSUME Tick PROVE ScanInv'
  <2>1. UNCHANGED <<known, checker, scan>> /\ timer' \in Nat /\ timer' <= timer
        /\ (checker = "raise" => timer' < timer)
    BY <1>4, <1>a DEF Tick
  <2>2. \A a \in Watched : cooling'[a] = IF cooling[a] > 0 THEN cooling[a] - 1 ELSE 0
    BY <1>4 DEF Tick
  <2>3. checker = "raise" => timer' = timer - 1
    BY <1>4, <1>a DEF Tick
  <2> QED BY <1>a, <1>b, <2>1, <2>2, <2>3 DEF ScanInv
<1>5. ASSUME Restart PROVE ScanInv'
  BY <1>5, <1>a DEF Restart, ScanInv
<1>6. ASSUME UNCHANGED monitoringVars PROVE ScanInv'
  BY <1>6 DEF monitoringVars, ScanInv
<1> QED BY <1>1, <1>2, <1>3, <1>4, <1>5, <1>6 DEF MonitoringNext

\* Whoever waits deserves its alert.
LEMMA WaitsInVainStep ==
    MonitoringTypeOK /\ WaitInv /\ [MonitoringNext]_monitoringVars
        => \A a \in Watched : overdue'[a] > 0 => DeservesAlert(a)'
<1> SUFFICES ASSUME MonitoringTypeOK, WaitInv, [MonitoringNext]_monitoringVars,
                    NEW a \in Watched, overdue'[a] > 0
             PROVE  DeservesAlert(a)'
  OBVIOUS
<1>a. /\ overdue \in [Watched -> Nat] /\ cooling \in [Watched -> Nat] /\ age \in [Watched -> Nat]
      /\ overdue[a] > 0 => DeservesAlert(a)
      /\ Timeout \in Nat
  BY BoundIsNatural, MonitoringAssumption DEF MonitoringTypeOK, WaitInv
<1>1. ASSUME NEW b \in Watched, Heartbeat(b) PROVE DeservesAlert(a)'
  <2>1. a # b /\ overdue'[a] = overdue[a] /\ cooling'[a] = cooling[a] /\ age'[a] = age[a]
    BY <1>1, <1>a DEF Heartbeat
  <2>2. Known \subseteq Known'
    <3>1. CASE b \in Known
      BY <1>1, <3>1 DEF Heartbeat, Known
    <3>2. CASE b \notin Known
      <4>1. known' = Append(known, b) /\ known \in Seq(Watched)
        BY <1>1, <3>2 DEF Heartbeat, MonitoringTypeOK
      <4> QED BY <4>1, AppendProperties DEF Known, Range
    <3> QED BY <3>1, <3>2
  <2> QED BY <1>a, <2>1, <2>2 DEF DeservesAlert, Stale
<1>2. ASSUME StartScan \/ ScanBreaks \/ Skip \/ AlertRaised \/ EndScan \/ UNCHANGED monitoringVars
      PROVE  DeservesAlert(a)'
  <2>1. UNCHANGED <<known, age, cooling, overdue>>
    BY <1>2 DEF StartScan, ScanBreaks, Skip, AlertRaised, EndScan, monitoringVars
  <2> QED BY <1>a, <2>1 DEF DeservesAlert, Stale, Known
<1>3. ASSUME RaiseAlert PROVE DeservesAlert(a)'
  <2>1. a # Current /\ overdue'[a] = overdue[a] /\ cooling'[a] = cooling[a] /\ UNCHANGED <<known, age>>
    BY <1>3, <1>a DEF RaiseAlert
  <2> QED BY <1>a, <2>1 DEF DeservesAlert, Stale, Known
<1>4. ASSUME Tick PROVE DeservesAlert(a)'
  <2>1. /\ age'[a] = IF a \in Known /\ age[a] <= Timeout THEN age[a] + 1 ELSE age[a]
        /\ cooling'[a] = IF cooling[a] > 0 THEN cooling[a] - 1 ELSE 0
        /\ known' = known
    BY <1>4 DEF Tick
  <2>2. DeservesAlert(a)
    BY <1>4, <1>a DEF Tick
  <2> QED BY <1>a, <2>1, <2>2 DEF DeservesAlert, Stale, Known
<1>5. ASSUME Restart PROVE DeservesAlert(a)'
  BY <1>5 DEF Restart
<1> QED BY <1>1, <1>2, <1>3, <1>4, <1>5 DEF MonitoringNext

\* The scan comes nearer with every step, and with every second that passes.
LEMMA WaitStep ==
    MonitoringTypeOK /\ ScanInv /\ WaitInv /\ Cooldown > RaiseTime /\ [MonitoringNext]_monitoringVars
        => WaitInv'
<1> SUFFICES ASSUME MonitoringTypeOK, ScanInv, WaitInv, Cooldown > RaiseTime,
                    [MonitoringNext]_monitoringVars, checker' # "dead",
                    NEW p \in 1..Len(known'), DeservesAlert(known[p])'
             PROVE  (overdue[known[p]] + Delay(p))' <= Bound
  BY WaitsInVainStep DEF WaitInv, Bound
<1>a. /\ Len(known) \in Nat /\ scan.next \in Nat \ {0} /\ scan.size \in Nat
      /\ checker \in {"asleep", "scan", "raise", "dead"}
      /\ timer \in Nat /\ Interval \in Nat \ {0} /\ RaiseTime \in Nat /\ Cooldown \in Nat
      /\ \A q \in 1..Len(known) :
            /\ known[q] \in Watched
            /\ cooling[known[q]] \in Nat /\ overdue[known[q]] \in Nat
      /\ \A q, r \in 1..Len(known) : known[q] = known[r] => q = r
  <2>1. /\ scan.next \in Nat \ {0} /\ scan.size \in Nat
        /\ checker \in {"asleep", "scan", "raise", "dead"}
        /\ timer \in Nat /\ Interval \in Nat \ {0} /\ RaiseTime \in Nat /\ Cooldown \in Nat
        /\ cooling \in [Watched -> Nat] /\ overdue \in [Watched -> Nat]
    BY MonitoringAssumption, BoundIsNatural DEF MonitoringTypeOK
  <2> QED BY <2>1, KnownOnce
<1>b. Bound \in Nat
  BY BoundIsNatural
<1>c. /\ Delay(p) = (IF checker = "scan" THEN 0 ELSE timer)
                    + (IF checker # "asleep" /\ From > p THEN Interval ELSE 0)
                    + Cardinality(Ahead(p)) * RaiseTime
      /\ Delay(p)' = (IF checker' = "scan" THEN 0 ELSE timer')
                     + (IF checker' # "asleep" /\ From' > p THEN Interval ELSE 0)
                     + Cardinality(Ahead(p)') * RaiseTime
  BY DEF Delay
<1>d. ASSUME known' = known
      PROVE  /\ p \in 1..Len(known)
             /\ \A lo, hi : Between(lo, hi)' = Between(lo, hi)
             /\ checker # "dead" /\ DeservesAlert(known[p]) =>
                   /\ overdue[known[p]] + Delay(p) <= Bound
                   /\ IsFiniteSet(Ahead(p))
  BY <1>d, AheadOfAnAgent DEF Between, WaitInv
<1>e. ASSUME known' = known, age' = age, cooling'[known[p]] = cooling[known[p]],
             checker # "dead"
      PROVE  DeservesAlert(known[p])
  <2>1. known[p]' = known[p]
    BY <1>e
  <2>2. known[p] # Self /\ Stale(known[p])' /\ cooling'[known[p]] = 0
    BY <2>1 DEF DeservesAlert, Stale
  <2> QED BY <1>e, <2>2 DEF DeservesAlert, Stale, Known
<1>1. ASSUME NEW b \in Watched, Heartbeat(b) PROVE (overdue[known[p]] + Delay(p))' <= Bound
  <2>1. /\ UNCHANGED <<cooling, checker, timer, scan>>
        /\ checker # "scan"
        /\ age'[b] = 0 /\ overdue'[b] = 0
        /\ \A a \in Watched \ {b} : age'[a] = age[a] /\ overdue'[a] = overdue[a]
    BY <1>1 DEF Heartbeat, MonitoringTypeOK
  <2>2. known'[p] # b
    BY <2>1, MonitoringAssumption DEF DeservesAlert, Stale
  <2>3. /\ p \in 1..Len(known) /\ known'[p] = known[p]
        /\ \A q \in 1..Len(known) : known'[q] = known[q]
    <3>1. CASE b \in Known
      BY <1>1, <3>1 DEF Heartbeat
    <3>2. CASE b \notin Known
      <4>1. known' = Append(known, b) /\ known \in Seq(Watched)
        BY <1>1, <3>2 DEF Heartbeat, MonitoringTypeOK
      <4>2. /\ Len(known') = Len(known) + 1
            /\ \A q \in 1..Len(known) : known'[q] = known[q]
            /\ known'[Len(known) + 1] = b
        BY <4>1, AppendProperties
      <4> QED BY <1>a, <2>2, <4>2
    <3> QED BY <3>1, <3>2
  <2>4. known[p] \in Watched \ {b} /\ known[p] \in Known
    BY <1>a, <2>2, <2>3, KnownOnce DEF Known, Range
  <2>5. DeservesAlert(known[p])
    <3>1. known'[p] # Self /\ age'[known[p]] > Timeout /\ cooling'[known[p]] = 0
      BY <2>3 DEF DeservesAlert, Stale
    <3> QED BY <2>1, <2>3, <2>4, <3>1 DEF DeservesAlert, Stale
  <2>6. overdue[known[p]] + Delay(p) <= Bound
    BY <2>1, <2>3, <2>5 DEF WaitInv
  <2>7. \A lo \in Nat \ {0} : \A hi \in Int :
          hi <= Len(known) => Between(lo, hi)' = Between(lo, hi)
    <3>1. ASSUME NEW lo \in Nat \ {0}, NEW hi \in Int, hi <= Len(known), NEW q \in lo..hi
          PROVE  known'[q] = known[q]
      BY <1>a, <2>3, <3>1
    <3> QED BY <3>1 DEF Between
  <2>8. From' = From /\ From \in Nat \ {0}
    BY <1>a, <2>1 DEF From
  <2>9. Ahead(p)' = Ahead(p)
    <3>1. Between(1, p - 1)' = Between(1, p - 1)
      BY <1>a, <2>3, <2>7
    <3>2. Between(From, p - 1)' = Between(From, p - 1)
      <4> DEFINE f == From
      <4>1. \A k \in f..p - 1 : known'[k] = known[k]
        BY <1>a, <2>3, <2>8
      <4>2. {known'[k] : k \in f..p - 1} = {known[k] : k \in f..p - 1}
        BY <4>1
      <4> QED BY <2>8, <4>2 DEF Between
    <3>3. checker = "raise" => Between(From, scan.size)' = Between(From, scan.size)
      <4> DEFINE f == From
      <4>1. checker = "raise" => {known'[k] : k \in f..scan.size} = {known[k] : k \in f..scan.size}
        <5>1. checker = "raise" => \A k \in f..scan.size : known'[k] = known[k]
          BY <1>a, <2>3, <2>8 DEF ScanInv
        <5> QED BY <5>1
      <4> QED BY <2>1, <2>8, <4>1 DEF Between
    <3> QED BY <1>a, <2>1, <2>8, <3>1, <3>2, <3>3 DEF Ahead
  <2>10. Delay(p)' = Delay(p)
    BY <1>c, <2>1, <2>8, <2>9
  <2> QED BY <2>1, <2>3, <2>4, <2>6, <2>10
<1>2. ASSUME StartScan PROVE (overdue[known[p]] + Delay(p))' <= Bound
  <2>1. /\ UNCHANGED <<known, age, cooling, timer, overdue>>
        /\ checker = "asleep" /\ timer = 0 /\ checker' = "scan" /\ scan'.next = 1
    BY <1>2 DEF StartScan
  <2>2. DeservesAlert(known[p])
    BY <1>e, <2>1
  <2>3. Ahead(p)' = Ahead(p) /\ ~(From' > p)
    BY <1>d, <2>1 DEF Ahead, From
  <2>4. Delay(p)' = Delay(p)
    <3> DEFINE c == Cardinality(Ahead(p)) * RaiseTime
    <3>1. Delay(p)' = 0 + 0 + c
      BY <1>a, <1>c, <1>d, <2>1, <2>3
    <3>2. Delay(p) = 0 + 0 + c
      BY <1>c, <2>1
    <3> QED BY <3>1, <3>2
  <2> QED BY <1>d, <2>1, <2>2, <2>4
<1>3. ASSUME ScanBreaks PROVE (overdue[known[p]] + Delay(p))' <= Bound
  BY <1>3 DEF ScanBreaks
<1>4. ASSUME Skip PROVE (overdue[known[p]] + Delay(p))' <= Bound
  <2>1. /\ UNCHANGED <<known, age, cooling, timer, overdue>>
        /\ checker = "scan" /\ checker' = "scan"
        /\ scan'.next = scan.next + 1 /\ scan'.size = scan.size
        /\ ~DeservesAlert(known[scan.next])
    BY <1>4 DEF Skip, Current, MonitoringTypeOK
  <2>2. DeservesAlert(known[p]) /\ p # scan.next
    BY <1>e, <2>1
  <2>3. From = scan.next /\ From' = scan.next + 1 /\ (From > p <=> From' > p)
    BY <1>a, <1>d, <2>1, <2>2 DEF From
  <2>4. Ahead(p)' \subseteq Ahead(p)
    <3>1. \A hi : Between(scan.next + 1, hi) \subseteq Between(scan.next, hi)
      BY <1>a DEF Between
    <3> QED BY <1>a, <1>d, <2>1, <2>3, <3>1 DEF Ahead, From
  <2>5. /\ Cardinality(Ahead(p)') * RaiseTime <= Cardinality(Ahead(p)) * RaiseTime
        /\ Cardinality(Ahead(p)') * RaiseTime \in Nat /\ Cardinality(Ahead(p)) * RaiseTime \in Nat
    BY <1>d, <2>1, <2>2, <2>4, FewerAlerts
  <2>6. Delay(p)' <= Delay(p) /\ Delay(p)' \in Nat /\ Delay(p) \in Nat
    <3> DEFINE w == IF From > p THEN Interval ELSE 0
               c == Cardinality(Ahead(p)) * RaiseTime
               d == Cardinality(Ahead(p)') * RaiseTime
    <3>1. Delay(p) = 0 + w + c /\ Delay(p)' = 0 + w + d
      BY <1>c, <2>1, <2>3
    <3>2. w \in Nat /\ c \in Nat /\ d \in Nat /\ d <= c
      BY <1>a, <2>5
    <3> HIDE DEF w, c, d
    <3> QED BY <3>1, <3>2
  <2> QED BY <1>a, <1>b, <1>d, <2>1, <2>2, <2>6

<1>5. ASSUME RaiseAlert PROVE (overdue[known[p]] + Delay(p))' <= Bound
  <2>1. /\ UNCHANGED <<known, age, scan>>
        /\ checker = "scan" /\ checker' = "raise" /\ timer' = RaiseTime
        /\ scan.next \in 1..Len(known) /\ scan.size = Len(known)
        /\ Current = known[scan.next] /\ Current # Self
    BY <1>5, <1>a DEF RaiseAlert, Current, DeservesAlert
  <2>2. /\ cooling'[Current] = Cooldown
        /\ \A q \in 1..Len(known) : q # scan.next =>
              cooling'[known[q]] = cooling[known[q]] /\ overdue'[known[q]] = overdue[known[q]]
    <3>1. /\ cooling' = [cooling EXCEPT ![Current] = Cooldown]
          /\ overdue' = [overdue EXCEPT ![Current] = 0]
      BY <1>5 DEF RaiseAlert
    <3>2. Current \in Watched /\ \A q \in 1..Len(known) : q # scan.next => known[q] # Current
      BY <1>a, <2>1
    <3> QED BY <1>a, <3>1, <3>2 DEF MonitoringTypeOK
  <2>3. p # scan.next
    <3>1. cooling'[known[p]] = 0
      BY <2>1 DEF DeservesAlert
    <3> QED BY <1>a, <2>1, <2>2, <3>1
  <2>4. DeservesAlert(known[p])
    BY <1>d, <1>e, <2>1, <2>2, <2>3
  <2>5. From = scan.next /\ From' = scan.next + 1 /\ (From > p <=> From' > p)
    BY <1>a, <1>d, <2>1, <2>3 DEF From
  <2>6. Ahead(p)' \subseteq Ahead(p) \ {Current}
    <3>1. \A hi \in Int : hi <= Len(known) =>
              Between(scan.next + 1, hi) \subseteq Between(scan.next, hi) \ {Current}
      <4>1. ASSUME NEW hi \in Int, hi <= Len(known)
            PROVE  Current \notin Between(scan.next + 1, hi)
        BY <1>a, <2>1, <4>1, BetweenPositions
      <4> QED BY <1>a, <4>1 DEF Between
    <3>2. CASE From <= p
      <4>1. Ahead(p)' = Between(scan.next + 1, p - 1) /\ Ahead(p) = Between(scan.next, p - 1)
        BY <1>a, <1>d, <2>1, <2>5, <3>2 DEF Ahead, From
      <4>2. p - 1 \in Int /\ p - 1 <= Len(known)
        BY <1>a, <1>d, <2>1
      <4>3. Between(scan.next + 1, p - 1) \subseteq Between(scan.next, p - 1) \ {Current}
        BY <3>1, <4>2
      <4> QED BY <4>1, <4>3
    <3>3. CASE ~(From <= p)
      <4>1. /\ Ahead(p)' = Between(scan.next + 1, scan.size) \union Between(1, p - 1)
            /\ Ahead(p) = Between(scan.next, scan.size) \union Between(1, p - 1)
        BY <1>a, <1>d, <2>1, <2>5, <3>3 DEF Ahead, From
      <4>2. Current \notin Between(1, p - 1)
        BY <1>a, <1>d, <2>1, <2>3, <2>5, <3>3, BetweenPositions
      <4>3. Between(scan.next + 1, scan.size) \subseteq Between(scan.next, scan.size) \ {Current}
        BY <1>a, <2>1, <3>1
      <4> QED BY <4>1, <4>2, <4>3
    <3>4. From <= p \/ ~(From <= p)
      OBVIOUS
    <3> QED BY <3>2, <3>3, <3>4
  <2>7. Current \in Ahead(p)
    <3>1. \A hi \in Int : hi <= Len(known) /\ scan.next <= hi => Current \in Between(scan.next, hi)
      BY <1>a, <2>1, BetweenPositions
    <3>2. CASE From <= p
      <4>1. Current \in Between(scan.next, p - 1)
        BY <1>a, <1>d, <2>1, <2>3, <2>5, <3>1, <3>2
      <4> QED BY <2>1, <2>5, <3>2, <4>1 DEF Ahead
    <3>3. CASE ~(From <= p)
      <4>1. Current \in Between(scan.next, scan.size)
        BY <1>a, <2>1, <3>1
      <4> QED BY <2>1, <2>5, <3>3, <4>1 DEF Ahead
    <3> QED BY <3>2, <3>3
  <2>8. /\ Cardinality(Ahead(p)') * RaiseTime \in Nat
        /\ Cardinality(Ahead(p)) * RaiseTime \in Nat
        /\ Cardinality(Ahead(p)') * RaiseTime + RaiseTime <= Cardinality(Ahead(p)) * RaiseTime
    BY <1>d, <2>1, <2>4, <2>6, <2>7, OneAlertLess
  <2>9. Delay(p)' <= Delay(p) /\ Delay(p)' \in Nat /\ Delay(p) \in Nat
    <3> DEFINE w == IF From > p THEN Interval ELSE 0
               c == Cardinality(Ahead(p)) * RaiseTime
               d == Cardinality(Ahead(p)') * RaiseTime
    <3>1. Delay(p) = 0 + w + c /\ Delay(p)' = RaiseTime + w + d
      BY <1>c, <2>1, <2>5
    <3>2. w \in Nat /\ c \in Nat /\ d \in Nat /\ d + RaiseTime <= c
      BY <1>a, <2>8
    <3> HIDE DEF w, c, d
    <3> QED BY <1>a, <3>1, <3>2
  <2> QED BY <1>a, <1>b, <1>d, <2>1, <2>2, <2>3, <2>4, <2>9
<1>6. ASSUME AlertRaised PROVE (overdue[known[p]] + Delay(p))' <= Bound
  <2>1. /\ UNCHANGED <<known, age, cooling, timer, overdue>>
        /\ checker = "raise" /\ checker' = "scan"
        /\ scan'.next = scan.next + 1 /\ scan'.size = scan.size
    BY <1>6 DEF AlertRaised, MonitoringTypeOK
  <2>2. DeservesAlert(known[p])
    BY <1>e, <2>1
  <2>3. From = scan.next + 1 /\ From' = scan.next + 1 /\ Ahead(p)' = Ahead(p)
    BY <1>d, <2>1 DEF From, Ahead
  <2>4. /\ Cardinality(Ahead(p)) * RaiseTime \in Nat
    BY <1>d, <2>1, <2>2, FewerAlerts
  <2>5. Delay(p)' <= Delay(p) /\ Delay(p)' \in Nat /\ Delay(p) \in Nat
    <3> DEFINE w == IF From > p THEN Interval ELSE 0
               c == Cardinality(Ahead(p)) * RaiseTime
    <3>1. Delay(p) = timer + w + c /\ Delay(p)' = 0 + w + c
      BY <1>c, <2>1, <2>3
    <3>2. w \in Nat /\ c \in Nat
      BY <1>a, <2>4
    <3> HIDE DEF w, c
    <3> QED BY <1>a, <3>1, <3>2
  <2> QED BY <1>a, <1>b, <1>d, <2>1, <2>2, <2>5
<1>7. ASSUME EndScan PROVE (overdue[known[p]] + Delay(p))' <= Bound
  <2>1. /\ UNCHANGED <<known, age, cooling, overdue>>
        /\ checker = "scan" /\ checker' = "asleep" /\ timer' = Interval
        /\ scan.next > Len(known)
    BY <1>7 DEF EndScan
  <2>2. DeservesAlert(known[p])
    BY <1>e, <2>1
  <2>3. From > p /\ Ahead(p)' = Between(1, p - 1) /\ Between(1, p - 1) \subseteq Ahead(p)
    BY <1>a, <1>d, <2>1 DEF From, Ahead
  <2>4. /\ Cardinality(Ahead(p)') * RaiseTime \in Nat
        /\ Cardinality(Ahead(p)) * RaiseTime \in Nat
        /\ Cardinality(Ahead(p)') * RaiseTime <= Cardinality(Ahead(p)) * RaiseTime
    BY <1>d, <2>1, <2>2, <2>3, FewerAlerts
  <2>5. Delay(p)' <= Delay(p) /\ Delay(p)' \in Nat /\ Delay(p) \in Nat
    <3> DEFINE c == Cardinality(Ahead(p)) * RaiseTime
               d == Cardinality(Ahead(p)') * RaiseTime
    <3>1. Delay(p) = 0 + Interval + c /\ Delay(p)' = Interval + 0 + d
      BY <1>c, <2>1, <2>3
    <3>2. c \in Nat /\ d \in Nat /\ d <= c
      BY <1>a, <2>4
    <3> HIDE DEF c, d
    <3> QED BY <1>a, <3>1, <3>2
  <2> QED BY <1>a, <1>b, <1>d, <2>1, <2>2, <2>5
<1>8. ASSUME Tick PROVE (overdue[known[p]] + Delay(p))' <= Bound
  <2>1. /\ UNCHANGED <<known, checker, scan>>
        /\ checker # "dead" /\ checker # "scan" /\ timer > 0 /\ timer' = timer - 1
    BY <1>8 DEF Tick
  <2>2. From' = From /\ Ahead(p)' = Ahead(p) /\ IsFiniteSet(Ahead(p)) /\ p \in 1..Len(known)
    BY <1>d, <2>1, AheadOfAnAgent DEF From, Ahead
  <2>3. Cardinality(Ahead(p)) * RaiseTime \in Nat
    BY <2>2, FewerAlerts
  <2>4. Delay(p)' = Delay(p) - 1 /\ Delay(p) \in Nat
    <3> DEFINE w == IF checker # "asleep" /\ From > p THEN Interval ELSE 0
               c == Cardinality(Ahead(p)) * RaiseTime
    <3>1. Delay(p) = timer + w + c /\ Delay(p)' = (timer - 1) + w + c
      BY <1>c, <2>1, <2>2
    <3>2. w \in Nat /\ c \in Nat
      BY <1>a, <2>3
    <3> HIDE DEF w, c
    <3> QED BY <1>a, <3>1, <3>2
  <2>5. /\ known[p] \in Watched
        /\ overdue'[known[p]] = IF DeservesAlert(known[p]) /\ overdue[known[p]] <= Bound
                                THEN overdue[known[p]] + 1 ELSE overdue[known[p]]
        /\ cooling'[known[p]] = IF cooling[known[p]] > 0 THEN cooling[known[p]] - 1 ELSE 0
    BY <1>8, <1>a, <2>2 DEF Tick
  <2>6. overdue[known[p]]' = overdue'[known[p]]
    BY <2>1
  <2>7. CASE DeservesAlert(known[p])
    <3>1. overdue[known[p]] + Delay(p) <= Bound
      BY <1>d, <2>1, <2>7
    <3> DEFINE x == overdue[known[p]]
               y == overdue'[known[p]]
    <3>2. x \in Nat /\ (y = x \/ y = x + 1)
      BY <1>a, <2>2, <2>5
    <3> HIDE DEF x, y
    <3>3. y + (Delay(p) - 1) <= Bound
      BY <1>b, <2>4, <3>1, <3>2 DEF x
    <3> QED BY <2>4, <2>6, <3>3 DEF y
  <2>8. CASE ~DeservesAlert(known[p])
    <3>1. overdue[known[p]] = 0 /\ overdue'[known[p]] = 0
      BY <1>a, <2>2, <2>5, <2>8 DEF WaitInv
    <3>2. known[p] # Self /\ cooling'[known[p]] = 0
      BY <2>1 DEF DeservesAlert
    <3>3. checker = "raise" => scan.next # p
      <4>1. checker = "raise" /\ scan.next = p => cooling[known[p]] > timer
        BY DEF ScanInv
      <4> QED BY <1>a, <2>1, <2>2, <2>5, <3>2, <4>1
    <3>4. Delay(p) <= Bound + 1
      BY <2>1, <2>2, <3>2, <3>3, DelayIsBounded
    <3> QED BY <1>b, <2>4, <2>6, <3>1, <3>4
  <2> QED BY <2>7, <2>8
<1>9. ASSUME Restart PROVE (overdue[known[p]] + Delay(p))' <= Bound
  BY <1>9 DEF Restart
<1>10. ASSUME UNCHANGED monitoringVars PROVE (overdue[known[p]] + Delay(p))' <= Bound
  <2>1. /\ UNCHANGED <<known, age, cooling, checker, timer, scan, overdue>>
    BY <1>10 DEF monitoringVars
  <2>2. DeservesAlert(known[p])
    BY <1>d, <1>e, <2>1
  <2>3. Delay(p)' = Delay(p)
    BY <2>1 DEF Delay, Ahead, Between, From
  <2> QED BY <1>d, <2>1, <2>2, <2>3
<1> QED
  BY <1>1, <1>2, <1>3, <1>4, <1>5, <1>6, <1>7, <1>8, <1>9, <1>10 DEF MonitoringNext

\* The types of the watch: for any set of agents and any settings.
THEOREM MonitoringTypes == MonitoringSpec => []MonitoringTypeOK
<1>1. MonitoringInit => MonitoringTypeOK
  BY MonitoringAssumption, BoundIsNatural DEF MonitoringInit, MonitoringTypeOK, IsInjective
<1> QED BY <1>1, MonitoringTypesStep, PTL DEF MonitoringSpec

\* A silent agent has its alert within a scan's sleep and the alerts of the others, for
\* any number of agents and any settings, if an alert's cooldown outlasts its being raised
\* (_ALERT_COOLDOWN_SECONDS is 300) and for as long as _staleness_check_loop lives.
THEOREM SilenceIsReported ==
    ASSUME Cooldown > RaiseTime
    PROVE  MonitoringSpec => []AlertedInTime
<1>1. MonitoringInit => AlertInv
  <2>1. MonitoringInit => MonitoringTypeOK
    BY MonitoringAssumption, BoundIsNatural DEF MonitoringInit, MonitoringTypeOK, IsInjective
  <2> QED BY <2>1, MonitoringAssumption
          DEF MonitoringInit, AlertInv, ScanInv, WaitInv, DeservesAlert, Stale
<1>2. AlertInv /\ [MonitoringNext]_monitoringVars => AlertInv'
  BY MonitoringTypesStep, ScanStep, WaitStep DEF AlertInv
<1>3. AlertInv => AlertedInTime
  <2> SUFFICES ASSUME AlertInv, NEW a \in Watched, checker # "dead"
               PROVE  overdue[a] <= Bound
    BY DEF AlertedInTime
  <2>1. overdue[a] \in Nat /\ Bound \in Nat
    BY BoundIsNatural DEF AlertInv, MonitoringTypeOK
  <2>2. ASSUME overdue[a] > 0 PROVE overdue[a] <= Bound
    <3>1. DeservesAlert(a)
      BY <2>2 DEF AlertInv, WaitInv
    <3>2. PICK p \in 1..Len(known) : known[p] = a
      BY <3>1, RangeOfKnown DEF AlertInv, MonitoringTypeOK, DeservesAlert, Stale, Known
    <3>3. overdue[a] + Delay(p) <= Bound
      BY <3>1, <3>2 DEF AlertInv, WaitInv
    <3>4. Delay(p) \in Nat
      <4>1. MonitoringTypeOK /\ ScanInv /\ known[p] # Self
        BY <3>1, <3>2 DEF AlertInv, DeservesAlert
      <4>2. checker = "raise" => scan.next # p
        <5>1. cooling[known[p]] = 0 /\ timer \in Nat
          BY <3>1, <3>2, <4>1, MonitoringAssumption DEF DeservesAlert, MonitoringTypeOK
        <5> QED BY <4>1, <5>1 DEF ScanInv
      <4> QED BY <4>1, <4>2, DelayIsBounded
    <3> QED BY <2>1, <3>3, <3>4
  <2> QED BY <2>1, <2>2
<1> QED BY <1>1, <1>2, <1>3, PTL DEF MonitoringSpec
====================================================================================
