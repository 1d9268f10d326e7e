----------------------------- MODULE ModelRegistry -----------------------------
(***************************************************************************)
(* ml/model_registry.py and its two users for one symbol and timeframe:    *)
(* the training script, which saves a model file by file, and the          *)
(* technical agent, which looks for the latest one when it starts.  Both   *)
(* run at the same time as processes of their own and both may be killed   *)
(* at any step.  A file is written by truncating and filling it.  One      *)
(* training at a time: the registry has no lock, and two trainings could   *)
(* allocate the same version.                                              *)
(***************************************************************************)
EXTENDS Integers

CONSTANT MaxVersion      \* bounds the number of trainings

ASSUME VersionAssumption == MaxVersion \in Nat

Versions == 1 .. MaxVersion

\* An empty or absent pointer file: get_latest_path does not tell them apart.
Nothing == 0

\* The files of a version, in the order in which save_model writes them.
Files == {"model", "metrics", "features"}
States == {"absent", "partial", "whole"}

TrainerSteps == {"idle", "model", "metrics", "features", "pointer", "name"}
AgentSteps == {"down", "pointer", "scan", "model", "features", "metrics", "running"}

VARIABLES
    disk,        \* [Versions -> [Files -> States]]
    pointer,     \* the version that the pointer file names
    trainer,     \* the step of save_model that is next
    open,        \* the file of that step is being written
    version,     \* the version it allocated
    agent,       \* the step of _maybe_load_ml_model that is next
    path,        \* the version it is about to load
    serving      \* the version of the ML generator; with Nothing the rules are used

trainerVars == <<disk, pointer, trainer, open, version>>
agentVars == <<agent, path, serving>>
vars == <<disk, pointer, trainer, open, version, agent, path, serving>>

Exists(v) == disk[v]["model"] # "absent"
Whole(v) == \A f \in Files : disk[v][f] = "whole"

Init ==
    /\ disk = [v \in Versions |-> [f \in Files |-> "absent"]]
    /\ pointer = Nothing
    /\ trainer = "idle"
    /\ open = FALSE
    /\ version = Nothing
    /\ agent = "down"
    /\ path = Nothing
    /\ serving = Nothing
-----------------------------------------------------------------------------
(***************************************************************************)
(* save_model.                                                             *)
(***************************************************************************)
\* _next_version: one more than the highest version with a model file.
NextVersion(v) ==
    /\ \A w \in Versions : Exists(w) => w < v
    /\ v = 1 \/ \E w \in Versions : Exists(w) /\ v = w + 1

BeginSave ==
    /\ trainer = "idle"
    /\ \E v \in Versions : NextVersion(v) /\ version' = v
    /\ trainer' = "model"
    /\ UNCHANGED <<disk, pointer, open, agentVars>>

\* Wrong: the pointer follows the model at once, before its sidecars.
AfterPointerEarly(f) == "pointer"

After(f) == CASE f = "model"    -> "metrics"
             [] f = "metrics"  -> "features"
             [] f = "features" -> "pointer"

SetFile(f, state) == disk' = [disk EXCEPT ![version][f] = state]

\* joblib.dump or write_text: the file is there before its contents are.
OpenFile(f) ==
    /\ trainer = f
    /\ ~open /\ open' = TRUE
    /\ SetFile(f, "partial")
    /\ UNCHANGED <<pointer, trainer, version, agentVars>>

CloseFile(f) ==
    /\ trainer = f
    /\ open /\ open' = FALSE
    /\ SetFile(f, "whole")
    /\ trainer' = After(f)
    /\ UNCHANGED <<pointer, version, agentVars>>

\* The pointer is the last file; write_text truncates it first.
TruncatePointer ==
    /\ trainer = "pointer"
    /\ pointer' = Nothing
    /\ trainer' = "name"
    /\ UNCHANGED <<disk, open, version, agentVars>>

WritePointer ==
    /\ trainer = "name"
    /\ pointer' = version
    /\ trainer' = "idle"
    /\ UNCHANGED <<disk, open, version, agentVars>>

\* The training is killed, or a write fails.
Abort ==
    /\ trainer # "idle"
    /\ trainer' = "idle"
    /\ open' = FALSE
    /\ UNCHANGED <<disk, pointer, version, agentVars>>

Save ==
    \/ BeginSave
    \/ \E f \in Files : OpenFile(f) \/ CloseFile(f)
    \/ TruncatePointer \/ WritePointer \/ Abort
-----------------------------------------------------------------------------
(***************************************************************************)
(* _maybe_load_ml_model, with use_ml_signals set and no explicit path.     *)
(***************************************************************************)
Running(v) == agent' = "running" /\ path' = Nothing /\ serving' = v

Start ==
    /\ agent = "down"
    /\ agent' = "pointer"
    /\ UNCHANGED <<trainerVars, path, serving>>

\* get_latest_path: the pointer, if it names a model file that is there.
ReadPointer ==
    /\ agent = "pointer"
    /\ IF pointer # Nothing /\ Exists(pointer)
       THEN agent' = "model" /\ path' = pointer
       ELSE agent' = "scan" /\ path' = Nothing
    /\ UNCHANGED <<trainerVars, serving>>

\* Wrong: any version there is.
HighestAny(v) == Exists(v)

Highest(v) == Exists(v) /\ \A w \in Versions : Exists(w) => w <= v

\* get_latest_path: else the highest version with a model file, finished or not.
Scan ==
    /\ agent = "scan"
    /\ \/ /\ \A v \in Versions : ~Exists(v)
          /\ Running(Nothing)
       \/ /\ \E v \in Versions : Highest(v) /\ path' = v
          /\ agent' = "model"
          /\ UNCHANGED serving
    /\ UNCHANGED trainerVars

\* MLSignalGenerator._load: the model, then the features, then the metrics.  A file
\* that is not whole ends the load and the agent uses the rules; a sidecar that is
\* not there is no error.
LoadFile(f, next) ==
    /\ agent = f
    /\ IF disk[path][f] = "whole" \/ (f # "model" /\ disk[path][f] = "absent")
       THEN IF next = "running" THEN Running(path)
            ELSE agent' = next /\ UNCHANGED <<path, serving>>
       ELSE Running(Nothing)
    /\ UNCHANGED trainerVars

Load ==
    \/ LoadFile("model", "features")
    \/ LoadFile("features", "metrics")
    \/ LoadFile("metrics", "running")

\* The agent's container stops at any point.
Stop ==
    /\ agent # "down"
    /\ agent' = "down"
    /\ path' = Nothing
    /\ serving' = Nothing
    /\ UNCHANGED trainerVars

Next == Save \/ Start \/ ReadPointer \/ Scan \/ Load \/ Stop

Spec == Init /\ [][Next]_vars
-----------------------------------------------------------------------------
(***************************************************************************)
(* Properties.                                                             *)
(***************************************************************************)
\* Type correctness of the registry and its users.
TypeOK ==
    /\ disk \in [Versions -> [Files -> States]]
    /\ pointer \in Versions \union {Nothing}
    /\ trainer \in TrainerSteps
    /\ open \in BOOLEAN
    /\ version \in Versions \union {Nothing}
    /\ agent \in AgentSteps
    /\ path \in Versions \union {Nothing}
    /\ serving \in Versions \union {Nothing}

\* "so a partial failure above doesn't leave the pointer aimed at a half-written
\* model", line 156 of model_registry.py, at any moment and after any number of
\* trainings that were killed.
PointerIsWhole == pointer # Nothing => Whole(pointer)

\* The inductive invariant: a version is allocated above all files there are, its
\* files are written in their order and never again, and only a pointer that was
\* truncated is written.
Fresh(v) == \A f \in Files : disk[v][f] = "absent"
Being(f) == disk[version][f] = IF open THEN "partial" ELSE "absent"
Unwritten(f) == disk[version][f] = "absent"
Done(f) == disk[version][f] = "whole"

RegistryInv ==
    /\ TypeOK
    /\ PointerIsWhole
    /\ \A v \in Versions : IF Exists(v) THEN v <= version ELSE Fresh(v)
    /\ trainer # "idle" => version \in Versions
    /\ trainer \notin Files => ~open
    /\ trainer = "model" => Being("model") /\ Unwritten("metrics") /\ Unwritten("features")
    /\ trainer = "metrics" => Done("model") /\ Being("metrics") /\ Unwritten("features")
    /\ trainer = "features" => Done("model") /\ Done("metrics") /\ Being("features")
    /\ trainer \in {"pointer", "name"} => Whole(version)
    /\ trainer = "pointer" => pointer # version
    /\ trainer = "name" => pointer = Nothing
    /\ agent \in Files => path \in Versions
    /\ agent # "running" => serving = Nothing

\* What the agent may come away with: the model it is loading, surely if that is
\* finished; while it scans, nothing or whatever is not older than any finished one.
Offer ==
    CASE agent \in {"model", "features", "metrics"} ->
            IF Whole(path) THEN {path} ELSE {Nothing, path}
      [] agent = "scan" ->
            {Nothing} \union {m \in Versions : \A v \in Versions : Whole(v) => v <= m}
      [] OTHER -> {}

Shelf == INSTANCE ModelShelf WITH
    shelf <- {v \in Versions : Whole(v)},
    label <- pointer,
    offer <- Offer

\* The registry keeps the promise of ModelShelf, with every file and every step of
\* the two processes in between: an agent that finds the pointer in place loads
\* the model it named, and models only ever get newer.
KeepsPromise == Shelf!Spec
===============================================================================
