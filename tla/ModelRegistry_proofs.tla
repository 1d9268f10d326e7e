-------------------------- MODULE ModelRegistry_proofs --------------------------
(***************************************************************************)
(* The pointer names finished models only, and the registry implements     *)
(* ModelShelf, for any number of trainings.                                *)
(***************************************************************************)
EXTENDS ModelRegistry, TLAPS

\* What one write changes.
LEMMA SetFileChanges ==
    ASSUME TypeOK, version \in Versions, NEW f \in Files, NEW state \in States,
           SetFile(f, state)
    PROVE  /\ disk' \in [Versions -> [Files -> States]]
           /\ \A v \in Versions, g \in Files :
                 disk'[v][g] = IF v = version /\ g = f THEN state ELSE disk[v][g]
  BY DEF TypeOK, SetFile

\* The names of files and of steps are apart.
LEMMA Names ==
    /\ Files = {"model", "metrics", "features"}
    /\ States = {"absent", "partial", "whole"}
    /\ \A f \in Files : f # "idle" /\ f # "pointer" /\ f # "name"
  BY DEF Files, States

LEMMA InvInit == Init => RegistryInv
  BY VersionAssumption
     DEF Init, RegistryInv, TypeOK, PointerIsWhole, Fresh, Exists, Files, States, TrainerSteps,
         AgentSteps, Nothing, Versions

\* A step of the agent changes nothing that the training relies on.
LEMMA AgentStep ==
    ASSUME RegistryInv, UNCHANGED trainerVars,
           agent' \in AgentSteps, path' \in Versions \union {Nothing},
           serving' \in Versions \union {Nothing},
           agent' \in Files => path' \in Versions,
           agent' # "running" => serving' = Nothing
    PROVE  RegistryInv'
  BY DEF RegistryInv, TypeOK, PointerIsWhole, Fresh, Exists, Whole, Being, Done, Unwritten, trainerVars

LEMMA BeginKeeps ==
    ASSUME RegistryInv, BeginSave
    PROVE  RegistryInv'
  <1>1. PICK v \in Versions : NextVersion(v) /\ version' = v
    BY DEF BeginSave
  <1>2. Fresh(v) /\ ~Exists(v)
    BY <1>1, VersionAssumption DEF NextVersion, RegistryInv, Versions
  <1>3. UNCHANGED <<disk, pointer, open, agent, path, serving>> /\ trainer' = "model"
    BY DEF BeginSave, agentVars
  <1>4. (\A w \in Versions : IF Exists(w) THEN w <= version ELSE Fresh(w))'
    BY <1>1, <1>3, VersionAssumption DEF NextVersion, Exists, Fresh, RegistryInv, Versions
  <1>5. ~open'
    BY <1>3, Names DEF BeginSave, RegistryInv
  <1>6. TypeOK' /\ PointerIsWhole'
    BY <1>1, <1>3 DEF RegistryInv, TypeOK, PointerIsWhole, Whole, TrainerSteps
  <1>7. Being("model")' /\ Unwritten("metrics")' /\ Unwritten("features")'
    BY <1>1, <1>2, <1>3, <1>5, Names DEF Being, Fresh, Unwritten
  <1>8. (agent \in Files => path \in Versions)' /\ (agent # "running" => serving = Nothing)'
    BY <1>3 DEF RegistryInv
  <1> QED
    BY <1>1, <1>3, <1>4, <1>5, <1>6, <1>7, <1>8 DEF RegistryInv

\* One write: the file is of the version being saved and was not whole.
LEMMA WriteChanges ==
    ASSUME RegistryInv, NEW f \in Files, OpenFile(f) \/ CloseFile(f)
    PROVE  /\ version \in Versions /\ trainer = f /\ disk[version][f] # "whole"
           /\ UNCHANGED <<pointer, version, agent, path, serving>>
           /\ disk' \in [Versions -> [Files -> States]]
           /\ \A v \in Versions, g \in Files :
                 disk'[v][g] = IF v = version /\ g = f THEN IF open THEN "whole" ELSE "partial"
                               ELSE disk[v][g]
           /\ open' = ~open
  <1>1. trainer = f /\ version \in Versions
    BY Names DEF OpenFile, CloseFile, RegistryInv
  <1>2. disk[version][f] = IF open THEN "partial" ELSE "absent"
    BY <1>1, Names DEF RegistryInv, Being
  <1>3. SetFile(f, IF open THEN "whole" ELSE "partial")
    BY DEF OpenFile, CloseFile
  <1>4. UNCHANGED <<pointer, version, agent, path, serving>>
    BY DEF OpenFile, CloseFile, agentVars
  <1>5. open' = ~open
    BY DEF OpenFile, CloseFile, RegistryInv, TypeOK
  <1>6. (IF open THEN "whole" ELSE "partial") \in States
    BY DEF States
  <1>7. TypeOK
    BY DEF RegistryInv
  <1> QED
    BY <1>1, <1>2, <1>3, <1>4, <1>5, <1>6, <1>7, SetFileChanges

\* A finished model stays finished, under any step of the training.
LEMMA WholeStays ==
    ASSUME RegistryInv, NEW f \in Files, OpenFile(f) \/ CloseFile(f), NEW v \in Versions, Whole(v)
    PROVE  Whole(v)'
  BY WriteChanges DEF Whole

LEMMA WriteKeeps ==
    ASSUME RegistryInv, NEW f \in Files, OpenFile(f) \/ CloseFile(f)
    PROVE  /\ PointerIsWhole'
           /\ (\A v \in Versions : IF Exists(v) THEN v <= version ELSE Fresh(v))'
           /\ (agent \in Files => path \in Versions)' /\ (agent # "running" => serving = Nothing)'
  <1>1. PointerIsWhole'
    BY WriteChanges, WholeStays DEF RegistryInv, TypeOK, PointerIsWhole
  <1>2. ASSUME NEW v \in Versions
        PROVE  (IF Exists(v) THEN v <= version ELSE Fresh(v))'
    <2>1. CASE v = version
      <3>1. disk'[version]["model"] # "absent"
        BY WriteChanges, Names DEF RegistryInv, Done
      <3> QED
        BY <2>1, <3>1, WriteChanges DEF Exists, Versions
    <2>2. CASE v # version
      <3>1. \A g \in Files : disk'[v][g] = disk[v][g]
        BY <2>2, WriteChanges
      <3> QED
        BY <3>1, WriteChanges, Names DEF RegistryInv, Exists, Fresh
    <2> QED
      BY <2>1, <2>2
  <1>3. (agent \in Files => path \in Versions)' /\ (agent # "running" => serving = Nothing)'
    BY WriteChanges DEF RegistryInv
  <1> QED
    BY <1>1, <1>2, <1>3

LEMMA OpenKeeps ==
    ASSUME RegistryInv, NEW f \in Files, OpenFile(f)
    PROVE  RegistryInv'
  <1>1. trainer' = f /\ open' = TRUE /\ ~open
    BY DEF OpenFile
  <1>2. TypeOK'
    BY <1>1, WriteChanges DEF RegistryInv, TypeOK
  <1>3. Being(f)'
    BY <1>1, WriteChanges DEF Being
  <1>4. (trainer = "model" => Being("model") /\ Unwritten("metrics") /\ Unwritten("features"))'
    BY <1>1, <1>3, WriteChanges, Names DEF RegistryInv, Unwritten
  <1>5. (trainer = "metrics" => Done("model") /\ Being("metrics") /\ Unwritten("features"))'
    BY <1>1, <1>3, WriteChanges, Names DEF RegistryInv, Done, Unwritten
  <1>6. (trainer = "features" => Done("model") /\ Done("metrics") /\ Being("features"))'
    BY <1>1, <1>3, WriteChanges, Names DEF RegistryInv, Done
  <1> QED
    BY <1>1, <1>2, <1>4, <1>5, <1>6, WriteChanges, WriteKeeps, Names DEF RegistryInv

LEMMA CloseKeeps ==
    ASSUME RegistryInv, NEW f \in Files, CloseFile(f)
    PROVE  RegistryInv'
  <1>1. trainer' = After(f) /\ open' = FALSE /\ open /\ trainer = f
    BY DEF CloseFile
  <1>2. /\ f = "model" => trainer' = "metrics"
        /\ f = "metrics" => trainer' = "features"
        /\ f = "features" => trainer' = "pointer"
    BY <1>1 DEF After
  <1>3. TypeOK'
    BY <1>1, <1>2, WriteChanges, Names DEF RegistryInv, TypeOK, TrainerSteps
  <1>4. Done(f)'
    BY <1>1, WriteChanges DEF Done
  <1>5. CASE f = "model"
    <2>1. Done("model")' /\ Being("metrics")' /\ Unwritten("features")'
      <3>1. Unwritten("metrics") /\ Unwritten("features")
        BY <1>1, <1>5 DEF RegistryInv
      <3> QED
        BY <1>1, <1>4, <1>5, <3>1, WriteChanges, Names DEF Being, Unwritten
    <2> QED
      BY <1>1, <1>2, <1>3, <1>5, <2>1, WriteChanges, WriteKeeps, Names DEF RegistryInv
  <1>6. CASE f = "metrics"
    <2>1. Done("model")' /\ Done("metrics")' /\ Being("features")'
      <3>1. Done("model") /\ Unwritten("features")
        BY <1>1, <1>6 DEF RegistryInv
      <3> QED
        BY <1>1, <1>4, <1>6, <3>1, WriteChanges, Names DEF Being, Done, Unwritten
    <2> QED
      BY <1>1, <1>2, <1>3, <1>6, <2>1, WriteChanges, WriteKeeps, Names DEF RegistryInv
  <1>7. CASE f = "features"
    <2>1. Whole(version)'
      BY <1>1, <1>4, <1>7, WriteChanges, Names DEF RegistryInv, Done, Whole
    <2>2. pointer' # version'
      <3>1. ~Whole(version)
        BY <1>7, WriteChanges DEF Whole
      <3> QED
        BY <3>1, WriteChanges DEF RegistryInv, PointerIsWhole, Versions, Nothing
    <2> QED
      BY <1>1, <1>2, <1>3, <1>7, <2>1, <2>2, WriteChanges, WriteKeeps, Names DEF RegistryInv
  <1> QED
    BY <1>5, <1>6, <1>7, Names

\* Truncating and writing the pointer, and a training that is killed, touch no model.
LEMMA PointerKeeps ==
    ASSUME RegistryInv, TruncatePointer \/ WritePointer \/ Abort
    PROVE  RegistryInv'
  <1>1. UNCHANGED <<disk, version, agent, path, serving>>
    BY DEF TruncatePointer, WritePointer, Abort, agentVars
  <1>2. (\A v \in Versions : IF Exists(v) THEN v <= version ELSE Fresh(v))'
    BY <1>1 DEF RegistryInv, Exists, Fresh
  <1>3. (agent \in Files => path \in Versions)' /\ (agent # "running" => serving = Nothing)'
    BY <1>1 DEF RegistryInv
  <1>4. CASE TruncatePointer
    <2>1. trainer' = "name" /\ pointer' = Nothing /\ trainer = "pointer" /\ open' = open
      BY <1>4 DEF TruncatePointer
    <2>2. TypeOK' /\ PointerIsWhole' /\ Whole(version)'
      BY <1>1, <2>1 DEF RegistryInv, TypeOK, PointerIsWhole, TrainerSteps, Whole
    <2>3. version' \in Versions /\ ~open'
      BY <1>1, <2>1, Names DEF RegistryInv
    <2> QED
      BY <1>2, <1>3, <2>1, <2>2, <2>3 DEF RegistryInv
  <1>5. CASE WritePointer
    <2>1. trainer' = "idle" /\ pointer' = version /\ trainer = "name" /\ open' = open
      BY <1>5 DEF WritePointer
    <2>2. TypeOK' /\ PointerIsWhole' /\ ~open'
      BY <1>1, <2>1, Names DEF RegistryInv, TypeOK, PointerIsWhole, TrainerSteps, Whole
    <2> QED
      BY <1>2, <1>3, <2>1, <2>2 DEF RegistryInv
  <1>6. CASE Abort
    <2>1. trainer' = "idle" /\ pointer' = pointer /\ open' = FALSE
      BY <1>6 DEF Abort
    <2>2. TypeOK' /\ PointerIsWhole' /\ ~open'
      BY <1>1, <2>1 DEF RegistryInv, TypeOK, PointerIsWhole, TrainerSteps, Whole
    <2> QED
      BY <1>2, <1>3, <2>1, <2>2 DEF RegistryInv
  <1> QED
    BY <1>4, <1>5, <1>6

\* Where the agent is after each of its steps.
LEMMA LoadKeeps ==
    ASSUME RegistryInv, NEW f \in Files, NEW next \in AgentSteps \ {"down", "pointer", "scan"},
           LoadFile(f, next)
    PROVE  RegistryInv'
  <1>1. path \in Versions /\ serving = Nothing /\ UNCHANGED trainerVars
    BY Names DEF LoadFile, RegistryInv
  <1>2. \/ agent' = "running" /\ path' = Nothing /\ serving' \in {path, Nothing}
        \/ agent' = next /\ next # "running" /\ UNCHANGED <<path, serving>>
    BY DEF LoadFile, Running
  <1>3. "running" \in AgentSteps /\ "running" \notin Files
    BY DEF AgentSteps, Files
  <1> QED
    BY <1>1, <1>2, <1>3, AgentStep

LEMMA AgentKeeps ==
    ASSUME RegistryInv, Start \/ ReadPointer \/ Scan \/ Load \/ Stop
    PROVE  RegistryInv'
  <1>1. CASE Start
    BY <1>1, AgentStep DEF Start, RegistryInv, TypeOK, AgentSteps, Files
  <1>2. CASE ReadPointer
    BY <1>2, AgentStep DEF ReadPointer, RegistryInv, TypeOK, AgentSteps, Files, Nothing
  <1>3. CASE Scan
    BY <1>3, AgentStep DEF Scan, Running, RegistryInv, TypeOK, AgentSteps, Files
  <1>4. CASE Load
    BY <1>4, LoadKeeps DEF Load, Files, AgentSteps
  <1>5. CASE Stop
    BY <1>5, AgentStep DEF Stop, RegistryInv, TypeOK, AgentSteps, Files
  <1> QED
    BY <1>1, <1>2, <1>3, <1>4, <1>5

\* RegistryInv is inductive.
LEMMA InvStep ==
    ASSUME RegistryInv, [Next]_vars
    PROVE  RegistryInv'
  <1>1. CASE Save
    BY <1>1, BeginKeeps, OpenKeeps, CloseKeeps, PointerKeeps DEF Save
  <1>2. CASE Start \/ ReadPointer \/ Scan \/ Load \/ Stop
    BY <1>2, AgentKeeps
  <1>3. CASE UNCHANGED vars
    BY <1>3 DEF vars, RegistryInv, TypeOK, PointerIsWhole, Fresh, Exists, Whole, Being, Done,
                Unwritten
  <1> QED
    BY <1>1, <1>2, <1>3 DEF Next

\* The inductive invariant holds for any number of trainings and agent starts,
\* with every file operation of save_model and every kill in between.
THEOREM RegistryInvariant == Spec => []RegistryInv
  BY InvInit, InvStep, PTL DEF Spec

\* The pointer file never names a half-written model: save_model writes it last.
THEOREM PointerNamesWholeModels == Spec => []PointerIsWhole
  <1>1. RegistryInv => PointerIsWhole
    BY DEF RegistryInv
  <1> QED
    BY <1>1, RegistryInvariant, PTL
-----------------------------------------------------------------------------
(***************************************************************************)
(* Each step of the registry is a step of ModelShelf or leaves it alone.   *)
(***************************************************************************)
Shelved == {v \in Versions : Whole(v)}

\* Names of the two sides that are the same.
LEMMA Alike == Shelf!Versions = Versions /\ Shelf!Nothing = Nothing
  BY DEF Shelf!Versions, Versions, Shelf!Nothing, Nothing

LEMMA ShelfInit == Init => Shelf!Init
  <1>1. ASSUME Init PROVE \A v \in Versions : ~Whole(v)
    BY <1>1, Names DEF Init, Whole
  <1>2. ASSUME Init PROVE Offer = {}
    BY <1>2 DEF Init, Offer
  <1> QED
    BY <1>1, <1>2, Alike DEF Init, Shelf!Init, Nothing

\* What is on offer depends on the agent's step, the path, and what is finished.
LEMMA OfferIs ==
    /\ agent \in Files => Offer = IF Whole(path) THEN {path} ELSE {Nothing, path}
    /\ agent = "scan" => Offer = {Nothing} \union {m \in Versions : \A v \in Versions : Whole(v) => v <= m}
    /\ agent \notin Files \union {"scan"} => Offer = {}
    /\ agent \in Files \union {"scan"} => Offer # {}
  <1>1. agent \in Files => Offer = IF Whole(path) THEN {path} ELSE {Nothing, path}
    BY DEF Offer, Files
  <1>2. agent = "scan" => Offer = {Nothing} \union {m \in Versions : \A v \in Versions : Whole(v) => v <= m}
    BY DEF Offer
  <1>3. agent \notin Files \union {"scan"} => Offer = {}
    BY DEF Offer, Files
  <1> QED
    BY <1>1, <1>2, <1>3

\* A step of the training that unmakes no model narrows the offer, if anything.
LEMMA TrainingNarrows ==
    ASSUME RegistryInv, UNCHANGED agentVars, \A v \in Versions : Whole(v) => Whole(v)'
    PROVE  Shelf!Narrow
  <1>1. agent' = agent /\ path' = path
    BY DEF agentVars
  <1>2. CASE agent \in Files
    <2>1. path \in Versions
      BY <1>2 DEF RegistryInv
    <2>2. Offer' = IF Whole(path)' THEN {path} ELSE {Nothing, path}
      BY <1>1, <1>2 DEF Offer, Files, Whole
    <2>3. Offer = IF Whole(path) THEN {path} ELSE {Nothing, path}
      BY <1>2, OfferIs
    <2>4. Whole(path) => Whole(path)'
      BY <1>1, <2>1 DEF Whole
    <2> QED
      BY <2>2, <2>3, <2>4 DEF Shelf!Narrow
  <1>3. CASE agent = "scan"
    <2>1. Offer' = {Nothing} \union {m \in Versions : \A v \in Versions : Whole(v)' => v <= m}
      BY <1>1, <1>3 DEF Offer
    <2> QED
      BY <1>3, <2>1, OfferIs DEF Shelf!Narrow
  <1>4. CASE agent \notin Files \union {"scan"}
    <2>1. Offer' = {}
      BY <1>1, <1>4 DEF Offer, Files
    <2> QED
      BY <1>4, <2>1, OfferIs DEF Shelf!Narrow
  <1> QED
    BY <1>2, <1>3, <1>4

\* What a step leaves alone on the other side of the refinement.
ShelvedStays == \A v \in Versions : Whole(v)' = Whole(v)

LEMMA SameShelf ==
    ASSUME ShelvedStays
    PROVE  Shelved' = Shelved
  BY DEF ShelvedStays, Shelved

LEMMA SameOffer ==
    ASSUME RegistryInv, ShelvedStays, agent' = agent, path' = path
    PROVE  Offer' = Offer
  <1>1. CASE agent \in Files
    <2>1. path \in Versions
      BY <1>1 DEF RegistryInv
    <2>2. Whole(path)' = Whole(path)
      BY <2>1 DEF ShelvedStays, Whole
    <2> QED
      BY <1>1, <2>2 DEF Offer, Files
  <1>2. CASE agent = "scan"
    BY <1>2 DEF Offer, ShelvedStays
  <1>3. CASE agent \notin Files \union {"scan"}
    BY <1>3 DEF Offer, Files
  <1> QED
    BY <1>1, <1>2, <1>3

\* Steps of the training that finish no model.
LEMMA OpenStutters ==
    ASSUME RegistryInv, NEW f \in Files, OpenFile(f)
    PROVE  UNCHANGED Shelf!shelfVars
  <1>1. ShelvedStays
    <2>1. ASSUME NEW v \in Versions PROVE Whole(v)' => Whole(v)
      BY WriteChanges DEF Whole, OpenFile
    <2> QED
      BY <2>1, WholeStays DEF ShelvedStays, Whole
  <1> QED
    BY <1>1, WriteChanges, SameShelf, SameOffer DEF Shelf!shelfVars, Shelved

\* The last sidecar puts the model on the shelf, as the newest.
LEMMA CloseIsPut ==
    ASSUME RegistryInv, NEW f \in Files, CloseFile(f)
    PROVE  [Shelf!Next]_Shelf!shelfVars
  <1>1. open /\ trainer = f
    BY DEF CloseFile
  <1>2. \A v \in Versions : v # version => Whole(v)' = Whole(v)
    BY WriteChanges DEF Whole
  <1>3. ~Whole(version)
    BY WriteChanges DEF Whole
  <1>4. CASE Whole(version)'
    <2>1. Shelved' = Shelved \union {version} /\ version \notin Shelved
      BY <1>2, <1>3, <1>4, WriteChanges DEF Shelved, Whole
    <2>2. \A v \in Shelved : v <= version
      BY Names DEF Shelved, Whole, Exists, RegistryInv
    <2>3. Shelf!Narrow
      BY TrainingNarrows, WholeStays DEF CloseFile
    <2>4. Shelf!Put
      BY <2>1, <2>2, <2>3, WriteChanges, Alike DEF Shelf!Put, Shelf!Newest, Shelved
    <2> QED
      BY <2>4 DEF Shelf!Next
  <1>5. CASE ~Whole(version)'
    <2>1. ShelvedStays
      BY <1>2, <1>3, <1>5, WriteChanges DEF ShelvedStays, Whole
    <2> QED
      BY <2>1, WriteChanges, SameShelf, SameOffer DEF Shelf!shelfVars, Shelved
  <1> QED
    BY <1>4, <1>5

LEMMA QuietStutters ==
    ASSUME RegistryInv, UNCHANGED <<disk, pointer, agentVars>>
    PROVE  UNCHANGED Shelf!shelfVars
  <1>1. ShelvedStays
    BY DEF ShelvedStays, Whole
  <1> QED
    BY <1>1, SameShelf, SameOffer DEF Shelf!shelfVars, Shelved, agentVars

\* The pointer is the label.
LEMMA PointerIsLabel ==
    ASSUME RegistryInv, TruncatePointer \/ WritePointer
    PROVE  Shelf!Next
  <1>1. version \in Versions /\ Whole(version)
    BY DEF RegistryInv, TruncatePointer, WritePointer
  <1>2. ShelvedStays /\ agent' = agent /\ path' = path /\ serving' = serving
    BY DEF ShelvedStays, Whole, TruncatePointer, WritePointer, agentVars
  <1>3. Shelved' = Shelved /\ Offer' = Offer /\ version \in Shelved
    BY <1>1, <1>2, SameShelf, SameOffer DEF Shelved
  <1>4. CASE TruncatePointer
    <2>1. pointer # version
      BY <1>4 DEF RegistryInv, TruncatePointer
    <2>2. pointer # Nothing => pointer <= version
      BY Names DEF RegistryInv, PointerIsWhole, TypeOK, Whole, Exists
    <2>3. version > pointer
      BY <1>1, <2>1, <2>2, VersionAssumption DEF RegistryInv, TypeOK, Versions, Nothing
    <2> QED
      BY <1>2, <1>3, <1>4, <2>3, Alike DEF TruncatePointer, Shelf!Unlabel, Shelf!Next, Shelved
  <1>5. CASE WritePointer
    <2>1. pointer = Nothing /\ pointer' = version
      BY <1>5 DEF RegistryInv, WritePointer
    <2>2. \A v \in Shelved : v <= version
      BY Names DEF Shelved, Whole, Exists, RegistryInv
    <2> QED
      BY <1>2, <1>3, <2>1, <2>2, Alike DEF Shelf!Label, Shelf!Newest, Shelf!Next, Shelved
  <1> QED
    BY <1>4, <1>5

\* Steps of the agent, which touch neither models nor pointer.
LEMMA AgentLeavesShelf ==
    ASSUME RegistryInv, UNCHANGED trainerVars
    PROVE  ShelvedStays /\ Shelved' = Shelved /\ pointer' = pointer
  BY SameShelf DEF ShelvedStays, Whole, trainerVars

\* A step from a file on: the offer of the path is narrowed or taken.
LEMMA LoadIsReading ==
    ASSUME RegistryInv, NEW f \in Files, NEW next \in {"features", "metrics", "running"},
           LoadFile(f, next)
    PROVE  [Shelf!Next]_Shelf!shelfVars
  <1>1. /\ agent = f /\ UNCHANGED trainerVars /\ path \in Versions /\ serving = Nothing
        /\ f \in Files
    BY Names DEF LoadFile, RegistryInv
  <1>2. Offer = IF Whole(path) THEN {path} ELSE {Nothing, path}
    BY <1>1, OfferIs
  <1>3. Whole(path) => disk[path][f] = "whole"
    BY DEF Whole
  <1>4. CASE Running(path) \/ (Running(Nothing) /\ ~Whole(path))
    <2>1. serving' \in Offer /\ Offer' = {}
      BY <1>2, <1>4 DEF Running, Offer
    <2>2. Shelf!Finish
      BY <1>1, <2>1, AgentLeavesShelf DEF Shelf!Finish, Shelved
    <2> QED
      BY <2>2 DEF Shelf!Next
  <1>5. CASE agent' = next /\ UNCHANGED <<path, serving>> /\ next # "running"
    <2>1. Whole(path)' = Whole(path)
      BY <1>1, <1>5 DEF Whole, trainerVars
    <2>2. Offer' = Offer
      BY <1>2, <1>5, <2>1 DEF Offer
    <2> QED
      BY <1>1, <1>5, <2>2, AgentLeavesShelf DEF Shelf!shelfVars, Shelved
  <1> QED
    BY <1>1, <1>3, <1>4, <1>5 DEF LoadFile

LEMMA LookIsReading ==
    ASSUME RegistryInv, ReadPointer
    PROVE  Shelf!Next
  <1>1. /\ agent = "pointer" /\ UNCHANGED trainerVars /\ UNCHANGED serving /\ Offer = {}
        /\ serving = Nothing
    BY DEF ReadPointer, Offer, RegistryInv
  <1>2. Offer' \subseteq Shelf!Offered /\ Offer' # {}
    <2>1. CASE pointer # Nothing
      <3>1. Whole(pointer) /\ Exists(pointer)
        BY <2>1, Names DEF RegistryInv, PointerIsWhole, Whole, Exists
      <3>2. agent' = "model" /\ path' = pointer /\ disk' = disk
        BY <2>1, <3>1 DEF ReadPointer, trainerVars
      <3>3. Whole(path)'
        BY <3>1, <3>2 DEF Whole
      <3> QED
        BY <2>1, <3>2, <3>3, Alike DEF Offer, Shelf!Offered
    <2>2. CASE pointer = Nothing
      <3>1. agent' = "scan" /\ ShelvedStays
        BY <1>1, <2>2, AgentLeavesShelf DEF ReadPointer
      <3>2. Offer' = {Nothing} \union {m \in Versions : \A v \in Versions : Whole(v) => v <= m}
        BY <3>1 DEF Offer, ShelvedStays
      <3> QED
        BY <2>2, <3>2, Alike DEF Shelf!Offered, Shelf!Newest
    <2> QED
      BY <2>1, <2>2
  <1>3. Shelf!Look
    BY <1>1, <1>2, AgentLeavesShelf, Alike DEF Shelf!Look, Shelved
  <1> QED
    BY <1>3 DEF Shelf!Next

LEMMA ScanIsReading ==
    ASSUME RegistryInv, Scan
    PROVE  [Shelf!Next]_Shelf!shelfVars
  <1>1. agent = "scan" /\ UNCHANGED trainerVars /\ serving = Nothing
    BY DEF Scan, RegistryInv
  <1>2. Offer = {Nothing} \union {m \in Versions : \A v \in Versions : Whole(v) => v <= m}
    BY <1>1, OfferIs
  <1>3. CASE Running(Nothing)
    <2>1. serving' \in Offer /\ Offer' = {}
      BY <1>2, <1>3 DEF Running, Offer
    <2>2. Shelf!Finish
      BY <1>1, <2>1, AgentLeavesShelf DEF Shelf!Finish, Shelved
    <2> QED
      BY <2>2 DEF Shelf!Next
  <1>4. ASSUME NEW v \in Versions, Highest(v), path' = v, agent' = "model", UNCHANGED serving
        PROVE  Shelf!LookOn
    <2>1. v \in Offer
      BY <1>2, <1>4, Names DEF Highest, Exists, Whole
    <2>2. Offer' \subseteq {Nothing, v} /\ Offer' # {}
      BY <1>4 DEF Offer
    <2>3. Offer' \subseteq Offer
      BY <1>2, <2>1, <2>2
    <2> QED
      BY <1>1, <1>4, <2>2, <2>3, AgentLeavesShelf DEF Shelf!LookOn, Shelf!Narrow, Shelved
  <1> QED
    BY <1>3, <1>4 DEF Scan, Shelf!Next

LEMMA StartStutters ==
    ASSUME RegistryInv, Start
    PROVE  UNCHANGED Shelf!shelfVars
  BY AgentLeavesShelf DEF Start, Offer, Shelf!shelfVars, Shelved

LEMMA StopIsLeave ==
    ASSUME RegistryInv, Stop
    PROVE  Shelf!Next
  <1>1. Offer' = {}
    BY DEF Stop, Offer
  <1>2. Shelf!Leave
    BY <1>1, AgentLeavesShelf, Alike DEF Stop, Shelf!Leave, Shelved
  <1> QED
    BY <1>2 DEF Shelf!Next

LEMMA ShelfStep ==
    ASSUME RegistryInv, [Next]_vars
    PROVE  [Shelf!Next]_Shelf!shelfVars
  <1>1. CASE Save
    <2>1. CASE BeginSave
      BY <2>1, QuietStutters DEF BeginSave, agentVars
    <2>2. CASE Abort
      BY <2>2, QuietStutters DEF Abort, agentVars
    <2> QED
      BY <1>1, <2>1, <2>2, OpenStutters, CloseIsPut, PointerIsLabel DEF Save
  <1>2. CASE Load
    BY <1>2, LoadIsReading, Names DEF Load
  <1>3. CASE Start \/ ReadPointer \/ Scan \/ Stop
    BY <1>3, StartStutters, LookIsReading, ScanIsReading, StopIsLeave
  <1>4. CASE UNCHANGED vars
    BY <1>4, QuietStutters DEF vars, agentVars
  <1> QED
    BY <1>1, <1>2, <1>3, <1>4 DEF Next

\* Training and start-up, file by file and with every kill, are as good as a shelf
\* whose label is moved in one piece: the registry refines ModelShelf.
THEOREM RegistryKeepsPromise == Spec => KeepsPromise
  BY RegistryInvariant, ShelfInit, ShelfStep, PTL DEF Spec, KeepsPromise, Shelf!Spec
===============================================================================
