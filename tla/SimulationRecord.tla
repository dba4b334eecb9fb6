-------------------------- MODULE SimulationRecord --------------------------
(***************************************************************************)
(* pandora/SimulationRecord.cxx and AgentRecord.cxx: how a simulation that *)
(* Serializer wrote is read back, every Resolution steps.                  *)
(*                                                                         *)
(* The agents of a type at a step are spread over the files of the tasks   *)
(* (the worlds), in the order in which each world serialized them.  A file *)
(* has a group for every type that some agent of the world ever had.  What *)
(* is loaded of an agent is a vector of values per attribute, with one     *)
(* entry for each loaded step and 0 where nothing was loaded.              *)
(***************************************************************************)
EXTENDS Integers, Sequences, FiniteSets

CONSTANTS
    NumTasks,
    NumSteps,
    Types,          \* of agents
    Ids,            \* of agents
    Attributes,     \* integer attributes of all types, "x" and "y" among them
    Rasters,        \* names of the dynamic rasters
    Simulations,    \* the recorded simulations
    Resolutions,    \* a record loads every so many steps
    MaxLoads        \* bound on the calls of loadHDF5 of one record

Tasks == 1 .. NumTasks
Steps == 0 .. NumSteps

\* One agent at one step: the i-th values of the datasets of its type
Row == [id : Ids, value : [Attributes -> Int]]

\* agents-N.abm of each task, and a raster, of which one cell is kept.
Simulation == [file : [Tasks -> [Types -> [Steps -> Seq(Row)]]], raster : [Rasters -> [Steps -> Int]]]

ASSUME NumbersAssumption ==
    NumTasks \in Nat \ {0} /\ NumSteps \in Nat /\ MaxLoads \in Nat /\ Resolutions \subseteq Nat \ {0}

ASSUME SetsAssumption ==
    /\ IsFiniteSet(Types) /\ IsFiniteSet(Rasters) /\ Rasters # {}
    /\ {"x", "y"} \subseteq Attributes /\ "exists" \notin Attributes
    /\ \A s \in Simulations : s \in Simulation

\* In a step an agent is in one file, once: one world has it and serializes it.
ASSUME OneRowAssumption ==
    \A s \in Simulations : \A k \in Steps, i \in Tasks, j \in Tasks, t \in Types, u \in Types :
        \A m \in DOMAIN s.file[i][t][k], n \in DOMAIN s.file[j][u][k] :
            s.file[i][t][k][m].id = s.file[j][u][k][n].id => s.file[i][t][k][m] = s.file[j][u][k][n]

VARIABLES
    sim,            \* the files being read
    resolution,     \* _resolution
    loads,          \* calls of loadHDF5 so far
    phase,          \* where loadHDF5 is
    task,           \* the file of agents that is open
    agentTypes,     \* _agentTypes: the types of that file that are left
    loadingStep,    \* _loadingStep, or the step of the raster
    rastersLeft,    \* the rasters that are left
    types,          \* the keys of _types
    agents,         \* the records in _types
    resources,      \* _resources: per raster and loaded step
    bounds,         \* minimum and maximum of each raster
    minValue,       \* _minAttributeValues
    maxValue,       \* _maxAttributeValues
    percentage      \* _loadingPercentageDone, in parts of 1/Parts

vars == <<sim, resolution, loads, phase, task, agentTypes, loadingStep, rastersLeft,
          types, agents, resources, bounds, minValue, maxValue, percentage>>

loadVars == <<sim, resolution, loads>>
agentVars == <<task, agentTypes, types, agents, minValue, maxValue>>
rasterVars == <<rastersLeft, resources, bounds>>

----------------------------------------------------------------------------
Least(S)    == CHOOSE x \in S : \A y \in S : x =< y
Greatest(S) == CHOOSE x \in S : \A y \in S : x >= y

\* The loops run over 0, resolution, 2 * resolution ...  =< _numSteps.
LoadedSteps == {k \in Steps : k % resolution = 0}

\* Mutation of MoreSteps: the last step is left out.
MoreStepsStrict(k) == k + resolution < NumSteps

MoreSteps(k) == k + resolution =< NumSteps

NumStepsToLoad == 1 + NumSteps \div resolution

Slots == 0 .. NumStepsToLoad - 1

Slot(k) == k \div resolution

Keys == Attributes \union {"exists"}

\* The types of the groups in the file of task i
FileTypes(i) == {t \in Types : \E k \in Steps : sim.file[i][t][k] # <<>>}

Factorial[n \in Nat] == IF n = 0 THEN 1 ELSE n * Factorial[n - 1]

\* Percentages are multiples of 1 / Parts, whatever the number of types.
Parts == NumTasks * NumStepsToLoad * Factorial[Cardinality(Types)] * Cardinality(Rasters)

\* Mutation of Increase: as if there was only one file.
IncreaseOneTask(known) == (50 * Parts) \div (Cardinality(known) * NumStepsToLoad)

Increase(known) == (50 * Parts) \div (NumTasks * Cardinality(known) * NumStepsToLoad)

RasterIncrease == (30 * Parts) \div (Cardinality(Rasters) * NumStepsToLoad)

----------------------------------------------------------------------------
Nothing == [k \in {} |-> 0]

Init ==
    /\ sim \in Simulations /\ resolution \in Resolutions
    /\ loads = 0 /\ phase = "no load"
    /\ task = 0 /\ agentTypes = {} /\ loadingStep = 0 /\ rastersLeft = {}
    /\ types = {} /\ agents = Nothing /\ resources = Nothing /\ bounds = Nothing
    /\ minValue = Nothing /\ maxValue = Nothing
    /\ percentage = 0

\* loadHDF5 up to the first raster or file of agents.  It clears neither
\* _minAttributeValues nor _maxAttributeValues.  The file may not open.
loadHDF5(loadRasters) ==
    /\ phase \in {"no load", "done", "failed"} /\ loads < MaxLoads
    /\ loads' = loads + 1
    /\ sim' \in Simulations
    /\ types' = {} /\ agents' = Nothing
    /\ bounds' = Nothing
    /\ task' = 0 /\ agentTypes' = {} /\ loadingStep' = 0
    /\ \/ /\ phase' = "failed" /\ percentage' = 0
          /\ rastersLeft' = {} /\ resources' = Nothing
       \/ /\ loadRasters /\ phase' = "rasters" /\ percentage' = 20 * Parts
          /\ rastersLeft' = Rasters
          /\ resources' = [r \in Rasters |-> [s \in Slots |-> 0]]
       \/ /\ ~loadRasters /\ phase' = "agents" /\ percentage' = 50 * Parts
          /\ rastersLeft' = {} /\ resources' = Nothing
    /\ UNCHANGED <<resolution, minValue, maxValue>>

\* Values of a raster at the loaded steps
Extremes(values) ==
    LET all == {values[s] : s \in Slots} IN [min |-> Least(all), max |-> Greatest(all)]

\* One step of a raster.  After the last step all its steps get the extremes
\* of the simulation; after the last raster half of the load is done.
LoadRaster ==
    LET r == CHOOSE q \in rastersLeft : TRUE
        values == [resources[r] EXCEPT ![Slot(loadingStep)] = sim.raster[r][loadingStep]]
    IN  /\ phase = "rasters"
        /\ resources' = [resources EXCEPT ![r] = values]
        /\ IF MoreSteps(loadingStep)
           THEN /\ loadingStep' = loadingStep + resolution
                /\ UNCHANGED <<rastersLeft, bounds>>
           ELSE /\ loadingStep' = 0 /\ rastersLeft' = rastersLeft \ {r}
                /\ bounds' = [q \in DOMAIN bounds \union {r} |->
                                 IF q = r THEN Extremes(values) ELSE bounds[q]]
        /\ IF rastersLeft' = {}
           THEN phase' = "agents" /\ percentage' = 50 * Parts
           ELSE percentage' = percentage + RasterIncrease /\ UNCHANGED phase
        /\ UNCHANGED <<loadVars, agentVars>>

\* registerAgentTypes of the next file
registerAgentTypes ==
    /\ phase = "agents" /\ agentTypes = {} /\ task < NumTasks
    /\ task' = task + 1
    /\ agentTypes' = FileTypes(task + 1)
    /\ types' = types \union FileTypes(task + 1)
    /\ loadingStep' = 0
    /\ UNCHANGED <<loadVars, rasterVars, phase, agents, minValue, maxValue, percentage>>

\* A new AgentRecord, where each vector of values is resized on first use
NewRecord == [key \in Keys |-> [s \in Slots |-> 0]]

\* Mutation of States: attributes are read by the position in the record.
StatesShifted(rows, id) ==
    LET old == IF id \in DOMAIN agents THEN agents[id] ELSE NewRecord
        i == CHOOSE j \in DOMAIN rows : rows[j].id = id
    IN  [key \in Keys |-> [old[key] EXCEPT ![Slot(loadingStep)] =
            IF key = "exists" THEN 1 ELSE rows[IF i > 1 THEN i - 1 ELSE i].value[key]]]

\* Mutation of States: a new vector is filled with its first value.
StatesFilled(rows, id) ==
    LET i == CHOOSE j \in DOMAIN rows : rows[j].id = id
    IN  [key \in Keys |-> [s \in Slots |->
            IF id \in DOMAIN agents /\ s # Slot(loadingStep) THEN agents[id][key][s]
            ELSE IF key = "exists" THEN 1 ELSE rows[i].value[key]]]

\* registerAgentIds and loadAttributes for the agent id of rows: the entry of
\* the step is set for "exists" and all attributes (AgentRecord::addState).
States(rows, id) ==
    LET old == IF id \in DOMAIN agents THEN agents[id] ELSE NewRecord
        i == CHOOSE j \in DOMAIN rows : rows[j].id = id
    IN  [key \in Keys |-> [old[key] EXCEPT ![Slot(loadingStep)] =
            IF key = "exists" THEN 1 ELSE rows[i].value[key]]]

\* updateMinMaxAttributeValues
UpdatedMin(rows) ==
    [a \in Attributes |->
        Least({rows[i].value[a] : i \in DOMAIN rows}
              \union (IF a \in DOMAIN minValue THEN {minValue[a]} ELSE {}))]

UpdatedMax(rows) ==
    [a \in Attributes |->
        Greatest({rows[i].value[a] : i \in DOMAIN rows}
                 \union (IF a \in DOMAIN maxValue THEN {maxValue[a]} ELSE {}))]

\* One step of one type of the file that is open, in loadAgentsFiles.  (The
\* code takes the types by name; any order would do.)
LoadAgents ==
    LET t    == CHOOSE u \in agentTypes : TRUE
        rows == sim.file[task][t][loadingStep]
        ids  == {rows[i].id : i \in DOMAIN rows}
    IN  /\ phase = "agents" /\ agentTypes # {}
        /\ agents' = [id \in DOMAIN agents \union ids |->
                         IF id \in ids THEN States(rows, id) ELSE agents[id]]
        /\ IF rows = <<>> THEN UNCHANGED <<minValue, maxValue>>
           ELSE minValue' = UpdatedMin(rows) /\ maxValue' = UpdatedMax(rows)
        /\ percentage' = percentage + Increase(types)
        /\ IF MoreSteps(loadingStep)
           THEN loadingStep' = loadingStep + resolution /\ UNCHANGED agentTypes
           ELSE loadingStep' = 0 /\ agentTypes' = agentTypes \ {t}
        /\ UNCHANGED <<loadVars, rasterVars, phase, task, types>>

\* The end of loadHDF5
Loaded ==
    /\ phase = "agents" /\ agentTypes = {} /\ task = NumTasks
    /\ phase' = "done" /\ percentage' = 100 * Parts
    /\ UNCHANGED <<loadVars, rasterVars, agentVars, loadingStep>>

\* No load is going on, nor asked for any more.
Idle == phase \in {"done", "failed"} /\ loads = MaxLoads /\ UNCHANGED vars

Next ==
    \/ \E loadRasters \in BOOLEAN : loadHDF5(loadRasters)
    \/ LoadRaster
    \/ registerAgentTypes
    \/ LoadAgents
    \/ Loaded
    \/ Idle

Spec == Init /\ [][Next]_vars

----------------------------------------------------------------------------
(* Properties *)

\* The rows of all files at step k
RowsAt(k) == UNION {{sim.file[i][t][k][j] : j \in DOMAIN sim.file[i][t][k]} : i \in Tasks, t \in Types}

(* What is loaded of the agents is what the worlds recorded at the loaded  *)
(* steps, whichever files an agent was in: it exists in the steps in which *)
(* one of the files has it, with the values it had there, and the types    *)
(* are those of agents that were ever in one.  No value that exists is     *)
(* outside of the extremes, which may be those of an earlier load as well: *)
(* a colour is (value - min) * 255 / (max - min).                          *)
RecordIsHistory ==
    phase = "done" =>
        /\ DOMAIN agents = UNION {{row.id : row \in RowsAt(k)} : k \in LoadedSteps}
        /\ types = UNION {FileTypes(i) : i \in Tasks}
        /\ \A k \in LoadedSteps, id \in DOMAIN agents :
            LET rows == {row \in RowsAt(k) : row.id = id}
            IN  /\ agents[id]["exists"][Slot(k)] = Cardinality(rows)
                /\ \A row \in rows, a \in Attributes :
                        /\ agents[id][a][Slot(k)] = row.value[a]
                        /\ row.value[a] \in minValue[a] .. maxValue[a]

(* The same for rasters, whose bounds at any step are those over all.      *)
RastersAreHistory ==
    phase = "done" => \A r \in DOMAIN resources :
        /\ \A k \in LoadedSteps : resources[r][Slot(k)] = sim.raster[r][k]
        /\ bounds[r].min = Least({sim.raster[r][k] : k \in LoadedSteps})
        /\ bounds[r].max = Greatest({sim.raster[r][k] : k \in LoadedSteps})

(* The progress bar never passes 100, although every file adds the types   *)
(* that it has by a share that depends on those known by then; and it is   *)
(* at 100, which is when Display2D paints, only if nothing is left to load. *)
PercentageIsProgress ==
    /\ percentage =< 100 * Parts
    /\ percentage = 100 * Parts => task = NumTasks /\ agentTypes = {}

\* The agents of which getAgentAtPosition returns one
AtPosition(s, x, y) == {id \in DOMAIN agents : agents[id]["x"][s] = x /\ agents[id]["y"][s] = y}

(* getAgentAtPosition does not ask whether an agent exists.  It finds the  *)
(* agents that do all the same, but for the cell (0,0), where every agent  *)
(* seems to be when it does not exist.                                     *)
AgentAtPosition ==
    phase = "done" => \A k \in LoadedSteps, id \in DOMAIN agents :
        LET x == agents[id]["x"][Slot(k)]
            y == agents[id]["y"][Slot(k)]
        IN  (x # 0 \/ y # 0) =>
                AtPosition(Slot(k), x, y) =
                    {row.id : row \in {r \in RowsAt(k) : r.value["x"] = x /\ r.value["y"] = y}}
=============================================================================
