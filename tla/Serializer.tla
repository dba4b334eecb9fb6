----------------------------- MODULE Serializer -----------------------------
(***************************************************************************)
(* pandora/Serializer.cxx: how a world writes its agents to agents-N.abm.  *)
(*                                                                         *)
(* The file has one dataset per type, step and attribute, and the i-th     *)
(* entries of the datasets of a type and step make up one agent.  Each     *)
(* attribute has its own buffer.  The buffers of a type go to the file     *)
(* when they hold ChunkSize agents and at the end of the step, behind what *)
(* _agentIndexMap says is there already.  A type is registered, with the   *)
(* datasets of all steps, when its first agent is serialized.              *)
(***************************************************************************)
EXTENDS Naturals, Sequences, FiniteSets

CONSTANTS
    Types,              \* what Agent::getType returns
    IntAttributes,      \* of every type, x and y among them
    StringAttributes,   \* of every type
    IdAttribute,        \* the attribute "id"
    Value,              \* values of attributes
    Fill,               \* what HDF5 puts in entries that nobody wrote
    NumSteps,           \* Simulation::getNumSteps
    ChunkSize,          \* 20000 in the code
    Populations         \* the lists of agents that a step may start with

Attributes == IntAttributes \union StringAttributes
Steps == 0 .. NumSteps

\* serializeAgent adds x, y and id for every agent.
ASSUME AttributesAssumption == IntAttributes # {} /\ IdAttribute \in StringAttributes

ASSUME NumbersAssumption == NumSteps \in Nat /\ ChunkSize \in Nat \ {0} /\ Fill \in Value

\* An agent: its type, Agent::exists, and its attributes.
Agent == [type : Types, exists : BOOLEAN, row : [Attributes -> Value]]

ASSUME PopulationsAssumption == \A p \in Populations : p \in Seq(Agent)

VARIABLES
    step,           \* World::_step
    agents,         \* World::_agents during serializeAgents
    next,           \* the agent of that list that is serialized next
    registered,     \* the types in _stringAttributes
    buffer,         \* _intAttributes and _stringAttributes
    index,          \* _agentIndexMap
    file            \* the datasets

vars == <<step, agents, next, registered, buffer, index, file>>

TypeOK ==
    /\ step \in 0 .. NumSteps + 1
    /\ agents \in Seq(Agent)
    /\ next \in Nat
    /\ registered \in SUBSET Types
    /\ buffer \in [Types -> [Attributes -> Seq(Value)]]
    /\ index \in [Types -> Nat]
    /\ file \in [Types -> [Steps -> [Attributes -> Seq(Value)]]]

NoRows == [a \in Attributes |-> <<>>]

Init ==
    /\ step = 0
    /\ agents \in Populations /\ next = 1
    /\ registered = {}
    /\ buffer = [t \in Types |-> NoRows]
    /\ index = [t \in Types |-> 0]
    /\ file = [t \in Types |-> [k \in Steps |-> NoRows]]

----------------------------------------------------------------------------
(* executeAgentSerialization *)

\* H5Dset_extent to what is there and what is new, then H5Dwrite at offset.
WriteAt(old, offset, data) ==
    [i \in 1 .. offset + Len(data) |->
        IF i > offset THEN data[i - offset] ELSE IF i =< Len(old) THEN old[i] ELSE Fill]

\* "nothing to serialize": the first attribute without data ends the call.
Nothing(data) == \E a \in IntAttributes : data[a] = <<>>

\* The datasets of type t at the current step, its index and its buffers
\* after a call with data in the buffers.
WrittenFile(t, data) ==
    IF Nothing(data) THEN file[t]
    ELSE [file[t] EXCEPT ![step] = [a \in Attributes |-> WriteAt(@[a], index[t], data[a])]]

\* Mutation of WrittenIndex: the index stays at the start of the step.
WrittenIndexKept(t, data) == index[t]

WrittenIndex(t, data) ==
    IF Nothing(data) THEN index[t] ELSE index[t] + Len(data[IdAttribute])

\* Mutations of Left: nothing is cleared, or only the strings are.
LeftAll(data)     == data
LeftStrings(data) == [a \in Attributes |-> IF a \in IntAttributes THEN <<>> ELSE data[a]]

\* What remains in the buffers
Left(data) == IF Nothing(data) THEN data ELSE NoRows

----------------------------------------------------------------------------

Agent1 == agents[next]

\* addStringAttribute, addIntAttribute and Agent::serialize
Added(data, row) == [a \in Attributes |-> Append(data[a], row[a])]

Full(data) == Len(data[IdAttribute]) >= ChunkSize

\* The loop of serializeAgents passes over an agent that no longer exists.
SkipAgent ==
    /\ step \in Steps /\ next \in DOMAIN agents
    /\ ~Agent1.exists
    /\ next' = next + 1
    /\ UNCHANGED <<step, agents, registered, buffer, index, file>>

\* Serializer::serializeAgent of an agent of type t
serializeAgent(t) ==
    LET data == Added(buffer[t], Agent1.row)
    IN  /\ step \in Steps /\ next \in DOMAIN agents
        /\ Agent1.exists /\ Agent1.type = t
        /\ next' = next + 1
        /\ registered' = registered \union {t}
        /\ \/ /\ ~Full(data)
              /\ buffer' = [buffer EXCEPT ![t] = data]
              /\ UNCHANGED <<index, file>>
           \/ /\ Full(data)
              /\ buffer' = [buffer EXCEPT ![t] = Left(data)]
              /\ index' = [index EXCEPT ![t] = WrittenIndex(t, data)]
              /\ file' = [file EXCEPT ![t] = WrittenFile(t, data)]
        /\ UNCHANGED <<step, agents>>

\* finishAgentsSerialization, with resetCurrentIndexs.  The world then runs
\* the step, which leaves any list of agents.
finishAgentsSerialization ==
    /\ step \in Steps /\ next = Len(agents) + 1
    /\ buffer' = [t \in Types |-> IF t \in registered THEN Left(buffer[t]) ELSE buffer[t]]
    /\ file' = [t \in Types |->
                   IF t \in registered THEN WrittenFile(t, buffer[t]) ELSE file[t]]
    /\ index' = [t \in Types |-> 0]
    /\ step' = step + 1
    /\ agents' \in Populations /\ next' = 1
    /\ UNCHANGED registered

\* Serializer::finish closes the files after the last step.
Closed == step = NumSteps + 1 /\ UNCHANGED vars

Next ==
    \/ SkipAgent
    \/ \E t \in Types : serializeAgent(t)
    \/ finishAgentsSerialization
    \/ Closed

Spec == Init /\ [][Next]_vars

----------------------------------------------------------------------------
(* Properties *)

\* The rows on disk of type t at step k, and behind them those in the buffers.
Rows(t, k) ==
    LET onDisk == Len(file[t][k][IdAttribute])
        inBuffer == IF k = step THEN Len(buffer[t][IdAttribute]) ELSE 0
    IN  [i \in 1 .. onDisk + inBuffer |-> [a \in Attributes |->
            IF i =< onDisk THEN file[t][k][a][i] ELSE buffer[t][a][i - onDisk]]]

(* The buffers and datasets of the attributes of a type are always equally *)
(* long, the index is what is on disk of this step, and nothing is on disk *)
(* of later steps: the i-th values of all attributes are those of the same *)
(* agent, whenever chunks were written.                                    *)
Aligned ==
    \A t \in Types :
        /\ \A a \in Attributes :
            /\ Len(buffer[t][a]) = Len(buffer[t][IdAttribute])
            /\ \A k \in Steps : Len(file[t][k][a]) = Len(file[t][k][IdAttribute])
            /\ \A k \in Steps : k > step => file[t][k][a] = <<>>
        /\ step \in Steps => index[t] = Len(file[t][step][IdAttribute])
        /\ t \notin registered => buffer[t] = NoRows

(* Chunks, lazy registration of types and skipped agents do not show: the  *)
(* file with the buffers behind it is a history of whole agents, one step  *)
(* after the other.                                                        *)
History == INSTANCE AgentHistory WITH recorded <- [t \in Types |-> [k \in Steps |-> Rows(t, k)]]

IsHistory == History!Spec

\* The existing agents of type t among the first n of the list
Serialized(t, n) == {i \in DOMAIN agents : i =< n /\ agents[i].exists /\ agents[i].type = t}

(* Every existing agent of the list is in the file or the buffers once, in *)
(* the order of the list, and no other agent.                              *)
NobodyMissing ==
    step \in Steps => \A t \in Types :
        /\ Len(Rows(t, step)) = Cardinality(Serialized(t, next - 1))
        /\ \A i \in Serialized(t, next - 1) :
                Rows(t, step)[Cardinality(Serialized(t, i))] = agents[i].row

(* A buffer never holds a whole chunk between two agents.                  *)
BufferBounded == \A t \in Types : Len(buffer[t][IdAttribute]) < ChunkSize
=============================================================================
