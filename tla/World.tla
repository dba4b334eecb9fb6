------------------------------- MODULE World -------------------------------
(***************************************************************************)
(* The parallel execution of agents by pandora/World.cxx.                  *)
(*                                                                         *)
(* Every MPI process runs World::run on its own square of cells.  A step   *)
(* goes through four sections; in a section a world executes its agents    *)
(* that stand there, hands over those that walked out of its boundaries    *)
(* (sendAgents / receiveAgents) and refreshes the copies, the "ghosts",    *)
(* that its neighbours keep of the agents near the border                  *)
(* (sendGhostAgents / receiveGhostAgents).  There is no barrier in the     *)
(* step: only these messages keep the worlds in order.                     *)
(*                                                                         *)
(* A channel is FIFO, one per sender, receiver and kind of message, as MPI *)
(* guarantees per communicator, pair and tag; a message is the whole list  *)
(* that the code sends as a count followed by that many packages.  A send  *)
(* is buffered: it never waits for the receiver.  Agents have one type.    *)
(* The lists _agents and _overlapAgents are sets of agent records.         *)
(***************************************************************************)
EXTENDS WorldGeometry, Sequences, FiniteSets

CONSTANTS
    Agents,         \* identifiers of agents
    InitialCells,   \* where createAgents may put an agent
    NumSteps,       \* Simulation::_numSteps
    Touches,        \* BOOLEAN: agents modify the agents they see
    Deaths          \* BOOLEAN: agents remove themselves

ASSUME NumStepsAssumption == NumSteps \in Nat \ {0}
ASSUME InitialCellsAssumption == InitialCells \subseteq Cells
ASSUME BehaviourAssumption == Touches \in BOOLEAN /\ Deaths \in BOOLEAN

VARIABLES
    pc,             \* what each world does next
    step,           \* _step
    sectionIndex,   \* the section of the loops of run and step
    agents,         \* _agents, the agents a world owns
    overlapAgents,  \* _overlapAgents, the ghosts a world keeps
    agentsToExecute,\* ids picked at the start of stepSection
    agentsToSend,   \* ids of the agents that left in this section
    executedAgents, \* _executedAgentsHash
    removedAgents,  \* _removedAgents
    agentChannel,   \* lists sent with eNumAgents / eAgent
    ghostChannel,   \* lists sent with eNumGhostAgents / eGhostAgent
    touched         \* observer: how often each agent has been modified

localVars == <<agentsToExecute, agentsToSend, executedAgents, removedAgents>>
vars == <<pc, step, sectionIndex, agents, overlapAgents, localVars,
          agentChannel, ghostChannel, touched>>

\* An agent object: its position and _exists, how often it was executed and
\* how often another agent modified it.
Agent == [id : Agents, position : Cells, exists : BOOLEAN,
          turns : Nat, value : Nat]

Channels == {c \in Worlds \X Worlds : c[2] \in Neighbors(c[1])}

PC == {"barrier", "initSendGhosts", "initReceiveGhosts", "stepSection",
       "execute", "receiveAgents", "sendGhosts", "receiveGhosts",
       "removeAgents", "finished", "exception"}

TypeOK ==
    /\ pc \in [Worlds -> PC]
    /\ step \in [Worlds -> 0 .. NumSteps]
    /\ sectionIndex \in [Worlds -> Sections]
    /\ agents \in [Worlds -> SUBSET Agent]
    /\ overlapAgents \in [Worlds -> SUBSET Agent]
    /\ agentsToExecute \in [Worlds -> SUBSET Agents]
    /\ agentsToSend \in [Worlds -> SUBSET Agents]
    /\ executedAgents \in [Worlds -> SUBSET Agents]
    /\ removedAgents \in [Worlds -> SUBSET Agents]
    /\ agentChannel \in [Channels -> Seq(SUBSET Agent)]
    /\ ghostChannel \in [Channels -> Seq(SUBSET Agent)]
    /\ touched \in [Agents -> Nat]

Ids(S) == {a.id : a \in S}

Without(S, ids) == {a \in S : a.id \notin ids}

----------------------------------------------------------------------------
(* What a world sees, and what the agents of the examples and tests do *)

Near(p, q) == Distance(p[1], q[1]) =< Overlap /\ Distance(p[2], q[2]) =< Overlap

\* getAgent and getNeighbours look through both lists.
Visible(w) == agents[w] \cup overlapAgents[w]

\* Mutation of checkPosition: it asks _agents only.
checkPositionOwned(w, cell) ==
    cell \in Cells /\ \A a \in agents[w] : a.position = cell => ~a.exists

\* checkPosition, for a world that allows one agent per cell.
checkPosition(w, cell) ==
    /\ cell \in Cells
    /\ \A a \in Visible(w) : a.position = cell => ~a.exists

\* MoveAction::execute: an agent moves if checkPosition agrees.
MoveTargets(w, a) ==
    {a.position} \cup {c \in Cells : Near(a.position, c) /\ checkPosition(w, c)}

\* The agents that a may modify: none, or one that it sees from its cell.
Targets(w, a) ==
    {{}} \cup {{b.id} : b \in {v \in Visible(w) :
                    Touches /\ v.id # a.id /\ v.exists /\ Near(a.position, v.position)}}

\* Agent::remove makes the agent non existent and lists it in _removedAgents.
Fates == IF Deaths THEN {TRUE, FALSE} ELSE {FALSE}

\* Modifying an agent changes the object the world holds, ghost or not.
Touch(S, ids) ==
    {IF a.id \in ids THEN [a EXCEPT !.value = @ + 1] ELSE a : a \in S}

----------------------------------------------------------------------------
(* Messages *)

\* lists maps every neighbour that is sent a message to the message.
Put(channel, w, lists) ==
    [c \in Channels |-> IF c[1] = w /\ c[2] \in DOMAIN lists
                        THEN Append(channel[c], lists[c[2]])
                        ELSE channel[c]]

Arrived(channel, w, sources) == \A v \in sources : channel[<<v, w>>] # << >>

Take(channel, w, sources) ==
    [c \in Channels |-> IF c[2] = w /\ c[1] \in sources
                        THEN Tail(channel[c])
                        ELSE channel[c]]

\* Mutations of GhostList: the modified ghosts are not sent, and the removed
\* agents are.
GhostListOwned(w, v) ==
    {a \in agents[w] : /\ a.id \notin removedAgents[w]
                       /\ isInside(Zone(w, v, sectionIndex[w]), a.position)}
GhostListRemoved(w, v) ==
    {a \in Visible(w) : isInside(Zone(w, v, sectionIndex[w]), a.position)}

\* sendGhostAgents: owned agents and ghosts of the zone, but not the removed.
GhostList(w, v) ==
    {a \in Visible(w) :
        /\ a.id \notin removedAgents[w]
        /\ isInside(Zone(w, v, sectionIndex[w]), a.position)}

\* Neighbours are visited column by column (stablishPosition).
VisitedAfter(u, v) == u[1] > v[1] \/ (u[1] = v[1] /\ u[2] > v[2])

\* receiveGhostAgents: an agent the world owns is an update of it; of two
\* updates of the same agent the last one stays.
Updates(w, sources) ==
    LET list(v)   == Head(ghostChannel[<<v, w>>])
        newest(v) == {a \in list(v) : \A u \in sources :
                            VisitedAfter(u, v) => a.id \notin Ids(list(u))}
    IN  {a \in UNION {newest(v) : v \in sources} : a.id \in Ids(agents[w])}

\* Every update erases the agent it finds under its id (getOwnedAgent), so of
\* two copies in one list the one read last stays; which one that is depends
\* on the order of the lists of the sender.
ReadLast(S) ==
    {T \in SUBSET S : Ids(T) = Ids(S) /\ \A a, b \in T : a.id = b.id => a = b}

\* Mutation of KeptGhosts: nothing is erased before the copies are added.
KeptGhostsAll(w, sources) == overlapAgents[w]

\* The ghosts that no zone erases, and the copies that take their place
\* unless the zone of a neighbour visited later erases them again.
KeptGhosts(w, sources) ==
    {a \in overlapAgents[w] : \A v \in sources :
        ~isInside(Zone(w, v, sectionIndex[w]), a.position)}

NewGhosts(w, sources) ==
    UNION {{a \in Head(ghostChannel[<<v, w>>]) :
                /\ a.id \notin Ids(agents[w])
                /\ \A u \in sources : VisitedAfter(u, v) =>
                        ~isInside(Zone(w, u, sectionIndex[w]), a.position)}
           : v \in sources}

----------------------------------------------------------------------------
(* Actions *)

\* Every agent starts in the list of the world whose cell it is put on.
Init ==
    /\ pc = [w \in Worlds |-> "barrier"]
    /\ step = [w \in Worlds |-> 0]
    /\ sectionIndex = [w \in Worlds |-> 0]
    /\ \E place \in [Agents -> InitialCells] :
        /\ \A a, b \in Agents : a # b => place[a] # place[b]
        /\ agents = [w \in Worlds |->
              {[id |-> a, position |-> place[a], exists |-> TRUE, turns |-> 0, value |-> 0]
                  : a \in {b \in Agents : isInside(boundaries(w), place[b])}}]
    /\ overlapAgents = [w \in Worlds |-> {}]
    /\ agentsToExecute = [w \in Worlds |-> {}]
    /\ agentsToSend = [w \in Worlds |-> {}]
    /\ executedAgents = [w \in Worlds |-> {}]
    /\ removedAgents = [w \in Worlds |-> {}]
    /\ agentChannel = [c \in Channels |-> << >>]
    /\ ghostChannel = [c \in Channels |-> << >>]
    /\ touched = [a \in Agents |-> 0]

Goto(w, place) == pc' = [pc EXCEPT ![w] = place]

\* Mutation of nextSection: the section after the last is not the first.
nextSectionBeyond(s) == s + 1

\* The loops of run and step over the sections begin again at 0.
nextSection(s) == (s + 1) % 4

\* run: MPI_Barrier before the ghosts of each section are first exchanged.
Barrier ==
    /\ \A w \in Worlds : pc[w] = "barrier"
    /\ pc' = [w \in Worlds |-> "initSendGhosts"]
    /\ UNCHANGED <<step, sectionIndex, agents, overlapAgents, localVars,
                   agentChannel, ghostChannel, touched>>

SendGhosts(w, from, to) ==
    /\ pc[w] = from
    /\ ghostChannel' = Put(ghostChannel, w,
                           [v \in SendTo(w, sectionIndex[w]) |-> GhostList(w, v)])
    /\ Goto(w, to)
    /\ UNCHANGED <<step, sectionIndex, agents, overlapAgents, localVars,
                   agentChannel, touched>>

ReceiveGhosts(w, from, loop, last) ==
    LET sources == ReceiveFrom(w, sectionIndex[w])
    IN  /\ pc[w] = from
        /\ Arrived(ghostChannel, w, sources)
        /\ ghostChannel' = Take(ghostChannel, w, sources)
        /\ \E updates \in ReadLast(Updates(w, sources)) :
            /\ agents' = [agents EXCEPT ![w] = Without(@, Ids(updates)) \cup updates]
            /\ overlapAgents' = [overlapAgents EXCEPT ![w] =
                    Without(KeptGhosts(w, sources), Ids(updates)) \cup NewGhosts(w, sources)]
        /\ sectionIndex' = [sectionIndex EXCEPT ![w] = nextSection(@)]
        /\ Goto(w, IF sectionIndex[w] = 3 THEN last ELSE loop)
        /\ UNCHANGED <<step, localVars, agentChannel, touched>>

\* The exchange of ghosts in run, before the first step.
InitSendGhosts(w)    == SendGhosts(w, "initSendGhosts", "initReceiveGhosts")
InitReceiveGhosts(w) ==
    ReceiveGhosts(w, "initReceiveGhosts", "barrier", "stepSection")

\* sendGhostAgents and receiveGhostAgents in step.
sendGhostAgents(w)    == SendGhosts(w, "sendGhosts", "receiveGhosts")
receiveGhostAgents(w) ==
    ReceiveGhosts(w, "receiveGhosts", "stepSection", "removeAgents")

\* Mutation of inSection: all agents of the world, in every section.
inSectionAnywhere(w, a) == isInside(boundaries(w), a.position)

\* Mutation of inSection: the first column is left out.
inSectionInner(w, a) ==
    LET area == section(w, sectionIndex[w])
    IN  isInside(area, a.position) /\ a.position[1] # area.x.lo

inSection(w, a) == isInside(section(w, sectionIndex[w]), a.position)

hasBeenExecuted(w, a) == a.id \in executedAgents[w]

\* stepSection picks the agents of the section that have not been executed.
stepSection(w) ==
    /\ pc[w] = "stepSection"
    /\ agentsToExecute' = [agentsToExecute EXCEPT ![w] =
            Ids({a \in agents[w] : inSection(w, a) /\ ~hasBeenExecuted(w, a)})]
    /\ Goto(w, "execute")
    /\ UNCHANGED <<step, sectionIndex, agents, overlapAgents, agentsToSend,
                   executedAgents, removedAgents, agentChannel, ghostChannel, touched>>

\* The agents still to be executed; the code checks again before each turn.
Executable(w) ==
    {a \in agents[w] : a.id \in agentsToExecute[w] /\ inSection(w, a) /\ ~hasBeenExecuted(w, a)}

\* Mutation of Leaves: willBeRemoved is not asked.
LeavesDead(w, target, dies) == ~isInside(boundaries(w), target)

\* An agent that left the boundaries is sent away, unless it died.
Leaves(w, target, dies) == ~isInside(boundaries(w), target) /\ ~dies

\* One turn of agent a: it moves, may modify an agent it saw, may die.  An
\* agent that leaves becomes a ghost and is to be sent.
executeAgent(w, a) ==
    /\ pc[w] = "execute"
    /\ a \in Executable(w)
    /\ \E target \in MoveTargets(w, a), touch \in Targets(w, a), dies \in Fates :
        LET b      == [a EXCEPT !.position = target, !.turns = @ + 1, !.exists = ~dies]
            leaves == Leaves(w, target, dies)
            owned  == Touch(agents[w] \ {a}, touch)
            ghosts == Touch(overlapAgents[w], touch)
        IN  /\ agents' = [agents EXCEPT ![w] = IF leaves THEN owned ELSE owned \cup {b}]
            /\ overlapAgents' = [overlapAgents EXCEPT ![w] =
                                    IF leaves THEN ghosts \cup {b} ELSE ghosts]
            /\ agentsToSend' = [agentsToSend EXCEPT ![w] =
                                    IF leaves THEN @ \cup {a.id} ELSE @]
            /\ removedAgents' = [removedAgents EXCEPT ![w] =
                                    IF dies THEN @ \cup {a.id} ELSE @]
            /\ touched' = [i \in Agents |-> IF i \in touch THEN touched[i] + 1 ELSE touched[i]]
    /\ executedAgents' = [executedAgents EXCEPT ![w] = @ \cup {a.id}]
    /\ agentsToExecute' = [agentsToExecute EXCEPT ![w] = @ \ {a.id}]
    /\ UNCHANGED <<pc, step, sectionIndex, agentChannel, ghostChannel>>

\* The objects to send are those in _overlapAgents, as they are by now.
Leaving(w) == {a \in overlapAgents[w] : a.id \in agentsToSend[w]}

\* Mutation of BoundFor: every neighbour is sent every agent.
BoundForAll(w, v) == Leaving(w)

BoundFor(w, v) == {a \in Leaving(w) : getIdFromPosition(a.position) = v}

\* Mutation of AgentLists: nothing is sent when nobody leaves.
AgentListsNotEmpty(w) ==
    [v \in {u \in Neighbors(w) : Leaving(w) # {}} |-> BoundFor(w, v)]

AgentLists(w) == [v \in Neighbors(w) |-> BoundFor(w, v)]

\* sendAgents, at the end of stepSection: every neighbour gets a list.  An
\* agent bound for a world that is no neighbour makes getNeighborIndex throw.
sendAgents(w) ==
    /\ pc[w] = "execute"
    /\ Executable(w) = {}
    /\ IF \A a \in Leaving(w) : getIdFromPosition(a.position) \in Neighbors(w)
       THEN /\ agentChannel' = Put(agentChannel, w, AgentLists(w))
            /\ Goto(w, "receiveAgents")
       ELSE Goto(w, "exception") /\ UNCHANGED agentChannel
    /\ agentsToSend' = [agentsToSend EXCEPT ![w] = {}]
    /\ agentsToExecute' = [agentsToExecute EXCEPT ![w] = {}]
    /\ UNCHANGED <<step, sectionIndex, agents, overlapAgents, executedAgents,
                   removedAgents, ghostChannel, touched>>

Incoming(w) == UNION {Head(agentChannel[<<v, w>>]) : v \in Neighbors(w)}

\* receiveAgents: what arrives has had its turn, and addAgent drops the ghost.
receiveAgents(w) ==
    /\ pc[w] = "receiveAgents"
    /\ Arrived(agentChannel, w, Neighbors(w))
    /\ agentChannel' = Take(agentChannel, w, Neighbors(w))
    /\ agents' = [agents EXCEPT ![w] = @ \cup Incoming(w)]
    /\ overlapAgents' = [overlapAgents EXCEPT ![w] = Without(@, Ids(Incoming(w)))]
    /\ executedAgents' = [executedAgents EXCEPT ![w] = @ \cup Ids(Incoming(w))]
    /\ Goto(w, "sendGhosts")
    /\ UNCHANGED <<step, sectionIndex, agentsToExecute, agentsToSend,
                   removedAgents, ghostChannel, touched>>

\* The end of step: removeAgents throws if the world does not own an agent it
\* is to remove.  The next step starts by clearing the executed agents.
removeAgents(w) ==
    /\ pc[w] = "removeAgents"
    /\ IF removedAgents[w] \subseteq Ids(agents[w])
       THEN /\ agents' = [agents EXCEPT ![w] = Without(@, removedAgents[w])]
            /\ Goto(w, IF step[w] + 1 = NumSteps THEN "finished" ELSE "stepSection")
       ELSE Goto(w, "exception") /\ UNCHANGED agents
    /\ removedAgents' = [removedAgents EXCEPT ![w] = {}]
    /\ executedAgents' = [executedAgents EXCEPT ![w] = {}]
    /\ step' = [step EXCEPT ![w] = @ + 1]
    /\ UNCHANGED <<sectionIndex, overlapAgents, agentsToExecute, agentsToSend,
                   agentChannel, ghostChannel, touched>>

WorldStep(w) ==
    \/ InitSendGhosts(w)
    \/ InitReceiveGhosts(w)
    \/ stepSection(w)
    \/ \E a \in agents[w] : executeAgent(w, a)
    \/ sendAgents(w)
    \/ receiveAgents(w)
    \/ sendGhostAgents(w)
    \/ receiveGhostAgents(w)
    \/ removeAgents(w)

\* run has returned in every world.
Finished == (\A w \in Worlds : pc[w] = "finished") /\ UNCHANGED vars

Next == Barrier \/ (\E w \in Worlds : WorldStep(w)) \/ Finished

Spec == Init /\ [][Next]_vars

\* No process stops for good while it can go on.
FairSpec ==
    Spec /\ WF_vars(Barrier) /\ \A w \in Worlds : WF_vars(WorldStep(w))

----------------------------------------------------------------------------
(* Properties *)

\* Where agent i is: owned, about to be sent, or in a message.
Places(i) ==
    {<<"owned", w>> : w \in {v \in Worlds : i \in Ids(agents[v])}}
    \cup {<<"leaving", w>> : w \in {v \in Worlds : i \in agentsToSend[v]}}
    \cup UNION {{<<"sent", c, k>> : k \in {j \in DOMAIN agentChannel[c] :
                                            i \in Ids(agentChannel[c][j])}} : c \in Channels}

\* The agents as their holders have them.
Held ==
    (UNION {agents[w] \cup Leaving(w) : w \in Worlds})
    \cup (UNION {UNION {agentChannel[c][k] : k \in DOMAIN agentChannel[c]} : c \in Channels})

(* An agent is never in two places: migration (stepSection, sendAgents,    *)
(* receiveAgents) and the replacement of owned agents by updates in        *)
(* receiveGhostAgents do not duplicate it.                                 *)
OneHolder ==
    /\ \A i \in Agents : Cardinality(Places(i)) =< 1
    /\ \A a, b \in Held : a.id = b.id => a = b

(* checkPosition only looks at the lists of one process, yet no two        *)
(* existing agents of the whole simulation share a cell.                   *)
OneAgentPerCell ==
    \A a, b \in Held : a.exists /\ b.exists /\ a.position = b.position => a = b

ExistingIn(rect, S) == {a \in S : a.exists /\ isInside(rect, a.position)}

(* While a world runs a section, what its agents can see or modify, owned  *)
(* agents and ghosts, is exactly the present state of the simulation,      *)
(* whatever the other worlds are doing: the copies of testGhostCopies, the *)
(* updates of testGhostUpdates and the modified ghosts of                  *)
(* testModifyGhostAgent arrive in time.                                    *)
ViewIsExact ==
    \A w \in Worlds : pc[w] = "execute" =>
        LET reach == Reachable(w, sectionIndex[w])
        IN  ExistingIn(reach, Visible(w))
              = ExistingIn(reach, {[a EXCEPT !.value = touched[a.id]] : a \in Held})

(* An agent has had exactly one turn per step, wherever it walked and      *)
(* however often it was replaced by a copy received from a neighbour.      *)
OneTurnPerStep ==
    \A w \in Worlds : pc[w] = "removeAgents" =>
        \A a \in agents[w] : a.turns = step[w] + 1

(* When all worlds are done the ghosts are those of testGhostCopies and    *)
(* testKillAgent: a copy of each agent that stands in the overlap, up to   *)
(* date, and of no other; and no modification of a ghost was lost.         *)
GhostsAtEnd ==
    (\A w \in Worlds : pc[w] = "finished") =>
        /\ \A a \in Held : a.value = touched[a.id]
        /\ \A w \in Worlds : overlapAgents[w] =
                {a \in Held : /\ isInside(overlapBoundaries(w), a.position)
                              /\ ~isInside(boundaries(w), a.position)}

(* Neither getNeighborIndex nor removeAgents ever throws.                  *)
NoException == \A w \in Worlds : pc[w] # "exception"

(* A world never holds two copies of an agent, one of them out of date: an *)
(* erased zone leaves no old ghost beside the copy that replaces it.       *)
NoSecondCopy ==
    \A w \in Worlds : \A a, b \in Visible(w) : a.id = b.id => a = b

(* The parallel simulation is a simulation by one process: whatever the    *)
(* worlds interleave, the agents take turns on one common state.           *)
OneProcess == INSTANCE GlobalSimulation
    WITH population <- {[a EXCEPT !.value = touched[a.id]] : a \in Held}

IsGlobalSimulation == OneProcess!Spec

\* The progress of each world, as SectionLockstep counts it.
InRun(w) == pc[w] \in {"barrier", "initSendGhosts", "initReceiveGhosts"}

RoundOf(w) ==
    IF InRun(w) THEN 0
    ELSE 4 * step[w] + (IF pc[w] = "removeAgents" THEN 4 ELSE sectionIndex[w])

PhaseOf(w) ==
    IF pc[w] = "receiveAgents" THEN "awaitAgents"
    ELSE IF pc[w] = "sendGhosts" THEN "sendGhosts"
    ELSE IF pc[w] = "receiveGhosts" THEN "awaitGhosts"
    ELSE "run"

GhostMailOf(c) == IF InRun(c[2]) THEN 0 ELSE Len(ghostChannel[c])

Order == INSTANCE SectionLockstep
    WITH NumRounds <- 4 * NumSteps,
         round <- [w \in Worlds |-> RoundOf(w)],
         phase <- [w \in Worlds |-> PhaseOf(w)],
         agentMail <- [c \in Channels |-> Len(agentChannel[c])],
         ghostMail <- [c \in Channels |-> GhostMailOf(c)]

(* The messages keep the worlds in the order of SectionLockstep, so its    *)
(* bounds hold here: neighbours at most one section apart, no piling up of *)
(* messages.                                                               *)
KeepsOrder == Order!Spec

(* Every process runs all its steps: no world waits for ever for a list of *)
(* agents or ghosts.                                                       *)
AllFinish == <>(\A w \in Worlds : pc[w] = "finished")
=============================================================================
