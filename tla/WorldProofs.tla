---------------------------- MODULE WorldProofs ----------------------------
(***************************************************************************)
(* Proofs about the exchange of agents: World, for every area, every set   *)
(* of agents and every number of steps.  First what holds for any number   *)
(* of worlds: types, one holder per agent, no exceptions, and the order of *)
(* SectionLockstep.  Then what is due to exact copies, and holds for at    *)
(* most two worlds per row: what agents see, one turn per step, one agent  *)
(* per cell, the ghosts of the end, and that the worlds together implement *)
(* GlobalSimulation.                                                       *)
(***************************************************************************)
EXTENDS World, FiniteSetTheorems, TLAPS

----------------------------------------------------------------------------
(* Messages *)

(* Being neighbours is symmetric, so both directions have a channel.       *)
LEMMA ChannelBetween ==
    ASSUME NEW w \in Worlds, NEW v \in Neighbors(w)
    PROVE  v \in Worlds /\ <<v, w>> \in Channels /\ <<w, v>> \in Channels
BY DEF Neighbors, Adjacent, Distance, Worlds, Coords, Channels

(* Ghosts travel between neighbours only.                                  *)
LEMMA GhostPartners ==
    ASSUME NEW w \in Worlds, NEW s
    PROVE  SendTo(w, s) \subseteq Neighbors(w) /\ ReceiveFrom(w, s) \subseteq Neighbors(w)
BY DEF SendTo, ReceiveFrom

(* Sending lists of agents keeps the type of the channels.                 *)
LEMMA PutType ==
    ASSUME NEW channel \in [Channels -> Seq(SUBSET Agent)], NEW w \in Worlds,
           NEW lists, \A v \in DOMAIN lists : lists[v] \in SUBSET Agent
    PROVE  Put(channel, w, lists) \in [Channels -> Seq(SUBSET Agent)]
<1>1. ASSUME NEW c \in Channels, c[2] \in DOMAIN lists
      PROVE  Append(channel[c], lists[c[2]]) \in Seq(SUBSET Agent)
  <2>1. lists[c[2]] \in SUBSET Agent /\ channel[c] \in Seq(SUBSET Agent)
    BY <1>1
  <2> QED
    BY <2>1
<1>2. \A c \in Channels : channel[c] \in Seq(SUBSET Agent)
  OBVIOUS
<1> QED
  BY <1>1, <1>2 DEF Put

(* Receiving keeps it too, and what is received is a list of agents.       *)
LEMMA TakeType ==
    ASSUME NEW channel \in [Channels -> Seq(SUBSET Agent)], NEW w \in Worlds,
           NEW sources \in SUBSET Neighbors(w), Arrived(channel, w, sources)
    PROVE  /\ Take(channel, w, sources) \in [Channels -> Seq(SUBSET Agent)]
           /\ \A v \in sources : Head(channel[<<v, w>>]) \subseteq Agent
<1>1. ASSUME NEW v \in sources
      PROVE  /\ channel[<<v, w>>] \in Seq(SUBSET Agent)
             /\ channel[<<v, w>>] # << >>
  BY ChannelBetween DEF Arrived
<1>2. \A v \in sources : Head(channel[<<v, w>>]) \subseteq Agent
  BY <1>1
<1>3. ASSUME NEW c \in Channels, c[2] = w, c[1] \in sources
      PROVE  Tail(channel[c]) \in Seq(SUBSET Agent)
  <2>1. c = <<c[1], c[2]>>
    BY DEF Channels
  <2>2. channel[c] # << >> /\ channel[c] \in Seq(SUBSET Agent)
    BY <2>1, <1>1, <1>3
  <2> QED
    BY <2>2
<1> QED
  BY <1>2, <1>3 DEF Take

----------------------------------------------------------------------------
(* Types *)

\* A world that still works has steps to go.
StepInv == \A w \in Worlds : pc[w] \notin {"finished", "exception"} => step[w] < NumSteps

TypeInv == TypeOK /\ StepInv

(* The agents are put on cells of the area, and there is a step to do.     *)
LEMMA InitType == Init => TypeInv
<1> SUFFICES ASSUME Init PROVE TypeInv
  OBVIOUS
<1> USE NumStepsAssumption, InitialCellsAssumption
<1>1. agents \in [Worlds -> SUBSET Agent]
  <2>1. PICK place \in [Agents -> InitialCells] :
          agents = [w \in Worlds |->
              {[id |-> a, position |-> place[a], exists |-> TRUE, turns |-> 0, value |-> 0]
                  : a \in {b \in Agents : isInside(boundaries(w), place[b])}}]
    BY DEF Init
  <2>2. \A a \in Agents :
          [id |-> a, position |-> place[a], exists |-> TRUE, turns |-> 0, value |-> 0] \in Agent
    BY DEF Agent
  <2> QED
    BY <2>1, <2>2
<1>2. agentChannel \in [Channels -> Seq(SUBSET Agent)] /\ ghostChannel \in [Channels -> Seq(SUBSET Agent)]
  BY DEF Init
<1>3. pc \in [Worlds -> PC] /\ step \in [Worlds -> 0 .. NumSteps] /\ sectionIndex \in [Worlds -> Sections]
  BY DEF Init, PC, Sections
<1>4. StepInv
  BY DEF Init, StepInv
<1>5. touched \in [Agents -> Nat]
  BY DEF Init
<1> QED
  BY <1>1, <1>2, <1>3, <1>4, <1>5 DEF TypeInv, TypeOK, Init

(* Modifying agents gives agents.                                          *)
LEMMA TouchType ==
    ASSUME NEW S \in SUBSET Agent, NEW ids
    PROVE  Touch(S, ids) \subseteq Agent
<1>1. \A a \in S : [a EXCEPT !.value = @ + 1] \in Agent
  BY DEF Agent
<1> QED
  BY <1>1 DEF Touch

(* So does a turn.                                                         *)
LEMMA TurnType ==
    ASSUME NEW a \in Agent, NEW target \in Cells, NEW n \in Nat, NEW alive \in BOOLEAN
    PROVE  [a EXCEPT !.position = target, !.turns = n, !.exists = alive] \in Agent
BY DEF Agent

(* sendGhostAgents, in run and in step.                                    *)
LEMMA SendGhostsType ==
    ASSUME TypeInv, NEW w \in Worlds, NEW from, NEW to \in PC, SendGhosts(w, from, to),
           from \notin {"finished", "exception"}
    PROVE  TypeInv'
<1>1. ghostChannel' \in [Channels -> Seq(SUBSET Agent)]
  <2> DEFINE lists == [v \in SendTo(w, sectionIndex[w]) |-> GhostList(w, v)]
  <2>1. \A v \in SendTo(w, sectionIndex[w]) : GhostList(w, v) \in SUBSET Agent
    BY DEF GhostList, Visible, TypeInv, TypeOK
  <2>2. \A v \in DOMAIN lists : lists[v] \in SUBSET Agent
    BY <2>1
  <2>3. ghostChannel \in [Channels -> Seq(SUBSET Agent)]
    BY DEF TypeInv, TypeOK
  <2>4. ghostChannel' = Put(ghostChannel, w, lists)
    BY DEF SendGhosts
  <2> HIDE DEF lists
  <2> QED
    BY <2>2, <2>3, <2>4, PutType
<1>2. pc' \in [Worlds -> PC] /\ StepInv'
  BY DEF SendGhosts, Goto, TypeInv, TypeOK, StepInv
<1> QED
  BY <1>1, <1>2 DEF SendGhosts, TypeInv, TypeOK, localVars

(* receiveGhostAgents, in run and in step.                                 *)
LEMMA ReceiveGhostsType ==
    ASSUME TypeInv, NEW w \in Worlds, NEW from, NEW loop \in PC, NEW last \in PC,
           ReceiveGhosts(w, from, loop, last), from \notin {"finished", "exception"}
    PROVE  TypeInv'
<1> DEFINE sources == ReceiveFrom(w, sectionIndex[w])
<1>1. sources \in SUBSET Neighbors(w) /\ Arrived(ghostChannel, w, sources)
  BY GhostPartners DEF ReceiveGhosts
<1>2. /\ ghostChannel' \in [Channels -> Seq(SUBSET Agent)]
      /\ \A v \in sources : Head(ghostChannel[<<v, w>>]) \subseteq Agent
  BY <1>1, TakeType DEF ReceiveGhosts, TypeInv, TypeOK
<1>3. PICK updates \in ReadLast(Updates(w, sources)) :
        /\ agents' = [agents EXCEPT ![w] = Without(@, Ids(updates)) \cup updates]
        /\ overlapAgents' = [overlapAgents EXCEPT ![w] =
                Without(KeptGhosts(w, sources), Ids(updates)) \cup NewGhosts(w, sources)]
  BY DEF ReceiveGhosts
<1>4. updates \subseteq Agent /\ NewGhosts(w, sources) \subseteq Agent
  <2>1. Updates(w, sources) \subseteq Agent /\ NewGhosts(w, sources) \subseteq Agent
    BY <1>2 DEF Updates, NewGhosts
  <2>2. updates \subseteq Updates(w, sources)
    BY <1>3 DEF ReadLast
  <2> QED
    BY <2>1, <2>2
<1>5. agents' \in [Worlds -> SUBSET Agent] /\ overlapAgents' \in [Worlds -> SUBSET Agent]
  BY <1>3, <1>4 DEF Without, KeptGhosts, TypeInv, TypeOK
<1>6. sectionIndex' \in [Worlds -> Sections]
  <2>1. \A s \in Sections : nextSection(s) \in Sections
    BY DEF nextSection, Sections
  <2> QED
    BY <2>1 DEF ReceiveGhosts, TypeInv, TypeOK
<1>7. pc' \in [Worlds -> PC] /\ StepInv'
  BY DEF ReceiveGhosts, Goto, TypeInv, TypeOK, StepInv
<1> QED
  BY <1>2, <1>5, <1>6, <1>7 DEF ReceiveGhosts, TypeInv, TypeOK, localVars

(* The choice of the agents to execute.                                    *)
LEMMA stepSectionType ==
    ASSUME TypeInv, NEW w \in Worlds, stepSection(w)
    PROVE  TypeInv'
<1>1. agentsToExecute' \in [Worlds -> SUBSET Agents]
  BY DEF stepSection, Ids, Agent, TypeInv, TypeOK
<1>2. pc' \in [Worlds -> PC] /\ StepInv'
  BY DEF stepSection, Goto, TypeInv, TypeOK, StepInv, PC
<1> QED
  BY <1>1, <1>2 DEF stepSection, TypeInv, TypeOK

(* A turn: the agent stays on the area.                                    *)
LEMMA executeAgentType ==
    ASSUME TypeInv, NEW w \in Worlds, NEW a \in agents[w], executeAgent(w, a)
    PROVE  TypeInv'
<1>1. a \in Agent
  BY DEF TypeInv, TypeOK
<1>2. PICK target \in MoveTargets(w, a), touch \in Targets(w, a), dies \in Fates :
        LET b      == [a EXCEPT !.position = target, !.turns = @ + 1, !.exists = ~dies]
            leaves == Leaves(w, target, dies)
            owned  == Touch(agents[w] \ {a}, touch)
            ghosts == Touch(overlapAgents[w], touch)
        IN  /\ agents' = [agents EXCEPT ![w] = IF leaves THEN owned ELSE owned \cup {b}]
            /\ overlapAgents' = [overlapAgents EXCEPT ![w] =
                                    IF leaves THEN ghosts \cup {b} ELSE ghosts]
            /\ agentsToSend' = [agentsToSend EXCEPT ![w] =
                                    IF leaves THEN @ \cup {a.id} ELSE @]
            /\ removedAgents' = [removedAgents EXCEPT ![w] =
                                    IF dies THEN @ \cup {a.id} ELSE @]
            /\ touched' = [i \in Agents |-> IF i \in touch THEN touched[i] + 1 ELSE touched[i]]
  BY DEF executeAgent
<1> DEFINE b == [a EXCEPT !.position = target, !.turns = @ + 1, !.exists = ~dies]
<1>3. target \in Cells /\ dies \in BOOLEAN /\ a.id \in Agents
  BY <1>1 DEF MoveTargets, Fates, Agent
<1>4. b \in Agent
  <2>1. a.turns + 1 \in Nat
    BY <1>1 DEF Agent
  <2>2. (~dies) \in BOOLEAN
    BY <1>3
  <2>3. \A n \in Nat, alive \in BOOLEAN :
          [a EXCEPT !.position = target, !.turns = n, !.exists = alive] \in Agent
    BY <1>1, <1>3, TurnType
  <2> QED
    BY <2>1, <2>2, <2>3, Zenon
<1>5. Touch(agents[w] \ {a}, touch) \subseteq Agent /\ Touch(overlapAgents[w], touch) \subseteq Agent
  <2>1. agents[w] \ {a} \in SUBSET Agent /\ overlapAgents[w] \in SUBSET Agent
    BY DEF TypeInv, TypeOK
  <2> QED
    BY <2>1, TouchType
<1>6. agents' \in [Worlds -> SUBSET Agent] /\ overlapAgents' \in [Worlds -> SUBSET Agent]
  BY <1>2, <1>4, <1>5 DEF TypeInv, TypeOK
<1>7. agentsToSend' \in [Worlds -> SUBSET Agents] /\ removedAgents' \in [Worlds -> SUBSET Agents]
  BY <1>2, <1>3 DEF TypeInv, TypeOK
<1>8. touched' \in [Agents -> Nat]
  BY <1>2 DEF TypeInv, TypeOK
<1>9. executedAgents' \in [Worlds -> SUBSET Agents] /\ agentsToExecute' \in [Worlds -> SUBSET Agents]
  BY <1>3 DEF executeAgent, TypeInv, TypeOK
<1> QED
  BY <1>6, <1>7, <1>8, <1>9 DEF executeAgent, TypeInv, TypeOK, StepInv

(* The agents that leave, sorted by neighbour.                             *)
LEMMA sendAgentsType ==
    ASSUME TypeInv, NEW w \in Worlds, sendAgents(w)
    PROVE  TypeInv'
<1>1. \A v \in Neighbors(w) : BoundFor(w, v) \subseteq Agent
  BY DEF BoundFor, Leaving, TypeInv, TypeOK
<1>2. Put(agentChannel, w, AgentLists(w)) \in [Channels -> Seq(SUBSET Agent)]
  <2>1. \A v \in DOMAIN AgentLists(w) : AgentLists(w)[v] \in SUBSET Agent
    BY <1>1 DEF AgentLists
  <2>2. agentChannel \in [Channels -> Seq(SUBSET Agent)]
    BY DEF TypeInv, TypeOK
  <2> QED
    BY <2>1, <2>2, PutType
<1>3. agentChannel' \in [Channels -> Seq(SUBSET Agent)]
  BY <1>2 DEF sendAgents, TypeInv, TypeOK
<1>4. pc' \in [Worlds -> PC] /\ StepInv'
  BY DEF sendAgents, Goto, TypeInv, TypeOK, StepInv, PC
<1>5. agentsToSend' \in [Worlds -> SUBSET Agents] /\ agentsToExecute' \in [Worlds -> SUBSET Agents]
  BY DEF sendAgents, TypeInv, TypeOK
<1> QED
  BY <1>3, <1>4, <1>5 DEF sendAgents, TypeInv, TypeOK

(* The agents that come.                                                   *)
LEMMA receiveAgentsType ==
    ASSUME TypeInv, NEW w \in Worlds, receiveAgents(w)
    PROVE  TypeInv'
<1>1. /\ agentChannel' \in [Channels -> Seq(SUBSET Agent)]
      /\ \A v \in Neighbors(w) : Head(agentChannel[<<v, w>>]) \subseteq Agent
  BY TakeType DEF receiveAgents, TypeInv, TypeOK
<1>2. Incoming(w) \subseteq Agent
  BY <1>1 DEF Incoming
<1>3. Ids(Incoming(w)) \subseteq Agents
  BY <1>2 DEF Ids, Agent
<1>4. agents' \in [Worlds -> SUBSET Agent] /\ overlapAgents' \in [Worlds -> SUBSET Agent]
  BY <1>2 DEF receiveAgents, Without, TypeInv, TypeOK
<1>5. executedAgents' \in [Worlds -> SUBSET Agents]
  BY <1>3 DEF receiveAgents, TypeInv, TypeOK
<1>6. pc' \in [Worlds -> PC] /\ StepInv'
  BY DEF receiveAgents, Goto, TypeInv, TypeOK, StepInv, PC
<1> QED
  BY <1>1, <1>4, <1>5, <1>6 DEF receiveAgents, TypeInv, TypeOK

(* The end of a step: the next one exists or the world has finished.       *)
LEMMA removeAgentsType ==
    ASSUME TypeInv, NEW w \in Worlds, removeAgents(w)
    PROVE  TypeInv'
<1> USE NumStepsAssumption
<1>1. agents' \in [Worlds -> SUBSET Agent]
  BY DEF removeAgents, Without, TypeInv, TypeOK
<1>2. step[w] < NumSteps /\ step[w] \in 0 .. NumSteps
  BY DEF removeAgents, TypeInv, TypeOK, StepInv
<1>3. step' \in [Worlds -> 0 .. NumSteps]
  BY <1>2 DEF removeAgents, TypeInv, TypeOK
<1>4. pc' \in [Worlds -> PC]
  BY DEF removeAgents, Goto, TypeInv, TypeOK, PC
<1>5. ASSUME NEW v \in Worlds, pc'[v] \notin {"finished", "exception"}
      PROVE  step'[v] < NumSteps
  BY <1>2, <1>5 DEF removeAgents, Goto, TypeInv, TypeOK, StepInv
<1>6. removedAgents' \in [Worlds -> SUBSET Agents] /\ executedAgents' \in [Worlds -> SUBSET Agents]
  BY DEF removeAgents, TypeInv, TypeOK
<1> QED
  BY <1>1, <1>3, <1>4, <1>5, <1>6 DEF removeAgents, TypeInv, TypeOK, StepInv

(* Every step of the simulation keeps the types.                           *)
LEMMA NextType == TypeInv /\ [Next]_vars => TypeInv'
<1> SUFFICES ASSUME TypeInv, [Next]_vars PROVE TypeInv'
  OBVIOUS
<1> USE DEF PC
<1>1. CASE Barrier
  BY <1>1 DEF Barrier, TypeInv, TypeOK, StepInv, localVars
<1>2. ASSUME NEW w \in Worlds, WorldStep(w)
      PROVE  TypeInv'
  <2>1. CASE InitSendGhosts(w)
    BY <2>1, SendGhostsType DEF InitSendGhosts
  <2>2. CASE InitReceiveGhosts(w)
    BY <2>2, ReceiveGhostsType DEF InitReceiveGhosts
  <2>3. CASE stepSection(w)
    BY <2>3, stepSectionType
  <2>4. CASE \E a \in agents[w] : executeAgent(w, a)
    BY <2>4, executeAgentType
  <2>5. CASE sendAgents(w)
    BY <2>5, sendAgentsType
  <2>6. CASE receiveAgents(w)
    BY <2>6, receiveAgentsType
  <2>7. CASE sendGhostAgents(w)
    BY <2>7, SendGhostsType DEF sendGhostAgents
  <2>8. CASE receiveGhostAgents(w)
    BY <2>8, ReceiveGhostsType DEF receiveGhostAgents
  <2>9. CASE removeAgents(w)
    BY <2>9, removeAgentsType
  <2> QED
    BY <1>2, <2>1, <2>2, <2>3, <2>4, <2>5, <2>6, <2>7, <2>8, <2>9 DEF WorldStep
<1>3. CASE UNCHANGED vars
  BY <1>3 DEF vars, localVars, TypeInv, TypeOK, StepInv
<1> QED
  BY <1>1, <1>2, <1>3 DEF Next, Finished

(* Whatever the agents do and however the worlds interleave, agents stay   *)
(* on the area and no world begins a step after the last one.              *)
THEOREM TypeCorrect == Spec => []TypeOK
<1>1. Init => TypeInv
  BY InitType
<1>2. TypeInv /\ [Next]_vars => TypeInv'
  BY NextType
<1>3. TypeInv => TypeOK
  BY DEF TypeInv
<1> QED
  BY <1>1, <1>2, <1>3, PTL DEF Spec

----------------------------------------------------------------------------
(* Migration stays between neighbours *)

(* Worlds are tiles of one size.                                           *)
LEMMA TilesInOrder ==
    ASSUME NEW L \in Nat \ {0}, NEW m \in Int, NEW n \in Int, L * m < L * n + L
    PROVE  m =< n
<1>1. CASE m >= n + 1
  <2>1. L * m >= L * (n + 1)
    BY <1>1
  <2>2. L * (n + 1) = L * n + L
    OBVIOUS
  <2>3. L * m \in Int /\ L * n \in Int
    OBVIOUS
  <2> QED
    BY <2>1, <2>2, <2>3
<1> QED
  BY <1>1

(* A cell is in the boundaries of one world.                               *)
LEMMA OneOwner ==
    ASSUME NEW w \in Worlds, NEW v \in Worlds, NEW p \in Cells,
           isInside(boundaries(w), p), isInside(boundaries(v), p)
    PROVE  w = v
<1>1. ASSUME NEW c \in Coords, NEW e \in Coords, NEW x \in Int,
             Within(BoundarySegment(c), x), Within(BoundarySegment(e), x)
      PROVE  c =< e
  <2>1. LocalRasterSize \in Nat \ {0} /\ c \in Int /\ e \in Int
    BY LocalRasterSizeAssumption DEF Coords
  <2>2. c * LocalRasterSize = LocalRasterSize * c /\ e * LocalRasterSize = LocalRasterSize * e
    BY <2>1
  <2>3. LocalRasterSize * c \in Int /\ LocalRasterSize * e \in Int
    BY <2>1
  <2>4. LocalRasterSize * c < LocalRasterSize * e + LocalRasterSize
    BY <1>1, <2>1, <2>2, <2>3 DEF Within, BoundarySegment, Segment
  <2> QED
    BY <2>1, <2>4, TilesInOrder
<1>2. \A c, e \in Coords : c =< e /\ e =< c => c = e
  BY DEF Coords
<1>3. /\ w[1] \in Coords /\ w[2] \in Coords /\ w = <<w[1], w[2]>>
      /\ v[1] \in Coords /\ v[2] \in Coords /\ v = <<v[1], v[2]>>
      /\ p[1] \in Int /\ p[2] \in Int
  BY WorldsPerRowAssumption, LocalRasterSizeAssumption DEF Worlds, Cells, Size
<1>4. /\ Within(BoundarySegment(w[1]), p[1]) /\ Within(BoundarySegment(w[2]), p[2])
      /\ Within(BoundarySegment(v[1]), p[1]) /\ Within(BoundarySegment(v[2]), p[2])
  BY DEF isInside, boundaries, Rectangle
<1>5. w[1] = v[1]
  BY <1>1, <1>2, <1>3, <1>4
<1>6. w[2] = v[2]
  BY <1>1, <1>2, <1>3, <1>4
<1> QED
  BY <1>3, <1>5, <1>6

(* A coordinate that is at most Overlap away from a world belongs to that  *)
(* world or to the one beside it.                                          *)
LEMMA NearAxis ==
    ASSUME NEW c \in Coords, NEW x \in Int, Within(BoundarySegment(c), x),
           NEW y \in 0 .. Size - 1, Distance(x, y) =< Overlap
    PROVE  /\ y \div LocalRasterSize \in Coords
           /\ Adjacent(y \div LocalRasterSize, c)
           /\ Within(BoundarySegment(y \div LocalRasterSize), y)
<1> DEFINE L == LocalRasterSize
           q == y \div L
<1>1. /\ L \in Nat \ {0} /\ WorldsPerRow \in Nat \ {0} /\ Overlap \in Nat /\ Overlap < L
  BY LocalRasterSizeAssumption, WorldsPerRowAssumption, OverlapAssumption
<1>2. c \in Int /\ y \in Int /\ 0 =< y /\ y < WorldsPerRow * L
  BY <1>1 DEF Coords, Size
<1>3. q \in Int /\ L * q =< y /\ y < L * q + L
  BY <1>1, <1>2
<1>4. L * c =< x /\ x < L * c + L
  BY <1>1, <1>2 DEF Within, BoundarySegment, Segment
<1>5. y =< x + Overlap /\ x =< y + Overlap
  BY <1>1, <1>2 DEF Distance
<1> HIDE DEF q, L
<1>6. \A m, n \in Int : L * m < L * n + L => m =< n
  BY <1>1, TilesInOrder
<1>7. L * q \in Int /\ L * c \in Int
  BY <1>1, <1>2, <1>3
<1>8. 0 =< q
  <2>1. L * 0 < L * q + L
    BY <1>1, <1>2, <1>3, <1>7
  <2> QED
    BY <2>1, <1>3, <1>6
<1>9. q =< WorldsPerRow - 1
  <2>1. L * (WorldsPerRow - 1) + L = WorldsPerRow * L
    BY <1>1
  <2>2. L * (WorldsPerRow - 1) \in Int
    BY <1>1
  <2>3. L * q < L * (WorldsPerRow - 1) + L
    BY <1>1, <1>2, <1>3, <1>7, <2>1, <2>2
  <2> QED
    BY <2>3, <1>1, <1>3, <1>6
<1>10. q =< c + 1
  <2>1. L * (c + 1) = L * c + L
    BY <1>1, <1>2
  <2>2. L * q < L * (c + 1) + L
    BY <1>1, <1>2, <1>3, <1>4, <1>5, <1>7, <2>1
  <2> QED
    BY <2>2, <1>2, <1>3, <1>6
<1>11. c =< q + 1
  <2>1. L * (q + 1) = L * q + L
    BY <1>1, <1>3
  <2>2. L * c < L * (q + 1) + L
    BY <1>1, <1>2, <1>3, <1>4, <1>5, <1>7, <2>1
  <2> QED
    BY <2>2, <1>2, <1>3, <1>6
<1>12. q \in Coords
  BY <1>1, <1>3, <1>8, <1>9 DEF Coords
<1>13. Adjacent(q, c)
  BY <1>2, <1>3, <1>10, <1>11 DEF Adjacent, Distance
<1>14. Within(BoundarySegment(q), y)
  <2>1. q * L = L * q
    BY <1>1, <1>3
  <2> QED
    BY <1>3, <2>1 DEF Within, BoundarySegment, Segment, L
<1> QED
  BY <1>12, <1>13, <1>14 DEF q, L

(* A section lies in the boundaries of its world.                          *)
LEMMA SectionInBoundaries ==
    ASSUME NEW w \in Worlds, NEW s \in Sections, NEW p \in Cells,
           isInside(section(w, s), p)
    PROVE  isInside(boundaries(w), p)
<1>1. ASSUME NEW c \in Coords, NEW half \in {0, 1}, NEW x \in Int,
             Within(SectionSegment(c, half), x)
      PROVE  Within(BoundarySegment(c), x)
  <2>1. Half \in Nat /\ 2 * Half = LocalRasterSize /\ LocalRasterSize \in Nat
    BY LocalRasterSizeAssumption DEF Half
  <2>2. c * LocalRasterSize \in Int
    BY <2>1 DEF Coords
  <2>3. half * Half = 0 \/ half * Half = Half
    BY <2>1
  <2> QED
    BY <1>1, <2>1, <2>2, <2>3 DEF Within, SectionSegment, BoundarySegment, Segment
<1>2. w[1] \in Coords /\ w[2] \in Coords /\ p[1] \in Int /\ p[2] \in Int
  BY WorldsPerRowAssumption, LocalRasterSizeAssumption DEF Worlds, Cells, Size
<1>3. HalfX(s) \in {0, 1} /\ HalfY(s) \in {0, 1}
  BY DEF HalfX, HalfY
<1> QED
  BY <1>1, <1>2, <1>3 DEF isInside, section, boundaries, Rectangle

(* An agent that walks out of its world is in the area of a neighbour.     *)
LEMMA LeavesToNeighbor ==
    ASSUME NEW w \in Worlds, NEW s \in Sections, NEW p \in Cells, NEW q \in Cells,
           isInside(section(w, s), p), p = q \/ Near(p, q), ~isInside(boundaries(w), q)
    PROVE  getIdFromPosition(q) \in Neighbors(w)
<1>1. isInside(boundaries(w), p)
  BY SectionInBoundaries
<1>2. Near(p, q)
  BY <1>1
<1>3. /\ w[1] \in Coords /\ w[2] \in Coords
      /\ p[1] \in Int /\ p[2] \in Int
      /\ q[1] \in 0 .. Size - 1 /\ q[2] \in 0 .. Size - 1
  BY WorldsPerRowAssumption, LocalRasterSizeAssumption DEF Worlds, Cells, Size
<1>4. Within(BoundarySegment(w[1]), p[1]) /\ Within(BoundarySegment(w[2]), p[2])
  BY <1>1 DEF isInside, boundaries, Rectangle
<1>5. /\ q[1] \div LocalRasterSize \in Coords
      /\ Adjacent(q[1] \div LocalRasterSize, w[1])
      /\ Within(BoundarySegment(q[1] \div LocalRasterSize), q[1])
  BY <1>2, <1>3, <1>4, NearAxis DEF Near
<1>6. /\ q[2] \div LocalRasterSize \in Coords
      /\ Adjacent(q[2] \div LocalRasterSize, w[2])
      /\ Within(BoundarySegment(q[2] \div LocalRasterSize), q[2])
  BY <1>2, <1>3, <1>4, NearAxis DEF Near
<1>7. getIdFromPosition(q) # w
  BY <1>5, <1>6 DEF getIdFromPosition, isInside, boundaries, Rectangle
<1> QED
  BY <1>5, <1>6, <1>7 DEF getIdFromPosition, Neighbors, Worlds

----------------------------------------------------------------------------
(* Who holds an agent *)

\* Positions are irrelevant here: what an agent is known by is its id.
UniqueIds(S) == \A a, b \in S : a.id = b.id => a = b

\* A list of owned agents names no agent twice.
UniqueOwned == \A w \in Worlds : UniqueIds(agents[w])

\* addAgent drops the ghost of an agent the world gets to own.
OwnedNotGhost == \A w \in Worlds : \A i \in Ids(agents[w]) : i \notin Ids(overlapAgents[w])

\* Agents leave in stepSection, once, and for a neighbour.
LeavingInv ==
    \A w \in Worlds :
        /\ pc[w] # "execute" => agentsToSend[w] = {}
        /\ UniqueIds(Leaving(w))
        /\ \A a \in Leaving(w) : getIdFromPosition(a.position) \in Neighbors(w)

\* A list of agents that changed world names no agent twice.
UniqueSent == \A c \in Channels : \A k \in DOMAIN agentChannel[c] : UniqueIds(agentChannel[c][k])

OnePlace == \A i \in Agents : \A p, q \in Places(i) : p = q

HolderInv == UniqueOwned /\ OwnedNotGhost /\ LeavingInv /\ UniqueSent /\ OnePlace

(* Places, case by case.                                                   *)
LEMMA PlaceCases ==
    ASSUME NEW i, NEW p
    PROVE  p \in Places(i) <=>
             \/ \E w \in Worlds : i \in Ids(agents[w]) /\ p = <<"owned", w>>
             \/ \E w \in Worlds : i \in agentsToSend[w] /\ p = <<"leaving", w>>
             \/ \E c \in Channels : \E k \in DOMAIN agentChannel[c] :
                    i \in Ids(agentChannel[c][k]) /\ p = <<"sent", c, k>>
BY DEF Places

LEMMA PlaceCasesNext ==
    ASSUME NEW i, NEW p
    PROVE  p \in Places(i)' <=>
             \/ \E w \in Worlds : i \in Ids(agents'[w]) /\ p = <<"owned", w>>
             \/ \E w \in Worlds : i \in agentsToSend'[w] /\ p = <<"leaving", w>>
             \/ \E c \in Channels : \E k \in DOMAIN agentChannel'[c] :
                    i \in Ids(agentChannel'[c][k]) /\ p = <<"sent", c, k>>
BY DEF Places

(* Nobody gains or loses an agent when the ids that each world owns and    *)
(* sends and those in the messages stay.                                   *)
LEMMA SamePlaces ==
    ASSUME OnePlace, \A w \in Worlds : Ids(agents'[w]) \subseteq Ids(agents[w]),
           agentsToSend' = agentsToSend, agentChannel' = agentChannel
    PROVE  OnePlace'
<1>1. \A i \in Agents : \A p : p \in Places(i)' => p \in Places(i)
  BY PlaceCases, PlaceCasesNext
<1> QED
  BY <1>1 DEF OnePlace

Modified(a, ids) == IF a.id \in ids THEN [a EXCEPT !.value = @ + 1] ELSE a

(* A modification keeps everything but the value.                          *)
LEMMA TouchKeeps ==
    ASSUME NEW S \in SUBSET Agent, NEW ids, NEW y \in Touch(S, ids)
    PROVE  \E x \in S : y = Modified(x, ids) /\ x.id = y.id /\ x.position = y.position
<1>1. \A x \in S : Modified(x, ids).id = x.id /\ Modified(x, ids).position = x.position
  BY DEF Agent, Modified
<1>2. \E x \in S : y = Modified(x, ids)
  BY DEF Touch, Modified
<1> QED
  BY <1>1, <1>2

LEMMA TouchUnique ==
    ASSUME NEW S \in SUBSET Agent, NEW ids, UniqueIds(S)
    PROVE  UniqueIds(Touch(S, ids))
BY TouchKeeps DEF UniqueIds

LEMMA TouchIds ==
    ASSUME NEW S \in SUBSET Agent, NEW ids
    PROVE  Ids(Touch(S, ids)) = Ids(S)
<1>1. \A y \in Touch(S, ids) : \E x \in S : x.id = y.id
  BY TouchKeeps
<1>2. \A x \in S : \E y \in Touch(S, ids) : x.id = y.id
  <2>1. \A x \in S : Modified(x, ids).id = x.id
    BY DEF Agent, Modified
  <2>2. \A x \in S : Modified(x, ids) \in Touch(S, ids)
    BY DEF Touch, Modified
  <2> QED
    BY <2>1, <2>2
<1> QED
  BY <1>1, <1>2 DEF Ids

(* createAgents puts every agent in the list of one world.                 *)
LEMMA InitHolder == Init => HolderInv
<1> SUFFICES ASSUME Init PROVE HolderInv
  OBVIOUS
<1>1. PICK place \in [Agents -> InitialCells] :
        agents = [w \in Worlds |->
            {[id |-> a, position |-> place[a], exists |-> TRUE, turns |-> 0, value |-> 0]
                : a \in {b \in Agents : isInside(boundaries(w), place[b])}}]
  BY DEF Init
<1>2. ASSUME NEW w \in Worlds, NEW i \in Ids(agents[w])
      PROVE  isInside(boundaries(w), place[i])
  <2>1. PICK a \in agents[w] : a.id = i
    BY DEF Ids
  <2>2. PICK j \in Agents :
          /\ isInside(boundaries(w), place[j])
          /\ a = [id |-> j, position |-> place[j], exists |-> TRUE, turns |-> 0, value |-> 0]
    BY <1>1
  <2> QED
    BY <2>1, <2>2
<1>3. UniqueOwned
  <2> SUFFICES ASSUME NEW w \in Worlds, NEW a \in agents[w], NEW b \in agents[w], a.id = b.id
               PROVE  a = b
    BY DEF UniqueOwned, UniqueIds
  <2>1. PICK i : a = [id |-> i, position |-> place[i], exists |-> TRUE, turns |-> 0, value |-> 0]
    BY <1>1
  <2>2. PICK j : b = [id |-> j, position |-> place[j], exists |-> TRUE, turns |-> 0, value |-> 0]
    BY <1>1
  <2> QED
    BY <2>1, <2>2
<1>4. OwnedNotGhost
  BY DEF Init, OwnedNotGhost, Ids
<1>5. LeavingInv
  BY DEF Init, LeavingInv, Leaving, UniqueIds
<1>6. UniqueSent
  BY DEF Init, UniqueSent
<1>7. OnePlace
  <2> SUFFICES ASSUME NEW i \in Agents, NEW p \in Places(i), NEW q \in Places(i)
               PROVE  p = q
    BY DEF OnePlace
  <2>1. \A x \in Places(i) : \E w \in Worlds : i \in Ids(agents[w]) /\ x = <<"owned", w>>
    <3>1. \A w \in Worlds : agentsToSend[w] = {}
      BY DEF Init
    <3>2. \A c \in Channels : DOMAIN agentChannel[c] = {}
      BY DEF Init
    <3> QED
      BY <3>1, <3>2, PlaceCases
  <2>2. PICK w \in Worlds : i \in Ids(agents[w]) /\ p = <<"owned", w>>
    BY <2>1
  <2>3. PICK v \in Worlds : i \in Ids(agents[v]) /\ q = <<"owned", v>>
    BY <2>1
  <2>4. w = v
    BY <1>2, <2>2, <2>3, OneOwner, InitialCellsAssumption
  <2> QED
    BY <2>2, <2>3, <2>4
<1> QED
  BY <1>3, <1>4, <1>5, <1>6, <1>7 DEF HolderInv

(* sendGhostAgents: nobody is handed over.                                 *)
LEMMA SendGhostsHolder ==
    ASSUME TypeInv, HolderInv, NEW w \in Worlds, NEW from, NEW to, SendGhosts(w, from, to),
           from # "execute", to # "execute"
    PROVE  HolderInv'
<1>1. UniqueOwned' /\ OwnedNotGhost' /\ UniqueSent'
  BY DEF SendGhosts, HolderInv, UniqueOwned, OwnedNotGhost, UniqueSent
<1>2. LeavingInv'
  BY DEF SendGhosts, Goto, HolderInv, LeavingInv, Leaving, localVars, TypeInv, TypeOK
<1>3. OnePlace'
  BY SamePlaces DEF SendGhosts, HolderInv, localVars
<1> QED
  BY <1>1, <1>2, <1>3 DEF HolderInv

(* receiveGhostAgents: an update replaces the agent of its id, one by one. *)
LEMMA ReceiveGhostsHolder ==
    ASSUME TypeInv, HolderInv, NEW w \in Worlds, NEW from, NEW loop, NEW last,
           ReceiveGhosts(w, from, loop, last),
           from # "execute", loop # "execute", last # "execute"
    PROVE  HolderInv'
<1> DEFINE sources == ReceiveFrom(w, sectionIndex[w])
<1>1. PICK updates \in ReadLast(Updates(w, sources)) :
        /\ agents' = [agents EXCEPT ![w] = Without(@, Ids(updates)) \cup updates]
        /\ overlapAgents' = [overlapAgents EXCEPT ![w] =
                Without(KeptGhosts(w, sources), Ids(updates)) \cup NewGhosts(w, sources)]
  BY DEF ReceiveGhosts
<1>2. UniqueIds(updates) /\ \A a \in updates : a.id \in Ids(agents[w])
  <2>1. \A a \in Updates(w, sources) : a.id \in Ids(agents[w])
    BY DEF Updates
  <2>2. updates \subseteq Updates(w, sources) /\ UniqueIds(updates)
    BY <1>1 DEF ReadLast, UniqueIds
  <2> QED
    BY <2>1, <2>2
<1>3. agents'[w] = Without(agents[w], Ids(updates)) \cup updates
      /\ \A v \in Worlds : v # w => agents'[v] = agents[v]
  BY <1>1 DEF TypeInv, TypeOK
<1>4. \A v \in Worlds : Ids(agents'[v]) \subseteq Ids(agents[v])
  BY <1>2, <1>3 DEF Ids, Without
<1>5. UniqueOwned'
  <2>1. UniqueIds(agents'[w])
    BY <1>2, <1>3 DEF HolderInv, UniqueOwned, UniqueIds, Without, Ids
  <2> QED
    BY <1>3, <2>1 DEF HolderInv, UniqueOwned
<1>6. OwnedNotGhost'
  <2>1. \A g \in overlapAgents'[w] : g.id \notin Ids(agents[w])
    <3>1. \A g \in KeptGhosts(w, sources) : g.id \notin Ids(agents[w])
      BY DEF HolderInv, OwnedNotGhost, KeptGhosts, Ids
    <3>2. \A g \in NewGhosts(w, sources) : g.id \notin Ids(agents[w])
      BY DEF NewGhosts
    <3> QED
      BY <1>1, <3>1, <3>2 DEF Without, TypeInv, TypeOK
  <2>2. \A v \in Worlds : v # w => overlapAgents'[v] = overlapAgents[v]
    BY <1>1 DEF TypeInv, TypeOK
  <2>3. \A i \in Ids(agents'[w]) : i \notin Ids(overlapAgents'[w])
    BY <1>4, <2>1 DEF Ids
  <2> QED
    BY <1>4, <2>2, <2>3 DEF HolderInv, OwnedNotGhost
<1>7. LeavingInv'
  <2>1. agentsToSend' = agentsToSend /\ pc[w] # "execute" /\ pc'[w] # "execute"
    BY DEF ReceiveGhosts, Goto, localVars, TypeInv, TypeOK
  <2>2. \A v \in Worlds : v # w => pc'[v] = pc[v] /\ overlapAgents'[v] = overlapAgents[v]
    BY <1>1 DEF ReceiveGhosts, Goto, TypeInv, TypeOK
  <2>3. agentsToSend[w] = {}
    BY <2>1 DEF HolderInv, LeavingInv
  <2>4. Leaving(w)' = {} /\ \A v \in Worlds : v # w => Leaving(v)' = Leaving(v)
    BY <2>1, <2>2, <2>3 DEF Leaving
  <2> QED
    BY <2>1, <2>2, <2>3, <2>4 DEF HolderInv, LeavingInv, UniqueIds
<1>8. UniqueSent' /\ OnePlace'
  BY <1>4, SamePlaces DEF ReceiveGhosts, HolderInv, UniqueSent, localVars
<1> QED
  BY <1>5, <1>6, <1>7, <1>8 DEF HolderInv

(* The choice of the agents to execute hands nobody over.                  *)
LEMMA stepSectionHolder ==
    ASSUME TypeInv, HolderInv, NEW w \in Worlds, stepSection(w)
    PROVE  HolderInv'
<1>1. UniqueOwned' /\ OwnedNotGhost' /\ UniqueSent'
  BY DEF stepSection, HolderInv, UniqueOwned, OwnedNotGhost, UniqueSent
<1>2. LeavingInv'
  BY DEF stepSection, Goto, HolderInv, LeavingInv, Leaving, TypeInv, TypeOK
<1>3. OnePlace'
  BY SamePlaces DEF stepSection, HolderInv
<1> QED
  BY <1>1, <1>2, <1>3 DEF HolderInv

\* What a turn of a in world w does to the lists: the agent, now b, stays or
\* leaves, and the objects that it modified are replaced.
Turn(w, a, b, touch, leaves, dies) ==
    /\ agents'[w] = Touch(agents[w] \ {a}, touch) \cup (IF leaves THEN {} ELSE {b})
    /\ overlapAgents'[w] = Touch(overlapAgents[w], touch) \cup (IF leaves THEN {b} ELSE {})
    /\ agentsToSend'[w] = agentsToSend[w] \cup (IF leaves THEN {a.id} ELSE {})
    /\ removedAgents'[w] = removedAgents[w] \cup (IF dies THEN {a.id} ELSE {})
    /\ leaves => /\ ~dies
                 /\ ~isInside(boundaries(w), b.position)
                 /\ b.position = a.position \/ Near(a.position, b.position)

OnlyAt(w) ==
    \A v \in Worlds : v # w =>
        /\ agents'[v] = agents[v]
        /\ overlapAgents'[v] = overlapAgents[v]
        /\ agentsToSend'[v] = agentsToSend[v]
        /\ removedAgents'[v] = removedAgents[v]
        /\ executedAgents'[v] = executedAgents[v]

LEMMA TurnEffects ==
    ASSUME TypeInv, NEW w \in Worlds, NEW a \in agents[w], executeAgent(w, a)
    PROVE  /\ OnlyAt(w)
           /\ a \in Agent /\ isInside(section(w, sectionIndex[w]), a.position)
           /\ a.id \notin executedAgents[w]
           /\ \E b \in Agent, touch \in SUBSET Agents, leaves \in BOOLEAN, dies \in BOOLEAN :
                  b.id = a.id /\ Turn(w, a, b, touch, leaves, dies)
<1>1. a \in Agent
  BY DEF TypeInv, TypeOK
<1>2. PICK target \in MoveTargets(w, a), touch \in Targets(w, a), dies \in Fates :
        LET b      == [a EXCEPT !.position = target, !.turns = @ + 1, !.exists = ~dies]
            leaves == Leaves(w, target, dies)
            owned  == Touch(agents[w] \ {a}, touch)
            ghosts == Touch(overlapAgents[w], touch)
        IN  /\ agents' = [agents EXCEPT ![w] = IF leaves THEN owned ELSE owned \cup {b}]
            /\ overlapAgents' = [overlapAgents EXCEPT ![w] =
                                    IF leaves THEN ghosts \cup {b} ELSE ghosts]
            /\ agentsToSend' = [agentsToSend EXCEPT ![w] =
                                    IF leaves THEN @ \cup {a.id} ELSE @]
            /\ removedAgents' = [removedAgents EXCEPT ![w] =
                                    IF dies THEN @ \cup {a.id} ELSE @]
            /\ touched' = [i \in Agents |-> IF i \in touch THEN touched[i] + 1 ELSE touched[i]]
  BY DEF executeAgent
<1> DEFINE b == [a EXCEPT !.position = target, !.turns = @ + 1, !.exists = ~dies]
           leaves == Leaves(w, target, dies)
<1>3. target \in Cells /\ dies \in BOOLEAN /\ leaves \in BOOLEAN
  BY <1>1 DEF MoveTargets, Fates, Agent, Leaves
<1>11. touch \in SUBSET Agents
  <2>1. \A v \in Visible(w) : v.id \in Agents
    BY DEF Visible, Agent, TypeInv, TypeOK
  <2> QED
    BY <2>1 DEF Targets
<1>4. b \in Agent /\ b.id = a.id /\ b.position = target
  <2>1. \A n \in Nat, alive \in BOOLEAN :
          LET r == [a EXCEPT !.position = target, !.turns = n, !.exists = alive]
          IN  r \in Agent /\ r.id = a.id /\ r.position = target
    BY <1>1, <1>3 DEF Agent
  <2>2. a.turns + 1 \in Nat /\ (~dies) \in BOOLEAN
    BY <1>1, <1>3 DEF Agent
  <2> QED
    BY <2>1, <2>2, Zenon
<1>5. OnlyAt(w)
  BY <1>2 DEF executeAgent, OnlyAt, TypeInv, TypeOK
<1>6. isInside(section(w, sectionIndex[w]), a.position) /\ a.id \notin executedAgents[w]
  BY DEF executeAgent, Executable, inSection, hasBeenExecuted
<1>7. leaves => ~dies /\ ~isInside(boundaries(w), target)
  BY DEF Leaves
<1>8. target = a.position \/ Near(a.position, target)
  BY DEF MoveTargets
<1>9. /\ agents' = [agents EXCEPT ![w] = IF leaves THEN Touch(agents[w] \ {a}, touch)
                                        ELSE Touch(agents[w] \ {a}, touch) \cup {b}]
      /\ overlapAgents' = [overlapAgents EXCEPT ![w] =
                              IF leaves THEN Touch(overlapAgents[w], touch) \cup {b}
                              ELSE Touch(overlapAgents[w], touch)]
      /\ agentsToSend' = [agentsToSend EXCEPT ![w] = IF leaves THEN @ \cup {a.id} ELSE @]
      /\ removedAgents' = [removedAgents EXCEPT ![w] = IF dies THEN @ \cup {a.id} ELSE @]
  BY <1>2
<1> HIDE DEF b, leaves
<1>10. Turn(w, a, b, touch, leaves, dies)
  BY <1>3, <1>4, <1>7, <1>8, <1>9 DEF Turn, TypeInv, TypeOK
<1> QED
  BY <1>1, <1>3, <1>4, <1>5, <1>6, <1>10, <1>11, Zenon

(* A turn: whoever leaves the boundaries is no longer owned but about to   *)
(* be sent to a neighbour.                                                 *)
LEMMA executeAgentHolder ==
    ASSUME TypeInv, HolderInv, NEW w \in Worlds, NEW a \in agents[w], executeAgent(w, a)
    PROVE  HolderInv'
<1>1. /\ OnlyAt(w)
      /\ a \in Agent /\ isInside(section(w, sectionIndex[w]), a.position)
  BY TurnEffects
<1>2. PICK b \in Agent, touch \in SUBSET Agents, leaves \in BOOLEAN, dies \in BOOLEAN :
        b.id = a.id /\ Turn(w, a, b, touch, leaves, dies)
  BY TurnEffects
<1> DEFINE others == Touch(agents[w] \ {a}, touch)
           ghosts == Touch(overlapAgents[w], touch)
<1>3. agents[w] \in SUBSET Agent /\ overlapAgents[w] \in SUBSET Agent
  BY DEF TypeInv, TypeOK
<1>4. UniqueIds(others) /\ Ids(others) \subseteq Ids(agents[w]) /\ a.id \notin Ids(others)
  <2>1. UniqueIds(agents[w] \ {a}) /\ a.id \notin Ids(agents[w] \ {a})
    BY DEF HolderInv, UniqueOwned, UniqueIds, Ids
  <2>2. Ids(agents[w] \ {a}) \subseteq Ids(agents[w])
    BY DEF Ids
  <2>3. agents[w] \ {a} \in SUBSET Agent
    BY <1>3
  <2> QED
    BY <2>1, <2>2, <2>3, TouchUnique, TouchIds
<1>5. Ids(ghosts) \subseteq Ids(overlapAgents[w])
  BY <1>3, TouchIds
<1>6. a.id \in Ids(agents[w]) /\ a.id \notin Ids(overlapAgents[w]) /\ a.id \in Agents
  BY <1>1 DEF HolderInv, OwnedNotGhost, Ids, Agent
<1>7. /\ agents'[w] = others \cup (IF leaves THEN {} ELSE {b})
      /\ overlapAgents'[w] = ghosts \cup (IF leaves THEN {b} ELSE {})
      /\ agentsToSend'[w] = agentsToSend[w] \cup (IF leaves THEN {a.id} ELSE {})
  BY <1>2 DEF Turn
<1> HIDE DEF others
<1>8. UniqueOwned'
  <2>1. UniqueIds(agents'[w])
    BY <1>2, <1>4, <1>7 DEF UniqueIds, Ids
  <2> QED
    BY <1>1, <2>1 DEF OnlyAt, HolderInv, UniqueOwned
<1>9. OwnedNotGhost'
  <2>1. ASSUME NEW i \in Ids(agents'[w]) PROVE i \notin Ids(overlapAgents'[w])
    <3>1. i \in Ids(agents[w])
      BY <1>2, <1>4, <1>6, <1>7 DEF Ids
    <3>2. i \notin Ids(ghosts)
      BY <1>5, <3>1 DEF HolderInv, OwnedNotGhost
    <3>3. leaves => i # b.id
      BY <1>2, <1>4, <1>7 DEF Ids
    <3> QED
      BY <1>7, <3>2, <3>3 DEF Ids
  <2> QED
    BY <1>1, <2>1 DEF OnlyAt, HolderInv, OwnedNotGhost
<1>10. LeavingInv'
  <2>1. pc' = pc /\ pc[w] = "execute"
    BY DEF executeAgent
  <2>2. \A v \in Worlds : v # w => Leaving(v)' = Leaving(v)
    BY <1>1 DEF OnlyAt, Leaving
  <2>3. ASSUME NEW g \in Leaving(w)', g.id # a.id \/ ~leaves
        PROVE  \E x \in Leaving(w) : /\ g = Modified(x, touch)
                                     /\ x.id = g.id /\ x.position = g.position
    <3>1. g \in ghosts /\ g.id \in agentsToSend[w]
      BY <1>2, <1>7, <2>3 DEF Leaving
    <3>2. PICK x \in overlapAgents[w] : /\ g = Modified(x, touch)
                                        /\ x.id = g.id /\ x.position = g.position
      BY <1>3, <3>1, TouchKeeps
    <3>3. x \in Leaving(w)
      BY <3>1, <3>2 DEF Leaving
    <3> QED
      BY <3>2, <3>3
  <2>4. ASSUME NEW g \in Leaving(w)', g.id = a.id, leaves
        PROVE  g = b
    BY <1>5, <1>6, <1>7, <2>4 DEF Leaving, Ids
  <2>5. UniqueIds(Leaving(w)')
    <3> SUFFICES ASSUME NEW g \in Leaving(w)', NEW h \in Leaving(w)', g.id = h.id
                 PROVE  g = h
      BY DEF UniqueIds
    <3>1. CASE g.id = a.id /\ leaves
      BY <2>4, <3>1
    <3>2. CASE g.id # a.id \/ ~leaves
      <4>1. PICK x \in Leaving(w) : /\ g = Modified(x, touch)
                                    /\ x.id = g.id
        BY <2>3, <3>2
      <4>2. PICK y \in Leaving(w) : /\ h = Modified(y, touch)
                                    /\ y.id = h.id
        BY <2>3, <3>2
      <4>3. x = y
        BY <4>1, <4>2 DEF HolderInv, LeavingInv, UniqueIds
      <4> QED
        BY <4>1, <4>2, <4>3
    <3> QED
      BY <3>1, <3>2
  <2>6. \A g \in Leaving(w)' : getIdFromPosition(g.position) \in Neighbors(w)
    <3>1. leaves => getIdFromPosition(b.position) \in Neighbors(w)
      <4>1. a.position \in Cells /\ b.position \in Cells /\ sectionIndex[w] \in Sections
        BY <1>1, <1>2 DEF Agent, TypeInv, TypeOK
      <4>2. leaves => /\ b.position = a.position \/ Near(a.position, b.position)
                      /\ ~isInside(boundaries(w), b.position)
        BY <1>2 DEF Turn
      <4> QED
        BY <1>1, <4>1, <4>2, LeavesToNeighbor
    <3> QED
      BY <2>3, <2>4, <3>1 DEF HolderInv, LeavingInv
  <2> QED
    BY <1>1, <2>1, <2>2, <2>5, <2>6 DEF OnlyAt, HolderInv, LeavingInv
<1>11. UniqueSent'
  BY DEF executeAgent, HolderInv, UniqueSent
<1>12. OnePlace'
  <2>1. agentChannel' = agentChannel
    BY DEF executeAgent
  <2>2. CASE ~leaves
    <3>1. Ids(agents'[w]) \subseteq Ids(agents[w])
      BY <1>2, <1>4, <1>6, <1>7, <2>2 DEF Ids
    <3>2. \A v \in Worlds : Ids(agents'[v]) \subseteq Ids(agents[v])
      BY <1>1, <3>1 DEF OnlyAt
    <3>3. agentsToSend' = agentsToSend
      <4>1. TypeInv'
        BY executeAgentType
      <4>2. \A v \in Worlds : agentsToSend'[v] = agentsToSend[v]
        BY <1>1, <1>7, <2>2 DEF OnlyAt
      <4> QED
        BY <4>1, <4>2 DEF TypeInv, TypeOK
    <3> QED
      BY <2>1, <3>2, <3>3, SamePlaces DEF HolderInv
  <2>3. CASE leaves
    <3>1. Ids(agents'[w]) \subseteq Ids(agents[w]) \ {a.id}
      BY <1>4, <1>7, <2>3
    <3>2. ASSUME NEW i \in Agents, NEW p \in Places(i)', i # a.id
          PROVE  p \in Places(i)
      <4>1. \A v \in Worlds : i \in Ids(agents'[v]) => i \in Ids(agents[v])
        BY <1>1, <3>1 DEF OnlyAt
      <4>2. \A v \in Worlds : i \in agentsToSend'[v] => i \in agentsToSend[v]
        BY <1>1, <1>7, <3>2 DEF OnlyAt
      <4> QED
        BY <2>1, <4>1, <4>2, PlaceCases, PlaceCasesNext
    <3>3. Places(a.id) \subseteq {<<"owned", w>>}
      <4>1. <<"owned", w>> \in Places(a.id)
        BY <1>6, PlaceCases
      <4> QED
        BY <1>6, <4>1 DEF HolderInv, OnePlace
    <3>4. ASSUME NEW p \in Places(a.id)'
          PROVE  p = <<"leaving", w>>
      <4>1. ASSUME NEW v \in Worlds, a.id \in Ids(agents'[v]) PROVE FALSE
        <5>1. v # w
          BY <3>1, <4>1
        <5>2. <<"owned", v>> \in Places(a.id)
          BY <1>1, <4>1, <5>1, PlaceCases DEF OnlyAt
        <5> QED
          BY <3>3, <5>1, <5>2
      <4>2. ASSUME NEW v \in Worlds, v # w, a.id \in agentsToSend'[v] PROVE FALSE
        <5>1. <<"leaving", v>> \in Places(a.id)
          BY <1>1, <4>2, PlaceCases DEF OnlyAt
        <5>2. <<"leaving", v>>[1] # <<"owned", w>>[1]
          OBVIOUS
        <5> QED
          BY <3>3, <5>1, <5>2
      <4>3. ASSUME NEW c \in Channels, NEW k \in DOMAIN agentChannel[c],
                   a.id \in Ids(agentChannel[c][k])
            PROVE  FALSE
        <5>1. <<"sent", c, k>> \in Places(a.id)
          BY <4>3, PlaceCases
        <5>2. <<"sent", c, k>>[1] # <<"owned", w>>[1]
          OBVIOUS
        <5> QED
          BY <3>3, <5>1, <5>2
      <4> QED
        BY <2>1, <4>1, <4>2, <4>3, PlaceCasesNext
    <3> QED
      BY <3>2, <3>4 DEF HolderInv, OnePlace
  <2> QED
    BY <2>2, <2>3
<1> QED
  BY <1>8, <1>9, <1>10, <1>11, <1>12 DEF HolderInv

(* Being in a list of the channel, for one sender's Put and one receiver's *)
(* Take.                                                                   *)
LEMMA PutLists ==
    ASSUME TypeInv, NEW w \in Worlds, agentChannel' = Put(agentChannel, w, AgentLists(w)),
           NEW c \in Channels
    PROVE  /\ c[1] # w => agentChannel'[c] = agentChannel[c]
           /\ c[1] = w =>
                /\ DOMAIN agentChannel'[c] = DOMAIN agentChannel[c] \cup {Len(agentChannel[c]) + 1}
                /\ \A k \in DOMAIN agentChannel[c] : agentChannel'[c][k] = agentChannel[c][k]
                /\ agentChannel'[c][Len(agentChannel[c]) + 1] = BoundFor(w, c[2])
<1>1. agentChannel[c] \in Seq(SUBSET Agent)
  BY DEF TypeInv, TypeOK
<1>2. agentChannel'[c] = IF c[1] = w /\ c[2] \in Neighbors(w)
                         THEN Append(agentChannel[c], AgentLists(w)[c[2]])
                         ELSE agentChannel[c]
  BY DEF Put, AgentLists
<1>3. c[1] = w => c[2] \in Neighbors(w) /\ AgentLists(w)[c[2]] = BoundFor(w, c[2])
  BY DEF Channels, AgentLists
<1>4. c[1] = w => agentChannel'[c] = Append(agentChannel[c], BoundFor(w, c[2]))
  BY <1>2, <1>3
<1>5. BoundFor(w, c[2]) \in SUBSET Agent
  BY DEF BoundFor, Leaving, TypeInv, TypeOK
<1> QED
  BY <1>1, <1>2, <1>4, <1>5

LEMMA TakeLists ==
    ASSUME TypeInv, NEW w \in Worlds, Arrived(agentChannel, w, Neighbors(w)),
           agentChannel' = Take(agentChannel, w, Neighbors(w)), NEW c \in Channels
    PROVE  /\ c[2] # w => agentChannel'[c] = agentChannel[c]
           /\ c[2] = w =>
                /\ 1 \in DOMAIN agentChannel[c]
                /\ Head(agentChannel[c]) = agentChannel[c][1]
                /\ \A k \in DOMAIN agentChannel'[c] :
                      /\ k \in Nat /\ k > 0
                      /\ k + 1 \in DOMAIN agentChannel[c]
                      /\ agentChannel'[c][k] = agentChannel[c][k + 1]
<1>1. agentChannel[c] \in Seq(SUBSET Agent)
  BY DEF TypeInv, TypeOK
<1>2. c[2] = w => c[1] \in Neighbors(w) /\ c = <<c[1], w>>
  BY ChannelBetween DEF Channels, Neighbors, Adjacent, Distance, Worlds, Coords
<1>3. c[2] = w => agentChannel'[c] = Tail(agentChannel[c]) /\ agentChannel[c] # << >>
  BY <1>2 DEF Take, Arrived
<1>4. c[2] # w => agentChannel'[c] = agentChannel[c]
  BY DEF Take
<1>5. ASSUME NEW f \in Seq(SUBSET Agent), f # << >>
      PROVE  /\ 1 \in DOMAIN f /\ Head(f) = f[1]
             /\ \A k \in DOMAIN Tail(f) : /\ k \in Nat /\ k > 0
                                          /\ k + 1 \in DOMAIN f
                                          /\ Tail(f)[k] = f[k + 1]
  BY <1>5
<1> QED
  BY <1>1, <1>3, <1>4, <1>5

(* sendAgents: whoever leaves goes into the list of the one neighbour that *)
(* owns its cell, so getNeighborIndex does not throw.                      *)
LEMMA sendAgentsHolder ==
    ASSUME TypeInv, HolderInv, NEW w \in Worlds, sendAgents(w)
    PROVE  HolderInv'
<1>1. agentChannel' = Put(agentChannel, w, AgentLists(w)) /\ pc'[w] = "receiveAgents"
  BY DEF sendAgents, Goto, HolderInv, LeavingInv, TypeInv, TypeOK
<1>2. agentsToSend'[w] = {} /\ \A v \in Worlds : v # w => agentsToSend'[v] = agentsToSend[v]
  BY DEF sendAgents, TypeInv, TypeOK
<1>3. UniqueOwned' /\ OwnedNotGhost'
  BY DEF sendAgents, HolderInv, UniqueOwned, OwnedNotGhost
<1>4. LeavingInv'
  <2>1. Leaving(w)' = {} /\ \A v \in Worlds : v # w => Leaving(v)' = Leaving(v)
    BY <1>2 DEF sendAgents, Leaving
  <2>2. \A v \in Worlds : v # w => pc'[v] = pc[v]
    BY DEF sendAgents, Goto, TypeInv, TypeOK
  <2> QED
    BY <1>2, <2>1, <2>2 DEF HolderInv, LeavingInv, UniqueIds
<1>5. UniqueSent'
  <2>1. ASSUME NEW c \in Channels, NEW k \in DOMAIN agentChannel'[c]
        PROVE  UniqueIds(agentChannel'[c][k])
    <3>1. CASE k \in DOMAIN agentChannel[c]
      BY <1>1, <3>1, PutLists DEF HolderInv, UniqueSent
    <3>2. CASE k \notin DOMAIN agentChannel[c]
      <4>1. agentChannel'[c][k] = BoundFor(w, c[2])
        BY <1>1, <2>1, <3>2, PutLists
      <4> QED
        BY <4>1 DEF HolderInv, LeavingInv, BoundFor, UniqueIds
    <3> QED
      BY <3>1, <3>2
  <2> QED
    BY <2>1 DEF UniqueSent
<1>6. OnePlace'
  <2> SUFFICES ASSUME NEW i \in Agents
               PROVE  \A p, q \in Places(i)' : p = q
    BY DEF OnePlace
  <2>1. agents' = agents
    BY DEF sendAgents
  <2>2. ASSUME NEW p \in Places(i)', p \notin Places(i)
        PROVE  \E a \in Leaving(w) : /\ a.id = i
                                     /\ LET c == <<w, getIdFromPosition(a.position)>>
                                        IN  p = <<"sent", c, Len(agentChannel[c]) + 1>>
    <3>1. PICK c \in Channels : \E k \in DOMAIN agentChannel'[c] :
            i \in Ids(agentChannel'[c][k]) /\ p = <<"sent", c, k>>
      BY <1>2, <2>1, <2>2, PlaceCases, PlaceCasesNext
    <3>2. PICK k \in DOMAIN agentChannel'[c] : i \in Ids(agentChannel'[c][k]) /\ p = <<"sent", c, k>>
      BY <3>1
    <3>3. ~(k \in DOMAIN agentChannel[c] /\ agentChannel'[c][k] = agentChannel[c][k])
      BY <2>2, <3>2, PlaceCases
    <3>4. c[1] = w /\ k = Len(agentChannel[c]) + 1 /\ agentChannel'[c][k] = BoundFor(w, c[2])
      BY <1>1, <3>2, <3>3, PutLists
    <3>5. PICK a \in BoundFor(w, c[2]) : a.id = i
      BY <3>2, <3>4 DEF Ids
    <3>6. a \in Leaving(w) /\ getIdFromPosition(a.position) = c[2]
      BY <3>5 DEF BoundFor
    <3>7. c = <<w, c[2]>>
      BY <3>4 DEF Channels
    <3> QED
      BY <3>2, <3>4, <3>5, <3>6, <3>7
  <2>3. CASE \E a \in Leaving(w) : a.id = i
    <3>1. i \in agentsToSend[w]
      BY <2>3 DEF Leaving
    <3>2. \A p \in Places(i) : p = <<"leaving", w>>
      <4>1. <<"leaving", w>> \in Places(i)
        BY <3>1, PlaceCases
      <4> QED
        BY <4>1 DEF HolderInv, OnePlace
    <3>3. ASSUME NEW p \in Places(i)' PROVE p \notin Places(i)
      <4>1. SUFFICES ASSUME p = <<"leaving", w>> PROVE FALSE
        BY <3>2
      <4>2. p[1] = "leaving" /\ p[2] = w
        BY <4>1
      <4> QED
        BY <1>2, <4>1, <4>2, PlaceCasesNext
    <3>4. \A a, b \in Leaving(w) : a.id = b.id => a = b
      BY DEF HolderInv, LeavingInv, UniqueIds
    <3> QED
      BY <2>2, <3>3, <3>4
  <2>4. CASE ~\E a \in Leaving(w) : a.id = i
    BY <2>2, <2>4 DEF HolderInv, OnePlace
  <2> QED
    BY <2>3, <2>4
<1> QED
  BY <1>3, <1>4, <1>5, <1>6 DEF HolderInv

(* receiveAgents: the world becomes the owner of the agents in the lists.  *)
LEMMA receiveAgentsHolder ==
    ASSUME TypeInv, HolderInv, NEW w \in Worlds, receiveAgents(w)
    PROVE  HolderInv'
<1>1. /\ Arrived(agentChannel, w, Neighbors(w))
      /\ agentChannel' = Take(agentChannel, w, Neighbors(w))
      /\ agents'[w] = agents[w] \cup Incoming(w)
      /\ overlapAgents'[w] = Without(overlapAgents[w], Ids(Incoming(w)))
      /\ agentsToSend' = agentsToSend
      /\ pc[w] = "receiveAgents" /\ pc'[w] = "sendGhosts"
  BY DEF receiveAgents, Goto, TypeInv, TypeOK
<1>2. \A v \in Worlds : v # w => /\ agents'[v] = agents[v]
                                 /\ overlapAgents'[v] = overlapAgents[v]
                                 /\ pc'[v] = pc[v]
  BY DEF receiveAgents, Goto, TypeInv, TypeOK
<1>3. ASSUME NEW a \in Incoming(w)
      PROVE  \E v \in Neighbors(w) : /\ <<v, w>> \in Channels
                                     /\ 1 \in DOMAIN agentChannel[<<v, w>>]
                                     /\ a \in agentChannel[<<v, w>>][1]
                                     /\ <<"sent", <<v, w>>, 1>> \in Places(a.id)
  <2>1. PICK v \in Neighbors(w) : a \in Head(agentChannel[<<v, w>>])
    BY DEF Incoming
  <2>2. <<v, w>> \in Channels
    BY ChannelBetween
  <2>3. 1 \in DOMAIN agentChannel[<<v, w>>] /\ a \in agentChannel[<<v, w>>][1]
    BY <1>1, <2>1, <2>2, TakeLists
  <2>4. a.id \in Ids(agentChannel[<<v, w>>][1])
    BY <2>3 DEF Ids
  <2> QED
    BY <2>2, <2>3, <2>4, PlaceCases
<1>4. \A a \in Incoming(w) : a.id \in Agents
  <2>1. \A v \in Neighbors(w) : Head(agentChannel[<<v, w>>]) \subseteq Agent
    BY <1>1, TakeType DEF TypeInv, TypeOK
  <2>2. Incoming(w) \subseteq Agent
    BY <2>1 DEF Incoming
  <2> QED
    BY <2>2 DEF Agent
<1>5. \A a, b \in Incoming(w) : a.id = b.id => a = b
  <2> SUFFICES ASSUME NEW a \in Incoming(w), NEW b \in Incoming(w), a.id = b.id
               PROVE  a = b
    OBVIOUS
  <2>1. PICK v \in Neighbors(w) : /\ <<v, w>> \in Channels
                                  /\ 1 \in DOMAIN agentChannel[<<v, w>>]
                                  /\ a \in agentChannel[<<v, w>>][1]
                                  /\ <<"sent", <<v, w>>, 1>> \in Places(a.id)
    BY <1>3
  <2>2. PICK u \in Neighbors(w) : /\ b \in agentChannel[<<u, w>>][1]
                                  /\ <<"sent", <<u, w>>, 1>> \in Places(b.id)
    BY <1>3
  <2>3. <<"sent", <<v, w>>, 1>> = <<"sent", <<u, w>>, 1>>
    BY <1>4, <2>1, <2>2 DEF HolderInv, OnePlace
  <2>4. v = u
    BY <2>3
  <2> QED
    BY <2>1, <2>2, <2>4 DEF HolderInv, UniqueSent, UniqueIds
<1>6. ASSUME NEW a \in Incoming(w), NEW v \in Worlds, a.id \in Ids(agents[v])
      PROVE  FALSE
  <2>1. <<"owned", v>> \in Places(a.id)
    BY <1>6, PlaceCases
  <2>2. PICK u \in Neighbors(w) : <<"sent", <<u, w>>, 1>> \in Places(a.id)
    BY <1>3
  <2>3. <<"owned", v>>[1] # <<"sent", <<u, w>>, 1>>[1]
    OBVIOUS
  <2> QED
    BY <1>4, <2>1, <2>2, <2>3 DEF HolderInv, OnePlace
<1>7. UniqueOwned'
  <2>1. UniqueIds(agents'[w])
    BY <1>1, <1>5, <1>6 DEF HolderInv, UniqueOwned, UniqueIds, Ids
  <2> QED
    BY <1>2, <2>1 DEF HolderInv, UniqueOwned
<1>8. OwnedNotGhost'
  <2>1. \A i \in Ids(agents'[w]) : i \notin Ids(overlapAgents'[w])
    BY <1>1 DEF HolderInv, OwnedNotGhost, Ids, Without
  <2> QED
    BY <1>2, <2>1 DEF HolderInv, OwnedNotGhost
<1>9. LeavingInv'
  <2>1. agentsToSend[w] = {}
    BY <1>1 DEF HolderInv, LeavingInv
  <2>2. Leaving(w)' = {} /\ \A v \in Worlds : v # w => Leaving(v)' = Leaving(v)
    BY <1>1, <1>2, <2>1 DEF Leaving
  <2> QED
    BY <1>1, <1>2, <2>1, <2>2 DEF HolderInv, LeavingInv, UniqueIds
<1>10. UniqueSent'
  BY <1>1, TakeLists DEF HolderInv, UniqueSent
<1>11. OnePlace'
  <2> SUFFICES ASSUME NEW i \in Agents, NEW p \in Places(i)', NEW q \in Places(i)'
               PROVE  p = q
    BY DEF OnePlace
  <2> DEFINE Read(x) == \E c \in Channels, k \in Nat :
                          /\ c[2] = w /\ k > 0 /\ x = <<"sent", c, k>>
                          /\ <<"sent", c, k + 1>> \in Places(i)
             Kept(x) == x \in Places(i) /\ \A c \in Channels, k \in Nat : c[2] = w
                 => x # <<"sent", c, k>>
  <2>1. ASSUME NEW x \in Places(i)'
        PROVE  \/ x = <<"owned", w>> /\ i \in Ids(Incoming(w))
               \/ Kept(x)
               \/ Read(x)
    <3>1. CASE \E v \in Worlds : i \in Ids(agents'[v]) /\ x = <<"owned", v>>
      <4>1. PICK v \in Worlds : i \in Ids(agents'[v]) /\ x = <<"owned", v>>
        BY <3>1
      <4>2. i \in Ids(agents[v]) \/ (v = w /\ i \in Ids(Incoming(w)))
        BY <1>1, <1>2, <4>1 DEF Ids
      <4>3. x[1] = "owned"
        BY <4>1
      <4> QED
        BY <4>1, <4>2, <4>3, PlaceCases
    <3>2. CASE \E v \in Worlds : i \in agentsToSend'[v] /\ x = <<"leaving", v>>
      <4>1. x[1] = "leaving"
        BY <3>2
      <4> QED
        BY <1>1, <3>2, <4>1, PlaceCases
    <3>3. CASE \E c \in Channels : \E k \in DOMAIN agentChannel'[c] :
                    i \in Ids(agentChannel'[c][k]) /\ x = <<"sent", c, k>>
      <4>1. PICK c \in Channels : \E k \in DOMAIN agentChannel'[c] :
                    i \in Ids(agentChannel'[c][k]) /\ x = <<"sent", c, k>>
        BY <3>3
      <4>2. PICK k \in DOMAIN agentChannel'[c] : i \in Ids(agentChannel'[c][k]) /\ x = <<"sent", c, k>>
        BY <4>1
      <4>3. CASE c[2] = w
        <5>1. /\ k \in Nat /\ k > 0 /\ k + 1 \in DOMAIN agentChannel[c]
              /\ agentChannel'[c][k] = agentChannel[c][k + 1]
          BY <1>1, <4>2, <4>3, TakeLists
        <5>2. <<"sent", c, k + 1>> \in Places(i)
          BY <4>2, <5>1, PlaceCases
        <5> QED
          BY <4>2, <4>3, <5>1, <5>2
      <4>4. CASE c[2] # w
        <5>1. agentChannel'[c] = agentChannel[c]
          BY <1>1, <4>4, TakeLists
        <5>2. x \in Places(i)
          BY <4>2, <5>1, PlaceCases
        <5>3. x[2] = c
          BY <4>2
        <5> QED
          BY <4>4, <5>2, <5>3
      <4> QED
        BY <4>3, <4>4
    <3> HIDE DEF Kept, Read
    <3> QED
      BY <3>1, <3>2, <3>3, PlaceCasesNext
  <2>2. CASE i \in Ids(Incoming(w))
    <3>1. PICK a \in Incoming(w) : a.id = i
      BY <2>2 DEF Ids
    <3>2. PICK v \in Neighbors(w) : <<v, w>> \in Channels /\ <<"sent", <<v, w>>, 1>> \in Places(i)
      BY <1>3, <3>1
    <3>3. \A x \in Places(i) : x = <<"sent", <<v, w>>, 1>>
      BY <3>2 DEF HolderInv, OnePlace
    <3>4. ASSUME NEW x, Kept(x) PROVE FALSE
      BY <3>2, <3>3, <3>4
    <3>5. ASSUME NEW x, Read(x) PROVE FALSE
      <4>1. PICK c \in Channels, k \in Nat : k > 0 /\ <<"sent", c, k + 1>> \in Places(i)
        BY <3>5
      <4>2. <<"sent", c, k + 1>> = <<"sent", <<v, w>>, 1>>
        BY <3>3, <4>1
      <4>3. k + 1 = 1
        BY <4>2
      <4> QED
        BY <4>1, <4>3
    <3> HIDE DEF Kept, Read
    <3> QED
      BY <2>1, <3>4, <3>5
  <2>3. CASE i \notin Ids(Incoming(w))
    <3>1. (Kept(p) \/ Read(p)) /\ (Kept(q) \/ Read(q))
      BY <2>1, <2>3
    <3>2. CASE Kept(p) /\ Kept(q)
      BY <3>2 DEF HolderInv, OnePlace
    <3>3. ASSUME NEW x, NEW y, Kept(x), Read(y) PROVE FALSE
      <4>1. PICK c \in Channels, k \in Nat : c[2] = w /\ <<"sent", c, k + 1>> \in Places(i)
        BY <3>3
      <4>2. x = <<"sent", c, k + 1>> /\ k + 1 \in Nat
        BY <3>3, <4>1 DEF HolderInv, OnePlace
      <4> QED
        BY <3>3, <4>1, <4>2
    <3>4. CASE Read(p) /\ Read(q)
      <4>1. PICK c \in Channels, k \in Nat : p = <<"sent", c, k>> /\ <<"sent", c, k + 1>> \in Places(i)
        BY <3>4
      <4>2. PICK d \in Channels, l \in Nat : q = <<"sent", d, l>> /\ <<"sent", d, l + 1>> \in Places(i)
        BY <3>4
      <4>3. <<"sent", c, k + 1>> = <<"sent", d, l + 1>>
        BY <4>1, <4>2 DEF HolderInv, OnePlace
      <4>4. c = d /\ k + 1 = l + 1
        BY <4>3
      <4> QED
        BY <4>1, <4>2, <4>4
    <3> HIDE DEF Kept, Read
    <3> QED
      BY <3>1, <3>2, <3>3, <3>4
  <2> QED
    BY <2>2, <2>3
<1> QED
  BY <1>7, <1>8, <1>9, <1>10, <1>11 DEF HolderInv

(* The end of a step: the dead are dropped.                                *)
LEMMA removeAgentsHolder ==
    ASSUME TypeInv, HolderInv, NEW w \in Worlds, removeAgents(w)
    PROVE  HolderInv'
<1>1. \A v \in Worlds : agents'[v] \subseteq agents[v]
  BY DEF removeAgents, Without, TypeInv, TypeOK
<1>2. \A v \in Worlds : Ids(agents'[v]) \subseteq Ids(agents[v])
  BY <1>1 DEF Ids
<1>3. UniqueOwned'
  BY <1>1 DEF HolderInv, UniqueOwned, UniqueIds
<1>4. OwnedNotGhost'
  BY <1>2 DEF removeAgents, HolderInv, OwnedNotGhost
<1>5. LeavingInv'
  <2>1. \A v \in Worlds : pc'[v] # "execute" => pc[v] # "execute"
    BY DEF removeAgents, Goto, TypeInv, TypeOK
  <2>2. \A v \in Worlds : Leaving(v)' = Leaving(v)
    BY DEF removeAgents, Leaving
  <2> QED
    BY <2>1, <2>2 DEF removeAgents, HolderInv, LeavingInv
<1>6. UniqueSent'
  BY DEF removeAgents, HolderInv, UniqueSent
<1>7. OnePlace'
  BY <1>2, SamePlaces DEF removeAgents, HolderInv
<1> QED
  BY <1>3, <1>4, <1>5, <1>6, <1>7 DEF HolderInv

(* Every step hands over each agent at most once.                          *)
LEMMA NextHolder == TypeInv /\ HolderInv /\ [Next]_vars => HolderInv'
<1> SUFFICES ASSUME TypeInv, HolderInv, [Next]_vars PROVE HolderInv'
  OBVIOUS
<1>1. CASE Barrier
  <2>1. UniqueOwned' /\ OwnedNotGhost' /\ UniqueSent'
    BY <1>1 DEF Barrier, HolderInv, UniqueOwned, OwnedNotGhost, UniqueSent
  <2>2. LeavingInv'
    BY <1>1 DEF Barrier, HolderInv, LeavingInv, Leaving, localVars
  <2>3. OnePlace'
    BY <1>1, SamePlaces DEF Barrier, HolderInv, localVars
  <2> QED
    BY <2>1, <2>2, <2>3 DEF HolderInv
<1>2. ASSUME NEW w \in Worlds, WorldStep(w)
      PROVE  HolderInv'
  <2>1. CASE InitSendGhosts(w)
    BY <2>1, SendGhostsHolder DEF InitSendGhosts
  <2>2. CASE InitReceiveGhosts(w)
    BY <2>2, ReceiveGhostsHolder DEF InitReceiveGhosts
  <2>3. CASE stepSection(w)
    BY <2>3, stepSectionHolder
  <2>4. CASE \E a \in agents[w] : executeAgent(w, a)
    BY <2>4, executeAgentHolder
  <2>5. CASE sendAgents(w)
    BY <2>5, sendAgentsHolder
  <2>6. CASE receiveAgents(w)
    BY <2>6, receiveAgentsHolder
  <2>7. CASE sendGhostAgents(w)
    BY <2>7, SendGhostsHolder DEF sendGhostAgents
  <2>8. CASE receiveGhostAgents(w)
    BY <2>8, ReceiveGhostsHolder DEF receiveGhostAgents
  <2>9. CASE removeAgents(w)
    BY <2>9, removeAgentsHolder
  <2> QED
    BY <1>2, <2>1, <2>2, <2>3, <2>4, <2>5, <2>6, <2>7, <2>8, <2>9 DEF WorldStep
<1>3. CASE UNCHANGED vars
  <2>1. UniqueOwned' /\ OwnedNotGhost' /\ UniqueSent'
    BY <1>3 DEF vars, HolderInv, UniqueOwned, OwnedNotGhost, UniqueSent
  <2>2. LeavingInv'
    BY <1>3 DEF vars, HolderInv, LeavingInv, Leaving, localVars
  <2>3. OnePlace'
    BY <1>3, SamePlaces DEF vars, HolderInv, localVars
  <2> QED
    BY <2>1, <2>2, <2>3 DEF HolderInv
<1> QED
  BY <1>1, <1>2, <1>3 DEF Next, Finished

(* The invariant of the exchange, with the types it rests on.              *)
LEMMA HolderInvariant == Spec => [](TypeInv /\ HolderInv)
<1>1. Init => TypeInv /\ HolderInv
  BY InitType, InitHolder
<1>2. (TypeInv /\ HolderInv) /\ [Next]_vars => (TypeInv /\ HolderInv)'
  BY NextType, NextHolder
<1> QED
  BY <1>1, <1>2, PTL DEF Spec

(* Who has one holder has one record.                                      *)
LEMMA HeldOnce == TypeInv /\ HolderInv => OneHolder
<1> SUFFICES ASSUME TypeInv, HolderInv PROVE OneHolder
  OBVIOUS
<1>1. ASSUME NEW i \in Agents PROVE Cardinality(Places(i)) =< 1
  <2>1. CASE Places(i) = {}
    BY <2>1, FS_EmptySet
  <2>2. CASE Places(i) # {}
    <3>1. PICK p : Places(i) = {p}
      BY <2>2 DEF HolderInv, OnePlace
    <3>2. Cardinality(Places(i)) = 1
      BY <3>1, FS_Singleton
    <3> QED
      BY <3>2
  <2> QED
    BY <2>1, <2>2
<1>2. ASSUME NEW a \in Held, NEW b \in Held, a.id = b.id
      PROVE  a = b
  <2>1. ASSUME NEW h \in Held
        PROVE  /\ h.id \in Agents
               /\ \/ \E w \in Worlds : h \in agents[w] /\ <<"owned", w>> \in Places(h.id)
                  \/ \E w \in Worlds : h \in Leaving(w) /\ <<"leaving", w>> \in Places(h.id)
                  \/ \E c \in Channels : \E k \in DOMAIN agentChannel[c] :
                          h \in agentChannel[c][k] /\ <<"sent", c, k>> \in Places(h.id)
    <3>1. CASE \E w \in Worlds : h \in agents[w]
      <4>1. PICK w \in Worlds : h \in agents[w]
        BY <3>1
      <4>2. h \in Agent /\ h.id \in Ids(agents[w])
        BY <4>1 DEF Ids, TypeInv, TypeOK
      <4>3. h.id \in Agents
        BY <4>2 DEF Agent
      <4>4. <<"owned", w>> \in Places(h.id)
        BY <4>2, PlaceCases
      <4> QED
        BY <4>1, <4>3, <4>4
    <3>2. CASE \E w \in Worlds : h \in Leaving(w)
      <4>1. PICK w \in Worlds : h \in Leaving(w)
        BY <3>2
      <4>2. h \in Agent /\ h.id \in agentsToSend[w]
        BY <4>1 DEF Leaving, TypeInv, TypeOK
      <4>3. h.id \in Agents
        BY <4>2 DEF Agent
      <4>4. <<"leaving", w>> \in Places(h.id)
        BY <4>2, PlaceCases
      <4> QED
        BY <4>1, <4>3, <4>4
    <3>3. CASE \E c \in Channels : \E k \in DOMAIN agentChannel[c] : h \in agentChannel[c][k]
      <4>1. PICK c \in Channels : \E k \in DOMAIN agentChannel[c] : h \in agentChannel[c][k]
        BY <3>3
      <4>2. PICK k \in DOMAIN agentChannel[c] : h \in agentChannel[c][k]
        BY <4>1
      <4>3. agentChannel[c] \in Seq(SUBSET Agent)
        BY DEF TypeInv, TypeOK
      <4>4. h \in Agent /\ h.id \in Ids(agentChannel[c][k])
        BY <4>2, <4>3 DEF Ids
      <4>5. h.id \in Agents
        BY <4>4 DEF Agent
      <4>6. <<"sent", c, k>> \in Places(h.id)
        BY <4>2, <4>4, PlaceCases
      <4> QED
        BY <4>2, <4>5, <4>6
    <3>4. \/ h \in UNION {agents[w] \cup Leaving(w) : w \in Worlds}
          \/ h \in UNION {UNION {agentChannel[c][k] : k \in DOMAIN agentChannel[c]} : c \in Channels}
      BY DEF Held
    <3>5. \/ \E w \in Worlds : h \in agents[w]
          \/ \E w \in Worlds : h \in Leaving(w)
          \/ \E c \in Channels : \E k \in DOMAIN agentChannel[c] : h \in agentChannel[c][k]
      BY <3>4
    <3> QED
      BY <3>1, <3>2, <3>3, <3>5
  <2>2. \A p, q \in Places(a.id) : p = q
    <3>1. a.id \in Agents
      BY <2>1
    <3> QED
      BY <3>1 DEF HolderInv, OnePlace
  <2>6. \/ \E w \in Worlds : b \in agents[w] /\ <<"owned", w>> \in Places(a.id)
        \/ \E w \in Worlds : b \in Leaving(w) /\ <<"leaving", w>> \in Places(a.id)
        \/ \E c \in Channels : \E k \in DOMAIN agentChannel[c] :
                b \in agentChannel[c][k] /\ <<"sent", c, k>> \in Places(a.id)
    <3>1. Places(a.id) = Places(b.id)
      BY <1>2
    <3> QED
      BY <2>1, <3>1
  <2>3. CASE \E w \in Worlds : a \in agents[w] /\ <<"owned", w>> \in Places(a.id)
    <3>1. PICK w \in Worlds : a \in agents[w] /\ <<"owned", w>> \in Places(a.id)
      BY <2>3
    <3>2. \A p \in Places(a.id) : p[1] = "owned" /\ p[2] = w
      BY <2>2, <3>1
    <3>3. b \in agents[w]
      BY <2>6, <3>2
    <3> QED
      BY <1>2, <3>1, <3>3 DEF HolderInv, UniqueOwned, UniqueIds
  <2>4. CASE \E w \in Worlds : a \in Leaving(w) /\ <<"leaving", w>> \in Places(a.id)
    <3>1. PICK w \in Worlds : a \in Leaving(w) /\ <<"leaving", w>> \in Places(a.id)
      BY <2>4
    <3>2. \A p \in Places(a.id) : p[1] = "leaving" /\ p[2] = w
      BY <2>2, <3>1
    <3>3. b \in Leaving(w)
      BY <2>6, <3>2
    <3> QED
      BY <1>2, <3>1, <3>3 DEF HolderInv, LeavingInv, UniqueIds
  <2>5. CASE \E c \in Channels : \E k \in DOMAIN agentChannel[c] :
               a \in agentChannel[c][k] /\ <<"sent", c, k>> \in Places(a.id)
    <3>1. PICK c \in Channels : \E k \in DOMAIN agentChannel[c] :
               a \in agentChannel[c][k] /\ <<"sent", c, k>> \in Places(a.id)
      BY <2>5
    <3>2. PICK k \in DOMAIN agentChannel[c] :
               a \in agentChannel[c][k] /\ <<"sent", c, k>> \in Places(a.id)
      BY <3>1
    <3>3. \A p \in Places(a.id) : p[1] = "sent" /\ p[2] = c /\ p[3] = k
      BY <2>2, <3>2
    <3>4. b \in agentChannel[c][k]
      BY <2>6, <3>3
    <3> QED
      BY <1>2, <3>2, <3>4 DEF HolderInv, UniqueSent, UniqueIds
  <2> QED
    BY <2>1, <2>3, <2>4, <2>5
<1> QED
  BY <1>1, <1>2 DEF OneHolder

(* No agent is ever in two places, or in two versions, however the worlds  *)
(* interleave: sendAgents and receiveAgents hand it over exactly, and the  *)
(* updates of receiveGhostAgents replace it one for one.                   *)
THEOREM OneHolderAlways == Spec => []OneHolder
<1>1. TypeInv /\ HolderInv => OneHolder
  BY HeldOnce
<1> QED
  BY <1>1, HolderInvariant, PTL

----------------------------------------------------------------------------
(* The dead *)

\* Whoever removed itself in this step has been executed in it, and stays in
\* the list of the world until removeAgents.
RemovedInv ==
    \A w \in Worlds :
        removedAgents[w] \subseteq executedAgents[w] /\ removedAgents[w] \subseteq Ids(agents[w])

(* No step executes the dead or loses them: an agent is executed once per  *)
(* step, so it does not leave after it died.                               *)
LEMMA NextRemoved == TypeInv /\ RemovedInv /\ [Next]_vars => RemovedInv'
<1> SUFFICES ASSUME TypeInv, RemovedInv, [Next]_vars PROVE RemovedInv'
  OBVIOUS
<1>1. ASSUME NEW w \in Worlds, NEW from, NEW to, SendGhosts(w, from, to) PROVE RemovedInv'
  BY <1>1 DEF SendGhosts, RemovedInv, localVars
<1>2. ASSUME NEW w \in Worlds, NEW from, NEW loop, NEW last, ReceiveGhosts(w, from, loop, last)
      PROVE  RemovedInv'
  <2>1. PICK updates : agents' = [agents EXCEPT ![w] = Without(@, Ids(updates)) \cup updates]
    BY <1>2 DEF ReceiveGhosts
  <2>2. \A v \in Worlds : Ids(agents[v]) \subseteq Ids(agents'[v])
    BY <2>1 DEF Ids, Without, TypeInv, TypeOK
  <2>3. removedAgents' = removedAgents /\ executedAgents' = executedAgents
    BY <1>2 DEF ReceiveGhosts, localVars
  <2> QED
    BY <2>2, <2>3 DEF RemovedInv
<1>3. ASSUME NEW w \in Worlds, stepSection(w) \/ sendAgents(w) PROVE RemovedInv'
  BY <1>3 DEF stepSection, sendAgents, RemovedInv
<1>4. ASSUME NEW w \in Worlds, NEW a \in agents[w], executeAgent(w, a) PROVE RemovedInv'
  <2>1. OnlyAt(w) /\ a \in Agent /\ a.id \notin executedAgents[w]
    BY <1>4, TurnEffects
  <2>2. PICK b \in Agent, touch \in SUBSET Agents, leaves \in BOOLEAN, dies \in BOOLEAN :
          b.id = a.id /\ Turn(w, a, b, touch, leaves, dies)
    BY <1>4, TurnEffects
  <2>3. executedAgents'[w] = executedAgents[w] \cup {a.id}
    BY <1>4 DEF executeAgent, TypeInv, TypeOK
  <2>4. removedAgents'[w] \subseteq executedAgents'[w]
    BY <2>2, <2>3 DEF Turn, RemovedInv
  <2>5. Ids(Touch(agents[w] \ {a}, touch)) = Ids(agents[w] \ {a})
    <3>1. agents[w] \ {a} \in SUBSET Agent
      BY DEF TypeInv, TypeOK
    <3> QED
      BY <3>1, TouchIds
  <2>6. Ids(agents[w] \ {a}) \cup {a.id} = Ids(agents[w])
    BY DEF Ids
  <2>7. /\ agents'[w] = Touch(agents[w] \ {a}, touch) \cup (IF leaves THEN {} ELSE {b})
        /\ removedAgents'[w] = removedAgents[w] \cup (IF dies THEN {a.id} ELSE {})
        /\ leaves => ~dies
    BY <2>2 DEF Turn
  <2>8. Ids(agents'[w]) = Ids(agents[w] \ {a}) \cup (IF leaves THEN {} ELSE {a.id})
    BY <2>2, <2>5, <2>7 DEF Ids
  <2>9. removedAgents'[w] \subseteq Ids(agents'[w])
    BY <2>1, <2>6, <2>7, <2>8 DEF RemovedInv
  <2> QED
    BY <2>1, <2>4, <2>9 DEF OnlyAt, RemovedInv
<1>5. ASSUME NEW w \in Worlds, receiveAgents(w) PROVE RemovedInv'
  <2>1. \A v \in Worlds : agents[v] \subseteq agents'[v] /\ executedAgents[v] \subseteq executedAgents'[v]
    BY <1>5 DEF receiveAgents, TypeInv, TypeOK
  <2>2. \A v \in Worlds : Ids(agents[v]) \subseteq Ids(agents'[v])
    BY <2>1 DEF Ids
  <2>3. removedAgents' = removedAgents
    BY <1>5 DEF receiveAgents
  <2> QED
    BY <2>1, <2>2, <2>3 DEF RemovedInv
<1>6. ASSUME NEW w \in Worlds, removeAgents(w) PROVE RemovedInv'
  <2>1. removedAgents'[w] = {}
    BY <1>6 DEF removeAgents, TypeInv, TypeOK
  <2>2. \A v \in Worlds : v # w => /\ agents'[v] = agents[v]
                                   /\ removedAgents'[v] = removedAgents[v]
                                   /\ executedAgents'[v] = executedAgents[v]
    BY <1>6 DEF removeAgents, TypeInv, TypeOK
  <2> QED
    BY <2>1, <2>2 DEF RemovedInv
<1>7. CASE Barrier \/ UNCHANGED vars
  BY <1>7 DEF Barrier, vars, localVars, RemovedInv
<1> QED
  BY <1>1, <1>2, <1>3, <1>4, <1>5, <1>6, <1>7
  DEF Next, WorldStep, Finished, InitSendGhosts, InitReceiveGhosts, sendGhostAgents, receiveGhostAgents

(* Nothing that sendAgents and removeAgents check fails.                   *)
LEMMA NextNoException ==
    ASSUME TypeInv, HolderInv, RemovedInv, NoException, [Next]_vars
    PROVE  NoException'
<1>1. ASSUME NEW w \in Worlds, sendAgents(w) PROVE NoException'
  BY <1>1 DEF sendAgents, Goto, HolderInv, LeavingInv, NoException, TypeInv, TypeOK
<1>2. ASSUME NEW w \in Worlds, removeAgents(w) PROVE NoException'
  BY <1>2 DEF removeAgents, Goto, RemovedInv, NoException, TypeInv, TypeOK
<1>3. ASSUME NEW w \in Worlds, WorldStep(w) PROVE NoException'
  BY <1>1, <1>2, <1>3
  DEF WorldStep, InitSendGhosts, InitReceiveGhosts, SendGhosts, ReceiveGhosts, stepSection,
      executeAgent, receiveAgents, sendGhostAgents, receiveGhostAgents, Goto, NoException, TypeInv, TypeOK
<1>4. CASE Barrier \/ UNCHANGED vars
  BY <1>4 DEF Barrier, vars, NoException
<1> QED
  BY <1>3, <1>4 DEF Next, Finished

(* getNeighborIndex and removeAgents never throw, whatever the size of the *)
(* area and the number of worlds: an agent that leaves is bound for a      *)
(* neighbour, and an agent that died is still owned.                       *)
THEOREM NeverThrows == Spec => []NoException
<1> DEFINE Inv == TypeInv /\ HolderInv /\ RemovedInv /\ NoException
<1>1. Init => Inv
  BY InitType, InitHolder DEF Init, RemovedInv, NoException
<1>2. Inv /\ [Next]_vars => Inv'
  BY NextType, NextHolder, NextRemoved, NextNoException
<1>3. Inv => NoException
  OBVIOUS
<1> QED
  BY <1>1, <1>2, <1>3, PTL DEF Spec

----------------------------------------------------------------------------
(* The exchange of ghosts in run, before the first step *)

\* The section of run that a world has got to; 4 is the first step.
Reached(w) == IF InRun(w) THEN sectionIndex[w] ELSE 4

\* The barrier keeps the worlds together, and who is past a section has the
\* ghosts of all that send some in it.
InitSync ==
    \A w, v \in Worlds :
        /\ Reached(w) =< Reached(v) + 1
        /\ Reached(w) = Reached(v) + 1 =>
             /\ pc[v] # "barrier"
             /\ pc[w] \notin {"initSendGhosts", "initReceiveGhosts"}
             /\ pc[v] = "initSendGhosts" => v \notin ReceiveFrom(w, sectionIndex[v])
        /\ pc[w] = "barrier" /\ Reached(v) = Reached(w) => pc[v] = "barrier"

\* v has sent ghosts that w, in the same section of run, has not read.
SentInit(v, w) ==
    /\ pc[w] # "barrier"
    /\ v \in ReceiveFrom(w, sectionIndex[w])
    /\ Reached(v) = Reached(w) + 1 \/ pc[v] = "initReceiveGhosts"

InitGhosts ==
    \A c \in Channels : InRun(c[2]) =>
        Len(ghostChannel[c]) = IF SentInit(c[1], c[2]) THEN 1 ELSE 0

\* A world that has begun its first step waits for the agents of a neighbour
\* that has not.
InitAgents ==
    \A c \in Channels : InRun(c[1]) =>
        /\ agentChannel[c] = << >>
        /\ ~InRun(c[2]) => /\ step[c[2]] = 0 /\ sectionIndex[c[2]] = 0
                           /\ pc[c[2]] \in {"stepSection", "execute", "receiveAgents"}

\* Steps begin and end with section 0.
StepEnds ==
    \A w \in Worlds : /\ InRun(w) => step[w] = 0
                      /\ pc[w] \in {"removeAgents", "finished"} => sectionIndex[w] = 0

RunInv == InitSync /\ InitGhosts /\ InitAgents /\ StepEnds

(* A world sends ghosts exactly to those that wait for them.               *)
LEMMA GhostsAwaited ==
    ASSUME NEW w \in Worlds, NEW v \in Worlds, NEW s \in Sections
    PROVE  v \in SendTo(w, s) <=> w \in ReceiveFrom(v, s)
<1>1. v \in Neighbors(w) <=> w \in Neighbors(v)
  BY DEF Neighbors, Adjacent, Distance, Worlds, Coords
<1>2. ASSUME v \in Neighbors(w)
      PROVE  needsToBeUpdated(w, v, s) <=> needsToReceiveData(v, w, s)
  <2>1. PICK a, b \in Int : w = <<a, b>>
    BY DEF Worlds, Coords
  <2>2. PICK c, d \in Int : v = <<c, d>>
    BY DEF Worlds, Coords
  <2>3. s = 0 \/ s = 1 \/ s = 2 \/ s = 3
    BY DEF Sections
  <2> QED
    BY <2>1, <2>2, <2>3 DEF needsToBeUpdated, needsToReceiveData, Difference
<1> QED
  BY <1>1, <1>2 DEF SendTo, ReceiveFrom

(* How many lists of ghosts a send and a receive leave.                    *)
LEMMA SendGhostsLengths ==
    ASSUME TypeInv, NEW w \in Worlds, NEW from, NEW to, SendGhosts(w, from, to)
    PROVE  \A c \in Channels : Len(ghostChannel'[c]) =
                IF c[1] = w /\ w \in ReceiveFrom(c[2], sectionIndex[w])
                THEN Len(ghostChannel[c]) + 1 ELSE Len(ghostChannel[c])
<1> SUFFICES ASSUME NEW c \in Channels
             PROVE  Len(ghostChannel'[c]) =
                        IF c[1] = w /\ w \in ReceiveFrom(c[2], sectionIndex[w])
                        THEN Len(ghostChannel[c]) + 1 ELSE Len(ghostChannel[c])
  OBVIOUS
<1> DEFINE lists == [v \in SendTo(w, sectionIndex[w]) |-> GhostList(w, v)]
<1>1. ghostChannel[c] \in Seq(SUBSET Agent) /\ sectionIndex[w] \in Sections
  BY DEF TypeInv, TypeOK
<1>2. ghostChannel'[c] = IF c[1] = w /\ c[2] \in SendTo(w, sectionIndex[w])
                         THEN Append(ghostChannel[c], lists[c[2]]) ELSE ghostChannel[c]
  BY DEF SendGhosts, Put
<1>3. c[2] \in SendTo(w, sectionIndex[w]) => lists[c[2]] \in SUBSET Agent
  BY DEF GhostList, Visible, TypeInv, TypeOK
<1>4. c[1] \in Worlds /\ c[2] \in Worlds
  BY DEF Channels
<1>5. c[2] \in SendTo(w, sectionIndex[w]) <=> w \in ReceiveFrom(c[2], sectionIndex[w])
  BY <1>1, <1>4, GhostsAwaited
<1> HIDE DEF lists
<1> QED
  BY <1>1, <1>2, <1>3, <1>5

LEMMA ReceiveGhostsLengths ==
    ASSUME TypeInv, NEW w \in Worlds, NEW from, NEW loop, NEW last,
           ReceiveGhosts(w, from, loop, last)
    PROVE  /\ \A c \in Channels : Len(ghostChannel'[c]) =
                IF c[2] = w /\ c[1] \in ReceiveFrom(w, sectionIndex[w])
                THEN Len(ghostChannel[c]) - 1 ELSE Len(ghostChannel[c])
           /\ \A v \in ReceiveFrom(w, sectionIndex[w]) :
                <<v, w>> \in Channels /\ Len(ghostChannel[<<v, w>>]) > 0
<1>1. ASSUME NEW v \in ReceiveFrom(w, sectionIndex[w])
      PROVE  <<v, w>> \in Channels /\ Len(ghostChannel[<<v, w>>]) > 0
  <2>1. <<v, w>> \in Channels
    BY ChannelBetween, GhostPartners
  <2>2. ghostChannel[<<v, w>>] # << >> /\ ghostChannel[<<v, w>>] \in Seq(SUBSET Agent)
    BY <2>1 DEF ReceiveGhosts, Arrived, TypeInv, TypeOK
  <2> QED
    BY <2>1, <2>2
<1>2. ASSUME NEW c \in Channels
      PROVE  Len(ghostChannel'[c]) =
                IF c[2] = w /\ c[1] \in ReceiveFrom(w, sectionIndex[w])
                THEN Len(ghostChannel[c]) - 1 ELSE Len(ghostChannel[c])
  <2>1. ghostChannel'[c] = IF c[2] = w /\ c[1] \in ReceiveFrom(w, sectionIndex[w])
                           THEN Tail(ghostChannel[c]) ELSE ghostChannel[c]
    BY DEF ReceiveGhosts, Take
  <2>4. c = <<c[1], c[2]>>
    BY DEF Channels
  <2>5. ghostChannel[c] \in Seq(SUBSET Agent)
    BY DEF TypeInv, TypeOK
  <2>2. ghostChannel[c] \in Seq(SUBSET Agent) /\ c = <<c[1], c[2]>>
    BY <2>4, <2>5
  <2>3. CASE c[2] = w /\ c[1] \in ReceiveFrom(w, sectionIndex[w])
    <3>1. Len(ghostChannel[c]) > 0
      BY <1>1, <2>2, <2>3
    <3>2. Len(Tail(ghostChannel[c])) = Len(ghostChannel[c]) - 1
      BY <2>2, <3>1
    <3> QED
      BY <2>1, <2>3, <3>2
  <2> QED
    BY <2>1, <2>3
<1> QED
  BY <1>1, <1>2

LEMMA InitRun == Init => RunInv
<1> SUFFICES ASSUME Init PROVE RunInv
  OBVIOUS
<1>1. \A w \in Worlds : pc[w] = "barrier" /\ step[w] = 0 /\ sectionIndex[w] = 0
  BY DEF Init
<1>2. \A w \in Worlds : InRun(w) /\ Reached(w) = 0
  BY <1>1 DEF InRun, Reached
<1>3. InitSync
  BY <1>1, <1>2 DEF InitSync
<1>4. \A c \in Channels : c[1] \in Worlds /\ c[2] \in Worlds
  BY DEF Channels
<1>5. InitGhosts
  BY <1>1, <1>4 DEF Init, InitGhosts, SentInit
<1>6. InitAgents
  BY <1>2, <1>4 DEF Init, InitAgents
<1>7. StepEnds
  BY <1>1 DEF StepEnds
<1> QED
  BY <1>3, <1>5, <1>6, <1>7 DEF RunInv

(* A world in run has got to its section, and any other beyond the last.   *)
LEMMA ReachedValues ==
    TypeInv => \A w \in Worlds : /\ Reached(w) \in Int
                                 /\ Reached(w) >= 0
                                 /\ (InRun(w) => (Reached(w) = sectionIndex[w] /\ Reached(w) =< 3))
                                 /\ (~InRun(w) => Reached(w) = 4)
                                 /\ sectionIndex[w] \in Sections
BY DEF TypeInv, TypeOK, Reached, Sections

(* The barrier opens for all worlds at once.                               *)
LEMMA BarrierRun ==
    ASSUME TypeInv, RunInv, Barrier
    PROVE  RunInv'
<1>0. /\ \A w \in Worlds : pc[w] = "barrier"
      /\ pc' = [w \in Worlds |-> "initSendGhosts"]
  BY DEF Barrier
<1>9. \A w \in Worlds : pc'[w] = "initSendGhosts" /\ InRun(w) /\ InRun(w)'
  BY <1>0 DEF InRun
<1>2. step' = step /\ sectionIndex' = sectionIndex /\ agentChannel' = agentChannel /\ ghostChannel' = ghostChannel
  BY DEF Barrier, localVars
<1>10. \A w \in Worlds : Reached(w)' = Reached(w)
  BY <1>2, <1>9 DEF Reached
<1>11. \A w \in Worlds : Reached(w) \in Int
  BY ReachedValues
<1>1. \A w \in Worlds : /\ pc[w] = "barrier"
                        /\ pc'[w] = "initSendGhosts"
                        /\ InRun(w)
                        /\ InRun(w)'
                        /\ Reached(w)' = Reached(w)
                        /\ Reached(w) \in Int
  BY <1>0, <1>9, <1>10, <1>11
<1>3. \A w, v \in Worlds : Reached(w) = Reached(v)
  BY <1>1 DEF RunInv, InitSync
<1>4. InitSync'
  BY <1>1, <1>3 DEF InitSync
<1>5. \A c \in Channels : c[1] \in Worlds /\ c[2] \in Worlds
  BY DEF Channels
<1>6. InitGhosts'
  <2>1. \A c \in Channels : Len(ghostChannel[c]) = 0
    BY <1>1, <1>5 DEF RunInv, InitGhosts, SentInit
  <2>2. \A w, v \in Worlds : ~SentInit(v, w)'
    BY <1>1, <1>3 DEF SentInit
  <2> QED
    BY <1>2, <1>5, <2>1, <2>2 DEF InitGhosts
<1>7. InitAgents'
  BY <1>1, <1>2, <1>5 DEF RunInv, InitAgents
<1>8. StepEnds'
  BY <1>1, <1>2 DEF RunInv, StepEnds
<1> QED
  BY <1>4, <1>6, <1>7, <1>8 DEF RunInv

(* In run a world sends to those that are in the same section.             *)
LEMMA InitSendRun ==
    ASSUME TypeInv, RunInv, NEW w \in Worlds, InitSendGhosts(w)
    PROVE  /\ RunInv'
           /\ \A c \in Channels : ~InRun(c[2]) => Len(ghostChannel'[c]) = Len(ghostChannel[c])
<1>1. /\ pc[w] = "initSendGhosts" /\ pc'[w] = "initReceiveGhosts"
      /\ \A v \in Worlds : v # w => pc'[v] = pc[v]
  BY DEF InitSendGhosts, SendGhosts, Goto, TypeInv, TypeOK
<1>2. step' = step /\ sectionIndex' = sectionIndex /\ agentChannel' = agentChannel
  BY DEF InitSendGhosts, SendGhosts, localVars
<1>13. \A v \in Worlds : InRun(v)' <=> InRun(v)
  BY <1>1 DEF InRun
<1>3. \A v \in Worlds : Reached(v)' = Reached(v)
  BY <1>2, <1>13 DEF Reached
<1>14. \A v \in Worlds : /\ Reached(v) \in Int
                         /\ Reached(v) >= 0
                         /\ (InRun(v) => (Reached(v) = sectionIndex[v] /\ Reached(v) =< 3))
                         /\ (~InRun(v) => Reached(v) = 4)
                         /\ sectionIndex[v] \in Sections
  BY ReachedValues
<1>4. InRun(w) /\ Reached(w) = sectionIndex[w]
  BY <1>1, <1>14 DEF InRun
<1>5. \A c \in Channels : c[1] \in Worlds /\ c[2] \in Worlds /\ c[1] # c[2]
  BY DEF Channels, Neighbors
<1>6. \A c \in Channels : Len(ghostChannel'[c]) =
                IF c[1] = w /\ w \in ReceiveFrom(c[2], sectionIndex[w])
                THEN Len(ghostChannel[c]) + 1 ELSE Len(ghostChannel[c])
  BY SendGhostsLengths DEF InitSendGhosts
<1>7. ASSUME NEW v \in Worlds, v # w, w \in ReceiveFrom(v, sectionIndex[w])
      PROVE  Reached(v) = Reached(w) /\ InRun(v) /\ pc[v] # "barrier"
  <2>1. Reached(v) =< Reached(w) + 1 /\ Reached(w) =< Reached(v) + 1
    BY DEF RunInv, InitSync
  <2>2. Reached(v) # Reached(w) + 1
    BY <1>1, <1>7 DEF RunInv, InitSync
  <2>3. Reached(w) # Reached(v) + 1
    BY <1>1 DEF RunInv, InitSync
  <2>4. Reached(v) = Reached(w)
    BY <1>14, <2>1, <2>2, <2>3
  <2>5. pc[v] # "barrier"
    BY <1>1, <2>4 DEF RunInv, InitSync
  <2>6. Reached(w) # 4
    BY <1>4, <1>14
  <2> QED
    BY <1>14, <2>4, <2>5, <2>6
<1>8. InitSync'
  <2> SUFFICES ASSUME NEW x \in Worlds, NEW y \in Worlds
               PROVE  /\ Reached(x) =< Reached(y) + 1
                      /\ Reached(x) = Reached(y) + 1 =>
                           /\ pc'[y] # "barrier"
                           /\ pc'[x] \notin {"initSendGhosts", "initReceiveGhosts"}
                           /\ pc'[y] = "initSendGhosts"
                                  => y \notin ReceiveFrom(x, sectionIndex[y])
                      /\ pc'[x] = "barrier" /\ Reached(y) = Reached(x) => pc'[y] = "barrier"
    BY <1>2, <1>3 DEF InitSync
  <2>1. /\ Reached(x) =< Reached(y) + 1
        /\ Reached(x) = Reached(y) + 1 =>
             /\ pc[y] # "barrier"
             /\ pc[x] \notin {"initSendGhosts", "initReceiveGhosts"}
             /\ pc[y] = "initSendGhosts" => y \notin ReceiveFrom(x, sectionIndex[y])
        /\ pc[x] = "barrier" /\ Reached(y) = Reached(x) => pc[y] = "barrier"
    BY DEF RunInv, InitSync
  <2>2. /\ pc'[x] = IF x = w THEN "initReceiveGhosts" ELSE pc[x]
        /\ pc'[y] = IF y = w THEN "initReceiveGhosts" ELSE pc[y]
    BY <1>1
  <2> QED
    BY <1>1, <2>1, <2>2
<1>9. InitGhosts'
  <2> SUFFICES ASSUME NEW c \in Channels, InRun(c[2])
               PROVE  Len(ghostChannel'[c]) = IF SentInit(c[1], c[2])' THEN 1 ELSE 0
    BY <1>5, <1>13 DEF InitGhosts
  <2>1. Len(ghostChannel[c]) = IF SentInit(c[1], c[2]) THEN 1 ELSE 0
    BY DEF RunInv, InitGhosts
  <2>2. CASE c[1] = w
    <3>1. c[2] # w /\ c[2] \in Worlds /\ pc'[c[2]] = pc[c[2]]
      BY <1>1, <1>5, <2>2
    <3>2. CASE w \in ReceiveFrom(c[2], sectionIndex[w])
      <4>1. Reached(c[2]) = Reached(w) /\ pc[c[2]] # "barrier"
        BY <1>7, <3>1, <3>2
      <4>2. sectionIndex[c[2]] = sectionIndex[w]
        BY <1>14, <1>4, <4>1, <3>1, <1>7, <3>2
      <4>3. ~SentInit(w, c[2])
        <5>1. Reached(w) # Reached(c[2]) + 1
          BY <1>14, <4>1
        <5> QED
          BY <1>1, <5>1 DEF SentInit
      <4>4. SentInit(c[1], c[2])'
        <5>1. pc'[w] = "initReceiveGhosts" /\ pc'[c[2]] # "barrier" /\ sectionIndex'[c[2]] = sectionIndex[w]
          BY <1>1, <1>2, <3>1, <4>1, <4>2
        <5>2. w \in ReceiveFrom(c[2], sectionIndex'[c[2]])
          BY <3>2, <5>1
        <5> QED
          BY <2>2, <5>1, <5>2 DEF SentInit
      <4>5. ~SentInit(c[1], c[2])
        BY <2>2, <4>3
      <4>6. Len(ghostChannel'[c]) = Len(ghostChannel[c]) + 1
        BY <1>6, <2>2, <3>2
      <4>7. Len(ghostChannel[c]) = 0
        BY <2>1, <4>5
      <4> QED
        BY <4>4, <4>6, <4>7
    <3>3. CASE w \notin ReceiveFrom(c[2], sectionIndex[w])
      <4>1. Reached(w) # Reached(c[2]) + 1
        BY <1>1, <3>1 DEF RunInv, InitSync
      <4>2. ~SentInit(w, c[2])
        BY <1>1, <4>1 DEF SentInit
      <4>3. ~SentInit(w, c[2])'
        <5>1. CASE pc[c[2]] = "barrier"
          BY <3>1, <5>1 DEF SentInit
        <5>2. CASE pc[c[2]] # "barrier"
          <6>1. Reached(c[2]) # Reached(w) + 1 \/ ~InRun(c[2])
            BY <1>1, <3>1, <5>2 DEF RunInv, InitSync, InRun
          <6>2. Reached(c[2]) =< Reached(w) + 1 /\ Reached(w) =< Reached(c[2]) + 1
            BY <3>1 DEF RunInv, InitSync
          <6>3. Reached(c[2]) = Reached(w)
            BY <1>4, <1>14, <3>1, <4>1, <6>1, <6>2
          <6>4. sectionIndex[c[2]] = sectionIndex[w]
            BY <1>14, <1>4, <3>1, <6>3
          <6> QED
            BY <1>2, <3>3, <6>4 DEF SentInit
        <5> QED
          BY <5>1, <5>2
      <4> QED
        BY <1>6, <2>1, <2>2, <3>3, <4>2, <4>3
    <3> QED
      BY <3>2, <3>3
  <2>3. CASE c[1] # w
    <3>1. pc'[c[1]] = pc[c[1]] /\ (pc'[c[2]] = "barrier" <=> pc[c[2]] = "barrier")
      BY <1>1, <1>5, <2>3
    <3>2. SentInit(c[1], c[2])' <=> SentInit(c[1], c[2])
      BY <1>2, <1>3, <1>5, <3>1 DEF SentInit
    <3> QED
      BY <1>6, <2>1, <2>3, <3>2
  <2> QED
    BY <2>2, <2>3
<1>10. InitAgents'
  <2>1. \A v \in Worlds : ~InRun(v) => pc'[v] = pc[v]
    BY <1>1, <1>4
  <2> QED
    BY <1>2, <1>13, <1>5, <2>1 DEF RunInv, InitAgents
<1>11. StepEnds'
  BY <1>1, <1>2, <1>13 DEF RunInv, StepEnds
<1>12. \A c \in Channels : ~InRun(c[2]) => Len(ghostChannel'[c]) = Len(ghostChannel[c])
  BY <1>5, <1>6, <1>7
<1> QED
  BY <1>8, <1>9, <1>10, <1>11, <1>12 DEF RunInv
(* In run a world that has read its ghosts goes to the next barrier, or    *)
(* after the last section to its first step.                               *)
LEMMA InitReceiveRun ==
    ASSUME TypeInv, RunInv, NEW w \in Worlds, InitReceiveGhosts(w)
    PROVE  /\ RunInv'
           /\ \A c \in Channels : (~InRun(c[2]))' =>
                Len(ghostChannel'[c]) = IF c[2] = w THEN 0 ELSE Len(ghostChannel[c])
<1>1. /\ pc[w] = "initReceiveGhosts"
      /\ pc'[w] = IF sectionIndex[w] = 3 THEN "stepSection" ELSE "barrier"
      /\ sectionIndex'[w] = nextSection(sectionIndex[w])
  BY DEF InitReceiveGhosts, ReceiveGhosts, Goto, TypeInv, TypeOK
<1>2. step' = step /\ agentChannel' = agentChannel
  BY DEF InitReceiveGhosts, ReceiveGhosts, localVars
<1>3. \A v \in Worlds : v # w => pc'[v] = pc[v] /\ sectionIndex'[v] = sectionIndex[v]
  BY DEF InitReceiveGhosts, ReceiveGhosts, Goto, TypeInv, TypeOK
<1>4. \A v \in Worlds : /\ Reached(v) \in Int
                        /\ Reached(v) >= 0
                        /\ (InRun(v) => (Reached(v) = sectionIndex[v] /\ Reached(v) =< 3))
                        /\ (~InRun(v) => Reached(v) = 4)
                        /\ sectionIndex[v] \in Sections
  BY ReachedValues
<1>5. \A v \in Worlds : v # w => (InRun(v)' <=> InRun(v))
  BY <1>3 DEF InRun
<1>6. \A v \in Worlds : v # w => Reached(v)' = Reached(v)
  BY <1>3, <1>5 DEF Reached
<1>7. InRun(w) /\ Reached(w) = sectionIndex[w]
  BY <1>1, <1>4 DEF InRun
<1>8. InRun(w)' <=> sectionIndex[w] # 3
  BY <1>1 DEF InRun
<1>9. sectionIndex'[w] = IF sectionIndex[w] = 3 THEN 0 ELSE sectionIndex[w] + 1
  <2>1. sectionIndex[w] = 0 \/ sectionIndex[w] = 1 \/ sectionIndex[w] = 2 \/ sectionIndex[w] = 3
    BY <1>4 DEF Sections
  <2> QED
    BY <1>1, <2>1 DEF nextSection
<1>10. Reached(w)' = Reached(w) + 1
  BY <1>7, <1>8, <1>9 DEF Reached
<1>11. \A c \in Channels : c[1] \in Worlds /\ c[2] \in Worlds /\ c[1] # c[2] /\ c = <<c[1], c[2]>>
  BY DEF Channels, Neighbors
<1>12. /\ \A c \in Channels : Len(ghostChannel'[c]) =
                IF c[2] = w /\ c[1] \in ReceiveFrom(w, sectionIndex[w])
                THEN Len(ghostChannel[c]) - 1 ELSE Len(ghostChannel[c])
       /\ \A v \in ReceiveFrom(w, sectionIndex[w]) :
                <<v, w>> \in Channels /\ Len(ghostChannel[<<v, w>>]) > 0
  BY ReceiveGhostsLengths DEF InitReceiveGhosts
<1>13. \A v \in ReceiveFrom(w, sectionIndex[w]) : SentInit(v, w)
  <2> SUFFICES ASSUME NEW v \in ReceiveFrom(w, sectionIndex[w]) PROVE SentInit(v, w)
    OBVIOUS
  <2>1. Len(ghostChannel[<<v, w>>]) = IF SentInit(v, w) THEN 1 ELSE 0
    BY <1>7, <1>12 DEF RunInv, InitGhosts
  <2> QED
    BY <1>12, <2>1
<1>14. \A y \in Worlds : Reached(w) =< Reached(y)
  <2> SUFFICES ASSUME NEW y \in Worlds PROVE Reached(w) =< Reached(y)
    OBVIOUS
  <2>1. Reached(w) =< Reached(y) + 1 /\ Reached(w) # Reached(y) + 1
    BY <1>1 DEF RunInv, InitSync
  <2> QED
    BY <1>4, <2>1
<1>15. \A y \in Worlds : (Reached(y) = Reached(w) + 1 /\ InRun(y)) => pc[y] = "barrier"
  BY DEF RunInv, InitSync, InRun
<1>16. InitSync'
  <2>1. ASSUME NEW y \in Worlds, y # w
        PROVE  /\ Reached(w)' =< Reached(y)' + 1
               /\ Reached(w)' = Reached(y)' + 1 =>
                    /\ pc'[y] # "barrier"
                    /\ pc'[w] \notin {"initSendGhosts", "initReceiveGhosts"}
                    /\ (pc'[y] = "initSendGhosts" => y \notin ReceiveFrom(w, sectionIndex'[y]))
               /\ (pc'[w] = "barrier" /\ Reached(y)' = Reached(w)') => pc'[y] = "barrier"
    <3>1. pc'[y] = pc[y] /\ sectionIndex'[y] = sectionIndex[y] /\ Reached(y)' = Reached(y)
      BY <1>3, <1>6, <2>1
    <3>2. Reached(w) =< Reached(y)
      BY <1>14
    <3>3. ASSUME Reached(w) = Reached(y)
          PROVE  pc[y] # "barrier" /\ (pc[y] = "initSendGhosts" => y \notin ReceiveFrom(w, sectionIndex[y]))
      <4>1. pc[y] # "barrier"
        BY <1>1, <3>3 DEF RunInv, InitSync
      <4>2. sectionIndex[y] = sectionIndex[w]
        BY <1>4, <1>7, <3>3
      <4>3. y \in ReceiveFrom(w, sectionIndex[w]) => pc[y] # "initSendGhosts"
        BY <1>4, <1>13, <3>3 DEF SentInit
      <4> QED
        BY <4>1, <4>2, <4>3
    <3>4. ASSUME pc'[w] = "barrier", Reached(y) = Reached(w) + 1
          PROVE  pc[y] = "barrier"
      <4>1. Reached(w) # 3
        BY <1>1, <1>7, <3>4
      <4>2. InRun(y)
        BY <1>4, <3>4, <4>1
      <4> QED
        BY <1>15, <3>4, <4>2
    <3>5. pc'[w] \notin {"initSendGhosts", "initReceiveGhosts"}
      BY <1>1
    <3>6. Reached(w) \in Int /\ Reached(y) \in Int
      BY <1>4
    <3>7. Reached(w)' = Reached(y)' + 1 => Reached(w) = Reached(y)
      BY <1>10, <3>1, <3>6
    <3>8. Reached(y)' = Reached(w)' => Reached(y) = Reached(w) + 1
      BY <1>10, <3>1, <3>6
    <3>9. Reached(w)' =< Reached(y)' + 1
      BY <1>10, <3>1, <3>2, <3>6
    <3> QED
      BY <3>1, <3>3, <3>4, <3>5, <3>7, <3>8, <3>9
  <2>2. ASSUME NEW x \in Worlds, x # w
        PROVE  /\ Reached(x)' =< Reached(w)' + 1
               /\ Reached(x)' # Reached(w)' + 1
               /\ (pc'[x] = "barrier" /\ Reached(w)' = Reached(x)') => pc'[w] = "barrier"
    <3>1. pc'[x] = pc[x] /\ Reached(x)' = Reached(x) /\ Reached(x) \in Int /\ Reached(w) \in Int
      BY <1>3, <1>4, <1>6, <2>2
    <3>2. Reached(x) =< Reached(w) + 1
      BY DEF RunInv, InitSync
    <3>3. ASSUME pc[x] = "barrier", Reached(x) = Reached(w) + 1 PROVE pc'[w] = "barrier"
      <4>1. InRun(x) /\ Reached(x) =< 3
        BY <1>4, <3>3 DEF InRun
      <4>2. sectionIndex[w] # 3
        BY <1>7, <3>1, <3>3, <4>1
      <4> QED
        BY <1>1, <4>2
    <3>4. Reached(x)' =< Reached(w)' + 1 /\ Reached(x)' # Reached(w)' + 1
      BY <1>10, <3>1, <3>2
    <3>5. Reached(w)' = Reached(x)' => Reached(x) = Reached(w) + 1
      BY <1>10, <3>1
    <3> QED
      BY <3>1, <3>3, <3>4, <3>5
  <2>3. ASSUME NEW x \in Worlds, NEW y \in Worlds, x # w, y # w
        PROVE  /\ Reached(x)' =< Reached(y)' + 1
               /\ Reached(x)' = Reached(y)' + 1 =>
                    /\ pc'[y] # "barrier"
                    /\ pc'[x] \notin {"initSendGhosts", "initReceiveGhosts"}
                    /\ (pc'[y] = "initSendGhosts" => y \notin ReceiveFrom(x, sectionIndex'[y]))
               /\ (pc'[x] = "barrier" /\ Reached(y)' = Reached(x)') => pc'[y] = "barrier"
    <3>1. /\ pc'[x] = pc[x] /\ Reached(x)' = Reached(x)
          /\ pc'[y] = pc[y] /\ Reached(y)' = Reached(y) /\ sectionIndex'[y] = sectionIndex[y]
      BY <1>3, <1>6, <2>3
    <3> QED
      BY <3>1 DEF RunInv, InitSync
  <2>4. Reached(w)' \in Int
    BY <1>4, <1>10
  <2>5. ASSUME NEW x \in Worlds, NEW y \in Worlds
        PROVE  /\ Reached(x)' =< Reached(y)' + 1
               /\ Reached(x)' = Reached(y)' + 1 =>
                    /\ pc'[y] # "barrier"
                    /\ pc'[x] \notin {"initSendGhosts", "initReceiveGhosts"}
                    /\ (pc'[y] = "initSendGhosts" => y \notin ReceiveFrom(x, sectionIndex'[y]))
               /\ (pc'[x] = "barrier" /\ Reached(y)' = Reached(x)') => pc'[y] = "barrier"
    <3>1. CASE x = w /\ y = w
      BY <2>4, <3>1
    <3>2. CASE x = w /\ y # w
      BY <2>1, <3>2
    <3>3. CASE x # w /\ y = w
      BY <2>2, <3>3
    <3>4. CASE x # w /\ y # w
      BY <2>3, <3>4
    <3> QED
      BY <3>1, <3>2, <3>3, <3>4
  <2> QED
    BY <2>5 DEF InitSync
<1>17. ASSUME NEW c \in Channels, c[2] = w PROVE Len(ghostChannel'[c]) = 0
  <2>1. Len(ghostChannel[c]) = IF SentInit(c[1], w) THEN 1 ELSE 0
    BY <1>7, <1>17 DEF RunInv, InitGhosts
  <2>2. CASE c[1] \in ReceiveFrom(w, sectionIndex[w])
    BY <1>12, <1>13, <1>17, <2>1, <2>2
  <2>3. CASE c[1] \notin ReceiveFrom(w, sectionIndex[w])
    <3>1. ~SentInit(c[1], w)
      BY <2>3 DEF SentInit
    <3> QED
      BY <1>12, <2>1, <2>3, <3>1
  <2> QED
    BY <2>2, <2>3
<1>18. ASSUME NEW c \in Channels, c[2] # w PROVE Len(ghostChannel'[c]) = Len(ghostChannel[c])
  BY <1>12, <1>18
<1>19. InitGhosts'
  <2> SUFFICES ASSUME NEW c \in Channels, InRun(c[2])'
               PROVE  Len(ghostChannel'[c]) = IF SentInit(c[1], c[2])' THEN 1 ELSE 0
    BY DEF InitGhosts
  <2>1. CASE c[2] = w
    <3>1. pc'[w] = "barrier"
      BY <1>1, <1>8, <2>1
    <3>2. ~SentInit(c[1], c[2])'
      BY <2>1, <3>1 DEF SentInit
    <3> QED
      BY <1>17, <2>1, <3>2
  <2>2. CASE c[2] # w
    <3>1. /\ c[2] \in Worlds /\ InRun(c[2])
          /\ pc'[c[2]] = pc[c[2]] /\ sectionIndex'[c[2]] = sectionIndex[c[2]] /\ Reached(c[2])' = Reached(c[2])
      BY <1>3, <1>5, <1>6, <1>11, <2>2
    <3>2. Len(ghostChannel[c]) = IF SentInit(c[1], c[2]) THEN 1 ELSE 0
      BY <3>1 DEF RunInv, InitGhosts
    <3>3. CASE c[1] # w
      <4>1. pc'[c[1]] = pc[c[1]] /\ Reached(c[1])' = Reached(c[1])
        BY <1>3, <1>6, <1>11, <3>3
      <4>2. SentInit(c[1], c[2])' <=> SentInit(c[1], c[2])
        BY <3>1, <4>1 DEF SentInit
      <4> QED
        BY <1>18, <2>2, <3>2, <4>2
    <3>4. CASE c[1] = w
      <4>1. pc[c[2]] # "barrier" => Reached(w) = Reached(c[2])
        <5>1. Reached(c[2]) =< Reached(w) + 1 /\ Reached(w) =< Reached(c[2])
          BY <1>14, <3>1 DEF RunInv, InitSync
        <5>2. Reached(c[2]) \in Int /\ Reached(w) \in Int
          BY <1>4, <3>1
        <5>3. pc[c[2]] # "barrier" => Reached(c[2]) # Reached(w) + 1
          BY <1>15, <3>1
        <5> QED
          BY <5>1, <5>2, <5>3
      <4>2. Reached(w)' = Reached(c[2])' + 1 <=> Reached(w) = Reached(c[2])
        BY <1>4, <1>10, <3>1
      <4>3. pc'[w] # "initReceiveGhosts"
        BY <1>1
      <4>4. SentInit(w, c[2])' <=> (pc[c[2]] # "barrier" /\ w \in ReceiveFrom(c[2], sectionIndex[c[2]])
                                      /\ Reached(w) = Reached(c[2]))
        BY <3>1, <4>2, <4>3 DEF SentInit
      <4>5. SentInit(w, c[2]) <=> (pc[c[2]] # "barrier" /\ w \in ReceiveFrom(c[2], sectionIndex[c[2]]))
        BY <1>1 DEF SentInit
      <4> QED
        BY <1>18, <2>2, <3>2, <3>4, <4>1, <4>4, <4>5
    <3> QED
      BY <3>3, <3>4
  <2> QED
    BY <2>1, <2>2
<1>20. InitAgents'
  <2> SUFFICES ASSUME NEW c \in Channels, InRun(c[1])'
               PROVE  /\ agentChannel'[c] = << >>
                      /\ ~InRun(c[2])' => /\ step'[c[2]] = 0 /\ sectionIndex'[c[2]] = 0
                                          /\ pc'[c[2]] \in {"stepSection", "execute", "receiveAgents"}
    BY DEF InitAgents
  <2>1. InRun(c[1])
    BY <1>5, <1>7, <1>11
  <2>2. CASE c[2] = w
    BY <1>1, <1>2, <1>7, <1>8, <1>9, <2>1, <2>2 DEF RunInv, InitAgents, StepEnds
  <2>3. CASE c[2] # w
    <3>1. (InRun(c[2])' <=> InRun(c[2])) /\ pc'[c[2]] = pc[c[2]] /\ sectionIndex'[c[2]] = sectionIndex[c[2]]
      BY <1>3, <1>5, <1>11, <2>3
    <3> QED
      BY <1>2, <2>1, <3>1 DEF RunInv, InitAgents
  <2> QED
    BY <2>2, <2>3
<1>21. StepEnds'
  <2> SUFFICES ASSUME NEW v \in Worlds
               PROVE  /\ (InRun(v)' => step'[v] = 0)
                      /\ (pc'[v] \in {"removeAgents", "finished"} => sectionIndex'[v] = 0)
    BY DEF StepEnds
  <2>1. CASE v = w
    BY <1>1, <1>2, <1>7, <2>1 DEF RunInv, StepEnds
  <2>2. CASE v # w
    <3>1. (InRun(v)' <=> InRun(v)) /\ pc'[v] = pc[v] /\ sectionIndex'[v] = sectionIndex[v]
      BY <1>3, <1>5, <2>2
    <3> QED
      BY <1>2, <3>1 DEF RunInv, StepEnds
  <2> QED
    BY <2>1, <2>2
<1> QED
  BY <1>16, <1>17, <1>18, <1>19, <1>20, <1>21 DEF RunInv
(* A world that runs its steps disturbs nobody in run: it waits for the    *)
(* agents of the neighbours that have not begun.                           *)
LEMMA OutOfRun ==
    ASSUME TypeInv, RunInv, NEW w \in Worlds,
           ~InRun(w), ~InRun(w)',
           \A v \in Worlds : v # w => /\ pc'[v] = pc[v]
                                      /\ sectionIndex'[v] = sectionIndex[v]
                                      /\ step'[v] = step[v],
           \A c \in Channels : InRun(c[2]) => Len(ghostChannel'[c]) = Len(ghostChannel[c]),
           \A c \in Channels : InRun(c[1]) => agentChannel'[c] = agentChannel[c],
           \A c \in Channels : (InRun(c[1]) /\ c[2] = w) =>
                /\ step'[w] = 0
                /\ sectionIndex'[w] = 0
                /\ pc'[w] \in {"stepSection", "execute", "receiveAgents"},
           pc'[w] \in {"removeAgents", "finished"} => sectionIndex'[w] = 0
    PROVE  RunInv'
<1>1. \A v \in Worlds : InRun(v)' <=> InRun(v)
  BY DEF InRun
<1>2. \A v \in Worlds : Reached(v)' = Reached(v)
  BY <1>1 DEF Reached
<1>3. \A v \in Worlds : /\ (pc'[v] = "barrier" <=> pc[v] = "barrier")
                        /\ (pc'[v] = "initSendGhosts" <=> pc[v] = "initSendGhosts")
                        /\ (pc'[v] = "initReceiveGhosts" <=> pc[v] = "initReceiveGhosts")
                        /\ (InRun(v) => sectionIndex'[v] = sectionIndex[v])
  BY DEF InRun
<1>4. \A c \in Channels : c[1] \in Worlds /\ c[2] \in Worlds
  BY DEF Channels
<1>5. InitSync'
  <2> SUFFICES ASSUME NEW x \in Worlds, NEW y \in Worlds
               PROVE  /\ Reached(x)' =< Reached(y)' + 1
                      /\ Reached(x)' = Reached(y)' + 1 =>
                           /\ pc'[y] # "barrier"
                           /\ pc'[x] \notin {"initSendGhosts", "initReceiveGhosts"}
                           /\ (pc'[y] = "initSendGhosts" => y \notin ReceiveFrom(x, sectionIndex'[y]))
                      /\ (pc'[x] = "barrier" /\ Reached(y)' = Reached(x)') => pc'[y] = "barrier"
    BY DEF InitSync
  <2>1. pc[y] = "initSendGhosts" => sectionIndex'[y] = sectionIndex[y]
    BY <1>3 DEF InRun
  <2>2. /\ Reached(x) =< Reached(y) + 1
        /\ Reached(x) = Reached(y) + 1 =>
             /\ pc[y] # "barrier"
             /\ pc[x] \notin {"initSendGhosts", "initReceiveGhosts"}
             /\ (pc[y] = "initSendGhosts" => y \notin ReceiveFrom(x, sectionIndex[y]))
        /\ (pc[x] = "barrier" /\ Reached(y) = Reached(x)) => pc[y] = "barrier"
    BY DEF RunInv, InitSync
  <2> QED
    BY <1>2, <1>3, <2>1, <2>2
<1>6. InitGhosts'
  <2> SUFFICES ASSUME NEW c \in Channels, InRun(c[2])
               PROVE  Len(ghostChannel'[c]) = IF SentInit(c[1], c[2])' THEN 1 ELSE 0
    BY <1>1, <1>4 DEF InitGhosts
  <2>1. SentInit(c[1], c[2])' <=> SentInit(c[1], c[2])
    BY <1>2, <1>3, <1>4 DEF SentInit
  <2> QED
    BY <2>1 DEF RunInv, InitGhosts
<1>7. InitAgents'
  <2> SUFFICES ASSUME NEW c \in Channels, InRun(c[1])
               PROVE  /\ agentChannel'[c] = << >>
                      /\ ~InRun(c[2]) => /\ step'[c[2]] = 0 /\ sectionIndex'[c[2]] = 0
                                         /\ pc'[c[2]] \in {"stepSection", "execute", "receiveAgents"}
    BY <1>1, <1>4 DEF InitAgents
  <2>1. CASE c[2] = w
    BY <2>1 DEF RunInv, InitAgents
  <2>2. CASE c[2] # w
    BY <1>4, <2>2 DEF RunInv, InitAgents
  <2> QED
    BY <2>1, <2>2
<1>8. StepEnds'
  <2> SUFFICES ASSUME NEW v \in Worlds
               PROVE  /\ (InRun(v) => step'[v] = 0)
                      /\ (pc'[v] \in {"removeAgents", "finished"} => sectionIndex'[v] = 0)
    BY <1>1 DEF StepEnds
  <2> QED
    BY DEF RunInv, StepEnds
<1> QED
  BY <1>5, <1>6, <1>7, <1>8 DEF RunInv

(* Who waits for its neighbours' agents, or has got them, has no neighbour *)
(* in run.                                                                 *)
LEMMA AllBegun ==
    ASSUME TypeInv, RunInv, NEW w \in Worlds, ~InRun(w),
           \/ pc[w] \notin {"stepSection", "execute", "receiveAgents"}
           \/ pc[w] = "receiveAgents" /\ Arrived(agentChannel, w, Neighbors(w))
    PROVE  \A v \in Neighbors(w) : ~InRun(v)
<1> SUFFICES ASSUME NEW v \in Neighbors(w), InRun(v) PROVE FALSE
  OBVIOUS
<1>1. <<v, w>> \in Channels
  BY ChannelBetween
<1>2. /\ agentChannel[<<v, w>>] = << >>
      /\ pc[w] \in {"stepSection", "execute", "receiveAgents"}
  BY <1>1 DEF RunInv, InitAgents
<1> QED
  BY <1>2 DEF Arrived

(* The messages of run never meet those of the steps.                      *)
LEMMA NextRun == TypeInv /\ LeavingInv /\ RunInv /\ [Next]_vars => RunInv'
<1> SUFFICES ASSUME TypeInv, LeavingInv, RunInv, [Next]_vars PROVE RunInv'
  OBVIOUS
<1>1. \A c \in Channels :
          c[1] \in Worlds /\ c[2] \in Worlds /\ c[2] \in Neighbors(c[1]) /\ c[1] \in Neighbors(c[2])
  BY DEF Channels, Neighbors, Adjacent, Distance, Worlds, Coords
<1>2. \A c \in Channels : InRun(c[1]) /\ ~InRun(c[2]) =>
        /\ step[c[2]] = 0
        /\ sectionIndex[c[2]] = 0
        /\ pc[c[2]] \in {"stepSection", "execute", "receiveAgents"}
  BY DEF RunInv, InitAgents
<1>3. ASSUME NEW w \in Worlds, stepSection(w) PROVE RunInv'
  <2>1. /\ pc[w] = "stepSection" /\ pc'[w] = "execute" /\ sectionIndex' = sectionIndex /\ step' = step
        /\ ghostChannel' = ghostChannel /\ agentChannel' = agentChannel
        /\ \A v \in Worlds : v # w => pc'[v] = pc[v]
    BY <1>3 DEF stepSection, Goto, TypeInv, TypeOK
  <2>2. ~InRun(w) /\ ~InRun(w)'
    BY <2>1 DEF InRun
  <2> QED
    BY <1>2, <2>1, <2>2, OutOfRun
<1>4. ASSUME NEW w \in Worlds, NEW a \in agents[w], executeAgent(w, a) PROVE RunInv'
  <2>1. /\ pc[w] = "execute" /\ pc' = pc /\ sectionIndex' = sectionIndex /\ step' = step
        /\ ghostChannel' = ghostChannel /\ agentChannel' = agentChannel
    BY <1>4 DEF executeAgent
  <2>2. ~InRun(w) /\ ~InRun(w)'
    BY <2>1 DEF InRun
  <2> QED
    BY <1>2, <2>1, <2>2, OutOfRun
<1>5. ASSUME NEW w \in Worlds, sendAgents(w) PROVE RunInv'
  <2>1. \A a \in Leaving(w) : getIdFromPosition(a.position) \in Neighbors(w)
    BY DEF LeavingInv
  <2>2. /\ pc[w] = "execute" /\ pc'[w] = "receiveAgents" /\ sectionIndex' = sectionIndex /\ step' = step
        /\ ghostChannel' = ghostChannel /\ agentChannel' = Put(agentChannel, w, AgentLists(w))
        /\ \A v \in Worlds : v # w => pc'[v] = pc[v]
    BY <1>5, <2>1 DEF sendAgents, Goto, TypeInv, TypeOK
  <2>3. ~InRun(w) /\ ~InRun(w)'
    BY <2>2 DEF InRun
  <2>4. \A c \in Channels : InRun(c[1]) => agentChannel'[c] = agentChannel[c]
    BY <2>2, <2>3 DEF Put
  <2> QED
    BY <1>2, <2>2, <2>3, <2>4, OutOfRun
<1>6. ASSUME NEW w \in Worlds, receiveAgents(w) PROVE RunInv'
  <2>1. /\ pc[w] = "receiveAgents" /\ pc'[w] = "sendGhosts" /\ sectionIndex' = sectionIndex /\ step' = step
        /\ ghostChannel' = ghostChannel /\ agentChannel' = Take(agentChannel, w, Neighbors(w))
        /\ Arrived(agentChannel, w, Neighbors(w))
        /\ \A v \in Worlds : v # w => pc'[v] = pc[v]
    BY <1>6 DEF receiveAgents, Goto, TypeInv, TypeOK
  <2>2. ~InRun(w) /\ ~InRun(w)'
    BY <2>1 DEF InRun
  <2>3. \A v \in Neighbors(w) : ~InRun(v)
    BY <2>1, <2>2, AllBegun
  <2>4. \A c \in Channels : InRun(c[1]) => agentChannel'[c] = agentChannel[c] /\ c[2] # w
    BY <1>1, <2>1, <2>3 DEF Take
  <2> QED
    BY <2>1, <2>2, <2>4, OutOfRun
<1>7. ASSUME NEW w \in Worlds, sendGhostAgents(w) PROVE RunInv'
  <2>1. /\ pc[w] = "sendGhosts" /\ pc'[w] = "receiveGhosts" /\ sectionIndex' = sectionIndex /\ step' = step
        /\ agentChannel' = agentChannel
        /\ \A v \in Worlds : v # w => pc'[v] = pc[v]
    BY <1>7 DEF sendGhostAgents, SendGhosts, Goto, TypeInv, TypeOK
  <2>2. ~InRun(w) /\ ~InRun(w)'
    BY <2>1 DEF InRun
  <2>3. \A v \in Neighbors(w) : ~InRun(v)
    BY <2>1, <2>2, AllBegun
  <2>4. \A c \in Channels : InRun(c[2]) => Len(ghostChannel'[c]) = Len(ghostChannel[c])
    BY <1>1, <1>7, <2>3, SendGhostsLengths DEF sendGhostAgents
  <2>5. \A c \in Channels : InRun(c[1]) => c[2] # w
    BY <1>1, <2>3
  <2> QED
    BY <2>1, <2>2, <2>4, <2>5, OutOfRun
<1>8. ASSUME NEW w \in Worlds, receiveGhostAgents(w) PROVE RunInv'
  <2>1. /\ pc[w] = "receiveGhosts" /\ step' = step /\ agentChannel' = agentChannel
        /\ pc'[w] = IF sectionIndex[w] = 3 THEN "removeAgents" ELSE "stepSection"
        /\ sectionIndex'[w] = nextSection(sectionIndex[w])
        /\ \A v \in Worlds : v # w => pc'[v] = pc[v] /\ sectionIndex'[v] = sectionIndex[v]
    BY <1>8 DEF receiveGhostAgents, ReceiveGhosts, Goto, TypeInv, TypeOK
  <2>2. ~InRun(w) /\ ~InRun(w)'
    BY <2>1 DEF InRun
  <2>3. \A v \in Neighbors(w) : ~InRun(v)
    BY <2>1, <2>2, AllBegun
  <2>4. \A c \in Channels : InRun(c[2]) => Len(ghostChannel'[c]) = Len(ghostChannel[c])
    BY <1>8, <2>2, ReceiveGhostsLengths DEF receiveGhostAgents
  <2>5. \A c \in Channels : InRun(c[1]) => c[2] # w
    BY <1>1, <2>3
  <2>6. pc'[w] \in {"removeAgents", "finished"} => sectionIndex'[w] = 0
    BY <2>1 DEF nextSection
  <2> QED
    BY <2>1, <2>2, <2>4, <2>5, <2>6, OutOfRun
<1>9. ASSUME NEW w \in Worlds, removeAgents(w) PROVE RunInv'
  <2>1. /\ pc[w] = "removeAgents" /\ pc'[w] \in {"finished", "stepSection", "exception"}
        /\ sectionIndex' = sectionIndex /\ ghostChannel' = ghostChannel /\ agentChannel' = agentChannel
        /\ \A v \in Worlds : v # w => pc'[v] = pc[v] /\ step'[v] = step[v]
    BY <1>9 DEF removeAgents, Goto, TypeInv, TypeOK
  <2>2. ~InRun(w) /\ ~InRun(w)'
    BY <2>1 DEF InRun
  <2>3. \A v \in Neighbors(w) : ~InRun(v)
    BY <2>1, <2>2, AllBegun
  <2>4. \A c \in Channels : InRun(c[1]) => c[2] # w
    BY <1>1, <2>3
  <2>5. sectionIndex[w] = 0
    BY <2>1 DEF RunInv, StepEnds
  <2> QED
    BY <2>1, <2>2, <2>4, <2>5, OutOfRun
<1>10. ASSUME UNCHANGED vars PROVE RunInv'
  <2>1. pc' = pc /\ step' = step /\ sectionIndex' = sectionIndex
     /\ agentChannel' = agentChannel /\ ghostChannel' = ghostChannel
    BY <1>10 DEF vars
  <2> QED
    BY <2>1 DEF RunInv, InitSync, InitGhosts, InitAgents, StepEnds, SentInit, Reached, InRun
<1> QED
  BY <1>3, <1>4, <1>5, <1>6, <1>7, <1>8, <1>9, <1>10, BarrierRun, InitSendRun, InitReceiveRun
  DEF Next, WorldStep, Finished
----------------------------------------------------------------------------
(* The implementation of SectionLockstep *)

(* Both modules divide the area the same way.                              *)
LEMMA SameWorlds ==
    /\ Order!Worlds = Worlds
    /\ Order!Channels = Channels
    /\ \A w : Order!Neighbors(w) = Neighbors(w)
<1>1. Order!Worlds = Worlds
  BY DEF Worlds, Coords, Order!Worlds, Order!Coords
<1>2. \A w : Order!Neighbors(w) = Neighbors(w)
  BY <1>1 DEF Neighbors, Adjacent, Distance, Order!Neighbors, Order!Adjacent, Order!Distance
<1> QED
  BY <1>1, <1>2 DEF Channels, Order!Channels

LEMMA SamePartners ==
    ASSUME NEW w, NEW s
    PROVE  Order!SendTo(w, s) = SendTo(w, s) /\ Order!ReceiveFrom(w, s) = ReceiveFrom(w, s)
BY SameWorlds DEF SendTo, ReceiveFrom, needsToBeUpdated, needsToReceiveData, Difference,
    Order!SendTo, Order!ReceiveFrom, Order!needsToBeUpdated, Order!needsToReceiveData, Order!Difference

(* The section of a round is the one the world is in.                      *)
LEMMA SectionOfRound ==
    ASSUME TypeInv, NEW w \in Worlds, ~InRun(w), pc[w] # "removeAgents"
    PROVE  /\ RoundOf(w) = 4 * step[w] + sectionIndex[w]
           /\ Order!SectionOf(w) = sectionIndex[w]
<1>1. RoundOf(w) = 4 * step[w] + sectionIndex[w]
  BY DEF RoundOf
<1>2. step[w] \in Nat /\ sectionIndex[w] \in 0 .. 3
  BY NumStepsAssumption DEF TypeInv, TypeOK, Sections
<1>3. (4 * step[w] + sectionIndex[w]) % 4 = sectionIndex[w]
  BY <1>2
<1> QED
  BY <1>1, <1>3 DEF Order!SectionOf

(* The steps of SectionLockstep, from their effect on one world and its    *)
(* channels.                                                               *)
LEMMA OrderRun ==
    ASSUME NEW w \in Worlds,
           PhaseOf(w) = "run", RoundOf(w) < 4 * NumSteps, PhaseOf(w)' = "awaitAgents",
           \A v \in Worlds : v # w => PhaseOf(v)' = PhaseOf(v),
           \A v \in Worlds : RoundOf(v)' = RoundOf(v),
           \A c \in Channels : Len(agentChannel'[c]) =
                IF c[1] = w THEN Len(agentChannel[c]) + 1 ELSE Len(agentChannel[c]),
           \A c \in Channels : GhostMailOf(c)' = GhostMailOf(c)
    PROVE  Order!Run(w)
<1>1. \A c \in Channels : c[1] = w => c[2] \in Neighbors(w)
  BY DEF Channels
<1>2. [c \in Channels |-> Len(agentChannel[c])]' =
        [c \in Channels |-> IF c[1] = w /\ c[2] \in Neighbors(w)
                            THEN Len(agentChannel[c]) + 1 ELSE Len(agentChannel[c])]
  BY <1>1
<1>3. [v \in Worlds |-> PhaseOf(v)]' = [[v \in Worlds |-> PhaseOf(v)] EXCEPT ![w] = "awaitAgents"]
  OBVIOUS
<1>4. UNCHANGED <<[v \in Worlds |-> RoundOf(v)], [c \in Channels |-> GhostMailOf(c)]>>
  OBVIOUS
<1>5. Order!Send([c \in Channels |-> Len(agentChannel[c])], w, Order!Neighbors(w)) =
        [c \in Channels |-> IF c[1] = w /\ c[2] \in Neighbors(w)
                            THEN Len(agentChannel[c]) + 1 ELSE Len(agentChannel[c])]
  BY SameWorlds DEF Order!Send
<1> QED
  BY <1>2, <1>3, <1>4, <1>5 DEF Order!Run

LEMMA OrderReceiveAgents ==
    ASSUME NEW w \in Worlds,
           PhaseOf(w) = "awaitAgents", PhaseOf(w)' = "sendGhosts",
           \A v \in Worlds : v # w => PhaseOf(v)' = PhaseOf(v),
           \A v \in Worlds : RoundOf(v)' = RoundOf(v),
           \A v \in Neighbors(w) : Len(agentChannel[<<v, w>>]) > 0,
           \A c \in Channels : Len(agentChannel'[c]) =
                IF c[2] = w THEN Len(agentChannel[c]) - 1 ELSE Len(agentChannel[c]),
           \A c \in Channels : GhostMailOf(c)' = GhostMailOf(c)
    PROVE  Order!ReceiveAgents(w)
<1>1. \A c \in Channels : c[2] = w => c[1] \in Neighbors(w)
  BY DEF Channels, Neighbors, Adjacent, Distance, Worlds, Coords
<1>2. [c \in Channels |-> Len(agentChannel[c])]' =
        [c \in Channels |-> IF c[2] = w /\ c[1] \in Neighbors(w)
                            THEN Len(agentChannel[c]) - 1 ELSE Len(agentChannel[c])]
  BY <1>1
<1>3. [v \in Worlds |-> PhaseOf(v)]' = [[v \in Worlds |-> PhaseOf(v)] EXCEPT ![w] = "sendGhosts"]
  OBVIOUS
<1>4. UNCHANGED <<[v \in Worlds |-> RoundOf(v)], [c \in Channels |-> GhostMailOf(c)]>>
  OBVIOUS
<1>5. Order!Receive([c \in Channels |-> Len(agentChannel[c])], w, Order!Neighbors(w)) =
        [c \in Channels |-> IF c[2] = w /\ c[1] \in Neighbors(w)
                            THEN Len(agentChannel[c]) - 1 ELSE Len(agentChannel[c])]
  BY SameWorlds DEF Order!Receive
<1>6. Order!Arrived([c \in Channels |-> Len(agentChannel[c])], w, Order!Neighbors(w))
  BY SameWorlds, ChannelBetween DEF Order!Arrived
<1> QED
  BY <1>2, <1>3, <1>4, <1>5, <1>6 DEF Order!ReceiveAgents

LEMMA OrderSendGhosts ==
    ASSUME NEW w \in Worlds,
           PhaseOf(w) = "sendGhosts", PhaseOf(w)' = "awaitGhosts",
           \A v \in Worlds : v # w => PhaseOf(v)' = PhaseOf(v),
           \A v \in Worlds : RoundOf(v)' = RoundOf(v),
           \A c \in Channels : Len(agentChannel'[c]) = Len(agentChannel[c]),
           \A c \in Channels : GhostMailOf(c)' =
                IF c[1] = w /\ c[2] \in SendTo(w, Order!SectionOf(w))
                THEN GhostMailOf(c) + 1 ELSE GhostMailOf(c)
    PROVE  Order!SendGhosts(w)
<1> DEFINE s == Order!SectionOf(w)
<1>1. [v \in Worlds |-> PhaseOf(v)]' = [[v \in Worlds |-> PhaseOf(v)] EXCEPT ![w] = "awaitGhosts"]
  OBVIOUS
<1>2. UNCHANGED <<[v \in Worlds |-> RoundOf(v)], [c \in Channels |-> Len(agentChannel[c])]>>
  OBVIOUS
<1>3. Order!Send([c \in Channels |-> GhostMailOf(c)], w, Order!SendTo(w, s)) =
        [c \in Channels |-> IF c[1] = w /\ c[2] \in SendTo(w, s)
                            THEN GhostMailOf(c) + 1 ELSE GhostMailOf(c)]
  BY SameWorlds, SamePartners DEF Order!Send
<1>4. [c \in Channels |-> GhostMailOf(c)]' =
        [c \in Channels |-> IF c[1] = w /\ c[2] \in SendTo(w, s)
                            THEN GhostMailOf(c) + 1 ELSE GhostMailOf(c)]
  OBVIOUS
<1> HIDE DEF s
<1> QED
  BY <1>1, <1>2, <1>3, <1>4 DEF Order!SendGhosts, s

LEMMA OrderReceiveGhosts ==
    ASSUME NEW w \in Worlds,
           PhaseOf(w) = "awaitGhosts", PhaseOf(w)' = "run",
           \A v \in Worlds : v # w => PhaseOf(v)' = PhaseOf(v),
           \A v \in Worlds : v # w => RoundOf(v)' = RoundOf(v),
           RoundOf(w)' = RoundOf(w) + 1,
           \A c \in Channels : Len(agentChannel'[c]) = Len(agentChannel[c]),
           \A v \in ReceiveFrom(w, Order!SectionOf(w)) : GhostMailOf(<<v, w>>) > 0,
           \A c \in Channels : GhostMailOf(c)' =
                IF c[2] = w /\ c[1] \in ReceiveFrom(w, Order!SectionOf(w))
                THEN GhostMailOf(c) - 1 ELSE GhostMailOf(c)
    PROVE  Order!ReceiveGhosts(w)
<1> DEFINE s == Order!SectionOf(w)
<1>1. [v \in Worlds |-> PhaseOf(v)]' = [[v \in Worlds |-> PhaseOf(v)] EXCEPT ![w] = "run"]
  OBVIOUS
<1>2. [v \in Worlds |-> RoundOf(v)]' = [[v \in Worlds |-> RoundOf(v)] EXCEPT ![w] = @ + 1]
  OBVIOUS
<1>3. UNCHANGED [c \in Channels |-> Len(agentChannel[c])]
  OBVIOUS
<1>4. Order!Receive([c \in Channels |-> GhostMailOf(c)], w, Order!ReceiveFrom(w, s)) =
        [c \in Channels |-> IF c[2] = w /\ c[1] \in ReceiveFrom(w, s)
                            THEN GhostMailOf(c) - 1 ELSE GhostMailOf(c)]
  BY SameWorlds, SamePartners DEF Order!Receive
<1>5. [c \in Channels |-> GhostMailOf(c)]' =
        [c \in Channels |-> IF c[2] = w /\ c[1] \in ReceiveFrom(w, s)
                            THEN GhostMailOf(c) - 1 ELSE GhostMailOf(c)]
  OBVIOUS
<1>6. Order!Arrived([c \in Channels |-> GhostMailOf(c)], w, Order!ReceiveFrom(w, s))
  <2>1. \A v \in ReceiveFrom(w, s) : <<v, w>> \in Channels
    BY ChannelBetween, GhostPartners
  <2>2. Order!ReceiveFrom(w, s) = ReceiveFrom(w, s)
    BY SamePartners
  <2> QED
    BY <2>1, <2>2 DEF Order!Arrived
<1> HIDE DEF s
<1> QED
  BY <1>1, <1>2, <1>3, <1>4, <1>5, <1>6 DEF Order!ReceiveGhosts, s
LEMMA OrderStutters ==
    ASSUME \A v \in Worlds : PhaseOf(v)' = PhaseOf(v),
           \A v \in Worlds : RoundOf(v)' = RoundOf(v),
           \A c \in Channels : Len(agentChannel'[c]) = Len(agentChannel[c]),
           \A c \in Channels : GhostMailOf(c)' = GhostMailOf(c)
    PROVE  UNCHANGED Order!vars
BY DEF Order!vars

(* Before the first step no world has begun a round and no mail counts.    *)
LEMMA InitOrder == Init => Order!Init
<1> SUFFICES ASSUME Init PROVE Order!Init
  OBVIOUS
<1>1. \A w \in Worlds : pc[w] = "barrier"
  BY DEF Init
<1>2. \A w \in Worlds : RoundOf(w) = 0 /\ PhaseOf(w) = "run"
  BY <1>1 DEF RoundOf, PhaseOf, InRun
<1>3. \A c \in Channels : Len(agentChannel[c]) = 0 /\ GhostMailOf(c) = 0
  BY <1>1 DEF Init, Channels, GhostMailOf, InRun
<1> QED
  BY <1>2, <1>3, SameWorlds DEF Order!Init

(* What sendAgents and receiveAgents do to the number of lists.            *)
LEMMA SendAgentsLengths ==
    ASSUME TypeInv, NEW w \in Worlds, agentChannel' = Put(agentChannel, w, AgentLists(w))
    PROVE  \A c \in Channels : Len(agentChannel'[c]) =
                IF c[1] = w THEN Len(agentChannel[c]) + 1 ELSE Len(agentChannel[c])
<1> SUFFICES ASSUME NEW c \in Channels
             PROVE  Len(agentChannel'[c]) =
                        IF c[1] = w THEN Len(agentChannel[c]) + 1 ELSE Len(agentChannel[c])
  OBVIOUS
<1>1. agentChannel[c] \in Seq(SUBSET Agent)
  BY DEF TypeInv, TypeOK
<1>2. c[1] = w => c[2] \in Neighbors(w)
  BY DEF Channels
<1>3. agentChannel'[c] = IF c[1] = w THEN Append(agentChannel[c], BoundFor(w, c[2])) ELSE agentChannel[c]
  BY <1>2 DEF Put, AgentLists
<1>4. BoundFor(w, c[2]) \in SUBSET Agent
  BY DEF BoundFor, Leaving, TypeInv, TypeOK
<1> HIDE DEF AgentLists
<1> QED
  BY <1>1, <1>3, <1>4

LEMMA ReceiveAgentsLengths ==
    ASSUME TypeInv, NEW w \in Worlds, Arrived(agentChannel, w, Neighbors(w)),
           agentChannel' = Take(agentChannel, w, Neighbors(w))
    PROVE  /\ \A v \in Neighbors(w) : Len(agentChannel[<<v, w>>]) > 0
           /\ \A c \in Channels : Len(agentChannel'[c]) =
                IF c[2] = w THEN Len(agentChannel[c]) - 1 ELSE Len(agentChannel[c])
<1>1. ASSUME NEW v \in Neighbors(w) PROVE <<v, w>> \in Channels /\ Len(agentChannel[<<v, w>>]) > 0
  <2>1. <<v, w>> \in Channels
    BY ChannelBetween
  <2>2. agentChannel[<<v, w>>] # << >> /\ agentChannel[<<v, w>>] \in Seq(SUBSET Agent)
    BY <2>1 DEF Arrived, TypeInv, TypeOK
  <2> QED
    BY <2>1, <2>2
<1>2. ASSUME NEW c \in Channels
      PROVE  Len(agentChannel'[c]) = IF c[2] = w THEN Len(agentChannel[c]) - 1 ELSE Len(agentChannel[c])
  <2>1. c[2] = w => c[1] \in Neighbors(w)
    BY DEF Channels, Neighbors, Adjacent, Distance, Worlds, Coords
  <2>2. agentChannel'[c] = IF c[2] = w THEN Tail(agentChannel[c]) ELSE agentChannel[c]
    BY <2>1 DEF Take
  <2>3. agentChannel[c] \in Seq(SUBSET Agent)
    BY DEF TypeInv, TypeOK
  <2>4. c = <<c[1], c[2]>>
    BY DEF Channels
  <2>5. CASE c[2] = w
    <3>1. Len(agentChannel[c]) > 0
      BY <1>1, <2>1, <2>4, <2>5
    <3>2. Len(Tail(agentChannel[c])) = Len(agentChannel[c]) - 1
      BY <2>3, <3>1
    <3> QED
      BY <2>2, <2>5, <3>2
  <2> QED
    BY <2>2, <2>5
<1> QED
  BY <1>1, <1>2

(* Every step of World is a step of SectionLockstep or none: the exchange  *)
(* in run and the turns of the agents do not count.                        *)
LEMMA StepOfOrder ==
    TypeInv /\ TypeInv' /\ LeavingInv /\ RunInv /\ RunInv' /\ [Next]_vars
        => [Order!Next]_(Order!vars)
<1> SUFFICES ASSUME TypeInv, TypeInv', LeavingInv, RunInv, RunInv', [Next]_vars
             PROVE  [Order!Next]_(Order!vars)
  OBVIOUS
<1>1. \A c \in Channels :
          c[1] \in Worlds /\ c[2] \in Worlds /\ c[2] \in Neighbors(c[1]) /\ c[1] \in Neighbors(c[2])
  BY DEF Channels, Neighbors, Adjacent, Distance, Worlds, Coords
<1>2. CASE Barrier
  <2>1. /\ \A w \in Worlds : InRun(w) /\ InRun(w)'
        /\ \A w \in Worlds : PhaseOf(w)' = "run" /\ PhaseOf(w) = "run"
    BY <1>2 DEF Barrier, InRun, PhaseOf
  <2>2. agentChannel' = agentChannel
    BY <1>2 DEF Barrier
  <2>3. \A w \in Worlds : RoundOf(w)' = RoundOf(w)
    BY <2>1 DEF RoundOf
  <2>4. \A c \in Channels : GhostMailOf(c)' = GhostMailOf(c)
    BY <1>1, <2>1 DEF GhostMailOf
  <2> QED
    BY <2>1, <2>2, <2>3, <2>4, OrderStutters
<1>3. ASSUME NEW w \in Worlds, InitSendGhosts(w) PROVE UNCHANGED Order!vars
  <2>1. /\ pc[w] = "initSendGhosts" /\ pc'[w] = "initReceiveGhosts"
        /\ step' = step /\ sectionIndex' = sectionIndex /\ agentChannel' = agentChannel
        /\ \A v \in Worlds : v # w => pc'[v] = pc[v]
    BY <1>3 DEF InitSendGhosts, SendGhosts, Goto, TypeInv, TypeOK
  <2>2. \A v \in Worlds : InRun(v)' <=> InRun(v)
    BY <2>1 DEF InRun
  <2>3. \A v \in Worlds : RoundOf(v)' = RoundOf(v) /\ PhaseOf(v)' = PhaseOf(v)
    <3> SUFFICES ASSUME NEW v \in Worlds PROVE RoundOf(v)' = RoundOf(v) /\ PhaseOf(v)' = PhaseOf(v)
      OBVIOUS
    <3>1. CASE v = w
      BY <2>1, <3>1 DEF RoundOf, PhaseOf, InRun
    <3>2. CASE v # w
      BY <2>1, <2>2, <3>2 DEF RoundOf, PhaseOf
    <3> QED
      BY <3>1, <3>2
  <2>4. \A c \in Channels : GhostMailOf(c)' = GhostMailOf(c)
    BY <1>1, <1>3, <2>2, InitSendRun DEF GhostMailOf
  <2> QED
    BY <2>1, <2>3, <2>4, OrderStutters
<1>4. ASSUME NEW w \in Worlds, InitReceiveGhosts(w) PROVE UNCHANGED Order!vars
  <2>1. /\ pc[w] = "initReceiveGhosts" /\ pc'[w] \in {"barrier", "stepSection"}
        /\ step' = step /\ agentChannel' = agentChannel
        /\ pc'[w] = "stepSection" => sectionIndex'[w] = 0
        /\ \A v \in Worlds : v # w => pc'[v] = pc[v] /\ sectionIndex'[v] = sectionIndex[v]
    <3>1. nextSection(3) = 0
      BY DEF nextSection
    <3> QED
      BY <1>4, <3>1 DEF InitReceiveGhosts, ReceiveGhosts, Goto, TypeInv, TypeOK
  <2>2. InRun(w) /\ \A v \in Worlds : v # w => (InRun(v)' <=> InRun(v))
    BY <2>1 DEF InRun
  <2>3. step[w] = 0
    BY <2>2 DEF RunInv, StepEnds
  <2>4. \A v \in Worlds : RoundOf(v)' = RoundOf(v) /\ PhaseOf(v)' = PhaseOf(v)
    <3> SUFFICES ASSUME NEW v \in Worlds PROVE RoundOf(v)' = RoundOf(v) /\ PhaseOf(v)' = PhaseOf(v)
      OBVIOUS
    <3>1. CASE v = w
      <4>1. PhaseOf(v) = "run" /\ RoundOf(v) = 0
        BY <2>1, <2>2, <3>1 DEF PhaseOf, RoundOf
      <4>2. PhaseOf(v)' = "run"
        BY <2>1, <3>1 DEF PhaseOf
      <4>3. RoundOf(v)' = 0
        BY <2>1, <2>3, <3>1 DEF RoundOf, InRun
      <4> QED
        BY <4>1, <4>2, <4>3
    <3>2. CASE v # w
      BY <2>1, <2>2, <3>2 DEF RoundOf, PhaseOf
    <3> QED
      BY <3>1, <3>2
  <2>5. \A c \in Channels : GhostMailOf(c)' = GhostMailOf(c)
    <3> SUFFICES ASSUME NEW c \in Channels PROVE GhostMailOf(c)' = GhostMailOf(c)
      OBVIOUS
    <3>1. \A d \in Channels : (~InRun(d[2]))' =>
                Len(ghostChannel'[d]) = IF d[2] = w THEN 0 ELSE Len(ghostChannel[d])
      BY <1>4, InitReceiveRun
    <3>2. CASE c[2] = w
      BY <2>2, <3>1, <3>2 DEF GhostMailOf
    <3>3. CASE c[2] # w
      BY <1>1, <2>2, <3>1, <3>3 DEF GhostMailOf
    <3> QED
      BY <3>2, <3>3
  <2> QED
    BY <2>1, <2>4, <2>5, OrderStutters
<1>5. ASSUME NEW w \in Worlds, stepSection(w) \/ \E a \in agents[w] : executeAgent(w, a)
      PROVE  UNCHANGED Order!vars
  <2>1. /\ pc[w] \in {"stepSection", "execute"} /\ pc'[w] = "execute"
        /\ step' = step /\ sectionIndex' = sectionIndex
        /\ ghostChannel' = ghostChannel /\ agentChannel' = agentChannel
        /\ \A v \in Worlds : v # w => pc'[v] = pc[v]
    BY <1>5 DEF stepSection, executeAgent, Goto, TypeInv, TypeOK
  <2>2. \A v \in Worlds : InRun(v)' <=> InRun(v)
    BY <2>1 DEF InRun
  <2>3. \A v \in Worlds : PhaseOf(v)' = PhaseOf(v)
    BY <2>1 DEF PhaseOf
  <2>4. \A v \in Worlds : pc'[v] = "removeAgents" <=> pc[v] = "removeAgents"
    BY <2>1
  <2>5. \A v \in Worlds : RoundOf(v)' = RoundOf(v)
    BY <2>1, <2>2, <2>4 DEF RoundOf
  <2>6. \A c \in Channels : GhostMailOf(c)' = GhostMailOf(c)
    BY <1>1, <2>1, <2>2 DEF GhostMailOf
  <2> QED
    BY <2>1, <2>3, <2>5, <2>6, OrderStutters
<1>6. ASSUME NEW w \in Worlds, sendAgents(w) PROVE Order!Run(w)
  <2>1. \A a \in Leaving(w) : getIdFromPosition(a.position) \in Neighbors(w)
    BY DEF LeavingInv
  <2>2. /\ pc[w] = "execute" /\ pc'[w] = "receiveAgents" /\ sectionIndex' = sectionIndex /\ step' = step
        /\ ghostChannel' = ghostChannel /\ agentChannel' = Put(agentChannel, w, AgentLists(w))
        /\ \A v \in Worlds : v # w => pc'[v] = pc[v]
    BY <1>6, <2>1 DEF sendAgents, Goto, TypeInv, TypeOK
  <2>3. ~InRun(w) /\ \A v \in Worlds : InRun(v)' <=> InRun(v)
    BY <2>2 DEF InRun
  <2>4. PhaseOf(w) = "run" /\ PhaseOf(w)' = "awaitAgents" /\ \A v \in Worlds : v # w => PhaseOf(v)' = PhaseOf(v)
    BY <2>2 DEF PhaseOf
  <2>5. \A v \in Worlds : pc'[v] = "removeAgents" <=> pc[v] = "removeAgents"
    BY <2>2
  <2>6. \A v \in Worlds : RoundOf(v)' = RoundOf(v)
    BY <2>2, <2>3, <2>5 DEF RoundOf
  <2>7. RoundOf(w) < 4 * NumSteps
    <3>1. RoundOf(w) = 4 * step[w] + sectionIndex[w]
      BY <2>2, <2>3, SectionOfRound
    <3>2. step[w] \in Nat /\ step[w] < NumSteps /\ sectionIndex[w] \in 0 .. 3 /\ NumSteps \in Nat
      <4>1. pc[w] \notin {"finished", "exception"}
        BY <2>2
      <4>2. step[w] < NumSteps
        BY <4>1 DEF TypeInv, StepInv
      <4>3. step[w] \in 0 .. NumSteps /\ sectionIndex[w] \in 0 .. 3
        BY DEF TypeInv, TypeOK, Sections
      <4> QED
        BY <4>2, <4>3, NumStepsAssumption
    <3> QED
      BY <3>1, <3>2
  <2>8. \A c \in Channels : GhostMailOf(c)' = GhostMailOf(c)
    BY <1>1, <2>2, <2>3 DEF GhostMailOf
  <2>9. \A c \in Channels : Len(agentChannel'[c]) =
                IF c[1] = w THEN Len(agentChannel[c]) + 1 ELSE Len(agentChannel[c])
    BY <2>2, SendAgentsLengths
  <2> QED
    BY <2>4, <2>6, <2>7, <2>8, <2>9, OrderRun
<1>7. ASSUME NEW w \in Worlds, receiveAgents(w) PROVE Order!ReceiveAgents(w)
  <2>1. /\ pc[w] = "receiveAgents" /\ pc'[w] = "sendGhosts" /\ sectionIndex' = sectionIndex /\ step' = step
        /\ ghostChannel' = ghostChannel /\ agentChannel' = Take(agentChannel, w, Neighbors(w))
        /\ Arrived(agentChannel, w, Neighbors(w))
        /\ \A v \in Worlds : v # w => pc'[v] = pc[v]
    BY <1>7 DEF receiveAgents, Goto, TypeInv, TypeOK
  <2>2. \A v \in Worlds : InRun(v)' <=> InRun(v)
    BY <2>1 DEF InRun
  <2>3. PhaseOf(w) = "awaitAgents" /\ PhaseOf(w)' = "sendGhosts" /\ \A v \in Worlds : v # w => PhaseOf(v)' = PhaseOf(v)
    BY <2>1 DEF PhaseOf
  <2>4. \A v \in Worlds : pc'[v] = "removeAgents" <=> pc[v] = "removeAgents"
    BY <2>1
  <2>5. \A v \in Worlds : RoundOf(v)' = RoundOf(v)
    BY <2>1, <2>2, <2>4 DEF RoundOf
  <2>6. \A c \in Channels : GhostMailOf(c)' = GhostMailOf(c)
    BY <1>1, <2>1, <2>2 DEF GhostMailOf
  <2>7. /\ \A v \in Neighbors(w) : Len(agentChannel[<<v, w>>]) > 0
        /\ \A c \in Channels : Len(agentChannel'[c]) =
                IF c[2] = w THEN Len(agentChannel[c]) - 1 ELSE Len(agentChannel[c])
    BY <2>1, ReceiveAgentsLengths
  <2> QED
    BY <2>3, <2>5, <2>6, <2>7, OrderReceiveAgents
<1>8. ASSUME NEW w \in Worlds, sendGhostAgents(w) PROVE Order!SendGhosts(w)
  <2>1. /\ pc[w] = "sendGhosts" /\ pc'[w] = "receiveGhosts" /\ sectionIndex' = sectionIndex /\ step' = step
        /\ agentChannel' = agentChannel
        /\ \A v \in Worlds : v # w => pc'[v] = pc[v]
    BY <1>8 DEF sendGhostAgents, SendGhosts, Goto, TypeInv, TypeOK
  <2>2. ~InRun(w) /\ \A v \in Worlds : InRun(v)' <=> InRun(v)
    BY <2>1 DEF InRun
  <2>3. \A v \in Neighbors(w) : ~InRun(v)
    BY <2>1, <2>2, AllBegun
  <2>4. PhaseOf(w) = "sendGhosts" /\ PhaseOf(w)' = "awaitGhosts" /\ \A v \in Worlds : v # w => PhaseOf(v)' = PhaseOf(v)
    BY <2>1 DEF PhaseOf
  <2>5. \A v \in Worlds : pc'[v] = "removeAgents" <=> pc[v] = "removeAgents"
    BY <2>1
  <2>6. \A v \in Worlds : RoundOf(v)' = RoundOf(v)
    BY <2>1, <2>2, <2>5 DEF RoundOf
  <2>7. Order!SectionOf(w) = sectionIndex[w] /\ sectionIndex[w] \in Sections
    BY <2>1, <2>2, SectionOfRound DEF TypeInv, TypeOK
  <2>8. \A c \in Channels : Len(ghostChannel'[c]) =
                IF c[1] = w /\ w \in ReceiveFrom(c[2], sectionIndex[w])
                THEN Len(ghostChannel[c]) + 1 ELSE Len(ghostChannel[c])
    BY <1>8, SendGhostsLengths DEF sendGhostAgents
  <2>9. ASSUME NEW c \in Channels
        PROVE  GhostMailOf(c)' = IF c[1] = w /\ c[2] \in SendTo(w, Order!SectionOf(w))
                                 THEN GhostMailOf(c) + 1 ELSE GhostMailOf(c)
    <3>1. c[2] \in SendTo(w, sectionIndex[w]) <=> w \in ReceiveFrom(c[2], sectionIndex[w])
      BY <1>1, <2>7, GhostsAwaited
    <3>2. InRun(c[2])' <=> InRun(c[2])
      BY <1>1, <2>2
    <3>3. c[1] = w => ~InRun(c[2])
      BY <1>1, <2>3
    <3> QED
      BY <2>7, <2>8, <3>1, <3>2, <3>3 DEF GhostMailOf
  <2> QED
    BY <2>1, <2>4, <2>6, <2>9, OrderSendGhosts
<1>9. ASSUME NEW w \in Worlds, receiveGhostAgents(w) PROVE Order!ReceiveGhosts(w)
  <2>1. /\ pc[w] = "receiveGhosts" /\ step' = step /\ agentChannel' = agentChannel
        /\ pc'[w] = IF sectionIndex[w] = 3 THEN "removeAgents" ELSE "stepSection"
        /\ sectionIndex'[w] = nextSection(sectionIndex[w])
        /\ \A v \in Worlds : v # w => pc'[v] = pc[v] /\ sectionIndex'[v] = sectionIndex[v]
    BY <1>9 DEF receiveGhostAgents, ReceiveGhosts, Goto, TypeInv, TypeOK
  <2>2. ~InRun(w) /\ \A v \in Worlds : InRun(v)' <=> InRun(v)
    BY <2>1 DEF InRun
  <2>3. PhaseOf(w) = "awaitGhosts" /\ PhaseOf(w)' = "run" /\ \A v \in Worlds : v # w => PhaseOf(v)' = PhaseOf(v)
    BY <2>1 DEF PhaseOf
  <2>4. \A v \in Worlds : v # w => RoundOf(v)' = RoundOf(v)
    BY <2>1, <2>2 DEF RoundOf
  <2>5. /\ RoundOf(w) = 4 * step[w] + sectionIndex[w]
        /\ Order!SectionOf(w) = sectionIndex[w] /\ sectionIndex[w] \in Sections
    BY <2>1, <2>2, SectionOfRound DEF TypeInv, TypeOK
  <2>6. RoundOf(w)' = RoundOf(w) + 1
    <3>1. step[w] \in Nat
      BY NumStepsAssumption DEF TypeInv, TypeOK
    <3>2. ~InRun(w)'
      BY <2>2
    <3>3. CASE sectionIndex[w] = 3
      <4>1. RoundOf(w)' = 4 * step[w] + 4
        BY <2>1, <3>2, <3>3 DEF RoundOf
      <4> QED
        BY <2>5, <3>1, <3>3, <4>1
    <3>4. CASE sectionIndex[w] # 3
      <4>1. sectionIndex[w] = 0 \/ sectionIndex[w] = 1 \/ sectionIndex[w] = 2
        BY <2>5, <3>4 DEF Sections
      <4>2. nextSection(sectionIndex[w]) = sectionIndex[w] + 1
        BY <4>1 DEF nextSection
      <4>3. RoundOf(w)' = 4 * step[w] + (sectionIndex[w] + 1)
        BY <2>1, <3>2, <3>4, <4>2 DEF RoundOf
      <4> QED
        BY <2>5, <3>1, <4>1, <4>3
    <3> QED
      BY <3>3, <3>4
  <2>7. /\ \A c \in Channels : Len(ghostChannel'[c]) =
                IF c[2] = w /\ c[1] \in ReceiveFrom(w, sectionIndex[w])
                THEN Len(ghostChannel[c]) - 1 ELSE Len(ghostChannel[c])
        /\ \A v \in ReceiveFrom(w, sectionIndex[w]) :
                <<v, w>> \in Channels /\ Len(ghostChannel[<<v, w>>]) > 0
    BY <1>9, ReceiveGhostsLengths DEF receiveGhostAgents
  <2>8. \A v \in ReceiveFrom(w, Order!SectionOf(w)) : GhostMailOf(<<v, w>>) > 0
    BY <2>2, <2>5, <2>7 DEF GhostMailOf
  <2>9. ASSUME NEW c \in Channels
        PROVE  GhostMailOf(c)' = IF c[2] = w /\ c[1] \in ReceiveFrom(w, Order!SectionOf(w))
                                 THEN GhostMailOf(c) - 1 ELSE GhostMailOf(c)
    <3>1. InRun(c[2])' <=> InRun(c[2])
      BY <1>1, <2>2
    <3> QED
      BY <2>2, <2>5, <2>7, <3>1 DEF GhostMailOf
  <2> QED
    BY <2>1, <2>3, <2>4, <2>6, <2>8, <2>9, OrderReceiveGhosts
<1>10. ASSUME NEW w \in Worlds, removeAgents(w) PROVE UNCHANGED Order!vars
  <2>1. /\ pc[w] = "removeAgents" /\ pc'[w] \in {"finished", "stepSection", "exception"}
        /\ sectionIndex' = sectionIndex /\ ghostChannel' = ghostChannel /\ agentChannel' = agentChannel
        /\ step'[w] = step[w] + 1
        /\ \A v \in Worlds : v # w => pc'[v] = pc[v] /\ step'[v] = step[v]
    BY <1>10 DEF removeAgents, Goto, TypeInv, TypeOK
  <2>2. \A v \in Worlds : InRun(v)' <=> InRun(v)
    BY <2>1 DEF InRun
  <2>3. \A v \in Worlds : PhaseOf(v)' = PhaseOf(v)
    BY <2>1 DEF PhaseOf
  <2>4. sectionIndex[w] = 0 /\ step[w] \in Nat
    BY <2>1, NumStepsAssumption DEF RunInv, StepEnds, TypeInv, TypeOK
  <2>5. RoundOf(w)' = RoundOf(w)
    <3>1. RoundOf(w) = 4 * step[w] + 4 /\ RoundOf(w)' = 4 * (step[w] + 1) + 0
      BY <2>1, <2>4 DEF RoundOf, InRun
    <3> QED
      BY <2>4, <3>1
  <2>6. \A v \in Worlds : RoundOf(v)' = RoundOf(v)
    BY <2>1, <2>2, <2>5 DEF RoundOf
  <2>7. \A c \in Channels : GhostMailOf(c)' = GhostMailOf(c)
    BY <1>1, <2>1, <2>2 DEF GhostMailOf
  <2> QED
    BY <2>1, <2>3, <2>6, <2>7, OrderStutters
<1>11. ASSUME UNCHANGED vars PROVE UNCHANGED Order!vars
  <2>1. pc' = pc /\ step' = step /\ sectionIndex' = sectionIndex
     /\ agentChannel' = agentChannel /\ ghostChannel' = ghostChannel
    BY <1>11 DEF vars
  <2> QED
    BY <2>1, OrderStutters DEF RoundOf, PhaseOf, GhostMailOf, InRun
<1> QED
  BY <1>2, <1>3, <1>4, <1>5, <1>6, <1>7, <1>8, <1>9, <1>10, <1>11, SameWorlds
  DEF Next, WorldStep, Finished, Order!Next, Order!WorldStep

(* World keeps the order of SectionLockstep, with four rounds per step, so *)
(* what SectionLockstepProofs shows of any number of rounds holds of it.   *)
THEOREM Refinement == Spec => KeepsOrder
<1> DEFINE Inv == TypeInv /\ HolderInv /\ RunInv
<1>1. Init => Inv
  BY InitType, InitHolder, InitRun
<1>2. Inv /\ [Next]_vars => Inv'
  BY NextType, NextHolder, NextRun DEF HolderInv
<1>3. Inv /\ Inv' /\ [Next]_vars => [Order!Next]_(Order!vars)
  BY StepOfOrder DEF HolderInv
<1> QED
  BY <1>1, <1>2, <1>3, InitOrder, PTL DEF Spec, KeepsOrder, Order!Spec

----------------------------------------------------------------------------
(* At most two worlds per row *)

\* With more worlds per row getOverlap misses cells (module OverlapZones).
FewWorlds == WorldsPerRow =< 2

\* The direction in which a half of an axis looks over the border.
Outwards(half) == IF half = 0 THEN -1 ELSE 1

----------------------------------------------------------------------------
(* What the worlds reach and see, if there are at most two per row *)

(* Every two worlds are neighbours.                                        *)
LEMMA AllNeighbors ==
    ASSUME FewWorlds
    PROVE  /\ \A c \in Coords : c = 0 \/ (c = 1 /\ WorldsPerRow = 2)
           /\ \A w \in Worlds : Neighbors(w) = Worlds \ {w}
<1>1. \A c \in Coords : c = 0 \/ (c = 1 /\ WorldsPerRow = 2)
  BY WorldsPerRowAssumption DEF FewWorlds, Coords
<1>2. \A c, e \in Coords : Adjacent(c, e)
  BY <1>1 DEF Adjacent, Distance
<1>3. \A w \in Worlds : w[1] \in Coords /\ w[2] \in Coords
  BY DEF Worlds
<1> QED
  BY <1>1, <1>2, <1>3 DEF Neighbors

(* One axis of what a section reaches of the view of another world is one  *)
(* axis of the zone of the two, and there is one only outwards.            *)
LEMMA AxisOfZone ==
    ASSUME WorldsPerRow = 2, NEW c \in Coords, NEW e \in Coords, NEW half \in {0, 1},
           NEW x \in 0 .. Size - 1
    PROVE  /\ Within(Widened(SectionSegment(c, half)), x) /\ Within(OverlapSegment(e), x)
              <=> /\ e - c \in {0, Outwards(half)}
                  /\ Within(Shift(OverlapAxis(c, e - c, half), OverlapSegment(c).lo), x)
           /\ Shift(OverlapAxis(c, e - c, half), OverlapSegment(c).lo)
                = Shift(OverlapAxis(e, c - e, half), OverlapSegment(e).lo)
<1> USE LocalRasterSizeAssumption, OverlapAssumption
    DEF Half, Shift, Within, Segment
<1>1. (c = 0 \/ c = 1) /\ (e = 0 \/ e = 1)
  BY DEF Coords
<1>2. x \in Int /\ 0 =< x /\ x < 2 * LocalRasterSize
  BY DEF Size
<1>3. CASE half = 0
  <2>1. CASE e = c
    BY <1>1, <1>2, <1>3, <2>1 DEF Widened, SectionSegment, OverlapAxis, OverlapOrigin,
       OverlapLength, OverlapSegment, Outwards
  <2>2. CASE e # c
    BY <1>1, <1>2, <1>3, <2>2 DEF Widened, SectionSegment, OverlapAxis, OverlapOrigin,
       OverlapLength, OverlapSegment, Outwards
  <2> QED
    BY <2>1, <2>2
<1>4. CASE half = 1
  <2>1. CASE e = c
    BY <1>1, <1>2, <1>4, <2>1 DEF Widened, SectionSegment, OverlapAxis, OverlapOrigin,
       OverlapLength, OverlapSegment, Outwards
  <2>2. CASE e # c
    BY <1>1, <1>2, <1>4, <2>2 DEF Widened, SectionSegment, OverlapAxis, OverlapOrigin,
       OverlapLength, OverlapSegment, Outwards
  <2> QED
    BY <2>1, <2>2
<1> QED
  BY <1>3, <1>4

(* One axis: sections of two worlds that differ, widened, do not meet.     *)
LEMMA HalvesApart ==
    ASSUME FewWorlds, NEW c \in Coords, NEW e \in Coords, c # e, NEW half \in {0, 1},
           NEW x \in Int,
           Within(Widened(SectionSegment(c, half)), x), Within(Widened(SectionSegment(e, half)), x)
    PROVE  FALSE
<1>1. (c = 0 /\ e = 1) \/ (c = 1 /\ e = 0)
  BY AllNeighbors
<1> QED
  BY <1>1, LocalRasterSizeAssumption, OverlapAssumption DEF Half, Within, Segment, Widened,
     SectionSegment

(* One axis: halves lie in the boundaries of a world and cover them.       *)
LEMMA AxisOfSection ==
    ASSUME NEW c \in Coords, NEW x \in 0 .. Size - 1
    PROVE  /\ \A half \in {0, 1} : Within(Widened(SectionSegment(c, half)), x)
                  => Within(OverlapSegment(c), x)
           /\ \A half \in {0, 1} : Within(SectionSegment(c, half), x)
                  => Within(Widened(SectionSegment(c, half)), x)
           /\ Within(BoundarySegment(c), x) => /\ Within(OverlapSegment(c), x)
                                               /\ \/ Within(SectionSegment(c, 0), x)
                                                  \/ Within(SectionSegment(c, 1), x)
           /\ \A half \in {0, 1}, y \in Int :
                 Within(SectionSegment(c, half), y) /\ Distance(y, x) =< Overlap
                    => Within(Widened(SectionSegment(c, half)), x)
<1> USE LocalRasterSizeAssumption, OverlapAssumption, WorldsPerRowAssumption
    DEF Half, Within, Segment
<1> DEFINE base == c * LocalRasterSize
<1>1. base \in Int /\ x \in Int /\ 0 =< x /\ (c = 0 => base = 0)
      /\ (c = WorldsPerRow - 1 => x < base + LocalRasterSize)
  BY DEF Coords, Size
<1>2. c \in Int
  BY DEF Coords
<1>3. SectionSegment(c, 0) = Segment(base, Half) /\ SectionSegment(c, 1) = Segment(base + Half, Half)
  BY <1>1 DEF SectionSegment
<1>4. BoundarySegment(c) = Segment(base, LocalRasterSize)
  BY DEF BoundarySegment
<1>5. /\ OverlapSegment(c).lo = base - (IF c # 0 THEN Overlap ELSE 0)
      /\ OverlapSegment(c).len = LocalRasterSize + (IF c # 0 THEN Overlap ELSE 0)
                                    + (IF c # WorldsPerRow - 1 THEN Overlap ELSE 0)
  BY DEF OverlapSegment
<1> HIDE DEF base
<1>6. \A half \in {0, 1} : Within(Widened(SectionSegment(c, half)), x)
          => Within(OverlapSegment(c), x)
  BY <1>1, <1>2, <1>3, <1>5 DEF Widened
<1>7. \A half \in {0, 1} : Within(SectionSegment(c, half), x)
          => Within(Widened(SectionSegment(c, half)), x)
  BY <1>1, <1>2, <1>3 DEF Widened
<1>8. Within(BoundarySegment(c), x) => /\ Within(OverlapSegment(c), x)
                                       /\ \/ Within(SectionSegment(c, 0), x)
                                          \/ Within(SectionSegment(c, 1), x)
  BY <1>1, <1>2, <1>3, <1>4, <1>5
<1>9. \A half \in {0, 1}, y \in Int :
         Within(SectionSegment(c, half), y) /\ Distance(y, x) =< Overlap
            => Within(Widened(SectionSegment(c, half)), x)
  BY <1>1, <1>2, <1>3 DEF Widened, Distance
<1> QED
  BY <1>6, <1>7, <1>8, <1>9

(* Cells and worlds, axis by axis.                                         *)
LEMMA AxesOfCell ==
    ASSUME NEW w \in Worlds, NEW p \in Cells
    PROVE  /\ w[1] \in Coords /\ w[2] \in Coords /\ w = <<w[1], w[2]>>
           /\ p[1] \in 0 .. Size - 1 /\ p[2] \in 0 .. Size - 1
           /\ \A s \in Sections :
                /\ HalfX(s) \in {0, 1} /\ HalfY(s) \in {0, 1}
                /\ isInside(section(w, s), p) <=> /\ Within(SectionSegment(w[1], HalfX(s)), p[1])
                                                  /\ Within(SectionSegment(w[2], HalfY(s)), p[2])
                /\ isInside(Reachable(w, s), p) <=> /\ Within(Widened(SectionSegment(w[1], HalfX(s))), p[1])
                                                    /\ Within(Widened(SectionSegment(w[2], HalfY(s))), p[2])
           /\ isInside(boundaries(w), p)
                  <=> Within(BoundarySegment(w[1]), p[1]) /\ Within(BoundarySegment(w[2]), p[2])
           /\ isInside(overlapBoundaries(w), p)
                  <=> Within(OverlapSegment(w[1]), p[1]) /\ Within(OverlapSegment(w[2]), p[2])
BY DEF Worlds, Cells, Sections, HalfX, HalfY, isInside, section, Reachable, boundaries,
   overlapBoundaries, Rectangle

(* Ghosts come from the worlds whose section looks this way.               *)
LEMMA SourcesByAxis ==
    ASSUME FewWorlds, NEW w \in Worlds, NEW v \in Worlds, v # w, NEW s \in Sections
    PROVE  v \in ReceiveFrom(w, s) <=> /\ w[1] - v[1] \in {0, Outwards(HalfX(s))}
                                       /\ w[2] - v[2] \in {0, Outwards(HalfY(s))}
<1>1. /\ w[1] = 0 \/ w[1] = 1
      /\ w[2] = 0 \/ w[2] = 1
      /\ v[1] = 0 \/ v[1] = 1
      /\ v[2] = 0 \/ v[2] = 1
      /\ w = <<w[1], w[2]>> /\ v = <<v[1], v[2]>>
  BY AllNeighbors DEF Worlds
<1>2. v \in Neighbors(w)
  BY AllNeighbors
<1>3. v[1] # w[1] \/ v[2] # w[2]
  BY <1>1
<1>4. s = 0 \/ s = 1 \/ s = 2 \/ s = 3
  BY DEF Sections
<1>5. v \in ReceiveFrom(w, s) <=> needsToReceiveData(w, v, s)
  BY <1>2 DEF ReceiveFrom
<1>6. CASE s = 0
  BY <1>1, <1>3, <1>5, <1>6 DEF needsToReceiveData, Difference, HalfX, HalfY, Outwards
<1>7. CASE s = 1
  BY <1>1, <1>3, <1>5, <1>7 DEF needsToReceiveData, Difference, HalfX, HalfY, Outwards
<1>8. CASE s = 2
  BY <1>1, <1>3, <1>5, <1>8 DEF needsToReceiveData, Difference, HalfX, HalfY, Outwards
<1>9. CASE s = 3
  BY <1>1, <1>3, <1>5, <1>9 DEF needsToReceiveData, Difference, HalfX, HalfY, Outwards
<1> QED
  BY <1>4, <1>6, <1>7, <1>8, <1>9

(* The zone that two worlds exchange in a section is what the section of   *)
(* one reaches of the view of the other.                                   *)
LEMMA ZoneIsReachedAndSeen ==
    ASSUME FewWorlds, NEW w \in Worlds, NEW v \in Worlds, v # w, NEW s \in Sections,
           NEW p \in Cells
    PROVE  /\ (isInside(Reachable(v, s), p) /\ isInside(overlapBoundaries(w), p))
                <=> (v \in ReceiveFrom(w, s) /\ isInside(Zone(w, v, s), p))
           /\ Zone(w, v, s) = Zone(v, w, s)
<1>1. WorldsPerRow = 2
  <2>1. w[1] # v[1] \/ w[2] # v[2]
    BY DEF Worlds
  <2>2. w[1] \in Coords /\ w[2] \in Coords /\ v[1] \in Coords /\ v[2] \in Coords
    BY DEF Worlds
  <2> QED
    BY <2>1, <2>2, AllNeighbors
<1> DEFINE zx == Shift(OverlapAxis(v[1], w[1] - v[1], HalfX(s)), OverlapSegment(v[1]).lo)
           zy == Shift(OverlapAxis(v[2], w[2] - v[2], HalfY(s)), OverlapSegment(v[2]).lo)
<1>2. w[1] \in Coords /\ w[2] \in Coords /\ v[1] \in Coords /\ v[2] \in Coords
      /\ p[1] \in 0 .. Size - 1 /\ p[2] \in 0 .. Size - 1
      /\ HalfX(s) \in {0, 1} /\ HalfY(s) \in {0, 1}
  BY AxesOfCell
<1>3. /\ Within(Widened(SectionSegment(v[1], HalfX(s))), p[1]) /\ Within(OverlapSegment(w[1]), p[1])
              <=> /\ w[1] - v[1] \in {0, Outwards(HalfX(s))} /\ Within(zx, p[1])
      /\ zx = Shift(OverlapAxis(w[1], v[1] - w[1], HalfX(s)), OverlapSegment(w[1]).lo)
  BY <1>1, <1>2, AxisOfZone
<1>4. /\ Within(Widened(SectionSegment(v[2], HalfY(s))), p[2]) /\ Within(OverlapSegment(w[2]), p[2])
              <=> /\ w[2] - v[2] \in {0, Outwards(HalfY(s))} /\ Within(zy, p[2])
      /\ zy = Shift(OverlapAxis(w[2], v[2] - w[2], HalfY(s)), OverlapSegment(w[2]).lo)
  BY <1>1, <1>2, AxisOfZone
<1>5. Zone(v, w, s) = Rectangle(zx, zy)
  BY DEF Zone, Global, getOverlap, Rectangle
<1>6. Zone(w, v, s) = Rectangle(zx, zy)
  <2>1. Zone(w, v, s) = Rectangle(Shift(OverlapAxis(w[1], v[1] - w[1], HalfX(s)), OverlapSegment(w[1]).lo),
                                  Shift(OverlapAxis(w[2], v[2] - w[2], HalfY(s)), OverlapSegment(w[2]).lo))
    BY DEF Zone, Global, getOverlap, Rectangle
  <2> QED
    BY <2>1, <1>3, <1>4
<1> HIDE DEF zx, zy
<1>7. isInside(Rectangle(zx, zy), p) <=> Within(zx, p[1]) /\ Within(zy, p[2])
  BY DEF isInside, Rectangle
<1>8. isInside(Reachable(v, s), p) <=> /\ Within(Widened(SectionSegment(v[1], HalfX(s))), p[1])
                                       /\ Within(Widened(SectionSegment(v[2], HalfY(s))), p[2])
  BY AxesOfCell
<1>9. isInside(overlapBoundaries(w), p)
          <=> Within(OverlapSegment(w[1]), p[1]) /\ Within(OverlapSegment(w[2]), p[2])
  BY AxesOfCell
<1> QED
  BY <1>3, <1>4, <1>5, <1>6, <1>7, <1>8, <1>9, SourcesByAxis

(* The same section of two worlds reaches no cell of both.                 *)
LEMMA ReachApart ==
    ASSUME FewWorlds, NEW w \in Worlds, NEW v \in Worlds, v # w, NEW s \in Sections,
           NEW p \in Cells,
           isInside(Reachable(v, s), p), isInside(Reachable(w, s), p)
    PROVE  FALSE
<1>1. w[1] # v[1] \/ w[2] # v[2]
  BY DEF Worlds
<1>2. w[1] \in Coords /\ w[2] \in Coords /\ v[1] \in Coords /\ v[2] \in Coords
      /\ p[1] \in Int /\ p[2] \in Int
      /\ HalfX(s) \in {0, 1} /\ HalfY(s) \in {0, 1}
  BY AxesOfCell
<1>3. /\ Within(Widened(SectionSegment(v[1], HalfX(s))), p[1])
      /\ Within(Widened(SectionSegment(v[2], HalfY(s))), p[2])
      /\ Within(Widened(SectionSegment(w[1], HalfX(s))), p[1])
      /\ Within(Widened(SectionSegment(w[2], HalfY(s))), p[2])
  BY AxesOfCell
<1> QED
  BY <1>1, <1>2, <1>3, HalvesApart

(* A section reaches itself and what its agents can step on, a world sees  *)
(* what its sections reach and what it owns, and each of its cells is in a *)
(* section.                                                                *)
LEMMA SectionsOfWorld ==
    ASSUME NEW w \in Worlds, NEW p \in Cells
    PROVE  /\ \A s \in Sections : /\ isInside(Reachable(w, s), p) => isInside(overlapBoundaries(w), p)
                                  /\ isInside(section(w, s), p) => isInside(Reachable(w, s), p)
                                  /\ \A q \in Cells : isInside(section(w, s), q) /\ Near(q, p)
                                                        => isInside(Reachable(w, s), p)
           /\ isInside(boundaries(w), p) => /\ isInside(overlapBoundaries(w), p)
                                            /\ \E s \in Sections : isInside(section(w, s), p)
<1>1. /\ w[1] \in Coords /\ w[2] \in Coords
      /\ p[1] \in 0 .. Size - 1 /\ p[2] \in 0 .. Size - 1
  BY AxesOfCell
<1>2. ASSUME NEW s \in Sections
      PROVE  /\ isInside(Reachable(w, s), p) => isInside(overlapBoundaries(w), p)
             /\ isInside(section(w, s), p) => isInside(Reachable(w, s), p)
  <2>1. HalfX(s) \in {0, 1} /\ HalfY(s) \in {0, 1}
    BY AxesOfCell
  <2> QED
    BY <1>1, <2>1, AxesOfCell, AxisOfSection
<1>3. ASSUME NEW s \in Sections, NEW q \in Cells, isInside(section(w, s), q), Near(q, p)
      PROVE  isInside(Reachable(w, s), p)
  <2>1. HalfX(s) \in {0, 1} /\ HalfY(s) \in {0, 1} /\ q[1] \in Int /\ q[2] \in Int
    BY AxesOfCell
  <2>2. /\ Within(SectionSegment(w[1], HalfX(s)), q[1])
        /\ Within(SectionSegment(w[2], HalfY(s)), q[2])
    BY <1>3, AxesOfCell
  <2>3. Distance(q[1], p[1]) =< Overlap /\ Distance(q[2], p[2]) =< Overlap
    BY <1>3 DEF Near
  <2> QED
    BY <1>1, <2>1, <2>2, <2>3, AxesOfCell, AxisOfSection
<1>4. ASSUME isInside(boundaries(w), p)
      PROVE  /\ isInside(overlapBoundaries(w), p)
             /\ \E s \in Sections : isInside(section(w, s), p)
  <2>1. Within(BoundarySegment(w[1]), p[1]) /\ Within(BoundarySegment(w[2]), p[2])
    BY <1>4, AxesOfCell
  <2>2. isInside(overlapBoundaries(w), p)
    BY <1>1, <2>1, AxesOfCell, AxisOfSection
  <2>3. PICK i \in {0, 1} : Within(SectionSegment(w[1], i), p[1])
    BY <1>1, <2>1, AxisOfSection
  <2>4. PICK j \in {0, 1} : Within(SectionSegment(w[2], j), p[2])
    BY <1>1, <2>1, AxisOfSection
  <2>5. \E s \in Sections : HalfX(s) = i /\ HalfY(s) = j
    <3>1. /\ HalfX(0) = 0 /\ HalfY(0) = 0 /\ HalfX(1) = 1 /\ HalfY(1) = 0
          /\ HalfX(2) = 0 /\ HalfY(2) = 1 /\ HalfX(3) = 1 /\ HalfY(3) = 1
      BY DEF HalfX, HalfY
    <3>2. 0 \in Sections /\ 1 \in Sections /\ 2 \in Sections /\ 3 \in Sections
      BY DEF Sections
    <3> QED
      BY <3>1, <3>2
  <2> QED
    BY <2>2, <2>3, <2>4, <2>5, AxesOfCell
<1> QED
  BY <1>2, <1>3, <1>4

(* The world that getIdFromPosition names owns the cell.                   *)
LEMMA OwnerOfCell ==
    ASSUME NEW p \in Cells
    PROVE  getIdFromPosition(p) \in Worlds /\ isInside(boundaries(getIdFromPosition(p)), p)
<1>1. ASSUME NEW y \in 0 .. Size - 1
      PROVE  y \div LocalRasterSize \in Coords /\ Within(BoundarySegment(y \div LocalRasterSize), y)
  <2> DEFINE L == LocalRasterSize
             q == y \div L
  <2>1. L \in Nat \ {0} /\ WorldsPerRow \in Nat \ {0}
    BY LocalRasterSizeAssumption, WorldsPerRowAssumption
  <2>2. y \in Int /\ 0 =< y /\ y < WorldsPerRow * L
    BY <2>1 DEF Size
  <2>3. q \in Int /\ L * q =< y /\ y < L * q + L
    BY <2>1, <2>2
  <2> HIDE DEF q, L
  <2>4. q \in Coords
    <3>1. L * 0 < L * q + L
      BY <2>1, <2>2, <2>3
    <3>2. 0 =< q
      BY <2>1, <2>3, <3>1, TilesInOrder
    <3>3. L * q < WorldsPerRow * L
      BY <2>1, <2>2, <2>3
    <3>4. WorldsPerRow * L = L * (WorldsPerRow - 1) + L
      BY <2>1
    <3>5. q =< WorldsPerRow - 1
      <4>1. WorldsPerRow - 1 \in Int
        BY <2>1
      <4> QED
        BY <2>1, <2>3, <3>3, <3>4, <4>1, TilesInOrder
    <3> QED
      BY <2>1, <2>3, <3>2, <3>5 DEF Coords
  <2>5. q * L = L * q
    BY <2>1, <2>3
  <2>6. Within(BoundarySegment(q), y)
    BY <2>2, <2>3, <2>5 DEF Within, BoundarySegment, Segment, L
  <2> QED
    BY <2>4, <2>6 DEF q, L
<1>2. p[1] \in 0 .. Size - 1 /\ p[2] \in 0 .. Size - 1
  BY DEF Cells
<1> QED
  BY <1>1, <1>2 DEF getIdFromPosition, Worlds, isInside, boundaries, Rectangle

----------------------------------------------------------------------------
(* What worlds know of the agents while a section is run *)

\* Of the agents A, those that exist.
AliveIn(A) == {a \in A : a.exists}

\* The agent with the modifications it has got by now.
Now(a, modified) == [a EXCEPT !.value = modified[a.id]]

\* What agents of section s of w may read or modify, what the view of w holds,
\* and what w owns.
Reaches(w, s, a) == isInside(Reachable(w, s), a.position)
Sees(w, a) == isInside(overlapBoundaries(w), a.position)
Owns(w, a) == isInside(boundaries(w), a.position)

\* The worlds that may get in the way of w.
Others(w) == Worlds \ {w}

\* Another world may have changed what stands there, in section s.
Dirty(w, s, a) == \E v \in Others(w) : Reaches(v, s, a)

\* S: the existing agents when the section began, P: as they are now, X: the
\* worlds that have begun it.
TruthPart(S, P, X, s) ==
    /\ \A b \in S : b \in P \/ \E v \in X : Reaches(v, s, b)
    /\ \A a \in P : a.exists =>
          \E b \in S : /\ a.id = b.id
                       /\ a = b \/ \E v \in X : Reaches(v, s, a) /\ Reaches(v, s, b)

\* C: what world w sees before it has the ghosts of section s.
BehindView(w, s, S, C) ==
    /\ \A a \in C : a \in S \/ Dirty(w, s, a)
    /\ \A b \in S : Sees(w, b) => (b \in C \/ Dirty(w, s, b))

\* C: what it sees in section s.
AtView(w, s, S, P, C) ==
    /\ \A a \in C : Reaches(w, s, a) => a \in P
    /\ \A a \in C : a \in S \/ Reaches(w, s, a)
    /\ \A b \in S : Sees(w, b) => (b \in C \/ Reaches(w, s, b))
    /\ \A a \in P : (a.exists /\ Reaches(w, s, a)) => a \in C

\* From P to Q only what section s of w reaches has changed.
LocalChange(w, s, P, Q) ==
    /\ \A x \in Agent : ~Reaches(w, s, x) => (x \in P <=> x \in Q)
    /\ \A x \in Q : (x.exists /\ Reaches(w, s, x)) =>
            \E y \in P : y.id = x.id /\ y.exists /\ Reaches(w, s, y)

\* The agents A after a turn that makes b of a and modifies those of ids.
AfterTurn(A, a, b, ids) == {Modified(x, ids) : x \in A \ {a}} \cup {b}

(* What two worlds reach is apart.                                         *)
LEMMA Apart ==
    ASSUME FewWorlds, NEW w \in Worlds, NEW v \in Worlds, NEW s \in Sections, NEW a \in Agent,
           Reaches(w, s, a), Reaches(v, s, a)
    PROVE  v = w
BY ReachApart DEF Reaches, Agent

(* What a section reaches, no other world has changed in it.               *)
LEMMA NotDirty ==
    ASSUME FewWorlds, NEW w \in Worlds, NEW s \in Sections, NEW a \in Agent, Reaches(w, s, a)
    PROVE  ~Dirty(w, s, a)
BY Apart DEF Dirty, Others

(* The view of a world holds what its sections reach.                      *)
LEMMA ReachesAreSeen ==
    ASSUME NEW w \in Worlds, NEW a \in Agent
    PROVE  /\ \A s \in Sections : Reaches(w, s, a) => Sees(w, a)
           /\ Owns(w, a) => Sees(w, a)
BY SectionsOfWorld DEF Reaches, Sees, Owns, Agent

(* A turn in a section that has begun is no news for the other worlds.     *)
LEMMA LocalTruth ==
    ASSUME FewWorlds, NEW s \in Sections, NEW X \in SUBSET Worlds, NEW w \in X,
           NEW S \in SUBSET Agent, NEW P \in SUBSET Agent, NEW Q \in SUBSET Agent,
           TruthPart(S, P, X, s), LocalChange(w, s, P, Q)
    PROVE  TruthPart(S, Q, X, s)
<1>1. ASSUME NEW b \in S
      PROVE  b \in Q \/ \E v \in X : Reaches(v, s, b)
  BY DEF TruthPart, LocalChange
<1>2. ASSUME NEW a \in Q, a.exists
      PROVE  \E b \in S : /\ a.id = b.id
                          /\ a = b \/ \E v \in X : Reaches(v, s, a) /\ Reaches(v, s, b)
  <2>1. CASE ~Reaches(w, s, a)
    <3>1. a \in P
      BY <2>1 DEF LocalChange
    <3> QED
      BY <1>2, <3>1 DEF TruthPart
  <2>2. CASE Reaches(w, s, a)
    <3>1. PICK y \in P : y.id = a.id /\ y.exists /\ Reaches(w, s, y)
      BY <1>2, <2>2 DEF LocalChange
    <3>2. PICK b \in S : /\ y.id = b.id
                         /\ y = b \/ \E v \in X : Reaches(v, s, y) /\ Reaches(v, s, b)
      BY <3>1 DEF TruthPart
    <3>3. Reaches(w, s, b)
      BY <3>1, <3>2, Apart
    <3> QED
      BY <2>2, <3>1, <3>2, <3>3
  <2> QED
    BY <2>1, <2>2
<1> QED
  BY <1>1, <1>2 DEF TruthPart

(* What a world changes where it reaches leaves the views of others exact. *)
LEMMA LocalOtherView ==
    ASSUME FewWorlds, NEW s \in Sections, NEW w \in Worlds, NEW v \in Worlds, v # w,
           NEW S \in SUBSET Agent, NEW P \in SUBSET Agent, NEW Q \in SUBSET Agent,
           NEW C \in SUBSET Agent,
           AtView(v, s, S, P, C), LocalChange(w, s, P, Q)
    PROVE  AtView(v, s, S, Q, C)
<1>1. \A a \in C : Reaches(v, s, a) => a \in Q
  BY Apart DEF AtView, LocalChange
<1>2. \A a \in Q : (a.exists /\ Reaches(v, s, a)) => a \in C
  BY Apart DEF AtView, LocalChange
<1> QED
  BY <1>1, <1>2 DEF AtView

(* A view that is changed as the state of the simulation stays exact.      *)
LEMMA LocalOwnView ==
    ASSUME NEW s \in Sections, NEW w \in Worlds,
           NEW S \in SUBSET Agent, NEW P \in SUBSET Agent, NEW Q \in SUBSET Agent,
           NEW C \in SUBSET Agent, NEW D \in SUBSET Agent,
           AtView(w, s, S, P, C),
           \A x \in Agent : ~Reaches(w, s, x) => (x \in C <=> x \in D),
           \A x \in Agent : Reaches(w, s, x) => (x \in D <=> (x \in Q /\ x.exists))
    PROVE  AtView(w, s, S, Q, D)
BY DEF AtView

(* What a world sees in a section has no two copies of an agent.           *)
LEMMA AtViewUnique ==
    ASSUME FewWorlds, NEW s \in Sections, NEW X \in SUBSET Worlds, NEW w \in Worlds,
           NEW S \in SUBSET Agent, NEW P \in SUBSET Agent, NEW C \in SUBSET Agent,
           UniqueIds(S), UniqueIds(P), \A a \in C : a.exists,
           TruthPart(S, P, X, s), AtView(w, s, S, P, C)
    PROVE  UniqueIds(C)
<1>1. ASSUME NEW a \in C, NEW b \in C, a.id = b.id, Reaches(w, s, a), ~Reaches(w, s, b)
      PROVE  FALSE
  <2>1. a \in P /\ a.exists /\ b \in S
    BY <1>1 DEF AtView
  <2>2. PICK c \in S : /\ a.id = c.id
                       /\ a = c \/ \E v \in X : Reaches(v, s, a) /\ Reaches(v, s, c)
    BY <2>1 DEF TruthPart
  <2>3. c = b
    BY <1>1, <2>1, <2>2 DEF UniqueIds
  <2> QED
    BY <1>1, <2>2, <2>3, Apart
<1>2. ASSUME NEW a \in C, NEW b \in C, a.id = b.id
      PROVE  a = b
  <2>1. CASE Reaches(w, s, a) /\ Reaches(w, s, b)
    BY <1>2, <2>1 DEF AtView, UniqueIds
  <2>2. CASE ~Reaches(w, s, a) /\ ~Reaches(w, s, b)
    BY <1>2, <2>2 DEF AtView, UniqueIds
  <2> QED
    BY <1>1, <1>2, <2>1, <2>2
<1> QED
  BY <1>2 DEF UniqueIds

(* A modification changes the value of an agent only.                      *)
LEMMA ModifiedKeeps ==
    ASSUME NEW x \in Agent, NEW ids
    PROVE  /\ Modified(x, ids) \in Agent
           /\ Modified(x, ids).id = x.id
           /\ Modified(x, ids).position = x.position
           /\ Modified(x, ids).exists = x.exists
           /\ Modified(x, ids).turns = x.turns
           /\ x.id \notin ids => Modified(x, ids) = x
BY DEF Modified, Agent

\* A turn of a, which becomes b and modifies the agents of ids, in section s of
\* world w, which sees C.
SeenTurn(w, s, X, S, P, C, a, b, ids) ==
    /\ s \in Sections /\ X \in SUBSET Worlds /\ w \in Worlds
    /\ S \in SUBSET Agent /\ P \in SUBSET Agent /\ C \in SUBSET Agent
    /\ UniqueIds(S) /\ UniqueIds(P) /\ \A x \in C : x.exists
    /\ TruthPart(S, P, X, s) /\ AtView(w, s, S, P, C)
    /\ a \in C /\ b \in Agent /\ Reaches(w, s, a) /\ Reaches(w, s, b) /\ a.id = b.id
    /\ \A i \in ids : \E t \in C : t.id = i /\ Reaches(w, s, t)

(* A turn only changes what the section reaches, in the present state and  *)
(* in what the world sees alike.                                           *)
LEMMA TurnIsLocal ==
    ASSUME FewWorlds, NEW w, NEW s, NEW X, NEW S, NEW P, NEW C, NEW a, NEW b, NEW ids,
           SeenTurn(w, s, X, S, P, C, a, b, ids)
    PROVE  /\ LocalChange(w, s, P, AfterTurn(P, a, b, ids))
           /\ \A x \in Agent : ~Reaches(w, s, x) => (x \in C <=> x \in AfterTurn(C, a, b, ids))
           /\ \A x \in Agent : (Reaches(w, s, x) /\ x.exists) =>
                  (x \in AfterTurn(C, a, b, ids) <=> x \in AfterTurn(P, a, b, ids))
<1> /\ s \in Sections /\ X \in SUBSET Worlds /\ w \in Worlds
    /\ S \in SUBSET Agent /\ P \in SUBSET Agent /\ C \in SUBSET Agent
    /\ UniqueIds(S) /\ UniqueIds(P) /\ \A x \in C : x.exists
    /\ TruthPart(S, P, X, s) /\ AtView(w, s, S, P, C)
    /\ a \in C /\ b \in Agent /\ Reaches(w, s, a) /\ Reaches(w, s, b) /\ a.id = b.id
    /\ \A i \in ids : \E t \in C : t.id = i /\ Reaches(w, s, t)
  BY DEF SeenTurn
<1> DEFINE M(x) == Modified(x, ids)
           PT == AfterTurn(P, a, b, ids)
           CT == AfterTurn(C, a, b, ids)
<1>1. UniqueIds(C)
  BY AtViewUnique
<1>2. a \in P /\ \A x \in C : x \in Agent
  BY DEF AtView
<1>3. \A x \in Agent : /\ M(x) \in Agent /\ M(x).id = x.id /\ (M(x).exists <=> x.exists)
                       /\ (Reaches(w, s, M(x)) <=> Reaches(w, s, x))
                       /\ x.id \notin ids => M(x) = x
  BY ModifiedKeeps DEF Reaches
<1>4. /\ \A x : x \in PT <=> (x = b \/ \E y \in P : y # a /\ x = M(y))
      /\ \A x : x \in CT <=> (x = b \/ \E y \in C : y # a /\ x = M(y))
  BY DEF AfterTurn
<1> HIDE DEF M, PT, CT
<1>5. ASSUME NEW x \in P, ~Reaches(w, s, x)
      PROVE  M(x) = x /\ x # a
  <2>1. x.id \notin ids
    <3>1. SUFFICES ASSUME x.id \in ids PROVE FALSE
      OBVIOUS
    <3>2. PICK t \in C : t.id = x.id /\ Reaches(w, s, t)
      BY <3>1
    <3>3. t \in P
      BY <3>2 DEF AtView
    <3> QED
      BY <1>5, <3>2, <3>3 DEF UniqueIds
  <2> QED
    BY <1>3, <1>5, <2>1
<1>6. ASSUME NEW x \in C, ~Reaches(w, s, x)
      PROVE  M(x) = x /\ x # a
  <2>1. x.id \notin ids
    BY <1>1, <1>6 DEF UniqueIds
  <2> QED
    BY <1>2, <1>3, <1>6, <2>1
<1>7. ASSUME NEW x \in Agent, ~Reaches(w, s, x)
      PROVE  (x \in P <=> x \in PT) /\ (x \in C <=> x \in CT)
  <2>1. x # b
    BY <1>7
  <2>2. x \in PT => x \in P
    <3> SUFFICES ASSUME x \in PT PROVE x \in P
      OBVIOUS
    <3>1. PICK y \in P : y # a /\ x = M(y)
      BY <1>4, <2>1
    <3> QED
      BY <1>3, <1>5, <1>7, <3>1
  <2>3. x \in CT => x \in C
    <3> SUFFICES ASSUME x \in CT PROVE x \in C
      OBVIOUS
    <3>1. PICK y \in C : y # a /\ x = M(y)
      BY <1>4, <2>1
    <3> QED
      BY <1>2, <1>3, <1>6, <1>7, <3>1
  <2>4. x \in P => x \in PT
    BY <1>4, <1>5, <1>7
  <2>5. x \in C => x \in CT
    BY <1>4, <1>6, <1>7
  <2> QED
    BY <2>2, <2>3, <2>4, <2>5
<1>8. ASSUME NEW x \in PT, x.exists, Reaches(w, s, x)
      PROVE  \E y \in P : y.id = x.id /\ y.exists /\ Reaches(w, s, y)
  BY <1>2, <1>3, <1>4, <1>8
<1>9. ASSUME NEW x \in Agent, Reaches(w, s, x), x.exists
      PROVE  x \in CT <=> x \in PT
  <2>1. \A y \in C : Reaches(w, s, y) => y \in P
    BY DEF AtView
  <2>2. \A y \in P : (y.exists /\ Reaches(w, s, y)) => y \in C
    BY DEF AtView
  <2> QED
    BY <1>2, <1>3, <1>4, <1>9, <2>1, <2>2
<1> QED
  BY <1>7, <1>8, <1>9 DEF LocalChange, PT, CT

----------------------------------------------------------------------------
(* Sections as epochs *)

(***************************************************************************)
(* The worlds are never in two sections at once but for the exchange that  *)
(* ends one.  Epoch e is the section This(e) of step e \div 4, together    *)
(* with the end of the section before: some worlds still receive its       *)
(* agents and ghosts (Behind), others have all and run the new one (At).   *)
(* S is the population that exists when the new section begins.  Who is At *)
(* sees S, or where its section reaches, the agents as they are; who is    *)
(* Behind sees S but for what others may have changed; the lists of ghosts *)
(* on their way tell the rest.                                             *)
(***************************************************************************)

\* The agents as they are, wherever they are held.
Present == {Now(a, touched) : a \in Held}

\* The agents that exist, as world w has them.
View(w) == AliveIn(Visible(w))

\* The section of epoch e, and the one before.
This(e) == e % 4
Last(e) == (e + 3) % 4

\* World w is still busy with the section before epoch e.
Behind(w, e) ==
    \/ pc[w] \in {"receiveAgents", "sendGhosts", "receiveGhosts"} /\ e = 4 * step[w] + sectionIndex[w] + 1
    \/ pc[w] \in {"initSendGhosts", "initReceiveGhosts"} /\ sectionIndex[w] = 3 /\ e = 0

\* World w has all ghosts of that section.
At(w, e) ==
    \/ pc[w] \in {"stepSection", "execute", "receiveAgents", "finished"} /\ e = 4 * step[w] + sectionIndex[w]
    \/ pc[w] = "removeAgents" /\ e = 4 * step[w] + 4

\* The worlds whose agents have had turns in the section of epoch e.
Active(e) == {w \in Worlds : At(w, e) /\ pc[w] \in {"execute", "receiveAgents"}}

\* Which messages a world has sent, and waits for, in an epoch.
Awaits(w, e) == Behind(w, e) /\ pc[w] = "receiveAgents"
HasSent(w, e) == At(w, e) /\ pc[w] = "receiveAgents"
HasSentGhosts(w, e) == At(w, e) \/ pc[w] \in {"receiveGhosts", "initReceiveGhosts"}

\* Two copies of an agent, one of which may lack modifications.
AlikeButValue(a, b) ==
    a.id = b.id /\ a.position = b.position /\ a.exists = b.exists /\ a.turns = b.turns

\* Agents that did not have their turn in the section yet: they may have been
\* modified from other worlds.
OwnedPart(S, A) ==
    /\ \A a \in A : a.exists => \E b \in S : AlikeButValue(a, b)
    /\ \A a \in A : ~a.exists => \A b \in S : b.id # a.id

\* What v sends to w.
Slice(v, w, s, S) == {b \in S : Reaches(v, s, b) /\ Sees(w, b)}

\* No world is further than the section that others have finished or begun.
Phases(e) == \A w \in Worlds : Behind(w, e) \/ At(w, e)

\* What has changed since the section began was reached by worlds that began it.
Truth(e, S) == TruthPart(S, Present, Active(e), This(e))

\* What worlds see, before and after they have the ghosts of the section before.
ViewsBehind(e, S) == \A w \in Worlds : Behind(w, e) => BehindView(w, Last(e), S, View(w))

ViewsAt(e, S) == \A w \in Worlds : At(w, e) => AtView(w, This(e), S, Present, View(w))

\* Who did not begin the section has the agents as they were.
Owned(e, S) == \A w \in Worlds : w \notin Active(e) => OwnedPart(S, agents[w])

\* A list from a neighbour of this section waits behind that of the section before.
AgentCount(e) ==
    \A c \in Channels :
        Len(agentChannel[c]) = (IF Awaits(c[2], e) THEN 1 ELSE 0) + (IF HasSent(c[1], e) THEN 1 ELSE 0)

\* The list of the section before, and the list of this section.
LastLetter(e, S, c, m) ==
    \A a \in m : /\ Reaches(c[1], Last(e), a)
                 /\ \E b \in S : AlikeButValue(a, b)
                 /\ a.turns = step[c[2]] + 1
ThisLetter(e, c, m) == \A a \in m : Reaches(c[1], This(e), a) /\ a.turns = step[c[1]] + 1

\* Which agents are on their way.
AgentLetters(e, S) ==
    \A c \in Channels : \A k \in DOMAIN agentChannel[c] :
        /\ (Awaits(c[2], e) /\ k = 1) => LastLetter(e, S, c, agentChannel[c][k])
        /\ ~(Awaits(c[2], e) /\ k = 1) => ThisLetter(e, c, agentChannel[c][k])

\* A list of ghosts is sent and not yet received.
GhostDue(c, e) == Behind(c[2], e) /\ HasSentGhosts(c[1], e) /\ c[1] \in ReceiveFrom(c[2], Last(e))

\* It tells what its sender may have changed, and there is no other list.
GhostLetters(e, S) ==
    \A c \in Channels :
        /\ GhostDue(c, e) => ghostChannel[c] = << Slice(c[1], c[2], Last(e), S) >>
        /\ ~GhostDue(c, e) => ghostChannel[c] = << >>

\* Who has all ghosts has those of each of its senders.
GhostOrder(e) ==
    \A w, v \in Worlds : (At(w, e) /\ v \in ReceiveFrom(w, Last(e))) => HasSentGhosts(v, e)

\* The worlds in epoch e, S being the existing agents when its section began.
EpochInv(e, S) ==
    /\ Phases(e) /\ Truth(e, S)
    /\ ViewsBehind(e, S) /\ ViewsAt(e, S) /\ Owned(e, S)
    /\ AgentCount(e) /\ AgentLetters(e, S)
    /\ GhostLetters(e, S) /\ GhostOrder(e)

\* S may be the population at the start of a section.
Population(S) == S \in SUBSET Agent /\ UniqueIds(S) /\ \A b \in S : b.exists

----------------------------------------------------------------------------
(* The life of agents within a step *)

\* A world owns agents within its boundaries, and those that died are listed.
OwnedLife == \A w \in Worlds : \A a \in agents[w] : /\ a.exists <=> a.id \notin removedAgents[w]
                                                    /\ a.exists => Owns(w, a)

\* Ghosts exist and are where the world sees them.
GhostLife == \A w \in Worlds : \A a \in overlapAgents[w] : a.exists /\ Sees(w, a)

\* An agent to be sent had its turn in this section.
LeavingLife == \A w \in Worlds : \A a \in Leaving(w) :
    Reaches(w, sectionIndex[w], a) /\ a.turns = step[w] + 1

\* An agent is sent to the world that owns its cell.
SentLife == \A c \in Channels : \A k \in DOMAIN agentChannel[c] : \A a \in agentChannel[c][k] :
                a.exists /\ Owns(c[2], a)

\* Who exists, and where.
LifeInv == OwnedLife /\ GhostLife /\ LeavingLife /\ SentLife

\* The turns of an agent count the steps, and the one of this step.
TurnsOwned == \A w \in Worlds : \A a \in agents[w] :
                  a.turns = step[w] + (IF a.id \in executedAgents[w] THEN 1 ELSE 0)

\* All agents in section j of the world had their turn.
Swept(w, j) == \A a \in agents[w] : (a.exists /\ isInside(section(w, j), a.position))
    => a.id \in executedAgents[w]

\* World w is done with section j in this step.
PastSection(w, j) ==
    \/ j < sectionIndex[w]
    \/ j = sectionIndex[w] /\ pc[w] \in {"receiveAgents", "sendGhosts", "receiveGhosts"}
    \/ pc[w] = "removeAgents"

\* In a section that is done nobody is left who has not been executed.
SweptInv == \A w \in Worlds : ~InRun(w) => \A j \in Sections : PastSection(w, j) => Swept(w, j)

\* Who stands in the section and was not executed is on the list.
ChosenInv == \A w \in Worlds : pc[w] = "execute" =>
                \A a \in agents[w] : (inSection(w, a) /\ ~hasBeenExecuted(w, a))
                    => a.id \in agentsToExecute[w]

\* Who has been executed in this step.
TurnsInv == TurnsOwned /\ SweptInv /\ ChosenInv

\* No ghost is held twice.
GhostsOnce == \A w \in Worlds : UniqueIds(overlapAgents[w])

\* What other parts of this module prove, before and after a step.
Base == TypeInv /\ HolderInv /\ RemovedInv /\ RunInv /\ NoException

----------------------------------------------------------------------------
(* Epochs, the agents as they are, and channels *)

(* The sections of an epoch and of the one before.                         *)
LEMMA EpochSections ==
    ASSUME NEW e \in Nat
    PROVE  /\ This(e) \in Sections /\ Last(e) \in Sections
           /\ Last(e + 1) = This(e) /\ This(e) = nextSection(Last(e))
           /\ This(e) = 0 <=> Last(e) = 3
BY DEF This, Last, Sections, nextSection

(* The place of a world in its program and the epoch tell its section.     *)
LEMMA SectionOfEpoch ==
    ASSUME TypeInv, NEW w \in Worlds, NEW e \in Nat
    PROVE  /\ Behind(w, e) => sectionIndex[w] = Last(e)
           /\ (At(w, e) /\ pc[w] \in {"stepSection", "execute", "receiveAgents", "finished"})
                  => sectionIndex[w] = This(e)
           /\ (At(w, e) /\ pc[w] = "removeAgents") => This(e) = 0
           /\ ~(At(w, e) /\ Behind(w, e))
           /\ At(w, e) => /\ ~InRun(w)
                          /\ pc[w] \in {"stepSection", "execute", "receiveAgents", "removeAgents", "finished"}
           /\ Behind(w, e) => pc[w] \in {"receiveAgents", "sendGhosts", "receiveGhosts", "initSendGhosts", "initReceiveGhosts"}
<1>1. step[w] \in Nat /\ sectionIndex[w] \in 0 .. 3
  BY NumStepsAssumption DEF TypeInv, TypeOK, Sections
<1>2. \A k \in Nat, i \in 0 .. 3 : /\ (4 * k + i) % 4 = i
                                   /\ ((4 * k + i + 1) + 3) % 4 = i
                                   /\ (4 * k + 4) % 4 = 0
  OBVIOUS
<1>3. (0 + 3) % 4 = 3
  OBVIOUS
<1>4. Behind(w, e) => sectionIndex[w] = Last(e)
  BY <1>1, <1>2, <1>3 DEF Behind, Last
<1>5. ASSUME At(w, e), pc[w] \in {"stepSection", "execute", "receiveAgents", "finished"}
      PROVE  sectionIndex[w] = This(e)
  <2>1. e = 4 * step[w] + sectionIndex[w]
    BY <1>5 DEF At
  <2> QED
    BY <1>1, <1>2, <2>1 DEF This
<1>6. (At(w, e) /\ pc[w] = "removeAgents") => This(e) = 0
  BY <1>1, <1>2 DEF At, This
<1>7. ~(At(w, e) /\ Behind(w, e))
  BY <1>1 DEF At, Behind
<1>8. At(w, e) => /\ ~InRun(w)
                  /\ pc[w] \in {"stepSection", "execute", "receiveAgents", "removeAgents", "finished"}
  BY DEF At, InRun
<1>9. Behind(w, e) => pc[w] \in {"receiveAgents", "sendGhosts", "receiveGhosts", "initSendGhosts", "initReceiveGhosts"}
  BY DEF Behind
<1> QED
  BY <1>4, <1>5, <1>6, <1>7, <1>8, <1>9

(* Where an agent is held: by its owner, about to leave, or on its way.    *)
LEMMA HeldCases ==
    ASSUME NEW h
    PROVE  h \in Held <=> \/ \E w \in Worlds : h \in agents[w]
                          \/ \E w \in Worlds : h \in Leaving(w)
                          \/ \E c \in Channels : \E k \in DOMAIN agentChannel[c] :
                                 h \in agentChannel[c][k]
BY DEF Held

(* The same after a step.                                                  *)
LEMMA HeldCasesNext ==
    ASSUME NEW h
    PROVE  h \in Held' <=> \/ \E w \in Worlds : h \in agents'[w]
                           \/ \E w \in Worlds : h \in Leaving(w)'
                           \/ \E c \in Channels : \E k \in DOMAIN agentChannel'[c] :
                                  h \in agentChannel'[c][k]
BY DEF Held

(* The agents that are held are agents.                                    *)
LEMMA HeldType == TypeInv => Held \subseteq Agent
<1> SUFFICES ASSUME TypeInv, NEW h \in Held PROVE h \in Agent
  OBVIOUS
<1>1. ASSUME NEW c \in Channels, NEW k \in DOMAIN agentChannel[c], h \in agentChannel[c][k]
      PROVE  h \in Agent
  <2>1. agentChannel[c] \in Seq(SUBSET Agent)
    BY DEF TypeInv, TypeOK
  <2> QED
    BY <1>1, <2>1
<1>2. \A w \in Worlds : agents[w] \subseteq Agent /\ Leaving(w) \subseteq Agent
  BY DEF Leaving, TypeInv, TypeOK
<1> QED
  BY <1>1, <1>2, HeldCases

(* Now changes the value only, and agents are what their fields are.       *)
LEMMA NowKeeps ==
    ASSUME NEW a \in Agent, NEW t \in [Agents -> Nat]
    PROVE  /\ Now(a, t) \in Agent
           /\ Now(a, t).id = a.id /\ Now(a, t).position = a.position
           /\ Now(a, t).exists = a.exists /\ Now(a, t).turns = a.turns
           /\ Now(a, t).value = t[a.id]
           /\ \A b \in Agent : AlikeButValue(a, b) => Now(a, t) = Now(b, t)
           /\ AlikeButValue(a, Now(a, t))
           /\ \A b \in Agent : (AlikeButValue(a, b) /\ a.value = b.value) => a = b
BY DEF Now, Agent, AlikeButValue

(* The present agents: one of each identifier, the held ones brought up to *)
(* date.                                                                   *)
LEMMA PresentFacts ==
    ASSUME TypeInv, HolderInv
    PROVE  /\ Present \in SUBSET Agent
           /\ UniqueIds(Held) /\ UniqueIds(Present)
           /\ \A x \in Present : \E h \in Held : x = Now(h, touched) /\ h \in Agent /\ h.id = x.id
           /\ \A h \in Held : Now(h, touched) \in Present
<1>1. Held \subseteq Agent /\ touched \in [Agents -> Nat]
  BY HeldType DEF TypeInv, TypeOK
<1>2. UniqueIds(Held)
  BY HeldOnce DEF OneHolder, UniqueIds
<1>3. \A h \in Held : Now(h, touched) \in Agent /\ Now(h, touched).id = h.id
  BY <1>1, NowKeeps
<1>4. \A x \in Present : \E h \in Held : x = Now(h, touched)
  BY DEF Present
<1>5. \A h \in Held : Now(h, touched) \in Present
  BY DEF Present
<1>6. \A x \in Present : \E h \in Held : x = Now(h, touched) /\ h \in Agent /\ h.id = x.id
  BY <1>1, <1>3, <1>4
<1>7. Present \in SUBSET Agent
  BY <1>3, <1>4
<1>8. UniqueIds(Present)
  BY <1>2, <1>6 DEF UniqueIds
<1> QED
  BY <1>2, <1>5, <1>6, <1>7, <1>8

(* A channel goes from a world to a neighbour.                             *)
LEMMA ChannelEnds ==
    ASSUME FewWorlds, NEW c \in Channels
    PROVE  /\ c[1] \in Worlds /\ c[2] \in Worlds /\ c = <<c[1], c[2]>> /\ c[1] # c[2]
           /\ c[1] \in Neighbors(c[2])
<1>1. c[1] \in Worlds /\ c[2] \in Worlds /\ c = <<c[1], c[2]>> /\ c[2] \in Neighbors(c[1])
  BY DEF Channels
<1> QED
  BY <1>1, AllNeighbors

(* With two worlds per row, all the others are neighbours.                 *)
LEMMA OtherWorlds ==
    ASSUME FewWorlds, NEW w \in Worlds, NEW v \in Worlds, v # w
    PROVE  /\ v \in Neighbors(w) /\ <<v, w>> \in Channels
BY AllNeighbors, ChannelBetween

(* When all worlds have sent their agents a new epoch begins: what they    *)
(* have changed is the news of the section that is over.                   *)
LEMMA EpochBegins ==
    ASSUME FewWorlds, TypeInv, HolderInv, SentLife, NEW e \in Nat, NEW S, Population(S),
           EpochInv(e, S),
           \A w \in Worlds : HasSent(w, e)
    PROVE  EpochInv(e + 1, AliveIn(Present)) /\ Population(AliveIn(Present))
<1> DEFINE T == AliveIn(Present)
<1>1. /\ Present \in SUBSET Agent
      /\ UniqueIds(Held) /\ UniqueIds(Present)
      /\ \A x \in Present : \E h \in Held : x = Now(h, touched) /\ h \in Agent /\ h.id = x.id
      /\ \A h \in Held : Now(h, touched) \in Present
  BY PresentFacts
<1>2. \A x : x \in T <=> x \in Present /\ x.exists
  BY DEF AliveIn
<1>3. \A h \in Held : h \in Agent /\ AlikeButValue(h, Now(h, touched))
  BY HeldType, NowKeeps DEF TypeInv, TypeOK
<1> HIDE DEF T
<1>4. Population(T)
  BY <1>1, <1>2 DEF Population, UniqueIds
<1>5. \A w \in Worlds : /\ At(w, e) /\ ~Behind(w, e) /\ w \in Active(e)
                        /\ Behind(w, e + 1) /\ ~At(w, e + 1) /\ Awaits(w, e + 1)
                        /\ pc[w] = "receiveAgents"
  <2> SUFFICES ASSUME NEW w \in Worlds
               PROVE  /\ At(w, e) /\ ~Behind(w, e) /\ w \in Active(e)
                      /\ Behind(w, e + 1) /\ ~At(w, e + 1) /\ Awaits(w, e + 1)
                      /\ pc[w] = "receiveAgents"
    OBVIOUS
  <2>1. At(w, e) /\ pc[w] = "receiveAgents"
    BY DEF HasSent
  <2>2. e = 4 * step[w] + sectionIndex[w]
    BY <2>1 DEF At
  <2>3. Behind(w, e + 1)
    BY <2>1, <2>2 DEF Behind
  <2>4. ~At(w, e + 1) /\ ~Behind(w, e)
    BY <2>1, <2>3, SectionOfEpoch
  <2> QED
    BY <2>1, <2>3, <2>4 DEF Active, Awaits
<1>6. This(e) \in Sections /\ Last(e + 1) = This(e)
  BY EpochSections
<1>7. Active(e + 1) = {}
  BY <1>5 DEF Active
<1>8. Truth(e + 1, T)
  BY <1>2, <1>7 DEF Truth, TruthPart
<1>9. TruthPart(S, Present, Active(e), This(e))
  BY DEF EpochInv, Truth
<1>10. ViewsBehind(e + 1, T)
  <2> SUFFICES ASSUME NEW w \in Worlds PROVE BehindView(w, This(e), T, View(w))
    BY <1>6 DEF ViewsBehind
  <2>1. AtView(w, This(e), S, Present, View(w))
    BY <1>5 DEF EpochInv, ViewsAt
  <2>2. \A x \in View(w) : x.exists
    BY DEF View, AliveIn
  <2>3. \A v \in Active(e) : v \in Worlds
    BY DEF Active
  <2>4. ASSUME NEW a \in View(w)
        PROVE  a \in T \/ Dirty(w, This(e), a)
    <3>1. CASE Reaches(w, This(e), a)
      BY <1>2, <2>1, <2>2, <3>1 DEF AtView
    <3>2. CASE ~Reaches(w, This(e), a)
      <4>1. a \in S
        BY <2>1, <3>2 DEF AtView
      <4>2. a \in Present \/ \E v \in Active(e) : Reaches(v, This(e), a)
        BY <1>9, <4>1 DEF TruthPart
      <4> QED
        BY <1>2, <2>2, <2>3, <3>2, <4>2 DEF Dirty, Others
    <3> QED
      BY <3>1, <3>2
  <2>5. ASSUME NEW b \in T, Sees(w, b)
        PROVE  b \in View(w) \/ Dirty(w, This(e), b)
    <3>0. b \in Present /\ b.exists
      BY <1>2
    <3>1. CASE Reaches(w, This(e), b)
      BY <2>1, <3>0, <3>1 DEF AtView
    <3>2. CASE ~Reaches(w, This(e), b)
      <4>1. b \in S \/ \E v \in Active(e) : Reaches(v, This(e), b)
        BY <1>9, <3>0 DEF TruthPart
      <4>2. b \in S => b \in View(w)
        BY <2>1, <2>5, <3>2 DEF AtView
      <4> QED
        BY <2>3, <3>2, <4>1, <4>2 DEF Dirty, Others
    <3> QED
      BY <3>1, <3>2
  <2> QED
    BY <2>4, <2>5 DEF BehindView
<1>11. Owned(e + 1, T)
  <2> SUFFICES ASSUME NEW w \in Worlds PROVE OwnedPart(T, agents[w])
    BY DEF Owned
  <2>1. \A a \in agents[w] : a \in Held
    BY HeldCases
  <2>2. ASSUME NEW a \in agents[w], a.exists
        PROVE  \E b \in T : AlikeButValue(a, b)
    <3>1. Now(a, touched) \in Present /\ AlikeButValue(a, Now(a, touched))
      BY <1>1, <1>3, <2>1
    <3>2. Now(a, touched).exists
      BY <2>2, <3>1 DEF AlikeButValue
    <3> QED
      BY <1>2, <3>1, <3>2
  <2>3. ASSUME NEW a \in agents[w], ~a.exists, NEW b \in T
        PROVE  b.id # a.id
    <3>1. b \in Present /\ b.exists
      BY <1>2
    <3>2. PICK h \in Held : b = Now(h, touched) /\ h.id = b.id
      BY <1>1, <3>1
    <3>3. h.exists
      BY <1>3, <3>1, <3>2 DEF AlikeButValue
    <3> QED
      BY <1>1, <2>1, <2>3, <3>2, <3>3 DEF UniqueIds
  <2> QED
    BY <2>2, <2>3 DEF OwnedPart
<1>12. \A c \in Channels : c[1] \in Worlds /\ c[2] \in Worlds
  BY DEF Channels
<1>13. AgentCount(e + 1)
  <2>1. ASSUME NEW c \in Channels
        PROVE  Len(agentChannel[c]) = (IF Awaits(c[2], e + 1) THEN 1 ELSE 0) + (IF HasSent(c[1], e + 1) THEN 1 ELSE 0)
    <3>1. Len(agentChannel[c]) = 0 + 1
      BY <1>5, <1>12 DEF EpochInv, AgentCount, Awaits
    <3>2. Awaits(c[2], e + 1) /\ ~HasSent(c[1], e + 1)
      BY <1>5, <1>12 DEF HasSent
    <3> QED
      BY <3>1, <3>2
  <2> QED
    BY <2>1 DEF AgentCount
<1>14. AgentLetters(e + 1, T)
  <2> SUFFICES ASSUME NEW c \in Channels, NEW k \in DOMAIN agentChannel[c]
               PROVE  k = 1 /\ Awaits(c[2], e + 1) /\ LastLetter(e + 1, T, c, agentChannel[c][k])
    BY DEF AgentLetters
  <2>1. Awaits(c[2], e + 1) /\ ~Awaits(c[2], e)
    BY <1>5, <1>12 DEF Awaits
  <2>2. k = 1
    <3>1. Len(agentChannel[c]) = 0 + 1
      BY <1>5, <1>12 DEF EpochInv, AgentCount, Awaits
    <3>2. agentChannel[c] \in Seq(SUBSET Agent)
      BY DEF TypeInv, TypeOK
    <3> QED
      BY <3>1, <3>2
  <2>3. ThisLetter(e, c, agentChannel[c][k])
    BY <2>1 DEF EpochInv, AgentLetters
  <2>4. step[c[1]] = step[c[2]]
    <3>1. /\ step[c[1]] \in Nat /\ step[c[2]] \in Nat
          /\ sectionIndex[c[1]] \in 0 .. 3 /\ sectionIndex[c[2]] \in 0 .. 3
      BY <1>12, NumStepsAssumption DEF TypeInv, TypeOK, Sections
    <3>2. \A v \in Worlds : e = 4 * step[v] + sectionIndex[v]
      BY <1>5 DEF At
    <3>3. 4 * step[c[1]] + sectionIndex[c[1]] = 4 * step[c[2]] + sectionIndex[c[2]]
      BY <1>12, <3>2
    <3> QED
      BY <3>1, <3>3
  <2>5. ASSUME NEW a \in agentChannel[c][k]
        PROVE  /\ Reaches(c[1], Last(e + 1), a)
               /\ \E b \in T : AlikeButValue(a, b)
               /\ a.turns = step[c[2]] + 1
    <3>1. Reaches(c[1], Last(e + 1), a) /\ a.turns = step[c[2]] + 1
      BY <1>6, <2>3, <2>4 DEF ThisLetter
    <3>2. a \in Held
      BY HeldCases
    <3>3. a.exists
      BY DEF SentLife
    <3>4. Now(a, touched) \in Present /\ AlikeButValue(a, Now(a, touched))
      BY <1>1, <1>3, <3>2
    <3>5. Now(a, touched).exists
      BY <3>3, <3>4 DEF AlikeButValue
    <3> QED
      BY <1>2, <3>1, <3>4, <3>5
  <2> QED
    BY <2>1, <2>2, <2>5 DEF LastLetter
<1>15. GhostLetters(e + 1, T)
  <2>1. \A c \in Channels : ~GhostDue(c, e + 1) /\ ~GhostDue(c, e)
    BY <1>5, <1>12 DEF GhostDue, HasSentGhosts
  <2> QED
    BY <2>1 DEF EpochInv, GhostLetters
<1>16. Phases(e + 1) /\ GhostOrder(e + 1) /\ ViewsAt(e + 1, T)
  BY <1>5 DEF Phases, GhostOrder, ViewsAt
<1> QED
  BY <1>4, <1>8, <1>10, <1>11, <1>13, <1>14, <1>15, <1>16 DEF EpochInv, T

(* The epoch of a world depends on its place in the program.               *)
LEMMA SameControl ==
    ASSUME NEW e, NEW v \in Worlds, pc'[v] = pc[v], step'[v] = step[v],
           sectionIndex'[v] = sectionIndex[v]
    PROVE  /\ Behind(v, e)' <=> Behind(v, e)
           /\ At(v, e)' <=> At(v, e)
           /\ HasSent(v, e)' <=> HasSent(v, e)
           /\ Awaits(v, e)' <=> Awaits(v, e)
           /\ HasSentGhosts(v, e)' <=> HasSentGhosts(v, e)
           /\ v \in Active(e)' <=> v \in Active(e)
BY DEF Behind, At, HasSent, Awaits, HasSentGhosts, Active

(* A step that sends and receives no agents, and ends no phase.            *)
LEMMA SameAgentMail ==
    ASSUME NEW e, NEW S, AgentCount(e), AgentLetters(e, S), agentChannel' = agentChannel,
           step' = step,
           \A v \in Worlds :
               (HasSent(v, e)' <=> HasSent(v, e)) /\ (Awaits(v, e)' <=> Awaits(v, e))
    PROVE  AgentCount(e)' /\ AgentLetters(e, S)'
<1>1. \A c \in Channels : c[1] \in Worlds /\ c[2] \in Worlds
  BY DEF Channels
<1> QED
  BY <1>1 DEF AgentCount, AgentLetters, LastLetter, ThisLetter

(* A step that sends and receives no ghosts, and ends no phase.            *)
LEMMA SameGhostMail ==
    ASSUME NEW e, NEW S, GhostLetters(e, S), GhostOrder(e), ghostChannel' = ghostChannel,
           \A v \in Worlds : /\ Behind(v, e)' <=> Behind(v, e)
                             /\ At(v, e)' <=> At(v, e)
                             /\ HasSentGhosts(v, e)' <=> HasSentGhosts(v, e)
    PROVE  GhostLetters(e, S)' /\ GhostOrder(e)'
<1>1. \A c \in Channels : c[1] \in Worlds /\ c[2] \in Worlds
  BY DEF Channels
<1>2. \A c \in Channels : GhostDue(c, e)' <=> GhostDue(c, e)
  BY <1>1 DEF GhostDue
<1>3. GhostLetters(e, S)'
  BY <1>2 DEF GhostLetters
<1>4. GhostOrder(e)'
  BY DEF GhostOrder
<1> QED
  BY <1>3, <1>4

(* A world that begins the section has changed nothing yet.                *)
LEMMA TruthWidens ==
    ASSUME NEW S, NEW P, NEW X, NEW Y, NEW s, X \subseteq Y, TruthPart(S, P, X, s)
    PROVE  TruthPart(S, P, Y, s)
BY DEF TruthPart

(* stepSection: the world begins the section of the epoch.                 *)
LEMMA stepSectionEpoch ==
    ASSUME TypeInv, NEW e \in Nat, NEW S, EpochInv(e, S), NEW w \in Worlds, stepSection(w)
    PROVE  EpochInv(e, S)'
<1>1. /\ agents' = agents /\ overlapAgents' = overlapAgents /\ agentChannel' = agentChannel
      /\ ghostChannel' = ghostChannel /\ step' = step /\ sectionIndex' = sectionIndex
      /\ touched' = touched /\ agentsToSend' = agentsToSend
      /\ pc[w] = "stepSection" /\ pc'[w] = "execute"
      /\ \A v \in Worlds : v # w => pc'[v] = pc[v]
  BY DEF stepSection, Goto, TypeInv, TypeOK
<1>2. At(w, e)
  BY <1>1 DEF EpochInv, Phases, Behind
<1>3. At(w, e)' /\ ~Behind(w, e) /\ ~Behind(w, e)'
  BY <1>1, <1>2 DEF At, Behind
<1>4. \A v \in Worlds : /\ Behind(v, e)' <=> Behind(v, e)
                        /\ At(v, e)' <=> At(v, e)
                        /\ HasSent(v, e)' <=> HasSent(v, e)
                        /\ Awaits(v, e)' <=> Awaits(v, e)
                        /\ HasSentGhosts(v, e)' <=> HasSentGhosts(v, e)
                        /\ v \in Active(e) => v \in Active(e)'
  <2> SUFFICES ASSUME NEW v \in Worlds
               PROVE  /\ Behind(v, e)' <=> Behind(v, e)
                      /\ At(v, e)' <=> At(v, e)
                      /\ HasSent(v, e)' <=> HasSent(v, e)
                      /\ Awaits(v, e)' <=> Awaits(v, e)
                      /\ HasSentGhosts(v, e)' <=> HasSentGhosts(v, e)
                      /\ v \in Active(e) => v \in Active(e)'
    OBVIOUS
  <2>1. CASE v = w
    BY <1>1, <1>2, <1>3, <2>1 DEF HasSent, Awaits, HasSentGhosts, Active
  <2>2. CASE v # w
    BY <1>1, <2>2, SameControl
  <2> QED
    BY <2>1, <2>2
<1>5. Held' = Held /\ Present' = Present
  BY <1>1 DEF Held, Leaving, Present
<1>6. \A v \in Worlds : View(v)' = View(v)
  BY <1>1 DEF View, Visible
<1>7. Truth(e, S)'
  <2>1. TruthPart(S, Present, Active(e), This(e)) /\ Active(e) \subseteq Active(e)'
    BY <1>4 DEF EpochInv, Truth, Active
  <2> QED
    BY <1>5, <2>1, TruthWidens DEF Truth
<1>8. ViewsBehind(e, S)' /\ ViewsAt(e, S)'
  BY <1>4, <1>5, <1>6 DEF EpochInv, ViewsBehind, ViewsAt
<1>9. Owned(e, S)'
  BY <1>1, <1>4 DEF EpochInv, Owned
<1>10. Phases(e)'
  BY <1>4 DEF EpochInv, Phases
<1>11. AgentCount(e)' /\ AgentLetters(e, S)'
  BY <1>1, <1>4, SameAgentMail DEF EpochInv
<1>12. GhostLetters(e, S)' /\ GhostOrder(e)'
  BY <1>1, <1>4, SameGhostMail DEF EpochInv
<1> QED
  BY <1>7, <1>8, <1>9, <1>10, <1>11, <1>12 DEF EpochInv

(* sendAgents: what left the world is on its way.                          *)
LEMMA sendAgentsHeld ==
    ASSUME TypeInv, HolderInv, NEW w \in Worlds, sendAgents(w)
    PROVE  /\ Held' = Held
           /\ agentChannel' = Put(agentChannel, w, AgentLists(w))
           /\ pc'[w] = "receiveAgents"
<1>1. \A a \in Leaving(w) : getIdFromPosition(a.position) \in Neighbors(w)
  BY DEF HolderInv, LeavingInv
<1>2. /\ agentChannel' = Put(agentChannel, w, AgentLists(w))
      /\ pc' = [pc EXCEPT ![w] = "receiveAgents"]
      /\ agents' = agents /\ overlapAgents' = overlapAgents
      /\ agentsToSend' = [agentsToSend EXCEPT ![w] = {}]
  BY <1>1 DEF sendAgents, Goto
<1>3. \A v \in Worlds : Leaving(v)' = IF v = w THEN {} ELSE Leaving(v)
  BY <1>2 DEF Leaving, TypeInv, TypeOK
<1>4. ASSUME NEW h \in Held
      PROVE  h \in Held'
  <2>1. CASE \E v \in Worlds : h \in agents[v]
    BY <1>2, <2>1, HeldCasesNext
  <2>2. CASE \E v \in Worlds : h \in Leaving(v)
    <3>1. PICK v \in Worlds : h \in Leaving(v)
      BY <2>2
    <3>2. CASE v # w
      BY <1>3, <3>1, <3>2, HeldCasesNext
    <3>3. CASE v = w
      <4> DEFINE u == getIdFromPosition(h.position)
                 c == <<w, u>>
      <4>1. u \in Neighbors(w)
        BY <1>1, <3>1, <3>3
      <4>2. c \in Channels /\ c[1] = w /\ c[2] = u
        BY <4>1, ChannelBetween
      <4>3. h \in BoundFor(w, u)
        BY <3>1, <3>3 DEF BoundFor
      <4> HIDE DEF c, u
      <4>4. /\ Len(agentChannel[c]) + 1 \in DOMAIN agentChannel'[c]
            /\ agentChannel'[c][Len(agentChannel[c]) + 1] = BoundFor(w, u)
        BY <1>2, <4>2, PutLists
      <4> QED
        BY <4>2, <4>3, <4>4, HeldCasesNext
    <3> QED
      BY <3>2, <3>3
  <2>3. CASE \E c \in Channels : \E k \in DOMAIN agentChannel[c] : h \in agentChannel[c][k]
    <3>1. PICK c \in Channels : \E k \in DOMAIN agentChannel[c] : h \in agentChannel[c][k]
      BY <2>3
    <3>2. PICK k \in DOMAIN agentChannel[c] : h \in agentChannel[c][k]
      BY <3>1
    <3>3. k \in DOMAIN agentChannel'[c] /\ agentChannel'[c][k] = agentChannel[c][k]
      BY <1>2, PutLists
    <3> QED
      BY <3>2, <3>3, HeldCasesNext
  <2> QED
    BY <2>1, <2>2, <2>3, HeldCases
<1>5. ASSUME NEW h \in Held'
      PROVE  h \in Held
  <2>1. CASE \E v \in Worlds : h \in agents'[v]
    BY <1>2, <2>1, HeldCases
  <2>2. CASE \E v \in Worlds : h \in Leaving(v)'
    <3>1. PICK v \in Worlds : h \in Leaving(v)'
      BY <2>2
    <3>2. h \in Leaving(v)
      BY <1>3, <3>1
    <3> QED
      BY <3>2, HeldCases
  <2>3. CASE \E c \in Channels : \E k \in DOMAIN agentChannel'[c] : h \in agentChannel'[c][k]
    <3>1. PICK c \in Channels : \E k \in DOMAIN agentChannel'[c] : h \in agentChannel'[c][k]
      BY <2>3
    <3>2. PICK k \in DOMAIN agentChannel'[c] : h \in agentChannel'[c][k]
      BY <3>1
    <3>3. (k \in DOMAIN agentChannel[c] /\ h \in agentChannel[c][k]) \/ h \in BoundFor(w, c[2])
      BY <1>2, <3>2, PutLists
    <3>4. CASE h \in BoundFor(w, c[2])
      BY <3>4, HeldCases DEF BoundFor
    <3> QED
      BY <3>3, <3>4, HeldCases
  <2> QED
    BY <2>1, <2>2, <2>3, HeldCasesNext
<1>6. pc'[w] = "receiveAgents"
  BY <1>2 DEF TypeInv, TypeOK
<1> QED
  BY <1>2, <1>4, <1>5, <1>6

(* sendAgents keeps the invariant of the epoch.                            *)
LEMMA sendAgentsEpoch ==
    ASSUME FewWorlds, TypeInv, HolderInv, LeavingLife, NEW e \in Nat, NEW S, EpochInv(e, S),
           NEW w \in Worlds, sendAgents(w)
    PROVE  EpochInv(e, S)'
<1>0. Held' = Held /\ agentChannel' = Put(agentChannel, w, AgentLists(w)) /\ pc'[w] = "receiveAgents"
  BY sendAgentsHeld
<1>1. /\ agents' = agents /\ overlapAgents' = overlapAgents
      /\ ghostChannel' = ghostChannel /\ step' = step /\ sectionIndex' = sectionIndex
      /\ touched' = touched
      /\ pc[w] = "execute"
      /\ \A v \in Worlds : v # w => pc'[v] = pc[v]
  BY DEF sendAgents, Goto, TypeInv, TypeOK
<1>2. At(w, e)
  BY <1>1 DEF EpochInv, Phases, Behind
<1>3. At(w, e)' /\ ~Behind(w, e) /\ ~Behind(w, e)' /\ HasSent(w, e)' /\ ~HasSent(w, e)
  <2>1. At(w, e)' /\ ~Behind(w, e)
    BY <1>0, <1>1, <1>2 DEF At, Behind
  <2>2. step[w] \in Nat /\ sectionIndex[w] \in 0 .. 3
    BY NumStepsAssumption DEF TypeInv, TypeOK, Sections
  <2>3. ~Behind(w, e)'
    BY <1>0, <1>1, <1>2, <2>2 DEF At, Behind
  <2> QED
    BY <1>0, <1>1, <2>1, <2>3 DEF HasSent
<1>4. \A v \in Worlds : /\ Behind(v, e)' <=> Behind(v, e)
                        /\ At(v, e)' <=> At(v, e)
                        /\ v # w => (HasSent(v, e)' <=> HasSent(v, e))
                        /\ Awaits(v, e)' <=> Awaits(v, e)
                        /\ HasSentGhosts(v, e)' <=> HasSentGhosts(v, e)
                        /\ v \in Active(e)' <=> v \in Active(e)
  <2> SUFFICES ASSUME NEW v \in Worlds
               PROVE  /\ Behind(v, e)' <=> Behind(v, e)
                      /\ At(v, e)' <=> At(v, e)
                      /\ v # w => (HasSent(v, e)' <=> HasSent(v, e))
                      /\ Awaits(v, e)' <=> Awaits(v, e)
                      /\ HasSentGhosts(v, e)' <=> HasSentGhosts(v, e)
                      /\ v \in Active(e)' <=> v \in Active(e)
    OBVIOUS
  <2>1. CASE v = w
    BY <1>0, <1>1, <1>2, <1>3, <2>1 DEF Awaits, HasSentGhosts, Active
  <2>2. CASE v # w
    BY <1>1, <2>2, SameControl
  <2> QED
    BY <2>1, <2>2
<1>5. Present' = Present
  BY <1>0, <1>1 DEF Present
<1>6. \A v \in Worlds : View(v)' = View(v)
  BY <1>1 DEF View, Visible
<1>7. Truth(e, S)'
  <2>1. TruthPart(S, Present, Active(e), This(e)) /\ Active(e)' = Active(e)
    BY <1>4 DEF EpochInv, Truth, Active
  <2> QED
    BY <1>5, <2>1 DEF Truth
<1>8. ViewsBehind(e, S)' /\ ViewsAt(e, S)'
  BY <1>4, <1>5, <1>6 DEF EpochInv, ViewsBehind, ViewsAt
<1>9. Owned(e, S)'
  BY <1>1, <1>4 DEF EpochInv, Owned
<1>10. Phases(e)'
  BY <1>4 DEF EpochInv, Phases
<1>11. \A c \in Channels : c[1] \in Worlds /\ c[2] \in Worlds
  BY DEF Channels
<1>12. AgentCount(e)'
  <2>1. ASSUME NEW c \in Channels
        PROVE  Len(agentChannel'[c]) = (IF Awaits(c[2], e)' THEN 1 ELSE 0) + (IF HasSent(c[1], e)' THEN 1 ELSE 0)
    <3>1. Len(agentChannel[c]) = (IF Awaits(c[2], e) THEN 1 ELSE 0) + (IF HasSent(c[1], e) THEN 1 ELSE 0)
      BY DEF EpochInv, AgentCount
    <3>2. Len(agentChannel'[c]) = IF c[1] = w THEN Len(agentChannel[c]) + 1 ELSE Len(agentChannel[c])
      BY <1>0, SendAgentsLengths
    <3>3. CASE c[1] = w
      BY <1>3, <1>4, <1>11, <3>1, <3>2, <3>3
    <3>4. CASE c[1] # w
      BY <1>4, <1>11, <3>1, <3>2, <3>4
    <3> QED
      BY <3>3, <3>4
  <2> QED
    BY <2>1 DEF AgentCount
<1>13. AgentLetters(e, S)'
  <2>1. ASSUME NEW c \in Channels, NEW k \in DOMAIN agentChannel'[c]
        PROVE  /\ (Awaits(c[2], e)' /\ k = 1) => LastLetter(e, S, c, agentChannel'[c][k])
               /\ ~(Awaits(c[2], e)' /\ k = 1) => ThisLetter(e, c, agentChannel'[c][k])
    <3>1. CASE k \in DOMAIN agentChannel[c] /\ agentChannel'[c][k] = agentChannel[c][k]
      BY <1>4, <1>11, <3>1 DEF EpochInv, AgentLetters
    <3>2. CASE c[1] = w /\ k = Len(agentChannel[c]) + 1 /\ agentChannel'[c][k] = BoundFor(w, c[2])
      <4>1. ~(Awaits(c[2], e)' /\ k = 1)
        <5>1. Len(agentChannel[c]) = (IF Awaits(c[2], e) THEN 1 ELSE 0) + (IF HasSent(c[1], e) THEN 1 ELSE 0)
          BY DEF EpochInv, AgentCount
        <5> QED
          BY <1>4, <1>11, <3>2, <5>1
      <4>2. sectionIndex[w] = This(e)
        BY <1>1, <1>2, SectionOfEpoch
      <4>3. ThisLetter(e, c, BoundFor(w, c[2]))
        BY <3>2, <4>2 DEF ThisLetter, BoundFor, LeavingLife
      <4> QED
        BY <3>2, <4>1, <4>3
    <3>3. \/ k \in DOMAIN agentChannel[c] /\ agentChannel'[c][k] = agentChannel[c][k]
          \/ c[1] = w /\ k = Len(agentChannel[c]) + 1 /\ agentChannel'[c][k] = BoundFor(w, c[2])
      BY <1>0, PutLists
    <3> QED
      BY <3>1, <3>2, <3>3
  <2>2. \A c, m : (LastLetter(e, S, c, m) => LastLetter(e, S, c, m)') /\ (ThisLetter(e, c, m) => ThisLetter(e, c, m)')
    BY <1>1 DEF LastLetter, ThisLetter
  <2> QED
    BY <1>1, <2>1 DEF AgentLetters, LastLetter, ThisLetter
<1>14. GhostLetters(e, S)' /\ GhostOrder(e)'
  BY <1>1, <1>4, SameGhostMail DEF EpochInv
<1> QED
  BY <1>7, <1>8, <1>9, <1>10, <1>12, <1>13, <1>14 DEF EpochInv

(* removeAgents: only dead agents are gone.                                *)
LEMMA removeAgentsPresent ==
    ASSUME TypeInv, HolderInv, OwnedLife, NoException', NEW w \in Worlds, removeAgents(w)
    PROVE  /\ Present' \subseteq Present
           /\ \A x \in Present : x.exists => x \in Present'
           /\ \A v \in Worlds : View(v)' = View(v)
           /\ \A v \in Worlds : agents'[v] \subseteq agents[v]
           /\ pc'[w] \in {"finished", "stepSection"}
           /\ \A a \in agents'[w] : a.exists
<1>1. /\ agents' = [agents EXCEPT ![w] = Without(@, removedAgents[w])]
      /\ pc'[w] \in {"finished", "stepSection"}
  BY DEF removeAgents, Goto, NoException, TypeInv, TypeOK
<1>2. /\ agentsToSend' = agentsToSend /\ agentChannel' = agentChannel /\ overlapAgents' = overlapAgents
      /\ touched' = touched
  BY DEF removeAgents
<1>3. \A v \in Worlds : Leaving(v)' = Leaving(v)
  BY <1>2 DEF Leaving
<1>4. \A v \in Worlds : agents'[v] = IF v = w THEN {a \in agents[w] : a.exists} ELSE agents[v]
  <2>1. Without(agents[w], removedAgents[w]) = {a \in agents[w] : a.exists}
    BY DEF Without, OwnedLife
  <2> QED
    BY <1>1, <2>1 DEF TypeInv, TypeOK
<1>11. /\ \A v \in Worlds : agents'[v] \subseteq agents[v]
       /\ \A v \in Worlds : \A a \in agents[v] : a.exists => a \in agents'[v]
       /\ \A a \in agents'[w] : a.exists
  BY <1>4
<1>5. ASSUME NEW h \in Held'
      PROVE  h \in Held
  <2>1. \/ \E v \in Worlds : h \in agents'[v]
        \/ \E v \in Worlds : h \in Leaving(v)'
        \/ \E c \in Channels : \E k \in DOMAIN agentChannel'[c] : h \in agentChannel'[c][k]
    BY HeldCasesNext
  <2> QED
    BY <1>2, <1>3, <1>11, <2>1, HeldCases
<1>6. ASSUME NEW h \in Held, h.exists
      PROVE  h \in Held'
  <2>1. \/ \E v \in Worlds : h \in agents[v]
        \/ \E v \in Worlds : h \in Leaving(v)
        \/ \E c \in Channels : \E k \in DOMAIN agentChannel[c] : h \in agentChannel[c][k]
    BY HeldCases
  <2> QED
    BY <1>2, <1>3, <1>6, <1>11, <2>1, HeldCasesNext
<1>7. Present' = {Now(a, touched) : a \in Held'}
  BY <1>2 DEF Present
<1>8. Present' \subseteq Present
  BY <1>5, <1>7 DEF Present
<1>9. ASSUME NEW x \in Present, x.exists
      PROVE  x \in Present'
  <2>1. PICK h \in Held : x = Now(h, touched)
    BY DEF Present
  <2>2. h.exists
    BY <1>9, <2>1, NowKeeps, HeldType DEF TypeInv, TypeOK
  <2> QED
    BY <1>6, <1>7, <2>1, <2>2
<1>10. \A v \in Worlds : View(v)' = View(v)
  BY <1>2, <1>4 DEF View, Visible, AliveIn
<1> QED
  BY <1>1, <1>8, <1>9, <1>10, <1>11

(* removeAgents keeps the invariant of the epoch.                          *)
LEMMA removeAgentsEpoch ==
    ASSUME FewWorlds, TypeInv, HolderInv, RunInv, OwnedLife, NoException', NEW e \in Nat, NEW S,
           Population(S),
           EpochInv(e, S), NEW w \in Worlds, removeAgents(w)
    PROVE  EpochInv(e, S)'
<1>0. /\ Present' \subseteq Present
      /\ \A x \in Present : x.exists => x \in Present'
      /\ \A v \in Worlds : View(v)' = View(v)
      /\ \A v \in Worlds : agents'[v] \subseteq agents[v]
      /\ pc'[w] \in {"finished", "stepSection"}
  BY removeAgentsPresent
<1>1. /\ ghostChannel' = ghostChannel /\ agentChannel' = agentChannel /\ sectionIndex' = sectionIndex
      /\ pc[w] = "removeAgents" /\ step'[w] = step[w] + 1
      /\ \A v \in Worlds : v # w => pc'[v] = pc[v] /\ step'[v] = step[v]
  BY DEF removeAgents, Goto, TypeInv, TypeOK
<1>2. At(w, e)
  BY <1>1 DEF EpochInv, Phases, Behind
<1>3. At(w, e)' /\ ~Behind(w, e) /\ ~Behind(w, e)'
  <2>1. step[w] \in Nat
    BY NumStepsAssumption DEF TypeInv, TypeOK
  <2>2. sectionIndex[w] = 0
    BY <1>1 DEF RunInv, StepEnds
  <2> QED
    BY <1>0, <1>1, <1>2, <2>1, <2>2 DEF At, Behind
<1>4. \A v \in Worlds : /\ Behind(v, e)' <=> Behind(v, e)
                        /\ At(v, e)' <=> At(v, e)
                        /\ HasSent(v, e)' <=> HasSent(v, e)
                        /\ Awaits(v, e)' <=> Awaits(v, e)
                        /\ HasSentGhosts(v, e)' <=> HasSentGhosts(v, e)
                        /\ v \in Active(e)' <=> v \in Active(e)
                        /\ v = w => ~HasSent(v, e) /\ ~Awaits(v, e)
  <2> SUFFICES ASSUME NEW v \in Worlds
               PROVE  /\ Behind(v, e)' <=> Behind(v, e)
                      /\ At(v, e)' <=> At(v, e)
                      /\ HasSent(v, e)' <=> HasSent(v, e)
                      /\ Awaits(v, e)' <=> Awaits(v, e)
                      /\ HasSentGhosts(v, e)' <=> HasSentGhosts(v, e)
                      /\ v \in Active(e)' <=> v \in Active(e)
                      /\ v = w => ~HasSent(v, e) /\ ~Awaits(v, e)
    OBVIOUS
  <2>1. CASE v = w
    BY <1>0, <1>1, <1>2, <1>3, <2>1 DEF Awaits, HasSentGhosts, Active, HasSent
  <2>2. CASE v # w
    BY <1>1, <2>2, SameControl
  <2> QED
    BY <2>1, <2>2
<1>5. Truth(e, S)'
  <2>1. TruthPart(S, Present, Active(e), This(e)) /\ Active(e)' = Active(e)
    BY <1>4 DEF EpochInv, Truth, Active
  <2>2. \A b \in S : b.exists
    BY DEF Population
  <2>3. TruthPart(S, Present', Active(e), This(e))
    BY <1>0, <2>1, <2>2 DEF TruthPart
  <2> QED
    BY <2>1, <2>3 DEF Truth
<1>6. ViewsBehind(e, S)'
  BY <1>0, <1>4 DEF EpochInv, ViewsBehind
<1>7. ViewsAt(e, S)'
  <2> SUFFICES ASSUME NEW v \in Worlds, At(v, e)
               PROVE  AtView(v, This(e), S, Present', View(v))
    BY <1>0, <1>4 DEF ViewsAt
  <2>1. AtView(v, This(e), S, Present, View(v))
    BY DEF EpochInv, ViewsAt
  <2>2. \A x \in View(v) : x.exists
    BY DEF View, AliveIn
  <2> QED
    BY <1>0, <2>1, <2>2 DEF AtView
<1>8. Owned(e, S)'
  BY <1>0, <1>4 DEF EpochInv, Owned, OwnedPart
<1>9. Phases(e)'
  BY <1>4 DEF EpochInv, Phases
<1>10. \A c \in Channels : c[1] \in Worlds /\ c[2] \in Worlds
  BY DEF Channels
<1>11. AgentCount(e)'
  BY <1>1, <1>4, <1>10 DEF EpochInv, AgentCount
<1>12. AgentLetters(e, S)'
  <2>1. ASSUME NEW c \in Channels, NEW k \in DOMAIN agentChannel[c]
        PROVE  /\ (Awaits(c[2], e) /\ k = 1) => (LastLetter(e, S, c, agentChannel[c][k]))'
               /\ ~(Awaits(c[2], e) /\ k = 1) => (ThisLetter(e, c, agentChannel[c][k]))'
    <3>1. ASSUME Awaits(c[2], e), k = 1
          PROVE  (LastLetter(e, S, c, agentChannel[c][k]))'
      <4>1. c[2] # w /\ step'[c[2]] = step[c[2]]
        BY <1>1, <1>4, <1>10, <3>1
      <4> QED
        BY <1>1, <3>1, <4>1 DEF EpochInv, AgentLetters, LastLetter
    <3>2. ASSUME ~(Awaits(c[2], e) /\ k = 1)
          PROVE  (ThisLetter(e, c, agentChannel[c][k]))'
      <4>1. c[1] # w
        <5>1. SUFFICES ASSUME c[1] = w PROVE FALSE
          OBVIOUS
        <5>2. Len(agentChannel[c]) = (IF Awaits(c[2], e) THEN 1 ELSE 0) + (IF HasSent(c[1], e) THEN 1 ELSE 0)
          BY DEF EpochInv, AgentCount
        <5>3. ~HasSent(c[1], e)
          BY <1>4, <5>1
        <5>4. agentChannel[c] \in Seq(SUBSET Agent)
          BY DEF TypeInv, TypeOK
        <5>5. CASE Awaits(c[2], e)
          BY <3>2, <5>2, <5>3, <5>4, <5>5
        <5>6. CASE ~Awaits(c[2], e)
          BY <5>2, <5>3, <5>4, <5>6
        <5> QED
          BY <5>5, <5>6
      <4>2. step'[c[1]] = step[c[1]]
        BY <1>1, <1>10, <4>1
      <4> QED
        BY <1>1, <3>2, <4>2 DEF EpochInv, AgentLetters, ThisLetter
    <3> QED
      BY <3>1, <3>2
  <2> QED
    BY <1>1, <1>4, <1>10, <2>1 DEF AgentLetters
<1>13. GhostLetters(e, S)' /\ GhostOrder(e)'
  BY <1>1, <1>4, SameGhostMail DEF EpochInv
<1> QED
  BY <1>5, <1>6, <1>7, <1>8, <1>9, <1>11, <1>12, <1>13 DEF EpochInv

(* receiveAgents takes the first list of each neighbour.                   *)
LEMMA IncomingCases ==
    ASSUME TypeInv, NEW w \in Worlds, Arrived(agentChannel, w, Neighbors(w))
    PROVE  /\ \A v \in Neighbors(w) : /\ <<v, w>> \in Channels
                                      /\ 1 \in DOMAIN agentChannel[<<v, w>>]
           /\ \A h : h \in Incoming(w) <=> \E v \in Neighbors(w) : h \in agentChannel[<<v, w>>][1]
           /\ Incoming(w) \subseteq Agent
<1>1. ASSUME NEW v \in Neighbors(w)
      PROVE  /\ <<v, w>> \in Channels
             /\ 1 \in DOMAIN agentChannel[<<v, w>>]
             /\ Head(agentChannel[<<v, w>>]) = agentChannel[<<v, w>>][1]
             /\ agentChannel[<<v, w>>][1] \subseteq Agent
  <2>1. <<v, w>> \in Channels
    BY ChannelBetween
  <2>2. agentChannel[<<v, w>>] \in Seq(SUBSET Agent) /\ agentChannel[<<v, w>>] # << >>
    BY <2>1 DEF TypeInv, TypeOK, Arrived
  <2> QED
    BY <2>1, <2>2
<1>2. \A h : h \in Incoming(w) <=> \E v \in Neighbors(w) : h \in agentChannel[<<v, w>>][1]
  BY <1>1 DEF Incoming
<1>3. Incoming(w) \subseteq Agent
  BY <1>1, <1>2
<1> QED
  BY <1>1, <1>2, <1>3

(* receiveAgents: what was on its way is owned.                            *)
LEMMA receiveAgentsHeld ==
    ASSUME TypeInv, HolderInv, NEW w \in Worlds, receiveAgents(w)
    PROVE  Held' = Held
<1>1. /\ Arrived(agentChannel, w, Neighbors(w))
      /\ agentChannel' = Take(agentChannel, w, Neighbors(w))
      /\ \A v \in Worlds : agents'[v] = IF v = w THEN agents[w] \cup Incoming(w) ELSE agents[v]
      /\ \A v \in Worlds : v # w => overlapAgents'[v] = overlapAgents[v]
      /\ agentsToSend' = agentsToSend
      /\ pc[w] = "receiveAgents"
  BY DEF receiveAgents, TypeInv, TypeOK
<1>2. agentsToSend[w] = {}
  BY <1>1 DEF HolderInv, LeavingInv
<1>3. \A v \in Worlds : Leaving(v)' = Leaving(v)
  <2>1. Leaving(w) = {} /\ Leaving(w)' = {}
    BY <1>1, <1>2 DEF Leaving
  <2>2. \A v \in Worlds : v # w => Leaving(v)' = Leaving(v)
    BY <1>1 DEF Leaving
  <2> QED
    BY <2>1, <2>2
<1>4. /\ \A v \in Neighbors(w) : /\ <<v, w>> \in Channels
                                 /\ 1 \in DOMAIN agentChannel[<<v, w>>]
      /\ \A h : h \in Incoming(w) <=> \E v \in Neighbors(w) : h \in agentChannel[<<v, w>>][1]
  BY <1>1, IncomingCases
<1>5. ASSUME NEW h \in Held'
      PROVE  h \in Held
  <2>1. CASE \E v \in Worlds : h \in agents'[v]
    <3>1. (\E v \in Worlds : h \in agents[v]) \/ h \in Incoming(w)
      BY <1>1, <2>1
    <3>2. h \in Incoming(w) => \E c \in Channels : \E k \in DOMAIN agentChannel[c] : h \in agentChannel[c][k]
      BY <1>4
    <3> QED
      BY <3>1, <3>2, HeldCases
  <2>2. CASE \E v \in Worlds : h \in Leaving(v)'
    BY <1>3, <2>2, HeldCases
  <2>3. CASE \E c \in Channels : \E k \in DOMAIN agentChannel'[c] : h \in agentChannel'[c][k]
    <3>1. PICK c \in Channels : \E k \in DOMAIN agentChannel'[c] : h \in agentChannel'[c][k]
      BY <2>3
    <3>2. PICK k \in DOMAIN agentChannel'[c] : h \in agentChannel'[c][k]
      BY <3>1
    <3>3. \E i \in DOMAIN agentChannel[c] : h \in agentChannel[c][i]
      BY <1>1, <3>2, TakeLists
    <3> QED
      BY <3>3, HeldCases
  <2> QED
    BY <2>1, <2>2, <2>3, HeldCasesNext
<1>6. ASSUME NEW h \in Held
      PROVE  h \in Held'
  <2>1. CASE \E v \in Worlds : h \in agents[v]
    BY <1>1, <2>1, HeldCasesNext
  <2>2. CASE \E v \in Worlds : h \in Leaving(v)
    BY <1>3, <2>2, HeldCasesNext
  <2>3. CASE \E c \in Channels : \E k \in DOMAIN agentChannel[c] : h \in agentChannel[c][k]
    <3>1. PICK c \in Channels : \E k \in DOMAIN agentChannel[c] : h \in agentChannel[c][k]
      BY <2>3
    <3>2. PICK k \in DOMAIN agentChannel[c] : h \in agentChannel[c][k]
      BY <3>1
    <3>3. CASE c[2] # w
      <4>1. agentChannel'[c] = agentChannel[c]
        BY <1>1, <3>3, TakeLists
      <4> QED
        BY <3>2, <4>1, HeldCasesNext
    <3>4. CASE c[2] = w /\ k = 1
      <4>1. c[1] \in Neighbors(w) /\ c = <<c[1], w>>
        <5>1. c = <<c[1], c[2]>> /\ c[1] \in Worlds /\ c[2] \in Neighbors(c[1])
          BY DEF Channels
        <5>2. c[1] \in Neighbors(w)
          BY <3>4, <5>1 DEF Neighbors, Adjacent, Distance, Worlds, Coords
        <5> QED
          BY <3>4, <5>1, <5>2
      <4>2. h \in Incoming(w)
        BY <1>4, <3>2, <3>4, <4>1
      <4> QED
        BY <1>1, <4>2, HeldCasesNext
    <3>5. CASE c[2] = w /\ k # 1
      <4>1. /\ agentChannel[c] \in Seq(SUBSET Agent) /\ agentChannel'[c] \in Seq(SUBSET Agent)
            /\ Len(agentChannel'[c]) = Len(agentChannel[c]) - 1
        <5>1. agentChannel'[c] \in Seq(SUBSET Agent)
          BY receiveAgentsType DEF TypeInv, TypeOK
        <5>2. Len(agentChannel'[c]) = Len(agentChannel[c]) - 1
          BY <1>1, <3>5, ReceiveAgentsLengths
        <5> QED
          BY <5>1, <5>2 DEF TypeInv, TypeOK
      <4>2. k - 1 \in DOMAIN agentChannel'[c] /\ k - 1 + 1 = k
        BY <3>2, <3>5, <4>1
      <4>3. agentChannel'[c][k - 1] = agentChannel[c][k - 1 + 1]
        BY <1>1, <3>5, <4>2, TakeLists
      <4>4. h \in agentChannel'[c][k - 1]
        BY <3>2, <4>2, <4>3
      <4> QED
        BY <4>2, <4>4, HeldCasesNext
    <3> QED
      BY <3>3, <3>4, <3>5
  <2> QED
    BY <2>1, <2>2, <2>3, HeldCases
<1> QED
  BY <1>5, <1>6

(* receiveAgents, when the epoch has begun: the agents that arrive are     *)
(* those that walked out of other worlds in the section before.            *)
LEMMA receiveAgentsEpoch ==
    ASSUME FewWorlds, TypeInv, HolderInv, SentLife, NEW e \in Nat, NEW S, Population(S),
           EpochInv(e, S),
           NEW w \in Worlds, Behind(w, e), receiveAgents(w)
    PROVE  EpochInv(e, S)'
<1>1. /\ Arrived(agentChannel, w, Neighbors(w))
      /\ agentChannel' = Take(agentChannel, w, Neighbors(w))
      /\ \A v \in Worlds : agents'[v] = IF v = w THEN agents[w] \cup Incoming(w) ELSE agents[v]
      /\ \A v \in Worlds : overlapAgents'[v] = IF v = w THEN Without(overlapAgents[w], Ids(Incoming(w)))
                                               ELSE overlapAgents[v]
      /\ pc[w] = "receiveAgents" /\ pc'[w] = "sendGhosts"
      /\ \A v \in Worlds : v # w => pc'[v] = pc[v]
      /\ ghostChannel' = ghostChannel /\ step' = step /\ sectionIndex' = sectionIndex
      /\ touched' = touched
  BY DEF receiveAgents, Goto, TypeInv, TypeOK
<1>2. Awaits(w, e) /\ ~At(w, e)
  BY <1>1, SectionOfEpoch DEF Awaits
<1>3. Behind(w, e)' /\ ~At(w, e)' /\ ~Awaits(w, e)' /\ ~HasSent(w, e) /\ ~HasSent(w, e)'
  BY <1>1, <1>2 DEF Behind, At, Awaits, HasSent
<1>4. \A v \in Worlds : /\ Behind(v, e)' <=> Behind(v, e)
                        /\ At(v, e)' <=> At(v, e)
                        /\ HasSent(v, e)' <=> HasSent(v, e)
                        /\ v # w => (Awaits(v, e)' <=> Awaits(v, e))
                        /\ HasSentGhosts(v, e)' <=> HasSentGhosts(v, e)
                        /\ v \in Active(e)' <=> v \in Active(e)
  <2> SUFFICES ASSUME NEW v \in Worlds
               PROVE  /\ Behind(v, e)' <=> Behind(v, e)
                      /\ At(v, e)' <=> At(v, e)
                      /\ HasSent(v, e)' <=> HasSent(v, e)
                      /\ v # w => (Awaits(v, e)' <=> Awaits(v, e))
                      /\ HasSentGhosts(v, e)' <=> HasSentGhosts(v, e)
                      /\ v \in Active(e)' <=> v \in Active(e)
    OBVIOUS
  <2>1. CASE v = w
    BY <1>1, <1>2, <1>3, <2>1 DEF HasSentGhosts, Active
  <2>2. CASE v # w
    BY <1>1, <2>2, SameControl
  <2> QED
    BY <2>1, <2>2
<1>5. Present' = Present
  BY <1>1, receiveAgentsHeld DEF Present
<1>6. \A v \in Worlds : v # w => View(v)' = View(v)
  BY <1>1 DEF View, Visible
<1>7. \A c \in Channels : c[1] \in Worlds /\ c[2] \in Worlds
  BY DEF Channels
\* What has arrived is an agent of S that walked out of another world.
<1>8. ASSUME NEW i \in Incoming(w)
      PROVE  /\ i \in Agent /\ i.exists
             /\ Dirty(w, Last(e), i)
             /\ \E b \in S : AlikeButValue(i, b)
  <2>1. PICK v \in Neighbors(w) : i \in agentChannel[<<v, w>>][1]
    BY <1>1, IncomingCases
  <2>2. <<v, w>> \in Channels /\ 1 \in DOMAIN agentChannel[<<v, w>>] /\ i \in Agent
    BY <1>1, IncomingCases
  <2>3. LastLetter(e, S, <<v, w>>, agentChannel[<<v, w>>][1])
    BY <1>2, <2>2 DEF EpochInv, AgentLetters
  <2>4. v \in Others(w)
    BY AllNeighbors DEF Others
  <2> QED
    BY <2>1, <2>2, <2>3, <2>4 DEF LastLetter, SentLife, Dirty
<1>9. Truth(e, S)'
  <2>1. TruthPart(S, Present, Active(e), This(e)) /\ Active(e)' = Active(e)
    BY <1>4 DEF EpochInv, Truth, Active
  <2> QED
    BY <1>5, <2>1 DEF Truth
<1>10. ViewsBehind(e, S)'
  <2> SUFFICES ASSUME NEW v \in Worlds, Behind(v, e)
               PROVE  BehindView(v, Last(e), S, View(v)')
    BY <1>4 DEF ViewsBehind
  <2>1. BehindView(v, Last(e), S, View(v))
    BY DEF EpochInv, ViewsBehind
  <2>2. CASE v # w
    BY <1>6, <2>1, <2>2
  <2>3. CASE v = w
    <3>1. \A x : x \in View(w)' <=> /\ x.exists
                                    /\ \/ x \in agents[w] \/ x \in Incoming(w)
                                       \/ x \in overlapAgents[w] /\ x.id \notin Ids(Incoming(w))
      BY <1>1 DEF View, Visible, AliveIn, Without
    <3>2. \A x : x \in View(w) <=> x.exists /\ (x \in agents[w] \/ x \in overlapAgents[w])
      BY DEF View, Visible, AliveIn
    <3>3. \A a \in View(w)' : a \in S \/ Dirty(w, Last(e), a)
      BY <1>8, <2>1, <2>3, <3>1, <3>2 DEF BehindView
    <3>4. ASSUME NEW b \in S, Sees(w, b), b \notin View(w)'
          PROVE  Dirty(w, Last(e), b)
      <4>1. CASE b \notin View(w)
        BY <2>1, <2>3, <3>4, <4>1 DEF BehindView
      <4>2. CASE b \in View(w)
        <5>1. b.id \in Ids(Incoming(w))
          BY <3>1, <3>2, <3>4, <4>2
        <5>2. PICK i \in Incoming(w) : i.id = b.id
          BY <5>1 DEF Ids
        <5>3. PICK c \in S : AlikeButValue(i, c)
          BY <1>8
        <5>4. c = b
          BY <5>2, <5>3 DEF Population, UniqueIds, AlikeButValue
        <5>5. i.position = b.position
          BY <5>3, <5>4 DEF AlikeButValue
        <5> QED
          BY <1>8, <5>5 DEF Dirty, Reaches
      <4> QED
        BY <4>1, <4>2
    <3> QED
      BY <2>3, <3>3, <3>4 DEF BehindView
  <2> QED
    BY <2>2, <2>3
<1>11. ViewsAt(e, S)'
  <2>1. \A v \in Worlds : At(v, e)' => At(v, e) /\ v # w
    BY <1>3, <1>4
  <2> QED
    BY <1>5, <1>6, <2>1 DEF EpochInv, ViewsAt
<1>12. Owned(e, S)'
  <2> SUFFICES ASSUME NEW v \in Worlds, v \notin Active(e) PROVE OwnedPart(S, agents'[v])
    BY <1>4 DEF Owned
  <2>1. OwnedPart(S, agents[v])
    BY DEF EpochInv, Owned
  <2> QED
    BY <1>1, <1>8, <2>1 DEF OwnedPart
<1>13. Phases(e)'
  BY <1>4 DEF EpochInv, Phases
<1>14. AgentCount(e)'
  <2>1. ASSUME NEW c \in Channels
        PROVE  Len(agentChannel'[c]) = (IF Awaits(c[2], e)' THEN 1 ELSE 0) + (IF HasSent(c[1], e)' THEN 1 ELSE 0)
    <3>1. Len(agentChannel[c]) = (IF Awaits(c[2], e) THEN 1 ELSE 0) + (IF HasSent(c[1], e) THEN 1 ELSE 0)
      BY DEF EpochInv, AgentCount
    <3>2. Len(agentChannel'[c]) = IF c[2] = w THEN Len(agentChannel[c]) - 1 ELSE Len(agentChannel[c])
      BY <1>1, ReceiveAgentsLengths
    <3>3. CASE c[2] = w
      BY <1>2, <1>3, <1>4, <1>7, <3>1, <3>2, <3>3
    <3>4. CASE c[2] # w
      BY <1>4, <1>7, <3>1, <3>2, <3>4
    <3> QED
      BY <3>3, <3>4
  <2> QED
    BY <2>1 DEF AgentCount
<1>15. AgentLetters(e, S)'
  <2>1. ASSUME NEW c \in Channels, NEW k \in DOMAIN agentChannel'[c]
        PROVE  /\ (Awaits(c[2], e)' /\ k = 1) => LastLetter(e, S, c, agentChannel'[c][k])
               /\ ~(Awaits(c[2], e)' /\ k = 1) => ThisLetter(e, c, agentChannel'[c][k])
    <3>1. CASE c[2] # w
      <4>1. agentChannel'[c] = agentChannel[c]
        BY <1>1, <3>1, TakeLists
      <4> QED
        BY <1>4, <1>7, <3>1, <4>1 DEF EpochInv, AgentLetters
    <3>2. CASE c[2] = w
      <4>1. k \in Nat /\ k > 0 /\ k + 1 \in DOMAIN agentChannel[c] /\ agentChannel'[c][k] = agentChannel[c][k + 1]
        BY <1>1, <3>2, TakeLists
      <4>2. k + 1 # 1
        BY <4>1
      <4> QED
        BY <1>3, <3>2, <4>1, <4>2 DEF EpochInv, AgentLetters
    <3> QED
      BY <3>1, <3>2
  <2> QED
    BY <1>1, <2>1 DEF AgentLetters, LastLetter, ThisLetter
<1>16. GhostLetters(e, S)' /\ GhostOrder(e)'
  BY <1>1, <1>4, SameGhostMail DEF EpochInv
<1> QED
  BY <1>9, <1>10, <1>11, <1>12, <1>13, <1>14, <1>15, <1>16 DEF EpochInv

(* The zone of two worlds is what one reaches and the other sees.          *)
LEMMA ZoneOfSlice ==
    ASSUME FewWorlds, NEW w \in Worlds, NEW v \in Worlds, v # w, NEW s \in Sections,
           NEW a \in Agent
    PROVE  /\ (Reaches(v, s, a) /\ Sees(w, a))
                  <=> (v \in ReceiveFrom(w, s) /\ isInside(Zone(w, v, s), a.position))
           /\ (Reaches(v, s, a) /\ Sees(w, a))
                  <=> (w \in SendTo(v, s) /\ isInside(Zone(v, w, s), a.position))
<1>1. a.position \in Cells
  BY DEF Agent
<1> QED
  BY <1>1, ZoneIsReachedAndSeen, GhostsAwaited DEF Reaches, Sees

(* sendGhostAgents: the list is what the neighbour sees of the agents that *)
(* the section may have changed.                                           *)
LEMMA GhostListIsSlice ==
    ASSUME FewWorlds, TypeInv, HolderInv, RemovedInv, OwnedLife, GhostLife,
           NEW S \in SUBSET Agent, \A b \in S : b.exists,
           NEW w \in Worlds, NEW v \in Worlds, v # w, v \in SendTo(w, sectionIndex[w]),
           BehindView(w, sectionIndex[w], S, View(w))
    PROVE  GhostList(w, v) = Slice(w, v, sectionIndex[w], S)
<1> DEFINE s == sectionIndex[w]
<1>1. s \in Sections /\ agents[w] \subseteq Agent /\ overlapAgents[w] \subseteq Agent
  BY DEF TypeInv, TypeOK
<1> HIDE DEF s
<1>2. \A a \in Agent : (Reaches(w, s, a) /\ Sees(v, a)) <=> isInside(Zone(w, v, s), a.position)
  BY <1>1, ZoneOfSlice DEF s
<1>3. \A a \in Agent : Reaches(w, s, a) => Sees(w, a) /\ ~Dirty(w, s, a)
  BY <1>1, NotDirty, ReachesAreSeen
<1>4. /\ \A a \in View(w) : a \in S \/ Dirty(w, s, a)
      /\ \A b \in S : Sees(w, b) => (b \in View(w) \/ Dirty(w, s, b))
  BY DEF BehindView, s
<1>5. \A x : x \in View(w) <=> x.exists /\ (x \in agents[w] \/ x \in overlapAgents[w])
  BY DEF View, Visible, AliveIn
<1>6. \A x : (x \in agents[w] \/ x \in overlapAgents[w])
          => (x.exists <=> x.id \notin removedAgents[w])
  <2>1. \A x \in agents[w] : x.exists <=> x.id \notin removedAgents[w]
    BY DEF OwnedLife
  <2>2. ASSUME NEW x \in overlapAgents[w]
        PROVE  x.exists /\ x.id \notin removedAgents[w]
    <3>1. x.exists
      BY DEF GhostLife
    <3>2. removedAgents[w] \subseteq Ids(agents[w]) /\ x.id \in Ids(overlapAgents[w])
      BY DEF RemovedInv, Ids
    <3>3. x.id \notin Ids(agents[w])
      BY <3>2 DEF HolderInv, OwnedNotGhost
    <3> QED
      BY <3>1, <3>2, <3>3
  <2> QED
    BY <2>1, <2>2
<1>7. \A x : x \in GhostList(w, v) <=> /\ x \in agents[w] \/ x \in overlapAgents[w]
                                       /\ x.id \notin removedAgents[w]
                                       /\ isInside(Zone(w, v, s), x.position)
  BY DEF GhostList, Visible, s
<1>8. \A x : x \in GhostList(w, v) <=> x \in View(w) /\ isInside(Zone(w, v, s), x.position)
  BY <1>5, <1>6, <1>7
<1>9. \A x : x \in View(w) => x \in Agent
  BY <1>1, <1>5
<1>10. \A x : x \in Slice(w, v, s, S) <=> x \in S /\ Reaches(w, s, x) /\ Sees(v, x)
  BY DEF Slice
<1>11. \A x : x \in GhostList(w, v) => x \in Slice(w, v, s, S)
  BY <1>2, <1>3, <1>4, <1>8, <1>9, <1>10
<1>12. \A x : x \in Slice(w, v, s, S) => x \in GhostList(w, v)
  BY <1>2, <1>3, <1>4, <1>8, <1>10
<1>13. GhostList(w, v) = Slice(w, v, s, S)
  BY <1>11, <1>12
<1> QED
  BY <1>13 DEF s

(* What SendGhosts leaves in the channels.                                 *)
LEMMA PutGhosts ==
    ASSUME TypeInv, NEW w \in Worlds, NEW from, NEW to, SendGhosts(w, from, to),
           NEW c \in Channels
    PROVE  ghostChannel'[c] = IF c[1] = w /\ c[2] \in SendTo(w, sectionIndex[w])
                              THEN Append(ghostChannel[c], GhostList(w, c[2]))
                              ELSE ghostChannel[c]
<1> DEFINE lists == [v \in SendTo(w, sectionIndex[w]) |-> GhostList(w, v)]
<1>1. ghostChannel' = Put(ghostChannel, w, lists)
  BY DEF SendGhosts
<1>2. DOMAIN lists = SendTo(w, sectionIndex[w]) /\ \A v \in SendTo(w, sectionIndex[w]) :
          lists[v] = GhostList(w, v)
  OBVIOUS
<1> HIDE DEF lists
<1> QED
  BY <1>1, <1>2 DEF Put

(* Sending ghosts keeps the invariant of the epoch.                        *)
LEMMA SendGhostsEpoch ==
    ASSUME FewWorlds, TypeInv, HolderInv, RemovedInv, OwnedLife, GhostLife, NEW e \in Nat,
           NEW S, Population(S),
           EpochInv(e, S), NEW w \in Worlds, Behind(w, e), NEW from, NEW to,
           SendGhosts(w, from, to),
           \/ from = "sendGhosts" /\ to = "receiveGhosts"
           \/ from = "initSendGhosts" /\ to = "initReceiveGhosts"
    PROVE  EpochInv(e, S)'
<1>1. /\ agents' = agents /\ overlapAgents' = overlapAgents /\ agentChannel' = agentChannel
      /\ step' = step /\ sectionIndex' = sectionIndex
      /\ touched' = touched /\ agentsToSend' = agentsToSend
      /\ pc[w] = from /\ pc'[w] = to
      /\ \A v \in Worlds : v # w => pc'[v] = pc[v]
  BY DEF SendGhosts, Goto, TypeInv, TypeOK, localVars
<1>2. ~At(w, e) /\ sectionIndex[w] = Last(e) /\ Last(e) \in Sections
  BY SectionOfEpoch, EpochSections
<1>3. /\ Behind(w, e)' /\ ~At(w, e)' /\ ~Awaits(w, e)' /\ ~HasSent(w, e) /\ ~HasSent(w, e)' /\ ~Awaits(w, e)
      /\ ~HasSentGhosts(w, e) /\ HasSentGhosts(w, e)'
  <2>1. Behind(w, e)' /\ ~At(w, e)'
    BY <1>1, <1>2 DEF Behind, At
  <2> QED
    BY <1>1, <1>2, <2>1 DEF Awaits, HasSent, HasSentGhosts
<1>4. \A v \in Worlds : /\ Behind(v, e)' <=> Behind(v, e)
                        /\ At(v, e)' <=> At(v, e)
                        /\ HasSent(v, e)' <=> HasSent(v, e)
                        /\ Awaits(v, e)' <=> Awaits(v, e)
                        /\ v # w => (HasSentGhosts(v, e)' <=> HasSentGhosts(v, e))
                        /\ v \in Active(e)' <=> v \in Active(e)
  <2> SUFFICES ASSUME NEW v \in Worlds
               PROVE  /\ Behind(v, e)' <=> Behind(v, e)
                      /\ At(v, e)' <=> At(v, e)
                      /\ HasSent(v, e)' <=> HasSent(v, e)
                      /\ Awaits(v, e)' <=> Awaits(v, e)
                      /\ v # w => (HasSentGhosts(v, e)' <=> HasSentGhosts(v, e))
                      /\ v \in Active(e)' <=> v \in Active(e)
    OBVIOUS
  <2>1. CASE v = w
    BY <1>1, <1>2, <1>3, <2>1 DEF Active
  <2>2. CASE v # w
    BY <1>1, <2>2, SameControl
  <2> QED
    BY <2>1, <2>2
<1>5. Present' = Present
  BY <1>1 DEF Held, Leaving, Present
<1>6. \A v \in Worlds : View(v)' = View(v)
  BY <1>1 DEF View, Visible
<1>7. Truth(e, S)'
  <2>1. TruthPart(S, Present, Active(e), This(e)) /\ Active(e)' = Active(e)
    BY <1>4 DEF EpochInv, Truth, Active
  <2> QED
    BY <1>5, <2>1 DEF Truth
<1>8. ViewsBehind(e, S)' /\ ViewsAt(e, S)'
  BY <1>4, <1>5, <1>6 DEF EpochInv, ViewsBehind, ViewsAt
<1>9. Owned(e, S)'
  BY <1>1, <1>4 DEF EpochInv, Owned
<1>10. Phases(e)'
  BY <1>4 DEF EpochInv, Phases
<1>11. AgentCount(e)' /\ AgentLetters(e, S)'
  BY <1>1, <1>4, SameAgentMail DEF EpochInv
<1>12. BehindView(w, Last(e), S, View(w))
  BY DEF EpochInv, ViewsBehind
<1>13. GhostLetters(e, S)'
  <2>1. ASSUME NEW c \in Channels
        PROVE  /\ GhostDue(c, e)' => ghostChannel'[c] = << Slice(c[1], c[2], Last(e), S) >>
               /\ ~GhostDue(c, e)' => ghostChannel'[c] = << >>
    <3>1. /\ GhostDue(c, e) => ghostChannel[c] = << Slice(c[1], c[2], Last(e), S) >>
          /\ ~GhostDue(c, e) => ghostChannel[c] = << >>
      BY DEF EpochInv, GhostLetters
    <3>2. c[1] \in Worlds /\ c[2] \in Worlds /\ c[1] # c[2]
      BY ChannelEnds
    <3>3. c[2] \in SendTo(c[1], Last(e)) <=> c[1] \in ReceiveFrom(c[2], Last(e))
      BY <1>2, <3>2, GhostsAwaited
    <3>4. CASE c[1] # w
      <4>1. GhostDue(c, e)' <=> GhostDue(c, e)
        BY <1>4, <3>2, <3>4 DEF GhostDue
      <4>2. ghostChannel'[c] = ghostChannel[c]
        BY <3>4, PutGhosts
      <4> QED
        BY <3>1, <4>1, <4>2
    <3>5. CASE c[1] = w
      <4>1. ghostChannel[c] = << >>
        BY <1>3, <3>1, <3>5 DEF GhostDue
      <4>2. CASE c[2] \in SendTo(w, Last(e))
        <5>1. Behind(c[2], e)
          BY <1>3, <3>2, <3>3, <3>5, <4>2 DEF EpochInv, GhostOrder, Phases
        <5>2. GhostDue(c, e)'
          BY <1>3, <1>4, <3>2, <3>3, <3>5, <4>2, <5>1 DEF GhostDue
        <5>3. GhostList(w, c[2]) = Slice(w, c[2], Last(e), S)
          BY <1>2, <1>12, <3>2, <3>5, <4>2, GhostListIsSlice DEF Population
        <5>4. ghostChannel'[c] = Append(<< >>, GhostList(w, c[2]))
          BY <1>2, <3>5, <4>1, <4>2, PutGhosts
        <5> QED
          BY <3>5, <5>2, <5>3, <5>4
      <4>3. CASE c[2] \notin SendTo(w, Last(e))
        <5>1. ~GhostDue(c, e)'
          BY <3>3, <3>5, <4>3 DEF GhostDue
        <5>2. ghostChannel'[c] = ghostChannel[c]
          BY <1>2, <4>3, PutGhosts
        <5> QED
          BY <4>1, <5>1, <5>2
      <4> QED
        BY <4>2, <4>3
    <3> QED
      BY <3>4, <3>5
  <2> QED
    BY <2>1 DEF GhostLetters
<1>14. GhostOrder(e)'
  <2>1. \A v \in Worlds : HasSentGhosts(v, e) => HasSentGhosts(v, e)'
    BY <1>3, <1>4
  <2> QED
    BY <1>4, <2>1 DEF EpochInv, GhostOrder
<1> QED
  BY <1>7, <1>8, <1>9, <1>10, <1>11, <1>13, <1>14 DEF EpochInv

\* The ghosts that world w finds in its channels.
GhostMail(w) == UNION {Head(ghostChannel[<<v, w>>]) : v \in ReceiveFrom(w, sectionIndex[w])}

(* What ReceiveGhosts makes of the agents and of the ghosts: agents the    *)
(* world owns are updated, ghosts where others may have changed them       *)
(* replaced.                                                               *)
LEMMA ReceivedGhosts ==
    ASSUME FewWorlds, TypeInv, HolderInv, GhostLife, NEW S \in SUBSET Agent, UniqueIds(S),
           NEW w \in Worlds, NEW from, NEW loop, NEW last, ReceiveGhosts(w, from, loop, last),
           \A v \in ReceiveFrom(w, sectionIndex[w]) :
                Head(ghostChannel[<<v, w>>]) \subseteq Slice(v, w, sectionIndex[w], S)
    PROVE  /\ \A x \in GhostMail(w) : x \in S /\ Sees(w, x) /\ Dirty(w, sectionIndex[w], x)
           /\ \A x : x \in agents'[w] <=> \/ x \in agents[w] /\ x.id \notin Ids(GhostMail(w))
                                          \/ x \in GhostMail(w) /\ x.id \in Ids(agents[w])
           /\ \A x : x \in overlapAgents'[w] <=> \/ x \in overlapAgents[w] /\ ~Dirty(w, sectionIndex[w], x)
                                                 \/ x \in GhostMail(w) /\ x.id \notin Ids(agents[w])
           /\ \A v \in Worlds : v # w
                  => agents'[v] = agents[v] /\ overlapAgents'[v] = overlapAgents[v]
<1> DEFINE s == sectionIndex[w]
           sources == ReceiveFrom(w, s)
           list(v) == Head(ghostChannel[<<v, w>>])
           M == GhostMail(w)
           O == Ids(agents[w])
<1>1. s \in Sections /\ agents[w] \subseteq Agent /\ overlapAgents[w] \subseteq Agent
  BY DEF TypeInv, TypeOK
<1>2. \A x : x \in M <=> \E v \in sources : x \in list(v)
  BY DEF GhostMail
<1>3. \A v \in sources : v \in Others(w)
  BY AllNeighbors DEF ReceiveFrom, Others
<1>4. \A v \in sources : \A x \in list(v) : x \in S /\ Reaches(v, s, x) /\ Sees(w, x)
  BY DEF Slice
<1>5. PICK updates \in ReadLast(Updates(w, sources)) :
        /\ agents' = [agents EXCEPT ![w] = Without(@, Ids(updates)) \cup updates]
        /\ overlapAgents' = [overlapAgents EXCEPT ![w] =
                Without(KeptGhosts(w, sources), Ids(updates)) \cup NewGhosts(w, sources)]
  BY DEF ReceiveGhosts
<1>6. \A x : x \in Updates(w, sources) <=>
                \E v \in sources : /\ x \in list(v) /\ x.id \in O
                                   /\ \A u \in sources : VisitedAfter(u, v)
                                          => x.id \notin Ids(list(u))
  <2> DEFINE newest(v) == {x \in list(v) : \A u \in sources : VisitedAfter(u, v) => x.id \notin Ids(list(u))}
  <2>1. Updates(w, sources) = {x \in UNION {newest(v) : v \in sources} : x.id \in O}
    BY DEF Updates
  <2>2. \A v, x : x \in newest(v) <=> /\ x \in list(v)
                                      /\ \A u \in sources : VisitedAfter(u, v)
                                             => x.id \notin Ids(list(u))
    OBVIOUS
  <2> HIDE DEF newest, sources, list, O
  <2> QED
    BY <2>1, <2>2
<1>7. \A x : x \in KeptGhosts(w, sources) <=> /\ x \in overlapAgents[w]
                                              /\ \A v \in sources :
                                                     ~isInside(Zone(w, v, s), x.position)
  BY DEF KeptGhosts
<1>8. \A x : x \in NewGhosts(w, sources) <=>
                \E v \in sources : /\ x \in list(v) /\ x.id \notin O
                                   /\ \A u \in sources : VisitedAfter(u, v)
                                          => ~isInside(Zone(w, u, s), x.position)
  <2> DEFINE fresh(v) == {x \in list(v) : /\ x.id \notin O
                                          /\ \A u \in sources : VisitedAfter(u, v)
                                                 => ~isInside(Zone(w, u, s), x.position)}
  <2>1. NewGhosts(w, sources) = UNION {fresh(v) : v \in sources}
    BY DEF NewGhosts
  <2>2. \A v, x : x \in fresh(v) <=> /\ x \in list(v) /\ x.id \notin O
                                     /\ \A u \in sources : VisitedAfter(u, v)
                                            => ~isInside(Zone(w, u, s), x.position)
    OBVIOUS
  <2> HIDE DEF fresh, sources, list, O
  <2> QED
    BY <2>1, <2>2
<1>9. \A u, v \in sources : VisitedAfter(u, v) => u # v
  BY <1>3 DEF VisitedAfter, Others, Worlds, Coords
<1> HIDE DEF s, sources, list, M
<1>10. \A x \in M : x \in S /\ x \in Agent /\ Sees(w, x) /\ Dirty(w, s, x)
  BY <1>2, <1>3, <1>4 DEF Dirty
<1>11. ASSUME NEW v \in sources, NEW u \in sources, NEW x \in list(v), NEW y \in list(u), x.id = y.id
       PROVE  u = v
  <2>1. x \in S /\ y \in S /\ x \in Agent
    BY <1>4
  <2>2. x = y
    BY <1>11, <2>1 DEF UniqueIds
  <2>3. v \in Worlds /\ u \in Worlds /\ Reaches(v, s, x) /\ Reaches(u, s, x)
    BY <1>3, <1>4, <2>2 DEF Others
  <2> QED
    BY <1>1, <2>1, <2>3, Apart
<1>12. \A x : x \in Updates(w, sources) <=> x \in M /\ x.id \in O
  <2>1. ASSUME NEW v \in sources, NEW u \in sources, NEW x \in list(v), VisitedAfter(u, v)
        PROVE  x.id \notin Ids(list(u))
    BY <1>9, <1>11, <2>1 DEF Ids
  <2> QED
    BY <1>2, <1>6, <2>1
<1>13. \A x : x \in updates <=> x \in M /\ x.id \in O
  <2>1. updates \subseteq Updates(w, sources) /\ Ids(updates) = Ids(Updates(w, sources))
    BY <1>5 DEF ReadLast
  <2>2. ASSUME NEW x \in Updates(w, sources)
        PROVE  x \in updates
    <3>1. x.id \in Ids(updates)
      BY <2>1 DEF Ids
    <3>2. PICK y \in updates : y.id = x.id
      BY <3>1 DEF Ids
    <3>3. x \in S /\ y \in S
      BY <1>10, <1>12, <2>1, <3>2
    <3> QED
      BY <3>2, <3>3 DEF UniqueIds
  <2> QED
    BY <1>12, <2>1, <2>2
<1>14. \A x \in overlapAgents[w] : Sees(w, x) /\ x.id \notin O
  <2>1. \A x \in overlapAgents[w] : x.id \in Ids(overlapAgents[w])
    BY DEF Ids
  <2> QED
    BY <2>1 DEF GhostLife, HolderInv, OwnedNotGhost
<1>15. ASSUME NEW x \in Agent, Sees(w, x)
       PROVE  /\ \A v \in sources : isInside(Zone(w, v, s), x.position) <=> Reaches(v, s, x)
              /\ Dirty(w, s, x) <=> \E v \in sources : Reaches(v, s, x)
  <2>1. \A v \in Others(w) : Reaches(v, s, x) <=> (v \in sources /\ isInside(Zone(w, v, s), x.position))
    <3> SUFFICES ASSUME NEW v \in Others(w)
                 PROVE  Reaches(v, s, x) <=> (v \in sources /\ isInside(Zone(w, v, s), x.position))
      OBVIOUS
    <3>1. v \in Worlds /\ v # w
      BY DEF Others
    <3> QED
      BY <1>1, <1>15, <3>1, ZoneOfSlice DEF sources
  <2> QED
    BY <1>3, <2>1 DEF Dirty
<1>16. \A x : x \in KeptGhosts(w, sources) <=> x \in overlapAgents[w] /\ ~Dirty(w, s, x)
  <2>1. \A x \in overlapAgents[w] : /\ \A v \in sources : isInside(Zone(w, v, s), x.position) <=> Reaches(v, s, x)
                                    /\ Dirty(w, s, x) <=> \E v \in sources : Reaches(v, s, x)
    BY <1>1, <1>14, <1>15
  <2> QED
    BY <1>7, <2>1
<1>17. \A x : x \in NewGhosts(w, sources) <=> x \in M /\ x.id \notin O
  <2>1. ASSUME NEW v \in sources, NEW u \in sources, NEW x \in list(v), VisitedAfter(u, v)
        PROVE  ~isInside(Zone(w, u, s), x.position)
    <3>1. x \in Agent /\ Sees(w, x) /\ Reaches(v, s, x)
      BY <1>4
    <3>2. v \in Worlds /\ u \in Worlds /\ u # v
      BY <1>3, <1>9, <2>1 DEF Others
    <3>3. ~Reaches(u, s, x)
      BY <1>1, <3>1, <3>2, Apart
    <3> QED
      BY <1>15, <3>1, <3>3
  <2> QED
    BY <1>2, <1>8, <2>1
<1>18. \A i : i \in Ids(updates) <=> i \in O /\ i \in Ids(M)
  BY <1>13 DEF Ids
<1>19. \A x : x \in agents'[w] <=> \/ x \in agents[w] /\ x.id \notin Ids(M)
                                   \/ x \in M /\ x.id \in O
  <2>1. agents'[w] = Without(agents[w], Ids(updates)) \cup updates
    BY <1>5 DEF TypeInv, TypeOK
  <2>2. \A x \in agents[w] : x.id \in O
    BY DEF Ids
  <2> QED
    BY <1>13, <1>18, <2>1, <2>2 DEF Without
<1>20. \A x : x \in overlapAgents'[w] <=> \/ x \in overlapAgents[w] /\ ~Dirty(w, s, x)
                                          \/ x \in M /\ x.id \notin O
  <2>1. overlapAgents'[w] = Without(KeptGhosts(w, sources), Ids(updates)) \cup NewGhosts(w, sources)
    BY <1>5 DEF TypeInv, TypeOK
  <2> QED
    BY <1>14, <1>16, <1>17, <1>18, <2>1 DEF Without
<1>21. \A v \in Worlds : v # w => agents'[v] = agents[v] /\ overlapAgents'[v] = overlapAgents[v]
  BY <1>5 DEF TypeInv, TypeOK
<1> QED
  BY <1>10, <1>19, <1>20, <1>21 DEF s, M

(* ReceiveGhosts changes values of owned agents only.                      *)
LEMMA ReceivedAlike ==
    ASSUME FewWorlds, TypeInv, HolderInv, GhostLife, NEW S, Population(S),
           NEW w \in Worlds, NEW from, NEW loop, NEW last, ReceiveGhosts(w, from, loop, last),
           \A v \in ReceiveFrom(w, sectionIndex[w]) :
                Head(ghostChannel[<<v, w>>]) \subseteq Slice(v, w, sectionIndex[w], S),
           OwnedPart(S, agents[w])
    PROVE  /\ \A x \in agents'[w] : \E y \in agents[w] : AlikeButValue(y, x)
           /\ \A y \in agents[w] : \E x \in agents'[w] : AlikeButValue(y, x)
           /\ OwnedPart(S, agents'[w])
<1>1. /\ \A x \in GhostMail(w) : x \in S
      /\ \A x : x \in agents'[w] <=> \/ x \in agents[w] /\ x.id \notin Ids(GhostMail(w))
                                     \/ x \in GhostMail(w) /\ x.id \in Ids(agents[w])
  BY ReceivedGhosts DEF Population
<1>2. ASSUME NEW y \in agents[w], NEW x \in GhostMail(w), x.id = y.id
      PROVE  AlikeButValue(y, x)
  <2>1. x \in S
    BY <1>1
  <2>2. y.exists
    BY <1>2, <2>1 DEF OwnedPart
  <2>3. PICK b \in S : AlikeButValue(y, b)
    BY <2>2 DEF OwnedPart
  <2>4. b = x
    BY <1>2, <2>1, <2>3 DEF Population, UniqueIds, AlikeButValue
  <2> QED
    BY <2>3, <2>4
<1>3. \A y \in agents[w] : AlikeButValue(y, y)
  BY DEF AlikeButValue
<1>4. ASSUME NEW x \in agents'[w]
      PROVE  \E y \in agents[w] : AlikeButValue(y, x)
  <2>1. CASE x \in agents[w]
    BY <1>3, <2>1
  <2>2. CASE x \in GhostMail(w) /\ x.id \in Ids(agents[w])
    <3>1. PICK y \in agents[w] : y.id = x.id
      BY <2>2 DEF Ids
    <3> QED
      BY <1>2, <2>2, <3>1
  <2> QED
    BY <1>1, <2>1, <2>2
<1>5. ASSUME NEW y \in agents[w]
      PROVE  \E x \in agents'[w] : AlikeButValue(y, x)
  <2>1. CASE y.id \notin Ids(GhostMail(w))
    BY <1>1, <1>3, <2>1
  <2>2. CASE y.id \in Ids(GhostMail(w))
    <3>1. PICK x \in GhostMail(w) : x.id = y.id
      BY <2>2 DEF Ids
    <3>2. x.id \in Ids(agents[w])
      BY <3>1 DEF Ids
    <3> QED
      BY <1>1, <1>2, <3>1, <3>2
  <2> QED
    BY <2>1, <2>2
<1>6. OwnedPart(S, agents'[w])
  <2>1. ASSUME NEW x \in agents'[w], x.exists
        PROVE  \E b \in S : AlikeButValue(x, b)
    <3>1. CASE x \in agents[w]
      BY <2>1, <3>1 DEF OwnedPart
    <3>2. CASE x \in GhostMail(w)
      BY <1>1, <3>2 DEF AlikeButValue
    <3> QED
      BY <1>1, <3>1, <3>2
  <2>2. ASSUME NEW x \in agents'[w], ~x.exists
        PROVE  \A b \in S : b.id # x.id
    <3>1. x \in agents[w]
      <4>1. \A b \in S : b.exists
        BY DEF Population
      <4> QED
        BY <1>1, <2>2, <4>1
    <3> QED
      BY <2>2, <3>1 DEF OwnedPart
  <2> QED
    BY <2>1, <2>2 DEF OwnedPart
<1> QED
  BY <1>4, <1>5, <1>6

(* ReceiveGhosts does not change the simulation: it brings copies up to    *)
(* date.                                                                   *)
LEMMA ReceivedPresent ==
    ASSUME TypeInv, TypeInv', HolderInv,
           NEW w \in Worlds, NEW from, NEW loop, NEW last, ReceiveGhosts(w, from, loop, last),
           from # "execute",
           \A v \in Worlds : v # w
               => agents'[v] = agents[v] /\ overlapAgents'[v] = overlapAgents[v],
           \A x \in agents'[w] : \E y \in agents[w] : AlikeButValue(y, x),
           \A y \in agents[w] : \E x \in agents'[w] : AlikeButValue(y, x)
    PROVE  Present' = Present
<1>1. agentChannel' = agentChannel /\ touched' = touched /\ agentsToSend' = agentsToSend /\ pc[w] = from
  BY DEF ReceiveGhosts, localVars
<1>2. agentsToSend[w] = {}
  BY <1>1 DEF HolderInv, LeavingInv
<1>3. \A v \in Worlds : Leaving(v)' = Leaving(v)
  <2>1. Leaving(w) = {} /\ Leaving(w)' = {}
    BY <1>1, <1>2 DEF Leaving
  <2>2. \A v \in Worlds : v # w => Leaving(v)' = Leaving(v)
    BY <1>1 DEF Leaving
  <2> QED
    BY <2>1, <2>2
<1>4. agents[w] \subseteq Agent /\ agents'[w] \subseteq Agent /\ touched \in [Agents -> Nat]
  BY DEF TypeInv, TypeOK
<1>5. ASSUME NEW x \in agents'[w], NEW y \in agents[w], AlikeButValue(y, x)
      PROVE  Now(x, touched) = Now(y, touched)
  BY <1>4, <1>5, NowKeeps
<1>6. ASSUME NEW h \in Held'
      PROVE  Now(h, touched) \in Present
  <2>1. \A g \in Held : Now(g, touched) \in Present
    BY DEF Present
  <2>2. CASE h \in agents'[w]
    <3>1. PICK y \in agents[w] : AlikeButValue(y, h)
      BY <2>2
    <3>2. y \in Held
      BY HeldCases
    <3> QED
      BY <1>5, <2>1, <2>2, <3>1, <3>2
  <2>3. CASE h \notin agents'[w]
    <3>1. h \in Held
      <4>1. \/ \E v \in Worlds : h \in agents'[v]
            \/ \E v \in Worlds : h \in Leaving(v)'
            \/ \E c \in Channels : \E k \in DOMAIN agentChannel'[c] : h \in agentChannel'[c][k]
        BY HeldCasesNext
      <4> QED
        BY <1>1, <1>3, <2>3, <4>1, HeldCases
    <3> QED
      BY <2>1, <3>1
  <2> QED
    BY <2>2, <2>3
<1>7. ASSUME NEW h \in Held
      PROVE  \E g \in Held' : Now(h, touched) = Now(g, touched)
  <2>1. CASE h \in agents[w]
    <3>1. PICK x \in agents'[w] : AlikeButValue(h, x)
      BY <2>1
    <3>2. x \in Held'
      BY HeldCasesNext
    <3> QED
      BY <1>5, <2>1, <3>1, <3>2
  <2>2. CASE h \notin agents[w]
    <3>1. h \in Held'
      <4>1. \/ \E v \in Worlds : h \in agents[v]
            \/ \E v \in Worlds : h \in Leaving(v)
            \/ \E c \in Channels : \E k \in DOMAIN agentChannel[c] : h \in agentChannel[c][k]
        BY HeldCases
      <4> QED
        BY <1>1, <1>3, <2>2, <4>1, HeldCasesNext
    <3> QED
      BY <3>1
  <2> QED
    BY <2>1, <2>2
<1>8. Present' = {Now(h, touched) : h \in Held'}
  BY <1>1 DEF Present
<1>9. Present' \subseteq Present
  BY <1>6, <1>8
<1>10. Present \subseteq Present'
  BY <1>7, <1>8 DEF Present
<1> QED
  BY <1>9, <1>10

(* What ReceiveGhosts leaves in the channels.                              *)
LEMMA TakeGhosts ==
    ASSUME TypeInv, NEW w \in Worlds, NEW from, NEW loop, NEW last,
           ReceiveGhosts(w, from, loop, last), NEW c \in Channels
    PROVE  ghostChannel'[c] = IF c[2] = w /\ c[1] \in ReceiveFrom(w, sectionIndex[w])
                              THEN Tail(ghostChannel[c]) ELSE ghostChannel[c]
BY DEF ReceiveGhosts, Take

(* ReceiveGhosts makes the view of the world exact: the existing agents of *)
(* the population at the start of the section that it sees.                *)
LEMMA ReceiveGhostsEpoch ==
    ASSUME FewWorlds, TypeInv, TypeInv', HolderInv, OwnedLife, GhostLife, RunInv, NEW e \in Nat,
           NEW S, Population(S),
           EpochInv(e, S), NEW w \in Worlds, Behind(w, e), NEW from, NEW loop, NEW last,
           ReceiveGhosts(w, from, loop, last),
           \/ from = "receiveGhosts" /\ loop = "stepSection" /\ last = "removeAgents"
           \/ from = "initReceiveGhosts" /\ loop = "barrier" /\ last = "stepSection"
    PROVE  /\ EpochInv(e, S)'
           /\ Present' = Present
           /\ \A x : x \in View(w)' <=> x \in S /\ Sees(w, x)
           /\ \A x \in agents'[w] : \E y \in agents[w] : AlikeButValue(y, x)
           /\ \A x \in overlapAgents'[w] : x \in S /\ Sees(w, x)
<1> DEFINE s == Last(e)
<1>1. /\ agentChannel' = agentChannel
      /\ step' = step
      /\ sectionIndex' = [sectionIndex EXCEPT ![w] = nextSection(@)]
      /\ touched' = touched /\ agentsToSend' = agentsToSend
      /\ pc[w] = from /\ pc'[w] = IF sectionIndex[w] = 3 THEN last ELSE loop
      /\ \A v \in Worlds : v # w => pc'[v] = pc[v] /\ sectionIndex'[v] = sectionIndex[v]
      /\ sectionIndex'[w] = nextSection(sectionIndex[w])
      /\ Arrived(ghostChannel, w, ReceiveFrom(w, sectionIndex[w]))
  BY DEF ReceiveGhosts, Goto, TypeInv, TypeOK, localVars
<1>2. ~At(w, e) /\ sectionIndex[w] = s /\ s \in Sections /\ This(e) = nextSection(s)
  BY SectionOfEpoch, EpochSections
<1>3. /\ At(w, e)' /\ ~Behind(w, e)'
      /\ pc'[w] \in {"stepSection", "removeAgents"}
  <2>1. step[w] \in Nat /\ sectionIndex[w] \in 0 .. 3
    BY NumStepsAssumption DEF TypeInv, TypeOK, Sections
  <2>2. \A i \in 0 .. 3 : nextSection(i) = IF i = 3 THEN 0 ELSE i + 1
    BY DEF nextSection
  <2>3. CASE from = "receiveGhosts"
    <3>1. e = 4 * step[w] + sectionIndex[w] + 1 /\ loop = "stepSection" /\ last = "removeAgents"
      BY <1>1, <2>3 DEF Behind
    <3>2. CASE sectionIndex[w] = 3
      <4>1. pc'[w] = "removeAgents" /\ e = 4 * step'[w] + 4
        BY <1>1, <2>1, <3>1, <3>2
      <4> QED
        BY <4>1 DEF At, Behind
    <3>3. CASE sectionIndex[w] # 3
      <4>1. pc'[w] = "stepSection" /\ e = 4 * step'[w] + sectionIndex'[w]
        BY <1>1, <2>1, <2>2, <3>1, <3>3
      <4> QED
        BY <4>1 DEF At, Behind
    <3> QED
      BY <3>2, <3>3
  <2>4. CASE from = "initReceiveGhosts"
    <3>1. e = 0 /\ sectionIndex[w] = 3 /\ last = "stepSection"
      BY <1>1, <2>4 DEF Behind
    <3>2. step[w] = 0
      BY <1>1, <2>4 DEF RunInv, StepEnds, InRun
    <3>3. pc'[w] = "stepSection" /\ e = 4 * step'[w] + sectionIndex'[w]
      BY <1>1, <2>1, <2>2, <3>1, <3>2
    <3> QED
      BY <3>3 DEF At, Behind
  <2> QED
    BY <2>3, <2>4
<1>4. \A v \in Worlds : /\ v # w => (Behind(v, e)' <=> Behind(v, e))
                        /\ v # w => (At(v, e)' <=> At(v, e))
                        /\ HasSent(v, e)' <=> HasSent(v, e)
                        /\ Awaits(v, e)' <=> Awaits(v, e)
                        /\ HasSentGhosts(v, e)' <=> HasSentGhosts(v, e)
                        /\ v \in Active(e)' <=> v \in Active(e)
  <2> SUFFICES ASSUME NEW v \in Worlds
               PROVE  /\ v # w => (Behind(v, e)' <=> Behind(v, e))
                      /\ v # w => (At(v, e)' <=> At(v, e))
                      /\ HasSent(v, e)' <=> HasSent(v, e)
                      /\ Awaits(v, e)' <=> Awaits(v, e)
                      /\ HasSentGhosts(v, e)' <=> HasSentGhosts(v, e)
                      /\ v \in Active(e)' <=> v \in Active(e)
    OBVIOUS
  <2>1. CASE v = w
    BY <1>1, <1>2, <1>3, <2>1 DEF Active, HasSent, Awaits, HasSentGhosts
  <2>2. CASE v # w
    BY <1>1, <2>2, SameControl
  <2> QED
    BY <2>1, <2>2
<1>5. w \notin Active(e) /\ w \notin Active(e)'
  BY <1>2, <1>4 DEF Active
\* Every list that is due has the slice of its sender.
<1>6. ASSUME NEW v \in ReceiveFrom(w, s)
      PROVE  /\ v \in Worlds /\ v # w /\ <<v, w>> \in Channels
             /\ HasSentGhosts(v, e)
             /\ ghostChannel[<<v, w>>] = << Slice(v, w, s, S) >>
             /\ Head(ghostChannel[<<v, w>>]) = Slice(v, w, s, S)
  <2>1. v \in Worlds /\ v # w /\ <<v, w>> \in Channels
    <3>1. v \in Neighbors(w)
      BY DEF ReceiveFrom
    <3>2. v \in Worlds /\ v # w
      BY <3>1 DEF Neighbors
    <3> QED
      BY <3>2, OtherWorlds
  <2>2. ghostChannel[<<v, w>>] # << >>
    BY <1>1, <1>2 DEF Arrived
  <2>3. GhostDue(<<v, w>>, e)
    BY <2>1, <2>2 DEF EpochInv, GhostLetters
  <2>4. ghostChannel[<<v, w>>] = << Slice(v, w, s, S) >>
    BY <2>1, <2>3 DEF EpochInv, GhostLetters
  <2> QED
    BY <2>1, <2>3, <2>4 DEF GhostDue
<1> HIDE DEF s
<1>7. \A x : x \in GhostMail(w) <=> x \in S /\ Sees(w, x) /\ Dirty(w, s, x)
  <2>1. \A x : x \in GhostMail(w) <=> \E v \in ReceiveFrom(w, s) : x \in Slice(v, w, s, S)
    BY <1>2, <1>6 DEF GhostMail
  <2>2. ASSUME NEW x \in S, Sees(w, x), NEW v \in Others(w), Reaches(v, s, x)
        PROVE  v \in ReceiveFrom(w, s)
    <3>1. x \in Agent /\ v \in Worlds /\ v # w
      BY DEF Population, Others
    <3> QED
      BY <1>2, <2>2, <3>1, ZoneOfSlice
  <2> QED
    BY <1>6, <2>1, <2>2 DEF Slice, Dirty, Others
<1>8. /\ \A x : x \in agents'[w] <=> \/ x \in agents[w] /\ x.id \notin Ids(GhostMail(w))
                                     \/ x \in GhostMail(w) /\ x.id \in Ids(agents[w])
      /\ \A x : x \in overlapAgents'[w] <=> \/ x \in overlapAgents[w] /\ ~Dirty(w, s, x)
                                            \/ x \in GhostMail(w) /\ x.id \notin Ids(agents[w])
      /\ \A v \in Worlds : v # w => agents'[v] = agents[v] /\ overlapAgents'[v] = overlapAgents[v]
  BY <1>2, <1>6, ReceivedGhosts DEF Population
<1>9. OwnedPart(S, agents[w])
  BY <1>5 DEF EpochInv, Owned
<1>10. /\ \A x \in agents'[w] : \E y \in agents[w] : AlikeButValue(y, x)
       /\ \A y \in agents[w] : \E x \in agents'[w] : AlikeButValue(y, x)
       /\ OwnedPart(S, agents'[w])
  BY <1>2, <1>6, <1>9, ReceivedAlike
<1>11. Present' = Present
  BY <1>8, <1>10, ReceivedPresent
<1>12. BehindView(w, s, S, View(w))
  BY DEF EpochInv, ViewsBehind, s
<1>13. \A x : x \in View(w)' <=> x \in S /\ Sees(w, x)
  <2>1. \A x : x \in View(w) <=> x.exists /\ (x \in agents[w] \/ x \in overlapAgents[w])
    BY DEF View, Visible, AliveIn
  <2>2. \A x : x \in View(w)' <=> x.exists /\ (x \in agents'[w] \/ x \in overlapAgents'[w])
    BY DEF View, Visible, AliveIn
  <2>3. agents[w] \subseteq Agent
    BY DEF TypeInv, TypeOK
  <2>4. ASSUME NEW x \in View(w)'
        PROVE  x \in S /\ Sees(w, x)
    <3>1. CASE x \in GhostMail(w)
      BY <1>7, <3>1
    <3>2. CASE x \in agents[w] /\ x.id \notin Ids(GhostMail(w))
      <4>1. x.exists
        BY <2>2, <2>4
      <4>2. x \in View(w) /\ Sees(w, x)
        <5>1. Owns(w, x) /\ x \in Agent
          BY <2>3, <3>2, <4>1 DEF OwnedLife
        <5> QED
          BY <2>1, <3>2, <4>1, <5>1, ReachesAreSeen
      <4>3. CASE Dirty(w, s, x)
        <5>1. PICK b \in S : AlikeButValue(x, b)
          BY <1>9, <3>2, <4>1 DEF OwnedPart
        <5>2. Sees(w, b) /\ Dirty(w, s, b) /\ b.id = x.id
          BY <4>2, <4>3, <5>1 DEF AlikeButValue, Sees, Dirty, Reaches
        <5>3. b \in GhostMail(w)
          BY <1>7, <5>2
        <5> QED
          BY <3>2, <5>2, <5>3 DEF Ids
      <4>4. CASE ~Dirty(w, s, x)
        BY <1>12, <4>2, <4>4 DEF BehindView
      <4> QED
        BY <4>3, <4>4
    <3>3. CASE x \in overlapAgents[w] /\ ~Dirty(w, s, x)
      <4>1. x.exists /\ Sees(w, x)
        BY <3>3 DEF GhostLife
      <4> QED
        BY <1>12, <2>1, <3>3, <4>1 DEF BehindView
    <3> QED
      BY <1>8, <2>2, <2>4, <3>1, <3>2, <3>3
  <2>5. ASSUME NEW x \in S, Sees(w, x)
        PROVE  x \in View(w)'
    <3>1. x.exists
      BY DEF Population
    <3>2. CASE Dirty(w, s, x)
      <4>1. x \in GhostMail(w)
        BY <1>7, <2>5, <3>2
      <4> QED
        BY <1>8, <2>2, <3>1, <4>1
    <3>3. CASE ~Dirty(w, s, x)
      <4>1. x \in agents[w] \/ x \in overlapAgents[w]
        BY <1>12, <2>1, <2>5, <3>3 DEF BehindView
      <4>2. x.id \notin Ids(GhostMail(w))
        <5>1. SUFFICES ASSUME x.id \in Ids(GhostMail(w)) PROVE FALSE
          OBVIOUS
        <5>2. PICK y \in GhostMail(w) : y.id = x.id
          BY <5>1 DEF Ids
        <5>3. y = x
          BY <1>7, <5>2 DEF Population, UniqueIds
        <5> QED
          BY <1>7, <3>3, <5>2, <5>3
      <4> QED
        BY <1>8, <2>2, <3>1, <3>3, <4>1, <4>2
    <3> QED
      BY <3>2, <3>3
  <2> QED
    BY <2>4, <2>5
<1>14. Active(e)' = Active(e) /\ TruthPart(S, Present, Active(e), This(e))
  BY <1>4 DEF EpochInv, Truth, Active
<1>15. Truth(e, S)'
  BY <1>11, <1>14 DEF Truth
<1>16. \A v \in Worlds : v # w => View(v)' = View(v)
  BY <1>8 DEF View, Visible
<1>17. ViewsBehind(e, S)'
  BY <1>3, <1>4, <1>16 DEF EpochInv, ViewsBehind
<1>18. ViewsAt(e, S)'
  <2>1. AtView(w, This(e), S, Present, View(w)')
    <3>1. \A v \in Active(e) : v \in Worlds /\ v # w
      BY <1>5 DEF Active
    <3>2. This(e) \in Sections
      BY EpochSections
    <3>3. \A x \in Agent : Reaches(w, This(e), x) => Sees(w, x) /\ \A v \in Active(e) : ~Reaches(v, This(e), x)
      BY <3>1, <3>2, Apart, ReachesAreSeen
    <3>4. S \subseteq Agent /\ Present \subseteq Agent
      <4>1. Present \in SUBSET Agent
        BY PresentFacts
      <4> QED
        BY <4>1 DEF Population
    <3>5. \A x \in View(w)' : Reaches(w, This(e), x) => x \in Present
      BY <1>13, <1>14, <3>3, <3>4 DEF TruthPart
    <3>6. \A x \in Present : (x.exists /\ Reaches(w, This(e), x)) => x \in View(w)'
      BY <1>13, <1>14, <3>3, <3>4 DEF TruthPart
    <3> QED
      BY <1>13, <3>5, <3>6 DEF AtView
  <2>2. \A v \in Worlds : (v # w /\ At(v, e)') => AtView(v, This(e), S, Present, View(v)')
    BY <1>4, <1>16 DEF EpochInv, ViewsAt
  <2> QED
    BY <1>11, <2>1, <2>2 DEF ViewsAt
<1>19. Owned(e, S)'
  <2>1. \A v \in Worlds : (v # w /\ v \notin Active(e)) => OwnedPart(S, agents'[v])
    BY <1>8 DEF EpochInv, Owned
  <2> QED
    BY <1>10, <1>14, <2>1 DEF Owned
<1>20. Phases(e)'
  BY <1>3, <1>4 DEF EpochInv, Phases
<1>21. AgentCount(e)' /\ AgentLetters(e, S)'
  BY <1>1, <1>4, SameAgentMail DEF EpochInv
<1>22. GhostLetters(e, S)'
  <2>1. ASSUME NEW c \in Channels
        PROVE  /\ GhostDue(c, e)' => ghostChannel'[c] = << Slice(c[1], c[2], s, S) >>
               /\ ~GhostDue(c, e)' => ghostChannel'[c] = << >>
    <3>1. /\ GhostDue(c, e) => ghostChannel[c] = << Slice(c[1], c[2], s, S) >>
          /\ ~GhostDue(c, e) => ghostChannel[c] = << >>
      BY DEF EpochInv, GhostLetters, s
    <3>2. c[1] \in Worlds /\ c[2] \in Worlds /\ c = <<c[1], c[2]>>
      BY ChannelEnds
    <3>3. CASE c[2] # w
      <4>1. GhostDue(c, e)' <=> GhostDue(c, e)
        BY <1>4, <3>2, <3>3 DEF GhostDue
      <4>2. ghostChannel'[c] = ghostChannel[c]
        BY <3>3, TakeGhosts
      <4> QED
        BY <3>1, <4>1, <4>2
    <3>4. CASE c[2] = w
      <4>1. ~GhostDue(c, e)'
        BY <1>3, <3>4 DEF GhostDue
      <4>2. CASE c[1] \in ReceiveFrom(w, s)
        <5>1. ghostChannel'[c] = Tail(ghostChannel[c])
          BY <1>2, <3>4, <4>2, TakeGhosts
        <5>2. c = <<c[1], w>>
          BY <3>2, <3>4
        <5>3. ghostChannel[c] = << Slice(c[1], w, s, S) >>
          BY <1>6, <4>2, <5>2
        <5>4. Tail(<< Slice(c[1], w, s, S) >>) = << >>
          OBVIOUS
        <5> QED
          BY <4>1, <5>1, <5>3, <5>4
      <4>3. CASE c[1] \notin ReceiveFrom(w, s)
        <5>1. ~GhostDue(c, e)
          BY <3>4, <4>3 DEF GhostDue, s
        <5>2. ghostChannel'[c] = ghostChannel[c]
          BY <1>2, <4>3, TakeGhosts
        <5> QED
          BY <3>1, <4>1, <5>1, <5>2
      <4> QED
        BY <4>2, <4>3
    <3> QED
      BY <3>3, <3>4
  <2> QED
    BY <2>1 DEF GhostLetters, s
<1>23. GhostOrder(e)'
  <2>1. \A v \in ReceiveFrom(w, s) : HasSentGhosts(v, e)'
    BY <1>4, <1>6
  <2>2. \A u, v \in Worlds : (u # w /\ At(u, e)' /\ v \in ReceiveFrom(u, s)) => HasSentGhosts(v, e)'
    BY <1>4 DEF EpochInv, GhostOrder, s
  <2> QED
    BY <2>1, <2>2 DEF GhostOrder, s
<1>24. EpochInv(e, S)'
  BY <1>15, <1>17, <1>18, <1>19, <1>20, <1>21, <1>22, <1>23 DEF EpochInv
<1>25. \A x \in overlapAgents'[w] : x \in S /\ Sees(w, x)
  <2>1. \A x \in overlapAgents'[w] : x.exists
    BY <1>7, <1>8 DEF GhostLife, Population
  <2>2. \A x \in overlapAgents'[w] : x \in View(w)'
    BY <2>1 DEF View, Visible, AliveIn
  <2> QED
    BY <1>13, <2>2
<1> QED
  BY <1>10, <1>11, <1>13, <1>24, <1>25

\* What a turn of a, which becomes b, has to do with what the world sees.
TurnOf(w, a, b, touch, leaves, dies) ==
    /\ b.id = a.id /\ b.turns = a.turns + 1 /\ b.value = a.value /\ (b.exists <=> ~dies)
    /\ \/ b.position = a.position
       \/ Near(a.position, b.position) /\ checkPosition(w, b.position)
    /\ touch \in Targets(w, a)
    /\ dies \in Fates
    /\ leaves <=> ~isInside(boundaries(w), b.position) /\ ~dies
    /\ touched' = [i \in Agents |-> IF i \in touch THEN touched[i] + 1 ELSE touched[i]]

(* The choices of executeAgent, by name.                                   *)
LEMMA TurnDetails ==
    ASSUME TypeInv, NEW w \in Worlds, NEW a \in agents[w], executeAgent(w, a)
    PROVE  /\ OnlyAt(w)
           /\ a \in Agent /\ inSection(w, a) /\ a.id \notin executedAgents[w]
           /\ \E b \in Agent, touch \in SUBSET Agents, leaves \in BOOLEAN, dies \in BOOLEAN :
                  /\ Turn(w, a, b, touch, leaves, dies)
                  /\ TurnOf(w, a, b, touch, leaves, dies)
<1>1. a \in Agent
  BY DEF TypeInv, TypeOK
<1>2. PICK target \in MoveTargets(w, a), touch \in Targets(w, a), dies \in Fates :
        LET b      == [a EXCEPT !.position = target, !.turns = @ + 1, !.exists = ~dies]
            leaves == Leaves(w, target, dies)
            owned  == Touch(agents[w] \ {a}, touch)
            ghosts == Touch(overlapAgents[w], touch)
        IN  /\ agents' = [agents EXCEPT ![w] = IF leaves THEN owned ELSE owned \cup {b}]
            /\ overlapAgents' = [overlapAgents EXCEPT ![w] =
                                    IF leaves THEN ghosts \cup {b} ELSE ghosts]
            /\ agentsToSend' = [agentsToSend EXCEPT ![w] =
                                    IF leaves THEN @ \cup {a.id} ELSE @]
            /\ removedAgents' = [removedAgents EXCEPT ![w] =
                                    IF dies THEN @ \cup {a.id} ELSE @]
            /\ touched' = [i \in Agents |-> IF i \in touch THEN touched[i] + 1 ELSE touched[i]]
  BY DEF executeAgent
<1> DEFINE b == [a EXCEPT !.position = target, !.turns = @ + 1, !.exists = ~dies]
           leaves == Leaves(w, target, dies)
<1>3. target \in Cells /\ dies \in BOOLEAN /\ leaves \in BOOLEAN
  BY <1>1 DEF MoveTargets, Fates, Agent, Leaves
<1>11. touch \in SUBSET Agents
  <2>1. \A v \in Visible(w) : v.id \in Agents
    BY DEF Visible, Agent, TypeInv, TypeOK
  <2> QED
    BY <2>1 DEF Targets
<1>4. /\ b \in Agent /\ b.id = a.id /\ b.position = target
      /\ b.turns = a.turns + 1 /\ b.value = a.value /\ (b.exists <=> ~dies)
  <2>1. \A n \in Nat, alive \in BOOLEAN :
          LET r == [a EXCEPT !.position = target, !.turns = n, !.exists = alive]
          IN  /\ r \in Agent /\ r.id = a.id /\ r.position = target
              /\ r.turns = n /\ r.value = a.value /\ (r.exists <=> alive)
    BY <1>1, <1>3 DEF Agent
  <2>2. a.turns + 1 \in Nat /\ (~dies) \in BOOLEAN
    BY <1>1, <1>3 DEF Agent
  <2> QED
    BY <2>1, <2>2, Zenon
<1>5. OnlyAt(w)
  BY <1>2 DEF executeAgent, OnlyAt, TypeInv, TypeOK
<1>6. inSection(w, a) /\ a.id \notin executedAgents[w]
  BY DEF executeAgent, Executable, hasBeenExecuted
<1>7. leaves <=> ~dies /\ ~isInside(boundaries(w), target)
  BY DEF Leaves
<1>8. target = a.position \/ (Near(a.position, target) /\ checkPosition(w, target))
  BY DEF MoveTargets
<1>9. /\ agents' = [agents EXCEPT ![w] = IF leaves THEN Touch(agents[w] \ {a}, touch)
                                        ELSE Touch(agents[w] \ {a}, touch) \cup {b}]
      /\ overlapAgents' = [overlapAgents EXCEPT ![w] =
                              IF leaves THEN Touch(overlapAgents[w], touch) \cup {b}
                              ELSE Touch(overlapAgents[w], touch)]
      /\ agentsToSend' = [agentsToSend EXCEPT ![w] = IF leaves THEN @ \cup {a.id} ELSE @]
      /\ removedAgents' = [removedAgents EXCEPT ![w] = IF dies THEN @ \cup {a.id} ELSE @]
  BY <1>2
<1>12. touched' = [i \in Agents |-> IF i \in touch THEN touched[i] + 1 ELSE touched[i]]
  BY <1>2
<1> HIDE DEF b, leaves
<1>10. Turn(w, a, b, touch, leaves, dies)
  BY <1>3, <1>4, <1>7, <1>8, <1>9 DEF Turn, TypeInv, TypeOK
<1>13. TurnOf(w, a, b, touch, leaves, dies)
  BY <1>4, <1>7, <1>8, <1>12 DEF TurnOf
<1> QED
  BY <1>1, <1>3, <1>4, <1>5, <1>6, <1>10, <1>11, <1>13, Zenon

(* What the turn may touch is what the section reaches.                    *)
LEMMA TurnReaches ==
    ASSUME TypeInv, HolderInv, NEW w \in Worlds, NEW a \in agents[w], a \in Agent,
           inSection(w, a),
           NEW b \in Agent, NEW touch, NEW leaves, NEW dies,
           TurnOf(w, a, b, touch, leaves, dies)
    PROVE  /\ Reaches(w, sectionIndex[w], a) /\ Reaches(w, sectionIndex[w], b)
           /\ a.id \notin touch
           /\ \A i \in touch : \E t \in View(w) : /\ t.id = i /\ t \in Agent
                                                  /\ Near(a.position, t.position)
                                                  /\ Reaches(w, sectionIndex[w], t)
<1>1. sectionIndex[w] \in Sections /\ a.position \in Cells /\ b.position \in Cells
  BY DEF TypeInv, TypeOK, Agent
<1>2. isInside(section(w, sectionIndex[w]), a.position)
  BY DEF inSection
<1>3. Reaches(w, sectionIndex[w], a) /\ Reaches(w, sectionIndex[w], b)
  BY <1>1, <1>2, SectionsOfWorld DEF TurnOf, Reaches
<1>4. Visible(w) \subseteq Agent
  BY DEF Visible, TypeInv, TypeOK
<1>5. ASSUME NEW i \in touch
      PROVE  /\ i # a.id
             /\ \E t \in View(w) : /\ t.id = i /\ t \in Agent
                                   /\ Near(a.position, t.position)
                                   /\ Reaches(w, sectionIndex[w], t)
  <2>1. PICK t \in Visible(w) : i = t.id /\ t.id # a.id /\ t.exists /\ Near(a.position, t.position)
    BY DEF TurnOf, Targets
  <2>2. t \in Agent /\ t.position \in Cells
    BY <1>4 DEF Agent
  <2>3. Reaches(w, sectionIndex[w], t)
    BY <1>1, <1>2, <2>1, <2>2, SectionsOfWorld DEF Reaches
  <2> QED
    BY <2>1, <2>2, <2>3 DEF View, AliveIn
<1> QED
  BY <1>3, <1>5

(* The world sees the agents with their modifications.                     *)
LEMMA VisibleTurn ==
    ASSUME TypeInv, HolderInv, NEW w \in Worlds, NEW a \in agents[w], NEW b, NEW touch,
           NEW leaves \in BOOLEAN, NEW dies,
           Turn(w, a, b, touch, leaves, dies)
    PROVE  \A x : x \in Visible(w)' <=> x \in AfterTurn(Visible(w), a, b, touch)
<1>1. /\ agents'[w] = Touch(agents[w] \ {a}, touch) \cup (IF leaves THEN {} ELSE {b})
      /\ overlapAgents'[w] = Touch(overlapAgents[w], touch) \cup (IF leaves THEN {b} ELSE {})
  BY DEF Turn
<1>2. a \notin overlapAgents[w]
  BY DEF HolderInv, OwnedNotGhost, Ids
<1>3. \A S, x : x \in Touch(S, touch) <=> \E y \in S : x = Modified(y, touch)
  BY DEF Touch, Modified
<1>4. \A x : x \in Visible(w)'
          <=> x = b \/ x \in Touch(agents[w] \ {a}, touch) \/ x \in Touch(overlapAgents[w], touch)
  BY <1>1 DEF Visible
<1>5. \A x : x \in AfterTurn(Visible(w), a, b, touch)
          <=> (x = b \/ \E y \in Visible(w) : y # a /\ x = Modified(y, touch))
  BY DEF AfterTurn
<1>6. \A y : (y \in Visible(w) /\ y # a) <=> (y \in agents[w] \ {a} \/ y \in overlapAgents[w])
  BY <1>2 DEF Visible
<1> QED
  BY <1>3, <1>4, <1>5, <1>6

(* A turn counts its modifications in touched.                             *)
LEMMA NowModified ==
    ASSUME NEW h \in Agent, touched \in [Agents -> Nat], NEW touch,
           touched' = [i \in Agents |-> IF i \in touch THEN touched[i] + 1 ELSE touched[i]]
    PROVE  /\ Modified(Now(h, touched), touch) = Now(h, touched')
           /\ AlikeButValue(Modified(h, touch), h)
<1>1. touched' \in [Agents -> Nat]
  OBVIOUS
<1>2. /\ Now(h, touched) \in Agent /\ Now(h, touched') \in Agent
      /\ AlikeButValue(h, Now(h, touched)) /\ AlikeButValue(h, Now(h, touched'))
      /\ Now(h, touched).value = touched[h.id] /\ Now(h, touched').value = touched'[h.id]
  BY <1>1, NowKeeps
<1> DEFINE n == Now(h, touched)
           m == Modified(n, touch)
<1>3. n \in Agent
  BY <1>2
<1>4. /\ m \in Agent /\ AlikeButValue(n, m)
      /\ m.value = IF n.id \in touch THEN n.value + 1 ELSE n.value
  <2> HIDE DEF n
  <2>1. m \in Agent /\ AlikeButValue(n, m)
    BY <1>3, ModifiedKeeps DEF AlikeButValue
  <2>2. m.value = IF n.id \in touch THEN n.value + 1 ELSE n.value
    BY <1>3 DEF Modified, Agent
  <2> QED
    BY <2>1, <2>2
<1>5. h.id \in Agents /\ n.id = h.id
  BY <1>2 DEF Agent, AlikeButValue
<1>6. m.value = touched'[h.id]
  BY <1>2, <1>4, <1>5
<1>7. AlikeButValue(m, Now(h, touched'))
  BY <1>2, <1>4 DEF AlikeButValue
<1> HIDE DEF m, n
<1>8. m = Now(h, touched')
  BY <1>2, <1>4, <1>6, <1>7, NowKeeps DEF AlikeButValue
<1>9. AlikeButValue(Modified(h, touch), h)
  BY ModifiedKeeps DEF AlikeButValue
<1> QED
  BY <1>8, <1>9 DEF m, n

(* A turn in the state of the whole simulation.                            *)
LEMMA PresentTurn ==
    ASSUME TypeInv, TypeInv', HolderInv, HolderInv', NEW w \in Worlds, NEW a \in agents[w],
           executeAgent(w, a),
           NEW b \in Agent, NEW touch \in SUBSET Agents, NEW leaves \in BOOLEAN,
           NEW dies \in BOOLEAN,
           Turn(w, a, b, touch, leaves, dies), TurnOf(w, a, b, touch, leaves, dies), OnlyAt(w)
    PROVE  \A x : x \in Present' <=> \/ x = Now(b, touched')
                                     \/ \E y \in Present : y.id # a.id /\ x = Modified(y, touch)
<1>0. /\ agentChannel' = agentChannel /\ touched \in [Agents -> Nat] /\ touched' \in [Agents -> Nat]
      /\ touched' = [i \in Agents |-> IF i \in touch THEN touched[i] + 1 ELSE touched[i]]
      /\ b.id = a.id /\ agents[w] \subseteq Agent /\ overlapAgents[w] \subseteq Agent
  BY DEF executeAgent, TypeInv, TypeOK, TurnOf
<1>1. /\ agents'[w] = Touch(agents[w] \ {a}, touch) \cup (IF leaves THEN {} ELSE {b})
      /\ overlapAgents'[w] = Touch(overlapAgents[w], touch) \cup (IF leaves THEN {b} ELSE {})
      /\ agentsToSend'[w] = agentsToSend[w] \cup (IF leaves THEN {a.id} ELSE {})
  BY DEF Turn
<1>2. /\ UniqueIds(Held) /\ UniqueIds(Held')
      /\ Held \subseteq Agent /\ Held' \subseteq Agent
  <2>1. UniqueIds(Held) /\ Held \subseteq Agent
    BY PresentFacts, HeldType
  <2>2. UniqueIds(Held') /\ Held' \subseteq Agent
    <3>1. (UniqueIds(Held) /\ Held \subseteq Agent)'
      BY PresentFacts, HeldType, PTL
    <3> QED
      BY <3>1 DEF UniqueIds
  <2> QED
    BY <2>1, <2>2
<1>3. \A S, x : x \in Touch(S, touch) <=> \E y \in S : x = Modified(y, touch)
  BY DEF Touch, Modified
<1>4. \A h \in Agent : /\ AlikeButValue(Modified(h, touch), h)
                       /\ Modified(h, touch).id = h.id
                       /\ Modified(h, touch) \in Agent
  BY <1>0, NowModified, ModifiedKeeps
<1>5. b \in Held'
  <2>1. CASE leaves
    <3>1. b \in Leaving(w)'
      BY <1>0, <1>1, <2>1 DEF Leaving
    <3> QED
      BY <3>1, HeldCasesNext
  <2>2. CASE ~leaves
    BY <1>1, <2>2, HeldCasesNext
  <2> QED
    BY <2>1, <2>2
<1>6. \A v \in Worlds : v # w => agents'[v] = agents[v] /\ Leaving(v)' = Leaving(v)
  BY DEF OnlyAt, Leaving
<1>7. \A g : /\ g \in Leaving(w) <=> g \in overlapAgents[w] /\ g.id \in agentsToSend[w]
             /\ g \in Leaving(w)' <=> g \in overlapAgents'[w] /\ g.id \in agentsToSend'[w]
  BY DEF Leaving
<1>8. ASSUME NEW h \in Held, h.id # a.id
      PROVE  \E g \in Held' : AlikeButValue(g, h)
  <2>0. AlikeButValue(h, h)
    BY DEF AlikeButValue
  <2>1. CASE h \in agents[w]
    <3>1. Modified(h, touch) \in agents'[w]
      BY <1>1, <1>3, <1>8, <2>1
    <3>2. Modified(h, touch) \in Held'
      BY <3>1, HeldCasesNext
    <3> QED
      BY <1>0, <1>4, <2>1, <3>2
  <2>2. CASE h \in Leaving(w)
    <3>0. h \in overlapAgents[w] /\ h.id \in agentsToSend[w] /\ h \in Agent
      BY <1>0, <1>7, <2>2
    <3>1. Modified(h, touch) \in overlapAgents'[w] /\ Modified(h, touch).id \in agentsToSend'[w]
      BY <1>1, <1>3, <1>4, <3>0
    <3>2. Modified(h, touch) \in Held'
      BY <1>7, <3>1, HeldCasesNext
    <3> QED
      BY <1>4, <3>0, <3>2
  <2>3. CASE h \notin agents[w] /\ h \notin Leaving(w)
    <3>1. h \in Held'
      BY <1>0, <1>6, <2>3, HeldCases, HeldCasesNext
    <3> QED
      BY <2>0, <3>1
  <2> QED
    BY <2>1, <2>2, <2>3
<1>9. ASSUME NEW g \in Held', g # b
      PROVE  \E h \in Held : h.id # a.id /\ AlikeButValue(g, h)
  <2>0. g.id # a.id
    BY <1>0, <1>2, <1>5, <1>9 DEF UniqueIds
  <2>1. CASE g \in agents'[w]
    <3>1. PICK y \in agents[w] \ {a} : g = Modified(y, touch)
      BY <1>1, <1>3, <1>9, <2>1
    <3>2. y \in Held
      BY <3>1, HeldCases
    <3> QED
      BY <1>0, <1>4, <2>0, <3>1, <3>2
  <2>2. CASE g \in Leaving(w)'
    <3>1. g \in overlapAgents'[w] /\ g.id \in agentsToSend'[w]
      BY <1>7, <2>2
    <3>2. PICK y \in overlapAgents[w] : g = Modified(y, touch)
      BY <1>1, <1>3, <1>9, <3>1
    <3>3. y.id \in agentsToSend[w] /\ y \in Agent /\ g.id = y.id
      BY <1>0, <1>1, <1>4, <2>0, <3>1, <3>2
    <3>4. y \in Held
      BY <1>7, <3>2, <3>3, HeldCases
    <3> QED
      BY <1>4, <2>0, <3>2, <3>3, <3>4
  <2>3. CASE g \notin agents'[w] /\ g \notin Leaving(w)'
    <3>1. g \in Held
      BY <1>0, <1>6, <2>3, HeldCases, HeldCasesNext
    <3>2. AlikeButValue(g, g)
      BY DEF AlikeButValue
    <3> QED
      BY <2>0, <3>1, <3>2
  <2> QED
    BY <2>1, <2>2, <2>3
<1>10. \A x : /\ x \in Present <=> \E h \in Held : x = Now(h, touched)
              /\ x \in Present' <=> \E h \in Held' : x = Now(h, touched')
  BY DEF Present
<1>11. \A h \in Agent :
           Modified(Now(h, touched), touch) = Now(h, touched') /\ Now(h, touched).id = h.id
  BY <1>0, NowModified, NowKeeps
<1>12. \A g, h \in Agent : AlikeButValue(g, h) => Now(g, touched') = Now(h, touched')
  BY <1>0, NowKeeps
<1>13. ASSUME NEW x, x \in Present', x # Now(b, touched')
       PROVE  \E y \in Present : y.id # a.id /\ x = Modified(y, touch)
  <2>1. PICK g \in Held' : x = Now(g, touched')
    BY <1>10, <1>13
  <2>2. PICK h \in Held : h.id # a.id /\ AlikeButValue(g, h)
    BY <1>9, <1>13, <2>1
  <2>3. x = Modified(Now(h, touched), touch) /\ Now(h, touched).id # a.id
    BY <1>2, <1>11, <1>12, <2>1, <2>2
  <2> QED
    BY <1>10, <2>2, <2>3
<1>14. ASSUME NEW y \in Present, y.id # a.id
       PROVE  Modified(y, touch) \in Present'
  <2>1. PICK h \in Held : y = Now(h, touched)
    BY <1>10
  <2>2. h.id # a.id /\ h \in Agent
    BY <1>2, <1>11, <1>14, <2>1
  <2>3. PICK g \in Held' : AlikeButValue(g, h)
    BY <1>8, <2>2
  <2>4. Modified(y, touch) = Now(g, touched')
    BY <1>2, <1>11, <1>12, <2>1, <2>2, <2>3
  <2> QED
    BY <1>10, <2>4
<1> QED
  BY <1>5, <1>10, <1>13, <1>14

(* Who is executed, and what it sees, is up to date.                       *)
LEMMA ExecutedIsPresent ==
    ASSUME FewWorlds, TypeInv, TypeInv', HolderInv, HolderInv', RemovedInv, OwnedLife,
           NEW e \in Nat, NEW S, Population(S), EpochInv(e, S),
           NEW w \in Worlds, NEW a \in agents[w], executeAgent(w, a),
           NEW b \in Agent, NEW touch \in SUBSET Agents, NEW leaves \in BOOLEAN,
           NEW dies \in BOOLEAN,
           Turn(w, a, b, touch, leaves, dies), TurnOf(w, a, b, touch, leaves, dies), OnlyAt(w)
    PROVE  /\ At(w, e) /\ pc[w] = "execute" /\ sectionIndex[w] = This(e) /\ This(e) \in Sections
           /\ AtView(w, This(e), S, Present, View(w))
           /\ a \in View(w) /\ a \in Present /\ a.exists
           /\ Reaches(w, This(e), a) /\ Reaches(w, This(e), b)
           /\ \A i \in touch : \E t \in View(w) : /\ t.id = i /\ t \in Present
                                                  /\ Near(a.position, t.position)
                                                  /\ Reaches(w, This(e), t)
           /\ \A x : x \in Present' <=> x \in AfterTurn(Present, a, b, touch)
<1>1. pc[w] = "execute" /\ a \in Agent /\ inSection(w, a) /\ a.id \notin executedAgents[w]
  BY TurnDetails DEF executeAgent
<1>2. At(w, e)
  BY <1>1 DEF EpochInv, Phases, Behind
<1>3. sectionIndex[w] = This(e) /\ This(e) \in Sections
  BY <1>1, <1>2, SectionOfEpoch, EpochSections
<1>4. AtView(w, This(e), S, Present, View(w))
  BY <1>2 DEF EpochInv, ViewsAt
<1>5. a.exists
  BY <1>1 DEF RemovedInv, OwnedLife
<1>6. a \in View(w)
  BY <1>5 DEF View, AliveIn, Visible
<1>7. /\ Reaches(w, This(e), a) /\ Reaches(w, This(e), b)
      /\ a.id \notin touch
      /\ \A i \in touch : \E t \in View(w) : /\ t.id = i /\ t \in Agent
                                             /\ Near(a.position, t.position)
                                             /\ Reaches(w, This(e), t)
  BY <1>1, <1>3, TurnReaches
<1>8. a \in Present
  BY <1>4, <1>6, <1>7 DEF AtView
<1>9. \A i \in touch : \E t \in View(w) : /\ t.id = i /\ t \in Present
                                          /\ Near(a.position, t.position)
                                          /\ Reaches(w, This(e), t)
  BY <1>4, <1>7 DEF AtView
<1>10. /\ UniqueIds(Present) /\ touched \in [Agents -> Nat] /\ touched' \in [Agents -> Nat]
       /\ \A h \in Held : Now(h, touched) \in Present
  BY PresentFacts DEF TypeInv, TypeOK
<1>11. a = Now(a, touched)
  <2>1. a \in Held
    BY HeldCases
  <2> QED
    BY <1>1, <1>8, <1>10, <2>1, NowKeeps DEF UniqueIds
<1>12. b = Now(b, touched')
  <2>1. a.value = touched[a.id]
    BY <1>1, <1>10, <1>11, NowKeeps
  <2>2. touched'[a.id] = touched[a.id] /\ b.id = a.id /\ b.value = a.value
    BY <1>1, <1>7 DEF TurnOf, Agent
  <2>3. /\ Now(b, touched') \in Agent /\ AlikeButValue(b, Now(b, touched'))
        /\ Now(b, touched').value = touched'[b.id]
    BY <1>10, NowKeeps
  <2> QED
    BY <1>10, <2>1, <2>2, <2>3, NowKeeps
<1>13. \A x : x \in Present' <=> \/ x = b
                                 \/ \E y \in Present : y.id # a.id /\ x = Modified(y, touch)
  BY <1>12, PresentTurn
<1>14. \A y \in Present : y.id # a.id <=> y # a
  BY <1>8, <1>10 DEF UniqueIds
<1>15. \A x : x \in AfterTurn(Present, a, b, touch)
           <=> (x = b \/ \E y \in Present : y # a /\ x = Modified(y, touch))
  BY DEF AfterTurn
<1>16. \A x : x \in Present' <=> x \in AfterTurn(Present, a, b, touch)
  BY <1>13, <1>14, <1>15
<1> QED
  BY <1>1, <1>2, <1>3, <1>4, <1>5, <1>6, <1>7, <1>8, <1>9, <1>16

(* executeAgent keeps the invariant of the epoch: the turn changes the     *)
(* simulation and what the world sees alike, and nothing that others       *)
(* reach.                                                                  *)
LEMMA executeAgentEpoch ==
    ASSUME FewWorlds, TypeInv, TypeInv', HolderInv, HolderInv', RemovedInv, OwnedLife,
           NEW e \in Nat, NEW S, Population(S), EpochInv(e, S),
           NEW w \in Worlds, NEW a \in agents[w], executeAgent(w, a)
    PROVE  EpochInv(e, S)'
<1>1. OnlyAt(w) /\ a \in Agent
  BY TurnDetails
<1>2. PICK b \in Agent, touch \in SUBSET Agents, leaves \in BOOLEAN, dies \in BOOLEAN :
        /\ Turn(w, a, b, touch, leaves, dies)
        /\ TurnOf(w, a, b, touch, leaves, dies)
  BY TurnDetails
<1>30. /\ At(w, e) /\ pc[w] = "execute" /\ This(e) \in Sections
       /\ AtView(w, This(e), S, Present, View(w))
       /\ a \in View(w) /\ a \in Present
       /\ Reaches(w, This(e), a) /\ Reaches(w, This(e), b)
       /\ \A i \in touch : \E t \in View(w) : /\ t.id = i /\ t \in Present
                                              /\ Near(a.position, t.position)
                                              /\ Reaches(w, This(e), t)
       /\ \A x : x \in Present' <=> x \in AfterTurn(Present, a, b, touch)
  BY <1>1, <1>2, ExecutedIsPresent
<1> DEFINE s == This(e)
<1>3. /\ At(w, e) /\ pc[w] = "execute" /\ s \in Sections
      /\ AtView(w, s, S, Present, View(w))
      /\ a \in View(w) /\ a \in Present
      /\ Reaches(w, s, a) /\ Reaches(w, s, b)
      /\ \A i \in touch : \E t \in View(w) : t.id = i /\ Reaches(w, s, t)
      /\ \A x : x \in Present' <=> x \in AfterTurn(Present, a, b, touch)
  BY <1>30
<1>4. /\ pc' = pc /\ step' = step /\ sectionIndex' = sectionIndex
      /\ agentChannel' = agentChannel /\ ghostChannel' = ghostChannel
  BY DEF executeAgent
<1>5. \A v \in Worlds : /\ Behind(v, e)' <=> Behind(v, e)
                        /\ At(v, e)' <=> At(v, e)
                        /\ HasSent(v, e)' <=> HasSent(v, e)
                        /\ Awaits(v, e)' <=> Awaits(v, e)
                        /\ HasSentGhosts(v, e)' <=> HasSentGhosts(v, e)
                        /\ v \in Active(e)' <=> v \in Active(e)
  BY <1>4, SameControl
<1>6. w \in Active(e) /\ ~Behind(w, e) /\ Active(e)' = Active(e) /\ Active(e) \subseteq Worlds
  <2>1. ~Behind(w, e)
    BY <1>3 DEF Behind
  <2>2. Active(e)' = Active(e)
    BY <1>5 DEF Active
  <2> QED
    BY <1>3, <2>1, <2>2 DEF Active
<1>7. /\ S \in SUBSET Agent /\ UniqueIds(S)
      /\ Present \in SUBSET Agent /\ UniqueIds(Present)
      /\ View(w) \in SUBSET Agent /\ \A x \in View(w) : x.exists
  <2>1. View(w) \in SUBSET Agent /\ \A x \in View(w) : x.exists
    BY DEF View, AliveIn, Visible, TypeInv, TypeOK
  <2> QED
    BY <2>1, PresentFacts DEF Population
<1>8. /\ Present' \in SUBSET Agent /\ View(w)' \in SUBSET Agent
  <2>1. (TypeInv /\ HolderInv => Present \in SUBSET Agent)'
    BY PresentFacts, PTL
  <2>2. View(w)' \in SUBSET Agent
    BY DEF View, AliveIn, Visible, TypeInv, TypeOK
  <2> QED
    BY <2>1, <2>2
<1>9. TruthPart(S, Present, Active(e), s)
  BY DEF EpochInv, Truth
<1> DEFINE P == AfterTurn(Present, a, b, touch)
           C == AfterTurn(View(w), a, b, touch)
<1>10. Present' = P
  BY <1>3
<1>11. /\ LocalChange(w, s, Present, Present')
       /\ \A x \in Agent : ~Reaches(w, s, x) => (x \in View(w) <=> x \in C)
       /\ \A x \in Agent : (Reaches(w, s, x) /\ x.exists) => (x \in C <=> x \in Present')
  <2> HIDE DEF s
  <2>0. a.id = b.id
    BY <1>2 DEF TurnOf
  <2>1. /\ LocalChange(w, s, Present, AfterTurn(Present, a, b, touch))
        /\ \A x \in Agent : ~Reaches(w, s, x)
               => (x \in View(w) <=> x \in AfterTurn(View(w), a, b, touch))
        /\ \A x \in Agent : (Reaches(w, s, x) /\ x.exists) =>
                (x \in AfterTurn(View(w), a, b, touch) <=> x \in AfterTurn(Present, a, b, touch))
    <3>1. SeenTurn(w, s, Active(e), S, Present, View(w), a, b, touch)
      BY <1>2, <1>3, <1>6, <1>7, <1>9, <2>0 DEF SeenTurn
    <3> QED
      BY <3>1, TurnIsLocal
  <2> QED
    BY <1>10, <2>1
<1>12. \A x : x \in View(w)' <=> x \in C /\ x.exists
  <2>1. \A x : x \in Visible(w)' <=> x \in AfterTurn(Visible(w), a, b, touch)
    BY <1>2, VisibleTurn
  <2>2. \A x : x \in View(w)' <=> x \in Visible(w)' /\ x.exists
    BY DEF View, AliveIn
  <2>3. \A x : x \in View(w) <=> x \in Visible(w) /\ x.exists
    BY DEF View, AliveIn
  <2>4. \A A, x : x \in AfterTurn(A, a, b, touch) <=> (x = b \/ \E y \in A : y # a /\ x = Modified(y, touch))
    BY DEF AfterTurn
  <2>5. \A y \in Visible(w) : Modified(y, touch).exists = y.exists
    BY ModifiedKeeps DEF Visible, TypeInv, TypeOK
  <2> QED
    BY <2>1, <2>2, <2>3, <2>4, <2>5
<1> HIDE DEF s, P, C
<1>13. AtView(w, s, S, Present', View(w)')
  <2>1. \A x \in Agent : ~Reaches(w, s, x) => (x \in View(w) <=> x \in View(w)')
    BY <1>7, <1>11, <1>12
  <2>2. \A x \in Agent : Reaches(w, s, x) => (x \in View(w)' <=> (x \in Present' /\ x.exists))
    BY <1>11, <1>12
  <2> QED
    BY <1>3, <1>7, <1>8, <2>1, <2>2, LocalOwnView
<1>14. \A v \in Worlds : v # w => View(v)' = View(v)
  BY <1>1 DEF OnlyAt, View, Visible
<1>15. Truth(e, S)'
  BY <1>3, <1>6, <1>7, <1>8, <1>9, <1>11, LocalTruth DEF Truth, s
<1>16. ViewsBehind(e, S)'
  BY <1>5, <1>6, <1>14 DEF EpochInv, ViewsBehind
<1>17. ViewsAt(e, S)'
  <2> SUFFICES ASSUME NEW v \in Worlds, At(v, e)
               PROVE  AtView(v, s, S, Present', View(v)')
    BY <1>5 DEF ViewsAt, s
  <2>1. CASE v = w
    BY <1>13, <2>1
  <2>2. CASE v # w
    <3>1. AtView(v, s, S, Present, View(v))
      BY DEF EpochInv, ViewsAt, s
    <3>2. View(v) \in SUBSET Agent
      BY DEF View, AliveIn, Visible, TypeInv, TypeOK
    <3>3. AtView(v, s, S, Present', View(v))
      BY <1>3, <1>7, <1>8, <1>11, <2>2, <3>1, <3>2, LocalOtherView
    <3> QED
      BY <1>14, <2>2, <3>3
  <2> QED
    BY <2>1, <2>2
<1>18. Owned(e, S)'
  BY <1>1, <1>5, <1>6 DEF OnlyAt, EpochInv, Owned
<1>19. Phases(e)'
  BY <1>5 DEF EpochInv, Phases
<1>20. AgentCount(e)' /\ AgentLetters(e, S)'
  BY <1>4, <1>5, SameAgentMail DEF EpochInv
<1>21. GhostLetters(e, S)' /\ GhostOrder(e)'
  BY <1>4, <1>5, SameGhostMail DEF EpochInv
<1> QED
  BY <1>15, <1>16, <1>17, <1>18, <1>19, <1>20, <1>21 DEF EpochInv

\* The part of the invariant that is about one step.
StepLife == LifeInv /\ TurnsInv /\ GhostsOnce

(* The agents at the start.                                                *)
LEMMA InitLife == Init => StepLife
<1> SUFFICES ASSUME Init PROVE StepLife
  OBVIOUS
<1>1. PICK place \in [Agents -> InitialCells] :
        agents = [w \in Worlds |->
              {[id |-> a, position |-> place[a], exists |-> TRUE, turns |-> 0, value |-> 0]
                  : a \in {b \in Agents : isInside(boundaries(w), place[b])}}]
  BY DEF Init
<1>2. /\ overlapAgents = [w \in Worlds |-> {}] /\ agentsToSend = [w \in Worlds |-> {}]
      /\ executedAgents = [w \in Worlds |-> {}] /\ removedAgents = [w \in Worlds |-> {}]
      /\ agentChannel = [c \in Channels |-> << >>] /\ step = [w \in Worlds |-> 0]
      /\ pc = [w \in Worlds |-> "barrier"]
  BY DEF Init
<1>3. ASSUME NEW w \in Worlds, NEW a \in agents[w]
      PROVE  a.exists /\ a.turns = 0 /\ Owns(w, a)
  <2>1. PICK i \in Agents : /\ isInside(boundaries(w), place[i])
                            /\ a = [id |-> i, position |-> place[i], exists |-> TRUE, turns |-> 0, value |-> 0]
    BY <1>1, <1>3
  <2> QED
    BY <2>1 DEF Owns
<1>4. OwnedLife /\ GhostLife /\ LeavingLife /\ GhostsOnce
  BY <1>2, <1>3 DEF OwnedLife, GhostLife, LeavingLife, Leaving, GhostsOnce, UniqueIds
<1>5. SentLife
  BY <1>2 DEF SentLife
<1>6. TurnsOwned
  BY <1>2, <1>3 DEF TurnsOwned
<1>7. SweptInv /\ ChosenInv
  BY <1>2 DEF SweptInv, ChosenInv, InRun
<1> QED
  BY <1>4, <1>5, <1>6, <1>7 DEF StepLife, LifeInv, TurnsInv

(* A step that changes none of the agents.                                 *)
LEMMA SameLife ==
    ASSUME LifeInv, TurnsOwned, GhostsOnce, agents' = agents, overlapAgents' = overlapAgents,
           agentsToSend' = agentsToSend, executedAgents' = executedAgents, removedAgents' = removedAgents,
           agentChannel' = agentChannel, step' = step, sectionIndex' = sectionIndex
    PROVE  LifeInv' /\ TurnsOwned' /\ GhostsOnce'
<1>1. \A w \in Worlds : Leaving(w)' = Leaving(w)
  BY DEF Leaving
<1>2. OwnedLife' /\ GhostLife' /\ SentLife' /\ TurnsOwned' /\ GhostsOnce'
  BY DEF LifeInv, OwnedLife, GhostLife, SentLife, TurnsOwned, GhostsOnce
<1>3. LeavingLife'
  BY <1>1 DEF LifeInv, LeavingLife
<1> QED
  BY <1>2, <1>3 DEF LifeInv

(* The barrier of run changes no agents.                                   *)
LEMMA BarrierLife == ASSUME TypeInv, StepLife, Barrier PROVE StepLife'
<1>1. /\ agents' = agents /\ overlapAgents' = overlapAgents
      /\ agentsToSend' = agentsToSend /\ executedAgents' = executedAgents /\ removedAgents' = removedAgents
      /\ agentChannel' = agentChannel /\ step' = step /\ sectionIndex' = sectionIndex
      /\ pc' = [w \in Worlds |-> "initSendGhosts"]
  BY DEF Barrier, localVars
<1>2. LifeInv' /\ TurnsOwned' /\ GhostsOnce'
  BY <1>1, SameLife DEF StepLife, TurnsInv
<1>3. SweptInv' /\ ChosenInv'
  BY <1>1 DEF SweptInv, ChosenInv, InRun
<1> QED
  BY <1>2, <1>3 DEF StepLife, TurnsInv

(* Nor does a world that waits.                                            *)
LEMMA StutterLife == ASSUME StepLife, UNCHANGED vars PROVE StepLife'
<1>1. /\ agents' = agents /\ overlapAgents' = overlapAgents /\ pc' = pc
      /\ agentsToSend' = agentsToSend /\ executedAgents' = executedAgents /\ removedAgents' = removedAgents
      /\ agentChannel' = agentChannel /\ step' = step /\ sectionIndex' = sectionIndex
      /\ agentsToExecute' = agentsToExecute
  BY DEF vars, localVars
<1>2. LifeInv' /\ TurnsOwned' /\ GhostsOnce'
  BY <1>1, SameLife DEF StepLife, TurnsInv
<1>3. SweptInv' /\ ChosenInv'
  BY <1>1 DEF StepLife, TurnsInv, SweptInv, ChosenInv, InRun, Swept, PastSection, inSection,
     hasBeenExecuted
<1> QED
  BY <1>2, <1>3 DEF StepLife, TurnsInv

(* Sending ghosts changes no agents.                                       *)
LEMMA SendGhostsLife ==
    ASSUME TypeInv, StepLife, NEW w \in Worlds, NEW from, NEW to, SendGhosts(w, from, to),
           \/ from = "sendGhosts" /\ to = "receiveGhosts"
           \/ from = "initSendGhosts" /\ to = "initReceiveGhosts"
    PROVE  StepLife'
<1>1. /\ agents' = agents /\ overlapAgents' = overlapAgents
      /\ agentsToSend' = agentsToSend /\ executedAgents' = executedAgents /\ removedAgents' = removedAgents
      /\ agentChannel' = agentChannel /\ step' = step /\ sectionIndex' = sectionIndex
      /\ agentsToExecute' = agentsToExecute
      /\ pc[w] = from /\ pc'[w] = to
      /\ \A v \in Worlds : v # w => pc'[v] = pc[v]
  BY DEF SendGhosts, Goto, localVars, TypeInv, TypeOK
<1>2. LifeInv' /\ TurnsOwned' /\ GhostsOnce'
  BY <1>1, SameLife DEF StepLife, TurnsInv
<1>3. \A v \in Worlds : /\ InRun(v)' <=> InRun(v)
                        /\ \A j \in Sections : PastSection(v, j)' <=> PastSection(v, j)
                        /\ pc'[v] = "execute" => pc[v] = "execute"
  BY <1>1 DEF InRun, PastSection
<1>4. \A v \in Worlds, j \in Sections : Swept(v, j)' <=> Swept(v, j)
  BY <1>1 DEF Swept
<1>5. SweptInv'
  BY <1>3, <1>4 DEF StepLife, TurnsInv, SweptInv
<1>6. ChosenInv'
  BY <1>1, <1>3 DEF StepLife, TurnsInv, ChosenInv, inSection, hasBeenExecuted
<1> QED
  BY <1>2, <1>5, <1>6 DEF StepLife, TurnsInv

(* stepSection lists all agents that it has to execute.                    *)
LEMMA stepSectionLife ==
    ASSUME TypeInv, StepLife, NEW w \in Worlds, stepSection(w)
    PROVE  StepLife'
<1>1. /\ agents' = agents /\ overlapAgents' = overlapAgents
      /\ agentsToSend' = agentsToSend /\ executedAgents' = executedAgents /\ removedAgents' = removedAgents
      /\ agentChannel' = agentChannel /\ step' = step /\ sectionIndex' = sectionIndex
      /\ agentsToExecute'[w] = Ids({a \in agents[w] : inSection(w, a) /\ ~hasBeenExecuted(w, a)})
      /\ \A v \in Worlds : v # w => agentsToExecute'[v] = agentsToExecute[v]
      /\ pc[w] = "stepSection" /\ pc'[w] = "execute"
      /\ \A v \in Worlds : v # w => pc'[v] = pc[v]
  BY DEF stepSection, Goto, localVars, TypeInv, TypeOK
<1>2. LifeInv' /\ TurnsOwned' /\ GhostsOnce'
  BY <1>1, SameLife DEF StepLife, TurnsInv
<1>3. \A v \in Worlds : /\ InRun(v)' <=> InRun(v)
                        /\ \A j \in Sections : PastSection(v, j)' <=> PastSection(v, j)
                        /\ (pc'[v] = "execute" /\ v # w) => pc[v] = "execute"
  BY <1>1 DEF InRun, PastSection
<1>4. \A v \in Worlds, j \in Sections : Swept(v, j)' <=> Swept(v, j)
  BY <1>1 DEF Swept
<1>5. SweptInv'
  BY <1>3, <1>4 DEF StepLife, TurnsInv, SweptInv
<1>7. \A v \in Worlds : \A a :
         /\ inSection(v, a)' <=> inSection(v, a)
         /\ hasBeenExecuted(v, a)' <=> hasBeenExecuted(v, a)
  BY <1>1 DEF inSection, hasBeenExecuted
<1>6. ChosenInv'
  <2> SUFFICES ASSUME NEW v \in Worlds, pc'[v] = "execute", NEW a \in agents[v],
                      inSection(v, a), ~hasBeenExecuted(v, a)
               PROVE  a.id \in agentsToExecute'[v]
    BY <1>1, <1>7 DEF ChosenInv
  <2>1. CASE v = w
    BY <1>1, <2>1 DEF Ids
  <2>2. CASE v # w
    BY <1>1, <1>3, <2>2 DEF StepLife, TurnsInv, ChosenInv
  <2> QED
    BY <2>1, <2>2
<1> QED
  BY <1>2, <1>5, <1>6 DEF StepLife, TurnsInv

(* executeAgent: the agent had its turn, is alive or listed as removed, is *)
(* inside or leaves.                                                       *)
LEMMA executeAgentLife ==
    ASSUME TypeInv, HolderInv, RemovedInv, StepLife, NEW w \in Worlds, NEW a \in agents[w],
           executeAgent(w, a)
    PROVE  StepLife'
<1>1. OnlyAt(w) /\ a \in Agent /\ inSection(w, a) /\ a.id \notin executedAgents[w]
  BY TurnDetails
<1>2. PICK b \in Agent, touch \in SUBSET Agents, leaves \in BOOLEAN, dies \in BOOLEAN :
        /\ Turn(w, a, b, touch, leaves, dies)
        /\ TurnOf(w, a, b, touch, leaves, dies)
  BY TurnDetails
<1>3. /\ b.id = a.id /\ b.turns = a.turns + 1 /\ (b.exists <=> ~dies)
      /\ leaves <=> ~isInside(boundaries(w), b.position) /\ ~dies
  BY <1>2 DEF TurnOf
<1>4. /\ agents'[w] = Touch(agents[w] \ {a}, touch) \cup (IF leaves THEN {} ELSE {b})
      /\ overlapAgents'[w] = Touch(overlapAgents[w], touch) \cup (IF leaves THEN {b} ELSE {})
      /\ agentsToSend'[w] = agentsToSend[w] \cup (IF leaves THEN {a.id} ELSE {})
      /\ removedAgents'[w] = removedAgents[w] \cup (IF dies THEN {a.id} ELSE {})
  BY <1>2 DEF Turn
<1>5. /\ pc' = pc /\ step' = step /\ sectionIndex' = sectionIndex /\ agentChannel' = agentChannel
      /\ executedAgents'[w] = executedAgents[w] \cup {a.id}
      /\ agentsToExecute'[w] = agentsToExecute[w] \ {a.id}
      /\ \A v \in Worlds : v # w => agentsToExecute'[v] = agentsToExecute[v]
  BY DEF executeAgent, TypeInv, TypeOK
<1>6. /\ agents[w] \subseteq Agent /\ overlapAgents[w] \subseteq Agent
      /\ sectionIndex[w] \in Sections
  BY DEF TypeInv, TypeOK
<1>7. a.id \notin removedAgents[w] /\ a.exists
  BY <1>1 DEF RemovedInv, StepLife, LifeInv, OwnedLife
<1>8. \A S, x : x \in Touch(S, touch) <=> \E y \in S : x = Modified(y, touch)
  BY DEF Touch, Modified
<1>9. \A y \in Agent : LET x == Modified(y, touch)
                       IN  /\ x.id = y.id /\ x.position = y.position
                           /\ x.exists = y.exists /\ x.turns = y.turns
  BY ModifiedKeeps
\* The owned agents are b and the others, which kept all but their value.
<1>10. ASSUME NEW x \in agents'[w]
       PROVE  \/ x = b /\ ~leaves
              \/ \E y \in agents[w] : y.id # a.id /\ AlikeButValue(x, y)
  <2>1. CASE x = b /\ ~leaves
    BY <2>1
  <2>2. CASE ~(x = b /\ ~leaves)
    <3>1. PICK y \in agents[w] \ {a} : x = Modified(y, touch)
      BY <1>4, <1>8, <2>2
    <3>2. y.id # a.id
      BY <3>1 DEF HolderInv, UniqueOwned, UniqueIds
    <3>3. AlikeButValue(x, y)
      BY <1>6, <1>9, <3>1 DEF AlikeButValue
    <3> QED
      BY <3>2, <3>3
  <2> QED
    BY <2>1, <2>2
<1>11. a.id \notin Ids(overlapAgents[w])
  BY DEF HolderInv, OwnedNotGhost, Ids
<1>12. ASSUME NEW x \in overlapAgents'[w]
       PROVE  \/ x = b /\ leaves
              \/ \E y \in overlapAgents[w] :
                     y.id # a.id /\ AlikeButValue(x, y) /\ x = Modified(y, touch)
  <2>1. CASE x = b /\ leaves
    BY <2>1
  <2>2. CASE ~(x = b /\ leaves)
    <3>1. PICK y \in overlapAgents[w] : x = Modified(y, touch)
      BY <1>4, <1>8, <2>2
    <3>2. y.id # a.id
      BY <1>11, <3>1 DEF Ids
    <3>3. AlikeButValue(x, y)
      BY <1>6, <1>9, <3>1 DEF AlikeButValue
    <3> QED
      BY <3>1, <3>2, <3>3
  <2> QED
    BY <2>1, <2>2
<1>13. Reaches(w, sectionIndex[w], b) /\ Sees(w, b)
  <2>1. Reaches(w, sectionIndex[w], b)
    BY <1>1, <1>2, TurnReaches
  <2> QED
    BY <1>6, <2>1, ReachesAreSeen
<1>14. a.turns = step[w]
  <2>1. step[w] \in Nat /\ sectionIndex[w] \in 0 .. 3
    BY NumStepsAssumption DEF TypeInv, TypeOK, Sections
  <2> QED
    BY <1>1, <2>1 DEF StepLife, TurnsInv, TurnsOwned
<1>15. OwnedLife'
  <2> SUFFICES ASSUME NEW v \in Worlds, NEW x \in agents'[v]
               PROVE  /\ x.exists <=> x.id \notin removedAgents'[v]
                      /\ x.exists => Owns(v, x)
    BY DEF OwnedLife
  <2>1. CASE v # w
    BY <1>1, <2>1 DEF OnlyAt, StepLife, LifeInv, OwnedLife
  <2>2. CASE v = w /\ x = b /\ ~leaves
    BY <1>3, <1>4, <1>7, <2>2 DEF Owns
  <2>3. CASE v = w /\ \E y \in agents[w] : y.id # a.id /\ AlikeButValue(x, y)
    <3>1. PICK y \in agents[w] : y.id # a.id /\ AlikeButValue(x, y)
      BY <2>3
    <3> QED
      BY <1>4, <2>3, <3>1 DEF AlikeButValue, StepLife, LifeInv, OwnedLife, Owns
  <2> QED
    BY <1>10, <2>1, <2>2, <2>3
<1>16. GhostLife'
  <2> SUFFICES ASSUME NEW v \in Worlds, NEW x \in overlapAgents'[v]
               PROVE  x.exists /\ Sees(v, x)
    BY DEF GhostLife
  <2>1. CASE v # w
    BY <1>1, <2>1 DEF OnlyAt, StepLife, LifeInv, GhostLife
  <2>2. CASE v = w /\ x = b /\ leaves
    BY <1>3, <1>13, <2>2
  <2>3. CASE v = w /\ \E y \in overlapAgents[w] : y.id # a.id /\ AlikeButValue(x, y)
    BY <2>3 DEF AlikeButValue, StepLife, LifeInv, GhostLife, Sees
  <2> QED
    BY <1>12, <2>1, <2>2, <2>3
<1>17. LeavingLife'
  <2> SUFFICES ASSUME NEW v \in Worlds, NEW x \in Leaving(v)'
               PROVE  Reaches(v, sectionIndex[v], x) /\ x.turns = step[v] + 1
    BY <1>5 DEF LeavingLife
  <2>0. x \in overlapAgents'[v] /\ x.id \in agentsToSend'[v]
    BY DEF Leaving
  <2>1. CASE v # w
    BY <1>1, <2>0, <2>1 DEF OnlyAt, StepLife, LifeInv, LeavingLife, Leaving
  <2>2. CASE v = w /\ x = b /\ leaves
    BY <1>3, <1>13, <1>14, <2>2
  <2>3. CASE v = w /\ \E y \in overlapAgents[w] : y.id # a.id /\ AlikeButValue(x, y)
    <3>1. PICK y \in overlapAgents[w] : y.id # a.id /\ AlikeButValue(x, y)
      BY <2>3
    <3>2. y \in Leaving(w)
      BY <1>4, <2>0, <2>3, <3>1 DEF AlikeButValue, Leaving
    <3> QED
      BY <2>3, <3>1, <3>2 DEF AlikeButValue, StepLife, LifeInv, LeavingLife, Reaches
  <2> QED
    BY <1>12, <2>0, <2>1, <2>2, <2>3
<1>18. SentLife'
  BY <1>5 DEF StepLife, LifeInv, SentLife
<1>19. TurnsOwned'
  <2> SUFFICES ASSUME NEW v \in Worlds, NEW x \in agents'[v]
               PROVE  x.turns = step[v] + (IF x.id \in executedAgents'[v] THEN 1 ELSE 0)
    BY <1>5 DEF TurnsOwned
  <2>1. CASE v # w
    BY <1>1, <2>1 DEF OnlyAt, StepLife, TurnsInv, TurnsOwned
  <2>2. CASE v = w /\ x = b /\ ~leaves
    BY <1>3, <1>5, <1>14, <2>2
  <2>3. CASE v = w /\ \E y \in agents[w] : y.id # a.id /\ AlikeButValue(x, y)
    <3>1. PICK y \in agents[w] : y.id # a.id /\ AlikeButValue(x, y)
      BY <2>3
    <3> QED
      BY <1>5, <2>3, <3>1 DEF AlikeButValue, StepLife, TurnsInv, TurnsOwned
  <2> QED
    BY <1>10, <2>1, <2>2, <2>3
<1>20. SweptInv'
  <2> SUFFICES ASSUME NEW v \in Worlds, ~InRun(v), NEW j \in Sections, PastSection(v, j),
                      NEW x \in agents'[v], x.exists, isInside(section(v, j), x.position)
               PROVE  x.id \in executedAgents'[v]
    BY <1>5 DEF SweptInv, Swept, InRun, PastSection
  <2>0. Swept(v, j)
    BY DEF StepLife, TurnsInv, SweptInv
  <2>1. CASE v # w
    BY <1>1, <2>0, <2>1 DEF OnlyAt, Swept
  <2>2. CASE v = w /\ x = b /\ ~leaves
    BY <1>3, <1>5, <2>2
  <2>3. CASE v = w /\ \E y \in agents[w] : y.id # a.id /\ AlikeButValue(x, y)
    <3>1. PICK y \in agents[w] : y.id # a.id /\ AlikeButValue(x, y)
      BY <2>3
    <3> QED
      BY <1>5, <2>0, <2>3, <3>1 DEF AlikeButValue, Swept
  <2> QED
    BY <1>10, <2>1, <2>2, <2>3
<1>21. ChosenInv'
  <2> SUFFICES ASSUME NEW v \in Worlds, pc[v] = "execute", NEW x \in agents'[v],
                      isInside(section(v, sectionIndex[v]), x.position), x.id \notin executedAgents'[v]
               PROVE  x.id \in agentsToExecute'[v]
    BY <1>5 DEF ChosenInv, inSection, hasBeenExecuted
  <2>0. \A y \in agents[v] : (isInside(section(v, sectionIndex[v]), y.position) /\ y.id \notin executedAgents[v])
                                => y.id \in agentsToExecute[v]
    BY DEF StepLife, TurnsInv, ChosenInv, inSection, hasBeenExecuted
  <2>1. CASE v # w
    BY <1>1, <1>5, <2>0, <2>1 DEF OnlyAt
  <2>2. CASE v = w /\ x = b /\ ~leaves
    BY <1>3, <1>5, <2>2
  <2>3. CASE v = w /\ \E y \in agents[w] : y.id # a.id /\ AlikeButValue(x, y)
    <3>1. PICK y \in agents[w] : y.id # a.id /\ AlikeButValue(x, y)
      BY <2>3
    <3> QED
      BY <1>5, <2>0, <2>3, <3>1 DEF AlikeButValue
  <2> QED
    BY <1>10, <2>1, <2>2, <2>3
<1>22. GhostsOnce'
  <2> SUFFICES ASSUME NEW v \in Worlds, NEW x \in overlapAgents'[v], NEW y \in overlapAgents'[v], x.id = y.id
               PROVE  x = y
    BY DEF GhostsOnce, UniqueIds
  <2>1. CASE v # w
    BY <1>1, <2>1 DEF OnlyAt, StepLife, GhostsOnce, UniqueIds
  <2>2. CASE v = w
    BY <1>3, <1>12, <2>2 DEF AlikeButValue, StepLife, GhostsOnce, UniqueIds
  <2> QED
    BY <2>1, <2>2
<1> QED
  BY <1>15, <1>16, <1>17, <1>18, <1>19, <1>20, <1>21, <1>22 DEF StepLife, LifeInv, TurnsInv

(* sendAgents: nobody of the section is left to be executed, and each is   *)
(* sent to the owner of its cell.                                          *)
LEMMA sendAgentsLife ==
    ASSUME TypeInv, HolderInv, StepLife, NEW w \in Worlds, sendAgents(w)
    PROVE  StepLife'
<1>1. /\ agents' = agents /\ overlapAgents' = overlapAgents
      /\ executedAgents' = executedAgents /\ removedAgents' = removedAgents
      /\ step' = step /\ sectionIndex' = sectionIndex
      /\ agentsToSend'[w] = {}
      /\ \A v \in Worlds : v # w => agentsToSend'[v] = agentsToSend[v]
      /\ \A v \in Worlds : v # w => agentsToExecute'[v] = agentsToExecute[v]
      /\ pc[w] = "execute" /\ Executable(w) = {}
      /\ \A v \in Worlds : v # w => pc'[v] = pc[v]
  BY DEF sendAgents, Goto, TypeInv, TypeOK
<1>2. agentChannel' = Put(agentChannel, w, AgentLists(w)) /\ pc'[w] = "receiveAgents"
  BY sendAgentsHeld
<1>3. \A v \in Worlds : \A x : x \in Leaving(v)' => x \in Leaving(v)
  BY <1>1 DEF Leaving
<1>4. OwnedLife' /\ GhostLife' /\ TurnsOwned' /\ GhostsOnce'
  BY <1>1 DEF StepLife, LifeInv, TurnsInv, OwnedLife, GhostLife, TurnsOwned, GhostsOnce
<1>5. LeavingLife'
  BY <1>1, <1>3 DEF StepLife, LifeInv, LeavingLife
<1>6. SentLife'
  <2> SUFFICES ASSUME NEW c \in Channels, NEW k \in DOMAIN agentChannel'[c], NEW a \in agentChannel'[c][k]
               PROVE  a.exists /\ Owns(c[2], a)
    BY DEF SentLife
  <2>1. CASE k \in DOMAIN agentChannel[c] /\ a \in agentChannel[c][k]
    BY <2>1 DEF StepLife, LifeInv, SentLife
  <2>2. CASE a \in BoundFor(w, c[2])
    <3>1. a \in overlapAgents[w] /\ getIdFromPosition(a.position) = c[2]
      BY <2>2 DEF BoundFor, Leaving
    <3>2. a.position \in Cells /\ a.exists
      BY <3>1 DEF TypeInv, TypeOK, Agent, StepLife, LifeInv, GhostLife
    <3> QED
      BY <3>1, <3>2, OwnerOfCell DEF Owns
  <2> QED
    BY <1>2, <2>1, <2>2, PutLists
<1>7. ChosenInv'
  BY <1>1, <1>2 DEF StepLife, TurnsInv, ChosenInv, inSection, hasBeenExecuted
<1>8. SweptInv'
  <2> SUFFICES ASSUME NEW v \in Worlds, ~InRun(v)', NEW j \in Sections, PastSection(v, j)',
                      NEW x \in agents[v], x.exists, isInside(section(v, j), x.position)
               PROVE  x.id \in executedAgents[v]
    BY <1>1 DEF SweptInv, Swept
  <2>1. CASE v # w \/ j # sectionIndex[w]
    <3>1. ~InRun(v) /\ PastSection(v, j)
      BY <1>1, <1>2, <2>1 DEF InRun, PastSection
    <3> QED
      BY <3>1 DEF StepLife, TurnsInv, SweptInv, Swept
  <2>2. CASE v = w /\ j = sectionIndex[w]
    <3>1. x \notin Executable(w)
      BY <1>1
    <3> QED
      BY <1>1, <2>2, <3>1 DEF Executable, StepLife, TurnsInv, ChosenInv, inSection,
         hasBeenExecuted
  <2> QED
    BY <2>1, <2>2
<1> QED
  BY <1>4, <1>5, <1>6, <1>7, <1>8 DEF StepLife, LifeInv, TurnsInv

(* receiveAgents: who arrives counts as executed.                          *)
LEMMA receiveAgentsLife ==
    ASSUME TypeInv, HolderInv, RemovedInv, StepLife, NEW w \in Worlds, receiveAgents(w),
           \A i \in Incoming(w) : i.turns = step[w] + 1
    PROVE  StepLife'
<1>1. /\ Arrived(agentChannel, w, Neighbors(w))
      /\ agentChannel' = Take(agentChannel, w, Neighbors(w))
      /\ agents'[w] = agents[w] \cup Incoming(w)
      /\ executedAgents'[w] = executedAgents[w] \cup Ids(Incoming(w))
      /\ overlapAgents'[w] = Without(overlapAgents[w], Ids(Incoming(w)))
      /\ \A v \in Worlds : v # w => /\ agents'[v] = agents[v]
                                    /\ executedAgents'[v] = executedAgents[v]
                                    /\ overlapAgents'[v] = overlapAgents[v]
                                    /\ pc'[v] = pc[v]
      /\ pc[w] = "receiveAgents" /\ pc'[w] = "sendGhosts"
      /\ step' = step /\ sectionIndex' = sectionIndex /\ agentsToExecute' = agentsToExecute
      /\ agentsToSend' = agentsToSend /\ removedAgents' = removedAgents
  BY DEF receiveAgents, Goto, TypeInv, TypeOK
<1>2. \A v \in Worlds : overlapAgents'[v] \subseteq overlapAgents[v]
  BY <1>1 DEF Without
<1>3. ASSUME NEW i \in Incoming(w)
      PROVE  i \in Agent /\ i.exists /\ Owns(w, i) /\ i.id \notin Ids(agents[w])
  <2>1. PICK v \in Neighbors(w) : i \in agentChannel[<<v, w>>][1]
    BY <1>1, IncomingCases
  <2>2. <<v, w>> \in Channels /\ 1 \in DOMAIN agentChannel[<<v, w>>] /\ i \in Agent
    BY <1>1, IncomingCases
  <2>3. i.exists /\ Owns(w, i)
    BY <2>1, <2>2 DEF StepLife, LifeInv, SentLife
  <2>4. i.id \notin Ids(agents[w])
    <3>1. SUFFICES ASSUME i.id \in Ids(agents[w]) PROVE FALSE
      OBVIOUS
    <3>2. <<"owned", w>> \in Places(i.id)
      BY <3>1, PlaceCases
    <3>3. i.id \in Ids(agentChannel[<<v, w>>][1])
      BY <2>1 DEF Ids
    <3>4. <<"sent", <<v, w>>, 1>> \in Places(i.id)
      BY <2>2, <3>3, PlaceCases
    <3>5. i.id \in Agents
      BY <2>2 DEF Agent
    <3>6. <<"sent", <<v, w>>, 1>> = <<"owned", w>>
      BY <3>2, <3>4, <3>5 DEF HolderInv, OnePlace
    <3>7. <<"sent", <<v, w>>, 1>>[1] # <<"owned", w>>[1]
      OBVIOUS
    <3> QED
      BY <3>6, <3>7
  <2> QED
    BY <2>2, <2>3, <2>4
<1>4. \A y \in agents[w] : y.id \notin Ids(Incoming(w))
  BY <1>3 DEF Ids
<1>5. OwnedLife'
  <2> SUFFICES ASSUME NEW v \in Worlds, NEW x \in agents'[v]
               PROVE  (x.exists <=> x.id \notin removedAgents[v]) /\ (x.exists => Owns(v, x))
    BY <1>1 DEF OwnedLife
  <2>1. CASE x \in agents[v]
    BY <2>1 DEF StepLife, LifeInv, OwnedLife
  <2>2. CASE v = w /\ x \in Incoming(w)
    BY <1>3, <2>2 DEF RemovedInv
  <2> QED
    BY <1>1, <2>1, <2>2
<1>6. GhostLife' /\ GhostsOnce'
  BY <1>2 DEF StepLife, LifeInv, GhostLife, GhostsOnce, UniqueIds
<1>7. LeavingLife'
  <2>1. \A v \in Worlds : \A x : x \in Leaving(v)' => x \in Leaving(v)
    BY <1>1, <1>2 DEF Leaving
  <2> QED
    BY <1>1, <2>1 DEF StepLife, LifeInv, LeavingLife
<1>8. SentLife'
  <2> SUFFICES ASSUME NEW c \in Channels, NEW k \in DOMAIN agentChannel'[c], NEW a \in agentChannel'[c][k]
               PROVE  a.exists /\ Owns(c[2], a)
    BY DEF SentLife
  <2>1. \E i \in DOMAIN agentChannel[c] : a \in agentChannel[c][i]
    BY <1>1, TakeLists
  <2> QED
    BY <2>1 DEF StepLife, LifeInv, SentLife
<1>9. TurnsOwned'
  <2> SUFFICES ASSUME NEW v \in Worlds, NEW x \in agents'[v]
               PROVE  x.turns = step[v] + (IF x.id \in executedAgents'[v] THEN 1 ELSE 0)
    BY <1>1 DEF TurnsOwned
  <2>1. CASE x \in agents[v]
    BY <1>1, <1>4, <2>1 DEF StepLife, TurnsInv, TurnsOwned
  <2>2. CASE v = w /\ x \in Incoming(w)
    BY <1>1, <2>2 DEF Ids
  <2> QED
    BY <1>1, <2>1, <2>2
<1>10. SweptInv'
  <2> SUFFICES ASSUME NEW v \in Worlds, ~InRun(v)', NEW j \in Sections, PastSection(v, j)',
                      NEW x \in agents'[v], x.exists, isInside(section(v, j), x.position)
               PROVE  x.id \in executedAgents'[v]
    BY DEF SweptInv, Swept
  <2>1. CASE x \in agents[v]
    <3>1. ~InRun(v) /\ PastSection(v, j)
      BY <1>1 DEF InRun, PastSection
    <3>2. x.id \in executedAgents[v]
      BY <2>1, <3>1 DEF StepLife, TurnsInv, SweptInv, Swept
    <3> QED
      BY <1>1, <3>2
  <2>2. CASE v = w /\ x \in Incoming(w)
    BY <1>1, <2>2 DEF Ids
  <2> QED
    BY <1>1, <2>1, <2>2
<1>11. ChosenInv'
  BY <1>1 DEF StepLife, TurnsInv, ChosenInv, inSection, hasBeenExecuted
<1> QED
  BY <1>5, <1>6, <1>7, <1>8, <1>9, <1>10, <1>11 DEF StepLife, LifeInv, TurnsInv

(* ReceiveGhosts: the agents stay, the ghosts are new.                     *)
LEMMA ReceiveGhostsLife ==
    ASSUME TypeInv, HolderInv, StepLife, NEW w \in Worlds,
           NEW from, NEW loop, NEW last, ReceiveGhosts(w, from, loop, last),
           \/ from = "receiveGhosts" /\ loop = "stepSection" /\ last = "removeAgents"
           \/ from = "initReceiveGhosts" /\ loop = "barrier" /\ last = "stepSection",
           \A x \in agents'[w] : \E y \in agents[w] : AlikeButValue(y, x),
           \A x \in overlapAgents'[w] : x.exists /\ Sees(w, x),
           UniqueIds(overlapAgents'[w])
    PROVE  StepLife'
<1>1. /\ agentChannel' = agentChannel /\ step' = step
      /\ executedAgents' = executedAgents /\ removedAgents' = removedAgents
      /\ agentsToSend' = agentsToSend /\ agentsToExecute' = agentsToExecute
      /\ pc[w] = from /\ pc'[w] = IF sectionIndex[w] = 3 THEN last ELSE loop
      /\ \A v \in Worlds : v # w => /\ pc'[v] = pc[v] /\ sectionIndex'[v] = sectionIndex[v]
                                    /\ agents'[v] = agents[v] /\ overlapAgents'[v] = overlapAgents[v]
      /\ sectionIndex'[w] = nextSection(sectionIndex[w])
      /\ sectionIndex[w] \in Sections
  BY DEF ReceiveGhosts, Goto, TypeInv, TypeOK, localVars
<1>2. agentsToSend[w] = {}
  BY <1>1 DEF HolderInv, LeavingInv
<1>3. \A v \in Worlds : \A x \in agents'[v] : \E y \in agents[v] : AlikeButValue(y, x)
  <2>1. \A v \in Worlds : \A x \in agents[v] : AlikeButValue(x, x)
    BY DEF AlikeButValue
  <2> QED
    BY <1>1, <2>1
<1>4. OwnedLife'
  <2> SUFFICES ASSUME NEW v \in Worlds, NEW x \in agents'[v]
               PROVE  (x.exists <=> x.id \notin removedAgents[v]) /\ (x.exists => Owns(v, x))
    BY <1>1 DEF OwnedLife
  <2>1. PICK y \in agents[v] : AlikeButValue(y, x)
    BY <1>3
  <2> QED
    BY <2>1 DEF AlikeButValue, StepLife, LifeInv, OwnedLife, Owns
<1>5. GhostLife' /\ GhostsOnce'
  BY <1>1 DEF StepLife, LifeInv, GhostLife, GhostsOnce
<1>6. LeavingLife'
  <2>1. \A v \in Worlds : v # w => Leaving(v)' = Leaving(v)
    BY <1>1 DEF Leaving
  <2>2. Leaving(w)' = {}
    BY <1>1, <1>2 DEF Leaving
  <2> QED
    BY <1>1, <2>1, <2>2 DEF StepLife, LifeInv, LeavingLife
<1>7. SentLife'
  BY <1>1 DEF StepLife, LifeInv, SentLife
<1>8. TurnsOwned'
  BY <1>1, <1>3 DEF AlikeButValue, StepLife, TurnsInv, TurnsOwned
<1>9. ChosenInv'
  <2> SUFFICES ASSUME NEW v \in Worlds, pc'[v] = "execute"
               PROVE  v # w
    BY <1>1 DEF StepLife, TurnsInv, ChosenInv, inSection, hasBeenExecuted
  <2> QED
    BY <1>1
<1>10. SweptInv'
  <2> SUFFICES ASSUME NEW v \in Worlds, ~InRun(v)', NEW j \in Sections, PastSection(v, j)',
                      NEW x \in agents'[v], x.exists, isInside(section(v, j), x.position)
               PROVE  x.id \in executedAgents[v]
    BY <1>1 DEF SweptInv, Swept
  <2>1. ~InRun(v) /\ PastSection(v, j)
    <3>1. CASE v # w
      BY <1>1, <3>1 DEF InRun, PastSection
    <3>2. CASE v = w /\ from = "receiveGhosts"
      <4>1. sectionIndex[w] \in 0 .. 3 /\ j \in 0 .. 3
        BY <1>1 DEF Sections
      <4>2. CASE sectionIndex[w] = 3
        BY <1>1, <3>2, <4>1, <4>2 DEF InRun, PastSection
      <4>3. CASE sectionIndex[w] # 3
        <5>1. sectionIndex'[w] = sectionIndex[w] + 1
          BY <1>1, <4>1, <4>3 DEF nextSection
        <5> QED
          BY <1>1, <3>2, <4>1, <4>3, <5>1 DEF InRun, PastSection
      <4> QED
        BY <4>2, <4>3
    <3>3. CASE v = w /\ from = "initReceiveGhosts"
      <4>1. sectionIndex[w] \in 0 .. 3 /\ j \in 0 .. 3
        BY <1>1 DEF Sections
      <4>2. sectionIndex[w] = 3
        BY <1>1, <3>3 DEF InRun
      <4>3. sectionIndex'[w] = 0
        BY <1>1, <4>2 DEF nextSection
      <4> QED
        BY <1>1, <3>3, <4>1, <4>2, <4>3 DEF PastSection
    <3> QED
      BY <3>1, <3>2, <3>3
  <2>2. PICK y \in agents[v] : AlikeButValue(y, x)
    BY <1>3
  <2> QED
    BY <2>1, <2>2 DEF AlikeButValue, StepLife, TurnsInv, SweptInv, Swept
<1> QED
  BY <1>4, <1>5, <1>6, <1>7, <1>8, <1>9, <1>10 DEF StepLife, LifeInv, TurnsInv

(* Every agent that still exists has been executed: it stands in one of    *)
(* the sections of the world.                                              *)
LEMMA AllExecuted ==
    ASSUME TypeInv, RemovedInv, StepLife, NEW w \in Worlds, pc[w] = "removeAgents"
    PROVE  \A a \in agents[w] : a.turns = step[w] + 1
<1> SUFFICES ASSUME NEW a \in agents[w] PROVE a.id \in executedAgents[w]
  BY DEF StepLife, TurnsInv, TurnsOwned
<1>1. CASE ~a.exists
  BY <1>1 DEF RemovedInv, StepLife, LifeInv, OwnedLife
<1>2. CASE a.exists
  <2>1. Owns(w, a) /\ a.position \in Cells
    BY <1>2 DEF StepLife, LifeInv, OwnedLife, TypeInv, TypeOK, Agent
  <2>2. PICK j \in Sections : isInside(section(w, j), a.position)
    BY <2>1, SectionsOfWorld DEF Owns
  <2>3. Swept(w, j)
    BY DEF StepLife, TurnsInv, SweptInv, PastSection, InRun
  <2> QED
    BY <1>2, <2>2, <2>3 DEF Swept
<1> QED
  BY <1>1, <1>2

(* removeAgents begins a step in which nobody was executed.                *)
LEMMA removeAgentsLife ==
    ASSUME TypeInv, HolderInv, RemovedInv, RunInv, NoException', StepLife, NEW w \in Worlds,
           removeAgents(w)
    PROVE  StepLife'
<1>1. /\ overlapAgents' = overlapAgents /\ agentChannel' = agentChannel /\ sectionIndex' = sectionIndex
      /\ agentsToSend' = agentsToSend /\ agentsToExecute' = agentsToExecute
      /\ pc[w] = "removeAgents" /\ step'[w] = step[w] + 1
      /\ executedAgents'[w] = {} /\ removedAgents'[w] = {}
      /\ \A v \in Worlds : v # w => /\ pc'[v] = pc[v] /\ step'[v] = step[v]
                                    /\ agents'[v] = agents[v]
                                    /\ executedAgents'[v] = executedAgents[v]
                                    /\ removedAgents'[v] = removedAgents[v]
  BY DEF removeAgents, Goto, TypeInv, TypeOK
<1>2. /\ \A v \in Worlds : agents'[v] \subseteq agents[v]
      /\ pc'[w] \in {"finished", "stepSection"}
      /\ \A a \in agents'[w] : a.exists
  BY removeAgentsPresent DEF StepLife, LifeInv
<1>3. agentsToSend[w] = {}
  BY <1>1 DEF HolderInv, LeavingInv
<1>4. OwnedLife'
  <2> SUFFICES ASSUME NEW v \in Worlds, NEW x \in agents'[v]
               PROVE  (x.exists <=> x.id \notin removedAgents'[v]) /\ (x.exists => Owns(v, x))
    BY DEF OwnedLife
  <2> QED
    BY <1>1, <1>2 DEF StepLife, LifeInv, OwnedLife
<1>5. GhostLife' /\ GhostsOnce' /\ SentLife'
  BY <1>1 DEF StepLife, LifeInv, GhostLife, GhostsOnce, SentLife
<1>6. LeavingLife'
  <2>1. \A v \in Worlds : Leaving(v)' = Leaving(v)
    BY <1>1 DEF Leaving
  <2>2. Leaving(w) = {}
    BY <1>3 DEF Leaving
  <2> QED
    BY <1>1, <2>1, <2>2 DEF StepLife, LifeInv, LeavingLife
<1>7. TurnsOwned'
  <2> SUFFICES ASSUME NEW v \in Worlds, NEW x \in agents'[v]
               PROVE  x.turns = step'[v] + (IF x.id \in executedAgents'[v] THEN 1 ELSE 0)
    BY DEF TurnsOwned
  <2>1. CASE v # w
    BY <1>1, <2>1 DEF StepLife, TurnsInv, TurnsOwned
  <2>2. CASE v = w
    <3>1. x.turns = step[w] + 1
      BY <1>1, <1>2, <2>2, AllExecuted
    <3>2. step[w] \in Nat /\ sectionIndex[w] \in 0 .. 3
      BY NumStepsAssumption DEF TypeInv, TypeOK, Sections
    <3> QED
      BY <1>1, <2>2, <3>1, <3>2
  <2> QED
    BY <2>1, <2>2
<1>8. ChosenInv'
  BY <1>1, <1>2 DEF StepLife, TurnsInv, ChosenInv, inSection, hasBeenExecuted
<1>9. SweptInv'
  <2> SUFFICES ASSUME NEW v \in Worlds, ~InRun(v)', NEW j \in Sections, PastSection(v, j)'
               PROVE  /\ v # w
    BY <1>1 DEF StepLife, TurnsInv, SweptInv, Swept, InRun, PastSection
  <2>1. sectionIndex[w] = 0
    BY <1>1 DEF RunInv, StepEnds
  <2> QED
    BY <1>1, <1>2, <2>1 DEF PastSection, Sections
<1> QED
  BY <1>4, <1>5, <1>6, <1>7, <1>8, <1>9 DEF StepLife, LifeInv, TurnsInv

----------------------------------------------------------------------------
(* The exchange of ghosts in run *)

\* The agents of the sections before section j have been sent to whoever sees
\* them.
Told(j, b) == \E u \in Worlds, i \in Sections : i < j /\ isInside(section(u, i), b.position)

\* What is sent in section j: agents of S, and at least those that the sender
\* owns or was told of.
RunLetter(c, j, m, S) ==
    /\ m \subseteq Slice(c[1], c[2], j, S)
    /\ \A b \in Slice(c[1], c[2], j, S) : (Owns(c[1], b) \/ Told(j, b)) => b \in m

\* Before the ghosts of the last section are sent: S are all agents.
RunViews(S) ==
    /\ \A w \in Worlds : InRun(w) /\ (pc[w] = "barrier" \/ sectionIndex[w] # 3)
    /\ Present = S
    /\ \A w \in Worlds : agents[w] = {b \in S : Owns(w, b)} /\ overlapAgents[w] \subseteq S
    /\ \A w \in Worlds : \A b \in S : (Sees(w, b) /\ Told(sectionIndex[w], b)) => b \in Visible(w)
    /\ \A c \in Channels : \A k \in DOMAIN ghostChannel[c] :
            RunLetter(c, sectionIndex[c[2]], ghostChannel[c][k], S)

\* No two existing agents share a cell.
CellsApart == \A a, b \in Present : (a.exists /\ b.exists /\ a.position = b.position) => a = b

(* The agents at the start are the population of run.                      *)
LEMMA InitRunViews ==
    ASSUME Init
    PROVE  /\ RunViews(Present) /\ Population(Present)
           /\ CellsApart
<1>1. PICK place \in [Agents -> InitialCells] :
        /\ \A a, b \in Agents : a # b => place[a] # place[b]
        /\ agents = [w \in Worlds |->
              {[id |-> a, position |-> place[a], exists |-> TRUE, turns |-> 0, value |-> 0]
                  : a \in {b \in Agents : isInside(boundaries(w), place[b])}}]
  BY DEF Init
<1>2. /\ overlapAgents = [w \in Worlds |-> {}] /\ agentsToSend = [w \in Worlds |-> {}]
      /\ agentChannel = [c \in Channels |-> << >>] /\ ghostChannel = [c \in Channels |-> << >>]
      /\ sectionIndex = [w \in Worlds |-> 0] /\ touched = [a \in Agents |-> 0]
      /\ pc = [w \in Worlds |-> "barrier"]
  BY DEF Init
<1>3. TypeInv /\ HolderInv
  BY InitType, InitHolder
<1>4. ASSUME NEW w \in Worlds, NEW a \in agents[w]
      PROVE  /\ a \in Agent /\ a.exists /\ Owns(w, a) /\ a.value = 0 /\ a.id \in Agents
             /\ a.position = place[a.id] /\ Now(a, touched) = a
  <2>1. PICK i \in Agents : /\ isInside(boundaries(w), place[i])
                            /\ a = [id |-> i, position |-> place[i], exists |-> TRUE, turns |-> 0, value |-> 0]
    BY <1>1, <1>4
  <2>2. a \in Agent
    BY <1>3 DEF TypeInv, TypeOK
  <2>3. a.exists /\ Owns(w, a) /\ a.value = 0 /\ a.position = place[a.id] /\ a.id \in Agents
    BY <2>1 DEF Owns
  <2>4. touched \in [Agents -> Nat] /\ touched[a.id] = 0
    BY <1>2, <2>3
  <2>5. Now(a, touched) = a
    BY <2>2, <2>3, <2>4, NowKeeps
  <2> QED
    BY <2>2, <2>3, <2>5
<1>5. \A h : h \in Held <=> \E w \in Worlds : h \in agents[w]
  <2>1. \A w \in Worlds : Leaving(w) = {}
    BY <1>2 DEF Leaving
  <2>2. \A c \in Channels : DOMAIN agentChannel[c] = {}
    BY <1>2
  <2> QED
    BY <2>1, <2>2, HeldCases
<1>6. \A x : x \in Present <=> \E w \in Worlds : x \in agents[w]
  <2>1. \A x : x \in Present <=> \E h \in Held : x = Now(h, touched)
    BY DEF Present
  <2> QED
    BY <1>4, <1>5, <2>1
<1>7. Population(Present)
  BY <1>3, <1>4, <1>6, PresentFacts DEF Population
<1>8. ASSUME NEW w \in Worlds
      PROVE  agents[w] = {b \in Present : Owns(w, b)} /\ overlapAgents[w] \subseteq Present
  <2>1. ASSUME NEW b \in Present, Owns(w, b)
        PROVE  b \in agents[w]
    <3>1. PICK v \in Worlds : b \in agents[v]
      BY <1>6
    <3>2. Owns(v, b) /\ b.position \in Cells
      BY <1>4, <3>1 DEF Agent
    <3>3. v = w
      BY <2>1, <3>2, OneOwner DEF Owns
    <3> QED
      BY <3>1, <3>3
  <2>2. \A b \in agents[w] : b \in Present /\ Owns(w, b)
    BY <1>4, <1>6
  <2> QED
    BY <1>2, <2>1, <2>2
<1>9. CellsApart
  <2> SUFFICES ASSUME NEW a \in Present, NEW b \in Present, a.position = b.position
               PROVE  a = b
    BY DEF CellsApart
  <2>1. a.id \in Agents /\ b.id \in Agents /\ a.position = place[a.id] /\ b.position = place[b.id]
    BY <1>4, <1>6
  <2>2. a.id = b.id
    BY <1>1, <2>1
  <2> QED
    BY <1>3, <2>2, PresentFacts DEF UniqueIds
<1>10. \A w \in Worlds : \A b \in Present : ~Told(sectionIndex[w], b)
  BY <1>2 DEF Told, Sections
<1>11. \A c \in Channels : DOMAIN ghostChannel[c] = {}
  BY <1>2
<1>12. \A w \in Worlds : InRun(w) /\ pc[w] = "barrier"
  BY <1>2 DEF InRun
<1>13. RunViews(Present)
  BY <1>8, <1>10, <1>11, <1>12 DEF RunViews
<1> QED
  BY <1>7, <1>9, <1>13

(* In run the list of ghosts tells the neighbour what the world knows.     *)
LEMMA RunGhostList ==
    ASSUME FewWorlds, TypeInv, HolderInv, RemovedInv, StepLife, NEW S, Population(S),
           RunViews(S),
           NEW w \in Worlds, NEW v \in Worlds, v # w, v \in SendTo(w, sectionIndex[w])
    PROVE  RunLetter(<<w, v>>, sectionIndex[w], GhostList(w, v), S)
<1> DEFINE s == sectionIndex[w]
<1>1. s \in Sections /\ S \subseteq Agent
  BY DEF TypeInv, TypeOK, Population
<1>2. \A x \in Visible(w) : x \in S /\ x.exists
  BY DEF RunViews, Population, Visible
<1>3. \A x \in Visible(w) : x.id \notin removedAgents[w]
  <2>1. \A x \in agents[w] : x.id \notin removedAgents[w]
    BY <1>2 DEF Visible, StepLife, LifeInv, OwnedLife
  <2>2. \A x \in overlapAgents[w] : x.id \notin removedAgents[w]
    BY DEF RemovedInv, HolderInv, OwnedNotGhost, Ids
  <2> QED
    BY <2>1, <2>2 DEF Visible
<1>4. \A x \in Agent : isInside(Zone(w, v, s), x.position) <=> Reaches(w, s, x) /\ Sees(v, x)
  BY <1>1, ZoneOfSlice
<1>5. \A x : x \in GhostList(w, v) <=> x \in Visible(w) /\ Reaches(w, s, x) /\ Sees(v, x)
  BY <1>1, <1>2, <1>3, <1>4 DEF GhostList
<1>6. \A x : x \in Slice(w, v, s, S) <=> x \in S /\ Reaches(w, s, x) /\ Sees(v, x)
  BY DEF Slice
<1>7. \A b \in S : Reaches(w, s, b) => Sees(w, b)
  BY <1>1, ReachesAreSeen
<1>8. \A b \in S : (Sees(w, b) /\ Told(s, b)) => b \in Visible(w)
  BY DEF RunViews
<1>9. \A b \in S : Owns(w, b) => b \in Visible(w)
  BY DEF RunViews, Visible
<1>10. GhostList(w, v) \subseteq Slice(w, v, s, S)
  BY <1>2, <1>5, <1>6
<1>11. \A b \in Slice(w, v, s, S) : (Owns(w, b) \/ Told(s, b)) => b \in GhostList(w, v)
  BY <1>5, <1>6, <1>7, <1>8, <1>9
<1> QED
  BY <1>10, <1>11 DEF RunLetter

(* Sending ghosts in run.                                                  *)
LEMMA InitSendRunViews ==
    ASSUME FewWorlds, TypeInv, HolderInv, RemovedInv, RunInv, StepLife, NEW S, Population(S),
           RunViews(S),
           NEW w \in Worlds, InitSendGhosts(w)
    PROVE  RunViews(S)'
<1>1. /\ agents' = agents /\ overlapAgents' = overlapAgents /\ agentChannel' = agentChannel
      /\ sectionIndex' = sectionIndex /\ touched' = touched /\ agentsToSend' = agentsToSend
      /\ pc[w] = "initSendGhosts" /\ pc'[w] = "initReceiveGhosts"
      /\ \A v \in Worlds : v # w => pc'[v] = pc[v]
      /\ SendGhosts(w, "initSendGhosts", "initReceiveGhosts")
  BY DEF InitSendGhosts, SendGhosts, Goto, TypeInv, TypeOK, localVars
<1>2. Present' = Present
  BY <1>1 DEF Held, Leaving, Present
<1>3. \A v \in Worlds : (InRun(v) /\ (pc[v] = "barrier" \/ sectionIndex[v] # 3))'
  BY <1>1 DEF RunViews, InRun
\* Whoever is sent a list is in the same section and has no other.
<1>4. ASSUME NEW v \in Worlds, v # w, v \in SendTo(w, sectionIndex[w])
      PROVE  sectionIndex[v] = sectionIndex[w]
  <2>1. /\ InRun(v) /\ InRun(w) /\ Reached(v) = sectionIndex[v] /\ Reached(w) = sectionIndex[w]
        /\ sectionIndex[v] \in 0 .. 3 /\ sectionIndex[w] \in 0 .. 3
    BY DEF RunViews, Reached, TypeInv, TypeOK, Sections
  <2>2. Reached(w) =< Reached(v) + 1 /\ Reached(v) =< Reached(w) + 1
    BY DEF RunInv, InitSync
  <2>3. Reached(w) # Reached(v) + 1
    BY <1>1 DEF RunInv, InitSync
  <2>4. Reached(v) = Reached(w) + 1 => w \notin ReceiveFrom(v, sectionIndex[w])
    BY <1>1 DEF RunInv, InitSync
  <2>5. w \in ReceiveFrom(v, sectionIndex[w])
    BY <1>4, <2>1, GhostsAwaited DEF Sections
  <2> QED
    BY <2>1, <2>2, <2>3, <2>4, <2>5
<1>5. ASSUME NEW c \in Channels, NEW k \in DOMAIN ghostChannel'[c]
      PROVE  RunLetter(c, sectionIndex[c[2]], ghostChannel'[c][k], S)
  <2>1. c[1] \in Worlds /\ c[2] \in Worlds /\ c = <<c[1], c[2]>> /\ c[1] # c[2]
    BY ChannelEnds
  <2>2. ghostChannel[c] \in Seq(SUBSET Agent)
    BY DEF TypeInv, TypeOK
  <2>3. CASE c[1] = w /\ c[2] \in SendTo(w, sectionIndex[w])
    <3>1. ghostChannel'[c] = Append(ghostChannel[c], GhostList(w, c[2]))
      BY <2>3, <1>1, PutGhosts
    <3>2. CASE k \in DOMAIN ghostChannel[c]
      <4>1. ghostChannel'[c][k] = ghostChannel[c][k]
        BY <2>2, <3>1, <3>2
      <4> QED
        BY <3>2, <4>1 DEF RunViews
    <3>3. CASE k \notin DOMAIN ghostChannel[c]
      <4>1. ghostChannel'[c][k] = GhostList(w, c[2])
        BY <2>2, <3>1, <3>3
      <4>2. RunLetter(<<w, c[2]>>, sectionIndex[w], GhostList(w, c[2]), S)
        BY <2>1, <2>3, RunGhostList
      <4> QED
        BY <1>4, <2>1, <2>3, <4>1, <4>2
    <3> QED
      BY <3>2, <3>3
  <2>4. CASE ~(c[1] = w /\ c[2] \in SendTo(w, sectionIndex[w]))
    <3>1. ghostChannel'[c] = ghostChannel[c]
      BY <2>4, <1>1, PutGhosts
    <3> QED
      BY <3>1 DEF RunViews
  <2> QED
    BY <2>3, <2>4
<1>6. \A v \in Worlds : Visible(v)' = Visible(v)
  BY <1>1 DEF Visible
<1> QED
  BY <1>1, <1>2, <1>3, <1>5, <1>6 DEF RunViews

(* In run a world gets from its neighbours what they own or were told of.  *)
LEMMA InitReceiveRunViews ==
    ASSUME FewWorlds, TypeInv, TypeInv', HolderInv, RunInv, StepLife, NEW S, Population(S),
           RunViews(S),
           NEW w \in Worlds, InitReceiveGhosts(w)
    PROVE  /\ RunViews(S)'
           /\ Present' = Present
           /\ \A x \in agents'[w] : \E y \in agents[w] : AlikeButValue(y, x)
           /\ \A x \in overlapAgents'[w] : x \in S /\ Sees(w, x)
<1> DEFINE s == sectionIndex[w]
<1>0. ReceiveGhosts(w, "initReceiveGhosts", "barrier", "stepSection")
  BY DEF InitReceiveGhosts
<1>1. /\ pc[w] = "initReceiveGhosts" /\ pc'[w] = IF sectionIndex[w] = 3 THEN "stepSection" ELSE "barrier"
      /\ \A v \in Worlds : v # w => pc'[v] = pc[v] /\ sectionIndex'[v] = sectionIndex[v]
      /\ sectionIndex'[w] = nextSection(sectionIndex[w])
      /\ Arrived(ghostChannel, w, ReceiveFrom(w, sectionIndex[w]))
  BY <1>0 DEF ReceiveGhosts, Goto, TypeInv, TypeOK
<1>2. s \in 0 .. 3 /\ s # 3 /\ s \in Sections /\ S \subseteq Agent
  BY <1>1 DEF TypeInv, TypeOK, Sections, RunViews, Population
<1>3. pc'[w] = "barrier" /\ sectionIndex'[w] = s + 1
  <2>1. nextSection(s) = s + 1
    BY <1>2 DEF nextSection
  <2> QED
    BY <1>1, <1>2, <2>1
<1>4. ASSUME NEW v \in ReceiveFrom(w, s)
      PROVE  /\ v \in Worlds /\ v # w /\ <<v, w>> \in Channels
             /\ Head(ghostChannel[<<v, w>>]) = ghostChannel[<<v, w>>][1]
             /\ RunLetter(<<v, w>>, s, ghostChannel[<<v, w>>][1], S)
  <2>1. v \in Worlds /\ v # w /\ <<v, w>> \in Channels
    <3>1. v \in Neighbors(w)
      BY DEF ReceiveFrom
    <3>2. v \in Worlds /\ v # w
      BY <3>1 DEF Neighbors
    <3> QED
      BY <3>2, OtherWorlds
  <2>2. ghostChannel[<<v, w>>] # << >> /\ ghostChannel[<<v, w>>] \in Seq(SUBSET Agent)
    BY <1>1, <2>1 DEF Arrived, TypeInv, TypeOK
  <2>3. 1 \in DOMAIN ghostChannel[<<v, w>>] /\ Head(ghostChannel[<<v, w>>]) = ghostChannel[<<v, w>>][1]
    BY <2>2
  <2>4. \A c \in Channels : \A k \in DOMAIN ghostChannel[c] :
            RunLetter(c, sectionIndex[c[2]], ghostChannel[c][k], S)
    BY DEF RunViews
  <2>5. RunLetter(<<v, w>>, sectionIndex[<<v, w>>[2]], ghostChannel[<<v, w>>][1], S)
    BY <2>1, <2>3, <2>4
  <2>6. <<v, w>>[2] = w
    OBVIOUS
  <2> QED
    BY <2>1, <2>3, <2>5, <2>6
<1>5. \A v \in ReceiveFrom(w, s) :
         /\ Head(ghostChannel[<<v, w>>]) \subseteq Slice(v, w, s, S)
         /\ \A b \in Slice(v, w, s, S) : (Owns(v, b) \/ Told(s, b))
                => b \in Head(ghostChannel[<<v, w>>])
  <2> SUFFICES ASSUME NEW v \in ReceiveFrom(w, s)
               PROVE  /\ Head(ghostChannel[<<v, w>>]) \subseteq Slice(v, w, s, S)
                      /\ \A b \in Slice(v, w, s, S) : (Owns(v, b) \/ Told(s, b))
                             => b \in Head(ghostChannel[<<v, w>>])
    OBVIOUS
  <2>1. /\ Head(ghostChannel[<<v, w>>]) = ghostChannel[<<v, w>>][1]
        /\ RunLetter(<<v, w>>, s, ghostChannel[<<v, w>>][1], S)
    BY <1>4
  <2>2. <<v, w>>[1] = v /\ <<v, w>>[2] = w
    OBVIOUS
  <2> QED
    BY <2>1, <2>2 DEF RunLetter
<1>6. \A x \in agents[w] : x \in S /\ Owns(w, x) /\ x.exists
  BY DEF RunViews, Population
<1>7. OwnedPart(S, agents[w])
  BY <1>6 DEF OwnedPart, AlikeButValue
<1>8. GhostLife
  BY DEF StepLife, LifeInv
<1>9. /\ \A x \in GhostMail(w) : x \in S /\ Sees(w, x) /\ Dirty(w, s, x)
      /\ \A x : x \in agents'[w] <=> \/ x \in agents[w] /\ x.id \notin Ids(GhostMail(w))
                                     \/ x \in GhostMail(w) /\ x.id \in Ids(agents[w])
      /\ \A x : x \in overlapAgents'[w] <=> \/ x \in overlapAgents[w] /\ ~Dirty(w, s, x)
                                            \/ x \in GhostMail(w) /\ x.id \notin Ids(agents[w])
      /\ \A v \in Worlds : v # w => agents'[v] = agents[v] /\ overlapAgents'[v] = overlapAgents[v]
  BY <1>0, <1>2, <1>5, <1>8, ReceivedGhosts DEF Population
<1>10. /\ \A x \in agents'[w] : \E y \in agents[w] : AlikeButValue(y, x)
       /\ \A y \in agents[w] : \E x \in agents'[w] : AlikeButValue(y, x)
  BY <1>0, <1>5, <1>7, <1>8, ReceivedAlike
<1>11. Present' = Present
  BY <1>0, <1>9, <1>10, ReceivedPresent
<1>12. ASSUME NEW x \in GhostMail(w), x.id \in Ids(agents[w])
       PROVE  x \in agents[w]
  <2>1. PICK y \in agents[w] : y.id = x.id
    BY <1>12 DEF Ids
  <2>2. y = x
    BY <1>6, <1>9, <2>1 DEF Population, UniqueIds
  <2> QED
    BY <2>1, <2>2
<1>13. agents'[w] = agents[w]
  <2>1. ASSUME NEW x \in agents[w], x.id \in Ids(GhostMail(w))
        PROVE  x \in GhostMail(w) /\ x.id \in Ids(agents[w])
    <3>1. PICK y \in GhostMail(w) : y.id = x.id
      BY <2>1 DEF Ids
    <3>2. y = x
      BY <1>6, <1>9, <3>1 DEF Population, UniqueIds
    <3> QED
      BY <3>1, <3>2 DEF Ids
  <2> QED
    BY <1>9, <1>12, <2>1
<1>14. overlapAgents[w] \subseteq S
  BY DEF RunViews
<1>15. \A x \in overlapAgents'[w] : x \in S /\ Sees(w, x)
  BY <1>8, <1>9, <1>14 DEF GhostLife
<1>16. \A b : Told(s + 1, b) <=> Told(s, b) \/ \E u \in Worlds :
           isInside(section(u, s), b.position)
  <2>1. \A i \in Sections : i < s + 1 <=> (i < s \/ i = s)
    BY <1>2 DEF Sections
  <2> QED
    BY <1>2, <2>1 DEF Told
<1>17. ASSUME NEW b \in S, NEW u \in Worlds, isInside(section(u, s), b.position)
       PROVE  Owns(u, b) /\ Reaches(u, s, b)
  <2>1. b.position \in Cells
    BY <1>2 DEF Agent
  <2> QED
    BY <1>2, <1>17, <2>1, SectionInBoundaries, SectionsOfWorld DEF Owns, Reaches
<1>18. ASSUME NEW b \in S, Sees(w, b), Told(s + 1, b)
       PROVE  b \in agents'[w] \/ b \in overlapAgents'[w]
  <2>1. CASE Owns(w, b)
    BY <1>13, <2>1 DEF RunViews
  <2>2. CASE ~Owns(w, b)
    <3>1. b.id \notin Ids(agents[w])
      <4>1. SUFFICES ASSUME NEW y \in agents[w], y.id = b.id PROVE FALSE
        BY DEF Ids
      <4>2. y = b
        BY <1>6, <4>1 DEF Population, UniqueIds
      <4> QED
        BY <1>6, <2>2, <4>2
    <3>2. CASE Dirty(w, s, b)
      <4>1. PICK v \in Others(w) : Reaches(v, s, b)
        BY <3>2 DEF Dirty
      <4>2. v \in Worlds /\ v # w /\ b \in Agent
        BY <1>2 DEF Others
      <4>3. v \in ReceiveFrom(w, s)
        BY <1>2, <1>18, <4>1, <4>2, ZoneOfSlice
      <4>4. b \in Slice(v, w, s, S)
        BY <1>18, <4>1 DEF Slice
      <4>5. Owns(v, b) \/ Told(s, b)
        <5>1. ASSUME NEW u \in Worlds, isInside(section(u, s), b.position)
              PROVE  Owns(v, b)
          <6>1. Owns(u, b) /\ Reaches(u, s, b)
            BY <1>17, <5>1
          <6>2. u = v
            BY <1>2, <4>1, <4>2, <6>1, Apart
          <6> QED
            BY <6>1, <6>2
        <5> QED
          BY <1>16, <1>18, <5>1
      <4>6. b \in GhostMail(w)
        BY <1>5, <4>3, <4>4, <4>5 DEF GhostMail
      <4> QED
        BY <1>9, <3>1, <4>6
    <3>3. CASE ~Dirty(w, s, b)
      <4>1. Told(s, b)
        <5>1. ASSUME NEW u \in Worlds, isInside(section(u, s), b.position)
              PROVE  FALSE
          <6>1. Owns(u, b) /\ Reaches(u, s, b)
            BY <1>17, <5>1
          <6> QED
            BY <2>2, <3>3, <6>1 DEF Dirty, Others
        <5> QED
          BY <1>16, <1>18, <5>1
      <4>2. b \in Visible(w)
        BY <1>18, <4>1 DEF RunViews
      <4>3. b \notin agents[w]
        BY <1>6, <2>2
      <4> QED
        BY <1>9, <3>3, <4>2, <4>3 DEF Visible
    <3> QED
      BY <3>2, <3>3
  <2> QED
    BY <2>1, <2>2
\* What w has read it finds no more, and it had one list from each sender.
<1>19. ASSUME NEW c \in Channels, c[2] = w
       PROVE  DOMAIN ghostChannel'[c] = {}
  <2>1. c[1] \in Worlds /\ c[2] \in Worlds /\ c = <<c[1], c[2]>>
    BY ChannelEnds
  <2>2. InRun(w) /\ ghostChannel[c] \in Seq(SUBSET Agent) /\ ghostChannel'[c] \in Seq(SUBSET Agent)
    BY <1>1 DEF InRun, TypeInv, TypeOK
  <2>3. Len(ghostChannel[c]) = IF SentInit(c[1], w) THEN 1 ELSE 0
    BY <1>19, <2>1, <2>2 DEF RunInv, InitGhosts
  <2>4. CASE c[1] \in ReceiveFrom(w, s)
    <3>1. ghostChannel'[c] = Tail(ghostChannel[c]) /\ ghostChannel[c] # << >>
      <4>1. ghostChannel[<<c[1], w>>] # << >>
        BY <1>1, <2>4 DEF Arrived
      <4>2. ghostChannel'[c] = Tail(ghostChannel[c])
        BY <1>0, <1>19, <2>4, TakeGhosts
      <4> QED
        BY <1>19, <2>1, <4>1, <4>2
    <3>2. Len(ghostChannel[c]) = 1
      BY <2>2, <2>3, <3>1
    <3>3. Len(ghostChannel'[c]) = 0
      BY <2>2, <3>1, <3>2
    <3> QED
      BY <2>2, <3>3
  <2>5. CASE c[1] \notin ReceiveFrom(w, s)
    <3>1. ghostChannel'[c] = ghostChannel[c]
      BY <1>0, <2>5, TakeGhosts
    <3>2. ~SentInit(c[1], w)
      BY <2>5 DEF SentInit
    <3> QED
      BY <2>2, <2>3, <3>1, <3>2
  <2> QED
    BY <2>4, <2>5
<1>20. ASSUME NEW c \in Channels, NEW k \in DOMAIN ghostChannel'[c]
       PROVE  RunLetter(c, sectionIndex'[c[2]], ghostChannel'[c][k], S)
  <2>1. c[2] \in Worlds /\ c[2] # w
    BY <1>19, <1>20, ChannelEnds
  <2>2. ghostChannel'[c] = ghostChannel[c] /\ sectionIndex'[c[2]] = sectionIndex[c[2]]
    BY <1>0, <1>1, <2>1, TakeGhosts
  <2> QED
    BY <1>20, <2>2 DEF RunViews
<1>21. \A v \in Worlds : (InRun(v) /\ (pc[v] = "barrier" \/ sectionIndex[v] # 3))'
  <2>1. (InRun(w) /\ pc[w] = "barrier")'
    BY <1>3 DEF InRun
  <2>2. \A v \in Worlds : v # w => (InRun(v) /\ (pc[v] = "barrier" \/ sectionIndex[v] # 3))'
    BY <1>1 DEF RunViews, InRun
  <2> QED
    BY <2>1, <2>2
<1>22. \A v \in Worlds : agents'[v] = {b \in S : Owns(v, b)} /\ overlapAgents'[v] \subseteq S
  BY <1>9, <1>13, <1>15 DEF RunViews
<1>23. \A v \in Worlds : \A b \in S : (Sees(v, b) /\ Told(sectionIndex'[v], b))
           => b \in agents'[v] \cup overlapAgents'[v]
  <2>1. \A v \in Worlds : v # w => \A b \in S : (Sees(v, b) /\ Told(sectionIndex[v], b)) => b \in agents[v] \cup overlapAgents[v]
    BY DEF RunViews, Visible
  <2>2. \A b \in S : (Sees(w, b) /\ Told(sectionIndex'[w], b)) => b \in agents'[w] \cup overlapAgents'[w]
    BY <1>3, <1>18
  <2>3. \A v \in Worlds : v # w => /\ agents'[v] = agents[v] /\ overlapAgents'[v] = overlapAgents[v]
                                   /\ sectionIndex'[v] = sectionIndex[v]
    BY <1>1, <1>9
  <2> HIDE DEF s
  <2>4. ASSUME NEW v \in Worlds, v # w, NEW b \in S, Sees(v, b), Told(sectionIndex'[v], b)
        PROVE  b \in agents'[v] \cup overlapAgents'[v]
    <3>1. Told(sectionIndex[v], b)
      BY <2>3, <2>4
    <3> QED
      BY <2>1, <2>3, <2>4, <3>1
  <2> QED
    BY <2>2, <2>4
<1>24. RunViews(S)'
  <2>1. \A v \in Worlds : \A b \in S : (Sees(v, b) /\ Told(sectionIndex'[v], b)) => b \in Visible(v)'
    BY <1>23 DEF Visible
  <2>2. (Present = S)'
    BY <1>11 DEF RunViews
  <2> QED
    BY <1>20, <1>21, <1>22, <2>1, <2>2 DEF RunViews
<1> QED
  BY <1>10, <1>11, <1>15, <1>24

(* Of the section that is exchanged last in run, the ghosts are all that   *)
(* worlds do not know of each other.                                       *)
LEMMA BarrierRunViews ==
    ASSUME FewWorlds, TypeInv, HolderInv, RunInv, NEW S, Population(S), RunViews(S), Barrier
    PROVE  /\ RunViews(S)' \/ EpochInv(0, S)'
           /\ Present' = Present
<1>1. /\ \A w \in Worlds : pc[w] = "barrier" /\ pc'[w] = "initSendGhosts" /\ InRun(w) /\ InRun(w)'
      /\ step' = step /\ sectionIndex' = sectionIndex /\ agents' = agents /\ overlapAgents' = overlapAgents
      /\ agentsToSend' = agentsToSend /\ agentChannel' = agentChannel /\ ghostChannel' = ghostChannel
      /\ touched' = touched
  BY DEF Barrier, InRun, localVars
<1>2. Present' = Present /\ Present = S
  BY <1>1 DEF Held, Leaving, Present, RunViews
<1>3. \A w, v \in Worlds : sectionIndex[w] = sectionIndex[v]
  <2>1. \A w \in Worlds : Reached(w) = sectionIndex[w] /\ sectionIndex[w] \in 0 .. 3
    BY <1>1, ReachedValues DEF Sections
  <2>2. \A w, v \in Worlds : Reached(w) =< Reached(v) + 1 /\ Reached(w) # Reached(v) + 1
    BY <1>1 DEF RunInv, InitSync
  <2> SUFFICES ASSUME NEW w \in Worlds, NEW v \in Worlds PROVE sectionIndex[w] = sectionIndex[v]
    OBVIOUS
  <2>3. /\ Reached(w) =< Reached(v) + 1 /\ Reached(w) # Reached(v) + 1
        /\ Reached(v) =< Reached(w) + 1 /\ Reached(v) # Reached(w) + 1
    BY <2>2
  <2> QED
    BY <2>1, <2>3
<1>4. \A c \in Channels : ghostChannel[c] = << >> /\ agentChannel[c] = << >>
  <2> SUFFICES ASSUME NEW c \in Channels PROVE ghostChannel[c] = << >> /\ agentChannel[c] = << >>
    OBVIOUS
  <2>1. c[1] \in Worlds /\ c[2] \in Worlds
    BY ChannelEnds
  <2>2. ~SentInit(c[1], c[2]) /\ InRun(c[1]) /\ InRun(c[2])
    BY <1>1, <2>1 DEF SentInit
  <2>3. Len(ghostChannel[c]) = 0
    BY <2>2 DEF RunInv, InitGhosts
  <2>4. ghostChannel[c] \in Seq(SUBSET Agent)
    BY DEF TypeInv, TypeOK
  <2>5. ghostChannel[c] = << >>
    BY <2>3, <2>4
  <2>6. agentChannel[c] = << >>
    BY <2>2 DEF RunInv, InitAgents
  <2> QED
    BY <2>5, <2>6
<1>5. ASSUME \A w \in Worlds : sectionIndex[w] # 3
      PROVE  RunViews(S)'
  <2>1. \A w \in Worlds : (InRun(w) /\ (pc[w] = "barrier" \/ sectionIndex[w] # 3))'
    BY <1>1, <1>5
  <2>2. \A w \in Worlds : Visible(w)' = Visible(w)
    BY <1>1 DEF Visible
  <2> QED
    BY <1>1, <1>2, <2>1, <2>2 DEF RunViews
<1>6. ASSUME \A w \in Worlds : sectionIndex[w] = 3
      PROVE  EpochInv(0, S)'
  <2>1. This(0) = 0 /\ Last(0) = 3 /\ 3 \in Sections
    BY DEF This, Last, Sections
  <2>2. \A w \in Worlds : Behind(w, 0)' /\ ~At(w, 0)' /\ ~HasSent(w, 0)' /\ ~Awaits(w, 0)' /\ ~HasSentGhosts(w, 0)'
    BY <1>1, <1>6 DEF Behind, At, HasSent, Awaits, HasSentGhosts
  <2>3. Active(0)' = {}
    BY <2>2 DEF Active
  <2>4. Phases(0)'
    BY <2>2 DEF Phases
  <2>5. TruthPart(S, S, {}, This(0))
    BY DEF TruthPart
  <2>6. Truth(0, S)'
    BY <1>2, <2>3, <2>5 DEF Truth
  <2>7. ASSUME NEW w \in Worlds
        PROVE  BehindView(w, 3, S, View(w))
    <3>1. S \subseteq Agent /\ \A b \in S : b.exists
      BY DEF Population
    <3>2. agents[w] = {b \in S : Owns(w, b)} /\ overlapAgents[w] \subseteq S
      BY DEF RunViews
    <3>3. \A x : x \in View(w) <=> x.exists /\ (x \in agents[w] \/ x \in overlapAgents[w])
      BY DEF View, Visible, AliveIn
    <3>4. ASSUME NEW b \in S, Sees(w, b)
          PROVE  b \in View(w) \/ Dirty(w, 3, b)
      <4>1. b.position \in Cells
        BY <3>1 DEF Agent
      <4>2. PICK u \in Worlds : isInside(boundaries(u), b.position)
        BY <4>1, OwnerOfCell
      <4>3. PICK i \in Sections : isInside(section(u, i), b.position)
        BY <4>1, <4>2, SectionsOfWorld
      <4>4. CASE i < 3
        <5>1. Told(sectionIndex[w], b)
          BY <1>6, <4>3, <4>4 DEF Told
        <5>2. b \in Visible(w)
          BY <3>4, <5>1 DEF RunViews
        <5> QED
          BY <3>1, <3>3, <5>2 DEF Visible
      <4>5. CASE i = 3 /\ u = w
        BY <3>1, <3>2, <3>3, <4>2, <4>5 DEF Owns
      <4>6. CASE i = 3 /\ u # w
        <5>1. Reaches(u, 3, b)
          BY <2>1, <4>1, <4>3, <4>6, SectionsOfWorld DEF Reaches
        <5> QED
          BY <4>6, <5>1 DEF Dirty, Others
      <4> QED
        BY <4>4, <4>5, <4>6 DEF Sections
    <3>5. \A a \in View(w) : a \in S
      BY <3>2, <3>3
    <3> QED
      BY <3>4, <3>5 DEF BehindView
  <2>8. \A w \in Worlds : View(w)' = View(w)
    BY <1>1 DEF View, Visible
  <2>9. ViewsBehind(0, S)'
    BY <2>1, <2>7, <2>8 DEF ViewsBehind
  <2>10. ViewsAt(0, S)'
    BY <2>2 DEF ViewsAt
  <2>11. Owned(0, S)'
    <3>1. ASSUME NEW w \in Worlds PROVE OwnedPart(S, agents[w])
      <4>1. \A x \in agents[w] : x \in S /\ x.exists
        BY DEF RunViews, Population
      <4> QED
        BY <4>1 DEF OwnedPart, AlikeButValue
    <3> QED
      BY <1>1, <3>1 DEF Owned
  <2>12. \A c \in Channels : c[1] \in Worlds /\ c[2] \in Worlds
    BY ChannelEnds
  <2>13. AgentCount(0)'
    <3>1. \A c \in Channels : Len(agentChannel'[c]) = 0
      BY <1>1, <1>4
    <3> QED
      BY <2>2, <2>12, <3>1 DEF AgentCount
  <2>14. AgentLetters(0, S)'
    <3>1. \A c \in Channels : DOMAIN agentChannel'[c] = {}
      BY <1>1, <1>4
    <3> QED
      BY <3>1 DEF AgentLetters
  <2>15. GhostLetters(0, S)'
    <3>1. \A c \in Channels : ~GhostDue(c, 0)'
      BY <2>2, <2>12 DEF GhostDue
    <3> QED
      BY <1>1, <1>4, <3>1 DEF GhostLetters
  <2>16. GhostOrder(0)'
    BY <2>2 DEF GhostOrder
  <2> QED
    BY <2>4, <2>6, <2>9, <2>10, <2>11, <2>13, <2>14, <2>15, <2>16 DEF EpochInv
<1> QED
  BY <1>2, <1>3, <1>5, <1>6

----------------------------------------------------------------------------
(* When agents arrive, every world is done with the section *)

(* When the lists of all neighbours are there, every world has sent.       *)
LEMMA ArrivedMeansSent ==
    ASSUME FewWorlds, TypeInv, NEW e \in Nat, NEW S, EpochInv(e, S),
           NEW w \in Worlds, At(w, e), receiveAgents(w)
    PROVE  \A v \in Worlds : HasSent(v, e)
<1>1. pc[w] = "receiveAgents" /\ Arrived(agentChannel, w, Neighbors(w))
  BY DEF receiveAgents
<1>2. HasSent(w, e) /\ ~Awaits(w, e)
  BY <1>1, SectionOfEpoch DEF HasSent, Awaits
<1>3. ASSUME NEW v \in Worlds, v # w
      PROVE  HasSent(v, e)
  <2>1. v \in Neighbors(w) /\ <<v, w>> \in Channels
    BY <1>3, OtherWorlds
  <2>2. agentChannel[<<v, w>>] # << >> /\ agentChannel[<<v, w>>] \in Seq(SUBSET Agent)
    BY <1>1, <2>1 DEF Arrived, TypeInv, TypeOK
  <2>3. Len(agentChannel[<<v, w>>]) # 0
    BY <2>2
  <2>4. Len(agentChannel[<<v, w>>]) = (IF Awaits(w, e) THEN 1 ELSE 0) + (IF HasSent(v, e) THEN 1 ELSE 0)
    BY <2>1 DEF EpochInv, AgentCount
  <2> QED
    BY <1>2, <2>3, <2>4
<1> QED
  BY <1>2, <1>3

(* Lists of agents are those of the section that the receiver is in.       *)
LEMMA IncomingTurns ==
    ASSUME FewWorlds, TypeInv, NEW e \in Nat, NEW S, EpochInv(e, S),
           NEW w \in Worlds, Behind(w, e), receiveAgents(w)
    PROVE  \A i \in Incoming(w) : i.turns = step[w] + 1
<1>1. pc[w] = "receiveAgents" /\ Arrived(agentChannel, w, Neighbors(w))
  BY DEF receiveAgents
<1>2. Awaits(w, e)
  BY <1>1 DEF Awaits
<1> SUFFICES ASSUME NEW i \in Incoming(w) PROVE i.turns = step[w] + 1
  OBVIOUS
<1>3. PICK v \in Neighbors(w) : /\ <<v, w>> \in Channels
                                /\ 1 \in DOMAIN agentChannel[<<v, w>>]
                                /\ i \in agentChannel[<<v, w>>][1]
  BY <1>1, IncomingCases
<1>4. \A c \in Channels : c[2] = w
          => (1 \in DOMAIN agentChannel[c] => LastLetter(e, S, c, agentChannel[c][1]))
  BY <1>2 DEF EpochInv, AgentLetters
<1>5. <<v, w>>[2] = w
  OBVIOUS
<1>6. LastLetter(e, S, <<v, w>>, agentChannel[<<v, w>>][1])
  BY <1>3, <1>4, <1>5
<1> QED
  BY <1>3, <1>5, <1>6 DEF LastLetter

(* receiveAgents, in the epoch or as the first to end it.                  *)
LEMMA receiveAgentsInEpoch ==
    ASSUME FewWorlds, TypeInv, HolderInv, RemovedInv, StepLife, NEW e \in Nat, NEW S,
           Population(S), EpochInv(e, S),
           NEW w \in Worlds, receiveAgents(w)
    PROVE  /\ \E R : Population(R) /\ \E f \in Nat : EpochInv(f, R)'
           /\ StepLife'
<1>1. SentLife
  BY DEF StepLife, LifeInv
<1>2. ASSUME NEW f \in Nat, NEW R, Population(R), EpochInv(f, R), Behind(w, f)
      PROVE  EpochInv(f, R)' /\ StepLife'
  <2>1. EpochInv(f, R)'
    BY <1>1, <1>2, receiveAgentsEpoch
  <2>2. \A i \in Incoming(w) : i.turns = step[w] + 1
    BY <1>2, IncomingTurns
  <2> QED
    BY <2>1, <2>2, receiveAgentsLife
<1>3. CASE Behind(w, e)
  BY <1>2, <1>3
<1>4. CASE At(w, e)
  <2>1. PICK R : EpochInv(e + 1, R) /\ Population(R)
    BY <1>1, <1>4, ArrivedMeansSent, EpochBegins
  <2>2. e + 1 \in Nat /\ ~At(w, e + 1)
    <3>1. e = 4 * step[w] + sectionIndex[w]
      BY <1>4 DEF At, receiveAgents
    <3>2. e + 1 # 4 * step[w] + sectionIndex[w]
      BY <3>1
    <3> QED
      BY <3>2 DEF At, receiveAgents
  <2>3. Behind(w, e + 1)
    BY <2>1, <2>2 DEF EpochInv, Phases
  <2>4. EpochInv(e + 1, R)' /\ StepLife'
    BY <1>2, <2>1, <2>2, <2>3
  <2> QED
    BY <2>1, <2>2, <2>4
<1> QED
  BY <1>3, <1>4 DEF EpochInv, Phases

----------------------------------------------------------------------------
(* The invariant of the whole simulation *)

\* The worlds exchange the ghosts of run, or are in the sections of an epoch.
Known == \E S : Population(S) /\ (RunViews(S) \/ \E e \in Nat : EpochInv(e, S))

\* removeAgents leaves nothing to remove.
DoneInv == \A w \in Worlds : pc[w] = "finished" => removedAgents[w] = {}

\* What holds at every step of every run of World.
WorldInv == Base /\ StepLife /\ DoneInv /\ Known

(* The parts of the invariant that hold for any number of worlds per row.  *)
LEMMA NextBase == Base /\ [Next]_vars => Base'
<1> SUFFICES ASSUME Base, [Next]_vars PROVE Base'
  OBVIOUS
<1>1. TypeInv' /\ HolderInv' /\ RemovedInv' /\ NoException'
  BY NextType, NextHolder, NextRemoved, NextNoException DEF Base
<1>2. RunInv'
  BY NextRun DEF Base, HolderInv
<1> QED
  BY <1>1, <1>2 DEF Base

(* The list of removed agents is empty when the run is over.               *)
LEMMA NextDone == TypeInv /\ DoneInv /\ [Next]_vars => DoneInv'
<1> SUFFICES ASSUME TypeInv, DoneInv, [Next]_vars PROVE DoneInv'
  OBVIOUS
<1>1. ASSUME NEW w \in Worlds, removeAgents(w) PROVE DoneInv'
  <2>1. removedAgents'[w] = {} /\ \A v \in Worlds : v # w => pc'[v] = pc[v] /\ removedAgents'[v] = removedAgents[v]
    BY <1>1 DEF removeAgents, Goto, TypeInv, TypeOK
  <2> QED
    BY <2>1 DEF DoneInv
<1>2. ASSUME NEW w \in Worlds, NEW a \in agents[w], executeAgent(w, a) PROVE DoneInv'
  <2>1. pc[w] = "execute" /\ pc' = pc
    BY <1>2 DEF executeAgent
  <2>2. \A v \in Worlds : v # w => removedAgents'[v] = removedAgents[v]
    BY <1>2, TurnDetails DEF OnlyAt
  <2> QED
    BY <2>1, <2>2 DEF DoneInv
<1>3. ASSUME NEW w \in Worlds, removedAgents' = removedAgents, NEW to, Goto(w, to), to # "finished"
      PROVE  DoneInv'
  BY <1>3 DEF Goto, DoneInv, TypeInv, TypeOK
<1>4. ASSUME NEW w \in Worlds, InitSendGhosts(w) \/ sendGhostAgents(w) PROVE DoneInv'
  BY <1>3, <1>4 DEF InitSendGhosts, sendGhostAgents, SendGhosts, localVars
<1>5. ASSUME NEW w \in Worlds, InitReceiveGhosts(w) \/ receiveGhostAgents(w) PROVE DoneInv'
  BY <1>3, <1>5 DEF InitReceiveGhosts, receiveGhostAgents, ReceiveGhosts, localVars
<1>6. ASSUME NEW w \in Worlds, stepSection(w) \/ sendAgents(w) \/ receiveAgents(w) PROVE DoneInv'
  BY <1>3, <1>6 DEF stepSection, sendAgents, receiveAgents
<1>7. CASE Barrier
  BY <1>7 DEF Barrier, DoneInv, localVars
<1>8. CASE UNCHANGED vars
  BY <1>8 DEF vars, localVars, DoneInv
<1> QED
  BY <1>1, <1>2, <1>4, <1>5, <1>6, <1>7, <1>8 DEF Next, WorldStep, Finished

\* In run the worlds do nothing but exchange ghosts.
LEMMA RunSteps ==
    ASSUME NEW S, RunViews(S), NEW w \in Worlds, WorldStep(w)
    PROVE  InitSendGhosts(w) \/ InitReceiveGhosts(w)
<1>1. pc[w] \in {"barrier", "initSendGhosts", "initReceiveGhosts"}
  BY DEF RunViews, InRun
<1> QED
  BY <1>1 DEF WorldStep, stepSection, executeAgent, sendAgents, receiveAgents, sendGhostAgents,
     SendGhosts,
              receiveGhostAgents, ReceiveGhosts, removeAgents

(* Who exchanges ghosts is behind.                                         *)
LEMMA BehindOfPhase ==
    ASSUME NEW e \in Nat, NEW S, EpochInv(e, S), NEW w \in Worlds,
           pc[w] \in {"initSendGhosts", "initReceiveGhosts", "sendGhosts", "receiveGhosts"}
    PROVE  Behind(w, e)
BY DEF EpochInv, Phases, At

(* No epoch has begun at the barrier.                                      *)
LEMMA ViewsBegun ==
    ASSUME NEW e \in Nat, NEW S, EpochInv(e, S), Barrier
    PROVE  FALSE
<1>1. <<0, 0>> \in Worlds
  BY WorldsPerRowAssumption DEF Worlds, Coords
<1>2. pc[<<0, 0>>] = "barrier"
  BY <1>1 DEF Barrier
<1> QED
  BY <1>1, <1>2 DEF EpochInv, Phases, Behind, At

(* What a step does to the agents as they are.                             *)
LEMMA StepOfWorlds ==
    ASSUME FewWorlds, WorldInv, [Next]_vars
    PROVE  /\ WorldInv'
           /\ \/ Present' = Present
              \/ \E w \in Worlds : removeAgents(w)
              \/ \E w \in Worlds : \E a \in agents[w] : executeAgent(w, a)
<1> USE FewWorlds
<1>1. TypeInv /\ HolderInv /\ RemovedInv /\ RunInv /\ NoException /\ StepLife /\ DoneInv
  BY DEF WorldInv, Base
<1>2. TypeInv' /\ HolderInv' /\ RemovedInv' /\ RunInv' /\ NoException' /\ DoneInv' /\ Base'
  <2>1. Base'
    BY NextBase DEF WorldInv
  <2>2. DoneInv'
    BY <1>1, NextDone
  <2> QED
    BY <2>1, <2>2 DEF Base
<1>3. OwnedLife /\ GhostLife /\ LeavingLife /\ SentLife
  BY <1>1 DEF StepLife, LifeInv
<1> DEFINE Fine == /\ StepLife' /\ Known'
                   /\ \/ Present' = Present
                      \/ \E w \in Worlds : removeAgents(w)
                      \/ \E w \in Worlds : \E a \in agents[w] : executeAgent(w, a)
<1>4. SUFFICES Fine
  BY <1>2 DEF WorldInv
<1>5. PICK S : Population(S) /\ (RunViews(S) \/ \E e \in Nat : EpochInv(e, S))
  BY DEF WorldInv, Known
<1>6. \A e \in Nat : EpochInv(e, S)' => Known'
  BY <1>5 DEF Known, Population
<1>7. RunViews(S)' => Known'
  BY <1>5 DEF Known, Population
<1>8. CASE UNCHANGED vars
  <2>1. StepLife'
    BY <1>1, <1>8, StutterLife
  <2>2. Present' = Present
    BY <1>8 DEF vars, localVars, Present, Held, Leaving
  <2>3. Known'
    <3>1. CASE RunViews(S)
      <4>1. RunViews(S)'
        BY <1>8, <2>2, <3>1 DEF vars, RunViews, InRun, Visible
      <4> QED
        BY <1>7, <4>1
    <3>2. CASE \E e \in Nat : EpochInv(e, S)
      <4>1. PICK e \in Nat : EpochInv(e, S)
        BY <3>2
      <4>2. \A v \in Worlds : /\ Behind(v, e)' <=> Behind(v, e)
                              /\ At(v, e)' <=> At(v, e)
                              /\ HasSent(v, e)' <=> HasSent(v, e)
                              /\ Awaits(v, e)' <=> Awaits(v, e)
                              /\ HasSentGhosts(v, e)' <=> HasSentGhosts(v, e)
                              /\ v \in Active(e)' <=> v \in Active(e)
        BY <1>8, SameControl DEF vars
      <4>3. Active(e)' = Active(e) /\ \A v \in Worlds : View(v)' = View(v)
        BY <1>8, <4>2 DEF Active, vars, View, Visible
      <4>4. AgentCount(e)' /\ AgentLetters(e, S)'
        BY <1>8, <4>1, <4>2, SameAgentMail DEF EpochInv, vars
      <4>5. GhostLetters(e, S)' /\ GhostOrder(e)'
        BY <1>8, <4>1, <4>2, SameGhostMail DEF EpochInv, vars
      <4>6. Phases(e)' /\ Truth(e, S)' /\ Owned(e, S)'
        BY <1>8, <2>2, <4>1, <4>2, <4>3 DEF EpochInv, Phases, Truth, Owned, vars
      <4>7. ViewsBehind(e, S)' /\ ViewsAt(e, S)'
        BY <2>2, <4>1, <4>2, <4>3 DEF EpochInv, ViewsBehind, ViewsAt
      <4>8. EpochInv(e, S)'
        BY <4>4, <4>5, <4>6, <4>7 DEF EpochInv
      <4> QED
        BY <1>6, <4>8
    <3> QED
      BY <1>5, <3>1, <3>2
  <2> QED
    BY <2>1, <2>2, <2>3
<1>9. CASE Barrier
  <2>1. RunViews(S)
    BY <1>5, <1>9, ViewsBegun
  <2>2. (RunViews(S)' \/ EpochInv(0, S)') /\ Present' = Present
    BY <1>1, <1>5, <1>9, <2>1, BarrierRunViews
  <2>3. StepLife'
    BY <1>1, <1>9, BarrierLife
  <2> QED
    BY <1>6, <1>7, <2>2, <2>3
<1>10. ASSUME NEW w \in Worlds, InitSendGhosts(w)
       PROVE  Fine
  <2>1. SendGhosts(w, "initSendGhosts", "initReceiveGhosts")
    BY <1>10 DEF InitSendGhosts
  <2>2. StepLife'
    BY <1>1, <2>1, SendGhostsLife
  <2>3. Present' = Present
    BY <2>1 DEF SendGhosts, Present, Held, Leaving, localVars
  <2>4. CASE RunViews(S)
    <3>1. RunViews(S)'
      BY <1>1, <1>5, <1>10, <2>4, InitSendRunViews
    <3> QED
      BY <1>7, <2>2, <2>3, <3>1
  <2>5. ASSUME NEW e \in Nat, EpochInv(e, S)
        PROVE  Fine
    <3>1. Behind(w, e)
      BY <2>1, <2>5, BehindOfPhase DEF SendGhosts
    <3>2. EpochInv(e, S)'
      BY <1>1, <1>3, <1>5, <2>1, <2>5, <3>1, SendGhostsEpoch
    <3> QED
      BY <1>6, <2>2, <2>3, <3>2
  <2> QED
    BY <1>5, <2>4, <2>5
<1>11. ASSUME NEW e \in Nat, EpochInv(e, S), NEW w \in Worlds, NEW from, NEW loop, NEW last, ReceiveGhosts(w, from, loop, last),
              \/ from = "receiveGhosts" /\ loop = "stepSection" /\ last = "removeAgents"
              \/ from = "initReceiveGhosts" /\ loop = "barrier" /\ last = "stepSection"
       PROVE  Fine
  <2>1. Behind(w, e)
    BY <1>11, BehindOfPhase DEF ReceiveGhosts
  <2>2. /\ EpochInv(e, S)'
        /\ Present' = Present
        /\ \A x \in agents'[w] : \E y \in agents[w] : AlikeButValue(y, x)
        /\ \A x \in overlapAgents'[w] : x \in S /\ Sees(w, x)
    BY <1>1, <1>2, <1>3, <1>5, <1>11, <2>1, ReceiveGhostsEpoch
  <2>3. (\A x \in overlapAgents'[w] : x.exists /\ Sees(w, x)) /\ UniqueIds(overlapAgents'[w])
    BY <1>5, <2>2 DEF Population, UniqueIds
  <2>4. StepLife'
    BY <1>1, <1>11, <2>2, <2>3, ReceiveGhostsLife
  <2> QED
    BY <1>6, <2>2, <2>4
<1>12. ASSUME NEW w \in Worlds, InitReceiveGhosts(w)
       PROVE  Fine
  <2>1. ReceiveGhosts(w, "initReceiveGhosts", "barrier", "stepSection")
    BY <1>12 DEF InitReceiveGhosts
  <2>2. CASE RunViews(S)
    <3>1. /\ RunViews(S)'
          /\ Present' = Present
          /\ \A x \in agents'[w] : \E y \in agents[w] : AlikeButValue(y, x)
          /\ \A x \in overlapAgents'[w] : x \in S /\ Sees(w, x)
      BY <1>1, <1>2, <1>5, <1>12, <2>2, InitReceiveRunViews
    <3>2. (\A x \in overlapAgents'[w] : x.exists /\ Sees(w, x)) /\ UniqueIds(overlapAgents'[w])
      BY <1>5, <3>1 DEF Population, UniqueIds
    <3>3. StepLife'
      BY <1>1, <2>1, <3>1, <3>2, ReceiveGhostsLife
    <3> QED
      BY <1>7, <3>1, <3>3
  <2> QED
    BY <1>5, <1>11, <2>1, <2>2
<1>13. ASSUME NEW w \in Worlds, WorldStep(w), ~InitSendGhosts(w), ~InitReceiveGhosts(w)
       PROVE  Fine
  <2>1. PICK e \in Nat : EpochInv(e, S)
    BY <1>5, <1>13, RunSteps
  <2>2. CASE stepSection(w)
    <3>1. EpochInv(e, S)' /\ StepLife'
      BY <1>1, <2>1, <2>2, stepSectionEpoch, stepSectionLife
    <3>2. Present' = Present
      BY <2>2 DEF stepSection, Present, Held, Leaving
    <3> QED
      BY <1>6, <3>1, <3>2
  <2>3. ASSUME NEW a \in agents[w], executeAgent(w, a)
        PROVE  Fine
    <3>1. EpochInv(e, S)'
      BY <1>1, <1>2, <1>3, <1>5, <2>1, <2>3, executeAgentEpoch
    <3>2. StepLife'
      BY <1>1, <2>3, executeAgentLife
    <3> QED
      BY <1>6, <2>3, <3>1, <3>2
  <2>4. CASE sendAgents(w)
    <3>1. EpochInv(e, S)' /\ StepLife'
      BY <1>1, <1>3, <2>1, <2>4, sendAgentsEpoch, sendAgentsLife
    <3>2. Held' = Held /\ touched' = touched
      BY <1>1, <2>4, sendAgentsHeld DEF sendAgents
    <3> QED
      BY <1>6, <3>1, <3>2 DEF Present
  <2>5. CASE receiveAgents(w)
    <3>1. PICK R : Population(R) /\ \E f \in Nat : EpochInv(f, R)'
      BY <1>1, <1>5, <2>1, <2>5, receiveAgentsInEpoch
    <3>2. StepLife'
      BY <1>1, <1>5, <2>1, <2>5, receiveAgentsInEpoch
    <3>3. Known'
      BY <3>1 DEF Known, Population
    <3>4. Held' = Held /\ touched' = touched
      BY <1>1, <2>5, receiveAgentsHeld DEF receiveAgents
    <3> QED
      BY <3>2, <3>3, <3>4 DEF Present
  <2>6. CASE sendGhostAgents(w)
    <3>1. SendGhosts(w, "sendGhosts", "receiveGhosts")
      BY <2>6 DEF sendGhostAgents
    <3>2. Behind(w, e)
      BY <2>1, <3>1, BehindOfPhase DEF SendGhosts
    <3>3. EpochInv(e, S)'
      BY <1>1, <1>3, <1>5, <2>1, <3>1, <3>2, SendGhostsEpoch
    <3>4. StepLife'
      BY <1>1, <3>1, SendGhostsLife
    <3>5. Present' = Present
      BY <3>1 DEF SendGhosts, Present, Held, Leaving, localVars
    <3> QED
      BY <1>6, <3>3, <3>4, <3>5
  <2>7. CASE receiveGhostAgents(w)
    BY <1>11, <2>1, <2>7 DEF receiveGhostAgents
  <2>8. CASE removeAgents(w)
    <3>1. EpochInv(e, S)'
      BY <1>1, <1>2, <1>3, <1>5, <2>1, <2>8, removeAgentsEpoch
    <3>2. StepLife'
      BY <1>1, <1>2, <2>8, removeAgentsLife
    <3> QED
      BY <1>6, <2>8, <3>1, <3>2
  <2> QED
    BY <1>13, <2>2, <2>3, <2>4, <2>5, <2>6, <2>7, <2>8 DEF WorldStep
<1> QED
  BY <1>8, <1>9, <1>10, <1>12, <1>13 DEF Next, Finished

(* The invariant holds at the start.                                       *)
LEMMA InitWorldInv == ASSUME FewWorlds, Init PROVE WorldInv /\ CellsApart
<1>1. RunViews(Present) /\ Population(Present) /\ CellsApart
  BY InitRunViews
<1>2. Known
  BY <1>1 DEF Known
<1>3. Base
  BY InitType, InitHolder, InitRun DEF Base, Init, RemovedInv, NoException
<1>4. DoneInv
  BY DEF Init, DoneInv
<1> QED
  BY <1>1, <1>2, <1>3, <1>4, InitLife DEF WorldInv

\* Who has left run is in an epoch.
LEMMA EpochOfWorld ==
    ASSUME WorldInv, NEW w \in Worlds, ~InRun(w)
    PROVE  \E S : Population(S) /\ \E e \in Nat : EpochInv(e, S)
BY DEF WorldInv, Known, RunViews

(* An agent moves to a cell that is free for all, as the world sees.       *)
LEMMA executeAgentApart ==
    ASSUME FewWorlds, TypeInv, TypeInv', HolderInv, HolderInv', RemovedInv, OwnedLife,
           NEW e \in Nat, NEW S, Population(S), EpochInv(e, S),
           NEW w \in Worlds, NEW a \in agents[w], executeAgent(w, a), CellsApart
    PROVE  CellsApart'
<1>1. OnlyAt(w) /\ a \in Agent
  BY TurnDetails
<1>2. PICK b \in Agent, touch \in SUBSET Agents, leaves \in BOOLEAN, dies \in BOOLEAN :
        /\ Turn(w, a, b, touch, leaves, dies)
        /\ TurnOf(w, a, b, touch, leaves, dies)
  BY TurnDetails
<1>4. /\ AtView(w, This(e), S, Present, View(w))
      /\ a \in Present /\ a.exists /\ Reaches(w, This(e), b)
      /\ \A x : x \in Present' <=> x \in AfterTurn(Present, a, b, touch)
  BY <1>1, <1>2, ExecutedIsPresent
<1>5. \A x \in Present : /\ Modified(x, touch).position = x.position
                         /\ Modified(x, touch).exists = x.exists
  BY PresentFacts, ModifiedKeeps
<1>6. \A x \in Present' : x = b \/ \E y \in Present : y # a /\ x = Modified(y, touch)
  BY <1>4 DEF AfterTurn
<1>7. ASSUME NEW y \in Present, y # a, y.exists, y.position = b.position
      PROVE  FALSE
  <2>1. y.position # a.position
    BY <1>4, <1>7 DEF CellsApart
  <2>2. checkPosition(w, b.position)
    BY <1>2, <1>7, <2>1 DEF TurnOf
  <2>3. y \in View(w)
    BY <1>4, <1>7 DEF AtView, Reaches
  <2> QED
    BY <1>7, <2>2, <2>3 DEF checkPosition, View, AliveIn
<1>8. ASSUME NEW x \in Present', NEW z \in Present', x.exists, z.exists, x.position = z.position
      PROVE  x = z
  <2>1. CASE x = b /\ z = b
    BY <2>1
  <2>2. ASSUME NEW y \in Present, y # a, z = Modified(y, touch)
        PROVE  x # b
    BY <1>5, <1>7, <1>8, <2>2
  <2>3. ASSUME NEW y \in Present, y # a, x = Modified(y, touch)
        PROVE  z # b
    BY <1>5, <1>7, <1>8, <2>3
  <2>4. ASSUME NEW y \in Present, x = Modified(y, touch), NEW u \in Present, z = Modified(u, touch)
        PROVE  x = z
    BY <1>5, <1>8, <2>4 DEF CellsApart
  <2> QED
    BY <1>6, <1>8, <2>1, <2>2, <2>3, <2>4
<1> QED
  BY <1>8 DEF CellsApart

(* No step takes two agents to one cell.                                   *)
LEMMA NextCellsApart ==
    ASSUME FewWorlds, WorldInv, WorldInv', CellsApart, [Next]_vars
    PROVE  CellsApart'
<1>1. /\ TypeInv /\ HolderInv /\ RemovedInv /\ OwnedLife
      /\ TypeInv' /\ HolderInv' /\ NoException'
  BY DEF WorldInv, Base, StepLife, LifeInv
<1>2. CASE Present' = Present
  BY <1>2 DEF CellsApart
<1>3. ASSUME NEW w \in Worlds, removeAgents(w)
      PROVE  CellsApart'
  <2>1. Present' \subseteq Present
    BY <1>1, <1>3, removeAgentsPresent
  <2> QED
    BY <2>1 DEF CellsApart
<1>4. ASSUME NEW w \in Worlds, NEW a \in agents[w], executeAgent(w, a)
      PROVE  CellsApart'
  <2>1. ~InRun(w)
    BY <1>4 DEF executeAgent, InRun
  <2>2. PICK S : Population(S) /\ \E e \in Nat : EpochInv(e, S)
    BY <2>1, EpochOfWorld
  <2>3. PICK e \in Nat : EpochInv(e, S)
    BY <2>2
  <2> QED
    BY <1>1, <1>4, <2>2, <2>3, executeAgentApart
<1> QED
  BY <1>2, <1>3, <1>4, StepOfWorlds

(* While there are at most two worlds per row, the worlds share one state. *)
LEMMA WorldInvariant == ASSUME FewWorlds PROVE Spec => [](WorldInv /\ CellsApart)
<1>1. Init => WorldInv /\ CellsApart
  BY InitWorldInv
<1>2. WorldInv /\ CellsApart /\ [Next]_vars => (WorldInv /\ CellsApart)'
  BY StepOfWorlds, NextCellsApart
<1> QED
  BY <1>1, <1>2, PTL DEF Spec

(* What an agent sees in its turn is the present state of the simulation.  *)
THEOREM ExactViews == ASSUME FewWorlds PROVE Spec => []ViewIsExact
<1>1. WorldInv => ViewIsExact
  <2> SUFFICES ASSUME WorldInv, NEW w \in Worlds, pc[w] = "execute"
               PROVE  ExistingIn(Reachable(w, sectionIndex[w]), Visible(w))
                        = ExistingIn(Reachable(w, sectionIndex[w]), {[a EXCEPT !.value = touched[a.id]] : a \in Held})
    BY DEF ViewIsExact
  <2>10. ~InRun(w)
    BY DEF InRun
  <2>11. PICK S : Population(S) /\ \E e \in Nat : EpochInv(e, S)
    BY <2>10, EpochOfWorld
  <2>1. PICK e \in Nat : EpochInv(e, S)
    BY <2>11
  <2>2. At(w, e) /\ sectionIndex[w] = This(e)
    <3>1. At(w, e)
      BY <2>1 DEF EpochInv, Phases, Behind
    <3> QED
      BY <3>1, SectionOfEpoch DEF WorldInv, Base
  <2>3. AtView(w, This(e), S, Present, View(w))
    BY <2>1, <2>2 DEF EpochInv, ViewsAt
  <2>4. Present = {[a EXCEPT !.value = touched[a.id]] : a \in Held}
    BY DEF Present, Now
  <2>5. \A x : x \in ExistingIn(Reachable(w, sectionIndex[w]), Visible(w)) <=> x \in View(w) /\ Reaches(w, This(e), x)
    BY <2>2 DEF ExistingIn, View, AliveIn, Reaches
  <2>6. \A x : x \in ExistingIn(Reachable(w, sectionIndex[w]), Present) <=> /\ x \in Present /\ x.exists
                                                                            /\ Reaches(w, This(e), x)
    BY <2>2 DEF ExistingIn, Reaches
  <2>7. \A x \in View(w) : x.exists
    BY DEF View, AliveIn
  <2>8. \A x : (x \in View(w) /\ Reaches(w, This(e), x)) <=> (x \in Present /\ x.exists /\ Reaches(w, This(e), x))
    BY <2>3, <2>7 DEF AtView
  <2>9. ExistingIn(Reachable(w, sectionIndex[w]), Visible(w)) = ExistingIn(Reachable(w, sectionIndex[w]), Present)
    <3>1. \A x : x \in ExistingIn(Reachable(w, sectionIndex[w]), Visible(w))
                   <=> x \in ExistingIn(Reachable(w, sectionIndex[w]), Present)
      BY <2>5, <2>6, <2>8
    <3>2. /\ \A x \in ExistingIn(Reachable(w, sectionIndex[w]), Visible(w)) : x \in ExistingIn(Reachable(w, sectionIndex[w]), Present)
          /\ \A x \in ExistingIn(Reachable(w, sectionIndex[w]), Present) :
                 x \in ExistingIn(Reachable(w, sectionIndex[w]), Visible(w))
      BY <3>1
    <3> QED
      BY <3>1 DEF ExistingIn
  <2> QED
    BY <2>4, <2>9
<1> QED
  BY <1>1, WorldInvariant, PTL

(* No world holds an old copy of an agent beside a newer one.              *)
THEOREM SingleCopies == ASSUME FewWorlds PROVE Spec => []NoSecondCopy
<1>1. WorldInv => NoSecondCopy
  <2> SUFFICES ASSUME WorldInv, NEW w \in Worlds, NEW a \in Visible(w), NEW b \in Visible(w), a.id = b.id
               PROVE  a = b
    BY DEF NoSecondCopy
  <2>1. UniqueIds(agents[w]) /\ UniqueIds(overlapAgents[w]) /\ \A i \in Ids(agents[w]) : i \notin Ids(overlapAgents[w])
    BY DEF WorldInv, Base, HolderInv, UniqueOwned, OwnedNotGhost, StepLife, GhostsOnce
  <2> QED
    BY <2>1 DEF Visible, UniqueIds, Ids
<1> QED
  BY <1>1, WorldInvariant, PTL

(* Wherever an agent goes in a step, it is executed once in that step.     *)
THEOREM EachOnce == ASSUME FewWorlds PROVE Spec => []OneTurnPerStep
<1>1. WorldInv => OneTurnPerStep
  BY AllExecuted DEF WorldInv, Base, OneTurnPerStep
<1> QED
  BY <1>1, WorldInvariant, PTL

(* Two agents of different worlds never get to the same cell.              *)
THEOREM CellsShared == ASSUME FewWorlds PROVE Spec => []OneAgentPerCell
<1>1. WorldInv /\ CellsApart => OneAgentPerCell
  <2> SUFFICES ASSUME WorldInv, CellsApart, NEW a \in Held, NEW b \in Held,
                      a.exists, b.exists, a.position = b.position
               PROVE  a = b
    BY DEF OneAgentPerCell
  <2>1. TypeInv /\ HolderInv /\ a \in Agent /\ b \in Agent /\ touched \in [Agents -> Nat]
    BY HeldType DEF WorldInv, Base, TypeInv, TypeOK
  <2>2. /\ Now(a, touched) \in Present /\ Now(b, touched) \in Present
        /\ UniqueIds(Held)
    BY <2>1, PresentFacts
  <2>3. Now(a, touched).position = a.position /\ Now(a, touched).exists = a.exists /\ Now(a, touched).id = a.id
    BY <2>1, NowKeeps
  <2>4. Now(b, touched).position = b.position /\ Now(b, touched).exists = b.exists /\ Now(b, touched).id = b.id
    BY <2>1, NowKeeps
  <2>5. a.id = b.id
    BY <2>2, <2>3, <2>4 DEF CellsApart
  <2> QED
    BY <2>2, <2>5 DEF UniqueIds
<1> QED
  BY <1>1, WorldInvariant, PTL

(* When all worlds are done nothing is on its way, nothing is dead, and    *)
(* the copies are those of the agents as they are.                         *)
LEMMA EndOfWorlds ==
    ASSUME FewWorlds, WorldInv, \A w \in Worlds : pc[w] = "finished"
    PROVE  /\ \A h : h \in Held <=> \E w \in Worlds : h \in agents[w]
           /\ \A w \in Worlds : \A a \in agents[w] : a.exists /\ Owns(w, a)
           /\ Held = Present
           /\ \A w \in Worlds : \A x : x \in View(w) <=> x \in Present /\ Sees(w, x)
<1>1. TypeInv /\ HolderInv /\ StepLife /\ OwnedLife /\ DoneInv
  BY DEF WorldInv, Base, StepLife, LifeInv
<1>2. <<0, 0>> \in Worlds
  BY WorldsPerRowAssumption DEF Worlds, Coords
<1>3. ~InRun(<<0, 0>>)
  BY <1>2 DEF InRun
<1>4. PICK S : Population(S) /\ \E e \in Nat : EpochInv(e, S)
  BY <1>2, <1>3, EpochOfWorld
<1>5. PICK e \in Nat : EpochInv(e, S)
  BY <1>4
<1>6. \A w \in Worlds : At(w, e) /\ ~Awaits(w, e) /\ ~HasSent(w, e)
  BY <1>5 DEF EpochInv, Phases, Behind, Awaits, HasSent
<1>7. Active(e) = {}
  BY DEF Active
<1>8. \A w \in Worlds : Leaving(w) = {}
  BY <1>1 DEF HolderInv, LeavingInv, Leaving
<1>9. \A c \in Channels : DOMAIN agentChannel[c] = {}
  <2> SUFFICES ASSUME NEW c \in Channels PROVE DOMAIN agentChannel[c] = {}
    OBVIOUS
  <2>1. c[1] \in Worlds /\ c[2] \in Worlds
    BY ChannelEnds
  <2>2. Len(agentChannel[c]) = (IF Awaits(c[2], e) THEN 1 ELSE 0) + (IF HasSent(c[1], e) THEN 1 ELSE 0)
    BY <1>5 DEF EpochInv, AgentCount
  <2>3. Len(agentChannel[c]) = 0
    BY <1>6, <2>1, <2>2
  <2>4. agentChannel[c] \in Seq(SUBSET Agent)
    BY <1>1 DEF TypeInv, TypeOK
  <2> QED
    BY <2>3, <2>4
<1>10. \A h : h \in Held <=> \E w \in Worlds : h \in agents[w]
  BY <1>8, <1>9, HeldCases
<1>11. \A w \in Worlds : \A a \in agents[w] : a.exists /\ Owns(w, a)
  BY <1>1 DEF DoneInv, OwnedLife
<1>12. S \subseteq Agent /\ Present \subseteq Agent /\ \A b \in S : b.exists
  <2>1. Present \in SUBSET Agent
    BY <1>1, PresentFacts
  <2> QED
    BY <1>4, <2>1 DEF Population
<1>13. /\ UniqueIds(Held) /\ touched \in [Agents -> Nat] /\ Held \subseteq Agent
       /\ \A x \in Present : \E h \in Held : x = Now(h, touched) /\ h \in Agent /\ h.id = x.id
       /\ \A h \in Held : Now(h, touched) \in Present
  <2>1. touched \in [Agents -> Nat]
    BY <1>1 DEF TypeInv, TypeOK
  <2> QED
    BY <1>1, <2>1, PresentFacts, HeldType
<1>14. \A x \in Present : x.exists
  BY <1>10, <1>11, <1>13, NowKeeps
<1>15. \A x : x \in S <=> x \in Present
  <2>1. TruthPart(S, Present, {}, This(e))
    BY <1>5, <1>7 DEF EpochInv, Truth
  <2> QED
    BY <1>14, <2>1 DEF TruthPart
<1>16. \A w \in Worlds : \A x : x \in View(w) <=> x \in Present /\ Sees(w, x)
  <2> SUFFICES ASSUME NEW w \in Worlds, NEW x
               PROVE  x \in View(w) <=> x \in Present /\ Sees(w, x)
    OBVIOUS
  <2>1. AtView(w, This(e), S, Present, View(w))
    BY <1>5, <1>6 DEF EpochInv, ViewsAt
  <2>2. x \in View(w) => x \in Present
    BY <1>15, <2>1 DEF AtView
  <2>3. x \in View(w) => Sees(w, x)
    <3>1. CASE x \in agents[w]
      BY <1>1, <1>11, <3>1, ReachesAreSeen DEF TypeInv, TypeOK
    <3>2. CASE x \in overlapAgents[w]
      BY <1>1, <3>2 DEF StepLife, LifeInv, GhostLife
    <3> QED
      BY <3>1, <3>2 DEF View, AliveIn, Visible
  <2>4. (x \in Present /\ Sees(w, x)) => x \in View(w)
    BY <1>14, <1>15, <2>1 DEF AtView
  <2> QED
    BY <2>2, <2>3, <2>4
<1>17. ASSUME NEW h \in Held
       PROVE  h = Now(h, touched)
  <2>1. PICK w \in Worlds : h \in agents[w]
    BY <1>10
  <2>2. h \in View(w)
    BY <1>11, <2>1 DEF View, AliveIn, Visible
  <2>3. h \in Present
    BY <1>16, <2>2
  <2>4. PICK g \in Held : h = Now(g, touched) /\ g.id = h.id
    BY <1>13, <2>3
  <2>5. g = h
    BY <1>13, <2>4 DEF UniqueIds
  <2> QED
    BY <2>4, <2>5
<1>18. Held = Present
  <2>1. \A h \in Held : h \in Present
    BY <1>13, <1>17
  <2>2. \A x \in Present : x \in Held
    BY <1>13, <1>17
  <2> QED
    BY <2>1, <2>2
<1> QED
  BY <1>10, <1>11, <1>16, <1>18

(* The last ghosts are right, and no modification of an agent is lost.     *)
THEOREM LastGhosts == ASSUME FewWorlds PROVE Spec => []GhostsAtEnd
<1>1. WorldInv => GhostsAtEnd
  <2> SUFFICES ASSUME WorldInv, \A w \in Worlds : pc[w] = "finished"
               PROVE  /\ \A a \in Held : a.value = touched[a.id]
                      /\ \A w \in Worlds : overlapAgents[w] =
                              {a \in Held : /\ isInside(overlapBoundaries(w), a.position)
                                            /\ ~isInside(boundaries(w), a.position)}
    BY DEF GhostsAtEnd
  <2>1. /\ \A h : h \in Held <=> \E w \in Worlds : h \in agents[w]
        /\ \A w \in Worlds : \A a \in agents[w] : a.exists /\ Owns(w, a)
        /\ Held = Present
        /\ \A w \in Worlds : \A x : x \in View(w) <=> x \in Present /\ Sees(w, x)
    BY EndOfWorlds
  <2>2. /\ TypeInv /\ HolderInv /\ touched \in [Agents -> Nat] /\ Held \subseteq Agent
        /\ GhostLife
    BY HeldType DEF WorldInv, Base, StepLife, LifeInv, TypeInv, TypeOK
  <2>3. ASSUME NEW a \in Held
        PROVE  a.value = touched[a.id]
    <3>1. PICK h \in Held : a = Now(h, touched) /\ h \in Agent /\ h.id = a.id
      BY <2>1, <2>2, PresentFacts
    <3> QED
      BY <2>2, <3>1, NowKeeps
  <2>4. ASSUME NEW w \in Worlds, NEW x
        PROVE  x \in overlapAgents[w] <=> x \in Held /\ Sees(w, x) /\ ~Owns(w, x)
    <3>1. x \in overlapAgents[w] => x.exists /\ Sees(w, x) /\ x.id \notin Ids(agents[w])
      <4>1. x \in overlapAgents[w] => x.id \in Ids(overlapAgents[w])
        BY DEF Ids
      <4> QED
        BY <2>2, <4>1 DEF GhostLife, HolderInv, OwnedNotGhost
    <3>2. x \in overlapAgents[w] => x \in Held
      BY <2>1, <3>1 DEF View, AliveIn, Visible
    <3>3. ASSUME x \in Held, Owns(w, x)
          PROVE  x \in agents[w]
      <4>1. PICK v \in Worlds : x \in agents[v]
        BY <2>1, <3>3
      <4>2. Owns(v, x) /\ x.position \in Cells
        BY <2>1, <2>2, <3>3, <4>1 DEF Agent
      <4>3. v = w
        BY <3>3, <4>2, OneOwner DEF Owns
      <4> QED
        BY <4>1, <4>3
    <3>4. x \in overlapAgents[w] => ~Owns(w, x)
      BY <3>1, <3>2, <3>3 DEF Ids
    <3>5. ASSUME x \in Held, Sees(w, x), ~Owns(w, x)
          PROVE  x \in overlapAgents[w]
      <4>1. x \in View(w) /\ x \notin agents[w]
        BY <2>1, <3>5
      <4> QED
        BY <4>1 DEF View, AliveIn, Visible
    <3> QED
      BY <3>1, <3>2, <3>4, <3>5
  <2>5. ASSUME NEW w \in Worlds
        PROVE  overlapAgents[w] = {a \in Held : /\ isInside(overlapBoundaries(w), a.position)
                                                /\ ~isInside(boundaries(w), a.position)}
    BY <2>4 DEF Sees, Owns
  <2> QED
    BY <2>3, <2>5
<1> QED
  BY <1>1, WorldInvariant, PTL

----------------------------------------------------------------------------
(* Implementation of the simulation by one process *)

(* How many steps the worlds of an epoch have done.                        *)
LEMMA StepsOfEpoch ==
    ASSUME TypeInv, RunInv, NEW e \in Nat, NEW w \in Worlds, At(w, e), pc[w] = "execute",
           NEW v \in Worlds
    PROVE  /\ At(v, e) => step[w] = IF pc[v] = "removeAgents" THEN step[v] + 1 ELSE step[v]
           /\ Behind(v, e) => step[w] = IF ~InRun(v) /\ sectionIndex[v] = 3 THEN step[v] + 1 ELSE step[v]
<1>1. /\ step[w] \in Nat /\ sectionIndex[w] \in 0 .. 3
      /\ step[v] \in Nat /\ sectionIndex[v] \in 0 .. 3
  BY NumStepsAssumption DEF TypeInv, TypeOK, Sections
<1>2. e = 4 * step[w] + sectionIndex[w]
  BY DEF At
<1>3. ASSUME At(v, e)
      PROVE  step[w] = IF pc[v] = "removeAgents" THEN step[v] + 1 ELSE step[v]
  <2>1. CASE pc[v] = "removeAgents" /\ e = 4 * step[v] + 4
    <3>1. step[w] = step[v] + 1
      BY <1>1, <1>2, <2>1
    <3> QED
      BY <2>1, <3>1
  <2>2. CASE pc[v] # "removeAgents" /\ e = 4 * step[v] + sectionIndex[v]
    <3>1. step[w] = step[v]
      BY <1>1, <1>2, <2>2
    <3> QED
      BY <2>2, <3>1
  <2> QED
    BY <1>3, <2>1, <2>2 DEF At
<1>4. ASSUME Behind(v, e)
      PROVE  step[w] = IF ~InRun(v) /\ sectionIndex[v] = 3 THEN step[v] + 1 ELSE step[v]
  <2>1. CASE InRun(v) /\ e = 0
    <3>1. step[v] = 0
      BY <2>1 DEF RunInv, StepEnds
    <3>2. step[w] = step[v]
      BY <1>1, <1>2, <2>1, <3>1
    <3> QED
      BY <2>1, <3>2
  <2>2. CASE ~InRun(v) /\ e = 4 * step[v] + sectionIndex[v] + 1
    <3>1. CASE sectionIndex[v] = 3
      <4>1. step[w] = step[v] + 1
        BY <1>1, <1>2, <2>2, <3>1
      <4> QED
        BY <2>2, <3>1, <4>1
    <3>2. CASE sectionIndex[v] # 3
      <4>1. step[w] = step[v]
        BY <1>1, <1>2, <2>2, <3>2
      <4> QED
        BY <3>2, <4>1
    <3> QED
      BY <3>1, <3>2
  <2> QED
    BY <1>4, <2>1, <2>2 DEF Behind, InRun
<1> QED
  BY <1>3, <1>4

(* Who is in step with an agent that has its turn.                         *)
LEMMA EpochTurns ==
    ASSUME FewWorlds, WorldInv, NEW e \in Nat, NEW S, EpochInv(e, S),
           NEW w \in Worlds, pc[w] = "execute", NEW x \in Present, x.exists
    PROVE  x.turns \in {step[w], step[w] + 1}
<1>1. TypeInv /\ HolderInv /\ RemovedInv /\ RunInv /\ StepLife /\ OwnedLife /\ LeavingLife /\ TurnsOwned /\ SweptInv
  BY DEF WorldInv, Base, StepLife, LifeInv, TurnsInv
<1>2. At(w, e)
  BY DEF EpochInv, Phases, Behind
<1>3. PICK h \in Held : x = Now(h, touched) /\ h \in Agent
  BY <1>1, PresentFacts
<1>4. h.exists /\ h.turns = x.turns
  <2>1. touched \in [Agents -> Nat]
    BY <1>1 DEF TypeInv, TypeOK
  <2>2. Now(h, touched).exists = h.exists /\ Now(h, touched).turns = h.turns
    BY <1>3, <2>1, NowKeeps
  <2> QED
    BY <1>3, <2>2
<1>5. step[w] \in Nat /\ \A v \in Worlds : step[v] \in Nat
  BY <1>1, NumStepsAssumption DEF TypeInv, TypeOK
<1>6. ASSUME NEW v \in Worlds
      PROVE  /\ At(v, e) => step[w] = IF pc[v] = "removeAgents" THEN step[v] + 1 ELSE step[v]
             /\ Behind(v, e) => step[w] = IF ~InRun(v) /\ sectionIndex[v] = 3 THEN step[v] + 1 ELSE step[v]
             /\ At(v, e) \/ Behind(v, e)
  <2>1. At(v, e) \/ Behind(v, e)
    BY DEF EpochInv, Phases
  <2> QED
    BY <1>1, <1>2, <2>1, StepsOfEpoch
<1>7. ASSUME NEW v \in Worlds, h \in agents[v]
      PROVE  h.turns \in {step[w], step[w] + 1}
  <2>1. h.turns = step[v] \/ h.turns = step[v] + 1
    <3>1. h.turns = step[v] + (IF h.id \in executedAgents[v] THEN 1 ELSE 0)
      BY <1>1, <1>7 DEF TurnsOwned
    <3>2. step[v] + 0 = step[v]
      BY <1>5
    <3> QED
      BY <3>1, <3>2
  <2>2. CASE step[w] = step[v]
    BY <2>1, <2>2
  <2>3. CASE step[w] = step[v] + 1
    <3>1. step[w] # step[v]
      BY <1>5, <2>3
    <3>2. pc[v] = "removeAgents" \/ (Behind(v, e) /\ ~InRun(v) /\ sectionIndex[v] = 3)
      BY <1>6, <3>1
    <3>3. CASE pc[v] = "removeAgents"
      <4>1. h.turns = step[v] + 1
        BY <1>1, <1>7, <3>3, AllExecuted
      <4> QED
        BY <2>3, <4>1
    <3>4. CASE Behind(v, e) /\ ~InRun(v) /\ sectionIndex[v] = 3
      <4>1. \A j \in Sections : Swept(v, j)
        <5>1. \A j \in Sections : j < 3 \/ j = 3
          BY DEF Sections
        <5>2. \A j \in Sections : PastSection(v, j)
          BY <3>4, <5>1 DEF PastSection, Behind, InRun
        <5> QED
          BY <1>1, <3>4, <5>2 DEF SweptInv
      <4>2. Owns(v, h) /\ h.position \in Cells
        BY <1>1, <1>3, <1>4, <1>7 DEF OwnedLife, Agent
      <4>3. PICK j \in Sections : isInside(section(v, j), h.position)
        BY <4>2, SectionsOfWorld DEF Owns
      <4>4. h.id \in executedAgents[v]
        BY <1>4, <1>7, <4>1, <4>3 DEF Swept
      <4>5. h.turns = step[v] + 1
        BY <1>1, <1>7, <4>4 DEF TurnsOwned
      <4> QED
        BY <2>3, <4>5
    <3> QED
      BY <3>2, <3>3, <3>4
  <2> QED
    BY <1>6, <2>2, <2>3
<1>8. ASSUME NEW v \in Worlds, h \in Leaving(v)
      PROVE  h.turns \in {step[w], step[w] + 1}
  <2>1. h.turns = step[v] + 1
    BY <1>1, <1>8 DEF LeavingLife
  <2>2. pc[v] = "execute"
    BY <1>1, <1>8 DEF HolderInv, LeavingInv, Leaving
  <2>3. At(v, e)
    BY <1>6, <2>2 DEF Behind
  <2> QED
    BY <1>6, <2>1, <2>2, <2>3
<1>9. ASSUME NEW c \in Channels, NEW k \in DOMAIN agentChannel[c], h \in agentChannel[c][k]
      PROVE  h.turns \in {step[w], step[w] + 1}
  <2>1. c[1] \in Worlds /\ c[2] \in Worlds
    BY ChannelEnds
  <2>2. agentChannel[c] \in Seq(SUBSET Agent)
    BY <1>1 DEF TypeInv, TypeOK
  <2>3. CASE Awaits(c[2], e) /\ k = 1
    <3>1. LastLetter(e, S, c, agentChannel[c][k])
      BY <2>3 DEF EpochInv, AgentLetters
    <3>2. h.turns = step[c[2]] + 1
      BY <1>9, <3>1 DEF LastLetter
    <3>3. Behind(c[2], e)
      BY <2>3 DEF Awaits
    <3>4. step[w] = step[c[2]] \/ step[w] = step[c[2]] + 1
      BY <1>6, <2>1, <3>3
    <3> QED
      BY <3>2, <3>4
  <2>4. CASE ~(Awaits(c[2], e) /\ k = 1)
    <3>1. ThisLetter(e, c, agentChannel[c][k])
      BY <2>4 DEF EpochInv, AgentLetters
    <3>2. h.turns = step[c[1]] + 1
      BY <1>9, <3>1 DEF ThisLetter
    <3>3. HasSent(c[1], e)
      <4>1. Len(agentChannel[c]) = (IF Awaits(c[2], e) THEN 1 ELSE 0) + (IF HasSent(c[1], e) THEN 1 ELSE 0)
        BY DEF EpochInv, AgentCount
      <4>2. k \in 1 .. Len(agentChannel[c])
        BY <2>2, <1>9
      <4>3. SUFFICES ASSUME ~HasSent(c[1], e) PROVE FALSE
        OBVIOUS
      <4>4. CASE Awaits(c[2], e)
        <5>1. Len(agentChannel[c]) = 1
          BY <4>1, <4>3, <4>4
        <5> QED
          BY <2>4, <4>2, <4>4, <5>1
      <4>5. CASE ~Awaits(c[2], e)
        <5>1. Len(agentChannel[c]) = 0
          BY <4>1, <4>3, <4>5
        <5> QED
          BY <4>2, <5>1
      <4> QED
        BY <4>4, <4>5
    <3>4. step[w] = step[c[1]]
      <4>1. At(c[1], e) /\ pc[c[1]] = "receiveAgents"
        BY <3>3 DEF HasSent
      <4> QED
        BY <1>6, <2>1, <4>1
    <3> QED
      BY <3>2, <3>4
  <2> QED
    BY <2>3, <2>4
<1>10. h.turns \in {step[w], step[w] + 1}
  BY <1>7, <1>8, <1>9, HeldCases
<1> QED
  BY <1>4, <1>10

(* The simulation begins as that of one process.                           *)
LEMMA InitGlobal == Init => OneProcess!Init
<1> SUFFICES ASSUME Init PROVE OneProcess!Init
  OBVIOUS
<1>1. PICK place \in [Agents -> InitialCells] :
        /\ \A a, b \in Agents : a # b => place[a] # place[b]
        /\ agents = [w \in Worlds |->
              {[id |-> a, position |-> place[a], exists |-> TRUE, turns |-> 0, value |-> 0]
                  : a \in {b \in Agents : isInside(boundaries(w), place[b])}}]
  BY DEF Init
<1> DEFINE Placed(i) == [id |-> i, position |-> place[i], exists |-> TRUE, turns |-> 0, value |-> 0]
<1>2. \A h : h \in Held <=> \E w \in Worlds : h \in agents[w]
  <2>1. \A w \in Worlds : Leaving(w) = {}
    BY DEF Init, Leaving
  <2>2. \A c \in Channels : DOMAIN agentChannel[c] = {}
    BY DEF Init
  <2> QED
    BY <2>1, <2>2, HeldCases
<1>3. \A w \in Worlds : \A h : h \in agents[w] <=> \E i \in Agents :
          isInside(boundaries(w), place[i]) /\ h = Placed(i)
  BY <1>1
<1>4. ASSUME NEW i \in Agents
      PROVE  \E w \in Worlds : isInside(boundaries(w), place[i])
  <2>1. place[i] \in Cells
    BY InitialCellsAssumption
  <2> QED
    BY <2>1, OwnerOfCell
<1>5. \A h : h \in Held <=> \E i \in Agents : h = Placed(i)
  <2> HIDE DEF Placed
  <2> QED
    BY <1>2, <1>3, <1>4
<1>6. ASSUME NEW i \in Agents
      PROVE  [Placed(i) EXCEPT !.value = touched[Placed(i).id]] = Placed(i)
  <2>1. Placed(i).id = i /\ Placed(i).value = touched[i] /\ touched \in [Agents -> Nat]
    BY DEF Init
  <2>2. Placed(i) \in Agent
    BY <1>1, InitialCellsAssumption DEF Agent
  <2>3. Now(Placed(i), touched) = Placed(i)
    <3> HIDE DEF Placed
    <3> QED
      BY <2>1, <2>2, NowKeeps
  <2> QED
    BY <2>3 DEF Now
<1>7. {[a EXCEPT !.value = touched[a.id]] : a \in Held} = {Placed(i) : i \in Agents}
  <2> HIDE DEF Placed
  <2> QED
    BY <1>5, <1>6
<1> QED
  BY <1>1, <1>7 DEF OneProcess!Init

(* The agents of OneProcess are the present ones.                          *)
LEMMA PresentIsPopulation == Present = {[a EXCEPT !.value = touched[a.id]] : a \in Held}
BY DEF Present, Now

(* Agents are what their fields are.                                       *)
LEMMA TurnRecord ==
    ASSUME NEW a \in Agent, NEW b \in Agent, NEW dies \in BOOLEAN,
           b.id = a.id, b.turns = a.turns + 1, b.value = a.value, b.exists <=> ~dies
    PROVE  b = [a EXCEPT !.position = b.position, !.turns = @ + 1, !.exists = ~dies]
<1>2. a.turns + 1 \in Nat /\ b.position \in Cells /\ (~dies) \in BOOLEAN
  BY DEF Agent
<1> DEFINE p == b.position
<1>5. p \in Cells
  BY <1>2
<1> HIDE DEF p
<1>1. \A n \in Nat, alive \in BOOLEAN :
        LET r == [a EXCEPT !.position = p, !.turns = n, !.exists = alive]
        IN  /\ r \in Agent /\ r.id = a.id /\ r.position = p
            /\ r.turns = n /\ r.value = a.value /\ (r.exists <=> alive)
  BY <1>5 DEF Agent
<1>6. LET r == [a EXCEPT !.position = p, !.turns = a.turns + 1, !.exists = ~dies]
      IN  /\ r \in Agent /\ r.id = a.id /\ r.position = p
          /\ r.turns = a.turns + 1 /\ r.value = a.value /\ (r.exists <=> ~dies)
  BY <1>1, <1>2, Zenon
<1>3. LET r == [a EXCEPT !.position = b.position, !.turns = a.turns + 1, !.exists = ~dies]
      IN  /\ r \in Agent /\ r.id = a.id /\ r.position = b.position
          /\ r.turns = a.turns + 1 /\ r.value = a.value /\ (r.exists <=> ~dies)
  BY <1>6 DEF p
<1>4. \A r \in Agent : /\ r.id = b.id /\ r.position = b.position /\ r.turns = b.turns
                       /\ r.value = b.value /\ (r.exists <=> b.exists)
                       => r = b
  BY DEF Agent
<1> QED
  BY <1>3, <1>4

(* A turn in a world is a turn of the simulation by one process.           *)
LEMMA executeAgentGlobal ==
    ASSUME FewWorlds, TypeInv, TypeInv', HolderInv, HolderInv', RemovedInv, OwnedLife,
           NEW e \in Nat, NEW S, Population(S), EpochInv(e, S),
           NEW w \in Worlds, NEW a \in agents[w], executeAgent(w, a), WorldInv, TurnsOwned
    PROVE  OneProcess!Turn(a) /\ a \in Present
<1>0. a.id \notin executedAgents[w] /\ pc[w] = "execute" /\ inSection(w, a)
  BY TurnDetails DEF executeAgent
<1>1. OnlyAt(w) /\ a \in Agent
  BY TurnDetails
<1>2. PICK b \in Agent, touch \in SUBSET Agents, leaves \in BOOLEAN, dies \in BOOLEAN :
        /\ Turn(w, a, b, touch, leaves, dies)
        /\ TurnOf(w, a, b, touch, leaves, dies)
  BY TurnDetails
<1>17. /\ AtView(w, This(e), S, Present, View(w))
       /\ a \in Present /\ a.exists /\ Reaches(w, This(e), b)
       /\ \A x : x \in Present' <=> x \in AfterTurn(Present, a, b, touch)
  BY <1>1, <1>2, ExecutedIsPresent
<1>23. At(w, e)
  BY <1>0 DEF EpochInv, Phases, Behind
<1>24. sectionIndex[w] = This(e)
  BY <1>0, <1>23, SectionOfEpoch
<1>25. /\ a.id \notin touch
       /\ \A i \in touch : \E t \in View(w) : /\ t.id = i /\ t \in Agent
                                              /\ Near(a.position, t.position)
                                              /\ Reaches(w, sectionIndex[w], t)
  BY <1>0, <1>1, <1>2, TurnReaches
<1>26. \A i \in touch : \E t \in View(w) :
           t.id = i /\ t \in Present /\ Near(a.position, t.position)
  BY <1>17, <1>24, <1>25 DEF AtView
<1>3. /\ AtView(w, This(e), S, Present, View(w))
      /\ a \in Present /\ a.exists /\ Reaches(w, This(e), b)
      /\ \A i \in touch : \E t \in View(w) :
             t.id = i /\ t \in Present /\ Near(a.position, t.position)
      /\ \A x : x \in Present' <=> x \in AfterTurn(Present, a, b, touch)
  BY <1>17, <1>26
<1>4. Present \subseteq Agent /\ UniqueIds(Present)
  BY PresentFacts
<1>5. \A p, q : OneProcess!Near(p, q) <=> Near(p, q)
  BY DEF OneProcess!Near, OneProcess!Distance, Near, Distance
<1>6. OneProcess!Cells = Cells
  BY DEF OneProcess!Cells, OneProcess!Size, Cells, Size
<1>7. a.turns = step[w] /\ step[w] < NumSteps
  <2>1. step[w] \in Nat
    BY NumStepsAssumption DEF TypeInv, TypeOK
  <2>2. step[w] + 0 = step[w]
    BY <2>1
  <2>3. a.turns = step[w]
    BY <1>0, <2>2 DEF TurnsOwned
  <2> QED
    BY <1>0, <2>3 DEF TypeInv, StepInv
<1>8. OneProcess!InStep(a)
  <2>1. \A x \in Present : x.exists => x.turns \in {a.turns, a.turns + 1}
    BY <1>0, <1>7, EpochTurns
  <2> QED
    BY <2>1, PresentIsPopulation DEF OneProcess!InStep
<1>9. b.position \in {a.position} \cup {c \in Cells : Near(a.position, c) /\ ~\E x \in Present : x.exists /\ x.position = c}
  <2>1. CASE b.position = a.position
    BY <2>1
  <2>2. CASE Near(a.position, b.position) /\ checkPosition(w, b.position)
    <3>1. ASSUME NEW x \in Present, x.exists, x.position = b.position
          PROVE  FALSE
      <4>1. x \in View(w)
        BY <1>3, <3>1 DEF AtView, Reaches
      <4> QED
        BY <2>2, <3>1, <4>1 DEF checkPosition, View, AliveIn
    <3>2. b.position \in Cells
      BY DEF Agent
    <3> QED
      BY <2>2, <3>1, <3>2
  <2> QED
    BY <1>2, <2>1, <2>2 DEF TurnOf
<1> DEFINE T == {x \in Present : x.id \in touch}
<1>10. T \in {{}} \cup {{c} : c \in {x \in Present : Touches /\ x.exists /\ x # a /\ Near(a.position, x.position)}}
  <2>1. touch \in Targets(w, a)
    BY <1>2 DEF TurnOf
  <2>2. CASE touch = {}
    BY <2>2
  <2>3. CASE touch # {}
    <3>1. PICK u \in Visible(w) : Touches /\ u.id # a.id /\ touch = {u.id}
      BY <2>1, <2>3 DEF Targets
    <3>2. PICK t \in View(w) : t.id = u.id /\ t \in Present /\ Near(a.position, t.position)
      BY <1>3, <3>1
    <3>3. t.exists /\ t # a
      BY <3>1, <3>2 DEF View, AliveIn
    <3>4. \A x : x \in T <=> x = t
      BY <1>4, <3>1, <3>2 DEF UniqueIds
    <3>5. T = {t}
      BY <3>4
    <3>6. t \in {x \in Present : Touches /\ x.exists /\ x # a /\ Near(a.position, x.position)}
      BY <3>1, <3>2, <3>3
    <3> QED
      BY <3>5, <3>6
  <2> QED
    BY <2>2, <2>3
<1>11. dies \in {FALSE} \cup (IF Deaths THEN {TRUE} ELSE {})
  BY <1>2 DEF TurnOf, Fates
<1>12. b = [a EXCEPT !.position = b.position, !.turns = @ + 1, !.exists = ~dies]
  BY <1>1, <1>2, TurnRecord DEF TurnOf
<1>13. Present' = (Present \ (T \cup {a})) \cup {[x EXCEPT !.value = @ + 1] : x \in T} \cup {b}
  <2>1. \A x : x \in Present' <=> (x = b \/ \E y \in Present : y # a /\ x = Modified(y, touch))
    BY <1>3 DEF AfterTurn
  <2>2. a \notin T
    BY <1>25
  <2>3. \A y \in Present : Modified(y, touch) = IF y \in T THEN [y EXCEPT !.value = @ + 1] ELSE y
    BY DEF Modified
  <2>4. T \subseteq Present
    OBVIOUS
  <2> DEFINE Q == (Present \ (T \cup {a})) \cup {[x EXCEPT !.value = @ + 1] : x \in T} \cup {b}
             More(x) == [x EXCEPT !.value = @ + 1]
  <2>5. \A x : x \in Q <=> \/ x \in Present /\ x \notin T /\ x # a
                           \/ \E y \in T : x = More(y)
                           \/ x = b
    OBVIOUS
  <2>6. \A y \in Present : Modified(y, touch) = IF y \in T THEN More(y) ELSE y
    BY <2>3
  <2> HIDE DEF T, More
  <2>7. \A x : x \in Present' <=> \/ x \in Present /\ x \notin T /\ x # a
                                  \/ \E y \in T : x = More(y)
                                  \/ x = b
    BY <2>1, <2>2, <2>4, <2>6
  <2>8. \A x : x \in Present' <=> x \in Q
    BY <2>5, <2>7
  <2> HIDE DEF Q
  <2>9. Present' = Q
    BY <2>8
  <2> QED
    BY <2>9 DEF Q
<1> HIDE DEF T
<1>14. \E target \in {a.position} \cup {c \in Cells : Near(a.position, c) /\ ~\E x \in Present : x.exists /\ x.position = c},
          mod \in {{}} \cup {{c} : c \in {x \in Present : Touches /\ x.exists /\ x # a /\ Near(a.position, x.position)}},
          die \in {FALSE} \cup (IF Deaths THEN {TRUE} ELSE {}) :
         Present' = (Present \ (mod \cup {a})) \cup {[x EXCEPT !.value = @ + 1] : x \in mod}
                        \cup {[a EXCEPT !.position = target, !.turns = @ + 1, !.exists = ~die]}
  BY <1>9, <1>10, <1>11, <1>12, <1>13, Zenon
<1>18. \A c : OneProcess!Occupied(c) <=> \E x \in Present : x.exists /\ x.position = c
  BY PresentIsPopulation DEF OneProcess!Occupied
<1>19. {c \in OneProcess!Cells : OneProcess!Near(a.position, c) /\ ~OneProcess!Occupied(c)}
         = {c \in Cells : Near(a.position, c) /\ ~\E x \in Present : x.exists /\ x.position = c}
  BY <1>5, <1>6, <1>18
<1> DEFINE P == {[x EXCEPT !.value = touched[x.id]] : x \in Held}
<1>20. P = Present /\ P' = Present'
  BY DEF Present, Now
<1>27. OneProcess!InStep(a) /\ a.exists /\ a.turns < NumSteps /\ a \in Present
  BY <1>3, <1>7, <1>8
<1> HIDE DEF P
<1>28. {x \in P : Touches /\ x.exists /\ x # a /\ OneProcess!Near(a.position, x.position)}
         = {x \in Present : Touches /\ x.exists /\ x # a /\ Near(a.position, x.position)}
  BY <1>5, <1>20
<1>21. \E target \in {a.position} \cup {c \in OneProcess!Cells : OneProcess!Near(a.position, c) /\ ~OneProcess!Occupied(c)},
          mod \in {{}} \cup {{c} : c \in {x \in P : Touches /\ x.exists /\ x # a
                                                  /\ OneProcess!Near(a.position, x.position)}},
          die \in {FALSE} \cup (IF Deaths THEN {TRUE} ELSE {}) :
         P' = (P \ (mod \cup {a})) \cup {[x EXCEPT !.value = @ + 1] : x \in mod}
                        \cup {[a EXCEPT !.position = target, !.turns = @ + 1, !.exists = ~die]}
  BY <1>14, <1>19, <1>20, <1>28, Zenon
<1>29. OneProcess!Turn(a)
  <2> USE DEF P
  <2>1. /\ a.exists /\ a.turns < NumSteps /\ OneProcess!InStep(a)
        /\ \E target \in {a.position} \cup {c \in OneProcess!Cells : OneProcess!Near(a.position, c) /\ ~OneProcess!Occupied(c)},
              mod \in {{}} \cup {{c} : c \in {x \in P : /\ Touches /\ x.exists /\ x # a
                                                  /\ OneProcess!Near(a.position, x.position)}},
              die \in {FALSE} \cup (IF Deaths THEN {TRUE} ELSE {}) :
           P' = (P \ (mod \cup {a})) \cup {[x EXCEPT !.value = @ + 1] : x \in mod}
                        \cup {[a EXCEPT !.position = target, !.turns = @ + 1, !.exists = ~die]}
    BY <1>21, <1>27
  <2> QED
    BY <2>1, Zenon DEF OneProcess!Turn
<1> QED
  BY <1>3, <1>29

(* The end of a step removes dead agents from the simulation.              *)
LEMMA removeAgentsGlobal ==
    ASSUME TypeInv, HolderInv, OwnedLife, NoException', NEW w \in Worlds, removeAgents(w)
    PROVE  Present' # Present => \E dead \in SUBSET {x \in Present : ~x.exists} :
               Present' = Present \ dead
<1>1. Present' \subseteq Present /\ \A x \in Present : x.exists => x \in Present'
  BY removeAgentsPresent
<1> DEFINE dead == Present \ Present'
<1>2. dead \in SUBSET {x \in Present : ~x.exists}
  BY <1>1
<1>3. Present' = Present \ dead
  BY <1>1
<1> QED
  BY <1>2, <1>3

(* Every step of World is a turn or a removal by the one process, or it    *)
(* leaves the state of the simulation as it is.                            *)
LEMMA StepOfOneProcess ==
    ASSUME FewWorlds, WorldInv, WorldInv', [Next]_vars
    PROVE  [OneProcess!Next]_({[a EXCEPT !.value = touched[a.id]] : a \in Held})
<1> DEFINE P == {[a EXCEPT !.value = touched[a.id]] : a \in Held}
<1>1. P = Present /\ P' = Present'
  BY DEF Present, Now
<1>2. /\ TypeInv /\ HolderInv /\ RemovedInv /\ OwnedLife /\ TurnsOwned
      /\ TypeInv' /\ HolderInv' /\ NoException'
  BY DEF WorldInv, Base, StepLife, LifeInv, TurnsInv
<1>3. SUFFICES ASSUME Present' # Present
               PROVE  OneProcess!Next
  BY <1>1
<1>4. ASSUME NEW w \in Worlds, removeAgents(w)
      PROVE  OneProcess!Next
  <2>1. \E dead \in SUBSET {x \in Present : ~x.exists} : Present' = Present \ dead
    BY <1>2, <1>3, <1>4, removeAgentsGlobal
  <2> HIDE DEF P
  <2>2. \E dead \in SUBSET {x \in P : ~x.exists} : dead \subseteq {x \in P : ~x.exists} /\ P' = P \ dead
    BY <1>1, <2>1
  <2>3. P' # P
    BY <1>1, <1>3
  <2> QED
    BY <2>2, <2>3, Zenon DEF P, OneProcess!Next, OneProcess!Remove
<1>5. ASSUME NEW w \in Worlds, NEW a \in agents[w], executeAgent(w, a)
      PROVE  OneProcess!Next
  <2>1. ~InRun(w)
    BY <1>5 DEF executeAgent, InRun
  <2>2. PICK S : Population(S) /\ \E e \in Nat : EpochInv(e, S)
    BY <2>1, EpochOfWorld
  <2>3. PICK e \in Nat : EpochInv(e, S)
    BY <2>2
  <2>4. OneProcess!Turn(a) /\ a \in Present
    BY <1>2, <1>5, <2>2, <2>3, executeAgentGlobal
  <2> HIDE DEF P
  <2>5. P' # P /\ \E b \in P : OneProcess!Turn(b)
    BY <1>1, <1>3, <2>4
  <2> QED
    BY <2>5, Zenon DEF P, OneProcess!Next
<1> QED
  BY <1>3, <1>4, <1>5, StepOfWorlds

(* The parallel simulation is a simulation by one process, whose agents    *)
(* take turns on one common state.                                         *)
THEOREM GlobalRefinement == ASSUME FewWorlds PROVE Spec => IsGlobalSimulation
<1>1. WorldInv /\ WorldInv' /\ [Next]_vars
        => [OneProcess!Next]_({[a EXCEPT !.value = touched[a.id]] : a \in Held})
  BY StepOfOneProcess
<1> QED
  BY <1>1, InitGlobal, WorldInvariant, PTL DEF Spec, IsGlobalSimulation, OneProcess!Spec
=============================================================================
