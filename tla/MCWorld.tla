------------------------------ MODULE MCWorld ------------------------------
(***************************************************************************)
(* Instances of World for TLC.                                             *)
(***************************************************************************)
EXTENDS World, TLC

\* Agents are interchangeable.
Symmetry == Permutations(Agents)

\* The corner where four worlds of 4 x 4 cells meet.
MCCorner == {<<3, 3>>, <<4, 4>>}

\* One cell on the border of the first world.
MCStart == {<<0, 3>>}

\* A cell of the middle world of three per row, and one of the world left of
\* it that is next to it.
MCMiddle == {<<4, 7>>, <<3, 7>>}

(***************************************************************************)
(* One schedule of the processes: the first world, row by row, that can    *)
(* take a step takes it.  The actions of two worlds only meet in messages  *)
(* and commute otherwise, so this leaves the choices of the agents and     *)
(* removes the interleavings; where both matter the runs use Spec.         *)
(***************************************************************************)
Precedes(v, w) == v[2] < w[2] \/ (v[2] = w[2] /\ v[1] < w[1])

CanStep(w) ==
    \/ pc[w] \in {"initSendGhosts", "stepSection", "execute", "sendGhosts", "removeAgents"}
    \/ pc[w] = "receiveAgents" /\ Arrived(agentChannel, w, Neighbors(w))
    \/ /\ pc[w] \in {"initReceiveGhosts", "receiveGhosts"}
       /\ Arrived(ghostChannel, w, ReceiveFrom(w, sectionIndex[w]))

ScheduledNext ==
    \/ Barrier
    \/ \E w \in Worlds : WorldStep(w) /\ \A v \in Worlds : Precedes(v, w) => ~CanStep(v)
    \/ Finished

ScheduledSpec == Init /\ [][ScheduledNext]_vars
=============================================================================
