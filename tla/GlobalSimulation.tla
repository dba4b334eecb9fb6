-------------------------- MODULE GlobalSimulation --------------------------
(***************************************************************************)
(* What the engine promises to whoever writes agents: however many         *)
(* processes share the area, the simulation is one in which the agents     *)
(* take their turns one after the other, each seeing the present state of  *)
(* everything it can reach.  This is World::step run by a single process.  *)
(***************************************************************************)
EXTENDS WorldGeometry

CONSTANTS Agents, InitialCells, NumSteps, Touches, Deaths

VARIABLE population     \* the agents, each in its present state

Near(p, q) == Distance(p[1], q[1]) =< Overlap /\ Distance(p[2], q[2]) =< Overlap

Init ==
    \E place \in [Agents -> InitialCells] :
        /\ \A a, b \in Agents : a # b => place[a] # place[b]
        /\ population =
             {[id |-> a, position |-> place[a], exists |-> TRUE, turns |-> 0, value |-> 0]
                 : a \in Agents}

Occupied(cell) == \E b \in population : b.exists /\ b.position = cell

\* The agents around have had as many turns as a, or already one more.
InStep(a) ==
    \A b \in population : b.exists /\ Near(a.position, b.position)
        => b.turns \in {a.turns, a.turns + 1}

\* Agent a moves to a free cell or stays, may modify one agent near the cell
\* where it began, and may die.
Turn(a) ==
    /\ a.exists /\ a.turns < NumSteps /\ InStep(a)
    /\ \E target \in {a.position} \cup {c \in Cells : Near(a.position, c) /\ ~Occupied(c)},
          touch \in {{}} \cup {{b} : b \in {c \in population :
                        /\ Touches /\ c.exists /\ c # a
                        /\ Near(a.position, c.position)}},
          dies \in {FALSE} \cup (IF Deaths THEN {TRUE} ELSE {}) :
        population' =
            (population \ (touch \cup {a}))
                \cup {[b EXCEPT !.value = @ + 1] : b \in touch}
                \cup {[a EXCEPT !.position = target, !.turns = @ + 1, !.exists = ~dies]}

\* The dead of a step disappear when it ends.
Remove(dead) ==
    /\ dead \subseteq {a \in population : ~a.exists}
    /\ population' = population \ dead

\* What changes the population is a turn or a removal.
Next ==
    /\ population' # population
    /\ \/ \E a \in population : Turn(a)
       \/ \E dead \in SUBSET {a \in population : ~a.exists} : Remove(dead)

Spec == Init /\ [][Next]_population
=============================================================================
