------------------------- MODULE MCSimulationRecord -------------------------
(* Recorded simulations for SimulationRecord, for TLC. *)
EXTENDS SimulationRecord

CONSTANTS walker, farmer, a, b, c, grass

\* Where an agent is at each step: the task, or 0 if it does not exist
MCLives == {[k \in Steps |-> 1], [k \in Steps |-> IF k < 2 THEN 1 ELSE 2],
            [k \in Steps |-> IF k = 0 THEN 2 ELSE 0], [k \in Steps |-> IF k = 1 THEN 2 ELSE 0],
            [k \in Steps |-> IF k < 2 THEN 0 ELSE 1], [k \in Steps |-> 0]}

MCRow(id, i, k) == [id |-> id, value |-> [x |-> IF id = a THEN k ELSE i, y |-> k,
                                         wealth |-> IF id = c THEN 2 - k ELSE k - 1]]

\* The walkers a and c and the farmer b
MCFile(lives, i, t, k) ==
    LET of(id) == IF lives[id][k] = i THEN <<MCRow(id, i, k)>> ELSE <<>>
    IN  IF t = walker THEN of(a) \o of(c) ELSE of(b)

MCSimulations ==
    {[file |-> [i \in Tasks |-> [t \in Types |-> [k \in Steps |-> MCFile(lives, i, t, k)]]],
      raster |-> [r \in {grass} |-> [k \in Steps |-> (k * k) - lives[a][0]]]] :
        lives \in {l \in [{a, b, c} -> MCLives] : l[c] \in {[k \in Steps |-> 1], l[b]}}}
=============================================================================
