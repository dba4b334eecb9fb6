---------------------------- MODULE MCCassandra -----------------------------
(* Recorded simulations and a project for Cassandra, for TLC. *)
EXTENDS Cassandra

CONSTANTS walker, farmer, soils, terrain

\* Simulations with all types and rasters, where the farmers die out or come later,
\* without rasters, and without agents
MCLong  == [numSteps |-> 4, types |-> {walker, farmer}, steady |-> {walker},
            rasters |-> {soils, terrain}]
MCShort == [numSteps |-> 3, types |-> {walker}, steady |-> {walker}, rasters |-> {}]
MCLand  == [numSteps |-> 2, types |-> {}, steady |-> {}, rasters |-> {terrain}]

MCAll       == {MCLong, MCShort, MCLand}
MCAllOrNone == MCAll \union {NoFile}

MCProjects == {[file |-> MCShort, resolution |-> 2, types |-> {walker}, rasters |-> {soils}]}
=============================================================================
