--------------------------- MODULE MCWorldRasters ---------------------------
(* Values of the rasters of WorldRasters, for TLC. *)
EXTENDS WorldRasters

\* Neighbouring cells and rasters differ, so that misplaced data shows.
MCMaximum == [r \in Rasters |-> [c \in Cells |-> (c[1] + 2 * c[2] + r) % (MaxValue + 1)]]
MCValue   == [r \in Rasters |-> [c \in Cells |-> MCMaximum[r][c] \div 2]]

\* The first raster, in a cell next to the world on the right
MCCollected == {<<1, <<LocalRasterSize, 1>>>>}
=============================================================================
