---------------------------- MODULE MCHouseholds ----------------------------
(* A small world for Households, for TLC. *)
EXTENDS Households

\* Two dunes, in the first two sections.
MCBoundaries == {<<0, 0>>, <<1, 0>>}
MCSectionOf == [c \in MCBoundaries |-> c[1]]

\* A dune in the overlap, which is the next world's.
MCOverlap == {<<2, 0>>}

MCDunes == Boundaries \union Overlap

\* Couples with two children to marry, as AdulthoodAge is 1, or with one behind a
\* child who died.
MCFamilies == {<<1, 1, 1, 1>>, <<1, 1, -1, 1>>}
=============================================================================
