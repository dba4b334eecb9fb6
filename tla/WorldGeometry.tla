--------------------------- MODULE WorldGeometry ---------------------------
(***************************************************************************)
(* How pandora/World.cxx divides the square simulation area among the MPI  *)
(* processes ("worlds"), and the arithmetic that decides which cells a     *)
(* world exchanges with which neighbour in which section.                  *)
(*                                                                         *)
(* A world is named by its position in the grid of worlds (_worldPos); the *)
(* MPI rank is that position read row by row (getPositionFromId).  A cell  *)
(* is a pair <<x, y>> in global coordinates.  A rectangle is one segment   *)
(* per axis, and a segment is its origin and its size.  The code writes    *)
(* the same arithmetic twice, once for x and once for y; here it is        *)
(* written once, for one axis.                                             *)
(***************************************************************************)
EXTENDS Integers

CONSTANTS
    WorldsPerRow,       \* sqrt(numTasks)
    LocalRasterSize,    \* Simulation::_localRasterSize, side of one world
    Overlap             \* World::_overlap

\* A square grid of at least one world.
ASSUME WorldsPerRowAssumption == WorldsPerRow \in Nat \ {0}

\* Simulation::init throws unless the local raster size is even.
ASSUME LocalRasterSizeAssumption ==
    LocalRasterSize \in Nat \ {0} /\ LocalRasterSize % 2 = 0

\* World::checkOverlapSize throws unless a section is twice the overlap.
ASSUME OverlapAssumption ==
    Overlap \in Nat /\ 2 * Overlap =< LocalRasterSize \div 2

Half == LocalRasterSize \div 2

Size == WorldsPerRow * LocalRasterSize

Coords   == 0 .. WorldsPerRow - 1
Worlds   == Coords \X Coords
Cells    == (0 .. Size - 1) \X (0 .. Size - 1)
Sections == 0 .. 3

----------------------------------------------------------------------------
(* Segments and rectangles *)

Segment(lo, len) == [lo |-> lo, len |-> len]

Within(seg, c) == seg.lo =< c /\ c < seg.lo + seg.len

Contains(seg, part) == seg.lo =< part.lo /\ part.lo + part.len =< seg.lo + seg.len

Rectangle(segX, segY) == [x |-> segX, y |-> segY]

\* Rectangle::isInside
isInside(rect, cell) == Within(rect.x, cell[1]) /\ Within(rect.y, cell[2])

\* The local coordinates of a world start at the corner of its overlap
\* boundaries: position - _overlapBoundaries._origin, undone.
Shift(seg, by) == Segment(seg.lo + by, seg.len)

----------------------------------------------------------------------------
(* stablishPosition *)

Distance(a, b) == IF a < b THEN b - a ELSE a - b

Adjacent(c, d) == Distance(c, d) =< 1

Neighbors(w) == {v \in Worlds : v # w /\ Adjacent(v[1], w[1]) /\ Adjacent(v[2], w[2])}

BoundarySegment(c) == Segment(c * LocalRasterSize, LocalRasterSize)

\* The boundary, widened by the overlap on the sides that have a neighbour.
OverlapSegment(c) ==
    LET before == IF c # 0 THEN Overlap ELSE 0
        after  == IF c # WorldsPerRow - 1 THEN Overlap ELSE 0
    IN  Segment(c * LocalRasterSize - before, LocalRasterSize + before + after)

\* Mutation of SectionSegment: sections that include the cell after them.
SectionSegmentWide(c, half) == Segment(c * LocalRasterSize + half * Half, Half + 1)

\* half is 0 for the first half of the axis and 1 for the second one.
SectionSegment(c, half) == Segment(c * LocalRasterSize + half * Half, Half)

\* Sections 0 and 2 are the left ones, 0 and 1 the top ones.
HalfX(s) == IF s \in {0, 2} THEN 0 ELSE 1
HalfY(s) == IF s \in {0, 1} THEN 0 ELSE 1

boundaries(w)        == Rectangle(BoundarySegment(w[1]), BoundarySegment(w[2]))
overlapBoundaries(w) == Rectangle(OverlapSegment(w[1]), OverlapSegment(w[2]))
section(w, s) ==
    Rectangle(SectionSegment(w[1], HalfX(s)), SectionSegment(w[2], HalfY(s)))

\* Mutation of getIdFromPosition: rows taken for columns.
getIdFromPositionSwapped(cell) ==
    <<cell[2] \div LocalRasterSize, cell[1] \div LocalRasterSize>>

\* World::getIdFromPosition, as the grid position of the rank it returns.
getIdFromPosition(cell) ==
    <<cell[1] \div LocalRasterSize, cell[2] \div LocalRasterSize>>

----------------------------------------------------------------------------
(* The zones exchanged with a neighbour, along one axis.  c is the         *)
(* coordinate of the world that asks and d, in -1 .. 1, the difference     *)
(* from it to the neighbour.  All are in the local coordinates of c.       *)

\* getInternalOverlap: own cells that the neighbour sees.
InternalAxis(c, d) ==
    LET first == IF c = 0 THEN 0 ELSE Overlap
    IN  Segment(IF d = 1 THEN LocalRasterSize - Overlap + first ELSE first,
                IF d = 0 THEN LocalRasterSize ELSE Overlap)

\* getExternalOverlap: the neighbour's cells that this world sees.
ExternalAxis(c, d) ==
    LET first == IF c = 0 THEN 0 ELSE Overlap
    IN  Segment(IF d = -1 THEN 0 ELSE IF d = 0 THEN first ELSE LocalRasterSize + first,
                IF d = 0 THEN LocalRasterSize ELSE Overlap)

\* getOverlap: the zone both worlds see, around the section being run.
OverlapOrigin(c, d, half) ==
    LET middle == IF c = WorldsPerRow - 1 THEN Half ELSE Half - Overlap
        border == IF c = 0 THEN LocalRasterSize - Overlap ELSE LocalRasterSize
    IN  IF d = 1 THEN border ELSE IF d = 0 /\ half = 1 THEN middle ELSE 0

\* Mutations of OverlapLength: the section without its surroundings, and the
\* whole border.
OverlapLengthStrict(c, d, half) == IF d = 0 THEN Half ELSE 2 * Overlap
OverlapLengthWhole(c, d, half)  == IF d = 0 THEN LocalRasterSize + Overlap ELSE 2 * Overlap

OverlapLength(c, d, half) ==
    LET before == IF c # 0 \/ half = 1 THEN Overlap ELSE 0
        after  == IF c # WorldsPerRow - 1 \/ half = 0 THEN Overlap ELSE 0
    IN  IF d = 0 THEN Half + before + after ELSE 2 * Overlap

OverlapAxis(c, d, half) == Segment(OverlapOrigin(c, d, half), OverlapLength(c, d, half))

getInternalOverlap(w, v) ==
    Rectangle(InternalAxis(w[1], v[1] - w[1]), InternalAxis(w[2], v[2] - w[2]))
getExternalOverlap(w, v) ==
    Rectangle(ExternalAxis(w[1], v[1] - w[1]), ExternalAxis(w[2], v[2] - w[2]))
getOverlap(w, v, s) ==
    Rectangle(OverlapAxis(w[1], v[1] - w[1], HalfX(s)),
              OverlapAxis(w[2], v[2] - w[2], HalfY(s)))

\* A rectangle in the local coordinates of w, in global coordinates.
Global(w, rect) ==
    Rectangle(Shift(rect.x, OverlapSegment(w[1]).lo),
              Shift(rect.y, OverlapSegment(w[2]).lo))

----------------------------------------------------------------------------
(* Which neighbours exchange data in a section *)

Difference(w, v) == <<v[1] - w[1], v[2] - w[2]>>

\* Section s of w may have changed cells that v sees.
needsToBeUpdated(w, v, s) ==
    \/ s = 0 /\ Difference(w, v) \in {<<-1, -1>>, <<-1, 0>>, <<0, -1>>}
    \/ s = 1 /\ Difference(w, v) \in {<<0, -1>>, <<1, -1>>, <<1, 0>>}
    \/ s = 2 /\ Difference(w, v) \in {<<0, 1>>, <<-1, 1>>, <<-1, 0>>}
    \/ s = 3 /\ Difference(w, v) \in {<<1, 0>>, <<1, 1>>, <<0, 1>>}

\* Mutations of needsToReceiveData: a corner forgotten, and the test of
\* needsToBeUpdated used for both ends.
needsToReceiveDataNoCorner(w, v, s) ==
    \/ s = 0 /\ Difference(w, v) \in {<<0, 1>>, <<1, 0>>}
    \/ s = 1 /\ Difference(w, v) \in {<<-1, 0>>, <<-1, 1>>, <<0, 1>>}
    \/ s = 2 /\ Difference(w, v) \in {<<0, -1>>, <<1, -1>>, <<1, 0>>}
    \/ s = 3 /\ Difference(w, v) \in {<<-1, -1>>, <<-1, 0>>, <<0, -1>>}
needsToReceiveDataLikeSender(w, v, s) == needsToBeUpdated(w, v, s)

\* Section s of v may have changed cells that w sees.
needsToReceiveData(w, v, s) ==
    \/ s = 0 /\ Difference(w, v) \in {<<0, 1>>, <<1, 0>>, <<1, 1>>}
    \/ s = 1 /\ Difference(w, v) \in {<<-1, 0>>, <<-1, 1>>, <<0, 1>>}
    \/ s = 2 /\ Difference(w, v) \in {<<0, -1>>, <<1, -1>>, <<1, 0>>}
    \/ s = 3 /\ Difference(w, v) \in {<<-1, -1>>, <<-1, 0>>, <<0, -1>>}

\* The neighbours that w sends to, and receives from, in section s.
SendTo(w, s)      == {v \in Neighbors(w) : needsToBeUpdated(w, v, s)}
ReceiveFrom(w, s) == {v \in Neighbors(w) : needsToReceiveData(w, v, s)}

----------------------------------------------------------------------------
(* Zones in global coordinates, and the cells a section can affect *)

\* The zone of section s between w and v, as the world that asks computes it.
Zone(w, v, s) == Global(w, getOverlap(w, v, s))

\* A segment and everything an action that starts in it may reach.
Widened(seg) == Segment(seg.lo - Overlap, seg.len + 2 * Overlap)

\* The cells that an agent running in section s of w may read or change.
Reachable(w, s) == LET r == section(w, s) IN Rectangle(Widened(r.x), Widened(r.y))
=============================================================================
