------------------------- MODULE OverlapZonesProofs -------------------------
(***************************************************************************)
(* Proofs about the zones that worlds exchange (module OverlapZones), for  *)
(* every number of worlds, local raster size and overlap that the checks   *)
(* of the code accept.                                                     *)
(***************************************************************************)
EXTENDS OverlapZones, TLAPS

(* One axis of a zone is the same at both ends, in global coordinates.     *)
LEMMA AxisAgrees ==
    ASSUME NEW c \in Coords, NEW e \in Coords, Adjacent(c, e), NEW half \in {0, 1}
    PROVE  Shift(OverlapAxis(c, e - c, half), OverlapSegment(c).lo)
             = Shift(OverlapAxis(e, c - e, half), OverlapSegment(e).lo)
<1> USE WorldsPerRowAssumption, LocalRasterSizeAssumption, OverlapAssumption
    DEF Coords, Half
<1>1. e = c \/ e = c + 1 \/ c = e + 1
  BY DEF Adjacent, Distance
<1>2. CASE e = c
  BY <1>2
<1>3. CASE e = c + 1
  <2>1. e * LocalRasterSize = c * LocalRasterSize + LocalRasterSize
    BY <1>3
  <2> QED
    BY <1>3, <2>1 DEF Shift, OverlapAxis, OverlapOrigin, OverlapLength, OverlapSegment, Segment
<1>4. CASE c = e + 1
  <2>1. c * LocalRasterSize = e * LocalRasterSize + LocalRasterSize
    BY <1>4
  <2> QED
    BY <1>4, <2>1 DEF Shift, OverlapAxis, OverlapOrigin, OverlapLength, OverlapSegment, Segment
<1> QED
  BY <1>1, <1>2, <1>3, <1>4
(* One axis of what a world sends with getInternalOverlap is what its      *)
(* neighbour receives with getExternalOverlap, and is the part of its own  *)
(* boundaries that the neighbour sees.                                     *)
LEMMA InternalAxisIsExternalAxis ==
    ASSUME NEW c \in Coords, NEW e \in Coords, Adjacent(c, e), NEW x \in Int
    PROVE  /\ Shift(InternalAxis(c, e - c), OverlapSegment(c).lo)
                 = Shift(ExternalAxis(e, c - e), OverlapSegment(e).lo)
           /\ Within(Shift(InternalAxis(c, e - c), OverlapSegment(c).lo), x)
                 <=> Within(BoundarySegment(c), x) /\ Within(OverlapSegment(e), x)
<1> USE WorldsPerRowAssumption, LocalRasterSizeAssumption, OverlapAssumption
    DEF Coords, Half, Shift, Within, Segment
<1>1. e = c \/ e = c + 1 \/ c = e + 1
  BY DEF Adjacent, Distance
<1>2. /\ e = c + 1 => e * LocalRasterSize = c * LocalRasterSize + LocalRasterSize
      /\ c = e + 1 => c * LocalRasterSize = e * LocalRasterSize + LocalRasterSize
  OBVIOUS
<1>3. c * LocalRasterSize \in Int /\ e * LocalRasterSize \in Int
  OBVIOUS
<1> QED
  BY <1>1, <1>2, <1>3 DEF InternalAxis, ExternalAxis, OverlapSegment, BoundarySegment

(* On an axis where two neighbours differ, the same half of both, widened  *)
(* by the overlap, has no cell in common: this is where checkOverlapSize   *)
(* is needed.                                                              *)
LEMMA HalvesSeparated ==
    ASSUME NEW c \in Coords, NEW e \in Coords, Adjacent(c, e), c # e,
           NEW half \in {0, 1}, NEW x \in Int
    PROVE  ~ /\ Within(Widened(SectionSegment(c, half)), x)
             /\ Within(Widened(SectionSegment(e, half)), x)
<1> USE WorldsPerRowAssumption, LocalRasterSizeAssumption, OverlapAssumption
    DEF Coords, Half, Shift, Within, Segment
<1>1. e = c \/ e = c + 1 \/ c = e + 1
  BY DEF Adjacent, Distance
<1>2. /\ e = c + 1 => e * LocalRasterSize = c * LocalRasterSize + LocalRasterSize
      /\ c = e + 1 => c * LocalRasterSize = e * LocalRasterSize + LocalRasterSize
  OBVIOUS
<1>3. c * LocalRasterSize \in Int /\ e * LocalRasterSize \in Int
  OBVIOUS
<1> QED
  BY <1>1, <1>2, <1>3 DEF Widened, SectionSegment

(* One axis of a zone stays inside the raster of the world that uses it.   *)
LEMMA AxisInRaster ==
    ASSUME WorldsPerRow > 1, NEW c \in Coords, NEW e \in Coords, Adjacent(c, e),
           NEW half \in {0, 1}
    PROVE  Contains(OverlapSegment(c),
                    Shift(OverlapAxis(c, e - c, half), OverlapSegment(c).lo))
<1> USE WorldsPerRowAssumption, LocalRasterSizeAssumption, OverlapAssumption
    DEF Coords, Half, Shift, Contains, Segment
<1>1. e = c \/ e = c + 1 \/ c = e + 1
  BY DEF Adjacent, Distance
<1>2. /\ e = c + 1 => e * LocalRasterSize = c * LocalRasterSize + LocalRasterSize
      /\ c = e + 1 => c * LocalRasterSize = e * LocalRasterSize + LocalRasterSize
  OBVIOUS
<1>3. c * LocalRasterSize \in Int /\ e * LocalRasterSize \in Int
  OBVIOUS
<1>4. CASE e = c
  BY <1>2, <1>3, <1>4 DEF OverlapAxis, OverlapOrigin, OverlapLength, OverlapSegment
<1>5. CASE e = c + 1
  BY <1>2, <1>3, <1>5 DEF OverlapAxis, OverlapOrigin, OverlapLength, OverlapSegment
<1>6. CASE c = e + 1
  BY <1>2, <1>3, <1>6 DEF OverlapAxis, OverlapOrigin, OverlapLength, OverlapSegment
<1> QED
  BY <1>1, <1>4, <1>5, <1>6

(* The direction in which a half of an axis looks over the border.         *)
Outwards(half) == IF half = 0 THEN -1 ELSE 1

(* With two worlds per row: what an action in a half may reach of the view *)
(* of a neighbour lies outwards or straight ahead, and in the zone.        *)
LEMMA AxisComplete ==
    ASSUME WorldsPerRow = 2,
           NEW c \in Coords, NEW e \in Coords, Adjacent(c, e),
           NEW half \in {0, 1}, NEW x \in Int,
           Within(Widened(SectionSegment(c, half)), x), Within(OverlapSegment(e), x)
    PROVE  /\ e - c \in {0, Outwards(half)}
           /\ Within(Shift(OverlapAxis(c, e - c, half), OverlapSegment(c).lo), x)
<1> USE WorldsPerRowAssumption, LocalRasterSizeAssumption, OverlapAssumption
    DEF Coords, Half, Shift, Within, Segment
<1>1. e = c \/ e = c + 1 \/ c = e + 1
  BY DEF Adjacent, Distance
<1>2. /\ e = c + 1 => e * LocalRasterSize = c * LocalRasterSize + LocalRasterSize
      /\ c = e + 1 => c * LocalRasterSize = e * LocalRasterSize + LocalRasterSize
  OBVIOUS
<1>3. c * LocalRasterSize \in Int /\ e * LocalRasterSize \in Int
  OBVIOUS
<1>4. c \in {0, 1} /\ e \in {0, 1}
  OBVIOUS
<1>5. CASE e = c /\ half = 0
  BY <1>2, <1>3, <1>4, <1>5 DEF Widened, SectionSegment, OverlapAxis, OverlapOrigin, OverlapLength,
     OverlapSegment, Outwards
<1>6. CASE e = c /\ half = 1
  BY <1>2, <1>3, <1>4, <1>6 DEF Widened, SectionSegment, OverlapAxis, OverlapOrigin, OverlapLength,
     OverlapSegment, Outwards
<1>7. CASE e = c + 1 /\ half = 0
  BY <1>2, <1>3, <1>4, <1>7 DEF Widened, SectionSegment, OverlapAxis, OverlapOrigin, OverlapLength,
     OverlapSegment, Outwards
<1>8. CASE e = c + 1 /\ half = 1
  BY <1>2, <1>3, <1>4, <1>8 DEF Widened, SectionSegment, OverlapAxis, OverlapOrigin, OverlapLength,
     OverlapSegment, Outwards
<1>9. CASE c = e + 1 /\ half = 0
  BY <1>2, <1>3, <1>4, <1>9 DEF Widened, SectionSegment, OverlapAxis, OverlapOrigin, OverlapLength,
     OverlapSegment, Outwards
<1>10. CASE c = e + 1 /\ half = 1
  BY <1>2, <1>3, <1>4, <1>10 DEF Widened, SectionSegment, OverlapAxis, OverlapOrigin, OverlapLength,
     OverlapSegment, Outwards
<1> QED
  BY <1>1, <1>5, <1>6, <1>7, <1>8, <1>9, <1>10

(* With two worlds per row: the zone shared with a world straight ahead    *)
(* and the one shared with a world inwards have no cell in common.         *)
LEMMA AxisDisjoint ==
    ASSUME WorldsPerRow = 2,
           NEW c \in Coords, NEW e \in Coords, NEW half \in {0, 1}, NEW x \in Int,
           Adjacent(c, e), c - e = Outwards(half)
    PROVE  ~ /\ Within(Shift(OverlapAxis(c, c - c, half), OverlapSegment(c).lo), x)
             /\ Within(Shift(OverlapAxis(c, e - c, half), OverlapSegment(c).lo), x)
<1> USE WorldsPerRowAssumption, LocalRasterSizeAssumption, OverlapAssumption
    DEF Coords, Half, Shift, Within, Segment
<1>1. e = c \/ e = c + 1 \/ c = e + 1
  BY DEF Adjacent, Distance
<1>2. /\ e = c + 1 => e * LocalRasterSize = c * LocalRasterSize + LocalRasterSize
      /\ c = e + 1 => c * LocalRasterSize = e * LocalRasterSize + LocalRasterSize
  OBVIOUS
<1>3. c * LocalRasterSize \in Int /\ e * LocalRasterSize \in Int
  OBVIOUS
<1>4. c \in {0, 1} /\ e \in {0, 1}
  OBVIOUS
<1>5. CASE half = 0
  BY <1>1, <1>2, <1>3, <1>4, <1>5 DEF OverlapAxis, OverlapOrigin, OverlapLength, OverlapSegment, Outwards
<1>6. CASE half = 1
  BY <1>1, <1>2, <1>3, <1>4, <1>6 DEF OverlapAxis, OverlapOrigin, OverlapLength, OverlapSegment, Outwards
<1> QED
  BY <1>5, <1>6

----------------------------------------------------------------------------

(* The arguments of a call, one coordinate at a time.                      *)
LEMMA CallCoordinates ==
    ASSUME TypeOK
    PROVE  /\ WorldsPerRow > 1
           /\ self[1] \in Coords /\ self[2] \in Coords
           /\ id[1] \in Coords /\ id[2] \in Coords
           /\ Adjacent(self[1], id[1]) /\ Adjacent(self[2], id[2])
           /\ Adjacent(id[1], self[1]) /\ Adjacent(id[2], self[2])
           /\ id[1] # self[1] \/ id[2] # self[2]
           /\ HalfX(sectionIndex) \in {0, 1} /\ HalfY(sectionIndex) \in {0, 1}
           /\ cell[1] \in Int /\ cell[2] \in Int
<1>1. /\ self[1] \in Coords /\ self[2] \in Coords
      /\ id[1] \in Coords /\ id[2] \in Coords
      /\ id[1] # self[1] \/ id[2] # self[2]
  BY DEF TypeOK, Worlds, Neighbors
<1>2. Adjacent(id[1], self[1]) /\ Adjacent(id[2], self[2])
  BY DEF TypeOK, Neighbors
<1>3. Adjacent(self[1], id[1]) /\ Adjacent(self[2], id[2])
  BY <1>1, <1>2 DEF Adjacent, Distance, Coords
<1>4. WorldsPerRow > 1
  BY <1>1, WorldsPerRowAssumption DEF Coords
<1>5. cell[1] \in Int /\ cell[2] \in Int
  BY DEF TypeOK, Cells
<1> QED
  BY <1>1, <1>2, <1>3, <1>4, <1>5 DEF HalfX, HalfY

(* The state holds a pair of neighbours, a section and a cell.             *)
LEMMA TypeInvariant == Spec => []TypeOK
<1>1. Init => TypeOK
  BY DEF Init, TypeOK, Sections
<1>2. TypeOK /\ [NextSection]_vars => TypeOK'
  BY DEF TypeOK, NextSection, vars, Sections
<1> QED
  BY <1>1, <1>2, PTL DEF Spec

(* Both ends of an exchange agree on whether there is one and on its cells,*)
(* so no MPI_Irecv is posted for data of another size or another place.    *)
THEOREM ZonesAlwaysAgree == Spec => []ZonesAgree
<1>1. TypeOK => ZonesAgree
  <2> SUFFICES ASSUME TypeOK PROVE ZonesAgree
    OBVIOUS
  <2>1. needsToBeUpdated(self, id, sectionIndex)
            <=> needsToReceiveData(id, self, sectionIndex)
    <3>1. PICK a, b \in Int : self = <<a, b>>
      BY DEF TypeOK, Worlds, Coords
    <3>2. PICK c, d \in Int : id = <<c, d>>
      BY DEF TypeOK, Neighbors, Worlds, Coords
    <3>3. sectionIndex \in {0, 1, 2, 3}
      BY DEF TypeOK, Sections
    <3> QED
      BY <3>1, <3>2, <3>3 DEF needsToBeUpdated, needsToReceiveData, Difference
  <2>2. Zone(self, id, sectionIndex) = Zone(id, self, sectionIndex)
    BY CallCoordinates, AxisAgrees DEF Zone, Global, getOverlap, Rectangle
  <2> QED
    BY <2>1, <2>2 DEF ZonesAgree
<1> QED
  BY <1>1, TypeInvariant, PTL

(* The cells sent with getInternalOverlap are those stored with            *)
(* getExternalOverlap, and exactly the sender's cells the receiver sees.   *)
THEOREM InternalAlwaysMatchesExternal == Spec => []InternalMatchesExternal
<1>1. TypeOK => InternalMatchesExternal
  BY CallCoordinates, InternalAxisIsExternalAxis
  DEF InternalMatchesExternal, Global, getInternalOverlap, getExternalOverlap,
      Rectangle, isInside, boundaries, overlapBoundaries
<1> QED
  BY <1>1, TypeInvariant, PTL

(* Two neighbours that run the same section never reach the same cell: the *)
(* check of checkOverlapSize is enough for every size the code accepts.    *)
THEOREM SectionsAlwaysSeparated == Spec => []SectionsSeparated
<1>1. TypeOK => SectionsSeparated
  BY CallCoordinates, HalvesSeparated
  DEF SectionsSeparated, Reachable, section, Rectangle, isInside
<1> QED
  BY <1>1, TypeInvariant, PTL

(* No zone leaves the raster of the world that reads or writes it.         *)
THEOREM ZoneAlwaysInRaster == Spec => []ZoneInRaster
<1>1. TypeOK => ZoneInRaster
  BY CallCoordinates, AxisInRaster
  DEF ZoneInRaster, Zone, Global, getOverlap, overlapBoundaries, Rectangle
<1> QED
  BY <1>1, TypeInvariant, PTL

(* With two worlds per row, everything a section may have changed in the   *)
(* view of a neighbour is in the zone sent to it.  (It fails from three    *)
(* worlds per row on, where a world has neighbours on both sides.)         *)
THEOREM ZoneAlwaysComplete == WorldsPerRow = 2 => (Spec => []ZoneComplete)
<1> SUFFICES ASSUME WorldsPerRow = 2 PROVE Spec => []ZoneComplete
  OBVIOUS
<1>1. TypeOK => ZoneComplete
  <2> SUFFICES ASSUME TypeOK,
                      isInside(Reachable(self, sectionIndex), cell),
                      isInside(overlapBoundaries(id), cell)
               PROVE  /\ needsToBeUpdated(self, id, sectionIndex)
                      /\ isInside(Zone(self, id, sectionIndex), cell)
    BY DEF ZoneComplete
  <2> DEFINE dx == id[1] - self[1]
             dy == id[2] - self[2]
  <2>1. dx \in {0, Outwards(HalfX(sectionIndex))} /\ dy \in {0, Outwards(HalfY(sectionIndex))}
    BY CallCoordinates, AxisComplete
    DEF Reachable, section, overlapBoundaries, Rectangle, isInside
  <2>2. isInside(Zone(self, id, sectionIndex), cell)
    BY CallCoordinates, AxisComplete
    DEF Reachable, section, overlapBoundaries, Rectangle, isInside,
        Zone, Global, getOverlap
  <2>3. dx # 0 \/ dy # 0
    BY CallCoordinates DEF Coords
  <2>4. needsToBeUpdated(self, id, sectionIndex)
    <3>1. sectionIndex \in {0, 1, 2, 3}
      BY DEF TypeOK, Sections
    <3>2. Difference(self, id) = <<dx, dy>>
      BY DEF Difference
    <3> HIDE DEF dx, dy
    <3> QED
      BY <2>1, <2>3, <3>1, <3>2 DEF needsToBeUpdated, Outwards, HalfX, HalfY
  <2> QED
    BY <2>2, <2>4
<1> QED
  BY <1>1, TypeInvariant, PTL

(* With two worlds per row, the zones that two neighbours refresh in one   *)
(* section are disjoint, so the order in which receiveGhostAgents visits   *)
(* the neighbours does not matter.                                         *)
THEOREM ZonesAlwaysDisjoint == WorldsPerRow = 2 => (Spec => []ZonesDisjoint)
<1> SUFFICES ASSUME WorldsPerRow = 2 PROVE Spec => []ZonesDisjoint
  OBVIOUS
<1>1. TypeOK => ZonesDisjoint
  <2> SUFFICES ASSUME TypeOK,
                      NEW v \in ReceiveFrom(self, sectionIndex),
                      id \in ReceiveFrom(self, sectionIndex), v # id,
                      isInside(Zone(self, id, sectionIndex), cell),
                      isInside(Zone(self, v, sectionIndex), cell)
               PROVE  FALSE
    BY DEF ZonesDisjoint
  <2> DEFINE hx == HalfX(sectionIndex)
             hy == HalfY(sectionIndex)
             InX(u) == Within(Shift(OverlapAxis(self[1], u[1] - self[1], hx),
                                    OverlapSegment(self[1]).lo), cell[1])
             InY(u) == Within(Shift(OverlapAxis(self[2], u[2] - self[2], hy),
                                    OverlapSegment(self[2]).lo), cell[2])
  <2>1. ASSUME NEW u \in ReceiveFrom(self, sectionIndex)
        PROVE  /\ u[1] \in Coords /\ u[2] \in Coords /\ u = <<u[1], u[2]>>
               /\ Adjacent(self[1], u[1]) /\ Adjacent(self[2], u[2])
               /\ u[1] = self[1] \/ self[1] - u[1] = Outwards(hx)
               /\ u[2] = self[2] \/ self[2] - u[2] = Outwards(hy)
    <3>1. PICK a \in Coords, b \in Coords : u = <<a, b>>
      BY DEF ReceiveFrom, Neighbors, Worlds
    <3>2. PICK c \in Coords, d \in Coords : self = <<c, d>>
      BY DEF TypeOK, Worlds
    <3>3. sectionIndex \in {0, 1, 2, 3}
      BY DEF TypeOK, Sections
    <3>4. Adjacent(self[1], u[1]) /\ Adjacent(self[2], u[2])
      BY <3>1, <3>2 DEF ReceiveFrom, Neighbors, Adjacent, Distance, Coords
    <3>5. needsToReceiveData(self, u, sectionIndex)
      BY DEF ReceiveFrom
    <3>6. /\ u[1] = self[1] \/ self[1] - u[1] = Outwards(hx)
          /\ u[2] = self[2] \/ self[2] - u[2] = Outwards(hy)
      BY <3>1, <3>2, <3>3, <3>5
      DEF needsToReceiveData, Difference, Outwards, HalfX, HalfY, Coords
    <3> QED
      BY <3>1, <3>4, <3>6
  <2>2. InX(id) /\ InY(id) /\ InX(v) /\ InY(v)
    BY DEF Zone, Global, getOverlap, Rectangle, isInside
  <2>3. v[1] # id[1] \/ v[2] # id[2]
    BY <2>1
  <2>4. /\ v[1] = id[1] \/ v[1] = self[1] \/ id[1] = self[1]
        /\ v[2] = id[2] \/ v[2] = self[2] \/ id[2] = self[2]
    BY <2>1, CallCoordinates DEF Coords, Outwards
  <2>5. CASE v[1] # id[1]
    BY <2>1, <2>2, <2>4, <2>5, CallCoordinates, AxisDisjoint
  <2>6. CASE v[2] # id[2]
    BY <2>1, <2>2, <2>4, <2>6, CallCoordinates, AxisDisjoint
  <2> QED
    BY <2>3, <2>5, <2>6
<1> QED
  BY <1>1, TypeInvariant, PTL

(* A cell of a world's boundary gives back the world when divided by the   *)
(* local raster size.                                                      *)
LEMMA DivisionFindsWorld ==
    ASSUME NEW c \in Coords, NEW x \in Int, Within(BoundarySegment(c), x)
    PROVE  x \div LocalRasterSize = c
<1>1. /\ c * LocalRasterSize =< x
      /\ x < c * LocalRasterSize + LocalRasterSize
  BY DEF Within, BoundarySegment, Segment
<1>2. /\ x \div LocalRasterSize \in Int
      /\ LocalRasterSize * (x \div LocalRasterSize) =< x
      /\ x < LocalRasterSize * (x \div LocalRasterSize) + LocalRasterSize
  BY LocalRasterSizeAssumption
<1>3. ASSUME NEW L \in Nat \ {0}, NEW k \in Nat, NEW q \in Int,
             k * L < L * q + L, L * q < k * L + L
      PROVE  q = k
  <2>1. CASE q =< k - 1
    <3>1. L * q =< L * (k - 1)
      BY <2>1
    <3>2. L * (k - 1) = k * L - L
      OBVIOUS
    <3> QED
      BY <1>3, <3>1, <3>2
  <2>2. CASE q >= k + 1
    <3>1. L * q >= L * (k + 1)
      BY <2>2
    <3>2. L * (k + 1) = k * L + L
      OBVIOUS
    <3> QED
      BY <1>3, <3>1, <3>2
  <2> QED
    BY <2>1, <2>2
<1>4. LocalRasterSize \in Nat \ {0} /\ c \in Nat
  BY LocalRasterSizeAssumption DEF Coords
<1> QED
  BY <1>1, <1>2, <1>3, <1>4

(* Every cell has one owner and one section of it, and getIdFromPosition   *)
(* names the owner: an agent that leaves a world is sent to the only world *)
(* that will execute it.                                                   *)
THEOREM CellAlwaysHasOneHome == Spec => []CellHasOneHome
<1>1. TypeOK => CellHasOneHome
  <2> SUFFICES ASSUME TypeOK, NEW w \in Worlds, NEW s \in Sections,
                      isInside(section(w, s), cell)
               PROVE  /\ isInside(boundaries(w), cell)
                      /\ w = getIdFromPosition(cell)
                      /\ \A t \in Sections \ {s} : ~isInside(section(w, t), cell)
    BY DEF CellHasOneHome
  <2>1. /\ w[1] \in Coords /\ w[2] \in Coords /\ w = <<w[1], w[2]>>
        /\ cell[1] \in Int /\ cell[2] \in Int
    BY CallCoordinates DEF Worlds
  <2> DEFINE In(half, axis) == Within(SectionSegment(w[axis], half), cell[axis])
  <2>2. /\ In(HalfX(s), 1) /\ In(HalfY(s), 2)
    BY DEF isInside, section, Rectangle
  <2>3. ASSUME NEW c \in Coords, NEW x \in Int, NEW h \in {0, 1},
               Within(SectionSegment(c, h), x)
        PROVE  /\ Within(BoundarySegment(c), x)
               /\ \A k \in {0, 1} : k # h => ~Within(SectionSegment(c, k), x)
    <3>1. c * LocalRasterSize \in Int
      BY LocalRasterSizeAssumption DEF Coords
    <3> QED
      BY <2>3, <3>1, LocalRasterSizeAssumption
      DEF Within, SectionSegment, BoundarySegment, Segment, Half
  <2>4. isInside(boundaries(w), cell)
    BY <2>1, <2>2, <2>3 DEF isInside, boundaries, Rectangle, HalfX, HalfY
  <2>5. w = getIdFromPosition(cell)
    BY <2>1, <2>4, DivisionFindsWorld DEF getIdFromPosition, isInside, boundaries, Rectangle
  <2>6. ASSUME NEW t \in Sections \ {s} PROVE ~isInside(section(w, t), cell)
    <3>1. HalfX(t) # HalfX(s) \/ HalfY(t) # HalfY(s)
      BY DEF HalfX, HalfY, Sections
    <3> QED
      BY <2>1, <2>2, <2>3, <3>1 DEF isInside, section, Rectangle, HalfX, HalfY
  <2> QED
    BY <2>4, <2>5, <2>6
<1> QED
  BY <1>1, TypeInvariant, PTL

=============================================================================
