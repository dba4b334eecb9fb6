---------------------------- MODULE OverlapZones ----------------------------
(***************************************************************************)
(* The questions two worlds ask of the geometry while they exchange data:  *)
(* world "self" and its neighbour "id" each compute, on their own and      *)
(* without talking to each other, whether they exchange anything in        *)
(* section "sectionIndex" and which rectangle of cells it covers.  The     *)
(* section loop of World::step asks for one section after the other; the   *)
(* cell probes the answers.                                                *)
(***************************************************************************)
EXTENDS WorldGeometry

VARIABLES self, id, sectionIndex, cell

vars == <<self, id, sectionIndex, cell>>

TypeOK == /\ self \in Worlds
          /\ id \in Neighbors(self)
          /\ sectionIndex \in Sections
          /\ cell \in Cells

Init == /\ self \in Worlds
        /\ id \in Neighbors(self)
        /\ sectionIndex = 0
        /\ cell \in Cells

\* World::step asks once per section, for the sections 0 to 3.
NextSection == /\ sectionIndex' = (sectionIndex + 1) % 4
               /\ UNCHANGED <<self, id, cell>>

Spec == Init /\ [][NextSection]_vars

----------------------------------------------------------------------------
(* The two ends agree that there is an exchange exactly when both think so *)
(* and then on the rectangle: sendGhostAgents and receiveGhostAgents walk  *)
(* the same cells, and the MPI_Isend of sendOverlapZones has the size of   *)
(* the MPI_Irecv of receiveOverlapData.                                    *)
ZonesAgree ==
    /\ needsToBeUpdated(self, id, sectionIndex)
           <=> needsToReceiveData(id, self, sectionIndex)
    /\ Zone(self, id, sectionIndex) = Zone(id, self, sectionIndex)

(* What one end sends with getInternalOverlap is what the other one stores *)
(* with getExternalOverlap: the same rectangle, and exactly the cells that *)
(* the sender owns and the receiver sees.                                  *)
InternalMatchesExternal ==
    /\ Global(self, getInternalOverlap(self, id))
           = Global(id, getExternalOverlap(id, self))
    /\ isInside(Global(self, getInternalOverlap(self, id)), cell)
           <=> /\ isInside(boundaries(self), cell)
               /\ isInside(overlapBoundaries(id), cell)

(* Two worlds that run the same section at the same time never reach the   *)
(* same cell: the purpose of checkOverlapSize ("to avoid conflicts between *)
(* non adjacent subfields") and of running the sections one by one.        *)
SectionsSeparated ==
    ~ /\ isInside(Reachable(self, sectionIndex), cell)
      /\ isInside(Reachable(id, sectionIndex), cell)

(* sendOverlapZones and clearRequests index the raster of a world with the *)
(* zone: no index leaves the raster, which covers the overlap boundaries.  *)
ZoneInRaster ==
    LET zone   == Zone(self, id, sectionIndex)
        raster == overlapBoundaries(self)
    IN  Contains(raster.x, zone.x) /\ Contains(raster.y, zone.y)

(* Whatever section sectionIndex of self may have changed in the view of a *)
(* neighbour is in the zone the neighbour is sent: getOverlap "returns the *)
(* general overlap zone between both worlds" (World.hxx).                  *)
ZoneComplete ==
    /\ isInside(Reachable(self, sectionIndex), cell)
    /\ isInside(overlapBoundaries(id), cell)
    => /\ needsToBeUpdated(self, id, sectionIndex)
       /\ isInside(Zone(self, id, sectionIndex), cell)

(* receiveGhostAgents erases the ghosts of one zone and appends the copies *)
(* sent by one neighbour, neighbour after neighbour: the zones of two      *)
(* senders share no cell, so no erasure loses what another one sent.       *)
ZonesDisjoint ==
    \A v \in ReceiveFrom(self, sectionIndex) :
        /\ id \in ReceiveFrom(self, sectionIndex)
        /\ v # id
        => ~ /\ isInside(Zone(self, id, sectionIndex), cell)
             /\ isInside(Zone(self, v, sectionIndex), cell)

(* A cell belongs to one world and to one section of it, and the world is  *)
(* the one getIdFromPosition names: an agent is sent to its only owner.    *)
CellHasOneHome ==
    \A w \in Worlds : \A s \in Sections :
        isInside(section(w, s), cell)
            => /\ isInside(boundaries(w), cell)
               /\ w = getIdFromPosition(cell)
               /\ \A t \in Sections \ {s} : ~isInside(section(w, t), cell)
=============================================================================
