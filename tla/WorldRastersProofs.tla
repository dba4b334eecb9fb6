------------------------- MODULE WorldRastersProofs -------------------------
(***************************************************************************)
(* Proofs about the exchange of raster overlap (module WorldRasters), for  *)
(* every number of worlds, size and overlap, any rasters and number of     *)
(* steps.                                                                  *)
(***************************************************************************)
EXTENDS WorldRasters, TLAPS

Lesser(a, b) == IF a < b THEN a ELSE b

----------------------------------------------------------------------------
(* The order of the messages *)

\* w updates v in section s or it does not, and how often it has before s.
Use(w, v, s) == IF needsToBeUpdated(w, v, s) THEN 1 ELSE 0

Before(w, v, s) ==
    (IF s > 0 THEN Use(w, v, 0) ELSE 0) + (IF s > 1 THEN Use(w, v, 1) ELSE 0)
        + (IF s > 2 THEN Use(w, v, 2) ELSE 0)

PerRound(w, v) == Before(w, v, 3) + Use(w, v, 3)

\* The loops over the sections that w has begun: that of run, then two in each
\* step.
Round(w) ==
    IF label[w] \in StartLabels \union {"exception"} THEN 0
    ELSE IF label[w] \in SectionLabels THEN 2 * step[w] + 2 ELSE 2 * step[w] + 1

\* The number of times that w has updated v, and has expected v to update it
Turn(w, v, q, s) == PerRound(w, v) * q + Before(w, v, s)

SentLabels == {"receive", "clear", "barrier", "exception", "receiveAll", "receiveZone"}
GotLabels == {"clear", "barrier", "exception"}

Sent(w, v) == Turn(w, v, Round(w), sectionIndex[w]) + (IF label[w] \in SentLabels THEN Use(w, v, sectionIndex[w]) ELSE 0)
Got(w, v)  == Turn(v, w, Round(w), sectionIndex[w]) + (IF label[w] \in GotLabels THEN Use(v, w, sectionIndex[w]) ELSE 0)

\* What is sent in a turn
Script(w, v, q, s) == IF q > 0 /\ q % 2 = 0 THEN Zone(w, v, s) ELSE Internal(w, v)

\* The n-th message from w to v is for raster r in section s of round q.
Number(w, v, q, s, r) == NumRasters * Turn(w, v, q, s) + r

Header(h, r, zone) == h.raster = r /\ h.zone = zone

ValueHeaders(box, c) ==
    \A n \in DOMAIN box[c] : \E q \in Nat, s \in Sections, r \in Rasters :
        /\ needsToBeUpdated(c[1], c[2], s)
        /\ n = Number(c[1], c[2], q, s, r)
        /\ Header(box[c][n], r, Script(c[1], c[2], q, s))

MaxHeaders(box, c) ==
    \A n \in DOMAIN box[c] : n \in Rasters /\ Header(box[c][n], n, Internal(c[1], c[2]))

HeadersOf(box, c) == IF c[3] = "max" THEN MaxHeaders(box, c) ELSE ValueHeaders(box, c)

HeaderInv == \A c \in Channels : HeadersOf(messages, c) /\ HeadersOf(posted, c)

MaxSent(w) == IF label[w] = "sendMax" THEN 0 ELSE 1
MaxGot(w)  == IF label[w] \in {"sendMax", "receiveMax"} THEN 0 ELSE 1

\* The blocks, of one element per raster, that are sent and expected on c
SentOn(c)   == IF c[3] = "max" THEN MaxSent(c[1]) ELSE Sent(c[1], c[2])
PostedOn(c) == IF c[3] = "max" THEN MaxGot(c[2]) ELSE Got(c[2], c[1])

LengthInv ==
    \A c \in Channels : /\ Len(messages[c]) = NumRasters * SentOn(c)
                        /\ Len(posted[c]) = NumRasters * PostedOn(c)

\* Where a world is in the loops
LoopInv ==
    \A w \in Worlds :
        /\ label[w] \in StartLabels \union {"exception"} => step[w] = 0
        /\ label[w] \in {"sendMax", "receiveMax", "clearMax", "barrierMax", "environment", "done"} =>
                sectionIndex[w] = 0

\* Requests that are done when a world comes to a label
NoSends(l, k)    == l \in {"sendMax", "barrierMax", "send", "barrier"} \/ (l = "environment" /\ k = 0)
NoReceives(l, k) == NoSends(l, k) \/ l \in {"receiveMax", "receive"}

ClearInv ==
    \A w \in Worlds :
        /\ NoSends(label[w], step[w]) => sendRequests[w] = <<>>
        /\ NoReceives(label[w], step[w]) => receiveRequests[w] = <<>>

----------------------------------------------------------------------------
(* The data *)

\* The data of the initial exchange is what the rasters were created with.
MaxData(box, c) ==
    \A n \in DOMAIN box[c] : \A x \in CellsIn(Internal(c[1], c[2])) :
        box[c][n].data[x] = OwnMaximum[n][x]

ValueData(box, c) ==
    \A n \in DOMAIN box[c], s \in Sections, r \in Rasters :
        needsToBeUpdated(c[1], c[2], s) /\ n = Number(c[1], c[2], 0, s, r) =>
            \A x \in CellsIn(Internal(c[1], c[2])) : box[c][n].data[x] = OwnValue[r][x]

DataOf(box, c) == IF c[3] = "max" THEN MaxData(box, c) ELSE ValueData(box, c)

DataInv == \A c \in Channels : DataOf(messages, c)

\* What follows is about one world: w with label l in section s of step k,
\* its values, its maxima and the receives it waits for.

Right(field, own, r, S) == \A x \in S : field[r][x] = own[r][x]

Listed(requests, request) == \E i \in DOMAIN requests : requests[i] = request

\* w waits for one message per raster from each of others, and has what it
\* no longer waits for.
Waiting(w, tag, others, base, requests, field, own) ==
    /\ \A i \in DOMAIN requests : \E v \in others, r \in Rasters :
            requests[i] = <<<<v, w, tag>>, base[v] + r>>
    /\ \A v \in others, r \in Rasters :
            Right(field, own, r, CopyCells[w][v]) \/ Listed(requests, <<<<v, w, tag>>, base[v] + r>>)

MaxBase(w)      == [v \in Neighbors(w) |-> 0]
ValueBase(w, s) == [v \in Neighbors(w) |-> NumRasters * Turn(v, w, 0, s)]

MaxPart(w, l, max, requests) ==
    /\ l = "clearMax" => Waiting(w, "max", Neighbors(w), MaxBase(w), requests, max, OwnMaximum)
    /\ l \notin {"sendMax", "receiveMax", "clearMax"} =>
            \A v \in Neighbors(w), r \in Rasters : Right(max, OwnMaximum, r, CopyCells[w][v])

ValuePart(w, l, s, vals, requests) ==
    /\ l = "clear" => Waiting(w, "value", ReceiveFrom(w, s), ValueBase(w, s), requests, vals, OwnValue)
    /\ l \in {"send", "receive", "clear", "barrier"} =>
        \A t \in Sections : t < s \/ (t = s /\ l = "barrier") =>
            \A v \in ReceiveFrom(w, t), r \in Rasters : Right(vals, OwnValue, r, CopyCells[w][v])

OwnPart(w, l, vals, max) ==
    \A r \in Rasters : /\ Right(max, OwnMaximum, r, OwnCells[w])
                       /\ l \in StartLabels => Right(vals, OwnValue, r, OwnCells[w])

\* What the environment makes of a cell in n steps
Grown(r, x, n) == Lesser(OwnValue[r][x] + n, OwnMaximum[r][x])

GrownIn(vals, n, r, S) == \A x \in S : <<r, x>> \notin Collected => vals[r][x] = Grown(r, x, n)

Grows(l, k) == IF l \notin StartLabels \union {"environment", "done"} THEN k + 1 ELSE k

GrowthPart(w, l, k, vals) ==
    l \notin StartLabels =>
        \A r \in Rasters : /\ GrownIn(vals, Grows(l, k), r, OwnCells[w])
                           /\ \A v \in Neighbors(w) : GrownIn(vals, Grows(l, k), r, CopyCells[w][v])

\* A field of a world has a value for each raster and cell that it holds.
Shape(w, field) == field = [r \in Rasters |-> [x \in HeldCells[w] |-> field[r][x]]]

WorldPart(w, l, s, k, vals, max, requests) ==
    /\ l # "exception"
    /\ Shape(w, vals) /\ Shape(w, max)
    /\ OwnPart(w, l, vals, max)
    /\ MaxPart(w, l, max, requests)
    /\ ValuePart(w, l, s, vals, requests)
    /\ GrowthPart(w, l, k, vals)

WorldsInv ==
    /\ DOMAIN values = Worlds /\ DOMAIN maxima = Worlds
    /\ \A w \in Worlds :
          WorldPart(w, label[w], sectionIndex[w], step[w], values[w], maxima[w], receiveRequests[w])

CopyInv == WorldsInv /\ DataInv


----------------------------------------------------------------------------
(* Types *)

Labels == StartLabels \union SectionLabels \union {"environment", "sendAll", "receiveAll", "done", "exception"}

Requests == Seq(Channels \X Nat)

IsBox(box) == \E S : box \in [Channels -> Seq(S)]

TypeInv ==
    /\ label \in [Worlds -> Labels]
    /\ sectionIndex \in [Worlds -> Sections]
    /\ step \in [Worlds -> Nat]
    /\ sendRequests \in [Worlds -> Requests]
    /\ receiveRequests \in [Worlds -> Requests]
    /\ IsBox(messages)
    /\ IsBox(posted)

----------------------------------------------------------------------------
(* Neighbours and their zones *)

LEMMA NeighborsSymmetric ==
    ASSUME NEW w \in Worlds, NEW v \in Neighbors(w)
    PROVE  /\ v \in Worlds /\ w \in Neighbors(v)
           /\ Adjacent(v[1], w[1]) /\ Adjacent(w[1], v[1])
           /\ Adjacent(v[2], w[2]) /\ Adjacent(w[2], v[2])
           /\ v[1] \in Coords /\ v[2] \in Coords /\ w[1] \in Coords /\ w[2] \in Coords
BY WorldsPerRowAssumption DEF Neighbors, Worlds, Adjacent, Distance, Coords

LEMMA SendersAndReceivers ==
    ASSUME NEW w \in Worlds, NEW v \in Neighbors(w), NEW s \in Sections
    PROVE  /\ needsToBeUpdated(w, v, s) <=> needsToReceiveData(v, w, s)
           /\ v \in SendTo(w, s) <=> needsToBeUpdated(w, v, s)
           /\ w \in ReceiveFrom(v, s) <=> needsToBeUpdated(w, v, s)
<1>1. PICK a, b \in Int : w = <<a, b>>
  BY WorldsPerRowAssumption DEF Worlds, Coords
<1>2. PICK c, d \in Int : v = <<c, d>>
  BY WorldsPerRowAssumption, NeighborsSymmetric DEF Worlds, Coords
<1>3. s \in {0, 1, 2, 3}
  BY DEF Sections
<1>4. needsToBeUpdated(w, v, s) <=> needsToReceiveData(v, w, s)
  BY <1>1, <1>2, <1>3 DEF needsToBeUpdated, needsToReceiveData, Difference
<1> QED
  BY <1>4, NeighborsSymmetric DEF SendTo, ReceiveFrom

(* A world updates each neighbour in some section.                         *)
LEMMA SomeSection ==
    ASSUME NEW w \in Worlds, NEW v \in Neighbors(w)
    PROVE  \E s \in Sections : w \in ReceiveFrom(v, s)
<1>1. PICK a, b \in Int : w = <<a, b>>
  BY WorldsPerRowAssumption DEF Worlds, Coords
<1>2. PICK c, d \in Int : v = <<c, d>>
  BY WorldsPerRowAssumption, NeighborsSymmetric DEF Worlds, Coords
<1>3. /\ c - a \in {-1, 0, 1} /\ d - b \in {-1, 0, 1}
      /\ c # a \/ d # b
  BY <1>1, <1>2 DEF Neighbors, Adjacent, Distance
<1>4. Difference(w, v) = <<c - a, d - b>>
  BY <1>1, <1>2 DEF Difference
<1>5. \E s \in {0, 1, 2, 3} : needsToBeUpdated(w, v, s)
  BY <1>3, <1>4 DEF needsToBeUpdated
<1> QED
  BY <1>5, SendersAndReceivers DEF Sections

(* One axis of a zone is the same at both ends.                            *)
LEMMA AxisAgrees ==
    ASSUME NEW c \in Coords, NEW e \in Coords, Adjacent(c, e), NEW half \in {0, 1}
    PROVE  Shift(OverlapAxis(c, e - c, half), OverlapSegment(c).lo)
             = Shift(OverlapAxis(e, c - e, half), OverlapSegment(e).lo)
<1> USE WorldsPerRowAssumption, LocalRasterSizeAssumption, OverlapAssumption
    DEF Coords, Half
<1>1. e = c \/ e = c + 1 \/ c = e + 1
  BY DEF Adjacent, Distance
<1>2. CASE e = c
  BY <1>2
<1>3. CASE e = c + 1
  <2>1. e * LocalRasterSize = c * LocalRasterSize + LocalRasterSize
    BY <1>3
  <2> QED
    BY <1>3, <2>1 DEF Shift, OverlapAxis, OverlapOrigin, OverlapLength, OverlapSegment, Segment
<1>4. CASE c = e + 1
  <2>1. c * LocalRasterSize = e * LocalRasterSize + LocalRasterSize
    BY <1>4
  <2> QED
    BY <1>4, <2>1 DEF Shift, OverlapAxis, OverlapOrigin, OverlapLength, OverlapSegment, Segment
<1> QED
  BY <1>1, <1>2, <1>3, <1>4

(* One axis of what is sent with getInternalOverlap is what is stored with *)
(* getExternalOverlap: the sender's part of what the receiver holds.       *)
LEMMA InternalAxisIsExternalAxis ==
    ASSUME NEW c \in Coords, NEW e \in Coords, Adjacent(c, e)
    PROVE  LET seg == Shift(InternalAxis(c, e - c), OverlapSegment(c).lo)
           IN  /\ seg = Shift(ExternalAxis(e, c - e), OverlapSegment(e).lo)
               /\ seg.lo \in Int /\ seg.len \in Int
               /\ \A x \in Int : Within(seg, x) <=> Within(BoundarySegment(c), x) /\ Within(OverlapSegment(e), x)
<1> USE WorldsPerRowAssumption, LocalRasterSizeAssumption, OverlapAssumption
    DEF Coords, Half, Shift, Within, Segment
<1>1. e = c \/ e = c + 1 \/ c = e + 1
  BY DEF Adjacent, Distance
<1>2. /\ e = c + 1 => e * LocalRasterSize = c * LocalRasterSize + LocalRasterSize
      /\ c = e + 1 => c * LocalRasterSize = e * LocalRasterSize + LocalRasterSize
  OBVIOUS
<1>3. c * LocalRasterSize \in Int /\ e * LocalRasterSize \in Int
  OBVIOUS
<1> QED
  BY <1>1, <1>2, <1>3 DEF InternalAxis, ExternalAxis, OverlapSegment, BoundarySegment

LEMMA ZonesMatch ==
    ASSUME NEW w \in Worlds, NEW v \in Neighbors(w)
    PROVE  /\ \A s \in Sections : Zone(v, w, s) = Zone(w, v, s)
           /\ External(v, w) = Internal(w, v)
           /\ CellsIn(Internal(w, v)) = CopyCells[v][w]
           /\ \A x \in HeldCells[v] : isInside(Internal(w, v), x) => x \in CellsIn(Internal(w, v))
           /\ \A x \in CellsIn(Internal(w, v)) : isInside(Internal(w, v), x)
<1>1. ASSUME NEW s \in Sections PROVE Zone(v, w, s) = Zone(w, v, s)
  <2>1. HalfX(s) \in {0, 1} /\ HalfY(s) \in {0, 1}
    BY DEF HalfX, HalfY
  <2>2. Shift(OverlapAxis(v[1], w[1] - v[1], HalfX(s)), OverlapSegment(v[1]).lo)
             = Shift(OverlapAxis(w[1], v[1] - w[1], HalfX(s)), OverlapSegment(w[1]).lo)
    BY <2>1, NeighborsSymmetric, AxisAgrees
  <2>3. Shift(OverlapAxis(v[2], w[2] - v[2], HalfY(s)), OverlapSegment(v[2]).lo)
             = Shift(OverlapAxis(w[2], v[2] - w[2], HalfY(s)), OverlapSegment(w[2]).lo)
    BY <2>1, NeighborsSymmetric, AxisAgrees
  <2> QED
    BY <2>2, <2>3 DEF Zone, Global, getOverlap, Rectangle
<1> DEFINE X == Shift(InternalAxis(w[1], v[1] - w[1]), OverlapSegment(w[1]).lo)
           Y == Shift(InternalAxis(w[2], v[2] - w[2]), OverlapSegment(w[2]).lo)
<1>2. /\ X = Shift(ExternalAxis(v[1], w[1] - v[1]), OverlapSegment(v[1]).lo)
      /\ X.lo \in Int /\ X.len \in Int
      /\ \A x \in Int : Within(X, x) <=> Within(BoundarySegment(w[1]), x) /\ Within(OverlapSegment(v[1]), x)
  BY NeighborsSymmetric, InternalAxisIsExternalAxis
<1>3. /\ Y = Shift(ExternalAxis(v[2], w[2] - v[2]), OverlapSegment(v[2]).lo)
      /\ Y.lo \in Int /\ Y.len \in Int
      /\ \A x \in Int : Within(Y, x) <=> Within(BoundarySegment(w[2]), x) /\ Within(OverlapSegment(v[2]), x)
  BY NeighborsSymmetric, InternalAxisIsExternalAxis
<1>4. Internal(w, v) = [x |-> X, y |-> Y]
  BY DEF Internal, Global, getInternalOverlap, Rectangle
<1>5. External(v, w) = Internal(w, v)
  BY <1>2, <1>3, <1>4 DEF External, Global, getExternalOverlap, Rectangle
<1> HIDE DEF X, Y
<1>6. ASSUME NEW seg, seg.lo \in Int, seg.len \in Int
      PROVE  CellsOf(seg) = {x \in Int : Within(seg, x)}
  BY <1>6 DEF CellsOf, Within
<1>7. /\ CellsOf(X) = {x \in Int : Within(X, x)}
      /\ CellsOf(Y) = {x \in Int : Within(Y, x)}
  BY <1>2, <1>3, <1>6
<1>8. ASSUME NEW c \in Coords
      PROVE  /\ CellsOf(BoundarySegment(c)) = {x \in Int : Within(BoundarySegment(c), x)}
             /\ CellsOf(OverlapSegment(c)) = {x \in Int : Within(OverlapSegment(c), x)}
  <2>1. c * LocalRasterSize \in Int
    BY WorldsPerRowAssumption, LocalRasterSizeAssumption DEF Coords
  <2>2. BoundarySegment(c).lo \in Int /\ BoundarySegment(c).len \in Int
    BY <2>1, LocalRasterSizeAssumption DEF BoundarySegment, Segment
  <2>3. OverlapSegment(c).lo \in Int /\ OverlapSegment(c).len \in Int
    BY <2>1, LocalRasterSizeAssumption, OverlapAssumption DEF OverlapSegment, Segment
  <2> QED
    BY <2>2, <2>3, <1>6
<1>9. /\ CellsOf(X) = CellsOf(BoundarySegment(w[1])) \intersect CellsOf(OverlapSegment(v[1]))
      /\ CellsOf(Y) = CellsOf(BoundarySegment(w[2])) \intersect CellsOf(OverlapSegment(v[2]))
  BY <1>2, <1>3, <1>7, <1>8, NeighborsSymmetric
<1>10. CellsIn(Internal(w, v)) = CellsOf(X) \X CellsOf(Y)
  BY <1>4 DEF CellsIn
<1>11. /\ OwnCells[w] = CellsOf(BoundarySegment(w[1])) \X CellsOf(BoundarySegment(w[2]))
       /\ HeldCells[v] = CellsOf(OverlapSegment(v[1])) \X CellsOf(OverlapSegment(v[2]))
  BY NeighborsSymmetric DEF OwnCells, HeldCells, CellsIn, boundaries, overlapBoundaries, Rectangle
<1>12. CopyCells[v][w] = HeldCells[v] \intersect OwnCells[w]
  BY NeighborsSymmetric DEF CopyCells
<1>13. CellsIn(Internal(w, v)) = CopyCells[v][w]
  BY <1>9, <1>10, <1>11, <1>12
<1>14. ASSUME NEW x \in HeldCells[v], isInside(Internal(w, v), x) PROVE x \in CellsIn(Internal(w, v))
  <2>1. PICK a \in Int, b \in Int : x = <<a, b>>
    BY <1>8, <1>11, NeighborsSymmetric
  <2>2. Within(X, a) /\ Within(Y, b)
    BY <1>4, <1>14, <2>1 DEF isInside
  <2> QED
    BY <1>7, <1>10, <2>1, <2>2
<1>15. ASSUME NEW x \in CellsIn(Internal(w, v)) PROVE isInside(Internal(w, v), x)
  <2>1. PICK a \in CellsOf(X), b \in CellsOf(Y) : x = <<a, b>>
    BY <1>10, <1>15
  <2>2. Within(X, a) /\ Within(Y, b)
    BY <1>7, <2>1
  <2> QED
    BY <1>4, <2>1, <2>2 DEF isInside
<1> QED
  BY <1>1, <1>5, <1>13, <1>14, <1>15

(* The cells of a world are cells of the area.                             *)
LEMMA OwnCellsAreCells == ASSUME NEW w \in Worlds PROVE OwnCells[w] \subseteq Cells
<1>1. ASSUME NEW c \in Coords PROVE CellsOf(BoundarySegment(c)) \subseteq 0 .. Size - 1
  <2>1. c \in Nat /\ c + 1 =< WorldsPerRow
    BY WorldsPerRowAssumption DEF Coords
  <2>2. c * LocalRasterSize >= 0 /\ c * LocalRasterSize \in Int
    BY <2>1, LocalRasterSizeAssumption, Z3
  <2>3. (c + 1) * LocalRasterSize =< WorldsPerRow * LocalRasterSize
    BY <2>1, WorldsPerRowAssumption, LocalRasterSizeAssumption, Z3
  <2>4. (c + 1) * LocalRasterSize = c * LocalRasterSize + LocalRasterSize
    BY <2>1, LocalRasterSizeAssumption
  <2>5. WorldsPerRow * LocalRasterSize \in Int
    BY WorldsPerRowAssumption, LocalRasterSizeAssumption
  <2> QED
    BY <2>2, <2>3, <2>4, <2>5, LocalRasterSizeAssumption DEF CellsOf, BoundarySegment, Segment, Size
<1>2. w[1] \in Coords /\ w[2] \in Coords
  BY DEF Worlds
<1> QED
  BY <1>1, <1>2 DEF OwnCells, CellsIn, boundaries, Rectangle, Cells

----------------------------------------------------------------------------
(* Numbers of messages *)

LEMMA UseValues ==
    ASSUME NEW w, NEW v, NEW s \in Sections
    PROVE  /\ Use(w, v, s) \in {0, 1}
           /\ Before(w, v, s) \in Nat
           /\ PerRound(w, v) \in Nat
           /\ Before(w, v, 0) = 0
           /\ s < 3 => Before(w, v, s + 1) = Before(w, v, s) + Use(w, v, s)
           /\ PerRound(w, v) = Before(w, v, 3) + Use(w, v, 3)
<1>1. \A i : Use(w, v, i) \in {0, 1}
  BY DEF Use
<1>2. s \in {0, 1, 2, 3}
  BY DEF Sections
<1> QED
  BY <1>1, <1>2 DEF Before, PerRound

LEMMA BeforeOrder ==
    ASSUME NEW w, NEW v, NEW s \in Sections, NEW t \in Sections, needsToBeUpdated(w, v, s)
    PROVE  /\ s < t => Before(w, v, s) < Before(w, v, t)
           /\ Before(w, v, s) < PerRound(w, v)
<1>1. \A i : Use(w, v, i) \in {0, 1}
  BY DEF Use
<1>2. s \in {0, 1, 2, 3} /\ t \in {0, 1, 2, 3}
  BY DEF Sections
<1>3. Use(w, v, s) = 1
  BY DEF Use
<1> QED
  BY <1>1, <1>2, <1>3 DEF Before, PerRound

LEMMA QuotientOrder ==
    ASSUME NEW q \in Int, NEW p \in Int, NEW r \in Nat \ {0},
           NEW x \in 0 .. r - 1, NEW y \in 0 .. r - 1, r * q + x =< r * p + y
    PROVE  q =< p
<1>1. CASE q >= p + 1
  <2>1. r * q >= r * (p + 1)
    BY <1>1, Z3
  <2> QED
    BY <2>1
<1> QED
  BY <1>1

LEMMA SameQuotient ==
    ASSUME NEW q \in Int, NEW p \in Int, NEW r \in Nat \ {0},
           NEW x \in 0 .. r - 1, NEW y \in 0 .. r - 1, r * q + x = r * p + y
    PROVE  q = p /\ x = y
<1>1. r * q \in Int /\ r * p \in Int
  OBVIOUS
<1>2. q =< p /\ p =< q
  BY <1>1, QuotientOrder
<1>3. q = p
  BY <1>2
<1> QED
  BY <1>1, <1>3

LEMMA TurnType ==
    ASSUME NEW w, NEW v, NEW q \in Nat, NEW s \in Sections
    PROVE  Turn(w, v, q, s) \in Nat
<1> DEFINE K == PerRound(w, v)
           B == Before(w, v, s)
<1>1. K \in Nat /\ B \in Nat
  BY UseValues
<1> HIDE DEF K, B
<1>2. K * q + B \in Nat
  BY <1>1
<1> QED
  BY <1>2 DEF Turn, K, B

(* A message of one channel has one number.                                *)
LEMMA NumberIsUnique ==
    ASSUME NEW w, NEW v, NEW q \in Nat, NEW p \in Nat, NEW s \in Sections, NEW t \in Sections,
           NEW r \in Rasters, NEW u \in Rasters, needsToBeUpdated(w, v, s), needsToBeUpdated(w, v, t),
           Number(w, v, q, s, r) = Number(w, v, p, t, u)
    PROVE  q = p /\ s = t /\ r = u
<1> DEFINE a == Turn(w, v, q, s)
           b == Turn(w, v, p, t)
<1>1. a \in Nat /\ b \in Nat
  BY TurnType
<1>2. NumRasters * a + r = NumRasters * b + u
  BY DEF Number
<1> HIDE DEF a, b
<1>3. /\ r - 1 \in 0 .. NumRasters - 1 /\ u - 1 \in 0 .. NumRasters - 1
      /\ NumRasters * a + (r - 1) = NumRasters * b + (u - 1)
  BY <1>1, <1>2, RastersAssumption DEF Rasters
<1>4. a = b /\ r - 1 = u - 1
  BY <1>1, <1>3, RastersAssumption, SameQuotient
<1> DEFINE K == PerRound(w, v)
           x == Before(w, v, s)
           y == Before(w, v, t)
<1>5. K \in Nat /\ x \in Nat /\ y \in Nat /\ x < K /\ y < K
  BY UseValues, BeforeOrder
<1>6. K * q + x = K * p + y
  BY <1>4 DEF a, b, Turn
<1> HIDE DEF K, x, y
<1>7. K \in Nat \ {0} /\ x \in 0 .. K - 1 /\ y \in 0 .. K - 1
  BY <1>5
<1>8. q = p /\ x = y
  BY <1>6, <1>7, SameQuotient
<1>9. ~(s < t) /\ ~(t < s)
  BY <1>5, <1>8, BeforeOrder DEF x, y
<1> QED
  BY <1>3, <1>4, <1>8, <1>9 DEF Sections, Rasters

(* The turns of a round follow each other, and the next round on them.     *)
LEMMA NextTurn ==
    ASSUME NEW w, NEW v, NEW q \in Nat, NEW s \in Sections
    PROVE  /\ s < 3 => Turn(w, v, q, s + 1) = Turn(w, v, q, s) + Use(w, v, s)
           /\ Turn(w, v, q + 1, 0) = Turn(w, v, q, 3) + Use(w, v, 3)
           /\ Turn(w, v, 0, 0) = 0
<1> DEFINE K == PerRound(w, v)
<1>1. /\ K \in Nat /\ Before(w, v, s) \in Nat /\ Before(w, v, 3) \in Nat
      /\ Before(w, v, 0) = 0
      /\ s < 3 => Before(w, v, s + 1) = Before(w, v, s) + Use(w, v, s)
      /\ K = Before(w, v, 3) + Use(w, v, 3)
      /\ Use(w, v, s) \in {0, 1} /\ Use(w, v, 3) \in {0, 1}
  BY UseValues DEF Sections
<1> HIDE DEF K
<1>2. K * (q + 1) = K * q + K /\ K * q \in Nat /\ K * 0 = 0
  BY <1>1
<1> QED
  BY <1>1, <1>2 DEF Turn, K

----------------------------------------------------------------------------
(* What is sent and posted *)

\* A sequence with one element per raster for each channel of H
IsBlock(H, block) == \E T : block \in [H -> [Rasters -> T]]

Added(box, H, block) == [c \in Channels |-> IF c \in H THEN box[c] \o block[c] ELSE box[c]]

\* block is behind what is in the channels of H; nothing else has changed.
Extended(box, grown, H, block) ==
    /\ \A c \in Channels : Len(grown[c]) = IF c \in H THEN Len(box[c]) + NumRasters ELSE Len(box[c])
    /\ \A c \in Channels : \A n \in DOMAIN box[c] : grown[c][n] = box[c][n]
    /\ \A c \in H : \A r \in Rasters : grown[c][Len(box[c]) + r] = block[c][r]
    /\ \A c \in Channels \ H : grown[c] = box[c]

LEMMA BoxGrows ==
    ASSUME NEW box, IsBox(box), NEW H \in SUBSET Channels, NEW block, IsBlock(H, block)
    PROVE  IsBox(Added(box, H, block)) /\ Extended(box, Added(box, H, block), H, block)
<1>1. PICK S : box \in [Channels -> Seq(S)]
  BY DEF IsBox
<1>2. PICK T : block \in [H -> [Rasters -> T]]
  BY DEF IsBlock
<1> DEFINE grown == Added(box, H, block)
<1>3. ASSUME NEW c \in H
      PROVE  /\ grown[c] \in Seq(S \union T)
             /\ Len(grown[c]) = Len(box[c]) + NumRasters
             /\ \A n \in DOMAIN box[c] : grown[c][n] = box[c][n]
             /\ \A r \in Rasters : grown[c][Len(box[c]) + r] = block[c][r]
  <2>1. grown[c] = box[c] \o block[c]
    BY DEF Added
  <2> HIDE DEF grown
  <2>2. box[c] \in Seq(S) /\ block[c] \in [Rasters -> T]
    BY <1>1, <1>2
  <2> DEFINE s == box[c]
             b == block[c]
             g == grown[c]
             U == S \union T
  <2>3. b \in Seq(T) /\ Len(b) = NumRasters
    <3>1. b \in [Rasters -> T]
      BY <2>2
    <3> HIDE DEF b
    <3> QED
      BY <3>1, RastersAssumption DEF Rasters
  <2>4. s \in Seq(U) /\ b \in Seq(U) /\ g = s \o b
    BY <2>1, <2>2, <2>3
  <2> HIDE DEF s, b, g, U
  <2>5. g \in Seq(U)
    BY ONLY <2>4
  <2>6. s \in Seq(U) /\ b \in Seq(U)
    BY <2>4
  <2>7. Len(s \o b) = Len(s) + Len(b)
    BY ONLY <2>6
  <2>8. Len(g) = Len(s) + NumRasters
    BY <2>3, <2>4, <2>7, Zenon
  <2>9. \A n \in DOMAIN s : g[n] = s[n]
    BY ONLY <2>4
  <2>10. \A r \in Rasters : g[Len(s) + r] = b[r]
    <3>1. \A r \in 1 .. Len(b) : g[Len(s) + r] = b[r]
      BY ONLY <2>4
    <3> QED
      BY <2>3, <3>1, Zenon DEF Rasters
  <2> QED
    BY <2>5, <2>8, <2>9, <2>10 DEF s, b, g, U
<1>4. ASSUME NEW c \in Channels, c \notin H
      PROVE  grown[c] = box[c] /\ grown[c] \in Seq(S \union T) /\ Len(grown[c]) = Len(box[c])
  <2>1. grown[c] = box[c]
    BY <1>4 DEF Added
  <2> QED
    BY <1>1, <2>1
<1>5. grown = [c \in Channels |-> grown[c]]
  BY DEF Added
<1> HIDE DEF grown
<1>6. grown \in [Channels -> Seq(S \union T)]
  BY <1>3, <1>4, <1>5
<1>7. IsBox(grown)
  BY <1>6 DEF IsBox
<1>8. Extended(box, grown, H, block)
  BY <1>3, <1>4 DEF Extended
<1> QED
  BY <1>7, <1>8 DEF grown

(* With it the headers of a channel go on as the script says.              *)
LEMMA HeadersGrow ==
    ASSUME NEW box, NEW grown, NEW c, NEW S, box[c] \in Seq(S), NEW T, grown[c] \in Seq(T),
           NEW q \in Nat, NEW s \in Sections, needsToBeUpdated(c[1], c[2], s),
           ValueHeaders(box, c),
           Len(box[c]) = NumRasters * Turn(c[1], c[2], q, s),
           Len(grown[c]) = Len(box[c]) + NumRasters,
           \A n \in DOMAIN box[c] : grown[c][n] = box[c][n],
           \A r \in Rasters : Header(grown[c][Len(box[c]) + r], r, Script(c[1], c[2], q, s))
    PROVE  ValueHeaders(grown, c)
<1> SUFFICES ASSUME NEW n \in DOMAIN grown[c]
             PROVE  \E p \in Nat, t \in Sections, r \in Rasters :
                        /\ needsToBeUpdated(c[1], c[2], t)
                        /\ n = Number(c[1], c[2], p, t, r)
                        /\ Header(grown[c][n], r, Script(c[1], c[2], p, t))
  BY DEF ValueHeaders
<1>1. CASE n \in DOMAIN box[c]
  <2>1. PICK p \in Nat, t \in Sections, r \in Rasters :
            /\ needsToBeUpdated(c[1], c[2], t)
            /\ n = Number(c[1], c[2], p, t, r)
            /\ Header(box[c][n], r, Script(c[1], c[2], p, t))
    BY <1>1 DEF ValueHeaders
  <2>2. grown[c][n] = box[c][n]
    BY <1>1
  <2> QED
    BY <2>1, <2>2
<1>2. CASE n \notin DOMAIN box[c]
  <2>1. n \in 1 .. Len(box[c]) + NumRasters /\ n \notin 1 .. Len(box[c]) /\ Len(box[c]) \in Nat
    BY <1>2
  <2>2. n - Len(box[c]) \in Rasters
    BY <2>1, RastersAssumption DEF Rasters
  <2> DEFINE r == n - Len(box[c])
  <2>3. n = Len(box[c]) + r /\ r \in Rasters
    BY <2>1, <2>2
  <2>4. n = Number(c[1], c[2], q, s, r)
    BY <2>3 DEF Number
  <2> HIDE DEF r
  <2>5. Header(grown[c][n], r, Script(c[1], c[2], q, s))
    BY <2>3
  <2> QED
    BY <2>3, <2>4, <2>5
<1> QED
  BY <1>1, <1>2

LEMMA HeadersKept ==
    ASSUME NEW box, NEW grown, NEW c, grown[c] = box[c]
    PROVE  /\ ValueHeaders(box, c) => ValueHeaders(grown, c)
           /\ MaxHeaders(box, c) => MaxHeaders(grown, c)
BY DEF ValueHeaders, MaxHeaders

LEMMA MaxHeadersGrow ==
    ASSUME NEW box, NEW grown, NEW c, NEW S, box[c] \in Seq(S), NEW T, grown[c] \in Seq(T),
           Len(box[c]) = 0, Len(grown[c]) = Len(box[c]) + NumRasters,
           \A r \in Rasters : Header(grown[c][Len(box[c]) + r], r, Internal(c[1], c[2]))
    PROVE  MaxHeaders(grown, c)
<1> SUFFICES ASSUME NEW n \in DOMAIN grown[c]
             PROVE  n \in Rasters /\ Header(grown[c][n], n, Internal(c[1], c[2]))
  BY DEF MaxHeaders
<1>1. n \in Rasters /\ Len(box[c]) + n = n
  BY RastersAssumption DEF Rasters
<1> QED
  BY <1>1

----------------------------------------------------------------------------
(* Requests *)

\* The elements of s are all in S, and those of T are among them.
Lists(s, S, T) == s \in Seq(S) /\ \A v \in T : \E i \in DOMAIN s : s[i] = v

LEMMA ListsAppend ==
    ASSUME NEW S, NEW T, NEW U, NEW s, NEW t, Lists(s, S, T), Lists(t, S, U)
    PROVE  Lists(s \o t, S, T \union U)
<1>1. s \in Seq(S) /\ t \in Seq(S) /\ s \o t \in Seq(S)
  BY DEF Lists
<1>2. ASSUME NEW v \in T PROVE \E i \in DOMAIN (s \o t) : (s \o t)[i] = v
  <2>1. PICK i \in DOMAIN s : s[i] = v
    BY DEF Lists
  <2> QED
    BY <1>1, <2>1
<1>3. ASSUME NEW v \in U PROVE \E i \in DOMAIN (s \o t) : (s \o t)[i] = v
  <2>1. PICK i \in DOMAIN t : t[i] = v
    BY DEF Lists
  <2>2. Len(s) + i \in DOMAIN (s \o t) /\ (s \o t)[Len(s) + i] = v
    BY <1>1, <2>1
  <2> QED
    BY <2>2
<1> QED
  BY <1>1, <1>2, <1>3 DEF Lists

LEMMA ColumnsList ==
    ASSUME NEW w \in Worlds, NEW others \in SUBSET Neighbors(w)
    PROVE  Lists(InColumns(w, others), others, others)
<1> DEFINE place(x, y) == <<w[1] + x, w[2] + y>>
           at(x, y) == LET v == <<w[1] + x, w[2] + y>> IN IF v \in others THEN <<v>> ELSE <<>>
           column(x) == at(x, -1) \o at(x, 0) \o at(x, 1)
           only(x, y) == {place(x, y)} \intersect others
           part(x) == (only(x, -1) \union only(x, 0)) \union only(x, 1)
<1>1. ASSUME NEW x, NEW y PROVE Lists(at(x, y), others, only(x, y))
  BY DEF Lists
<1>2. ASSUME NEW x PROVE Lists(column(x), others, part(x))
  <2> HIDE DEF at, only
  <2>1. Lists(at(x, -1) \o at(x, 0), others, only(x, -1) \union only(x, 0))
    BY <1>1, ListsAppend
  <2> QED
    BY <1>1, <2>1, ListsAppend
<1>3. Lists(InColumns(w, others), others, (part(-1) \union part(0)) \union part(1))
  <2>1. InColumns(w, others) = column(-1) \o column(0) \o column(1)
    BY DEF InColumns
  <2> HIDE DEF column, part
  <2>2. Lists(column(-1) \o column(0), others, part(-1) \union part(0))
    BY <1>2, ListsAppend
  <2>3. Lists((column(-1) \o column(0)) \o column(1), others, (part(-1) \union part(0)) \union part(1))
    BY <1>2, <2>2, ListsAppend
  <2> QED
    BY <2>1, <2>3
<1>4. ASSUME NEW v \in others PROVE v \in (part(-1) \union part(0)) \union part(1)
  <2>1. PICK x \in {-1, 0, 1}, y \in {-1, 0, 1} : v = place(x, y)
    <3>1. v[1] \in Int /\ v[2] \in Int /\ w[1] \in Int /\ w[2] \in Int /\ v = <<v[1], v[2]>>
      BY NeighborsSymmetric DEF Coords, Worlds, Neighbors
    <3>2. v[1] - w[1] \in {-1, 0, 1} /\ v[2] - w[2] \in {-1, 0, 1}
      BY <3>1 DEF Neighbors, Adjacent, Distance
    <3>3. v = place(v[1] - w[1], v[2] - w[2])
      BY <3>1
    <3> QED
      BY <3>2, <3>3
  <2> QED
    BY <2>1
<1> QED
  BY <1>3, <1>4 DEF Lists

LEMMA QuotientRange ==
    ASSUME NEW n \in Nat \ {0}, NEW d \in Int, NEW m \in 0 .. n - 1, NEW k \in Nat,
           0 =< n * d + m, n * d + m < n * k
    PROVE  0 =< d /\ d < k
<1>1. CASE d =< -1
  <2>1. n * d =< n * (-1)
    BY <1>1, Z3
  <2> QED
    BY <2>1
<1>2. CASE d >= k
  <2>1. n * d >= n * k
    BY <1>2, Z3
  <2> QED
    BY <2>1
<1> QED
  BY <1>1, <1>2

(* The requests of one call are for one block in each of its channels.     *)
LEMMA RequestsOfCall ==
    ASSUME NEW w \in Worlds, NEW channel, DOMAIN channel \subseteq Neighbors(w),
           \A v \in DOMAIN channel : channel[v] \in Channels,
           NEW S, NEW box \in [Channels -> Seq(S)],
           NEW new, new = NewRequests(w, channel, box)
    PROVE  /\ new \in Requests
           /\ \A i \in DOMAIN new : \E v \in DOMAIN channel, r \in Rasters :
                 new[i] = <<channel[v], Len(box[channel[v]]) + r>>
           /\ \A v \in DOMAIN channel, r \in Rasters : \E i \in DOMAIN new :
                 new[i] = <<channel[v], Len(box[channel[v]]) + r>>
<1> DEFINE order == InColumns(w, DOMAIN channel)
           n == Len(order)
           request(v, r) == <<channel[v], Len(box[channel[v]]) + r>>
<1>1. order \in Seq(DOMAIN channel) /\ \A v \in DOMAIN channel : \E k \in DOMAIN order : order[k] = v
  <2> DEFINE D == DOMAIN channel
  <2>1. D \in SUBSET Neighbors(w)
    OBVIOUS
  <2> HIDE DEF D
  <2>2. Lists(InColumns(w, D), D, D)
    BY <2>1, ColumnsList
  <2> QED
    BY <2>2 DEF Lists, D
<1>2. n \in Nat /\ \A k \in 1 .. n : order[k] \in DOMAIN channel
  BY <1>1
<1>3. new = [i \in 1 .. NumRasters * n |->
                <<channel[order[((i - 1) % n) + 1]],
                  Len(box[channel[order[((i - 1) % n) + 1]]]) + ((i - 1) \div n) + 1>>]
  BY Zenon DEF NewRequests
<1> HIDE DEF order, n
<1>4. ASSUME NEW v \in DOMAIN channel, NEW r \in Rasters PROVE request(v, r) \in Channels \X Nat
  BY RastersAssumption DEF Rasters
<1>5. NumRasters * n \in Nat
  BY <1>2, RastersAssumption
<1>6. ASSUME NEW i \in 1 .. NumRasters * n
      PROVE  ((i - 1) % n) + 1 \in 1 .. n /\ ((i - 1) \div n) + 1 \in Rasters /\ (i - 1) \div n \in Int
  <2>1. i \in Nat /\ i >= 1 /\ i =< NumRasters * n
    BY <1>5
  <2>2. n > 0
    BY <1>2, <2>1, RastersAssumption
  <2> DEFINE m == (i - 1) % n
             d == (i - 1) \div n
  <2>3. m \in 0 .. n - 1 /\ d \in Int /\ i - 1 = n * d + m
    BY <1>2, <2>1, <2>2
  <2> HIDE DEF m, d
  <2>4. 0 =< n * d + m /\ n * d + m < n * NumRasters
    BY <1>2, <2>1, <2>3, RastersAssumption, Z3
  <2>5. 0 =< d /\ d < NumRasters
    BY <1>2, <2>2, <2>3, <2>4, QuotientRange, RastersAssumption
  <2> QED
    BY <1>2, <2>3, <2>5, RastersAssumption DEF m, d, Rasters
<1>10. ASSUME NEW i \in 1 .. NumRasters * n
       PROVE  new[i] = request(order[((i - 1) % n) + 1], ((i - 1) \div n) + 1)
  <2> DEFINE v == order[((i - 1) % n) + 1]
             d == (i - 1) \div n
  <2>1. v \in DOMAIN channel /\ d + 1 \in Rasters
    BY <1>2, <1>6
  <2>2. new[i] = <<channel[v], Len(box[channel[v]]) + d + 1>>
    BY <1>3
  <2> HIDE DEF v, d
  <2> DEFINE len == Len(box[channel[v]])
  <2>3. len \in Nat /\ d \in Int
    BY <1>6, <2>1 DEF d
  <2> HIDE DEF len
  <2>4. len + d + 1 = len + (d + 1)
    BY <2>3
  <2> QED
    BY <2>2, <2>4 DEF v, d, len
<1>7. ASSUME NEW i \in DOMAIN new
      PROVE  \E v \in DOMAIN channel, r \in Rasters : new[i] = request(v, r)
  BY <1>2, <1>3, <1>6, <1>10
<1>8. new \in Requests
  <2>1. ASSUME NEW i \in 1 .. NumRasters * n PROVE new[i] \in Channels \X Nat
    <3>1. i \in DOMAIN new
      BY <1>3
    <3>2. PICK v \in DOMAIN channel, r \in Rasters : new[i] = request(v, r)
      BY <1>7, <3>1
    <3> QED
      BY <1>4, <3>2
  <2>2. new \in [1 .. NumRasters * n -> Channels \X Nat]
    BY <1>3, <2>1
  <2> QED
    BY <1>5, <2>2 DEF Requests
<1>9. ASSUME NEW v \in DOMAIN channel, NEW r \in Rasters
      PROVE  \E i \in DOMAIN new : new[i] = request(v, r)
  <2>1. PICK k \in 1 .. n : order[k] = v
    BY <1>1, <1>2 DEF n
  <2> DEFINE i == n * (r - 1) + k
  <2>2. n \in Nat \ {0} /\ k - 1 \in 0 .. n - 1 /\ r - 1 \in Nat /\ r - 1 =< NumRasters - 1 /\ r \in Int
    BY <1>2, <2>1, RastersAssumption DEF Rasters
  <2>3. n * (r - 1) =< n * (NumRasters - 1) /\ n * (r - 1) >= 0
    BY <2>2, RastersAssumption, Z3
  <2>11. n * (NumRasters - 1) = NumRasters * n - n
    BY <2>2, RastersAssumption, Z3
  <2> DEFINE before == n * (r - 1)
             all == NumRasters * n
  <2>13. before \in Int /\ before >= 0 /\ before =< all - n /\ all \in Int
    BY <2>2, <2>3, <2>11, <1>5
  <2> HIDE DEF before, all
  <2>14. before + k \in Int /\ before + k >= 1 /\ before + k =< all
    BY <2>1, <2>2, <2>13
  <2>4. i \in Int /\ i >= 1 /\ i =< NumRasters * n
    BY <2>14 DEF before, all
  <2>5. i - 1 = n * (r - 1) + (k - 1)
    BY <2>1, <2>2
  <2> HIDE DEF i
  <2> DEFINE m == (i - 1) % n
             d == (i - 1) \div n
  <2>6. m \in 0 .. n - 1 /\ d \in Int /\ i - 1 = n * d + m
    BY <2>2, <2>4
  <2> HIDE DEF m, d
  <2> DEFINE e == r - 1
             l == k - 1
  <2>7. /\ n * d + m = n * e + l
        /\ n \in Nat \ {0} /\ d \in Int /\ e \in Int /\ m \in 0 .. n - 1 /\ l \in 0 .. n - 1
    BY <2>2, <2>5, <2>6
  <2> HIDE DEF e, l
  <2>12. d = e /\ m = l
    BY ONLY <2>7, SameQuotient
  <2>8. d = r - 1 /\ m = k - 1
    BY <2>12 DEF e, l
  <2>9. m + 1 = k /\ d + 1 = r /\ i \in 1 .. NumRasters * n
    BY <2>1, <2>2, <2>4, <2>8, <1>5
  <2>10. new[i] = request(order[m + 1], d + 1)
    BY <1>10, <2>9 DEF m, d
  <2> QED
    BY <1>3, <2>1, <2>9, <2>10
<1> QED
  BY <1>7, <1>8, <1>9

----------------------------------------------------------------------------
(* Isend and Irecv *)

LEMMA ChannelOf ==
    ASSUME NEW w \in Worlds, NEW v \in Neighbors(w), NEW tag \in {"max", "value"}
    PROVE  <<w, v, tag>> \in Channels /\ <<v, w, tag>> \in Channels
BY NeighborsSymmetric DEF Channels

LEMMA OfChannel ==
    ASSUME NEW c \in Channels
    PROVE  /\ c[1] \in Worlds /\ c[2] \in Worlds /\ c[3] \in {"max", "value"}
           /\ c[2] \in Neighbors(c[1]) /\ c[1] \in Neighbors(c[2])
           /\ c = <<c[1], c[2], c[3]>>
<1>1. c \in Worlds \X Worlds \X {"max", "value"} /\ c[2] \in Neighbors(c[1])
  BY DEF Channels
<1>2. c[1] \in Worlds /\ c[2] \in Worlds /\ c[3] \in {"max", "value"} /\ c = <<c[1], c[2], c[3]>>
  BY <1>1
<1> QED
  BY <1>1, <1>2, NeighborsSymmetric

\* The channels that one call of w sends to, and receives from
SendChannels(w, others, tag) == {c \in Channels : c[1] = w /\ c[2] \in others /\ c[3] = tag}
ReceiveChannels(w, others, tag) == {c \in Channels : c[2] = w /\ c[1] \in others /\ c[3] = tag}

\* What it adds to them
SentBlock(w, zone, tag, field) ==
    [c \in SendChannels(w, DOMAIN zone, tag) |-> [r \in Rasters |->
        [raster |-> r, zone |-> zone[c[2]], data |-> [x \in CellsIn(zone[c[2]]) |-> field[w][r][x]]]]]
PostedBlock(w, zone, tag) ==
    [c \in ReceiveChannels(w, DOMAIN zone, tag) |-> [r \in Rasters |-> [raster |-> r, zone |-> zone[c[1]]]]]

LEMMA IsendSends ==
    ASSUME TypeInv, NEW w \in Worlds, NEW STATE zone, DOMAIN zone \subseteq Neighbors(w),
           NEW tag \in {"max", "value"}, NEW STATE field, Isend(w, zone, tag, field)
    PROVE  /\ IsBox(messages')
           /\ Extended(messages, messages', SendChannels(w, DOMAIN zone, tag), SentBlock(w, zone, tag, field))
           /\ sendRequests' \in [Worlds -> Requests]
           /\ \A u \in Worlds \ {w} : sendRequests'[u] = sendRequests[u]
<1> DEFINE H == SendChannels(w, DOMAIN zone, tag)
           message(v, r) == [raster |-> r, zone |-> zone[v],
                             data |-> [x \in CellsIn(zone[v]) |-> field[w][r][x]]]
           block == [c \in H |-> [r \in Rasters |-> message(c[2], r)]]
           T == {message(c[2], r) : c \in H, r \in Rasters}
<1>1. messages' = Added(messages, H, block)
  BY DEF Isend, SendChannels, Added
<1>2. H \in SUBSET Channels
  BY DEF SendChannels
<1>3. block \in [H -> [Rasters -> T]]
  OBVIOUS
<1> HIDE DEF H, block, T
<1>4. IsBlock(H, block)
  BY <1>3 DEF IsBlock
<1>5. IsBox(messages') /\ Extended(messages, messages', H, block)
  BY <1>1, <1>2, <1>4, BoxGrows DEF TypeInv
<1> DEFINE channel == [v \in DOMAIN zone |-> <<w, v, tag>>]
           new == NewRequests(w, channel, messages)
<1>8. new \in Requests
  <2>1. DOMAIN channel \subseteq Neighbors(w) /\ \A v \in DOMAIN channel : channel[v] \in Channels
    BY ChannelOf
  <2>2. PICK S : messages \in [Channels -> Seq(S)]
    BY DEF TypeInv, IsBox
  <2> HIDE DEF channel
  <2> QED
    BY <2>1, <2>2, RequestsOfCall
<1>9. sendRequests' = [sendRequests EXCEPT ![w] = @ \o new]
  BY DEF Isend
<1> HIDE DEF new
<1>10. sendRequests[w] \o new \in Requests
  BY <1>8 DEF TypeInv, Requests
<1>11. /\ sendRequests' \in [Worlds -> Requests]
       /\ \A u \in Worlds \ {w} : sendRequests'[u] = sendRequests[u]
  BY <1>9, <1>10 DEF TypeInv
<1> QED
  BY <1>5, <1>11 DEF H, block, SentBlock

\* The receive requests of w are for one block from each of others.
RequestsFor(w, others, tag, requests, box) ==
    /\ \A i \in DOMAIN requests : \E v \in others, r \in Rasters :
            requests[i] = <<<<v, w, tag>>, Len(box[<<v, w, tag>>]) + r>>
    /\ \A v \in others, r \in Rasters : \E i \in DOMAIN requests :
            requests[i] = <<<<v, w, tag>>, Len(box[<<v, w, tag>>]) + r>>

LEMMA IrecvPosts ==
    ASSUME TypeInv, NEW w \in Worlds, NEW STATE zone, DOMAIN zone \subseteq Neighbors(w),
           NEW tag \in {"max", "value"}, Irecv(w, zone, tag)
    PROVE  /\ IsBox(posted')
           /\ Extended(posted, posted', ReceiveChannels(w, DOMAIN zone, tag), PostedBlock(w, zone, tag))
           /\ receiveRequests' \in [Worlds -> Requests]
           /\ \A u \in Worlds \ {w} : receiveRequests'[u] = receiveRequests[u]
           /\ receiveRequests[w] = <<>> =>
                  RequestsFor(w, DOMAIN zone, tag, receiveRequests'[w], posted)
<1> DEFINE H == ReceiveChannels(w, DOMAIN zone, tag)
           post(v, r) == [raster |-> r, zone |-> zone[v]]
           block == [c \in H |-> [r \in Rasters |-> post(c[1], r)]]
           T == {post(c[1], r) : c \in H, r \in Rasters}
<1>1. posted' = Added(posted, H, block)
  BY DEF Irecv, ReceiveChannels, Added
<1>2. H \in SUBSET Channels
  BY DEF ReceiveChannels
<1>3. block \in [H -> [Rasters -> T]]
  OBVIOUS
<1> HIDE DEF H, block, T
<1>4. IsBlock(H, block)
  BY <1>3 DEF IsBlock
<1>5. IsBox(posted') /\ Extended(posted, posted', H, block)
  BY <1>1, <1>2, <1>4, BoxGrows DEF TypeInv
<1> DEFINE channel == [v \in DOMAIN zone |-> <<v, w, tag>>]
           new == NewRequests(w, channel, posted)
<1>8. new \in Requests /\ RequestsFor(w, DOMAIN zone, tag, new, posted)
  <2>1. /\ DOMAIN channel \subseteq Neighbors(w)
        /\ \A v \in DOMAIN channel : channel[v] \in Channels
        /\ DOMAIN channel = DOMAIN zone
        /\ \A v \in DOMAIN zone : channel[v] = <<v, w, tag>>
    BY ChannelOf
  <2>2. PICK S : posted \in [Channels -> Seq(S)]
    BY DEF TypeInv, IsBox
  <2> HIDE DEF channel
  <2>3. /\ new \in Requests
        /\ \A i \in DOMAIN new : \E v \in DOMAIN channel, r \in Rasters :
              new[i] = <<channel[v], Len(posted[channel[v]]) + r>>
        /\ \A v \in DOMAIN channel, r \in Rasters : \E i \in DOMAIN new :
              new[i] = <<channel[v], Len(posted[channel[v]]) + r>>
    BY <2>1, <2>2, RequestsOfCall
  <2> HIDE DEF new
  <2>4. ASSUME NEW i \in DOMAIN new
        PROVE  \E v \in DOMAIN zone, r \in Rasters : new[i] = <<<<v, w, tag>>, Len(posted[<<v, w, tag>>]) + r>>
    <3>1. PICK v \in DOMAIN channel, r \in Rasters : new[i] = <<channel[v], Len(posted[channel[v]]) + r>>
      BY <2>3
    <3>2. channel[v] = <<v, w, tag>> /\ v \in DOMAIN zone
      BY <2>1
    <3> QED
      BY <3>1, <3>2, Zenon
  <2>5. ASSUME NEW v \in DOMAIN zone, NEW r \in Rasters
        PROVE  \E i \in DOMAIN new : new[i] = <<<<v, w, tag>>, Len(posted[<<v, w, tag>>]) + r>>
    <3>1. PICK i \in DOMAIN new : new[i] = <<channel[v], Len(posted[channel[v]]) + r>>
      BY <2>1, <2>3
    <3>2. channel[v] = <<v, w, tag>>
      BY <2>1
    <3> QED
      BY <3>1, <3>2, Zenon
  <2> QED
    BY <2>3, <2>4, <2>5 DEF RequestsFor
<1>9. receiveRequests' = [receiveRequests EXCEPT ![w] = @ \o new]
  BY DEF Irecv
<1> HIDE DEF new
<1>10. receiveRequests[w] \o new \in Requests /\ <<>> \o new = new
  BY <1>8 DEF TypeInv, Requests
<1>11. /\ receiveRequests' \in [Worlds -> Requests]
       /\ receiveRequests'[w] = receiveRequests[w] \o new
       /\ \A u \in Worlds \ {w} : receiveRequests'[u] = receiveRequests[u]
  BY <1>9, <1>10 DEF TypeInv
<1>12. receiveRequests[w] = <<>> => RequestsFor(w, DOMAIN zone, tag, receiveRequests'[w], posted)
  <2>1. CASE receiveRequests[w] = <<>>
    <3>1. receiveRequests'[w] = new
      BY <1>10, <1>11, <2>1, Zenon
    <3> QED
      BY <1>8, <3>1
  <2> QED
    BY <2>1
<1> QED
  BY <1>5, <1>11, <1>12 DEF H, block, PostedBlock

----------------------------------------------------------------------------
(* The messages fit *)

FitInv == TypeInv /\ LoopInv /\ LengthInv /\ HeaderInv

LEMMA InitFits == Init => FitInv
<1> SUFFICES ASSUME Init PROVE FitInv
  OBVIOUS
<1>1. TypeInv
  <2>1. <<>> \in Requests
    BY DEF Requests
  <2>2. messages \in [Channels -> Seq({})] /\ posted \in [Channels -> Seq({})]
    BY DEF Init
  <2>3. IsBox(messages) /\ IsBox(posted)
    BY <2>2 DEF IsBox
  <2> QED
    BY <2>1, <2>3 DEF Init, TypeInv, Labels, StartLabels, Sections
<1>2. LoopInv
  BY DEF Init, LoopInv
<1>3. ASSUME NEW c \in Channels
      PROVE  /\ Len(messages[c]) = NumRasters * SentOn(c)
             /\ Len(posted[c]) = NumRasters * PostedOn(c)
  <2>1. /\ c[1] \in Worlds /\ c[2] \in Worlds
        /\ Sent(c[1], c[2]) = 0 /\ Got(c[2], c[1]) = 0
    <3>1. c[1] \in Worlds /\ c[2] \in Worlds /\ 0 \in Sections
      BY OfChannel DEF Sections
    <3>2. ASSUME NEW w \in Worlds
          PROVE  label[w] = "sendMax" /\ sectionIndex[w] = 0 /\ Round(w) = 0
      BY DEF Init, Round, StartLabels
    <3>3. Turn(c[1], c[2], 0, 0) = 0
      BY <3>1, NextTurn
    <3> QED
      BY <3>1, <3>2, <3>3 DEF Sent, Got, SentLabels, GotLabels
  <2>2. SentOn(c) = 0 /\ PostedOn(c) = 0
    BY <2>1 DEF Init, SentOn, PostedOn, MaxSent, MaxGot
  <2>3. Len(messages[c]) = 0 /\ Len(posted[c]) = 0
    BY DEF Init
  <2> QED
    BY <2>2, <2>3, RastersAssumption
<1>4. HeaderInv
  <2>1. ASSUME NEW c \in Channels PROVE DOMAIN messages[c] = {} /\ DOMAIN posted[c] = {}
    BY DEF Init
  <2> QED
    BY <2>1 DEF HeaderInv, HeadersOf, MaxHeaders, ValueHeaders
<1> QED
  BY <1>1, <1>2, <1>3, <1>4 DEF FitInv, LengthInv

\* What w has sent, and posted, is counted the same after a step.
SendsSame(w) == MaxSent(w)' = MaxSent(w) /\ \A v : Sent(w, v)' = Sent(w, v)
PostsSame(w) == MaxGot(w)' = MaxGot(w) /\ \A v : Got(w, v)' = Got(w, v)

LEMMA OthersSame ==
    ASSUME NEW w, label'[w] = label[w], sectionIndex'[w] = sectionIndex[w], step'[w] = step[w]
    PROVE  SendsSame(w) /\ PostsSame(w)
BY DEF SendsSame, PostsSame, MaxSent, MaxGot, Sent, Got, Round, Turn

LEMMA QuietStep ==
    ASSUME LengthInv, HeaderInv, messages' = messages, posted' = posted,
           \A w \in Worlds : SendsSame(w) /\ PostsSame(w)
    PROVE  LengthInv' /\ HeaderInv'
<1>1. HeaderInv'
  BY DEF HeaderInv, HeadersOf, MaxHeaders, ValueHeaders
<1>2. ASSUME NEW c \in Channels PROVE SentOn(c)' = SentOn(c) /\ PostedOn(c)' = PostedOn(c)
  <2>1. SendsSame(c[1]) /\ PostsSame(c[2])
    BY OfChannel
  <2> QED
    BY <2>1 DEF SentOn, PostedOn, SendsSame, PostsSame
<1> QED
  BY <1>1, <1>2 DEF LengthInv

\* Steps of one world in which it neither sends nor receives
LEMMA LocalStep ==
    ASSUME FitInv, NEW w \in Worlds, messages' = messages, posted' = posted,
           label' = [label EXCEPT ![w] = label'[w]], UNCHANGED <<sectionIndex, step>>,
           \/ label[w] \in {"clearMax", "clear"} /\ label'[w] = label[w]
           \/ label[w] = "clearMax" /\ label'[w] = "barrierMax"
           \/ label[w] = "clear" /\ label'[w] \in {"barrier", "exception"}
           \/ label[w] = "environment" /\ label'[w] = "sendAll"
           \/ label[w] = "section" /\ label'[w] = "exchange"
           \/ label[w] = "exchange" /\ label'[w] = "sendZone"
    PROVE  LengthInv' /\ HeaderInv'
<1>1. ASSUME NEW u \in Worlds, u # w PROVE SendsSame(u) /\ PostsSame(u)
  <2>1. label'[u] = label[u]
    BY <1>1 DEF FitInv, TypeInv
  <2> QED
    BY <2>1, OthersSame
<1>2. SendsSame(w) /\ PostsSame(w)
  <2>1. /\ label'[w] \in SentLabels <=> label[w] \in SentLabels
        /\ label'[w] \in GotLabels <=> label[w] \in GotLabels
        /\ label'[w] \in StartLabels \union {"exception"} <=> label[w] \in StartLabels \union {"exception"}
        /\ label'[w] \in SectionLabels <=> label[w] \in SectionLabels
        /\ label'[w] # "sendMax" /\ label[w] # "sendMax"
        /\ label'[w] # "receiveMax" /\ label[w] # "receiveMax"
    BY DEF SentLabels, GotLabels, StartLabels, SectionLabels
  <2>2. Round(w)' = Round(w)
    BY <2>1 DEF Round
  <2>3. MaxSent(w)' = MaxSent(w) /\ MaxGot(w)' = MaxGot(w)
    BY <2>1 DEF MaxSent, MaxGot
  <2>4. \A v : Sent(w, v)' = Sent(w, v) /\ Got(w, v)' = Got(w, v)
    BY <2>1, <2>2 DEF Sent, Got, Turn
  <2> QED
    BY <2>3, <2>4 DEF SendsSame, PostsSame
<1> QED
  BY <1>1, <1>2, QuietStep DEF FitInv

LEMMA CountTypes ==
    ASSUME TypeInv, NEW c \in Channels
    PROVE  /\ SentOn(c) \in Nat /\ PostedOn(c) \in Nat
           /\ Round(c[1]) \in Nat /\ Round(c[2]) \in Nat
           /\ sectionIndex[c[1]] \in Sections /\ sectionIndex[c[2]] \in Sections
<1>1. c[1] \in Worlds /\ c[2] \in Worlds
  BY OfChannel
<1>2. ASSUME NEW w \in Worlds PROVE Round(w) \in Nat /\ sectionIndex[w] \in Sections
  BY DEF TypeInv, Round
<1>3. ASSUME NEW a, NEW b, NEW s PROVE Use(a, b, s) \in Nat
  BY DEF Use
<1>4. Sent(c[1], c[2]) \in Nat
  <2> DEFINE t == Turn(c[1], c[2], Round(c[1]), sectionIndex[c[1]])
             n == Use(c[1], c[2], sectionIndex[c[1]])
  <2>1. t \in Nat /\ n \in Nat
    BY <1>1, <1>2, <1>3, TurnType
  <2>2. Sent(c[1], c[2]) = t + (IF label[c[1]] \in SentLabels THEN n ELSE 0)
    BY DEF Sent
  <2> HIDE DEF t, n
  <2> QED
    BY <2>1, <2>2
<1>5. Got(c[2], c[1]) \in Nat
  <2> DEFINE t == Turn(c[1], c[2], Round(c[2]), sectionIndex[c[2]])
             n == Use(c[1], c[2], sectionIndex[c[2]])
  <2>1. t \in Nat /\ n \in Nat
    BY <1>1, <1>2, <1>3, TurnType
  <2>2. Got(c[2], c[1]) = t + (IF label[c[2]] \in GotLabels THEN n ELSE 0)
    BY DEF Got
  <2> HIDE DEF t, n
  <2> QED
    BY <2>1, <2>2
<1> QED
  BY <1>1, <1>2, <1>4, <1>5 DEF SentOn, PostedOn, MaxSent, MaxGot

LEMMA OneMore ==
    ASSUME NEW n \in Nat
    PROVE  NumRasters * (n + 1) = NumRasters * n + NumRasters
BY RastersAssumption

LEMMA BoxElements ==
    ASSUME NEW box, IsBox(box), NEW c \in Channels
    PROVE  \E S : box[c] \in Seq(S)
BY DEF IsBox

\* One block more is sent on the channels of H.
SendsOn(H) == \A c \in Channels : SentOn(c)' = (IF c \in H THEN SentOn(c) + 1 ELSE SentOn(c)) /\ PostedOn(c)' = PostedOn(c)
PostsOn(H) == \A c \in Channels : PostedOn(c)' = (IF c \in H THEN PostedOn(c) + 1 ELSE PostedOn(c)) /\ SentOn(c)' = SentOn(c)

LEMMA SendStep ==
    ASSUME FitInv, NEW STATE H, NEW STATE block, Extended(messages, messages', H, block), SendsOn(H), posted' = posted
    PROVE  LengthInv'
<1> SUFFICES ASSUME NEW c \in Channels
             PROVE  /\ Len(messages'[c]) = NumRasters * SentOn(c)'
                    /\ Len(posted'[c]) = NumRasters * PostedOn(c)'
  BY DEF LengthInv
<1>1. SentOn(c) \in Nat /\ Len(messages[c]) = NumRasters * SentOn(c) /\ Len(posted[c]) = NumRasters * PostedOn(c)
  BY CountTypes DEF FitInv, LengthInv
<1>2. CASE c \in H
  BY <1>1, <1>2, OneMore DEF SendsOn, Extended
<1>3. CASE c \notin H
  BY <1>1, <1>3 DEF SendsOn, Extended
<1> QED
  BY <1>2, <1>3

LEMMA PostStep ==
    ASSUME FitInv, NEW STATE H, NEW STATE block, Extended(posted, posted', H, block), PostsOn(H), messages' = messages
    PROVE  LengthInv'
<1> SUFFICES ASSUME NEW c \in Channels
             PROVE  /\ Len(messages'[c]) = NumRasters * SentOn(c)'
                    /\ Len(posted'[c]) = NumRasters * PostedOn(c)'
  BY DEF LengthInv
<1>1. PostedOn(c) \in Nat /\ Len(messages[c]) = NumRasters * SentOn(c) /\ Len(posted[c]) = NumRasters * PostedOn(c)
  BY CountTypes DEF FitInv, LengthInv
<1>2. CASE c \in H
  BY <1>1, <1>2, OneMore DEF PostsOn, Extended
<1>3. CASE c \notin H
  BY <1>1, <1>3 DEF PostsOn, Extended
<1> QED
  BY <1>2, <1>3

(* The headers of a channel on which a block is added, or nothing          *)
LEMMA ValueBlock ==
    ASSUME NEW box, NEW grown, NEW H, NEW block, IsBox(box), IsBox(grown), Extended(box, grown, H, block),
           NEW c \in H, c \in Channels, c[3] = "value", HeadersOf(box, c),
           NEW q \in Nat, NEW s \in Sections, needsToBeUpdated(c[1], c[2], s),
           Len(box[c]) = NumRasters * Turn(c[1], c[2], q, s),
           \A r \in Rasters : Header(block[c][r], r, Script(c[1], c[2], q, s))
    PROVE  HeadersOf(grown, c)
<1>1. PICK S : box[c] \in Seq(S)
  BY BoxElements
<1>2. PICK T : grown[c] \in Seq(T)
  BY BoxElements
<1>3. /\ Len(grown[c]) = Len(box[c]) + NumRasters
      /\ \A n \in DOMAIN box[c] : grown[c][n] = box[c][n]
      /\ \A r \in Rasters : grown[c][Len(box[c]) + r] = block[c][r]
  BY DEF Extended
<1>4. \A r \in Rasters : Header(grown[c][Len(box[c]) + r], r, Script(c[1], c[2], q, s))
  BY <1>3
<1>5. ValueHeaders(box, c)
  BY DEF HeadersOf
<1>6. ValueHeaders(grown, c)
  BY <1>1, <1>2, <1>3, <1>4, <1>5, HeadersGrow
<1> QED
  BY <1>6 DEF HeadersOf

LEMMA MaxBlock ==
    ASSUME NEW box, NEW grown, NEW H, NEW block, IsBox(box), IsBox(grown), Extended(box, grown, H, block),
           NEW c \in H, c \in Channels, c[3] = "max", Len(box[c]) = 0,
           \A r \in Rasters : Header(block[c][r], r, Internal(c[1], c[2]))
    PROVE  HeadersOf(grown, c)
<1>1. PICK S : box[c] \in Seq(S)
  BY BoxElements
<1>2. PICK T : grown[c] \in Seq(T)
  BY BoxElements
<1>3. /\ Len(grown[c]) = Len(box[c]) + NumRasters
      /\ \A r \in Rasters : grown[c][Len(box[c]) + r] = block[c][r]
  BY DEF Extended
<1>4. \A r \in Rasters : Header(grown[c][Len(box[c]) + r], r, Internal(c[1], c[2]))
  BY <1>3
<1>5. MaxHeaders(grown, c)
  BY <1>1, <1>2, <1>3, <1>4, MaxHeadersGrow
<1> QED
  BY <1>5 DEF HeadersOf

LEMMA NoBlock ==
    ASSUME NEW box, NEW grown, NEW H, NEW block, Extended(box, grown, H, block),
           NEW c \in Channels, c \notin H, HeadersOf(box, c)
    PROVE  HeadersOf(grown, c)
BY HeadersKept DEF Extended, HeadersOf

LEMMA SendMaxFits ==
    ASSUME FitInv, NEW w \in Worlds, sendMaxOverlapZones(w)
    PROVE  LengthInv' /\ HeaderInv' /\ IsBox(messages') /\ sendRequests' \in [Worlds -> Requests]
<1> DEFINE zone == [v \in Neighbors(w) |-> Internal(w, v)]
           H == SendChannels(w, DOMAIN zone, "max")
           block == SentBlock(w, zone, "max", maxima)
<1>1. Isend(w, zone, "max", maxima) /\ DOMAIN zone \subseteq Neighbors(w)
  BY DEF sendMaxOverlapZones
<1>2. H = {c \in Channels : c[1] = w /\ c[3] = "max"}
  BY OfChannel DEF SendChannels
<1>3. \A c \in H, r \in Rasters : Header(block[c][r], r, Internal(c[1], c[2]))
  BY <1>2, OfChannel DEF Header, SentBlock
<1> HIDE DEF zone
<1>4. IsBox(messages') /\ Extended(messages, messages', H, block) /\ sendRequests' \in [Worlds -> Requests]
  BY <1>1, IsendSends DEF FitInv
<1> HIDE DEF H, block
<1>5. /\ label[w] = "sendMax" /\ label' = [label EXCEPT ![w] = "receiveMax"]
      /\ UNCHANGED <<sectionIndex, step, posted>>
  BY DEF sendMaxOverlapZones, Goto
<1>6. ASSUME NEW u \in Worlds, u # w PROVE SendsSame(u) /\ PostsSame(u)
  BY <1>5, <1>6, OthersSame DEF FitInv, TypeInv
<1>7. ASSUME NEW u \in Worlds, u = w
      PROVE  /\ MaxSent(u) = 0 /\ MaxSent(u)' = 1 /\ MaxGot(u)' = MaxGot(u)
             /\ \A v : Sent(u, v)' = Sent(u, v) /\ Got(u, v)' = Got(u, v)
  <2>1. label[u] = "sendMax" /\ label'[u] = "receiveMax"
    BY <1>5, <1>7 DEF FitInv, TypeInv
  <2>2. Round(u)' = Round(u)
    BY <1>5, <2>1 DEF Round, StartLabels
  <2> QED
    BY <1>5, <2>1, <2>2 DEF MaxSent, MaxGot, Sent, Got, Turn, SentLabels, GotLabels
<1>8. SendsOn(H)
  <2> SUFFICES ASSUME NEW c \in Channels
               PROVE  /\ SentOn(c)' = (IF c \in H THEN SentOn(c) + 1 ELSE SentOn(c))
                      /\ PostedOn(c)' = PostedOn(c)
    BY DEF SendsOn
  <2>1. PostedOn(c)' = PostedOn(c)
    BY <1>6, <1>7, OfChannel DEF PostedOn, PostsSame
  <2>2. CASE c \in H
    BY <1>2, <1>7, <2>1, <2>2, OfChannel DEF SentOn
  <2>3. CASE c \notin H
    BY <1>2, <1>6, <1>7, <2>1, <2>3, OfChannel DEF SentOn, SendsSame
  <2> QED
    BY <2>1, <2>2, <2>3
<1>9. LengthInv'
  BY <1>4, <1>5, <1>8, SendStep
<1>10. ASSUME NEW c \in Channels PROVE HeadersOf(messages', c) /\ HeadersOf(posted', c)
  <2>1. HeadersOf(messages, c) /\ HeadersOf(posted, c)
    BY DEF FitInv, HeaderInv
  <2>2. CASE c \in H
    <3>1. c[1] = w /\ c[3] = "max"
      BY <1>2, <2>2
    <3>2. Len(messages[c]) = 0
      BY <1>7, <3>1, RastersAssumption DEF FitInv, LengthInv, SentOn
    <3>3. IsBox(messages)
      BY DEF FitInv, TypeInv
    <3> QED
      BY <1>3, <1>4, <1>5, <2>1, <2>2, <3>1, <3>2, <3>3, MaxBlock
  <2>3. CASE c \notin H
    BY <1>4, <1>5, <2>1, <2>3, NoBlock
  <2> QED
    BY <2>2, <2>3
<1>11. HeaderInv'
  BY <1>10 DEF HeaderInv, HeadersOf, MaxHeaders, ValueHeaders
<1> QED
  BY <1>4, <1>9, <1>11

LEMMA ReceiveMaxFits ==
    ASSUME FitInv, NEW w \in Worlds, receiveMaxOverlapData(w)
    PROVE  LengthInv' /\ HeaderInv' /\ IsBox(posted') /\ receiveRequests' \in [Worlds -> Requests]
<1> DEFINE zone == [v \in Neighbors(w) |-> External(w, v)]
           H == ReceiveChannels(w, DOMAIN zone, "max")
           block == PostedBlock(w, zone, "max")
<1>1. Irecv(w, zone, "max") /\ DOMAIN zone \subseteq Neighbors(w)
  BY DEF receiveMaxOverlapData
<1>2. H = {c \in Channels : c[2] = w /\ c[3] = "max"}
  BY OfChannel DEF ReceiveChannels
<1>3. \A c \in H, r \in Rasters : Header(block[c][r], r, Internal(c[1], c[2]))
  <2> SUFFICES ASSUME NEW c \in H, NEW r \in Rasters
               PROVE  Header(block[c][r], r, Internal(c[1], c[2]))
    OBVIOUS
  <2>1. c[2] = w /\ c[1] \in Worlds /\ c[1] \in Neighbors(w) /\ w \in Neighbors(c[1])
    BY <1>2, OfChannel
  <2>2. External(w, c[1]) = Internal(c[1], w)
    BY <2>1, ZonesMatch
  <2> QED
    BY <2>1, <2>2 DEF Header, PostedBlock
<1> HIDE DEF zone
<1>4. IsBox(posted') /\ Extended(posted, posted', H, block) /\ receiveRequests' \in [Worlds -> Requests]
  BY <1>1, IrecvPosts DEF FitInv
<1> HIDE DEF H, block
<1>5. /\ label[w] = "receiveMax" /\ label' = [label EXCEPT ![w] = "clearMax"]
      /\ UNCHANGED <<sectionIndex, step, messages>>
  BY DEF receiveMaxOverlapData, Goto
<1>6. ASSUME NEW u \in Worlds, u # w PROVE SendsSame(u) /\ PostsSame(u)
  BY <1>5, <1>6, OthersSame DEF FitInv, TypeInv
<1>7. ASSUME NEW u \in Worlds, u = w
      PROVE  /\ MaxGot(u) = 0 /\ MaxGot(u)' = 1 /\ MaxSent(u)' = MaxSent(u)
             /\ \A v : Sent(u, v)' = Sent(u, v) /\ Got(u, v)' = Got(u, v)
  <2>1. label[u] = "receiveMax" /\ label'[u] = "clearMax"
    BY <1>5, <1>7 DEF FitInv, TypeInv
  <2>2. Round(u)' = Round(u)
    BY <1>5, <2>1 DEF Round, StartLabels
  <2> QED
    BY <1>5, <2>1, <2>2 DEF MaxSent, MaxGot, Sent, Got, Turn, SentLabels, GotLabels
<1>8. PostsOn(H)
  <2> SUFFICES ASSUME NEW c \in Channels
               PROVE  /\ PostedOn(c)' = (IF c \in H THEN PostedOn(c) + 1 ELSE PostedOn(c))
                      /\ SentOn(c)' = SentOn(c)
    BY DEF PostsOn
  <2>1. SentOn(c)' = SentOn(c)
    BY <1>6, <1>7, OfChannel DEF SentOn, SendsSame
  <2>2. CASE c \in H
    BY <1>2, <1>7, <2>1, <2>2, OfChannel DEF PostedOn
  <2>3. CASE c \notin H
    BY <1>2, <1>6, <1>7, <2>1, <2>3, OfChannel DEF PostedOn, PostsSame
  <2> QED
    BY <2>1, <2>2, <2>3
<1>9. LengthInv'
  BY <1>4, <1>5, <1>8, PostStep
<1>10. ASSUME NEW c \in Channels PROVE HeadersOf(messages', c) /\ HeadersOf(posted', c)
  <2>1. HeadersOf(messages, c) /\ HeadersOf(posted, c)
    BY DEF FitInv, HeaderInv
  <2>2. CASE c \in H
    <3>1. c[2] = w /\ c[3] = "max"
      BY <1>2, <2>2
    <3>2. Len(posted[c]) = 0
      BY <1>7, <3>1, RastersAssumption DEF FitInv, LengthInv, PostedOn
    <3>3. IsBox(posted)
      BY DEF FitInv, TypeInv
    <3> QED
      BY <1>3, <1>4, <1>5, <2>1, <2>2, <3>1, <3>2, <3>3, MaxBlock
  <2>3. CASE c \notin H
    BY <1>4, <1>5, <2>1, <2>3, NoBlock
  <2> QED
    BY <2>2, <2>3
<1>11. HeaderInv'
  BY <1>10 DEF HeaderInv, HeadersOf, MaxHeaders, ValueHeaders
<1> QED
  BY <1>4, <1>9, <1>11

\* u leaves section s of its round, for the next section or the next round.
Advances(u) ==
    \/ sectionIndex[u] < 3 /\ sectionIndex'[u] = sectionIndex[u] + 1 /\ Round(u)' = Round(u)
    \/ sectionIndex[u] = 3 /\ sectionIndex'[u] = 0 /\ Round(u)' = Round(u) + 1

LEMMA AdvanceTurns ==
    ASSUME TypeInv, NEW u \in Worlds, Advances(u), NEW a, NEW b
    PROVE  Turn(a, b, Round(u)', sectionIndex'[u])
               = Turn(a, b, Round(u), sectionIndex[u]) + Use(a, b, sectionIndex[u])
<1>1. Round(u) \in Nat /\ sectionIndex[u] \in Sections
  BY DEF TypeInv, Round
<1>2. CASE sectionIndex[u] < 3 /\ sectionIndex'[u] = sectionIndex[u] + 1 /\ Round(u)' = Round(u)
  BY <1>1, <1>2, NextTurn
<1>3. CASE sectionIndex[u] = 3 /\ sectionIndex'[u] = 0 /\ Round(u)' = Round(u) + 1
  BY <1>1, <1>3, NextTurn
<1> QED
  BY <1>2, <1>3 DEF Advances

(* The kind of round is seen from the label.                               *)
LEMMA ScriptOf ==
    ASSUME TypeInv, NEW w \in Worlds, NEW a, NEW b, NEW s
    PROVE  /\ label[w] \in {"send", "receive"} => Round(w) = 0 /\ Script(a, b, Round(w), s) = Internal(a, b)
           /\ label[w] \in {"sendAll", "receiveAll"} => Script(a, b, Round(w), s) = Internal(a, b)
           /\ label[w] \in {"sendZone", "receiveZone"} => Script(a, b, Round(w), s) = Zone(a, b, s)
<1>1. step[w] \in Nat
  BY DEF TypeInv
<1>2. CASE label[w] \in {"send", "receive"}
  BY <1>2 DEF Round, StartLabels, Script
<1>3. CASE label[w] \in {"sendAll", "receiveAll"}
  <2>1. Round(w) = 2 * step[w] + 1
    BY <1>3 DEF Round, StartLabels, SectionLabels
  <2>2. (2 * step[w] + 1) % 2 = 1
    BY <1>1
  <2> QED
    BY <1>3, <2>1, <2>2 DEF Script
<1>4. CASE label[w] \in {"sendZone", "receiveZone"}
  <2>1. Round(w) = 2 * step[w] + 2
    BY <1>4 DEF Round, StartLabels, SectionLabels
  <2>2. (2 * step[w] + 2) % 2 = 0 /\ 2 * step[w] + 2 > 0
    BY <1>1
  <2> QED
    BY <1>4, <2>1, <2>2 DEF Script
<1> QED
  BY <1>2, <1>3, <1>4

LEMMA SendFits ==
    ASSUME FitInv, NEW w \in Worlds, sendOverlapZones(w)
    PROVE  LengthInv' /\ HeaderInv' /\ IsBox(messages') /\ sendRequests' \in [Worlds -> Requests]
<1> DEFINE zone == [v \in SendTo(w, sectionIndex[w]) |->
                        IF label[w] = "sendZone" THEN Zone(w, v, sectionIndex[w]) ELSE Internal(w, v)]
           H == SendChannels(w, DOMAIN zone, "value")
           block == SentBlock(w, zone, "value", values)
<1>1. Isend(w, zone, "value", values) /\ DOMAIN zone \subseteq Neighbors(w)
  BY DEF sendOverlapZones, SendTo
<1>2. H = {c \in Channels : c[1] = w /\ c[2] \in SendTo(w, sectionIndex[w]) /\ c[3] = "value"}
  BY DEF SendChannels
<1>3. label[w] \in {"send", "sendAll", "sendZone"} /\ TypeInv
  BY DEF sendOverlapZones, FitInv
<1>4. \A v \in SendTo(w, sectionIndex[w]) : zone[v] = Script(w, v, Round(w), sectionIndex[w])
  BY <1>3, ScriptOf
<1>5. \A c \in H, r \in Rasters : Header(block[c][r], r, Script(c[1], c[2], Round(w), sectionIndex[w]))
  <2> SUFFICES ASSUME NEW c \in H, NEW r \in Rasters
               PROVE  Header(block[c][r], r, Script(c[1], c[2], Round(w), sectionIndex[w]))
    OBVIOUS
  <2>1. c[1] = w /\ zone[c[2]] = Script(w, c[2], Round(w), sectionIndex[w])
    BY <1>2, <1>4
  <2> HIDE DEF zone
  <2>2. block[c][r].raster = r /\ block[c][r].zone = zone[c[2]]
    BY DEF SentBlock
  <2> QED
    BY <2>1, <2>2 DEF Header
<1> HIDE DEF zone
<1>6. IsBox(messages') /\ Extended(messages, messages', H, block) /\ sendRequests' \in [Worlds -> Requests]
  BY <1>1, <1>3, IsendSends
<1> HIDE DEF H, block
<1>7. /\ label' = [label EXCEPT ![w] = AfterSend[label[w]]]
      /\ UNCHANGED <<sectionIndex, step, posted>>
  BY DEF sendOverlapZones, Goto
<1>8. ASSUME NEW u \in Worlds, u # w PROVE SendsSame(u) /\ PostsSame(u)
  BY <1>3, <1>7, <1>8, OthersSame DEF TypeInv
<1>9. ASSUME NEW u \in Worlds, u = w
      PROVE  /\ MaxSent(u)' = MaxSent(u) /\ PostsSame(u)
             /\ \A v : Sent(u, v) = Turn(u, v, Round(u), sectionIndex[u])
             /\ \A v : Sent(u, v)' = Sent(u, v) + Use(u, v, sectionIndex[u])
  <2>1. /\ label[u] \in {"send", "sendAll", "sendZone"}
        /\ label'[u] = AfterSend[label[u]] /\ label'[u] \in {"receive", "receiveAll", "receiveZone"}
        /\ sectionIndex'[u] = sectionIndex[u] /\ step'[u] = step[u]
    BY <1>3, <1>7, <1>9 DEF TypeInv, AfterSend
  <2>2. /\ label[u] \in StartLabels \union {"exception"} <=> label'[u] \in StartLabels \union {"exception"}
        /\ label[u] \in SectionLabels <=> label'[u] \in SectionLabels
        /\ label[u] \notin SentLabels /\ label'[u] \in SentLabels
        /\ label[u] \notin GotLabels /\ label'[u] \notin GotLabels
    BY <2>1 DEF AfterSend, StartLabels, SectionLabels, SentLabels, GotLabels
  <2>3. Round(u)' = Round(u)
    BY <2>1, <2>2 DEF Round
  <2>4. MaxSent(u)' = MaxSent(u) /\ MaxGot(u)' = MaxGot(u)
    BY <2>1 DEF MaxSent, MaxGot
  <2>5. \A v : Got(u, v)' = Got(u, v)
    BY <2>1, <2>2, <2>3 DEF Got, Turn
  <2>6. \A v : Turn(u, v, Round(u), sectionIndex[u]) \in Nat
    BY <1>3, TurnType DEF TypeInv, Round
  <2>7. \A v : Sent(u, v) = Turn(u, v, Round(u), sectionIndex[u])
    BY <2>2, <2>6 DEF Sent
  <2>8. \A v : Sent(u, v)' = Turn(u, v, Round(u), sectionIndex[u]) + Use(u, v, sectionIndex[u])
    BY <2>1, <2>2, <2>3 DEF Sent, Turn
  <2> QED
    BY <2>4, <2>5, <2>7, <2>8 DEF PostsSame
<1>10. ASSUME NEW c \in Channels, c[1] = w, c[3] = "value"
       PROVE  /\ c \in H => needsToBeUpdated(c[1], c[2], sectionIndex[w]) /\ Use(c[1], c[2], sectionIndex[w]) = 1
              /\ c \notin H => Use(c[1], c[2], sectionIndex[w]) = 0
  <2>1. c[2] \in Neighbors(w)
    BY <1>10, OfChannel
  <2> QED
    BY <1>2, <1>10, <2>1 DEF SendTo, Use
<1>11. SendsOn(H)
  <2> SUFFICES ASSUME NEW c \in Channels
               PROVE  /\ SentOn(c)' = (IF c \in H THEN SentOn(c) + 1 ELSE SentOn(c))
                      /\ PostedOn(c)' = PostedOn(c)
    BY DEF SendsOn
  <2>1. PostedOn(c)' = PostedOn(c)
    BY <1>8, <1>9, OfChannel DEF PostedOn, PostsSame
  <2>2. SentOn(c) \in Nat
    BY <1>3, CountTypes
  <2>3. CASE c[1] = w /\ c[3] = "value"
    <3>1. Sent(c[1], c[2])' = Sent(c[1], c[2]) + Use(c[1], c[2], sectionIndex[w])
      BY <1>9, <2>3, OfChannel
    <3> QED
      BY <1>10, <2>1, <2>2, <2>3, <3>1 DEF SentOn
  <2>4. CASE c[1] = w /\ c[3] = "max"
    BY <1>2, <1>9, <2>1, <2>4, OfChannel DEF SentOn
  <2>5. CASE c[1] # w
    BY <1>2, <1>8, <2>1, <2>5, OfChannel DEF SentOn, SendsSame
  <2> QED
    BY <2>3, <2>4, <2>5, OfChannel
<1>12. LengthInv'
  BY <1>6, <1>7, <1>11, SendStep
<1>13. ASSUME NEW c \in Channels PROVE HeadersOf(messages', c) /\ HeadersOf(posted', c)
  <2>1. HeadersOf(messages, c) /\ HeadersOf(posted, c)
    BY DEF FitInv, HeaderInv
  <2>2. CASE c \in H
    <3>1. c[1] = w /\ c[3] = "value"
      BY <1>2, <2>2
    <3>2. Len(messages[c]) = NumRasters * Turn(c[1], c[2], Round(w), sectionIndex[w])
      BY <1>9, <3>1 DEF FitInv, LengthInv, SentOn
    <3>3. IsBox(messages)
      BY <1>3 DEF TypeInv
    <3>4. needsToBeUpdated(c[1], c[2], sectionIndex[w])
      BY <1>10, <2>2, <3>1
    <3>5. Round(w) \in Nat /\ sectionIndex[w] \in Sections
      BY <1>3 DEF TypeInv, Round
    <3>6. \A r \in Rasters : Header(block[c][r], r, Script(c[1], c[2], Round(w), sectionIndex[w]))
      BY <1>5, <2>2
    <3> QED
      BY <1>6, <1>7, <2>1, <2>2, <3>1, <3>2, <3>3, <3>4, <3>5, <3>6, ValueBlock
  <2>3. CASE c \notin H
    BY <1>6, <1>7, <2>1, <2>3, NoBlock
  <2> QED
    BY <2>2, <2>3
<1>14. HeaderInv'
  BY <1>13 DEF HeaderInv, HeadersOf, MaxHeaders, ValueHeaders
<1> QED
  BY <1>6, <1>12, <1>14

\* Where a world is after receiveOverlapData
LEMMA AfterReceiveCounts ==
    ASSUME FitInv, NEW w \in Worlds, receiveOverlapData(w)
    PROVE  /\ MaxGot(w)' = MaxGot(w) /\ SendsSame(w)
           /\ \A v : Got(w, v) = Turn(v, w, Round(w), sectionIndex[w])
           /\ \A v : Got(w, v)' = Got(w, v) + Use(v, w, sectionIndex[w])
           /\ \A u \in Worlds : u # w => SendsSame(u) /\ PostsSame(u)
<1>1. TypeInv /\ w \in Worlds /\ label[w] \in {"receive", "receiveAll", "receiveZone"} /\ AfterReceive(w)
  BY DEF receiveOverlapData, AfterReceive, FitInv
<1>2. sectionIndex[w] \in Sections /\ step[w] \in Nat
  BY <1>1 DEF TypeInv
<1>3. /\ label[w] \in SentLabels /\ label[w] \notin GotLabels
      /\ label[w] # "sendMax" /\ label[w] # "receiveMax"
  BY <1>1 DEF SentLabels, GotLabels
<1>4. ASSUME NEW a, NEW b PROVE Turn(a, b, Round(w), sectionIndex[w]) \in Nat
  BY <1>1, TurnType DEF TypeInv, Round
<1>5. \A v : /\ Got(w, v) = Turn(v, w, Round(w), sectionIndex[w])
             /\ Sent(w, v) = Turn(w, v, Round(w), sectionIndex[w]) + Use(w, v, sectionIndex[w])
  BY <1>3, <1>4 DEF Got, Sent
<1>6. ASSUME NEW u \in Worlds, u # w PROVE SendsSame(u) /\ PostsSame(u)
  <2>1. label'[u] = label[u] /\ sectionIndex'[u] = sectionIndex[u] /\ step'[u] = step[u]
    BY <1>1, <1>6 DEF AfterReceive, Goto, TypeInv
  <2> QED
    BY <2>1, OthersSame
<1>7. CASE label[w] = "receive"
  <2>1. label'[w] = "clear" /\ sectionIndex'[w] = sectionIndex[w] /\ step'[w] = step[w]
    BY <1>1, <1>7 DEF AfterReceive, Goto, TypeInv
  <2>2. Round(w)' = Round(w)
    BY <1>7, <2>1 DEF Round, StartLabels
  <2>3. \A v : /\ Got(w, v)' = Turn(v, w, Round(w), sectionIndex[w]) + Use(v, w, sectionIndex[w])
               /\ Sent(w, v)' = Turn(w, v, Round(w), sectionIndex[w]) + Use(w, v, sectionIndex[w])
    BY <2>1, <2>2 DEF Got, Sent, GotLabels, SentLabels, Turn
  <2>4. MaxGot(w)' = MaxGot(w) /\ MaxSent(w)' = MaxSent(w)
    BY <1>7, <2>1 DEF MaxGot, MaxSent
  <2> QED
    BY <1>5, <1>6, <2>3, <2>4 DEF SendsSame
<1>8. CASE label[w] \in {"receiveAll", "receiveZone"}
  <2>1. /\ label'[w] \notin SentLabels \union GotLabels
        /\ label'[w] # "sendMax" /\ label'[w] # "receiveMax"
        /\ Advances(w)
    <3>1. CASE label[w] = "receiveAll" /\ sectionIndex[w] = 3
      <4>1. label'[w] = "section" /\ sectionIndex'[w] = 0 /\ step'[w] = step[w]
        BY <1>1, <3>1 DEF AfterReceive, Goto, TypeInv, Following
      <4> QED
        BY <1>2, <3>1, <4>1 DEF Advances, Round, StartLabels, SectionLabels, SentLabels, GotLabels
    <3>2. CASE label[w] = "receiveAll" /\ sectionIndex[w] # 3
      <4>1. sectionIndex[w] < 3 /\ Following(sectionIndex[w]) = sectionIndex[w] + 1
        BY <1>2, <3>2 DEF Following, Sections
      <4>2. label'[w] = "sendAll" /\ sectionIndex'[w] = sectionIndex[w] + 1 /\ step'[w] = step[w]
        BY <1>1, <3>2, <4>1 DEF AfterReceive, Goto, TypeInv
      <4> QED
        BY <1>2, <3>2, <4>1, <4>2 DEF Advances, Round, StartLabels, SectionLabels, SentLabels, GotLabels
    <3>3. CASE label[w] = "receiveZone" /\ sectionIndex[w] = 3
      <4>1. label'[w] \in {"environment", "done"} /\ sectionIndex'[w] = 0 /\ step'[w] = step[w] + 1
        BY <1>1, <3>3 DEF AfterReceive, Goto, TypeInv, Following
      <4> QED
        BY <1>2, <3>3, <4>1 DEF Advances, Round, StartLabels, SectionLabels, SentLabels, GotLabels
    <3>4. CASE label[w] = "receiveZone" /\ sectionIndex[w] # 3
      <4>1. sectionIndex[w] < 3 /\ Following(sectionIndex[w]) = sectionIndex[w] + 1
        BY <1>2, <3>4 DEF Following, Sections
      <4>2. label'[w] = "section" /\ sectionIndex'[w] = sectionIndex[w] + 1 /\ step'[w] = step[w]
        BY <1>1, <3>4, <4>1 DEF AfterReceive, Goto, TypeInv
      <4> QED
        BY <1>2, <3>4, <4>1, <4>2 DEF Advances, Round, StartLabels, SectionLabels, SentLabels, GotLabels
    <3> QED
      BY <1>8, <3>1, <3>2, <3>3, <3>4
  <2>2. ASSUME NEW a, NEW b
        PROVE  /\ Turn(a, b, Round(w)', sectionIndex'[w])
                      = Turn(a, b, Round(w), sectionIndex[w]) + Use(a, b, sectionIndex[w])
               /\ Turn(a, b, Round(w)', sectionIndex'[w]) \in Nat
    <3>1. Use(a, b, sectionIndex[w]) \in Nat
      BY DEF Use
    <3>2. Turn(a, b, Round(w)', sectionIndex'[w])
                      = Turn(a, b, Round(w), sectionIndex[w]) + Use(a, b, sectionIndex[w])
      BY <1>1, <2>1, AdvanceTurns
    <3> QED
      BY <1>4, <3>1, <3>2
  <2>3. \A v : /\ Got(w, v)' = Turn(v, w, Round(w)', sectionIndex'[w])
               /\ Sent(w, v)' = Turn(w, v, Round(w)', sectionIndex'[w])
    <3>1. ASSUME NEW a, NEW b PROVE Turn(a, b, Round(w)', sectionIndex'[w]) + 0 = Turn(a, b, Round(w)', sectionIndex'[w])
      BY <2>2
    <3> QED
      BY <2>1, <3>1 DEF Got, Sent, Turn
  <2>4. MaxGot(w)' = MaxGot(w) /\ MaxSent(w)' = MaxSent(w)
    BY <1>3, <2>1 DEF MaxGot, MaxSent
  <2> QED
    BY <1>5, <1>6, <2>2, <2>3, <2>4 DEF SendsSame
<1> QED
  BY <1>1, <1>7, <1>8

LEMMA ReceiveFits ==
    ASSUME FitInv, NEW w \in Worlds, receiveOverlapData(w)
    PROVE  LengthInv' /\ HeaderInv' /\ IsBox(posted') /\ receiveRequests' \in [Worlds -> Requests]
<1> DEFINE zone == [v \in ReceiveFrom(w, sectionIndex[w]) |->
                        IF label[w] = "receiveZone" THEN Zone(w, v, sectionIndex[w]) ELSE External(w, v)]
           H == ReceiveChannels(w, DOMAIN zone, "value")
           block == PostedBlock(w, zone, "value")
<1>1. Irecv(w, zone, "value") /\ DOMAIN zone \subseteq Neighbors(w)
  BY DEF receiveOverlapData, ReceiveFrom
<1>2. H = {c \in Channels : c[2] = w /\ c[1] \in ReceiveFrom(w, sectionIndex[w]) /\ c[3] = "value"}
  BY DEF ReceiveChannels
<1>3. label[w] \in {"receive", "receiveAll", "receiveZone"} /\ TypeInv
  BY DEF receiveOverlapData, AfterReceive, FitInv
<1>4. ASSUME NEW v \in ReceiveFrom(w, sectionIndex[w])
      PROVE  zone[v] = Script(v, w, Round(w), sectionIndex[w])
  <2>1. v \in Neighbors(w) /\ v \in Worlds /\ w \in Neighbors(v) /\ sectionIndex[w] \in Sections
    BY <1>3, NeighborsSymmetric DEF ReceiveFrom, TypeInv
  <2>2. External(w, v) = Internal(v, w) /\ Zone(w, v, sectionIndex[w]) = Zone(v, w, sectionIndex[w])
    BY <2>1, ZonesMatch
  <2> QED
    BY <1>3, <2>2, ScriptOf
<1>5. \A c \in H, r \in Rasters : Header(block[c][r], r, Script(c[1], c[2], Round(w), sectionIndex[w]))
  <2> SUFFICES ASSUME NEW c \in H, NEW r \in Rasters
               PROVE  Header(block[c][r], r, Script(c[1], c[2], Round(w), sectionIndex[w]))
    OBVIOUS
  <2>1. c[2] = w /\ zone[c[1]] = Script(c[1], w, Round(w), sectionIndex[w])
    BY <1>2, <1>4
  <2> HIDE DEF zone
  <2>2. block[c][r].raster = r /\ block[c][r].zone = zone[c[1]]
    BY DEF PostedBlock
  <2> QED
    BY <2>1, <2>2 DEF Header
<1> HIDE DEF zone
<1>6. IsBox(posted') /\ Extended(posted, posted', H, block) /\ receiveRequests' \in [Worlds -> Requests]
  BY <1>1, <1>3, IrecvPosts
<1> HIDE DEF H, block
<1>7. UNCHANGED messages
  BY DEF receiveOverlapData
<1>8. ASSUME NEW u \in Worlds, u # w PROVE SendsSame(u) /\ PostsSame(u)
  BY <1>8, AfterReceiveCounts
<1>9. ASSUME NEW u \in Worlds, u = w
      PROVE  /\ MaxGot(u)' = MaxGot(u) /\ SendsSame(u)
             /\ \A v : Got(u, v) = Turn(v, u, Round(u), sectionIndex[u])
             /\ \A v : Got(u, v)' = Got(u, v) + Use(v, u, sectionIndex[u])
  <2>1. receiveOverlapData(u)
    BY <1>9
  <2> QED
    BY <2>1, AfterReceiveCounts
<1>10. ASSUME NEW c \in Channels, c[2] = w, c[3] = "value"
       PROVE  /\ c \in H => needsToBeUpdated(c[1], c[2], sectionIndex[w]) /\ Use(c[1], c[2], sectionIndex[w]) = 1
              /\ c \notin H => Use(c[1], c[2], sectionIndex[w]) = 0
  <2>1. c[1] \in Worlds /\ c[2] \in Neighbors(c[1]) /\ sectionIndex[w] \in Sections
    BY <1>3, OfChannel DEF TypeInv
  <2>2. c[1] \in ReceiveFrom(c[2], sectionIndex[w]) <=> needsToBeUpdated(c[1], c[2], sectionIndex[w])
    BY <2>1, SendersAndReceivers
  <2> QED
    BY <1>2, <1>10, <2>2 DEF Use
<1>11. PostsOn(H)
  <2> SUFFICES ASSUME NEW c \in Channels
               PROVE  /\ PostedOn(c)' = (IF c \in H THEN PostedOn(c) + 1 ELSE PostedOn(c))
                      /\ SentOn(c)' = SentOn(c)
    BY DEF PostsOn
  <2>1. SentOn(c)' = SentOn(c)
    BY <1>8, <1>9, OfChannel DEF SentOn, SendsSame
  <2>2. PostedOn(c) \in Nat
    BY <1>3, CountTypes
  <2>3. CASE c[2] = w /\ c[3] = "value"
    <3>1. Got(c[2], c[1])' = Got(c[2], c[1]) + Use(c[1], c[2], sectionIndex[w])
      BY <1>9, <2>3, OfChannel
    <3> QED
      BY <1>10, <2>1, <2>2, <2>3, <3>1 DEF PostedOn
  <2>4. CASE c[2] = w /\ c[3] = "max"
    BY <1>2, <1>9, <2>1, <2>4, OfChannel DEF PostedOn
  <2>5. CASE c[2] # w
    BY <1>2, <1>8, <2>1, <2>5, OfChannel DEF PostedOn, PostsSame
  <2> QED
    BY <2>3, <2>4, <2>5, OfChannel
<1>12. LengthInv'
  BY <1>6, <1>7, <1>11, PostStep
<1>13. ASSUME NEW c \in Channels PROVE HeadersOf(messages', c) /\ HeadersOf(posted', c)
  <2>1. HeadersOf(messages, c) /\ HeadersOf(posted, c)
    BY DEF FitInv, HeaderInv
  <2>2. CASE c \in H
    <3>1. c[2] = w /\ c[3] = "value"
      BY <1>2, <2>2
    <3>2. Len(posted[c]) = NumRasters * Turn(c[1], c[2], Round(w), sectionIndex[w])
      BY <1>9, <3>1 DEF FitInv, LengthInv, PostedOn
    <3>3. IsBox(posted)
      BY <1>3 DEF TypeInv
    <3>4. needsToBeUpdated(c[1], c[2], sectionIndex[w])
      BY <1>10, <2>2, <3>1
    <3>5. Round(w) \in Nat /\ sectionIndex[w] \in Sections
      BY <1>3 DEF TypeInv, Round
    <3>6. \A r \in Rasters : Header(block[c][r], r, Script(c[1], c[2], Round(w), sectionIndex[w]))
      BY <1>5, <2>2
    <3> QED
      BY <1>6, <1>7, <2>1, <2>2, <3>1, <3>2, <3>3, <3>4, <3>5, <3>6, ValueBlock
  <2>3. CASE c \notin H
    BY <1>6, <1>7, <2>1, <2>3, NoBlock
  <2> QED
    BY <2>2, <2>3
<1>14. HeaderInv'
  BY <1>13 DEF HeaderInv, HeadersOf, MaxHeaders, ValueHeaders
<1> QED
  BY <1>6, <1>12, <1>14

LEMMA BarrierFits ==
    ASSUME FitInv, Barrier
    PROVE  LengthInv' /\ HeaderInv'
<1>1. TypeInv /\ messages' = messages /\ posted' = posted /\ step' = step
  BY DEF Barrier, FitInv
<1>2. ASSUME NEW w \in Worlds PROVE SendsSame(w) /\ PostsSame(w)
  <2>1. CASE label[w] = "barrierMax"
    <3>1. label'[w] = "send" /\ sectionIndex'[w] = sectionIndex[w] /\ step'[w] = step[w]
      BY <2>1 DEF Barrier
    <3>2. Round(w)' = Round(w)
      BY <2>1, <3>1 DEF Round, StartLabels
    <3> QED
      BY <2>1, <3>1, <3>2 DEF SendsSame, PostsSame, MaxSent, MaxGot, Sent, Got, Turn, SentLabels, GotLabels
  <2>2. CASE label[w] = "barrier"
    <3>1. /\ label'[w] = IF sectionIndex[w] < 3 THEN "send" ELSE IF NumSteps = 0 THEN "done" ELSE "environment"
          /\ sectionIndex'[w] = Following(sectionIndex[w]) /\ step'[w] = step[w]
      BY <2>2 DEF Barrier
    <3>2. sectionIndex[w] \in 0 .. 3 /\ step[w] = 0
      BY <1>1, <2>2 DEF TypeInv, Sections, FitInv, LoopInv, StartLabels
    <3>3. Advances(w)
      <4>1. CASE sectionIndex[w] < 3
        <5>1. label'[w] = "send" /\ sectionIndex'[w] = sectionIndex[w] + 1
          BY <3>1, <3>2, <4>1 DEF Following
        <5> QED
          BY <2>2, <3>1, <4>1, <5>1 DEF Advances, Round, StartLabels
      <4>2. CASE sectionIndex[w] = 3
        <5>1. label'[w] \in {"done", "environment"} /\ sectionIndex'[w] = 0 /\ step'[w] = 0
          BY <3>1, <3>2, <4>2 DEF Following
        <5> QED
          BY <2>2, <4>2, <5>1 DEF Advances, Round, StartLabels, SectionLabels
      <4> QED
        BY <3>2, <4>1, <4>2
    <3>4. /\ label'[w] \notin SentLabels \union GotLabels
          /\ label[w] \in SentLabels \intersect GotLabels
          /\ label'[w] \notin {"sendMax", "receiveMax"}
      BY <2>2, <3>1 DEF SentLabels, GotLabels
    <3>5. ASSUME NEW a, NEW b
          PROVE  /\ Turn(a, b, Round(w)', sectionIndex'[w])
                        = Turn(a, b, Round(w), sectionIndex[w]) + Use(a, b, sectionIndex[w])
                 /\ Turn(a, b, Round(w)', sectionIndex'[w]) + 0 = Turn(a, b, Round(w)', sectionIndex'[w])
      <4>1. Turn(a, b, Round(w), sectionIndex[w]) \in Nat /\ Use(a, b, sectionIndex[w]) \in Nat
        BY <1>1, TurnType DEF TypeInv, Round, Use
      <4>2. Turn(a, b, Round(w)', sectionIndex'[w])
                        = Turn(a, b, Round(w), sectionIndex[w]) + Use(a, b, sectionIndex[w])
        BY <1>1, <3>3, AdvanceTurns
      <4> QED
        BY <4>1, <4>2
    <3>6. \A v : Got(w, v)' = Got(w, v) /\ Sent(w, v)' = Sent(w, v)
      BY <3>4, <3>5 DEF Got, Sent, Turn
    <3> QED
      BY <2>2, <3>4, <3>6 DEF SendsSame, PostsSame, MaxSent, MaxGot
  <2> QED
    BY <2>1, <2>2 DEF Barrier
<1> QED
  BY <1>1, <1>2, QuietStep DEF FitInv

(* The labels a world may go to, and what it does to its loop variables    *)
LEMMA LabelsStep ==
    ASSUME FitInv, Next
    PROVE  /\ label' \in [Worlds -> Labels]
           /\ sectionIndex' \in [Worlds -> Sections]
           /\ step' \in [Worlds -> Nat]
           /\ LoopInv'
<1>1. /\ TypeInv /\ LoopInv
      /\ label \in [Worlds -> Labels] /\ sectionIndex \in [Worlds -> Sections] /\ step \in [Worlds -> Nat]
  BY DEF FitInv, TypeInv
<1>2. ASSUME NEW w \in Worlds, UNCHANGED <<sectionIndex, step>>,
             \/ Goto(w, "receiveMax") /\ label[w] = "sendMax"
             \/ Goto(w, "clearMax") /\ label[w] = "receiveMax"
             \/ Goto(w, AfterSend[label[w]]) /\ label[w] \in {"send", "sendAll", "sendZone"}
             \/ Goto(w, "exception") /\ label[w] = "clear"
             \/ Goto(w, IF label[w] = "clearMax" THEN "barrierMax" ELSE "barrier") /\ label[w] \in {"clearMax", "clear"}
             \/ Goto(w, "sendAll") /\ label[w] = "environment"
             \/ Goto(w, "exchange") /\ label[w] = "section"
             \/ Goto(w, "sendZone") /\ label[w] = "exchange"
             \/ Goto(w, "clear") /\ label[w] = "receive"
             \/ label' = label
      PROVE  label' \in [Worlds -> Labels] /\ LoopInv'
  BY <1>1, <1>2 DEF Goto, AfterSend, Labels, StartLabels, SectionLabels, LoopInv
<1>3. ASSUME NEW w \in Worlds, receiveOverlapData(w)
      PROVE  /\ label' \in [Worlds -> Labels]
             /\ sectionIndex' \in [Worlds -> Sections]
             /\ step' \in [Worlds -> Nat]
             /\ LoopInv'
  <2>1. AfterReceive(w)
    BY <1>3 DEF receiveOverlapData
  <2>2. \A s \in Sections : Following(s) \in Sections /\ (s = 3 => Following(s) = 0)
    BY DEF Following, Sections
  <2>3. CASE label[w] = "receive"
    BY <1>1, <1>2, <2>1, <2>3 DEF AfterReceive
  <2>4. CASE label[w] = "receiveAll"
    BY <1>1, <2>1, <2>2, <2>4 DEF AfterReceive, Goto, Labels, StartLabels, SectionLabels, LoopInv
  <2>5. CASE label[w] = "receiveZone"
    BY <1>1, <2>1, <2>2, <2>5 DEF AfterReceive, Goto, Labels, StartLabels, SectionLabels, LoopInv
  <2> QED
    BY <2>1, <2>3, <2>4, <2>5 DEF AfterReceive
<1>4. CASE Barrier
  <2>1. \A s \in Sections : Following(s) \in Sections /\ (~(s < 3) => Following(s) = 0)
    BY DEF Following, Sections
  <2> QED
    BY <1>1, <1>4, <2>1 DEF Barrier, Labels, StartLabels, SectionLabels, LoopInv
<1>5. CASE UNCHANGED vars
  BY <1>1, <1>5 DEF vars, LoopInv
<1>6. ASSUME NEW w \in Worlds, TestReceive(w)
      PROVE  label' \in [Worlds -> Labels] /\ LoopInv' /\ UNCHANGED <<sectionIndex, step>>
  <2>1. \/ label' = label
        \/ Goto(w, "exception") /\ label[w] = "clear"
    BY <1>6 DEF TestReceive, Throws, Goto
  <2>2. UNCHANGED <<sectionIndex, step>>
    BY <1>6 DEF TestReceive
  <2> QED
    BY <1>2, <2>1, <2>2
<1>7. ASSUME NEW w \in Worlds, WorldStep(w) \/ TestSends(w)
      PROVE  /\ label' \in [Worlds -> Labels]
             /\ sectionIndex' \in [Worlds -> Sections]
             /\ step' \in [Worlds -> Nat]
             /\ LoopInv'
  <2>1. CASE sendMaxOverlapZones(w)
    BY <1>1, <1>2, <2>1 DEF sendMaxOverlapZones
  <2>2. CASE receiveMaxOverlapData(w)
    BY <1>1, <1>2, <2>2 DEF receiveMaxOverlapData
  <2>3. CASE sendOverlapZones(w)
    BY <1>1, <1>2, <2>3 DEF sendOverlapZones
  <2>4. CASE Cleared(w)
    BY <1>1, <1>2, <2>4 DEF Cleared, Clearing
  <2>5. CASE stepEnvironment(w)
    BY <1>1, <1>2, <2>5 DEF stepEnvironment
  <2>6. CASE stepSection(w)
    BY <1>1, <1>2, <2>6 DEF stepSection
  <2>7. CASE ExchangeAgents(w)
    BY <1>1, <1>2, <2>7 DEF ExchangeAgents
  <2>8. CASE TestSends(w)
    BY <1>1, <1>2, <2>8 DEF TestSends
  <2>9. CASE TestReceive(w)
    BY <1>1, <1>6, <2>9
  <2>10. CASE receiveOverlapData(w)
    BY <1>3, <2>10
  <2> QED
    BY <1>7, <2>1, <2>2, <2>3, <2>4, <2>5, <2>6, <2>7, <2>8, <2>9, <2>10 DEF WorldStep
<1> QED
  BY <1>4, <1>5, <1>7 DEF Next, Finished

LEMMA RequestsStep ==
    ASSUME FitInv, Next
    PROVE  /\ sendRequests' \in [Worlds -> Requests] /\ receiveRequests' \in [Worlds -> Requests]
           /\ IsBox(messages') /\ IsBox(posted')
           /\ LengthInv' /\ HeaderInv'
<1>1. /\ TypeInv
      /\ sendRequests \in [Worlds -> Requests] /\ receiveRequests \in [Worlds -> Requests]
      /\ IsBox(messages) /\ IsBox(posted)
      /\ label \in [Worlds -> Labels]
  BY DEF FitInv, TypeInv
<1>2. ASSUME NEW w \in Worlds, NEW l \in Labels, Goto(w, l)
      PROVE  label' = [label EXCEPT ![w] = label'[w]] /\ label'[w] = l
  BY <1>1, <1>2 DEF Goto
<1>3. "barrierMax" \in Labels /\ "barrier" \in Labels /\ "sendAll" \in Labels
   /\ "exchange" \in Labels /\ "sendZone" \in Labels
  BY DEF Labels, StartLabels, SectionLabels
<1>4. CASE Barrier
  BY <1>1, <1>4, BarrierFits DEF Barrier
<1>5. CASE UNCHANGED vars
  <2>1. \A w \in Worlds : SendsSame(w) /\ PostsSame(w)
    BY <1>5, OthersSame DEF vars
  <2> QED
    BY <1>1, <1>5, <2>1, QuietStep DEF vars, FitInv
<1>6. ASSUME NEW w \in Worlds, sendMaxOverlapZones(w)
      PROVE  UNCHANGED <<posted, receiveRequests>>
  BY <1>6 DEF sendMaxOverlapZones
<1>7. ASSUME NEW w \in Worlds, receiveMaxOverlapData(w)
      PROVE  UNCHANGED <<messages, sendRequests>>
  BY <1>7 DEF receiveMaxOverlapData
<1>8. ASSUME NEW w \in Worlds, sendOverlapZones(w)
      PROVE  UNCHANGED <<posted, receiveRequests>>
  BY <1>8 DEF sendOverlapZones
<1>9. ASSUME NEW w \in Worlds, receiveOverlapData(w)
      PROVE  UNCHANGED <<messages, sendRequests>>
  BY <1>9 DEF receiveOverlapData
<1>10. ASSUME NEW w \in Worlds,
              Cleared(w) \/ stepEnvironment(w) \/ stepSection(w) \/ ExchangeAgents(w)
       PROVE  /\ UNCHANGED <<messages, posted, sendRequests, receiveRequests>>
              /\ LengthInv' /\ HeaderInv'
  <2>1. UNCHANGED <<messages, posted, sendRequests, receiveRequests, sectionIndex, step>>
    BY <1>10 DEF Cleared, stepEnvironment, stepSection, ExchangeAgents
  <2>2. CASE Cleared(w)
    <3>1. (label[w] = "clearMax" /\ Goto(w, "barrierMax")) \/ (label[w] = "clear" /\ Goto(w, "barrier"))
      <4>1. /\ label[w] = "clearMax" \/ label[w] = "clear"
            /\ Goto(w, IF label[w] = "clearMax" THEN "barrierMax" ELSE "barrier")
        BY <2>2 DEF Cleared, Clearing
      <4>2. CASE label[w] = "clearMax"
        BY <4>1, <4>2 DEF Goto
      <4>3. CASE label[w] = "clear"
        BY <4>1, <4>3 DEF Goto
      <4> QED
        BY <4>1, <4>2, <4>3
    <3> QED
      BY <1>2, <1>3, <2>1, <3>1, LocalStep
  <2>3. CASE stepEnvironment(w)
    BY <1>2, <1>3, <2>1, <2>3, LocalStep DEF stepEnvironment
  <2>4. CASE stepSection(w)
    BY <1>2, <1>3, <2>1, <2>4, LocalStep DEF stepSection
  <2>5. CASE ExchangeAgents(w)
    BY <1>2, <1>3, <2>1, <2>5, LocalStep DEF ExchangeAgents
  <2> QED
    BY <1>10, <2>1, <2>2, <2>3, <2>4, <2>5
<1>11. ASSUME NEW w \in Worlds, TestSends(w)
       PROVE  /\ sendRequests' \in [Worlds -> Requests]
              /\ UNCHANGED <<messages, posted, receiveRequests>>
              /\ LengthInv' /\ HeaderInv'
  <2>1. /\ sendRequests' = [sendRequests EXCEPT ![w] = <<>>]
        /\ UNCHANGED <<label, messages, posted, receiveRequests, sectionIndex, step>>
        /\ label[w] \in {"clearMax", "clear"}
    BY <1>11 DEF TestSends, Clearing
  <2>2. <<>> \in Requests
    BY DEF Requests
  <2>3. sendRequests' \in [Worlds -> Requests]
    BY <1>1, <2>1, <2>2
  <2>4. label' = [label EXCEPT ![w] = label'[w]] /\ label'[w] = label[w]
    BY <1>1, <2>1
  <2>5. LengthInv' /\ HeaderInv'
    BY <2>1, <2>4, LocalStep
  <2> QED
    BY <2>1, <2>3, <2>5
<1>12. ASSUME NEW w \in Worlds, TestReceive(w)
       PROVE  /\ receiveRequests' \in [Worlds -> Requests]
              /\ UNCHANGED <<messages, posted, sendRequests>>
              /\ LengthInv' /\ HeaderInv'
  <2>1. /\ receiveRequests' = [receiveRequests EXCEPT ![w] = Tail(@)]
        /\ UNCHANGED <<messages, posted, sendRequests, sectionIndex, step>>
        /\ label[w] \in {"clearMax", "clear"} /\ receiveRequests[w] # <<>>
    BY <1>12 DEF TestReceive, Clearing
  <2>2. Tail(receiveRequests[w]) \in Requests
    BY <1>1, <2>1 DEF Requests
  <2>3. receiveRequests' \in [Worlds -> Requests]
    BY <1>1, <2>1, <2>2
  <2>4. label' = label \/ (label[w] = "clear" /\ label' = [label EXCEPT ![w] = "exception"])
    BY <1>12 DEF TestReceive, Throws
  <2>5. /\ label' = [label EXCEPT ![w] = label'[w]]
        /\ label'[w] = label[w] \/ (label[w] = "clear" /\ label'[w] = "exception")
    BY <1>1, <2>4
  <2>6. LengthInv' /\ HeaderInv'
    BY <2>1, <2>5, LocalStep
  <2> QED
    BY <2>1, <2>3, <2>6
<1>13. ASSUME NEW w \in Worlds, WorldStep(w) \/ TestSends(w)
       PROVE  /\ sendRequests' \in [Worlds -> Requests] /\ receiveRequests' \in [Worlds -> Requests]
              /\ IsBox(messages') /\ IsBox(posted')
              /\ LengthInv' /\ HeaderInv'
  <2>1. CASE sendMaxOverlapZones(w)
    BY <1>1, <1>6, <2>1, SendMaxFits
  <2>2. CASE receiveMaxOverlapData(w)
    BY <1>1, <1>7, <2>2, ReceiveMaxFits
  <2>3. CASE sendOverlapZones(w)
    BY <1>1, <1>8, <2>3, SendFits
  <2>4. CASE receiveOverlapData(w)
    BY <1>1, <1>9, <2>4, ReceiveFits
  <2>5. CASE Cleared(w) \/ stepEnvironment(w) \/ stepSection(w) \/ ExchangeAgents(w)
    BY <1>1, <1>10, <2>5
  <2>6. CASE TestSends(w)
    BY <1>1, <1>11, <2>6
  <2>7. CASE TestReceive(w)
    BY <1>1, <1>12, <2>7
  <2> QED
    BY <1>13, <2>1, <2>2, <2>3, <2>4, <2>5, <2>6, <2>7 DEF WorldStep
<1> QED
  BY <1>4, <1>5, <1>13 DEF Next, Finished

LEMMA FitStep == FitInv /\ [Next]_vars => FitInv'
<1>1. ASSUME FitInv, Next PROVE FitInv'
  <2>1. TypeInv'
    BY <1>1, LabelsStep, RequestsStep DEF TypeInv, IsBox
  <2>2. LoopInv' /\ LengthInv' /\ HeaderInv'
    BY <1>1, LabelsStep, RequestsStep
  <2> QED
    BY <2>1, <2>2 DEF FitInv
<1>2. ASSUME FitInv, UNCHANGED vars PROVE FitInv'
  <2>1. TypeInv' /\ LoopInv'
    BY <1>2 DEF FitInv, TypeInv, LoopInv, IsBox, vars
  <2>2. \A w \in Worlds : SendsSame(w) /\ PostsSame(w)
    BY <1>2, OthersSame DEF vars
  <2>3. LengthInv' /\ HeaderInv'
    BY <1>2, <2>2, QuietStep DEF vars, FitInv
  <2> QED
    BY <2>1, <2>3 DEF FitInv
<1> QED
  BY <1>1, <1>2

LEMMA FitAlways == Spec => []FitInv
BY InitFits, FitStep, PTL DEF Spec

(* MPI gives to every receive the message it was posted for: in whatever   *)
(* order the worlds run, the n-th send and the n-th receive of a channel   *)
(* are for the same raster and zone, for every grid, size, overlap and     *)
(* number of rasters and steps.  It is a matter of counting: both ends     *)
(* decide by the same test which sections a pair takes part in, so that    *)
(* the number of a message gives its round, section and raster away.       *)
THEOREM MessagesAlwaysFit == Spec => []MessagesFit
<1>1. FitInv => MessagesFit
  <2> SUFFICES ASSUME FitInv, NEW c \in Channels, NEW n \in DOMAIN messages[c], n \in DOMAIN posted[c]
               PROVE  /\ messages[c][n].raster = posted[c][n].raster
                      /\ messages[c][n].zone = posted[c][n].zone
    BY DEF MessagesFit
  <2>1. HeadersOf(messages, c) /\ HeadersOf(posted, c)
    BY DEF FitInv, HeaderInv
  <2>2. CASE c[3] = "max"
    BY <2>1, <2>2 DEF HeadersOf, MaxHeaders, Header
  <2>3. CASE c[3] # "max"
    <3>1. PICK q \in Nat, s \in Sections, r \in Rasters :
              /\ needsToBeUpdated(c[1], c[2], s)
              /\ n = Number(c[1], c[2], q, s, r)
              /\ Header(messages[c][n], r, Script(c[1], c[2], q, s))
      BY <2>1, <2>3 DEF HeadersOf, ValueHeaders
    <3>2. PICK p \in Nat, t \in Sections, u \in Rasters :
              /\ needsToBeUpdated(c[1], c[2], t)
              /\ n = Number(c[1], c[2], p, t, u)
              /\ Header(posted[c][n], u, Script(c[1], c[2], p, t))
      BY <2>1, <2>3 DEF HeadersOf, ValueHeaders
    <3> DEFINE a == c[1]
               b == c[2]
    <3>4. /\ needsToBeUpdated(a, b, s) /\ needsToBeUpdated(a, b, t)
          /\ Number(a, b, q, s, r) = Number(a, b, p, t, u)
      BY <3>1, <3>2
    <3> HIDE DEF a, b
    <3>3. q = p /\ s = t /\ r = u
      BY <3>4, NumberIsUnique
    <3> QED
      BY <3>1, <3>2, <3>3 DEF Header
  <2> QED
    BY <2>2, <2>3
<1> QED
  BY <1>1, FitAlways, PTL

----------------------------------------------------------------------------
(* The steps start clean *)

LEMMA ClearStep == FitInv /\ ClearInv /\ [Next]_vars => ClearInv'
<1> SUFFICES ASSUME FitInv, ClearInv, [Next]_vars, NEW w \in Worlds
             PROVE  /\ NoSends(label'[w], step'[w]) => sendRequests'[w] = <<>>
                    /\ NoReceives(label'[w], step'[w]) => receiveRequests'[w] = <<>>
  BY DEF ClearInv, NoSends, NoReceives
<1>1. /\ TypeInv
      /\ NoSends(label[w], step[w]) => sendRequests[w] = <<>>
      /\ NoReceives(label[w], step[w]) => receiveRequests[w] = <<>>
  BY DEF FitInv, ClearInv
<1>2. ASSUME NEW u \in Worlds, u # w, WorldStep(u) \/ TestSends(u)
      PROVE  /\ label'[w] = label[w] /\ step'[w] = step[w]
             /\ sendRequests'[w] = sendRequests[w] /\ receiveRequests'[w] = receiveRequests[w]
  <2> USE <1>1, <1>2 DEF TypeInv, Goto
  <2>1. CASE sendMaxOverlapZones(u)
    BY <2>1 DEF sendMaxOverlapZones, Isend
  <2>2. CASE receiveMaxOverlapData(u)
    BY <2>2 DEF receiveMaxOverlapData, Irecv
  <2>3. CASE sendOverlapZones(u)
    BY <2>3 DEF sendOverlapZones, Isend
  <2>4. CASE receiveOverlapData(u)
    BY <2>4 DEF receiveOverlapData, AfterReceive, Irecv
  <2>5. CASE Cleared(u)
    BY <2>5 DEF Cleared
  <2>6. CASE stepEnvironment(u)
    BY <2>6 DEF stepEnvironment
  <2>7. CASE stepSection(u)
    BY <2>7 DEF stepSection
  <2>8. CASE ExchangeAgents(u)
    BY <2>8 DEF ExchangeAgents
  <2>9. CASE TestSends(u)
    BY <2>9 DEF TestSends
  <2>10. CASE TestReceive(u)
    BY <2>10 DEF TestReceive
  <2> QED
    BY <1>2, <2>1, <2>2, <2>3, <2>4, <2>5, <2>6, <2>7, <2>8, <2>9, <2>10 DEF WorldStep
<1>3. CASE \E u \in Worlds : u # w /\ (WorldStep(u) \/ TestSends(u))
  BY <1>1, <1>2, <1>3
<1>4. CASE WorldStep(w) \/ TestSends(w)
  <2> USE <1>1 DEF NoSends, NoReceives, TypeInv, Goto
  <2>1. CASE sendMaxOverlapZones(w)
    BY <2>1 DEF sendMaxOverlapZones
  <2>2. CASE receiveMaxOverlapData(w)
    BY <2>2 DEF receiveMaxOverlapData
  <2>3. CASE sendOverlapZones(w)
    BY <2>3 DEF sendOverlapZones, AfterSend
  <2>4. CASE receiveOverlapData(w)
    BY <2>4 DEF receiveOverlapData, AfterReceive
  <2>5. CASE Cleared(w)
    BY <2>5 DEF Cleared
  <2>6. CASE stepEnvironment(w)
    BY <2>6 DEF stepEnvironment
  <2>7. CASE stepSection(w)
    BY <2>7 DEF stepSection
  <2>8. CASE ExchangeAgents(w)
    BY <2>8 DEF ExchangeAgents
  <2>9. CASE TestSends(w)
    BY <2>9 DEF TestSends, Clearing
  <2>10. CASE TestReceive(w)
    BY <2>10 DEF TestReceive, Clearing
  <2> QED
    BY <1>4, <2>1, <2>2, <2>3, <2>4, <2>5, <2>6, <2>7, <2>8, <2>9, <2>10 DEF WorldStep
<1>5. CASE Barrier
  BY <1>1, <1>5 DEF Barrier, NoSends, NoReceives
<1>6. CASE UNCHANGED vars
  BY <1>1, <1>6 DEF vars
<1> QED
  BY <1>3, <1>4, <1>5, <1>6 DEF Next, Finished

LEMMA ClearAlways == Spec => [](FitInv /\ ClearInv)
<1>1. Init => ClearInv
  BY DEF Init, ClearInv
<1> QED
  BY <1>1, InitFits, FitStep, ClearStep, PTL DEF Spec

(* When a world comes to a barrier of the initial exchange, and when it    *)
(* starts its first step, all its requests are done.                       *)
THEOREM AlwaysStartsClean == Spec => []StartsClean
<1>1. ClearInv => StartsClean
  BY DEF ClearInv, StartsClean, NoSends, NoReceives
<1> QED
  BY <1>1, ClearAlways, PTL

----------------------------------------------------------------------------
(* The copies are exact *)

LEMMA CellsHeld ==
    ASSUME NEW w \in Worlds
    PROVE  /\ OwnCells[w] \subseteq HeldCells[w]
           /\ \A v \in Neighbors(w) : /\ CopyCells[w][v] \subseteq HeldCells[w]
                                      /\ CopyCells[w][v] \subseteq OwnCells[v]
                                      /\ v \in Worlds
<1>1. ASSUME NEW c \in Coords PROVE CellsOf(BoundarySegment(c)) \subseteq CellsOf(OverlapSegment(c))
  <2> DEFINE m == c * LocalRasterSize
  <2>1. m \in Int
    BY WorldsPerRowAssumption, LocalRasterSizeAssumption DEF Coords
  <2> HIDE DEF m
  <2>2. CellsOf(BoundarySegment(c)) = m .. m + LocalRasterSize - 1
    BY DEF m, CellsOf, BoundarySegment, Segment
  <2>3. PICK before \in {0, Overlap}, after \in {0, Overlap} :
            OverlapSegment(c) = [lo |-> m - before, len |-> LocalRasterSize + before + after]
    BY DEF OverlapSegment, Segment, m
  <2>4. CellsOf(OverlapSegment(c)) = m - before .. (m - before) + (LocalRasterSize + before + after) - 1
    BY <2>3 DEF CellsOf
  <2> QED
    BY <2>1, <2>2, <2>4, LocalRasterSizeAssumption, OverlapAssumption
<1>2. w[1] \in Coords /\ w[2] \in Coords
  BY DEF Worlds
<1>3. OwnCells[w] \subseteq HeldCells[w]
  BY <1>1, <1>2 DEF OwnCells, HeldCells, CellsIn, boundaries, overlapBoundaries, Rectangle
<1> QED
  BY <1>3, NeighborsSymmetric DEF CopyCells

\* new is right where old is, and right where w copies v in raster r.
Improves(w, old, new, own, v, r) ==
    /\ \A u \in Rasters, x \in HeldCells[w] : old[u][x] = own[u][x] => new[u][x] = own[u][x]
    /\ Right(new, own, r, CopyCells[w][v])

LEMMA RightKept ==
    ASSUME NEW w \in Worlds, NEW old, NEW new, NEW own, NEW v, NEW r, Improves(w, old, new, own, v, r),
           NEW u \in Rasters, NEW S, S \subseteq HeldCells[w], Right(old, own, u, S)
    PROVE  Right(new, own, u, S)
BY DEF Improves, Right

\* What w writes when it receives data for raster r and zone
Update(field, r, zone, data) ==
    [field EXCEPT ![r] = [c \in DOMAIN @ |-> IF isInside(zone, c) THEN data[c] ELSE @[c]]]

LEMMA UpdateImproves ==
    ASSUME NEW w \in Worlds, NEW v \in Neighbors(w), NEW r \in Rasters, NEW field, Shape(w, field),
           NEW data, NEW own, \A x \in CellsIn(Internal(v, w)) : data[x] = own[r][x]
    PROVE  /\ Shape(w, Update(field, r, Internal(v, w), data))
           /\ Improves(w, field, Update(field, r, Internal(v, w), data), own, v, r)
<1> DEFINE zone == Internal(v, w)
           new == Update(field, r, zone, data)
<1>1. v \in Worlds /\ w \in Neighbors(v)
  BY NeighborsSymmetric
<1>2. /\ CellsIn(zone) = CopyCells[w][v]
      /\ \A x \in HeldCells[w] : isInside(zone, x) => x \in CellsIn(zone)
      /\ \A x \in CellsIn(zone) : isInside(zone, x)
  BY <1>1, ZonesMatch
<1>3. DOMAIN field = Rasters /\ \A u \in Rasters : DOMAIN field[u] = HeldCells[w]
  BY DEF Shape
<1> HIDE DEF zone
<1>4. new = [u \in Rasters |->
                IF u = r THEN [c \in HeldCells[w] |-> IF isInside(zone, c) THEN data[c] ELSE field[r][c]]
                ELSE field[u]]
  BY <1>3 DEF Update
<1> HIDE DEF new
<1>5. \A x \in HeldCells[w] : new[r][x] = IF isInside(zone, x) THEN data[x] ELSE field[r][x]
  BY <1>4
<1>6. \A u \in Rasters : u # r => new[u] = field[u]
  BY <1>4
<1>7. Shape(w, new)
  <2>1. \A u \in Rasters : new[u] = [x \in HeldCells[w] |-> new[u][x]]
    <3>1. new[r] = [x \in HeldCells[w] |-> new[r][x]]
      BY <1>4
    <3>2. ASSUME NEW u \in Rasters, u # r PROVE new[u] = [x \in HeldCells[w] |-> new[u][x]]
      <4>1. field[u] = [x \in HeldCells[w] |-> field[u][x]]
        BY DEF Shape
      <4> QED
        BY <1>6, <3>2, <4>1
    <3> QED
      BY <3>1, <3>2
  <2>2. new = [u \in Rasters |-> new[u]]
    BY <1>4
  <2> QED
    BY <2>1, <2>2 DEF Shape
<1>8. \A x \in HeldCells[w] : isInside(zone, x) => new[r][x] = own[r][x]
  BY <1>2, <1>5 DEF zone
<1>9. ASSUME NEW u \in Rasters, NEW x \in HeldCells[w], field[u][x] = own[u][x]
      PROVE  new[u][x] = own[u][x]
  <2>1. CASE u = r
    BY <1>5, <1>8, <1>9, <2>1
  <2>2. CASE u # r
    BY <1>6, <1>9, <2>2
  <2> QED
    BY <2>1, <2>2
<1>10. Right(new, own, r, CopyCells[w][v])
  BY <1>2, <1>8, CellsHeld DEF Right
<1> QED
  BY <1>7, <1>9, <1>10 DEF Improves, new, zone

LEMMA Received ==
    ASSUME NEW w \in Worlds, NEW tag, NEW others \in SUBSET Neighbors(w),
           NEW base \in [Neighbors(w) -> Nat], NEW requests \in Requests, requests # <<>>,
           NEW old, NEW new, NEW own, Waiting(w, tag, others, base, requests, old, own),
           NEW v \in others, NEW r \in Rasters, Head(requests) = <<<<v, w, tag>>, base[v] + r>>,
           Improves(w, old, new, own, v, r)
    PROVE  Waiting(w, tag, others, base, Tail(requests), new, own)
<1> DEFINE request(u, q) == <<<<u, w, tag>>, base[u] + q>>
<1>1. /\ Len(requests) \in Nat /\ Len(requests) >= 1 /\ DOMAIN requests = 1 .. Len(requests)
      /\ DOMAIN Tail(requests) = 1 .. Len(requests) - 1
      /\ \A i \in 1 .. Len(requests) - 1 : Tail(requests)[i] = requests[i + 1]
      /\ Head(requests) = requests[1]
  BY DEF Requests
<1>2. ASSUME NEW i \in DOMAIN Tail(requests)
      PROVE  \E u \in others, q \in Rasters : Tail(requests)[i] = request(u, q)
  <2>1. i + 1 \in DOMAIN requests /\ Tail(requests)[i] = requests[i + 1]
    BY <1>1
  <2> QED
    BY <2>1 DEF Waiting
<1>3. ASSUME NEW u \in others, NEW q \in Rasters
      PROVE  Right(new, own, q, CopyCells[w][u]) \/ Listed(Tail(requests), request(u, q))
  <2>1. Right(old, own, q, CopyCells[w][u]) \/ Listed(requests, request(u, q))
    BY DEF Waiting
  <2>2. CASE Right(old, own, q, CopyCells[w][u])
    <3>1. CopyCells[w][u] \subseteq HeldCells[w]
      BY CellsHeld
    <3> QED
      BY <2>2, <3>1, RightKept
  <2>3. CASE Listed(requests, request(u, q))
    <3>1. PICK i \in DOMAIN requests : requests[i] = request(u, q)
      BY <2>3 DEF Listed
    <3>2. CASE i = 1
      <4>1. request(u, q) = request(v, r)
        BY <1>1, <3>1, <3>2
      <4>2. u = v /\ base[u] + q = base[u] + r /\ base[u] \in Nat /\ q \in Int /\ r \in Int
        BY <4>1, RastersAssumption DEF Rasters
      <4>3. q = r
        BY <4>2
      <4> QED
        BY <4>2, <4>3 DEF Improves
    <3>3. CASE i # 1
      <4>1. i - 1 \in DOMAIN Tail(requests) /\ Tail(requests)[i - 1] = request(u, q)
        BY <1>1, <3>1, <3>3
      <4> QED
        BY <4>1 DEF Listed
    <3> QED
      BY <3>2, <3>3
  <2> QED
    BY <2>1, <2>2, <2>3
<1> QED
  BY <1>2, <1>3 DEF Waiting

LEMMA NewElements ==
    ASSUME NEW box, NEW grown, NEW H \in SUBSET Channels, NEW block, IsBox(box), IsBox(grown),
           Extended(box, grown, H, block), NEW c \in H, NEW n \in DOMAIN grown[c]
    PROVE  \/ n \in DOMAIN box[c] /\ grown[c][n] = box[c][n]
           \/ \E r \in Rasters : n = Len(box[c]) + r /\ grown[c][n] = block[c][r]
<1>1. PICK S : box[c] \in Seq(S)
  BY BoxElements
<1>2. PICK T : grown[c] \in Seq(T)
  BY BoxElements
<1>3. /\ Len(grown[c]) = Len(box[c]) + NumRasters
      /\ \A i \in DOMAIN box[c] : grown[c][i] = box[c][i]
      /\ \A r \in Rasters : grown[c][Len(box[c]) + r] = block[c][r]
  BY DEF Extended
<1>4. CASE n \in DOMAIN box[c]
  BY <1>3, <1>4
<1>5. CASE n \notin DOMAIN box[c]
  <2>1. n \in 1 .. Len(box[c]) + NumRasters /\ n \notin 1 .. Len(box[c]) /\ Len(box[c]) \in Nat
    BY <1>1, <1>2, <1>3, <1>5
  <2>2. n - Len(box[c]) \in Rasters /\ n = Len(box[c]) + (n - Len(box[c]))
    BY <2>1, RastersAssumption DEF Rasters
  <2> DEFINE r == n - Len(box[c])
  <2>3. r \in Rasters /\ n = Len(box[c]) + r
    BY <2>2
  <2> HIDE DEF r
  <2>4. grown[c][n] = block[c][r]
    BY <1>3, <2>3
  <2> QED
    BY <2>3, <2>4
<1> QED
  BY <1>4, <1>5

(* What w sends of its own cells is right as long as they are.             *)
LEMMA SentCells ==
    ASSUME NEW c \in Channels
    PROVE  /\ CellsIn(Internal(c[1], c[2])) \subseteq OwnCells[c[1]]
           /\ CellsIn(Internal(c[1], c[2])) = CopyCells[c[2]][c[1]]
<1>1. c[1] \in Worlds /\ c[2] \in Worlds /\ c[2] \in Neighbors(c[1]) /\ c[1] \in Neighbors(c[2])
  BY OfChannel
<1>2. CellsIn(Internal(c[1], c[2])) = CopyCells[c[2]][c[1]]
  BY <1>1, ZonesMatch
<1> QED
  BY <1>1, <1>2, CellsHeld

LEMMA SendMaxData ==
    ASSUME FitInv, CopyInv, NEW w \in Worlds, sendMaxOverlapZones(w), NEW c \in Channels
    PROVE  DataOf(messages', c)
<1> DEFINE zone == [v \in Neighbors(w) |-> Internal(w, v)]
           H == SendChannels(w, DOMAIN zone, "max")
           block == SentBlock(w, zone, "max", maxima)
<1>1. Isend(w, zone, "max", maxima) /\ DOMAIN zone \subseteq Neighbors(w) /\ label[w] = "sendMax" /\ TypeInv
  BY DEF sendMaxOverlapZones, FitInv
<1>2. /\ H = {d \in Channels : d[1] = w /\ d[3] = "max"} /\ H \in SUBSET Channels
      /\ \A v \in Neighbors(w) : zone[v] = Internal(w, v)
  BY OfChannel DEF SendChannels
<1> HIDE DEF zone
<1>3. IsBox(messages') /\ Extended(messages, messages', H, block)
  BY <1>1, IsendSends
<1>4. IsBox(messages) /\ DataOf(messages, c) /\ H \in SUBSET Channels
  BY <1>1, <1>2 DEF TypeInv, CopyInv, DataInv
<1> HIDE DEF H, block
<1>5. CASE c \notin H
  BY <1>3, <1>4, <1>5 DEF Extended, DataOf, MaxData, ValueData
<1>6. CASE c \in H
  <2>1. c[1] = w /\ c[3] = "max" /\ c[2] \in Neighbors(w) /\ zone[c[2]] = Internal(c[1], c[2])
    BY <1>2, <1>6, OfChannel
  <2>2. Len(messages[c]) = 0
    <3>1. Len(messages[c]) = NumRasters * SentOn(c)
      BY DEF FitInv, LengthInv
    <3>2. SentOn(c) = 0
      BY <1>1, <2>1 DEF SentOn, MaxSent
    <3> QED
      BY <3>1, <3>2, RastersAssumption
  <2>3. ASSUME NEW n \in DOMAIN messages'[c], NEW x \in CellsIn(Internal(c[1], c[2]))
        PROVE  messages'[c][n].data[x] = OwnMaximum[n][x]
    <3>1. \/ n \in DOMAIN messages[c] /\ messages'[c][n] = messages[c][n]
          \/ \E r \in Rasters : n = Len(messages[c]) + r /\ messages'[c][n] = block[c][r]
      BY <1>3, <1>4, <1>6, NewElements
    <3>2. PICK S : messages[c] \in Seq(S)
      BY <1>4, BoxElements
    <3>3. PICK r \in Rasters : n = r /\ messages'[c][n] = block[c][r]
      <4>1. DOMAIN messages[c] = {}
        BY <2>2, <3>2
      <4>2. \A r \in Rasters : Len(messages[c]) + r = r
        BY <2>2, RastersAssumption DEF Rasters
      <4> QED
        BY <3>1, <4>1, <4>2
    <3>4. block[c][r].data[x] = maxima[w][r][x]
      BY <1>6, <2>1, <2>3 DEF H, block, SentBlock
    <3>5. maxima[w][r][x] = OwnMaximum[r][x]
      BY <2>1, <2>3, SentCells DEF CopyInv, WorldsInv, WorldPart, OwnPart, Right
    <3> QED
      BY <3>3, <3>4, <3>5
  <2> QED
    BY <2>1, <2>3 DEF DataOf, MaxData
<1> QED
  BY <1>5, <1>6

LEMMA SendData ==
    ASSUME FitInv, CopyInv, NEW w \in Worlds, sendOverlapZones(w), NEW c \in Channels
    PROVE  DataOf(messages', c)
<1> DEFINE zone == [v \in SendTo(w, sectionIndex[w]) |->
                        IF label[w] = "sendZone" THEN Zone(w, v, sectionIndex[w]) ELSE Internal(w, v)]
           H == SendChannels(w, DOMAIN zone, "value")
           block == SentBlock(w, zone, "value", values)
<1>1. /\ Isend(w, zone, "value", values) /\ DOMAIN zone \subseteq Neighbors(w)
      /\ label[w] \in {"send", "sendAll", "sendZone"} /\ TypeInv
  BY DEF sendOverlapZones, SendTo, FitInv
<1>2. /\ H = {d \in Channels : d[1] = w /\ d[2] \in SendTo(w, sectionIndex[w]) /\ d[3] = "value"}
      /\ H \in SUBSET Channels
      /\ label[w] = "send" => \A v \in SendTo(w, sectionIndex[w]) : zone[v] = Internal(w, v)
  BY DEF SendChannels
<1> HIDE DEF zone
<1>3. IsBox(messages') /\ Extended(messages, messages', H, block)
  BY <1>1, IsendSends
<1>4. IsBox(messages) /\ DataOf(messages, c)
  BY <1>1 DEF TypeInv, CopyInv, DataInv
<1> HIDE DEF H, block
<1>5. CASE c \notin H
  BY <1>3, <1>4, <1>5 DEF Extended, DataOf, MaxData, ValueData
<1>6. CASE c \in H
  <2>1. /\ c[1] = w /\ c[3] = "value" /\ needsToBeUpdated(c[1], c[2], sectionIndex[w])
        /\ c[2] \in SendTo(w, sectionIndex[w])
    BY <1>2, <1>6 DEF SendTo
  <2>2. Len(messages[c]) = NumRasters * Turn(c[1], c[2], Round(w), sectionIndex[w])
    <3>1. Len(messages[c]) = NumRasters * Sent(c[1], c[2])
      BY <2>1 DEF FitInv, LengthInv, SentOn
    <3>2. Turn(c[1], c[2], Round(w), sectionIndex[w]) \in Nat
      BY <1>1, TurnType DEF TypeInv, Round
    <3>3. label[w] \notin SentLabels
      BY <1>1 DEF SentLabels
    <3>4. Sent(c[1], c[2]) = Turn(c[1], c[2], Round(w), sectionIndex[w])
      BY <2>1, <3>2, <3>3 DEF Sent
    <3> QED
      BY <3>1, <3>4
  <2>3. ASSUME NEW n \in DOMAIN messages'[c], NEW s \in Sections, NEW q \in Rasters,
               needsToBeUpdated(c[1], c[2], s), n = Number(c[1], c[2], 0, s, q),
               NEW x \in CellsIn(Internal(c[1], c[2]))
        PROVE  messages'[c][n].data[x] = OwnValue[q][x]
    <3>1. \/ n \in DOMAIN messages[c] /\ messages'[c][n] = messages[c][n]
          \/ \E r \in Rasters : n = Len(messages[c]) + r /\ messages'[c][n] = block[c][r]
      BY <1>2, <1>3, <1>4, <1>6, NewElements
    <3>2. CASE n \in DOMAIN messages[c] /\ messages'[c][n] = messages[c][n]
      BY <1>4, <2>1, <2>3, <3>2 DEF DataOf, ValueData
    <3>3. ASSUME NEW r \in Rasters, n = Len(messages[c]) + r, messages'[c][n] = block[c][r]
          PROVE  messages'[c][n].data[x] = OwnValue[q][x]
      <4> DEFINE a == c[1]
                 b == c[2]
                 k == Round(w)
                 t == sectionIndex[w]
      <4>1. /\ needsToBeUpdated(a, b, s) /\ needsToBeUpdated(a, b, t)
            /\ Number(a, b, 0, s, q) = Number(a, b, k, t, r)
            /\ k \in Nat /\ t \in Sections
        BY <1>1, <2>1, <2>2, <2>3, <3>3 DEF Number, TypeInv, Round
      <4> HIDE DEF a, b, k, t
      <4>2. 0 = k /\ s = t /\ q = r
        BY <4>1, NumberIsUnique
      <4>3. label[w] = "send"
        BY <1>1, <4>2 DEF k, Round, StartLabels, SectionLabels, TypeInv
      <4>4. zone[c[2]] = Internal(c[1], c[2])
        BY <1>2, <2>1, <4>3
      <4>5. block[c][r].data[x] = values[w][r][x]
        BY <1>6, <2>3, <4>4 DEF H, block, SentBlock
      <4>6. values[w][r][x] = OwnValue[r][x]
        BY <2>1, <2>3, <4>3, SentCells DEF CopyInv, WorldsInv, WorldPart, OwnPart, Right, StartLabels
      <4> QED
        BY <3>3, <4>2, <4>5, <4>6
    <3> QED
      BY <3>1, <3>2, <3>3
  <2> QED
    BY <2>1, <2>3 DEF DataOf, ValueData
<1> QED
  BY <1>5, <1>6

LEMMA HeadRequest ==
    ASSUME NEW w, NEW tag, NEW others, NEW base, NEW requests \in Requests, requests # <<>>,
           NEW field, NEW own, Waiting(w, tag, others, base, requests, field, own)
    PROVE  \E v \in others, r \in Rasters : Head(requests) = <<<<v, w, tag>>, base[v] + r>>
<1>1. 1 \in DOMAIN requests /\ Head(requests) = requests[1]
  BY DEF Requests
<1> QED
  BY <1>1 DEF Waiting

LEMMA BasesType ==
    ASSUME NEW w \in Worlds, NEW s \in Sections
    PROVE  MaxBase(w) \in [Neighbors(w) -> Nat] /\ ValueBase(w, s) \in [Neighbors(w) -> Nat]
<1>1. ASSUME NEW v \in Neighbors(w) PROVE NumRasters * Turn(v, w, 0, s) \in Nat
  BY TurnType, RastersAssumption
<1> QED
  BY <1>1 DEF MaxBase, ValueBase

(* A maximum that comes in is one more that is right.                      *)
LEMMA MaxReceived ==
    ASSUME NEW w \in Worlds, NEW s \in Sections, NEW k, NEW vals, NEW max,
           NEW requests \in Requests, requests # <<>>,
           WorldPart(w, "clearMax", s, k, vals, max, requests),
           NEW v \in Neighbors(w), NEW r \in Rasters, Head(requests) = <<<<v, w, "max">>, MaxBase(w)[v] + r>>,
           NEW data, \A x \in CellsIn(Internal(v, w)) : data[x] = OwnMaximum[r][x]
    PROVE  WorldPart(w, "clearMax", s, k, vals, Update(max, r, Internal(v, w), data), Tail(requests))
<1> DEFINE new == Update(max, r, Internal(v, w), data)
<1>1. Shape(w, new) /\ Improves(w, max, new, OwnMaximum, v, r)
  BY UpdateImproves DEF WorldPart
<1> HIDE DEF new
<1>2. Waiting(w, "max", Neighbors(w), MaxBase(w), Tail(requests), new, OwnMaximum)
  <2>1. Waiting(w, "max", Neighbors(w), MaxBase(w), requests, max, OwnMaximum)
    BY DEF WorldPart, MaxPart
  <2> QED
    BY <1>1, <2>1, BasesType, Received
<1>3. ASSUME NEW u \in Rasters PROVE Right(new, OwnMaximum, u, OwnCells[w])
  BY <1>1, CellsHeld, RightKept DEF WorldPart, OwnPart
<1>4. OwnPart(w, "clearMax", vals, new)
  BY <1>3 DEF WorldPart, OwnPart
<1>5. MaxPart(w, "clearMax", new, Tail(requests))
  BY <1>2 DEF MaxPart
<1>6. ValuePart(w, "clearMax", s, vals, Tail(requests)) /\ GrowthPart(w, "clearMax", k, vals)
  BY DEF WorldPart, ValuePart, GrowthPart
<1>7. Shape(w, vals)
  BY DEF WorldPart
<1> QED
  BY <1>1, <1>4, <1>5, <1>6, <1>7 DEF WorldPart, new

(* And so is a value.                                                      *)
LEMMA ValueReceived ==
    ASSUME NEW w \in Worlds, NEW s \in Sections, NEW k, NEW vals, NEW max,
           NEW requests \in Requests, requests # <<>>,
           WorldPart(w, "clear", s, k, vals, max, requests),
           NEW v \in ReceiveFrom(w, s), NEW r \in Rasters,
           Head(requests) = <<<<v, w, "value">>, ValueBase(w, s)[v] + r>>,
           NEW data, \A x \in CellsIn(Internal(v, w)) : data[x] = OwnValue[r][x]
    PROVE  WorldPart(w, "clear", s, k, Update(vals, r, Internal(v, w), data), max, Tail(requests))
<1> DEFINE new == Update(vals, r, Internal(v, w), data)
<1>0. ReceiveFrom(w, s) \in SUBSET Neighbors(w) /\ v \in Neighbors(w)
  BY DEF ReceiveFrom
<1>1. Shape(w, new) /\ Improves(w, vals, new, OwnValue, v, r)
  BY <1>0, UpdateImproves DEF WorldPart
<1> HIDE DEF new
<1>2. Waiting(w, "value", ReceiveFrom(w, s), ValueBase(w, s), Tail(requests), new, OwnValue)
  <2>1. Waiting(w, "value", ReceiveFrom(w, s), ValueBase(w, s), requests, vals, OwnValue)
    BY DEF WorldPart, ValuePart
  <2> QED
    BY <1>0, <1>1, <2>1, BasesType, Received
<1>3. ASSUME NEW u \in Rasters PROVE Right(new, OwnValue, u, OwnCells[w])
  BY <1>1, CellsHeld, RightKept DEF WorldPart, OwnPart, StartLabels
<1>4. OwnPart(w, "clear", new, max)
  BY <1>3 DEF WorldPart, OwnPart
<1>5. ASSUME NEW t \in Sections, t < s, NEW u \in ReceiveFrom(w, t), NEW q \in Rasters
      PROVE  Right(new, OwnValue, q, CopyCells[w][u])
  <2>1. Right(vals, OwnValue, q, CopyCells[w][u])
    BY <1>5 DEF WorldPart, ValuePart
  <2>2. CopyCells[w][u] \subseteq HeldCells[w]
    BY CellsHeld DEF ReceiveFrom
  <2> QED
    BY <1>1, <2>1, <2>2, RightKept
<1>6. ValuePart(w, "clear", s, new, Tail(requests))
  BY <1>2, <1>5 DEF ValuePart
<1>7. MaxPart(w, "clear", max, Tail(requests)) /\ GrowthPart(w, "clear", k, new)
  BY DEF WorldPart, MaxPart, GrowthPart, StartLabels
<1>8. Shape(w, max)
  BY DEF WorldPart
<1> QED
  BY <1>1, <1>4, <1>6, <1>7, <1>8 DEF WorldPart, new

(* The message for a receive of clearRequests                              *)
LEMMA MaxMessage ==
    ASSUME FitInv, CopyInv, NEW w \in Worlds, label[w] = "clearMax", NEW v \in Neighbors(w),
           NEW r \in Rasters, NEW c, c = <<v, w, "max">>, r =< Len(messages[c])
    PROVE  /\ posted[c][r].raster = r /\ posted[c][r].zone = Internal(v, w)
           /\ \A x \in CellsIn(Internal(v, w)) : messages[c][r].data[x] = OwnMaximum[r][x]
<1>1. c \in Channels /\ c[1] = v /\ c[2] = w /\ c[3] = "max"
  BY ChannelOf
<1>2. IsBox(messages) /\ IsBox(posted)
  BY DEF FitInv, TypeInv
<1>3. PICK S : messages[c] \in Seq(S)
  BY <1>1, <1>2, BoxElements
<1>4. PICK T : posted[c] \in Seq(T)
  BY <1>1, <1>2, BoxElements
<1>5. r \in DOMAIN posted[c]
  <2>1. Len(posted[c]) = NumRasters * PostedOn(c)
    BY <1>1 DEF FitInv, LengthInv
  <2>2. PostedOn(c) = 1
    BY <1>1 DEF PostedOn, MaxGot
  <2>3. Len(posted[c]) = NumRasters
    BY <2>1, <2>2, RastersAssumption
  <2> QED
    BY <1>4, <2>3 DEF Rasters
<1>6. r \in DOMAIN messages[c]
  BY <1>3 DEF Rasters
<1>7. MaxHeaders(posted, c)
  BY <1>1 DEF FitInv, HeaderInv, HeadersOf
<1>8. MaxData(messages, c)
  BY <1>1 DEF CopyInv, DataInv, DataOf
<1> QED
  BY <1>1, <1>5, <1>6, <1>7, <1>8 DEF MaxHeaders, MaxData, Header

LEMMA ValueMessage ==
    ASSUME FitInv, CopyInv, NEW w \in Worlds, label[w] = "clear", NEW v \in ReceiveFrom(w, sectionIndex[w]),
           NEW r \in Rasters, NEW c, c = <<v, w, "value">>,
           NEW n, n = Number(v, w, 0, sectionIndex[w], r), n =< Len(messages[c])
    PROVE  /\ posted[c][n].raster = r /\ posted[c][n].zone = Internal(v, w)
           /\ \A x \in CellsIn(Internal(v, w)) : messages[c][n].data[x] = OwnValue[r][x]
<1> DEFINE s == sectionIndex[w]
<1>0. v \in Neighbors(w) /\ v \in Worlds /\ w \in Neighbors(v) /\ s \in Sections /\ TypeInv
  BY NeighborsSymmetric DEF ReceiveFrom, FitInv, TypeInv
<1> HIDE DEF s
<1>1. c \in Channels /\ c[1] = v /\ c[2] = w /\ c[3] = "value"
  BY <1>0, ChannelOf
<1>2. IsBox(messages) /\ IsBox(posted)
  BY <1>0 DEF TypeInv
<1>3. PICK S : messages[c] \in Seq(S)
  BY <1>1, <1>2, BoxElements
<1>4. PICK T : posted[c] \in Seq(T)
  BY <1>1, <1>2, BoxElements
<1>5. needsToBeUpdated(v, w, s)
  BY <1>0, SendersAndReceivers DEF s
<1> DEFINE m == Turn(v, w, 0, s)
<1>6. m \in Nat /\ NumRasters * m \in Nat
  BY <1>0, TurnType, RastersAssumption
<1>7. n = NumRasters * m + r
  BY DEF Number, s
<1>8. Len(posted[c]) = NumRasters * (m + 1)
  <2>1. Len(posted[c]) = NumRasters * PostedOn(c)
    BY <1>1 DEF FitInv, LengthInv
  <2>2. PostedOn(c) = Got(w, v)
    BY <1>1 DEF PostedOn
  <2>3. Got(w, v) = m + 1
    BY <1>5, <1>6 DEF Got, GotLabels, Round, StartLabels, Use, s
  <2> QED
    BY <2>1, <2>2, <2>3
<1> HIDE DEF m
<1>9. n \in DOMAIN posted[c] /\ n \in DOMAIN messages[c]
  <2>1. Len(posted[c]) = NumRasters * m + NumRasters
    BY <1>6, <1>8, OneMore
  <2>2. n \in Nat /\ n >= 1 /\ n =< NumRasters * m + NumRasters
    BY <1>6, <1>7, RastersAssumption DEF Rasters
  <2> QED
    BY <1>3, <1>4, <2>1, <2>2
<1>10. ValueHeaders(posted, c) /\ ValueData(messages, c)
  BY <1>1 DEF FitInv, HeaderInv, HeadersOf, CopyInv, DataInv, DataOf
<1>11. \A x \in CellsIn(Internal(v, w)) : messages[c][n].data[x] = OwnValue[r][x]
  BY <1>0, <1>1, <1>5, <1>9, <1>10 DEF ValueData, s
<1>12. PICK q \in Nat, t \in Sections, u \in Rasters :
          /\ needsToBeUpdated(v, w, t)
          /\ n = Number(v, w, q, t, u)
          /\ Header(posted[c][n], u, Script(v, w, q, t))
  BY <1>1, <1>9, <1>10 DEF ValueHeaders
<1>13. q = 0 /\ t = s /\ u = r
  <2>1. Number(v, w, q, t, u) = Number(v, w, 0, s, r)
    BY <1>12 DEF s
  <2> QED
    BY <1>0, <1>5, <1>12, <2>1, NumberIsUnique
<1>14. Script(v, w, q, t) = Internal(v, w)
  BY <1>13 DEF Script
<1> QED
  BY <1>11, <1>12, <1>13, <1>14 DEF Header

LEMMA WrittenCopies ==
    ASSUME NEW field, DOMAIN field = Worlds, NEW w \in Worlds, NEW p, NEW data
    PROVE  /\ Written(field, w, p, data)[w] = Update(field[w], p.raster, p.zone, data)
           /\ \A u \in Worlds \ {w} : Written(field, w, p, data)[u] = field[u]
           /\ DOMAIN Written(field, w, p, data) = Worlds
BY DEF Written, Update

\* Only the data of w changes, and its receive requests.
OnlyOf(w) ==
    /\ DOMAIN values' = Worlds /\ DOMAIN maxima' = Worlds
    /\ \A u \in Worlds : u # w =>
          /\ label'[u] = label[u] /\ sectionIndex'[u] = sectionIndex[u] /\ step'[u] = step[u]
          /\ values'[u] = values[u] /\ maxima'[u] = maxima[u] /\ receiveRequests'[u] = receiveRequests[u]

PartOf(w) == WorldPart(w, label[w], sectionIndex[w], step[w], values[w], maxima[w], receiveRequests[w])

LEMMA TestReceiveCopies ==
    ASSUME FitInv, CopyInv, NEW w \in Worlds, TestReceive(w)
    PROVE  OnlyOf(w) /\ PartOf(w)'
<1> DEFINE requests == receiveRequests[w]
           request == Head(requests)
           p == posted[request[1]][request[2]]
           data == messages[request[1]][request[2]].data
           s == sectionIndex[w]
<1>1. /\ label[w] \in {"clearMax", "clear"}
      /\ requests # <<>> /\ Completed(messages, request)
      /\ label' = IF Throws(w, p, data) THEN [label EXCEPT ![w] = "exception"] ELSE label
      /\ values' = IF label[w] = "clear" /\ ~Throws(w, p, data) THEN Written(values, w, p, data) ELSE values
      /\ maxima' = IF label[w] = "clearMax" THEN Written(maxima, w, p, data) ELSE maxima
      /\ receiveRequests' = [receiveRequests EXCEPT ![w] = Tail(@)]
      /\ UNCHANGED <<sectionIndex, step, messages, posted, sendRequests>>
  BY DEF TestReceive, Clearing
<1>2. /\ DOMAIN values = Worlds /\ DOMAIN maxima = Worlds
      /\ WorldPart(w, label[w], s, step[w], values[w], maxima[w], requests)
  BY DEF CopyInv, WorldsInv
<1>3. /\ requests \in Requests /\ s \in Sections
      /\ receiveRequests'[w] = Tail(requests)
      /\ \A u \in Worlds : u # w => receiveRequests'[u] = receiveRequests[u]
      /\ label \in [Worlds -> Labels]
  BY <1>1 DEF FitInv, TypeInv
<1> HIDE DEF requests
<1>4. CASE label[w] = "clearMax"
  <2>1. Waiting(w, "max", Neighbors(w), MaxBase(w), requests, maxima[w], OwnMaximum)
    BY <1>2, <1>4 DEF WorldPart, MaxPart
  <2>2. PICK v \in Neighbors(w), r \in Rasters : request = <<<<v, w, "max">>, MaxBase(w)[v] + r>>
    BY <1>1, <1>3, <2>1, HeadRequest
  <2>3. request[1] = <<v, w, "max">> /\ request[2] = r
    BY <2>2 DEF MaxBase, Rasters
  <2>4. /\ p.raster = r /\ p.zone = Internal(v, w)
        /\ \A x \in CellsIn(Internal(v, w)) : data[x] = OwnMaximum[r][x]
    <3> DEFINE c == <<v, w, "max">>
    <3>1. p = posted[c][r] /\ data = messages[c][r].data /\ r =< Len(messages[c])
      BY <1>1, <2>3 DEF Completed
    <3>2. c = <<v, w, "max">>
      OBVIOUS
    <3> HIDE DEF c, p, data, request
    <3>3. /\ posted[c][r].raster = r /\ posted[c][r].zone = Internal(v, w)
          /\ \A x \in CellsIn(Internal(v, w)) : messages[c][r].data[x] = OwnMaximum[r][x]
      BY <1>4, <3>1, <3>2, MaxMessage
    <3> QED
      BY <3>1, <3>3
  <2>5. label' = label /\ values' = values /\ maxima' = Written(maxima, w, p, data)
    BY <1>1, <1>4 DEF Throws
  <2> HIDE DEF p, data
  <2>6. /\ maxima'[w] = Update(maxima[w], r, Internal(v, w), data)
        /\ \A u \in Worlds : u # w => maxima'[u] = maxima[u]
        /\ DOMAIN maxima' = Worlds
    BY <1>2, <2>4, <2>5, WrittenCopies
  <2>7. WorldPart(w, "clearMax", s, step[w], values[w], Update(maxima[w], r, Internal(v, w), data), Tail(requests))
    <3>1. WorldPart(w, "clearMax", s, step[w], values[w], maxima[w], requests)
      BY <1>2, <1>4
    <3> QED
      BY <1>1, <1>3, <2>2, <2>4, <3>1, MaxReceived
  <2>8. PartOf(w)'
    BY <1>1, <1>3, <1>4, <2>5, <2>6, <2>7 DEF PartOf
  <2> QED
    BY <1>1, <1>2, <1>3, <2>5, <2>6, <2>8 DEF OnlyOf
<1>5. CASE label[w] = "clear"
  <2>0. ReceiveFrom(w, s) \subseteq Neighbors(w)
    BY DEF ReceiveFrom
  <2>1. Waiting(w, "value", ReceiveFrom(w, s), ValueBase(w, s), requests, values[w], OwnValue)
    BY <1>2, <1>5 DEF WorldPart, ValuePart
  <2>2. PICK v \in ReceiveFrom(w, s), r \in Rasters : request = <<<<v, w, "value">>, ValueBase(w, s)[v] + r>>
    BY <1>1, <1>3, <2>1, HeadRequest
  <2>3. request[1] = <<v, w, "value">> /\ request[2] = Number(v, w, 0, s, r)
    BY <2>0, <2>2 DEF ValueBase, Number
  <2>4. /\ p.raster = r /\ p.zone = Internal(v, w)
        /\ \A x \in CellsIn(Internal(v, w)) : data[x] = OwnValue[r][x]
    <3> DEFINE c == <<v, w, "value">>
               n == Number(v, w, 0, s, r)
    <3>1. p = posted[c][n] /\ data = messages[c][n].data /\ n =< Len(messages[c])
      BY <1>1, <2>3 DEF Completed
    <3>2. c = <<v, w, "value">> /\ n = Number(v, w, 0, s, r)
      OBVIOUS
    <3> HIDE DEF c, n, p, data, request
    <3>3. /\ posted[c][n].raster = r /\ posted[c][n].zone = Internal(v, w)
          /\ \A x \in CellsIn(Internal(v, w)) : messages[c][n].data[x] = OwnValue[r][x]
      BY <1>5, <3>1, <3>2, ValueMessage
    <3> QED
      BY <3>1, <3>3
  <2> HIDE DEF p, data
  <2>5. ~Throws(w, p, data)
    <3> SUFFICES ASSUME NEW x \in CellsIn(Internal(v, w)), data[x] > maxima[w][r][x] PROVE FALSE
      BY <2>4 DEF Throws
    <3>1. v \in Worlds /\ w \in Neighbors(v)
      BY <2>0, NeighborsSymmetric
    <3>2. x \in CopyCells[w][v]
      BY <3>1, ZonesMatch
    <3>3. x \in Cells
      BY <2>0, <3>1, <3>2, CellsHeld, OwnCellsAreCells
    <3>4. maxima[w][r][x] = OwnMaximum[r][x]
      BY <1>2, <1>5, <2>0, <3>2 DEF WorldPart, MaxPart, Right
    <3>5. OwnMaximum[r][x] \in 0 .. MaxValue /\ OwnValue[r][x] \in 0 .. OwnMaximum[r][x]
      BY <3>3, ValuesAssumption
    <3>6. data[x] = OwnValue[r][x]
      BY <2>4
    <3> QED
      BY <3>4, <3>5, <3>6, RastersAssumption
  <2>6. label' = label /\ values' = Written(values, w, p, data) /\ maxima' = maxima
    BY <1>1, <1>5, <2>5 DEF p, data
  <2>7. /\ values'[w] = Update(values[w], r, Internal(v, w), data)
        /\ \A u \in Worlds : u # w => values'[u] = values[u]
        /\ DOMAIN values' = Worlds
    BY <1>2, <2>4, <2>6, WrittenCopies
  <2>8. WorldPart(w, "clear", s, step[w], Update(values[w], r, Internal(v, w), data), maxima[w], Tail(requests))
    <3>1. WorldPart(w, "clear", s, step[w], values[w], maxima[w], requests)
      BY <1>2, <1>5
    <3> QED
      BY <1>1, <1>3, <2>2, <2>4, <3>1, ValueReceived
  <2>9. PartOf(w)'
    BY <1>1, <1>3, <1>5, <2>6, <2>7, <2>8 DEF PartOf
  <2> QED
    BY <1>1, <1>2, <1>3, <2>6, <2>7, <2>9 DEF OnlyOf
<1> QED
  BY <1>1, <1>4, <1>5

(* The labels of the initial exchange                                      *)
LEMMA StartMoves ==
    ASSUME NEW w \in Worlds, NEW l, NEW m, NEW s, NEW k, NEW vals, NEW max, NEW requests, NEW others,
           WorldPart(w, l, s, k, vals, max, requests),
           \/ l = "sendMax" /\ m = "receiveMax"
           \/ l = "send" /\ m = "receive"
    PROVE  WorldPart(w, m, s, k, vals, max, others)
<1>1. m # "exception" /\ Shape(w, vals) /\ Shape(w, max)
  BY DEF WorldPart
<1>2. OwnPart(w, m, vals, max)
  BY DEF WorldPart, OwnPart, StartLabels
<1>3. MaxPart(w, m, max, others)
  BY DEF WorldPart, MaxPart
<1>4. ValuePart(w, m, s, vals, others)
  BY DEF WorldPart, ValuePart
<1>5. GrowthPart(w, m, k, vals)
  BY DEF GrowthPart, StartLabels
<1> QED
  BY <1>1, <1>2, <1>3, <1>4, <1>5 DEF WorldPart

(* Those of the steps: what a world holds depends only on how often the    *)
(* environment has been run.                                               *)
LEMMA LoopMoves ==
    ASSUME NEW w \in Worlds, NEW l, NEW m, NEW s, NEW t, NEW k, NEW j, NEW vals, NEW max,
           NEW requests, NEW others, WorldPart(w, l, s, k, vals, max, requests),
           l \notin StartLabels, m \notin StartLabels \union {"exception"}, Grows(m, j) = Grows(l, k)
    PROVE  WorldPart(w, m, t, j, vals, max, others)
<1>1. m # "exception" /\ Shape(w, vals) /\ Shape(w, max)
  BY DEF WorldPart
<1>2. OwnPart(w, m, vals, max)
  BY DEF WorldPart, OwnPart
<1>3. MaxPart(w, m, max, others)
  BY DEF WorldPart, MaxPart, StartLabels
<1>4. ValuePart(w, m, t, vals, others)
  BY DEF ValuePart, StartLabels
<1>5. GrowthPart(w, m, j, vals)
  BY DEF WorldPart, GrowthPart
<1> QED
  BY <1>1, <1>2, <1>3, <1>4, <1>5 DEF WorldPart

(* All that is expected is waited for.                                     *)
LEMMA WaitingStarts ==
    ASSUME NEW w, NEW tag, NEW others, NEW base, NEW requests, NEW box, NEW field, NEW own,
           RequestsFor(w, others, tag, requests, box),
           \A v \in others : base[v] = Len(box[<<v, w, tag>>])
    PROVE  Waiting(w, tag, others, base, requests, field, own)
BY DEF RequestsFor, Waiting, Listed

LEMMA MaxExpected ==
    ASSUME NEW w \in Worlds, NEW s, NEW k, NEW vals, NEW max, NEW requests, NEW others,
           WorldPart(w, "receiveMax", s, k, vals, max, requests),
           Waiting(w, "max", Neighbors(w), MaxBase(w), others, max, OwnMaximum)
    PROVE  WorldPart(w, "clearMax", s, k, vals, max, others)
<1>1. Shape(w, vals) /\ Shape(w, max)
  BY DEF WorldPart
<1>2. OwnPart(w, "clearMax", vals, max)
  BY DEF WorldPart, OwnPart, StartLabels
<1>3. MaxPart(w, "clearMax", max, others)
  BY DEF MaxPart
<1>4. ValuePart(w, "clearMax", s, vals, others)
  BY DEF ValuePart
<1>5. GrowthPart(w, "clearMax", k, vals)
  BY DEF GrowthPart, StartLabels
<1> QED
  BY <1>1, <1>2, <1>3, <1>4, <1>5 DEF WorldPart

LEMMA ValueExpected ==
    ASSUME NEW w \in Worlds, NEW s, NEW k, NEW vals, NEW max, NEW requests, NEW others,
           WorldPart(w, "receive", s, k, vals, max, requests),
           Waiting(w, "value", ReceiveFrom(w, s), ValueBase(w, s), others, vals, OwnValue)
    PROVE  WorldPart(w, "clear", s, k, vals, max, others)
<1>1. Shape(w, vals) /\ Shape(w, max)
  BY DEF WorldPart
<1>2. OwnPart(w, "clear", vals, max)
  BY DEF WorldPart, OwnPart, StartLabels
<1>3. MaxPart(w, "clear", max, others)
  BY DEF WorldPart, MaxPart
<1>4. ValuePart(w, "clear", s, vals, others)
  BY DEF WorldPart, ValuePart
<1>5. GrowthPart(w, "clear", k, vals)
  BY DEF GrowthPart, StartLabels
<1> QED
  BY <1>1, <1>2, <1>3, <1>4, <1>5 DEF WorldPart

(* What is no longer waited for is right.                                  *)
LEMMA NothingWaitedFor ==
    ASSUME NEW w, NEW tag, NEW others, NEW base, NEW field, NEW own,
           Waiting(w, tag, others, base, <<>>, field, own)
    PROVE  \A v \in others, r \in Rasters : Right(field, own, r, CopyCells[w][v])
BY DEF Waiting, Listed

LEMMA ClearedMoves ==
    ASSUME NEW w \in Worlds, NEW l, NEW m, NEW s, NEW k, NEW vals, NEW max, NEW requests,
           WorldPart(w, l, s, k, vals, max, requests), requests = <<>>,
           \/ l = "clearMax" /\ m = "barrierMax"
           \/ l = "clear" /\ m = "barrier"
    PROVE  WorldPart(w, m, s, k, vals, max, requests)
<1>1. m # "exception" /\ Shape(w, vals) /\ Shape(w, max)
  BY DEF WorldPart
<1>2. OwnPart(w, m, vals, max)
  BY DEF WorldPart, OwnPart, StartLabels
<1>3. MaxPart(w, m, max, requests)
  <2>1. CASE l = "clearMax" /\ m = "barrierMax"
    <3>1. Waiting(w, "max", Neighbors(w), MaxBase(w), <<>>, max, OwnMaximum)
      BY <2>1 DEF WorldPart, MaxPart
    <3> QED
      BY <2>1, <3>1, NothingWaitedFor DEF MaxPart
  <2>2. CASE l = "clear" /\ m = "barrier"
    BY <2>2 DEF WorldPart, MaxPart
  <2> QED
    BY <2>1, <2>2
<1>4. ValuePart(w, m, s, vals, requests)
  <2>1. CASE l = "clearMax" /\ m = "barrierMax"
    BY <2>1 DEF ValuePart
  <2>2. CASE l = "clear" /\ m = "barrier"
    <3>1. Waiting(w, "value", ReceiveFrom(w, s), ValueBase(w, s), <<>>, vals, OwnValue)
      BY <2>2 DEF WorldPart, ValuePart
    <3>2. \A v \in ReceiveFrom(w, s), r \in Rasters : Right(vals, OwnValue, r, CopyCells[w][v])
      BY <3>1, NothingWaitedFor
    <3>3. ASSUME NEW t \in Sections, t < s, NEW v \in ReceiveFrom(w, t), NEW r \in Rasters
          PROVE  Right(vals, OwnValue, r, CopyCells[w][v])
      BY <2>2, <3>3 DEF WorldPart, ValuePart
    <3> QED
      BY <2>2, <3>2, <3>3 DEF ValuePart
  <2> QED
    BY <2>1, <2>2
<1>5. GrowthPart(w, m, k, vals)
  BY DEF GrowthPart, StartLabels
<1> QED
  BY <1>1, <1>2, <1>3, <1>4, <1>5 DEF WorldPart

(* After the last section all copies have come in, and what the worlds     *)
(* hold is what the environment has made of it in no step at all.          *)
LEMMA BarrierMoves ==
    ASSUME NEW w \in Worlds, NEW l, NEW m, NEW s \in Sections, NEW t \in Sections, NEW vals, NEW max,
           NEW requests, WorldPart(w, l, s, 0, vals, max, requests),
           \/ l = "barrierMax" /\ m = "send" /\ t = 0
           \/ l = "barrier" /\ s < 3 /\ m = "send" /\ t = s + 1
           \/ l = "barrier" /\ s = 3 /\ m \in {"environment", "done"}
    PROVE  WorldPart(w, m, t, 0, vals, max, requests)
<1>1. m # "exception" /\ Shape(w, vals) /\ Shape(w, max)
  BY DEF WorldPart
<1>2. OwnPart(w, m, vals, max)
  BY DEF WorldPart, OwnPart, StartLabels
<1>3. MaxPart(w, m, max, requests)
  BY DEF WorldPart, MaxPart
<1>4. ValuePart(w, m, t, vals, requests)
  <2> SUFFICES ASSUME m = "send", NEW i \in Sections, i < t, NEW v \in ReceiveFrom(w, i), NEW r \in Rasters
               PROVE  Right(vals, OwnValue, r, CopyCells[w][v])
    BY DEF ValuePart
  <2>1. l = "barrier" /\ t = s + 1
    BY DEF Sections
  <2>2. i < s \/ i = s
    BY <2>1 DEF Sections
  <2> QED
    BY <2>1, <2>2 DEF WorldPart, ValuePart
<1>5. GrowthPart(w, m, 0, vals)
  <2>0. m \notin StartLabels => Grows(m, 0) = 0
    BY DEF Grows, StartLabels
  <2> SUFFICES ASSUME m \notin StartLabels, NEW r \in Rasters
               PROVE  /\ GrownIn(vals, 0, r, OwnCells[w])
                      /\ \A v \in Neighbors(w) : GrownIn(vals, 0, r, CopyCells[w][v])
    BY <2>0 DEF GrowthPart
  <2>1. l = "barrier" /\ s = 3
    BY DEF StartLabels
  <2>2. ASSUME NEW x \in Cells PROVE Grown(r, x, 0) = OwnValue[r][x]
    <3>1. OwnMaximum[r][x] \in 0 .. MaxValue /\ OwnValue[r][x] \in 0 .. OwnMaximum[r][x]
      BY ValuesAssumption
    <3> QED
      BY <3>1, RastersAssumption DEF Grown, Lesser
  <2>3. GrownIn(vals, 0, r, OwnCells[w])
    <3>1. Right(vals, OwnValue, r, OwnCells[w])
      BY <2>1 DEF WorldPart, OwnPart, StartLabels
    <3> QED
      BY <2>2, <3>1, OwnCellsAreCells DEF Right, GrownIn
  <2>4. ASSUME NEW v \in Neighbors(w) PROVE GrownIn(vals, 0, r, CopyCells[w][v])
    <3>1. v \in Worlds /\ w \in Neighbors(v)
      BY NeighborsSymmetric
    <3>2. PICK i \in Sections : v \in ReceiveFrom(w, i)
      BY <3>1, SomeSection
    <3>3. i < s \/ i = s
      BY <2>1 DEF Sections
    <3>4. Right(vals, OwnValue, r, CopyCells[w][v])
      BY <2>1, <3>2, <3>3 DEF WorldPart, ValuePart
    <3>5. CopyCells[w][v] \subseteq Cells
      BY <3>1, CellsHeld, OwnCellsAreCells
    <3> QED
      BY <2>2, <3>4, <3>5 DEF Right, GrownIn
  <2> QED
    BY <2>3, <2>4
<1> QED
  BY <1>1, <1>2, <1>3, <1>4, <1>5 DEF WorldPart

LEMMA GrowsByOne ==
    ASSUME NEW r \in Rasters, NEW x \in Cells, NEW k \in Nat
    PROVE  Grown(r, x, k + 1) = IF Grown(r, x, k) < OwnMaximum[r][x] THEN Grown(r, x, k) + 1 ELSE Grown(r, x, k)
<1>1. OwnMaximum[r][x] \in 0 .. MaxValue /\ OwnValue[r][x] \in 0 .. OwnMaximum[r][x]
  BY ValuesAssumption
<1> QED
  BY <1>1, RastersAssumption DEF Grown, Lesser

LEMMA EnvironmentMoves ==
    ASSUME NEW w \in Worlds, NEW s, NEW k \in Nat, NEW vals, NEW max, NEW requests, NEW new,
           WorldPart(w, "environment", s, k, vals, max, requests),
           new = [r \in Rasters |-> [x \in HeldCells[w] |->
                     IF vals[r][x] < max[r][x] THEN vals[r][x] + 1 ELSE vals[r][x]]]
    PROVE  WorldPart(w, "sendAll", s, k, new, max, requests)
<1>1. Shape(w, new) /\ Shape(w, max)
  BY DEF WorldPart, Shape
<1>2. OwnPart(w, "sendAll", new, max)
  BY DEF WorldPart, OwnPart, StartLabels
<1>3. MaxPart(w, "sendAll", max, requests)
  BY DEF WorldPart, MaxPart
<1>4. ValuePart(w, "sendAll", s, new, requests)
  BY DEF ValuePart
<1>5. ASSUME NEW r \in Rasters, NEW S, S \subseteq HeldCells[w], S \subseteq Cells,
             GrownIn(vals, k, r, S), Right(max, OwnMaximum, r, S)
      PROVE  GrownIn(new, k + 1, r, S)
  <2> SUFFICES ASSUME NEW x \in S, <<r, x>> \notin Collected PROVE new[r][x] = Grown(r, x, k + 1)
    BY DEF GrownIn
  <2>1. vals[r][x] = Grown(r, x, k) /\ max[r][x] = OwnMaximum[r][x]
    BY <1>5 DEF GrownIn, Right
  <2>2. new[r][x] = IF vals[r][x] < max[r][x] THEN vals[r][x] + 1 ELSE vals[r][x]
    BY <1>5
  <2> QED
    BY <1>5, <2>1, <2>2, GrowsByOne
<1>6. GrowthPart(w, "sendAll", k, new)
  <2>1. Grows("environment", k) = k /\ Grows("sendAll", k) = k + 1
    BY DEF Grows, StartLabels
  <2>2. ASSUME NEW r \in Rasters PROVE GrownIn(new, k + 1, r, OwnCells[w])
    <3>1. GrownIn(vals, k, r, OwnCells[w])
      BY <2>1 DEF WorldPart, GrowthPart, StartLabels
    <3>2. Right(max, OwnMaximum, r, OwnCells[w])
      BY DEF WorldPart, OwnPart
    <3> QED
      BY <1>5, <3>1, <3>2, CellsHeld, OwnCellsAreCells
  <2>3. ASSUME NEW r \in Rasters, NEW v \in Neighbors(w) PROVE GrownIn(new, k + 1, r, CopyCells[w][v])
    <3>1. GrownIn(vals, k, r, CopyCells[w][v])
      BY <2>1 DEF WorldPart, GrowthPart, StartLabels
    <3>2. Right(max, OwnMaximum, r, CopyCells[w][v])
      BY DEF WorldPart, MaxPart
    <3>3. CopyCells[w][v] \subseteq HeldCells[w] /\ CopyCells[w][v] \subseteq Cells
      BY CellsHeld, OwnCellsAreCells
    <3> QED
      BY <1>5, <3>1, <3>2, <3>3
  <2> QED
    BY <2>1, <2>2, <2>3 DEF GrowthPart
<1> QED
  BY <1>1, <1>2, <1>3, <1>4, <1>6 DEF WorldPart

LEMMA SectionMoves ==
    ASSUME NEW w \in Worlds, NEW s, NEW k, NEW vals, NEW max, NEW requests, NEW new,
           WorldPart(w, "section", s, k, vals, max, requests),
           new = vals \/ \E r \in Rasters, c \in HeldCells[w] :
                             <<r, c>> \in Collected /\ new = [vals EXCEPT ![r][c] = @ - 1]
    PROVE  WorldPart(w, "exchange", s, k, new, max, requests)
<1>1. Shape(w, vals) /\ Shape(w, max)
  BY DEF WorldPart
<1>2. Shape(w, new) /\ \A u \in Rasters, x \in HeldCells[w] : <<u, x>> \notin Collected => new[u][x] = vals[u][x]
  <2>1. CASE new = vals
    BY <1>1, <2>1
  <2>2. ASSUME NEW r \in Rasters, NEW c \in HeldCells[w], <<r, c>> \in Collected,
               new = [vals EXCEPT ![r][c] = @ - 1]
        PROVE  Shape(w, new) /\ \A u \in Rasters, x \in HeldCells[w] : <<u, x>> \notin Collected => new[u][x] = vals[u][x]
    <3>1. DOMAIN vals = Rasters /\ \A u \in Rasters : DOMAIN vals[u] = HeldCells[w]
      BY <1>1 DEF Shape
    <3>2. new = [u \in Rasters |-> IF u = r THEN [vals[r] EXCEPT ![c] = @ - 1] ELSE vals[u]]
      BY <2>2, <3>1
    <3>3. new[r] = [x \in HeldCells[w] |-> IF x = c THEN vals[r][c] - 1 ELSE vals[r][x]]
      BY <3>1, <3>2
    <3>4. \A u \in Rasters : u # r => new[u] = vals[u]
      BY <3>2
    <3>5. ASSUME NEW u \in Rasters PROVE new[u] = [x \in HeldCells[w] |-> new[u][x]]
      <4>1. vals[u] = [x \in HeldCells[w] |-> vals[u][x]]
        BY <1>1 DEF Shape
      <4>2. CASE u = r
        BY <3>3, <4>2
      <4>3. CASE u # r
        BY <3>4, <4>1, <4>3
      <4> QED
        BY <4>2, <4>3
    <3>6. new = [u \in Rasters |-> new[u]]
      BY <3>2
    <3>7. Shape(w, new)
      BY <3>5, <3>6 DEF Shape
    <3>8. ASSUME NEW u \in Rasters, NEW x \in HeldCells[w], <<u, x>> \notin Collected
          PROVE  new[u][x] = vals[u][x]
      <4>1. CASE u = r
        BY <2>2, <3>3, <3>8, <4>1
      <4>2. CASE u # r
        BY <3>4, <4>2
      <4> QED
        BY <4>1, <4>2
    <3> QED
      BY <3>7, <3>8
  <2> QED
    BY <2>1, <2>2
<1>3. OwnPart(w, "exchange", new, max)
  BY DEF WorldPart, OwnPart, StartLabels
<1>4. MaxPart(w, "exchange", max, requests)
  BY DEF WorldPart, MaxPart
<1>5. ValuePart(w, "exchange", s, new, requests)
  BY DEF ValuePart
<1>6. ASSUME NEW n, NEW r \in Rasters, NEW S, S \subseteq HeldCells[w], GrownIn(vals, n, r, S)
      PROVE  GrownIn(new, n, r, S)
  BY <1>2, <1>6 DEF GrownIn
<1>7. GrowthPart(w, "exchange", k, new)
  <2>1. Grows("section", k) = Grows("exchange", k)
    BY DEF Grows, StartLabels
  <2>2. \A r \in Rasters : /\ GrownIn(vals, Grows("exchange", k), r, OwnCells[w])
                           /\ \A v \in Neighbors(w) : GrownIn(vals, Grows("exchange", k), r, CopyCells[w][v])
    BY <2>1 DEF WorldPart, GrowthPart, StartLabels
  <2> QED
    BY <1>6, <2>2, CellsHeld DEF GrowthPart
<1> QED
  BY <1>1, <1>2, <1>3, <1>4, <1>5, <1>7 DEF WorldPart

(* The posted receives of w before it posts those of a call                *)
LEMMA MaxPosts ==
    ASSUME FitInv, ClearInv, NEW w \in Worlds, receiveMaxOverlapData(w), NEW field, NEW own
    PROVE  Waiting(w, "max", Neighbors(w), MaxBase(w), receiveRequests'[w], field, own)
<1> DEFINE zone == [v \in Neighbors(w) |-> External(w, v)]
<1>1. /\ label[w] = "receiveMax" /\ Irecv(w, zone, "max") /\ TypeInv
      /\ DOMAIN zone = Neighbors(w)
  BY DEF receiveMaxOverlapData, FitInv
<1> HIDE DEF zone
<1>2. receiveRequests[w] = <<>>
  BY <1>1 DEF ClearInv, NoReceives
<1>3. RequestsFor(w, Neighbors(w), "max", receiveRequests'[w], posted)
  BY <1>1, <1>2, IrecvPosts
<1>4. ASSUME NEW v \in Neighbors(w) PROVE MaxBase(w)[v] = Len(posted[<<v, w, "max">>])
  <2> DEFINE c == <<v, w, "max">>
  <2>1. c \in Channels /\ c[2] = w /\ c[3] = "max"
    BY ChannelOf
  <2> HIDE DEF c
  <2>2. Len(posted[c]) = NumRasters * PostedOn(c)
    BY <2>1 DEF FitInv, LengthInv
  <2>3. PostedOn(c) = 0
    BY <1>1, <2>1 DEF PostedOn, MaxGot
  <2> QED
    BY <2>2, <2>3, RastersAssumption DEF MaxBase, c
<1> QED
  BY <1>3, <1>4, WaitingStarts

LEMMA ValuePosts ==
    ASSUME FitInv, ClearInv, NEW w \in Worlds, receiveOverlapData(w), label[w] = "receive", NEW field, NEW own
    PROVE  Waiting(w, "value", ReceiveFrom(w, sectionIndex[w]), ValueBase(w, sectionIndex[w]),
                   receiveRequests'[w], field, own)
<1> DEFINE s == sectionIndex[w]
           zone == [v \in ReceiveFrom(w, s) |->
                        IF label[w] = "receiveZone" THEN Zone(w, v, s) ELSE External(w, v)]
<1>1. /\ Irecv(w, zone, "value") /\ TypeInv /\ s \in Sections
      /\ DOMAIN zone = ReceiveFrom(w, s) /\ ReceiveFrom(w, s) \subseteq Neighbors(w)
  BY DEF receiveOverlapData, ReceiveFrom, FitInv, TypeInv
<1> HIDE DEF zone
<1>2. receiveRequests[w] = <<>>
  BY DEF ClearInv, NoReceives
<1>3. RequestsFor(w, ReceiveFrom(w, s), "value", receiveRequests'[w], posted)
  BY <1>1, <1>2, IrecvPosts
<1>4. ASSUME NEW v \in ReceiveFrom(w, s) PROVE ValueBase(w, s)[v] = Len(posted[<<v, w, "value">>])
  <2> DEFINE c == <<v, w, "value">>
  <2>1. c \in Channels /\ c[1] = v /\ c[2] = w /\ c[3] = "value" /\ v \in Neighbors(w)
    BY <1>1, ChannelOf
  <2> HIDE DEF c
  <2>2. Len(posted[c]) = NumRasters * PostedOn(c)
    BY <2>1 DEF FitInv, LengthInv
  <2>3. PostedOn(c) = Turn(v, w, 0, s)
    <3>1. PostedOn(c) = Got(w, v)
      BY <2>1 DEF PostedOn
    <3>2. Got(w, v) = Turn(v, w, Round(w), s)
      BY AfterReceiveCounts
    <3>3. Round(w) = 0
      BY DEF Round, StartLabels
    <3> QED
      BY <3>1, <3>2, <3>3
  <2> QED
    BY <2>1, <2>2, <2>3 DEF ValueBase, c
<1> QED
  BY <1>3, <1>4, WaitingStarts

LEMMA StepCopies ==
    ASSUME FitInv, ClearInv, CopyInv, NEW w \in Worlds, WorldStep(w) \/ TestSends(w)
    PROVE  OnlyOf(w) /\ PartOf(w)'
<1>0. /\ TypeInv /\ label \in [Worlds -> Labels] /\ sectionIndex \in [Worlds -> Sections]
      /\ step \in [Worlds -> Nat] /\ receiveRequests \in [Worlds -> Requests]
      /\ DOMAIN values = Worlds /\ DOMAIN maxima = Worlds
      /\ WorldPart(w, label[w], sectionIndex[w], step[w], values[w], maxima[w], receiveRequests[w])
  BY DEF FitInv, TypeInv, CopyInv, WorldsInv
<1>1. CASE sendMaxOverlapZones(w)
  <2>1. /\ label[w] = "sendMax" /\ label' = [label EXCEPT ![w] = "receiveMax"]
        /\ UNCHANGED <<sectionIndex, step, values, maxima, receiveRequests>>
    BY <1>1 DEF sendMaxOverlapZones, Goto
  <2>2. WorldPart(w, "receiveMax", sectionIndex[w], step[w], values[w], maxima[w], receiveRequests[w])
    BY <1>0, <2>1, StartMoves
  <2> QED
    BY <1>0, <2>1, <2>2 DEF OnlyOf, PartOf
<1>2. CASE receiveMaxOverlapData(w)
  <2>1. /\ label[w] = "receiveMax" /\ label' = [label EXCEPT ![w] = "clearMax"]
        /\ UNCHANGED <<sectionIndex, step, values, maxima>>
    BY <1>2 DEF receiveMaxOverlapData, Goto
  <2>2. \A u \in Worlds : u # w => receiveRequests'[u] = receiveRequests[u]
    BY <1>0, <1>2 DEF receiveMaxOverlapData, Irecv
  <2>3. Waiting(w, "max", Neighbors(w), MaxBase(w), receiveRequests'[w], maxima[w], OwnMaximum)
    BY <1>2, MaxPosts
  <2>4. WorldPart(w, "clearMax", sectionIndex[w], step[w], values[w], maxima[w], receiveRequests'[w])
    BY <1>0, <2>1, <2>3, MaxExpected
  <2> QED
    BY <1>0, <2>1, <2>2, <2>4 DEF OnlyOf, PartOf
<1>3. CASE sendOverlapZones(w)
  <2>1. /\ label[w] \in {"send", "sendAll", "sendZone"}
        /\ label' = [label EXCEPT ![w] = AfterSend[label[w]]]
        /\ UNCHANGED <<sectionIndex, step, values, maxima, receiveRequests>>
    BY <1>3 DEF sendOverlapZones, Goto
  <2>2. CASE label[w] = "send"
    <3>1. WorldPart(w, "receive", sectionIndex[w], step[w], values[w], maxima[w], receiveRequests[w])
      BY <1>0, <2>2, StartMoves
    <3>2. label'[w] = "receive"
      BY <1>0, <2>1, <2>2 DEF AfterSend
    <3> QED
      BY <1>0, <2>1, <3>1, <3>2 DEF OnlyOf, PartOf
  <2>3. CASE label[w] # "send"
    <3>1. label'[w] \in {"receiveAll", "receiveZone"} /\ label[w] \in {"sendAll", "sendZone"}
      BY <1>0, <2>1, <2>3 DEF AfterSend
    <3>2. Grows(label'[w], step[w]) = Grows(label[w], step[w])
      BY <3>1 DEF Grows, StartLabels
    <3>3. label[w] \notin StartLabels /\ label'[w] \notin StartLabels \union {"exception"}
      BY <3>1 DEF StartLabels
    <3>4. WorldPart(w, label'[w], sectionIndex[w], step[w], values[w], maxima[w], receiveRequests[w])
      BY <1>0, <3>2, <3>3, LoopMoves
    <3> QED
      BY <1>0, <2>1, <3>4 DEF OnlyOf, PartOf
  <2> QED
    BY <2>2, <2>3
<1>4. CASE receiveOverlapData(w)
  <2>1. /\ AfterReceive(w) /\ UNCHANGED <<values, maxima>>
        /\ \A u \in Worlds : u # w =>
              /\ label'[u] = label[u] /\ sectionIndex'[u] = sectionIndex[u] /\ step'[u] = step[u]
              /\ receiveRequests'[u] = receiveRequests[u]
    BY <1>0, <1>4 DEF receiveOverlapData, Irecv, AfterReceive, Goto
  <2>2. OnlyOf(w)
    BY <1>0, <2>1 DEF OnlyOf
  <2>3. CASE label[w] = "receive"
    <3>1. label'[w] = "clear" /\ UNCHANGED <<sectionIndex, step>>
      BY <1>0, <2>1, <2>3 DEF AfterReceive, Goto
    <3>2. Waiting(w, "value", ReceiveFrom(w, sectionIndex[w]), ValueBase(w, sectionIndex[w]),
                  receiveRequests'[w], values[w], OwnValue)
      BY <1>4, <2>3, ValuePosts
    <3>3. WorldPart(w, "clear", sectionIndex[w], step[w], values[w], maxima[w], receiveRequests'[w])
      BY <1>0, <2>3, <3>2, ValueExpected
    <3> QED
      BY <2>1, <2>2, <3>1, <3>3 DEF PartOf
  <2>4. CASE label[w] # "receive"
    <3>1. /\ label[w] \in {"receiveAll", "receiveZone"}
          /\ label'[w] \in {"sendAll", "section", "environment", "done"}
          /\ label'[w] \in {"sendAll", "section"} => step'[w] = step[w]
          /\ label'[w] \in {"environment", "done"} => step'[w] = step[w] + 1
      BY <1>0, <2>1, <2>4 DEF AfterReceive, Goto
    <3>2. Grows(label'[w], step'[w]) = Grows(label[w], step[w])
      BY <3>1 DEF Grows, StartLabels
    <3>3. label[w] \notin StartLabels /\ label'[w] \notin StartLabels \union {"exception"}
      BY <3>1 DEF StartLabels
    <3>4. WorldPart(w, label'[w], sectionIndex'[w], step'[w], values[w], maxima[w], receiveRequests'[w])
      BY <1>0, <3>2, <3>3, LoopMoves
    <3> QED
      BY <2>1, <2>2, <3>4 DEF PartOf
  <2> QED
    BY <2>3, <2>4
<1>5. CASE TestReceive(w)
  BY <1>5, TestReceiveCopies
<1>6. CASE Cleared(w)
  <2>1. /\ \/ label[w] = "clearMax" /\ label'[w] = "barrierMax"
           \/ label[w] = "clear" /\ label'[w] = "barrier"
        /\ receiveRequests[w] = <<>>
        /\ \A u \in Worlds : u # w => label'[u] = label[u]
        /\ UNCHANGED <<sectionIndex, step, values, maxima, receiveRequests>>
    BY <1>0, <1>6 DEF Cleared, Clearing, Goto
  <2>2. WorldPart(w, label'[w], sectionIndex[w], step[w], values[w], maxima[w], receiveRequests[w])
    BY <1>0, <2>1, ClearedMoves
  <2> QED
    BY <1>0, <2>1, <2>2 DEF OnlyOf, PartOf
<1>7. CASE stepEnvironment(w)
  <2>1. /\ label[w] = "environment" /\ label' = [label EXCEPT ![w] = "sendAll"]
        /\ values' = [values EXCEPT ![w] = [r \in Rasters |-> Incremented(w, r)]]
        /\ UNCHANGED <<sectionIndex, step, maxima, receiveRequests>>
    BY <1>7 DEF stepEnvironment, Goto
  <2>2. /\ values'[w] = [r \in Rasters |-> [x \in HeldCells[w] |->
               IF values[w][r][x] < maxima[w][r][x] THEN values[w][r][x] + 1 ELSE values[w][r][x]]]
        /\ DOMAIN values' = Worlds
        /\ \A u \in Worlds : u # w => values'[u] = values[u]
    BY <1>0, <2>1 DEF Incremented
  <2>3. step[w] \in Nat /\ WorldPart(w, "environment", sectionIndex[w], step[w], values[w], maxima[w], receiveRequests[w])
    BY <1>0, <2>1
  <2>4. WorldPart(w, "sendAll", sectionIndex[w], step[w], values'[w], maxima[w], receiveRequests[w])
    BY <2>2, <2>3, EnvironmentMoves
  <2> QED
    BY <1>0, <2>1, <2>2, <2>4 DEF OnlyOf, PartOf
<1>8. CASE stepSection(w)
  <2>1. /\ label[w] = "section" /\ label' = [label EXCEPT ![w] = "exchange"]
        /\ values' = values \/ \E r \in Rasters, c \in HeldCells[w] :
                <<r, c>> \in Collected /\ values' = [values EXCEPT ![w][r][c] = @ - 1]
        /\ UNCHANGED <<sectionIndex, step, maxima, receiveRequests>>
    BY <1>8 DEF stepSection, Goto
  <2>2. /\ values'[w] = values[w] \/ \E r \in Rasters, c \in HeldCells[w] :
                <<r, c>> \in Collected /\ values'[w] = [values[w] EXCEPT ![r][c] = @ - 1]
        /\ DOMAIN values' = Worlds
        /\ \A u \in Worlds : u # w => values'[u] = values[u]
    BY <1>0, <2>1
  <2>3. WorldPart(w, "section", sectionIndex[w], step[w], values[w], maxima[w], receiveRequests[w])
    BY <1>0, <2>1
  <2>4. WorldPart(w, "exchange", sectionIndex[w], step[w], values'[w], maxima[w], receiveRequests[w])
    BY <2>2, <2>3, SectionMoves
  <2> QED
    BY <1>0, <2>1, <2>2, <2>4 DEF OnlyOf, PartOf
<1>9. CASE ExchangeAgents(w)
  <2>1. /\ label[w] = "exchange" /\ label' = [label EXCEPT ![w] = "sendZone"]
        /\ UNCHANGED <<sectionIndex, step, values, maxima, receiveRequests>>
    BY <1>9 DEF ExchangeAgents, Goto
  <2>2. /\ Grows("sendZone", step[w]) = Grows("exchange", step[w])
        /\ "exchange" \notin StartLabels /\ "sendZone" \notin StartLabels \union {"exception"}
    BY DEF Grows, StartLabels
  <2>3. WorldPart(w, "sendZone", sectionIndex[w], step[w], values[w], maxima[w], receiveRequests[w])
    BY <1>0, <2>1, <2>2, LoopMoves
  <2> QED
    BY <1>0, <2>1, <2>3 DEF OnlyOf, PartOf
<1>10. CASE TestSends(w)
  <2>1. UNCHANGED <<label, sectionIndex, step, values, maxima, receiveRequests>>
    BY <1>10 DEF TestSends
  <2> QED
    BY <1>0, <2>1 DEF OnlyOf, PartOf
<1> QED
  BY <1>1, <1>2, <1>3, <1>4, <1>5, <1>6, <1>7, <1>8, <1>9, <1>10 DEF WorldStep

LEMMA BarrierCopies ==
    ASSUME FitInv, CopyInv, Barrier
    PROVE  WorldsInv'
<1>1. /\ UNCHANGED <<step, values, maxima, messages, posted, sendRequests, receiveRequests>>
      /\ DOMAIN values = Worlds /\ DOMAIN maxima = Worlds
  BY DEF Barrier, CopyInv, WorldsInv
<1>2. ASSUME NEW w \in Worlds
      PROVE  WorldPart(w, label'[w], sectionIndex'[w], step'[w], values'[w], maxima'[w], receiveRequests'[w])
  <2>1. /\ WorldPart(w, label[w], sectionIndex[w], step[w], values[w], maxima[w], receiveRequests[w])
        /\ sectionIndex \in [Worlds -> Sections]
    BY DEF CopyInv, WorldsInv, FitInv, TypeInv
  <2>2. \/ label[w] = "barrierMax" /\ label'[w] = "send" /\ sectionIndex'[w] = sectionIndex[w]
        \/ /\ label[w] = "barrier" /\ sectionIndex'[w] = Following(sectionIndex[w])
           /\ label'[w] = IF sectionIndex[w] < 3 THEN "send"
                          ELSE IF NumSteps = 0 THEN "done" ELSE "environment"
    BY DEF Barrier
  <2>3. step[w] = 0 /\ step'[w] = 0 /\ (label[w] = "barrierMax" => sectionIndex[w] = 0)
    BY <1>1, <2>2 DEF FitInv, LoopInv, StartLabels
  <2>4. /\ sectionIndex[w] \in {0, 1, 2, 3}
        /\ sectionIndex[w] < 3 => Following(sectionIndex[w]) = sectionIndex[w] + 1
        /\ Following(3) = 0
    BY <2>1 DEF Following, Sections
  <2>5. /\ sectionIndex[w] \in Sections /\ sectionIndex'[w] \in Sections
        /\ \/ label[w] = "barrierMax" /\ label'[w] = "send" /\ sectionIndex'[w] = 0
           \/ /\ label[w] = "barrier" /\ sectionIndex[w] < 3 /\ label'[w] = "send"
              /\ sectionIndex'[w] = sectionIndex[w] + 1
           \/ label[w] = "barrier" /\ sectionIndex[w] = 3 /\ label'[w] \in {"environment", "done"}
    BY <2>2, <2>3, <2>4 DEF Sections
  <2>6. WorldPart(w, label[w], sectionIndex[w], 0, values[w], maxima[w], receiveRequests[w])
    BY <2>1, <2>3
  <2>7. WorldPart(w, label'[w], sectionIndex'[w], 0, values[w], maxima[w], receiveRequests[w])
    BY <2>5, <2>6, BarrierMoves
  <2> QED
    BY <1>1, <2>3, <2>7
<1> QED
  BY <1>1, <1>2 DEF WorldsInv

LEMMA DataStep ==
    ASSUME FitInv, CopyInv, Next
    PROVE  DataInv'
<1>1. DataInv
  BY DEF CopyInv
<1>2. ASSUME NEW w \in Worlds, sendMaxOverlapZones(w) \/ sendOverlapZones(w) PROVE DataInv'
  BY <1>2, SendMaxData, SendData DEF DataInv
<1>3. ASSUME messages' = messages PROVE DataInv'
  BY <1>1, <1>3 DEF DataInv, DataOf, MaxData, ValueData
<1>4. ASSUME NEW w \in Worlds, WorldStep(w) \/ TestSends(w)
      PROVE  sendMaxOverlapZones(w) \/ sendOverlapZones(w) \/ messages' = messages
  BY <1>4 DEF WorldStep, receiveMaxOverlapData, receiveOverlapData, TestReceive, Cleared,
              stepEnvironment, stepSection, ExchangeAgents, TestSends
<1>5. Barrier \/ Finished => messages' = messages
  BY DEF Barrier, Finished, vars
<1> QED
  BY <1>2, <1>3, <1>4, <1>5 DEF Next

LEMMA CopyStep == FitInv /\ ClearInv /\ CopyInv /\ [Next]_vars => CopyInv'
<1> SUFFICES ASSUME FitInv, ClearInv, CopyInv, [Next]_vars PROVE CopyInv'
  OBVIOUS
<1>1. ASSUME NEW w \in Worlds, WorldStep(w) \/ TestSends(w) PROVE WorldsInv'
  <2>1. OnlyOf(w) /\ PartOf(w)'
    BY <1>1, StepCopies
  <2>2. WorldPart(w, label'[w], sectionIndex'[w], step'[w], values'[w], maxima'[w], receiveRequests'[w])
    BY <2>1 DEF PartOf
  <2>3. ASSUME NEW u \in Worlds, u # w
        PROVE  WorldPart(u, label'[u], sectionIndex'[u], step'[u], values'[u], maxima'[u], receiveRequests'[u])
    <3>1. WorldPart(u, label[u], sectionIndex[u], step[u], values[u], maxima[u], receiveRequests[u])
      BY DEF CopyInv, WorldsInv
    <3> QED
      BY <2>1, <2>3, <3>1 DEF OnlyOf
  <2> QED
    BY <2>1, <2>2, <2>3 DEF OnlyOf, WorldsInv
<1>2. CASE UNCHANGED vars
  <2>1. WorldsInv'
    BY <1>2 DEF CopyInv, WorldsInv, vars
  <2>2. DataInv'
    BY <1>2 DEF CopyInv, DataInv, DataOf, MaxData, ValueData, vars
  <2> QED
    BY <2>1, <2>2 DEF CopyInv
<1>3. CASE Next
  <2>1. DataInv'
    BY <1>3, DataStep
  <2>2. WorldsInv'
    <3>1. CASE Finished
      BY <1>2, <3>1 DEF Finished, CopyInv
    <3> QED
      BY <1>1, <1>3, <3>1, BarrierCopies DEF Next
  <2> QED
    BY <2>1, <2>2 DEF CopyInv
<1> QED
  BY <1>2, <1>3

LEMMA InitCopies == Init => CopyInv
<1> SUFFICES ASSUME Init PROVE CopyInv
  OBVIOUS
<1>1. DataInv
  BY DEF Init, DataInv, DataOf, MaxData, ValueData
<1>2. ASSUME NEW w \in Worlds, NEW own, NEW other,
             NEW field, field = [r \in Rasters |-> [c \in HeldCells[w] |->
                                    IF c \in OwnCells[w] THEN own[r][c] ELSE other]]
      PROVE  Shape(w, field) /\ \A r \in Rasters : Right(field, own, r, OwnCells[w])
  BY <1>2, CellsHeld DEF Shape, Right
<1>3. ASSUME NEW w \in Worlds
      PROVE  WorldPart(w, "sendMax", 0, 0, values[w], maxima[w], <<>>)
  <2>1. Shape(w, values[w]) /\ \A r \in Rasters : Right(values[w], OwnValue, r, OwnCells[w])
    BY <1>2 DEF Init, Created
  <2>2. Shape(w, maxima[w]) /\ \A r \in Rasters : Right(maxima[w], OwnMaximum, r, OwnCells[w])
    BY <1>2 DEF Init, Created
  <2>3. OwnPart(w, "sendMax", values[w], maxima[w])
    BY <2>1, <2>2 DEF OwnPart
  <2>4. MaxPart(w, "sendMax", maxima[w], <<>>)
    BY DEF MaxPart
  <2>5. ValuePart(w, "sendMax", 0, values[w], <<>>)
    BY DEF ValuePart
  <2>6. GrowthPart(w, "sendMax", 0, values[w])
    BY DEF GrowthPart, StartLabels
  <2> QED
    BY <2>1, <2>2, <2>3, <2>4, <2>5, <2>6 DEF WorldPart
<1>4. /\ \A w \in Worlds : /\ label[w] = "sendMax" /\ sectionIndex[w] = 0 /\ step[w] = 0
                           /\ receiveRequests[w] = <<>>
      /\ DOMAIN values = Worlds /\ DOMAIN maxima = Worlds
  BY DEF Init, Created
<1> QED
  BY <1>1, <1>3, <1>4 DEF CopyInv, WorldsInv

LEMMA CopyAlways == Spec => []CopyInv
BY InitFits, FitStep, InitCopies, CopyStep, ClearAlways, PTL DEF Spec

(* Wherever two worlds have run the environment equally often, the copies  *)
(* that one holds of the other's cells have the same values and maxima, in *)
(* every cell from which no agent collects: the initial exchange leaves no *)
(* copy out, no late message is written over a copy, and both grow it in   *)
(* the same way.  Neither the number of steps nor the messages that step   *)
(* sends and never completes matter.                                       *)
THEOREM CopiesAlwaysExact == Spec => []CopiesAreExact
<1>1. CopyInv => CopiesAreExact
  <2> SUFFICES ASSUME CopyInv, NEW w \in Worlds, NEW v \in DOMAIN CopyCells[w],
                      Started(w), Started(v), EnvironmentSteps(w) = EnvironmentSteps(v),
                      NEW r \in Rasters, NEW c \in CopyCells[w][v], <<r, c>> \notin Collected
               PROVE  values[w][r][c] = values[v][r][c] /\ maxima[w][r][c] = maxima[v][r][c]
    BY DEF CopiesAreExact, Exact
  <2>1. v \in Neighbors(w) /\ v \in Worlds /\ c \in OwnCells[v]
    BY CellsHeld DEF CopyCells
  <2>2. \A u \in Worlds : WorldPart(u, label[u], sectionIndex[u], step[u], values[u], maxima[u], receiveRequests[u])
    BY DEF CopyInv, WorldsInv
  <2>3. label[w] \notin StartLabels /\ label[v] \notin StartLabels
    BY DEF Started
  <2>4. Grows(label[w], step[w]) = Grows(label[v], step[v])
    BY <2>3 DEF EnvironmentSteps, Started, Grows
  <2>5. values[w][r][c] = Grown(r, c, Grows(label[w], step[w])) /\ maxima[w][r][c] = OwnMaximum[r][c]
    BY <2>1, <2>2, <2>3 DEF WorldPart, GrowthPart, GrownIn, MaxPart, Right, StartLabels
  <2>6. values[v][r][c] = Grown(r, c, Grows(label[v], step[v])) /\ maxima[v][r][c] = OwnMaximum[r][c]
    BY <2>1, <2>2, <2>3 DEF WorldPart, GrowthPart, GrownIn, OwnPart, Right
  <2> QED
    BY <2>4, <2>5, <2>6
<1> QED
  BY <1>1, CopyAlways, PTL

(* Raster::setValue never throws: a value comes in after the maximum of    *)
(* its cell, and is not above it.                                          *)
THEOREM SetValueNeverThrows == Spec => [](\A w \in Worlds : label[w] # "exception")
<1>1. CopyInv => \A w \in Worlds : label[w] # "exception"
  BY DEF CopyInv, WorldsInv, WorldPart
<1> QED
  BY <1>1, CopyAlways, PTL
=============================================================================
