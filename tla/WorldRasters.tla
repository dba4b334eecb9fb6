---------------------------- MODULE WorldRasters ----------------------------
(***************************************************************************)
(* How the worlds keep copies of the raster cells of their neighbours.     *)
(*                                                                         *)
(* A world holds every dynamic raster for its own cells and for its        *)
(* overlap.  World::run sends the maxima of the cells, then their values,  *)
(* and waits for them (clearRequests, MPI_Barrier).  World::step posts     *)
(* more sends and receives, before the sections and after each of them,    *)
(* and never completes any: from there on the copies are only as good as   *)
(* the increments that every world applies to its whole raster.            *)
(*                                                                         *)
(* MPI matches the n-th send to the n-th receive of the same source,       *)
(* destination and tag, so a request is named by its channel and number.   *)
(***************************************************************************)
EXTENDS WorldGeometry, Sequences

CONSTANTS
    NumRasters,     \* size of _dynamicRasters, a map ordered by name
    MaxValue,       \* _maxValue of every raster
    OwnMaximum,     \* the maximum that createRasters gives to each cell
    OwnValue,       \* the value that it gives to each cell
    NumSteps,       \* Simulation::getNumSteps
    Collected       \* rasters and cells from which agents collect during the steps

Rasters == 1 .. NumRasters

ASSUME RastersAssumption == NumRasters \in Nat \ {0} /\ MaxValue \in Nat /\ NumSteps \in Nat

\* Raster::setMaxValue and Raster::setValue throw otherwise.
ASSUME ValuesAssumption ==
    \A r \in Rasters, c \in Cells :
        /\ OwnMaximum[r][c] \in 0 .. MaxValue
        /\ OwnValue[r][c] \in 0 .. OwnMaximum[r][c]

VARIABLES
    label,              \* where each world is in run and step
    sectionIndex,       \* the variable of the loop it is in
    step,               \* World::_step
    values, maxima,     \* per world and raster, of the cells it holds
    messages,           \* every message sent, per channel
    posted,             \* every receive posted, per channel
    sendRequests,       \* World::_sendRequests
    receiveRequests     \* World::_receiveRequests

vars == <<label, sectionIndex, step, values, maxima,
          messages, posted, sendRequests, receiveRequests>>

Channels == {c \in Worlds \X Worlds \X {"max", "value"} : c[2] \in Neighbors(c[1])}

CellsOf(seg) == seg.lo .. seg.lo + seg.len - 1

CellsIn(rect) == CellsOf(rect.x) \X CellsOf(rect.y)

HeldCells == [w \in Worlds |-> CellsIn(overlapBoundaries(w))]
OwnCells  == [w \in Worlds |-> CellsIn(boundaries(w))]

\* The cells of v that w holds copies of.
CopyCells == [w \in Worlds |-> [v \in Neighbors(w) |-> HeldCells[w] \intersect OwnCells[v]]]

StartLabels == {"sendMax", "receiveMax", "clearMax", "barrierMax",
                "send", "receive", "clear", "barrier"}
SectionLabels == {"section", "exchange", "sendZone", "receiveZone"}

----------------------------------------------------------------------------

\* createRasters: setInitValues for all that is held, then the own cells.
Created(own, other) ==
    [w \in Worlds |-> [r \in Rasters |->
        [c \in HeldCells[w] |-> IF c \in OwnCells[w] THEN own[r][c] ELSE other]]]

Init ==
    /\ label = [w \in Worlds |-> "sendMax"]
    /\ sectionIndex = [w \in Worlds |-> 0]
    /\ step = [w \in Worlds |-> 0]
    /\ values = Created(OwnValue, 0)
    /\ maxima = Created(OwnMaximum, MaxValue)
    /\ messages = [c \in Channels |-> <<>>]
    /\ posted = [c \in Channels |-> <<>>]
    /\ sendRequests = [w \in Worlds |-> <<>>]
    /\ receiveRequests = [w \in Worlds |-> <<>>]

----------------------------------------------------------------------------
(* Requests *)

\* The others among the neighbours of w, in the order of _neighbors, which
\* stablishPosition fills column by column.
InColumns(w, others) ==
    LET at(x, y)  == LET v == <<w[1] + x, w[2] + y>> IN IF v \in others THEN <<v>> ELSE <<>>
        column(x) == at(x, -1) \o at(x, 0) \o at(x, 1)
    IN  column(-1) \o column(0) \o column(1)

\* The requests of one call of w: raster by raster, neighbour by neighbour,
\* where channel maps neighbours to channels.  box holds what has been posted
\* on each of them before the call.
NewRequests(w, channel, box) ==
    LET order == InColumns(w, DOMAIN channel)
    IN  [i \in 1 .. NumRasters * Len(order) |->
            LET c == channel[order[((i - 1) % Len(order)) + 1]]
            IN  <<c, Len(box[c]) + ((i - 1) \div Len(order)) + 1>>]

\* Isend to each neighbour in the domain of zone that zone of each raster.
Isend(w, zone, tag, field) ==
    LET message(v, r) == [raster |-> r, zone |-> zone[v],
                          data |-> [c \in CellsIn(zone[v]) |-> field[w][r][c]]]
    IN  /\ messages' = [c \in Channels |->
                IF c[1] = w /\ c[2] \in DOMAIN zone /\ c[3] = tag
                THEN messages[c] \o [r \in Rasters |-> message(c[2], r)]
                ELSE messages[c]]
        /\ sendRequests' = [sendRequests EXCEPT
                ![w] = @ \o NewRequests(w, [v \in DOMAIN zone |-> <<w, v, tag>>], messages)]

\* Irecv from each neighbour in the domain of zone that zone of each raster.
Irecv(w, zone, tag) ==
    /\ posted' = [c \in Channels |->
            IF c[2] = w /\ c[1] \in DOMAIN zone /\ c[3] = tag
            THEN posted[c] \o [r \in Rasters |-> [raster |-> r, zone |-> zone[c[1]]]]
            ELSE posted[c]]
    /\ receiveRequests' = [receiveRequests EXCEPT
            ![w] = @ \o NewRequests(w, [v \in DOMAIN zone |-> <<v, w, tag>>], posted)]

\* The own cells that v sees, and the cells of v that w sees.
Internal(w, v) == Global(w, getInternalOverlap(w, v))
External(w, v) == Global(w, getExternalOverlap(w, v))

\* The loops over the sections, which start again with section 0.
Following(s) == (s + 1) % 4

Goto(w, next) == label' = [label EXCEPT ![w] = next]

----------------------------------------------------------------------------
(* Sending and receiving *)

sendMaxOverlapZones(w) ==
    /\ label[w] = "sendMax"
    /\ Isend(w, [v \in Neighbors(w) |-> Internal(w, v)], "max", maxima)
    /\ Goto(w, "receiveMax")
    /\ UNCHANGED <<sectionIndex, step, values, maxima, posted, receiveRequests>>

receiveMaxOverlapData(w) ==
    /\ label[w] = "receiveMax"
    /\ Irecv(w, [v \in Neighbors(w) |-> External(w, v)], "max")
    /\ Goto(w, "clearMax")
    /\ UNCHANGED <<sectionIndex, step, values, maxima, messages, sendRequests>>

AfterSend == [send |-> "receive", sendAll |-> "receiveAll", sendZone |-> "receiveZone"]

\* entireOverlap is true only after a section.
sendOverlapZones(w) ==
    /\ label[w] \in {"send", "sendAll", "sendZone"}
    /\ Isend(w, [v \in SendTo(w, sectionIndex[w]) |->
                    IF label[w] = "sendZone" THEN Zone(w, v, sectionIndex[w]) ELSE Internal(w, v)],
             "value", values)
    /\ Goto(w, AfterSend[label[w]])
    /\ UNCHANGED <<sectionIndex, step, values, maxima, posted, receiveRequests>>

\* Where the loops of run and step go after receiveOverlapData.
AfterReceive(w) ==
    LET last == sectionIndex[w] = 3
    IN  \/ /\ label[w] = "receive"
           /\ Goto(w, "clear")
           /\ UNCHANGED <<sectionIndex, step>>
        \/ /\ label[w] = "receiveAll"
           /\ Goto(w, IF last THEN "section" ELSE "sendAll")
           /\ sectionIndex' = [sectionIndex EXCEPT ![w] = Following(@)]
           /\ UNCHANGED step
        \/ /\ label[w] = "receiveZone"
           /\ Goto(w, IF ~last THEN "section"
                      ELSE IF step[w] + 1 < NumSteps THEN "environment" ELSE "done")
           /\ sectionIndex' = [sectionIndex EXCEPT ![w] = Following(@)]
           /\ step' = IF last THEN [step EXCEPT ![w] = @ + 1] ELSE step

\* Mutation of receiveOverlapData: the whole overlap after a section too.
receiveOverlapDataExternal(w) ==
    /\ Irecv(w, [v \in ReceiveFrom(w, sectionIndex[w]) |-> External(w, v)], "value")
    /\ AfterReceive(w)
    /\ UNCHANGED <<values, maxima, messages, sendRequests>>

receiveOverlapData(w) ==
    /\ Irecv(w, [v \in ReceiveFrom(w, sectionIndex[w]) |->
                    IF label[w] = "receiveZone" THEN Zone(w, v, sectionIndex[w]) ELSE External(w, v)],
             "value")
    /\ AfterReceive(w)
    /\ UNCHANGED <<values, maxima, messages, sendRequests>>

----------------------------------------------------------------------------
(* clearRequests *)

Clearing(w) == label[w] \in {"clearMax", "clear"}

Completed(box, request) == request[2] =< Len(box[request[1]])

\* The loop over the send requests, which changes nothing else.  The library
\* may complete a send that it has buffered; it must complete one whose
\* receive is posted.
TestSends(w) ==
    /\ Clearing(w)
    /\ sendRequests[w] # <<>>
    /\ sendRequests' = [sendRequests EXCEPT ![w] = <<>>]
    /\ UNCHANGED <<label, sectionIndex, step, values, maxima,
                   messages, posted, receiveRequests>>

\* What a received message does to one of the fields of the receiver.
Written(field, w, p, data) ==
    [field EXCEPT ![w][p.raster] =
        [c \in DOMAIN @ |-> IF isInside(p.zone, c) THEN data[c] ELSE @[c]]]

\* Raster::setValue throws when the maximum of the cell is lower.
Throws(w, p, data) ==
    label[w] = "clear" /\ \E c \in CellsIn(p.zone) : data[c] > maxima[w][p.raster][c]

\* MPI_Test of the first receive request, and the update of the raster.
TestReceive(w) ==
    /\ Clearing(w)
    /\ sendRequests[w] = <<>> /\ receiveRequests[w] # <<>>
    /\ LET request == Head(receiveRequests[w])
           p       == posted[request[1]][request[2]]
           data    == messages[request[1]][request[2]].data
       IN  /\ Completed(messages, request)
           /\ label' = IF Throws(w, p, data) THEN [label EXCEPT ![w] = "exception"] ELSE label
           /\ values' = IF label[w] = "clear" /\ ~Throws(w, p, data)
                        THEN Written(values, w, p, data) ELSE values
           /\ maxima' = IF label[w] = "clearMax" THEN Written(maxima, w, p, data) ELSE maxima
    /\ receiveRequests' = [receiveRequests EXCEPT ![w] = Tail(@)]
    /\ UNCHANGED <<sectionIndex, step, messages, posted, sendRequests>>

\* Mutation of Cleared: receives that have not come in are left for later.
ClearedHasty(w) ==
    /\ Clearing(w)
    /\ sendRequests[w] = <<>>
    /\ Goto(w, IF label[w] = "clearMax" THEN "barrierMax" ELSE "barrier")
    /\ UNCHANGED <<sectionIndex, step, values, maxima,
                   messages, posted, sendRequests, receiveRequests>>

\* clearRequests returns, and the world enters MPI_Barrier.
Cleared(w) ==
    /\ Clearing(w)
    /\ sendRequests[w] = <<>> /\ receiveRequests[w] = <<>>
    /\ Goto(w, IF label[w] = "clearMax" THEN "barrierMax" ELSE "barrier")
    /\ UNCHANGED <<sectionIndex, step, values, maxima,
                   messages, posted, sendRequests, receiveRequests>>

\* MPI_Barrier: all leave when all have come.  The ghosts that run exchanges
\* after it touch no raster.
Barrier ==
    \/ /\ \A w \in Worlds : label[w] = "barrierMax"
       /\ label' = [w \in Worlds |-> "send"]
       /\ UNCHANGED <<sectionIndex, step, values, maxima,
                      messages, posted, sendRequests, receiveRequests>>
    \/ /\ \A w \in Worlds : label[w] = "barrier"
       /\ label' = [w \in Worlds |-> IF sectionIndex[w] < 3 THEN "send"
                                     ELSE IF NumSteps = 0 THEN "done" ELSE "environment"]
       /\ sectionIndex' = [w \in Worlds |-> Following(sectionIndex[w])]
       /\ UNCHANGED <<step, values, maxima, messages, posted, sendRequests, receiveRequests>>

----------------------------------------------------------------------------
(* World::step *)

\* Mutation of Incremented: only the own cells grow.
IncrementedOwn(w, r) ==
    [c \in HeldCells[w] |-> IF c \in OwnCells[w] /\ values[w][r][c] < maxima[w][r][c]
                            THEN values[w][r][c] + 1 ELSE values[w][r][c]]

\* Raster::updateRasterIncrement, on the whole raster with its overlap.
Incremented(w, r) ==
    [c \in HeldCells[w] |-> IF values[w][r][c] < maxima[w][r][c]
                            THEN values[w][r][c] + 1 ELSE values[w][r][c]]

stepEnvironment(w) ==
    /\ label[w] = "environment"
    /\ values' = [values EXCEPT ![w] = [r \in Rasters |-> Incremented(w, r)]]
    /\ Goto(w, "sendAll")
    /\ UNCHANGED <<sectionIndex, step, maxima, messages, posted,
                   sendRequests, receiveRequests>>

\* stepSection: an agent may collect one unit from a cell within its reach.
stepSection(w) ==
    /\ label[w] = "section"
    /\ \/ UNCHANGED values
       \/ \E r \in Rasters, c \in HeldCells[w] :
             /\ <<r, c>> \in Collected
             /\ isInside(Reachable(w, sectionIndex[w]), c) /\ values[w][r][c] > 0
             /\ values' = [values EXCEPT ![w][r][c] = @ - 1]
    /\ Goto(w, "exchange")
    /\ UNCHANGED <<sectionIndex, step, maxima, messages, posted,
                   sendRequests, receiveRequests>>

\* Sections that a world has run since the start.
SectionsRun(w) ==
    4 * step[w] + (IF label[w] \notin SectionLabels THEN 0
                   ELSE sectionIndex[w] + (IF label[w] = "section" THEN 0 ELSE 1))

\* receiveAgents waits for every neighbour to have run this section.
ExchangeAgents(w) ==
    /\ label[w] = "exchange"
    /\ \A v \in Neighbors(w) : SectionsRun(v) >= SectionsRun(w)
    /\ Goto(w, "sendZone")
    /\ UNCHANGED <<sectionIndex, step, values, maxima, messages, posted,
                   sendRequests, receiveRequests>>

----------------------------------------------------------------------------

WorldStep(w) ==
    \/ sendMaxOverlapZones(w) \/ receiveMaxOverlapData(w)
    \/ sendOverlapZones(w) \/ receiveOverlapData(w)
    \/ TestReceive(w) \/ Cleared(w)
    \/ stepEnvironment(w) \/ stepSection(w) \/ ExchangeAgents(w)

Finished == (\A w \in Worlds : label[w] = "done") /\ UNCHANGED vars

Next == (\E w \in Worlds : WorldStep(w) \/ TestSends(w)) \/ Barrier \/ Finished

Spec == Init /\ [][Next]_vars

\* MPI completes a send whose receive is posted.
MustTestSends(w) ==
    TestSends(w) /\ \A i \in DOMAIN sendRequests[w] : Completed(posted, sendRequests[w][i])

\* While a process can run on, some process does, and MPI delivers what is sent.
Fairness == WF_vars(Barrier \/ \E w \in Worlds : WorldStep(w) \/ MustTestSends(w))

FairSpec == Spec /\ Fairness

----------------------------------------------------------------------------
(* Properties *)

(* The message that MPI gives to a receive is the one it was posted for:   *)
(* the same raster, and the same cells of it, in global coordinates.  The  *)
(* code never sends a zone or a name along; the sender and the receiver    *)
(* count on posting in the same order, which since the barrier of the      *)
(* section loop is gone nothing synchronises.                              *)
MessagesFit ==
    \A c \in Channels : \A n \in DOMAIN messages[c] \intersect DOMAIN posted[c] :
        /\ messages[c][n].raster = posted[c][n].raster
        /\ messages[c][n].zone = posted[c][n].zone

Started(w) == label[w] \notin StartLabels

\* Times that stepEnvironment has run.
EnvironmentSteps(w) ==
    IF Started(w) /\ label[w] \notin {"environment", "done"} THEN step[w] + 1 ELSE step[w]

\* The copies that w holds of v's cells are as v has them, except in changed.
Exact(w, v, changed) ==
    \A r \in Rasters : \A c \in CopyCells[w][v] : <<r, c>> \notin changed =>
        values[w][r][c] = values[v][r][c] /\ maxima[w][r][c] = maxima[v][r][c]

(* Once run has exchanged the initial data, worlds that have run the       *)
(* environment equally often hold the same values and maxima for the same  *)
(* cells, except those that agents change: the copies need no more         *)
(* messages because each world grows its copies as their owner does.       *)
CopiesAreExact ==
    \A w \in Worlds : \A v \in DOMAIN CopyCells[w] :
        Started(w) /\ Started(v) /\ EnvironmentSteps(w) = EnvironmentSteps(v)
            => Exact(w, v, Collected)

(* No request of the initial exchange is still open when the steps start,  *)
(* so that no late message is written over what a step has computed.       *)
StartsClean ==
    \A w \in Worlds : label[w] \in {"barrierMax", "barrier", "environment"} /\ step[w] = 0
        => sendRequests[w] = <<>> /\ receiveRequests[w] = <<>>

(* What an agent changes in a cell is in the copies of the neighbours at   *)
(* the end of the simulation.                                              *)
ModifiedDataArrives ==
    (\A w \in Worlds : label[w] = "done")
        => \A w \in Worlds : \A v \in DOMAIN CopyCells[w] : Exact(w, v, {})

(* clearRequests waits in a loop for one request after the other, and no   *)
(* order of the loops of the worlds makes them wait for each other; and        *)
(* setValue, which throws for a value above the maximum of its cell, never *)
(* does: the values of run arrive after the maxima.                        *)
AllFinish == <>(\A w \in Worlds : label[w] = "done")
=============================================================================
