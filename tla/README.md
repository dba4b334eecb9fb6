# A TLA+ verification of Pandora

Pandora (`src/pandora`) is a library for agent-based simulations that run on
many MPI processes; Cassandra (`src/cassandra`) shows their results. This
directory holds TLA+ specifications of the part of Pandora on which every
simulation depends, the parallel execution of agents and the exchange of
rasters by `World`; of what happens to a simulation afterwards, from
`Serializer` over `SimulationRecord` to Cassandra; and of the demography of the
largest example, `gujarat`; with the TLC configurations that check them and
proofs that TLAPS checks.

## 1. The system

| Part | State | Operations | What makes it correct |
|---|---|---|---|
| Geometry of a world (`World::stablishPosition`, `getOverlap`, `getInternalOverlap`, `getExternalOverlap`, `needsToBeUpdated`, `needsToReceiveData`, `getIdFromPosition`) | boundaries, overlap boundaries, four sections, neighbours; fixed after `init` | questions about a neighbour and a section | two processes that compute a zone on their own agree; a zone covers what changed; sections that run at once are far enough apart |
| Order of the sections (`World::run`, `World::step`) | `_step`, the section of the loop, MPI messages on their way | send and receive agents, send and receive ghosts, four times per step, no barrier | neighbours stay in step, nothing piles up, everybody finishes |
| Agents (`stepSection`, `sendAgents`, `receiveAgents`, `sendGhostAgents`, `receiveGhostAgents`, `removeAgents`, `checkPosition`) | `_agents`, `_overlapAgents`, `_executedAgentsHash`, `_removedAgents` | execute, migrate, copy, remove | one owner per agent, one turn per step, exact view of the surroundings, one agent per cell |
| Raster overlap (`sendOverlapZones`, `receiveOverlapData`, `clearRequests`, and the `Max` versions) | dynamic rasters, `_sendRequests`, `_receiveRequests` | Isend, Irecv, completion | a message gets to the receive it was meant for; overlap cells equal the owner's cells |
| `Raster`, `StaticRaster`, `IncrementalRaster` | values, maximum per cell, changes | set, increment, compare | value never above the cell's maximum |
| `Serializer`, `SimulationRecord`, `AgentRecord` | buffers per type and attribute, index per type | append, flush in chunks, load | what is loaded is what was serialized |
| `MpiFactory`, `scripts/generateMpi.py` | registered types | create packages and agents | an agent survives the trip |
| Example `randomWalkers` | agents with a position and resources | `MoveAction` | - |
| Example `gujarat` | households, climate, fields | demography, marriage, foraging, removal | no person in two households, no household outside the world |
| Cassandra loading and playback | record, loading percentage, viewed step, timer | load in a thread, navigate, play | the window uses only a record that is there; all views agree; steps stay in range, play stops |
| Cassandra displays, Python bindings, analysis tools | - | drawing, wrapping, statistics | - |
| `libs/`, `pandora/scratch` | vendored code, abandoned experiments | - | - |

How they interact. Every process owns one `World`: a square of cells, of which
the ring of width `_overlap` around it belongs to its neighbours. `step`
divides the square into four quarters, the *sections*, and all processes are
meant to execute the same quarter at the same time, so that agents of two
processes that run at once are never close. After each section a world sends
the agents that walked out (`sendAgents`), and copies of the agents close to
the border, the *ghosts* (`sendGhostAgents`). A ghost can be modified by the
agents that see it; it then travels back and replaces the original
(`receiveGhostAgents`). `Serializer` is called at the start of each step by
each process for its own agents.

What is hard. The barrier of the section loop is commented out
(`World.cxx:869`), so that only blocking receives keep the worlds in order.
The zones of exchange are computed separately by both ends, by a long case
analysis. A copy may be late, doubled or older than the original.
`checkPosition` sees one process only. Agents die while copies of them are on
their way. Raster messages carry no name: they are told apart by the order of
posting only. A simulation is stored in chunks, spread over files, and put
together again. Cassandra loads in a thread, without a lock, while timers and
the user go on. Households change each other during a turn, and what a turn
creates may have a turn of its own in the same step. `PROJECT.json` lists these
hazards line by line, with the properties that cover them, and those that
nothing covers yet.

## 2. Modules

| Module | Models |
|---|---|
| `WorldGeometry` | the arithmetic of zones and sections, one axis at a time; constants `WorldsPerRow`, `LocalRasterSize`, `Overlap`, with the checks of `Simulation::init` and `checkOverlapSize` as assumptions |
| `OverlapZones` | two neighbours that ask for the zones of section after section; its state is a world, a neighbour, a section and a cell to probe; the properties of the geometry |
| `OverlapZonesProofs` | the same properties, proved |
| `SectionLockstep` | the loop of `step` with its messages reduced to counters: which section and phase each world is in, how many lists wait in each channel |
| `SectionLockstepProofs` | its inductive invariant and the properties, proved |
| `World` | the whole exchange of agents: `run`, `step`, `stepSection` and the four message operations, with agents that move, modify others and die |
| `GlobalSimulation` | the abstract specification: one process, agents taking turns on one state |
| `WorldProofs` | type correctness of `World`, one holder per agent, no exceptions, and its refinement of `SectionLockstep`, proved; and for at most two worlds per row exact views, one copy, one turn per step, one agent per cell, the ghosts of the end, and the refinement of `GlobalSimulation` |
| `MCWorld` | sets of agents and cells, symmetry and a schedule, for TLC |
| `WorldRasters`, `MCWorldRasters` | the exchange of raster overlap: `run` and `step` with asynchronous sends and receives, `clearRequests`, the increments of `stepEnvironment` |
| `WorldRastersProofs` | its three invariants and that `setValue` never throws, proved |
| `AgentHistory` | the abstract specification of a recorded simulation: per type and step, the list of agents with all their attributes |
| `Serializer`, `MCSerializer` | the buffers, indexes and chunks that `Serializer` writes |
| `SerializerProofs` | its invariants, that nobody is missing and that it implements `AgentHistory`, proved |
| `SimulationRecord`, `MCSimulationRecord` | `loadHDF5`: the rasters, then the agents of each file, type and step |
| `SimulationRecordProofs` | that a loaded record is what was recorded, proved |
| `Cassandra`, `MCCassandra` | the event loop of `MainWindow` with its timers, the loading thread, and what the displays hold |
| `CassandraProofs` | the invariants of the viewed step and of the careful user, proved |
| `Households`, `MCHouseholds` | the households of `gujarat` in one world, through sections and years |
| `HouseholdsProofs` | the invariants of the households and what a turn may do to others, proved |

`World` EXTENDS `WorldGeometry`; it instantiates `GlobalSimulation`
(`IsGlobalSimulation`) and `SectionLockstep` (`KeepsOrder`) with refinement
mappings: the population is every agent where it is held (owned, leaving, or
in a message), its `value` the number of times it was modified; the round of a
world is `4 * step + sectionIndex`, and the mail of a channel its length.

Correspondence with the code. Variables carry the names of the members
(`agents` is `_agents`, ...). A world is its position in the grid, which is its
MPI rank read row by row. Actions carry the names of the functions, and each
is the whole function: `sendAgents` is the end of `stepSection` as in the code;
`removeAgents` ends a step. The exceptions of `getNeighborIndex` and
`removeAgents` are a state (`"exception"`). `InitSendGhosts` and
`InitReceiveGhosts` are the calls that `run` makes, with `Barrier`, before the
first step. Operators whose comment begins with "Mutation of" are plausible
faults of the operator below them. They are not part of the specification: put
in its place, they show that a property can fail.

Abstractions, all of them deliberate:

- A message is a whole list: the code sends a count and then that many
  packages with the same pair of tags, and MPI keeps the order per pair and
  tag. Receiving the lists of all neighbours is one action: only the receiver
  reads these channels, so nothing can see the receives one by one.
- Sends are buffered. `MPI_Send` may wait for a receiver if the library has no
  buffer; since all worlds send before they receive, the program depends on
  eager delivery, and so does the model.
- One type of agent; the code repeats the exchange per type. Lists are sets,
  which is sound while no list holds an agent twice: `NoSecondCopy` and
  `OneHolder` check just that.
- Agents behave as those of the examples and tests: `MoveAction` (move to a
  cell nearby if `checkPosition` agrees), `testModifyGhostAgent` (modify an
  agent that is seen), `testKillAgent` (remove itself), one of each in any
  combination per turn. *All effects lie within the overlap of the cell where
  the turn begins.* The engine cannot do without this: `testModifyGhostAgent`
  itself uses a radius of 100, and what it changes outside of the zones is
  lost.
- `turns` and `value` of an agent record, and `touched`, are observers: an
  agent attribute that travels in every package, and the true count to compare
  it with.
- Planning (`updateKnowledge`, `selectActions`) happens before any agent of the
  section executes; `MoveAction` decides when it executes, so planning has no
  effect on the state modelled. Rasters have a module of their own, and so has
  serialization, which a process does alone between two steps.

`WorldRasters` EXTENDS `WorldGeometry`. A request is named by its channel (two
worlds and a tag) and its number there, because MPI matches the n-th send with
the n-th receive. A pass of `clearRequests` over the sends is `TestSends`, one
message that is completed and written is `TestReceive`; the label of a world
says where it is in `run` or `step`. Agents are one thing that may happen in
`stepSection`: taking from a cell of `Collected`. `ExchangeAgents` is the
receiving of agents and ghosts, reduced to what it does to the order of the
worlds: a world goes on when all neighbours have executed the section. A world
posts for its neighbours column by column, as `stablishPosition` lists them
(`InColumns`).

`Serializer` instantiates `AgentHistory`; the history is what is on disk and
behind it what is in the buffers. A dataset is a sequence of values, and
writing at an offset beyond its end fills the gap, as HDF5 does. All agents of
a type have the same attributes and serialize them all, as every class of the
repository does.

`SimulationRecord` starts where `Serializer` ends: its constant is a set of
recorded simulations, of which every task has a file. The percentage is counted
in fractions that divide without remainder. One cell stands for a raster.
Static rasters are left out. The rows of a step name no agent twice
(`OneRowAssumption`): one world owns it (`OneHolder`) and serializes it once
(`NobodyMissing`).

`Cassandra` keeps a list of all records ever made and a set of those that were
deleted, so that a pointer can dangle. What the program may do when it follows
one, or null, or lets an exception out of a slot, is not guessed: the model
stops in a state that names the `fault`. The actions of the thread are the
statements of `ProjectConfiguration::loadSimulation`, those of the event loop
whole slots, but for the progress bar, which is split where the thread may come
between the test and the use. The user does anything that is not disabled.
`config3D` holds the rasters the 3D window may show and the two that it does;
the list is replaced only by `checkConfigs` and by a project. `checkConfigs`
creates configurations for types and rasters together, and none if there is one
of either kind; painting asks for both kinds, which throws when one is missing.
`careful` is an observer: it is true until the user starts to load while the
play timer runs or the 3D window is shown, loads a file that is no simulation,
or, when there are configurations, one with a type *or raster* that has none,
plots a type, or loads with a plotted type, that is not `steady`, lets the 3D
window show rasters that the record does not have, or starts or opens another
project. A type is steady if it has agents in every step; whether another type
has some at the step of a histogram is left open, and a histogram of none is a
fault. Whether a raster lets the next one through and whether agents are hidden
is left open too: painting may meet a missing configuration or not. Qt is
modelled from how it is used: `QSpinBox::setValue` clamps, and tells its
listeners if the value changes.

`Households` is one world with four sections. A person has, besides the age
that the code keeps, an identity and the household of its birth: observers, on
which nothing of the code depends. A turn is `Execute` (moving
home, `updateAges`, `checkMortality`, `checkReproduction`), one `Marry` per slot
and `EndTurn`. Within one process nothing else happens in between. All dunes
are in settlement areas, those of the overlap too, so that the first households
may begin there. Ghosts of other worlds' households are left out: a
household that moves to the overlap leaves the module.

## 3. What the runs check

| Run | Instance | Question and answer |
|---|---|---|
| `zones_2x2` | 2 worlds per row, 4 x 4 cells each, overlap 1: all pairs of neighbours, sections and cells | Do the zones agree (`ZonesAgree`), cover all that a section can change (`ZoneComplete`), never intersect (`ZonesDisjoint`)? Are sections apart (`SectionsSeparated`), and does each cell have one home (`CellHasOneHome`)? Yes. |
| `lockstep_2x2` | 4 worlds, 2 steps (8 rounds), all interleavings, fair | `Lockstep`, `MailIsBounded`, `NothingUnread`, `AllFinish` hold without any barrier |
| `world_2x2` | 4 worlds, 2 agents diagonally across their common corner, 1 step, all interleavings, agents move, modify and die | `OneHolder`, `OneAgentPerCell`, `ViewIsExact`, `OneTurnPerStep`, `GhostsAtEnd`, `NoException`, `NoSecondCopy` hold, and `IsGlobalSimulation`: every behaviour is one of a single process, in which no agent is lost, doubled or disturbed |
| `world_progress` | 4 worlds, 1 agent, 2 steps, all interleavings, fair | `KeepsOrder`: the worlds implement `SectionLockstep`; `AllFinish` |
| `world_3x3` | 9 worlds, 2 agents, 1 step, one schedule | `OneAgentPerCell` fails. See section 5. |
| `rasters_2x2` | 4 worlds, 2 rasters, the start and one whole step in which an agent may collect from a cell at a border, fair | `MessagesFit`: every receive gets the raster and the zone it was posted for, also where requests are never completed. `StartsClean`: none is open when the steps begin. `CopiesAreExact`, but for the cell from which agents collect. `AllFinish`, which includes that no value arrives before its maximum. |
| `rasters_modified` | the same with 1 raster | `ModifiedDataArrives` fails. See section 5. |
| `serializer` | 2 types, chunks of 2, 3 steps, lists of up to 4 agents | `Aligned`, `NobodyMissing`, and `IsHistory`, the refinement of `AgentHistory` |
| `record` | 2 tasks, 4 steps, resolutions 1 to 3, 3 agents of 2 types that appear, move and vanish, 2 loads of any of them | `RecordIsHistory`, `RastersAreHistory`, `AgentAtPosition`; `PercentageIsProgress`: 100 means loaded |
| `cassandra` | 2 loads of simulations with 2 types and 2 rasters and 4 steps, 1 type and no raster and 3 steps, or 1 raster and no type and 2 steps, or of a file that is none, at resolutions 1 to 3; new and stored projects, 5 clicks, any user, fair | `ViewedStepExists` and `LoadingEnds` whatever the user does, until the program crashes; for a careful user nothing fails but the progress bar, which may meet a missing record (`OnlyProgressFails`), `PlayReachesEnd`, and `PlayStops` if the resolution divides the number of steps |
| `households` | 2 households on 2 dunes in 2 sections and 1 in the overlap, families with two children to marry or one, a year of 2 days and the day after, moves of one cell, 3 births and deaths together | `NobodyTwice`, `ParentsAreAdults`, `NoSiblings`, `NobodyVanishes` |
| `households_overlap` | the same families without moves, births and deaths, 3 years of one day | `NewHomesInOwnCells` fails. See section 5. |

Bounds. A world of 4 x 4 cells with overlap 1 is the smallest that
`checkOverlapSize` accepts with an even size: sections are exactly two overlaps
wide, the tightest case. Two worlds per row give every world a corner, an edge
in each direction and the border of the area; three give a world with
neighbours on both sides, the case that differs. Two agents are enough for
every property about a pair; the corner lets four worlds hold copies of both.
Steps are independent but for what they leave behind, so two show the
transition. The bounds are `NumSteps`, `NumRounds`, the set `Agents` and
`InitialCells`; nothing else is capped: channels are bounded by the protocol.

For the rasters, two names show a message that is taken for another raster, and
one step contains every place where requests are posted; each later step posts
the same in the same order. Chunks of two agents make the three cases of a
chunk (not full, full in the middle, full at the end of a step) happen within
four agents, with three steps between them. Resolutions that divide the number
of steps, that do not, and that exceed it are all among those of `record` and
`cassandra`. `MaxLoads` and `MaxClicks` bound Cassandra: a second load meets
what the first one left, and five clicks are enough to load, go to a step,
choose a state, load again and play. In `households` two families are enough
for a marriage, a third arises from it, and two children of age in one family
are what could make siblings marry; `MaxChanges` and `NumSteps` bound people and
time, and with an `AdulthoodAge` of 1 the children marry at the end of the first
year. In `cassandra` each of the three simulations lacks types or rasters that
another one has, so that the second load can meet configurations of either kind
that do not fit.

`ScheduledSpec` (module `MCWorld`) fixes the order in which processes advance.
It is an under-approximation, used where interleavings and choices of agents
together are too many, in `world_3x3`; all other runs use `Spec`. Symmetry (the
two agents are interchangeable) is used only in runs without liveness. Deadlock is checked in every run: a world that has finished
or thrown an exception does not count as progress, and `Finished` is a step
only when all have finished.

Fairness is `WF` of the steps of each world (and of `Barrier`): a process that
can go on does go on, which is what the operating system gives an MPI process.
No fairness is assumed between the choices of agents, which are finitely many.
`WorldRasters` needs less: while some process can go on, some process does. MPI
completes a send once its receive is posted: it need not
do so before, which is how a library without buffers would behave. In
`Cassandra` the thread is scheduled, the play timer fires, a slot that has begun
ends (`WF`), and a signal that was posted is delivered in spite of the timers
that may come first (`SF`, which the event queue gives, being first in first
out). The user need not do anything.

## 4. What is proved

Assumptions: those of `WorldGeometry` (`WorldsPerRow` at least 1, `Overlap`
at least 0, `LocalRasterSize` even, a section at least two overlaps wide),
`NumRounds \in Nat`, those of `World` (at least one step, initial cells on the
area) and of `Serializer` (`ChunkSize` at least 1, at least one integer
attribute, the identifier a string, lists of agents that have all attributes)
and of `Households` (dunes of the world or of its overlap, families with two
grown-up parents and at most 15 children that are not yet of age); of
`WorldRasters` (at least one raster, values that begin between 0 and the maximum
of their cell); of `SimulationRecord` (at least one file and one
raster, attributes `x` and `y`, recorded simulations of the right shape, one row
per agent and step); of `Cassandra` (`"unknown"`, its word for no type, names
none; steady types are types of their simulation; a project holds a file, a
resolution, types and rasters). TLC evaluates them in the runs above.

`OverlapZonesProofs`, for every size of area, world and overlap:
`ZonesAlwaysAgree`, `InternalAlwaysMatchesExternal`, `SectionsAlwaysSeparated`,
`ZoneAlwaysInRaster`, `CellAlwaysHasOneHome`; and for every size with two
worlds per row `ZoneAlwaysComplete` and `ZonesAlwaysDisjoint`. The state only
ever holds a pair of neighbours, a section and a cell (`TypeInvariant`), and
each property follows from it by arithmetic on one axis at a time: lemmas about
segments, then one step per axis. (`InternalMatchesExternal` and `ZoneInRaster`,
as well as `ExchangeInv` of `SectionLockstep` and `TypeOK` and `BufferBounded`
of `Serializer`, are proved and in no run.)

`SectionLockstepProofs`, for every number of worlds and of steps: `LockstepHolds`,
`MailBound`, `AllMailRead`, from `ExchangeInvariant`. `Lockstep` is not
inductive: what keeps a world back is an empty channel, so the invariant must
say what each channel holds. `ExchangeInv` does: a channel of agents holds the
lists its sender has sent less those its receiver has read (`AgentMailInv`); a
channel of ghosts holds one list or none, depending on which of the two ends is
ahead and on whether the section is one in which the sender has ghosts for the
receiver (`GhostMailInv`); a world in the middle of a section is not at the end
(`BegunInv`). Each action preserves each part; the key lemma is
`SendersAndReceiversMatch`: v expects ghosts of w in a section exactly when w
sends them.

`WorldProofs`, for every area, set of agents and number of steps. `TypeCorrect`:
`TypeOK` says that `_step` never passes `NumSteps`, which is not inductive, and
`TypeInv` adds that a world which is neither finished nor stopped by an
exception still has a step to go (`StepInv`).

`OneHolderAlways` counts where an agent is owned: by a world, in its list of
those that leave, or in a message. `HolderInv` says that this is one place at
most (`OnePlace`), and what it takes for that to remain so: no list of owned
agents names an agent twice, also in a message; the copy of an agent that comes
home is dropped when the world gets to own it (`OwnedNotGhost`); and who leaves
does so once, for a neighbour (`LeavingInv`), so that `sendAgents` puts it in
one message. `NeverThrows` needs in addition that who is removed has been
executed and is still owned (`RemovedInv`): it does not leave after it died,
because nobody is executed twice.

`Refinement` is the theorem `Spec => KeepsOrder`: what is proved of
`SectionLockstep` for any number of worlds and steps holds of the worlds with
their agents and messages. The abstract module begins where `run` ends, with
one list of ghosts in some channels and none in others. That every world
finds this is the work of the sends and receives in `run`, which need an
invariant of their own (`RunInv`): the barrier keeps the worlds within a section of
each other (`InitSync`), a channel holds a list when its sender has sent for
the section and its receiver has not read (`InitGhosts`), and a world that is
ahead in its first step waits for the agents of the one that is behind
(`InitAgents`).

The second half of `WorldProofs` assumes at most two worlds per row
(`FewWorlds`), and nothing else: any area, overlap, set of agents, number of
steps and interleaving. With three, copies are not exact and agents do share
cells (section 5). The theorems are `ExactViews` (`ViewIsExact`), `SingleCopies` (`NoSecondCopy`),
`EachOnce` (`OneTurnPerStep`), `CellsShared` (`OneAgentPerCell`), `LastGhosts`
(`GhostsAtEnd`) and `GlobalRefinement`, which is `Spec => IsGlobalSimulation`:
the agents of all worlds take turns on one state, as if a single process
executed them.

None of the properties is inductive, and they need each other: a view is exact
because the ghosts of each section were right, these were because their senders
saw what they sent, and that because nobody ran a section while it was read.
`WorldInv` says this as a whole (lemma `WorldInvariant`).

- *Geometry.* `ZoneIsReachedAndSeen`: the zone that two worlds exchange in a
  section is what the section of one reaches of the view of the other, no more
  and no less. This is where `FewWorlds` comes in. `ReachApart`: what two
  worlds reach in the same section has no cell in common.
- *The present state* (`Present`): each agent where it is held, with the
  modifications counted in `touched`, which its owner need not know yet.
- *Epochs.* Lockstep lets worlds be in two sections at once, but only around
  one exchange. Epoch `e` is the section `This(e)`, together with the end of the
  section before it. Some worlds are still `Behind`, receiving agents and ghosts
  of the section before, some are `At` the section and have all of them.
  `EpochInv(e, S)` fixes the population `S` that existed when the section began.
  `Truth`: what differs between `S` and `Present` was reached by a world that has
  begun the section. `ViewsBehind`: a world that is behind sees `S`, but for what
  another world reached in the section before. `ViewsAt`: a world that is at
  the section sees `S`, but where it reaches itself, and there it sees
  `Present`. `Owned`: agents of worlds that have not begun are those of `S`, save
  their values, which may have been changed from another world and are
  corrected by the ghosts. `GhostLetters`: a list of ghosts on its way is the
  part of `S` that its sender may have changed and its receiver sees.
  `AgentLetters` and `AgentCount`: which lists of agents wait, and of what.
- *Steps of an epoch.* A turn changes `Present` and the view of its world alike,
  and only what that world reaches, which nobody else does (`TurnIsLocal`,
  `executeAgentEpoch`). A list of ghosts is the slice of `S` (`SendGhostsEpoch`);
  erasing the zones and inserting the lists makes the view exact
  (`ReceiveGhostsEpoch`). When the first world has the agents of all its
  neighbours, all have sent theirs (`ArrivedMeansSent`), and a new epoch begins
  with the population of that moment (`EpochBegins`).
- *Before the first step* there is no section that is over, and the views are
  built up: `RunViews` says that a world knows of the agents it sees those which
  it owns and those in sections already exchanged (`Told`). `BarrierRunViews`
  shows that after the barrier of the last of the four exchanges the worlds are
  in epoch 0.
- *Within a step* (`StepLife`): the turns of an owned agent are the steps of its
  world, and one more if it is in `_executedAgentsHash` (`TurnsOwned`); in a section that
  is done nobody is left unexecuted (`SweptInv`). An agent therefore never
  skips a turn and never has two, and `removeAgents` finds all of them executed.
- `CellsApart`: two agents that exist are on different cells. It is kept because
  the mover reaches the target and so sees, as it is, whoever stands there.

`GlobalRefinement` adds that who exists has had as many turns as the agent
whose turn it is, or one more (`EpochTurns`). A turn in a world is then a `Turn`
of the abstract process, `removeAgents` is a `Remove`, and all other actions
leave the population as it is (`StepOfWorlds`).

`WorldRastersProofs`, for every area, overlap, number of rasters and steps, in
three layers. `FitInv`: the length of what was sent on a channel, and of what
was posted for it, follows from the label, section and step of its sender and
receiver (`LengthInv`), and the n-th element of each is the raster and the zone
that n stands for (`HeaderInv`). As the two sequences have the same
order, the n-th message fits the n-th receive, whether it is early or late or
never completed: `MessagesAlwaysFit`. `ClearInv`: at the labels that follow the loops of
`clearRequests` no request is open, hence `AlwaysStartsClean`. `CopyInv`: what a message
holds is the initial value or maximum of its cells (`DataInv`), so a receive
that is completed makes the copy right; each section of the start adds the zones
of its senders, and together they are all copies (`ValuePart`); from then on a value
is its initial one and one more per step up to the maximum, for owner and copies
alike (`GrowthPart`). `CopiesAlwaysExact` and `SetValueNeverThrows` follow: all
maxima arrive, with a barrier, before the first value.

`SerializerProofs`, for every chunk size, number of steps and set of types and
attributes, and whatever lists of agents the steps begin with:
`TypeCorrectness`, `AlwaysAligned`, `AlwaysBounded`, `NobodyIsMissing` and
`Implementation`, that every step of `Serializer` is one of `AgentHistory` or none. Serializing an
agent appends one row; writing a chunk moves rows from the buffers to the disk
and leaves the history as it was. The latter needs the index to be the length
of what is on disk, and all attributes to be equally long, or else
`executeAgentSerialization` would return half-way: this is `Aligned`, which is
inductive together with `TypeOK`. Lemmas say what writing at the end of a
dataset and what a call does to the rows. `NobodyIsMissing` adds the list of
agents to the refinement: the rows of a type are as many as the agents it has
had so far, and the row of an agent is where the number of those before it says.

`SimulationRecordProofs`, for all recorded simulations, resolutions, numbers of
files, steps and loads: `RecordIsAlwaysHistory`, `RastersAreAlwaysHistory`,
`AgentAlwaysAtPosition` and `PercentageIsAlwaysProgress`. The first three speak
of the end of a load; the invariant says what is right in the middle. `Read` is the set of files, types and
steps that are done, and `RecordInv` that the record is what is in them and 0
elsewhere (`AgentsPart`), that the extremes enclose it (`ExtremesPart`), and the
same for rasters (`RastersPart`). Each step of the load adds one place to `Read`
(`ReadNextStep`), a file without a type adds places without rows
(`ReadNextFile`), and after the last file it is everything (`AllRead`). The
slots need the arithmetic of `\div` and `%`: two loaded steps never share a slot
and none is left over (`Entries`), whether or not the resolution divides the
number of steps. The percentage needs an invariant of its own, `ProgressInv`:
what the steps that are left of a file will add fits into the share of the
files so far. That it is 100 only at the end needs in addition that no step adds
0 parts (`AgentShare`), however many types a file turns out to have. The model
counts in parts of a unit that all of them divide, a factorial
(`FactorialGrows`); the code adds floats, whose rounding is not modelled.

`CassandraProofs`, for all recorded simulations and resolutions:
`ViewedStepAlwaysExists`, whatever the user does, from `ViewInv`: the displays
agree on a step that the box bounds (`StepInv`), a window that reacts has no load
behind it (`LoadInv`), and was last adjusted to the record it shows (`ShownInv`).
`CarefulUserIsSafe`, for every interleaving of slots, timers and the thread, from
`CarefulInv`: while the window reacts the record is there, its types and rasters
are configured, the type that is plotted is one of its steady ones, and a 3D
window that is visible shows rasters of it (`CarefulEnabled`); while it does
not, neither a timer nor a window uses what the thread replaces, and what is
loaded is configured already, or will be because nothing is
(`CarefulLoading`). The colours that the 3D window asks for are configured
because its rasters are among those of the record. The proof showed that a
careful user must mind the plotted type too, see section 5.

`HouseholdsProofs`, for every world, all families and any number of births,
deaths and steps: `NobodyIsTwice`, `AllParentsAreAdults`, `NoSiblingsMarry` and
`NobodyVanishesEver`. `NobodyTwice` needs that the person born next is not there yet
(`KnownPeople`); `NoSiblings` needs that children live where they were born
(`ChildrenAtHome`), so that a bride of another household is no sister. That
nobody vanishes needs that a household is executed once in a step and that one
which is marked as removed has no parents (`RemovalInv`). Two lemmas carry the
rest: `NewYear`, that after ageing, deaths and a birth each slot but that of the
newborn holds the person it held before; and `WeddingPeople`, that after a
marriage every person comes from one slot and no two from the same. They are also why
`canReproduce` matters: both parents live, so the first free slot is a child's
(`NewIndividual`).

Only model-checked is liveness (`AllFinish`, `LoadingEnds`, `PlayReachesEnd`,
`PlayStops`), which is beyond this prover. For three or more worlds per row
`TypeOK`, `OneHolder`, `NoException` and `KeepsOrder` are all that is shown of
`World`: its copies are not exact there (section 5).

## 5. Findings

`getOverlap` for a world with neighbours on both sides of an axis
(`World.cxx:1563-1707`). The zone of the second half of that axis begins, in
local coordinates, at half the world minus the overlap. Local coordinates
already begin one overlap before the world, so for the last world of a row,
where the origin is half the world, the zone is right, and for a middle world
it lies one overlap too early: the last cells that the section can reach
are missing. With two worlds per row there is no middle world, and the theorems
`ZoneAlwaysComplete` and `ZonesAlwaysDisjoint` say that all is well. With three
the zone is not "the general overlap zone between both worlds"
(`World.hxx:104`). `world_3x3` shows what follows from it: an agent of the
middle world steps down into the world below, the world on the left is not
told, and in the next section it lets a second agent enter the same cell, though
`allowMultipleAgentsPerCell` is false (`World.hxx:195`).

Rasters that change while the simulation runs (`World.cxx:866`).
`tests/testUpdateModifiedData` is there to "check that data is correctly updated
to overlapping nodes when it is modified during running time". Every section
sends its zones and posts receives, but only `clearRequests` writes what
arrives, and `step` never calls it (`rasters_modified`). Copies of cells that
no agent changes stay exact all the same, since every world grows its copies as
the owner does its cells (`CopiesAreExact`).

New households of `gujarat`. `getNearLocation` says that it "excludes the
creation of children in cells in other environments" (`GujaratAgent.cxx:241`)
but looks at the overlap too: a couple placed there belongs to a world none of
whose sections contains it, and is never executed again (`households_overlap`).
The line is marked TODO, and `GujaratWorld.cxx:27` chooses the overlap "to allow
splits to be in adjacent worlds"; but the household does not get into the
adjacent world, since `addAgent` keeps it in the list of the world that made it.
The same can happen to the first households: settlement areas cover the overlap
(`SettlementAreas.cxx:175`), and `initializePosition` takes any dune of an area
(`GujaratAgent.cxx:311`). The property is about couples only, of which the
comment speaks.

Other things that the models do as the code does, and that no run is about:

- A couple that settles in a section that is executed later in the same step is
  executed there as a household of its own (`World.cxx:431`), and is a year
  older twice (`GujaratAgent.cxx:113`).
- `loadHDF5` keeps the extremes of the attributes of an earlier load
  (`SimulationRecord.cxx:58`): they contain those of the record, as
  `RecordIsHistory` says, but need not be equal to them.
- A state that is chosen in Cassandra after the step has changed gets the
  histogram of an earlier step (`StepDataPlot.cxx:107`).
- A type whose attribute is plotted and that the next simulation does not have
  is looked up all the same (`StepDataPlot.cxx:115`). `OnlyProgressFails` is
  about users who avoid this.
- A type without agents at the step of its histogram gives the histogram bins of
  no sensible number (`StepDataPlot.cxx:134`).
- A simulation whose types or rasters have no configuration gets none if there is
  any configuration, of types or rasters (`ProjectConfiguration.cxx:327`);
  painting it throws (`Display2D.cxx:91`, `Display3D.cxx:185`). This happens with
  two simulations of the same types and other rasters, and when the first one
  has rasters and no agents.
- The rasters of the 3D window stay those of an earlier simulation or project as
  long as there are configurations (`ProjectConfiguration.cxx:357`); with a record
  that has other rasters the window asks for one that is not there
  (`Display3D.cxx:160`).
- After a file that cannot be loaded `Display2D` uses the missing record before
  the message is shown (`MainWindow.cxx:567`, `Display2D.cxx:60`).
- `newProject` deletes the record that the displays go on painting
  (`MainWindow.cxx:513`), and the play timer is not stopped while a record is
  replaced.
- The progress bar may ask a record that the loading thread has just deleted
  (`LoadingProgressBar.cxx:58`); it is why `OnlyProgressFails` has that name.

## 6. Not modelled, and the plan

Not modelled yet:

1. The ghosts of households. A household that moves home and then looks for a
   bride reaches up to `homeRange + socialRange` cells from where its turn
   began, farther than the zones that are exchanged.
2. `IncrementalRaster` and the MDP planner of `gujarat` (`HunterGathererMDP*`,
   `libmdp`): numerical, and isolated from the simulation by one controller per
   thread (`GujaratState::controller`).
3. The agropastoralists and the climate of `gujarat`: `config.xml` creates none
   of the former, and `updateSoilCondition`, on which their fields depend, is
   commented out.
4. `MpiFactory` and `generateMpi.py`: packages are generated code.

Left out for good: vendored libraries and `scratch`, which are by far most of
the lines of the repository; Qt and OpenGL drawing; file formats (HDF5, GDAL);
parameters, logging and random numbers; Python bindings and off-line analysis.
`PROJECT.json` has the list with reasons.
