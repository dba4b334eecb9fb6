----------------------------- MODULE Households -----------------------------
(***************************************************************************)
(* examples/gujarat: the hunter-gatherer households of one world.          *)
(*                                                                         *)
(* A household is an agent with a list of ages: first the father, then the *)
(* mother, then the children; a slot of the list is reused when its person *)
(* has died or left.  In the last day of a year a household, in its turn   *)
(* of World::stepSection, ages, loses its dead, has children, marries its  *)
(* sons to daughters of its neighbours, and is removed when both parents   *)
(* are dead.  A marriage changes two households and creates a third.       *)
(*                                                                         *)
(* The turn of a household is split in steps that no other household can   *)
(* come between: one for executeActions and the first half of updateState, *)
(* one for each slot that checkMarriage looks at and one for its end.      *)
(***************************************************************************)
EXTENDS Integers, Sequences, FiniteSets

CONSTANTS
    Boundaries,     \* the cells of the world
    Overlap,        \* the cells of its overlap, which belong to other worlds
    SectionOf,      \* the section of every cell of Boundaries
    Dunes,          \* the cells whose soil is DUNE, all in settlement areas
    SocialRange,    \* GujaratAgent::_socialRange
    MobilityRange,  \* HunterGatherer::_homeMobilityRange
    AdulthoodAge,   \* GujaratConfig::_adulthoodAge
    DaysPerYear,    \* GujaratConfig::_daysPerYear
    NumSteps,       \* Simulation::getNumSteps
    Families,       \* the ages that createInitialPopulation may give
    NumHouseholds,  \* the households that createAgents creates
    MaxChanges      \* bound on the births and deaths of a behaviour

Sections == 0 .. 3

NoSlot == 0
NoAgent == 0

\* A person in a slot: its age, who it is and the household it was born in; the
\* code has only the age.  The age -1 is nobody.
Nobody == [age |-> -1, who |-> 0, from |-> 0]

ASSUME PlacesAssumption ==
    /\ Dunes \subseteq Boundaries \union Overlap
    /\ Boundaries \intersect Overlap = {}
    /\ SectionOf \in [Boundaries -> Sections]

ASSUME NumbersAssumption ==
    /\ {SocialRange, MobilityRange, AdulthoodAge, NumSteps} \subseteq Nat
    /\ {DaysPerYear, NumHouseholds, MaxChanges} \subseteq Nat
    /\ DaysPerYear > 0

\* Parents are grown up, children are not yet older than that; they have had at
\* most one in each of 15 years.
ASSUME FamiliesAssumption ==
    \A ages \in Families :
        /\ ages \in Seq(Int) /\ Len(ages) >= 2 /\ Len(ages) <= 17
        /\ \A i \in 1 .. Len(ages) :
               IF i <= 2 THEN ages[i] >= AdulthoodAge ELSE ages[i] \in -1 .. AdulthoodAge

VARIABLES
    step,           \* World::_step
    section,        \* the section that World::stepSection executes
    toExecute,      \* agentsToExecute
    executed,       \* _executedAgentsHash
    households,     \* World::_agents: for a key, its position, _exists and slots
    nextKey,        \* GujaratWorld::_agentKey
    turn,           \* the household that updates its state and its next slot
    people,         \* the number of the next person to be born
    deaths          \* how many have died, for MaxChanges

vars == <<step, section, toExecute, executed, households, nextKey, turn, people, deaths>>

-----------------------------------------------------------------------------
\* Point2D::distance(a, b) <= range.
Within(a, b, range) ==
    (a[1] - b[1]) * (a[1] - b[1]) + (a[2] - b[2]) * (a[2] - b[2]) <= range * range

Alive(slots) == {i \in DOMAIN slots : slots[i].age # -1}

\* The slots of the children that checkMarriage and getMarriageCandidate take.
Eligible(slots) == {i \in DOMAIN slots : i > 2 /\ slots[i].age > AdulthoodAge}

EndOfYear == step % DaysPerYear = DaysPerYear - 1

PeopleIn(ages) == {i \in DOMAIN ages : ages[i] # -1}

InSection(hs, s) ==
    {k \in DOMAIN hs : hs[k].position \in Boundaries /\ SectionOf[hs[k].position] = s}

\* createInitialPopulation; persons are numbered over all households.
Household(key, ages, cell) ==
    [position |-> cell, exists |-> TRUE,
     slots |-> [i \in DOMAIN ages |->
                   IF ages[i] = -1 THEN Nobody
                   ELSE [age |-> ages[i], who |-> 20 * key + i,
                         from |-> IF i > 2 THEN key ELSE -(2 * key + i)]]]

\* The settlement areas cover the overlap: initializePosition takes its dunes too.
Init ==
    /\ step = 0 /\ section = 0 /\ executed = {} /\ turn = [agent |-> NoAgent, slot |-> NoSlot]
    /\ \E ages \in [1 .. NumHouseholds -> Families],
          cell \in [1 .. NumHouseholds -> Dunes] :
           households = [k \in 1 .. NumHouseholds |-> Household(k, ages[k], cell[k])]
    /\ toExecute = InSection(households, 0)
    /\ nextKey = NumHouseholds + 1
    /\ people = 20 * nextKey
    /\ deaths = 0

-----------------------------------------------------------------------------
\* MoveHomeAction: a dune in reach, of the overlap too; other actions stay.
Homes(cell) == {cell} \union {c \in Dunes : Within(c, cell, MobilityRange)}

\* updateAges
Aged(slots) ==
    [i \in DOMAIN slots |-> IF slots[i].age = -1 THEN slots[i]
                            ELSE [slots[i] EXCEPT !.age = @ + 1]]

\* checkMortality: anyone may die of starvation or with the natural rate.
Mourned(slots, dead) == [i \in DOMAIN slots |-> IF i \in dead THEN Nobody ELSE slots[i]]

\* Mutation of canReproduce: one parent is enough.
canReproduceAlone(slots) == slots[1].age # -1 \/ slots[2].age # -1

canReproduce(slots) == slots[1].age # -1 /\ slots[2].age # -1

\* addNewIndividual: in the first free slot, else behind the last one.
addNewIndividual(slots, child) ==
    LET free == DOMAIN slots \ Alive(slots)
    IN  IF free = {} THEN Append(slots, child)
        ELSE [slots EXCEPT ![CHOOSE i \in free : \A j \in free : i <= j] = child]

Newborn(key) == [age |-> 0, who |-> people, from |-> key]

\* The turn of a household until checkMarriage; the world hands it to another
\* one, out of this module, when it has moved to the overlap.
Execute(k) ==
    /\ turn.agent = NoAgent /\ k \in toExecute
    /\ toExecute' = toExecute \ {k} /\ executed' = executed \union {k}
    /\ \E home \in Homes(households[k].position) :
           IF ~EndOfYear
           THEN /\ households' =
                       IF home \in Boundaries
                       THEN [households EXCEPT ![k].position = home]
                       ELSE [j \in DOMAIN households \ {k} |-> households[j]]
                /\ UNCHANGED <<turn, people, deaths>>
           ELSE \E dead \in SUBSET Alive(households[k].slots), birth \in BOOLEAN :
                    LET slots == Mourned(Aged(households[k].slots), dead)
                    IN  /\ birth => canReproduce(slots)
                        /\ deaths' = deaths + Cardinality(dead)
                        /\ people' = people + (IF birth THEN 1 ELSE 0)
                        /\ deaths' + people' <= 20 * (NumHouseholds + 1) + MaxChanges
                        /\ households' = [households EXCEPT ![k] = [@ EXCEPT !.position = home, !.slots =
                               IF birth THEN addNewIndividual(slots, Newborn(k)) ELSE slots]]
                        /\ turn' = [agent |-> k, slot |-> 3]
    /\ UNCHANGED <<step, section, nextKey>>

\* getNeighbours: the agents that exist, without the one that asks.
Neighbours(k) ==
    {j \in DOMAIN households \ {k} :
        households[j].exists /\ Within(households[j].position, households[k].position, SocialRange)}

\* Mutation of Candidates: a household with several children to marry is one of
\* its own candidates.
CandidatesAtHome(k) ==
    {j \in Neighbours(k) : Eligible(households[j].slots) # {}}
        \union {j \in {k} : Cardinality(Eligible(households[k].slots)) > 1}

\* getMarriageCandidate
Candidates(k) == {j \in Neighbours(k) : Eligible(households[j].slots) # {}}

\* The first of the candidate's children that is old enough; child a of household
\* k, for whom it is looked for, has left its slot by then.
Bride(k, a, j) ==
    LET e == Eligible(households[j].slots) \ (IF j = k THEN {a} ELSE {})
    IN  CHOOSE i \in e : \A l \in e : i <= l

\* The dunes, of the overlap too, in the square of side 2 * SocialRange + 1.
getNearLocation(k) ==
    {c \in Dunes : \A axis \in 1 .. 2 :
                       c[axis] - households[k].position[axis] \in -SocialRange .. SocialRange}

\* Mutation of Left: the age is copied and not cleared.
LeftUncleared(slots, i) == slots

\* What a marriage leaves in a slot of either family.
Left(slots, i) == [slots EXCEPT ![i] = Nobody]

\* Child a of household k marries child b of household j.
Wedding(k, j, a, b, home) ==
    [h \in DOMAIN households \union {nextKey} |->
        IF h = nextKey THEN [position |-> home, exists |-> TRUE,
                             slots |-> <<households[k].slots[a], households[j].slots[b]>>]
        ELSE IF h = k THEN [households[h] EXCEPT !.slots = Left(@, a)]
        ELSE IF h = j THEN [households[h] EXCEPT !.slots = Left(@, b)]
        ELSE households[h]]

\* One pass through the loop of checkMarriage.
Marry(k) ==
    /\ turn.agent = k /\ turn.slot \in DOMAIN households[k].slots
    /\ IF turn.slot \notin Eligible(households[k].slots)
       THEN /\ turn' = [turn EXCEPT !.slot = @ + 1]
            /\ UNCHANGED <<households, nextKey>>
       ELSE IF Candidates(k) = {}
       THEN /\ turn' = [turn EXCEPT !.slot = Len(households[k].slots) + 1]
            /\ UNCHANGED <<households, nextKey>>
       ELSE /\ \E j \in Candidates(k), home \in getNearLocation(k) :
                   households' = Wedding(k, j, turn.slot, Bride(k, turn.slot, j), home)
            /\ nextKey' = nextKey + 1
            /\ turn' = [turn EXCEPT !.slot = @ + 1]
    /\ UNCHANGED <<step, section, toExecute, executed, people, deaths>>

\* Mutation of BothDead: a household needs its father.
FatherDead(slots) == slots[1].age = -1

BothDead(slots) == slots[1].age = -1 /\ slots[2].age = -1

\* checkAgentRemoval, and the end of the turn in stepSection: a household that
\* lives on and has moved to the overlap goes to another world.
EndTurn(k) ==
    /\ turn.agent = k /\ turn.slot \notin DOMAIN households[k].slots
    /\ LET h == households[k]
       IN  households' =
               IF BothDead(h.slots) THEN [households EXCEPT ![k].exists = FALSE]
               ELSE IF h.position \notin Boundaries
               THEN [j \in DOMAIN households \ {k} |-> households[j]]
               ELSE households
    /\ turn' = [agent |-> NoAgent, slot |-> NoSlot]
    /\ UNCHANGED <<step, section, toExecute, executed, nextKey, people, deaths>>

\* The next call of stepSection; removeAgents comes after the last one.
NextSection ==
    /\ turn.agent = NoAgent /\ toExecute = {} /\ step < NumSteps
    /\ LET last == section = 3
           kept == {k \in DOMAIN households : households[k].exists}
       IN  /\ section' = IF last THEN 0 ELSE section + 1
           /\ step' = IF last THEN step + 1 ELSE step
           /\ executed' = IF last THEN {} ELSE executed
           /\ households' = IF last THEN [k \in kept |-> households[k]] ELSE households
           /\ toExecute' = IF step' = NumSteps THEN {}
                            ELSE InSection(households', section') \ executed'
    /\ UNCHANGED <<nextKey, turn, people, deaths>>

\* World::run has executed all steps.
Finished ==
    /\ step = NumSteps
    /\ UNCHANGED vars

Next ==
    \/ \E k \in 1 .. nextKey : Execute(k) \/ Marry(k) \/ EndTurn(k)
    \/ NextSection
    \/ Finished

Spec == Init /\ [][Next]_vars

-----------------------------------------------------------------------------
AtRest == turn.agent = NoAgent

Persons(hs, k) == {hs[k].slots[i].who : i \in Alive(hs[k].slots)}

\* A marriage moves its two persons: nobody is in two slots, of one household
\* or of two, although checkMarriage copies ages before it clears them.
NobodyTwice ==
    \A k, j \in DOMAIN households :
        \A i \in Alive(households[k].slots), l \in Alive(households[j].slots) :
            households[k].slots[i].who = households[j].slots[l].who => k = j /\ i = l

\* The first two slots are for parents: a child that is born after a parent has
\* died must not take the parent's slot, which addNewIndividual would fill first.
ParentsAreAdults ==
    \A k \in DOMAIN households : \A i \in Alive(households[k].slots) \intersect 1 .. 2 :
        households[k].slots[i].age >= AdulthoodAge

\* The parents of a household do not come from the same one, even where a
\* household has several children to marry and is its own nearest neighbour.
NoSiblings ==
    \A k \in DOMAIN households :
        LET couple == households[k].slots
        IN  1 .. 2 \subseteq Alive(couple) => couple[1].from # couple[2].from

\* What a turn does to other households: nobody leaves one but to become, grown
\* up, a parent in a household of their own; and nobody dies but in a turn of
\* their household.  A household vanishes without living parents, or by moving
\* to the overlap in its turn.
NobodyVanishes ==
    [][\A k \in DOMAIN households :
          IF k \in DOMAIN households'
          THEN \A p \in Persons(households, k) \ Persons(households', k) :
                   \/ k \in executed' \ executed
                   \/ /\ nextKey \in DOMAIN households'
                      /\ \E i \in 1 .. 2 :
                             /\ households'[nextKey].slots[i].who = p
                             /\ households'[nextKey].slots[i].age > AdulthoodAge
          ELSE \/ Alive(households[k].slots) \intersect 1 .. 2 = {}
               \/ k \in executed' \ executed
               \/ turn.agent = k /\ households[k].position \notin Boundaries]_vars

\* GujaratAgent.cxx:241: "TODO this method excludes the creation of children in
\* cells in other environments": a household that children have founded is,
\* between turns, in a cell of its world.
NewHomesInOwnCells ==
    AtRest => \A k \in DOMAIN households :
                  households[k].exists /\ k > NumHouseholds => households[k].position \in Boundaries
=============================================================================
