-------------------------- MODULE HouseholdsProofs --------------------------
(***************************************************************************)
(* Proofs about Households, for every world, every number of households,   *)
(* all families that they begin with, and all bounds on births, deaths and *)
(* steps.                                                                  *)
(***************************************************************************)
EXTENDS Households, WellFoundedInduction, TLAPS

Slot == [age : Nat \union {-1}, who : Nat, from : Int]

Record == [position : Dunes, exists : BOOLEAN, slots : Seq(Slot)]

\* What is in the variables: a turn is that of a household that is there and
\* that is not to be executed any more.
TypeInv ==
    /\ nextKey \in Nat \ {0} /\ people \in Nat
    /\ DOMAIN households \subseteq 1 .. nextKey - 1
    /\ households \in [DOMAIN households -> Record]
    /\ \A k \in DOMAIN households : Len(households[k].slots) >= 2
    /\ toExecute \subseteq DOMAIN households
    /\ turn \in [agent : Nat, slot : Nat]
    /\ turn.agent # NoAgent => turn.agent \in DOMAIN households \ toExecute /\ turn.slot > 2

\* A person that is born has a number that nobody has.
KnownPeople ==
    \A k \in DOMAIN households : \A i \in Alive(households[k].slots) :
        households[k].slots[i].who < people

\* Children live where they were born, until they marry.
ChildrenAtHome ==
    \A k \in DOMAIN households : \A i \in Alive(households[k].slots) :
        i > 2 => households[k].slots[i].from = k

PeopleInv == KnownPeople /\ NobodyTwice /\ ParentsAreAdults /\ ChildrenAtHome /\ NoSiblings

\* A household is executed once in a step; when it is removed its parents are dead.
RemovalInv ==
    /\ toExecute \intersect executed = {}
    /\ \A k \in DOMAIN households :
           ~households[k].exists => Alive(households[k].slots) \intersect 1 .. 2 = {}

HouseholdsInv == TypeInv /\ PeopleInv /\ RemovalInv

----------------------------------------------------------------------------
(* Slots *)

\* A person that is born in slot c of n; all others were in the same slot of s,
\* and are not younger.
Grown(n, s, c, child) ==
    \A i \in Alive(n) :
        IF i = c THEN n[i] = child
        ELSE /\ i \in Alive(s)
             /\ n[i].who = s[i].who /\ n[i].from = s[i].from /\ n[i].age >= s[i].age

LEMMA LeastElement ==
    ASSUME NEW S, S \subseteq Nat, S # {}
    PROVE  \E i \in S : \A j \in S : i <= j
<1>1. PICK i \in S : \A j \in S : ~(<<j, i>> \in OpToRel(<, Nat))
  BY NatLessThanWellFounded, WFMin
<1>2. OpToRel(<, Nat) = {ss \in Nat \X Nat : ss[1] < ss[2]}
  BY DEF OpToRel
<1>3. ASSUME NEW j \in S, j < i
      PROVE  FALSE
  <2>1. <<j, i>> \in {ss \in Nat \X Nat : ss[1] < ss[2]}
    BY <1>3
  <2> QED
    BY <2>1, <1>1, <1>2, Zenon
<1> QED
  BY <1>3

LEMMA NobodyType == Nobody \in Slot /\ Nobody.age = -1
BY DEF Nobody, Slot

LEMMA SlotType ==
    ASSUME NEW x \in Slot
    PROVE  x.age \in Int /\ x.who \in Nat /\ x.from \in Int
BY DEF Slot

LEMMA OlderSlot ==
    ASSUME NEW x \in Slot, x.age # -1
    PROVE  LET y == [x EXCEPT !.age = @ + 1]
           IN  y \in Slot /\ y.who = x.who /\ y.from = x.from /\ y.age >= x.age
BY DEF Slot

\* updateAges and checkMortality
LEMMA MournedSlots ==
    ASSUME NEW s \in Seq(Slot), NEW dead
    PROVE  LET m == Mourned(Aged(s), dead)
           IN  /\ m \in Seq(Slot) /\ Len(m) = Len(s)
               /\ \A child : Grown(m, s, 0, child)
<1> DEFINE a == Aged(s)
           m == Mourned(a, dead)
<1>1. DOMAIN a = 1 .. Len(s) /\ DOMAIN m = 1 .. Len(s) /\ Len(s) \in Nat
  BY DEF Aged, Mourned
<1>2. ASSUME NEW i \in 1 .. Len(s)
      PROVE  /\ a[i] \in Slot
             /\ s[i].age = -1 => a[i].age = -1
             /\ a[i].who = s[i].who /\ a[i].from = s[i].from /\ a[i].age >= s[i].age
  <2>1. s[i] \in Slot
    OBVIOUS
  <2>2. a[i] = IF s[i].age = -1 THEN s[i] ELSE [s[i] EXCEPT !.age = @ + 1]
    BY DEF Aged
  <2> QED
    BY <2>1, <2>2, OlderSlot
<1>3. \A i \in 1 .. Len(s) : m[i] = IF i \in dead THEN Nobody ELSE a[i]
  BY <1>1 DEF Mourned
<1>4. \A i \in 1 .. Len(s) : m[i] \in Slot
  BY <1>2, <1>3, NobodyType
<1>5. m = [i \in 1 .. Len(s) |-> m[i]]
  BY <1>1 DEF Mourned
<1>6. m \in Seq(Slot) /\ Len(m) = Len(s)
  BY <1>1, <1>4, <1>5
<1>7. ASSUME NEW i \in Alive(m)
      PROVE  /\ i \in Alive(s) /\ i # 0
             /\ m[i].who = s[i].who /\ m[i].from = s[i].from /\ m[i].age >= s[i].age
  <2>1. i \in 1 .. Len(s) /\ m[i].age # -1
    BY <1>1 DEF Alive
  <2>2. m[i] = a[i]
    BY <2>1, <1>3, NobodyType
  <2> QED
    BY <2>1, <2>2, <1>2 DEF Alive
<1>8. \A child : Grown(m, s, 0, child)
  BY <1>7 DEF Grown
<1> QED
  BY <1>6, <1>8

\* addNewIndividual, where both parents live
LEMMA NewIndividual ==
    ASSUME NEW s \in Seq(Slot), NEW m \in Seq(Slot), NEW child \in Slot,
           Len(m) >= 2, canReproduce(m), Grown(m, s, 0, child)
    PROVE  LET n == addNewIndividual(m, child)
           IN  /\ n \in Seq(Slot) /\ Len(n) >= Len(m)
               /\ \E c \in Nat : c > 2 /\ Grown(n, s, c, child)
<1> DEFINE n == addNewIndividual(m, child)
           free == DOMAIN m \ Alive(m)
<1>1. 1 \in Alive(m) /\ 2 \in Alive(m)
  BY DEF canReproduce, Alive
<1>2. CASE free = {}
  <2>1. n = Append(m, child)
    BY <1>2 DEF addNewIndividual
  <2>2. n \in Seq(Slot) /\ Len(n) = Len(m) + 1 /\ n[Len(m) + 1] = child
    BY <2>1
  <2>3. \A i \in 1 .. Len(m) : n[i] = m[i]
    BY <2>1
  <2>4. Grown(n, s, Len(m) + 1, child)
    <3>1. SUFFICES ASSUME NEW i \in Alive(n), i # Len(m) + 1
                   PROVE  i \in Alive(m) /\ n[i] = m[i] /\ i # 0
      BY <2>2 DEF Grown
    <3> QED
      BY <3>1, <2>2, <2>3 DEF Alive
  <2> QED
    BY <2>2, <2>4
<1>3. CASE free # {}
  <2> DEFINE c == CHOOSE i \in free : \A j \in free : i <= j
  <2>1. \E i \in free : \A j \in free : i <= j
    <3>1. free \subseteq Nat
      OBVIOUS
    <3> QED
      BY <3>1, <1>3, LeastElement
  <2>2. c \in free
    BY <2>1
  <2>3. c \in 1 .. Len(m) /\ c > 2
    BY <2>2, <1>1
  <2> HIDE DEF c
  <2>4. n = [m EXCEPT ![c] = child]
    BY <1>3 DEF addNewIndividual, c
  <2>5. n \in Seq(Slot) /\ Len(n) = Len(m)
    BY <2>3, <2>4
  <2>6. Grown(n, s, c, child)
    <3>1. SUFFICES ASSUME NEW i \in Alive(n), i # c
                   PROVE  i \in Alive(m) /\ n[i] = m[i] /\ i # 0
      BY <2>3, <2>4 DEF Grown, Alive
    <3> QED
      BY <3>1, <2>3, <2>4 DEF Alive
  <2> QED
    BY <2>3, <2>5, <2>6
<1> QED
  BY <1>2, <1>3

\* What a marriage leaves in a slot
LEMMA LeftSlots ==
    ASSUME NEW s \in Seq(Slot), NEW i \in DOMAIN s
    PROVE  /\ Left(s, i) \in Seq(Slot) /\ Len(Left(s, i)) = Len(s)
           /\ Alive(Left(s, i)) = Alive(s) \ {i}
           /\ \A l \in Alive(s) \ {i} : Left(s, i)[l] = s[l]
<1>1. /\ Left(s, i) \in Seq(Slot) /\ Len(Left(s, i)) = Len(s)
      /\ DOMAIN Left(s, i) = DOMAIN s
  BY NobodyType DEF Left
<1>2. \A l \in DOMAIN s : Left(s, i)[l] = IF l = i THEN Nobody ELSE s[l]
  BY DEF Left
<1> QED
  BY <1>1, <1>2, NobodyType DEF Alive

\* The bride is a child of her household.
LEMMA BrideIsEligible ==
    ASSUME TypeInv, NEW k, NEW j \in Candidates(k)
    PROVE  /\ j \in DOMAIN households /\ j # k
           /\ \A a : Bride(k, a, j) \in Eligible(households[j].slots)
<1>1. j \in DOMAIN households /\ j # k /\ Eligible(households[j].slots) # {}
  BY DEF Candidates, Neighbours
<1> DEFINE e == Eligible(households[j].slots)
<1>2. e \subseteq Nat
  BY <1>1 DEF Eligible, TypeInv, Record
<1>3. \E i \in e : \A l \in e : i <= l
  BY <1>1, <1>2, LeastElement
<1>4. \A a : Bride(k, a, j) = CHOOSE i \in e : \A l \in e : i <= l
  BY <1>1 DEF Bride
<1> HIDE DEF e
<1>5. (CHOOSE i \in e : \A l \in e : i <= l) \in e
  BY <1>3
<1> QED
  BY <1>1, <1>4, <1>5 DEF e

----------------------------------------------------------------------------
(* Households *)

\* Where nobody is born and nobody changes slots, all is as before; households
\* may vanish.
LEMMA SameSlots ==
    ASSUME PeopleInv, people' = people,
           DOMAIN households' \subseteq DOMAIN households,
           \A j \in DOMAIN households' : households'[j].slots = households[j].slots
    PROVE  PeopleInv'
<1>1. KnownPeople'
  BY DEF PeopleInv, KnownPeople
<1>2. NobodyTwice'
  BY DEF PeopleInv, NobodyTwice
<1>3. ParentsAreAdults'
  BY DEF PeopleInv, ParentsAreAdults
<1>4. ChildrenAtHome'
  BY DEF PeopleInv, ChildrenAtHome
<1>5. NoSiblings'
  <2>1. \A k \in DOMAIN households' : households'[k].slots = households[k].slots
    OBVIOUS
  <2> QED
    BY <2>1 DEF PeopleInv, NoSiblings
<1> QED
  BY <1>1, <1>2, <1>3, <1>4, <1>5 DEF PeopleInv

\* The new year of household k, in whose slot c a child may be born.
LEMMA NewYear ==
    ASSUME TypeInv, PeopleInv, people' \in Nat, people' >= people,
           DOMAIN households' = DOMAIN households, NEW k \in DOMAIN households,
           \A j \in DOMAIN households \ {k} : households'[j].slots = households[j].slots,
           households'[k].slots \in Seq(Slot),
           NEW c \in Nat, NEW child, Grown(households'[k].slots, households[k].slots, c, child),
           c # 0 => c > 2 /\ child = Newborn(k) /\ people' > people
    PROVE  PeopleInv'
<1> DEFINE new(j, i) == j = k /\ i = c
           s(j) == households[j].slots
           n(j) == households'[j].slots
<1>1. ASSUME NEW j \in DOMAIN households, NEW i \in Alive(n(j)), ~new(j, i)
      PROVE  /\ i \in Alive(s(j)) /\ i \in Nat
             /\ n(j)[i].who = s(j)[i].who /\ n(j)[i].from = s(j)[i].from
             /\ n(j)[i].age >= s(j)[i].age /\ s(j)[i] \in Slot
             /\ n(j)[i].age \in Int /\ s(j)[i].age \in Int
  <2>1. s(j) \in Seq(Slot)
    BY DEF TypeInv, Record
  <2>2. i \in Alive(s(j)) => i \in Nat /\ s(j)[i] \in Slot /\ s(j)[i].age \in Int
    <3>1. i \in Alive(s(j)) => i \in 1 .. Len(s(j)) /\ s(j)[i] \in Slot
      BY <2>1 DEF Alive
    <3> QED
      BY <3>1, SlotType
  <2>3. CASE j = k
    <3>1. n(k)[i] \in Slot
      BY <2>3 DEF Alive
    <3>2. n(k)[i].age \in Int
      BY <3>1, SlotType
    <3>3. /\ i \in Alive(s(k)) /\ n(k)[i].age >= s(k)[i].age
          /\ n(k)[i].who = s(k)[i].who /\ n(k)[i].from = s(k)[i].from
      BY <1>1, <2>3 DEF Grown
    <3> QED
      BY <2>2, <2>3, <3>2, <3>3
  <2>4. CASE j # k
    BY <1>1, <2>2, <2>4
  <2> QED
    BY <2>3, <2>4
<1>2. ASSUME NEW j \in DOMAIN households, NEW i \in Alive(n(j)), new(j, i)
      PROVE  i > 2 /\ n(j)[i].who = people /\ n(j)[i].from = k
  <2>1. c # 0
    <3>1. n(k) \in Seq(Slot)
      OBVIOUS
    <3> QED
      BY <1>2, <3>1 DEF Alive
  <2>2. n(k)[c] = Newborn(k)
    BY <1>2, <2>1 DEF Grown
  <2> QED
    BY <1>2, <2>1, <2>2 DEF Newborn
<1>3. people \in Nat
  BY DEF TypeInv
<1>4. ASSUME NEW j \in DOMAIN households, NEW i \in Alive(n(j)), ~new(j, i)
      PROVE  n(j)[i].who \in Nat /\ n(j)[i].who < people
  BY <1>1, <1>4 DEF PeopleInv, KnownPeople, Slot
<1> HIDE DEF new, s, n
<1>5. KnownPeople'
  <2> SUFFICES ASSUME NEW j \in DOMAIN households, NEW i \in Alive(n(j))
               PROVE  n(j)[i].who < people'
    BY DEF KnownPeople, n
  <2>1. CASE new(j, i)
    <3>1. n(j)[i].who = people /\ c # 0
      BY <1>2, <2>1 DEF new, n, Alive
    <3> QED
      BY <3>1, <1>3
  <2>2. CASE ~new(j, i)
    BY <2>2, <1>3, <1>4
  <2> QED
    BY <2>1, <2>2
<1>6. NobodyTwice'
  <2> SUFFICES ASSUME NEW j \in DOMAIN households, NEW i \in Alive(n(j)),
                      NEW h \in DOMAIN households, NEW l \in Alive(n(h)),
                      n(j)[i].who = n(h)[l].who
               PROVE  j = h /\ i = l
    BY DEF NobodyTwice, n
  <2>1. CASE new(j, i) /\ new(h, l)
    BY <2>1 DEF new
  <2>2. CASE ~new(j, i) /\ ~new(h, l)
    BY <2>2, <1>1 DEF PeopleInv, NobodyTwice, s
  <2>3. CASE new(j, i) /\ ~new(h, l)
    BY <2>3, <1>2, <1>3, <1>4
  <2>4. CASE ~new(j, i) /\ new(h, l)
    BY <2>4, <1>2, <1>3, <1>4
  <2> QED
    BY <2>1, <2>2, <2>3, <2>4
<1>7. ParentsAreAdults'
  <2> SUFFICES ASSUME NEW j \in DOMAIN households, NEW i \in Alive(n(j)), i \in 1 .. 2
               PROVE  n(j)[i].age >= AdulthoodAge
    BY DEF ParentsAreAdults, n
  <2>1. ~new(j, i)
    BY <1>2
  <2>2. s(j)[i].age >= AdulthoodAge
    BY <2>1, <1>1 DEF PeopleInv, ParentsAreAdults, s
  <2> QED
    <3>1. s(j)[i].age \in Int /\ n(j)[i].age \in Int /\ n(j)[i].age >= s(j)[i].age
      BY <2>1, <1>1
    <3>2. AdulthoodAge \in Nat
      BY NumbersAssumption
    <3> QED
      BY <2>2, <3>1, <3>2
<1>8. ChildrenAtHome'
  <2> SUFFICES ASSUME NEW j \in DOMAIN households, NEW i \in Alive(n(j)), i > 2
               PROVE  n(j)[i].from = j
    BY DEF ChildrenAtHome, n
  <2>1. CASE new(j, i)
    BY <2>1, <1>2 DEF new
  <2>2. CASE ~new(j, i)
    BY <2>2, <1>1 DEF PeopleInv, ChildrenAtHome, s
  <2> QED
    BY <2>1, <2>2
<1>9. NoSiblings'
  <2> SUFFICES ASSUME NEW j \in DOMAIN households, 1 .. 2 \subseteq Alive(n(j))
               PROVE  n(j)[1].from # n(j)[2].from
    BY DEF NoSiblings, n
  <2>1. 1 \in Alive(n(j)) /\ 2 \in Alive(n(j))
    OBVIOUS
  <2>2. ~new(j, 1) /\ ~new(j, 2)
    BY <2>1, <1>2
  <2>3. 1 .. 2 \subseteq Alive(s(j))
    BY <2>1, <2>2, <1>1
  <2> QED
    BY <2>1, <2>2, <2>3, <1>1 DEF PeopleInv, NoSiblings, s
<1> QED
  BY <1>5, <1>6, <1>7, <1>8, <1>9 DEF PeopleInv

\* Everybody has come from one slot, and no two from the same.
LEMMA WeddingPeople ==
    ASSUME TypeInv, PeopleInv, people' = people, NEW home,
           NEW k \in DOMAIN households, NEW j \in DOMAIN households, k # j,
           NEW a \in Eligible(households[k].slots), NEW b \in Eligible(households[j].slots),
           households' = Wedding(k, j, a, b, home)
    PROVE  PeopleInv'
<1> DEFINE s(h) == households[h].slots
           n(h) == households'[h].slots
           fromHouse(h, i) == IF h # nextKey THEN h ELSE IF i = 1 THEN k ELSE j
           fromSlot(h, i) == IF h # nextKey THEN i ELSE IF i = 1 THEN a ELSE b
<1>1. /\ \A h \in DOMAIN households : s(h) \in Seq(Slot) /\ h # nextKey
      /\ \A h \in DOMAIN households : households[h] \in Record
  BY DEF TypeInv, Record
<1>2. /\ a \in DOMAIN s(k) /\ a \in Alive(s(k)) /\ a > 2 /\ s(k)[a].age > AdulthoodAge
      /\ b \in DOMAIN s(j) /\ b \in Alive(s(j)) /\ b > 2 /\ s(j)[b].age > AdulthoodAge
  <2>1. /\ a \in DOMAIN s(k) /\ a > 2 /\ s(k)[a].age > AdulthoodAge
        /\ b \in DOMAIN s(j) /\ b > 2 /\ s(j)[b].age > AdulthoodAge
    BY DEF Eligible
  <2>2. s(k)[a] \in Slot /\ s(j)[b] \in Slot
    BY <1>1, <2>1
  <2>3. s(k)[a].age \in Int /\ s(j)[b].age \in Int
    BY <2>2, SlotType
  <2>4. AdulthoodAge \in Nat
    BY NumbersAssumption
  <2>5. s(k)[a].age # -1 /\ s(j)[b].age # -1
    BY <2>1, <2>3, <2>4
  <2> QED
    BY <2>1, <2>5 DEF Alive
<1>3. DOMAIN households' = DOMAIN households \union {nextKey}
  BY DEF Wedding
<1>4. n(nextKey) = <<s(k)[a], s(j)[b]>>
  <2>1. households'[nextKey] = [position |-> home, exists |-> TRUE,
                                slots |-> <<s(k)[a], s(j)[b]>>]
    BY <1>3 DEF Wedding
  <2> QED
    BY <2>1
<1>5. n(k) = Left(s(k), a) /\ n(j) = Left(s(j), b)
  <2>1. /\ households'[k] = [households[k] EXCEPT !.slots = Left(@, a)]
        /\ households'[j] = [households[j] EXCEPT !.slots = Left(@, b)]
    BY <1>1, <1>3 DEF Wedding
  <2>2. \A x : \A r \in Record : [r EXCEPT !.slots = x].slots = x
    BY DEF Record
  <2> QED
    BY <1>1, <2>1, <2>2
<1>6. \A h \in DOMAIN households \ {k, j} : n(h) = s(h)
  BY <1>1, <1>3 DEF Wedding
<1> HIDE DEF s, n
<1>7. ASSUME NEW h \in DOMAIN households', NEW i \in Alive(n(h))
      PROVE  /\ fromHouse(h, i) \in DOMAIN households
             /\ fromSlot(h, i) \in Alive(s(fromHouse(h, i)))
             /\ n(h)[i] = s(fromHouse(h, i))[fromSlot(h, i)]
             /\ h = nextKey => i \in {1, 2}
             /\ h = k => i # a
             /\ h = j => i # b
  <2>1. CASE h = nextKey
    <3>1. i \in {1, 2}
      BY <2>1, <1>4 DEF Alive
    <3> QED
      BY <2>1, <3>1, <1>1, <1>2, <1>4
  <2>2. CASE h = k
    BY <2>2, <1>1, <1>2, <1>5, LeftSlots
  <2>3. CASE h = j
    BY <2>3, <1>1, <1>2, <1>5, LeftSlots
  <2>4. CASE h \notin {nextKey, k, j}
    BY <2>4, <1>1, <1>3, <1>6
  <2> QED
    BY <2>1, <2>2, <2>3, <2>4
<1>8. ASSUME NEW h \in DOMAIN households', NEW i \in Alive(n(h)),
             NEW g \in DOMAIN households', NEW l \in Alive(n(g)),
             fromHouse(h, i) = fromHouse(g, l), fromSlot(h, i) = fromSlot(g, l)
      PROVE  h = g /\ i = l
  BY <1>7, <1>8, <1>1
<1> HIDE DEF fromHouse, fromSlot
<1>9. KnownPeople'
  <2> SUFFICES ASSUME NEW h \in DOMAIN households', NEW i \in Alive(n(h))
               PROVE  n(h)[i].who < people
    BY DEF KnownPeople, n
  <2> QED
    BY <1>7 DEF PeopleInv, KnownPeople, s
<1>10. NobodyTwice'
  <2> SUFFICES ASSUME NEW h \in DOMAIN households', NEW i \in Alive(n(h)),
                      NEW g \in DOMAIN households', NEW l \in Alive(n(g)),
                      n(h)[i].who = n(g)[l].who
               PROVE  h = g /\ i = l
    BY DEF NobodyTwice, n
  <2>1. fromHouse(h, i) = fromHouse(g, l) /\ fromSlot(h, i) = fromSlot(g, l)
    BY <1>7 DEF PeopleInv, NobodyTwice, s
  <2> QED
    BY <2>1, <1>8
<1>11. ParentsAreAdults'
  <2> SUFFICES ASSUME NEW h \in DOMAIN households', NEW i \in Alive(n(h)), i \in 1 .. 2
               PROVE  n(h)[i].age >= AdulthoodAge
    BY DEF ParentsAreAdults, n
  <2>1. CASE h = nextKey
    <3>1. s(k)[a].age \in Int /\ s(j)[b].age \in Int
      BY <1>1, <1>2, SlotType
    <3>2. n(h)[i] \in {s(k)[a], s(j)[b]}
      BY <2>1, <1>4
    <3> QED
      BY <3>1, <3>2, <1>2, NumbersAssumption
  <2>2. CASE h # nextKey
    <3>1. h \in DOMAIN households /\ i \in Alive(s(h)) /\ n(h)[i] = s(h)[i]
      BY <2>2, <1>3, <1>7 DEF fromHouse, fromSlot
    <3> QED
      BY <3>1 DEF PeopleInv, ParentsAreAdults, s
  <2> QED
    BY <2>1, <2>2
<1>12. ChildrenAtHome'
  <2> SUFFICES ASSUME NEW h \in DOMAIN households', NEW i \in Alive(n(h)), i > 2
               PROVE  n(h)[i].from = h
    BY DEF ChildrenAtHome, n
  <2>1. h # nextKey
    BY <1>7
  <2>2. h \in DOMAIN households /\ i \in Alive(s(h)) /\ n(h)[i] = s(h)[i]
    BY <2>1, <1>3, <1>7 DEF fromHouse, fromSlot
  <2> QED
    BY <2>2 DEF PeopleInv, ChildrenAtHome, s
<1>13. NoSiblings'
  <2> SUFFICES ASSUME NEW h \in DOMAIN households', 1 .. 2 \subseteq Alive(n(h))
               PROVE  n(h)[1].from # n(h)[2].from
    BY DEF NoSiblings, n
  <2>1. CASE h = nextKey
    <3>1. s(k)[a].from = k /\ s(j)[b].from = j
      BY <1>2 DEF PeopleInv, ChildrenAtHome, s
    <3> QED
      BY <2>1, <3>1, <1>4
  <2>2. CASE h # nextKey
    <3>1. 1 \in Alive(n(h)) /\ 2 \in Alive(n(h))
      OBVIOUS
    <3>2. h \in DOMAIN households /\ 1 .. 2 \subseteq Alive(s(h))
      BY <2>2, <3>1, <1>3, <1>7 DEF fromHouse, fromSlot
    <3>3. n(h)[1] = s(h)[1] /\ n(h)[2] = s(h)[2]
      BY <2>2, <3>1, <1>7 DEF fromHouse, fromSlot
    <3> QED
      BY <3>2, <3>3 DEF PeopleInv, NoSiblings, s
  <2> QED
    BY <2>1, <2>2
<1> QED
  BY <1>9, <1>10, <1>11, <1>12, <1>13 DEF PeopleInv

----------------------------------------------------------------------------
(* Init and the actions *)

\* createInitialPopulation numbers at most 17 persons of a household.
Initial(h, k) ==
    /\ h \in Record /\ Len(h.slots) >= 2
    /\ \A i \in Alive(h.slots) :
           /\ i \in Nat /\ 0 < i /\ i <= 17 /\ h.slots[i].who = 20 * k + i
           /\ h.slots[i].from = IF i > 2 THEN k ELSE -(2 * k + i)
           /\ i <= 2 => h.slots[i].age >= AdulthoodAge

LEMMA InitialHousehold ==
    ASSUME NEW k \in Nat, NEW f \in Families, NEW p \in Dunes
    PROVE  Initial(Household(k, f, p), k)
<1> DEFINE h == Household(k, f, p)
           from(i) == IF i > 2 THEN k ELSE -(2 * k + i)
<1>1. f \in Seq(Int) /\ Len(f) \in Nat /\ Len(f) >= 2 /\ Len(f) <= 17 /\ DOMAIN f = 1 .. Len(f)
  BY FamiliesAssumption
<1>2. \A i \in 1 .. Len(f) :
          /\ f[i] \in Nat \union {-1}
          /\ i <= 2 => f[i] >= AdulthoodAge
  <2> SUFFICES ASSUME NEW i \in 1 .. Len(f)
               PROVE  f[i] \in Nat \union {-1} /\ (i <= 2 => f[i] >= AdulthoodAge)
    OBVIOUS
  <2>1. IF i <= 2 THEN f[i] >= AdulthoodAge ELSE f[i] \in -1 .. AdulthoodAge
    BY FamiliesAssumption
  <2>2. f[i] \in Int
    BY <1>1
  <2>3. AdulthoodAge \in Nat
    BY NumbersAssumption
  <2> QED
    BY <2>1, <2>2, <2>3
<1>3. /\ h.position = p /\ h.exists = TRUE
      /\ h = [position |-> p, exists |-> TRUE, slots |-> h.slots]
      /\ h.slots = [i \in 1 .. Len(f) |->
             IF f[i] = -1 THEN Nobody
             ELSE [age |-> f[i], who |-> 20 * k + i, from |-> from(i)]]
  BY <1>1 DEF Household
<1> HIDE DEF h, from
<1>4. \A i \in 1 .. Len(f) : h.slots[i] \in Slot
  <2>1. SUFFICES ASSUME NEW i \in 1 .. Len(f), f[i] # -1
                 PROVE  h.slots[i] \in Slot
    BY <1>3, NobodyType
  <2>2. h.slots[i] = [age |-> f[i], who |-> 20 * k + i, from |-> from(i)]
    BY <1>3, <2>1
  <2>3. f[i] \in Nat /\ 20 * k + i \in Nat /\ from(i) \in Int
    BY <1>1, <1>2, <2>1 DEF from
  <2> QED
    BY <2>2, <2>3 DEF Slot
<1>5. h.slots \in Seq(Slot) /\ Len(h.slots) = Len(f)
  BY <1>1, <1>3, <1>4
<1>6. h \in Record /\ Len(h.slots) >= 2
  BY <1>1, <1>3, <1>5 DEF Record
<1>7. ASSUME NEW i \in Alive(h.slots)
      PROVE  /\ i \in Nat /\ 0 < i /\ i <= 17 /\ h.slots[i].who = 20 * k + i
             /\ h.slots[i].from = from(i)
             /\ i <= 2 => h.slots[i].age >= AdulthoodAge
  <2>1. i \in 1 .. Len(f) /\ h.slots[i].age # -1
    BY <1>5 DEF Alive
  <2>2. h.slots[i] = [age |-> f[i], who |-> 20 * k + i, from |-> from(i)]
    BY <1>3, <2>1, NobodyType
  <2>3. i \in Nat /\ 0 < i /\ i <= 17 /\ (i <= 2 => f[i] >= AdulthoodAge)
    BY <1>1, <1>2, <2>1
  <2> QED
    BY <2>2, <2>3
<1> QED
  BY <1>6, <1>7 DEF Initial, h, from

LEMMA PersonNumbers ==
    ASSUME NEW k \in Nat, NEW i \in Nat, 0 < i, i <= 17,
           NEW j \in Nat, NEW l \in Nat, 0 < l, l <= 17, 20 * k + i = 20 * j + l
    PROVE  k = j /\ i = l
OBVIOUS

LEMMA InitHouseholds == Init => HouseholdsInv
<1> SUFFICES ASSUME Init PROVE HouseholdsInv
  OBVIOUS
<1>1. PICK ages \in [1 .. NumHouseholds -> Families],
           cell \in [1 .. NumHouseholds -> Dunes] :
           households = [k \in 1 .. NumHouseholds |-> Household(k, ages[k], cell[k])]
  BY DEF Init
<1>2. NumHouseholds \in Nat /\ AdulthoodAge \in Nat
  BY NumbersAssumption
<1>3. nextKey = NumHouseholds + 1 /\ people = 20 * (NumHouseholds + 1)
  BY DEF Init
<1>4. DOMAIN households = 1 .. NumHouseholds
  BY <1>1
<1>5. ASSUME NEW k \in DOMAIN households
      PROVE  k \in Nat /\ k <= NumHouseholds /\ Initial(households[k], k)
  <2>1. /\ k \in Nat /\ k <= NumHouseholds /\ ages[k] \in Families /\ cell[k] \in Dunes
        /\ households[k] = Household(k, ages[k], cell[k])
    BY <1>1, <1>2, <1>4
  <2> QED
    BY <2>1, InitialHousehold
<1>6. TypeInv
  <2>1. DOMAIN households \subseteq 1 .. nextKey - 1
    BY <1>2, <1>3, <1>4
  <2>2. households \in [DOMAIN households -> Record]
    BY <1>1, <1>5 DEF Initial
  <2>3. turn \in [agent : Nat, slot : Nat] /\ turn.agent = NoAgent
    BY DEF Init, NoAgent, NoSlot
  <2>4. toExecute \subseteq DOMAIN households
    BY DEF Init, InSection
  <2>5. \A k \in DOMAIN households : Len(households[k].slots) >= 2
    BY <1>5 DEF Initial
  <2>6. nextKey \in Nat \ {0} /\ people \in Nat
    BY <1>2, <1>3
  <2> QED
    BY <2>1, <2>2, <2>3, <2>4, <2>5, <2>6 DEF TypeInv
<1> DEFINE who(k, i) == households[k].slots[i].who
<1>7. ASSUME NEW k \in DOMAIN households, NEW i \in Alive(households[k].slots)
      PROVE  /\ k \in Nat /\ k <= NumHouseholds
             /\ i \in Nat /\ 0 < i /\ i <= 17 /\ who(k, i) = 20 * k + i
  BY <1>5 DEF Initial
<1> HIDE DEF who
<1>8. KnownPeople
  <2> SUFFICES ASSUME NEW k \in DOMAIN households, NEW i \in Alive(households[k].slots)
               PROVE  who(k, i) < people
    BY DEF KnownPeople, who
  <2> QED
    BY <1>2, <1>3, <1>7
<1>9. NobodyTwice
  <2> SUFFICES ASSUME NEW k \in DOMAIN households, NEW i \in Alive(households[k].slots),
                      NEW j \in DOMAIN households, NEW l \in Alive(households[j].slots),
                      who(k, i) = who(j, l)
               PROVE  k = j /\ i = l
    BY DEF NobodyTwice, who
  <2>1. 20 * k + i = 20 * j + l
    BY <1>7
  <2>2. /\ k \in Nat /\ i \in Nat /\ 0 < i /\ i <= 17
        /\ j \in Nat /\ l \in Nat /\ 0 < l /\ l <= 17
    BY <1>7
  <2> QED
    BY <2>1, <2>2, PersonNumbers
<1>10. ParentsAreAdults
  <2> SUFFICES ASSUME NEW k \in DOMAIN households, NEW i \in Alive(households[k].slots),
                      i \in 1 .. 2
               PROVE  households[k].slots[i].age >= AdulthoodAge
    BY DEF ParentsAreAdults
  <2>1. i <= 2
    OBVIOUS
  <2> QED
    BY <1>5, <2>1 DEF Initial
<1>11. ChildrenAtHome
  BY <1>5 DEF ChildrenAtHome, Initial
<1>12. NoSiblings
  <2> SUFFICES ASSUME NEW k \in DOMAIN households, 1 .. 2 \subseteq Alive(households[k].slots)
               PROVE  households[k].slots[1].from # households[k].slots[2].from
    BY DEF NoSiblings
  <2>1. 1 \in Alive(households[k].slots) /\ 2 \in Alive(households[k].slots)
    OBVIOUS
  <2>2. households[k].slots[1].from = -(2 * k + 1) /\ households[k].slots[2].from = -(2 * k + 2)
    BY <2>1, <1>5 DEF Initial
  <2> QED
    BY <2>2, <1>2, <1>4
<1>13. RemovalInv
  <2>1. \A k \in DOMAIN households : households[k].exists
    BY <1>1 DEF Household
  <2> QED
    BY <2>1 DEF RemovalInv, Init
<1> QED
  BY <1>6, <1>8, <1>9, <1>10, <1>11, <1>12, <1>13 DEF HouseholdsInv, PeopleInv

LEMMA ExecuteHouseholds ==
    ASSUME HouseholdsInv, NEW k, Execute(k)
    PROVE  HouseholdsInv'
<1> USE DEF HouseholdsInv
<1>1. PICK home \in Homes(households[k].position) :
           IF ~EndOfYear
           THEN /\ households' =
                       IF home \in Boundaries
                       THEN [households EXCEPT ![k].position = home]
                       ELSE [j \in DOMAIN households \ {k} |-> households[j]]
                /\ UNCHANGED <<turn, people, deaths>>
           ELSE \E dead \in SUBSET Alive(households[k].slots), birth \in BOOLEAN :
                    LET slots == Mourned(Aged(households[k].slots), dead)
                    IN  /\ birth => canReproduce(slots)
                        /\ deaths' = deaths + Cardinality(dead)
                        /\ people' = people + (IF birth THEN 1 ELSE 0)
                        /\ deaths' + people' <= 20 * (NumHouseholds + 1) + MaxChanges
                        /\ households' = [households EXCEPT ![k] = [@ EXCEPT !.position = home, !.slots =
                               IF birth THEN addNewIndividual(slots, Newborn(k)) ELSE slots]]
                        /\ turn' = [agent |-> k, slot |-> 3]
  BY DEF Execute
<1>2. /\ turn.agent = NoAgent /\ toExecute' = toExecute \ {k} /\ nextKey' = nextKey
      /\ k \in DOMAIN households /\ k \in Nat /\ nextKey \in Nat \ {0}
      /\ households \in [DOMAIN households -> Record]
      /\ \A j \in DOMAIN households : Len(households[j].slots) >= 2
  <2>1. turn.agent = NoAgent /\ toExecute' = toExecute \ {k} /\ nextKey' = nextKey
    BY DEF Execute
  <2>2. k \in toExecute
    BY DEF Execute
  <2>3. k \in DOMAIN households /\ k \in 1 .. nextKey - 1 /\ nextKey \in Nat \ {0}
    BY <2>2 DEF TypeInv
  <2> QED
    BY <2>1, <2>3 DEF TypeInv
<1>3. home \in Dunes
  BY <1>2 DEF Homes, Record
<1>4. (toExecute \intersect executed)' = {}
  BY DEF Execute, RemovalInv
<1>5. CASE ~EndOfYear
  <2>1. turn' = turn /\ people' = people
    BY <1>1, <1>5
  <2>2. /\ DOMAIN households' \subseteq DOMAIN households
        /\ k \notin DOMAIN households' => DOMAIN households' = DOMAIN households \ {k}
        /\ k \in DOMAIN households' => DOMAIN households' = DOMAIN households
        /\ \A j \in DOMAIN households' :
               /\ households'[j] \in Record /\ households'[j].slots = households[j].slots
               /\ households'[j].exists = households[j].exists
    <3>1. CASE home \in Boundaries
      <4>1. households' = [households EXCEPT ![k].position = home]
        BY <1>1, <1>5, <3>1
      <4>2. /\ DOMAIN households' = DOMAIN households
            /\ \A j \in DOMAIN households \ {k} : households'[j] = households[j]
        BY <1>2, <4>1
      <4>3. /\ households'[k] \in Record /\ households'[k].slots = households[k].slots
            /\ households'[k].exists = households[k].exists
        BY <1>2, <1>3, <4>1 DEF Record
      <4> QED
        BY <1>2, <4>2, <4>3
    <3>2. CASE home \notin Boundaries
      <4>1. households' = [j \in DOMAIN households \ {k} |-> households[j]]
        BY <1>1, <1>5, <3>2
      <4> QED
        BY <1>2, <4>1
    <3> QED
      BY <3>1, <3>2
  <2>3. households' \in [DOMAIN households' -> Record]
    BY <1>1, <1>5, <2>2
  <2>4. TypeInv'
    BY <1>2, <2>1, <2>2, <2>3 DEF TypeInv, NoAgent
  <2>5. PeopleInv'
    BY <2>1, <2>2, SameSlots
  <2>6. RemovalInv'
    BY <1>4, <2>2 DEF RemovalInv
  <2> QED
    BY <2>4, <2>5, <2>6
<1>6. CASE EndOfYear
  <2> DEFINE s == households[k].slots
  <2>1. PICK dead \in SUBSET Alive(s), birth \in BOOLEAN :
            LET slots == Mourned(Aged(s), dead)
            IN  /\ birth => canReproduce(slots)
                /\ households' = [households EXCEPT ![k] = [@ EXCEPT !.position = home, !.slots =
                       IF birth THEN addNewIndividual(slots, Newborn(k)) ELSE slots]]
                /\ people' = people + (IF birth THEN 1 ELSE 0)
                /\ turn' = [agent |-> k, slot |-> 3]
    BY <1>1, <1>6
  <2> DEFINE m == Mourned(Aged(s), dead)
             n == IF birth THEN addNewIndividual(m, Newborn(k)) ELSE m
  <2>2. s \in Seq(Slot) /\ Len(s) >= 2
    BY <1>2 DEF Record
  <2>3. m \in Seq(Slot) /\ Len(m) = Len(s) /\ \A child : Grown(m, s, 0, child)
    BY <2>2, MournedSlots
  <2>4. people \in Nat /\ Newborn(k) \in Slot
    BY <1>2 DEF TypeInv, Newborn, Slot
  <2>5. /\ n \in Seq(Slot) /\ Len(n) >= 2
        /\ \E c \in Nat : /\ Grown(n, s, c, Newborn(k))
                          /\ c # 0 => c > 2 /\ birth
    <3>1. CASE birth
      <4>1. canReproduce(m)
        BY <3>1, <2>1
      <4> HIDE DEF m, s
      <4>2. /\ addNewIndividual(m, Newborn(k)) \in Seq(Slot)
            /\ Len(addNewIndividual(m, Newborn(k))) >= Len(m)
            /\ \E c \in Nat : c > 2 /\ Grown(addNewIndividual(m, Newborn(k)), s, c, Newborn(k))
        BY <4>1, <2>2, <2>3, <2>4, NewIndividual
      <4>3. Len(addNewIndividual(m, Newborn(k))) \in Nat /\ Len(m) \in Nat
        BY <4>2, <2>3
      <4> QED
        BY <3>1, <4>2, <4>3, <2>2, <2>3
    <3>2. CASE ~birth
      BY <3>2, <2>2, <2>3
    <3> QED
      BY <3>1, <3>2
  <2>6. PICK c \in Nat : Grown(n, s, c, Newborn(k)) /\ (c # 0 => c > 2 /\ birth)
    BY <2>5
  <2>7. /\ people' = people + (IF birth THEN 1 ELSE 0) /\ turn' = [agent |-> k, slot |-> 3]
        /\ households' = [households EXCEPT ![k] = [@ EXCEPT !.position = home, !.slots = n]]
    BY <2>1
  <2> HIDE DEF n, m
  <2>8. /\ DOMAIN households' = DOMAIN households
        /\ households'[k] = [households[k] EXCEPT !.position = home, !.slots = n]
        /\ \A j \in DOMAIN households \ {k} : households'[j] = households[j]
    <3> DEFINE q == [households[k] EXCEPT !.position = home, !.slots = n]
    <3>1. households' = [households EXCEPT ![k] = q]
      BY <2>7
    <3> HIDE DEF q
    <3>2. /\ DOMAIN households' = DOMAIN households /\ households'[k] = q
          /\ \A j \in DOMAIN households \ {k} : households'[j] = households[j]
      BY <1>2, <3>1
    <3> QED
      BY <3>2 DEF q
  <2>9. /\ households'[k] \in Record /\ households'[k].slots = n
        /\ households'[k].exists = households[k].exists
    <3>1. households[k] \in Record
      BY <1>2
    <3>2. n \in Seq(Slot)
      BY <2>5
    <3>3. households'[k] = [households[k] EXCEPT !.position = home, !.slots = n]
      BY <2>8
    <3>4. PICK r \in Record : r = households[k]
      BY <3>1
    <3>5. PICK q : q = households'[k]
      OBVIOUS
    <3>6. q = [r EXCEPT !.position = home, !.slots = n]
      BY <3>3, <3>4, <3>5, Zenon
    <3>7. q \in Record /\ q.slots = n /\ q.exists = r.exists
      BY <1>3, <3>2, <3>6 DEF Record
    <3> QED
      BY <3>4, <3>5, <3>7
  <2>10. households' \in [DOMAIN households' -> Record]
    BY <1>2, <2>7, <2>8, <2>9
  <2>11. people' \in Nat /\ people' >= people /\ (birth => people' > people)
    BY <2>4, <2>7
  <2>12. TypeInv'
    BY <1>2, <2>5, <2>7, <2>8, <2>9, <2>10, <2>11 DEF TypeInv
  <2>13. PeopleInv'
    BY <1>2, <2>5, <2>6, <2>8, <2>9, <2>11, NewYear
  <2>14. RemovalInv'
    <3>1. Alive(n) \intersect 1 .. 2 \subseteq Alive(s)
      BY <2>6 DEF Grown
    <3> QED
      BY <1>2, <1>4, <2>8, <2>9, <3>1 DEF RemovalInv
  <2> QED
    BY <2>12, <2>13, <2>14
<1> QED
  BY <1>5, <1>6

LEMMA MarryHouseholds ==
    ASSUME HouseholdsInv, NEW k \in 1 .. nextKey, Marry(k)
    PROVE  HouseholdsInv'
<1> USE DEF HouseholdsInv
<1>1. /\ turn.agent = k /\ turn \in [agent : Nat, slot : Nat] /\ people' = people
      /\ toExecute' = toExecute /\ executed' = executed /\ toExecute \subseteq DOMAIN households
      /\ nextKey \in Nat \ {0} /\ people \in Nat
      /\ DOMAIN households \subseteq 1 .. nextKey - 1
      /\ households \in [DOMAIN households -> Record]
      /\ \A h \in DOMAIN households : Len(households[h].slots) >= 2
  BY DEF Marry, TypeInv
<1>2. k \in DOMAIN households \ toExecute /\ turn.slot \in Nat /\ turn.slot > 2
  <2>1. k # NoAgent
    BY <1>1 DEF NoAgent
  <2> QED
    BY <1>1, <2>1 DEF TypeInv
<1>3. ASSUME NEW x \in Nat, x > 2, turn' = [turn EXCEPT !.slot = x],
             UNCHANGED <<households, nextKey>>
      PROVE  HouseholdsInv'
  <2>1. turn' \in [agent : Nat, slot : Nat] /\ turn'.agent = k /\ turn'.slot > 2
    BY <1>1, <1>3
  <2>2. TypeInv'
    BY <1>1, <1>2, <1>3, <2>1 DEF TypeInv
  <2>3. PeopleInv'
    BY <1>1, <1>3, SameSlots
  <2>4. RemovalInv'
    BY <1>1, <1>3 DEF RemovalInv
  <2> QED
    BY <2>2, <2>3, <2>4
<1> DEFINE s == households[k].slots
<1>4. s \in Seq(Slot) /\ Len(s) \in Nat /\ Len(s) >= 2
  <2>1. s \in Seq(Slot)
    BY <1>1, <1>2 DEF Record
  <2> QED
    BY <1>1, <1>2, <2>1
<1>5. CASE turn.slot \notin Eligible(s)
  <2>1. turn' = [turn EXCEPT !.slot = @ + 1] /\ UNCHANGED <<households, nextKey>>
    BY <1>5 DEF Marry
  <2> QED
    BY <1>2, <1>3, <2>1
<1>6. CASE turn.slot \in Eligible(s) /\ Candidates(k) = {}
  <2>1. turn' = [turn EXCEPT !.slot = Len(s) + 1] /\ UNCHANGED <<households, nextKey>>
    BY <1>6 DEF Marry
  <2>2. Len(s) + 1 \in Nat /\ Len(s) + 1 > 2
    BY <1>4
  <2> QED
    BY <1>3, <2>1, <2>2
<1>7. CASE turn.slot \in Eligible(s) /\ Candidates(k) # {}
  <2>1. PICK j \in Candidates(k), home \in getNearLocation(k) :
            households' = Wedding(k, j, turn.slot, Bride(k, turn.slot, j), home)
    BY <1>7 DEF Marry, Wedding
  <2>2. nextKey' = nextKey + 1 /\ turn' = [turn EXCEPT !.slot = @ + 1]
    BY <1>7 DEF Marry
  <2>3. j \in DOMAIN households /\ j # k /\ Bride(k, turn.slot, j) \in Eligible(households[j].slots)
    BY BrideIsEligible
  <2>4. PeopleInv'
    BY <1>1, <1>2, <1>7, <2>1, <2>3, WeddingPeople
  <2>5. DOMAIN households' = DOMAIN households \union {nextKey}
    BY <2>1 DEF Wedding
  <2>6. ASSUME NEW h \in DOMAIN households'
        PROVE  /\ households'[h] \in Record /\ Len(households'[h].slots) >= 2
               /\ ~households'[h].exists =>
                      /\ h \in DOMAIN households /\ ~households[h].exists
                      /\ Alive(households'[h].slots) \subseteq Alive(households[h].slots)
    <3> DEFINE a == turn.slot
               b == Bride(k, turn.slot, j)
    <3>1. a \in DOMAIN s /\ b \in DOMAIN households[j].slots
      BY <1>7, <2>3 DEF Eligible
    <3>2. s \in Seq(Slot) /\ households[j].slots \in Seq(Slot) /\ home \in Dunes
      BY <1>1, <1>4, <2>3 DEF Record, getNearLocation
    <3>3. /\ Left(s, a) \in Seq(Slot) /\ Len(Left(s, a)) >= 2
          /\ Alive(Left(s, a)) \subseteq Alive(s)
          /\ Left(households[j].slots, b) \in Seq(Slot) /\ Len(Left(households[j].slots, b)) >= 2
          /\ Alive(Left(households[j].slots, b)) \subseteq Alive(households[j].slots)
      <4>1. Len(households[j].slots) >= 2
        BY <1>1, <2>3
      <4>2. /\ Left(s, a) \in Seq(Slot) /\ Len(Left(s, a)) = Len(s)
            /\ Alive(Left(s, a)) = Alive(s) \ {a}
        BY <3>1, <3>2, LeftSlots
      <4>3. /\ Left(households[j].slots, b) \in Seq(Slot)
            /\ Len(Left(households[j].slots, b)) = Len(households[j].slots)
            /\ Alive(Left(households[j].slots, b)) = Alive(households[j].slots) \ {b}
        BY <3>1, <3>2, LeftSlots
      <4> QED
        BY <1>4, <4>1, <4>2, <4>3
    <3>4. CASE h = nextKey
      <4>1. households'[h] = [position |-> home, exists |-> TRUE,
                              slots |-> <<s[a], households[j].slots[b]>>]
        BY <2>1, <2>5, <3>4 DEF Wedding
      <4>2. s[a] \in Slot /\ households[j].slots[b] \in Slot
        BY <3>1, <3>2
      <4>3. /\ <<s[a], households[j].slots[b]>> \in Seq(Slot)
            /\ Len(<<s[a], households[j].slots[b]>>) >= 2
        BY <4>2
      <4> QED
        BY <3>2, <4>1, <4>3 DEF Record
    <3>5. CASE h \in {k, j}
      <4> DEFINE left == IF h = k THEN Left(s, a) ELSE Left(households[j].slots, b)
      <4>1. households'[h] = [households[h] EXCEPT !.slots = left] /\ h # nextKey
        <5>1. h \in DOMAIN households /\ h # nextKey
          BY <1>1, <1>2, <2>3, <3>5
        <5>2. h = k => households'[h] = [households[h] EXCEPT !.slots = Left(@, a)]
          BY <2>1, <5>1 DEF Wedding
        <5>3. h = j => households'[h] = [households[h] EXCEPT !.slots = Left(@, b)]
          BY <2>1, <2>3, <5>1 DEF Wedding
        <5>4. CASE h = k
          BY <5>1, <5>2, <5>4
        <5>5. CASE h = j
          BY <2>3, <5>1, <5>3, <5>5
        <5> QED
          BY <3>5, <5>4, <5>5
      <4>2. /\ left \in Seq(Slot) /\ Len(left) >= 2
            /\ Alive(left) \subseteq Alive(households[h].slots)
        BY <3>3, <3>5
      <4> HIDE DEF left
      <4>3. PICK r \in Record : r = households[h]
        BY <1>1, <1>2, <2>3, <3>5
      <4>4. PICK q : q = households'[h]
        OBVIOUS
      <4>5. q = [r EXCEPT !.slots = left]
        BY <4>1, <4>3, <4>4, Zenon
      <4>6. q \in Record /\ q.slots = left /\ q.exists = r.exists
        BY <4>2, <4>5 DEF Record
      <4>7. h \in DOMAIN households
        BY <1>2, <2>3, <3>5
      <4> QED
        BY <4>2, <4>3, <4>4, <4>6, <4>7
    <3>6. CASE h \notin {nextKey, k, j}
      BY <1>1, <2>1, <2>5, <3>6 DEF Wedding
    <3> QED
      BY <3>4, <3>5, <3>6
  <2>7. households' \in [DOMAIN households' -> Record]
    BY <2>1, <2>5, <2>6 DEF Wedding
  <2>8. /\ turn' \in [agent : Nat, slot : Nat] /\ turn'.agent = k /\ turn'.slot > 2
        /\ nextKey' \in Nat \ {0} /\ DOMAIN households' \subseteq 1 .. nextKey' - 1
    BY <1>1, <1>2, <2>2, <2>5
  <2>9. TypeInv'
    BY <1>1, <1>2, <2>5, <2>6, <2>7, <2>8 DEF TypeInv
  <2>10. RemovalInv'
    BY <1>1, <2>6 DEF RemovalInv
  <2> QED
    BY <2>4, <2>9, <2>10
<1> QED
  BY <1>5, <1>6, <1>7

LEMMA EndTurnHouseholds ==
    ASSUME HouseholdsInv, NEW k \in 1 .. nextKey, EndTurn(k)
    PROVE  HouseholdsInv'
<1> USE DEF HouseholdsInv
<1>1. /\ turn.agent = k /\ people' = people /\ nextKey' = nextKey
      /\ toExecute' = toExecute /\ executed' = executed
      /\ turn' = [agent |-> NoAgent, slot |-> NoSlot]
      /\ nextKey \in Nat \ {0} /\ people \in Nat
      /\ toExecute \subseteq DOMAIN households /\ DOMAIN households \subseteq 1 .. nextKey - 1
      /\ households \in [DOMAIN households -> Record]
      /\ \A h \in DOMAIN households : Len(households[h].slots) >= 2
  BY DEF EndTurn, TypeInv
<1>2. k \in DOMAIN households \ toExecute
  <2>1. k # NoAgent
    BY <1>1 DEF NoAgent
  <2> QED
    BY <1>1, <2>1 DEF TypeInv
<1>3. \/ BothDead(households[k].slots) /\ households' = [households EXCEPT ![k].exists = FALSE]
      \/ households' = [j \in DOMAIN households \ {k} |-> households[j]]
      \/ households' = households
  BY DEF EndTurn
<1>4. /\ toExecute \subseteq DOMAIN households'
      /\ DOMAIN households' \subseteq DOMAIN households
      /\ households' \in [DOMAIN households' -> Record]
      /\ \A j \in DOMAIN households' :
             /\ households'[j].slots = households[j].slots
             /\ \/ households'[j].exists = households[j].exists
                \/ BothDead(households[j].slots)
  <2>1. CASE /\ BothDead(households[k].slots)
             /\ households' = [households EXCEPT ![k].exists = FALSE]
    <3>1. /\ DOMAIN households' = DOMAIN households
          /\ \A j \in DOMAIN households \ {k} : households'[j] = households[j]
          /\ households'[k] \in Record /\ households'[k].slots = households[k].slots
      BY <1>1, <1>2, <2>1 DEF Record
    <3> QED
      BY <1>1, <2>1, <3>1
  <2>2. CASE households' = [j \in DOMAIN households \ {k} |-> households[j]]
    BY <1>1, <1>2, <2>2
  <2>3. CASE households' = households
    BY <1>1, <2>3
  <2> QED
    BY <1>3, <2>1, <2>2, <2>3
<1>5. turn' \in [agent : Nat, slot : Nat] /\ turn'.agent = NoAgent
  BY <1>1 DEF NoAgent, NoSlot
<1>6. TypeInv'
  <2>1. \A j \in DOMAIN households' : Len(households'[j].slots) >= 2
    BY <1>1, <1>4
  <2> QED
    BY <1>1, <1>4, <1>5, <2>1 DEF TypeInv
<1>7. PeopleInv'
  BY <1>1, <1>4, SameSlots
<1>8. RemovalInv'
  <2>1. \A slots : BothDead(slots) => Alive(slots) \intersect 1 .. 2 = {}
    BY DEF BothDead, Alive
  <2> QED
    BY <1>1, <1>4, <2>1 DEF RemovalInv
<1> QED
  BY <1>6, <1>7, <1>8

LEMMA NextSectionHouseholds ==
    ASSUME HouseholdsInv, NextSection
    PROVE  HouseholdsInv'
<1> USE DEF HouseholdsInv
<1>1. /\ turn' = turn /\ people' = people /\ nextKey' = nextKey /\ turn.agent = NoAgent
      /\ turn \in [agent : Nat, slot : Nat]
      /\ nextKey \in Nat \ {0} /\ people \in Nat
      /\ DOMAIN households \subseteq 1 .. nextKey - 1
      /\ households \in [DOMAIN households -> Record]
      /\ \A h \in DOMAIN households : Len(households[h].slots) >= 2
  BY DEF NextSection, TypeInv
<1>2. toExecute' \subseteq DOMAIN households'
  BY DEF NextSection, InSection
<1>3. \E kept \in SUBSET DOMAIN households : households' = [k \in kept |-> households[k]]
  <2> DEFINE kept == {k \in DOMAIN households : households[k].exists}
  <2>1. households' = [k \in kept |-> households[k]] \/ households' = households
    BY DEF NextSection
  <2>2. households = [k \in DOMAIN households |-> households[k]]
    BY <1>1
  <2> QED
    BY <2>1, <2>2
<1>4. /\ DOMAIN households' \subseteq DOMAIN households
      /\ households' \in [DOMAIN households' -> Record]
      /\ \A j \in DOMAIN households' : households'[j] = households[j]
  BY <1>1, <1>3
<1>5. TypeInv'
  BY <1>1, <1>2, <1>4 DEF TypeInv
<1>6. PeopleInv'
  BY <1>1, <1>4, SameSlots
<1>7. RemovalInv'
  <2>1. (toExecute \intersect executed)' = {}
    BY DEF NextSection
  <2> QED
    BY <1>4, <2>1 DEF RemovalInv
<1> QED
  BY <1>5, <1>6, <1>7

LEMMA UnchangedHouseholds ==
    ASSUME HouseholdsInv, UNCHANGED vars
    PROVE  HouseholdsInv'
<1>1. TypeInv'
  BY DEF HouseholdsInv, TypeInv, vars
<1>2. people' = people /\ households' = households
  BY DEF vars
<1>3. PeopleInv'
  BY <1>2, SameSlots DEF HouseholdsInv
<1>4. RemovalInv'
  BY DEF HouseholdsInv, RemovalInv, vars
<1> QED
  BY <1>1, <1>3, <1>4 DEF HouseholdsInv

----------------------------------------------------------------------------
(* The theorems *)

\* The invariant holds in every state of every behaviour.
THEOREM HouseholdsInvariant == Spec => []HouseholdsInv
<1>1. HouseholdsInv /\ [Next]_vars => HouseholdsInv'
  <2> SUFFICES ASSUME HouseholdsInv, [Next]_vars
               PROVE  HouseholdsInv'
    OBVIOUS
  <2>1. ASSUME NEW k \in 1 .. nextKey, Execute(k)
        PROVE  HouseholdsInv'
    BY <2>1, ExecuteHouseholds
  <2>2. ASSUME NEW k \in 1 .. nextKey, Marry(k)
        PROVE  HouseholdsInv'
    BY <2>2, MarryHouseholds
  <2>3. ASSUME NEW k \in 1 .. nextKey, EndTurn(k)
        PROVE  HouseholdsInv'
    BY <2>3, EndTurnHouseholds
  <2>4. CASE NextSection
    BY <2>4, NextSectionHouseholds
  <2>5. CASE Finished
    BY <2>5, UnchangedHouseholds DEF Finished
  <2>6. CASE UNCHANGED vars
    BY <2>6, UnchangedHouseholds
  <2> QED
    BY <2>1, <2>2, <2>3, <2>4, <2>5, <2>6 DEF Next
<1> QED
  BY <1>1, InitHouseholds, PTL DEF Spec

\* NobodyTwice: nobody is in two slots, of one household or of two.
THEOREM NobodyIsTwice == Spec => []NobodyTwice
<1>1. HouseholdsInv => NobodyTwice
  BY DEF HouseholdsInv, PeopleInv
<1> QED
  BY <1>1, HouseholdsInvariant, PTL

\* ParentsAreAdults: a newborn never gets the slot of a parent.
THEOREM AllParentsAreAdults == Spec => []ParentsAreAdults
<1>1. HouseholdsInv => ParentsAreAdults
  BY DEF HouseholdsInv, PeopleInv
<1> QED
  BY <1>1, HouseholdsInvariant, PTL

\* NoSiblings: the parents of a household come from two others.
THEOREM NoSiblingsMarry == Spec => []NoSiblings
<1>1. HouseholdsInv => NoSiblings
  BY DEF HouseholdsInv, PeopleInv
<1> QED
  BY <1>1, HouseholdsInvariant, PTL

\* What NobodyVanishes says of household k.
Accounted(k) ==
    IF k \in DOMAIN households'
    THEN \A p \in Persons(households, k) \ Persons(households', k) :
             \/ k \in executed' \ executed
             \/ /\ nextKey \in DOMAIN households'
                /\ \E i \in 1 .. 2 :
                       /\ households'[nextKey].slots[i].who = p
                       /\ households'[nextKey].slots[i].age > AdulthoodAge
    ELSE \/ Alive(households[k].slots) \intersect 1 .. 2 = {}
         \/ k \in executed' \ executed
         \/ turn.agent = k /\ households[k].position \notin Boundaries

LEMMA EndTurnSlots ==
    ASSUME HouseholdsInv, NEW k, EndTurn(k), NEW h \in DOMAIN households'
    PROVE  households'[h].slots = households[h].slots
<1>1. \/ households' = [households EXCEPT ![k].exists = FALSE]
      \/ households' = [j \in DOMAIN households \ {k} |-> households[j]]
      \/ households' = households
  BY DEF EndTurn
<1>2. households \in [DOMAIN households -> Record]
  BY DEF HouseholdsInv, TypeInv
<1> QED
  BY <1>1, <1>2 DEF Record

LEMMA SameAccounted ==
    ASSUME NEW k, k \in DOMAIN households', households'[k].slots = households[k].slots
    PROVE  Accounted(k)
<1>1. Persons(households', k) = Persons(households, k)
  BY DEF Persons
<1> QED
  BY <1>1 DEF Accounted

\* Two persons leave their households in a wedding.
LEMMA WeddingAccounted ==
    ASSUME HouseholdsInv, NEW k \in 1 .. nextKey, Marry(k), NEW h \in DOMAIN households
    PROVE  Accounted(h)
<1> DEFINE s(g) == households[g].slots
           a == turn.slot
<1>1. CASE UNCHANGED households
  BY <1>1, SameAccounted
<1>2. ASSUME NEW j \in Candidates(k), NEW home, a \in Eligible(s(k)),
             households' = Wedding(k, j, a, Bride(k, a, j), home)
      PROVE  Accounted(h)
  <2> DEFINE b == Bride(k, a, j)
             left == IF h = k THEN Left(s(k), a) ELSE Left(s(j), b)
             lost == IF h = k THEN a ELSE b
  <2>1. k \in DOMAIN households /\ nextKey \notin DOMAIN households
    <3>1. turn.agent = k /\ k # NoAgent /\ nextKey \in Nat
      BY DEF Marry, NoAgent, HouseholdsInv, TypeInv
    <3> QED
      BY <3>1 DEF HouseholdsInv, TypeInv
  <2>2. j \in DOMAIN households /\ j # k /\ b \in Eligible(s(j))
    BY BrideIsEligible DEF HouseholdsInv
  <2>3. DOMAIN households' = DOMAIN households \union {nextKey}
    BY <1>2 DEF Wedding
  <2>4. CASE h \notin {k, j}
    <3>1. households'[h] = households[h]
      BY <1>2, <2>1, <2>3, <2>4 DEF Wedding
    <3> QED
      BY <2>3, <3>1, SameAccounted
  <2>5. CASE h \in {k, j}
    <3>1. /\ s(h) \in Seq(Slot) /\ households[h] \in Record
          /\ lost \in DOMAIN s(h) /\ s(h)[lost].age > AdulthoodAge
      BY <1>2, <2>1, <2>2, <2>5 DEF Eligible, HouseholdsInv, TypeInv, Record
    <3>2. households'[h].slots = left
      <4>1. h = k => households'[h] = [households[h] EXCEPT !.slots = Left(@, a)]
        BY <1>2, <2>1, <2>3 DEF Wedding
      <4>2. h = j => households'[h] = [households[h] EXCEPT !.slots = Left(@, b)]
        BY <1>2, <2>1, <2>2, <2>3 DEF Wedding
      <4>3. households'[h] = [households[h] EXCEPT !.slots = left]
        BY <2>2, <2>5, <4>1, <4>2
      <4> HIDE DEF left
      <4>4. PICK r \in Record : r = households[h]
        BY <3>1
      <4>5. PICK q : q = households'[h]
        OBVIOUS
      <4>6. q = [r EXCEPT !.slots = left]
        BY <4>3, <4>4, <4>5, Zenon
      <4>7. q.slots = left
        BY <4>6 DEF Record
      <4> QED
        BY <4>5, <4>7
    <3>3. \A i \in Alive(s(h)) \ {lost} : i \in Alive(left) /\ left[i] = s(h)[i]
      BY <2>2, <2>5, <3>1, LeftSlots
    <3>4. households'[nextKey].slots = <<s(k)[a], s(j)[b]>>
      <4>1. households'[nextKey] = [position |-> home, exists |-> TRUE,
                                    slots |-> <<s(k)[a], s(j)[b]>>]
        BY <1>2, <2>3 DEF Wedding
      <4> QED
        BY <4>1
    <3>5. \E i \in 1 .. 2 : households'[nextKey].slots[i] = s(h)[lost]
      BY <2>2, <2>5, <3>4
    <3>6. ASSUME NEW p \in Persons(households, h) \ Persons(households', h)
          PROVE  p = s(h)[lost].who
      <4>1. PICK i \in Alive(s(h)) : s(h)[i].who = p
        BY DEF Persons
      <4>2. \A l \in Alive(left) : left[l].who # p
        BY <3>2 DEF Persons
      <4> QED
        BY <3>3, <4>1, <4>2
    <3> QED
      BY <2>3, <3>1, <3>5, <3>6 DEF Accounted
  <2> QED
    BY <2>4, <2>5
<1> QED
  BY <1>1, <1>2 DEF Marry

\* NobodyVanishes: who leaves a household becomes a parent in a new one, and a
\* household vanishes without living parents, or in its own turn.
THEOREM NobodyVanishesEver == Spec => NobodyVanishes
<1>1. ASSUME HouseholdsInv, Next, NEW h \in DOMAIN households
      PROVE  Accounted(h)
  <2>1. ASSUME NEW k \in 1 .. nextKey, Execute(k)
        PROVE  Accounted(h)
    <3>1. CASE h = k
      <4>1. h \in executed' \ executed
        BY <1>1, <2>1, <3>1 DEF Execute, HouseholdsInv, RemovalInv
      <4> QED
        BY <4>1 DEF Accounted
    <3>2. CASE h # k
      <4>1. \/ \E r : households' = [households EXCEPT ![k] = r]
            \/ households' = [j \in DOMAIN households \ {k} |-> households[j]]
        <5>1. households \in [DOMAIN households -> Record]
          BY <1>1 DEF HouseholdsInv, TypeInv
        <5> QED
          BY <2>1, <5>1 DEF Execute
      <4>2. h \in DOMAIN households' /\ households'[h] = households[h]
        BY <3>2, <4>1
      <4> QED
        BY <4>2, SameAccounted
    <3> QED
      BY <3>1, <3>2
  <2>2. ASSUME NEW k \in 1 .. nextKey, Marry(k)
        PROVE  Accounted(h)
    BY <1>1, <2>2, WeddingAccounted
  <2>3. ASSUME NEW k \in 1 .. nextKey, EndTurn(k)
        PROVE  Accounted(h)
    <3>1. CASE h \in DOMAIN households'
      <4>1. households'[h].slots = households[h].slots
        BY <2>3, <3>1, EndTurnSlots, <1>1
      <4> QED
        BY <3>1, <4>1, SameAccounted
    <3>2. CASE h \notin DOMAIN households'
      <4>1. h = k /\ households[k].position \notin Boundaries /\ turn.agent = k
        BY <2>3, <3>2 DEF EndTurn
      <4> QED
        BY <3>2, <4>1 DEF Accounted
    <3> QED
      BY <3>1, <3>2
  <2>4. CASE NextSection
    <3>1. households' = households
          \/ households' = [k \in {k \in DOMAIN households : households[k].exists} |->
                               households[k]]
      BY <2>4 DEF NextSection
    <3>2. CASE h \in DOMAIN households'
      BY <3>1, <3>2, SameAccounted
    <3>3. CASE h \notin DOMAIN households'
      <4>1. ~households[h].exists
        BY <3>1, <3>3
      <4>2. Alive(households[h].slots) \intersect 1 .. 2 = {}
        BY <1>1, <4>1 DEF HouseholdsInv, RemovalInv
      <4> QED
        BY <3>3, <4>2 DEF Accounted
    <3> QED
      BY <3>2, <3>3
  <2>5. CASE Finished
    BY <2>5, SameAccounted DEF Finished, vars
  <2> QED
    BY <1>1, <2>1, <2>2, <2>3, <2>4, <2>5 DEF Next
<1>2. HouseholdsInv /\ [Next]_vars => [\A k \in DOMAIN households : Accounted(k)]_vars
  BY <1>1
<1>3. Spec => [][\A k \in DOMAIN households : Accounted(k)]_vars
  BY <1>2, HouseholdsInvariant, PTL DEF Spec
<1> QED
  BY <1>3 DEF NobodyVanishes, Accounted
=============================================================================
