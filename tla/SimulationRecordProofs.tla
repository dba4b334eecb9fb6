----------------------- MODULE SimulationRecordProofs -----------------------
(***************************************************************************)
(* Proofs about the loading of a recorded simulation (module               *)
(* SimulationRecord), for any recorded simulations, agents, rasters and    *)
(* resolutions, and any number of files, steps and loads.                  *)
(***************************************************************************)
EXTENDS SimulationRecord, TLAPS, NaturalsInduction, WellFoundedInduction, FiniteSetTheorems

----------------------------------------------------------------------------
(* The invariant.  Its parts are about the files f, the resolution res and *)
(* the variables of a record, given as values.                             *)

\* LoadedSteps
Loadable(res) == {k \in Steps : k % res = 0}

\* Files, types and steps
Places == Tasks \X Types \X Steps

\* The rows of a type and a step in a file
Rows(f, c) == {f[c[1]][c[2]][c[3]][n] : n \in DOMAIN f[c[1]][c[2]][c[3]]}

Chosen(S) == CHOOSE u \in S : TRUE

\* What has been read when file i is open, the types left are those of T, and
\* step k of the first of them is to be read
Read(res, i, T, k) ==
    {c \in Places : /\ c[3] \in Loadable(res)
                    /\ c[1] < i \/ (c[1] = i /\ (c[2] \notin T \/ (c[2] = Chosen(T) /\ c[3] < k)))}

HasRow(f, R, id, k) == \E c \in R : c[3] = k /\ \E row \in Rows(f, c) : row.id = id

\* What is loaded of the agents is what has been read, and 0 elsewhere.
AgentsPart(f, res, R, ags) ==
    /\ DOMAIN ags = {id \in Ids : \E k \in Loadable(res) : HasRow(f, R, id, k)}
    /\ \A id \in DOMAIN ags :
          ags[id] = [key \in Keys |-> [s \in 0 .. NumSteps \div res |-> ags[id][key][s]]]
    /\ \A c \in R : \A row \in Rows(f, c) :
          /\ ags[row.id]["exists"][c[3] \div res] = 1
          /\ \A a \in Attributes : ags[row.id][a][c[3] \div res] = row.value[a]
    /\ \A id \in DOMAIN ags, k \in Loadable(res) :
          ~HasRow(f, R, id, k) => \A key \in Keys : ags[id][key][k \div res] = 0

\* The extremes enclose what has been read.
ExtremesPart(f, R, min, max) ==
    /\ min = Nothing \/ min \in [Attributes -> Int]
    /\ max = Nothing \/ max \in [Attributes -> Int]
    /\ \A c \in R : \A row \in Rows(f, c) :
          /\ min \in [Attributes -> Int] /\ max \in [Attributes -> Int]
          /\ \A a \in Attributes : row.value[a] \in min[a] .. max[a]

\* The rasters that are not in left are loaded, and of the first of left the
\* steps before k.
RastersPart(rasters, res, left, k, loaded, b) ==
    /\ DOMAIN loaded \subseteq Rasters /\ left \subseteq DOMAIN loaded
    /\ \A r \in DOMAIN loaded : DOMAIN loaded[r] = 0 .. NumSteps \div res
    /\ \A r \in DOMAIN loaded, s \in Loadable(res) :
          r \notin left \/ (r = Chosen(left) /\ s < k) => loaded[r][s \div res] = rasters[r][s]
    /\ DOMAIN b = DOMAIN loaded \ left
    /\ \A r \in DOMAIN b : b[r] = [min |-> Least({rasters[r][s] : s \in Loadable(res)}),
                                   max |-> Greatest({rasters[r][s] : s \in Loadable(res)})]

LoadInv ==
    /\ sim \in Simulations /\ resolution \in Resolutions
    /\ task \in 0 .. NumTasks /\ loadingStep \in Loadable(resolution)
    /\ agentTypes \subseteq Types /\ (task = 0 => agentTypes = {})
    /\ phase \in {"no load", "failed", "rasters"} => task = 0
    /\ phase = "done" => task = NumTasks /\ agentTypes = {}
    /\ types = UNION {FileTypes(i) : i \in 1 .. task}
    /\ phase # "rasters" <=> rastersLeft = {}

ReadNow == Read(resolution, task, agentTypes, loadingStep)

RecordInv ==
    /\ LoadInv
    /\ AgentsPart(sim.file, resolution, ReadNow, agents)
    /\ ExtremesPart(sim.file, ReadNow, minValue, maxValue)
    /\ RastersPart(sim.raster, resolution, rastersLeft, loadingStep, resources, bounds)

----------------------------------------------------------------------------
(* Steps and their entries *)

LEMMA Division ==
    ASSUME NEW n \in Nat, NEW r \in Nat \ {0}
    PROVE  /\ n = r * (n \div r) + (n % r)
           /\ n \div r \in Nat
           /\ n % r \in 0 .. r - 1
OBVIOUS

LEMMA QuotientOrder ==
    ASSUME NEW q \in Int, NEW p \in Int, NEW r \in Nat \ {0},
           NEW x \in 0 .. r - 1, NEW y \in 0 .. r - 1, r * q + x =< r * p + y
    PROVE  q =< p
<1>1. CASE q >= p + 1
  <2>1. r * q >= r * (p + 1)
    BY <1>1, Z3
  <2> QED
    BY <2>1
<1> QED
  BY <1>1

LEMMA QuotientUnique ==
    ASSUME NEW r \in Nat \ {0}, NEW q \in Nat, NEW x \in 0 .. r - 1
    PROVE  (r * q + x) \div r = q /\ (r * q + x) % r = x
<1> DEFINE n == r * q + x
           p == n \div r
           y == n % r
<1>1. r * q \in Nat /\ n \in Nat
  OBVIOUS
<1>2. n = r * p + y /\ p \in Nat /\ y \in 0 .. r - 1 /\ n = r * q + x
  BY <1>1, Division
<1> HIDE DEF n, p, y
<1>3. r * q + x =< r * p + y /\ r * p + y =< r * q + x
  <2>1. r * p \in Nat /\ r * q \in Nat
    BY <1>1, <1>2
  <2> QED
    BY <1>2, <2>1
<1>4. p = q
  <2>1. q =< p /\ p =< q
    BY <1>2, <1>3, QuotientOrder
  <2> QED
    BY <1>2, <2>1
<1>5. y = x
  <2>1. r * q + y = r * q + x
    BY <1>2, <1>4
  <2> QED
    BY <1>1, <1>2, <2>1
<1> QED
  BY <1>4, <1>5 DEF n, p, y

(* A loaded step is a multiple of the resolution.                          *)
LEMMA LoadableStep ==
    ASSUME NEW r \in Nat \ {0}, NEW k \in Loadable(r)
    PROVE  k \in Nat /\ k =< NumSteps /\ k \div r \in Nat /\ k = r * (k \div r)
<1>1. k \in Nat /\ k =< NumSteps /\ k % r = 0
  BY NumbersAssumption DEF Loadable, Steps
<1>2. k = r * (k \div r) + (k % r) /\ k \div r \in Nat
  BY <1>1, Division
<1> DEFINE q == k \div r
<1>3. r * q \in Nat
  BY <1>2
<1> QED
  BY <1>1, <1>2, <1>3

LEMMA MultipleLoadable ==
    ASSUME NEW r \in Nat \ {0}, NEW q \in Nat, r * q =< NumSteps
    PROVE  r * q \in Loadable(r) /\ (r * q) \div r = q
<1>1. (r * q + 0) \div r = q /\ (r * q + 0) % r = 0
  BY QuotientUnique
<1>2. r * q \in Nat /\ r * q + 0 = r * q
  OBVIOUS
<1> QED
  BY <1>1, <1>2, NumbersAssumption DEF Loadable, Steps

(* Every loaded step has an entry of its own, and every entry has a step.  *)
LEMMA Entries ==
    ASSUME NEW r \in Nat \ {0}
    PROVE  /\ 0 \in Loadable(r)
           /\ \A k \in Loadable(r) : k \div r \in 0 .. NumSteps \div r
           /\ \A k \in Loadable(r), l \in Loadable(r) : k \div r = l \div r => k = l
           /\ \A s \in 0 .. NumSteps \div r : \E k \in Loadable(r) : k \div r = s
<1> DEFINE N == NumSteps \div r
           m == NumSteps % r
<1>1. N \in Nat /\ m \in 0 .. r - 1 /\ NumSteps = r * N + m /\ r * N \in Nat /\ NumSteps \in Nat
  <2>1. NumSteps \in Nat
    BY NumbersAssumption
  <2>2. N \in Nat /\ m \in 0 .. r - 1 /\ NumSteps = r * N + m
    BY <2>1, Division
  <2> HIDE DEF N, m
  <2>3. r * N \in Nat
    BY <2>2
  <2> QED
    BY <2>1, <2>2, <2>3
<1> HIDE DEF N, m
<1>2. 0 \in Loadable(r)
  <2>1. r * 0 = 0 /\ r * 0 =< NumSteps
    BY <1>1
  <2> QED
    BY <2>1, MultipleLoadable
<1>3. ASSUME NEW k \in Loadable(r) PROVE k \div r \in 0 .. N
  <2> DEFINE q == k \div r
  <2>1. q \in Nat /\ k = r * q /\ k =< NumSteps
    BY LoadableStep
  <2> HIDE DEF q
  <2>2. r * q + 0 =< r * N + m
    <3>1. r * q \in Nat
      BY <2>1
    <3> QED
      BY <1>1, <2>1, <3>1
  <2>3. q =< N
    BY <1>1, <2>1, <2>2, QuotientOrder
  <2> QED
    BY <1>1, <2>1, <2>3 DEF q
<1>4. ASSUME NEW k \in Loadable(r), NEW l \in Loadable(r), k \div r = l \div r PROVE k = l
  <2>1. k = r * (k \div r) /\ l = r * (l \div r)
    BY LoadableStep
  <2> QED
    BY <1>4, <2>1
<1>5. ASSUME NEW s \in 0 .. N PROVE \E k \in Loadable(r) : k \div r = s
  <2>1. r * s =< r * N
    BY <1>1, Z3
  <2>2. s \in Nat /\ r * s \in Nat /\ r * s =< NumSteps
    BY <1>1, <2>1
  <2> QED
    BY <2>2, MultipleLoadable
<1> QED
  BY <1>2, <1>3, <1>4, <1>5 DEF N

(* The next step, and what lies before it                                  *)
LEMMA NextStep ==
    ASSUME NEW r \in Nat \ {0}, NEW k \in Loadable(r)
    PROVE  /\ k + r =< NumSteps => k + r \in Loadable(r)
           /\ \A l \in Loadable(r) : l < k + r <=> l < k \/ l = k
           /\ ~(k + r =< NumSteps) => \A l \in Loadable(r) : l < k \/ l = k
<1> DEFINE q == k \div r
<1>1. q \in Nat /\ k = r * q /\ k \in Nat
  BY LoadableStep
<1> HIDE DEF q
<1>2. r * (q + 1) = k + r
  BY <1>1
<1>3. k + r =< NumSteps => k + r \in Loadable(r)
  <2>1. q + 1 \in Nat
    BY <1>1
  <2> QED
    BY <1>2, <2>1, MultipleLoadable
<1>4. ASSUME NEW l \in Loadable(r), l < k + r PROVE l =< k
  <2> DEFINE p == l \div r
  <2>1. p \in Nat /\ l = r * p /\ l \in Nat
    BY LoadableStep
  <2> HIDE DEF p
  <2>2. ~(q + 1 =< p)
    <3> SUFFICES ASSUME q + 1 =< p PROVE FALSE
      OBVIOUS
    <3>1. r * (q + 1) =< r * p
      BY <1>1, <2>1, Z3
    <3> QED
      BY <1>1, <1>2, <1>4, <2>1, <3>1
  <2>3. p =< q
    BY <1>1, <2>1, <2>2
  <2>4. r * p =< r * q
    BY <1>1, <2>1, <2>3, Z3
  <2> QED
    BY <1>1, <2>1, <2>4
<1>5. \A l \in Loadable(r) : l \in Nat /\ l =< NumSteps
  BY LoadableStep
<1> QED
  BY <1>1, <1>3, <1>4, <1>5, NumbersAssumption

----------------------------------------------------------------------------
(* The extremes of finitely many values *)

LEMMA LeastElement ==
    ASSUME NEW S, S \subseteq Nat, S # {}
    PROVE  \E i \in S : \A j \in S : i =< j
<1>1. PICK i \in S : \A j \in S : ~(<<j, i>> \in OpToRel(<, Nat))
  BY NatLessThanWellFounded, WFMin
<1>2. OpToRel(<, Nat) = {ss \in Nat \X Nat : ss[1] < ss[2]}
  BY DEF OpToRel
<1>3. ASSUME NEW j \in S, j < i PROVE FALSE
  <2>1. <<j, i>> \in {ss \in Nat \X Nat : ss[1] < ss[2]}
    BY <1>3
  <2> QED
    BY <2>1, <1>1, <1>2, Zenon
<1> QED
  BY <1>3

\* One of n values is the least.
LeastAmong(n) == \A f \in [1 .. n -> Int] : \E i \in 1 .. n : \A j \in 1 .. n : f[i] =< f[j]

LEMMA LeastAmongMore ==
    ASSUME NEW n \in Nat \ {0}, LeastAmong(n)
    PROVE  LeastAmong(n + 1)
<1> SUFFICES ASSUME NEW f \in [1 .. n + 1 -> Int]
             PROVE  \E i \in 1 .. n + 1 : \A j \in 1 .. n + 1 : f[i] =< f[j]
  BY DEF LeastAmong
<1> DEFINE g == [i \in 1 .. n |-> f[i]]
<1>1. g \in [1 .. n -> Int]
  OBVIOUS
<1>2. PICK i \in 1 .. n : \A j \in 1 .. n : g[i] =< g[j]
  BY <1>1 DEF LeastAmong
<1>3. i \in 1 .. n + 1 /\ n + 1 \in 1 .. n + 1 /\ f[i] \in Int /\ f[n + 1] \in Int
  OBVIOUS
<1>4. \A j \in 1 .. n + 1 : j \in 1 .. n \/ j = n + 1
  OBVIOUS
<1>5. \A j \in 1 .. n : f[i] =< f[j] /\ f[j] \in Int
  BY <1>2
<1>6. CASE f[i] =< f[n + 1]
  <2>1. \A j \in 1 .. n + 1 : f[i] =< f[j]
    BY <1>4, <1>5, <1>6
  <2> QED
    BY <1>3, <2>1
<1>7. CASE ~(f[i] =< f[n + 1])
  <2>1. \A j \in 1 .. n + 1 : f[n + 1] =< f[j]
    BY <1>3, <1>4, <1>5, <1>7
  <2> QED
    BY <1>3, <2>1
<1> QED
  BY <1>6, <1>7

LEMMA AlwaysLeast == ASSUME NEW n \in Nat \ {0} PROVE LeastAmong(n)
<1> DEFINE S == {m \in Nat \ {0} : ~LeastAmong(m)}
<1>1. SUFFICES S = {}
  OBVIOUS
<1>2. SUFFICES ASSUME S # {} PROVE FALSE
  OBVIOUS
<1>3. S \subseteq Nat
  OBVIOUS
<1>4. PICK m \in S : \A j \in S : m =< j
  BY <1>2, <1>3, LeastElement
<1>5. CASE m = 1
  <2>1. LeastAmong(1)
    <3>1. ASSUME NEW f \in [1 .. 1 -> Int] PROVE \A j \in 1 .. 1 : f[1] =< f[j]
      OBVIOUS
    <3> QED
      BY <3>1 DEF LeastAmong
  <2> QED
    BY <1>5, <2>1
<1>6. CASE m # 1
  <2>1. m - 1 \in Nat \ {0} /\ m - 1 \notin S /\ (m - 1) + 1 = m
    BY <1>4, <1>6
  <2>2. LeastAmong(m - 1)
    BY <2>1
  <2> QED
    BY <2>1, <2>2, LeastAmongMore
<1> QED
  BY <1>5, <1>6

LEMMA LeastIs ==
    ASSUME NEW S, NEW x \in S, S \subseteq Int, \A y \in S : x =< y
    PROVE  Least(S) \in S /\ \A y \in S : Least(S) =< y
BY DEF Least

LEMMA GreatestIs ==
    ASSUME NEW S, NEW x \in S, S \subseteq Int, \A y \in S : x >= y
    PROVE  Greatest(S) \in S /\ \A y \in S : Greatest(S) >= y
BY DEF Greatest

\* The values of a sequence of integers, with another one or without
Values(f, n, T) == {f[i] : i \in 1 .. n} \union T

LEMMA LeastValue ==
    ASSUME NEW n \in Nat \ {0}, NEW f \in [1 .. n -> Int], NEW T, T = {} \/ \E m \in Int : T = {m}
    PROVE  LET S == Values(f, n, T) IN Least(S) \in S /\ \A y \in S : Least(S) =< y
<1> DEFINE S == Values(f, n, T)
<1>1. PICK i \in 1 .. n : \A j \in 1 .. n : f[i] =< f[j]
  BY AlwaysLeast DEF LeastAmong
<1>2. f[i] \in S /\ S \subseteq Int /\ f[i] \in Int
  BY DEF Values
<1>3. \E x \in S : \A y \in S : x =< y
  <2>1. CASE T = {}
    BY <1>1, <1>2, <2>1 DEF Values
  <2>2. ASSUME NEW m \in Int, T = {m} PROVE \E x \in S : \A y \in S : x =< y
    <3>1. m \in S /\ \A y \in S : y = m \/ \E j \in 1 .. n : y = f[j]
      BY <2>2 DEF Values
    <3>2. CASE f[i] =< m
      BY <1>1, <1>2, <3>1, <3>2
    <3>3. CASE ~(f[i] =< m)
      <4>1. \A j \in 1 .. n : m =< f[j]
        BY <1>1, <1>2, <3>3
      <4> QED
        BY <3>1, <4>1
    <3> QED
      BY <3>2, <3>3
  <2> QED
    BY <2>1, <2>2
<1> HIDE DEF S
<1>4. Least(S) \in S /\ \A y \in S : Least(S) =< y
  BY <1>2, <1>3, LeastIs
<1> QED
  BY <1>4 DEF S

LEMMA GreatestValue ==
    ASSUME NEW n \in Nat \ {0}, NEW f \in [1 .. n -> Int], NEW T, T = {} \/ \E m \in Int : T = {m}
    PROVE  LET S == Values(f, n, T) IN Greatest(S) \in S /\ \A y \in S : Greatest(S) >= y
<1> DEFINE S == Values(f, n, T)
           g == [i \in 1 .. n |-> -f[i]]
<1>0. g \in [1 .. n -> Int]
  OBVIOUS
<1>1. PICK i \in 1 .. n : \A j \in 1 .. n : g[i] =< g[j]
  BY <1>0, AlwaysLeast DEF LeastAmong
<1>2. f[i] \in S /\ S \subseteq Int /\ f[i] \in Int
  BY DEF Values
<1>3. \A j \in 1 .. n : f[i] >= f[j]
  BY <1>1
<1>4. \E x \in S : \A y \in S : x >= y
  <2>1. CASE T = {}
    BY <1>3, <1>2, <2>1 DEF Values
  <2>2. ASSUME NEW m \in Int, T = {m} PROVE \E x \in S : \A y \in S : x >= y
    <3>1. m \in S /\ \A y \in S : y = m \/ \E j \in 1 .. n : y = f[j]
      BY <2>2 DEF Values
    <3>2. CASE f[i] >= m
      BY <1>3, <1>2, <3>1, <3>2
    <3>3. CASE ~(f[i] >= m)
      <4>1. \A j \in 1 .. n : m >= f[j]
        BY <1>3, <1>2, <3>3
      <4> QED
        BY <3>1, <4>1
    <3> QED
      BY <3>2, <3>3
  <2> QED
    BY <2>1, <2>2
<1> HIDE DEF S
<1>5. Greatest(S) \in S /\ \A y \in S : Greatest(S) >= y
  BY <1>2, <1>4, GreatestIs
<1> QED
  BY <1>5 DEF S

----------------------------------------------------------------------------
(* The rows of a simulation *)

Recorded(f) == f \in [Tasks -> [Types -> [Steps -> Seq(Row)]]]

\* No two rows of a step are for the same agent.
OneRow(f) ==
    \A c \in Places, d \in Places : c[3] = d[3] =>
        \A row \in Rows(f, c), other \in Rows(f, d) : row.id = other.id => row = other

LEMMA SimulationFiles ==
    ASSUME NEW s \in Simulations
    PROVE  Recorded(s.file) /\ OneRow(s.file) /\ s.raster \in [Rasters -> [Steps -> Int]]
<1>1. s \in Simulation
  BY SetsAssumption
<1>2. Recorded(s.file) /\ s.raster \in [Rasters -> [Steps -> Int]]
  BY <1>1 DEF Simulation, Recorded
<1>3. OneRow(s.file)
  <2> SUFFICES ASSUME NEW c \in Places, NEW d \in Places, c[3] = d[3],
                      NEW row \in Rows(s.file, c), NEW other \in Rows(s.file, d), row.id = other.id
               PROVE  row = other
    BY DEF OneRow
  <2>1. /\ c[1] \in Tasks /\ c[2] \in Types /\ c[3] \in Steps
        /\ d[1] \in Tasks /\ d[2] \in Types
    BY DEF Places
  <2>2. PICK m \in DOMAIN s.file[c[1]][c[2]][c[3]] : row = s.file[c[1]][c[2]][c[3]][m]
    BY DEF Rows
  <2>3. PICK n \in DOMAIN s.file[d[1]][d[2]][c[3]] : other = s.file[d[1]][d[2]][c[3]][n]
    BY DEF Rows
  <2> DEFINE i == c[1]
             t == c[2]
             k == c[3]
             j == d[1]
             u == d[2]
  <2>4. /\ i \in Tasks /\ t \in Types /\ k \in Steps /\ j \in Tasks /\ u \in Types
        /\ m \in DOMAIN s.file[i][t][k] /\ n \in DOMAIN s.file[j][u][k]
        /\ s.file[i][t][k][m].id = s.file[j][u][k][n].id
    BY <2>1, <2>2, <2>3
  <2> HIDE DEF i, t, k, j, u
  <2>5. s.file[i][t][k][m] = s.file[j][u][k][n]
    BY <2>4, OneRowAssumption
  <2> QED
    BY <2>2, <2>3, <2>5 DEF i, t, k, j, u
<1> QED
  BY <1>2, <1>3

LEMMA RowsType ==
    ASSUME NEW f, Recorded(f), NEW c \in Places, NEW row \in Rows(f, c)
    PROVE  row.id \in Ids /\ row.value \in [Attributes -> Int]
<1>1. f[c[1]][c[2]][c[3]] \in Seq(Row)
  BY DEF Recorded, Places
<1>2. row \in Row
  BY <1>1 DEF Rows
<1> QED
  BY <1>2 DEF Row

LEMMA HasRowMore ==
    ASSUME NEW f, NEW R, NEW c, NEW id, NEW k
    PROVE  HasRow(f, R \union {c}, id, k) <=>
               HasRow(f, R, id, k) \/ (c[3] = k /\ \E row \in Rows(f, c) : row.id = id)
BY DEF HasRow

\* The record of an agent with entries 0 .. n after a row is read for entry s
Entered(old, s, row) ==
    [key \in Keys |-> [old[key] EXCEPT ![s] = IF key = "exists" THEN 1 ELSE row.value[key]]]

RecordShape(n, record) == record = [key \in Keys |-> [s \in 0 .. n |-> record[key][s]]]

\* new has the values of the row in entry s, and those of old elsewhere.
HasEntered(n, old, s, row, new) ==
    /\ RecordShape(n, new)
    /\ new["exists"][s] = 1
    /\ \A a \in Attributes : new[a][s] = row.value[a]
    /\ \A key \in Keys, i \in 0 .. n : i # s => new[key][i] = old[key][i]

LEMMA EnteredRecord ==
    ASSUME NEW n \in Nat, NEW old, RecordShape(n, old), NEW s \in 0 .. n, NEW row
    PROVE  HasEntered(n, old, s, row, Entered(old, s, row))
<1> DEFINE new == Entered(old, s, row)
           entry(key) == IF key = "exists" THEN 1 ELSE row.value[key]
<1>1. \A key \in Keys : old[key] = [i \in 0 .. n |-> old[key][i]]
  BY DEF RecordShape
<1>2. \A key \in Keys : new[key] = [old[key] EXCEPT ![s] = entry(key)]
  BY DEF Entered
<1>3. \A key \in Keys : DOMAIN old[key] = 0 .. n
  BY <1>1
<1> HIDE DEF entry
<1>4. DOMAIN new = Keys /\ new = [key \in Keys |-> new[key]]
  BY DEF Entered
<1> HIDE DEF new
<1>5. \A key \in Keys : new[key] = [i \in 0 .. n |-> new[key][i]]
  BY <1>2, <1>3
<1>6. \A key \in Keys : new[key][s] = entry(key)
  BY <1>2, <1>3
<1>7. \A key \in Keys, i \in 0 .. n : i # s => new[key][i] = old[key][i]
  BY <1>2, <1>3
<1>8. RecordShape(n, new)
  BY <1>4, <1>5 DEF RecordShape
<1>9. "exists" \in Keys /\ "exists" \notin Attributes /\ Attributes \subseteq Keys
  BY SetsAssumption DEF Keys
<1>10. new["exists"][s] = 1 /\ \A a \in Attributes : new[a][s] = row.value[a]
  BY <1>6, <1>9 DEF entry
<1> QED
  BY <1>7, <1>8, <1>10 DEF new, HasEntered

Zeros(n) == [key \in Keys |-> [s \in 0 .. n |-> 0]]

(* Reading one type of one step of one file                                *)
LEMMA AgentsGrow ==
    ASSUME NEW f, Recorded(f), OneRow(f), NEW res \in Nat \ {0}, NEW R \in SUBSET Places,
           NEW c \in Places, c[3] \in Loadable(res), \A d \in R : d[3] \in Loadable(res),
           NEW ags, AgentsPart(f, res, R, ags),
           NEW ids, ids = {row.id : row \in Rows(f, c)},
           NEW new, DOMAIN new = DOMAIN ags \union ids,
           \A id \in DOMAIN ags : id \notin ids => new[id] = ags[id],
           \A row \in Rows(f, c) : new[row.id] =
               Entered(IF row.id \in DOMAIN ags THEN ags[row.id] ELSE Zeros(NumSteps \div res), c[3] \div res, row)
    PROVE  AgentsPart(f, res, R \union {c}, new)
<1> DEFINE N == NumSteps \div res
           S == R \union {c}
           e == c[3] \div res
           old(id) == IF id \in DOMAIN ags THEN ags[id] ELSE Zeros(N)
<1>1. /\ N \in Nat /\ e \in 0 .. N
      /\ \A k \in Loadable(res) : k \div res \in 0 .. N /\ (k \div res = e => k = c[3])
  BY NumbersAssumption, Division, Entries
<1>2. ASSUME NEW id PROVE RecordShape(N, old(id))
  <2>1. CASE id \in DOMAIN ags
    BY <2>1 DEF AgentsPart, RecordShape
  <2>2. CASE id \notin DOMAIN ags
    BY <2>2 DEF Zeros, RecordShape
  <2> QED
    BY <2>1, <2>2
<1>3. ASSUME NEW row \in Rows(f, c)
      PROVE  /\ RecordShape(N, new[row.id])
             /\ new[row.id]["exists"][e] = 1
             /\ \A a \in Attributes : new[row.id][a][e] = row.value[a]
             /\ \A key \in Keys, i \in 0 .. N : i # e => new[row.id][key][i] = old(row.id)[key][i]
  <2>1. new[row.id] = Entered(old(row.id), e, row)
    OBVIOUS
  <2>2. RecordShape(N, old(row.id))
    BY <1>2
  <2> DEFINE record == old(row.id)
             result == new[row.id]
  <2>3. result = Entered(record, e, row) /\ RecordShape(N, record) /\ N \in Nat /\ e \in 0 .. N
    BY <1>1, <2>1, <2>2
  <2> HIDE DEF record, result, N, e
  <2>4. HasEntered(N, record, e, row, Entered(record, e, row))
    BY <2>3, EnteredRecord
  <2>5. HasEntered(N, record, e, row, result)
    BY <2>3, <2>4
  <2> QED
    BY <2>5 DEF record, result, HasEntered
<1>4. DOMAIN new = {id \in Ids : \E k \in Loadable(res) : HasRow(f, S, id, k)}
  <2>1. DOMAIN ags = {id \in Ids : \E k \in Loadable(res) : HasRow(f, R, id, k)}
    BY DEF AgentsPart
  <2>2. \A id, k : HasRow(f, S, id, k) <=> HasRow(f, R, id, k) \/ (c[3] = k /\ id \in ids)
    BY HasRowMore
  <2>3. ids \subseteq Ids
    BY RowsType
  <2> QED
    BY <2>1, <2>2, <2>3
<1>5. ASSUME NEW id \in DOMAIN new PROVE RecordShape(N, new[id])
  <2>1. CASE id \in ids
    BY <1>3, <2>1
  <2>2. CASE id \notin ids
    BY <1>2, <2>2
  <2> QED
    BY <2>1, <2>2
<1>6. ASSUME NEW d \in S, NEW row \in Rows(f, d)
      PROVE  /\ new[row.id]["exists"][d[3] \div res] = 1
             /\ \A a \in Attributes : new[row.id][a][d[3] \div res] = row.value[a]
  <2>1. CASE d = c
    BY <1>3, <1>6, <2>1
  <2>2. CASE d \in R
    <3>1. /\ row.id \in DOMAIN ags
          /\ ags[row.id]["exists"][d[3] \div res] = 1
          /\ \A a \in Attributes : ags[row.id][a][d[3] \div res] = row.value[a]
          /\ d \in Places /\ d[3] \in Loadable(res)
      <4>1. row.id \in Ids /\ HasRow(f, R, row.id, d[3]) /\ d[3] \in Loadable(res) /\ d \in Places
        BY <1>6, <2>2, RowsType DEF HasRow
      <4>2. row.id \in DOMAIN ags
        BY <4>1 DEF AgentsPart
      <4>3. /\ ags[row.id]["exists"][d[3] \div res] = 1
            /\ \A a \in Attributes : ags[row.id][a][d[3] \div res] = row.value[a]
        BY <1>6, <2>2 DEF AgentsPart
      <4> QED
        BY <4>1, <4>2, <4>3
    <3>2. CASE row.id \notin ids
      BY <3>1, <3>2
    <3>3. CASE row.id \in ids
      <4>1. PICK other \in Rows(f, c) : other.id = row.id
        BY <3>3
      <4>2. CASE d[3] = c[3]
        <5>1. other = row
          BY <1>6, <3>1, <4>1, <4>2 DEF OneRow
        <5> QED
          BY <1>3, <4>2, <5>1
      <4>3. CASE d[3] # c[3]
        <5>1. d[3] \div res \in 0 .. N /\ d[3] \div res # e
          BY <1>1, <3>1, <4>3
        <5>2. \A key \in Keys : new[row.id][key][d[3] \div res] = ags[row.id][key][d[3] \div res]
          BY <1>3, <3>1, <4>1, <5>1
        <5> QED
          BY <3>1, <5>2 DEF Keys
      <4> QED
        BY <4>2, <4>3
    <3> QED
      BY <3>2, <3>3
  <2> QED
    BY <2>1, <2>2
<1>7. ASSUME NEW id \in DOMAIN new, NEW k \in Loadable(res), ~HasRow(f, S, id, k), NEW key \in Keys
      PROVE  new[id][key][k \div res] = 0
  <2>1. ~HasRow(f, R, id, k) /\ ~(c[3] = k /\ id \in ids)
    BY <1>7, HasRowMore
  <2>2. id \in DOMAIN ags => ags[id][key][k \div res] = 0
    BY <2>1 DEF AgentsPart
  <2>3. CASE id \notin ids
    BY <2>2, <2>3
  <2>4. CASE id \in ids
    <3>1. PICK row \in Rows(f, c) : row.id = id
      BY <2>4
    <3>2. k \div res \in 0 .. N /\ k \div res # e
      BY <1>1, <2>1, <2>4
    <3>3. new[id][key][k \div res] = old(id)[key][k \div res]
      BY <1>3, <3>1, <3>2
    <3>4. old(id)[key][k \div res] = 0
      BY <2>2, <3>2 DEF Zeros
    <3> QED
      BY <3>3, <3>4
  <2> QED
    BY <2>3, <2>4
<1> QED
  BY <1>4, <1>5, <1>6, <1>7 DEF AgentsPart, RecordShape

(* Places without rows make no difference.                                 *)
LEMMA AgentsSame ==
    ASSUME NEW f, NEW res, NEW R, NEW S, R \subseteq S, \A c \in S \ R : Rows(f, c) = {},
           NEW ags, AgentsPart(f, res, R, ags)
    PROVE  AgentsPart(f, res, S, ags)
<1>1. \A id, k : HasRow(f, S, id, k) <=> HasRow(f, R, id, k)
  BY DEF HasRow
<1> QED
  BY <1>1 DEF AgentsPart

\* The values of attribute a in rows, and the extreme that is known, if any
Candidates(rows, a, known) ==
    {rows[i].value[a] : i \in DOMAIN rows} \union (IF a \in DOMAIN known THEN {known[a]} ELSE {})

LEMMA ExtremesOfRows ==
    ASSUME NEW rows \in Seq(Row), rows # <<>>, NEW a \in Attributes,
           NEW known, known = Nothing \/ known \in [Attributes -> Int],
           NEW S, S = Candidates(rows, a, known)
    PROVE  /\ S \subseteq Int
           /\ Least(S) \in S /\ \A y \in S : Least(S) =< y
           /\ Greatest(S) \in S /\ \A y \in S : Greatest(S) >= y
<1> DEFINE n == Len(rows)
           g == [i \in 1 .. n |-> rows[i].value[a]]
           T == IF a \in DOMAIN known THEN {known[a]} ELSE {}
<1>1. n \in Nat \ {0} /\ DOMAIN rows = 1 .. n
  OBVIOUS
<1>2. g \in [1 .. n -> Int]
  <2>1. \A i \in 1 .. n : rows[i] \in Row
    BY <1>1
  <2>2. \A i \in 1 .. n : rows[i].value \in [Attributes -> Int]
    BY <2>1 DEF Row
  <2> QED
    BY <2>2
<1>3. T = {} \/ \E m \in Int : T = {m}
  BY DEF Nothing
<1>4. S = Values(g, n, T)
  BY <1>1 DEF Values, Candidates
<1>5. S \subseteq Int
  BY <1>2, <1>3, <1>4 DEF Values
<1> HIDE DEF n, g, T
<1>6. Least(S) \in S /\ \A y \in S : Least(S) =< y
  BY <1>1, <1>2, <1>3, <1>4, LeastValue
<1>7. Greatest(S) \in S /\ \A y \in S : Greatest(S) >= y
  BY <1>1, <1>2, <1>3, <1>4, GreatestValue
<1> QED
  BY <1>5, <1>6, <1>7

LEMMA ExtremesGrow ==
    ASSUME NEW f, Recorded(f), NEW R \in SUBSET Places, NEW c \in Places,
           NEW rows, rows = f[c[1]][c[2]][c[3]], rows # <<>>,
           NEW min, NEW max, ExtremesPart(f, R, min, max),
           NEW newMin, newMin = [a \in Attributes |-> Least(Candidates(rows, a, min))],
           NEW newMax, newMax = [a \in Attributes |-> Greatest(Candidates(rows, a, max))]
    PROVE  ExtremesPart(f, R \union {c}, newMin, newMax)
<1>1. rows \in Seq(Row)
  BY DEF Recorded, Places
<1>2. /\ min = Nothing \/ min \in [Attributes -> Int]
      /\ max = Nothing \/ max \in [Attributes -> Int]
  BY DEF ExtremesPart
<1>3. ASSUME NEW a \in Attributes
      PROVE  /\ newMin[a] \in Int /\ \A y \in Candidates(rows, a, min) : newMin[a] =< y /\ y \in Int
             /\ newMax[a] \in Int /\ \A y \in Candidates(rows, a, max) : newMax[a] >= y /\ y \in Int
  <2>1. newMin[a] = Least(Candidates(rows, a, min)) /\ newMax[a] = Greatest(Candidates(rows, a, max))
    OBVIOUS
  <2>2. newMin[a] \in Int /\ \A y \in Candidates(rows, a, min) : newMin[a] =< y /\ y \in Int
    BY <1>1, <1>2, <2>1, ExtremesOfRows
  <2>3. newMax[a] \in Int /\ \A y \in Candidates(rows, a, max) : newMax[a] >= y /\ y \in Int
    BY <1>1, <1>2, <2>1, ExtremesOfRows
  <2> QED
    BY <2>2, <2>3
<1>4. newMin \in [Attributes -> Int] /\ newMax \in [Attributes -> Int]
  BY <1>3
<1>5. ASSUME NEW d \in R \union {c}, NEW row \in Rows(f, d), NEW a \in Attributes
      PROVE  row.value[a] \in newMin[a] .. newMax[a]
  <2>1. CASE d = c
    <3>1. row.value[a] \in Candidates(rows, a, min) /\ row.value[a] \in Candidates(rows, a, max)
      BY <1>5, <2>1 DEF Candidates, Rows
    <3> QED
      BY <1>3, <3>1
  <2>2. CASE d \in R
    <3>1. /\ min \in [Attributes -> Int] /\ max \in [Attributes -> Int]
          /\ row.value[a] \in min[a] .. max[a]
      BY <1>5, <2>2 DEF ExtremesPart
    <3>2. min[a] \in Candidates(rows, a, min) /\ max[a] \in Candidates(rows, a, max)
      BY <3>1 DEF Candidates
    <3> QED
      BY <1>3, <3>1, <3>2
  <2> QED
    BY <2>1, <2>2
<1> QED
  BY <1>4, <1>5 DEF ExtremesPart

LEMMA ExtremesSame ==
    ASSUME NEW f, NEW R, NEW S, \A c \in S \ R : Rows(f, c) = {},
           NEW min, NEW max, ExtremesPart(f, R, min, max)
    PROVE  ExtremesPart(f, S, min, max)
BY DEF ExtremesPart

----------------------------------------------------------------------------
(* The rasters *)

\* The extremes of a raster over the loaded steps
TrueBounds(raster, res) == [min |-> Least({raster[s] : s \in Loadable(res)}),
                            max |-> Greatest({raster[s] : s \in Loadable(res)})]

BoundsOf(values, n) == [min |-> Least({values[s] : s \in 0 .. n}), max |-> Greatest({values[s] : s \in 0 .. n})]

LEMMA BoundsAreTrue ==
    ASSUME NEW res \in Nat \ {0}, NEW values, NEW raster,
           \A s \in Loadable(res) : values[s \div res] = raster[s]
    PROVE  BoundsOf(values, NumSteps \div res) = TrueBounds(raster, res)
<1>1. {values[s] : s \in 0 .. NumSteps \div res} = {raster[s] : s \in Loadable(res)}
  <2>1. ASSUME NEW s \in 0 .. NumSteps \div res PROVE \E k \in Loadable(res) : values[s] = raster[k]
    BY Entries
  <2>2. ASSUME NEW k \in Loadable(res) PROVE \E s \in 0 .. NumSteps \div res : values[s] = raster[k]
    BY Entries
  <2> QED
    BY <2>1, <2>2
<1> QED
  BY <1>1 DEF BoundsOf, TrueBounds

\* The bounds with those of raster r
WithBounds(b, r, x) == [q \in DOMAIN b \union {r} |-> IF q = r THEN x ELSE b[q]]

(* Reading one step of one raster                                          *)
LEMMA RastersGrow ==
    ASSUME NEW rasters, NEW res \in Nat \ {0}, NEW left, left # {}, NEW k \in Loadable(res),
           NEW loaded, NEW b, RastersPart(rasters, res, left, k, loaded, b),
           NEW r, r = Chosen(left),
           NEW values, values = [loaded[r] EXCEPT ![k \div res] = rasters[r][k]],
           NEW new, new = [loaded EXCEPT ![r] = values]
    PROVE  /\ k + res =< NumSteps => RastersPart(rasters, res, left, k + res, new, b)
           /\ ~(k + res =< NumSteps) =>
                 RastersPart(rasters, res, left \ {r}, 0, new, WithBounds(b, r, BoundsOf(values, NumSteps \div res)))
<1> DEFINE N == NumSteps \div res
<1>1. r \in left /\ r \in DOMAIN loaded
  BY DEF RastersPart, Chosen
<1>2. /\ DOMAIN loaded \subseteq Rasters /\ left \subseteq DOMAIN loaded
      /\ \A q \in DOMAIN loaded : DOMAIN loaded[q] = 0 .. N
      /\ \A q \in DOMAIN loaded, s \in Loadable(res) :
            q \notin left \/ (q = r /\ s < k) => loaded[q][s \div res] = rasters[q][s]
      /\ DOMAIN b = DOMAIN loaded \ left
      /\ \A q \in DOMAIN b : b[q] = TrueBounds(rasters[q], res)
  BY DEF RastersPart, TrueBounds
<1>3. /\ DOMAIN values = 0 .. N /\ DOMAIN new = DOMAIN loaded /\ new[r] = values
      /\ \A q \in DOMAIN loaded : q # r => new[q] = loaded[q]
  BY <1>1, <1>2
<1>4. /\ \A s \in Loadable(res) : s \div res \in 0 .. N /\ (s \div res = k \div res => s = k)
      /\ k \div res \in 0 .. N
  BY Entries
<1>5. \A s \in Loadable(res) : s < k \/ s = k => values[s \div res] = rasters[r][s]
  BY <1>1, <1>2, <1>4
<1>6. \A q \in DOMAIN new : DOMAIN new[q] = 0 .. N
  BY <1>2, <1>3
<1>7. ASSUME k + res =< NumSteps PROVE RastersPart(rasters, res, left, k + res, new, b)
  <2>1. ASSUME NEW q \in DOMAIN new, NEW s \in Loadable(res), q \notin left \/ (q = r /\ s < k + res)
        PROVE  new[q][s \div res] = rasters[q][s]
    <3>1. CASE q = r
      <4>1. s < k \/ s = k
        BY <1>1, <2>1, <3>1, NextStep
      <4> QED
        BY <1>3, <1>5, <3>1, <4>1
    <3>2. CASE q # r
      BY <1>2, <1>3, <2>1, <3>2
    <3> QED
      BY <3>1, <3>2
  <2> HIDE DEF N
  <2> QED
    BY <1>2, <1>3, <1>6, <2>1 DEF RastersPart, TrueBounds, N
<1>8. ASSUME ~(k + res =< NumSteps),
             NEW c, c = WithBounds(b, r, BoundsOf(values, N))
      PROVE  RastersPart(rasters, res, left \ {r}, 0, new, c)
  <2>1. \A s \in Loadable(res) : values[s \div res] = rasters[r][s]
    BY <1>5, <1>8, NextStep
  <2>2. ASSUME NEW q \in DOMAIN new, NEW s \in Loadable(res),
               q \notin left \ {r} \/ (q = Chosen(left \ {r}) /\ s < 0)
        PROVE  new[q][s \div res] = rasters[q][s]
    <3>1. s \in Nat
      BY LoadableStep
    <3>2. q \notin left \/ q = r
      BY <2>2, <3>1
    <3> QED
      BY <1>2, <1>3, <2>1, <3>2
  <2>3. DOMAIN c = DOMAIN new \ (left \ {r})
    BY <1>1, <1>2, <1>3, <1>8 DEF WithBounds
  <2>4. ASSUME NEW q \in DOMAIN c PROVE c[q] = TrueBounds(rasters[q], res)
    <3>1. CASE q = r
      <4> DEFINE raster == rasters[r]
      <4>1. \A s \in Loadable(res) : values[s \div res] = raster[s]
        BY <2>1
      <4> HIDE DEF raster
      <4>2. BoundsOf(values, NumSteps \div res) = TrueBounds(raster, res)
        BY <4>1, BoundsAreTrue
      <4>3. c[q] = BoundsOf(values, N)
        BY <1>8, <2>4, <3>1 DEF WithBounds
      <4> QED
        BY <3>1, <4>2, <4>3 DEF raster
    <3>2. CASE q # r
      BY <1>2, <1>8, <2>4, <3>2 DEF WithBounds
    <3> QED
      BY <3>1, <3>2
  <2> HIDE DEF N
  <2> QED
    BY <1>2, <1>3, <1>6, <2>2, <2>3, <2>4 DEF RastersPart, TrueBounds, N
<1> QED
  BY <1>7, <1>8

LEMMA RastersSame ==
    ASSUME NEW rasters, NEW res, NEW k, NEW loaded, NEW b, NEW j,
           RastersPart(rasters, res, {}, k, loaded, b)
    PROVE  RastersPart(rasters, res, {}, j, loaded, b)
BY DEF RastersPart

----------------------------------------------------------------------------
(* What has been read *)

LEMMA ReadPlaces ==
    ASSUME NEW res, NEW i, NEW T, NEW k
    PROVE  /\ Read(res, i, T, k) \in SUBSET Places
           /\ \A c \in Read(res, i, T, k) : c[3] \in Loadable(res)
BY DEF Read

\* Nothing, before the first file
LEMMA NothingRead ==
    ASSUME NEW res, NEW T, NEW k
    PROVE  Read(res, 0, T, k) = {}
<1>1. \A c \in Places : c[1] \in Nat /\ c[1] > 0
  BY NumbersAssumption DEF Places, Tasks
<1> QED
  BY <1>1 DEF Read

\* Everything, after the last
LEMMA AllRead ==
    ASSUME NEW res, NEW k
    PROVE  Read(res, NumTasks, {}, k) = {c \in Places : c[3] \in Loadable(res)}
<1>1. \A c \in Places : c[1] \in Nat /\ c[1] =< NumTasks
  BY NumbersAssumption DEF Places, Tasks
<1>2. \A c \in Places : c[1] < NumTasks \/ c[1] = NumTasks
  BY <1>1, NumbersAssumption
<1> QED
  BY <1>2 DEF Read

(* A new file: what it has no type of counts as read.                      *)
LEMMA ReadNextFile ==
    ASSUME NEW res \in Nat \ {0}, NEW i \in 0 .. NumTasks - 1, NEW T, NEW k
    PROVE  /\ Read(res, i, {}, k) \subseteq Read(res, i + 1, T, 0)
           /\ \A c \in Read(res, i + 1, T, 0) \ Read(res, i, {}, k) : c \in Places /\ c[1] = i + 1 /\ c[2] \notin T
<1>1. \A c \in Places : c[1] \in Nat
  BY NumbersAssumption DEF Places, Tasks
<1>2. i \in Nat
  BY NumbersAssumption
<1>3. \A c \in Places : c[1] < i + 1 <=> c[1] < i \/ c[1] = i
  BY <1>1, <1>2
<1>4. \A s \in Loadable(res) : ~(s < 0)
  BY LoadableStep
<1> QED
  BY <1>1, <1>2, <1>3, <1>4 DEF Read

ReadsOneMore(res, i, T, k) ==
    /\ <<i, Chosen(T), k>> \in Places
    /\ k + res =< NumSteps =>
           Read(res, i, T, k + res) = Read(res, i, T, k) \union {<<i, Chosen(T), k>>}
    /\ ~(k + res =< NumSteps) =>
           Read(res, i, T \ {Chosen(T)}, 0) = Read(res, i, T, k) \union {<<i, Chosen(T), k>>}

(* The next step of the first type that is left, and the last one          *)
LEMMA ReadNextStep ==
    ASSUME NEW res \in Nat \ {0}, NEW i \in Tasks, NEW T \in SUBSET Types, T # {}, NEW k \in Loadable(res)
    PROVE  ReadsOneMore(res, i, T, k)
<1> DEFINE t == Chosen(T)
           d == <<i, t, k>>
           U == T \ {t}
<1>0. t \in T /\ t \in Types
  BY DEF Chosen
<1>1. d \in Places /\ i \in Nat /\ ~(i < i)
  BY <1>0, NumbersAssumption DEF Places, Loadable, Tasks
<1>2. \A c \in Places : c = d <=> c[1] = i /\ c[2] = t /\ c[3] = k
  BY DEF Places
<1>3. \A s \in Loadable(res) : ~(s < 0)
  BY LoadableStep
<1>4. /\ \A l \in Loadable(res) : l < k + res <=> l < k \/ l = k
      /\ ~(k + res =< NumSteps) => \A l \in Loadable(res) : l < k \/ l = k
  BY NextStep
<1> HIDE DEF d
<1>5. ASSUME k + res =< NumSteps
      PROVE  Read(res, i, T, k + res) = Read(res, i, T, k) \union {d}
  BY <1>0, <1>1, <1>2, <1>4 DEF Read
<1>6. ASSUME ~(k + res =< NumSteps)
      PROVE  Read(res, i, U, 0) = Read(res, i, T, k) \union {d}
  <2> SUFFICES ASSUME NEW c \in Places, c[3] \in Loadable(res)
               PROVE  (\/ c[1] < i
                       \/ c[1] = i /\ (c[2] \notin U \/ (c[2] = Chosen(U) /\ c[3] < 0)))
                      <=> (\/ c[1] < i
                           \/ c[1] = i /\ (c[2] \notin T \/ (c[2] = t /\ c[3] < k))
                           \/ c = d)
    BY <1>1, <1>2 DEF Read
  <2>1. c[3] < k \/ c[3] = k
    BY <1>4, <1>6
  <2> QED
    BY <1>0, <1>2, <1>3, <2>1
<1> QED
  BY <1>1, <1>5, <1>6 DEF d, ReadsOneMore

----------------------------------------------------------------------------
(* The steps of a load *)

LEMMA ResolutionType ==
    ASSUME LoadInv
    PROVE  /\ resolution \in Nat \ {0} /\ Loadable(resolution) = LoadedSteps
           /\ Slots = 0 .. NumSteps \div resolution /\ NumSteps \div resolution \in Nat
           /\ Recorded(sim.file) /\ OneRow(sim.file)
<1>1. resolution \in Nat \ {0} /\ sim \in Simulations
  BY NumbersAssumption DEF LoadInv
<1>2. NumSteps \div resolution \in Nat
  BY <1>1, NumbersAssumption, Division
<1>3. Slots = 0 .. NumSteps \div resolution
  BY <1>2 DEF Slots, NumStepsToLoad
<1> QED
  BY <1>1, <1>2, <1>3, SimulationFiles DEF Loadable, LoadedSteps

LEMMA EmptyParts ==
    ASSUME NEW f, NEW res, NEW min, NEW max, min = Nothing \/ min \in [Attributes -> Int],
           max = Nothing \/ max \in [Attributes -> Int]
    PROVE  AgentsPart(f, res, {}, Nothing) /\ ExtremesPart(f, {}, min, max)
BY DEF AgentsPart, ExtremesPart, HasRow, Nothing

LEMMA StartOfLoad ==
    ASSUME RecordInv, NEW loadRasters \in BOOLEAN, loadHDF5(loadRasters)
    PROVE  RecordInv'
<1>1. /\ sim' \in Simulations /\ resolution' = resolution /\ resolution \in Resolutions
      /\ types' = {} /\ agents' = Nothing /\ bounds' = Nothing
      /\ task' = 0 /\ agentTypes' = {} /\ loadingStep' = 0
      /\ minValue' = minValue /\ maxValue' = maxValue
      /\ \/ phase' = "failed" /\ rastersLeft' = {} /\ resources' = Nothing
         \/ phase' = "rasters" /\ rastersLeft' = Rasters /\ resources' = [r \in Rasters |-> [s \in Slots |-> 0]]
         \/ phase' = "agents" /\ rastersLeft' = {} /\ resources' = Nothing
  BY DEF loadHDF5, RecordInv, LoadInv
<1>2. /\ resolution \in Nat \ {0} /\ Slots = 0 .. NumSteps \div resolution
      /\ 0 \in Loadable(resolution) /\ \A s \in Loadable(resolution) : ~(s < 0)
  BY ResolutionType, Entries, LoadableStep DEF RecordInv
<1>3. LoadInv'
  BY <1>1, <1>2, NumbersAssumption, SetsAssumption DEF LoadInv
<1>4. ReadNow' = {}
  BY <1>1, NothingRead DEF ReadNow
<1>5. AgentsPart(sim'.file, resolution', ReadNow', agents') /\ ExtremesPart(sim'.file, ReadNow', minValue', maxValue')
  BY <1>1, <1>4, EmptyParts DEF RecordInv, ExtremesPart
<1>6. RastersPart(sim'.raster, resolution', rastersLeft', loadingStep', resources', bounds')
  <2>1. CASE rastersLeft' = {} /\ resources' = Nothing
    BY <1>1, <2>1 DEF RastersPart, Nothing
  <2>2. CASE rastersLeft' = Rasters /\ resources' = [r \in Rasters |-> [s \in Slots |-> 0]]
    BY <1>1, <1>2, <2>2 DEF RastersPart, Nothing
  <2> QED
    BY <1>1, <2>1, <2>2
<1> QED
  BY <1>3, <1>5, <1>6 DEF RecordInv

LEMMA RasterStep ==
    ASSUME RecordInv, LoadRaster
    PROVE  RecordInv'
<1> DEFINE r == Chosen(rastersLeft)
           values == [resources[r] EXCEPT ![Slot(loadingStep)] = sim.raster[r][loadingStep]]
<1>1. /\ phase = "rasters"
      /\ resources' = [resources EXCEPT ![r] = values]
      /\ IF MoreSteps(loadingStep)
         THEN /\ loadingStep' = loadingStep + resolution
              /\ UNCHANGED <<rastersLeft, bounds>>
         ELSE /\ loadingStep' = 0 /\ rastersLeft' = rastersLeft \ {r}
              /\ bounds' = [q \in DOMAIN bounds \union {r} |-> IF q = r THEN Extremes(values) ELSE bounds[q]]
      /\ IF rastersLeft' = {} THEN phase' = "agents" ELSE phase' = phase
      /\ UNCHANGED <<loadVars, agentVars>>
  BY DEF LoadRaster, Chosen
<1>2. /\ resolution \in Nat \ {0} /\ Slots = 0 .. NumSteps \div resolution
      /\ 0 \in Loadable(resolution) /\ LoadInv
  BY ResolutionType, Entries DEF RecordInv
<1>3. /\ task = 0 /\ agentTypes = {} /\ rastersLeft # {} /\ loadingStep \in Loadable(resolution)
      /\ UNCHANGED <<sim, resolution, task, agentTypes, types, agents, minValue, maxValue>>
  BY <1>1, <1>2 DEF LoadInv, loadVars, agentVars
<1>4. loadingStep' \in Loadable(resolution)
  BY <1>1, <1>2, <1>3, NextStep DEF MoreSteps
<1>5. LoadInv'
  <2>1. \A i : FileTypes(i)' = FileTypes(i)
    BY <1>3 DEF FileTypes
  <2>2. types' = UNION {FileTypes(i)' : i \in 1 .. task'}
    BY <1>2, <1>3, <2>1 DEF LoadInv
  <2>3. /\ phase' \in {"agents", "rasters"}
        /\ phase' # "rasters" <=> rastersLeft' = {}
    BY <1>1, <1>3
  <2>4. /\ sim' \in Simulations /\ resolution' \in Resolutions
        /\ task' \in 0 .. NumTasks /\ loadingStep' \in Loadable(resolution')
        /\ agentTypes' \subseteq Types /\ (task' = 0 => agentTypes' = {})
        /\ task' = 0
    BY <1>2, <1>3, <1>4 DEF LoadInv
  <2> QED
    BY <2>2, <2>3, <2>4 DEF LoadInv
<1>6. ReadNow = {} /\ ReadNow' = {}
  BY <1>3, NothingRead DEF ReadNow
<1>7. AgentsPart(sim'.file, resolution', ReadNow', agents') /\ ExtremesPart(sim'.file, ReadNow', minValue', maxValue')
  BY <1>3, <1>6 DEF RecordInv
<1>8. RastersPart(sim'.raster, resolution', rastersLeft', loadingStep', resources', bounds')
  <2> DEFINE rasters == sim.raster
             N == NumSteps \div resolution
  <2>1. RastersPart(rasters, resolution, rastersLeft, loadingStep, resources, bounds)
    BY DEF RecordInv
  <2>2. /\ r = Chosen(rastersLeft)
        /\ values = [resources[r] EXCEPT ![loadingStep \div resolution] = rasters[r][loadingStep]]
        /\ Extremes(values) = BoundsOf(values, N)
    BY <1>2 DEF Slot, Extremes, BoundsOf
  <2> HIDE DEF rasters, values, r
  <2>3. resources' = [resources EXCEPT ![r] = values] /\ rastersLeft # {} /\ loadingStep \in Loadable(resolution)
    BY <1>1, <1>3
  <2> HIDE DEF N
  <2>4. /\ loadingStep + resolution =< NumSteps =>
              RastersPart(rasters, resolution, rastersLeft, loadingStep + resolution, resources', bounds)
        /\ ~(loadingStep + resolution =< NumSteps) =>
              RastersPart(rasters, resolution, rastersLeft \ {r}, 0, resources', WithBounds(bounds, r, BoundsOf(values, N)))
    BY <1>2, <2>1, <2>2, <2>3, RastersGrow DEF N
  <2>5. CASE MoreSteps(loadingStep)
    <3>1. RastersPart(rasters, resolution, rastersLeft, loadingStep + resolution, resources', bounds)
      BY <2>4, <2>5 DEF MoreSteps
    <3> QED
      BY <1>1, <1>3, <2>5, <3>1 DEF rasters
  <2>6. CASE ~MoreSteps(loadingStep)
    <3>1. bounds' = WithBounds(bounds, r, BoundsOf(values, N))
      BY <1>1, <2>2, <2>6 DEF WithBounds
    <3>2. RastersPart(rasters, resolution, rastersLeft \ {r}, 0, resources', bounds')
      BY <2>4, <2>6, <3>1 DEF MoreSteps
    <3> QED
      BY <1>1, <1>3, <2>6, <3>2 DEF rasters
  <2> QED
    BY <2>5, <2>6
<1> QED
  BY <1>5, <1>7, <1>8 DEF RecordInv

LEMMA NextFile ==
    ASSUME RecordInv, registerAgentTypes
    PROVE  RecordInv'
<1>1. /\ phase = "agents" /\ agentTypes = {} /\ task < NumTasks
      /\ task' = task + 1 /\ agentTypes' = FileTypes(task + 1)
      /\ types' = types \union FileTypes(task + 1) /\ loadingStep' = 0
      /\ UNCHANGED <<sim, resolution, phase, agents, minValue, maxValue, rastersLeft, resources, bounds>>
  BY DEF registerAgentTypes, loadVars, rasterVars
<1>2. /\ resolution \in Nat \ {0} /\ 0 \in Loadable(resolution) /\ LoadInv /\ Recorded(sim.file)
  BY ResolutionType, Entries DEF RecordInv
<1>3. task \in 0 .. NumTasks - 1 /\ task + 1 \in Tasks /\ NumTasks \in Nat
  BY <1>1, <1>2, NumbersAssumption DEF LoadInv, Tasks
<1>4. LoadInv'
  <2>1. \A i : FileTypes(i)' = FileTypes(i)
    BY <1>1 DEF FileTypes
  <2>2. types = UNION {FileTypes(i) : i \in 1 .. task}
    BY <1>2 DEF LoadInv
  <2>3. 1 .. task + 1 = (1 .. task) \union {task + 1}
    BY <1>3
  <2>4. types' = UNION {FileTypes(i)' : i \in 1 .. task'}
    BY <1>1, <2>1, <2>2, <2>3
  <2>5. /\ sim' \in Simulations /\ resolution' \in Resolutions
        /\ task' \in 0 .. NumTasks /\ loadingStep' \in Loadable(resolution')
        /\ agentTypes' \subseteq Types /\ task' # 0
        /\ phase' = "agents" /\ rastersLeft' = {}
    BY <1>1, <1>2, <1>3 DEF LoadInv, FileTypes
  <2> QED
    BY <2>4, <2>5 DEF LoadInv
<1> DEFINE f == sim.file
           S == Read(resolution, task + 1, FileTypes(task + 1), 0)
<1>5. ReadNow' = S /\ ReadNow = Read(resolution, task, {}, loadingStep)
  BY <1>1 DEF ReadNow
<1>6. ReadNow \subseteq S /\ \A c \in S \ ReadNow : Rows(f, c) = {}
  <2>1. /\ ReadNow \subseteq S
        /\ \A c \in S \ ReadNow : c \in Places /\ c[1] = task + 1 /\ c[2] \notin FileTypes(task + 1)
    BY <1>2, <1>3, <1>5, ReadNextFile
  <2>2. ASSUME NEW c \in Places, c[1] = task + 1, c[2] \notin FileTypes(task + 1) PROVE Rows(f, c) = {}
    <3>1. c[2] \in Types /\ c[3] \in Steps
      BY DEF Places
    <3>2. f[c[1]][c[2]][c[3]] = <<>>
      BY <2>2, <3>1 DEF FileTypes
    <3> QED
      BY <3>2 DEF Rows
  <2> QED
    BY <2>1, <2>2
<1> HIDE DEF S
<1>7. AgentsPart(f, resolution, S, agents)
  BY <1>6, AgentsSame DEF RecordInv
<1>8. ExtremesPart(f, S, minValue, maxValue)
  BY <1>6, ExtremesSame DEF RecordInv
<1>9. RastersPart(sim.raster, resolution, {}, 0, resources, bounds) /\ rastersLeft = {}
  <2>1. rastersLeft = {}
    BY <1>1, <1>2 DEF LoadInv
  <2> QED
    BY <2>1, RastersSame DEF RecordInv
<1> QED
  BY <1>1, <1>4, <1>5, <1>7, <1>8, <1>9 DEF RecordInv

(* The rows of one type, step and file are entered into the records.       *)
LEMMA RowsEntered ==
    ASSUME LoadInv, NEW c \in Places, c[3] = loadingStep,
           NEW rows, rows = sim.file[c[1]][c[2]][c[3]], NEW row \in Rows(sim.file, c)
    PROVE  States(rows, row.id) =
               Entered(IF row.id \in DOMAIN agents THEN agents[row.id] ELSE Zeros(NumSteps \div resolution),
                       loadingStep \div resolution, row)
<1> DEFINE i == CHOOSE j \in DOMAIN rows : rows[j].id = row.id
           old == IF row.id \in DOMAIN agents THEN agents[row.id] ELSE NewRecord
           s == loadingStep \div resolution
<1>1. i \in DOMAIN rows /\ rows[i].id = row.id
  BY DEF Rows
<1> HIDE DEF i
<1>2. rows[i] \in Rows(sim.file, c)
  BY <1>1 DEF Rows
<1>3. rows[i] = row
  BY <1>1, <1>2, ResolutionType DEF OneRow
<1>4. NewRecord = Zeros(NumSteps \div resolution)
  BY ResolutionType DEF NewRecord, Zeros
<1>5. States(rows, row.id) = [key \in Keys |-> [old[key] EXCEPT ![s] =
                                  IF key = "exists" THEN 1 ELSE rows[i].value[key]]]
  BY DEF States, Slot, i
<1> HIDE DEF s
<1>6. States(rows, row.id) = Entered(old, s, row)
  BY <1>3, <1>5 DEF Entered
<1> QED
  BY <1>4, <1>6 DEF s

LEMMA AgentStep ==
    ASSUME RecordInv, LoadAgents
    PROVE  RecordInv'
<1> DEFINE f == sim.file
           t == Chosen(agentTypes)
           c == <<task, t, loadingStep>>
           rows == f[task][t][loadingStep]
           ids == {rows[i].id : i \in DOMAIN rows}
<1>1. /\ phase = "agents" /\ agentTypes # {}
      /\ agents' = [id \in DOMAIN agents \union ids |-> IF id \in ids THEN States(rows, id) ELSE agents[id]]
      /\ IF rows = <<>> THEN UNCHANGED <<minValue, maxValue>>
         ELSE minValue' = UpdatedMin(rows) /\ maxValue' = UpdatedMax(rows)
      /\ IF MoreSteps(loadingStep)
         THEN loadingStep' = loadingStep + resolution /\ agentTypes' = agentTypes
         ELSE loadingStep' = 0 /\ agentTypes' = agentTypes \ {t}
      /\ UNCHANGED <<sim, resolution, phase, task, types, rastersLeft, resources, bounds>>
  BY DEF LoadAgents, Chosen, loadVars, rasterVars
<1>2. /\ LoadInv /\ resolution \in Nat \ {0} /\ 0 \in Loadable(resolution)
      /\ loadingStep \in Loadable(resolution) /\ Recorded(f) /\ OneRow(f)
      /\ task \in Tasks /\ agentTypes \in SUBSET Types
  <2>1. LoadInv
    BY DEF RecordInv
  <2>2. task \in Tasks
    BY <1>1, <2>1, NumbersAssumption DEF LoadInv, Tasks
  <2> QED
    BY <2>1, <2>2, ResolutionType, Entries DEF LoadInv
<1>3. loadingStep' \in Loadable(resolution)
  BY <1>1, <1>2, NextStep DEF MoreSteps
<1>4. LoadInv'
  <2>1. \A i : FileTypes(i)' = FileTypes(i)
    BY <1>1 DEF FileTypes
  <2>2. types' = UNION {FileTypes(i)' : i \in 1 .. task'}
    BY <1>1, <1>2, <2>1 DEF LoadInv
  <2>3. task # 0
    BY <1>2 DEF Tasks
  <2>4. /\ sim' \in Simulations /\ resolution' \in Resolutions
        /\ task' \in 0 .. NumTasks /\ loadingStep' \in Loadable(resolution')
        /\ agentTypes' \subseteq Types /\ task' # 0
        /\ phase' = "agents" /\ rastersLeft' = {}
    BY <1>1, <1>2, <1>3, <2>3 DEF LoadInv
  <2> QED
    BY <2>2, <2>4 DEF LoadInv
<1>5. c \in Places /\ ReadNow' = ReadNow \union {c}
  <2> DEFINE T == agentTypes
             k == loadingStep
             res == resolution
             i == task
  <2>1. res \in Nat \ {0} /\ i \in Tasks /\ T \in SUBSET Types /\ T # {} /\ k \in Loadable(res)
    BY <1>1, <1>2
  <2> HIDE DEF T, k, res, i
  <2>2. ReadsOneMore(res, i, T, k)
    BY <2>1, ReadNextStep
  <2>3. ReadNow' = Read(resolution, task, agentTypes', loadingStep')
    BY <1>1 DEF ReadNow
  <2> QED
    BY <1>1, <2>2, <2>3 DEF ReadsOneMore, ReadNow, MoreSteps, T, k, res, i
<1>6. /\ ReadNow \in SUBSET Places /\ \A d \in ReadNow : d[3] \in Loadable(resolution)
      /\ c[3] = loadingStep /\ f[c[1]][c[2]][c[3]] = rows
      /\ ids = {row.id : row \in Rows(f, c)}
  BY ReadPlaces DEF ReadNow, Rows
<1> HIDE DEF c, rows
<1>7. AgentsPart(f, resolution, ReadNow \union {c}, agents')
  <2>1. \A row \in Rows(f, c) : agents'[row.id] =
            Entered(IF row.id \in DOMAIN agents THEN agents[row.id] ELSE Zeros(NumSteps \div resolution),
                    c[3] \div resolution, row)
    <3> SUFFICES ASSUME NEW row \in Rows(f, c)
                 PROVE  agents'[row.id] = Entered(IF row.id \in DOMAIN agents THEN agents[row.id]
                                                  ELSE Zeros(NumSteps \div resolution), c[3] \div resolution, row)
      OBVIOUS
    <3>1. row.id \in ids
      BY <1>6
    <3>2. agents'[row.id] = States(rows, row.id)
      BY <1>1, <3>1
    <3> QED
      BY <1>2, <1>5, <1>6, <3>2, RowsEntered
  <2> DEFINE new == agents'
  <2>2. DOMAIN new = DOMAIN agents \union ids /\ \A id \in DOMAIN agents : id \notin ids => new[id] = agents[id]
    BY <1>1
  <2>3. AgentsPart(f, resolution, ReadNow, agents)
    BY DEF RecordInv
  <2> HIDE DEF f, ids
  <2> QED
    BY <1>2, <1>5, <1>6, <2>1, <2>2, <2>3, AgentsGrow
<1>8. ExtremesPart(f, ReadNow \union {c}, minValue', maxValue')
  <2>1. ExtremesPart(f, ReadNow, minValue, maxValue)
    BY DEF RecordInv
  <2>2. CASE rows = <<>>
    <3>1. Rows(f, c) = {}
      BY <1>6, <2>2 DEF Rows
    <3>2. \A d \in (ReadNow \union {c}) \ ReadNow : Rows(f, d) = {}
      BY <3>1
    <3> QED
      BY <1>1, <2>1, <2>2, <3>2, ExtremesSame
  <2>3. CASE rows # <<>>
    <3>1. /\ minValue' = [a \in Attributes |-> Least(Candidates(rows, a, minValue))]
          /\ maxValue' = [a \in Attributes |-> Greatest(Candidates(rows, a, maxValue))]
      BY <1>1, <2>3 DEF UpdatedMin, UpdatedMax, Candidates
    <3> HIDE DEF f
    <3> QED
      BY <1>2, <1>5, <1>6, <2>1, <2>3, <3>1, ExtremesGrow
  <2> QED
    BY <2>2, <2>3
<1>9. RastersPart(sim.raster, resolution, {}, loadingStep', resources, bounds) /\ rastersLeft = {}
  <2>1. rastersLeft = {}
    BY <1>1, <1>2 DEF LoadInv
  <2> QED
    BY <2>1, RastersSame DEF RecordInv
<1> QED
  BY <1>1, <1>4, <1>5, <1>7, <1>8, <1>9 DEF RecordInv

LEMMA NoFile == 0 \in 0 .. NumTasks /\ 1 .. 0 = {}
BY NumbersAssumption

LEMMA InitRecord == Init => RecordInv
<1> SUFFICES ASSUME Init PROVE RecordInv
  OBVIOUS
<1>1. resolution \in Nat \ {0} /\ 0 \in Loadable(resolution)
  BY NumbersAssumption, Entries DEF Init
<1>2. LoadInv
  <2>1. /\ sim \in Simulations /\ resolution \in Resolutions
        /\ phase = "no load" /\ task = 0 /\ agentTypes = {} /\ loadingStep = 0 /\ rastersLeft = {} /\ types = {}
    BY DEF Init
  <2>2. task \in 0 .. NumTasks
    BY <2>1, NoFile, Zenon
  <2>3. 1 .. task = {}
    BY <2>1, NoFile, Zenon
  <2>4. types = UNION {FileTypes(i) : i \in 1 .. task}
    BY <2>1, <2>3
  <2> QED
    BY <1>1, <2>1, <2>2, <2>4 DEF LoadInv
<1>3. ReadNow = {}
  BY NothingRead DEF Init, ReadNow
<1>4. AgentsPart(sim.file, resolution, ReadNow, agents) /\ ExtremesPart(sim.file, ReadNow, minValue, maxValue)
  BY <1>3, EmptyParts DEF Init
<1>5. RastersPart(sim.raster, resolution, rastersLeft, loadingStep, resources, bounds)
  BY DEF Init, RastersPart, Nothing
<1> QED
  BY <1>2, <1>4, <1>5 DEF RecordInv

LEMMA RecordStep == RecordInv /\ [Next]_vars => RecordInv'
<1> SUFFICES ASSUME RecordInv, [Next]_vars PROVE RecordInv'
  OBVIOUS
<1>1. CASE Loaded
  <2>1. /\ phase = "agents" /\ agentTypes = {} /\ task = NumTasks /\ phase' = "done"
        /\ UNCHANGED <<sim, resolution, task, agentTypes, types, agents, minValue, maxValue,
                       rastersLeft, resources, bounds, loadingStep>>
    BY <1>1 DEF Loaded, loadVars, rasterVars, agentVars
  <2>2. LoadInv'
    BY <2>1 DEF RecordInv, LoadInv, FileTypes
  <2>3. /\ AgentsPart(sim'.file, resolution', ReadNow', agents')
        /\ ExtremesPart(sim'.file, ReadNow', minValue', maxValue')
        /\ RastersPart(sim'.raster, resolution', rastersLeft', loadingStep', resources', bounds')
    BY <2>1 DEF RecordInv, ReadNow
  <2> QED
    BY <2>2, <2>3 DEF RecordInv
<1>2. CASE UNCHANGED vars
  <2>1. UNCHANGED <<sim, resolution, task, agentTypes, types, agents, minValue, maxValue,
                    rastersLeft, resources, bounds, loadingStep, phase>>
    BY <1>2 DEF vars
  <2>2. LoadInv'
    <3>1. \A i : FileTypes(i)' = FileTypes(i)
      BY <2>1 DEF FileTypes
    <3>2. types' = UNION {FileTypes(i)' : i \in 1 .. task'}
      BY <2>1, <3>1 DEF RecordInv, LoadInv
    <3>3. LoadInv
      BY DEF RecordInv
    <3>4. /\ sim' \in Simulations /\ resolution' \in Resolutions
          /\ task' \in 0 .. NumTasks /\ loadingStep' \in Loadable(resolution')
          /\ agentTypes' \subseteq Types /\ (task' = 0 => agentTypes' = {})
      BY <2>1, <3>3 DEF LoadInv
    <3>5. /\ phase' \in {"no load", "failed", "rasters"} => task' = 0
          /\ phase' = "done" => task' = NumTasks /\ agentTypes' = {}
          /\ phase' # "rasters" <=> rastersLeft' = {}
      BY <2>1, <3>3 DEF LoadInv
    <3> QED
      BY <3>2, <3>4, <3>5 DEF LoadInv
  <2>3. /\ AgentsPart(sim'.file, resolution', ReadNow', agents')
        /\ ExtremesPart(sim'.file, ReadNow', minValue', maxValue')
        /\ RastersPart(sim'.raster, resolution', rastersLeft', loadingStep', resources', bounds')
    BY <2>1 DEF RecordInv, ReadNow
  <2> QED
    BY <2>2, <2>3 DEF RecordInv
<1> QED
  BY <1>1, <1>2, StartOfLoad, RasterStep, NextFile, AgentStep DEF Next, Idle

LEMMA RecordAlways == Spec => []RecordInv
BY InitRecord, RecordStep, PTL DEF Spec

\* When a load is done everything has been read.
LEMMA DoneReads ==
    ASSUME RecordInv, phase = "done"
    PROVE  /\ ReadNow = {c \in Places : c[3] \in Loadable(resolution)}
           /\ \A k \in Loadable(resolution) :
                 RowsAt(k) = UNION {Rows(sim.file, c) : c \in {d \in ReadNow : d[3] = k}}
<1>1. ReadNow = {c \in Places : c[3] \in Loadable(resolution)}
  BY AllRead DEF RecordInv, LoadInv, ReadNow
<1>2. ASSUME NEW k \in Loadable(resolution)
      PROVE  RowsAt(k) = UNION {Rows(sim.file, c) : c \in {d \in ReadNow : d[3] = k}}
  <2>1. k \in Steps
    BY DEF Loadable
  <2>2. ASSUME NEW i \in Tasks, NEW t \in Types
        PROVE  \E c \in ReadNow : c[3] = k /\ Rows(sim.file, c) = {sim.file[i][t][k][j] : j \in DOMAIN sim.file[i][t][k]}
    <3>1. <<i, t, k>> \in Places
      BY <2>1 DEF Places
    <3>2. <<i, t, k>> \in ReadNow
      BY <1>1, <3>1
    <3> QED
      BY <3>2 DEF Rows
  <2>3. ASSUME NEW c \in ReadNow, c[3] = k
        PROVE  \E i \in Tasks, t \in Types :
                   Rows(sim.file, c) = {sim.file[i][t][k][j] : j \in DOMAIN sim.file[i][t][k]}
    <3>1. c[1] \in Tasks /\ c[2] \in Types
      BY <1>1 DEF Places
    <3> QED
      BY <2>3, <3>1 DEF Rows
  <2>4. ASSUME NEW row \in RowsAt(k) PROVE \E c \in ReadNow : c[3] = k /\ row \in Rows(sim.file, c)
    BY <2>2 DEF RowsAt
  <2>5. ASSUME NEW c \in ReadNow, c[3] = k, NEW row \in Rows(sim.file, c) PROVE row \in RowsAt(k)
    BY <2>3, <2>5 DEF RowsAt
  <2> QED
    BY <2>4, <2>5
<1> QED
  BY <1>1, <1>2


(* The records after a load, at one of its steps: the agents of the rows   *)
(* have the values of the rows, and the others have 0.                     *)
LEMMA DoneStep ==
    ASSUME RecordInv, phase = "done", NEW k \in LoadedSteps
    PROVE  /\ \A row \in RowsAt(k) :
                  /\ row.id \in DOMAIN agents
                  /\ agents[row.id]["exists"][Slot(k)] = 1
                  /\ \A a \in Attributes : /\ agents[row.id][a][Slot(k)] = row.value[a]
                                           /\ row.value[a] \in minValue[a] .. maxValue[a]
           /\ \A row \in RowsAt(k), other \in RowsAt(k) : row.id = other.id => row = other
           /\ \A id \in DOMAIN agents :
                  (\A row \in RowsAt(k) : row.id # id) => \A key \in Keys : agents[id][key][Slot(k)] = 0
<1> DEFINE f == sim.file
           R == ReadNow
<1>1. /\ k \in Loadable(resolution) /\ Recorded(f) /\ OneRow(f) /\ Slot(k) = k \div resolution
      /\ R \in SUBSET Places
  BY ResolutionType, ReadPlaces DEF RecordInv, Slot, ReadNow
<1>2. AgentsPart(f, resolution, R, agents) /\ ExtremesPart(f, R, minValue, maxValue)
  BY DEF RecordInv
<1>3. RowsAt(k) = UNION {Rows(f, c) : c \in {d \in R : d[3] = k}}
  BY <1>1, DoneReads
<1> HIDE DEF f, R
<1>4. ASSUME NEW row \in RowsAt(k)
      PROVE  \E c \in R : c \in Places /\ c[3] = k /\ row \in Rows(f, c)
  BY <1>1, <1>3
<1>5. ASSUME NEW row \in RowsAt(k)
      PROVE  /\ row.id \in DOMAIN agents
             /\ agents[row.id]["exists"][Slot(k)] = 1
             /\ \A a \in Attributes : /\ agents[row.id][a][Slot(k)] = row.value[a]
                                      /\ row.value[a] \in minValue[a] .. maxValue[a]
  <2>1. PICK c \in R : c \in Places /\ c[3] = k /\ row \in Rows(f, c)
    BY <1>4
  <2>2. row.id \in Ids
    BY <1>1, <2>1, RowsType
  <2>3. HasRow(f, R, row.id, k)
    BY <2>1 DEF HasRow
  <2>4. row.id \in DOMAIN agents
    BY <1>1, <1>2, <2>2, <2>3 DEF AgentsPart
  <2>5. /\ agents[row.id]["exists"][k \div resolution] = 1
        /\ \A a \in Attributes : agents[row.id][a][k \div resolution] = row.value[a]
    BY <1>2, <2>1 DEF AgentsPart
  <2>6. \A a \in Attributes : row.value[a] \in minValue[a] .. maxValue[a]
    BY <1>2, <2>1 DEF ExtremesPart
  <2> QED
    BY <1>1, <2>4, <2>5, <2>6
<1>6. ASSUME NEW row \in RowsAt(k), NEW other \in RowsAt(k), row.id = other.id PROVE row = other
  <2>1. PICK c \in R : c \in Places /\ c[3] = k /\ row \in Rows(f, c)
    BY <1>4
  <2>2. PICK d \in R : d \in Places /\ d[3] = k /\ other \in Rows(f, d)
    BY <1>4
  <2> QED
    BY <1>1, <1>6, <2>1, <2>2 DEF OneRow
<1>7. ASSUME NEW id \in DOMAIN agents, \A row \in RowsAt(k) : row.id # id
      PROVE  \A key \in Keys : agents[id][key][Slot(k)] = 0
  <2>1. ~HasRow(f, R, id, k)
    BY <1>3, <1>7 DEF HasRow
  <2> QED
    BY <1>1, <1>2, <2>1 DEF AgentsPart
<1> QED
  BY <1>5, <1>6, <1>7

LEMMA DoneDomain ==
    ASSUME RecordInv, phase = "done"
    PROVE  DOMAIN agents = UNION {{row.id : row \in RowsAt(k)} : k \in LoadedSteps}
<1> DEFINE f == sim.file
           R == ReadNow
<1>1. /\ LoadedSteps = Loadable(resolution) /\ AgentsPart(f, resolution, R, agents)
      /\ \A k \in LoadedSteps : RowsAt(k) = UNION {Rows(f, c) : c \in {d \in R : d[3] = k}}
  BY ResolutionType, DoneReads DEF RecordInv
<1> HIDE DEF f, R
<1>2. ASSUME NEW id \in DOMAIN agents PROVE \E k \in LoadedSteps : \E row \in RowsAt(k) : row.id = id
  <2>1. PICK k \in LoadedSteps : HasRow(f, R, id, k)
    BY <1>1 DEF AgentsPart
  <2> QED
    BY <1>1, <2>1 DEF HasRow
<1>3. \A k \in LoadedSteps : \A row \in RowsAt(k) : row.id \in DOMAIN agents
  BY DoneStep
<1> QED
  BY <1>2, <1>3

(* What is loaded of the agents is what the worlds recorded at the loaded  *)
(* steps (SimulationRecord::loadHDF5), whatever was loaded before and      *)
(* however the rows are spread over the files.                             *)
THEOREM RecordIsAlwaysHistory == Spec => []RecordIsHistory
<1>1. ASSUME RecordInv PROVE RecordIsHistory
  <2> SUFFICES ASSUME phase = "done"
               PROVE  /\ DOMAIN agents = UNION {{row.id : row \in RowsAt(k)} : k \in LoadedSteps}
                      /\ types = UNION {FileTypes(i) : i \in Tasks}
                      /\ \A k \in LoadedSteps, id \in DOMAIN agents :
                            LET rows == {row \in RowsAt(k) : row.id = id}
                            IN  /\ agents[id]["exists"][Slot(k)] = Cardinality(rows)
                                /\ \A row \in rows, a \in Attributes :
                                      /\ agents[id][a][Slot(k)] = row.value[a]
                                      /\ row.value[a] \in minValue[a] .. maxValue[a]
    BY DEF RecordIsHistory
  <2>1. DOMAIN agents = UNION {{row.id : row \in RowsAt(k)} : k \in LoadedSteps}
    BY <1>1, DoneDomain
  <2>2. types = UNION {FileTypes(i) : i \in Tasks}
    BY <1>1 DEF RecordInv, LoadInv, Tasks
  <2>3. ASSUME NEW k \in LoadedSteps, NEW id \in DOMAIN agents,
               NEW rows, rows = {row \in RowsAt(k) : row.id = id}
        PROVE  /\ agents[id]["exists"][Slot(k)] = Cardinality(rows)
               /\ \A row \in rows, a \in Attributes :
                     /\ agents[id][a][Slot(k)] = row.value[a]
                     /\ row.value[a] \in minValue[a] .. maxValue[a]
    <3>1. \A row \in rows, a \in Attributes :
              /\ agents[id][a][Slot(k)] = row.value[a]
              /\ row.value[a] \in minValue[a] .. maxValue[a]
      BY <1>1, <2>3, DoneStep
    <3>2. CASE rows = {}
      <4>1. agents[id]["exists"][Slot(k)] = 0
        BY <1>1, <2>3, <3>2, DoneStep DEF Keys
      <4> QED
        BY <3>2, <4>1, FS_EmptySet
    <3>3. ASSUME NEW row \in rows PROVE agents[id]["exists"][Slot(k)] = Cardinality(rows)
      <4>1. rows = {row}
        BY <1>1, <2>3, <3>3, DoneStep
      <4>2. Cardinality({row}) = 1
        BY FS_Singleton
      <4>3. agents[id]["exists"][Slot(k)] = 1
        BY <1>1, <2>3, <3>3, DoneStep
      <4> QED
        BY <4>1, <4>2, <4>3
    <3> QED
      BY <3>1, <3>2, <3>3
  <2> QED
    BY <2>1, <2>2, <2>3
<1> QED
  BY <1>1, RecordAlways, PTL

(* The rasters of a loaded record are those of the simulation at the       *)
(* loaded steps, with the extremes over all of them (loadHDF5,             *)
(* StaticRaster::updateCurrentMinMaxValues).                               *)
THEOREM RastersAreAlwaysHistory == Spec => []RastersAreHistory
<1>1. ASSUME RecordInv PROVE RastersAreHistory
  <2> SUFFICES ASSUME phase = "done", NEW r \in DOMAIN resources
               PROVE  /\ \A k \in LoadedSteps : resources[r][Slot(k)] = sim.raster[r][k]
                      /\ bounds[r].min = Least({sim.raster[r][k] : k \in LoadedSteps})
                      /\ bounds[r].max = Greatest({sim.raster[r][k] : k \in LoadedSteps})
    BY DEF RastersAreHistory
  <2> DEFINE rasters == sim.raster
  <2>1. RastersPart(rasters, resolution, {}, loadingStep, resources, bounds)
    BY <1>1 DEF RecordInv, LoadInv
  <2>2. LoadedSteps = Loadable(resolution)
    BY <1>1, ResolutionType DEF RecordInv
  <2> HIDE DEF rasters
  <2>3. \A k \in LoadedSteps : resources[r][k \div resolution] = rasters[r][k]
    BY <2>1, <2>2 DEF RastersPart
  <2>4. bounds[r] = TrueBounds(rasters[r], resolution)
    BY <2>1 DEF RastersPart, TrueBounds
  <2>5. /\ bounds[r].min = Least({rasters[r][k] : k \in LoadedSteps})
        /\ bounds[r].max = Greatest({rasters[r][k] : k \in LoadedSteps})
    BY <2>2, <2>4 DEF TrueBounds
  <2> QED
    BY <2>3, <2>5 DEF rasters, Slot
<1> QED
  BY <1>1, RecordAlways, PTL

(* getAgentAtPosition finds the agents that exist at a cell, and no other, *)
(* but for the cell (0,0).                                                 *)
THEOREM AgentAlwaysAtPosition == Spec => []AgentAtPosition
<1>1. ASSUME RecordInv PROVE AgentAtPosition
  <2> SUFFICES ASSUME phase = "done", NEW k \in LoadedSteps,
                      NEW x, NEW y, x # 0 \/ y # 0
               PROVE  AtPosition(Slot(k), x, y) =
                          {row.id : row \in {r \in RowsAt(k) : r.value["x"] = x /\ r.value["y"] = y}}
    BY DEF AgentAtPosition
  <2>1. /\ {"x", "y"} \subseteq Attributes /\ {"x", "y"} \subseteq Keys
    BY SetsAssumption DEF Keys
  <2>2. ASSUME NEW id \in DOMAIN agents, agents[id]["x"][Slot(k)] = x, agents[id]["y"][Slot(k)] = y
        PROVE  \E row \in RowsAt(k) : row.value["x"] = x /\ row.value["y"] = y /\ row.id = id
    <3>1. PICK row \in RowsAt(k) : row.id = id
      BY <1>1, <2>1, <2>2, DoneStep
    <3> QED
      BY <1>1, <2>1, <2>2, <3>1, DoneStep
  <2>3. ASSUME NEW row \in RowsAt(k), row.value["x"] = x, row.value["y"] = y
        PROVE  row.id \in AtPosition(Slot(k), x, y)
    BY <1>1, <2>1, <2>3, DoneStep DEF AtPosition
  <2> QED
    BY <2>2, <2>3 DEF AtPosition
<1> QED
  BY <1>1, RecordAlways, PTL

----------------------------------------------------------------------------
(* The factorial: there is a function that satisfies its definition up to  *)
(* any number, and only one, so it is what its definition says.            *)

FactorialOn(n, f) == \A i \in 0 .. n : f[i] = IF i = 0 THEN 1 ELSE i * f[i - 1]

LEMMA FactorialExists == ASSUME NEW n \in Nat PROVE \E f : FactorialOn(n, f)
<1> DEFINE S == {m \in Nat : ~\E f : FactorialOn(m, f)}
<1> SUFFICES ASSUME S # {} PROVE FALSE
  OBVIOUS
<1>1. PICK m \in S : \A j \in S : m =< j
  BY LeastElement
<1>2. CASE m = 0
  <2>1. FactorialOn(0, [i \in {0} |-> 1])
    BY DEF FactorialOn
  <2> QED
    BY <1>1, <1>2, <2>1
<1>3. CASE m # 0
  <2>1. m \in Nat /\ m - 1 \in Nat /\ m - 1 \notin S
    BY <1>1, <1>3
  <2>2. PICK f : FactorialOn(m - 1, f)
    BY <2>1
  <2> DEFINE g == [i \in 0 .. m |-> IF i = m THEN m * f[m - 1] ELSE f[i]]
  <2>3. ASSUME NEW i \in 0 .. m PROVE g[i] = IF i = 0 THEN 1 ELSE i * g[i - 1]
    <3>1. CASE i = m
      BY <1>3, <2>1, <3>1
    <3>2. CASE i # m
      <4>1. i \in 0 .. m - 1 /\ (i # 0 => i - 1 \in 0 .. m /\ i - 1 # m)
        BY <2>1, <3>2
      <4>2. f[i] = IF i = 0 THEN 1 ELSE i * f[i - 1]
        BY <2>2, <4>1 DEF FactorialOn
      <4>3. g[i] = f[i] /\ (i # 0 => g[i - 1] = f[i - 1])
        BY <3>2, <4>1
      <4> QED
        BY <4>2, <4>3
    <3> QED
      BY <3>1, <3>2
  <2> HIDE DEF g
  <2>4. FactorialOn(m, g)
    BY <2>3 DEF FactorialOn
  <2> QED
    BY <1>1, <2>4
<1> QED
  BY <1>2, <1>3

LEMMA FactorialUnique ==
    ASSUME NEW n \in Nat, NEW m \in Nat, NEW f, NEW g, FactorialOn(n, f), FactorialOn(m, g),
           NEW i \in Nat, i =< n, i =< m
    PROVE  f[i] = g[i]
<1> DEFINE S == {j \in Nat : j =< n /\ j =< m /\ f[j] # g[j]}
<1> SUFFICES ASSUME S # {} PROVE FALSE
  OBVIOUS
<1>1. PICK j \in S : \A l \in S : j =< l
  BY LeastElement
<1>2. j \in Nat /\ j =< n /\ j =< m /\ f[j] # g[j]
  BY <1>1
<1>3. /\ f[j] = IF j = 0 THEN 1 ELSE j * f[j - 1]
      /\ g[j] = IF j = 0 THEN 1 ELSE j * g[j - 1]
  BY <1>2 DEF FactorialOn
<1>4. CASE j = 0
  BY <1>2, <1>3, <1>4
<1>5. CASE j # 0
  <2>1. j - 1 \in Nat /\ j - 1 \notin S /\ j - 1 =< n /\ j - 1 =< m
    BY <1>1, <1>2, <1>5
  <2>2. f[j - 1] = g[j - 1]
    BY <2>1
  <2> QED
    BY <1>2, <1>3, <1>5, <2>2
<1> QED
  BY <1>4, <1>5

LEMMA FactorialIs == \A n \in Nat : Factorial[n] = IF n = 0 THEN 1 ELSE n * Factorial[n - 1]
<1> DEFINE part(n) == CHOOSE f : FactorialOn(n, f)
           g == [n \in Nat |-> part(n)[n]]
<1>1. \A n \in Nat : FactorialOn(n, part(n))
  BY FactorialExists
<1> HIDE DEF part
<1>2. ASSUME NEW n \in Nat PROVE g[n] = IF n = 0 THEN 1 ELSE n * g[n - 1]
  <2>1. n \in 0 .. n /\ FactorialOn(n, part(n))
    BY <1>1
  <2>2. part(n)[n] = IF n = 0 THEN 1 ELSE n * part(n)[n - 1]
    BY <2>1 DEF FactorialOn
  <2>3. CASE n = 0
    BY <2>2, <2>3
  <2>4. CASE n # 0
    <3>1. n - 1 \in Nat /\ n - 1 =< n
      BY <2>4
    <3>2. part(n)[n - 1] = part(n - 1)[n - 1]
      BY <1>1, <3>1, FactorialUnique
    <3> QED
      BY <2>2, <2>4, <3>1, <3>2
  <2> QED
    BY <2>3, <2>4
<1>3. g = [n \in Nat |-> IF n = 0 THEN 1 ELSE n * g[n - 1]]
  <2>1. g = [n \in Nat |-> g[n]]
    OBVIOUS
  <2> HIDE DEF g
  <2> QED
    BY <1>2, <2>1
<1> HIDE DEF g
<1>4. Factorial = [n \in Nat |-> IF n = 0 THEN 1 ELSE n * Factorial[n - 1]]
  BY <1>3 DEF Factorial
<1> QED
  BY <1>4

(* This is why every Increase is at least 1: the factorial of the number of *)
(* types is not less than the number of types of any file.                 *)
LEMMA FactorialGrows == \A n \in Nat : Factorial[n] \in Nat \ {0} /\ Factorial[n] >= n
<1> DEFINE S == {n \in Nat : ~(Factorial[n] \in Nat \ {0} /\ Factorial[n] >= n)}
<1> SUFFICES ASSUME S # {} PROVE FALSE
  OBVIOUS
<1>1. PICK n \in S : \A j \in S : n =< j
  BY LeastElement
<1>2. n \in Nat /\ Factorial[n] = IF n = 0 THEN 1 ELSE n * Factorial[n - 1]
  BY <1>1, FactorialIs
<1>3. CASE n = 0
  BY <1>1, <1>2, <1>3
<1>4. CASE n # 0
  <2> DEFINE x == Factorial[n - 1]
  <2>1. x \in Nat \ {0}
    <3>1. n - 1 \in Nat /\ n - 1 \notin S
      BY <1>1, <1>2, <1>4
    <3> QED
      BY <3>1
  <2>2. Factorial[n] = n * x
    BY <1>2, <1>4
  <2> HIDE DEF x
  <2>3. n * x >= n * 1
    BY <1>2, <1>4, <2>1, Z3
  <2>4. n * x \in Nat
    BY <1>2, <2>1
  <2>5. n * x >= n /\ n * x # 0
    BY <1>2, <1>4, <2>3, <2>4
  <2> QED
    BY <1>1, <1>2, <2>2, <2>4, <2>5
<1> QED
  BY <1>3, <1>4

----------------------------------------------------------------------------
(* The percentage, by value *)

StepsOf(res) == 1 + NumSteps \div res

\* Parts, what a file adds, and what a step adds (RasterIncrease, Increase)
PartsOf(res) == NumTasks * StepsOf(res) * Factorial[Cardinality(Types)] * Cardinality(Rasters)

ShareOf(res) == 50 * (StepsOf(res) * Factorial[Cardinality(Types)] * Cardinality(Rasters))

RasterPart(res) == (30 * PartsOf(res)) \div (Cardinality(Rasters) * StepsOf(res))

AgentPart(res, known) == (50 * PartsOf(res)) \div (NumTasks * Cardinality(known) * StepsOf(res))

\* The steps to load if the rasters or types of S are left, the first from
\* step k on
StepsLeft(res, S, k) == Cardinality(S) * StepsOf(res) - k \div res

\* What is left to load never adds up to more than the share that is left.
ProgressPart(res, where, i, T, known, left, k, p) ==
    /\ p \in Nat /\ T \subseteq known
    /\ where \in {"no load", "failed", "rasters", "agents", "done"}
    /\ left = {} /\ T = {} => k = 0
    /\ where \in {"no load", "failed"} => p = 0
    /\ where = "rasters" => p + StepsLeft(res, left, k) * RasterPart(res) =< 50 * PartsOf(res)
    /\ where = "agents" /\ T = {} => p =< 50 * PartsOf(res) + i * ShareOf(res)
    /\ where = "agents" /\ T # {} =>
           p + StepsLeft(res, T, k) * AgentPart(res, known) =< 50 * PartsOf(res) + i * ShareOf(res)
    /\ where = "done" => p = 100 * PartsOf(res)

ProgressInv == ProgressPart(resolution, phase, task, agentTypes, types, rastersLeft, loadingStep, percentage)

----------------------------------------------------------------------------
(* Arithmetic of the shares *)

LEMMA Counts ==
    ASSUME NEW res \in Nat \ {0}
    PROVE  /\ NumTasks \in Nat \ {0} /\ StepsOf(res) \in Nat \ {0}
           /\ Factorial[Cardinality(Types)] \in Nat \ {0} /\ Cardinality(Rasters) \in Nat \ {0}
           /\ Cardinality(Types) \in Nat /\ Factorial[Cardinality(Types)] >= Cardinality(Types)
<1>1. NumTasks \in Nat \ {0} /\ NumSteps \div res \in Nat
  BY NumbersAssumption, Division
<1>2. Cardinality(Types) \in Nat /\ Cardinality(Rasters) \in Nat \ {0}
  BY SetsAssumption, FS_CardinalityType, FS_EmptySet
<1> QED
  BY <1>1, <1>2, FactorialGrows DEF StepsOf

LEMMA Products ==
    ASSUME NEW t \in Nat \ {0}, NEW n \in Nat \ {0}, NEW f \in Nat \ {0}, NEW r \in Nat \ {0}
    PROVE  /\ t * n * f * r \in Nat \ {0} /\ n * f * r \in Nat \ {0}
           /\ t * n * f * r = t * (n * f * r)
<1>1. n * f \in Nat \ {0}
  BY Z3
<1>2. n * f * r \in Nat \ {0}
  <2> DEFINE x == n * f
  <2> HIDE DEF x
  <2>1. x * r \in Nat \ {0}
    BY <1>1, Z3 DEF x
  <2> QED
    BY <2>1 DEF x
<1>3. t * n * f * r = t * (n * f * r)
  BY Z3
<1>4. t * (n * f * r) \in Nat \ {0}
  <2> DEFINE y == n * f * r
  <2> HIDE DEF y
  <2>1. t * y \in Nat \ {0}
    BY <1>2, Z3 DEF y
  <2> QED
    BY <2>1 DEF y
<1> QED
  BY <1>2, <1>3, <1>4

LEMMA Shares ==
    ASSUME NEW res \in Nat \ {0}
    PROVE  /\ PartsOf(res) \in Nat \ {0} /\ ShareOf(res) \in Nat \ {0}
           /\ NumTasks * ShareOf(res) = 50 * PartsOf(res)
<1> DEFINE t == NumTasks
           y == StepsOf(res) * Factorial[Cardinality(Types)] * Cardinality(Rasters)
<1>1. y \in Nat \ {0} /\ t \in Nat \ {0} /\ PartsOf(res) = t * y /\ PartsOf(res) \in Nat \ {0}
  BY Counts, Products DEF PartsOf
<1>2. ShareOf(res) = 50 * y
  BY DEF ShareOf
<1> HIDE DEF t, y
<1>3. t * (50 * y) = 50 * (t * y)
  BY <1>1, Z3
<1> QED
  BY <1>1, <1>2, <1>3 DEF t

LEMMA QuotientBound ==
    ASSUME NEW x \in Nat, NEW d \in Nat \ {0}
    PROVE  /\ x \div d \in Nat /\ (x \div d) * d =< x
           /\ d =< x => x \div d >= 1
<1> DEFINE q == x \div d
           m == x % d
<1>1. q \in Nat /\ m \in 0 .. d - 1 /\ x = d * q + m
  BY Division
<1> HIDE DEF q, m
<1>2. d * q \in Nat /\ q * d = d * q
  BY <1>1, Z3
<1>3. q = 0 => d * q = 0
  BY <1>1
<1>4. q * d =< x
  BY <1>1, <1>2
<1>5. d =< x => q >= 1
  BY <1>1, <1>3
<1> QED
  BY <1>1, <1>4, <1>5 DEF q

(* The steps of all rasters together add at most 30 percent.               *)
LEMMA RasterShare ==
    ASSUME NEW res \in Nat \ {0}
    PROVE  /\ RasterPart(res) \in Nat
           /\ Cardinality(Rasters) * StepsOf(res) * RasterPart(res) =< 30 * PartsOf(res)
<1> DEFINE x == 30 * PartsOf(res)
           d == Cardinality(Rasters) * StepsOf(res)
<1>1. x \in Nat
  BY Shares
<1>2. d \in Nat \ {0}
  BY Counts, Z3
<1>3. RasterPart(res) = x \div d
  BY DEF RasterPart
<1> HIDE DEF x, d
<1>4. x \div d \in Nat /\ (x \div d) * d =< x
  BY <1>1, <1>2, QuotientBound
<1> DEFINE q == x \div d
<1> HIDE DEF q
<1>5. q \in Nat /\ q * d =< x
  BY <1>4 DEF q
<1>6. q * d = d * q
  BY <1>2, <1>5, Z3
<1> QED
  BY <1>3, <1>4, <1>5, <1>6 DEF q, x, d

(* The steps of the types of a file together add at most the share of a    *)
(* file, and each of them something.                                       *)
(* The steps of a file add something each, and no more than the share of   *)
(* the file together, whatever the number of types.                        *)
LEMMA AgentShare ==
    ASSUME NEW res \in Nat \ {0}, NEW known \in SUBSET Types, known # {}
    PROVE  /\ AgentPart(res, known) \in Nat \ {0}
           /\ Cardinality(known) * StepsOf(res) * AgentPart(res, known) =< ShareOf(res)
<1> DEFINE t == NumTasks
           n == StepsOf(res)
           f == Factorial[Cardinality(Types)]
           r == Cardinality(Rasters)
           c == Cardinality(known)
           x == 50 * PartsOf(res)
           d == t * c * n
           q == x \div d
<1>1. c \in Nat \ {0} /\ c =< Cardinality(Types)
  BY SetsAssumption, FS_Subset, FS_CardinalityType, FS_EmptySet
<1>2. t \in Nat \ {0} /\ n \in Nat \ {0} /\ f \in Nat \ {0} /\ r \in Nat \ {0} /\ c =< f
  BY <1>1, Counts
<1>3. x \in Nat /\ x = t * ShareOf(res) /\ ShareOf(res) = 50 * (n * f * r) /\ ShareOf(res) \in Nat
  BY Shares DEF ShareOf
<1>4. AgentPart(res, known) = q
  BY DEF AgentPart
<1> HIDE DEF t, n, f, r, c, x
<1>5. c * n \in Nat \ {0} /\ t * c * n = t * (c * n)
  BY <1>1, <1>2, Z3
<1>6. d \in Nat \ {0}
  <2> DEFINE e == c * n
  <2> HIDE DEF e
  <2>1. t * e \in Nat \ {0}
    BY <1>2, <1>5, Z3 DEF e
  <2> QED
    BY <1>5, <2>1 DEF e
<1>7. q \in Nat /\ q * d =< x /\ (d =< x => q >= 1)
  <2> HIDE DEF d
  <2> QED
    BY <1>3, <1>6, QuotientBound
<1>8. c * n =< ShareOf(res)
  <2>1. c * n =< n * f
    BY <1>1, <1>2, Z3
  <2> DEFINE z == n * f
  <2>2. z \in Nat
    BY <1>2
  <2>3. z =< z * r /\ z * r \in Nat
    <3> HIDE DEF z
    <3> QED
      BY <1>2, <2>2, Z3
  <2>4. ShareOf(res) = 50 * (z * r)
    BY <1>3
  <2> DEFINE u == z * r
             e == c * n
  <2>5. e \in Nat /\ e =< z /\ z \in Nat /\ z =< u /\ u \in Nat /\ ShareOf(res) = 50 * u
    BY <1>5, <2>1, <2>2, <2>3, <2>4
  <2> HIDE DEF u, z, e
  <2>6. e =< ShareOf(res)
    BY <2>5
  <2> QED
    BY <2>6 DEF e
<1> DEFINE e == c * n
           s == ShareOf(res)
<1> HIDE DEF q
<1>9. e \in Nat \ {0} /\ s \in Nat /\ d = t * e /\ x = t * s /\ e =< s
  BY <1>3, <1>5, <1>8
<1> HIDE DEF e, s, d
<1>10. d =< x
  BY <1>2, <1>9, Z3
<1>11. e * q =< s
  <2> SUFFICES ASSUME ~(e * q =< s) PROVE FALSE
    OBVIOUS
  <2> DEFINE v == e * q
  <2>1. v \in Nat /\ v >= s + 1
    BY <1>7, <1>9
  <2>2. q * d = t * v
    BY <1>2, <1>7, <1>9, Z3 DEF v
  <2> HIDE DEF v
  <2>3. t * v >= t * (s + 1) /\ t * (s + 1) = t * s + t
    BY <1>2, <1>9, <2>1, Z3
  <2>4. t * v \in Nat /\ t * s \in Nat
    BY <1>2, <1>9, <2>1
  <2> DEFINE a == t * v
             b == t * s
  <2>5. a =< b /\ a >= b + t /\ a \in Nat /\ b \in Nat
    BY <1>2, <1>7, <1>9, <2>2, <2>3, <2>4
  <2> HIDE DEF a, b
  <2> QED
    BY <1>2, <2>5
<1> QED
  BY <1>4, <1>7, <1>10, <1>11 DEF e, s, c, n

(* One step less is left when a step is loaded.                            *)
(* Loading a step leaves one step less.                                    *)
LEMMA OneStepLess ==
    ASSUME NEW res \in Nat \ {0}, NEW S, IsFiniteSet(S), NEW x \in S, NEW k \in Loadable(res)
    PROVE  /\ StepsLeft(res, S, k) \in Nat \ {0}
           /\ k + res =< NumSteps => StepsLeft(res, S, k + res) = StepsLeft(res, S, k) - 1
           /\ ~(k + res =< NumSteps) => StepsLeft(res, S \ {x}, 0) = StepsLeft(res, S, k) - 1
<1> DEFINE q == k \div res
           M == NumSteps \div res
           c == Cardinality(S)
           n == StepsOf(res)
<1>1. /\ q \in 0 .. M /\ k = res * q /\ q \in Nat /\ M \in Nat /\ n = M + 1
      /\ NumSteps \in Nat /\ NumSteps % res \in 0 .. res - 1 /\ NumSteps = res * M + (NumSteps % res)
  <2>1. NumSteps \in Nat
    BY NumbersAssumption
  <2>2. M \in Nat /\ NumSteps % res \in 0 .. res - 1 /\ NumSteps = res * M + (NumSteps % res)
    BY <2>1, Division
  <2> HIDE DEF M
  <2> QED
    BY <2>1, <2>2, Entries, LoadableStep DEF StepsOf, M
<1>2. c \in Nat \ {0} /\ Cardinality(S \ {x}) = c - 1
  BY FS_CardinalityType, FS_RemoveElement, FS_EmptySet
<1>3. 0 \div res = 0
  <2>1. (res * 0 + 0) \div res = 0
    BY QuotientUnique
  <2> QED
    BY <2>1
<1> HIDE DEF q, M, c, n
<1>4. k + res =< NumSteps => (k + res) \div res = q + 1
  <2>1. k + res = res * (q + 1) + 0
    BY <1>1
  <2>2. (res * (q + 1) + 0) \div res = q + 1
    BY <1>1, QuotientUnique
  <2> QED
    BY <2>1, <2>2
<1>5. ~(k + res =< NumSteps) => q = M
  <2> SUFFICES ASSUME q + 1 =< M PROVE k + res =< NumSteps
    BY <1>1
  <2>1. res * (q + 1) =< res * M
    BY <1>1, Z3
  <2> DEFINE a == res * (q + 1)
             b == res * M
             m == NumSteps % res
             d == res * q
  <2>2. a = k + res /\ a =< b /\ b \in Nat /\ m \in Nat /\ NumSteps = b + m /\ k \in Nat
    <3>1. res * q \in Nat /\ res * M \in Nat /\ res * (q + 1) = res * q + res
      BY <1>1
    <3> QED
      BY <1>1, <2>1, <3>1
  <2> HIDE DEF a, b, m
  <2> QED
    BY <2>2
<1>6. c * n \in Nat /\ (c - 1) * n = c * n - n /\ c * n >= n
  <2>1. n \in Nat
    BY <1>1
  <2> QED
    BY <1>2, <2>1, Z3
<1> DEFINE w == c * n
<1>7. w \in Nat /\ (c - 1) * n = w - n /\ w >= n
  BY <1>6
<1>8. /\ StepsLeft(res, S, k) = w - q
      /\ StepsLeft(res, S, k + res) = w - (k + res) \div res
      /\ StepsLeft(res, S \ {x}, 0) = (w - n) - 0
  BY <1>2, <1>3, <1>7 DEF StepsLeft, q, c, n
<1> HIDE DEF w
<1> QED
  BY <1>1, <1>4, <1>5, <1>7, <1>8

LEMMA StepLoaded ==
    ASSUME NEW w \in Nat \ {0}, NEW v \in Nat, NEW p \in Nat, NEW b \in Nat, p + w * v =< b
    PROVE  /\ (p + v) + (w - 1) * v =< b /\ (w - 1) * v \in Nat
           /\ p =< b /\ (v # 0 => p < b)
<1>1. (w - 1) * v = w * v - v /\ w * v \in Nat /\ (w - 1) * v \in Nat
  BY Z3
<1> DEFINE x == w * v
           y == (w - 1) * v
<1>2. y = x - v /\ x \in Nat /\ y \in Nat /\ p + x =< b
  BY <1>1
<1> HIDE DEF x, y
<1>3. (p + v) + y =< b /\ p =< b /\ (v # 0 => p < b)
  BY <1>2
<1> QED
  BY <1>1, <1>3 DEF y

----------------------------------------------------------------------------
(* Every action keeps ProgressInv. *)

LEMMA SharesAre ==
    ASSUME LoadInv
    PROVE  /\ Parts = PartsOf(resolution) /\ RasterIncrease = RasterPart(resolution)
           /\ \A known : Increase(known) = AgentPart(resolution, known)
BY DEF Parts, PartsOf, StepsOf, NumStepsToLoad, RasterIncrease, RasterPart, Increase, AgentPart

LEMMA NoStep == ASSUME NEW res \in Nat \ {0}, NEW S PROVE StepsLeft(res, S, 0) = Cardinality(S) * StepsOf(res) - 0
<1>1. (res * 0 + 0) \div res = 0
  BY QuotientUnique
<1>2. 0 \div res = 0
  BY <1>1
<1> QED
  BY <1>2 DEF StepsLeft

LEMMA InitProgress == Init => ProgressInv
<1> SUFFICES ASSUME Init PROVE ProgressInv
  OBVIOUS
<1>1. phase = "no load" /\ percentage = 0 /\ agentTypes = {} /\ loadingStep = 0
  BY DEF Init
<1> QED
  BY <1>1 DEF ProgressInv, ProgressPart

LEMMA StartProgress ==
    ASSUME LoadInv, ProgressInv, NEW loadRasters \in BOOLEAN, loadHDF5(loadRasters)
    PROVE  ProgressInv'
<1> DEFINE res == resolution
           P == PartsOf(res)
<1>1. /\ resolution' = res /\ types' = {} /\ task' = 0 /\ agentTypes' = {} /\ loadingStep' = 0
      /\ \/ phase' = "failed" /\ percentage' = 0 /\ rastersLeft' = {}
         \/ phase' = "rasters" /\ percentage' = 20 * P /\ rastersLeft' = Rasters
         \/ phase' = "agents" /\ percentage' = 50 * P /\ rastersLeft' = {}
  BY SharesAre DEF loadHDF5
<1>2. res \in Nat \ {0}
  BY ResolutionType
<1> HIDE DEF res
<1>3. P \in Nat \ {0} /\ ShareOf(res) \in Nat
  BY <1>2, Shares
<1>4. 0 * ShareOf(res) = 0
  BY <1>3
<1>5. RasterPart(res) \in Nat /\ Cardinality(Rasters) * StepsOf(res) * RasterPart(res) =< 30 * P
  BY <1>2, RasterShare
<1>6. 20 * P + StepsLeft(res, Rasters, 0) * RasterPart(res) =< 50 * P
  <2> DEFINE w == Cardinality(Rasters) * StepsOf(res)
             v == RasterPart(res)
  <2>1. w \in Nat
    BY <1>2, Counts
  <2>2. StepsLeft(res, Rasters, 0) = w
    <3>1. StepsLeft(res, Rasters, 0) = w - 0
      BY <1>2, NoStep
    <3> HIDE DEF w
    <3> QED
      BY <2>1, <3>1
  <2>3. w * v =< 30 * P
    BY <1>5
  <2> DEFINE x == w * v
  <2>4. x \in Nat /\ x =< 30 * P
    BY <1>5, <2>1, <2>3
  <2>5. StepsLeft(res, Rasters, 0) * RasterPart(res) = x
    BY <2>2
  <2> HIDE DEF x, P
  <2> QED
    BY <1>3, <2>4, <2>5
<1> HIDE DEF P
<1>7. 20 * P \in Nat /\ 50 * P \in Nat /\ 50 * P =< 50 * P + 0
  BY <1>3
<1>8. ProgressPart(res, phase', 0, {}, {}, rastersLeft', 0, percentage')
  <2>1. CASE phase' = "failed" /\ percentage' = 0 /\ rastersLeft' = {}
    BY <2>1 DEF ProgressPart
  <2>2. CASE phase' = "rasters" /\ percentage' = 20 * P /\ rastersLeft' = Rasters
    BY <1>6, <1>7, <2>2 DEF ProgressPart, P
  <2>3. CASE phase' = "agents" /\ percentage' = 50 * P /\ rastersLeft' = {}
    BY <1>4, <1>7, <2>3 DEF ProgressPart, P
  <2> QED
    BY <1>1, <2>1, <2>2, <2>3 DEF P
<1> QED
  BY <1>1, <1>8 DEF ProgressInv

LEMMA RasterProgress ==
    ASSUME RecordInv, ProgressInv, LoadRaster
    PROVE  ProgressInv'
<1> DEFINE res == resolution
           left == rastersLeft
           k == loadingStep
           p == percentage
           v == RasterPart(res)
           b == 50 * PartsOf(res)
           x == Chosen(left)
<1>1. /\ phase = "rasters" /\ task = 0 /\ agentTypes = {} /\ left # {} /\ k \in Loadable(res)
      /\ res \in Nat \ {0} /\ left \subseteq Rasters /\ LoadInv
      /\ UNCHANGED <<resolution, task, agentTypes, types>>
  <2>1. phase = "rasters" /\ UNCHANGED <<resolution, task, agentTypes, types>>
    BY DEF LoadRaster, loadVars, agentVars
  <2>2. LoadInv /\ left \subseteq Rasters
    BY DEF RecordInv, RastersPart
  <2>3. task = 0 /\ agentTypes = {} /\ left # {} /\ k \in Loadable(res)
    BY <2>1, <2>2 DEF LoadInv
  <2> QED
    BY <2>1, <2>2, <2>3, ResolutionType
<1>2. /\ IF k + res =< NumSteps THEN loadingStep' = k + res /\ rastersLeft' = left
         ELSE loadingStep' = 0 /\ rastersLeft' = left \ {x}
      /\ IF rastersLeft' = {} THEN phase' = "agents" /\ percentage' = b
         ELSE phase' = "rasters" /\ percentage' = p + v
  <2>1. Parts = PartsOf(res) /\ RasterIncrease = v
    BY <1>1, SharesAre
  <2> QED
    BY <1>1, <2>1 DEF LoadRaster, MoreSteps, Chosen
<1>3. p \in Nat /\ p + StepsLeft(res, left, k) * v =< b /\ types = types
  BY <1>1 DEF ProgressInv, ProgressPart
<1>4. v \in Nat /\ b \in Nat /\ ShareOf(res) \in Nat
  BY <1>1, RasterShare, Shares
<1>5. x \in left /\ IsFiniteSet(left)
  BY <1>1, SetsAssumption, FS_Subset DEF Chosen
<1> DEFINE w == StepsLeft(res, left, k)
<1> HIDE DEF res, left, k, p, v, b, x
<1>6. /\ w \in Nat \ {0}
      /\ k + res =< NumSteps => StepsLeft(res, left, k + res) = w - 1
      /\ ~(k + res =< NumSteps) => StepsLeft(res, left \ {x}, 0) = w - 1
  BY <1>1, <1>5, OneStepLess
<1>7. StepsLeft(res, rastersLeft', loadingStep') = w - 1
  BY <1>2, <1>6
<1> HIDE DEF w
<1>8. (p + v) + (w - 1) * v =< b
  <2>1. p + w * v =< b
    BY <1>3 DEF w
  <2> QED
    BY <1>3, <1>4, <1>6, <2>1, StepLoaded
<1>9. rastersLeft' = {} => loadingStep' = 0
  BY <1>1, <1>2 DEF left
<1>10. ProgressPart(res, phase', 0, {}, types, rastersLeft', loadingStep', percentage')
  <2>1. CASE rastersLeft' = {}
    <3>1. phase' = "agents" /\ percentage' = b /\ loadingStep' = 0
      BY <1>2, <1>9, <2>1
    <3>2. b =< b + 0 * ShareOf(res)
      BY <1>4
    <3> QED
      BY <1>4, <2>1, <3>1, <3>2 DEF ProgressPart, b
  <2>2. CASE rastersLeft' # {}
    <3>1. phase' = "rasters" /\ percentage' = p + v /\ p + v \in Nat
      BY <1>2, <1>3, <1>4, <2>2
    <3>2. percentage' + StepsLeft(res, rastersLeft', loadingStep') * v =< b
      BY <1>7, <1>8, <3>1
    <3> QED
      BY <2>2, <3>1, <3>2 DEF ProgressPart, v, b
  <2> QED
    BY <2>1, <2>2
<1> QED
  BY <1>1, <1>10 DEF ProgressInv, res

LEMMA FileProgress ==
    ASSUME RecordInv, ProgressInv, registerAgentTypes
    PROVE  ProgressInv'
<1> DEFINE res == resolution
           i == task
           T == FileTypes(i + 1)
           known == types \union T
           p == percentage
           b == 50 * PartsOf(res)
           s == ShareOf(res)
<1>1. /\ phase = "agents" /\ agentTypes = {} /\ LoadInv
      /\ task' = i + 1 /\ agentTypes' = T /\ types' = known /\ loadingStep' = 0
      /\ UNCHANGED <<resolution, phase, rastersLeft, percentage>>
  BY DEF registerAgentTypes, RecordInv, loadVars, rasterVars
<1>2. /\ res \in Nat \ {0} /\ i \in Nat /\ rastersLeft = {}
      /\ known \in SUBSET Types /\ T \in SUBSET known
  <2>1. \A j : FileTypes(j) \subseteq Types
    BY DEF FileTypes
  <2>2. types = UNION {FileTypes(j) : j \in 1 .. task} /\ i \in Nat /\ rastersLeft = {}
    BY <1>1, NumbersAssumption DEF LoadInv
  <2> QED
    BY <1>1, <2>1, <2>2, ResolutionType
<1>3. p \in Nat /\ p =< b + i * s
  BY <1>1 DEF ProgressInv, ProgressPart
<1>4. b \in Nat /\ s \in Nat
  BY <1>2, Shares
<1> HIDE DEF res, i, T, known, p, b, s
<1>5. b + i * s \in Nat /\ b + (i + 1) * s = (b + i * s) + s /\ p =< b + (i + 1) * s
  <2>1. i * s \in Nat /\ (i + 1) * s = i * s + s
    BY <1>2, <1>4, Z3
  <2> DEFINE x == i * s
             y == (i + 1) * s
  <2>2. x \in Nat /\ y = x + s /\ p =< b + x
    BY <1>3, <2>1
  <2> HIDE DEF x, y
  <2>3. b + x \in Nat /\ b + y = (b + x) + s /\ p =< b + y
    BY <1>3, <1>4, <2>2
  <2> QED
    BY <2>3 DEF x, y
<1>6. ASSUME T # {}
      PROVE  p + StepsLeft(res, T, 0) * AgentPart(res, known) =< b + (i + 1) * s
  <2> DEFINE n == StepsOf(res)
             q == AgentPart(res, known)
             c == Cardinality(T)
             d == Cardinality(known)
  <2>1. n \in Nat \ {0} /\ q \in Nat \ {0} /\ d * n * q =< s
    BY <1>2, <1>6, Counts, AgentShare DEF s
  <2>2. c \in Nat /\ d \in Nat /\ c =< d
    BY <1>2, SetsAssumption, FS_Subset, FS_CardinalityType
  <2>3. StepsLeft(res, T, 0) = c * n
    <3>1. StepsLeft(res, T, 0) = c * n - 0
      BY <1>2, NoStep
    <3>2. c * n \in Nat
      BY <2>1, <2>2
    <3> DEFINE x == c * n
    <3> HIDE DEF x
    <3>3. x - 0 = x
      BY <3>2 DEF x
    <3> QED
      BY <3>1, <3>3 DEF x
  <2> HIDE DEF n, q, c, d
  <2>4. c * n * q =< d * n * q
    <3>1. c * n =< d * n /\ c * n \in Nat /\ d * n \in Nat
      BY <2>1, <2>2, Z3
    <3> DEFINE x == c * n
               y == d * n
    <3> HIDE DEF x, y
    <3>2. x * q =< y * q
      BY <2>1, <3>1, Z3 DEF x, y
    <3> QED
      BY <3>2 DEF x, y
  <2> DEFINE x == c * n * q
             y == d * n * q
  <2>5. x \in Nat /\ y \in Nat /\ x =< y /\ y =< s
    BY <2>1, <2>2, <2>4
  <2>6. StepsLeft(res, T, 0) * q = x
    BY <2>3
  <2> DEFINE u == b + i * s
             z == b + (i + 1) * s
  <2>7. u \in Nat /\ z = u + s /\ p =< u
    BY <1>3, <1>5
  <2> HIDE DEF x, y, u, z
  <2>8. p + x =< z
    BY <1>3, <1>4, <2>5, <2>7
  <2> QED
    BY <2>6, <2>8 DEF q, z
<1>7. ProgressPart(res, "agents", i + 1, T, known, {}, 0, p)
  BY <1>2, <1>3, <1>5, <1>6 DEF ProgressPart, b, s
<1> QED
  BY <1>1, <1>2, <1>7 DEF ProgressInv, res, p

LEMMA AgentProgress ==
    ASSUME RecordInv, ProgressInv, LoadAgents
    PROVE  ProgressInv'
<1> DEFINE res == resolution
           T == agentTypes
           k == loadingStep
           p == percentage
           v == AgentPart(res, types)
           b == 50 * PartsOf(res) + task * ShareOf(res)
           x == Chosen(T)
<1>1. /\ phase = "agents" /\ T # {} /\ k \in Loadable(res) /\ LoadInv
      /\ res \in Nat \ {0} /\ T \in SUBSET types /\ types \in SUBSET Types /\ rastersLeft = {} /\ task \in Nat
      /\ UNCHANGED <<resolution, phase, task, types, rastersLeft>>
  <2>1. phase = "agents" /\ T # {} /\ LoadInv /\ UNCHANGED <<resolution, phase, task, types, rastersLeft>>
    BY DEF LoadAgents, RecordInv, loadVars, rasterVars
  <2>2. \A j : FileTypes(j) \subseteq Types
    BY DEF FileTypes
  <2>3. types = UNION {FileTypes(j) : j \in 1 .. task} /\ task \in Nat /\ rastersLeft = {} /\ k \in Loadable(res)
    BY <2>1, NumbersAssumption DEF LoadInv
  <2>4. T \in SUBSET types
    BY DEF ProgressInv, ProgressPart
  <2> QED
    BY <2>1, <2>2, <2>3, <2>4, ResolutionType
<1>2. /\ IF k + res =< NumSteps THEN loadingStep' = k + res /\ agentTypes' = T
         ELSE loadingStep' = 0 /\ agentTypes' = T \ {x}
      /\ percentage' = p + v
  <2>1. Increase(types) = v
    BY <1>1, SharesAre
  <2> QED
    BY <2>1 DEF LoadAgents, MoreSteps, Chosen
<1>3. p \in Nat /\ p + StepsLeft(res, T, k) * v =< b
  BY <1>1 DEF ProgressInv, ProgressPart
<1>4. v \in Nat /\ b \in Nat
  <2>1. v \in Nat
    BY <1>1, AgentShare
  <2>2. PartsOf(res) \in Nat /\ ShareOf(res) \in Nat
    BY <1>1, Shares
  <2> QED
    BY <1>1, <2>1, <2>2
<1>5. x \in T /\ IsFiniteSet(T)
  BY <1>1, SetsAssumption, FS_Subset DEF Chosen
<1> DEFINE w == StepsLeft(res, T, k)
<1> HIDE DEF res, T, k, p, v, b, x
<1>6. /\ w \in Nat \ {0}
      /\ k + res =< NumSteps => StepsLeft(res, T, k + res) = w - 1
      /\ ~(k + res =< NumSteps) => StepsLeft(res, T \ {x}, 0) = w - 1
  BY <1>1, <1>5, OneStepLess
<1>7. StepsLeft(res, agentTypes', loadingStep') = w - 1
  BY <1>2, <1>6
<1> HIDE DEF w
<1>8. (p + v) + (w - 1) * v =< b /\ (w - 1) * v \in Nat
  <2>1. p + w * v =< b
    BY <1>3 DEF w
  <2> QED
    BY <1>3, <1>4, <1>6, <2>1, StepLoaded
<1>9. /\ agentTypes' = {} => loadingStep' = 0
      /\ agentTypes' \in SUBSET types /\ p + v \in Nat
  BY <1>1, <1>2, <1>3, <1>4 DEF T
<1>10. ProgressPart(res, "agents", task, agentTypes', types, {}, loadingStep', percentage')
  <2>1. p + v =< b
    <3> DEFINE y == (w - 1) * v
    <3>1. y \in Nat /\ (p + v) + y =< b
      BY <1>8
    <3> HIDE DEF y
    <3> QED
      BY <1>3, <1>4, <3>1
  <2>2. (p + v) + StepsLeft(res, agentTypes', loadingStep') * v =< b
    BY <1>7, <1>8
  <2> QED
    BY <1>2, <1>9, <2>1, <2>2 DEF ProgressPart, v, b
<1> QED
  BY <1>1, <1>10 DEF ProgressInv, res

LEMMA ProgressStep == RecordInv /\ ProgressInv /\ [Next]_vars => ProgressInv'
<1> SUFFICES ASSUME RecordInv, ProgressInv, [Next]_vars PROVE ProgressInv'
  OBVIOUS
<1>0. LoadInv
  BY DEF RecordInv
<1>1. CASE Loaded
  <2>1. /\ phase = "agents" /\ agentTypes = {} /\ phase' = "done" /\ percentage' = 100 * PartsOf(resolution)
        /\ UNCHANGED <<resolution, task, agentTypes, types, rastersLeft, loadingStep>>
    BY <1>0, <1>1, SharesAre DEF Loaded, loadVars, rasterVars, agentVars
  <2>2. 100 * PartsOf(resolution) \in Nat
    BY <1>0, ResolutionType, Shares
  <2>3. ProgressPart(resolution, "done", task, agentTypes, types, rastersLeft, loadingStep, 100 * PartsOf(resolution))
    BY <2>1, <2>2 DEF ProgressInv, ProgressPart
  <2> QED
    BY <2>1, <2>3 DEF ProgressInv
<1>2. CASE UNCHANGED vars
  BY <1>2 DEF vars, ProgressInv
<1>3. ASSUME NEW loadRasters \in BOOLEAN, loadHDF5(loadRasters) PROVE ProgressInv'
  BY <1>0, <1>3, StartProgress
<1> QED
  BY <1>1, <1>2, <1>3, RasterProgress, FileProgress, AgentProgress DEF Next, Idle

----------------------------------------------------------------------------
(* The progress bar never passes 100, and it is at 100 only if nothing is  *)
(* left to load (loadHDF5): what the files and steps that are left add is  *)
(* never more than what is left, and never nothing.                        *)
THEOREM PercentageIsAlwaysProgress == Spec => []PercentageIsProgress
<1>1. ASSUME RecordInv, ProgressInv PROVE PercentageIsProgress
  <2>0. /\ task \in Nat /\ task =< NumTasks /\ (phase = "done" => task = NumTasks /\ agentTypes = {})
        /\ loadingStep \in Loadable(resolution)
    <3>1. LoadInv
      BY <1>1 DEF RecordInv
    <3>2. task \in 0 .. NumTasks /\ loadingStep \in Loadable(resolution)
      BY <3>1 DEF LoadInv
    <3>3. phase = "done" => task = NumTasks /\ agentTypes = {}
      BY <3>1 DEF LoadInv
    <3>4. task \in Nat /\ task =< NumTasks
      BY <3>2, NumbersAssumption
    <3> QED
      BY <3>2, <3>3, <3>4
  <2> DEFINE res == resolution
             P == PartsOf(res)
             s == ShareOf(res)
             p == percentage
             i == task
             t == NumTasks
  <2>1. /\ LoadInv /\ res \in Nat \ {0} /\ Parts = P /\ t \in Nat \ {0}
        /\ ProgressPart(res, phase, i, agentTypes, types, rastersLeft, loadingStep, p)
    BY <1>1, ResolutionType, SharesAre, NumbersAssumption DEF RecordInv, ProgressInv
  <2>2. P \in Nat \ {0} /\ s \in Nat \ {0} /\ t * s = 50 * P
    BY <2>1, Shares
  <2>3. i \in Nat /\ i =< t /\ (phase = "done" => i = t /\ agentTypes = {}) /\ loadingStep \in Loadable(res)
    BY <2>0
  <2>4. p \in Nat /\ phase \in {"no load", "failed", "rasters", "agents", "done"} /\ agentTypes \in SUBSET types
    BY <2>1 DEF ProgressPart
  <2> SUFFICES p =< 100 * P /\ (p = 100 * P => i = t /\ agentTypes = {})
    BY <2>1 DEF PercentageIsProgress
  <2>5. i * s \in Nat /\ i * s =< t * s /\ (i < t => i * s < t * s)
    BY <2>1, <2>2, <2>3, Z3
  <2> DEFINE u == i * s
  <2>6. u \in Nat /\ u =< 50 * P /\ (i < t => u < 50 * P)
    BY <2>2, <2>5
  <2> DEFINE half == 50 * P
  <2>12. half \in Nat /\ half > 0 /\ 100 * P = half + half /\ u =< half /\ (i < t => u < half)
    BY <2>2, <2>6
  <2> HIDE DEF res, P, s, p, i, t, u, half
  <2>14. p \in Nat /\ half \in Nat /\ 100 * P = half + half
    BY <2>4, <2>12
  <2>15. ASSUME p < half + half PROVE p =< 100 * P /\ p # 100 * P
    BY <2>14, <2>15
  <2>7. CASE phase \in {"no load", "failed"}
    <3>1. p = 0
      BY <2>1, <2>7 DEF ProgressPart
    <3> QED
      BY <2>12, <3>1
  <2>8. CASE phase = "rasters"
    <3> DEFINE w == StepsLeft(res, rastersLeft, loadingStep)
               v == RasterPart(res)
    <3>1. p + w * v =< half
      BY <2>1, <2>8 DEF ProgressPart, P, half
    <3>2. rastersLeft # {} /\ rastersLeft \subseteq Rasters
      BY <1>1, <2>1, <2>8 DEF LoadInv, RecordInv, RastersPart
    <3>3. w \in Nat \ {0}
      BY <2>1, <2>3, <3>2, SetsAssumption, FS_Subset, OneStepLess
    <3>4. v \in Nat
      BY <2>1, RasterShare
    <3> HIDE DEF w, v
    <3>5. p =< half
      BY <2>4, <2>12, <3>1, <3>3, <3>4, StepLoaded
    <3>6. p < half + half
      <4>1. p \in Nat /\ half \in Nat /\ half > 0
        BY <2>4, <2>12
      <4> QED
        BY <3>5, <4>1
    <3> QED
      BY <2>15, <3>6
  <2>9. CASE phase = "agents" /\ agentTypes = {}
    <3>1. p =< half + u
      BY <2>1, <2>9 DEF ProgressPart, P, u, s, half
    <3>2. u \in Nat
      BY <2>6
    <3> QED
      BY <2>1, <2>3, <2>4, <2>9, <2>12, <3>1, <3>2
  <2>10. CASE phase = "agents" /\ agentTypes # {}
    <3> DEFINE w == StepsLeft(res, agentTypes, loadingStep)
               v == AgentPart(res, types)
    <3>1. p + w * v =< half + u
      BY <2>1, <2>10 DEF ProgressPart, P, u, s, half
    <3>2. types \in SUBSET Types
      BY <2>1 DEF LoadInv, FileTypes
    <3>3. w \in Nat \ {0}
      <4>1. IsFiniteSet(agentTypes)
        BY <2>4, <3>2, SetsAssumption, FS_Subset
      <4> QED
        BY <2>1, <2>3, <2>10, <4>1, OneStepLess
    <3>4. v \in Nat \ {0}
      BY <2>1, <2>4, <2>10, <3>2, AgentShare
    <3> HIDE DEF w, v
    <3>5. p < half + u
      <4>1. half + u \in Nat
        BY <2>6, <2>12
      <4> QED
        BY <2>4, <3>1, <3>3, <3>4, <4>1, StepLoaded
    <3>6. p < half + half
      <4>1. u \in Nat /\ half \in Nat /\ u =< half /\ p \in Nat
        BY <2>4, <2>6, <2>12
      <4> QED
        BY <3>5, <4>1
    <3> QED
      BY <2>15, <3>6
  <2>11. CASE phase = "done"
    <3>1. p = 100 * P
      BY <2>1, <2>11 DEF ProgressPart, P
    <3>2. 100 * P \in Nat
      BY <2>2
    <3> QED
      BY <2>3, <2>11, <3>1, <3>2
  <2> QED
    BY <2>4, <2>7, <2>8, <2>9, <2>10, <2>11
<1>2. RecordInv /\ [Next]_vars => RecordInv'
  BY RecordStep
<1>3. RecordInv /\ ProgressInv /\ [Next]_vars => ProgressInv'
  BY ProgressStep
<1> QED
  BY <1>1, <1>2, <1>3, InitRecord, InitProgress, PTL DEF Spec
=============================================================================
