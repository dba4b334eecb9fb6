-------------------------- MODULE CassandraProofs ---------------------------
(***************************************************************************)
(* Proofs about the replaying of a simulation (module Cassandra), for any  *)
(* recorded simulations, resolutions, and number of loads and clicks.      *)
(***************************************************************************)
EXTENDS Cassandra, TLAPS

----------------------------------------------------------------------------
(* Steps and slots of a record *)

LEMMA Division ==
    ASSUME NEW n \in Nat, NEW r \in Nat \ {0}
    PROVE  /\ n = r * (n \div r) + (n % r)
           /\ n \div r \in Nat
           /\ n % r \in 0 .. r - 1
OBVIOUS

LEMMA QuotientOrder ==
    ASSUME NEW q \in Int, NEW p \in Int, NEW r \in Nat \ {0},
           NEW x \in 0 .. r - 1, NEW y \in 0 .. r - 1, r * q + x =< r * p + y
    PROVE  q =< p
<1>1. CASE q >= p + 1
  <2>1. r * q >= r * (p + 1)
    BY <1>1, Z3
  <2> QED
    BY <2>1
<1> QED
  BY <1>1

(* viewedStepChanged rounds down to a multiple of the resolution.          *)
LEMMA RoundedStep ==
    ASSUME NEW n \in Nat, NEW r \in Nat \ {0}
    PROVE  /\ n - (n % r) \in 0 .. n
           /\ (n - (n % r)) % r = 0
<1> DEFINE q == n \div r
           m == n - (n % r)
<1>7. n = r * q + (n % r) /\ q \in Nat /\ n % r \in 0 .. r - 1
  BY Division
<1>8. m = n - (n % r)
  OBVIOUS
<1> HIDE DEF m, q
<1>9. r * q >= 0 /\ r * q \in Int
  BY <1>7, Z3
<1>1. m = r * q /\ q \in Nat /\ m \in 0 .. n
  BY <1>7, <1>8, <1>9
<1>2. m = r * (m \div r) + (m % r) /\ m % r \in 0 .. r - 1 /\ m \div r \in Nat
  <2>1. m \in Nat
    BY <1>1
  <2> QED
    BY <2>1, Division
<1>3. m \div r =< q
  BY <1>1, <1>2, QuotientOrder
<1>4. q =< m \div r
  BY <1>1, <1>2, QuotientOrder
<1>5. q = m \div r
  BY <1>1, <1>2, <1>3, <1>4
<1>6. m % r = 0
  BY <1>1, <1>2, <1>5
<1> QED
  BY <1>1, <1>6 DEF m

(* A multiple that is not beyond the end is not beyond the last multiple.  *)
LEMMA MultipleBelow ==
    ASSUME NEW v \in Nat, NEW n \in Nat, NEW r \in Nat \ {0}, v % r = 0, v =< n
    PROVE  v =< n - (n % r)
<1>1. v = r * (v \div r) /\ v \div r \in Nat
  BY Division
<1>2. n = r * (n \div r) + (n % r) /\ n % r \in 0 .. r - 1 /\ n \div r \in Nat
  BY Division
<1> DEFINE p == v \div r
           q == n \div r
<1>3. p \in Nat /\ q \in Nat /\ v = r * p /\ n = r * q + (n % r)
  BY <1>1, <1>2
<1> HIDE DEF p, q
<1>4. p =< q
  BY <1>2, <1>3, QuotientOrder
<1>5. r * p =< r * q
  BY <1>3, <1>4, Z3
<1> QED
  BY <1>2, <1>3, <1>5

LEMMA SlotOrder ==
    ASSUME NEW v \in Nat, NEW n \in Nat, NEW r \in Nat \ {0}, v =< n
    PROVE  v \div r =< n \div r
<1>1. v = r * (v \div r) + (v % r) /\ v % r \in 0 .. r - 1 /\ v \div r \in Nat
  BY Division
<1>2. n = r * (n \div r) + (n % r) /\ n % r \in 0 .. r - 1 /\ n \div r \in Nat
  BY Division
<1> HIDE DEF QuotientOrder
<1> QED
  BY <1>1, <1>2, QuotientOrder

LEMMA SlotBelow ==
    ASSUME NEW v \in Nat, NEW r \in Nat \ {0}
    PROVE  v \div r \in Nat /\ v \div r =< v
<1>1. v = r * (v \div r) + (v % r) /\ v % r \in 0 .. r - 1 /\ v \div r \in Nat
  BY Division
<1> DEFINE q == v \div r
<1>2. q \in Nat /\ v = r * q + (v % r) /\ v % r \in 0 .. r - 1
  BY <1>1
<1> HIDE DEF q
<1>3. q =< r * q
  BY <1>2, Z3
<1>4. q =< v
  BY <1>2, <1>3
<1> QED
  BY <1>1, <1>4 DEF q

----------------------------------------------------------------------------
(* Types *)

Plot == [type : Types \union {"unknown"}, step : Nat, shows : Int]

Record == [sim : Simulations \union {NoSimulation}, resolution : Nat \ {0}]

TypeInv ==
    /\ current \in 0 .. Len(records)
    /\ file \in Simulations \union {NoFile}
    /\ resolution \in Nat \ {0}
    /\ records \in Seq(Record)
    /\ deleted \subseteq 1 .. Len(records)
    /\ box \in [value : Nat, max : Nat]
    /\ viewedStep \in Nat
    /\ plot \in Plot
    /\ shown \in 0 .. Len(records)
    /\ enabled \in BOOLEAN /\ playing \in BOOLEAN /\ window3D \in BOOLEAN /\ careful \in BOOLEAN
    /\ bar \in {"idle", "asks"}
    /\ posted \in {"nothing", "loaded", "failed"}
    /\ loader \in {"idle", "delete", "clear", "create", "load", "discard", "forget"}

----------------------------------------------------------------------------
(* What holds however the user behaves *)

\* The displays agree on the step, the box bounds it, and the histogram is of
\* no later one.
StepInv ==
    /\ step2D = viewedStep /\ step3D = viewedStep
    /\ box.value =< box.max
    /\ viewedStep =< box.value
    /\ plot.shows \in {-1, plot.step}
    /\ plot.step =< viewedStep
    /\ plot.type = "unknown" => plot.step = 0

\* A window that reacts has no load behind it, and the record that is there
\* has the resolution of the project unless it is about to be replaced.
LoadInv ==
    /\ enabled => loader = "idle" /\ posted = "nothing" /\ bar = "idle"
    /\ ~enabled => (posted = "nothing" <=> loader # "idle")
    /\ loader = "create" => current = None
    /\ loader \in {"delete", "load", "discard"} => current # None
    /\ posted = "failed" => current = None
    /\ (current # None /\ loader \notin {"delete", "clear"}) => records[current].resolution = resolution

\* The window was last adjusted to the record that the displays show.
ShownInv ==
    (enabled /\ ~Missing(shown)) =>
        /\ shown = current
        /\ box.max = NumSteps(shown)
        /\ viewedStep % resolution = 0
        /\ plot.step =< viewedStep \div resolution

ViewInv == Running => StepInv /\ LoadInv /\ ShownInv

----------------------------------------------------------------------------
(* What holds while the user is careful *)

\* The plotted type is one of these.
Plotted(ts) == plot.type # "unknown" => plot.type \in ts

\* Nothing fails while the window reacts.
CarefulEnabled ==
    /\ shown = current
    /\ playing => shown # None
    /\ current # None => /\ current \notin deleted
                         /\ Configured(Sim(current))
                         /\ Plotted(Sim(current).steady)
                         /\ window3D => Drawable(config3D, Sim(current))

\* Neither timers nor windows use the record while the thread replaces it.
CarefulLoading ==
    /\ ~playing /\ ~window3D
    /\ file # NoFile /\ Plotted(file.steady)
    /\ loader \in {"delete", "clear", "create", "load"} => configs = NoConfigs \/ Configured(file)
    /\ loader \notin {"discard", "forget"}
    /\ (loader = "load" \/ posted # "nothing") =>
            /\ current # None /\ current \notin deleted /\ Sim(current) = file
    /\ posted # "nothing" => posted = "loaded" /\ Configured(file)

\* Who asks for the progress has seen a record.
AskInv ==
    /\ bar = "asks" => current # None \/ deleted # {}
    /\ loader \in {"clear", "forget"} => deleted # {}

CarefulInv ==
    careful =>
        /\ fault = "none" \/ (fault = "progress of a missing record" /\ deleted # {})
        /\ Running /\ enabled => CarefulEnabled
        /\ Running /\ ~enabled => CarefulLoading
        /\ Running => AskInv

----------------------------------------------------------------------------
(* Changing the step *)

LEMMA RecordValues ==
    ASSUME TypeInv, NEW r \in Nat, ~Missing(r), r =< Len(records)
    PROVE  /\ r \in 1 .. Len(records) /\ r \notin deleted
           /\ records[r] \in Record
           /\ NumSteps(r) \in Nat
           /\ records[r].resolution \in Nat \ {0}
<1>1. r \in 1 .. Len(records) /\ r \notin deleted
  BY DEF Missing, None, TypeInv
<1>2. records[r] \in Record
  BY <1>1 DEF TypeInv
<1>3. Sim(r) \in Simulations \/ Sim(r) = NoSimulation
  BY <1>2 DEF Record, Sim
<1>4. NumSteps(r) \in Nat
  BY <1>3, SimulationsAssumption DEF NumSteps, NoSimulation, Simulation
<1> QED
  BY <1>1, <1>2, <1>4 DEF Record

LEMMA SteadyTypes ==
    ASSUME TypeInv, NEW r \in Nat, ~Missing(r), r =< Len(records)
    PROVE  Sim(r).steady \subseteq Sim(r).types /\ Sim(r).types \subseteq Types
<1>1. records[r] \in Record
  BY RecordValues
<1>2. Sim(r) \in Simulations \/ Sim(r) = NoSimulation
  BY <1>1 DEF Record, Sim
<1> QED
  BY <1>2, SimulationsAssumption DEF NoSimulation, Simulation

LEMMA RoundedValues ==
    ASSUME TypeInv, NEW v \in Nat
    PROVE  Rounded(v) \in 0 .. v /\ Rounded(v) % resolution = 0
BY RoundedStep DEF Rounded, TypeInv

LEMMA StepChangedValues ==
    ASSUME TypeInv, NEW p \in Plot, NEW step \in Nat, NEW r \in 0 .. Len(records),
           "none" \in PlotFaults(p.type, r)
    PROVE  LET q == StepChanged(p, step, r)
           IN  /\ q \in Plot
               /\ q.type = p.type
               /\ (p.type = "unknown" => q = p)
               /\ (p.type # "unknown" => ~Missing(r) /\ q.step = step \div records[r].resolution /\ q.shows = q.step)
<1>1. CASE p.type = "unknown"
  BY <1>1 DEF StepChanged
<1>2. CASE p.type # "unknown"
  <2>1. ~Missing(r)
    BY <1>2 DEF PlotFaults
  <2>2. records[r].resolution \in Nat \ {0}
    BY <2>1, RecordValues
  <2> DEFINE k == step \div records[r].resolution
  <2>3. k \in Nat
    BY <2>2, Division
  <2>6. [type |-> p.type, step |-> k, shows |-> k] \in Plot
    BY <2>3 DEF Plot
  <2>7. StepChanged(p, step, r) = [type |-> p.type, step |-> k, shows |-> k]
    BY <1>2 DEF StepChanged
  <2> HIDE DEF k
  <2> QED
    BY <1>2, <2>1, <2>6, <2>7 DEF k
<1> QED
  BY <1>1, <1>2

(* What QSpinBox::setValue leaves.                                         *)
LEMMA SetBoxValues ==
    ASSUME TypeInv, NEW b \in [value : Nat, max : Nat], NEW v \in Int, NEW p \in Plot,
           NEW r \in 0 .. Len(records), NEW next, SetBox(b, v, p, r, next)
    PROVE  /\ box' \in [value : Nat, max : Nat]
           /\ box'.max = b.max
           /\ box'.value =< b.max
           /\ (v = 0 => box'.value = 0)
           /\ viewedStep' \in Nat
           /\ (box'.value = b.value => viewedStep' = viewedStep /\ step3D' = step3D /\ plot' = p /\ fault' = next)
           /\ (box'.value # b.value => viewedStep' = Rounded(box'.value) /\ step3D' = viewedStep')
           /\ (box'.value # b.value =>
                \E bad \in PlotFaults(p.type, r) :
                   /\ (bad # "none" => fault' = bad /\ plot' = p)
                   /\ (bad = "none" => fault' = next /\ plot' = StepChanged(p, viewedStep', r)))
<1> DEFINE new == IF v < 0 THEN 0 ELSE Lesser(v, b.max)
<1>1. new \in Nat /\ new =< b.max /\ (v = 0 => new = 0)
  BY DEF Lesser
<1>2. box' = [b EXCEPT !.value = new]
  BY DEF SetBox
<1>3. box' \in [value : Nat, max : Nat] /\ box'.max = b.max /\ box'.value = new
  <2> HIDE DEF new
  <2> QED
    BY <1>1, <1>2
<1>4. /\ viewedStep' = (IF new = b.value THEN viewedStep ELSE Rounded(new))
      /\ step3D' = (IF new = b.value THEN step3D ELSE viewedStep')
  BY DEF SetBox
<1>6. PICK bad \in IF new = b.value THEN {"none"} ELSE PlotFaults(p.type, r) :
           /\ fault' = IF bad # "none" THEN bad ELSE next
           /\ plot' = IF new = b.value \/ bad # "none" THEN p ELSE StepChanged(p, viewedStep', r)
  BY DEF SetBox
<1> HIDE DEF new
<1>5. viewedStep' \in Nat
  BY <1>1, <1>4, RoundedValues DEF TypeInv
<1>7. CASE new = b.value
  BY <1>1, <1>3, <1>4, <1>5, <1>6, <1>7
<1>8. CASE new # b.value
  <2>1. /\ bad \in PlotFaults(p.type, r)
        /\ (bad # "none" => fault' = bad /\ plot' = p)
        /\ (bad = "none" => fault' = next /\ plot' = StepChanged(p, viewedStep', r))
    BY <1>6, <1>8
  <2> QED
    BY <1>1, <1>3, <1>4, <1>5, <1>8, <2>1
<1> QED
  BY <1>7, <1>8

(* While the record that is shown has the resolution of the project, the   *)
(* step stays a multiple of it and the histogram is of no later step.      *)
LEMMA ViewValues ==
    ASSUME TypeInv, StepInv, NEW v \in Int, NEW next, View(v, next)
    PROVE  /\ box' \in [value : Nat, max : Nat] /\ box'.max = box.max
           /\ viewedStep' \in Nat
           /\ plot' \in Plot
           /\ (fault' = "none" => plot'.type = plot.type /\ StepInv')
           /\ (PlotFaults(plot.type, shown) = {"none"} => fault' = next /\ plot'.type = plot.type)
           /\ ((fault' = "none" /\ records[shown].resolution = resolution
                  /\ viewedStep % resolution = 0 /\ plot.step =< viewedStep \div resolution) =>
                viewedStep' % resolution = 0 /\ plot'.step =< viewedStep' \div resolution)
<1>1. /\ box' \in [value : Nat, max : Nat]
      /\ box'.max = box.max
      /\ box'.value =< box.max
      /\ viewedStep' \in Nat
      /\ (box'.value = box.value => viewedStep' = viewedStep /\ step3D' = step3D /\ plot' = plot /\ fault' = next)
      /\ (box'.value # box.value => viewedStep' = Rounded(box'.value) /\ step3D' = viewedStep')
      /\ (box'.value # box.value =>
            \E bad \in PlotFaults(plot.type, shown) :
               /\ (bad # "none" => fault' = bad /\ plot' = plot)
               /\ (bad = "none" => fault' = next /\ plot' = StepChanged(plot, viewedStep', shown)))
  BY SetBoxValues DEF View, TypeInv
<1>2. step2D' = viewedStep'
  BY DEF View
<1>3. CASE box'.value = box.value
  BY <1>1, <1>2, <1>3 DEF StepInv, TypeInv
<1>4. CASE /\ box'.value # box.value
           /\ \E bad \in PlotFaults(plot.type, shown) : bad # "none" /\ fault' = bad /\ plot' = plot
  <2>1. fault' # "none" /\ plot' = plot /\ PlotFaults(plot.type, shown) # {"none"}
    BY <1>4
  <2> QED
    BY <1>1, <2>1 DEF TypeInv
<1>5. CASE /\ box'.value # box.value /\ "none" \in PlotFaults(plot.type, shown)
           /\ fault' = next /\ plot' = StepChanged(plot, viewedStep', shown)
  <2>1. viewedStep' =< box'.value /\ viewedStep' % resolution = 0
    BY <1>1, <1>5, RoundedValues
  <2>2. /\ plot' \in Plot
        /\ plot'.type = plot.type
        /\ (plot.type = "unknown" => plot' = plot)
        /\ (plot.type # "unknown" => ~Missing(shown)
                                     /\ plot'.step = viewedStep' \div records[shown].resolution /\ plot'.shows = plot'.step)
    <3>1. plot \in Plot /\ shown \in 0 .. Len(records) /\ viewedStep' \in Nat
      BY <1>1 DEF TypeInv
    <3>2. plot' = StepChanged(plot, viewedStep', shown)
      BY <1>1, <1>5
    <3>3. LET q == StepChanged(plot, viewedStep', shown)
          IN  /\ q \in Plot
              /\ q.type = plot.type
              /\ (plot.type = "unknown" => q = plot)
              /\ (plot.type # "unknown" => ~Missing(shown)
                                           /\ q.step = viewedStep' \div records[shown].resolution /\ q.shows = q.step)
      BY <1>5, <3>1, StepChangedValues
    <3> QED
      BY <3>2, <3>3
  <2>3. plot.type # "unknown" => records[shown].resolution \in Nat \ {0}
    BY <2>2, RecordValues DEF TypeInv
  <2>4. plot.type # "unknown" => plot'.step \in Nat /\ plot'.step =< viewedStep'
    BY <1>1, <2>2, <2>3, SlotBelow
  <2>5. plot.type = "unknown" => plot'.step = 0 /\ plot'.shows \in {-1, 0}
    BY <2>2 DEF StepInv
  <2>6. StepInv'
    BY <1>1, <1>2, <1>5, <2>1, <2>2, <2>4, <2>5 DEF StepInv
  <2>7. viewedStep' \div resolution \in Nat
    BY <1>1, Division DEF TypeInv
  <2>8. records[shown].resolution = resolution => plot'.step =< viewedStep' \div resolution
    BY <2>2, <2>5, <2>7
  <2> QED
    BY <1>1, <1>5, <2>1, <2>2, <2>6, <2>8
<1> QED
  BY <1>1, <1>3, <1>4, <1>5

----------------------------------------------------------------------------
(* The invariant of the steps *)

LEMMA InitView == Init => TypeInv /\ ViewInv
<1> SUFFICES ASSUME Init PROVE TypeInv /\ ViewInv
  OBVIOUS
<1>1. TypeInv
  <2>1. records \in Seq(Record) /\ Len(records) = 0
    BY DEF Init
  <2>2. plot \in Plot /\ box \in [value : Nat, max : Nat]
    BY DEF Init, Plot
  <2>3. /\ current \in 0 .. Len(records)
        /\ shown \in 0 .. Len(records)
        /\ deleted \subseteq 1 .. Len(records)
    BY <2>1 DEF Init, None
  <2>4. file \in Simulations \union {NoFile} /\ resolution \in Nat \ {0} /\ viewedStep \in Nat
    BY DEF Init
  <2>5. enabled \in BOOLEAN /\ playing \in BOOLEAN /\ window3D \in BOOLEAN /\ careful \in BOOLEAN
    BY DEF Init
  <2>6. bar = "idle" /\ posted = "nothing" /\ loader = "idle"
    BY DEF Init
  <2> QED
    BY <2>1, <2>2, <2>3, <2>4, <2>5, <2>6 DEF TypeInv
<1>2. StepInv
  BY DEF Init, StepInv
<1>3. LoadInv
  BY DEF Init, LoadInv
<1>4. ShownInv
  BY DEF Init, ShownInv, Missing
<1> QED
  BY <1>1, <1>2, <1>3, <1>4 DEF ViewInv

\* What changes of step leave alone
frame == <<current, file, resolution, records, deleted, loader, posted, enabled, shown>>

LEMMA ViewKeeps ==
    ASSUME TypeInv, ViewInv, Running, NEW v \in Int, NEW next, View(v, next),
           UNCHANGED <<frame, bar, careful, window3D>>, playing' \in BOOLEAN
    PROVE  TypeInv' /\ ViewInv'
<1>1. StepInv /\ LoadInv /\ ShownInv
  BY DEF ViewInv
<1>2. /\ box' \in [value : Nat, max : Nat]
      /\ box'.max = box.max
      /\ viewedStep' \in Nat
      /\ plot' \in Plot
      /\ (fault' = "none" => plot'.type = plot.type /\ StepInv')
      /\ ((fault' = "none" /\ records[shown].resolution = resolution
             /\ viewedStep % resolution = 0 /\ plot.step =< viewedStep \div resolution) =>
           viewedStep' % resolution = 0 /\ plot'.step =< viewedStep' \div resolution)
  BY <1>1, ViewValues
<1>3. TypeInv'
  BY <1>2 DEF TypeInv, frame
<1>4. LoadInv'
  BY <1>1 DEF LoadInv, frame
<1>5. ASSUME fault' = "none" PROVE ShownInv'
  <2> SUFFICES ASSUME enabled, ~Missing(shown)
               PROVE  /\ shown = current
                      /\ box'.max = NumSteps(shown)
                      /\ viewedStep' % resolution = 0
                      /\ plot'.step =< viewedStep' \div resolution
    BY DEF ShownInv, frame, Missing, NumSteps, Sim
  <2>1. /\ shown = current /\ box.max = NumSteps(shown)
        /\ viewedStep % resolution = 0 /\ plot.step =< viewedStep \div resolution
    BY <1>1 DEF ShownInv
  <2>2. records[shown].resolution = resolution
    BY <1>1, <2>1 DEF LoadInv, Missing
  <2> QED
    BY <1>2, <1>5, <2>1, <2>2
<1> QED
  BY <1>2, <1>3, <1>4, <1>5 DEF ViewInv, Running

\* Nothing but the user, the windows and the fault changes.
LEMMA QuietKeeps ==
    ASSUME TypeInv, ViewInv, Running, UNCHANGED <<frame, stepVars>>,
           playing' \in BOOLEAN, window3D' \in BOOLEAN, careful' \in BOOLEAN, bar' \in {"idle", "asks"},
           enabled => bar' = "idle"
    PROVE  TypeInv' /\ ViewInv'
<1>1. TypeInv'
  BY DEF TypeInv, frame, stepVars
<1>2. StepInv' /\ LoadInv' /\ ShownInv'
  BY DEF ViewInv, StepInv, LoadInv, ShownInv, frame, stepVars, Missing, NumSteps, Sim
<1> QED
  BY <1>1, <1>2 DEF ViewInv

LEMMA LoadSimulationFinishedKeeps ==
    ASSUME TypeInv, ViewInv, Running, loadSimulationFinished
    PROVE  TypeInv' /\ ViewInv'
<1>1. /\ UNCHANGED <<current, file, resolution, configs, records, deleted, loader, playing, window3D, bar, careful>>
      /\ posted # "nothing" /\ posted' = "nothing" /\ enabled' = TRUE /\ shown' = current
  BY DEF loadSimulationFinished, Free, Taken, projectVars, recordVars, userVars
<1>2. StepInv /\ LoadInv
  BY DEF ViewInv
<1>3. loader = "idle" /\ bar = "idle"
  BY <1>1, <1>2 DEF LoadInv, TypeInv, loadSimulationFinished, Free
<1>4. LoadInv'
  BY <1>1, <1>2, <1>3 DEF LoadInv
<1>5. CASE Missing(current)
  <2>1. fault' = "no record to display" /\ UNCHANGED stepVars
    BY <1>5 DEF loadSimulationFinished
  <2>2. TypeInv'
    BY <1>1, <2>1 DEF TypeInv, stepVars
  <2> QED
    BY <2>1, <2>2 DEF ViewInv, Running
<1>6. CASE ~Missing(current)
  <2> DEFINE b == BoxOf(current)
             p == [plot EXCEPT !.shows = -1]
  <2>1. SetBox(b, 0, p, current, "none") /\ step2D' = 0
    BY <1>6 DEF loadSimulationFinished, Taken
  <2>2. current \in 1 .. Len(records) /\ NumSteps(current) \in Nat /\ records[current].resolution \in Nat \ {0}
    BY <1>6, RecordValues DEF TypeInv
  <2>3. b \in [value : Nat, max : Nat] /\ b.max = NumSteps(current) /\ b.value = box.value
    BY <2>2 DEF TypeInv, BoxOf
  <2>4. p \in Plot /\ p.type = plot.type /\ p.step = plot.step /\ p.shows = -1
    BY DEF TypeInv, Plot
  <2> HIDE DEF b, p
  <2>5. /\ box' \in [value : Nat, max : Nat]
        /\ box'.max = b.max
        /\ box'.value = 0
        /\ viewedStep' \in Nat
        /\ (box'.value = b.value => viewedStep' = viewedStep /\ step3D' = step3D /\ plot' = p /\ fault' = "none")
        /\ (box'.value # b.value => viewedStep' = Rounded(box'.value) /\ step3D' = viewedStep')
        /\ (box'.value # b.value =>
             \E bad \in PlotFaults(p.type, current) :
                /\ (bad # "none" => fault' = bad /\ plot' = p)
                /\ (bad = "none" => fault' = "none" /\ plot' = StepChanged(p, viewedStep', current)))
    BY <2>1, <2>2, <2>3, <2>4, SetBoxValues
  <2>6. viewedStep' = 0 /\ step3D' = 0
    <3>1. Rounded(0) = 0
      BY RoundedValues
    <3>2. box.value = 0 => viewedStep = 0 /\ step3D = 0
      BY <1>2 DEF StepInv, TypeInv
    <3> QED
      BY <2>3, <2>5, <3>1, <3>2
  <2>7. 0 \div records[current].resolution = 0 /\ 0 \div resolution = 0 /\ 0 % resolution = 0
    BY <2>2, SlotBelow, RoundedStep DEF TypeInv
  <2>8. plot' \in Plot /\ (fault' = "none" => /\ plot'.type = plot.type
                                              /\ plot'.step = 0
                                              /\ plot'.shows \in {-1, 0})
    <3>1. CASE box'.value = b.value
      <4>1. plot.step = 0
        BY <1>2, <2>3, <2>5, <3>1 DEF StepInv, TypeInv, Plot
      <4> QED
        BY <2>4, <2>5, <3>1, <4>1
    <3>2. CASE plot' = p /\ fault' # "none"
      BY <2>4, <3>2
    <3>3. CASE "none" \in PlotFaults(p.type, current) /\ plot' = StepChanged(p, viewedStep', current)
      <4>4. current \in 0 .. Len(records) /\ viewedStep' \in Nat /\ p \in Plot /\ "none" \in PlotFaults(p.type, current)
        BY <2>4, <2>5, <3>3 DEF TypeInv
      <4>1. LET q == StepChanged(p, viewedStep', current)
            IN  /\ q \in Plot
                /\ q.type = p.type
                /\ (p.type = "unknown" => q = p)
                /\ (p.type # "unknown" => ~Missing(current)
                                          /\ q.step = viewedStep' \div records[current].resolution /\ q.shows = q.step)
        BY <4>4, StepChangedValues
      <4>2. /\ plot' \in Plot
            /\ plot'.type = p.type
            /\ (p.type = "unknown" => plot' = p)
            /\ (p.type # "unknown" => plot'.step = viewedStep' \div records[current].resolution
                                      /\ plot'.shows = plot'.step)
        BY <2>5, <3>3, <4>1
      <4>3. p.type = "unknown" => plot'.step = 0 /\ plot'.shows = -1
        BY <1>2, <2>4, <4>2 DEF StepInv
      <4> QED
        BY <2>4, <2>6, <2>7, <4>2, <4>3
    <3> QED
      BY <2>5, <3>1, <3>2, <3>3
  <2>9. TypeInv'
    BY <1>1, <2>2, <2>5, <2>8 DEF TypeInv
  <2>10. ASSUME fault' = "none" PROVE StepInv'
    BY <2>1, <2>3, <2>5, <2>6, <2>8, <2>10, <2>2 DEF StepInv
  <2>11. ASSUME fault' = "none" PROVE ShownInv'
    <3>1. box'.max = NumSteps(current) /\ viewedStep' % resolution = 0 /\ plot'.step =< viewedStep' \div resolution
      BY <2>3, <2>5, <2>6, <2>7, <2>8, <2>11
    <3> QED
      BY <1>1, <3>1 DEF ShownInv, NumSteps, Sim
  <2> QED
    BY <1>4, <2>9, <2>10, <2>11 DEF ViewInv, Running
<1> QED
  BY <1>5, <1>6

LEMMA ClickRuns ==
    ASSUME TypeInv, NEW care \in BOOLEAN, Click(care)
    PROVE  /\ Running /\ enabled /\ bar = "idle"
           /\ careful' \in BOOLEAN
           /\ careful' = (careful /\ care)
BY DEF Click, Free, Running, TypeInv

LEMMA StepActionsKeep ==
    ASSUME TypeInv, ViewInv, Running, goTo \/ previousStep \/ nextOrFinalStep \/ updatePlay
    PROVE  TypeInv' /\ ViewInv'
<1> USE DEF frame, projectVars, recordVars, loaderVars, windowVars, userVars
<1>1. CASE goTo
  <2>1. /\ careful' = careful /\ playing' = playing
        /\ UNCHANGED <<frame, bar, window3D>>
    BY <1>1, ClickRuns DEF goTo, TypeInv
  <2>2. PICK v \in 0 .. box.max : View(v, "none")
    BY <1>1 DEF goTo
  <2>3. v \in Int
    BY DEF TypeInv
  <2> QED
    BY <2>1, <2>2, <2>3, ViewKeeps DEF TypeInv
<1>2. CASE previousStep
  <2>1. careful' = careful /\ playing' = playing /\ UNCHANGED <<frame, bar, window3D>>
    BY <1>2, ClickRuns DEF previousStep, TypeInv
  <2>2. View(viewedStep - resolution, "none") /\ viewedStep - resolution \in Int
    BY <1>2 DEF previousStep, TypeInv
  <2> QED
    BY <2>1, <2>2, ViewKeeps DEF TypeInv
<1>3. CASE nextOrFinalStep
  <2>1. careful' = careful /\ playing' = playing /\ UNCHANGED <<frame, bar, window3D>>
    BY <1>3, ClickRuns DEF nextOrFinalStep, TypeInv
  <2>2. CASE Missing(current)
    <3>1. fault' # "none" /\ UNCHANGED stepVars
      BY <1>3, <2>2 DEF nextOrFinalStep
    <3>2. TypeInv'
      BY <2>1, <3>1 DEF TypeInv, stepVars
    <3> QED
      BY <3>1, <3>2 DEF ViewInv, Running
  <2>3. CASE ~Missing(current)
    <3>1. PICK v \in {viewedStep + resolution, NumSteps(current)} : View(v, "none")
      BY <1>3, <2>3 DEF nextOrFinalStep
    <3>2. v \in Int
      BY <2>3, RecordValues DEF TypeInv
    <3> QED
      BY <2>1, <3>1, <3>2, ViewKeeps DEF TypeInv
  <2> QED
    BY <2>2, <2>3
<1>4. CASE updatePlay
  <2>1. careful' = careful /\ UNCHANGED <<frame, bar, window3D>>
    BY <1>4 DEF updatePlay
  <2>2. playing' \in BOOLEAN
    BY <1>4 DEF updatePlay, TypeInv, Over
  <2>3. viewedStep + resolution \in Int
    BY DEF TypeInv
  <2>4. PICK next : View(viewedStep + resolution, next)
    BY <1>4 DEF updatePlay
  <2> QED
    BY <2>1, <2>2, <2>3, <2>4, ViewKeeps DEF TypeInv
<1> QED
  BY <1>1, <1>2, <1>3, <1>4

LEMMA QuietActionsKeep ==
    ASSUME TypeInv, ViewInv, Running, play \/ show3DWindow \/ configured3D \/ paint \/ updateProgress \/ askProgress
    PROVE  TypeInv' /\ ViewInv'
<1> USE DEF frame, projectVars, recordVars, loaderVars, windowVars, userVars
<1>1. CASE play
  <2>1. UNCHANGED <<frame, stepVars, bar, window3D>> /\ careful' = careful /\ playing' \in BOOLEAN
    BY <1>1, ClickRuns DEF play, TypeInv
  <2> QED
    BY <2>1, QuietKeeps DEF TypeInv, ViewInv, LoadInv
<1>2. CASE show3DWindow
  <2>1. UNCHANGED <<frame, stepVars, bar, playing>> /\ careful' \in BOOLEAN /\ window3D' \in BOOLEAN
    BY <1>2 DEF show3DWindow, Click, TypeInv
  <2> QED
    BY <2>1, QuietKeeps DEF TypeInv, ViewInv, LoadInv
<1>3. CASE paint
  <2>1. UNCHANGED <<frame, stepVars, bar, playing, window3D, careful>>
    BY <1>3 DEF paint
  <2> QED
    BY <2>1, QuietKeeps DEF TypeInv, ViewInv, LoadInv
<1>4. CASE updateProgress
  <2>1. UNCHANGED <<frame, stepVars, playing, window3D, careful>> /\ bar' = "asks" /\ ~enabled
    BY <1>4 DEF updateProgress
  <2> QED
    BY <2>1, QuietKeeps DEF TypeInv
<1>5. CASE askProgress
  <2>1. UNCHANGED <<frame, stepVars, playing, window3D, careful>> /\ bar' = "idle"
    BY <1>5 DEF askProgress
  <2> QED
    BY <2>1, QuietKeeps DEF TypeInv
<1>6. CASE configured3D
  <2>1. UNCHANGED <<frame, stepVars, bar, playing, window3D>> /\ careful' \in BOOLEAN
    BY <1>6 DEF configured3D, Click, TypeInv
  <2> QED
    BY <2>1, QuietKeeps DEF TypeInv, ViewInv, LoadInv
<1> QED
  BY <1>1, <1>2, <1>3, <1>4, <1>5, <1>6

LEMMA SelectStateKeeps ==
    ASSUME TypeInv, ViewInv, Running, selectState
    PROVE  TypeInv' /\ ViewInv'
<1>1. /\ UNCHANGED <<frame, playing, window3D, bar, box, viewedStep, step2D, step3D>>
      /\ careful' \in BOOLEAN /\ shown # None
  BY DEF selectState, Click, frame, projectVars, recordVars, loaderVars, windowVars, TypeInv
<1>2. CASE Missing(shown)
  <2>1. fault' # "none" /\ plot' = plot
    BY <1>2 DEF selectState
  <2>2. TypeInv'
    BY <1>1, <2>1 DEF TypeInv, frame
  <2> QED
    BY <2>1, <2>2 DEF ViewInv, Running
<1>3. CASE ~Missing(shown)
  <2>1. PICK t \in Sim(shown).types : plot' = [type |-> t, step |-> plot.step, shows |-> plot.step]
    BY <1>3 DEF selectState
  <2>2. t \in Types
    <3>1. Sim(shown).types \subseteq Types
      BY <1>3, SteadyTypes DEF TypeInv
    <3> QED
      BY <2>1, <3>1
  <2>3. plot' \in Plot /\ plot'.step = plot.step /\ plot'.shows = plot.step /\ plot'.type = t
    BY <2>1, <2>2 DEF TypeInv, Plot
  <2>4. TypeInv'
    BY <1>1, <2>3 DEF TypeInv, frame
  <2>5. StepInv /\ LoadInv /\ ShownInv
    BY DEF ViewInv
  <2>6. StepInv'
    <3>1. t = "unknown" => plot.step = 0
      \* A type that is called unknown is none to StepDataPlot.
      BY UnknownAssumption, <2>2
    <3> QED
      BY <1>1, <2>3, <2>5, <3>1 DEF StepInv
  <2>7. LoadInv' /\ ShownInv'
    BY <1>1, <2>3, <2>5 DEF LoadInv, ShownInv, frame, Missing, NumSteps, Sim
  <2> QED
    BY <2>4, <2>6, <2>7 DEF ViewInv
<1> QED
  BY <1>2, <1>3

LEMMA ProjectActionsKeep ==
    ASSUME TypeInv, ViewInv, Running, selectSimulation \/ newProject \/ loadProject
    PROVE  TypeInv' /\ ViewInv'
<1>0. StepInv /\ LoadInv /\ ShownInv
  BY DEF ViewInv
<1>1. CASE selectSimulation
  <2>1. PICK f \in Files, r \in Resolutions : Click(Prepared(f)) /\ file' = f /\ resolution' = r
    BY <1>1 DEF selectSimulation
  <2>2. enabled /\ careful' \in BOOLEAN
    BY <2>1 DEF Click, TypeInv
  <2>3. /\ UNCHANGED <<current, records, deleted, posted, shown, stepVars, bar, playing, window3D>>
        /\ loader = "idle" /\ enabled' = FALSE
        /\ loader' = IF current = None THEN "create" ELSE "delete"
    BY <1>1 DEF selectSimulation, recordVars
  <2>4. file' \in Simulations \union {NoFile} /\ resolution' \in Nat \ {0}
    BY <2>1, ChoicesAssumption
  <2>5. TypeInv'
    BY <2>2, <2>3, <2>4 DEF TypeInv, stepVars
  <2>6. StepInv' /\ ShownInv'
    BY <1>0, <2>3 DEF StepInv, ShownInv, stepVars
  <2>7. LoadInv'
    BY <1>0, <2>2, <2>3 DEF LoadInv
  <2> QED
    BY <2>5, <2>6, <2>7 DEF ViewInv
<1>2. CASE newProject
  <2>1. /\ careful' \in BOOLEAN /\ enabled
        /\ UNCHANGED <<records, loader, posted, enabled, shown, stepVars, bar, playing, window3D>>
        /\ deleted' = deleted \union ({current} \ {None})
        /\ current' = None /\ file' = NoFile /\ resolution' = 1
    BY <1>2, ClickRuns DEF newProject, loaderVars, windowVars
  <2>2. deleted' \subseteq 1 .. Len(records)
    BY <2>1 DEF TypeInv, None
  <2>3. TypeInv'
    BY <2>1, <2>2 DEF TypeInv, stepVars, None
  <2>4. StepInv' /\ LoadInv'
    BY <1>0, <2>1 DEF StepInv, LoadInv, stepVars
  <2>5. ShownInv'
    BY <1>0, <2>1 DEF ShownInv, Missing
  <2> QED
    BY <2>3, <2>4, <2>5 DEF ViewInv
<1>3. CASE loadProject
  <2>1. /\ careful' \in BOOLEAN
        /\ UNCHANGED <<records, loader, posted, stepVars, bar, playing, window3D>>
        /\ deleted' = deleted \union ({current} \ {None})
        /\ current' = None /\ enabled' = FALSE /\ shown' = None
        /\ fault' # "none"
    BY <1>3, ClickRuns DEF loadProject, loaderVars
  <2>2. deleted' \subseteq 1 .. Len(records)
    BY <2>1 DEF TypeInv, None
  <2>3. file' \in Simulations \union {NoFile} /\ resolution' \in Nat \ {0}
    <3>1. PICK p \in Projects \union {NoProject} : file' = p.file /\ resolution' = p.resolution
      BY <1>3 DEF loadProject
    <3>2. CASE p \in Projects
      <4>1. p \in [file : Files, resolution : Resolutions, types : SUBSET Types, rasters : SUBSET Rasters]
        BY <3>2, ChoicesAssumption
      <4>2. p.file \in Files /\ p.resolution \in Resolutions
        BY <4>1
      <4> QED
        BY <3>1, <4>2, ChoicesAssumption
    <3>3. CASE p = NoProject
      BY <3>1, <3>3 DEF NoProject
    <3> QED
      BY <3>1, <3>2, <3>3
  <2>4. Len(records) \in Nat
    BY DEF TypeInv
  <2>5. current' \in 0 .. Len(records') /\ shown' \in 0 .. Len(records')
    BY <2>1, <2>4 DEF None
  <2>6. TypeInv'
    BY <2>1, <2>2, <2>3, <2>5 DEF TypeInv, stepVars
  <2> QED
    BY <2>1, <2>6 DEF ViewInv, Running
<1> QED
  BY <1>1, <1>2, <1>3

LEMMA ThreadKeeps ==
    ASSUME TypeInv, ViewInv, Running, Thread
    PROVE  TypeInv' /\ ViewInv'
<1>0. StepInv /\ LoadInv /\ ShownInv
  BY DEF ViewInv
<1>1. /\ loader # "idle" /\ ~enabled
      /\ UNCHANGED <<windowVars, bar, stepVars, fault, userVars, file, resolution>>
  <2>1. loader # "idle"
    BY DEF Thread, deleteRecord, clearRecord, createRecord, loadRecord, discardRecord, forgetRecord, LoaderStep
  <2>2. ~enabled
    BY <1>0, <2>1 DEF LoadInv
  <2> QED
    BY <2>1, <2>2 DEF Thread, deleteRecord, clearRecord, createRecord, loadRecord, discardRecord, forgetRecord, projectVars
<1>2. StepInv' /\ ShownInv'
  BY <1>0, <1>1 DEF StepInv, ShownInv, stepVars, windowVars
<1>3. CASE deleteRecord \/ discardRecord
  <2>1. /\ current' = current /\ records' = records /\ posted' = posted
        /\ deleted' = deleted \union {current}
        /\ \/ loader = "delete" /\ loader' = "clear"
           \/ loader = "discard" /\ loader' = "forget"
    BY <1>3 DEF deleteRecord, discardRecord, LoaderStep, projectVars
  <2>2. current # None
    BY <1>0, <2>1 DEF LoadInv
  <2>3. deleted' \subseteq 1 .. Len(records)
    BY <2>1, <2>2 DEF TypeInv, None
  <2>4. TypeInv'
    BY <1>1, <2>1, <2>3 DEF TypeInv, windowVars, stepVars, userVars
  <2>5. LoadInv'
    BY <1>0, <1>1, <2>1 DEF LoadInv, windowVars
  <2> QED
    BY <1>2, <2>4, <2>5 DEF ViewInv
<1>4. CASE clearRecord \/ forgetRecord
  <2>1. /\ current' = None /\ records' = records /\ deleted' = deleted
        /\ \/ loader = "clear" /\ loader' = "create" /\ posted' = posted
           \/ loader = "forget" /\ loader' = "idle" /\ posted' = "failed"
    BY <1>4 DEF clearRecord, forgetRecord, LoaderStep, recordVars
  <2>2. TypeInv'
    BY <1>1, <2>1 DEF TypeInv, windowVars, stepVars, userVars, None
  <2>3. LoadInv'
    BY <1>0, <1>1, <2>1 DEF LoadInv, windowVars
  <2> QED
    BY <1>2, <2>2, <2>3 DEF ViewInv
<1>5. CASE createRecord
  <2> DEFINE new == [sim |-> IF file = NoFile THEN NoSimulation ELSE file, resolution |-> resolution]
  <2>1. /\ loader' = "load" /\ current' = Len(records) + 1 /\ records' = Append(records, new)
        /\ deleted' = deleted /\ posted' = posted
    BY <1>5 DEF createRecord, LoaderStep
  <2>2. new \in Record /\ new.resolution = resolution
    BY DEF TypeInv, Record
  <2> HIDE DEF new
  <2>3. records \in Seq(Record)
    BY DEF TypeInv
  <2>4. /\ records' \in Seq(Record)
        /\ Len(records') = Len(records) + 1
        /\ records'[Len(records) + 1] = new
    BY <2>1, <2>2, <2>3
  <2>5. Len(records) \in Nat
    BY <2>3
  <2>6. /\ current' \in 0 .. Len(records')
        /\ deleted' \subseteq 1 .. Len(records')
        /\ shown' \in 0 .. Len(records')
    BY <1>1, <2>1, <2>4, <2>5 DEF TypeInv, windowVars
  <2>7. TypeInv'
    BY <1>1, <2>1, <2>4, <2>6 DEF TypeInv, windowVars, stepVars, userVars
  <2>8. records'[current'].resolution = resolution'
    BY <1>1, <2>1, <2>2, <2>4
  <2>9. current' # None
    BY <2>1, <2>5 DEF None
  <2>10. posted = "nothing"
    BY <1>0, <1>1 DEF LoadInv
  <2>11. LoadInv'
    BY <1>1, <2>1, <2>8, <2>9, <2>10 DEF LoadInv, windowVars
  <2> QED
    BY <1>2, <2>7, <2>11 DEF ViewInv
<1>6. CASE loadRecord
  <2>1. /\ current' = current /\ records' = records /\ deleted' = deleted
        /\ loader = "load"
        /\ \/ loader' = "idle" /\ posted' = "loaded"
           \/ loader' = "discard" /\ posted' = posted
    BY <1>6 DEF loadRecord, LoaderStep, recordVars
  <2>2. TypeInv'
    BY <1>1, <2>1 DEF TypeInv, windowVars, stepVars, userVars
  <2>3. LoadInv'
    BY <1>0, <1>1, <2>1 DEF LoadInv, windowVars
  <2> QED
    BY <1>2, <2>2, <2>3 DEF ViewInv
<1> QED
  BY <1>3, <1>4, <1>5, <1>6 DEF Thread

LEMMA NextView == TypeInv /\ ViewInv /\ [Next]_vars => TypeInv' /\ ViewInv'
<1> SUFFICES ASSUME TypeInv, ViewInv, [Next]_vars PROVE TypeInv' /\ ViewInv'
  OBVIOUS
<1>1. CASE UNCHANGED vars
  BY <1>1 DEF vars, projectVars, recordVars, loaderVars, windowVars, stepVars, userVars,
      TypeInv, ViewInv, StepInv, LoadInv, ShownInv, Running, Missing, NumSteps, Sim
<1>2. CASE EventLoop \/ Thread
  <2>1. Running
    BY <1>2 DEF EventLoop, Thread, goTo, previousStep, nextOrFinalStep, play, selectState, show3DWindow,
        configured3D, selectSimulation, newProject, loadProject, updatePlay, paint, updateProgress, askProgress,
        loadSimulationFinished, deleteRecord, clearRecord, createRecord, loadRecord, discardRecord,
        forgetRecord, LoaderStep, Click, Free, Running
  <2> QED
    BY <1>2, <2>1, StepActionsKeep, QuietActionsKeep, SelectStateKeeps, ProjectActionsKeep, ThreadKeeps,
       LoadSimulationFinishedKeeps DEF EventLoop
<1> QED
  BY <1>1, <1>2 DEF Next, Idle

(* The step that is viewed, and the slot of the histogram, exist in the    *)
(* record that is shown, whatever the user does and whatever is recorded.  *)
THEOREM ViewedStepAlwaysExists == Spec => []ViewedStepExists
<1>1. TypeInv /\ ViewInv => ViewedStepExists
  <2> SUFFICES ASSUME TypeInv, ViewInv, Running, enabled, ~Missing(shown)
               PROVE  /\ step2D = viewedStep /\ step3D = viewedStep
                      /\ viewedStep <= LastStep(shown) /\ viewedStep % records[shown].resolution = 0
                      /\ {plot.step, plot.shows} \subseteq -1 .. LastStep(shown) \div records[shown].resolution
    BY DEF ViewedStepExists
  <2>1. StepInv /\ LoadInv /\ ShownInv
    BY DEF ViewInv
  <2>2. records[shown].resolution \in Nat \ {0} /\ NumSteps(shown) \in Nat
    BY RecordValues DEF TypeInv
  <2>3. shown = current /\ shown # None /\ records[shown].resolution = resolution
    BY <2>1 DEF ShownInv, LoadInv, Missing
  <2>4. viewedStep \in Nat /\ viewedStep =< NumSteps(shown) /\ viewedStep % resolution = 0
    BY <2>1 DEF StepInv, ShownInv, TypeInv
  <2>5. viewedStep =< LastStep(shown)
    BY <2>2, <2>3, <2>4, MultipleBelow DEF LastStep
  <2>6. LastStep(shown) \in Nat
    BY <2>2, RoundedStep DEF LastStep
  <2>7. viewedStep \div resolution =< LastStep(shown) \div resolution
    BY <2>2, <2>3, <2>4, <2>5, <2>6, SlotOrder
  <2>8. LastStep(shown) \div resolution \in Nat /\ viewedStep \div resolution \in Nat
    BY <2>2, <2>3, <2>4, <2>6, Division
  <2>9. plot.step \in Nat /\ plot.step =< viewedStep \div resolution /\ plot.shows \in {-1, plot.step}
    BY <2>1 DEF StepInv, ShownInv, TypeInv, Plot
  <2>10. {plot.step, plot.shows} \subseteq -1 .. LastStep(shown) \div resolution
    BY <2>7, <2>8, <2>9
  <2> QED
    BY <2>1, <2>3, <2>4, <2>5, <2>10 DEF StepInv
<1> QED
  BY <1>1, InitView, NextView, PTL DEF Spec

----------------------------------------------------------------------------
(* What the user should beware of *)

LEMMA InitCareful == Init => CarefulInv
BY DEF Init, CarefulInv, CarefulEnabled, AskInv, Running, None

\* Nothing is left to fail in the record that is shown.
LEMMA CarefulRecord ==
    ASSUME TypeInv, CarefulEnabled, shown # None
    PROVE  /\ shown = current /\ ~Missing(shown) /\ ~Missing(current)
           /\ Configured(Sim(shown))
           /\ window3D => Drawable(config3D, Sim(shown))
           /\ PlotFaults(plot.type, shown) = {"none"}
<1>1. /\ shown = current /\ current # None /\ current \notin deleted
      /\ Configured(Sim(current))
      /\ window3D => Drawable(config3D, Sim(current))
      /\ plot.type # "unknown" => plot.type \in Sim(current).steady
  BY DEF CarefulEnabled, Plotted
<1>2. ~Missing(current)
  BY <1>1 DEF Missing
<1>3. Sim(current).steady \subseteq Sim(current).types
  BY <1>2, SteadyTypes DEF TypeInv
<1>4. PlotFaults(plot.type, current) = {"none"}
  BY <1>1, <1>2, <1>3 DEF PlotFaults
<1> QED
  BY <1>1, <1>2, <1>4

LEMMA CarefulView ==
    ASSUME TypeInv, ViewInv, Running, enabled, CarefulEnabled, AskInv, shown # None,
           NEW v \in Int, View(v, "none"), UNCHANGED <<frame, bar, configs, config3D, window3D>>
    PROVE  fault' = "none" /\ enabled' /\ CarefulEnabled' /\ AskInv'
<1>1. StepInv
  BY DEF ViewInv
<1>2. PlotFaults(plot.type, shown) = {"none"}
  BY CarefulRecord
<1>3. fault' = "none" /\ plot'.type = plot.type
  BY <1>1, <1>2, ViewValues
<1>4. /\ enabled' = enabled /\ shown' = shown /\ current' = current /\ deleted' = deleted
      /\ records' = records /\ configs' = configs /\ config3D' = config3D /\ window3D' = window3D
      /\ bar' = bar /\ loader' = loader
  BY DEF frame
<1>5. CarefulEnabled'
  <2>1. playing' => playing \/ shown # None
    OBVIOUS
  <2> QED
    BY <1>3, <1>4, <2>1 DEF CarefulEnabled, Plotted, Configured, Drawable, Sim
<1>6. AskInv'
  BY <1>4 DEF AskInv
<1> QED
  BY <1>3, <1>4, <1>5, <1>6

\* The conclusion for a step that leaves the window as it is
LEMMA CarefulWindow ==
    ASSUME fault' = "none", enabled', CarefulEnabled', AskInv'
    PROVE  CarefulInv'
BY DEF CarefulInv, Running

LEMMA CarefulThread ==
    ASSUME fault' = "none", ~enabled', CarefulLoading', AskInv'
    PROVE  CarefulInv'
BY DEF CarefulInv, Running

LEMMA StepActionsCareful ==
    ASSUME TypeInv, ViewInv, Running, careful, CarefulInv, goTo \/ previousStep \/ nextOrFinalStep \/ updatePlay
    PROVE  CarefulInv'
<1> USE DEF frame, projectVars, recordVars, loaderVars, windowVars, userVars
<1>0. AskInv
  BY DEF CarefulInv
<1>1. enabled /\ CarefulEnabled /\ shown # None
  <2>1. CASE goTo \/ previousStep \/ nextOrFinalStep
    BY <2>1 DEF goTo, previousStep, nextOrFinalStep, Click, CarefulInv
  <2>2. CASE updatePlay
    <3>1. playing
      BY <2>2 DEF updatePlay
    <3>2. enabled
      BY <3>1 DEF CarefulInv, CarefulLoading
    <3> QED
      BY <3>1, <3>2 DEF CarefulInv, CarefulEnabled
  <2> QED
    BY <2>1, <2>2
<1>2. ~Missing(current)
  BY <1>1, CarefulRecord
<1>3. UNCHANGED <<frame, bar, configs, config3D, window3D>>
  BY DEF goTo, previousStep, nextOrFinalStep, updatePlay
<1>4. PICK v : v \in Int /\ View(v, "none")
  <2>1. CASE goTo
    <3>1. PICK v \in 0 .. box.max : View(v, "none")
      BY <2>1 DEF goTo
    <3>2. v \in Int
      BY DEF TypeInv
    <3> QED
      BY <3>1, <3>2
  <2>2. CASE previousStep
    <3>1. View(viewedStep - resolution, "none") /\ viewedStep - resolution \in Int
      BY <2>2 DEF previousStep, TypeInv
    <3> QED
      BY <3>1
  <2>3. CASE nextOrFinalStep
    <3>1. PICK v \in {viewedStep + resolution, NumSteps(current)} : View(v, "none")
      BY <1>2, <2>3 DEF nextOrFinalStep
    <3>2. v \in Int
      BY <1>2, RecordValues DEF TypeInv
    <3> QED
      BY <3>1, <3>2
  <2>4. CASE updatePlay
    <3>1. View(viewedStep + resolution, "none") /\ viewedStep + resolution \in Int
      BY <1>2, <2>4 DEF updatePlay, TypeInv
    <3> QED
      BY <3>1
  <2> QED
    BY <2>1, <2>2, <2>3, <2>4
<1> QED
  BY <1>0, <1>1, <1>3, <1>4, CarefulView, CarefulWindow

LEMMA WindowActionsCareful ==
    ASSUME TypeInv, ViewInv, Running, careful, CarefulInv, careful',
           play \/ show3DWindow \/ configured3D \/ selectState \/ paint
    PROVE  CarefulInv'
<1> USE DEF frame, projectVars, recordVars, loaderVars, windowVars, userVars
<1>0. AskInv
  BY DEF CarefulInv
<1>1. enabled /\ shown # None
  BY DEF play, show3DWindow, configured3D, selectState, paint, paintEvent, paintGL, Click,
     CarefulInv, CarefulLoading
<1>2. CarefulEnabled
  BY <1>1 DEF CarefulInv
<1>3. /\ ~Missing(shown) /\ Configured(Sim(shown)) /\ shown = current
      /\ window3D => Drawable(config3D, Sim(shown))
  BY <1>1, <1>2, CarefulRecord
<1>4. ~paint
  <2>1. ~paintEvent
    BY <1>3 DEF paintEvent
  <2>2. ~paintGL
    <3>1. SUFFICES ASSUME window3D, Sim(shown).rasters # {}
                   PROVE  /\ Drawable(config3D, Sim(shown))
                          /\ config3D.color \in configs.rasters
                          /\ Sim(shown).types \subseteq configs.types
      BY <1>3 DEF paintGL
    <3>2. config3D.color \in Sim(shown).rasters
      BY <1>3, <3>1 DEF Drawable
    <3> QED
      BY <1>3, <3>1, <3>2 DEF Configured
  <2> QED
    BY <2>1, <2>2 DEF paint
<1>5. CASE play
  <2>1. UNCHANGED <<current, configs, config3D, records, deleted, loader, bar, enabled, shown, plot, fault, window3D>>
    BY <1>5 DEF play, stepVars
  <2>2. CarefulEnabled' /\ AskInv'
    BY <1>0, <1>1, <1>2, <2>1 DEF CarefulEnabled, AskInv, Plotted, Configured, Drawable, Sim
  <2> QED
    BY <1>1, <2>1, <2>2, CarefulWindow DEF Running
<1>6. CASE show3DWindow
  <2>1. UNCHANGED <<current, configs, config3D, records, deleted, loader, bar, enabled, shown, plot, fault, playing>>
    BY <1>6 DEF show3DWindow, stepVars
  <2>2. window3D' => Drawable(config3D, Sim(shown))
    <3>1. careful' = (careful /\ (window3D \/ Drawable(config3D, Sim(shown)))) /\ window3D' = ~window3D
      BY <1>6 DEF show3DWindow, Click
    <3>2. window3D \/ Drawable(config3D, Sim(shown))
      BY <3>1
    <3>3. window3D \in BOOLEAN
      BY DEF TypeInv
    <3> HIDE DEF frame, projectVars, recordVars, loaderVars, windowVars, userVars
    <3> QED
      BY <3>1, <3>2, <3>3
  <2>3. CarefulEnabled' /\ AskInv'
    BY <1>0, <1>1, <1>2, <1>3, <2>1, <2>2 DEF CarefulEnabled, AskInv, Plotted, Configured, Drawable, Sim
  <2> QED
    BY <1>1, <2>1, <2>3, CarefulWindow DEF Running
<1>7. CASE configured3D
  <2>1. UNCHANGED <<current, configs, records, deleted, loader, bar, enabled, shown, plot, fault, playing, window3D>>
    BY <1>7 DEF configured3D, stepVars
  <2>2. window3D' => Drawable(config3D', Sim(shown))
    <3>1. careful' = (careful /\ (window3D => Drawable(config3D', Sim(shown))))
      BY <1>7 DEF configured3D, Click
    <3> HIDE DEF frame, projectVars, recordVars, loaderVars, windowVars, userVars
    <3> QED
      BY <2>1, <3>1
  <2>4. Configured(Sim(current)) /\ Plotted(Sim(current).steady) /\ current # None /\ current \notin deleted
    BY <1>1, <1>2 DEF CarefulEnabled
  <2>5. (current # None)' /\ (current \notin deleted)' /\ Configured(Sim(current))' /\ Plotted(Sim(current).steady)'
    BY <2>1, <2>4 DEF Configured, Plotted, Sim
  <2>6. window3D' => Drawable(config3D, Sim(current))'
    BY <1>3, <2>1, <2>2 DEF Drawable, Sim
  <2>3. CarefulEnabled' /\ AskInv'
    BY <1>0, <1>1, <1>2, <1>3, <2>1, <2>5, <2>6 DEF CarefulEnabled, AskInv
  <2> QED
    BY <1>1, <2>1, <2>3, CarefulWindow DEF Running
<1>8. CASE selectState
  <2>1. UNCHANGED <<current, configs, config3D, records, deleted, loader, bar, enabled, shown, playing, window3D>>
    BY <1>8 DEF selectState
  <2>2. PICK t \in Sim(shown).types : /\ Click(t \in Sim(shown).steady)
                                     /\ fault' \in PlotFaults(t, shown)
                                     /\ plot' = [type |-> t, step |-> plot.step, shows |-> plot.step]
    BY <1>3, <1>8 DEF selectState
  <2>3. t \in Sim(current).steady /\ plot'.type = t
    BY <1>3, <2>2 DEF Click
  <2>4. fault' = "none"
    BY <1>3, <2>2, <2>3 DEF PlotFaults
  <2>5. CarefulEnabled' /\ AskInv'
    BY <1>0, <1>1, <1>2, <2>1, <2>3 DEF CarefulEnabled, AskInv, Plotted, Configured, Drawable, Sim
  <2> QED
    BY <1>1, <2>1, <2>4, <2>5, CarefulWindow
<1> QED
  BY <1>4, <1>5, <1>6, <1>7, <1>8

LEMMA LoadingBegins ==
    ASSUME TypeInv, ViewInv, Running, careful, CarefulInv,
           selectSimulation \/ newProject \/ loadProject, careful'
    PROVE  CarefulInv'
<1>1. selectSimulation
  BY DEF newProject, loadProject, Click
<1>2. PICK f \in Files, r \in Resolutions : Click(Prepared(f)) /\ file' = f /\ resolution' = r
  BY <1>1 DEF selectSimulation
<1>3. enabled /\ Prepared(f)
  BY <1>2 DEF Click
<1>4. /\ UNCHANGED <<current, configs, records, deleted, posted, plot, bar, playing, window3D, fault>>
      /\ enabled' = FALSE
      /\ loader' \in {"create", "delete"}
  BY <1>1 DEF selectSimulation, recordVars, stepVars
<1>5. posted = "nothing" /\ bar = "idle"
  BY <1>3 DEF ViewInv, LoadInv
<1>6. ~playing' /\ ~window3D' /\ file' # NoFile /\ (configs' = NoConfigs \/ Configured(file)')
  BY <1>2, <1>3, <1>4 DEF Prepared, Configured
<1>7. Plotted(file.steady)'
  BY <1>2, <1>3, <1>4 DEF Prepared, Plotted
<1>8. CarefulLoading'
  BY <1>4, <1>5, <1>6, <1>7 DEF CarefulLoading
<1>9. AskInv'
  BY <1>4, <1>5 DEF AskInv
<1> QED
  BY <1>4, <1>8, <1>9, CarefulThread DEF Running

LEMMA ThreadCareful ==
    ASSUME TypeInv, ViewInv, Running, careful, CarefulInv, Thread
    PROVE  CarefulInv'
<1>1. loader # "idle"
  BY DEF Thread, deleteRecord, clearRecord, createRecord, loadRecord, discardRecord, forgetRecord, LoaderStep
<1>2. ~enabled /\ posted = "nothing" /\ LoadInv
  BY <1>1 DEF ViewInv, LoadInv
<1>3. CarefulLoading /\ AskInv
  BY <1>2 DEF CarefulInv
<1>4. UNCHANGED <<enabled, playing, window3D, bar, plot, fault, file>>
  BY DEF Thread, deleteRecord, clearRecord, createRecord, loadRecord, discardRecord, forgetRecord,
         projectVars, windowVars, stepVars
<1>5. SUFFICES CarefulLoading' /\ AskInv'
  BY <1>2, <1>4, CarefulThread DEF Running
<1>6. CASE deleteRecord
  <2>1. loader' = "clear" /\ deleted' = deleted \union {current} /\ UNCHANGED <<configs, posted, current>>
    BY <1>6 DEF deleteRecord, LoaderStep, projectVars
  <2>2. loader = "delete"
    BY <1>6 DEF deleteRecord, LoaderStep
  <2> QED
    BY <1>2, <1>3, <1>4, <2>1, <2>2 DEF CarefulLoading, AskInv, Plotted, Configured
<1>7. CASE clearRecord
  <2>1. loader = "clear" /\ loader' = "create" /\ UNCHANGED <<configs, posted, deleted>>
    BY <1>7 DEF clearRecord, LoaderStep, recordVars
  <2> QED
    BY <1>2, <1>3, <1>4, <2>1 DEF CarefulLoading, AskInv, Plotted, Configured
<1>8. CASE createRecord
  <2> DEFINE new == [sim |-> IF file = NoFile THEN NoSimulation ELSE file, resolution |-> resolution]
  <2>1. /\ loader = "create" /\ loader' = "load" /\ UNCHANGED <<configs, posted, deleted>>
        /\ current' = Len(records) + 1 /\ records' = Append(records, new)
    BY <1>8 DEF createRecord, LoaderStep
  <2>2. new.sim = file
    BY <1>3 DEF CarefulLoading
  <2> HIDE DEF new
  <2>3. records \in Seq(Record) /\ deleted \subseteq 1 .. Len(records)
    BY DEF TypeInv
  <2>4. Len(records) \in Nat /\ records'[Len(records) + 1] = new
    BY <2>1, <2>3
  <2>5. current' # None /\ current' \notin deleted'
    BY <2>1, <2>3, <2>4 DEF None
  <2>6. Sim(current)' = file'
    BY <1>4, <2>1, <2>2, <2>4 DEF Sim
  <2> QED
    BY <1>2, <1>3, <1>4, <2>1, <2>5, <2>6 DEF CarefulLoading, AskInv, Plotted, Configured
<1>9. CASE loadRecord
  <2>1. loader = "load" /\ file # NoFile
    BY <1>3, <1>9 DEF loadRecord, LoaderStep, CarefulLoading
  <2>2. /\ loader' = "idle" /\ posted' = "loaded" /\ UNCHANGED <<current, deleted, records>>
        /\ checkConfigs(file)
    BY <1>9, <2>1 DEF loadRecord, LoaderStep, recordVars
  <2>3. Configured(file)'
    <3>1. CASE configs = NoConfigs
      BY <1>4, <2>2, <3>1 DEF checkConfigs, Configured
    <3>2. CASE configs # NoConfigs
      BY <1>3, <1>4, <2>1, <2>2, <3>2 DEF checkConfigs, Configured, CarefulLoading
    <3> QED
      BY <3>1, <3>2
  <2> QED
    BY <1>3, <1>4, <2>1, <2>2, <2>3 DEF CarefulLoading, AskInv, Plotted, Configured, Sim
<1>10. ~discardRecord /\ ~forgetRecord
  BY <1>3 DEF discardRecord, forgetRecord, LoaderStep, CarefulLoading
<1> QED
  BY <1>6, <1>7, <1>8, <1>9, <1>10 DEF Thread

LEMMA ProgressCareful ==
    ASSUME TypeInv, ViewInv, Running, careful, CarefulInv, updateProgress \/ askProgress
    PROVE  CarefulInv'
<1>1. UNCHANGED <<current, file, configs, config3D, records, deleted, loader, posted, enabled, playing, window3D, shown, plot>>
  BY DEF updateProgress, askProgress, projectVars, recordVars, loaderVars, windowVars, stepVars
<1>2. AskInv /\ (enabled => CarefulEnabled) /\ (~enabled => CarefulLoading)
  BY DEF CarefulInv
<1>3. (enabled' => CarefulEnabled') /\ (~enabled' => CarefulLoading')
  BY <1>1, <1>2 DEF CarefulEnabled, CarefulLoading, Plotted, Configured, Drawable, Sim
<1>4. CASE updateProgress
  <2>1. current # None /\ fault' = fault
    BY <1>4 DEF updateProgress
  <2>2. AskInv'
    BY <1>1, <1>2, <2>1 DEF AskInv
  <2> QED
    BY <1>3, <2>1, <2>2 DEF CarefulInv, Running
<1>5. CASE askProgress
  <2>1. /\ bar = "asks" /\ bar' = "idle"
        /\ fault' = IF Missing(current) THEN "progress of a missing record" ELSE "none"
    BY <1>5 DEF askProgress
  <2>2. AskInv'
    BY <1>1, <1>2, <2>1 DEF AskInv
  <2>3. Missing(current) => deleted # {}
    BY <1>2, <2>1 DEF Missing, AskInv
  <2> QED
    BY <1>1, <1>3, <2>1, <2>2, <2>3 DEF CarefulInv, Running
<1> QED
  BY <1>4, <1>5

LEMMA LoadingFinished ==
    ASSUME TypeInv, ViewInv, Running, careful, CarefulInv, loadSimulationFinished
    PROVE  CarefulInv'
<1>1. /\ UNCHANGED <<current, file, configs, config3D, records, deleted, loader, playing, window3D, bar>>
      /\ posted # "nothing" /\ enabled' = TRUE /\ shown' = current
  BY DEF loadSimulationFinished, Taken, projectVars, recordVars
<1>2. ~enabled
  BY <1>1 DEF ViewInv, LoadInv
<1>3. /\ CarefulLoading /\ AskInv
  BY <1>2 DEF CarefulInv
<1>4. /\ current # None /\ current \notin deleted /\ Configured(Sim(current))
      /\ Plotted(Sim(current).steady) /\ ~playing /\ ~window3D
  BY <1>1, <1>3 DEF CarefulLoading
<1>5. ~Missing(current)
  BY <1>4 DEF Missing
<1> DEFINE b == BoxOf(current)
           p == [plot EXCEPT !.shows = -1]
<1>6. SetBox(b, 0, p, current, "none")
  BY <1>5 DEF loadSimulationFinished, Taken
<1>7. current \in 1 .. Len(records) /\ NumSteps(current) \in Nat
  BY <1>5, RecordValues DEF TypeInv
<1>8. b \in [value : Nat, max : Nat]
  BY <1>7 DEF TypeInv, BoxOf
<1>9. p \in Plot /\ p.type = plot.type
  BY DEF TypeInv, Plot
<1> HIDE DEF b, p
<1>10. PlotFaults(p.type, current) = {"none"}
  <2>1. Sim(current).steady \subseteq Sim(current).types
    BY <1>5, <1>7, SteadyTypes
  <2> QED
    BY <1>4, <1>5, <1>9, <2>1 DEF PlotFaults, Plotted
<1>11. /\ viewedStep' \in Nat
       /\ (box'.value = b.value => plot' = p /\ fault' = "none")
       /\ (box'.value # b.value =>
            \E bad \in PlotFaults(p.type, current) :
               /\ (bad # "none" => fault' = bad /\ plot' = p)
               /\ (bad = "none" => fault' = "none" /\ plot' = StepChanged(p, viewedStep', current)))
  BY <1>6, <1>7, <1>8, <1>9, SetBoxValues
<1>12. StepChanged(p, viewedStep', current).type = p.type
  BY <1>7, <1>9, <1>10, <1>11, StepChangedValues
<1>13. fault' = "none" /\ plot'.type = plot.type
  BY <1>9, <1>10, <1>11, <1>12
<1>14. CarefulEnabled' /\ AskInv'
  BY <1>1, <1>3, <1>4, <1>13 DEF CarefulEnabled, AskInv, Plotted, Configured, Drawable, Sim
<1> QED
  BY <1>1, <1>13, <1>14, CarefulWindow

LEMMA NextCareful == TypeInv /\ ViewInv /\ CarefulInv /\ [Next]_vars => CarefulInv'
<1> SUFFICES ASSUME TypeInv, ViewInv, CarefulInv, [Next]_vars, careful'
             PROVE  CarefulInv'
  BY DEF CarefulInv
<1>1. CASE UNCHANGED vars
  BY <1>1 DEF vars, projectVars, recordVars, loaderVars, windowVars, stepVars, userVars,
      CarefulInv, CarefulEnabled, CarefulLoading, AskInv, Plotted, Configured, Drawable, Running, Sim
<1>2. CASE EventLoop \/ Thread
  <2>1. Running
    BY <1>2 DEF EventLoop, Thread, goTo, previousStep, nextOrFinalStep, play, selectState, show3DWindow,
        configured3D, selectSimulation, newProject, loadProject, updatePlay, paint, updateProgress, askProgress,
        loadSimulationFinished, deleteRecord, clearRecord, createRecord, loadRecord, discardRecord,
        forgetRecord, LoaderStep, Click, Free, Running
  <2>2. careful
    <3>1. ASSUME NEW care \in BOOLEAN, Click(care) PROVE careful
      BY <3>1 DEF Click, TypeInv
    <3>2. CASE goTo \/ previousStep \/ nextOrFinalStep \/ play
      BY <3>1, <3>2 DEF goTo, previousStep, nextOrFinalStep, play
    <3>6. CASE selectState \/ show3DWindow \/ configured3D
      BY <3>6 DEF selectState, show3DWindow, configured3D, Click, TypeInv
    <3>3. CASE newProject \/ loadProject
      BY <3>1, <3>3 DEF newProject, loadProject
    <3>4. CASE selectSimulation
      BY <3>4 DEF selectSimulation, Click, TypeInv
    <3>5. CASE updatePlay \/ paint \/ updateProgress \/ askProgress \/ loadSimulationFinished \/ Thread
      BY <3>5 DEF updatePlay, paint, updateProgress, askProgress, loadSimulationFinished, Thread,
          deleteRecord, clearRecord, createRecord, loadRecord, discardRecord, forgetRecord, userVars
    <3> QED
      BY <1>2, <3>2, <3>3, <3>4, <3>5, <3>6 DEF EventLoop
  <2> QED
    BY <1>2, <2>1, <2>2, StepActionsCareful, WindowActionsCareful, LoadingBegins, ThreadCareful,
       ProgressCareful, LoadingFinished DEF EventLoop
<1> QED
  BY <1>1, <1>2 DEF Next, Idle

(* A user who takes care, as the module says, sees the program fail only   *)
(* where the progress bar asks a record that was deleted before: neither   *)
(* painting nor the plots, playback or the buttons do, at any point of a   *)
(* load.                                                                   *)
THEOREM CarefulUserIsSafe == Spec => []OnlyProgressFails
<1>1. CarefulInv => OnlyProgressFails
  BY DEF CarefulInv, OnlyProgressFails
<1> QED
  BY <1>1, InitView, NextView, InitCareful, NextCareful, PTL DEF Spec
=============================================================================
