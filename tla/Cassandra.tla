----------------------------- MODULE Cassandra ------------------------------
(***************************************************************************)
(* cassandra/MainWindow.cxx and what it drives: the program that loads and *)
(* replays a recorded simulation.                                          *)
(*                                                                         *)
(* A simulation is loaded by a thread of its own (LoadSimulationThread),   *)
(* which replaces the SimulationRecord that ProjectConfiguration holds     *)
(* while the window is disabled and a timer updates the progress bar.  The *)
(* displays keep a pointer to the record of the last adjustGUI.  Playback  *)
(* is another timer, and the step that is viewed goes through a QSpinBox.  *)
(*                                                                         *)
(* Actions are what the event loop or the thread does without interruption *)
(* by the other one.  What the program may do when it dereferences null,   *)
(* uses a deleted record or lets an exception out of a slot is left open:  *)
(* fault says where that was, and the model stops there.                   *)
(***************************************************************************)
EXTENDS Integers, FiniteSets, Sequences

CONSTANTS
    Simulations,    \* recorded simulations
    Types,          \* of agents
    Rasters,        \* names of static and dynamic rasters
    NoFile,         \* a file that is no simulation
    Files,          \* what the user may select
    Resolutions,    \* of a record
    Projects,       \* what project files hold
    MaxLoads,       \* bound on the number of records
    MaxClicks       \* bound on the number of things the user does

\* The agents of a steady type exist in every step, one of them at least.
Simulation ==
    [numSteps : Nat, types : SUBSET Types, steady : SUBSET Types, rasters : SUBSET Rasters]

ASSUME SimulationsAssumption ==
    Simulations \subseteq Simulation /\ \A s \in Simulations : s.steady \subseteq s.types

\* StepDataPlot takes the name for no type at all.
ASSUME UnknownAssumption == "unknown" \notin Types

ASSUME ChoicesAssumption ==
    /\ NoFile \notin Simulations /\ Files \subseteq Simulations \union {NoFile}
    /\ Resolutions \subseteq Nat \ {0}
    /\ Projects \subseteq [file : Files, resolution : Resolutions,
                           types : SUBSET Types, rasters : SUBSET Rasters]
    /\ MaxLoads \in Nat /\ MaxClicks \in Nat

\* What a file that is no simulation holds
NoSimulation == [numSteps |-> 0, types |-> {}, steady |-> {}, rasters |-> {}]

\* What is left when a file is no project
NoProject == [file |-> NoFile, resolution |-> 1, types |-> {}, rasters |-> {}]

NoConfigs == [types |-> {}, rasters |-> {}]

None == 0   \* no record, or nothing to show

VARIABLES
    (* ProjectConfiguration *)
    current,        \* _simulationRecord
    file,           \* _simulationFileName
    resolution,     \* _resolution
    configs,        \* what is in _agentsConfig and _rastersConfig
    config3D,       \* _config3D: its list of rasters, _dem and _color
    (* SimulationRecord *)
    records,        \* every record made so far: what it loads, its resolution
    deleted,        \* the records that were deleted
    (* LoadSimulationThread *)
    loader,         \* what it does next
    posted,         \* simulationLoaded on its way to the event loop
    (* MainWindow and its widgets *)
    enabled,        \* it reacts to the user and paints
    bar,            \* where LoadingProgressBar::updateProgress is
    box,            \* value and maximum of _stepBox
    viewedStep,     \* _viewedStep
    playing,        \* _playTimer is active
    window3D,       \* the 3D window, which is never disabled, is visible
    (* displays *)
    shown,          \* _simulationRecord of all displays and lists
    step2D, step3D, \* _viewedStep of Display2D and Display3D
    plot,           \* StepDataPlot: _type and _state, _step, what it shows
    fault,
    (* the user *)
    careful,        \* until now: pauses and hides the 3D window before loading,
                    \* loads only simulations with types and rasters that are
                    \* configured, if anything is, plots only types that are
                    \* steady, and so in the next simulation, shows in 3D only
                    \* rasters of the record, and starts or opens no other
                    \* project
    clicks

projectVars == <<current, file, resolution, configs, config3D>>
recordVars  == <<records, deleted>>
loaderVars  == <<loader, posted>>
stepVars    == <<box, viewedStep, step2D, step3D, plot>>
windowVars  == <<enabled, playing, window3D, shown>>
userVars    == <<careful, clicks>>
vars == <<projectVars, recordVars, loaderVars, windowVars, bar, stepVars, fault, userVars>>

----------------------------------------------------------------------------
Ids == 1 .. MaxLoads

Lesser(a, b) == IF a < b THEN a ELSE b

Missing(r) == r = None \/ r \in deleted

Sim(r) == records[r].sim

NumSteps(r) == Sim(r).numSteps

\* The last step that a record has
LastStep(r) == NumSteps(r) - (NumSteps(r) % records[r].resolution)

\* The event loop is free to deliver an event, and the program still runs.
Free == fault = "none" /\ bar = "idle"

\* The user does something that is not disabled, with or without care.
Click(care) ==
    /\ Free /\ enabled /\ clicks < MaxClicks
    /\ clicks' = clicks + 1
    /\ careful' = (careful /\ care)

Init ==
    /\ current = None /\ file = NoFile /\ resolution = 1
    /\ configs = NoConfigs /\ config3D = [rasters |-> {}, dem |-> "unknown", color |-> "unknown"]
    /\ records = <<>> /\ deleted = {}
    /\ loader = "idle" /\ posted = "nothing"
    /\ enabled = TRUE /\ bar = "idle"
    /\ box = [value |-> 0, max |-> 99] /\ viewedStep = 0
    /\ playing = FALSE /\ window3D = FALSE
    /\ shown = None /\ step2D = 0 /\ step3D = 0
    /\ plot = [type |-> "unknown", step |-> 0, shows |-> -1]
    /\ fault = "none" /\ careful = TRUE /\ clicks = 0

----------------------------------------------------------------------------
(* The step that is viewed *)

\* viewedStepChanged
Rounded(v) == v - (v % resolution)

\* StepDataPlot::updateData of type t on record r.  Without agents the bins of the
\* histogram get a size that is no size; at which steps a type that is not steady
\* has none is left open.
PlotFaults(t, r) ==
    IF t = "unknown" THEN {"none"}
    ELSE IF Missing(r) THEN {"plot of a deleted record"}
    ELSE IF t \notin Sim(r).types THEN {"plot of an unknown type"}
    ELSE IF t \notin Sim(r).steady THEN {"none", "plot without agents"} ELSE {"none"}

\* StepDataPlot::stepChanged.  Without a state nothing happens, not even to _step.
StepChanged(p, step, r) ==
    IF p.type = "unknown" THEN p
    ELSE LET k == step \div records[r].resolution IN [type |-> p.type, step |-> k, shows |-> k]

\* QSpinBox::setValue(v) on a box b, which clamps v, and what valueChanged and
\* newViewedStep do to the displays of record r when the value changes.  next
\* is the fault that follows otherwise.
SetBox(b, v, p, r, next) ==
    LET new == IF v < 0 THEN 0 ELSE Lesser(v, b.max)
        now == IF new = b.value THEN viewedStep ELSE Rounded(new)
    IN  /\ box' = [b EXCEPT !.value = new]
        /\ viewedStep' = now
        /\ step3D' = IF new = b.value THEN step3D ELSE now
        /\ \E bad \in IF new = b.value THEN {"none"} ELSE PlotFaults(p.type, r) :
               /\ fault' = IF bad # "none" THEN bad ELSE next
               /\ plot' = IF new = b.value \/ bad # "none" THEN p ELSE StepChanged(p, now, r)

\* Display2D is told of the same steps as the window.
View(v, next) == SetBox(box, v, plot, shown, next) /\ step2D' = viewedStep'

\* firstStep and editing the box
goTo ==
    /\ Click(TRUE) /\ shown # None
    /\ \E v \in 0 .. box.max : View(v, "none")
    /\ UNCHANGED <<projectVars, recordVars, loaderVars, windowVars, bar>>

previousStep ==
    /\ Click(TRUE) /\ shown # None /\ viewedStep > 0
    /\ View(viewedStep - resolution, "none")
    /\ UNCHANGED <<projectVars, recordVars, loaderVars, windowVars, bar>>

\* nextStep and finalStep ask the current record for its length.
nextOrFinalStep ==
    /\ Click(TRUE) /\ shown # None
    /\ IF Missing(current) THEN fault' = "step of a missing record" /\ UNCHANGED stepVars
       ELSE \/ viewedStep < NumSteps(current) /\ View(viewedStep + resolution, "none")
            \/ View(NumSteps(current), "none")
    /\ UNCHANGED <<projectVars, recordVars, loaderVars, windowVars, bar>>

play ==
    /\ Click(TRUE) /\ shown # None
    /\ playing' = ~playing
    /\ UNCHANGED <<projectVars, recordVars, loaderVars, enabled, window3D, shown, bar, stepVars,
                   fault>>

\* Mutation of Over: one step early, one step late
OverEarly(viewed, steps) == viewed + resolution >= steps
OverLate(viewed, steps)  == viewed > steps

Over(viewed, steps) == viewed >= steps

\* The play timer, which runs even while the window is disabled.  A record
\* that is being loaded may not know its length yet.
updatePlay ==
    /\ Free /\ playing
    /\ View(viewedStep + resolution, IF Missing(current) THEN "play of a missing record" ELSE "none")
    /\ IF Missing(current) THEN UNCHANGED playing
       ELSE \E steps \in IF loader = "load" THEN {0, NumSteps(current)} ELSE {NumSteps(current)} :
                playing' = ~Over(viewedStep', steps)
    /\ UNCHANGED <<projectVars, recordVars, loaderVars, enabled, window3D, shown, bar, userVars>>

----------------------------------------------------------------------------
(* Statistics, the 3D window and painting *)

\* typeSelected and stateSelected of the two lists, calculateStatistics.  The
\* histogram is of the step it was last told of.
selectState ==
    /\ shown # None
    /\ IF Missing(shown) THEN Click(TRUE) /\ fault' = "plot of a deleted record" /\ UNCHANGED plot
       ELSE \E t \in Sim(shown).types :
                /\ Click(t \in Sim(shown).steady)
                /\ fault' \in PlotFaults(t, shown)
                /\ plot' = [type |-> t, step |-> plot.step, shows |-> plot.step]
    /\ UNCHANGED <<projectVars, recordVars, loaderVars, windowVars, bar,
                   box, viewedStep, step2D, step3D>>

Configured(sim) == sim.types \subseteq configs.types /\ sim.rasters \subseteq configs.rasters

\* A 3D window with rasters c has all that it asks of a simulation, which is
\* nothing if the simulation has no rasters.
Drawable(c, sim) == sim.rasters = {} \/ {c.dem, c.color} \subseteq sim.rasters

show3DWindow ==
    /\ shown # None
    /\ Click(window3D \/ Drawable(config3D, Sim(shown)))
    /\ window3D' = ~window3D
    /\ UNCHANGED <<projectVars, recordVars, loaderVars, enabled, playing, shown, bar, stepVars,
                   fault>>

\* Configurator3D, which offers the rasters of its list and no name at all when
\* that is empty; configured3D.
configured3D ==
    /\ shown # None
    /\ \E dem, color \in IF config3D.rasters = {} THEN {"unknown"} ELSE config3D.rasters :
           /\ config3D' = [config3D EXCEPT !.dem = dem, !.color = color]
           /\ Click(window3D => Drawable(config3D', Sim(shown)))
    /\ UNCHANGED <<current, file, resolution, configs, recordVars, loaderVars, windowVars,
                   bar, stepVars, fault>>

\* Display2D::paintEvent, unless updates are disabled.  It asks for the
\* configuration of the rasters, as far as one lets the next one through, and of
\* the types, unless agents are hidden.
paintEvent ==
    /\ enabled
    /\ \/ Missing(shown) /\ fault' = "painting of a deleted record"
       \/ ~Missing(shown) /\ ~Configured(Sim(shown)) /\ fault' = "no configuration"

\* Display3D::paintGL: nothing without rasters to select.
paintGL ==
    /\ window3D /\ Sim(shown).rasters # {}
    /\ \/ Missing(shown) /\ fault' = "painting of a deleted record"
       \/ /\ ~Missing(shown)
          /\ \/ ~Drawable(config3D, Sim(shown)) /\ fault' = "no such raster"
             \/ /\ config3D.color \notin configs.rasters \/ ~(Sim(shown).types \subseteq configs.types)
                /\ fault' = "no configuration"

paint ==
    /\ Free /\ shown # None
    /\ paintEvent \/ paintGL
    /\ UNCHANGED <<projectVars, recordVars, loaderVars, windowVars, bar, stepVars, userVars>>

----------------------------------------------------------------------------
(* Loading *)

\* f can be loaded without harm
Prepared(f) ==
    /\ ~playing /\ ~window3D
    /\ f # NoFile /\ (configs = NoConfigs \/ Configured(f))
    /\ plot.type # "unknown" => plot.type \in f.steady

\* selectSimulation disables the window and starts the thread and its timer.
selectSimulation ==
    /\ loader = "idle" /\ Len(records) < MaxLoads
    /\ \E f \in Files, r \in Resolutions : Click(Prepared(f)) /\ file' = f /\ resolution' = r
    /\ enabled' = FALSE
    /\ loader' = IF current = None THEN "create" ELSE "delete"
    /\ UNCHANGED <<current, configs, config3D, recordVars, posted, playing, window3D, shown, bar,
                   stepVars, fault>>

\* newProject: ProjectConfiguration::reset, which leaves _config3D as it is.  The
\* displays are not told.
newProject ==
    /\ Click(FALSE)
    /\ deleted' = deleted \union ({current} \ {None})
    /\ current' = None /\ file' = NoFile /\ resolution' = 1 /\ configs' = NoConfigs
    /\ UNCHANGED <<config3D, records, loaderVars, windowVars, bar, stepVars, fault>>

\* Configuration3D::setRastersList: both rasters are the first of the list.
setRastersList(names) ==
    \E first \in IF names = {} THEN {"unknown"} ELSE names :
        config3D' = [rasters |-> names, dem |-> first, color |-> first]

\* loadProject: reset, and adjustGUI without a record, whose size Display2D
\* asks for.
loadProject ==
    /\ Click(FALSE)
    /\ deleted' = deleted \union ({current} \ {None})
    /\ current' = None
    /\ \E p \in Projects \union {NoProject} :
           /\ file' = p.file /\ resolution' = p.resolution
           /\ configs' = [types |-> p.types, rasters |-> p.rasters]
           /\ IF p = NoProject THEN UNCHANGED config3D ELSE setRastersList(p.rasters)
    /\ enabled' = FALSE /\ shown' = None
    /\ fault' = "no record to display"
    /\ UNCHANGED <<records, loaderVars, playing, window3D, bar, stepVars>>

\* The steps of ProjectConfiguration::loadSimulation in the thread
LoaderStep(at, next) == fault = "none" /\ loader = at /\ loader' = next

deleteRecord ==
    /\ LoaderStep("delete", "clear")
    /\ deleted' = deleted \union {current}
    /\ UNCHANGED <<projectVars, records, posted, windowVars, bar, stepVars, fault, userVars>>

clearRecord ==
    /\ LoaderStep("clear", "create")
    /\ current' = None
    /\ UNCHANGED <<file, resolution, configs, config3D, recordVars, posted, windowVars, bar,
                   stepVars, fault, userVars>>

createRecord ==
    /\ LoaderStep("create", "load")
    /\ current' = Len(records) + 1
    /\ records' = Append(records, [sim        |-> IF file = NoFile THEN NoSimulation ELSE file,
                                    resolution |-> resolution])
    /\ UNCHANGED <<file, resolution, configs, config3D, deleted, posted, windowVars, bar,
                   stepVars, fault, userVars>>

\* Mutation of checkConfigs: no defaults for rasters
checkConfigsOfTypes(sim) ==
    /\ configs' = IF configs = NoConfigs THEN [configs EXCEPT !.types = sim.types] ELSE configs
    /\ UNCHANGED config3D

\* checkConfigs: defaults for every type and raster, if there is no configuration
\* yet, of either kind
checkConfigs(sim) ==
    IF configs = NoConfigs
    THEN configs' = [types |-> sim.types, rasters |-> sim.rasters] /\ setRastersList(sim.rasters)
    ELSE UNCHANGED <<configs, config3D>>

\* Mutation of loadRecord: nothing is emitted when there are configurations
loadRecordUnreported ==
    /\ \/ /\ file # NoFile
          /\ LoaderStep("load", "idle") /\ posted' = IF configs = NoConfigs THEN "loaded" ELSE posted
          /\ checkConfigs(file)
       \/ /\ file = NoFile
          /\ LoaderStep("load", "discard")
          /\ UNCHANGED <<posted, configs, config3D>>
    /\ UNCHANGED <<current, file, resolution, recordVars, windowVars, bar, stepVars, fault,
                   userVars>>

loadRecord ==
    /\ \/ /\ file # NoFile
          /\ LoaderStep("load", "idle") /\ posted' = "loaded"
          /\ checkConfigs(file)
       \/ /\ file = NoFile
          /\ LoaderStep("load", "discard")
          /\ UNCHANGED <<posted, configs, config3D>>
    /\ UNCHANGED <<current, file, resolution, recordVars, windowVars, bar, stepVars, fault,
                   userVars>>

discardRecord ==
    /\ LoaderStep("discard", "forget")
    /\ deleted' = deleted \union {current}
    /\ UNCHANGED <<projectVars, records, posted, windowVars, bar, stepVars, fault, userVars>>

forgetRecord ==
    /\ LoaderStep("forget", "idle")
    /\ current' = None /\ posted' = "failed"
    /\ UNCHANGED <<file, resolution, configs, config3D, recordVars, windowVars, bar, stepVars,
                   fault, userVars>>

\* LoadingProgressBar::updateProgress, by a timer while loading: the record is
\* looked for, and then asked.
updateProgress ==
    /\ Free /\ ~enabled /\ current # None
    /\ bar' = "asks"
    /\ UNCHANGED <<projectVars, recordVars, loaderVars, windowVars, stepVars, fault, userVars>>

askProgress ==
    /\ fault = "none" /\ bar = "asks"
    /\ bar' = "idle"
    /\ fault' = IF Missing(current) THEN "progress of a missing record" ELSE "none"
    /\ UNCHANGED <<projectVars, recordVars, loaderVars, windowVars, stepVars, userVars>>

\* Mutation of BoxOf: the range of the box stays as it was
BoxOfOld(r) == box

\* adjustGUI: the range of the box follows the record.
BoxOf(r) == [box EXCEPT !.max = NumSteps(r)]

\* setSimulationRecord of every display
Taken == current

\* loadSimulationFinished and adjustGUI.  All displays take the record before
\* the box goes to 0; the box gets its range afterwards.
loadSimulationFinished ==
    /\ Free /\ posted # "nothing"
    /\ posted' = "nothing" /\ enabled' = TRUE /\ shown' = Taken
    /\ IF Missing(current)
       THEN fault' = "no record to display" /\ UNCHANGED stepVars
       ELSE /\ SetBox(BoxOf(current), 0, [plot EXCEPT !.shows = -1], Taken, "none")
            /\ step2D' = 0
    /\ UNCHANGED <<projectVars, recordVars, loader, playing, window3D, bar, userVars>>

----------------------------------------------------------------------------
\* The user is done, or the program crashed.
Idle ==
    /\ fault # "none" \/ (clicks = MaxClicks /\ enabled /\ ~playing)
    /\ UNCHANGED vars

EventLoop ==
    \/ goTo \/ previousStep \/ nextOrFinalStep \/ play \/ selectState \/ show3DWindow \/ configured3D
    \/ selectSimulation \/ newProject \/ loadProject
    \/ updatePlay \/ paint \/ updateProgress \/ askProgress \/ loadSimulationFinished

Thread == deleteRecord \/ clearRecord \/ createRecord \/ loadRecord \/ discardRecord \/ forgetRecord

Next == EventLoop \/ Thread \/ Idle

Spec == Init /\ [][Next]_vars

\* The scheduler runs the thread; the event loop delivers the timeouts of the
\* play timer, ends what it began and delivers a posted signal, however often
\* the progress bar is updated.
FairSpec ==
    /\ Spec
    /\ WF_vars(Thread) /\ WF_vars(updatePlay) /\ WF_vars(askProgress)
    /\ SF_vars(loadSimulationFinished)

----------------------------------------------------------------------------
(* Properties *)

Running == fault = "none"

\* All displays show the step of the window, although Display2D goes back to 0
\* on its own when it gets a record and Display3D does not, and that step and
\* the slot of the histogram exist in the record that is displayed: the box
\* clamps to the last step of the simulation, the record holds only multiples
\* of its resolution (viewedStepChanged, setSimulationRecord of Display2D.cxx).
\* Whatever the user does.
ViewedStepExists ==
    (Running /\ enabled /\ ~Missing(shown)) =>
        LET last == LastStep(shown) IN
        /\ step2D = viewedStep /\ step3D = viewedStep
        /\ viewedStep <= last /\ viewedStep % records[shown].resolution = 0
        /\ {plot.step, plot.shows} \subseteq -1 .. last \div records[shown].resolution

\* Nothing that a careful user and the timers do between and during the steps
\* of the thread makes the window use a record that is not there, or ask for a
\* type or raster that the record or the configurations do not have, which throws.
\* Only the progress bar may fail: it may ask a record between its deletion and
\* the next one, so not while there was none before.
OnlyProgressFails ==
    careful => fault = "none" \/ (fault = "progress of a missing record" /\ deleted # {})

\* A window that was disabled for loading reacts again with displays that have
\* the current record, unless it crashed (loadSimulationFinished).
LoadingEnds == ~enabled ~> ((enabled /\ shown = current) \/ ~Running)

Untouched == careful /\ clicks = MaxClicks

\* Playback that is left alone gets to the last step of the record.
PlayReachesEnd == (playing /\ Untouched) ~> (shown # None /\ viewedStep = LastStep(shown))

\* It stops there when the resolution divides the number of steps.
PlayStops ==
    (playing /\ Untouched /\ NumSteps(shown) % records[shown].resolution = 0) ~> ~playing
=============================================================================
