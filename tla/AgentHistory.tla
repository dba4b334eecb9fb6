---------------------------- MODULE AgentHistory ----------------------------
(***************************************************************************)
(* What the file of a world promises: the agents of each type at each      *)
(* step, each with all its attributes, in the order in which they were     *)
(* serialized.  A step that is over never changes again.                   *)
(***************************************************************************)
EXTENDS Naturals, Sequences

CONSTANTS Types, Attributes, Value, NumSteps

VARIABLES
    step,       \* the step that is being recorded
    recorded    \* the agents recorded for each type and step

vars == <<step, recorded>>

Steps == 0 .. NumSteps

Row == [Attributes -> Value]

Init ==
    /\ step = 0
    /\ recorded = [t \in Types |-> [k \in Steps |-> <<>>]]

\* One agent more in the current step
Record(t, row) ==
    /\ step \in Steps
    /\ recorded' = [recorded EXCEPT ![t][step] = Append(@, row)]
    /\ UNCHANGED step

NextStep ==
    /\ step \in Steps
    /\ step' = step + 1
    /\ UNCHANGED recorded

Next == NextStep \/ \E t \in Types, row \in Row : Record(t, row)

Spec == Init /\ [][Next]_vars
=============================================================================
