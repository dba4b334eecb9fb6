---------------------------- MODULE MCSerializer ----------------------------
(* Lists of agents for Serializer, for TLC. *)
EXTENDS Serializer

CONSTANTS walker, farmer

\* Agents that differ in all attributes, so that a shifted one shows.
Numbered(n) == [a \in Attributes |-> n]

\* Up to three walkers and two farmers, of whom one may have died.
MCPopulations ==
    {<<>>} \union
    {[i \in 1 .. n |-> [type |-> IF i \in farmers THEN farmer ELSE walker,
                        exists |-> i # dead, row |-> Numbered(i)]] :
        n \in 1 .. 4, farmers \in {{}, {2}, {1, 3}}, dead \in {0, 1, 2}}
=============================================================================
