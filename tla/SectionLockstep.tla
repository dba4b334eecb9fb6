-------------------------- MODULE SectionLockstep --------------------------
(***************************************************************************)
(* The order that World::step imposes on the worlds, without the agents.   *)
(*                                                                         *)
(* The barrier at the end of the section loop is commented out in the      *)
(* code, so nothing but the messages stops a world from running ahead.  A  *)
(* round is one section of one step: rounds 4k to 4k + 3 are the sections  *)
(* 0 to 3 of step k.  In each round a world sends one list of agents to    *)
(* every neighbour, waits for the list of every neighbour, sends ghosts to *)
(* some of its neighbours, and waits for the ghosts of some others.        *)
(***************************************************************************)
EXTENDS WorldGeometry

CONSTANT NumRounds      \* four per step

ASSUME NumRoundsAssumption == NumRounds \in Nat

VARIABLES
    round,          \* the section each world is in, counted from the start
    phase,          \* how far it is in that section
    agentMail,      \* lists of agents sent and not yet received, per channel
    ghostMail       \* lists of ghosts sent and not yet received, per channel

vars == <<round, phase, agentMail, ghostMail>>

Channels == {c \in Worlds \X Worlds : c[2] \in Neighbors(c[1])}

Phases == {"run", "awaitAgents", "sendGhosts", "awaitGhosts"}

TypeOK ==
    /\ round \in [Worlds -> 0 .. NumRounds]
    /\ phase \in [Worlds -> Phases]
    /\ agentMail \in [Channels -> Nat]
    /\ ghostMail \in [Channels -> Nat]

SectionOf(w) == round[w] % 4

----------------------------------------------------------------------------

Init ==
    /\ round = [w \in Worlds |-> 0]
    /\ phase = [w \in Worlds |-> "run"]
    /\ agentMail = [c \in Channels |-> 0]
    /\ ghostMail = [c \in Channels |-> 0]

Send(mail, w, targets) ==
    [c \in Channels |-> IF c[1] = w /\ c[2] \in targets THEN mail[c] + 1 ELSE mail[c]]

Receive(mail, w, sources) ==
    [c \in Channels |-> IF c[2] = w /\ c[1] \in sources THEN mail[c] - 1 ELSE mail[c]]

\* Mutation of Arrived: the list of any one sender is enough.
ArrivedAny(mail, w, sources) == \E v \in sources : mail[<<v, w>>] > 0

Arrived(mail, w, sources) == \A v \in sources : mail[<<v, w>>] > 0

\* stepSection, which ends with sendAgents
Run(w) ==
    /\ phase[w] = "run"
    /\ round[w] < NumRounds
    /\ agentMail' = Send(agentMail, w, Neighbors(w))
    /\ phase' = [phase EXCEPT ![w] = "awaitAgents"]
    /\ UNCHANGED <<round, ghostMail>>

\* receiveAgents
ReceiveAgents(w) ==
    /\ phase[w] = "awaitAgents"
    /\ Arrived(agentMail, w, Neighbors(w))
    /\ agentMail' = Receive(agentMail, w, Neighbors(w))
    /\ phase' = [phase EXCEPT ![w] = "sendGhosts"]
    /\ UNCHANGED <<round, ghostMail>>

\* Mutation of SendGhosts: ghosts for all neighbours in every section.
SendGhostsToAll(w) ==
    /\ phase[w] = "sendGhosts"
    /\ ghostMail' = Send(ghostMail, w, Neighbors(w))
    /\ phase' = [phase EXCEPT ![w] = "awaitGhosts"]
    /\ UNCHANGED <<round, agentMail>>

\* sendGhostAgents
SendGhosts(w) ==
    /\ phase[w] = "sendGhosts"
    /\ ghostMail' = Send(ghostMail, w, SendTo(w, SectionOf(w)))
    /\ phase' = [phase EXCEPT ![w] = "awaitGhosts"]
    /\ UNCHANGED <<round, agentMail>>

\* receiveGhostAgents, the end of the body of the section loop
ReceiveGhosts(w) ==
    /\ phase[w] = "awaitGhosts"
    /\ Arrived(ghostMail, w, ReceiveFrom(w, SectionOf(w)))
    /\ ghostMail' = Receive(ghostMail, w, ReceiveFrom(w, SectionOf(w)))
    /\ phase' = [phase EXCEPT ![w] = "run"]
    /\ round' = [round EXCEPT ![w] = @ + 1]
    /\ UNCHANGED agentMail

WorldStep(w) == Run(w) \/ ReceiveAgents(w) \/ SendGhosts(w) \/ ReceiveGhosts(w)

Finished == (\A w \in Worlds : round[w] = NumRounds) /\ UNCHANGED vars

Next == (\E w \in Worlds : WorldStep(w)) \/ Finished

Spec == Init /\ [][Next]_vars

FairSpec == Spec /\ \A w \in Worlds : WF_vars(WorldStep(w))

----------------------------------------------------------------------------
(* Properties *)

(* Neighbours are never more than one section apart, although no barrier   *)
(* separates the sections, and a world that runs a section does so while   *)
(* no neighbour runs another one.                                          *)
Lockstep ==
    \A c \in Channels :
        /\ round[c[1]] =< round[c[2]] + 1
        /\ phase[c[1]] = "run" /\ round[c[1]] > round[c[2]]
               => phase[c[2]] # "run"

(* What MPI has to buffer is bounded: a world is at most one list of       *)
(* agents ahead of the one its neighbour waits for, and never sends it new *)
(* ghosts while the neighbour has ghosts of an earlier section to read.    *)
MailIsBounded ==
    \A c \in Channels : agentMail[c] =< 2 /\ ghostMail[c] =< 1

(* The receives of the last section match the sends: when all worlds are   *)
(* done nothing is left unread.                                            *)
NothingUnread ==
    (\A w \in Worlds : round[w] = NumRounds /\ phase[w] = "run")
        => \A c \in Channels : agentMail[c] = 0 /\ ghostMail[c] = 0

(* Every world gets through all the sections of all steps.                 *)
AllFinish == <>(\A w \in Worlds : round[w] = NumRounds)

----------------------------------------------------------------------------
(* The inductive invariant: what each channel holds, from the progress of  *)
(* its two ends.                                                           *)

SentAgents(w)     == IF phase[w] = "run" THEN round[w] ELSE round[w] + 1
ReceivedAgents(w) == IF phase[w] \in {"run", "awaitAgents"} THEN round[w] ELSE round[w] + 1

AgentMailInv ==
    \A c \in Channels :
        /\ agentMail[c] = SentAgents(c[1]) - ReceivedAgents(c[2])
        /\ ReceivedAgents(c[2]) =< SentAgents(c[1])

\* w has ghosts for v in the section that world u is in.
Wants(w, v, u) == v \in SendTo(w, SectionOf(u))

GhostMailInv ==
    \A c \in Channels :
        LET w == c[1]
            v == c[2]
        IN  /\ round[w] = round[v] =>
                 ghostMail[c] = IF phase[w] = "awaitGhosts" /\ Wants(w, v, w) THEN 1 ELSE 0
            /\ round[w] = round[v] + 1 =>
                 ghostMail[c] = IF Wants(w, v, v) THEN 1 ELSE 0
            /\ round[w] + 1 = round[v] =>
                 /\ ghostMail[c] = 0
                 /\ phase[w] # "awaitGhosts" => ~Wants(w, v, w)

\* A world that has begun a section is not at the end of the simulation.
BegunInv == \A w \in Worlds : phase[w] # "run" => round[w] < NumRounds

ExchangeInv == TypeOK /\ BegunInv /\ AgentMailInv /\ GhostMailInv
=============================================================================
