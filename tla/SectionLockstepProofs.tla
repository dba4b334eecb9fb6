----------------------- MODULE SectionLockstepProofs -----------------------
(***************************************************************************)
(* Proofs about the order of the sections (module SectionLockstep), for    *)
(* every number of worlds and of rounds.                                   *)
(***************************************************************************)
EXTENDS SectionLockstep, TLAPS

(* Being neighbours is symmetric: both ends list each other in _neighbors. *)
LEMMA NeighborsSymmetric ==
    ASSUME NEW w \in Worlds, NEW v \in Neighbors(w)
    PROVE  v \in Worlds /\ w \in Neighbors(v) /\ v # w
BY WorldsPerRowAssumption DEF Worlds, Coords, Neighbors, Adjacent, Distance

(* needsToBeUpdated and needsToReceiveData are two views of one relation:  *)
(* a world sends ghosts exactly to those that wait for them.               *)
LEMMA SendersAndReceiversMatch ==
    ASSUME NEW w \in Worlds, NEW v \in Worlds, NEW s \in Sections
    PROVE  v \in SendTo(w, s) <=> w \in ReceiveFrom(v, s)
<1>1. v \in Neighbors(w) <=> w \in Neighbors(v)
  BY NeighborsSymmetric
<1>2. ASSUME v \in Neighbors(w)
      PROVE  needsToBeUpdated(w, v, s) <=> needsToReceiveData(v, w, s)
  <2>1. PICK a, b \in Int : w = <<a, b>>
    BY DEF Worlds, Coords
  <2>2. PICK c, d \in Int : v = <<c, d>>
    BY DEF Worlds, Coords
  <2>3. s = 0 \/ s = 1 \/ s = 2 \/ s = 3
    BY DEF Sections
  <2> QED
    BY <2>1, <2>2, <2>3 DEF needsToBeUpdated, needsToReceiveData, Difference
<1> QED
  BY <1>1, <1>2 DEF SendTo, ReceiveFrom

(* The two ends of a channel are neighbours, and what one sends in a       *)
(* section the other one waits for.                                        *)
LEMMA ChannelEnds ==
    ASSUME NEW c \in Channels
    PROVE  /\ c = <<c[1], c[2]>>
           /\ c[1] \in Worlds /\ c[2] \in Worlds /\ c[1] # c[2]
           /\ c[2] \in Neighbors(c[1]) /\ c[1] \in Neighbors(c[2])
           /\ <<c[2], c[1]>> \in Channels
           /\ \A s \in Sections : c[2] \in SendTo(c[1], s) <=> c[1] \in ReceiveFrom(c[2], s)
<1>1. PICK w \in Worlds, v \in Worlds : c = <<w, v>> /\ v \in Neighbors(w)
  BY DEF Channels
<1>2. w \in Neighbors(v) /\ v # w
  BY <1>1, NeighborsSymmetric
<1>3. <<v, w>> \in Channels
  BY <1>2 DEF Channels
<1> QED
  BY <1>1, <1>2, <1>3, SendersAndReceiversMatch

(* Rounds are numbered from 0, so each belongs to a section.               *)
LEMMA SectionOfType ==
    ASSUME TypeOK, NEW w \in Worlds
    PROVE  SectionOf(w) \in Sections
BY DEF TypeOK, SectionOf, Sections

(* Two neighbours are at most one section apart: each has received as many *)
(* lists of agents as it began sections, less one, and no more than sent.  *)
LEMMA RoundsClose ==
    ASSUME ExchangeInv, NEW c \in Channels
    PROVE  /\ round[c[1]] =< round[c[2]] + 1
           /\ round[c[2]] =< round[c[1]] + 1
<1>1. /\ c[1] \in Worlds /\ c[2] \in Worlds /\ <<c[2], c[1]>> \in Channels
  BY ChannelEnds
<1>2. /\ ReceivedAgents(c[2]) =< SentAgents(c[1])
      /\ ReceivedAgents(c[1]) =< SentAgents(c[2])
  BY <1>1 DEF ExchangeInv, AgentMailInv
<1> QED
  BY <1>1, <1>2 DEF ExchangeInv, TypeOK, ReceivedAgents, SentAgents

(* At the start every channel is empty and every world in round 0.         *)
LEMMA InitExchange == Init => ExchangeInv
<1> SUFFICES ASSUME Init PROVE ExchangeInv
  OBVIOUS
<1> USE NumRoundsAssumption DEF Init
<1>1. TypeOK
  BY DEF TypeOK, Phases
<1>2. BegunInv
  BY DEF BegunInv
<1>3. ASSUME NEW c \in Channels
      PROVE  /\ agentMail[c] = 0 /\ ghostMail[c] = 0
             /\ \A w \in {c[1], c[2]} : round[w] = 0 /\ phase[w] = "run"
  BY ChannelEnds
<1>4. AgentMailInv
  BY <1>3 DEF AgentMailInv, SentAgents, ReceivedAgents
<1>5. GhostMailInv
  BY <1>3 DEF GhostMailInv
<1> QED
  BY <1>1, <1>2, <1>4, <1>5 DEF ExchangeInv

(* stepSection and sendAgents keep the account of every channel.           *)
LEMMA RunKeepsExchange ==
    ASSUME ExchangeInv, NEW w \in Worlds, Run(w)
    PROVE  ExchangeInv'
<1> USE DEF Run
<1>1. TypeOK'
  BY DEF ExchangeInv, TypeOK, Phases, Send
<1>2. BegunInv'
  BY DEF ExchangeInv, TypeOK, BegunInv
<1>3. AgentMailInv'
  <2> SUFFICES ASSUME NEW c \in Channels
               PROVE  /\ agentMail'[c] = SentAgents(c[1])' - ReceivedAgents(c[2])'
                      /\ ReceivedAgents(c[2])' =< SentAgents(c[1])'
    BY DEF AgentMailInv
  <2>1. /\ c[1] \in Worlds /\ c[2] \in Worlds /\ c[1] # c[2]
        /\ c[2] \in Neighbors(c[1])
    BY ChannelEnds
  <2>2. /\ agentMail[c] = SentAgents(c[1]) - ReceivedAgents(c[2])
        /\ ReceivedAgents(c[2]) =< SentAgents(c[1])
    BY DEF ExchangeInv, AgentMailInv
  <2> QED
    BY <2>1, <2>2 DEF ExchangeInv, TypeOK, SentAgents, ReceivedAgents, Send
<1>4. GhostMailInv'
  <2> SUFFICES ASSUME NEW c \in Channels
               PROVE  LET x == c[1]
                          y == c[2]
                      IN  /\ round[x] = round[y] => ghostMail[c] =
                               IF phase'[x] = "awaitGhosts" /\ Wants(x, y, x) THEN 1 ELSE 0
                          /\ round[x] = round[y] + 1 =>
                               ghostMail[c] = IF Wants(x, y, y) THEN 1 ELSE 0
                          /\ round[x] + 1 = round[y] =>
                               /\ ghostMail[c] = 0
                               /\ phase'[x] # "awaitGhosts" => ~Wants(x, y, x)
    BY DEF GhostMailInv, Wants, SectionOf
  <2>1. c[1] \in Worlds /\ c[2] \in Worlds
    BY ChannelEnds
  <2> QED
    BY <2>1 DEF ExchangeInv, TypeOK, GhostMailInv
<1> QED
  BY <1>1, <1>2, <1>3, <1>4 DEF ExchangeInv

(* receiveAgents keeps it.                                                 *)
LEMMA ReceiveAgentsKeepsExchange ==
    ASSUME ExchangeInv, NEW w \in Worlds, ReceiveAgents(w)
    PROVE  ExchangeInv'
<1> USE DEF ReceiveAgents
<1>1. TypeOK'
  <2>1. ASSUME NEW c \in Channels PROVE agentMail'[c] \in Nat
    <3>1. /\ c[1] \in Neighbors(c[2])
          /\ c = <<c[1], c[2]>>
      BY ChannelEnds
    <3>2. c[2] = w => agentMail[c] > 0
      BY <3>1 DEF Arrived
    <3> QED
      BY <3>2 DEF ExchangeInv, TypeOK, Receive
  <2>2. agentMail' \in [Channels -> Nat]
    BY <2>1 DEF Receive
  <2> QED
    BY <2>2 DEF ExchangeInv, TypeOK, Phases
<1>2. BegunInv'
  BY DEF ExchangeInv, TypeOK, BegunInv
<1>3. AgentMailInv'
  <2> SUFFICES ASSUME NEW c \in Channels
               PROVE  /\ agentMail'[c] = SentAgents(c[1])' - ReceivedAgents(c[2])'
                      /\ ReceivedAgents(c[2])' =< SentAgents(c[1])'
    BY DEF AgentMailInv
  <2>1. /\ c[1] \in Worlds /\ c[2] \in Worlds /\ c[1] # c[2]
        /\ c[1] \in Neighbors(c[2]) /\ c = <<c[1], c[2]>>
    BY ChannelEnds
  <2>2. /\ agentMail[c] = SentAgents(c[1]) - ReceivedAgents(c[2])
        /\ ReceivedAgents(c[2]) =< SentAgents(c[1])
    BY DEF ExchangeInv, AgentMailInv
  <2> QED
    BY <2>1, <2>2 DEF ExchangeInv, TypeOK, SentAgents, ReceivedAgents, Receive, Arrived
<1>4. GhostMailInv'
  <2> SUFFICES ASSUME NEW c \in Channels
               PROVE  LET x == c[1]
                          y == c[2]
                      IN  /\ round[x] = round[y] => ghostMail[c] =
                               IF phase'[x] = "awaitGhosts" /\ Wants(x, y, x) THEN 1 ELSE 0
                          /\ round[x] = round[y] + 1 =>
                               ghostMail[c] = IF Wants(x, y, y) THEN 1 ELSE 0
                          /\ round[x] + 1 = round[y] =>
                               /\ ghostMail[c] = 0
                               /\ phase'[x] # "awaitGhosts" => ~Wants(x, y, x)
    BY DEF GhostMailInv, Wants, SectionOf
  <2>1. c[1] \in Worlds /\ c[2] \in Worlds
    BY ChannelEnds
  <2> QED
    BY <2>1 DEF ExchangeInv, TypeOK, GhostMailInv
<1> QED
  BY <1>1, <1>2, <1>3, <1>4 DEF ExchangeInv

(* sendGhostAgents keeps it: a receiver that is behind has read the last   *)
(* ghosts.                                                                 *)
LEMMA SendGhostsKeepsExchange ==
    ASSUME ExchangeInv, NEW w \in Worlds, SendGhosts(w)
    PROVE  ExchangeInv'
<1> USE DEF SendGhosts
<1>1. TypeOK'
  BY DEF ExchangeInv, TypeOK, Phases, Send
<1>2. BegunInv'
  BY DEF ExchangeInv, TypeOK, BegunInv
<1>3. AgentMailInv'
  <2> SUFFICES ASSUME NEW c \in Channels
               PROVE  /\ agentMail[c] = SentAgents(c[1])' - ReceivedAgents(c[2])'
                      /\ ReceivedAgents(c[2])' =< SentAgents(c[1])'
    BY DEF AgentMailInv
  <2>1. c[1] \in Worlds /\ c[2] \in Worlds
    BY ChannelEnds
  <2> QED
    BY <2>1 DEF ExchangeInv, TypeOK, AgentMailInv, SentAgents, ReceivedAgents
<1>4. GhostMailInv'
  <2> SUFFICES ASSUME NEW c \in Channels, NEW x, NEW y, x = c[1], y = c[2]
               PROVE  /\ round[x] = round[y] => ghostMail'[c] =
                           IF phase'[x] = "awaitGhosts" /\ Wants(x, y, x) THEN 1 ELSE 0
                      /\ round[x] = round[y] + 1 =>
                           ghostMail'[c] = IF Wants(x, y, y) THEN 1 ELSE 0
                      /\ round[x] + 1 = round[y] =>
                           /\ ghostMail'[c] = 0
                           /\ phase'[x] # "awaitGhosts" => ~Wants(x, y, x)
    BY DEF GhostMailInv, Wants, SectionOf
  <2>1. x \in Worlds /\ y \in Worlds /\ <<y, x>> \in Channels
    BY ChannelEnds
  <2>2. ReceivedAgents(x) =< SentAgents(y)
    BY <2>1 DEF ExchangeInv, AgentMailInv
  <2>3. /\ round[x] = round[y] => ghostMail[c] =
             IF phase[x] = "awaitGhosts" /\ Wants(x, y, x) THEN 1 ELSE 0
        /\ round[x] = round[y] + 1 =>
             ghostMail[c] = IF Wants(x, y, y) THEN 1 ELSE 0
        /\ round[x] + 1 = round[y] =>
             /\ ghostMail[c] = 0
             /\ phase[x] # "awaitGhosts" => ~Wants(x, y, x)
    BY DEF ExchangeInv, GhostMailInv
  <2>4. CASE x = w
    <3>1. ghostMail'[c] = IF Wants(x, y, x) THEN ghostMail[c] + 1 ELSE ghostMail[c]
      BY <2>4 DEF Send, Wants
    <3>2. round[x] # round[y] + 1
      BY <2>1, <2>2, <2>4 DEF ExchangeInv, TypeOK, ReceivedAgents, SentAgents
    <3> QED
      BY <2>1, <2>3, <2>4, <3>1, <3>2 DEF ExchangeInv, TypeOK
  <2>5. CASE x # w
    <3>1. ghostMail'[c] = ghostMail[c] /\ phase'[x] = phase[x]
      BY <2>1, <2>5 DEF Send, ExchangeInv, TypeOK
    <3> QED
      BY <2>3, <3>1
  <2> QED
    BY <2>4, <2>5
<1> QED
  BY <1>1, <1>2, <1>3, <1>4 DEF ExchangeInv

(* receiveGhostAgents keeps it while its world moves to the next section.  *)
LEMMA ReceiveGhostsKeepsExchange ==
    ASSUME ExchangeInv, NEW w \in Worlds, ReceiveGhosts(w)
    PROVE  ExchangeInv'
<1> USE DEF ReceiveGhosts
<1>1. TypeOK'
  <2>1. ASSUME NEW c \in Channels PROVE ghostMail'[c] \in Nat
    <3>1. c = <<c[1], c[2]>>
      BY ChannelEnds
    <3>2. c[2] = w /\ c[1] \in ReceiveFrom(w, SectionOf(w)) => ghostMail[c] > 0
      BY <3>1 DEF Arrived
    <3> QED
      BY <3>2 DEF ExchangeInv, TypeOK, Receive
  <2>2. ghostMail' \in [Channels -> Nat]
    BY <2>1 DEF Receive
  <2>3. round' \in [Worlds -> 0 .. NumRounds]
    BY NumRoundsAssumption DEF ExchangeInv, TypeOK, BegunInv
  <2> QED
    BY <2>2, <2>3 DEF ExchangeInv, TypeOK, Phases
<1>2. BegunInv'
  BY DEF ExchangeInv, TypeOK, BegunInv
<1>3. AgentMailInv'
  <2> SUFFICES ASSUME NEW c \in Channels
               PROVE  /\ agentMail[c] = SentAgents(c[1])' - ReceivedAgents(c[2])'
                      /\ ReceivedAgents(c[2])' =< SentAgents(c[1])'
    BY DEF AgentMailInv
  <2>1. c[1] \in Worlds /\ c[2] \in Worlds
    BY ChannelEnds
  <2> QED
    BY <2>1 DEF ExchangeInv, TypeOK, AgentMailInv, SentAgents, ReceivedAgents
<1>4. GhostMailInv'
  <2> SUFFICES ASSUME NEW c \in Channels, NEW x, NEW y, x = c[1], y = c[2]
               PROVE  /\ round'[x] = round'[y] => ghostMail'[c] =
                           IF phase'[x] = "awaitGhosts" /\ Wants(x, y, x)' THEN 1 ELSE 0
                      /\ round'[x] = round'[y] + 1 =>
                           ghostMail'[c] = IF Wants(x, y, y)' THEN 1 ELSE 0
                      /\ round'[x] + 1 = round'[y] =>
                           /\ ghostMail'[c] = 0
                           /\ phase'[x] # "awaitGhosts" => ~Wants(x, y, x)'
    BY DEF GhostMailInv
  <2>1. /\ x \in Worlds /\ y \in Worlds /\ x # y /\ c = <<x, y>> /\ <<y, x>> \in Channels
        /\ \A s \in Sections : y \in SendTo(x, s) <=> x \in ReceiveFrom(y, s)
    BY ChannelEnds
  <2>2. ReceivedAgents(x) =< SentAgents(y) /\ ReceivedAgents(y) =< SentAgents(x)
    BY <2>1 DEF ExchangeInv, AgentMailInv
  <2>3. /\ round[x] = round[y] => ghostMail[c] =
             IF phase[x] = "awaitGhosts" /\ Wants(x, y, x) THEN 1 ELSE 0
        /\ round[x] = round[y] + 1 =>
             ghostMail[c] = IF Wants(x, y, y) THEN 1 ELSE 0
        /\ round[x] + 1 = round[y] =>
             /\ ghostMail[c] = 0
             /\ phase[x] # "awaitGhosts" => ~Wants(x, y, x)
    BY DEF ExchangeInv, GhostMailInv
  <2>4. round[x] \in Nat /\ round[y] \in Nat /\ ghostMail[c] \in Nat
    BY <2>1 DEF ExchangeInv, TypeOK
  <2>5. /\ round[x] = round[y] => (Wants(x, y, x) <=> Wants(x, y, y))
        /\ \A z \in {x, y} : z # w => (Wants(x, y, z)' <=> Wants(x, y, z))
    BY <2>1 DEF Wants, SectionOf, ExchangeInv, TypeOK
  <2>6. CASE x = w
    <3>1. round'[x] = round[x] + 1 /\ round'[y] = round[y] /\ phase'[x] = "run"
      BY <2>1, <2>6 DEF ExchangeInv, TypeOK
    <3>2. ghostMail'[c] = ghostMail[c]
      BY <2>1, <2>6 DEF Receive
    <3>3. round[x] # round[y] + 1
      BY <2>1, <2>2, <2>4, <2>6 DEF ReceivedAgents, SentAgents
    <3>4. round[x] =< round[y]  /\ round[y] =< round[x] + 1
      BY <3>3, <2>1, RoundsClose, <2>4
    <3>5. Wants(x, y, y)' <=> Wants(x, y, y)
      BY <2>1, <2>5, <2>6
    <3> QED
      BY <2>3, <2>4, <2>5, <2>6, <3>1, <3>2, <3>4, <3>5
  <2>7. CASE y = w
    <3>1. round'[y] = round[y] + 1 /\ round'[x] = round[x] /\ phase'[x] = phase[x]
      BY <2>1, <2>7 DEF ExchangeInv, TypeOK
    <3>2. /\ ghostMail'[c] = IF Wants(x, y, y) THEN ghostMail[c] - 1 ELSE ghostMail[c]
          /\ Wants(x, y, y) => ghostMail[c] > 0
      <4>1. Wants(x, y, y) <=> x \in ReceiveFrom(y, SectionOf(y))
        BY <2>1, SectionOfType DEF Wants, ExchangeInv
      <4> QED
        BY <2>1, <2>7, <4>1 DEF Receive, Arrived
    <3>3. /\ round[y] # round[x] + 1
          /\ round[x] = round[y] + 1 => phase[x] # "awaitGhosts"
      BY <2>1, <2>2, <2>4, <2>7 DEF ReceivedAgents, SentAgents
    <3>4. round[y] =< round[x]  /\ round[x] =< round[y] + 1
      BY <3>3, <2>1, RoundsClose, <2>4
    <3>5. Wants(x, y, x)' <=> Wants(x, y, x)
      BY <2>1, <2>5, <2>7
    <3> QED
      BY <2>3, <2>4, <2>5, <2>7, <3>1, <3>2, <3>3, <3>4, <3>5
  <2>8. CASE x # w /\ y # w
    <3>1. /\ round'[x] = round[x] /\ round'[y] = round[y]
          /\ phase'[x] = phase[x] /\ ghostMail'[c] = ghostMail[c]
      BY <2>1, <2>8 DEF Receive
    <3>2. (Wants(x, y, x)' <=> Wants(x, y, x)) /\ (Wants(x, y, y)' <=> Wants(x, y, y))
      BY <2>5, <2>8
    <3> QED
      BY <2>3, <3>1, <3>2
  <2> QED
    BY <2>6, <2>7, <2>8
<1> QED
  BY <1>1, <1>2, <1>3, <1>4 DEF ExchangeInv

(* What each channel holds follows at every moment from the progress of    *)
(* the worlds at its two ends: the inductive invariant of the exchange.    *)
THEOREM ExchangeInvariant == Spec => []ExchangeInv
<1>1. Init => ExchangeInv
  BY InitExchange
<1>2. ExchangeInv /\ [Next]_vars => ExchangeInv'
  <2> SUFFICES ASSUME ExchangeInv, [Next]_vars PROVE ExchangeInv'
    OBVIOUS
  <2>1. ASSUME NEW w \in Worlds, WorldStep(w) PROVE ExchangeInv'
    BY <2>1, RunKeepsExchange, ReceiveAgentsKeepsExchange,
       SendGhostsKeepsExchange, ReceiveGhostsKeepsExchange DEF WorldStep
  <2>2. CASE UNCHANGED vars
    BY <2>2 DEF vars, ExchangeInv, TypeOK, BegunInv, AgentMailInv, GhostMailInv,
         SentAgents, ReceivedAgents, Wants, SectionOf
  <2> QED
    BY <2>1, <2>2 DEF Next, Finished
<1> QED
  BY <1>1, <1>2, PTL DEF Spec

(* Neighbours stay within one section of each other without a barrier, and *)
(* none runs a section while a neighbour still runs the one before.        *)
THEOREM LockstepHolds == Spec => []Lockstep
<1>1. ExchangeInv => Lockstep
  <2> SUFFICES ASSUME ExchangeInv, NEW c \in Channels
               PROVE  /\ round[c[1]] =< round[c[2]] + 1
                      /\ phase[c[1]] = "run" /\ round[c[1]] > round[c[2]]
                             => phase[c[2]] # "run"
    BY DEF Lockstep
  <2>1. c[1] \in Worlds /\ c[2] \in Worlds /\ <<c[2], c[1]>> \in Channels
    BY ChannelEnds
  <2>2. ReceivedAgents(c[1]) =< SentAgents(c[2])
    BY <2>1 DEF ExchangeInv, AgentMailInv
  <2> QED
    BY <2>1, <2>2, RoundsClose DEF ExchangeInv, TypeOK, ReceivedAgents, SentAgents
<1> QED
  BY <1>1, ExchangeInvariant, PTL

(* MPI never has to keep more than two lists of agents and one list of     *)
(* ghosts for a channel: the sends of a world cannot pile up.              *)
THEOREM MailBound == Spec => []MailIsBounded
<1>1. ExchangeInv => MailIsBounded
  <2> SUFFICES ASSUME ExchangeInv, NEW c \in Channels
               PROVE  agentMail[c] =< 2 /\ ghostMail[c] =< 1
    BY DEF MailIsBounded
  <2>1. c[1] \in Worlds /\ c[2] \in Worlds
    BY ChannelEnds
  <2>2. round[c[1]] \in Nat /\ round[c[2]] \in Nat
    BY <2>1 DEF ExchangeInv, TypeOK
  <2>3. agentMail[c] =< 2
    BY <2>1, <2>2, RoundsClose
    DEF ExchangeInv, AgentMailInv, ReceivedAgents, SentAgents
  <2>4. \/ round[c[1]] = round[c[2]]
        \/ round[c[1]] = round[c[2]] + 1
        \/ round[c[1]] + 1 = round[c[2]]
    BY <2>2, RoundsClose
  <2>5. ghostMail[c] =< 1
    BY <2>4 DEF ExchangeInv, GhostMailInv
  <2> QED
    BY <2>3, <2>5
<1> QED
  BY <1>1, ExchangeInvariant, PTL

(* A simulation that ends leaves no message unread: every list that was    *)
(* sent has been received.                                                 *)
THEOREM AllMailRead == Spec => []NothingUnread
<1>1. ExchangeInv => NothingUnread
  <2> SUFFICES ASSUME ExchangeInv, NEW c \in Channels,
                      \A w \in Worlds : round[w] = NumRounds /\ phase[w] = "run"
               PROVE  agentMail[c] = 0 /\ ghostMail[c] = 0
    BY DEF NothingUnread
  <2>1. c[1] \in Worlds /\ c[2] \in Worlds
    BY ChannelEnds
  <2> QED
    BY <2>1, NumRoundsAssumption
    DEF ExchangeInv, AgentMailInv, GhostMailInv, SentAgents, ReceivedAgents
<1> QED
  BY <1>1, ExchangeInvariant, PTL
=============================================================================
