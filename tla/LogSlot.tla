------------------------------ MODULE LogSlot ------------------------------
(***************************************************************************)
(* One slot of the log as the servers above it see it: who has started a   *)
(* round, what was proposed and chosen, which learner heard of a majority, *)
(* which was told the result by an INFORM.  The instance of the slot       *)
(* implements it (PaxosInstance), and the servers use their slots in this  *)
(* way and no other (PaxosServer).                                         *)
(***************************************************************************)
CONSTANTS Servers,  \* the servers
          Values    \* the commands that can be proposed

VARIABLES prepared,         \* the servers that have sent a PREPARE
          proposed,         \* the commands proposed
          chosen,           \* empty, or the command decided
          learned_majority, \* the servers whose learner heard of a majority
          told,             \* told[s]: empty, or what s was informed of
          informs           \* the INFORMs on their way: [to, value]

vars == <<prepared, proposed, chosen, learned_majority, told, informs>>

Init == /\ prepared = {}
        /\ proposed = {}
        /\ chosen = {}
        /\ learned_majority = {}
        /\ told = [s \in Servers |-> {}]
        /\ informs = {}

Informing(receivers, result) ==
  {[to |-> d, value |-> v] : d \in receivers, v \in result}

Refuses(s) == s \in learned_majority \/ told[s] # {}

(* A server that does not know the result starts a round for a command.    *)
Propose(s, v) ==
  /\ ~Refuses(s)
  /\ prepared' = prepared \cup {s}
  /\ proposed' = proposed \cup {v}
  /\ UNCHANGED <<chosen, learned_majority, told, informs>>

Choose(v) ==
  /\ chosen = {}
  /\ v \in proposed
  /\ chosen' = {v}
  /\ UNCHANGED <<prepared, proposed, learned_majority, told, informs>>

(* Only a server with a round of its own hears of the majority; it informs *)
(* the others, or some of them.                                            *)
LearnMajority(s, reached) ==
  /\ s \in prepared
  /\ chosen # {}
  /\ ~Refuses(s)
  /\ learned_majority' = learned_majority \cup {s}
  /\ informs' = informs \cup Informing(reached, chosen)
  /\ UNCHANGED <<prepared, proposed, chosen, told>>

(* An informed server tells one that has a round of its own.               *)
InformOutdated(b, s) ==
  /\ told[b] # {}
  /\ s \in prepared
  /\ informs' = informs \cup Informing({s}, told[b])
  /\ UNCHANGED <<prepared, proposed, chosen, learned_majority, told>>

OnInform(m) ==
  /\ told[m.to] = {}
  /\ told' = [told EXCEPT ![m.to] = {m.value}]
  /\ UNCHANGED <<prepared, proposed, chosen, learned_majority, informs>>

Next ==
  \/ \E s \in Servers, v \in Values : Propose(s, v)
  \/ \E v \in Values : Choose(v)
  \/ \E s \in Servers, reached \in SUBSET Servers : LearnMajority(s, reached)
  \/ \E b, s \in Servers : InformOutdated(b, s)
  \/ \E m \in informs : OnInform(m)

Spec == Init /\ [][Next]_vars

(* A server that starts again keeps what it was told, perhaps just now,    *)
(* and has forgotten a majority that it only heard of.                     *)
StartAgain(s, known) ==
  /\ \/ known = told[s]
     \/ told[s] = {} /\ \E m \in informs : m.to = s /\ known = {m.value}
  /\ told' = [told EXCEPT ![s] = known]
  /\ learned_majority' = IF known = {} THEN learned_majority \ {s}
                         ELSE learned_majority \cup {s}
  /\ UNCHANGED <<prepared, proposed, chosen, informs>>

RestartNext == Next \/ \E s \in Servers, known \in SUBSET Values : StartAgain(s, known)

RestartSpec == Init /\ [][RestartNext]_vars
=============================================================================
