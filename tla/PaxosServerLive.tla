-------------------------- MODULE PaxosServerLive --------------------------
(***************************************************************************)
(* Progress of the servers.  A learner's INFORM to its own server arrives  *)
(* (it goes over the loopback interface); those to the other servers may   *)
(* all be lost.                                                            *)
(***************************************************************************)
EXTENDS PaxosServer

Majorities == {Q \in SUBSET Servers : Cardinality(Q) * 2 > N}

MajorityRuns == \E Q \in Majorities : \A s \in Q : running[s]

LiveNext ==
  \/ \E q \in Slots : Choose(q)
  \/ \E s \in Servers, q \in Slots :
       \E reached \in {D \in SUBSET Servers : s \in D} : LearnMajority(s, q, reached)
  \/ \E b, s \in Servers, q \in Slots : InformOutdated(b, s, q)
  \/ \E s \in Servers, v \in Commands : Submit(s, v)
  \/ \E s \in Servers : \E r \in postponed[s] : Resubmit(s, r)
  \/ \E m \in informs : OnInform(m)

(* A server that is undecided about a slot it submitted to starts a new    *)
(* round at every deadline (UndecidedIsTimed).  If an informed acceptor    *)
(* runs it answers the round.  If none does, and a majority runs, the      *)
(* round ends in a decision (SubmissionsAreDecided).                       *)
NobodyInformed(q) == \A b \in Servers : running[b] => q \notin InformedSlots(b)

Learns(s, q) == /\ MajorityRuns
                /\ NobodyInformed(q)
                /\ LearnMajority(s, q, {s})

Fairness ==
  /\ \A q \in Slots : WF_vars(MajorityRuns /\ Choose(q))
  /\ \A s \in Servers, q \in Slots :
       /\ WF_vars(Learns(s, q))
       /\ WF_vars(\E b \in Servers : InformOutdated(b, s, q))
       /\ WF_vars(\E m \in informs : m.to = s /\ m.sequence = q /\ OnInform(m))

LiveSpec == Init /\ [][LiveNext]_vars /\ Fairness

-----------------------------------------------------------------------------
(* A server that submits to a slot executes it, even if it misses every    *)
(* INFORM that the other servers broadcast: unless the group loses its     *)
(* majority, or the server itself stops.                                   *)
CatchesUp ==
  \A s \in Servers, q \in Slots :
    q \in prepared[s] ~>
      executed_cmd_seq[s] >= q \/ ~running[s] \/ ~MajorityRuns
=============================================================================
