------------------------- MODULE PaxosInstanceInv -------------------------
(***************************************************************************)
(* The inductive invariant of PaxosInstance, part by part.  SafeInv does   *)
(* not depend on the proposers remembering their rounds, and serves        *)
(* PaxosRecovery too; ReachedInv is about proposers that do not restart.   *)
(* TLC checks that they hold, PaxosInstanceProofs that they are inductive  *)
(* and imply the safety properties.                                        *)
(***************************************************************************)
EXTENDS PaxosInstance

Sent(type) == {m \in msgs : m.type = type}

(* The proposal numbers of server s: s, s + N, s + 2N, ...                 *)
Owns(s, n) == \E k \in 0 .. n : n = s + N * k

(* A server uses its own numbers only, and none up to its first for a      *)
(* round.                                                                  *)
NumbersInv ==
  /\ \A s \in Servers : Owns(s, current_proposal_number[s])
                        /\ s + N <= current_proposal_number[s]
  /\ \A m \in Sent("PREPARE") \cup Sent("ACCEPT") : m.from + N < m.number
  /\ \A m \in Sent("PROMISE") : m.to + N < m.prepare_number

(* The promises a proposer has counted exist, none of them reports more    *)
(* than proposer_number, and one of them reports exactly that.             *)
CountedPromise(s, p) ==
  p.to = s /\ p.prepare_number = current_proposal_number[s]

ProposerInv ==
  \A s \in Servers :
    /\ current_proposal_number[s] # s + N => proposer_value[s] \in Values
    /\ \A a \in promised[s] : \E p \in Sent("PROMISE") :
         CountedPromise(s, p) /\ p.from = a /\ p.number <= proposer_number[s]
    /\ proposer_number[s] # 0 => \E p \in Sent("PROMISE") :
         /\ CountedPromise(s, p)
         /\ p.number = proposer_number[s] /\ p.value = proposer_value[s]

(* Nothing, or the proposal of some ACCEPT.                                *)
IsProposal(n, v) ==
  (n = 0 /\ v = NoValue) \/ \E m \in Sent("ACCEPT") : m.number = n /\ m.value = v

(* What an acceptor holds is a proposal, and none of its votes is above it.*)
AcceptorInv ==
  \A a \in Servers :
    /\ accepted_number[a] <= prepare_number[a]
    /\ IsProposal(accepted_number[a], accepted_value[a])
    /\ \A k \in Votes : k.from = a => k.number <= accepted_number[a]

(* A promise reports a proposal not below any vote below its number, and   *)
(* binds since.                                                            *)
PromiseInv ==
  \A p \in Sent("PROMISE") :
    /\ p.prepare_number <= prepare_number[p.from]
    /\ IsProposal(p.number, p.value)
    /\ \A k \in Votes : k.from = p.from
         => k.number <= p.number \/ k.number >= p.prepare_number

(* The acceptors that will never vote at number n, not having done so.     *)
Abstainers(n) ==
  {a \in Servers : /\ prepare_number[a] > n
                   /\ \A k \in Votes : k.from = a => k.number # n}

(* No value but v is or ever will be chosen below number n.                *)
SafeAt(n, v) ==
  \A c \in 0 .. (n - 1) : IsMajority(Voters(c, v) \cup Abstainers(c))

AcceptInv ==
  \A m \in Sent("ACCEPT") :
    /\ Owns(m.from, m.number)
    /\ SafeAt(m.number, m.value)

(* Every vote answers an ACCEPT.                                           *)
VoteInv ==
  \A k \in Votes : \E m \in Sent("ACCEPT") : m.number = k.number /\ m.value = k.value

(* Until it is informed, a learner counts votes for the number and value   *)
(* it remembers.                                                           *)
LearnerInv ==
  \A s \in Servers : ~informed[s] =>
    /\ accepted_by[s] \subseteq Voters(learner_number[s], learner_value[s])
    /\ learner_number[s] = 0
         \/ Voters(learner_number[s], learner_value[s]) # {}

(* Proposers and ACCEPT messages carry values that were submitted.         *)
ProposedInv ==
  /\ \A s \in Servers : proposer_value[s] \in Proposed \cup {NoValue}
  /\ \A m \in Sent("ACCEPT") : m.value \in Proposed

(* Only a server that has started a round is answered or sends ACCEPT.     *)
RoundsInv ==
  /\ \A m \in Sent("PROMISE") \cup Votes : m.to \in Prepared
  /\ \A m \in Sent("ACCEPT") : m.from \in Prepared

SafeInv ==
  /\ TypeOK
  /\ NumbersInv
  /\ ProposerInv
  /\ AcceptorInv
  /\ PromiseInv
  /\ AcceptInv
  /\ OneValuePerNumber
  /\ VoteInv
  /\ LearnerInv
  /\ LearnedIsChosen

(* A PROMISE that is delivered does not name a round beyond the proposer's,*)
(* and one that completes a majority finds no ACCEPT of that round.        *)
Timely(m) ==
  m.type = "PROMISE" =>
    /\ m.prepare_number <= current_proposal_number[m.to]
    /\ CompletesMajority(m.to, promised[m.to] \cup {m.from})
         => \A k \in Sent("ACCEPT") : k.number # current_proposal_number[m.to]

(* The steps that preserve SafeInv.                                        *)
SafeNext ==
  \/ \E s \in Proposers, v \in Values : Submit(s, v)
  \/ \E s \in Servers : DeadlineExpires(s) \/ OnDeadline(s)
  \/ \E m \in msgs : Timely(m) /\ Dispatch(m)

(* A proposer has reached every round that a message names, and has not    *)
(* sent ACCEPT in the present one unless it has marked it.                 *)
ReachedInv ==
  /\ \A m \in Sent("PREPARE") \cup Sent("ACCEPT") :
        m.number <= current_proposal_number[m.from]
  /\ \A m \in Sent("PROMISE") \cup Sent("DENIAL") :
        m.prepare_number <= current_proposal_number[m.to]
  /\ \A m \in Sent("ACCEPT") :
        m.number = current_proposal_number[m.from] => majority_promised[m.from]

IInv == SafeInv /\ ReachedInv
=============================================================================
