-------------------------- MODULE PaxosRecoveryInv --------------------------
(***************************************************************************)
(* The inductive invariant of PaxosRecovery.                               *)
(***************************************************************************)
EXTENDS PaxosRecovery, PaxosInstanceInv

(* An acceptor answers a number with one PROMISE in all its lives, since   *)
(* the number is in its log; and what a proposer has counted is counted.   *)
DeliveryInv ==
  /\ counted \subseteq Sent("PROMISE")
  /\ \A p1, p2 \in Sent("PROMISE") :
       p1.from = p2.from /\ p1.prepare_number = p2.prepare_number => p1 = p2
  /\ \A s \in Servers : \A a \in promised[s] :
       \E p \in counted : CountedPromise(s, p) /\ p.from = a

(* The acceptors whose PROMISE of number n was counted, by some life of    *)
(* the proposer.                                                           *)
PromisedTo(n) == {p.from : p \in {q \in counted : q.prepare_number = n}}

(* An ACCEPT has used up a majority of the promises for its number; where  *)
(* the proposer has come to that number again, it did not count those.     *)
UsedUpInv ==
  \A m \in Sent("ACCEPT") :
    /\ IsMajority(PromisedTo(m.number))
    /\ m.number = current_proposal_number[m.from] /\ ~majority_promised[m.from]
         => IsMajority(PromisedTo(m.number) \ promised[m.from])

(* Why two lives of a proposer cannot send different commands with one     *)
(* number, although neither knows of the other (proposer.cpp:11).          *)
CountingInv == SafeInv /\ DeliveryInv /\ UsedUpInv

(* What the acceptors' log alone gives, misled proposers or not: numbers   *)
(* are numbers, and an acceptor has on record what it has promised.        *)
LogInv ==
  /\ current_proposal_number \in [Servers -> Nat]
  /\ prepare_number \in [Servers -> Nat]
  /\ \A m \in msgs : m.to \in Servers
  /\ \A m \in Sent("PREPARE") \cup Sent("ACCEPT") : m.from \in Servers /\ m.number \in Nat
  /\ \A p \in Sent("PROMISE") : /\ p.from \in Servers /\ p.prepare_number \in Nat
                                 /\ p.prepare_number <= prepare_number[p.from]

(* All of it: the first part lasts until a proposer counts an answer to a  *)
(* former life, the second one for ever.                                   *)
RecoveryInv == (~misled => CountingInv) /\ LogInv
=============================================================================
