------------------------ MODULE PaxosRecoveryProofs ------------------------
(***************************************************************************)
(* Theorems about PaxosRecovery for every number of servers, every set of  *)
(* commands, every bound and any number of restarts, with assertions or    *)
(* without, on a network that loses, repeats and reorders.  What depends   *)
(* on the proposers lasts until one of them counts an answer to a former   *)
(* life (misled), and the theorems say so; after that it is false.         *)
(***************************************************************************)
EXTENDS PaxosRecoveryInv, PaxosInstanceRefinement

-----------------------------------------------------------------------------
(* Starting again.                                                         *)

(* What an acceptor finds in its log.                                      *)
GoodLog(s, log) ==
  /\ log.prepare \in Numbers /\ prepare_number[s] <= log.prepare
  /\ log.number \in Numbers /\ accepted_number[s] <= log.number
  /\ log.number <= log.prepare
  /\ log.value \in Values \cup {NoValue}
  /\ IsProposal(log.number, log.value)

(* A restart that loses nothing of the acceptor preserves the invariant of *)
(* the instance.                                                           *)
LEMMA StartAgainSafe ==
  ASSUME SafeInv, NEW s \in Servers, NEW log, GoodLog(s, log), StartAgain(s, log)
  PROVE  SafeInv'
<1>1. TypeOK /\ Parts
  BY PartsOfSafeInv
<1>2. /\ s + N \in Nat /\ Owns(s, s + N) /\ 0 \in Numbers
  BY FirstIsOwned, MaxNumberAssumption DEF Numbers
<1>3. TypeOK'
  BY <1>1, <1>2 DEF StartAgain, GoodLog, TypeOK, LearnerLogged
<1>4. /\ current_proposal_number'[s] = s + N /\ proposer_number'[s] = 0
      /\ promised'[s] = {} /\ accepted_by'[s] = {}
      /\ prepare_number'[s] = log.prepare
      /\ accepted_number'[s] = log.number /\ accepted_value'[s] = log.value
  BY <1>1 DEF StartAgain, TypeOK
<1>5. /\ (informed'[s] <=> informed[s]) /\ (learned_majority'[s] <=> informed[s])
      /\ informed[s] => /\ learner_number'[s] = learner_number[s]
                        /\ learner_value'[s] = learner_value[s]
      /\ ~informed[s] => learner_number'[s] = 0
  BY <1>1 DEF StartAgain, LearnerLogged, TypeOK
<1>6. \A t \in Servers \ {s} :
        /\ current_proposal_number'[t] = current_proposal_number[t]
        /\ proposer_number'[t] = proposer_number[t]
        /\ proposer_value'[t] = proposer_value[t] /\ promised'[t] = promised[t]
        /\ prepare_number'[t] = prepare_number[t]
        /\ accepted_number'[t] = accepted_number[t]
        /\ accepted_value'[t] = accepted_value[t]
        /\ learner_number'[t] = learner_number[t]
        /\ learner_value'[t] = learner_value[t] /\ accepted_by'[t] = accepted_by[t]
        /\ (informed'[t] <=> informed[t])
        /\ (learned_majority'[t] <=> learned_majority[t])
  BY <1>1 DEF StartAgain, TypeOK
<1>7. /\ msgs' = msgs /\ Votes' = Votes /\ \A type : Sent(type)' = Sent(type)
  BY DEF StartAgain, Votes, Sent
<1>8. \A t \in Servers : /\ prepare_number[t] <= prepare_number'[t]
                         /\ prepare_number[t] \in Nat /\ prepare_number'[t] \in Nat
  BY <1>1, <1>3, <1>4, <1>6, NaturalNumbers DEF GoodLog, TypeOK
<1>9. /\ \A n, v : Voters(n, v)' = Voters(n, v)
      /\ \A n, v : ChosenAt(n, v)' = ChosenAt(n, v)
      /\ \A n \in Nat : \A v : SafeAt(n, v) => SafeAt(n, v)'
  BY <1>1, <1>3, <1>7, <1>8, NoVoteStable
<1>10. NumbersInv'
  <2>1. ASSUME NEW t \in Servers
        PROVE  Owns(t, current_proposal_number'[t]) /\ t + N <= current_proposal_number'[t]
    <3>1. CASE t = s
      BY <1>2, <1>4, <3>1
    <3>2. CASE t # s
      BY <1>1, <1>6, <3>2 DEF Parts, NumbersInv
    <3>3. QED  BY <3>1, <3>2
  <2>2. QED  BY <1>1, <1>7, <2>1 DEF Parts, NumbersInv
<1>11. ProposerInv'
  <2> SUFFICES ASSUME NEW t \in Servers
               PROVE  (/\ current_proposal_number[t] # t + N => proposer_value[t] \in Values
                       /\ \A a \in promised[t] : \E p \in Sent("PROMISE") :
                            CountedPromise(t, p) /\ p.from = a
                            /\ p.number <= proposer_number[t]
                       /\ proposer_number[t] # 0 => \E p \in Sent("PROMISE") :
                            /\ CountedPromise(t, p)
                            /\ p.number = proposer_number[t]
                            /\ p.value = proposer_value[t])'
    BY DEF ProposerInv
  <2>1. CASE t = s
    BY <1>4, <2>1
  <2>2. CASE t # s
    BY <1>1, <1>6, <1>7, <2>2 DEF Parts, ProposerInv, CountedPromise
  <2>3. QED  BY <2>1, <2>2
<1>12. AcceptorInv'
  <2> SUFFICES ASSUME NEW a \in Servers
               PROVE  (/\ accepted_number[a] <= prepare_number[a]
                       /\ IsProposal(accepted_number[a], accepted_value[a])
                       /\ \A k \in Votes : k.from = a => k.number <= accepted_number[a])'
    BY DEF AcceptorInv
  <2>1. CASE a = s
    <3>1. \A k \in Votes : k.from = s => k.number <= log.number
      <4> TAKE k \in Votes
      <4> HAVE k.from = s
      <4>1. k.number <= accepted_number[s] /\ accepted_number[s] <= log.number
        BY <1>1 DEF Parts, AcceptorInv, GoodLog
      <4>2. k.number \in Nat /\ accepted_number[s] \in Nat /\ log.number \in Nat
        BY <1>1, NaturalNumbers DEF Votes, GoodLog
      <4>3. QED  BY <4>1, <4>2
    <3>2. QED  BY <1>4, <1>7, <2>1, <3>1 DEF GoodLog, IsProposal
  <2>2. CASE a # s
    BY <1>1, <1>6, <1>7, <2>2 DEF Parts, AcceptorInv, IsProposal
  <2>3. QED  BY <2>1, <2>2
<1>13. PromiseInv'
  <2> SUFFICES ASSUME NEW p \in Sent("PROMISE")
               PROVE  (/\ p.prepare_number <= prepare_number[p.from]
                       /\ IsProposal(p.number, p.value)
                       /\ \A k \in Votes : k.from = p.from
                            => k.number <= p.number \/ k.number >= p.prepare_number)'
    BY <1>7 DEF PromiseInv
  <2>1. /\ p.from \in Servers /\ p.prepare_number \in Nat
        /\ p.prepare_number <= prepare_number[p.from]
    BY <1>1, NaturalNumbers DEF Sent, Parts, PromiseInv
  <2>2. p.prepare_number <= prepare_number'[p.from]
    BY <1>8, <2>1
  <2>3. QED  BY <1>1, <1>7, <2>2 DEF Parts, PromiseInv, IsProposal
<1>14. AcceptInv'
  <2>1. \A m \in Sent("ACCEPT") : m.number \in Nat
    BY <1>1, NaturalNumbers DEF Sent
  <2>2. QED  BY <1>1, <1>7, <1>9, <2>1 DEF Parts, AcceptInv
<1>15. OneValuePerNumber' /\ VoteInv'
  BY <1>1, <1>7 DEF Parts, OneValuePerNumber, VoteInv
<1>16. LearnerInv'
  <2> SUFFICES ASSUME NEW t \in Servers, ~informed'[t]
               PROVE  /\ accepted_by'[t] \subseteq Voters(learner_number'[t], learner_value'[t])
                      /\ learner_number'[t] = 0
                           \/ Voters(learner_number'[t], learner_value'[t]) # {}
    BY <1>9 DEF LearnerInv
  <2>1. CASE t = s
    BY <1>4, <1>5, <2>1
  <2>2. CASE t # s
    BY <1>1, <1>6, <2>2 DEF Parts, LearnerInv
  <2>3. QED  BY <2>1, <2>2
<1>17. LearnedIsChosen'
  <2>1. ASSUME NEW t \in Servers, Refuses(t)'
        PROVE  ChosenAt(learner_number'[t], learner_value'[t])
    <3>1. CASE t = s
      BY <1>1, <1>5, <2>1, <3>1 DEF Parts, LearnedIsChosen, Refuses
    <3>2. CASE t # s
      BY <1>1, <1>6, <2>1, <3>2 DEF Parts, LearnedIsChosen, Refuses
    <3>3. QED  BY <3>1, <3>2
  <2>2. QED  BY <1>1, <1>7, <1>9, <2>1 DEF Parts, LearnedIsChosen
<1>18. QED
  BY <1>3, <1>10, <1>11, <1>12, <1>13, <1>14, <1>15, <1>16, <1>17, PartsOfSafeInv DEF Parts, SafeInv

(* What the acceptor has in its log at any moment is good.                 *)
LEMMA LogsAreGood ==
  ASSUME SafeInv
  PROVE  /\ \A s \in Servers : GoodLog(s, LoggedAcceptor(s))
         /\ \A m \in msgs : m.type = "PREPARE" /\ CanPromise(m.to, m.number)
              => GoodLog(m.to, [LoggedAcceptor(m.to) EXCEPT !.prepare = m.number])
         /\ \A m \in msgs : m.type = "ACCEPT" /\ CanAccept(m.to, m.number)
              => GoodLog(m.to, [prepare |-> m.number, number |-> m.number, value |-> m.value])
<1>1. TypeOK /\ AcceptorInv
  BY DEF SafeInv
<1>2. \A s \in Servers : /\ prepare_number[s] \in Nat /\ accepted_number[s] \in Nat
                         /\ prepare_number[s] \in Numbers /\ accepted_number[s] \in Numbers
                         /\ accepted_value[s] \in Values \cup {NoValue}
                         /\ accepted_number[s] <= prepare_number[s]
                         /\ IsProposal(accepted_number[s], accepted_value[s])
  BY <1>1, NaturalNumbers DEF TypeOK, AcceptorInv
<1>3. \A s \in Servers : GoodLog(s, LoggedAcceptor(s))
  BY <1>2 DEF GoodLog, LoggedAcceptor
<1>4. ASSUME NEW m \in msgs, m.type = "PREPARE", CanPromise(m.to, m.number)
      PROVE  GoodLog(m.to, [LoggedAcceptor(m.to) EXCEPT !.prepare = m.number])
  <2>1. m.to \in Servers /\ m.number \in Numbers /\ m.number \in Nat
    BY <1>1, <1>4, MessageFields, NaturalNumbers DEF TypeOK
  <2>2. prepare_number[m.to] < m.number
    BY <1>2, <1>4, <2>1 DEF CanPromise
  <2>3. accepted_number[m.to] <= m.number /\ prepare_number[m.to] <= m.number
    BY <1>2, <2>1, <2>2
  <2>4. QED  BY <1>2, <2>1, <2>3 DEF GoodLog, LoggedAcceptor
<1>5. ASSUME NEW m \in msgs, m.type = "ACCEPT", CanAccept(m.to, m.number)
      PROVE  GoodLog(m.to, [prepare |-> m.number, number |-> m.number, value |-> m.value])
  <2>1. m.to \in Servers /\ m.number \in Numbers /\ m.number \in Nat /\ m.value \in Values
    BY <1>1, <1>5, MessageFields, NaturalNumbers DEF TypeOK
  <2>2. prepare_number[m.to] <= m.number
    BY <1>2, <1>5, <2>1 DEF CanAccept
  <2>3. accepted_number[m.to] <= m.number /\ m.number <= m.number
    BY <1>2, <2>1, <2>2
  <2>4. IsProposal(m.number, m.value)
    BY <1>5 DEF IsProposal, Sent
  <2>5. QED  BY <2>1, <2>2, <2>3, <2>4 DEF GoodLog
<1>6. QED  BY <1>3, <1>4, <1>5

(* Every way to start again is one from a good log.                        *)
LEMMA RestartsAreGood ==
  ASSUME SafeInv,
         (\E s \in Servers : Restart(s)) \/ (\E m \in msgs : RestartAfterWrite(m))
  PROVE  \E s \in Servers : \E log : GoodLog(s, log) /\ StartAgain(s, log)
<1>1. \A m \in msgs : m.to \in Servers
  BY NaturalNumbers DEF SafeInv
<1>2. QED  BY <1>1, LogsAreGood DEF Restart, RestartAfterWrite

-----------------------------------------------------------------------------
(* What was counted.                                                       *)

(* The acceptors whose promise was counted are servers.                    *)
LEMMA PromisedToServers ==
  ASSUME TypeOK, DeliveryInv, NEW n
  PROVE  PromisedTo(n) \in SUBSET Servers
BY NaturalNumbers DEF PromisedTo, DeliveryInv, Sent

(* A step that sends no PROMISE and no ACCEPT, counts no PROMISE, and      *)
(* after which a proposer counts what it counted or nothing.               *)
LEMMA DeliveryIdle ==
  ASSUME TypeOK, DeliveryInv, UsedUpInv, UNCHANGED counted,
         Sent("PROMISE")' = Sent("PROMISE"), Sent("ACCEPT")' = Sent("ACCEPT"),
         \A s \in Servers :
           \/ /\ current_proposal_number'[s] = current_proposal_number[s]
              /\ promised'[s] = promised[s]
              /\ majority_promised'[s] = majority_promised[s]
           \/ promised'[s] = {}
  PROVE  DeliveryInv' /\ UsedUpInv'
<1>1. \A n : PromisedTo(n)' = PromisedTo(n)
  BY DEF PromisedTo
<1>2. DeliveryInv'
  BY DEF DeliveryInv, CountedPromise
<1>3. ASSUME NEW m \in Sent("ACCEPT")
      PROVE  /\ IsMajority(PromisedTo(m.number))
             /\ m.number = current_proposal_number'[m.from] /\ ~majority_promised'[m.from]
                  => IsMajority(PromisedTo(m.number) \ promised'[m.from])
  <2>1. m.from \in Servers /\ IsMajority(PromisedTo(m.number))
    BY NaturalNumbers DEF UsedUpInv, Sent
  <2>2. CASE promised'[m.from] = {}
    <3>1. PromisedTo(m.number) \ promised'[m.from] = PromisedTo(m.number)
      BY <2>2
    <3>2. QED  BY <2>1, <3>1
  <2>3. CASE /\ current_proposal_number'[m.from] = current_proposal_number[m.from]
             /\ promised'[m.from] = promised[m.from]
             /\ majority_promised'[m.from] = majority_promised[m.from]
    BY <2>1, <2>3 DEF UsedUpInv
  <2>4. QED  BY <2>1, <2>2, <2>3
<1>4. QED  BY <1>1, <1>2, <1>3 DEF UsedUpInv

LEMMA DeliveryStartRound ==
  ASSUME SafeInv, DeliveryInv, UsedUpInv, NEW s \in Servers, NEW v, StartRound(s, v),
         UNCHANGED counted
  PROVE  DeliveryInv' /\ UsedUpInv'
<1>1. TypeOK
  BY DEF SafeInv
<1>2. Sent("PROMISE")' = Sent("PROMISE") /\ Sent("ACCEPT")' = Sent("ACCEPT")
  BY DEF StartRound, Send, PrepareMessages, Sent
<1>3. /\ promised'[s] = {}
      /\ \A t \in Servers \ {s} :
           /\ current_proposal_number'[t] = current_proposal_number[t]
           /\ promised'[t] = promised[t]
           /\ majority_promised'[t] = majority_promised[t]
  BY <1>1 DEF StartRound, TypeOK
<1>4. QED  BY <1>1, <1>2, <1>3, DeliveryIdle

LEMMA DeliveryStartAgain ==
  ASSUME SafeInv, DeliveryInv, UsedUpInv, NEW s \in Servers, NEW log, StartAgain(s, log)
  PROVE  DeliveryInv' /\ UsedUpInv'
<1>1. TypeOK
  BY DEF SafeInv
<1>2. /\ Sent("PROMISE")' = Sent("PROMISE") /\ Sent("ACCEPT")' = Sent("ACCEPT")
      /\ UNCHANGED counted
  BY DEF StartAgain, Sent, historyVars
<1>3. /\ promised'[s] = {}
      /\ \A t \in Servers \ {s} :
           /\ current_proposal_number'[t] = current_proposal_number[t]
           /\ promised'[t] = promised[t]
           /\ majority_promised'[t] = majority_promised[t]
  BY <1>1 DEF StartAgain, TypeOK
<1>4. QED  BY <1>1, <1>2, <1>3, DeliveryIdle

(* An acceptor promises a number above all that it has promised.           *)
LEMMA DeliveryPrepare ==
  ASSUME SafeInv, DeliveryInv, UsedUpInv, NEW m \in msgs, OnPrepare(m), UNCHANGED counted
  PROVE  DeliveryInv' /\ UsedUpInv'
<1> DEFINE a == m.to
           promise == [type |-> "PROMISE", from |-> a, to |-> m.from,
                       prepare_number |-> m.number,
                       number |-> accepted_number[a], value |-> accepted_value[a]]
<1>1. TypeOK /\ PromiseInv /\ a \in Servers /\ m.number \in Nat
  BY NaturalNumbers DEF SafeInv, OnPrepare
<1>2. Sent("ACCEPT")' = Sent("ACCEPT") /\ UNCHANGED <<current_proposal_number, promised,
                                                      majority_promised>>
  BY DEF OnPrepare, InformOutdated, Denial, Send, Sent, proposerVars
<1>3. CASE ~CanPromise(a, m.number) \/ informed[a]
  <2>1. Sent("PROMISE")' = Sent("PROMISE")
    BY <1>3 DEF OnPrepare, InformOutdated, Denial, Send, Sent
  <2>2. QED  BY <1>1, <1>2, <2>1, DeliveryIdle
<1>4. CASE CanPromise(a, m.number) /\ ~informed[a]
  <2>1. Sent("PROMISE")' = Sent("PROMISE") \cup {promise}
    BY <1>4, LostAssumption DEF OnPrepare, Send, Sent
  <2>2. promise.from = a /\ promise.prepare_number = m.number
    OBVIOUS
  <2> HIDE DEF promise
  <2>3. ASSUME NEW p \in Sent("PROMISE"), p.from = a
        PROVE  p.prepare_number # m.number
    <3>1. p.prepare_number <= prepare_number[a] /\ prepare_number[a] < m.number
      BY <1>1, <1>4, <2>3, NaturalNumbers DEF PromiseInv, CanPromise
    <3>2. p.prepare_number \in Nat /\ prepare_number[a] \in Nat
      BY <1>1, NaturalNumbers DEF Sent
    <3>3. QED  BY <1>1, <3>1, <3>2
  <2>4. DeliveryInv'
    <3>1. \A p1, p2 \in Sent("PROMISE")' :
            p1.from = p2.from /\ p1.prepare_number = p2.prepare_number => p1 = p2
      BY <2>1, <2>2, <2>3 DEF DeliveryInv
    <3>2. counted' \subseteq Sent("PROMISE")'
      BY <2>1 DEF DeliveryInv
    <3>3. \A s \in Servers : \A b \in promised'[s] :
            \E p \in counted' : CountedPromise(s, p)' /\ p.from = b
      BY <1>2 DEF DeliveryInv, CountedPromise
    <3>4. QED  BY <3>1, <3>2, <3>3 DEF DeliveryInv
  <2>5. UsedUpInv'
    BY <1>2 DEF UsedUpInv, PromisedTo
  <2>6. QED  BY <2>4, <2>5
<1>5. QED  BY <1>3, <1>4

-----------------------------------------------------------------------------
(* A promise is counted.                                                   *)

(* It was not counted by a former life for this round.                     *)
LEMMA CountedOnce ==
  ASSUME TypeOK, DeliveryInv, NEW m \in Sent("PROMISE"), ~Misleads(m),
         m.prepare_number >= current_proposal_number[m.to]
  PROVE  /\ m.prepare_number = current_proposal_number[m.to]
         /\ m.from \notin PromisedTo(m.prepare_number) \ promised[m.to]
<1>1. m.prepare_number \in Nat /\ current_proposal_number[m.to] \in Nat
  BY NaturalNumbers DEF Sent
<1>2. m.prepare_number = current_proposal_number[m.to]
  BY <1>1 DEF Misleads, Sent
<1>3. m.from \in PromisedTo(m.prepare_number) => m \in counted
  BY DEF DeliveryInv, PromisedTo
<1>4. m \in counted => m.from \in promised[m.to]
  BY DEF Misleads, Sent
<1>5. QED  BY <1>2, <1>3, <1>4

(* So a majority completed by it finds no ACCEPT of an earlier life for    *)
(* the round: that one has used up a majority of other promises.           *)
LEMMA DeliveredIsTimely ==
  ASSUME SafeInv, DeliveryInv, UsedUpInv, NEW m \in msgs, ~Misleads(m), OnPromise(m)
  PROVE  Timely(m)
<1> DEFINE s == m.to
           n == current_proposal_number[s]
           acks == promised[s] \cup {m.from}
<1>1. /\ TypeOK /\ m \in Sent("PROMISE") /\ s \in Servers /\ m.from \in Servers
      /\ n \in Nat /\ m.prepare_number \in Nat
  BY NaturalNumbers DEF SafeInv, OnPromise, Sent
<1>2. m.prepare_number = n /\ m.from \notin PromisedTo(n) \ promised[s]
  BY <1>1, CountedOnce DEF OnPromise
<1>3. ASSUME CompletesMajority(s, acks), NEW k \in Sent("ACCEPT"), k.number = n
      PROVE  FALSE
  <2>1. k.from = s
    <3>1. k.from \in Servers /\ Owns(k.from, n) /\ Owns(s, n)
      BY <1>1, <1>3, NaturalNumbers DEF SafeInv, AcceptInv, NumbersInv, Sent
    <3>2. QED  BY <1>1, <3>1, OwnersDiffer
  <2>2. IsMajority(PromisedTo(n) \ promised[s]) /\ IsMajority(acks)
    BY <1>3, <2>1 DEF UsedUpInv, CompletesMajority
  <2>3. PromisedTo(n) \ promised[s] \in SUBSET Servers /\ acks \in SUBSET Servers
    BY <1>1, PromisedToServers DEF TypeOK
  <2>4. PICK a : a \in PromisedTo(n) \ promised[s] /\ a \in acks
    BY <2>2, <2>3, MajoritiesIntersect
  <2>5. QED  BY <1>2, <2>4
<1>4. QED  BY <1>1, <1>2, <1>3 DEF Timely

LEMMA DeliveryPromise ==
  ASSUME SafeInv, DeliveryInv, UsedUpInv, NEW m \in msgs, OnPromise(m), Timely(m),
         ~Misleads(m), counted' = counted \cup {m}
  PROVE  DeliveryInv' /\ UsedUpInv'
<1> DEFINE s == m.to
           n == current_proposal_number[s]
           acks == promised[s] \cup {m.from}
<1>1. /\ TypeOK /\ m \in Sent("PROMISE") /\ s \in Servers /\ m.from \in Servers
      /\ m.prepare_number = n /\ CountedPromise(s, m)
  BY PromiseIsCurrent DEF SafeInv, CountedPromise
<1>2. /\ UNCHANGED current_proposal_number
      /\ promised'[s] = acks /\ (majority_promised[s] => majority_promised'[s])
      /\ \A t \in Servers \ {s} : /\ promised'[t] = promised[t]
                                  /\ majority_promised'[t] = majority_promised[t]
  BY <1>1 DEF OnPromise, CompletesMajority, TypeOK
<1>3. Sent("PROMISE")' = Sent("PROMISE")
  BY DEF OnPromise, AcceptMessages, Send, Sent
<1>4. \A k \in Sent("ACCEPT")' : \/ k \in Sent("ACCEPT")
                                 \/ /\ k.from = s /\ k.number = n
                                    /\ IsMajority(acks) /\ majority_promised'[s]
  BY <1>1 DEF OnPromise, CompletesMajority, AcceptMessages, Send, Sent, TypeOK
<1>5. ASSUME NEW t \in Servers, NEW a \in promised'[t]
      PROVE  \E p \in counted' : CountedPromise(t, p)' /\ p.from = a
  <2>1. CASE a \in promised[t]
    <3>1. PICK p \in counted : CountedPromise(t, p) /\ p.from = a
      BY <2>1 DEF DeliveryInv
    <3>2. QED  BY <1>2, <3>1 DEF CountedPromise
  <2>2. CASE a \notin promised[t]
    <3>1. t = s /\ a = m.from
      BY <1>2, <1>5, <2>2
    <3>2. QED  BY <1>1, <1>2, <3>1 DEF CountedPromise
  <2>3. QED  BY <2>1, <2>2
<1>6. DeliveryInv'
  BY <1>1, <1>3, <1>5 DEF DeliveryInv
<1>7. /\ \A i : PromisedTo(i) \subseteq PromisedTo(i)'
      /\ PromisedTo(n)' = PromisedTo(n) \cup {m.from}
      /\ m.from \notin PromisedTo(n) \ promised[s]
  <2>1. m.from \notin PromisedTo(n) \ promised[s]
    BY <1>1, CountedOnce DEF OnPromise
  <2>2. \A i : PromisedTo(i) \subseteq PromisedTo(i)'
    BY DEF PromisedTo
  <2>3. \A i : PromisedTo(i)' = IF m.prepare_number = i THEN PromisedTo(i) \cup {m.from}
                                                     ELSE PromisedTo(i)
    BY DEF PromisedTo
  <2>4. n' = n
    BY <1>2
  <2>5. QED  BY <1>1, <2>1, <2>2, <2>3, <2>4
<1>8. \A i : PromisedTo(i)' \in SUBSET Servers
  <2>1. \A p \in counted' : p.from \in Servers
    BY <1>1, NaturalNumbers DEF DeliveryInv, Sent
  <2>2. QED  BY <2>1 DEF PromisedTo
<1>9. ASSUME NEW k \in Sent("ACCEPT")'
      PROVE  /\ IsMajority(PromisedTo(k.number)')
             /\ k.number = current_proposal_number'[k.from] /\ ~majority_promised'[k.from]
                  => IsMajority(PromisedTo(k.number)' \ promised'[k.from])
  <2>1. CASE k \in Sent("ACCEPT")
    <3>1. PromisedTo(k.number) \in SUBSET Servers /\ IsMajority(PromisedTo(k.number))
      BY <1>1, <2>1, PromisedToServers DEF UsedUpInv
    <3>2. IsMajority(PromisedTo(k.number)')
      BY <1>7, <1>8, <3>1, MajorityGrows
    <3>3. ASSUME k.number = current_proposal_number'[k.from], ~majority_promised'[k.from]
          PROVE  IsMajority(PromisedTo(k.number)' \ promised'[k.from])
      <4>1. k.from \in Servers
        BY <1>1, <2>1, NaturalNumbers DEF Sent
      <4>2. IsMajority(PromisedTo(k.number) \ promised[k.from])
        BY <1>2, <2>1, <3>3, <4>1 DEF UsedUpInv
      <4>3. PromisedTo(k.number) \ promised[k.from]
              \subseteq PromisedTo(k.number)' \ promised'[k.from]
        <5>1. CASE k.from = s
          BY <1>2, <1>7, <3>3, <5>1
        <5>2. CASE k.from # s
          BY <1>2, <1>7, <4>1, <5>2
        <5>3. QED  BY <5>1, <5>2
      <4>4. QED  BY <1>8, <3>1, <4>2, <4>3, MajorityGrows
    <3>4. QED  BY <3>2, <3>3
  <2>2. CASE k.from = s /\ k.number = n /\ IsMajority(acks) /\ majority_promised'[s]
    <3>1. acks \subseteq PromisedTo(n)'
      <4>1. promised[s] \subseteq PromisedTo(n)
        BY <1>1 DEF DeliveryInv, CountedPromise, PromisedTo
      <4>2. QED  BY <1>7, <4>1
    <3>2. IsMajority(PromisedTo(n)')
      BY <1>8, <2>2, <3>1, MajorityGrows
    <3>3. n' = n
      BY <1>2
    <3>4. QED  BY <2>2, <3>2, <3>3
  <2>3. QED  BY <1>4, <2>1, <2>2
<1>10. UsedUpInv'
  BY <1>9 DEF UsedUpInv
<1>11. QED  BY <1>6, <1>10

-----------------------------------------------------------------------------
(* A step that misleads no proposer is a safe step of the instance, a      *)
(* restart from a good log, or the death of a process.                     *)
LEMMA RecoverySteps ==
  ASSUME CountingInv, ~misled', [RecoveryNext]_recoveryVars
  PROVE  \/ [SafeNext]_vars
         \/ \E s \in Servers : \E log : GoodLog(s, log) /\ StartAgain(s, log)
         \/ \E m \in msgs : AssertFails(m)
<1>1. ASSUME NEW m \in msgs, Deliver(m)
      PROVE  SafeNext
  <2>1. Timely(m)
    <3>1. m.type # "PROMISE" => Timely(m)
      BY DEF Timely
    <3>2. m.type = "PROMISE" => OnPromise(m)
      BY <1>1 DEF Deliver, Dispatch, OnPrepare, OnDenial, OnMajorityDenial, OnAccept,
                  OnAccepted, OnInform
    <3>3. QED  BY <1>1, <3>1, <3>2, DeliveredIsTimely DEF CountingInv, Deliver
  <2>2. QED  BY <1>1, <2>1 DEF Deliver, SafeNext
<1>2. UNCHANGED recoveryVars => UNCHANGED vars
  BY DEF recoveryVars
<1>3. QED
  BY <1>1, <1>2, RestartsAreGood DEF RecoveryNext, SafeNext, CountingInv

(* The death of a process is none of the invariant's business.             *)
LEMMA AssertFailsInv ==
  ASSUME CountingInv, NEW m \in msgs, AssertFails(m)
  PROVE  CountingInv'
<1>1. TypeOK /\ Parts /\ DeliveryInv /\ UsedUpInv
  BY PartsOfSafeInv DEF CountingInv
<1>2. TypeOK'
  BY <1>1 DEF AssertFails, TypeOK, proposerVars, acceptorVars, learnerVars, timerVars
<1>3. Parts'
  BY <1>1, IdleInv DEF AssertFails, proposerVars
<1>4. DeliveryInv' /\ UsedUpInv'
  BY <1>1, DeliveryIdle DEF AssertFails, Sent, proposerVars, historyVars
<1>5. QED  BY <1>2, <1>3, <1>4 DEF CountingInv, SafeInv, Parts

(* A step that misleads no proposer keeps what was counted in order.       *)
LEMMA DeliveryStep ==
  ASSUME CountingInv, ~misled', [RecoveryNext]_recoveryVars
  PROVE  DeliveryInv' /\ UsedUpInv'
<1>1. SafeInv /\ TypeOK /\ DeliveryInv /\ UsedUpInv
  BY DEF CountingInv, SafeInv
<1>2. ASSUME UNCHANGED <<current_proposal_number, promised, majority_promised, counted>>,
             Sent("PROMISE")' = Sent("PROMISE"), Sent("ACCEPT")' = Sent("ACCEPT")
      PROVE  DeliveryInv' /\ UsedUpInv'
  BY <1>1, <1>2, DeliveryIdle
<1>3. CASE UNCHANGED recoveryVars
  BY <1>2, <1>3 DEF recoveryVars, historyVars, vars, proposerVars, Sent
<1>4. ASSUME NEW s \in Proposers, NEW v \in Values, Submit(s, v), UNCHANGED counted
      PROVE  DeliveryInv' /\ UsedUpInv'
  BY <1>1, <1>4, ProposersAssumption, DeliveryStartRound DEF Submit
<1>5. ASSUME NEW s \in Servers, DeadlineExpires(s), UNCHANGED counted
      PROVE  DeliveryInv' /\ UsedUpInv'
  BY <1>2, <1>5 DEF DeadlineExpires, proposerVars, Sent
<1>6. ASSUME NEW s \in Servers, OnDeadline(s), UNCHANGED counted
      PROVE  DeliveryInv' /\ UsedUpInv'
  BY <1>1, <1>2, <1>6, DeliveryStartRound DEF OnDeadline, proposerVars, Sent
<1>7. ASSUME NEW m \in msgs, Deliver(m)
      PROVE  DeliveryInv' /\ UsedUpInv'
  <2>1. m.to \in Servers
    BY <1>1, NaturalNumbers
  <2>2. CASE OnPromise(m)
    <3>1. counted' = counted \cup {m}
      BY <1>7, <2>2 DEF Deliver, OnPromise
    <3>2. ~Misleads(m) /\ Timely(m)
      BY <1>1, <1>7, <2>2, DeliveredIsTimely DEF Deliver
    <3>3. QED  BY <1>1, <2>2, <3>1, <3>2, DeliveryPromise
  <2>3. CASE OnPrepare(m)
    <3>1. UNCHANGED counted
      BY <1>7, <2>3 DEF Deliver, OnPrepare
    <3>2. QED  BY <1>1, <2>3, <3>1, DeliveryPrepare
  <2>4. CASE OnMajorityDenial(m)
    <3>1. UNCHANGED counted
      BY <1>7, <2>4 DEF Deliver, OnMajorityDenial
    <3>2. QED
      BY <1>1, <1>2, <2>1, <2>4, <3>1, DeliveryStartRound DEF OnMajorityDenial, proposerVars, Sent
  <2>5. CASE OnDenial(m) \/ OnAccept(m) \/ OnAccepted(m) \/ OnInform(m)
    <3>1. UNCHANGED counted
      BY <1>7, <2>5 DEF Deliver, OnDenial, OnAccept, OnAccepted, OnInform
    <3>2. UNCHANGED <<current_proposal_number, promised, majority_promised>>
      BY <2>5 DEF OnDenial, OnAccept, OnAccepted, OnInform, proposerVars
    <3>3. Sent("PROMISE")' = Sent("PROMISE") /\ Sent("ACCEPT")' = Sent("ACCEPT")
      BY <2>5 DEF OnDenial, OnAccept, OnAccepted, OnInform, InformOutdated, Send, Sent
    <3>4. QED  BY <1>2, <3>1, <3>2, <3>3
  <2>6. QED  BY <1>7, <2>2, <2>3, <2>4, <2>5 DEF Deliver, Dispatch
<1>8. CASE (\E s \in Servers : Restart(s)) \/ (\E m \in msgs : RestartAfterWrite(m))
  BY <1>1, <1>8, RestartsAreGood, DeliveryStartAgain
<1>9. CASE \E m \in msgs : AssertFails(m)
  BY <1>9, AssertFailsInv DEF CountingInv
<1>10. QED
  BY <1>3, <1>4, <1>5, <1>6, <1>7, <1>8, <1>9 DEF RecoveryNext, historyVars

-----------------------------------------------------------------------------
(* What the acceptors' log gives, in every build and on every network.     *)

(* A message that is sent names servers and numbers; a PROMISE names what  *)
(* is on record from now on, an ACCEPTED nothing below the record.         *)
OnRecord(m) ==
  /\ m.to \in Servers
  /\ m.type \in {"PREPARE", "ACCEPT"} => m.from \in Servers /\ m.number \in Nat
  /\ m.type = "PROMISE" => /\ m.from \in Servers /\ m.prepare_number \in Nat
                           /\ m.prepare_number <= prepare_number'[m.from]
  /\ m.type = "ACCEPTED" => /\ m.from \in Servers /\ m.number \in Nat
                            /\ m.number >= prepare_number[m.from]

(* One step: a server's record never falls.                                *)
RecordKept ==
  /\ current_proposal_number' \in [Servers -> Nat]
  /\ prepare_number' \in [Servers -> Nat]
  /\ \A s \in Servers : prepare_number[s] <= prepare_number'[s]
  /\ \A m \in msgs' \ msgs : OnRecord(m)

(* A step that changes neither numbers nor records and sends INFORMs.      *)
LEMMA RecordIdle ==
  ASSUME LogInv, UNCHANGED <<current_proposal_number, prepare_number>>,
         \A m \in msgs' \ msgs : m.to \in Servers /\ m.type \in {"INFORM", "DENIAL"}
  PROVE  RecordKept
BY DEF LogInv, RecordKept, OnRecord

LEMMA RecordStartRound ==
  ASSUME LogInv, NEW s \in Servers, NEW v, StartRound(s, v)
  PROVE  RecordKept
<1>1. NextProposalNumber(s) \in Nat
  BY NAssumption DEF LogInv, NextProposalNumber
<1>2. /\ current_proposal_number' \in [Servers -> Nat]
      /\ UNCHANGED prepare_number
  BY <1>1 DEF LogInv, StartRound, acceptorVars
<1>3. \A m \in msgs' \ msgs : /\ m.type = "PREPARE" /\ m.from = s /\ m.to \in Servers
                              /\ m.number = NextProposalNumber(s)
  BY DEF StartRound, Send, PrepareMessages
<1>4. QED  BY <1>1, <1>2, <1>3 DEF LogInv, RecordKept, OnRecord

LEMMA RecordStartAgain ==
  ASSUME LogInv, NEW s \in Servers, NEW log, StartAgain(s, log),
         log.prepare \in Nat, prepare_number[s] <= log.prepare
  PROVE  RecordKept
<1>1. current_proposal_number' \in [Servers -> Nat] /\ prepare_number' \in [Servers -> Nat]
  BY NAssumption DEF LogInv, StartAgain, Servers
<1>2. \A t \in Servers : prepare_number[t] <= prepare_number'[t]
  BY DEF LogInv, StartAgain
<1>3. QED  BY <1>1, <1>2 DEF RecordKept, StartAgain

LEMMA RecordPrepare ==
  ASSUME LogInv, NEW m \in msgs, OnPrepare(m)
  PROVE  RecordKept
<1>1. /\ m.to \in Servers /\ m.from \in Servers /\ m.number \in Nat
      /\ UNCHANGED current_proposal_number
  BY DEF LogInv, OnPrepare, Sent, proposerVars
<1>2. CASE informed[m.to] \/ ~CanPromise(m.to, m.number)
  BY <1>1, <1>2, RecordIdle DEF OnPrepare, InformOutdated, Denial, Send
<1>3. CASE ~informed[m.to] /\ CanPromise(m.to, m.number)
  <2>1. prepare_number' = [prepare_number EXCEPT ![m.to] = m.number]
    BY <1>3 DEF OnPrepare
  <2>2. \A k \in msgs' \ msgs : /\ k.type = "PROMISE" /\ k.from = m.to /\ k.to = m.from
                                /\ k.prepare_number = m.number
    BY <1>3 DEF OnPrepare, Send
  <2>3. prepare_number[m.to] <= m.number
    BY <1>1, <1>3 DEF LogInv, CanPromise
  <2>4. QED  BY <1>1, <2>1, <2>2, <2>3 DEF LogInv, RecordKept, OnRecord
<1>4. QED  BY <1>2, <1>3

LEMMA RecordAccept ==
  ASSUME LogInv, NEW m \in msgs, OnAccept(m)
  PROVE  RecordKept
<1>1. /\ m.to \in Servers /\ m.from \in Servers /\ m.number \in Nat
      /\ UNCHANGED current_proposal_number
  BY DEF LogInv, OnAccept, Sent, proposerVars
<1>2. CASE informed[m.to] \/ ~CanAccept(m.to, m.number)
  BY <1>1, <1>2, RecordIdle DEF OnAccept, InformOutdated, Send, acceptorVars
<1>3. CASE ~informed[m.to] /\ CanAccept(m.to, m.number)
  <2>1. prepare_number' = [prepare_number EXCEPT ![m.to] = m.number]
    BY <1>3 DEF OnAccept
  <2>2. \A k \in msgs' \ msgs : /\ k.type = "ACCEPTED" /\ k.from = m.to /\ k.to = m.from
                                /\ k.number = m.number
    BY <1>3 DEF OnAccept, Send
  <2>3. prepare_number[m.to] <= m.number /\ m.number >= prepare_number[m.to]
    BY <1>1, <1>3 DEF LogInv, CanAccept
  <2>4. QED  BY <1>1, <2>1, <2>2, <2>3 DEF LogInv, RecordKept, OnRecord
<1>4. QED  BY <1>2, <1>3

LEMMA RecordPromise ==
  ASSUME LogInv, NEW m \in msgs, OnPromise(m)
  PROVE  RecordKept
<1>1. m.to \in Servers /\ UNCHANGED <<current_proposal_number, prepare_number>>
  BY DEF LogInv, OnPromise, acceptorVars
<1>2. \A k \in msgs' \ msgs : /\ k.type = "ACCEPT" /\ k.from = m.to /\ k.to \in Servers
                              /\ k.number = current_proposal_number[m.to]
  BY DEF OnPromise, AcceptMessages, Send
<1>3. QED  BY <1>1, <1>2 DEF LogInv, RecordKept, OnRecord

LEMMA RecordStep ==
  ASSUME LogInv, [RecoveryNext]_recoveryVars
  PROVE  RecordKept
<1>1. ASSUME UNCHANGED <<current_proposal_number, prepare_number, msgs>>
      PROVE  RecordKept
  BY <1>1, RecordIdle
<1>2. CASE UNCHANGED recoveryVars
  BY <1>1, <1>2 DEF recoveryVars, vars, proposerVars, acceptorVars
<1>3. ASSUME NEW s \in Proposers, NEW v \in Values, Submit(s, v)
      PROVE  RecordKept
  BY <1>3, ProposersAssumption, RecordStartRound DEF Submit
<1>4. ASSUME NEW s \in Servers, DeadlineExpires(s)
      PROVE  RecordKept
  BY <1>1, <1>4 DEF DeadlineExpires, proposerVars, acceptorVars
<1>5. ASSUME NEW s \in Servers, OnDeadline(s)
      PROVE  RecordKept
  BY <1>1, <1>5, RecordStartRound DEF OnDeadline, proposerVars, acceptorVars
<1>6. ASSUME NEW m \in msgs, Deliver(m)
      PROVE  RecordKept
  <2>1. m.to \in Servers
    BY DEF LogInv
  <2>2. CASE OnPrepare(m)
    BY <2>2, RecordPrepare
  <2>3. CASE OnPromise(m)
    BY <2>3, RecordPromise
  <2>4. CASE OnDenial(m)
    BY <1>1, <2>4 DEF OnDenial, acceptorVars
  <2>5. CASE OnMajorityDenial(m)
    BY <1>1, <2>1, <2>5, RecordStartRound DEF OnMajorityDenial, proposerVars, acceptorVars
  <2>6. CASE OnAccept(m)
    BY <2>6, RecordAccept
  <2>7. CASE OnAccepted(m)
    BY <2>7, RecordIdle DEF OnAccepted, Send, proposerVars, acceptorVars
  <2>8. CASE OnInform(m)
    BY <1>1, <2>8 DEF OnInform, proposerVars, acceptorVars
  <2>9. QED
    BY <1>6, <2>2, <2>3, <2>4, <2>5, <2>6, <2>7, <2>8 DEF Deliver, Dispatch
<1>7. ASSUME NEW s \in Servers, Restart(s)
      PROVE  RecordKept
  <2>1. LoggedAcceptor(s).prepare = prepare_number[s] /\ prepare_number[s] \in Nat
    BY DEF LoggedAcceptor, LogInv
  <2>2. QED  BY <1>7, <2>1, RecordStartAgain DEF Restart
<1>8. ASSUME NEW m \in msgs, RestartAfterWrite(m)
      PROVE  RecordKept
  <2> DEFINE a == m.to
  <2>1. a \in Servers /\ prepare_number[a] \in Nat /\ m.number \in Nat
    BY <1>8 DEF RestartAfterWrite, LogInv, Sent
  <2>2. prepare_number[a] <= m.number
    BY <1>8, <2>1 DEF RestartAfterWrite, CanPromise, CanAccept
  <2>3. PICK log : StartAgain(a, log) /\ log.prepare = m.number
    BY <1>8 DEF RestartAfterWrite, LoggedAcceptor
  <2>4. QED  BY <2>1, <2>2, <2>3, RecordStartAgain
<1>9. ASSUME NEW m \in msgs, AssertFails(m)
      PROVE  RecordKept
  BY <1>1, <1>9 DEF AssertFails, proposerVars, acceptorVars
<1>10. QED
  BY <1>2, <1>3, <1>4, <1>5, <1>6, <1>7, <1>8, <1>9 DEF RecoveryNext

LEMMA LogStep ==
  ASSUME LogInv, [RecoveryNext]_recoveryVars
  PROVE  LogInv'
<1>1. RecordKept
  BY RecordStep
<1>2. ASSUME NEW p \in Sent("PROMISE")'
      PROVE  /\ p.from \in Servers /\ p.prepare_number \in Nat
             /\ p.prepare_number <= prepare_number'[p.from]
  <2>1. CASE p \in msgs
    <3>1. /\ p.from \in Servers /\ p.prepare_number \in Nat
          /\ p.prepare_number <= prepare_number[p.from]
      BY <1>2, <2>1 DEF LogInv, Sent
    <3>2. /\ prepare_number[p.from] \in Nat /\ prepare_number'[p.from] \in Nat
          /\ prepare_number[p.from] <= prepare_number'[p.from]
      BY <1>1, <3>1 DEF LogInv, RecordKept
    <3>3. QED  BY <3>1, <3>2
  <2>2. CASE p \notin msgs
    BY <1>1, <1>2, <2>2 DEF RecordKept, OnRecord, Sent
  <2>3. QED  BY <2>1, <2>2
<1>3. \A m \in msgs' : m.to \in Servers
  BY <1>1 DEF LogInv, RecordKept, OnRecord
<1>4. \A m \in (Sent("PREPARE") \cup Sent("ACCEPT"))' : m.from \in Servers /\ m.number \in Nat
  BY <1>1 DEF LogInv, RecordKept, OnRecord, Sent
<1>5. QED  BY <1>1, <1>2, <1>3, <1>4 DEF LogInv, RecordKept

-----------------------------------------------------------------------------
LEMMA RecoveryInitInv == RecoveryInit => CountingInv /\ LogInv
<1> SUFFICES ASSUME RecoveryInit PROVE CountingInv /\ LogInv
  OBVIOUS
<1>1. SafeInv
  BY SafeInit DEF RecoveryInit
<1>2. DeliveryInv /\ UsedUpInv
  BY DEF RecoveryInit, Init, DeliveryInv, UsedUpInv, Sent
<1>3. LogInv
  BY NAssumption DEF RecoveryInit, Init, LogInv, Sent, Servers
<1>4. QED  BY <1>1, <1>2, <1>3 DEF CountingInv

LEMMA CountingStep ==
  ASSUME CountingInv, ~misled', [RecoveryNext]_recoveryVars
  PROVE  CountingInv'
<1>1. SafeInv'
  BY RecoverySteps, SafeStep, StartAgainSafe, AssertFailsInv DEF CountingInv
<1>2. QED  BY <1>1, DeliveryStep DEF CountingInv

(* A proposer that was misled stays so. *)
LEMMA MisledStays ==
  ASSUME [RecoveryNext]_recoveryVars, misled
  PROVE  misled'
BY DEF RecoveryNext, recoveryVars, historyVars, Deliver, Restart, RestartAfterWrite,
       StartAgain, AssertFails

(* Until a proposer counts an answer to a former life, the invariant of    *)
(* one life and the count of the promises hold: one that comes to an old   *)
(* number again cannot complete a majority for it once an earlier life has *)
(* sent ACCEPT with it.  The acceptors' record holds in any case.          *)
THEOREM RecoveryInvariance == RecoverySpec => []RecoveryInv
<1>1. RecoveryInit => RecoveryInv
  BY RecoveryInitInv DEF RecoveryInv
<1>2. RecoveryInv /\ [RecoveryNext]_recoveryVars => RecoveryInv'
  BY CountingStep, LogStep, MisledStays DEF RecoveryInv
<1>3. QED  BY <1>1, <1>2, PTL DEF RecoverySpec

-----------------------------------------------------------------------------
(* Two commands can be chosen only after a proposer was misled, however    *)
(* often servers restart and numbers are used again.                       *)
THEOREM RecoveryAgreement == RecoverySpec => []AgreesUnlessMisled
<1>1. RecoveryInv => AgreesUnlessMisled
  BY ConsistentNow DEF RecoveryInv, CountingInv, AgreesUnlessMisled
<1>2. QED  BY <1>1, RecoveryInvariance, PTL

(* Unless a proposer was misled two ACCEPT messages with the same number   *)
(* carry the same value, though two lives of a proposer may send them.     *)
THEOREM RecoveryOneAccept == RecoverySpec => [](~misled => OneValuePerNumber)
<1>1. RecoveryInv => (~misled => OneValuePerNumber)
  BY DEF RecoveryInv, CountingInv, SafeInv
<1>2. QED  BY <1>1, RecoveryInvariance, PTL

(* A chosen value binds the later rounds of all lives, unless one of them  *)
(* was misled.                                                             *)
THEOREM RecoveryLaterRoundsBound == RecoverySpec => []BindsUnlessMisled
<1>1. RecoveryInv => BindsUnlessMisled
  BY BoundNow DEF RecoveryInv, CountingInv, BindsUnlessMisled
<1>2. QED  BY <1>1, RecoveryInvariance, PTL

(* What a learner knows, from its log too, was chosen, unless a proposer   *)
(* was misled.                                                             *)
THEOREM RecoveryLearnersAreRight == RecoverySpec => []LearnsUnlessMisled
<1>1. RecoveryInv => LearnsUnlessMisled
  BY DEF RecoveryInv, CountingInv, SafeInv, LearnsUnlessMisled
<1>2. QED  BY <1>1, RecoveryInvariance, PTL

(* An acceptor keeps in one life what it promised in another, with misled  *)
(* proposers too: it is in its log before it answers.                      *)
THEOREM RecoveryPromisesBind == RecoverySpec => PromisesKept
<1>1. ASSUME LogInv, [RecoveryNext]_recoveryVars, NEW p \in msgs,
             NEW m \in msgs' \ msgs, p.type = "PROMISE", m.type = "ACCEPTED",
             m.from = p.from
      PROVE  m.number >= p.prepare_number
  <2>1. m.from \in Servers /\ m.number \in Nat /\ m.number >= prepare_number[m.from]
    BY <1>1, RecordStep DEF RecordKept, OnRecord
  <2>2. p.prepare_number \in Nat /\ p.prepare_number <= prepare_number[m.from]
    BY <1>1 DEF LogInv, Sent
  <2>3. prepare_number[m.from] \in Nat
    BY <1>1, <2>1 DEF LogInv
  <2>4. QED  BY <2>1, <2>2, <2>3
<1>2. RecoveryInv /\ [RecoveryNext]_recoveryVars =>
        [\A p \in msgs, m \in msgs' \ msgs :
           p.type = "PROMISE" /\ m.type = "ACCEPTED" /\ m.from = p.from
             => m.number >= p.prepare_number]_vars
  BY <1>1 DEF RecoveryInv
<1>3. QED  BY <1>2, RecoveryInvariance, PTL DEF RecoverySpec, PromisesKept

-----------------------------------------------------------------------------
(* Only submitted values travel. *)
LEMMA RecoveryProposedStep ==
  ASSUME CountingInv, ~misled', ProposedInv, [RecoveryNext]_recoveryVars
  PROVE  ProposedInv'
<1>1. CASE [SafeNext]_vars
  BY <1>1, ProposedStep DEF CountingInv
<1>2. ASSUME NEW s \in Servers, NEW log, StartAgain(s, log)
      PROVE  ProposedInv'
  <2>1. \A t \in Servers : proposer_value'[t] = IF t = s THEN NoValue ELSE proposer_value[t]
    BY <1>2 DEF StartAgain, CountingInv, SafeInv, TypeOK
  <2>2. UNCHANGED <<Proposed, msgs>>
    BY <1>2 DEF StartAgain, Proposed
  <2>3. QED  BY <2>1, <2>2 DEF ProposedInv, Sent
<1>3. ASSUME NEW m \in msgs, AssertFails(m)
      PROVE  ProposedInv'
  BY <1>3, QuietSteps, QuietProposedInv DEF AssertFails
<1>4. QED  BY <1>1, <1>2, <1>3, RecoverySteps

(* Every step is a step of Consensus, where a server's result is what it   *)
(* was informed of, or changes nothing that Consensus sees.                *)
LEMMA DurableStep ==
  ASSUME CountingInv, CountingInv', ProposedInv, ProposedInv', ~misled',
         [RecoveryNext]_recoveryVars
  PROVE  [Durable!Next]_(Durable!vars)
<1>1. SafeInv /\ SafeInv' /\ TypeOK /\ TypeOK'
  BY DEF CountingInv, SafeInv
<1>2. ASSUME UNCHANGED Known
      PROVE  UNCHANGED Told
  BY <1>2 DEF Known, Told
<1>3. ASSUME NEW v \in Values, Proposes(v)
      PROVE  Durable!Next
  BY <1>2, <1>3 DEF Proposes, Durable!Next, Durable!Propose
<1>4. ASSUME NEW v \in Values, Chooses(v)
      PROVE  Durable!Next
  BY <1>2, <1>4 DEF Chooses, Durable!Next, Durable!Choose
<1>5. ASSUME NEW m \in msgs, Learns(m)
      PROVE  Durable!Next \/ UNCHANGED <<Proposed, Chosen, Told>>
  <2>1. m.to \in Servers /\ UNCHANGED <<Proposed, Chosen>>
    BY <1>1, <1>5, NaturalNumbers DEF Learns
  <2>2. CASE OnAccepted(m)
    <3>1. ~informed[m.to] /\ UNCHANGED informed
          /\ \A t \in Servers \ {m.to} : learner_value'[t] = learner_value[t]
      BY <1>1, <2>1, <2>2 DEF OnAccepted, TypeOK
    <3>2. UNCHANGED Told
      BY <3>1 DEF Told
    <3>3. QED  BY <2>1, <3>2
  <2>3. CASE OnInform(m)
    <3>1. /\ ~informed[m.to] /\ informed'[m.to]
          /\ \A t \in Servers \ {m.to} : /\ (informed'[t] <=> informed[t])
                                         /\ learner_value'[t] = learner_value[t]
      BY <1>1, <2>1, <2>3 DEF OnInform, TypeOK
    <3>2. learner_value'[m.to] \in Chosen
      BY <1>1, <2>1, <3>1, LearnedChosenNext DEF LearnedWasChosen, Refuses
    <3>3. Chosen = {learner_value'[m.to]}
      BY <1>1, <3>2, ConsistentNow DEF Consistency
    <3>4. Told[m.to] = {} /\ Told' = [Told EXCEPT ![m.to] = Chosen]
      BY <2>1, <3>1, <3>3 DEF Told
    <3>5. Durable!Learn(m.to)
      BY <2>1, <3>3, <3>4 DEF Durable!Learn
    <3>6. QED  BY <2>1, <3>5 DEF Durable!Next
  <2>4. QED  BY <1>5, <2>2, <2>3 DEF Learns
<1>6. ASSUME NEW s \in Servers, NEW log, StartAgain(s, log)
      PROVE  UNCHANGED <<Proposed, Chosen, Told>>
  <2>1. UNCHANGED <<Proposed, Chosen>>
    BY <1>6 DEF StartAgain, Proposed, Chosen, ChosenAt, Voters, Votes
  <2>2. \A t \in Servers : /\ (informed'[t] <=> informed[t])
                           /\ informed[t] => learner_value'[t] = learner_value[t]
    BY <1>1, <1>6 DEF StartAgain, LearnerLogged, TypeOK
  <2>3. QED  BY <2>1, <2>2 DEF Told
<1>7. ASSUME NEW m \in msgs, AssertFails(m)
      PROVE  UNCHANGED <<Proposed, Chosen, Told>>
  BY <1>7 DEF AssertFails, Proposed, Chosen, ChosenAt, Voters, Votes, Told, learnerVars
<1>8. QED
  BY <1>1, <1>2, <1>3, <1>4, <1>5, <1>6, <1>7, RecoverySteps, WhatAStepDoes DEF Durable!vars

LEMMA DurableInit == RecoveryInit => Durable!Init
<1> SUFFICES ASSUME RecoveryInit PROVE Durable!Init
  OBVIOUS
<1>1. Abstract!Init
  BY AbstractInit DEF RecoveryInit
<1>2. Told = [s \in Servers |-> {}]
  BY DEF RecoveryInit, Init, Told
<1>3. QED  BY <1>1, <1>2 DEF Abstract!Init, Durable!Init

(* Until a proposer is misled, the recovering instance implements          *)
(* Consensus: a restart takes no result of a server back, and no server is *)
(* informed of another one.                                                *)
THEOREM RecoveryImplementation == RecoverySpec => RecoveryImplementsConsensus
<1> DEFINE Submitted == ~misled => ProposedInv
<1>1. RecoveryInit => Durable!Init /\ Submitted
  BY DurableInit, ProposedInit DEF RecoveryInit
<1>2. RecoveryInv /\ Submitted /\ [RecoveryNext]_recoveryVars => Submitted'
  BY RecoveryProposedStep, MisledStays DEF RecoveryInv
<1>3. RecoveryInv /\ RecoveryInv' /\ Submitted /\ Submitted' /\ [RecoveryNext]_recoveryVars
        => [misled' \/ Durable!Next]_(Durable!vars)
  BY DurableStep, MisledStays DEF RecoveryInv
<1> HIDE DEF Submitted
<1>4. QED
  BY <1>1, <1>2, <1>3, RecoveryInvariance, PTL
     DEF RecoverySpec, RecoveryImplementsConsensus

-----------------------------------------------------------------------------
(* What the servers above see of a slot that restarts.                     *)
LEMMA StartAgainInSlot ==
  ASSUME SafeInv, ProposedInv, NEW s \in Servers, NEW log, StartAgain(s, log)
  PROVE  \E known \in SUBSET Values : Slot!StartAgain(s, known)
<1>1. TypeOK
  BY DEF SafeInv
<1>2. UNCHANGED <<Prepared, Proposed, Chosen, Informs>>
  BY DEF StartAgain, Prepared, Proposed, Chosen, ChosenAt, Voters, Votes, Informs
<1>3. \A t \in Servers : /\ (informed'[t] <=> informed[t])
                         /\ informed[t] => learner_value'[t] = learner_value[t]
  BY <1>1 DEF StartAgain, LearnerLogged, TypeOK
<1>4. Told' = Told /\ Told' = [Told EXCEPT ![s] = Told[s]]
  BY <1>3 DEF Told
<1>5. Told[s] = {} <=> ~informed[s]
  BY DEF Told
<1>6. learned_majority' = [learned_majority EXCEPT ![s] = informed[s]]
  BY DEF StartAgain, LearnerLogged
<1>7. {t \in Servers : learned_majority[t]}' =
        IF Told[s] = {} THEN {t \in Servers : learned_majority[t]} \ {s}
        ELSE {t \in Servers : learned_majority[t]} \cup {s}
  BY <1>1, <1>5, <1>6 DEF TypeOK
<1>8. Told[s] \in SUBSET Values
  <2>1. informed[s] => learner_value[s] \in Chosen
    BY LearnedChosenNow DEF LearnedWasChosen, Refuses
  <2>2. Chosen \subseteq Values
    BY ChosenProposedNow DEF ChosenWasProposed, Proposed
  <2>3. QED  BY <2>1, <2>2 DEF Told
<1>9. PICK known \in SUBSET Values : known = Told[s]
  BY <1>8
<1>10. Slot!StartAgain(s, known)
  BY <1>2, <1>4, <1>7, <1>9 DEF Slot!StartAgain
<1>11. QED  BY <1>10

LEMMA RecoverySlotStep ==
  ASSUME CountingInv, CountingInv', ProposedInv, ProposedInv', RoundsInv, ~misled',
         [RecoveryNext]_recoveryVars
  PROVE  [Slot!RestartNext]_(Slot!vars) /\ RoundsInv'
<1>1. CASE [SafeNext]_vars
  BY <1>1, SlotStep, RoundsStep DEF CountingInv, Slot!RestartNext
<1>2. ASSUME NEW s \in Servers, NEW log, StartAgain(s, log)
      PROVE  Slot!RestartNext /\ RoundsInv'
  <2>1. RoundsInv'
    BY <1>2 DEF StartAgain, RoundsInv, Sent, Votes, Prepared
  <2>2. Slot!RestartNext
    BY <1>2, StartAgainInSlot DEF CountingInv, Slot!RestartNext
  <2>3. QED  BY <2>1, <2>2
<1>3. ASSUME NEW m \in msgs, AssertFails(m)
      PROVE  UNCHANGED Slot!vars /\ RoundsInv'
  <2>1. SlotQuiet /\ UNCHANGED msgs
    BY <1>3 DEF AssertFails, SlotQuiet, Sent, Told, learnerVars
  <2>2. UNCHANGED Chosen /\ RoundsInv'
    BY <2>1 DEF Chosen, ChosenAt, Voters, RoundsInv, Sent, Votes, Prepared
  <2>3. QED  BY <2>1, <2>2, QuietSlot
<1>4. QED  BY <1>1, <1>2, <1>3, RecoverySteps

(* Until a proposer is misled, the restarting instance is the slot that    *)
(* PaxosServerRestart builds on: a restart forgets a majority that the     *)
(* server heard of and nothing that it was informed of (learner.cpp:97).   *)
THEOREM RecoverySlotImplementation == RecoverySpec => RecoveryImplementsSlot
<1> DEFINE Rounds == ~misled => ProposedInv /\ RoundsInv
<1>1. RecoveryInit => Slot!Init /\ Rounds
  BY SlotInit, ProposedInit, RoundsInit DEF RecoveryInit
<1>2. RecoveryInv /\ RecoveryInv' /\ Rounds /\ [RecoveryNext]_recoveryVars
        => Rounds' /\ [misled' \/ Slot!RestartNext]_(Slot!vars)
  <2> SUFFICES ASSUME RecoveryInv, RecoveryInv', Rounds, [RecoveryNext]_recoveryVars,
                      ~misled'
               PROVE  Rounds' /\ [Slot!RestartNext]_(Slot!vars)
    OBVIOUS
  <2>1. CountingInv /\ CountingInv' /\ ProposedInv /\ RoundsInv
    BY MisledStays DEF RecoveryInv
  <2>2. ProposedInv'
    BY <2>1, RecoveryProposedStep
  <2>3. QED  BY <2>1, <2>2, RecoverySlotStep
<1> HIDE DEF Rounds
<1>3. QED
  BY <1>1, <1>2, RecoveryInvariance, PTL
     DEF RecoverySpec, RecoveryImplementsSlot
=============================================================================
