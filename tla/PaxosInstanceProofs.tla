------------------------ MODULE PaxosInstanceProofs ------------------------
(***************************************************************************)
(* Theorems about PaxosInstance for every number of servers, every set of  *)
(* commands and every bound.                                               *)
(***************************************************************************)
EXTENDS PaxosInstanceInv, FiniteSetTheorems, TLAPS

-----------------------------------------------------------------------------
(* The servers are finitely many. *)
LEMMA ServersFinite == IsFiniteSet(Servers) /\ Cardinality(Servers) = N
BY NAssumption, FS_Interval DEF Servers

(* Two majorities of the servers have a member in common. *)
LEMMA MajoritiesIntersect ==
  ASSUME NEW P \in SUBSET Servers, NEW Q \in SUBSET Servers,
         IsMajority(P), IsMajority(Q)
  PROVE  P \cap Q # {}
BY ServersFinite, NAssumption, FS_MajoritiesIntersect, FS_Subset, FS_CardinalityType
   DEF IsMajority

(* A set of servers that contains a majority is a majority. *)
LEMMA MajorityGrows ==
  ASSUME NEW P \in SUBSET Servers, NEW Q \in SUBSET Servers,
         P \subseteq Q, IsMajority(P)
  PROVE  IsMajority(Q)
BY ServersFinite, NAssumption, FS_Subset, FS_CardinalityType DEF IsMajority

(* Nobody is a majority of nobody. *)
LEMMA MajorityNonEmpty ==
  ASSUME NEW P, IsMajority(P)
  PROVE  P # {}
BY NAssumption, FS_EmptySet DEF IsMajority

(* No two servers share a proposal number. *)
LEMMA OwnersDiffer ==
  ASSUME NEW s \in Servers, NEW t \in Servers, NEW n \in Nat,
         Owns(s, n), Owns(t, n)
  PROVE  s = t
<1>1. PICK k \in 0 .. n : n = s + N * k
  BY DEF Owns
<1>2. PICK l \in 0 .. n : n = t + N * l
  BY DEF Owns
<1>3. N \in Nat /\ s \in Nat /\ t \in Nat /\ s < N /\ t < N
  BY NAssumption DEF Servers
<1>4. ASSUME NEW i \in Nat, NEW j \in Nat, i < j
      PROVE  N * i + N <= N * j
  <2>1. PICK d \in Nat : j = i + 1 + d
    <3>1. j - i - 1 \in Nat /\ j = i + 1 + (j - i - 1)
      BY <1>4
    <3>2. QED  BY <3>1
  <2>2. N * j = N * i + N + N * d
    BY <2>1, <1>3
  <2>3. N * d \in Nat /\ N * i \in Nat
    BY <1>3
  <2>4. QED  BY <2>2, <2>3, <1>3
<1>5. N * k \in Nat /\ N * l \in Nat
  BY <1>3
<1>6. k < l \/ l < k \/ k = l
  OBVIOUS
<1>7. CASE k < l
  <2>1. N * k + N <= N * l
    BY <1>4, <1>7
  <2>2. QED  BY <2>1, <1>1, <1>2, <1>3, <1>5
<1>8. CASE l < k
  <2>1. N * l + N <= N * k
    BY <1>4, <1>8
  <2>2. QED  BY <2>1, <1>1, <1>2, <1>3, <1>5
<1>9. CASE k = l
  BY <1>9, <1>1, <1>2, <1>3, <1>5
<1>10. QED  BY <1>6, <1>7, <1>8, <1>9

(* The next number of a server is its own too. *)
LEMMA NextIsOwned ==
  ASSUME NEW s \in Servers, NEW n \in Nat, Owns(s, n)
  PROVE  Owns(s, n + N)
<1>1. PICK k \in 0 .. n : n = s + N * k
  BY DEF Owns
<1>2. N \in Nat \ {0} /\ s \in Nat /\ N * k \in Nat
  BY NAssumption DEF Servers
<1>3. k + 1 \in 0 .. (n + N)
  BY <1>2
<1>4. n + N = s + N * (k + 1)
  BY <1>1, <1>2
<1>5. QED  BY <1>3, <1>4 DEF Owns

(* So is its first. *)
LEMMA FirstIsOwned ==
  ASSUME NEW s \in Servers
  PROVE  s + N \in Nat /\ Owns(s, s + N)
<1>1. N \in Nat \ {0} /\ s \in Nat /\ s + N = s + N * 1
  BY NAssumption DEF Servers
<1>2. QED  BY <1>1 DEF Owns

-----------------------------------------------------------------------------
(* The fields a message has by its type. *)
LEMMA MessageFields ==
  ASSUME NEW m \in Messages
  PROVE  /\ m.type \in {"PREPARE", "PROMISE", "DENIAL", "ACCEPT", "ACCEPTED", "INFORM"}
         /\ m.to \in Servers
         /\ m.type # "INFORM" => m.from \in Servers
         /\ m.type \in {"PREPARE", "ACCEPT", "ACCEPTED", "PROMISE", "INFORM"}
              => m.number \in Numbers
         /\ m.type \in {"PREPARE", "DENIAL", "ACCEPT", "ACCEPTED", "INFORM"}
              => m.value \in Values
         /\ m.type = "PROMISE" => m.value \in Values \cup {NoValue}
         /\ m.type \in {"PROMISE", "DENIAL"} => m.prepare_number \in Numbers
BY DEF Messages

(* A round of a server within the bound: what it sends is well typed.      *)
LEMMA StartRoundType ==
  ASSUME TypeOK, NEW s \in Servers, NEW v \in Values, StartRound(s, v)
  PROVE  /\ current_proposal_number' \in [Servers -> Nat]
         /\ proposer_number'   \in [Servers -> Numbers]
         /\ proposer_value'    \in [Servers -> Values \cup {NoValue}]
         /\ promised'          \in [Servers -> SUBSET Servers]
         /\ denied'            \in [Servers -> SUBSET Servers]
         /\ majority_promised' \in [Servers -> BOOLEAN]
         /\ deadline_timer'    \in [Servers -> Values \cup {NoValue}]
         /\ msgs' \subseteq Messages
<1>1. NextProposalNumber(s) \in Numbers
  BY NAssumption, MaxNumberAssumption
     DEF StartRound, WithinBound, NextProposalNumber, Numbers, TypeOK
<1>2. 0 \in Numbers
  BY MaxNumberAssumption DEF Numbers
<1>3. PrepareMessages(s, NextProposalNumber(s), v) \subseteq Messages
  BY <1>1 DEF PrepareMessages, Messages
<1>4. msgs' \subseteq Messages
  BY <1>3 DEF StartRound, Send, TypeOK
<1>5. NextProposalNumber(s) \in Nat
  BY <1>1, MaxNumberAssumption DEF Numbers
<1>6. QED  BY <1>2, <1>4, <1>5 DEF StartRound, TypeOK

(* A vote has a positive number and a command as its value. *)
LEMMA VoteType ==
  ASSUME TypeOK, NEW a, NEW n, NEW v, a \in Voters(n, v)
  PROVE  a \in Servers /\ n \in Numbers /\ v \in Values
BY MessageFields DEF Voters, Votes, TypeOK

(* A promise that reports a proposal reports a command. *)
LEMMA PromiseReportsCommand ==
  ASSUME TypeOK, PromiseInv, NEW p \in Sent("PROMISE"), p.number # 0
  PROVE  p.value \in Values
BY MessageFields DEF PromiseInv, IsProposal, Sent, TypeOK

(* A vote answers an ACCEPT, so its number is above the initial ones. *)
LEMMA VotePositive ==
  ASSUME SafeInv, NEW k \in Votes
  PROVE  k.number > 0
<1>1. PICK m \in Sent("ACCEPT") : m.number = k.number
  BY DEF SafeInv, VoteInv
<1>2. m \in Messages /\ m.from \in Nat /\ m.number \in Nat /\ m.from + N < m.number
  BY MessageFields DEF SafeInv, TypeOK, Sent, NumbersInv, Servers, Numbers
<1>3. QED  BY <1>1, <1>2, NAssumption

(* What a learner has learned is a command. *)
LEMMA LearnedType ==
  ASSUME SafeInv, NEW s \in Servers, Refuses(s)
  PROVE  learner_number[s] \in Numbers /\ learner_value[s] \in Values
<1>1. ChosenAt(learner_number[s], learner_value[s])
  BY DEF SafeInv, LearnedIsChosen
<1>2. PICK a : a \in Voters(learner_number[s], learner_value[s])
  BY <1>1, MajorityNonEmpty DEF ChosenAt
<1>3. QED  BY <1>2, VoteType DEF SafeInv

(* A vote that counts for the number a learner remembers is a vote for the *)
(* value it remembers.                                                     *)
LEMMA LearnerRemembers ==
  ASSUME SafeInv, NEW s \in Servers, ~informed[s], NEW k \in Votes,
         k.number = learner_number[s]
  PROVE  k.value = learner_value[s] /\ learner_value[s] \in Values
<1>1. PICK a : a \in Voters(learner_number[s], learner_value[s])
  BY VotePositive DEF SafeInv, LearnerInv
<1>2. PICK j \in Votes : j.number = learner_number[s] /\ j.value = learner_value[s]
  BY <1>1 DEF Voters
<1>3. PICK m1 \in Sent("ACCEPT") : m1.number = k.number /\ m1.value = k.value
  BY DEF SafeInv, VoteInv
<1>4. PICK m2 \in Sent("ACCEPT") : m2.number = j.number /\ m2.value = j.value
  BY <1>2 DEF SafeInv, VoteInv
<1>5. k.value = j.value
  BY <1>2, <1>3, <1>4 DEF SafeInv, OneValuePerNumber, Sent
<1>6. QED  BY <1>1, <1>2, <1>5, VoteType DEF SafeInv

(* Types are preserved; that an ACCEPT carries a command needs to know     *)
(* where the proposer has it from.                                         *)
LEMMA TypeStep ==
  ASSUME SafeInv, [SafeNext]_vars
  PROVE  TypeOK'
<1> USE DEF proposerVars, acceptorVars, learnerVars, timerVars
<1>0. TypeOK /\ 0 \in Numbers
  BY MaxNumberAssumption DEF Numbers, SafeInv
<1>1. CASE UNCHANGED vars
  BY <1>0, <1>1 DEF TypeOK, vars
<1>2. ASSUME NEW s \in Proposers, NEW v \in Values, Submit(s, v)
      PROVE  TypeOK'
  <2>1. s \in Servers
    BY ProposersAssumption
  <2>2. QED  BY <1>0, <1>2, <2>1, StartRoundType DEF Submit, StartRound, TypeOK
<1>3. ASSUME NEW s \in Servers, DeadlineExpires(s)
      PROVE  TypeOK'
  BY <1>0, <1>3 DEF DeadlineExpires, TypeOK
<1>4. ASSUME NEW s \in Servers, OnDeadline(s)
      PROVE  TypeOK'
  <2>1. expired' \in [Servers -> Values \cup {NoValue}]
    BY <1>0, <1>4 DEF OnDeadline, TypeOK
  <2>2. CASE StartRound(s, expired[s])
    <3>1. expired[s] \in Values
      BY <1>0, <1>4 DEF OnDeadline, TypeOK
    <3>2. QED  BY <1>0, <1>4, <2>1, <2>2, <3>1, StartRoundType DEF OnDeadline, StartRound, TypeOK
  <2>3. CASE UNCHANGED <<proposerVars, acceptorVars, learnerVars, deadline_timer, msgs>>
    BY <1>0, <1>4, <2>1, <2>3 DEF OnDeadline, TypeOK
  <2>4. QED  BY <1>0, <1>4, <2>2, <2>3 DEF OnDeadline
<1>5. ASSUME NEW m \in msgs, OnPrepare(m)
      PROVE  TypeOK'
  <2>1. m \in Messages /\ m.to \in Servers /\ m.from \in Servers
        /\ m.number \in Numbers /\ m.value \in Values
    BY <1>0, <1>5, MessageFields DEF OnPrepare, TypeOK
  <2>2. prepare_number' \in [Servers -> Numbers]
    BY <1>0, <1>5, <2>1 DEF OnPrepare, TypeOK
  <2>3. msgs' \subseteq Messages
    <3>1. CASE informed[m.to] /\ InformOutdated(m)
      <4>1. learner_number[m.to] \in Numbers /\ learner_value[m.to] \in Values
        BY <2>1, <3>1, LearnedType DEF Refuses
      <4>2. QED  BY <1>0, <2>1, <3>1, <4>1 DEF InformOutdated, Send, Messages, TypeOK
    <3>2. CASE Send({Denial(m)})
      BY <1>0, <2>1, <3>2 DEF Send, Denial, Messages, TypeOK
    <3>3. CASE Send({[type |-> "PROMISE", from |-> m.to, to |-> m.from,
                      prepare_number |-> m.number,
                      number |-> accepted_number[m.to], value |-> accepted_value[m.to]]})
      BY <1>0, <2>1, <3>3 DEF Send, Messages, TypeOK
    <3>4. QED  BY <1>0, <1>5, <3>1, <3>2, <3>3 DEF OnPrepare
  <2>4. QED  BY <1>0, <1>5, <2>2, <2>3 DEF OnPrepare, TypeOK
<1>6. ASSUME NEW m \in msgs, OnPromise(m), Timely(m)
      PROVE  TypeOK'
  <2> DEFINE s    == m.to
             best == IF Outranks(s, m) THEN m.value ELSE proposer_value[s]
  <2>1. /\ m \in Sent("PROMISE") /\ s \in Servers /\ m.from \in Servers
        /\ m.number \in Numbers /\ m.value \in Values \cup {NoValue}
    BY <1>0, <1>6, MessageFields DEF OnPromise, CompletesMajority, Sent, TypeOK
  <2>2. m.prepare_number = current_proposal_number[s] /\ m.prepare_number # s + N
    <3>1. m.prepare_number \in Nat /\ current_proposal_number[s] \in Nat /\ s \in Nat
      BY <1>0, <1>6, MaxNumberAssumption, MessageFields
         DEF OnPromise, CompletesMajority, TypeOK, Numbers, Servers
    <3>2. m.prepare_number <= current_proposal_number[s] /\ s + N < m.prepare_number
      BY <1>6, <2>1 DEF SafeInv, NumbersInv, Timely, Sent
    <3>3. QED  BY <1>6, <3>1, <3>2, NAssumption DEF OnPromise, CompletesMajority
  <2>3. current_proposal_number[s] \in Numbers
    BY <1>0, <1>6, <2>2, MessageFields DEF OnPromise, CompletesMajority, TypeOK
  <2>4. best \in Values
    <3>1. CASE Outranks(s, m)
      <4>1. m.number # 0
        BY <1>0, <2>1, <3>1 DEF Outranks, TypeOK, Numbers
      <4>2. QED  BY <2>1, <3>1, <4>1, PromiseReportsCommand DEF SafeInv
    <3>2. CASE ~Outranks(s, m)
      BY <2>1, <2>2, <3>2 DEF SafeInv, ProposerInv
    <3>3. QED  BY <3>1, <3>2
  <2>5. AcceptMessages(s, best) \subseteq Messages
    BY <2>1, <2>3, <2>4 DEF AcceptMessages, Messages
  <2>6. msgs' \subseteq Messages
    BY <1>0, <1>6, <2>5 DEF OnPromise, CompletesMajority, Send, TypeOK
  <2>7. /\ proposer_number' \in [Servers -> Numbers]
        /\ proposer_value' \in [Servers -> Values \cup {NoValue}]
        /\ promised' \in [Servers -> SUBSET Servers]
    BY <1>0, <1>6, <2>1, <2>4 DEF OnPromise, TypeOK
  <2>8. /\ majority_promised' \in [Servers -> BOOLEAN]
        /\ deadline_timer' \in [Servers -> Values \cup {NoValue}]
    <3>1. \/ /\ majority_promised' = [majority_promised EXCEPT ![s] = TRUE]
             /\ deadline_timer' = [deadline_timer EXCEPT ![s] = best]
          \/ UNCHANGED <<majority_promised, deadline_timer>>
      BY <1>6 DEF OnPromise
    <3>2. QED  BY <1>0, <2>1, <2>4, <3>1 DEF TypeOK
  <2>9. QED  BY <1>0, <1>6, <2>6, <2>7, <2>8 DEF OnPromise, TypeOK
<1>7. ASSUME NEW m \in msgs, OnDenial(m)
      PROVE  TypeOK'
  BY <1>0, <1>7, MessageFields DEF OnDenial, TypeOK
<1>8. ASSUME NEW m \in msgs, OnMajorityDenial(m)
      PROVE  TypeOK'
  <2>1. m.to \in Servers /\ m.value \in Values
    BY <1>0, <1>8, MessageFields DEF OnMajorityDenial, TypeOK
  <2>2. running' \in [Servers -> BOOLEAN]
    BY <1>0, <1>8 DEF OnMajorityDenial, TypeOK
  <2>3. CASE StartRound(m.to, m.value)
    BY <1>0, <1>8, <2>1, <2>2, <2>3, StartRoundType DEF OnMajorityDenial, StartRound, TypeOK
  <2>4. CASE UNCHANGED <<proposerVars, acceptorVars, learnerVars, deadline_timer, msgs>>
    BY <1>0, <1>8, <2>2, <2>4 DEF OnMajorityDenial, TypeOK
  <2>5. QED  BY <1>8, <2>3, <2>4 DEF OnMajorityDenial
<1>9. ASSUME NEW m \in msgs, OnAccept(m)
      PROVE  TypeOK'
  <2>1. m \in Messages /\ m.to \in Servers /\ m.from \in Servers
        /\ m.number \in Numbers /\ m.value \in Values
    BY <1>0, <1>9, MessageFields DEF OnAccept, TypeOK
  <2>2. /\ prepare_number' \in [Servers -> Numbers]
        /\ accepted_number' \in [Servers -> Numbers]
        /\ accepted_value' \in [Servers -> Values \cup {NoValue}]
    BY <1>0, <1>9, <2>1 DEF OnAccept, TypeOK
  <2>3. msgs' \subseteq Messages
    <3>1. CASE informed[m.to] /\ InformOutdated(m)
      <4>1. learner_number[m.to] \in Numbers /\ learner_value[m.to] \in Values
        BY <2>1, <3>1, LearnedType DEF Refuses
      <4>2. [type |-> "INFORM", to |-> m.from, number |-> learner_number[m.to],
             value |-> learner_value[m.to]] \in Messages
        BY <2>1, <4>1 DEF Messages
      <4>3. QED  BY <1>0, <3>1, <4>2 DEF InformOutdated, Send, TypeOK
    <3>2. CASE UNCHANGED msgs
      BY <1>0, <3>2 DEF TypeOK
    <3>3. CASE Send({[type |-> "ACCEPTED", from |-> m.to, to |-> m.from,
                      number |-> m.number, value |-> m.value]})
      BY <1>0, <2>1, <3>3 DEF Send, Messages, TypeOK
    <3>4. QED  BY <1>9, <3>1, <3>2, <3>3 DEF OnAccept
  <2>4. QED  BY <1>0, <1>9, <2>2, <2>3 DEF OnAccept, TypeOK
<1>10. ASSUME NEW m \in msgs, OnAccepted(m)
       PROVE  TypeOK'
  <2> DEFINE s == m.to
             v == IF m.number > learner_number[s] THEN m.value ELSE learner_value[s]
  <2>1. m \in Votes /\ s \in Servers /\ m.from \in Servers
        /\ m.number \in Numbers /\ m.value \in Values
    BY <1>0, <1>10, MessageFields DEF OnAccepted, TypeOK, Votes
  <2>2. v \in Values
    <3>1. CASE m.number > learner_number[s]
      BY <2>1, <3>1
    <3>2. CASE ~(m.number > learner_number[s])
      <4>1. m.number = learner_number[s]
        <5>1. m.number >= learner_number[s]
          BY <1>10 DEF OnAccepted
        <5>2. m.number \in Nat /\ learner_number[s] \in Nat
          BY <1>0, <2>1 DEF TypeOK, Numbers
        <5>3. QED  BY <3>2, <5>1, <5>2
      <4>2. QED  BY <1>10, <2>1, <3>2, <4>1, LearnerRemembers DEF OnAccepted
    <3>3. QED  BY <3>1, <3>2
  <2>3. {[type |-> "INFORM", to |-> d, number |-> m.number, value |-> v] : d \in Servers}
          \subseteq Messages
    BY <2>1, <2>2 DEF Messages
  <2>4. msgs' \subseteq Messages
    BY <1>0, <1>10, <2>3 DEF OnAccepted, Send, TypeOK
  <2>5. accepted_by' \in [Servers -> SUBSET Servers]
    BY <1>0, <1>10, <2>1 DEF OnAccepted, AcceptedWith, TypeOK
  <2>6. /\ learner_number' \in [Servers -> Numbers]
        /\ learner_value' \in [Servers -> Values \cup {NoValue}]
        /\ learned_majority' \in [Servers -> BOOLEAN]
        /\ deadline_timer' \in [Servers -> Values \cup {NoValue}]
    BY <1>0, <1>10, <2>1, <2>2 DEF OnAccepted, TypeOK
  <2>7. QED  BY <1>0, <1>10, <2>4, <2>5, <2>6 DEF OnAccepted, TypeOK
<1>11. ASSUME NEW m \in msgs, OnInform(m)
       PROVE  TypeOK'
  <2>1. m.to \in Servers /\ m.number \in Numbers /\ m.value \in Values
    BY <1>0, <1>11, MessageFields DEF OnInform, TypeOK
  <2>2. QED  BY <1>0, <1>11, <2>1 DEF OnInform, TypeOK
<1>12. QED
  BY <1>1, <1>2, <1>3, <1>4, <1>5, <1>6, <1>7, <1>8, <1>9, <1>10, <1>11
     DEF SafeNext, Dispatch

-----------------------------------------------------------------------------
(* Voters, safe values and chosen values stay what they are as long as     *)
(* messages are not withdrawn, acceptors do not lower prepare_number, and  *)
(* every new vote is at least its acceptor's prepare_number.               *)
LEMMA Stable ==
  ASSUME TypeOK, TypeOK',
         msgs \subseteq msgs',
         \A a \in Servers : prepare_number[a] <= prepare_number'[a],
         \A k \in Votes' \ Votes : prepare_number[k.from] <= k.number
  PROVE  /\ \A n, v : Voters(n, v) \subseteq Voters(n, v)'
         /\ \A n, v : ChosenAt(n, v) => ChosenAt(n, v)'
         /\ \A n \in Nat : \A v : SafeAt(n, v) => SafeAt(n, v)'
<1>1. \A n, v : Voters(n, v) \subseteq Voters(n, v)'
  BY DEF Voters, Votes
<1>2. \A n, v : Voters(n, v) \in SUBSET Servers /\ Voters(n, v)' \in SUBSET Servers
  <2>1. \A k \in Votes : k.from \in Servers
    BY MessageFields DEF Votes, TypeOK
  <2>2. \A k \in Votes' : k.from \in Servers
    BY MessageFields DEF Votes, TypeOK
  <2>3. QED  BY <2>1, <2>2 DEF Voters
<1>3. \A n, v : ChosenAt(n, v) => ChosenAt(n, v)'
  BY <1>1, <1>2, MajorityGrows DEF ChosenAt
<1>4. ASSUME NEW n \in Nat, NEW v, SafeAt(n, v)
      PROVE  SafeAt(n, v)'
  <2> SUFFICES ASSUME NEW c \in 0 .. (n - 1)
               PROVE  IsMajority(Voters(c, v) \cup Abstainers(c))'
    BY DEF SafeAt
  <2>1. IsMajority(Voters(c, v) \cup Abstainers(c))
    BY <1>4 DEF SafeAt
  <2>2. ASSUME NEW a \in Abstainers(c)
        PROVE  a \in Abstainers(c)'
    <3>1. a \in Servers /\ prepare_number[a] > c
      BY DEF Abstainers
    <3>2. prepare_number[a] \in Nat /\ prepare_number'[a] \in Nat /\ c \in Nat
      BY <3>1, MaxNumberAssumption DEF TypeOK, Numbers
    <3>3. prepare_number'[a] > c
      BY <3>1, <3>2
    <3>4. ASSUME NEW k \in Votes', k.from = a
          PROVE  k.number # c
      <4>1. CASE k \in Votes
        BY <4>1, <3>4 DEF Abstainers
      <4>2. CASE k \notin Votes
        <5>1. prepare_number[a] <= k.number
          BY <4>2, <3>4
        <5>2. k.number \in Nat
          BY MessageFields, MaxNumberAssumption DEF Votes, TypeOK, Numbers
        <5>3. QED  BY <5>1, <5>2, <3>1, <3>2
      <4>3. QED  BY <4>1, <4>2
    <3>5. QED  BY <3>1, <3>3, <3>4 DEF Abstainers
  <2>3. Voters(c, v) \cup Abstainers(c) \in SUBSET Servers
    BY <1>2 DEF Abstainers
  <2>4. (Voters(c, v) \cup Abstainers(c))' \in SUBSET Servers
    BY <1>2 DEF Abstainers
  <2>5. Voters(c, v) \cup Abstainers(c) \subseteq (Voters(c, v) \cup Abstainers(c))'
    BY <1>1, <2>2
  <2>6. QED  BY <2>1, <2>3, <2>4, <2>5, MajorityGrows DEF IsMajority
<1>5. QED  BY <1>1, <1>3, <1>4

(* The conjuncts of SafeInv that speak of msgs, the acceptors and chosen      *)
(* values survive a step that adds no vote and moves no acceptor.          *)
LEMMA NoVoteStable ==
  ASSUME TypeOK, TypeOK', msgs \subseteq msgs', Votes' = Votes,
         \A a \in Servers : prepare_number[a] <= prepare_number'[a]
  PROVE  /\ \A n, v : Voters(n, v)' = Voters(n, v)
         /\ \A n, v : ChosenAt(n, v)' = ChosenAt(n, v)
         /\ \A n \in Nat : \A v : SafeAt(n, v) => SafeAt(n, v)'
<1>1. \A n, v : Voters(n, v)' = Voters(n, v)
  BY DEF Voters
<1>2. \A n, v : ChosenAt(n, v)' = ChosenAt(n, v)
  BY <1>1 DEF ChosenAt
<1>3. QED  BY <1>1, <1>2, Stable

-----------------------------------------------------------------------------
(* The invariant but for the types: TypeStep shows those. *)
Parts ==
  /\ NumbersInv
  /\ ProposerInv
  /\ AcceptorInv
  /\ PromiseInv
  /\ AcceptInv
  /\ OneValuePerNumber
  /\ VoteInv
  /\ LearnerInv
  /\ LearnedIsChosen

LEMMA PartsOfSafeInv == SafeInv <=> TypeOK /\ Parts
BY DEF SafeInv, Parts

(* The numbers that occur are natural numbers. *)
LEMMA NaturalNumbers ==
  ASSUME TypeOK
  PROVE  /\ N \in Nat \ {0} /\ Servers \subseteq Nat /\ Numbers \subseteq Nat
         /\ \A s \in Servers :
              /\ current_proposal_number[s] \in Nat /\ proposer_number[s] \in Nat
              /\ prepare_number[s] \in Nat /\ accepted_number[s] \in Nat
              /\ learner_number[s] \in Nat
         /\ \A m \in msgs :
              /\ m.to \in Servers
              /\ m.type # "INFORM" => m.from \in Servers
              /\ m.type # "DENIAL" => m.number \in Nat
              /\ m.type \in {"PROMISE", "DENIAL"} => m.prepare_number \in Nat
<1>1. N \in Nat \ {0} /\ Servers \subseteq Nat /\ Numbers \subseteq Nat
  BY NAssumption, MaxNumberAssumption DEF Servers, Numbers
<1>2. \A m \in msgs : m \in Messages
  BY DEF TypeOK
<1>3. QED  BY <1>1, <1>2, MessageFields DEF TypeOK

(* A new round preserves the invariant: it takes the next number of its    *)
(* server, for which no answer and no ACCEPT exists.                       *)
LEMMA StartRoundInv ==
  ASSUME SafeInv, TypeOK', NEW s \in Servers, NEW v \in Values, StartRound(s, v)
  PROVE  Parts'
<1>1. TypeOK /\ Parts
  BY PartsOfSafeInv
<1>2. /\ current_proposal_number' =
           [current_proposal_number EXCEPT ![s] = current_proposal_number[s] + N]
      /\ \A t \in Servers : current_proposal_number'[t] =
           IF t = s THEN current_proposal_number[t] + N ELSE current_proposal_number[t]
  BY <1>1 DEF StartRound, NextProposalNumber, TypeOK
<1>3. \A m \in msgs' : m \in msgs \/
        (/\ m.type = "PREPARE" /\ m.from = s
         /\ m.number = current_proposal_number[s] + N)
  BY DEF StartRound, Send, PrepareMessages, NextProposalNumber
<1>4. /\ msgs \subseteq msgs'
      /\ \A type : type # "PREPARE" => Sent(type)' = Sent(type)
  BY <1>3 DEF StartRound, Send, Sent
<1>5. Votes' = Votes
  BY <1>4 DEF Sent, Votes
<1>6. UNCHANGED <<prepare_number, accepted_number, accepted_value, learner_number,
                  learner_value, accepted_by, learned_majority, informed>>
  BY DEF StartRound, acceptorVars, learnerVars
<1>7. /\ \A n, w : Voters(n, w)' = Voters(n, w)
      /\ \A n, w : ChosenAt(n, w)' = ChosenAt(n, w)
      /\ \A n \in Nat : \A w : SafeAt(n, w) => SafeAt(n, w)'
  BY <1>1, <1>4, <1>5, <1>6, NoVoteStable, NaturalNumbers
<1>8. NumbersInv'
  <2>1. ASSUME NEW t \in Servers
        PROVE  Owns(t, current_proposal_number'[t])
               /\ t + N <= current_proposal_number'[t]
    BY <1>1, <1>2, NextIsOwned, NaturalNumbers DEF Parts, NumbersInv
  <2>2. ASSUME NEW m \in (Sent("PREPARE") \cup Sent("ACCEPT"))'
        PROVE  m.from + N < m.number
    <3>1. CASE m \in msgs
      BY <1>1, <2>2, <3>1 DEF Parts, NumbersInv, Sent
    <3>2. CASE m \notin msgs
      BY <1>1, <1>2, <1>3, <2>1, <2>2, <3>2, NaturalNumbers DEF Parts, NumbersInv, Sent
    <3>3. QED  BY <3>1, <3>2
  <2>3. QED  BY <1>1, <1>4, <2>1, <2>2 DEF Parts, NumbersInv
<1>9. ProposerInv'
  <2> SUFFICES ASSUME NEW t \in Servers
               PROVE  (/\ current_proposal_number[t] # t + N => proposer_value[t] \in Values
                       /\ \A a \in promised[t] : \E p \in Sent("PROMISE") :
                            CountedPromise(t, p) /\ p.from = a
                            /\ p.number <= proposer_number[t]
                       /\ proposer_number[t] # 0 => \E p \in Sent("PROMISE") :
                            /\ CountedPromise(t, p)
                            /\ p.number = proposer_number[t]
                            /\ p.value = proposer_value[t])'
    BY DEF ProposerInv
  <2>1. CASE t = s
    BY <1>1, <2>1 DEF StartRound, TypeOK
  <2>2. CASE t # s
    <3>1. /\ proposer_value'[t] = proposer_value[t] /\ promised'[t] = promised[t]
          /\ proposer_number'[t] = proposer_number[t]
          /\ current_proposal_number'[t] = current_proposal_number[t]
      BY <1>1, <1>2, <2>2 DEF StartRound, TypeOK
    <3>2. Sent("PROMISE")' = Sent("PROMISE")
      BY <1>4
    <3>3. QED  BY <1>1, <3>1, <3>2 DEF Parts, ProposerInv, CountedPromise
  <2>3. QED  BY <2>1, <2>2
<1>10. AcceptorInv'
  BY <1>1, <1>4, <1>5, <1>6 DEF Parts, AcceptorInv, IsProposal
<1>11. PromiseInv'
  BY <1>1, <1>4, <1>5, <1>6, <1>7 DEF Parts, PromiseInv, IsProposal
<1>12. AcceptInv'
  <2>1. \A m \in Sent("ACCEPT") : m.number \in Nat
    BY <1>1, NaturalNumbers DEF Sent
  <2>2. QED  BY <1>1, <1>4, <1>7, <2>1 DEF Parts, AcceptInv
<1>13. OneValuePerNumber'
  BY <1>1, <1>4 DEF Parts, OneValuePerNumber, Sent
<1>14. VoteInv'
  BY <1>1, <1>4, <1>5 DEF Parts, VoteInv
<1>15. LearnerInv'
  BY <1>1, <1>6, <1>7 DEF Parts, LearnerInv
<1>16. LearnedIsChosen'
  BY <1>1, <1>3, <1>6, <1>7 DEF Parts, LearnedIsChosen, Refuses
<1>17. QED
  BY <1>8, <1>9, <1>10, <1>11, <1>12, <1>13, <1>14, <1>15, <1>16 DEF Parts

(* Timers, denials short of a majority and the death of a process change   *)
(* nothing the invariant speaks of.                                        *)
LEMMA IdleInv ==
  ASSUME Parts,
         UNCHANGED <<current_proposal_number, proposer_number, proposer_value, promised,
                     majority_promised, acceptorVars, learnerVars, msgs>>
  PROVE  Parts'
BY DEF Parts, NumbersInv, ProposerInv, AcceptorInv, PromiseInv, AcceptInv,
       OneValuePerNumber, VoteInv, LearnerInv, LearnedIsChosen, CountedPromise,
       IsProposal, SafeAt, Abstainers, ChosenAt, Voters, Votes, Sent, Refuses,
       acceptorVars, learnerVars

-----------------------------------------------------------------------------
(* A promise that the proposer counts answers the round it is running.     *)
LEMMA PromiseIsCurrent ==
  ASSUME SafeInv, NEW m \in msgs, OnPromise(m), Timely(m)
  PROVE  /\ m \in Sent("PROMISE") /\ m.to \in Servers /\ m.from \in Servers
         /\ m.number \in Nat
         /\ m.prepare_number = current_proposal_number[m.to]
         /\ current_proposal_number[m.to] # m.to + N
         /\ current_proposal_number[m.to] \in Nat
<1>1. TypeOK /\ m.type = "PROMISE" /\ m.prepare_number >= current_proposal_number[m.to]
  BY DEF SafeInv, OnPromise, CompletesMajority
<1>2. m \in Sent("PROMISE")
  BY <1>1 DEF Sent
<1>3. /\ m.to \in Servers /\ m.from \in Servers /\ m.number \in Nat /\ m.to \in Nat
      /\ m.prepare_number \in Nat /\ current_proposal_number[m.to] \in Nat /\ N \in Nat
  BY <1>1, NaturalNumbers
<1>4. m.prepare_number <= current_proposal_number[m.to] /\ m.to + N < m.prepare_number
  BY <1>1, <1>2 DEF SafeInv, NumbersInv, Timely
<1>5. QED  BY <1>1, <1>2, <1>3, <1>4

(* After the promise the proposer's record of its promises is right.       *)
LEMMA OnPromiseProposer ==
  ASSUME SafeInv, TypeOK', NEW m \in msgs, OnPromise(m), Timely(m)
  PROVE  ProposerInv'
<1> DEFINE s == m.to
<1>1. TypeOK /\ ProposerInv
  BY DEF SafeInv
<1>2. /\ m \in Sent("PROMISE") /\ s \in Servers /\ m.from \in Servers
      /\ CountedPromise(s, m) /\ m.number \in Nat
      /\ current_proposal_number' = current_proposal_number
  BY PromiseIsCurrent DEF CountedPromise, OnPromise, CompletesMajority
<1>3. Sent("PROMISE")' = Sent("PROMISE")
  BY DEF OnPromise, CompletesMajority, Send, AcceptMessages, Sent
<1>4. \A t \in Servers \ {s} :
        /\ proposer_number'[t] = proposer_number[t]
        /\ proposer_value'[t] = proposer_value[t] /\ promised'[t] = promised[t]
  BY <1>1 DEF OnPromise, CompletesMajority, TypeOK
<1>5. /\ promised'[s] = promised[s] \cup {m.from}
      /\ proposer_number'[s] = IF Outranks(s, m) THEN m.number ELSE proposer_number[s]
      /\ proposer_value'[s] = IF Outranks(s, m) THEN m.value ELSE proposer_value[s]
  BY <1>1, <1>2 DEF OnPromise, CompletesMajority, TypeOK
<1>6. /\ proposer_number[s] \in Nat /\ proposer_number'[s] \in Nat
      /\ proposer_number[s] <= proposer_number'[s] /\ m.number <= proposer_number'[s]
  BY <1>1, <1>2, <1>5, NaturalNumbers DEF Outranks
<1> SUFFICES ASSUME NEW t \in Servers
             PROVE  (/\ current_proposal_number[t] # t + N => proposer_value[t] \in Values
                     /\ \A a \in promised[t] : \E p \in Sent("PROMISE") :
                          CountedPromise(t, p) /\ p.from = a
                          /\ p.number <= proposer_number[t]
                     /\ proposer_number[t] # 0 => \E p \in Sent("PROMISE") :
                          /\ CountedPromise(t, p)
                          /\ p.number = proposer_number[t]
                          /\ p.value = proposer_value[t])'
  BY DEF ProposerInv
<1>7. CASE t # s
  BY <1>1, <1>2, <1>3, <1>4, <1>7 DEF ProposerInv, CountedPromise
<1>8. CASE t = s
  <2>1. proposer_value'[s] \in Values
    <3>1. CASE Outranks(s, m)
      <4>1. m.number # 0
        BY <1>1, <1>2, <3>1, NaturalNumbers DEF Outranks
      <4>2. QED  BY <1>2, <1>5, <3>1, <4>1, PromiseReportsCommand DEF SafeInv
    <3>2. CASE ~Outranks(s, m)
      BY <1>1, <1>2, <1>5, <3>2, PromiseIsCurrent DEF ProposerInv
    <3>3. QED  BY <3>1, <3>2
  <2>2. ASSUME NEW a \in promised'[s]
        PROVE  \E p \in Sent("PROMISE")' : CountedPromise(s, p)' /\ p.from = a
                                           /\ p.number <= proposer_number'[s]
    <3>1. CASE a = m.from
      BY <1>2, <1>3, <1>6, <3>1 DEF CountedPromise
    <3>2. CASE a # m.from
      <4>1. PICK p \in Sent("PROMISE") : CountedPromise(s, p) /\ p.from = a
                                         /\ p.number <= proposer_number[s]
        BY <1>1, <1>2, <1>5, <2>2, <3>2 DEF ProposerInv
      <4>2. p.number \in Nat
        BY <1>1, NaturalNumbers DEF Sent
      <4>3. QED  BY <1>2, <1>3, <1>6, <4>1, <4>2 DEF CountedPromise
    <3>3. QED  BY <3>1, <3>2
  <2>3. ASSUME proposer_number'[s] # 0
        PROVE  \E p \in Sent("PROMISE")' :
                 /\ CountedPromise(s, p)'
                 /\ p.number = proposer_number'[s] /\ p.value = proposer_value'[s]
    <3>1. CASE Outranks(s, m)
      BY <1>2, <1>3, <1>5, <3>1 DEF CountedPromise
    <3>2. CASE ~Outranks(s, m)
      BY <1>1, <1>2, <1>3, <1>5, <2>3, <3>2 DEF ProposerInv, CountedPromise
    <3>3. QED  BY <3>1, <3>2
  <2>4. QED  BY <1>8, <2>1, <2>2, <2>3
<1>9. QED  BY <1>7, <1>8

(* The heart of the matter.  Let a majority promise round b, none of them  *)
(* reporting a proposal above r, and let v be what one of them reports at  *)
(* r, unless r is 0.  Then v is safe at b.                                 *)
LEMMA PromisesMakeSafe ==
  ASSUME SafeInv, NEW b \in Nat, NEW r \in Nat, NEW v, NEW Q \in SUBSET Servers,
         IsMajority(Q),
         \A a \in Q : \E p \in Sent("PROMISE") :
            p.prepare_number = b /\ p.from = a /\ p.number <= r,
         r # 0 => \E p \in Sent("PROMISE") :
            p.prepare_number = b /\ p.number = r /\ p.value = v
  PROVE  SafeAt(b, v)
<1>1. TypeOK /\ PromiseInv /\ AcceptInv /\ OneValuePerNumber /\ VoteInv
  BY DEF SafeInv
<1> SUFFICES ASSUME NEW c \in 0 .. (b - 1)
             PROVE  IsMajority(Voters(c, v) \cup Abstainers(c))
  BY DEF SafeAt
<1>2. Voters(c, v) \cup Abstainers(c) \in SUBSET Servers
  BY <1>1, VoteType DEF Abstainers
<1>3. c \in Nat /\ c < b
  OBVIOUS
<1>4. \A a \in Q : prepare_number[a] > c
  <2> TAKE a \in Q
  <2>1. PICK p \in Sent("PROMISE") : p.prepare_number = b /\ p.from = a
    OBVIOUS
  <2>2. b <= prepare_number[a]
    BY <1>1, <2>1 DEF PromiseInv
  <2>3. prepare_number[a] \in Nat
    BY <1>1, NaturalNumbers
  <2>4. QED  BY <1>3, <2>2, <2>3
<1>5. ASSUME NEW a \in Q, NEW k \in Votes, k.from = a
      PROVE  k.number \in Nat /\ (k.number <= r \/ k.number >= b)
  <2>1. PICK p \in Sent("PROMISE") : /\ p.prepare_number = b /\ p.from = a
                                     /\ p.number <= r
    OBVIOUS
  <2>2. k.number <= p.number \/ k.number >= b
    BY <1>1, <1>5, <2>1 DEF PromiseInv
  <2>3. k.number \in Nat /\ p.number \in Nat
    BY <1>1, <2>1, NaturalNumbers DEF Votes, Sent
  <2>4. QED  BY <2>1, <2>2, <2>3
<1>6. CASE c > r
  <2>1. Q \subseteq Abstainers(c)
    BY <1>3, <1>4, <1>5, <1>6 DEF Abstainers
  <2>2. QED  BY <1>2, <2>1, MajorityGrows
<1>7. CASE c <= r /\ r # 0
  <2>1. PICK p \in Sent("PROMISE") :
               p.prepare_number = b /\ p.number = r /\ p.value = v
    BY <1>7
  <2>2. PICK m \in Sent("ACCEPT") : m.number = r /\ m.value = v
    BY <1>1, <1>7, <2>1 DEF PromiseInv, IsProposal
  <2>3. CASE c < r
    <3>1. SafeAt(r, v)
      BY <1>1, <2>2 DEF AcceptInv
    <3>2. QED  BY <1>3, <2>3, <3>1 DEF SafeAt
  <2>4. CASE c = r
    <3>1. \A k \in Votes : k.number = r => k.value = v
      <4> TAKE k \in Votes
      <4> HAVE k.number = r
      <4>1. PICK m2 \in Sent("ACCEPT") : m2.number = k.number /\ m2.value = k.value
        BY <1>1 DEF VoteInv
      <4>2. QED  BY <1>1, <2>2, <4>1 DEF OneValuePerNumber, Sent
    <3>2. Q \subseteq Voters(r, v) \cup Abstainers(r)
      BY <1>4, <2>4, <3>1 DEF Voters, Abstainers
    <3>3. QED  BY <1>2, <2>4, <3>2, MajorityGrows
  <2>5. QED  BY <1>7, <2>3, <2>4
<1>8. CASE c <= r /\ r = 0
  <2>1. \A k \in Votes : k.number # c
    BY <1>8, <1>3, VotePositive
  <2>2. Q \subseteq Abstainers(c)
    BY <1>4, <2>1 DEF Abstainers
  <2>3. QED  BY <1>2, <2>2, MajorityGrows
<1>9. QED  BY <1>3, <1>6, <1>7, <1>8

(* A promise preserves the invariant. *)
LEMMA OnPromiseInv ==
  ASSUME SafeInv, TypeOK', NEW m \in msgs, OnPromise(m), Timely(m)
  PROVE  Parts'
<1> DEFINE s    == m.to
           n    == current_proposal_number[s]
           best == IF Outranks(s, m) THEN m.value ELSE proposer_value[s]
           acks == promised[s] \cup {m.from}
           done == IsMajority(acks) /\ ~majority_promised[s]
<1>1. TypeOK /\ Parts
  BY PartsOfSafeInv
<1>2. /\ s \in Servers /\ n \in Nat /\ s + N \in Nat /\ n # s + N /\ s + N <= n /\ Owns(s, n)
      /\ current_proposal_number' = current_proposal_number
      /\ proposer_value'[s] = best /\ promised'[s] = acks
  <2>1. /\ s \in Servers /\ n \in Nat /\ n # s + N
        /\ current_proposal_number' = current_proposal_number
    BY PromiseIsCurrent DEF OnPromise, CompletesMajority
  <2>2. s + N \in Nat /\ s + N <= n /\ Owns(s, n)
    BY <1>1, <2>1, NaturalNumbers DEF Parts, NumbersInv
  <2>3. proposer_value'[s] = best /\ promised'[s] = acks
    BY <1>1, <2>1 DEF OnPromise, CompletesMajority, TypeOK
  <2>4. QED  BY <2>1, <2>2, <2>3
<1>3. UNCHANGED <<prepare_number, accepted_number, accepted_value, learner_number,
                  learner_value, accepted_by, learned_majority, informed>>
  BY DEF OnPromise, CompletesMajority, acceptorVars, learnerVars
<1>4. \A k \in msgs' : k \in msgs \/
        (/\ done /\ k.type = "ACCEPT" /\ k.from = s /\ k.number = n /\ k.value = best)
  BY DEF OnPromise, CompletesMajority, Send, AcceptMessages
<1>5. /\ msgs \subseteq msgs'
      /\ \A type : type # "ACCEPT" => Sent(type)' = Sent(type)
  BY <1>4 DEF OnPromise, CompletesMajority, Send, Sent
<1>6. Votes' = Votes
  BY <1>5 DEF Sent, Votes
<1>7. /\ \A i, w : Voters(i, w)' = Voters(i, w)
      /\ \A i, w : ChosenAt(i, w)' = ChosenAt(i, w)
      /\ \A i \in Nat : \A w : SafeAt(i, w) => SafeAt(i, w)'
  BY <1>1, <1>3, <1>5, <1>6, NoVoteStable, NaturalNumbers
<1>8. Sent("ACCEPT") \subseteq Sent("ACCEPT")'
  BY <1>5 DEF Sent
<1>9. NumbersInv'
  <2>1. ASSUME NEW k \in (Sent("PREPARE") \cup Sent("ACCEPT"))'
        PROVE  k.from + N < k.number
    <3>1. CASE k \in msgs
      BY <1>1, <1>2, <2>1, <3>1 DEF Parts, NumbersInv, Sent
    <3>2. CASE k \notin msgs
      BY <1>2, <1>4, <2>1, <3>2 DEF Sent
    <3>3. QED  BY <3>1, <3>2
  <2>2. QED  BY <1>1, <1>2, <1>5, <2>1 DEF Parts, NumbersInv
<1>10. ProposerInv'
  BY OnPromiseProposer
<1>11. AcceptorInv'
  BY <1>1, <1>3, <1>6, <1>8 DEF Parts, AcceptorInv, IsProposal
<1>12. PromiseInv'
  BY <1>1, <1>3, <1>5, <1>6, <1>8 DEF Parts, PromiseInv, IsProposal
<1>13. ASSUME done
       PROVE  SafeAt(n, best)
  <2> DEFINE r == proposer_number'[s]
  <2>1. /\ Sent("PROMISE")' = Sent("PROMISE")
        /\ \A p : CountedPromise(s, p)' => p.prepare_number = n
    BY <1>2, <1>5 DEF CountedPromise
  <2>2. /\ \A a \in acks : \E p \in Sent("PROMISE") :
             p.prepare_number = n /\ p.from = a /\ p.number <= r
        /\ r # 0 => \E p \in Sent("PROMISE") :
             p.prepare_number = n /\ p.number = r /\ p.value = best
    <3>1. /\ \A a \in promised'[s] : \E p \in Sent("PROMISE")' :
               CountedPromise(s, p)' /\ p.from = a /\ p.number <= r
          /\ r # 0 => \E p \in Sent("PROMISE")' :
               CountedPromise(s, p)' /\ p.number = r /\ p.value = proposer_value'[s]
      BY <1>2, <1>10 DEF ProposerInv
    <3> HIDE DEF n, best, acks, r
    <3>2. QED  BY <1>2, <2>1, <3>1
  <2>3. r \in Nat /\ acks \in SUBSET Servers
    BY <1>1, <1>2, PromiseIsCurrent, NaturalNumbers DEF TypeOK
  <2>4. QED  BY <1>2, <1>13, <2>2, <2>3, PromisesMakeSafe
<1>14. AcceptInv'
  <2> SUFFICES ASSUME NEW k \in Sent("ACCEPT")'
               PROVE  (/\ Owns(k.from, k.number)
                       /\ SafeAt(k.number, k.value))'
    BY DEF AcceptInv
  <2>1. CASE k \in msgs
    <3>1. k \in Sent("ACCEPT") /\ k.from \in Servers /\ k.number \in Nat
      BY <1>1, <2>1, NaturalNumbers DEF Sent
    <3>2. QED  BY <1>1, <1>7, <3>1 DEF Parts, AcceptInv
  <2>2. CASE k \notin msgs
    <3>1. done /\ k.from = s /\ k.number = n /\ k.value = best
      BY <1>4, <2>2 DEF Sent
    <3>2. QED  BY <1>2, <1>7, <1>13, <3>1
  <2>3. QED  BY <2>1, <2>2
<1>15. ASSUME done, NEW k \in Sent("ACCEPT"), k.number = n
       PROVE  FALSE
  BY <1>15 DEF OnPromise, Timely, CompletesMajority
<1>16. OneValuePerNumber'
  <2> SUFFICES ASSUME NEW k1 \in Sent("ACCEPT")', NEW k2 \in Sent("ACCEPT")',
                      k1.number = k2.number
               PROVE  k1.value = k2.value
    BY DEF OneValuePerNumber, Sent
  <2>1. CASE k1 \in msgs /\ k2 \in msgs
    BY <1>1, <2>1 DEF Parts, OneValuePerNumber, Sent
  <2>2. CASE k1 \notin msgs /\ k2 \notin msgs
    BY <1>4, <2>2 DEF Sent
  <2>3. CASE k1 \in msgs /\ k2 \notin msgs
    BY <1>4, <1>15, <2>3 DEF Sent
  <2>4. CASE k1 \notin msgs /\ k2 \in msgs
    BY <1>4, <1>15, <2>4 DEF Sent
  <2>5. QED  BY <2>1, <2>2, <2>3, <2>4
<1>17. VoteInv'
  BY <1>1, <1>5, <1>6 DEF Parts, VoteInv, Sent
<1>18. LearnerInv'
  BY <1>1, <1>3, <1>7 DEF Parts, LearnerInv
<1>19. LearnedIsChosen'
  BY <1>1, <1>3, <1>4, <1>7 DEF Parts, LearnedIsChosen, Refuses
<1>20. QED
  BY <1>9, <1>10, <1>11, <1>12, <1>14, <1>16, <1>17, <1>18, <1>19 DEF Parts

-----------------------------------------------------------------------------
(* Answering a PREPARE preserves the invariant: a promise reports the last *)
(* vote of its acceptor, and prepare_number only rises.                    *)
LEMMA OnPrepareInv ==
  ASSUME SafeInv, TypeOK', NEW m \in msgs, OnPrepare(m)
  PROVE  Parts'
<1> DEFINE a == m.to
<1>1. TypeOK /\ Parts
  BY PartsOfSafeInv
<1>2. /\ m \in Sent("PREPARE") /\ a \in Servers /\ m.from \in Servers /\ m.number \in Nat
      /\ m.from + N < m.number
  <2>1. m \in Sent("PREPARE")
    BY DEF OnPrepare, Sent
  <2>2. QED  BY <1>1, <2>1, NaturalNumbers DEF Sent, Parts, NumbersInv
<1>3. UNCHANGED <<current_proposal_number, proposer_number, proposer_value, promised,
                  majority_promised, accepted_number, accepted_value, learner_number,
                  learner_value, accepted_by, learned_majority, informed>>
  BY DEF OnPrepare, proposerVars, learnerVars
<1>4. \A k \in msgs' : k \in msgs
        \/ (/\ k.type = "INFORM" /\ informed[a]
            /\ k.number = learner_number[a] /\ k.value = learner_value[a])
        \/ (k.type = "DENIAL" /\ k.to = m.from /\ k.prepare_number = m.number)
        \/ (/\ k.type = "PROMISE" /\ k.to = m.from /\ k.prepare_number = m.number
            /\ k.from = a /\ prepare_number'[a] = m.number
            /\ k.number = accepted_number[a] /\ k.value = accepted_value[a])
  BY <1>1, <1>2 DEF OnPrepare, Send, InformOutdated, Denial, TypeOK
<1>5. /\ msgs \subseteq msgs'
      /\ \A type : type \in {"PREPARE", "ACCEPT", "ACCEPTED"} => Sent(type)' = Sent(type)
      /\ Sent("PROMISE") \subseteq Sent("PROMISE")'
  <2>1. msgs \subseteq msgs'
    BY DEF OnPrepare, Send, InformOutdated
  <2>2. QED  BY <1>4, <2>1 DEF Sent
<1>6. Votes' = Votes
  BY <1>5 DEF Sent, Votes
<1>7. \A b \in Servers : prepare_number[b] <= prepare_number'[b]
  <2> TAKE b \in Servers
  <2>1. CASE prepare_number' = prepare_number
    BY <1>1, <2>1, NaturalNumbers
  <2>2. CASE CanPromise(a, m.number)
             /\ prepare_number' = [prepare_number EXCEPT ![a] = m.number]
    <3>1. prepare_number \in [Servers -> Numbers] /\ prepare_number[a] \in Nat
          /\ prepare_number[b] \in Nat
      BY <1>1, <1>2, NaturalNumbers DEF TypeOK
    <3>2. QED  BY <1>2, <2>2, <3>1 DEF CanPromise
  <2>3. QED  BY <2>1, <2>2 DEF OnPrepare
<1>8. /\ \A i, w : Voters(i, w)' = Voters(i, w)
      /\ \A i, w : ChosenAt(i, w)' = ChosenAt(i, w)
      /\ \A i \in Nat : \A w : SafeAt(i, w) => SafeAt(i, w)'
  BY <1>1, <1>5, <1>6, <1>7, NoVoteStable
<1>9. NumbersInv'
  <2>1. ASSUME NEW k \in Sent("PROMISE")'
        PROVE  k.to + N < k.prepare_number
    <3>1. CASE k \in msgs
      BY <1>1, <2>1, <3>1 DEF Parts, NumbersInv, Sent
    <3>2. CASE k \notin msgs
      BY <1>2, <1>4, <2>1, <3>2 DEF Sent
    <3>3. QED  BY <3>1, <3>2
  <2>2. QED  BY <1>1, <1>3, <1>5, <2>1 DEF Parts, NumbersInv
<1>10. ProposerInv'
  BY <1>1, <1>3, <1>5 DEF Parts, ProposerInv, CountedPromise
<1>11. AcceptorInv'
  <2> SUFFICES ASSUME NEW b \in Servers
               PROVE  (/\ accepted_number[b] <= prepare_number[b]
                       /\ IsProposal(accepted_number[b], accepted_value[b])
                       /\ \A k \in Votes : k.from = b => k.number <= accepted_number[b])'
    BY DEF AcceptorInv
  <2>1. accepted_number'[b] <= prepare_number'[b]
    <3>1. accepted_number[b] <= prepare_number[b]
      BY <1>1 DEF Parts, AcceptorInv
    <3>2. accepted_number[b] \in Nat /\ prepare_number[b] \in Nat /\ prepare_number'[b] \in Nat
      BY <1>1, NaturalNumbers DEF TypeOK
    <3>3. QED  BY <1>3, <1>7, <3>1, <3>2
  <2>2. QED  BY <1>1, <1>3, <1>5, <1>6, <2>1 DEF Parts, AcceptorInv, IsProposal
<1>12. PromiseInv'
  <2> SUFFICES ASSUME NEW p \in Sent("PROMISE")'
               PROVE  (/\ p.prepare_number <= prepare_number[p.from]
                       /\ IsProposal(p.number, p.value)
                       /\ \A k \in Votes : k.from = p.from
                            => k.number <= p.number \/ k.number >= p.prepare_number)'
    BY DEF PromiseInv
  <2>1. CASE p \in msgs
    <3>1. /\ p \in Sent("PROMISE") /\ p.from \in Servers /\ p.prepare_number \in Nat
          /\ prepare_number[p.from] \in Nat /\ prepare_number'[p.from] \in Nat
      BY <1>1, <2>1, NaturalNumbers DEF Sent, TypeOK
    <3>2. p.prepare_number <= prepare_number'[p.from]
      <4>1. p.prepare_number <= prepare_number[p.from]
        BY <1>1, <3>1 DEF Parts, PromiseInv
      <4>2. QED  BY <1>7, <3>1, <4>1
    <3>3. QED  BY <1>1, <1>5, <1>6, <3>1, <3>2 DEF Parts, PromiseInv, IsProposal
  <2>2. CASE p \notin msgs
    <3>1. /\ p.from = a /\ p.prepare_number = m.number /\ prepare_number'[a] = m.number
          /\ p.number = accepted_number[a] /\ p.value = accepted_value[a]
      BY <1>4, <2>2 DEF Sent
    <3>2. QED  BY <1>1, <1>2, <1>5, <1>6, <3>1 DEF Parts, AcceptorInv, IsProposal
  <2>3. QED  BY <2>1, <2>2
<1>13. AcceptInv'
  <2>1. \A k \in Sent("ACCEPT") : k.number \in Nat
    BY <1>1, NaturalNumbers DEF Sent
  <2>2. QED  BY <1>1, <1>3, <1>5, <1>8, <2>1 DEF Parts, AcceptInv
<1>14. OneValuePerNumber'
  BY <1>1, <1>5 DEF Parts, OneValuePerNumber, Sent
<1>15. VoteInv'
  BY <1>1, <1>5, <1>6 DEF Parts, VoteInv
<1>16. LearnerInv'
  BY <1>1, <1>3, <1>8 DEF Parts, LearnerInv
<1>17. LearnedIsChosen'
  BY <1>1, <1>2, <1>3, <1>4, <1>8 DEF Parts, LearnedIsChosen, Refuses
<1>18. QED
  BY <1>9, <1>10, <1>11, <1>12, <1>13, <1>14, <1>15, <1>16, <1>17 DEF Parts

(* A vote preserves the invariant: it is at least prepare_number, so it    *)
(* breaks no promise, and it answers an ACCEPT, so its value is safe.      *)
LEMMA OnAcceptInv ==
  ASSUME SafeInv, TypeOK', NEW m \in msgs, OnAccept(m)
  PROVE  Parts'
<1> DEFINE a == m.to
<1>1. TypeOK /\ Parts
  BY PartsOfSafeInv
<1>2. /\ m \in Sent("ACCEPT") /\ a \in Servers /\ m.number \in Nat /\ m \in msgs
  BY <1>1, NaturalNumbers DEF OnAccept, Sent
<1>3. UNCHANGED <<current_proposal_number, proposer_number, proposer_value, promised,
                  majority_promised, learner_number, learner_value, accepted_by,
                  learned_majority, informed>>
  BY DEF OnAccept, proposerVars, learnerVars
<1>4. CASE ~informed[a] /\ CanAccept(a, m.number)
  <2>1. /\ prepare_number' = [prepare_number EXCEPT ![a] = m.number]
        /\ accepted_number' = [accepted_number EXCEPT ![a] = m.number]
        /\ accepted_value' = [accepted_value EXCEPT ![a] = m.value]
        /\ msgs' = msgs \cup {[type |-> "ACCEPTED", from |-> a, to |-> m.from,
                               number |-> m.number, value |-> m.value]}
    <3>1. "ACCEPTED" \notin Lost
      BY LostAssumption
    <3>2. QED  BY <1>4, <3>1 DEF OnAccept, Send
  <2>2. prepare_number[a] <= m.number
    BY <1>1, <1>2, <1>4, NaturalNumbers DEF CanAccept
  <2>3. \A b \in Servers :
          /\ prepare_number'[b] = IF b = a THEN m.number ELSE prepare_number[b]
          /\ accepted_number'[b] = IF b = a THEN m.number ELSE accepted_number[b]
          /\ accepted_value'[b] = IF b = a THEN m.value ELSE accepted_value[b]
          /\ prepare_number[b] \in Nat /\ accepted_number[b] \in Nat
    BY <1>1, <1>2, <2>1, NaturalNumbers DEF TypeOK
  <2>4. /\ msgs \subseteq msgs'
        /\ \A type : type # "ACCEPTED" => Sent(type)' = Sent(type)
    BY <2>1 DEF Sent
  <2>5. /\ \A k \in Votes' : k \in Votes
             \/ (k.from = a /\ k.number = m.number /\ k.value = m.value)
        /\ a \in Voters(m.number, m.value)'
    <3> DEFINE vote == [type |-> "ACCEPTED", from |-> a, to |-> m.from,
                        number |-> m.number, value |-> m.value]
    <3>1. /\ vote.type = "ACCEPTED" /\ vote.from = a
          /\ vote.number = m.number /\ vote.value = m.value
      OBVIOUS
    <3>2. Votes' = Votes \cup {vote}
      BY <2>1, <3>1 DEF Votes
    <3> HIDE DEF vote
    <3>3. vote \in {k \in Votes' : k.number = m.number /\ k.value = m.value}
      BY <3>1, <3>2
    <3>4. a \in {k.from : k \in {k \in Votes' : k.number = m.number /\ k.value = m.value}}
      BY <3>1, <3>3
    <3>5. QED  BY <3>1, <3>2, <3>4 DEF Voters
  <2>6. /\ \A n, v : Voters(n, v) \subseteq Voters(n, v)'
        /\ \A n, v : ChosenAt(n, v) => ChosenAt(n, v)'
        /\ \A n \in Nat : \A v : SafeAt(n, v) => SafeAt(n, v)'
    <3>1. \A b \in Servers : prepare_number[b] <= prepare_number'[b]
      BY <2>2, <2>3
    <3>2. \A k \in Votes' \ Votes : prepare_number[k.from] <= k.number
      BY <2>2, <2>5
    <3>3. QED  BY <1>1, <2>4, <3>1, <3>2, Stable
  <2>7. NumbersInv'
    BY <1>1, <1>3, <2>4 DEF Parts, NumbersInv
  <2>8. ProposerInv'
    BY <1>1, <1>3, <2>4 DEF Parts, ProposerInv, CountedPromise
  <2>9. AcceptorInv'
    <3> SUFFICES ASSUME NEW b \in Servers
                 PROVE  (/\ accepted_number[b] <= prepare_number[b]
                         /\ IsProposal(accepted_number[b], accepted_value[b])
                         /\ \A k \in Votes : k.from = b => k.number <= accepted_number[b])'
      BY DEF AcceptorInv
    <3>1. CASE b = a
      <4>1. \A k \in Votes : k.from = a => k.number <= m.number
        <5> TAKE k \in Votes
        <5> HAVE k.from = a
        <5>1. k.number <= accepted_number[a] /\ accepted_number[a] <= prepare_number[a]
          BY <1>1, <1>2 DEF Parts, AcceptorInv
        <5>2. k.number \in Nat
          BY <1>1, NaturalNumbers DEF Votes
        <5>3. QED  BY <1>2, <2>2, <2>3, <5>1, <5>2
      <4>2. QED  BY <1>2, <2>3, <2>4, <2>5, <3>1, <4>1 DEF IsProposal
    <3>2. CASE b # a
      BY <1>1, <2>3, <2>4, <2>5, <3>2 DEF Parts, AcceptorInv, IsProposal
    <3>3. QED  BY <3>1, <3>2
  <2>10. PromiseInv'
    <3> SUFFICES ASSUME NEW p \in Sent("PROMISE")
                 PROVE  /\ p.prepare_number <= prepare_number'[p.from]
                        /\ IsProposal(p.number, p.value)'
                        /\ \A k \in Votes' : k.from = p.from
                             => k.number <= p.number \/ k.number >= p.prepare_number
      BY <2>4 DEF PromiseInv
    <3>1. /\ p.from \in Servers /\ p.prepare_number \in Nat
          /\ p.prepare_number <= prepare_number[p.from]
      BY <1>1, NaturalNumbers DEF Sent, Parts, PromiseInv
    <3>2. p.prepare_number <= prepare_number'[p.from]
      BY <1>2, <2>2, <2>3, <3>1
    <3>3. IsProposal(p.number, p.value)'
      BY <1>1, <2>4 DEF Parts, PromiseInv, IsProposal
    <3>4. ASSUME NEW k \in Votes', k.from = p.from
          PROVE  k.number <= p.number \/ k.number >= p.prepare_number
      <4>1. CASE k \in Votes
        BY <1>1, <3>4, <4>1 DEF Parts, PromiseInv
      <4>2. CASE k.from = a /\ k.number = m.number
        BY <1>2, <2>2, <2>3, <3>1, <3>4, <4>2
      <4>3. QED  BY <2>5, <4>1, <4>2
    <3>5. QED  BY <3>2, <3>3, <3>4
  <2>11. AcceptInv'
    <3>1. \A k \in Sent("ACCEPT") : k.number \in Nat
      BY <1>1, NaturalNumbers DEF Sent
    <3>2. QED  BY <1>1, <1>3, <2>4, <2>6, <3>1 DEF Parts, AcceptInv
  <2>12. OneValuePerNumber'
    BY <1>1, <2>4 DEF Parts, OneValuePerNumber, Sent
  <2>13. VoteInv'
    <3> SUFFICES ASSUME NEW k \in Votes'
                 PROVE  \E j \in Sent("ACCEPT") : j.number = k.number /\ j.value = k.value
      BY <2>4 DEF VoteInv
    <3>1. QED  BY <1>1, <1>2, <2>5 DEF Parts, VoteInv
  <2>14. LearnerInv'
    <3> SUFFICES ASSUME NEW s \in Servers, ~informed[s]
                 PROVE  /\ accepted_by[s] \subseteq
                             Voters(learner_number[s], learner_value[s])'
                        /\ learner_number[s] = 0
                             \/ Voters(learner_number[s], learner_value[s])' # {}
      BY <1>3 DEF LearnerInv
    <3>1. Voters(learner_number[s], learner_value[s])
            \subseteq Voters(learner_number[s], learner_value[s])'
      BY <1>3, <2>6
    <3>2. QED  BY <1>1, <3>1 DEF Parts, LearnerInv
  <2>15. LearnedIsChosen'
    <3>1. \A s \in Servers : Refuses(s)' => ChosenAt(learner_number[s], learner_value[s])'
      BY <1>1, <1>3, <2>6 DEF Parts, LearnedIsChosen, Refuses
    <3>2. \A k \in msgs' : k.type = "INFORM" => ChosenAt(k.number, k.value)'
      BY <1>1, <2>1, <2>6 DEF Parts, LearnedIsChosen
    <3>3. QED  BY <3>1, <3>2 DEF LearnedIsChosen
  <2>16. QED
    BY <2>7, <2>8, <2>9, <2>10, <2>11, <2>12, <2>13, <2>14, <2>15 DEF Parts
<1>5. CASE informed[a] \/ ~CanAccept(a, m.number)
  <2>1. UNCHANGED acceptorVars
    BY <1>5 DEF OnAccept
  <2>2. \A k \in msgs' : k \in msgs
          \/ (/\ k.type = "INFORM" /\ informed[a]
              /\ k.number = learner_number[a] /\ k.value = learner_value[a])
    BY <1>5 DEF OnAccept, Send, InformOutdated
  <2>3. msgs \subseteq msgs'
    BY <1>5 DEF OnAccept, Send, InformOutdated
  <2>4. \A type : type # "INFORM" => Sent(type)' = Sent(type)
    BY <2>2, <2>3 DEF Sent
  <2>5. Votes' = Votes
    BY <2>4 DEF Votes, Sent
  <2>6. /\ \A n, v : Voters(n, v)' = Voters(n, v)
        /\ \A n, v : ChosenAt(n, v)' = ChosenAt(n, v)
        /\ \A n \in Nat : \A v : SafeAt(n, v) => SafeAt(n, v)'
    BY <1>1, <2>1, <2>3, <2>5, NoVoteStable, NaturalNumbers DEF acceptorVars
  <2>7. /\ NumbersInv' /\ ProposerInv' /\ OneValuePerNumber' /\ VoteInv' /\ LearnerInv'
    <3>1. NumbersInv'
      BY <1>1, <1>3, <2>4 DEF Parts, NumbersInv
    <3>2. ProposerInv'
      BY <1>1, <1>3, <2>4 DEF Parts, ProposerInv, CountedPromise
    <3>3. OneValuePerNumber'
      BY <1>1, <2>4 DEF Parts, OneValuePerNumber, Sent
    <3>4. VoteInv'
      BY <1>1, <2>4, <2>5 DEF Parts, VoteInv
    <3>5. LearnerInv'
      BY <1>1, <1>3, <2>6 DEF Parts, LearnerInv
    <3>6. QED  BY <3>1, <3>2, <3>3, <3>4, <3>5
  <2>8. AcceptorInv' /\ PromiseInv'
    BY <1>1, <2>1, <2>4, <2>5, <2>6
       DEF Parts, AcceptorInv, PromiseInv, IsProposal, acceptorVars
  <2>9. AcceptInv'
    <3>1. \A k \in Sent("ACCEPT") : k.number \in Nat
      BY <1>1, NaturalNumbers DEF Sent
    <3>2. QED  BY <1>1, <1>3, <2>4, <2>6, <3>1 DEF Parts, AcceptInv
  <2>10. LearnedIsChosen'
    BY <1>1, <1>2, <1>3, <2>2, <2>6 DEF Parts, LearnedIsChosen, Refuses
  <2>11. QED  BY <2>7, <2>8, <2>9, <2>10 DEF Parts
<1>6. QED  BY <1>4, <1>5

(* Counting an ACCEPTED preserves the invariant. *)
LEMMA OnAcceptedInv ==
  ASSUME SafeInv, TypeOK', NEW m \in msgs, OnAccepted(m)
  PROVE  Parts'
<1> DEFINE s == m.to
           v == IF m.number > learner_number[s] THEN m.value ELSE learner_value[s]
           counted == AcceptedWith(s, m)
<1>1. TypeOK /\ Parts
  BY PartsOfSafeInv
<1>2. /\ m \in Votes /\ s \in Servers /\ m.from \in Servers /\ m.number \in Nat
      /\ ~informed[s] /\ ~learned_majority[s] /\ m.number >= learner_number[s]
      /\ learner_number[s] \in Nat
  BY <1>1, NaturalNumbers DEF OnAccepted, Votes
<1>3. UNCHANGED <<current_proposal_number, proposer_number, proposer_value, promised,
                  majority_promised, prepare_number, accepted_number, accepted_value,
                  informed>>
  BY DEF OnAccepted, proposerVars, acceptorVars
<1>4. /\ \A t \in Servers \ {s} :
           /\ learner_number'[t] = learner_number[t]
           /\ learner_value'[t] = learner_value[t] /\ accepted_by'[t] = accepted_by[t]
           /\ learned_majority'[t] = learned_majority[t]
      /\ learner_number'[s] = m.number /\ learner_value'[s] = v
      /\ accepted_by'[s] = counted
      /\ learned_majority'[s] => IsMajority(counted)
  BY <1>1, <1>2 DEF OnAccepted, TypeOK
<1>5. counted \subseteq Voters(m.number, v) /\ Voters(m.number, v) # {}
  <2>1. m.from \in Voters(m.number, m.value)
    BY <1>2 DEF Voters
  <2>2. CASE m.number > learner_number[s]
    BY <2>1, <2>2 DEF AcceptedWith
  <2>3. CASE ~(m.number > learner_number[s])
    <3>1. m.number = learner_number[s]
      BY <1>2, <2>3
    <3>2. m.value = learner_value[s]
      BY <1>2, <3>1, LearnerRemembers
    <3>3. accepted_by[s] \subseteq Voters(learner_number[s], learner_value[s])
      BY <1>1, <1>2 DEF Parts, LearnerInv
    <3>4. QED  BY <2>1, <2>3, <3>1, <3>2, <3>3 DEF AcceptedWith
  <2>4. QED  BY <2>2, <2>3
<1>6. IsMajority(counted) => ChosenAt(m.number, v)
  <2>1. Voters(m.number, v) \in SUBSET Servers
    BY <1>1, VoteType
  <2>2. QED  BY <1>5, <2>1, MajorityGrows DEF ChosenAt
<1>7. /\ \A k \in msgs' : k \in msgs
           \/ (/\ k.type = "INFORM" /\ IsMajority(counted)
               /\ k.number = m.number /\ k.value = v)
      /\ msgs \subseteq msgs'
  BY DEF OnAccepted, Send
<1>8. \A type : type # "INFORM" => Sent(type)' = Sent(type)
  BY <1>7 DEF Sent
<1>9. Votes' = Votes
  BY <1>8 DEF Votes, Sent
<1>10. /\ \A n, w : Voters(n, w)' = Voters(n, w)
       /\ \A n, w : ChosenAt(n, w)' = ChosenAt(n, w)
       /\ \A n \in Nat : \A w : SafeAt(n, w) => SafeAt(n, w)'
  BY <1>1, <1>3, <1>7, <1>9, NoVoteStable, NaturalNumbers
<1>11. NumbersInv' /\ ProposerInv' /\ OneValuePerNumber' /\ VoteInv'
  BY <1>1, <1>3, <1>8, <1>9
     DEF Parts, NumbersInv, ProposerInv, CountedPromise, OneValuePerNumber, Sent, VoteInv
<1>12. AcceptorInv' /\ PromiseInv'
  BY <1>1, <1>3, <1>8, <1>9, <1>10 DEF Parts, AcceptorInv, PromiseInv, IsProposal
<1>13. AcceptInv'
  <2>1. \A k \in Sent("ACCEPT") : k.number \in Nat
    BY <1>1, NaturalNumbers DEF Sent
  <2>2. QED  BY <1>1, <1>3, <1>8, <1>10, <2>1 DEF Parts, AcceptInv
<1>14. LearnerInv'
  <2> SUFFICES ASSUME NEW t \in Servers, ~informed[t]
               PROVE  /\ accepted_by'[t] \subseteq Voters(learner_number'[t], learner_value'[t])
                      /\ learner_number'[t] = 0
                           \/ Voters(learner_number'[t], learner_value'[t]) # {}
    BY <1>3, <1>10 DEF LearnerInv
  <2>1. CASE t = s
    BY <1>4, <1>5, <2>1
  <2>2. CASE t # s
    BY <1>1, <1>4, <2>2 DEF Parts, LearnerInv
  <2>3. QED  BY <2>1, <2>2
<1>15. LearnedIsChosen'
  <2>1. ASSUME NEW t \in Servers, Refuses(t)'
        PROVE  ChosenAt(learner_number'[t], learner_value'[t])
    <3>1. CASE t = s
      BY <1>2, <1>3, <1>4, <1>6, <2>1, <3>1 DEF Refuses
    <3>2. CASE t # s
      BY <1>1, <1>3, <1>4, <2>1, <3>2 DEF Refuses, Parts, LearnedIsChosen
    <3>3. QED  BY <3>1, <3>2
  <2>2. ASSUME NEW k \in msgs', k.type = "INFORM"
        PROVE  ChosenAt(k.number, k.value)
    BY <1>1, <1>6, <1>7, <2>2 DEF Parts, LearnedIsChosen
  <2>3. QED  BY <1>10, <2>1, <2>2 DEF LearnedIsChosen
<1>16. QED  BY <1>11, <1>12, <1>13, <1>14, <1>15 DEF Parts

(* Taking over an INFORM preserves the invariant. *)
LEMMA OnInformInv ==
  ASSUME SafeInv, TypeOK', NEW m \in msgs, OnInform(m)
  PROVE  Parts'
<1> DEFINE s == m.to
<1>1. TypeOK /\ Parts
  BY PartsOfSafeInv
<1>2. s \in Servers /\ ChosenAt(m.number, m.value)
  BY <1>1, NaturalNumbers DEF OnInform, Parts, LearnedIsChosen
<1>3. UNCHANGED <<current_proposal_number, proposer_number, proposer_value, promised,
                  majority_promised, prepare_number, accepted_number, accepted_value,
                  accepted_by, learned_majority, msgs>>
  BY DEF OnInform, proposerVars, acceptorVars
<1>4. /\ informed'[s]
      /\ learner_number'[s] = m.number /\ learner_value'[s] = m.value
      /\ \A t \in Servers \ {s} :
           /\ learner_number'[t] = learner_number[t]
           /\ learner_value'[t] = learner_value[t] /\ (informed'[t] <=> informed[t])
  BY <1>1, <1>2 DEF OnInform, TypeOK
<1>5. Votes' = Votes /\ \A type : Sent(type)' = Sent(type)
  BY <1>3 DEF Votes, Sent
<1>6. /\ \A n, w : Voters(n, w)' = Voters(n, w)
      /\ \A n, w : ChosenAt(n, w)' = ChosenAt(n, w)
      /\ \A n \in Nat : \A w : SafeAt(n, w) => SafeAt(n, w)'
  BY <1>1, <1>3, <1>5, NoVoteStable, NaturalNumbers
<1>7. NumbersInv' /\ ProposerInv' /\ OneValuePerNumber' /\ VoteInv'
  BY <1>1, <1>3, <1>5
     DEF Parts, NumbersInv, ProposerInv, CountedPromise, OneValuePerNumber, VoteInv
<1>8. AcceptorInv' /\ PromiseInv'
  BY <1>1, <1>3, <1>5, <1>6 DEF Parts, AcceptorInv, PromiseInv, IsProposal
<1>9. AcceptInv'
  <2>1. \A k \in Sent("ACCEPT") : k.number \in Nat
    BY <1>1, NaturalNumbers DEF Sent
  <2>2. QED  BY <1>1, <1>3, <1>5, <1>6, <2>1 DEF Parts, AcceptInv
<1>10. LearnerInv'
  <2> SUFFICES ASSUME NEW t \in Servers, ~informed'[t]
               PROVE  /\ accepted_by[t] \subseteq Voters(learner_number'[t], learner_value'[t])
                      /\ learner_number'[t] = 0
                           \/ Voters(learner_number'[t], learner_value'[t]) # {}
    BY <1>3, <1>6 DEF LearnerInv
  <2>1. t # s
    BY <1>4
  <2>2. QED  BY <1>1, <1>4, <2>1 DEF Parts, LearnerInv
<1>11. LearnedIsChosen'
  <2>1. ASSUME NEW t \in Servers, Refuses(t)'
        PROVE  ChosenAt(learner_number'[t], learner_value'[t])
    <3>1. CASE t = s
      BY <1>2, <1>4, <3>1
    <3>2. CASE t # s
      BY <1>1, <1>3, <1>4, <2>1, <3>2 DEF Refuses, Parts, LearnedIsChosen
    <3>3. QED  BY <3>1, <3>2
  <2>2. QED  BY <1>1, <1>3, <1>6, <2>1 DEF Parts, LearnedIsChosen
<1>12. QED  BY <1>7, <1>8, <1>9, <1>10, <1>11 DEF Parts

-----------------------------------------------------------------------------
(* The invariant is inductive. *)
LEMMA SafeInit == Init => SafeInv
<1> SUFFICES ASSUME Init PROVE SafeInv
  OBVIOUS
<1>1. 0 \in Numbers /\ \A s \in Servers : s + N \in Nat
  BY MaxNumberAssumption, NAssumption DEF Numbers, Servers
<1>2. TypeOK
  BY <1>1 DEF Init, TypeOK
<1>3. Votes = {} /\ \A type : Sent(type) = {}
  BY DEF Init, Votes, Sent
<1>4. NumbersInv
  BY <1>1, <1>3, FirstIsOwned DEF Init, NumbersInv
<1>5. ProposerInv
  BY DEF Init, ProposerInv
<1>6. AcceptorInv
  BY <1>3 DEF Init, AcceptorInv, IsProposal
<1>7. PromiseInv /\ AcceptInv /\ OneValuePerNumber /\ VoteInv
  BY <1>3 DEF Init, PromiseInv, AcceptInv, OneValuePerNumber, VoteInv
<1>8. LearnerInv
  BY DEF Init, LearnerInv
<1>9. LearnedIsChosen
  BY DEF Init, LearnedIsChosen, Refuses
<1>10. QED  BY <1>2, <1>4, <1>5, <1>6, <1>7, <1>8, <1>9 DEF SafeInv

LEMMA SafeStep == SafeInv /\ [SafeNext]_vars => SafeInv'
<1> SUFFICES ASSUME SafeInv, [SafeNext]_vars PROVE SafeInv'
  OBVIOUS
<1>1. TypeOK'
  BY TypeStep
<1>2. Parts
  BY PartsOfSafeInv
<1>3. ASSUME UNCHANGED vars
      PROVE  Parts'
  BY <1>2, <1>3, IdleInv DEF vars, proposerVars
<1>4. ASSUME NEW s \in Proposers, NEW v \in Values, Submit(s, v)
      PROVE  Parts'
  BY <1>1, <1>4, StartRoundInv, ProposersAssumption DEF Submit
<1>5. ASSUME NEW s \in Servers, DeadlineExpires(s)
      PROVE  Parts'
  BY <1>2, <1>5, IdleInv DEF DeadlineExpires, proposerVars
<1>6. ASSUME NEW s \in Servers, OnDeadline(s)
      PROVE  Parts'
  <2>1. CASE StartRound(s, expired[s])
    <3>1. expired[s] \in Values
      BY <1>6 DEF OnDeadline, SafeInv, TypeOK
    <3>2. QED  BY <1>1, <2>1, <3>1, StartRoundInv
  <2>2. CASE UNCHANGED <<proposerVars, acceptorVars, learnerVars, deadline_timer, msgs>>
    BY <1>2, <2>2, IdleInv DEF proposerVars
  <2>3. QED  BY <1>6, <2>1, <2>2 DEF OnDeadline
<1>7. ASSUME NEW m \in msgs, Timely(m), Dispatch(m)
      PROVE  Parts'
  <2>1. CASE OnPrepare(m)
    BY <1>1, <2>1, OnPrepareInv
  <2>2. CASE OnPromise(m)
    BY <1>1, <1>7, <2>2, OnPromiseInv
  <2>3. CASE OnDenial(m)
    BY <1>2, <2>3, IdleInv DEF OnDenial
  <2>4. CASE OnMajorityDenial(m)
    <3>1. m.to \in Servers /\ m.value \in Values
      BY <2>4, MessageFields DEF OnMajorityDenial, SafeInv, TypeOK
    <3>2. CASE StartRound(m.to, m.value)
      BY <1>1, <3>1, <3>2, StartRoundInv
    <3>3. CASE UNCHANGED <<proposerVars, acceptorVars, learnerVars, deadline_timer, msgs>>
      BY <1>2, <3>3, IdleInv DEF proposerVars
    <3>4. QED  BY <2>4, <3>2, <3>3 DEF OnMajorityDenial
  <2>5. CASE OnAccept(m)
    BY <1>1, <2>5, OnAcceptInv
  <2>6. CASE OnAccepted(m)
    BY <1>1, <2>6, OnAcceptedInv
  <2>7. CASE OnInform(m)
    BY <1>1, <2>7, OnInformInv
  <2>8. QED  BY <1>7, <2>1, <2>2, <2>3, <2>4, <2>5, <2>6, <2>7 DEF Dispatch
<1>8. Parts'
  BY <1>3, <1>4, <1>5, <1>6, <1>7 DEF SafeNext
<1>9. QED  BY <1>1, <1>8, PartsOfSafeInv DEF SafeInv, Parts

(* A proposer that does not restart is asked about no round beyond its own *)
(* and has marked the round it sent ACCEPT in.                             *)
LEMMA AlwaysTimely ==
  ASSUME IInv, NEW m \in msgs
  PROVE  Timely(m)
<1> SUFFICES ASSUME m.type = "PROMISE" PROVE Timely(m)
  BY DEF Timely
<1>1. TypeOK /\ m \in Sent("PROMISE") /\ m.to \in Servers
  BY NaturalNumbers DEF IInv, SafeInv, Sent
<1>2. m.prepare_number <= current_proposal_number[m.to]
  BY <1>1 DEF IInv, ReachedInv
<1>3. ASSUME ~majority_promised[m.to], NEW k \in Sent("ACCEPT"),
             k.number = current_proposal_number[m.to]
      PROVE  FALSE
  <2>1. k.from \in Servers /\ current_proposal_number[m.to] \in Nat
    BY <1>1, NaturalNumbers DEF Sent
  <2>2. Owns(k.from, k.number) /\ Owns(m.to, k.number)
    BY <1>1, <1>3 DEF IInv, SafeInv, AcceptInv, NumbersInv
  <2>3. k.from = m.to
    BY <1>1, <1>3, <2>1, <2>2, OwnersDiffer
  <2>4. QED  BY <1>3, <2>3 DEF IInv, ReachedInv
<1>4. QED  BY <1>2, <1>3 DEF Timely, CompletesMajority

LEMMA NextIsSafe == IInv /\ [Next]_vars => [SafeNext]_vars
BY AlwaysTimely DEF Next, SafeNext

(* What a step that sends no PREPARE, ACCEPT, PROMISE or DENIAL leaves.    *)
LEMMA ReachedIdle ==
  ASSUME ReachedInv, UNCHANGED <<current_proposal_number, majority_promised>>,
         \A m \in msgs' : m \in msgs \/ m.type \in {"ACCEPTED", "INFORM"}
  PROVE  ReachedInv'
BY DEF ReachedInv, Sent

LEMMA ReachedInit == Init => ReachedInv
BY DEF Init, ReachedInv, Sent

LEMMA ReachedStartRound ==
  ASSUME IInv, NEW s \in Servers, NEW v \in Values, StartRound(s, v)
  PROVE  ReachedInv'
<1>1. TypeOK
  BY DEF IInv, SafeInv
<1>2. \A t \in Servers :
        /\ current_proposal_number'[t] =
             IF t = s THEN current_proposal_number[t] + N ELSE current_proposal_number[t]
        /\ t # s => majority_promised'[t] = majority_promised[t]
  BY <1>1 DEF StartRound, NextProposalNumber, TypeOK
<1>3. \A t \in Servers : /\ current_proposal_number[t] \in Nat
                        /\ current_proposal_number'[t] \in Nat
                        /\ current_proposal_number[t] <= current_proposal_number'[t]
                        /\ current_proposal_number[s] < current_proposal_number'[s]
  BY <1>1, <1>2, NaturalNumbers
<1>4. \A m \in msgs' : m \in msgs \/
        (/\ m.type = "PREPARE" /\ m.from = s
         /\ m.number = current_proposal_number'[s])
  <2>1. current_proposal_number'[s] = NextProposalNumber(s)
    BY <1>2 DEF NextProposalNumber
  <2>2. QED  BY <2>1 DEF StartRound, Send, PrepareMessages
<1>5. ASSUME NEW m \in (Sent("PREPARE") \cup Sent("ACCEPT"))'
      PROVE  /\ m.number <= current_proposal_number'[m.from]
             /\ m.type = "ACCEPT" /\ m.number = current_proposal_number'[m.from]
                  => majority_promised'[m.from]
  <2>1. CASE m \in msgs
    <3>1. /\ m.from \in Servers /\ m.number \in Nat
          /\ m.number <= current_proposal_number[m.from]
          /\ m.type = "ACCEPT" /\ m.number = current_proposal_number[m.from]
               => majority_promised[m.from]
      BY <1>1, <1>5, <2>1, NaturalNumbers DEF IInv, ReachedInv, Sent
    <3>2. CASE m.from = s
      BY <1>3, <3>1, <3>2
    <3>3. CASE m.from # s
      BY <1>2, <3>1, <3>3
    <3>4. QED  BY <3>2, <3>3
  <2>2. CASE m \notin msgs
    BY <1>3, <1>4, <1>5, <2>2 DEF Sent
  <2>3. QED  BY <2>1, <2>2
<1>6. ASSUME NEW m \in (Sent("PROMISE") \cup Sent("DENIAL"))'
      PROVE  m.prepare_number <= current_proposal_number'[m.to]
  <2>1. m \in Sent("PROMISE") \cup Sent("DENIAL") /\ m \in msgs
    BY <1>4, <1>6 DEF Sent
  <2>2. m.to \in Servers /\ m.prepare_number \in Nat
        /\ m.prepare_number <= current_proposal_number[m.to]
    BY <1>1, <2>1, NaturalNumbers DEF IInv, ReachedInv, Sent
  <2>3. QED  BY <1>3, <2>2
<1>7. QED  BY <1>5, <1>6 DEF ReachedInv, Sent

LEMMA ReachedStep ==
  ASSUME IInv, [Next]_vars
  PROVE  ReachedInv'
<1>1. TypeOK /\ ReachedInv
  BY DEF IInv, SafeInv
<1>2. CASE UNCHANGED vars
  BY <1>1, <1>2, ReachedIdle DEF vars, proposerVars
<1>3. ASSUME NEW s \in Proposers, NEW v \in Values, Submit(s, v)
      PROVE  ReachedInv'
  BY <1>3, ReachedStartRound, ProposersAssumption DEF Submit
<1>4. ASSUME NEW s \in Servers, DeadlineExpires(s)
      PROVE  ReachedInv'
  BY <1>1, <1>4, ReachedIdle DEF DeadlineExpires, proposerVars
<1>5. ASSUME NEW s \in Servers, OnDeadline(s)
      PROVE  ReachedInv'
  <2>1. expired[s] \in Values
    BY <1>1, <1>5 DEF OnDeadline, TypeOK
  <2>2. QED  BY <1>1, <1>5, <2>1, ReachedStartRound, ReachedIdle DEF OnDeadline, proposerVars
<1>6. ASSUME NEW m \in msgs, OnPrepare(m)
      PROVE  ReachedInv'
  <2>1. m.number <= current_proposal_number[m.from]
    BY <1>1, <1>6 DEF OnPrepare, ReachedInv, Sent
  <2>2. \A k \in msgs' : \/ k \in msgs
                         \/ k.type = "INFORM"
                         \/ /\ k.type \in {"PROMISE", "DENIAL"}
                            /\ k.to = m.from /\ k.prepare_number = m.number
    BY <1>6 DEF OnPrepare, InformOutdated, Denial, Send
  <2>3. UNCHANGED <<current_proposal_number, majority_promised>>
    BY <1>6 DEF OnPrepare, proposerVars
  <2>4. QED  BY <1>1, <2>1, <2>2, <2>3 DEF ReachedInv, Sent
<1>7. ASSUME NEW m \in msgs, OnPromise(m)
      PROVE  ReachedInv'
  <2>1. m.to \in Servers /\ current_proposal_number[m.to] \in Nat
    BY <1>1, <1>7, NaturalNumbers
  <2>2. /\ UNCHANGED current_proposal_number
        /\ \A t \in Servers : majority_promised[t] => majority_promised'[t]
    BY <1>1, <1>7 DEF OnPromise, CompletesMajority, TypeOK
  <2>3. \A k \in msgs' : \/ k \in msgs
                         \/ /\ k.type = "ACCEPT" /\ k.from = m.to
                            /\ k.number = current_proposal_number[m.to]
                            /\ majority_promised'[m.to]
    BY <1>1, <1>7, <2>1 DEF OnPromise, CompletesMajority, AcceptMessages, Send, TypeOK
  <2>4. ASSUME NEW k \in Sent("ACCEPT")', k.number = current_proposal_number'[k.from]
        PROVE  majority_promised'[k.from]
    <3>1. CASE k \in msgs
      BY <1>1, <2>2, <2>4, <3>1, NaturalNumbers DEF ReachedInv, Sent
    <3>2. CASE k \notin msgs
      BY <2>3, <2>4, <3>2 DEF Sent
    <3>3. QED  BY <3>1, <3>2
  <2>5. QED  BY <1>1, <2>1, <2>2, <2>3, <2>4 DEF ReachedInv, Sent
<1>8. ASSUME NEW m \in msgs, OnDenial(m) \/ OnAccept(m) \/ OnAccepted(m) \/ OnInform(m)
      PROVE  ReachedInv'
  <2>1. UNCHANGED <<current_proposal_number, majority_promised>>
    BY <1>8 DEF OnDenial, OnAccept, OnAccepted, OnInform, proposerVars
  <2>2. \A k \in msgs' : k \in msgs \/ k.type \in {"ACCEPTED", "INFORM"}
    BY <1>8 DEF OnDenial, OnAccept, OnAccepted, OnInform, InformOutdated, Send
  <2>3. QED  BY <1>1, <2>1, <2>2, ReachedIdle
<1>9. ASSUME NEW m \in msgs, OnMajorityDenial(m)
      PROVE  ReachedInv'
  <2>1. m.to \in Servers /\ m.value \in Values
    BY <1>1, <1>9, MessageFields DEF OnMajorityDenial, TypeOK
  <2>2. QED
    BY <1>1, <1>9, <2>1, ReachedStartRound, ReachedIdle DEF OnMajorityDenial, proposerVars
<1>10. QED
  BY <1>2, <1>3, <1>4, <1>5, <1>6, <1>7, <1>8, <1>9 DEF Next, Dispatch

LEMMA StepInv == IInv /\ [Next]_vars => IInv'
BY NextIsSafe, SafeStep, ReachedStep DEF IInv

THEOREM Invariance == Spec => []IInv
<1>1. Init => IInv
  BY SafeInit, ReachedInit DEF IInv
<1>2. IInv /\ [Next]_vars => IInv'
  BY StepInv
<1>3. QED  BY <1>1, <1>2, PTL DEF Spec

-----------------------------------------------------------------------------
(* Every variable keeps its type. *)
THEOREM TypeCorrect == Spec => []TypeOK
<1>1. IInv => TypeOK
  BY DEF IInv, SafeInv
<1>2. QED  BY <1>1, Invariance, PTL

(* A value chosen at one number is the value of every ACCEPT, and so of    *)
(* every vote, at a higher number.                                         *)
LEMMA ChosenIsBinding ==
  ASSUME SafeInv, NEW n \in Nat, NEW v, ChosenAt(n, v),
         NEW m \in Sent("ACCEPT"), n < m.number
  PROVE  m.value = v
<1>1. TypeOK /\ m.number \in Nat
  BY NaturalNumbers DEF SafeInv, Sent
<1>2. IsMajority(Voters(n, m.value) \cup Abstainers(n))
  <2>1. SafeAt(m.number, m.value)
    BY DEF SafeInv, AcceptInv
  <2>2. n \in 0 .. (m.number - 1)
    BY <1>1
  <2>3. QED  BY <2>1, <2>2 DEF SafeAt
<1>3. IsMajority(Voters(n, v))
  BY DEF ChosenAt
<1>4. Voters(n, v) \in SUBSET Servers
      /\ Voters(n, m.value) \cup Abstainers(n) \in SUBSET Servers
  BY <1>1, VoteType DEF Abstainers
<1>5. PICK a : a \in Voters(n, v) /\ a \in Voters(n, m.value) \cup Abstainers(n)
  BY <1>2, <1>3, <1>4, MajoritiesIntersect
<1>6. PICK k \in Votes : k.from = a /\ k.number = n /\ k.value = v
  BY <1>5 DEF Voters
<1>7. a \in Voters(n, m.value)
  BY <1>5, <1>6 DEF Abstainers
<1>8. PICK j \in Votes : j.from = a /\ j.number = n /\ j.value = m.value
  BY <1>7 DEF Voters
<1>9. k.value = j.value
  <2>1. PICK m1 \in Sent("ACCEPT") : m1.number = n /\ m1.value = k.value
    BY <1>6 DEF SafeInv, VoteInv
  <2>2. PICK m2 \in Sent("ACCEPT") : m2.number = n /\ m2.value = j.value
    BY <1>8 DEF SafeInv, VoteInv
  <2>3. QED  BY <2>1, <2>2 DEF SafeInv, OneValuePerNumber, Sent
<1>10. QED  BY <1>6, <1>8, <1>9

(* Two chosen values are equal. *)
LEMMA ChosenUnique ==
  ASSUME SafeInv, NEW n \in Nat, NEW v, ChosenAt(n, v),
         NEW i \in Nat, NEW w, ChosenAt(i, w)
  PROVE  v = w
<1>1. PICK a : a \in Voters(n, v)
  BY MajorityNonEmpty DEF ChosenAt
<1>2. PICK b : b \in Voters(i, w)
  BY MajorityNonEmpty DEF ChosenAt
<1>3. PICK m1 \in Sent("ACCEPT") : m1.number = n /\ m1.value = v
  BY <1>1 DEF Voters, SafeInv, VoteInv
<1>4. PICK m2 \in Sent("ACCEPT") : m2.number = i /\ m2.value = w
  BY <1>2 DEF Voters, SafeInv, VoteInv
<1>5. CASE n < i
  BY <1>4, <1>5, ChosenIsBinding
<1>6. CASE i < n
  BY <1>3, <1>6, ChosenIsBinding
<1>7. CASE n = i
  BY <1>3, <1>4, <1>7 DEF SafeInv, OneValuePerNumber, Sent
<1>8. QED  BY <1>5, <1>6, <1>7

LEMMA ChosenSet ==
  ASSUME SafeInv, NEW v \in Chosen
  PROVE  v \in Values /\ \E n \in Nat : ChosenAt(n, v)
<1>1. PICK k \in Votes : ChosenAt(k.number, k.value) /\ k.value = v
  BY DEF Chosen
<1>2. k.number \in Nat /\ k.value \in Values
  BY NaturalNumbers, MessageFields DEF SafeInv, TypeOK, Votes
<1>3. QED  BY <1>1, <1>2

LEMMA ConsistentNow == SafeInv => Consistency
BY ChosenSet, ChosenUnique DEF Consistency

(* At most one command is ever chosen, for any number of servers and any   *)
(* interleaving of handlers, losses, repetitions and timeouts.             *)
THEOREM Agreement == Spec => []Consistency
<1>1. IInv => Consistency
  BY ConsistentNow DEF IInv
<1>2. QED  BY <1>1, Invariance, PTL

(* What learners know and INFORM messages say is what a majority chose.    *)
THEOREM LearnersAreRight == Spec => []LearnedIsChosen
<1>1. IInv => LearnedIsChosen
  BY DEF IInv, SafeInv
<1>2. QED  BY <1>1, Invariance, PTL

(* Two ACCEPT messages with the same number carry the same value. *)
THEOREM OneAcceptPerNumber == Spec => []OneValuePerNumber
<1>1. IInv => OneValuePerNumber
  BY DEF IInv, SafeInv
<1>2. QED  BY <1>1, Invariance, PTL

LEMMA BoundNow == SafeInv => ChosenBindsLaterRounds
<1> SUFFICES ASSUME SafeInv, NEW m \in msgs, NEW k \in Votes, m.type = "ACCEPT",
                    k.number < m.number, ChosenAt(k.number, k.value)
             PROVE  m.value = k.value
  BY DEF ChosenBindsLaterRounds
<1>1. m \in Sent("ACCEPT") /\ k.number \in Nat
  BY NaturalNumbers DEF Sent, Votes, SafeInv
<1>2. QED  BY <1>1, ChosenIsBinding

(* A chosen value binds the ACCEPT messages of all later rounds. *)
THEOREM LaterRoundsBound == Spec => []ChosenBindsLaterRounds
<1>1. IInv => ChosenBindsLaterRounds
  BY BoundNow DEF IInv
<1>2. QED  BY <1>1, Invariance, PTL

(* The asserts of on_promise and on_denial never fail in one life of the   *)
(* process.                                                                *)
THEOREM AssertsHold == Spec => []AnswersNeverAhead
<1>1. IInv => AnswersNeverAhead
  BY DEF IInv, ReachedInv, AnswersNeverAhead, Sent
<1>2. QED  BY <1>1, Invariance, PTL

(* A vote is never below the prepare_number of its acceptor. *)
LEMMA NewVotes ==
  ASSUME SafeInv, [SafeNext]_vars, NEW m \in msgs' \ msgs, m.type = "ACCEPTED"
  PROVE  prepare_number[m.from] <= m.number
<1>1. \A j \in msgs : ~OnPrepare(j) /\ ~OnPromise(j) /\ ~OnDenial(j)
                      /\ ~OnMajorityDenial(j) /\ ~OnAccepted(j) /\ ~OnInform(j)
  BY DEF OnPrepare, OnPromise, OnDenial, OnMajorityDenial, OnAccepted, OnInform,
         StartRound, PrepareMessages, AcceptMessages, InformOutdated, Denial, Send
<1>2. /\ ~UNCHANGED vars
      /\ \A s \in Servers, v \in Values : ~Submit(s, v)
      /\ \A s \in Servers : ~DeadlineExpires(s) /\ ~OnDeadline(s)
  BY DEF vars, Submit, DeadlineExpires, OnDeadline, StartRound, PrepareMessages, Send
<1>3. PICK j \in msgs : OnAccept(j)
  BY <1>1, <1>2, ProposersAssumption DEF SafeNext, Dispatch
<1>4. /\ CanAccept(j.to, j.number) /\ m.from = j.to /\ m.number = j.number
  BY <1>3 DEF OnAccept, InformOutdated, Send
<1>5. j.to \in Servers /\ j.number \in Nat /\ prepare_number[j.to] \in Nat
  BY <1>3, NaturalNumbers DEF SafeInv, OnAccept
<1>6. QED  BY <1>4, <1>5 DEF CanAccept

LEMMA VotesKeepPromises ==
  ASSUME SafeInv, [SafeNext]_vars, NEW p \in msgs, NEW m \in msgs' \ msgs,
         p.type = "PROMISE", m.type = "ACCEPTED", m.from = p.from
  PROVE  m.number >= p.prepare_number
<1>1. prepare_number[m.from] <= m.number
  BY NewVotes
<1>2. p \in Sent("PROMISE") /\ p.prepare_number <= prepare_number[m.from]
  BY DEF Sent, SafeInv, PromiseInv
<1>3. m.from \in Servers /\ p.prepare_number \in Nat /\ prepare_number[m.from] \in Nat
  BY NaturalNumbers DEF SafeInv
<1>4. m.number \in Nat
  <2>1. TypeOK'
    BY TypeStep
  <2>2. QED  BY <2>1, MessageFields, MaxNumberAssumption DEF TypeOK, Numbers
<1>5. QED  BY <1>1, <1>2, <1>3, <1>4

(* An acceptor never votes below a number it has promised. *)
THEOREM PromisesBind == Spec => PromisesKept
<1>1. IInv /\ [Next]_vars =>
        [\A p \in msgs, m \in msgs' \ msgs :
           p.type = "PROMISE" /\ m.type = "ACCEPTED" /\ m.from = p.from
             => m.number >= p.prepare_number]_vars
  BY NextIsSafe, VotesKeepPromises DEF IInv
<1>2. QED  BY <1>1, Invariance, PTL DEF Spec, PromisesKept

-----------------------------------------------------------------------------
(* Starting a round arms the deadline of that server and of no other.      *)
LEMMA StartRoundTimed ==
  ASSUME SafeInv, UndecidedIsTimed, NEW s \in Servers, NEW v \in Values, StartRound(s, v),
         UNCHANGED running, \A t \in Servers \ {s} : expired'[t] = expired[t]
  PROVE  UndecidedIsTimed'
<1>1. deadline_timer'[s] # NoValue
  BY NoValueAssumption DEF StartRound, SafeInv, TypeOK
<1>2. \A t \in Servers \ {s} :
        /\ deadline_timer'[t] = deadline_timer[t]
        /\ current_proposal_number'[t] = current_proposal_number[t]
  BY DEF StartRound, SafeInv, TypeOK
<1>3. UNCHANGED <<learned_majority, informed>>
  BY DEF StartRound, learnerVars
<1>4. QED  BY <1>1, <1>2, <1>3 DEF UndecidedIsTimed, Refuses

(* A server that has started a round and does not know the outcome has a   *)
(* deadline armed or expired.                                              *)
LEMMA TimedStep ==
  ASSUME SafeInv, UndecidedIsTimed, [SafeNext]_vars
  PROVE  UndecidedIsTimed'
<1> USE DEF proposerVars, acceptorVars, learnerVars, timerVars
<1>1. TypeOK /\ TypeOK'
  BY TypeStep DEF SafeInv
<1>2. ASSUME UNCHANGED <<current_proposal_number, learned_majority, informed,
                         deadline_timer, expired, running>>
      PROVE  UndecidedIsTimed'
  BY <1>2 DEF UndecidedIsTimed, Refuses
<1>3. ASSUME UNCHANGED vars
      PROVE  UndecidedIsTimed'
  BY <1>2, <1>3 DEF vars
<1>4. ASSUME NEW s \in Proposers, NEW v \in Values, Submit(s, v)
      PROVE  UndecidedIsTimed'
  BY <1>4, ProposersAssumption, StartRoundTimed DEF Submit
<1>5. ASSUME NEW s \in Servers, DeadlineExpires(s)
      PROVE  UndecidedIsTimed'
  BY <1>1, <1>5 DEF DeadlineExpires, UndecidedIsTimed, Refuses, TypeOK
<1>6. ASSUME NEW s \in Servers, OnDeadline(s)
      PROVE  UndecidedIsTimed'
  <2>1. UNCHANGED running /\ \A t \in Servers \ {s} : expired'[t] = expired[t]
    BY <1>1, <1>6 DEF OnDeadline, TypeOK
  <2>2. CASE StartRound(s, expired[s])
    <3>1. expired[s] \in Values
      BY <1>1, <1>6 DEF OnDeadline, TypeOK
    <3>2. QED  BY <2>1, <2>2, <3>1, StartRoundTimed
  <2>3. CASE Refuses(s) /\ UNCHANGED <<proposerVars, acceptorVars, learnerVars,
                                       deadline_timer, msgs>>
    BY <2>1, <2>3 DEF UndecidedIsTimed, Refuses
  <2>4. QED  BY <1>6, <2>2, <2>3 DEF OnDeadline
<1>7. ASSUME NEW m \in msgs, OnPromise(m), Timely(m)
      PROVE  UndecidedIsTimed'
  <2> DEFINE s == m.to
  <2>1. UNCHANGED <<current_proposal_number, learned_majority, informed, expired, running>>
    BY <1>7 DEF OnPromise, CompletesMajority
  <2>2. \/ UNCHANGED deadline_timer
        \/ deadline_timer' = [deadline_timer EXCEPT ![s] = proposer_value'[s]]
    BY <1>1, <1>7, PromiseIsCurrent DEF OnPromise, CompletesMajority, TypeOK
  <2>3. proposer_value'[s] \in Values
    <3>1. ProposerInv'
      BY <1>1, <1>7, OnPromiseProposer
    <3>2. QED  BY <1>7, <2>1, <3>1, PromiseIsCurrent DEF ProposerInv
  <2>4. \A t \in Servers : deadline_timer[t] # NoValue => deadline_timer'[t] # NoValue
    BY <1>1, <2>2, <2>3, NoValueAssumption DEF TypeOK
  <2>5. QED  BY <2>1, <2>4 DEF UndecidedIsTimed, Refuses
<1>8. ASSUME NEW m \in msgs, OnMajorityDenial(m)
      PROVE  UndecidedIsTimed'
  <2>1. m.to \in Servers /\ m.value \in Values
    BY <1>1, <1>8, MessageFields DEF OnMajorityDenial, TypeOK
  <2>2. CASE StartRound(m.to, m.value) /\ UNCHANGED running
    BY <1>8, <2>1, <2>2, StartRoundTimed DEF OnMajorityDenial
  <2>3. CASE /\ running' = [running EXCEPT ![m.to] = FALSE]
             /\ UNCHANGED <<proposerVars, acceptorVars, learnerVars, deadline_timer, msgs>>
    BY <1>1, <1>8, <2>1, <2>3 DEF OnMajorityDenial, UndecidedIsTimed, Refuses, TypeOK
  <2>4. QED  BY <1>8, <2>2, <2>3 DEF OnMajorityDenial
<1>9. ASSUME NEW m \in msgs, OnAccepted(m)
      PROVE  UndecidedIsTimed'
  <2>1. UNCHANGED <<current_proposal_number, informed, expired, running>>
    BY <1>9 DEF OnAccepted
  <2>2. CASE UNCHANGED <<learned_majority, deadline_timer>>
    BY <1>2, <2>1, <2>2
  <2>3. CASE /\ learned_majority' = [learned_majority EXCEPT ![m.to] = TRUE]
             /\ deadline_timer' = [deadline_timer EXCEPT ![m.to] = NoValue]
    BY <1>1, <2>1, <2>3 DEF UndecidedIsTimed, Refuses, TypeOK
  <2>4. QED  BY <1>9, <2>2, <2>3 DEF OnAccepted
<1>10. ASSUME NEW m \in msgs, OnInform(m)
       PROVE  UndecidedIsTimed'
  BY <1>1, <1>10 DEF OnInform, UndecidedIsTimed, Refuses, TypeOK
<1>11. ASSUME NEW m \in msgs, OnPrepare(m) \/ OnDenial(m) \/ OnAccept(m)
       PROVE  UndecidedIsTimed'
  BY <1>2, <1>11 DEF OnPrepare, OnDenial, OnAccept
<1>12. QED
  BY <1>3, <1>4, <1>5, <1>6, <1>7, <1>8, <1>9, <1>10, <1>11 DEF SafeNext, Dispatch

(* No order of promises, denials and timeouts leaves a submission waiting  *)
(* for nothing.                                                            *)
THEOREM SubmissionsAreTimed == Spec => []UndecidedIsTimed
<1>1. Init => UndecidedIsTimed
  BY DEF Init, UndecidedIsTimed
<1>2. IInv /\ UndecidedIsTimed /\ [Next]_vars => UndecidedIsTimed'
  BY NextIsSafe, TimedStep DEF IInv
<1>3. QED  BY <1>1, <1>2, Invariance, PTL DEF Spec
=============================================================================
