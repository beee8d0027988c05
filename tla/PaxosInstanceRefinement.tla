---------------------- MODULE PaxosInstanceRefinement ----------------------
(***************************************************************************)
(* The instance implements Consensus, for every number of servers, every   *)
(* set of commands and every bound.  What a step does to the commands that *)
(* are proposed and chosen is proved of SafeNext, and serves the recovery  *)
(* too.                                                                    *)
(***************************************************************************)
EXTENDS PaxosInstanceProofs

-----------------------------------------------------------------------------
(* What the servers know depends on these. *)
Known == <<learner_value, learned_majority, informed>>

(* A round proposes its value and changes nothing else. *)
LEMMA StartRoundProposes ==
  ASSUME NEW s \in Servers, NEW v \in Values, StartRound(s, v)
  PROVE  /\ Proposed' = Proposed \cup {v}
         /\ UNCHANGED <<Chosen, Known>>
         /\ Sent("ACCEPT")' = Sent("ACCEPT")
<1> DEFINE new == PrepareMessages(s, NextProposalNumber(s), v)
<1>1. msgs' = msgs \cup new
  BY LostAssumption DEF StartRound, Send, PrepareMessages
<1>2. \A k \in new : k.type = "PREPARE" /\ k.value = v
  BY DEF PrepareMessages
<1>3. \E k \in new : TRUE
  BY DEF PrepareMessages
<1>4. Proposed' = Proposed \cup {v}
  <2> HIDE DEF new
  <2>1. ASSUME NEW w \in Proposed'
        PROVE  w \in Proposed \cup {v}
    BY <1>1, <1>2 DEF Proposed
  <2>2. v \in Proposed'
    BY <1>1, <1>2, <1>3 DEF Proposed
  <2>3. Proposed \subseteq Proposed'
    BY <1>1 DEF Proposed
  <2>4. QED  BY <2>1, <2>2, <2>3
<1>5. Votes' = Votes /\ Sent("ACCEPT")' = Sent("ACCEPT")
  BY <1>1, <1>2 DEF Votes, Sent
<1>6. UNCHANGED Chosen
  BY <1>5 DEF Chosen, ChosenAt, Voters
<1>7. UNCHANGED Known
  BY DEF StartRound, learnerVars, Known
<1>8. QED  BY <1>4, <1>5, <1>6, <1>7

-----------------------------------------------------------------------------
(* Only submitted values travel. *)
LEMMA ProposedInit == Init => ProposedInv
BY DEF Init, ProposedInv, Sent

LEMMA StartRoundProposedInv ==
  ASSUME SafeInv, ProposedInv, NEW s \in Servers, NEW v \in Values, StartRound(s, v)
  PROVE  ProposedInv'
<1>1. Proposed' = Proposed \cup {v} /\ Sent("ACCEPT")' = Sent("ACCEPT")
  BY StartRoundProposes
<1>2. \A t \in Servers : proposer_value'[t] = IF t = s THEN v ELSE proposer_value[t]
  BY DEF StartRound, SafeInv, TypeOK
<1>3. QED  BY <1>1, <1>2 DEF ProposedInv

LEMMA OnPromiseProposedInv ==
  ASSUME SafeInv, TypeOK', ProposedInv, NEW m \in msgs, OnPromise(m), Timely(m)
  PROVE  ProposedInv'
<1> DEFINE s    == m.to
           best == IF Outranks(s, m) THEN m.value ELSE proposer_value[s]
<1>1. /\ m \in Sent("PROMISE") /\ s \in Servers
      /\ current_proposal_number[s] # s + N /\ m.number \in Nat /\ TypeOK
  BY PromiseIsCurrent DEF SafeInv
<1>2. best \in Proposed
  <2>1. CASE Outranks(s, m)
    <3>1. m.number # 0
      BY <1>1, <2>1, NaturalNumbers DEF Outranks
    <3>2. PICK j \in Sent("ACCEPT") : j.value = m.value
      BY <1>1, <3>1 DEF SafeInv, PromiseInv, IsProposal
    <3>3. QED  BY <2>1, <3>2 DEF ProposedInv
  <2>2. CASE ~Outranks(s, m)
    <3>1. proposer_value[s] \in Values
      BY <1>1 DEF SafeInv, ProposerInv
    <3>2. QED  BY <1>1, <2>2, <3>1, NoValueAssumption DEF ProposedInv
  <2>3. QED  BY <2>1, <2>2
<1>3. \A t \in Servers : proposer_value'[t] = IF t = s THEN best ELSE proposer_value[t]
  BY <1>1 DEF OnPromise, CompletesMajority, TypeOK
<1>4. \A k \in Sent("ACCEPT")' : k \in Sent("ACCEPT") \/ k.value = best
  BY DEF OnPromise, CompletesMajority, Send, AcceptMessages, Sent
<1>5. Sent("PREPARE")' = Sent("PREPARE")
  BY DEF OnPromise, CompletesMajority, Send, AcceptMessages, Sent
<1>6. UNCHANGED Proposed
  BY <1>5 DEF Proposed, Sent
<1>7. QED  BY <1>2, <1>3, <1>4, <1>6 DEF ProposedInv

(* No other step sends a PREPARE or an ACCEPT or changes a proposer_value. *)
Quiet == /\ Sent("PREPARE")' = Sent("PREPARE")
         /\ Sent("ACCEPT")' = Sent("ACCEPT")
         /\ UNCHANGED proposer_value

LEMMA QuietProposedInv ==
  ASSUME ProposedInv, Quiet
  PROVE  ProposedInv'
BY DEF ProposedInv, Quiet, Proposed, Sent

LEMMA QuietSteps ==
  /\ UNCHANGED vars => Quiet
  /\ \A s \in Servers : DeadlineExpires(s) => Quiet
  /\ \A m \in msgs : OnPrepare(m) \/ OnDenial(m) \/ OnAccept(m) \/ OnAccepted(m)
                       \/ OnInform(m) => Quiet
  /\ UNCHANGED <<proposerVars, msgs>> => Quiet
BY DEF vars, proposerVars, DeadlineExpires, OnPrepare, OnDenial, OnAccept, OnAccepted,
       OnInform, InformOutdated, Denial, Send, Sent, Quiet

LEMMA ProposedStep ==
  ASSUME SafeInv, ProposedInv, [SafeNext]_vars
  PROVE  ProposedInv'
<1>1. TypeOK'
  BY TypeStep
<1>2. ASSUME NEW s \in Proposers, NEW v \in Values, Submit(s, v)
      PROVE  ProposedInv'
  BY <1>2, ProposersAssumption, StartRoundProposedInv DEF Submit
<1>3. ASSUME NEW s \in Servers, OnDeadline(s)
      PROVE  ProposedInv'
  <2>1. expired[s] \in Values
    BY <1>3 DEF OnDeadline, SafeInv, TypeOK
  <2>2. QED
    BY <1>3, <2>1, StartRoundProposedInv, QuietSteps, QuietProposedInv
       DEF OnDeadline, proposerVars
<1>4. ASSUME NEW m \in msgs, OnMajorityDenial(m)
      PROVE  ProposedInv'
  <2>1. m.to \in Servers /\ m.value \in Values
    BY <1>4, MessageFields DEF OnMajorityDenial, SafeInv, TypeOK
  <2>2. QED
    BY <1>4, <2>1, StartRoundProposedInv, QuietSteps, QuietProposedInv
       DEF OnMajorityDenial, proposerVars
<1>5. ASSUME NEW m \in msgs, OnPromise(m), Timely(m)
      PROVE  ProposedInv'
  BY <1>1, <1>5, OnPromiseProposedInv
<1>6. QED
  BY <1>2, <1>3, <1>4, <1>5, QuietSteps, QuietProposedInv DEF SafeNext, Dispatch

-----------------------------------------------------------------------------
LEMMA ConsistentNext == SafeInv' => Consistency'
BY ConsistentNow, PTL

(* A chosen command was proposed. *)
ChosenWasProposed == Chosen \subseteq Proposed

LEMMA ChosenProposedNow == SafeInv /\ ProposedInv => ChosenWasProposed
<1> SUFFICES ASSUME SafeInv, ProposedInv, NEW v \in Chosen PROVE v \in Proposed
  BY DEF ChosenWasProposed
<1>1. PICK k \in Votes : k.value = v
  BY DEF Chosen
<1>2. PICK m \in Sent("ACCEPT") : m.value = v
  BY <1>1 DEF SafeInv, VoteInv
<1>3. QED  BY <1>2 DEF ProposedInv

LEMMA ChosenProposedNext == SafeInv' /\ ProposedInv' => ChosenWasProposed'
BY ChosenProposedNow, PTL

(* A learned command is a chosen one. *)
LearnedWasChosen == \A s \in Servers : Refuses(s) => learner_value[s] \in Chosen

LEMMA LearnedChosenNow == SafeInv => LearnedWasChosen
<1> SUFFICES ASSUME SafeInv, NEW s \in Servers, Refuses(s)
             PROVE  learner_value[s] \in Chosen
  BY DEF LearnedWasChosen
<1>1. ChosenAt(learner_number[s], learner_value[s])
  BY DEF SafeInv, LearnedIsChosen
<1>2. PICK a : a \in Voters(learner_number[s], learner_value[s])
  BY <1>1, MajorityNonEmpty DEF ChosenAt
<1>3. PICK k \in Votes : k.number = learner_number[s] /\ k.value = learner_value[s]
  BY <1>2 DEF Voters
<1>4. QED  BY <1>1, <1>3 DEF Chosen

LEMMA LearnedChosenNext == SafeInv' => LearnedWasChosen'
BY LearnedChosenNow, PTL

-----------------------------------------------------------------------------
(* What a step can do to the commands that are proposed and chosen.        *)
Proposes(v) == /\ Proposed' = Proposed \cup {v}
               /\ UNCHANGED <<Chosen, Known>>

Chooses(v) == /\ Chosen = {} /\ v \in Proposed
              /\ Chosen' = {v}
              /\ UNCHANGED <<Proposed, Known>>

Learns(m) == /\ OnAccepted(m) \/ OnInform(m)
             /\ UNCHANGED <<Proposed, Chosen>>

(* A vote chooses at most one value, and only when none was chosen.        *)
LEMMA OnAcceptChooses ==
  ASSUME SafeInv, SafeInv', ProposedInv, ProposedInv', NEW m \in msgs, OnAccept(m)
  PROVE  (\E v \in Values : Chooses(v)) \/ UNCHANGED <<Proposed, Chosen, Known>>
<1>1. UNCHANGED <<Proposed, Known>>
  <2>1. Sent("PREPARE")' = Sent("PREPARE")
    BY DEF OnAccept, InformOutdated, Send, Sent
  <2>2. QED  BY <2>1 DEF Proposed, Sent, OnAccept, learnerVars, Known
<1>2. Chosen \subseteq Chosen'
  <2>1. TypeOK /\ TypeOK' /\ msgs \subseteq msgs'
    BY DEF SafeInv, OnAccept, InformOutdated, Send
  <2>2. \A k \in Votes' \ Votes : prepare_number[k.from] <= k.number
    <3>1. [SafeNext]_vars
      BY DEF SafeNext, Dispatch, Timely, OnAccept
    <3>2. QED  BY <3>1, NewVotes DEF Votes
  <2>3. \A a \in Servers : prepare_number[a] <= prepare_number'[a]
    <3>1. m.to \in Servers /\ m.number \in Nat
      BY <2>1, NaturalNumbers DEF OnAccept
    <3>2. prepare_number \in [Servers -> Nat]
      BY <2>1, MaxNumberAssumption DEF TypeOK, Numbers
    <3>3. QED  BY <3>1, <3>2 DEF OnAccept, acceptorVars, CanAccept
  <2>4. \A n, v : ChosenAt(n, v) => ChosenAt(n, v)'
    BY <2>1, <2>2, <2>3, Stable
  <2>5. Votes \subseteq Votes'
    BY <2>1 DEF Votes
  <2>6. QED  BY <2>4, <2>5 DEF Chosen
<1>3. \A v, w \in Chosen' : v = w
  BY ConsistentNext DEF Consistency
<1>4. CASE Chosen' # Chosen
  <2>1. PICK v \in Chosen' : v \notin Chosen
    BY <1>2, <1>4
  <2>2. Chosen = {} /\ Chosen' = {v}
    BY <1>2, <1>3, <2>1
  <2>3. v \in Proposed
    BY <1>1, <2>1, ChosenProposedNext DEF ChosenWasProposed
  <2>4. v \in Values
    BY <2>3 DEF Proposed
  <2>5. QED  BY <1>1, <2>2, <2>3, <2>4 DEF Chooses
<1>5. QED  BY <1>1, <1>4

(* Every step proposes a command, chooses one, tells a learner, or does    *)
(* none of these.                                                          *)
LEMMA WhatAStepDoes ==
  ASSUME SafeInv, SafeInv', ProposedInv, ProposedInv', [SafeNext]_vars
  PROVE  \/ \E v \in Values : Proposes(v) \/ Chooses(v)
         \/ \E m \in msgs : Learns(m)
         \/ UNCHANGED <<Proposed, Chosen, Known>>
<1> DEFINE Idle == UNCHANGED <<Proposed, Chosen, Known>>
<1>1. ASSUME NEW s \in Servers, NEW v \in Values, StartRound(s, v)
      PROVE  Proposes(v)
  BY <1>1, StartRoundProposes DEF Proposes
<1>2. ASSUME Quiet, Votes' = Votes
      PROVE  UNCHANGED <<Proposed, Chosen>>
  BY <1>2 DEF Quiet, Proposed, Sent, Chosen, ChosenAt, Voters
<1>3. CASE UNCHANGED vars
  BY <1>2, <1>3, QuietSteps DEF vars, learnerVars, Votes, Known
<1>4. CASE \E s \in Proposers, v \in Values : Submit(s, v)
  BY <1>1, <1>4, ProposersAssumption DEF Submit
<1>5. ASSUME NEW s \in Servers, DeadlineExpires(s)
      PROVE  Idle
  BY <1>2, <1>5, QuietSteps DEF DeadlineExpires, learnerVars, Votes, Known
<1>6. ASSUME NEW s \in Servers, OnDeadline(s)
      PROVE  (\E v \in Values : Proposes(v)) \/ Idle
  <2>1. expired[s] \in Values
    BY <1>6 DEF OnDeadline, SafeInv, TypeOK
  <2>2. CASE UNCHANGED <<proposerVars, acceptorVars, learnerVars, deadline_timer, msgs>>
    BY <1>2, <2>2, QuietSteps DEF proposerVars, learnerVars, Votes, Known
  <2>3. QED  BY <1>1, <1>6, <2>1, <2>2 DEF OnDeadline
<1>7. ASSUME NEW m \in msgs, OnMajorityDenial(m)
      PROVE  (\E v \in Values : Proposes(v)) \/ Idle
  <2>1. m.to \in Servers /\ m.value \in Values
    BY <1>7, MessageFields DEF OnMajorityDenial, SafeInv, TypeOK
  <2>2. CASE UNCHANGED <<proposerVars, acceptorVars, learnerVars, deadline_timer, msgs>>
    BY <1>2, <2>2, QuietSteps DEF proposerVars, learnerVars, Votes, Known
  <2>3. QED  BY <1>1, <1>7, <2>1, <2>2 DEF OnMajorityDenial
<1>8. ASSUME NEW m \in msgs, OnPrepare(m) \/ OnDenial(m)
      PROVE  Idle
  <2>1. Votes' = Votes
    BY <1>8 DEF OnPrepare, OnDenial, InformOutdated, Denial, Send, Votes
  <2>2. UNCHANGED Known
    BY <1>8 DEF OnPrepare, OnDenial, learnerVars, Known
  <2>3. QED  BY <1>2, <1>8, <2>1, <2>2, QuietSteps
<1>9. ASSUME NEW m \in msgs, OnPromise(m)
      PROVE  Idle
  <2>1. Votes' = Votes /\ Sent("PREPARE")' = Sent("PREPARE")
    BY <1>9 DEF OnPromise, CompletesMajority, AcceptMessages, Send, Sent, Votes
  <2>2. UNCHANGED Known
    BY <1>9 DEF OnPromise, CompletesMajority, learnerVars, Known
  <2>3. QED  BY <2>1, <2>2 DEF Proposed, Sent, Chosen, ChosenAt, Voters
<1>10. ASSUME NEW m \in msgs, OnAccept(m)
       PROVE  (\E v \in Values : Chooses(v)) \/ Idle
  BY <1>10, OnAcceptChooses
<1>11. ASSUME NEW m \in msgs, OnAccepted(m) \/ OnInform(m)
       PROVE  Learns(m)
  <2>1. Votes' = Votes
    BY <1>11 DEF OnAccepted, OnInform, Send, Votes
  <2>2. QED  BY <1>2, <1>11, <2>1, QuietSteps DEF Learns
<1>12. QED
  BY <1>3, <1>4, <1>5, <1>6, <1>7, <1>8, <1>9, <1>10, <1>11 DEF SafeNext, Dispatch

-----------------------------------------------------------------------------
(* Learning takes over what was chosen. *)
LEMMA LearnStep ==
  ASSUME SafeInv, SafeInv', NEW s \in Servers, Refuses(s)', UNCHANGED <<Proposed, Chosen>>,
         \A t \in Servers \ {s} :
            (Refuses(t)' <=> Refuses(t)) /\ learner_value'[t] = learner_value[t]
  PROVE  Abstract!Learn(s) \/ UNCHANGED <<Proposed, Chosen, Learned>>
<1>1. learner_value'[s] \in Chosen
  BY LearnedChosenNext DEF LearnedWasChosen
<1>2. Chosen = {learner_value'[s]}
  BY <1>1, ConsistentNow DEF Consistency
<1>3. Learned' = [Learned EXCEPT ![s] = Chosen]
  BY <1>2 DEF Learned
<1>4. CASE Refuses(s)
  <2>1. Learned[s] = Chosen
    BY <1>2, <1>4, LearnedChosenNow DEF Learned, LearnedWasChosen
  <2>2. Learned' = Learned
    BY <1>3, <2>1 DEF Learned
  <2>3. QED  BY <2>2
<1>5. CASE ~Refuses(s)
  <2>1. Learned[s] = {}
    BY <1>5 DEF Learned
  <2>2. QED  BY <1>2, <1>3, <2>1 DEF Abstract!Learn
<1>6. QED  BY <1>4, <1>5

(* Every step of the instance is a step of Consensus or changes nothing    *)
(* that Consensus sees.                                                    *)
LEMMA AbstractStep ==
  ASSUME SafeInv, SafeInv', ProposedInv, ProposedInv', [SafeNext]_vars
  PROVE  [Abstract!Next]_(Abstract!vars)
<1>1. ASSUME UNCHANGED Known
      PROVE  UNCHANGED Learned
  BY <1>1 DEF Known, Learned, Refuses
<1>2. ASSUME NEW v \in Values, Proposes(v)
      PROVE  Abstract!Next
  BY <1>1, <1>2 DEF Proposes, Abstract!Next, Abstract!Propose
<1>3. ASSUME NEW v \in Values, Chooses(v)
      PROVE  Abstract!Next
  BY <1>1, <1>3 DEF Chooses, Abstract!Next, Abstract!Choose
<1>4. ASSUME NEW m \in msgs, Learns(m)
      PROVE  Abstract!Next \/ UNCHANGED <<Proposed, Chosen, Learned>>
  <2>1. m.to \in Servers /\ UNCHANGED <<Proposed, Chosen>>
    BY <1>4, NaturalNumbers DEF Learns, SafeInv
  <2>2. \A t \in Servers \ {m.to} :
          (Refuses(t)' <=> Refuses(t)) /\ learner_value'[t] = learner_value[t]
    BY <1>4, <2>1 DEF Learns, OnAccepted, OnInform, Refuses, SafeInv, TypeOK
  <2>3. CASE Refuses(m.to)'
    BY <2>1, <2>2, <2>3, LearnStep DEF Abstract!Next
  <2>4. CASE ~Refuses(m.to)'
    <3>1. ~Refuses(m.to)
      BY <1>4, <2>1, <2>4 DEF Learns, OnAccepted, OnInform, Refuses, SafeInv, TypeOK
    <3>2. UNCHANGED Learned
      BY <2>2, <2>4, <3>1 DEF Learned
    <3>3. QED  BY <2>1, <3>2
  <2>5. QED  BY <2>3, <2>4
<1>5. QED  BY <1>1, <1>2, <1>3, <1>4, WhatAStepDoes DEF Abstract!vars

LEMMA AbstractInit == Init => Abstract!Init
<1> SUFFICES ASSUME Init PROVE Abstract!Init
  OBVIOUS
<1>1. Proposed = {} /\ Votes = {}
  BY DEF Init, Proposed, Votes
<1>2. Chosen = {}
  BY <1>1 DEF Chosen
<1>3. Learned = [s \in Servers |-> {}]
  BY DEF Init, Learned, Refuses
<1>4. QED  BY <1>1, <1>2, <1>3 DEF Abstract!Init

(* The instance implements Consensus: at most one submitted command is     *)
(* chosen, and a server that knows the outcome knows that one and never    *)
(* unlearns it.                                                            *)
THEOREM Implementation == Spec => ImplementsConsensus
<1>1. Init => Abstract!Init /\ ProposedInv
  BY AbstractInit, ProposedInit
<1>2. IInv /\ ProposedInv /\ [Next]_vars => ProposedInv'
  BY NextIsSafe, ProposedStep DEF IInv
<1>3. IInv /\ IInv' /\ ProposedInv /\ ProposedInv' /\ [Next]_vars
        => [Abstract!Next]_(Abstract!vars)
  BY NextIsSafe, AbstractStep DEF IInv
<1>4. QED
  BY <1>1, <1>2, <1>3, Invariance, PTL DEF Spec, ImplementsConsensus, Abstract!Spec

-----------------------------------------------------------------------------
(* What the servers above see of the slot.                                 *)
LEMMA RoundsInit == Init => RoundsInv
BY DEF Init, RoundsInv, Sent, Votes

(* A server is answered by a message to the sender of the one received.    *)
LEMMA RoundsStep ==
  ASSUME RoundsInv, [SafeNext]_vars
  PROVE  RoundsInv'
<1>1. msgs \subseteq msgs'
  BY DEF SafeNext, Dispatch, Submit, DeadlineExpires, OnDeadline, StartRound, OnPrepare,
         OnPromise, OnDenial, OnMajorityDenial, OnAccept, OnAccepted, OnInform,
         InformOutdated, Send, vars
<1>2. Prepared \subseteq Prepared'
  BY <1>1 DEF Prepared
<1>3. ASSUME NEW k \in msgs' \ msgs,
             k.type = "PROMISE" \/ k.type = "ACCEPTED" \/ k.type = "ACCEPT"
      PROVE  IF k.type = "ACCEPT" THEN k.from \in Prepared ELSE k.to \in Prepared
  <2>1. PICK m \in msgs : OnPrepare(m) \/ OnPromise(m) \/ OnAccept(m)
    <3>1. ASSUME NEW s, NEW v, StartRound(s, v)
          PROVE  FALSE
      BY <1>3, <3>1 DEF StartRound, PrepareMessages, Send
    <3>2. msgs' # msgs
      BY <1>3
    <3>3. ~(\E m \in msgs : OnDenial(m) \/ OnMajorityDenial(m) \/ OnInform(m))
      BY <3>1, <3>2 DEF OnDenial, OnMajorityDenial, OnInform
    <3>4. ~(\E m \in msgs : OnAccepted(m))
      BY <1>3, <3>2 DEF OnAccepted, Send
    <3>5. ~(\E s \in Servers : DeadlineExpires(s) \/ OnDeadline(s))
      BY <3>1, <3>2 DEF DeadlineExpires, OnDeadline
    <3>6. QED  BY <3>1, <3>2, <3>3, <3>4, <3>5 DEF SafeNext, Dispatch, Submit, vars
  <2>2. CASE OnPrepare(m)
    BY <1>3, <2>2 DEF OnPrepare, InformOutdated, Denial, Send, Prepared
  <2>3. CASE OnPromise(m)
    BY <1>3, <2>3 DEF OnPromise, AcceptMessages, Send, RoundsInv, Sent
  <2>4. CASE OnAccept(m)
    BY <1>3, <2>4 DEF OnAccept, InformOutdated, Send, RoundsInv, Sent
  <2>5. QED  BY <2>1, <2>2, <2>3, <2>4
<1>4. QED  BY <1>2, <1>3 DEF RoundsInv, Sent, Votes

(* A step that sends neither PREPARE nor INFORM and teaches nothing is not *)
(* seen, unless it chooses.                                                *)
SlotQuiet == /\ Sent("PREPARE")' = Sent("PREPARE")
             /\ Sent("INFORM")' = Sent("INFORM")
             /\ UNCHANGED <<learned_majority, Told>>

LEMMA QuietSlot ==
  ASSUME SlotQuiet
  PROVE  /\ UNCHANGED <<Prepared, Proposed, Informs, Told, learned_majority>>
         /\ UNCHANGED Chosen => UNCHANGED Slot!vars
         /\ \A v : Chosen = {} /\ v \in Proposed /\ Chosen' = {v} => Slot!Choose(v)
<1>1. UNCHANGED <<Prepared, Proposed, Informs, Told, learned_majority>>
  BY DEF SlotQuiet, Prepared, Proposed, Informs, Sent
<1>2. QED  BY <1>1 DEF Slot!vars, Slot!Choose

LEMMA StartRoundInSlot ==
  ASSUME NEW s \in Servers, NEW v \in Values, ~Refuses(s), StartRound(s, v)
  PROVE  Slot!Propose(s, v)
<1>1. Proposed' = Proposed \cup {v} /\ UNCHANGED <<Chosen, Known>>
  BY StartRoundProposes
<1> DEFINE new == PrepareMessages(s, NextProposalNumber(s), v)
<1>2. msgs' = msgs \cup new
  BY LostAssumption DEF StartRound, Send, PrepareMessages
<1>3. \A k \in new : k.type = "PREPARE" /\ k.from = s
  BY DEF PrepareMessages
<1>4. \E k \in new : TRUE
  BY DEF PrepareMessages
<1>5. Prepared' = Prepared \cup {s} /\ Informs' = Informs
  <2> HIDE DEF new
  <2>1. Prepared' = Prepared \cup {s}
    BY <1>2, <1>3, <1>4 DEF Prepared
  <2>2. {k \in msgs' : k.type = "INFORM"} = {k \in msgs : k.type = "INFORM"}
    BY <1>2, <1>3
  <2>3. QED  BY <2>1, <2>2 DEF Informs
<1>6. UNCHANGED Told
  BY <1>1 DEF Known, Told
<1>7. ~Slot!Refuses(s)
  BY DEF Slot!Refuses, Refuses, Told
<1>8. QED  BY <1>1, <1>5, <1>6, <1>7 DEF Slot!Propose, Known

(* An informed server answers one that has started a round. *)
LEMMA InformOutdatedInSlot ==
  ASSUME NEW m \in msgs, m.to \in Servers, m.from \in Prepared, m.from \in Servers,
         informed[m.to], InformOutdated(m), UNCHANGED learnerVars
  PROVE  Slot!InformOutdated(m.to, m.from) \/ UNCHANGED Slot!vars
<1> DEFINE k == [type |-> "INFORM", to |-> m.from,
                 number |-> learner_number[m.to], value |-> learner_value[m.to]]
<1>1. msgs' = msgs \cup ({k} \ {j \in {k} : j.type \in Lost})
  BY DEF InformOutdated, Send
<1>2. Votes' = Votes /\ Sent("PREPARE")' = Sent("PREPARE")
  BY <1>1 DEF Votes, Sent
<1>3. UNCHANGED <<Prepared, Proposed, Chosen, Told, learned_majority>>
  BY <1>2 DEF Prepared, Proposed, Sent, Chosen, ChosenAt, Voters, Told, learnerVars
<1>4. Told[m.to] = {learner_value[m.to]}
  BY DEF Told
<1>5. CASE "INFORM" \in Lost
  <2>1. msgs' = msgs
    BY <1>1, <1>5
  <2>2. QED  BY <1>3, <2>1 DEF Slot!vars, Informs
<1>6. CASE "INFORM" \notin Lost
  <2>1. msgs' = msgs \cup {k}
    BY <1>1, <1>6
  <2>2. Informs' = Informs \cup {[to |-> k.to, value |-> k.value]}
    <3>1. k.type = "INFORM"
      OBVIOUS
    <3> HIDE DEF k
    <3>2. QED  BY <2>1, <3>1 DEF Informs
  <2>3. Slot!Informing({m.from}, Told[m.to]) = {[to |-> k.to, value |-> k.value]}
    BY <1>4 DEF Slot!Informing
  <2>4. QED  BY <1>3, <1>4, <2>2, <2>3 DEF Slot!InformOutdated
<1>7. QED  BY <1>5, <1>6

(* A learner that hears of a majority informs all, or the network loses    *)
(* all of it.                                                              *)
LEMMA OnAcceptedInSlot ==
  ASSUME SafeInv, SafeInv', RoundsInv, NEW m \in msgs, OnAccepted(m)
  PROVE  (\E reached \in SUBSET Servers : Slot!LearnMajority(m.to, reached))
           \/ UNCHANGED Slot!vars
<1> DEFINE s == m.to
           v == IF m.number > learner_number[s] THEN m.value ELSE learner_value[s]
           new == {[type |-> "INFORM", to |-> d, number |-> m.number, value |-> v] : d \in Servers}
<1>1. s \in Servers /\ TypeOK /\ ~informed[s] /\ ~learned_majority[s]
  BY NaturalNumbers DEF SafeInv, OnAccepted
<1>2. UNCHANGED Told
  BY <1>1 DEF OnAccepted, Told, TypeOK
<1>3. /\ Votes' = Votes /\ Sent("PREPARE")' = Sent("PREPARE")
      /\ UNCHANGED <<Prepared, Proposed, Chosen>>
  <2>1. Votes' = Votes /\ Sent("PREPARE")' = Sent("PREPARE")
    BY DEF OnAccepted, Send, Votes, Sent
  <2>2. QED  BY <2>1 DEF Prepared, Proposed, Sent, Chosen, ChosenAt, Voters
<1>4. CASE ~IsMajority(AcceptedWith(s, m))
  BY <1>2, <1>3, <1>4 DEF OnAccepted, Slot!vars, Informs
<1>5. CASE IsMajority(AcceptedWith(s, m))
  <2>1. learned_majority' = [learned_majority EXCEPT ![s] = TRUE]
    BY <1>5 DEF OnAccepted
  <2>2. Chosen = {v}
    <3>1. learner_value'[s] = v /\ Refuses(s)'
      BY <1>1, <2>1 DEF OnAccepted, TypeOK, Refuses
    <3>2. v \in Chosen
      BY <1>1, <1>3, <3>1, LearnedChosenNext DEF LearnedWasChosen
    <3>3. QED  BY <3>2, ConsistentNow DEF Consistency
  <2>3. s \in Prepared
    BY DEF OnAccepted, RoundsInv, Votes
  <2>4. ~Slot!Refuses(s)
    BY <1>1 DEF Slot!Refuses, Told
  <2>5. {t \in Servers : learned_majority[t]}' = {t \in Servers : learned_majority[t]} \cup {s}
    BY <1>1, <2>1 DEF TypeOK
  <2>6. msgs' = IF "INFORM" \in Lost THEN msgs ELSE msgs \cup new
    <3>1. Send(new)
      BY <1>5 DEF OnAccepted
    <3>2. QED  BY <3>1 DEF Send
  <2>7. \E reached \in SUBSET Servers : Informs' = Informs \cup Slot!Informing(reached, {v})
    <3>1. CASE "INFORM" \in Lost
      <4>1. Informs' = Informs \cup Slot!Informing({}, {v})
        BY <2>6, <3>1 DEF Informs, Slot!Informing
      <4>2. QED  BY <4>1
    <3>2. CASE "INFORM" \notin Lost
      <4>1. Informs' = Informs \cup {[to |-> k.to, value |-> k.value] : k \in new}
        <5>1. \A k \in new : k.type = "INFORM"
          OBVIOUS
        <5> HIDE DEF new
        <5>2. QED  BY <2>6, <3>2, <5>1 DEF Informs
      <4>2. {[to |-> k.to, value |-> k.value] : k \in new} = Slot!Informing(Servers, {v})
        <5>1. ASSUME NEW x \in {[to |-> k.to, value |-> k.value] : k \in new}
              PROVE  x \in Slot!Informing(Servers, {v})
          <6>1. PICK d \in Servers : x = [to |-> d, value |-> v]
            OBVIOUS
          <6> HIDE DEF v
          <6>2. QED  BY <6>1 DEF Slot!Informing
        <5>2. ASSUME NEW x \in Slot!Informing(Servers, {v})
              PROVE  x \in {[to |-> k.to, value |-> k.value] : k \in new}
          <6>1. PICK d \in Servers : x = [to |-> d, value |-> v]
            <7> HIDE DEF v
            <7>1. QED  BY DEF Slot!Informing
          <6>2. PICK k \in new : k = [type |-> "INFORM", to |-> d, number |-> m.number,
                                      value |-> v]
            OBVIOUS
          <6>3. x = [to |-> k.to, value |-> k.value]
            BY <6>1, <6>2
          <6>4. QED  BY <6>3
        <5>3. QED  BY <5>1, <5>2
      <4>3. QED  BY <4>1, <4>2
    <3>3. QED  BY <3>1, <3>2
  <2>8. QED  BY <1>2, <1>3, <2>2, <2>3, <2>4, <2>5, <2>7 DEF Slot!LearnMajority
<1>6. QED  BY <1>4, <1>5

LEMMA OnInformInSlot ==
  ASSUME SafeInv, NEW m \in msgs, OnInform(m)
  PROVE  \E i \in Informs : Slot!OnInform(i)
<1> DEFINE i == [to |-> m.to, value |-> m.value]
<1>1. m.to \in Servers /\ TypeOK /\ i \in Informs
  BY NaturalNumbers DEF SafeInv, OnInform, Informs
<1>2. Told[m.to] = {} /\ Told' = [Told EXCEPT ![m.to] = {m.value}]
  BY <1>1 DEF OnInform, Told, TypeOK
<1>3. UNCHANGED <<Prepared, Proposed, Chosen, Informs, learned_majority>>
  BY DEF OnInform, Prepared, Proposed, Chosen, ChosenAt, Voters, Votes, Informs
<1>4. Slot!OnInform(i)
  BY <1>2, <1>3 DEF Slot!OnInform
<1>5. QED  BY <1>1, <1>4

(* A vote is seen when it chooses. *)
LEMMA OnAcceptInSlot ==
  ASSUME SafeInv, SafeInv', ProposedInv, ProposedInv', RoundsInv,
         NEW m \in msgs, OnAccept(m)
  PROVE  [Slot!Next]_(Slot!vars)
<1>1. m.to \in Servers /\ m.from \in Servers
  BY NaturalNumbers DEF OnAccept, SafeInv
<1>2. CASE informed[m.to]
  <2>1. m.from \in Prepared
    BY DEF OnAccept, RoundsInv, Sent
  <2>2. InformOutdated(m) /\ UNCHANGED learnerVars
    BY <1>2 DEF OnAccept
  <2>3. QED  BY <1>1, <1>2, <2>1, <2>2, InformOutdatedInSlot DEF Slot!Next
<1>3. CASE ~informed[m.to]
  <2>1. SlotQuiet
    BY <1>3 DEF OnAccept, Send, SlotQuiet, Sent, learnerVars, Told
  <2>2. (\E v \in Values : Chooses(v)) \/ UNCHANGED Chosen
    BY OnAcceptChooses
  <2>3. QED  BY <2>1, <2>2, QuietSlot DEF Chooses, Slot!Next
<1>4. QED  BY <1>2, <1>3

LEMMA OnPrepareInSlot ==
  ASSUME TypeOK, NEW m \in msgs, OnPrepare(m)
  PROVE  [Slot!Next]_(Slot!vars)
<1>1. m.to \in Servers /\ m.from \in Servers /\ m.from \in Prepared
  BY NaturalNumbers DEF OnPrepare, Prepared
<1>2. CASE informed[m.to]
  <2>1. InformOutdated(m) /\ UNCHANGED learnerVars
    BY <1>2 DEF OnPrepare
  <2>2. QED  BY <1>1, <1>2, <2>1, InformOutdatedInSlot DEF Slot!Next
<1>3. CASE ~informed[m.to]
  <2>1. SlotQuiet
    BY <1>3 DEF OnPrepare, Denial, Send, SlotQuiet, Sent, learnerVars, Told
  <2>2. Votes' = Votes
    BY <1>3 DEF OnPrepare, Denial, Send, Votes
  <2>3. QED  BY <2>1, <2>2, QuietSlot DEF Chosen, ChosenAt, Voters
<1>4. QED  BY <1>2, <1>3

(* Every step of the instance is a step of the slot, or is not seen.       *)
LEMMA SlotStep ==
  ASSUME SafeInv, SafeInv', ProposedInv, ProposedInv', RoundsInv, [SafeNext]_vars
  PROVE  [Slot!Next]_(Slot!vars)
<1>1. ASSUME NEW s \in Servers, NEW v \in Values, ~Refuses(s), StartRound(s, v)
      PROVE  Slot!Next
  BY <1>1, StartRoundInSlot DEF Slot!Next
<1>2. ASSUME Sent("PREPARE")' = Sent("PREPARE"), Sent("INFORM")' = Sent("INFORM"),
             Votes' = Votes, UNCHANGED learnerVars
      PROVE  UNCHANGED Slot!vars
  BY <1>2, QuietSlot DEF SlotQuiet, learnerVars, Told, Chosen, ChosenAt, Voters
<1>3. ASSUME UNCHANGED <<learnerVars, msgs>>
      PROVE  UNCHANGED Slot!vars
  BY <1>2, <1>3 DEF Sent, Votes
<1>4. CASE UNCHANGED vars
  BY <1>3, <1>4 DEF vars
<1>5. CASE \E s \in Proposers, v \in Values : Submit(s, v)
  BY <1>1, <1>5, ProposersAssumption DEF Submit
<1>6. ASSUME NEW s \in Servers, DeadlineExpires(s) \/ OnDeadline(s)
      PROVE  [Slot!Next]_(Slot!vars)
  <2>1. OnDeadline(s) => expired[s] \in Values
    BY DEF OnDeadline, SafeInv, TypeOK
  <2>2. QED  BY <1>1, <1>3, <1>6, <2>1 DEF DeadlineExpires, OnDeadline
<1>7. ASSUME NEW m \in msgs, OnDenial(m) \/ OnMajorityDenial(m)
      PROVE  [Slot!Next]_(Slot!vars)
  <2>1. m.to \in Servers /\ m.value \in Values
    BY <1>7, MessageFields DEF OnDenial, OnMajorityDenial, SafeInv, TypeOK
  <2>2. QED  BY <1>1, <1>3, <1>7, <2>1 DEF OnDenial, OnMajorityDenial
<1>8. ASSUME NEW m \in msgs, OnPromise(m)
      PROVE  UNCHANGED Slot!vars
  <2>1. /\ Sent("PREPARE")' = Sent("PREPARE") /\ Sent("INFORM")' = Sent("INFORM")
        /\ Votes' = Votes
    BY <1>8 DEF OnPromise, CompletesMajority, AcceptMessages, Send, Sent, Votes
  <2>2. QED  BY <1>2, <1>8, <2>1 DEF OnPromise
<1>9. ASSUME NEW m \in msgs, OnAccepted(m) \/ OnInform(m)
      PROVE  [Slot!Next]_(Slot!vars)
  <2>1. m.to \in Servers
    BY <1>9, NaturalNumbers DEF SafeInv
  <2>2. QED  BY <1>9, <2>1, OnAcceptedInSlot, OnInformInSlot DEF Slot!Next
<1>10. ASSUME NEW m \in msgs, OnPrepare(m) \/ OnAccept(m)
       PROVE  [Slot!Next]_(Slot!vars)
  BY <1>10, OnPrepareInSlot, OnAcceptInSlot DEF SafeInv
<1>11. QED
  BY <1>4, <1>5, <1>6, <1>7, <1>8, <1>9, <1>10 DEF SafeNext, Dispatch

LEMMA SlotInit == Init => Slot!Init
<1> SUFFICES ASSUME Init PROVE Slot!Init
  OBVIOUS
<1>1. Proposed = {} /\ Chosen = {}
  BY AbstractInit DEF Abstract!Init
<1>2. Prepared = {} /\ Informs = {}
  BY DEF Init, Prepared, Informs
<1>3. Told = [s \in Servers |-> {}] /\ {s \in Servers : learned_majority[s]} = {}
  BY DEF Init, Told
<1>4. QED  BY <1>1, <1>2, <1>3 DEF Slot!Init

(* The instance is the slot that PaxosServer builds on: only servers that  *)
(* have started a round learn from a majority or are answered with the     *)
(* result, nobody proposes or learns again what it knows, and everything   *)
(* that is told is the chosen command (acceptor.cpp:15, learner.cpp:36).   *)
THEOREM SlotImplementation == Spec => ImplementsSlot
<1>1. Init => Slot!Init /\ ProposedInv /\ RoundsInv
  BY SlotInit, ProposedInit, RoundsInit
<1>2. IInv /\ ProposedInv /\ RoundsInv /\ [Next]_vars => ProposedInv' /\ RoundsInv'
  BY NextIsSafe, ProposedStep, RoundsStep DEF IInv
<1>3. IInv /\ IInv' /\ ProposedInv /\ ProposedInv' /\ RoundsInv /\ [Next]_vars
        => [Slot!Next]_(Slot!vars)
  BY NextIsSafe, SlotStep DEF IInv
<1>4. QED
  BY <1>1, <1>2, <1>3, Invariance, PTL DEF Spec, ImplementsSlot, Slot!Spec
=============================================================================
