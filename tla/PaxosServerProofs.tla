------------------------- MODULE PaxosServerProofs -------------------------
(***************************************************************************)
(* ServerInv is an invariant of PaxosServer, for every number of servers   *)
(* and slots and every set of commands, with and without at_most_once; so  *)
(* are the properties it implies.                                          *)
(***************************************************************************)
EXTENDS PaxosServerInv, AscendingProofs

(* try_execute_commands takes an interval out of the heap, and stops before*)
(* a slot that is missing.                                                 *)
LEMMA TurnIsInterval ==
  ASSUME NEW s \in Servers, NEW heap, executed_cmd_seq[s] \in 0 .. MaxSequence
  PROVE  \E n \in executed_cmd_seq[s] .. MaxSequence :
           /\ Turn(s, heap) = (executed_cmd_seq[s] + 1) .. n
           /\ Cardinality(Turn(s, heap)) = n - executed_cmd_seq[s]
           /\ n + 1 \in Slots => ~Waits(heap, n + 1)
  <1> DEFINE e == executed_cmd_seq[s]
             turn == Turn(s, heap)
             T == {k \in Nat : k > e /\ k \notin turn}
  <1>0. MaxSequence \in Nat /\ e \in 0 .. MaxSequence
    BY BoundsAssumption
  <1>1. turn = {q \in Slots : q > e /\ \A p \in (e + 1) .. q : Waits(heap, p)}
    BY DEF Turn
  <1>2. MaxSequence + 1 \in T
    BY <1>0, <1>1 DEF Slots
  <1> HIDE DEF turn
  <1>3. PICK x \in T : \A y \in T : x <= y
    BY <1>2, LeastNumber
  <1>4. x - 1 \in e .. MaxSequence
    BY <1>0, <1>2, <1>3
  <1>5. ASSUME NEW k \in (e + 1) .. (x - 1) PROVE k \in turn
    BY <1>0, <1>3, <1>4
  <1>6. ASSUME x \in Slots, Waits(heap, x) PROVE FALSE
    <2>1. \A p \in (e + 1) .. x : Waits(heap, p)
      <3> SUFFICES ASSUME NEW p \in (e + 1) .. x PROVE Waits(heap, p)
        OBVIOUS
      <3>1. CASE p = x
        BY <1>6, <3>1
      <3>2. CASE p # x
        <4>1. p \in turn
          BY <1>0, <1>4, <1>5, <3>2
        <4> QED BY <1>0, <1>1, <4>1
      <3> QED BY <3>1, <3>2
    <2> QED BY <2>1, <1>1, <1>3, <1>6
  <1>7. ASSUME NEW k \in turn PROVE k \in (e + 1) .. (x - 1)
    <2>1. k \in Slots /\ k > e /\ \A p \in (e + 1) .. k : Waits(heap, p)
      BY <1>1
    <2>2. ~(x <= k)
      <3> SUFFICES ASSUME x <= k PROVE FALSE
        OBVIOUS
      <3>1. x \in Slots /\ x \in (e + 1) .. k
        BY <1>0, <1>3, <2>1 DEF Slots
      <3> QED BY <1>6, <2>1, <3>1
    <2> QED BY <1>0, <1>3, <2>1, <2>2 DEF Slots
  <1>8. turn = (e + 1) .. (x - 1)
    BY <1>5, <1>7
  <1>9. Cardinality(turn) = (x - 1) - e
    <2>1. e + 1 \in Int /\ x - 1 \in Int
      BY <1>0, <1>4
    <2>2. Cardinality((e + 1) .. (x - 1)) =
            IF e + 1 > x - 1 THEN 0 ELSE (x - 1) - (e + 1) + 1
      BY <2>1, FS_Interval
    <2> QED BY <1>0, <1>4, <1>8, <2>2
  <1>10. (x - 1) + 1 = x
    BY <1>3
  <1> QED BY <1>4, <1>6, <1>8, <1>9, <1>10 DEF turn

(* An INFORM tells the command that was decided.                           *)
LEMMA InformTells ==
  ASSUME SlotInv, NEW q \in Slots, chosen[q] # {},
         NEW d \in Servers, NEW s \in Servers
  PROVE  /\ Inform(d, q, s) \in Informs
         /\ Inform(d, q, s).sequence = q
         /\ Inform(d, q, s).to = d
         /\ chosen[q] = {Inform(d, q, s).value}
  <1>1. PICK v \in Commands : chosen[q] = {v}
    BY DEF SlotInv
  <1>2. (CHOOSE w \in chosen[q] : TRUE) = v
    BY <1>1
  <1> QED BY <1>1, <1>2 DEF Inform, Informs

(* What the acceptors settle on was proposed.                              *)
LEMMA ChooseKeepsSlots ==
  ASSUME StateTypes, SlotInv, NEW q \in Slots, Choose(q)
  PROVE  StateTypes' /\ SlotInv'
  <1>1. PICK v \in proposed[q] : chosen' = [chosen EXCEPT ![q] = {v}]
    BY DEF Choose
  <1>2. chosen[q] = {} /\ UNCHANGED <<prepared, proposed, learned_majority, informed,
                                      serverVars, netVars>>
    BY DEF Choose
  <1>3. v \in Commands /\ chosen \in [Slots -> SUBSET Commands]
    BY <1>1 DEF StateTypes
  <1>4. /\ chosen'[q] = {v}
        /\ \A p \in Slots \ {q} : chosen'[p] = chosen[p]
        /\ proposed' = proposed /\ informs' = informs
    BY <1>1, <1>2, <1>3 DEF netVars
  <1>5. \A m \in informs : m.sequence \in Slots /\ m.sequence # q
    BY <1>2 DEF StateTypes, Informs, SlotInv
  <1>6. \A p \in Slots \ {1} : p - 1 \in Slots
    BY BoundsAssumption DEF Slots
  <1>7. ASSUME NEW p \in Slots
        PROVE  /\ chosen'[p] \subseteq proposed'[p]
               /\ chosen'[p] = {} \/ \E w \in Commands : chosen'[p] = {w}
               /\ p # 1 /\ proposed'[p] # {} => chosen'[p - 1] # {}
    <2>1. chosen'[p] \subseteq proposed'[p]
      BY <1>1, <1>4 DEF SlotInv
    <2>2. chosen'[p] = {} \/ \E w \in Commands : chosen'[p] = {w}
      BY <1>3, <1>4 DEF SlotInv
    <2>3. p # 1 /\ proposed'[p] # {} => chosen'[p - 1] # {}
      <3>1. p # 1 /\ proposed[p] # {} => chosen[p - 1] # {}
        BY DEF SlotInv
      <3>2. p # 1 => p - 1 \in Slots
        BY <1>6
      <3>3. p # 1 /\ chosen[p - 1] # {} => chosen'[p - 1] # {}
        BY <3>2, <1>4
      <3> QED BY <3>1, <3>3, <1>4
    <2> QED BY <2>1, <2>2, <2>3
  <1>8. \A m \in informs' : chosen'[m.sequence] = {m.value}
    BY <1>4, <1>5 DEF SlotInv
  <1>9. StateTypes'
    BY <1>1, <1>2, <1>3 DEF StateTypes, serverVars, netVars
  <1> QED BY <1>7, <1>8, <1>9 DEF SlotInv

(* An INFORM more, of what was decided.                                    *)
LEMMA LearnMajorityKeepsSlots ==
  ASSUME StateTypes, SlotInv, NEW s \in Servers, NEW q \in Slots,
         NEW reached \in SUBSET Servers, LearnMajority(s, q, reached)
  PROVE  StateTypes' /\ SlotInv'
  <1>1. /\ chosen[q] # {}
        /\ learned_majority' = [learned_majority EXCEPT ![s] = learned_majority[s] \cup {q}]
        /\ informs' = informs \cup {Inform(d, q, s) : d \in reached}
        /\ UNCHANGED <<prepared, proposed, chosen, informed, serverVars, submissions, responses>>
    BY DEF LearnMajority
  <1>2. \A d \in reached : /\ Inform(d, q, s) \in Informs
                           /\ Inform(d, q, s).sequence = q
                           /\ chosen[q] = {Inform(d, q, s).value}
    BY <1>1, InformTells
  <1>3. StateTypes'
    BY <1>1, <1>2 DEF StateTypes, serverVars
  <1>4. SlotInv'
    BY <1>1, <1>2 DEF SlotInv
  <1> QED BY <1>3, <1>4

LEMMA InformOutdatedKeepsSlots ==
  ASSUME StateTypes, SlotInv, NEW b \in Servers, NEW s \in Servers, NEW q \in Slots,
         InformOutdated(b, s, q), \A m \in informed[b] : m \in informs
  PROVE  StateTypes' /\ SlotInv'
  <1>1. /\ q \in InformedSlots(b)
        /\ informs' = informs \cup {Inform(s, q, s)}
        /\ UNCHANGED <<slotVars, serverVars, submissions, responses>>
    BY DEF InformOutdated, KnowsDecision
  <1>2. chosen[q] # {}
    <2>1. PICK m \in informed[b] : m.sequence = q
      BY <1>1 DEF InformedSlots
    <2>2. m \in informs
      BY <2>1
    <2> QED BY <2>1, <2>2 DEF SlotInv
  <1>3. /\ Inform(s, q, s) \in Informs
        /\ Inform(s, q, s).sequence = q
        /\ chosen[q] = {Inform(s, q, s).value}
    BY <1>2, InformTells
  <1>4. StateTypes'
    BY <1>1, <1>3 DEF StateTypes, slotVars, serverVars
  <1>5. SlotInv'
    BY <1>1, <1>3 DEF SlotInv, slotVars
  <1> QED BY <1>4, <1>5

LEMMA Initial == Init => ServerInv
  <1> SUFFICES ASSUME Init PROVE ServerInv
    OBVIOUS
  <1> USE DEF Init
  <1>1. StateTypes
    BY BoundsAssumption DEF StateTypes
  <1>2. SlotInv
    BY DEF SlotInv
  <1>3. InformedInv /\ ResponsesInv /\ PostponedInv /\ ResponsibleAnswers
    BY DEF InformedInv, ResponsesInv, PostponedInv, ResponsibleAnswers, InformedSlots
  <1> QED BY <1>1, <1>2, <1>3 DEF ServerInv

LEMMA ChoosePreserves ==
  ASSUME ServerInv, NEW q \in Slots, Choose(q)
  PROVE  ServerInv'
  <1>1. /\ StateTypes /\ SlotInv /\ InformedInv /\ ResponsesInv /\ PostponedInv
        /\ ResponsibleAnswers
    BY DEF ServerInv
  <1>2. StateTypes' /\ SlotInv'
    BY <1>1, ChooseKeepsSlots
  <1>3. InformedInv' /\ ResponsesInv' /\ PostponedInv' /\ ResponsibleAnswers'
    BY <1>1 DEF Choose, InformedInv, ResponsesInv, PostponedInv, ResponsibleAnswers,
                InformedSlots, Repeats, serverVars, netVars
  <1> QED BY <1>2, <1>3 DEF ServerInv

LEMMA LearnMajorityPreserves ==
  ASSUME ServerInv, NEW s \in Servers, NEW q \in Slots, NEW reached \in SUBSET Servers,
         LearnMajority(s, q, reached)
  PROVE  ServerInv'
  <1>1. /\ StateTypes /\ SlotInv /\ InformedInv /\ ResponsesInv /\ PostponedInv
        /\ ResponsibleAnswers
    BY DEF ServerInv
  <1>2. StateTypes' /\ SlotInv'
    BY <1>1, LearnMajorityKeepsSlots
  <1>3. informs \subseteq informs' /\ UNCHANGED <<informed, serverVars, responses>>
    BY DEF LearnMajority
  <1>4. InformedInv' /\ ResponsesInv' /\ PostponedInv' /\ ResponsibleAnswers'
    BY <1>1, <1>3 DEF InformedInv, ResponsesInv, PostponedInv, ResponsibleAnswers,
                      InformedSlots, Repeats, serverVars
  <1> QED BY <1>2, <1>4 DEF ServerInv

LEMMA InformOutdatedPreserves ==
  ASSUME ServerInv, NEW b \in Servers, NEW s \in Servers, NEW q \in Slots,
         InformOutdated(b, s, q)
  PROVE  ServerInv'
  <1>1. /\ StateTypes /\ SlotInv /\ InformedInv /\ ResponsesInv /\ PostponedInv
        /\ ResponsibleAnswers
    BY DEF ServerInv
  <1>2. StateTypes' /\ SlotInv'
    BY <1>1, InformOutdatedKeepsSlots DEF InformedInv
  <1>3. informs \subseteq informs' /\ UNCHANGED <<informed, serverVars, responses>>
    BY DEF InformOutdated, slotVars
  <1>4. InformedInv' /\ ResponsesInv' /\ PostponedInv' /\ ResponsibleAnswers'
    BY <1>1, <1>3 DEF InformedInv, ResponsesInv, PostponedInv, ResponsibleAnswers,
                      InformedSlots, Repeats, serverVars
  <1> QED BY <1>2, <1>4 DEF ServerInv

(* The loop that looks for a slot: whatever slot it uses, the one before   *)
(* is decided.                                                             *)
LEMMA PlaceKeepsSlots ==
  ASSUME StateTypes, SlotInv, NEW s \in Servers, NEW v \in Commands,
         NEW expected \in [Slots -> Commands \cup {NoCommand}],
         \A m \in informed[s] : m \in informs,
         \A q \in 1 .. executed_cmd_seq[s] : q \in InformedSlots(s),
         Place(s, v, expected),
         postponed' \in [Servers -> SUBSET [sequence : Slots, value : Commands]],
         submissions' \in 0 .. MaxSubmissions
  PROVE  /\ StateTypes' /\ SlotInv'
         /\ \A d \in Servers \ {s} : seq_to_expected_values'[d] = seq_to_expected_values[d]
         /\ \A q \in Slots \ {SubmitSequence(s)} :
              seq_to_expected_values'[s][q] = expected[q]
  <1> DEFINE q == SubmitSequence(s)
  <1>1. /\ q \in Slots
        /\ UNCHANGED <<chosen, learned_majority, informed, executed_cmd_seq, cmd_min_set,
                       client_ops_to_response, applied, informs, responses>>
    BY DEF Place
  <1>2. q = executed_cmd_seq[s] + 1 /\ executed_cmd_seq[s] \in 0 .. MaxSequence
    BY DEF SubmitSequence, StateTypes
  <1>3. q # 1 => chosen[q - 1] # {}
    <2> SUFFICES ASSUME q # 1 PROVE chosen[q - 1] # {}
      OBVIOUS
    <2>1. q - 1 = executed_cmd_seq[s] /\ q - 1 \in 1 .. executed_cmd_seq[s] /\ q - 1 \in Slots
      BY <1>2, BoundsAssumption DEF Slots
    <2>2. PICK m \in informed[s] : m.sequence = q - 1
      BY <2>1 DEF InformedSlots
    <2> QED BY <2>1, <2>2 DEF SlotInv
  <1>4. /\ prepared' \in [Servers -> SUBSET Slots]
        /\ running' \in [Servers -> BOOLEAN]
        /\ proposed' \in [Slots -> SUBSET Commands]
        /\ \A p \in Slots : /\ proposed[p] \subseteq proposed'[p]
                            /\ p # q => proposed'[p] = proposed[p]
        /\ seq_to_expected_values' \in [Servers -> [Slots -> Commands \cup {NoCommand}]]
        /\ \A d \in Servers \ {s} : seq_to_expected_values'[d] = seq_to_expected_values[d]
        /\ \A p \in Slots \ {q} : seq_to_expected_values'[s][p] = expected[p]
    <2> HIDE DEF q
    <2>1. /\ prepared \in [Servers -> SUBSET Slots]
          /\ running \in [Servers -> BOOLEAN]
          /\ proposed \in [Slots -> SUBSET Commands]
          /\ seq_to_expected_values \in [Servers -> [Slots -> Commands \cup {NoCommand}]]
      BY DEF StateTypes
    <2>2. CASE /\ running' = [running EXCEPT ![s] = FALSE]
               /\ seq_to_expected_values' = [seq_to_expected_values EXCEPT ![s] = expected]
               /\ UNCHANGED <<prepared, proposed>>
      BY <1>1, <2>1, <2>2
    <2>3. CASE /\ prepared' = [prepared EXCEPT ![s] = prepared[s] \cup {q}]
               /\ proposed' = [proposed EXCEPT ![q] = proposed[q] \cup {v}]
               /\ seq_to_expected_values' = [seq_to_expected_values EXCEPT ![s] =
                    [expected EXCEPT ![q] = IF expected[q] = NoCommand THEN v ELSE expected[q]]]
               /\ UNCHANGED running
      <3>1. [expected EXCEPT ![q] = IF expected[q] = NoCommand THEN v ELSE expected[q]]
              \in [Slots -> Commands \cup {NoCommand}]
        BY <1>1
      <3>2. \A p \in Slots \ {q} :
              [expected EXCEPT ![q] = IF expected[q] = NoCommand THEN v ELSE expected[q]][p]
                = expected[p]
        OBVIOUS
      <3>3. /\ seq_to_expected_values' \in [Servers -> [Slots -> Commands \cup {NoCommand}]]
            /\ \A d \in Servers \ {s} : seq_to_expected_values'[d] = seq_to_expected_values[d]
            /\ \A p \in Slots \ {q} : seq_to_expected_values'[s][p] = expected[p]
        BY <2>1, <2>3, <3>1, <3>2
      <3>4. /\ proposed' \in [Slots -> SUBSET Commands]
            /\ \A p \in Slots : /\ proposed[p] \subseteq proposed'[p]
                                /\ p # q => proposed'[p] = proposed[p]
        BY <1>1, <2>1, <2>3
      <3>5. prepared' \in [Servers -> SUBSET Slots] /\ running' \in [Servers -> BOOLEAN]
        BY <1>1, <2>1, <2>3
      <3> QED BY <3>3, <3>4, <3>5
    <2> QED BY <2>2, <2>3 DEF Place, q
  <1> HIDE DEF q
  <1>5. ASSUME NEW p \in Slots
        PROVE  /\ chosen'[p] \subseteq proposed'[p]
               /\ chosen'[p] = {} \/ \E w \in Commands : chosen'[p] = {w}
               /\ p # 1 /\ proposed'[p] # {} => chosen'[p - 1] # {}
    <2>1. CASE p = q
      BY <1>1, <1>3, <1>4, <2>1 DEF SlotInv
    <2>2. CASE p # q
      BY <1>1, <1>4, <2>2 DEF SlotInv
    <2> QED BY <2>1, <2>2
  <1>6. \A m \in informs' : chosen'[m.sequence] = {m.value}
    BY <1>1 DEF SlotInv
  <1>7. StateTypes'
    BY <1>1, <1>4 DEF StateTypes
  <1> QED BY <1>4, <1>5, <1>6, <1>7 DEF SlotInv, q

(* And it writes no entry that a timer stands for.                         *)
LEMMA PlacePreserves ==
  ASSUME ServerInv, NEW s \in Servers, NEW v \in Commands,
         NEW expected \in [Slots -> Commands \cup {NoCommand}],
         \A q \in Slots : expected[q] \in {NoCommand, seq_to_expected_values[s][q]},
         Place(s, v, expected),
         postponed' \in [Servers -> SUBSET [sequence : Slots, value : Commands]],
         \A d \in Servers : postponed'[d] \subseteq postponed[d],
         submissions' \in 0 .. MaxSubmissions
  PROVE  ServerInv'
  <1> DEFINE q == SubmitSequence(s)
  <1>0. /\ StateTypes /\ SlotInv /\ InformedInv /\ ResponsesInv /\ PostponedInv
        /\ ResponsibleAnswers
    BY DEF ServerInv
  <1>1. /\ q \in Slots
        /\ UNCHANGED <<chosen, learned_majority, informed, executed_cmd_seq, cmd_min_set,
                       client_ops_to_response, applied, informs, responses>>
    BY DEF Place
  <1>2. executed_cmd_seq \in [Servers -> 0 .. MaxSequence] /\ q = executed_cmd_seq[s] + 1
    BY <1>0 DEF StateTypes, SubmitSequence
  <1>3. /\ StateTypes' /\ SlotInv'
        /\ \A d \in Servers \ {s} : seq_to_expected_values'[d] = seq_to_expected_values[d]
        /\ \A p \in Slots \ {q} : seq_to_expected_values'[s][p] = expected[p]
    BY <1>0, PlaceKeepsSlots DEF InformedInv
  <1> HIDE DEF q
  <1>4. InformedInv' /\ ResponsesInv' /\ ResponsibleAnswers'
    BY <1>0, <1>1 DEF InformedInv, ResponsesInv, ResponsibleAnswers, InformedSlots, Repeats
  <1>5. PostponedInv'
    <2> SUFFICES ASSUME NEW d \in Servers, NEW r \in postponed'[d]
                 PROVE  /\ r.sequence <= executed_cmd_seq'[d]
                        /\ seq_to_expected_values'[d][r.sequence] = NoCommand
      BY DEF PostponedInv
    <2>1. /\ r.sequence \in Slots
          /\ r.sequence <= executed_cmd_seq[d]
          /\ seq_to_expected_values[d][r.sequence] = NoCommand
      BY <1>0 DEF PostponedInv
    <2>2. d = s => r.sequence # q
      BY <1>2, <2>1 DEF Slots
    <2>3. CASE d = s
      BY <1>1, <1>3, <2>1, <2>2, <2>3
    <2>4. CASE d # s
      BY <1>1, <1>3, <2>1, <2>4
    <2> QED BY <2>3, <2>4
  <1> QED BY <1>3, <1>4, <1>5 DEF ServerInv

LEMMA SubmitPreserves ==
  ASSUME ServerInv, NEW s \in Servers, NEW v \in Commands, Submit(s, v)
  PROVE  ServerInv'
  <1>1. StateTypes
    BY DEF ServerInv
  <1>2. seq_to_expected_values[s] \in [Slots -> Commands \cup {NoCommand}]
    BY <1>1 DEF StateTypes
  <1>3. postponed' = postponed /\ Place(s, v, seq_to_expected_values[s])
    BY DEF Submit
  <1>4. submissions' \in 0 .. MaxSubmissions
    BY <1>1, BoundsAssumption DEF Submit, StateTypes
  <1>5. postponed \in [Servers -> SUBSET [sequence : Slots, value : Commands]]
    BY <1>1 DEF StateTypes
  <1> QED BY <1>2, <1>3, <1>4, <1>5, PlacePreserves

LEMMA ResubmitPreserves ==
  ASSUME ServerInv, NEW s \in Servers, NEW r \in postponed[s], Resubmit(s, r)
  PROVE  ServerInv'
  <1> DEFINE expected == [seq_to_expected_values[s] EXCEPT ![r.sequence] = NoCommand]
  <1>1. StateTypes
    BY DEF ServerInv
  <1>2. /\ seq_to_expected_values[s] \in [Slots -> Commands \cup {NoCommand}]
        /\ postponed \in [Servers -> SUBSET [sequence : Slots, value : Commands]]
        /\ submissions \in 0 .. MaxSubmissions
    BY <1>1 DEF StateTypes
  <1>3. r.sequence \in Slots /\ r.value \in Commands
    BY <1>2
  <1>4. /\ expected \in [Slots -> Commands \cup {NoCommand}]
        /\ \A q \in Slots : expected[q] \in {NoCommand, seq_to_expected_values[s][q]}
    BY <1>2, <1>3
  <1>5. /\ postponed' \in [Servers -> SUBSET [sequence : Slots, value : Commands]]
        /\ \A d \in Servers : postponed'[d] \subseteq postponed[d]
    BY <1>2 DEF Resubmit
  <1>6. submissions' = submissions /\ Place(s, r.value, expected)
    BY DEF Resubmit
  <1> HIDE DEF expected
  <1> QED BY <1>2, <1>3, <1>4, <1>5, <1>6, PlacePreserves

(* A command that is not applied is answered with what the cache holds: it *)
(* was there before, or one of this turn has put it there.                 *)
LEMMA AnswerIsCached ==
  ASSUME NEW s, NEW heap, NEW turn \in SUBSET Nat, NEW q \in turn
  PROVE  \/ Applies(s, heap, turn, q)
         \/ \E r \in client_ops_to_response[s] : r.value = CommandAt(heap, q).value
         \/ \E p \in turn : /\ Applies(s, heap, turn, p)
                            /\ CommandAt(heap, p).value = CommandAt(heap, q).value
  <1> DEFINE v == CommandAt(heap, q).value
             T == {p \in turn : CommandAt(heap, p).value = v}
  <1>1. T \subseteq Nat /\ q \in T
    OBVIOUS
  <1>2. PICK p \in T : \A p2 \in T : p <= p2
    BY <1>1, LeastNumber
  <1>3. ASSUME ~Applies(s, heap, turn, p)
        PROVE  \E r \in client_ops_to_response[s] : r.value = v
    <2>1. \/ \E r \in client_ops_to_response[s] : r.value = v
          \/ \E p2 \in turn : p2 < p /\ CommandAt(heap, p2).value = v
      BY <1>2, <1>3 DEF Applies
    <2>2. ~ \E p2 \in turn : p2 < p /\ CommandAt(heap, p2).value = v
      BY <1>1, <1>2
    <2> QED BY <2>1, <2>2
  <1> QED BY <1>2, <1>3

(* The entries of what was answered go away, into timers if a command was  *)
(* displaced.                                                              *)
LEMMA OnInformKeepsTypes ==
  ASSUME StateTypes, NEW m \in informs, OnInform(m)
  PROVE  StateTypes'
  <1> DEFINE s        == m.to
             e        == executed_cmd_seq[s]
             heap     == cmd_min_set[s] \cup {m}
             turn     == Turn(s, heap)
             fresh    == {q \in turn : Applies(s, heap, turn, q)}
             first    == {CommandAt(heap, q) : q \in fresh}
             cache    == client_ops_to_response[s] \cup first
             answer(q) == IF q \in fresh THEN CommandAt(heap, q)
                          ELSE CHOOSE r \in cache : r.value = CommandAt(heap, q).value
             mine     == Own(s, {answer(q) : q \in turn})
             filed    == IF AtMostOnce THEN cache ELSE client_ops_to_response[s]
             rest     == {c \in heap : c.sequence \notin turn}
             entries  == [q \in Slots |-> IF \E r \in mine : r.sequence = q THEN NoCommand
                                          ELSE seq_to_expected_values[s][q]]
             timers   == UNION {Displaced(s, r) : r \in mine}
             sent     == {[from |-> s, sequence |-> r.sequence, value |-> r.value] : r \in mine}
  <1>1. /\ informed' = [informed EXCEPT ![s] = informed[s] \cup {m}]
        /\ executed_cmd_seq' = [executed_cmd_seq EXCEPT ![s] =
                                  executed_cmd_seq[s] + Cardinality(turn)]
        /\ cmd_min_set' = [cmd_min_set EXCEPT ![s] = rest]
        /\ client_ops_to_response' = [client_ops_to_response EXCEPT ![s] = filed]
        /\ seq_to_expected_values' = [seq_to_expected_values EXCEPT ![s] = entries]
        /\ postponed' = [postponed EXCEPT ![s] = postponed[s] \cup timers]
        /\ responses' = responses \cup sent
        /\ UNCHANGED <<prepared, proposed, chosen, learned_majority, running,
                       submissions, informs>>
    BY DEF OnInform
  <1>2. /\ s \in Servers /\ m \in Informs
        /\ informed \in [Servers -> SUBSET Informs]
        /\ executed_cmd_seq \in [Servers -> 0 .. MaxSequence]
        /\ cmd_min_set \in [Servers -> SUBSET Informs]
        /\ seq_to_expected_values \in [Servers -> [Slots -> Commands \cup {NoCommand}]]
        /\ client_ops_to_response \in [Servers -> SUBSET Informs]
        /\ postponed \in [Servers -> SUBSET [sequence : Slots, value : Commands]]
        /\ responses \subseteq [from : Servers, sequence : Slots, value : Commands]
    BY DEF StateTypes, Informs
  <1>3. e \in 0 .. MaxSequence /\ MaxSequence \in Nat /\ heap \subseteq Informs
    BY <1>2, BoundsAssumption
  <1>4. turn \subseteq Nat /\ e + Cardinality(turn) \in 0 .. MaxSequence
    <2>1. PICK n \in e .. MaxSequence : turn = (e + 1) .. n /\ Cardinality(turn) = n - e
      BY <1>2, TurnIsInterval
    <2> QED BY <1>3, <2>1
  <1>5. \A q \in turn : CommandAt(heap, q) \in heap
    <2> SUFFICES ASSUME NEW q \in turn PROVE \E c \in heap : c.sequence = q
      BY DEF CommandAt
    <2>1. /\ q \in Slots /\ q > executed_cmd_seq[s]
          /\ \A p \in (executed_cmd_seq[s] + 1) .. q : Waits(heap, p)
      BY DEF Turn
    <2>2. q \in (executed_cmd_seq[s] + 1) .. q
      BY <1>3, <2>1 DEF Slots
    <2> QED BY <2>1, <2>2 DEF Waits
  <1>6. ASSUME NEW q \in turn PROVE answer(q) \in cache
    <2> HIDE DEF turn, heap, s
    <2>1. CASE q \in fresh
      BY <2>1
    <2>2. CASE q \notin fresh
      <3>1. \E r \in cache : r.value = CommandAt(heap, q).value
        BY <1>4, <2>2, AnswerIsCached
      <3>2. answer(q) = CHOOSE r \in cache : r.value = CommandAt(heap, q).value
        BY <2>2
      <3> HIDE DEF cache, answer
      <3> QED BY <3>1, <3>2
    <2> QED BY <2>1, <2>2
  <1>7. cache \subseteq Informs
    <2>1. first \subseteq heap
      BY <1>5
    <2> HIDE DEF first
    <2> QED BY <1>2, <1>3, <2>1
  <1>8. mine \subseteq Informs
    <2> HIDE DEF answer, cache, turn
    <2> QED BY <1>6, <1>7 DEF Own
  <1>9. rest \subseteq Informs /\ filed \subseteq Informs
    BY <1>2, <1>3, <1>7
  <1> HIDE DEF turn, fresh, first, cache, answer, mine, filed, rest
  <1>10. entries \in [Slots -> Commands \cup {NoCommand}]
    BY <1>2
  <1>11. timers \subseteq [sequence : Slots, value : Commands]
    <2> SUFFICES ASSUME NEW r \in mine, NEW d \in Displaced(s, r)
                 PROVE  d \in [sequence : Slots, value : Commands]
      OBVIOUS
    <2>1. r.sequence \in Slots
      BY <1>8 DEF Informs
    <2>2. \E v \in {seq_to_expected_values[s][r.sequence]} \ {NoCommand, r.value} :
            d = [sequence |-> r.sequence, value |-> v]
      BY DEF Displaced
    <2>3. seq_to_expected_values[s][r.sequence] \in Commands \cup {NoCommand}
      BY <1>2, <2>1
    <2>4. PICK v \in Commands : d = [sequence |-> r.sequence, value |-> v]
      BY <2>2, <2>3
    <2> QED BY <2>1, <2>4
  <1>12. sent \subseteq [from : Servers, sequence : Slots, value : Commands]
    BY <1>2, <1>8 DEF Informs
  <1> HIDE DEF entries, timers, sent
  <1>13. /\ informed' \in [Servers -> SUBSET Informs]
         /\ executed_cmd_seq' \in [Servers -> 0 .. MaxSequence]
    BY <1>1, <1>2, <1>4
  <1>14. /\ cmd_min_set' \in [Servers -> SUBSET Informs]
         /\ client_ops_to_response' \in [Servers -> SUBSET Informs]
    BY <1>1, <1>2, <1>9
  <1>15. /\ seq_to_expected_values' \in [Servers -> [Slots -> Commands \cup {NoCommand}]]
         /\ postponed' \in [Servers -> SUBSET [sequence : Slots, value : Commands]]
         /\ responses' \subseteq [from : Servers, sequence : Slots, value : Commands]
    BY <1>1, <1>2, <1>10, <1>11, <1>12
  <1> QED BY <1>1, <1>13, <1>14, <1>15 DEF StateTypes

(* What one INFORM executes: an interval of slots, each with the command   *)
(* that was decided for it, and each answered from the cache.              *)
LEMMA ExecutionOfTurn ==
  ASSUME ServerInv, NEW m \in informs, m.sequence \notin InformedSlots(m.to)
  PROVE  LET s        == m.to
             e        == executed_cmd_seq[s]
             heap     == cmd_min_set[s] \cup {m}
             turn     == Turn(s, heap)
             fresh    == {q \in turn : Applies(s, heap, turn, q)}
             first    == {CommandAt(heap, q) : q \in fresh}
             cache    == client_ops_to_response[s] \cup first
             answer(q) == IF q \in fresh THEN CommandAt(heap, q)
                          ELSE CHOOSE r \in cache : r.value = CommandAt(heap, q).value
             known    == informed[s] \cup {m}
         IN  \E n \in e .. MaxSequence :
               /\ turn = (e + 1) .. n
               /\ Cardinality(turn) = n - e
               /\ \A q \in 1 .. n : \E c \in known : c.sequence = q
               /\ \A c \in known : c.sequence # n + 1
               /\ heap = {c \in known : c.sequence > e}
               /\ \A c1, c2 \in known : c1.sequence = c2.sequence => c1 = c2
               /\ \A c \in heap : CommandAt(heap, c.sequence) = c
               /\ \A q \in turn : CommandAt(heap, q) \in heap /\ CommandAt(heap, q).sequence = q
               /\ \A r \in cache : r \in known /\ r.sequence <= n
               /\ \A q \in turn : answer(q) \in cache
  <1> DEFINE s        == m.to
             e        == executed_cmd_seq[s]
             heap     == cmd_min_set[s] \cup {m}
             turn     == Turn(s, heap)
             fresh    == {q \in turn : Applies(s, heap, turn, q)}
             first    == {CommandAt(heap, q) : q \in fresh}
             cache    == client_ops_to_response[s] \cup first
             answer(q) == IF q \in fresh THEN CommandAt(heap, q)
                          ELSE CHOOSE r \in cache : r.value = CommandAt(heap, q).value
             known    == informed[s] \cup {m}
  <1>0. StateTypes /\ InformedInv /\ ResponsesInv
    BY DEF ServerInv
  <1>1. /\ m.sequence \in Slots /\ s \in Servers
        /\ e \in 0 .. MaxSequence
        /\ informed[s] \subseteq Informs
        /\ \A c \in known : c.sequence \in Slots
    BY <1>0 DEF StateTypes, Informs
  <1>2. \A c \in informed[s] : c.sequence # m.sequence
    BY DEF InformedSlots
  <1>3. m.sequence > e
    <2> SUFFICES ASSUME m.sequence <= e PROVE FALSE
      BY <1>1 DEF Slots
    <2>1. m.sequence \in 1 .. e
      BY <1>1 DEF Slots
    <2> QED BY <1>0, <1>1, <2>1 DEF InformedInv
  <1>4. heap = {c \in known : c.sequence > e}
    BY <1>0, <1>1, <1>3 DEF InformedInv
  <1>5. \A c1, c2 \in known : c1.sequence = c2.sequence => c1 = c2
    BY <1>0, <1>1, <1>2 DEF InformedInv
  <1>6. PICK n \in e .. MaxSequence :
          /\ turn = (e + 1) .. n
          /\ Cardinality(turn) = n - e
          /\ n + 1 \in Slots => ~Waits(heap, n + 1)
    BY <1>1, TurnIsInterval
  <1>7. \A q \in turn : \E c \in heap : c.sequence = q
    <2> SUFFICES ASSUME NEW q \in turn PROVE \E c \in heap : c.sequence = q
      OBVIOUS
    <2>1. q \in (e + 1) .. q
      BY <1>1, <1>6
    <2>2. \A p \in (e + 1) .. q : Waits(heap, p)
      BY DEF Turn
    <2> QED BY <2>1, <2>2 DEF Waits
  <1> HIDE DEF heap, turn, e, s, known
  <1>8. \A c \in heap : CommandAt(heap, c.sequence) = c
    BY <1>4, <1>5 DEF CommandAt
  <1>9. \A q \in turn : CommandAt(heap, q) \in heap /\ CommandAt(heap, q).sequence = q
    BY <1>7 DEF CommandAt
  <1>10. \A q \in 1 .. n : \E c \in known : c.sequence = q
    <2> SUFFICES ASSUME NEW q \in 1 .. n PROVE \E c \in known : c.sequence = q
      OBVIOUS
    <2>1. CASE q <= e
      <3>1. q \in 1 .. e
        BY <1>1, <2>1
      <3> QED BY <1>0, <1>1, <3>1 DEF InformedInv, InformedSlots, e, known
    <2>2. CASE q > e
      <3>1. q \in turn
        BY <1>1, <1>6, <2>2
      <3> QED BY <1>4, <1>7, <3>1
    <2> QED BY <1>1, <2>1, <2>2
  <1>11. \A c \in known : c.sequence # n + 1
    <2> SUFFICES ASSUME NEW c \in known, c.sequence = n + 1 PROVE FALSE
      OBVIOUS
    <2>1. c.sequence \in Slots /\ c.sequence > e
      BY <1>1, <1>6
    <2>2. c \in heap
      BY <1>4, <2>1
    <2> QED BY <1>6, <2>1, <2>2 DEF Waits
  <1>12. first \subseteq known /\ \A r \in first : r.sequence <= n
    <2>1. \A r \in first : \E q \in turn : r = CommandAt(heap, q)
      OBVIOUS
    <2> HIDE DEF first
    <2> SUFFICES ASSUME NEW r \in first PROVE r \in known /\ r.sequence <= n
      OBVIOUS
    <2>2. PICK q \in turn : r = CommandAt(heap, q)
      BY <2>1
    <2>3. r \in heap /\ r.sequence = q
      BY <1>9, <2>2
    <2>4. q <= n
      BY <1>1, <1>6
    <2> QED BY <1>4, <2>3, <2>4
  <1>13. client_ops_to_response[s] \subseteq known
         /\ \A r \in client_ops_to_response[s] : r.sequence <= n
    <2>1. client_ops_to_response[s] \subseteq {c \in informed[s] : c.sequence <= e}
      BY <1>0, <1>1 DEF ResponsesInv, e
    <2>2. \A r \in informed[s] : r \in known /\ r.sequence \in Nat
      BY <1>1 DEF known, Slots
    <2> QED BY <1>1, <1>6, <2>1, <2>2
  <1>14. \A r \in cache : r \in known /\ r.sequence <= n
    BY <1>12, <1>13
  <1>15. ASSUME NEW q \in turn PROVE answer(q) \in cache
    <2>1. CASE q \in fresh
      BY <2>1
    <2>2. CASE q \notin fresh
      <3>1. turn \subseteq Nat
        BY <1>1, <1>6
      <3>2. \E r \in cache : r.value = CommandAt(heap, q).value
        BY <2>2, <3>1, AnswerIsCached
      <3>3. answer(q) = CHOOSE r \in cache : r.value = CommandAt(heap, q).value
        BY <2>2
      <3> HIDE DEF cache, answer
      <3> QED BY <3>2, <3>3
    <2> QED BY <2>1, <2>2
  <1> HIDE DEF fresh, first, cache, answer
  <1>16. /\ n \in e .. MaxSequence
         /\ turn = (e + 1) .. n
         /\ Cardinality(turn) = n - e
         /\ \A q \in 1 .. n : \E c \in known : c.sequence = q
         /\ \A c \in known : c.sequence # n + 1
         /\ heap = {c \in known : c.sequence > e}
         /\ \A c1, c2 \in known : c1.sequence = c2.sequence => c1 = c2
         /\ \A c \in heap : CommandAt(heap, c.sequence) = c
         /\ \A q \in turn : CommandAt(heap, q) \in heap /\ CommandAt(heap, q).sequence = q
         /\ \A r \in cache : r \in known /\ r.sequence <= n
         /\ \A q \in turn : answer(q) \in cache
    BY <1>4, <1>5, <1>6, <1>8, <1>9, <1>10, <1>11, <1>14, <1>15
  <1> QED BY <1>16 DEF s, e, heap, turn, fresh, first, cache, answer, known

LEMMA OnInformPreserves ==
  ASSUME ServerInv, NEW m \in informs, OnInform(m)
  PROVE  ServerInv'
  <1> DEFINE s        == m.to
             e        == executed_cmd_seq[s]
             heap     == cmd_min_set[s] \cup {m}
             turn     == Turn(s, heap)
             fresh    == {q \in turn : Applies(s, heap, turn, q)}
             first    == {CommandAt(heap, q) : q \in fresh}
             cache    == client_ops_to_response[s] \cup first
             answer(q) == IF q \in fresh THEN CommandAt(heap, q)
                          ELSE CHOOSE r \in cache : r.value = CommandAt(heap, q).value
             known    == informed[s] \cup {m}
             mine     == Own(s, {answer(q) : q \in turn})
             filed    == IF AtMostOnce THEN cache ELSE client_ops_to_response[s]
             rest     == {c \in heap : c.sequence \notin turn}
             entries  == [q \in Slots |-> IF \E r \in mine : r.sequence = q THEN NoCommand
                                          ELSE seq_to_expected_values[s][q]]
             timers   == UNION {Displaced(s, r) : r \in mine}
             sent     == {[from |-> s, sequence |-> r.sequence, value |-> r.value] : r \in mine}
  <1>0. /\ StateTypes /\ SlotInv /\ InformedInv /\ ResponsesInv /\ PostponedInv
        /\ ResponsibleAnswers
    BY DEF ServerInv
  <1>1. /\ m.sequence \notin InformedSlots(s)
        /\ informed' = [informed EXCEPT ![s] = informed[s] \cup {m}]
        /\ executed_cmd_seq' = [executed_cmd_seq EXCEPT ![s] =
                                  executed_cmd_seq[s] + Cardinality(turn)]
        /\ cmd_min_set' = [cmd_min_set EXCEPT ![s] = rest]
        /\ client_ops_to_response' = [client_ops_to_response EXCEPT ![s] = filed]
        /\ seq_to_expected_values' = [seq_to_expected_values EXCEPT ![s] = entries]
        /\ postponed' = [postponed EXCEPT ![s] = postponed[s] \cup timers]
        /\ responses' = responses \cup sent
        /\ UNCHANGED <<prepared, proposed, chosen, learned_majority, running,
                       submissions, informs>>
    BY DEF OnInform
  <1>2. PICK n \in e .. MaxSequence :
               /\ turn = (e + 1) .. n
               /\ Cardinality(turn) = n - e
               /\ \A q \in 1 .. n : \E c \in known : c.sequence = q
               /\ \A c \in known : c.sequence # n + 1
               /\ heap = {c \in known : c.sequence > e}
               /\ \A c1, c2 \in known : c1.sequence = c2.sequence => c1 = c2
               /\ \A c \in heap : CommandAt(heap, c.sequence) = c
               /\ \A q \in turn : CommandAt(heap, q) \in heap /\ CommandAt(heap, q).sequence = q
               /\ \A r \in cache : r \in known /\ r.sequence <= n
               /\ \A q \in turn : answer(q) \in cache
    BY <1>1, ExecutionOfTurn
  <1>3. /\ s \in Servers /\ m \in Informs
        /\ informed \in [Servers -> SUBSET Informs]
        /\ executed_cmd_seq \in [Servers -> 0 .. MaxSequence]
        /\ cmd_min_set \in [Servers -> SUBSET Informs]
        /\ seq_to_expected_values \in [Servers -> [Slots -> Commands \cup {NoCommand}]]
        /\ client_ops_to_response \in [Servers -> SUBSET Informs]
        /\ postponed \in [Servers -> SUBSET [sequence : Slots, value : Commands]]
        /\ responses \subseteq [from : Servers, sequence : Slots, value : Commands]
    BY <1>0 DEF StateTypes, Informs
  <1>4. e \in 0 .. MaxSequence /\ MaxSequence \in Nat /\ known \subseteq Informs
    BY <1>3, BoundsAssumption
  <1> HIDE DEF answer
  <1>11. /\ \A c \in known : c.sequence \in Slots /\ c.sequence \in Nat
         /\ \A c \in client_ops_to_response[s] : c.sequence \in Nat
         /\ \A c \in heap : c \in known /\ c.sequence > e
    <2>1. \A c \in Informs : c.sequence \in Slots /\ c.sequence \in Nat
      BY DEF Informs, Slots
    <2>2. client_ops_to_response[s] \subseteq Informs
      BY <1>3
    <2> HIDE DEF heap, known, turn, cache, e, s
    <2> QED BY <1>2, <1>4, <2>1, <2>2
  <1>5. \A r \in mine : r \in cache /\ r \in known /\ r \in Informs /\ r.sequence <= n
    <2>1. mine \subseteq {answer(q) : q \in turn}
      BY DEF Own
    <2> HIDE DEF answer, turn, cache, known, mine
    <2>2. \A r \in mine : r \in cache
      BY <1>2, <2>1
    <2> QED BY <1>2, <1>4, <2>2
  <1>6. /\ rest = {c \in known : c.sequence > n}
        /\ filed \subseteq {c \in known : c.sequence <= n}
    <2>1. \A c \in known : c.sequence \in Nat
      BY <1>4 DEF Informs, Slots
    <2>2. rest = {c \in known : c.sequence > n}
      <3> HIDE DEF turn, heap, known, e
      <3> QED BY <1>2, <1>4, <2>1
    <2>3. filed \subseteq cache
      OBVIOUS
    <2> HIDE DEF filed, cache, known
    <2> QED BY <1>2, <2>2, <2>3
  <1>7. \A c \in heap : c.sequence \in turn \ fresh => AtMostOnce /\
           \E k \in known : k.sequence < c.sequence /\ k.value = c.value
    <2> SUFFICES ASSUME NEW c \in heap, c.sequence \in turn, c.sequence \notin fresh
                 PROVE  /\ AtMostOnce
                        /\ \E k \in known : k.sequence < c.sequence /\ k.value = c.value
      OBVIOUS
    <2>1. CommandAt(heap, c.sequence) = c
      BY <1>2
    <2>3. ~Applies(s, heap, turn, c.sequence)
      OBVIOUS
    <2> HIDE DEF turn, heap, known, fresh, cache, e
    <2>4. /\ AtMostOnce
          /\ \/ \E r \in client_ops_to_response[s] : r.value = c.value
             \/ \E p \in turn : p < c.sequence /\ CommandAt(heap, p).value = c.value
      BY <2>1, <2>3 DEF Applies
    <2>5. CASE \E r \in client_ops_to_response[s] : r.value = c.value
      <3>1. PICK r \in client_ops_to_response[s] : r.value = c.value
        BY <2>5
      <3>2. r \in informed[s] /\ r.sequence <= e
        BY <1>0, <1>3, <3>1 DEF ResponsesInv, e
      <3>3. r.sequence \in Nat /\ c.sequence \in Nat /\ c.sequence > e
        BY <1>11
      <3> QED BY <1>4, <2>4, <3>1, <3>2, <3>3 DEF known
    <2>6. CASE \E p \in turn : p < c.sequence /\ CommandAt(heap, p).value = c.value
      <3>1. PICK p \in turn : p < c.sequence /\ CommandAt(heap, p).value = c.value
        BY <2>6
      <3>2. CommandAt(heap, p) \in known /\ CommandAt(heap, p).sequence = p
        BY <1>2, <1>11, <3>1
      <3> QED BY <2>4, <3>1, <3>2
    <2> QED BY <2>4, <2>5, <2>6
  <1> HIDE DEF fresh, first, cache, known, mine, filed, rest, entries, timers, sent, heap, turn
  <1>8. e + Cardinality(turn) = n /\ n \in 0 .. MaxSequence
    BY <1>2, <1>4
  <1>9. known \subseteq {k \in informs : k.to = s}
    BY <1>0, <1>3 DEF InformedInv, known
  <1>10. /\ informed'[s] = known /\ executed_cmd_seq'[s] = n /\ cmd_min_set'[s] = rest
         /\ client_ops_to_response'[s] = filed
         /\ seq_to_expected_values'[s] = entries
         /\ postponed'[s] = postponed[s] \cup timers
         /\ \A d \in Servers \ {s} :
              /\ informed'[d] = informed[d]
              /\ executed_cmd_seq'[d] = executed_cmd_seq[d]
              /\ cmd_min_set'[d] = cmd_min_set[d]
              /\ client_ops_to_response'[d] = client_ops_to_response[d]
              /\ seq_to_expected_values'[d] = seq_to_expected_values[d]
              /\ postponed'[d] = postponed[d]
    <2>1. informed'[s] = known /\ \A d \in Servers \ {s} : informed'[d] = informed[d]
      BY <1>1, <1>3 DEF known
    <2>2. executed_cmd_seq'[s] = n
          /\ \A d \in Servers \ {s} : executed_cmd_seq'[d] = executed_cmd_seq[d]
      BY <1>1, <1>3, <1>8
    <2> HIDE DEF s, e
    <2> QED BY <1>1, <1>3, <2>1, <2>2
  <1> HIDE DEF e
  <1>12. StateTypes'
    BY <1>0, OnInformKeepsTypes
  <1>13. SlotInv'
    BY <1>0, <1>1 DEF SlotInv
  <1> HIDE DEF s
  <1>14. InformedInv'
    <2> SUFFICES ASSUME NEW d \in Servers
                 PROVE  /\ informed'[d] \subseteq {k \in informs : k.to = d}
                        /\ \A m1, m2 \in informed'[d] : m1.sequence = m2.sequence => m1 = m2
                        /\ \A q \in 1 .. executed_cmd_seq'[d] :
                             \E k \in informed'[d] : k.sequence = q
                        /\ ~ \E k \in informed'[d] : k.sequence = executed_cmd_seq'[d] + 1
                        /\ cmd_min_set'[d] =
                             {k \in informed'[d] : k.sequence > executed_cmd_seq'[d]}
      BY <1>1 DEF InformedInv, InformedSlots
    <2>1. CASE d = s
      BY <1>2, <1>6, <1>9, <1>10, <2>1
    <2>2. CASE d # s
      BY <1>0, <1>10, <2>2 DEF InformedInv, InformedSlots
    <2> QED BY <2>1, <2>2
  <1>15. ResponsesInv'
    <2> SUFFICES ASSUME NEW d \in Servers
                 PROVE  client_ops_to_response'[d] \subseteq
                          {k \in informed'[d] : k.sequence <= executed_cmd_seq'[d]}
      BY DEF ResponsesInv
    <2>1. CASE d = s
      BY <1>6, <1>10, <2>1
    <2>2. CASE d # s
      BY <1>0, <1>10, <2>2 DEF ResponsesInv
    <2> QED BY <2>1, <2>2
  <1>16. PostponedInv'
    <2> SUFFICES ASSUME NEW d \in Servers, NEW r \in postponed'[d]
                 PROVE  /\ r.sequence <= executed_cmd_seq'[d]
                        /\ seq_to_expected_values'[d][r.sequence] = NoCommand
      BY DEF PostponedInv
    <2>1. CASE d # s
      BY <1>0, <1>10, <2>1 DEF PostponedInv
    <2>2. CASE d = s /\ r \in postponed[s]
      <3>1. /\ r.sequence \in Slots /\ r.sequence <= e
            /\ seq_to_expected_values[s][r.sequence] = NoCommand
        BY <1>0, <1>3, <2>2 DEF PostponedInv, e
      <3>2. entries[r.sequence] = NoCommand
        BY <3>1 DEF entries
      <3>3. r.sequence <= n
        BY <1>2, <1>4, <3>1 DEF Slots
      <3> QED BY <1>10, <2>2, <3>2, <3>3
    <2>3. CASE d = s /\ r \in timers
      <3>1. PICK k \in mine : r \in Displaced(s, k)
        BY <2>3 DEF timers
      <3>2. r.sequence = k.sequence /\ k.sequence \in Slots /\ k.sequence <= n
        BY <1>5, <3>1 DEF Displaced, Informs
      <3>3. entries[r.sequence] = NoCommand
        BY <3>1, <3>2 DEF entries
      <3> QED BY <1>10, <2>3, <3>2, <3>3
    <2> QED BY <1>10, <2>1, <2>2, <2>3
  <1>17. ResponsibleAnswers'
    <2> SUFFICES ASSUME NEW d \in Servers, NEW k \in informed'[d],
                        k.sequence <= executed_cmd_seq'[d], k.responsible_server_id = d,
                        ~(AtMostOnce /\ Repeats(k)')
                 PROVE  \E r \in responses' : r.from = d /\ r.value = k.value
      BY DEF ResponsibleAnswers
    <2>0. k.to = d
      BY <1>0, <1>1, <1>14 DEF InformedInv
    <2>1. \A c \in informed[d] : c \in informed'[d]
      BY <1>10 DEF known
    <2>2. ASSUME k \in informed[d], k.sequence <= executed_cmd_seq[d]
          PROVE  \E r \in responses' : r.from = d /\ r.value = k.value
      <3>1. Repeats(k) => Repeats(k)'
        BY <2>0, <2>1 DEF Repeats
      <3> QED BY <1>0, <1>1, <2>2, <3>1 DEF ResponsibleAnswers
    <2>3. CASE d # s
      BY <1>10, <2>2, <2>3
    <2>4. CASE d = s
      <3>1. k \in known /\ k.sequence <= n /\ k.sequence \in Nat
        BY <1>10, <1>11, <2>4
      <3>2. CASE k.sequence <= e
        <4>1. k # m
          <5>1. m \in heap
            BY DEF heap
          <5> QED BY <1>4, <1>11, <3>1, <3>2, <5>1
        <4> QED BY <2>2, <2>4, <3>1, <3>2, <4>1 DEF known, e
      <3>3. CASE k.sequence > e
        <4>1. k \in heap /\ k.sequence \in turn
          BY <1>2, <1>4, <3>1, <3>3
        <4>2. k.sequence \in fresh
          <5> SUFFICES ASSUME k.sequence \notin fresh PROVE FALSE
            OBVIOUS
          <5>1. AtMostOnce /\ \E c \in known : c.sequence < k.sequence /\ c.value = k.value
            BY <1>7, <4>1
          <5> QED BY <1>10, <2>0, <2>4, <5>1 DEF Repeats
        <4>3. answer(k.sequence) = k
          BY <1>2, <4>1, <4>2 DEF answer
        <4>4. k \in mine
          BY <2>4, <4>1, <4>3 DEF mine, Own
        <4>5. [from |-> s, sequence |-> k.sequence, value |-> k.value] \in sent
          BY <4>4 DEF sent
        <4> HIDE DEF sent
        <4>6. [from |-> s, sequence |-> k.sequence, value |-> k.value] \in responses'
          BY <1>1, <4>5
        <4> QED BY <2>4, <4>6
      <3> QED BY <1>4, <3>1, <3>2, <3>3
    <2> QED BY <2>3, <2>4
  <1> QED BY <1>12, <1>13, <1>14, <1>15, <1>16, <1>17 DEF ServerInv

LEMMA StutterPreserves == ASSUME ServerInv, UNCHANGED vars PROVE ServerInv'
  <1> USE DEF vars, slotVars, serverVars, netVars
  <1>0. /\ StateTypes /\ SlotInv /\ InformedInv /\ ResponsesInv /\ PostponedInv
        /\ ResponsibleAnswers
    BY DEF ServerInv
  <1>1. StateTypes' /\ SlotInv'
    BY <1>0 DEF StateTypes, SlotInv
  <1>2. InformedInv' /\ ResponsesInv' /\ PostponedInv' /\ ResponsibleAnswers'
    BY <1>0 DEF InformedInv, ResponsesInv, PostponedInv, ResponsibleAnswers,
                InformedSlots, Repeats
  <1> QED BY <1>1, <1>2 DEF ServerInv

(* What PaxosServerInv says is always so, although nobody assigns slots to *)
(* servers and INFORMs come in any order (server.cpp:237, server.cpp:361). *)
THEOREM Invariance == Spec => []ServerInv
  <1>1. Init => ServerInv
    BY Initial
  <1>2. ServerInv /\ [Next]_vars => ServerInv'
    <2> SUFFICES ASSUME ServerInv, [Next]_vars PROVE ServerInv'
      OBVIOUS
    <2>1. ASSUME NEW q \in Slots, Choose(q) PROVE ServerInv'
      BY <2>1, ChoosePreserves
    <2>2. ASSUME NEW s \in Servers, NEW q \in Slots, NEW reached \in SUBSET Servers,
                 LearnMajority(s, q, reached)
          PROVE  ServerInv'
      BY <2>2, LearnMajorityPreserves
    <2>3. ASSUME NEW b \in Servers, NEW s \in Servers, NEW q \in Slots,
                 InformOutdated(b, s, q)
          PROVE  ServerInv'
      BY <2>3, InformOutdatedPreserves
    <2>4. ASSUME NEW s \in Servers, NEW v \in Commands, Submit(s, v) PROVE ServerInv'
      BY <2>4, SubmitPreserves
    <2>5. ASSUME NEW s \in Servers, NEW r \in postponed[s], Resubmit(s, r)
          PROVE  ServerInv'
      BY <2>5, ResubmitPreserves
    <2>6. ASSUME NEW m \in informs, OnInform(m) PROVE ServerInv'
      BY <2>6, OnInformPreserves
    <2>7. CASE UNCHANGED vars
      BY <2>7, StutterPreserves
    <2> QED BY <2>1, <2>2, <2>3, <2>4, <2>5, <2>6, <2>7 DEF Next
  <1> QED BY <1>1, <1>2, PTL DEF Spec

(* A slot is decided only after the slot before it: the servers never wait *)
(* for a slot that no submission goes to (server.cpp:361).                 *)
THEOREM NoSlotIsSkipped == Spec => []NoHoles
  <1>1. ServerInv => NoHoles
    BY DEF ServerInv, SlotInv, NoHoles
  <1> QED BY <1>1, Invariance, PTL

(* Whatever the order of the INFORMs, what a server was informed of is     *)
(* executed or waits, and what can be executed does not wait               *)
(* (server.cpp:237).                                                       *)
THEOREM NothingIsForgotten == Spec => []NothingForgotten
  <1>1. ASSUME ServerInv PROVE NothingForgotten
    <2> SUFFICES ASSUME NEW s \in Servers
                 PROVE  /\ InformedSlots(s) = {c.sequence : c \in cmd_min_set[s]} \cup
                                                (1 .. executed_cmd_seq[s])
                        /\ \A q \in {c.sequence : c \in cmd_min_set[s]} :
                             q > executed_cmd_seq[s] + 1
      BY DEF NothingForgotten
    <2>1. /\ InformedInv /\ executed_cmd_seq[s] \in Nat
          /\ \A m \in informed[s] : m.sequence \in Nat \ {0}
      BY <1>1 DEF ServerInv, StateTypes, Informs, Slots
    <2>2. cmd_min_set[s] = {m \in informed[s] : m.sequence > executed_cmd_seq[s]}
      BY <2>1 DEF InformedInv
    <2>3. \A q \in 1 .. executed_cmd_seq[s] : q \in InformedSlots(s)
      BY <2>1 DEF InformedInv
    <2>4. \A m \in informed[s] : m.sequence # executed_cmd_seq[s] + 1
      BY <2>1 DEF InformedInv, InformedSlots
    <2> QED BY <2>1, <2>2, <2>3, <2>4 DEF InformedSlots
  <1>2. ServerInv => NothingForgotten
    BY <1>1
  <1> QED BY <1>2, Invariance, PTL

(* The client of a command hears from the server responsible for it, at    *)
(* its first execution (server.cpp:237, server.cpp:260).                   *)
THEOREM ResponsibleServerAnswers == Spec => []ResponsibleAnswers
  <1>1. ServerInv => ResponsibleAnswers
    BY DEF ServerInv
  <1> QED BY <1>1, Invariance, PTL

LEMMA PlaceKeepsEntries ==
  ASSUME ServerInv, NEW s \in Servers, NEW v \in Commands,
         Place(s, v, seq_to_expected_values[s]),
         NEW d \in Servers, NEW q \in Slots, seq_to_expected_values[d][q] # NoCommand
  PROVE  seq_to_expected_values'[d][q] = seq_to_expected_values[d][q]
  <1>1. seq_to_expected_values \in [Servers -> [Slots -> Commands \cup {NoCommand}]]
    BY DEF ServerInv, StateTypes
  <1>2. SubmitSequence(s) \in Slots
    BY DEF Place
  <1>3. CASE seq_to_expected_values' =
               [seq_to_expected_values EXCEPT ![s] = seq_to_expected_values[s]]
    BY <1>1, <1>3
  <1>4. CASE seq_to_expected_values' = [seq_to_expected_values EXCEPT ![s] =
               [seq_to_expected_values[s] EXCEPT ![SubmitSequence(s)] =
                  IF seq_to_expected_values[s][SubmitSequence(s)] = NoCommand THEN v
                  ELSE seq_to_expected_values[s][SubmitSequence(s)]]]
    <2> DEFINE p == SubmitSequence(s)
    <2> HIDE DEF p
    <2>1. seq_to_expected_values' = [seq_to_expected_values EXCEPT ![s] =
               [seq_to_expected_values[s] EXCEPT ![p] =
                  IF seq_to_expected_values[s][p] = NoCommand THEN v
                  ELSE seq_to_expected_values[s][p]]]
      BY <1>4 DEF p
    <2> QED BY <1>1, <2>1
  <1> QED BY <1>3, <1>4 DEF Place

LEMMA OnInformKeepsEntries ==
  ASSUME ServerInv, NEW m \in informs, OnInform(m),
         NEW d \in Servers, NEW q \in Slots, NEW v,
         v = seq_to_expected_values[d][q], v # NoCommand,
         seq_to_expected_values'[d][q] # v
  PROVE  chosen[q] = {v} \/ [sequence |-> q, value |-> v] \in postponed'[d]
  <1> DEFINE s        == m.to
             e        == executed_cmd_seq[s]
             heap     == cmd_min_set[s] \cup {m}
             turn     == Turn(s, heap)
             fresh    == {p \in turn : Applies(s, heap, turn, p)}
             first    == {CommandAt(heap, p) : p \in fresh}
             cache    == client_ops_to_response[s] \cup first
             answer(p) == IF p \in fresh THEN CommandAt(heap, p)
                          ELSE CHOOSE r \in cache : r.value = CommandAt(heap, p).value
             known    == informed[s] \cup {m}
             mine     == Own(s, {answer(p) : p \in turn})
  <1>1. /\ m.sequence \notin InformedSlots(s)
        /\ seq_to_expected_values' = [seq_to_expected_values EXCEPT ![s] =
             [p \in Slots |-> IF \E r \in mine : r.sequence = p THEN NoCommand
                              ELSE seq_to_expected_values[s][p]]]
        /\ postponed' = [postponed EXCEPT ![s] =
             postponed[s] \cup UNION {Displaced(s, r) : r \in mine}]
    BY DEF OnInform
  <1>2. \A p \in turn : answer(p) \in known
    <2>1. \E n \in e .. MaxSequence :
            /\ \A r \in cache : r \in known /\ r.sequence <= n
            /\ \A p \in turn : answer(p) \in cache
      BY <1>1, ExecutionOfTurn
    <2> HIDE DEF answer, cache, known, turn, e
    <2> QED BY <2>1
  <1>3. \A r \in mine : r \in known
    <2> HIDE DEF answer, turn, known
    <2> QED BY <1>2 DEF Own
  <1> HIDE DEF mine, turn, answer, cache, first, fresh, heap
  <1>4. /\ s \in Servers /\ seq_to_expected_values \in
             [Servers -> [Slots -> Commands \cup {NoCommand}]]
        /\ postponed \in [Servers -> SUBSET [sequence : Slots, value : Commands]]
        /\ known \subseteq informs
    BY DEF ServerInv, StateTypes, Informs, InformedInv
  <1>5. d = s
    BY <1>1, <1>4
  <1>6. PICK r \in mine : r.sequence = q
    BY <1>1, <1>4, <1>5
  <1>7. chosen[q] = {r.value}
    BY <1>3, <1>4, <1>6 DEF ServerInv, SlotInv
  <1>8. CASE r.value = v
    BY <1>7, <1>8
  <1>9. CASE r.value # v
    <2>1. [sequence |-> q, value |-> v] \in Displaced(s, r)
      BY <1>5, <1>6, <1>9 DEF Displaced
    <2> HIDE DEF s
    <2>2. [sequence |-> q, value |-> v] \in UNION {Displaced(s, k) : k \in mine}
      BY <1>6, <2>1
    <2>3. postponed'[s] = postponed[s] \cup UNION {Displaced(s, k) : k \in mine}
      BY <1>1, <1>4
    <2> QED BY <1>5, <2>2, <2>3
  <1> QED BY <1>8, <1>9, Zenon

(* A submission is never lost by the server that took it: its entry leaves *)
(* with its own execution or into a timer, the response of a repeated      *)
(* command included (server.cpp:260, server.cpp:432).                      *)
THEOREM DisplacedSubmissionsWait == Spec => DisplacedIsPostponed
  <1>1. ASSUME ServerInv, [Next]_vars, NEW s \in Servers, NEW q \in Slots,
               NEW v, v = seq_to_expected_values[s][q], v # NoCommand,
               seq_to_expected_values'[s][q] # v
        PROVE  chosen[q] = {v} \/ [sequence |-> q, value |-> v] \in postponed'[s]
    <2>1. seq_to_expected_values' # seq_to_expected_values
      BY <1>1
    <2>2. ASSUME NEW t \in Servers, NEW w \in Commands, Submit(t, w) PROVE FALSE
      BY <1>1, <2>2, PlaceKeepsEntries DEF Submit
    <2>3. ASSUME NEW t \in Servers, NEW r \in postponed[t], Resubmit(t, r) PROVE FALSE
      <3>1. /\ seq_to_expected_values[t] \in [Slots -> Commands \cup {NoCommand}]
            /\ r.sequence \in Slots /\ r.value \in Commands
            /\ seq_to_expected_values[t][r.sequence] = NoCommand
        BY <1>1 DEF ServerInv, StateTypes, PostponedInv
      <3>2. [seq_to_expected_values[t] EXCEPT ![r.sequence] = NoCommand]
              = seq_to_expected_values[t]
        BY <3>1
      <3>3. Place(t, r.value, seq_to_expected_values[t])
        BY <2>3, <3>2 DEF Resubmit
      <3> QED BY <1>1, <3>1, <3>3, PlaceKeepsEntries
    <2>4. ASSUME NEW m \in informs, OnInform(m)
          PROVE  chosen[q] = {v} \/ [sequence |-> q, value |-> v] \in postponed'[s]
      BY <1>1, <2>4, OnInformKeepsEntries
    <2> QED BY <1>1, <2>1, <2>2, <2>3, <2>4
            DEF Next, Choose, LearnMajority, InformOutdated, vars, slotVars, serverVars
  <1>2. ServerInv /\ [Next]_vars =>
          [\A s \in Servers, q \in Slots :
             LET v == seq_to_expected_values[s][q] IN
             v # NoCommand /\ seq_to_expected_values'[s][q] # v =>
               chosen[q] = {v} \/ [sequence |-> q, value |-> v] \in postponed'[s]]_vars
    BY <1>1
  <1> QED BY <1>2, Invariance, PTL DEF Spec, DisplacedIsPostponed
=============================================================================
