---------------------- MODULE PaxosServerRestartProofs ----------------------
(***************************************************************************)
(* What survives restarts, for every number of servers, slots and records  *)
(* in a block: slots are decided without holes, and the learner's file     *)
(* keeps what the server was informed of.                                  *)
(***************************************************************************)
EXTENDS PaxosServerRestart, PaxosServerProofs

(* A server was informed of every slot it has executed, also after the     *)
(* replay; of the heap no more can be said than that.                      *)
ExecutedInv ==
  \A s \in Servers :
    /\ informed[s] \subseteq {m \in informs : m.to = s}
    /\ \A q \in 1 .. executed_cmd_seq[s] : q \in InformedSlots(s)
    /\ cmd_min_set[s] \subseteq informed[s]

(* The file reaches beyond every slot that was written to it.              *)
FileInv ==
  /\ log_file \in [Servers -> [items : Nat, known : Nat]]
  /\ \A s \in Servers : \A m \in informed[s] : m.sequence < log_file[s].items

(* The inductive invariant of PaxosServerRestart.                          *)
RestartInv == StateTypes /\ SlotInv /\ ExecutedInv /\ FileInv

(* The file of s has no hole in what s was informed of (logger.cpp:36).    *)
FileIsFull(s) == Full(log_file[s], InformedSlots(s))

LEMMA RestartInitial == RestartInit => RestartInv
  <1> SUFFICES ASSUME RestartInit PROVE RestartInv
    OBVIOUS
  <1> USE DEF RestartInit, Init
  <1>1. StateTypes
    BY BoundsAssumption DEF StateTypes
  <1>2. SlotInv
    BY DEF SlotInv
  <1>3. ExecutedInv /\ FileInv
    BY DEF ExecutedInv, FileInv, EmptyFile
  <1> QED BY <1>1, <1>2, <1>3 DEF RestartInv

(* A write makes the file reach beyond the slot, and never shortens it,    *)
(* although one block is appended however far away the slot is.            *)
LEMMA WrittenReaches ==
  ASSUME NEW f \in [items : Nat, known : Nat], NEW q \in Nat
  PROVE  /\ Written(f, q) \in [items : Nat, known : Nat]
         /\ Written(f, q).items >= f.items
         /\ Written(f, q).items > q
  <1> DEFINE g == Appended(f, q)
  <1>1. g \in [items : Nat, known : Nat] /\ g.items >= f.items
    BY BlockSizeAssumption DEF Appended
  <1> HIDE DEF g
  <1>2. /\ Max({g.items, q + 1}) \in {g.items, q + 1}
        /\ Max({g.items, q + 1}) >= g.items /\ Max({g.items, q + 1}) >= q + 1
    <2> DEFINE x == IF g.items >= q + 1 THEN g.items ELSE q + 1
    <2>1. x \in {g.items, q + 1} /\ \A y \in {g.items, q + 1} : x >= y
      BY <1>1
    <2> HIDE DEF x
    <2> QED BY <2>1 DEF Max
  <1>3. Written(f, q) = [g EXCEPT !.items = Max({g.items, q + 1})]
    BY DEF Written, g
  <1> HIDE DEF Written
  <1> QED BY <1>1, <1>2, <1>3

(* min_sequence is the end of what is written without a hole, or 0.        *)
LEMMA MinSequenceBounds ==
  ASSUME NEW f \in [items : Nat, known : Nat], NEW written \in SUBSET Slots,
         \A q \in written : q < f.items
  PROVE  /\ MinSequence(f, written) \in 0 .. MaxSequence
         /\ \A q \in 1 .. MinSequence(f, written) : q \in written
         /\ \A e \in Nat : (\A q \in 1 .. e : q \in written) =>
              Full(f, written) \/ e <= MinSequence(f, written)
  <1>1. CASE Holes(f, written) = {}
    <2>1. MinSequence(f, written) = 0 /\ Full(f, written)
      BY <1>1 DEF MinSequence, Full
    <2> QED BY <2>1, BoundsAssumption
  <1>2. CASE Holes(f, written) # {}
    <2>1. Holes(f, written) \subseteq Nat /\ \A q \in Holes(f, written) : q \notin written /\ q >= 1
      BY DEF Holes, ReadFrom
    <2>2. PICK x \in Holes(f, written) : \A y \in Holes(f, written) : x <= y
      BY <1>2, <2>1, LeastNumber
    <2>3. Min(Holes(f, written)) = x
      <3>1. \A z \in Holes(f, written) : (\A y \in Holes(f, written) : z <= y) => z = x
        BY <2>1, <2>2
      <3> QED BY <2>2, <3>1 DEF Min
    <2>4. MinSequence(f, written) = x - 1 /\ x \in Nat /\ x >= 1 /\ x \notin written
      BY <1>2, <2>1, <2>2, <2>3 DEF MinSequence
    <2>5. ASSUME NEW q \in 1 .. (x - 1) PROVE q \in written
      <3>1. x <= f.items - 1 /\ f.items \in Nat
        BY <2>2 DEF Holes, ReadFrom
      <3>2. q \in ReadFrom(f) /\ ~(x <= q)
        BY <2>4, <3>1 DEF ReadFrom
      <3> QED BY <2>2, <3>2 DEF Holes
    <2>6. x - 1 <= MaxSequence
      <3>1. CASE x = 1
        BY <3>1, BoundsAssumption
      <3>2. CASE x # 1
        <4>1. x - 1 \in 1 .. (x - 1)
          BY <2>4, <3>2
        <4>2. x - 1 \in Slots
          BY <2>5, <4>1
        <4> QED BY <4>2, BoundsAssumption DEF Slots
      <3> QED BY <3>1, <3>2
    <2>7. ASSUME NEW e \in Nat, \A q \in 1 .. e : q \in written PROVE e <= x - 1
      <3> SUFFICES ASSUME x <= e PROVE FALSE
        BY <2>4
      <3>1. x \in 1 .. e
        BY <2>4
      <3> QED BY <2>4, <2>7, <3>1
    <2> QED BY <2>4, <2>5, <2>6, <2>7, BoundsAssumption
  <1> QED BY <1>1, <1>2

(* The replay: what the log holds comes back, and is executed up to its    *)
(* first hole, if there is one.                                            *)
LEMMA StartAgainPreserves ==
  ASSUME RestartInv, NEW s \in Servers, NEW f \in [items : Nat, known : Nat],
         NEW known \in SUBSET {m \in informs : m.to = s},
         \A m \in known : m.sequence < f.items,
         StartAgain(s, f, known)
  PROVE  /\ RestartInv'
         /\ informed'[s] = known
         /\ \A d \in Servers \ {s} : /\ informed'[d] = informed[d]
                                     /\ executed_cmd_seq'[d] = executed_cmd_seq[d]
         /\ \A e \in Nat : (\A q \in 1 .. e : \E m \in known : m.sequence = q) =>
              FileIsFull(s)' \/ e <= executed_cmd_seq'[s]
  <1> DEFINE written == {m.sequence : m \in known}
             n == MinSequence(f, written)
  <1>0. StateTypes /\ SlotInv /\ ExecutedInv /\ FileInv
    BY DEF RestartInv
  <1>1. known \subseteq Informs /\ \A m \in known : m.sequence \in Slots
    BY <1>0 DEF StateTypes, Informs
  <1>2. {m \in known : m.sequence \in ReadFrom(f)} = known
    BY <1>1 DEF ReadFrom, Slots
  <1>3. /\ informed' = [informed EXCEPT ![s] = known]
        /\ executed_cmd_seq' = [executed_cmd_seq EXCEPT ![s] = n]
        /\ cmd_min_set' = [cmd_min_set EXCEPT ![s] = {}]
        /\ log_file' = [log_file EXCEPT ![s] = Reopened(f)]
        /\ UNCHANGED <<proposed, chosen, informs>>
    BY <1>2 DEF StartAgain, netVars
  <1>4. written \in SUBSET Slots /\ \A q \in written : q < f.items
    BY <1>1
  <1>5. /\ n \in 0 .. MaxSequence
        /\ \A q \in 1 .. n : q \in written
        /\ \A e \in Nat : (\A q \in 1 .. e : q \in written) => Full(f, written) \/ e <= n
    <2> HIDE DEF written
    <2> QED BY <1>4, MinSequenceBounds
  <1> HIDE DEF n
  <1>6. /\ informed'[s] = known /\ executed_cmd_seq'[s] = n /\ cmd_min_set'[s] = {}
        /\ log_file'[s] = Reopened(f)
        /\ \A d \in Servers \ {s} : /\ informed'[d] = informed[d]
                                    /\ executed_cmd_seq'[d] = executed_cmd_seq[d]
                                    /\ cmd_min_set'[d] = cmd_min_set[d]
                                    /\ log_file'[d] = log_file[d]
    BY <1>0, <1>3 DEF StateTypes, FileInv
  <1>7. Reopened(f) \in [items : Nat, known : Nat] /\ Reopened(f).items = f.items
    BY DEF Reopened
  <1>8. StateTypes'
    <2> DEFINE fresh  == Replays(known, n)
               cached == {[CommandAt(known, q) EXCEPT !.responsible_server_id = 0] :
                            q \in IF AtMostOnce THEN fresh ELSE {}}
    <2>1. /\ learned_majority' = [learned_majority EXCEPT ![s] = written]
          /\ seq_to_expected_values' =
               [seq_to_expected_values EXCEPT ![s] = [q \in Slots |-> NoCommand]]
          /\ client_ops_to_response' = [client_ops_to_response EXCEPT ![s] = cached]
          /\ postponed' = [postponed EXCEPT ![s] = {}]
          /\ running' = [running EXCEPT ![s] = TRUE]
          /\ UNCHANGED <<prepared, submissions, responses>>
      BY <1>2 DEF StartAgain, netVars, n
    <2>2. cached \subseteq Informs
      <3>1. \A q \in fresh : CommandAt(known, q) \in Informs
        <4> SUFFICES ASSUME NEW q \in fresh PROVE CommandAt(known, q) \in Informs
          OBVIOUS
        <4>1. q \in 1 .. n
          BY DEF Replays
        <4>2. \E c \in known : c.sequence = q
          BY <1>5, <4>1
        <4> QED BY <1>1, <4>2 DEF CommandAt
      <3>2. \A c \in Informs : [c EXCEPT !.responsible_server_id = 0] \in Informs
        BY NAssumption DEF Informs, Servers
      <3> HIDE DEF fresh
      <3> QED BY <3>1, <3>2
    <2> HIDE DEF cached, fresh, written
    <2>3. /\ informed' \in [Servers -> SUBSET Informs]
          /\ executed_cmd_seq' \in [Servers -> 0 .. MaxSequence]
          /\ cmd_min_set' \in [Servers -> SUBSET Informs]
      BY <1>0, <1>1, <1>3, <1>5 DEF StateTypes
    <2>4. /\ learned_majority' \in [Servers -> SUBSET Slots]
          /\ seq_to_expected_values' \in [Servers -> [Slots -> Commands \cup {NoCommand}]]
          /\ client_ops_to_response' \in [Servers -> SUBSET Informs]
          /\ postponed' \in [Servers -> SUBSET [sequence : Slots, value : Commands]]
          /\ running' \in [Servers -> BOOLEAN]
      BY <1>0, <1>4, <2>1, <2>2 DEF StateTypes
    <2> QED BY <1>0, <1>3, <2>1, <2>3, <2>4 DEF StateTypes
  <1>9. SlotInv'
    BY <1>0, <1>3 DEF SlotInv
  <1>10. ExecutedInv'
    <2> SUFFICES ASSUME NEW d \in Servers
                 PROVE  /\ informed'[d] \subseteq {m \in informs : m.to = d}
                        /\ \A q \in 1 .. executed_cmd_seq'[d] :
                             \E m \in informed'[d] : m.sequence = q
                        /\ cmd_min_set'[d] \subseteq informed'[d]
      BY <1>3 DEF ExecutedInv, InformedSlots
    <2>1. CASE d = s
      BY <1>5, <1>6, <2>1
    <2>2. CASE d # s
      BY <1>0, <1>6, <2>2 DEF ExecutedInv, InformedSlots
    <2> QED BY <2>1, <2>2
  <1>11. FileInv'
    <2>1. log_file' \in [Servers -> [items : Nat, known : Nat]]
      BY <1>0, <1>3, <1>7 DEF FileInv
    <2>2. ASSUME NEW d \in Servers, NEW m \in informed'[d]
          PROVE  m.sequence < log_file'[d].items
      BY <1>0, <1>6, <1>7 DEF FileInv
    <2> QED BY <2>1, <2>2 DEF FileInv
  <1>12. ASSUME NEW e \in Nat, \A q \in 1 .. e : \E m \in known : m.sequence = q
         PROVE  FileIsFull(s)' \/ e <= executed_cmd_seq'[s]
    <2>1. Full(f, written) \/ e <= n
      BY <1>5, <1>12
    <2>2. Full(Reopened(f), written) <=> Full(f, written)
      BY <1>7 DEF Full, Holes, ReadFrom
    <2>3. InformedSlots(s)' = written
      BY <1>6 DEF InformedSlots
    <2> HIDE DEF written
    <2> QED BY <1>6, <2>1, <2>2, <2>3 DEF FileIsFull
  <1> QED BY <1>6, <1>8, <1>9, <1>10, <1>11, <1>12 DEF RestartInv

(* Wherever the process stops, it starts again with a file that reaches    *)
(* beyond all it was informed of.                                          *)
LEMMA StartsFrom ==
  ASSUME RestartInv, NEW s \in Servers, NEW m, \/ Restart(s)
                                               \/ m \in informs /\ m.to = s /\ RestartAfterWrite(m)
  PROVE  \E f \in [items : Nat, known : Nat], known \in SUBSET {k \in informs : k.to = s} :
           /\ informed[s] \subseteq known
           /\ \A k \in known : k.sequence < f.items
           /\ StartAgain(s, f, known)
  <1>0. StateTypes /\ SlotInv /\ ExecutedInv /\ FileInv
    BY DEF RestartInv
  <1>1. CASE Restart(s)
    <2>1. /\ log_file[s] \in [items : Nat, known : Nat]
          /\ informed[s] \in SUBSET {k \in informs : k.to = s}
          /\ \A k \in informed[s] : k.sequence < log_file[s].items
      BY <1>0 DEF FileInv, ExecutedInv
    <2> QED BY <1>1, <2>1 DEF Restart
  <1>2. CASE m \in informs /\ m.to = s /\ RestartAfterWrite(m)
    <2> DEFINE f == Written(log_file[s], m.sequence)
               known == informed[s] \cup {m}
    <2>1. /\ log_file[s] \in [items : Nat, known : Nat]
          /\ informed[s] \in SUBSET {k \in informs : k.to = s}
          /\ \A k \in informed[s] : k.sequence < log_file[s].items
          /\ \A k \in informed[s] : k.sequence \in Nat
          /\ m.sequence \in Nat
      BY <1>0, <1>2 DEF FileInv, ExecutedInv, StateTypes, Informs, Slots
    <2>2. /\ f \in [items : Nat, known : Nat]
          /\ f.items >= log_file[s].items /\ f.items > m.sequence
      BY <2>1, WrittenReaches
    <2>3. StartAgain(s, f, known)
      BY <1>2 DEF RestartAfterWrite
    <2> HIDE DEF f
    <2>4. known \in SUBSET {k \in informs : k.to = s}
      BY <1>2, <2>1
    <2>5. \A k \in known : k.sequence < f.items
      BY <2>1, <2>2
    <2> QED BY <2>2, <2>3, <2>4, <2>5
  <1> QED BY <1>1, <1>2

LEMMA RestartStep ==
  ASSUME RestartInv, NEW s \in Servers, NEW m, \/ Restart(s)
                                               \/ m \in informs /\ m.to = s /\ RestartAfterWrite(m)
  PROVE  /\ RestartInv'
         /\ informed[s] \subseteq informed'[s]
         /\ \A d \in Servers \ {s} : /\ informed'[d] = informed[d]
                                     /\ executed_cmd_seq'[d] = executed_cmd_seq[d]
         /\ FileIsFull(s)' \/ executed_cmd_seq[s] <= executed_cmd_seq'[s]
  <1>0. StateTypes /\ SlotInv /\ ExecutedInv /\ FileInv
    BY DEF RestartInv
  <1>1. PICK f \in [items : Nat, known : Nat], known \in SUBSET {k \in informs : k.to = s} :
          /\ informed[s] \subseteq known
          /\ \A k \in known : k.sequence < f.items
          /\ StartAgain(s, f, known)
    BY StartsFrom
  <1>2. executed_cmd_seq[s] \in Nat
        /\ \A q \in 1 .. executed_cmd_seq[s] : \E k \in known : k.sequence = q
    <2>1. executed_cmd_seq[s] \in Nat
      BY <1>0 DEF StateTypes
    <2>2. \A q \in 1 .. executed_cmd_seq[s] : q \in InformedSlots(s)
      BY <1>0 DEF ExecutedInv
    <2> QED BY <1>1, <2>1, <2>2 DEF InformedSlots
  <1>3. /\ RestartInv'
        /\ informed'[s] = known
        /\ \A d \in Servers \ {s} : /\ informed'[d] = informed[d]
                                    /\ executed_cmd_seq'[d] = executed_cmd_seq[d]
        /\ \A e \in Nat : (\A q \in 1 .. e : \E k \in known : k.sequence = q) =>
             FileIsFull(s)' \/ e <= executed_cmd_seq'[s]
    BY <1>1, StartAgainPreserves
  <1>4. FileIsFull(s)' \/ executed_cmd_seq[s] <= executed_cmd_seq'[s]
    BY <1>2, <1>3
  <1> QED BY <1>1, <1>3, <1>4

(* An INFORM executes a turn of the heap also after a restart, when the    *)
(* heap has lost what was behind a hole.                                   *)
LEMMA LoggedInformStep ==
  ASSUME RestartInv, NEW m \in informs, LoggedInform(m)
  PROVE  /\ RestartInv'
         /\ \A d \in Servers : /\ informed[d] \subseteq informed'[d]
                               /\ executed_cmd_seq[d] <= executed_cmd_seq'[d]
  <1> DEFINE s    == m.to
             e    == executed_cmd_seq[s]
             heap == cmd_min_set[s] \cup {m}
             turn == Turn(s, heap)
             rest == {c \in heap : c.sequence \notin turn}
  <1>0. StateTypes /\ SlotInv /\ ExecutedInv /\ FileInv
    BY DEF RestartInv
  <1>1. /\ informed' = [informed EXCEPT ![s] = informed[s] \cup {m}]
        /\ executed_cmd_seq' = [executed_cmd_seq EXCEPT ![s] =
                                  executed_cmd_seq[s] + Cardinality(turn)]
        /\ cmd_min_set' = [cmd_min_set EXCEPT ![s] = rest]
        /\ log_file' = [log_file EXCEPT ![s] = Written(log_file[s], m.sequence)]
        /\ UNCHANGED <<proposed, chosen, informs>>
    BY DEF LoggedInform, OnInform
  <1>2. s \in Servers /\ m \in Informs /\ m.sequence \in Nat /\ e \in 0 .. MaxSequence
    BY <1>0 DEF StateTypes, Informs, Slots
  <1>3. PICK n \in e .. MaxSequence : turn = (e + 1) .. n /\ Cardinality(turn) = n - e
    BY <1>2, TurnIsInterval
  <1>4. \A q \in turn : \E c \in heap : c.sequence = q
    <2> SUFFICES ASSUME NEW q \in turn PROVE \E c \in heap : c.sequence = q
      OBVIOUS
    <2>1. q \in (e + 1) .. q
      BY <1>2, <1>3
    <2>2. \A p \in (e + 1) .. q : Waits(heap, p)
      BY DEF Turn
    <2> QED BY <2>1, <2>2 DEF Waits
  <1> HIDE DEF turn
  <1>5. /\ informed'[s] = informed[s] \cup {m}
        /\ executed_cmd_seq'[s] = n /\ e <= n /\ n \in 0 .. MaxSequence
        /\ cmd_min_set'[s] \subseteq heap
        /\ log_file'[s] = Written(log_file[s], m.sequence)
        /\ \A d \in Servers \ {s} : /\ informed'[d] = informed[d]
                                    /\ executed_cmd_seq'[d] = executed_cmd_seq[d]
                                    /\ cmd_min_set'[d] = cmd_min_set[d]
                                    /\ log_file'[d] = log_file[d]
    BY <1>0, <1>1, <1>2, <1>3 DEF StateTypes, FileInv
  <1>6. heap \subseteq informed'[s] /\ rest \subseteq Informs
    BY <1>0, <1>2, <1>5 DEF ExecutedInv, StateTypes
  <1>7. StateTypes'
    BY <1>0, OnInformKeepsTypes DEF LoggedInform
  <1>8. SlotInv'
    BY <1>0, <1>1 DEF SlotInv
  <1>9. \A q \in 1 .. n : \E c \in informed'[s] : c.sequence = q
    <2> SUFFICES ASSUME NEW q \in 1 .. n PROVE \E c \in informed'[s] : c.sequence = q
      OBVIOUS
    <2>1. CASE q <= e
      <3>1. q \in 1 .. e
        BY <1>2, <2>1
      <3> QED BY <1>0, <1>2, <1>5, <3>1 DEF ExecutedInv, InformedSlots
    <2>2. CASE q > e
      <3>1. q \in turn
        BY <1>2, <1>3, <2>2
      <3> QED BY <1>4, <1>6, <3>1
    <2> QED BY <1>2, <2>1, <2>2
  <1>10. ExecutedInv'
    <2> SUFFICES ASSUME NEW d \in Servers
                 PROVE  /\ informed'[d] \subseteq {k \in informs : k.to = d}
                        /\ \A q \in 1 .. executed_cmd_seq'[d] :
                             \E k \in informed'[d] : k.sequence = q
                        /\ cmd_min_set'[d] \subseteq informed'[d]
      BY <1>1 DEF ExecutedInv, InformedSlots
    <2>1. CASE d = s
      BY <1>0, <1>2, <1>5, <1>6, <1>9, <2>1 DEF ExecutedInv
    <2>2. CASE d # s
      BY <1>0, <1>5, <2>2 DEF ExecutedInv, InformedSlots
    <2> QED BY <2>1, <2>2
  <1>11. FileInv'
    <2>1. log_file[s] \in [items : Nat, known : Nat]
      BY <1>0, <1>2 DEF FileInv
    <2>2. /\ log_file'[s] \in [items : Nat, known : Nat]
          /\ log_file'[s].items >= log_file[s].items
          /\ log_file'[s].items > m.sequence
      BY <1>2, <1>5, <2>1, WrittenReaches
    <2>3. log_file' \in [Servers -> [items : Nat, known : Nat]]
      BY <1>0, <1>1, <1>5, <2>2 DEF FileInv
    <2>4. ASSUME NEW d \in Servers, NEW k \in informed'[d]
          PROVE  k.sequence < log_file'[d].items
      <3>1. CASE d = s /\ k = m
        BY <1>2, <2>2, <3>1
      <3>2. CASE d = s /\ k \in informed[s]
        <4>1. k.sequence < log_file[s].items /\ k.sequence \in Nat
          BY <1>0, <1>2, <3>2 DEF FileInv, StateTypes, Informs, Slots
        <4> QED BY <2>1, <2>2, <3>2, <4>1
      <3>3. CASE d # s
        BY <1>0, <1>5, <3>3 DEF FileInv
      <3> QED BY <1>5, <3>1, <3>2, <3>3
    <2> QED BY <2>3, <2>4 DEF FileInv
  <1>12. ASSUME NEW d \in Servers
         PROVE  informed[d] \subseteq informed'[d] /\ executed_cmd_seq[d] <= executed_cmd_seq'[d]
    <2>1. executed_cmd_seq[d] <= executed_cmd_seq[d]
      BY <1>0, BoundsAssumption DEF StateTypes
    <2> QED BY <1>5, <2>1
  <1> QED BY <1>7, <1>8, <1>10, <1>11, <1>12 DEF RestartInv

LEMMA OthersStep ==
  ASSUME RestartInv, Others \/ UNCHANGED vars, UNCHANGED log_file
  PROVE  /\ RestartInv'
         /\ UNCHANGED <<informed, executed_cmd_seq>>
  <1>0. StateTypes /\ SlotInv /\ ExecutedInv /\ FileInv
    BY DEF RestartInv
  <1>1. UNCHANGED <<informed, executed_cmd_seq, cmd_min_set>>
    BY DEF Others, vars, slotVars, serverVars, Choose, LearnMajority, InformOutdated,
           Submit, Resubmit, Place
  <1>2. \A s \in Servers : /\ \A m \in informed[s] : m \in informs
                           /\ \A q \in 1 .. executed_cmd_seq[s] : q \in InformedSlots(s)
    BY <1>0 DEF ExecutedInv
  <1>3. ASSUME StateTypes', SlotInv', informs \subseteq informs' PROVE RestartInv'
    <2>1. ExecutedInv' /\ FileInv'
      BY <1>0, <1>1, <1>3 DEF ExecutedInv, FileInv, InformedSlots
    <2> QED BY <1>3, <2>1 DEF RestartInv
  <1>4. ASSUME NEW q \in Slots, Choose(q) PROVE RestartInv'
    <2>1. StateTypes' /\ SlotInv'
      BY <1>0, <1>4, ChooseKeepsSlots
    <2>2. informs' = informs
      BY <1>4 DEF Choose, netVars
    <2> QED BY <1>3, <2>1, <2>2
  <1>5. ASSUME NEW s \in Servers, NEW q \in Slots, NEW reached \in SUBSET Servers,
               LearnMajority(s, q, reached)
        PROVE  RestartInv'
    <2>1. StateTypes' /\ SlotInv'
      BY <1>0, <1>5, LearnMajorityKeepsSlots
    <2>2. informs \subseteq informs'
      BY <1>5 DEF LearnMajority
    <2> QED BY <1>3, <2>1, <2>2
  <1>6. ASSUME NEW b \in Servers, NEW s \in Servers, NEW q \in Slots, InformOutdated(b, s, q)
        PROVE  RestartInv'
    <2>1. StateTypes' /\ SlotInv'
      BY <1>0, <1>2, <1>6, InformOutdatedKeepsSlots
    <2>2. informs \subseteq informs'
      BY <1>6 DEF InformOutdated
    <2> QED BY <1>3, <2>1, <2>2
  <1>7. ASSUME NEW s \in Servers, NEW v \in Commands, Submit(s, v) PROVE RestartInv'
    <2>1. /\ seq_to_expected_values[s] \in [Slots -> Commands \cup {NoCommand}]
          /\ Place(s, v, seq_to_expected_values[s])
          /\ postponed' \in [Servers -> SUBSET [sequence : Slots, value : Commands]]
      BY <1>0, <1>7 DEF Submit, StateTypes
    <2>2. submissions' \in 0 .. MaxSubmissions
      BY <1>0, <1>7, BoundsAssumption DEF Submit, StateTypes
    <2>3. StateTypes' /\ SlotInv'
      BY <1>0, <1>2, <2>1, <2>2, PlaceKeepsSlots
    <2>4. informs' = informs
      BY <2>1 DEF Place
    <2> QED BY <1>3, <2>3, <2>4
  <1>8. ASSUME NEW s \in Servers, NEW r \in postponed[s], Resubmit(s, r) PROVE RestartInv'
    <2> DEFINE expected == [seq_to_expected_values[s] EXCEPT ![r.sequence] = NoCommand]
    <2>1. /\ seq_to_expected_values[s] \in [Slots -> Commands \cup {NoCommand}]
          /\ postponed \in [Servers -> SUBSET [sequence : Slots, value : Commands]]
          /\ submissions \in 0 .. MaxSubmissions
      BY <1>0 DEF StateTypes
    <2>2. r.sequence \in Slots /\ r.value \in Commands
      BY <2>1
    <2>3. expected \in [Slots -> Commands \cup {NoCommand}]
      BY <2>1, <2>2
    <2>4. postponed' \in [Servers -> SUBSET [sequence : Slots, value : Commands]]
      BY <1>8, <2>1 DEF Resubmit
    <2>5. submissions' = submissions /\ Place(s, r.value, expected)
      BY <1>8 DEF Resubmit
    <2> HIDE DEF expected
    <2>6. StateTypes' /\ SlotInv'
      BY <1>0, <1>2, <2>1, <2>2, <2>3, <2>4, <2>5, PlaceKeepsSlots
    <2>7. informs' = informs
      BY <2>5 DEF Place
    <2> QED BY <1>3, <2>6, <2>7
  <1>9. ASSUME UNCHANGED vars PROVE RestartInv'
    <2>1. StateTypes' /\ SlotInv' /\ informs' = informs
      BY <1>0, <1>9 DEF StateTypes, SlotInv, vars, slotVars, serverVars, netVars
    <2> QED BY <1>3, <2>1
  <1> QED BY <1>1, <1>4, <1>5, <1>6, <1>7, <1>8, <1>9 DEF Others

LEMMA RestartNextPreserves == RestartInv /\ [RestartNext]_restartVars => RestartInv'
  <1> SUFFICES ASSUME RestartInv, [RestartNext]_restartVars PROVE RestartInv'
    OBVIOUS
  <1>1. CASE (Others \/ UNCHANGED vars) /\ UNCHANGED log_file
    BY <1>1, OthersStep
  <1>2. ASSUME NEW m \in informs, LoggedInform(m) PROVE RestartInv'
    BY <1>2, LoggedInformStep
  <1>3. ASSUME NEW s \in Servers, Restart(s) PROVE RestartInv'
    BY <1>3, RestartStep
  <1>4. ASSUME NEW m \in informs, RestartAfterWrite(m) PROVE RestartInv'
    <2>1. m.to \in Servers
      BY DEF RestartInv, StateTypes, Informs
    <2> QED BY <1>4, <2>1, RestartStep
  <1> QED BY <1>1, <1>2, <1>3, <1>4 DEF RestartNext, restartVars

(* Slots are decided without holes also when servers start again, below    *)
(* the slot they had executed, and submit from there (server.cpp:432).     *)
THEOREM NoSlotIsSkippedAfterRestarts == RestartSpec => []NoHoles
  <1>1. RestartInit => RestartInv
    BY RestartInitial
  <1>2. RestartInv /\ [RestartNext]_restartVars => RestartInv'
    BY RestartNextPreserves
  <1>3. RestartInv => NoHoles
    BY DEF RestartInv, SlotInv, NoHoles
  <1> QED BY <1>1, <1>2, <1>3, PTL DEF RestartSpec

(* Nothing a server was informed of is lost in a restart, wherever it      *)
(* stops and in whatever order the file grew; and executed slots are only  *)
(* given up when the file is full (logger.hpp:57, logger.cpp:36).          *)
THEOREM RestartsLoseNothing == RestartSpec => RestartKeeps
  <1> DEFINE Keeps(s) ==
        /\ informed[s] \subseteq informed'[s]
        /\ executed_cmd_seq'[s] < executed_cmd_seq[s] => FileIsFull(s)'
  <1>1. RestartInit => RestartInv
    BY RestartInitial
  <1>2. RestartInv /\ [RestartNext]_restartVars => RestartInv'
    BY RestartNextPreserves
  <1>3. ASSUME RestartInv, RestartNext, NEW s \in Servers PROVE Keeps(s)
    <2>0. executed_cmd_seq[s] \in Nat
      BY <1>3 DEF RestartInv, StateTypes
    <2>1. executed_cmd_seq'[s] \in Nat
      <3>1. RestartInv'
        BY <1>3, <1>2
      <3> QED BY <3>1 DEF RestartInv, StateTypes
    <2>2. CASE Others /\ UNCHANGED log_file
      BY <1>3, <2>0, <2>2, OthersStep
    <2>3. ASSUME NEW m \in informs, LoggedInform(m) PROVE Keeps(s)
      BY <1>3, <2>0, <2>1, <2>3, LoggedInformStep
    <2>4. ASSUME NEW d \in Servers,
                 /\ informed[d] \subseteq informed'[d]
                 /\ \A c \in Servers \ {d} : /\ informed'[c] = informed[c]
                                             /\ executed_cmd_seq'[c] = executed_cmd_seq[c]
                 /\ FileIsFull(d)' \/ executed_cmd_seq[d] <= executed_cmd_seq'[d]
          PROVE  Keeps(s)
      <3>1. CASE d = s
        BY <2>0, <2>1, <2>4, <3>1
      <3>2. CASE d # s
        BY <2>0, <2>4, <3>2
      <3> QED BY <3>1, <3>2
    <2> HIDE DEF Keeps
    <2>5. ASSUME NEW d \in Servers, Restart(d) PROVE Keeps(s)
      BY <1>3, <2>4, <2>5, RestartStep
    <2>6. ASSUME NEW m \in informs, RestartAfterWrite(m) PROVE Keeps(s)
      <3>1. m.to \in Servers
        BY <1>3 DEF RestartInv, StateTypes, Informs
      <3> QED BY <1>3, <2>4, <2>6, <3>1, RestartStep
    <2> QED BY <1>3, <2>2, <2>3, <2>5, <2>6 DEF RestartNext
  <1>4. RestartInv /\ [RestartNext]_restartVars => [\A s \in Servers : Keeps(s)]_restartVars
    <2> HIDE DEF Keeps
    <2> QED BY <1>3
  <1>5. RestartInv /\ [RestartNext]_restartVars =>
          [\A s \in Servers :
             /\ informed[s] \subseteq informed'[s]
             /\ executed_cmd_seq'[s] < executed_cmd_seq[s] =>
                  Full(log_file'[s], {m.sequence : m \in informed'[s]})]_restartVars
    BY <1>4 DEF FileIsFull, InformedSlots
  <1> QED BY <1>1, <1>2, <1>5, PTL DEF RestartSpec, RestartKeeps
=============================================================================
