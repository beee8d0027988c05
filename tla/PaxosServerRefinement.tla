----------------------- MODULE PaxosServerRefinement -----------------------
(***************************************************************************)
(* The servers implement CommandLog, with and without restarts, for every  *)
(* number of servers and slots and every set of commands.                  *)
(***************************************************************************)
EXTENDS PaxosServerRestartProofs, SequenceTheorems

(* What both inductive invariants say: slots are filled in order, and a    *)
(* server was told of what it executed.                                    *)
ToldInv == StateTypes /\ SlotInv /\ ExecutedInv

(* The first n slots are decided, and the log is what was decided there.   *)
LogTo(n) ==
  /\ \A q \in Slots : chosen[q] # {} <=> q <= n
  /\ Log \in Seq(Commands) /\ Len(Log) = n
  /\ \A q \in 1 .. n : chosen[q] = {Log[q]}

(* The slots of 1 .. n whose command counts, and what they apply.          *)
Fresh(log, n) == {i \in 1 .. n : AtMostOnce => \A j \in 1 .. (i - 1) : log[j] # log[i]}

CommandsAt(log, slots) == [k \in DOMAIN slots |-> log[slots[k]]]

Effect(log, n) == CommandsAt(log, InOrder(Fresh(log, n)))

(* AppliedInv, in these terms.                                             *)
AppliedLog ==
  /\ applied = [s \in Servers |-> Effect(Log, executed_cmd_seq[s])]
  /\ \A s \in Servers :
       {r.value : r \in client_ops_to_response[s]} =
         IF AtMostOnce THEN {Log[q] : q \in 1 .. executed_cmd_seq[s]} ELSE {}

LogExists == \E n \in 0 .. MaxSequence : LogTo(n)

(* The abstract log puts slots in the same order, and counts the same.     *)
LEMMA EffectiveIs ==
  ASSUME NEW n
  PROVE  Abstract!Effective(n) = Effect(Log, n)
  <1>1. ASSUME NEW S PROVE Abstract!InOrder(S) = InOrder(S)
    <2>1. Abstract!Cardinality(S) = Cardinality(S)
      BY DEF Abstract!Cardinality, Cardinality
    <2> QED BY <2>1 DEF Abstract!InOrder, InOrder
  <1>2. Abstract!InOrder(Fresh(Log, n)) = InOrder(Fresh(Log, n))
    BY <1>1
  <1>3. Abstract!Effective(n) = CommandsAt(Log, Abstract!InOrder(Fresh(Log, n)))
    BY DEF Abstract!Effective, Fresh, CommandsAt
  <1> QED BY <1>2, <1>3 DEF Effect

LEMMA AppliedIs == AppliedInv <=> AppliedLog
  <1>1. [s \in Servers |-> Abstract!Effective(executed_cmd_seq[s])] =
        [s \in Servers |-> Effect(Log, executed_cmd_seq[s])]
    BY EffectiveIs
  <1> QED BY <1>1 DEF AppliedInv, AppliedLog

LEMMA ServersAreTold == ServerInv => ToldInv
  BY DEF ServerInv, InformedInv, ToldInv, ExecutedInv

(* The decided slots are those up to some slot, and the log is a sequence. *)
LEMMA LogIsSequence == StateTypes /\ SlotInv => LogExists
  <1> SUFFICES ASSUME StateTypes, SlotInv PROVE \E n \in 0 .. MaxSequence : LogTo(n)
    BY DEF LogExists
  <1>0. MaxSequence \in Nat
    BY BoundsAssumption
  <1>1. /\ chosen \in [Slots -> SUBSET Commands]
        /\ \A q \in Slots : chosen[q] = {} \/ \E v \in Commands : chosen[q] = {v}
        /\ \A q \in Slots : q # 1 /\ chosen[q] # {} => chosen[q - 1] # {}
    BY DEF StateTypes, SlotInv
  <1> DEFINE T == {q \in Nat : q >= 1 /\ (q \in Slots => chosen[q] = {})}
  <1>2. MaxSequence + 1 \in T
    BY <1>0 DEF Slots
  <1>3. PICK x \in T : \A y \in T : x <= y
    BY <1>2, LeastNumber
  <1> DEFINE n == x - 1
  <1>4. n \in 0 .. MaxSequence /\ x = n + 1
    BY <1>0, <1>2, <1>3
  <1>5. \A q \in Slots : q <= n => chosen[q] # {}
    <2> SUFFICES ASSUME NEW q \in Slots, q <= n PROVE chosen[q] # {}
      OBVIOUS
    <2>1. ~(x <= q) /\ q \in Nat /\ q >= 1
      BY <1>3, <1>4 DEF Slots
    <2> QED BY <1>3, <2>1
  <1>6. \A q \in Slots : chosen[q] # {} => q <= n
    <2> DEFINE U == {q \in Slots : chosen[q] # {} /\ q > n}
    <2> SUFFICES ASSUME U # {} PROVE FALSE
      BY <1>4 DEF Slots
    <2>1. U \subseteq Nat
      BY DEF Slots
    <2>2. PICK y \in U : \A z \in U : y <= z
      BY <2>1, LeastNumber
    <2>3. y \in Slots /\ chosen[y] # {} /\ y > n /\ y \in Nat
      BY <2>1
    <2>4. y # x
      BY <1>3, <2>3
    <2>5. y - 1 \in Slots /\ y - 1 > n /\ y # 1
      BY <1>0, <1>4, <2>3, <2>4 DEF Slots
    <2>6. y - 1 \in U
      BY <1>1, <2>3, <2>5
    <2> QED BY <2>2, <2>3, <2>6
  <1> HIDE DEF n, T
  <1>7. {q \in Slots : \A p \in 1 .. q : chosen[p] # {}} = 1 .. n
    <2>1. ASSUME NEW q \in Slots, \A p \in 1 .. q : chosen[p] # {} PROVE q \in 1 .. n
      <3>1. q \in 1 .. q
        BY DEF Slots
      <3> QED BY <1>4, <1>6, <2>1, <3>1 DEF Slots
    <2>2. ASSUME NEW q \in 1 .. n
          PROVE  q \in Slots /\ \A p \in 1 .. q : chosen[p] # {}
      BY <1>0, <1>4, <1>5 DEF Slots
    <2> QED BY <2>1, <2>2
  <1>8. Log = [q \in 1 .. n |-> CHOOSE v \in chosen[q] : TRUE]
    BY <1>7 DEF Log
  <1>9. ASSUME NEW q \in 1 .. n
        PROVE  Log[q] \in Commands /\ chosen[q] = {Log[q]}
    <2>1. q \in Slots /\ chosen[q] # {}
      BY <1>0, <1>4, <1>5 DEF Slots
    <2>2. PICK v \in Commands : chosen[q] = {v}
      BY <1>1, <2>1
    <2>3. Log[q] = CHOOSE w \in chosen[q] : TRUE
      BY <1>8
    <2>4. (CHOOSE w \in chosen[q] : TRUE) = v
      BY <2>2
    <2> QED BY <2>2, <2>3, <2>4
  <1>10. Log \in [1 .. n -> Commands]
    BY <1>8, <1>9
  <1>11. Log \in Seq(Commands) /\ Len(Log) = n
    BY <1>4, <1>10
  <1>12. \A q \in Slots : chosen[q] # {} <=> q <= n
    BY <1>5, <1>6
  <1> QED BY <1>4, <1>9, <1>11, <1>12 DEF LogTo

(* Every executed slot is in the log.                                      *)
LEMMA ExecutedIsInLog ==
  ASSUME ToldInv, NEW s \in Servers
  PROVE  /\ executed_cmd_seq[s] \in Nat /\ Len(Log) \in Nat
         /\ executed_cmd_seq[s] <= Len(Log)
  <1>0. StateTypes /\ SlotInv /\ ExecutedInv
    BY DEF ToldInv
  <1>1. PICK n \in 0 .. MaxSequence : LogTo(n)
    BY <1>0, LogIsSequence DEF LogExists
  <1>2. executed_cmd_seq[s] \in 0 .. MaxSequence /\ MaxSequence \in Nat
    BY <1>0, BoundsAssumption DEF StateTypes
  <1>3. CASE executed_cmd_seq[s] = 0
    BY <1>1, <1>3 DEF LogTo
  <1>4. CASE executed_cmd_seq[s] # 0
    <2> DEFINE e == executed_cmd_seq[s]
    <2>1. e \in 1 .. e /\ e \in Slots
      BY <1>2, <1>4 DEF Slots
    <2>2. PICK m \in informed[s] : m.sequence = e
      BY <1>0, <2>1 DEF ExecutedInv, InformedSlots
    <2>3. m \in informs
      BY <1>0 DEF ExecutedInv
    <2>4. chosen[e] # {}
      BY <1>0, <2>2, <2>3 DEF SlotInv
    <2> QED BY <1>1, <1>2, <2>1, <2>4 DEF LogTo
  <1> QED BY <1>3, <1>4

LEMMA FreshSlots ==
  ASSUME NEW log, NEW n \in Nat
  PROVE  Fresh(log, n) \in SUBSET (1 .. n) /\ InOrder(Fresh(log, n)) \in Seq(1 .. n)
  <1>1. Fresh(log, n) \in SUBSET (1 .. n)
    BY DEF Fresh
  <1> QED BY <1>1, InOrderIsSequence

LEMMA CommandsAtSlots ==
  ASSUME NEW log \in Seq(Commands), NEW f \in Seq(1 .. Len(log))
  PROVE  /\ CommandsAt(log, f) \in Seq(Commands)
         /\ Len(CommandsAt(log, f)) = Len(f)
         /\ \A i \in 1 .. Len(f) : CommandsAt(log, f)[i] = log[f[i]]
  <1>1. \A q \in 1 .. Len(log) : log[q] \in Commands
    OBVIOUS
  <1>2. DOMAIN f = 1 .. Len(f) /\ Len(f) \in Nat /\ \A i \in 1 .. Len(f) : f[i] \in 1 .. Len(log)
    OBVIOUS
  <1>3. CommandsAt(log, f) \in [1 .. Len(f) -> Commands]
    BY <1>1, <1>2 DEF CommandsAt
  <1> QED BY <1>2, <1>3 DEF CommandsAt

LEMMA CommandsAtConcat ==
  ASSUME NEW log \in Seq(Commands), NEW f \in Seq(1 .. Len(log)), NEW g \in Seq(1 .. Len(log))
  PROVE  CommandsAt(log, f \o g) = CommandsAt(log, f) \o CommandsAt(log, g)
  <1> DEFINE cf == CommandsAt(log, f)
             cg == CommandsAt(log, g)
             cfg == CommandsAt(log, f \o g)
  <1>1. /\ f \o g \in Seq(1 .. Len(log)) /\ Len(f \o g) = Len(f) + Len(g)
        /\ \A i \in 1 .. Len(f) + Len(g) :
             (f \o g)[i] = IF i <= Len(f) THEN f[i] ELSE g[i - Len(f)]
    BY ConcatProperties
  <1>2. /\ cf \in Seq(Commands) /\ Len(cf) = Len(f)
        /\ \A i \in 1 .. Len(f) : cf[i] = log[f[i]]
    BY CommandsAtSlots
  <1>3. /\ cg \in Seq(Commands) /\ Len(cg) = Len(g)
        /\ \A i \in 1 .. Len(g) : cg[i] = log[g[i]]
    BY CommandsAtSlots
  <1>4. /\ cfg \in Seq(Commands) /\ Len(cfg) = Len(f \o g)
        /\ \A i \in 1 .. Len(f \o g) : cfg[i] = log[(f \o g)[i]]
    BY <1>1, CommandsAtSlots
  <1> HIDE DEF cf, cg, cfg
  <1>5. /\ cf \o cg \in Seq(Commands) /\ Len(cf \o cg) = Len(cf) + Len(cg)
        /\ \A i \in 1 .. Len(cf) + Len(cg) :
             (cf \o cg)[i] = IF i <= Len(cf) THEN cf[i] ELSE cg[i - Len(cf)]
    <2>1. cf \in Seq(Commands) /\ cg \in Seq(Commands)
      BY <1>2, <1>3
    <2> QED BY <2>1, ConcatProperties
  <1>6. Len(f) \in Nat /\ Len(g) \in Nat
    OBVIOUS
  <1>7. ASSUME NEW i \in 1 .. Len(f) + Len(g)
        PROVE  cfg[i] = (cf \o cg)[i]
    <2>1. CASE i <= Len(f)
      <3>1. i \in 1 .. Len(f)
        BY <1>6, <2>1
      <3>2. (cf \o cg)[i] = cf[i]
        BY <1>2, <1>3, <1>5, <2>1
      <3>3. (f \o g)[i] = f[i]
        BY <1>1, <2>1
      <3>4. cfg[i] = log[(f \o g)[i]]
        BY <1>1, <1>4
      <3> QED BY <1>2, <3>1, <3>2, <3>3, <3>4
    <2>2. CASE ~(i <= Len(f))
      <3>1. i - Len(f) \in 1 .. Len(g)
        BY <1>6, <2>2
      <3>2. (cf \o cg)[i] = cg[i - Len(f)]
        BY <1>2, <1>3, <1>5, <2>2
      <3>3. (f \o g)[i] = g[i - Len(f)]
        BY <1>1, <2>2
      <3>4. cfg[i] = log[(f \o g)[i]]
        BY <1>1, <1>4
      <3> QED BY <1>3, <3>1, <3>2, <3>3, <3>4
    <2> QED BY <2>1, <2>2
  <1>8. cfg = cf \o cg
    BY <1>1, <1>2, <1>3, <1>4, <1>5, <1>7, SeqEqual
  <1> QED BY <1>8 DEF cf, cg, cfg

(* What the first slots apply are commands,                                *)
LEMMA EffectIsSequence ==
  ASSUME NEW log \in Seq(Commands), NEW n \in 0 .. Len(log)
  PROVE  Effect(log, n) \in Seq(Commands)
  <1>1. n \in Nat /\ 1 .. n \subseteq 1 .. Len(log)
    OBVIOUS
  <1>2. InOrder(Fresh(log, n)) \in Seq(1 .. Len(log))
    BY <1>1, FreshSlots, SeqMonotonic
  <1> QED BY <1>2, CommandsAtSlots DEF Effect

(* stay what they are while the log grows,                                 *)
LEMMA EffectIsStable ==
  ASSUME NEW log1, NEW log2, NEW n \in Nat, \A q \in 1 .. n : log2[q] = log1[q]
  PROVE  Effect(log2, n) = Effect(log1, n)
  <1>1. Fresh(log2, n) = Fresh(log1, n)
    <2> SUFFICES ASSUME NEW i \in 1 .. n
                 PROVE  (\A j \in 1 .. (i - 1) : log2[j] # log2[i]) <=>
                        (\A j \in 1 .. (i - 1) : log1[j] # log1[i])
      BY DEF Fresh
    <2>1. \A j \in 1 .. (i - 1) : j \in 1 .. n
      OBVIOUS
    <2> QED BY <2>1
  <1> DEFINE slots == InOrder(Fresh(log1, n))
  <1>2. slots \in Seq(1 .. n)
    BY FreshSlots
  <1> HIDE DEF slots
  <1>3. \A k \in DOMAIN slots : slots[k] \in 1 .. n
    BY <1>2
  <1>4. CommandsAt(log2, slots) = CommandsAt(log1, slots)
    BY <1>3 DEF CommandsAt
  <1> QED BY <1>1, <1>4 DEF slots, Effect

(* and grow at the end with what is executed next.                         *)
LEMMA EffectGrows ==
  ASSUME NEW log \in Seq(Commands), NEW n \in 0 .. Len(log), NEW e \in 0 .. n
  PROVE  Effect(log, n) =
           Effect(log, e) \o CommandsAt(log, InOrder({q \in Fresh(log, n) : q > e}))
  <1> DEFINE late == {q \in Fresh(log, n) : q > e}
             early == Fresh(log, e)
             f == InOrder(early)
             g == InOrder(late)
             k == Len(log)
  <1>1. /\ Fresh(log, n) = early \cup late
        /\ early \in SUBSET (1 .. k) /\ late \in SUBSET (1 .. k)
        /\ \A x \in early, y \in late : x < y
        /\ k \in Nat
    BY DEF Fresh
  <1> HIDE DEF late, early, k
  <1>2. InOrder(Fresh(log, n)) = InOrder(early) \o InOrder(late)
    BY <1>1, InOrderConcat
  <1>3. f \in Seq(1 .. k) /\ g \in Seq(1 .. k)
    BY <1>1, InOrderIsSequence
  <1> HIDE DEF f, g
  <1>4. CommandsAt(log, f \o g) = CommandsAt(log, f) \o CommandsAt(log, g)
    BY <1>3, CommandsAtConcat DEF k
  <1> QED BY <1>2, <1>4 DEF f, g, late, early, Effect

(* The commands that count are all there are.                              *)
LEMMA FreshCoversLog ==
  ASSUME AtMostOnce, NEW log, NEW n \in Nat
  PROVE  {log[q] : q \in Fresh(log, n)} = {log[q] : q \in 1 .. n}
  <1>1. Fresh(log, n) \subseteq 1 .. n
    BY DEF Fresh
  <1>2. ASSUME NEW q \in 1 .. n PROVE \E p \in Fresh(log, n) : log[p] = log[q]
    <2> DEFINE T == {p \in 1 .. n : log[p] = log[q]}
    <2>1. T \subseteq Nat /\ q \in T
      OBVIOUS
    <2>2. PICK p \in T : \A x \in T : p <= x
      BY <2>1, LeastNumber
    <2>3. \A j \in 1 .. (p - 1) : log[j] # log[p]
      <3> SUFFICES ASSUME NEW j \in 1 .. (p - 1), log[j] = log[p] PROVE FALSE
        OBVIOUS
      <3>1. j \in T /\ ~(p <= j)
        OBVIOUS
      <3> QED BY <2>2, <3>1
    <2>4. p \in Fresh(log, n)
      BY <2>3 DEF Fresh
    <2> QED BY <2>4
  <1> QED BY <1>1, <1>2

-----------------------------------------------------------------------------
(* What was told of a slot is what the log has there.                      *)
LEMMA ToldIsLogged ==
  ASSUME StateTypes, SlotInv, NEW n \in Nat, LogTo(n), NEW m \in informs
  PROVE  /\ m.sequence \in 1 .. n
         /\ m.value = Log[m.sequence]
  <1>1. m.sequence \in Slots /\ chosen[m.sequence] = {m.value}
    BY DEF StateTypes, Informs, SlotInv
  <1>2. m.sequence \in 1 .. n
    <2>1. chosen[m.sequence] # {} => m.sequence <= n
      BY <1>1 DEF LogTo
    <2>2. m.sequence \in Nat /\ m.sequence >= 1
      BY <1>1, BoundsAssumption DEF Slots
    <2>3. chosen[m.sequence] # {}
      BY <1>1
    <2> QED BY <2>1, <2>2, <2>3
  <1> QED BY <1>1, <1>2 DEF LogTo

(* An INFORM executes the next of the log: it applies of them what counts, *)
(* caches these commands, and answers from the cache.                      *)
LEMMA OnInformExecutes ==
  ASSUME ToldInv, AppliedLog, NEW m \in informs, OnInform(m)
  PROVE  \E n \in executed_cmd_seq[m.to] .. Len(Log) :
           /\ executed_cmd_seq' = [executed_cmd_seq EXCEPT ![m.to] = n]
           /\ applied' = [applied EXCEPT ![m.to] = Effect(Log, n)]
           /\ \A s \in Servers \ {m.to} :
                client_ops_to_response'[s] = client_ops_to_response[s]
           /\ {r.value : r \in client_ops_to_response'[m.to]} =
                IF AtMostOnce THEN {Log[q] : q \in 1 .. n} ELSE {}
           /\ \E mine : /\ responses' = responses \cup
                             {[from |-> m.to, sequence |-> r.sequence, value |-> r.value] :
                                r \in mine}
                        /\ \A r \in mine : \E q \in 1 .. n : r.value = Log[q]
                        /\ n = executed_cmd_seq[m.to] => mine = {}
  <1> DEFINE s        == m.to
             e        == executed_cmd_seq[s]
             heap     == cmd_min_set[s] \cup {m}
             turn     == Turn(s, heap)
             fresh    == {q \in turn : Applies(s, heap, turn, q)}
             first    == {CommandAt(heap, q) : q \in fresh}
             cache    == client_ops_to_response[s] \cup first
             answer(q) == IF q \in fresh THEN CommandAt(heap, q)
                          ELSE CHOOSE r \in cache : r.value = CommandAt(heap, q).value
             mine     == Own(s, {answer(q) : q \in turn})
             slots    == InOrder(fresh)
             filed    == IF AtMostOnce THEN cache ELSE client_ops_to_response[s]
  <1>0. StateTypes /\ SlotInv /\ ExecutedInv
    BY DEF ToldInv
  <1>1. /\ executed_cmd_seq' = [executed_cmd_seq EXCEPT ![s] = e + Cardinality(turn)]
        /\ client_ops_to_response' = [client_ops_to_response EXCEPT ![s] = filed]
        /\ applied' = [applied EXCEPT ![s] = applied[s] \o
             [k \in DOMAIN slots |-> CommandAt(heap, slots[k]).value]]
        /\ responses' = responses \cup
             {[from |-> s, sequence |-> r.sequence, value |-> r.value] : r \in mine}
    BY DEF OnInform
  <1>2. PICK l \in 0 .. MaxSequence : LogTo(l)
    BY <1>0, LogIsSequence DEF LogExists
  <1>3. /\ s \in Servers /\ MaxSequence \in Nat /\ l \in Nat /\ Len(Log) = l
        /\ executed_cmd_seq \in [Servers -> 0 .. MaxSequence]
        /\ client_ops_to_response \in [Servers -> SUBSET Informs]
        /\ e \in 0 .. MaxSequence /\ e <= l
    <2>1. /\ s \in Servers /\ executed_cmd_seq \in [Servers -> 0 .. MaxSequence]
          /\ client_ops_to_response \in [Servers -> SUBSET Informs]
      BY <1>0 DEF StateTypes, Informs
    <2>2. MaxSequence \in Nat /\ l \in Nat /\ Len(Log) = l
      BY <1>2, BoundsAssumption DEF LogTo
    <2> QED BY <2>1, <2>2, ExecutedIsInLog
  <1>4. \A c \in heap : c.value = Log[c.sequence] /\ c.sequence \in 1 .. l
    <2>1. heap \subseteq informs
      BY <1>0, <1>3 DEF ExecutedInv
    <2> QED BY <1>0, <1>2, <1>3, <2>1, ToldIsLogged
  <1>5. PICK n \in e .. MaxSequence : turn = (e + 1) .. n /\ Cardinality(turn) = n - e
    BY <1>3, TurnIsInterval
  <1>6. ASSUME NEW q \in turn
        PROVE  /\ CommandAt(heap, q).value = Log[q]
               /\ q \in 1 .. l
    <2>1. q \in (e + 1) .. q
      BY <1>3, <1>5
    <2>2. \E c \in heap : c.sequence = q
      BY <2>1 DEF Turn, Waits
    <2>3. CommandAt(heap, q) \in heap /\ CommandAt(heap, q).sequence = q
      BY <2>2 DEF CommandAt
    <2> QED BY <1>4, <2>3
  <1>7. n \in Nat /\ n <= l /\ n \in e .. l
    <2>1. CASE n = e
      BY <1>3, <2>1
    <2>2. CASE n # e
      <3>1. n \in turn
        BY <1>3, <1>5, <2>2
      <3>2. n \in 1 .. l
        BY <1>6, <3>1
      <3> HIDE DEF turn, e
      <3> QED BY <1>3, <1>5, <3>2
    <2> QED BY <2>1, <2>2
  <1>8. {r.value : r \in client_ops_to_response[s]} =
          IF AtMostOnce THEN {Log[q] : q \in 1 .. e} ELSE {}
    BY <1>3 DEF AppliedLog
  <1> HIDE DEF heap, turn, s, e
  <1>9. fresh = {q \in Fresh(Log, n) : q > e}
    <2>1. ASSUME NEW q \in turn
          PROVE  Applies(s, heap, turn, q) <=>
                   (AtMostOnce => \A j \in 1 .. (q - 1) : Log[j] # Log[q])
      <3>1. Applies(s, heap, turn, q) <=>
              (AtMostOnce => /\ \A r \in client_ops_to_response[s] : r.value # Log[q]
                             /\ \A p \in turn : p < q => Log[p] # Log[q])
        BY <1>6 DEF Applies
      <3>2. AtMostOnce => ((\A r \in client_ops_to_response[s] : r.value # Log[q]) <=>
                           (\A j \in 1 .. e : Log[j] # Log[q]))
        BY <1>8
      <3>3. /\ \A j \in 1 .. e : j \in 1 .. (q - 1)
            /\ \A j \in turn : j < q => j \in 1 .. (q - 1)
            /\ \A j \in 1 .. (q - 1) : j \in 1 .. e \/ (j \in turn /\ j < q)
        BY <1>3, <1>5, <1>7
      <3> QED BY <3>1, <3>2, <3>3
    <2>2. \A q : q \in turn <=> q \in 1 .. n /\ q > e
      BY <1>3, <1>5, <1>7
    <2> QED BY <2>1, <2>2 DEF Fresh
  <1>10. \A q \in fresh : CommandAt(heap, q).value = Log[q]
    BY <1>6
  <1>11. [k \in DOMAIN slots |-> CommandAt(heap, slots[k]).value] = CommandsAt(Log, slots)
    <2>1. fresh \in SUBSET (1 .. n)
      BY <1>7, <1>9 DEF Fresh
    <2> HIDE DEF fresh
    <2>2. slots \in [1 .. Cardinality(fresh) -> fresh]
      BY <1>7, <2>1, InOrderAscends DEF Ascends
    <2> HIDE DEF slots
    <2> QED BY <1>10, <2>2 DEF CommandsAt
  <1>12. applied' = [applied EXCEPT ![s] = Effect(Log, n)]
    <2>1. applied[s] = Effect(Log, e)
      BY <1>3 DEF AppliedLog, e
    <2>2. e \in 0 .. n /\ n \in 0 .. l
      BY <1>3, <1>7
    <2> HIDE DEF fresh
    <2>3. Log \in Seq(Commands) /\ n \in 0 .. Len(Log)
      BY <1>2, <1>3, <2>2 DEF LogTo
    <2>4. Effect(Log, n) = Effect(Log, e) \o CommandsAt(Log, InOrder(fresh))
      BY <1>9, <2>2, <2>3, EffectGrows
    <2> QED BY <1>1, <1>11, <2>1, <2>4
  <1>13. executed_cmd_seq' = [executed_cmd_seq EXCEPT ![s] = n]
    <2>1. e + Cardinality(turn) = n
      BY <1>3, <1>5, <1>7
    <2> QED BY <1>1, <2>1
  <1>14. AtMostOnce => {r.value : r \in cache} = {Log[q] : q \in 1 .. n}
    <2> SUFFICES ASSUME AtMostOnce
                 PROVE  {r.value : r \in cache} = {Log[q] : q \in 1 .. n}
      OBVIOUS
    <2>1. {r.value : r \in first} = {Log[q] : q \in fresh}
      BY <1>10
    <2>2. {r.value : r \in cache} = {Log[q] : q \in 1 .. e} \cup {Log[q] : q \in fresh}
      <3> HIDE DEF first, fresh
      <3> QED BY <1>8, <2>1
    <2>3. {Log[q] : q \in fresh} \subseteq {Log[q] : q \in 1 .. n}
      BY <1>9 DEF Fresh
    <2>4. {Log[q] : q \in 1 .. e} \subseteq {Log[q] : q \in 1 .. n}
      BY <1>3, <1>7
    <2>5. {Log[q] : q \in 1 .. n} = {Log[q] : q \in Fresh(Log, n)}
      BY <1>7, FreshCoversLog
    <2>6. ASSUME NEW q \in Fresh(Log, n) PROVE q \in 1 .. e \/ q \in fresh
      BY <1>3, <1>7, <1>9 DEF Fresh
    <2> QED BY <2>2, <2>3, <2>4, <2>5, <2>6
  <1>15. \A r \in cache : \E q \in 1 .. n : r.value = Log[q]
    <2>1. CASE AtMostOnce
      <3> HIDE DEF cache
      <3> QED BY <1>14, <2>1
    <2>2. CASE ~AtMostOnce
      <3>1. client_ops_to_response[s] = {}
        BY <1>8, <2>2
      <3>2. ASSUME NEW r \in first PROVE \E q \in 1 .. n : r.value = Log[q]
        <4>1. PICK q \in fresh : r = CommandAt(heap, q)
          OBVIOUS
        <4>2. q \in 1 .. n
          BY <1>9 DEF Fresh
        <4> QED BY <1>10, <4>1, <4>2
      <3> HIDE DEF first
      <3> QED BY <3>1, <3>2
    <2> QED BY <2>1, <2>2
  <1>16. ASSUME NEW q \in turn PROVE answer(q) \in cache
    <2>1. CASE q \in fresh
      BY <2>1
    <2>2. CASE q \notin fresh
      <3>1. turn \in SUBSET Nat
        BY <1>3, <1>5
      <3>2. \E r \in cache : r.value = CommandAt(heap, q).value
        BY <2>2, <3>1, AnswerIsCached
      <3>3. answer(q) = CHOOSE r \in cache : r.value = CommandAt(heap, q).value
        BY <2>2
      <3> HIDE DEF cache, answer
      <3> QED BY <3>2, <3>3
    <2> QED BY <2>1, <2>2
  <1>17. mine \subseteq cache
    <2> HIDE DEF answer, cache
    <2> QED BY <1>16 DEF Own
  <1>18. n = e => mine = {}
    <2> SUFFICES ASSUME n = e PROVE mine = {}
      OBVIOUS
    <2>1. turn = {}
      BY <1>3, <1>5
    <2> QED BY <2>1 DEF Own
  <1> HIDE DEF cache, mine, fresh, first, answer, slots
  <1>19. {r.value : r \in client_ops_to_response'[s]} =
           IF AtMostOnce THEN {Log[q] : q \in 1 .. n} ELSE {}
    <2>1. client_ops_to_response'[s] = filed
      BY <1>1, <1>3
    <2> QED BY <1>8, <1>14, <2>1
  <1>20. \A d \in Servers \ {s} : client_ops_to_response'[d] = client_ops_to_response[d]
    BY <1>1, <1>3
  <1>21. \A r \in mine : \E q \in 1 .. n : r.value = Log[q]
    BY <1>15, <1>17
  <1>22. n \in e .. Len(Log)
    BY <1>3, <1>7
  <1>23. responses' = responses \cup
           {[from |-> s, sequence |-> r.sequence, value |-> r.value] : r \in mine}
    BY <1>1
  <1> HIDE DEF heap, turn, filed
  <1> QED BY <1>12, <1>13, <1>18, <1>19, <1>20, <1>21, <1>22, <1>23, Zenon DEF s, e

-----------------------------------------------------------------------------
(* AppliedInv is about the servers that execute,                           *)
LEMMA ServerChangesOnly ==
  ASSUME ToldInv, AppliedLog, UNCHANGED chosen,
         NEW s \in Servers, NEW n \in 0 .. Len(Log),
         executed_cmd_seq' = [executed_cmd_seq EXCEPT ![s] = n],
         applied' = [applied EXCEPT ![s] = Effect(Log, n)],
         \A d \in Servers \ {s} : client_ops_to_response'[d] = client_ops_to_response[d],
         {r.value : r \in client_ops_to_response'[s]} =
           IF AtMostOnce THEN {Log[q] : q \in 1 .. n} ELSE {}
  PROVE  AppliedLog'
  <1>1. Log' = Log
    BY DEF Log
  <1>2. executed_cmd_seq \in [Servers -> 0 .. MaxSequence]
    BY DEF ToldInv, StateTypes
  <1>3. applied = [d \in Servers |-> Effect(Log, executed_cmd_seq[d])]
    BY DEF AppliedLog
  <1>4. ASSUME NEW d \in Servers
        PROVE  /\ applied'[d] = Effect(Log, executed_cmd_seq'[d])
               /\ {r.value : r \in client_ops_to_response'[d]} =
                    IF AtMostOnce THEN {Log[q] : q \in 1 .. executed_cmd_seq'[d]} ELSE {}
    <2>1. CASE d = s
      BY <1>2, <1>3, <2>1
    <2>2. CASE d # s
      BY <1>2, <1>3, <2>2 DEF AppliedLog
    <2> QED BY <2>1, <2>2
  <1>5. applied' = [d \in Servers |-> Effect(Log, executed_cmd_seq'[d])]
    BY <1>3, <1>4
  <1>6. applied' = [d \in Servers |-> Effect(Log', executed_cmd_seq'[d])]
    BY <1>1, <1>5
  <1>7. \A d \in Servers :
          {r.value : r \in client_ops_to_response'[d]} =
            IF AtMostOnce THEN {Log'[q] : q \in 1 .. executed_cmd_seq'[d]} ELSE {}
    BY <1>1, <1>4
  <1> QED BY <1>6, <1>7 DEF AppliedLog

(* and not about what the log has beyond what they executed.               *)
LEMMA LogChangesOnly ==
  ASSUME ToldInv, AppliedLog, \A q \in 1 .. Len(Log) : Log'[q] = Log[q],
         UNCHANGED <<executed_cmd_seq, applied, client_ops_to_response>>
  PROVE  AppliedLog'
  <1>1. ASSUME NEW s \in Servers
        PROVE  /\ Effect(Log', executed_cmd_seq[s]) = Effect(Log, executed_cmd_seq[s])
               /\ {Log'[q] : q \in 1 .. executed_cmd_seq[s]} =
                    {Log[q] : q \in 1 .. executed_cmd_seq[s]}
    <2>1. executed_cmd_seq[s] \in Nat /\ \A q \in 1 .. executed_cmd_seq[s] : Log'[q] = Log[q]
      BY ExecutedIsInLog
    <2> QED BY <2>1, EffectIsStable
  <1> QED BY <1>1 DEF AppliedLog

(* A decision is the next of the log.                                      *)
LEMMA ChooseAppends ==
  ASSUME StateTypes, SlotInv, NEW q \in Slots, Choose(q)
  PROVE  \E v \in Commands : /\ v \in UNION {proposed[p] : p \in Slots}
                             /\ Log' = Append(Log, v)
                             /\ \A p \in 1 .. Len(Log) : Log'[p] = Log[p]
  <1>1. StateTypes' /\ SlotInv'
    BY ChooseKeepsSlots
  <1>2. PICK n \in 0 .. MaxSequence : LogTo(n)
    BY LogIsSequence DEF LogExists
  <1>3. PICK k \in 0 .. MaxSequence : LogTo(k)'
    <2>1. StateTypes' /\ SlotInv' => LogExists'
      BY LogIsSequence, PTL
    <2> QED BY <1>1, <2>1 DEF LogExists
  <1>4. PICK v \in proposed[q] : chosen' = [chosen EXCEPT ![q] = {v}]
    BY DEF Choose
  <1>5. /\ v \in Commands /\ chosen[q] = {} /\ chosen \in [Slots -> SUBSET Commands]
        /\ chosen'[q] = {v} /\ \A p \in Slots \ {q} : chosen'[p] = chosen[p]
    BY <1>4 DEF Choose, StateTypes
  <1>6. /\ \A p \in Slots : chosen[p] # {} <=> p <= n
        /\ Log \in Seq(Commands) /\ Len(Log) = n
        /\ \A p \in 1 .. n : chosen[p] = {Log[p]}
    BY <1>2 DEF LogTo
  <1>7. /\ \A p \in Slots : chosen'[p] # {} <=> p <= k
        /\ Log' \in Seq(Commands) /\ Len(Log') = k
        /\ \A p \in 1 .. k : chosen'[p] = {Log'[p]}
    BY <1>3 DEF LogTo
  <1>8. MaxSequence \in Nat /\ n \in Nat /\ k \in Nat /\ q \in Nat /\ q >= 1
    BY BoundsAssumption DEF Slots
  <1>9. q = n + 1
    <2>1. ~(q <= n)
      BY <1>5, <1>6
    <2>2. q # 1 => chosen[q - 1] # {} /\ q - 1 \in Slots
      BY <1>4, <1>8 DEF SlotInv, Slots
    <2>3. q # 1 => q - 1 <= n
      BY <1>6, <2>2
    <2> QED BY <1>8, <2>1, <2>3
  <1>10. k = n + 1
    <2>1. q <= k
      BY <1>5, <1>7
    <2>2. k \in Slots
      BY <1>8, <1>9, <2>1 DEF Slots
    <2>3. k # q => k <= n
      BY <1>5, <1>6, <1>7, <1>8, <2>2
    <2> QED BY <1>8, <1>9, <2>1, <2>3
  <1>11. ASSUME NEW p \in 1 .. n PROVE Log'[p] = Log[p]
    <2>1. p \in Slots /\ p # q /\ p \in 1 .. k
      BY <1>8, <1>9, <1>10 DEF Slots
    <2>2. {Log'[p]} = {Log[p]}
      BY <1>5, <1>6, <1>7, <2>1
    <2> QED BY <2>2
  <1>12. Log'[n + 1] = v
    <2>1. {Log'[n + 1]} = {v}
      BY <1>5, <1>7, <1>8, <1>9, <1>10
    <2> QED BY <2>1
  <1>13. Log' = Append(Log, v)
    <2> DEFINE a == Append(Log, v)
    <2>1. a \in Seq(Commands) /\ Len(a) = n + 1 /\ a[n + 1] = v /\ \A p \in 1 .. n : a[p] = Log[p]
      BY <1>5, <1>6
    <2> HIDE DEF a
    <2>2. \A p \in 1 .. (n + 1) : Log'[p] = a[p]
      BY <1>8, <1>11, <1>12, <2>1
    <2>3. Log' = a
      BY <1>7, <1>10, <2>1, <2>2, SeqEqual
    <2> QED BY <2>3 DEF a
  <1> QED BY <1>4, <1>5, <1>6, <1>11, <1>13

-----------------------------------------------------------------------------
LEMMA NothingHasNoEffect ==
  ASSUME NEW log
  PROVE  Effect(log, 0) = << >>
  <1>1. Fresh(log, 0) = {} /\ Cardinality({}) = 0
    BY FS_EmptySet DEF Fresh
  <1>2. Ascends(InOrder({}), {})
    BY InOrderAscends
  <1>3. InOrder({}) \in [1 .. 0 -> {}]
    BY <1>1, <1>2 DEF Ascends
  <1>4. CommandsAt(log, InOrder({})) \in [1 .. 0 -> {}]
    BY <1>3 DEF CommandsAt
  <1>5. CommandsAt(log, InOrder({})) \in Seq({}) /\ Len(CommandsAt(log, InOrder({}))) = 0
    BY <1>4
  <1> QED BY <1>1, <1>5, EmptySeq DEF Effect

(* In the beginning nothing is decided.                                    *)
LEMMA AbstractInitially ==
  ASSUME Init, StateTypes, SlotInv
  PROVE  Abstract!Init /\ AppliedLog
  <1> USE DEF Init
  <1>1. PICK n \in 0 .. MaxSequence : LogTo(n)
    BY LogIsSequence DEF LogExists
  <1>2. n = 0
    <2> SUFFICES ASSUME n # 0 PROVE FALSE
      OBVIOUS
    <2>1. n \in Slots
      BY BoundsAssumption DEF Slots
    <2> QED BY <1>1, <2>1, BoundsAssumption DEF LogTo
  <1>3. Log = << >>
    BY <1>1, <1>2, EmptySeq DEF LogTo
  <1>4. UNION {proposed[q] : q \in Slots} = {}
    OBVIOUS
  <1>5. {<<r.from, r.value>> : r \in responses} = {}
    OBVIOUS
  <1>6. Abstract!Init
    BY <1>3, <1>4, <1>5 DEF Abstract!Init
  <1>7. \A s \in Servers : Effect(Log, executed_cmd_seq[s]) = << >>
    BY NothingHasNoEffect
  <1>8. applied = [s \in Servers |-> Effect(Log, executed_cmd_seq[s])]
    BY <1>7
  <1>9. ASSUME NEW s \in Servers
        PROVE  {r.value : r \in client_ops_to_response[s]} =
                 IF AtMostOnce THEN {Log[q] : q \in 1 .. executed_cmd_seq[s]} ELSE {}
    OBVIOUS
  <1> QED BY <1>6, <1>8, <1>9 DEF AppliedLog

(* A step of a server, as the abstract log sees it.                        *)
AbstractStep == Abstract!Next \/ UNCHANGED Abstract!vars

LEMMA ChooseDecides ==
  ASSUME ToldInv, AppliedLog, NEW q \in Slots, Choose(q)
  PROVE  AbstractStep /\ AppliedLog'
  <1>1. PICK v \in Commands : /\ v \in UNION {proposed[p] : p \in Slots}
                              /\ Log' = Append(Log, v)
                              /\ \A p \in 1 .. Len(Log) : Log'[p] = Log[p]
    BY ChooseAppends DEF ToldInv
  <1>2. UNCHANGED <<proposed, executed_cmd_seq, applied, client_ops_to_response, responses>>
    BY DEF Choose, serverVars, netVars
  <1>3. Abstract!Decide(v)
    BY <1>1, <1>2 DEF Abstract!Decide
  <1>4. AppliedLog'
    BY <1>1, <1>2, LogChangesOnly
  <1> QED BY <1>1, <1>3, <1>4 DEF AbstractStep, Abstract!Next

(* What neither decides nor executes nor submits.                          *)
LEMMA NothingHappens ==
  ASSUME ToldInv, AppliedLog,
         UNCHANGED <<proposed, chosen, executed_cmd_seq, applied, client_ops_to_response, responses>>
  PROVE  UNCHANGED Abstract!vars /\ AppliedLog'
  <1>1. Log' = Log
    BY DEF Log
  <1>2. AppliedLog'
    BY <1>1, LogChangesOnly
  <1> QED BY <1>1, <1>2 DEF Abstract!vars

LEMMA PlaceSubmits ==
  ASSUME ToldInv, AppliedLog, NEW s \in Servers, NEW v \in Commands, NEW expected,
         Place(s, v, expected)
  PROVE  AbstractStep /\ AppliedLog'
  <1>1. UNCHANGED <<chosen, executed_cmd_seq, applied, client_ops_to_response, responses>>
    BY DEF Place
  <1>2. Log' = Log
    BY <1>1 DEF Log
  <1>3. AppliedLog'
    BY <1>1, <1>2, LogChangesOnly
  <1>4. CASE UNCHANGED proposed
    BY <1>1, <1>4, NothingHappens DEF AbstractStep
  <1>5. CASE proposed' = [proposed EXCEPT ![SubmitSequence(s)] = proposed[SubmitSequence(s)] \cup {v}]
    <2> DEFINE q == SubmitSequence(s)
    <2>1. q \in Slots /\ proposed \in [Slots -> SUBSET Commands]
      BY DEF Place, ToldInv, StateTypes
    <2> HIDE DEF q
    <2>2. proposed' = [proposed EXCEPT ![q] = proposed[q] \cup {v}]
      BY <1>5 DEF q
    <2>3. /\ proposed'[q] = proposed[q] \cup {v}
          /\ \A p \in Slots \ {q} : proposed'[p] = proposed[p]
      BY <2>1, <2>2
    <2>4. UNION {proposed'[p] : p \in Slots} = (UNION {proposed[p] : p \in Slots}) \cup {v}
      <3>1. \A x : x \in UNION {proposed'[p] : p \in Slots} <=> \E p \in Slots : x \in proposed'[p]
        OBVIOUS
      <3>2. \A x : x \in UNION {proposed[p] : p \in Slots} <=> \E p \in Slots : x \in proposed[p]
        OBVIOUS
      <3>3. \A x : (\E p \in Slots : x \in proposed'[p]) <=>
                     (\E p \in Slots : x \in proposed[p]) \/ x = v
        BY <2>1, <2>3
      <3> QED BY <3>1, <3>2, <3>3
    <2>5. /\ (UNION {proposed[p] : p \in Slots})' = (UNION {proposed[p] : p \in Slots}) \cup {v}
          /\ {<<r.from, r.value>> : r \in responses}' = {<<r.from, r.value>> : r \in responses}
      BY <1>1, <2>4
    <2>6. Abstract!Submit(v)
      BY <1>1, <1>2, <2>5 DEF Abstract!Submit
    <2> QED BY <1>3, <2>6 DEF AbstractStep, Abstract!Next
  <1>6. UNCHANGED proposed \/
        proposed' = [proposed EXCEPT ![SubmitSequence(s)] = proposed[SubmitSequence(s)] \cup {v}]
    BY DEF Place
  <1> QED BY <1>4, <1>5, <1>6

LEMMA OthersAbstractly ==
  ASSUME ToldInv, AppliedLog, Others \/ UNCHANGED vars
  PROVE  AbstractStep /\ AppliedLog'
  <1>1. ASSUME NEW q \in Slots, Choose(q) PROVE AbstractStep /\ AppliedLog'
    BY <1>1, ChooseDecides
  <1>2. ASSUME NEW s \in Servers, NEW q \in Slots, NEW reached \in SUBSET Servers,
               LearnMajority(s, q, reached)
        PROVE  AbstractStep /\ AppliedLog'
    BY <1>2, NothingHappens DEF LearnMajority, serverVars, AbstractStep
  <1>3. ASSUME NEW b \in Servers, NEW s \in Servers, NEW q \in Slots, InformOutdated(b, s, q)
        PROVE  AbstractStep /\ AppliedLog'
    BY <1>3, NothingHappens DEF InformOutdated, slotVars, serverVars, AbstractStep
  <1>4. ASSUME NEW s \in Servers, NEW v \in Commands, Submit(s, v)
        PROVE  AbstractStep /\ AppliedLog'
    BY <1>4, PlaceSubmits DEF Submit
  <1>5. ASSUME NEW s \in Servers, NEW r \in postponed[s], Resubmit(s, r)
        PROVE  AbstractStep /\ AppliedLog'
    <2>1. r.value \in Commands
      BY DEF ToldInv, StateTypes
    <2> QED BY <1>5, <2>1, PlaceSubmits DEF Resubmit
  <1>6. ASSUME UNCHANGED vars PROVE AbstractStep /\ AppliedLog'
    BY <1>6, NothingHappens DEF vars, slotVars, serverVars, netVars, AbstractStep
  <1> QED BY <1>1, <1>2, <1>3, <1>4, <1>5, <1>6 DEF Others

(* An INFORM executes the log up to some slot, or waits.                   *)
LEMMA OnInformAbstractly ==
  ASSUME ToldInv, AppliedLog, NEW m \in informs, OnInform(m)
  PROVE  AbstractStep /\ AppliedLog'
  <1> DEFINE s == m.to
             e == executed_cmd_seq[s]
  <1>1. PICK n \in e .. Len(Log) :
           /\ executed_cmd_seq' = [executed_cmd_seq EXCEPT ![s] = n]
           /\ applied' = [applied EXCEPT ![s] = Effect(Log, n)]
           /\ \A d \in Servers \ {s} : client_ops_to_response'[d] = client_ops_to_response[d]
           /\ {r.value : r \in client_ops_to_response'[s]} =
                IF AtMostOnce THEN {Log[q] : q \in 1 .. n} ELSE {}
           /\ \E mine : /\ responses' = responses \cup
                             {[from |-> s, sequence |-> r.sequence, value |-> r.value] : r \in mine}
                        /\ \A r \in mine : \E q \in 1 .. n : r.value = Log[q]
                        /\ n = e => mine = {}
    BY OnInformExecutes
  <1>2. PICK mine :
          /\ responses' = responses \cup
               {[from |-> s, sequence |-> r.sequence, value |-> r.value] : r \in mine}
          /\ \A r \in mine : \E q \in 1 .. n : r.value = Log[q]
          /\ n = e => mine = {}
    BY <1>1
  <1>3. s \in Servers /\ UNCHANGED <<proposed, chosen>> /\ Log' = Log
    <2>1. m \in Informs
      BY Zenon DEF ToldInv, StateTypes
    <2>2. UNCHANGED <<proposed, chosen>>
      BY DEF OnInform
    <2>3. Log' = Log
      BY <2>2 DEF Log
    <2> QED BY <2>1, <2>2, <2>3 DEF Informs
  <1>4. e \in Nat /\ Len(Log) \in Nat /\ n \in 0 .. Len(Log)
    <2>1. e \in Nat /\ Len(Log) \in Nat
      BY <1>3, ExecutedIsInLog
    <2> HIDE DEF e
    <2> QED BY <2>1
  <1>5. AppliedLog'
    BY <1>1, <1>3, <1>4, ServerChangesOnly
  <1> HIDE DEF s
  <1>6. CASE n = e
    <2>1. executed_cmd_seq' = executed_cmd_seq
      BY <1>1, <1>3, <1>6 DEF ToldInv, StateTypes
    <2>2. applied' = applied
      <3>1. applied[s] = Effect(Log, n) /\ applied = [d \in Servers |-> applied[d]]
        BY <1>3, <1>6 DEF AppliedLog
      <3> QED BY <1>1, <3>1
    <2>3. responses' = responses
      BY <1>2, <1>6
    <2> QED BY <1>3, <1>5, <2>1, <2>2, <2>3 DEF AbstractStep, Abstract!vars
  <1>7. CASE n # e
    <2> DEFINE cs == {r.value : r \in mine}
               answers == {<<r.from, r.value>> : r \in responses}
    <2>1. n \in (e + 1) .. Len(Log)
      <3> HIDE DEF e
      <3> QED BY <1>4, <1>7
    <2>2. cs \in SUBSET {Log[i] : i \in 1 .. n}
      BY <1>2
    <2>3. {<<r.from, r.value>> : r \in responses'} = answers \cup ({s} \X cs)
      <3> DEFINE sent == {[from |-> s, sequence |-> r.sequence, value |-> r.value] : r \in mine}
      <3>1. {<<r.from, r.value>> : r \in sent} = {s} \X cs
        <4>1. ASSUME NEW r \in sent PROVE r.from = s /\ r.value \in cs
          OBVIOUS
        <4>2. ASSUME NEW c \in cs PROVE \E r \in sent : r.from = s /\ r.value = c
          <5>1. PICK r \in mine : r.value = c
            OBVIOUS
          <5>2. [from |-> s, sequence |-> r.sequence, value |-> r.value] \in sent
            OBVIOUS
          <5> QED BY <5>1, <5>2
        <4> HIDE DEF sent, cs
        <4> QED BY <4>1, <4>2
      <3>2. responses' = responses \cup sent
        BY <1>2
      <3> HIDE DEF sent, cs
      <3> QED BY <3>1, <3>2
    <2> HIDE DEF cs, answers
    <2>4. \E sent \in SUBSET {Log[i] : i \in 1 .. n} :
            {<<r.from, r.value>> : r \in responses}' =
              {<<r.from, r.value>> : r \in responses} \cup ({s} \X sent)
      BY <2>2, <2>3 DEF answers
    <2>5. applied' = [applied EXCEPT ![s] = Abstract!Effective(n)]
      BY <1>1, EffectiveIs
    <2>6. Abstract!Execute(s, n)
      <3>1. /\ executed_cmd_seq' = [executed_cmd_seq EXCEPT ![s] = n]
            /\ (UNION {proposed[q] : q \in Slots})' = UNION {proposed[q] : q \in Slots}
            /\ Log' = Log
        BY <1>1, <1>3
      <3> QED BY <2>4, <2>5, <3>1 DEF Abstract!Execute
    <2>7. Abstract!Next
      BY <1>3, <2>1, <2>6 DEF Abstract!Next, e
    <2> QED BY <1>5, <2>7 DEF AbstractStep
  <1> QED BY <1>6, <1>7

-----------------------------------------------------------------------------
(* A replay executes the log up to the first hole of the file, further     *)
(* than before or not at all.                                              *)
LEMMA StartAgainReplays ==
  ASSUME RestartInv, AppliedLog, NEW s \in Servers, NEW f \in [items : Nat, known : Nat],
         NEW known \in SUBSET {m \in informs : m.to = s},
         informed[s] \subseteq known, \A m \in known : m.sequence < f.items,
         StartAgain(s, f, known)
  PROVE  \E n \in {0} \cup executed_cmd_seq[s] .. Len(Log) :
           /\ n \in 0 .. Len(Log)
           /\ executed_cmd_seq' = [executed_cmd_seq EXCEPT ![s] = n]
           /\ applied' = [applied EXCEPT ![s] = Effect(Log, n)]
           /\ \A d \in Servers \ {s} :
                client_ops_to_response'[d] = client_ops_to_response[d]
           /\ {r.value : r \in client_ops_to_response'[s]} =
                IF AtMostOnce THEN {Log[q] : q \in 1 .. n} ELSE {}
  <1> DEFINE written == {m.sequence : m \in known}
             n == MinSequence(f, written)
             e == executed_cmd_seq[s]
             fresh == Replays(known, n)
             slots == InOrder(fresh)
             cached == {[CommandAt(known, q) EXCEPT !.responsible_server_id = 0] :
                          q \in IF AtMostOnce THEN fresh ELSE {}}
  <1>0. StateTypes /\ SlotInv /\ ExecutedInv /\ ToldInv
    BY DEF RestartInv, ToldInv
  <1>1. known \subseteq Informs /\ \A m \in known : m.sequence \in Slots
    BY <1>0 DEF StateTypes, Informs
  <1>2. {m \in known : m.sequence \in ReadFrom(f)} = known
    BY <1>1 DEF ReadFrom, Slots
  <1>3. /\ executed_cmd_seq' = [executed_cmd_seq EXCEPT ![s] = n]
        /\ client_ops_to_response' = [client_ops_to_response EXCEPT ![s] = cached]
        /\ applied' = [applied EXCEPT ![s] =
             [k \in DOMAIN slots |-> CommandAt(known, slots[k]).value]]
    BY <1>2 DEF StartAgain
  <1>4. /\ n \in 0 .. MaxSequence /\ MaxSequence \in Nat
        /\ \A q \in 1 .. n : q \in written
        /\ n = 0 \/ e <= n
    <2>1. written \in SUBSET Slots /\ \A q \in written : q < f.items
      BY <1>1
    <2>2. e \in Nat /\ \A q \in 1 .. e : q \in written
      BY <1>0 DEF StateTypes, ExecutedInv, InformedSlots
    <2> HIDE DEF written, e
    <2>3. /\ n \in 0 .. MaxSequence
          /\ \A q \in 1 .. n : q \in written
          /\ Full(f, written) \/ e <= n
      BY <2>1, <2>2, MinSequenceBounds
    <2>4. Full(f, written) => n = 0
      BY DEF Full, MinSequence
    <2> QED BY <2>3, <2>4, BoundsAssumption
  <1> HIDE DEF n
  <1>5. PICK l \in 0 .. MaxSequence : LogTo(l)
    BY <1>0, LogIsSequence DEF LogExists
  <1>6. l \in Nat /\ n \in Nat /\ Len(Log) = l /\ Log \in Seq(Commands)
    BY <1>4, <1>5 DEF LogTo
  <1>7. ASSUME NEW q \in 1 .. n
        PROVE  CommandAt(known, q).value = Log[q] /\ q \in 1 .. l
    <2>1. \E c \in known : c.sequence = q
      BY <1>4
    <2>2. CommandAt(known, q) \in known /\ CommandAt(known, q).sequence = q
      BY <2>1 DEF CommandAt
    <2>3. CommandAt(known, q) \in informs
      BY <2>2
    <2> QED BY <1>0, <1>5, <1>6, <2>2, <2>3, ToldIsLogged
  <1>8. n \in 0 .. l
    <2>1. CASE n = 0
      BY <1>6, <2>1
    <2>2. CASE n # 0
      <3>1. n \in 1 .. n
        BY <1>6, <2>2
      <3> QED BY <1>6, <1>7, <3>1
    <2> QED BY <2>1, <2>2
  <1>9. fresh = Fresh(Log, n)
    <2> SUFFICES ASSUME NEW q \in 1 .. n
                 PROVE  (\A p \in 1 .. (q - 1) :
                           CommandAt(known, p).value # CommandAt(known, q).value) <=>
                        (\A p \in 1 .. (q - 1) : Log[p] # Log[q])
      BY DEF Replays, Fresh
    <2>1. \A p \in 1 .. (q - 1) : p \in 1 .. n
      BY <1>6
    <2> QED BY <1>7, <2>1
  <1> HIDE DEF fresh
  <1>10. \A q \in fresh : q \in 1 .. n
    BY <1>9 DEF Fresh
  <1>11. [k \in DOMAIN slots |-> CommandAt(known, slots[k]).value] = Effect(Log, n)
    <2>1. slots \in [1 .. Cardinality(fresh) -> fresh]
      BY <1>6, <1>9, <1>10, InOrderAscends DEF Ascends
    <2> HIDE DEF slots
    <2>2. [k \in DOMAIN slots |-> CommandAt(known, slots[k]).value] = CommandsAt(Log, slots)
      BY <1>7, <1>10, <2>1 DEF CommandsAt
    <2> QED BY <1>9, <2>2 DEF Effect, slots
  <1>12. {r.value : r \in cached} = IF AtMostOnce THEN {Log[q] : q \in 1 .. n} ELSE {}
    <2>1. CASE ~AtMostOnce
      BY <2>1
    <2>2. CASE AtMostOnce
      <3>1. ASSUME NEW q \in fresh
            PROVE  [CommandAt(known, q) EXCEPT !.responsible_server_id = 0].value = Log[q]
        <4>1. q \in 1 .. n
          BY <1>10
        <4>2. \E c \in known : c.sequence = q
          BY <1>4, <4>1
        <4>3. CommandAt(known, q) \in Informs
          BY <1>1, <4>2 DEF CommandAt
        <4> QED BY <1>7, <4>1, <4>3 DEF Informs
      <3>2. {r.value : r \in cached} = {Log[q] : q \in fresh}
        <4> DEFINE entry(q) == [CommandAt(known, q) EXCEPT !.responsible_server_id = 0]
        <4>1. cached = {entry(q) : q \in fresh}
          BY <2>2
        <4>2. \A q \in fresh : entry(q).value = Log[q]
          BY <3>1
        <4> HIDE DEF entry, cached
        <4> QED BY <4>1, <4>2
      <3>3. {Log[q] : q \in fresh} = {Log[q] : q \in 1 .. n}
        BY <1>6, <1>9, <2>2, FreshCoversLog
      <3> QED BY <2>2, <3>2, <3>3
    <2> QED BY <2>1, <2>2
  <1> HIDE DEF cached
  <1>13. /\ \A d \in Servers \ {s} : client_ops_to_response'[d] = client_ops_to_response[d]
         /\ client_ops_to_response'[s] = cached
    BY <1>0, <1>3 DEF StateTypes
  <1>14. n \in {0} \cup e .. l
    <2>1. e \in Nat
      BY <1>0 DEF StateTypes
    <2> HIDE DEF e
    <2> QED BY <1>4, <1>6, <1>8, <2>1
  <1> QED BY <1>3, <1>6, <1>8, <1>11, <1>12, <1>13, <1>14

(* To the abstract log, a server that starts again recovers.               *)
RecoverStep ==
  \E s \in Servers : \E n \in {0} \cup executed_cmd_seq[s] .. Len(Log) : Abstract!Recover(s, n)

LEMMA RestartRecovers ==
  ASSUME RestartInv, AppliedLog, NEW s \in Servers,
         NEW m, \/ Restart(s)
                \/ m \in informs /\ m.to = s /\ RestartAfterWrite(m)
  PROVE  RecoverStep /\ AppliedLog'
  <1>1. PICK f \in [items : Nat, known : Nat], known \in SUBSET {k \in informs : k.to = s} :
          /\ informed[s] \subseteq known
          /\ \A k \in known : k.sequence < f.items
          /\ StartAgain(s, f, known)
    BY StartsFrom
  <1>2. PICK n \in {0} \cup executed_cmd_seq[s] .. Len(Log) :
           /\ n \in 0 .. Len(Log)
           /\ executed_cmd_seq' = [executed_cmd_seq EXCEPT ![s] = n]
           /\ applied' = [applied EXCEPT ![s] = Effect(Log, n)]
           /\ \A d \in Servers \ {s} :
                client_ops_to_response'[d] = client_ops_to_response[d]
           /\ {r.value : r \in client_ops_to_response'[s]} =
                IF AtMostOnce THEN {Log[q] : q \in 1 .. n} ELSE {}
    BY <1>1, StartAgainReplays
  <1>3. UNCHANGED <<proposed, chosen, responses>>
    BY <1>1 DEF StartAgain, netVars
  <1>4. AppliedLog'
    BY <1>2, <1>3, ServerChangesOnly DEF RestartInv, ToldInv
  <1>5. Abstract!Recover(s, n)
    <2>1. applied' = [applied EXCEPT ![s] = Abstract!Effective(n)]
      BY <1>2, EffectiveIs
    <2>2. /\ (UNION {proposed[q] : q \in Slots})' = UNION {proposed[q] : q \in Slots}
          /\ Log' = Log
          /\ {<<r.from, r.value>> : r \in responses}' = {<<r.from, r.value>> : r \in responses}
      BY <1>3 DEF Log
    <2>3. executed_cmd_seq' = [executed_cmd_seq EXCEPT ![s] = n]
      BY <1>2
    <2> QED BY <2>1, <2>2, <2>3 DEF Abstract!Recover
  <1> QED BY <1>2, <1>4, <1>5 DEF RecoverStep

LEMMA NextAbstractly ==
  ASSUME ServerInv, AppliedLog, [Next]_vars
  PROVE  AbstractStep /\ AppliedLog'
  <1>1. ToldInv
    BY ServersAreTold
  <1>2. CASE \E m \in informs : OnInform(m)
    BY <1>1, <1>2, OnInformAbstractly
  <1>3. CASE Others \/ UNCHANGED vars
    BY <1>1, <1>3, OthersAbstractly
  <1> QED BY <1>2, <1>3 DEF Next, Others

LEMMA RestartNextAbstractly ==
  ASSUME RestartInv, AppliedLog, [RestartNext]_restartVars
  PROVE  (AbstractStep \/ RecoverStep) /\ AppliedLog'
  <1>1. ToldInv
    BY DEF RestartInv, ToldInv
  <1>2. CASE Others \/ UNCHANGED vars
    BY <1>1, <1>2, OthersAbstractly
  <1>3. ASSUME NEW m \in informs, LoggedInform(m)
        PROVE  AbstractStep /\ AppliedLog'
    BY <1>1, <1>3, OnInformAbstractly DEF LoggedInform
  <1>4. ASSUME NEW s \in Servers, Restart(s) PROVE RecoverStep /\ AppliedLog'
    BY <1>4, RestartRecovers
  <1>5. ASSUME NEW m \in informs, RestartAfterWrite(m) PROVE RecoverStep /\ AppliedLog'
    <2>1. m.to \in Servers
      BY DEF RestartInv, StateTypes, Informs
    <2> QED BY <1>5, <2>1, RestartRecovers
  <1> QED BY <1>2, <1>3, <1>4, <1>5 DEF RestartNext, restartVars

-----------------------------------------------------------------------------
(* Every server has applied the prefix of the log that it executed, each   *)
(* client operation once with at_most_once, and its cache knows exactly    *)
(* these commands (server.cpp:245, server.cpp:361).                        *)
THEOREM AppliedInvariance == Spec => []AppliedInv
  <1>1. Init => ServerInv /\ AppliedLog
    <2> SUFFICES ASSUME Init PROVE ServerInv /\ AppliedLog
      OBVIOUS
    <2>1. ServerInv
      BY Initial
    <2> QED BY <2>1, AbstractInitially DEF ServerInv
  <1>2. ServerInv /\ AppliedLog /\ [Next]_vars => AppliedLog'
    BY NextAbstractly
  <1>3. AppliedLog <=> AppliedInv
    BY AppliedIs
  <1> QED BY <1>1, <1>2, <1>3, Invariance, PTL DEF Spec

(* The type invariant, with the state machine's log of commands, which     *)
(* needs AppliedInv.                                                       *)
THEOREM Types == Spec => []TypeOK
  <1>1. ASSUME ServerInv, AppliedInv PROVE TypeOK
    <2>1. StateTypes /\ SlotInv /\ ToldInv
      BY <1>1, ServersAreTold DEF ServerInv
    <2>2. PICK n \in 0 .. MaxSequence : LogTo(n)
      BY <2>1, LogIsSequence DEF LogExists
    <2>3. ASSUME NEW s \in Servers
          PROVE  Effect(Log, executed_cmd_seq[s]) \in Seq(Commands)
      <3>1. executed_cmd_seq[s] \in 0 .. Len(Log) /\ Log \in Seq(Commands)
        BY <2>1, <2>2, ExecutedIsInLog DEF LogTo
      <3> QED BY <3>1, EffectIsSequence
    <2>4. applied = [s \in Servers |-> Effect(Log, executed_cmd_seq[s])]
      BY <1>1, AppliedIs DEF AppliedLog
    <2> QED BY <2>1, <2>3, <2>4 DEF TypeOK
  <1> QED BY <1>1, Invariance, AppliedInvariance, PTL

(* The servers implement one log of commands: however SUBMITs and INFORMs  *)
(* are lost, repeated and reordered, every server applies a prefix of it   *)
(* in order, once per operation with at_most_once, and answers only about  *)
(* what it has executed (server.cpp:245, server.cpp:361, server.cpp:386).  *)
THEOREM LogImplementation == Spec => ImplementsCommandLog
  <1>1. Init => Abstract!Init
    <2> SUFFICES ASSUME Init PROVE Abstract!Init
      OBVIOUS
    <2>1. ServerInv
      BY Initial
    <2> QED BY <2>1, AbstractInitially DEF ServerInv
  <1>2. ServerInv /\ AppliedInv /\ [Next]_vars => [Abstract!Next]_(Abstract!vars)
    BY NextAbstractly, AppliedIs DEF AbstractStep
  <1> QED BY <1>1, <1>2, Invariance, AppliedInvariance, PTL DEF Spec, ImplementsCommandLog, Abstract!Spec

(* AppliedInv also holds when servers stop at any moment and replay their  *)
(* learner's log, which rebuilds the cache too (server.cpp:438).           *)
THEOREM AppliedInvarianceAfterRestarts == RestartSpec => []AppliedInv
  <1>1. RestartInit => RestartInv /\ AppliedLog
    <2> SUFFICES ASSUME RestartInit PROVE RestartInv /\ AppliedLog
      OBVIOUS
    <2>1. RestartInv
      BY RestartInitial
    <2> QED BY <2>1, AbstractInitially DEF RestartInv, RestartInit
  <1>2. RestartInv /\ [RestartNext]_restartVars => RestartInv'
    BY RestartNextPreserves
  <1>3. RestartInv /\ AppliedLog /\ [RestartNext]_restartVars => AppliedLog'
    BY RestartNextAbstractly
  <1>4. AppliedLog <=> AppliedInv
    BY AppliedIs
  <1> QED BY <1>1, <1>2, <1>3, <1>4, PTL DEF RestartSpec

(* The servers implement the log of commands also with restarts: a replay  *)
(* executes the log further than before, or not at all, and never applies  *)
(* a command out of order, or twice with at_most_once (server.cpp:432).    *)
THEOREM RestartLogImplementation == RestartSpec => RestartImplementsCommandLog
  <1>1. RestartInit => Abstract!Init /\ RestartInv
    <2> SUFFICES ASSUME RestartInit PROVE Abstract!Init /\ RestartInv
      OBVIOUS
    <2>1. RestartInv
      BY RestartInitial
    <2> QED BY <2>1, AbstractInitially DEF RestartInv, RestartInit
  <1>2. RestartInv /\ [RestartNext]_restartVars => RestartInv'
    BY RestartNextPreserves
  <1>3. RestartInv /\ AppliedInv /\ [RestartNext]_restartVars =>
          [Abstract!Next \/
             \E s \in Servers : \E n \in {0} \cup executed_cmd_seq[s] .. Len(Log) :
               Abstract!Recover(s, n)]_(Abstract!vars)
    BY RestartNextAbstractly, AppliedIs DEF AbstractStep, RecoverStep
  <1> QED BY <1>1, <1>2, <1>3, AppliedInvarianceAfterRestarts, PTL
          DEF RestartSpec, RestartImplementsCommandLog, Abstract!RestartSpec

-----------------------------------------------------------------------------
(* The slots.                                                              *)

(* A step that touches neither proposals nor decisions nor INFORMs.        *)
LEMMA SlotsUnseen ==
  ASSUME UNCHANGED <<slotVars, informs>>, NEW q \in Slots
  PROVE  UNCHANGED Slot(q)!vars
BY DEF slotVars, Slot!vars, PreparedFor, LearnedOf, ToldOf, InformsOf

LEMMA SlotsInit == Init => \A q \in Slots : Slot(q)!Init
BY DEF Init, Slot!Init, PreparedFor, LearnedOf, ToldOf, InformsOf

LEMMA RefusesIs ==
  ASSUME NEW q \in Slots, NEW s \in Servers
  PROVE  Slot(q)!Refuses(s) <=> Refuses(s, q)
<1>1. ToldOf(q)[s] # {} <=> q \in InformedSlots(s)
  BY DEF ToldOf, InformedSlots
<1>2. s \in LearnedOf(q) <=> q \in learned_majority[s]
  BY DEF LearnedOf
<1>3. QED  BY <1>1, <1>2 DEF Slot!Refuses, Refuses

(* A submission is seen at the slot that it is placed in.                  *)
LEMMA PlaceUsesSlots ==
  ASSUME StateTypes, NEW q \in Slots, NEW s \in Servers, NEW v \in Commands,
         NEW expected, Place(s, v, expected)
  PROVE  [Slot(q)!Next]_(Slot(q)!vars)
<1> DEFINE p == SubmitSequence(s)
<1>1. UNCHANGED <<chosen, learned_majority, informed, informs>> /\ p \in Slots
  BY DEF Place
<1>2. UNCHANGED <<chosen[q], LearnedOf(q), ToldOf(q), InformsOf(q)>>
  BY <1>1 DEF LearnedOf, ToldOf, InformsOf
<1>3. CASE Refuses(s, p) \/ p # q
  <2>1. UNCHANGED <<PreparedFor(q), proposed[q]>>
    <3>1. CASE UNCHANGED <<prepared, proposed>>
      BY <3>1 DEF PreparedFor
    <3>2. CASE /\ p # q
               /\ prepared' = [prepared EXCEPT ![s] = @ \cup {p}]
               /\ proposed' = [proposed EXCEPT ![p] = @ \cup {v}]
      BY <3>2 DEF PreparedFor, StateTypes
    <3>3. QED  BY <1>3, <3>1, <3>2 DEF Place
  <2>2. QED  BY <1>2, <2>1 DEF Slot!vars
<1>4. CASE ~Refuses(s, p) /\ p = q
  <2>1. /\ prepared' = [prepared EXCEPT ![s] = @ \cup {q}]
        /\ proposed' = [proposed EXCEPT ![q] = @ \cup {v}]
    BY <1>4 DEF Place
  <2>2. proposed[q]' = proposed[q] \cup {v} /\ PreparedFor(q)' = PreparedFor(q) \cup {s}
    BY <2>1 DEF PreparedFor, StateTypes
  <2>3. ~Slot(q)!Refuses(s)
    BY <1>4, RefusesIs
  <2>4. Slot(q)!Propose(s, v)
    BY <1>2, <2>2, <2>3 DEF Slot!Propose
  <2>5. QED  BY <2>4 DEF Slot!Next
<1>5. QED  BY <1>3, <1>4

LEMMA ChooseUsesSlots ==
  ASSUME StateTypes, NEW q \in Slots, NEW p \in Slots, Choose(p)
  PROVE  [Slot(q)!Next]_(Slot(q)!vars)
<1>1. PICK v \in proposed[p] : chosen' = [chosen EXCEPT ![p] = {v}]
  BY DEF Choose
<1>2. /\ v \in Commands /\ chosen[p] = {}
      /\ UNCHANGED <<proposed[q], PreparedFor(q), LearnedOf(q), ToldOf(q), InformsOf(q)>>
  BY DEF Choose, StateTypes, PreparedFor, LearnedOf, ToldOf, InformsOf, netVars
<1>3. CASE p = q
  <2>1. chosen'[q] = {v}
    BY <1>1, <1>3 DEF StateTypes
  <2>2. Slot(q)!Choose(v)
    BY <1>1, <1>2, <1>3, <2>1 DEF Slot!Choose
  <2>3. QED  BY <1>2, <2>2 DEF Slot!Next
<1>4. CASE p # q
  <2>1. chosen'[q] = chosen[q]
    BY <1>1, <1>4 DEF StateTypes
  <2>2. QED  BY <1>2, <2>1 DEF Slot!vars
<1>5. QED  BY <1>3, <1>4

(* What is told of a slot is what was chosen for it.                       *)
LEMMA ToldIsChosen ==
  ASSUME StateTypes, SlotInv, NEW s \in Servers, NEW q \in Slots,
         NEW known \in SUBSET informs
  PROVE  LET told == {m.value : m \in {k \in known : k.sequence = q}} IN
         told # {} => told = chosen[q]
BY DEF SlotInv, StateTypes

(* More INFORMs for slot p. *)
LEMMA MoreInforms ==
  ASSUME StateTypes, SlotInv, NEW q \in Slots, NEW p \in Slots, chosen[p] # {},
         NEW r \in Servers, NEW reached \in SUBSET Servers,
         informs' = informs \cup {Inform(d, p, r) : d \in reached}
  PROVE  InformsOf(q)' = IF p = q THEN InformsOf(q) \cup Slot(q)!Informing(reached, chosen[q])
                                  ELSE InformsOf(q)
<1>1. PICK v : chosen[p] = {v}
  BY DEF SlotInv
<1>2. \A d \in reached : /\ Inform(d, p, r).sequence = p
                         /\ Inform(d, p, r).to = d
                         /\ Inform(d, p, r).value = v
  BY <1>1, InformTells
<1> DEFINE new == {Inform(d, p, r) : d \in reached}
<1>3. \A m \in new : m.sequence = p /\ m.to \in reached /\ m.value = v
  BY <1>2
<1>4. \A d \in reached : \E m \in new : m.to = d /\ m.value = v
  BY <1>2
<1>5. CASE p # q
  <2> HIDE DEF new
  <2>1. {k \in informs' : k.sequence = q} = {k \in informs : k.sequence = q}
    BY <1>3, <1>5 DEF new
  <2>2. QED  BY <1>5, <2>1 DEF InformsOf
<1>6. CASE p = q
  <2>1. InformsOf(q)' = InformsOf(q) \cup {[to |-> m.to, value |-> m.value] : m \in new}
    <3>1. informs' = informs \cup new
      OBVIOUS
    <3> HIDE DEF new
    <3>2. QED  BY <1>3, <1>6, <3>1 DEF InformsOf
  <2>2. {[to |-> m.to, value |-> m.value] : m \in new} = {[to |-> d, value |-> v] : d \in reached}
    <3> HIDE DEF new
    <3>1. QED  BY <1>3, <1>4
  <2>3. Slot(q)!Informing(reached, chosen[q]) = {[to |-> d, value |-> v] : d \in reached}
    BY <1>1, <1>6 DEF Slot!Informing
  <2>4. QED  BY <1>6, <2>1, <2>2, <2>3
<1>7. QED  BY <1>5, <1>6

LEMMA LearnMajorityUsesSlots ==
  ASSUME StateTypes, SlotInv, NEW q \in Slots, NEW s \in Servers, NEW p \in Slots,
         NEW reached \in SUBSET Servers, LearnMajority(s, p, reached)
  PROVE  [Slot(q)!Next]_(Slot(q)!vars)
<1>1. /\ UNCHANGED <<PreparedFor(q), proposed[q], chosen[q], ToldOf(q)>>
      /\ chosen[p] # {} /\ ~Refuses(s, p) /\ s \in PreparedFor(p)
  BY DEF LearnMajority, PreparedFor, ToldOf
<1>2. InformsOf(q)' = IF p = q THEN InformsOf(q) \cup Slot(q)!Informing(reached, chosen[q])
                               ELSE InformsOf(q)
  BY <1>1, MoreInforms DEF LearnMajority
<1>3. LearnedOf(q)' = IF p = q THEN LearnedOf(q) \cup {s} ELSE LearnedOf(q)
  BY DEF LearnMajority, LearnedOf, StateTypes
<1>4. CASE p = q
  <2>1. ~Slot(q)!Refuses(s)
    BY <1>1, <1>4, RefusesIs
  <2>2. Slot(q)!LearnMajority(s, reached)
    BY <1>1, <1>2, <1>3, <1>4, <2>1 DEF Slot!LearnMajority
  <2>3. QED  BY <2>2 DEF Slot!Next
<1>5. CASE p # q
  BY <1>1, <1>2, <1>3, <1>5 DEF Slot!vars
<1>6. QED  BY <1>4, <1>5

LEMMA InformOutdatedUsesSlots ==
  ASSUME StateTypes, SlotInv, NEW q \in Slots, NEW b \in Servers, NEW s \in Servers,
         NEW p \in Slots, informed[b] \subseteq informs, InformOutdated(b, s, p)
  PROVE  [Slot(q)!Next]_(Slot(q)!vars)
<1>1. /\ UNCHANGED <<PreparedFor(q), proposed[q], chosen[q], ToldOf(q), LearnedOf(q)>>
      /\ s \in PreparedFor(p)
  BY DEF InformOutdated, slotVars, PreparedFor, ToldOf, LearnedOf
<1>2. PICK m \in informed[b] : m.sequence = p
  BY DEF InformOutdated, KnowsDecision, InformedSlots
<1>3. chosen[p] = {m.value}
  BY <1>2 DEF SlotInv
<1>4. InformsOf(q)' = IF p = q THEN InformsOf(q) \cup Slot(q)!Informing({s}, chosen[q])
                               ELSE InformsOf(q)
  <2>1. informs' = informs \cup {Inform(d, p, s) : d \in {s}}
    BY DEF InformOutdated
  <2>2. QED  BY <1>3, <2>1, MoreInforms
<1>5. CASE p = q
  <2>1. ToldOf(q)[b] = chosen[q]
    <3>1. ToldOf(q)[b] # {}
      BY <1>2, <1>5 DEF ToldOf
    <3>2. QED  BY <3>1, ToldIsChosen DEF ToldOf
  <2>2. Slot(q)!InformOutdated(b, s)
    BY <1>1, <1>3, <1>4, <1>5, <2>1 DEF Slot!InformOutdated
  <2>3. QED  BY <2>2 DEF Slot!Next
<1>6. CASE p # q
  BY <1>1, <1>4, <1>6 DEF Slot!vars
<1>7. QED  BY <1>5, <1>6

LEMMA OnInformUsesSlots ==
  ASSUME StateTypes, NEW q \in Slots, NEW m \in informs, OnInform(m)
  PROVE  [Slot(q)!Next]_(Slot(q)!vars)
<1>1. m.to \in Servers
  <2>1. m \in Informs
    BY Zenon DEF StateTypes
  <2>2. QED  BY <2>1 DEF Informs
<1>2. /\ m.sequence \notin InformedSlots(m.to)
      /\ informed' = [informed EXCEPT ![m.to] = @ \cup {m}]
      /\ UNCHANGED <<PreparedFor(q), proposed[q], chosen[q], LearnedOf(q), InformsOf(q)>>
  BY DEF OnInform, PreparedFor, LearnedOf, InformsOf
<1>3. CASE m.sequence = q
  <2> DEFINE i == [to |-> m.to, value |-> m.value]
  <2>1. i \in InformsOf(q)
    BY <1>3 DEF InformsOf
  <2>2. ToldOf(q)[m.to] = {}
    BY <1>1, <1>2, <1>3 DEF ToldOf, InformedSlots
  <2>3. ToldOf(q)' = [ToldOf(q) EXCEPT ![m.to] = {m.value}]
    <3>1. /\ informed'[m.to] = informed[m.to] \cup {m}
          /\ \A d \in Servers \ {m.to} : informed'[d] = informed[d]
      BY <1>1, <1>2 DEF StateTypes
    <3>2. {k \in informed'[m.to] : k.sequence = q} = {m}
      BY <1>2, <1>3, <3>1 DEF InformedSlots
    <3>3. {k.value : k \in {k \in informed'[m.to] : k.sequence = q}} = {m.value}
      BY <3>2
    <3>4. QED  BY <1>1, <3>1, <3>3 DEF ToldOf
  <2>4. Slot(q)!OnInform(i)
    BY <1>2, <2>2, <2>3 DEF Slot!OnInform
  <2>5. QED  BY <2>1, <2>4 DEF Slot!Next
<1>4. CASE m.sequence # q
  <2>1. ToldOf(q)' = ToldOf(q)
    BY <1>1, <1>2, <1>4 DEF ToldOf, StateTypes
  <2>2. QED  BY <1>2, <2>1 DEF Slot!vars
<1>5. QED  BY <1>3, <1>4

(* A server that starts again forgets the majorities that it only heard of *)
(* and is told of no slot anything but what was chosen.                    *)
LEMMA StartAgainUsesSlots ==
  ASSUME RestartInv, NEW q \in Slots, NEW s \in Servers,
         NEW m, \/ Restart(s)
                \/ m \in informs /\ m.to = s /\ RestartAfterWrite(m)
  PROVE  Slot(q)!RestartNext
<1>1. StateTypes /\ SlotInv /\ ExecutedInv
  BY DEF RestartInv
<1>2. PICK f \in [items : Nat, known : Nat], known \in SUBSET {k \in informs : k.to = s} :
        /\ informed[s] \subseteq known
        /\ \A k \in known : k.sequence < f.items
        /\ StartAgain(s, f, known)
  BY StartsFrom
<1>3. {k \in known : k.sequence \in ReadFrom(f)} = known
  BY <1>1, <1>2 DEF ReadFrom, StateTypes, Informs, Slots
<1>4. /\ informed' = [informed EXCEPT ![s] = known]
      /\ learned_majority' = [learned_majority EXCEPT ![s] = {k.sequence : k \in known}]
      /\ UNCHANGED <<PreparedFor(q), proposed[q], chosen[q], InformsOf(q)>>
  BY <1>2, <1>3 DEF StartAgain, netVars, PreparedFor, InformsOf
<1> DEFINE slot == {k \in known : k.sequence = q}
<1>5. PICK told \in SUBSET Commands : told = {k.value : k \in slot}
  <2>1. \A k \in slot : k.value \in Commands
    BY <1>1 DEF StateTypes, Informs
  <2> HIDE DEF slot
  <2>2. {k.value : k \in slot} \in SUBSET Commands
    BY <2>1
  <2>3. QED  BY <2>2
<1>6. ToldOf(q)' = [ToldOf(q) EXCEPT ![s] = told]
  <2>1. /\ informed'[s] = known
        /\ \A d \in Servers \ {s} : informed'[d] = informed[d]
    BY <1>1, <1>4 DEF StateTypes
  <2>2. QED  BY <1>5, <2>1 DEF ToldOf
<1>7. told # {} => told = chosen[q]
  BY <1>1, <1>2, <1>5, ToldIsChosen
<1>8. \/ told = ToldOf(q)[s]
      \/ ToldOf(q)[s] = {} /\ \E i \in InformsOf(q) : i.to = s /\ told = {i.value}
  <2>1. ToldOf(q)[s] # {} => ToldOf(q)[s] = chosen[q]
    <3>1. informed[s] \in SUBSET informs
      BY <1>1 DEF ExecutedInv
    <3>2. QED  BY <1>1, <3>1, ToldIsChosen DEF ToldOf
  <2>2. CASE ToldOf(q)[s] # {}
    <3>1. PICK k \in informed[s] : k.sequence = q
      BY <2>2 DEF ToldOf
    <3>2. told # {}
      BY <1>2, <1>5, <3>1
    <3>3. QED  BY <1>7, <2>1, <2>2, <3>2
  <2>3. CASE ToldOf(q)[s] = {} /\ told # {}
    <3>1. PICK k \in slot : k.value \in told
      BY <1>5, <2>3
    <3>2. told = {k.value}
      BY <1>1, <1>2, <1>7, <2>3, <3>1 DEF SlotInv
    <3>3. [to |-> k.to, value |-> k.value] \in InformsOf(q) /\ k.to = s
      BY <1>2, <3>1 DEF InformsOf
    <3>4. QED  BY <2>3, <3>2, <3>3
  <2>4. QED  BY <2>2, <2>3
<1>9. LearnedOf(q)' = IF told = {} THEN LearnedOf(q) \ {s} ELSE LearnedOf(q) \cup {s}
  <2>1. told = {} <=> q \notin {k.sequence : k \in known}
    BY <1>5
  <2>2. /\ learned_majority'[s] = {k.sequence : k \in known}
        /\ \A d \in Servers \ {s} : learned_majority'[d] = learned_majority[d]
    BY <1>1, <1>4 DEF StateTypes
  <2>3. QED  BY <2>1, <2>2 DEF LearnedOf
<1>10. Slot(q)!StartAgain(s, told)
  BY <1>4, <1>6, <1>8, <1>9 DEF Slot!StartAgain
<1>11. QED  BY <1>10 DEF Slot!RestartNext

-----------------------------------------------------------------------------
LEMMA OthersUseSlots ==
  ASSUME StateTypes, SlotInv, \A s \in Servers : informed[s] \subseteq informs,
         Others, NEW q \in Slots
  PROVE  [Slot(q)!Next]_(Slot(q)!vars)
<1>1. CASE \E p \in Slots : Choose(p)
  BY <1>1, ChooseUsesSlots
<1>2. CASE \E s \in Servers, p \in Slots, reached \in SUBSET Servers :
             LearnMajority(s, p, reached)
  BY <1>2, LearnMajorityUsesSlots
<1>3. CASE \E b, s \in Servers, p \in Slots : InformOutdated(b, s, p)
  BY <1>3, InformOutdatedUsesSlots
<1>4. CASE \E s \in Servers, v \in Commands : Submit(s, v)
  BY <1>4, PlaceUsesSlots DEF Submit
<1>5. CASE \E s \in Servers : \E r \in postponed[s] : Resubmit(s, r)
  <2>1. PICK s \in Servers : \E r \in postponed[s] : Resubmit(s, r)
    BY <1>5
  <2>2. PICK r \in postponed[s] : Resubmit(s, r)
    BY <2>1
  <2>3. r.value \in Commands
    BY DEF StateTypes
  <2>4. QED  BY <2>2, <2>3, PlaceUsesSlots DEF Resubmit
<1>6. QED  BY <1>1, <1>2, <1>3, <1>4, <1>5 DEF Others

(* The servers use every slot as the interface lets them that the Paxos    *)
(* instance implements: no round for a slot that a server knows, no result *)
(* but the one told by an INFORM (server.cpp:115, server.cpp:164).         *)
THEOREM SlotUse == Spec => UsesSlots
<1>1. Init => \A q \in Slots : Slot(q)!Init
  BY SlotsInit
<1>2. ASSUME ServerInv, [Next]_vars, NEW q \in Slots
      PROVE  [Slot(q)!Next]_(Slot(q)!vars)
  <2>1. StateTypes /\ SlotInv /\ \A s \in Servers : informed[s] \subseteq informs
    BY <1>2 DEF ServerInv, InformedInv
  <2>2. CASE Others
    BY <2>1, <2>2, OthersUseSlots
  <2>3. CASE \E m \in informs : OnInform(m)
    BY <2>1, <2>3, OnInformUsesSlots
  <2>4. CASE UNCHANGED vars
    BY <2>4, SlotsUnseen DEF vars, netVars
  <2>5. QED  BY <1>2, <2>2, <2>3, <2>4 DEF Next, Others
<1>3. ServerInv /\ [Next]_vars => [\A q \in Slots : UNCHANGED Slot(q)!vars \/ Slot(q)!Next]_vars
  BY <1>2
<1>4. QED  BY <1>1, <1>3, Invariance, PTL DEF Spec, UsesSlots

(* The same of servers that start again, over instances that do.           *)
THEOREM RestartSlotUse == RestartSpec => RestartUsesSlots
<1>1. RestartInit => RestartInv /\ \A q \in Slots : Slot(q)!Init
  BY RestartInitial, SlotsInit DEF RestartInit
<1>2. RestartInv /\ [RestartNext]_restartVars => RestartInv'
  BY RestartNextPreserves
<1>3. ASSUME RestartInv, [RestartNext]_restartVars, NEW q \in Slots
      PROVE  [Slot(q)!RestartNext]_(Slot(q)!vars)
  <2>1. StateTypes /\ SlotInv /\ \A s \in Servers : informed[s] \subseteq informs
    BY <1>3 DEF RestartInv, ExecutedInv
  <2>2. CASE Others
    BY <2>1, <2>2, OthersUseSlots DEF Slot!RestartNext
  <2>3. CASE \E m \in informs : LoggedInform(m)
    BY <2>1, <2>3, OnInformUsesSlots DEF LoggedInform, Slot!RestartNext
  <2>4. ASSUME NEW s \in Servers, Restart(s)
        PROVE  Slot(q)!RestartNext
    BY <1>3, <2>4, StartAgainUsesSlots
  <2>5. ASSUME NEW m \in informs, RestartAfterWrite(m)
        PROVE  Slot(q)!RestartNext
    <3>1. m.to \in Servers
      BY <2>1 DEF StateTypes, Informs
    <3>2. QED  BY <1>3, <2>5, <3>1, StartAgainUsesSlots
  <2>6. CASE UNCHANGED vars
    BY <2>6, SlotsUnseen DEF vars, netVars
  <2>7. QED
    BY <1>3, <2>2, <2>3, <2>4, <2>5, <2>6 DEF RestartNext, restartVars
<1>4. RestartInv /\ [RestartNext]_restartVars =>
        [\A q \in Slots : UNCHANGED Slot(q)!vars \/ Slot(q)!RestartNext]_restartVars
  BY <1>3
<1>5. QED  BY <1>1, <1>2, <1>4, PTL DEF RestartSpec, RestartUsesSlots

(* The views of all the slots together are the whole. *)
LEMMA ViewsDetermine ==
  ASSUME NEW f \in [Servers -> SUBSET Slots], NEW g \in [Servers -> SUBSET Slots],
         \A p \in Slots : {s \in Servers : p \in f[s]} = {s \in Servers : p \in g[s]}
  PROVE  f = g
<1>1. \A s \in Servers : f[s] = g[s]
  OBVIOUS
<1>2. QED  BY <1>1

(* Conversely, what the interface lets a slot do of its own accord, while  *)
(* no server proposes or is informed, the slots of PaxosServer do: they    *)
(* are not tamer than the instance, which has the interface too.           *)
THEOREM SlotsAreAdmitted ==
  ASSUME StateTypes, StateTypes', NEW q \in Slots,
         \A p \in Slots \ {q} : UNCHANGED Slot(p)!vars,
         UNCHANGED <<informed, serverVars, submissions, responses>>
  PROVE  /\ \A v \in Commands :
              Slot(q)!Choose(v) /\ UNCHANGED informs => Choose(q)
         /\ \A s \in Servers, reached \in SUBSET Servers :
              running[s] /\ Slot(q)!LearnMajority(s, reached)
                /\ informs' = informs \cup {Inform(d, q, s) : d \in reached}
                  => LearnMajority(s, q, reached)
         /\ \A b, s \in Servers :
              running[b] /\ Slot(q)!InformOutdated(b, s)
                /\ informs' = informs \cup {Inform(s, q, s)}
                  => InformOutdated(b, s, q)
<1>1. ASSUME UNCHANGED PreparedFor(q)
      PROVE  UNCHANGED prepared
  <2>1. \A p \in Slots : PreparedFor(p)' = PreparedFor(p)
    BY <1>1 DEF Slot!vars
  <2>2. QED  BY <2>1, ViewsDetermine DEF PreparedFor, StateTypes
<1>2. ASSUME UNCHANGED LearnedOf(q)
      PROVE  UNCHANGED learned_majority
  <2>1. \A p \in Slots : LearnedOf(p)' = LearnedOf(p)
    BY <1>2 DEF Slot!vars
  <2>2. QED  BY <2>1, ViewsDetermine DEF LearnedOf, StateTypes
<1>3. ASSUME proposed'[q] = proposed[q]
      PROVE  UNCHANGED proposed
  BY <1>3 DEF Slot!vars, StateTypes
<1>4. ASSUME NEW new, chosen'[q] = new
      PROVE  chosen' = [chosen EXCEPT ![q] = new]
  BY <1>4 DEF Slot!vars, StateTypes
<1>5. ASSUME NEW v \in Commands, Slot(q)!Choose(v), UNCHANGED informs
      PROVE  Choose(q)
  <2>1. /\ chosen[q] = {} /\ v \in proposed[q] /\ chosen'[q] = {v}
        /\ UNCHANGED <<PreparedFor(q), LearnedOf(q), proposed[q]>>
    BY <1>5 DEF Slot!Choose
  <2>2. QED  BY <1>1, <1>2, <1>3, <1>4, <1>5, <2>1 DEF Choose, netVars
<1>6. ASSUME NEW s \in Servers, NEW reached \in SUBSET Servers,
             running[s], Slot(q)!LearnMajority(s, reached),
             informs' = informs \cup {Inform(d, q, s) : d \in reached}
      PROVE  LearnMajority(s, q, reached)
  <2>1. /\ s \in PreparedFor(q) /\ chosen[q] # {} /\ ~Slot(q)!Refuses(s)
        /\ LearnedOf(q)' = LearnedOf(q) \cup {s}
        /\ UNCHANGED <<PreparedFor(q), proposed[q], chosen[q]>>
    BY <1>6 DEF Slot!LearnMajority
  <2>2. q \in prepared[s] /\ ~Refuses(s, q)
    BY <2>1, RefusesIs DEF PreparedFor
  <2>3. UNCHANGED <<prepared, proposed, chosen>>
    <3>1. chosen' = [chosen EXCEPT ![q] = chosen[q]]
      BY <1>4, <2>1
    <3>2. QED  BY <1>1, <1>3, <2>1, <3>1 DEF StateTypes
  <2>4. learned_majority' = [learned_majority EXCEPT ![s] = @ \cup {q}]
    <3> DEFINE learned == [learned_majority EXCEPT ![s] = @ \cup {q}]
    <3>1. learned \in [Servers -> SUBSET Slots] /\ learned_majority' \in [Servers -> SUBSET Slots]
      BY DEF StateTypes
    <3>2. ASSUME NEW p \in Slots
          PROVE  {d \in Servers : p \in learned_majority'[d]} = {d \in Servers : p \in learned[d]}
      <4>1. CASE p = q
        BY <2>1, <4>1 DEF LearnedOf, StateTypes
      <4>2. CASE p # q
        <5>1. LearnedOf(p)' = LearnedOf(p)
          BY <4>2 DEF Slot!vars
        <5>2. QED  BY <4>2, <5>1 DEF LearnedOf, StateTypes
      <4>3. QED  BY <4>1, <4>2
    <3> HIDE DEF learned
    <3>3. learned_majority' = learned
      BY <3>1, <3>2, ViewsDetermine
    <3>4. QED  BY <3>3 DEF learned
  <2>5. QED  BY <1>6, <2>1, <2>2, <2>3, <2>4 DEF LearnMajority
<1>7. ASSUME NEW b \in Servers, NEW s \in Servers, running[b],
             Slot(q)!InformOutdated(b, s), informs' = informs \cup {Inform(s, q, s)}
      PROVE  InformOutdated(b, s, q)
  <2>1. /\ ToldOf(q)[b] # {} /\ s \in PreparedFor(q)
        /\ UNCHANGED <<PreparedFor(q), proposed[q], chosen[q], LearnedOf(q)>>
    BY <1>7 DEF Slot!InformOutdated
  <2>2. KnowsDecision(b, q) /\ q \in prepared[s]
    BY <2>1 DEF ToldOf, InformedSlots, KnowsDecision, PreparedFor
  <2>3. UNCHANGED slotVars
    <3>1. chosen' = [chosen EXCEPT ![q] = chosen[q]]
      BY <1>4, <2>1
    <3>2. QED  BY <1>1, <1>2, <1>3, <2>1, <3>1 DEF StateTypes, slotVars
  <2>4. QED  BY <1>7, <2>2, <2>3 DEF InformOutdated
<1>8. QED  BY <1>5, <1>6, <1>7
=============================================================================
