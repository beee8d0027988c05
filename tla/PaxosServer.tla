---------------------------- MODULE PaxosServer ----------------------------
(***************************************************************************)
(* The N servers above their Paxos instances: which slot of the log a      *)
(* submission goes to, how a server executes what its learners are         *)
(* informed of, whom it answers, and what it submits again.                *)
(*                                                                         *)
(* A slot is used through what its instance implements (LogSlot, see       *)
(* PaxosInstance): commands are proposed, one is chosen, servers learn it  *)
(* from a majority of acceptors or from an INFORM.  An action is a handler *)
(* of the single-threaded event loop.  Submissions and INFORMs are UDP     *)
(* datagrams: lost, repeated and reordered.  Nothing restarts here.        *)
(***************************************************************************)
EXTENDS Naturals, Sequences, FiniteSets, Ascending

CONSTANTS N,              \* Config::number_of_nodes
          Commands,       \* ProposalValues, told apart by client_id and client_once
          NoCommand,      \* no entry in seq_to_expected_values
          AtMostOnce,     \* Config::at_most_once, the clients' ports being registered
          MaxSequence,    \* bound: the number of slots
          MaxSubmissions  \* bound: the number of SUBMIT datagrams that arrive

ASSUME NAssumption == N \in Nat \ {0}
ASSUME NoCommandAssumption == NoCommand \notin Commands
ASSUME AtMostOnceAssumption == AtMostOnce \in BOOLEAN
ASSUME BoundsAssumption == MaxSequence \in Nat /\ MaxSubmissions \in Nat

Servers == 0 .. (N - 1)
Slots == 1 .. MaxSequence

VARIABLES
  \* The slots
  prepared,               \* prepared[s]: the slots server s has sent a PREPARE for
  proposed,               \* proposed[q]: the commands proposed for slot q
  chosen,                 \* chosen[q]: empty, or the command decided for slot q
  learned_majority,       \* learned_majority[s]: slots learned from the acceptors
  informed,               \* informed[s]: the INFORM that told s about each slot
  \* PaxosServer
  executed_cmd_seq,       \* the last slot executed
  cmd_min_set,            \* the informed commands that wait for their turn
  seq_to_expected_values, \* what was submitted for each slot, or NoCommand
  client_ops_to_response, \* the first execution of each command (at_most_once)
  applied,                \* the commands applied to object_lock_state, in order
  postponed,              \* submissions that wait for a random_resubmit_timer
  running,                \* FALSE once a handler never returns
  \* The network
  submissions,            \* the number of SUBMIT datagrams that have arrived
  informs,                \* the INFORM datagrams sent
  responses               \* the RESPONSE datagrams sent

slotVars   == <<prepared, proposed, chosen, learned_majority, informed>>
serverVars == <<executed_cmd_seq, cmd_min_set, seq_to_expected_values,
                client_ops_to_response, applied, postponed, running>>
netVars    == <<submissions, informs, responses>>
vars == <<slotVars, serverVars, netVars>>

Informs == [to : Servers, sequence : Slots, value : Commands,
            responsible_server_id : Servers]

Init ==
  /\ prepared = [s \in Servers |-> {}]
  /\ proposed = [q \in Slots |-> {}]
  /\ chosen = [q \in Slots |-> {}]
  /\ learned_majority = [s \in Servers |-> {}]
  /\ informed = [s \in Servers |-> {}]
  /\ executed_cmd_seq = [s \in Servers |-> 0]
  /\ cmd_min_set = [s \in Servers |-> {}]
  /\ seq_to_expected_values = [s \in Servers |-> [q \in Slots |-> NoCommand]]
  /\ client_ops_to_response = [s \in Servers |-> {}]
  /\ applied = [s \in Servers |-> << >>]
  /\ postponed = [s \in Servers |-> {}]
  /\ running = [s \in Servers |-> TRUE]
  /\ submissions = 0
  /\ informs = {}
  /\ responses = {}

-----------------------------------------------------------------------------
(***************************************************************************)
(* The slots.                                                              *)
(***************************************************************************)
InformedSlots(s) == {m.sequence : m \in informed[s]}

(* Mutant: a majority that only the acceptors have told of does not count. *)
RefusesInformed(s, q) == q \in InformedSlots(s)

(* Proposer::on_submit returns nullptr.                                    *)
Refuses(s, q) == q \in learned_majority[s] \cup InformedSlots(s)

Inform(s, q, responsible) ==
  [to |-> s, sequence |-> q, value |-> CHOOSE v \in chosen[q] : TRUE,
   responsible_server_id |-> responsible]

(* The acceptors settle on one of the commands proposed for the slot.      *)
Choose(q) ==
  /\ chosen[q] = {}
  /\ \E v \in proposed[q] : chosen' = [chosen EXCEPT ![q] = {v}]
  /\ UNCHANGED <<prepared, proposed, learned_majority, informed, serverVars, netVars>>

(* The learner of a proposer hears of a majority and informs all servers,  *)
(* itself included, by datagram; only those in `reached' will get it.      *)
LearnMajority(s, q, reached) ==
  /\ running[s]
  /\ q \in prepared[s]
  /\ chosen[q] # {}
  /\ ~Refuses(s, q)
  /\ learned_majority' = [learned_majority EXCEPT ![s] = @ \cup {q}]
  /\ informs' = informs \cup {Inform(d, q, s) : d \in reached}
  /\ UNCHANGED <<prepared, proposed, chosen, informed, serverVars, submissions, responses>>

(* Mutant: asks the executor and not the learner, and is off by one.        *)
KnowsIfExecuted(b, q) == q < executed_cmd_seq[b]

KnowsDecision(b, q) == q \in InformedSlots(b)

(* The acceptor of an informed server b answers a PREPARE or an ACCEPT of  *)
(* server s with the decided command.                                      *)
InformOutdated(b, s, q) ==
  /\ running[b]
  /\ q \in prepared[s]
  /\ KnowsDecision(b, q)
  /\ informs' = informs \cup {Inform(s, q, s)}
  /\ UNCHANGED <<slotVars, serverVars, submissions, responses>>

-----------------------------------------------------------------------------
(***************************************************************************)
(* Submission.                                                             *)
(***************************************************************************)

(* Mutant: the counter submit_cmd_seq that the code has commented out.     *)
SequencePerSubmission(s) == Cardinality(prepared[s]) + 1

(* on_submit_of_server: the slot after the last executed one.              *)
SubmitSequence(s) == executed_cmd_seq[s] + 1

(* The do-while loop of dispatch_server_message and of the resubmit timer. *)
(* A slot that the proposer refuses is asked for again and again: nothing  *)
(* can execute it while the loop runs, and the loop does not end.          *)
(* emplace keeps the entry that is there already.                          *)
Place(s, v, expected) ==
  LET q == SubmitSequence(s) IN
  /\ q \in Slots
  /\ \/ /\ Refuses(s, q)
        /\ running' = [running EXCEPT ![s] = FALSE]
        /\ seq_to_expected_values' = [seq_to_expected_values EXCEPT ![s] = expected]
        /\ UNCHANGED <<prepared, proposed>>
     \/ /\ ~Refuses(s, q)
        /\ prepared' = [prepared EXCEPT ![s] = @ \cup {q}]
        /\ proposed' = [proposed EXCEPT ![q] = @ \cup {v}]
        /\ seq_to_expected_values' = [seq_to_expected_values EXCEPT ![s] =
             [expected EXCEPT ![q] = IF @ = NoCommand THEN v ELSE @]]
        /\ UNCHANGED running
  /\ UNCHANGED <<chosen, learned_majority, informed, executed_cmd_seq, cmd_min_set,
                 client_ops_to_response, applied, informs, responses>>

(* A SUBMIT arrives.  Clients repeat a command, at the next server, until  *)
(* they are answered.                                                      *)
Submit(s, v) ==
  /\ running[s]
  /\ submissions < MaxSubmissions
  /\ submissions' = submissions + 1
  /\ Place(s, v, seq_to_expected_values[s])
  /\ UNCHANGED postponed

(* A random_resubmit_timer runs out.                                       *)
Resubmit(s, r) ==
  /\ running[s]
  /\ postponed' = [postponed EXCEPT ![s] = @ \ {r}]
  /\ Place(s, r.value, [seq_to_expected_values[s] EXCEPT ![r.sequence] = NoCommand])
  /\ UNCHANGED submissions

-----------------------------------------------------------------------------
(***************************************************************************)
(* Execution.                                                              *)
(***************************************************************************)
Waits(heap, q) == \E c \in heap : c.sequence = q

(* Mutants of Turn: commands run although a slot before them is missing;   *)
(* and the commands that waited for this one are left in the heap.         *)
TurnOfAll(s, heap) ==
  IF Waits(heap, executed_cmd_seq[s] + 1) THEN {c.sequence : c \in heap} ELSE {}
TurnOfOne(s, heap) ==
  {q \in {executed_cmd_seq[s] + 1} : Waits(heap, q)}

(* The slots whose turn has come: those after the last executed one, up to *)
(* the first that is missing in the heap.                                  *)
Turn(s, heap) ==
  {q \in Slots : /\ q > executed_cmd_seq[s]
                 /\ \A p \in (executed_cmd_seq[s] + 1) .. q : Waits(heap, p)}

CommandAt(heap, q) == CHOOSE c \in heap : c.sequence = q

(* Mutant: the cache is filled but not looked at.                          *)
AlwaysApplies(s, heap, turn, q) == TRUE

(* execute_command changes the lock state, unless the same client          *)
(* operation is in client_ops_to_response (at_most_once).                  *)
Applies(s, heap, turn, q) ==
  AtMostOnce =>
    LET v == CommandAt(heap, q).value IN
    /\ \A r \in client_ops_to_response[s] : r.value # v
    /\ \A p \in turn : p < q => CommandAt(heap, p).value # v

(* Mutant: response() erases the entry before it compares, and operator[]  *)
(* puts an empty command in its place.                                     *)
DisplacedAfterErase(s, r) == {[sequence |-> r.sequence, value |-> NoCommand]}

(* response(): what was submitted for the slot of r, if something else was *)
(* decided there.                                                          *)
Displaced(s, r) ==
  {[sequence |-> r.sequence, value |-> v] :
     v \in {seq_to_expected_values[s][r.sequence]} \ {NoCommand, r.value}}

(* Mutant: a server does not answer about a command that displaced its own. *)
OwnUndisplaced(s, answers) ==
  {r \in answers : r.responsible_server_id = s /\ Displaced(s, r) = {}}

(* The executed commands that name this server as the responsible one.     *)
Own(s, answers) == {r \in answers : r.responsible_server_id = s}

(* An INFORM arrives: on_inform, try_execute_commands, and response for    *)
(* the executed commands that are this server's own.                       *)
(* A cached response is the first one, with its sequence and responsible   *)
(* server.                                                                 *)
OnInform(m) ==
  LET s        == m.to
      heap     == cmd_min_set[s] \cup {m}
      turn     == Turn(s, heap)
      fresh    == {q \in turn : Applies(s, heap, turn, q)}
      first    == {CommandAt(heap, q) : q \in fresh}
      cache    == client_ops_to_response[s] \cup first
      answer(q) == IF q \in fresh THEN CommandAt(heap, q)
                   ELSE CHOOSE r \in cache : r.value = CommandAt(heap, q).value
      mine     == Own(s, {answer(q) : q \in turn})
      slots    == InOrder(fresh)
  IN
  /\ running[s]
  /\ m.sequence \notin InformedSlots(s)
  /\ informed' = [informed EXCEPT ![s] = @ \cup {m}]
  /\ executed_cmd_seq' = [executed_cmd_seq EXCEPT ![s] = @ + Cardinality(turn)]
  /\ cmd_min_set' = [cmd_min_set EXCEPT ![s] =
                       {c \in heap : c.sequence \notin turn}]
  /\ client_ops_to_response' =
       [client_ops_to_response EXCEPT ![s] = IF AtMostOnce THEN cache ELSE @]
  /\ applied' = [applied EXCEPT ![s] =
       @ \o [k \in DOMAIN slots |-> CommandAt(heap, slots[k]).value]]
  /\ seq_to_expected_values' = [seq_to_expected_values EXCEPT ![s] =
       [q \in Slots |-> IF \E r \in mine : r.sequence = q THEN NoCommand ELSE @[q]]]
  /\ postponed' = [postponed EXCEPT ![s] = @ \cup UNION {Displaced(s, r) : r \in mine}]
  /\ responses' = responses \cup {[from |-> s, sequence |-> r.sequence, value |-> r.value] :
                                    r \in mine}
  /\ UNCHANGED <<prepared, proposed, chosen, learned_majority, running, submissions, informs>>

Next ==
  \/ \E q \in Slots : Choose(q)
  \/ \E s \in Servers, q \in Slots, reached \in SUBSET Servers : LearnMajority(s, q, reached)
  \/ \E b, s \in Servers, q \in Slots : InformOutdated(b, s, q)
  \/ \E s \in Servers, v \in Commands : Submit(s, v)
  \/ \E s \in Servers : \E r \in postponed[s] : Resubmit(s, r)
  \/ \E m \in informs : OnInform(m)

Spec == Init /\ [][Next]_vars

-----------------------------------------------------------------------------
StateTypes ==
  /\ prepared \in [Servers -> SUBSET Slots]
  /\ proposed \in [Slots -> SUBSET Commands]
  /\ chosen \in [Slots -> SUBSET Commands]
  /\ learned_majority \in [Servers -> SUBSET Slots]
  /\ informed \in [Servers -> SUBSET Informs]
  /\ executed_cmd_seq \in [Servers -> 0 .. MaxSequence]
  /\ cmd_min_set \in [Servers -> SUBSET Informs]
  /\ seq_to_expected_values \in [Servers -> [Slots -> Commands \cup {NoCommand}]]
  /\ client_ops_to_response \in [Servers -> SUBSET Informs]
  /\ postponed \in [Servers -> SUBSET [sequence : Slots, value : Commands]]
  /\ running \in [Servers -> BOOLEAN]
  /\ submissions \in 0 .. MaxSubmissions
  /\ informs \subseteq Informs
  /\ responses \subseteq [from : Servers, sequence : Slots, value : Commands]

(* The type invariant.                                                     *)
TypeOK == StateTypes /\ applied \in [Servers -> Seq(Commands)]

(* Slots are decided without holes, although every server picks its slots  *)
(* by its own executed_cmd_seq and nobody assigns them: else the servers   *)
(* would wait for ever for a slot that no submission goes to.              *)
NoHoles == \A q \in Slots \ {1} : chosen[q] # {} => chosen[q - 1] # {}

(* Between two handlers, whatever the order of the INFORMs, a command that *)
(* a server was informed of is either executed or waits in the heap, and   *)
(* the next one to execute is never left waiting.                          *)
NothingForgotten ==
  \A s \in Servers :
    LET waiting == {c.sequence : c \in cmd_min_set[s]} IN
    /\ InformedSlots(s) = waiting \cup (1 .. executed_cmd_seq[s])
    /\ \A q \in waiting : q > executed_cmd_seq[s] + 1

(* The entry of a submission goes away only with the execution of that     *)
(* submission, or into a timer that will submit it again.                  *)
DisplacedIsPostponed ==
  [][\A s \in Servers, q \in Slots :
       LET v == seq_to_expected_values[s][q] IN
       v # NoCommand /\ seq_to_expected_values'[s][q] # v =>
         chosen[q] = {v} \/ [sequence |-> q, value |-> v] \in postponed'[s]]_vars

(* A server that executes a command as the responsible server of its slot  *)
(* answers the client about that command (message.hpp:41: the client gets  *)
(* its result from the distinguished learner; README.txt:71), with         *)
(* at_most_once the first time: server.cpp:260 returns a later execution's *)
(* answer under the name of the server that was responsible for the first. *)
Repeats(m) == \E k \in informed[m.to] : k.sequence < m.sequence /\ k.value = m.value

ResponsibleAnswers ==
  \A s \in Servers : \A m \in informed[s] :
    m.sequence <= executed_cmd_seq[s] /\ m.responsible_server_id = s
      /\ ~(AtMostOnce /\ Repeats(m)) =>
        \E r \in responses : r.from = s /\ r.value = m.value

(* README.txt:71: each server serves requests and responds to them; so     *)
(* handling a SUBMIT ends.                                                 *)
HandlersReturn == \A s \in Servers : running[s]

(* The servers implement CommandLog: one log, whose prefixes they apply in *)
(* order; at most once per operation with at_most_once; answers only about *)
(* executed commands.                                                      *)
Log ==
  LET decided == {q \in Slots : \A p \in 1 .. q : chosen[p] # {}}
  IN  [q \in decided |-> CHOOSE v \in chosen[q] : TRUE]

Abstract == INSTANCE CommandLog
              WITH submitted <- UNION {proposed[q] : q \in Slots},
                   log <- Log,
                   executed <- executed_cmd_seq,
                   answers <- {<<r.from, r.value>> : r \in responses}

ImplementsCommandLog == Abstract!Spec

(* The instance of slot q, as the servers use it.                          *)
PreparedFor(q) == {s \in Servers : q \in prepared[s]}

LearnedOf(q) == {s \in Servers : q \in learned_majority[s]}

ToldOf(q) == [s \in Servers |-> {m.value : m \in {k \in informed[s] : k.sequence = q}}]

InformsOf(q) ==
  {[to |-> m.to, value |-> m.value] : m \in {k \in informs : k.sequence = q}}

Slot(q) == INSTANCE LogSlot
             WITH Values <- Commands, prepared <- PreparedFor(q),
                  proposed <- proposed[q], chosen <- chosen[q],
                  learned_majority <- LearnedOf(q), told <- ToldOf(q),
                  informs <- InformsOf(q)

(* The servers use every slot as its instance lets them (PaxosInstance):   *)
(* they start no round for a slot they know, and all that they execute was *)
(* told by its INFORMs (server.cpp:115, server.cpp:164).                   *)
UsesSlots ==
  /\ \A q \in Slots : Slot(q)!Init
  /\ [][\A q \in Slots : UNCHANGED Slot(q)!vars \/ Slot(q)!Next]_vars
=============================================================================
