--------------------------- MODULE PaxosInstance ---------------------------
(***************************************************************************)
(* One Paxos instance (one slot of the command log) on all N servers: the  *)
(* Proposer, the Acceptor, the Learner and the deadline timer that struct  *)
(* Instance bundles on every server, and the UDP messages they exchange.   *)
(*                                                                         *)
(* server_main.cpp runs one io_context on one thread, so a handler runs to *)
(* its end before the next one starts: every action below is one handler.  *)
(* UDP loses, duplicates and reorders datagrams: msgs only grows, and a    *)
(* message in it may be delivered any number of times, in any order, or    *)
(* never.  Restarts are not part of this module.                           *)
(***************************************************************************)
EXTENDS Naturals, FiniteSets

CONSTANTS N,         \* Config::number_of_nodes
          Values,    \* the commands clients submit (ProposalValue)
          NoValue,   \* ProposalValue{}, what an acceptor holds before it accepts
          Proposers, \* bound: the servers that clients submit to
          MaxNumber, \* bound: no proposer starts a round numbered above this
          Lost       \* bound: the types of message the network always loses

ASSUME NAssumption == N \in Nat \ {0}
ASSUME NoValueAssumption == NoValue \notin Values
ASSUME MaxNumberAssumption == MaxNumber \in Nat
ASSUME LostAssumption == Lost \subseteq {"DENIAL", "INFORM"}

Servers == 0 .. (N - 1)

ASSUME ProposersAssumption == Proposers \subseteq Servers

IsMajority(S) == Cardinality(S) * 2 > N

VARIABLES
  \* Proposer
  current_proposal_number,  \* the number of the round it is running
  proposer_number,          \* highest_accepted_proposal_number among its promises
  proposer_value,           \* highest_accepted_proposal_value, or the submitted one
  promised,                 \* current_promised_acceptors
  denied,                   \* current_denied_acceptors
  majority_promised,        \* have_majority_promised_on_current_proposal_number
  \* Acceptor
  prepare_number,           \* highest_prepare_proposal_number
  accepted_number,          \* highest_accepted_proposal_number
  accepted_value,           \* highest_accepted_proposal_value
  \* Learner
  learner_number,           \* highest_accepted_proposal_number
  learner_value,            \* highest_accepted_proposal_value
  accepted_by,              \* current_accepted_acceptors
  learned_majority,         \* learned_majority_consensus
  informed,
  \* Instance
  deadline_timer,           \* value of the message the armed wait holds, or NoValue
  expired,                  \* the same for a wait that expired and is queued to run
  \* Process and network
  running,                  \* FALSE once the process has died
  msgs                      \* every message sent so far

proposerVars == <<current_proposal_number, proposer_number, proposer_value,
                  promised, denied, majority_promised>>
acceptorVars == <<prepare_number, accepted_number, accepted_value>>
learnerVars  == <<learner_number, learner_value, accepted_by,
                  learned_majority, informed>>
timerVars    == <<deadline_timer, expired>>
vars == <<proposerVars, acceptorVars, learnerVars, timerVars, running, msgs>>

-----------------------------------------------------------------------------
(***************************************************************************)
(* Messages.  `to' is the endpoint of the datagram; PREPARE, ACCEPT and a  *)
(* learner's INFORM are sent as N datagrams, one to each server.           *)
(***************************************************************************)
Numbers == 0 .. MaxNumber

Messages ==
       [type : {"PREPARE"}, from : Servers, to : Servers,
        number : Numbers, value : Values]
  \cup [type : {"PROMISE"}, from : Servers, to : Servers,
        prepare_number : Numbers, number : Numbers, value : Values \cup {NoValue}]
  \cup [type : {"DENIAL"}, from : Servers, to : Servers,
        prepare_number : Numbers, value : Values]
  \cup [type : {"ACCEPT"}, from : Servers, to : Servers,
        number : Numbers, value : Values]
  \cup [type : {"ACCEPTED"}, from : Servers, to : Servers,
        number : Numbers, value : Values]
  \cup [type : {"INFORM"}, to : Servers, number : Numbers, value : Values]

Send(ms) == msgs' = msgs \cup {m \in ms : m.type \notin Lost}

Init ==
  /\ current_proposal_number = [s \in Servers |-> s + N]
  /\ proposer_number   = [s \in Servers |-> 0]
  /\ proposer_value    = [s \in Servers |-> NoValue]
  /\ promised          = [s \in Servers |-> {}]
  /\ denied            = [s \in Servers |-> {}]
  /\ majority_promised = [s \in Servers |-> FALSE]
  /\ prepare_number    = [s \in Servers |-> 0]
  /\ accepted_number   = [s \in Servers |-> 0]
  /\ accepted_value    = [s \in Servers |-> NoValue]
  /\ learner_number    = [s \in Servers |-> 0]
  /\ learner_value     = [s \in Servers |-> NoValue]
  /\ accepted_by       = [s \in Servers |-> {}]
  /\ learned_majority  = [s \in Servers |-> FALSE]
  /\ informed          = [s \in Servers |-> FALSE]
  /\ deadline_timer    = [s \in Servers |-> NoValue]
  /\ expired           = [s \in Servers |-> NoValue]
  /\ running           = [s \in Servers |-> TRUE]
  /\ msgs = {}

-----------------------------------------------------------------------------
(***************************************************************************)
(* Proposer.                                                               *)
(***************************************************************************)

(* on_submit returns nullptr: the slot is already decided on this server.  *)
Refuses(s) == learned_majority[s] \/ informed[s]

(* get_next_proposal_number: the numbers of server s are s + N, s + 2N, ... *)
NextProposalNumber(s) == current_proposal_number[s] + N

WithinBound(s) == NextProposalNumber(s) <= MaxNumber

PrepareMessages(s, n, v) ==
  {[type |-> "PREPARE", from |-> s, to |-> d, number |-> n, value |-> v] :
     d \in Servers}

(* on_submit with a value, followed by prepare: a new round, a PREPARE to   *)
(* every server, and the deadline timer re-armed with that message.        *)
StartRound(s, v) ==
  /\ WithinBound(s)
  /\ current_proposal_number' =
       [current_proposal_number EXCEPT ![s] = NextProposalNumber(s)]
  /\ proposer_number' = [proposer_number EXCEPT ![s] = 0]
  /\ proposer_value' = [proposer_value EXCEPT ![s] = v]
  /\ promised' = [promised EXCEPT ![s] = {}]
  /\ denied' = [denied EXCEPT ![s] = {}]
  /\ majority_promised' = [majority_promised EXCEPT ![s] = FALSE]
  /\ deadline_timer' = [deadline_timer EXCEPT ![s] = v]
  /\ Send(PrepareMessages(s, NextProposalNumber(s), v))
  /\ UNCHANGED <<acceptorVars, learnerVars>>

(* A client's SUBMIT, or a postponed re-submission, reaches this slot.      *)
(* (A SUBMIT that on_submit refuses never leaves the do-while loop of the  *)
(* server: PaxosServer models that.)                                       *)
Submit(s, v) ==
  /\ running[s]
  /\ ~Refuses(s)
  /\ StartRound(s, v)
  /\ UNCHANGED <<expired, running>>

(* The armed wait expires.  Its handler is queued on the io_context, where *)
(* deadline_timer.cancel() no longer reaches it.                           *)
DeadlineExpires(s) ==
  /\ running[s]
  /\ deadline_timer[s] # NoValue
  /\ expired[s] = NoValue
  /\ WithinBound(s)
  /\ expired' = [expired EXCEPT ![s] = deadline_timer[s]]
  /\ deadline_timer' = [deadline_timer EXCEPT ![s] = NoValue]
  /\ UNCHANGED <<proposerVars, acceptorVars, learnerVars, running, msgs>>

(* Mutant: the handler takes a majority of promises for the end of the job. *)
OnDeadlineBeforeAccept(s) ==
  /\ running[s]
  /\ expired[s] # NoValue
  /\ expired' = [expired EXCEPT ![s] = NoValue]
  /\ \/ /\ ~Refuses(s) /\ ~majority_promised[s]
        /\ StartRound(s, expired[s])
     \/ /\ Refuses(s) \/ majority_promised[s]
        /\ UNCHANGED <<proposerVars, acceptorVars, learnerVars, deadline_timer, msgs>>
  /\ UNCHANGED running

(* The queued handler runs: it submits the value of the message that armed *)
(* the timer again, unless the slot is decided by now.                     *)
OnDeadline(s) ==
  /\ running[s]
  /\ expired[s] # NoValue
  /\ expired' = [expired EXCEPT ![s] = NoValue]
  /\ \/ /\ ~Refuses(s)
        /\ StartRound(s, expired[s])
     \/ /\ Refuses(s)
        /\ UNCHANGED <<proposerVars, acceptorVars, learnerVars, deadline_timer, msgs>>
  /\ UNCHANGED running

(* Mutants of Outranks: compared with the number of the round instead of   *)
(* the best promise, which is always larger; and adopting at a tie.        *)
OutranksRound(s, m) == m.number > current_proposal_number[s]
OutranksOrTies(s, m) == m.number >= proposer_number[s]

(* The promise reports a proposal numbered above the best one so far.      *)
Outranks(s, m) == m.number > proposer_number[s]

AcceptMessages(s, v) ==
  {[type |-> "ACCEPT", from |-> s, to |-> d,
    number |-> current_proposal_number[s], value |-> v] : d \in Servers}

(* Mutant: every promise past the majority completes it again.             *)
CompletesMajorityAgain(s, acks) == IsMajority(acks)

(* have_majority_promised_on_current_proposal_number is set once a round.  *)
CompletesMajority(s, acks) == IsMajority(acks) /\ ~majority_promised[s]

(* on_promise, and accept when this promise completes the first majority:  *)
(* ACCEPT to every server, timer re-armed with that message.               *)
OnPromise(m) ==
  LET s    == m.to
      best == IF Outranks(s, m) THEN m.value ELSE proposer_value[s]
      acks == promised[s] \cup {m.from}
      done == CompletesMajority(s, acks)
  IN  /\ m.type = "PROMISE"
      /\ running[s]
      /\ m.prepare_number >= current_proposal_number[s]
      /\ proposer_number' = [proposer_number EXCEPT
           ![s] = IF Outranks(s, m) THEN m.number ELSE @]
      /\ proposer_value' = [proposer_value EXCEPT ![s] = best]
      /\ promised' = [promised EXCEPT ![s] = acks]
      /\ \/ /\ done
            /\ majority_promised' = [majority_promised EXCEPT ![s] = TRUE]
            /\ deadline_timer' = [deadline_timer EXCEPT ![s] = best]
            /\ Send(AcceptMessages(s, best))
         \/ /\ ~done
            /\ UNCHANGED <<majority_promised, deadline_timer, msgs>>
      /\ UNCHANGED <<current_proposal_number, denied, acceptorVars, learnerVars,
                     expired, running>>

(* on_denial below a majority: only the denial is noted.                   *)
OnDenial(m) ==
  LET s == m.to IN
  /\ m.type = "DENIAL"
  /\ running[s]
  /\ m.prepare_number >= current_proposal_number[s]
  /\ ~IsMajority(denied[s] \cup {m.from})
  /\ denied' = [denied EXCEPT ![s] = @ \cup {m.from}]
  /\ UNCHANGED <<current_proposal_number, proposer_number, proposer_value, promised,
                 majority_promised, acceptorVars, learnerVars, timerVars, running, msgs>>

(* on_denial at a majority: cancel the timer and submit the value that the *)
(* denial carries back.  The dispatcher passes the result of on_submit to  *)
(* prepare without a check, and prepare writes through a null pointer when *)
(* on_submit refuses: the process dies.                                    *)
OnMajorityDenial(m) ==
  LET s == m.to IN
  /\ m.type = "DENIAL"
  /\ running[s]
  /\ m.prepare_number >= current_proposal_number[s]
  /\ IsMajority(denied[s] \cup {m.from})
  /\ \/ /\ ~Refuses(s)
        /\ StartRound(s, m.value)
        /\ UNCHANGED running
     \/ /\ Refuses(s)
        /\ running' = [running EXCEPT ![s] = FALSE]
        /\ UNCHANGED <<proposerVars, acceptorVars, learnerVars, deadline_timer, msgs>>
  /\ UNCHANGED expired

-----------------------------------------------------------------------------
(***************************************************************************)
(* Acceptor.  A server whose learner is informed answers PREPARE and       *)
(* ACCEPT with the decided command instead of voting.                      *)
(***************************************************************************)

(* Mutant: the request is turned round without the decided command.        *)
InformOfRequest(m) ==
  Send({[type |-> "INFORM", to |-> m.from,
         number |-> learner_number[m.to], value |-> m.value]})

(* The sender of the request is told the result, with its number.          *)
InformOutdated(m) ==
  Send({[type |-> "INFORM", to |-> m.from,
         number |-> learner_number[m.to], value |-> learner_value[m.to]]})

(* Mutants: the acceptor forgets to compare with what it has promised.      *)
PromiseAnyNumber(a, n) == TRUE
AcceptAnyNumber(a, n) == TRUE

CanPromise(a, n) == n > prepare_number[a]

CanAccept(a, n) == n >= prepare_number[a]

(* Mutant: the denial names what the acceptor has promised instead.         *)
DenialOfPromised(m) ==
  [type |-> "DENIAL", from |-> m.to, to |-> m.from,
   prepare_number |-> prepare_number[m.to], value |-> m.value]

(* The denial names the PREPARE it answers and gives its value back.       *)
Denial(m) ==
  [type |-> "DENIAL", from |-> m.to, to |-> m.from,
   prepare_number |-> m.number, value |-> m.value]

(* on_prepare followed by promise_or_denial.                               *)
OnPrepare(m) ==
  LET a == m.to IN
  /\ m.type = "PREPARE"
  /\ running[a]
  /\ \/ /\ informed[a]
        /\ InformOutdated(m)
        /\ UNCHANGED prepare_number
     \/ /\ ~informed[a]
        /\ ~CanPromise(a, m.number)
        /\ Send({Denial(m)})
        /\ UNCHANGED prepare_number
     \/ /\ ~informed[a]
        /\ CanPromise(a, m.number)
        /\ prepare_number' = [prepare_number EXCEPT ![a] = m.number]
        /\ Send({[type |-> "PROMISE", from |-> a, to |-> m.from,
                  prepare_number |-> m.number,
                  number |-> accepted_number[a], value |-> accepted_value[a]]})
  /\ UNCHANGED <<accepted_number, accepted_value, proposerVars, learnerVars,
                 timerVars, running>>

(* on_accept followed by accepted_or_reject.  ACCEPTED goes back to the    *)
(* proposer of the round, whose learner counts it.                         *)
OnAccept(m) ==
  LET a == m.to IN
  /\ m.type = "ACCEPT"
  /\ running[a]
  /\ \/ /\ informed[a]
        /\ InformOutdated(m)
        /\ UNCHANGED acceptorVars
     \/ /\ ~informed[a]
        /\ ~CanAccept(a, m.number)
        /\ UNCHANGED <<acceptorVars, msgs>>
     \/ /\ ~informed[a]
        /\ CanAccept(a, m.number)
        /\ prepare_number' = [prepare_number EXCEPT ![a] = m.number]
        /\ accepted_number' = [accepted_number EXCEPT ![a] = m.number]
        /\ accepted_value' = [accepted_value EXCEPT ![a] = m.value]
        /\ Send({[type |-> "ACCEPTED", from |-> a, to |-> m.from,
                  number |-> m.number, value |-> m.value]})
  /\ UNCHANGED <<proposerVars, learnerVars, timerVars, running>>

-----------------------------------------------------------------------------
(***************************************************************************)
(* Learner.                                                                *)
(***************************************************************************)

(* Mutant: a larger number does not clear current_accepted_acceptors.       *)
AcceptedWithEver(s, m) == accepted_by[s] \cup {m.from}

(* Mutant: the same number clears it too.                                  *)
AcceptedWithLast(s, m) == {m.from}

(* The acceptors known to have accepted the number of message m.           *)
AcceptedWith(s, m) ==
  (IF m.number > learner_number[s] THEN {} ELSE accepted_by[s]) \cup {m.from}

(* on_accepted, and inform when a majority accepted the same number.       *)
OnAccepted(m) ==
  LET s == m.to
      v == IF m.number > learner_number[s] THEN m.value ELSE learner_value[s]
  IN  /\ m.type = "ACCEPTED"
      /\ running[s]
      /\ ~learned_majority[s] /\ ~informed[s]
      /\ m.number >= learner_number[s]
      /\ learner_number' = [learner_number EXCEPT ![s] = m.number]
      /\ learner_value' = [learner_value EXCEPT ![s] = v]
      /\ accepted_by' = [accepted_by EXCEPT ![s] = AcceptedWith(s, m)]
      /\ \/ /\ IsMajority(AcceptedWith(s, m))
            /\ learned_majority' = [learned_majority EXCEPT ![s] = TRUE]
            /\ deadline_timer' = [deadline_timer EXCEPT ![s] = NoValue]
            /\ Send({[type |-> "INFORM", to |-> d, number |-> m.number,
                      value |-> v] : d \in Servers})
         \/ /\ ~IsMajority(AcceptedWith(s, m))
            /\ UNCHANGED <<learned_majority, deadline_timer, msgs>>
      /\ UNCHANGED <<informed, proposerVars, acceptorVars, expired, running>>

(* on_inform.  The command it returns goes to the server's executor.       *)
OnInform(m) ==
  LET s == m.to IN
  /\ m.type = "INFORM"
  /\ running[s]
  /\ ~informed[s]
  /\ informed' = [informed EXCEPT ![s] = TRUE]
  /\ learner_number' = [learner_number EXCEPT ![s] = m.number]
  /\ learner_value' = [learner_value EXCEPT ![s] = m.value]
  /\ deadline_timer' = [deadline_timer EXCEPT ![s] = NoValue]
  /\ UNCHANGED <<accepted_by, learned_majority, proposerVars, acceptorVars,
                 expired, running, msgs>>

-----------------------------------------------------------------------------
(* dispatch_paxos_message.  REJECTED has no case in the switch of          *)
(* dispatch_received_message: the message is dropped.                      *)
Dispatch(m) ==
  \/ OnPrepare(m)
  \/ OnPromise(m)
  \/ OnDenial(m)
  \/ OnMajorityDenial(m)
  \/ OnAccept(m)
  \/ OnAccepted(m)
  \/ OnInform(m)

Next ==
  \/ \E s \in Proposers, v \in Values : Submit(s, v)
  \/ \E s \in Servers : DeadlineExpires(s)
  \/ \E s \in Servers : OnDeadline(s)
  \/ \E m \in msgs : Dispatch(m)

Spec == Init /\ [][Next]_vars

-----------------------------------------------------------------------------
(* What the acceptors have decided, read off the ACCEPTED messages.        *)
Votes == {m \in msgs : m.type = "ACCEPTED"}

Voters(n, v) == {m.from : m \in {k \in Votes : k.number = n /\ k.value = v}}

ChosenAt(n, v) == IsMajority(Voters(n, v))

Chosen == {m.value : m \in {k \in Votes : ChosenAt(k.number, k.value)}}

-----------------------------------------------------------------------------
(* The type invariant.                                                     *)
TypeOK ==
  /\ current_proposal_number \in [Servers -> Nat]
  /\ proposer_number   \in [Servers -> Numbers]
  /\ proposer_value    \in [Servers -> Values \cup {NoValue}]
  /\ promised          \in [Servers -> SUBSET Servers]
  /\ denied            \in [Servers -> SUBSET Servers]
  /\ majority_promised \in [Servers -> BOOLEAN]
  /\ prepare_number    \in [Servers -> Numbers]
  /\ accepted_number   \in [Servers -> Numbers]
  /\ accepted_value    \in [Servers -> Values \cup {NoValue}]
  /\ learner_number    \in [Servers -> Numbers]
  /\ learner_value     \in [Servers -> Values \cup {NoValue}]
  /\ accepted_by       \in [Servers -> SUBSET Servers]
  /\ learned_majority  \in [Servers -> BOOLEAN]
  /\ informed          \in [Servers -> BOOLEAN]
  /\ deadline_timer    \in [Servers -> Values \cup {NoValue}]
  /\ expired           \in [Servers -> Values \cup {NoValue}]
  /\ running           \in [Servers -> BOOLEAN]
  /\ msgs \subseteq Messages

(* At most one command is ever chosen for the slot, whatever the proposers *)
(* do concurrently and the network loses, repeats or reorders.             *)
Consistency == \A v, w \in Chosen : v = w

(* What a learner has learned by counting ACCEPTED messages or from an     *)
(* INFORM, and what any INFORM on the wire tells, was chosen by a majority *)
(* of acceptors at the number it gives.                                    *)
LearnedIsChosen ==
  /\ \A s \in Servers : Refuses(s) => ChosenAt(learner_number[s], learner_value[s])
  /\ \A m \in msgs : m.type = "INFORM" => ChosenAt(m.number, m.value)

(* Two ACCEPT messages with the same number carry the same value: no two   *)
(* servers share a proposal number, and a proposer sends ACCEPT once per   *)
(* number even though PROMISE messages keep arriving.                      *)
OneValuePerNumber ==
  \A m1, m2 \in {m \in msgs : m.type = "ACCEPT"} :
     m1.number = m2.number => m1.value = m2.value

(* Once a value is chosen, every ACCEPT of a later round carries it.       *)
ChosenBindsLaterRounds ==
  \A m \in msgs, k \in Votes :
     m.type = "ACCEPT" /\ k.number < m.number /\ ChosenAt(k.number, k.value)
       => m.value = k.value

(* proposer.cpp asserts it in on_promise and on_denial: an answer to a     *)
(* PREPARE never names a round the proposer has not reached.               *)
AnswersNeverAhead ==
  \A m \in msgs : m.type \in {"PROMISE", "DENIAL"} =>
     m.prepare_number <= current_proposal_number[m.to]

(* A server that has started a round and does not know the outcome still   *)
(* has its deadline armed, or expired and about to be handled: no order of *)
(* promises, denials and timeouts leaves a submission waiting for nothing. *)
UndecidedIsTimed ==
  \A s \in Servers :
     running[s] /\ current_proposal_number[s] # s + N /\ ~Refuses(s)
       => deadline_timer[s] # NoValue \/ expired[s] # NoValue

(* An acceptor never votes below a number it has promised.                 *)
PromisesKept ==
  [][\A p \in msgs, m \in msgs' \ msgs :
       p.type = "PROMISE" /\ m.type = "ACCEPTED" /\ m.from = p.from
         => m.number >= p.prepare_number]_vars

(* server.cpp:70 says that a majority of denials makes the server resubmit *)
(* the proposal and prepare again; so no handler may end the process.      *)
StaysUp == \A s \in Servers : running[s]

(* The instance implements Consensus: a command is proposed when the first *)
(* PREPARE carrying it is sent, chosen when a majority has accepted it, and*)
(* learned when the learner first has a result.                            *)
Proposed == {v \in Values : \E m \in msgs : m.type = "PREPARE" /\ m.value = v}

Learned == [s \in Servers |-> IF Refuses(s) THEN {learner_value[s]} ELSE {}]

Abstract == INSTANCE Consensus
              WITH proposed <- Proposed, chosen <- Chosen, learned <- Learned

ImplementsConsensus == Abstract!Spec

(* What the servers see of the slot. *)
Prepared == {m.from : m \in {k \in msgs : k.type = "PREPARE"}}

Told == [s \in Servers |-> IF informed[s] THEN {learner_value[s]} ELSE {}]

Informs == {[to |-> m.to, value |-> m.value] : m \in {k \in msgs : k.type = "INFORM"}}

Slot == INSTANCE LogSlot
          WITH prepared <- Prepared, proposed <- Proposed, chosen <- Chosen,
               learned_majority <- {s \in Servers : learned_majority[s]},
               told <- Told, informs <- Informs

(* The instance is a LogSlot, which is how PaxosServer uses it: only the   *)
(* server that started a round hears of the majority or is informed by an  *)
(* acceptor, and all that anybody is told is the chosen command            *)
(* (acceptor.cpp:15, acceptor.cpp:77, learner.cpp:36).                     *)
ImplementsSlot == Slot!Spec
=============================================================================
