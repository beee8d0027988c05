--------------------------- MODULE PaxosRecovery ---------------------------
(***************************************************************************)
(* One Paxos instance whose servers stop at any moment and start again     *)
(* from their logs (need_recovery).  The acceptor's log is written before  *)
(* the answer is sent, the learner's when it is informed; the proposer has *)
(* no log and numbers its rounds from the start again.                     *)
(***************************************************************************)
EXTENDS PaxosInstance

CONSTANTS Asserts,     \* the program is built without NDEBUG
          Restarting,  \* bound: the servers that stop and start again
          MaxRestarts  \* bound: the number of restarts

ASSUME BuildAssumption == Asserts \in BOOLEAN
ASSUME RestartsAssumption == Restarting \subseteq Servers /\ MaxRestarts \in Nat

(* counted and misled are history variables: no guard reads them.          *)
VARIABLES restarts,  \* the number of restarts so far
          counted,   \* the PROMISEs that proposers have counted, in all lives
          misled     \* one of them was an answer to a former life, see Misleads

historyVars == <<counted, misled>>

recoveryVars == <<vars, restarts, historyVars>>

RecoveryInit == Init /\ restarts = 0 /\ counted = {} /\ misled = FALSE

-----------------------------------------------------------------------------
(***************************************************************************)
(* Restart.                                                                *)
(***************************************************************************)

(* Mutant: on_prepare does not write the log.                              *)
LogsAcceptedOnly(a) == [prepare |-> accepted_number[a], number |-> accepted_number[a],
                        value |-> accepted_value[a]]

(* The acceptor's record, which is what on_prepare and on_accept left.     *)
LoggedAcceptor(a) == [prepare |-> prepare_number[a], number |-> accepted_number[a],
                      value |-> accepted_value[a]]

(* Mutant: the learner writes its log when it hears of the first acceptor. *)
LogsAnyAccepted(s) == learner_number[s] # 0

(* Mutant: the learner writes its log when a majority has accepted.        *)
LogsMajorityOnly(s) == learned_majority[s]

(* The learner has a record once it was informed: not when it has learned  *)
(* from a majority only.                                                   *)
LearnerLogged(s) == informed[s]

(* The process of s starts again: recover_from_log gives its acceptor the  *)
(* record `log' and its learner what it was informed of; all the rest is   *)
(* constructed anew.                                                       *)
StartAgain(s, log) ==
  /\ s \in Restarting
  /\ restarts < MaxRestarts
  /\ restarts' = restarts + 1
  /\ current_proposal_number' = [current_proposal_number EXCEPT ![s] = s + N]
  /\ proposer_number' = [proposer_number EXCEPT ![s] = 0]
  /\ proposer_value' = [proposer_value EXCEPT ![s] = NoValue]
  /\ promised' = [promised EXCEPT ![s] = {}]
  /\ denied' = [denied EXCEPT ![s] = {}]
  /\ majority_promised' = [majority_promised EXCEPT ![s] = FALSE]
  /\ prepare_number' = [prepare_number EXCEPT ![s] = log.prepare]
  /\ accepted_number' = [accepted_number EXCEPT ![s] = log.number]
  /\ accepted_value' = [accepted_value EXCEPT ![s] = log.value]
  /\ learner_number' = [learner_number EXCEPT ![s] = IF LearnerLogged(s) THEN @ ELSE 0]
  /\ learner_value' = [learner_value EXCEPT ![s] = IF LearnerLogged(s) THEN @ ELSE NoValue]
  /\ accepted_by' = [accepted_by EXCEPT ![s] = {}]
  /\ learned_majority' = [learned_majority EXCEPT ![s] = LearnerLogged(s)]
  /\ informed' = [informed EXCEPT ![s] = LearnerLogged(s)]
  /\ deadline_timer' = [deadline_timer EXCEPT ![s] = NoValue]
  /\ expired' = [expired EXCEPT ![s] = NoValue]
  /\ running' = [running EXCEPT ![s] = TRUE]
  /\ UNCHANGED <<msgs, historyVars>>

(* Between two handlers, or after the process has died.                    *)
Restart(s) == StartAgain(s, LoggedAcceptor(s))

(* The process stops inside on_prepare or on_accept, after the write to    *)
(* the log and before the answer is sent.                                  *)
RestartAfterWrite(m) ==
  LET a == m.to IN
  /\ running[a]
  /\ ~informed[a]
  /\ \/ /\ m.type = "PREPARE"
        /\ CanPromise(a, m.number)
        /\ StartAgain(a, [LoggedAcceptor(a) EXCEPT !.prepare = m.number])
     \/ /\ m.type = "ACCEPT"
        /\ CanAccept(a, m.number)
        /\ StartAgain(a, [prepare |-> m.number, number |-> m.number, value |-> m.value])

-----------------------------------------------------------------------------
(***************************************************************************)
(* The answers to a former life.                                           *)
(***************************************************************************)

(* The assertion at the head of on_promise and on_denial fails.            *)
Trips(m) ==
  /\ Asserts
  /\ m.type \in {"PROMISE", "DENIAL"}
  /\ m.prepare_number > current_proposal_number[m.to]

AssertFails(m) ==
  /\ running[m.to]
  /\ Trips(m)
  /\ running' = [running EXCEPT ![m.to] = FALSE]
  /\ UNCHANGED <<proposerVars, acceptorVars, learnerVars, timerVars, msgs,
                 restarts, historyVars>>

(* on_promise counts an answer to a former life: to a round the proposer   *)
(* has not come to again, which only the assertion forbids, or one that    *)
(* the former life has counted already and the network repeats.            *)
Misleads(m) ==
  /\ m.type = "PROMISE"
  /\ \/ m.prepare_number > current_proposal_number[m.to]
     \/ m \in counted /\ m.from \notin promised[m.to]

(* A datagram is handled, for the first time or again.                     *)
Deliver(m) ==
  /\ ~Trips(m)
  /\ Dispatch(m)
  /\ counted' = IF m.type = "PROMISE" THEN counted \cup {m} ELSE counted
  /\ misled' = (misled \/ Misleads(m))
  /\ UNCHANGED restarts

RecoveryNext ==
  \/ \E s \in Proposers, v \in Values :
       Submit(s, v) /\ UNCHANGED <<restarts, historyVars>>
  \/ \E s \in Servers : DeadlineExpires(s) /\ UNCHANGED <<restarts, historyVars>>
  \/ \E s \in Servers : OnDeadline(s) /\ UNCHANGED <<restarts, historyVars>>
  \/ \E m \in msgs : Deliver(m)
  \/ \E s \in Servers : Restart(s)
  \/ \E m \in msgs : RestartAfterWrite(m)
  \/ \E m \in msgs : AssertFails(m)

RecoverySpec == RecoveryInit /\ [][RecoveryNext]_recoveryVars

-----------------------------------------------------------------------------
(* Until a proposer is misled the slot is safe.  Nothing else that a       *)
(* restart forgets, the numbers used, the promises counted, the votes      *)
(* learned from, can make two commands be chosen (Consistency), let a      *)
(* later round go against a chosen command (ChosenBindsLaterRounds), or a  *)
(* learner know what was not chosen (LearnedIsChosen).                     *)
AgreesUnlessMisled == ~misled => Consistency

BindsUnlessMisled == ~misled => ChosenBindsLaterRounds

LearnsUnlessMisled == ~misled => LearnedIsChosen

(* And the instance still implements Consensus, where a server's result is *)
(* what its learner was informed of: a restart takes no result back, and   *)
(* the server is never informed of another one afterwards.                 *)
Durable == INSTANCE Consensus
             WITH proposed <- Proposed, chosen <- Chosen, learned <- Told

RecoveryImplementsConsensus ==
  Durable!Init /\ [][misled' \/ Durable!Next]_(Durable!vars)

(* With restarts the instance is a LogSlot that forgets what was only      *)
(* learned from a majority, and nothing else, until a proposer is misled.  *)
RecoveryImplementsSlot ==
  Slot!Init /\ [][misled' \/ Slot!RestartNext]_(Slot!vars)
=============================================================================
