------------------------- MODULE PaxosServerRestart -------------------------
(***************************************************************************)
(* The servers of PaxosServer, stopped at any moment and started again     *)
(* with need_recovery: PaxosServer::recover replays the learner's log up   *)
(* to its first hole.  What a server was informed of is in the log; the    *)
(* heap, the expected values, the timers and the cache are not.            *)
(***************************************************************************)
EXTENDS PaxosServer, LogFile

CONSTANT MaxRestarts   \* bound: the number of restarts

ASSUME MaxRestartsAssumption == MaxRestarts \in Nat

VARIABLES log_file,    \* the file of each server's learner log
          restarts     \* the number of restarts so far

restartVars == <<vars, log_file, restarts>>

RestartInit == Init /\ log_file = [s \in Servers |-> EmptyFile] /\ restarts = 0

-----------------------------------------------------------------------------
(* on_inform writes the record before anything is executed.                *)
LoggedInform(m) ==
  /\ OnInform(m)
  /\ log_file' = [log_file EXCEPT ![m.to] = Written(@, m.sequence)]
  /\ UNCHANGED restarts

(* Mutant: the replay goes past execute_command's cache.                   *)
ReplaysAll(known, n) == 1 .. n

(* The slots of 1 .. n whose command the replay applies: with at_most_once *)
(* those that no earlier slot holds.                                       *)
Replays(known, n) ==
  {q \in 1 .. n : AtMostOnce =>
     \A p \in 1 .. (q - 1) : CommandAt(known, p).value # CommandAt(known, q).value}

(* The process of s starts again with file f, where the records `known'    *)
(* are written.  A replayed message names no responsible server: its field *)
(* is 0, which is a server's id.                                           *)
StartAgain(s, f, known) ==
  LET read  == {m \in known : m.sequence \in ReadFrom(f)}
      n     == MinSequence(f, {m.sequence : m \in read})
      fresh == Replays(read, n)
      slots == InOrder(fresh)
  IN
  /\ restarts < MaxRestarts
  /\ restarts' = restarts + 1
  /\ log_file' = [log_file EXCEPT ![s] = Reopened(f)]
  /\ informed' = [informed EXCEPT ![s] = read]
  /\ learned_majority' = [learned_majority EXCEPT ![s] = {m.sequence : m \in read}]
  /\ executed_cmd_seq' = [executed_cmd_seq EXCEPT ![s] = n]
  /\ cmd_min_set' = [cmd_min_set EXCEPT ![s] = {}]
  /\ seq_to_expected_values' =
       [seq_to_expected_values EXCEPT ![s] = [q \in Slots |-> NoCommand]]
  /\ client_ops_to_response' = [client_ops_to_response EXCEPT ![s] =
       {[CommandAt(read, q) EXCEPT !.responsible_server_id = 0] :
          q \in IF AtMostOnce THEN fresh ELSE {}}]
  /\ applied' = [applied EXCEPT ![s] =
       [k \in DOMAIN slots |-> CommandAt(read, slots[k]).value]]
  /\ postponed' = [postponed EXCEPT ![s] = {}]
  /\ running' = [running EXCEPT ![s] = TRUE]
  /\ UNCHANGED <<prepared, proposed, chosen, netVars>>

(* Between two handlers, or while a handler spins.                         *)
Restart(s) == StartAgain(s, log_file[s], informed[s])

(* The process stops in on_inform, after the write to the log and before   *)
(* the command is executed and answered.                                   *)
RestartAfterWrite(m) ==
  LET s == m.to IN
  /\ running[s]
  /\ m.sequence \notin InformedSlots(s)
  /\ StartAgain(s, Written(log_file[s], m.sequence), informed[s] \cup {m})

Others ==
  \/ \E q \in Slots : Choose(q)
  \/ \E s \in Servers, q \in Slots, reached \in SUBSET Servers : LearnMajority(s, q, reached)
  \/ \E b, s \in Servers, q \in Slots : InformOutdated(b, s, q)
  \/ \E s \in Servers, v \in Commands : Submit(s, v)
  \/ \E s \in Servers : \E r \in postponed[s] : Resubmit(s, r)

RestartNext ==
  \/ Others /\ UNCHANGED <<log_file, restarts>>
  \/ \E m \in informs : LoggedInform(m)
  \/ \E s \in Servers : Restart(s)
  \/ \E m \in informs : RestartAfterWrite(m)

RestartSpec == RestartInit /\ [][RestartNext]_restartVars

-----------------------------------------------------------------------------
(* A restart loses nothing that the server was informed of, in whatever    *)
(* order the slots were written to the file; and no slot that it had       *)
(* executed, unless the file is full (logger.cpp:36).                      *)
RestartKeeps ==
  [][\A s \in Servers :
       /\ informed[s] \subseteq informed'[s]
       /\ executed_cmd_seq'[s] < executed_cmd_seq[s] =>
            Full(log_file'[s], {m.sequence : m \in informed'[s]})]_restartVars

(* The servers still implement CommandLog, a restart being a replay of the *)
(* log: whatever is lost, no server applies a command out of order, or     *)
(* twice with at_most_once, or answers about what it has not executed.     *)
RestartImplementsCommandLog == Abstract!RestartSpec

(* Every slot is used as an instance that restarts from its log lets them  *)
(* use it: what a server replays it was told before (PaxosRecovery).       *)
RestartUsesSlots ==
  /\ \A q \in Slots : Slot(q)!Init
  /\ [][\A q \in Slots : UNCHANGED Slot(q)!vars \/ Slot(q)!RestartNext]_restartVars
=============================================================================
