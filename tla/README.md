# naive_paxos in TLA+

A verification project for `naive_paxos`, a lock service replicated over a log
of single-decree Paxos instances (C++, one `io_context` on one thread, UDP).
It holds TLA+ modules for the Paxos instance, the servers above it, their log
files and restarts, the lock service and its clients; TLC configurations that
check them on small instances; and TLAPS proofs of the main safety properties for
every number of servers, slots, clients and objects.

Source paths below are relative to the repository's root; the program is in
`src/`, `util/`, `server_main.cpp` and `client_main.cpp`.

## 1. Inventory

| Component | State | Operations | Talks to |
|---|---|---|---|
| **Proposer** (`src/proposer.*`) | number of its round, best accepted proposal reported so far, sets of promised and denied acceptors, "had a majority" flag | `on_submit`, `prepare`, `on_promise`, `accept`, `on_denial`, two timer handlers | reads the learner beside it; sends PREPARE and ACCEPT; arms the deadline timer |
| **Acceptor** (`src/acceptor.*`) | highest number promised, highest number and value accepted | `on_prepare`, `on_accept`, `promise`, `denial`, `accepted`, `rejected`, `inform_to_outdated_proposal`, `recover_from_state` | asks its learner whether it is informed; answers the sender; writes the log |
| **Learner** (`src/learner.*`) | highest number accepted and its value, acceptors that accepted it, `learned_majority_consensus`, `informed` | `on_accepted`, `inform`, `on_inform`, `recover_from_state` | cancels the deadline timer; sends INFORM to all servers; writes the log |
| **Instance, instance map** (`src/instance.*`) | one proposer, acceptor, learner and `deadline_timer` per slot | `get_instance` (creates on first use) | all of the above |
| **Server** (`src/server.*`) | `executed_cmd_seq`, heap `cmd_min_set`, `seq_to_expected_values`, `client_ops_to_response` | the two dispatchers, `on_submit_of_server`, `try_execute_commands`, `execute_command`, `response`, resubmit timer, `recover` | instances, clients, the lock state |
| **Lock service** (`object_lock_state` in `src/server.*`) | owner per object | LOCK, UNLOCK, NOOPS | called by `execute_command` |
| **Logger** (`src/logger.*`, `util/sync.hpp`) | acceptor file and learner file, one record per slot | append a block, write a record and sync, `recover_from_log` | acceptor, learner, `PaxosServer::recover` |
| **Client** (`src/client.*`) | `client_op_id` and its file, next server | send, wait, send again to the next server, match the answer | servers |
| **Connection** (`util/network.*`) | socket, buffers | `do_receive`, `do_send`, `resend_if_do_send_failed` | everything that sends |
| **Configuration, entry, message layout** | parsed options | parsing, `memcpy` serialisation | - |

How they interact: a client's SUBMIT makes a server choose the slot after the
last one it executed, start a round of that slot's proposer and remember what
it submitted. PREPARE, PROMISE or DENIAL, ACCEPT and ACCEPTED go between the
servers. The learner that counts a majority (ACCEPTED goes to the proposer of
the round only) sends INFORM to all servers *by datagram, itself included*, and
names its server as the responsible one. Only `on_inform` passes a command to
the executor, which runs the commands in the order of the slots; the responsible
server answers the client, and submits its own command again if another one won
the slot. A deadline timer starts a new round when the present one gets nowhere.

What is hard here, and what would go wrong:

* rounds of several proposers overlap, and messages are lost, repeated and
  delivered late: two commands chosen for a slot, a learner that counts
  acceptors of different numbers (agreement, promises, one value per number);
* `deadline_timer.cancel()` does not reach a wait that has expired and whose
  handler is queued (a submission without a timer; a round for a decided slot);
* the learner may know the result by its own majority, by an INFORM, or by
  both, and the handlers test different combinations of the two flags;
* INFORMs of several slots arrive in any order (execution order, forgotten or
  doubly executed commands);
* servers choose slots by what they executed themselves, and several submissions
  meet in one slot (holes, lost submissions, missing answers);
* a client operation can be decided for two slots (at most once);
* restarts: the proposal number is not logged, the log can have holes.

`PROJECT.json` lists each hazard with its line and the property that covers it.

## 2. Modules

```
Consensus,      <-- implemented by --  PaxosInstance   one slot, all servers
LogSlot                                   PaxosInstanceInv         inductive invariant
   |                                      PaxosInstanceProofs      safety theorems
   | every slot is                        PaxosInstanceRefinement  theorems: implements Consensus
   | used as a                                                     and LogSlot
   | LogSlot                              PaxosInstanceLive        loss, crashes, fairness
   |                                      PaxosRecovery            restarts from the logs
   |                                        PaxosRecoveryInv       inductive invariant
   |                                        PaxosRecoveryProofs    theorems, with restarts
   v
PaxosServer     -- implements -->  CommandLog          all slots, all servers
   PaxosServerInv                  inductive invariant     |
   PaxosServerProofs               safety theorems         | executes commands
   PaxosServerLive                 fairness and progress   | in one order
   PaxosServerRestart + LogFile    restarts from the log   v
   PaxosServerRestartProofs        safety theorems     LockService   object_lock_state
   PaxosServerRefinement           theorems: implements  LockClient  clients above it
                                   CommandLog, uses        LockClientInv     inductive invariant
                                   slots as LogSlot        LockClientProofs  safety theorems
   Ascending, AscendingProofs      slots in order
```

The `MC*` modules add the symmetry of the commands, or bring two modules
together for a run.

A definition named "Mutant" in a comment is a plausible mistake in the
definition that follows it. No specification uses it; it is there to see that
the properties notice the mistake when it takes that definition's place.

### PaxosInstance

One slot on all `N` servers. Each action is one handler from start to end, with
every call it makes; since `server_main.cpp` runs the `io_context` on one
thread, nothing interleaves inside a handler.

| Action | Code |
|---|---|
| `Submit` | `dispatch_server_message` -> `on_submit`, `prepare` |
| `DeadlineExpires`, `OnDeadline` | expiry of the wait armed in `prepare`/`accept`; its handler |
| `OnPromise` | `on_promise`, and `accept` when it completes the first majority |
| `OnDenial`, `OnMajorityDenial` | `on_denial`; with `on_submit` and `prepare` at a majority |
| `OnPrepare` | `on_prepare` and `promise_or_denial` (INFORM, DENIAL or PROMISE) |
| `OnAccept` | `on_accept` and `accepted_or_reject` |
| `OnAccepted` | learner's `on_accepted`, and `inform` at a majority |
| `OnInform` | learner's `on_inform` |

State and code have the same names, except that the proposer's
`highest_accepted_*` is `proposer_*` and the learner's is `learner_*`.
`deadline_timer[s]` holds the value of the message captured by the armed wait;
`expired[s]` the same for a wait that has expired and is queued, where
`cancel()` cannot reach it. `running[s]` turns `FALSE` when `prepare` writes
through the null pointer that `on_submit` returned (`src/server.cpp:72`).

The network is a set `msgs` that only grows: any message in it may be delivered
any number of times, in any order, or never. REJECTED is not in the model
because `dispatch_received_message` has no case for it: the datagram is dropped.

`PaxosInstanceLive` adds `Stop` (a server of `MayStop` is killed) and fairness;
see section 4.

### PaxosRecovery

`PaxosInstance` with restarts (`need_recovery`). `StartAgain` rebuilds a server:
the acceptor gets the record it wrote before it answered (`LoggedAcceptor`), the
learner counts as learned and informed if it had been informed
(`LearnerLogged`), everything else is constructed anew; the proposer numbers its
rounds from `s + N` again. `Restart` does that between two handlers,
`RestartAfterWrite` inside `on_prepare` or `on_accept`, after the write and
before the answer. `AssertFails` is an assertion of `on_promise` or `on_denial`
that stops the process (with `Asserts`: built without `NDEBUG`), `Deliver` any
other handler, for a datagram that arrives for the first time or again.

Two history variables, which no action reads in its guards, record what
proposers count. `counted` has the PROMISEs counted so far. `misled` turns true
when `on_promise` counts an answer to a former life of the proposer
(`Misleads`): one to a round that the new life has not reached, which only the
assertion at `src/proposer.cpp:77` forbids and `NDEBUG` removes; or one that the
former life has counted itself and that the network delivers again, when the new
life has come to the same number. A PROMISE to a former life that was not
counted by it does no harm, nor does one repeated within a life. `UDP` repeats
datagrams, and so may `src/util/network.hpp:73`. From that moment on two
commands can be chosen (run `number_reused`); until then nothing is wrong,
which is what the properties of `recovery` say and the theorems prove.

In a Release build a misled proposer that has no command of its own yet sends
ACCEPT with the empty command. The model has that too; the deadline it arms with
the empty command is one that does not expire there.

### PaxosServer

All servers and slots `1 .. MaxSequence`. A slot is represented by what the
servers see of its instance: who started a round (`prepared`), `proposed`,
`chosen` (at most one), and for each server whether its learner learned from a
majority (`learned_majority`) and by which INFORM it was informed (`informed`).
The two ways to learn are kept apart, because the server's own code tests
different flags. The actions of the slot (`Choose`, `LearnMajority`,
`InformOutdated`) are those of `LogSlot`, which `PaxosInstance` implements;
section 5 says how the two layers fit. `LearnMajority(s, q, reached)` lets any
server that sent a PREPARE learn; the instance allows it only to the proposer of
the accepted round, so this is more than the code can do. Only a datagram that
arrives matters, so `reached` is the set of servers that will get the INFORM.

| Action | Code |
|---|---|
| `Submit` | `dispatch_server_message`, the do-while loop and `emplace` |
| `Resubmit` | the handler of `random_resubmit_timer` |
| `OnInform` | the INFORM case: `on_inform`, `try_execute_commands`, `execute_command`, `response` |
| `InformOutdated` | an informed acceptor that answers PREPARE or ACCEPT |
| `LearnMajority`, `Choose` | the slot, see above |

The heap is the set of INFORMs that wait; `Turn` is the run of slots that the
loop in `try_execute_commands` takes out of it. `applied` is the sequence of
commands that reach `object_lock_state` (the lock state is a function of it);
`InOrder` of `Ascending` lists the slots of a turn, smallest first.
`client_ops_to_response` holds the first execution of each command, whose
sequence and responsible server are what a repeated command is answered with.
`Place` models the loop that asks `on_submit_of_server` for a slot until
`on_submit` accepts: the slot does not change while the loop runs, since only
another handler could change `executed_cmd_seq`; so a refused slot is a handler
that never returns, `running'[s] = FALSE`.

### LogFile and PaxosServerRestart

`LogFile` is the geometry of a log file: how many records it has, how many the
process believes it has (read at start-up and after an append), one block
appended whatever the slot, and what `recover_from_log` reads from it.
`MinSequence` is the loop that looks for the first hole. The writes of a handler
are synced before it goes on, so a record is in the file once the call returns.

`PaxosServerRestart` adds the file of the learner's log to `PaxosServer`:
`LoggedInform` is `OnInform` with the write, `Restart` starts a server again
between two handlers (or while one spins), `RestartAfterWrite` after the write of
`on_inform` and before the execution. `StartAgain` is `PaxosServer::recover`:
the commands up to the first hole are executed again, which rebuilds the cache;
what is behind the hole is informed but in no heap; timers and
`seq_to_expected_values` are gone. The replayed messages carry no responsible
server: the field is 0, which is also server 0's id.

Slots are used there as `LogSlot` with restarts, which `recovery` shows of an
instance until a proposer is misled.

### LockService and LockClient

`LockService` is `execute_command`: the owner of each object, the six results of
LOCK and UNLOCK, and the cache that answers a repeated operation of a client with
a registered port. Every server applies the same commands in the same order
(`CommandLog`), so one copy stands for all.

`LockClient` puts clients above it. `Call` is `lock_or_unlock` up to the first
send, `Receive` takes a response for the answer, `Return` writes the op id file
and returns; `Restart` starts the process again, anywhere, with the number of
its file. The servers are what they promise: a submitted command is executed
late, never or several times (`Execute`), and its response may arrive at any
time, also repeatedly. That covers the resending loops of the client, which have
no action of their own. `holds` is what the caller of the client knows: objects
it was told it holds and has not asked to give back.

### Consensus, LogSlot and CommandLog

The abstract specifications. `Consensus`: at most one command is chosen, it was
proposed, learners learn the chosen one and keep it. `LogSlot` is the same slot
with all that the servers see of it: a server that knows the result starts no
round, only one that started a round learns from a majority or is told by an
acceptor, and whoever is informed was sent an INFORM. Its `RestartSpec` lets a
server forget a majority it only heard of, and nothing that it was told.
`CommandLog`: one log that
only grows; every server applies a prefix of it, in order (with `at_most_once`
each command once); servers answer only about commands they have executed. Its
`RestartSpec` lets a server start again with a prefix that is no shorter, or
with nothing.

## 3. Runs

Every run checks deadlock off: the bounds make the system stop, and a system
with nothing submitted is idle anyway.

| Run | Shows | Bounds |
|---|---|---|
| `rounds` | agreement, one value per number, chosen binds later rounds, promises kept, the inductive invariant, the instance implements `Consensus` | 3 servers, 2 commands, proposers 0 and 1, numbers to 7 |
| `denial` | the assertions in `on_promise` and `on_denial` hold; an undecided submission always has a timer | 2 servers, two duelling proposers, numbers to 6, with DENIAL |
| `lossy_rounds` | a started submission is decided, although the first round's messages may all be lost and one of three servers may die | 3 servers, rounds 6 and 9 |
| `dueling` | learners are right, the inductive invariant with INFORM and retries, every server is informed although every DENIAL is lost, and the instance implements `LogSlot` | 2 servers, 2 commands, two proposers, numbers to 6 |
| `recovery` | until a proposer is misled: agreement, later rounds bound, learners, durable results (`Consensus` of what servers were informed of) and `LogSlot` with restarts; promises kept, and the inductive invariant `RecoveryInv` | 2 servers, 2 commands, one proposer, numbers to 6, 3 restarts |
| `servers` | types, the inductive invariants `ServerInv` and `AppliedInv`, no holes, nothing forgotten, responsible server answers, displaced submissions are kept, the servers implement `CommandLog` with `at_most_once` | 2 servers, 2 commands, 3 slots, 4 SUBMITs |
| `catching_up` | a server that misses every broadcast INFORM executes the slots it submits to; servers use every slot as a `LogSlot` | 3 servers, 2 slots, 2 SUBMITs, without `at_most_once` |
| `restart` | restarts: what is applied and cached is the log's (`AppliedInv`), no holes, nothing informed is lost, executed slots only if the file is full, the servers implement `CommandLog` with replays | 2 servers, 3 slots, 3 SUBMITs, blocks of 3 records, 2 restarts |
| `lock_client` | a client holds what it was told it holds, one response per operation, answers match calls, the inductive invariant | a registered client that restarts twice and an unregistered one, 2 objects, 2 operations each, 5 executions |

The bounds, all of them constants of the modules:

* `MaxNumber`: no round gets a larger number. Numbers of server `s` are `s + N`
  (before the first round), then `s + 2N, s + 3N, ...`. With `N = 3`, 7 gives
  servers 0 and 1 one round each, which overlap in every way; 9 gives one server
  two rounds. With `N = 2`, 6 gives server 0 two rounds and server 1 one.
* `Proposers`: which servers clients submit to. Any server takes part otherwise.
* `Lost`: types of message always lost. Leaving out DENIAL or INFORM is a legal
  behaviour of UDP, and neither is needed for the other properties of those
  runs; `denial` and `denied_after_decision` have DENIAL, and `lossy_rounds`,
  `dueling` and `recovery` have INFORM.
* One expired handler is queued per server at a time (`expired`).
* `MaxSequence`, `MaxSubmissions`: slots, and SUBMIT datagrams that arrive.
  Four SUBMITs at two servers are enough for two of them to meet in one slot, one
  to lose it and be submitted again, and a third slot to wait in the heap.
* `BlockSize`: the code's block is larger; 3 records put slots 1 and 2 in one
  block and slot 3 in the next, so that a block boundary, a full file and a write
  beyond the file's end all happen.
* `MaxRestarts`: two server restarts let a server fill a hole after the first
  and replay again; three in `recovery` let both servers lose what they had, and
  one of them twice. `Restarting`: which may restart.
* `MaxOperations`, `MaxExecutions`: a LOCK and an UNLOCK of each client, with
  one execution left to repeat any of them.

Two servers have majorities of two; where quorums matter the runs use three,
and the proofs cover every `N`. Symmetry is used over the commands, which the
code compares for equality only, and never in runs of liveness properties.

`recovery` follows a behaviour until a proposer is misled (the constraint
`Unmisled`), since its properties claim nothing of what comes after; only
`PromisesKept` holds for ever, which is proved and not checked. It has
assertions on, so that `AssertFails` happens; without them fewer processes die
and a DENIAL for a round not reached counts, which harms nothing. The network
repeats every type of message in it, PROMISEs too.

`CatchesUp` runs without `at_most_once` only to keep the graph small: the cache
plays no part in execution order.

### Where the code and its description part

Each of these has a run of its own that ends with the counterexample.

| Run | Line | What happens |
|---|---|---|
| `denied_after_decision` | `src/server.cpp:72` | the denial that completes a majority is handled after the slot is decided: `on_submit` returns `nullptr`, `prepare` dereferences it |
| `submit_before_inform` | `src/server.cpp:213` | a SUBMIT that arrives between a learner's majority and its own INFORM makes the loop spin for ever |
| `number_reused` | `src/proposer.cpp:11` | a proposer that starts again uses a number again for another command, and counts the PROMISEs that its former self counted for that number when they are repeated: two commands are chosen for one slot. No assertion fails on the way, so this is a behaviour of both builds |

The others follow from the models' actions and have no run:

* `src/proposer.cpp:77`: without assertions (`README.txt:20` offers a Release
  build, and `.github/workflows/cmake.yml` makes one) no PROMISE need be repeated
  for two commands to be chosen: one for a later round of the former life, late,
  counts for the present round as well (the first case of `Misleads`).
* `src/server.cpp:214`: two SUBMITs at one server for the same slot. The second
  starts a new round, `emplace` keeps the entry of the first. When the first is
  decided all the same, the second is dropped: there is no entry of it, and
  `DisplacedIsPostponed`, which is about entries, does not see it. The client's
  resending covers for it.
* `src/server.cpp:125`: a server that is informed of its slot by another server
  does not call `response()`, so its own losing submission is never submitted
  again, against `README.txt:89-92`. The client's resending covers for it.
* `src/server.cpp:260`: with `at_most_once` a repeated operation is answered
  with the message of its first execution, responsible server included; the
  server that the client turned to for its retry does not answer. This is why
  `ResponsibleAnswers` excludes commands that `Repeats`.
* `src/server.cpp:125` again: when two learners each learn from a majority and
  take each other's INFORM first, each drops its own as a duplicate and leaves
  the answer to the other; the client is answered about its retry only.
* `src/server.cpp:447`: what lies behind a hole after a restart is informed but
  not in the heap (`README.txt:160-163`). When the hole is filled, the slots
  behind it are not executed, and a SUBMIT for the first of them spins.
* `src/logger.cpp:36`: `min_sequence` is set where a hole is found. A file that
  is full to its last record has none, and nothing of it is executed after a
  restart; `RestartKeeps` names it as the only case in which that happens.
* `src/proposer.cpp:91`: a retried round whose promises complete after the slot
  was learned still sends ACCEPT (`OnPromise` does not ask `Refuses`), although
  `README.txt:76` says that a proposer does not. It is harmless.
* `src/learner.cpp:82`: `README.txt:230` calls INFORM optional. A server that
  learned from a majority and misses the INFORM to itself refuses every further
  round, and executes the slot only if another server informs it.
* `client_main.cpp:70`: a client without a port gets an ephemeral one, which
  `is_registered_port` (`util/network.cpp:33`) may count as registered. It has
  no op id file, so the next process with that port is given old answers.
  `RestartAssumption` excludes it.
* `README.txt:53-55` leaves at-most-once aside: a repeated UNLOCK of a client
  without a registered port that is decided late releases a lock that the client
  has taken since. `HolderOwns` is about registered clients for that reason.
* A client that is stopped in a call uses its number again (its file is written
  after the answer, `src/client.cpp:70`) and may be given the response to that
  call for another. `AnswersTheCall` is about clients that were not stopped;
  `HolderOwns` and `OneResponsePerOperation` hold all the same.

Agreement on the commands of the log is lost through one thing: a proposer that
has started again counts an answer to its former life. That takes a restart and
either a repeated PROMISE (`number_reused`, in any build) or one that arrives
late in a build without assertions; all properties of `recovery`, and what
`PaxosServerRestart` builds on it, hold up to that moment. `AgreesUnlessMisled`
is proved: there is no other way.

## 4. Fairness

*One slot.* `LiveSpec` of `PaxosInstanceLive` has weak fairness of `Progress`:
a timer that has expired is handled, and a message of a round numbered
`GoodRound` or above is delivered. The `io_context` runs every ready handler,
and the message assumption is the partial synchrony that Paxos needs; before
`GoodRound` everything may be lost. One fairness condition for all these steps
together suffices because each step that changes anything changes it for good
(a round begins, a message is added, an answer counted) and the number of rounds
is bounded, so no step can be put off for ever by the others. The last round the
bound allows has no deadline: it stands for a round whose deadline is long
enough. Clients are not obliged to submit.

*The servers.* `Fairness` of `PaxosServerLive`: slots that a majority could
decide are decided; a server that sent a PREPARE and cannot be answered by an
informed acceptor learns from a majority; an informed acceptor answers; an
INFORM that arrives is handled. The first two are what `UndecidedIsTimed` and
`SubmissionsAreDecided` show of an instance: the retries go on until a round is
decided. A learner's INFORM to its own server is assumed to arrive (loopback);
its loss has the effect described in section 3. All other INFORM broadcasts may
be lost.

No liveness is claimed of restarts (section 3 says why there is none behind a
hole) or of clients, which ask again as long as they like.

## 5. Proofs

All theorems are for arbitrary values of the constants; what they assume is the
named `ASSUME`s of the modules (`N > 0`, the null values are no commands, bounds
are numbers, blocks are not empty, registered clients restart with their file).
No theorem assumes anything of the build or of what the network repeats. Those
of `PaxosRecoveryProofs`, except `RecoveryPromisesBind`, are about a behaviour
until a proposer is `misled` (section 2), which is part of their statement;
after that they would be false of the code (`number_reused`).

| Module | Theorems (property) |
|---|---|
| `PaxosInstanceProofs` | `Invariance` (`IInv`), `TypeCorrect` (`TypeOK`), `Agreement` (`Consistency`), `LearnersAreRight` (`LearnedIsChosen`), `OneAcceptPerNumber` (`OneValuePerNumber`), `LaterRoundsBound` (`ChosenBindsLaterRounds`), `AssertsHold` (`AnswersNeverAhead`), `PromisesBind` (`PromisesKept`), `SubmissionsAreTimed` (`UndecidedIsTimed`) |
| `PaxosInstanceRefinement` | `Implementation` (`ImplementsConsensus`), `SlotImplementation` (`ImplementsSlot`) |
| `PaxosRecoveryProofs` | `RecoveryInvariance` (`RecoveryInv`), `RecoveryAgreement` (`AgreesUnlessMisled`), `RecoveryOneAccept` (`OneValuePerNumber`, unless misled), `RecoveryLaterRoundsBound` (`BindsUnlessMisled`), `RecoveryLearnersAreRight` (`LearnsUnlessMisled`), `RecoveryPromisesBind` (`PromisesKept`), `RecoveryImplementation` (`RecoveryImplementsConsensus`), `RecoverySlotImplementation` (`RecoveryImplementsSlot`) |
| `PaxosServerProofs` | `Invariance` (`ServerInv`), `NoSlotIsSkipped` (`NoHoles`), `NothingIsForgotten` (`NothingForgotten`), `ResponsibleServerAnswers` (`ResponsibleAnswers`), `DisplacedSubmissionsWait` (`DisplacedIsPostponed`) |
| `PaxosServerRestartProofs` | `NoSlotIsSkippedAfterRestarts` (`NoHoles`), `RestartsLoseNothing` (`RestartKeeps`) |
| `PaxosServerRefinement` | `AppliedInvariance` (`AppliedInv`), `Types` (`TypeOK`), `LogImplementation` (`ImplementsCommandLog`), `SlotUse` (`UsesSlots`), `SlotsAreAdmitted`, and with restarts `AppliedInvarianceAfterRestarts` (`AppliedInv`), `RestartLogImplementation` (`RestartImplementsCommandLog`), `RestartSlotUse` (`RestartUsesSlots`, which no run checks) |
| `AscendingProofs` | lemmas about `InOrder`: it exists, is unique, and concatenates |
| `LockClientProofs` | `Invariance` (`ClientInv`), `TypeCorrect` (`TypeOK`), `HoldersOwn` (`HolderOwns`), `OneResponse` (`OneResponsePerOperation`), `AnswersAreToTheCall` (`AnswersTheCall`) |

**The instance.** `IInv` (checked by `rounds` and `dueling`) is
`SafeInv /\ ReachedInv`. The second part, that a proposer has reached every round
which a message names, does not survive a restart; the first does. It conjoins

* `TypeOK`;
* `NumbersInv`: a server's numbers are congruent to it modulo `N`, and no
  message names a round its proposer has not started; so two servers never
  share a number;
* `ProposerInv`: what a proposer has counted is backed by PROMISE messages for
  its present round, and its value is the best of those, or its own;
* `AcceptorInv`, `PromiseInv`, `AcceptInv`: the acceptor's state dominates what
  it sent; a PROMISE reports the last vote below its number; an ACCEPT is backed
  by a majority of promises for its number;
* `OneValuePerNumber` and `VoteInv`: each ACCEPTED answers an ACCEPT with the
  same number and value;
* `LearnerInv`, `LearnedIsChosen`: what a learner counts was sent by the
  acceptors it counts.

`Consistency` alone is not inductive: that a new ACCEPT agrees with what is
already chosen needs the reason for its value. It is safe at its number: any
majority that could have chosen something earlier meets the majority that
promised, and the best of those promises carries the chosen value
(the argument of `SafeAt`). Quorum intersection is itself proved, from the
cardinality theorems of the library.

**Restarts of the instance.** A server that starts again has forgotten its round
and which promises it counted, so every lemma about a step is stated of
`SafeNext`, the steps in which a delivered PROMISE is `Timely`: it names no
round beyond the proposer's present one, and if it completes a majority no
ACCEPT of that number was ever sent. Without restarts every step is one of these
(`ReachedInv`); with them `CountingInv`, which `RecoveryInv` (checked by
`recovery`) claims while `misled` is false, shows it:

* a step that leaves `misled` false counts no PROMISE of a round which the
  proposer has not reached again;
* an acceptor answers a number with one PROMISE only, also across restarts,
  since it logs the number before it answers; so a PROMISE which the step counts
  is of an acceptor that no former life has counted for this number
  (`DeliveryInv`, `CountedOnce`);
* so an ACCEPT uses up a majority of the PROMISEs of its number for good
  (`PromisedTo`, `UsedUpInv`), and no later life finds a majority for that number
  again. That keeps `OneValuePerNumber`, and with it everything else.

`PromisesKept` does not depend on proposers. The second part of `RecoveryInv`,
`LogInv`, holds with misled proposers too: what an acceptor has promised is not
above the number in its record, and the record never falls (`RecordKept`).

The acceptor's record may say that it accepted a value although its ACCEPTED was
never sent (`RestartAfterWrite`); `AcceptorInv` therefore says of the accepted
value that it was proposed at its number, and not that a vote was sent.
`number_reused` shows that the condition `~misled` cannot be dropped.

**The servers.** `ServerInv` (checked by `servers`) conjoins

* `SlotInv`: a slot is used only after the one before it is decided, and an
  INFORM tells what was decided. A server submits to the slot after the last it
  executed; that slot it was informed of, so it is decided. That is all
  `NoHoles` needs;
* `InformedInv`: a server was informed of every slot it executed, *not* of the
  next one, and the heap has exactly the rest. The negative part is what
  `NothingForgotten` says; it is kept because the loop takes an interval out of
  the heap that ends before a missing slot (`TurnIsInterval`);
* `ResponsesInv`: the cache has executed commands only, so an answer taken from
  it is about an executed slot;
* `PostponedInv`: what waits for a timer is in no entry any more, so the erase
  in the resubmit handler drops nothing (`DisplacedIsPostponed`);
* `ResponsibleAnswers` itself.

**Restarts.** `RestartInv` keeps `SlotInv`, of `InformedInv` only what survives
a replay (executed slots are informed, the heap is a part of what was informed;
the next slot may be informed and in no heap, see section 3), and adds
`FileInv`: the file reaches beyond every slot of which the server was informed.
`WrittenReaches` shows that of a write, although only one block is appended, and
`MinSequenceBounds` that the replay stops exactly at the first hole, or the file
is full.

**The log of commands.** `AppliedInv` says that the applied sequence is the
effect of the log up to the slot executed, and what the cache knows. Together
with either invariant above it gives the refinement step by step: a decision
appends to the log (`ChooseAppends`: the slot after the last decided one is the
only one that can be decided), an INFORM executes a turn (`OnInformExecutes`), a
replay executes the log up to the first hole of the file or nothing
(`StartAgainReplays`), and everything else submits or changes nothing
(`OthersAbstractly`). The steps on sequences rest on `EffectGrows`: what the
slots up to `n` apply is what those up to `e` apply followed by what the slots
after `e` apply, and with `at_most_once` a slot after `e` applies exactly if its
command is neither in the cache nor in an earlier slot of the turn
(`FreshCoversLog`). `InOrder` is defined by what it returns, the increasing
function onto the set; that there is one (`OrderExists`, by the least
bound on the slots for which there would be none) and only one (`OrderIsUnique`) makes
it usable in proofs.

**The two layers.** `PaxosInstance` and `PaxosServer` describe one program from
two sides: the first has all the messages of one slot and lets any server submit
at any time, the second all the slots and only what their instances show. No run
has both at once, so `LogSlot` states what they must agree on, from both sides:

* `SlotImplementation` and `RecoverySlotImplementation`: each step of an instance
  is a step of `LogSlot` or leaves the slot, as the servers see it, unchanged.
  Beyond the invariants above this needs `RoundsInv`: a PROMISE or an ACCEPTED is
  sent to a server that started a round, and only such a server sends ACCEPT.
* `SlotUse` and `RestartSlotUse`: each step of the servers is on every slot a step
  of `LogSlot` or none. In particular a resubmission never starts a round for a
  slot that the server knows, and a replay gives each slot back as it was told,
  or as the INFORM told that was written just before the process stopped.
* `SlotsAreAdmitted`: wherever `LogSlot` may decide, learn or inform by itself, while
  no server proposes or is informed, `PaxosServer` has the corresponding step. So
  the model of the servers does not rest on slots that are tamer than an
  instance, as far as `LogSlot` shows one.

`RestartSlotUse` is proved only: evaluating `RestartUsesSlots` on every step
would nearly double the time of `restart`.

This is an argument about the interface and not a theorem about one joint
specification. Not in the interface are the responsible server that an INFORM
names (`PaxosServer` models it, `PaxosInstance` does not need it) and the end of
a process, which takes steps away and adds none.

**The clients.** `HolderOwns` fails to be inductive because a response that was
not received yet may grant a lock: `PendingInv` says of every success which the
client has not been told of that it is still true. That rests on
`AnsweredIsKept` (all commands up to the last answered number are in the cache,
hence never applied again), on `CacheInv` (one response per operation), and on
`NumbersInv` and `FileInv`: at most one number is given and not answered, also
over restarts, since the file holds the last answered one. `CallInv` relates the
call under way to the number.

**Only model-checked** are `SubmissionsAreDecided`, `DecisionReachesAll` and
`CatchesUp`: liveness, whose fairness and `ENABLED` the prover does not handle.
Every other property of a passing run is a theorem of the specification that
the run checks (in `dueling` no server may stop, so its `LiveSpec` implies
`Spec`).

## 6. Not modelled

* Serialisation (`memcpy` layout), argument and JSON parsing, logging to the
  terminal, buffers and socket errors. They hold no state of the protocol.
* The vendored headers `util/json.hpp` (24640 lines) and `util/magic_enum.hpp`
  (1531 lines): they are nine tenths of the repository's lines and no code of
  this program, which has about 2760 lines. The lines mapped in `PROJECT.json`
  are 4% of all lines and almost half of the program's; most of the remaining ones
  are declarations, constructors, output and parsing.
* The mutexes: one thread runs all handlers.
* 32-bit overflow of proposal and slot numbers: the bounds stay far below; the
  code has no provision for it.
* NOOPS: no client in the repository submits it; the commands of `PaxosServer`
  are LOCKs and UNLOCKs, whose execution always returns a response.
* The durability of a write that has returned: `pubsync` hands it to the
  operating system, so it survives the process and not necessarily the machine.
* Ports in the servers' model: a client is registered or not (`AtMostOnce`).

## 7. Plan

Done: the instance with its proofs, refinement, liveness and restarts; the
servers with theirs; the log file; the lock service and its clients.

Left, in order of importance:

1. liveness of clients over servers that answer.
