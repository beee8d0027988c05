----------------------------- MODULE LockClient -----------------------------
(***************************************************************************)
(* The clients and the service they talk to.  A client numbers its         *)
(* operations, sends a SUBMIT to one server after the other until it gets  *)
(* an answer, and keeps its last number in a file; it may stop at any      *)
(* moment and start again at the same port.                                *)
(*                                                                         *)
(* Of the servers only what they promise (CommandLog) is left: a submitted *)
(* command may be decided late, never, or several times, since it was sent *)
(* to several servers; each decided command is executed once, in order;    *)
(* its response may arrive late, repeatedly or never.  Sending a SUBMIT    *)
(* once more adds nothing to that, so the loops of lock_or_unlock that do  *)
(* it, and the choice of the server, are no actions of their own.          *)
(***************************************************************************)
EXTENDS LockService

CONSTANTS Filed,          \* the clients that keep their client_op_id in a file
          Restarting,     \* the clients that may start again
          NoMessage,      \* no operation under way, no answer received
          MaxOperations,  \* bound: the last client_op_id of a client
          MaxExecutions,  \* bound: the number of decided commands
          MaxRestarts     \* bound: the number of restarts

ASSUME FiledAssumption == Filed \subseteq Clients /\ Restarting \subseteq Clients
(* A registered client that starts again does so with its file.            *)
ASSUME RestartAssumption == Registered \cap Restarting \subseteq Filed
ASSUME NoMessageAssumption == NoMessage \notin ProposalValues(Operations \cup Results)
ASSUME ClientBoundsAssumption ==
  MaxOperations \in Nat /\ MaxExecutions \in Nat /\ MaxRestarts \in Nat

VARIABLES
  client_op_id,     \* the number of the client's last operation
  client_log_file,  \* the number its file holds
  submitted,        \* the command it waits for, or NoMessage
  response,         \* the response it has taken for the answer, or NoMessage
  holds,            \* the objects it was told it holds and has not given back
  restarted,        \* how often each client was started again
  submits,          \* the commands sent to any server
  responses,        \* the responses sent by any server
  executions        \* the number of commands executed

clientVars == <<client_op_id, client_log_file, submitted, response, holds, restarted>>
vars == <<serviceVars, clientVars, submits, responses, executions>>

Init ==
  /\ ServiceInit
  /\ client_op_id    = [c \in Clients |-> 0]
  /\ client_log_file = [c \in Clients |-> 0]
  /\ submitted       = [c \in Clients |-> NoMessage]
  /\ response        = [c \in Clients |-> NoMessage]
  /\ holds           = [c \in Clients |-> {}]
  /\ restarted       = [c \in Clients |-> 0]
  /\ submits = {}
  /\ responses = {}
  /\ executions = 0

-----------------------------------------------------------------------------
(* Mutant: the number is advanced after the answer and not before the call.*)
SameOperationId(c) == client_log_file[c] + 1

NextOperationId(c) == client_op_id[c] + 1

(* lock_or_unlock up to the first send.  A client that asks to unlock an   *)
(* object does not count on it any more.                                   *)
Call(c, op, o) ==
  LET cmd == [client_id |-> c, client_once |-> NextOperationId(c),
              operation |-> op, object |-> o]
  IN  /\ submitted[c] = NoMessage
      /\ client_op_id[c] < MaxOperations
      /\ client_op_id' = [client_op_id EXCEPT ![c] = NextOperationId(c)]
      /\ submitted' = [submitted EXCEPT ![c] = cmd]
      /\ submits' = submits \cup {cmd}
      /\ holds' = [holds EXCEPT ![c] = IF op = "UNLOCK" THEN @ \ {o} ELSE @]
      /\ UNCHANGED <<serviceVars, client_log_file, response, restarted,
                     responses, executions>>

(* The servers execute a submitted command and answer.                     *)
Execute(cmd) ==
  /\ executions < MaxExecutions
  /\ executions' = executions + 1
  /\ ExecuteCommand(cmd)
  /\ responses' = responses \cup {Response(cmd)}
  /\ UNCHANGED <<clientVars, submits>>

(* Mutant: the client does not compare client_once.                        *)
AnyAnswer(c, r) == r.client_id = c

(* A response of an earlier operation is skipped, any other is the answer. *)
Answers(c, r) == r.client_id = c /\ r.client_once >= client_op_id[c]

Receive(c, r) ==
  /\ submitted[c] # NoMessage
  /\ response[c] = NoMessage
  /\ Answers(c, r)
  /\ response' = [response EXCEPT ![c] = r]
  /\ UNCHANGED <<serviceVars, client_op_id, client_log_file, submitted, holds,
                 restarted, submits, responses, executions>>

(* The number is written to the file, and the result returned.             *)
Return(c) ==
  /\ response[c] # NoMessage
  /\ client_log_file' = [client_log_file EXCEPT ![c] = IF c \in Filed THEN client_op_id[c] ELSE @]
  /\ submitted' = [submitted EXCEPT ![c] = NoMessage]
  /\ response' = [response EXCEPT ![c] = NoMessage]
  /\ holds' = [holds EXCEPT ![c] =
       IF response[c].operation \in {"LOCK_SUCCEED", "LOCK_AGAIN"}
       THEN @ \cup {response[c].object} ELSE @]
  /\ UNCHANGED <<serviceVars, client_op_id, restarted, submits, responses, executions>>

(* Mutant: the file is not read.                                           *)
StartsFromZero(c) == 0

StartingId(c) == client_log_file[c]

(* The client stops, and starts again at the same port.                    *)
Restart(c) ==
  /\ restarted[c] < MaxRestarts
  /\ restarted' = [restarted EXCEPT ![c] = @ + 1]
  /\ client_op_id' = [client_op_id EXCEPT ![c] = StartingId(c)]
  /\ submitted' = [submitted EXCEPT ![c] = NoMessage]
  /\ response' = [response EXCEPT ![c] = NoMessage]
  /\ holds' = [holds EXCEPT ![c] = {}]
  /\ UNCHANGED <<serviceVars, client_log_file, submits, responses, executions>>

Next ==
  \/ \E c \in Clients, op \in Operations, o \in Objects : Call(c, op, o)
  \/ \E cmd \in submits : Execute(cmd)
  \/ \E c \in Clients : \E r \in responses : Receive(c, r)
  \/ \E c \in Clients : Return(c)
  \/ \E c \in Restarting : Restart(c)

Spec == Init /\ [][Next]_vars

-----------------------------------------------------------------------------
(* The type invariant.                                                     *)
TypeOK ==
  /\ object_lock_state \in [Objects -> Clients \cup {Nobody}]
  /\ client_ops_to_response \subseteq ProposalValues(Results)
  /\ client_op_id \in [Clients -> Nat]
  /\ client_log_file \in [Clients -> Nat]
  /\ submitted \in [Clients -> ProposalValues(Operations) \cup {NoMessage}]
  /\ response \in [Clients -> ProposalValues(Results) \cup {NoMessage}]
  /\ holds \in [Clients -> SUBSET Objects]
  /\ restarted \in [Clients -> Nat]
  /\ submits \subseteq ProposalValues(Operations)
  /\ responses \subseteq ProposalValues(Results)
  /\ executions \in 0 .. MaxExecutions

(* A client with at_most_once that was told it holds a lock, and has not   *)
(* asked to give it back, does hold it at the servers: whatever commands,  *)
(* its own of earlier calls and earlier processes included, are decided    *)
(* late or again, and although its file is written after the answer.       *)
HolderOwns ==
  \A c \in Registered : \A o \in holds[c] : object_lock_state[o] = c

(* Whichever server answers, and however often an operation was decided,   *)
(* all responses to one operation of a registered client are the same.     *)
OneResponsePerOperation ==
  \A r1, r2 \in responses :
    r1.client_id = r2.client_id /\ r1.client_once = r2.client_once
      /\ r1.client_id \in Registered => r1 = r2

Result(op) == IF op = "LOCK" THEN {"LOCK_SUCCEED", "LOCK_AGAIN", "LOCK_FAILED"}
                             ELSE {"UNLOCK_SUCCEED", "UNLOCK_RELEASED", "UNLOCK_FAILED"}

(* What a client takes for the answer answers the call it waits for, as    *)
(* long as it was not stopped in a call before: late responses to earlier  *)
(* calls are told apart.                                                   *)
AnswersTheCall ==
  \A c \in Clients :
    restarted[c] = 0 /\ response[c] # NoMessage =>
      /\ response[c].client_once = submitted[c].client_once
      /\ response[c].operation \in Result(submitted[c].operation)
      /\ response[c].object = submitted[c].object
=============================================================================
