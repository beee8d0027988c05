-------------------------- MODULE LockClientProofs --------------------------
(***************************************************************************)
(* ClientInv is an invariant of LockClient, for all sets of clients and    *)
(* objects and all bounds; so are the properties it implies.               *)
(***************************************************************************)
EXTENDS LockClientInv, Integers, TLAPS

LEMMA NoMessageIsNone ==
  /\ NoMessage \notin ProposalValues(Operations)
  /\ NoMessage \notin ProposalValues(Results)
  BY NoMessageAssumption DEF ProposalValues

(* execute_command answers what it was asked.                              *)
LEMMA AppliedAnswers ==
  ASSUME NEW cmd \in ProposalValues(Operations), TypeOK
  PROVE  /\ Applied(cmd) \in ProposalValues(Results)
         /\ ResponseTo(Applied(cmd), cmd)
  <1> DEFINE owner == object_lock_state[cmd.object]
             op == IF cmd.operation = "LOCK" THEN LockResult(owner, cmd.client_id)
                                             ELSE UnlockResult(owner, cmd.client_id)
  <1>1. cmd = [client_id |-> cmd.client_id, client_once |-> cmd.client_once,
               operation |-> cmd.operation, object |-> cmd.object]
        /\ cmd.client_id \in Clients /\ cmd.client_once \in Nat
        /\ cmd.operation \in Operations /\ cmd.object \in Objects
    BY DEF ProposalValues
  <1>2. Applied(cmd) = [client_id |-> cmd.client_id, client_once |-> cmd.client_once,
                        operation |-> op, object |-> cmd.object]
    BY <1>1 DEF Applied
  <1>3. op \in Results /\ op \in Result(cmd.operation)
    BY <1>1 DEF LockResult, UnlockResult, Results, Result, Operations
  <1> QED BY <1>1, <1>2, <1>3 DEF ProposalValues, ResponseTo

(* The response is the one kept, or else the one of applying it now.       *)
LEMMA ResponseIs ==
  ASSUME NEW cmd
  PROVE  /\ Kept(cmd) # {} => Response(cmd) \in client_ops_to_response
                              /\ SameOperation(Response(cmd), cmd)
         /\ Kept(cmd) = {} => Response(cmd) = Applied(cmd)
  BY DEF Response, Kept, SameOperation

(* A registered client counts on.                                          *)
LEMMA RegisteredIsRegular ==
  ASSUME FileInv, NEW c \in Registered
  PROVE  Regular(c) /\ (restarted[c] # 0 => c \in Filed) /\ c \in Clients
  BY ClientsAssumption, RestartAssumption DEF FileInv, Regular

LEMMA Initial == Init => ClientInv
  <1> SUFFICES ASSUME Init PROVE ClientInv
    OBVIOUS
  <1> USE DEF Init, ServiceInit
  <1>1. TypeOK
    BY ClientBoundsAssumption DEF TypeOK
  <1>2. CallInv /\ FileInv /\ NumbersInv /\ CacheInv /\ AnsweredIsKept /\ PendingInv
    BY DEF CallInv, FileInv, NumbersInv, CacheInv, AnsweredIsKept, PendingInv, LastAnswered
  <1>3. HolderOwns
    BY ClientsAssumption DEF HolderOwns
  <1> QED BY <1>1, <1>2, <1>3 DEF ClientInv

LEMMA CallPreserves ==
  ASSUME ClientInv, NEW c \in Clients, NEW op \in Operations, NEW o \in Objects,
         Call(c, op, o)
  PROVE  ClientInv'
  <1> DEFINE cmd == [client_id |-> c, client_once |-> client_op_id[c] + 1,
                     operation |-> op, object |-> o]
  <1>0. /\ TypeOK /\ CallInv /\ FileInv /\ NumbersInv /\ CacheInv
        /\ AnsweredIsKept /\ PendingInv /\ HolderOwns
    BY DEF ClientInv
  <1>1. /\ submitted[c] = NoMessage
        /\ client_op_id' = [client_op_id EXCEPT ![c] = client_op_id[c] + 1]
        /\ submitted' = [submitted EXCEPT ![c] = cmd]
        /\ submits' = submits \cup {cmd}
        /\ holds' = [holds EXCEPT ![c] = IF op = "UNLOCK" THEN holds[c] \ {o} ELSE holds[c]]
        /\ UNCHANGED <<object_lock_state, client_ops_to_response, client_log_file, response,
                       restarted, responses, executions>>
    BY DEF Call, NextOperationId, serviceVars
  <1>2. /\ client_op_id \in [Clients -> Nat]
        /\ submitted \in [Clients -> ProposalValues(Operations) \cup {NoMessage}]
        /\ holds \in [Clients -> SUBSET Objects]
        /\ submits \subseteq ProposalValues(Operations)
        /\ restarted \in [Clients -> Nat]
        /\ responses \subseteq ProposalValues(Results)
        /\ client_ops_to_response \subseteq ProposalValues(Results)
    BY <1>0 DEF TypeOK
  <1>3. cmd \in ProposalValues(Operations) /\ cmd # NoMessage
    BY <1>2, NoMessageIsNone DEF ProposalValues
  <1>4. TypeOK'
    BY <1>0, <1>1, <1>2, <1>3 DEF TypeOK
  <1>5. \A d \in Clients : LastAnswered(d)' = LastAnswered(d)
    BY <1>1, <1>2, <1>3 DEF LastAnswered
  <1>6. LastAnswered(c) = client_op_id[c]
    BY <1>1 DEF LastAnswered
  <1>7. CallInv'
    BY <1>0, <1>1, <1>2, <1>3 DEF CallInv
  <1>8. FileInv'
    BY <1>0, <1>1, <1>5 DEF FileInv
  <1>9. NumbersInv'
    <2> SUFFICES ASSUME NEW m \in submits', Regular(m.client_id)'
                 PROVE  /\ m.client_once <= LastAnswered(m.client_id)' + 1
                        /\ Fresh(m.client_id)' /\ m.client_once > LastAnswered(m.client_id)' =>
                             submitted'[m.client_id] # NoMessage /\ m = submitted'[m.client_id]
      BY DEF NumbersInv
    <2>1. CASE m = cmd
      BY <2>1, <1>1, <1>2, <1>3, <1>5, <1>6
    <2>2. CASE m \in submits
      <3>1. m.client_id \in Clients /\ m.client_once \in Nat
        BY <2>2, <1>2 DEF ProposalValues
      <3>2. Regular(m.client_id) /\ (Fresh(m.client_id)' => Fresh(m.client_id))
        BY <1>1, <1>2, <3>1 DEF Regular, Fresh
      <3>3. CASE m.client_id = c
        <4>1. Fresh(c)' => ~(m.client_once > LastAnswered(c))
          BY <2>2, <3>2, <3>3, <1>0, <1>1 DEF NumbersInv
        <4> QED BY <2>2, <3>1, <3>2, <3>3, <4>1, <1>0, <1>5 DEF NumbersInv
      <3>4. CASE m.client_id # c
        <4>1. submitted'[m.client_id] = submitted[m.client_id]
          BY <3>1, <3>4, <1>1, <1>2
        <4> QED BY <2>2, <3>1, <3>2, <4>1, <1>0, <1>5 DEF NumbersInv
      <3> QED BY <3>3, <3>4
    <2> QED BY <2>1, <2>2, <1>1
  <1>10. CacheInv'
    BY <1>0, <1>1 DEF CacheInv
  <1>11. AnsweredIsKept'
    <2> SUFFICES ASSUME NEW m \in submits', m.client_id \in Registered,
                        m.client_once <= LastAnswered(m.client_id)'
                 PROVE  \E r \in client_ops_to_response' : SameOperation(r, m)
      BY DEF AnsweredIsKept, SameOperation
    <2>1. m.client_once <= LastAnswered(m.client_id)
      BY <1>5, ClientsAssumption
    <2>2. m # cmd
      BY <2>1, <1>6, <1>2
    <2> QED BY <2>1, <2>2, <1>0, <1>1 DEF AnsweredIsKept
  <1>12. PendingInv'
    BY <1>0, <1>1, <1>2, <1>5 DEF PendingInv, ProposalValues
  <1>13. HolderOwns'
    BY <1>0, <1>1, <1>2, ClientsAssumption DEF HolderOwns
  <1> QED BY <1>4, <1>7, <1>8, <1>9, <1>10, <1>11, <1>12, <1>13 DEF ClientInv

LEMMA ExecutePreserves ==
  ASSUME ClientInv, NEW cmd \in submits, Execute(cmd)
  PROVE  ClientInv'
  <1> DEFINE c == cmd.client_id
             answer == Response(cmd)
  <1>0. /\ TypeOK /\ CallInv /\ FileInv /\ NumbersInv /\ CacheInv
        /\ AnsweredIsKept /\ PendingInv /\ HolderOwns
    BY DEF ClientInv
  <1>1. /\ executions < MaxExecutions
        /\ executions' = executions + 1
        /\ ExecuteCommand(cmd)
        /\ responses' = responses \cup {answer}
        /\ UNCHANGED <<client_op_id, client_log_file, submitted, response, holds,
                       restarted, submits>>
    BY DEF Execute, clientVars
  <1>2. /\ cmd \in ProposalValues(Operations)
        /\ c \in Clients /\ cmd.client_once \in Nat /\ cmd.object \in Objects
        /\ cmd.operation \in Operations
        /\ client_ops_to_response \subseteq ProposalValues(Results)
        /\ submits \subseteq ProposalValues(Operations)
        /\ object_lock_state \in [Objects -> Clients \cup {Nobody}]
    BY <1>0 DEF TypeOK, ProposalValues
  <1>3. Applied(cmd) \in ProposalValues(Results) /\ ResponseTo(Applied(cmd), cmd)
    BY <1>0, <1>2, AppliedAnswers
  <1>4. \A d \in Clients : LastAnswered(d)' = LastAnswered(d)
    BY <1>1 DEF LastAnswered
  <1>5. CallInv' /\ FileInv' /\ NumbersInv'
    BY <1>0, <1>1, <1>2, <1>4
       DEF CallInv, FileInv, NumbersInv, Regular, Fresh, LastAnswered
  <1>6. CASE Kept(cmd) # {}
    <2>1. object_lock_state' = object_lock_state
          /\ client_ops_to_response' = client_ops_to_response
      BY <1>1, <1>6 DEF ExecuteCommand, serviceVars
    <2>2. answer \in client_ops_to_response
      BY <1>6, ResponseIs
    <2>3. TypeOK'
      BY <1>0, <1>1, <1>2, <2>1, <2>2, ClientBoundsAssumption DEF TypeOK
    <2>4. CacheInv'
      BY <1>0, <1>1, <2>1, <2>2 DEF CacheInv
    <2>5. AnsweredIsKept' /\ PendingInv' /\ HolderOwns'
      BY <1>0, <1>1, <2>1 DEF AnsweredIsKept, PendingInv, HolderOwns, LastAnswered
    <2> QED BY <1>5, <2>3, <2>4, <2>5 DEF ClientInv
  <1>7. CASE Kept(cmd) = {}
    <2> DEFINE owner == object_lock_state[cmd.object]
    <2>1. answer = Applied(cmd)
      BY <1>7, ResponseIs
    <2>2. /\ object_lock_state' = [object_lock_state EXCEPT ![cmd.object] =
               CASE Applied(cmd).operation = "LOCK_SUCCEED"   -> c
                 [] Applied(cmd).operation = "UNLOCK_SUCCEED" -> Nobody
                 [] OTHER -> owner]
          /\ client_ops_to_response' = IF c \in Registered
               THEN client_ops_to_response \cup {Applied(cmd)} ELSE client_ops_to_response
      BY <1>1, <1>7 DEF ExecuteCommand, serviceVars
    <2>3. /\ Applied(cmd).client_id = c
          /\ Applied(cmd).client_once = cmd.client_once
          /\ Applied(cmd).object = cmd.object
      BY <1>3 DEF ResponseTo
    <2>4. \A r \in client_ops_to_response : ~SameOperation(r, cmd)
      BY <1>7 DEF Kept, SameOperation
    <2>5. TypeOK'
      BY <1>0, <1>1, <1>2, <1>3, <2>1, <2>2, ClientBoundsAssumption DEF TypeOK
    <2>6. CacheInv'
      BY <1>0, <1>1, <1>2, <1>3, <2>1, <2>2, <2>3, <2>4 DEF CacheInv, SameOperation
    <2>7. AnsweredIsKept'
      BY <1>0, <1>1, <2>2 DEF AnsweredIsKept, LastAnswered, SameOperation
    <2>8. Applied(cmd).operation =
            IF cmd.operation = "LOCK" THEN LockResult(owner, c) ELSE UnlockResult(owner, c)
      BY <1>2 DEF Applied, ProposalValues
    (* Nobody but the owner changes the owner.                             *)
    <2>9. ASSUME NEW d \in Clients, NEW o \in Objects, object_lock_state[o] = d,
                 ~(d = c /\ o = cmd.object /\ cmd.operation = "UNLOCK")
          PROVE  object_lock_state'[o] = d
      BY <1>2, <2>2, <2>8, <2>9, ClientsAssumption DEF LockResult, UnlockResult, Operations
    (* The command of a registered client that is applied is the one of    *)
    (* the number that is not answered.                                    *)
    <2>10. ASSUME c \in Registered
           PROVE  /\ Regular(c)
                  /\ cmd.client_once = LastAnswered(c) + 1
                  /\ LastAnswered(c) \in Int
      <3>1. Regular(c)
        BY <1>0, <2>10, RegisteredIsRegular
      <3>2. LastAnswered(c) \in Int
        BY <1>0, <1>2 DEF LastAnswered, TypeOK
      <3>3. ~(cmd.client_once <= LastAnswered(c))
        BY <1>0, <2>4, <2>10 DEF AnsweredIsKept
      <3>4. cmd.client_once <= LastAnswered(c) + 1
        BY <1>0, <3>1 DEF NumbersInv
      <3> QED BY <1>2, <3>1, <3>2, <3>3, <3>4
    <2>11. PendingInv'
      <3> SUFFICES ASSUME NEW r \in client_ops_to_response',
                          r.client_once > LastAnswered(r.client_id)',
                          r.operation \in {"LOCK_SUCCEED", "LOCK_AGAIN"}
                   PROVE  object_lock_state'[r.object] = r.client_id
        BY DEF PendingInv
      <3>1. CASE r \in client_ops_to_response
        <4>1. /\ r.client_id \in Registered /\ r.client_id \in Clients
              /\ r.object \in Objects /\ r.client_once \in Nat
          BY <1>0, <1>2, <3>1 DEF CacheInv, ProposalValues
        <4>2. r.client_once > LastAnswered(r.client_id)
          BY <1>4, <4>1
        <4>3. object_lock_state[r.object] = r.client_id
          BY <1>0, <3>1, <4>2 DEF PendingInv
        <4>4. r.client_id # c
          <5> SUFFICES ASSUME r.client_id = c PROVE FALSE
            OBVIOUS
          <5>1. PICK m \in submits : ResponseTo(r, m)
            BY <1>0, <3>1 DEF CacheInv
          <5>2. m.client_id = c /\ m.client_once = r.client_once
            BY <5>1 DEF ResponseTo
          <5>3. r.client_once <= LastAnswered(c) + 1
            BY <1>0, <2>10, <4>1, <5>2 DEF NumbersInv
          <5>4. SameOperation(r, cmd)
            BY <2>10, <4>1, <4>2, <5>3 DEF SameOperation
          <5> QED BY <2>4, <3>1, <5>4
        <4> QED BY <2>9, <4>1, <4>3, <4>4
      <3>2. CASE r = Applied(cmd)
        BY <1>2, <2>2, <2>3, <2>8, <3>2 DEF LockResult, UnlockResult
      <3> QED BY <2>2, <3>1, <3>2
    <2>12. HolderOwns'
      <3> SUFFICES ASSUME NEW d \in Registered, NEW o \in holds[d]
                   PROVE  object_lock_state'[o] = d
        BY <1>1 DEF HolderOwns
      <3>1. d \in Clients /\ o \in Objects /\ object_lock_state[o] = d
        BY <1>0, ClientsAssumption DEF HolderOwns, TypeOK
      <3>2. ~(d = c /\ o = cmd.object /\ cmd.operation = "UNLOCK")
        <4> SUFFICES ASSUME d = c, o = cmd.object, cmd.operation = "UNLOCK" PROVE FALSE
          OBVIOUS
        <4>1. Fresh(c)
          BY DEF Fresh
        <4>2. submitted[c] # NoMessage /\ cmd = submitted[c]
          BY <1>0, <1>2, <2>10, <4>1 DEF NumbersInv
        <4> QED BY <1>0, <1>2, <4>2 DEF CallInv
      <3> QED BY <2>9, <3>1, <3>2
    <2> QED BY <1>5, <2>5, <2>6, <2>7, <2>11, <2>12 DEF ClientInv
  <1> QED BY <1>6, <1>7

LEMMA ReceivePreserves ==
  ASSUME ClientInv, NEW c \in Clients, NEW r \in responses, Receive(c, r)
  PROVE  ClientInv'
  <1>0. /\ TypeOK /\ CallInv /\ FileInv /\ NumbersInv /\ CacheInv
        /\ AnsweredIsKept /\ PendingInv /\ HolderOwns
    BY DEF ClientInv
  <1>1. /\ submitted[c] # NoMessage
        /\ r.client_id = c /\ r.client_once >= client_op_id[c]
        /\ response' = [response EXCEPT ![c] = r]
        /\ UNCHANGED <<object_lock_state, client_ops_to_response, client_op_id,
                       client_log_file, submitted, holds, restarted, submits,
                       responses, executions>>
    BY DEF Receive, Answers, serviceVars
  <1>2. TypeOK'
    BY <1>0, <1>1 DEF TypeOK
  <1>3. CallInv'
    BY <1>0, <1>1 DEF CallInv, TypeOK
  <1>4. FileInv' /\ NumbersInv' /\ CacheInv' /\ AnsweredIsKept' /\ PendingInv' /\ HolderOwns'
    BY <1>0, <1>1 DEF FileInv, NumbersInv, CacheInv, AnsweredIsKept, PendingInv, HolderOwns,
                      LastAnswered, Regular, Fresh
  <1> QED BY <1>2, <1>3, <1>4 DEF ClientInv

LEMMA ReturnPreserves ==
  ASSUME ClientInv, NEW c \in Clients, Return(c)
  PROVE  ClientInv'
  <1> DEFINE r == response[c]
             told == r.operation \in {"LOCK_SUCCEED", "LOCK_AGAIN"}
  <1>0. /\ TypeOK /\ CallInv /\ FileInv /\ NumbersInv /\ CacheInv
        /\ AnsweredIsKept /\ PendingInv /\ HolderOwns
    BY DEF ClientInv
  <1>1. /\ r # NoMessage
        /\ client_log_file' = [client_log_file EXCEPT ![c] =
             IF c \in Filed THEN client_op_id[c] ELSE client_log_file[c]]
        /\ submitted' = [submitted EXCEPT ![c] = NoMessage]
        /\ response' = [response EXCEPT ![c] = NoMessage]
        /\ holds' = [holds EXCEPT ![c] = IF told THEN holds[c] \cup {r.object} ELSE holds[c]]
        /\ UNCHANGED <<object_lock_state, client_ops_to_response, client_op_id, restarted,
                       submits, responses, executions>>
    BY DEF Return, serviceVars
  <1>2. /\ client_op_id \in [Clients -> Nat]
        /\ client_log_file \in [Clients -> Nat]
        /\ submitted \in [Clients -> ProposalValues(Operations) \cup {NoMessage}]
        /\ response \in [Clients -> ProposalValues(Results) \cup {NoMessage}]
        /\ holds \in [Clients -> SUBSET Objects]
        /\ submits \subseteq ProposalValues(Operations)
    BY <1>0 DEF TypeOK
  <1>3. /\ submitted[c] # NoMessage
        /\ r \in responses /\ r.client_id = c /\ r.client_once >= client_op_id[c]
        /\ client_op_id[c] > 0
    BY <1>0, <1>1 DEF CallInv
  <1>4. r \in ProposalValues(Results) /\ r.object \in Objects /\ r.client_once \in Nat
    BY <1>1, <1>2 DEF ProposalValues
  <1>5. LastAnswered(c) = client_op_id[c] - 1 /\ LastAnswered(c)' = client_op_id[c]
    BY <1>1, <1>2, <1>3 DEF LastAnswered
  <1>6. \A d \in Clients \ {c} : LastAnswered(d)' = LastAnswered(d)
    BY <1>1, <1>2 DEF LastAnswered
  <1>7. TypeOK'
    BY <1>0, <1>1, <1>2, <1>4 DEF TypeOK
  <1>8. CallInv'
    BY <1>0, <1>1, <1>2 DEF CallInv
  <1>9. FileInv'
    BY <1>0, <1>1, <1>2, <1>5, <1>6 DEF FileInv
  (* No number above the one that is answered now has been given.          *)
  <1>10. ASSUME NEW m \in submits, m.client_id = c, Regular(c)
         PROVE  m.client_once <= client_op_id[c] /\ m.client_once \in Nat
    BY <1>0, <1>2, <1>5, <1>10 DEF NumbersInv, ProposalValues
  <1>11. NumbersInv'
    <2> SUFFICES ASSUME NEW m \in submits, Regular(m.client_id)'
                 PROVE  /\ m.client_once <= LastAnswered(m.client_id)' + 1
                        /\ Fresh(m.client_id)' /\ m.client_once > LastAnswered(m.client_id)' =>
                             submitted'[m.client_id] # NoMessage /\ m = submitted'[m.client_id]
      BY <1>1 DEF NumbersInv
    <2>1. m.client_id \in Clients /\ Regular(m.client_id)
      BY <1>1, <1>2 DEF Regular, ProposalValues
    <2>2. CASE m.client_id = c
      BY <2>1, <2>2, <1>2, <1>5, <1>10
    <2>3. CASE m.client_id # c
      BY <2>1, <2>3, <1>0, <1>1, <1>2, <1>6 DEF NumbersInv, Fresh
    <2> QED BY <2>2, <2>3
  <1>12. CacheInv'
    BY <1>0, <1>1 DEF CacheInv
  <1>13. c \in Registered => r \in client_ops_to_response /\ Regular(c)
    BY <1>0, <1>3, RegisteredIsRegular DEF CacheInv
  <1>14. c \in Registered => r.client_once = client_op_id[c]
    <2> SUFFICES ASSUME c \in Registered PROVE r.client_once = client_op_id[c]
      OBVIOUS
    <2>1. PICK m \in submits : ResponseTo(r, m)
      BY <1>0, <1>3 DEF CacheInv
    <2>2. m.client_id = c /\ m.client_once = r.client_once
      BY <2>1, <1>3 DEF ResponseTo
    <2>3. r.client_once <= client_op_id[c]
      BY <2>2, <1>10, <1>13
    <2> QED BY <2>3, <1>2, <1>3, <1>4
  <1>15. AnsweredIsKept'
    <2> SUFFICES ASSUME NEW m \in submits, m.client_id \in Registered,
                        m.client_once <= LastAnswered(m.client_id)'
                 PROVE  \E k \in client_ops_to_response : SameOperation(k, m)
      BY <1>1 DEF AnsweredIsKept, SameOperation
    <2>1. m.client_id \in Clients /\ m.client_once \in Nat
      BY <1>2 DEF ProposalValues
    <2>2. CASE m.client_id = c /\ m.client_once = client_op_id[c]
      BY <2>2, <1>3, <1>13, <1>14 DEF SameOperation
    <2>3. CASE ~(m.client_id = c /\ m.client_once = client_op_id[c])
      BY <2>1, <2>3, <1>0, <1>2, <1>5, <1>6 DEF AnsweredIsKept
    <2> QED BY <2>2, <2>3
  <1>16. PendingInv'
    <2> SUFFICES ASSUME NEW k \in client_ops_to_response,
                        k.client_once > LastAnswered(k.client_id)',
                        k.operation \in {"LOCK_SUCCEED", "LOCK_AGAIN"}
                 PROVE  object_lock_state[k.object] = k.client_id
      BY <1>1 DEF PendingInv
    <2>1. k.client_id \in Registered /\ k.client_id \in Clients
      BY <1>0, ClientsAssumption DEF CacheInv
    <2>2. k.client_id # c
      <3> SUFFICES ASSUME k.client_id = c PROVE FALSE
        OBVIOUS
      <3>1. PICK m \in submits : ResponseTo(k, m)
        BY <1>0 DEF CacheInv
      <3> QED BY <2>1, <3>1, <1>2, <1>5, <1>10, <1>13 DEF ResponseTo
    <2> QED BY <2>1, <2>2, <1>0, <1>6 DEF PendingInv
  <1>17. HolderOwns'
    <2>1. c \in Registered /\ told => object_lock_state[r.object] = c
      BY <1>0, <1>2, <1>3, <1>5, <1>13, <1>14 DEF PendingInv
    <2> QED BY <2>1, <1>0, <1>1, <1>2, ClientsAssumption DEF HolderOwns
  <1> QED BY <1>7, <1>8, <1>9, <1>11, <1>12, <1>15, <1>16, <1>17 DEF ClientInv

LEMMA RestartPreserves ==
  ASSUME ClientInv, NEW c \in Restarting, Restart(c)
  PROVE  ClientInv'
  <1>0. /\ TypeOK /\ CallInv /\ FileInv /\ NumbersInv /\ CacheInv
        /\ AnsweredIsKept /\ PendingInv /\ HolderOwns
    BY DEF ClientInv
  <1>1. /\ restarted' = [restarted EXCEPT ![c] = restarted[c] + 1]
        /\ client_op_id' = [client_op_id EXCEPT ![c] = client_log_file[c]]
        /\ submitted' = [submitted EXCEPT ![c] = NoMessage]
        /\ response' = [response EXCEPT ![c] = NoMessage]
        /\ holds' = [holds EXCEPT ![c] = {}]
        /\ UNCHANGED <<object_lock_state, client_ops_to_response, client_log_file,
                       submits, responses, executions>>
    BY DEF Restart, StartingId, serviceVars
  <1>2. /\ c \in Clients
        /\ restarted \in [Clients -> Nat]
        /\ client_op_id \in [Clients -> Nat]
        /\ client_log_file \in [Clients -> Nat]
        /\ submitted \in [Clients -> ProposalValues(Operations) \cup {NoMessage}]
        /\ response \in [Clients -> ProposalValues(Results) \cup {NoMessage}]
        /\ holds \in [Clients -> SUBSET Objects]
        /\ submits \subseteq ProposalValues(Operations)
    BY <1>0, FiledAssumption DEF TypeOK
  <1>3. \A d \in Clients : d # c \/ d \in Filed => LastAnswered(d)' = LastAnswered(d)
    BY <1>0, <1>1, <1>2 DEF FileInv, LastAnswered
  <1>4. TypeOK'
    BY <1>0, <1>1, <1>2 DEF TypeOK
  <1>5. CallInv'
    BY <1>0, <1>1, <1>2 DEF CallInv
  <1>6. FileInv'
    BY <1>0, <1>1, <1>2, <1>3 DEF FileInv
  <1>7. NumbersInv'
    <2> SUFFICES ASSUME NEW m \in submits, Regular(m.client_id)'
                 PROVE  /\ m.client_once <= LastAnswered(m.client_id)' + 1
                        /\ Fresh(m.client_id)' /\ m.client_once > LastAnswered(m.client_id)' =>
                             submitted'[m.client_id] # NoMessage /\ m = submitted'[m.client_id]
      BY <1>1 DEF NumbersInv
    <2>1. m.client_id \in Clients
      BY <1>2 DEF ProposalValues
    <2>2. CASE m.client_id = c
      <3>1. c \in Filed /\ ~Fresh(c)' /\ Regular(c)
        BY <2>2, <1>1, <1>2 DEF Regular, Fresh
      <3> QED BY <2>1, <2>2, <3>1, <1>0, <1>3 DEF NumbersInv
    <2>3. CASE m.client_id # c
      BY <2>1, <2>3, <1>0, <1>1, <1>2, <1>3 DEF NumbersInv, Regular, Fresh
    <2> QED BY <2>2, <2>3
  <1>8. CacheInv'
    BY <1>0, <1>1 DEF CacheInv
  <1>9. \A d \in Registered : LastAnswered(d)' = LastAnswered(d)
    BY <1>3, ClientsAssumption, RestartAssumption
  <1>10. AnsweredIsKept' /\ PendingInv'
    BY <1>0, <1>1, <1>9 DEF AnsweredIsKept, PendingInv, CacheInv, SameOperation
  <1>11. HolderOwns'
    BY <1>0, <1>1, <1>2, ClientsAssumption DEF HolderOwns
  <1> QED BY <1>4, <1>5, <1>6, <1>7, <1>8, <1>10, <1>11 DEF ClientInv

LEMMA StutterPreserves == ClientInv /\ UNCHANGED vars => ClientInv'
  BY DEF ClientInv, TypeOK, CallInv, FileInv, NumbersInv, CacheInv, AnsweredIsKept,
         PendingInv, HolderOwns, LastAnswered, Regular, Fresh, vars, serviceVars, clientVars

(* The inductive invariant, for every set of clients and objects: the      *)
(* client library and the cache of the servers work together as below      *)
(* (client.cpp:7, server.cpp:245).                                         *)
THEOREM Invariance == Spec => []ClientInv
  <1>1. Init => ClientInv
    BY Initial
  <1>2. ClientInv /\ [Next]_vars => ClientInv'
    <2> SUFFICES ASSUME ClientInv, [Next]_vars PROVE ClientInv'
      OBVIOUS
    <2>1. ASSUME NEW c \in Clients, NEW op \in Operations, NEW o \in Objects, Call(c, op, o)
          PROVE  ClientInv'
      BY <2>1, CallPreserves
    <2>2. ASSUME NEW cmd \in submits, Execute(cmd) PROVE ClientInv'
      BY <2>2, ExecutePreserves
    <2>3. ASSUME NEW c \in Clients, NEW r \in responses, Receive(c, r) PROVE ClientInv'
      BY <2>3, ReceivePreserves
    <2>4. ASSUME NEW c \in Clients, Return(c) PROVE ClientInv'
      BY <2>4, ReturnPreserves
    <2>5. ASSUME NEW c \in Restarting, Restart(c) PROVE ClientInv'
      BY <2>5, RestartPreserves
    <2>6. CASE UNCHANGED vars
      BY <2>6, StutterPreserves
    <2> QED BY <2>1, <2>2, <2>3, <2>4, <2>5, <2>6 DEF Next
  <1> QED BY <1>1, <1>2, PTL DEF Spec

(* Every variable keeps its type; execute_command turns every operation    *)
(* into one of its results (server.cpp:265).                               *)
THEOREM TypeCorrect == Spec => []TypeOK
  <1>1. ClientInv => TypeOK
    BY DEF ClientInv
  <1> QED BY <1>1, Invariance, PTL

(* A registered client that was told it holds a lock holds it, for any     *)
(* number of restarts and of late or repeated decisions (client.cpp:70).   *)
THEOREM HoldersOwn == Spec => []HolderOwns
  <1>1. ClientInv => HolderOwns
    BY DEF ClientInv
  <1> QED BY <1>1, Invariance, PTL

(* However often an operation of a registered client is decided, it has    *)
(* one response (server.cpp:252).                                          *)
THEOREM OneResponse == Spec => []OneResponsePerOperation
  <1>1. ClientInv => OneResponsePerOperation
    BY DEF ClientInv, CacheInv, SameOperation, OneResponsePerOperation
  <1> QED BY <1>1, Invariance, PTL

(* A client that was not stopped takes no answer to an earlier call for    *)
(* the answer to this one (client.cpp:53).                                 *)
THEOREM AnswersAreToTheCall == Spec => []AnswersTheCall
  <1>1. ASSUME ClientInv PROVE AnswersTheCall
    <2>0. TypeOK /\ CallInv /\ NumbersInv /\ CacheInv
      BY <1>1 DEF ClientInv
    <2> SUFFICES ASSUME NEW c \in Clients, restarted[c] = 0, response[c] # NoMessage
                 PROVE  /\ response[c].client_once = submitted[c].client_once
                        /\ response[c].operation \in Result(submitted[c].operation)
                        /\ response[c].object = submitted[c].object
      BY DEF AnswersTheCall
    <2>1. /\ submitted[c] # NoMessage
          /\ response[c] \in responses
          /\ response[c].client_id = c
          /\ response[c].client_once >= client_op_id[c]
      BY <2>0 DEF CallInv
    <2>2. PICK m \in submits : ResponseTo(response[c], m)
      BY <2>0, <2>1 DEF CacheInv
    <2>3. m.client_id = c /\ m.client_once >= client_op_id[c] /\ m.client_once \in Nat
      BY <2>0, <2>1, <2>2 DEF ResponseTo, TypeOK, ProposalValues
    <2>4. LastAnswered(c) = client_op_id[c] - 1 /\ client_op_id[c] \in Nat
      BY <2>0, <2>1 DEF LastAnswered, TypeOK
    <2>5. m = submitted[c]
      BY <2>0, <2>3, <2>4 DEF NumbersInv, Regular, Fresh
    <2> QED BY <2>2, <2>5 DEF ResponseTo
  <1>2. ClientInv => AnswersTheCall
    BY <1>1
  <1> QED BY <1>2, Invariance, PTL
=============================================================================
