---------------------------- MODULE LockClientInv ----------------------------
(***************************************************************************)
(* The inductive invariant of LockClient.                                  *)
(***************************************************************************)
EXTENDS LockClient

(* The number of the last call that returned.                              *)
LastAnswered(c) ==
  IF submitted[c] = NoMessage THEN client_op_id[c] ELSE client_op_id[c] - 1

(* The client counts on: it has not lost a number it has given.            *)
Regular(c) == restarted[c] = 0 \/ c \in Filed

(* The present process gave all numbers that are not answered yet.         *)
Fresh(c) == restarted[c] = 0 \/ holds[c] # {}

(* r is a response to the command m.                                       *)
ResponseTo(r, m) ==
  /\ r.client_id = m.client_id
  /\ r.client_once = m.client_once
  /\ r.object = m.object
  /\ r.operation \in Result(m.operation)

SameOperation(r, m) == r.client_id = m.client_id /\ r.client_once = m.client_once

(* What a client waits for and has received belongs to its present number. *)
CallInv ==
  \A c \in Clients :
    /\ submitted[c] # NoMessage =>
         /\ submitted[c] \in submits
         /\ submitted[c].client_id = c
         /\ submitted[c].client_once = client_op_id[c]
         /\ client_op_id[c] > 0
         /\ submitted[c].operation = "UNLOCK" => submitted[c].object \notin holds[c]
    /\ response[c] # NoMessage =>
         /\ submitted[c] # NoMessage
         /\ response[c] \in responses
         /\ response[c].client_id = c
         /\ response[c].client_once >= client_op_id[c]

FileInv ==
  \A c \in Clients :
    /\ c \in Filed => client_log_file[c] = LastAnswered(c)
    /\ restarted[c] # 0 => c \in Restarting

(* At most one number is given and not answered; only a former process may *)
(* have given it to another command.                                       *)
NumbersInv ==
  \A m \in submits :
    LET c == m.client_id IN
    Regular(c) =>
      /\ m.client_once <= LastAnswered(c) + 1
      /\ Fresh(c) /\ m.client_once > LastAnswered(c) =>
           submitted[c] # NoMessage /\ m = submitted[c]

(* Responses come from submitted commands; those to registered clients are *)
(* kept, one for each operation.                                           *)
CacheInv ==
  /\ \A r \in responses \cup client_ops_to_response :
       \E m \in submits : ResponseTo(r, m)
  /\ \A r \in responses : r.client_id \in Registered => r \in client_ops_to_response
  /\ \A r \in client_ops_to_response : r.client_id \in Registered
  /\ \A r1, r2 \in client_ops_to_response : SameOperation(r1, r2) => r1 = r2

(* Every command of a registered client up to its last answered call is in *)
(* the cache: it will never be applied again.                              *)
AnsweredIsKept ==
  \A m \in submits :
    m.client_id \in Registered /\ m.client_once <= LastAnswered(m.client_id) =>
      \E r \in client_ops_to_response : SameOperation(r, m)

(* A success that the client has not been told of yet is still true.       *)
PendingInv ==
  \A r \in client_ops_to_response :
    /\ r.client_once > LastAnswered(r.client_id)
    /\ r.operation \in {"LOCK_SUCCEED", "LOCK_AGAIN"}
    => object_lock_state[r.object] = r.client_id

(* All of it.  HolderOwns says of what the client was told what PendingInv *)
(* says of what it will be told (client.cpp:70, server.cpp:252).           *)
ClientInv ==
  /\ TypeOK
  /\ CallInv
  /\ FileInv
  /\ NumbersInv
  /\ CacheInv
  /\ AnsweredIsKept
  /\ PendingInv
  /\ HolderOwns
=============================================================================
