---------------------------- MODULE LockService ----------------------------
(***************************************************************************)
(* The state machine that the servers replicate: who holds the lock of     *)
(* each object, and the answers kept for clients whose operations count    *)
(* once.  Every server applies the commands in the order of CommandLog, so *)
(* one copy stands for all of them.                                        *)
(***************************************************************************)
EXTENDS Naturals

CONSTANTS Clients,     \* the endpoints of the clients
          Registered,  \* those with a registered port, where at_most_once is on
          Objects,     \* the objects that can be locked
          Nobody       \* unused_udp_ipv4_number, the owner of a free object

ASSUME ClientsAssumption == Registered \subseteq Clients /\ Nobody \notin Clients

VARIABLES object_lock_state,      \* the owner of each object
          client_ops_to_response  \* the responses kept

serviceVars == <<object_lock_state, client_ops_to_response>>

Operations == {"LOCK", "UNLOCK"}
Results == {"LOCK_SUCCEED", "LOCK_AGAIN", "LOCK_FAILED",
            "UNLOCK_SUCCEED", "UNLOCK_RELEASED", "UNLOCK_FAILED"}

(* ProposalValues: commands, and responses, which carry a result instead.  *)
ProposalValues(operations) ==
  [client_id : Clients, client_once : Nat, operation : operations, object : Objects]

ServiceInit ==
  /\ object_lock_state = [o \in Objects |-> Nobody]
  /\ client_ops_to_response = {}

-----------------------------------------------------------------------------
LockResult(owner, client) ==
  CASE owner = Nobody -> "LOCK_SUCCEED"
    [] owner = client -> "LOCK_AGAIN"
    [] OTHER -> "LOCK_FAILED"

(* Mutant: an object can be unlocked by a client that does not hold it.    *)
UnlockResultForAll(owner, client) ==
  IF owner = Nobody THEN "UNLOCK_RELEASED" ELSE "UNLOCK_SUCCEED"

(* Mutant: the response to somebody who does not hold it is left as it came.*)
UnlockResultNoElse(owner, client) ==
  CASE owner = Nobody -> "UNLOCK_RELEASED"
    [] owner = client -> "UNLOCK_SUCCEED"
    [] OTHER -> "UNLOCK"

UnlockResult(owner, client) ==
  CASE owner = Nobody -> "UNLOCK_RELEASED"
    [] owner = client -> "UNLOCK_SUCCEED"
    [] OTHER -> "UNLOCK_FAILED"

(* The response of a command that is applied now.                          *)
Applied(cmd) ==
  LET owner == object_lock_state[cmd.object] IN
  [cmd EXCEPT !.operation = IF @ = "LOCK" THEN LockResult(owner, cmd.client_id)
                                          ELSE UnlockResult(owner, cmd.client_id)]

(* Mutant: responses are kept but not looked for.                          *)
NeverKept(cmd) == {}

(* The response of the same operation of the same client, if it was kept.  *)
Kept(cmd) ==
  {r \in client_ops_to_response :
     r.client_id = cmd.client_id /\ r.client_once = cmd.client_once}

Response(cmd) ==
  IF Kept(cmd) # {} THEN CHOOSE r \in Kept(cmd) : TRUE ELSE Applied(cmd)

(* execute_command.                                                        *)
ExecuteCommand(cmd) ==
  \/ /\ Kept(cmd) # {}
     /\ UNCHANGED serviceVars
  \/ /\ Kept(cmd) = {}
     /\ object_lock_state' = [object_lock_state EXCEPT ![cmd.object] =
          CASE Applied(cmd).operation = "LOCK_SUCCEED"   -> cmd.client_id
            [] Applied(cmd).operation = "UNLOCK_SUCCEED" -> Nobody
            [] OTHER -> @]
     /\ client_ops_to_response' =
          IF cmd.client_id \in Registered THEN client_ops_to_response \cup {Applied(cmd)}
                                          ELSE client_ops_to_response
=============================================================================
