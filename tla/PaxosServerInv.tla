--------------------------- MODULE PaxosServerInv ---------------------------
(***************************************************************************)
(* The inductive invariant of PaxosServer.                                 *)
(***************************************************************************)
EXTENDS PaxosServer

(* A slot is only used once the slot before it is decided, and INFORMs     *)
(* tell what was decided.                                                  *)
SlotInv ==
  /\ \A q \in Slots :
       /\ chosen[q] \subseteq proposed[q]
       /\ chosen[q] = {} \/ \E v \in Commands : chosen[q] = {v}
       /\ q # 1 /\ proposed[q] # {} => chosen[q - 1] # {}
  /\ \A m \in informs : chosen[m.sequence] = {m.value}

(* A server is informed of each slot by one INFORM, of all the slots it    *)
(* has executed, and not of the next one; the heap has the rest.           *)
InformedInv ==
  \A s \in Servers :
    /\ informed[s] \subseteq {m \in informs : m.to = s}
    /\ \A m1, m2 \in informed[s] : m1.sequence = m2.sequence => m1 = m2
    /\ \A q \in 1 .. executed_cmd_seq[s] : q \in InformedSlots(s)
    /\ executed_cmd_seq[s] + 1 \notin InformedSlots(s)
    /\ cmd_min_set[s] = {m \in informed[s] : m.sequence > executed_cmd_seq[s]}

(* Only executed commands are in the cache.                                *)
ResponsesInv ==
  \A s \in Servers :
    client_ops_to_response[s] \subseteq
      {m \in informed[s] : m.sequence <= executed_cmd_seq[s]}

(* What waits for a timer is in no entry any more.                         *)
PostponedInv ==
  \A s \in Servers : \A r \in postponed[s] :
    /\ r.sequence <= executed_cmd_seq[s]
    /\ seq_to_expected_values[s][r.sequence] = NoCommand

(* All of it: why slots have no holes and the heap is drained although     *)
(* servers choose slots, and INFORMs arrive, in any order (server.cpp:237, *)
(* server.cpp:361).                                                        *)
ServerInv ==
  /\ StateTypes
  /\ SlotInv
  /\ InformedInv
  /\ ResponsesInv
  /\ PostponedInv
  /\ ResponsibleAnswers

(* The state of a server is that of the first slots of the log, and with   *)
(* at_most_once the cache knows exactly the commands of these slots: else  *)
(* a repeated command would be applied again, or one never applied be      *)
(* answered (server.cpp:245).                                              *)
AppliedInv ==
  /\ applied = [s \in Servers |-> Abstract!Effective(executed_cmd_seq[s])]
  /\ \A s \in Servers :
       {r.value : r \in client_ops_to_response[s]} =
         IF AtMostOnce THEN {Log[q] : q \in 1 .. executed_cmd_seq[s]} ELSE {}
=============================================================================
