----------------------------- MODULE Consensus -----------------------------
(***************************************************************************)
(* What one Paxos instance promises to the server that owns the log slot:  *)
(* at most one command is ever chosen, it is one that somebody submitted,  *)
(* and a server that learns the result learns the chosen command and never *)
(* unlearns it.                                                            *)
(***************************************************************************)
CONSTANTS Servers,  \* the servers that learn
          Values    \* the commands that can be proposed

VARIABLES proposed, \* the commands some server has started a round for
          chosen,   \* the set of chosen commands: empty, or one command
          learned   \* learned[s]: what server s knows: nothing, or the command

vars == <<proposed, chosen, learned>>

Init == /\ proposed = {}
        /\ chosen = {}
        /\ learned = [s \in Servers |-> {}]

Propose(v) == /\ proposed' = proposed \cup {v}
              /\ UNCHANGED <<chosen, learned>>

(* The first command to reach a majority is chosen, and no other after it. *)
Choose(v) == /\ chosen = {}
             /\ v \in proposed
             /\ chosen' = {v}
             /\ UNCHANGED <<proposed, learned>>

(* A server that does not know the result yet learns the chosen command.   *)
Learn(s) == /\ learned[s] = {}
            /\ chosen # {}
            /\ learned' = [learned EXCEPT ![s] = chosen]
            /\ UNCHANGED <<proposed, chosen>>

Next == \/ \E v \in Values : Propose(v) \/ Choose(v)
        \/ \E s \in Servers : Learn(s)

Spec == Init /\ [][Next]_vars
=============================================================================
