-------------------------- MODULE MCPaxosRecovery --------------------------
EXTENDS PaxosRecoveryInv, TLC

(* The properties of run recovery say nothing of what follows when a        *)
(* proposer was misled, or are proved of it (PromisesKept): it is left out. *)
Unmisled == ~misled

Symmetry == Permutations(Values)
=============================================================================
