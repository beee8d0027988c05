----------------------------- MODULE Ascending -----------------------------
(***************************************************************************)
(* The order in which slots are executed.                                  *)
(***************************************************************************)
EXTENDS Naturals, FiniteSets

(* A finite set of slots, from the smallest to the largest.  (SetToSortSeq *)
(* of the community modules, in one definition that proofs can expand.)    *)
InOrder(S) ==
  CHOOSE f \in [1 .. Cardinality(S) -> S] :
    \A i, j \in 1 .. Cardinality(S) : i < j => f[i] < f[j]
=============================================================================
