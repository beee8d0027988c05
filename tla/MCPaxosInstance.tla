-------------------------- MODULE MCPaxosInstance --------------------------
EXTENDS PaxosInstanceInv, TLC
Symmetry == Permutations(Values)
=============================================================================
