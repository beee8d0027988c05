--------------------------- MODULE MCPaxosServer ---------------------------
EXTENDS PaxosServerInv, TLC
Symmetry == Permutations(Commands)
=============================================================================
