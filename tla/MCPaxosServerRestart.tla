------------------------ MODULE MCPaxosServerRestart ------------------------
EXTENDS PaxosServerRestart, PaxosServerInv, TLC
Symmetry == Permutations(Commands)
=============================================================================
