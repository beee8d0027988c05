------------------------ MODULE MCPaxosInstanceLive ------------------------
EXTENDS PaxosInstanceLive, PaxosInstanceInv
=============================================================================
