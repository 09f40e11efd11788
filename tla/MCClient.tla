------------------------------ MODULE MCClient ------------------------------
EXTENDS Client

CONSTANTS p1, p2

MCPeers == <<p1, p2>>
=============================================================================
