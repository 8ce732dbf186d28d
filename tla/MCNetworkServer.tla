-------------------------- MODULE MCNetworkServer --------------------------
EXTENDS NetworkServer

CONSTANTS k1, k2

\* Two requests on the first connection, one on the second.
Bound == [c \in Conns |-> IF c = k1 THEN 2 ELSE 1]
=============================================================================
