-------------------------- MODULE MCNetworkClient --------------------------
(* Instances of NetworkClient.                                              *)
EXTENDS NetworkClient

CONSTANTS c1, c2, t1, t2, t3

\* Every thread has types of its own, the first one two of them: one thread
\* per protocol object.
PrivateTypes == [c \in Callers |-> IF c = c1 THEN {t1, t2} ELSE {t3}]

\* Any thread sends any type.
SharedTypes == [c \in Callers |-> Types]
=============================================================================
