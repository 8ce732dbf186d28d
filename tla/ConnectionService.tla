------------------------- MODULE ConnectionService -------------------------
(***************************************************************************)
(* What one connection to rebear-server promises its client, and all that  *)
(* NetworkClient assumes of it: complete requests are answered one by one, *)
(* in the order they were sent, until the server's end closes for good.    *)
(***************************************************************************)
EXTENDS Naturals

CONSTANT Conns  \* the connections

VARIABLES asked,   \* asked[c]: complete requests sent on c
          served,  \* served[c]: responses sent on c
          up       \* up[c]: the server's end has not been closed

vars == <<asked, served, up>>

Init == /\ asked = [c \in Conns |-> 0]
        /\ served = [c \in Conns |-> 0]
        /\ up = [c \in Conns |-> TRUE]

Ask(c) == /\ asked' = [asked EXCEPT ![c] = @ + 1]
          /\ UNCHANGED <<served, up>>

Serve(c) == /\ up[c] /\ served[c] < asked[c]
            /\ served' = [served EXCEPT ![c] = @ + 1]
            /\ UNCHANGED <<asked, up>>

\* Several connections may go down at once, with the process.
Drop(S) == /\ up' = [c \in Conns |-> up[c] /\ c \notin S]
           /\ UNCHANGED <<asked, served>>

Next == \/ \E c \in Conns : Ask(c) \/ Serve(c)
        \/ \E S \in SUBSET Conns : Drop(S)

Spec == Init /\ [][Next]_vars
=============================================================================
