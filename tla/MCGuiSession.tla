---------------------------- MODULE MCGuiSession ----------------------------
(* An instance of GuiSession: one more transaction than a poll reads, and   *)
(* room for a request that was given up on beside the next one.             *)
EXTENDS GuiSession

Room == [u \in Users |-> IF u = "button" THEN 2 ELSE 1]
=============================================================================
