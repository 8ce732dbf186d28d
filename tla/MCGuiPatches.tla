---------------------------- MODULE MCGuiPatches ----------------------------
(* An instance of GuiPatches: addresses that make one, two or three groups, *)
(* with a byte between two modified ones, and a patch made by hand with the *)
(* id that the dialog proposes, apart from these or on that byte.           *)
EXTENDS GuiPatches

OneByHand == {[id |-> 0, at |-> 20, bytes |-> <<"m">>]}
OneBetween == {[id |-> 0, at |-> 1, bytes |-> <<"m">>]}
=============================================================================
