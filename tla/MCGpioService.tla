--------------------------- MODULE MCGpioService ---------------------------
(* An instance of GpioService: two clients of one pin, one in either       *)
(* direction.                                                              *)
EXTENDS GpioService, TLC

CONSTANTS u1, u2, pin

BothUsers == {u1, u2}
SamePin == [u \in BothUsers |-> pin]
EitherWay == (u1 :> "out") @@ (u2 :> "in")

\* Each client may give up on a call and make the next one.
Bound == [u \in BothUsers |-> 2]
=============================================================================
