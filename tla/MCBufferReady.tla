--------------------------- MODULE MCBufferReady ---------------------------
(* An instance of BufferReady: one callback thread at a time.              *)
EXTENDS BufferReady

CONSTANT t1
=============================================================================
