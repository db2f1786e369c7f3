------------------------------ MODULE MCForward -----------------------------
(* Forward with a request of two chunks and an answer of one.              *)
EXTENDS Forward

MCChunks == [out |-> 2, in |-> 1]
=============================================================================
