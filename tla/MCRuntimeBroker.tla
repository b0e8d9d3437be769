--------------------------- MODULE MCRuntimeBroker ----------------------------
(* RuntimeBroker with one or two executor threads.  The runs check liveness  *)
(* too, so the threads are not declared symmetric.                           *)
EXTENDS RuntimeBroker

CONSTANTS w1, w2
=============================================================================
