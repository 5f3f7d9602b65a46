---------------------------- MODULE MCFutureProxy ----------------------------
(* A chain of up to three cores and one executor for the consumer. *)
EXTENDS FutureProxy
=============================================================================
