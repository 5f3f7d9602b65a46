-------------------------- MODULE MCFutureInterrupt --------------------------
(* A promise and up to two continuations. *)
EXTENDS FutureInterrupt
=============================================================================
