------------------------- MODULE MCCancellationState -------------------------
(* An instance of CancellationState for TLC. *)
EXTENDS CancellationState
=============================================================================
