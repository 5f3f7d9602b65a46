------------------------- MODULE MCDeferredExecutor -------------------------
(* A SemiFuture over one nested SemiFuture, two deferred functions on each, a
   pool executor and an inline executor. *)
EXTENDS DeferredExecutor
=============================================================================
