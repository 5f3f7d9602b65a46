----------------------------- MODULE MCMPMCQueue ------------------------------
(* A queue that fills up and runs empty; every thread writes itself.          *)
EXTENDS MPMCQueue, ComputeStride

MCPayload == [t \in Threads |-> {t}]
ASSUME StrideIsComputed == stride = computeStride(capacity)

\* The constructor gives the queue a stride under which, for every capacity, the
\* tickets of a turn have slots of their own and neighbours are as far apart as
\* the table of primes allows (BestStride, looked at when the queue is built).
BuiltWithBestStride == Init => BestStride
=============================================================================
