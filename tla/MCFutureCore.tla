---------------------------- MODULE MCFutureCore -----------------------------
(* A thread pool, an inline executor and a deferred one for each of them, so  *)
(* that completingKA can match the callback's executor, differ or be null.    *)
EXTENDS FutureCore

CONSTANTS pool, inline, deferredPool, deferredInline

MCExecutors == {pool, inline, deferredPool, deferredInline}
MCDeferred == {deferredPool, deferredInline}
MCGiven == [d \in MCDeferred |-> IF d = deferredPool THEN pool ELSE inline]
=============================================================================
