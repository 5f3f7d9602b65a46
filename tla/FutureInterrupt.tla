--------------------------- MODULE FutureInterrupt ---------------------------
(***************************************************************************)
(* Interrupts of futures (folly/futures/detail/Core.h, Core.cpp): raise()  *)
(* on the consumer's side against setInterruptHandler() on the producer's, *)
(* and the handler that every continuation copies from the core before it  *)
(* (initCopyInterruptHandlerFrom).                                         *)
(*                                                                         *)
(* Core 1 is the producer's; the consumer owns the future of core cur and  *)
(* each then() moves it to the next core.  interrupt_ is a tagged pointer: *)
(* TerminalNull is InterruptTerminal without a handler.                    *)
(***************************************************************************)
EXTENDS Integers, FiniteSets

CONSTANT N   \* length of the longest chain of continuations

ASSUME FutureInterruptAssumption == N \in Nat \ {0}

VARIABLES
  interrupt,  \* per core: interrupt_
  holders,    \* per core: who keeps it alive (attached_)
  result,     \* per core: hasResult()
  object,     \* per core: its exception_wrapper is allocated
  refCount,   \* of the handler; 0 when there is none
  cur,        \* the core whose future the consumer owns
  cpc, ppc,   \* where the consumer and the producer are
  handled,    \* history, per core: calls of the handler made for that core
  raised,     \* history, per core: a raise() passed its check and has returned
  inherits    \* history, per core: the core it continues had the handler when it was made

vars == <<interrupt, holders, result, object, refCount, cur, cpc, ppc, handled, raised, inherits>>

Cores == 1..N
Tags == {"Initial", "HasHandler", "HasObject", "Terminal", "TerminalNull"}
PointsToHandler == {"HasHandler", "Terminal"}

Init ==
  /\ interrupt = [c \in Cores |-> "Initial"]
  /\ holders = [c \in Cores |-> IF c = 1 THEN {"promise", "future"} ELSE {}]
  /\ result = [c \in Cores |-> FALSE]
  /\ object = [c \in Cores |-> FALSE]
  /\ refCount = 0
  /\ cur = 1 /\ cpc = "idle" /\ ppc = "idle"
  /\ handled = [c \in Cores |-> 0]
  /\ raised = [c \in Cores |-> FALSE]
  /\ inherits = [c \in Cores |-> FALSE]

\* A holder lets go of core c; the last one runs ~CoreBase.
Detach(c, h) ==
  /\ holders' = [holders EXCEPT ![c] = @ \ {h}]
  /\ refCount' = IF holders[c] = {h} /\ interrupt[c] \in PointsToHandler THEN refCount - 1 ELSE refCount
  /\ object' = [object EXCEPT ![c] = @ /\ ~(holders[c] = {h} /\ interrupt[c] = "HasObject")]
-----------------------------------------------------------------------------
(* raise(), by the owner of the future of core cur *)

Returned(c) == raised' = [raised EXCEPT ![c] = TRUE]

RaiseCheck ==
  /\ cpc = "idle" /\ ~result[cur]
  /\ cpc' = "raiseLoad"
  /\ UNCHANGED <<interrupt, holders, result, object, refCount, cur, ppc, handled, raised, inherits>>

RaiseLoad ==
  /\ cpc = "raiseLoad"
  /\ \/ interrupt[cur] = "Initial" /\ cpc' = "raiseCasObject" /\ UNCHANGED raised
     \/ interrupt[cur] = "HasHandler" /\ cpc' = "raiseCasHandler" /\ UNCHANGED raised
     \/ interrupt[cur] \in {"HasObject", "Terminal", "TerminalNull"} /\ cpc' = "idle" /\ Returned(cur)
  /\ UNCHANGED <<interrupt, holders, result, object, refCount, cur, ppc, handled, inherits>>

\* The object is allocated before and, when the CAS fails, deleted after it.
RaiseCasObject ==
  /\ cpc = "raiseCasObject"
  /\ \/ /\ interrupt[cur] = "Initial"
        /\ interrupt' = [interrupt EXCEPT ![cur] = "HasObject"]
        /\ object' = [object EXCEPT ![cur] = TRUE]
        /\ cpc' = "idle" /\ Returned(cur)
     \/ /\ interrupt[cur] = "HasHandler"
        /\ cpc' = "raiseCasHandler" /\ UNCHANGED <<interrupt, object, raised>>
     \/ /\ interrupt[cur] \in {"HasObject", "Terminal", "TerminalNull"}
        /\ cpc' = "idle" /\ Returned(cur) /\ UNCHANGED <<interrupt, object>>
  /\ UNCHANGED <<holders, result, refCount, cur, ppc, handled, inherits>>

RaiseCasHandler ==
  /\ cpc = "raiseCasHandler"
  /\ \/ /\ interrupt[cur] = "HasHandler"
        /\ interrupt' = [interrupt EXCEPT ![cur] = "Terminal"]
        /\ cpc' = "handle" /\ UNCHANGED raised
     \/ /\ interrupt[cur] # "HasHandler"
        /\ cpc' = "idle" /\ Returned(cur) /\ UNCHANGED interrupt
  /\ UNCHANGED <<holders, result, object, refCount, cur, ppc, handled, inherits>>

RaiseHandle ==
  /\ cpc = "handle"
  /\ handled' = [handled EXCEPT ![cur] = @ + 1]
  /\ cpc' = "idle" /\ Returned(cur)
  /\ UNCHANGED <<interrupt, holders, result, object, refCount, cur, ppc, inherits>>
-----------------------------------------------------------------------------
(* then(): a new core copies the handler of the one it continues *)

\* Mutant: the reference is taken only from a core that was not interrupted.
CopyLoadNoAcquire ==
  /\ cpc = "idle" /\ cur < N
  /\ holders' = [holders EXCEPT ![cur + 1] = {"promise", "future"}]
  /\ cpc' = IF interrupt[cur] \in PointsToHandler THEN "copyStore" ELSE "continue"
  /\ refCount' = IF interrupt[cur] = "HasHandler" THEN refCount + 1 ELSE refCount
  /\ inherits' = [inherits EXCEPT ![cur + 1] = interrupt[cur] \in PointsToHandler]
  /\ UNCHANGED <<interrupt, result, object, cur, ppc, handled, raised>>

\* Mutant: a core that was interrupted passes nothing on.
CopyLoadForgetsTerminal ==
  /\ cpc = "idle" /\ cur < N
  /\ holders' = [holders EXCEPT ![cur + 1] = {"promise", "future"}]
  /\ cpc' = IF interrupt[cur] = "HasHandler" THEN "copyStore" ELSE "continue"
  /\ refCount' = IF interrupt[cur] = "HasHandler" THEN refCount + 1 ELSE refCount
  /\ inherits' = [inherits EXCEPT ![cur + 1] = interrupt[cur] \in PointsToHandler]
  /\ UNCHANGED <<interrupt, result, object, cur, ppc, handled, raised>>

\* load and acquire(): the core continued is alive, and with it the handler.
CopyLoad ==
  /\ cpc = "idle" /\ cur < N
  /\ holders' = [holders EXCEPT ![cur + 1] = {"promise", "future"}]
  /\ cpc' = IF interrupt[cur] \in PointsToHandler THEN "copyStore" ELSE "continue"
  /\ refCount' = IF interrupt[cur] \in PointsToHandler THEN refCount + 1 ELSE refCount
  /\ inherits' = [inherits EXCEPT ![cur + 1] = interrupt[cur] \in PointsToHandler]
  /\ UNCHANGED <<interrupt, result, object, cur, ppc, handled, raised>>

\* The copy stores the pointer and never the tag: the new core is not terminal.
CopyStore ==
  /\ cpc = "copyStore"
  /\ interrupt' = [interrupt EXCEPT ![cur + 1] = "HasHandler"]
  /\ cpc' = "continue"
  /\ UNCHANGED <<holders, result, object, refCount, cur, ppc, handled, raised, inherits>>

\* setCallback(): the callback holds the core until it has run.
Continue ==
  /\ cpc = "continue"
  /\ holders' = [holders EXCEPT ![cur] = @ \cup {"callback"}]
  /\ cpc' = "detach"
  /\ UNCHANGED <<interrupt, result, object, refCount, cur, ppc, handled, raised, inherits>>

\* ~Future of the core that was continued.
DetachContinued ==
  /\ cpc = "detach"
  /\ Detach(cur, "future")
  /\ cur' = cur + 1 /\ cpc' = "idle"
  /\ UNCHANGED <<interrupt, result, ppc, handled, raised, inherits>>

\* ~Future of the last one.
Drop ==
  /\ cpc = "idle"
  /\ Detach(cur, "future")
  /\ cpc' = "done"
  /\ UNCHANGED <<interrupt, result, cur, ppc, handled, raised, inherits>>

\* The callback of core c-1 runs, completes core c and drops its promise.
Propagate(c) ==
  /\ c > 1 /\ result[c - 1] /\ "callback" \in holders[c - 1] /\ ~result[c]
  /\ result' = [result EXCEPT ![c] = TRUE]
  /\ Detach(c, "promise")
  /\ UNCHANGED <<interrupt, cur, cpc, ppc, handled, raised, inherits>>

\* The callback is destroyed and lets go of core c.
EndCallback(c) ==
  /\ c < N /\ "callback" \in holders[c] /\ result[c + 1]
  /\ Detach(c, "callback")
  /\ UNCHANGED <<interrupt, result, cur, cpc, ppc, handled, raised, inherits>>
-----------------------------------------------------------------------------
(* setInterruptHandler() on core 1, then setResult() and ~Promise *)

SihCheck ==
  /\ ppc = "idle" /\ ~result[1]
  /\ ppc' = "sihLoad"
  /\ UNCHANGED <<interrupt, holders, result, object, refCount, cur, cpc, handled, raised, inherits>>

SihLoad ==
  /\ ppc = "sihLoad"
  /\ ppc' = IF interrupt[1] = "Initial" THEN "sihCas"
            ELSE IF interrupt[1] = "HasObject" THEN "sihCasObject" ELSE "terminate"
  /\ UNCHANGED <<interrupt, holders, result, object, refCount, cur, cpc, handled, raised, inherits>>

\* Mutant: losing the race with raise() is taken for success.
SihCasGivesUp ==
  /\ ppc = "sihCas"
  /\ interrupt' = [interrupt EXCEPT ![1] = IF @ = "Initial" THEN "HasHandler" ELSE @]
  /\ refCount' = IF interrupt[1] = "Initial" THEN 1 ELSE 0
  /\ ppc' = "set"
  /\ UNCHANGED <<holders, result, object, cur, cpc, handled, raised, inherits>>

SihCas ==
  /\ ppc = "sihCas"
  /\ \/ /\ interrupt[1] = "Initial"
        /\ interrupt' = [interrupt EXCEPT ![1] = "HasHandler"]
        /\ refCount' = 1
        /\ ppc' = "set"
     \/ /\ interrupt[1] # "Initial"
        /\ ppc' = IF interrupt[1] = "HasObject" THEN "sihCasObject" ELSE "terminate"
        /\ UNCHANGED <<interrupt, refCount>>
  /\ UNCHANGED <<holders, result, object, cur, cpc, handled, raised, inherits>>

SihCasObject ==
  /\ ppc = "sihCasObject"
  /\ \/ /\ interrupt[1] = "HasObject"
        /\ interrupt' = [interrupt EXCEPT ![1] = "TerminalNull"]
        /\ ppc' = "sihHandle"
     \/ /\ interrupt[1] # "HasObject"
        /\ ppc' = "terminate" /\ UNCHANGED interrupt
  /\ UNCHANGED <<holders, result, object, refCount, cur, cpc, handled, raised, inherits>>

\* The handler is called here, in the producer, and the object deleted.
SihHandle ==
  /\ ppc = "sihHandle"
  /\ handled' = [handled EXCEPT ![1] = @ + 1]
  /\ object' = [object EXCEPT ![1] = FALSE]
  /\ ppc' = "set"
  /\ UNCHANGED <<interrupt, holders, result, refCount, cur, cpc, raised, inherits>>

\* With or without a handler.
SetResult ==
  /\ ppc \in {"idle", "set"} /\ ~result[1]
  /\ result' = [result EXCEPT ![1] = TRUE]
  /\ ppc' = IF ppc = "idle" THEN "noHandler" ELSE "set"
  /\ UNCHANGED <<interrupt, holders, object, refCount, cur, cpc, handled, raised, inherits>>

DetachPromise ==
  /\ ppc \in {"set", "noHandler"} /\ result[1] /\ "promise" \in holders[1]
  /\ Detach(1, "promise")
  /\ UNCHANGED <<interrupt, result, cur, cpc, ppc, handled, raised, inherits>>
-----------------------------------------------------------------------------
Raise == RaiseLoad \/ RaiseCasObject \/ RaiseCasHandler \/ RaiseHandle
Then == CopyStore \/ Continue \/ DetachContinued
Sih == SihLoad \/ SihCas \/ SihCasObject \/ SihHandle
Propagation(c) == Propagate(c) \/ EndCallback(c)

Next ==
  \/ RaiseCheck \/ Raise \/ CopyLoad \/ Then \/ Drop
  \/ SihCheck \/ Sih \/ SetResult \/ DetachPromise
  \/ \E c \in Cores : Propagation(c)

Spec == Init /\ [][Next]_vars

-----------------------------------------------------------------------------
(* Properties *)

\* The variables stay in their types.
TypeOK ==
  /\ interrupt \in [Cores -> Tags]
  /\ holders \in [Cores -> SUBSET {"promise", "future", "callback"}]
  /\ result \in [Cores -> BOOLEAN] /\ object \in [Cores -> BOOLEAN]
  /\ refCount \in 0..N
  /\ cur \in Cores
  /\ cpc \in {"idle", "raiseLoad", "raiseCasObject", "raiseCasHandler", "handle",
              "copyStore", "continue", "detach", "done"}
  /\ ppc \in {"idle", "sihLoad", "sihCas", "sihCasObject", "sihHandle", "set", "noHandler", "terminate"}
  /\ handled \in [Cores -> Nat] /\ raised \in [Cores -> BOOLEAN]
  /\ inherits \in [Cores -> BOOLEAN]

\* The handler's count is the number of live cores that point to it, and of the
\* copy under way: it is freed exactly with the last of them, so no raise() on a
\* continuation calls a freed handler, whichever core is destroyed first.  An
\* exception object lives exactly while a live core stores it, or until the
\* handler has been called over it.
HandlerAndObjectOwned ==
  /\ TypeOK
  /\ refCount = Cardinality({c \in Cores : holders[c] # {} /\ interrupt[c] \in PointsToHandler})
                + (IF cpc = "copyStore" THEN 1 ELSE 0)
  /\ \A c \in Cores :
       object[c] <=> \/ holders[c] # {} /\ interrupt[c] = "HasObject"
                     \/ c = 1 /\ ppc = "sihHandle"

\* The handler is called at most once for each core ("Has no effect if it was
\* called previously"), and raise() and setInterruptHandler() never miss each
\* other: once both returned without having seen a result, one of the two called
\* it.
HandledOnce ==
  /\ \A c \in Cores : handled[c] <= 1
  /\ raised[1] /\ ppc = "set" => handled[1] = 1

\* A continuation has the handler exactly when the core it continues pointed to
\* it, interrupted or not, as initCopyInterruptHandlerFrom loaded its word: until
\* the core dies it points to it, and a raise() on it that returned without
\* having seen a result called it.  A core that continues one with an empty word,
\* a stored object, or a terminal word whose handler setInterruptHandler() called
\* itself, never gets it.  So all continuations of a chain have the handler, or none.
ContinuationInherits ==
  \A c \in 2..cur :
    /\ inherits[c] = inherits[2]
    /\ inherits[c] <=> interrupt[c] \in PointsToHandler
    /\ raised[c] => handled[c] = IF inherits[c] THEN 1 ELSE 0

=============================================================================
