----------------------------- MODULE FutureCore ------------------------------
(***************************************************************************)
(* folly::futures::detail::Core (folly/futures/detail/Core.{h,cpp}): the   *)
(* object a Promise and a Future share.  One core, the producer thread     *)
(* that owns the Promise, the consumer thread that owns the Future, and    *)
(* the executor thread that runs the callback.  Each action is one access  *)
(* to an atomic (state_, attached_, callbackReferences_), or a stretch of  *)
(* code that only its own thread can observe.                              *)
(*                                                                         *)
(* Proxying (setProxy) is in FutureProxy.tla, interrupts in                *)
(* FutureInterrupt.tla and the deferred executor in DeferredExecutor.tla;  *)
(* here an executor is anything that runs a function it was given, now or  *)
(* later, or destroys it without running it, or throws from add().         *)
(***************************************************************************)
EXTENDS Integers

CONSTANTS
  Executors,        \* what setExecutor() may be given
  InlineExecutors,  \* those whose add() runs the function before it returns
  Deferred,         \* those that are DeferredExecutors
  Given,            \* the executor a DeferredExecutor is given by via(), now or later
  None              \* no executor, no KeepAlive

ASSUME FutureCoreAssumption ==
  /\ None \notin Executors
  /\ InlineExecutors \subseteq Executors
  /\ Deferred \subseteq Executors \ InlineExecutors
  /\ Given \in [Deferred -> Executors \ Deferred]

VARIABLES
  state,       \* state_
  attached,    \* attached_
  cbRefs,      \* callbackReferences_
  executor,    \* executor_
  callback,    \* callback_: "unset", "set", or "cleared"
  result,      \* result_: "none", "value", "broken" or "addError"
  memory,      \* "freed" once the core was deleted
  pc,          \* where the two threads are
  allowInline, \* what setCallback() was told
  prior,       \* priorState of doCallback
  ka,          \* completingKA
  curExec,     \* the local variable executor of doCallback
  added,       \* what add() did: "ok", or "threw" (ew is set)
  task,        \* the function given to the executor
  runs,        \* history: how often the callback was invoked
  drops        \* history: functions the executor destroyed unrun

vars == <<state, attached, cbRefs, executor, callback, result, memory, pc,
          allowInline, prior, ka, curExec, added, task, runs, drops>>

refVars == <<attached, memory>>
cbVars == <<cbRefs, callback>>
argVars == <<allowInline, prior, ka, curExec, added>>
workVars == <<task, runs, drops>>

Threads == {"producer", "consumer"}
States == {"Start", "OnlyResult", "OnlyCallback", "OnlyCallbackAllowInline", "Done"}
WithCallback == {"OnlyCallback", "OnlyCallbackAllowInline"}

\* A Promise/Future pair.  The future may be retrieved later or never.
InitContract ==
  /\ state = "Start" /\ attached = 2 /\ result = "none"
  /\ pc = [t \in Threads |-> IF t = "producer" THEN "own" ELSE "unretrieved"]

\* makeFuture(value): there is no Promise.
InitReady ==
  /\ state = "OnlyResult" /\ attached = 1 /\ result = "value"
  /\ pc = [t \in Threads |-> IF t = "producer" THEN "gone" ELSE "own"]

Init ==
  /\ InitContract \/ InitReady
  /\ cbRefs = 0 /\ executor = None /\ callback = "unset" /\ memory = "live"
  /\ allowInline = FALSE /\ prior = "Start" /\ ka = None /\ curExec = None
  /\ added = "ok" /\ task = "none" /\ runs = 0 /\ drops = 0

Goto(t, l) == pc' = [pc EXCEPT ![t] = l]

\* Mutant: the core is deleted one reference too early.
DetachOneEarly == attached' = attached - 1 /\ memory' = IF attached <= 2 THEN "freed" ELSE memory

\* detachOne(): the last reference deletes the core.
DetachOne == attached' = attached - 1 /\ memory' = IF attached = 1 THEN "freed" ELSE memory

\* Mutant: callback_ is left to the destructor of the core.
DerefCallbackOnly == cbRefs' = cbRefs - 1 /\ UNCHANGED callback

\* derefCallback(): the last callback reference resets callback_.
DerefCallback ==
  /\ cbRefs' = cbRefs - 1
  /\ callback' = IF cbRefs = 1 THEN "cleared" ELSE callback
-----------------------------------------------------------------------------
(* The consumer. *)

\* Promise::getSemiFuture(), called by the producer.
getSemiFuture ==
  /\ pc["producer"] \in {"own", "fulfilled"}
  /\ pc["consumer"] = "unretrieved"
  /\ Goto("consumer", "own")
  /\ UNCHANGED <<state, refVars, cbVars, executor, result, argVars, workVars>>

setExecutor(x) ==
  /\ pc["consumer"] = "own"
  /\ executor' = x
  /\ UNCHANGED <<state, refVars, cbVars, result, pc, argVars, workVars>>

\* setCallback(): the callback is stored before state_ is read.
setCallback(inline) ==
  /\ pc["consumer"] = "own"
  /\ callback' = "set"
  /\ allowInline' = inline
  /\ Goto("consumer", "cbLoad")
  /\ UNCHANGED <<state, refVars, cbRefs, executor, result, prior,
                 ka, curExec, added, workVars>>

\* What setCallback_ does next, having read s from state_ (any s but the ones
\* listed ends in terminate_unexpected_state).
AfterCbRead(s) == IF s = "OnlyResult" THEN "cbDone" ELSE "terminated"

CbLoad ==
  /\ pc["consumer"] = "cbLoad"
  /\ Goto("consumer", IF state = "Start" THEN "cbCas" ELSE AfterCbRead(state))
  /\ UNCHANGED <<state, refVars, cbVars, executor, result, argVars, workVars>>

CbCas ==
  /\ pc["consumer"] = "cbCas"
  /\ \/ /\ state = "Start"
        /\ state' = IF allowInline THEN "OnlyCallbackAllowInline" ELSE "OnlyCallback"
        /\ Goto("consumer", "continued")
     \/ /\ state # "Start"
        /\ Goto("consumer", AfterCbRead(state))
        /\ UNCHANGED state
  /\ UNCHANGED <<refVars, cbVars, executor, result, argVars, workVars>>

\* OnlyResult -> Done, then doCallback(KeepAlive{}, OnlyResult).
CbDone ==
  /\ pc["consumer"] = "cbDone"
  /\ IF state = "OnlyResult"
     THEN state' = "Done" /\ prior' = state /\ ka' = None /\ Goto("consumer", "do")
     ELSE Goto("consumer", "terminated") /\ UNCHANGED <<state, prior, ka>>
  /\ UNCHANGED <<refVars, cbVars, executor, result, allowInline,
                 curExec, added, workVars>>

\* ~Future, with or without a callback attached.
detachFuture ==
  /\ pc["consumer"] \in {"own", "continued"}
  /\ DetachOne
  /\ Goto("consumer", "gone")
  /\ UNCHANGED <<state, cbVars, executor, result, argVars, workVars>>
-----------------------------------------------------------------------------
(* The producer. *)

\* setResult(completingKA, t): result_ is constructed before state_ is read.
setResult(r, k) ==
  /\ result' = r
  /\ ka' = k
  /\ Goto("producer", "srLoad")
  /\ UNCHANGED <<state, refVars, cbVars, executor, allowInline,
                 prior, curExec, added, workVars>>

\* Promise::setTry: throwIfFulfilled() has seen no result.
setTry(k) == pc["producer"] = "own" /\ setResult("value", k)

\* ~Promise: a future that was never retrieved is detached first ...
DtorDetachFuture ==
  /\ pc["producer"] \in {"own", "fulfilled"}
  /\ pc["consumer"] = "unretrieved"
  /\ DetachOne
  /\ pc' = [pc EXCEPT !["consumer"] = "gone",
                     !["producer"] = IF @ = "own" THEN "dtor" ELSE @]
  /\ UNCHANGED <<state, cbVars, executor, result, argVars, workVars>>

\* ... then a missing result becomes BrokenPromise ...
BreakPromise ==
  /\ pc["producer"] \in {"own", "dtor"}
  /\ pc["consumer"] # "unretrieved"
  /\ setResult("broken", None)

\* ... and the promise's reference is dropped.
detachPromise ==
  /\ pc["producer"] = "fulfilled"
  /\ pc["consumer"] # "unretrieved"
  /\ DetachOne
  /\ Goto("producer", "gone")
  /\ UNCHANGED <<state, cbVars, executor, result, argVars, workVars>>

AfterSrRead(s) == IF s \in WithCallback THEN "srDone" ELSE "terminated"

SrLoad ==
  /\ pc["producer"] = "srLoad"
  /\ Goto("producer", IF state = "Start" THEN "srCas" ELSE AfterSrRead(state))
  /\ UNCHANGED <<state, refVars, cbVars, executor, result, argVars, workVars>>

SrCas ==
  /\ pc["producer"] = "srCas"
  /\ \/ /\ state = "Start"
        /\ state' = "OnlyResult"
        /\ Goto("producer", "fulfilled")
     \/ /\ state # "Start"
        /\ Goto("producer", AfterSrRead(state))
        /\ UNCHANGED state
  /\ UNCHANGED <<refVars, cbVars, executor, result, argVars, workVars>>

\* OnlyCallback[AllowInline] -> Done, then doCallback(completingKA, prior).
SrDone ==
  /\ pc["producer"] = "srDone"
  /\ IF state \in WithCallback
     THEN state' = "Done" /\ prior' = state /\ Goto("producer", "do")
     ELSE Goto("producer", "terminated") /\ UNCHANGED <<state, prior>>
  /\ UNCHANGED <<refVars, cbVars, executor, result, allowInline,
                 ka, curExec, added, workVars>>
-----------------------------------------------------------------------------
(* doCallback, by whichever thread made the core Done. *)

\* Where doCallback returns to.
Return(t) == IF t = "producer" THEN "fulfilled" ELSE "continued"

\* executor_ is moved out; one reference guards an inline call, two references
\* guard this scope and the function given to the executor.
DoCallback(t) ==
  /\ pc[t] = "do"
  /\ curExec' = executor
  /\ executor' = None
  /\ IF executor = None
     THEN attached' = attached + 1 /\ UNCHANGED cbRefs /\ Goto(t, "runInline")
     ELSE attached' = attached + 2 /\ cbRefs' = cbRefs + 2 /\ Goto(t, "add")
  /\ UNCHANGED <<state, callback, result, memory, allowInline, prior, ka, added, workVars>>

\* Mutant: the reference taken for the inline call is not given back.
EndInlineLeaks(t) ==
  /\ pc[t] = "runInline"
  /\ runs' = runs + 1
  /\ callback' = "cleared"
  /\ Goto(t, Return(t))
  /\ UNCHANGED <<state, refVars, cbRefs, executor, result, argVars, task, drops>>

\* No executor: the callback ran here; callback_ is reset, then detachOne().
EndInline(t) ==
  /\ pc[t] = "runInline"
  /\ runs' = runs + 1
  /\ callback' = "cleared"
  /\ Goto(t, "localDetach")
  /\ UNCHANGED <<state, refVars, cbRefs, executor, result, argVars, task, drops>>

\* completingKA, cleared unless the callback permitted inline execution.
PermittedKA == IF prior = "OnlyCallbackAllowInline" THEN ka ELSE None

\* The executor whose add() may be called: a DeferredExecutor passes it on.
Runner(x) == IF x \in Deferred THEN Given[x] ELSE x

\* doAdd, or addFrom of a DeferredExecutor that has its executor, calls the
\* function here when that is completingKA; else add() does if it is inline.
AddRunsInline(t) ==
  /\ pc[t] = "add"
  /\ PermittedKA = Runner(curExec) \/ Runner(curExec) \in InlineExecutors
  /\ Goto(t, "runLambda")
  /\ UNCHANGED <<state, refVars, cbVars, executor, result, argVars, workVars>>

\* The executor keeps the function for later.
AddEnqueues(t) ==
  /\ pc[t] = "add"
  /\ PermittedKA # curExec
  /\ curExec \notin InlineExecutors
  /\ task' = "queued"
  /\ Goto(t, "localDeref")
  /\ UNCHANGED <<state, refVars, cbVars, executor, result, argVars, runs, drops>>

\* add() destroys the function unrun, returning (a detached DeferredExecutor,
\* an executor shutting down) or throwing.
AddDestroys(t, how) ==
  /\ pc[t] = "add"
  /\ PermittedKA # curExec
  /\ added' = how
  /\ drops' = IF how = "threw" THEN drops ELSE drops + 1
  /\ Goto(t, "lambdaDeref")
  /\ UNCHANGED <<state, refVars, cbVars, executor, result,
                 allowInline, prior, ka, curExec, task, runs>>

EndLambda(t) ==
  /\ pc[t] = "runLambda"
  /\ runs' = runs + 1
  /\ Goto(t, "lambdaDeref")
  /\ UNCHANGED <<state, refVars, cbVars, executor, result, argVars, task, drops>>

\* ~CoreAndCallbackReference of the function, in this thread.
LambdaDeref(t) ==
  /\ pc[t] = "lambdaDeref"
  /\ DerefCallback
  /\ Goto(t, "lambdaDetach")
  /\ UNCHANGED <<state, refVars, executor, result, argVars, workVars>>

\* Mutant: the error path is taken after every function destroyed here.
LambdaDetachToError(t) ==
  /\ pc[t] = "lambdaDetach"
  /\ DetachOne
  /\ Goto(t, "runError")
  /\ UNCHANGED <<state, cbVars, executor, result, argVars, workVars>>

LambdaDetach(t) ==
  /\ pc[t] = "lambdaDetach"
  /\ DetachOne
  /\ Goto(t, IF added = "threw" THEN "runError" ELSE "localDeref")
  /\ UNCHANGED <<state, cbVars, executor, result, argVars, workVars>>

\* add() threw: the callback is called here with that exception as the result.
EndError(t) ==
  /\ pc[t] = "runError"
  /\ result' = "addError"
  /\ runs' = runs + 1
  /\ Goto(t, "localDeref")
  /\ UNCHANGED <<state, refVars, cbVars, executor, argVars, task, drops>>

\* guard_local_scope is destroyed.
LocalDeref(t) ==
  /\ pc[t] = "localDeref"
  /\ DerefCallback
  /\ Goto(t, "localDetach")
  /\ UNCHANGED <<state, refVars, executor, result, argVars, workVars>>

LocalDetach(t) ==
  /\ pc[t] = "localDetach"
  /\ DetachOne
  /\ Goto(t, Return(t))
  /\ UNCHANGED <<state, cbVars, executor, result, argVars, workVars>>
-----------------------------------------------------------------------------
(* The executor's thread: the function it was given is run, or destroyed. *)

TaskStart ==
  /\ task = "queued"
  /\ task' = "running"
  /\ UNCHANGED <<state, refVars, cbVars, executor, result, pc, argVars, runs, drops>>

TaskEnd ==
  /\ task = "running"
  /\ runs' = runs + 1
  /\ task' = "deref"
  /\ UNCHANGED <<state, refVars, cbVars, executor, result, pc, argVars, drops>>

TaskDiscard ==
  /\ task = "queued"
  /\ task' = "deref"
  /\ drops' = drops + 1
  /\ UNCHANGED <<state, refVars, cbVars, executor, result, pc, argVars, runs>>

TaskDeref ==
  /\ task = "deref"
  /\ DerefCallback
  /\ task' = "detach"
  /\ UNCHANGED <<state, refVars, executor, result, pc, argVars, runs, drops>>

TaskDetach ==
  /\ task = "detach"
  /\ DetachOne
  /\ task' = "done"
  /\ UNCHANGED <<state, cbVars, executor, result, pc, argVars, runs, drops>>
-----------------------------------------------------------------------------
Consumer ==
  \/ \E x \in Executors : setExecutor(x)
  \/ \E i \in BOOLEAN : setCallback(i)
  \/ CbLoad \/ CbCas \/ CbDone \/ detachFuture

Producer ==
  \/ getSemiFuture
  \/ \E k \in (Executors \ Deferred) \cup {None} : setTry(k)
  \/ DtorDetachFuture \/ BreakPromise \/ detachPromise
  \/ SrLoad \/ SrCas \/ SrDone

Callback(t) ==
  \/ DoCallback(t) \/ EndInline(t)
  \/ AddRunsInline(t) \/ AddEnqueues(t) \/ (\E how \in {"ok", "threw"} : AddDestroys(t, how))
  \/ EndLambda(t) \/ LambdaDeref(t) \/ LambdaDetach(t)
  \/ EndError(t) \/ LocalDeref(t) \/ LocalDetach(t)

Task == TaskStart \/ TaskEnd \/ TaskDiscard \/ TaskDeref \/ TaskDetach

Next == Consumer \/ Producer \/ (\E t \in Threads : Callback(t)) \/ Task

Spec == Init /\ [][Next]_vars

\* A thread inside a call goes on, an executor runs or destroys what it was
\* given, and promises and futures are destroyed some day.
Fairness ==
  /\ WF_vars(CbLoad \/ CbCas \/ CbDone \/ detachFuture)
  /\ WF_vars(DtorDetachFuture \/ BreakPromise \/ detachPromise \/ SrLoad \/ SrCas \/ SrDone)
  /\ \A t \in Threads : WF_vars(Callback(t))
  /\ WF_vars(Task)

FairSpec == Spec /\ Fairness
-----------------------------------------------------------------------------
(* Properties. *)

ProducerPCs == {"own", "dtor", "srLoad", "srCas", "srDone", "fulfilled"}
ConsumerPCs == {"unretrieved", "own", "cbLoad", "cbCas", "cbDone", "continued"}
CallbackPCs == {"do", "runInline", "add", "runLambda", "lambdaDeref", "lambdaDetach",
                "runError", "localDeref", "localDetach"}
PCs == ProducerPCs \cup ConsumerPCs \cup CallbackPCs \cup {"gone", "terminated"}
PendingTask == {"queued", "running", "deref", "detach"}

TypeOK ==
  /\ state \in States
  /\ attached \in 0..255 /\ cbRefs \in 0..255
  /\ executor \in Executors \cup {None}
  /\ callback \in {"unset", "set", "cleared"}
  /\ result \in {"none", "value", "broken", "addError"}
  /\ memory \in {"live", "freed"} /\ added \in {"ok", "threw"} /\ allowInline \in BOOLEAN
  /\ pc \in [Threads -> PCs]
  /\ prior \in States
  /\ ka \in Executors \cup {None} /\ curExec \in Executors \cup {None}
  /\ task \in PendingTask \cup {"none", "done"}
  /\ runs \in Nat /\ drops \in Nat

\* The core is deleted exactly when nobody can touch it any more: not while the
\* Promise, the Future, a guard of doCallback or a function in an executor is
\* left (use after free), and not later than that (leak).
FreedExactlyWhenUnreferenced ==
  memory = "live" <=> (\E t \in Threads : pc[t] # "gone") \/ task \in PendingTask

\* While the callback runs, here or in the executor, the result is there and
\* callback_ is not reset under it by the other guard.
CallbackIntact ==
  (task = "running" \/ \E t \in Threads : pc[t] \in {"runInline", "runLambda", "runError"})
    => callback = "set" /\ result # "none" /\ state = "Done"

\* The callback is invoked exactly once, also when add() throws, unless the
\* executor destroyed the function: never twice, and never not at all.
CallbackExactlyOnce ==
  /\ runs <= 1
  /\ callback = "cleared" => runs + drops = 1

\* No call ends in terminate_unexpected_state, and ~Core finds a final state.
NoTerminate ==
  /\ \A t \in Threads : pc[t] # "terminated"
  /\ memory = "freed" => state \in {"OnlyResult", "Done"}

\* Where the callback may be called by the thread that made the core Done, in
\* setResult or in setCallback (their comments in Core.h say when): without an
\* executor, with an inline one, or with the exception of an add() that threw,
\* whether it permitted this or not; else only in setResult, only if it permitted
\* it when it was set, and only if the caller completes on the callback's executor.
SynchronousOnlyIf ==
  \A t \in Threads :
    pc[t] \in {"runInline", "runLambda", "runError"} =>
      \/ curExec = None
      \/ Runner(curExec) \in InlineExecutors
      \/ pc[t] = "runError" /\ added = "threw"
      \/ t = "producer" /\ allowInline /\ ka = Runner(curExec)

\* The inductive strengthening.  How many references exist, and who has them:
\* a thread has that of its promise or future and those of doCallback's guards.
Refs(l) ==
  IF l = "gone" THEN 0
  ELSE IF l \in {"add", "runLambda", "lambdaDeref", "lambdaDetach"} THEN 3
  ELSE IF l \in CallbackPCs \ {"do"} THEN 2 ELSE 1
TaskRefs(k) == IF k \in PendingTask THEN 1 ELSE 0

CbRefs(l) ==
  IF l \in {"add", "runLambda", "lambdaDeref"} THEN 2
  ELSE IF l \in {"lambdaDetach", "runError", "localDeref"} THEN 1 ELSE 0
TaskCbRefs(k) == IF k \in PendingTask \ {"detach"} THEN 1 ELSE 0

Held == Refs(pc["producer"]) + Refs(pc["consumer"]) + TaskRefs(task)
CbHeld == CbRefs(pc["producer"]) + CbRefs(pc["consumer"]) + TaskCbRefs(task)

RefsMatch == attached = Held /\ (memory = "live" <=> attached # 0)

CbRefsMatch == cbRefs = CbHeld /\ (cbRefs # 0 => callback = "set")

\* A thread at one of these points.
Doing(S) == pc["producer"] \in S \/ pc["consumer"] \in S

\* How far each thread is and what state_ can be.
ProducerView ==
  /\ pc["producer"] \in ProducerPCs \cup CallbackPCs \cup {"gone"}
  /\ pc["producer"] \in {"own", "dtor"} => state \in {"Start"} \cup WithCallback
  /\ pc["producer"] \in {"srLoad", "srCas"} => state \in {"Start"} \cup WithCallback
  /\ pc["producer"] = "srDone" => state \in WithCallback
  /\ pc["producer"] \in {"fulfilled", "gone"} => state \in {"OnlyResult", "Done"}
  /\ pc["producer"] \in CallbackPCs => state = "Done"
  /\ pc["producer"] \notin {"own", "dtor"} => result # "none"

ConsumerView ==
  /\ pc["consumer"] \in ConsumerPCs \cup CallbackPCs \cup {"gone"}
  /\ pc["consumer"] \in {"unretrieved", "own"} => state \in {"Start", "OnlyResult"} /\ callback = "unset"
  /\ pc["consumer"] \in {"cbLoad", "cbCas"} => state \in {"Start", "OnlyResult"} /\ callback = "set"
  /\ pc["consumer"] = "cbDone" => state = "OnlyResult" /\ callback = "set"
  /\ pc["consumer"] = "continued" => state \in WithCallback \cup {"Done"}
  /\ pc["consumer"] \in CallbackPCs => state = "Done" /\ prior = "OnlyResult"
  /\ state \in WithCallback => callback = "set"
  /\ state = "OnlyCallbackAllowInline" => allowInline
  /\ (state = "Done" /\ prior = "OnlyCallbackAllowInline") => allowInline
  /\ ~(pc["consumer"] \in CallbackPCs /\ pc["producer"] \in CallbackPCs)

\* The callback was run, or its function destroyed: once.
Resolved == runs + drops = 1
Fresh == runs = 0 /\ drops = 0 /\ task = "none"

CallbackView ==
  /\ state # "Done" => Fresh /\ added = "ok" /\ callback # "cleared"
  /\ Doing({"do", "runInline", "add", "runLambda"}) => Fresh /\ added = "ok" /\ callback = "set"
  /\ Doing({"lambdaDeref", "lambdaDetach"}) =>
       task = "none" /\ (added = "threw" => runs = 0 /\ drops = 0) /\ (added = "ok" => Resolved)
  /\ Doing({"runError"}) => Fresh /\ added = "threw"
  /\ Doing({"localDeref", "localDetach"}) /\ task = "none" => Resolved
  /\ Doing({"runInline"}) => curExec = None
  /\ Doing({"add"}) => curExec # None
  /\ Doing({"runLambda"}) /\ Runner(curExec) \notin InlineExecutors =>
       prior = "OnlyCallbackAllowInline" /\ ka = Runner(curExec)
  /\ task # "none" => ~Doing(CallbackPCs \ {"localDeref", "localDetach"})
  /\ task \in {"queued", "running"} => runs = 0 /\ drops = 0
  /\ task \in {"deref", "detach", "done"} => Resolved
  /\ callback = "cleared" => Resolved
  /\ state = "Done" => Fresh \/ runs <= 1

\* The inductive invariant, which implies the invariants above: attached_ and
\* callbackReferences_ are the references that promise, future, guards and the
\* queued function account for, and state_, callback_ and result_ are what each
\* thread may conclude from where it is in setResult_, setCallback_ and doCallback.
IInv == TypeOK /\ RefsMatch /\ CbRefsMatch /\ ProducerView /\ ConsumerView /\ CallbackView

\* A callback that was attached is reset, as the comment in doCallback demands:
\* whatever it captured does not live as long as the core.
CallbackIsReset == callback = "set" ~> callback = "cleared"
=============================================================================
