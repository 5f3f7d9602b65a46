----------------------------- MODULE FutureProxy -----------------------------
(***************************************************************************)
(* Chains of cores (folly/futures/detail/Core.cpp, setProxy_ and           *)
(* proxyCallback): when a continuation returns a future, the core of the   *)
(* outer promise becomes a proxy of the inner future's core, and the       *)
(* callback of the outer future travels inwards with its executor.         *)
(*                                                                         *)
(* Core c may become a proxy of core c+1.  Thread 0 is the consumer: it    *)
(* owns the future of core 1.  Thread c owns the promise of core c and, in *)
(* the continuation that will complete it, the future of core c+1.         *)
(* A call that calls into other cores is a list of pending steps, todo[t]; *)
(* the delivery itself (doCallback) is FutureCore.tla's and is one step    *)
(* here, or two when an executor runs the function.                        *)
(***************************************************************************)
EXTENDS Integers, Sequences, FiniteSets

CONSTANTS
  N,          \* length of the longest chain
  Executors,  \* executors the consumer may choose
  Inner,      \* the executor of every inner future
  None

ASSUME FutureProxyAssumption ==
  N \in Nat \ {0} /\ None \notin Executors /\ Inner \notin Executors /\ Inner # None

VARIABLES
  state, attached, alive, executor, callback, result,  \* fields of each core
  todo,     \* per thread: the rest of the call it is in
  phase,    \* per thread: "own" until its one operation, then "busy"
  wanted,   \* the executor and the inline permission the consumer asked for
  task,     \* <<core, executor>> of the function that waits in an executor, or <<>>
  ran       \* history: <<core, executor>> of every invocation of the callback

vars == <<state, attached, alive, executor, callback, result, todo, phase, wanted, task, ran>>

Cores == 1..N
Threads == 0..N
States == {"Start", "OnlyResult", "OnlyCallback", "OnlyCallbackAllowInline", "Proxy", "Done", "Empty"}
Op(o, c, i) == [op |-> o, core |-> c, inline |-> i]

Init ==
  /\ state = [c \in Cores |-> "Start"]
  /\ attached = [c \in Cores |-> 2]
  /\ alive = [c \in Cores |-> TRUE]
  /\ executor = [c \in Cores |-> IF c = 1 THEN None ELSE Inner]
  /\ callback = [c \in Cores |-> FALSE]
  /\ result = [c \in Cores |-> FALSE]
  /\ todo = [t \in Threads |-> <<>>]
  /\ phase = [t \in Threads |-> "own"]
  /\ wanted = [executor |-> None, inline |-> FALSE]
  /\ task = <<>>
  /\ ran = <<>>

Pending(t, o) == todo[t] # <<>> /\ Head(todo[t]).op = o
Here(t) == Head(todo[t]).core
Continue(t, ops) == todo' = [todo EXCEPT ![t] = ops \o Tail(@)]
Terminate == <<Op("terminate", 1, FALSE)>>
-----------------------------------------------------------------------------
(* The consumer's operations and the producers'. *)

setExecutor(x) ==
  /\ phase[0] = "own" /\ todo[0] = <<>>
  /\ executor' = [executor EXCEPT ![1] = x]
  /\ wanted' = [wanted EXCEPT !.executor = x]
  /\ UNCHANGED <<state, attached, alive, callback, result, todo, phase, task, ran>>

\* isReady() / poll(): hasResult() walks the chain.
isReady ==
  /\ phase[0] = "own" /\ todo[0] = <<>>
  /\ todo' = [todo EXCEPT ![0] = <<Op("walk", 1, FALSE)>>]
  /\ UNCHANGED <<state, attached, alive, executor, callback, result, phase, wanted, task, ran>>

\* setCallback(), then ~Future.
thenImplementation(inline) ==
  /\ phase[0] = "own" /\ todo[0] = <<>>
  /\ phase' = [phase EXCEPT ![0] = "busy"]
  /\ wanted' = [wanted EXCEPT !.inline = inline]
  /\ todo' = [todo EXCEPT ![0] = <<Op("setCallback", 1, inline), Op("detachOne", 1, FALSE)>>]
  /\ UNCHANGED <<state, attached, alive, executor, callback, result, task, ran>>

\* ~Future without a continuation.
dropFuture ==
  /\ phase[0] = "own" /\ todo[0] = <<>>
  /\ phase' = [phase EXCEPT ![0] = "busy"]
  /\ todo' = [todo EXCEPT ![0] = <<Op("detachOne", 1, FALSE)>>]
  /\ UNCHANGED <<state, attached, alive, executor, callback, result, wanted, task, ran>>

\* setResult() on core c, ~Promise; an inner future it still owns is dropped.
completeWithResult(c) ==
  /\ phase[c] = "own"
  /\ phase' = [phase EXCEPT ![c] = "busy"]
  /\ result' = [result EXCEPT ![c] = TRUE]
  /\ todo' = [todo EXCEPT ![c] = <<Op("setResult", c, FALSE), Op("detachOne", c, FALSE)>>
                                 \o IF c < N THEN <<Op("detachOne", c + 1, FALSE)>> ELSE <<>>]
  /\ UNCHANGED <<state, attached, alive, executor, callback, wanted, task, ran>>

\* setProxy(): the inner future is moved into core c and the promise is given up.
completeWithProxy(c) ==
  /\ c < N /\ phase[c] = "own"
  /\ phase' = [phase EXCEPT ![c] = "busy"]
  /\ todo' = [todo EXCEPT ![c] = <<Op("setProxy", c, FALSE), Op("detachOne", c, FALSE)>>]
  /\ UNCHANGED <<state, attached, alive, executor, callback, result, wanted, task, ran>>
-----------------------------------------------------------------------------
(* setCallback_ *)

\* What follows when s was read from state_ of core c and is not Start.
AfterCbRead(c, s, inline) ==
  IF s = "OnlyResult" THEN <<Op("cbDone", c, inline)>>
  ELSE IF s = "Proxy" THEN <<Op("cbProxy", c, inline)>>
  ELSE Terminate

CbLoad(t) ==
  /\ Pending(t, "setCallback")
  /\ LET c == Here(t)
         i == Head(todo[t]).inline
     IN  /\ callback' = [callback EXCEPT ![c] = TRUE]
         /\ Continue(t, IF state[c] = "Start" THEN <<Op("cbCas", c, i)>>
                        ELSE AfterCbRead(c, state[c], i))
  /\ UNCHANGED <<state, attached, alive, executor, result, phase, wanted, task, ran>>

\* Mutant: context_ is written after the state was published.
CbCasLateStore(t) ==
  /\ Pending(t, "cbCas")
  /\ LET c == Here(t)
         i == Head(todo[t]).inline
     IN  IF state[c] = "Start"
         THEN /\ state' = [state EXCEPT ![c] = IF i THEN "OnlyCallbackAllowInline" ELSE "OnlyCallback"]
              /\ Continue(t, <<Op("clear", c, FALSE)>>)
         ELSE Continue(t, AfterCbRead(c, state[c], i)) /\ UNCHANGED state
  /\ UNCHANGED <<attached, alive, executor, callback, result, phase, wanted, task, ran>>

CbCas(t) ==
  /\ Pending(t, "cbCas")
  /\ LET c == Here(t)
         i == Head(todo[t]).inline
     IN  IF state[c] = "Start"
         THEN /\ state' = [state EXCEPT ![c] = IF i THEN "OnlyCallbackAllowInline" ELSE "OnlyCallback"]
              /\ Continue(t, <<>>)
         ELSE Continue(t, AfterCbRead(c, state[c], i)) /\ UNCHANGED state
  /\ UNCHANGED <<attached, alive, executor, callback, result, phase, wanted, task, ran>>

CbDone(t) ==
  /\ Pending(t, "cbDone")
  /\ IF state[Here(t)] = "OnlyResult"
     THEN /\ state' = [state EXCEPT ![Here(t)] = "Done"]
          /\ Continue(t, <<Op("doCallback", Here(t), FALSE)>>)
     ELSE Continue(t, Terminate) /\ UNCHANGED state
  /\ UNCHANGED <<attached, alive, executor, callback, result, phase, wanted, task, ran>>

CbProxy(t) ==
  /\ Pending(t, "cbProxy")
  /\ IF state[Here(t)] = "Proxy"
     THEN /\ state' = [state EXCEPT ![Here(t)] = "Empty"]
          /\ Continue(t, <<Op("proxyCallback", Here(t), FALSE)>>)
     ELSE Continue(t, Terminate) /\ UNCHANGED state
  /\ UNCHANGED <<attached, alive, executor, callback, result, phase, wanted, task, ran>>
-----------------------------------------------------------------------------
(* setResult_ and setProxy_: a first read, a CAS from Start, a CAS from       *)
(* OnlyCallback[AllowInline].                                                 *)

WithCallback == {"OnlyCallback", "OnlyCallbackAllowInline"}
Completing == {"setResult", "setProxy"}
CompleteCas == [setResult |-> "srCas", setProxy |-> "spCas"]
CompleteCas2 == [srCas |-> "srCas2", spCas |-> "spCas2"]

CompleteLoad(t) ==
  /\ \E o \in Completing :
       /\ Pending(t, o)
       /\ LET c == Here(t) IN
          Continue(t, IF state[c] = "Start" THEN <<Op(CompleteCas[o], c, FALSE)>>
                      ELSE IF state[c] \in WithCallback
                      THEN <<Op(CompleteCas2[CompleteCas[o]], c, FALSE)>> ELSE Terminate)
  /\ UNCHANGED <<state, attached, alive, executor, callback, result, phase, wanted, task, ran>>

\* Mutant: a producer that loses the race with setCallback_ gives up.
CompleteFirstCasGivesUp(t) ==
  /\ \E o \in {"srCas", "spCas"} :
       /\ Pending(t, o)
       /\ LET c == Here(t) IN
          IF state[c] = "Start"
          THEN /\ state' = [state EXCEPT ![c] = IF o = "srCas" THEN "OnlyResult" ELSE "Proxy"]
               /\ Continue(t, <<>>)
          ELSE /\ Continue(t, IF state[c] \in WithCallback THEN <<>> ELSE Terminate)
               /\ UNCHANGED state
  /\ UNCHANGED <<attached, alive, executor, callback, result, phase, wanted, task, ran>>

CompleteFirstCas(t) ==
  /\ \E o \in {"srCas", "spCas"} :
       /\ Pending(t, o)
       /\ LET c == Here(t) IN
          IF state[c] = "Start"
          THEN /\ state' = [state EXCEPT ![c] = IF o = "srCas" THEN "OnlyResult" ELSE "Proxy"]
               /\ Continue(t, <<>>)
          ELSE /\ Continue(t, IF state[c] \in WithCallback THEN <<Op(CompleteCas2[o], c, FALSE)>> ELSE Terminate)
               /\ UNCHANGED state
  /\ UNCHANGED <<attached, alive, executor, callback, result, phase, wanted, task, ran>>

SrSecondCas(t) ==
  /\ Pending(t, "srCas2")
  /\ IF state[Here(t)] \in WithCallback
     THEN /\ state' = [state EXCEPT ![Here(t)] = "Done"]
          /\ Continue(t, <<Op("doCallback", Here(t), FALSE)>>)
     ELSE Continue(t, Terminate) /\ UNCHANGED state
  /\ UNCHANGED <<attached, alive, executor, callback, result, phase, wanted, task, ran>>

\* The prior state tells proxyCallback whether inline execution was permitted.
SpSecondCas(t) ==
  /\ Pending(t, "spCas2")
  /\ IF state[Here(t)] \in WithCallback
     THEN /\ state' = [state EXCEPT ![Here(t)] = "Empty"]
          /\ Continue(t, <<Op("proxyCallback", Here(t), state[Here(t)] = "OnlyCallbackAllowInline")>>)
     ELSE Continue(t, Terminate) /\ UNCHANGED state
  /\ UNCHANGED <<attached, alive, executor, callback, result, phase, wanted, task, ran>>

\* Mutant: the inner core keeps the executor of the inner future.
MovedExecutorInner(c) == executor

\* proxy_->setExecutor(std::move(executor_)).
MovedExecutor(c) == [executor EXCEPT ![c + 1] = executor[c], ![c] = None]

\* proxy_->setCallback_(callback_), proxy_->detachFuture(), callback_ = {}.
ProxySteps(c, inline) ==
  <<Op("setCallback", c + 1, inline), Op("detachOne", c + 1, FALSE), Op("clear", c, FALSE)>>

proxyCallback(t) ==
  /\ Pending(t, "proxyCallback")
  /\ LET c == Here(t) IN
       /\ executor' = MovedExecutor(c)
       /\ callback' = [callback EXCEPT ![c] = FALSE]
       /\ Continue(t, ProxySteps(c, Head(todo[t]).inline))
  /\ UNCHANGED <<state, attached, alive, result, phase, wanted, task, ran>>

ClearCallback(t) ==
  /\ Pending(t, "clear")
  /\ callback' = [callback EXCEPT ![Here(t)] = FALSE]
  /\ Continue(t, <<>>)
  /\ UNCHANGED <<state, attached, alive, executor, result, phase, wanted, task, ran>>
-----------------------------------------------------------------------------
\* hasResult(): one load per core of the chain.
Walk(t) ==
  /\ Pending(t, "walk")
  /\ Continue(t, IF state[Here(t)] = "Proxy" THEN <<Op("walk", Here(t) + 1, FALSE)>> ELSE <<>>)
  /\ UNCHANGED <<state, attached, alive, executor, callback, result, phase, wanted, task, ran>>

doCallback(t) ==
  /\ Pending(t, "doCallback")
  /\ LET c == Here(t) IN
       /\ executor' = [executor EXCEPT ![c] = None]
       /\ \/ /\ executor[c] = None
             /\ ran' = Append(ran, <<c, None>>)
             /\ callback' = [callback EXCEPT ![c] = FALSE]
             /\ UNCHANGED <<attached, task>>
          \/ /\ executor[c] # None
             /\ attached' = [attached EXCEPT ![c] = @ + 1]
             /\ task' = <<c, executor[c]>>
             /\ UNCHANGED <<ran, callback>>
  /\ Continue(t, <<>>)
  /\ UNCHANGED <<state, alive, result, phase, wanted>>

\* Mutant: ~Core of a proxy that was never continued forgets the core it proxies.
DestroyStepsForget(c) == <<>>

\* destroyDerived(): a proxy still owns the future of the next core; a core in
\* Start or OnlyCallback must not be destroyed.
DestroySteps(c) ==
  IF state[c] = "Proxy" THEN <<Op("detachOne", c + 1, FALSE)>>
  ELSE IF state[c] \in {"OnlyResult", "Done", "Empty"} THEN <<>>
  ELSE Terminate

Release(c) ==
  /\ attached' = [attached EXCEPT ![c] = @ - 1]
  /\ alive' = [alive EXCEPT ![c] = attached[c] # 1 /\ @]

detachOne(t) ==
  /\ Pending(t, "detachOne")
  /\ Release(Here(t))
  /\ Continue(t, IF attached[Here(t)] = 1 THEN DestroySteps(Here(t)) ELSE <<>>)
  /\ UNCHANGED <<state, executor, callback, result, phase, wanted, task, ran>>

\* An executor thread runs the callback and drops its reference to the core.
\* (A core that ran its callback is Done: its destruction has no further step.)
RunTask ==
  /\ task # <<>>
  /\ ran' = Append(ran, task)
  /\ callback' = [callback EXCEPT ![task[1]] = FALSE]
  /\ Release(task[1])
  /\ task' = <<>>
  /\ UNCHANGED <<state, executor, result, todo, phase, wanted>>
-----------------------------------------------------------------------------
Step(t) ==
  \/ CbLoad(t) \/ CbCas(t) \/ CbDone(t) \/ CbProxy(t)
  \/ CompleteLoad(t) \/ CompleteFirstCas(t) \/ SrSecondCas(t) \/ SpSecondCas(t)
  \/ proxyCallback(t) \/ ClearCallback(t) \/ Walk(t) \/ doCallback(t) \/ detachOne(t)

Complete(c) == completeWithResult(c) \/ completeWithProxy(c)

Next ==
  \/ \E x \in Executors : setExecutor(x)
  \/ isReady
  \/ \E i \in BOOLEAN : thenImplementation(i)
  \/ dropFuture
  \/ \E c \in Cores : Complete(c)
  \/ \E t \in Threads : Step(t)
  \/ RunTask

Spec == Init /\ [][Next]_vars

\* Every call goes on, every promise is completed (~Promise sets BrokenPromise),
\* executors run what they were given, and the future is continued or dropped
\* in the end, however often its owner polls it before (hence SF).
Fairness ==
  /\ \A t \in Threads : WF_vars(Step(t))
  /\ \A c \in Cores : WF_vars(Complete(c))
  /\ SF_vars(dropFuture \/ \E i \in BOOLEAN : thenImplementation(i))
  /\ WF_vars(RunTask)

FairSpec == Spec /\ Fairness
-----------------------------------------------------------------------------
(* Properties *)

Ops == [op : {"setCallback", "cbCas", "cbDone", "cbProxy", "setResult", "srCas", "srCas2",
              "setProxy", "spCas", "spCas2", "proxyCallback", "clear", "walk", "doCallback",
              "detachOne", "terminate"},
        core : Cores, inline : BOOLEAN]

\* The variables stay in their types: no reference count of a core goes below
\* zero (detachOne's assertion) or above its two owners and one executor task.
TypeOK ==
  /\ state \in [Cores -> States]
  /\ attached \in [Cores -> 0..3]
  /\ alive \in [Cores -> BOOLEAN]
  /\ executor \in [Cores -> Executors \cup {Inner, None}]
  /\ callback \in [Cores -> BOOLEAN] /\ result \in [Cores -> BOOLEAN]
  /\ \A t \in Threads : \A k \in DOMAIN todo[t] : todo[t][k] \in Ops
  /\ phase \in [Threads -> {"own", "busy"}]

\* The cores whose plain (non-atomic) fields the next step of t reads or writes.
Touches(t) ==
  IF todo[t] = <<>> THEN {}
  ELSE IF Head(todo[t]).op = "proxyCallback" THEN {Here(t), Here(t) + 1}
  ELSE IF Head(todo[t]).op \in {"setCallback", "clear", "doCallback"} THEN {Here(t)}
  ELSE {}

\* The reference counts stay in range, and no thread uses a freed core: neither
\* the one its next step works on nor the core that core proxies, however the
\* destruction of the two futures, the walk of hasResult() and the moving of the
\* callback interleave.  callback_, context_ and executor_ are plain fields: no
\* two threads are ever about to access those of one core, the inner core that
\* proxyCallback writes the executor of included.
MemorySafe ==
  /\ TypeOK
  /\ \A t \in Threads : todo[t] # <<>> => \A c \in {Here(t)} \cup Touches(t) : alive[c]
  /\ task # <<>> => alive[task[1]]
  /\ \A t, u \in Threads : t # u => Touches(t) \cap Touches(u) = {}
  /\ \A t \in Threads : task # <<>> => task[1] \notin Touches(t)

\* The callback is invoked at most once, on a core that has its own result, at
\* the end of the chain of proxies, and on the executor that the consumer chose
\* (never on the executor of an inner future); and no core on the way allows it
\* to run inline if the consumer did not.
RunsOnceAtChainEnd ==
  /\ Len(ran) <= 1
  /\ \A k \in DOMAIN ran :
       /\ result[ran[k][1]] /\ state[ran[k][1]] = "Done"
       /\ ran[k][2] = wanted.executor
       /\ \A d \in 1..(ran[k][1] - 1) : state[d] = "Empty" /\ ~result[d]
  /\ \A c \in Cores : state[c] = "OnlyCallbackAllowInline" => wanted.inline

\* Every core of the chain is freed in the end, continued or dropped.
AllFreed == <>[](\A c \in Cores : ~alive[c])

\* A callback that was attached is eventually invoked.
CallbackRuns == (\E c \in Cores : callback[c]) ~> (ran # <<>>)
=============================================================================
