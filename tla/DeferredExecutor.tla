-------------------------- MODULE DeferredExecutor --------------------------
(***************************************************************************)
(* DeferredExecutor (folly/futures/detail/Core.cpp): the executor of a     *)
(* SemiFuture keeps its function until via() brings a real executor or     *)
(* the SemiFuture is dropped.  Root is the deferred executor of the        *)
(* SemiFuture the consumer owns; the others are nested in it, as after     *)
(* collectAll.  Each carries a chain of deferred functions: the core       *)
(* of function k+1 is completed when function k has run or was destroyed.  *)
(*                                                                         *)
(* Three threads meet on executor d: the consumer, the producer that       *)
(* completes the first core of d, and the worker of the real executor that *)
(* runs what d added.  todo[t] is the rest of the call thread t is in.     *)
(***************************************************************************)
EXTENDS Integers, Sequences, SequencesExt

CONSTANTS
  Nested,           \* the nested deferred executors
  Root,             \* the deferred executor of the consumer's SemiFuture
  K,                \* length of the longest chain of deferred functions
  Executors,        \* executors the consumer may bring
  InlineExecutors,  \* those whose add() runs the function at once
  None

ASSUME DeferredExecutorAssumption ==
  /\ K \in Nat \ {0} /\ Root \notin Nested
  /\ InlineExecutors \subseteq Executors /\ None \notin Executors

VARIABLES
  length,   \* per d: the number of functions in its chain, fixed
  state, func, executor, count,  \* state_, func_, executor_, keepAliveCount_
  todo,
  choice,   \* what the consumer did: [kind, executor, inlineUnsafe]
  started,  \* the producers that have completed their core
  queue,    \* per d: the function waiting in the real executor, or 0
  fate      \* history, per d and function: where it ran, or how it was destroyed

vars == <<length, state, func, executor, count, todo, choice, started, queue, fate>>

Deferreds == Nested \cup {Root}
Threads == {<<"consumer", Root>>} \cup ({"producer", "worker"} \X Deferreds)
Consumer == <<"consumer", Root>>
Op(o, d, k, x) == [op |-> o, d |-> d, k |-> k, x |-> x]

\* One reference per core of the chain and one for the owner of the last future.
Init ==
  /\ length \in [Deferreds -> 1..K]
  /\ state = [d \in Deferreds |-> "EMPTY"]
  /\ func = [d \in Deferreds |-> 0]
  /\ executor = [d \in Deferreds |-> None]
  /\ count = [d \in Deferreds |-> length[d] + 1]
  /\ todo = [t \in Threads |-> <<>>]
  /\ choice = [kind |-> "none", executor |-> None, inlineUnsafe |-> FALSE]
  /\ started = {}
  /\ queue = [d \in Deferreds |-> 0]
  /\ fate = [d \in Deferreds |-> [k \in 1..length[d] |-> "pending"]]

At(t, o) == todo[t] # <<>> /\ Head(todo[t]).op = o
Cur(t) == Head(todo[t])
Continue(t, ops) == todo' = [todo EXCEPT ![t] = ops \o Tail(@)]
Terminate(d) == <<Op("terminate", d, 0, None)>>

\* doCallback on the core of function k: addFrom, then its reference is dropped.
Complete(d, k, ka) ==
  IF k > length[d] THEN <<>> ELSE <<Op("addFrom", d, k, ka), Op("release", d, 0, None)>>
-----------------------------------------------------------------------------
\* The steps of setExecutor(x) or detach() on every executor of the tree:
\* first the nested ones, then their references go, then the root.
Walk(o, x, inlineUnsafe) ==
  LET order == SetToSeq(Nested)
      each(p) == [i \in DOMAIN order |-> Op(p, order[i], 0, x)]
  IN  each(o) \o each("release")
      \o <<Op(IF inlineUnsafe THEN "setExecutorInline" ELSE o, Root, 0, x),
           Op("release", Root, 0, None)>>

\* SemiFuture::via / viaInlineUnsafe.
via(x, inlineUnsafe) ==
  /\ choice.kind = "none"
  /\ choice' = [kind |-> "via", executor |-> x, inlineUnsafe |-> inlineUnsafe]
  /\ todo' = [todo EXCEPT ![Consumer] = Walk("setExecutor", x, inlineUnsafe)]
  /\ UNCHANGED <<length, state, func, executor, count, started, queue, fate>>

\* ~SemiFuture: releaseDeferredExecutor.
dropSemiFuture ==
  /\ choice.kind = "none"
  /\ choice' = [choice EXCEPT !.kind = "drop"]
  /\ todo' = [todo EXCEPT ![Consumer] = Walk("detach", None, FALSE)]
  /\ UNCHANGED <<length, state, func, executor, count, started, queue, fate>>

\* The first core of d is completed, by a thread of executor ka or of none.
produce(d, ka) ==
  /\ d \notin started
  /\ started' = started \cup {d}
  /\ todo' = [todo EXCEPT ![<<"producer", d>>] = Complete(d, 1, ka)]
  /\ UNCHANGED <<length, state, func, executor, count, choice, queue, fate>>
-----------------------------------------------------------------------------
(* addFrom *)

\* What follows when s was read from state_ and is not EMPTY.
AfterAddRead(s, c) ==
  IF s = "DETACHED" THEN <<Op("destroy", c.d, c.k, None)>>
  ELSE IF s = "HAS_EXECUTOR" THEN <<Op("addWithInline", c.d, c.k, c.x)>>
  ELSE Terminate(c.d)

AddLoad(t) ==
  /\ At(t, "addFrom")
  /\ LET c == Cur(t) IN
     Continue(t, IF state[c.d] = "EMPTY" THEN <<[c EXCEPT !.op = "storeFunc"]>>
                 ELSE AfterAddRead(state[c.d], c))
  /\ UNCHANGED <<length, state, func, executor, count, choice, started, queue, fate>>

StoreFunc(t) ==
  /\ At(t, "storeFunc")
  /\ func' = [func EXCEPT ![Cur(t).d] = Cur(t).k]
  /\ Continue(t, <<[Cur(t) EXCEPT !.op = "addCas"]>>)
  /\ UNCHANGED <<length, state, executor, count, choice, started, queue, fate>>

AddCas(t) ==
  /\ At(t, "addCas")
  /\ LET c == Cur(t) IN
     IF state[c.d] = "EMPTY"
     THEN /\ state' = [state EXCEPT ![c.d] = "HAS_FUNCTION"]
          /\ Continue(t, <<>>)
          /\ UNCHANGED func
     ELSE /\ func' = [func EXCEPT ![c.d] = 0]
          /\ Continue(t, AfterAddRead(state[c.d], c))
          /\ UNCHANGED state
  /\ UNCHANGED <<length, executor, count, choice, started, queue, fate>>

\* Executor::add: at once in this thread, or later in the worker's.
AddTo(x, t, d, k) ==
  IF x \in InlineExecutors
  THEN Continue(t, <<Op("run", d, k, x)>>) /\ UNCHANGED queue
  ELSE Continue(t, <<>>) /\ queue' = [queue EXCEPT ![d] = k]

\* Mutant: any completing executor runs the function inline.
AddWithInlineAnyExecutor(t) ==
  /\ At(t, "addWithInline")
  /\ LET c == Cur(t) IN
     IF c.x # None
     THEN Continue(t, <<Op("run", c.d, c.k, c.x)>>) /\ UNCHANGED queue
     ELSE AddTo(executor[c.d], t, c.d, c.k)
  /\ UNCHANGED <<length, state, func, executor, count, choice, started, fate>>

AddWithInline(t) ==
  /\ At(t, "addWithInline")
  /\ LET c == Cur(t) IN
     IF c.x = executor[c.d]
     THEN Continue(t, <<Op("run", c.d, c.k, c.x)>>) /\ UNCHANGED queue
     ELSE AddTo(executor[c.d], t, c.d, c.k)
  /\ UNCHANGED <<length, state, func, executor, count, choice, started, fate>>
-----------------------------------------------------------------------------
(* setExecutor and detach: store, load, CAS from EMPTY, CAS from HAS_FUNCTION *)

Boosting == {"setExecutor", "setExecutorInline", "detach"}
Final(c) == IF c.x = None THEN "DETACHED" ELSE "HAS_EXECUTOR"

BoostLoad(t) ==
  /\ \E o \in Boosting : At(t, o)
  /\ LET c == Cur(t)
         inl == IF c.op = "setExecutorInline" THEN 1 ELSE 0 IN
       /\ executor' = IF c.x = None THEN executor ELSE [executor EXCEPT ![c.d] = c.x]
       /\ Continue(t, IF state[c.d] = "EMPTY" THEN <<Op("boostCas", c.d, inl, c.x)>>
                      ELSE IF state[c.d] = "HAS_FUNCTION" THEN <<Op("boostCas2", c.d, inl, c.x)>>
                      ELSE Terminate(c.d))
  /\ UNCHANGED <<length, state, func, count, choice, started, queue, fate>>

\* Mutant: executor_ is written after the state was published.
BoostCasStoresLate(t) ==
  /\ At(t, "boostCas")
  /\ LET c == Cur(t) IN
     IF state[c.d] = "EMPTY"
     THEN state' = [state EXCEPT ![c.d] = Final(c)] /\ Continue(t, <<Op("setExecutor", c.d, 0, c.x)>>)
     ELSE /\ Continue(t, IF state[c.d] = "HAS_FUNCTION" THEN <<[c EXCEPT !.op = "boostCas2"]>>
                         ELSE Terminate(c.d))
          /\ UNCHANGED state
  /\ UNCHANGED <<length, func, executor, count, choice, started, queue, fate>>

BoostCas(t) ==
  /\ At(t, "boostCas")
  /\ LET c == Cur(t) IN
     IF state[c.d] = "EMPTY"
     THEN state' = [state EXCEPT ![c.d] = Final(c)] /\ Continue(t, <<>>)
     ELSE /\ Continue(t, IF state[c.d] = "HAS_FUNCTION" THEN <<[c EXCEPT !.op = "boostCas2"]>>
                         ELSE Terminate(c.d))
          /\ UNCHANGED state
  /\ UNCHANGED <<length, func, executor, count, choice, started, queue, fate>>

\* Mutant: the function that was waiting is not taken.
BoostCas2Forgets(t) ==
  /\ At(t, "boostCas2")
  /\ LET c == Cur(t) IN
     IF state[c.d] = "HAS_FUNCTION"
     THEN /\ state' = [state EXCEPT ![c.d] = Final(c)]
          /\ Continue(t, <<>>)
     ELSE Continue(t, Terminate(c.d)) /\ UNCHANGED state
  /\ UNCHANGED <<length, func, executor, count, choice, started, queue, fate>>

BoostCas2(t) ==
  /\ At(t, "boostCas2")
  /\ LET c == Cur(t) IN
     IF state[c.d] = "HAS_FUNCTION"
     THEN /\ state' = [state EXCEPT ![c.d] = Final(c)]
          /\ Continue(t, <<[c EXCEPT !.op = "takeFunc"]>>)
     ELSE Continue(t, Terminate(c.d)) /\ UNCHANGED state
  /\ UNCHANGED <<length, func, executor, count, choice, started, queue, fate>>

\* The stored function is destroyed, called inline, or added.
TakeFunc(t) ==
  /\ At(t, "takeFunc")
  /\ LET c == Cur(t) IN
       /\ func' = [func EXCEPT ![c.d] = 0]
       /\ IF c.x = None
          THEN Continue(t, <<Op("destroy", c.d, func[c.d], None)>>) /\ UNCHANGED queue
          ELSE IF c.k = 1
          THEN Continue(t, <<Op("run", c.d, func[c.d], c.x)>>) /\ UNCHANGED queue
          ELSE AddTo(c.x, t, c.d, func[c.d])
  /\ UNCHANGED <<length, state, executor, count, choice, started, fate>>
-----------------------------------------------------------------------------
\* The function runs on executor x and completes the next core of the chain.
Run(t) ==
  /\ At(t, "run")
  /\ LET c == Cur(t) IN
       /\ fate' = [fate EXCEPT ![c.d][c.k] = IF @ = "pending" THEN c.x ELSE "twice"]
       /\ Continue(t, Complete(c.d, c.k + 1, c.x))
  /\ UNCHANGED <<length, state, func, executor, count, choice, started, queue>>

\* The function is destroyed; the promise it owned completes the next core with
\* BrokenPromise, from inside the destructor.
Destroy(t) ==
  /\ At(t, "destroy")
  /\ LET c == Cur(t) IN
       /\ fate' = [fate EXCEPT ![c.d][c.k] = IF @ # "pending" THEN "twice"
                                              ELSE IF c.x = None THEN "destroyed" ELSE "discarded"]
       /\ Continue(t, Complete(c.d, c.k + 1, None))
  /\ UNCHANGED <<length, state, func, executor, count, choice, started, queue>>

Release(t) ==
  /\ At(t, "release")
  /\ count' = [count EXCEPT ![Cur(t).d] = @ - 1]
  /\ Continue(t, <<>>)
  /\ UNCHANGED <<length, state, func, executor, choice, started, queue, fate>>

\* The worker of the real executor takes the function, and runs it or, when the
\* executor is shut down, destroys it.
Work(d, o) ==
  /\ queue[d] # 0 /\ todo[<<"worker", d>>] = <<>>
  /\ queue' = [queue EXCEPT ![d] = 0]
  /\ todo' = [todo EXCEPT ![<<"worker", d>>] = <<Op(o, d, queue[d], choice.executor)>>]
  /\ UNCHANGED <<length, state, func, executor, count, choice, started, fate>>

Step(t) ==
  \/ AddLoad(t) \/ StoreFunc(t) \/ AddCas(t) \/ AddWithInline(t)
  \/ BoostLoad(t) \/ BoostCas(t) \/ BoostCas2(t) \/ TakeFunc(t)
  \/ Run(t) \/ Destroy(t) \/ Release(t)

Consume == dropSemiFuture \/ \E x \in Executors, i \in BOOLEAN : via(x, i)

Next ==
  \/ Consume
  \/ \E d \in Deferreds, ka \in Executors \cup {None} : produce(d, ka)
  \/ \E t \in Threads : Step(t)
  \/ \E d \in Deferreds, o \in {"run", "destroy"} : Work(d, o)

Spec == Init /\ [][Next]_vars

\* Calls go on, promises are completed (or broken), the SemiFuture is consumed
\* and a real executor deals with every function it was given.
Fairness ==
  /\ WF_vars(Consume)
  /\ \A t \in Threads : WF_vars(Step(t))
  /\ \A d \in Deferreds :
       /\ WF_vars(\E ka \in Executors \cup {None} : produce(d, ka))
       /\ WF_vars(\E o \in {"run", "destroy"} : Work(d, o))

FairSpec == Spec /\ Fairness
-----------------------------------------------------------------------------
(* Properties *)

\* The variables stay in their types; no reference count goes below zero
\* (the DCHECK of release()).
TypeOK ==
  /\ length \in [Deferreds -> 1..K]
  /\ state \in [Deferreds -> {"EMPTY", "HAS_FUNCTION", "HAS_EXECUTOR", "DETACHED"}]
  /\ func \in [Deferreds -> 0..K] /\ queue \in [Deferreds -> 0..K]
  /\ executor \in [Deferreds -> Executors \cup {None}]
  /\ count \in [Deferreds -> 0..(K + 1)]
  /\ choice.kind \in {"none", "via", "drop"}
  /\ started \subseteq Deferreds
  /\ \A d \in Deferreds : \A k \in 1..length[d] :
       fate[d][k] \in Executors \cup {"pending", "destroyed", "discarded", "twice"}

\* The plain fields that the next step of t reads or writes.
Touches(t) ==
  IF todo[t] = <<>> THEN {}
  ELSE LET c == Cur(t) IN
       IF c.op \in {"storeFunc", "takeFunc"} THEN {<<c.d, "func">>}
       ELSE IF c.op \in Boosting \ {"detach"} THEN {<<c.d, "executor">>}
       ELSE {}

Reads(t) ==
  IF todo[t] = <<>> THEN {}
  ELSE IF Cur(t).op \in {"addWithInline", "takeFunc"} THEN {<<Cur(t).d, "executor">>} ELSE {}

\* The reference counts stay in range, and no thread uses a deferred executor
\* after its last reference was released: not when via() races with the
\* completion of the whole chain, nor when destroying a function re-enters
\* addFrom on the same executor.  func_ and executor_ are plain fields guarded by
\* state_ alone: while a thread is about to write one, no other thread is about
\* to read or write it.
MemorySafe ==
  /\ TypeOK
  /\ \A t, u \in Threads : t # u => Touches(t) \cap (Touches(u) \cup Reads(u)) = {}
  /\ \A t \in Threads : \A i \in DOMAIN todo[t] :
       todo[t][i].op \notin {"run", "destroy"} => count[todo[t][i].d] > 0

\* Deferred means deferred: a function has run only after via(), on the executor
\* that via() brought, at most once and after the functions before it; without
\* via() none ever runs, and with it none is lost other than by the executor.
FunctionFate ==
  \A d \in Deferreds : \A k \in 1..length[d] :
    /\ fate[d][k] \in Executors => choice.kind = "via" /\ fate[d][k] = choice.executor
    /\ fate[d][k] = "destroyed" => choice.kind = "drop"
    /\ fate[d][k] # "twice"
    /\ fate[d][k] # "pending" => \A j \in 1..k : fate[d][j] # "pending"

\* Every deferred function is run or destroyed in the end, and every deferred
\* executor of the tree is freed.
EverythingResolved ==
  <>[](\A d \in Deferreds : count[d] = 0 /\ \A k \in 1..length[d] : fate[d][k] # "pending")
=============================================================================
