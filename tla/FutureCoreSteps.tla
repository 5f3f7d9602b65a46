---------------------------- MODULE FutureCoreSteps --------------------------
(***************************************************************************)
(* The inductive invariant IInv of FutureCore.tla: it holds of a new core, *)
(* and the steps of the consumer, of the producer and of the executor keep *)
(* it.  IInv counts the references there should be (RefsMatch,             *)
(* CbRefsMatch), bounds state_ by what each thread has done (ProducerView, *)
(* ConsumerView) and follows the one delivery of the callback              *)
(* (CallbackView).                                                         *)
(***************************************************************************)
EXTENDS FutureCore, TLAPS

\* The references that belong to each point of the program.
LEMMA Weights ==
  /\ \A l \in PCs : Refs(l) \in 0..3 /\ CbRefs(l) \in 0..2 /\ (Refs(l) = 0 <=> l = "gone")
  /\ \A k \in PendingTask \cup {"none", "done"} :
       TaskRefs(k) \in 0..1 /\ TaskCbRefs(k) \in 0..1 /\ (TaskRefs(k) = 0 <=> k \notin PendingTask)
  /\ \A l \in {"own", "dtor", "srLoad", "srCas", "srDone", "fulfilled", "unretrieved", "cbLoad",
               "cbCas", "cbDone", "continued", "do"} : Refs(l) = 1 /\ CbRefs(l) = 0
  /\ \A l \in {"add", "runLambda", "lambdaDeref"} : Refs(l) = 3 /\ CbRefs(l) = 2
  /\ Refs("gone") = 0 /\ CbRefs("gone") = 0
  /\ Refs("runInline") = 2 /\ CbRefs("runInline") = 0
  /\ Refs("lambdaDetach") = 3 /\ CbRefs("lambdaDetach") = 1
  /\ Refs("runError") = 2 /\ CbRefs("runError") = 1
  /\ Refs("localDeref") = 2 /\ CbRefs("localDeref") = 1
  /\ Refs("localDetach") = 2 /\ CbRefs("localDetach") = 0
  /\ TaskRefs("none") = 0 /\ TaskRefs("done") = 0 /\ TaskRefs("detach") = 1
  /\ TaskCbRefs("none") = 0 /\ TaskCbRefs("done") = 0 /\ TaskCbRefs("detach") = 0
  /\ \A k \in {"queued", "running", "deref"} : TaskRefs(k) = 1 /\ TaskCbRefs(k) = 1
BY DEF Refs, CbRefs, TaskRefs, TaskCbRefs, PCs, ProducerPCs, ConsumerPCs, CallbackPCs,
   PendingTask

\* The two counts are sums of small numbers, and attached is zero only at the end.
LEMMA Bounds ==
  ASSUME IInv
  PROVE  /\ Refs(pc["producer"]) \in 0..3 /\ Refs(pc["consumer"]) \in 0..3 /\ TaskRefs(task) \in 0..1
         /\ CbRefs(pc["producer"]) \in 0..2 /\ CbRefs(pc["consumer"]) \in 0..2 /\ TaskCbRefs(task) \in 0..1
         /\ Held \in 0..7 /\ CbHeld \in 0..5
         /\ attached # 0 <=> pc["producer"] # "gone" \/ pc["consumer"] # "gone" \/ task \in PendingTask
<1>1. pc["producer"] \in PCs /\ pc["consumer"] \in PCs /\ task \in PendingTask \cup {"none", "done"}
  BY DEF IInv, TypeOK, Threads
<1> QED
  BY <1>1, Weights DEF IInv, RefsMatch, Held, CbHeld

\* Only the thread in doCallback, and the executor, have callback references.
LEMMA Alone ==
  ASSUME IInv
  PROVE  /\ pc["producer"] \in CallbackPCs => CbRefs(pc["consumer"]) = 0
         /\ pc["consumer"] \in CallbackPCs => CbRefs(pc["producer"]) = 0
<1>1. \A l \in PCs : l \notin CallbackPCs => CbRefs(l) = 0
  BY DEF CbRefs, PCs, CallbackPCs
<1> QED
  BY <1>1 DEF IInv, ProducerView, ConsumerView, PCs

\* A new core satisfies the inductive invariant.
LEMMA InitIInv == Init => IInv
<1> SUFFICES ASSUME Init PROVE IInv
  OBVIOUS
<1> USE FutureCoreAssumption DEF Init
<1>1. CASE InitContract
  <2>1. pc["producer"] = "own" /\ pc["consumer"] = "unretrieved" /\ pc \in [Threads -> PCs]
    BY <1>1 DEF InitContract, Threads, PCs, ProducerPCs, ConsumerPCs
  <2>2. TypeOK
    <3>1. attached \in 0..255 /\ cbRefs \in 0..255 /\ runs \in Nat /\ drops \in Nat
      BY <1>1 DEF InitContract
    <3>2. executor \in Executors \cup {None} /\ ka \in Executors \cup {None} /\ curExec \in Executors \cup {None}
      BY <1>1 DEF InitContract
    <3> QED
      BY Zenon, <1>1, <2>1, <3>1, <3>2 DEF InitContract, TypeOK, States, PendingTask
  <2>3. RefsMatch /\ CbRefsMatch
    BY <1>1, <2>1, Weights DEF InitContract, RefsMatch, CbRefsMatch, Held, CbHeld
  <2>4. ProducerView /\ ConsumerView /\ CallbackView
    BY <1>1, <2>1 DEF InitContract, ProducerView, ConsumerView, CallbackView,
       ProducerPCs, ConsumerPCs, CallbackPCs, WithCallback, PendingTask, Doing,
       Resolved, Fresh
  <2> QED
    BY <2>2, <2>3, <2>4 DEF IInv
<1>2. CASE InitReady
  <2>1. pc["producer"] = "gone" /\ pc["consumer"] = "own" /\ pc \in [Threads -> PCs]
    BY <1>2 DEF InitReady, Threads, PCs, ProducerPCs, ConsumerPCs
  <2>2. TypeOK
    <3>1. attached \in 0..255 /\ cbRefs \in 0..255 /\ runs \in Nat /\ drops \in Nat
      BY <1>2 DEF InitReady
    <3>2. executor \in Executors \cup {None} /\ ka \in Executors \cup {None} /\ curExec \in Executors \cup {None}
      BY <1>2 DEF InitReady
    <3> QED
      BY Zenon, <1>2, <2>1, <3>1, <3>2 DEF InitReady, TypeOK, States, PendingTask
  <2>3. RefsMatch /\ CbRefsMatch
    BY <1>2, <2>1, Weights DEF InitReady, RefsMatch, CbRefsMatch, Held, CbHeld
  <2>4. ProducerView /\ ConsumerView /\ CallbackView
    BY <1>2, <2>1 DEF InitReady, ProducerView, ConsumerView, CallbackView,
       ProducerPCs, ConsumerPCs, CallbackPCs, WithCallback, PendingTask, Doing,
       Resolved, Fresh
  <2> QED
    BY <2>2, <2>3, <2>4 DEF IInv
<1> QED
  BY <1>1, <1>2

\* detachOne() with a reference to give back deletes the core with the last one.
LEMMA DetachOneKeeps ==
  ASSUME IInv, DetachOne, attached # 0
  PROVE  attached' = attached - 1 /\ memory' \in {"live", "freed"} /\ (memory' = "live" <=> attached' # 0)
BY Bounds DEF IInv, RefsMatch, DetachOne

\* A step of one thread leaves the other where it is.
LEMMA GotoProducer ==
  ASSUME TypeOK, NEW l \in PCs, Goto("producer", l)
  PROVE  pc' \in [Threads -> PCs] /\ pc'["producer"] = l /\ pc'["consumer"] = pc["consumer"]
BY DEF TypeOK, Goto, Threads

LEMMA GotoConsumer ==
  ASSUME TypeOK, NEW l \in PCs, Goto("consumer", l)
  PROVE  pc' \in [Threads -> PCs] /\ pc'["consumer"] = l /\ pc'["producer"] = pc["producer"]
BY DEF TypeOK, Goto, Threads

\* Every step of the consumer keeps it.
LEMMA ConsumerIInv == IInv /\ Consumer => IInv'
<1> SUFFICES ASSUME IInv, Consumer PROVE IInv'
  OBVIOUS
<1> USE FutureCoreAssumption DEF IInv
<1>1. ASSUME NEW x \in Executors, setExecutor(x) PROVE IInv'
  <2>1. Held' = Held /\ CbHeld' = CbHeld
    BY <1>1, Weights, Bounds DEF Held, CbHeld, setExecutor, refVars, cbVars, argVars, workVars
  <2>2. RefsMatch' /\ CbRefsMatch' /\ attached' \in 0..255 /\ cbRefs' \in 0..255
    BY <1>1, <2>1, Bounds DEF RefsMatch, CbRefsMatch, setExecutor, refVars, cbVars,
       argVars, workVars
  <2>3. TypeOK'
    BY <1>1, <2>2 DEF TypeOK, States, WithCallback, PendingTask, setExecutor,
       refVars, cbVars, argVars, workVars
  <2>4. ProducerView' /\ ConsumerView'
    BY <1>1 DEF TypeOK, States, ProducerView, ConsumerView, CallbackView, Fresh,
       Doing, ProducerPCs, ConsumerPCs, CallbackPCs, WithCallback, setExecutor,
       refVars, cbVars, argVars, workVars
  <2>5. CallbackView'
    BY <1>1 DEF TypeOK, States, ProducerView, ConsumerView, CallbackView,
       PendingTask, Doing, Resolved, Fresh, ProducerPCs, ConsumerPCs, CallbackPCs,
       WithCallback, setExecutor, refVars, cbVars, argVars, workVars
  <2> QED
    BY <2>2, <2>3, <2>4, <2>5
<1>2. ASSUME NEW i \in BOOLEAN, setCallback(i) PROVE IInv'
  <2>1. pc' \in [Threads -> PCs] /\ pc'["producer"] = pc["producer"]
        /\ pc'["consumer"] = "cbLoad"
    BY <1>2, GotoConsumer DEF ProducerView, ConsumerView, PCs, ProducerPCs,
       ConsumerPCs, CallbackPCs, WithCallback, setCallback
  <2>2. Held' = Held /\ CbHeld' = CbHeld
    BY <1>2, <2>1, Weights, Bounds DEF Held, CbHeld, setCallback, refVars, cbVars,
       argVars, workVars
  <2>3. RefsMatch' /\ CbRefsMatch' /\ attached' \in 0..255 /\ cbRefs' \in 0..255
    BY <1>2, <2>1, <2>2, Bounds DEF RefsMatch, CbRefsMatch, setCallback, refVars,
       cbVars, argVars, workVars
  <2>4. TypeOK'
    BY <1>2, <2>1, <2>3 DEF TypeOK, States, WithCallback, PendingTask, setCallback,
       refVars, cbVars, argVars, workVars
  <2>5. ProducerView' /\ ConsumerView'
    BY <1>2, <2>1 DEF TypeOK, States, ProducerView, ConsumerView, CallbackView,
       Fresh, Doing, ProducerPCs, ConsumerPCs, CallbackPCs, WithCallback,
       setCallback, refVars, cbVars, argVars, workVars
  <2>6. CallbackView'
    BY <1>2, <2>1 DEF TypeOK, States, ProducerView, ConsumerView, CallbackView,
       PendingTask, Doing, Resolved, Fresh, ProducerPCs, ConsumerPCs, CallbackPCs,
       WithCallback, setCallback, refVars, cbVars, argVars, workVars
  <2> QED
    BY <2>3, <2>4, <2>5, <2>6
<1>3. CASE CbLoad
  <2>1. pc' \in [Threads -> PCs] /\ pc'["producer"] = pc["producer"]
        /\ pc'["consumer"] = IF state = "Start" THEN "cbCas" ELSE "cbDone"
    BY <1>3, GotoConsumer DEF ProducerView, ConsumerView, PCs, ProducerPCs,
       ConsumerPCs, CallbackPCs, WithCallback, CbLoad, AfterCbRead
  <2>2. Held' = Held /\ CbHeld' = CbHeld
    BY <1>3, <2>1, Weights, Bounds DEF Held, CbHeld, CbLoad, AfterCbRead, refVars,
       cbVars, argVars, workVars
  <2>3. RefsMatch' /\ CbRefsMatch' /\ attached' \in 0..255 /\ cbRefs' \in 0..255
    BY <1>3, <2>1, <2>2, Bounds DEF RefsMatch, CbRefsMatch, CbLoad, AfterCbRead,
       refVars, cbVars, argVars, workVars
  <2>4. TypeOK'
    BY <1>3, <2>1, <2>3 DEF TypeOK, States, WithCallback, PendingTask, CbLoad,
       AfterCbRead, refVars, cbVars, argVars, workVars
  <2>5. ProducerView' /\ ConsumerView'
    BY <1>3, <2>1 DEF TypeOK, States, ProducerView, ConsumerView, CallbackView,
       Fresh, Doing, ProducerPCs, ConsumerPCs, CallbackPCs, WithCallback, CbLoad,
       AfterCbRead, refVars, cbVars, argVars, workVars
  <2>6. CallbackView'
    BY <1>3, <2>1 DEF TypeOK, States, ProducerView, ConsumerView, CallbackView,
       PendingTask, Doing, Resolved, Fresh, ProducerPCs, ConsumerPCs, CallbackPCs,
       WithCallback, CbLoad, AfterCbRead, refVars, cbVars, argVars, workVars
  <2> QED
    BY <2>3, <2>4, <2>5, <2>6
<1>4. CASE CbCas
  <2>1. pc' \in [Threads -> PCs] /\ pc'["producer"] = pc["producer"]
        /\ pc'["consumer"] = IF state = "Start" THEN "continued" ELSE "cbDone"
    BY <1>4, GotoConsumer DEF ProducerView, ConsumerView, PCs, ProducerPCs,
       ConsumerPCs, CallbackPCs, WithCallback, CbCas, AfterCbRead
  <2>2. Held' = Held /\ CbHeld' = CbHeld
    BY <1>4, <2>1, Weights, Bounds DEF Held, CbHeld, CbCas, AfterCbRead, refVars,
       cbVars, argVars, workVars
  <2>3. RefsMatch' /\ CbRefsMatch' /\ attached' \in 0..255 /\ cbRefs' \in 0..255
    BY <1>4, <2>1, <2>2, Bounds DEF RefsMatch, CbRefsMatch, CbCas, AfterCbRead,
       refVars, cbVars, argVars, workVars
  <2>4. TypeOK'
    BY <1>4, <2>1, <2>3 DEF TypeOK, States, WithCallback, PendingTask, CbCas,
       AfterCbRead, refVars, cbVars, argVars, workVars
  <2>5. ProducerView' /\ ConsumerView'
    BY <1>4, <2>1 DEF TypeOK, States, ProducerView, ConsumerView, CallbackView,
       Fresh, Doing, ProducerPCs, ConsumerPCs, CallbackPCs, WithCallback, CbCas,
       AfterCbRead, refVars, cbVars, argVars, workVars
  <2>6. CallbackView'
    BY <1>4, <2>1 DEF TypeOK, States, ProducerView, ConsumerView, CallbackView,
       PendingTask, Doing, Resolved, Fresh, ProducerPCs, ConsumerPCs, CallbackPCs,
       WithCallback, CbCas, AfterCbRead, refVars, cbVars, argVars, workVars
  <2> QED
    BY <2>3, <2>4, <2>5, <2>6
<1>5. CASE CbDone
  <2>1. pc' \in [Threads -> PCs] /\ pc'["producer"] = pc["producer"]
        /\ pc'["consumer"] = "do"
    BY <1>5, GotoConsumer DEF ProducerView, ConsumerView, PCs, ProducerPCs,
       ConsumerPCs, CallbackPCs, WithCallback, CbDone
  <2>2. Held' = Held /\ CbHeld' = CbHeld
    BY <1>5, <2>1, Weights, Bounds DEF Held, CbHeld, CbDone, refVars, cbVars, argVars, workVars
  <2>3. RefsMatch' /\ CbRefsMatch' /\ attached' \in 0..255 /\ cbRefs' \in 0..255
    BY <1>5, <2>1, <2>2, Bounds DEF RefsMatch, CbRefsMatch, CbDone, refVars, cbVars,
       argVars, workVars
  <2>4. TypeOK'
    BY <1>5, <2>1, <2>3 DEF TypeOK, States, WithCallback, PendingTask, CbDone,
       refVars, cbVars, argVars, workVars
  <2>5. ProducerView' /\ ConsumerView'
    BY <1>5, <2>1 DEF TypeOK, States, ProducerView, ConsumerView, CallbackView,
       Fresh, Doing, ProducerPCs, ConsumerPCs, CallbackPCs, WithCallback, CbDone,
       refVars, cbVars, argVars, workVars
  <2>6. CallbackView'
    BY <1>5, <2>1 DEF TypeOK, States, ProducerView, ConsumerView, CallbackView,
       PendingTask, Doing, Resolved, Fresh, ProducerPCs, ConsumerPCs, CallbackPCs,
       WithCallback, CbDone, refVars, cbVars, argVars, workVars
  <2> QED
    BY <2>3, <2>4, <2>5, <2>6
<1>6. CASE detachFuture
  <2>1. pc' \in [Threads -> PCs] /\ pc'["producer"] = pc["producer"]
        /\ pc'["consumer"] = "gone"
    BY <1>6, GotoConsumer DEF ProducerView, ConsumerView, PCs, ProducerPCs,
       ConsumerPCs, CallbackPCs, WithCallback, detachFuture
  <2>2. Held' = Held - 1 /\ CbHeld' = CbHeld
    BY <1>6, <2>1, Weights, Bounds DEF Held, CbHeld, detachFuture, refVars, cbVars,
       argVars, workVars
  <2>3. attached # 0
    BY <1>6, Bounds DEF PendingTask, detachFuture
  <2>4. attached' = attached - 1 /\ memory' \in {"live", "freed"} /\ (memory' = "live" <=> attached' # 0)
    BY <1>6, <2>3, DetachOneKeeps DEF detachFuture
  <2>5. RefsMatch' /\ CbRefsMatch' /\ attached' \in 0..255 /\ cbRefs' \in 0..255
    BY <1>6, <2>1, <2>4, <2>2, <2>3, Bounds DEF RefsMatch, CbRefsMatch, detachFuture,
       refVars, cbVars, argVars, workVars
  <2>6. TypeOK'
    BY SMTT(30), <1>6, <2>1, <2>4, <2>5 DEF TypeOK, States, WithCallback, PendingTask,
       detachFuture, refVars, cbVars, argVars, workVars
  <2>7. ProducerView' /\ ConsumerView'
    BY SMTT(30), <1>6, <2>1, <2>4 DEF TypeOK, States, ProducerView, ConsumerView, CallbackView,
       Fresh, Doing, ProducerPCs, ConsumerPCs, CallbackPCs, WithCallback,
       detachFuture, refVars, cbVars, argVars, workVars
  <2>8. CallbackView'
    BY <1>6, <2>1, <2>4 DEF TypeOK, States, ProducerView, ConsumerView, CallbackView,
       PendingTask, Doing, Resolved, Fresh, ProducerPCs, ConsumerPCs, CallbackPCs,
       WithCallback, detachFuture, refVars, cbVars, argVars, workVars
  <2> QED
    BY <2>5, <2>6, <2>7, <2>8
<1> QED
  BY <1>1, <1>2, <1>3, <1>4, <1>5, <1>6 DEF Consumer

\* Every step of the producer keeps it.
LEMMA ProducerIInv == IInv /\ Producer => IInv'
<1> SUFFICES ASSUME IInv, Producer PROVE IInv'
  OBVIOUS
<1> USE FutureCoreAssumption DEF IInv
<1>1. CASE getSemiFuture
  <2>1. pc' \in [Threads -> PCs] /\ pc'["producer"] = pc["producer"]
        /\ pc'["consumer"] = "own"
    BY <1>1, GotoConsumer DEF ProducerView, ConsumerView, PCs, ProducerPCs,
       ConsumerPCs, CallbackPCs, WithCallback, getSemiFuture
  <2>2. Held' = Held /\ CbHeld' = CbHeld
    BY <1>1, <2>1, Weights, Bounds DEF Held, CbHeld, getSemiFuture, refVars, cbVars,
       argVars, workVars
  <2>3. RefsMatch' /\ CbRefsMatch' /\ attached' \in 0..255 /\ cbRefs' \in 0..255
    BY <1>1, <2>1, <2>2, Bounds DEF RefsMatch, CbRefsMatch, getSemiFuture, refVars,
       cbVars, argVars, workVars
  <2>4. TypeOK'
    BY <1>1, <2>1, <2>3 DEF TypeOK, States, WithCallback, PendingTask, getSemiFuture,
       refVars, cbVars, argVars, workVars
  <2>5. ProducerView' /\ ConsumerView'
    BY SMTT(30), <1>1, <2>1 DEF TypeOK, States, ProducerView, ConsumerView, CallbackView,
       Fresh, Doing, ProducerPCs, ConsumerPCs, CallbackPCs, WithCallback,
       getSemiFuture, refVars, cbVars, argVars, workVars
  <2>6. CallbackView'
    BY <1>1, <2>1 DEF TypeOK, States, ProducerView, ConsumerView, CallbackView,
       PendingTask, Doing, Resolved, Fresh, ProducerPCs, ConsumerPCs, CallbackPCs,
       WithCallback, getSemiFuture, refVars, cbVars, argVars, workVars
  <2> QED
    BY <2>3, <2>4, <2>5, <2>6
<1>2. ASSUME NEW k \in (Executors \ Deferred) \cup {None}, setTry(k) PROVE IInv'
  <2>1. pc' \in [Threads -> PCs] /\ pc'["consumer"] = pc["consumer"]
        /\ pc'["producer"] = "srLoad"
    BY <1>2, GotoProducer DEF ProducerView, ConsumerView, PCs, ProducerPCs,
       ConsumerPCs, CallbackPCs, WithCallback, setTry, setResult
  <2>2. Held' = Held /\ CbHeld' = CbHeld
    BY <1>2, <2>1, Weights, Bounds DEF Held, CbHeld, setTry, setResult, refVars,
       cbVars, argVars, workVars
  <2>3. RefsMatch' /\ CbRefsMatch' /\ attached' \in 0..255 /\ cbRefs' \in 0..255
    BY <1>2, <2>1, <2>2, Bounds DEF RefsMatch, CbRefsMatch, setTry, setResult,
       refVars, cbVars, argVars, workVars
  <2>4. TypeOK'
    BY <1>2, <2>1, <2>3 DEF TypeOK, States, WithCallback, PendingTask, setTry,
       setResult, refVars, cbVars, argVars, workVars
  <2>5. ProducerView' /\ ConsumerView'
    BY <1>2, <2>1 DEF TypeOK, States, ProducerView, ConsumerView, CallbackView,
       Fresh, Doing, ProducerPCs, ConsumerPCs, CallbackPCs, WithCallback, setTry,
       setResult, refVars, cbVars, argVars, workVars
  <2>6. CallbackView'
    BY <1>2, <2>1 DEF TypeOK, States, ProducerView, ConsumerView, CallbackView,
       PendingTask, Doing, Resolved, Fresh, ProducerPCs, ConsumerPCs, CallbackPCs,
       WithCallback, setTry, setResult, refVars, cbVars, argVars, workVars
  <2> QED
    BY <2>3, <2>4, <2>5, <2>6
<1>3. CASE DtorDetachFuture
  <2>1. pc' \in [Threads -> PCs] /\ pc'["consumer"] = "gone"
        /\ pc'["producer"] = IF pc["producer"] = "own" THEN "dtor" ELSE "fulfilled"
    BY <1>3 DEF TypeOK, Threads, PCs, ProducerPCs, DtorDetachFuture
  <2>2. Held' = Held - 1 /\ CbHeld' = CbHeld
    BY <1>3, <2>1, Weights, Bounds DEF Held, CbHeld, DtorDetachFuture, refVars,
       cbVars, argVars, workVars
  <2>3. attached # 0
    BY <1>3, Bounds DEF PendingTask, DtorDetachFuture
  <2>4. attached' = attached - 1 /\ memory' \in {"live", "freed"} /\ (memory' = "live" <=> attached' # 0)
    BY <1>3, <2>3, DetachOneKeeps DEF DtorDetachFuture
  <2>5. RefsMatch' /\ CbRefsMatch' /\ attached' \in 0..255 /\ cbRefs' \in 0..255
    BY SMTT(30), <1>3, <2>1, <2>4, <2>2, <2>3, Bounds DEF RefsMatch, CbRefsMatch,
       DtorDetachFuture, refVars, cbVars, argVars, workVars
  <2>6. TypeOK'
    BY SMTT(30), <1>3, <2>1, <2>4, <2>5 DEF TypeOK, States, WithCallback, PendingTask,
       DtorDetachFuture, refVars, cbVars, argVars, workVars
  <2>7. ProducerView' /\ ConsumerView'
    BY SMTT(30), <1>3, <2>1, <2>4 DEF TypeOK, States, ProducerView, ConsumerView, CallbackView,
       Fresh, Doing, ProducerPCs, ConsumerPCs, CallbackPCs, WithCallback,
       DtorDetachFuture, refVars, cbVars, argVars, workVars
  <2>8. CallbackView'
    BY SMTT(30), <1>3, <2>1, <2>4 DEF TypeOK, States, ProducerView, ConsumerView, CallbackView,
       PendingTask, Doing, Resolved, Fresh, ProducerPCs, ConsumerPCs, CallbackPCs,
       WithCallback, DtorDetachFuture, refVars, cbVars, argVars, workVars
  <2> QED
    BY <2>5, <2>6, <2>7, <2>8
<1>4. CASE BreakPromise
  <2>1. pc' \in [Threads -> PCs] /\ pc'["consumer"] = pc["consumer"]
        /\ pc'["producer"] = "srLoad"
    BY <1>4, GotoProducer DEF ProducerView, ConsumerView, PCs, ProducerPCs,
       ConsumerPCs, CallbackPCs, WithCallback, BreakPromise, setResult
  <2>2. Held' = Held /\ CbHeld' = CbHeld
    BY <1>4, <2>1, Weights, Bounds DEF Held, CbHeld, BreakPromise, setResult,
       refVars, cbVars, argVars, workVars
  <2>3. RefsMatch' /\ CbRefsMatch' /\ attached' \in 0..255 /\ cbRefs' \in 0..255
    BY <1>4, <2>1, <2>2, Bounds DEF RefsMatch, CbRefsMatch, BreakPromise, setResult,
       refVars, cbVars, argVars, workVars
  <2>4. TypeOK'
    BY SMTT(30), <1>4, <2>1, <2>3 DEF TypeOK, States, WithCallback, PendingTask, BreakPromise,
       setResult, refVars, cbVars, argVars, workVars
  <2>5. ProducerView' /\ ConsumerView'
    BY SMTT(30), <1>4, <2>1 DEF TypeOK, States, ProducerView, ConsumerView, CallbackView,
       Fresh, Doing, ProducerPCs, ConsumerPCs, CallbackPCs, WithCallback,
       BreakPromise, setResult, refVars, cbVars, argVars, workVars
  <2>6. CallbackView'
    BY <1>4, <2>1 DEF TypeOK, States, ProducerView, ConsumerView, CallbackView,
       PendingTask, Doing, Resolved, Fresh, ProducerPCs, ConsumerPCs, CallbackPCs,
       WithCallback, BreakPromise, setResult, refVars, cbVars, argVars, workVars
  <2> QED
    BY <2>3, <2>4, <2>5, <2>6
<1>5. CASE detachPromise
  <2>1. pc' \in [Threads -> PCs] /\ pc'["consumer"] = pc["consumer"]
        /\ pc'["producer"] = "gone"
    BY <1>5, GotoProducer DEF ProducerView, ConsumerView, PCs, ProducerPCs,
       ConsumerPCs, CallbackPCs, WithCallback, detachPromise
  <2>2. Held' = Held - 1 /\ CbHeld' = CbHeld
    BY <1>5, <2>1, Weights, Bounds DEF Held, CbHeld, detachPromise, refVars, cbVars,
       argVars, workVars
  <2>3. attached # 0
    BY <1>5, Bounds DEF PendingTask, detachPromise
  <2>4. attached' = attached - 1 /\ memory' \in {"live", "freed"} /\ (memory' = "live" <=> attached' # 0)
    BY <1>5, <2>3, DetachOneKeeps DEF detachPromise
  <2>5. RefsMatch' /\ CbRefsMatch' /\ attached' \in 0..255 /\ cbRefs' \in 0..255
    BY <1>5, <2>1, <2>4, <2>2, <2>3, Bounds DEF RefsMatch, CbRefsMatch,
       detachPromise, refVars, cbVars, argVars, workVars
  <2>6. TypeOK'
    BY SMTT(30), <1>5, <2>1, <2>4, <2>5 DEF TypeOK, States, WithCallback, PendingTask,
       detachPromise, refVars, cbVars, argVars, workVars
  <2>7. ProducerView' /\ ConsumerView'
    BY SMTT(30), <1>5, <2>1, <2>4 DEF TypeOK, States, ProducerView, ConsumerView, CallbackView,
       Fresh, Doing, ProducerPCs, ConsumerPCs, CallbackPCs, WithCallback,
       detachPromise, refVars, cbVars, argVars, workVars
  <2>8. CallbackView'
    BY SMTT(30), <1>5, <2>1, <2>4 DEF TypeOK, States, ProducerView, ConsumerView, CallbackView,
       PendingTask, Doing, Resolved, Fresh, ProducerPCs, ConsumerPCs, CallbackPCs,
       WithCallback, detachPromise, refVars, cbVars, argVars, workVars
  <2> QED
    BY <2>5, <2>6, <2>7, <2>8
<1>6. CASE SrLoad
  <2>1. pc' \in [Threads -> PCs] /\ pc'["consumer"] = pc["consumer"]
        /\ pc'["producer"] = IF state = "Start" THEN "srCas" ELSE "srDone"
    BY <1>6, GotoProducer DEF ProducerView, ConsumerView, PCs, ProducerPCs,
       ConsumerPCs, CallbackPCs, WithCallback, SrLoad, AfterSrRead
  <2>2. Held' = Held /\ CbHeld' = CbHeld
    BY <1>6, <2>1, Weights, Bounds DEF Held, CbHeld, SrLoad, AfterSrRead, refVars,
       cbVars, argVars, workVars
  <2>3. RefsMatch' /\ CbRefsMatch' /\ attached' \in 0..255 /\ cbRefs' \in 0..255
    BY <1>6, <2>1, <2>2, Bounds DEF RefsMatch, CbRefsMatch, SrLoad, AfterSrRead,
       refVars, cbVars, argVars, workVars
  <2>4. TypeOK'
    BY SMTT(30), <1>6, <2>1, <2>3 DEF TypeOK, States, WithCallback, PendingTask, SrLoad,
       AfterSrRead, refVars, cbVars, argVars, workVars
  <2>5. ProducerView' /\ ConsumerView'
    BY SMTT(30), <1>6, <2>1 DEF TypeOK, States, ProducerView, ConsumerView, CallbackView,
       Fresh, Doing, ProducerPCs, ConsumerPCs, CallbackPCs, WithCallback, SrLoad,
       AfterSrRead, refVars, cbVars, argVars, workVars
  <2>6. CallbackView'
    BY <1>6, <2>1 DEF TypeOK, States, ProducerView, ConsumerView, CallbackView,
       PendingTask, Doing, Resolved, Fresh, ProducerPCs, ConsumerPCs, CallbackPCs,
       WithCallback, SrLoad, AfterSrRead, refVars, cbVars, argVars, workVars
  <2> QED
    BY <2>3, <2>4, <2>5, <2>6
<1>7. CASE SrCas
  <2>1. pc' \in [Threads -> PCs] /\ pc'["consumer"] = pc["consumer"]
        /\ pc'["producer"] = IF state = "Start" THEN "fulfilled" ELSE "srDone"
    BY <1>7, GotoProducer DEF ProducerView, ConsumerView, PCs, ProducerPCs,
       ConsumerPCs, CallbackPCs, WithCallback, SrCas, AfterSrRead
  <2>2. Held' = Held /\ CbHeld' = CbHeld
    BY <1>7, <2>1, Weights, Bounds DEF Held, CbHeld, SrCas, AfterSrRead, refVars,
       cbVars, argVars, workVars
  <2>3. RefsMatch' /\ CbRefsMatch' /\ attached' \in 0..255 /\ cbRefs' \in 0..255
    BY <1>7, <2>1, <2>2, Bounds DEF RefsMatch, CbRefsMatch, SrCas, AfterSrRead,
       refVars, cbVars, argVars, workVars
  <2>4. TypeOK'
    BY SMTT(30), <1>7, <2>1, <2>3 DEF TypeOK, States, WithCallback, PendingTask, SrCas,
       AfterSrRead, refVars, cbVars, argVars, workVars
  <2>5. ProducerView' /\ ConsumerView'
    BY SMTT(30), <1>7, <2>1 DEF TypeOK, States, ProducerView, ConsumerView, CallbackView,
       Fresh, Doing, ProducerPCs, ConsumerPCs, CallbackPCs, WithCallback, SrCas,
       AfterSrRead, refVars, cbVars, argVars, workVars
  <2>6. CallbackView'
    BY <1>7, <2>1 DEF TypeOK, States, ProducerView, ConsumerView, CallbackView,
       PendingTask, Doing, Resolved, Fresh, ProducerPCs, ConsumerPCs, CallbackPCs,
       WithCallback, SrCas, AfterSrRead, refVars, cbVars, argVars, workVars
  <2> QED
    BY <2>3, <2>4, <2>5, <2>6
<1>8. CASE SrDone
  <2>1. pc' \in [Threads -> PCs] /\ pc'["consumer"] = pc["consumer"]
        /\ pc'["producer"] = "do"
    BY <1>8, GotoProducer DEF ProducerView, ConsumerView, PCs, ProducerPCs,
       ConsumerPCs, CallbackPCs, WithCallback, SrDone
  <2>2. Held' = Held /\ CbHeld' = CbHeld
    BY <1>8, <2>1, Weights, Bounds DEF Held, CbHeld, SrDone, refVars, cbVars, argVars, workVars
  <2>3. RefsMatch' /\ CbRefsMatch' /\ attached' \in 0..255 /\ cbRefs' \in 0..255
    BY <1>8, <2>1, <2>2, Bounds DEF RefsMatch, CbRefsMatch, SrDone, refVars, cbVars,
       argVars, workVars
  <2>4. TypeOK'
    BY SMTT(30), <1>8, <2>1, <2>3 DEF TypeOK, States, WithCallback, PendingTask, SrDone,
       refVars, cbVars, argVars, workVars
  <2>5. ProducerView' /\ ConsumerView'
    BY SMTT(30), <1>8, <2>1 DEF TypeOK, States, ProducerView, ConsumerView, CallbackView,
       Fresh, Doing, ProducerPCs, ConsumerPCs, CallbackPCs, WithCallback, SrDone,
       refVars, cbVars, argVars, workVars
  <2>6. CallbackView'
    BY <1>8, <2>1 DEF TypeOK, States, ProducerView, ConsumerView, CallbackView,
       PendingTask, Doing, Resolved, Fresh, ProducerPCs, ConsumerPCs, CallbackPCs,
       WithCallback, SrDone, refVars, cbVars, argVars, workVars
  <2> QED
    BY <2>3, <2>4, <2>5, <2>6
<1> QED
  BY <1>1, <1>2, <1>3, <1>4, <1>5, <1>6, <1>7, <1>8 DEF Producer

\* Every step of the executor keeps it.
LEMMA TaskIInv == IInv /\ Task => IInv'
<1> SUFFICES ASSUME IInv, Task PROVE IInv'
  OBVIOUS
<1> USE FutureCoreAssumption DEF IInv
<1>1. CASE TaskStart
  <2>1. Held' = Held /\ CbHeld' = CbHeld
    BY <1>1, Weights, Bounds DEF Held, CbHeld, TaskStart, refVars, cbVars, argVars, workVars
  <2>2. RefsMatch' /\ CbRefsMatch' /\ attached' \in 0..255 /\ cbRefs' \in 0..255
    BY <1>1, <2>1, Bounds DEF RefsMatch, CbRefsMatch, TaskStart, refVars, cbVars,
       argVars, workVars
  <2>3. TypeOK'
    BY SMTT(30), <1>1, <2>2 DEF TypeOK, States, WithCallback, PendingTask, TaskStart, refVars,
       cbVars, argVars, workVars
  <2>4. ProducerView' /\ ConsumerView'
    BY SMTT(30), <1>1 DEF TypeOK, States, ProducerView, ConsumerView, CallbackView, Fresh,
       Doing, ProducerPCs, ConsumerPCs, CallbackPCs, WithCallback, TaskStart,
       refVars, cbVars, argVars, workVars
  <2>5. CallbackView'
    BY <1>1 DEF TypeOK, States, ProducerView, ConsumerView, CallbackView,
       PendingTask, Doing, Resolved, Fresh, ProducerPCs, ConsumerPCs, CallbackPCs,
       WithCallback, TaskStart, refVars, cbVars, argVars, workVars
  <2> QED
    BY <2>2, <2>3, <2>4, <2>5
<1>2. CASE TaskEnd
  <2>1. Held' = Held /\ CbHeld' = CbHeld
    BY <1>2, Weights, Bounds DEF Held, CbHeld, TaskEnd, refVars, cbVars, argVars, workVars
  <2>2. RefsMatch' /\ CbRefsMatch' /\ attached' \in 0..255 /\ cbRefs' \in 0..255
    BY <1>2, <2>1, Bounds DEF RefsMatch, CbRefsMatch, TaskEnd, refVars, cbVars,
       argVars, workVars
  <2>3. TypeOK'
    BY SMTT(30), <1>2, <2>2 DEF TypeOK, States, WithCallback, PendingTask, TaskEnd, refVars,
       cbVars, argVars, workVars
  <2>4. ProducerView' /\ ConsumerView'
    BY SMTT(30), <1>2 DEF TypeOK, States, ProducerView, ConsumerView, CallbackView, Fresh,
       Doing, ProducerPCs, ConsumerPCs, CallbackPCs, WithCallback, TaskEnd, refVars,
       cbVars, argVars, workVars
  <2>5. CallbackView'
    BY <1>2 DEF TypeOK, States, ProducerView, ConsumerView, CallbackView,
       PendingTask, Doing, Resolved, Fresh, ProducerPCs, ConsumerPCs, CallbackPCs,
       WithCallback, TaskEnd, refVars, cbVars, argVars, workVars
  <2> QED
    BY <2>2, <2>3, <2>4, <2>5
<1>3. CASE TaskDiscard
  <2>1. Held' = Held /\ CbHeld' = CbHeld
    BY <1>3, Weights, Bounds DEF Held, CbHeld, TaskDiscard, refVars, cbVars, argVars, workVars
  <2>2. RefsMatch' /\ CbRefsMatch' /\ attached' \in 0..255 /\ cbRefs' \in 0..255
    BY <1>3, <2>1, Bounds DEF RefsMatch, CbRefsMatch, TaskDiscard, refVars, cbVars,
       argVars, workVars
  <2>3. TypeOK'
    BY SMTT(30), <1>3, <2>2 DEF TypeOK, States, WithCallback, PendingTask, TaskDiscard,
       refVars, cbVars, argVars, workVars
  <2>4. ProducerView' /\ ConsumerView'
    BY SMTT(30), <1>3 DEF TypeOK, States, ProducerView, ConsumerView, CallbackView, Fresh,
       Doing, ProducerPCs, ConsumerPCs, CallbackPCs, WithCallback, TaskDiscard,
       refVars, cbVars, argVars, workVars
  <2>5. CallbackView'
    BY <1>3 DEF TypeOK, States, ProducerView, ConsumerView, CallbackView,
       PendingTask, Doing, Resolved, Fresh, ProducerPCs, ConsumerPCs, CallbackPCs,
       WithCallback, TaskDiscard, refVars, cbVars, argVars, workVars
  <2> QED
    BY <2>2, <2>3, <2>4, <2>5
<1>4. CASE TaskDeref
  <2>1. Held' = Held /\ CbHeld' = CbHeld - 1
    BY <1>4, Weights, Bounds DEF Held, CbHeld, TaskDeref, DerefCallback, refVars,
       cbVars, argVars, workVars
  <2>2. cbRefs \in 1..5
    BY <1>4, Weights, Bounds DEF CbRefsMatch, CbHeld, TaskDeref, DerefCallback
  <2>3. RefsMatch' /\ CbRefsMatch' /\ attached' \in 0..255 /\ cbRefs' \in 0..255
    BY <1>4, <2>1, <2>2, Bounds DEF RefsMatch, CbRefsMatch, TaskDeref, DerefCallback,
       refVars, cbVars, argVars, workVars
  <2>4. TypeOK'
    BY SMTT(30), <1>4, <2>3 DEF TypeOK, States, WithCallback, PendingTask, TaskDeref,
       DerefCallback, refVars, cbVars, argVars, workVars
  <2>5. ProducerView' /\ ConsumerView'
    BY SMTT(30), <1>4 DEF TypeOK, States, ProducerView, ConsumerView, CallbackView, Fresh,
       Doing, ProducerPCs, ConsumerPCs, CallbackPCs, WithCallback, TaskDeref,
       DerefCallback, refVars, cbVars, argVars, workVars
  <2>6. CallbackView'
    BY <1>4 DEF TypeOK, States, ProducerView, ConsumerView, CallbackView,
       PendingTask, Doing, Resolved, Fresh, ProducerPCs, ConsumerPCs, CallbackPCs,
       WithCallback, TaskDeref, DerefCallback, refVars, cbVars, argVars, workVars
  <2> QED
    BY <2>3, <2>4, <2>5, <2>6
<1>5. CASE TaskDetach
  <2>1. Held' = Held - 1 /\ CbHeld' = CbHeld
    BY <1>5, Weights, Bounds DEF Held, CbHeld, TaskDetach, refVars, cbVars, argVars, workVars
  <2>2. attached # 0
    BY <1>5, Bounds DEF PendingTask, TaskDetach
  <2>3. attached' = attached - 1 /\ memory' \in {"live", "freed"} /\ (memory' = "live" <=> attached' # 0)
    BY <1>5, <2>2, DetachOneKeeps DEF TaskDetach
  <2>4. RefsMatch' /\ CbRefsMatch' /\ attached' \in 0..255 /\ cbRefs' \in 0..255
    BY <1>5, <2>3, <2>1, <2>2, Bounds DEF RefsMatch, CbRefsMatch, TaskDetach,
       refVars, cbVars, argVars, workVars
  <2>5. TypeOK'
    BY SMTT(30), <1>5, <2>3, <2>4 DEF TypeOK, States, WithCallback, PendingTask, TaskDetach,
       refVars, cbVars, argVars, workVars
  <2>6. ProducerView' /\ ConsumerView'
    BY SMTT(30), <1>5, <2>3 DEF TypeOK, States, ProducerView, ConsumerView, CallbackView,
       Fresh, Doing, ProducerPCs, ConsumerPCs, CallbackPCs, WithCallback, TaskDetach,
       refVars, cbVars, argVars, workVars
  <2>7. CallbackView'
    BY <1>5, <2>3 DEF TypeOK, States, ProducerView, ConsumerView, CallbackView,
       PendingTask, Doing, Resolved, Fresh, ProducerPCs, ConsumerPCs, CallbackPCs,
       WithCallback, TaskDetach, refVars, cbVars, argVars, workVars
  <2> QED
    BY <2>4, <2>5, <2>6, <2>7
<1> QED
  BY <1>1, <1>2, <1>3, <1>4, <1>5 DEF Task
=============================================================================
