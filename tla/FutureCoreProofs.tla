-------------------------- MODULE FutureCoreProofs ---------------------------
(***************************************************************************)
(* Proofs about FutureCore.tla for any set of executors: the steps of      *)
(* doCallback keep IInv as well (see FutureCoreSteps.tla for the others),  *)
(* so that it holds always, and the safety properties follow from it.      *)
(***************************************************************************)
EXTENDS FutureCoreSteps

\* Every step of doCallback in the producer's thread keeps it.
LEMMA CallbackProducer == IInv /\ Callback("producer") => IInv'
<1> SUFFICES ASSUME IInv, Callback("producer") PROVE IInv'
  OBVIOUS
<1> USE FutureCoreAssumption DEF IInv
<1>1. CASE DoCallback("producer")
  <2>1. pc' \in [Threads -> PCs] /\ pc'["consumer"] = pc["consumer"]
        /\ pc'["producer"] = IF executor = None THEN "runInline" ELSE "add"
    BY <1>1, GotoProducer DEF ProducerView, ConsumerView, PCs, ProducerPCs,
       ConsumerPCs, CallbackPCs, WithCallback, DoCallback
  <2>2. IF executor = None THEN Held' = Held + 1 /\ CbHeld' = CbHeld ELSE Held' = Held + 2 /\ CbHeld' = CbHeld + 2
    BY <1>1, <2>1, Weights, Bounds DEF Held, CbHeld, DoCallback, refVars, cbVars,
       argVars, workVars
  <2>3. attached # 0 /\ callback = "set"
    BY <1>1, Bounds DEF CallbackView, Doing, DoCallback
  <2>4. RefsMatch' /\ CbRefsMatch' /\ attached' \in 0..255 /\ cbRefs' \in 0..255
    BY <1>1, <2>1, <2>2, <2>3, Bounds DEF RefsMatch, CbRefsMatch, DoCallback,
       refVars, cbVars, argVars, workVars
  <2>5. TypeOK'
    BY <1>1, <2>1, <2>4 DEF TypeOK, States, WithCallback, PendingTask, DoCallback,
       refVars, cbVars, argVars, workVars
  <2>6. ProducerView' /\ ConsumerView'
    BY <1>1, <2>1 DEF TypeOK, States, ProducerView, ConsumerView, CallbackView,
       Fresh, Doing, ProducerPCs, ConsumerPCs, CallbackPCs, WithCallback, DoCallback,
       refVars, cbVars, argVars, workVars
  <2>7. CallbackView'
    BY <1>1, <2>1 DEF TypeOK, States, ProducerView, ConsumerView, CallbackView,
       PendingTask, Doing, Resolved, Fresh, ProducerPCs, ConsumerPCs, CallbackPCs,
       WithCallback, DoCallback, refVars, cbVars, argVars, workVars
  <2> QED
    BY <2>4, <2>5, <2>6, <2>7
<1>2. CASE EndInline("producer")
  <2>1. pc' \in [Threads -> PCs] /\ pc'["consumer"] = pc["consumer"]
        /\ pc'["producer"] = "localDetach"
    BY <1>2, GotoProducer DEF ProducerView, ConsumerView, PCs, ProducerPCs,
       ConsumerPCs, CallbackPCs, WithCallback, EndInline
  <2>2. Held' = Held /\ CbHeld' = CbHeld
    BY <1>2, <2>1, Weights, Bounds DEF Held, CbHeld, EndInline, refVars, cbVars,
       argVars, workVars
  <2>3. cbRefs = 0
    BY <1>2, Weights, Bounds, Alone DEF CallbackView, CbRefsMatch, CbHeld, Doing,
       Fresh, CallbackPCs, EndInline
  <2>4. RefsMatch' /\ CbRefsMatch' /\ attached' \in 0..255 /\ cbRefs' \in 0..255
    BY <1>2, <2>1, <2>2, <2>3, Bounds DEF RefsMatch, CbRefsMatch, EndInline, refVars,
       cbVars, argVars, workVars
  <2>5. TypeOK'
    BY <1>2, <2>1, <2>4 DEF TypeOK, States, WithCallback, PendingTask, EndInline,
       refVars, cbVars, argVars, workVars
  <2>6. ProducerView' /\ ConsumerView'
    BY <1>2, <2>1 DEF TypeOK, States, ProducerView, ConsumerView, CallbackView,
       Fresh, Doing, ProducerPCs, ConsumerPCs, CallbackPCs, WithCallback, EndInline,
       refVars, cbVars, argVars, workVars
  <2>7. CallbackView'
    BY <1>2, <2>1 DEF TypeOK, States, ProducerView, ConsumerView, CallbackView,
       PendingTask, Doing, Resolved, Fresh, ProducerPCs, ConsumerPCs, CallbackPCs,
       WithCallback, EndInline, refVars, cbVars, argVars, workVars
  <2> QED
    BY <2>4, <2>5, <2>6, <2>7
<1>3. CASE AddRunsInline("producer")
  <2>1. pc' \in [Threads -> PCs] /\ pc'["consumer"] = pc["consumer"]
        /\ pc'["producer"] = "runLambda"
    BY <1>3, GotoProducer DEF ProducerView, ConsumerView, PCs, ProducerPCs,
       ConsumerPCs, CallbackPCs, WithCallback, AddRunsInline, PermittedKA
  <2>2. Held' = Held /\ CbHeld' = CbHeld
    BY <1>3, <2>1, Weights, Bounds DEF Held, CbHeld, AddRunsInline, PermittedKA,
       refVars, cbVars, argVars, workVars
  <2>3. RefsMatch' /\ CbRefsMatch' /\ attached' \in 0..255 /\ cbRefs' \in 0..255
    BY <1>3, <2>1, <2>2, Bounds DEF RefsMatch, CbRefsMatch, AddRunsInline,
       PermittedKA, refVars, cbVars, argVars, workVars
  <2>4. TypeOK'
    BY <1>3, <2>1, <2>3 DEF TypeOK, States, WithCallback, PendingTask, AddRunsInline,
       PermittedKA, refVars, cbVars, argVars, workVars
  <2>5. ProducerView' /\ ConsumerView'
    BY <1>3, <2>1 DEF TypeOK, States, ProducerView, ConsumerView, CallbackView,
       Fresh, Doing, ProducerPCs, ConsumerPCs, CallbackPCs, WithCallback,
       AddRunsInline, PermittedKA, refVars, cbVars, argVars, workVars
  <2>6. Runner(curExec) \notin InlineExecutors =>
          prior = "OnlyCallbackAllowInline" /\ ka = Runner(curExec)
    <3>1. curExec \in Executors /\ Runner(curExec) # None
      BY <1>3 DEF TypeOK, CallbackView, Doing, AddRunsInline, Runner
    <3> QED
      BY <1>3, <3>1 DEF AddRunsInline, PermittedKA
  <2>7. CallbackView'
    BY <1>3, <2>1, <2>6 DEF TypeOK, States, ProducerView, ConsumerView, CallbackView,
       PendingTask, Doing, Resolved, Fresh, ProducerPCs, ConsumerPCs, CallbackPCs,
       WithCallback, AddRunsInline, PermittedKA, refVars, cbVars, argVars, workVars
  <2> QED
    BY <2>3, <2>4, <2>5, <2>7
<1>4. CASE AddEnqueues("producer")
  <2>1. pc' \in [Threads -> PCs] /\ pc'["consumer"] = pc["consumer"]
        /\ pc'["producer"] = "localDeref"
    BY <1>4, GotoProducer DEF ProducerView, ConsumerView, PCs, ProducerPCs,
       ConsumerPCs, CallbackPCs, WithCallback, AddEnqueues
  <2>2. Held' = Held /\ CbHeld' = CbHeld
    BY <1>4, <2>1, Weights, Bounds DEF Held, CbHeld, CallbackView, Doing, Fresh,
       AddEnqueues, refVars, cbVars, argVars, workVars
  <2>3. RefsMatch' /\ CbRefsMatch' /\ attached' \in 0..255 /\ cbRefs' \in 0..255
    BY <1>4, <2>1, <2>2, Bounds DEF RefsMatch, CbRefsMatch, AddEnqueues, refVars,
       cbVars, argVars, workVars
  <2>4. TypeOK'
    BY <1>4, <2>1, <2>3 DEF TypeOK, States, WithCallback, PendingTask, AddEnqueues,
       refVars, cbVars, argVars, workVars
  <2>5. ProducerView' /\ ConsumerView'
    BY SMTT(30), <1>4, <2>1 DEF TypeOK, States, ProducerView, ConsumerView, CallbackView,
       Fresh, Doing, ProducerPCs, ConsumerPCs, CallbackPCs, WithCallback,
       AddEnqueues, refVars, cbVars, argVars, workVars
  <2>6. CallbackView'
    BY <1>4, <2>1 DEF TypeOK, States, ProducerView, ConsumerView, CallbackView,
       PendingTask, Doing, Resolved, Fresh, ProducerPCs, ConsumerPCs, CallbackPCs,
       WithCallback, AddEnqueues, refVars, cbVars, argVars, workVars
  <2> QED
    BY <2>3, <2>4, <2>5, <2>6
<1>5. CASE AddDestroys("producer", "threw")
  <2>1. pc' \in [Threads -> PCs] /\ pc'["consumer"] = pc["consumer"]
        /\ pc'["producer"] = "lambdaDeref"
    BY <1>5, GotoProducer DEF ProducerView, ConsumerView, PCs, ProducerPCs,
       ConsumerPCs, CallbackPCs, WithCallback, AddDestroys
  <2>2. Held' = Held /\ CbHeld' = CbHeld
    BY <1>5, <2>1, Weights, Bounds DEF Held, CbHeld, AddDestroys, refVars, cbVars,
       argVars, workVars
  <2>3. RefsMatch' /\ CbRefsMatch' /\ attached' \in 0..255 /\ cbRefs' \in 0..255
    BY <1>5, <2>1, <2>2, Bounds DEF RefsMatch, CbRefsMatch, AddDestroys, refVars,
       cbVars, argVars, workVars
  <2>4. TypeOK'
    BY <1>5, <2>1, <2>3 DEF TypeOK, States, WithCallback, PendingTask, AddDestroys,
       refVars, cbVars, argVars, workVars
  <2>5. ProducerView' /\ ConsumerView'
    BY SMTT(30), <1>5, <2>1 DEF TypeOK, States, ProducerView, ConsumerView, CallbackView,
       Fresh, Doing, ProducerPCs, ConsumerPCs, CallbackPCs, WithCallback,
       AddDestroys, refVars, cbVars, argVars, workVars
  <2>6. CallbackView'
    BY <1>5, <2>1 DEF TypeOK, States, ProducerView, ConsumerView, CallbackView,
       PendingTask, Doing, Resolved, Fresh, ProducerPCs, ConsumerPCs, CallbackPCs,
       WithCallback, AddDestroys, refVars, cbVars, argVars, workVars
  <2> QED
    BY <2>3, <2>4, <2>5, <2>6
<1>6. CASE AddDestroys("producer", "ok")
  <2>1. pc' \in [Threads -> PCs] /\ pc'["consumer"] = pc["consumer"]
        /\ pc'["producer"] = "lambdaDeref"
    BY <1>6, GotoProducer DEF ProducerView, ConsumerView, PCs, ProducerPCs,
       ConsumerPCs, CallbackPCs, WithCallback, AddDestroys
  <2>2. Held' = Held /\ CbHeld' = CbHeld
    BY <1>6, <2>1, Weights, Bounds DEF Held, CbHeld, AddDestroys, refVars, cbVars,
       argVars, workVars
  <2>3. RefsMatch' /\ CbRefsMatch' /\ attached' \in 0..255 /\ cbRefs' \in 0..255
    BY <1>6, <2>1, <2>2, Bounds DEF RefsMatch, CbRefsMatch, AddDestroys, refVars,
       cbVars, argVars, workVars
  <2>4. TypeOK'
    BY SMTT(30), <1>6, <2>1, <2>3 DEF TypeOK, States, WithCallback, PendingTask, AddDestroys,
       refVars, cbVars, argVars, workVars
  <2>5. ProducerView' /\ ConsumerView'
    BY SMTT(30), <1>6, <2>1 DEF TypeOK, States, ProducerView, ConsumerView, CallbackView,
       Fresh, Doing, ProducerPCs, ConsumerPCs, CallbackPCs, WithCallback,
       AddDestroys, refVars, cbVars, argVars, workVars
  <2>6. CallbackView'
    BY <1>6, <2>1 DEF TypeOK, States, ProducerView, ConsumerView, CallbackView,
       PendingTask, Doing, Resolved, Fresh, ProducerPCs, ConsumerPCs, CallbackPCs,
       WithCallback, AddDestroys, refVars, cbVars, argVars, workVars
  <2> QED
    BY <2>3, <2>4, <2>5, <2>6
<1>7. CASE EndLambda("producer")
  <2>1. pc' \in [Threads -> PCs] /\ pc'["consumer"] = pc["consumer"]
        /\ pc'["producer"] = "lambdaDeref"
    BY <1>7, GotoProducer DEF ProducerView, ConsumerView, PCs, ProducerPCs,
       ConsumerPCs, CallbackPCs, WithCallback, EndLambda
  <2>2. Held' = Held /\ CbHeld' = CbHeld
    BY <1>7, <2>1, Weights, Bounds DEF Held, CbHeld, EndLambda, refVars, cbVars,
       argVars, workVars
  <2>3. RefsMatch' /\ CbRefsMatch' /\ attached' \in 0..255 /\ cbRefs' \in 0..255
    BY <1>7, <2>1, <2>2, Bounds DEF RefsMatch, CbRefsMatch, EndLambda, refVars,
       cbVars, argVars, workVars
  <2>4. TypeOK'
    BY SMTT(30), <1>7, <2>1, <2>3 DEF TypeOK, States, WithCallback, PendingTask, EndLambda,
       refVars, cbVars, argVars, workVars
  <2>5. ProducerView' /\ ConsumerView'
    BY SMTT(30), <1>7, <2>1 DEF TypeOK, States, ProducerView, ConsumerView, CallbackView,
       Fresh, Doing, ProducerPCs, ConsumerPCs, CallbackPCs, WithCallback, EndLambda,
       refVars, cbVars, argVars, workVars
  <2>6. CallbackView'
    BY <1>7, <2>1 DEF TypeOK, States, ProducerView, ConsumerView, CallbackView,
       PendingTask, Doing, Resolved, Fresh, ProducerPCs, ConsumerPCs, CallbackPCs,
       WithCallback, EndLambda, refVars, cbVars, argVars, workVars
  <2> QED
    BY <2>3, <2>4, <2>5, <2>6
<1>8. CASE LambdaDeref("producer")
  <2>1. pc' \in [Threads -> PCs] /\ pc'["consumer"] = pc["consumer"]
        /\ pc'["producer"] = "lambdaDetach"
    BY <1>8, GotoProducer DEF ProducerView, ConsumerView, PCs, ProducerPCs,
       ConsumerPCs, CallbackPCs, WithCallback, LambdaDeref, DerefCallback
  <2>2. Held' = Held /\ CbHeld' = CbHeld - 1
    BY <1>8, <2>1, Weights, Bounds DEF Held, CbHeld, LambdaDeref, DerefCallback,
       refVars, cbVars, argVars, workVars
  <2>3. cbRefs \in 2..5
    BY <1>8, Weights, Bounds DEF CbRefsMatch, CbHeld, LambdaDeref, DerefCallback
  <2>4. RefsMatch' /\ CbRefsMatch' /\ attached' \in 0..255 /\ cbRefs' \in 0..255
    BY <1>8, <2>1, <2>2, <2>3, Bounds DEF RefsMatch, CbRefsMatch, LambdaDeref,
       DerefCallback, refVars, cbVars, argVars, workVars
  <2>5. TypeOK'
    BY SMTT(30), <1>8, <2>1, <2>4 DEF TypeOK, States, WithCallback, PendingTask, LambdaDeref,
       DerefCallback, refVars, cbVars, argVars, workVars
  <2>6. ProducerView' /\ ConsumerView'
    BY SMTT(30), <1>8, <2>1 DEF TypeOK, States, ProducerView, ConsumerView, CallbackView,
       Fresh, Doing, ProducerPCs, ConsumerPCs, CallbackPCs, WithCallback,
       LambdaDeref, DerefCallback, refVars, cbVars, argVars, workVars
  <2>7. CallbackView'
    BY SMTT(30), <1>8, <2>1, <2>3 DEF TypeOK, States, ProducerView, ConsumerView, CallbackView,
       PendingTask, Doing, Resolved, Fresh, ProducerPCs, ConsumerPCs, CallbackPCs,
       WithCallback, LambdaDeref, DerefCallback, refVars, cbVars, argVars, workVars
  <2> QED
    BY <2>4, <2>5, <2>6, <2>7
<1>9. CASE LambdaDetach("producer")
  <2>1. pc' \in [Threads -> PCs] /\ pc'["consumer"] = pc["consumer"]
        /\ pc'["producer"] = IF added = "threw" THEN "runError" ELSE "localDeref"
    BY <1>9, GotoProducer DEF ProducerView, ConsumerView, PCs, ProducerPCs,
       ConsumerPCs, CallbackPCs, WithCallback, LambdaDetach
  <2>2. Held' = Held - 1 /\ CbHeld' = CbHeld
    BY <1>9, <2>1, Weights, Bounds DEF Held, CbHeld, LambdaDetach, refVars, cbVars,
       argVars, workVars
  <2>3. attached # 0
    BY <1>9, Bounds DEF PendingTask, LambdaDetach
  <2>4. attached' = attached - 1 /\ memory' \in {"live", "freed"} /\ (memory' = "live" <=> attached' # 0)
    BY <1>9, <2>3, DetachOneKeeps DEF LambdaDetach
  <2>5. RefsMatch' /\ CbRefsMatch' /\ attached' \in 0..255 /\ cbRefs' \in 0..255
    BY <1>9, <2>1, <2>4, <2>2, <2>3, Bounds DEF RefsMatch, CbRefsMatch, LambdaDetach,
       refVars, cbVars, argVars, workVars
  <2>6. TypeOK'
    BY SMTT(30), <1>9, <2>1, <2>4, <2>5 DEF TypeOK, States, WithCallback, PendingTask,
       LambdaDetach, refVars, cbVars, argVars, workVars
  <2>7. ProducerView' /\ ConsumerView'
    BY SMTT(30), <1>9, <2>1, <2>4 DEF TypeOK, States, ProducerView, ConsumerView, CallbackView,
       Fresh, Doing, ProducerPCs, ConsumerPCs, CallbackPCs, WithCallback,
       LambdaDetach, refVars, cbVars, argVars, workVars
  <2>8. CallbackView'
    BY SMTT(30), <1>9, <2>1, <2>4 DEF TypeOK, States, ProducerView, ConsumerView, CallbackView,
       PendingTask, Doing, Resolved, Fresh, ProducerPCs, ConsumerPCs, CallbackPCs,
       WithCallback, LambdaDetach, refVars, cbVars, argVars, workVars
  <2> QED
    BY <2>5, <2>6, <2>7, <2>8
<1>10. CASE EndError("producer")
  <2>1. pc' \in [Threads -> PCs] /\ pc'["consumer"] = pc["consumer"]
        /\ pc'["producer"] = "localDeref"
    BY <1>10, GotoProducer DEF ProducerView, ConsumerView, PCs, ProducerPCs,
       ConsumerPCs, CallbackPCs, WithCallback, EndError
  <2>2. Held' = Held /\ CbHeld' = CbHeld
    BY <1>10, <2>1, Weights, Bounds DEF Held, CbHeld, EndError, refVars, cbVars,
       argVars, workVars
  <2>3. RefsMatch' /\ CbRefsMatch' /\ attached' \in 0..255 /\ cbRefs' \in 0..255
    BY SMTT(30), <1>10, <2>1, <2>2, Bounds DEF RefsMatch, CbRefsMatch, EndError, refVars,
       cbVars, argVars, workVars
  <2>4. TypeOK'
    BY SMTT(30), <1>10, <2>1, <2>3 DEF TypeOK, States, WithCallback, PendingTask, EndError,
       refVars, cbVars, argVars, workVars
  <2>5. ProducerView' /\ ConsumerView'
    BY SMTT(30), <1>10, <2>1 DEF TypeOK, States, ProducerView, ConsumerView, CallbackView,
       Fresh, Doing, ProducerPCs, ConsumerPCs, CallbackPCs, WithCallback, EndError,
       refVars, cbVars, argVars, workVars
  <2>6. CallbackView'
    BY <1>10, <2>1 DEF TypeOK, States, ProducerView, ConsumerView, CallbackView,
       PendingTask, Doing, Resolved, Fresh, ProducerPCs, ConsumerPCs, CallbackPCs,
       WithCallback, EndError, refVars, cbVars, argVars, workVars
  <2> QED
    BY <2>3, <2>4, <2>5, <2>6
<1>11. CASE LocalDeref("producer")
  <2>1. pc' \in [Threads -> PCs] /\ pc'["consumer"] = pc["consumer"]
        /\ pc'["producer"] = "localDetach"
    BY <1>11, GotoProducer DEF ProducerView, ConsumerView, PCs, ProducerPCs,
       ConsumerPCs, CallbackPCs, WithCallback, LocalDeref, DerefCallback
  <2>2. Held' = Held /\ CbHeld' = CbHeld - 1
    BY <1>11, <2>1, Weights, Bounds DEF Held, CbHeld, LocalDeref, DerefCallback,
       refVars, cbVars, argVars, workVars
  <2>3. cbRefs = 1 + TaskCbRefs(task)
    BY SMTT(30), <1>11, Weights, Bounds, Alone DEF CbRefsMatch, CbHeld, CallbackPCs,
       LocalDeref, DerefCallback
  <2>4. cbRefs \in 1..5 /\ (cbRefs = 1 => task \in {"none", "detach", "done"})
    BY <2>3, Weights, Bounds DEF TypeOK, PendingTask
  <2>5. RefsMatch' /\ CbRefsMatch' /\ attached' \in 0..255 /\ cbRefs' \in 0..255
    BY <1>11, <2>1, <2>2, <2>4, Bounds DEF RefsMatch, CbRefsMatch, LocalDeref,
       DerefCallback, refVars, cbVars, argVars, workVars
  <2>6. TypeOK'
    BY <1>11, <2>1, <2>5 DEF TypeOK, States, WithCallback, PendingTask, LocalDeref,
       DerefCallback, refVars, cbVars, argVars, workVars
  <2>7. ProducerView' /\ ConsumerView'
    BY SMTT(30), <1>11, <2>1 DEF TypeOK, States, ProducerView, ConsumerView, CallbackView,
       Fresh, Doing, ProducerPCs, ConsumerPCs, CallbackPCs, WithCallback, LocalDeref,
       DerefCallback, refVars, cbVars, argVars, workVars
  <2>8. CallbackView'
    BY SMTT(30), <1>11, <2>1, <2>4 DEF TypeOK, States, ProducerView, ConsumerView,
       CallbackView, PendingTask, Doing, Resolved, Fresh, ProducerPCs, ConsumerPCs,
       CallbackPCs, WithCallback, LocalDeref, DerefCallback, refVars, cbVars,
       argVars, workVars
  <2> QED
    BY <2>5, <2>6, <2>7, <2>8
<1>12. CASE LocalDetach("producer")
  <2>1. pc' \in [Threads -> PCs] /\ pc'["consumer"] = pc["consumer"]
        /\ pc'["producer"] = "fulfilled"
    BY <1>12, GotoProducer DEF ProducerView, ConsumerView, PCs, ProducerPCs,
       ConsumerPCs, CallbackPCs, WithCallback, LocalDetach, Return
  <2>2. Held' = Held - 1 /\ CbHeld' = CbHeld
    BY <1>12, <2>1, Weights, Bounds DEF Held, CbHeld, LocalDetach, Return, refVars,
       cbVars, argVars, workVars
  <2>3. attached # 0
    BY <1>12, Bounds DEF PendingTask, LocalDetach, Return
  <2>4. attached' = attached - 1 /\ memory' \in {"live", "freed"} /\ (memory' = "live" <=> attached' # 0)
    BY <1>12, <2>3, DetachOneKeeps DEF LocalDetach, Return
  <2>5. RefsMatch' /\ CbRefsMatch' /\ attached' \in 0..255 /\ cbRefs' \in 0..255
    BY <1>12, <2>1, <2>4, <2>2, <2>3, Bounds DEF RefsMatch, CbRefsMatch, LocalDetach,
       Return, refVars, cbVars, argVars, workVars
  <2>6. TypeOK'
    BY SMTT(30), <1>12, <2>1, <2>4, <2>5 DEF TypeOK, States, WithCallback, PendingTask,
       LocalDetach, Return, refVars, cbVars, argVars, workVars
  <2>7. ProducerView' /\ ConsumerView'
    BY SMTT(30), <1>12, <2>1, <2>4 DEF TypeOK, States, ProducerView, ConsumerView,
       CallbackView, Fresh, Doing, ProducerPCs, ConsumerPCs, CallbackPCs,
       WithCallback, LocalDetach, Return, refVars, cbVars, argVars, workVars
  <2>8. CallbackView'
    BY SMTT(30), <1>12, <2>1, <2>4 DEF TypeOK, States, ProducerView, ConsumerView,
       CallbackView, PendingTask, Doing, Resolved, Fresh, ProducerPCs, ConsumerPCs,
       CallbackPCs, WithCallback, LocalDetach, Return, refVars, cbVars, argVars,
       workVars
  <2> QED
    BY <2>5, <2>6, <2>7, <2>8
<1> QED
  BY <1>1, <1>2, <1>3, <1>4, <1>5, <1>6, <1>7, <1>8, <1>9, <1>10, <1>11, <1>12 DEF Callback

\* Every step of doCallback in the consumer's thread keeps it.
LEMMA CallbackConsumer == IInv /\ Callback("consumer") => IInv'
<1> SUFFICES ASSUME IInv, Callback("consumer") PROVE IInv'
  OBVIOUS
<1> USE FutureCoreAssumption DEF IInv
<1>1. CASE DoCallback("consumer")
  <2>1. pc' \in [Threads -> PCs] /\ pc'["producer"] = pc["producer"]
        /\ pc'["consumer"] = IF executor = None THEN "runInline" ELSE "add"
    BY <1>1, GotoConsumer DEF ProducerView, ConsumerView, PCs, ProducerPCs,
       ConsumerPCs, CallbackPCs, WithCallback, DoCallback
  <2>2. IF executor = None THEN Held' = Held + 1 /\ CbHeld' = CbHeld ELSE Held' = Held + 2 /\ CbHeld' = CbHeld + 2
    BY <1>1, <2>1, Weights, Bounds DEF Held, CbHeld, DoCallback, refVars, cbVars,
       argVars, workVars
  <2>3. attached # 0 /\ callback = "set"
    BY <1>1, Bounds DEF CallbackView, Doing, DoCallback
  <2>4. RefsMatch' /\ CbRefsMatch' /\ attached' \in 0..255 /\ cbRefs' \in 0..255
    BY <1>1, <2>1, <2>2, <2>3, Bounds DEF RefsMatch, CbRefsMatch, DoCallback,
       refVars, cbVars, argVars, workVars
  <2>5. TypeOK'
    BY SMTT(30), <1>1, <2>1, <2>4 DEF TypeOK, States, WithCallback, PendingTask, DoCallback,
       refVars, cbVars, argVars, workVars
  <2>6. ProducerView' /\ ConsumerView'
    BY SMTT(30), <1>1, <2>1 DEF TypeOK, States, ProducerView, ConsumerView, CallbackView,
       Fresh, Doing, ProducerPCs, ConsumerPCs, CallbackPCs, WithCallback, DoCallback,
       refVars, cbVars, argVars, workVars
  <2>7. CallbackView'
    BY SMTT(30), <1>1, <2>1 DEF TypeOK, States, ProducerView, ConsumerView, CallbackView,
       PendingTask, Doing, Resolved, Fresh, ProducerPCs, ConsumerPCs, CallbackPCs,
       WithCallback, DoCallback, refVars, cbVars, argVars, workVars
  <2> QED
    BY <2>4, <2>5, <2>6, <2>7
<1>2. CASE EndInline("consumer")
  <2>1. pc' \in [Threads -> PCs] /\ pc'["producer"] = pc["producer"]
        /\ pc'["consumer"] = "localDetach"
    BY <1>2, GotoConsumer DEF ProducerView, ConsumerView, PCs, ProducerPCs,
       ConsumerPCs, CallbackPCs, WithCallback, EndInline
  <2>2. Held' = Held /\ CbHeld' = CbHeld
    BY SMTT(30), <1>2, <2>1, Weights, Bounds DEF Held, CbHeld, EndInline, refVars, cbVars,
       argVars, workVars
  <2>3. cbRefs = 0
    BY <1>2, Weights, Bounds, Alone DEF CallbackView, CbRefsMatch, CbHeld, Doing,
       Fresh, CallbackPCs, EndInline
  <2>4. RefsMatch' /\ CbRefsMatch' /\ attached' \in 0..255 /\ cbRefs' \in 0..255
    BY <1>2, <2>1, <2>2, <2>3, Bounds DEF RefsMatch, CbRefsMatch, EndInline, refVars,
       cbVars, argVars, workVars
  <2>5. TypeOK'
    BY SMTT(30), <1>2, <2>1, <2>4 DEF TypeOK, States, WithCallback, PendingTask, EndInline,
       refVars, cbVars, argVars, workVars
  <2>6. ProducerView' /\ ConsumerView'
    BY SMTT(30), <1>2, <2>1 DEF TypeOK, States, ProducerView, ConsumerView, CallbackView,
       Fresh, Doing, ProducerPCs, ConsumerPCs, CallbackPCs, WithCallback, EndInline,
       refVars, cbVars, argVars, workVars
  <2>7. CallbackView'
    BY <1>2, <2>1 DEF TypeOK, States, ProducerView, ConsumerView, CallbackView,
       PendingTask, Doing, Resolved, Fresh, ProducerPCs, ConsumerPCs, CallbackPCs,
       WithCallback, EndInline, refVars, cbVars, argVars, workVars
  <2> QED
    BY <2>4, <2>5, <2>6, <2>7
<1>3. CASE AddRunsInline("consumer")
  <2>1. pc' \in [Threads -> PCs] /\ pc'["producer"] = pc["producer"]
        /\ pc'["consumer"] = "runLambda"
    BY <1>3, GotoConsumer DEF ProducerView, ConsumerView, PCs, ProducerPCs,
       ConsumerPCs, CallbackPCs, WithCallback, AddRunsInline, PermittedKA
  <2>2. Held' = Held /\ CbHeld' = CbHeld
    BY <1>3, <2>1, Weights, Bounds DEF Held, CbHeld, AddRunsInline, PermittedKA,
       refVars, cbVars, argVars, workVars
  <2>3. RefsMatch' /\ CbRefsMatch' /\ attached' \in 0..255 /\ cbRefs' \in 0..255
    BY <1>3, <2>1, <2>2, Bounds DEF RefsMatch, CbRefsMatch, AddRunsInline,
       PermittedKA, refVars, cbVars, argVars, workVars
  <2>4. TypeOK'
    BY <1>3, <2>1, <2>3 DEF TypeOK, States, WithCallback, PendingTask, AddRunsInline,
       PermittedKA, refVars, cbVars, argVars, workVars
  <2>5. ProducerView' /\ ConsumerView'
    BY SMTT(30), <1>3, <2>1 DEF TypeOK, States, ProducerView, ConsumerView, CallbackView,
       Fresh, Doing, ProducerPCs, ConsumerPCs, CallbackPCs, WithCallback,
       AddRunsInline, PermittedKA, refVars, cbVars, argVars, workVars
  <2>6. Runner(curExec) \notin InlineExecutors =>
          prior = "OnlyCallbackAllowInline" /\ ka = Runner(curExec)
    <3>1. curExec \in Executors /\ Runner(curExec) # None
      BY <1>3 DEF TypeOK, CallbackView, Doing, AddRunsInline, Runner
    <3> QED
      BY <1>3, <3>1 DEF AddRunsInline, PermittedKA
  <2>7. CallbackView'
    BY <1>3, <2>1, <2>6 DEF TypeOK, States, ProducerView, ConsumerView, CallbackView,
       PendingTask, Doing, Resolved, Fresh, ProducerPCs, ConsumerPCs, CallbackPCs,
       WithCallback, AddRunsInline, PermittedKA, refVars, cbVars, argVars, workVars
  <2> QED
    BY <2>3, <2>4, <2>5, <2>7
<1>4. CASE AddEnqueues("consumer")
  <2>1. pc' \in [Threads -> PCs] /\ pc'["producer"] = pc["producer"]
        /\ pc'["consumer"] = "localDeref"
    BY <1>4, GotoConsumer DEF ProducerView, ConsumerView, PCs, ProducerPCs,
       ConsumerPCs, CallbackPCs, WithCallback, AddEnqueues
  <2>2. Held' = Held /\ CbHeld' = CbHeld
    BY <1>4, <2>1, Weights, Bounds DEF Held, CbHeld, CallbackView, Doing, Fresh,
       AddEnqueues, refVars, cbVars, argVars, workVars
  <2>3. RefsMatch' /\ CbRefsMatch' /\ attached' \in 0..255 /\ cbRefs' \in 0..255
    BY <1>4, <2>1, <2>2, Bounds DEF RefsMatch, CbRefsMatch, AddEnqueues, refVars,
       cbVars, argVars, workVars
  <2>4. TypeOK'
    BY SMTT(30), <1>4, <2>1, <2>3 DEF TypeOK, States, WithCallback, PendingTask, AddEnqueues,
       refVars, cbVars, argVars, workVars
  <2>5. ProducerView' /\ ConsumerView'
    BY SMTT(30), <1>4, <2>1 DEF TypeOK, States, ProducerView, ConsumerView, CallbackView,
       Fresh, Doing, ProducerPCs, ConsumerPCs, CallbackPCs, WithCallback,
       AddEnqueues, refVars, cbVars, argVars, workVars
  <2>6. CallbackView'
    BY SMTT(30), <1>4, <2>1 DEF TypeOK, States, ProducerView, ConsumerView, CallbackView,
       PendingTask, Doing, Resolved, Fresh, ProducerPCs, ConsumerPCs, CallbackPCs,
       WithCallback, AddEnqueues, refVars, cbVars, argVars, workVars
  <2> QED
    BY <2>3, <2>4, <2>5, <2>6
<1>5. CASE AddDestroys("consumer", "threw")
  <2>1. pc' \in [Threads -> PCs] /\ pc'["producer"] = pc["producer"]
        /\ pc'["consumer"] = "lambdaDeref"
    BY <1>5, GotoConsumer DEF ProducerView, ConsumerView, PCs, ProducerPCs,
       ConsumerPCs, CallbackPCs, WithCallback, AddDestroys
  <2>2. Held' = Held /\ CbHeld' = CbHeld
    BY <1>5, <2>1, Weights, Bounds DEF Held, CbHeld, AddDestroys, refVars, cbVars,
       argVars, workVars
  <2>3. RefsMatch' /\ CbRefsMatch' /\ attached' \in 0..255 /\ cbRefs' \in 0..255
    BY <1>5, <2>1, <2>2, Bounds DEF RefsMatch, CbRefsMatch, AddDestroys, refVars,
       cbVars, argVars, workVars
  <2>4. TypeOK'
    BY SMTT(30), <1>5, <2>1, <2>3 DEF TypeOK, States, WithCallback, PendingTask, AddDestroys,
       refVars, cbVars, argVars, workVars
  <2>5. ProducerView' /\ ConsumerView'
    BY SMTT(30), <1>5, <2>1 DEF TypeOK, States, ProducerView, ConsumerView, CallbackView,
       Fresh, Doing, ProducerPCs, ConsumerPCs, CallbackPCs, WithCallback,
       AddDestroys, refVars, cbVars, argVars, workVars
  <2>6. CallbackView'
    BY SMTT(30), <1>5, <2>1 DEF TypeOK, States, ProducerView, ConsumerView, CallbackView,
       PendingTask, Doing, Resolved, Fresh, ProducerPCs, ConsumerPCs, CallbackPCs,
       WithCallback, AddDestroys, refVars, cbVars, argVars, workVars
  <2> QED
    BY <2>3, <2>4, <2>5, <2>6
<1>6. CASE AddDestroys("consumer", "ok")
  <2>1. pc' \in [Threads -> PCs] /\ pc'["producer"] = pc["producer"]
        /\ pc'["consumer"] = "lambdaDeref"
    BY <1>6, GotoConsumer DEF ProducerView, ConsumerView, PCs, ProducerPCs,
       ConsumerPCs, CallbackPCs, WithCallback, AddDestroys
  <2>2. Held' = Held /\ CbHeld' = CbHeld
    BY <1>6, <2>1, Weights, Bounds DEF Held, CbHeld, AddDestroys, refVars, cbVars,
       argVars, workVars
  <2>3. RefsMatch' /\ CbRefsMatch' /\ attached' \in 0..255 /\ cbRefs' \in 0..255
    BY <1>6, <2>1, <2>2, Bounds DEF RefsMatch, CbRefsMatch, AddDestroys, refVars,
       cbVars, argVars, workVars
  <2>4. TypeOK'
    BY SMTT(30), <1>6, <2>1, <2>3 DEF TypeOK, States, WithCallback, PendingTask, AddDestroys,
       refVars, cbVars, argVars, workVars
  <2>5. ProducerView' /\ ConsumerView'
    BY SMTT(30), <1>6, <2>1 DEF TypeOK, States, ProducerView, ConsumerView, CallbackView,
       Fresh, Doing, ProducerPCs, ConsumerPCs, CallbackPCs, WithCallback,
       AddDestroys, refVars, cbVars, argVars, workVars
  <2>6. CallbackView'
    BY SMTT(30), <1>6, <2>1 DEF TypeOK, States, ProducerView, ConsumerView, CallbackView,
       PendingTask, Doing, Resolved, Fresh, ProducerPCs, ConsumerPCs, CallbackPCs,
       WithCallback, AddDestroys, refVars, cbVars, argVars, workVars
  <2> QED
    BY <2>3, <2>4, <2>5, <2>6
<1>7. CASE EndLambda("consumer")
  <2>1. pc' \in [Threads -> PCs] /\ pc'["producer"] = pc["producer"]
        /\ pc'["consumer"] = "lambdaDeref"
    BY <1>7, GotoConsumer DEF ProducerView, ConsumerView, PCs, ProducerPCs,
       ConsumerPCs, CallbackPCs, WithCallback, EndLambda
  <2>2. Held' = Held /\ CbHeld' = CbHeld
    BY <1>7, <2>1, Weights, Bounds DEF Held, CbHeld, EndLambda, refVars, cbVars,
       argVars, workVars
  <2>3. RefsMatch' /\ CbRefsMatch' /\ attached' \in 0..255 /\ cbRefs' \in 0..255
    BY <1>7, <2>1, <2>2, Bounds DEF RefsMatch, CbRefsMatch, EndLambda, refVars,
       cbVars, argVars, workVars
  <2>4. TypeOK'
    BY SMTT(30), <1>7, <2>1, <2>3 DEF TypeOK, States, WithCallback, PendingTask, EndLambda,
       refVars, cbVars, argVars, workVars
  <2>5. ProducerView' /\ ConsumerView'
    BY SMTT(30), <1>7, <2>1 DEF TypeOK, States, ProducerView, ConsumerView, CallbackView,
       Fresh, Doing, ProducerPCs, ConsumerPCs, CallbackPCs, WithCallback, EndLambda,
       refVars, cbVars, argVars, workVars
  <2>6. CallbackView'
    BY SMTT(30), <1>7, <2>1 DEF TypeOK, States, ProducerView, ConsumerView, CallbackView,
       PendingTask, Doing, Resolved, Fresh, ProducerPCs, ConsumerPCs, CallbackPCs,
       WithCallback, EndLambda, refVars, cbVars, argVars, workVars
  <2> QED
    BY <2>3, <2>4, <2>5, <2>6
<1>8. CASE LambdaDeref("consumer")
  <2>1. pc' \in [Threads -> PCs] /\ pc'["producer"] = pc["producer"]
        /\ pc'["consumer"] = "lambdaDetach"
    BY <1>8, GotoConsumer DEF ProducerView, ConsumerView, PCs, ProducerPCs,
       ConsumerPCs, CallbackPCs, WithCallback, LambdaDeref, DerefCallback
  <2>2. Held' = Held /\ CbHeld' = CbHeld - 1
    BY <1>8, <2>1, Weights, Bounds DEF Held, CbHeld, LambdaDeref, DerefCallback,
       refVars, cbVars, argVars, workVars
  <2>3. cbRefs \in 2..5
    BY <1>8, Weights, Bounds DEF CbRefsMatch, CbHeld, LambdaDeref, DerefCallback
  <2>4. RefsMatch' /\ CbRefsMatch' /\ attached' \in 0..255 /\ cbRefs' \in 0..255
    BY SMTT(30), <1>8, <2>1, <2>2, <2>3, Bounds DEF RefsMatch, CbRefsMatch, LambdaDeref,
       DerefCallback, refVars, cbVars, argVars, workVars
  <2>5. TypeOK'
    BY SMTT(30), <1>8, <2>1, <2>4 DEF TypeOK, States, WithCallback, PendingTask, LambdaDeref,
       DerefCallback, refVars, cbVars, argVars, workVars
  <2>6. ProducerView' /\ ConsumerView'
    BY SMTT(30), <1>8, <2>1 DEF TypeOK, States, ProducerView, ConsumerView, CallbackView,
       Fresh, Doing, ProducerPCs, ConsumerPCs, CallbackPCs, WithCallback,
       LambdaDeref, DerefCallback, refVars, cbVars, argVars, workVars
  <2>7. CallbackView'
    BY SMTT(30), <1>8, <2>1, <2>3 DEF TypeOK, States, ProducerView, ConsumerView, CallbackView,
       PendingTask, Doing, Resolved, Fresh, ProducerPCs, ConsumerPCs, CallbackPCs,
       WithCallback, LambdaDeref, DerefCallback, refVars, cbVars, argVars, workVars
  <2> QED
    BY <2>4, <2>5, <2>6, <2>7
<1>9. CASE LambdaDetach("consumer")
  <2>1. pc' \in [Threads -> PCs] /\ pc'["producer"] = pc["producer"]
        /\ pc'["consumer"] = IF added = "threw" THEN "runError" ELSE "localDeref"
    BY <1>9, GotoConsumer DEF ProducerView, ConsumerView, PCs, ProducerPCs,
       ConsumerPCs, CallbackPCs, WithCallback, LambdaDetach
  <2>2. Held' = Held - 1 /\ CbHeld' = CbHeld
    BY <1>9, <2>1, Weights, Bounds DEF Held, CbHeld, LambdaDetach, refVars, cbVars,
       argVars, workVars
  <2>3. attached # 0
    BY <1>9, Bounds DEF PendingTask, LambdaDetach
  <2>4. attached' = attached - 1 /\ memory' \in {"live", "freed"} /\ (memory' = "live" <=> attached' # 0)
    BY <1>9, <2>3, DetachOneKeeps DEF LambdaDetach
  <2>5. RefsMatch' /\ CbRefsMatch' /\ attached' \in 0..255 /\ cbRefs' \in 0..255
    BY <1>9, <2>1, <2>4, <2>2, <2>3, Bounds DEF RefsMatch, CbRefsMatch, LambdaDetach,
       refVars, cbVars, argVars, workVars
  <2>6. TypeOK'
    BY SMTT(30), <1>9, <2>1, <2>4, <2>5 DEF TypeOK, States, WithCallback, PendingTask,
       LambdaDetach, refVars, cbVars, argVars, workVars
  <2>7. ProducerView' /\ ConsumerView'
    BY SMTT(30), <1>9, <2>1, <2>4 DEF TypeOK, States, ProducerView, ConsumerView, CallbackView,
       Fresh, Doing, ProducerPCs, ConsumerPCs, CallbackPCs, WithCallback,
       LambdaDetach, refVars, cbVars, argVars, workVars
  <2>8. CallbackView'
    BY SMTT(30), <1>9, <2>1, <2>4 DEF TypeOK, States, ProducerView, ConsumerView, CallbackView,
       PendingTask, Doing, Resolved, Fresh, ProducerPCs, ConsumerPCs, CallbackPCs,
       WithCallback, LambdaDetach, refVars, cbVars, argVars, workVars
  <2> QED
    BY <2>5, <2>6, <2>7, <2>8
<1>10. CASE EndError("consumer")
  <2>1. pc' \in [Threads -> PCs] /\ pc'["producer"] = pc["producer"]
        /\ pc'["consumer"] = "localDeref"
    BY <1>10, GotoConsumer DEF ProducerView, ConsumerView, PCs, ProducerPCs,
       ConsumerPCs, CallbackPCs, WithCallback, EndError
  <2>2. Held' = Held /\ CbHeld' = CbHeld
    BY <1>10, <2>1, Weights, Bounds DEF Held, CbHeld, EndError, refVars, cbVars,
       argVars, workVars
  <2>3. RefsMatch' /\ CbRefsMatch' /\ attached' \in 0..255 /\ cbRefs' \in 0..255
    BY <1>10, <2>1, <2>2, Bounds DEF RefsMatch, CbRefsMatch, EndError, refVars,
       cbVars, argVars, workVars
  <2>4. TypeOK'
    BY SMTT(30), <1>10, <2>1, <2>3 DEF TypeOK, States, WithCallback, PendingTask, EndError,
       refVars, cbVars, argVars, workVars
  <2>5. ProducerView' /\ ConsumerView'
    BY SMTT(30), <1>10, <2>1 DEF TypeOK, States, ProducerView, ConsumerView, CallbackView,
       Fresh, Doing, ProducerPCs, ConsumerPCs, CallbackPCs, WithCallback, EndError,
       refVars, cbVars, argVars, workVars
  <2>6. CallbackView'
    BY SMTT(30), <1>10, <2>1 DEF TypeOK, States, ProducerView, ConsumerView, CallbackView,
       PendingTask, Doing, Resolved, Fresh, ProducerPCs, ConsumerPCs, CallbackPCs,
       WithCallback, EndError, refVars, cbVars, argVars, workVars
  <2> QED
    BY <2>3, <2>4, <2>5, <2>6
<1>11. CASE LocalDeref("consumer")
  <2>1. pc' \in [Threads -> PCs] /\ pc'["producer"] = pc["producer"]
        /\ pc'["consumer"] = "localDetach"
    BY <1>11, GotoConsumer DEF ProducerView, ConsumerView, PCs, ProducerPCs,
       ConsumerPCs, CallbackPCs, WithCallback, LocalDeref, DerefCallback
  <2>2. Held' = Held /\ CbHeld' = CbHeld - 1
    BY <1>11, <2>1, Weights, Bounds DEF Held, CbHeld, LocalDeref, DerefCallback,
       refVars, cbVars, argVars, workVars
  <2>3. cbRefs = 1 + TaskCbRefs(task)
    BY SMTT(30), <1>11, Weights, Bounds, Alone DEF CbRefsMatch, CbHeld, CallbackPCs,
       LocalDeref, DerefCallback
  <2>4. cbRefs \in 1..5 /\ (cbRefs = 1 => task \in {"none", "detach", "done"})
    BY <2>3, Weights, Bounds DEF TypeOK, PendingTask
  <2>5. RefsMatch' /\ CbRefsMatch' /\ attached' \in 0..255 /\ cbRefs' \in 0..255
    BY SMTT(30), <1>11, <2>1, <2>2, <2>4, Bounds DEF RefsMatch, CbRefsMatch, LocalDeref,
       DerefCallback, refVars, cbVars, argVars, workVars
  <2>6. TypeOK'
    BY SMTT(30), <1>11, <2>1, <2>5 DEF TypeOK, States, WithCallback, PendingTask, LocalDeref,
       DerefCallback, refVars, cbVars, argVars, workVars
  <2>7. ProducerView' /\ ConsumerView'
    BY SMTT(30), <1>11, <2>1 DEF TypeOK, States, ProducerView, ConsumerView, CallbackView,
       Fresh, Doing, ProducerPCs, ConsumerPCs, CallbackPCs, WithCallback, LocalDeref,
       DerefCallback, refVars, cbVars, argVars, workVars
  <2>8. CallbackView'
    BY SMTT(30), <1>11, <2>1, <2>4 DEF TypeOK, States, ProducerView, ConsumerView,
       CallbackView, PendingTask, Doing, Resolved, Fresh, ProducerPCs, ConsumerPCs,
       CallbackPCs, WithCallback, LocalDeref, DerefCallback, refVars, cbVars,
       argVars, workVars
  <2> QED
    BY <2>5, <2>6, <2>7, <2>8
<1>12. CASE LocalDetach("consumer")
  <2>1. pc' \in [Threads -> PCs] /\ pc'["producer"] = pc["producer"]
        /\ pc'["consumer"] = "continued"
    BY <1>12, GotoConsumer DEF ProducerView, ConsumerView, PCs, ProducerPCs,
       ConsumerPCs, CallbackPCs, WithCallback, LocalDetach, Return
  <2>2. Held' = Held - 1 /\ CbHeld' = CbHeld
    BY <1>12, <2>1, Weights, Bounds DEF Held, CbHeld, LocalDetach, Return, refVars,
       cbVars, argVars, workVars
  <2>3. attached # 0
    BY <1>12, Bounds DEF PendingTask, LocalDetach, Return
  <2>4. attached' = attached - 1 /\ memory' \in {"live", "freed"} /\ (memory' = "live" <=> attached' # 0)
    BY <1>12, <2>3, DetachOneKeeps DEF LocalDetach, Return
  <2>5. RefsMatch' /\ CbRefsMatch' /\ attached' \in 0..255 /\ cbRefs' \in 0..255
    BY SMTT(30), <1>12, <2>1, <2>4, <2>2, <2>3, Bounds DEF RefsMatch, CbRefsMatch, LocalDetach,
       Return, refVars, cbVars, argVars, workVars
  <2>6. TypeOK'
    BY SMTT(30), <1>12, <2>1, <2>4, <2>5 DEF TypeOK, States, WithCallback, PendingTask,
       LocalDetach, Return, refVars, cbVars, argVars, workVars
  <2>7. ProducerView' /\ ConsumerView'
    BY SMTT(30), <1>12, <2>1, <2>4 DEF TypeOK, States, ProducerView, ConsumerView,
       CallbackView, Fresh, Doing, ProducerPCs, ConsumerPCs, CallbackPCs,
       WithCallback, LocalDetach, Return, refVars, cbVars, argVars, workVars
  <2>8. CallbackView'
    BY SMTT(30), <1>12, <2>1, <2>4 DEF TypeOK, States, ProducerView, ConsumerView,
       CallbackView, PendingTask, Doing, Resolved, Fresh, ProducerPCs, ConsumerPCs,
       CallbackPCs, WithCallback, LocalDetach, Return, refVars, cbVars, argVars,
       workVars
  <2> QED
    BY <2>5, <2>6, <2>7, <2>8
<1> QED
  BY <1>1, <1>2, <1>3, <1>4, <1>5, <1>6, <1>7, <1>8, <1>9, <1>10, <1>11, <1>12 DEF Callback

\* IInv is an invariant of every core.
THEOREM IInvHolds == Spec => []IInv
<1>1. IInv /\ UNCHANGED vars => IInv'
  <2> SUFFICES ASSUME IInv, UNCHANGED vars PROVE IInv'
    OBVIOUS
  <2> USE DEF IInv, vars
  <2>1. TypeOK'
    BY DEF TypeOK
  <2>2. RefsMatch' /\ CbRefsMatch'
    BY DEF RefsMatch, CbRefsMatch, Held, CbHeld
  <2>3. ProducerView' /\ ConsumerView'
    BY DEF ProducerView, ConsumerView
  <2>4. CallbackView'
    BY DEF CallbackView, Doing, Resolved, Fresh
  <2> QED
    BY <2>1, <2>2, <2>3, <2>4
<1>2. IInv /\ [Next]_vars => IInv'
  BY <1>1, ConsumerIInv, ProducerIInv, CallbackProducer, CallbackConsumer, TaskIInv DEF
     Next, Threads
<1> QED
  BY <1>2, InitIInv, PTL DEF Spec

\* The core is deleted exactly when the last reference is gone.
THEOREM FreedExactly == Spec => []FreedExactlyWhenUnreferenced
<1>1. IInv => FreedExactlyWhenUnreferenced
  <2> SUFFICES ASSUME IInv PROVE FreedExactlyWhenUnreferenced
    OBVIOUS
  <2>1. memory = "live" <=> attached # 0
    BY DEF IInv, RefsMatch
  <2>2. attached # 0 <=> pc["producer"] # "gone" \/ pc["consumer"] # "gone" \/ task \in PendingTask
    BY SMTT(30), Bounds
  <2> QED
    BY <2>1, <2>2 DEF FreedExactlyWhenUnreferenced, Threads
<1> QED
  BY <1>1, IInvHolds, PTL

\* The callback never runs on a half-made or half-destroyed core.
THEOREM CallbackIntactHolds == Spec => []CallbackIntact
<1>1. IInv => CallbackIntact
  <2> SUFFICES ASSUME IInv PROVE CallbackIntact
    OBVIOUS
  <2>1. task = "running" => cbRefs # 0
    BY Weights, Bounds DEF IInv, CbRefsMatch, CbHeld
  <2>2. Doing({"runError"}) => cbRefs # 0
    BY Weights, Bounds DEF IInv, CbRefsMatch, CbHeld, Doing
  <2> QED
    BY SMTT(30), <2>1, <2>2 DEF IInv, CbRefsMatch, ProducerView, ConsumerView, CallbackView,
       CallbackIntact, CallbackPCs, WithCallback, ProducerPCs, ConsumerPCs, Threads,
       Doing, Fresh
<1> QED
  BY <1>1, IInvHolds, PTL

\* The callback is invoked once, or its function was destroyed by the executor.
THEOREM CallbackOnce == Spec => []CallbackExactlyOnce
<1>1. IInv => CallbackExactlyOnce
  BY DEF IInv, TypeOK, CallbackView, CallbackExactlyOnce, Resolved, Fresh, States
<1> QED
  BY <1>1, IInvHolds, PTL

\* terminate_unexpected_state is unreachable for one producer and one consumer.
THEOREM NoTerminateHolds == Spec => []NoTerminate
<1>1. IInv => NoTerminate
  BY Bounds DEF IInv, RefsMatch, ProducerView, ConsumerView, NoTerminate, Threads,
     ProducerPCs, ConsumerPCs, CallbackPCs, Doing
<1> QED
  BY <1>1, IInvHolds, PTL

\* Without an executor, with an inline one and when add() throws, the callback is
\* called in the thread that made the core Done; else only with its permission and
\* by a producer that completes on the callback's own executor.
THEOREM SynchronousOnlyIfHolds == Spec => []SynchronousOnlyIf
<1>1. IInv => SynchronousOnlyIf
  <2> SUFFICES ASSUME IInv, NEW t \in Threads,
                      pc[t] \in {"runInline", "runLambda", "runError"}
               PROVE  \/ curExec = None
                      \/ Runner(curExec) \in InlineExecutors
                      \/ pc[t] = "runError" /\ added = "threw"
                      \/ t = "producer" /\ allowInline /\ ka = Runner(curExec)
    BY DEF SynchronousOnlyIf
  <2>1. CASE pc[t] = "runInline"
    BY <2>1 DEF IInv, CallbackView, Doing, Threads
  <2>2. CASE pc[t] = "runError"
    BY <2>2 DEF IInv, CallbackView, Doing, Threads
  <2>3. CASE pc[t] = "runLambda"
    BY <2>3 DEF IInv, ProducerView, ConsumerView, CallbackView, Doing, Threads, CallbackPCs
  <2> QED
    BY <2>1, <2>2, <2>3
<1> QED
  BY <1>1, IInvHolds, PTL
=============================================================================
