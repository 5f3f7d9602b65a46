--------------------------- MODULE MPMCQueueProofs ---------------------------
(***************************************************************************)
(* Proofs about MPMCQueue for any number of threads, any capacity and any  *)
(* stride that leads to every slot.  The inductive invariant IInv says, of *)
(* every ticket and its slot, that the slot has passed the ticket's turns  *)
(* only if the ticket was handed out, and that between them it holds the   *)
(* ticket's element; of every thread, that its ticket is its own and the   *)
(* slot has not passed its turn.                                           *)
(***************************************************************************)
EXTENDS MPMCQueueSteps, TLAPS

(* The actions *)

\* A step of thread t that does not touch the queue and has no ticket in hand.
Local(t) ==
  /\ ThreadType' /\ UNCHANGED queue /\ OthersSame(t)
  /\ ~Pushing(t) /\ ~Popping(t) /\ ~Pushing(t)' /\ ~Popping(t)' /\ Knows(t)'

\* The steps of size() and the return of a call.
LEMMA OtherLocal ==
  ASSUME Core, ThreadType, NEW t \in Threads,
         size(t) \/ SizeB(t) \/ SizeC(t) \/ SizeD(t) \/ Return(t)
  PROVE  Local(t)
<1>0. pushTicket \in 0..MaxTicket /\ popTicket \in 0..MaxTicket /\ 0 \in 0..MaxTicket
  BY MPMCQueueAssumption DEF Core, QueueType
<1>1. CASE size(t)
  <2>1. ThreadType' /\ OthersSame(t) /\ UNCHANGED queue
    BY <1>0, <1>1 DEF size, Call, Load, Goto, ThreadType, Labels, OthersSame
  <2>2. pc[t] = "idle" /\ pc'[t] = "sizeB"
    BY <1>1 DEF size, Call, Load, Goto, ThreadType
  <2> QED BY <1>0, <2>1, <2>2 DEF Local, Knows, Pushing, Popping, Writing
<1>2. CASE SizeB(t)
  <2>1. ThreadType' /\ OthersSame(t) /\ UNCHANGED queue
    BY <1>0, <1>2 DEF SizeB, Goto, ThreadType, Labels, OthersSame
  <2>2. pc[t] = "sizeB" /\ pc'[t] = "sizeC"
    BY <1>2 DEF SizeB, Goto, ThreadType
  <2> QED BY <1>0, <2>1, <2>2 DEF Local, Knows, Pushing, Popping, Writing
<1>3. CASE SizeC(t)
  <2>1. ThreadType' /\ OthersSame(t) /\ UNCHANGED queue
    BY <1>0, <1>3 DEF SizeC, Load, Goto, ThreadType, Labels, OthersSame
  <2>2. pc[t] = "sizeC" /\ pc'[t] \in {"sized", "sizeD"}
    BY <1>3 DEF SizeC, Load, Goto, ThreadType
  <2> QED BY <1>0, <2>1, <2>2 DEF Local, Knows, Pushing, Popping, Writing
<1>4. CASE SizeD(t)
  <2>1. ThreadType' /\ OthersSame(t) /\ UNCHANGED queue
    BY <1>0, <1>4 DEF SizeD, Goto, ThreadType, Labels, OthersSame
  <2>2. pc[t] = "sizeD" /\ pc'[t] \in {"sized", "sizeC"}
    BY <1>4 DEF SizeD, Goto, ThreadType
  <2> QED BY <1>0, <2>1, <2>2 DEF Local, Knows, Pushing, Popping, Writing
<1>5. CASE Return(t)
  <2>1. ThreadType' /\ OthersSame(t) /\ UNCHANGED queue
    BY <1>0, <1>5 DEF Return, End, Goto, ThreadType, Labels, OthersSame
  <2>2. pc[t] \in {"false", "sized"} /\ pc'[t] = "idle"
    BY <1>5 DEF Return, End, Goto, ThreadType
  <2> QED BY <1>0, <2>1, <2>2 DEF Local, Knows, Pushing, Popping, Writing
<1> QED BY <1>1, <1>2, <1>3, <1>4, <1>5

\* A writer without a ticket.
LEMMA PushLocal ==
  ASSUME Core, ThreadType, NEW t \in Threads,
         \/ \E v \in Payload[t] : write(t, v) \/ writeIfNotFull(t, v)
         \/ ReadyPushCheck(t) \/ ReadyPushReload(t) \/ (ReadyPushCas(t) /\ pushTicket # ticket[t])
         \/ PromisedPushCheck(t) \/ (PromisedPushCas(t) /\ pushTicket # ticket[t])
         \/ PushWaited(t) \/ PushTimedOut(t)
  PROVE  Local(t)
<1>0. pushTicket \in 0..MaxTicket /\ popTicket \in 0..MaxTicket /\ 0 \in 0..MaxTicket
  BY MPMCQueueAssumption DEF Core, QueueType
<1>1. Knows(t) /\ Turn(ticket[t]) \in Nat
  BY SlotTypes DEF Core
<1>2. ASSUME NEW v \in Payload[t], write(t, v) \/ writeIfNotFull(t, v) PROVE Local(t)
  <2>0. v \in Data
    BY <1>2, MPMCQueueAssumption
  <2>1. ThreadType' /\ OthersSame(t) /\ UNCHANGED queue
    BY <1>0, <1>2, <2>0 DEF write, writeIfNotFull, Call, Load, Goto, ThreadType, Labels, OthersSame
  <2>2. /\ pc[t] = "idle" /\ elem'[t] = v
        /\ pc'[t] = "readyPush" \/ (pc'[t] = "promisedPush" /\ op'[t] # "write")
    BY <1>2 DEF write, writeIfNotFull, Call, Load, Goto, ThreadType
  <2> QED BY <2>0, <2>1, <2>2 DEF Local, Knows, Pushing, Popping, Writing
<1>3. CASE ReadyPushCheck(t)
  <2>1. ThreadType' /\ OthersSame(t) /\ UNCHANGED queue
    BY <1>0, <1>3 DEF ReadyPushCheck, mayEnqueue, Goto, ThreadType, Labels, OthersSame
  <2>2. /\ pc[t] = "readyPush" /\ op'[t] = op[t] /\ elem'[t] = elem[t] /\ ticket'[t] = ticket[t]
        /\ \/ pc'[t] = "readyPushCas" /\ turn[Slot(ticket[t])] = 2 * Turn(ticket[t])
           \/ pc'[t] = "readyPushReload"
    BY <1>3 DEF ReadyPushCheck, mayEnqueue, Goto, ThreadType
  <2> QED BY <1>0, <1>1, <2>1, <2>2 DEF Local, Knows, Pushing, Popping, Writing, queue
<1>4. CASE ReadyPushReload(t)
  <2>1. ThreadType' /\ OthersSame(t) /\ UNCHANGED queue
    BY <1>0, <1>4 DEF ReadyPushReload, Load, End, Goto, ThreadType, Labels, OthersSame
  <2>2. /\ pc[t] = "readyPushReload"
        /\ pc'[t] = "false" \/ (pc'[t] = "readyPush" /\ op'[t] = op[t] /\ elem'[t] = elem[t])
    BY <1>4 DEF ReadyPushReload, Load, End, Goto, ThreadType
  <2> QED BY <1>0, <1>1, <2>1, <2>2 DEF Local, Knows, Pushing, Popping, Writing
<1>5. CASE (ReadyPushCas(t) /\ pushTicket # ticket[t])
  <2>1. ThreadType' /\ OthersSame(t) /\ UNCHANGED queue
    BY ZenonT(30), <1>0, <1>5 DEF ReadyPushCas, TakePush, Load, Goto, ThreadType, Labels, OthersSame
  <2>2. pc[t] = "readyPushCas" /\ pc'[t] = "readyPush" /\ op'[t] = op[t] /\ elem'[t] = elem[t]
    BY <1>5 DEF ReadyPushCas, TakePush, Load, Goto, ThreadType
  <2> QED BY <1>0, <1>1, <2>1, <2>2 DEF Local, Knows, Pushing, Popping, Writing
<1>6. CASE PromisedPushCheck(t)
  <2>1. ThreadType' /\ OthersSame(t) /\ UNCHANGED queue
    BY <1>0, <1>6 DEF PromisedPushCheck, End, Goto, ThreadType, Labels, OthersSame
  <2>2. /\ pc[t] = "promisedPush"
        /\ pc'[t] = "false" \/ (pc'[t] \in {"pushWait", "promisedPushCas"} /\ op'[t] = op[t] /\ elem'[t] = elem[t])
    BY <1>6 DEF PromisedPushCheck, End, Goto, ThreadType
  <2> QED BY <1>0, <1>1, <2>1, <2>2 DEF Local, Knows, Pushing, Popping, Writing
<1>7. CASE (PromisedPushCas(t) /\ pushTicket # ticket[t])
  <2>1. ThreadType' /\ OthersSame(t) /\ UNCHANGED queue
    BY ZenonT(30), <1>0, <1>7 DEF PromisedPushCas, TakePush, Load, Goto, ThreadType, Labels, OthersSame
  <2>2. pc[t] = "promisedPushCas" /\ pc'[t] = "promisedPush" /\ op'[t] = op[t] /\ elem'[t] = elem[t]
    BY <1>7 DEF PromisedPushCas, TakePush, Load, Goto, ThreadType
  <2> QED BY <1>0, <1>1, <2>1, <2>2 DEF Local, Knows, Pushing, Popping, Writing
<1>8. CASE PushWaited(t)
  <2>1. ThreadType' /\ OthersSame(t) /\ UNCHANGED queue
    BY <1>0, <1>8 DEF PushWaited, Load, Goto, ThreadType, Labels, OthersSame
  <2>2. pc[t] = "pushWait" /\ pc'[t] = "promisedPush" /\ op'[t] = op[t] /\ elem'[t] = elem[t]
    BY <1>8 DEF PushWaited, Load, Goto, ThreadType
  <2> QED BY <1>0, <1>1, <2>1, <2>2 DEF Local, Knows, Pushing, Popping, Writing
<1>9. CASE PushTimedOut(t)
  <2>1. ThreadType' /\ OthersSame(t) /\ UNCHANGED queue
    BY <1>0, <1>9 DEF PushTimedOut, End, Goto, ThreadType, Labels, OthersSame
  <2>2. pc[t] = "pushWait" /\ pc'[t] = "false"
    BY <1>9 DEF PushTimedOut, End, Goto, ThreadType
  <2> QED BY <1>0, <1>1, <2>1, <2>2 DEF Local, Knows, Pushing, Popping, Writing
<1> QED BY <1>2, <1>3, <1>4, <1>5, <1>6, <1>7, <1>8, <1>9

\* A reader without a ticket.
LEMMA PopLocal ==
  ASSUME Core, ThreadType, NEW t \in Threads,
         \/ read(t) \/ readIfNotEmpty(t)
         \/ ReadyPopCheck(t) \/ ReadyPopReload(t) \/ (ReadyPopCas(t) /\ popTicket # ticket[t])
         \/ PromisedPopCheck(t) \/ (PromisedPopCas(t) /\ popTicket # ticket[t])
         \/ PopWaited(t) \/ PopTimedOut(t)
  PROVE  Local(t)
<1>0. pushTicket \in 0..MaxTicket /\ popTicket \in 0..MaxTicket /\ 0 \in 0..MaxTicket
  BY MPMCQueueAssumption DEF Core, QueueType
<1>1. Knows(t) /\ Turn(ticket[t]) \in Nat
  BY SlotTypes DEF Core
<1>2. CASE read(t) \/ readIfNotEmpty(t)
  <2>1. ThreadType' /\ OthersSame(t) /\ UNCHANGED queue
    BY <1>0, <1>2 DEF read, readIfNotEmpty, Call, Load, Goto, ThreadType, Labels, OthersSame
  <2>2. /\ pc[t] = "idle"
        /\ pc'[t] = "readyPop" \/ (pc'[t] = "promisedPop" /\ op'[t] # "read")
    BY <1>2 DEF read, readIfNotEmpty, Call, Load, Goto, ThreadType
  <2> QED BY <1>0, <1>1, <2>1, <2>2 DEF Local, Knows, Pushing, Popping, Writing
<1>3. CASE ReadyPopCheck(t)
  <2>1. ThreadType' /\ OthersSame(t) /\ UNCHANGED queue
    BY <1>0, <1>3 DEF ReadyPopCheck, mayDequeue, Goto, ThreadType, Labels, OthersSame
  <2>2. /\ pc[t] = "readyPop" /\ ticket'[t] = ticket[t]
        /\ \/ pc'[t] = "readyPopCas" /\ turn[Slot(ticket[t])] = 2 * Turn(ticket[t]) + 1
           \/ pc'[t] = "readyPopReload"
    BY SMTT(30), <1>3 DEF ReadyPopCheck, mayDequeue, Goto, ThreadType
  <2> QED BY <1>0, <1>1, <2>1, <2>2 DEF Local, Knows, Pushing, Popping, Writing, queue
<1>4. CASE ReadyPopReload(t)
  <2>1. ThreadType' /\ OthersSame(t) /\ UNCHANGED queue
    BY <1>0, <1>4 DEF ReadyPopReload, Load, End, Goto, ThreadType, Labels, OthersSame
  <2>2. pc[t] = "readyPopReload" /\ pc'[t] \in {"false", "readyPop"}
    BY SMTT(30), <1>4 DEF ReadyPopReload, Load, End, Goto, ThreadType
  <2> QED BY <1>0, <1>1, <2>1, <2>2 DEF Local, Knows, Pushing, Popping, Writing
<1>5. CASE (ReadyPopCas(t) /\ popTicket # ticket[t])
  <2>1. ThreadType' /\ OthersSame(t) /\ UNCHANGED queue
    BY <1>0, <1>5 DEF ReadyPopCas, TakePop, Load, Goto, ThreadType, Labels, OthersSame
  <2>2. pc[t] = "readyPopCas" /\ pc'[t] = "readyPop"
    BY SMTT(30), <1>5 DEF ReadyPopCas, TakePop, Load, Goto, ThreadType
  <2> QED BY <1>0, <1>1, <2>1, <2>2 DEF Local, Knows, Pushing, Popping, Writing
<1>6. CASE PromisedPopCheck(t)
  <2>1. ThreadType' /\ OthersSame(t) /\ UNCHANGED queue
    BY <1>0, <1>6 DEF PromisedPopCheck, End, Goto, ThreadType, Labels, OthersSame
  <2>2. /\ pc[t] = "promisedPop"
        /\ pc'[t] = "false" \/ (pc'[t] \in {"popWait", "promisedPopCas"} /\ op'[t] = op[t])
    BY SMTT(30), <1>6 DEF PromisedPopCheck, End, Goto, ThreadType
  <2> QED BY <1>0, <1>1, <2>1, <2>2 DEF Local, Knows, Pushing, Popping, Writing
<1>7. CASE (PromisedPopCas(t) /\ popTicket # ticket[t])
  <2>1. ThreadType' /\ OthersSame(t) /\ UNCHANGED queue
    BY <1>0, <1>7 DEF PromisedPopCas, TakePop, Load, Goto, ThreadType, Labels, OthersSame
  <2>2. pc[t] = "promisedPopCas" /\ pc'[t] = "promisedPop" /\ op'[t] = op[t]
    BY SMTT(30), <1>7 DEF PromisedPopCas, TakePop, Load, Goto, ThreadType
  <2> QED BY <1>0, <1>1, <2>1, <2>2 DEF Local, Knows, Pushing, Popping, Writing
<1>8. CASE PopWaited(t)
  <2>1. ThreadType' /\ OthersSame(t) /\ UNCHANGED queue
    BY <1>0, <1>8 DEF PopWaited, Load, Goto, ThreadType, Labels, OthersSame
  <2>2. pc[t] = "popWait" /\ pc'[t] = "promisedPop" /\ op'[t] = op[t]
    BY SMTT(30), <1>8 DEF PopWaited, Load, Goto, ThreadType
  <2> QED BY <1>0, <1>1, <2>1, <2>2 DEF Local, Knows, Pushing, Popping, Writing
<1>9. CASE PopTimedOut(t)
  <2>1. ThreadType' /\ OthersSame(t) /\ UNCHANGED queue
    BY <1>0, <1>9 DEF PopTimedOut, End, Goto, ThreadType, Labels, OthersSame
  <2>2. pc[t] = "popWait" /\ pc'[t] = "false"
    BY SMTT(30), <1>9 DEF PopTimedOut, End, Goto, ThreadType
  <2> QED BY <1>0, <1>1, <2>1, <2>2 DEF Local, Knows, Pushing, Popping, Writing
<1> QED BY <1>2, <1>3, <1>4, <1>5, <1>6, <1>7, <1>8, <1>9

\* A writer gets its ticket: by blockingWrite() or by a successful CAS.  The slot
\* checked by write() before the CAS has not passed the ticket's turn since.
LEMMA TakesPush ==
  ASSUME Core, ThreadType, NEW t \in Threads,
         \/ \E v \in Payload[t] : blockingWrite(t, v)
         \/ ReadyPushCas(t) /\ pushTicket = ticket[t]
         \/ PromisedPushCas(t) /\ pushTicket = ticket[t]
  PROVE  /\ ThreadType' /\ OthersSame(t) /\ ~Pushing(t) /\ ~Popping(t)
         /\ \E v \in Data :
              /\ TakePush(pushTicket, v)
              /\ pc'[t] = "enqueue" /\ ticket'[t] = pushTicket /\ elem'[t] = v
              /\ op'[t] = "write" => turn[Slot(pushTicket)] >= 2 * Turn(pushTicket)
<1>0. pushTicket \in 0..MaxTicket
  BY DEF Core, QueueType
<1>1. Knows(t)
  BY DEF Core
<1>2. ASSUME NEW v \in Payload[t], blockingWrite(t, v)
      PROVE  /\ ThreadType' /\ OthersSame(t) /\ ~Pushing(t) /\ ~Popping(t) /\ v \in Data
             /\ TakePush(pushTicket, v)
             /\ pc'[t] = "enqueue" /\ ticket'[t] = pushTicket /\ elem'[t] = v /\ op'[t] # "write"
  <2> v \in Data
    BY SMTT(30), <1>2, MPMCQueueAssumption
  <2> QED BY <1>0, <1>2 DEF blockingWrite, Call, Load, Goto, ThreadType, Labels, OthersSame, Pushing, Popping
<1>3. ASSUME ReadyPushCas(t), pushTicket = ticket[t]
      PROVE  /\ ThreadType' /\ OthersSame(t) /\ ~Pushing(t) /\ ~Popping(t) /\ elem[t] \in Data
             /\ TakePush(pushTicket, elem[t])
             /\ pc'[t] = "enqueue" /\ ticket'[t] = pushTicket /\ elem'[t] = elem[t]
             /\ turn[Slot(pushTicket)] >= 2 * Turn(pushTicket)
  BY SMTT(30), <1>0, <1>1, <1>3 DEF ReadyPushCas, Load, Goto, ThreadType, Labels, OthersSame, Pushing, Popping, Knows, Writing
<1>4. ASSUME PromisedPushCas(t), pushTicket = ticket[t]
      PROVE  /\ ThreadType' /\ OthersSame(t) /\ ~Pushing(t) /\ ~Popping(t) /\ elem[t] \in Data
             /\ TakePush(pushTicket, elem[t])
             /\ pc'[t] = "enqueue" /\ ticket'[t] = pushTicket /\ elem'[t] = elem[t] /\ op'[t] # "write"
  BY SMTT(30), <1>0, <1>1, <1>4 DEF PromisedPushCas, Load, Goto, ThreadType, Labels, OthersSame, Pushing, Popping, Knows, Writing
<1>5. CASE \E v \in Payload[t] : blockingWrite(t, v)
  BY Zenon, <1>2, <1>5
<1>6. CASE ReadyPushCas(t) /\ pushTicket = ticket[t]
  BY <1>3, <1>6
<1>7. CASE PromisedPushCas(t) /\ pushTicket = ticket[t]
  BY <1>4, <1>7
<1> QED BY <1>5, <1>6, <1>7

\* A reader gets its ticket.
LEMMA TakesPop ==
  ASSUME Core, ThreadType, NEW t \in Threads,
         \/ blockingRead(t)
         \/ ReadyPopCas(t) /\ popTicket = ticket[t]
         \/ PromisedPopCas(t) /\ popTicket = ticket[t]
  PROVE  /\ ThreadType' /\ OthersSame(t) /\ ~Pushing(t) /\ ~Popping(t)
         /\ TakePop(popTicket) /\ pc'[t] = "dequeue" /\ ticket'[t] = popTicket
         /\ op'[t] = "read" => turn[Slot(popTicket)] >= 2 * Turn(popTicket) + 1
<1>0. popTicket \in 0..MaxTicket
  BY DEF Core, QueueType
<1>1. Knows(t)
  BY DEF Core
<1>2. CASE blockingRead(t)
  BY SMTT(30), <1>0, <1>2 DEF blockingRead, Call, Load, Goto, ThreadType, Labels, OthersSame, Pushing, Popping
<1>3. CASE ReadyPopCas(t) /\ popTicket = ticket[t]
  BY SMTT(30), <1>0, <1>1, <1>3 DEF ReadyPopCas, Load, Goto, ThreadType, Labels, OthersSame, Pushing, Popping, Knows
<1>4. CASE PromisedPopCas(t) /\ popTicket = ticket[t]
  BY <1>0, <1>1, <1>4 DEF PromisedPopCas, Load, Goto, ThreadType, Labels, OthersSame, Pushing, Popping, Knows
<1> QED BY <1>2, <1>3, <1>4

\* The four steps of a thread that has a ticket keep the types of the threads.
LEMMA SlotThreadType ==
  ASSUME Core, ThreadType, NEW t \in Threads,
         Enqueue(t) \/ CompleteEnqueue(t) \/ Dequeue(t) \/ CompleteDequeue(t)
  PROVE  ThreadType'
<1>0. 0 \in 0..MaxTicket /\ contents[Slot(ticket[t])] \in Data \cup {NoData}
  BY SlotTypes, MPMCQueueAssumption DEF Core, QueueType
<1>1. CASE Enqueue(t)
  BY <1>1 DEF Enqueue, Goto, ThreadType, Labels
<1>2. CASE CompleteEnqueue(t)
  BY <1>0, <1>2 DEF CompleteEnqueue, End, Goto, ThreadType, Labels
<1>3. CASE Dequeue(t)
  BY <1>0, <1>3 DEF Dequeue, Goto, ThreadType, Labels
<1>4. CASE CompleteDequeue(t)
  BY <1>0, <1>4 DEF CompleteDequeue, End, Goto, ThreadType, Labels
<1> QED BY <1>1, <1>2, <1>3, <1>4
-----------------------------------------------------------------------------
(* The invariant *)

\* What one step of a thread can be.
LEMMA Steps ==
  ASSUME NEW t \in Threads, Step(t) \/ Begin(t)
  PROVE  \/ size(t) \/ SizeB(t) \/ SizeC(t) \/ SizeD(t) \/ Return(t)
         \/ \/ \E v \in Payload[t] : write(t, v) \/ writeIfNotFull(t, v)
            \/ ReadyPushCheck(t) \/ ReadyPushReload(t) \/ (ReadyPushCas(t) /\ pushTicket # ticket[t])
            \/ PromisedPushCheck(t) \/ (PromisedPushCas(t) /\ pushTicket # ticket[t])
            \/ PushWaited(t) \/ PushTimedOut(t)
         \/ \/ read(t) \/ readIfNotEmpty(t)
            \/ ReadyPopCheck(t) \/ ReadyPopReload(t) \/ (ReadyPopCas(t) /\ popTicket # ticket[t])
            \/ PromisedPopCheck(t) \/ (PromisedPopCas(t) /\ popTicket # ticket[t])
            \/ PopWaited(t) \/ PopTimedOut(t)
         \/ \/ \E v \in Payload[t] : blockingWrite(t, v)
            \/ ReadyPushCas(t) /\ pushTicket = ticket[t]
            \/ PromisedPushCas(t) /\ pushTicket = ticket[t]
         \/ \/ blockingRead(t)
            \/ ReadyPopCas(t) /\ popTicket = ticket[t]
            \/ PromisedPopCas(t) /\ popTicket = ticket[t]
         \/ Enqueue(t) \/ CompleteEnqueue(t) \/ Dequeue(t) \/ CompleteDequeue(t)
<1>1. CASE Push(t) \/ \E v \in Payload[t] : blockingWrite(t, v) \/ write(t, v) \/ writeIfNotFull(t, v)
  BY <1>1, Zenon DEF Push
<1>2. CASE Pop(t) \/ blockingRead(t) \/ read(t) \/ readIfNotEmpty(t)
  BY <1>2, Zenon DEF Pop
<1>3. CASE size(t) \/ SizeB(t) \/ SizeC(t) \/ SizeD(t) \/ Return(t)
  BY <1>3, Zenon
<1> QED BY <1>1, <1>2, <1>3, Zenon DEF Step, Begin

\* A step of a thread keeps the invariant of queue and threads.
LEMMA StepCore ==
  ASSUME Core, ThreadType, NEW t \in Threads, Step(t) \/ Begin(t)
  PROVE  Core' /\ ThreadType'
<1>1. CASE Local(t)
  BY SMTT(30), <1>1, LocalStep DEF Local
<1>2. CASE \/ \E v \in Payload[t] : blockingWrite(t, v)
           \/ ReadyPushCas(t) /\ pushTicket = ticket[t]
           \/ PromisedPushCas(t) /\ pushTicket = ticket[t]
  BY <1>2, TakesPush, TakePushStep
<1>3. CASE \/ blockingRead(t)
           \/ ReadyPopCas(t) /\ popTicket = ticket[t]
           \/ PromisedPopCas(t) /\ popTicket = ticket[t]
  BY <1>3, TakesPop, TakePopStep
<1>4. CASE Enqueue(t) \/ CompleteEnqueue(t) \/ Dequeue(t) \/ CompleteDequeue(t)
  BY <1>4, SlotThreadType, EnqueueStep, CompleteEnqueueStep, DequeueStep, CompleteDequeueStep
<1> QED BY Zenon, <1>1, <1>2, <1>3, <1>4, Steps, OtherLocal, PushLocal, PopLocal

\* The history variables keep their types.
LEMMA StepHistory ==
  ASSUME QueueType', HistoryType, Observe
  PROVE  HistoryType'
<1>1. unable' \in [Threads -> BOOLEAN]
  BY Zenon DEF Observe, HistoryType
<1>2. sizes' \in [Threads -> SUBSET (-MaxTicket..MaxTicket)]
  <2>1. /\ pushTicket' \in Nat /\ pushTicket' <= MaxTicket
        /\ popTicket' \in Nat /\ popTicket' <= MaxTicket /\ MaxTicket \in Nat
    BY MPMCQueueAssumption DEF QueueType
  <2>2. pushTicket' - popTicket' \in -MaxTicket..MaxTicket
    <3> DEFINE a == pushTicket'
               b == popTicket'
    <3> SUFFICES a - b \in -MaxTicket..MaxTicket
      OBVIOUS
    <3> HIDE DEF a, b
    <3>1. a \in Nat /\ a <= MaxTicket /\ b \in Nat /\ b <= MaxTicket /\ MaxTicket \in Nat
      BY <2>1 DEF a, b
    <3> QED BY <3>1
  <2> QED BY <2>2 DEF Observe, HistoryType
<1> QED BY <1>1, <1>2 DEF HistoryType

\* IInv is inductive.
LEMMA NextIInv == IInv /\ [Next]_vars => IInv'
<1> SUFFICES ASSUME IInv, [Next]_vars PROVE IInv'
  OBVIOUS
<1>1. Core /\ ThreadType /\ HistoryType
  BY DEF IInv, TypeOK, Core
<1>2. ASSUME NEW t \in Threads, Step(t) \/ Begin(t) PROVE IInv'
  <2>1. Core' /\ ThreadType'
    BY SMTT(30), <1>1, <1>2, StepCore
  <2>2. HistoryType'
    BY SMTT(30), <1>1, <1>2, <2>1, StepHistory DEF Core, Step, Begin
  <2> QED BY <2>1, <2>2 DEF IInv, TypeOK, Core
<1>3. CASE UNCHANGED vars
  BY <1>3 DEF IInv, TypeOK, QueueType, ThreadType, HistoryType, Knows, Pushing, Popping, OwnTickets,
              Rounds, DestructorIsRight, vars, queue, history
<1> QED BY <1>2, <1>3 DEF Next

\* Every reachable state satisfies IInv.
THEOREM Invariance == Spec => []IInv
<1> QED BY InitIInv, NextIInv, PTL DEF Spec

\* The types of the queue's state, in every reachable state.
THEOREM TypeCorrect == Spec => []TypeOK
<1>1. IInv => TypeOK
  BY DEF IInv
<1> QED BY <1>1, Invariance, PTL

\* A slot is used by one thread at a time: the tickets of two threads in the same
\* slot would have the same turn, and so be the same ticket; and a writer and a
\* reader cannot both be at the current turn.
THEOREM SlotsExclusive == Spec => []SlotExclusive
<1>1. IInv => SlotExclusive
  <2> SUFFICES ASSUME IInv, NEW t \in Threads, NEW u \in Threads, t # u,
                      pc[t] \in {"enqueued", "dequeued"}, pc[u] \in {"enqueued", "dequeued"},
                      Slot(ticket[t]) = Slot(ticket[u])
               PROVE  FALSE
    BY DEF SlotExclusive
  <2>1. Core /\ ThreadType
    BY SMTT(30) DEF IInv, TypeOK, Core
  <2>2. Turn(ticket[t]) \in Nat /\ Turn(ticket[u]) \in Nat
    BY SMTT(30), <2>1, SlotTypes
  <2>3. Knows(t) /\ Knows(u)
    BY SMTT(30) DEF IInv
  <2>4. CASE pc[t] = pc[u]
    <3>1. Turn(ticket[t]) # Turn(ticket[u])
      BY SMTT(30), <2>1, <2>4, Alone
    <3> QED BY <2>2, <2>3, <2>4, <3>1 DEF Knows
  <2>5. CASE pc[t] # pc[u]
    BY <2>2, <2>3, <2>5 DEF Knows
  <2> QED BY <2>4, <2>5
<1> QED BY <1>1, Invariance, PTL

\* The destructor of a slot destroys an element exactly if there is one.
THEOREM DestructorsRight == Spec => []DestructorIsRight
<1>1. IInv => DestructorIsRight
  BY SMTT(30) DEF IInv
<1> QED BY <1>1, Invariance, PTL

\* With the ticket write() or read() obtained, enqueue() or dequeue() does not wait.
THEOREM ReadyNeverWaits == Spec => []ReadyNeverBlocks
<1>1. IInv => ReadyNeverBlocks
  <2> SUFFICES ASSUME IInv, NEW t \in Threads
               PROVE  /\ op[t] = "write" /\ pc[t] = "enqueue" => mayEnqueue(ticket[t])
                      /\ op[t] = "read" /\ pc[t] = "dequeue" => mayDequeue(ticket[t])
    BY Zenon DEF ReadyNeverBlocks
  <2>1. Core /\ ThreadType /\ Knows(t)
    BY DEF IInv, TypeOK, Core
  <2>2. Turn(ticket[t]) \in Nat /\ turn[Slot(ticket[t])] \in Nat
    BY <2>1, SlotTypes
  <2> QED BY <2>1, <2>2 DEF Knows, Pushing, Popping, mayEnqueue, mayDequeue
<1> QED BY <1>1, Invariance, PTL
-----------------------------------------------------------------------------
(* The queue implements BoundedFifo *)

\* Seen as a BoundedFifo, thread t did not move.
Still(t) == Busy(t)' = Busy(t) /\ Number(t)' = Number(t) /\ Got(t)' = Got(t)

\* A step of thread t does not move the others.
LEMMA OthersStill ==
  ASSUME NEW t \in Threads, OthersSame(t)
  PROVE  \A u \in Threads : u # t => Still(u)
  BY DEF OthersSame, Still, Busy, Number, Got

\* The initial states.
LEMMA FifoInit == Init => F!Init
<1> SUFFICES ASSUME Init PROVE F!Init
  OBVIOUS
<1>1. \A t \in Threads : Busy(t) = "no" /\ Number(t) = 0 /\ Got(t) = NoData
  BY Zenon DEF Init, Busy, Number, Got
<1> QED BY <1>1 DEF Init, F!Init

\* Steps that change neither tickets nor slots.
LEMMA FifoStill ==
  ASSUME UNCHANGED <<written, popTicket>>, \A u \in Threads : Still(u)
  PROVE  UNCHANGED F!vars
  BY DEF Still, F!vars

\* Taking a push ticket begins a write.
LEMMA FifoBeginWrite ==
  ASSUME Core, ThreadType', NEW t \in Threads, NEW v \in Data, TakePush(pushTicket, v), OthersSame(t),
         ~Pushing(t), ~Popping(t), pc'[t] = "enqueue", ticket'[t] = pushTicket
  PROVE  F!BeginWrite(t, v)
<1>1. \A u \in Threads : u # t => Still(u)
  BY OthersStill
<1>2. Busy(t) = "no" /\ Number(t) = 0 /\ Got(t) = NoData
  BY DEF Busy, Number, Got, Pushing, Popping
<1>3. Busy(t)' = "write" /\ Number(t)' = Len(written) + 1 /\ Got(t)' = NoData
  BY DEF Busy, Number, Got, Core, QueueType
<1>4. written' = Append(written, v) /\ popTicket' = popTicket
  BY DEF TakePush
<1> QED BY Zenon, <1>1, <1>2, <1>3, <1>4 DEF Still, F!BeginWrite, F!Begin

\* Taking a pop ticket begins a read.
LEMMA FifoBeginRead ==
  ASSUME Core, NEW t \in Threads, TakePop(popTicket), OthersSame(t),
         ~Pushing(t), ~Popping(t), pc'[t] = "dequeue", ticket'[t] = popTicket
  PROVE  F!BeginRead(t)
<1>1. \A u \in Threads : u # t => Still(u)
  BY OthersStill
<1>2. Busy(t) = "no" /\ Number(t) = 0 /\ Got(t) = NoData
  BY DEF Busy, Number, Got, Pushing, Popping
<1>3. Busy(t)' = "read" /\ Number(t)' = popTicket + 1 /\ Got(t)' = NoData
  BY DEF Busy, Number, Got
<1>4. popTicket' = popTicket + 1 /\ written' = written
  BY DEF TakePop
<1> QED BY Zenon, <1>1, <1>2, <1>3, <1>4 DEF Still, F!BeginRead, F!Begin

\* Completing the writer's turn ends the write.  The slot has come to this turn
\* because the reader of the round before has been given its ticket.
LEMMA FifoEndWrite ==
  ASSUME Core, ThreadType, NEW t \in Threads, CompleteEnqueue(t)
  PROVE  F!EndWrite(t)
<1> DEFINE k == ticket[t]
<1>0. k \in Nat /\ k <= MaxTicket /\ Turn(k) \in Nat /\ popTicket \in Nat /\ capacity \in Nat
  BY SlotTypes, Constants, MPMCQueueAssumption DEF Core, QueueType
<1>1. k + 1 <= popTicket + capacity
  <2>1. CASE k < capacity
    BY <2>1, <1>0
  <2>2. CASE k >= capacity
    <3> DEFINE j == k - capacity
    <3>1. Slot(j) = Slot(k) /\ Turn(k) = Turn(j) + 1
      BY <2>2, <1>0, RoundBefore
    <3>2. j \in 0..MaxTicket /\ j \in Nat
      BY <2>2, <1>0, Constants, MPMCQueueAssumption
    <3>3. Turn(j) \in Nat
      BY SMTT(30), <3>2, SlotTurn
    <3>4. turn[Slot(k)] = 2 * Turn(k)
      BY DEF Core, Knows, CompleteEnqueue
    <3>5. turn[Slot(j)] > 2 * Turn(j) + 1
      BY <3>1, <3>3, <3>4
    <3>6. j < popTicket
      BY <3>2, <3>5 DEF Core, Rounds
    <3> QED BY <3>6, <1>0
  <2> QED BY <2>1, <2>2, <1>0
<1>2. OthersSame(t)
  BY DEF CompleteEnqueue, End, Goto, ThreadType, OthersSame
<1>3. \A u \in Threads : u # t => Still(u)
  BY <1>2, OthersStill
<1>4. Busy(t) = "write" /\ Number(t) = k + 1 /\ Got(t) = NoData
  BY DEF CompleteEnqueue, Busy, Number, Got
<1>5. pc'[t] = "idle" /\ written' = written /\ popTicket' = popTicket
  BY DEF CompleteEnqueue, End, Goto, ThreadType
<1>6. Busy(t)' = "no" /\ Number(t)' = 0 /\ Got(t)' = NoData
  BY <1>5 DEF Busy, Number, Got
<1> QED BY Zenon, <1>1, <1>3, <1>4, <1>5, <1>6 DEF Still, F!EndWrite, F!End

\* Moving the element out ends the read, with the element of its number.
LEMMA FifoEndRead ==
  ASSUME Core, ThreadType, NEW t \in Threads, Dequeue(t)
  PROVE  F!EndRead(t)
<1> DEFINE k == ticket[t]
<1>0. k \in Nat /\ pushTicket \in Nat /\ Len(written) = pushTicket
  BY SlotTypes, MPMCQueueAssumption DEF Core, QueueType
<1>1. k < pushTicket /\ contents[Slot(k)] = written[k + 1]
  BY DequeueElement
<1>2. OthersSame(t)
  BY DEF Dequeue, Goto, ThreadType, OthersSame
<1>3. \A u \in Threads : u # t => Still(u)
  BY <1>2, OthersStill
<1>4. Busy(t) = "read" /\ Number(t) = k + 1
  BY DEF Dequeue, Busy, Number
<1>5. /\ pc'[t] = "dequeued" /\ elem'[t] = contents[Slot(k)]
      /\ written' = written /\ popTicket' = popTicket
  BY DEF Dequeue, Goto, ThreadType
<1>6. Busy(t)' = "got" /\ Number(t)' = 0 /\ Got(t)' = written[k + 1]
  BY <1>1, <1>5 DEF Busy, Number, Got
<1>7. k + 1 <= Len(written)
  BY <1>0, <1>1
<1> QED BY Zenon, <1>3, <1>4, <1>5, <1>6, <1>7 DEF Still, F!EndRead, F!End

\* Completing the reader's turn returns the element.
LEMMA FifoReturn ==
  ASSUME Core, ThreadType, NEW t \in Threads, CompleteDequeue(t)
  PROVE  F!Return(t)
<1>2. OthersSame(t)
  BY DEF CompleteDequeue, End, Goto, ThreadType, OthersSame
<1>3. \A u \in Threads : u # t => Still(u)
  BY <1>2, OthersStill
<1>4. Busy(t) = "got" /\ Number(t) = 0
  BY DEF CompleteDequeue, Busy, Number
<1>5. pc'[t] = "idle" /\ written' = written /\ popTicket' = popTicket
  BY DEF CompleteDequeue, End, Goto, ThreadType
<1>6. Busy(t)' = "no" /\ Number(t)' = 0 /\ Got(t)' = NoData
  BY <1>5 DEF Busy, Number, Got
<1> QED BY ZenonT(30), <1>3, <1>4, <1>5, <1>6 DEF Still, F!Return, F!End

\* Steps of BoundedFifo that are not seen: looking for a ticket, and constructing
\* the element.
LEMMA FifoLocal ==
  ASSUME ThreadType, NEW t \in Threads, Local(t) \/ Enqueue(t)
  PROVE  UNCHANGED F!vars
<1>1. CASE Local(t)
  <2>1. Still(t)
    BY SMTT(30), <1>1 DEF Local, Still, Busy, Number, Got, Pushing, Popping
  <2> QED BY <1>1, <2>1, OthersStill, FifoStill DEF Local, queue
<1>2. CASE Enqueue(t)
  <2>1. OthersSame(t) /\ pc[t] = "enqueue" /\ pc'[t] = "enqueued" /\ ticket' = ticket /\ elem' = elem
    BY SMTT(30), <1>2 DEF Enqueue, Goto, ThreadType, OthersSame
  <2>2. Still(t)
    BY <2>1 DEF Still, Busy, Number, Got
  <2> QED BY <1>2, <2>1, <2>2, OthersStill, FifoStill DEF Enqueue
<1> QED BY <1>1, <1>2

\* Every step is a step of BoundedFifo or is not seen.
LEMMA FifoNext == IInv /\ [Next]_vars => [F!Next]_F!vars
<1> SUFFICES ASSUME IInv, [Next]_vars PROVE [F!Next]_F!vars
  OBVIOUS
<1>1. Core /\ ThreadType
  BY SMTT(30) DEF IInv, TypeOK, Core
<1>2. ASSUME NEW t \in Threads, Step(t) \/ Begin(t) PROVE F!Next \/ UNCHANGED F!vars
  <2>1. CASE Local(t) \/ Enqueue(t)
    BY <2>1, <1>1, FifoLocal
  <2>2. CASE \/ \E v \in Payload[t] : blockingWrite(t, v)
             \/ ReadyPushCas(t) /\ pushTicket = ticket[t]
             \/ PromisedPushCas(t) /\ pushTicket = ticket[t]
    <3>1. \E v \in Data : F!BeginWrite(t, v)
      BY Zenon, <1>1, <2>2, TakesPush, FifoBeginWrite
    <3> QED BY SMTT(30), <3>1 DEF F!Next
  <2>3. CASE \/ blockingRead(t)
             \/ ReadyPopCas(t) /\ popTicket = ticket[t]
             \/ PromisedPopCas(t) /\ popTicket = ticket[t]
    <3>1. F!BeginRead(t)
      BY <1>1, <2>3, TakesPop, FifoBeginRead
    <3> QED BY SMTT(30), <3>1 DEF F!Next
  <2>4. CASE CompleteEnqueue(t) \/ Dequeue(t) \/ CompleteDequeue(t)
    <3>1. F!EndWrite(t) \/ F!EndRead(t) \/ F!Return(t)
      BY <1>1, <2>4, FifoEndWrite, FifoEndRead, FifoReturn
    <3> QED BY <3>1 DEF F!Next
  <2> QED BY Zenon, <1>1, <1>2, <2>1, <2>2, <2>3, <2>4, Steps, OtherLocal, PushLocal, PopLocal
<1>3. CASE UNCHANGED vars
  <2>1. \A u \in Threads : Still(u)
    BY <1>3 DEF Still, Busy, Number, Got, vars, queue
  <2> QED BY <1>3, <2>1, FifoStill DEF vars, queue
<1> QED BY <1>2, <1>3 DEF Next

\* The queue implements BoundedFifo, for any number of threads, any capacity and
\* any stride that gives the tickets of a round different slots: the n-th read
\* returns the n-th element written, and a write returns only when it is within
\* the capacity of the reads.
THEOREM Fifo == Spec => FifoSafety
<1> QED BY FifoInit, FifoNext, Invariance, PTL DEF Spec, FifoSafety
=============================================================================
