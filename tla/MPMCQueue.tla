------------------------------ MODULE MPMCQueue ------------------------------
(***************************************************************************)
(* folly/MPMCQueue.h, the queue of fixed capacity: writers and readers get *)
(* tickets from two counters, and ticket k uses slot idx(k) on its turn    *)
(* 2 * turn(k) (write) or 2 * turn(k) + 1 (read).  The sequencer of a slot *)
(* is used by what it promises (module Turns): a thread goes on when the   *)
(* turn of the slot is its own.                                            *)
(***************************************************************************)
EXTENDS Integers, Sequences

CONSTANTS
  Threads,
  Data, NoData,    \* elements; no element
  Payload,         \* the elements each thread writes
  capacity, stride,
  MaxTicket,       \* bound: tickets handed out on either side
  Ops              \* the operations the threads use

Pushes == {"blockingWrite", "write", "writeIfNotFull", "tryWriteUntil"}
Pops == {"blockingRead", "read", "readIfNotEmpty", "tryReadUntil"}

\* idx() and turn()
Slot(k) == (k * stride) % capacity
Turn(k) == k \div capacity

\* computeStride() sees to it that the tickets of one turn have different slots
\* (BestStride of ComputeStride).
ASSUME MPMCQueueAssumption ==
  /\ capacity \in Nat \ {0} /\ stride \in Nat \ {0} /\ MaxTicket \in Nat
  /\ NoData \notin Data /\ Payload \in [Threads -> SUBSET Data]
  /\ Ops \subseteq Pushes \cup Pops \cup {"size"}
  /\ \A j, k \in 0..capacity-1 : Slot(j) = Slot(k) => j = k

Slots == 0..capacity-1

VARIABLES
  pushTicket, popTicket,
  turn, contents,   \* per slot: its current turn, the element constructed there
  pc, op,           \* per thread: where it is, in which operation
  ticket, other,    \* per thread: the locals ticket (or pushes) and numPops (or pops)
  elem,             \* per thread: the element to write, or the one read
  written,          \* history: the element of every push ticket
  unable, sizes     \* history, per thread: what was true during its call

queue == <<pushTicket, popTicket, turn, contents, written>>
history == <<unable, sizes>>
vars == <<queue, pc, op, ticket, other, elem, history>>

Init ==
  /\ pushTicket = 0 /\ popTicket = 0
  /\ turn = [s \in Slots |-> 0]
  /\ contents = [s \in Slots |-> NoData]
  /\ written = <<>>
  /\ pc = [t \in Threads |-> "idle"]
  /\ op = [t \in Threads |-> "none"]
  /\ ticket = [t \in Threads |-> 0]
  /\ other = [t \in Threads |-> 0]
  /\ elem = [t \in Threads |-> NoData]
  /\ unable = [t \in Threads |-> FALSE]
  /\ sizes = [t \in Threads |-> {}]

Goto(t, l) == pc' = [pc EXCEPT ![t] = l]

\* Mutant: a slot may be written while its element is being moved out.
mayEnqueueEarly(k) == turn[Slot(k)] + 1 >= 2 * Turn(k)

\* SingleElementQueue::mayEnqueue() and mayDequeue()
mayEnqueue(k) == turn[Slot(k)] = 2 * Turn(k)
mayDequeue(k) == turn[Slot(k)] = 2 * Turn(k) + 1

\* A call begins, at label l.
Call(t, o, l) ==
  /\ pc[t] = "idle" /\ o \in Ops
  /\ op' = [op EXCEPT ![t] = o]
  /\ Goto(t, l)

\* A call is over, or about to return false; its locals end.
End(t, l) ==
  /\ Goto(t, l)
  /\ op' = [op EXCEPT ![t] = "none"]
  /\ ticket' = [ticket EXCEPT ![t] = 0]
  /\ other' = [other EXCEPT ![t] = 0]
  /\ elem' = [elem EXCEPT ![t] = NoData]

Load(t, k) == ticket' = [ticket EXCEPT ![t] = k]

\* A thread takes push ticket k with it; its element becomes number k + 1.
TakePush(k, v) ==
  /\ pushTicket = k /\ k < MaxTicket
  /\ pushTicket' = k + 1
  /\ written' = Append(written, v)
  /\ UNCHANGED <<popTicket, turn, contents>>

TakePop(k) ==
  /\ popTicket = k /\ k < MaxTicket
  /\ popTicket' = k + 1
  /\ UNCHANGED <<pushTicket, turn, contents, written>>
-----------------------------------------------------------------------------
(* Writers *)

blockingWrite(t, v) ==
  /\ Call(t, "blockingWrite", "enqueue")
  /\ TakePush(pushTicket, v)
  /\ Load(t, pushTicket)
  /\ elem' = [elem EXCEPT ![t] = v]
  /\ UNCHANGED other

\* write() begins with load A of tryObtainReadyPushTicket().
write(t, v) ==
  /\ Call(t, "write", "readyPush")
  /\ Load(t, pushTicket)
  /\ elem' = [elem EXCEPT ![t] = v]
  /\ UNCHANGED <<queue, other>>

ReadyPushCheck(t) ==
  /\ pc[t] = "readyPush"
  /\ Goto(t, IF mayEnqueue(ticket[t]) THEN "readyPushCas" ELSE "readyPushReload")
  /\ UNCHANGED <<queue, op, ticket, other, elem>>

\* Mutant: the failed check is not confirmed.
ReadyPushReloadGivesUp(t) ==
  /\ pc[t] = "readyPushReload"
  /\ End(t, "false")
  /\ UNCHANGED queue

\* Load B
ReadyPushReload(t) ==
  /\ pc[t] = "readyPushReload"
  /\ \/ pushTicket = ticket[t] /\ End(t, "false")
     \/ pushTicket # ticket[t] /\ Load(t, pushTicket) /\ Goto(t, "readyPush") /\ UNCHANGED <<op, other, elem>>
  /\ UNCHANGED queue

ReadyPushCas(t) ==
  /\ pc[t] = "readyPushCas"
  /\ \/ /\ TakePush(ticket[t], elem[t])
        /\ Goto(t, "enqueue") /\ UNCHANGED ticket
     \/ /\ pushTicket # ticket[t]
        /\ Load(t, pushTicket)
        /\ Goto(t, "readyPush") /\ UNCHANGED queue
  /\ UNCHANGED <<op, other, elem>>

\* writeIfNotFull() and tryWriteUntil() begin with load A of
\* tryObtainPromisedPushTicket().
writeIfNotFull(t, v) ==
  /\ \E o \in {"writeIfNotFull", "tryWriteUntil"} : Call(t, o, "promisedPush")
  /\ Load(t, pushTicket)
  /\ elem' = [elem EXCEPT ![t] = v]
  /\ UNCHANGED <<queue, other>>

\* Load B
PromisedPushCheck(t) ==
  /\ pc[t] = "promisedPush"
  /\ \/ ticket[t] - popTicket >= capacity /\ op[t] = "writeIfNotFull" /\ End(t, "false")
     \/ /\ ticket[t] - popTicket >= capacity => op[t] = "tryWriteUntil"
        /\ Goto(t, IF ticket[t] - popTicket >= capacity THEN "pushWait" ELSE "promisedPushCas")
        /\ UNCHANGED <<op, ticket, other, elem>>
  /\ UNCHANGED queue

PromisedPushCas(t) ==
  /\ pc[t] = "promisedPushCas"
  /\ \/ /\ TakePush(ticket[t], elem[t])
        /\ Goto(t, "enqueue") /\ UNCHANGED ticket
     \/ /\ pushTicket # ticket[t]
        /\ Load(t, pushTicket)
        /\ Goto(t, "promisedPush") /\ UNCHANGED queue
  /\ UNCHANGED <<op, other, elem>>

\* tryWaitForEnqueueTurnUntil(): the turn of the ticket has come or is past, and
\* tryObtainPromisedPushTicket() begins again; or the deadline is reached.
PushWaited(t) ==
  /\ pc[t] = "pushWait"
  /\ turn[Slot(ticket[t])] >= 2 * Turn(ticket[t])
  /\ Load(t, pushTicket)
  /\ Goto(t, "promisedPush")
  /\ UNCHANGED <<queue, op, other, elem>>

PushTimedOut(t) ==
  /\ pc[t] = "pushWait"
  /\ End(t, "false")
  /\ UNCHANGED queue

\* SingleElementQueue::enqueue(): waits for the turn and constructs the element.
Enqueue(t) ==
  /\ pc[t] = "enqueue" /\ mayEnqueue(ticket[t])
  /\ contents' = [contents EXCEPT ![Slot(ticket[t])] = elem[t]]
  /\ Goto(t, "enqueued")
  /\ UNCHANGED <<pushTicket, popTicket, turn, written, op, ticket, other, elem>>

\* completeTurn(turn * 2)
CompleteEnqueue(t) ==
  /\ pc[t] = "enqueued"
  /\ turn' = [turn EXCEPT ![Slot(ticket[t])] = 2 * Turn(ticket[t]) + 1]
  /\ End(t, "idle")
  /\ UNCHANGED <<pushTicket, popTicket, contents, written>>
-----------------------------------------------------------------------------
(* Readers *)

blockingRead(t) ==
  /\ Call(t, "blockingRead", "dequeue")
  /\ TakePop(popTicket)
  /\ Load(t, popTicket)
  /\ UNCHANGED <<other, elem>>

read(t) ==
  /\ Call(t, "read", "readyPop")
  /\ Load(t, popTicket)
  /\ UNCHANGED <<queue, other, elem>>

ReadyPopCheck(t) ==
  /\ pc[t] = "readyPop"
  /\ Goto(t, IF mayDequeue(ticket[t]) THEN "readyPopCas" ELSE "readyPopReload")
  /\ UNCHANGED <<queue, op, ticket, other, elem>>

ReadyPopReload(t) ==
  /\ pc[t] = "readyPopReload"
  /\ \/ popTicket = ticket[t] /\ End(t, "false")
     \/ popTicket # ticket[t] /\ Load(t, popTicket) /\ Goto(t, "readyPop") /\ UNCHANGED <<op, other, elem>>
  /\ UNCHANGED queue

ReadyPopCas(t) ==
  /\ pc[t] = "readyPopCas"
  /\ \/ /\ TakePop(ticket[t])
        /\ Goto(t, "dequeue") /\ UNCHANGED ticket
     \/ /\ popTicket # ticket[t]
        /\ Load(t, popTicket)
        /\ Goto(t, "readyPop") /\ UNCHANGED queue
  /\ UNCHANGED <<op, other, elem>>

\* readIfNotEmpty() and tryReadUntil() begin with load A of
\* tryObtainPromisedPopTicket().
readIfNotEmpty(t) ==
  /\ \E o \in {"readIfNotEmpty", "tryReadUntil"} : Call(t, o, "promisedPop")
  /\ Load(t, popTicket)
  /\ UNCHANGED <<queue, other, elem>>

\* Load B
PromisedPopCheck(t) ==
  /\ pc[t] = "promisedPop"
  /\ \/ ticket[t] >= pushTicket /\ op[t] = "readIfNotEmpty" /\ End(t, "false")
     \/ /\ ticket[t] >= pushTicket => op[t] = "tryReadUntil"
        /\ Goto(t, IF ticket[t] >= pushTicket THEN "popWait" ELSE "promisedPopCas")
        /\ UNCHANGED <<op, ticket, other, elem>>
  /\ UNCHANGED queue

PromisedPopCas(t) ==
  /\ pc[t] = "promisedPopCas"
  /\ \/ /\ TakePop(ticket[t])
        /\ Goto(t, "dequeue") /\ UNCHANGED ticket
     \/ /\ popTicket # ticket[t]
        /\ Load(t, popTicket)
        /\ Goto(t, "promisedPop") /\ UNCHANGED queue
  /\ UNCHANGED <<op, other, elem>>

PopWaited(t) ==
  /\ pc[t] = "popWait"
  /\ turn[Slot(ticket[t])] >= 2 * Turn(ticket[t]) + 1
  /\ Load(t, popTicket)
  /\ Goto(t, "promisedPop")
  /\ UNCHANGED <<queue, op, other, elem>>

PopTimedOut(t) ==
  /\ pc[t] = "popWait"
  /\ End(t, "false")
  /\ UNCHANGED queue

\* SingleElementQueue::dequeue(): waits for the turn, moves the element out and
\* destroys what is left.
Dequeue(t) ==
  /\ pc[t] = "dequeue" /\ mayDequeue(ticket[t])
  /\ elem' = [elem EXCEPT ![t] = contents[Slot(ticket[t])]]
  /\ contents' = [contents EXCEPT ![Slot(ticket[t])] = NoData]
  /\ Goto(t, "dequeued")
  /\ UNCHANGED <<pushTicket, popTicket, turn, written, op, ticket, other>>

\* Mutant: the turn is not completed.
CompleteDequeueForgets(t) ==
  /\ pc[t] = "dequeued"
  /\ End(t, "idle")
  /\ UNCHANGED queue

CompleteDequeue(t) ==
  /\ pc[t] = "dequeued"
  /\ turn' = [turn EXCEPT ![Slot(ticket[t])] = 2 * Turn(ticket[t]) + 2]
  /\ End(t, "idle")
  /\ UNCHANGED <<pushTicket, popTicket, contents, written>>
-----------------------------------------------------------------------------
(* size() *)

\* Load A of pushTicket_
size(t) ==
  /\ Call(t, "size", "sizeB")
  /\ Load(t, pushTicket)
  /\ UNCHANGED <<queue, other, elem>>

SizeB(t) ==
  /\ pc[t] = "sizeB"
  /\ other' = [other EXCEPT ![t] = popTicket]
  /\ Goto(t, "sizeC")
  /\ UNCHANGED <<queue, op, ticket, elem>>

\* Mutant: the two loads are taken for a snapshot.
SizeCGuess(t) ==
  /\ pc[t] = "sizeC"
  /\ Goto(t, "sized")
  /\ UNCHANGED <<queue, op, ticket, other, elem>>

SizeC(t) ==
  /\ pc[t] = "sizeC"
  /\ Goto(t, IF pushTicket = ticket[t] THEN "sized" ELSE "sizeD")
  /\ Load(t, pushTicket)
  /\ UNCHANGED <<queue, op, other, elem>>

SizeD(t) ==
  /\ pc[t] = "sizeD"
  /\ Goto(t, IF popTicket = other[t] THEN "sized" ELSE "sizeC")
  /\ other' = [other EXCEPT ![t] = popTicket]
  /\ UNCHANGED <<queue, op, ticket, elem>>
-----------------------------------------------------------------------------
\* The caller has false, or the size.
Return(t) ==
  /\ pc[t] \in {"false", "sized"}
  /\ End(t, "idle")
  /\ UNCHANGED queue

\* Operation o could not have succeeded at this instant: the next ticket would
\* have to wait for its turn, or the queue is full or empty by the tickets.
CannotNow(o) ==
  \/ o = "write" /\ ~mayEnqueue(pushTicket)
  \/ o = "read" /\ ~mayDequeue(popTicket)
  \/ o \in {"writeIfNotFull", "tryWriteUntil"} /\ pushTicket - popTicket >= capacity
  \/ o \in {"readIfNotEmpty", "tryReadUntil"} /\ popTicket >= pushTicket

\* The history variables watch every instant of every call.
Observe ==
  /\ unable' = [t \in Threads |-> pc'[t] # "idle" /\ (unable[t] \/ CannotNow(op[t])' )]
  /\ sizes' = [t \in Threads |-> IF op'[t] = "size" THEN sizes[t] \cup {pushTicket' - popTicket'} ELSE {}]

Push(t) ==
  \/ ReadyPushCheck(t) \/ ReadyPushReload(t) \/ ReadyPushCas(t)
  \/ PromisedPushCheck(t) \/ PromisedPushCas(t) \/ PushWaited(t) \/ PushTimedOut(t)
  \/ Enqueue(t) \/ CompleteEnqueue(t)

Pop(t) ==
  \/ ReadyPopCheck(t) \/ ReadyPopReload(t) \/ ReadyPopCas(t)
  \/ PromisedPopCheck(t) \/ PromisedPopCas(t) \/ PopWaited(t) \/ PopTimedOut(t)
  \/ Dequeue(t) \/ CompleteDequeue(t)

Step(t) ==
  /\ Push(t) \/ Pop(t) \/ SizeB(t) \/ SizeC(t) \/ SizeD(t)
  /\ Observe

Begin(t) ==
  /\ \/ \E v \in Payload[t] : blockingWrite(t, v) \/ write(t, v) \/ writeIfNotFull(t, v)
     \/ blockingRead(t) \/ read(t) \/ readIfNotEmpty(t) \/ size(t) \/ Return(t)
  /\ Observe

Next == \E t \in Threads : Step(t) \/ Begin(t)

Spec == Init /\ [][Next]_vars

\* Threads in a call are scheduled.
FairSpec == Spec /\ \A t \in Threads : WF_vars(Step(t))
-----------------------------------------------------------------------------
(* Properties *)

Labels == {"idle", "enqueue", "enqueued", "dequeue", "dequeued", "false", "sized",
           "readyPush", "readyPushCas", "readyPushReload", "promisedPush", "promisedPushCas", "pushWait",
           "readyPop", "readyPopCas", "readyPopReload", "promisedPop", "promisedPopCas", "popWait",
           "sizeB", "sizeC", "sizeD"}

QueueType ==
  /\ pushTicket \in 0..MaxTicket /\ popTicket \in 0..MaxTicket
  /\ turn \in [Slots -> Nat]
  /\ contents \in [Slots -> Data \cup {NoData}]
  /\ written \in Seq(Data) /\ Len(written) = pushTicket

ThreadType ==
  /\ pc \in [Threads -> Labels]
  /\ op \in [Threads -> Ops \cup {"none"}]
  /\ ticket \in [Threads -> 0..MaxTicket] /\ other \in [Threads -> 0..MaxTicket]
  /\ elem \in [Threads -> Data \cup {NoData}]

HistoryType ==
  /\ unable \in [Threads -> BOOLEAN]
  /\ sizes \in [Threads -> SUBSET (-MaxTicket..MaxTicket)]

TypeOK == QueueType /\ ThreadType /\ HistoryType

\* Two threads are never in the same slot: an element is constructed and moved
\* out by one thread at a time.
SlotExclusive ==
  \A t, u \in Threads :
    /\ t # u
    /\ pc[t] \in {"enqueued", "dequeued"} /\ pc[u] \in {"enqueued", "dequeued"}
    => Slot(ticket[t]) # Slot(ticket[u])

\* A slot no thread is in holds a constructed element exactly when its turn is
\* odd, which is how ~SingleElementQueue decides to destroy one.
DestructorIsRight ==
  \A s \in Slots :
    \/ \E t \in Threads : pc[t] \in {"enqueued", "dequeued"} /\ Slot(ticket[t]) = s
    \/ contents[s] # NoData <=> turn[s] % 2 = 1

\* The operations that can fail return false only if at some instant of the call
\* they could not have succeeded: write() and read() when the next ticket had to
\* wait, the others when the queue was full or empty.  In particular a
\* readIfNotEmpty() succeeds if a write has returned for it.
FailsOnlyIfUnable == \A t \in Threads : pc[t] = "false" => unable[t]

\* size() returns writes minus reads as they were at some instant of the call.
SizeIsExact == \A t \in Threads : pc[t] = "sized" => ticket[t] - other[t] \in sizes[t]

\* write() and read() never wait: with the ticket they get it is their turn.
ReadyNeverBlocks ==
  \A t \in Threads :
    /\ op[t] = "write" /\ pc[t] = "enqueue" => mayEnqueue(ticket[t])
    /\ op[t] = "read" /\ pc[t] = "dequeue" => mayDequeue(ticket[t])

\* The queue implements BoundedFifo: elements are read in the order of the
\* tickets, none lost or read twice; writers overtake readers by at most the
\* capacity; and who may finish does.
Busy(t) ==
  IF pc[t] \in {"enqueue", "enqueued"} THEN "write"
  ELSE IF pc[t] = "dequeue" THEN "read"
  ELSE IF pc[t] = "dequeued" THEN "got" ELSE "no"
Number(t) == IF Busy(t) \in {"write", "read"} THEN ticket[t] + 1 ELSE 0
Got(t) == IF Busy(t) = "got" THEN elem[t] ELSE NoData
F == INSTANCE BoundedFifo WITH
       reads <- popTicket,
       busy <- [t \in Threads |-> Busy(t)],
       number <- [t \in Threads |-> Number(t)],
       elem <- [t \in Threads |-> Got(t)]
ImplementsFifo == F!Spec

\* The same without what must happen.
FifoSafety == F!Init /\ [][F!Next]_F!vars
-----------------------------------------------------------------------------
(* The inductive invariant of the proofs *)

Pushing(t) == pc[t] \in {"enqueue", "enqueued"}
Popping(t) == pc[t] \in {"dequeue", "dequeued"}

\* Threads that have, or look for, a push ticket have an element to write.
Writing == {"enqueue", "enqueued", "readyPush", "readyPushCas", "readyPushReload",
            "promisedPush", "promisedPushCas", "pushWait"}

\* What a thread knows of the ticket it has, and of the slot it is in.
Knows(t) ==
  /\ pc[t] \in Writing => elem[t] \in Data
  /\ pc[t] \in {"promisedPush", "promisedPushCas", "pushWait"} => op[t] # "write"
  /\ pc[t] \in {"promisedPop", "promisedPopCas", "popWait"} => op[t] # "read"
  /\ Pushing(t) => /\ ticket[t] < pushTicket
                   /\ turn[Slot(ticket[t])] <= 2 * Turn(ticket[t])
                   /\ elem[t] = written[ticket[t] + 1]
  /\ Popping(t) => /\ ticket[t] < popTicket
                   /\ turn[Slot(ticket[t])] <= 2 * Turn(ticket[t]) + 1
  /\ pc[t] = "enqueued" => /\ turn[Slot(ticket[t])] = 2 * Turn(ticket[t])
                           /\ contents[Slot(ticket[t])] = elem[t]
  /\ pc[t] = "dequeued" => /\ turn[Slot(ticket[t])] = 2 * Turn(ticket[t]) + 1
                           /\ contents[Slot(ticket[t])] = NoData
  /\ pc[t] = "readyPushCas" \/ (pc[t] = "enqueue" /\ op[t] = "write")
       => turn[Slot(ticket[t])] >= 2 * Turn(ticket[t])
  /\ pc[t] = "readyPopCas" \/ (pc[t] = "dequeue" /\ op[t] = "read")
       => turn[Slot(ticket[t])] >= 2 * Turn(ticket[t]) + 1

\* No ticket belongs to two threads.
OwnTickets ==
  \A t, u \in Threads : t # u =>
    /\ Pushing(t) /\ Pushing(u) => ticket[t] # ticket[u]
    /\ Popping(t) /\ Popping(u) => ticket[t] # ticket[u]

\* A slot is past the turn of a ticket only if the ticket was handed out, and
\* between the two turns of a ticket it holds the ticket's element.
Rounds ==
  \A k \in 0..MaxTicket :
    /\ turn[Slot(k)] > 2 * Turn(k) => k < pushTicket
    /\ turn[Slot(k)] > 2 * Turn(k) + 1 => k < popTicket
    /\ turn[Slot(k)] = 2 * Turn(k) + 1 =>
         \/ contents[Slot(k)] = written[k + 1]
         \/ \E t \in Threads : pc[t] = "dequeued" /\ ticket[t] = k

\* The inductive invariant, which implies the invariants above: a slot's turn says
\* for each of its tickets whether it was handed out and whether the slot holds
\* its element, no two threads in enqueue() or dequeue() have the same ticket, and
\* each thread knows of the slot what the code it has executed tells it.
IInv ==
  /\ TypeOK
  /\ \A t \in Threads : Knows(t)
  /\ OwnTickets
  /\ Rounds
  /\ DestructorIsRight
=============================================================================
