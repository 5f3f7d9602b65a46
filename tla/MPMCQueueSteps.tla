---------------------------- MODULE MPMCQueueSteps ----------------------------
(***************************************************************************)
(* The steps of MPMCQueue that change the queue keep its invariant: taking *)
(* a ticket, and the four steps of a thread in a slot.                     *)
(***************************************************************************)
EXTENDS MPMCQueue, Remainders, TLAPS

(* Arithmetic of tickets, slots and turns *)

\* The constants of the arithmetic.
LEMMA Constants == capacity \in Nat \ {0} /\ stride \in Nat \ {0}
  BY MPMCQueueAssumption

\* idx() and turn() have the values they should.
LEMMA SlotTurn ==
  ASSUME NEW k \in Nat
  PROVE  Slot(k) \in Slots /\ Turn(k) \in Nat
<1>1. k * stride \in Nat
  BY Constants
<1> QED BY Zenon, <1>1, DivMod, Constants DEF Slot, Turn, Slots

\* A ticket has the slot it would have in the first round.
LEMMA FirstRound ==
  ASSUME NEW k \in Nat
  PROVE  Slot(k) = Slot(k % capacity) /\ k % capacity \in Slots /\ k = capacity * Turn(k) + (k % capacity)
<1> DEFINE r == k % capacity
           q == k \div capacity
<1>1. r \in Nat /\ r \in Slots /\ q \in Nat /\ k = capacity * q + r
  <2>1. /\ k = capacity * (k \div capacity) + (k % capacity)
        /\ k % capacity \in 0..capacity-1 /\ k \div capacity \in Nat
    BY Zenon, DivMod, Constants
  <2> QED BY <2>1, Constants DEF Slots
<1> HIDE DEF r, q
<1>2. r * stride \in Nat /\ k * stride \in Nat /\ q * stride \in Nat
  BY <1>1, Constants
<1>3. k * stride = r * stride + capacity * (q * stride)
  BY <1>1, Constants
<1>4. (k * stride) % capacity = (r * stride) % capacity
  <2> DEFINE a == k * stride
             b == r * stride
             m == q * stride
  <2>1. a \in Nat /\ b \in Nat /\ m \in Nat /\ a = b + capacity * m
    BY <1>2, <1>3
  <2> HIDE DEF a, b, m
  <2>2. (b + capacity * m) % capacity = b % capacity
    BY Zenon, <2>1, ShiftDivMod, Constants
  <2> QED BY <2>1, <2>2 DEF a, b
<1>5. Slot(k) = Slot(r)
  BY <1>4 DEF Slot
<1> QED BY <1>1, <1>5 DEF r, q, Turn

\* Slot and turn determine the ticket.
LEMMA OneTicket ==
  ASSUME NEW j \in Nat, NEW k \in Nat, Slot(j) = Slot(k), Turn(j) = Turn(k)
  PROVE  j = k
<1>1. /\ Slot(j) = Slot(j % capacity) /\ j % capacity \in Slots /\ j = capacity * Turn(j) + (j % capacity)
      /\ Slot(k) = Slot(k % capacity) /\ k % capacity \in Slots /\ k = capacity * Turn(k) + (k % capacity)
  BY FirstRound
<1>2. j % capacity = k % capacity
  BY Zenon, <1>1, MPMCQueueAssumption DEF Slots
<1> QED BY <1>1, <1>2

\* The ticket one round earlier has the same slot, on the turn before.
LEMMA RoundBefore ==
  ASSUME NEW k \in Nat, k >= capacity
  PROVE  Slot(k - capacity) = Slot(k) /\ Turn(k) = Turn(k - capacity) + 1
<1> DEFINE j == k - capacity
<1>1. j \in Nat /\ k = j + capacity * 1
  BY Constants
<1> HIDE DEF j
<1>2. k \div capacity = (j \div capacity) + 1
  <2> DEFINE m == 1
  <2>1. m \in Nat /\ j \in Nat /\ k = j + capacity * m
    BY <1>1
  <2> HIDE DEF m
  <2>2. (j + capacity * m) \div capacity = (j \div capacity) + m
    BY Zenon, <2>1, ShiftDivMod, Constants
  <2> QED BY <2>1, <2>2 DEF m
<1>3. k * stride = j * stride + capacity * stride /\ k * stride \in Nat /\ j * stride \in Nat
  BY <1>1, Constants
<1>4. (k * stride) % capacity = (j * stride) % capacity
  <2> DEFINE b == j * stride
  <2>1. b \in Nat /\ stride \in Nat /\ k * stride = b + capacity * stride
    BY <1>3, Constants
  <2> HIDE DEF b
  <2>2. (b + capacity * stride) % capacity = b % capacity
    BY Zenon, <2>1, ShiftDivMod, Constants
  <2> QED BY <2>1, <2>2 DEF b
<1> QED BY <1>2, <1>4 DEF j, Slot, Turn
-----------------------------------------------------------------------------
(* Initially *)

\* An empty queue that no thread uses satisfies the invariant.
LEMMA InitIInv == Init => IInv
<1> SUFFICES ASSUME Init PROVE IInv
  OBVIOUS
<1>1. QueueType
  BY MPMCQueueAssumption DEF Init, QueueType, Slots
<1>2. ThreadType
  BY MPMCQueueAssumption DEF Init, ThreadType, Labels
<1>3. HistoryType
  BY DEF Init, HistoryType
<1>4. ASSUME NEW t \in Threads PROVE Knows(t)
  BY DEF Init, Knows, Pushing, Popping, Writing
<1>5. OwnTickets
  BY DEF Init, OwnTickets, Pushing, Popping
<1>6. Rounds
  <2> SUFFICES ASSUME NEW k \in 0..MaxTicket
               PROVE  turn[Slot(k)] = 0 /\ Turn(k) \in Nat
    BY DEF Rounds
  <2>1. k \in Nat /\ Slot(k) \in Slots /\ Turn(k) \in Nat
    BY SlotTurn, MPMCQueueAssumption
  <2> QED BY <2>1 DEF Init
<1>7. DestructorIsRight
  BY DEF Init, DestructorIsRight, Slots
<1> QED BY <1>1, <1>2, <1>3, <1>4, <1>5, <1>6, <1>7 DEF IInv, TypeOK
-----------------------------------------------------------------------------
(* Steps, by what they do to the queue *)

\* Only thread t moves.
OthersSame(t) ==
  \A u \in Threads \ {t} :
    pc'[u] = pc[u] /\ op'[u] = op[u] /\ ticket'[u] = ticket[u] /\ elem'[u] = elem[u]

\* The invariant without the types of threads and of the history.
Core == QueueType /\ (\A t \in Threads : Knows(t)) /\ OwnTickets /\ Rounds /\ DestructorIsRight

\* A step of a thread that has no ticket after it and leaves the queue alone.
LEMMA LocalStep ==
  ASSUME Core, ThreadType, ThreadType', NEW t \in Threads, UNCHANGED queue, OthersSame(t),
         ~Pushing(t), ~Popping(t), ~Pushing(t)', ~Popping(t)', Knows(t)'
  PROVE  Core'
<1>1. QueueType'
  BY DEF Core, QueueType, queue
<1>2. ASSUME NEW u \in Threads PROVE Knows(u)'
  BY DEF Core, Knows, Pushing, Popping, OthersSame, queue
<1>3. OwnTickets'
  BY DEF Core, OwnTickets, Pushing, Popping, OthersSame
<1>4. Rounds'
  BY DEF Core, Rounds, Popping, OthersSame, queue
<1>5. DestructorIsRight'
  BY SMTT(30) DEF Core, DestructorIsRight, Pushing, Popping, OthersSame, queue
<1> QED BY <1>1, <1>2, <1>3, <1>4, <1>5 DEF Core

\* A thread takes the next push ticket: the slot has not passed its turn, since
\* it passes only turns of tickets that were handed out.
LEMMA TakePushStep ==
  ASSUME Core, ThreadType, ThreadType', NEW t \in Threads, NEW v \in Data, TakePush(pushTicket, v),
         OthersSame(t), ~Pushing(t), ~Popping(t),
         pc'[t] = "enqueue", ticket'[t] = pushTicket, elem'[t] = v,
         op'[t] = "write" => turn[Slot(pushTicket)] >= 2 * Turn(pushTicket)
  PROVE  Core'
<1> DEFINE k == pushTicket
<1>0. k \in Nat /\ k \in 0..MaxTicket /\ Slot(k) \in Slots /\ Turn(k) \in Nat
  BY SlotTurn, MPMCQueueAssumption DEF Core, QueueType
<1>1. /\ pushTicket' = k + 1 /\ popTicket' = popTicket /\ turn' = turn /\ contents' = contents
      /\ written' = Append(written, v) /\ k + 1 \in 0..MaxTicket
  BY <1>0, MPMCQueueAssumption DEF TakePush
<1>2. /\ written \in Seq(Data) /\ Len(written) = k
      /\ Len(written') = k + 1 /\ written' \in Seq(Data) /\ written'[k + 1] = v
      /\ \A j \in 1..k : written'[j] = written[j]
  BY <1>0, <1>1 DEF Core, QueueType
<1>3. QueueType'
  BY <1>1, <1>2 DEF Core, QueueType
<1>4. turn[Slot(k)] <= 2 * Turn(k)
  BY <1>0 DEF Core, Rounds, QueueType
<1>5. ASSUME NEW u \in Threads PROVE Knows(u)'
  <2>1. CASE u = t
    BY SMTT(30), <2>1, <1>0, <1>1, <1>2, <1>4 DEF Knows, Pushing, Popping, Writing
  <2>2. CASE u # t
    <3>1. Knows(u) /\ ticket[u] \in Nat
      BY SMTT(30) DEF Core, ThreadType
    <3>2. /\ pc'[u] = pc[u] /\ op'[u] = op[u] /\ ticket'[u] = ticket[u] /\ elem'[u] = elem[u]
      BY SMTT(30), <2>2 DEF OthersSame
    <3>3. Pushing(u) => ticket[u] + 1 \in 1..k
      BY <1>0, <3>1 DEF Knows
    <3> QED BY <3>1, <3>2, <3>3, <1>0, <1>1, <1>2 DEF Knows, Pushing, Popping
  <2> QED BY <2>1, <2>2
<1>6. OwnTickets'
  <2>1. \A u \in Threads : Pushing(u) => ticket[u] # k
    BY SMTT(30), <1>0 DEF Core, Knows, ThreadType
  <2> QED BY <2>1 DEF Core, OwnTickets, Pushing, Popping, OthersSame
<1>7. Rounds'
  <2> SUFFICES ASSUME NEW j \in 0..MaxTicket
               PROVE  /\ turn[Slot(j)] > 2 * Turn(j) => j < k + 1
                      /\ turn[Slot(j)] > 2 * Turn(j) + 1 => j < popTicket
                      /\ turn[Slot(j)] = 2 * Turn(j) + 1 =>
                           \/ contents[Slot(j)] = written'[j + 1]
                           \/ \E u \in Threads : pc'[u] = "dequeued" /\ ticket'[u] = j
    BY Zenon, <1>1 DEF Rounds
  <2>1. /\ turn[Slot(j)] > 2 * Turn(j) => j < k
        /\ turn[Slot(j)] > 2 * Turn(j) + 1 => j < popTicket
        /\ turn[Slot(j)] = 2 * Turn(j) + 1 =>
             \/ contents[Slot(j)] = written[j + 1]
             \/ \E u \in Threads : pc[u] = "dequeued" /\ ticket[u] = j
    BY DEF Core, Rounds
  <2>2. j \in Nat /\ Turn(j) \in Nat
    BY SlotTurn, MPMCQueueAssumption
  <2>3. turn[Slot(j)] = 2 * Turn(j) + 1 => written'[j + 1] = written[j + 1]
    BY <2>1, <2>2, <1>0, <1>2
  <2>4. \A u \in Threads : pc[u] = "dequeued" => pc'[u] = pc[u] /\ ticket'[u] = ticket[u]
    BY DEF OthersSame, Popping
  <2> QED BY SMTT(30), <2>1, <2>2, <2>3, <2>4, <1>0
<1>8. DestructorIsRight'
  BY <1>1 DEF Core, DestructorIsRight, Pushing, Popping, OthersSame
<1> QED BY <1>3, <1>5, <1>6, <1>7, <1>8 DEF Core

\* A thread takes the next pop ticket.
LEMMA TakePopStep ==
  ASSUME Core, ThreadType, ThreadType', NEW t \in Threads, TakePop(popTicket),
         OthersSame(t), ~Pushing(t), ~Popping(t), pc'[t] = "dequeue", ticket'[t] = popTicket,
         op'[t] = "read" => turn[Slot(popTicket)] >= 2 * Turn(popTicket) + 1
  PROVE  Core'
<1> DEFINE k == popTicket
<1>0. k \in Nat /\ k \in 0..MaxTicket /\ Slot(k) \in Slots /\ Turn(k) \in Nat
  BY SlotTurn, MPMCQueueAssumption DEF Core, QueueType
<1>1. /\ popTicket' = k + 1 /\ pushTicket' = pushTicket /\ turn' = turn /\ contents' = contents
      /\ written' = written /\ k + 1 \in 0..MaxTicket
  BY <1>0, MPMCQueueAssumption DEF TakePop
<1>2. QueueType'
  BY <1>1 DEF Core, QueueType
<1>3. turn[Slot(k)] <= 2 * Turn(k) + 1
  BY <1>0 DEF Core, Rounds, QueueType
<1>4. ASSUME NEW u \in Threads PROVE Knows(u)'
  <2>1. CASE u = t
    BY SMTT(30), <2>1, <1>0, <1>1, <1>3 DEF Knows, Pushing, Popping, Writing
  <2>2. CASE u # t
    <3>1. Knows(u) /\ ticket[u] \in Nat
      BY SMTT(30) DEF Core, ThreadType
    <3>2. /\ pc'[u] = pc[u] /\ op'[u] = op[u] /\ ticket'[u] = ticket[u] /\ elem'[u] = elem[u]
      BY <2>2 DEF OthersSame
    <3> QED BY <3>1, <3>2, <1>0, <1>1 DEF Knows, Pushing, Popping
  <2> QED BY <2>1, <2>2
<1>5. OwnTickets'
  <2>1. \A u \in Threads : Popping(u) => ticket[u] # k
    BY SMTT(30), <1>0 DEF Core, Knows, ThreadType
  <2> QED BY <2>1 DEF Core, OwnTickets, Pushing, Popping, OthersSame
<1>6. Rounds'
  <2>1. \A u \in Threads : pc[u] = "dequeued" => pc'[u] = pc[u] /\ ticket'[u] = ticket[u]
    BY DEF OthersSame, Popping
  <2> QED BY <2>1, <1>0, <1>1 DEF Core, Rounds
<1>7. DestructorIsRight'
  BY <1>1 DEF Core, DestructorIsRight, Pushing, Popping, OthersSame
<1> QED BY <1>2, <1>4, <1>5, <1>6, <1>7 DEF Core
-----------------------------------------------------------------------------
(* Steps in a slot *)

\* Two writers, or two readers, in the same slot have different turns.
LEMMA Alone ==
  ASSUME Core, ThreadType
  PROVE  \A t, u \in Threads :
           /\ t # u /\ Slot(ticket[t]) = Slot(ticket[u])
           /\ \/ pc[t] \in {"enqueue", "enqueued"} /\ pc[u] \in {"enqueue", "enqueued"}
              \/ pc[t] \in {"dequeue", "dequeued"} /\ pc[u] \in {"dequeue", "dequeued"}
           => Turn(ticket[t]) # Turn(ticket[u])
<1>1. \A t \in Threads : ticket[t] \in Nat
  BY DEF ThreadType
<1> QED BY <1>1, OneTicket DEF Core, OwnTickets, Pushing, Popping

\* What a thread knows of its slot survives another thread's turn there, unless
\* the turn that ends is the one this thread waits for.
LEMMA KnowsNextTurn ==
  ASSUME NEW u \in Threads, Knows(u), NEW n \in Nat, Turn(ticket[u]) \in Nat,
         turn[Slot(ticket[u])] = n, turn'[Slot(ticket[u])] = n + 1,
         Pushing(u) => n # 2 * Turn(ticket[u]),
         Popping(u) => n # 2 * Turn(ticket[u]) + 1,
         pc'[u] = pc[u], op'[u] = op[u], ticket'[u] = ticket[u], elem'[u] = elem[u],
         UNCHANGED <<pushTicket, popTicket, contents, written>>
  PROVE  Knows(u)'
<1> DEFINE m == Turn(ticket[u])
<1>1. /\ Pushing(u) => n < 2 * m /\ n + 1 <= 2 * m
      /\ Popping(u) => n + 1 <= 2 * m + 1
  BY DEF Knows
<1>2. pc[u] # "enqueued" /\ pc[u] # "dequeued"
  BY DEF Knows, Pushing, Popping
<1> QED BY SMTT(30), <1>1, <1>2 DEF Knows, Pushing, Popping, Slot, Turn

\* The types of what a thread with a ticket looks at.
LEMMA SlotTypes ==
  ASSUME Core, ThreadType, NEW t \in Threads
  PROVE  /\ ticket[t] \in Nat /\ ticket[t] \in 0..MaxTicket
         /\ Slot(ticket[t]) \in Slots /\ Turn(ticket[t]) \in Nat
         /\ turn[Slot(ticket[t])] \in Nat
<1>1. ticket[t] \in Nat /\ ticket[t] \in 0..MaxTicket
  BY MPMCQueueAssumption DEF ThreadType
<1>2. Slot(ticket[t]) \in Slots /\ Turn(ticket[t]) \in Nat
  BY <1>1, SlotTurn
<1> QED BY <1>1, <1>2 DEF Core, QueueType

\* The writer whose turn it is constructs its element.
LEMMA EnqueueStep ==
  ASSUME Core, ThreadType, ThreadType', NEW t \in Threads, Enqueue(t)
  PROVE  Core'
<1> DEFINE k == ticket[t]
           s == Slot(k)
<1>0. k \in 0..MaxTicket /\ s \in Slots /\ Turn(k) \in Nat /\ turn[s] \in Nat
  BY SlotTypes
<1>1. /\ pc[t] = "enqueue" /\ turn[s] = 2 * Turn(k)
      /\ contents' = [contents EXCEPT ![s] = elem[t]]
      /\ pc' = [pc EXCEPT ![t] = "enqueued"]
      /\ UNCHANGED <<pushTicket, popTicket, turn, written, op, ticket, elem>>
  BY SMTT(30) DEF Enqueue, mayEnqueue, Goto
<1>2. elem[t] \in Data /\ elem[t] # NoData
  BY <1>1, MPMCQueueAssumption DEF Core, Knows, Writing
<1>3. /\ contents \in [Slots -> Data \cup {NoData}] /\ contents'[s] = elem[t]
      /\ \A r \in Slots \ {s} : contents'[r] = contents[r]
  BY <1>0, <1>1 DEF Core, QueueType
<1>4. pc'[t] = "enqueued" /\ \A u \in Threads \ {t} : pc'[u] = pc[u]
  BY <1>1 DEF ThreadType
<1>5. QueueType'
  BY SMTT(30), <1>0, <1>1, <1>2 DEF Core, QueueType
<1>6. ASSUME NEW u \in Threads PROVE Knows(u)'
  <2>1. CASE u = t
    BY SMTT(30), <2>1, <1>0, <1>1, <1>2, <1>3, <1>4 DEF Core, Knows, Pushing, Popping, Writing
  <2>2. CASE u # t
    <3>1. /\ Knows(u) /\ pc'[u] = pc[u] /\ Slot(ticket[u]) \in Slots
          /\ Turn(ticket[u]) \in Nat
      BY SMTT(30), <2>2, <1>4, SlotTypes DEF Core
    <3>2. pc[u] \in {"enqueued", "dequeued"} => Slot(ticket[u]) # s
      <4> SUFFICES ASSUME pc[u] \in {"enqueued", "dequeued"}, Slot(ticket[u]) = s PROVE FALSE
        OBVIOUS
      <4>1. CASE pc[u] = "enqueued"
        <5>1. Turn(ticket[u]) = Turn(k)
          BY SMTT(30), <4>1, <3>1, <1>0, <1>1 DEF Knows
        <5> QED BY SMTT(30), <4>1, <5>1, <2>2, <1>1, Alone
      <4>2. CASE pc[u] = "dequeued"
        BY SMTT(30), <4>2, <3>1, <1>0, <1>1 DEF Knows
      <4> QED BY <4>1, <4>2
    <3> QED BY SMTT(30), <3>1, <3>2, <1>1, <1>3 DEF Knows, Pushing, Popping
  <2> QED BY <2>1, <2>2
<1>7. OwnTickets'
  BY SMTT(30), <1>1, <1>4 DEF Core, OwnTickets, Pushing, Popping
<1>8. Rounds'
  <2> SUFFICES ASSUME NEW j \in 0..MaxTicket, turn[Slot(j)] = 2 * Turn(j) + 1
               PROVE  \/ contents'[Slot(j)] = written[j + 1]
                      \/ \E u \in Threads : pc'[u] = "dequeued" /\ ticket[u] = j
    BY <1>1 DEF Core, Rounds
  <2>1. Slot(j) \in Slots /\ Turn(j) \in Nat
    BY SlotTurn, MPMCQueueAssumption
  <2>2. Slot(j) # s
    BY <2>1, <1>0, <1>1
  <2>3. \/ contents[Slot(j)] = written[j + 1]
        \/ \E u \in Threads : pc[u] = "dequeued" /\ ticket[u] = j
    BY DEF Core, Rounds
  <2> QED BY <2>1, <2>2, <2>3, <1>1, <1>3, <1>4
<1>9. DestructorIsRight'
  <2> SUFFICES ASSUME NEW r \in Slots
               PROVE  \/ \E u \in Threads : pc'[u] \in {"enqueued", "dequeued"} /\ Slot(ticket[u]) = r
                      \/ contents'[r] # NoData <=> turn[r] % 2 = 1
    BY <1>1 DEF DestructorIsRight
  <2>1. CASE r = s
    BY <2>1, <1>4
  <2>2. CASE r # s
    <3>1. \/ \E u \in Threads : pc[u] \in {"enqueued", "dequeued"} /\ Slot(ticket[u]) = r
          \/ contents[r] # NoData <=> turn[r] % 2 = 1
      BY DEF Core, DestructorIsRight
    <3> QED BY <2>2, <3>1, <1>1, <1>3, <1>4
  <2> QED BY <2>1, <2>2
<1> QED BY <1>5, <1>6, <1>7, <1>8, <1>9 DEF Core

\* The writer completes its turn: the slot is the reader's of the same ticket.
LEMMA CompleteEnqueueStep ==
  ASSUME Core, ThreadType, ThreadType', NEW t \in Threads, CompleteEnqueue(t)
  PROVE  Core'
<1> DEFINE k == ticket[t]
           s == Slot(k)
<1>0. k \in 0..MaxTicket /\ s \in Slots /\ Turn(k) \in Nat /\ turn[s] \in Nat
  BY SlotTypes
<1>1. /\ pc[t] = "enqueued"
      /\ turn' = [turn EXCEPT ![s] = 2 * Turn(k) + 1]
      /\ UNCHANGED <<pushTicket, popTicket, contents, written>>
  BY DEF CompleteEnqueue
<1>2. OthersSame(t) /\ pc'[t] = "idle"
  BY DEF CompleteEnqueue, End, Goto, ThreadType, OthersSame
<1>3. /\ turn \in [Slots -> Nat] /\ turn'[s] = 2 * Turn(k) + 1
      /\ \A r \in Slots \ {s} : turn'[r] = turn[r]
  BY SMTT(30), <1>0, <1>1 DEF Core, QueueType
<1>4. /\ turn[s] = 2 * Turn(k) /\ k < pushTicket
      /\ contents[s] = written[k + 1] /\ contents[s] \in Data /\ contents[s] # NoData
  BY <1>1, MPMCQueueAssumption DEF Core, Knows, Pushing, Writing
<1>5. QueueType'
  BY SMTT(30), <1>0, <1>1 DEF Core, QueueType
<1>6. ASSUME NEW u \in Threads PROVE Knows(u)'
  <2>1. CASE u = t
    BY <2>1, <1>2 DEF Knows, Pushing, Popping, Writing
  <2>2. CASE u # t
    <3>1. /\ Knows(u) /\ Slot(ticket[u]) \in Slots
          /\ Turn(ticket[u]) \in Nat /\ ticket[u] \in Nat
      BY SlotTypes DEF Core
    <3>2. pc'[u] = pc[u] /\ op'[u] = op[u] /\ ticket'[u] = ticket[u] /\ elem'[u] = elem[u]
      BY SMTT(30), <2>2, <1>2 DEF OthersSame
    <3>3. CASE Slot(ticket[u]) # s
      BY SMTT(30), <3>1, <3>2, <3>3, <1>1, <1>3 DEF Knows, Pushing, Popping
    <3>4. CASE Slot(ticket[u]) = s
      <4>1. Pushing(u) => Turn(ticket[u]) # Turn(k)
        BY SMTT(30), <3>4, <2>2, <1>1, Alone DEF Pushing
      <4>2. turn'[Slot(ticket[u])] = 2 * Turn(k) + 1 /\ turn[Slot(ticket[u])] = 2 * Turn(k)
        BY <3>4, <1>3, <1>4
      <4>3. /\ Pushing(u) => 2 * Turn(k) # 2 * Turn(ticket[u])
            /\ 2 * Turn(k) # 2 * Turn(ticket[u]) + 1
            /\ 2 * Turn(k) \in Nat
        BY <4>1, <3>1, <1>0
      <4> QED BY <3>1, <3>2, <4>2, <4>3, <1>1, KnowsNextTurn
    <3> QED BY <3>3, <3>4
  <2> QED BY <2>1, <2>2
<1>7. OwnTickets'
  BY SMTT(30), <1>2 DEF Core, OwnTickets, Pushing, Popping, OthersSame
<1>8. Rounds'
  <2> SUFFICES ASSUME NEW j \in 0..MaxTicket
               PROVE  /\ turn'[Slot(j)] > 2 * Turn(j) => j < pushTicket
                      /\ turn'[Slot(j)] > 2 * Turn(j) + 1 => j < popTicket
                      /\ turn'[Slot(j)] = 2 * Turn(j) + 1 =>
                           \/ contents[Slot(j)] = written[j + 1]
                           \/ \E u \in Threads : pc'[u] = "dequeued" /\ ticket'[u] = j
    BY <1>1 DEF Rounds
  <2>1. j \in Nat /\ Slot(j) \in Slots /\ Turn(j) \in Nat /\ k \in Nat
    BY SlotTurn, MPMCQueueAssumption, <1>0
  <2>2. /\ turn[Slot(j)] > 2 * Turn(j) => j < pushTicket
        /\ turn[Slot(j)] > 2 * Turn(j) + 1 => j < popTicket
        /\ turn[Slot(j)] = 2 * Turn(j) + 1 =>
             \/ contents[Slot(j)] = written[j + 1]
             \/ \E u \in Threads : pc[u] = "dequeued" /\ ticket[u] = j
    BY DEF Core, Rounds
  <2>3. CASE Slot(j) # s
    <3>1. turn'[Slot(j)] = turn[Slot(j)]
      BY <2>1, <2>3, <1>3
    <3>2. \A u \in Threads : pc[u] = "dequeued" => pc'[u] = pc[u] /\ ticket'[u] = ticket[u]
      BY <1>1, <1>2 DEF OthersSame
    <3> QED BY <2>2, <3>1, <3>2
  <2>4. CASE Slot(j) = s /\ Turn(j) = Turn(k)
    <3>1. j = k
      BY <2>1, <2>4, OneTicket
    <3> QED BY <3>1, <1>0, <1>3, <1>4
  <2>5. CASE Slot(j) = s /\ Turn(j) # Turn(k)
    BY <2>1, <2>2, <2>5, <1>0, <1>3, <1>4
  <2> QED BY <2>3, <2>4, <2>5
<1>9. DestructorIsRight'
  <2> SUFFICES ASSUME NEW r \in Slots
               PROVE  \/ \E u \in Threads : pc'[u] \in {"enqueued", "dequeued"} /\ Slot(ticket'[u]) = r
                      \/ contents[r] # NoData <=> turn'[r] % 2 = 1
    BY SMTT(30), <1>1 DEF DestructorIsRight
  <2>1. CASE r = s
    <3>1. (2 * Turn(k) + 1) % 2 = 1
      BY SMTT(30), <1>0
    <3> QED BY <2>1, <3>1, <1>3, <1>4
  <2>2. CASE r # s
    <3>1. \/ \E u \in Threads : pc[u] \in {"enqueued", "dequeued"} /\ Slot(ticket[u]) = r
          \/ contents[r] # NoData <=> turn[r] % 2 = 1
      BY DEF Core, DestructorIsRight
    <3> QED BY <2>2, <3>1, <1>2, <1>3 DEF OthersSame
  <2> QED BY <2>1, <2>2
<1> QED BY <1>5, <1>6, <1>7, <1>8, <1>9 DEF Core

\* The reader whose turn it is moves out the element of its ticket.
LEMMA DequeueElement ==
  ASSUME Core, ThreadType, NEW t \in Threads, Dequeue(t)
  PROVE  ticket[t] < pushTicket /\ contents[Slot(ticket[t])] = written[ticket[t] + 1]
<1> DEFINE k == ticket[t]
<1>0. k \in 0..MaxTicket /\ Slot(k) \in Slots /\ Turn(k) \in Nat /\ turn[Slot(k)] \in Nat
  BY SlotTypes
<1>1. pc[t] = "dequeue" /\ turn[Slot(k)] = 2 * Turn(k) + 1
  BY DEF Dequeue, mayDequeue
<1>2. k < pushTicket
  BY SMTT(30), <1>0, <1>1 DEF Core, Rounds
<1>3. \A u \in Threads : pc[u] = "dequeued" => ticket[u] # k
  BY SMTT(30), <1>1 DEF Core, OwnTickets, Popping
<1> QED BY <1>0, <1>1, <1>2, <1>3 DEF Core, Rounds

\* It leaves the slot empty, on the same turn.
LEMMA DequeueStep ==
  ASSUME Core, ThreadType, ThreadType', NEW t \in Threads, Dequeue(t)
  PROVE  Core'
<1> DEFINE k == ticket[t]
           s == Slot(k)
<1>0. k \in 0..MaxTicket /\ s \in Slots /\ Turn(k) \in Nat /\ turn[s] \in Nat
  BY SlotTypes
<1>1. /\ pc[t] = "dequeue" /\ turn[s] = 2 * Turn(k) + 1
      /\ contents' = [contents EXCEPT ![s] = NoData]
      /\ pc' = [pc EXCEPT ![t] = "dequeued"]
      /\ UNCHANGED <<pushTicket, popTicket, turn, written, op, ticket>>
  BY DEF Dequeue, mayDequeue, Goto
<1>2. /\ contents \in [Slots -> Data \cup {NoData}] /\ contents'[s] = NoData
      /\ \A r \in Slots \ {s} : contents'[r] = contents[r]
  BY <1>0, <1>1 DEF Core, QueueType
<1>3. pc'[t] = "dequeued" /\ \A u \in Threads \ {t} : pc'[u] = pc[u] /\ elem'[u] = elem[u]
  BY <1>1 DEF ThreadType, Dequeue
<1>4. QueueType'
  BY SMTT(30), <1>0, <1>1 DEF Core, QueueType
<1>5. ASSUME NEW u \in Threads PROVE Knows(u)'
  <2>1. CASE u = t
    BY SMTT(30), <2>1, <1>0, <1>1, <1>2, <1>3 DEF Core, Knows, Pushing, Popping, Writing
  <2>2. CASE u # t
    <3>1. /\ Knows(u) /\ pc'[u] = pc[u] /\ elem'[u] = elem[u] /\ Slot(ticket[u]) \in Slots
          /\ Turn(ticket[u]) \in Nat
      BY SMTT(30), <2>2, <1>3, SlotTypes DEF Core
    <3>2. pc[u] \in {"enqueued", "dequeued"} => Slot(ticket[u]) # s
      <4> SUFFICES ASSUME pc[u] \in {"enqueued", "dequeued"}, Slot(ticket[u]) = s PROVE FALSE
        OBVIOUS
      <4>1. CASE pc[u] = "dequeued"
        <5>1. Turn(ticket[u]) = Turn(k)
          BY SMTT(30), <4>1, <3>1, <1>0, <1>1 DEF Knows
        <5> QED BY SMTT(30), <4>1, <5>1, <2>2, <1>1, Alone
      <4>2. CASE pc[u] = "enqueued"
        BY SMTT(30), <4>2, <3>1, <1>0, <1>1 DEF Knows
      <4> QED BY <4>1, <4>2
    <3> QED BY ZenonT(30), <3>1, <3>2, <1>1, <1>2 DEF Knows, Pushing, Popping
  <2> QED BY <2>1, <2>2
<1>6. OwnTickets'
  BY SMTT(30), <1>1, <1>3 DEF Core, OwnTickets, Pushing, Popping
<1>7. Rounds'
  <2> SUFFICES ASSUME NEW j \in 0..MaxTicket, turn[Slot(j)] = 2 * Turn(j) + 1
               PROVE  \/ contents'[Slot(j)] = written[j + 1]
                      \/ \E u \in Threads : pc'[u] = "dequeued" /\ ticket[u] = j
    BY <1>1 DEF Core, Rounds
  <2>1. j \in Nat /\ k \in Nat /\ Slot(j) \in Slots /\ Turn(j) \in Nat
    BY SlotTurn, MPMCQueueAssumption, <1>0
  <2>2. CASE Slot(j) = s
    <3>1. Turn(j) = Turn(k)
      BY <2>1, <2>2, <1>0, <1>1
    <3>2. j = k
      BY SMTT(30), <2>1, <2>2, <3>1, OneTicket
    <3> QED BY <3>2, <1>3
  <2>3. CASE Slot(j) # s
    <3>1. \/ contents[Slot(j)] = written[j + 1]
          \/ \E u \in Threads : pc[u] = "dequeued" /\ ticket[u] = j
      BY DEF Core, Rounds
    <3> QED BY <2>1, <2>3, <3>1, <1>1, <1>2, <1>3
  <2> QED BY <2>2, <2>3
<1>8. DestructorIsRight'
  <2> SUFFICES ASSUME NEW r \in Slots
               PROVE  \/ \E u \in Threads : pc'[u] \in {"enqueued", "dequeued"} /\ Slot(ticket[u]) = r
                      \/ contents'[r] # NoData <=> turn[r] % 2 = 1
    BY <1>1 DEF DestructorIsRight
  <2>1. CASE r = s
    BY <2>1, <1>3
  <2>2. CASE r # s
    <3>1. \/ \E u \in Threads : pc[u] \in {"enqueued", "dequeued"} /\ Slot(ticket[u]) = r
          \/ contents[r] # NoData <=> turn[r] % 2 = 1
      BY DEF Core, DestructorIsRight
    <3> QED BY SMTT(30), <2>2, <3>1, <1>1, <1>2, <1>3
  <2> QED BY <2>1, <2>2
<1> QED BY <1>4, <1>5, <1>6, <1>7, <1>8 DEF Core

\* The reader completes its turn: the slot is the writer's of the next round.
LEMMA CompleteDequeueStep ==
  ASSUME Core, ThreadType, ThreadType', NEW t \in Threads, CompleteDequeue(t)
  PROVE  Core'
<1> DEFINE k == ticket[t]
           s == Slot(k)
<1>0. k \in 0..MaxTicket /\ s \in Slots /\ Turn(k) \in Nat /\ turn[s] \in Nat
  BY SlotTypes
<1>1. /\ pc[t] = "dequeued"
      /\ turn' = [turn EXCEPT ![s] = 2 * Turn(k) + 2]
      /\ UNCHANGED <<pushTicket, popTicket, contents, written>>
  BY SMTT(30) DEF CompleteDequeue
<1>2. OthersSame(t) /\ pc'[t] = "idle"
  BY DEF CompleteDequeue, End, Goto, ThreadType, OthersSame
<1>3. /\ turn \in [Slots -> Nat] /\ turn'[s] = 2 * Turn(k) + 2
      /\ \A r \in Slots \ {s} : turn'[r] = turn[r]
  BY SMTT(30), <1>0, <1>1 DEF Core, QueueType
<1>4. turn[s] = 2 * Turn(k) + 1 /\ k < popTicket /\ contents[s] = NoData
  BY <1>1 DEF Core, Knows, Popping
<1>5. QueueType'
  BY SMTT(30), <1>0, <1>1 DEF Core, QueueType
<1>6. ASSUME NEW u \in Threads PROVE Knows(u)'
  <2>1. CASE u = t
    BY <2>1, <1>2 DEF Knows, Pushing, Popping, Writing
  <2>2. CASE u # t
    <3>1. /\ Knows(u) /\ Slot(ticket[u]) \in Slots
          /\ Turn(ticket[u]) \in Nat /\ ticket[u] \in Nat
      BY SlotTypes DEF Core
    <3>2. pc'[u] = pc[u] /\ op'[u] = op[u] /\ ticket'[u] = ticket[u] /\ elem'[u] = elem[u]
      BY <2>2, <1>2 DEF OthersSame
    <3>3. CASE Slot(ticket[u]) # s
      BY SMTT(30), <3>1, <3>2, <3>3, <1>1, <1>3 DEF Knows, Pushing, Popping
    <3>4. CASE Slot(ticket[u]) = s
      <4>1. Popping(u) => Turn(ticket[u]) # Turn(k)
        BY SMTT(30), <3>4, <2>2, <1>1, Alone DEF Popping
      <4>2. /\ turn[Slot(ticket[u])] = 2 * Turn(k) + 1
            /\ turn'[Slot(ticket[u])] = (2 * Turn(k) + 1) + 1
        BY <3>4, <1>0, <1>3, <1>4
      <4>3. /\ Popping(u) => 2 * Turn(k) + 1 # 2 * Turn(ticket[u]) + 1
            /\ 2 * Turn(k) + 1 # 2 * Turn(ticket[u])
            /\ 2 * Turn(k) + 1 \in Nat
        BY <4>1, <3>1, <1>0
      <4> QED BY ZenonT(30), <3>1, <3>2, <4>2, <4>3, <1>1, KnowsNextTurn
    <3> QED BY <3>3, <3>4
  <2> QED BY <2>1, <2>2
<1>7. OwnTickets'
  BY <1>2 DEF Core, OwnTickets, Pushing, Popping, OthersSame
<1>8. Rounds'
  <2> SUFFICES ASSUME NEW j \in 0..MaxTicket
               PROVE  /\ turn'[Slot(j)] > 2 * Turn(j) => j < pushTicket
                      /\ turn'[Slot(j)] > 2 * Turn(j) + 1 => j < popTicket
                      /\ turn'[Slot(j)] = 2 * Turn(j) + 1 =>
                           \/ contents[Slot(j)] = written[j + 1]
                           \/ \E u \in Threads : pc'[u] = "dequeued" /\ ticket'[u] = j
    BY <1>1 DEF Rounds
  <2>1. j \in Nat /\ Slot(j) \in Slots /\ Turn(j) \in Nat /\ k \in Nat
    BY SlotTurn, MPMCQueueAssumption, <1>0
  <2>2. /\ turn[Slot(j)] > 2 * Turn(j) => j < pushTicket
        /\ turn[Slot(j)] > 2 * Turn(j) + 1 => j < popTicket
        /\ turn[Slot(j)] = 2 * Turn(j) + 1 =>
             \/ contents[Slot(j)] = written[j + 1]
             \/ \E u \in Threads : pc[u] = "dequeued" /\ ticket[u] = j
    BY DEF Core, Rounds
  <2>3. CASE Slot(j) # s
    <3>1. turn'[Slot(j)] = turn[Slot(j)]
      BY <2>1, <2>3, <1>3
    <3>2. \A u \in Threads : ticket[u] = j /\ pc[u] = "dequeued" => pc'[u] = pc[u] /\ ticket'[u] = ticket[u]
      BY <2>3, <1>2 DEF OthersSame
    <3> QED BY <2>2, <3>1, <3>2
  <2>4. CASE Slot(j) = s /\ Turn(j) = Turn(k)
    <3>1. j = k
      BY <2>1, <2>4, OneTicket
    <3> QED BY SMTT(30), <2>2, <3>1, <1>0, <1>3, <1>4
  <2>5. CASE Slot(j) = s /\ Turn(j) # Turn(k)
    BY SMTT(30), <2>1, <2>2, <2>5, <1>0, <1>3, <1>4
  <2> QED BY <2>3, <2>4, <2>5
<1>9. DestructorIsRight'
  <2> SUFFICES ASSUME NEW r \in Slots
               PROVE  \/ \E u \in Threads : pc'[u] \in {"enqueued", "dequeued"} /\ Slot(ticket'[u]) = r
                      \/ contents[r] # NoData <=> turn'[r] % 2 = 1
    BY <1>1 DEF DestructorIsRight
  <2>1. CASE r = s
    <3>1. (2 * Turn(k) + 2) % 2 = 0
      BY SMTT(30), <1>0
    <3> QED BY <2>1, <3>1, <1>3, <1>4
  <2>2. CASE r # s
    <3>1. \/ \E u \in Threads : pc[u] \in {"enqueued", "dequeued"} /\ Slot(ticket[u]) = r
          \/ contents[r] # NoData <=> turn[r] % 2 = 1
      BY DEF Core, DestructorIsRight
    <3> QED BY <2>2, <3>1, <1>2, <1>3 DEF OthersSame
  <2> QED BY <2>1, <2>2
<1> QED BY <1>5, <1>6, <1>7, <1>8, <1>9 DEF Core
=============================================================================
