-------------------------- MODULE TurnSequencerSteps --------------------------
(***************************************************************************)
(* The inductive invariant of TurnSequencer, and that every step keeps it. *)
(***************************************************************************)
EXTENDS TurnSequencer, Remainders, FiniteSetTheorems, TLAPS

\* A blocking caller, from its call until its turn is completed.
Active(t) == ~timed[t] /\ pc[t] \notin {"idle", "wake"}

\* The word is about the current turn, and even and odd turns are handed out
\* in order.
Clock ==
  /\ word.turn = completed % Modulus
  /\ \A k \in 0..1 : given[k] % 2 = k /\ given[k] >= completed

\* Every turn that was handed out and is not completed has one caller.
Owners ==
  /\ \A t \in Threads : Active(t) => want[t] >= completed /\ \E k \in 0..1 : want[t] % 2 = k /\ want[t] < given[k]
  /\ \A t, u \in Threads : Active(t) /\ Active(u) /\ want[t] = want[u] => t = u
  /\ \A k \in 0..1 : \A n \in completed..MaxTurn :
       n % 2 = k /\ n < given[k] => \E t \in Threads : Active(t) /\ want[t] = n

\* Who has the turn.
Turned ==
  \A t \in Threads :
    /\ pc[t] \in {"turn", "complete"} => ~timed[t] /\ want[t] = completed
    /\ pc[t] # "past"

\* What a thread on its way to sleep knows of the word it saw.
Recorded ==
  \A t \in Threads :
    /\ \E k \in 0..1 : want[t] <= given[k]
    /\ pc[t] \in {"record", "futex"} => Ahead(want[t], seen[t]) # 0
    /\ pc[t] = "futex" => Ahead(want[t], seen[t]) <= seen[t].delta \/ seen[t].delta = kWaitersMask

IInv == TypeOK /\ Clock /\ Owners /\ Turned /\ Recorded /\ SleepersRecorded
-----------------------------------------------------------------------------

(* Arithmetic of the word *)

LEMMA Constants ==
  /\ Modulus \in Nat \ {0} /\ kWaitersMask \in Nat /\ Channels \in Nat \ {0}
  /\ MaxTurn \in Nat /\ firstTurn \in 0..MaxTurn /\ firstTurn % 2 = 0
  /\ Channels <= kWaitersMask
  BY TurnSequencerAssumption

LEMMA ThreadCount == Cardinality(Threads) \in Nat
  BY FewThreads, FS_CardinalityType

\* encode() makes a word, of the turn it is given.
LEMMA EncodeWord ==
  ASSUME NEW n \in Nat, NEW d \in Nat
  PROVE  /\ Encode(n, d) \in Word
         /\ Encode(n, d).turn = n % Modulus
         /\ Encode(n, d).delta = IF d > kWaitersMask THEN kWaitersMask ELSE d
<1>1. n % Modulus \in 0..Modulus-1
  BY Constants, RemainderType
<1>2. (IF d > kWaitersMask THEN kWaitersMask ELSE d) \in 0..kWaitersMask
  BY Constants
<1> QED BY <1>1, <1>2 DEF Encode, Word

\* A word that is changed by recording a waiter keeps its turn.
LEMMA EncodeSame ==
  ASSUME NEW w \in Word, NEW d \in Nat
  PROVE  Encode(w.turn, d).turn = w.turn
<1>1. w.turn \in 0..Modulus-1 /\ w.turn \in Nat
  BY Constants DEF Word
<1>2. w.turn % Modulus = w.turn
  BY Zenon, <1>1, Constants, Remainder
<1> QED BY <1>1, <1>2, EncodeWord

LEMMA AheadType ==
  ASSUME NEW n \in Nat, NEW w \in Word
  PROVE  Ahead(n, w) \in 0..Modulus-1
<1>1. n - w.turn \in Int
  BY Constants DEF Word
<1> QED BY <1>1, Constants, RemainderType DEF Ahead

\* The distance of a turn that is not too far ahead is read off the word.
LEMMA AheadOfWord ==
  ASSUME TypeOK, Clock, NEW n \in completed..completed+Modulus-1
  PROVE  Ahead(n, word) = n - completed
<1>1. completed \in Nat
  BY Constants DEF TypeOK
<1>2. (n - (completed % Modulus)) % Modulus = n - completed
  BY Zenon, <1>1, Constants, Distance
<1> QED BY <1>2 DEF Ahead, Clock

\* The turns handed out and not completed are no more than the threads, on
\* either side, since each has a caller of its own.
LEMMA Window ==
  ASSUME TypeOK, Clock, Owners, NEW k \in 0..1
  PROVE  given[k] <= completed + 2 * Cardinality(Threads) + 1
<1> DEFINE N == Cardinality(Threads)
           g == given[k]
           f == [i \in 1..N+1 |-> CHOOSE t \in Threads : Active(t) /\ want[t] = g - 2 * i]
<1>0. N \in Nat
  BY ThreadCount
<1>1. g \in Nat /\ g <= MaxTurn + 1 /\ g % 2 = k /\ completed \in Nat /\ MaxTurn \in Nat
  BY Constants DEF TypeOK, Clock
<1> HIDE DEF N
<1> SUFFICES ASSUME g >= completed + 2 * N + 2 PROVE FALSE
  BY <1>0, <1>1 DEF N
<1>2. ASSUME NEW i \in 1..N+1
      PROVE  f[i] \in Threads /\ want[f[i]] = g - 2 * i
  <2> DEFINE n == g - 2 * i
  <2>1. n \in completed..MaxTurn /\ n % 2 = k /\ n < given[k]
    BY <1>0, <1>1
  <2> HIDE DEF n
  <2>2. \E t \in Threads : Active(t) /\ want[t] = n
    BY <2>1 DEF Owners
  <2> QED BY <2>2 DEF n
<1>3. f \in [1..N+1 -> Threads]
  BY Zenon, <1>2
<1> HIDE DEF f
<1>4. IsFiniteSet(1..N+1) /\ Cardinality(1..N+1) = N + 1
  <2>1. 1 \in Int /\ N + 1 \in Int /\ ~(1 > N + 1) /\ (N + 1) - 1 + 1 = N + 1
    BY <1>0
  <2> QED BY <2>1, FS_Interval
<1>5. Cardinality(Threads) < Cardinality(1..N+1)
  BY <1>0, <1>4 DEF N
<1>6. PICK i, j \in 1..N+1 : i # j /\ f[i] = f[j]
  BY Zenon, <1>3, <1>4, <1>5, FewThreads, FS_PigeonHole
<1>7. g - 2 * i = g - 2 * j
  BY <1>2, <1>6
<1> QED BY <1>0, <1>1, <1>6, <1>7

\* A turn somebody waits for is less than half of the turns ahead, and one
\* that anybody asks about is not a full round ahead.
LEMMA InReach ==
  ASSUME TypeOK, Clock, Owners, NEW t \in Threads
  PROVE  /\ Active(t) => want[t] \in completed..completed + (Modulus \div 2) - 1
         /\ \A k \in 0..1 : given[k] <= completed + Modulus - 1
         /\ Modulus \div 2 \in Nat /\ Modulus \div 2 <= Modulus
<1> DEFINE N == Cardinality(Threads)
           h == Modulus \div 2
<1>1. N \in Nat /\ N # 0
  BY FewThreads, ThreadCount, FS_EmptySet
<1>2. 4 * N <= Modulus
  BY FewThreads
<1>3. \A k \in 0..1 : given[k] <= completed + 2 * N + 1
  BY Window
<1> HIDE DEF N
<1>4. h \in Nat /\ 2 * N <= h /\ h <= Modulus
  BY <1>1, <1>2, Constants
<1>5. \A k \in 0..1 : given[k] <= completed + Modulus - 1
  BY <1>1, <1>2, <1>3, Constants DEF TypeOK
<1>6. ASSUME Active(t) PROVE want[t] \in completed..completed + h - 1
  <2>1. PICK k \in 0..1 : want[t] % 2 = k /\ want[t] < given[k]
    BY <1>6 DEF Owners
  <2>2. want[t] \in Nat /\ given[k] \in Nat /\ completed \in Nat /\ given[k] % 2 = k /\ want[t] >= completed
    BY <1>6, Constants DEF Owners, TypeOK, Clock
  <2>3. want[t] + 2 <= given[k]
    BY <2>1, <2>2
  <2> HIDE DEF h
  <2> QED BY <1>3, <1>4, <2>2, <2>3, <1>1
<1> QED BY <1>4, <1>5, <1>6
-----------------------------------------------------------------------------
(* The steps *)

LEMMA InitIInv == Init => IInv
<1> SUFFICES ASSUME Init PROVE IInv
  OBVIOUS
<1>1. word \in Word /\ word.turn = completed % Modulus
  BY SMTT(30), EncodeWord, Constants DEF Init
<1>2. Zero \in Word
  BY EncodeWord DEF Zero
<1>3. TypeOK
  BY <1>1, <1>2, Constants DEF Init, TypeOK
<1>4. Clock
  BY <1>1, Constants DEF Init, Clock
<1>5. Owners
  <2>1. ASSUME NEW k \in 0..1, NEW n \in completed..MaxTurn, n % 2 = k, n < given[k] PROVE FALSE
    BY <2>1, Constants DEF Init
  <2> QED BY <2>1 DEF Owners, Init, Active
<1>6. Turned
  BY DEF Init, Turned
<1>7. Recorded
  BY Constants DEF Init, Recorded
<1>8. SleepersRecorded
  BY DEF Init, SleepersRecorded
<1> QED BY <1>3, <1>4, <1>5, <1>6, <1>7, <1>8 DEF IInv

LEMMA ReturnType ==
  ASSUME TypeOK, NEW t \in Threads, Return(t), word' \in Word, UNCHANGED given,
         completed' \in firstTurn..MaxTurn
  PROVE  TypeOK'
<1>1. Zero \in Word
  BY EncodeWord DEF Zero
<1>2. pc' \in [Threads -> {"idle", "load", "record", "futex", "sleep", "turn", "past", "complete", "wake"}]
  BY DEF Return, Goto, TypeOK
<1>3. want' \in [Threads -> 0..MaxTurn] /\ seen' \in [Threads -> Word]
  BY <1>1, Constants DEF Return, TypeOK
<1>4. timed' \in [Threads -> BOOLEAN]
  BY DEF Return, TypeOK
<1> QED BY <1>2, <1>3, <1>4 DEF TypeOK

\* Steps that hand out and complete no turn.
LEMMA Quiet ==
  ASSUME Clock, Owners, UNCHANGED <<completed, given>>, word'.turn = word.turn,
         \A u \in Threads : (Active(u)' <=> Active(u)) /\ (Active(u) => want'[u] = want[u])
  PROVE  Clock' /\ Owners'
<1>1. Clock'
  BY DEF Clock
<1>2. \A t \in Threads : Active(t)' =>
        want'[t] >= completed' /\ \E k \in 0..1 : want'[t] % 2 = k /\ want'[t] < given'[k]
  BY DEF Owners
<1>3. \A t, u \in Threads : Active(t)' /\ Active(u)' /\ want'[t] = want'[u] => t = u
  BY DEF Owners
<1>4. ASSUME NEW k \in 0..1, NEW n \in completed'..MaxTurn, n % 2 = k, n < given'[k]
      PROVE  \E t \in Threads : Active(t)' /\ want'[t] = n
  <2>1. PICK t \in Threads : Active(t) /\ want[t] = n
    BY <1>4 DEF Owners
  <2> QED BY <2>1
<1> QED BY <1>1, <1>2, <1>3, <1>4 DEF Owners

\* Steps that put nobody to sleep, wake nobody and record no less.
LEMMA StillRecorded ==
  ASSUME TypeOK, TypeOK', SleepersRecorded, UNCHANGED completed, word'.delta >= word.delta,
         \A u \in Threads : pc'[u] = "sleep" => pc[u] = "sleep" /\ want'[u] = want[u],
         \A u \in Threads : pc[u] = "wake" => pc'[u] = "wake" /\ want'[u] = want[u]
  PROVE  SleepersRecorded'
<1> SUFFICES ASSUME NEW t \in Threads, pc'[t] = "sleep", want'[t] >= completed'
             PROVE  \/ \E v \in completed' + 1 .. want'[t] :
                         Channel(v) = Channel(want'[t]) /\ v - completed' <= word'.delta
                    \/ \E u \in Threads : pc'[u] = "wake" /\ Channel(want'[u] + 1) = Channel(want'[t])
  BY DEF SleepersRecorded, Channel
<1>1. pc[t] = "sleep" /\ want'[t] = want[t] /\ want[t] >= completed
  OBVIOUS
<1>2. CASE \E v \in completed + 1 .. want[t] : Channel(v) = Channel(want[t]) /\ v - completed <= word.delta
  <2>1. PICK v \in completed + 1 .. want[t] : Channel(v) = Channel(want[t]) /\ v - completed <= word.delta
    BY <1>2
  <2>2. v - completed <= word'.delta
    BY <2>1, Constants DEF TypeOK, Word
  <2> QED BY <1>1, <2>1, <2>2
<1>3. CASE \E u \in Threads : pc[u] = "wake" /\ Channel(want[u] + 1) = Channel(want[t])
  BY <1>1, <1>3
<1> QED BY <1>1, <1>2, <1>3 DEF SleepersRecorded

\* Handing out a turn makes the caller its owner.
LEMMA AskIInv ==
  ASSUME IInv, NEW t \in Threads, NEW k \in 0..1, waitForTurn(t, k)
  PROVE  IInv'
<1> USE DEF IInv
<1>1. TypeOK'
  BY Constants DEF waitForTurn, Goto, TypeOK
<1>2. /\ completed \in Nat /\ given[k] \in Nat /\ given[k] < MaxTurn /\ given'[k] = given[k] + 2
      /\ \A j \in 0..1 : j # k => given'[j] = given[j]
      /\ want' = [want EXCEPT ![t] = given[k]] /\ UNCHANGED <<completed, word, seen>>
      /\ given[k] % 2 = k /\ given[k] >= completed /\ \A j \in 0..1 : given[j] \in Nat
      /\ \A u \in Threads : want[u] \in Nat
  BY Constants DEF waitForTurn, Goto, TypeOK, Clock
<1>3. /\ ~Active(t) /\ Active(t)' /\ want'[t] = given[k]
      /\ \A u \in Threads \ {t} : (Active(u)' <=> Active(u)) /\ want'[u] = want[u] /\ pc'[u] = pc[u] /\ timed'[u] = timed[u]
  BY DEF waitForTurn, Goto, TypeOK, Active
<1>4. Clock'
  BY <1>2 DEF Clock
<1>5. \A u \in Threads : Active(u)' =>
        want'[u] >= completed' /\ \E j \in 0..1 : want'[u] % 2 = j /\ want'[u] < given'[j]
  <2> SUFFICES ASSUME NEW u \in Threads, Active(u)'
               PROVE  want'[u] >= completed' /\ \E j \in 0..1 : want'[u] % 2 = j /\ want'[u] < given'[j]
    OBVIOUS
  <2>1. CASE u = t
    BY <1>2, <1>3, <2>1
  <2>2. CASE u # t
    <3>1. PICK j \in 0..1 : want[u] % 2 = j /\ want[u] < given[j] /\ want[u] >= completed
      BY <1>3, <2>2 DEF Owners
    <3>2. want[u] < given'[j]
      BY <1>2, <3>1
    <3> QED BY SMTT(30), <1>2, <1>3, <2>2, <3>1, <3>2
  <2> QED BY <2>1, <2>2
<1>6. \A u, v \in Threads : Active(u)' /\ Active(v)' /\ want'[u] = want'[v] => u = v
  <2>1. ASSUME NEW u \in Threads \ {t}, Active(u) PROVE want[u] # given[k]
    BY <1>2, <2>1 DEF Owners
  <2> QED BY <1>3, <2>1 DEF Owners
<1>7. ASSUME NEW j \in 0..1, NEW n \in completed'..MaxTurn, n % 2 = j, n < given'[j]
      PROVE  \E u \in Threads : Active(u)' /\ want'[u] = n
  <2>1. CASE n = given[k]
    BY <1>3, <2>1
  <2>2. CASE n # given[k]
    <3>1. n < given[j] /\ n \in completed..MaxTurn
      BY <1>2, <1>7, <2>2
    <3>2. PICK u \in Threads : Active(u) /\ want[u] = n
      BY <1>7, <3>1 DEF Owners
    <3> QED BY <1>3, <3>2
  <2> QED BY <2>1, <2>2
<1>8. Turned'
  BY <1>3 DEF Turned, waitForTurn, Goto, TypeOK
<1>9. Recorded'
  <2>1. \A u \in Threads : \E j \in 0..1 : want'[u] <= given'[j]
    BY <1>2, <1>3 DEF Recorded
  <2>2. \A u \in Threads : pc'[u] \in {"record", "futex"} => u # t
    BY DEF waitForTurn, Goto, TypeOK
  <2> QED BY SMTT(30), <1>2, <1>3, <2>1, <2>2 DEF Recorded, Ahead
<1>10. SleepersRecorded'
  <2>1. word'.delta >= word.delta
    BY <1>2, Constants DEF TypeOK, Word
  <2>2. \A u \in Threads : pc'[u] = "sleep" => pc[u] = "sleep" /\ want'[u] = want[u]
    BY DEF waitForTurn, Goto, TypeOK
  <2>3. \A u \in Threads : pc[u] = "wake" => pc'[u] = "wake" /\ want'[u] = want[u]
    BY DEF waitForTurn, Goto, TypeOK
  <2> QED BY SMTT(30), <1>1, <1>2, <2>1, <2>2, <2>3, StillRecorded
<1> QED BY SMTT(30), <1>1, <1>4, <1>5, <1>6, <1>7, <1>8, <1>9, <1>10 DEF Owners

\* Asking about a turn with a deadline makes nobody its owner.
LEMMA TryIInv ==
  ASSUME IInv, NEW t \in Threads, NEW k \in 0..1,
         tryWaitForTurn(t, given[k]) \/ tryWaitForTurn(t, given[k] - 2)
  PROVE  IInv'
<1> USE DEF IInv
<1>1. PICK n \in {given[k], given[k] - 2} : tryWaitForTurn(t, n)
  OBVIOUS
<1>2. n \in 0..MaxTurn /\ n <= given[k]
  BY <1>1, Constants DEF TypeOK, tryWaitForTurn
<1>3. TypeOK'
  BY <1>1, <1>2 DEF tryWaitForTurn, Goto, TypeOK
<1>4. UNCHANGED <<word, completed, given, seen>>
  BY <1>1 DEF tryWaitForTurn
<1>5. /\ ~Active(t) /\ ~Active(t)' /\ pc'[t] = "load" /\ pc[t] = "idle" /\ want'[t] = n
      /\ \A u \in Threads \ {t} : want'[u] = want[u] /\ pc'[u] = pc[u] /\ timed'[u] = timed[u]
  BY <1>1 DEF tryWaitForTurn, Goto, TypeOK, Active
<1>6. Clock' /\ Owners'
  <2>1. \A u \in Threads : (Active(u)' <=> Active(u)) /\ (Active(u) => want'[u] = want[u])
    BY <1>5 DEF Active
  <2> QED BY <1>4, <2>1, Quiet
<1>7. Turned'
  BY <1>4, <1>5 DEF Turned
<1>8. Recorded'
  BY <1>2, <1>4, <1>5 DEF Recorded, Ahead
<1>9. SleepersRecorded'
  <2>1. word'.delta >= word.delta
    BY <1>4, Constants DEF TypeOK, Word
  <2> QED BY SMTT(30), <1>3, <1>4, <1>5, <2>1, StillRecorded
<1> QED BY <1>3, <1>6, <1>7, <1>8, <1>9

\* The loop of tryWaitForTurn(): who finds its turn current owns it, and nobody
\* who was handed a turn finds it in the past.
LEMMA LoadIInv ==
  ASSUME IInv, NEW t \in Threads, Load(t)
  PROVE  IInv'
<1> USE DEF IInv
<1>1. /\ pc[t] = "load" /\ UNCHANGED <<word, completed, given>>
      /\ \A u \in Threads \ {t} : want'[u] = want[u] /\ pc'[u] = pc[u] /\ timed'[u] = timed[u] /\ seen'[u] = seen[u]
  BY DEF Load, Return, Goto, TypeOK
<1>2. TypeOK'
  <2>1. CASE Return(t)
    BY <1>1, <2>1, ReturnType DEF TypeOK
  <2>2. CASE UNCHANGED <<want, timed>> /\ seen' \in [Threads -> Word] /\ \E l \in {"turn", "past", "record"} : Goto(t, l)
    BY <1>1, <2>2 DEF Goto, TypeOK
  <2> QED BY <2>1, <2>2 DEF Load, TypeOK
<1>3. ~timed[t] => Ahead(want[t], word) = want[t] - completed /\ Ahead(want[t], word) < Modulus \div 2
  <2> SUFFICES ASSUME ~timed[t]
               PROVE  Ahead(want[t], word) = want[t] - completed /\ Ahead(want[t], word) < Modulus \div 2
    OBVIOUS
  <2>1. Active(t)
    BY <1>1 DEF Active
  <2>2. /\ want[t] \in completed..completed + (Modulus \div 2) - 1
        /\ Modulus \div 2 \in Nat /\ Modulus \div 2 <= Modulus
    BY <2>1, InReach
  <2>3. completed \in Nat
    BY Constants DEF TypeOK
  <2> DEFINE h == Modulus \div 2
  <2> HIDE DEF h
  <2>4. want[t] \in completed..completed + h - 1 /\ h \in Nat /\ h <= Modulus
    BY <2>2 DEF h
  <2>5. want[t] \in completed..completed + Modulus - 1 /\ want[t] - completed < h
    BY <2>3, <2>4, Constants
  <2>6. Ahead(want[t], word) = want[t] - completed
    BY <2>5, AheadOfWord
  <2> QED BY <2>5, <2>6 DEF h
<1>4. /\ pc'[t] \in {"turn", "idle", "record"}
      /\ pc'[t] = "turn" => ~timed[t] /\ ~timed'[t] /\ want'[t] = want[t] /\ Ahead(want[t], word) = 0
      /\ pc'[t] = "idle" => timed[t] /\ want'[t] = 0
      /\ pc'[t] = "record" => /\ want'[t] = want[t] /\ timed'[t] = timed[t]
                              /\ seen'[t] = word /\ Ahead(want[t], word) # 0
  <2> DEFINE a == Ahead(want[t], word)
             h == Modulus \div 2
  <2>1. a \in 0..Modulus-1 /\ h \in Nat
    BY SMTT(30), AheadType, InReach DEF TypeOK
  <2>2. ~timed[t] => a < h
    BY <1>3
  <2> HIDE DEF a, h
  <2>3. \/ a = 0 /\ ~timed[t] /\ Goto(t, "turn") /\ UNCHANGED <<want, timed, seen>>
        \/ a >= h /\ ~timed[t]
        \/ timed[t] /\ Return(t)
        \/ a \in 1..h-1 /\ seen' = [seen EXCEPT ![t] = word] /\ Goto(t, "record") /\ UNCHANGED <<want, timed>>
    BY DEF Load, a, h
  <2> QED BY <2>1, <2>2, <2>3 DEF Return, Goto, TypeOK, a
<1>5. Clock' /\ Owners'
  <2>1. \A u \in Threads : (Active(u)' <=> Active(u)) /\ (Active(u) => want'[u] = want[u])
    BY <1>1, <1>4 DEF Active
  <2> QED BY SMTT(30), <1>1, <2>1, Quiet
<1>6. Turned'
  <2>1. pc'[t] = "turn" => want'[t] = completed
    BY SMTT(30), <1>3, <1>4, Constants DEF TypeOK
  <2> QED BY SMTT(30), <1>1, <1>4, <2>1 DEF Turned
<1>7. Recorded'
  <2>1. \E k \in 0..1 : want'[t] <= given[k]
    BY <1>4, Constants DEF Recorded, TypeOK
  <2> QED BY SMTT(30), <1>1, <1>4, <2>1 DEF Recorded, Ahead
<1>8. SleepersRecorded'
  <2>1. word'.delta >= word.delta
    BY SMTT(30), <1>1, Constants DEF TypeOK, Word
  <2> QED BY SMTT(30), <1>1, <1>2, <1>4, <2>1, StillRecorded
<1> QED BY SMTT(30), <1>2, <1>5, <1>6, <1>7, <1>8

\* Recording a waiter: afterwards the word that was seen counts it, or counts
\* as many as it can.
LEMMA RecordIInv ==
  ASSUME IInv, NEW t \in Threads, Record(t)
  PROVE  IInv'
<1> USE DEF IInv
<1> DEFINE a == Ahead(want[t], seen[t])
           new == IF a <= seen[t].delta THEN seen[t] ELSE Encode(seen[t].turn, a)
<1>1. /\ pc[t] = "record" /\ UNCHANGED <<completed, given, want, timed>>
      /\ \A u \in Threads \ {t} : pc'[u] = pc[u] /\ seen'[u] = seen[u]
  BY SMTT(30) DEF Record, Goto, TypeOK
<1>2. a \in Nat /\ a # 0 /\ seen[t] \in Word /\ seen[t].turn \in Nat /\ seen[t].delta \in 0..kWaitersMask
  <2>1. seen[t] \in Word /\ want[t] \in Nat
    BY DEF TypeOK
  <2>2. a \in 0..Modulus-1
    BY SMTT(30), <2>1, AheadType
  <2> QED BY <1>1, <2>1, <2>2, Constants DEF Recorded, Word
<1>3. \/ /\ new = seen[t] \/ word = seen[t]
         /\ word' = IF new = seen[t] THEN word ELSE new
         /\ seen' = [seen EXCEPT ![t] = new]
         /\ pc' = [pc EXCEPT ![t] = "futex"]
      \/ /\ pc' = [pc EXCEPT ![t] = "load"] /\ seen' = [seen EXCEPT ![t] = Zero] /\ UNCHANGED word
  BY DEF Record, Goto
<1> HIDE DEF a
<1>4. /\ new \in Word /\ new.turn = seen[t].turn /\ new.delta >= seen[t].delta
      /\ a <= new.delta \/ new.delta = kWaitersMask
  <2>1. /\ Encode(seen[t].turn, a) \in Word /\ Encode(seen[t].turn, a).turn = seen[t].turn
        /\ Encode(seen[t].turn, a).delta = IF a > kWaitersMask THEN kWaitersMask ELSE a
    BY <1>2, EncodeWord, EncodeSame
  <2> QED BY <1>2, <2>1, Constants
<1> HIDE DEF new
<1>5. /\ word' \in Word /\ word'.turn = word.turn /\ word'.delta >= word.delta
      /\ pc'[t] \in {"futex", "load"}
      /\ pc'[t] = "futex" => seen'[t] = new
  BY SMTT(30), <1>3, <1>4, Constants DEF TypeOK, Word
<1>6. TypeOK'
  <2>1. Zero \in Word
    BY SMTT(30), EncodeWord DEF Zero
  <2> QED BY <1>1, <1>3, <1>4, <1>5, <2>1 DEF TypeOK
<1>7. Clock' /\ Owners'
  <2>1. \A u \in Threads : (Active(u)' <=> Active(u)) /\ (Active(u) => want'[u] = want[u])
    BY <1>1, <1>5 DEF Active
  <2> QED BY SMTT(30), <1>1, <1>5, <2>1, Quiet
<1>8. Turned'
  BY SMTT(30), <1>1, <1>5 DEF Turned
<1>9. Recorded'
  <2>1. pc'[t] = "futex" => Ahead(want'[t], seen'[t]) = a
    BY SMTT(30), <1>1, <1>4, <1>5 DEF Ahead, a
  <2>2. \A u \in Threads \ {t} : Ahead(want'[u], seen'[u]) = Ahead(want[u], seen[u])
    BY SMTT(30), <1>1 DEF Ahead
  <2> QED BY SMTT(30), <1>1, <1>2, <1>4, <1>5, <2>1, <2>2 DEF Recorded
<1>10. SleepersRecorded'
  BY SMTT(30), <1>1, <1>5, <1>6, StillRecorded
<1> QED BY <1>6, <1>7, <1>8, <1>9, <1>10

\* futexWait() puts a thread to sleep only while the word counts it.
LEMMA FutexWaitIInv ==
  ASSUME IInv, NEW t \in Threads, FutexWait(t)
  PROVE  IInv'
<1> USE DEF IInv
<1>1. /\ pc[t] = "futex" /\ UNCHANGED <<word, completed, given, want, timed>>
      /\ \A u \in Threads \ {t} : pc'[u] = pc[u] /\ seen'[u] = seen[u]
      /\ pc'[t] \in {"sleep", "load"} /\ (pc'[t] = "sleep" => word = seen[t])
  BY DEF FutexWait, Goto, TypeOK
<1>2. TypeOK'
  <2>1. Zero \in Word
    BY EncodeWord DEF Zero
  <2> QED BY <1>1, <2>1 DEF FutexWait, Goto, TypeOK
<1>3. Clock' /\ Owners'
  <2>1. \A u \in Threads : (Active(u)' <=> Active(u)) /\ (Active(u) => want'[u] = want[u])
    BY <1>1 DEF Active
  <2> QED BY <1>1, <2>1, Quiet
<1>4. Turned'
  BY <1>1 DEF Turned
<1>5. Recorded'
  BY <1>1 DEF Recorded, Ahead
<1>6. ASSUME pc'[t] = "sleep", want[t] >= completed
      PROVE  \E v \in completed + 1 .. want[t] : Channel(v) = Channel(want[t]) /\ v - completed <= word.delta
  <2>1. completed \in Nat /\ want[t] \in Nat /\ word.delta \in 0..kWaitersMask
    BY Constants DEF TypeOK, Word
  <2>2. want[t] \in completed..completed + Modulus - 1
    <3>1. PICK k \in 0..1 : want[t] <= given[k]
      BY DEF Recorded
    <3>2. given[k] <= completed + Modulus - 1 /\ given[k] \in Nat
      BY InReach, Constants DEF TypeOK
    <3> QED BY SMTT(30), <1>6, <2>1, <3>1, <3>2, Constants
  <2>3. Ahead(want[t], word) = want[t] - completed
    BY <2>2, AheadOfWord
  <2>4. want[t] - completed # 0 /\ (want[t] - completed <= word.delta \/ word.delta = kWaitersMask)
    BY <1>1, <1>6, <2>3 DEF Recorded
  <2>5. CASE want[t] - completed <= word.delta
    BY <1>6, <2>1, <2>4, <2>5
  <2>6. CASE ~(want[t] - completed <= word.delta)
    <3>1. PICK v \in completed + 1..completed + Channels : v % Channels = want[t] % Channels
      BY Zenon, <2>1, Constants, SomeOf
    <3>2. v \in completed + 1..want[t] /\ v - completed <= word.delta
      BY SMTT(30), <2>1, <2>4, <2>6, <3>1, Constants
    <3> QED BY <3>1, <3>2 DEF Channel
  <2> QED BY <2>5, <2>6
<1>7. SleepersRecorded'
  <2> SUFFICES ASSUME NEW u \in Threads, pc'[u] = "sleep", want'[u] >= completed'
               PROVE  \/ \E v \in completed' + 1 .. want'[u] :
                           Channel(v) = Channel(want'[u]) /\ v - completed' <= word'.delta
                      \/ \E w \in Threads : pc'[w] = "wake" /\ Channel(want'[w] + 1) = Channel(want'[u])
    BY SMTT(30) DEF SleepersRecorded, Channel
  <2>1. CASE u = t
    BY SMTT(30), <1>1, <1>6, <2>1
  <2>2. CASE u # t
    <3>1. \/ \E v \in completed + 1 .. want[u] : Channel(v) = Channel(want[u]) /\ v - completed <= word.delta
          \/ \E w \in Threads : pc[w] = "wake" /\ Channel(want[w] + 1) = Channel(want[u])
      BY <1>1, <2>2 DEF SleepersRecorded
    <3>2. \A w \in Threads : pc[w] = "wake" => pc'[w] = "wake" /\ want'[w] = want[w]
      BY <1>1
    <3> QED BY SMTT(30), <1>1, <3>1, <3>2
  <2> QED BY <2>1, <2>2
<1> QED BY <1>2, <1>3, <1>4, <1>5, <1>7

\* A sleeper looks again, or gives up at its deadline; the owner of the turn
\* begins to complete it.
LEMMA LocalIInv ==
  ASSUME IInv, NEW t \in Threads, Interrupted(t) \/ TimedOut(t) \/ CompleteLoad(t)
  PROVE  IInv'
<1> USE DEF IInv
<1>1. /\ UNCHANGED <<word, completed, given>>
      /\ \A u \in Threads \ {t} : want'[u] = want[u] /\ pc'[u] = pc[u] /\ timed'[u] = timed[u] /\ seen'[u] = seen[u]
      /\ pc[t] \in {"sleep", "turn"} /\ pc'[t] \in {"load", "idle", "complete"}
      /\ pc'[t] = "idle" => timed[t] /\ want'[t] = 0
      /\ pc'[t] # "idle" => want'[t] = want[t] /\ timed'[t] = timed[t]
      /\ pc'[t] = "complete" => pc[t] = "turn"
  BY DEF Interrupted, TimedOut, CompleteLoad, Return, Goto, TypeOK
<1>2. TypeOK'
  <2>1. CASE TimedOut(t)
    BY SMTT(30), <1>1, <2>1, ReturnType DEF TypeOK, TimedOut
  <2>2. CASE Interrupted(t) \/ CompleteLoad(t)
    BY SMTT(30), <2>2 DEF Interrupted, CompleteLoad, Goto, TypeOK
  <2> QED BY SMTT(30), <2>1, <2>2
<1>3. Clock' /\ Owners'
  <2>1. \A u \in Threads : (Active(u)' <=> Active(u)) /\ (Active(u) => want'[u] = want[u])
    BY <1>1 DEF Active
  <2> QED BY SMTT(30), <1>1, <2>1, Quiet
<1>4. Turned'
  BY SMTT(30), <1>1 DEF Turned
<1>5. Recorded'
  <2>1. \E k \in 0..1 : want'[t] <= given[k]
    BY <1>1, Constants DEF Recorded, TypeOK
  <2> QED BY SMTT(30), <1>1, <2>1 DEF Recorded, Ahead
<1>6. SleepersRecorded'
  <2>1. word'.delta >= word.delta
    BY SMTT(30), <1>1, Constants DEF TypeOK, Word
  <2> QED BY SMTT(30), <1>1, <1>2, <2>1, StillRecorded
<1> QED BY SMTT(30), <1>2, <1>3, <1>4, <1>5, <1>6

\* Completing a turn: the thread that owns the next one is woken, if it sleeps.
LEMMA CompleteIInv ==
  ASSUME IInv, NEW t \in Threads, pc[t] = "complete", word = seen[t],
         word' = Encode(want[t] + 1, IF seen[t].delta = 0 THEN 0 ELSE seen[t].delta - 1),
         completed' = completed + 1, AfterCas(t), UNCHANGED given
  PROVE  IInv'
<1> USE DEF IInv
<1> DEFINE d == IF word.delta = 0 THEN 0 ELSE word.delta - 1
<1>1. /\ ~timed[t] /\ want[t] = completed /\ Active(t)
      /\ completed \in Nat /\ word.delta \in 0..kWaitersMask /\ completed' = want[t] + 1
      /\ \A u \in Threads : want[u] \in Nat
      /\ \A k \in 0..1 : given[k] \in Nat /\ given[k] <= MaxTurn + 1 /\ given[k] % 2 = k /\ given[k] >= completed
  BY SMTT(30), Constants DEF Turned, Active, TypeOK, Word, Clock
<1>2. d \in 0..kWaitersMask /\ word' \in Word /\ word'.turn = completed' % Modulus /\ word'.delta = d
  <2> DEFINE n == want[t] + 1
  <2>1. d \in Nat /\ d <= kWaitersMask /\ n \in Nat /\ word' = Encode(n, d)
    BY SMTT(30), <1>1, Constants
  <2> HIDE DEF d, n
  <2>2. /\ Encode(n, d) \in Word /\ Encode(n, d).turn = n % Modulus
        /\ Encode(n, d).delta = IF d > kWaitersMask THEN kWaitersMask ELSE d
    BY <2>1, EncodeWord
  <2> QED BY SMTT(30), <1>1, <2>1, <2>2, Constants DEF n
<1> HIDE DEF d
<1>3. /\ \A u \in Threads \ {t} : want'[u] = want[u] /\ pc'[u] = pc[u] /\ timed'[u] = timed[u] /\ seen'[u] = seen[u]
      /\ pc'[t] \in {"idle", "wake"} /\ want'[t] \in {0, want[t]}
      /\ word.delta # 0 => pc'[t] = "wake" /\ want'[t] = want[t]
  BY SMTT(30) DEF AfterCas, Return, Goto, TypeOK
<1>4. ~Active(t)' /\ \A u \in Threads \ {t} : Active(u)' <=> Active(u)
  BY <1>3 DEF Active
<1>5. PICK k \in 0..1 : want[t] % 2 = k /\ want[t] < given[k]
  BY <1>1 DEF Owners
<1>6. want[t] + 2 <= given[k] /\ \A j \in 0..1 : given[j] >= want[t] + 1
  BY SMTT(30), <1>1, <1>5
<1>7. TypeOK'
  <2>1. completed' \in firstTurn..MaxTurn
    BY SMTT(30), <1>1, <1>6, Constants DEF TypeOK
  <2>2. CASE Return(t)
    BY SMTT(30), <1>2, <2>1, <2>2, ReturnType
  <2>3. CASE Goto(t, "wake") /\ seen' = [seen EXCEPT ![t] = Zero] /\ UNCHANGED <<want, timed>>
    <3>1. Zero \in Word
      BY SMTT(30), EncodeWord DEF Zero
    <3> QED BY SMTT(30), <1>2, <2>1, <2>3, <3>1 DEF Goto, TypeOK
  <2> QED BY SMTT(30), <2>2, <2>3 DEF AfterCas
<1>8. Clock'
  BY SMTT(30), <1>1, <1>2, <1>6 DEF Clock
<1>9. ASSUME NEW u \in Threads, Active(u)'
      PROVE  want'[u] >= completed' /\ \E j \in 0..1 : want'[u] % 2 = j /\ want'[u] < given'[j]
  <2>1. u # t /\ Active(u) /\ want'[u] = want[u]
    BY SMTT(30), <1>3, <1>4, <1>9
  <2>2. want[u] >= completed /\ want[u] # want[t] /\ \E j \in 0..1 : want[u] % 2 = j /\ want[u] < given[j]
    BY SMTT(30), <1>1, <2>1 DEF Owners
  <2> QED BY SMTT(30), <1>1, <2>1, <2>2
<1>10. \A u, v \in Threads : Active(u)' /\ Active(v)' /\ want'[u] = want'[v] => u = v
  BY SMTT(30), <1>3, <1>4 DEF Owners
<1>11. ASSUME NEW j \in 0..1, NEW n \in completed'..MaxTurn, n % 2 = j, n < given'[j]
       PROVE  \E u \in Threads : Active(u)' /\ want'[u] = n
  <2>1. n \in completed..MaxTurn /\ n # want[t] /\ n < given[j]
    BY SMTT(30), <1>1, <1>11, Constants
  <2>2. PICK u \in Threads : Active(u) /\ want[u] = n
    BY SMTT(30), <1>11, <2>1 DEF Owners
  <2> QED BY SMTT(30), <1>3, <1>4, <2>1, <2>2
<1>12. Turned'
  <2>1. ASSUME NEW u \in Threads, pc'[u] \in {"turn", "complete"} PROVE FALSE
    <3>1. u # t /\ want[u] = completed /\ Active(u)
      BY SMTT(30), <1>3, <2>1 DEF Turned, Active
    <3> QED BY SMTT(30), <1>1, <3>1 DEF Owners
  <2> QED BY SMTT(30), <1>3, <2>1 DEF Turned
<1>13. Recorded'
  <2>1. \E j \in 0..1 : want'[t] <= given[j]
    BY SMTT(30), <1>1, <1>3, <1>6
  <2> QED BY SMTT(30), <1>3, <2>1 DEF Recorded, Ahead
<1>14. SleepersRecorded'
  <2> SUFFICES ASSUME NEW u \in Threads, pc'[u] = "sleep", want'[u] >= completed'
               PROVE  \/ \E v \in completed' + 1 .. want'[u] :
                           Channel(v) = Channel(want'[u]) /\ v - completed' <= word'.delta
                      \/ \E w \in Threads : pc'[w] = "wake" /\ Channel(want'[w] + 1) = Channel(want'[u])
    BY SMTT(30) DEF SleepersRecorded, Channel
  <2>1. u # t /\ pc[u] = "sleep" /\ want'[u] = want[u] /\ want[u] >= completed
    BY SMTT(30), <1>1, <1>3
  <2>2. CASE \E w \in Threads : pc[w] = "wake" /\ Channel(want[w] + 1) = Channel(want[u])
    <3>1. PICK w \in Threads : pc[w] = "wake" /\ Channel(want[w] + 1) = Channel(want[u])
      BY SMTT(30), <2>2
    <3>2. pc'[w] = "wake" /\ want'[w] = want[w]
      BY SMTT(30), <1>3, <3>1
    <3> QED BY SMTT(30), <2>1, <3>1, <3>2
  <2>3. CASE \E v \in completed + 1 .. want[u] : Channel(v) = Channel(want[u]) /\ v - completed <= word.delta
    <3>1. PICK v \in completed + 1 .. want[u] : Channel(v) = Channel(want[u]) /\ v - completed <= word.delta
      BY SMTT(30), <2>3
    <3>2. CASE v = completed + 1
      <4>1. word.delta # 0
        BY SMTT(30), <1>1, <3>1, <3>2
      <4>2. pc'[t] = "wake" /\ want'[t] + 1 = v
        BY SMTT(30), <1>1, <1>3, <3>2, <4>1
      <4> QED BY SMTT(30), <2>1, <3>1, <4>2
    <3>3. CASE v # completed + 1
      <4>1. v \in completed' + 1 .. want'[u] /\ v - completed' <= word'.delta
        BY SMTT(30), <1>1, <1>2, <2>1, <3>1, <3>3 DEF d
      <4> QED BY SMTT(30), <2>1, <3>1, <4>1
    <3> QED BY <3>2, <3>3
  <2> QED BY SMTT(30), <2>1, <2>2, <2>3 DEF SleepersRecorded
<1> QED BY SMTT(30), <1>7, <1>8, <1>9, <1>10, <1>11, <1>12, <1>13, <1>14 DEF Owners

\* completeTurn(), with its retries.
LEMMA CompleteCasIInv ==
  ASSUME IInv, NEW t \in Threads, CompleteCas(t)
  PROVE  IInv'
<1>1. CASE word = seen[t]
  BY SMTT(30), <1>1, CompleteIInv DEF CompleteCas
<1>2. CASE word # seen[t]
  <2> USE DEF IInv
  <2>1. UNCHANGED <<word, completed, given, pc, want, timed>> /\ pc[t] = "complete"
        /\ seen' = [seen EXCEPT ![t] = word]
    BY <1>2 DEF CompleteCas
  <2>2. TypeOK'
    BY <2>1 DEF TypeOK
  <2>3. Clock' /\ Owners'
    BY <2>1, Quiet DEF Active
  <2>4. Turned'
    BY SMTT(30), <2>1 DEF Turned
  <2>5. Recorded'
    BY SMTT(30), <2>1 DEF Recorded, Ahead, TypeOK
  <2>6. SleepersRecorded'
    BY SMTT(30), <2>1 DEF SleepersRecorded, Channel
  <2> QED BY <2>2, <2>3, <2>4, <2>5, <2>6
<1> QED BY <1>1, <1>2

\* The wake-up after a turn reaches every sleeper on the channel of the next.
LEMMA FutexWakeIInv ==
  ASSUME IInv, NEW t \in Threads, FutexWake(t)
  PROVE  IInv'
<1> USE DEF IInv
<1>1. /\ pc[t] = "wake" /\ UNCHANGED <<word, completed, given, timed, seen>>
      /\ pc'[t] = "idle" /\ want'[t] = 0
      /\ \A u \in Threads \ {t} : want'[u] = want[u] /\ pc'[u] = IF u \in Woken(t) THEN "load" ELSE pc[u]
  BY DEF FutexWake, TypeOK
<1>2. \A u \in Woken(t) : pc[u] = "sleep"
  BY DEF Woken
<1>3. TypeOK'
  <2>1. pc' \in [Threads -> {"idle", "load", "record", "futex", "sleep", "turn", "past", "complete", "wake"}]
    BY DEF FutexWake, TypeOK
  <2>2. want' \in [Threads -> 0..MaxTurn]
    BY SMTT(30), Constants DEF FutexWake, TypeOK
  <2> QED BY <1>1, <2>1, <2>2 DEF TypeOK
<1>4. Clock' /\ Owners'
  <2>1. \A u \in Threads : (Active(u)' <=> Active(u)) /\ (Active(u) => want'[u] = want[u])
    BY <1>1, <1>2 DEF Active
  <2> QED BY SMTT(30), <1>1, <2>1, Quiet
<1>5. Turned'
  BY SMTT(30), <1>1 DEF Turned
<1>6. Recorded'
  <2>1. \E k \in 0..1 : want'[t] <= given[k]
    BY SMTT(30), <1>1, Constants DEF TypeOK
  <2> QED BY SMTT(30), <1>1, <2>1 DEF Recorded, Ahead
<1>7. SleepersRecorded'
  <2> SUFFICES ASSUME NEW u \in Threads, pc'[u] = "sleep", want'[u] >= completed'
               PROVE  \/ \E v \in completed' + 1 .. want'[u] :
                           Channel(v) = Channel(want'[u]) /\ v - completed' <= word'.delta
                      \/ \E w \in Threads : pc'[w] = "wake" /\ Channel(want'[w] + 1) = Channel(want'[u])
    BY DEF SleepersRecorded, Channel
  <2>1. u # t /\ pc[u] = "sleep" /\ want'[u] = want[u] /\ u \notin Woken(t)
    BY <1>1
  <2>2. Channel(want[t] + 1) # Channel(want[u])
    BY <2>1 DEF Woken
  <2>3. CASE \E w \in Threads : pc[w] = "wake" /\ Channel(want[w] + 1) = Channel(want[u])
    <3>1. PICK w \in Threads : pc[w] = "wake" /\ Channel(want[w] + 1) = Channel(want[u])
      BY SMTT(30), <2>3
    <3>2. w # t /\ pc'[w] = "wake" /\ want'[w] = want[w]
      BY SMTT(30), <1>1, <1>2, <2>2, <3>1
    <3> QED BY SMTT(30), <2>1, <3>1, <3>2
  <2>4. CASE \E v \in completed + 1 .. want[u] : Channel(v) = Channel(want[u]) /\ v - completed <= word.delta
    BY <1>1, <2>1, <2>4
  <2> QED BY SMTT(30), <1>1, <2>1, <2>3, <2>4 DEF SleepersRecorded
<1> QED BY <1>3, <1>4, <1>5, <1>6, <1>7
=============================================================================
