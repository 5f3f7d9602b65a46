-------------------------- MODULE TurnSequencerProofs -------------------------
(***************************************************************************)
(* A TurnSequencer admits one caller at a time in the order of the turns   *)
(* and loses no wake-up, for any number of threads the word has room for,  *)
(* any number of turns (it wraps around as often as it likes), any mask    *)
(* and any number of channels.                                             *)
(***************************************************************************)
EXTENDS TurnSequencerSteps, TLAPS
-----------------------------------------------------------------------------
(* The theorems *)

\* IInv is an invariant of every TurnSequencer.
THEOREM Invariance == Spec => []IInv
<1>1. IInv /\ UNCHANGED vars => IInv'
  <2> SUFFICES ASSUME IInv, UNCHANGED vars PROVE IInv'
    OBVIOUS
  <2> USE DEF IInv, vars
  <2>1. TypeOK' /\ Turned'
    BY DEF TypeOK, Turned
  <2>2. Clock' /\ Owners'
    BY Quiet DEF Active
  <2>3. Recorded' /\ SleepersRecorded'
    BY DEF Recorded, Ahead, SleepersRecorded, Channel
  <2> QED BY <2>1, <2>2, <2>3
<1>2. IInv /\ Next => IInv'
  <2> SUFFICES ASSUME IInv, NEW t \in Threads,
                      \/ \E k \in 0..1 : waitForTurn(t, k) \/ tryWaitForTurn(t, given[k]) \/ tryWaitForTurn(t, given[k] - 2)
                      \/ Waiting(t) \/ Interrupted(t) \/ TimedOut(t) \/ Completing(t)
               PROVE  IInv'
    BY DEF Next
  <2>1. CASE \E k \in 0..1 : waitForTurn(t, k) \/ tryWaitForTurn(t, given[k]) \/ tryWaitForTurn(t, given[k] - 2)
    BY <2>1, AskIInv, TryIInv
  <2>2. CASE Waiting(t)
    BY <2>2, LoadIInv, RecordIInv, FutexWaitIInv DEF Waiting
  <2>3. CASE Interrupted(t) \/ TimedOut(t) \/ CompleteLoad(t)
    BY <2>3, LocalIInv
  <2>4. CASE CompleteCas(t) \/ FutexWake(t)
    BY <2>4, CompleteCasIInv, FutexWakeIInv
  <2> QED BY <2>1, <2>2, <2>3, <2>4 DEF Completing
<1> QED BY <1>1, <1>2, InitIInv, PTL DEF Spec

\* One thread at a time has its turn, and the DCHECKs of waitForTurn() and
\* completeTurn() hold.
THEOREM OneAtATimeHolds == Spec => []OneAtATime
<1>1. IInv => OneAtATime
  <2> SUFFICES ASSUME IInv PROVE OneAtATime
    OBVIOUS
  <2> USE DEF IInv
  <2>1. ASSUME NEW t \in Threads, pc[t] \in {"turn", "complete"}
        PROVE  /\ want[t] = completed /\ word.turn = completed % Modulus
               /\ \A u \in Threads \ {t} : pc[u] \notin {"turn", "complete"}
    <3>1. \A u \in Threads : pc[u] \in {"turn", "complete"} => Active(u) /\ want[u] = completed
      BY DEF Turned, Active
    <3> QED BY <2>1, <3>1 DEF Owners, Clock
  <2> QED BY <2>1 DEF OneAtATime, Turned
<1> QED BY <1>1, Invariance, PTL

\* No wake-up is lost, although the word counts waiters only up to the mask and
\* turns share the channels of the futex.
THEOREM NoLostWakeup == Spec => []SleepersRecorded
<1>1. IInv => SleepersRecorded
  BY DEF IInv
<1> QED BY <1>1, Invariance, PTL
-----------------------------------------------------------------------------
(* The abstract specification *)

\* What Turns allows, without its fairness.
TurnsSafety == T!Init /\ [][T!Next]_(T!vars)

\* The turns that were handed out, as Turns sees them.
Taken == {n \in firstTurn..MaxTurn : n < given[n % 2]}

\* A step that hands out and completes no turn, and in which everybody keeps
\* phase and turn, is none for the users.
LEMMA Hidden ==
  ASSUME UNCHANGED <<completed, given>>,
         \A u \in Threads : Phase(u)' = Phase(u) /\ (Phase(u) # "out" => want'[u] = want[u])
  PROVE  UNCHANGED T!vars
<1>1. [u \in Threads |-> Phase(u)]' = [u \in Threads |-> Phase(u)]
  OBVIOUS
<1>2. [u \in Threads |-> IF Phase(u) = "out" THEN 0 ELSE want[u]]' = [u \in Threads |-> IF Phase(u) = "out" THEN 0 ELSE want[u]]
  OBVIOUS
<1> QED BY <1>1, <1>2 DEF T!vars

\* Taking a ticket is Ask.
LEMMA AskRefines ==
  ASSUME IInv, NEW t \in Threads, NEW k \in 0..1, waitForTurn(t, k), NEW n, n = given[k]
  PROVE  T!Ask(t, n)
<1> USE DEF IInv
<1>1. /\ given[k] \in firstTurn..MaxTurn /\ given[k] % 2 = k /\ given[k] >= completed
      /\ given'[k] = given[k] + 2 /\ \A j \in 0..1 : j # k => given'[j] = given[j]
      /\ \A j \in 0..1 : given[j] \in Nat /\ given[j] % 2 = j
      /\ UNCHANGED completed
  BY Constants DEF waitForTurn, TypeOK, Clock
<1>2. Phase(t) = "out" /\ Phase(t)' = "waiting" /\ want'[t] = given[k]
      /\ \A u \in Threads \ {t} : Phase(u)' = Phase(u) /\ want'[u] = want[u]
  BY DEF waitForTurn, Goto, TypeOK, Phase
<1>3. n \notin Taken
  BY <1>1 DEF Taken
<1>4. Taken' = Taken \cup {n}
  <2>1. ASSUME NEW m \in firstTurn..MaxTurn
        PROVE  m < given'[m % 2] <=> m < given[m % 2] \/ m = n
    <3>1. m \in Nat /\ m % 2 \in 0..1
      BY Constants
    <3>2. CASE m % 2 = k
      BY <1>1, <3>1, <3>2
    <3>3. CASE m % 2 # k
      BY <1>1, <3>1, <3>3
    <3> QED BY <3>2, <3>3
  <2> QED BY <1>1, <2>1 DEF Taken
<1>5. [u \in Threads |-> Phase(u)]' = [[u \in Threads |-> Phase(u)] EXCEPT ![t] = "waiting"]
  BY Zenon, <1>2
<1>6. [u \in Threads |-> IF Phase(u) = "out" THEN 0 ELSE want[u]]'
        = [[u \in Threads |-> IF Phase(u) = "out" THEN 0 ELSE want[u]] EXCEPT ![t] = n]
  BY Zenon, <1>2
<1> QED BY SMTT(30), <1>1, <1>2, <1>3, <1>4, <1>5, <1>6 DEF T!Ask, Taken

\* Finding one's turn current is Enter.
LEMMA LoadRefines ==
  ASSUME IInv, IInv', NEW t \in Threads, Load(t)
  PROVE  T!Enter(t) \/ UNCHANGED T!vars
<1> USE DEF IInv
<1>1. /\ pc[t] = "load" /\ UNCHANGED <<completed, given>>
      /\ \A u \in Threads \ {t} : Phase(u)' = Phase(u) /\ want'[u] = want[u]
  BY DEF Load, Return, Goto, TypeOK, Phase
<1>2. CASE pc'[t] = "turn"
  <2>1. ~timed[t] /\ ~timed'[t] /\ want'[t] = want[t] /\ want[t] = completed
    <3>1. ~timed'[t] /\ want'[t] = completed'
      BY <1>2 DEF Turned
    <3>2. want'[t] = want[t] /\ timed'[t] = timed[t]
      BY SMTT(30), <1>2 DEF Load, Return, Goto, TypeOK
    <3> QED BY <1>1, <3>1, <3>2
  <2>2. Phase(t) = "waiting" /\ Phase(t)' = "in"
    BY <1>1, <1>2, <2>1 DEF Phase
  <2>3. [u \in Threads |-> Phase(u)]' = [[u \in Threads |-> Phase(u)] EXCEPT ![t] = "in"]
    BY Zenon, <1>1, <2>2
  <2>4. [u \in Threads |-> IF Phase(u) = "out" THEN 0 ELSE want[u]]'
          = [u \in Threads |-> IF Phase(u) = "out" THEN 0 ELSE want[u]]
    BY <1>1, <2>1, <2>2
  <2> QED BY <1>1, <2>1, <2>2, <2>3, <2>4 DEF T!Enter
<1>3. CASE pc'[t] # "turn"
  <2>1. Phase(t)' = Phase(t) /\ (Phase(t) # "out" => want'[t] = want[t])
    <3>1. CASE Return(t) /\ timed[t]
      BY <1>1, <3>1 DEF Return, Goto, TypeOK, Phase
    <3>2. CASE UNCHANGED <<want, timed>> /\ \E l \in {"past", "record"} : Goto(t, l)
      BY <1>1, <3>2 DEF Goto, TypeOK, Phase
    <3> QED BY <1>3, <3>1, <3>2 DEF Load, Goto, TypeOK
  <2> QED BY <1>1, <2>1, Hidden
<1> QED BY <1>2, <1>3

\* The CAS of completeTurn() is Leave.
LEMMA CompleteRefines ==
  ASSUME IInv, NEW t \in Threads, CompleteCas(t)
  PROVE  T!Leave(t) \/ UNCHANGED T!vars
<1> USE DEF IInv
<1>1. CASE word = seen[t]
  <2>1. completed' = completed + 1 /\ UNCHANGED given /\ pc[t] = "complete" /\ AfterCas(t)
    BY <1>1 DEF CompleteCas
  <2>2. Phase(t) = "in" /\ Phase(t)' = "out"
        /\ \A u \in Threads \ {t} : Phase(u)' = Phase(u) /\ want'[u] = want[u]
    BY <2>1 DEF AfterCas, Return, Goto, TypeOK, Phase, Turned
  <2>3. [u \in Threads |-> Phase(u)]' = [[u \in Threads |-> Phase(u)] EXCEPT ![t] = "out"]
    BY Zenon, <2>2
  <2>4. [u \in Threads |-> IF Phase(u) = "out" THEN 0 ELSE want[u]]'
          = [[u \in Threads |-> IF Phase(u) = "out" THEN 0 ELSE want[u]] EXCEPT ![t] = 0]
    BY Zenon, <2>2
  <2> QED BY <2>1, <2>2, <2>3, <2>4 DEF T!Leave
<1>2. CASE word # seen[t]
  BY <1>2, Hidden DEF CompleteCas, Phase
<1> QED BY <1>1, <1>2

\* All other steps are hidden.
LEMMA OtherRefines ==
  ASSUME IInv, NEW t \in Threads,
         \/ \E n \in Int : tryWaitForTurn(t, n)
         \/ Record(t) \/ FutexWait(t) \/ Interrupted(t) \/ TimedOut(t) \/ CompleteLoad(t) \/ FutexWake(t)
  PROVE  UNCHANGED T!vars
<1> USE DEF IInv
<1>1. UNCHANGED <<completed, given>>
  BY DEF tryWaitForTurn, Record, FutexWait, Interrupted, TimedOut, CompleteLoad, FutexWake
<1>2. \A u \in Threads : Phase(u)' = Phase(u) /\ (Phase(u) # "out" => want'[u] = want[u])
  <2>1. CASE \E n \in Int : tryWaitForTurn(t, n)
    BY SMTT(30), <2>1 DEF tryWaitForTurn, Goto, TypeOK, Phase
  <2>2. CASE Record(t) \/ FutexWait(t)
    BY SMTT(30), <2>2 DEF Record, FutexWait, Goto, TypeOK, Phase
  <2>3. CASE Interrupted(t) \/ TimedOut(t) \/ CompleteLoad(t)
    BY <2>3 DEF Interrupted, TimedOut, CompleteLoad, Return, Goto, TypeOK, Phase
  <2>4. CASE FutexWake(t)
    BY <2>4 DEF FutexWake, Woken, TypeOK, Phase
  <2> QED BY SMTT(30), <2>1, <2>2, <2>3, <2>4
<1> QED BY SMTT(30), <1>1, <1>2, Hidden

\* Blocking callers enter one at a time and in the order of their turns: every
\* step of a TurnSequencer is one of Turns, or none.
THEOREM RefinesTurns == Spec => TurnsSafety
<1>1. Init => T!Init
  <2> SUFFICES ASSUME Init PROVE T!Init
    OBVIOUS
  <2>1. Taken = {}
    <3> SUFFICES ASSUME NEW n \in firstTurn..MaxTurn, n < given[n % 2] PROVE FALSE
      BY DEF Taken
    <3>1. n \in Nat /\ n % 2 \in 0..1 /\ given[n % 2] = firstTurn + (n % 2)
      BY Constants DEF Init
    <3> QED BY <3>1, Constants
  <2>2. \A t \in Threads : Phase(t) = "out"
    BY DEF Init, Phase
  <2> QED BY Zenon, <2>1, <2>2 DEF Init, T!Init, Taken
<1>2. IInv /\ IInv' /\ [Next]_vars => [T!Next]_(T!vars)
  <2> SUFFICES ASSUME IInv, IInv', [Next]_vars PROVE T!Next \/ UNCHANGED T!vars
    OBVIOUS
  <2>1. CASE UNCHANGED vars
    BY <2>1, Hidden DEF vars, Phase
  <2>2. ASSUME NEW t \in Threads, NEW k \in 0..1, waitForTurn(t, k) PROVE T!Next
    <3>1. PICK n \in firstTurn..MaxTurn : n = given[k]
      BY <2>2, Constants DEF waitForTurn, IInv, TypeOK
    <3>2. T!Ask(t, n)
      BY <2>2, <3>1, AskRefines
    <3> QED BY <3>2 DEF T!Next
  <2>3. ASSUME NEW t \in Threads, Load(t) \/ CompleteCas(t) PROVE T!Next \/ UNCHANGED T!vars
    BY <2>3, LoadRefines, CompleteRefines DEF T!Next
  <2>4. \A k \in 0..1 : given[k] \in Int /\ given[k] - 2 \in Int
    BY Constants DEF IInv, TypeOK
  <2>5. ASSUME NEW t \in Threads,
               \/ \E k \in 0..1 : tryWaitForTurn(t, given[k]) \/ tryWaitForTurn(t, given[k] - 2)
               \/ Record(t) \/ FutexWait(t) \/ Interrupted(t) \/ TimedOut(t) \/ CompleteLoad(t) \/ FutexWake(t)
        PROVE  UNCHANGED T!vars
    BY <2>4, <2>5, OtherRefines
  <2> QED BY <2>1, <2>2, <2>3, <2>5 DEF Next, Waiting, Completing
<1> QED BY <1>1, <1>2, Invariance, PTL DEF Spec, TurnsSafety
=============================================================================
