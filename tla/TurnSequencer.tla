---------------------------- MODULE TurnSequencer ----------------------------
(***************************************************************************)
(* folly/detail/TurnSequencer.h: threads wait for their turn and complete  *)
(* it, with one futex word that holds the current turn and how far ahead   *)
(* the furthest recorded waiter is (saturating).  A waiter sleeps on the   *)
(* channel of its turn, one of the 32 bits of the futex mask, so turns     *)
(* share channels; the turn wraps around in the bits left of the delta.    *)
(*                                                                         *)
(* It is used as MPMCQueue does: even turns are handed out to the writers  *)
(* of a slot and odd ones to its readers, each in order.  Blocking callers *)
(* have turns of their own (waitForTurn); timed callers look at a turn     *)
(* that is not theirs (tryWaitForTurn with a deadline) and may find it in  *)
(* the past.  Spinning is Load taken again, a stuttering step here.        *)
(***************************************************************************)
EXTENDS Integers, FiniteSets

CONSTANTS
  Threads,
  Modulus,       \* number of turns the word can tell apart (2^26)
  kWaitersMask,  \* largest recorded delta (63)
  Channels,      \* bits of the futex mask (32)
  firstTurn,     \* of the constructor
  MaxTurn        \* bound: turns below it are handed out

ASSUME TurnSequencerAssumption ==
  /\ Modulus \in Nat \ {0} /\ kWaitersMask \in Nat /\ Channels \in Nat \ {0} /\ MaxTurn \in Nat
  /\ Modulus % 2 = 0 /\ Modulus % Channels = 0
  /\ Channels <= kWaitersMask
  /\ firstTurn \in Nat /\ firstTurn % 2 = 0 /\ firstTurn <= MaxTurn

\* The turns that are waited for fit into half of those the word can tell apart
\* (2^24 threads).
ASSUME FewThreads == IsFiniteSet(Threads) /\ 4 * Cardinality(Threads) <= Modulus

VARIABLES
  word,       \* state_: [turn, delta]
  completed,  \* history: turns completed; state_ has it modulo Modulus
  given,      \* the next turn of a writer (0) and of a reader (1)
  pc, want,   \* per thread: where it is, and the turn it is about
  timed,      \* per thread: it has a deadline
  seen        \* per thread: the local variable state

vars == <<word, completed, given, pc, want, timed, seen>>

Word == [turn : 0..Modulus-1, delta : 0..kWaitersMask]

\* encode(): the delta saturates.
Encode(turn, delta) ==
  [turn |-> turn % Modulus, delta |-> IF delta > kWaitersMask THEN kWaitersMask ELSE delta]

\* futexChannel()
Channel(turn) == turn % Channels

\* sturn - current_sturn, in the arithmetic of the word.
Ahead(turn, w) == (turn - w.turn) % Modulus

Zero == Encode(0, 0)

Init ==
  /\ word = Encode(firstTurn, 0)
  /\ completed = firstTurn
  /\ given = [k \in 0..1 |-> firstTurn + k]
  /\ pc = [t \in Threads |-> "idle"]
  /\ want = [t \in Threads |-> 0]
  /\ timed = [t \in Threads |-> FALSE]
  /\ seen = [t \in Threads |-> Zero]

Goto(t, l) == pc' = [pc EXCEPT ![t] = l]

\* A ticket makes the caller the only one with this turn.
waitForTurn(t, k) ==
  /\ pc[t] = "idle" /\ given[k] < MaxTurn
  /\ given' = [given EXCEPT ![k] = @ + 2]
  /\ want' = [want EXCEPT ![t] = given[k]]
  /\ timed' = [timed EXCEPT ![t] = FALSE]
  /\ Goto(t, "load")
  /\ UNCHANGED <<word, completed, seen>>

\* A deadline, and a turn that need not come: that of the next ticket, or of one
\* that was next a moment ago.
tryWaitForTurn(t, turn) ==
  /\ pc[t] = "idle" /\ turn \in firstTurn..MaxTurn
  /\ want' = [want EXCEPT ![t] = turn]
  /\ timed' = [timed EXCEPT ![t] = TRUE]
  /\ Goto(t, "load")
  /\ UNCHANGED <<word, completed, given, seen>>

\* The locals of a call end with it, and state with its last use.
Return(t) ==
  /\ Goto(t, "idle")
  /\ want' = [want EXCEPT ![t] = 0]
  /\ timed' = [timed EXCEPT ![t] = FALSE]
  /\ seen' = [seen EXCEPT ![t] = Zero]

\* One turn of the loop up to the decision to sleep: SUCCESS, PAST, or go on.
Load(t) ==
  /\ pc[t] = "load"
  /\ \/ /\ Ahead(want[t], word) = 0 /\ ~timed[t]
        /\ Goto(t, "turn") /\ UNCHANGED <<want, timed, seen>>
     \/ /\ Ahead(want[t], word) >= Modulus \div 2 /\ ~timed[t]
        /\ Goto(t, "past") /\ UNCHANGED <<want, timed, seen>>
     \/ /\ Ahead(want[t], word) = 0 \/ Ahead(want[t], word) >= Modulus \div 2
        /\ timed[t] /\ Return(t)
     \/ /\ Ahead(want[t], word) \in 1..Modulus \div 2 - 1
        /\ seen' = [seen EXCEPT ![t] = word]
        /\ Goto(t, "record") /\ UNCHANGED <<want, timed>>
  /\ UNCHANGED <<word, completed, given>>

\* Mutant: the waiter is recorded only if there is none yet.
RecordFirstOnly(t) ==
  /\ pc[t] = "record"
  /\ LET new == IF seen[t].delta > 0 THEN seen[t]
                ELSE Encode(seen[t].turn, Ahead(want[t], seen[t]))
     IN \/ /\ new = seen[t] \/ word = seen[t]
           /\ word' = IF new = seen[t] THEN word ELSE new
           /\ seen' = [seen EXCEPT ![t] = new]
           /\ Goto(t, "futex")
        \/ /\ new # seen[t] /\ word # seen[t]
           /\ Goto(t, "load") /\ seen' = [seen EXCEPT ![t] = Zero] /\ UNCHANGED word
  /\ UNCHANGED <<completed, given, want, timed>>

\* The waiter makes sure that the word records it: by a CAS, unless it does.
Record(t) ==
  /\ pc[t] = "record"
  /\ LET new == IF Ahead(want[t], seen[t]) <= seen[t].delta THEN seen[t]
                ELSE Encode(seen[t].turn, Ahead(want[t], seen[t]))
     IN \/ /\ new = seen[t] \/ word = seen[t]
           /\ word' = IF new = seen[t] THEN word ELSE new
           /\ seen' = [seen EXCEPT ![t] = new]
           /\ Goto(t, "futex")
        \/ /\ new # seen[t] /\ word # seen[t]
           /\ Goto(t, "load") /\ seen' = [seen EXCEPT ![t] = Zero] /\ UNCHANGED word
  /\ UNCHANGED <<completed, given, want, timed>>

\* futexWait(): sleeps if the word is still the one expected.
FutexWait(t) ==
  /\ pc[t] = "futex"
  /\ Goto(t, IF word = seen[t] THEN "sleep" ELSE "load")
  /\ seen' = [seen EXCEPT ![t] = Zero]
  /\ UNCHANGED <<word, completed, given, want, timed>>

\* The wait was interrupted.
Interrupted(t) ==
  /\ pc[t] = "sleep"
  /\ Goto(t, "load")
  /\ UNCHANGED <<word, completed, given, want, timed, seen>>

TimedOut(t) ==
  /\ pc[t] = "sleep" /\ timed[t]
  /\ Return(t)
  /\ UNCHANGED <<word, completed, given>>

\* completeTurn(): the first load.
CompleteLoad(t) ==
  /\ pc[t] = "turn"
  /\ seen' = [seen EXCEPT ![t] = word]
  /\ Goto(t, "complete")
  /\ UNCHANGED <<word, completed, given, want, timed>>

AfterCas(t) ==
  IF seen[t].delta = 0 THEN Return(t)
  ELSE Goto(t, "wake") /\ seen' = [seen EXCEPT ![t] = Zero] /\ UNCHANGED <<want, timed>>

\* Mutant: the number of recorded waiters is not carried over to the next turn.
CompleteCasForgets(t) ==
  /\ pc[t] = "complete"
  /\ \/ /\ word = seen[t]
        /\ word' = Encode(want[t] + 1, 0)
        /\ completed' = completed + 1
        /\ AfterCas(t)
     \/ /\ word # seen[t]
        /\ seen' = [seen EXCEPT ![t] = word]
        /\ UNCHANGED <<word, completed, pc, want, timed>>
  /\ UNCHANGED given

CompleteCas(t) ==
  /\ pc[t] = "complete"
  /\ \/ /\ word = seen[t]
        /\ word' = Encode(want[t] + 1, IF seen[t].delta = 0 THEN 0 ELSE seen[t].delta - 1)
        /\ completed' = completed + 1
        /\ AfterCas(t)
     \/ /\ word # seen[t]
        /\ seen' = [seen EXCEPT ![t] = word]
        /\ UNCHANGED <<word, completed, pc, want, timed>>
  /\ UNCHANGED given

\* futexWake() of every sleeper on the channel of the turn that has come.
Woken(t) == {u \in Threads : pc[u] = "sleep" /\ Channel(want[u]) = Channel(want[t] + 1)}

\* Mutant: whoever is woken takes it for its turn.
FutexWakeTrusted(t) ==
  /\ pc[t] = "wake"
  /\ pc' = [u \in Threads |-> IF u = t THEN "idle" ELSE IF u \in Woken(t) THEN "turn" ELSE pc[u]]
  /\ want' = [want EXCEPT ![t] = 0]
  /\ UNCHANGED <<word, completed, given, timed, seen>>

FutexWake(t) ==
  /\ pc[t] = "wake"
  /\ pc' = [u \in Threads |-> IF u = t THEN "idle" ELSE IF u \in Woken(t) THEN "load" ELSE pc[u]]
  /\ want' = [want EXCEPT ![t] = 0]
  /\ UNCHANGED <<word, completed, given, timed, seen>>
-----------------------------------------------------------------------------
Waiting(t) == Load(t) \/ Record(t) \/ FutexWait(t)
Completing(t) == CompleteLoad(t) \/ CompleteCas(t) \/ FutexWake(t)

Next ==
  \E t \in Threads :
    \/ \E k \in 0..1 : waitForTurn(t, k) \/ tryWaitForTurn(t, given[k]) \/ tryWaitForTurn(t, given[k] - 2)
    \/ Waiting(t) \/ Interrupted(t) \/ TimedOut(t) \/ Completing(t)

Spec == Init /\ [][Next]_vars

\* Threads are scheduled, deadlines pass, and whoever has its turn completes it.
Fairness == \A t \in Threads : WF_vars(Waiting(t)) /\ WF_vars(TimedOut(t)) /\ WF_vars(Completing(t))

FairSpec == Spec /\ Fairness
-----------------------------------------------------------------------------
(* Properties *)

TypeOK ==
  /\ word \in Word
  /\ completed \in firstTurn..MaxTurn /\ given \in [0..1 -> firstTurn..MaxTurn+1]
  /\ pc \in [Threads -> {"idle", "load", "record", "futex", "sleep", "turn", "past", "complete", "wake"}]
  /\ want \in [Threads -> 0..MaxTurn]
  /\ timed \in [Threads -> BOOLEAN]
  /\ seen \in [Threads -> Word]

\* One thread at a time has its turn, it is the current one, and the word says
\* so (the DCHECK of completeTurn); no turn that was handed out is found in the
\* past (the DCHECK of waitForTurn).
OneAtATime ==
  /\ TypeOK
  /\ \A t \in Threads : pc[t] \in {"turn", "complete"} =>
       /\ want[t] = completed /\ word.turn = completed % Modulus
       /\ \A u \in Threads \ {t} : pc[u] \notin {"turn", "complete"}
  /\ \A t \in Threads : pc[t] # "past"

\* No wake-up is lost: for every sleeper some turn on its channel, its own or an
\* earlier one, will find the sleeper recorded when it comes, or a thread is
\* about to wake its channel.  (A timed caller whose turn passed long ago may
\* sleep until its deadline.)
SleepersRecorded ==
  \A t \in Threads : pc[t] = "sleep" /\ want[t] >= completed =>
    \/ \E v \in completed + 1 .. want[t] :
         Channel(v) = Channel(want[t]) /\ v - completed <= word.delta
    \/ \E u \in Threads : pc[u] = "wake" /\ Channel(want[u] + 1) = Channel(want[t])

\* A TurnSequencer implements Turns: blocking callers enter in the order of
\* their turns, and each does in the end.
Phase(t) == IF timed[t] \/ pc[t] \in {"idle", "wake"} THEN "out"
            ELSE IF pc[t] \in {"turn", "complete"} THEN "in" ELSE "waiting"
T == INSTANCE Turns WITH
       Numbers <- firstTurn..MaxTurn,
       current <- completed,
       taken <- {n \in firstTurn..MaxTurn : n < given[n % 2]},
       phase <- [t \in Threads |-> Phase(t)],
       turn <- [t \in Threads |-> IF Phase(t) = "out" THEN 0 ELSE want[t]]
ImplementsTurns == T!Spec
=============================================================================
