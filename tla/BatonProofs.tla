----------------------------- MODULE BatonProofs -----------------------------
(***************************************************************************)
(* Proofs about Baton.tla, for any set of posters, spinning or blocking.   *)
(* The invariants follow from IInv, which relates the word to the poster   *)
(* of the current lifetime and to the waiter.                              *)
(***************************************************************************)
EXTENDS Baton, TLAPS

\* The initial state of a baton satisfies the inductive invariant.
LEMMA InitIInv == Init => IInv
BY Zenon, BatonAssumption
   DEF Init, IInv, TypeOK, OldPostersOnlyWake, PosterView, WaiterView, NoLostWakeup,
       States, WaiterPCs, PosterPCs, ready

\* Every step of the waiter, a time-out or a reset() keeps the inductive
\* invariant.
LEMMA WaiterIInv == IInv /\ WaiterNext => IInv'
<1> SUFFICES ASSUME IInv, WaiterNext PROVE IInv'
  OBVIOUS
<1> USE BatonAssumption
        DEF IInv, TypeOK, OldPostersOnlyWake, PosterView, WaiterView, NoLostWakeup,
            States, WaiterPCs, PosterPCs, ready, WaitReturns
<1>1. CASE try_wait
  BY <1>1 DEF try_wait
<1>2. ASSUME NEW t \in BOOLEAN, wait(t) PROVE IInv'
  BY <1>2 DEF wait
<1>3. CASE SpinSuccess
  BY <1>3 DEF SpinSuccess
<1>4. CASE SpinTimeout
  BY Zenon, <1>4 DEF SpinTimeout
<1>5. CASE SpinAdvance
  BY <1>5 DEF SpinAdvance
<1>6. CASE WaitCas
  BY Zenon, <1>6 DEF WaitCas
<1>7. CASE FutexWait
  BY <1>7 DEF FutexWait
<1>8. CASE SpuriousWakeup
  BY <1>8 DEF SpuriousWakeup
<1>9. CASE IdleTimeout
  BY <1>9 DEF IdleTimeout
<1>10. CASE SleepTimeout
  BY <1>10 DEF SleepTimeout
<1>11. CASE StoreTimedOut
  BY Zenon, <1>11 DEF StoreTimedOut
<1>12. CASE CheckState
  BY Zenon, <1>12 DEF CheckState
<1>13. CASE reset
  BY ZenonT(30), <1>13 DEF reset, ResetAllowed
<1> QED
  BY <1>1, <1>2, <1>3, <1>4, <1>5, <1>6, <1>7, <1>8, <1>9, <1>10, <1>11, <1>12, <1>13
     DEF WaiterNext

\* Every step of a post(), in its own lifetime or after it, keeps the inductive
\* invariant.
LEMMA PosterIInv ==
  ASSUME IInv, NEW p \in Posters, PosterNext(p)
  PROVE  IInv'
<1> USE BatonAssumption
        DEF IInv, TypeOK, OldPostersOnlyWake, PosterView, WaiterView, NoLostWakeup,
            States, WaiterPCs, PosterPCs, ready, AfterLoad
<1>1. CASE PostSpinOnly(p)
  BY <1>1 DEF PostSpinOnly
<1>2. CASE PostLoad(p)
  BY <1>2 DEF PostLoad
<1>3. CASE PostCas(p)
  BY <1>3 DEF PostCas
<1>4. CASE PostStore(p)
  BY <1>4 DEF PostStore
<1>5. CASE PostWake(p)
  BY <1>5 DEF PostWake
<1> QED
  BY <1>1, <1>2, <1>3, <1>4, <1>5 DEF PosterNext

\* IInv is an invariant of every baton.
THEOREM IInvHolds == Spec => []IInv
<1>1. IInv /\ UNCHANGED vars => IInv'
  BY DEF vars, IInv, TypeOK, OldPostersOnlyWake, PosterView, WaiterView, NoLostWakeup, ready
<1>2. IInv /\ [Next]_vars => IInv'
  BY <1>1, WaiterIInv, PosterIInv DEF Next
<1> QED
  BY <1>2, InitIInv, PTL DEF Spec

\* wait() never returns true for a delivery that did not happen in its own
\* lifetime, whatever stale wakes and spurious wake-ups it meets.
THEOREM NoFalseDeliveryHolds == Spec => []NoFalseDelivery
<1>1. IInv => NoFalseDelivery
  BY BatonAssumption
     DEF IInv, TypeOK, PosterView, WaiterView, NoFalseDelivery, Posted, ready, PosterPCs
<1> QED
  BY <1>1, IInvHolds, PTL

\* A sleeping waiter whose word was changed always has a futexWake coming.
THEOREM NoLostWakeupHolds == Spec => []NoLostWakeup
<1>1. IInv => NoLostWakeup
  BY DEF IInv
<1> QED
  BY <1>1, IInvHolds, PTL

\* A post() that outlives its lifetime never writes the word of the next one.
THEOREM OldPostersOnlyWakeHolds == Spec => []OldPostersOnlyWake
<1>1. IInv => OldPostersOnlyWake
  BY DEF IInv
<1> QED
  BY <1>1, IInvHolds, PTL

\* None of the assert()s of Baton.h can fire.
THEOREM AssertionsHoldAlways == Spec => []AssertionsHold
<1>1. IInv => AssertionsHold
  BY BatonAssumption
     DEF IInv, TypeOK, OldPostersOnlyWake, PosterView, WaiterView, AssertionsHold, States
<1> QED
  BY <1>1, IInvHolds, PTL

\* A step of the waiter is a step of the abstract hand-off, or leaves it as it was.
LEMMA WaiterRefines == IInv /\ WaiterNext => [H!Next]_(H!vars)
<1> SUFFICES ASSUME IInv, WaiterNext PROVE [H!Next]_(H!vars)
  OBVIOUS
<1> USE BatonAssumption
        DEF IInv, TypeOK, PosterView, WaiterView, States, WaiterPCs, PosterPCs, ready,
            WaitReturns, Posted, waitStatus, H!Next, H!vars
<1>1. CASE try_wait
  BY <1>1 DEF try_wait, H!Succeed
<1>2. ASSUME NEW t \in BOOLEAN, wait(t) PROVE [H!Next]_(H!vars)
  BY <1>2 DEF wait, H!Wait
<1>3. CASE SpinSuccess
  BY <1>3 DEF SpinSuccess, H!Succeed
<1>4. CASE SpinTimeout
  BY <1>4 DEF SpinTimeout, H!GiveUp
<1>5. CASE SpinAdvance
  BY <1>5 DEF SpinAdvance
<1>6. CASE WaitCas
  BY <1>6 DEF WaitCas, H!Succeed
<1>7. CASE FutexWait
  BY <1>7 DEF FutexWait
<1>8. CASE SpuriousWakeup
  BY <1>8 DEF SpuriousWakeup
<1>9. CASE IdleTimeout
  BY <1>9 DEF IdleTimeout
<1>10. CASE SleepTimeout
  BY <1>10 DEF SleepTimeout
<1>11. CASE StoreTimedOut
  BY <1>11 DEF StoreTimedOut, H!GiveUp
<1>12. CASE CheckState
  BY <1>12 DEF CheckState, H!Succeed
<1>13. CASE reset
  BY <1>13 DEF reset, ResetAllowed, H!Renew
<1> QED
  BY <1>1, <1>2, <1>3, <1>4, <1>5, <1>6, <1>7, <1>8, <1>9, <1>10, <1>11, <1>12, <1>13
     DEF WaiterNext

\* A step of a poster is the abstract Post, or invisible.
LEMMA PosterRefines ==
  ASSUME IInv, NEW p \in Posters, PosterNext(p)
  PROVE  [H!Next]_(H!vars)
<1> USE BatonAssumption
        DEF IInv, TypeOK, OldPostersOnlyWake, WaiterPCs, PosterPCs, Posted, waitStatus,
            AfterLoad, H!Next, H!vars, H!Post, PosterView
<1>1. CASE PostSpinOnly(p)
  BY <1>1 DEF PostSpinOnly
<1>2. CASE PostLoad(p)
  BY <1>2 DEF PostLoad
<1>3. CASE PostCas(p)
  BY <1>3 DEF PostCas
<1>4. CASE PostStore(p)
  BY <1>4 DEF PostStore
<1>5. CASE PostWake(p)
  BY <1>5 DEF PostWake
<1> QED
  BY Zenon, <1>1, <1>2, <1>3, <1>4, <1>5 DEF PosterNext

\* Baton implements the single hand-off: the users of post(), the wait family
\* and reset() see nothing but one Post and one answer per lifetime.
THEOREM BatonImplementsHandoff == Spec => HandoffSpec
<1>1. Init => H!Init
  BY BatonAssumption DEF Init, H!Init, Posted, waitStatus
<1>2. IInv /\ UNCHANGED vars => UNCHANGED H!vars
  BY DEF vars, H!vars, Posted, waitStatus
<1>3. IInv /\ [Next]_vars => [H!Next]_(H!vars)
  BY <1>2, WaiterRefines, PosterRefines DEF Next
<1> QED
  BY <1>1, <1>3, IInvHolds, PTL DEF Spec, HandoffSpec, H!Spec
=============================================================================
