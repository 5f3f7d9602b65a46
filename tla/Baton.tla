-------------------------------- MODULE Baton --------------------------------
(***************************************************************************)
(* folly::Baton<MayBlock> (folly/synchronization/Baton.h): one atomic word *)
(* shared by the one waiter and the one poster of a lifetime.  Each action *)
(* is one atomic access to state_ (or one futex call), so every            *)
(* interleaving of post(), the wait family, time-outs and reset() is       *)
(* covered.  The caller's contract is in the guards: one post and one      *)
(* blocking wait per lifetime; reset() by the waiter once its wait is over.*)
(* A post() that has stored LATE_DELIVERY but not yet called futexWake may *)
(* outlive its lifetime: its wake then hits the reused word.               *)
(***************************************************************************)
CONSTANTS
  Posters,    \* threads that call post()
  NoPoster    \* "no post() was called in this lifetime"

ASSUME BatonAssumption == NoPoster \notin Posters

VARIABLES
  mayBlock, \* the template argument, fixed when the baton is constructed
  state,    \* state_
  wpc,      \* where the waiter is
  timed,    \* the current wait has a deadline
  ret,      \* what the finished wait returned
  ppc,      \* where each poster is
  poster    \* the thread that called post() in this lifetime

vars == <<mayBlock, state, wpc, timed, ret, ppc, poster>>

States == {"INIT", "EARLY_DELIVERY", "WAITING", "LATE_DELIVERY", "TIMED_OUT"}
WaiterPCs == {"idle", "spin", "cas", "futex", "asleep", "check", "expired", "returned"}
PosterPCs == {"idle", "cas", "store", "wake"}

Init ==
  /\ mayBlock \in BOOLEAN
  /\ state = "INIT"
  /\ wpc = "idle"
  /\ timed = FALSE
  /\ ret = FALSE
  /\ ppc = [p \in Posters |-> "idle"]
  /\ poster = NoPoster

ready == state \in {"EARLY_DELIVERY", "LATE_DELIVERY"}

WaitReturns(r) == wpc' = "returned" /\ ret' = r
-----------------------------------------------------------------------------
(* The waiter. *)

\* try_wait(): one load; it may be repeated until it returns TRUE.
try_wait ==
  /\ wpc = "idle"
  /\ state = "EARLY_DELIVERY"
  /\ WaitReturns(TRUE)
  /\ UNCHANGED <<mayBlock, state, timed, ppc, poster>>

\* wait(), try_wait_for() and try_wait_until(): the try_wait() they begin with
\* fails and tryWaitSlow() starts.  (When it succeeds the call is try_wait.)
wait(t) ==
  /\ wpc = "idle"
  /\ state # "EARLY_DELIVERY"
  /\ wpc' = "spin"
  /\ timed' = t
  /\ UNCHANGED <<mayBlock, state, ret, ppc, poster>>

\* spin_pause_until / spin_yield_until: ready() seen, deadline passed, or (only
\* when the baton may block) the spinning phase is over.
SpinSuccess ==
  /\ wpc = "spin"
  /\ ready
  /\ WaitReturns(TRUE)
  /\ UNCHANGED <<mayBlock, state, timed, ppc, poster>>

\* Mutant: the spinning phase of an untimed wait gives up as well.
SpinTimeoutAlways ==
  /\ wpc = "spin"
  /\ WaitReturns(FALSE)
  /\ UNCHANGED <<mayBlock, state, timed, ppc, poster>>

SpinTimeout ==
  /\ wpc = "spin"
  /\ timed
  /\ WaitReturns(FALSE)
  /\ UNCHANGED <<mayBlock, state, timed, ppc, poster>>

SpinAdvance ==
  /\ wpc = "spin"
  /\ mayBlock
  /\ wpc' = "cas"
  /\ UNCHANGED <<mayBlock, state, timed, ret, ppc, poster>>

\* The CAS from INIT to WAITING; losing it to a post() is success.
WaitCas ==
  /\ wpc = "cas"
  /\ \/ state = "INIT" /\ state' = "WAITING" /\ wpc' = "futex" /\ UNCHANGED ret
     \/ state # "INIT" /\ WaitReturns(TRUE) /\ UNCHANGED state
  /\ UNCHANGED <<mayBlock, timed, ppc, poster>>

\* futexWaitUntil(state_, WAITING, deadline): the kernel compares and sleeps in
\* one step; a changed word is VALUE_CHANGED.
FutexWait ==
  /\ wpc = "futex"
  /\ wpc' = IF state = "WAITING" THEN "asleep" ELSE "check"
  /\ UNCHANGED <<mayBlock, state, timed, ret, ppc, poster>>

\* A sleeper may return AWOKEN or INTERRUPTED with no matching wake.
SpuriousWakeup ==
  /\ wpc = "asleep"
  /\ wpc' = "check"
  /\ UNCHANGED <<mayBlock, state, timed, ret, ppc, poster>>

\* MemoryIdler's own shorter time-out: caches are flushed, then it waits again.
IdleTimeout ==
  /\ wpc = "asleep"
  /\ wpc' = "futex"
  /\ UNCHANGED <<mayBlock, state, timed, ret, ppc, poster>>

\* The deadline passes while asleep: the futex call returns TIMEDOUT ...
SleepTimeout ==
  /\ wpc = "asleep"
  /\ timed
  /\ wpc' = "expired"
  /\ UNCHANGED <<mayBlock, state, timed, ret, ppc, poster>>

\* ... and only then TIMED_OUT is stored, over whatever post() wrote meanwhile.
StoreTimedOut ==
  /\ wpc = "expired"
  /\ state' = "TIMED_OUT"
  /\ WaitReturns(FALSE)
  /\ UNCHANGED <<mayBlock, timed, ppc, poster>>

\* "state_ is the truth even if FUTEX_WAIT reported a matching FUTEX_WAKE".
CheckState ==
  /\ wpc = "check"
  /\ \/ state = "LATE_DELIVERY" /\ WaitReturns(TRUE)
     \/ state # "LATE_DELIVERY" /\ wpc' = "futex" /\ UNCHANGED ret
  /\ UNCHANGED <<mayBlock, state, timed, ppc, poster>>

\* Mutant: reset after a time-out although a post() is still in flight.
ResetAllowedAlways == wpc = "returned"

\* The waiter knows the lifetime is over when its wait succeeded; after a
\* time-out it must know that no post() of this lifetime is still running.
ResetAllowed ==
  /\ wpc = "returned"
  /\ ret \/ \A p \in Posters : p = poster => ppc[p] = "idle"

reset ==
  /\ ResetAllowed
  /\ state' = "INIT"
  /\ wpc' = "idle"
  /\ timed' = FALSE
  /\ ret' = FALSE
  /\ poster' = NoPoster
  /\ UNCHANGED <<mayBlock, ppc>>
-----------------------------------------------------------------------------
(* The posters. *)

\* post() without MayBlock is one store.
PostSpinOnly(p) ==
  /\ ~mayBlock
  /\ poster = NoPoster
  /\ poster' = p
  /\ state' = "EARLY_DELIVERY"
  /\ UNCHANGED <<mayBlock, wpc, timed, ret, ppc>>

\* After the word was read and is not INIT: nobody waits any more, or LATE_DELIVERY.
AfterLoad(s) == IF s = "TIMED_OUT" THEN "idle" ELSE "store"

\* post(): the first load of state_.
PostLoad(p) ==
  /\ mayBlock
  /\ poster = NoPoster
  /\ ppc[p] = "idle"
  /\ poster' = p
  /\ ppc' = [ppc EXCEPT ![p] = IF state = "INIT" THEN "cas" ELSE AfterLoad(state)]
  /\ UNCHANGED <<mayBlock, state, wpc, timed, ret>>

\* The CAS from INIT to EARLY_DELIVERY; when it fails, before is the new value.
PostCas(p) ==
  /\ ppc[p] = "cas"
  /\ \/ /\ state = "INIT"
        /\ state' = "EARLY_DELIVERY"
        /\ ppc' = [ppc EXCEPT ![p] = "idle"]
     \/ /\ state # "INIT"
        /\ ppc' = [ppc EXCEPT ![p] = AfterLoad(state)]
        /\ UNCHANGED state
  /\ UNCHANGED <<mayBlock, wpc, timed, ret, poster>>

\* Mutant: the store is the last step and nobody is woken.
PostStoreNoWake(p) ==
  /\ ppc[p] = "store"
  /\ state' = "LATE_DELIVERY"
  /\ ppc' = [ppc EXCEPT ![p] = "idle"]
  /\ UNCHANGED <<mayBlock, wpc, timed, ret, poster>>

PostStore(p) ==
  /\ ppc[p] = "store"
  /\ state' = "LATE_DELIVERY"
  /\ ppc' = [ppc EXCEPT ![p] = "wake"]
  /\ UNCHANGED <<mayBlock, wpc, timed, ret, poster>>

\* futexWake(&state_, 1), perhaps in a later lifetime of the same word.
PostWake(p) ==
  /\ ppc[p] = "wake"
  /\ ppc' = [ppc EXCEPT ![p] = "idle"]
  /\ wpc' = IF wpc = "asleep" THEN "check" ELSE wpc
  /\ UNCHANGED <<mayBlock, state, timed, ret, poster>>
-----------------------------------------------------------------------------
WaiterNext ==
  \/ try_wait
  \/ \E t \in BOOLEAN : wait(t)
  \/ SpinSuccess \/ SpinTimeout \/ SpinAdvance
  \/ WaitCas \/ FutexWait
  \/ SpuriousWakeup \/ IdleTimeout \/ SleepTimeout \/ StoreTimedOut
  \/ CheckState
  \/ reset

PosterNext(p) ==
  PostSpinOnly(p) \/ PostLoad(p) \/ PostCas(p) \/ PostStore(p) \/ PostWake(p)

Next == WaiterNext \/ \E p \in Posters : PosterNext(p)

Spec == Init /\ [][Next]_vars

\* A thread inside a call keeps running, and clocks advance.  Nothing is assumed
\* of spurious wake-ups, nor that anybody ever calls post(), wait() or reset().
\* A deadline is absolute: a waiter that sleeps again and again passes it.
Fairness ==
  /\ WF_vars(SpinSuccess \/ SpinTimeout \/ SpinAdvance)
  /\ WF_vars(WaitCas) /\ WF_vars(FutexWait) /\ WF_vars(CheckState)
  /\ WF_vars(StoreTimedOut)
  /\ SF_vars(SleepTimeout)
  /\ \A p \in Posters : WF_vars(PostCas(p)) /\ WF_vars(PostStore(p)) /\ WF_vars(PostWake(p))

FairSpec == Spec /\ Fairness
-----------------------------------------------------------------------------
(* Properties. *)

TypeOK ==
  /\ mayBlock \in BOOLEAN
  /\ state \in States
  /\ wpc \in WaiterPCs
  /\ timed \in BOOLEAN
  /\ ret \in BOOLEAN
  /\ ppc \in [Posters -> PosterPCs]
  /\ poster \in Posters \cup {NoPoster}

\* post() of this lifetime has had its effect (it stored a delivery, or found
\* the waiter gone).
Posted == poster # NoPoster /\ ppc[poster] \in {"idle", "wake"}

\* A wait returns true only when a post() of the same lifetime delivered: a
\* wake-up left over from an earlier lifetime, or a spurious one, is never
\* taken for a delivery (the comment in tryWaitSlow).
NoFalseDelivery == (wpc = "returned" /\ ret) => Posted

\* No lost wake-up: whenever the word is no longer WAITING while the waiter
\* sleeps in the futex, the poster that changed it is still about to call
\* futexWake.
NoLostWakeup ==
  (wpc = "asleep" /\ state # "WAITING") => (poster # NoPoster /\ ppc[poster] = "wake")

\* A post() that outlives its lifetime (the waiter returned and reset the baton
\* before the poster returned) writes nothing any more; only its wake is left.
OldPostersOnlyWake == \A p \in Posters : p # poster => ppc[p] \in {"idle", "wake"}

\* The assert()s of post(), spin-only and blocking, of tryWaitSlow() and of
\* reset(): what each of them reads.
AssertionsHold ==
  /\ poster = NoPoster =>
       state \in IF mayBlock THEN {"INIT", "WAITING", "TIMED_OUT"} ELSE {"INIT", "EARLY_DELIVERY"}
  /\ \A p \in Posters : ppc[p] = "store" => state \in {"WAITING", "TIMED_OUT"}
  /\ \A p \in Posters : ppc[p] = "cas" => state \in {"INIT", "WAITING", "TIMED_OUT"}
  /\ wpc \in {"idle", "cas"} => state \in {"INIT", "EARLY_DELIVERY"}
  /\ wpc = "check" => state \in {"WAITING", "LATE_DELIVERY"}
  /\ wpc = "returned" => state # "WAITING"

\* The inductive strengthening: what the word may hold, seen from the poster of
\* this lifetime and seen from the waiter.
PosterView ==
  /\ ~mayBlock => state \in {"INIT", "EARLY_DELIVERY"} /\ \A p \in Posters : ppc[p] = "idle"
  /\ poster = NoPoster => state \in {"INIT", "WAITING", "TIMED_OUT"}
  /\ \A p \in Posters : p = poster =>
       /\ ppc[p] = "cas" => state \in {"INIT", "WAITING", "TIMED_OUT"}
       /\ ppc[p] = "store" => state \in {"WAITING", "TIMED_OUT"}
       /\ ppc[p] = "wake" => state \in {"LATE_DELIVERY", "TIMED_OUT"}
       /\ ppc[p] = "idle" => state \in {"EARLY_DELIVERY", "LATE_DELIVERY", "TIMED_OUT"}

WaiterView ==
  /\ wpc \in {"idle", "spin", "cas"} => state \in {"INIT", "EARLY_DELIVERY"}
  /\ wpc \in {"futex", "asleep", "check", "expired"} =>
       state \in {"WAITING", "LATE_DELIVERY"} /\ mayBlock
  /\ wpc = "cas" => mayBlock
  /\ wpc = "expired" => timed
  /\ wpc = "returned" => state # "WAITING" /\ (ret => ready)

\* The inductive invariant, which implies the invariants above: what the waiter
\* and the poster of this lifetime may each conclude from where they are in
\* tryWaitSlow() and post() about the word that the other may be changing, with
\* posters of earlier lifetimes having nothing but their wake left.
IInv == TypeOK /\ OldPostersOnlyWake /\ PosterView /\ WaiterView /\ NoLostWakeup

\* A wait returns if the baton is or will be posted, and if it has a deadline:
\* neither a racing post nor any number of spurious wakes keeps it asleep.
WaitEnds ==
  (wpc \notin {"idle", "returned"} /\ (timed \/ poster # NoPoster)) ~> (wpc = "returned")

\* The hand-off this implements.
waitStatus ==
  IF wpc = "idle" THEN "no"
  ELSE IF wpc # "returned" THEN "waiting"
  ELSE IF ret THEN "true" ELSE "false"

H == INSTANCE Handoff WITH posted <- Posted, outcome <- waitStatus, bounded <- timed

\* Every step of the racing implementation is a step of the single hand-off, or
\* invisible to the users of the baton.
HandoffSpec == H!Spec
=============================================================================
