----------------------------- MODULE SharedMutex -----------------------------
(***************************************************************************)
(* folly::SharedMutexImpl (SharedMutex.h): a reader-writer lock in one word, *)
(* with an upgrade mode, waiters registered in the word, and readers that   *)
(* may be recorded in a table shared with all other locks instead (deferred *)
(* readers).  Both priorities, blocking, timed and non-blocking locking,    *)
(* readers with and without a token, up- and downgrades and destruction.    *)
(*                                                                         *)
(* The word is its reader count and the set of its other bits.  A load, a   *)
(* computation and a compare-and-swap that succeeds are one step: the word   *)
(* is the one loaded, and a failed attempt starts over.  What is decided on  *)
(* an older value keeps it in saw.  Which slots a reader tries is a hint,    *)
(* and the slots are shared with other locks, so any empty slot may be       *)
(* tried and a try may fail.  Spinning is left out.                          *)
(***************************************************************************)
EXTENDS Integers, FiniteSets, FiniteSetsExt

CONSTANTS
    Threads,
    NumSlots,     \* getMaxDeferredReaders()
    Programs,     \* [readerPriority, kinds]: the template parameter, and what each thread locks
    Contexts,     \* the wait contexts of calls: a subset of {"forever", "timed", "never"}
    Liberties     \* uses the lock does not support: a subset of {"releaseToken"}

ASSUME SlotsAssumption == NumSlots \in Nat

VARIABLES
    program,
    state,            \* state_
    slots,            \* deferredReaders: what each slot holds of this lock
    hold,             \* how each thread holds the lock
    slotOf,           \* Token::slot_, or the slot a reader has just recorded
    pc,
    kind,             \* what a thread locks; "NotS" when it waits for the readers to leave
    ctx,              \* the wait context of its call
    saw,              \* a value of the word (or of a slot) that is not current any more
    scan,             \* slots still to look at
    moved,            \* movedSlotCount
    wake,             \* the mask of a futexWake to come
    destroyed,
    bad               \* assert()s that failed

fixed == <<program, destroyed>>
vars == <<fixed, state, slots, hold, slotOf, pc, kind, ctx, saw, scan, moved, wake, bad>>

readerPriority == program.readerPriority
-----------------------------------------------------------------------------
(* The bits of the word *)

kWaitingE == {"kWaitingESingle", "kWaitingEMultiple"}
kWaitingESU == kWaitingE \cup {"kWaitingU", "kWaitingS"}
kWaitingAny == kWaitingESU \cup {"kWaitingNotS"}
kHasSolo == {"kHasE", "kBegunE", "kHasU"}
Bits == kWaitingAny \cup kHasSolo \cup {"kMayDefer", "kPrevDefer", "kReleaseInProgress"}

Slots == 1..NumSlots

Has(b) == b \in state.bits
With(w, b) == [w EXCEPT !.bits = @ \cup b]
Without(w, b) == [w EXCEPT !.bits = @ \ b]
AddS(w, n) == [w EXCEPT !.s = @ + n]
Zero == [s |-> 0, bits |-> {}]

-----------------------------------------------------------------------------
Init ==
    /\ program \in Programs
    /\ state = Zero
    /\ slots = [i \in Slots |-> "empty"]
    /\ hold = [t \in Threads |-> "none"]
    /\ slotOf = [t \in Threads |-> 0]
    /\ pc = [t \in Threads |-> "idle"]
    /\ kind = [t \in Threads |-> "none"]
    /\ ctx = [t \in Threads |-> "none"]
    /\ saw = [t \in Threads |-> Zero]
    /\ scan = [t \in Threads |-> {}]
    /\ moved = [t \in Threads |-> 0]
    /\ wake = [t \in Threads |-> {}]
    /\ destroyed = FALSE
    /\ bad = {}

Goto(t, l) == pc' = [pc EXCEPT ![t] = l]
Expect(label, cond) == bad' = IF cond THEN bad ELSE bad \cup {label}
Word(w) == state' = w

(* Where a thread goes when it has given back a shared lock: out of         *)
(* unlock_shared(), or back to the start of the lock_shared() it undoes.     *)
Resume(t) == IF kind[t] = "none" THEN "idle" ELSE "try"

(* The call is over, the thread holds the lock as h. *)
Return(t, h) ==
    /\ Goto(t, "idle")
    /\ hold' = [hold EXCEPT ![t] = h]
    /\ kind' = [kind EXCEPT ![t] = "none"]
    /\ ctx' = [ctx EXCEPT ![t] = "none"]
    /\ slotOf' = [slotOf EXCEPT ![t] = IF h = "deferred" THEN @ ELSE 0]
    /\ UNCHANGED wake

-----------------------------------------------------------------------------
(* Waiting *)

(* The bits that must be zero, and the bits that register a waiter. *)
GoalMet(t) ==
    CASE kind[t] = "E" -> hold[t] = "U" \/ state.bits \cap kHasSolo = {}
      [] kind[t] = "U" -> state.bits \cap kHasSolo = {}
      [] kind[t] \in {"S", "T"} -> ~Has("kHasE")
      [] kind[t] = "NotS" -> state.s = 0
WaitMask(k) ==
    CASE k = "E" -> kWaitingE [] k = "U" -> {"kWaitingU"} [] k \in {"S", "T"} -> {"kWaitingS"}
      [] k = "NotS" -> {"kWaitingNotS"}

(* The bits set before sleeping: a second exclusive waiter sets the second one. *)
Registered(k) ==
    IF k # "E" THEN WaitMask(k)
    ELSE IF Has("kWaitingESingle") THEN {"kWaitingEMultiple"} ELSE {"kWaitingESingle"}

Register(t) ==
    /\ pc[t] = "try" /\ ctx[t] # "never" /\ ~GoalMet(t)
    /\ Word(With(state, Registered(kind[t])))
    /\ saw' = [saw EXCEPT ![t] = state']
    /\ Goto(t, "park")
    /\ UNCHANGED <<fixed, slots, hold, slotOf, kind, ctx, scan, moved, wake, bad>>

(* doWait(): the futex lets the thread sleep only if the word is as expected. *)
Park(t) ==
    /\ pc[t] = "park"
    /\ Goto(t, IF state = saw[t] THEN "asleep" ELSE "try")
    /\ saw' = [saw EXCEPT ![t] = Zero]
    /\ UNCHANGED <<fixed, state, slots, hold, slotOf, kind, ctx, scan, moved, wake, bad>>

Spurious(t) ==
    /\ pc[t] = "asleep"
    /\ Goto(t, "try")
    /\ UNCHANGED <<fixed, state, slots, hold, slotOf, kind, ctx, saw, scan, moved, wake, bad>>

Sleepers(mask) == {u \in Threads : pc[u] = "asleep" /\ WaitMask(kind[u]) \cap mask # {}}

(* A release has published its word; if bits were registered a wake-up follows. *)
ThenWake(t, mask) ==
    /\ wake' = [wake EXCEPT ![t] = mask]
    /\ Goto(t, IF mask = {} THEN Resume(t) ELSE "wake")

WakeAll(t) ==
    /\ pc[t] = "wake"
    /\ pc' = [u \in Threads |-> IF u = t THEN Resume(t) ELSE IF u \in Sleepers(wake[t]) THEN "try" ELSE pc[u]]
    /\ wake' = [wake EXCEPT ![t] = {}]
    /\ UNCHANGED <<fixed, state, slots, hold, slotOf, kind, ctx, saw, scan, moved, bad>>

(* futexWake(1, kWaitingE): one exclusive waiter, or none. *)
WakeOne(t, woke, none) ==
    \/ \E u \in Sleepers(kWaitingE) : pc' = [pc EXCEPT ![u] = "try", ![t] = woke]
    \/ /\ Sleepers(kWaitingE) = {}
       /\ Goto(t, none)

(* wakeRegisteredWaiters(), entered with the word w that the caller stored. *)
WakeRegistered(t, w, mask) ==
    LET found == w.bits \cap mask IN
    /\ wake' = [wake EXCEPT ![t] = IF found = {} THEN {} ELSE mask]
    /\ Goto(t, IF found = {} THEN "idle" ELSE IF found = kWaitingE THEN "wakeOne" ELSE "clearWaiting")

WakeRegisteredOne(t) ==
    /\ pc[t] = "wakeOne"
    /\ WakeOne(t, "idle", "clearWaiting")
    /\ wake' = [wake EXCEPT ![t] = IF pc'[t] = "idle" THEN {} ELSE @]
    /\ UNCHANGED <<fixed, state, slots, hold, slotOf, kind, ctx, saw, scan, moved, bad>>

WakeRegisteredAll(t) ==
    /\ pc[t] = "clearWaiting"
    /\ Word(Without(state, wake[t]))
    /\ ThenWake(t, IF state.bits \cap wake[t] = {} THEN {} ELSE wake[t])
    /\ UNCHANGED <<fixed, slots, hold, slotOf, kind, ctx, saw, scan, moved, bad>>

-----------------------------------------------------------------------------
(* Locking *)

(* lock(), lock_upgrade(), lock_shared() ("S"), lock_shared(token) ("T"), and *)
(* their try_ forms.                                                         *)
Call(t, k, c) ==
    /\ pc[t] = "idle" /\ hold[t] = "none" /\ ~destroyed
    /\ Goto(t, "try")
    /\ kind' = [kind EXCEPT ![t] = k]
    /\ ctx' = [ctx EXCEPT ![t] = c]
    /\ UNCHANGED <<fixed, state, slots, hold, slotOf, saw, scan, moved, wake, bad>>

(* unlock_upgrade_and_lock() *)
CallUpgrade(t) ==
    /\ pc[t] = "idle" /\ hold[t] = "U"
    /\ Goto(t, "try")
    /\ kind' = [kind EXCEPT ![t] = "E"]
    /\ ctx' = [ctx EXCEPT ![t] = "forever"]
    /\ UNCHANGED <<fixed, state, slots, hold, slotOf, saw, scan, moved, wake, bad>>

TimedOut(t) ==
    /\ ctx[t] # "forever" /\ kind[t] \in {"E", "U", "S", "T"}
    /\ (pc[t] = "try" /\ ~GoalMet(t)) \/ (pc[t] = "asleep" /\ ctx[t] = "timed")
    /\ Return(t, "none")
    /\ UNCHANGED <<fixed, state, slots, saw, scan, moved, bad>>

LockUpgrade(t) ==
    /\ pc[t] = "try" /\ kind[t] = "U" /\ GoalMet(t)
    /\ Word(With(state, {"kHasU"}))
    /\ Return(t, "U")
    /\ UNCHANGED <<fixed, slots, saw, scan, moved, bad>>

(* lockExclusiveImpl(): with no readers the lock is taken in this step, else *)
(* the deferred readers are moved into the word and the readers drained.     *)
LockExclusive(t) ==
    LET defer == Has("kMayDefer")
        oneStep == ~defer /\ state.s = 0
        begin == IF readerPriority /\ ~oneStep THEN "kBegunE" ELSE "kHasE"
    IN
    /\ pc[t] = "try" /\ kind[t] = "E" /\ GoalMet(t)
    /\ Word(With(Without(state, {"kHasU", "kMayDefer"}),
                 {begin} \cup IF defer THEN {"kPrevDefer"} ELSE {}))
    /\ IF oneStep
       THEN Return(t, "E") /\ UNCHANGED <<saw, scan>>
       ELSE /\ hold' = [hold EXCEPT ![t] = "none"]
            /\ kind' = [kind EXCEPT ![t] = "NotS"]
            /\ Goto(t, IF defer THEN "apply" ELSE "try")
            /\ scan' = [scan EXCEPT ![t] = IF defer THEN Slots ELSE {}]
            /\ saw' = [saw EXCEPT ![t] = IF defer THEN AddS(Zero, state.s) ELSE Zero]
            /\ UNCHANGED <<slotOf, ctx, wake>>
    /\ UNCHANGED <<fixed, slots, moved, bad>>

First(S) == CHOOSE i \in S : \A j \in S : i <= j

(* spinForDeferredReaders(), applyDeferredReaders(): the slots in order.  A  *)
(* slot is loaded, and cleared if it still holds what was loaded.            *)
ApplyLoad(t) ==
    LET i == First(scan[t]) IN
    /\ pc[t] = "apply" /\ scan[t] # {}
    /\ IF slots[i] = "empty"
       THEN /\ scan' = [scan EXCEPT ![t] = @ \ {i}]
            /\ UNCHANGED <<pc, saw>>
       ELSE /\ Goto(t, "applyCas")
            /\ saw' = [saw EXCEPT ![t].bits = {slots[i]}]
            /\ UNCHANGED scan
    /\ UNCHANGED <<fixed, state, slots, hold, slotOf, kind, ctx, moved, wake, bad>>

ApplyCas(t) ==
    LET i == First(scan[t]) IN
    /\ pc[t] = "applyCas"
    /\ Goto(t, "apply")
    /\ scan' = [scan EXCEPT ![t] = @ \ {i}]
    /\ saw' = [saw EXCEPT ![t].bits = {}]
    /\ IF slots[i] \in saw[t].bits
       THEN /\ slots' = [slots EXCEPT ![i] = "empty"]
            /\ moved' = [moved EXCEPT ![t] = @ + 1]
       ELSE UNCHANGED <<slots, moved>>
    /\ UNCHANGED <<fixed, state, hold, slotOf, kind, ctx, wake, bad>>

(* What was moved is added.  With writer priority the lock is taken if the  *)
(* last value seen of the word has no readers.                               *)
ApplyEnd(t) ==
    LET w == AddS(state, moved[t])
        s == IF moved[t] > 0 THEN w.s ELSE saw[t].s
    IN
    /\ pc[t] = "apply" /\ scan[t] = {}
    /\ Word(w)
    /\ Expect("applyDeferredReaders", moved[t] > 0 => s # -1)
    /\ moved' = [moved EXCEPT ![t] = 0]
    /\ saw' = [saw EXCEPT ![t] = Zero]
    /\ IF s = 0 /\ ~readerPriority
       THEN Return(t, "E")
       ELSE Goto(t, "try") /\ UNCHANGED <<hold, kind, ctx, slotOf, wake>>
    /\ UNCHANGED <<fixed, slots, scan>>

DrainDone(t) ==
    /\ pc[t] = "try" /\ kind[t] = "NotS" /\ GoalMet(t)
    /\ Word(IF Has("kBegunE") THEN With(Without(state, {"kBegunE"}), {"kHasE"}) ELSE state)
    /\ Expect("lockExclusiveImpl", (Has("kHasE") \/ Has("kBegunE")) /\ ~Has("kHasU"))
    /\ Return(t, "E")
    /\ UNCHANGED <<fixed, slots, saw, scan, moved>>

(* The load that found readers may be old. *)
DrainTimedOut(t) ==
    LET w == Without(state, {"kPrevDefer", "kHasE", "kBegunE", "kWaitingNotS"}) IN
    /\ ctx[t] # "forever" /\ kind[t] = "NotS"
    /\ pc[t] = "try" \/ (pc[t] = "asleep" /\ ctx[t] = "timed")
    /\ Word(w)
    /\ kind' = [kind EXCEPT ![t] = "none"]
    /\ ctx' = [ctx EXCEPT ![t] = "none"]
    /\ WakeRegistered(t, w, kWaitingESU)
    /\ UNCHANGED <<fixed, slots, hold, slotOf, saw, scan, moved, bad>>

-----------------------------------------------------------------------------
(* lockSharedImpl() *)

SharedInline(t) ==
    /\ pc[t] = "try" /\ kind[t] \in {"S", "T"} /\ GoalMet(t)
    /\ Word(AddS(state, 1))
    /\ Return(t, IF kind[t] = "S" THEN "tokenless" ELSE "inline")
    /\ UNCHANGED <<fixed, slots, saw, scan, moved, bad>>

(* From the second reader on, unless an exclusive lock is draining readers. *)
SharedDefer(t) ==
    /\ pc[t] = "try" /\ kind[t] \in {"S", "T"} /\ GoalMet(t)
    /\ Has("kMayDefer") \/ (state.s # 0 /\ ~(readerPriority /\ Has("kBegunE")))
    /\ Word(With(state, {"kMayDefer"}))
    /\ Goto(t, "slot")
    /\ UNCHANGED <<fixed, slots, hold, slotOf, kind, ctx, saw, scan, moved, wake, bad>>

TakeSlot(t, i) ==
    /\ pc[t] = "slot" /\ slots[i] = "empty"
    /\ slots' = [slots EXCEPT ![i] = IF kind[t] = "S" THEN "tokenless" ELSE "tokenful"]
    /\ slotOf' = [slotOf EXCEPT ![t] = i]
    /\ Goto(t, "check")
    /\ UNCHANGED <<fixed, state, hold, kind, ctx, saw, scan, moved, wake, bad>>

LoseSlot(t) ==
    /\ pc[t] = "slot"
    /\ Goto(t, "try")
    /\ UNCHANGED <<fixed, state, slots, hold, slotOf, kind, ctx, saw, scan, moved, wake, bad>>

\* Mutant: the recheck of kMayDefer is left out.
CheckDeferBlind(t) ==
    /\ pc[t] = "check"
    /\ Return(t, IF kind[t] = "S" THEN "tokenless" ELSE "deferred")
    /\ UNCHANGED <<fixed, state, slots, saw, scan, moved, bad>>

(* The recheck after recording the deferred lock, and how it is undone. *)
CheckDefer(t) ==
    /\ pc[t] = "check"
    /\ IF Has("kMayDefer")
       THEN /\ Return(t, IF kind[t] = "S" THEN "tokenless" ELSE "deferred")
            /\ Expect("lockSharedImpl", ~Has("kHasE"))
            /\ UNCHANGED scan
       ELSE /\ Goto(t, IF kind[t] = "S" THEN "scan" ELSE "freeSlot")
            /\ scan' = [scan EXCEPT ![t] = IF kind[t] = "S" THEN Slots ELSE {}]
            /\ UNCHANGED <<hold, slotOf, kind, ctx, wake, bad>>
    /\ UNCHANGED <<fixed, state, slots, saw, moved>>

-----------------------------------------------------------------------------
(* unlock_shared() *)

UnlockShared(t) ==
    LET mayDefer == Has("kMayDefer") \/ Has("kPrevDefer") IN
    /\ pc[t] = "idle" /\ hold[t] \in {"tokenless", "inline", "deferred"}
    /\ Goto(t, CASE hold[t] = "deferred" -> "freeSlot"
                 [] hold[t] = "tokenless" /\ mayDefer -> "scan"
                 [] OTHER -> "inline")
    /\ scan' = [scan EXCEPT ![t] = IF hold[t] = "tokenless" /\ mayDefer THEN Slots ELSE {}]
    /\ Expect("unlock_shared", hold[t] = "tokenless" /\ Has("kPrevDefer") => Has("kHasE") \/ Has("kBegunE"))
    /\ UNCHANGED <<fixed, state, slots, hold, slotOf, kind, ctx, saw, moved, wake>>

Released(t) ==
    /\ hold' = [hold EXCEPT ![t] = "none"]
    /\ slotOf' = [slotOf EXCEPT ![t] = 0]

(* tryUnlockTokenlessSharedDeferred(): any slot with a lock without a token  *)
(* will do.  Undoing a lock starts with the slot just recorded (that is the  *)
(* thread's last tokenless slot), unlock_shared() may start anywhere.        *)
Scan(t, i) ==
    /\ pc[t] = "scan" /\ i \in scan[t]
    /\ slotOf[t] \in scan[t] => i = slotOf[t]
    /\ IF slots[i] = "tokenless"
       THEN /\ slots' = [slots EXCEPT ![i] = "empty"]
            /\ scan' = [scan EXCEPT ![t] = {}]
            /\ Goto(t, Resume(t))
            /\ Released(t)
       ELSE /\ scan' = [scan EXCEPT ![t] = @ \ {i}]
            /\ Goto(t, IF scan[t] = {i} THEN "inline" ELSE "scan")
            /\ UNCHANGED <<slots, hold, slotOf>>
    /\ UNCHANGED <<fixed, state, kind, ctx, saw, moved, wake, bad>>

(* tryUnlockSharedDeferred() *)
FreeSlot(t) ==
    /\ pc[t] = "freeSlot"
    /\ IF slots[slotOf[t]] = "tokenful"
       THEN /\ slots' = [slots EXCEPT ![slotOf[t]] = "empty"]
            /\ Goto(t, Resume(t))
            /\ Released(t)
       ELSE /\ Goto(t, "inline")
            /\ UNCHANGED <<slots, hold, slotOf>>
    /\ UNCHANGED <<fixed, state, kind, ctx, saw, scan, moved, wake, bad>>

UnlockSharedInline(t) ==
    LET w == AddS(state, -1) IN
    /\ pc[t] = "inline"
    /\ Word(w)
    /\ Expect("unlockSharedInline", w.bits \cap {"kHasE", "kBegunE", "kMayDefer"} # {} \/ w.s # -1)
    /\ Released(t)
    /\ ThenWake(t, IF w.s = 0 THEN w.bits \cap {"kWaitingNotS"} ELSE {})
    /\ UNCHANGED <<fixed, slots, kind, ctx, saw, scan, moved>>

(* What release_token() finds in the slot is another reader's when its own lock *)
(* has been moved into the word; "releaseToken" lets that happen.               *)
ReleaseToken(t) ==
    /\ pc[t] = "idle" /\ hold[t] \in {"inline", "deferred"}
    /\ "releaseToken" \in Liberties \/ hold[t] = "inline" \/ Has("kMayDefer")
    /\ slots' = [i \in Slots |-> IF i = slotOf[t] /\ slots[i] = "tokenful" THEN "tokenless" ELSE slots[i]]
    /\ hold' = [hold EXCEPT ![t] = "tokenless"]
    /\ slotOf' = [slotOf EXCEPT ![t] = 0]
    /\ UNCHANGED <<fixed, state, pc, kind, ctx, saw, scan, moved, wake, bad>>

-----------------------------------------------------------------------------
(* unlock(), unlock_upgrade() and the downgrades *)

ExclusiveOwned ==
    state.s = 0 /\ state.bits \ (kWaitingAny \cup {"kPrevDefer", "kReleaseInProgress"}) = {"kHasE"}
UpgradeOwned == Has("kHasU") /\ state.bits \cap {"kWaitingNotS", "kHasE", "kBegunE"} = {}

\* Mutant: the release does not mark the word.
ReleaseOneUnmarked(t, own, mask) ==
    /\ state.bits \cap (mask \cup {"kReleaseInProgress"}) = kWaitingE
    /\ Word(Without(state, own))
    /\ Goto(t, "finishWakeOne")
    /\ UNCHANGED wake

(* Several exclusive waiters and nobody else: one is woken, and the word     *)
(* says that this release is not done with it.  Otherwise all are woken, by  *)
(* the address alone.                                                        *)
ReleaseOne(t, own, mask) ==
    /\ state.bits \cap (mask \cup {"kReleaseInProgress"}) = kWaitingE
    /\ Word(With(Without(state, own), {"kReleaseInProgress"}))
    /\ Goto(t, "finishWakeOne")
    /\ UNCHANGED wake
ReleaseAll(t, own, mask) ==
    /\ Word(Without(state, own \cup mask))
    /\ ThenWake(t, state.bits \cap mask)

Unlock(t) ==
    LET own == {"kWaitingNotS", "kPrevDefer", "kHasE"} IN
    /\ pc[t] = "idle" /\ hold[t] = "E"
    /\ Expect("unlock", ExclusiveOwned)
    /\ hold' = [hold EXCEPT ![t] = "none"]
    /\ IF state.bits \cap (kWaitingESU \cup {"kReleaseInProgress"}) = kWaitingE
       THEN ReleaseOne(t, own, kWaitingESU)
       ELSE ReleaseAll(t, own, kWaitingESU)
    /\ UNCHANGED <<fixed, slots, slotOf, kind, ctx, saw, scan, moved>>

(* The fast path clears whatever is registered since its load. *)
UnlockUpgrade(t) ==
    /\ pc[t] = "idle" /\ hold[t] = "U"
    /\ Expect("unlock_upgrade", UpgradeOwned)
    /\ hold' = [hold EXCEPT ![t] = "none"]
    /\ \/ ReleaseOne(t, {"kHasU"}, kWaitingE \cup {"kWaitingU"})
       \/ ReleaseAll(t, {"kHasU"}, kWaitingE \cup {"kWaitingU"})
    /\ UNCHANGED <<fixed, slots, slotOf, kind, ctx, saw, scan, moved>>

FinishWakeOne(t) ==
    /\ pc[t] = "finishWakeOne"
    /\ WakeOne(t, "clearRelease", "clearBoth")
    /\ UNCHANGED <<fixed, state, slots, hold, slotOf, kind, ctx, saw, scan, moved, wake, bad>>

\* Mutant: a wake-one that found nobody clears the bits and wakes nobody.
FinishReleaseSilent(t) ==
    /\ pc[t] \in {"clearRelease", "clearBoth"}
    /\ Word(Without(state, {"kReleaseInProgress"} \cup IF pc[t] = "clearBoth" THEN kWaitingE ELSE {}))
    /\ ThenWake(t, {})
    /\ UNCHANGED <<fixed, slots, hold, slotOf, kind, ctx, saw, scan, moved, bad>>

FinishRelease(t) ==
    LET clear == {"kReleaseInProgress"} \cup IF pc[t] = "clearBoth" THEN kWaitingE ELSE {} IN
    /\ pc[t] \in {"clearRelease", "clearBoth"}
    /\ Word(Without(state, clear))
    /\ ThenWake(t, state.bits \cap clear \cap kWaitingE)
    /\ UNCHANGED <<fixed, slots, hold, slotOf, kind, ctx, saw, scan, moved, bad>>

UnlockAndLockShared(t, h) ==
    /\ pc[t] = "idle" /\ hold[t] = "E"
    /\ Expect("unlock_and_lock_shared", ExclusiveOwned)
    /\ Word(AddS(Without(state, kWaitingAny \cup {"kPrevDefer", "kHasE"}), 1))
    /\ hold' = [hold EXCEPT ![t] = h]
    /\ ThenWake(t, IF state.bits \cap kWaitingESU = {} THEN {} ELSE kWaitingESU)
    /\ UNCHANGED <<fixed, slots, slotOf, kind, ctx, saw, scan, moved>>

UnlockAndLockUpgrade(t) ==
    /\ pc[t] = "idle" /\ hold[t] = "E"
    /\ Expect("unlock_and_lock_upgrade", ExclusiveOwned)
    /\ Word(With(Without(state, {"kWaitingNotS", "kWaitingS", "kPrevDefer", "kHasE"}), {"kHasU"}))
    /\ hold' = [hold EXCEPT ![t] = "U"]
    /\ ThenWake(t, state.bits \cap {"kWaitingS"})
    /\ UNCHANGED <<fixed, slots, slotOf, kind, ctx, saw, scan, moved>>

UnlockUpgradeAndLockShared(t, h) ==
    LET w == AddS(Without(state, {"kHasU"}), 1) IN
    /\ pc[t] = "idle" /\ hold[t] = "U"
    /\ Word(w)
    /\ Expect("unlock_upgrade_and_lock_shared", w.bits \cap ({"kWaitingNotS"} \cup kHasSolo) = {})
    /\ hold' = [hold EXCEPT ![t] = h]
    /\ WakeRegistered(t, w, kWaitingE \cup {"kWaitingU"})
    /\ UNCHANGED <<fixed, slots, slotOf, kind, ctx, saw, scan, moved>>

-----------------------------------------------------------------------------
(* Destruction *)

Tail == {"finishWakeOne", "clearRelease", "clearBoth", "wake"}

(* The caller sees to it that nobody holds, locks or waits for the lock; the *)
(* calls that released it need not have returned.                            *)
MayDestroy(t) ==
    /\ pc[t] = "idle" /\ ~destroyed
    /\ \A u \in Threads : hold[u] = "none" /\ kind[u] = "none" /\ pc[u] \in Tail \cup {"idle"}

(* cleanupTokenlessSharedDeferred(): a count below zero is made up for by    *)
(* slots that were missed by the unlock_shared() that took it below zero.    *)
Leftover == {i \in Slots : slots[i] = "tokenless"}
Cleaned == IF state.s = 0 THEN {} ELSE
             {i \in Leftover : state.s > 0 \/ Cardinality({j \in Leftover : j < i}) < -state.s}

Destroy(t) ==
    LET w == AddS(state, Cardinality(Cleaned))
        left == [i \in Slots |-> IF i \in Cleaned THEN "empty" ELSE slots[i]]
    IN
    /\ MayDestroy(t)
    /\ ~Has("kReleaseInProgress")
    /\ slots' = left
    /\ Expect("destructor",
              /\ "kWaitingNotS" \in w.bits => w.bits \cap {"kHasE", "kBegunE"} # {}
              /\ w.s = 0 /\ w.bits \subseteq kWaitingAny \cup {"kMayDefer"}
              /\ "kMayDefer" \in w.bits => \A i \in Slots : left[i] = "empty")
    /\ destroyed' = TRUE
    /\ UNCHANGED <<program, state, hold, slotOf, pc, kind, ctx, saw, scan, moved, wake>>

Next ==
    \E t \in Threads :
        \/ \E k \in program.kinds[t], c \in Contexts : Call(t, k, c)
        \/ CallUpgrade(t) \/ Register(t) \/ Park(t) \/ Spurious(t) \/ TimedOut(t)
        \/ LockUpgrade(t) \/ LockExclusive(t) \/ ApplyLoad(t) \/ ApplyCas(t) \/ ApplyEnd(t)
        \/ DrainDone(t) \/ DrainTimedOut(t)
        \/ SharedInline(t) \/ SharedDefer(t) \/ LoseSlot(t) \/ CheckDefer(t)
        \/ \E i \in Slots : TakeSlot(t, i) \/ Scan(t, i)
        \/ UnlockShared(t) \/ FreeSlot(t) \/ UnlockSharedInline(t) \/ ReleaseToken(t)
        \/ Unlock(t) \/ UnlockUpgrade(t) \/ FinishWakeOne(t) \/ FinishRelease(t)
        \/ UnlockAndLockUpgrade(t)
        \/ \E h \in {"tokenless", "inline"} : UnlockAndLockShared(t, h) \/ UnlockUpgradeAndLockShared(t, h)
        \/ WakeAll(t) \/ WakeRegisteredOne(t) \/ WakeRegisteredAll(t)
        \/ Destroy(t)

Spec == Init /\ [][Next]_vars

-----------------------------------------------------------------------------
(* Properties *)

Readers == {t \in Threads : hold[t] \in {"tokenless", "inline", "deferred"}}
Undoing == {t \in Threads : kind[t] \in {"S", "T"} /\ pc[t] \in {"check", "scan", "freeSlot", "inline"}}

\* The assert()s of SharedMutex.h hold; every shared lock, and every one that is
\* being undone, is counted exactly once, in the word, in a slot or by the thread
\* that moves it, although an unlock_shared() may give back another reader's slot;
\* and nobody shares the lock with an exclusive owner, nor is there a second
\* owner in upgrade mode.
Exclusion ==
    /\ bad = {}
    /\ ~destroyed =>
         state.s + Cardinality({i \in Slots : slots[i] # "empty"}) + MapThenSumSet(LAMBDA t : moved[t], Threads)
           = Cardinality(Readers) + Cardinality(Undoing)
    /\ \A t, u \in Threads : t # u /\ hold[t] \in {"E", "U"} =>
         hold[u] \in (IF hold[t] = "E" THEN {"none"} ELSE {"none", "tokenless", "inline", "deferred"})

\* When every thread is asleep or outside the lock's code, a sleeper is kept
\* from its lock by a thread that holds it (or, for the next step, by one that
\* waits for readers itself): no wake-up was lost between registering a waiter,
\* futexWait, the wake-one chain and locks that time out.
SleepersAreBlocked ==
    (\A t \in Threads : pc[t] \in {"idle", "asleep"}) =>
      \A t \in Threads : pc[t] = "asleep" =>
        \E u \in Threads \ {t} :
            CASE kind[t] = "NotS" -> u \in Readers
              [] kind[t] \in {"E", "U"} -> hold[u] \in {"E", "U"} \/ kind[u] = "NotS"
              [] OTHER -> hold[u] = "E" \/ (kind[u] = "NotS" /\ ~readerPriority)

\* The lock may be destroyed as soon as it is released: a release that has not
\* returned does not touch the word again (it may still wake by address), and no
\* slot is left pointing to the lock.
DestroyedIsUntouched ==
    destroyed => /\ \A t \in Threads : pc[t] \in {"idle", "wake"}
                 /\ \A i \in Slots : slots[i] = "empty"

\* release_token() leaves the lock held ("this does not unlock the mutex at any
\* point"): nobody gets the lock exclusively while a reader that has given up its
\* token holds it.
ReleaseTokenKeepsLock ==
    \A t, u \in Threads : hold[t] = "tokenless" => hold[u] # "E"
=============================================================================
