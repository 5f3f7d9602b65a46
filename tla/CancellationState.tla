-------------------------- MODULE CancellationState --------------------------
(***************************************************************************)
(* folly/CancellationToken.{h,cpp} and -inl.h: the state that              *)
(* CancellationSources, CancellationTokens and CancellationCallbacks share.*)
(* One word holds two flags and the numbers of token and source references;*)
(* its lock bit protects the list of callbacks.  The first thread to       *)
(* request cancellation runs the callbacks, without the lock, while others *)
(* register and destroy theirs and give up their references; a callback    *)
(* may do all of that as well, and may destroy itself.                     *)
(***************************************************************************)
EXTENDS Integers, Sequences, FiniteSets, SequencesExt

CONSTANTS
  Threads, NoThread,
  Tokens, Sources,         \* CancellationToken and CancellationSource objects
  Callbacks, NoCallback,   \* CancellationCallback objects, each constructed once
  kSource                  \* kSourceReferenceCountIncrement

kLocked == 2
kToken == 8   \* kTokenReferenceCountIncrement

ASSUME CancellationAssumption ==
  /\ IsFiniteSet(Tokens) /\ IsFiniteSet(Sources) /\ IsFiniteSet(Callbacks)
  /\ NoThread \notin Threads /\ NoCallback \notin Callbacks
  /\ Sources # {} /\ Threads # {}
  /\ kSource \in Nat /\ kSource > kToken * (Cardinality(Tokens) + Cardinality(Callbacks) + 1)

VARIABLES
  cancelled, locked, tokens, sources,  \* the bits and counts of state_
  freed,                \* 1 when the state has been deleted
  list,                 \* head_, next_ and prevNext_: the registered callbacks
  signallingThreadId,
  callback, anyMore,    \* locals of requestCancellation(): the callback it runs
  destructorHasRun,     \* destructorHasRunInsideCallback
  phase,                \* per callback: "none", "adding", "live", "dying", "dead"
  holds,                \* callbacks whose state_ is set: they have a reference
  inside,               \* callbacks whose destructorHasRunInsideCallback_ is set
  completed,            \* callbacks with callbackCompleted_
  runs,                 \* history: how often each callback was invoked
  tokenOf, sourceOf,    \* per object: the thread that owns it
  pc, cb,               \* per thread: where it is, the callback it works on
  moved                 \* per thread: the token its callback is to take over

word == <<cancelled, locked, tokens, sources, freed>>
signal == <<signallingThreadId, callback, anyMore, destructorHasRun>>
objects == <<phase, holds, inside, completed, runs>>
handles == <<tokenOf, sourceOf>>
vars == <<word, list, signal, objects, handles, pc, cb, moved>>

\* The 64 bits of state_
Word == cancelled + kLocked * locked + kToken * tokens + kSource * sources

\* A CancellationSource is constructed.
Init ==
  /\ cancelled = 0 /\ locked = 0 /\ tokens = 0 /\ sources = 1 /\ freed = 0
  /\ list = <<>>
  /\ signallingThreadId = NoThread /\ callback = NoCallback
  /\ anyMore = FALSE /\ destructorHasRun = FALSE
  /\ phase = [c \in Callbacks |-> "none"]
  /\ holds = {} /\ inside = {} /\ completed = {}
  /\ runs = [c \in Callbacks |-> 0]
  /\ tokenOf = [h \in Tokens |-> NoThread]
  /\ \E h \in Sources, t \in Threads : sourceOf = [g \in Sources |-> IF g = h THEN t ELSE NoThread]
  /\ pc = [t \in Threads |-> "idle"]
  /\ cb = [t \in Threads |-> NoCallback]
  /\ moved = [t \in Threads |-> {}]

Goto(t, l) == pc' = [pc EXCEPT ![t] = l]

\* Where a thread is between operations: in the callback it runs, if it does.
Base(t) == IF callback # NoCallback /\ t = signallingThreadId THEN "body" ELSE "idle"

Free(t) == pc[t] \in {"idle", "body"}

\* The operation of thread t on a callback is over.
Done(t) == Goto(t, Base(t)) /\ cb' = [cb EXCEPT ![t] = NoCallback]

\* Mutant: off by one reference.
canBeCancelledWithToken == Word > kSource \/ cancelled = 1

\* canBeCancelled() and the lock bit
canBeCancelled == Word >= kSource \/ cancelled = 1
Lock == locked = 0 /\ locked' = 1
Unlock == locked' = 0
-----------------------------------------------------------------------------
(* Tokens and sources *)

\* getToken(), and copies of a token: addTokenReference(), for thread u.
addTokenReference(t, u, h) ==
  /\ Free(t) /\ tokenOf[h] = NoThread
  /\ \/ \E s \in Sources : sourceOf[s] = t
     \/ \E g \in Tokens : tokenOf[g] = t
  /\ tokens' = tokens + 1
  /\ tokenOf' = [tokenOf EXCEPT ![h] = u]
  /\ UNCHANGED <<cancelled, locked, sources, freed, list, signal, objects, sourceOf, pc, cb, moved>>

addSourceReference(t, u, s) ==
  /\ Free(t) /\ sourceOf[s] = NoThread
  /\ \E r \in Sources : sourceOf[r] = t
  /\ sources' = sources + 1
  /\ sourceOf' = [sourceOf EXCEPT ![s] = u]
  /\ UNCHANGED <<cancelled, locked, tokens, freed, list, signal, objects, tokenOf, pc, cb, moved>>

\* The reference count of removeTokenReference()
DropTokenReference ==
  /\ tokens' = tokens - 1
  /\ freed' = IF Word < 2 * kToken THEN 1 ELSE freed

removeTokenReference(t, h) ==
  /\ Free(t) /\ tokenOf[h] = t
  /\ tokenOf' = [tokenOf EXCEPT ![h] = NoThread]
  /\ DropTokenReference
  /\ UNCHANGED <<cancelled, locked, sources, list, signal, objects, sourceOf, pc, cb, moved>>

\* The thread that is in requestCancellation() keeps the source it uses.
removeSourceReference(t, s) ==
  /\ Free(t) /\ sourceOf[s] = t
  /\ pc[t] = "body" => \E r \in Sources \ {s} : sourceOf[r] = t
  /\ sourceOf' = [sourceOf EXCEPT ![s] = NoThread]
  /\ sources' = sources - 1
  /\ freed' = IF Word < kSource + kToken THEN 1 ELSE freed
  /\ UNCHANGED <<cancelled, locked, tokens, list, signal, objects, tokenOf, pc, cb, moved>>
-----------------------------------------------------------------------------
(* CancellationCallback's constructors: tryAddCallback() *)

\* By token h, which is copied or moved into the callback.
CancellationCallback(t, c, h) ==
  /\ Free(t) /\ phase[c] = "none" /\ tokenOf[h] = t
  /\ phase' = [phase EXCEPT ![c] = "adding"]
  /\ cb' = [cb EXCEPT ![t] = c]
  /\ \E m \in {{}, {h}} : moved' = [moved EXCEPT ![t] = m]
  /\ Goto(t, "tryAdd")
  /\ UNCHANGED <<word, list, signal, holds, inside, completed, runs, handles>>

\* The constructor is over, without a registration.
NotAdded(t) ==
  /\ phase' = [phase EXCEPT ![cb[t]] = "live"]
  /\ moved' = [moved EXCEPT ![t] = {}]
  /\ Done(t)
  /\ UNCHANGED <<word, list, signal, holds, inside, completed, handles>>

\* Cancellation has been requested: the callback is run here.
TryAddCancelled(t) ==
  /\ pc[t] = "tryAdd" /\ cancelled = 1
  /\ runs' = [runs EXCEPT ![cb[t]] = @ + 1]
  /\ NotAdded(t)

TryAddNever(t) ==
  /\ pc[t] = "tryAdd" /\ ~canBeCancelled
  /\ UNCHANGED runs
  /\ NotAdded(t)

\* Mutant: the request is looked for before the lock is taken, not with it.
TryAddLockLate(t) ==
  /\ pc[t] = "tryAdd" /\ canBeCancelled
  /\ Lock /\ Goto(t, "add")
  /\ UNCHANGED <<cancelled, tokens, sources, freed, list, signal, objects, handles, cb, moved>>

TryAddLock(t) ==
  /\ pc[t] = "tryAdd" /\ cancelled = 0 /\ canBeCancelled
  /\ Lock /\ Goto(t, "add")
  /\ UNCHANGED <<cancelled, tokens, sources, freed, list, signal, objects, handles, cb, moved>>

\* The callback becomes the head of the list.
Add(t) ==
  /\ pc[t] = "add"
  /\ list' = <<cb[t]>> \o list
  /\ Goto(t, "added")
  /\ UNCHANGED <<word, signal, objects, handles, cb, moved>>

\* unlock() if the token was moved, unlockAndIncrementTokenCount() if copied.
Added(t) ==
  /\ pc[t] = "added"
  /\ Unlock
  /\ tokens' = IF moved[t] = {} THEN tokens + 1 ELSE tokens
  /\ tokenOf' = [h \in Tokens |-> IF h \in moved[t] THEN NoThread ELSE tokenOf[h]]
  /\ holds' = holds \cup {cb[t]}
  /\ phase' = [phase EXCEPT ![cb[t]] = "live"]
  /\ moved' = [moved EXCEPT ![t] = {}]
  /\ Done(t)
  /\ UNCHANGED <<cancelled, sources, freed, list, signal, inside, completed, runs, sourceOf>>
-----------------------------------------------------------------------------
(* requestCancellation() *)

requestCancellation(t) ==
  /\ Free(t) /\ \E s \in Sources : sourceOf[s] = t
  /\ Goto(t, "request")
  /\ UNCHANGED <<word, list, signal, objects, handles, cb, moved>>

\* tryLockAndCancelUnlessCancelled() finds the request made, and the call returns true.
RequestAgain(t) ==
  /\ pc[t] = "request" /\ cancelled = 1
  /\ Goto(t, Base(t))
  /\ UNCHANGED <<word, list, signal, objects, handles, cb, moved>>

Request(t) ==
  /\ pc[t] = "request" /\ cancelled = 0
  /\ cancelled' = 1 /\ Lock
  /\ Goto(t, "signal")
  /\ UNCHANGED <<tokens, sources, freed, list, signal, objects, handles, cb, moved>>

Signal(t) ==
  /\ pc[t] = "signal"
  /\ signallingThreadId' = t
  /\ Goto(t, "dequeue")
  /\ UNCHANGED <<word, list, callback, anyMore, destructorHasRun, objects, handles, cb, moved>>

Dequeue(t) ==
  /\ pc[t] = "dequeue" /\ list # <<>>
  /\ callback' = Head(list)
  /\ list' = Tail(list)
  /\ anyMore' = (Tail(list) # <<>>)
  /\ Goto(t, "dequeued")
  /\ UNCHANGED <<word, signallingThreadId, destructorHasRun, objects, handles, cb, moved>>

Dequeued(t) ==
  /\ pc[t] = "dequeued"
  /\ Unlock
  /\ Goto(t, "invoke")
  /\ UNCHANGED <<cancelled, tokens, sources, freed, list, signal, objects, handles, cb, moved>>

\* The callback learns where to say that it is being destroyed, and is called.
Invoke(t) ==
  /\ pc[t] = "invoke"
  /\ destructorHasRun' = FALSE
  /\ inside' = inside \cup {callback}
  /\ runs' = [runs EXCEPT ![callback] = @ + 1]
  /\ Goto(t, "body")
  /\ UNCHANGED <<word, list, signallingThreadId, callback, anyMore, phase, holds, completed, handles, cb, moved>>

\* The callback returns.
BodyReturns(t) ==
  /\ pc[t] = "body"
  /\ Goto(t, "invoked")
  /\ UNCHANGED <<word, list, signal, objects, handles, cb, moved>>

\* Mutant: the callback object is written to although it is gone.
InvokedBlind(t) ==
  /\ pc[t] = "invoked"
  /\ inside' = inside \ {callback}
  /\ completed' = completed \cup {callback}
  /\ callback' = NoCallback
  /\ Goto(t, IF anyMore THEN "relock" ELSE "idle")
  /\ UNCHANGED <<word, list, signallingThreadId, anyMore, destructorHasRun, phase, holds, runs, handles, cb, moved>>

\* Mutant: callbackCompleted_ is not set.
InvokedSilent(t) ==
  /\ pc[t] = "invoked"
  /\ inside' = IF destructorHasRun THEN inside ELSE inside \ {callback}
  /\ callback' = NoCallback
  /\ Goto(t, IF anyMore THEN "relock" ELSE "idle")
  /\ UNCHANGED <<word, list, signallingThreadId, anyMore, destructorHasRun, phase, holds, completed, runs, handles, cb, moved>>

\* If the callback was not destroyed by its own call it is told that it is done.
\* After the last one the state is not touched again.
Invoked(t) ==
  /\ pc[t] = "invoked"
  /\ inside' = IF destructorHasRun THEN inside ELSE inside \ {callback}
  /\ completed' = IF destructorHasRun THEN completed ELSE completed \cup {callback}
  /\ callback' = NoCallback
  /\ Goto(t, IF anyMore THEN "relock" ELSE "idle")
  /\ UNCHANGED <<word, list, signallingThreadId, anyMore, destructorHasRun, phase, holds, runs, handles, cb, moved>>

Relock(t) ==
  /\ pc[t] = "relock"
  /\ Lock
  /\ Goto(t, "dequeue")
  /\ UNCHANGED <<cancelled, tokens, sources, freed, list, signal, objects, handles, cb, moved>>

\* The list is empty: unlock() and return.
NoMore(t) ==
  /\ pc[t] = "dequeue" /\ list = <<>>
  /\ Unlock
  /\ Goto(t, "idle")
  /\ UNCHANGED <<cancelled, tokens, sources, freed, list, signal, objects, handles, cb, moved>>
-----------------------------------------------------------------------------
(* ~CancellationCallback(): removeCallback() *)

\* A callback that is not registered has nothing to do.
DestroyUnregistered(t, c) ==
  /\ Free(t) /\ phase[c] = "live" /\ c \notin holds
  /\ phase' = [phase EXCEPT ![c] = "dead"]
  /\ UNCHANGED <<word, list, signal, holds, inside, completed, runs, handles, pc, cb, moved>>

removeCallback(t, c) ==
  /\ Free(t) /\ phase[c] = "live" /\ c \in holds
  /\ phase' = [phase EXCEPT ![c] = "dying"]
  /\ cb' = [cb EXCEPT ![t] = c]
  /\ Goto(t, "remove")
  /\ UNCHANGED <<word, list, signal, holds, inside, completed, runs, handles, moved>>

RemoveLock(t) ==
  /\ pc[t] = "remove"
  /\ Lock
  /\ Goto(t, "unlink")
  /\ UNCHANGED <<cancelled, tokens, sources, freed, list, signal, objects, handles, cb, moved>>

Registered(c) == \E i \in DOMAIN list : list[i] = c

\* prevNext_ is set: the callback has not been called, and is taken out.
Unlink(t) ==
  /\ pc[t] = "unlink"
  /\ \E i \in DOMAIN list : list[i] = cb[t] /\ list' = RemoveAt(list, i)
  /\ Goto(t, "unlinked")
  /\ UNCHANGED <<word, signal, objects, handles, cb, moved>>

\* The destructor returns.
Destroyed(t) ==
  /\ holds' = holds \ {cb[t]}
  /\ phase' = [phase EXCEPT ![cb[t]] = "dead"]
  /\ Done(t)

\* Mutant: off by one reference, so that the last one does not delete the state.
UnlinkedKeeps(t) ==
  /\ pc[t] = "unlinked"
  /\ Unlock
  /\ tokens' = tokens - 1
  /\ freed' = IF Word < kLocked + kToken THEN 1 ELSE freed
  /\ Destroyed(t)
  /\ UNCHANGED <<cancelled, sources, list, signal, inside, completed, runs, handles, moved>>

\* unlockAndDecrementTokenCount()
Unlinked(t) ==
  /\ pc[t] = "unlinked"
  /\ Unlock
  /\ tokens' = tokens - 1
  /\ freed' = IF Word < kLocked + 2 * kToken THEN 1 ELSE freed
  /\ Destroyed(t)
  /\ UNCHANGED <<cancelled, sources, list, signal, inside, completed, runs, handles, moved>>

\* prevNext_ is null: it has been called, or is being called.
NotLinked(t) ==
  /\ pc[t] = "unlink" /\ ~Registered(cb[t])
  /\ Unlock
  /\ Goto(t, "removed")
  /\ UNCHANGED <<cancelled, tokens, sources, freed, list, signal, objects, handles, cb, moved>>

\* On the thread that runs the callbacks: the callback may be the one being run.
RemovedInside(t) ==
  /\ pc[t] = "removed" /\ signallingThreadId = t
  /\ destructorHasRun' = (destructorHasRun \/ cb[t] \in inside)
  /\ Goto(t, "drop")
  /\ UNCHANGED <<word, list, signallingThreadId, callback, anyMore, objects, handles, cb, moved>>

\* Mutant: other threads do not wait.
RemovedOutsideHasty(t) ==
  /\ pc[t] = "removed" /\ signallingThreadId # t
  /\ Goto(t, "drop")
  /\ UNCHANGED <<word, list, signal, objects, handles, cb, moved>>

\* On other threads the destructor waits for callbackCompleted_.
RemovedOutside(t) ==
  /\ pc[t] = "removed" /\ signallingThreadId # t
  /\ cb[t] \in completed
  /\ Goto(t, "drop")
  /\ UNCHANGED <<word, list, signal, objects, handles, cb, moved>>

\* removeTokenReference()
Drop(t) ==
  /\ pc[t] = "drop"
  /\ DropTokenReference
  /\ Destroyed(t)
  /\ UNCHANGED <<cancelled, locked, sources, list, signal, inside, completed, runs, handles, moved>>
-----------------------------------------------------------------------------
\* What a thread in the middle of an operation does next.
Step(t) ==
  \/ TryAddCancelled(t) \/ TryAddNever(t) \/ TryAddLock(t) \/ Add(t) \/ Added(t)
  \/ RequestAgain(t) \/ Request(t) \/ Signal(t) \/ Dequeue(t) \/ Dequeued(t) \/ Invoke(t)
  \/ BodyReturns(t) \/ Invoked(t) \/ Relock(t) \/ NoMore(t)
  \/ RemoveLock(t) \/ Unlink(t) \/ Unlinked(t) \/ NotLinked(t)
  \/ RemovedInside(t) \/ RemovedOutside(t) \/ Drop(t)

\* The operations a thread may begin.
Begin(t) ==
  \/ \E u \in Threads, h \in Tokens : addTokenReference(t, u, h)
  \/ \E u \in Threads, s \in Sources : addSourceReference(t, u, s)
  \/ \E h \in Tokens : removeTokenReference(t, h)
  \/ \E s \in Sources : removeSourceReference(t, s)
  \/ \E c \in Callbacks, h \in Tokens : CancellationCallback(t, c, h)
  \/ requestCancellation(t)
  \/ \E c \in Callbacks : DestroyUnregistered(t, c) \/ removeCallback(t, c)

Next == \E t \in Threads : Step(t) \/ Begin(t)

Spec == Init /\ [][Next]_vars

\* Threads in an operation are scheduled, and callbacks return, whatever they do
\* before.
FairSpec == Spec /\ \A t \in Threads : WF_vars(Step(t)) /\ SF_vars(BodyReturns(t))
-----------------------------------------------------------------------------
(* Properties *)

Locking == {"add", "added", "signal", "dequeue", "dequeued", "unlink", "unlinked"}
Labels == Locking \cup {"idle", "body", "tryAdd", "request", "invoke", "invoked", "relock", "remove", "removed", "drop"}

TypeOK ==
  /\ cancelled \in {0, 1} /\ locked \in {0, 1} /\ tokens \in Nat /\ sources \in Nat /\ freed \in {0, 1}
  /\ list \in Seq(Callbacks)
  /\ signallingThreadId \in Threads \cup {NoThread} /\ callback \in Callbacks \cup {NoCallback}
  /\ anyMore \in BOOLEAN /\ destructorHasRun \in BOOLEAN
  /\ phase \in [Callbacks -> {"none", "adding", "live", "dying", "dead"}]
  /\ holds \subseteq Callbacks /\ inside \subseteq Callbacks /\ completed \subseteq Callbacks
  /\ runs \in [Callbacks -> Nat]
  /\ tokenOf \in [Tokens -> Threads \cup {NoThread}] /\ sourceOf \in [Sources -> Threads \cup {NoThread}]
  /\ pc \in [Threads -> Labels] /\ cb \in [Threads -> Callbacks \cup {NoCallback}]
  /\ moved \in [Threads -> SUBSET Tokens]

\* Once ~CancellationCallback() has returned the callback is not in the list, and
\* it is not running, unless it was destroyed by its own call.
DestructorWaits ==
  \A c \in Callbacks : phase[c] = "dead" =>
    ~Registered(c) /\ (callback = c => destructorHasRun)

\* requestCancellation() does not write to a callback object that is gone.
DeadIsUntouched ==
  [][\A c \in Callbacks : phase[c] = "dead" =>
       (c \in inside' <=> c \in inside) /\ (c \in completed' <=> c \in completed)]_vars

\* The first requestCancellation() is over.
Signalled ==
  /\ signallingThreadId # NoThread /\ callback = NoCallback
  /\ pc[signallingThreadId] \notin {"dequeue", "relock"}

\* Either requestCancellation() sees a registration or the constructor sees the
\* request, and not both: when the first request is over every callback there is
\* was called, and no callback ever is twice.
NotifiedOnce ==
  \A c \in Callbacks :
    /\ runs[c] <= 1
    /\ Signalled /\ phase[c] = "live" => runs[c] = 1

\* The state is deleted with its last reference, of a token, a source or a
\* registered callback, and then nobody is in an operation on it.
FreedWithLast ==
  /\ TypeOK
  /\ freed = 1 => \A t \in Threads : pc[t] = "idle"
  /\ freed = 1 <=> /\ \A h \in Tokens : tokenOf[h] = NoThread
                   /\ \A s \in Sources : sourceOf[s] = NoThread
                   /\ holds = {}

\* A token that can not be cancelled never will be, as canBeCancelled() promises.
NeverLater == [][~canBeCancelled => ~canBeCancelled']_vars

\* ~CancellationCallback() returns, also if the callback is running or is what
\* calls it, and so does the first requestCancellation(), whatever its callbacks
\* destroy (every callback is destroyed once, and cancellation requested once).
EverythingReturns ==
  []<>(/\ \A c \in Callbacks : phase[c] # "dying"
       /\ cancelled = 1 => Signalled)
=============================================================================
