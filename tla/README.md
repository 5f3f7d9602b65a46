# Verification of folly's asynchronous and concurrency core

TLA+ models of the parts of folly that asynchronous programs are built from, TLC
configurations that model-check them on small instances, and TLAPS proofs that hold for
every value of the constants. Every definition is a translation of the C++ source;
`PROJECT.json` gives the lines of each one (`map`), the runs with their properties, a
mutation of the code for each property that the property catches (`mutants`), the known
hazards and the theorems.

## 1. The system and what is modelled

folly is a library, not one program. Its asynchronous core is a small number of objects
shared by threads through one or two atomic words each; everything else (futures
combinators, executors, coroutines, I/O) is built on them.

| Part | State | Operations | What is hard | Module |
|---|---|---|---|---|
| `Baton` (synchronization/Baton.h) | one futex word | post, wait, try_wait_for/until, ready, reset | a wake-up that arrives after the baton was reused; a time-out that races with the post | `Baton`, abstract `Handoff` |
| Future/Promise core (futures/detail/Core) | state_, attached_, callbackReferences_, executor_, callback_, result_ | setResult, setCallback, detachFuture, detachPromise, doCallback | who runs the callback, who resets it and who deletes the core, also if the executor throws, drops or runs it late | `FutureCore` |
| Proxy cores (`setProxy_`) | chains of cores | setProxy, setCallback on a proxy, hasResult walk | the callback moves inwards while other threads complete or drop both ends | `FutureProxy` |
| `DeferredExecutor` | state_, func_, executor_, keepAliveCount_, nested executors | addFrom, setExecutor, setNestedExecutors, detach | via() races with the completion of the chain; destroying a function re-enters the executor | `DeferredExecutor` |
| Interrupts | tagged pointer interrupt_, handler refcount | raise, setInterruptHandler, initCopyInterruptHandlerFrom | handler and exception cross; handlers shared by continuations | `FutureInterrupt` |
| `TurnSequencer` (detail/TurnSequencer.h) | one futex word: turn and furthest waiter | waitForTurn, tryWaitForTurn, completeTurn | 26-bit turn wrap-around, saturating delta, 32 shared wake channels | `TurnSequencer`, abstract `Turns` |
| `MPMCQueue` (fixed capacity) | two ticket counters, slots with turns | blockingWrite/Read, write, read, writeIfNotFull, readIfNotEmpty, tryWriteUntil, tryReadUntil, size | tickets are checked before they are owned; slots are reused round after round | `MPMCQueue`, abstract `BoundedFifo`, `ComputeStride` |
| `CancellationState` (CancellationToken) | word of flags and two reference counts, list of callbacks | add/remove token and source references, tryAddCallback, removeCallback, requestCancellation | a callback destroys itself, others and references while it runs; destructors wait for it | `CancellationState` |
| `SharedMutex` | one futex word: reader count, ownership and waiting bits; a table of deferred readers | lock, lock_upgrade, lock_shared with and without token, in blocking, timed and try form; their unlocks, up- and downgrades, release_token, destruction | readers that are not in the word; waking one of several waiters; time-outs that undo half a lock; destruction while a release is running | `SharedMutex` |
| `AsyncSocket` (io/async) | state_, shutdownFlags_, event flags, write queue, callbacks, time-outs, destructor guards | connect, write, setReadCB, close, closeNow, shutdownWrite, cancelConnect, setSendTimeout, attach/detach, destroy, and the event and time-out handlers | a connect, write or read callback may call the socket again, close it or destroy it in the middle of a function | `AsyncSocket` |

How they interact: a `Future` that is waited for blocks on a `Baton`; a continuation that
returns a future makes its core a proxy of another core; a `SemiFuture` carries a
`DeferredExecutor` until `via()`; `raise()` travels along the chain of continuations; each
slot of an `MPMCQueue` is guarded by a `TurnSequencer`; futures, coroutines and channels
are cancelled through a `CancellationState`; sockets run on an `EventBase`. In the models these interfaces are the
abstract specifications: `MPMCQueue` uses a slot's sequencer by what `Turns` says of it
(a thread goes on when the turn of the slot is its own), and `FutureProxy` uses the
delivery of a callback as `FutureCore` establishes it (once, on the executor of the core).

All models are sequentially consistent: memory orders are not modelled. Each action is one
access to an atomic, one futex call, or a stretch of code that only its thread observes;
plain fields shared between threads are either accessed in steps of their own or covered
by a data-race property (part of `MemorySafe`).

Parts of folly that are not modelled are listed in `PROJECT.json` with the reason; see
section 6.

## 2. Modules

**Baton.** `state` is the futex word. The waiter's program counter `wpc` follows
tryWaitSlow: spin, CAS to WAITING, futex, sleep, check; each poster's follows post(). A
lifetime ends with `reset`, and posters of earlier lifetimes may still have their
`futexWake` ahead, which is why there are several posters. Spurious wake-ups and the
MemoryIdler's idle time-out are actions. `Handoff` is the contract: one post, one wait,
true only after the post.

**FutureCore.** One core, its producer, its consumer and the executor. Executors are what
the code may meet: one that runs the function inside add(), one that queues it, runs it
later or destroys it, a deferred one that passes it on to the executor it is `Given` (an
inline one too; a null one is refused by via()), and add() may throw. `attached` and
`cbRefs` count in 8 bits as the code does.

**FutureProxy.** A chain of up to N cores; thread 0 owns the outermost future, thread c
the promise of core c and the future of core c+1. A call that goes into other cores is a
list of pending steps (`todo`), so that the interleavings of nested calls are kept. A
callback set with permission to run inline on a core that is already a proxy is forwarded
without it; that is conservative, and `RunsOnceAtChainEnd` states the direction
that matters: permission is never invented.

**DeferredExecutor.** A root executor and executors nested in it, each with a chain of
deferred functions; consumer, producers and workers meet on state_. The history variable
`fate` records where each function ran or how it was destroyed.

**FutureInterrupt.** interrupt_ as a tagged pointer per core; the handler is shared along
the chain and counted; `raised`, `handled` and `inherits` (whether the core it continues
pointed to the handler when initCopyInterruptHandlerFrom loaded its word) are history.
`ContinuationInherits` is stated from `inherits`: a continuation of an interrupted core
that still points to its handler gets it, armed again; a continuation of a core whose
interrupt came first, and was handled by setInterruptHandler() itself, gets nothing.

**TurnSequencer.** The word is `[turn, delta]` with the turn modulo `Modulus` and the
delta saturating at `kWaitersMask`, as in encode(). Callers are the ones MPMCQueue makes:
even turns for writers, odd ones for readers. `Turns` is the contract: one at a time, in
order, and everyone in the end.

**MPMCQueue.** `Slot` and `Turn` are idx() and turn(). Every load, CAS and slot operation
is an action; constructing an element and completing the turn are two, so a slot in use
is visible. `written` (the element of each push ticket), `unable` (an instant at which the
operation could not have succeeded) and `sizes` are history. `BoundedFifo` is the
contract. `ComputeStride` is the loop of computeStride(). Turns do not wrap around
here; that they may is checked in `TurnSequencer`.

**CancellationState.** The word's fields are variables and the code's comparisons are made
on `Word`, their sum with the code's weights, so the thresholds that decide on deletion
are those of the code. Tokens and sources are objects owned by threads; an operation needs
one, and the source of a running requestCancellation() stays, as for any object whose
member function runs. A callback body may do everything a thread may, so self-destruction,
destruction of other callbacks and nested requests all happen. A callback that is run by
its own constructor is one step.

**SharedMutex.** `state` is the reader count and the set of the word's other bits; the count
may go below zero, as in the code, and stands for the 20-bit field. `slots` is the part of
`deferredReaders` that points to this lock. A compare-and-swap that succeeds is one step
with the load and the decisions before it. Where the code decides on an older value the
value is kept: the word a waiter expects when it goes to sleep (`saw`, so the ABA problem of
futexWait that the header warns of is there), the content of a slot that
applyDeferredReaders() is about to clear, the registered bits a release has cleared but not
woken yet (`wake`). The slot a reader tries is a hint of thread-local and CPU data, and other
locks use the same slots, so any empty slot may be tried and a try may fail; but undoing a
deferred lock starts its search at the slot just recorded, as the code does. `Programs`
fixes the priority and which kinds of lock each thread takes; who then up- and downgrades,
times out, gives up its token or destroys the lock is free. `Liberties`: release_token() of
a deferred lock is restricted to a lock in deferred mode except in the run
`release_token` (section 5).

**AsyncSocket.** The socket's members are the record `sock`. Everything runs on one thread,
and the model keeps the call stack: `todo` is the sequence of steps still to run, innermost
first, each a stretch of a function up to the next callback; a step "app" is a callback in
which the application may make further calls, and "unguard" is the end of a DestructorGuard.
The kernel's answers (connected or not, how much was written, read events, errors) and one
failing registration, timer or allocation are choices. Moving between EventBases is
serial. Left out: io_uring, zero copy, the error queue, pre-received data and immediate
reads, observers, closeOnFailedWrite_ = false, the connect(ip, port) overload, the move
constructor, closeWithReset(), detachFd and TLS. The application runs inside the callbacks
that are told a result: connectSuccess() and connectErr(), writeSuccess() and writeErr(),
readDataAvailable(), readEOF() and readErr(). The hooks that the code calls on its way are
not points of re-entry: preConnect() in connect(), writeStarting() before the first attempt
of a write, getReadBuffer(s)() before each read, BufferCallback's onEgressBuffered() (in
writeImpl() and sendPartial()) and onEgressBufferCleared() (at the end of sendDone()),
EvbChangeCallback and SendMsgParamsCallback. The model is exact when these are not installed
or do not call the socket; a hook that does call it is not covered. Three re-entrant uses with which the code
does not cope are excluded unless named in `Liberties`: close() from a callback of
failAllWrites() (run `async_close`), shutdownWrite() on a fast-open socket before its
deferred first registration (reads are then never registered), and destroy() from a
callback of detachNetworkSocket(), which goes on to use the handler after closeNow()'s guard
has ended. Also excluded: startFail()'s assertion of a destructor guard is not checked for
setSendTimeout() and attachEventBase(), which reach it without one.

`MC*` modules add only definitions for TLC (symmetry, the payload of each thread).

## 3. Runs

| Run | Instance | Shows |
|---|---|---|
| `baton` | 3 posters, unbounded lifetimes | invariants, liveness, refinement of `Handoff` |
| `future_core` | a pool, an inline executor and a deferred one for each | the core is freed exactly when unreferenced; the callback runs once and is reset |
| `future_proxy` | chains of 3 cores | no use after free or data race along a chain; the callback runs once at its end, on the consumer's executor |
| `deferred_executor` | 1 nested executor, 2 functions each, 2 executors | each function runs after via() and in order, or is destroyed after a drop; everything is freed |
| `future_interrupt` | 3 cores | no interrupt is lost or handled twice; a continuation has the handler exactly if the core it continues had it; handler and exceptions live exactly as long as a core needs them |
| `turn_sequencer` | 3 threads, 12 turns to tell apart, delta up to 2, 2 channels | no lost wake-up across wrap-around and saturation; refinement of `Turns` with liveness |
| `mpmc` | 2 threads, 2 slots, 3 tickets a side, all operations; strides of capacities 1 to 100 | the inductive invariant; `BoundedFifo` with its liveness; failures only if unable; size() was the size at one instant of the call; the stride reaches every slot and separates neighbours best |
| `cancellation` | 3 threads, 2 callbacks, 1 token, 2 sources | each callback once, quiet after destruction, state deleted with its last reference; destructors and requests return |
| `shared_mutex` | 4 threads, 2 slots, unbounded calls, any of which may time out | exclusion with every reader accounted for; nobody sleeps without a holder in the way; a destroyed lock is not touched |
| `release_token` | 4 threads, 2 slots | counterexample, see section 5 |
| `async_socket` | 5 calls of 12 operations, 2 connects, 2 writes of 2 units, callbacks 2 deep, 1 fault | every connect and write answered once, data in order, the socket registered for what it waits for, no use after free, assertions hold, everything answered in the end |
| `async_close` | the same | counterexample, see section 5 |

Bounds and why they are enough:

- *Baton* (`IInv`, `WaitEnds`, `HandoffSpec`): two posters suffice for a stale wake of one lifetime in the next; the third
  lets two stale wakes meet. Lifetimes are not bounded.
- *Futures*: three cores make a core that is both a proxy and the target of one, and a
  continuation of a continuation. Two functions in a chain make a function whose core is
  completed by another one of the same executor.
- *TurnSequencer*: `firstTurn = 10` puts the wrap-around (at 12) in the middle of the run;
  the distances between turns stay below half the modulus, as `FewThreads` ensures in
  general (2^25 in the code); two channels and a delta of at most two make sharing and
  saturation happen with three threads.
- *MPMCQueue*: with three tickets a side on two slots, a slot is reused, which is where
  rounds can be confused, and a failing call can be overtaken while there is room. The
  inductive invariant and the safety part of the refinement are proved for any number of
  threads and slots.
- *CancellationState*: three threads give a requester, a thread that destroys the callback
  that runs and one that drops references; two callbacks, a list with a neighbour to unlink
  while the other runs. `kSource = 64` leaves room for all token references, as 2^34 does.
- *SharedMutex*: one thread locks exclusively; the others are a reader with and one without
  a token (both priorities), a second exclusive and an upgrade owner (two waiters to choose
  from for the wake-one chain), an upgrade owner and a reader (reader priority), or three
  readers (a holder, one that undoes its lock and one that gives back either's slot). Two
  slots make the one that lock() has passed and the one it has yet to look at. A timed
  call does everything that a blocking or a try call does.
- *AsyncSocket*: two writes make a queue with one that is partly written and one behind it;
  five calls reach every state of the socket with two calls to spare for re-entry.

Deadlock is not checked in most runs because the systems may stop: all promises are
fulfilled and freed, all tickets are used, the state is deleted. Symmetry is used only in
runs without liveness. A type invariant is part of the first invariant of each run: of
`IInv` where there is a proof, of the reference-counting or exclusion invariant elsewhere.

Code that ends in terminate_unexpected_state is modelled as a thread that stops for good;
`NoTerminate` is proved for `FutureCore`, and in `FutureProxy` and `DeferredExecutor` such
a stop would violate `AllFreed` and `EverythingResolved`.

Fairness is weak fairness of the steps of a thread that is inside an operation: the
operating system schedules threads. Nobody is forced to begin an operation. Exceptions:
`FutureProxy` lets the consumer act in the end (the future object is destroyed sometime)
by strong fairness, because each of its two ways may be disabled while the other is taken;
`CancellationState` assumes that user callbacks return (strong fairness of the return, as
a callback may call other operations before). `lock()` of CancellationState is a spin lock
without fairness of its own; weak fairness is enough because every callback takes the lock
a bounded number of times. `AsyncSocket`: the event loop runs its handlers and callbacks
(weak fairness), a registered writable event comes in the end and the peer takes the data
(strong fairness of the event and of a complete write, since other events may come first).
`shared_mutex` checks no liveness: the lock does not promise freedom from starvation, and
that nobody is forgotten asleep is an invariant.

## 4. Proofs

For every value of the constants allowed by the named ASSUMEs. Each rests on an inductive
invariant `IInv` that was first checked by TLC.

| Module | Proved | Argument |
|---|---|---|
| `BatonProofs` | NoFalseDelivery, NoLostWakeup, OldPostersOnlyWake, AssertionsHold, and that the baton refines `Handoff` | `IInv` says what the word may hold seen from the poster of this lifetime and seen from the waiter; that a poster of an earlier lifetime only has its wake left is what lets the two views agree after a reset |
| `FutureCoreSteps`, `FutureCoreProofs` | FreedExactlyWhenUnreferenced, CallbackIntact, CallbackExactlyOnce, NoTerminate, SynchronousOnlyIf | `IInv` equates attached_ and callbackReferences_ with the references that the program counters account for, and ties state_ to how far each thread is |
| `TurnSequencerSteps`, `TurnSequencerProofs` | OneAtATime, SleepersRecorded, and that the sequencer refines `Turns` (without its fairness), for any finite set of threads with 4 * |Threads| <= Modulus, any mask that covers the channels, and any number of turns and wrap-arounds | `Owners`: every turn that was handed out and is not completed has exactly one caller. By the pigeonhole principle the turns waited for are then less than half the modulus ahead (`Window`, `InReach`), so the distance read off the word is the real one. `Recorded`: who is about to sleep on a word is counted in it, or the count is saturated and so covers a turn on the same channel |
| `MPMCQueueSteps`, `MPMCQueueProofs` | TypeOK, SlotExclusive, DestructorIsRight, ReadyNeverBlocks, and that the queue refines `BoundedFifo` (FifoSafety), for any threads, capacity and stride that separates the slots of a round | `Rounds`: a slot is past the turn of a ticket only if the ticket was handed out, and between the ticket's two turns it holds the ticket's element. `OwnTickets`: no two threads have the same ticket. With the arithmetic of idx() and turn() (a slot and a turn determine the ticket) each step changes one slot for one ticket |

`MPMCQueue` assumes of the stride that the tickets 0..capacity-1 have different slots;
the run `mpmc` checks that computeStride() provides it (`BuiltWithBestStride`). `MPMCQueueSteps` holds the lemmas
about steps that change the queue, `FutureCoreSteps` and `TurnSequencerSteps` those about the
actions of a core and of a sequencer, `Remainders` the arithmetic of div and mod that tickets
and turns need. `FewThreads` bounds the threads by a quarter of the turns the word can tell
apart (2^24): each may wait for one turn, and turns of one side are two apart.

Each property that a run checks also has a mutation of the code (an operator marked
*Mutant* beside the definition it changes) under which TLC finds the property violated.

Only model-checked: all liveness properties (including the fairness of `Turns` and
`BoundedFifo`), `FailsOnlyIfUnable` and `SizeIsExact` (they need an invariant over the
history variables), and everything about `FutureProxy`, `DeferredExecutor`,
`FutureInterrupt`, `ComputeStride`, `CancellationState`, `SharedMutex` and
`AsyncSocket`. The other way round, some theorems are about consequences of `IInv` that no
run lists (NoFalseDelivery, NoLostWakeup, OldPostersOnlyWake, CallbackIntact, NoTerminate,
SlotExclusive and the like): the run checks `IInv`.

## 5. Findings

`release_token`: lock() moves the deferred readers into the word. applyDeferredReaders()
loads a slot and then clears it with a compare-and-swap on the value it loaded. If the
reader calls release_token() in between, the slot changes from its tokenful to its tokenless
value, the compare-and-swap fails, and the loop goes on to the next slot: the reader is not
counted and lock() returns while it still holds the lock. The header says that
release_token() "does not unlock the mutex at any point". A second way to the same end: when
the reader's lock has already been moved, its slot may have been reused by a reader that is
about to undo its lock; release_token() then changes the other reader's slot. Hence the
restriction on release_token() in `shared_mutex`.

`async_close`: AsyncTransport.h says of close() that "the close will be delayed until all
remaining writes have completed". If it is called by the callback of the first of several
writes that shutdownWriteNow() fails, it finds the rest of the queue, leaves the closing to
the completion of those writes, and they are failed without one: the socket stays open.

Not a run, but visible in the model: Baton.h documents ready() as true "if baton has been
posted". After a wait that timed out, post() finds TIMED_OUT and leaves the word alone, so
ready() stays false. The code is consistent with its contract that a baton that timed out
must be reset; the comment is what differs.

## 6. Not modelled, and the plan

folly has some 370 000 lines; most are containers, formatting, string and memory utilities,
wrappers of system calls and generated tables, whose state is sequential data rather than a
protocol. What is modelled are the shared-memory and callback protocols that the rest is
built on. The parts worth modelling next, in order:

1. Proofs: `CancellationState` (its invariants are the parts of an inductive one:
   LockExcludes, reference counts as cardinalities of owners, phases of callbacks),
   `FailsOnlyIfUnable` and `SizeIsExact`.
2. `MergingCancellationState` as a composition of cancellation states.
3. Waiting: WaitExecutor and waitImpl over `FutureCore` and `Baton`; collect and within
   over `FutureInterrupt`.
4. Small primitives, each with an abstract specification: SaturatingSemaphore, LifoSem,
   EventCount, ProducerConsumerQueue, TokenBucket, coro::Baton, coro::Mutex,
   coro::SharedMutex, fibers::Baton.
5. Executors: SerialExecutor, StrandExecutor, MeteredExecutor, keep-alive counting and
   the sizing of ThreadPoolExecutor; AtomicNotificationQueue.
6. DistributedMutex, the dynamic MPMCQueue, HHWheelTimer.
7. An inductive invariant for `SharedMutex` (its accounting of readers is the core of one).

Each new part comes with its abstract contract first, then the model of the code, the run
that relates the two, and the proof of the relation where the prover reaches it.
