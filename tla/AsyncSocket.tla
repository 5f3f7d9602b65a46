----------------------------- MODULE AsyncSocket -----------------------------
(***************************************************************************)
(* folly::AsyncSocket (io/async/AsyncSocket.cpp), in its EventHandler mode: *)
(* connect (plain and TCP fast open), the write queue, reads, the send and  *)
(* connect timeout, the graceful and the immediate close, the half          *)
(* shutdown, the error paths, the event registration, moving the socket     *)
(* between EventBases and delayed destruction.                              *)
(*                                                                         *)
(* Everything runs on the EventBase's thread, but it is not sequential:     *)
(* every function that tells a connect, write or read callback its result   *)
(* runs the application in its middle, and the application may call any     *)
(* method again, including close() and destroy().  The model therefore      *)
(* keeps the C++ call stack: todo is the sequence of steps still to run,    *)
(* innermost first.  A step "app" is a callback that is running; a step     *)
(* "unguard" is the end of a scope that holds a DestructorGuard; the other  *)
(* steps are the rest of a function, cut where it may invoke such a         *)
(* callback.                                                                *)
(*                                                                         *)
(* Left out: io_uring, zero copy, error-queue messages, pre-received data   *)
(* and the observers.  The hooks preConnect(), writeStarting(),             *)
(* getReadBuffer(), BufferCallback, EvbChangeCallback and                   *)
(* SendMsgParamsCallback also run application code in the middle of a       *)
(* function; they are not points of re-entry here, so the model is exact    *)
(* for hooks that are not installed or do not call the socket.              *)
(***************************************************************************)
EXTENDS Naturals, Sequences, FiniteSets

CONSTANTS
    EventBases,       \* the EventBases the socket may be attached to
    Readers,          \* read callbacks, positive numbers
    Ops,              \* the methods the application calls
    MaxCalls,         \* bound: calls of the application
    MaxConnects,      \* bound: calls of connect()
    MaxWrites,        \* bound: calls of write()
    WriteSize,        \* units of data in one write
    MaxReads,         \* maxReadsPerEvent_
    MaxFaults,        \* bound: failures of registerHandler, scheduleTimeout, malloc
    MaxDepth,         \* bound: nested callbacks
    Liberties         \* re-entrant calls the code does not cope with that the
                      \* application takes all the same, by name

ASSUME BoundsAssumption ==
    /\ EventBases # {} /\ Readers \subseteq Nat \ {0}
    /\ {MaxCalls, MaxConnects, MaxWrites, MaxReads, MaxFaults, MaxDepth} \subseteq Nat
    /\ WriteSize \in Nat \ {0}
    /\ Liberties \subseteq {"destroyUnguarded", "closeInFailAllWrites", "shutdownFastOpen"}

NoEvb == "none"
Callbacks == ({"connect"} \X (1..MaxConnects)) \cup ({"write"} \X (1..MaxWrites))
                \cup ({"read"} \X Readers)

VARIABLES
    sock,      \* the members of the socket
    todo,      \* the call stack: the steps still to run, innermost first
    log,       \* per callback, the results it was invoked with
    wire,      \* the units handed to the kernel: a sequence of write ids
    issued,    \* calls made so far, per kind
    faults     \* failures so far

vars == <<sock, todo, log, wire, issued, faults>>

-----------------------------------------------------------------------------
(* The call stack *)

Step(op) == [op |-> op, evb |-> NoEvb, n |-> 0, cb |-> <<"none", 0>>, out |-> "none"]
Loop(op, n) == [Step(op) EXCEPT !.evb = sock.evb, !.n = n]
Invoke(cb, out) == [Step("invoke") EXCEPT !.cb = cb, !.out = out]

Top(op) == todo # <<>> /\ Head(todo).op = op

(* The application runs: from the loop, or inside a callback. *)
InApp == todo = <<>> \/ Top("app")

(* What is left once the step at the top is replaced. *)
Rest == IF InApp THEN todo ELSE Tail(todo)

Goto(s, steps) == sock' = s /\ todo' = steps \o Rest

Guarded(steps) == Append(steps, Step("unguard"))

(* getDestructorGuardCount(): the scopes on the stack and the lambda of     *)
(* scheduleInitialReadWrite(), which owns a guard.                          *)
GuardsIn(t, s) == Cardinality({i \in DOMAIN t : t[i].op = "unguard"})
                    + IF s.initial THEN 1 ELSE 0

(* An assert() of the code; compiled out, execution goes on. *)
Asserted(s, label, cond) == IF cond THEN s ELSE [s EXCEPT !.bad = @ \cup {label}]

Fault == faults < MaxFaults /\ faults' = faults + 1
NoFault == faults' = faults

-----------------------------------------------------------------------------
(* Errors and closing *)

Dead(s) == s.state \in {"CLOSED", "ERROR"}
Good(s) == s.state \in {"CONNECTING", "FAST_OPEN", "ESTABLISHED"} /\ s.shut = {} /\ s.evb # NoEvb

(* changeHandlerFD(NetworkSocket()) and doClose(): the handler must not be  *)
(* registered any more (it aborts the process otherwise).                   *)
DoClose(s) == IF s.fd
                THEN [Asserted(s, "changeHandlerFD", s.reg = {}) EXCEPT !.fd = FALSE]
                ELSE s

StartFail(s) ==
    LET a == Asserted(s, "startFail", s.state # "ERROR")
        f == [a EXCEPT !.state = "ERROR", !.shut = @ \cup {"READ", "WRITE"},
                       !.timer = FALSE, !.flags = {},
                       !.reg = IF a.flags # {} THEN {} ELSE @]
    IN  DoClose(f)

(* invokeAllErrors() *)
FinishFail == <<Step("connectErr"), Step("failAllWrites"), Step("readErr")>>

(* failWrite(): the first request, then everything else *)
FailWrite == <<Step("writeErr")>> \o FinishFail

(* The four invalidState(callback) *)
InvalidState(cb) ==
    IF Dead(sock) THEN Goto(sock, Guarded(<<Invoke(cb, "err")>>))
    ELSE Goto(StartFail(sock), Guarded(<<Invoke(cb, "err")>> \o FinishFail))

CloseNow(s) ==
    CASE s.state \in {"ESTABLISHED", "CONNECTING", "FAST_OPEN"} ->
           DoClose([s EXCEPT !.shut = @ \cup {"READ", "WRITE"}, !.state = "CLOSED",
                             !.timer = FALSE, !.flags = {},
                             !.reg = IF s.flags # {} THEN {} ELSE @])
      [] s.state = "UNINIT" ->
           [Asserted(s, "closeNow", s.flags = {} /\ s.ccb = 0 /\ s.rcb = 0 /\ s.wq = <<>>)
              EXCEPT !.shut = @ \cup {"READ", "WRITE"}, !.state = "CLOSED"]
      [] OTHER -> s

CloseNowSteps(s) ==
    Guarded(IF s.state \in {"ESTABLISHED", "CONNECTING", "FAST_OPEN"}
              THEN <<Step("connectErr"), Step("failAllWrites"), Step("readEOF")>>
              ELSE <<>>)

(* updateEventRegistration(enable, disable) on s, then the steps ok; when    *)
(* registerHandler() fails the socket fails, and the steps failed follow.   *)
WithFlags(s, enable, disable) == (s.flags \cup enable) \ disable
Register(s, enable, disable) ==
    LET f == WithFlags(s, enable, disable)
    IN  [s EXCEPT !.flags = f, !.reg = IF f = s.flags THEN @ ELSE f]
RegisterFails(s, failed) ==
    Goto(StartFail([s EXCEPT !.flags = {}, !.reg = {}]), FinishFail \o failed)

UpdateEventRegistration(s, enable, disable, ok, failed) ==
    \/ Goto(Register(s, enable, disable), ok) /\ NoFault
    \/ /\ WithFlags(s, enable, disable) \notin {s.flags, {}}
       /\ Fault
       /\ RegisterFails(s, failed)

-----------------------------------------------------------------------------
(* Methods called by the application *)

Depth == Cardinality({i \in DOMAIN todo : todo[i].op = "app"})

(* A method may be called while the application owns the socket.  A        *)
(* detached socket may only be closed, destroyed or attached.               *)
Call(op) ==
    /\ InApp /\ op \in Ops /\ Depth <= MaxDepth
    /\ issued.calls < MaxCalls
    /\ ~sock.destroyed
    /\ sock.evb = NoEvb => op \in {"closeNow", "destroy", "attachEventBase"}

Issue(kind) == issued' = [issued EXCEPT !.calls = @ + 1, ![kind] = @ + 1]
IssueCall == issued' = [issued EXCEPT !.calls = @ + 1]

FailConnect(s) == Goto(StartFail(s), Guarded(<<Step("connectErr")>> \o FinishFail))

(* scheduleConnectTimeout() and registerForConnectEvents(), either of which  *)
(* may throw; the event is not persistent.  A throw leaves eventFlags_ set.  *)
WaitForConnect(s, timeout) ==
    [Asserted(s, "registerForConnectEvents", s.flags = {})
        EXCEPT !.timer = timeout, !.flags = {"WRITE"}, !.reg = {"WRITE"}]

(* connect(): creating the socket may fail before there is a descriptor or  *)
(* after it, and the kernel may refuse, succeed at once or report that the   *)
(* connection is in progress.                                                *)
Connect ==
    /\ Call("connect")
    /\ issued.connect < MaxConnects
    /\ Issue("connect")
    /\ LET c == issued.connect + 1
           opening == [sock EXCEPT !.state = "CONNECTING", !.ccb = c]
           open == [opening EXCEPT !.fd = TRUE]
           connected == Asserted(open, "connect", open.rcb = 0 /\ open.wq = <<>>)
       IN  IF sock.state # "UNINIT"
             THEN InvalidState(<<"connect", c>>) /\ NoFault
             ELSE \/ FailConnect(opening) /\ NoFault
                  \/ FailConnect(open) /\ NoFault
                  \/ \E t \in BOOLEAN : Goto(WaitForConnect(open, t), Guarded(<<>>)) /\ NoFault
                  \/ FailConnect([open EXCEPT !.flags = {"WRITE"}]) /\ Fault
                  \/ /\ Goto([connected EXCEPT !.state = "ESTABLISHED"],
                             Guarded(<<Step("connectSuccess")>>))
                     /\ NoFault
                  \/ /\ "fastOpen" \in Ops
                     /\ Goto([connected EXCEPT !.state = "FAST_OPEN"],
                             Guarded(<<Step("connectSuccess")>>))
                     /\ NoFault
    /\ UNCHANGED <<log, wire>>

CancelConnect ==
    /\ Call("cancelConnect")
    /\ IssueCall
    /\ LET s == [sock EXCEPT !.ccb = 0]
       IN  IF s.state \in {"CONNECTING", "FAST_OPEN"}
             THEN Goto(CloseNow(s), CloseNowSteps(s))
             ELSE Goto(s, <<>>)
    /\ log' = IF sock.ccb = 0 THEN log ELSE [log EXCEPT ![<<"connect", sock.ccb>>] = <<"cancelled">>]
    /\ UNCHANGED <<wire, faults>>

SetReadCB(r) ==
    /\ Call("setReadCB")
    /\ r # sock.rcb
    /\ IssueCall
    /\ log' = IF r = 0 THEN log ELSE [log EXCEPT ![<<"read", r>>] = <<>>]
    /\ IF "READ" \in sock.shut \/ sock.state \in {"UNINIT", "CLOSED", "ERROR"}
         THEN /\ IF r # 0 THEN InvalidState(<<"read", r>>)
                 ELSE Goto([Asserted(sock, "setReadCB", "READ" \notin sock.flags)
                               EXCEPT !.rcb = 0], <<>>)
              /\ NoFault
       ELSE IF sock.state = "ESTABLISHED"
         THEN UpdateEventRegistration([sock EXCEPT !.rcb = r],
                 IF r = 0 THEN {} ELSE {"READ"}, IF r = 0 THEN {"READ"} ELSE {},
                 Guarded(<<>>), Guarded(<<>>))
       ELSE Goto([sock EXCEPT !.rcb = r], <<>>) /\ NoFault
    /\ UNCHANGED wire

Close ==
    /\ Call("close")
    /\ "closeInFailAllWrites" \in Liberties \/ Dead(sock)
         \/ \A i \in DOMAIN todo : todo[i].op # "failAllWrites"
    /\ IssueCall
    /\ IF sock.wq = <<>> \/ sock.state \notin {"CONNECTING", "ESTABLISHED"}
         THEN Goto(CloseNow(sock), CloseNowSteps(sock)) /\ NoFault
       ELSE LET s == [sock EXCEPT !.shut = @ \cup {"READ", "WRITE_PENDING"}, !.closed = TRUE]
            IN  IF s.rcb = 0 THEN Goto(s, <<>>) /\ NoFault
                ELSE UpdateEventRegistration(s, {}, {"READ"},
                        Guarded(<<Step("readEOF")>>), Guarded(<<>>))
    /\ UNCHANGED <<log, wire>>

CloseNowCall ==
    /\ Call("closeNow")
    /\ IssueCall
    /\ Goto(CloseNow(sock), CloseNowSteps(sock))
    /\ UNCHANGED <<log, wire, faults>>

ShutdownWriteNow ==
    IF "WRITE" \in sock.shut THEN Goto(sock, <<>>) /\ NoFault
    ELSE IF "READ" \in sock.shut THEN Goto(CloseNow(sock), CloseNowSteps(sock)) /\ NoFault
    ELSE CASE sock.state = "ESTABLISHED" ->
                UpdateEventRegistration(
                    [sock EXCEPT !.shut = @ \cup {"WRITE"}, !.timer = FALSE],
                    {}, {"WRITE"}, Guarded(<<Step("failAllWrites")>>), Guarded(<<>>))
           [] sock.state = "CONNECTING" ->
                /\ Goto([sock EXCEPT !.shut = @ \cup {"WRITE_PENDING"}],
                        Guarded(<<Step("failAllWrites")>>))
                /\ NoFault
           [] sock.state = "UNINIT" ->
                Goto([sock EXCEPT !.shut = @ \cup {"WRITE_PENDING"}], <<>>) /\ NoFault
           [] sock.state = "FAST_OPEN" ->
                /\ Goto([sock EXCEPT !.shut = @ \cup {"WRITE"}],
                        Guarded(<<Step("failAllWrites")>>))
                /\ NoFault
           [] OTHER -> Goto(Asserted(sock, "shutdownWriteNow", FALSE), <<>>) /\ NoFault

ShutdownWrite(now) ==
    /\ Call("shutdownWrite")
    /\ "shutdownFastOpen" \in Liberties \/ ~sock.initial
    /\ IssueCall
    /\ IF now \/ sock.wq = <<>> THEN ShutdownWriteNow
       ELSE Goto([sock EXCEPT !.shut = @ \cup {"WRITE_PENDING"}], <<>>) /\ NoFault
    /\ UNCHANGED <<log, wire>>

(* setSendTimeout(): holds no DestructorGuard. *)
SetSendTimeout(on) ==
    /\ Call("setSendTimeout")
    /\ on # sock.sendTimeout
    /\ IssueCall
    /\ LET s == [sock EXCEPT !.sendTimeout = on]
           checked == Asserted(s, "setSendTimeout",
                             s.state = "ESTABLISHED" /\ "WRITE" \notin s.shut)
       IN  IF "WRITE" \in s.flags /\ s.state \notin {"CONNECTING", "FAST_OPEN"}
             THEN \/ Goto([checked EXCEPT !.timer = on], <<>>) /\ NoFault
                  \/ on /\ Fault /\ Goto(StartFail(checked), FailWrite)
             ELSE Goto(s, <<>>) /\ NoFault
    /\ UNCHANGED <<log, wire>>

(* detachEventBase(): its documentation allows it only on an idle transport *)
(* with no reads or writes pending.                                         *)
DetachEventBase ==
    /\ Call("attachEventBase")
    /\ sock.evb # NoEvb
    /\ sock.state # "CONNECTING" /\ sock.rcb = 0 /\ sock.wq = <<>> /\ ~sock.timer
    /\ IssueCall
    /\ Goto([sock EXCEPT !.evb = NoEvb, !.reg = {}], <<>>)
    /\ UNCHANGED <<log, wire, faults>>

AttachEventBase(e) ==
    /\ Call("attachEventBase")
    /\ sock.evb = NoEvb
    /\ IssueCall
    /\ LET s == [sock EXCEPT !.evb = e]
       IN  \/ Goto([s EXCEPT !.reg = s.flags], <<>>) /\ NoFault
           \/ s.flags # {} /\ Fault /\ RegisterFails(s, <<>>)
    /\ UNCHANGED <<log, wire>>

(* detachNetworkSocket(): gives the descriptor away, closes, and then still  *)
(* updates the event handler; it holds no DestructorGuard.                  *)
DetachNetworkSocket ==
    /\ Call("detachNetworkSocket")
    /\ IssueCall
    /\ LET s == [sock EXCEPT !.fd = FALSE]
       IN  Goto(CloseNow(s), Append(CloseNowSteps(s), Step("changeHandlerFD")))
    /\ UNCHANGED <<log, wire, faults>>

(* A step on the stack that no enclosing DestructorGuard protects. *)
Unprotected(t) ==
    \E i \in DOMAIN t : /\ t[i].op \notin {"app", "unguard"}
                        /\ \A j \in i..Len(t) : t[j].op # "unguard"

Destroy ==
    /\ Call("destroy")
    /\ "destroyUnguarded" \in Liberties \/ ~Unprotected(todo)
    /\ IssueCall
    /\ LET s == [sock EXCEPT !.destroyed = TRUE]
       IN  Goto(CloseNow(s), Append(CloseNowSteps(s), Step("destroy")))
    /\ UNCHANGED <<log, wire, faults>>

-----------------------------------------------------------------------------
(* write() *)

Units(id, n) == [i \in 1..n |-> id]

(* The queue has a head and a tail pointer.  Failing the requests pops the   *)
(* head and leaves the tail dangling; appending must never meet it then.     *)
Enqueue(s, id, left) ==
    [Asserted(s, "writeReqTail_", s.tail <=> s.wq # <<>>)
        EXCEPT !.wq = Append(@, [id |-> id, left |-> left]), !.tail = TRUE]

(* Register for writing and start the send timeout; each may fail. *)
AwaitWritable(s) ==
    \/ UpdateEventRegistration([s EXCEPT !.timer = @ \/ s.sendTimeout], {"WRITE"}, {},
                               Guarded(<<>>), Guarded(<<>>))
    \/ s.sendTimeout /\ Fault /\ Goto(StartFail(Register(s, {"WRITE"}, {})), Guarded(FailWrite))

(* failWrite(fn, callback, bytesWritten, ex), before the request is queued. *)
FailThisWrite(s, id) ==
    Goto(StartFail(s), Guarded(<<Invoke(<<"write", id>>, "err")>> \o FinishFail))

(* sendSocketMessage(): the first write of a fast-open socket establishes it *)
(* and schedules the initial read and write ...                             *)
Sent(s) ==
    IF s.state = "FAST_OPEN"
      THEN LET e == [s EXCEPT !.state = "ESTABLISHED"] IN [e EXCEPT !.initial = @ \/ Good(e)]
      ELSE s

(* The write is attempted at once: n units are taken by the kernel. *)
WriteNow(id) ==
    LET s == Asserted(sock, "writeImpl", "WRITE" \notin sock.flags /\ ~sock.tail)
    IN  \/ \E n \in 0..WriteSize :
             /\ wire' = wire \o Units(id, n)
             /\ IF n = WriteSize
                  THEN Goto(Sent(s), Guarded(<<Invoke(<<"write", id>>, "success")>>)) /\ NoFault
                  ELSE \/ AwaitWritable(Enqueue(Sent(s), id, WriteSize - n))
                       \/ FailThisWrite(Sent(s), id) /\ Fault
        \/ FailThisWrite(s, id) /\ NoFault /\ UNCHANGED wire
        \* ... unless it falls back to an ordinary connect
        \/ /\ s.state = "FAST_OPEN"
           /\ LET c == [s EXCEPT !.state = "CONNECTING"]
              IN  \/ /\ \E t \in BOOLEAN :
                          Goto(WaitForConnect(Enqueue(c, id, WriteSize), t), Guarded(<<>>))
                     /\ NoFault
                  \/ FailThisWrite([c EXCEPT !.flags = {"WRITE"}], id) /\ Fault
                  \/ FailThisWrite(WaitForConnect(c, TRUE), id) /\ Fault
           /\ UNCHANGED wire

\* Mutant: every write is attempted at once.
WriteAtOnce ==
    /\ Call("write")
    /\ issued.write < MaxWrites
    /\ Issue("write")
    /\ IF sock.shut = {} /\ sock.state = "ESTABLISHED" THEN WriteNow(issued.write + 1)
       ELSE InvalidState(<<"write", issued.write + 1>>) /\ NoFault /\ UNCHANGED wire
    /\ UNCHANGED log

Write ==
    /\ Call("write")
    /\ issued.write < MaxWrites
    /\ Issue("write")
    /\ LET id == issued.write + 1
           queued == \/ Goto(Enqueue(sock, id, WriteSize), <<>>) /\ NoFault
                     \/ FailThisWrite(sock, id) /\ Fault
           invalid == InvalidState(<<"write", id>>) /\ NoFault
       IN  CASE sock.shut \cap {"WRITE", "WRITE_PENDING"} # {} -> invalid /\ UNCHANGED wire
             [] sock.state = "CONNECTING" -> queued /\ UNCHANGED wire
             [] sock.state \in {"ESTABLISHED", "FAST_OPEN"} ->
                  IF sock.wq = <<>> THEN WriteNow(id) ELSE queued /\ UNCHANGED wire
             [] OTHER -> invalid /\ UNCHANGED wire
    /\ UNCHANGED log

-----------------------------------------------------------------------------
(* The event loop *)

(* ioReady(): an event the handler is registered for.  Writes go first; the  *)
(* connect event is not persistent, so its registration is gone.            *)
IoReady(events) ==
    /\ todo = <<>> /\ sock.evb # NoEvb
    /\ events # {} /\ events \subseteq sock.reg
    /\ IF sock.state = "CONNECTING"
         THEN Goto([sock EXCEPT !.reg = {}], Guarded(<<Step("handleConnect")>>))
         ELSE Goto(sock, Guarded((IF "WRITE" \in events THEN <<Loop("handleWrite", 1)>> ELSE <<>>)
                                 \o (IF "READ" \in events
                                       THEN <<Loop(IF "WRITE" \in events THEN "thenRead"
                                                   ELSE "handleRead", MaxReads)>>
                                       ELSE <<>>)))
    /\ UNCHANGED <<log, wire, issued, faults>>

(* timeoutExpired(), for the connect as for the send timeout *)
TimeoutExpired ==
    /\ todo = <<>> /\ sock.timer
    /\ LET s == StartFail([sock EXCEPT !.timer = FALSE])
       IN  Goto(s, Guarded(IF sock.state = "CONNECTING" /\ sock.ccb # 0
                             THEN <<Step("connectErr")>> \o FinishFail ELSE FailWrite))
    /\ UNCHANGED <<log, wire, issued, faults>>

(* The lambda of scheduleInitialReadWrite(), which owns a guard *)
InitialReadWriteLambda ==
    /\ todo = <<>> /\ sock.initial
    /\ Goto([sock EXCEPT !.initial = FALSE],
            Guarded(IF Good(sock) THEN <<Step("initialRead"), Step("initialWrite")>> ELSE <<>>))
    /\ UNCHANGED <<log, wire, issued, faults>>

-----------------------------------------------------------------------------
(* The steps of the handlers *)

\* Mutant: eventFlags_ still says WRITE after the connect event.
HandleConnectKeepsFlags ==
    /\ Top("handleConnect")
    /\ Goto([sock EXCEPT !.timer = FALSE, !.state = "ESTABLISHED"],
            <<Step("connectSuccess"), Loop("afterConnect", 0)>>)
    /\ UNCHANGED <<log, wire, issued, faults>>

(* handleConnect() *)
HandleConnect ==
    /\ Top("handleConnect")
    /\ LET a == Asserted(sock, "handleConnect",
                       sock.state = "CONNECTING" /\ "WRITE" \notin sock.shut
                         /\ sock.flags = {"WRITE"})
           s == [a EXCEPT !.timer = FALSE, !.flags = {}]
           e == [s EXCEPT !.state = "ESTABLISHED"]
           shutdown == [Asserted(e, "handleConnect", "READ" \notin e.shut)
                          EXCEPT !.shut = @ \cup {"WRITE"}]
       IN  \/ Goto(StartFail(s), <<Step("connectErr")>> \o FinishFail)
           \/ Goto(IF "WRITE_PENDING" \in e.shut /\ e.wq = <<>> THEN shutdown ELSE e,
                   <<Step("connectSuccess"), Loop("afterConnect", 0)>>)
    /\ UNCHANGED <<log, wire, issued, faults>>

(* handleConnect() goes on if connectSuccess() left it on its EventBase. *)
AfterConnect ==
    /\ Top("afterConnect")
    /\ Goto(sock, IF sock.evb = Head(todo).evb
                    THEN <<Step("initialRead"), Step("initialWrite")>> ELSE <<>>)
    /\ UNCHANGED <<log, wire, issued, faults>>

(* handleInitialReadWrite(), first half.  When registering for reads fails   *)
(* it returns; a failure while unregistering is ignored.                     *)
InitialRead ==
    /\ Top("initialRead")
    /\ IF sock.rcb # 0 /\ "READ" \notin sock.flags
         THEN LET s == Asserted(sock, "handleInitialReadWrite",
                              sock.state = "ESTABLISHED" /\ "READ" \notin sock.shut)
              IN  \/ Goto(Register(s, {"READ"}, {}), <<>>) /\ NoFault
                  \/ /\ Fault
                     /\ sock' = StartFail([s EXCEPT !.flags = {}, !.reg = {}])
                     /\ todo' = FinishFail \o Tail(Rest)
       ELSE IF sock.rcb = 0 THEN UpdateEventRegistration(sock, {}, {"READ"}, <<>>, <<>>)
       ELSE Goto(sock, <<>>) /\ NoFault
    /\ UNCHANGED <<log, wire, issued>>

(* handleInitialReadWrite(), second half *)
InitialWrite ==
    /\ Top("initialWrite")
    /\ IF sock.wq = <<>> THEN UpdateEventRegistration(sock, {}, {"WRITE"}, <<>>, <<>>)
       ELSE Goto(sock, IF "WRITE" \in sock.flags THEN <<>> ELSE <<Loop("handleWrite", 1)>>) /\ NoFault
    /\ UNCHANGED <<log, wire, issued>>

(* handleWrite(), one turn of its loop.  n = 1 on entry. *)
EnterWrite ==
    IF Head(todo).n = 1
      THEN Asserted(sock, "handleWrite", sock.state = "ESTABLISHED" /\ "WRITE" \notin sock.shut
                                          /\ sock.wq # <<>>)
      ELSE sock
Writing == Top("handleWrite") /\ sock.wq # <<>> /\ sock.evb = Head(todo).evb

HandleWriteError ==
    /\ Writing
    /\ Goto(StartFail(EnterWrite), FailWrite)
    /\ UNCHANGED <<log, wire, issued, faults>>

(* The request is complete: the last one runs sendDone() before its callback. *)
HandleWriteComplete ==
    /\ Writing
    /\ LET req == Head(sock.wq)
           s == [EnterWrite EXCEPT !.wq = Tail(@), !.tail = Len(sock.wq) > 1]
           after == <<Invoke(<<"write", req.id>>, "success"), [Head(todo) EXCEPT !.n = 0]>>
       IN  /\ wire' = wire \o Units(req.id, req.left)
           /\ IF s.wq # <<>> THEN Goto(s, after) /\ NoFault
              ELSE UpdateEventRegistration(
                     [s EXCEPT !.timer = IF "WRITE" \in s.flags THEN FALSE ELSE @],
                     {}, {"WRITE"}, <<Step("sendDone")>> \o after, after)
    /\ UNCHANGED <<log, issued>>

\* Mutant: a partial write relies on an earlier registration.
HandleWritePartialUnregistered ==
    /\ Writing
    /\ \E n \in 0..(Head(sock.wq).left - 1) :
         /\ wire' = wire \o Units(Head(sock.wq).id, n)
         /\ Goto([EnterWrite EXCEPT !.wq[1].left = @ - n], <<>>)
    /\ UNCHANGED <<log, issued, faults>>

(* consume() and sendPartial() *)
HandleWritePartial ==
    /\ Writing
    /\ \E n \in 0..(Head(sock.wq).left - 1) :
         LET s == [EnterWrite EXCEPT !.wq[1].left = @ - n]
         IN  /\ wire' = wire \o Units(Head(sock.wq).id, n)
             /\ \/ UpdateEventRegistration([s EXCEPT !.timer = @ \/ s.sendTimeout],
                                           {"WRITE"}, {}, <<>>, <<>>)
                \/ /\ s.sendTimeout /\ Fault
                   /\ Goto(StartFail(Register(s, {"WRITE"}, {})), FailWrite)
    /\ UNCHANGED <<log, issued>>

HandleWriteEnd ==
    /\ Top("handleWrite") /\ ~Writing
    /\ Goto(EnterWrite, <<>>)
    /\ UNCHANGED <<log, wire, issued, faults>>

(* The end of sendDone(): the shutdown that was waiting for the last write *)
SendDone ==
    /\ Top("sendDone")
    /\ LET a == Asserted(sock, "sendDone", ~sock.timer)
           w == [Asserted(a, "sendDone", a.ccb = 0) EXCEPT !.shut = @ \cup {"WRITE"}]
       IN  Goto(CASE "WRITE_PENDING" \notin a.shut -> a
                  [] "READ" \in a.shut ->
                       DoClose([Asserted(w, "sendDone", w.rcb = 0) EXCEPT !.state = "CLOSED"])
                  [] OTHER -> w, <<>>)
    /\ UNCHANGED <<log, wire, issued, faults>>

\* Mutant: ioReady() reads although the writes uninstalled the callback.
ThenReadAlways ==
    /\ Top("thenRead")
    /\ Goto(sock, <<[Head(todo) EXCEPT !.op = "handleRead"]>>)
    /\ UNCHANGED <<log, wire, issued, faults>>

(* ioReady() after handleWrite(): read if it left the socket on its         *)
(* EventBase with a read callback.                                          *)
ThenRead ==
    /\ Top("thenRead")
    /\ Goto(sock, IF sock.evb = Head(todo).evb /\ sock.rcb # 0
                    THEN <<[Head(todo) EXCEPT !.op = "handleRead"]>> ELSE <<>>)
    /\ UNCHANGED <<log, wire, issued, faults>>

(* handleRead(), one turn of its loop *)
EnterRead ==
    IF Head(todo).n = MaxReads
      THEN Asserted(sock, "handleRead", sock.state = "ESTABLISHED" /\ "READ" \notin sock.shut
                                         /\ sock.rcb # 0 /\ "READ" \in sock.flags)
      ELSE sock
Reading == Top("handleRead") /\ sock.rcb # 0 /\ sock.evb = Head(todo).evb /\ Head(todo).n > 0

(* readDataAvailable(): the loop goes on if the buffer was filled. *)
HandleReadData(full) ==
    /\ Reading
    /\ Goto(EnterRead, <<Step("app")>>
                \o IF full THEN <<[Head(todo) EXCEPT !.n = @ - 1]>> ELSE <<>>)
    /\ UNCHANGED <<log, wire, issued, faults>>

(* READ_BLOCKING, or the end of the loop *)
HandleReadEnd ==
    /\ Top("handleRead")
    /\ Goto(EnterRead, <<>>)
    /\ UNCHANGED <<log, wire, issued, faults>>

(* recvEOF() *)
HandleReadEOF ==
    /\ Reading
    /\ UpdateEventRegistration([EnterRead EXCEPT !.shut = @ \cup {"READ"}], {}, {"READ"},
                               <<Step("readEOF")>>, <<>>)
    /\ UNCHANGED <<log, wire, issued>>

(* failRead(): recv() fails or getReadBuffer() throws *)
HandleReadError ==
    /\ Reading
    /\ Goto(StartFail(EnterRead), <<Step("readErr")>> \o FinishFail)
    /\ UNCHANGED <<log, wire, issued, faults>>

(* invokeConnectErr() and invokeConnectSuccess() *)
ConnectResult ==
    /\ Top("connectErr") \/ Top("connectSuccess")
    /\ Goto([sock EXCEPT !.ccb = 0],
            IF sock.ccb = 0 THEN <<>>
            ELSE <<Invoke(<<"connect", sock.ccb>>, IF Top("connectErr") THEN "err" ELSE "success")>>)
    /\ UNCHANGED <<log, wire, issued, faults>>

\* Mutant: the request is unlinked after its callback.
FailWritesLate ==
    /\ Top("failAllWrites") \/ Top("writeErr") \/ Top("unlink")
    /\ IF Top("unlink") THEN Goto([sock EXCEPT !.wq = Tail(@)], <<>>)
       ELSE IF sock.wq = <<>> THEN Goto(sock, <<>>)
       ELSE Goto(sock, <<Invoke(<<"write", Head(sock.wq).id>>, "err"), Step("unlink")>>
                         \o IF Top("failAllWrites") THEN <<Head(todo)>> ELSE <<>>)
    /\ UNCHANGED <<log, wire, issued, faults>>

(* failAllWrites(), one turn of its loop, and the first request of failWrite() *)
FailWrites ==
    /\ Top("failAllWrites") \/ Top("writeErr")
    /\ IF sock.wq = <<>> THEN Goto(sock, <<>>)
       ELSE Goto([sock EXCEPT !.wq = Tail(@)],
                 <<Invoke(<<"write", Head(sock.wq).id>>, "err")>>
                   \o IF Top("failAllWrites") THEN <<Head(todo)>> ELSE <<>>)
    /\ UNCHANGED <<log, wire, issued, faults>>

(* The read callback is uninstalled before readEOF() or readErr(). *)
ReadResult ==
    /\ Top("readEOF") \/ Top("readErr")
    /\ Goto([sock EXCEPT !.rcb = 0],
            IF sock.rcb = 0 THEN <<>>
            ELSE <<Invoke(<<"read", sock.rcb>>, IF Top("readEOF") THEN "eof" ELSE "err")>>)
    /\ UNCHANGED <<log, wire, issued, faults>>

(* A callback is invoked, and returns. *)
InvokeCallback ==
    /\ Top("invoke")
    /\ log' = [log EXCEPT ![Head(todo).cb] = Append(@, Head(todo).out)]
    /\ Goto(sock, <<Step("app")>>)
    /\ UNCHANGED <<wire, issued, faults>>

CallbackReturns ==
    /\ Top("app")
    /\ todo' = Tail(todo)
    /\ UNCHANGED <<sock, log, wire, issued, faults>>

\* Mutant: destroy() deletes the object under its callers.
DelayedDestroyNow ==
    /\ Top("destroy")
    /\ Goto([sock EXCEPT !.freed = TRUE], <<>>)
    /\ UNCHANGED <<log, wire, issued, faults>>

(* ~DestructorGuard(), DelayedDestruction::destroy() and the end of          *)
(* detachNetworkSocket()                                                    *)
Unguard ==
    /\ Top("unguard")
    /\ Goto([sock EXCEPT !.freed = @ \/ (sock.destroyPending /\ GuardsIn(Rest, sock) = 0)], <<>>)
    /\ UNCHANGED <<log, wire, issued, faults>>

DelayedDestroy ==
    /\ Top("destroy")
    /\ Goto(IF GuardsIn(Rest, sock) = 0 THEN [sock EXCEPT !.freed = TRUE]
            ELSE [sock EXCEPT !.destroyPending = TRUE], <<>>)
    /\ UNCHANGED <<log, wire, issued, faults>>

ChangeHandlerFD ==
    /\ Top("changeHandlerFD")
    /\ Goto(Asserted(sock, "changeHandlerFD", sock.reg = {}), <<>>)
    /\ UNCHANGED <<log, wire, issued, faults>>

-----------------------------------------------------------------------------
(* A socket is constructed unconnected, or around an accepted descriptor. *)
\* What init() leaves: no callback, nothing queued, registered or scheduled.
NewSocket(accepted) ==
    [state |-> IF accepted THEN "ESTABLISHED" ELSE "UNINIT", fd |-> accepted,
     shut |-> {}, flags |-> {}, reg |-> {}, ccb |-> 0, rcb |-> 0, wq |-> <<>>, tail |-> FALSE,
     timer |-> FALSE, sendTimeout |-> FALSE, closed |-> FALSE, initial |-> FALSE,
     evb |-> CHOOSE e \in EventBases : TRUE,
     destroyed |-> FALSE, destroyPending |-> FALSE, freed |-> FALSE, bad |-> {}]

\* A socket to connect, or one that was accepted.
Init ==
    /\ \E accepted \in BOOLEAN : sock = NewSocket(accepted)
    /\ todo = <<>>
    /\ log = [c \in Callbacks |-> <<>>]
    /\ wire = <<>>
    /\ issued = [calls |-> 0, connect |-> 0, write |-> 0]
    /\ faults = 0

AppCall ==
    \/ Connect \/ CancelConnect \/ Write \/ Close \/ CloseNowCall
    \/ \E r \in Readers \cup {0} : SetReadCB(r)
    \/ \E now \in BOOLEAN : ShutdownWrite(now)
    \/ \E on \in BOOLEAN : SetSendTimeout(on)
    \/ DetachEventBase \/ (\E e \in EventBases : AttachEventBase(e))
    \/ DetachNetworkSocket \/ Destroy

WriteEvent == \E events \in SUBSET {"READ", "WRITE"} : "WRITE" \in events /\ IoReady(events)
ReadEvent == IoReady({"READ"})

Handlers ==
    \/ HandleConnect \/ AfterConnect \/ InitialRead \/ InitialWrite
    \/ HandleWriteError \/ HandleWriteComplete \/ HandleWritePartial \/ HandleWriteEnd
    \/ SendDone \/ ThenRead
    \/ (\E full \in BOOLEAN : HandleReadData(full))
    \/ HandleReadEnd \/ HandleReadEOF \/ HandleReadError
    \/ ConnectResult \/ FailWrites \/ ReadResult \/ InvokeCallback \/ CallbackReturns
    \/ Unguard \/ DelayedDestroy \/ ChangeHandlerFD

Next ==
    \/ AppCall
    \/ WriteEvent \/ ReadEvent \/ TimeoutExpired \/ InitialReadWriteLambda
    \/ Handlers

Spec == Init /\ [][Next]_vars

(* The thread keeps running and callbacks return; the loop serves an event   *)
(* that keeps being ready, however many other events it serves in between;   *)
(* the peer keeps reading, so that writes do not stay partial for ever.      *)
FairSpec ==
    /\ Spec
    /\ WF_vars(Handlers)
    /\ SF_vars(WriteEvent)
    /\ WF_vars(InitialReadWriteLambda)
    /\ SF_vars(HandleWriteComplete)

-----------------------------------------------------------------------------
(* Properties *)

TypeOK ==
    /\ sock.state \in {"UNINIT", "CONNECTING", "ESTABLISHED", "FAST_OPEN", "CLOSED", "ERROR"}
    /\ sock.shut \subseteq {"READ", "WRITE", "WRITE_PENDING"}
    /\ sock.flags \subseteq {"READ", "WRITE"} /\ sock.reg \subseteq {"READ", "WRITE"}
    /\ sock.ccb \in 0..MaxConnects /\ sock.rcb \in Readers \cup {0}
    /\ \A i \in DOMAIN sock.wq : sock.wq[i].id \in 1..MaxWrites /\ sock.wq[i].left \in 1..WriteSize
    /\ sock.evb \in EventBases \cup {NoEvb}
    /\ DOMAIN log = Callbacks
    /\ faults \in 0..MaxFaults

UnitsSent(id) == Cardinality({i \in DOMAIN wire : wire[i] = id})
Owed(cb) == Cardinality({i \in DOMAIN todo : todo[i].op = "invoke" /\ todo[i].cb = cb})
B(p) == IF p THEN 1 ELSE 0

(* The assert()s of the functions modelled hold whenever they are reached    *)
(* (but for the guard count of startFail(), which setSendTimeout() does not   *)
(* provide), the event handler's descriptor is never changed while it is      *)
(* registered, and the dangling tail of the write queue is never met.        *)
AssertionsHold ==
    /\ TypeOK
    /\ sock.bad = {}
    /\ Dead(sock) => {"READ", "WRITE"} \subseteq sock.shut

(* However the handlers and re-entrant calls nest, every connect() and every *)
(* write() has its callback exactly once: it is stored, about to be invoked, *)
(* or has been invoked, and never two of these.  A write reports success     *)
(* exactly if all of its data was taken by the kernel.  A read callback is   *)
(* ended at most once per installation, and is uninstalled when it is.       *)
CallbackExactlyOnce ==
    /\ \A c \in 1..issued.connect :
         B(sock.ccb = c) + Owed(<<"connect", c>>) + Len(log[<<"connect", c>>]) = 1
    /\ \A w \in 1..issued.write :
         /\ Cardinality({i \in DOMAIN sock.wq : sock.wq[i].id = w})
              + Owed(<<"write", w>>) + Len(log[<<"write", w>>]) = 1
         /\ log[<<"write", w>>] # <<>> =>
              (log[<<"write", w>>] = <<"success">> <=> UnitsSent(w) = WriteSize)
    /\ \A r \in Readers :
         B(sock.rcb = r) + Owed(<<"read", r>>) + Len(log[<<"read", r>>]) <= 1

(* The kernel gets the data in the order of the write() calls, and none of a *)
(* later write before all of an earlier one: a write is attempted at once    *)
(* only when nothing is queued.                                              *)
WireInOrder ==
    \A i, j \in DOMAIN wire : i < j =>
        wire[i] = wire[j] \/ (wire[i] < wire[j] /\ UnitsSent(wire[i]) = WriteSize)

(* close() with writes pending closes the socket once they are gone, whoever  *)
(* takes them off the queue: "the close will be delayed until all remaining   *)
(* writes have completed" (AsyncTransport::close()).                         *)
CloseCloses == todo = <<>> /\ sock.closed /\ sock.wq = <<>> => Dead(sock)

(* Between events the socket waits for exactly what it needs: it is          *)
(* registered for reading iff there is a read callback to serve, for writing *)
(* iff it is connecting or has writes queued, with a send timeout running if *)
(* one is set; and a closed or failed socket holds nothing any more.         *)
WaitsForWhatItNeeds ==
    todo = <<>> /\ ~sock.freed =>
        /\ CloseCloses
        /\ sock.evb # NoEvb => sock.reg = sock.flags
        /\ "READ" \in sock.flags => sock.rcb # 0
        /\ sock.state = "ESTABLISHED" /\ sock.rcb # 0 /\ ~sock.initial => "READ" \in sock.flags
        /\ "WRITE" \in sock.flags <=> sock.state = "CONNECTING" \/ sock.wq # <<>>
        /\ sock.sendTimeout /\ sock.wq # <<>> /\ sock.state = "ESTABLISHED" => sock.timer
        /\ sock.timer => "WRITE" \in sock.flags
        /\ Dead(sock) => /\ sock.ccb = 0 /\ sock.rcb = 0 /\ sock.wq = <<>>
                         /\ ~sock.fd /\ {"READ", "WRITE"} \subseteq sock.shut

(* Once the object is deleted, no function of it is left on the stack.       *)
NoUseAfterFree == sock.freed => \A i \in DOMAIN todo : todo[i].op = "app"

(* Every connect() and every write() is answered in the end (calls are        *)
(* bounded, and an answer is never taken back).                              *)
EverythingAnswered ==
    []<>(/\ \A c \in 1..issued.connect : log[<<"connect", c>>] # <<>>
         /\ \A w \in 1..issued.write : log[<<"write", w>>] # <<>>)
=============================================================================
