----------------------------- MODULE BoundedFifo -----------------------------
(***************************************************************************)
(* What an MPMCQueue promises: the n-th read to begin returns the element  *)
(* of the n-th write to begin.  A write returns when it is within capacity *)
(* of the reads begun, a read when the write with its number has begun.    *)
(***************************************************************************)
EXTENDS Naturals, Sequences

CONSTANTS Threads, Data, NoData, capacity

VARIABLES written,  \* the elements, in the order in which their writes began
          reads,    \* number of reads begun
          busy,     \* per thread: "no", "write", "read", "got"
          number,   \* per thread: the number of the write or read it is doing
          elem      \* per thread: the element its read returned

vars == <<written, reads, busy, number, elem>>

Init ==
  /\ written = <<>> /\ reads = 0
  /\ busy = [t \in Threads |-> "no"]
  /\ number = [t \in Threads |-> 0]
  /\ elem = [t \in Threads |-> NoData]

Begin(t, what, n) ==
  /\ busy[t] = "no"
  /\ busy' = [busy EXCEPT ![t] = what]
  /\ number' = [number EXCEPT ![t] = n]

End(t, what, next) ==
  /\ busy[t] = what
  /\ busy' = [busy EXCEPT ![t] = next]
  /\ number' = [number EXCEPT ![t] = 0]

BeginWrite(t, v) ==
  /\ Begin(t, "write", Len(written) + 1)
  /\ written' = Append(written, v)
  /\ UNCHANGED <<reads, elem>>

EndWrite(t) ==
  /\ End(t, "write", "no")
  /\ number[t] <= reads + capacity
  /\ UNCHANGED <<written, reads, elem>>

BeginRead(t) ==
  /\ Begin(t, "read", reads + 1)
  /\ reads' = reads + 1
  /\ UNCHANGED <<written, elem>>

EndRead(t) ==
  /\ End(t, "read", "got")
  /\ number[t] <= Len(written)
  /\ elem' = [elem EXCEPT ![t] = written[number[t]]]
  /\ UNCHANGED <<written, reads>>

Return(t) ==
  /\ End(t, "got", "no")
  /\ elem' = [elem EXCEPT ![t] = NoData]
  /\ UNCHANGED <<written, reads>>

Next ==
  \E t \in Threads :
    \/ \E v \in Data : BeginWrite(t, v)
    \/ EndWrite(t) \/ BeginRead(t) \/ EndRead(t) \/ Return(t)

Spec ==
  /\ Init /\ [][Next]_vars
  /\ \A t \in Threads : WF_vars(EndWrite(t)) /\ WF_vars(EndRead(t)) /\ WF_vars(Return(t))
=============================================================================
