---------------------------- MODULE ComputeStride ----------------------------
(***************************************************************************)
(* MPMCQueueBase::computeStride(): the distance between the slots of       *)
(* consecutive tickets.  It must lead to every slot, and far enough from   *)
(* the last one that neighbouring tickets do not share a cache line.       *)
(***************************************************************************)
EXTENDS Integers, FiniteSets
LOCAL INSTANCE SequencesExt

CONSTANT MaxCapacity   \* bound: the capacities tried

ASSUME ComputeStrideAssumption == MaxCapacity \in Nat

smallPrimes == <<2, 3, 5, 7, 11, 13, 17, 19, 23>>

\* Mutant: the stride may divide the capacity.
UsableDivisor(p, cap) == p % cap # 0

\* A stride that is not passed over.
Usable(p, cap) == p % cap # 0 /\ cap % p # 0

Sep(p, cap) == LET sep == p % cap IN IF sep < cap - sep THEN sep ELSE cap - sep

\* The loop over smallPrimes, and what it returns.
Improve(best, p, cap) ==
  IF Usable(p, cap) /\ Sep(p, cap) > best.sep THEN [stride |-> p, sep |-> Sep(p, cap)] ELSE best

computeStride(cap) ==
  FoldLeft(LAMBDA best, p : Improve(best, p, cap), [stride |-> 1, sep |-> 1], smallPrimes).stride
-----------------------------------------------------------------------------
(* Properties *)

\* The slots of a turn under stride p, and how far apart two of them are.
SlotsOf(p, cap) == {(k * p) % cap : k \in 0..cap-1}
Distance(a, b, cap) == LET d == (a - b) % cap IN IF d < cap - d THEN d ELSE cap - d

\* For every capacity the stride found gives every ticket of a turn a slot of its
\* own, and neighbouring tickets are as far apart as with any other of the
\* primes that does.
BestStride ==
  \A cap \in 1..MaxCapacity :
    LET s == computeStride(cap) IN
      /\ SlotsOf(s, cap) = 0..cap-1
      /\ \A n \in DOMAIN smallPrimes : LET p == smallPrimes[n] IN
           Cardinality(SlotsOf(p, cap)) = cap =>
             \A k \in 0..cap-1 : Distance(k * p, (k + 1) * p, cap) <= Distance(k * s, (k + 1) * s, cap)
=============================================================================
