-------------------------------- MODULE Turns --------------------------------
(***************************************************************************)
(* What a TurnSequencer promises its users: every turn belongs to one      *)
(* caller, and the callers are admitted one at a time in the order of      *)
(* their turns, each when the one before it has completed its turn.        *)
(***************************************************************************)
EXTENDS Naturals

CONSTANTS Threads, firstTurn, Numbers

VARIABLES current,  \* the turn that is next to be completed
          taken,    \* the turns that were handed out
          phase,    \* per thread: "out", "waiting", "in"
          turn      \* per thread: the turn it has while it is not "out"

Init ==
  /\ current = firstTurn /\ taken = {}
  /\ phase = [t \in Threads |-> "out"]
  /\ turn = [t \in Threads |-> 0]

Ask(t, n) ==
  /\ phase[t] = "out" /\ n \notin taken /\ n >= current
  /\ phase' = [phase EXCEPT ![t] = "waiting"]
  /\ turn' = [turn EXCEPT ![t] = n]
  /\ taken' = taken \cup {n}
  /\ UNCHANGED current

Enter(t) ==
  /\ phase[t] = "waiting" /\ turn[t] = current
  /\ phase' = [phase EXCEPT ![t] = "in"]
  /\ UNCHANGED <<current, taken, turn>>

Leave(t) ==
  /\ phase[t] = "in"
  /\ phase' = [phase EXCEPT ![t] = "out"]
  /\ turn' = [turn EXCEPT ![t] = 0]
  /\ current' = current + 1
  /\ UNCHANGED taken

vars == <<current, taken, phase, turn>>

Next == \E t \in Threads : (\E n \in Numbers : Ask(t, n)) \/ Enter(t) \/ Leave(t)

Spec ==
  /\ Init /\ [][Next]_vars
  /\ \A t \in Threads : WF_vars(Enter(t)) /\ WF_vars(Leave(t))
=============================================================================
