------------------------------- MODULE Handoff -------------------------------
(***************************************************************************)
(* What a folly::Baton promises its users, without futex, spinning or      *)
(* races: a single hand-off from one post() to one wait() per lifetime.    *)
(* The detailed model in Baton.tla is shown to implement this one.         *)
(***************************************************************************)
VARIABLES
  posted,   \* a post() of this lifetime has taken effect
  outcome,  \* the wait of this lifetime: "no", "waiting", "true" or "false"
  bounded   \* that wait has a deadline

vars == <<posted, outcome, bounded>>

Init == posted = FALSE /\ outcome = "no" /\ bounded = FALSE

\* The one post() of the lifetime takes effect.
Post == ~posted /\ posted' = TRUE /\ UNCHANGED <<outcome, bounded>>

\* A call that may block begins.
Wait(b) == outcome = "no" /\ outcome' = "waiting" /\ bounded' = b /\ UNCHANGED posted

\* A wait (or a try_wait, which never becomes "waiting") succeeds.
Succeed == /\ posted
           /\ outcome \in {"no", "waiting"}
           /\ outcome' = "true"
           /\ UNCHANGED <<posted, bounded>>

\* Only a wait with a deadline may give up.
GiveUp == /\ outcome = "waiting"
          /\ bounded
          /\ outcome' = "false"
          /\ UNCHANGED <<posted, bounded>>

\* reset(): a new lifetime begins, and the old post is forgotten.
Renew == outcome \in {"true", "false"} /\ posted' = FALSE /\ outcome' = "no" /\ bounded' = FALSE

Next == Post \/ (\E b \in BOOLEAN : Wait(b)) \/ Succeed \/ GiveUp \/ Renew

Spec == Init /\ [][Next]_vars
=============================================================================
