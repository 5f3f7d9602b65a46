------------------------------- MODULE MCBaton -------------------------------
(* Two posters: while one still owes the wake of an old lifetime the other    *)
(* posts in the next.                                                         *)
EXTENDS Baton
=============================================================================
