---------------------------- MODULE MCAsyncSocket ----------------------------
(* Instances of AsyncSocket for TLC. *)
EXTENDS AsyncSocket
=============================================================================
