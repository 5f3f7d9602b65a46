---------------------------- MODULE MCTurnSequencer --------------------------
(* Three threads; deltas saturate at 2, channels repeat every 2 turns and    *)
(* the turn number wraps around at 12.                                       *)
EXTENDS TurnSequencer
=============================================================================
