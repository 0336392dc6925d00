------------------------ MODULE MCPlannedMoveServer ------------------------
(* Model-checking instance of PlannedMoveServer. *)
EXTENDS PlannedMoveServer
=============================================================================
