--------------------------- MODULE MCGroupCommit ----------------------------
(* Model checking module GroupCommit. *)
EXTENDS GroupCommit, TLC

CONSTANTS w1, w2
=============================================================================
