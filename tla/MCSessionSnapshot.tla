------------------------- MODULE MCSessionSnapshot --------------------------
(* Instances of SessionSnapshot for TLC.                                   *)
EXTENDS SessionSnapshot, TLC

Answers == {"completed"}
AllEnds == {"completed", "error", "paused"}
RequestSymmetry == Permutations(Requests)
=============================================================================
