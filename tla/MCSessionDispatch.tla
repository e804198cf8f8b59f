------------------------- MODULE MCSessionDispatch --------------------------
(* Instances of SessionDispatch for TLC.                                   *)
EXTENDS SessionDispatch, TLC

NoConfirms == {}
OneConfirm == {"c1"}
TwoConfirms == {"c1", "c2"}
Natural == {"completed"}
NotPaused == {"completed", "failed"}
NotFailed == {"completed", "paused"}
AllOutcomes == {"completed", "paused", "failed"}
RequestSymmetry == Permutations(Requests)
=============================================================================
