---------------------------- MODULE MCComponents ----------------------------
(* Components, with the instance of Components.cfg. *)
EXTENDS Components
=============================================================================
