------------------------ MODULE MCInboxRepository --------------------------
(* Instances of InboxRepository for TLC.                                   *)
EXTENDS InboxRepository, TLC

RequestSymmetry == Permutations(Requests)
\* Nothing but the properties about acknowledged admissions reads "owed".
Unacknowledged == <<mem, disk, op, orphans, waiting, session, up, delivered>>

NoneCancelled == {}
TurnTasks == {"admit", "claim"}
=============================================================================
