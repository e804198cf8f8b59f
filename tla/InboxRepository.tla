-------------------------- MODULE InboxRepository --------------------------
(***************************************************************************)
(* ftre_inbox.repository.InboxRepository for one Session: the queues in    *)
(* memory, the file inbox.json, and the asyncio lock that serialises the   *)
(* operations.                                                             *)
(*                                                                         *)
(* An operation changes the memory in one step when it has the lock, then  *)
(* awaits asyncio.to_thread(_atomic_write, ...): a worker thread picks the *)
(* write up, replaces the file and ends, and only then does the operation  *)
(* return to its caller and release the lock.  While it waits its task may *)
(* be cancelled: the lock is released at once, a write that no thread has  *)
(* picked up is dropped, and one that a thread runs goes on by itself (an  *)
(* "orphan"), to land at any later time.  A write may also fail.           *)
(*                                                                         *)
(* A file that does not exist is EmptyInbox: that is what the memory       *)
(* starts from in both cases, and no operation writes EmptyInbox.          *)
(***************************************************************************)
EXTENDS PendingQueues

CONSTANTS
    Capacity,       \* mailboxCapacity, over both queues
    MaxSequence,    \* bound on next_sequence, so that TLC can finish
    MaxOrphans,     \* bound on the orphaned writes in flight, likewise
    MaxWaiting,     \* bound on the admissions that wait for the lock, likewise
    Cancellable,    \* the operations that run in a task someone cancels
    MayFail         \* whether writing the file may raise

Operations == {"admit", "claim", "remove", "edit", "promote", "delete"}

ASSUME InboxAssumption ==
    /\ Capacity \in Nat \ {0}
    /\ MaxSequence \in Nat \ {0}
    /\ MaxOrphans \in Nat /\ MaxWaiting \in Nat
    /\ Cancellable \subseteq Operations
    /\ MayFail \in BOOLEAN

VARIABLES
    mem,        \* self._states[session_id]
    disk,       \* inbox.json
    op,         \* the operation that has the lock
    orphans,    \* what threads nobody waits for are writing
    waiting,    \* admissions past session_exists that wait for the lock
    session,    \* "live" -> "deleted" -> "disposed"
    up,         \* the Gateway runs
    owed,       \* [history] admissions acknowledged, still to be handed over
    delivered   \* [history] what claim has returned

vars == <<mem, disk, op, orphans, waiting, session, up, owed, delivered>>

Operation == [kind : Operations, items : SUBSET Item,
              phase : {"queued", "running", "done", "failed"}]
NoOp == [kind |-> "none", items |-> {}, phase |-> "none"]

\* How an item is named in the histories: by its admission.  A sequence that
\* a crash has made free again names the later admission.
Admission == [request_id : Requests, sequence : Nat \ {0}]
Named(items) ==
    {[request_id |-> i.request_id, sequence |-> i.sequence] : i \in items}

TypeOK ==
    /\ mem \in Inbox
    /\ disk \in Inbox
    /\ op \in Operation \cup {NoOp}
    /\ orphans \subseteq Inbox
    /\ waiting \subseteq Requests \X Targets
    /\ session \in {"live", "deleted", "disposed"}
    /\ up \in BOOLEAN
    /\ owed \subseteq Admission
    /\ delivered \subseteq Admission

Init ==
    /\ mem = EmptyInbox
    /\ disk = EmptyInbox
    /\ op = NoOp
    /\ orphans = {}
    /\ waiting = {}
    /\ session = "live"
    /\ up = TRUE
    /\ owed = {}
    /\ delivered = {}

-----------------------------------------------------------------------------
(* The operations, from the lock to the write.                             *)

LockFree == up /\ op = NoOp

\* Mutation: the operation remembers ids where items are expected.
CommitIds(kind, items, box) ==
    /\ mem' = box
    /\ op' = [kind |-> kind, items |-> Ids(items), phase |-> "queued"]

\* The change of the memory and the call of _commit.  An operation whose
\* validate() raises has changed the memory and writes nothing.
Commit(kind, items, box) ==
    /\ mem' = box
    /\ op' = [kind |-> kind, items |-> items,
              phase |-> IF Validate(box) THEN "queued" ELSE "failed"]

\* session_exists is asked before the lock: an admission that finds the lock
\* held keeps the answer while it waits.
Arrive(r, target) ==
    /\ up /\ op # NoOp
    /\ session = "live"
    /\ Cardinality(waiting) < MaxWaiting
    /\ waiting' = waiting \cup {<<r, target>>}
    /\ UNCHANGED <<mem, disk, op, orphans, session, up, owed, delivered>>

\* The caller of an admission that waits for the lock is cancelled.
GiveUp(r, target) ==
    /\ "admit" \in Cancellable
    /\ <<r, target>> \in waiting
    /\ waiting' = waiting \ {<<r, target>>}
    /\ UNCHANGED <<mem, disk, op, orphans, session, up, owed, delivered>>

\* An admission that has the lock: one that waited for it, or one that found
\* it free and the Session alive.
EnterAdmit(r, target) ==
    /\ LockFree
    /\ session = "live" \/ <<r, target>> \in waiting
    /\ waiting' = waiting \ {<<r, target>>}

\* The id is already pending: the caller is told "accepted" and nothing is
\* written.
AdmitAgain(r, target) ==
    /\ EnterAdmit(r, target)
    /\ r \in Ids(Pending(mem))
    /\ owed' = owed \cup Named({ItemOf(mem, r)})
    /\ UNCHANGED <<mem, disk, op, orphans, session, up, delivered>>

\* Mutation: the capacity is off by one.
FullLate == Size(mem) > Capacity

Full == Size(mem) >= Capacity

AdmitFull(r, target) ==
    /\ EnterAdmit(r, target)
    /\ r \notin Ids(Pending(mem))
    /\ Full
    /\ UNCHANGED <<mem, disk, op, orphans, session, up, owed, delivered>>

\* Mutation: the client is told "accepted" before the write.
AdmitNewEager(r, target) ==
    /\ EnterAdmit(r, target)
    /\ r \notin Ids(Pending(mem))
    /\ ~Full
    /\ mem.next_sequence < MaxSequence
    /\ LET box == Admitted(mem, r, target)
       IN  /\ Commit("admit", {ItemOf(box, r)}, box)
           /\ delivered' = delivered \ Named({ItemOf(box, r)})
           /\ owed' = owed \cup Named({ItemOf(box, r)})
    /\ UNCHANGED <<disk, orphans, session, up>>

AdmitNew(r, target) ==
    /\ EnterAdmit(r, target)
    /\ r \notin Ids(Pending(mem))
    /\ ~Full
    /\ mem.next_sequence < MaxSequence
    /\ LET box == Admitted(mem, r, target)
       IN  /\ Commit("admit", {ItemOf(box, r)}, box)
           /\ delivered' = delivered \ Named({ItemOf(box, r)})
    /\ UNCHANGED <<disk, orphans, session, up, owed>>

\* Mutation: the items are copied, not popped.
LeaveCopies(kind, ids) ==
    LET items == {i \in Pending(mem) : i.request_id \in ids}
    IN  /\ Commit(kind, items, mem)
        /\ owed' = owed \ Named(items)

\* Items begin to leave the queues: nothing more is owed for them.
Leave(kind, ids) ==
    LET items == {i \in Pending(mem) : i.request_id \in ids}
    IN  /\ Commit(kind, items, Without(mem, ids))
        /\ owed' = owed \ Named(items)

\* Mutation: the claim is not written.
ClaimUnwritten(ids) ==
    /\ LockFree
    /\ ids # {} /\ ids \subseteq Ids(Pending(mem))
    /\ mem' = Without(mem, ids)
    /\ LET items == {i \in Pending(mem) : i.request_id \in ids}
       IN  /\ op' = [kind |-> "claim", items |-> items, phase |-> "done"]
           /\ owed' = owed \ Named(items)
    /\ UNCHANGED <<disk, orphans, waiting, session, up, delivered>>

\* claim() takes all the ids it is given or none.
Claim(ids) ==
    /\ LockFree
    /\ ids # {} /\ ids \subseteq Ids(Pending(mem))
    /\ Leave("claim", ids)
    /\ UNCHANGED <<disk, orphans, waiting, session, up, delivered>>

Remove(r) ==
    /\ LockFree
    /\ r \in Ids(Pending(mem))
    /\ Leave("remove", {r})
    /\ UNCHANGED <<disk, orphans, waiting, session, up, delivered>>

Edit(r) ==
    /\ LockFree
    /\ r \in Ids(Pending(mem))
    /\ LET box == Edited(mem, r)
       IN  Commit("edit", {ItemOf(box, r)}, box)
    /\ UNCHANGED <<disk, orphans, waiting, session, up, owed, delivered>>

\* An item that is in next_step already is returned as it is.
Promote(r) ==
    /\ LockFree
    /\ r \in Ids(Contents(mem.next_turn))
    /\ Commit("promote", {ItemOf(mem, r)}, Promoted(mem, r))
    /\ UNCHANGED <<disk, orphans, waiting, session, up, owed, delivered>>

\* SessionService has deleted the Session, and its "disposed" hook makes the
\* Inbox forget it.
SessionDeleted ==
    /\ up /\ session = "live"
    /\ session' = "deleted"
    /\ UNCHANGED <<mem, disk, op, orphans, waiting, up, owed, delivered>>

DeleteSession ==
    /\ LockFree
    /\ session = "deleted"
    /\ session' = "disposed"
    /\ mem' = EmptyInbox
    /\ op' = IF disk = EmptyInbox
               THEN NoOp
               ELSE [kind |-> "delete", items |-> {}, phase |-> "queued"]
    /\ owed' = {} /\ delivered' = {}
    /\ UNCHANGED <<disk, orphans, waiting, up>>

-----------------------------------------------------------------------------
(* The worker threads.  While an operation has the lock the memory does    *)
(* not change, so the payload of its write is the memory.                  *)

\* Mutation: the operation does not wait for the thread.
ThreadStartsUnawaited ==
    /\ op.phase = "queued"
    /\ op' = [op EXCEPT !.phase = "done"]
    /\ orphans' = orphans \cup {mem}
    /\ UNCHANGED <<mem, disk, waiting, session, up, owed, delivered>>

ThreadStarts ==
    /\ op.phase = "queued"
    /\ op' = [op EXCEPT !.phase = "running"]
    /\ UNCHANGED <<mem, disk, orphans, waiting, session, up, owed, delivered>>

\* os.replace, or unlink for a deletion.
WriteLands ==
    /\ op.phase = "running"
    /\ disk' = mem
    /\ op' = [op EXCEPT !.phase = "done"]
    /\ UNCHANGED <<mem, orphans, waiting, session, up, owed, delivered>>

WriteFails ==
    /\ MayFail
    /\ op.phase = "running"
    /\ op' = [op EXCEPT !.phase = "failed"]
    /\ UNCHANGED <<mem, disk, orphans, waiting, session, up, owed, delivered>>

OrphanLands(box) ==
    /\ box \in orphans
    /\ disk' = box
    /\ orphans' = orphans \ {box}
    /\ UNCHANGED <<mem, op, waiting, session, up, owed, delivered>>

-----------------------------------------------------------------------------
(* The ends of an operation: it returns, it raises, or its task is         *)
(* cancelled.  Each releases the lock.                                     *)

Return ==
    /\ op.phase = "done"
    /\ op' = NoOp
    /\ owed' = IF op.kind = "admit" THEN owed \cup Named(op.items) ELSE owed
    /\ delivered' = IF op.kind = "claim"
                      THEN delivered \cup Named(op.items) ELSE delivered
    /\ UNCHANGED <<mem, disk, orphans, waiting, session, up>>

Raise ==
    /\ op.phase = "failed"
    /\ op' = NoOp
    /\ UNCHANGED <<mem, disk, orphans, waiting, session, up, owed, delivered>>

Cancelled ==
    /\ op.kind \in Cancellable
    /\ op.phase = "running" => Cardinality(orphans) < MaxOrphans
    /\ op' = NoOp
    /\ orphans' = IF op.phase = "running" THEN orphans \cup {mem} ELSE orphans
    /\ UNCHANGED <<mem, disk, waiting, session, up, owed, delivered>>

-----------------------------------------------------------------------------
(* The process.                                                            *)

Crash ==
    /\ up
    /\ up' = FALSE
    /\ mem' = EmptyInbox
    /\ op' = NoOp
    /\ orphans' = {} /\ waiting' = {}
    /\ UNCHANGED <<disk, session, owed, delivered>>

\* Mutation: next_sequence is not restored.
RestartRenumbers ==
    /\ ~up
    /\ up' = TRUE
    /\ mem' = [disk EXCEPT !.next_sequence = 1]
    /\ UNCHANGED <<disk, op, orphans, waiting, session, owed, delivered>>

\* load_all(): a file that validate() refuses is renamed away.
Restart ==
    /\ ~up
    /\ up' = TRUE
    /\ mem' = IF Validate(disk) THEN disk ELSE EmptyInbox
    /\ disk' = IF Validate(disk) THEN disk ELSE EmptyInbox
    /\ UNCHANGED <<op, orphans, waiting, session, owed, delivered>>

-----------------------------------------------------------------------------
Next ==
    \/ \E r \in Requests, target \in Targets :
          \/ Arrive(r, target)
          \/ GiveUp(r, target)
          \/ AdmitAgain(r, target)
          \/ AdmitFull(r, target)
          \/ AdmitNew(r, target)
    \/ \E ids \in SUBSET Requests : Claim(ids)
    \/ \E r \in Requests : Remove(r) \/ Edit(r) \/ Promote(r)
    \/ SessionDeleted
    \/ DeleteSession
    \/ ThreadStarts
    \/ WriteLands
    \/ WriteFails
    \/ \E box \in orphans : OrphanLands(box)
    \/ Return
    \/ Raise
    \/ Cancelled
    \/ Crash
    \/ Restart

Spec == Init /\ [][Next]_vars
-----------------------------------------------------------------------------
(* What is promised.                                                       *)

\* No sequence of operations leaves queues that validate() refuses, so no
\* admission is reported as "session-not-found" for it (_admit maps every
\* ValueError to that), and the next admission has a sequence of its own.
QueuesWellFormed == WellFormed(mem)

\* Whatever landed last, a restart can load the file: load_all never renames
\* it to inbox.json.corrupt-*, which would drop all that is pending.
FileLoads == WellFormed(disk)

\* The queues never hold more than the capacity, in memory or on disk.
WithinCapacity == Size(mem) <= Capacity /\ Size(disk) <= Capacity

\* The inductive invariant behind the three: what is true of the memory and
\* the file is true of every write that may still land.
Good(box) == WellFormed(box) /\ Size(box) <= Capacity
Inductive == TypeOK /\ \A box \in {mem, disk} \cup orphans : Good(box)

\* An admission the client was told is accepted is in the file until it
\* begins to leave, so that a crash at any time keeps it.
AcceptedIsDurable ==
    \A a \in owed : a \in Named(Pending(disk))

\* "claim 后项目永久离开队列": what a claim has handed over is never pending
\* again, before a restart or after it.
ClaimedNeverReturns == Named(Pending(mem)) \cap delivered = {}

\* The same within one life of the process: only a restart can bring an item
\* back, whatever is cancelled and whatever fails.
ClaimedReturnsOnlyByRestart ==
    [][up /\ up' /\ session' = session =>
          Named(Pending(mem')) \cap delivered' \subseteq
          Named(Pending(mem)) \cap delivered]_vars

\* "keep pending and make failure observable" (_dispatch_next_turn): a claim
\* that raised has left its items in the queues.
FailedClaimKeepsPending ==
    op.kind = "claim" /\ op.phase = "failed" => op.items \subseteq Pending(mem)

\* The file, read as the abstract Inbox: its items tagged with their queue.
Tagged(q, target) ==
    {[request_id |-> i.request_id, sequence |-> i.sequence,
      edited |-> i.edited, target |-> target] : i \in Contents(q)}

Durable == INSTANCE DurableInbox WITH
    box <- Tagged(disk.next_turn, "next_turn")
               \cup Tagged(disk.next_step, "next_step"),
    next_sequence <- disk.next_sequence,
    taken <- IF op.kind = "claim" /\ op.phase = "done"
               THEN Named(op.items) ELSE {}

\* When no task is cancelled and no write fails, the repository is a set of
\* items that every operation changes atomically and no crash touches.
ImplementsDurableInbox == Durable!Spec
=============================================================================
