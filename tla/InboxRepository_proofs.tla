----------------------- MODULE InboxRepository_proofs -----------------------
(***************************************************************************)
(* The repository keeps its types, its queues well-formed and within the   *)
(* capacity, in memory, in the file and in every write that is under way,  *)
(* and what a claim has handed over comes back within no life of the       *)
(* process, for any number of requests, any capacity, any set of           *)
(* cancellable operations and whether or not writes fail.                  *)
(*                                                                         *)
(* When no operation is cancelled nothing comes back after a crash either; *)
(* and when moreover no write fails the repository implements              *)
(* DurableInbox, and so keeps whatever a client was told is accepted.      *)
(* Without these conditions neither holds: a write that fails loses what   *)
(* was accepted (run InboxRepository_retry), and the late write of a       *)
(* cancelled claim brings its items back after a crash.                    *)
(***************************************************************************)
EXTENDS InboxRepository, PendingQueues_proofs

\* The size of an Inbox is a number.
LEMMA SizeType ==
    ASSUME NEW box \in Inbox
    PROVE  Size(box) \in Nat
<1>1. box.next_turn \in Seq(Item) /\ box.next_step \in Seq(Item)
  BY DEF Inbox
<1>2. Len(box.next_turn) \in Nat /\ Len(box.next_step) \in Nat
  BY <1>1, LenProperties
<1>3. \A m, n \in Nat : m + n \in Nat
  OBVIOUS
<1> QED
  BY <1>2, <1>3, Zenon DEF Size

\* Items are named by admissions.
LEMMA NamedType ==
    ASSUME NEW items \in SUBSET Item
    PROVE  Named(items) \subseteq Admission
BY DEF Named, Item, Admission

\* An empty Inbox is good.
LEMMA GoodEmpty == EmptyInbox \in Inbox /\ Good(EmptyInbox)
<1>1. EmptyInbox \in Inbox /\ WellFormed(EmptyInbox)
  BY EmptySound, SoundIsWellFormed
<1>2. Size(EmptyInbox) = 0
  BY DEF Size, EmptyInbox
<1> QED
  BY <1>1, <1>2, InboxAssumption DEF Good

\* An admission below the capacity leaves a good Inbox, with its item.
LEMMA GoodAdmitted ==
    ASSUME NEW box \in Inbox, Good(box), Size(box) < Capacity,
           NEW r \in Requests, r \notin Ids(Pending(box)),
           NEW target \in Targets
    PROVE  /\ Admitted(box, r, target) \in Inbox
           /\ Good(Admitted(box, r, target))
           /\ ItemOf(Admitted(box, r, target), r) \in Item
<1> DEFINE a == Admitted(box, r, target)
<1>1. a \in Inbox /\ Size(a) = Size(box) + 1 /\ r \in Ids(Pending(a))
  BY AdmittedSound DEF Ids
<1>2. Sound(box)
  BY SoundIsWellFormed DEF Good
<1>3. Sound(a)
  BY <1>2, AdmittedSound
<1> HIDE DEF a
<1>4. WellFormed(a)
  BY <1>1, <1>3, SoundIsWellFormed
<1>5. Size(a) <= Capacity
  BY <1>1, SizeType, InboxAssumption
<1>6. ItemOf(a, r) \in Item
  BY <1>1, ItemOfPending, PendingItems
<1> QED
  BY <1>1, <1>4, <1>5, <1>6 DEF Good, a

\* Taking items out leaves a good Inbox.
LEMMA GoodWithout ==
    ASSUME NEW box \in Inbox, Good(box), NEW ids
    PROVE  Without(box, ids) \in Inbox /\ Good(Without(box, ids))
<1> DEFINE w == Without(box, ids)
<1>1. Sound(box)
  BY SoundIsWellFormed DEF Good
<1>2. w \in Inbox /\ Sound(w) /\ Size(w) <= Size(box)
  BY <1>1, WithoutSound
<1> HIDE DEF w
<1>3. WellFormed(w)
  BY <1>2, SoundIsWellFormed
<1>4. Size(w) \in Nat /\ Size(box) \in Nat /\ Size(box) <= Capacity
  BY <1>2, SizeType DEF Good
<1> QED
  BY <1>2, <1>3, <1>4, InboxAssumption DEF Good, w

\* An edit leaves a good Inbox, with the edited item.
LEMMA GoodEdited ==
    ASSUME NEW box \in Inbox, Good(box), NEW r \in Ids(Pending(box))
    PROVE  /\ Edited(box, r) \in Inbox /\ Good(Edited(box, r))
           /\ ItemOf(Edited(box, r), r) \in Item
<1> DEFINE w == Edited(box, r)
<1>1. Sound(box)
  BY SoundIsWellFormed DEF Good
<1>2. w \in Inbox /\ Sound(w) /\ Size(w) = Size(box) /\ r \in Ids(Pending(w))
  BY <1>1, EditedSound
<1> HIDE DEF w
<1>3. WellFormed(w)
  BY <1>2, SoundIsWellFormed
<1>4. ItemOf(w, r) \in Item
  BY <1>2, ItemOfPending, PendingItems
<1> QED
  BY <1>2, <1>3, <1>4 DEF Good, w

\* A promotion leaves a good Inbox.
LEMMA GoodPromoted ==
    ASSUME NEW box \in Inbox, Good(box),
           NEW r \in Ids(Contents(box.next_turn))
    PROVE  Promoted(box, r) \in Inbox /\ Good(Promoted(box, r))
<1> DEFINE w == Promoted(box, r)
<1>1. Sound(box)
  BY SoundIsWellFormed DEF Good
<1>2. w \in Inbox /\ Sound(w) /\ Size(w) <= Size(box)
  BY <1>1, PromotedSound
<1> HIDE DEF w
<1>3. WellFormed(w)
  BY <1>2, SoundIsWellFormed
<1>4. Size(w) \in Nat /\ Size(box) \in Nat /\ Size(box) <= Capacity
  BY <1>2, SizeType DEF Good
<1> QED
  BY <1>2, <1>3, <1>4, InboxAssumption DEF Good, w

-----------------------------------------------------------------------------
\* What an operation that commits a good Inbox leaves behind.
LEMMA CommitType ==
    ASSUME TypeOK, NEW kind \in Operations, NEW items \in SUBSET Item,
           NEW box \in Inbox, Commit(kind, items, box)
    PROVE  /\ mem' = box
           /\ op' \in Operation
BY DEF Commit, Operation

\* Items that leave the queues leave a good Inbox.
LEMMA LeaveInductive ==
    ASSUME Inductive, NEW kind \in Operations, NEW ids, Leave(kind, ids),
           UNCHANGED <<disk, orphans, waiting, session, up, delivered>>
    PROVE  Inductive'
<1> DEFINE items == {i \in Pending(mem) : i.request_id \in ids}
<1> USE DEF Inductive
<1>1. mem \in Inbox /\ Good(mem)
  BY DEF TypeOK
<1>2. items \in SUBSET Item
  BY <1>1, PendingItems
<1>3. Without(mem, ids) \in Inbox /\ Good(Without(mem, ids))
  BY <1>1, GoodWithout
<1>4. Commit(kind, items, Without(mem, ids)) /\ owed' = owed \ Named(items)
  BY DEF Leave
<1> HIDE DEF items
<1>5. /\ mem' = Without(mem, ids)
      /\ op' \in Operation
  BY <1>2, <1>3, <1>4, CommitType
<1>6. TypeOK'
  BY <1>3, <1>4, <1>5 DEF TypeOK
<1>7. \A box \in {mem', disk} \cup orphans : Good(box)
  BY <1>3, <1>5
<1> QED
  BY <1>6, <1>7 DEF Good

\* The initial Inbox is empty, in memory and on disk.
LEMMA InitInductive == Init => Inductive
<1> SUFFICES ASSUME Init PROVE Inductive
  OBVIOUS
<1>1. TypeOK
  BY GoodEmpty DEF Init, TypeOK
<1>2. \A box \in {mem, disk} \cup orphans : Good(box)
  BY GoodEmpty DEF Init
<1> QED
  BY <1>1, <1>2 DEF Inductive

\* Every step keeps the invariant: an operation computes a good Inbox from
\* the memory, and a thread, a crash or a restart only copies one.
LEMMA NextInductive == Inductive /\ [Next]_vars => Inductive'
<1> SUFFICES ASSUME Inductive, [Next]_vars PROVE Inductive'
  OBVIOUS
<1>1. TypeOK /\ mem \in Inbox /\ disk \in Inbox
  BY DEF Inductive, TypeOK
<1>2. Good(mem) /\ Good(disk) /\ \A box \in orphans : Good(box)
  BY DEF Inductive
<1>3. ASSUME TypeOK', mem' \in {mem, disk, EmptyInbox},
             disk' \in {mem, disk, EmptyInbox} \cup orphans,
             orphans' \subseteq {mem} \cup orphans
      PROVE  Inductive'
  <2>1. \A box \in {mem', disk'} \cup orphans' : Good(box)
    BY <1>2, <1>3, GoodEmpty
  <2> QED
    BY <1>3, <2>1 DEF Inductive, Good
<1>4. ASSUME NEW r \in Requests, NEW target \in Targets, Arrive(r, target)
      PROVE  Inductive'
  BY <1>1, <1>3, <1>4 DEF Arrive, TypeOK
<1>5. ASSUME NEW r \in Requests, NEW target \in Targets, GiveUp(r, target)
      PROVE  Inductive'
  BY <1>1, <1>3, <1>5 DEF GiveUp, TypeOK
<1>6. ASSUME NEW r \in Requests, NEW target \in Targets,
             AdmitAgain(r, target)
      PROVE  Inductive'
  <2>1. Named({ItemOf(mem, r)}) \subseteq Admission
    BY <1>1, <1>6, ItemOfPending, PendingItems, NamedType DEF AdmitAgain
  <2> QED
    BY <1>1, <1>3, <1>6, <2>1 DEF AdmitAgain, EnterAdmit, TypeOK
<1>7. ASSUME NEW r \in Requests, NEW target \in Targets,
             AdmitFull(r, target)
      PROVE  Inductive'
  BY <1>1, <1>3, <1>7 DEF AdmitFull, EnterAdmit, TypeOK
<1>8. ASSUME NEW r \in Requests, NEW target \in Targets,
             AdmitNew(r, target)
      PROVE  Inductive'
  <2> DEFINE box == Admitted(mem, r, target)
             items == {ItemOf(box, r)}
  <2>1. box \in Inbox /\ Good(box) /\ items \in SUBSET Item
    <3>1. Size(mem) < Capacity
      BY <1>1, <1>8, SizeType, InboxAssumption DEF AdmitNew, Full
    <3> QED
      BY <1>1, <1>2, <1>8, <3>1, GoodAdmitted DEF AdmitNew
  <2>2. /\ Commit("admit", items, box)
        /\ delivered' = delivered \ Named(items)
        /\ waiting' = waiting \ {<<r, target>>}
        /\ UNCHANGED <<disk, orphans, session, up, owed>>
    BY <1>8 DEF AdmitNew, EnterAdmit
  <2> HIDE DEF box, items
  <2>3. mem' = box /\ op' \in Operation
    BY <1>1, <2>1, <2>2, CommitType DEF Operations
  <2>4. TypeOK'
    BY <1>1, <2>1, <2>2, <2>3 DEF TypeOK
  <2>5. \A b \in {mem', disk'} \cup orphans' : Good(b)
    BY <1>2, <2>1, <2>2, <2>3
  <2> QED
    BY <2>4, <2>5 DEF Inductive, Good
<1>9. ASSUME NEW ids \in SUBSET Requests, Claim(ids) PROVE Inductive'
  BY <1>9, LeaveInductive DEF Claim, Operations
<1>10. ASSUME NEW r \in Requests, Remove(r) PROVE Inductive'
  BY <1>10, LeaveInductive DEF Remove, Operations
<1>11. ASSUME NEW r \in Requests, Edit(r) PROVE Inductive'
  <2> DEFINE box == Edited(mem, r)
             items == {ItemOf(box, r)}
  <2>1. box \in Inbox /\ Good(box) /\ items \in SUBSET Item
    BY <1>1, <1>2, <1>11, GoodEdited DEF Edit
  <2>2. /\ Commit("edit", items, box)
        /\ UNCHANGED <<disk, orphans, waiting, session, up, owed, delivered>>
    BY <1>11 DEF Edit
  <2> HIDE DEF box, items
  <2>3. mem' = box /\ op' \in Operation
    BY <1>1, <2>1, <2>2, CommitType DEF Operations
  <2>4. TypeOK'
    BY <1>1, <2>1, <2>2, <2>3 DEF TypeOK
  <2>5. \A b \in {mem', disk'} \cup orphans' : Good(b)
    BY <1>2, <2>1, <2>2, <2>3
  <2> QED
    BY <2>4, <2>5 DEF Inductive, Good
<1>12. ASSUME NEW r \in Requests, Promote(r) PROVE Inductive'
  <2> DEFINE box == Promoted(mem, r)
             items == {ItemOf(mem, r)}
  <2>1. r \in Ids(Contents(mem.next_turn)) /\ r \in Ids(Pending(mem))
    BY <1>12 DEF Promote, Pending, Ids
  <2>2. box \in Inbox /\ Good(box)
    BY <1>1, <1>2, <2>1, GoodPromoted
  <2>3. items \in SUBSET Item
    BY <1>1, <2>1, ItemOfPending, PendingItems
  <2>4. /\ Commit("promote", items, box)
        /\ UNCHANGED <<disk, orphans, waiting, session, up, owed, delivered>>
    BY <1>12 DEF Promote
  <2> HIDE DEF box, items
  <2>5. mem' = box /\ op' \in Operation
    BY <1>1, <2>2, <2>3, <2>4, CommitType DEF Operations
  <2>6. TypeOK'
    BY <1>1, <2>2, <2>4, <2>5 DEF TypeOK
  <2>7. \A b \in {mem', disk'} \cup orphans' : Good(b)
    BY <1>2, <2>2, <2>4, <2>5
  <2> QED
    BY <2>6, <2>7 DEF Inductive, Good
<1>13. CASE SessionDeleted
  BY <1>1, <1>3, <1>13 DEF SessionDeleted, TypeOK
<1>14. CASE DeleteSession
  <2>1. op' \in Operation \cup {NoOp}
    BY <1>14 DEF DeleteSession, Operation, Operations
  <2> QED
    BY <1>1, <1>3, <1>14, <2>1, GoodEmpty DEF DeleteSession, TypeOK
<1>15. CASE ThreadStarts
  <2>1. op \in Operation /\ op' \in Operation
    BY <1>1, <1>15 DEF ThreadStarts, TypeOK, Operation, NoOp
  <2> QED
    BY <1>1, <1>3, <1>15, <2>1 DEF ThreadStarts, TypeOK
<1>16. CASE WriteLands
  <2>1. op \in Operation /\ op' \in Operation
    BY <1>1, <1>16 DEF WriteLands, TypeOK, Operation, NoOp
  <2> QED
    BY <1>1, <1>3, <1>16, <2>1 DEF WriteLands, TypeOK
<1>17. CASE WriteFails
  <2>1. op \in Operation /\ op' \in Operation
    BY <1>1, <1>17 DEF WriteFails, TypeOK, Operation, NoOp
  <2> QED
    BY <1>1, <1>3, <1>17, <2>1 DEF WriteFails, TypeOK
<1>18. ASSUME NEW box \in orphans, OrphanLands(box) PROVE Inductive'
  BY <1>1, <1>3, <1>18 DEF OrphanLands, TypeOK
<1>19. CASE Return
  <2>1. op.items \in SUBSET Item
    BY <1>1, <1>19 DEF Return, TypeOK, Operation, NoOp
  <2>2. Named(op.items) \subseteq Admission
    BY <2>1, NamedType
  <2> QED
    BY <1>1, <1>3, <1>19, <2>2 DEF Return, TypeOK
<1>20. CASE Raise
  BY <1>1, <1>3, <1>20 DEF Raise, TypeOK
<1>21. CASE Cancelled
  BY <1>1, <1>3, <1>21 DEF Cancelled, TypeOK
<1>22. CASE Crash
  BY <1>1, <1>3, <1>22, GoodEmpty DEF Crash, TypeOK
<1>23. CASE Restart
  BY <1>1, <1>3, <1>23, GoodEmpty DEF Restart, TypeOK
<1>24. CASE UNCHANGED vars
  BY <1>1, <1>3, <1>24 DEF vars, TypeOK
<1> QED
  BY <1>4, <1>5, <1>6, <1>7, <1>8, <1>9, <1>10, <1>11, <1>12, <1>13, <1>14,
     <1>15, <1>16, <1>17, <1>18, <1>19, <1>20, <1>21, <1>22, <1>23, <1>24
     DEF Next

\* The invariant holds of every behaviour of the repository.
LEMMA AlwaysInductive == Spec => []Inductive
BY InitInductive, NextInductive, PTL DEF Spec

-----------------------------------------------------------------------------
\* The memory and the file always hold two lists of items and the next
\* sequence, and the operation that has the lock is one of the six
\* (InboxRepository, _MutableInbox).
THEOREM Typing == Spec => []TypeOK
<1>1. Inductive => TypeOK
  BY DEF Inductive
<1> QED
  BY <1>1, AlwaysInductive, PTL

\* validate() never refuses what an operation leaves in memory, and the next
\* admission gets a sequence that no pending item has (_commit, admit).
THEOREM QueuesStayWellFormed == Spec => []QueuesWellFormed
<1>1. Inductive => QueuesWellFormed
  BY DEF Inductive, Good, QueuesWellFormed
<1> QED
  BY <1>1, AlwaysInductive, PTL

\* Whichever write landed last, that of an operation or an orphan's, whatever
\* was cancelled, failed or crashed before: load_all() can load the file.
THEOREM FileAlwaysLoads == Spec => []FileLoads
<1>1. Inductive => FileLoads
  BY DEF Inductive, Good, FileLoads
<1> QED
  BY <1>1, AlwaysInductive, PTL

\* No interleaving of admissions, claims, orphaned writes and restarts makes
\* the two queues together exceed mailboxCapacity (admit).
THEOREM CapacityHolds == Spec => []WithinCapacity
<1>1. Inductive => WithinCapacity
  BY DEF Inductive, Good, WithinCapacity
<1> QED
  BY <1>1, AlwaysInductive, PTL

-----------------------------------------------------------------------------
(* The pending items with the queue each is in, as DurableInbox has them.  *)

EntryOf(item, target) ==
    [request_id |-> item.request_id, sequence |-> item.sequence,
     edited |-> item.edited, target |-> target]

Entries(box) == Tagged(box.next_turn, "next_turn")
                    \cup Tagged(box.next_step, "next_step")

\* The entries of an Inbox are those of its two queues.
LEMMA EntriesOf ==
    ASSUME NEW box
    PROVE  Entries(box) =
               {EntryOf(i, "next_turn") : i \in Contents(box.next_turn)}
                   \cup {EntryOf(i, "next_step") : i \in Contents(box.next_step)}
BY DEF Entries, Tagged, EntryOf

\* An entry is named as its item is.
LEMMA NamedEntries ==
    ASSUME NEW box
    PROVE  /\ Durable!Named(Entries(box)) = Named(Pending(box))
           /\ \A ids : Durable!Named({e \in Entries(box) : e.request_id \in ids})
                         = Named({i \in Pending(box) : i.request_id \in ids})
<1>1. ASSUME NEW i, NEW t
      PROVE  /\ EntryOf(i, t).request_id = i.request_id
             /\ EntryOf(i, t).sequence = i.sequence
  BY DEF EntryOf
<1>2. \A e \in Entries(box) : \E i \in Pending(box) :
         e.request_id = i.request_id /\ e.sequence = i.sequence
  BY <1>1, EntriesOf DEF Pending
<1>3. \A i \in Pending(box) : \E e \in Entries(box) :
         e.request_id = i.request_id /\ e.sequence = i.sequence
  BY <1>1, EntriesOf DEF Pending
<1>4. Durable!Named(Entries(box)) = Named(Pending(box))
  BY <1>2, <1>3 DEF Named, Durable!Named
<1>5. ASSUME NEW ids
      PROVE  Durable!Named({e \in Entries(box) : e.request_id \in ids})
               = Named({i \in Pending(box) : i.request_id \in ids})
  BY <1>2, <1>3 DEF Named, Durable!Named
<1> QED
  BY <1>4, <1>5

\* An admission adds one entry, under an id that was not pending.
LEMMA EntriesAdmitted ==
    ASSUME NEW box, Sound(box), NEW r \in Requests, r \notin Ids(Pending(box)),
           NEW target \in Targets
    PROVE  /\ \A e \in Entries(box) : e.request_id # r
           /\ Entries(Admitted(box, r, target)) = Entries(box) \cup
                 {[request_id |-> r, sequence |-> box.next_sequence,
                   edited |-> FALSE, target |-> target]}
           /\ Admitted(box, r, target).next_sequence = box.next_sequence + 1
           /\ Pending(Admitted(box, r, target)) = Pending(box) \cup
                 {[request_id |-> r, sequence |-> box.next_sequence,
                   edited |-> FALSE]}
           /\ ItemOf(Admitted(box, r, target), r) =
                 [request_id |-> r, sequence |-> box.next_sequence,
                  edited |-> FALSE]
<1> DEFINE item == [request_id |-> r, sequence |-> box.next_sequence,
                    edited |-> FALSE]
           p == box.next_turn
           q == box.next_step
           a == Admitted(box, r, target)
<1>1. /\ p \in Seq(Item) /\ q \in Seq(Item) /\ box.next_sequence \in Nat \ {0}
      /\ box \in Inbox
  BY DEF Sound, Inbox
<1>2. item \in Item /\ item.request_id = r
  BY <1>1 DEF Item
<1>3. EntryOf(item, target) = [request_id |-> r,
          sequence |-> box.next_sequence, edited |-> FALSE, target |-> target]
  BY DEF EntryOf
<1>4. \A e \in Entries(box) : e.request_id # r
  <2>1. \A i, t : EntryOf(i, t).request_id = i.request_id
    BY DEF EntryOf
  <2>2. \A i \in Contents(p) \cup Contents(q) : i.request_id # r
    BY DEF Ids, Pending
  <2> QED
    BY <2>1, <2>2, EntriesOf
<1>5. a.next_sequence = box.next_sequence + 1
  BY <1>1 DEF Admitted, Inbox
<1>6. ASSUME target = "next_turn"
      PROVE  Pending(a) = Pending(box) \cup {item}
             /\ Entries(a) = Entries(box) \cup {EntryOf(item, target)}
  <2>1. a.next_turn = Append(p, item) /\ a.next_step = q
    BY <1>1, <1>6 DEF Admitted, Inbox
  <2> HIDE DEF a, item, p, q
  <2>2. Contents(a.next_turn) = Contents(p) \cup {item}
    BY <1>1, <1>2, <2>1, ContentsAppend
  <2>3. Pending(a) = Pending(box) \cup {item}
    BY <2>1, <2>2 DEF Pending, p, q
  <2>4. Entries(a) = Entries(box) \cup {EntryOf(item, target)}
    BY <1>6, <2>1, <2>2, EntriesOf DEF p, q
  <2> QED
    BY <2>3, <2>4
<1>7. ASSUME target = "next_step"
      PROVE  Pending(a) = Pending(box) \cup {item}
             /\ Entries(a) = Entries(box) \cup {EntryOf(item, target)}
  <2>1. a.next_step = Append(q, item) /\ a.next_turn = p
    BY <1>1, <1>7 DEF Admitted, Inbox
  <2> HIDE DEF a, item, p, q
  <2>2. Contents(a.next_step) = Contents(q) \cup {item}
    BY <1>1, <1>2, <2>1, ContentsAppend
  <2>3. Pending(a) = Pending(box) \cup {item}
    BY <2>1, <2>2 DEF Pending, p, q
  <2>4. Entries(a) = Entries(box) \cup {EntryOf(item, target)}
    BY <1>7, <2>1, <2>2, EntriesOf DEF p, q
  <2> QED
    BY <2>3, <2>4
<1>8. Pending(a) = Pending(box) \cup {item}
      /\ Entries(a) = Entries(box) \cup {EntryOf(item, target)}
  BY <1>6, <1>7 DEF Targets
<1>9. Sound(a)
  BY <1>1, AdmittedSound
<1>10. ItemOf(a, r) = item
  <2> HIDE DEF a, item
  <2> QED
    BY <1>2, <1>8, <1>9, SoundItems
<1> QED
  BY <1>3, <1>4, <1>5, <1>8, <1>10

\* A claim or a removal takes out the entries with the given ids.
LEMMA EntriesWithout ==
    ASSUME NEW box \in Inbox, NEW ids
    PROVE  /\ Entries(Without(box, ids)) =
                 Entries(box) \ {e \in Entries(box) : e.request_id \in ids}
           /\ Pending(Without(box, ids)) =
                 Pending(box) \ {i \in Pending(box) : i.request_id \in ids}
           /\ Without(box, ids).next_sequence = box.next_sequence
<1> DEFINE p == box.next_turn
           q == box.next_step
           w == Without(box, ids)
<1>1. p \in Seq(Item) /\ q \in Seq(Item)
  BY DEF Inbox
<1>2. /\ w.next_turn = Kept(p, ids) /\ w.next_step = Kept(q, ids)
      /\ w.next_sequence = box.next_sequence
  BY DEF Without, Inbox
<1> HIDE DEF p, q, w
<1>3. Contents(w.next_turn) = {i \in Contents(p) : i.request_id \notin ids}
  BY <1>1, <1>2, ContentsKept
<1>4. Contents(w.next_step) = {i \in Contents(q) : i.request_id \notin ids}
  BY <1>1, <1>2, ContentsKept
<1>5. \A i, t : EntryOf(i, t).request_id = i.request_id
  BY DEF EntryOf
<1>6. Entries(w) = Entries(box) \ {e \in Entries(box) : e.request_id \in ids}
  BY <1>3, <1>4, <1>5, EntriesOf DEF p, q
<1>7. Pending(w) = Pending(box) \ {i \in Pending(box) : i.request_id \in ids}
  BY <1>3, <1>4 DEF Pending, p, q
<1> QED
  BY <1>2, <1>6, <1>7 DEF w

\* The entry of the pending item with an id, and the other entries.
LEMMA EntriesSplit ==
    ASSUME NEW box, Sound(box), NEW x \in Pending(box)
    PROVE  \E t \in Targets :
              /\ x \in Contents(box.next_turn) <=> t = "next_turn"
              /\ EntryOf(x, t) \in Entries(box)
              /\ Entries(box) \ {EntryOf(x, t)} =
                    {EntryOf(i, "next_turn") :
                        i \in Contents(box.next_turn) \ {x}}
                    \cup {EntryOf(i, "next_step") :
                        i \in Contents(box.next_step) \ {x}}
<1> DEFINE p == box.next_turn
           q == box.next_step
           t == IF x \in Contents(p) THEN "next_turn" ELSE "next_step"
<1>1. /\ \A y, z \in Contents(p) : y # z => Differ(y, z)
      /\ \A y, z \in Contents(q) : y # z => Differ(y, z)
      /\ \A y \in Contents(p), z \in Contents(q) : Differ(y, z)
  BY SoundItems
<1>2. \A y, z \in Contents(p) \cup Contents(q) :
         y # z => y.request_id # z.request_id
  BY <1>1 DEF Differ
<1>3. \A y, u : EntryOf(y, u).request_id = y.request_id
  BY DEF EntryOf
<1>4. Pending(box) = Contents(p) \cup Contents(q)
  BY DEF Pending
<1>5. \A y, u : y \in Pending(box) /\ y # x => EntryOf(y, u) # EntryOf(x, t)
  BY <1>2, <1>3, <1>4
<1>6. ~(x \in Contents(p) /\ x \in Contents(q))
  BY <1>1 DEF Differ
<1>7. Entries(box) = {EntryOf(i, "next_turn") : i \in Contents(p)}
                        \cup {EntryOf(i, "next_step") : i \in Contents(q)}
  BY EntriesOf
<1>8. CASE x \in Contents(p)
  <2>1. t = "next_turn" /\ x \notin Contents(q)
    BY <1>6, <1>8
  <2> HIDE DEF p, q, t
  <2>2. Entries(box) \ {EntryOf(x, t)} =
           {EntryOf(i, "next_turn") : i \in Contents(p) \ {x}}
              \cup {EntryOf(i, "next_step") : i \in Contents(q) \ {x}}
    BY <1>4, <1>5, <1>7, <1>8, <2>1
  <2>3. EntryOf(x, t) \in Entries(box) /\ t \in Targets
    BY <1>7, <1>8, <2>1 DEF Targets
  <2> QED
    BY <1>8, <2>1, <2>2, <2>3 DEF p, q
<1>9. CASE x \notin Contents(p)
  <2>1. t = "next_step" /\ x \in Contents(q)
    BY <1>4, <1>9
  <2> HIDE DEF p, q, t
  <2>2. Entries(box) \ {EntryOf(x, t)} =
           {EntryOf(i, "next_turn") : i \in Contents(p) \ {x}}
              \cup {EntryOf(i, "next_step") : i \in Contents(q) \ {x}}
    BY <1>4, <1>5, <1>7, <1>9, <2>1
  <2>3. EntryOf(x, t) \in Entries(box) /\ t \in Targets
    BY <1>7, <2>1 DEF Targets
  <2> QED
    BY <1>9, <2>1, <2>2, <2>3 DEF p, q
<1> QED
  BY <1>8, <1>9

\* An edit changes one entry, and no name.
LEMMA EntriesEdited ==
    ASSUME NEW box, Sound(box), NEW r \in Ids(Pending(box))
    PROVE  /\ \E e \in Entries(box) :
                 Entries(Edited(box, r)) =
                    (Entries(box) \ {e}) \cup {[e EXCEPT !.edited = TRUE]}
           /\ Named(Pending(Edited(box, r))) = Named(Pending(box))
           /\ Edited(box, r).next_sequence = box.next_sequence
<1> DEFINE p == box.next_turn
           q == box.next_step
           w == Edited(box, r)
           x == ItemOf(box, r)
           y == [x EXCEPT !.edited = TRUE]
           mark(i) == IF i.request_id = r THEN [i EXCEPT !.edited = TRUE]
                                          ELSE i
<1>1. p \in Seq(Item) /\ q \in Seq(Item) /\ box \in Inbox
  BY DEF Sound, Inbox
<1>2. /\ w.next_turn = Rewritten(p, r) /\ w.next_step = Rewritten(q, r)
      /\ w.next_sequence = box.next_sequence
  BY <1>1 DEF Edited, Inbox
<1>3. /\ Contents(w.next_turn) = {mark(i) : i \in Contents(p)}
      /\ Contents(w.next_step) = {mark(i) : i \in Contents(q)}
  BY <1>1, <1>2, ContentsRewritten
<1>4. x \in Pending(box) /\ x.request_id = r /\ x \in Item
  BY <1>1, ItemOfPending, PendingItems
<1>5. \A i \in Pending(box) : i # x => i.request_id # r
  BY SoundItems
<1>6. mark(x) = y /\ \A i \in Pending(box) : i # x => mark(i) = i
  BY <1>4, <1>5
<1>7. y.request_id = x.request_id /\ y.sequence = x.sequence /\ y.edited = TRUE
  BY <1>4 DEF Item
<1>8. Pending(box) = Contents(p) \cup Contents(q)
  BY DEF Pending
<1> HIDE DEF p, q, w, x, mark
<1>9. \A i \in Pending(box) : /\ mark(i).request_id = i.request_id
                               /\ mark(i).sequence = i.sequence
  BY <1>6, <1>7
<1>10. PICK t \in Targets :
          /\ x \in Contents(p) <=> t = "next_turn"
          /\ EntryOf(x, t) \in Entries(box)
          /\ Entries(box) \ {EntryOf(x, t)} =
               {EntryOf(i, "next_turn") : i \in Contents(p) \ {x}}
               \cup {EntryOf(i, "next_step") : i \in Contents(q) \ {x}}
  BY <1>4, EntriesSplit DEF p, q
<1>11. [EntryOf(x, t) EXCEPT !.edited = TRUE] = EntryOf(y, t)
  <2> DEFINE e == [request_id |-> x.request_id, sequence |-> x.sequence,
                   edited |-> TRUE, target |-> t]
  <2>1. [EntryOf(x, t) EXCEPT !.edited = TRUE] = e
    <3>1. ASSUME NEW v
          PROVE  [EntryOf(x, t) EXCEPT !.edited = v] =
                    [request_id |-> x.request_id, sequence |-> x.sequence,
                     edited |-> v, target |-> t]
      BY DEF EntryOf
    <3> QED
      BY <3>1, Zenon
  <2>2. EntryOf(y, t) = e
    <3> HIDE DEF y
    <3> QED
      BY <1>7, Zenon DEF EntryOf
  <2> QED
    BY <2>1, <2>2, Zenon
<1>12. ~(x \in Contents(p) /\ x \in Contents(q))
  BY SoundItems DEF p, q, Differ
<1> HIDE DEF y
<1>13. Entries(w) =
          {EntryOf(i, "next_turn") : i \in Contents(w.next_turn)}
             \cup {EntryOf(i, "next_step") : i \in Contents(w.next_step)}
  BY EntriesOf
<1>14. ASSUME x \in Contents(p)
       PROVE  Entries(w) = (Entries(box) \ {EntryOf(x, t)})
                             \cup {EntryOf(y, t)}
  <2>1. /\ Contents(w.next_turn) = (Contents(p) \ {x}) \cup {y}
        /\ Contents(w.next_step) = Contents(q) \ {x}
    BY <1>3, <1>6, <1>8, <1>12, <1>14
  <2>2. t = "next_turn"
    BY <1>10, <1>14
  <2>3. Entries(w) = (Entries(box) \ {EntryOf(x, t)}) \cup {EntryOf(y, t)}
    BY <1>10, <1>13, <2>1, <2>2
  <2> QED
    BY <2>3
<1>15. ASSUME x \notin Contents(p)
       PROVE  Entries(w) = (Entries(box) \ {EntryOf(x, t)})
                             \cup {EntryOf(y, t)}
  <2>1. /\ Contents(w.next_turn) = Contents(p) \ {x}
        /\ Contents(w.next_step) = (Contents(q) \ {x}) \cup {y}
    BY <1>3, <1>4, <1>6, <1>8, <1>15
  <2>2. t = "next_step"
    BY <1>10, <1>15 DEF Targets
  <2>3. Entries(w) = (Entries(box) \ {EntryOf(x, t)}) \cup {EntryOf(y, t)}
    BY <1>10, <1>13, <2>1, <2>2
  <2> QED
    BY <2>3
<1>16. Entries(w) = (Entries(box) \ {EntryOf(x, t)}) \cup {EntryOf(y, t)}
  BY <1>14, <1>15
<1>17. Pending(w) = {mark(i) : i \in Pending(box)}
  BY <1>3, <1>8 DEF Pending
<1>18. Named(Pending(w)) = Named(Pending(box))
  BY <1>9, <1>17 DEF Named
<1> QED
  BY <1>2, <1>10, <1>11, <1>16, <1>18 DEF w

\* A promotion moves one entry, and changes no name.
LEMMA EntriesPromoted ==
    ASSUME NEW box, Sound(box), NEW r \in Ids(Contents(box.next_turn))
    PROVE  /\ \E e \in Entries(box) :
                 /\ e.target = "next_turn"
                 /\ Entries(Promoted(box, r)) = (Entries(box) \ {e})
                       \cup {[e EXCEPT !.target = "next_step"]}
           /\ Pending(Promoted(box, r)) = Pending(box)
           /\ Promoted(box, r).next_sequence = box.next_sequence
<1> DEFINE p == box.next_turn
           q == box.next_step
           w == Promoted(box, r)
           x == ItemOf(box, r)
<1>1. p \in Seq(Item) /\ q \in Seq(Item) /\ box \in Inbox /\ InOrder(q)
  BY DEF Sound, Inbox
<1>2. /\ w.next_turn = Kept(p, {r}) /\ w.next_step = Inserted(q, x)
      /\ w.next_sequence = box.next_sequence
  BY <1>1 DEF Promoted, Inbox
<1>3. x \in Contents(p) /\ x.request_id = r /\ x \in Item
  <2>1. PICK y \in Contents(p) : y.request_id = r
    BY DEF Ids
  <2>2. y \in Pending(box)
    BY <2>1 DEF Pending
  <2> QED
    BY <2>1, <2>2, SoundItems
<1>4. \A i \in Contents(p) : i # x => i.request_id # r
  BY <1>3, SoundItems DEF Differ
<1>5. Pending(box) = Contents(p) \cup Contents(q)
  BY DEF Pending
<1>6. x \notin Contents(q)
  BY <1>3, SoundItems DEF Differ
<1>7. Contents(w.next_turn) = {i \in Contents(p) : i.request_id \notin {r}}
  BY <1>1, <1>2, ContentsKept
<1>8. Contents(w.next_step) = Contents(q) \cup {x}
  BY <1>1, <1>2, <1>3, ContentsInserted
<1>9. PICK t \in Targets :
          /\ x \in Contents(p) <=> t = "next_turn"
          /\ EntryOf(x, t) \in Entries(box)
          /\ Entries(box) \ {EntryOf(x, t)} =
               {EntryOf(i, "next_turn") : i \in Contents(p) \ {x}}
               \cup {EntryOf(i, "next_step") : i \in Contents(q) \ {x}}
  BY <1>3, <1>5, EntriesSplit
<1>10. [EntryOf(x, t) EXCEPT !.target = "next_step"] = EntryOf(x, "next_step")
       /\ EntryOf(x, t).target = t
  <2> HIDE DEF x
  <2> QED
    BY DEF EntryOf
<1> HIDE DEF p, q, w, x
<1>11. Contents(w.next_turn) = Contents(p) \ {x}
  BY <1>3, <1>4, <1>7
<1>12. Pending(w) = Pending(box)
  BY <1>3, <1>5, <1>8, <1>11 DEF Pending
<1>13. Entries(w) = (Entries(box) \ {EntryOf(x, t)})
                       \cup {EntryOf(x, "next_step")}
  BY <1>6, <1>8, <1>9, <1>11, EntriesOf
<1> QED
  BY <1>2, <1>3, <1>9, <1>10, <1>12, <1>13 DEF w

-----------------------------------------------------------------------------
(* What a claim has taken out is not in the memory: the first step towards *)
(* "claimed once".                                                         *)

\* A running claim has its items to itself.
ClaimIsOut ==
    op.kind = "claim" => Named(op.items) \cap Named(Pending(mem)) = {}

\* No operation outlives the process.
DownIsIdle == up \/ op = NoOp

Claims == Inductive /\ ClaimIsOut /\ DownIsIdle

\* The items that leave and those that stay have different names.
LEMMA LeaveNames ==
    ASSUME NEW box \in Inbox, NEW ids
    PROVE  /\ Named(Pending(Without(box, ids))) \subseteq Named(Pending(box))
           /\ Named({i \in Pending(box) : i.request_id \in ids})
                 \cap Named(Pending(Without(box, ids))) = {}
<1>1. Pending(Without(box, ids)) =
         Pending(box) \ {i \in Pending(box) : i.request_id \in ids}
  BY EntriesWithout
<1>2. \A i \in Pending(Without(box, ids)) :
         i \in Pending(box) /\ i.request_id \notin ids
  BY <1>1
<1>3. \A a \in Named(Pending(Without(box, ids))) : a.request_id \notin ids
  BY <1>2 DEF Named
<1>4. \A a \in Named({i \in Pending(box) : i.request_id \in ids}) :
         a.request_id \in ids
  BY DEF Named
<1>5. Named(Pending(Without(box, ids))) \subseteq Named(Pending(box))
  BY <1>2 DEF Named
<1> QED
  BY <1>3, <1>4, <1>5

\* An empty Inbox has no names.
LEMMA EmptyNames == Pending(EmptyInbox) = {} /\ Named({}) = {}
BY DEF Pending, Contents, EmptyInbox, Named

\* How a step changes the names that are pending in memory: an admission adds
\* its own, a restart takes those of the file, and nothing else adds any.
LEMMA PendingNamesStep ==
    ASSUME Inductive, Next
    PROVE  \/ Named(Pending(mem')) \subseteq Named(Pending(mem))
           \/ /\ op'.kind = "admit"
              /\ Named(Pending(mem')) = Named(Pending(mem)) \cup Named(op'.items)
              /\ delivered' = delivered \ Named(op'.items)
           \/ Restart
<1>1. mem \in Inbox /\ Sound(mem)
  BY SoundIsWellFormed DEF Inductive, TypeOK, Good
<1>2. ASSUME NEW r \in Requests, NEW target \in Targets, AdmitNew(r, target)
      PROVE  /\ op'.kind = "admit"
             /\ Named(Pending(mem')) =
                   Named(Pending(mem)) \cup Named(op'.items)
             /\ delivered' = delivered \ Named(op'.items)
  <2> DEFINE box == Admitted(mem, r, target)
  <2>1. /\ mem' = box /\ op'.kind = "admit" /\ op'.items = {ItemOf(box, r)}
        /\ delivered' = delivered \ Named({ItemOf(box, r)})
        /\ r \notin Ids(Pending(mem))
    BY <1>2 DEF AdmitNew, Commit
  <2>2. Pending(box) = Pending(mem) \cup {ItemOf(box, r)}
    <3> DEFINE item == [request_id |-> r, sequence |-> mem.next_sequence,
                        edited |-> FALSE]
    <3>1. Pending(box) = Pending(mem) \cup {item} /\ ItemOf(box, r) = item
      BY <1>1, <1>2, <2>1, EntriesAdmitted
    <3> HIDE DEF item, box
    <3> QED
      BY <3>1
  <2> HIDE DEF box
  <2>3. Named(Pending(box)) = Named(Pending(mem)) \cup Named({ItemOf(box, r)})
    BY <2>2 DEF Named
  <2> QED
    BY <2>1, <2>3
<1>3. ASSUME NEW ids, NEW kind, Leave(kind, ids)
      PROVE  Named(Pending(mem')) \subseteq Named(Pending(mem))
  <2>1. mem' = Without(mem, ids)
    BY <1>3 DEF Leave, Commit
  <2> QED
    BY <1>1, <2>1, LeaveNames
<1>4. ASSUME NEW r \in Requests, Edit(r)
      PROVE  Named(Pending(mem')) \subseteq Named(Pending(mem))
  <2>1. mem' = Edited(mem, r) /\ r \in Ids(Pending(mem))
    BY <1>4 DEF Edit, Commit
  <2> QED
    BY <1>1, <2>1, EntriesEdited
<1>5. ASSUME NEW r \in Requests, Promote(r)
      PROVE  Named(Pending(mem')) \subseteq Named(Pending(mem))
  <2>1. mem' = Promoted(mem, r) /\ r \in Ids(Contents(mem.next_turn))
    BY <1>5 DEF Promote, Commit
  <2> QED
    BY <1>1, <2>1, EntriesPromoted
<1>6. ASSUME mem' \in {mem, EmptyInbox}
      PROVE  Named(Pending(mem')) \subseteq Named(Pending(mem))
  BY <1>6, EmptyNames
<1> USE DEF Next
<1>7. CASE \E r \in Requests, target \in Targets :
              \/ Arrive(r, target) \/ GiveUp(r, target)
              \/ AdmitAgain(r, target) \/ AdmitFull(r, target)
              \/ AdmitNew(r, target)
  BY <1>2, <1>6, <1>7 DEF Arrive, GiveUp, AdmitAgain, AdmitFull
<1>8. CASE \E ids \in SUBSET Requests : Claim(ids)
  BY <1>3, <1>8 DEF Claim
<1>9. CASE \E r \in Requests : Remove(r) \/ Edit(r) \/ Promote(r)
  BY <1>3, <1>4, <1>5, <1>9 DEF Remove
<1>10. CASE SessionDeleted \/ DeleteSession \/ ThreadStarts \/ WriteLands
            \/ WriteFails \/ (\E box \in orphans : OrphanLands(box))
  BY <1>6, <1>10 DEF SessionDeleted, DeleteSession, ThreadStarts, WriteLands,
     WriteFails, OrphanLands
<1>11. CASE Return \/ Raise \/ Cancelled \/ Crash
  BY <1>6, <1>11 DEF Return, Raise, Cancelled, Crash
<1> QED
  BY <1>7, <1>8, <1>9, <1>10, <1>11

\* An operation begins in a process that runs, and ends with it.
LEMMA DownIsIdleStep == DownIsIdle /\ [Next]_vars => DownIsIdle'
<1> SUFFICES ASSUME DownIsIdle, [Next]_vars PROVE DownIsIdle'
  OBVIOUS
<1> USE DEF DownIsIdle, LockFree
<1>1. CASE UNCHANGED vars
  BY <1>1 DEF vars
<1>2. CASE \E r \in Requests, target \in Targets :
              \/ Arrive(r, target) \/ GiveUp(r, target)
              \/ AdmitAgain(r, target) \/ AdmitFull(r, target)
              \/ AdmitNew(r, target)
  BY <1>2 DEF Arrive, GiveUp, AdmitAgain, AdmitFull, AdmitNew, EnterAdmit
<1>3. CASE \E ids \in SUBSET Requests : Claim(ids)
  BY <1>3 DEF Claim
<1>4. CASE \E r \in Requests : Remove(r) \/ Edit(r) \/ Promote(r)
  BY <1>4 DEF Remove, Edit, Promote
<1>5. CASE SessionDeleted \/ DeleteSession \/ Restart
           \/ (\E box \in orphans : OrphanLands(box))
  BY <1>5 DEF SessionDeleted, DeleteSession, Restart, OrphanLands
<1>6. CASE ThreadStarts \/ WriteLands \/ WriteFails
  BY <1>6 DEF ThreadStarts, WriteLands, WriteFails, NoOp
<1>7. CASE Return \/ Raise \/ Cancelled \/ Crash
  BY <1>7 DEF Return, Raise, Cancelled, Crash
<1> QED
  BY <1>1, <1>2, <1>3, <1>4, <1>5, <1>6, <1>7 DEF Next

\* The names of a claim stay out of the memory until the claim ends.
LEMMA ClaimsStep == Claims /\ [Next]_vars => Claims'
<1> SUFFICES ASSUME Claims, [Next]_vars PROVE ClaimIsOut'
  BY NextInductive, DownIsIdleStep DEF Claims
<1>1. mem \in Inbox
  BY DEF Claims, Inductive, TypeOK
<1>2. ASSUME \/ op' = op
             \/ op'.kind # "claim"
             \/ op.kind = op'.kind /\ op.items = op'.items,
             mem' = mem
      PROVE  ClaimIsOut'
  BY <1>2 DEF ClaimIsOut, Claims
<1>3. ASSUME op'.kind # "claim" PROVE ClaimIsOut'
  BY <1>3 DEF ClaimIsOut
<1>4. ASSUME NEW ids \in SUBSET Requests, Claim(ids) PROVE ClaimIsOut'
  <2>1. /\ mem' = Without(mem, ids)
        /\ op'.items = {i \in Pending(mem) : i.request_id \in ids}
    BY <1>4 DEF Claim, Leave, Commit
  <2> QED
    BY <1>1, <2>1, LeaveNames DEF ClaimIsOut
<1>5. CASE \E r \in Requests, target \in Targets :
              \/ Arrive(r, target) \/ GiveUp(r, target)
              \/ AdmitAgain(r, target) \/ AdmitFull(r, target)
              \/ AdmitNew(r, target)
  BY <1>2, <1>3, <1>5 DEF Arrive, GiveUp, AdmitAgain, AdmitFull, AdmitNew,
     Commit
<1>6. CASE \E r \in Requests : Remove(r) \/ Edit(r) \/ Promote(r)
  BY <1>3, <1>6 DEF Remove, Edit, Promote, Leave, Commit
<1>7. CASE SessionDeleted \/ UNCHANGED vars
           \/ (\E box \in orphans : OrphanLands(box)) \/ Restart
  <2>1. CASE Restart
    <3>1. op'.kind # "claim"
      BY <2>1 DEF Restart, Claims, DownIsIdle, NoOp
    <3> QED
      BY <1>3, <3>1
  <2> QED
    BY <1>2, <1>7, <2>1 DEF SessionDeleted, OrphanLands, vars
<1>8. CASE DeleteSession
  BY <1>3, <1>8 DEF DeleteSession, LockFree, NoOp
<1>9. CASE ThreadStarts \/ WriteLands \/ WriteFails
  <2>1. op \in Operation
    BY <1>9 DEF ThreadStarts, WriteLands, WriteFails, Claims, Inductive,
       TypeOK, NoOp
  <2>2. op'.kind = op.kind /\ op'.items = op.items /\ mem' = mem
    BY <1>9, <2>1 DEF ThreadStarts, WriteLands, WriteFails, Operation
  <2> QED
    BY <1>2, <2>2
<1>10. CASE Return \/ Raise \/ Cancelled \/ Crash
  BY <1>3, <1>10 DEF Return, Raise, Cancelled, Crash, NoOp
<1> QED
  BY <1>4, <1>5, <1>6, <1>7, <1>8, <1>9, <1>10 DEF Next

\* The invariant holds of every behaviour of the repository.
LEMMA AlwaysClaims == Spec => []Claims
<1>1. Init => Claims
  BY InitInductive DEF Init, Claims, ClaimIsOut, DownIsIdle, NoOp
<1> QED
  BY <1>1, ClaimsStep, PTL DEF Spec

\* How a step changes what has been handed over: a claim that returns adds
\* the names of its items, and nothing else adds any.
LEMMA DeliveredStep ==
    ASSUME Inductive, [Next]_vars
    PROVE  \/ delivered' \subseteq delivered
           \/ /\ op.kind = "claim" /\ op.phase = "done"
              /\ delivered' = delivered \cup Named(op.items)
              /\ UNCHANGED <<mem, disk>>
<1>1. CASE UNCHANGED vars
  BY <1>1 DEF vars
<1>2. CASE \E r \in Requests, target \in Targets :
              \/ Arrive(r, target) \/ GiveUp(r, target)
              \/ AdmitAgain(r, target) \/ AdmitFull(r, target)
              \/ AdmitNew(r, target)
  BY <1>2 DEF Arrive, GiveUp, AdmitAgain, AdmitFull, AdmitNew
<1>3. CASE \E ids \in SUBSET Requests : Claim(ids)
  BY <1>3 DEF Claim
<1>4. CASE \E r \in Requests : Remove(r) \/ Edit(r) \/ Promote(r)
  BY <1>4 DEF Remove, Edit, Promote
<1>5. CASE SessionDeleted \/ DeleteSession \/ Restart
           \/ (\E box \in orphans : OrphanLands(box))
  BY <1>5 DEF SessionDeleted, DeleteSession, Restart, OrphanLands
<1>6. CASE ThreadStarts \/ WriteLands \/ WriteFails
  BY <1>6 DEF ThreadStarts, WriteLands, WriteFails
<1>7. CASE Return \/ Raise \/ Cancelled \/ Crash
  BY <1>7 DEF Return, Raise, Cancelled, Crash
<1> QED
  BY <1>1, <1>2, <1>3, <1>4, <1>5, <1>6, <1>7 DEF Next

\* Within one life of the process nothing that a claim has handed over is
\* pending again, whatever was cancelled and whatever write failed or landed
\* late: claim() takes its items out of the memory before it awaits.
THEOREM ClaimedOnceInALife == Spec => ClaimedReturnsOnlyByRestart
<1>1. ASSUME Claims, [Next]_vars
      PROVE  [up /\ up' /\ session' = session =>
                 Named(Pending(mem')) \cap delivered' \subseteq
                 Named(Pending(mem)) \cap delivered]_vars
  <2> SUFFICES ASSUME Next, up, up'
               PROVE  Named(Pending(mem')) \cap delivered' \subseteq
                      Named(Pending(mem)) \cap delivered
    BY <1>1
  <2>1. Inductive /\ ClaimIsOut
    BY <1>1 DEF Claims
  <2>2. ~Restart
    BY DEF Restart
  <2>3. CASE delivered' \subseteq delivered
    BY <2>1, <2>2, <2>3, PendingNamesStep
  <2>4. CASE /\ op.kind = "claim" /\ op.phase = "done"
             /\ delivered' = delivered \cup Named(op.items)
             /\ UNCHANGED <<mem, disk>>
    BY <2>1, <2>4 DEF ClaimIsOut
  <2> QED
    BY <2>1, <2>3, <2>4, DeliveredStep
<1> QED
  BY <1>1, AlwaysClaims, PTL DEF Spec, ClaimedReturnsOnlyByRestart

-----------------------------------------------------------------------------
(* When no operation is cancelled: a write that ends is that of the        *)
(* operation which waits for it, and the file is the memory then.          *)

\* What has been handed over is neither in the memory nor in the file.
HandedOver ==
    /\ Claims
    /\ orphans = {}
    /\ op.phase = "done" => disk = mem
    /\ Named(Pending(mem)) \cap delivered = {}
    /\ Named(Pending(disk)) \cap delivered = {}

\* No operation changes the memory while another one waits for its write.
LEMMA DoneIsOnDisk ==
    ASSUME Inductive, orphans = {}, op.phase = "done" => disk = mem, Cancellable = {},
           [Next]_vars
    PROVE  /\ orphans' = {}
           /\ op'.phase = "done" => disk' = mem'
           /\ disk' \in {disk, mem, EmptyInbox}
<1> USE DEF LockFree, NoOp
<1>1. CASE UNCHANGED vars
  BY <1>1 DEF vars
<1>2. CASE \E r \in Requests, target \in Targets :
              \/ Arrive(r, target) \/ GiveUp(r, target)
              \/ AdmitAgain(r, target) \/ AdmitFull(r, target)
              \/ AdmitNew(r, target)
  BY <1>2 DEF Arrive, GiveUp, AdmitAgain, AdmitFull, AdmitNew, EnterAdmit,
     Commit
<1>3. CASE \E ids \in SUBSET Requests : Claim(ids)
  BY <1>3 DEF Claim, Leave, Commit
<1>4. CASE \E r \in Requests : Remove(r) \/ Edit(r) \/ Promote(r)
  BY <1>4 DEF Remove, Edit, Promote, Leave, Commit
<1>5. CASE SessionDeleted \/ (\E box \in orphans : OrphanLands(box))
  BY <1>5 DEF SessionDeleted, OrphanLands
<1>6. CASE DeleteSession
  BY <1>6 DEF DeleteSession
<1>7. CASE Restart
  BY <1>7 DEF Restart
<1>8. CASE ThreadStarts \/ WriteLands \/ WriteFails
  <2>1. op \in Operation
    BY <1>8 DEF ThreadStarts, WriteLands, WriteFails, Inductive, TypeOK
  <2> QED
    BY <1>8, <2>1 DEF ThreadStarts, WriteLands, WriteFails, Operation
<1>9. CASE Return \/ Raise \/ Cancelled \/ Crash
  BY <1>9 DEF Return, Raise, Cancelled, Crash
<1> QED
  BY <1>1, <1>2, <1>3, <1>4, <1>5, <1>6, <1>7, <1>8, <1>9 DEF Next

\* What has been handed over stays out of the memory and of the file.
LEMMA HandedOverStep ==
    ASSUME Cancellable = {}, HandedOver, [Next]_vars
    PROVE  HandedOver'
<1>1. /\ Claims' /\ orphans' = {}
      /\ op'.phase = "done" => disk' = mem'
      /\ disk' \in {disk, mem, EmptyInbox}
  BY ClaimsStep, DoneIsOnDisk DEF HandedOver, Claims
<1>2. Inductive /\ ClaimIsOut
  BY DEF HandedOver, Claims
<1>3. /\ Named(Pending(mem)) \cap delivered = {}
      /\ Named(Pending(disk)) \cap delivered = {}
      /\ op.phase = "done" => disk = mem
  BY DEF HandedOver
<1>4. /\ Named(Pending(mem)) \cap delivered' = {}
      /\ Named(Pending(disk)) \cap delivered' = {}
  <2>1. CASE delivered' \subseteq delivered
    BY <1>3, <2>1
  <2>2. CASE /\ op.kind = "claim" /\ op.phase = "done"
             /\ delivered' = delivered \cup Named(op.items)
    BY <1>2, <1>3, <2>2 DEF ClaimIsOut
  <2> QED
    BY <1>2, <2>1, <2>2, DeliveredStep
<1>5. Named(Pending(disk')) \cap delivered' = {}
  BY <1>1, <1>4, EmptyNames
<1>6. Named(Pending(mem')) \cap delivered' = {}
  <2>1. CASE UNCHANGED vars
    BY <1>4, <2>1 DEF vars
  <2>2. CASE Named(Pending(mem')) \subseteq Named(Pending(mem))
    BY <1>4, <2>2
  <2>3. CASE /\ Named(Pending(mem')) =
                   Named(Pending(mem)) \cup Named(op'.items)
             /\ delivered' = delivered \ Named(op'.items)
    BY <1>3, <2>3
  <2>4. CASE Restart
    <3>1. mem' \in {disk, EmptyInbox}
      BY <2>4 DEF Restart
    <3> QED
      BY <1>4, <3>1, EmptyNames
  <2> QED
    BY <1>2, <2>1, <2>2, <2>3, <2>4, PendingNamesStep
<1> QED
  BY <1>1, <1>5, <1>6 DEF HandedOver

\* When no operation is cancelled, what a claim has handed over is never
\* pending again, not even after a crash, and although writes may fail: a
\* claim returns only after the file without its items has landed.
THEOREM ClaimedOnce ==
    ASSUME Cancellable = {}
    PROVE  Spec => []ClaimedNeverReturns
<1>1. Init => HandedOver
  <2> SUFFICES ASSUME Init PROVE HandedOver
    OBVIOUS
  <2>1. Claims
    BY InitInductive DEF Init, Claims, ClaimIsOut, DownIsIdle, NoOp
  <2> QED
    BY <2>1 DEF Init, HandedOver, NoOp
<1>2. HandedOver /\ [Next]_vars => HandedOver'
  BY HandedOverStep
<1>3. HandedOver => ClaimedNeverReturns
  BY DEF HandedOver, ClaimedNeverReturns
<1> QED
  BY <1>1, <1>2, <1>3, PTL DEF Spec

-----------------------------------------------------------------------------
(* When moreover no write fails: what an operation is about to write, and  *)
(* what the file holds meanwhile.                                          *)

\* The file still is what the operation found, and the memory what it has
\* made of it.  Nothing is owed for what leaves.
Underway ==
    \/ /\ op.kind = "admit"
       /\ \E r \in Requests, target \in Targets :
             /\ r \notin Ids(Pending(disk))
             /\ mem = Admitted(disk, r, target)
             /\ op.items = {ItemOf(mem, r)}
    \/ /\ op.kind \in {"claim", "remove"}
       /\ \E ids \in SUBSET Requests :
             /\ mem = Without(disk, ids)
             /\ op.items = {i \in Pending(disk) : i.request_id \in ids}
             /\ Named(op.items) \cap owed = {}
    \/ /\ op.kind = "edit"
       /\ \E r \in Ids(Pending(disk)) : mem = Edited(disk, r)
    \/ /\ op.kind = "promote"
       /\ \E r \in Ids(Contents(disk.next_turn)) : mem = Promoted(disk, r)
    \/ /\ op.kind = "delete"
       /\ mem = EmptyInbox
       /\ owed = {} /\ delivered = {}

\* Every admission that has been handed over, or is about to be, has a number
\* below the next one.
NumbersGoOn ==
    /\ \A a \in delivered : a.sequence < disk.next_sequence
    /\ op.kind = "claim" =>
          \A i \in op.items : i.sequence < disk.next_sequence

Steady ==
    /\ Inductive /\ DownIsIdle
    /\ orphans = {}
    /\ up /\ op = NoOp => mem = disk
    /\ op.phase # "failed"
    /\ op.phase \in {"queued", "running"} => Underway
    /\ op.phase = "done" => mem = disk
    /\ op.phase = "done" /\ op.kind = "admit" => op.items \subseteq Pending(disk)
    /\ NumbersGoOn

\* A change that is committed is good, so its write is queued.
LEMMA CommitQueues ==
    ASSUME NEW kind, NEW items, NEW box, Good(box), Commit(kind, items, box)
    PROVE  /\ mem' = box
           /\ op'.kind = kind /\ op'.items = items /\ op'.phase = "queued"
           /\ op' # NoOp
BY DEF Commit, Good, WellFormed, NoOp

\* Under the lock that is free the memory is the file, and both are sound.
LEMMA LockFreeSteady ==
    ASSUME Steady, LockFree
    PROVE  /\ mem = disk /\ op = NoOp /\ up
           /\ disk \in Inbox /\ Good(disk) /\ Sound(disk)
           /\ \A a \in delivered : a.sequence < disk.next_sequence
<1>1. mem = disk /\ op = NoOp /\ up
  BY DEF Steady, LockFree
<1>2. disk \in Inbox /\ Good(disk)
  BY DEF Steady, Inductive, TypeOK
<1>3. Sound(disk)
  BY <1>2, SoundIsWellFormed DEF Good
<1> QED
  BY <1>1, <1>2, <1>3 DEF Steady, NumbersGoOn

\* The part of the invariant that is new in it.
SteadyParts ==
    /\ up /\ op = NoOp => mem = disk
    /\ op.phase # "failed"
    /\ op.phase \in {"queued", "running"} => Underway
    /\ op.phase = "done" /\ op.kind = "admit" => op.items \subseteq Pending(disk)
    /\ NumbersGoOn

\* An operation that takes the lock leaves the file as it was.
LEMMA BeginsSteady ==
    ASSUME disk' = disk, op' # NoOp, op'.phase = "queued", Underway',
           \A a \in delivered' : a.sequence < disk.next_sequence,
           op'.kind = "claim" =>
              \A i \in op'.items : i.sequence < disk.next_sequence
    PROVE  SteadyParts'
BY DEF SteadyParts, NumbersGoOn

\* A claim or a removal begins.
LEMMA LeaveSteady ==
    ASSUME Steady, LockFree, NEW kind \in {"claim", "remove"},
           NEW ids \in SUBSET Requests, Leave(kind, ids),
           UNCHANGED <<disk, delivered>>
    PROVE  SteadyParts'
<1> DEFINE items == {i \in Pending(mem) : i.request_id \in ids}
<1>1. /\ mem = disk /\ disk \in Inbox /\ Good(disk) /\ Sound(disk)
      /\ \A a \in delivered : a.sequence < disk.next_sequence
  BY LockFreeSteady
<1>2. Good(Without(mem, ids))
  BY <1>1, GoodWithout
<1>3. Commit(kind, items, Without(mem, ids)) /\ owed' = owed \ Named(items)
  BY DEF Leave
<1>4. /\ mem' = Without(mem, ids)
      /\ op'.kind = kind /\ op'.items = items /\ op'.phase = "queued"
      /\ op' # NoOp
  <2> HIDE DEF items
  <2> QED
    BY <1>2, <1>3, CommitQueues
<1>5. \A i \in items : i.sequence < disk.next_sequence
  BY <1>1, SoundItems
<1>6. Underway'
  <2>1. /\ mem' = Without(disk', ids)
        /\ op'.items = {i \in Pending(disk') : i.request_id \in ids}
    BY <1>1, <1>4
  <2>2. Named(op'.items) \cap owed' = {}
    BY <1>3, <1>4
  <2> QED
    BY <1>4, <2>1, <2>2 DEF Underway
<1> QED
  BY <1>1, <1>4, <1>5, <1>6, BeginsSteady

\* The worker thread lands what the operation made of the file.
LEMMA LandsSteady ==
    ASSUME Steady, WriteLands
    PROVE  SteadyParts'
<1>1. /\ op \in Operation /\ op.phase = "running" /\ disk' = mem /\ mem' = mem
      /\ op'.phase = "done" /\ op'.kind = op.kind /\ op'.items = op.items
      /\ delivered' = delivered
  BY DEF WriteLands, Steady, Inductive, TypeOK, NoOp, Operation
<1>2. Underway /\ disk \in Inbox /\ Sound(disk) /\ NumbersGoOn
  BY <1>1, SoundIsWellFormed DEF Steady, Inductive, TypeOK, Good
<1>3. op' # NoOp
  BY <1>1 DEF NoOp
<1>4. ASSUME op'.kind = "admit" => op'.items \subseteq Pending(mem),
             \A a \in delivered : a.sequence < mem.next_sequence,
             op.kind = "claim" =>
                \A i \in op.items : i.sequence < mem.next_sequence
      PROVE  SteadyParts'
  BY <1>1, <1>3, <1>4 DEF SteadyParts, NumbersGoOn
<1>5. CASE op.kind = "admit"
  <2>1. PICK r \in Requests, target \in Targets :
           /\ r \notin Ids(Pending(disk))
           /\ mem = Admitted(disk, r, target)
           /\ op.items = {ItemOf(mem, r)}
    BY <1>2, <1>5 DEF Underway
  <2>2. mem.next_sequence = disk.next_sequence + 1
    BY <1>2, <2>1, EntriesAdmitted
  <2>3. r \in Ids(Pending(mem))
    BY <1>2, <2>1, AdmittedSound DEF Ids
  <2>4. op.items \subseteq Pending(mem)
    BY <2>1, <2>3, ItemOfPending
  <2>5. delivered \subseteq Admission /\ disk.next_sequence \in Nat
    BY <1>2 DEF Steady, Inductive, TypeOK, Inbox
  <2>6. \A a \in delivered : a.sequence < mem.next_sequence
    BY <1>2, <2>2, <2>5 DEF NumbersGoOn, Admission
  <2> QED
    BY <1>1, <1>4, <1>5, <2>4, <2>6
<1>6. CASE op.kind \in {"claim", "remove", "edit", "promote"}
  <2>1. mem.next_sequence = disk.next_sequence
    BY <1>2, <1>6, EntriesWithout, EntriesEdited, EntriesPromoted DEF Underway
  <2> QED
    BY <1>1, <1>2, <1>4, <1>6, <2>1 DEF NumbersGoOn
<1>7. CASE op.kind = "delete"
  <2>1. delivered = {}
    BY <1>2, <1>7 DEF Underway
  <2> QED
    BY <1>1, <1>4, <1>7, <2>1
<1> QED
  BY <1>1, <1>5, <1>6, <1>7 DEF Operation, Operations

\* A claim that returns hands over names below the next number.
LEMMA ReturnSteady ==
    ASSUME Steady, Return
    PROVE  SteadyParts'
<1>1. op' = NoOp /\ UNCHANGED <<mem, disk, up>> /\ op.phase = "done"
  BY DEF Return
<1>2. mem' = disk'
  BY <1>1 DEF Steady
<1>3. \A a \in delivered' : a.sequence < disk.next_sequence
  <2>1. \A a \in delivered : a.sequence < disk.next_sequence
    BY DEF Steady, NumbersGoOn
  <2>2. op.kind = "claim" =>
           \A a \in Named(op.items) : a.sequence < disk.next_sequence
    BY DEF Steady, NumbersGoOn, Named
  <2> QED
    BY <2>1, <2>2 DEF Return
<1> QED
  BY <1>1, <1>2, <1>3 DEF SteadyParts, NumbersGoOn, NoOp

\* Every step keeps the file and the memory in step, as far as nothing is
\* cancelled and no write fails.
LEMMA SteadyStep ==
    ASSUME Cancellable = {}, ~MayFail, Steady, [Next]_vars
    PROVE  Steady'
<1>1. /\ Inductive' /\ DownIsIdle' /\ orphans' = {}
      /\ op'.phase = "done" => disk' = mem'
  BY NextInductive, DownIsIdleStep, DoneIsOnDisk DEF Steady
<1>2. ASSUME SteadyParts' PROVE Steady'
  BY <1>1, <1>2 DEF Steady, SteadyParts
<1>3. SteadyParts
  BY DEF Steady, SteadyParts
<1>4. ASSUME UNCHANGED <<mem, disk, op, delivered, up>>,
             owed' = owed \/ op = NoOp
      PROVE  SteadyParts'
  <2>1. CASE owed' = owed
    BY <1>3, <1>4, <2>1 DEF SteadyParts, Underway, NumbersGoOn
  <2>2. CASE op = NoOp
    BY <1>3, <1>4, <2>2 DEF SteadyParts, NumbersGoOn, NoOp
  <2> QED
    BY <1>4, <2>1, <2>2
<1>5. CASE UNCHANGED vars
  BY <1>2, <1>4, <1>5 DEF vars
<1>6. CASE \E r \in Requests, target \in Targets :
              \/ Arrive(r, target) \/ GiveUp(r, target)
              \/ AdmitAgain(r, target) \/ AdmitFull(r, target)
  BY <1>2, <1>4, <1>6 DEF Arrive, GiveUp, AdmitAgain, AdmitFull, EnterAdmit,
     LockFree
<1>7. ASSUME NEW r \in Requests, NEW target \in Targets, AdmitNew(r, target)
      PROVE  SteadyParts'
  <2> DEFINE box == Admitted(mem, r, target)
  <2>1. /\ LockFree /\ r \notin Ids(Pending(mem)) /\ ~Full
        /\ Commit("admit", {ItemOf(box, r)}, box)
        /\ disk' = disk /\ delivered' \subseteq delivered
    BY <1>7 DEF AdmitNew, EnterAdmit
  <2>2. /\ mem = disk /\ mem \in Inbox /\ Good(mem)
        /\ \A a \in delivered : a.sequence < disk.next_sequence
    BY <2>1, LockFreeSteady
  <2>3. Size(mem) < Capacity
    BY <2>1, <2>2, SizeType, InboxAssumption DEF Full
  <2>4. Good(box)
    BY <1>7, <2>1, <2>2, <2>3, GoodAdmitted
  <2>5. /\ mem' = box
        /\ op'.kind = "admit" /\ op'.items = {ItemOf(box, r)}
        /\ op'.phase = "queued" /\ op' # NoOp
    <3> HIDE DEF box
    <3> QED
      BY <2>1, <2>4, CommitQueues
  <2>6. Underway'
    BY <1>7, <2>1, <2>2, <2>5 DEF Underway
  <2> QED
    BY <2>1, <2>2, <2>5, <2>6, BeginsSteady
<1>8. ASSUME NEW ids \in SUBSET Requests, Claim(ids) PROVE SteadyParts'
  BY <1>8, LeaveSteady DEF Claim
<1>9. ASSUME NEW r \in Requests, Remove(r) PROVE SteadyParts'
  BY <1>9, LeaveSteady DEF Remove
<1>10. ASSUME NEW r \in Requests, Edit(r) PROVE SteadyParts'
  <2> DEFINE box == Edited(mem, r)
  <2>1. /\ LockFree /\ r \in Ids(Pending(mem))
        /\ Commit("edit", {ItemOf(box, r)}, box)
        /\ disk' = disk /\ delivered' = delivered
    BY <1>10 DEF Edit
  <2>2. /\ mem = disk /\ mem \in Inbox /\ Good(mem)
        /\ \A a \in delivered : a.sequence < disk.next_sequence
    BY <2>1, LockFreeSteady
  <2>3. Good(box)
    BY <2>1, <2>2, GoodEdited
  <2>4. mem' = box /\ op'.kind = "edit" /\ op'.phase = "queued" /\ op' # NoOp
    <3> HIDE DEF box
    <3> QED
      BY <2>1, <2>3, CommitQueues
  <2>5. Underway'
    BY <2>1, <2>2, <2>4 DEF Underway
  <2> QED
    BY <2>1, <2>2, <2>4, <2>5, BeginsSteady
<1>11. ASSUME NEW r \in Requests, Promote(r) PROVE SteadyParts'
  <2> DEFINE box == Promoted(mem, r)
  <2>1. /\ LockFree /\ r \in Ids(Contents(mem.next_turn))
        /\ Commit("promote", {ItemOf(mem, r)}, box)
        /\ disk' = disk /\ delivered' = delivered
    BY <1>11 DEF Promote
  <2>2. /\ mem = disk /\ mem \in Inbox /\ Good(mem)
        /\ \A a \in delivered : a.sequence < disk.next_sequence
    BY <2>1, LockFreeSteady
  <2>3. Good(box)
    BY <2>1, <2>2, GoodPromoted
  <2>4. /\ mem' = box /\ op'.kind = "promote" /\ op'.phase = "queued"
        /\ op' # NoOp
    <3> HIDE DEF box
    <3> QED
      BY <2>1, <2>3, CommitQueues
  <2>5. Underway'
    BY <2>1, <2>2, <2>4 DEF Underway
  <2> QED
    BY <2>1, <2>2, <2>4, <2>5, BeginsSteady
<1>12. CASE SessionDeleted
  BY <1>2, <1>4, <1>12 DEF SessionDeleted
<1>13. ASSUME DeleteSession PROVE SteadyParts'
  <2>1. CASE disk = EmptyInbox
    <3>1. mem' = disk' /\ op' = NoOp /\ delivered' = {}
      BY <1>13, <2>1 DEF DeleteSession
    <3> QED
      BY <3>1 DEF SteadyParts, NumbersGoOn, NoOp
  <2>2. CASE disk # EmptyInbox
    <3>1. /\ mem' = EmptyInbox /\ disk' = disk /\ owed' = {} /\ delivered' = {}
          /\ op'.kind = "delete" /\ op'.phase = "queued" /\ op' # NoOp
      BY <1>13, <2>2 DEF DeleteSession, NoOp
    <3>2. Underway'
      BY <3>1 DEF Underway
    <3> QED
      BY <3>1, <3>2, BeginsSteady
  <2> QED
    BY <2>1, <2>2
<1>14. CASE ThreadStarts
  <2>1. /\ op \in Operation /\ op.phase = "queued"
        /\ op'.phase = "running" /\ op'.kind = op.kind /\ op'.items = op.items
        /\ UNCHANGED <<mem, disk, owed, delivered, up>>
    BY <1>14 DEF ThreadStarts, Steady, Inductive, TypeOK, NoOp, Operation
  <2>2. Underway'
    BY <1>3, <2>1 DEF SteadyParts, Underway
  <2>3. op' # NoOp
    BY <2>1 DEF NoOp
  <2> QED
    BY <1>2, <1>3, <2>1, <2>2, <2>3 DEF SteadyParts, NumbersGoOn
<1>15. CASE WriteLands
  BY <1>2, <1>15, LandsSteady
<1>16. CASE WriteFails \/ (\E box \in orphans : OrphanLands(box))
            \/ Raise \/ Cancelled
  BY <1>16 DEF WriteFails, OrphanLands, Raise, Cancelled, Steady
<1>17. CASE Return
  BY <1>2, <1>17, ReturnSteady
<1>18. CASE Crash
  BY <1>2, <1>3, <1>18 DEF Crash, SteadyParts, NumbersGoOn, NoOp
<1>19. CASE Restart
  <2>1. Validate(disk)
    BY DEF Steady, Inductive, Good, WellFormed
  <2>2. op = NoOp
    BY <1>19 DEF Restart, Steady, DownIsIdle
  <2> QED
    BY <1>2, <1>3, <1>19, <2>1, <2>2 DEF Restart, SteadyParts, NumbersGoOn, NoOp
<1> QED
  BY <1>2, <1>5, <1>6, <1>7, <1>8, <1>9, <1>10, <1>11, <1>12, <1>13, <1>14,
     <1>15, <1>16, <1>17, <1>18, <1>19 DEF Next

\* When nothing is cancelled and no write fails, the invariant always holds.
LEMMA AlwaysSteady ==
    ASSUME Cancellable = {}, ~MayFail
    PROVE  Spec => []Steady
<1>1. Init => Steady
  <2> SUFFICES ASSUME Init PROVE Steady
    OBVIOUS
  <2>1. Inductive /\ DownIsIdle
    BY InitInductive DEF Init, DownIsIdle
  <2> QED
    BY <2>1 DEF Init, Steady, NumbersGoOn, NoOp
<1>2. Steady /\ [Next]_vars => Steady'
  BY SteadyStep
<1> QED
  BY <1>1, <1>2, PTL DEF Spec

-----------------------------------------------------------------------------
(* The refinement.  Each step of the repository is one step of             *)
(* DurableInbox, or changes nothing of it: an operation takes effect when  *)
(* its write lands, and is acknowledged when it returns.                   *)

\* What the mapping gives for "taken".
Taken == IF op.kind = "claim" /\ op.phase = "done" THEN Named(op.items) ELSE {}

\* A step that leaves the file and the histories alone, and hands nothing
\* over, is invisible.
LEMMA Stutters ==
    ASSUME UNCHANGED <<disk, owed, delivered>>, Taken' = Taken
    PROVE  UNCHANGED Durable!vars
BY DEF Durable!vars, Taken

\* An operation of the repository that is pending or running has taken nothing.
LEMMA NothingTaken ==
    ASSUME op.phase # "done" \/ op.kind # "claim"
    PROVE  Taken = {}
BY DEF Taken

\* A claim or a removal that begins releases what it is about to take.
LEMMA LeaveReleases ==
    ASSUME Steady, LockFree, NEW kind, NEW ids, Leave(kind, ids),
           UNCHANGED <<disk, delivered>>
    PROVE  Durable!Next
<1> DEFINE gone == owed \cap Named({i \in Pending(mem) : i.request_id \in ids})
<1>1. op'.phase # "done" /\ op.phase # "done"
  BY DEF Leave, Commit, LockFree, NoOp
<1>2. Taken = {} /\ Taken' = {}
  BY <1>1, NothingTaken DEF Taken
<1>3. owed' = owed \ gone
  BY DEF Leave
<1>4. gone \in SUBSET owed
  OBVIOUS
<1> HIDE DEF gone
<1>5. Durable!Release(gone)
  BY <1>2, <1>3 DEF Durable!Release, Taken
<1> QED
  BY <1>4, <1>5 DEF Durable!Next

\* What an edit or a promotion makes of an entry is an entry, and keeps its
\* name.
LEMMA EntryChanges ==
    ASSUME NEW box \in Inbox, NEW e \in Entries(box)
    PROVE  /\ [e EXCEPT !.edited = TRUE] \in Durable!Entry
           /\ [e EXCEPT !.edited = TRUE].request_id = e.request_id
           /\ [e EXCEPT !.edited = TRUE].sequence = e.sequence
           /\ [e EXCEPT !.target = "next_step"] \in Durable!Entry
           /\ [e EXCEPT !.target = "next_step"].request_id = e.request_id
           /\ [e EXCEPT !.target = "next_step"].sequence = e.sequence
<1>1. PICK i \in Item, t \in Targets : e = EntryOf(i, t)
  <2>1. Contents(box.next_turn) \cup Contents(box.next_step) \subseteq Item
    BY PendingItems DEF Pending
  <2>2. {"next_turn", "next_step"} = Targets
    BY DEF Targets
  <2> QED
    BY <2>1, <2>2, EntriesOf
<1>2. e \in Durable!Entry
  BY <1>1 DEF EntryOf, Item, Durable!Entry, Durable!Targets, Targets
<1> QED
  BY <1>2 DEF Durable!Entry, Durable!Targets

\* The write that lands is the operation, in one step.
LEMMA LandsRefines ==
    ASSUME Steady, WriteLands
    PROVE  Durable!Next
<1>1. /\ op \in Operation /\ op.phase = "running" /\ disk' = mem
      /\ op'.phase = "done" /\ op'.kind = op.kind /\ op'.items = op.items
      /\ UNCHANGED <<owed, delivered>>
  BY DEF WriteLands, Steady, Inductive, TypeOK, NoOp, Operation
<1>2. Underway /\ disk \in Inbox /\ Sound(disk)
  BY <1>1, SoundIsWellFormed DEF Steady, Inductive, TypeOK, Good
<1>3. /\ Taken = {}
      /\ Taken' = IF op.kind = "claim" THEN Named(op.items) ELSE {}
  BY <1>1 DEF Taken
<1>4. CASE op.kind = "admit"
  <2>1. PICK r \in Requests, target \in Targets :
           r \notin Ids(Pending(disk)) /\ mem = Admitted(disk, r, target)
    BY <1>2, <1>4 DEF Underway
  <2>2. /\ \A e \in Entries(disk) : e.request_id # r
        /\ Entries(mem) = Entries(disk) \cup
              {[request_id |-> r, sequence |-> disk.next_sequence,
                edited |-> FALSE, target |-> target]}
        /\ mem.next_sequence = disk.next_sequence + 1
    BY <1>2, <2>1, EntriesAdmitted
  <2>3. Taken' = {}
    BY <1>3, <1>4
  <2>4. Durable!Admit(r, target)
    BY <1>1, <1>3, <2>2, <2>3 DEF Durable!Admit, Entries, Taken
  <2>5. target \in Durable!Targets
    BY DEF Durable!Targets, Targets
  <2> QED
    BY <2>4, <2>5 DEF Durable!Next
<1>5. CASE op.kind \in {"claim", "remove"}
  <2>1. PICK ids \in SUBSET Requests :
           /\ mem = Without(disk, ids)
           /\ op.items = {i \in Pending(disk) : i.request_id \in ids}
           /\ Named(op.items) \cap owed = {}
    BY <1>2, <1>5 DEF Underway
  <2> DEFINE entries == {e \in Entries(disk) : e.request_id \in ids}
  <2>2. /\ Entries(mem) = Entries(disk) \ entries
        /\ mem.next_sequence = disk.next_sequence
    BY <1>2, <2>1, EntriesWithout
  <2>3. Durable!Named(entries) = Named(op.items)
    BY <2>1, NamedEntries
  <2>4. entries \in SUBSET Entries(disk)
    OBVIOUS
  <2> HIDE DEF entries
  <2>5. Taken' \in {{}, Durable!Named(entries)}
    BY <1>3, <2>3
  <2>6. Durable!Take(entries)
    BY <1>1, <2>1, <2>2, <2>3, <2>4, <2>5 DEF Durable!Take, Entries, Taken
  <2> QED
    BY <2>4, <2>6 DEF Durable!Next, Entries
<1>6. CASE op.kind = "edit"
  <2>1. PICK r \in Ids(Pending(disk)) : mem = Edited(disk, r)
    BY <1>2, <1>6 DEF Underway
  <2>2. mem.next_sequence = disk.next_sequence
    BY <1>2, <2>1, EntriesEdited
  <2>3. PICK e \in Entries(disk) : Entries(mem) =
                (Entries(disk) \ {e}) \cup {[e EXCEPT !.edited = TRUE]}
    BY <1>2, <2>1, EntriesEdited
  <2>4. Taken' = {}
    BY <1>3, <1>6
  <2>5. Durable!Change(e, [e EXCEPT !.edited = TRUE])
    <3> DEFINE f == [e EXCEPT !.edited = TRUE]
    <3>1. /\ f \in Durable!Entry
          /\ f.request_id = e.request_id /\ f.sequence = e.sequence
      BY <1>2, EntryChanges
    <3>2. f = [e EXCEPT !.edited = TRUE]
      OBVIOUS
    <3>3. Entries(mem) = (Entries(disk) \ {e}) \cup {f}
      BY <2>3
    <3> HIDE DEF f
    <3> QED
      BY <1>1, <1>3, <2>2, <2>4, <3>1, <3>2, <3>3
         DEF Durable!Change, Entries, Taken
  <2> QED
    BY <2>5 DEF Durable!Next, Entries
<1>7. CASE op.kind = "promote"
  <2>1. PICK r \in Ids(Contents(disk.next_turn)) : mem = Promoted(disk, r)
    BY <1>2, <1>7 DEF Underway
  <2>2. mem.next_sequence = disk.next_sequence
    BY <1>2, <2>1, EntriesPromoted
  <2>3. PICK e \in Entries(disk) :
           /\ e.target = "next_turn"
           /\ Entries(mem) =
                (Entries(disk) \ {e}) \cup {[e EXCEPT !.target = "next_step"]}
    BY <1>2, <2>1, EntriesPromoted
  <2>4. Taken' = {}
    BY <1>3, <1>7
  <2>5. Durable!Change(e, [e EXCEPT !.target = "next_step"])
    <3> DEFINE f == [e EXCEPT !.target = "next_step"]
    <3>1. /\ f \in Durable!Entry
          /\ f.request_id = e.request_id /\ f.sequence = e.sequence
      BY <1>2, EntryChanges
    <3>2. f = [e EXCEPT !.target = "next_step"]
      OBVIOUS
    <3>3. Entries(mem) = (Entries(disk) \ {e}) \cup {f}
      BY <2>3
    <3> HIDE DEF f
    <3> QED
      BY <1>1, <1>3, <2>2, <2>3, <2>4, <3>1, <3>2, <3>3
         DEF Durable!Change, Entries, Taken
  <2> QED
    BY <2>5 DEF Durable!Next, Entries
<1>8. CASE op.kind = "delete"
  <2>1. mem = EmptyInbox /\ owed = {}
    BY <1>2, <1>8 DEF Underway
  <2>2. Entries(mem) = {} /\ mem.next_sequence = 1
    BY <2>1, EntriesOf DEF EmptyInbox, Contents
  <2>3. Taken' = {}
    BY <1>3, <1>8
  <2>4. Durable!Clear
    BY <1>1, <2>1, <2>2, <2>3 DEF Durable!Clear, Entries, Taken
  <2> QED
    BY <2>4 DEF Durable!Next
<1> QED
  BY <1>1, <1>4, <1>5, <1>6, <1>7, <1>8 DEF Operation, Operations

\* Every step of the repository is a step of DurableInbox or invisible in it.
LEMMA StepRefines ==
    ASSUME Cancellable = {}, ~MayFail, Steady, [Next]_vars
    PROVE  [Durable!Next]_(Durable!vars)
<1>1. CASE UNCHANGED vars
  BY <1>1, Stutters DEF vars, Taken
<1>2. CASE \E r \in Requests, target \in Targets :
              Arrive(r, target) \/ GiveUp(r, target) \/ AdmitFull(r, target)
  BY <1>2, Stutters DEF Arrive, GiveUp, AdmitFull, Taken
<1>3. ASSUME NEW r \in Requests, NEW target \in Targets,
             AdmitAgain(r, target)
      PROVE  Durable!Next
  <2>1. /\ LockFree /\ r \in Ids(Pending(mem))
        /\ owed' = owed \cup Named({ItemOf(mem, r)})
        /\ UNCHANGED <<disk, op, delivered>>
    BY <1>3 DEF AdmitAgain, EnterAdmit
  <2>2. mem = disk /\ Sound(disk)
    BY <2>1, LockFreeSteady
  <2> DEFINE item == ItemOf(mem, r)
  <2>3. item \in Pending(disk) /\ item.request_id = r
    BY <2>1, <2>2, ItemOfPending
  <2> DEFINE ids == {r}
             entries == {e \in Entries(disk) : e.request_id \in ids}
  <2>4. {i \in Pending(disk) : i.request_id \in ids} = {item}
    BY <2>2, <2>3, SoundItems
  <2> HIDE DEF item, ids
  <2>5. Durable!Named(entries) = Named({item})
    BY <2>4, NamedEntries
  <2>6. entries \in SUBSET Entries(disk)
    OBVIOUS
  <2> HIDE DEF entries
  <2>7. owed' = owed \cup Durable!Named(entries)
    BY <2>1, <2>5 DEF item
  <2>8. Durable!Acknowledge(entries)
    BY <2>1, <2>6, <2>7 DEF Durable!Acknowledge, Entries
  <2> QED
    BY <2>6, <2>8 DEF Durable!Next, Entries
<1>4. ASSUME NEW r \in Requests, NEW target \in Targets, AdmitNew(r, target)
      PROVE  UNCHANGED Durable!vars
  <2> DEFINE box == Admitted(mem, r, target)
             item == ItemOf(box, r)
  <2>1. /\ LockFree /\ r \notin Ids(Pending(mem))
        /\ Commit("admit", {item}, box)
        /\ delivered' = delivered \ Named({item})
        /\ UNCHANGED <<disk, owed>>
    BY <1>4 DEF AdmitNew, EnterAdmit
  <2>2. /\ mem = disk /\ Sound(disk) /\ op = NoOp
        /\ \A a \in delivered : a.sequence < disk.next_sequence
    BY <2>1, LockFreeSteady
  <2>3. item = [request_id |-> r, sequence |-> disk.next_sequence,
                edited |-> FALSE]
    BY <1>4, <2>1, <2>2, EntriesAdmitted
  <2> HIDE DEF item, box
  <2>4. item.sequence = disk.next_sequence /\ disk.next_sequence \in Nat
    BY <2>2, <2>3 DEF Sound, Inbox
  <2>5. \A a \in delivered : a \notin Named({item})
    BY <2>2, <2>4 DEF Named
  <2>6. delivered' = delivered
    BY <2>1, <2>5
  <2>7. Taken = {} /\ Taken' = {}
    BY <2>1, <2>2 DEF Taken, Commit, NoOp
  <2> QED
    BY <2>1, <2>6, <2>7, Stutters
<1>5. CASE \E ids \in SUBSET Requests : Claim(ids)
  BY <1>5, LeaveReleases DEF Claim
<1>6. CASE \E r \in Requests : Remove(r)
  BY <1>6, LeaveReleases DEF Remove
<1>7. CASE \E r \in Requests : Edit(r) \/ Promote(r)
  <2>1. /\ UNCHANGED <<disk, owed, delivered>>
        /\ op.kind # "claim" /\ op'.kind # "claim"
    BY <1>7 DEF Edit, Promote, Commit, LockFree, NoOp
  <2> QED
    BY <2>1, Stutters DEF Taken
<1>8. CASE SessionDeleted
  BY <1>8, Stutters DEF SessionDeleted, Taken
<1>9. CASE DeleteSession
  <2>1. op.kind # "claim" /\ op'.kind # "claim"
    BY <1>9 DEF DeleteSession, LockFree, NoOp
  <2>2. Durable!Dispose
    BY <1>9, <2>1 DEF DeleteSession, Durable!Dispose
  <2> QED
    BY <2>2 DEF Durable!Next
<1>10. CASE ThreadStarts
  <2>1. /\ UNCHANGED <<disk, owed, delivered>>
        /\ op.phase # "done" /\ op'.phase # "done"
    BY <1>10 DEF ThreadStarts, Steady, Inductive, TypeOK, Operation, NoOp
  <2> QED
    BY <2>1, Stutters DEF Taken
<1>11. CASE WriteLands
  BY <1>11, LandsRefines
<1>12. CASE WriteFails \/ (\E box \in orphans : OrphanLands(box))
            \/ Raise \/ Cancelled
  BY <1>12 DEF WriteFails, OrphanLands, Raise, Cancelled, Steady
<1>13. CASE Return
  <2>1. /\ op.phase = "done" /\ mem = disk /\ op' = NoOp
        /\ UNCHANGED disk
    BY <1>13 DEF Return, Steady
  <2>2. Taken' = {}
    BY <2>1 DEF Taken, NoOp
  <2>3. CASE op.kind = "claim"
    <3>1. Taken = Named(op.items)
      BY <2>1, <2>3 DEF Taken
    <3>2. owed' = owed /\ delivered' = delivered \cup Taken
      BY <1>13, <2>3, <3>1 DEF Return
    <3>3. Durable!HandOver
      BY <2>1, <2>2, <3>2 DEF Durable!HandOver, Taken
    <3> QED
      BY <3>3 DEF Durable!Next
  <2>4. CASE op.kind = "admit"
    <3>1. op.items \subseteq Pending(disk)
      BY <2>1, <2>4 DEF Steady
    <3>2. Taken = {} /\ owed' = owed \cup Named(op.items)
          /\ delivered' = delivered
      BY <1>13, <2>4 DEF Return, Taken
    <3> DEFINE ids == Ids(op.items)
               entries == {e \in Entries(disk) : e.request_id \in ids}
    <3>3. {i \in Pending(disk) : i.request_id \in ids} = op.items
      <4>1. Sound(disk)
        BY SoundIsWellFormed DEF Steady, Inductive, TypeOK, Good
      <4>2. \A i, j \in Pending(disk) : i.request_id = j.request_id => i = j
        BY <4>1, SoundItems
      <4> QED
        BY <3>1, <4>2 DEF Ids
    <3>4. Durable!Named(entries) = Named(op.items)
      BY <3>3, NamedEntries
    <3>5. entries \in SUBSET Entries(disk)
      OBVIOUS
    <3> HIDE DEF entries
    <3>6. Durable!Acknowledge(entries)
      BY <2>1, <2>2, <3>2, <3>4, <3>5
         DEF Durable!Acknowledge, Entries, Taken
    <3> QED
      BY <3>5, <3>6 DEF Durable!Next, Entries
  <2>5. CASE op.kind \notin {"claim", "admit"}
    <3>1. Taken = {} /\ UNCHANGED <<disk, owed, delivered>>
      BY <1>13, <2>5 DEF Return, Taken
    <3> QED
      BY <2>2, <3>1, Stutters
  <2> QED
    BY <2>3, <2>4, <2>5
<1>14. CASE Crash
  <2>1. Taken' = {} /\ UNCHANGED <<disk, owed, delivered>>
    BY <1>14 DEF Crash, Taken, NoOp
  <2>2. Durable!LoseTaken
    BY <2>1 DEF Durable!LoseTaken, Taken
  <2> QED
    BY <2>2 DEF Durable!Next
<1>15. CASE Restart
  <2>1. Validate(disk)
    BY DEF Steady, Inductive, Good, WellFormed
  <2>2. UNCHANGED <<disk, op, owed, delivered>>
    BY <1>15, <2>1 DEF Restart
  <2> QED
    BY <2>2, Stutters DEF Taken
<1> QED
  BY <1>1, <1>2, <1>3, <1>4, <1>5, <1>6, <1>7, <1>8, <1>9, <1>10, <1>11,
     <1>12, <1>13, <1>14, <1>15 DEF Next

\* When nothing is cancelled and no write fails, the repository implements
\* DurableInbox: between the memory, the file, the lock and the thread no
\* state shows that an atomic set of items would not have, crashes included.
THEOREM RepositoryIsDurable ==
    ASSUME Cancellable = {}, ~MayFail
    PROVE  Spec => ImplementsDurableInbox
<1>1. Init => Durable!Init
  <2> SUFFICES ASSUME Init PROVE Durable!Init
    OBVIOUS
  <2>1. disk = EmptyInbox /\ owed = {} /\ delivered = {} /\ Taken = {}
    BY DEF Init, Taken, NoOp
  <2>2. Entries(disk) = {} /\ disk.next_sequence = 1
    BY <2>1, EntriesOf DEF EmptyInbox, Contents
  <2> QED
    BY <2>1, <2>2 DEF Durable!Init, Entries, Taken
<1>2. Steady /\ [Next]_vars => [Durable!Next]_(Durable!vars)
  BY StepRefines
<1> QED
  BY <1>1, <1>2, AlwaysSteady, PTL
     DEF Spec, ImplementsDurableInbox, Durable!Spec

-----------------------------------------------------------------------------
(* What DurableInbox promises, the repository keeps.                       *)

\* An admission that is owed is in the box.
OwedIsKept == owed \subseteq Durable!Named(Entries(disk))

\* No step of DurableInbox breaks the promise: only what has been released
\* leaves the box.
LEMMA OwedStep ==
    ASSUME OwedIsKept, [Durable!Next]_(Durable!vars)
    PROVE  OwedIsKept'
<1> DEFINE B == Entries(disk)
<1>1. CASE UNCHANGED Durable!vars
  BY <1>1 DEF OwedIsKept, Durable!vars, Entries
<1>2. ASSUME NEW r, NEW t, Durable!Admit(r, t) PROVE OwedIsKept'
  <2>1. B \subseteq B' /\ owed' = owed
    BY <1>2 DEF Durable!Admit, Entries
  <2> QED
    BY <2>1 DEF OwedIsKept, Durable!Named
<1>3. ASSUME NEW entries \in SUBSET B, Durable!Acknowledge(entries)
      PROVE  OwedIsKept'
  <2>1. B' = B /\ owed' = owed \cup Durable!Named(entries)
    BY <1>3 DEF Durable!Acknowledge, Entries
  <2> QED
    BY <1>3, <2>1 DEF OwedIsKept, Durable!Named
<1>4. ASSUME NEW entries \in SUBSET B, Durable!Take(entries)
      PROVE  OwedIsKept'
  <2>1. /\ B' = B \ entries /\ owed' = owed
        /\ Durable!Named(entries) \cap owed = {}
    BY <1>4 DEF Durable!Take, Entries
  <2> QED
    BY <1>4, <2>1 DEF OwedIsKept, Durable!Named
<1>5. ASSUME NEW admissions, Durable!Release(admissions) PROVE OwedIsKept'
  BY <1>5 DEF OwedIsKept, Durable!Release, Entries
<1>6. CASE Durable!HandOver \/ Durable!LoseTaken
  BY <1>6 DEF OwedIsKept, Durable!HandOver, Durable!LoseTaken, Entries
<1>7. ASSUME NEW e \in B, NEW f, Durable!Change(e, f) PROVE OwedIsKept'
  <2>1. /\ B' = (B \ {e}) \cup {f} /\ owed' = owed
        /\ f.request_id = e.request_id /\ f.sequence = e.sequence
    BY <1>7 DEF Durable!Change, Entries
  <2>2. \A a \in Durable!Named(B) : a \in Durable!Named(B')
    BY <2>1 DEF Durable!Named
  <2> QED
    BY <2>1, <2>2 DEF OwedIsKept
<1>8. CASE Durable!Dispose
  BY <1>8 DEF OwedIsKept, Durable!Dispose
<1>9. CASE Durable!Clear
  BY <1>9 DEF OwedIsKept, Durable!Clear
<1> QED
  BY <1>1, <1>2, <1>3, <1>4, <1>5, <1>6, <1>7, <1>8, <1>9
     DEF Durable!Next, Entries

\* An input whose client was told "accepted" is in the file until it begins
\* to leave, so that no crash loses it, when nothing is cancelled and no
\* write fails (admit() returns after _commit, and claim() clears the debt).
THEOREM AcceptedSurvives ==
    ASSUME Cancellable = {}, ~MayFail
    PROVE  Spec => []AcceptedIsDurable
<1>1. Init => OwedIsKept
  BY DEF Init, OwedIsKept
<1>2. Steady /\ OwedIsKept /\ [Next]_vars => OwedIsKept'
  BY StepRefines, OwedStep
<1>3. OwedIsKept => AcceptedIsDurable
  BY NamedEntries DEF OwedIsKept, AcceptedIsDurable
<1> QED
  BY <1>1, <1>2, <1>3, AlwaysSteady, PTL DEF Spec
=============================================================================
