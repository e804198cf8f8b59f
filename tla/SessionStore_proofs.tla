-------------------------- MODULE SessionStore_proofs -------------------------
(***************************************************************************)
(* What SessionRepository acknowledges is kept, and a conversation has one *)
(* Session, for any number of Sessions, conversations and operations.      *)
(*                                                                         *)
(* A step is first brought into a form that says of each variable what it  *)
(* does to it (StoreMoves), from which every part of the invariant is      *)
(* shown to be kept.  The invariant says who may touch a Session: who      *)
(* writes or deletes holds the lock that is for it, a Session that is      *)
(* being made is nobody else's, what is in memory is on disk, and what is  *)
(* on disk and not in memory is being made, being deleted, was left there  *)
(* by a deletion in this life of the gateway or was revived by a write     *)
(* that had outlived its task.                                             *)
(***************************************************************************)
EXTENDS SessionStore, FiniteSetTheorems, TLAPS

\* Sessions and the operations on them are numbered, a replacement is tried once
\* at least, and 0 stands for no conversation.
Bounds ==
    /\ MaxSessions \in Nat /\ MaxOps \in Nat /\ Replaces \in Nat \ {0}
    /\ 0 \notin Keys

LEMMA BoundsSay ==
    ASSUME Bounds
    PROVE  /\ MaxSessions \in Nat /\ MaxOps \in Nat /\ Replaces \in Nat \ {0}
           /\ 0 \notin Keys
BY DEF Bounds

\* What is not there, and what cannot be read, is no content of a Session.
LEMMA ContentsApart ==
    /\ Absent \notin State /\ Broken \notin State /\ Absent # Broken
<1>1. ASSUME NEW x \in State PROVE "key" \in DOMAIN x
  BY <1>1 DEF State
<1>2. "key" \notin DOMAIN Absent /\ "key" \notin DOMAIN Broken
  BY DEF Absent, Broken
<1>3. Absent.is # Broken.is
  BY DEF Absent, Broken
<1> QED
  BY <1>1, <1>2, <1>3

\* A Session is no stand-in for none, nor is an operation.
LEMMA StoreNumbers ==
    ASSUME Bounds
    PROVE  /\ None \notin Sessions /\ None \notin Ops
           /\ Sessions \subseteq Nat
BY BoundsSay DEF None, Sessions, Ops

\* The content of an operation that begins to write.
LEMMA NewContent ==
    ASSUME TypeOK, NEW o \in Ops
    PROVE  /\ \A k \in Keys \cup {None} : [key |-> k, marks |-> {o}] \in State
           /\ \A s \in Sessions : mem[s] # Absent =>
                 /\ mem[s] \in State
                 /\ [mem[s] EXCEPT !.marks = @ \cup {o}] \in State
                 /\ [mem[s] EXCEPT !.marks = @ \cup {o}].key = mem[s].key
                 /\ [mem[s] EXCEPT !.marks = @ \cup {o}].marks = mem[s].marks \cup {o}
<1>1. \A k \in Keys \cup {None} : [key |-> k, marks |-> {o}] \in State
  BY DEF State
<1>2. ASSUME NEW s \in Sessions, mem[s] # Absent
      PROVE  /\ mem[s] \in State
             /\ [mem[s] EXCEPT !.marks = @ \cup {o}] \in State
             /\ [mem[s] EXCEPT !.marks = @ \cup {o}].key = mem[s].key
             /\ [mem[s] EXCEPT !.marks = @ \cup {o}].marks = mem[s].marks \cup {o}
  <2>1. mem[s] \in State
    BY <1>2 DEF TypeOK
  <2>2. mem[s] = [key |-> mem[s].key, marks |-> mem[s].marks]
        /\ mem[s].key \in Keys \cup {None} /\ mem[s].marks \subseteq Ops
    BY <2>1 DEF State
  <2> QED
    BY <2>1, <2>2 DEF State
<1> QED
  BY <1>1, <1>2

\* The lock of an operation that ends is given back.
LEMMA LocksReleased ==
    ASSUME Bounds, TypeOK, NEW o \in Ops, Released(o)
    PROVE  /\ global' \in Ops \cup {None}
           /\ locks' \in [Sessions -> Ops \cup {None}]
           /\ global' # o /\ (global # o => global' = global)
           /\ \A s \in Sessions :
                 /\ locks'[s] # o
                 /\ locks[s] # o => locks'[s] = locks[s]
BY StoreNumbers DEF TypeOK, Released

\* The step leaves the other operations alone, and of this one what was asked.
OneOp(o) ==
    /\ \A p \in Ops \ {o} : ops'[p] = ops[p]
    /\ ops'[o].kind = ops[o].kind /\ ops'[o].key = ops[o].key
    /\ ops'[o].session = ops[o].session
    /\ ops' \in [Ops -> Operation]

OpIs(o, kind, s, key, pc, new) ==
    /\ \A p \in Ops \ {o} : ops'[p] = ops[p]
    /\ ops'[o].kind = kind /\ ops'[o].session = s /\ ops'[o].key = key
    /\ ops'[o].pc = pc /\ ops'[o].new = new
    /\ ops' \in [Ops -> Operation]

\* An operation with other fields is an operation.
LEMMA OpChanges ==
    ASSUME TypeOK, NEW o \in Ops, NEW kind \in Kinds, NEW s \in Sessions \cup {None},
           NEW key \in Keys \cup {None}, NEW pc \in Places,
           NEW new \in State \cup {Absent}, NEW tries \in 0 .. Replaces,
           ops' = [ops EXCEPT ![o] = [kind |-> kind, session |-> s, key |-> key,
                                                pc |-> pc, new |-> new, tries |-> tries]]
    PROVE  OpIs(o, kind, s, key, pc, new)
<1>1. [kind |-> kind, session |-> s, key |-> key, pc |-> pc, new |-> new, tries |-> tries]
      \in Operation
  BY DEF Operation
<1> QED
  BY <1>1 DEF TypeOK, OpIs

\* Every operation is made of its fields.
LEMMA OpFields ==
    ASSUME TypeOK, NEW o \in Ops
    PROVE  LET op == ops[o] IN
           /\ op = [kind |-> op.kind, session |-> op.session, key |-> op.key, pc |-> op.pc,
                    new |-> op.new, tries |-> op.tries]
           /\ op.kind \in Kinds /\ op.session \in Sessions \cup {None}
           /\ op.key \in Keys \cup {None} /\ op.pc \in Places
           /\ op.new \in State \cup {Absent} /\ op.tries \in 0 .. Replaces
<1>1. ops[o] \in Operation
  BY DEF TypeOK
<1> QED
  BY <1>1 DEF Operation
\* An operation whose fields are rewritten one after another.
Fields(x, kind, s, key, pc, new, tries) ==
    x = [kind |-> kind, session |-> s, key |-> key, pc |-> pc, new |-> new, tries |-> tries]
WithKind(x, kind) == [x EXCEPT !.kind = kind]
WithSession(x, s) == [x EXCEPT !.session = s]
WithPc(x, pc) == [x EXCEPT !.pc = pc]
WithNew(x, new) == [x EXCEPT !.new = new]
WithTries(x, tries) == [x EXCEPT !.tries = tries]

\* Setting a field of an operation sets that one and leaves the others.
LEMMA FieldSet ==
    ASSUME NEW x, NEW kind, NEW s, NEW key, NEW pc, NEW new, NEW tries,
           Fields(x, kind, s, key, pc, new, tries), NEW v
    PROVE  /\ Fields(WithKind(x, v), v, s, key, pc, new, tries)
           /\ Fields(WithSession(x, v), kind, v, key, pc, new, tries)
           /\ Fields(WithPc(x, v), kind, s, key, v, new, tries)
           /\ Fields(WithNew(x, v), kind, s, key, pc, v, tries)
           /\ Fields(WithTries(x, v), kind, s, key, pc, new, v)
BY DEF Fields, WithKind, WithSession, WithPc, WithNew, WithTries

\* An operation has the fields of an operation.
LEMMA FieldsHeld ==
    ASSUME NEW op, op \in Operation
    PROVE  Fields(op, op.kind, op.session, op.key, op.pc, op.new, op.tries)
BY DEF Fields, Operation

\* The fields of an operation that begins to write.
LEMMA OpBegun ==
    ASSUME NEW op, op \in Operation, NEW kind, NEW s, NEW new
    PROVE  [op EXCEPT !.kind = kind, !.session = s, !.new = new, !.pc = "writing", !.tries = 0]
           = [kind |-> kind, session |-> s, key |-> op.key, pc |-> "writing", new |-> new,
              tries |-> 0]
<1>1. Fields(WithSession(WithKind(op, kind), s), kind, s, op.key, op.pc, op.new, op.tries)
  BY FieldsHeld, FieldSet
<1>2. Fields(WithTries(WithPc(WithNew(WithSession(WithKind(op, kind), s), new), "writing"), 0),
             kind, s, op.key, "writing", new, 0)
  BY <1>1, FieldSet
<1> QED
  BY <1>2 DEF Fields, WithKind, WithSession, WithPc, WithNew, WithTries

\* The fields of one that has ended.
LEMMA OpOver ==
    ASSUME NEW op, op \in Operation, NEW pc
    PROVE  Ended(op, pc)
           = [kind |-> op.kind, session |-> op.session, key |-> op.key, pc |-> pc,
              new |-> Absent, tries |-> 0]
<1>1. Fields(WithTries(WithNew(WithPc(op, pc), Absent), 0),
             op.kind, op.session, op.key, pc, Absent, 0)
  BY FieldsHeld, FieldSet
<1> QED
  BY <1>1 DEF Ended, Fields, WithPc, WithNew, WithTries

\* The fields of one that goes on.
LEMMA OpMoved ==
    ASSUME NEW op, op \in Operation, NEW pc, NEW tries
    PROVE  [op EXCEPT !.pc = pc, !.tries = tries]
           = [kind |-> op.kind, session |-> op.session, key |-> op.key, pc |-> pc,
              new |-> op.new, tries |-> tries]
<1>1. Fields(WithTries(WithPc(op, pc), tries),
             op.kind, op.session, op.key, pc, op.new, tries)
  BY FieldsHeld, FieldSet
<1> QED
  BY <1>1 DEF Fields, WithPc, WithTries

\* The operations after a step, from the one that took it.
LEMMA OpTyped ==
    ASSUME TypeOK, NEW o \in Ops
    PROVE  ops[o] \in Operation
BY DEF TypeOK

\* A directory in which a file appears.
LEMMA DirectoryFilled ==
    ASSUME NEW d, d \in Directory, NEW o \in Ops
    PROVE  /\ [d EXCEPT !.there = TRUE, !.tmps = @ \cup {o}] \in Directory
           /\ [d EXCEPT !.there = TRUE, !.tmps = @ \cup {o}].file = d.file
<1> DEFINE e == [d EXCEPT !.there = TRUE]
<1>1. e \in Directory /\ e.file = d.file
  BY DEF Directory
<1>2. [d EXCEPT !.there = TRUE, !.tmps = @ \cup {o}] = [e EXCEPT !.tmps = @ \cup {o}]
  BY DEF Directory
<1> HIDE DEF e
<1>3. [e EXCEPT !.tmps = @ \cup {o}] \in Directory
      /\ [e EXCEPT !.tmps = @ \cup {o}].file = e.file
  BY <1>1 DEF Directory
<1> QED
  BY <1>1, <1>2, <1>3

\* A directory whose file is replaced or is gone.
LEMMA DirectoryReplaced ==
    ASSUME NEW d, d \in Directory, NEW o \in Ops,
           ops[o].new \in State
    PROVE  /\ [d EXCEPT !.file = ops[o].new, !.tmps = @ \ {o}] \in Directory
           /\ [d EXCEPT !.file = ops[o].new, !.tmps = @ \ {o}].file = ops[o].new
<1> DEFINE e == [d EXCEPT !.file = ops[o].new]
<1>1. e \in Directory /\ e.file = ops[o].new
  BY DEF Directory
<1>2. [d EXCEPT !.file = ops[o].new, !.tmps = @ \ {o}] = [e EXCEPT !.tmps = @ \ {o}]
  BY DEF Directory
<1> HIDE DEF e
<1>3. [e EXCEPT !.tmps = @ \ {o}] \in Directory
      /\ [e EXCEPT !.tmps = @ \ {o}].file = e.file
  BY <1>1 DEF Directory
<1> QED
  BY <1>1, <1>2, <1>3

\* What a deletion leaves is a directory, with the file as it was or without it.
LEMMA DirectoryRemains ==
    ASSUME NEW d, d \in Directory, NEW left \in Remains(d)
    PROVE  left \in Directory /\ left.file \in {Absent, d.file}
<1>1. CASE left = NoDirectory
  BY <1>1 DEF NoDirectory, Directory
<1>2. CASE left # NoDirectory
  BY <1>2 DEF Remains, Directory
<1> QED
  BY <1>1, <1>2

\* What the steps do to the operation that takes them.
LEMMA WriteBegins ==
    ASSUME Bounds, TypeOK, NEW o \in Ops, NEW kind \in Kinds, NEW s \in Sessions,
           NEW new \in State, Write(o, kind, s, new)
    PROVE  OpIs(o, kind, s, ops[o].key, "writing", new)
<1> DEFINE op == [ops[o] EXCEPT !.kind = kind, !.session = s, !.new = new,
                                     !.pc = "writing", !.tries = 0]
<1>1. op = [kind |-> kind, session |-> s, key |-> ops[o].key, pc |-> "writing",
            new |-> new, tries |-> 0]
  <2>1. ops[o] \in Operation
    BY OpTyped
  <2> QED BY <2>1, OpBegun
<1>2. ops' = [ops EXCEPT ![o] = op]
  BY DEF Write
<1>3. "writing" \in Places /\ 0 \in 0 .. Replaces
  BY BoundsSay DEF Places
<1> HIDE DEF op
<1> QED
  BY <1>1, <1>2, <1>3, OpFields, OpChanges

\* An operation ends, or is cancelled and leaves its thread behind.
LEMMA OpEnds ==
    ASSUME Bounds, TypeOK, NEW o \in Ops, NEW pc \in Places, Ends(o, pc)
    PROVE  /\ OneOp(o) /\ Released(o) /\ ops'[o].pc = pc
           /\ ops'[o].new = IF pc = "orphan" THEN ops[o].new ELSE Absent
<1>1. CASE pc = "orphan"
  <2>1. ops' = [ops EXCEPT ![o] = [ops[o] EXCEPT !.pc = pc]]
    BY <1>1 DEF Ends
  <2>2. [ops[o] EXCEPT !.pc = pc] =
           [kind |-> ops[o].kind, session |-> ops[o].session,
            key |-> ops[o].key, pc |-> pc, new |-> ops[o].new,
            tries |-> ops[o].tries]
    BY DEF TypeOK, Operation
  <2>3. OpIs(o, ops[o].kind, ops[o].session, ops[o].key, pc,
             ops[o].new)
    BY <2>1, <2>2, OpFields, OpChanges
  <2> QED
    BY <2>3, <1>1 DEF OpIs, OneOp, Ends
<1>2. CASE pc # "orphan"
  <2>1. ops' = [ops EXCEPT ![o] = Ended(ops[o], pc)]
    BY <1>2 DEF Ends
  <2>2. Ended(ops[o], pc) =
           [kind |-> ops[o].kind, session |-> ops[o].session,
            key |-> ops[o].key, pc |-> pc, new |-> Absent, tries |-> 0]
    <3>1. ops[o] \in Operation
      BY OpTyped
    <3> QED BY <3>1, OpOver
  <2>3. 0 \in 0 .. Replaces
    BY BoundsSay
  <2>4. OpIs(o, ops[o].kind, ops[o].session, ops[o].key, pc, Absent)
    BY <2>1, <2>2, <2>3, OpFields, OpChanges
  <2> QED
    BY <2>4, <1>2 DEF OpIs, OneOp, Ends
<1> QED
  BY <1>1, <1>2

\* A step that changes how far an operation is.
LEMMA OpGoesOn ==
    ASSUME TypeOK, NEW o \in Ops, NEW pc \in Places, NEW tries \in 0 .. Replaces,
           ops' = [ops EXCEPT ![o].pc = pc, ![o].tries = tries]
    PROVE  OneOp(o) /\ ops'[o].pc = pc /\ ops'[o].new = ops[o].new
<1> DEFINE op == [ops[o] EXCEPT !.pc = pc, !.tries = tries]
<1>1. ops' = [ops EXCEPT ![o] = op]
  BY DEF TypeOK
<1>2. op = [kind |-> ops[o].kind, session |-> ops[o].session,
            key |-> ops[o].key, pc |-> pc, new |-> ops[o].new, tries |-> tries]
  BY OpTyped, OpMoved
<1> HIDE DEF op
<1>3. OpIs(o, ops[o].kind, ops[o].session, ops[o].key, pc, ops[o].new)
  BY <1>1, <1>2, OpFields, OpChanges
<1> QED
  BY <1>3 DEF OpIs, OneOp

Writing == {"writing", "replacing", "written"}
SameFiles == \A s \in Sessions : disk'[s].file = disk[s].file

\* The file of one Session becomes f.
FileIs(s, f) ==
    /\ disk'[s].file = f
    /\ \A t \in Sessions \ {s} : disk'[t].file = disk[t].file

\* A new operation.
LEMMA Arrives ==
    ASSUME Bounds, TypeOK, NEW o \in Ops, NEW kind \in Kinds, NEW s \in Sessions \cup {None},
           NEW key \in Keys \cup {None}, Arrive(o, kind, s, key)
    PROVE  /\ OpIs(o, kind, s, key, "waiting", Absent)
           /\ up /\ ops[o].kind = "none" /\ ops[o].session = None
           /\ ops[o].pc = "idle" /\ ops[o].new = Absent
           /\ UNCHANGED <<up, mem, corrupt, index, disk,
                          global, locks>>
<1>1. ops' = [ops EXCEPT ![o] = [kind |-> kind, session |-> s, key |-> key,
                       pc |-> "waiting", new |-> Absent, tries |-> 0]]
  BY DEF Arrive, NoOp, TypeOK
<1>2. "waiting" \in Places /\ 0 \in 0 .. Replaces
  BY BoundsSay DEF Places
<1>3. OpIs(o, kind, s, key, "waiting", Absent)
  BY <1>1, <1>2, OpChanges
<1> QED
  BY <1>3 DEF Arrive, NoOp

\* A deletion has the global lock and waits for that of the Session.
LEMMA GoesToWaiting ==
    ASSUME TypeOK, NEW o \in Ops, DeleteGlobal(o) \/ Delete(o)
    PROVE  /\ OneOp(o) /\ ops'[o].new = ops[o].new
           /\ ops'[o].pc = IF ops[o].pc = "waiting" THEN "locking" ELSE "removing"
<1> DEFINE pc == IF ops[o].pc = "waiting" THEN "locking" ELSE "removing"
<1>1. ops' = [ops EXCEPT ![o] = [ops[o] EXCEPT !.pc = pc]]
  BY DEF DeleteGlobal, Delete
<1>2. [ops[o] EXCEPT !.pc = pc] =
         [kind |-> ops[o].kind, session |-> ops[o].session,
          key |-> ops[o].key, pc |-> pc, new |-> ops[o].new,
          tries |-> ops[o].tries]
  BY DEF TypeOK, Operation
<1>3. pc \in Places
  BY DEF Places
<1> HIDE DEF pc
<1>4. OpIs(o, ops[o].kind, ops[o].session, ops[o].key, pc,
           ops[o].new)
  BY <1>1, <1>2, <1>3, OpFields, OpChanges
<1> QED
  BY <1>4 DEF OpIs, OneOp, pc

\* The thread of a write makes its temporary file, waits or replaces the file.
LEMMA ThreadGoesOn ==
    ASSUME Bounds, TypeOK, NEW o \in Ops, ops[o].session \in Sessions,
           WriteTemporary(o) \/ Held(o)
    PROVE  /\ OneOp(o) /\ ops'[o].new = ops[o].new /\ SameFiles
           /\ ops[o].pc \in {"writing", "replacing", "orphan"}
           /\ ops'[o].pc = IF ops[o].pc = "orphan" THEN "orphan" ELSE "replacing"
           /\ disk' \in [Sessions -> Directory] /\ up
           /\ UNCHANGED <<up, mem, corrupt, index, global, locks>>
<1>1. CASE WriteTemporary(o)
  <2> DEFINE pc == IF ops[o].pc = "orphan" THEN "orphan" ELSE "replacing"
             d == disk[ops[o].session]
             new == [d EXCEPT !.there = TRUE, !.tmps = @ \cup {o}]
  <2>1. pc \in Places /\ 1 \in 0 .. Replaces
    BY BoundsSay DEF Places
  <2>2. ops' = [ops EXCEPT ![o].pc = pc, ![o].tries = 1]
    BY <1>1 DEF WriteTemporary, TypeOK
  <2>3. OneOp(o) /\ ops'[o].pc = pc /\ ops'[o].new = ops[o].new
    <3> HIDE DEF pc
    <3> QED BY <2>1, <2>2, OpGoesOn
  <2>4. disk' = [disk EXCEPT ![ops[o].session] = new]
    BY <1>1 DEF WriteTemporary, TypeOK
  <2>5. new \in Directory /\ new.file = d.file
    <3>1. d \in Directory /\ Absent \in State \cup {Absent, Broken}
      BY DEF TypeOK
    <3> QED BY <3>1, DirectoryFilled
  <2> HIDE DEF new
  <2>6. SameFiles /\ disk' \in [Sessions -> Directory]
    BY <2>4, <2>5 DEF TypeOK, SameFiles
  <2> QED
    BY <1>1, <2>3, <2>6 DEF WriteTemporary, InThread
<1>2. CASE Held(o)
  <2>1. ops[o].tries + 1 \in 0 .. Replaces /\ ops[o].pc \in Places
    BY <1>2, BoundsSay DEF Held, TypeOK, Operation
  <2>2. ops' = [ops EXCEPT ![o].pc = ops[o].pc, ![o].tries = ops[o].tries + 1]
    BY <1>2 DEF Held, TypeOK, Operation
  <2>3. OneOp(o) /\ ops'[o].pc = ops[o].pc /\ ops'[o].new = ops[o].new
    BY <2>1, <2>2, OpGoesOn
  <2> QED
    BY <1>2, <2>3 DEF Held, InThread, TypeOK, SameFiles
<1> QED
  BY <1>1, <1>2

\* A thread replaces session.json.
LEMMA ThreadReplaces ==
    ASSUME TypeOK, NEW o \in Ops, ops[o].session \in Sessions,
           ops[o].new \in State, Replace(o)
    PROVE  /\ OneOp(o) /\ ops'[o].new = ops[o].new
           /\ FileIs(ops[o].session, ops[o].new)
           /\ ops[o].pc \in {"replacing", "orphan"}
           /\ ops'[o].pc = IF ops[o].pc = "orphan" THEN "strayed" ELSE "written"
           /\ disk' \in [Sessions -> Directory] /\ up
           /\ UNCHANGED <<up, mem, corrupt, index, global, locks>>
<1> DEFINE pc == IF ops[o].pc = "orphan" THEN "strayed" ELSE "written"
           d == disk[ops[o].session]
           new == [d EXCEPT !.file = ops[o].new, !.tmps = @ \ {o}]
<1>1. pc \in Places /\ ops[o].tries \in 0 .. Replaces
  BY OpFields DEF Places
<1>2. ops' = [ops EXCEPT ![o].pc = pc, ![o].tries = ops[o].tries]
  BY DEF Replace, TypeOK, Operation
<1>3. OneOp(o) /\ ops'[o].pc = pc /\ ops'[o].new = ops[o].new
  <2> HIDE DEF pc
  <2> QED BY <1>1, <1>2, OpGoesOn
<1>4. disk' = [disk EXCEPT ![ops[o].session] = new]
  BY DEF Replace, TypeOK
<1>5. new \in Directory /\ new.file = ops[o].new
  <2>1. d \in Directory /\ ops[o].new \in State \cup {Absent, Broken}
    BY DEF TypeOK
  <2> QED BY <2>1, DirectoryReplaced
<1> HIDE DEF new
<1>6. FileIs(ops[o].session, ops[o].new)
      /\ disk' \in [Sessions -> Directory]
  BY <1>4, <1>5 DEF TypeOK, FileIs
<1> QED
  BY <1>3, <1>6 DEF Replace, InThread

\* The fields of an operation that is on its way fit what it does.
Formed(o) ==
    LET op == ops[o] IN
    /\ op.kind \in {"create", "rebind", "update", "delete"} => op.session # None
    /\ op.kind = "none" => op.session = None /\ op.pc = "idle"
    /\ op.kind = "create" => op.key = None
    /\ op.kind = "bind" => op.key \in Keys
    /\ op.kind = "bind" /\ op.pc = "waiting" => op.session = None
    /\ op.pc \in Writing \cup {"orphan"} => op.session # None /\ op.new \in State
    /\ op.pc \in Writing => op.kind \in {"create", "bind", "rebind", "update"}
    /\ op.pc \in {"orphan", "strayed"} => op.kind = "update"
    /\ op.pc \in {"locking", "removing", "kept", "undone"} =>
          op.kind = "delete" /\ op.session # None
    /\ op.pc \in Writing \cup {"orphan", "locking", "removing", "waiting", "kept"} => up
StoreTypes == TypeOK /\ \A o \in Ops : Formed(o)

\* What each step does, field by field.
OpAsked(o) ==
    /\ up /\ ops[o].kind = "none" /\ ops[o].session = None
    /\ \/ \E s \in Sessions : Fresh(s) /\ OpIs(o, "create", s, None, "waiting", Absent)
       \/ \E k \in Keys : OpIs(o, "bind", None, k, "waiting", Absent)
       \/ \E s \in Sessions, kind \in {"update", "delete"} :
             /\ mem[s] # Absent \/ s \in corrupt
             /\ OpIs(o, kind, s, None, "waiting", Absent)
    /\ UNCHANGED <<up, mem, corrupt, index, disk, global, locks>>
OpFounds(o, s) ==
    LET op == ops[o] IN
    /\ up /\ op.pc = "waiting" /\ global = None /\ global' = o
    /\ \/ op.kind = "create" /\ s = op.session
       \/ /\ op.kind = "bind" /\ op.key \in Keys /\ Fresh(s)
          /\ index[op.key] # None => mem[index[op.key]] = Absent
    /\ OpIs(o, op.kind, s, op.key, "writing", [key |-> op.key, marks |-> {o}])
    /\ UNCHANGED <<up, mem, corrupt, index, disk, locks>>
OpRebinds(o, s) ==
    LET op == ops[o] IN
    /\ up /\ op.kind = "bind" /\ op.pc = "waiting" /\ mem[s] # Absent
    /\ global = None /\ global' = o
    /\ OpIs(o, "rebind", s, op.key, "writing", [mem[s] EXCEPT !.marks = @ \cup {o}])
    /\ UNCHANGED <<up, mem, corrupt, index, disk, locks>>
OpUpdates(o) ==
    LET op == ops[o]
        s == op.session IN
    /\ up /\ op.kind = "update" /\ op.pc = "waiting" /\ mem[s] # Absent
    /\ locks[s] = None /\ locks' = [locks EXCEPT ![s] = o]
    /\ OpIs(o, "update", s, op.key, "writing", [mem[s] EXCEPT !.marks = @ \cup {o}])
    /\ UNCHANGED <<up, mem, corrupt, index, disk, global>>
\* An update finds nothing, a write fails, or its task is cancelled.
OpStops(o) ==
    LET op == ops[o] IN
    /\ up /\ OneOp(o) /\ Released(o)
    /\ \/ op.kind = "update" /\ op.pc = "waiting" /\ ops'[o].pc = "nothing"
       \/ op.pc \in Writing \ {"written"} /\ ops'[o].pc = "failed"
       \/ op.pc = "orphan" /\ ops'[o].pc = "strayed"
    /\ UNCHANGED <<up, mem, corrupt, index, disk>>
OpAbandoned(o) ==
    LET op == ops[o] IN
    /\ up /\ OneOp(o) /\ Released(o) /\ ops'[o].new = op.new
    /\ op.kind = "update" /\ op.pc \in Writing \ {"written"} /\ ops'[o].pc = "orphan"
    /\ UNCHANGED <<up, mem, corrupt, index, disk>>
OpQueues(o) ==
    LET op == ops[o] IN
    /\ up /\ op.kind = "delete" /\ op.pc = "waiting"
    /\ OneOp(o) /\ ops'[o].pc = "locking" /\ ops'[o].new = op.new
    /\ global = None /\ global' = o
    /\ UNCHANGED <<up, mem, corrupt, index, disk, locks>>
OpDeletes(o) ==
    LET op == ops[o]
        s == op.session IN
    /\ up /\ op.pc = "locking"
    /\ OneOp(o) /\ ops'[o].pc = "removing" /\ ops'[o].new = op.new
    /\ locks[s] = None /\ locks' = [locks EXCEPT ![s] = o]
    /\ mem' = [mem EXCEPT ![s] = Absent]
    /\ index' = [k \in Keys |-> IF index[k] = s THEN None ELSE index[k]]
    /\ UNCHANGED <<up, corrupt, disk, global>>
OpRemoves(o) ==
    LET op == ops[o] IN
    /\ up /\ op.pc = "removing" /\ OneOp(o) /\ Released(o)
    /\ ops'[o].pc = "done"
    /\ FileIs(op.session, Absent)
    /\ UNCHANGED <<up, mem, corrupt, index>>
OpKeeps(o) ==
    /\ up /\ ops[o].pc = "removing" /\ OneOp(o) /\ Released(o)
    /\ ops'[o].pc = "kept"
    /\ SameFiles
    /\ UNCHANGED <<up, mem, corrupt, index>>
OpThreads(o) ==
    LET op == ops[o] IN
    /\ up /\ op.pc \in {"writing", "replacing", "orphan"}
    /\ OneOp(o) /\ ops'[o].new = op.new /\ SameFiles
    /\ ops'[o].pc = IF op.pc = "orphan" THEN "orphan" ELSE "replacing"
    /\ UNCHANGED <<up, mem, corrupt, index, global, locks>>
OpReplaces(o) ==
    LET op == ops[o] IN
    /\ up /\ op.pc \in {"replacing", "orphan"}
    /\ OneOp(o) /\ ops'[o].new = op.new /\ FileIs(op.session, op.new)
    /\ ops'[o].pc = IF op.pc = "orphan" THEN "strayed" ELSE "written"
    /\ UNCHANGED <<up, mem, corrupt, index, global, locks>>
OpCommits(o) ==
    LET op == ops[o]
        s == op.session IN
    /\ up /\ op.pc = "written" /\ OneOp(o) /\ Released(o)
    /\ ops'[o].pc = "done"
    /\ mem' = [mem EXCEPT ![s] = op.new]
    /\ index' = [k \in Keys |-> IF op.new.key = k THEN s
                                             ELSE IF index[k] = s THEN None
                                             ELSE index[k]]
    /\ UNCHANGED <<up, corrupt, disk>>
StoreCrashes ==
    /\ up /\ ~up' /\ UNCHANGED disk
    /\ \A s \in Sessions : mem'[s] = Absent
    /\ corrupt' = {} /\ global' = None
    /\ \A s \in Sessions : locks'[s] = None
    /\ \A o \in Ops :
          /\ ops'[o].kind = ops[o].kind /\ ops'[o].key = ops[o].key
          /\ ops'[o].session = ops[o].session
          /\ ops'[o].pc = IF InFlight(o) THEN "lost"
                          ELSE IF ops[o].pc = "kept" THEN "undone" ELSE ops[o].pc
StoreStarts ==
    /\ ~up /\ up' /\ UNCHANGED <<ops, global, locks>>
    /\ \A s \in Sessions :
          /\ mem'[s] = IF disk[s].file \in State THEN disk[s].file ELSE Absent
          /\ s \in corrupt' <=> disk[s].file = Broken
          /\ disk[s].file \in State \cup {Absent} => disk'[s].file = disk[s].file
          /\ disk[s].file = Broken => disk'[s].file \in {Absent, Broken}
    /\ \A k \in Keys, s \in Sessions :
          mem'[s] # Absent /\ mem'[s].key = k =>
             /\ index'[k] \in Sessions /\ mem'[index'[k]] # Absent
             /\ mem'[index'[k]].key = k
StoreDamaged(s) ==
    /\ ~up /\ disk[s].file \in State /\ FileIs(s, Broken)
    /\ UNCHANGED <<up, mem, corrupt, index, global, locks, ops>>
StoreMoves ==
    \/ UNCHANGED vars
    \/ \E o \in Ops :
          \/ OpAsked(o) \/ OpUpdates(o) \/ OpStops(o) \/ OpAbandoned(o) \/ OpQueues(o)
          \/ OpDeletes(o) \/ OpRemoves(o) \/ OpKeeps(o) \/ OpThreads(o) \/ OpReplaces(o)
          \/ OpCommits(o)
          \/ \E s \in Sessions : OpFounds(o, s) \/ OpRebinds(o, s)
    \/ StoreCrashes \/ StoreStarts \/ \E s \in Sessions : StoreDamaged(s)

\* A step of the store is one of these, and keeps the types.
LEMMA StoreSteps ==
    ASSUME Bounds, StoreTypes, [Next]_vars
    PROVE  TypeOK' /\ StoreMoves
<1> USE DEF TypeOK
<1>0. TypeOK /\ \A o \in Ops : Formed(o)
  BY DEF StoreTypes
<1>1. CASE UNCHANGED vars
  BY <1>0, <1>1 DEF vars, StoreMoves
<1>2. ASSUME NEW o \in Ops, Call(o) PROVE TypeOK' /\ OpAsked(o)
  <2>1. ASSUME NEW s \in Sessions, Fresh(s), Arrive(o, "create", s, None)
        PROVE  TypeOK' /\ OpAsked(o)
    <3>1. "create" \in Kinds
      BY DEF Kinds
    <3> QED BY <1>0, <2>1, <3>1, Arrives DEF OpAsked, OpIs
  <2>2. ASSUME NEW k \in Keys, Arrive(o, "bind", None, k)
        PROVE  TypeOK' /\ OpAsked(o)
    <3>1. "bind" \in Kinds
      BY DEF Kinds
    <3>2. /\ OpIs(o, "bind", None, k, "waiting", Absent)
          /\ up /\ ops[o].kind = "none" /\ ops[o].session = None
          /\ UNCHANGED <<up, mem, corrupt, index, disk, global,
                         locks>>
      BY <1>0, <2>2, <3>1, Arrives
    <3>3. TypeOK'
      BY <1>0, <3>2 DEF OpIs
    <3> QED BY <3>2, <3>3 DEF OpAsked
  <2>3. ASSUME NEW s \in Sessions, NEW kind \in {"update", "delete"},
               mem[s] # Absent \/ s \in corrupt, Arrive(o, kind, s, None)
        PROVE  TypeOK' /\ OpAsked(o)
    <3>1. kind \in Kinds
      BY DEF Kinds
    <3> QED BY <1>0, <2>3, <3>1, Arrives DEF OpAsked, OpIs
  <2> QED
    BY <1>2, <2>1, <2>2, <2>3 DEF Call
<1>3. ASSUME NEW o \in Ops, Create(o)
      PROVE  TypeOK' /\ \E s \in Sessions : OpFounds(o, s)
  <2> DEFINE s == ops[o].session
  <2>1. s \in Sessions /\ ops[o].key = None /\ "create" \in Kinds
    BY <1>0, <1>3, OpFields DEF Create, Formed, Kinds
  <2>2. OpIs(o, "create", s, None, "writing", [key |-> None, marks |-> {o}])
    BY <1>0, <1>3, <2>1, NewContent, WriteBegins DEF Create
  <2> QED
    BY <1>0, <1>3, <2>1, <2>2 DEF Create, OpFounds, OpIs
<1>4. ASSUME NEW o \in Ops, Bind(o)
      PROVE  TypeOK' /\ \E s \in Sessions : OpFounds(o, s) \/ OpRebinds(o, s)
  <2> DEFINE k == ops[o].key
  <2>1. k \in Keys /\ "bind" \in Kinds /\ "rebind" \in Kinds
    BY <1>0, <1>4 DEF Kinds, Bind, Formed
  <2>2. CASE index[k] # None /\ mem[index[k]] # Absent
    <3> DEFINE s == index[k]
    <3>1. s \in Sessions
      BY <1>0, <2>1, <2>2, <1>4 DEF Bind
    <3>2. OpIs(o, "rebind", s, k, "writing", [mem[s] EXCEPT !.marks = @ \cup {o}])
      BY <1>0, <1>4, <2>1, <2>2, <3>1, NewContent, WriteBegins DEF Bind
    <3> QED
      BY <1>0, <1>4, <2>2, <3>1, <3>2 DEF Bind, OpRebinds, OpIs
  <2>3. CASE ~(index[k] # None /\ mem[index[k]] # Absent)
    <3>1. PICK s \in Sessions : Fresh(s) /\ Write(o, "bind", s, [key |-> k, marks |-> {o}])
      BY <1>4, <2>3 DEF Bind
    <3>2. OpIs(o, "bind", s, k, "writing", [key |-> k, marks |-> {o}])
      BY <1>0, <2>1, <3>1, NewContent, WriteBegins
    <3> QED
      BY <1>0, <1>4, <2>1, <2>3, <3>1, <3>2 DEF Bind, OpFounds, OpIs
  <2> QED
    BY <2>2, <2>3
<1>5. ASSUME NEW o \in Ops, Update(o) PROVE TypeOK' /\ (OpUpdates(o) \/ OpStops(o))
  <2> DEFINE s == ops[o].session
  <2>1. s \in Sessions /\ "update" \in Kinds /\ "nothing" \in Places
    BY <1>0, <1>5, OpFields DEF Update, Formed, Kinds, Places
  <2>2. CASE mem[s] = Absent
    <3>1. Ends(o, "nothing")
      BY <1>5, <2>2 DEF Update
    <3>2. OneOp(o) /\ Released(o) /\ ops'[o].pc = "nothing"
      BY <1>0, <2>1, <3>1, OpEnds
    <3> QED
      BY <1>0, <1>5, <3>2, LocksReleased DEF Update, OpStops, OneOp
  <2>3. CASE mem[s] # Absent
    <3>1. OpIs(o, "update", s, ops[o].key, "writing",
               [mem[s] EXCEPT !.marks = @ \cup {o}])
      BY <1>0, <1>5, <2>1, <2>3, NewContent, WriteBegins DEF Update
    <3>2. locks' \in [Sessions -> Ops \cup {None}]
      BY <1>0, <1>5, <2>1, <2>3 DEF Update
    <3> QED
      BY <1>0, <1>5, <2>1, <2>3, <3>1, <3>2 DEF Update, OpUpdates, OpIs
  <2> QED
    BY <2>2, <2>3
<1>6. ASSUME NEW o \in Ops, DeleteGlobal(o) PROVE TypeOK' /\ OpQueues(o)
  BY <1>0, <1>6, GoesToWaiting DEF DeleteGlobal, OpQueues, OneOp
<1>7. ASSUME NEW o \in Ops, Delete(o) PROVE TypeOK' /\ OpDeletes(o)
  <2>1. ops[o].session \in Sessions
    BY <1>0, <1>7, OpFields DEF Delete, Formed
  <2>2. OneOp(o) /\ ops'[o].pc = "removing" /\ ops'[o].new = ops[o].new
    BY <1>0, <1>7, GoesToWaiting DEF Delete
  <2>3. /\ locks' \in [Sessions -> Ops \cup {None}]
        /\ mem' \in [Sessions -> State \cup {Absent}]
        /\ index' \in [Keys -> Sessions \cup {None}]
    BY <1>0, <1>7, <2>1 DEF Delete
  <2> QED
    BY <1>0, <1>7, <2>2, <2>3 DEF Delete, OpDeletes, OneOp
<1>8. ASSUME NEW o \in Ops, Removed(o) PROVE TypeOK' /\ (OpRemoves(o) \/ OpKeeps(o))
  <2> DEFINE s == ops[o].session
  <2>1. s \in Sessions /\ {"done", "kept"} \subseteq Places
    BY <1>0, <1>8, OpFields DEF Removed, Formed, Places
  <2>2. PICK left \in Remains(disk[s]) :
           /\ disk' = [disk EXCEPT ![s] = left]
           /\ Ends(o, IF left.file = Absent THEN "done" ELSE "kept")
    BY <1>8 DEF Removed
  <2> DEFINE pc == IF left.file = Absent THEN "done" ELSE "kept"
  <2>3. pc \in Places /\ Ends(o, pc)
    BY <2>1, <2>2
  <2>4. OneOp(o) /\ Released(o) /\ ops'[o].pc = pc
    <3> HIDE DEF pc
    <3> QED BY <1>0, <2>3, OpEnds
  <2>5. left \in Directory /\ left.file \in {Absent, disk[s].file}
    BY <1>0, <2>1, DirectoryRemains
  <2>6. FileIs(s, left.file) /\ disk' \in [Sessions -> Directory]
    BY <1>0, <2>1, <2>2, <2>5 DEF FileIs
  <2>7. TypeOK'
    BY <1>0, <1>8, <2>4, <2>6, LocksReleased DEF Removed, OneOp
  <2>8. CASE left.file = Absent
    BY <1>8, <2>4, <2>6, <2>7, <2>8 DEF Removed, OpRemoves
  <2>9. CASE left.file # Absent
    <3>1. SameFiles
      BY <2>5, <2>6, <2>9 DEF FileIs, SameFiles
    <3> QED
      BY <1>8, <2>4, <2>7, <2>9, <3>1 DEF Removed, OpKeeps
  <2> QED BY <2>8, <2>9
<1>9. ASSUME NEW o \in Ops, WriteTemporary(o) \/ Held(o) PROVE TypeOK' /\ OpThreads(o)
  <2>1. ops[o].session \in Sessions
    BY <1>0, <1>9, OpFields DEF WriteTemporary, Held, InThread, Formed, Writing
  <2> QED
    BY <1>0, <1>9, <2>1, ThreadGoesOn DEF OpThreads, OneOp
<1>10. ASSUME NEW o \in Ops, Replace(o) PROVE TypeOK' /\ OpReplaces(o)
  <2>1. ops[o].session \in Sessions /\ ops[o].new \in State
    BY <1>0, <1>10, OpFields DEF Replace, InThread, Formed, Writing
  <2> QED
    BY <1>0, <1>10, <2>1, ThreadReplaces DEF OpReplaces, OneOp
<1>11. ASSUME NEW o \in Ops, WriteFails(o) PROVE TypeOK' /\ OpStops(o)
  <2> DEFINE pc == IF ops[o].pc = "orphan" THEN "strayed" ELSE "failed"
  <2>1. pc \in Places /\ up /\ ops[o].pc \in {"writing", "replacing", "orphan"}
    BY <1>11 DEF Places, WriteFails, InThread
  <2>2. Ends(o, pc)
    BY <1>11 DEF WriteFails
  <2>3. OneOp(o) /\ Released(o) /\ ops'[o].pc = pc
    <3> HIDE DEF pc
    <3> QED BY <1>0, <2>1, <2>2, OpEnds
  <2> QED
    BY <1>0, <1>11, <2>1, <2>3, LocksReleased DEF WriteFails, OpStops, OneOp, Writing
<1>12. ASSUME NEW o \in Ops, Commit(o) PROVE TypeOK' /\ OpCommits(o)
  <2>1. /\ ops[o].session \in Sessions /\ "done" \in Places
        /\ ops[o].new \in State
    BY <1>0, <1>12, OpFields DEF Commit, Formed, Places, Writing
  <2>2. OneOp(o) /\ Released(o) /\ ops'[o].pc = "done"
    BY <1>0, <1>12, <2>1, OpEnds DEF Commit
  <2>3. /\ mem' \in [Sessions -> State \cup {Absent}]
        /\ index' \in [Keys -> Sessions \cup {None}]
    BY <1>0, <1>12, <2>1 DEF Commit
  <2> QED
    BY <1>0, <1>12, <2>2, <2>3, LocksReleased DEF Commit, OpCommits, OneOp
<1>13. ASSUME NEW o \in Ops, Cancelled(o) PROVE TypeOK' /\ OpAbandoned(o)
  <2>1. "orphan" \in Places
    BY DEF Places
  <2>2. /\ OneOp(o) /\ Released(o) /\ ops'[o].pc = "orphan"
        /\ ops'[o].new = ops[o].new
    BY <1>0, <1>13, <2>1, OpEnds DEF Cancelled
  <2> QED
    BY <1>0, <1>13, <2>2, LocksReleased DEF Cancelled, OpAbandoned, OneOp, Writing
<1>14. CASE Crash
  <2>1. ASSUME NEW o \in Ops
        PROVE  /\ ops'[o] \in Operation
               /\ ops'[o].kind = ops[o].kind /\ ops'[o].key = ops[o].key
               /\ ops'[o].session = ops[o].session
               /\ ops'[o].pc = IF InFlight(o) THEN "lost"
                               ELSE IF ops[o].pc = "kept" THEN "undone" ELSE ops[o].pc
    <3>1. CASE InFlight(o)
      <4>1. ops'[o] = Ended(ops[o], "lost")
        BY <1>14, <3>1 DEF Crash
      <4>2. ops[o] \in Operation
        BY <1>0
      <4>3. Ended(ops[o], "lost") =
               [kind |-> ops[o].kind, session |-> ops[o].session,
                key |-> ops[o].key, pc |-> "lost", new |-> Absent, tries |-> 0]
        BY <4>2, OpOver
      <4>4. "lost" \in Places /\ 0 \in 0 .. Replaces
        BY BoundsSay DEF Places
      <4> QED
        BY <3>1, <4>1, <4>2, <4>3, <4>4 DEF Operation
    <3>2. CASE ~InFlight(o) /\ ops[o].pc = "kept"
      <4>1. ops'[o] = Ended(ops[o], "undone")
        BY <1>14, <3>2 DEF Crash
      <4>2. ops[o] \in Operation
        BY <1>0
      <4>3. Ended(ops[o], "undone") =
               [kind |-> ops[o].kind, session |-> ops[o].session,
                key |-> ops[o].key, pc |-> "undone", new |-> Absent, tries |-> 0]
        BY <4>2, OpOver
      <4>4. "undone" \in Places /\ 0 \in 0 .. Replaces
        BY BoundsSay DEF Places
      <4> QED
        BY <3>2, <4>1, <4>2, <4>3, <4>4 DEF Operation
    <3>3. CASE ~InFlight(o) /\ ops[o].pc # "kept"
      BY <1>0, <1>14, <3>3 DEF Crash
    <3> QED
      BY <3>1, <3>2, <3>3
  <2>2. ops' \in [Ops -> Operation]
    <3>1. ops' = [o \in Ops |-> ops'[o]]
      BY <1>14 DEF Crash
    <3> QED
      BY <2>1, <3>1
  <2> QED
    BY <1>0, <1>14, <2>1, <2>2 DEF Crash, StoreCrashes, StoreMoves
<1>15. CASE Start
  <2>1. ASSUME NEW s \in Sessions
        PROVE  /\ disk'[s] \in Directory
               /\ disk[s].file \in State \cup {Absent} => disk'[s].file = disk[s].file
               /\ disk[s].file = Broken => disk'[s].file \in {Absent, Broken}
    <3>1. PICK renamed \in SUBSET Sessions, held \in SUBSET Sessions :
             disk'[s] = Swept(Loaded(disk[s], s \in renamed), s \in held)
      BY <1>15 DEF Start
    <3> DEFINE d == disk[s]
               e == [d EXCEPT !.file = Absent, !.quarantined = TRUE]
    <3>2. d \in Directory
      BY <1>0
    <3>3. e \in Directory /\ e.file = Absent
      <4> DEFINE c == [d EXCEPT !.file = Absent]
      <4>1. c \in Directory /\ c.file = Absent
        BY <3>2 DEF Directory
      <4>2. e = [c EXCEPT !.quarantined = TRUE]
        BY <3>2 DEF Directory
      <4> HIDE DEF c, e
      <4> QED
        BY <4>1, <4>2 DEF Directory
    <3>4. NoDirectory \in Directory /\ NoDirectory.file = Absent
      BY DEF NoDirectory, Directory
    <3>5. Loaded(d, s \in renamed) \in {d, e}
          /\ (d.file # Broken => Loaded(d, s \in renamed) = d)
      BY DEF Loaded
    <3>6. \/ disk'[s] = Loaded(d, s \in renamed)
          \/ Loaded(d, s \in renamed).file = Absent /\ disk'[s] = NoDirectory
      BY <3>1 DEF Swept
    <3> HIDE DEF d, e
    <3>7. /\ disk'[s] \in Directory
          /\ d.file \in State \cup {Absent} => disk'[s].file = d.file
          /\ d.file = Broken => disk'[s].file \in {Absent, Broken}
      BY <3>2, <3>3, <3>4, <3>5, <3>6, ContentsApart
    <3> QED
      BY <3>7 DEF d
  <2>2. disk' \in [Sessions -> Directory]
    <3>1. disk' = [s \in Sessions |-> disk'[s]]
      BY <1>15 DEF Start
    <3> QED
      BY <2>1, <3>1
  <2>3. /\ mem' \in [Sessions -> State \cup {Absent}]
        /\ index' \in [Keys -> Sessions \cup {None}]
        /\ corrupt' \subseteq Sessions
    BY <1>15 DEF Start
  <2>4. ASSUME NEW k \in Keys, NEW s \in Sessions,
               mem'[s] # Absent /\ mem'[s].key = k
        PROVE  /\ index'[k] \in Sessions /\ mem'[index'[k]] # Absent
               /\ mem'[index'[k]].key = k
    <3>1. s \in {t \in Sessions : mem'[t] # Absent /\ mem'[t].key = k}
      BY <2>4
    <3>2. index'[k] \in {t \in Sessions : mem'[t] # Absent /\ mem'[t].key = k}
      BY <1>15, <3>1 DEF Start
    <3> QED
      BY <3>2
  <2>5. ASSUME NEW s \in Sessions
        PROVE  /\ mem'[s] = IF disk[s].file \in State THEN disk[s].file ELSE Absent
               /\ s \in corrupt' <=> disk[s].file = Broken
    BY <1>15 DEF Start
  <2>6. StoreStarts
    BY <1>15, <2>1, <2>4, <2>5 DEF Start, StoreStarts
  <2> QED
    BY <1>0, <1>15, <2>2, <2>3, <2>6 DEF Start, StoreMoves
<1>16. ASSUME NEW s \in Sessions, Damage(s) PROVE TypeOK' /\ StoreDamaged(s)
  <2> DEFINE d == [disk[s] EXCEPT !.file = Broken]
  <2>1. d \in Directory /\ d.file = Broken
    BY <1>0 DEF Directory
  <2>2. disk' = [disk EXCEPT ![s] = d]
    BY <1>16 DEF Damage
  <2> HIDE DEF d
  <2>3. FileIs(s, Broken) /\ disk' \in [Sessions -> Directory]
    BY <1>0, <2>1, <2>2 DEF FileIs
  <2> QED
    BY <1>0, <1>16, <2>3 DEF Damage, StoreDamaged
<1> HIDE DEF TypeOK
<1> QED
  BY <1>1, <1>2, <1>3, <1>4, <1>5, <1>6, <1>7, <1>8, <1>9, <1>10, <1>11, <1>12, <1>13,
     <1>14, <1>15, <1>16 DEF Next, StoreMoves

Born(o, s) == ops[o].session = s /\ ops[o].kind \in {"create", "bind"}
Deleted(s) == \E d \in Ops : ops[d].session = s /\ ops[d].kind = "delete"
                               /\ ops[d].pc = "done"
Strayed(s) == \E u \in Ops : ops[u].session = s /\ ops[u].pc = "strayed"
\* A deletion has left the file, for the rest of this life of the gateway.
Lingers(s) == \E d \in Ops : ops[d].session = s /\ ops[d].kind = "delete"
                                /\ ops[d].pc = "kept"
\* The Session is back after its deletion, or may come back.
Returned(s) ==
    \/ \E d \in Ops : ops[d].session = s /\ ops[d].kind = "delete"
                           /\ ops[d].pc = "undone"
    \/ Strayed(s) /\ Deleted(s)
\* The Session is there, or may be as soon as a write or a restart is done.
Possible(s) ==
    /\ \/ mem[s] # Absent \/ disk[s].file \in State
       \/ \E o \in Ops : ops[o].session = s /\ ops[o].pc \in Writing
    /\ ~Lingers(s)

\* The Sessions that operations name are numbered as they appear, and each has
\* the operation that made it.
Numbered ==
    \E n \in Nat : {ops[o].session : o \in Ops} \ {None} = 1 .. n
Parented == \A o \in Ops : ops[o].session # None =>
                \E b \in Ops : Born(b, ops[o].session)
\* Who writes or deletes has the lock that is for it.
Holding(o) ==
    LET op == ops[o]
        s == op.session IN
    /\ op.pc \in Writing /\ op.kind # "update" => global = o
    /\ op.pc \in Writing /\ op.kind = "update" => locks[s] = o
    /\ op.pc \in {"locking", "removing"} => global = o
    /\ op.pc = "removing" => locks[s] = o
\* What is changed is there, what is being removed is not, and a write that has
\* outlived its task is of a Session that is there, being removed or deleted.
Standing(o) ==
    LET op == ops[o]
        s == op.session IN
    /\ op.pc \in Writing /\ op.kind \in {"update", "rebind"} => mem[s] # Absent
    /\ op.pc \in {"removing", "kept"} => mem[s] = Absent
    /\ op.pc = "written" => disk[s].file \in State
    /\ op.pc = "orphan" =>
          \/ mem[s] # Absent \/ Deleted(s) \/ Lingers(s)
          \/ /\ disk[s].file \in State
             /\ \E d \in Ops : ops[d].session = s /\ ops[d].pc = "removing"
\* A Session that is being made is nobody else's.
NewSession(o) ==
    LET op == ops[o]
        s == op.session IN
    op.kind \in {"create", "bind"} /\ s # None /\ op.pc \in Writing \cup {"waiting"} =>
          /\ \A p \in Ops \ {o} : ops[p].session # s
          /\ mem[s] = Absent /\ s \notin corrupt
          /\ op.pc # "written" => disk[s].file = Absent
\* A Session that is in memory is on disk; one that is not, and may come back,
\* is being made, being deleted or revived by a write.
Lives(s) ==
    /\ mem[s] # Absent => up /\ disk[s].file \in State
    /\ mem[s] # Absent \/ s \in corrupt \/ disk[s].file # Absent =>
          \E o \in Ops : ops[o].session = s
    /\ up /\ mem[s] = Absent /\ Possible(s) =>
          \/ \E o \in Ops : global = o /\ ops[o].session = s
                              /\ ops[o].kind # "update"
          \/ Strayed(s) /\ Deleted(s)
\* A Session belongs to one conversation for good.
Keyed(b) ==
    LET s == ops[b].session
        k == ops[b].key IN
    ops[b].kind \in {"create", "bind"} /\ s # None =>
       /\ mem[s] # Absent => mem[s].key = k
       /\ disk[s].file \in State => disk[s].file.key = k
       /\ \A o \in Ops : ops[o].session = s /\ ops[o].pc \in Writing \cup {"orphan"} =>
             ops[o].new.key = k
\* No conversation has two Sessions, unless one of them was revived.
Single(a, b) ==
    \/ ops[a].kind # "bind" \/ ops[b].kind # "bind"
    \/ ops[a].key # ops[b].key
    \/ ops[a].session = None \/ ops[b].session = None
    \/ ops[a].session = ops[b].session
    \/ ~Possible(ops[a].session) \/ ~Possible(ops[b].session)
    \/ Revived(ops[a].key)
StoreInv ==
    /\ StoreTypes /\ Numbered /\ Parented
    /\ \A o \in Ops : Holding(o) /\ Standing(o) /\ NewSession(o) /\ Keyed(o)
    /\ \A s \in Sessions : Lives(s)
    /\ \A a, b \in Ops : Single(a, b)
    /\ OneSessionPerConversation

\* A fresh identifier is one that nothing has been named by.
LEMMA FreshIsNew ==
    ASSUME StoreTypes, Numbered, NEW s \in Sessions, Fresh(s)
    PROVE  /\ \A o \in Ops : ops[o].session # s
           /\ {ops[o].session : o \in Ops} \ {None} = 1 .. (s - 1) /\ s \in Nat \ {0}
<1>1. PICK n \in Nat : {ops[o].session : o \in Ops} \ {None} = 1 .. n
  BY DEF Numbered
<1>2. Cardinality(1 .. n) = n
  BY <1>1, FS_Interval
<1>3. s = n + 1
  BY <1>1, <1>2 DEF Fresh
<1> QED
  BY <1>1, <1>3 DEF None

\* Operations are on Sessions.
LEMMA SessionsOf ==
    ASSUME TypeOK, NEW o \in Ops, ops[o].session # None
    PROVE  ops[o].session \in Sessions
BY OpFields

\* The fields of an operation go on fitting what it does.
LEMMA FormedKept ==
    ASSUME Bounds, StoreTypes, StoreMoves, TypeOK', NEW o \in Ops PROVE Formed(o)'
<1>0. TypeOK /\ \A p \in Ops : Formed(p)
  BY DEF StoreTypes
<1>1. CASE UNCHANGED vars
  BY <1>0, <1>1 DEF vars, Formed
<1>2. ASSUME NEW p \in Ops, OpAsked(p) PROVE Formed(o)'
  <2>1. CASE o # p
    BY <1>0, <1>2, <2>1 DEF OpAsked, OpIs, Formed
  <2>2. CASE o = p
    BY <1>0, <1>2, <2>2, StoreNumbers DEF OpAsked, OpIs, Formed, Writing
  <2> QED BY <2>1, <2>2
<1>3. ASSUME NEW p \in Ops, NEW s \in Sessions, OpFounds(p, s) PROVE Formed(o)'
  <2>1. CASE o # p
    BY <1>0, <1>3, <2>1 DEF OpFounds, OpIs, Formed
  <2>2. CASE o = p
    <3>1. [key |-> ops[p].key, marks |-> {p}] \in State
      BY <1>0, OpFields DEF State
    <3> QED
      BY <1>0, <1>3, <2>2, <3>1, StoreNumbers DEF OpFounds, OpIs, Formed, Writing
  <2> QED BY <2>1, <2>2
<1>4. ASSUME NEW p \in Ops, NEW s \in Sessions, OpRebinds(p, s) PROVE Formed(o)'
  <2>1. CASE o # p
    BY <1>0, <1>4, <2>1 DEF OpRebinds, OpIs, Formed
  <2>2. CASE o = p
    <3>1. [mem[s] EXCEPT !.marks = @ \cup {p}] \in State
      BY <1>0, <1>4, NewContent DEF OpRebinds
    <3> QED
      BY <1>0, <1>4, <2>2, <3>1, StoreNumbers DEF OpRebinds, OpIs, Formed, Writing
  <2> QED BY <2>1, <2>2
<1>5. ASSUME NEW p \in Ops, OpUpdates(p) PROVE Formed(o)'
  <2>1. CASE o # p
    BY <1>0, <1>5, <2>1 DEF OpUpdates, OpIs, Formed
  <2>2. CASE o = p
    <3>1. ops[p].session \in Sessions
      BY <1>0, <1>5, SessionsOf DEF OpUpdates, Formed
    <3>2. [mem[ops[p].session] EXCEPT !.marks = @ \cup {p}] \in State
      BY <1>0, <1>5, <3>1, NewContent DEF OpUpdates
    <3> QED
      BY <1>0, <1>5, <2>2, <3>1, <3>2, StoreNumbers DEF OpUpdates, OpIs, Formed, Writing
  <2> QED BY <2>1, <2>2
<1>6. ASSUME NEW p \in Ops, OpStops(p) \/ OpAbandoned(p) \/ OpQueues(p) \/ OpDeletes(p)
                              \/ OpRemoves(p) \/ OpKeeps(p) \/ OpThreads(p) \/ OpReplaces(p)
                              \/ OpCommits(p)
      PROVE Formed(o)'
  BY <1>0, <1>6 DEF OpStops, OpAbandoned, OpQueues, OpDeletes, OpRemoves, OpKeeps, OpThreads,
     OpReplaces, OpCommits, OneOp, Formed, Writing
<1>7. CASE StoreCrashes
  BY <1>0, <1>7 DEF StoreCrashes, InFlight, Formed, Writing
<1>8. CASE StoreStarts \/ \E s \in Sessions : StoreDamaged(s)
  BY <1>0, <1>8 DEF StoreStarts, StoreDamaged, Formed, Writing
<1> QED
  BY <1>1, <1>2, <1>3, <1>4, <1>5, <1>6, <1>7, <1>8 DEF StoreMoves

\* What is asked of the store and where it goes on.
LEMMA NumberedKept ==
    ASSUME Bounds, StoreTypes, Numbered, Parented, \A s \in Sessions : Lives(s), StoreMoves, TypeOK'
    PROVE  Numbered' /\ Parented'
<1>0. TypeOK /\ \A p \in Ops : Formed(p)
  BY DEF StoreTypes
<1> DEFINE used == {ops[o].session : o \in Ops} \ {None}
<1>1. CASE \A o \in Ops : ops'[o].session = ops[o].session
                            /\ ops'[o].kind = ops[o].kind
  <2>1. Numbered'
    BY <1>1 DEF Numbered
  <2>2. Parented'
    BY <1>1 DEF Parented, Born
  <2> QED BY <2>1, <2>2
<1>2. ASSUME NEW p \in Ops, NEW s \in Sessions, Fresh(s),
             ops[p].session = None,
             ops'[p].session = s, ops'[p].kind \in {"create", "bind"},
             \A o \in Ops \ {p} : ops'[o] = ops[o]
      PROVE  Numbered' /\ Parented'
  <2>1. s \in Nat \ {0} /\ used = 1 .. (s - 1)
    BY <1>2, FreshIsNew
  <2>2. used' = used \cup {s}
    BY <1>2, StoreNumbers
  <2>3. used' = 1 .. s
    BY <2>1, <2>2
  <2>4. Numbered'
    BY <2>1, <2>3 DEF Numbered
  <2>5. ASSUME NEW o \in Ops, ops'[o].session # None
        PROVE  \E b \in Ops : Born(b, ops[o].session)'
    <3>1. CASE o = p
      BY <1>2, <3>1 DEF Born
    <3>2. CASE o # p
      <4>1. PICK b \in Ops : Born(b, ops[o].session)
        BY <1>2, <2>5, <3>2 DEF Parented
      <4>2. b # p
        BY <1>2, <2>5, <3>2, <4>1 DEF Born
      <4> QED BY <1>2, <3>2, <4>1, <4>2 DEF Born
    <3> QED BY <3>1, <3>2
  <2> QED BY <2>4, <2>5 DEF Parented
\* An operation on a Session that is named already.
<1>3. ASSUME NEW p \in Ops, NEW s \in Sessions, \E o \in Ops : ops[o].session = s,
             ops[p].session = None, ops'[p].session = s,
             \A o \in Ops \ {p} : ops'[o] = ops[o]
      PROVE  Numbered' /\ Parented'
  <2>1. PICK q \in Ops : ops[q].session = s
    BY <1>3
  <2>2. s # None /\ q # p
    BY <1>3, <2>1, StoreNumbers
  <2>3. used' = used
    BY <1>3, <2>1, <2>2
  <2>4. Numbered'
    BY <2>3 DEF Numbered
  <2>5. PICK b \in Ops : Born(b, s)
    BY <2>1, <2>2 DEF Parented
  <2>6. b # p /\ Born(b, s)'
    BY <1>3, <2>2, <2>5 DEF Born
  <2>7. ASSUME NEW o \in Ops, ops'[o].session # None
        PROVE  \E c \in Ops : Born(c, ops[o].session)'
    <3>1. CASE o = p
      BY <1>3, <2>6, <3>1 DEF Born
    <3>2. CASE o # p
      <4>1. PICK c \in Ops : Born(c, ops[o].session)
        BY <1>3, <2>7, <3>2 DEF Parented
      <4>2. c # p
        BY <1>3, <2>7, <3>2, <4>1 DEF Born
      <4> QED BY <1>3, <3>2, <4>1, <4>2 DEF Born
    <3> QED BY <3>1, <3>2
  <2> QED BY <2>4, <2>7 DEF Parented
<1>4. ASSUME NEW p \in Ops, OpAsked(p) PROVE Numbered' /\ Parented'
  <2>1. CASE \E s \in Sessions : Fresh(s) /\ OpIs(p, "create", s, None, "waiting", Absent)
    BY <1>2, <1>4, <2>1 DEF OpAsked, OpIs
  <2>2. CASE \E k \in Keys : OpIs(p, "bind", None, k, "waiting", Absent)
    <3>1. /\ \A o \in Ops \ {p} : ops'[o] = ops[o]
          /\ ops[p].session = None /\ ops'[p].session = None
      BY <1>4, <2>2 DEF OpAsked, OpIs
    <3>2. \A o \in Ops : ops'[o].session = ops[o].session
      BY <3>1
    <3>3. Numbered'
      BY <3>2 DEF Numbered
    <3>4. ASSUME NEW o \in Ops, ops'[o].session # None
          PROVE  \E b \in Ops : Born(b, ops[o].session)'
      <4>1. PICK b \in Ops : Born(b, ops[o].session)
        BY <3>2, <3>4 DEF Parented
      <4>2. b # p
        BY <3>1, <3>2, <3>4, <4>1 DEF Born
      <4> QED BY <3>1, <3>2, <4>1, <4>2 DEF Born
    <3> QED BY <3>3, <3>4 DEF Parented
  <2>3. CASE \E s \in Sessions, kind \in {"update", "delete"} :
             /\ mem[s] # Absent \/ s \in corrupt
             /\ OpIs(p, kind, s, None, "waiting", Absent)
    <3>1. PICK s \in Sessions, kind \in {"update", "delete"} :
             /\ mem[s] # Absent \/ s \in corrupt
             /\ OpIs(p, kind, s, None, "waiting", Absent)
      BY <2>3
    <3>2. \E o \in Ops : ops[o].session = s
      BY <3>1 DEF Lives
    <3> QED BY <1>3, <1>4, <3>1, <3>2 DEF OpAsked, OpIs
  <2> QED BY <1>4, <2>1, <2>2, <2>3 DEF OpAsked
<1>5. ASSUME NEW p \in Ops, NEW s \in Sessions, OpFounds(p, s) PROVE Numbered' /\ Parented'
  <2>1. CASE ops[p].kind = "create"
    BY <1>1, <1>5, <2>1 DEF OpFounds, OpIs
  <2>2. CASE ops[p].kind # "create"
    BY <1>0, <1>2, <1>5, <2>2 DEF OpFounds, OpIs, Formed
  <2> QED BY <2>1, <2>2
<1>6. ASSUME NEW p \in Ops, NEW s \in Sessions, OpRebinds(p, s) PROVE Numbered' /\ Parented'
  <2>1. ops[p].session = None
    BY <1>0, <1>6 DEF OpRebinds, Formed
  <2>2. \E o \in Ops : ops[o].session = s
    BY <1>6 DEF OpRebinds, Lives
  <2> QED BY <1>3, <1>6, <2>1, <2>2 DEF OpRebinds, OpIs
<1>7. ASSUME NEW p \in Ops, OpUpdates(p) PROVE Numbered' /\ Parented'
  BY <1>1, <1>7 DEF OpUpdates, OpIs
<1>8. ASSUME NEW p \in Ops, OpStops(p) \/ OpAbandoned(p) \/ OpQueues(p) \/ OpDeletes(p)
                              \/ OpRemoves(p) \/ OpKeeps(p) \/ OpThreads(p) \/ OpReplaces(p)
                              \/ OpCommits(p)
      PROVE Numbered' /\ Parented'
  BY <1>1, <1>8 DEF OpStops, OpAbandoned, OpQueues, OpDeletes, OpRemoves, OpKeeps, OpThreads,
     OpReplaces, OpCommits, OneOp
<1>9. CASE UNCHANGED vars \/ StoreCrashes \/ StoreStarts
           \/ \E s \in Sessions : StoreDamaged(s)
  BY <1>1, <1>9 DEF vars, StoreCrashes, StoreStarts, StoreDamaged
<1> QED
  BY <1>4, <1>5, <1>6, <1>7, <1>8, <1>9 DEF StoreMoves

\* Locks stay with those who write and delete.
LEMMA HoldingKept ==
    ASSUME Bounds, StoreTypes, \A p \in Ops : Holding(p), StoreMoves, TypeOK', NEW o \in Ops
    PROVE  Holding(o)'
<1>0. /\ TypeOK /\ Formed(o) /\ Holding(o) /\ o # None
      /\ ops[o].session # None => ops[o].session \in Sessions
  BY SessionsOf, StoreNumbers DEF StoreTypes
<1>1. CASE UNCHANGED vars
  BY <1>0, <1>1 DEF vars, Holding
<1>2. ASSUME NEW p \in Ops, OpAsked(p) PROVE Holding(o)'
  BY <1>0, <1>2 DEF OpAsked, OpIs, Holding, Writing
<1>3. ASSUME NEW p \in Ops, NEW s \in Sessions, OpFounds(p, s) \/ OpRebinds(p, s)
      PROVE Holding(o)'
  BY <1>0, <1>3 DEF OpFounds, OpRebinds, OpIs, Holding, Writing
<1>4. ASSUME NEW p \in Ops, OpUpdates(p) PROVE Holding(o)'
  BY <1>0, <1>4 DEF OpUpdates, OpIs, Holding, Writing, Formed, TypeOK
<1>5. ASSUME NEW p \in Ops, OpStops(p) \/ OpAbandoned(p) \/ OpRemoves(p) \/ OpKeeps(p)
             \/ OpCommits(p)
      PROVE Holding(o)'
  <2>1. /\ Released(p) /\ OneOp(p)
        /\ ops'[p].pc \in {"nothing", "failed", "strayed", "orphan", "done", "kept"}
    BY <1>5 DEF OpStops, OpAbandoned, OpRemoves, OpKeeps, OpCommits
  <2>2. /\ global # p => global' = global
        /\ \A s \in Sessions : locks[s] # p => locks'[s] = locks[s]
    BY <1>0, <2>1, LocksReleased
  <2>3. CASE o = p
    BY <2>1, <2>3 DEF Holding, Writing
  <2>4. CASE o # p
    BY <1>0, <2>1, <2>2, <2>4 DEF Holding, Writing, OneOp, Formed
  <2> QED BY <2>3, <2>4
<1>6. ASSUME NEW p \in Ops, OpQueues(p) PROVE Holding(o)'
  BY <1>0, <1>6 DEF OpQueues, OneOp, Holding, Writing
<1>7. ASSUME NEW p \in Ops, OpDeletes(p) PROVE Holding(o)'
  BY <1>0, <1>7 DEF OpDeletes, OneOp, Holding, Writing, Formed, TypeOK
<1>8. ASSUME NEW p \in Ops, OpThreads(p) \/ OpReplaces(p) PROVE Holding(o)'
  BY <1>0, <1>8 DEF OpThreads, OpReplaces, OneOp, Holding, Writing
<1>9. CASE StoreCrashes
  BY <1>0, <1>9 DEF StoreCrashes, InFlight, Holding, Writing
<1>10. CASE StoreStarts \/ \E s \in Sessions : StoreDamaged(s)
  BY <1>0, <1>10 DEF StoreStarts, StoreDamaged, Holding
<1> QED
  BY <1>1, <1>2, <1>3, <1>4, <1>5, <1>6, <1>7, <1>8, <1>9, <1>10 DEF StoreMoves

\* Two operations that write or delete the same Session without its lock or the
\* global lock of the other are one.
LEMMA Exclusive ==
    ASSUME \A p \in Ops : Holding(p) /\ Formed(p), NEW o \in Ops, NEW p \in Ops,
           ops[o].session = ops[p].session, ops[o].pc \in Writing,
           \/ ops[p].pc = "removing"
           \/ ops[p].pc \in Writing
              /\ (ops[p].kind = "update" <=> ops[o].kind = "update")
    PROVE  o = p
BY DEF Holding, Formed, Writing

\* A Session that is in memory or written has not been left by a deletion.
LEMMA NotLingering ==
    ASSUME Bounds, \A p \in Ops : Formed(p) /\ Standing(p) /\ NewSession(p), NEW s \in Sessions,
           mem[s] # Absent \/ \E o \in Ops : ops[o].session = s /\ ops[o].pc \in Writing
    PROVE  ~Lingers(s)
<1> SUFFICES ASSUME NEW d \in Ops, ops[d].session = s, ops[d].pc = "kept" PROVE FALSE
  BY DEF Lingers
<1>1. mem[s] = Absent /\ s # None
  BY StoreNumbers DEF Standing
<1>2. PICK o \in Ops : ops[o].session = s /\ ops[o].pc \in Writing
  BY <1>1
<1>3. ops[o].kind \in {"create", "bind"}
  BY <1>1, <1>2 DEF Formed, Standing
<1>4. o # d
  BY <1>2 DEF Writing
<1> QED
  BY <1>1, <1>2, <1>3, <1>4 DEF NewSession

\* What an operation changes or removes stays as it found it.
LEMMA StandingKept ==
    ASSUME Bounds, StoreTypes, \A p \in Ops : Holding(p) /\ Standing(p) /\ NewSession(p),
           \A s \in Sessions : Lives(s), StoreMoves, TypeOK', NEW o \in Ops
    PROVE  Standing(o)'
<1>0. /\ TypeOK /\ \A p \in Ops : Formed(p) /\ Holding(p) /\ Standing(p) /\ p # None
      /\ \A p \in Ops : NewSession(p)
      /\ \A p \in Ops : ops[p].session # None => ops[p].session \in Sessions
  BY SessionsOf, StoreNumbers DEF StoreTypes
<1> DEFINE Going(s) == \E d \in Ops : ops[d].session = s /\ ops[d].pc = "removing"
\* Deletions and what is written stay where only one other operation goes on.
<1>1. ASSUME NEW p \in Ops, \A q \in Ops \ {p} : ops'[q] = ops[q],
             ops[p].pc \notin {"done", "kept", "removing"}
      PROVE  \A s : (Deleted(s) => Deleted(s)') /\ (Going(s) => Going(s)')
                   /\ (Lingers(s) => Lingers(s)')
  BY <1>1 DEF Deleted, Lingers
<1>2. CASE UNCHANGED vars
  BY <1>0, <1>2 DEF vars, Standing, Deleted, Lingers
<1>3. ASSUME NEW p \in Ops, OpAsked(p) PROVE Standing(o)'
  <2>1. /\ \A q \in Ops \ {p} : ops'[q] = ops[q]
        /\ ops[p].pc = "idle" /\ ops'[p].pc = "waiting"
        /\ UNCHANGED <<mem, disk>>
    BY <1>0, <1>3 DEF OpAsked, OpIs, Formed
  <2> QED
    BY <1>0, <1>1, <2>1 DEF Standing, Writing
<1>4. ASSUME NEW p \in Ops,
             OpUpdates(p) \/ \E s \in Sessions : OpFounds(p, s) \/ OpRebinds(p, s)
      PROVE  Standing(o)'
  <2>1. /\ \A q \in Ops \ {p} : ops'[q] = ops[q]
        /\ ops[p].pc = "waiting" /\ ops'[p].pc = "writing"
        /\ ops'[p].kind \in {"update", "rebind"} => mem[ops'[p].session] # Absent
        /\ UNCHANGED <<mem, disk>>
    BY <1>4 DEF OpFounds, OpRebinds, OpUpdates, OpIs
  <2> QED
    BY <1>0, <1>1, <2>1 DEF Standing, Writing
<1>5. ASSUME NEW p \in Ops, OpStops(p) \/ OpAbandoned(p) \/ OpQueues(p) PROVE Standing(o)'
  <2>1. /\ \A q \in Ops \ {p} : ops'[q] = ops[q]
        /\ ops[p].pc \notin {"done", "kept", "removing"}
        /\ ops'[p].session = ops[p].session /\ ops'[p].kind = ops[p].kind
        /\ \/ ops'[p].pc \in {"nothing", "failed", "strayed", "locking"}
           \/ ops'[p].pc = "orphan" /\ ops[p].kind = "update" /\ ops[p].pc \in Writing
        /\ UNCHANGED <<mem, disk>>
    BY <1>5 DEF OpStops, OpAbandoned, OpQueues, OneOp, Writing
  <2> QED
    BY <1>0, <1>1, <2>1 DEF Standing, Writing
<1>6. ASSUME NEW p \in Ops, OpDeletes(p) PROVE Standing(o)'
  <2> DEFINE s == ops[p].session
  <2>1. /\ \A q \in Ops \ {p} : ops'[q] = ops[q]
        /\ ops[p].pc = "locking" /\ ops'[p].pc = "removing"
        /\ ops'[p].session = s /\ locks[s] = None
        /\ mem' = [mem EXCEPT ![s] = Absent] /\ UNCHANGED disk
    BY <1>6 DEF OpDeletes, OneOp
  <2>2. global = p /\ s \in Sessions
    BY <1>0, <2>1 DEF Holding, Formed
  <2>3. mem'[s] = Absent /\ \A t \in Sessions : t # s => mem'[t] = mem[t]
    BY <1>0, <2>1, <2>2 DEF TypeOK
  <2>4. CASE o = p
    BY <2>1, <2>3, <2>4 DEF Standing, Writing
  <2>5. CASE o # p /\ ops[o].session = s
    <3>1. ~(ops[o].pc \in Writing)
      BY <1>0, <2>1, <2>2, <2>5 DEF Holding
    <3>2. mem[s] # Absent => disk[s].file \in State
      BY <2>2 DEF Lives
    <3>3. Going(s)'
      BY <2>1
    <3> QED
      BY <1>0, <1>1, <2>1, <2>3, <2>5, <3>1, <3>2, <3>3 DEF Standing, Writing
  <2>6. CASE o # p /\ ops[o].session # s
    <3>1. ops[o].pc \in Writing \cup {"orphan", "removing", "kept"} =>
             ops[o].session \in Sessions
      BY <1>0 DEF Formed
    <3> QED
      BY <1>0, <1>1, <2>1, <2>3, <2>6, <3>1 DEF Standing, Writing
  <2> QED BY <2>4, <2>5, <2>6
<1>7. ASSUME NEW p \in Ops, OpRemoves(p) PROVE Standing(o)'
  <2> DEFINE s == ops[p].session
  <2>1. /\ \A q \in Ops \ {p} : ops'[q] = ops[q]
        /\ ops[p].pc = "removing" /\ ops'[p].pc = "done"
        /\ ops'[p].session = s /\ ops'[p].kind = ops[p].kind
        /\ FileIs(s, Absent) /\ UNCHANGED mem
    BY <1>7 DEF OpRemoves, OneOp
  <2>2. ops[p].kind = "delete" /\ s \in Sessions
    BY <1>0, <2>1 DEF Formed
  <2>3. Deleted(s)'
    BY <2>1, <2>2 DEF Deleted
  <2>4. \A t : (Deleted(t) => Deleted(t)') /\ (Lingers(t) => Lingers(t)')
    BY <2>1 DEF Deleted, Lingers
  <2>5. \A t : t # s /\ Going(t) => Going(t)'
    BY <2>1
  <2>6. CASE o = p
    BY <2>1, <2>6 DEF Standing, Writing
  <2>7. CASE o # p /\ ops[o].session = s
    <3>1. ~(ops[o].pc \in Writing)
      BY <1>0, <2>1, <2>7, Exclusive
    <3> QED
      BY <1>0, <2>1, <2>3, <2>7, <3>1 DEF Standing, Writing
  <2>8. CASE o # p /\ ops[o].session # s
    <3>1. ops[o].pc \in Writing \cup {"orphan"} => ops[o].session \in Sessions
      BY <1>0 DEF Formed
    <3> QED
      BY <1>0, <2>1, <2>4, <2>5, <2>8, <3>1 DEF Standing, Writing, FileIs
  <2> QED BY <2>6, <2>7, <2>8
<1>12. ASSUME NEW p \in Ops, OpKeeps(p) PROVE Standing(o)'
  <2> DEFINE s == ops[p].session
  <2>1. /\ \A q \in Ops \ {p} : ops'[q] = ops[q]
        /\ ops[p].pc = "removing" /\ ops'[p].pc = "kept"
        /\ ops'[p].session = s /\ ops'[p].kind = ops[p].kind
        /\ SameFiles /\ UNCHANGED mem
    BY <1>12 DEF OpKeeps, OneOp
  <2>2. ops[p].kind = "delete" /\ mem[s] = Absent
    BY <1>0, <2>1 DEF Formed, Standing
  <2>3. Lingers(s)'
    BY <2>1, <2>2 DEF Lingers
  <2>4. \A t : (Deleted(t) => Deleted(t)') /\ (Lingers(t) => Lingers(t)')
    BY <2>1 DEF Deleted, Lingers
  <2>5. \A t : t # s /\ Going(t) => Going(t)'
    BY <2>1
  <2>6. CASE o = p
    BY <2>1, <2>2, <2>6 DEF Standing, Writing
  <2>7. CASE o # p
    <3>1. ops[o].pc \in Writing \cup {"orphan"} => ops[o].session \in Sessions
      BY <1>0 DEF Formed
    <3> QED
      BY <1>0, <2>1, <2>3, <2>4, <2>5, <2>7, <3>1 DEF Standing, Writing, SameFiles
  <2> QED BY <2>6, <2>7
<1>8. ASSUME NEW p \in Ops, OpThreads(p) \/ OpReplaces(p) PROVE Standing(o)'
  <2>1. /\ \A q \in Ops \ {p} : ops'[q] = ops[q]
        /\ ops[p].pc \in {"writing", "replacing", "orphan"}
        /\ ops'[p].session = ops[p].session /\ ops'[p].kind = ops[p].kind
        /\ UNCHANGED mem
    BY <1>8 DEF OpThreads, OpReplaces, OneOp
  <2>2. ops[p].new \in State /\ ops[p].session \in Sessions
    BY <1>0, <2>1 DEF Formed, Writing
  <2>3. \A s \in Sessions : disk[s].file \in State => disk'[s].file \in State
    BY <1>8, <2>2 DEF OpThreads, OpReplaces, SameFiles, FileIs
  <2>4. ops[o].pc \in Writing \cup {"orphan"} => ops[o].session \in Sessions
    BY <1>0 DEF Formed
  <2>5. CASE o # p
    BY <1>0, <1>1, <2>1, <2>3, <2>4, <2>5 DEF Standing, Writing
  <2>6. CASE o = p /\ OpThreads(p)
    BY <1>0, <1>1, <2>1, <2>2, <2>3, <2>6 DEF Standing, Writing, OpThreads
  <2>7. CASE o = p /\ OpReplaces(p)
    BY <1>0, <1>1, <2>1, <2>2, <2>3, <2>7 DEF Standing, Writing, OpReplaces, FileIs
  <2> QED BY <1>8, <2>5, <2>6, <2>7
<1>9. ASSUME NEW p \in Ops, OpCommits(p) PROVE Standing(o)'
  <2> DEFINE s == ops[p].session
  <2>1. /\ \A q \in Ops \ {p} : ops'[q] = ops[q]
        /\ ops[p].pc = "written" /\ ops'[p].pc = "done"
        /\ mem' = [mem EXCEPT ![s] = ops[p].new] /\ UNCHANGED disk
    BY <1>9 DEF OpCommits, OneOp
  <2>2. ops[p].new \in State /\ s \in Sessions
    BY <1>0, <2>1 DEF Formed, Writing
  <2>3. /\ mem'[s] = ops[p].new /\ ops[p].new # Absent
        /\ \A t \in Sessions : t # s => mem'[t] = mem[t]
    BY <1>0, <2>1, <2>2, ContentsApart DEF TypeOK
  <2>4. ops[o].pc \in {"removing", "kept"} => ops[o].session # s
    <3>1. ops[o].pc = "removing" => ops[o].session # s
      BY <1>0, <2>1, Exclusive DEF Writing
    <3>2. ~Lingers(s)
      BY <1>0, <2>1, <2>2, NotLingering DEF Writing
    <3>3. ops[o].pc = "kept" => ops[o].kind = "delete"
      BY <1>0 DEF Formed
    <3> QED BY <3>1, <3>2, <3>3 DEF Lingers
  <2>5. ops[o].pc \in Writing \cup {"orphan", "removing", "kept"} =>
           ops[o].session \in Sessions
    BY <1>0 DEF Formed
  <2> QED
    BY <1>0, <1>1, <2>1, <2>3, <2>4, <2>5 DEF Standing, Writing
<1>10. CASE StoreCrashes
  BY <1>0, <1>10 DEF StoreCrashes, InFlight, Standing, Writing
<1>11. CASE StoreStarts \/ \E s \in Sessions : StoreDamaged(s)
  BY <1>0, <1>11 DEF StoreStarts, StoreDamaged, Standing, Writing, Formed
<1> QED
  BY <1>2, <1>3, <1>4, <1>5, <1>6, <1>7, <1>8, <1>9, <1>10, <1>11, <1>12
     DEF StoreMoves

\* A Session that is being made stays nobody else's.
LEMMA NewSessionKept ==
    ASSUME StoreTypes, Numbered, \A p \in Ops : NewSession(p),
           \A s \in Sessions : Lives(s), StoreMoves, TypeOK', NEW o \in Ops
    PROVE  NewSession(o)'
<1>0. /\ TypeOK /\ \A p \in Ops : Formed(p) /\ NewSession(p)
      /\ \A p \in Ops : ops[p].session # None => ops[p].session \in Sessions
  BY SessionsOf DEF StoreTypes
<1>1. ASSUME NEW s \in Sessions, Fresh(s)
      PROVE  /\ \A p \in Ops : ops[p].session # s
             /\ mem[s] = Absent /\ s \notin corrupt /\ disk[s].file = Absent
  BY <1>1, FreshIsNew DEF Lives
<1>2. CASE UNCHANGED vars
  BY <1>0, <1>2 DEF vars, NewSession
<1>3. ASSUME NEW p \in Ops, OpAsked(p) PROVE NewSession(o)'
  <2>1. /\ \A q \in Ops \ {p} : ops'[q] = ops[q]
        /\ UNCHANGED <<mem, corrupt, disk>>
    BY <1>3 DEF OpAsked, OpIs
  <2>2. CASE o = p
    BY <1>1, <1>3, <2>1, <2>2 DEF OpAsked, OpIs, NewSession, Writing
  <2>3. CASE o # p
    BY <1>0, <1>1, <1>3, <2>1, <2>3 DEF OpAsked, OpIs, NewSession
  <2> QED BY <2>2, <2>3
<1>4. ASSUME NEW p \in Ops, NEW s \in Sessions, OpFounds(p, s) PROVE NewSession(o)'
  <2>1. CASE ops[p].kind = "create"
    BY <1>0, <1>4, <2>1 DEF OpFounds, OpIs, NewSession, Writing
  <2>2. CASE ops[p].kind # "create" /\ o = p
    <3>1. /\ Fresh(s) /\ ops'[p].session = s
          /\ \A q \in Ops \ {p} : ops'[q] = ops[q]
          /\ UNCHANGED <<mem, corrupt, disk>>
      BY <1>4, <2>2 DEF OpFounds, OpIs
    <3> QED
      BY <1>1, <2>2, <3>1 DEF NewSession
  <2>3. CASE ops[p].kind # "create" /\ o # p
    BY <1>0, <1>1, <1>4, <2>3 DEF OpFounds, OpIs, NewSession, Writing
  <2> QED BY <2>1, <2>2, <2>3
<1>5. ASSUME NEW p \in Ops, NEW s \in Sessions, OpRebinds(p, s) PROVE NewSession(o)'
  <2>1. CASE o = p
    <3>1. ops'[p].kind = "rebind"
      BY <1>5 DEF OpRebinds, OpIs
    <3> QED
      BY <2>1, <3>1 DEF NewSession
  <2>2. CASE o # p
    BY <1>0, <1>5, <2>2 DEF OpRebinds, OpIs, NewSession
  <2> QED BY <2>1, <2>2
<1>6. ASSUME NEW p \in Ops, OpUpdates(p) PROVE NewSession(o)'
  BY <1>0, <1>6 DEF OpUpdates, OpIs, NewSession, Writing
<1>7. ASSUME NEW p \in Ops, OpStops(p) \/ OpAbandoned(p) \/ OpQueues(p) PROVE NewSession(o)'
  BY <1>0, <1>7 DEF OpStops, OpAbandoned, OpQueues, OneOp, NewSession, Writing
<1>8. ASSUME NEW p \in Ops, OpDeletes(p) \/ OpRemoves(p) \/ OpKeeps(p)
      PROVE NewSession(o)'
  BY <1>0, <1>8 DEF OpDeletes, OpRemoves, OpKeeps, OneOp, NewSession, Writing, FileIs,
     SameFiles, TypeOK
<1>9. ASSUME NEW p \in Ops, OpThreads(p) PROVE NewSession(o)'
  BY <1>0, <1>9 DEF OpThreads, OneOp, NewSession, Writing, SameFiles, Formed
<1>10. ASSUME NEW p \in Ops, OpReplaces(p) PROVE NewSession(o)'
  BY <1>0, <1>10 DEF OpReplaces, OneOp, NewSession, Writing, FileIs, Formed
<1>11. ASSUME NEW p \in Ops, OpCommits(p) PROVE NewSession(o)'
  BY <1>0, <1>11 DEF OpCommits, OneOp, NewSession, Writing, Formed, TypeOK
<1>12. CASE StoreCrashes
  BY <1>0, <1>12 DEF StoreCrashes, InFlight, NewSession, Writing
<1>13. CASE StoreStarts \/ \E s \in Sessions : StoreDamaged(s)
  BY <1>0, <1>13 DEF StoreStarts, StoreDamaged, NewSession, Writing, Formed
<1> QED
  BY <1>2, <1>3, <1>4, <1>5, <1>6, <1>7, <1>8, <1>9, <1>10, <1>11, <1>12, <1>13 DEF StoreMoves

\* What is in memory stays on disk, and nothing comes back by itself.
LEMMA LivesKept ==
    ASSUME Bounds, StoreTypes, \A p \in Ops : Holding(p) /\ Standing(p) /\ NewSession(p),
           \A t \in Sessions : Lives(t), StoreMoves, TypeOK', NEW s \in Sessions
    PROVE  Lives(s)'
<1>0. /\ TypeOK /\ \A p \in Ops : Formed(p) /\ Holding(p) /\ Standing(p) /\ NewSession(p)
      /\ \A p \in Ops : ops[p].session # None => ops[p].session \in Sessions
      /\ Lives(s) /\ s # None /\ \A p \in Ops : p # None
  BY SessionsOf, StoreNumbers DEF StoreTypes
<1> DEFINE Kept(t) == \E o \in Ops : global = o /\ ops[o].session = t
                                       /\ ops[o].kind # "update"
           Named(t) == \E o \in Ops : ops[o].session = t
           Wrote(t) == \E o \in Ops : ops[o].session = t /\ ops[o].pc \in Writing
           Revives(t) == Strayed(t) /\ Deleted(t)
\* One operation goes on, and has been neither done nor strayed.
<1>1. ASSUME NEW p \in Ops, \A q \in Ops \ {p} : ops'[q] = ops[q],
             ops'[p].session = ops[p].session
             \/ ops[p].session = None,
             ops[p].pc \notin {"done", "strayed", "kept"}
      PROVE  /\ Named(s) => Named(s)'
             /\ Revives(s) => Revives(s)'
             /\ Lingers(s) => Lingers(s)'
  BY <1>0, <1>1 DEF Deleted, Strayed, Lingers
<1>2. CASE UNCHANGED vars
  BY <1>0, <1>2 DEF vars, Lives, Possible, Strayed, Deleted, Lingers
<1>3. ASSUME NEW p \in Ops, OpAsked(p) PROVE Lives(s)'
  <2>1. /\ \A q \in Ops \ {p} : ops'[q] = ops[q]
        /\ ops[p].pc = "idle" /\ ops'[p].pc = "waiting" /\ ops[p].session = None
        /\ UNCHANGED <<up, mem, corrupt, disk, global>>
    BY <1>0, <1>3 DEF OpAsked, OpIs, Formed
  <2>2. (Wrote(s)' => Wrote(s)) /\ (Kept(s) => Kept(s)')
    BY <1>0, <2>1 DEF Writing
  <2> HIDE DEF Kept, Named, Wrote, Revives
  <2>3. (Named(s) => Named(s)') /\ (Revives(s) => Revives(s)') /\ (Lingers(s) => Lingers(s)')
    BY <1>1, <2>1
  <2> QED
    BY <1>0, <2>1, <2>2, <2>3 DEF Lives, Possible, Kept, Named, Wrote, Revives
<1>4. ASSUME NEW p \in Ops, NEW t \in Sessions, OpFounds(p, t) \/ OpRebinds(p, t)
      PROVE  Lives(s)'
  <2>1. /\ \A q \in Ops \ {p} : ops'[q] = ops[q]
        /\ ops[p].pc = "waiting" /\ ops[p].session \in {None, t}
        /\ ops'[p].session = t /\ ops'[p].kind # "update"
        /\ global = None /\ global' = p
        /\ UNCHANGED <<up, mem, corrupt, disk>>
    BY <1>0, <1>4 DEF OpFounds, OpRebinds, OpIs, Formed
  <2>2. (Named(s) => Named(s)') /\ (Revives(s) => Revives(s)') /\ (Lingers(s) => Lingers(s)')
    BY <1>1, <2>1
  <2>3. CASE s = t
    <3>1. Kept(s)'
      BY <2>1, <2>3
    <3> QED
      BY <1>0, <2>1, <2>2, <3>1 DEF Lives
  <2>4. CASE s # t
    <3>1. (Wrote(s)' => Wrote(s)) /\ ~Kept(s)
      BY <1>0, <2>1, <2>4 DEF Writing
    <3> HIDE DEF Kept, Named, Wrote, Revives
    <3> QED
      BY <1>0, <2>1, <2>2, <3>1 DEF Lives, Possible, Kept, Named, Wrote, Revives
  <2> QED BY <2>3, <2>4
<1>5. ASSUME NEW p \in Ops, OpUpdates(p) PROVE Lives(s)'
  <2>1. /\ \A q \in Ops \ {p} : ops'[q] = ops[q]
        /\ ops[p].pc = "waiting" /\ ops'[p].session = ops[p].session
        /\ ops[p].kind = "update"
        /\ mem[ops[p].session] # Absent
        /\ UNCHANGED <<up, mem, corrupt, disk, global>>
    BY <1>5 DEF OpUpdates, OpIs
  <2>2. (Named(s) => Named(s)') /\ (Revives(s) => Revives(s)') /\ (Lingers(s) => Lingers(s)')
    BY <1>1, <2>1
  <2>3. (ops[p].session # s /\ Wrote(s)' => Wrote(s)) /\ (Kept(s) => Kept(s)')
    BY <2>1
  <2> HIDE DEF Kept, Named, Wrote, Revives
  <2> QED
    BY <1>0, <2>1, <2>2, <2>3 DEF Lives, Possible, Kept, Named, Wrote, Revives
<1>6. ASSUME NEW p \in Ops, OpStops(p) \/ OpAbandoned(p) PROVE Lives(s)'
  <2>1. /\ \A q \in Ops \ {p} : ops'[q] = ops[q]
        /\ ops[p].pc \notin {"done", "strayed", "kept", "written"}
        /\ ops'[p].session = ops[p].session /\ ops'[p].kind = ops[p].kind
        /\ ops'[p].pc \notin Writing
        /\ ops[p].kind # "update" => ops[p].pc \in {"writing", "replacing"}
        /\ Released(p)
        /\ UNCHANGED <<up, mem, corrupt, disk>>
    BY <1>0, <1>6 DEF OpStops, OpAbandoned, OneOp, Writing, Formed
  <2>2. (Named(s) => Named(s)') /\ (Revives(s) => Revives(s)') /\ (Lingers(s) => Lingers(s)')
    BY <1>1, <2>1
  <2>3. Wrote(s)' => Wrote(s)
    BY <2>1
  <2>4. global # p => global' = global
    BY <1>0, <2>1, LocksReleased
  <2>5. Kept(s) /\ ~Kept(s)' => ops[p].session = s /\ ops[p].kind # "update"
    BY <2>1, <2>4
  <2>6. CASE ops[p].session = s /\ ops[p].kind # "update"
    <3>1. ops[p].pc \in {"writing", "replacing"}
      BY <2>1, <2>6
    <3>2. CASE ops[p].kind = "rebind"
      <4>1. mem[s] # Absent
        BY <1>0, <2>6, <3>1, <3>2 DEF Standing, Writing
      <4> QED
        BY <1>0, <2>1, <2>2, <4>1 DEF Lives
    <3>3. CASE ops[p].kind # "rebind"
      <4>1. ops[p].kind \in {"create", "bind"}
        BY <1>0, <2>6, <3>1, <3>3 DEF Formed, Writing
      <4>2. /\ \A q \in Ops \ {p} : ops[q].session # s
            /\ mem[s] = Absent /\ disk[s].file = Absent
        BY <1>0, <2>6, <3>1, <4>1 DEF NewSession, Writing
      <4>3. ~Wrote(s)'
        BY <2>1, <4>2
      <4> HIDE DEF Kept, Named, Wrote, Revives
      <4> QED
        BY <1>0, <2>1, <2>2, <4>2, <4>3, ContentsApart
           DEF Lives, Possible, Kept, Named, Wrote, Revives
    <3> QED BY <3>2, <3>3
  <2>7. CASE Kept(s) => Kept(s)'
    <3> HIDE DEF Kept, Named, Wrote, Revives
    <3> QED
      BY <1>0, <2>1, <2>2, <2>3, <2>7 DEF Lives, Possible, Kept, Named, Wrote, Revives
  <2> QED BY <2>5, <2>6, <2>7
<1>7. ASSUME NEW p \in Ops, OpQueues(p) PROVE Lives(s)'
  <2>1. /\ \A q \in Ops \ {p} : ops'[q] = ops[q]
        /\ ops[p].pc = "waiting" /\ ops'[p].pc = "locking"
        /\ ops'[p].session = ops[p].session
        /\ global = None
        /\ UNCHANGED <<up, mem, corrupt, disk>>
    BY <1>7 DEF OpQueues, OneOp
  <2>2. (Named(s) => Named(s)') /\ (Revives(s) => Revives(s)') /\ (Lingers(s) => Lingers(s)')
    BY <1>1, <2>1
  <2>3. (Wrote(s)' => Wrote(s)) /\ ~Kept(s)
    BY <1>0, <2>1 DEF Writing
  <2> HIDE DEF Kept, Named, Wrote, Revives
  <2> QED
    BY <1>0, <2>1, <2>2, <2>3 DEF Lives, Possible, Kept, Named, Wrote, Revives
<1>8. ASSUME NEW p \in Ops, OpDeletes(p) PROVE Lives(s)'
  <2>1. /\ \A q \in Ops \ {p} : ops'[q] = ops[q]
        /\ ops[p].pc = "locking" /\ ops'[p].pc = "removing"
        /\ ops'[p].session = ops[p].session /\ ops'[p].kind = ops[p].kind
        /\ mem' = [mem EXCEPT ![ops[p].session] = Absent]
        /\ UNCHANGED <<up, corrupt, disk, global>>
    BY <1>8 DEF OpDeletes, OneOp
  <2>2. global = p /\ ops[p].kind = "delete" /\ ops[p].session \in Sessions
    BY <1>0, <2>1 DEF Holding, Formed
  <2>3. (Named(s) => Named(s)') /\ (Revives(s) => Revives(s)') /\ (Lingers(s) => Lingers(s)')
    BY <1>1, <2>1
  <2>4. (Wrote(s)' => Wrote(s)) /\ (Kept(s) => Kept(s)')
        /\ (s = ops[p].session => Kept(s)')
    BY <2>1, <2>2 DEF Writing
  <2>5. /\ s # ops[p].session => mem'[s] = mem[s]
        /\ s = ops[p].session => mem'[s] = Absent
    BY <1>0, <2>1 DEF TypeOK
  <2> HIDE DEF Kept, Named, Wrote, Revives
  <2> QED
    BY <1>0, <2>1, <2>3, <2>4, <2>5 DEF Lives, Possible, Kept, Named, Wrote, Revives
<1>9. ASSUME NEW p \in Ops, OpRemoves(p) PROVE Lives(s)'
  <2>1. /\ \A q \in Ops \ {p} : ops'[q] = ops[q]
        /\ ops[p].pc = "removing" /\ ops'[p].pc = "done"
        /\ ops'[p].session = ops[p].session
        /\ FileIs(ops[p].session, Absent)
        /\ UNCHANGED <<up, mem, corrupt>>
    BY <1>9 DEF OpRemoves, OneOp
  <2>2. /\ global = p /\ ops[p].session \in Sessions
        /\ mem[ops[p].session] = Absent
    BY <1>0, <2>1 DEF Holding, Formed, Standing
  <2>3. (Named(s) => Named(s)') /\ (Revives(s) => Revives(s)') /\ (Lingers(s) => Lingers(s)')
        /\ (Wrote(s)' => Wrote(s))
    BY <1>1, <2>1 DEF Writing
  <2>4. CASE s = ops[p].session
    <3>1. ~Wrote(s)
      BY <1>0, <2>1, <2>4, Exclusive DEF Writing
    <3>2. disk'[s].file = Absent
      BY <2>1, <2>4 DEF FileIs
    <3> HIDE DEF Kept, Named, Wrote, Revives
    <3> QED
      BY <1>0, <2>1, <2>2, <2>3, <2>4, <3>1, <3>2, ContentsApart
         DEF Lives, Possible, Kept, Named, Wrote, Revives
  <2>5. CASE s # ops[p].session
    <3>1. ~Kept(s)
      BY <2>2, <2>5
    <3>2. disk'[s].file = disk[s].file
      BY <2>1, <2>5 DEF FileIs
    <3> HIDE DEF Kept, Named, Wrote, Revives
    <3> QED
      BY <1>0, <2>1, <2>3, <3>1, <3>2 DEF Lives, Possible, Kept, Named, Wrote, Revives
  <2> QED BY <2>4, <2>5
<1>15. ASSUME NEW p \in Ops, OpKeeps(p) PROVE Lives(s)'
  <2>1. /\ \A q \in Ops \ {p} : ops'[q] = ops[q]
        /\ ops[p].pc = "removing" /\ ops'[p].pc = "kept"
        /\ ops'[p].session = ops[p].session /\ ops'[p].kind = ops[p].kind
        /\ disk'[s].file = disk[s].file
        /\ UNCHANGED <<up, mem, corrupt>>
    BY <1>15 DEF OpKeeps, OneOp, SameFiles
  <2>2. global = p /\ ops[p].kind = "delete"
    BY <1>0, <2>1 DEF Holding, Formed
  <2>3. (Named(s) => Named(s)') /\ (Revives(s) => Revives(s)') /\ (Lingers(s) => Lingers(s)')
        /\ (Wrote(s)' => Wrote(s))
    BY <1>1, <2>1 DEF Writing
  <2>4. CASE s = ops[p].session
    <3>1. Lingers(s)'
      BY <2>1, <2>2, <2>4 DEF Lingers
    <3> HIDE DEF Kept, Named, Wrote, Revives
    <3> QED
      BY <1>0, <2>1, <2>3, <3>1 DEF Lives, Possible, Named
  <2>5. CASE s # ops[p].session
    <3>1. ~Kept(s)
      BY <2>2, <2>5
    <3> HIDE DEF Kept, Named, Wrote, Revives
    <3> QED
      BY <1>0, <2>1, <2>3, <3>1 DEF Lives, Possible, Kept, Named, Wrote, Revives
  <2> QED BY <2>4, <2>5
<1>10. ASSUME NEW p \in Ops, OpThreads(p) \/ OpReplaces(p) PROVE Lives(s)'
  <2>1. /\ \A q \in Ops \ {p} : ops'[q] = ops[q]
        /\ ops[p].pc \in {"writing", "replacing", "orphan"}
        /\ ops[p].pc = "orphan" => ops'[p].pc \in {"orphan", "strayed"}
        /\ ops'[p].session = ops[p].session /\ ops'[p].kind = ops[p].kind
        /\ up /\ UNCHANGED <<up, mem, corrupt, global>>
    BY <1>10 DEF OpThreads, OpReplaces, OneOp
  <2>2. ops[p].new \in State /\ ops[p].session \in Sessions
    BY <1>0, <2>1 DEF Formed, Writing
  <2>3. /\ Named(s) => Named(s)'
        /\ Revives(s) => Revives(s)'
        /\ Lingers(s) => Lingers(s)'
        /\ Kept(s) => Kept(s)'
        /\ Wrote(s)' => Wrote(s)
    BY <1>1, <2>1 DEF Writing
  <2>4. CASE OpThreads(p) \/ s # ops[p].session
    <3>1. disk'[s].file = disk[s].file
      BY <1>10, <2>4 DEF OpThreads, OpReplaces, SameFiles, FileIs
    <3> HIDE DEF Kept, Named, Wrote, Revives
    <3> QED
      BY <1>0, <2>1, <2>3, <3>1 DEF Lives, Possible, Kept, Named, Wrote, Revives
  <2>5. CASE OpReplaces(p) /\ s = ops[p].session
    <3>1. disk'[s].file \in State
      BY <2>2, <2>5 DEF OpReplaces, FileIs
    <3>2. Named(s)'
      BY <2>1, <2>5
    <3>3. CASE mem[s] # Absent
      BY <1>0, <2>1, <3>1, <3>2, <3>3 DEF Lives
    <3>4. CASE mem[s] = Absent /\ ops[p].pc = "orphan"
      <4>1. \/ Deleted(s) \/ Lingers(s)
            \/ \E d \in Ops : ops[d].session = s /\ ops[d].pc = "removing"
        BY <1>0, <2>5, <3>4 DEF Standing
      <4>2. CASE Deleted(s)
        <5>1. Strayed(s)' /\ Deleted(s)'
          BY <2>1, <2>5, <3>4, <4>2 DEF OpReplaces, Strayed, Deleted
        <5> QED
          BY <1>0, <2>1, <3>1, <3>2, <3>4, <5>1 DEF Lives
      <4>3. CASE \E d \in Ops : ops[d].session = s /\ ops[d].pc = "removing"
        <5>1. Kept(s)'
          BY <1>0, <2>1, <4>3 DEF Holding, Formed
        <5> QED
          BY <1>0, <2>1, <3>1, <3>2, <3>4, <5>1 DEF Lives
      <4>4. CASE Lingers(s)
        BY <1>0, <2>1, <2>3, <3>1, <3>2, <3>4, <4>4 DEF Lives, Possible
      <4> QED BY <4>1, <4>2, <4>3, <4>4
    <3>5. CASE Lingers(s)
      BY <1>0, <2>1, <2>3, <3>1, <3>2, <3>3, <3>5 DEF Lives, Possible
    <3>6. CASE mem[s] = Absent /\ ops[p].pc # "orphan" /\ ~Lingers(s)
      <4>1. Possible(s)
        BY <2>1, <2>5, <3>6 DEF Possible, Writing
      <4>2. Kept(s) \/ Revives(s)
        BY <1>0, <2>1, <3>6, <4>1 DEF Lives
      <4>3. Kept(s)' \/ Revives(s)'
        BY <2>3, <4>2
      <4> QED
        BY <1>0, <2>1, <3>1, <3>2, <3>6, <4>3 DEF Lives
    <3> QED BY <3>3, <3>4, <3>5, <3>6
  <2> QED BY <1>10, <2>4, <2>5
<1>11. ASSUME NEW p \in Ops, OpCommits(p) PROVE Lives(s)'
  <2>1. /\ \A q \in Ops \ {p} : ops'[q] = ops[q]
        /\ ops[p].pc = "written" /\ ops'[p].pc = "done"
        /\ ops'[p].session = ops[p].session
        /\ mem' = [mem EXCEPT ![ops[p].session] = ops[p].new]
        /\ Released(p) /\ up /\ UNCHANGED <<up, corrupt, disk>>
    BY <1>11 DEF OpCommits, OneOp
  <2>2. /\ ops[p].new \in State /\ ops[p].session \in Sessions
        /\ disk[ops[p].session].file \in State
    BY <1>0, <2>1 DEF Formed, Writing, Standing
  <2>3. (Named(s) => Named(s)') /\ (Revives(s) => Revives(s)') /\ (Lingers(s) => Lingers(s)')
        /\ (Wrote(s)' => Wrote(s))
    BY <1>1, <2>1 DEF Writing
  <2>4. CASE s = ops[p].session
    <3>1. mem'[s] # Absent /\ Named(s)
      BY <1>0, <2>1, <2>2, <2>4, ContentsApart DEF TypeOK
    <3> HIDE DEF Kept, Named, Wrote, Revives
    <3> QED
      BY <1>0, <2>1, <2>2, <2>3, <2>4, <3>1 DEF Lives, Named
  <2>5. CASE s # ops[p].session
    <3>1. mem'[s] = mem[s]
      BY <1>0, <2>1, <2>5 DEF TypeOK
    <3>2. global # p => global' = global
      BY <1>0, <2>1, LocksReleased
    <3>3. Kept(s) => Kept(s)'
      BY <2>1, <2>5, <3>2
    <3> HIDE DEF Kept, Named, Wrote, Revives
    <3> QED
      BY <1>0, <2>1, <2>3, <3>1, <3>3 DEF Lives, Possible, Kept, Named, Wrote, Revives
  <2> QED BY <2>4, <2>5
<1>12. CASE StoreCrashes
  BY <1>0, <1>12 DEF StoreCrashes, Lives
<1>13. CASE StoreStarts
  <2>1. \A o \in Ops : ops'[o].pc \notin Writing
    BY <1>0, <1>13 DEF StoreStarts, Formed
  <2>2. /\ mem'[s] # Absent => disk[s].file \in State
        /\ mem'[s] = Absent => disk[s].file \notin State
        /\ s \in corrupt' => disk[s].file = Broken
        /\ disk[s].file \in State \cup {Absent} => disk'[s].file = disk[s].file
        /\ disk[s].file = Broken => disk'[s].file \in {Absent, Broken}
        /\ disk[s].file \in State \cup {Absent, Broken}
    BY <1>0, <1>13, ContentsApart DEF StoreStarts, TypeOK, Directory
  <2>3. (\E o \in Ops : ops[o].session = s) => Named(s)'
    BY <1>13 DEF StoreStarts
  <2>4. up'
    BY <1>13 DEF StoreStarts
  <2> QED
    BY <1>0, <2>1, <2>2, <2>3, <2>4, ContentsApart DEF Lives, Possible
<1>14. ASSUME NEW t \in Sessions, StoreDamaged(t) PROVE Lives(s)'
  BY <1>0, <1>14, ContentsApart DEF StoreDamaged, FileIs, Lives
<1> QED
  BY <1>2, <1>3, <1>4, <1>5, <1>6, <1>7, <1>8, <1>9, <1>10, <1>11, <1>12, <1>13, <1>14,
     <1>15 DEF StoreMoves

\* A Session stays with its conversation.
LEMMA KeyedKept ==
    ASSUME Bounds, StoreTypes, Numbered, \A p \in Ops : NewSession(p) /\ Keyed(p),
           \A t \in Sessions : Lives(t), StoreMoves, TypeOK', NEW b \in Ops
    PROVE  Keyed(b)'
<1>0. /\ TypeOK /\ \A p \in Ops : Formed(p) /\ NewSession(p) /\ Keyed(p)
      /\ \A p \in Ops : ops[p].session # None => ops[p].session \in Sessions
      /\ \A p \in Ops : ops'[p].session # None => ops'[p].session \in Sessions
  <2>1. \A p \in Ops : ops'[p] \in Operation
    BY DEF TypeOK
  <2> QED
    BY <2>1, SessionsOf DEF StoreTypes, Operation
\* Nothing has been written for a Session that nobody has named.
<1>1. ASSUME NEW s \in Sessions, Fresh(s)
      PROVE  /\ \A p \in Ops : ops[p].session # s
             /\ mem[s] = Absent /\ disk[s].file \notin State
  BY <1>1, FreshIsNew, ContentsApart DEF Lives
<1>2. CASE UNCHANGED vars
  BY <1>0, <1>2 DEF vars, Keyed
<1>3. ASSUME NEW p \in Ops, OpAsked(p) PROVE Keyed(b)'
  <2>1. /\ \A q \in Ops \ {p} : ops'[q] = ops[q]
        /\ ops'[p].pc = "waiting" /\ UNCHANGED <<mem, disk>>
    BY <1>3 DEF OpAsked, OpIs
  <2>2. CASE b = p
    <3>1. ops'[p].kind \in {"create", "bind"} /\ ops'[p].session # None =>
             ops'[p].session \in Sessions /\ Fresh(ops'[p].session)
      BY <1>3, StoreNumbers DEF OpAsked, OpIs
    <3> QED
      BY <1>1, <2>1, <2>2, <3>1 DEF Keyed, Writing
  <2>3. CASE b # p
    BY <1>0, <2>1, <2>3 DEF Keyed, Writing
  <2> QED BY <2>2, <2>3
<1>4. ASSUME NEW p \in Ops, NEW t \in Sessions, OpFounds(p, t) PROVE Keyed(b)'
  <2>1. /\ \A q \in Ops \ {p} : ops'[q] = ops[q]
        /\ ops'[p].session = t /\ ops'[p].new.key = ops'[p].key
        /\ UNCHANGED <<mem, disk>>
    BY <1>4 DEF OpFounds, OpIs
  <2>2. /\ \A q \in Ops \ {p} : ops[q].session # t
        /\ mem[t] = Absent /\ disk[t].file \notin State
    <3>1. CASE ops[p].kind = "create"
      BY <1>0, <1>4, <3>1, ContentsApart, StoreNumbers DEF OpFounds, NewSession, Writing
    <3>2. CASE ops[p].kind # "create"
      BY <1>1, <1>4, <3>2 DEF OpFounds
    <3> QED BY <3>1, <3>2
  <2>3. CASE b = p
    BY <2>1, <2>2, <2>3 DEF Keyed
  <2>4. CASE b # p
    <3>1. ops'[b] = ops[b] /\ ops[b].session # t
      BY <2>1, <2>2, <2>4
    <3>2. \A o \in Ops : ops'[o].session = ops[b].session =>
             ops'[o] = ops[o]
      BY <2>1, <3>1
    <3> QED
      BY <1>0, <2>1, <3>1, <3>2 DEF Keyed
  <2> QED BY <2>3, <2>4
<1>5. ASSUME NEW p \in Ops,
             OpUpdates(p) \/ \E t \in Sessions : OpRebinds(p, t) PROVE Keyed(b)'
  <2>1. PICK t \in Sessions :
           /\ \A q \in Ops \ {p} : ops'[q] = ops[q]
           /\ ops'[p].session = t /\ ops'[p].kind \in {"update", "rebind"}
           /\ mem[t] # Absent
           /\ ops'[p].new = [mem[t] EXCEPT !.marks = @ \cup {p}]
           /\ UNCHANGED <<mem, disk>>
    <3>1. CASE OpUpdates(p)
      <4>1. ops[p].session \in Sessions
        BY <1>0, <3>1 DEF OpUpdates, Formed
      <4> QED BY <3>1, <4>1 DEF OpUpdates, OpIs
    <3>2. CASE \E t \in Sessions : OpRebinds(p, t)
      BY <3>2 DEF OpRebinds, OpIs
    <3> QED BY <1>5, <3>1, <3>2
  <2>2. ops'[p].new.key = mem[t].key
    BY <1>0, <2>1, NewContent
  <2>3. CASE b = p
    BY <2>1, <2>3 DEF Keyed
  <2>4. CASE b # p
    <3>1. ops'[b] = ops[b] /\ UNCHANGED <<mem, disk>>
      BY <2>1, <2>4
    <3>2. ASSUME NEW o \in Ops, ops[b].kind \in {"create", "bind"},
                 ops[b].session # None, ops'[o].session = ops[b].session,
                 ops'[o].pc \in Writing \cup {"orphan"}
          PROVE  ops'[o].new.key = ops[b].key
      <4>1. CASE o = p
        <5>1. ops[b].session = t /\ mem[t] # Absent
          BY <2>1, <3>2, <4>1
        <5> QED
          BY <1>0, <2>2, <3>2, <4>1, <5>1 DEF Keyed
      <4>2. CASE o # p
        <5>1. ops'[o] = ops[o]
          BY <2>1, <4>2
        <5> QED
          BY <1>0, <3>2, <5>1 DEF Keyed
      <4> QED BY <4>1, <4>2
    <3> QED
      BY <1>0, <3>1, <3>2 DEF Keyed
  <2> QED BY <2>3, <2>4
<1>6. ASSUME NEW p \in Ops, OpStops(p) \/ OpAbandoned(p) \/ OpQueues(p) \/ OpThreads(p)
      PROVE  Keyed(b)'
  <2>1. /\ \A q \in Ops \ {p} : ops'[q] = ops[q]
        /\ ops'[p].kind = ops[p].kind /\ ops'[p].session = ops[p].session
        /\ ops'[p].key = ops[p].key
        /\ ops'[p].pc \in Writing \cup {"orphan"} =>
              ops'[p].new = ops[p].new /\ ops[p].pc \in Writing \cup {"orphan"}
        /\ UNCHANGED mem
        /\ \A s \in Sessions : disk'[s].file = disk[s].file
    BY <1>6 DEF OpStops, OpAbandoned, OpQueues, OpThreads, OneOp, SameFiles, Writing
  <2> QED
    BY <1>0, <2>1 DEF Keyed
<1>7. ASSUME NEW p \in Ops, OpDeletes(p) \/ OpRemoves(p) \/ OpKeeps(p) PROVE Keyed(b)'
  <2>1. /\ \A q \in Ops \ {p} : ops'[q] = ops[q]
        /\ ops'[p].kind = ops[p].kind /\ ops'[p].session = ops[p].session
        /\ ops'[p].key = ops[p].key
        /\ ops'[p].pc \notin Writing \cup {"orphan"}
    BY <1>7 DEF OpDeletes, OpRemoves, OpKeeps, OneOp, Writing
  <2>2. \A s \in Sessions : mem'[s] \in {mem[s], Absent}
                              /\ disk'[s].file \in {disk[s].file, Absent}
    BY <1>0, <1>7 DEF OpDeletes, OpRemoves, OpKeeps, FileIs, SameFiles, TypeOK
  <2> QED
    BY <1>0, <2>1, <2>2, ContentsApart DEF Keyed
<1>8. ASSUME NEW p \in Ops, OpReplaces(p) \/ OpCommits(p) PROVE Keyed(b)'
  <2>1. /\ \A q \in Ops \ {p} : ops'[q] = ops[q]
        /\ ops'[p].kind = ops[p].kind /\ ops'[p].session = ops[p].session
        /\ ops'[p].key = ops[p].key
        /\ ops[p].pc \in Writing \cup {"orphan"}
        /\ ops'[p].pc \in Writing \cup {"orphan"} => ops'[p].new = ops[p].new
    BY <1>8 DEF OpReplaces, OpCommits, OneOp, Writing
  <2>2. ops[p].session \in Sessions
    BY <1>0, <2>1 DEF Formed
  <2>3. \A s \in Sessions :
           /\ mem'[s] = mem[s]
              \/ (s = ops[p].session /\ mem'[s] = ops[p].new)
           /\ disk'[s].file = disk[s].file
              \/ (s = ops[p].session /\ disk'[s].file = ops[p].new)
    BY <1>0, <1>8, <2>2 DEF OpReplaces, OpCommits, FileIs, TypeOK
  <2>4. \A o \in Ops :
           /\ ops'[o].kind = ops[o].kind /\ ops'[o].key = ops[o].key
           /\ ops'[o].session = ops[o].session
           /\ ops'[o].pc \in Writing \cup {"orphan"} =>
                 ops'[o].new = ops[o].new /\ ops[o].pc \in Writing \cup {"orphan"}
    BY <2>1
  <2>5. ops[b].kind \in {"create", "bind"} /\ ops[b].session = ops[p].session
        /\ ops[b].session # None => ops[p].new.key = ops[b].key
    BY <1>0, <2>1 DEF Keyed
  <2>6. ops[b].kind \in {"create", "bind"} /\ ops[b].session # None =>
           /\ mem'[ops[b].session] # Absent =>
                 mem'[ops[b].session].key = ops[b].key
           /\ disk'[ops[b].session].file \in State =>
                 disk'[ops[b].session].file.key = ops[b].key
    BY <1>0, <2>3, <2>5 DEF Keyed
  <2> QED
    BY <1>0, <2>4, <2>6 DEF Keyed
<1>9. CASE StoreCrashes
  BY <1>0, <1>9 DEF StoreCrashes, InFlight, Keyed, Writing
<1>10. CASE StoreStarts
  <2>1. \A s \in Sessions :
           /\ mem'[s] # Absent => mem'[s] = disk[s].file /\ disk[s].file \in State
           /\ disk'[s].file \in State => disk'[s].file = disk[s].file
    BY <1>0, <1>10, ContentsApart DEF StoreStarts, TypeOK, Directory
  <2> QED
    BY <1>0, <1>10, <2>1 DEF StoreStarts, Keyed
<1>11. ASSUME NEW t \in Sessions, StoreDamaged(t) PROVE Keyed(b)'
  BY <1>0, <1>11, ContentsApart DEF StoreDamaged, FileIs, Keyed
<1> QED
  BY <1>2, <1>3, <1>4, <1>5, <1>6, <1>7, <1>8, <1>9, <1>10, <1>11 DEF StoreMoves

\* What an operation is on stays, and so does the end of one.
LEMMA OpStays ==
    ASSUME StoreTypes, StoreMoves, NEW x \in Ops, ops[x].session # None
    PROVE  /\ ops'[x].kind = ops[x].kind /\ ops'[x].key = ops[x].key
           /\ ops'[x].session = ops[x].session
           /\ ops[x].pc \in {"done", "strayed", "undone"} => ops'[x].pc = ops[x].pc
           /\ ops[x].pc = "kept" => ops'[x].pc \in {"kept", "undone"}
<1>0. Formed(x)
  BY DEF StoreTypes
<1> DEFINE Same == /\ ops'[x].kind = ops[x].kind /\ ops'[x].key = ops[x].key
                   /\ ops'[x].session = ops[x].session
                   /\ ops[x].pc \in {"done", "strayed", "undone"} => ops'[x].pc = ops[x].pc
                   /\ ops[x].pc = "kept" => ops'[x].pc \in {"kept", "undone"}
<1>1. ASSUME NEW p \in Ops, OpAsked(p) PROVE Same
  <2>1. p # x /\ \A q \in Ops \ {p} : ops'[q] = ops[q]
    BY <1>1 DEF OpAsked, OpIs
  <2> QED BY <2>1
<1>2. ASSUME NEW p \in Ops, NEW s \in Sessions, OpFounds(p, s) PROVE Same
  BY <1>0, <1>2 DEF OpFounds, OpIs, Formed
<1>3. ASSUME NEW p \in Ops, NEW s \in Sessions, OpRebinds(p, s) PROVE Same
  <2>1. p # x /\ \A q \in Ops \ {p} : ops'[q] = ops[q]
    BY <1>0, <1>3 DEF OpRebinds, OpIs, Formed
  <2> QED BY <2>1
<1>4. ASSUME NEW p \in Ops, OpUpdates(p) PROVE Same
  <2>1. /\ \A q \in Ops \ {p} : ops'[q] = ops[q]
        /\ ops'[p].kind = ops[p].kind /\ ops'[p].key = ops[p].key
        /\ ops'[p].session = ops[p].session /\ ops[p].pc = "waiting"
    BY <1>4 DEF OpUpdates, OpIs
  <2> QED BY <2>1
<1>5. ASSUME NEW p \in Ops, OpStops(p) \/ OpAbandoned(p) \/ OpQueues(p) \/ OpDeletes(p)
                               \/ OpRemoves(p) \/ OpKeeps(p) \/ OpThreads(p) \/ OpReplaces(p)
                               \/ OpCommits(p)
      PROVE Same
  BY <1>5 DEF OpStops, OpAbandoned, OpQueues, OpDeletes, OpRemoves, OpKeeps, OpThreads,
     OpReplaces, OpCommits, OneOp, Writing
<1>6. CASE UNCHANGED vars \/ StoreCrashes \/ StoreStarts
           \/ \E s \in Sessions : StoreDamaged(s)
  BY <1>6 DEF vars, StoreCrashes, StoreStarts, StoreDamaged, InFlight
<1> QED
  BY <1>1, <1>2, <1>3, <1>4, <1>5, <1>6 DEF StoreMoves

\* What has revived a Session stays.
LEMMA RevivedKept ==
    ASSUME StoreTypes, StoreMoves, NEW k, Revived(k) PROVE Revived(k)'
<1>1. PICK o \in Ops, d \in Ops :
        /\ ops[o].kind = "bind" /\ ops[o].key = k /\ ops[o].session # None
        /\ ops[d].kind = "delete" /\ ops[d].session = ops[o].session
        /\ \/ ops[d].pc = "undone"
           \/ /\ ops[d].pc = "done"
              /\ \E u \in Ops : ops[u].pc = "strayed" /\ ops[u].session = ops[o].session
  BY DEF Revived
<1>2. CASE ops[d].pc = "undone"
  BY <1>1, <1>2, OpStays DEF Revived
<1>3. CASE ops[d].pc = "done"
  <2>1. PICK u \in Ops : ops[u].pc = "strayed" /\ ops[u].session = ops[o].session
    BY <1>1, <1>3
  <2> QED
    BY <1>1, <1>3, <2>1, OpStays DEF Revived
<1> QED
  BY <1>1, <1>2, <1>3

\* A Session that may be there was so before, is being made, or has been revived.
LEMMA PossibleKept ==
    ASSUME Bounds, StoreTypes, \A p \in Ops : Standing(p), StoreMoves, TypeOK',
           NEW s \in Sessions, Possible(s)'
    PROVE  \/ Possible(s)
           \/ \E p \in Ops : OpFounds(p, s)
           \/ Returned(s)'
<1>0. /\ TypeOK /\ \A p \in Ops : Formed(p) /\ Standing(p)
      /\ \A p \in Ops : ops[p].session # None => ops[p].session \in Sessions
      /\ s # None
  BY SessionsOf, StoreNumbers DEF StoreTypes
<1>00. Lingers(s) => Returned(s)'
  <2> SUFFICES ASSUME Lingers(s) PROVE Returned(s)'
    OBVIOUS
  <2>1. PICK d \in Ops : ops[d].session = s /\ ops[d].kind = "delete" /\ ops[d].pc = "kept"
    BY DEF Lingers
  <2>2. /\ ops'[d].session = s /\ ops'[d].kind = "delete"
        /\ ops'[d].pc \in {"kept", "undone"}
    BY <1>0, <2>1, OpStays
  <2>3. ops'[d].pc # "kept"
    BY <2>2 DEF Possible, Lingers
  <2> QED
    BY <2>2, <2>3 DEF Returned
<1> SUFFICES ASSUME ~Lingers(s)
             PROVE  \/ Possible(s)
                    \/ \E p \in Ops : OpFounds(p, s)
                    \/ Returned(s)'
  BY <1>00
<1>1. CASE UNCHANGED vars
  BY <1>1 DEF vars, Possible
<1>2. ASSUME NEW p \in Ops, OpAsked(p) PROVE Possible(s)
  BY <1>2 DEF OpAsked, OpIs, Possible, Writing
<1>3. ASSUME NEW p \in Ops, NEW t \in Sessions, OpFounds(p, t) PROVE Possible(s) \/ s = t
  BY <1>3 DEF OpFounds, OpIs, Possible
<1>4. ASSUME NEW p \in Ops, NEW t \in Sessions, OpRebinds(p, t) PROVE Possible(s)
  <2>1. /\ \A q \in Ops \ {p} : ops'[q] = ops[q]
        /\ ops'[p].session = t /\ mem[t] # Absent
        /\ UNCHANGED <<mem, disk>>
    BY <1>4 DEF OpRebinds, OpIs
  <2> QED BY <2>1 DEF Possible
<1>5. ASSUME NEW p \in Ops, OpUpdates(p) PROVE Possible(s)
  <2>1. /\ \A q \in Ops \ {p} : ops'[q] = ops[q]
        /\ ops'[p].session = ops[p].session
        /\ mem[ops[p].session] # Absent
        /\ UNCHANGED <<mem, disk>>
    BY <1>5 DEF OpUpdates, OpIs
  <2> QED BY <2>1 DEF Possible
<1>6. ASSUME NEW p \in Ops, OpStops(p) \/ OpAbandoned(p) \/ OpQueues(p) \/ OpThreads(p)
      PROVE  Possible(s)
  <2>1. /\ \A q \in Ops \ {p} : ops'[q] = ops[q]
        /\ ops'[p].session = ops[p].session
        /\ ops'[p].pc \in Writing => ops[p].pc \in Writing
        /\ UNCHANGED mem /\ disk'[s].file = disk[s].file
    BY <1>6 DEF OpStops, OpAbandoned, OpQueues, OpThreads, OneOp, SameFiles, Writing
  <2> QED BY <2>1 DEF Possible
<1>7. ASSUME NEW p \in Ops, OpDeletes(p) \/ OpRemoves(p) PROVE Possible(s)
  <2>1. /\ \A q \in Ops \ {p} : ops'[q] = ops[q]
        /\ ops'[p].pc \notin Writing
        /\ mem'[s] \in {mem[s], Absent}
        /\ disk'[s].file \in {disk[s].file, Absent}
    BY <1>0, <1>7 DEF OpDeletes, OpRemoves, OneOp, FileIs, Writing, TypeOK
  <2> QED BY <2>1, ContentsApart DEF Possible
<1>13. ASSUME NEW p \in Ops, OpKeeps(p) PROVE Possible(s)
  <2>1. /\ \A q \in Ops \ {p} : ops'[q] = ops[q]
        /\ ops'[p].pc \notin Writing
        /\ UNCHANGED mem /\ disk'[s].file = disk[s].file
    BY <1>13 DEF OpKeeps, OneOp, SameFiles, Writing
  <2> QED BY <2>1 DEF Possible
<1>8. ASSUME NEW p \in Ops, OpCommits(p) PROVE Possible(s)
  <2>1. /\ \A q \in Ops \ {p} : ops'[q] = ops[q]
        /\ ops[p].pc = "written" /\ ops'[p].pc = "done" /\ UNCHANGED disk
        /\ mem' = [mem EXCEPT ![ops[p].session] = ops[p].new]
    BY <1>8 DEF OpCommits, OneOp
  <2>2. s # ops[p].session => mem'[s] = mem[s]
    BY <1>0, <2>1 DEF TypeOK
  <2> QED BY <2>1, <2>2 DEF Possible, Writing
<1>9. ASSUME NEW p \in Ops, OpReplaces(p) PROVE Possible(s) \/ Returned(s)'
  <2>1. /\ \A q \in Ops \ {p} : ops'[q] = ops[q]
        /\ ops'[p].session = ops[p].session
        /\ ops[p].pc \in {"replacing", "orphan"}
        /\ ops'[p].pc = IF ops[p].pc = "orphan" THEN "strayed" ELSE "written"
        /\ UNCHANGED mem /\ FileIs(ops[p].session, ops[p].new)
    BY <1>9 DEF OpReplaces, OneOp
  <2>2. CASE s # ops[p].session
    <3>1. disk'[s].file = disk[s].file
      BY <2>1, <2>2 DEF FileIs
    <3> QED BY <2>1, <2>2, <3>1 DEF Possible
  <2>3. CASE s = ops[p].session /\ ops[p].pc = "replacing"
    BY <2>3 DEF Possible, Writing
  <2>4. CASE s = ops[p].session /\ ops[p].pc = "orphan"
    <3>1. Possible(s) \/ Deleted(s)
      BY <1>0, <2>4 DEF Standing, Possible
    <3>2. Strayed(s)'
      BY <2>1, <2>4 DEF Strayed
    <3>3. Deleted(s) => Deleted(s)'
      BY <2>1 DEF Deleted
    <3> QED BY <3>1, <3>2, <3>3 DEF Returned
  <2> QED BY <2>1, <2>2, <2>3, <2>4
<1>10. CASE StoreCrashes
  BY <1>10 DEF StoreCrashes, InFlight, Possible, Writing
<1>11. CASE StoreStarts
  <2>1. /\ mem'[s] # Absent => disk[s].file \in State
        /\ disk'[s].file \in State => disk[s].file \in State
    BY <1>0, <1>11, ContentsApart DEF StoreStarts, TypeOK, Directory
  <2> QED BY <1>11, <2>1 DEF StoreStarts, Possible
<1>12. ASSUME NEW t \in Sessions, StoreDamaged(t) PROVE Possible(s)
  BY <1>12, ContentsApart DEF StoreDamaged, FileIs, Possible
<1> QED
  BY <1>1, <1>2, <1>3, <1>4, <1>5, <1>6, <1>7, <1>8, <1>9, <1>10, <1>11, <1>12, <1>13
     DEF StoreMoves

\* A revived Session shows in its conversation.
LEMMA RevivedFrom ==
    ASSUME NEW a \in Ops, ops[a].kind = "bind", ops[a].session # None,
           Returned(ops[a].session)
    PROVE  Revived(ops[a].key)
BY DEF Returned, Strayed, Deleted, Revived

\* A conversation for which a Session is made has none that is not revived.
LEMMA FoundsAlone ==
    ASSUME Bounds, StoreInv, NEW p \in Ops, NEW t \in Sessions, OpFounds(p, t),
           ops[p].kind = "bind",
           NEW b \in Ops, ops[b].kind = "bind", ops[b].key = ops[p].key,
           ops[b].session \in Sessions, Possible(ops[b].session)
    PROVE  Revived(ops[b].key)
<1> DEFINE s == ops[b].session
           k == ops[b].key
<1>1. /\ Formed(b) /\ Keyed(b) /\ Lives(s) /\ s # None /\ \A o \in Ops : o # None
      /\ OneSessionPerConversation
  BY StoreNumbers DEF StoreInv, StoreTypes
<1>2. k \in Keys /\ k # None
  BY <1>1, BoundsSay DEF Formed, None
<1>3. /\ global = None /\ up
      /\ index[k] # None => mem[index[k]] = Absent
  BY DEF OpFounds
<1>4. CASE mem[s] # Absent
  <2>1. mem[s].key = k
    BY <1>1, <1>4 DEF Keyed
  <2> QED
    BY <1>1, <1>2, <1>3, <1>4, <2>1 DEF OneSessionPerConversation
<1>5. CASE mem[s] = Absent
  <2>1. Strayed(s) /\ Deleted(s)
    BY <1>1, <1>3, <1>5 DEF Lives
  <2> QED
    BY <1>1, <2>1, RevivedFrom DEF Returned
<1> QED BY <1>4, <1>5

\* A conversation gets no second Session that was not revived.
LEMMA SingleKept ==
    ASSUME Bounds, StoreInv, StoreMoves, TypeOK', NEW a \in Ops, NEW b \in Ops
    PROVE  Single(a, b)'
<1>0. /\ StoreTypes /\ TypeOK /\ \A p \in Ops : Formed(p) /\ Standing(p) /\ NewSession(p)
      /\ Single(a, b) /\ Numbered
  BY DEF StoreInv, StoreTypes
<1> SUFFICES ASSUME NEW s \in Sessions, NEW t \in Sessions, NEW k \in Keys,
                    ops'[a].session = s, ops'[b].session = t,
                    ops'[a].key = k, ops'[b].key = k,
                    ops'[a].kind = "bind", ops'[b].kind = "bind", s # t,
                    Possible(s)', Possible(t)'
             PROVE  Revived(k)'
  <2>1. Formed(a)' /\ Formed(b)'
    BY <1>0, FormedKept
  <2>2. /\ ops'[a].session # None => ops'[a].session \in Sessions
        /\ ops'[b].session # None => ops'[b].session \in Sessions
    <3>1. ops'[a] \in Operation /\ ops'[b] \in Operation
      BY DEF TypeOK
    <3> QED BY <3>1 DEF Operation
  <2>3. ops'[a].kind = "bind" => ops'[a].key \in Keys
    BY <2>1 DEF Formed
  <2> QED BY <2>2, <2>3 DEF Single, Possible, Revived
<1>1. s # None /\ t # None
  BY StoreNumbers
\* An operation that is on a Session was on it before, or makes it now.
<1>2. ASSUME NEW x \in Ops, ops'[x].kind = "bind", ops'[x].session # None
      PROVE  \/ /\ ops[x].kind = "bind" /\ ops[x].session = ops'[x].session
                /\ ops[x].key = ops'[x].key
             \/ OpFounds(x, ops'[x].session) /\ ops[x].kind = "bind"
  <2>1. CASE ops[x].session # None
    BY <1>0, <1>2, <2>1, OpStays
  <2>2. CASE ops[x].session = None
    <3> DEFINE Now == OpFounds(x, ops'[x].session) /\ ops[x].kind = "bind"
    <3>1. ASSUME NEW p \in Ops, OpAsked(p) PROVE FALSE
      BY <1>0, <1>2, <2>2, <3>1, StoreNumbers DEF OpAsked, OpIs
    <3>2. ASSUME NEW p \in Ops, NEW u \in Sessions, OpFounds(p, u) PROVE Now
      <4>1. p = x /\ ops'[p].session = u /\ ops'[p].kind = ops[p].kind
        BY <1>2, <2>2, <3>2 DEF OpFounds, OpIs
      <4> QED BY <1>2, <3>2, <4>1
    <3>3. ASSUME NEW p \in Ops, NEW u \in Sessions, OpRebinds(p, u) PROVE FALSE
      BY <1>2, <2>2, <3>3 DEF OpRebinds, OpIs
    <3>4. ASSUME NEW p \in Ops, OpUpdates(p) PROVE FALSE
      BY <1>2, <2>2, <3>4 DEF OpUpdates, OpIs
    <3>5. ASSUME NEW p \in Ops, OpStops(p) \/ OpAbandoned(p) \/ OpQueues(p) \/ OpDeletes(p)
                               \/ OpRemoves(p) \/ OpKeeps(p) \/ OpThreads(p) \/ OpReplaces(p)
                               \/ OpCommits(p)
          PROVE FALSE
      BY <1>2, <2>2, <3>5 DEF OpStops, OpAbandoned, OpQueues, OpDeletes, OpRemoves, OpKeeps,
         OpThreads, OpReplaces, OpCommits, OneOp
    <3>6. CASE UNCHANGED vars \/ StoreCrashes \/ StoreStarts
               \/ \E u \in Sessions : StoreDamaged(u)
      BY <1>2, <2>2, <3>6 DEF vars, StoreCrashes, StoreStarts, StoreDamaged
    <3> QED
      BY <3>1, <3>2, <3>3, <3>4, <3>5, <3>6 DEF StoreMoves
  <2> QED BY <2>1, <2>2
\* One of the two makes its Session now.
<1>3. ASSUME NEW x \in Ops, NEW y \in Ops, NEW v \in Sessions, NEW u \in Sessions, u # v,
             ops'[x].session = v, ops'[y].session = u, ops'[y].kind = "bind",
             ops'[x].key = k, ops'[y].key = k, Possible(u)',
             OpFounds(x, v) /\ ops[x].kind = "bind"
      PROVE  Revived(k)'
  <2>1. x # y /\ ops'[y] = ops[y] /\ ops'[x].key = ops[x].key
    BY <1>3 DEF OpFounds, OpIs
  <2>2. Possible(u)
    <3>1. \A o \in Ops : ops'[o].session = u => ops'[o] = ops[o]
      BY <1>3 DEF OpFounds, OpIs
    <3>2. Lingers(u) => Lingers(u)'
      BY <1>3 DEF OpFounds, OpIs, Lingers
    <3> QED BY <1>3, <3>1, <3>2 DEF OpFounds, Possible
  <2>3. Revived(k)
    BY <1>3, <2>1, <2>2, FoundsAlone
  <2> QED
    BY <1>0, <1>3, <2>1, <2>3, RevivedKept
<1>4. CASE OpFounds(a, s) /\ ops[a].kind = "bind"
  BY <1>1, <1>3, <1>4
<1>5. CASE OpFounds(b, t) /\ ops[b].kind = "bind"
  BY <1>1, <1>3, <1>5
<1>6. CASE /\ ops[a].kind = "bind" /\ ops[a].session = s /\ ops[a].key = k
           /\ ops[b].kind = "bind" /\ ops[b].session = t /\ ops[b].key = k
  <2>1. ASSUME NEW x \in Ops, ops[x].kind = "bind", ops[x].session \in Sessions,
               ops'[x].key = ops[x].key, ops'[x].session = ops[x].session,
               ops'[x].kind = "bind", ops[x].key = k, NEW v \in Sessions,
               ops[x].session = v, Possible(v)', ops[x].pc # "waiting"
        PROVE  Possible(v) \/ Revived(k)'
    <3>1. CASE Returned(v)'
      BY <2>1, <3>1, StoreNumbers DEF Returned, Strayed, Deleted, Revived
    <3>2. ASSUME NEW p \in Ops, OpFounds(p, v)
          PROVE  FALSE
      <4>1. CASE ops[p].kind = "create"
        <5>1. p # x /\ ops[p].pc = "waiting" /\ ops[p].session = v
          BY <2>1, <3>2, <4>1 DEF OpFounds
        <5> QED
          BY <1>0, <2>1, <4>1, <5>1, StoreNumbers DEF NewSession, Writing
      <4>2. CASE ops[p].kind # "create"
        BY <1>0, <2>1, <3>2, <4>2, FreshIsNew DEF OpFounds
      <4> QED BY <4>1, <4>2
    <3> QED
      BY <1>0, <2>1, <3>1, <3>2, PossibleKept
  <2>2. ops[a].pc # "waiting" /\ ops[b].pc # "waiting"
    BY <1>0, <1>1, <1>6, StoreNumbers DEF Formed
  <2>3. Possible(s) \/ Revived(k)'
    BY <1>1, <1>6, <2>1, <2>2
  <2>4. Possible(t) \/ Revived(k)'
    BY <1>1, <1>6, <2>1, <2>2
  <2>5. CASE Possible(s) /\ Possible(t)
    <3>1. Revived(k)
      BY <1>0, <1>1, <1>6, <2>5 DEF Single
    <3> QED
      BY <1>0, <1>6, <3>1, RevivedKept
  <2> QED BY <2>3, <2>4, <2>5
<1> QED
  BY <1>1, <1>2, <1>4, <1>5, <1>6

\* Of two Sessions that are there, or may be, for a conversation one was revived.
LEMMA TwoRevived ==
    ASSUME Bounds, StoreInv, NEW k \in Keys, NEW s \in Sessions, NEW t \in Sessions, s # t,
           Possible(s), Possible(t),
           \A v \in {s, t} : \/ mem[v] # Absent /\ mem[v].key = k
                             \/ disk[v].file \in State /\ disk[v].file.key = k
                             \/ \E o \in Ops : /\ ops[o].session = v
                                                 /\ ops[o].pc \in Writing
                                                 /\ ops[o].new.key = k
    PROVE  Revived(k)
<1>0. /\ TypeOK /\ \A p \in Ops : Formed(p) /\ Keyed(p)
      /\ \A v \in Sessions : Lives(v) /\ v # None
      /\ Parented /\ k # None
  BY StoreNumbers, BoundsSay DEF StoreInv, StoreTypes, None
<1>1. ASSUME NEW v \in {s, t}
      PROVE  \E b \in Ops : ops[b].session = v /\ ops[b].kind = "bind"
                              /\ ops[b].key = k
  <2>1. PICK o \in Ops : ops[o].session = v
    BY <1>0, ContentsApart DEF Lives
  <2>2. PICK b \in Ops : Born(b, v)
    BY <1>0, <2>1 DEF Parented
  <2>3. ops[b].key = k
    BY <1>0, <2>2 DEF Born, Keyed
  <2>4. ops[b].kind = "bind"
    BY <1>0, <2>2, <2>3 DEF Born, Formed
  <2> QED BY <2>2, <2>3, <2>4 DEF Born
<1>2. PICK a \in Ops : ops[a].session = s /\ ops[a].kind = "bind"
                         /\ ops[a].key = k
  BY <1>1
<1>3. PICK b \in Ops : ops[b].session = t /\ ops[b].kind = "bind"
                         /\ ops[b].key = k
  BY <1>1
<1>4. Single(a, b)
  BY DEF StoreInv
<1> QED
  BY <1>0, <1>2, <1>3, <1>4 DEF Single

\* The index goes on leading to the Session of a conversation.
LEMMA LeadsKept ==
    ASSUME Bounds, StoreInv, StoreMoves, TypeOK'
    PROVE  OneSessionPerConversation'
<1>0. /\ StoreTypes /\ TypeOK /\ OneSessionPerConversation
      /\ \A p \in Ops : Formed(p) /\ Standing(p) /\ NewSession(p)
      /\ \A v \in Sessions : v # None
      /\ \A p \in Ops : ops[p].session # None => ops[p].session \in Sessions
  BY StoreNumbers, SessionsOf DEF StoreInv, StoreTypes
<1> SUFFICES ASSUME NEW s \in Sessions, NEW k \in Keys,
                    mem'[s] # Absent, mem'[s].key = k
             PROVE  index'[k] = s \/ Revived(k)'
  <2>1. \A s \in Sessions : mem'[s] # Absent => mem'[s].key \in Keys \cup {None}
    BY DEF TypeOK, State
  <2> QED BY <2>1 DEF OneSessionPerConversation, Revived
<1>1. Revived(k) => Revived(k)'
  BY <1>0, RevivedKept
<1>2. CASE UNCHANGED <<mem, index>>
  BY <1>0, <1>1, <1>2, BoundsSay DEF OneSessionPerConversation, None
<1>3. ASSUME NEW o \in Ops, OpDeletes(o) PROVE index'[k] = s \/ Revived(k)
  <2>1. ops[o].session \in Sessions
    BY <1>0, <1>3 DEF OpDeletes, Formed
  <2>2. s # ops[o].session /\ mem'[s] = mem[s]
    BY <1>0, <1>3, <2>1 DEF OpDeletes, TypeOK
  <2>3. index[k] = s => index'[k] = s
    BY <1>3, <2>2 DEF OpDeletes
  <2> QED
    BY <1>0, <2>2, <2>3, BoundsSay DEF OneSessionPerConversation, None
<1>4. ASSUME NEW o \in Ops, OpCommits(o) PROVE index'[k] = s \/ Revived(k)
  <2> DEFINE t == ops[o].session
             new == ops[o].new
  <2>1. /\ t \in Sessions /\ new \in State /\ ops[o].pc = "written"
        /\ mem' = [mem EXCEPT ![t] = new]
        /\ index'[k] = IF new.key = k THEN t ELSE IF index[k] = t THEN None
                                                       ELSE index[k]
    BY <1>0, <1>4 DEF OpCommits, Formed, Writing
  <2>2. CASE s = t
    BY <1>0, <2>1, <2>2 DEF TypeOK
  <2>3. CASE s # t /\ new.key # k
    BY <1>0, <2>1, <2>3, BoundsSay DEF OneSessionPerConversation, None, TypeOK
  <2>4. CASE s # t /\ new.key = k
    <3>1. mem[s] # Absent /\ mem[s].key = k
      BY <1>0, <2>1, <2>4 DEF TypeOK
    <3>2. Possible(s) /\ Possible(t)
      <4>1. ~Lingers(s) /\ ~Lingers(t)
        BY <1>0, <2>1, <3>1, NotLingering DEF Writing
      <4> QED BY <2>1, <3>1, <4>1 DEF Possible, Writing
    <3> QED
      BY <2>1, <2>4, <3>1, <3>2, TwoRevived DEF Writing
  <2> QED BY <2>2, <2>3, <2>4
<1>5. CASE StoreCrashes
  BY <1>5 DEF StoreCrashes
<1>6. CASE StoreStarts
  <2>1. PICK t \in Sessions : index'[k] = t /\ mem'[t] # Absent
                                /\ mem'[t].key = k
    BY <1>6 DEF StoreStarts
  <2>2. \A v \in {s, t} : disk[v].file \in State /\ disk[v].file.key = k
    BY <1>6, <2>1 DEF StoreStarts
  <2>3. Possible(s) /\ Possible(t)
    <3>1. \A v \in Sessions : ~Lingers(v)
      BY <1>0, <1>6 DEF Lingers, Formed, StoreStarts
    <3> QED BY <2>2, <3>1 DEF Possible
  <2>4. s = t \/ Revived(k)
    BY <2>2, <2>3, TwoRevived
  <2> QED BY <1>1, <2>1, <2>4
<1> QED
  <2>1. ASSUME NEW o \in Ops,
               OpAsked(o) \/ OpUpdates(o) \/ OpStops(o) \/ OpAbandoned(o) \/ OpQueues(o)
               \/ OpRemoves(o) \/ OpKeeps(o) \/ OpThreads(o) \/ OpReplaces(o)
               \/ \E v \in Sessions : OpFounds(o, v) \/ OpRebinds(o, v)
        PROVE  UNCHANGED <<mem, index>>
    BY <2>1 DEF OpAsked, OpUpdates, OpStops, OpAbandoned, OpQueues, OpRemoves, OpKeeps,
       OpThreads, OpReplaces, OpFounds, OpRebinds
  <2>2. ASSUME UNCHANGED vars \/ \E v \in Sessions : StoreDamaged(v)
        PROVE  UNCHANGED <<mem, index>>
    BY <2>2 DEF vars, StoreDamaged
  <2> QED BY <1>1, <1>2, <1>3, <1>4, <1>5, <1>6, <2>1, <2>2 DEF StoreMoves

\* The first states satisfy the invariant.
LEMMA StoreInit ==
    ASSUME Bounds
    PROVE  Init => StoreInv
<1> SUFFICES ASSUME Init PROVE StoreInv
  OBVIOUS
<1>1. /\ up /\ corrupt = {} /\ global = None
      /\ \A s \in Sessions : mem[s] = Absent /\ disk[s] = NoDirectory
                               /\ locks[s] = None
      /\ \A o \in Ops : ops[o] = NoOp
  BY DEF Init
<1>2. /\ \A o \in Ops : ops[o].kind = "none" /\ ops[o].session = None
                          /\ ops[o].key = None /\ ops[o].pc = "idle"
      /\ \A s \in Sessions : disk[s].file = Absent
  BY <1>1 DEF NoOp, NoDirectory
<1>3. TypeOK
  <2>1. NoOp \in Operation
    BY BoundsSay DEF NoOp, Operation, Kinds, Places
  <2>2. NoDirectory \in Directory
    BY DEF NoDirectory, Directory
  <2> QED BY <2>1, <2>2 DEF Init, TypeOK
<1>4. StoreTypes
  BY <1>1, <1>2, <1>3 DEF StoreTypes, Formed, Writing
<1>5. Numbered /\ Parented
  <2>1. {ops[o].session : o \in Ops} \ {None} = 1 .. 0
    BY <1>2
  <2> QED BY <1>2, <2>1 DEF Numbered, Parented
<1>6. \A o \in Ops : Holding(o) /\ Standing(o) /\ NewSession(o) /\ Keyed(o)
  BY <1>2 DEF Holding, Standing, NewSession, Keyed, Writing
<1>7. \A s \in Sessions : Lives(s) /\ ~Possible(s)
  BY <1>1, <1>2, ContentsApart DEF Lives, Possible, Writing
<1>8. \A a, b \in Ops : Single(a, b)
  BY <1>2 DEF Single
<1>9. OneSessionPerConversation
  BY <1>1 DEF OneSessionPerConversation
<1> QED
  BY <1>4, <1>5, <1>6, <1>7, <1>8, <1>9 DEF StoreInv

\* Every step of the store keeps the invariant.
LEMMA StoreStep ==
    ASSUME Bounds
    PROVE  StoreInv /\ [Next]_vars => StoreInv'
<1> SUFFICES ASSUME StoreInv, [Next]_vars PROVE StoreInv'
  OBVIOUS
<1>1. /\ StoreTypes /\ Numbered /\ Parented
      /\ \A o \in Ops : Holding(o) /\ Standing(o) /\ NewSession(o) /\ Keyed(o)
      /\ \A s \in Sessions : Lives(s)
  BY DEF StoreInv
<1>2. TypeOK' /\ StoreMoves
  BY <1>1, StoreSteps
<1>3. StoreTypes'
  BY <1>1, <1>2, FormedKept DEF StoreTypes
<1>4. Numbered' /\ Parented'
  BY <1>1, <1>2, NumberedKept
<1>5. \A o \in Ops : Holding(o)'
  BY <1>1, <1>2, HoldingKept
<1>6. \A o \in Ops : Standing(o)'
  BY <1>1, <1>2, StandingKept
<1>7. \A o \in Ops : NewSession(o)'
  BY <1>1, <1>2, NewSessionKept
<1>8. \A o \in Ops : Keyed(o)'
  BY <1>1, <1>2, KeyedKept
<1>9. \A s \in Sessions : Lives(s)'
  BY <1>1, <1>2, LivesKept
<1>10. \A a, b \in Ops : Single(a, b)'
  BY <1>2, SingleKept
<1>11. OneSessionPerConversation'
  BY <1>2, LeadsKept
<1> QED
  BY <1>3, <1>4, <1>5, <1>6, <1>7, <1>8, <1>9, <1>10, <1>11 DEF StoreInv

\* An external conversation has one Session and the index leads to it
\* (SessionRepository over JsonStateStore), through creations, rebindings, updates,
\* deletions, failed and cancelled writes, damaged files, crashes and restarts;
\* the exception is a Session that is there again after its deletion has been
\* acknowledged: a write which outlived its cancelled task has made it anew, or
\* the removal left its file behind and the gateway has been started since.  For
\* any number of Sessions, operations and conversations.
THEOREM ConversationsAreOne ==
    ASSUME Bounds
    PROVE  Spec => []OneSessionPerConversation
<1>1. Init => StoreInv
  BY StoreInit
<1>2. StoreInv /\ [Next]_vars => StoreInv'
  BY StoreStep
<1>3. StoreInv => OneSessionPerConversation
  BY DEF StoreInv
<1> QED
  BY <1>1, <1>2, <1>3, PTL DEF Spec

\* No write has outlived its task, and none is of a rebinding.
Settled(s) == ~Unordered(s)
\* What has been acknowledged is in memory, on disk and in every write to come.
Acked(o) ==
    LET s == ops[o].session IN
    ops[o].pc = "done" =>
       /\ s \in Sessions
       /\ Settled(s) /\ ops[o].kind = "delete" =>
             /\ mem[s] = Absent /\ disk[s].file = Absent
             /\ \A p \in Ops : ops[p].session = s => ops[p].pc \notin Writing
       /\ Settled(s) /\ ops[o].kind # "delete" =>
             /\ mem[s] # Absent => o \in mem[s].marks
             /\ disk[s].file \in State => o \in disk[s].file.marks
             /\ \A p \in Ops : ops[p].session = s /\ ops[p].pc \in Writing =>
                   o \in ops[p].new.marks
\* What is to be acknowledged is in what is written.
Marked(o) ==
    LET op == ops[o] IN
    op.pc \in Writing =>
       /\ o \in op.new.marks
       /\ op.pc = "written" /\ Settled(op.session) => disk[op.session].file = op.new
AckedInv == \A o \in Ops : Acked(o) /\ Marked(o)

\* A Session that is unordered stays so.
LEMMA SettledBefore ==
    ASSUME Bounds, StoreTypes, StoreMoves, NEW s \in Sessions, Settled(s)' PROVE Settled(s)
<1> SUFFICES ASSUME Unordered(s) PROVE FALSE
  BY DEF Settled
<1>1. PICK o \in Ops : ops[o].session = s
                         /\ (ops[o].pc = "strayed" \/ ops[o].kind = "rebind")
  BY DEF Unordered
<1>2. /\ ops'[o].session = s /\ ops'[o].kind = ops[o].kind
      /\ ops[o].pc = "strayed" => ops'[o].pc = "strayed"
  BY <1>1, OpStays, StoreNumbers
<1> QED
  BY <1>1, <1>2 DEF Settled, Unordered

\* Writes of a settled Session exclude each other.
LEMMA OneWriter ==
    ASSUME Bounds, StoreInv, NEW s \in Sessions, Settled(s), NEW o \in Ops, NEW p \in Ops,
           ops[o].session = s, ops[p].session = s,
           ops[o].pc \in Writing, ops[p].pc \in Writing
    PROVE  o = p
<1>1. /\ \A q \in Ops : Holding(q) /\ Formed(q)
      /\ NewSession(o) /\ NewSession(p) /\ s # None
  BY StoreNumbers DEF StoreInv, StoreTypes
<1>2. ops[o].kind # "rebind" /\ ops[p].kind # "rebind"
  BY DEF Settled, Unordered
<1>3. CASE ops[o].kind \in {"create", "bind"} \/ ops[p].kind \in {"create", "bind"}
  BY <1>1, <1>3 DEF NewSession
<1>4. CASE ops[o].kind = "update" /\ ops[p].kind = "update"
  BY <1>1, <1>4, Exclusive
<1> QED
  BY <1>1, <1>2, <1>3, <1>4 DEF Formed

\* What is to be acknowledged stays in what is written.
LEMMA MarkedKept ==
    ASSUME Bounds, StoreInv, AckedInv, StoreMoves, TypeOK', NEW o \in Ops PROVE Marked(o)'
<1>0. /\ TypeOK /\ \A p \in Ops : Formed(p) /\ Marked(p) /\ Holding(p)
      /\ \A p \in Ops : ops[p].session # None => ops[p].session \in Sessions
      /\ StoreTypes
  BY SessionsOf DEF StoreInv, StoreTypes, AckedInv
<1>00. Formed(o)' /\ (ops'[o].session # None => ops'[o].session \in Sessions)
  <2>1. ops'[o] \in Operation
    BY DEF TypeOK
  <2> QED BY <1>0, <2>1, FormedKept DEF Operation
<1> SUFFICES ASSUME NEW s \in Sessions, ops'[o].session = s, ops'[o].pc \in Writing
             PROVE  /\ o \in ops'[o].new.marks
                    /\ ops'[o].pc = "written" /\ Settled(s)' =>
                          disk'[s].file = ops'[o].new
  BY <1>00 DEF Marked, Settled, Formed
<1> DEFINE Goal == /\ o \in ops'[o].new.marks
                   /\ ops'[o].pc = "written" /\ Settled(s)' =>
                         disk'[s].file = ops'[o].new
<1>1. (Settled(s)' => Settled(s)) /\ s # None
  BY <1>0, SettledBefore, StoreNumbers
<1>2. ops[o].pc \in Writing /\ ops[o].session = s =>
         /\ o \in ops[o].new.marks
         /\ ops[o].pc = "written" /\ Settled(s) => disk[s].file = ops[o].new
  BY <1>0 DEF Marked
\* An operation that is left alone keeps what it has written.
<1>3. ASSUME ops'[o] = ops[o], disk'[s].file = disk[s].file PROVE Goal
  BY <1>1, <1>2, <1>3
<1> HIDE DEF Goal
<1>4. ASSUME UNCHANGED vars PROVE Goal
  BY <1>3, <1>4 DEF vars
<1>5. ASSUME NEW p \in Ops, OpAsked(p) PROVE Goal
  <2>1. CASE o # p
    BY <1>3, <1>5, <2>1 DEF OpAsked, OpIs
  <2>2. CASE o = p
    BY <1>5, <2>2 DEF OpAsked, OpIs, Writing
  <2> QED BY <2>1, <2>2
<1>6. ASSUME NEW p \in Ops, NEW t \in Sessions, OpFounds(p, t) PROVE Goal
  <2>1. CASE o # p
    BY <1>3, <1>6, <2>1 DEF OpFounds, OpIs
  <2>2. CASE o = p
    BY <1>6, <2>2 DEF OpFounds, OpIs, Goal
  <2> QED BY <2>1, <2>2
<1>7. ASSUME NEW p \in Ops, NEW t \in Sessions, OpRebinds(p, t) PROVE Goal
  <2>1. CASE o # p
    BY <1>3, <1>7, <2>1 DEF OpRebinds, OpIs
  <2>2. CASE o = p
    <3>1. [mem[t] EXCEPT !.marks = @ \cup {o}].marks = mem[t].marks \cup {o}
      BY <1>0, <1>7, NewContent DEF OpRebinds
    <3> QED BY <1>7, <2>2, <3>1 DEF OpRebinds, OpIs, Goal
  <2> QED BY <2>1, <2>2
<1>8. ASSUME NEW p \in Ops, OpUpdates(p) PROVE Goal
  <2>1. CASE o # p
    BY <1>3, <1>8, <2>1 DEF OpUpdates, OpIs
  <2>2. CASE o = p
    <3>1. ops[p].session \in Sessions
      BY <1>0, <1>8 DEF OpUpdates, Formed
    <3>2. [mem[ops[p].session] EXCEPT !.marks = @ \cup {o}].marks
            = mem[ops[p].session].marks \cup {o}
      BY <1>0, <1>8, <2>2, <3>1, NewContent DEF OpUpdates
    <3> QED BY <1>8, <2>2, <3>2 DEF OpUpdates, OpIs, Goal
  <2> QED BY <2>1, <2>2
<1>9. ASSUME NEW p \in Ops, OpStops(p) \/ OpAbandoned(p) \/ OpQueues(p) \/ OpDeletes(p)
             \/ OpCommits(p)
      PROVE Goal
  <2>1. /\ \A q \in Ops \ {p} : ops'[q] = ops[q]
        /\ ops'[p].pc \notin Writing /\ UNCHANGED disk
    BY <1>9 DEF OpStops, OpAbandoned, OpQueues, OpDeletes, OpCommits, OneOp, Writing
  <2> QED BY <1>3, <2>1
<1>10. ASSUME NEW p \in Ops, OpRemoves(p) PROVE Goal
  <2>1. o # p /\ ops'[o] = ops[o]
    BY <1>10 DEF OpRemoves, OneOp, Writing
  <2>2. ops[p].session # s
    BY <1>0, <1>10, <2>1, Exclusive DEF OpRemoves
  <2>3. disk'[s].file = disk[s].file
    BY <1>10, <2>2 DEF OpRemoves, FileIs
  <2> QED BY <1>3, <2>1, <2>3
<1>15. ASSUME NEW p \in Ops, OpKeeps(p) PROVE Goal
  <2>1. o # p /\ ops'[o] = ops[o] /\ disk'[s].file = disk[s].file
    BY <1>15 DEF OpKeeps, OneOp, SameFiles, Writing
  <2> QED BY <1>3, <2>1
<1>11. ASSUME NEW p \in Ops, OpThreads(p) PROVE Goal
  <2>1. CASE o # p
    BY <1>3, <1>11, <2>1 DEF OpThreads, OneOp, SameFiles
  <2>2. CASE o = p
    BY <1>2, <1>11, <2>2 DEF OpThreads, OneOp, Goal, Writing
  <2> QED BY <2>1, <2>2
<1>12. ASSUME NEW p \in Ops, OpReplaces(p) PROVE Goal
  <2>1. CASE o # p
    <3>1. ops'[o] = ops[o] /\ ops'[p].session = ops[p].session
      BY <1>12, <2>1 DEF OpReplaces, OneOp
    <3>2. CASE ops[p].session # s
      BY <1>3, <1>12, <3>1, <3>2 DEF OpReplaces, FileIs
    <3>3. CASE ops[p].session = s /\ ops[p].pc = "orphan"
      <4>1. ~Settled(s)'
        BY <1>12, <3>1, <3>3 DEF OpReplaces, Settled, Unordered
      <4> QED BY <1>2, <3>1, <4>1 DEF Goal
    <3>4. CASE ops[p].session = s /\ ops[p].pc = "replacing"
      <4>1. ~Settled(s)
        BY <2>1, <3>1, <3>4, OneWriter DEF Writing
      <4> QED BY <1>1, <1>2, <3>1, <4>1 DEF Goal
    <3> QED BY <1>12, <3>2, <3>3, <3>4 DEF OpReplaces
  <2>2. CASE o = p
    BY <1>2, <1>12, <2>2 DEF OpReplaces, OneOp, FileIs, Goal, Writing
  <2> QED BY <2>1, <2>2
<1>13. ASSUME StoreCrashes PROVE Goal
  BY <1>13 DEF StoreCrashes, InFlight, Writing
<1>14. ASSUME StoreStarts \/ \E t \in Sessions : StoreDamaged(t) PROVE Goal
  <2>1. ops'[o] = ops[o] /\ ~up
    BY <1>14 DEF StoreStarts, StoreDamaged
  <2> QED BY <1>0, <2>1 DEF Formed
<1> QED
  <2>1. Goal
    BY <1>4, <1>5, <1>6, <1>7, <1>8, <1>9, <1>10, <1>11, <1>12, <1>13, <1>14, <1>15
       DEF StoreMoves
  <2> QED BY <2>1 DEF Goal

\* What an acknowledged operation on s promises.
Promised(o, s) ==
    /\ ops[o].kind = "delete" =>
          /\ mem[s] = Absent /\ disk[s].file = Absent
          /\ \A p \in Ops : ops[p].session = s => ops[p].pc \notin Writing
    /\ ops[o].kind # "delete" =>
          /\ mem[s] # Absent => o \in mem[s].marks
          /\ disk[s].file \in State => o \in disk[s].file.marks
          /\ \A p \in Ops : ops[p].session = s /\ ops[p].pc \in Writing =>
                o \in ops[p].new.marks

\* It is kept by a step that acknowledges nothing.
LEMMA PromisedKept ==
    ASSUME Bounds, StoreInv, AckedInv, StoreMoves, TypeOK', NEW o \in Ops, NEW s \in Sessions,
           Settled(s), Settled(s)', ops[o].session = s, ops[o].pc = "done",
           Promised(o, s)
    PROVE  Promised(o, s)'
<1>0. /\ TypeOK /\ \A p \in Ops : Formed(p) /\ Holding(p) /\ Standing(p) /\ NewSession(p)
      /\ \A p \in Ops : ops[p].session # None => ops[p].session \in Sessions
      /\ StoreTypes /\ Numbered /\ s # None
  BY SessionsOf, StoreNumbers DEF StoreInv, StoreTypes
<1>1. ops'[o].kind = ops[o].kind
  BY <1>0, OpStays
<1> DEFINE Goal == Promised(o, s)'
\* Memory and the file are the same or gone, and who writes wrote before.
<1>2. ASSUME mem'[s] \in {mem[s], Absent},
             disk'[s].file # disk[s].file =>
                disk'[s].file = Absent \/
                (disk'[s].file = Broken /\ disk[s].file # Absent),
             \A p \in Ops : ops'[p].session = s /\ ops'[p].pc \in Writing =>
                /\ ops[p].session = s /\ ops[p].pc \in Writing
                /\ ops'[p].new = ops[p].new
      PROVE  Goal
  BY <1>1, <1>2, ContentsApart DEF Promised
<1> HIDE DEF Goal
<1>3. ASSUME UNCHANGED vars PROVE Goal
  BY <1>2, <1>3 DEF vars
<1>4. ASSUME NEW p \in Ops, OpAsked(p) PROVE Goal
  BY <1>2, <1>4 DEF OpAsked, OpIs, Writing
<1>5. ASSUME NEW p \in Ops, NEW t \in Sessions, OpFounds(p, t) PROVE Goal
  <2>1. p # o
    BY <1>5 DEF OpFounds
  <2>2. t # s
    <3>1. CASE ops[p].kind = "create"
      BY <1>0, <1>5, <2>1, <3>1 DEF OpFounds, NewSession, Writing
    <3>2. CASE ops[p].kind = "bind"
      BY <1>0, <1>5, <3>2, FreshIsNew DEF OpFounds
    <3> QED BY <1>5, <3>1, <3>2 DEF OpFounds
  <2> QED BY <1>2, <1>5, <2>1, <2>2 DEF OpFounds, OpIs
<1>6. ASSUME NEW p \in Ops, NEW t \in Sessions, OpRebinds(p, t) PROVE Goal
  <2>1. t # s
    BY <1>6 DEF OpRebinds, OpIs, Settled, Unordered
  <2> QED BY <1>2, <1>6, <2>1 DEF OpRebinds, OpIs
<1>7. ASSUME NEW p \in Ops, OpUpdates(p) PROVE Goal
  <2>1. CASE ops[p].session # s
    BY <1>2, <1>7, <2>1 DEF OpUpdates, OpIs
  <2>2. CASE ops[p].session = s
    <3>1. [mem[s] EXCEPT !.marks = @ \cup {p}].marks = mem[s].marks \cup {p}
      BY <1>0, <1>7, <2>2, NewContent DEF OpUpdates
    <3>2. /\ ops[o].kind # "delete" /\ o \in mem[s].marks
          /\ ops'[p].new.marks = mem[s].marks \cup {p}
          /\ \A q \in Ops \ {p} : ops'[q] = ops[q]
          /\ UNCHANGED <<mem, disk>>
      BY <1>7, <2>2, <3>1 DEF OpUpdates, OpIs, Promised
    <3> QED BY <1>1, <3>2 DEF Promised, Goal
  <2> QED BY <2>1, <2>2
<1>8. ASSUME NEW p \in Ops, OpStops(p) \/ OpAbandoned(p) \/ OpQueues(p) PROVE Goal
  <2>1. /\ \A q \in Ops \ {p} : ops'[q] = ops[q]
        /\ ops'[p].pc \notin Writing /\ UNCHANGED <<mem, disk>>
    BY <1>8 DEF OpStops, OpAbandoned, OpQueues, OneOp, Writing
  <2> QED BY <1>2, <2>1
<1>9. ASSUME NEW p \in Ops, OpDeletes(p) \/ OpRemoves(p) \/ OpKeeps(p) PROVE Goal
  <2>1. /\ \A q \in Ops \ {p} : ops'[q] = ops[q]
        /\ ops'[p].pc \notin Writing
        /\ mem'[s] \in {mem[s], Absent}
        /\ disk'[s].file \in {disk[s].file, Absent}
    BY <1>0, <1>9 DEF OpDeletes, OpRemoves, OpKeeps, OneOp, FileIs, SameFiles, Writing, TypeOK
  <2> QED BY <1>2, <2>1
<1>10. ASSUME NEW p \in Ops, OpThreads(p) PROVE Goal
  <2>1. /\ \A q \in Ops \ {p} : ops'[q] = ops[q]
        /\ ops'[p].session = ops[p].session /\ ops'[p].new = ops[p].new
        /\ ops'[p].pc \in Writing => ops[p].pc \in Writing
        /\ UNCHANGED mem /\ disk'[s].file = disk[s].file
    BY <1>10 DEF OpThreads, OneOp, SameFiles, Writing
  <2> QED BY <1>2, <2>1
<1>11. ASSUME NEW p \in Ops, OpReplaces(p) PROVE Goal
  <2>1. /\ \A q \in Ops \ {p} : ops'[q] = ops[q]
        /\ ops'[p].session = ops[p].session /\ ops'[p].new = ops[p].new
        /\ ops'[p].pc \in Writing => ops[p].pc \in Writing
        /\ UNCHANGED mem
    BY <1>11 DEF OpReplaces, OneOp, Writing
  <2>2. CASE ops[p].session # s
    BY <1>2, <1>11, <2>1, <2>2 DEF OpReplaces, FileIs
  <2>3. CASE ops[p].session = s
    <3>1. ops[p].pc = "replacing"
      BY <1>11, <2>3 DEF OpReplaces, OneOp, Settled, Unordered
    <3>2. disk'[s].file = ops[p].new /\ ops[p].pc \in Writing
      BY <1>11, <2>3, <3>1 DEF OpReplaces, FileIs, Writing
    <3> QED BY <1>1, <2>1, <2>3, <3>2 DEF Promised, Goal
  <2> QED BY <2>2, <2>3
<1>12. ASSUME NEW p \in Ops, OpCommits(p) PROVE Goal
  <2>1. /\ \A q \in Ops \ {p} : ops'[q] = ops[q]
        /\ ops'[p].pc \notin Writing /\ ops[p].pc \in Writing /\ UNCHANGED disk
        /\ mem' = [mem EXCEPT ![ops[p].session] = ops[p].new]
    BY <1>12 DEF OpCommits, OneOp, Writing
  <2>2. CASE ops[p].session # s
    <3>1. mem'[s] = mem[s]
      BY <1>0, <2>1, <2>2 DEF TypeOK
    <3> QED BY <1>2, <2>1, <3>1
  <2>3. CASE ops[p].session = s
    <3>1. mem'[s] = ops[p].new
      BY <1>0, <2>1, <2>3 DEF TypeOK
    <3> QED BY <1>1, <2>1, <2>3, <3>1 DEF Promised, Goal
  <2> QED BY <2>2, <2>3
<1>13. ASSUME StoreCrashes PROVE Goal
  <2>1. \A p \in Ops : ops'[p].pc \notin Writing
    BY <1>13 DEF StoreCrashes, InFlight, Writing
  <2> QED BY <1>2, <1>13, <2>1 DEF StoreCrashes
<1>14. ASSUME StoreStarts PROVE Goal
  <2>1. \A p \in Ops : ops'[p] = ops[p] /\ ops[p].pc \notin Writing
    BY <1>0, <1>14 DEF StoreStarts, Formed
  <2>2. disk[s].file \in State \cup {Absent, Broken}
    BY <1>0 DEF TypeOK, Directory
  <2>3. /\ mem'[s] = IF disk[s].file \in State THEN disk[s].file ELSE Absent
        /\ disk[s].file \in State \cup {Absent} => disk'[s].file = disk[s].file
        /\ disk[s].file = Broken => disk'[s].file \in {Absent, Broken}
    BY <1>14 DEF StoreStarts
  <2> QED BY <1>1, <2>1, <2>2, <2>3, ContentsApart DEF Promised, Goal
<1>15. ASSUME NEW t \in Sessions, StoreDamaged(t) PROVE Goal
  BY <1>2, <1>15, ContentsApart DEF StoreDamaged, FileIs
<1> QED
  <2>1. Goal
    BY <1>3, <1>4, <1>5, <1>6, <1>7, <1>8, <1>9, <1>10, <1>11, <1>12, <1>13, <1>14, <1>15
       DEF StoreMoves
  <2> QED BY <2>1 DEF Goal

\* An operation ends with what it was asked for in two ways.
LEMMA NowDone ==
    ASSUME StoreMoves, NEW o \in Ops, ops[o].pc # "done", ops'[o].pc = "done"
    PROVE  OpRemoves(o) \/ OpCommits(o)
<1>1. ASSUME NEW p \in Ops, OpAsked(p) PROVE FALSE
  BY <1>1 DEF OpAsked, OpIs
<1>2. ASSUME NEW p \in Ops, NEW t \in Sessions, OpFounds(p, t) \/ OpRebinds(p, t)
      PROVE FALSE
  BY <1>2 DEF OpFounds, OpRebinds, OpIs
<1>3. ASSUME NEW p \in Ops, OpUpdates(p) PROVE FALSE
  BY <1>3 DEF OpUpdates, OpIs
<1>4. ASSUME NEW p \in Ops, OpStops(p) \/ OpAbandoned(p) \/ OpQueues(p) \/ OpDeletes(p)
             \/ OpKeeps(p) \/ OpThreads(p) \/ OpReplaces(p)
      PROVE FALSE
  BY <1>4 DEF OpStops, OpAbandoned, OpQueues, OpDeletes, OpKeeps, OpThreads, OpReplaces, OneOp
<1>5. ASSUME NEW p \in Ops, OpRemoves(p) \/ OpCommits(p) PROVE p = o
  BY <1>5 DEF OpRemoves, OpCommits, OneOp
<1>6. ASSUME UNCHANGED vars \/ StoreCrashes \/ StoreStarts
             \/ \E t \in Sessions : StoreDamaged(t)
      PROVE FALSE
  BY <1>6 DEF vars, StoreCrashes, StoreStarts, StoreDamaged
<1> QED BY <1>1, <1>2, <1>3, <1>4, <1>5, <1>6 DEF StoreMoves

\* An operation that is acknowledged keeps what it promises from then on.
LEMMA Acknowledged ==
    ASSUME Bounds, StoreInv, AckedInv, StoreMoves, TypeOK', NEW o \in Ops,
           ops[o].pc # "done", ops'[o].pc = "done",
           NEW s \in Sessions, ops'[o].session = s, Settled(s), Settled(s)'
    PROVE  Promised(o, s)'
<1>0. /\ TypeOK /\ StoreTypes
      /\ \A p \in Ops : Formed(p) /\ Holding(p) /\ Standing(p) /\ Marked(p)
  BY DEF StoreInv, StoreTypes, AckedInv
<1>1. OpRemoves(o) \/ OpCommits(o)
  BY NowDone
<1>2. CASE OpRemoves(o)
  <2>1. /\ ops[o].pc = "removing" /\ ops'[o].kind = ops[o].kind
        /\ ops[o].session = s /\ disk'[s].file = Absent /\ mem' = mem
        /\ \A q \in Ops \ {o} : ops'[q] = ops[q]
    BY <1>2 DEF OpRemoves, OneOp, FileIs
  <2>2. ops[o].kind = "delete" /\ mem[s] = Absent
    BY <1>0, <2>1 DEF Formed, Standing
  <2>3. \A q \in Ops : ops'[q].session = s => ops'[q].pc \notin Writing
    <3> SUFFICES ASSUME NEW q \in Ops, ops'[q].session = s, ops'[q].pc \in Writing
                 PROVE  FALSE
      OBVIOUS
    <3>1. q # o
      BY DEF Writing
    <3> QED BY <1>0, <2>1, <3>1, Exclusive
  <2> QED BY <2>1, <2>2, <2>3 DEF Promised
<1>3. CASE OpCommits(o)
  <2>1. /\ ops[o].pc = "written" /\ ops'[o].kind = ops[o].kind
        /\ ops[o].session = s /\ disk' = disk
        /\ mem' = [mem EXCEPT ![s] = ops[o].new]
        /\ \A q \in Ops \ {o} : ops'[q] = ops[q]
    BY <1>3 DEF OpCommits, OneOp
  <2>2. /\ ops[o].kind # "delete" /\ o \in ops[o].new.marks
        /\ disk[s].file = ops[o].new /\ ops[o].pc \in Writing
    BY <1>0, <2>1 DEF Formed, Marked, Writing
  <2>3. mem'[s] = ops[o].new
    BY <1>0, <2>1 DEF TypeOK
  <2>4. \A q \in Ops : ops'[q].session = s => ops'[q].pc \notin Writing
    <3> SUFFICES ASSUME NEW q \in Ops, ops'[q].session = s, ops'[q].pc \in Writing
                 PROVE  FALSE
      OBVIOUS
    <3>1. q # o
      BY DEF Writing
    <3> QED BY <2>1, <2>2, <3>1, OneWriter
  <2> QED BY <2>1, <2>2, <2>3, <2>4 DEF Promised
<1> QED BY <1>1, <1>2, <1>3

\* What has been acknowledged stays so.
LEMMA AckedKept ==
    ASSUME Bounds, StoreInv, AckedInv, StoreMoves, TypeOK', NEW o \in Ops PROVE Acked(o)'
<1>0. /\ TypeOK /\ StoreTypes /\ Acked(o)
      /\ \A p \in Ops : Formed(p)
      /\ \A p \in Ops : ops[p].session # None => ops[p].session \in Sessions
  BY SessionsOf DEF StoreInv, StoreTypes, AckedInv
<1> SUFFICES ASSUME ops'[o].pc = "done" PROVE Acked(o)'
  BY DEF Acked
<1>1. PICK s \in Sessions : ops'[o].session = s
                              /\ (ops[o].pc = "done" => ops[o].session = s)
  <2>1. CASE ops[o].pc = "done"
    <3>1. ops[o].session \in Sessions
      BY <1>0, <2>1 DEF Acked
    <3> QED BY <1>0, <3>1, OpStays, StoreNumbers
  <2>2. CASE ops[o].pc # "done"
    <3>1. OpRemoves(o) \/ OpCommits(o)
      BY <2>2, NowDone
    <3>2. ops'[o].session = ops[o].session
      BY <3>1 DEF OpRemoves, OpCommits, OneOp
    <3>3. ops[o].session \in Sessions
      BY <1>0, <3>1 DEF OpRemoves, OpCommits, Formed, Writing
    <3> QED BY <2>2, <3>2, <3>3
  <2> QED BY <2>1, <2>2
<1>2. ASSUME Settled(s)' PROVE Promised(o, s)'
  <2>1. Settled(s)
    BY <1>0, <1>2, SettledBefore
  <2>2. CASE ops[o].pc = "done"
    <3>1. Promised(o, s)
      BY <1>0, <1>1, <2>1, <2>2 DEF Acked, Promised
    <3> QED BY <1>1, <1>2, <2>1, <2>2, <3>1, PromisedKept
  <2>3. CASE ops[o].pc # "done"
    BY <1>1, <1>2, <2>1, <2>3, Acknowledged
  <2> QED BY <2>2, <2>3
<1> QED
  BY <1>1, <1>2 DEF Acked, Promised, Settled

\* Every step of the store keeps what is acknowledged.
LEMMA AckedStep ==
    ASSUME Bounds
    PROVE  StoreInv /\ AckedInv /\ [Next]_vars => AckedInv'
<1> SUFFICES ASSUME StoreInv, AckedInv, [Next]_vars PROVE AckedInv'
  OBVIOUS
<1>1. TypeOK' /\ StoreMoves
  BY StoreSteps DEF StoreInv
<1> QED
  BY <1>1, AckedKept, MarkedKept DEF AckedInv

\* Nothing is acknowledged in the first states.
LEMMA AckedInit == Init => AckedInv
<1> SUFFICES ASSUME Init, NEW o \in Ops PROVE Acked(o) /\ Marked(o)
  BY DEF AckedInv
<1>1. ops[o].pc = "idle"
  BY DEF Init, NoOp
<1> QED
  BY <1>1 DEF Acked, Marked, Writing

\* What has been acknowledged holds.
LEMMA AckedIsHeld == StoreInv /\ AckedInv => AcknowledgedHolds
<1> SUFFICES ASSUME StoreInv, AckedInv, NEW o \in Ops, ops[o].pc \in {"done", "kept"},
                    Settled(ops[o].session)
             PROVE  LET s == ops[o].session IN
                    IF ops[o].kind = "delete"
                    THEN mem[s] = Absent /\ (ops[o].pc = "done" => disk[s].file = Absent)
                    ELSE /\ mem[s] # Absent => o \in mem[s].marks
                         /\ disk[s].file \in State => o \in disk[s].file.marks
  BY DEF AcknowledgedHolds, Settled
<1>1. CASE ops[o].pc = "done"
  BY <1>1 DEF AckedInv, Acked
<1>2. CASE ops[o].pc = "kept"
  BY <1>2 DEF StoreInv, StoreTypes, Formed, Standing
<1> QED
  BY <1>1, <1>2

\* An acknowledged update is in memory and on disk for as long as its Session
\* exists, and a Session whose deletion has been acknowledged is gone from memory:
\* for good, and from disk, if its file was removed, and until the gateway ends if
\* the file was held and rmtree left it (the locks of SessionRepository, commit
\* after _atomic_replace, the ignored errors of JsonStateStore.delete).  A
\* rebinding, or a write that outlived its cancelled task, of the same Session is
\* excepted.
THEOREM AcknowledgedStays ==
    ASSUME Bounds
    PROVE  Spec => []AcknowledgedHolds
<1>1. Init => StoreInv /\ AckedInv
  BY StoreInit, AckedInit
<1>2. StoreInv /\ AckedInv /\ [Next]_vars => StoreInv' /\ AckedInv'
  BY StoreStep, AckedStep
<1>3. StoreInv /\ AckedInv => AcknowledgedHolds
  BY AckedIsHeld
<1> QED
  BY <1>1, <1>2, <1>3, PTL DEF Spec
=============================================================================
