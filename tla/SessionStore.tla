----------------------------- MODULE SessionStore ---------------------------
(***************************************************************************)
(* SessionRepository over JsonStateStore: the metadata of every Session in *)
(* memory, one session.json per Session on disk, an index of external      *)
(* conversations.  Operations on a Session exclude each other by its lock, *)
(* creation and deletion by the global lock; a thread writes a temporary   *)
(* file, replaces session.json with it and retries while another process   *)
(* holds the file; memory follows when the write has succeeded.            *)
(*                                                                         *)
(* The content of a Session is the external conversation it belongs to and *)
(* the set of operations that have changed it.  Identifiers of Sessions    *)
(* are fresh.  What a snapshot of the log writes is in SessionSnapshot.    *)
(***************************************************************************)
EXTENDS Naturals, FiniteSets

CONSTANTS
    MaxSessions,    \* bound on the Sessions of a behaviour
    Keys,           \* (channel_id, external_key) of external conversations
    MaxOps,         \* bound on its operations
    Replaces        \* _REPLACE_RETRIES

Sessions == 1 .. MaxSessions
Ops == 1 .. MaxOps
Absent == [is |-> "absent"]
Broken == [is |-> "broken"]
None == 0

VARIABLES
    up,         \* whether the gateway runs
    mem,        \* JsonStateStore.states
    corrupt,    \* JsonStateStore.corrupt
    index,      \* SessionRepository._external_sessions
    disk,       \* the directory of each Session
    global,     \* the holder of global_lock
    locks,      \* the holder of each Session's lock
    ops         \* the operations

vars == <<up, mem, corrupt, index, disk, global, locks, ops>>

State == [key : Keys \cup {None}, marks : SUBSET Ops]
Directory == [there : BOOLEAN, file : State \cup {Absent, Broken},
              tmps : SUBSET Ops, quarantined : BOOLEAN]
NoDirectory == [there |-> FALSE, file |-> Absent, tmps |-> {}, quarantined |-> FALSE]
Kinds == {"none", "create", "bind", "rebind", "update", "delete"}
\* A deletion that left session.json where it was is "kept", and "undone" when
\* the gateway has ended: the next start loads the file.  To its caller it is
\* "done" like any other.
Places == {"idle", "waiting", "locking", "writing", "replacing", "removing", "written",
           "done", "kept", "undone", "nothing", "failed", "orphan", "strayed", "lost"}
Operation == [kind : Kinds, session : Sessions \cup {None}, key : Keys \cup {None},
              pc : Places, new : State \cup {Absent}, tries : 0 .. Replaces]
NoOp == [kind |-> "none", session |-> None, key |-> None, pc |-> "idle",
         new |-> Absent, tries |-> 0]

TypeOK ==
    /\ up \in BOOLEAN
    /\ mem \in [Sessions -> State \cup {Absent}]
    /\ corrupt \subseteq Sessions
    /\ index \in [Keys -> Sessions \cup {None}]
    /\ disk \in [Sessions -> Directory]
    /\ global \in Ops \cup {None}
    /\ locks \in [Sessions -> Ops \cup {None}]
    /\ ops \in [Ops -> Operation]

Init ==
    /\ up = TRUE
    /\ mem = [s \in Sessions |-> Absent] /\ corrupt = {}
    /\ index = [k \in Keys |-> None]
    /\ disk = [s \in Sessions |-> NoDirectory]
    /\ global = None /\ locks = [s \in Sessions |-> None]
    /\ ops = [o \in Ops |-> NoOp]

\* make_session_id: an identifier nothing has been named by.
Fresh(s) == s = Cardinality({ops[o].session : o \in Ops} \ {None}) + 1
InFlight(o) ==
    ops[o].pc \notin {"idle", "done", "kept", "undone", "nothing", "failed", "strayed", "lost"}

\* The locks an operation gives back when it returns or raises.
Released(o) ==
    /\ global' = IF global = o THEN None ELSE global
    /\ locks' = [s \in Sessions |-> IF locks[s] = o THEN None ELSE locks[s]]
Ended(op, pc) == [op EXCEPT !.pc = pc, !.new = Absent, !.tries = 0]
Ends(o, pc) ==
    /\ ops' = [ops EXCEPT ![o] = IF pc = "orphan" THEN [@ EXCEPT !.pc = pc]
                                 ELSE Ended(@, pc)]
    /\ Released(o)

-----------------------------------------------------------------------------
(* Operations arrive, and take their locks.                                *)

Arrive(o, kind, s, k) ==
    /\ up /\ ops[o] = NoOp /\ \A p \in 1 .. o - 1 : ops[p] # NoOp
    /\ ops' = [ops EXCEPT ![o].kind = kind, ![o].session = s, ![o].key = k,
                          ![o].pc = "waiting"]
    /\ UNCHANGED <<up, mem, corrupt, index, disk, global, locks>>

Call(o) ==
    \/ \E s \in Sessions : Fresh(s) /\ Arrive(o, "create", s, None)
    \/ \E k \in Keys : Arrive(o, "bind", None, k)
    \/ \E s \in Sessions : \E kind \in {"update", "delete"} :
          (mem[s] # Absent \/ s \in corrupt) /\ Arrive(o, kind, s, None)

\* The write begins: commit hands the new state to a thread.
Write(o, kind, s, new) ==
    ops' = [ops EXCEPT ![o].kind = kind, ![o].session = s, ![o].new = new, ![o].pc = "writing",
                       ![o].tries = 0]

\* create_session, create_session_with_state: the latter refuses an identifier
\* that is taken, which a fresh one is not.
Create(o) ==
    /\ up /\ ops[o].kind = "create" /\ ops[o].pc = "waiting" /\ global = None
    /\ global' = o /\ UNCHANGED locks
    /\ Write(o, "create", ops[o].session, [key |-> None, marks |-> {o}])
    /\ UNCHANGED <<up, mem, corrupt, index, disk>>

\* Mutation: the global lock is not taken.
BindUnlocked(o) ==
    LET k == ops[o].key IN
    /\ up /\ ops[o].kind = "bind" /\ ops[o].pc = "waiting" /\ index[k] = None
    /\ \E s \in Sessions : Fresh(s) /\ Write(o, "bind", s, [key |-> k, marks |-> {o}])
    /\ UNCHANGED <<up, mem, corrupt, index, disk, global, locks>>
\* get_or_create_external_session.  It rewrites an existing Session without
\* its lock.
Bind(o) ==
    LET k == ops[o].key IN
    /\ up /\ ops[o].kind = "bind" /\ ops[o].pc = "waiting" /\ global = None
    /\ global' = o /\ UNCHANGED locks
    /\ IF index[k] # None /\ mem[index[k]] # Absent
       THEN Write(o, "rebind", index[k], [mem[index[k]] EXCEPT !.marks = @ \cup {o}])
       ELSE \E s \in Sessions :
               Fresh(s) /\ Write(o, "bind", s, [key |-> k, marks |-> {o}])
    /\ UNCHANGED <<up, mem, corrupt, index, disk>>

\* Mutation: the lock of the Session is not taken.
UpdateUnlocked(o) ==
    LET s == ops[o].session IN
    /\ up /\ ops[o].kind = "update" /\ ops[o].pc = "waiting"
    /\ mem[s] # Absent
    /\ Write(o, "update", s, [mem[s] EXCEPT !.marks = @ \cup {o}])
    /\ UNCHANGED <<up, mem, corrupt, index, disk, global, locks>>

\* update_session, update_session_metadata, mutate_session_metadata,
\* set_last_user_text: a Session that is not there is left alone (or an error).
Update(o) ==
    LET s == ops[o].session IN
    /\ up /\ ops[o].kind = "update" /\ ops[o].pc = "waiting" /\ locks[s] = None
    /\ IF mem[s] = Absent THEN Ends(o, "nothing")
       ELSE /\ locks' = [locks EXCEPT ![s] = o] /\ UNCHANGED global
            /\ Write(o, "update", s, [mem[s] EXCEPT !.marks = @ \cup {o}])
    /\ UNCHANGED <<up, mem, corrupt, index, disk>>

\* delete_session takes the global lock, then the lock of the Session.
DeleteGlobal(o) ==
    /\ up /\ ops[o].kind = "delete" /\ ops[o].pc = "waiting" /\ global = None
    /\ global' = o
    /\ ops' = [ops EXCEPT ![o].pc = "locking"]
    /\ UNCHANGED <<up, mem, corrupt, index, disk, locks>>
Delete(o) ==
    LET s == ops[o].session IN
    /\ up /\ ops[o].pc = "locking" /\ locks[s] = None
    /\ locks' = [locks EXCEPT ![s] = o]
    /\ mem' = [mem EXCEPT ![s] = Absent]
    /\ index' = [k \in Keys |-> IF index[k] = s THEN None ELSE index[k]]
    /\ ops' = [ops EXCEPT ![o].pc = "removing"]
    /\ UNCHANGED <<up, corrupt, disk, global>>
\* What rmtree may leave of a directory: it ignores the errors of what another
\* process holds, file by file.
Remains(d) ==
    {NoDirectory} \cup [there : {d.there}, file : {Absent, d.file}, tmps : SUBSET d.tmps,
                       quarantined : {FALSE, d.quarantined}]

\* JsonStateStore.delete: rmtree, in a thread, acknowledged whatever is left.
Removed(o) ==
    LET s == ops[o].session IN
    /\ up /\ ops[o].pc = "removing"
    /\ \E left \in Remains(disk[s]) :
          /\ disk' = [disk EXCEPT ![s] = left]
          /\ Ends(o, IF left.file = Absent THEN "done" ELSE "kept")
    /\ UNCHANGED <<up, mem, corrupt, index>>

-----------------------------------------------------------------------------
(* _atomic_replace.  A cancelled operation leaves its thread behind.       *)

InThread(o, place) ==
    ops[o].pc = place \/ (ops[o].pc = "orphan" /\ place = "writing" /\ ops[o].tries = 0)
                      \/ (ops[o].pc = "orphan" /\ place = "replacing" /\ ops[o].tries > 0)

\* The directory is made if need be; the temporary file is the writer's own.
WriteTemporary(o) ==
    LET s == ops[o].session IN
    /\ up /\ InThread(o, "writing")
    /\ disk' = [disk EXCEPT ![s].there = TRUE, ![s].tmps = @ \cup {o}]
    /\ ops' = [ops EXCEPT ![o].tries = 1,
                          ![o].pc = IF @ = "orphan" THEN @ ELSE "replacing"]
    /\ UNCHANGED <<up, mem, corrupt, index, global, locks>>

Replace(o) ==
    LET s == ops[o].session IN
    /\ up /\ InThread(o, "replacing") /\ o \in disk[s].tmps
    /\ disk' = [disk EXCEPT ![s].file = ops[o].new, ![s].tmps = @ \ {o}]
    /\ ops' = [ops EXCEPT ![o].pc = IF @ = "orphan" THEN "strayed" ELSE "written"]
    /\ UNCHANGED <<up, mem, corrupt, index, global, locks>>

\* The file is held by another process: wait and try again.
Held(o) ==
    /\ up /\ InThread(o, "replacing") /\ ops[o].tries < Replaces
    /\ ops' = [ops EXCEPT ![o].tries = @ + 1]
    /\ UNCHANGED <<up, mem, corrupt, index, disk, global, locks>>

\* The last attempt, or an error of another kind; the temporary file stays.
WriteFails(o) ==
    /\ up /\ (InThread(o, "writing") \/ InThread(o, "replacing"))
    /\ Ends(o, IF ops[o].pc = "orphan" THEN "strayed" ELSE "failed")
    /\ UNCHANGED <<up, mem, corrupt, index, disk>>

\* commit: memory and the index follow the file.
Commit(o) ==
    LET s == ops[o].session
        new == ops[o].new IN
    /\ up /\ ops[o].pc = "written"
    /\ mem' = [mem EXCEPT ![s] = new]
    /\ index' = [k \in Keys |-> IF new.key = k THEN s
                                ELSE IF index[k] = s THEN None ELSE index[k]]
    /\ Ends(o, "done")
    /\ UNCHANGED <<up, corrupt, disk>>

\* The task is cancelled while it awaits the thread.
Cancelled(o) ==
    /\ up /\ ops[o].kind = "update"
    /\ ops[o].pc \in {"writing", "replacing"}
    /\ Ends(o, "orphan")
    /\ UNCHANGED <<up, mem, corrupt, index, disk>>

-----------------------------------------------------------------------------
(* Crash and start.                                                        *)

Crash ==
    /\ up /\ up' = FALSE
    /\ mem' = [s \in Sessions |-> Absent] /\ corrupt' = {}
    /\ index' = [k \in Keys |-> None]
    /\ global' = None /\ locks' = [s \in Sessions |-> None]
    /\ ops' = [o \in Ops |-> IF InFlight(o) THEN Ended(ops[o], "lost")
                            ELSE IF ops[o].pc = "kept" THEN Ended(ops[o], "undone")
                            ELSE ops[o]]
    /\ UNCHANGED disk

\* The file is damaged from outside.
Damage(s) ==
    /\ ~up /\ disk[s].file \in State
    /\ disk' = [disk EXCEPT ![s].file = Broken]
    /\ UNCHANGED <<up, mem, corrupt, index, global, locks, ops>>

\* _quarantine: a rename that may fail.
Loaded(d, renamed) ==
    IF d.file = Broken /\ renamed
    THEN [d EXCEPT !.file = Absent, !.quarantined = TRUE] ELSE d

\* _sweep_orphan_session_dirs: rmtree again.  What it leaves is as good as what
\* was there, for nobody reads it.
Swept(d, held) == IF d.file = Absent /\ ~d.quarantined /\ ~held THEN NoDirectory ELSE d

\* load_all and _rebuild_indexes.
Start ==
    /\ ~up /\ up' = TRUE
    /\ mem' = [s \in Sessions |-> IF disk[s].file \in State THEN disk[s].file ELSE Absent]
    /\ corrupt' = {s \in Sessions : disk[s].file = Broken}
    /\ \E renamed, held \in SUBSET Sessions :
          disk' = [s \in Sessions |-> Swept(Loaded(disk[s], s \in renamed), s \in held)]
    /\ index' \in [Keys -> Sessions \cup {None}]
    /\ \A k \in Keys :
          LET bound == {s \in Sessions : mem'[s] # Absent /\ mem'[s].key = k} IN
          IF bound = {} THEN index'[k] = None ELSE index'[k] \in bound
    /\ UNCHANGED <<global, locks, ops>>

Next ==
    \/ Crash \/ Start
    \/ \E s \in Sessions : Damage(s)
    \/ \E o \in Ops : \/ Call(o) \/ Create(o) \/ Bind(o) \/ Update(o)
                      \/ DeleteGlobal(o) \/ Delete(o) \/ Removed(o)
                      \/ WriteTemporary(o) \/ Replace(o) \/ Held(o) \/ WriteFails(o)
                      \/ Commit(o) \/ Cancelled(o)
Spec == Init /\ [][Next]_vars

-----------------------------------------------------------------------------
(* Properties.                                                             *)

\* A write that has outlived its cancelled task, and a rebinding, are ordered
\* with no other operation on the Session.
Unordered(s) ==
    \E o \in Ops : ops[o].session = s /\ (ops[o].pc = "strayed" \/ ops[o].kind = "rebind")

\* A Session of the conversation whose deletion has been acknowledged is there
\* again: such a write makes its directory anew, or the directory was never
\* removed and the gateway has ended since.
Revived(k) ==
    \E o, d \in Ops :
        /\ ops[o].kind = "bind" /\ ops[o].key = k /\ ops[o].session # None
        /\ ops[d].kind = "delete" /\ ops[d].session = ops[o].session
        /\ \/ ops[d].pc = "undone"
           \/ /\ ops[d].pc = "done"
              /\ \E u \in Ops : ops[u].pc = "strayed" /\ ops[u].session = ops[o].session

\* An update that has been acknowledged is in memory and on disk, whatever was
\* updated, created or crashed beside it, for as long as the Session exists, a
\* deletion that is undone included.  A Session whose deletion has been
\* acknowledged is gone from memory, until the gateway ends if its file was held
\* and for good if not, and then it is gone from disk as well.
AcknowledgedHolds ==
    \A o \in Ops : ops[o].pc \in {"done", "kept"} /\ ~Unordered(ops[o].session) =>
        LET s == ops[o].session IN
        IF ops[o].kind = "delete"
        THEN mem[s] = Absent /\ (ops[o].pc = "done" => disk[s].file = Absent)
        ELSE /\ mem[s] # Absent => o \in mem[s].marks
             /\ disk[s].file \in State => o \in disk[s].file.marks

\* An external conversation has one Session, and the index leads to it: two
\* would split the conversation.  Only a Session that is there again after its
\* acknowledged deletion can do that.
OneSessionPerConversation ==
    \A s \in Sessions : mem[s] # Absent /\ mem[s].key # None =>
        index[mem[s].key] = s \/ Revived(mem[s].key)
=============================================================================
