------------------------------ MODULE SkillFiles ------------------------------
(***************************************************************************)
(* SkillService: the catalog of skills, which lives in files that users    *)
(* and other programs write too.                                           *)
(*                                                                         *)
(* A skill has the name its file's frontmatter gives, whatever the file is *)
(* called.  Only the global root is written by the service, and only it is *)
(* here.  What the service does it does on the event loop without a pause, *)
(* but other programs write between any two of its accesses.  Every write  *)
(* has a version of its own; of a skill's text only that is kept.          *)
(***************************************************************************)
EXTENDS Naturals, FiniteSets

CONSTANTS
    MaxNames,   \* names of skills, in the order of their files in the root
    MaxWrites   \* bound on the writes of files

Names == 1 .. MaxNames
\* <root>/<name>/SKILL.md comes before <root>/<name>.md in the listing.
Slots == Names \X {1, 2}
Dir(n) == <<n, 1>>
File(n) == <<n, 2>>
Slot(n, kind) == IF kind = "dir" THEN Dir(n) ELSE File(n)
Before(s, t) == s[1] < t[1] \/ (s[1] = t[1] /\ s[2] < t[2])

\* What is in a slot: a skill, something that is none, a directory without
\* SKILL.md, or nothing.
Nothing == [name |-> 0, version |-> 0]
Bare == [name |-> 0, version |-> 1]
Broken == [name |-> 0, version |-> 2]
Skill == [name : Names, version : 1 .. MaxWrites]
Nobody == MaxWrites + 1     \* "said": nothing is known of the skill,
Gone == 0                   \* or it has been deleted

VARIABLES
    root,       \* the global root
    op,         \* the create or update under way
    said,       \* what the service has told of a name, and nobody changed
    outside,    \* names whose files somebody else has written
    writes

vars == <<root, op, said, outside, writes>>

NoOp == [pc |-> "idle", name |-> 1, slot |-> File(1), alone |-> TRUE]

TypeOK ==
    /\ root \in [Slots -> Skill \cup {Nothing, Bare, Broken}]
    /\ op \in [pc : {"idle", "create", "update"}, name : Names, slot : Slots, alone : BOOLEAN]
    /\ said \in [Names -> 0 .. Nobody] /\ outside \subseteq Names
    /\ writes \in 0 .. MaxWrites

Init ==
    /\ root = [s \in Slots |-> Nothing]
    /\ op = NoOp /\ said = [n \in Names |-> Nobody] /\ outside = {} /\ writes = 0

IsFile(s) == root[s] \notin {Nothing, Bare}

\* _all and _resolve: the first of the skills with a name.
Candidates(n) == {s \in Slots : root[s].name = n}
First(set) == CHOOSE s \in set : \A t \in set \ {s} : Before(s, t)

\* _global_path fails, ...
Conflict(n) == IsFile(Dir(n)) /\ IsFile(File(n))
\* ... or finds the skill with the name, or else the file with the name.
\* Mutation: the file with the name only.
GlobalFile(n) == {s \in {Dir(n), File(n)} : IsFile(s)}
GlobalPath(n) ==
    IF Candidates(n) # {} THEN {First(Candidates(n))}
    ELSE {s \in {Dir(n), File(n)} : IsFile(s)}

Free == op.pc = "idle"

-----------------------------------------------------------------------------
(* Others.                                                                 *)

Edits(s) ==
    /\ writes < MaxWrites /\ writes' = writes + 1
    /\ \E entry \in {Nothing, Broken, [name |-> s[1], version |-> writes + 1]}
                 \cup {[name |-> n, version |-> writes + 1] : n \in Names}
                 \cup (IF s = Dir(s[1]) THEN {Bare} ELSE {}) :
          /\ entry # root[s]
          /\ root' = [root EXCEPT ![s] = entry]
          /\ said' = [n \in Names |-> IF n \in {s[1], root[s].name, entry.name}
                                      THEN Nobody ELSE said[n]]
    /\ outside' = outside \cup {s[1]}
    /\ op' = [op EXCEPT !.alone = Free]
    /\ UNCHANGED <<>>

-----------------------------------------------------------------------------
(* SkillService.                                                           *)

\* create: refused when there is anything of that name; the directory first.
Create(n, kind) ==
    LET slot == Slot(n, kind) IN
    /\ Free
    /\ ~Conflict(n) /\ GlobalPath(n) = {} /\ root[Dir(n)] = Nothing /\ root[File(n)] = Nothing
    /\ root' = IF kind = "dir" THEN [root EXCEPT ![slot] = Bare] ELSE root
    /\ op' = [pc |-> "create", name |-> n, slot |-> slot, alone |-> TRUE]
    /\ UNCHANGED <<said, outside, writes>>

\* update: the file keeps its place, whatever skill it holds.
Update(n) ==
    /\ Free /\ ~Conflict(n)
    /\ \E slot \in GlobalPath(n) :
          /\ root[slot] # Broken
          /\ op' = [pc |-> "update", name |-> n, slot |-> slot, alone |-> TRUE]
    /\ UNCHANGED <<root, said, outside, writes>>

\* _write_atomic, under the name the caller gave.
Write ==
    LET old == root[op.slot].name  n == op.name IN
    /\ ~Free /\ writes < MaxWrites
    /\ writes' = writes + 1
    /\ root' = [root EXCEPT ![op.slot] = [name |-> n, version |-> writes + 1]]
    /\ said' = [m \in Names |-> IF m = n THEN (IF op.alone THEN writes + 1 ELSE Nobody)
                                ELSE IF m = old THEN Nobody ELSE said[m]]
    /\ op' = NoOp
    /\ UNCHANGED <<outside>>
\* The write fails, and leaves the directory.
WriteFails ==
    /\ ~Free /\ op' = NoOp
    /\ UNCHANGED <<root, said, outside, writes>>

\* delete: the file, never the directory around it.
Delete(n) ==
    /\ Free /\ ~Conflict(n)
    /\ \E slot \in GlobalPath(n) :
          /\ root' = [root EXCEPT ![slot] = IF slot[2] = 1 THEN Bare ELSE Nothing]
          /\ said' = [m \in Names |->
                        IF m = n THEN (IF Candidates(n) \subseteq {slot} THEN Gone ELSE Nobody)
                        ELSE IF m = root[slot].name THEN Nobody ELSE said[m]]
    /\ UNCHANGED <<op, outside, writes>>

-----------------------------------------------------------------------------
Next ==
    \/ \E s \in Slots : Edits(s)
    \/ \E n \in Names : Update(n) \/ Delete(n)
    \/ \E n \in Names, kind \in {"file", "dir"} : Create(n, kind)
    \/ Write \/ WriteFails
Spec == Init /\ [][Next]_vars

-----------------------------------------------------------------------------
(* Properties.                                                             *)

\* What the service has answered for a skill is what a load of it from the
\* global root gives, for as long as nobody else writes the skill: the version
\* it created or updated, wherever its file is, and nothing after a delete.
\* A file called after a skill but holding another one is the exception: an
\* operation on the former changes the latter.  The service itself never makes
\* two files compete for a name, which fails every later operation on it.
AnswersHold ==
    \A n \in Names :
        /\ said[n] = Gone => Candidates(n) = {}
        /\ said[n] \in 1 .. MaxWrites =>
              Candidates(n) # {} /\ root[First(Candidates(n))] = [name |-> n, version |-> said[n]]
        /\ n \notin outside => ~Conflict(n)
=============================================================================
