--------------------------- MODULE SkillReferences ----------------------------
(***************************************************************************)
(* The skills a user's message refers to: on_before_reasoning puts each    *)
(* into the Session as a hint and marks the reference in the Session's     *)
(* metadata, so that another dispatch for the message skips it.            *)
(*                                                                         *)
(* References are those of one message, each to a skill of its own.  The   *)
(* catalog changes while the hook awaits: "usable" are the skills that are *)
(* found, enabled and open to users at the moment.                         *)
(***************************************************************************)
EXTENDS Naturals

CONSTANTS
    References,     \* how many there are, in the order of the text
    MaxDispatches   \* bound on the dispatches for the message

VARIABLES
    usable,     \* references whose skill resolves
    hook,       \* the dispatch under way
    dispatches,
    marks,      \* extension_invocations
    hints,      \* hint/message events of each reference
    cut         \* whether a dispatch ended between a hint and the mark

vars == <<usable, hook, dispatches, marks, hints, cut>>

Refs == 1 .. References
NoHook == [pc |-> "idle", next |-> 1, seen |-> {}, given |-> {}]

TypeOK ==
    /\ usable \subseteq Refs
    /\ hook \in [pc : {"idle", "resolving", "logging"}, next : 1 .. References + 1,
                 seen : SUBSET Refs, given : SUBSET Refs]
    /\ dispatches \in 0 .. MaxDispatches
    /\ marks \subseteq Refs /\ hints \in [Refs -> 0 .. MaxDispatches] /\ cut \in BOOLEAN

Init ==
    /\ usable \in SUBSET Refs
    /\ hook = NoHook /\ dispatches = 0 /\ marks = {}
    /\ hints = [r \in Refs |-> 0] /\ cut = FALSE

\* create, delete, toggle_disabled, register and its disposer, and edits.
Changes(r) ==
    /\ usable' = IF r \in usable THEN usable \ {r} ELSE usable \cup {r}
    /\ UNCHANGED <<hook, dispatches, marks, hints, cut>>

\* The first reasoning of a run for the message.
Dispatch ==
    /\ hook.pc = "idle" /\ dispatches < MaxDispatches
    /\ dispatches' = dispatches + 1
    /\ hook' = [NoHook EXCEPT !.pc = "resolving", !.seen = marks]
    /\ UNCHANGED <<usable, marks, hints, cut>>

\* The next reference is refused, was given before, or is given: logged.
Resolve ==
    LET r == hook.next IN
    /\ hook.pc = "resolving" /\ r \in Refs
    /\ hook' = IF r \in usable \ hook.seen THEN [hook EXCEPT !.pc = "logging"]
               ELSE [hook EXCEPT !.next = r + 1]
    /\ UNCHANGED <<usable, dispatches, marks, hints, cut>>
Log ==
    LET r == hook.next IN
    /\ hook.pc = "logging"
    /\ hints' = [hints EXCEPT ![r] = @ + 1]
    /\ hook' = [pc |-> "resolving", next |-> r + 1,
                seen |-> hook.seen \cup {r}, given |-> hook.given \cup {r}]
    /\ UNCHANGED <<usable, dispatches, marks, cut>>

\* The marks of all, in one write.
\* Mutation: those of this dispatch only.
MarkGiven ==
    /\ hook.pc = "resolving" /\ hook.next = References + 1
    /\ marks' = hook.given /\ hook' = NoHook
    /\ UNCHANGED <<usable, dispatches, hints, cut>>
Mark ==
    /\ hook.pc = "resolving" /\ hook.next = References + 1
    /\ marks' = hook.seen /\ hook' = NoHook
    /\ UNCHANGED <<usable, dispatches, hints, cut>>

\* The turn is cancelled, or a step fails.
Cut ==
    /\ hook.pc # "idle"
    /\ cut' = (cut \/ hook.given # {}) /\ hook' = NoHook
    /\ UNCHANGED <<usable, dispatches, marks, hints>>

Next == (\E r \in Refs : Changes(r)) \/ Dispatch \/ Resolve \/ Log \/ Mark \/ Cut
Spec == Init /\ [][Next]_vars

-----------------------------------------------------------------------------
(* Properties.                                                             *)

\* A reference is in the Session at most once, however often the hook is
\* dispatched for its message and whatever becomes of the skill meanwhile,
\* unless a dispatch ended between a hint and the marks; and once marked it is
\* there.
InjectedOnce ==
    /\ cut \/ \A r \in Refs : hints[r] <= 1
    /\ \A r \in marks : hints[r] >= 1
=============================================================================
