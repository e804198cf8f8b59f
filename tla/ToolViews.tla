------------------------------- MODULE ToolViews -------------------------------
(***************************************************************************)
(* The tools: what is registered for everybody, for an Agent and for a     *)
(* Session, the restrictions by which a higher layer takes the place of a  *)
(* lower one, the view a turn is given of them, and one call of a tool     *)
(* through tool/before, the permission rules, the tool and tool/after,     *)
(* while the turn may be cancelled around it.                              *)
(*                                                                         *)
(* One Agent and one of its Sessions: what is registered for others is     *)
(* filtered out by its scope.  Plugins register for everybody, the MCP     *)
(* plugin for an Agent and a Session.  Arguments, injection, results and   *)
(* restrictions by "allow", which nobody makes, are left out; so is the    *)
(* approval service, which nobody provides: a rule that asks fails the     *)
(* call, and the turn asks the user.                                       *)
(***************************************************************************)
EXTENDS Naturals, Sequences, FiniteSets, SequencesExt

CONSTANT Names \* of tools

VARIABLES
    items,        \* _items, in the order of their registration
    restrictions, \* _restrictions
    view,         \* the _ToolView of the turn: the scope each name is taken from
    call          \* of run_one

vars == <<items, restrictions, view, call>>

Rank == [none |-> 0, global |-> 1, agent |-> 2, session |-> 3]
Layers == {"agent", "session"}
Item == [name : Names, scope : DOMAIN Rank \ {"none"}]
Restriction == [layer : Layers, name : Names, max : DOMAIN Rank \ {"none"}]
NoView == [n \in Names |-> "none"]
NoCall == [pc |-> "none", name |-> "none", stop |-> FALSE, denied |-> FALSE,
           ran |-> FALSE, after |-> FALSE, status |-> "none"]

TypeOK ==
    /\ items \in Seq(Item) /\ restrictions \subseteq Restriction
    /\ view \in [Names -> DOMAIN Rank]
    /\ call.pc \in {"none", "spawned", "before", "running", "after", "done"}
    /\ call.status \in {"none", "completed", "failed", "cancelled"}

Init ==
    /\ items = << >> /\ restrictions = {}
    /\ view = NoView /\ call = NoCall

-----------------------------------------------------------------------------
(* Registration and restriction.                                           *)

At(n, s) == {i \in DOMAIN items : items[i] = [name |-> n, scope |-> s]}
Registered(n, s) == At(n, s) # {}
With(n, s) == Append(items, [name |-> n, scope |-> s])
Without(n, s) == IF Registered(n, s) THEN RemoveAt(items, CHOOSE i \in At(n, s) : TRUE) ELSE items

\* register raises for a name that its scope has; the disposer removes it.
Register(n) ==
    /\ ~Registered(n, "global") /\ items' = With(n, "global")
    /\ UNCHANGED <<restrictions, view, call>>
Unregister(n) ==
    /\ Registered(n, "global") /\ items' = Without(n, "global")
    /\ UNCHANGED <<restrictions, view, call>>

Below(s) == IF s = "session" THEN "agent" ELSE "global"
Inherited(n, s) == \E i \in DOMAIN items : items[i].name = n /\ Rank[items[i].scope] < Rank[s]
Deny(n, s, max) ==
    restrictions' = IF Inherited(n, s)
                    THEN restrictions \cup {[layer |-> s, name |-> n, max |-> max]}
                    ELSE restrictions
Touched(n, s) == Registered(n, s) \/ \E r \in restrictions : r.layer = s /\ r.name = n

\* _prepare_scope_locked: a layer has a tool of its own, and denies what it
\* inherits, up to the layer below it ...
Override(n, s) ==
    /\ ~Touched(n, s)
    /\ items' = With(n, s) /\ Deny(n, s, Below(s))
    /\ UNCHANGED <<view, call>>
\* ... or has it disabled, and denies it up to itself.
Disable(n, s) ==
    /\ ~Touched(n, s) /\ Inherited(n, s)
    /\ Deny(n, s, s)
    /\ UNCHANGED <<items, view, call>>
\* _dispose_scope_locked
Lift(n, s) ==
    /\ Touched(n, s)
    /\ restrictions' = {r \in restrictions : ~(r.layer = s /\ r.name = n)}
    /\ items' = Without(n, s)
    /\ UNCHANGED <<view, call>>

-----------------------------------------------------------------------------
(* The view of a turn.                                                     *)

\* Mutation: a restriction denies every layer.
BluntHides(r, item) == r.name = item.name
Hides(r, item) == r.name = item.name /\ Rank[item.scope] <= Rank[r.max]
\* _visible: of what no restriction hides, the last one of each name.
Candidates(n) ==
    {i \in DOMAIN items : items[i].name = n /\ \A r \in restrictions : ~Hides(r, items[i])}
Visible(n) ==
    IF Candidates(n) = {} THEN "none"
    ELSE items[CHOOSE i \in Candidates(n) : \A j \in Candidates(n) : j <= i].scope

\* prepare_view, and what the profile allows and denies, for a turn that will
\* make one call.
Prepare ==
    /\ call.pc \in {"none", "done"}
    /\ \E allow, deny \in SUBSET Names, others \in BOOLEAN :
          view' = [n \in Names |->
                     IF n \notin deny /\ (n \in allow \/ (allow = {} /\ ~others))
                     THEN Visible(n) ELSE "none"]
    /\ call' = NoCall
    /\ UNCHANGED <<items, restrictions>>

-----------------------------------------------------------------------------
(* ToolCallScheduler.run_one and _execute_contribution.                    *)

Spawn ==
    /\ call.pc = "none"
    /\ \E n \in Names : call' = [call EXCEPT !.pc = "spawned", !.name = n]
    /\ UNCHANGED <<items, restrictions, view>>

Over(status) == [call EXCEPT !.pc = "done", !.status = status]
\* A call that is not in the view, or whose arguments are malformed, fails.
Enter ==
    /\ call.pc = "spawned"
    /\ call' \in {Over("failed")}
                 \cup (IF view[call.name] # "none" THEN {[call EXCEPT !.pc = "before"]} ELSE {})
    /\ UNCHANGED <<items, restrictions, view>>

\* The turn has been cancelled meanwhile, or the tool is run.
Granted ==
    IF call.stop THEN [call EXCEPT !.pc = "after", !.status = "cancelled", !.after = TRUE]
                 ELSE [call EXCEPT !.pc = "running", !.ran = TRUE]
\* The listeners of tool/before and then the rules: deny, ask, fail or grant.
Before ==
    /\ call.pc = "before"
    /\ call' \in {[Over("failed") EXCEPT !.denied = TRUE], Granted}
    /\ UNCHANGED <<items, restrictions, view>>

\* The tool returns or raises, and tool/after begins.
Return ==
    /\ call.pc = "running"
    /\ \E status \in {"completed", "failed"} :
          call' = [call EXCEPT !.pc = "after", !.status = status, !.after = TRUE]
    /\ UNCHANGED <<items, restrictions, view>>
\* The listeners of tool/after may replace the result, or raise.
After ==
    /\ call.pc = "after"
    /\ \E status \in {call.status, "failed", "completed"} : call' = Over(status)
    /\ UNCHANGED <<items, restrictions, view>>

\* The turn's cancellation is set.
Cancel ==
    /\ call.pc \notin {"none", "done"} /\ ~call.stop
    /\ call' = [call EXCEPT !.stop = TRUE]
    /\ UNCHANGED <<items, restrictions, view>>

\* Mutation: an interruption goes past tool/after.
SilentlyInterrupted == Over("cancelled")
Interrupted ==
    IF call.pc = "running"
    THEN [call EXCEPT !.pc = "after", !.status = "cancelled", !.after = TRUE]
    ELSE Over("cancelled")
\* The call's task is cancelled; what runs in a thread goes on, and nobody is told.
Interrupt ==
    /\ call.pc \in {"spawned", "before", "running", "after"}
    /\ call' = Interrupted
    /\ UNCHANGED <<items, restrictions, view>>

Next ==
    \/ \E n \in Names : Register(n) \/ Unregister(n)
    \/ \E n \in Names, s \in Layers : Override(n, s) \/ Disable(n, s) \/ Lift(n, s)
    \/ Prepare \/ Spawn \/ Enter \/ Before \/ Return \/ After
    \/ Cancel \/ Interrupt
Spec == Init /\ [][Next]_vars

-----------------------------------------------------------------------------
(* Properties.                                                             *)

\* What the highest layer says of a tool holds for the next view, in whatever
\* order the layers, and the plugins below them, come and go: its own tool
\* stands in for the inherited ones, and a tool it has disabled is gone.  It holds
\* for a layer that found something to deny; otherwise the last registration counts.
OverridesHold ==
    \A n \in Names, s \in Layers :
        (\E r \in restrictions : r.layer = s /\ r.name = n)
        /\ (s = "agent" => ~Touched(n, "session"))
        => Visible(n) = IF Registered(n, s) THEN s ELSE "none"

\* A tool that was run, to its end or not, is shown to tool/after before its
\* call is over, and one that was refused is neither run nor shown.
RunsAreAudited ==
    /\ call.pc = "done" /\ call.ran => call.after
    /\ call.denied => ~call.ran /\ ~call.after
=============================================================================
