----------------------------- MODULE HookPlugins ----------------------------
(***************************************************************************)
(* Plugins and the hooks they listen to: PluginManager and PluginLoader    *)
(* start, unload and restart plugins; HookRuntime counts the calls of each *)
(* listener, and its "drained" event holds an unload back until the calls  *)
(* under way have ended.                                                   *)
(*                                                                         *)
(* Fibers are Cordis's and external: a Fiber runs apply, which registers   *)
(* one listener per plugin here; disposing of it removes the listener from *)
(* the dispatch lists and awaits what the disposers return.  Cordis calls  *)
(* no listener it has removed.  Payloads, results and scopes are left out. *)
(***************************************************************************)
EXTENDS Naturals, FiniteSets

CONSTANTS
    Plugins,
    Required,           \* the plugins whose manifest says required
    MaxCalls,           \* bound on the calls of one listener under way
    MaxRegistrations    \* bound on how often listeners are registered

Ids == 1 .. MaxRegistrations

VARIABLES
    boot,       \* PluginManager.load: "selected", "settling", "up", "refused"
    fibers,     \* the state of the Fiber of each plugin
    tracked,    \* PluginLoader._manifests
    regs,       \* the registrations, in the order of their identifiers
    calls       \* calls under way: registration -> their number

vars == <<boot, fibers, tracked, regs, calls>>

FiberStates == {"none", "loading", "active", "failed", "closing"}
Registration == [plugin : Plugins, once : BOOLEAN, active : 0 .. MaxCalls,
                 drained : BOOLEAN, disposed : BOOLEAN, removed : BOOLEAN]

TypeOK ==
    /\ boot \in {"selected", "settling", "up", "refused"}
    /\ fibers \in [Plugins -> FiberStates]
    /\ tracked \subseteq Plugins
    /\ \E n \in 0 .. MaxRegistrations :
          regs \in [1 .. n -> Registration] /\ calls \in [1 .. n -> 0 .. MaxCalls]

Init ==
    /\ boot = "selected"
    /\ fibers = [p \in Plugins |-> "none"] /\ tracked = {}
    /\ regs = << >> /\ calls = << >>

Count == Cardinality(DOMAIN regs)
Of(p) == {i \in DOMAIN regs : regs[i].plugin = p}
\* The listeners Cordis would call.
Listening == {i \in DOMAIN regs : ~regs[i].removed}

-----------------------------------------------------------------------------
(* PluginManager.load, PluginLoader.load.                                  *)

\* The selection; a required plugin that is disabled is an error before this.
Load ==
    /\ boot = "selected" /\ boot' = "settling"
    /\ \E selected \in SUBSET Plugins :
          /\ Required \subseteq selected
          /\ tracked' = selected
          /\ \E imported \in SUBSET selected :
                fibers' = [p \in Plugins |-> IF p \in imported THEN "loading"
                                             ELSE IF p \in selected THEN "failed"
                                             ELSE "none"]
    /\ UNCHANGED <<regs, calls>>

\* HookRuntime.register, called by apply.
Register(p, once) ==
    /\ Count < MaxRegistrations
    /\ regs' = [i \in 1 .. Count + 1 |->
                  IF i <= Count THEN regs[i]
                  ELSE [plugin |-> p, once |-> once, active |-> 0, drained |-> TRUE,
                        disposed |-> FALSE, removed |-> FALSE]]
    /\ calls' = [i \in 1 .. Count + 1 |-> IF i <= Count THEN calls[i] ELSE 0]

\* The Fiber has run apply, or apply raised: Cordis then disposes of what it
\* had registered.
Apply(p) ==
    /\ fibers[p] = "loading"
    /\ \/ \E once \in BOOLEAN : Register(p, once)
          /\ fibers' = [fibers EXCEPT ![p] = "active"]
       \/ /\ fibers' = [fibers EXCEPT ![p] = "failed"]
          /\ UNCHANGED <<regs, calls>>
    /\ UNCHANGED <<boot, tracked>>

\* dispose of a receipt, and lifecycle_dispose of the Fiber: no new calls.
Disposed(p) ==
    [i \in DOMAIN regs |-> IF regs[i].plugin = p
                           THEN [regs[i] EXCEPT !.disposed = TRUE, !.removed = TRUE]
                           ELSE regs[i]]

\* load has awaited every Fiber: a required plugin that is not active closes
\* the root Context.
Gate ==
    /\ boot = "settling" /\ \A p \in Plugins : fibers[p] # "loading"
    /\ IF \A p \in Required : fibers[p] = "active"
       THEN boot' = "up" /\ UNCHANGED <<fibers, tracked, regs>>
       ELSE /\ boot' = "refused"
            /\ fibers' = [p \in Plugins |-> IF fibers[p] = "active" THEN "closing"
                                                                  ELSE fibers[p]]
            /\ regs' = [i \in DOMAIN regs |->
                          [regs[i] EXCEPT !.disposed = TRUE, !.removed = TRUE]]
            /\ UNCHANGED tracked
    /\ UNCHANGED calls

-----------------------------------------------------------------------------
(* dispatch and the listener's wrapper.                                    *)

Entered(r) == [r EXCEPT !.active = @ + 1, !.drained = FALSE,
                        !.removed = @ \/ r.once]
\* dispatch: every listener is entered; Cordis removes a "once" listener first.
Dispatch ==
    /\ Listening # {} /\ \A i \in Listening : regs[i].active < MaxCalls
    /\ regs' = [i \in DOMAIN regs |-> IF i \in Listening THEN Entered(regs[i]) ELSE regs[i]]
    /\ calls' = [i \in DOMAIN calls |-> IF i \in Listening THEN calls[i] + 1 ELSE calls[i]]
    /\ UNCHANGED <<boot, fibers, tracked>>

\* Mutation: the end of any call opens the barrier.
ReleasedEarly(r) ==
    [r EXCEPT !.active = @ - 1, !.drained = TRUE, !.disposed = @ \/ r.once]
\* Mutation: the barrier is not opened again.
ReleasedShut(r) == [r EXCEPT !.active = @ - 1, !.disposed = @ \/ r.once]
\* _release_call
Released(r) ==
    [r EXCEPT !.active = @ - 1, !.drained = r.active = 1, !.disposed = @ \/ r.once]

\* A listener returns or raises; either way _finish_async releases the call.
Return(i) ==
    /\ calls[i] > 0
    /\ calls' = [calls EXCEPT ![i] = @ - 1]
    /\ regs' = [regs EXCEPT ![i] = Released(regs[i])]
    /\ UNCHANGED <<boot, fibers, tracked>>

-----------------------------------------------------------------------------
(* unload, restart.                                                        *)

\* PluginLoader.unload forgets the plugin first, then disposes of its Fiber.
Unload(p) ==
    /\ boot = "up" /\ p \in tracked /\ fibers[p] \in {"active", "failed"}
    /\ tracked' = tracked \ {p}
    /\ fibers' = [fibers EXCEPT ![p] = IF @ = "active" THEN "closing" ELSE "none"]
    /\ regs' = Disposed(p)
    /\ UNCHANGED <<boot, calls>>

\* fiber.restart keeps it in the table.
Restart(p) ==
    /\ boot = "up" /\ p \in tracked /\ fibers[p] \in {"active", "failed"}
    /\ fibers' = [fibers EXCEPT ![p] = IF @ = "active" THEN "closing" ELSE "loading"]
    /\ regs' = Disposed(p)
    /\ UNCHANGED <<boot, tracked, calls>>

\* The Fiber has awaited the disposers: wait_for_quiescence returned for all.
MayClose(p) == \A i \in Of(p) : regs[i].drained
Closed(p) ==
    /\ fibers[p] = "closing" /\ MayClose(p)
    /\ fibers' = [fibers EXCEPT ![p] = IF boot = "up" /\ p \in tracked THEN "loading" ELSE "none"]
    /\ UNCHANGED <<boot, tracked, regs, calls>>

\* load is called again for a plugin that has been unloaded.
LoadAgain(p) ==
    /\ boot = "up" /\ p \notin tracked /\ fibers[p] = "none"
    /\ tracked' = tracked \cup {p} /\ fibers' = [fibers EXCEPT ![p] = "loading"]
    /\ UNCHANGED <<boot, regs, calls>>

Settle == \E p \in Plugins : Apply(p) \/ Closed(p)
Next ==
    \/ Load \/ Gate \/ Dispatch \/ Settle
    \/ \E i \in DOMAIN regs : Return(i)
    \/ \E p \in Plugins : Unload(p) \/ Restart(p) \/ LoadAgain(p)

\* The listeners of a plugin return, and Cordis finishes what it has begun.
Fairness ==
    \A p \in Plugins : WF_vars(Closed(p)) /\ WF_vars(\E i \in Of(p) : Return(i))
Spec == Init /\ [][Next]_vars /\ Fairness

-----------------------------------------------------------------------------
(* Properties.                                                             *)

\* A plugin that is gone runs no code: when its Fiber has been disposed of,
\* none of its listeners is still in a call that began before.
GoneIsQuiet ==
    \A p \in Plugins : fibers[p] \in {"none", "failed", "loading"} =>
        \A i \in Of(p) : calls[i] = 0

\* An unload waits for calls, and only for those: the barrier opens.
UnloadReturns == \A p \in Plugins : []<>(fibers[p] # "closing")
=============================================================================
