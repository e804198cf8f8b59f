----------------------------- MODULE McpScopes -----------------------------
(***************************************************************************)
(* The MCP plugin.  Servers are configured in three layers, global, agent  *)
(* and project.  The global ones are one pool of connections, reloaded     *)
(* when the configuration changes.  Before a turn, prepare_view gives the  *)
(* Agent and the Session the tools of the entries their layers add or      *)
(* change; their connections are private managers that scopes with equal   *)
(* entries share, and whose last user stops them.                          *)
(*                                                                         *)
(* One Agent, and Sessions of one project.  An entry is a number: two that *)
(* differ are different configurations of a server.  Left out: the         *)
(* catalogue, the conversion of tools and results, profiles without a      *)
(* source of their own.                                                    *)
(***************************************************************************)
EXTENDS Naturals, FiniteSets, Sequences

CONSTANTS
    Servers,
    Sessions,
    Configs,    \* numbers above 0
    First,      \* the layers that have the first configuration of every server
    MaxEdits    \* bound on the writes of the sources

VARIABLES
    sources,    \* what the owners of the three layers hold
    edits,
    pool,       \* McpManager._connections of the global manager
    offered,    \* the servers whose global tools are registered
    reload,     \* the holder of _reload_lock, and who waits for it
    scopes,     \* _agent_states and _session_states
    managers,   \* _private_managers
    users,      \* _private_users
    holder,     \* of _state_lock
    calls       \* prepare_view, one per Session

vars == <<sources, edits, pool, offered, reload, scopes, managers, users, holder, calls>>

Layers == {"global", "agent", "project"}
Absent == 0
Off == 99       \* disabled or invalid
Entries == [Servers -> Configs \cup {Absent, Off}]
Keys == Servers \X Configs
Scopes == {"agent"} \cup Sessions
Connection == {"none", "down", "up"}

NoEntries == [m \in Servers |-> Absent]
NoScope == [there |-> FALSE, own |-> NoEntries, lower |-> NoEntries,
            refs |-> {}, tools |-> {}, denied |-> {}]
NoCall == [pc |-> "idle", global |-> NoEntries, agent |-> NoEntries, project |-> NoEntries,
           scope |-> "agent", todo |-> {}, server |-> {}, known |-> FALSE, left |-> {},
           stopping |-> FALSE]
NoReload == [pc |-> "idle", entries |-> NoEntries, queue |-> <<>>]

TypeOK ==
    /\ sources \in [Layers -> Entries] /\ edits \in 0 .. MaxEdits
    /\ \A m \in Servers : pool[m].state \in Connection
    /\ offered \subseteq Servers
    /\ reload.pc \in {"idle", "connecting", "listing"} /\ reload.entries \in Entries
    /\ \A sc \in Scopes : scopes[sc].refs \subseteq Keys /\ scopes[sc].tools \subseteq Servers
    /\ managers \in [Keys -> Connection] /\ users \in [Keys -> SUBSET Scopes]
    /\ holder \in Sessions \cup {"none"}
    /\ \A s \in Sessions :
          calls[s].pc \in {"idle", "locking", "scope", "disposing", "entries", "starting",
                           "listing", "rolling_back"}

\* start_and_register has returned.
Init ==
    /\ sources = [layer \in Layers |-> IF layer \in First THEN [m \in Servers |-> 1] ELSE NoEntries]
    /\ edits = 0
    /\ \E state \in {"up", "down"} : pool = [m \in Servers |->
          [entry |-> sources["global"][m], state |-> IF "global" \in First THEN state ELSE "none"]]
    /\ offered = {m \in Servers : pool[m].state = "up"} /\ reload = NoReload
    /\ scopes = [sc \in Scopes |-> NoScope]
    /\ managers = [k \in Keys |-> "none"] /\ users = [k \in Keys |-> {}]
    /\ holder = "none" /\ calls = [s \in Sessions |-> NoCall]

Scoped == <<scopes, managers, users, holder, calls>>

-----------------------------------------------------------------------------
(* The sources and the global manager                                      *)

\* create, update and delete write one layer; a global write also reloads,
\* as does the watcher of the configuration.
Write(layer, m, entry) ==
    /\ edits < MaxEdits /\ entry # sources[layer][m]
    /\ edits' = edits + 1
    /\ sources' = [sources EXCEPT ![layer][m] = entry]
    /\ reload' = IF layer = "global"
                 THEN [reload EXCEPT !.queue = Append(@, sources'["global"])] ELSE reload
    /\ UNCHANGED <<pool, offered, Scoped>>

Wanted(entries, m) == entries[m] \in Configs

\* What is gone or changed is disconnected, what is new or down connects.
ReloadBegins ==
    /\ reload.pc = "idle" /\ reload.queue # <<>>
    /\ LET entries == Head(reload.queue)
       IN  /\ reload' = [pc |-> "connecting", entries |-> entries, queue |-> Tail(reload.queue)]
           /\ pool' = [m \in Servers |->
                 IF ~Wanted(entries, m) THEN [entry |-> Absent, state |-> "none"]
                 ELSE IF pool[m].entry = entries[m] /\ pool[m].state = "up" THEN pool[m]
                 ELSE [entry |-> entries[m], state |-> "down"]]
    /\ UNCHANGED <<sources, edits, offered, Scoped>>

\* Every connect has returned, with success or without; the old tools go
\* before the new ones are asked for.
ReloadConnected ==
    /\ reload.pc = "connecting"
    /\ \E up \in SUBSET {m \in Servers : pool[m].state = "down"} :
          pool' = [m \in Servers |-> IF m \in up THEN [pool[m] EXCEPT !.state = "up"] ELSE pool[m]]
    /\ offered' = {}
    /\ reload' = [reload EXCEPT !.pc = "listing"]
    /\ UNCHANGED <<sources, edits, Scoped>>

ReloadRegisters ==
    /\ reload.pc = "listing"
    /\ offered' \in SUBSET {m \in Servers : pool[m].state = "up"}
    /\ reload' = [reload EXCEPT !.pc = "idle", !.entries = NoEntries]
    /\ UNCHANGED <<sources, edits, pool, Scoped>>

-----------------------------------------------------------------------------
(* prepare_view                                                            *)

Global == <<sources, edits, pool, offered, reload>>

Own(c, scope) == IF scope = "agent" THEN c.agent ELSE c.project
Lower(c, scope) ==
    IF scope = "agent" THEN c.global
    ELSE [m \in Servers |-> IF c.agent[m] # Absent THEN c.agent[m] ELSE c.global[m]]

Goto(s, pc) == calls' = [calls EXCEPT ![s].pc = pc]

\* The sources are read before the lock is asked for.
PrepareView(s) ==
    /\ calls[s].pc = "idle"
    /\ calls' = [calls EXCEPT ![s] = [NoCall EXCEPT !.pc = "locking", !.global = sources["global"],
                 !.agent = sources["agent"], !.project = sources["project"]]]
    /\ UNCHANGED <<Global, scopes, managers, users, holder>>

Locks(s) ==
    /\ calls[s].pc = "locking" /\ holder = "none"
    /\ holder' = s /\ Goto(s, "scope")
    /\ UNCHANGED <<Global, scopes, managers, users>>

\* _state_ready: the private connections of the scope are up.
Ready(sc) == \A k \in scopes[sc].refs : managers[k] = "up"

\* After the Agent the Session, and then the lock is released.
Passes(s) ==
    IF calls[s].scope = "agent"
    THEN calls' = [calls EXCEPT ![s].pc = "scope", ![s].scope = s] /\ UNCHANGED holder
    ELSE calls' = [calls EXCEPT ![s] = NoCall] /\ holder' = "none"

\* The state of the scope is published before its entries are worked off.
Publish(s, sc) ==
    LET c == calls[s]
        own == Own(c, sc)
        lower == Lower(c, sc)
    IN  /\ scopes' = [scopes EXCEPT ![sc] =
              [NoScope EXCEPT !.there = TRUE, !.own = own, !.lower = lower]]
        /\ calls' = [calls EXCEPT ![s].pc = "entries", ![s].stopping = FALSE,
              ![s].todo = {m \in Servers : own[m] # Absent /\ own[m] # lower[m]}]

Scope(s) ==
    LET c == calls[s]
        sc == c.scope
        state == scopes[sc]
    IN  /\ c.pc = "scope"
        /\ \/ /\ state.there /\ state.own = Own(c, sc) /\ state.lower = Lower(c, sc) /\ Ready(sc)
              /\ Passes(s) /\ UNCHANGED scopes
           \/ /\ state.there
              /\ ~(state.own = Own(c, sc) /\ state.lower = Lower(c, sc) /\ Ready(sc))
              /\ scopes' = [scopes EXCEPT ![sc] = NoScope]
              /\ calls' = [calls EXCEPT ![s].pc = "disposing", ![s].left = state.refs]
              /\ UNCHANGED holder
           \/ ~state.there /\ Publish(s, sc) /\ UNCHANGED holder
        /\ UNCHANGED <<Global, managers, users>>

\* Mutation: whoever disposes of its scope stops the manager.
WithoutAsking(k, sc) ==
    /\ users' = [users EXCEPT ![k] = @ \ {sc}]
    /\ managers' = [managers EXCEPT ![k] = "none"]

\* _dispose_scope_locked: a manager without users is taken out and stopped.
Without(k, sc) ==
    /\ users' = [users EXCEPT ![k] = @ \ {sc}]
    /\ managers' = [managers EXCEPT ![k] = IF users[k] \ {sc} = {} THEN "none" ELSE @]

Release(s, k) ==
    /\ calls[s].pc \in {"disposing", "rolling_back"} /\ k \in calls[s].left
    /\ Without(k, calls[s].scope)
    /\ calls' = [calls EXCEPT ![s].left = @ \ {k},
          ![s].stopping = users[k] \subseteq {calls[s].scope}]
    /\ UNCHANGED <<Global, scopes, holder>>

Disposed(s) ==
    /\ calls[s].left = {}
    /\ \/ calls[s].pc = "disposing" /\ Publish(s, calls[s].scope) /\ UNCHANGED holder
       \/ /\ calls[s].pc = "rolling_back"
          /\ calls' = [calls EXCEPT ![s] = NoCall] /\ holder' = "none"
          /\ UNCHANGED scopes
    /\ UNCHANGED <<Global, managers, users>>

\* _known_tool_names: what is registered under the name of the server now.
Known(m) == m \in offered \/ \E sc \in Scopes : m \in scopes[sc].tools

Uses(sc, k) ==
    /\ users' = [users EXCEPT ![k] = @ \cup {sc}]
    /\ scopes' = [scopes EXCEPT ![sc].refs = @ \cup {k}]

\* An entry that is enabled: by the global manager if the entry is its own, by
\* a private manager that is there, or by one that has to start first.
Entry(s, m) ==
    LET c == calls[s]
        entry == Own(c, c.scope)[m]
        lists == [calls EXCEPT ![s].pc = "listing", ![s].todo = @ \ {m}, ![s].server = {m},
                               ![s].known = Known(m)]
    IN  /\ c.pc = "entries" /\ m \in c.todo /\ entry \in Configs
        /\ \/ /\ entry = sources["global"][m]
              /\ calls' = lists /\ UNCHANGED <<scopes, users>>
           \/ /\ entry # sources["global"][m] /\ managers[<<m, entry>>] # "none"
              /\ calls' = lists /\ Uses(c.scope, <<m, entry>>)
           \/ /\ entry # sources["global"][m] /\ managers[<<m, entry>>] = "none"
              /\ calls' = [lists EXCEPT ![s].pc = "starting"] /\ UNCHANGED <<scopes, users>>
        /\ UNCHANGED <<Global, managers, holder>>

\* An entry that is off hides what it shadows, if anything is known of it.
Hides(s, m) ==
    LET c == calls[s]
        sc == c.scope
    IN  /\ c.pc = "entries" /\ m \in c.todo /\ Own(c, sc)[m] = Off
        /\ scopes' = IF Lower(c, sc)[m] # Absent /\ Known(m)
                     THEN [scopes EXCEPT ![sc].denied = @ \cup {m}] ELSE scopes
        /\ calls' = [calls EXCEPT ![s].todo = @ \ {m}]
        /\ UNCHANGED <<Global, managers, users, holder>>

\* A private manager starts also when its server cannot be reached.
Started(s) ==
    LET c == calls[s]
    IN  /\ c.pc = "starting"
        /\ \E m \in c.server, state \in {"up", "down"} :
              LET k == <<m, Own(c, c.scope)[m]>>
              IN  managers' = [managers EXCEPT ![k] = state] /\ Uses(c.scope, k)
        /\ Goto(s, "listing")
        /\ UNCHANGED <<Global, holder>>

\* build_mcp_tools_for_servers asks the private manager or the global one.
Connected(sc, m) ==
    IF \E k \in scopes[sc].refs : k[1] = m
    THEN \E k \in scopes[sc].refs : k[1] = m /\ managers[k] = "up"
    ELSE pool[m].state = "up"

\* The tools of a server that answers are registered; where the entry replaces
\* one of a lower layer, that one's tools are hidden.
Listed(s) ==
    LET c == calls[s]
        sc == c.scope
    IN  /\ c.pc = "listing"
        /\ \E m \in c.server, answers \in BOOLEAN :
              /\ answers => Connected(sc, m)
              /\ scopes' = [scopes EXCEPT
                    ![sc].tools = @ \cup {n \in {m} : answers},
                    ![sc].denied = @ \cup {n \in {m} : c.known /\ Lower(c, sc)[m] # Absent}]
        /\ calls' = [calls EXCEPT ![s].pc = "entries", ![s].server = {}, ![s].known = FALSE]
        /\ UNCHANGED <<Global, managers, users, holder>>

EntriesDone(s) ==
    /\ calls[s].pc = "entries" /\ calls[s].todo = {}
    /\ Passes(s)
    /\ UNCHANGED <<Global, scopes, managers, users>>

\* The turn is cancelled while the call waits, or a step of it raises: what
\* was registered for the scope is given back.  A cancelled disposal is not
\* taken up again.
Cancel(s) ==
    LET c == calls[s]
    IN  /\ \/ /\ c.pc = "locking"
              /\ calls' = [calls EXCEPT ![s] = NoCall]
              /\ UNCHANGED <<scopes, holder>>
           \/ /\ c.pc \in {"starting", "listing"}
              /\ scopes' = [scopes EXCEPT ![c.scope] = NoScope]
              /\ calls' = [calls EXCEPT ![s].pc = "rolling_back", ![s].left = scopes[c.scope].refs]
              /\ UNCHANGED holder
           \/ /\ c.pc \in {"disposing", "rolling_back"}
              /\ c.stopping
              /\ calls' = [calls EXCEPT ![s] = NoCall] /\ holder' = "none"
              /\ UNCHANGED scopes
        /\ UNCHANGED <<Global, managers, users>>

\* stop: every scope under the lock, then the global connections.
Stop ==
    /\ holder = "none" /\ reload.pc = "idle"
    /\ \E sc \in Scopes : scopes[sc].there
    /\ scopes' = [sc \in Scopes |-> NoScope]
    /\ users' = [k \in Keys |-> users[k] \ {sc \in Scopes : k \in scopes[sc].refs}]
    /\ managers' = [k \in Keys |-> IF users'[k] = {} THEN "none" ELSE managers[k]]
    /\ pool' = [m \in Servers |-> [entry |-> Absent, state |-> "none"]] /\ offered' = {}
    /\ UNCHANGED <<sources, edits, reload, holder, calls>>

Next ==
    \/ \E layer \in Layers, m \in Servers, entry \in Configs \cup {Absent, Off} :
          Write(layer, m, entry)
    \/ ReloadBegins \/ ReloadConnected \/ ReloadRegisters \/ Stop
    \/ \E s \in Sessions :
          \/ PrepareView(s) \/ Locks(s) \/ Scope(s) \/ Disposed(s) \/ Started(s)
          \/ Listed(s) \/ EntriesDone(s) \/ Cancel(s)
          \/ \E k \in Keys : Release(s, k)
          \/ \E m \in Servers : Entry(s, m) \/ Hides(s, m)
Spec == Init /\ [][Next]_vars

-----------------------------------------------------------------------------
\* The private connections a prepared scope refers to are there, and count it
\* among their users: no other scope's disposal, rollback or cancellation has
\* stopped them (_private_users).
NobodyStopsMyServer ==
    \A sc \in Scopes : \A k \in scopes[sc].refs : managers[k] # "none" /\ sc \in users[k]
=============================================================================
