----------------------------- MODULE Components -----------------------------
(***************************************************************************)
(* The components that share no state, side by side.  A behaviour is a     *)
(* behaviour of one of them, "focus", while the others stay as they are    *)
(* initially: one run explores each on its own and never their product.    *)
(* The components that do interact are composed in SessionDispatch and     *)
(* SessionSnapshot.                                                        *)
(***************************************************************************)
EXTENDS TurnServices, HostServices

CONSTANTS
    \* SessionStore
    MaxSessions, ExternalKeys, MaxOps, Replaces

\* Sessions and the operations on them are numbered, a replacement is tried once
\* at least, and 0 stands for no conversation.
ASSUME StoreAssumption ==
    /\ MaxSessions \in Nat /\ MaxOps \in Nat /\ Replaces \in Nat \ {0}
    /\ 0 \notin ExternalKeys

VARIABLES
    focus,
    storeUp, storeMem, storeCorrupt, storeIndex, storeDisk, storeGlobal,
    storeLocks, storeOps

store == <<storeUp, storeMem, storeCorrupt, storeIndex, storeDisk,
           storeGlobal, storeLocks, storeOps>>
vars == <<focus, turn, hooks, store, team, wire, schedule, compaction, mcp,
          stream, request, gateway, process, config, skillfiles, references,
          command, fileedits, traces, tools>>

D == INSTANCE SessionStore WITH up <- storeUp, mem <- storeMem, corrupt <-
        storeCorrupt, index <- storeIndex, disk <- storeDisk, global <-
        storeGlobal, locks <- storeLocks, ops <- storeOps, Keys <-
        ExternalKeys

Init ==
    /\ focus \in {"turn", "hooks", "store", "team", "wire", "schedule",
                  "compaction", "mcp", "stream", "request", "gateway",
                  "process", "config", "skillfiles", "references",
                  "command", "fileedits", "traces", "tools"}
    /\ T!Init /\ (focus # "turn" => ~turnRemembers)
    /\ H!Init
    /\ D!Init
    /\ M!Init
    /\ W!Init
    /\ S!Init
    /\ C!Init
    /\ P!Init
    /\ L!Init
    /\ R!Init
    /\ G!Init /\ (focus # "gateway" => windows)
    /\ X!Init
    /\ F!Init /\ (focus # "config" => configFile.content # <<"not an object">>)
    /\ K!Init
    /\ I!Init /\ (focus # "references" => skillUsable = {})
    /\ Q!Init
    /\ E!Init /\ (focus # "fileedits" => ~editedThere)
    /\ J!Init
    /\ V!Init

Next ==
    \/ focus = "turn" /\ T!Next /\ UNCHANGED <<focus, hooks, store, team,
          wire, schedule, compaction, mcp, stream, request, gateway,
          process, config, skillfiles, references, command, fileedits,
          traces, tools>>
    \/ focus = "hooks" /\ H!Next /\ UNCHANGED <<focus, turn, store, team,
          wire, schedule, compaction, mcp, stream, request, gateway,
          process, config, skillfiles, references, command, fileedits,
          traces, tools>>
    \/ focus = "store" /\ D!Next /\ UNCHANGED <<focus, turn, hooks, team,
          wire, schedule, compaction, mcp, stream, request, gateway,
          process, config, skillfiles, references, command, fileedits,
          traces, tools>>
    \/ focus = "team" /\ M!Next /\ UNCHANGED <<focus, turn, hooks, store,
          wire, schedule, compaction, mcp, stream, request, gateway,
          process, config, skillfiles, references, command, fileedits,
          traces, tools>>
    \/ focus = "wire" /\ W!Next /\ UNCHANGED <<focus, turn, hooks, store,
          team, schedule, compaction, mcp, stream, request, gateway,
          process, config, skillfiles, references, command, fileedits,
          traces, tools>>
    \/ focus = "schedule" /\ S!Next /\ UNCHANGED <<focus, turn, hooks,
          store, team, wire, compaction, mcp, stream, request, gateway,
          process, config, skillfiles, references, command, fileedits,
          traces, tools>>
    \/ focus = "compaction" /\ C!Next /\ UNCHANGED <<focus, turn, hooks,
          store, team, wire, schedule, mcp, stream, request, gateway,
          process, config, skillfiles, references, command, fileedits,
          traces, tools>>
    \/ focus = "mcp" /\ P!Next /\ UNCHANGED <<focus, turn, hooks, store,
          team, wire, schedule, compaction, stream, request, gateway,
          process, config, skillfiles, references, command, fileedits,
          traces, tools>>
    \/ focus = "stream" /\ L!Next /\ UNCHANGED <<focus, turn, hooks,
          store, team, wire, schedule, compaction, mcp, request, gateway,
          process, config, skillfiles, references, command, fileedits,
          traces, tools>>
    \/ focus = "request" /\ R!Next /\ UNCHANGED <<focus, turn, hooks,
          store, team, wire, schedule, compaction, mcp, stream, gateway,
          process, config, skillfiles, references, command, fileedits,
          traces, tools>>
    \/ focus = "gateway" /\ G!Next /\ UNCHANGED <<focus, turn, hooks,
          store, team, wire, schedule, compaction, mcp, stream, request,
          process, config, skillfiles, references, command, fileedits,
          traces, tools>>
    \/ focus = "process" /\ X!Next /\ UNCHANGED <<focus, turn, hooks,
          store, team, wire, schedule, compaction, mcp, stream, request,
          gateway, config, skillfiles, references, command, fileedits,
          traces, tools>>
    \/ focus = "config" /\ F!Next /\ UNCHANGED <<focus, turn, hooks,
          store, team, wire, schedule, compaction, mcp, stream, request,
          gateway, process, skillfiles, references, command, fileedits,
          traces, tools>>
    \/ focus = "skillfiles" /\ K!Next /\ UNCHANGED <<focus, turn, hooks,
          store, team, wire, schedule, compaction, mcp, stream, request,
          gateway, process, config, references, command, fileedits,
          traces, tools>>
    \/ focus = "references" /\ I!Next /\ UNCHANGED <<focus, turn, hooks,
          store, team, wire, schedule, compaction, mcp, stream, request,
          gateway, process, config, skillfiles, command, fileedits,
          traces, tools>>
    \/ focus = "command" /\ Q!Next /\ UNCHANGED <<focus, turn, hooks,
          store, team, wire, schedule, compaction, mcp, stream, request,
          gateway, process, config, skillfiles, references, fileedits,
          traces, tools>>
    \/ focus = "fileedits" /\ E!Next /\ UNCHANGED <<focus, turn, hooks,
          store, team, wire, schedule, compaction, mcp, stream, request,
          gateway, process, config, skillfiles, references, command,
          traces, tools>>
    \/ focus = "traces" /\ J!Next /\ UNCHANGED <<focus, turn, hooks,
          store, team, wire, schedule, compaction, mcp, stream, request,
          gateway, process, config, skillfiles, references, command,
          fileedits, tools>>
    \/ focus = "tools" /\ V!Next /\ UNCHANGED <<focus, turn, hooks, store,
          team, wire, schedule, compaction, mcp, stream, request, gateway,
          process, config, skillfiles, references, command, fileedits,
          traces>>

Spec == Init /\ [][Next]_vars /\ T!Fairness /\ H!Fairness

TypeOK == T!TypeOK /\ H!TypeOK /\ D!TypeOK /\ M!TypeOK /\ W!TypeOK /\ S!TypeOK
          /\ C!TypeOK /\ P!TypeOK /\ L!TypeOK /\ R!TypeOK /\ G!TypeOK /\
          X!TypeOK /\ F!TypeOK /\ K!TypeOK /\ I!TypeOK /\ Q!TypeOK /\ E!TypeOK
          /\ J!TypeOK /\ V!TypeOK
\* A Session that waits for an answer has a question open (ReActRunner).
PausedHasAQuestion == T!PausedHasAQuestion
\* Every turn ends, whatever the model, the tools and the plugins do (decide).
TurnEnds == T!TurnEnds
\* A plugin that is gone runs no code (HookRuntime's unload barrier).
GoneIsQuiet == H!GoneIsQuiet
\* An unload waits for the calls of its plugin and only for those.
UnloadReturns == H!UnloadReturns
\* What SessionRepository has acknowledged is in memory and on disk.
AcknowledgedHolds == D!AcknowledgedHolds
\* The index leads to the one Session of an external conversation.
OneSessionPerConversation == D!OneSessionPerConversation
\* Every living member can be reached through its leader's team.
NoMemberIsLeaked == M!NoMemberIsLeaked
\* A client with a baseline gets every later event and the newest queue.
NothingIsMissed == W!NothingIsMissed
\* No due time of a job is triggered twice, over crashes and second scans.
TriggeredOnce == S!TriggeredOnce
\* A message is shown to the model or is in the summary that is.
NothingFallsOut == C!NothingFallsOut
\* What a turn keeps of the model is the whole of one attempt of one model.
AnswerIsOneStream == L!AnswerIsOneStream
\* Every request pairs calls with results and loses nothing that was said.
RequestsAreWellFormed == R!RequestsAreWellFormed
\* A tool has the effect that was allowed, and who watches is told of it.
RunsAsAllowed == T!RunsAsAllowed /\ V!RunsAreAudited
\* A Session has the tools its own layers give it, whatever others do.
NobodyStopsMyServer == P!NobodyStopsMyServer /\ V!OverridesHold
\* Nothing the program starts runs without somebody who can stop it.
ProcessesAreOwned == G!BackgroundIsTracked /\ X!CommandsAreReaped
\* What was written to a file is what its readers are told, and is not written over.
FilesHold == F!ConfigFollowsFile /\ K!AnswersHold /\ E!EditsAreKept /\ J!EveryTraceIsListed
\* What was asked for once is done once.
DoneOnce == I!InjectedOnce /\ Q!CommandsHold
=============================================================================
