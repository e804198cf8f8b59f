-------------------------- MODULE Components_proofs --------------------------
(***************************************************************************)
(* What the components that share no state promise, proved for every       *)
(* number of plugins, jobs, calls, tools, commands, processes, files,      *)
(* members of a team, clients, Sessions and operations on them.  Each      *)
(* component's invariant is kept by the steps of that component and by     *)
(* those of the others, which leave its variables alone.                   *)
(***************************************************************************)
EXTENDS Components, TurnServices_proofs, HostServices_proofs

-----------------------------------------------------------------------------
(* The store: what SessionStore_proofs says of it by itself holds of it    *)
(* here, because it has the same steps in both places.                     *)

DP == INSTANCE SessionStore_proofs WITH up <- storeUp, mem <- storeMem, corrupt <-
        storeCorrupt, index <- storeIndex, disk <- storeDisk, global <-
        storeGlobal, locks <- storeLocks, ops <- storeOps, Keys <- ExternalKeys

\* Each instance has a copy of what it takes from FiniteSets.
LEMMA SameInStore ==
    ASSUME NEW s
    PROVE  D!Cardinality(s) = DP!Cardinality(s)
BY DEF D!Cardinality, DP!Cardinality

\* The store of SessionStore_proofs is the one of this module.
LEMMA StoreSame ==
    /\ D!Init => DP!Init
    /\ [D!Next]_D!vars => [DP!Next]_DP!vars
    /\ DP!OneSessionPerConversation => D!OneSessionPerConversation
    /\ DP!AcknowledgedHolds => D!AcknowledgedHolds
<1> USE DEF D!None, DP!None, D!Absent, DP!Absent, D!Broken, DP!Broken, D!Sessions,
            DP!Sessions, D!Ops, DP!Ops, D!State, DP!State
<1>1. D!NoOp = DP!NoOp /\ D!NoDirectory = DP!NoDirectory
  BY DEF D!NoOp, DP!NoOp, D!NoDirectory, DP!NoDirectory
<1>2. D!Init => DP!Init
  BY <1>1 DEF D!Init, DP!Init
<1>3. ASSUME NEW o, NEW pc, D!Ends(o, pc) PROVE DP!Ends(o, pc)
  BY <1>3 DEF D!Ends, DP!Ends, D!Ended, DP!Ended, D!Released, DP!Released
<1>4. ASSUME NEW s PROVE D!Fresh(s) <=> DP!Fresh(s)
  BY SameInStore DEF D!Fresh, DP!Fresh
<1>5. ASSUME NEW o, NEW kind, NEW s, NEW new
      PROVE  D!Write(o, kind, s, new) <=> DP!Write(o, kind, s, new)
  BY DEF D!Write, DP!Write
<1>6. ASSUME NEW o, D!Call(o) PROVE DP!Call(o)
  <2>1. ASSUME NEW kind, NEW s, NEW k, D!Arrive(o, kind, s, k) PROVE DP!Arrive(o, kind, s, k)
    BY <1>1, <2>1 DEF D!Arrive, DP!Arrive
  <2> QED
    BY <1>4, <1>6, <2>1 DEF D!Call, DP!Call
<1>7. ASSUME NEW o, D!Create(o) PROVE DP!Create(o)
  BY <1>5, <1>7 DEF D!Create, DP!Create
<1>8. ASSUME NEW o, D!Bind(o) PROVE DP!Bind(o)
  BY <1>4, <1>5, <1>8 DEF D!Bind, DP!Bind
<1>9. ASSUME NEW o, D!Update(o) PROVE DP!Update(o)
  BY <1>3, <1>5, <1>9 DEF D!Update, DP!Update
<1>10. ASSUME NEW o, D!DeleteGlobal(o) \/ D!Delete(o) PROVE DP!DeleteGlobal(o) \/ DP!Delete(o)
  BY <1>10 DEF D!DeleteGlobal, DP!DeleteGlobal, D!Delete, DP!Delete
<1>11. ASSUME NEW o, D!Removed(o) PROVE DP!Removed(o)
  <2>1. D!Remains(storeDisk[storeOps[o].session]) = DP!Remains(storeDisk[storeOps[o].session])
    BY <1>1 DEF D!Remains, DP!Remains
  <2> QED
    BY <1>3, <1>11, <2>1 DEF D!Removed, DP!Removed
<1>12. ASSUME NEW o, NEW place PROVE D!InThread(o, place) <=> DP!InThread(o, place)
  BY DEF D!InThread, DP!InThread
<1>13. ASSUME NEW o, D!WriteTemporary(o) PROVE DP!WriteTemporary(o)
  BY <1>12, <1>13 DEF D!WriteTemporary, DP!WriteTemporary
<1>14. ASSUME NEW o, D!Replace(o) PROVE DP!Replace(o)
  BY <1>12, <1>14 DEF D!Replace, DP!Replace
<1>15. ASSUME NEW o, D!Held(o) PROVE DP!Held(o)
  BY <1>12, <1>15 DEF D!Held, DP!Held
<1>16. ASSUME NEW o, D!WriteFails(o) PROVE DP!WriteFails(o)
  BY <1>3, <1>12, <1>16 DEF D!WriteFails, DP!WriteFails
<1>17. ASSUME NEW o, D!Commit(o) \/ D!Cancelled(o) PROVE DP!Commit(o) \/ DP!Cancelled(o)
  BY <1>3, <1>17 DEF D!Commit, DP!Commit, D!Cancelled, DP!Cancelled
<1>18. D!Crash => DP!Crash
  BY DEF D!Crash, DP!Crash, D!InFlight, DP!InFlight, D!Ended, DP!Ended
<1>19. D!Start => DP!Start
  <2>1. ASSUME NEW d, NEW renamed, NEW held
        PROVE  D!Swept(D!Loaded(d, renamed), held) = DP!Swept(DP!Loaded(d, renamed), held)
    BY <1>1 DEF D!Swept, DP!Swept, D!Loaded, DP!Loaded
  <2> SUFFICES ASSUME D!Start PROVE DP!Start
    OBVIOUS
  <2> DEFINE Left(renamed, held) ==
               [s \in D!Sessions |-> D!Swept(D!Loaded(storeDisk[s], s \in renamed), s \in held)]
             Again(renamed, held) ==
               [s \in DP!Sessions |->
                   DP!Swept(DP!Loaded(storeDisk[s], s \in renamed), s \in held)]
  <2>2. PICK renamed \in SUBSET D!Sessions, held \in SUBSET D!Sessions :
           storeDisk' = Left(renamed, held)
    BY DEF D!Start
  <2>3. Left(renamed, held) = Again(renamed, held)
    BY <2>1
  <2>4. \E again, still \in SUBSET DP!Sessions : storeDisk' = Again(again, still)
    <3> HIDE DEF Left, Again
    <3> QED BY <2>2, <2>3
  <2> QED
    BY <2>4 DEF D!Start, DP!Start
<1>20. ASSUME NEW s, D!Damage(s) PROVE DP!Damage(s)
  BY <1>20 DEF D!Damage, DP!Damage
<1>21. [D!Next]_D!vars => [DP!Next]_DP!vars
  BY <1>6, <1>7, <1>8, <1>9, <1>10, <1>11, <1>13, <1>14, <1>15, <1>16, <1>17, <1>18, <1>19, <1>20
     DEF D!Next, DP!Next, D!vars, DP!vars
<1>22. DP!OneSessionPerConversation => D!OneSessionPerConversation
  BY DEF D!OneSessionPerConversation, DP!OneSessionPerConversation, D!Revived, DP!Revived
<1>23. DP!AcknowledgedHolds => D!AcknowledgedHolds
  BY DEF D!AcknowledgedHolds, DP!AcknowledgedHolds, D!Unordered, DP!Unordered
<1> QED
  BY <1>2, <1>21, <1>22, <1>23

-----------------------------------------------------------------------------
(* The components side by side: each takes its own steps and leaves the    *)
(* variables of the others alone.                                          *)

LEMMA ComponentsBegin ==
    Init => T!Init /\ H!Init /\ S!Init /\ G!Init /\ X!Init /\ V!Init /\ D!Init /\ E!Init
            /\ I!Init /\ Q!Init /\ P!Init /\ F!Init /\ K!Init /\ J!Init /\ M!Init
            /\ C!Init /\ L!Init /\ W!Init /\ R!Init
BY DEF Init

LEMMA TurnFrame == [Next]_vars => [T!Next]_T!vars
BY DEF Next, vars, turn, T!vars
LEMMA HooksFrame == [Next]_vars => [H!Next]_H!vars
BY DEF Next, vars, hooks, H!vars
LEMMA ScheduleFrame == [Next]_vars => [S!Next]_S!vars
BY DEF Next, vars, schedule, S!vars
LEMMA GatewayFrame == [Next]_vars => [G!Next]_G!vars
BY DEF Next, vars, gateway, G!vars
LEMMA ProcessFrame == [Next]_vars => [X!Next]_X!vars
BY DEF Next, vars, process, X!vars
LEMMA ToolsFrame == [Next]_vars => [V!Next]_V!vars
BY DEF Next, vars, tools, V!vars
LEMMA ReferencesFrame == [Next]_vars => [I!Next]_I!vars
BY DEF Next, vars, references, I!vars
LEMMA CommandsFrame == [Next]_vars => [Q!Next]_Q!vars
BY DEF Next, vars, command, Q!vars
LEMMA EditsFrame == [Next]_vars => [E!Next]_E!vars
BY DEF Next, vars, fileedits, E!vars
LEMMA McpFrame == [Next]_vars => [P!Next]_P!vars
BY DEF Next, vars, mcp, P!vars
LEMMA ConfigFrame == [Next]_vars => [F!Next]_F!vars
BY DEF Next, vars, config, F!vars
LEMMA SkillFilesFrame == [Next]_vars => [K!Next]_K!vars
BY DEF Next, vars, skillfiles, K!vars
LEMMA TracesFrame == [Next]_vars => [J!Next]_J!vars
BY DEF Next, vars, traces, J!vars
LEMMA TeamFrame == [Next]_vars => [M!Next]_M!vars
BY DEF Next, vars, team, M!vars
LEMMA CompactionFrame == [Next]_vars => [C!Next]_C!vars
BY DEF Next, vars, compaction, C!vars
LEMMA StreamFrame == [Next]_vars => [L!Next]_L!vars
BY DEF Next, vars, stream, L!vars
LEMMA RequestFrame == [Next]_vars => [R!Next]_R!vars
BY DEF Next, vars, request, R!vars
LEMMA WireFrame == [Next]_vars => [W!Next]_W!vars
BY DEF Next, vars, wire, W!vars, W!state, W!queues
LEMMA StoreFrame == [Next]_vars => [D!Next]_D!vars
BY DEF Next, vars, store, D!vars

\* A tool call has its effect once at most, and not at all once the user has
\* refused it, through pauses, answers, retries and cancellations (ReActRunner),
\* and who watches a call is told of one that was run before it is over
\* (ToolCallScheduler); for any number of calls and tools.
THEOREM ToolsRunAsAllowed == Spec => []RunsAsAllowed
<1>1. Init => TurnInv /\ AuditInv
  BY ComponentsBegin, TurnBegins
<1>2. TurnInv /\ AuditInv => RunsAsAllowed
  BY TurnHolds DEF RunsAsAllowed
<1> QED
  BY <1>1, TurnStep, TurnFrame, AuditStep, ToolsFrame, <1>2, PTL DEF Spec

\* A Session that waits for an answer has a question open for the user to answer
\* (TurnExecutor's pause): no cancellation, retry or answer to another question
\* leaves it paused with none.
THEOREM PausesAreAnswerable == Spec => []PausedHasAQuestion
<1>1. Init => TurnInv
  BY ComponentsBegin, TurnBegins
<1>2. TurnInv => PausedHasAQuestion
  BY TurnHolds DEF PausedHasAQuestion
<1> QED
  BY <1>1, TurnStep, TurnFrame, <1>2, PTL DEF Spec

\* The gateway in the background is in its file, or about to be entered by the
\* command that has started it (gateway_process.py), and what ProcessService has
\* started is given up or will be killed by its close; for any number of
\* commands and processes.
THEOREM EveryProcessIsOwned == Spec => []ProcessesAreOwned
<1>1. Init => GatewayInv /\ ProcessInv
  BY ComponentsBegin, GatewayInit, TurnBegins
<1>2. GatewayInv /\ ProcessInv => ProcessesAreOwned
  BY HostHolds, TurnHolds DEF ProcessesAreOwned
<1> QED
  BY <1>1, GatewayStep, GatewayFrame, ProcessStep, ProcessFrame, <1>2, PTL DEF Spec

\* A plugin that is gone runs no code (HookRuntime's unload barrier), for any
\* number of plugins, registrations and calls.
THEOREM PluginsGoneAreQuiet == Spec => []GoneIsQuiet
<1>1. Init => HooksInv
  BY ComponentsBegin, HooksInit
<1>2. HooksInv => GoneIsQuiet
  BY HostHolds DEF GoneIsQuiet
<1> QED
  BY <1>1, HooksStep, HooksFrame, <1>2, PTL DEF Spec

\* Of two runs of a job, the later fell due after the earlier was triggered
\* (CronScheduler marks a run before it is delivered), unless the job's file was
\* written with what had been read before another write of it.
THEOREM JobsAreTriggeredOnce == Spec => []TriggeredOnce
<1>1. Init => JobsInv
  BY ComponentsBegin, JobsInit
<1>2. JobsInv => TriggeredOnce
  BY HostHolds DEF TriggeredOnce
<1> QED
  BY <1>1, JobsStep, ScheduleFrame, <1>2, PTL DEF Spec

\* However often a command is sent, it succeeds once at most while its service
\* lives, unless its end could not be written to the Session; one that was
\* acknowledged is answered, unless it was unregistered or cut by close
\* (CommandService: _inflight, _completed, _request_results).  And a skill a message
\* refers to is in the Session once at most, however often on_before_reasoning is
\* dispatched for it, unless a dispatch ended before it marked what it had given.
\* For any number of commands, tasks, references and dispatches.
THEOREM AskedOnceDoneOnce == Spec => []DoneOnce
<1>1. I!Init /\ Q!Init => ReferencesInv /\ CommandsInv
  BY DoneOnceBegins
<1>2. ReferencesInv /\ [I!Next]_I!vars => ReferencesInv'
  BY ReferencesStep
<1>3. CommandsInv /\ [Q!Next]_Q!vars => CommandsInv'
  BY CommandsStep
<1>4. ReferencesInv /\ CommandsInv => DoneOnce
  BY DoneOnceHolds DEF DoneOnce
<1> QED
  BY ComponentsBegin, ReferencesFrame, CommandsFrame, <1>1, <1>2, <1>3, <1>4, PTL DEF Spec

\* An external conversation has one Session and the index leads to it
\* (SessionRepository over JsonStateStore), through creations, rebindings, updates,
\* deletions, failed and cancelled writes, damaged files, crashes and restarts;
\* the exception is a Session that is there again after its deletion has been
\* acknowledged: a write which outlived its cancelled task has made it anew, or
\* the removal left its file behind and the gateway has been started since.  For
\* any number of Sessions, operations and conversations.
THEOREM ConversationsAreOne == Spec => []OneSessionPerConversation
<1>0. DP!Bounds
  BY StoreAssumption DEF DP!Bounds
<1>1. D!Init => DP!StoreInv
  BY <1>0, DP!StoreInit, StoreSame
<1>2. DP!StoreInv /\ [D!Next]_D!vars => DP!StoreInv'
  BY <1>0, DP!StoreStep, StoreSame
<1>3. DP!StoreInv => OneSessionPerConversation
  BY StoreSame DEF DP!StoreInv, OneSessionPerConversation
<1> QED
  BY ComponentsBegin, StoreFrame, <1>1, <1>2, <1>3, PTL DEF Spec

\* An acknowledged update is in memory and on disk for as long as its Session
\* exists, and a Session whose deletion has been acknowledged is gone from memory:
\* for good, and from disk, if its file was removed, and until the gateway ends if
\* the file was held and rmtree left it (the locks of SessionRepository, commit
\* after _atomic_replace, the ignored errors of JsonStateStore.delete).  A
\* rebinding, or a write that outlived its cancelled task, of the same Session is
\* excepted.
THEOREM AcknowledgedStays == Spec => []AcknowledgedHolds
<1>0. DP!Bounds
  BY StoreAssumption DEF DP!Bounds
<1>1. D!Init => DP!StoreInv /\ DP!AckedInv
  BY <1>0, DP!StoreInit, DP!AckedInit, StoreSame
<1>2. DP!StoreInv /\ DP!AckedInv /\ [D!Next]_D!vars => DP!StoreInv' /\ DP!AckedInv'
  BY <1>0, DP!StoreStep, DP!AckedStep, StoreSame
<1>3. DP!StoreInv /\ DP!AckedInv => AcknowledgedHolds
  BY DP!AckedIsHeld, StoreSame DEF AcknowledgedHolds
<1> QED
  BY ComponentsBegin, StoreFrame, <1>1, <1>2, <1>3, PTL DEF Spec

\* Whatever was said in a Session is shown to the model or is in the summary that
\* is, also when it was said while that summary was being made, and however the
\* making ended (through_message_id and build_context_view): what a summary does
\* not cover is behind the last message it was made from.  For any number of
\* messages, chunks and callers.
THEOREM NothingIsForgotten == Spec => []NothingFallsOut
<1>1. C!Init => CompactionInv
  BY CompactionInit
<1>2. CompactionInv => NothingFallsOut
  BY CompactionHolds DEF NothingFallsOut
<1> QED
  BY ComponentsBegin, CompactionFrame, CompactionStep, <1>1, <1>2, PTL DEF Spec

\* What the turn keeps of the model is of the last attempt and of one model
\* (stream_with_fallback, the lists _stream_once makes anew), and an answer that
\* ended by itself has every call whose block was opened (BlockAssembler): no
\* chunk is taken before the response it is of, and a call is counted when its
\* block is closed.  For any number of attempts, chunks and tool calls.
THEOREM AnswersAreWhole == Spec => []AnswerIsOneStream
<1>1. StreamInv => AnswerIsOneStream
  BY StreamHolds DEF AnswerIsOneStream
<1> QED
  BY ComponentsBegin, StreamFrame, StreamBegins, StreamStep, <1>1, PTL DEF Spec

\* Every request pairs each call with its result, drops the ones that an
\* interruption has left alone and keeps all the user has said, in both of the
\* protocols (_msg_to_dicts, _normalize_chat_messages,
\* _convert_messages_to_responses_input); for a context of any length and any
\* calls.
THEOREM RequestsPairCalls == Spec => []RequestsAreWellFormed
<1>1. RequestInv => RequestsAreWellFormed
  BY RequestHolds DEF RequestsAreWellFormed
<1> QED
  BY ComponentsBegin, RequestFrame, RequestBegins, RequestStep, <1>1, PTL DEF Spec

\* When no call is under way, a member of a team that lives can be reached through
\* its leader's team and has its profile and binding (TeamService: add_member and
\* its undo, dissolve, the deletion of a member and of the leader); TeamInv says of
\* every moment which call is still going to see to a member that cannot.  For any
\* number of members and calls.
THEOREM MembersAreReachable == Spec => []NoMemberIsLeaked
<1>1. Init => TeamInv
  BY ComponentsBegin, TeamInit
<1>2. TeamInv => NoMemberIsLeaked
  BY TeamHolds DEF NoMemberIsLeaked
<1> QED
  BY <1>1, TeamStep, TeamFrame, <1>2, PTL DEF Spec

\* A scope that has an MCP server finds it connected and is among its users,
\* whatever other Sessions prepare, edit, dispose of or cancel (the MCP plugin's
\* lock and its pool of managers); and what the highest layer says of a tool
\* counts for the next view, in whatever order layers come and go (ToolService).
\* For any number of servers, configurations, Sessions and tools.
THEOREM ToolsAreTheirOwn == Spec => []NobodyStopsMyServer
<1>1. P!Init => McpInv
  BY McpInit
<1>2. V!Init => OverridesInv
  BY OverridesInit
<1>3. McpInv /\ OverridesInv => NobodyStopsMyServer
  BY OverridesSaid DEF McpInv, NobodyStopsMyServer
<1> QED
  BY ComponentsBegin, McpFrame, ToolsFrame, <1>1, McpStep, <1>2, OverridesStep, <1>3, PTL DEF Spec

\* What is written to a file is what its readers are told, and is not written over.
\* Between operations the service has the file's configuration or will see by its
\* stamp that it has not (ConfigService), unless another wrote into its own commit
\* or start; a skill is what its last operation answered, until somebody else
\* writes it (the skill plugin); parallel edits are as good as edits one after another
\* (_get_file_lock); and a client that has followed next_offset to its end has seen
\* every trace that was there when it began and has not been purged, unless one was
\* added between the count and the rows of a page (SQLiteTraceExporter).
\* For any number of values, skills, calls, lines, runs and any size of a page.
THEOREM FilesAreHeld == Spec => []FilesHold
<1>1. F!Init => ConfigInv
  BY ConfigInit
<1>2. K!Init => SkillsInv
  BY SkillsInit
<1>3. E!Init => EditsInv
  BY EditsInit
<1>4. J!Init => TracesInv
  BY TracesInit
<1>5. EditsInv /\ [E!Next]_E!vars => EditsInv'
  BY EditsStep, EditAssumption
<1>6. ConfigInv /\ SkillsInv /\ EditsInv /\ TracesInv => FilesHold
  BY ConfigSaid, SkillsSaid, EditsKept, TracesHold DEF FilesHold
<1> QED
  BY ComponentsBegin, ConfigFrame, SkillFilesFrame, EditsFrame, TracesFrame, <1>1, <1>2, <1>3,
     <1>4, ConfigStep, SkillsStep, <1>5, TracesStep, <1>6, PTL DEF Spec

\* A client with a complete baseline sees every later event, each after the one
\* before it, and has them all and the newest queue when nothing is under way
\* (_forward_loop, _dispatch_loop, _send_baseline and the output lock): what it
\* lacks is in the queues of frames, in order, and no frame of a Session is sent
\* while its baseline is made.  For any number of clients, Sessions, events and
\* changes of the inbox, and any limit of events_after.
THEOREM ClientsMissNothing == Spec => []NothingIsMissed
<1>1. WireInv => NothingIsMissed
  BY WireHolds DEF NothingIsMissed
<1> QED
  BY ComponentsBegin, WireFrame, WireBegins, WireStep, <1>1, PTL DEF Spec
=============================================================================
