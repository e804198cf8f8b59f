# A verification project for the FTRE Gateway

FTRE is a gateway for AI agents: one Python process, one asyncio loop, a host
(`src/ftre`) and a dozen packages (`packages/ftre-*`) that are wired together
by plugins and hooks. A client sends inputs to a *Session*; an input waits in
the Inbox of the Session, becomes a *turn* of an agent, and everything the turn
does is logged as numbered events, from which messages, snapshots and live
frames are derived.

The TLA+ modules in this directory model the path of an input (how it is kept,
when it becomes a turn, who may run at the same time, and how what it produced
reaches the disk and the clients), what happens inside a turn, and the services
around it: plugins, storage, compaction, the requests to a model and its
answers, tools, MCP servers, teams, schedules, child processes, configuration,
skills, commands, files, traces and the gateway process itself. TLC checks them
on small instances; TLAPS proves, for every value of the constants, 35 of the 40
properties of those runs: all that are not liveness, the refinement of the
Inbox's abstract specification among them, three of them without rollbacks
(section 5).

Paths below are relative to the repository. Documentation and comments that
are quoted in Chinese are quoted because a property states them.

## 1. The system

| Part | State | Operations | What makes it hard |
| --- | --- | --- | --- |
| **Inbox repository** `packages/ftre-inbox/.../repository.py`, `models.py` | two queues per Session in memory, `inbox.json`, one asyncio lock per Session | admit, claim, remove, edit, promote, delete_session, load_all | the memory changes before a worker thread writes the file; the task may be cancelled, the write may fail, the process may stop in between |
| **Inbox service** `.../service.py`, `plugin.py` | receipts, one dispatch task per Session and two flags that merge requests for it | followup, steer, inject, edit, remove, promote, cancel, wait, wait_session_quiescent, the dispatch task, the claim before a reasoning step | it reads whether the agent is busy, awaits, and acts on the answer |
| **AgentService** `packages/ftre-agent/.../service.py` | entries with a state, agents in flight, results of requests | create, run, cancel, resume_confirmation, status, dispose | a gate in front of the runtime, with a state of its own |
| **AgentLoop** `packages/ftre-agent-runtime/.../engine.py` | reservations, direct tasks, maintenance marks | run_input, resume_confirmation, cancel_session | two entries (dispatch, confirmation) into one Session; hooks at both ends |
| **TurnExecutor, ReAct runner** `turn_executor.py`, `react_runner.py`, `executors/` | one turn: calls, confirmations, retries | drive, append events, flush, resume | cancellation in every await |
| **Compaction** `packages/ftre-compaction` | one shared task per Session | compact, cancel_compact; hooks before a claim, after a run, on a full context; `/compact` | several waiters of one task, each of which may be cancelled |
| **SessionLog** `packages/ftre-agent/.../session/log.py` | live events and their numbers | append, tail, reset, load | commit point of a turn |
| **SessionService** `src/ftre/services/session/service.py` | baseline of messages, logs, request index | append, snapshot, attach, rollback, fork, request_state | capture, lock and commit are three moments |
| **SnapshotCoordinator** `persistence/snapshot.py` | dirty flag, generation, waiters, one task per Session | mark_dirty, flush | a barrier over a loop that may fail and be overtaken |
| **SessionRepository, JsonStateStore** `persistence/repository.py`, `json_store.py` | states in memory and on disk, locks | commit, metadata, load_all, quarantine | atomic replacement, broken files |
| **Hook runtime** `src/ftre/kernel/hooks` | listeners, in-flight counters, drained events | register, dispatch, unregister, wait for quiescence | unloading while listeners run |
| **Plugin kernel** `src/ftre/kernel/plugins` | Fibers, the set of loaded plugins | load, gate, unload, restart | required plugins that fail, partial failure |
| **Messaging, WebSocket** `services/messaging`, `plugins/builtin/channels` | sockets and their attachments, three queues, an output lock per Session | attach, prompt, publish, send, disconnect | what is logged while a baseline is read; slow sockets |
| **Compaction's content** `ftre-compaction/.../service.py`, `context.py` | summaries and markers in the history | chunk, summarise, merge, fall back, build the view | messages that arrive while a summary is made |
| **LLM** `packages/ftre-llm*`, `executors/reasoning.py` | adapters, streams, the blocks of an answer | route, stream, check, fall back, retry, cancel | a provider that breaks off anywhere |
| **Tools** `services/tools`, `tool_calls.py` | contributions, restrictions, the view of a turn | register, restrict, prepare, execute | layers that come and go in any order; cancellation |
| **MCP** `plugins/builtin/mcp` | a global pool, private connections with users, scopes | reload, prepare a view, dispose, stop | shared connections, await at every step |
| **Team, task** `packages/ftre-team`, `ftre-task` | teams in metadata, member Sessions, bindings, profiles | add, send, dissolve | five steps with undo, from threads, beside deletions |
| **Schedule** `plugins/builtin/schedule` | a file per job | scan, mark, trigger, edit | crash between mark and delivery; edits from two sides |
| **Process service, bash** `packages/ftre-process` | handles, process groups | run, spawn, terminate, kill, close | timeouts and cancellations as a shell ends |
| **Gateway process** `app/gateway/process.py` | the state file, the processes | start, stop, status, restart | no lock; reused identifiers; interruption |
| **Configuration** `services/config`, `agent_profile` | value, revision, signatures, a cache | open, poll, commit, notify, load | edits by hand between any two reads |
| **Skills** `plugins/builtin/skill` | files, invocations marked in metadata | create, update, delete, inject | other writers; a dispatch that is cut |
| **Commands** `plugins/builtin/command` | definitions, tasks, completed requests | submit, run, record, close | repeated requests, reloads |
| **File tools, trace** `core_tools`, `plugins/builtin/trace` | files; rows of runs | edit, write; start, end, purge, list | parallel calls of a batch; pages over a moving table |

How they interact. A channel hands an input to `InboxService`; `_admit` stores
it through `InboxRepository` and, if the agent is idle, schedules the dispatch
task. That task asks the hook `inbox/before-claim` (where the compaction
plugin may compact first), persists the user message through `SessionService`,
claims the item and calls `AgentService.run`, which calls
`AgentLoop.run_input`. The loop reserves the Session, runs hooks and starts a
task for the turn. Before each reasoning step the turn claims `next_step`; its
events go to `SessionLog`, whose listener marks the snapshot dirty. At its end
the turn flushes, and `agent/after-run` runs compaction and then tells the
Inbox, which schedules the next delivery. A turn that needs a confirmation
ends as "paused"; the confirmation command later enters `resume_confirmation`
beside all of this.

Inside the turn, `TurnExecutor` drives `ReActRunner`, which alternates between
a question to the model (`ReasoningExecutor`, through `LlmService`, an adapter
and the fallback plugin) and a batch of tools (`ActingExecutor`, through
`ToolCallScheduler` and the view of `ToolService`). Tools act on the other
parts: teams, tasks and schedules create Sessions and submit to the Inbox, bash
asks the process service, MCP servers are connections of the MCP plugin.

What each part promises, in a line: the repository never loses what it
acknowledged and hands it over at most once; dispatch runs at most one turn,
never beside a compaction, and drains its queue; the snapshot is what its
number says, a flush is a barrier, and a restart continues where the file is;
a turn ends, and a tool has its effect once or, if refused, not at all; the
properties of section 3 say it of the others.

## 2. The modules

| Module | Models | Lines of code it stands for |
| --- | --- | --- |
| `PendingQueues` | the pure operations on the two queues and `validate()` | `models.py`, the bodies of `repository.py` |
| `DurableInbox` | abstract specification: a set of pending items that operations change atomically and crashes do not touch | none: it is the promise |
| `InboxRepository` | lock, memory, worker-thread write, file, cancellation, failure, deletion, crash, restart | `repository.py` |
| `SessionDispatch` | admission, dispatch task, busy gates, turns, confirmations, compaction, after-run | `ftre-inbox/service.py`, `ftre-agent/service.py`, `engine.py`, `ftre-compaction`, the confirmation command |
| `SessionSnapshot` | events, snapshot task, flush, request index, attach, rollback, crash | `session/service.py`, `persistence/snapshot.py`, `session/log.py` |
| `ReActTurn` | the decisions of a turn, tool calls and their states, questions and answers, batches, recovery, cancellation | `turn_executor.py`, `react_runner.py`, `executors/`, `tool_calls.py` |
| `LlmStream` | attempts, adapters' reading of a stream, chunk checks, fallback | `reasoning.py`, `ftre-llm`, `ftre-llm-fallback` |
| `LlmRequests` | the request built from a context with gaps | `_convert.py`, `normalize.py`, `openai_responses.py` |
| `ToolViews` | layers of tools, restrictions, views, one call | `services/tools`, `tool_calls.py` |
| `McpScopes` | global pool, scopes, private connections | `plugins/builtin/mcp` |
| `Compaction` | chunks, summaries, markers, the view | `ftre-compaction` |
| `HookPlugins` | plugins, listeners, the unload barrier | `kernel/hooks`, `kernel/plugins` |
| `SessionStore` | Sessions in memory and on disk, external conversations | `persistence/repository.py`, `json_store.py` |
| `TeamMembers` | teams and members | `ftre-team` |
| `WebSocketWire` | sockets, queues, baselines | `channels/websocket`, `services/messaging` |
| `ScheduledJobs` | jobs, scans, edits | `plugins/builtin/schedule` |
| `GatewayProcess` | background gateways and their state file | `app/gateway/process.py` |
| `ProcessRuns` | child processes and the bash tool | `ftre-process`, `core_tools/bash.py` |
| `ConfigFiles` | configuration, watchers, cache | `services/config`, `agent_profile/config.py` |
| `SkillFiles`, `SkillReferences` | the skill catalogue; the injection of referred skills | `plugins/builtin/skill`, `ftre-inline-extension` |
| `Commands` | slash commands | `plugins/builtin/command` |
| `FileEdits` | parallel edits and writes of a file | `core_tools/edit.py`, `write.py`, `_io.py` |
| `TracePages` | runs, purge, listing | `plugins/builtin/trace` |
| `TurnServices`, `HostServices` | instances of what a turn works with and of what the host runs beside it, without steps of their own, so that each half can be reasoned about by itself | |
| `Components` | the modules from `ReActTurn` on, side by side | |
| `MC*` | the symmetry, the view and the named sets the configurations use | |
| `*_proofs` | lemmas and theorems: `PendingQueues_proofs` the lemmas on the queues, `TurnServices_proofs` and `HostServices_proofs` the inductive invariants of the components, `Components_proofs` the theorems about them, the others those of the module they are named after | |

`Components` instantiates each of its modules with variables of its own. They
share no state in the code, so a product of them would show nothing: a variable
`focus` picks one of them in the initial state, and only that one moves. One
run thus explores each module completely on its own instance; a property of the
whole is the conjunction of what it says of each. Where components do interact
(Inbox, AgentService, AgentLoop, compaction, confirmation; log, snapshot,
store, attach) they are composed in `SessionDispatch` and `SessionSnapshot`.

`InboxRepository` and `SessionDispatch` both extend `PendingQueues`, so the
queues that are dispatched are the queues that are stored. In
`SessionDispatch` an operation on the queues is one step; `InboxRepository`
shows when that is justified: without a cancelled task or a failing write it
implements `DurableInbox`, whose operations are atomic.

**State and actions.** Each variable names the attribute it stands for in a
comment at its declaration, each action the method, and `PROJECT.json` ("map")
gives the lines. What runs in a thread of its own (tools, writes of files,
purges) interleaves at every access it makes to shared state; what other
programs do to files, processes and databases happens between any two. A step is what the code does between two awaits that really
suspend. Where an await does not suspend (a hook without a listener, a lock
that is free) the code is one step; where it does, there is a program counter:
`op.phase` in `InboxRepository`, `dispatch.pc` and `turn[t].pc` in
`SessionDispatch`, `snap.pc` and `roll.pc` in `SessionSnapshot`.

**Data.** A text is never modelled. An item has a request id, the sequence of
its admission and one bit that says whether it was edited. An event is the
user message, start or end of the turn of a request; a message is the user
message of a request.

**History variables.** `owed` and `delivered` (what clients and callers have
been told), `lost` (claimed inputs a gate has refused), `timeline`, `answered`.
In the other modules a history is a field or a variable of its own, for instance
`ran` of a tool call, `meanwhile` of an edit, `lives` of a command, `said` of a
skill. Flags such as `clobbered`, `disturbed`, `missed`, `overtaken`, `outside`
and `cut` record that a behaviour has run into one of the races described below;
a property names the flag where it makes an exception for that race and for
nothing else. No action reads any of these except to bound a behaviour
(`disturbed` ends one of `GatewayProcess`).

**Mutations.** Some definitions stand beside one with a similar name and the
comment "Mutation": a plausible mistake in that piece of code, under which the
corresponding property fails. They are used by nothing else. `PROJECT.json`
("mutants") pairs each property of a passing run with one.

## 3. The runs

| Run | Question | Bounds |
| --- | --- | --- |
| `InboxRepository_durable` | Is what was accepted durable, handed over at most once, and is the repository a `DurableInbox`, with crashes at any point but no cancelled task and no failing write? | 3 requests, capacity 2, 3 admissions, 1 waiting admission |
| `InboxRepository_faults` | With cancelled admissions and claims, orphaned writes and failing writes: do queues and file stay valid, and can only a restart bring a claimed item back? | 2 requests, capacity 2, 2 admissions, 1 orphan |
| `SessionDispatch_confirmed` | A turn pauses and is confirmed while clients queue, withdraw, promote and repeat inputs: is anything claimed refused, does a turn run behind the mark, is a paused queue consumed? | 2 requests, 3 admissions, 1 confirmation |
| `SessionDispatch_confirmations` | Two confirmations, cancellation, `/compact`, failing compactions and crashes at once: at most one active turn? | 2 requests, 2 admissions, 2 confirmations |
| `SessionDispatch_drains` | Does every queued follow-up get its turn when turns complete and compactions succeed, and do the two alternate? | 3 requests, capacity 2, 3 admissions |
| `SessionSnapshot_restarts` | Is the file what its number says, is flush a barrier that returns, does every event reach the file, does a client catch up, over failing writes and crashes? | 2 requests, numbers up to 3 |
| `SessionSnapshot_rollbacks` | With rollbacks, failures and crashes: is the baseline kept in the file, does the number of the file ever decrease? | 2 requests, numbers up to 4 |
| `Components` | What does each of the other components promise? | see below; about 450,000 states |

The properties of `Components`, with the instance on which each is checked:

| Property | Statement | Instance |
| --- | --- | --- |
| `RunsAsAllowed` | A tool has its effect at most once for a call, never for a refused one, over pauses, answers, retries and cancellation; a tool that ran is shown to `tool/after` before its call is over, a refused one is neither run nor shown | 2 calls, 2 attempts, 1 iteration, 1 recovery; 1 name in 3 layers |
| `PausedHasAQuestion` | A Session that waits for an answer has a question open | the same |
| `TurnEnds` | Every turn ends | the same |
| `GoneIsQuiet`, `UnloadReturns` | A plugin that is gone runs no code; an unload waits for calls, and only for those | 2 plugins, 1 of them required, 3 registrations, 2 calls of each |
| `AcknowledgedHolds` | An acknowledged update is in memory and on disk. After an acknowledged deletion the Session is gone from memory, until the gateway ends if its file was held, and for good if not; then it is gone from disk as well | 2 Sessions, 3 operations, 2 attempts of a replace |
| `OneSessionPerConversation` | The index leads to the one Session of an external conversation, unless a deleted one is there again: a write that outlived its cancelled task made its directory anew, or its removal failed silently and the gateway was restarted | the same, 1 conversation |
| `NoMemberIsLeaked` | When nothing is under way, every living member is registered, bound and has its profile | 2 members, 2 calls at once |
| `NothingIsMissed` | A client with a baseline gets every later event in order, and the newest queue | 1 socket, 1 Session, 2 events, 1 change of the queue, pages of 1 |
| `TriggeredOnce` | No due time of a job is run twice | 1 job, 1 call of the cron tool, 2 runs, times up to 2 |
| `NothingFallsOut` | Every message is shown to the model or in the summary that is | 2 messages, 2 callers, chunks of 1 token |
| `NobodyStopsMyServer` | The private connections of a scope run and count it among their users; what a layer says of a tool holds in the next view | 1 server, 2 Sessions, 1 edit; 1 name |
| `AnswerIsOneStream` | What a turn keeps of the model is the whole of one attempt of one model | 2 attempts, 1 tool call, 1 change of the routes |
| `RequestsAreWellFormed` | Every request pairs calls with results, and nothing the user said is left out | contexts of up to 4 blocks, 2 calls |
| `ProcessesAreOwned` | A background gateway can be found by the commands; a process nobody waits for does not run | 2 identifiers, 2 commands; 2 processes |
| `FilesHold` | The configuration in force is the one in the file, and the last one watchers are told; what the skill service answered is what a load gives; no edit writes over another; a listing that is followed to its end has every trace | 2 values of an entry and 3 writes; 2 skills and 3 writes; 2 calls and 2 lines; 3 runs in pages of 1 |
| `DoneOnce` | A skill reference is injected once; a command succeeds once, and is answered if accepted | 2 references, 3 dispatches; 1 request, 2 tasks, 2 registrations |

These instances are the smallest in which the hazard of the property can occur:
two actors of the kind that race, and one more step than the longest race has
(a third write, dispatch or run). They were chosen so that each component's
mutations are found, and every action of every module is taken.

Two requests are the least number at which one can overtake, block or displace
another; three with a capacity of two make one of them meet a full Inbox.
`MaxSequence` admissions and `MaxSeq` numbers are enough for a claim and a
second admission of the same id after it, and for a complete turn, a restart
and the beginning of the next turn. One orphan is enough for an old payload to
land after a newer one, as a running operation supplies the newer one. Deadlock
is checked for `InboxRepository`; in the other modules a Session, file or
service that nobody talks to any more may stop.

`InboxRepository_faults` uses the view `Unacknowledged`, which leaves out
`owed`: its properties do not read it and no guard does.

### Where the code and its documentation disagree

Four runs are expected to end in a counterexample.

* **`InboxRepository_retry`**. `admit` puts an item in memory, then writes. If
  the write fails the item stays in memory, and a retry of the same request
  finds it and is answered "accepted" although nothing is on disk.
  `docs/prd/PRD-F12-session-inbox-protocol.md:291` promises "accepted" only
  after a durable admission.
* **`SessionDispatch_overlap`**. A turn that waits for a compaction before its
  claim is cancelled. The shared task is shielded and nobody cancels it; the
  turn ends, and the next one starts beside the compaction. `README.md:132`:
  "turn and compaction never overlap".
* **`SessionDispatch_failed_compaction`**. A compaction in `agent/after-run`
  raises; the Inbox's listener is behind it and is not called. What is queued
  waits for another follow-up, although `ftre-inbox/service.py:66` says a
  completed run triggers a delivery.
* **`SessionSnapshot_rerun`**. After a restart the first snapshot lists every
  message of the baseline as "pending" and overwrites "completed"; the check
  that `engine.py:412` describes then lets a repeated request run again.

Further behaviours, found while modelling. For those of the first group the
change that reproduces it is given.

* `FailedClaimKeepsPending` (invariant, `InboxRepository`, with `MayFail`): a
  claim whose write fails has removed its items from memory, while the
  dispatch task's handler says "keep pending" (`ftre-inbox/service.py:372`).
* `ClaimedNeverReturns` with cancellable claims: a claim that is cancelled has
  removed its items; an orphaned or dropped write decides whether a restart
  brings them back.
* `NoClaimIsLost` with `MayCancel`, `MayCrash` or failing turns
  (`AllOutcomes`): between the dispatch task's busy check and `AgentService.run` the
  Session may become busy; the claimed item is refused and is in no queue.
  `AgentService.try_reserve`, made for this, has no caller.
* `QuiescentMeansNothingRuns`: `wait_session_quiescent` answers while the
  dispatch task holds a claimed item.
* `NoReceiptAfterTheRun` with `Resubmits`: a receipt nobody will resolve.
* `PausedHoldsTheQueue` with `MayCrash`: "paused" is not restored at a restart.
  For the same reason `NoTurnBehindTheMark` is checked without crashes: a
  confirmation after a restart does not keep the dispatch task away, and its
  after-run hook may mark a Session that a run has reserved meanwhile.
* `FlushIsABarrier` and `CompletedIsNotRunAgain` with `MayRollback`: an event
  that is logged between the rollback's flush and its commit is dropped, and a
  snapshot captured before the commit restores what was rolled back.
* After a crash, numbers of events that were published but not in the file are
  given out again; a client that attaches with such a number is not sent the
  new events under it. `ClientCatchesUp` is therefore stated for a client
  whose events are still part of the history.
* `AcknowledgedHolds` without `Unordered` (`SessionStore`):
  `get_or_create_external_session` rewrites an existing Session under the global
  lock only and loses an update made beside it (`repository.py:281`, against
  the comment at 414); and a cancelled task leaves its thread, whose write may
  land after a later one, or re-create the directory of a Session deleted
  meanwhile (`json_store.py:195`).
* `OneSessionPerConversation` without `Revived`: a bound Session is deleted
  while its file is held, its conversation is bound anew, and the next start
  loads both. With four operations (`MaxOps = 4`) there is another way: an
  update of a Session is cancelled in its thread, the Session is deleted, its
  conversation is bound anew, and then the thread creates the directory of the
  deleted Session again (`_atomic_replace` makes it, `json_store.py:197`). The
  inductive invariant found this: the proof failed at a state that the bounds of
  the run do not reach.
* `AcknowledgedHolds` for deletions that are "kept" or "undone": a deletion
  removes the directory by `rmtree(ignore_errors=True)` (`json_store.py:244`)
  and is acknowledged, and `session/disposed` dispatched, whatever is left. If
  another process holds `session.json`, which lines 191 and 207 of that file
  expect of a write, the next start loads the deleted Session, although line 235
  says that the whole directory is removed. The sweep of directories without a
  session file at the start ignores errors in the same way
  (`session/service.py:930`); what it leaves nobody reads (`Swept`).
* `TriggeredOnce` without `clobbered` (`ScheduledJobs`): `update` reads a job
  and saves it later (`schedule/service.py:76`); a run marked in between loses
  its mark and its due time is run again, a job deleted in between returns.
* `BackgroundIsTracked` without `disturbed` (`GatewayProcess`): of two
  overlapping starts one gateway stays untracked, and so does one whose start is
  interrupted in its 0.3 s, or whose file a `status` clears as stale.
* `CommandsAreReaped` without `late` and `cut` (`ProcessRuns`): a spawn in
  flight during `close` survives it; a terminate cancelled in its grace period
  drops the handle of a living process. Background children of a shell that
  exited by itself are never killed, whatever the bash tool's description says.
* `ConfigFollowsFile` without `missed`: an external edit between a commit's
  write and its reading back, or between read and signature at the start, is
  never noticed. Without `overtaken`: a scheduled notification delivers an
  older snapshot after a newer one.
* `AnswersHold` without `outside` (`SkillFiles`): `_global_path` takes the
  conventional file even when its frontmatter names another skill
  (`skill/service.py:653`), so an operation on one skill changes another.
* `InjectedOnce` without `cut`: a dispatch that ends between the hint and the
  mark injects again.
* `CommandsHold` without its exceptions: a command that succeeded but whose
  `command/done` could not be written is executed again on a retry; one
  unregistered between acceptance and start is acknowledged and never answered.
* `EveryTraceIsListed` without `overtaken`: a root written between a page's
  COUNT and its SELECT makes the last page hide the oldest trace.
* `EditsAreKept` for writes: `write` takes no lock and empties the file first, so
  an edit beside it loses one of the two.
* `OverridesHold` without its condition: an override made when there was nothing
  to inherit has no restriction, and a tool registered for everybody later takes
  its place (`services/tools/service.py:468`), although the docstring at 435
  says the Session is the highest scope.

By reading, not as a counterexample:

* Turn: a retry after `agent/run-error` finds the agent still running
  (`react_runner.py:344`), so a recovery by compaction cannot succeed. When
  one call of a batch asks, the results of the siblings that ran are dropped
  (`acting.py:180`) and they are "denied" on resumption. An approved call whose
  rule asks is asked again. A synchronous tool is reported cancelled while its
  thread goes on. A tool that is cancelled before its permission is decided is
  reported cancelled and not asked about (`tool_calls.py:94`), and the forced
  final round may bring tool calls, for it only leaves the tools out of the
  request (`reasoning.py:193`); both are in `ReActTurn`.
* Compaction: a cancelled after-run or run-error hook cancels the shared task
  for everybody (`hooks.py:106`). What an assistant message gains after a
  summary covered it is in neither view nor summary. A rollback during
  `/compact` leaves a dangling `through_message_id`.
* LLM: after `cancel` the adapters never reach their "aborted" finish; a
  tool call with empty arguments, or without an id, fails or vanishes in the
  Completions adapter; a backup's protocol violation hides the first error.
* MCP: a view prepared while a reload has the global tools disposed registers no
  restriction; a cancellation inside a disposal leaves the remaining
  connections running; a preparation that waits during `stop` prepares after it.
* WebSocket: a prompt attaches its socket without a baseline; one slow socket
  holds up the single dispatcher. A baseline whose read raises is sent as an
  empty one that is not to be continued (`websocket/plugin.py:208`), so its
  client cannot tell that it misses something: `NothingIsMissed` is about
  baselines that were read (`BaselineFails` ends one that was not).
* Team, task: calls that time out after ten seconds go on; a leader deleted
  while a member registers leaks it; a crash between creation and registration
  leaves an orphan. A task whose admission took longer is reported as failed and
  runs. `task.py`'s comment on receipts (127) does not hold.
* Profiles: `AgentManager.write_prompt` never writes; `create` accepts names
  that every other operation refuses. Titles: a rename during generation is
  overwritten (`generator.py:163`). Plan: parallel calls lose an update, and
  the ON_STOP hook its docstring promises is not registered. History pages:
  the strict comparison with `before_ts` drops messages of equal time.

## 4. Fairness

Four modules state it. In `SessionDispatch` every task the loop can run is
run: returning admissions, the dispatch task, the run and each confirmation are
weakly fair, and a compaction ends. Clients are not fair: nobody has to send,
confirm, cancel or withdraw. In particular `TurnPeeks` is not fair, because a
turn may end instead of taking another reasoning step. In `SessionSnapshot`
the snapshot task, the rollback and the return of a turn are weakly fair, and
`SnapWritten` is strongly fair: the loop retries a failed write for ever, so
"every event reaches the file" assumes only that writing does not fail each
time. In `ReActTurn` the steps of a turn under way (`Drive`) are weakly fair: the
model and the tools return, which their timeouts ensure; which step it is, an
empty answer or a failure for ever, is left to chance, and no user has to
answer. In `HookPlugins` an unload is weakly fair, and so is, for each plugin,
that some call of its listeners returns; new calls may begin at any time.
asyncio schedules ready callbacks in order, which is stronger than weak
fairness.

## 5. What is proved

The eight `*_proofs` modules. A theorem holds for every value of the constants
that satisfies the named assumptions of the module it is about; the bounds
(`MaxSequence`, `MaxSeq`, `MaxOps` ...) may be anything, so they cut nothing
off. Where a theorem has a hypothesis of its own, it is in the table, and it
is there because TLC has a counterexample without it, unless said otherwise.
The formulas that are needed to make an induction go through were checked
with TLC before they were proved.

### The Inbox: `PendingQueues_proofs`, `InboxRepository_proofs`

| Theorem | Statement | Hypothesis |
| --- | --- | --- |
| `Typing`, `QueuesStayWellFormed`, `FileAlwaysLoads`, `CapacityHolds` | `TypeOK`, `QueuesWellFormed`, `FileLoads` and `WithinCapacity` are invariants | none |
| `ClaimedOnceInALife` | `Spec => ClaimedReturnsOnlyByRestart` | none |
| `ClaimedOnce` | `Spec => []ClaimedNeverReturns` | `Cancellable = {}` |
| `RepositoryIsDurable` | `Spec => ImplementsDurableInbox`, the refinement | `Cancellable = {}`, `~MayFail` |
| `AcceptedSurvives` | `Spec => []AcceptedIsDurable` | the same |

`InboxAssumption` says that capacity and bounds are naturals and the capacity is
not zero.

None of the invariants of the first line but the types is inductive: an orphaned
write can put any payload in the file at any later time, and a restart makes the
file the memory. `Inductive` therefore says `Good(box)` of the memory, the file
*and every payload that may still land*. A step either computes a new memory
from the old one or copies one of these boxes; so the proof needs, for each pure
operation, that it keeps a box good, and one short step per action.

*Claims.* `ClaimedOnceInALife` is an action property: in one life an item that
is claimed leaves memory before the claim awaits, and only a restart writes the
memory from elsewhere. Over crashes it takes more: a claim returns only when its
write has landed and no earlier payload may land after it, which is `HandedOver`
(nothing orphaned, and after a write the file is the memory). With cancelled
tasks that is false. *Refinement.* The box of `DurableInbox` is the content of
the file; an operation takes effect there when its write lands. `Steady` says
that an operation under way still has in the file what it found
(`Underway`: the memory is what the operation makes of the file), which gives,
action by action, a step of `DurableInbox` or a stutter. With cancellations the
next operation starts from a memory that is not the file, and with failing
writes the memory keeps a change that is not there. `AcceptedSurvives` is a
promise of `DurableInbox` (`OwedStep`), carried over by the refinement.

The pure part is `PendingQueues_proofs`. `WellFormed` speaks of the
concatenation of the queues; `Sound` says the same of each queue and of the
pair, and `SoundIsWellFormed` shows them equivalent. `Kept` (the pops of
claim and remove) is shown to be an order-preserving subsequence through
`RankOnto` (the rank of the survivors is a bijection, by the library's facts on
finite sets), `Inserted` (append and stable sort) to be an insertion at the
first place that keeps the order, through `InitialSegment`. From these follow
`AdmittedSound`, `WithoutSound`, `EditedSound` and `PromotedSound`, and what
each operation does to the set of items (`ContentsAppend`, `ContentsKept`,
`ContentsInserted`, `ContentsRewritten`), which the refinement needs.

### Dispatch: `SessionDispatch_proofs`

| Theorem | Statement | Hypothesis |
| --- | --- | --- |
| `DispatchTyping`, `OneActiveTurn`, `RunsAreAwaited` | `TypeOK`, `AtMostOneActiveTurn` and `RunHasItsDispatcher` are invariants | none |
| `NoClaimedRequestIsLost` | `Spec => []NoClaimIsLost` | `ConfirmedInTurn` |
| `MarkKeepsTurnsOut` | `Spec => NoTurnBehindTheMark` | `ConfirmedInTurn` |
| `QuestionsHoldTheQueue` | `Spec => []PausedHoldsTheQueue` | `ConfirmedInTurn`, and some confirmation |
| `TurnsAndCompactionsAlternate` | `Spec => []TurnAndCompactionNeverOverlap` | `Undisturbed` |

`DispatchAssumption`: every switch has either value, `Outcomes` is any set of
ends of a turn, `Confirms` any set at all, infinite ones included.
`ConfirmedInTurn` is one of two cases: nobody confirms, and then turns may fail,
be cancelled and crash as they like; or there is one confirmation, at most one
question of a turn, and no failing turn, cancellation or crash. Each condition of
the second case is needed: dropping it alone gives TLC a counterexample to each
of the three properties. `PausedHoldsTheQueue` is false in the first case (a
restart forgets that the agent is paused), hence its second hypothesis.
`Undisturbed` excludes confirmations, `/compact` and cancellations; the run
`SessionDispatch_overlap` is the counterexample for the last.

`AtMostOneActiveTurn` is not inductive: `RunStarts` makes its turn the direct
task without looking, long after `RunAdmits` looked. `OneStarter` adds what
makes that right: while a run is reserved, the reservation stands and no other
turn is the direct task, and `Confirm` asks for the reservation. The types need
more than types. A refused request is recorded in `lost`, so it has to be known
that the dispatch task has one in hand (`HasCandidate`), that the run's request
is the same (`RunHasItsDispatcher`), that it was taken from well-formed queues
(`Sound`), and that a turn that returns has a status (`HasStatus`).
`Inductive` is the conjunction; each part has a lemma with one step per action.
The steps that neither begin nor end a delivery (`DispatchAside`) or a run
(`RunAside`), which is most of them, are treated together.

The three theorems under `ConfirmedInTurn` rest on `Turnwise`. A claimed request
is refused when something holds the Session at that moment; so each mark by
which a Session is held belongs to a turn that will clear it (`Places`), a
delivery that has found the agent free does not find it paused (`Unpaused`), and
while a question is open or its answer under way the dispatch task and the run
stay in places from which they begin nothing (`InTurn`). For the compactions,
`Wanted`: one that runs has somebody who waits for it.

### Snapshots: `SessionSnapshot_proofs`

| Theorem | Statement | Hypothesis |
| --- | --- | --- |
| `SnapshotTypes` | `Spec => []Typed`: types, and a rollback finds the message it cuts at | none |
| `FileNumbersGrow` | `Spec => SeqNeverGoesBack` | none |
| `HistoryStays` | `Spec => []HistoryIsKept` | none |
| `FileMatchesItsNumber` | `Spec => []SnapshotMatchesItsSeq` | `MayRollback = FALSE` |
| `FlushesAreBarriers` | `Spec => []FlushIsABarrier` | `MayRollback = FALSE` |
| `ClientsCatchUp` | `Spec => []ClientCatchesUp` | `MayRollback = FALSE` |
| `MergedInTwo` | merging events in two parts is merging them at once | none |

`SnapshotAssumption`: the bound is a natural, the switches are Booleans, the
outcomes are ends of a turn. Rollbacks race by construction (section 3), which
is why three of the properties are stated without them.

The file only grows because a snapshot that is late is not written, and because
what is written under the lock was captured of a history that the file's number
counts. With rollbacks, `History`: a rollback has one flush (`OneFlush`), what is
captured once that is done covers the events it says (`FreshAfterFlush`), and
what the rollback keeps is in front of whatever may be written after it
(`KeptInFront`, `BaselineInFront`). Without them, `Counted`: file, captured
snapshot, flushes and clients all count one history, and `Covers` relates a
number to the messages up to it. `Derived` and `Merged` are folds of a sequence
of events. What a fold gives is proved for every sequence without an induction
theorem, by looking at the first position at which two of them would differ
(the least element of a set of naturals); `MergedInTwo` is the result that
restarts rest on.

### The components: `TurnServices_proofs`, `HostServices_proofs`, `SessionStore_proofs`, `Components_proofs`

| Theorem of `Components_proofs` | Statement |
| --- | --- |
| `ToolsRunAsAllowed` | `Spec => []RunsAsAllowed` |
| `PausesAreAnswerable` | `Spec => []PausedHasAQuestion` |
| `EveryProcessIsOwned` | `Spec => []ProcessesAreOwned` |
| `PluginsGoneAreQuiet` | `Spec => []GoneIsQuiet` |
| `JobsAreTriggeredOnce` | `Spec => []TriggeredOnce` |
| `ConversationsAreOne` | `Spec => []OneSessionPerConversation` |
| `AcknowledgedStays` | `Spec => []AcknowledgedHolds` |
| `AskedOnceDoneOnce` | `Spec => []DoneOnce` |
| `MembersAreReachable` | `Spec => []NoMemberIsLeaked` |
| `ToolsAreTheirOwn` | `Spec => []NobodyStopsMyServer` |
| `FilesAreHeld` | `Spec => []FilesHold` |
| `NothingIsForgotten` | `Spec => []NothingFallsOut` |
| `AnswersAreWhole` | `Spec => []AnswerIsOneStream` |
| `RequestsPairCalls` | `Spec => []RequestsAreWellFormed` |
| `ClientsMissNothing` | `Spec => []NothingIsMissed` |

None has a hypothesis. The assumptions are in the modules that declare the
constants. Names that stand for nothing or for somebody else ("none", "no task",
"nobody", "manager") are no identifiers of processes, tasks, Sessions, calls and
sockets (`PidAssumption`, `TaskAssumption`, `McpAssumption`, `EditAssumption`,
`WireAssumption`). Members, skills, Sessions and the operations on Sessions are
numbered, a page of traces has one at least, and a replacement is tried at least
once (`TeamAssumption`, `SkillAssumption`, `TraceAssumption`, `StoreAssumption`).

`[Next]_vars` of `Components` implies `[Next]_vars` of each instance (the
`*Frame` lemmas); so an invariant of one component is proved from its own steps.
`TurnServices_proofs` and `HostServices_proofs` have for each an invariant, that
the initial states satisfy it, that a step keeps it, and what it says.

*Turn.* `TurnInv`: a call that waits or has been allowed asks, has not run and is
not refused (`CallSound`), one that is about to run in a batch is new
(`CallNew`), and a turn that closes as paused has a question (`Asked`).
`AuditInv` follows one call from its start to those who watch it.
*Gateway.* `GatewayInv` says what a command takes for granted of the file and
the processes at each of its steps (`Knows`), and that a command that starts a
gateway is alone (`Alone`), as long as nothing has disturbed it. *Processes.*
`Reaped`: a process that runs is in the table that close goes through, or is
given up or late. *Commands.* `CommandsInv`: a request has one task
(`_inflight`), a task that has not begun its handler has no success on record
(`TaskSound`), and a success is remembered or about to be (`Recorded`), unless
the write failed. *References.* `ReferencesInv`: a dispatch has seen what is
marked and what it has given itself. *Edits.* An edit that has read and not
written holds the lock (`LockIsHeld`), so whoever writes meanwhile is no edit.

*Hooks.* The counter of a listener is the number of its calls and its barrier is
open when that is zero (`Counted`); only listeners of an active plugin are called
(`OnlyActiveListen`), so a Fiber that stops has none that begin. *Schedules.* The
mark is written before the delivery, so the file of a job is never behind its
runs (`FileIsNotBehind`); what the scan has read and not looked at is not behind
either (`ReadIsNotBehind`), as only this scan could run it; a job missing at its
mark was made anew (`MissingIsNew`).

*Team.* `NoMemberIsLeaked` speaks of the moments at which no call is under way;
`TeamInv` says of every other moment that a living member is whole or that a
call is still going to see to it, and which: the `add_member` that is undoing
itself, the dissolution or the deletion that has it on its list. *MCP.* `McpInv`:
who changes the pool holds the lock, a disposed scope is a user of nothing, and a
private connection that a scope lists runs and counts it. *Tools.*
`OverridesInv`: a restriction made by a layer reaches to below that layer if the
layer has a tool of the name, and includes it if it has none, in whatever order
the two came.
*Configuration.* `ConfigInv` compares stamps: the service has the file's content,
or the stamp it remembers is not the file's, so that the next poll will see it
(`FileIsKnown`); the flags `missed` and `overtaken` mark where that breaks.
*Skills.* `SkillsInv`: what an operation answered about a name is what a load finds,
and no name is in two files unless others wrote one; an operation under way has
the file that the search would give (`Found`). *Traces.* `OwedIsAhead`: a trace the client has not
seen ranks behind its offset; the last page is reached by counting
(`RanksAreAll`, `PageIsFull`), since ranks are a bijection onto an initial segment.

*Compaction.* `CompactionInv`: what the newest summary does not cover is behind
the message through which it goes (`HistorySound`), and a summary that is being
made has read, or takes over from an older one, everything up to the last message of
its head (`HeadSound`), whatever is said meanwhile. *Stream.* `StreamInv`: what has been gathered is what the chunks
of one attempt at one model give (`Fed`), and the calls counted are the closed tool
blocks; `FeedAll` is a recursive function, and the one fact needed of it (it keeps
what `Feed` keeps) is shown at the least length for which it would fail.

*Requests.* `RequestInv` only says that a call and a result are once in the context
and that the user makes no calls. The rest is about how a request is
computed, for every context. Three operators put something in order, and each
has a lemma that says where every element of its result comes from: `InOrder`
numbers the indices of a set, a message begins at a block or has it in its part
(`PartsApart`), and `FlattenSeq` puts the elements of a sequence after those of
the sequences before it (`FlatSequence`). So calls and results are still there once in
the chat messages (`ChatOnce`); a complete pair is a run of neighbours that is
kept whole (`CompleteIs`, `RunInOrder`), hence what is left is accepted
(`NormalisedIs`), and so are its items (`ItemsArePaired`).

*Wire.* `NothingIsMissed` asks for everything to be delivered; `WireInv` says of
every moment where what a client lacks is. Each event it has not got is in the
forward queue, in the outbound queue or in the frame that is being sent to it
(`Owed`), and these are in the order of the events (`PipeInv`), so that no frame it
gets leaves one out (`ClientReceives`). Whoever has an old queue is owed a frame
with the queue, or the inbox's hook has not published yet (`OwedQueue`), and
the last queue frame says what the queue is (`QueueInv`). While a baseline is made
the output lock keeps the frames of the Session in the queues: what was logged
after it was read is there still (`BasingInv`). This is where the proof needs the
lock, and where it fails for `AttachUnlocked`.

The store has a module of its own, and its theorems are lifted:
`Components_proofs` instantiates `SessionStore_proofs` and shows that the component
has the same steps there (`StoreSame`). *Store* (`ConversationsAreOne`, `AcknowledgedStays`).
`StoreMoves` brings every step into a form that says of each variable what it
does to it, and each part of `StoreInv` is shown to be kept by that form: who
writes or deletes holds the lock for it (`Holding`), what is changed is there
and what is being or has been removed, its file left, is not in memory
(`Standing`), a Session that is being made is nobody else's (`NewSession`), what
is in memory is on disk, and what may come back is being made, deleted or
revived, where a file that a removal left (`Lingers`) counts only from the next
start on (`Lives`), a Session belongs to one conversation (`Keyed`), and no
conversation has two (`Single`). `AckedInv` adds that what has
been acknowledged is also in every write to come.

### What is only model-checked

All liveness, which the prover cannot treat, nor `ENABLED`: `TurnEnds`,
`UnloadReturns`, `QueueDrains`, `EventsReachTheFile` and `FlushReturns`.

No module declares a recursive operator.

## 6. Not modelled, and why

* In the Inbox, dispatch and snapshots: the "discard" decision of
  `inbox/before-claim`, and `inbox/before-admit`; deletion of a Session in
  dispatch; several agents per Session; fingerprints of requests;
  `stream_input`; fork; migration of old files. A before-claim hook that fails
  keeps the items pending, as the code does.
* In `WebSocketWire` every change of an Inbox is published: an operation whose
  write fails, or a cancelled claim, may change the queue in memory and publish
  nothing (`ftre-inbox/service.py:90`). The limit of a page of events is
  there and not in `SessionSnapshot`. In `ConfigFiles` `system_prompt.md`, which
  a build reads but the cache's signature does not cover (`config.py:170`), and
  a forced load are left out.
* `persist user message` and `claim` are one step in `SessionDispatch`; the
  message's way to the history is `Accept` in `SessionSnapshot`.
* Everywhere: texts, wording, logging, tracing of what is modelled, HTTP routes
  that only call a service, the schemas of tools.
* The task and messaging tools only call what is modelled; session titles and the
  plan tool race by construction, so that no property of them would hold;
  profiles, the system prompt, attachments, search and history pages are text,
  files and queries. Discovery of plugins and the order of start and stop of the
  gateway are sequences without a concurrent actor.
* The components of `Components` are not composed with `SessionDispatch`: a turn
  there is what `ReActTurn` shows a turn to be (it ends, paused, completed,
  failed or cancelled, and paused only with a question), a compaction what
  `Compaction` shows of its task.

`PROJECT.json` lists every part with its status.

## 7. Plan

1. `InboxRepository`, `SessionDispatch`, `SessionSnapshot` with their runs, and
   the theorems about the first two. (done)
2. The inside of a turn (`ReActTurn`, `LlmStream`, `LlmRequests`, `ToolViews`)
   and the services (`Components`), with the theorems on hooks, schedules and
   edits. (done)
3. Proofs: the refinement of `DurableInbox` and what it carries; the marks and
   compactions of `SessionDispatch`; `SessionSnapshot`; turns, processes,
   gateways, commands, skill references, the store. (done)
4. Proofs: teams, MCP servers, tool layers, configuration, skills, traces,
   compaction, streams, requests, connected clients. (done)

## 8. Running it

    tlc -config InboxRepository_durable.cfg MCInboxRepository
    tlapm InboxRepository_proofs.tla
    tlapm Components_proofs.tla
    tlc -config Components.cfg MCComponents

Each configuration is named after the module it instantiates; `PROJECT.json`
("runs") pairs them. `Components` takes two to three minutes, the others at
most about one. From nothing, `TurnServices_proofs` takes about twenty minutes
to prove, `HostServices_proofs` seven minutes, the other proof modules up to
three minutes each.
