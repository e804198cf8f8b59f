--------------------------- MODULE SessionDispatch --------------------------
(***************************************************************************)
(* How the pending inputs of one Session become turns: InboxService        *)
(* (admission, the next-turn dispatch task), AgentService.run (the busy    *)
(* gate and the state of the agent), AgentLoop (reservation, the direct    *)
(* task, agent/after-run, the maintenance mark), CompactionService as far  *)
(* as it gates turns, and the confirmation of paused tool calls.           *)
(*                                                                         *)
(* Everything runs in one asyncio loop: a step of this module is what the  *)
(* code does between two awaits that really suspend.  The queues are those *)
(* of PendingQueues and every operation on them is one step; module        *)
(* InboxRepository shows what stands behind that.  asyncio.Lock is fair,   *)
(* so the answer followup() reads before its admission and the admission   *)
(* itself are one step for whoever takes a snapshot later.                 *)
(*                                                                         *)
(* A turn is driven by one of the processes of Turns: "run" is run_input,  *)
(* awaited by the dispatch task, and each member of Confirms is a          *)
(* confirmation command awaiting resume_confirmation.                      *)
(***************************************************************************)
EXTENDS PendingQueues

CONSTANTS
    Capacity,           \* mailboxCapacity
    MaxSequence,        \* bound on the admissions
    MaxAsks,            \* bound on the tool calls that ask at once; 0: none do
    Confirms,           \* the confirmation commands that may run at once
    Outcomes,           \* how a turn may end by itself
    AutoCompact,        \* whether the water level may call for a compaction
    CompactMayFail,     \* whether a compaction may raise
    Manual,             \* whether a user may type /compact
    Withdraws,          \* whether clients remove and promote queued items
    Resubmits,          \* whether a client may send a request once more
    MayCancel,          \* whether a user may cancel
    MayCrash

NoRequest == "no request"

ASSUME DispatchAssumption ==
    /\ Capacity \in Nat \ {0} /\ MaxSequence \in Nat \ {0} /\ MaxAsks \in Nat
    /\ Outcomes \subseteq {"completed", "paused", "failed"}
    /\ {AutoCompact, CompactMayFail, Manual, Withdraws, Resubmits, MayCancel,
        MayCrash} \subseteq BOOLEAN
    /\ "run" \notin Confirms /\ "none" \notin Confirms
    /\ NoRequest \notin Requests

Turns == {"run"} \cup Confirms

VARIABLES
    box,        \* the queues of the Inbox
    admitting,  \* followups whose write is under way, with their was_busy
    receipts,   \* self._receipts: the followups someone may wait for
    requested,  \* self._dispatch_requested
    waitIdle,   \* self._dispatch_wait_for_idle
    dispatch,   \* the task of self._dispatch_tasks
    entry,      \* AgentService: state of the agent's _AgentEntry
    inflight,   \* AgentService: the agent is in _inflight_admissions
    results,    \* AgentService: the requests in _completed_runs
    turn,       \* AgentLoop: the coroutines that drive a turn
    reserved,   \* AgentLoop: the Session is in _direct_reservations
    direct,     \* AgentLoop: whose task is in _direct_tasks
    maintenance,\* AgentLoop: the Session is in _maintenance
    compaction, \* CompactionService: the shared task of the Session
    asks,       \* SessionLog: tool calls in the state ASKING
    executed,   \* SessionService: requests that request_state reports as run
    up,         \* the Gateway runs
    lost        \* [history] claimed requests refused because of another turn

inbox  == <<box, admitting, receipts, requested, waitIdle>>
agents == <<entry, inflight, results>>
loop   == <<turn, reserved, direct, maintenance>>
log    == <<asks, executed>>
vars == <<inbox, dispatch, agents, loop, compaction, log, up, lost>>

NoDispatch == [pc |-> "none", request |-> NoRequest]
NoTurn == [pc |-> "none", request |-> NoRequest, status |-> "none",
           cancelled |-> FALSE, batch |-> {}]

\* Positions at which a turn is executing: its task is the direct task.
Active == {"resuming", "active", "gate", "gate compacting"}

DispatchState ==
    [pc : {"none", "created", "waiting", "peek", "compacting", "hooked",
           "claimed", "running", "finishing"},
     request : Requests \cup {NoRequest}]
TurnState ==
    [pc : Active \cup {"none", "admitted", "reserved", "after-run",
                       "compacting", "returning"},
     request : Requests \cup {NoRequest},
     status : {"none", "completed", "paused", "failed", "cancelled"},
     cancelled : BOOLEAN,
     batch : SUBSET Requests]

TypeOK ==
    /\ box \in Inbox
    /\ admitting \subseteq Requests \X BOOLEAN
    /\ receipts \subseteq Requests
    /\ requested \in BOOLEAN /\ waitIdle \in BOOLEAN
    /\ dispatch \in DispatchState
    /\ entry \in {"absent", "idle", "running", "paused", "cancelled", "failed"}
    /\ inflight \in BOOLEAN
    /\ results \subseteq Requests
    /\ turn \in [Turns -> TurnState]
    /\ reserved \in BOOLEAN
    /\ direct \in Turns \cup {"none"}
    /\ maintenance \in BOOLEAN
    /\ compaction \in {"none", "running"}
    /\ asks \in 0 .. MaxAsks
    /\ executed \subseteq Requests
    /\ up \in BOOLEAN
    /\ lost \subseteq Requests

Init ==
    /\ box = EmptyInbox
    /\ admitting = {} /\ receipts = {}
    /\ requested = FALSE /\ waitIdle = FALSE
    /\ dispatch = NoDispatch
    /\ entry = "absent" /\ inflight = FALSE /\ results = {}
    /\ turn = [t \in Turns |-> NoTurn]
    /\ reserved = FALSE /\ direct = "none"
    /\ maintenance = FALSE /\ compaction = "none"
    /\ asks = 0 /\ executed = {}
    /\ up = TRUE
    /\ lost = {}

-----------------------------------------------------------------------------
(* What the components ask each other.                                     *)

\* Mutations: the mark, or the reservation, is forgotten.
IsActiveSessionUnmarked == direct # "none" \/ reserved
IsActiveSessionUnreserved == direct # "none" \/ maintenance

\* AgentLoop.is_active_session
IsActiveSession == direct # "none" \/ reserved \/ maintenance

\* InboxService._agent_busy: AgentService reports "paused" from its entry and
\* otherwise what AgentLoop reports, which is "idle" during a reservation.
AgentBusy == entry = "paused" \/ maintenance \/ direct # "none"

QueuedIds == Ids(Contents(box.next_turn))
PendingIds == Ids(Pending(box))

\* Mutation: a task is created whether or not one is there.
ScheduleAlways(wait) ==
    /\ requested' = TRUE
    /\ waitIdle' = (waitIdle \/ wait)
    /\ dispatch' = [NoDispatch EXCEPT !.pc = "created"]

\* schedule_next_turn: the requests for one delivery merge.
Schedule(wait) ==
    /\ requested' = TRUE
    /\ waitIdle' = (waitIdle \/ wait)
    /\ dispatch' = IF dispatch.pc = "none"
                     THEN [NoDispatch EXCEPT !.pc = "created"] ELSE dispatch

NotScheduled == UNCHANGED <<requested, waitIdle, dispatch>>

-----------------------------------------------------------------------------
(* Clients and plugins.                                                    *)

Admissible(r) ==
    /\ up
    /\ r \notin PendingIds
    /\ Size(box) < Capacity
    /\ box.next_sequence < MaxSequence
    /\ Resubmits \/ r \notin executed \cup results \cup {dispatch.request}

\* followup(), up to the write of the admission.
Followup(r) ==
    /\ Admissible(r)
    /\ \A a \in admitting : a[1] # r
    /\ box' = Admitted(box, r, "next_turn")
    /\ admitting' = admitting \cup {<<r, AgentBusy>>}
    /\ NotScheduled
    /\ UNCHANGED <<receipts, agents, loop, compaction, log, up, lost>>

\* The rest of followup(): the receipt, and a delivery if the Session was not
\* busy then and is not busy now.
FollowupReturns(r, wasBusy) ==
    /\ <<r, wasBusy>> \in admitting
    /\ admitting' = admitting \ {<<r, wasBusy>>}
    /\ receipts' = receipts \cup {r}
    /\ IF ~wasBusy /\ ~AgentBusy THEN Schedule(FALSE) ELSE NotScheduled
    /\ UNCHANGED <<box, agents, loop, compaction, log, up, lost>>

\* steer() and inject(): taken in by the running turn, or by the next one.
Steer(r) ==
    /\ Admissible(r)
    /\ box' = Admitted(box, r, "next_step")
    /\ NotScheduled
    /\ UNCHANGED <<admitting, receipts, agents, loop, compaction, log, up, lost>>

Remove(r) ==
    /\ Withdraws /\ up
    /\ r \in PendingIds
    /\ box' = Without(box, {r})
    /\ NotScheduled
    /\ UNCHANGED <<admitting, receipts, agents, loop, compaction, log, up, lost>>

Promote(r) ==
    /\ Withdraws /\ up
    /\ r \in QueuedIds
    /\ box' = Promoted(box, r)
    /\ NotScheduled
    /\ UNCHANGED <<admitting, receipts, agents, loop, compaction, log, up, lost>>

\* cancel(session) reaches a turn only once its task is the direct task, and
\* the turn then takes no step but its end.
Cancel ==
    /\ MayCancel /\ up
    /\ direct # "none"
    /\ turn' = [turn EXCEPT ![direct].cancelled = TRUE]
    /\ UNCHANGED <<inbox, dispatch, agents, reserved, direct, maintenance,
                   compaction, log, up, lost>>

\* /compact joins the shared compaction of the Session or starts it.
ManualCompact ==
    /\ Manual /\ up
    /\ compaction' = "running"
    /\ UNCHANGED <<inbox, dispatch, agents, loop, log, up, lost>>

-----------------------------------------------------------------------------
(* _dispatch_next_turn.                                                    *)

DispatchUnchanged ==
    UNCHANGED <<admitting, loop, log, up, lost>>

\* Mutation: a delivery requested meanwhile is forgotten.
FinishForgetful == dispatch' = NoDispatch

\* The finally block: a delivery requested meanwhile gets a task of its own.
Finish ==
    dispatch' = IF requested THEN [NoDispatch EXCEPT !.pc = "created"]
                             ELSE NoDispatch

\* Mutation: the Session is not asked whether it is busy.
DispatchStartUnasked ==
    /\ dispatch.pc = "created"
    /\ requested' = FALSE /\ waitIdle' = FALSE
    /\ dispatch' = [dispatch EXCEPT !.pc = "peek"]
    /\ UNCHANGED <<box, receipts, agents, compaction>>
    /\ DispatchUnchanged

\* The task starts: it takes the flags, and gives up at once if the Session
\* is busy and it is not to wait.
DispatchStart ==
    /\ dispatch.pc = "created"
    /\ requested' = FALSE /\ waitIdle' = FALSE
    /\ dispatch' = IF waitIdle THEN [dispatch EXCEPT !.pc = "waiting"]
                   ELSE IF AgentBusy THEN NoDispatch
                   ELSE [dispatch EXCEPT !.pc = "peek"]
    /\ UNCHANGED <<box, receipts, agents, compaction>>
    /\ DispatchUnchanged

DispatchWaits ==
    /\ dispatch.pc = "waiting"
    /\ ~AgentBusy
    /\ dispatch' = [dispatch EXCEPT !.pc = "peek"]
    /\ UNCHANGED <<box, receipts, requested, waitIdle, agents, compaction>>
    /\ DispatchUnchanged

\* The head of next_turn is the candidate, and inbox/before-claim decides:
\* above the water level it compacts first.
DispatchPeek ==
    /\ dispatch.pc = "peek"
    /\ IF box.next_turn = << >>
         THEN Finish /\ UNCHANGED compaction
         ELSE \E compact \in {FALSE, AutoCompact} :
                /\ dispatch' = [request |-> Head(box.next_turn).request_id,
                                pc |-> IF compact THEN "compacting" ELSE "hooked"]
                /\ compaction' = IF compact THEN "running" ELSE compaction
    /\ UNCHANGED <<box, receipts, requested, waitIdle, agents>>
    /\ DispatchUnchanged

\* The user message is in the history already (it is persisted before the
\* claim); claim() finds the candidate in either queue, or returns nothing.
DispatchClaim ==
    /\ dispatch.pc = "hooked"
    /\ IF dispatch.request \in PendingIds
         THEN /\ dispatch' = [dispatch EXCEPT !.pc = "claimed"]
              /\ box' = Without(box, {dispatch.request})
         ELSE Finish /\ UNCHANGED box
    /\ UNCHANGED <<receipts, requested, waitIdle, agents, compaction>>
    /\ DispatchUnchanged

\* AgentService.run, up to the hand-over to the Runtime: an answer known
\* already, AgentBusyError, or the turn is admitted.
DispatchDeliver ==
    /\ dispatch.pc = "claimed"
    /\ LET r == dispatch.request
       IN  \/ /\ r \in results
              /\ dispatch' = [dispatch EXCEPT !.pc = "finishing"]
              /\ UNCHANGED <<agents, turn, lost>>
           \/ /\ r \notin results
              /\ entry = "paused" \/ inflight \/ IsActiveSession
              /\ dispatch' = [dispatch EXCEPT !.pc = "finishing"]
              /\ lost' = lost \cup {r}
              /\ entry' = IF entry = "absent" THEN "idle" ELSE entry
              /\ UNCHANGED <<inflight, results, turn>>
           \/ /\ r \notin results
              /\ ~(entry = "paused" \/ inflight \/ IsActiveSession)
              /\ dispatch' = [dispatch EXCEPT !.pc = "running"]
              /\ entry' = "running" /\ inflight' = TRUE
              /\ turn' = [turn EXCEPT !["run"] =
                             [NoTurn EXCEPT !.pc = "admitted", !.request = r]]
              /\ UNCHANGED <<results, lost>>
    /\ UNCHANGED <<inbox, reserved, direct, maintenance, compaction, log, up>>

\* _resolve, and the end of the task.
DispatchFinishes ==
    /\ dispatch.pc = "finishing"
    /\ receipts' = receipts \ {dispatch.request}
    /\ Finish
    /\ UNCHANGED <<box, requested, waitIdle, agents, compaction>>
    /\ DispatchUnchanged

-----------------------------------------------------------------------------
(* run_input and resume_confirmation.                                      *)

At(t, pc) == turn' = [turn EXCEPT ![t].pc = pc]

\* run_input after _request_state: a request that has a turn/end is not run
\* again ("completed" if it was, "request-already-processed" otherwise), a busy
\* Session refuses it, and otherwise the Session is reserved.
RunAdmits ==
    /\ turn["run"].pc = "admitted"
    /\ LET r == turn["run"].request
       IN  IF r \in executed
             THEN /\ \E status \in {"completed", "failed"} :
                        turn' = [turn EXCEPT !["run"].pc = "returning",
                                             !["run"].status = status]
                  /\ UNCHANGED <<reserved, lost>>
           ELSE IF IsActiveSession
             THEN /\ turn' = [turn EXCEPT !["run"].pc = "returning",
                                          !["run"].status = "failed"]
                  /\ lost' = lost \cup {r}
                  /\ UNCHANGED reserved
           ELSE At("run", "reserved") /\ reserved' = TRUE /\ UNCHANGED lost
    /\ UNCHANGED <<inbox, dispatch, agents, direct, maintenance, compaction,
                   log, up>>

\* Validation, agent/before-run or the history refuses the input: there is no
\* turn and no agent/after-run, but the mark is cleared as after a turn.
RunRefused ==
    /\ turn["run"].pc = "reserved"
    /\ "failed" \in Outcomes
    /\ turn' = [turn EXCEPT !["run"].pc = "returning", !["run"].status = "failed"]
    /\ reserved' = FALSE /\ maintenance' = FALSE
    /\ UNCHANGED <<inbox, dispatch, agents, direct, compaction, log, up, lost>>

RunStarts ==
    /\ turn["run"].pc = "reserved"
    /\ At("run", "active")
    /\ direct' = "run"
    /\ UNCHANGED <<inbox, dispatch, agents, reserved, maintenance, compaction,
                   log, up, lost>>

\* A confirmation of a tool call that asks.  No await between the check and
\* the entry of the task in _direct_tasks really suspends.
Confirm(c) ==
    /\ up /\ turn[c].pc = "none"
    /\ asks > 0
    /\ IF IsActiveSession
         THEN \* agent-busy, and AgentService takes it for the agent's result
              /\ entry' = IF entry = "absent" THEN "absent" ELSE "failed"
              /\ UNCHANGED <<turn, direct>>
         ELSE /\ At(c, "resuming") /\ direct' = c
              /\ UNCHANGED entry
    /\ UNCHANGED <<inbox, dispatch, inflight, results, reserved, maintenance,
                   compaction, log, up, lost>>

\* The resumed turn applies the confirmation to the tool call.
Resume(c) ==
    /\ turn[c].pc = "resuming" /\ ~turn[c].cancelled
    /\ At(c, "active")
    /\ asks' = IF asks > 0 THEN asks - 1 ELSE 0
    /\ UNCHANGED <<inbox, dispatch, agents, reserved, direct, maintenance,
                   compaction, executed, up, lost>>

\* agent/before-reasoning: the candidates are all of next_step, and
\* inbox/before-claim may compact for them, the turn waiting.
TurnPeeks(t) ==
    /\ turn[t].pc = "active" /\ ~turn[t].cancelled
    /\ Contents(box.next_step) # {}
    /\ \E compact \in {FALSE, AutoCompact} :
          /\ turn' = [turn EXCEPT
                ![t].pc = IF compact THEN "gate compacting" ELSE "gate",
                ![t].batch = Ids(Contents(box.next_step))]
          /\ compaction' = IF compact THEN "running" ELSE compaction
    /\ UNCHANGED <<inbox, dispatch, agents, reserved, direct, maintenance, log,
                   up, lost>>

\* claim() takes the whole batch or nothing of it.
TurnClaims(t) ==
    /\ turn[t].pc = "gate" /\ ~turn[t].cancelled
    /\ box' = IF turn[t].batch \subseteq PendingIds
                THEN Without(box, turn[t].batch) ELSE box
    /\ turn' = [turn EXCEPT ![t].pc = "active", ![t].batch = {}]
    /\ UNCHANGED <<admitting, receipts, requested, waitIdle, dispatch, agents,
                   reserved, direct, maintenance, compaction, log, up, lost>>

\* The task of the turn ends, by itself or cancelled, with the turn/end event
\* of its request, and the Session is no longer active.
TurnEnds(t, status) ==
    /\ \/ /\ turn[t].pc = "active" /\ ~turn[t].cancelled
          /\ status \in Outcomes
       \/ /\ turn[t].pc = "resuming" /\ ~turn[t].cancelled
          /\ status = "failed" /\ status \in Outcomes
       \/ /\ turn[t].pc \in Active /\ turn[t].cancelled
          /\ status = "cancelled"
    /\ turn' = [turn EXCEPT ![t].pc = "after-run", ![t].status = status,
                            ![t].batch = {}]
    /\ direct' = "none"
    /\ reserved' = IF t = "run" THEN FALSE ELSE reserved
    /\ executed' = executed \cup ({turn[t].request} \ {NoRequest})
    /\ IF status = "paused"
         THEN asks' \in (IF asks > 0 THEN {asks} ELSE 1 .. MaxAsks)
         ELSE UNCHANGED asks
    /\ UNCHANGED <<inbox, dispatch, agents, maintenance, compaction, up, lost>>

\* handle_after_run
AfterRun(t) ==
    IF turn[t].status = "completed" THEN Schedule(TRUE) ELSE NotScheduled

\* agent/after-run: compaction is the inner listener, and below the water
\* level, or for a cancelled turn, it passes at once.  run_input clears the
\* mark after it, whoever has set it; a confirmation does not.
AfterRunPasses(t) ==
    /\ turn[t].pc = "after-run"
    /\ AfterRun(t)
    /\ At(t, "returning")
    /\ maintenance' = (maintenance /\ t # "run")
    /\ UNCHANGED <<box, admitting, receipts, agents, reserved, direct,
                   compaction, log, up, lost>>

\* Mutation: the hook does not wait for the compaction.
AfterRunCompactsBehind(t) ==
    /\ AutoCompact
    /\ turn[t].pc = "after-run" /\ ~turn[t].cancelled
    /\ AfterRun(t)
    /\ At(t, "returning")
    /\ maintenance' = (maintenance /\ t # "run")
    /\ compaction' = "running"
    /\ UNCHANGED <<box, admitting, receipts, agents, reserved, direct, log, up, lost>>

\* Above it the Session is marked "compacting" and compacted.
AfterRunCompacts(t) ==
    /\ AutoCompact
    /\ turn[t].pc = "after-run" /\ ~turn[t].cancelled
    /\ At(t, "compacting")
    /\ maintenance' = TRUE
    /\ compaction' = "running"
    /\ UNCHANGED <<inbox, dispatch, agents, reserved, direct, log, up, lost>>

\* The shared compaction ends for everybody who waits for it: the dispatch
\* task and a turn's claim go on, or keep their items pending; after a run the
\* mark is cleared, and handle_after_run is reached only if nothing was raised.
CompactionEnds(ok) ==
    /\ compaction = "running"
    /\ ok \/ CompactMayFail
    /\ compaction' = "none"
    /\ LET waiting == {t \in Turns : turn[t].pc = "compacting"}
           schedule == ok /\ \E t \in waiting : turn[t].status = "completed"
       IN  /\ turn' = [t \in Turns |->
                CASE t \in waiting -> [turn[t] EXCEPT !.pc = "returning"]
                  [] turn[t].pc = "gate compacting" /\ ok ->
                        [turn[t] EXCEPT !.pc = "gate"]
                  [] turn[t].pc = "gate compacting" /\ ~ok ->
                        [turn[t] EXCEPT !.pc = "active", !.batch = {}]
                  [] OTHER -> turn[t]]
           /\ maintenance' = (maintenance /\ waiting = {})
           /\ IF dispatch.pc = "compacting"
                THEN /\ IF ok THEN dispatch' = [dispatch EXCEPT !.pc = "hooked"]
                              ELSE Finish
                     /\ requested' = (requested \/ schedule)
                     /\ waitIdle' = (waitIdle \/ schedule)
                ELSE IF schedule THEN Schedule(TRUE) ELSE NotScheduled
    /\ UNCHANGED <<box, admitting, receipts, agents, reserved, direct, log, up,
                   lost>>

\* Mutations: "paused" counts as finished; the status is the state.
StateOfUnpaused(status) ==
    IF status \in {"completed", "paused"} THEN "idle" ELSE status
StateOfRaw(status) == status

\* AgentService._state_from_result
StateOf(status) == IF status = "completed" THEN "idle" ELSE status

\* run_input returns through AgentService.run to the dispatch task.
RunReturns ==
    /\ turn["run"].pc = "returning"
    /\ entry' = StateOf(turn["run"].status)
    /\ inflight' = FALSE
    /\ results' = results \cup {turn["run"].request}
    /\ turn' = [turn EXCEPT !["run"] = NoTurn]
    /\ dispatch' = [dispatch EXCEPT !.pc = "finishing"]
    /\ UNCHANGED <<inbox, reserved, direct, maintenance, compaction, log, up, lost>>

ConfirmReturns(c) ==
    /\ turn[c].pc = "returning"
    /\ entry' = IF entry = "absent" THEN "absent" ELSE StateOf(turn[c].status)
    /\ turn' = [turn EXCEPT ![c] = NoTurn]
    /\ UNCHANGED <<inbox, dispatch, inflight, results, reserved, direct,
                   maintenance, compaction, log, up, lost>>

-----------------------------------------------------------------------------
(* The process.  A restart restores the queues and starts nothing.  What a *)
(* turn under way had logged may have been written or not.                 *)

Crash ==
    /\ MayCrash /\ up
    /\ up' = FALSE
    /\ admitting' = {} /\ receipts' = {}
    /\ requested' = FALSE /\ waitIdle' = FALSE
    /\ dispatch' = NoDispatch
    /\ entry' = "absent" /\ inflight' = FALSE /\ results' = {}
    /\ turn' = [t \in Turns |-> NoTurn]
    /\ reserved' = FALSE /\ direct' = "none"
    /\ maintenance' = FALSE /\ compaction' = "none"
    /\ executed' \in {executed,
                      executed \cup ({turn["run"].request} \ {NoRequest})}
    /\ UNCHANGED <<box, asks, lost>>

Restart ==
    /\ ~up
    /\ up' = TRUE
    /\ UNCHANGED <<inbox, dispatch, agents, loop, compaction, log, lost>>

\* The first snapshot after a restart lists every request whose user message
\* the Session has as "pending", the ones that were run in an earlier life
\* included: module SessionSnapshot.
IndexForgets ==
    /\ MayCrash /\ up
    /\ executed' = executed \cap (results \cup {turn["run"].request})
    /\ UNCHANGED <<inbox, dispatch, agents, loop, compaction, asks, up, lost>>

-----------------------------------------------------------------------------
DispatchStep ==
    \/ DispatchStart
    \/ DispatchWaits
    \/ DispatchPeek
    \/ DispatchClaim
    \/ DispatchDeliver
    \/ DispatchFinishes

TurnStep(t) ==
    \/ TurnClaims(t)
    \/ \E status \in Outcomes \cup {"cancelled"} : TurnEnds(t, status)
    \/ AfterRunPasses(t)
    \/ AfterRunCompacts(t)

RunStep ==
    \/ RunAdmits
    \/ RunRefused
    \/ RunStarts
    \/ RunReturns
    \/ TurnStep("run")

ConfirmStep(c) ==
    \/ Resume(c)
    \/ ConfirmReturns(c)
    \/ TurnStep(c)

Next ==
    \/ \E r \in Requests : Followup(r) \/ Steer(r) \/ Remove(r) \/ Promote(r)
    \/ \E a \in admitting : FollowupReturns(a[1], a[2])
    \/ Cancel
    \/ ManualCompact
    \/ \E c \in Confirms : Confirm(c)
    \/ DispatchStep
    \/ RunStep
    \/ \E c \in Confirms : ConfirmStep(c)
    \/ \E t \in Turns : TurnPeeks(t)
    \/ \E ok \in BOOLEAN : CompactionEnds(ok)
    \/ Crash
    \/ Restart
    \/ IndexForgets

\* The loop runs every task that can run, writes return, turns and
\* compactions end.  Nobody has to type anything.
Fairness ==
    /\ \A r \in Requests, b \in BOOLEAN : WF_vars(FollowupReturns(r, b))
    /\ WF_vars(DispatchStep)
    /\ WF_vars(RunStep)
    /\ \A c \in Confirms : WF_vars(ConfirmStep(c))
    /\ WF_vars(\E ok \in BOOLEAN : CompactionEnds(ok))

Spec == Init /\ [][Next]_vars
FairSpec == Spec /\ Fairness

-----------------------------------------------------------------------------
(* What is promised.                                                       *)

Running == {t \in Turns : turn[t].pc \in Active}

\* "A session has at most one active turn" (README), whoever starts it: the
\* dispatch task or a confirmation command.
AtMostOneActiveTurn ==
    /\ Cardinality(Running) <= 1
    /\ \A t \in Running : direct = t

\* What makes it so: a turn executes only as the direct task of the Session,
\* and the reservation of a run keeps that place free for it.
OneStarter ==
    /\ \A t \in Turns : turn[t].pc \in Active => direct = t
    /\ turn["run"].pc = "reserved" => reserved /\ direct = "none"

\* No turn is begun, and none resumed, behind the maintenance mark.
NoTurnBehindTheMark ==
    [][\A t \in Turns :
          turn[t].pc \notin Active /\ turn'[t].pc \in Active => ~maintenance]_vars

\* "turn and compaction never overlap" (README): while a turn executes there
\* is no compaction but the one it waits for.
TurnAndCompactionNeverOverlap ==
    compaction = "running" =>
        \A t \in Running : turn[t].pc = "gate compacting"

\* What is claimed for a turn of its own is not refused for being busy: a
\* refused item is in no queue any more and no turn was begun for it.
NoClaimIsLost == lost = {}

\* The dispatch task and run_input agree: a turn is driven by "run" exactly
\* while the dispatch task and AgentService wait for it.
RunHasItsDispatcher ==
    /\ turn["run"].pc # "none" <=> dispatch.pc = "running"
    /\ turn["run"].pc # "none" => /\ inflight
                                  /\ turn["run"].request = dispatch.request

\* wait_session_quiescent answers "quiescent": nothing is pending and the
\* Session is not busy.  "等待队列为空且 Agent 没有 active Turn".
Quiescent == up /\ Pending(box) = {} /\ ~AgentBusy
QuiescentMeansNothingRuns ==
    Quiescent => /\ dispatch.pc \notin {"claimed", "running"}
                 /\ \A t \in Turns : turn[t].pc = "none"

\* "paused 不消费队列": no next-turn item is claimed while a tool call asks
\* and no confirmed turn runs.
PausedHoldsTheQueue ==
    [][DispatchClaim /\ dispatch'.pc = "claimed" =>
          asks = 0 \/ Running # {}]_vars

\* "重复/已完成 next-turn 不再创建无法完成的 receipt": a receipt is not created
\* for a request that has been run and is not to be delivered again.
NoReceiptAfterTheRun ==
    [][\A r \in (receipts' \ receipts) \cap results :
          r \in QueuedIds \cup {dispatch.request}]_vars

\* A queued follow-up is eventually claimed, withdrawn or promoted.
QueueDrains ==
    \A r \in Requests : r \in QueuedIds ~> r \notin QueuedIds
=============================================================================
