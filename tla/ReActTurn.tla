------------------------------ MODULE ReActTurn -----------------------------
(***************************************************************************)
(* The inside of a turn: TurnExecutor drives ReActRunner, which reasons    *)
(* (asks the LLM), acts (runs a batch of tools) and exits, or pauses when  *)
(* a tool asks for approval.  Turns of one Session follow each other; a    *)
(* turn is started by a message or by the user's answer to a question.     *)
(*                                                                         *)
(* What a tool call is worth is kept in the Session's messages, so "calls" *)
(* outlives the turn.  Text, tokens, tracing and the content of hints are  *)
(* left out.  Whether a tool asks is decided by the permission rules, which*)
(* depend on the tool and its arguments only: "asks" is fixed when the     *)
(* model emits the call.  The rules do not look at the state of the call;  *)
(* only an approval service may remember that the user has allowed it,     *)
(* and the host ships without one: "remembers" is either, for a whole      *)
(* behaviour.  An answered call is history, and its identifier may be used *)
(* again for a new call.                                                   *)
(***************************************************************************)
EXTENDS Naturals, FiniteSets

CONSTANTS
    Calls,              \* tool-call identifiers
    MaxIterations,      \* max_iterations
    MaxAttempts,        \* 1 + max_retries
    EmptyRetries,       \* MAX_EMPTY_RESPONSE_RETRIES
    MaxContinuations,   \* max_continuations
    MaxRecoveries       \* RetryRequest.max_attempts

NoCall == "no call"
\* A bound on the counter of iterations that no run of the code reaches.
IterationCap == MaxIterations + EmptyRetries + 3

VARIABLES
    calls,      \* the ToolCallBlocks of the history, and their results
    pc,         \* where the turn is
    run,        \* RunState
    batch,      \* TurnResult.tool_calls
    confirm,    \* turn.confirm_event
    recoveries, \* turn.retry_count
    cancel,     \* turn.cancellation
    outcome,    \* of the last turn/end
    remembers   \* whether an approval service answers for allowed calls

vars == <<calls, pc, run, batch, confirm, recoveries, cancel, outcome, remembers>>

CallStates == {"absent", "pending", "asking", "allowed", "finished"}
Call == [state : CallStates, asks : BOOLEAN, answered : BOOLEAN,
         ran : 0 .. 2, refused : BOOLEAN]
AbsentCall == [state |-> "absent", asks |-> FALSE, answered |-> FALSE,
               ran |-> 0, refused |-> FALSE]
Places == {"idle", "building", "reasoning", "acting", "stopping", "resuming",
           "recovering", "closing"}
Reasons == {"none", "completed", "interrupted", "exceed_max_iters", "error", "paused"}
\* RunState.start
NewRun == [iteration |-> 0, attempt |-> 0, empties |-> 0, final |-> FALSE,
           continued |-> 0, done |-> "none"]

TypeOK ==
    /\ calls \in [Calls -> Call]
    /\ pc \in Places
    /\ run \in [iteration : 0 .. IterationCap, attempt : 0 .. MaxAttempts,
                empties : 0 .. EmptyRetries, final : BOOLEAN,
                continued : 0 .. MaxContinuations, done : Reasons]
    /\ batch \subseteq Calls
    /\ confirm \in Calls \cup {NoCall}
    /\ recoveries \in 0 .. MaxRecoveries
    /\ cancel \in BOOLEAN
    /\ outcome \in {"none", "paused", "cancelled", "error", "completed"}
    /\ remembers \in BOOLEAN

Init ==
    /\ calls = [c \in Calls |-> AbsentCall]
    /\ pc = "idle" /\ run = NewRun /\ batch = {} /\ confirm = NoCall
    /\ recoveries = 0 /\ cancel = FALSE /\ outcome = "none"
    /\ remembers \in BOOLEAN

InState(s) == {c \in Calls : calls[c].state = s}
\* A call of the history that no result has been written for.
Open(c) == calls[c].state # "absent" /\ ~calls[c].answered

-----------------------------------------------------------------------------
(* Turns begin: a message, or the answer of the user to one question.      *)

\* execute: turn/start, then BUILDING.
Begin(c) ==
    /\ pc = "idle"
    /\ pc' = "building"
    /\ run' = NewRun /\ batch' = {} /\ confirm' = c
    /\ recoveries' = 0 /\ cancel' = FALSE
    /\ UNCHANGED <<outcome, remembers>>

\* The Inbox hands over nothing while the last turn is paused.
Message == outcome # "paused" /\ Begin(NoCall) /\ UNCHANGED calls

\* /allow and /deny: the host first persists the answer, then runs a turn.
Answer(c, approved) ==
    /\ calls[c].state = "asking"
    /\ Begin(c)
    /\ calls' = [calls EXCEPT ![c].state = IF approved THEN "allowed" ELSE "finished",
                              ![c].refused = ~approved]

\* The gateway restarts between two turns: that the last one was paused is
\* known to AgentService only, and forgotten.
Restart ==
    /\ pc = "idle" /\ outcome # "none"
    /\ outcome' = "none"
    /\ UNCHANGED <<calls, pc, run, batch, confirm, recoveries, cancel, remembers>>

-----------------------------------------------------------------------------
(* decide: the next action, from the state and the previous result.        *)

\* The final round, which asks the model for no tools, may bring tool calls all
\* the same: nothing refuses them.
Reasoning(r) ==
    [pc |-> "reasoning",
     run |-> [r EXCEPT !.iteration = IF @ < IterationCap THEN @ + 1 ELSE @,
                       !.attempt = 1]]
Exit(r, reason) == [pc |-> "closing", run |-> [r EXCEPT !.done = reason]]
Failed(r) == [pc |-> "recovering", run |-> [r EXCEPT !.done = "error"]]

\* Mutation: the iterations are not bounded.
UnboundedDecide(r, prev) ==
    CASE prev = "error" -> Failed(r)
      [] prev = "tools" -> [pc |-> "acting", run |-> r]
      [] prev = "text"  -> [pc |-> "stopping", run |-> r]
      [] OTHER -> Reasoning(r)
Decide(r, prev) ==
    CASE prev = "error" -> Failed(r)
      [] prev = "tools" -> [pc |-> "acting", run |-> r]
      [] prev = "text"  -> [pc |-> "stopping", run |-> r]
      [] prev = "empty" /\ r.final -> Failed(r)
      [] prev = "empty" /\ r.empties < EmptyRetries ->
            Reasoning([r EXCEPT !.empties = @ + 1])
      [] prev = "empty" -> Reasoning([r EXCEPT !.final = TRUE])
      [] prev = "none" /\ r.iteration >= MaxIterations -> Exit(r, "exceed_max_iters")
      [] OTHER -> Reasoning(r)

Goto(d) == pc' = d.pc /\ run' = d.run

\* Mutation: the answer is taken for a yes.
AcceptAsYes ==
    /\ calls' = [calls EXCEPT ![confirm].state = "allowed"]
    /\ IF InState("asking") \ {confirm} # {} THEN Goto(Exit(run, "paused"))
       ELSE pc' = "resuming" /\ UNCHANGED run

\* _accept_confirmation: the answer must be the one the history holds (an
\* open question takes it); other open questions keep the turn paused.
Accept ==
    LET expected == IF calls[confirm].refused THEN "finished" ELSE "allowed"
        accepted == IF calls[confirm].state = "asking" THEN expected
                                                       ELSE calls[confirm].state IN
    /\ calls' = [calls EXCEPT ![confirm].state = accepted]
    /\ IF accepted # expected THEN Goto(Failed(run))
       ELSE IF InState("asking") \ {confirm} # {} THEN Goto(Exit(run, "paused"))
       ELSE pc' = "resuming" /\ UNCHANGED run

\* _build or _build_resume, which may raise, then the entry of run.
Build ==
    /\ pc = "building"
    /\ \/ Goto(Exit(run, "error")) /\ UNCHANGED calls
       \/ confirm = NoCall /\ Goto(Decide(run, "none")) /\ UNCHANGED calls
       \/ confirm # NoCall /\ Accept
    /\ UNCHANGED <<batch, confirm, recoveries, cancel, outcome, remembers>>

\* ReasoningExecutor.stream: one attempt.  Calls are announced while they
\* stream in; those of a failed or truncated attempt stay in the history
\* without being executed, unless a final snapshot replaces the message.
Announce(B, A) ==
    calls' = [c \in Calls |->
                IF c \in B THEN [AbsentCall EXCEPT !.state = "pending", !.asks = c \in A]
                ELSE calls[c]]
Fresh == {c \in Calls : ~Open(c)}

Respond ==
    /\ pc = "reasoning" /\ ~cancel
    /\ \/ \E B \in SUBSET Fresh \ {{}}, A \in SUBSET Calls :
             /\ A \subseteq B
             /\ Announce(B, A) /\ batch' = B
             /\ Goto(Decide(run, "tools"))
       \/ \E truncated \in SUBSET Fresh, prev \in {"text", "empty"} :
             /\ Announce(truncated, {}) /\ batch' = {}
             /\ Goto(Decide(run, prev))
    /\ UNCHANGED <<confirm, recoveries, cancel, outcome, remembers>>

\* The provider fails: retried while an attempt is left and the error or the
\* llm/error hook allows it.
Fail(B, retry) ==
    /\ pc = "reasoning" /\ ~cancel
    /\ Announce(B, {}) /\ batch' = {}
    /\ \/ /\ retry /\ run.attempt < MaxAttempts
          /\ run' = [run EXCEPT !.attempt = @ + 1] /\ UNCHANGED pc
       \/ ~retry /\ Goto(Decide(run, "error"))
    /\ UNCHANGED <<confirm, recoveries, cancel, outcome, remembers>>

\* _dispatch_before_reasoning finds the cancellation.
StopBeforeReasoning ==
    /\ pc = "reasoning" /\ cancel
    /\ Goto(Exit(run, "interrupted"))
    /\ UNCHANGED <<calls, batch, confirm, recoveries, cancel, outcome, remembers>>

-----------------------------------------------------------------------------
(* Tools.                                                                  *)

\* The calls of B for which the permission rules require the user's approval.
Questions(B) == {c \in B : calls[c].asks /\ ~(remembers /\ calls[c].state = "allowed")}

\* Mutation: the questions are not written to the history.
ExecutedSilently(B, Q, R) ==
    [c \in Calls |->
        IF c \notin B THEN calls[c]
        ELSE IF Q = {}
             THEN [calls[c] EXCEPT !.ran = IF c \in R THEN 1 ELSE @,
                                   !.state = "finished", !.answered = TRUE]
        ELSE calls[c]]
\* _execute_calls: all calls of B run at once, R of them to their effect, and Q
\* have come as far as the question.  If one has, only the questions are written
\* and the other results are dropped.
Executed(B, Q, R) ==
    [c \in Calls |->
        LET ran == IF c \in R /\ calls[c].ran < 2 THEN calls[c].ran + 1 ELSE calls[c].ran IN
        IF c \notin B THEN calls[c]
        ELSE IF Q = {}
             THEN [calls[c] EXCEPT !.ran = ran, !.state = "finished", !.answered = TRUE]
        ELSE IF c \in Q
             THEN [calls[c] EXCEPT !.state = "asking"]
        ELSE [calls[c] EXCEPT !.ran = ran]]

Act ==
    /\ pc = "acting"
    /\ \E R \in SUBSET (batch \ Questions(batch)) :
          calls' = Executed(batch, Questions(batch), R)
    /\ IF Questions(batch) # {} THEN Goto(Exit(run, "paused"))
                                ELSE Goto(Decide(run, "none"))
    /\ batch' = {}
    /\ UNCHANGED <<confirm, recoveries, cancel, outcome, remembers>>

\* Mutation: every open call is executed.
ResumedAll(allowed, open, Q, R) ==
    Executed(open, Questions(open), open \ Questions(open))
\* resume_execute: the allowed calls are executed, all other open calls get
\* the result "denied".  A question that is asked again does not stop it.
Resumed(allowed, open, Q, R) ==
    [c \in Calls |->
        IF c \in open \ allowed
        THEN [calls[c] EXCEPT !.state = "finished", !.answered = TRUE]
        ELSE Executed(allowed, Q, R)[c]]

Resume ==
    LET open == {c \in Calls : Open(c)}
        allowed == open \cap InState("allowed") IN
    /\ pc = "resuming"
    /\ \E R \in SUBSET (allowed \ Questions(allowed)) :
          calls' = Resumed(allowed, open, Questions(allowed), R)
    /\ Goto(Decide(run, "none"))
    /\ UNCHANGED <<batch, confirm, recoveries, cancel, outcome, remembers>>

-----------------------------------------------------------------------------
(* Exit, failure, cancellation.                                            *)

\* ExitExecutor.stream: agent/stop-decision may ask for another round.
Stop ==
    /\ pc = "stopping"
    /\ \/ Goto(Exit(run, "completed"))
       \/ /\ ~cancel /\ run.continued < MaxContinuations
          /\ Goto(Decide([run EXCEPT !.continued = @ + 1], "none"))
    /\ UNCHANGED <<calls, batch, confirm, recoveries, cancel, outcome, remembers>>

\* A hook or a service raises: run finalizes with ERROR and re-raises.
Raise ==
    /\ pc \in {"reasoning", "stopping"}
    /\ Goto(Failed(run))
    /\ UNCHANGED <<calls, batch, confirm, recoveries, cancel, outcome, remembers>>

\* _request_error_recovery: agent/run-error may order a retry with a new token.
\* A second run of a message in the same turn is refused ("already running",
\* because _run_task is the turn's own task), which is an error again; an
\* answer is resumed again.
Recover ==
    /\ pc = "recovering"
    /\ \/ pc' = "closing" /\ UNCHANGED <<calls, run, recoveries>>
       \/ /\ ~cancel /\ recoveries < MaxRecoveries
          /\ recoveries' = recoveries + 1
          /\ IF confirm = NoCall THEN UNCHANGED <<calls, pc, run>> ELSE Accept
    /\ UNCHANGED <<batch, confirm, cancel, outcome, remembers>>

\* AgentService.cancel: the event is set and the task is cancelled where it
\* awaits.  Tools that run are cancelled and their results are written, unless
\* one of them, Q, has asked before it was cancelled: then the turn pauses.  The
\* cancelled tools of a resumption raise in its prologue, where that counts as
\* an error.
Cancel ==
    /\ pc \in {"building", "reasoning", "acting", "stopping", "resuming", "recovering"}
    /\ ~cancel /\ cancel' = TRUE
    /\ \/ /\ pc \notin {"acting", "resuming"}
          /\ Goto(Exit(run, "interrupted")) /\ UNCHANGED <<calls, batch>>
       \/ /\ pc = "acting" /\ batch' = {}
          /\ \E Q \in SUBSET Questions(batch), R \in SUBSET (batch \ Questions(batch)) :
                /\ calls' = Executed(batch, Q, R)
                /\ Goto(Exit(run, IF Q = {} THEN "interrupted" ELSE "paused"))
       \/ LET open == {c \in Calls : Open(c)}
              allowed == open \cap InState("allowed") IN
          /\ pc = "resuming" /\ allowed # {} /\ UNCHANGED batch
          /\ \E Q \in SUBSET Questions(allowed),
                R \in SUBSET (allowed \ Questions(allowed)) :
                IF Q = {}
                THEN calls' = Executed(allowed, Q, R) /\ Goto(Failed(run))
                ELSE calls' = Resumed(allowed, open, Q, R) /\ Goto(Decide(run, "none"))
    /\ UNCHANGED <<confirm, recoveries, outcome, remembers>>

\* The finally of _drive: the outcome, the final snapshot, turn/end, flush.
Outcome ==
    CASE run.done = "paused" -> "paused"
      [] run.done = "interrupted" -> "cancelled"
      [] run.done = "error" -> "error"
      [] OTHER -> "completed"
Close ==
    /\ pc = "closing"
    /\ outcome' = Outcome
    /\ pc' = "idle" /\ run' = NewRun /\ batch' = {} /\ confirm' = NoCall
    /\ recoveries' = 0 /\ cancel' = FALSE
    /\ UNCHANGED <<calls, remembers>>

Drive ==
    \/ Build \/ Respond \/ StopBeforeReasoning \/ Act \/ Resume \/ Stop \/ Raise
    \/ Recover \/ Close
    \/ \E B \in SUBSET Fresh, retry \in BOOLEAN : Fail(B, retry)
Next ==
    \/ Message \/ Drive \/ Cancel \/ Restart
    \/ \E c \in Calls, approved \in BOOLEAN : Answer(c, approved)

Fairness == WF_vars(Drive)
Spec == Init /\ [][Next]_vars /\ Fairness

-----------------------------------------------------------------------------
(* Properties.                                                             *)

\* A tool has its effect at most once for a call, and not at all for one the
\* user has refused, however often the turn is paused, resumed by this or by
\* another answer, retried or cancelled around it.
RunsAsAllowed ==
    \A c \in Calls : calls[c].ran <= (IF calls[c].refused THEN 0 ELSE 1)

\* A Session that waits for an answer has a question open: else it would wait
\* for ever, because a paused Session takes no message.
PausedHasAQuestion ==
    pc = "idle" /\ outcome = "paused" => InState("asking") # {}

\* Every turn ends: the loop of reasoning, empty answers, tools, continuations
\* and recoveries is bounded, provided the LLM and the tools return.
TurnEnds == []<>(pc = "idle")
=============================================================================
