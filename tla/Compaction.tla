----------------------------- MODULE Compaction -----------------------------
(***************************************************************************)
(* The compaction package over the history of one Session.  The history is *)
(* what derive_messages makes of the log: events of turns add and extend   *)
(* messages, a compact/message event adds a summary or a fast marker, and  *)
(* nothing is ever deleted.  What the model is shown is the context view,  *)
(* which the newest summary cuts short.  A compaction reads the view, has  *)
(* it summarised in chunks and appends the summary some time later; hooks  *)
(* and commands ask for one, share it, and may be cancelled while waiting. *)
(*                                                                         *)
(* A summary is the set of messages it was made from: what the model       *)
(* writes about them is its own.  Token counts are small numbers.  Left    *)
(* out: markers of old versions without ids, usage reported by the API,    *)
(* and rollbacks, which SessionSnapshot treats.                            *)
(***************************************************************************)
EXTENDS Naturals, FiniteSets, Sequences, SequencesExt

CONSTANTS
    Callers,            \* "after_run", "run_error", "before_claim", "command"
    Precompact, Full,   \* the levels of after-run and of before-claim
    ChunkTokens, ChunkParallelism, ChunkRetries,
    SummaryTokens,      \* the lengths a summary may have
    MaxMessages,        \* bound on the history when something is added to it
    MaxCalls            \* bound on the callers at once

VARIABLES
    history,    \* the derived messages, in the order they began
    turn,       \* the assistant message the turn writes to; 0: none
    task,       \* _compact_tasks[session]: the shared compaction
    callers     \* the hooks and the command that may ask for it

vars == <<history, turn, task, callers>>

NoTask == [pc |-> "none", previous |-> {}, head |-> <<>>, tokens |-> 0,
           work |-> <<>>, round |-> 1, cancelled |-> FALSE]
NoWork == [state |-> "queued", tries |-> 0]
NewMessage == [role |-> "user", name |-> "default", closed |-> TRUE, result |-> "none",
               through |-> 0, covers |-> {}, trims |-> {}, tokens |-> 1]

TypeOK ==
    /\ turn \in 0 .. Len(history)
    /\ \A i \in DOMAIN history :
          /\ history[i].name \in {"default", "compact", "compact_fast"}
          /\ history[i].result \in {"none", "running", "done"}
          /\ history[i].covers \cup history[i].trims \subseteq 1 .. i
          /\ history[i].through \in 0 .. i
    /\ task.pc \in {"none", "reading", "asking", "storing", "falling_back"}
    /\ callers \in [Callers -> {"idle", "checked", "waiting", "woken", "interrupted",
                               "stopping"}]

Init ==
    /\ history = <<>> /\ turn = 0 /\ task = NoTask
    /\ callers = [c \in Callers |-> "idle"]

-----------------------------------------------------------------------------
(* derive_messages                                                         *)

\* A message of the user, or a summary, seals an answer that is still open.
Sealed ==
    LET last == Len(history)
    IN  IF last > 0 /\ history[last].role = "assistant"
        THEN [history EXCEPT ![last].closed = TRUE] ELSE history

Log(messages, m) == history' = Append(messages, m)

UserMessage ==
    /\ Len(history) < MaxMessages
    /\ Log(Sealed, NewMessage)
    /\ UNCHANGED <<turn, task, callers>>

\* The first chunk, the start of a call or the whole message: ensure_assistant.
AssistantBegins ==
    /\ turn = 0 /\ Len(history) < MaxMessages
    /\ Log(history, [NewMessage EXCEPT !.role = "assistant", !.closed = FALSE])
    /\ turn' = Len(history) + 1
    /\ UNCHANGED <<task, callers>>

ToolResultStarts ==
    /\ turn # 0 /\ history[turn].result = "none"
    /\ history' = [history EXCEPT ![turn].result = "running"]
    /\ UNCHANGED <<turn, task, callers>>

ToolResult ==
    /\ turn # 0 /\ history[turn].result = "running"
    /\ history' = [history EXCEPT ![turn].result = "done"]
    /\ UNCHANGED <<turn, task, callers>>

TurnEnd ==
    /\ turn # 0
    /\ history' = [history EXCEPT ![turn].closed = TRUE]
    /\ turn' = 0
    /\ UNCHANGED <<task, callers>>

\* compact/message in its two modes.
FastMarker(ids) ==
    [NewMessage EXCEPT !.role = "assistant", !.name = "compact_fast", !.trims = ids]
SummaryMessage(covers, through, tokens) ==
    [NewMessage EXCEPT !.name = "compact", !.covers = covers, !.through = through, !.tokens = tokens]

-----------------------------------------------------------------------------
(* build_context_view                                                      *)

Trims == UNION {history[i].trims : i \in DOMAIN history}
Anchor ==
    LET summaries == {i \in DOMAIN history : history[i].name = "compact"}
    IN  IF summaries = {} THEN 0 ELSE CHOOSE i \in summaries : \A j \in summaries : j <= i

\* Mutation: what follows the summary.
ViewFromAnchor ==
    LET all == [i \in DOMAIN history |-> i]
    IN  IF Anchor = 0 THEN all ELSE SubSeq(all, Anchor, Len(history))

\* The newest summary and what follows the last message it was made from.
\* What was said while it was being made comes before it in the history.
View ==
    LET all == [i \in DOMAIN history |-> i]
    IN  IF Anchor = 0 THEN all
        ELSE <<Anchor>> \o SubSeq(all, history[Anchor].through + 1, Anchor - 1)
                        \o SubSeq(all, Anchor + 1, Len(history))

Tokens(i) ==
    history[i].tokens + (IF history[i].result = "done" /\ i \notin Trims THEN 1 ELSE 0)
Total(ids) == FoldLeft(LAMBDA n, i : n + Tokens(i), 0, ids)
HasSummary == View # <<>> /\ history[View[1]].name = "compact"
Unsummarised == IF HasSummary THEN Tail(View) ELSE View

-----------------------------------------------------------------------------
(* CompactionService                                                       *)

\* compress_fast: the results before the protected turns, not yet trimmed.
Trimmable(keep) ==
    LET users == {i \in DOMAIN Unsummarised : history[Unsummarised[i]].role = "user"}
        kept(i) == \E u \in users : u <= i /\ Cardinality({v \in users : v > u}) < keep
    IN  {Unsummarised[i] : i \in {i \in DOMAIN Unsummarised :
            history[Unsummarised[i]].result # "none" /\ ~kept(i)}} \ Trims

\* Messages go into a chunk until it would be too long for the next one.
Chunks(ids) ==
    LET put(chunks, i) ==
            IF chunks # <<>> /\ Total(Append(Last(chunks), i)) <= ChunkTokens
            THEN [chunks EXCEPT ![Len(chunks)] = Append(@, i)]
            ELSE Append(chunks, <<i>>)
    IN  FoldLeft(put, <<>>, ids)

\* should_compact.
Needed(c) ==
    CASE c = "after_run"    -> Total(View) >= Precompact
      [] c = "before_claim" -> Total(View) + 1 >= Full
      [] c = "run_error"    -> Total(View) > 0
      [] c = "command"      -> TRUE

\* The task ends; its waiters are woken, by its result or by its cancellation.
Ends(waiter) ==
    /\ task' = NoTask
    /\ callers' = [c \in Callers |->
          CASE callers[c] = "waiting"  -> waiter
            [] callers[c] = "stopping" -> "idle"
            [] OTHER -> callers[c]]

\* The beginning of _do_compact: nothing to do, or the head in chunks.  The
\* level of usage is read after the view; nothing but a length depends on it.
TaskReads ==
    /\ task.pc = "reading" /\ ~task.cancelled
    /\ IF Unsummarised = <<>> THEN Ends("woken")
       ELSE /\ task' = [task EXCEPT !.pc = "asking", !.head = Unsummarised, !.tokens = Total(View),
                 !.previous = IF HasSummary THEN history[View[1]].covers ELSE {},
                 !.work = [k \in DOMAIN Chunks(Unsummarised) |-> NoWork]]
            /\ UNCHANGED callers
    /\ UNCHANGED <<history, turn>>

\* run_chunk: as many at once as the semaphore lets in.
ChunkBegins(k) ==
    /\ task.pc = "asking" /\ ~task.cancelled /\ task.work[k].state = "queued"
    /\ Cardinality({j \in DOMAIN task.work : task.work[j].state = "running"}) < ChunkParallelism
    /\ \A j \in 1 .. k - 1 : task.work[j].state # "queued"
    /\ task' = [task EXCEPT !.work[k].state = "running"]
    /\ UNCHANGED <<history, turn, callers>>

\* One call of the model: sections, or none of them, an error or a timeout.
Called(work) ==
    {[NoWork EXCEPT !.state = "text"],
     IF work.tries < ChunkRetries THEN [work EXCEPT !.tries = @ + 1]
     ELSE [NoWork EXCEPT !.state = "empty"]}

ChunkReturns(k) ==
    /\ task.pc = "asking" /\ ~task.cancelled /\ task.work[k].state = "running"
    /\ \E work \in Called(task.work[k]) : task' = [task EXCEPT !.work[k] = work]
    /\ UNCHANGED <<history, turn, callers>>

\* gather and _merge_chunk_summaries: all of the chunks, or a second round,
\* or the fallback.
RoundEnds ==
    /\ task.pc = "asking" /\ ~task.cancelled
    /\ \A k \in DOMAIN task.work : task.work[k].state \in {"text", "empty"}
    /\ task' =
          IF \A k \in DOMAIN task.work : task.work[k].state = "text"
          THEN [task EXCEPT !.pc = "storing"]
          ELSE IF task.round = 1
          THEN [task EXCEPT !.round = 2, !.work = [k \in DOMAIN task.work |-> NoWork]]
          ELSE [task EXCEPT !.pc = "falling_back"]
    /\ UNCHANGED <<history, turn, callers>>

Covered ==
    task.previous \cup ToSet(task.head) \cup UNION {history[i].covers : i \in ToSet(task.head)}
Summarised(tokens) ==
    Log(Sealed, SummaryMessage(Covered, Last(task.head), tokens))

\* A summary that is no shorter is given up; otherwise it is appended to the
\* log, behind what has been logged meanwhile.
TaskStores ==
    /\ task.pc = "storing" /\ ~task.cancelled
    /\ \E tokens \in SummaryTokens :
          IF tokens >= task.tokens THEN UNCHANGED history
          ELSE Summarised(tokens)
    /\ Ends("woken")
    /\ UNCHANGED turn

TaskFallsBack ==
    /\ task.pc = "falling_back" /\ ~task.cancelled
    /\ IF Trimmable(0) = {} THEN UNCHANGED history
       ELSE Log(Sealed, FastMarker(Trimmable(0)))
    /\ Ends("woken")
    /\ UNCHANGED turn

\* The log, the bus or the store refuses.
TaskRaises ==
    /\ task.pc \in {"reading", "storing"} /\ ~task.cancelled
    /\ Ends("woken")
    /\ UNCHANGED <<history, turn>>

\* A cancelled task ends at its await; its append may have been made by then.
TaskIsCancelled ==
    /\ task.pc # "none" /\ task.cancelled
    /\ \/ UNCHANGED history
       \/ /\ task.pc = "storing"
          /\ \E tokens \in SummaryTokens : tokens < task.tokens /\ Summarised(tokens)
    /\ Ends("interrupted")
    /\ UNCHANGED <<turn>>

\* close: the plugin is unloaded.
CancelAll ==
    /\ task.pc # "none" /\ ~task.cancelled
    /\ task' = [task EXCEPT !.cancelled = TRUE]
    /\ UNCHANGED <<history, turn, callers>>

CompressFast(keep) ==
    /\ Len(history) < MaxMessages /\ Trimmable(keep) # {}
    /\ Log(Sealed, FastMarker(Trimmable(keep)))
    /\ UNCHANGED <<turn, task, callers>>

-----------------------------------------------------------------------------
(* The hooks and the command; what they make of the result, to go on, to   *)
(* retry or to keep an item queued, is a step of ReActTurn and             *)
(* SessionDispatch.                                                        *)

Asks(c, pc) == callers' = [callers EXCEPT ![c] = pc]

\* A hook looks at the level first; one that finds it low returns.
Check(c) ==
    /\ callers[c] = "idle" /\ Needed(c) /\ Len(history) < MaxMessages
    /\ Cardinality({d \in Callers : callers[d] # "idle"}) < MaxCalls
    /\ Asks(c, "checked")
    /\ UNCHANGED <<history, turn, task>>

\* compact: the task of the Session, or a new one.
Join(c) ==
    /\ callers[c] = "checked"
    /\ Asks(c, "waiting")
    /\ task' = IF task.pc = "none" THEN [NoTask EXCEPT !.pc = "reading"] ELSE task
    /\ UNCHANGED <<history, turn>>

Returns(c) ==
    /\ callers[c] = "woken"
    /\ Asks(c, "idle")
    /\ UNCHANGED <<history, turn, task>>

\* A caller is cancelled, or its task was.  The wait of before-claim and of
\* the command is shielded; the other two cancel the task there is by then,
\* theirs or not, and wait for it.
Cancelled(c) ==
    /\ callers[c] \in {"checked", "waiting", "woken", "interrupted"}
    /\ IF c \in {"after_run", "run_error"} /\ task.pc # "none"
       THEN Asks(c, "stopping") /\ task' = [task EXCEPT !.cancelled = TRUE]
       ELSE Asks(c, "idle") /\ UNCHANGED task
    /\ UNCHANGED <<history, turn>>

Next ==
    \/ UserMessage \/ AssistantBegins \/ ToolResultStarts \/ ToolResult \/ TurnEnd
    \/ TaskReads \/ RoundEnds \/ TaskStores \/ TaskFallsBack \/ TaskRaises
    \/ TaskIsCancelled \/ CancelAll
    \/ \E k \in DOMAIN task.work : ChunkBegins(k) \/ ChunkReturns(k)
    \/ \E keep \in 0 .. 1 : CompressFast(keep)
    \/ \E c \in Callers : Check(c) \/ Join(c) \/ Returns(c) \/ Cancelled(c)
Spec == Init /\ [][Next]_vars

-----------------------------------------------------------------------------
\* Every message of the conversation is either shown to the model or in the
\* summary that is, also one that was logged while a summary was being made,
\* by whomever, and however the making ended (through_message_id and
\* build_context_view).
NothingFallsOut ==
    \A i \in DOMAIN history : history[i].name = "default" =>
        \/ i \in ToSet(View)
        \/ \E s \in ToSet(View) : i \in history[s].covers
=============================================================================
