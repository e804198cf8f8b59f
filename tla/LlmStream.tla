------------------------------ MODULE LlmStream ------------------------------
(***************************************************************************)
(* One question of the ReAct loop to the model.  The reasoning executor    *)
(* makes attempts; each goes through the LlmService, which picks the       *)
(* adapter of a protocol, and is wrapped by the fallback plugin, which may *)
(* put a second model in the place of the first.  An adapter turns what    *)
(* the provider sends into chunks, a BlockAssembler checks them, and the   *)
(* executor collects the answer.                                           *)
(*                                                                         *)
(* Contents are left out; a tool call keeps which of its parts have come.  *)
(* A reasoning block behaves as a text block does and is one here.  What   *)
(* the loop makes of the answer is ReActTurn's, what is sent LlmRequests'. *)
(***************************************************************************)
EXTENDS Naturals, FiniteSets, Sequences

CONSTANTS
    MaxAttempts,    \* 1 + max_retries
    MaxTools,       \* bound on the tool calls of one response
    MaxChanges      \* bound on the changes of the registry

VARIABLES
    routes,     \* LlmService._adapters: the protocols that have an adapter
    changes,
    stream,     \* the adapter's generator and the response it reads
    run         \* the executor's attempt, the assembler and the result

vars == <<routes, changes, stream, run>>

Protocols == {"completions", "responses"}
Finishes == {"stop", "tool-calls", "max-tokens"}
\* LLMError codes: the whitelist of the fallback has the first, the runtime
\* does not retry after the second, and no configuration names the others.
Codes == {"rate_limit", "bad_request", "unknown"}

NoTool == [id |-> FALSE, name |-> FALSE, args |-> "none", index |-> 0, done |-> FALSE]
NoStream == [pc |-> "off", model |-> "primary", protocol |-> "completions", text |-> 0,
             tools |-> <<>>, finish |-> "none", cancelled |-> FALSE]
NoAnswer == [finish |-> "none", parts |-> {}, calls |-> <<>>]
NewRun == [pc |-> "requesting", attempt |-> 1, fed |-> <<>>, parts |-> {}, calls |-> <<>>,
           finish |-> "none", error |-> "none", primary |-> "none", answer |-> NoAnswer]

TypeOK ==
    /\ routes \subseteq Protocols /\ changes \in 0 .. MaxChanges
    /\ stream.pc \in {"off", "open", "closing"} /\ Len(stream.tools) <= MaxTools
    /\ run.pc \in {"requesting", "streaming", "failed", "sleeping", "done"}
    /\ run.attempt \in 1 .. MaxAttempts
    /\ run.answer.finish \in Finishes \cup {"none", "error", "cancelled"}
    /\ run.pc = "streaming" <=> stream.pc # "off"

Init ==
    /\ routes = Protocols /\ changes = 0
    /\ stream = NoStream /\ run = NewRun

-----------------------------------------------------------------------------
(* BlockAssembler.feed and the executor's use of a chunk.                  *)

Start(i, kind) == [type |-> "start", index |-> i, kind |-> kind, args |-> "none"]
Delta(i, kind) == [Start(i, kind) EXCEPT !.type = "delta"]
End(i, kind, args) == [Start(i, kind) EXCEPT !.type = "end", !.args = args]
Finish(kind) == [Start(0, kind) EXCEPT !.type = "finish"]

Source == <<stream.model, run.attempt>>
Violates(r) == [r EXCEPT !.error = "unknown"]
IsOpen(r, i, kind) ==
    i \in DOMAIN r.fed /\ r.fed[i].open /\ r.fed[i].kind = kind

\* Arguments that are not whole do not parse, but none at all are an empty
\* object: the input of a call is whole, void or empty.
Input(args) == CASE args = "whole" -> "whole" [] args = "part" -> "void" [] OTHER -> "empty"

Feed(r, c) ==
    IF r.error # "none" THEN r ELSE
    CASE c.type = "start" ->
            IF c.index = Len(r.fed) + 1
            THEN [r EXCEPT !.fed = Append(@, [kind |-> c.kind, open |-> TRUE])] ELSE Violates(r)
      [] c.type = "delta" ->
            IF ~IsOpen(r, c.index, c.kind) THEN Violates(r)
            ELSE IF c.kind = "text" THEN [r EXCEPT !.parts = @ \cup {Source}] ELSE r
      [] c.type = "end" ->
            IF ~IsOpen(r, c.index, c.kind) THEN Violates(r)
            ELSE [r EXCEPT !.fed[c.index].open = FALSE,
                    !.calls = IF c.kind = "text" THEN @
                              ELSE Append(@, [from |-> Source, input |-> Input(c.args)])]
      [] c.type = "finish" ->
            IF c.kind \in Finishes THEN [r EXCEPT !.finish = c.kind] ELSE [r EXCEPT !.error = c.kind]

FeedAll(r, chunks) ==
    LET fed[n \in 0 .. Len(chunks)] == IF n = 0 THEN r ELSE Feed(fed[n - 1], chunks[n])
    IN  fed[Len(chunks)]

\* validate: every block is closed.
Validated(r) ==
    IF r.error = "none" /\ \E i \in DOMAIN r.fed : r.fed[i].open THEN Violates(r) ELSE r

-----------------------------------------------------------------------------
(* LlmService                                                              *)

\* Registrations and their disposal; a stream has its adapter already, so a
\* change is looked at only where a call is prepared.
ChangeRoutes ==
    /\ run.pc = "requesting" /\ changes < MaxChanges
    /\ changes' = changes + 1
    /\ routes' \in SUBSET Protocols \ {routes}
    /\ UNCHANGED <<stream, run>>

\* LlmService.close, and a wrapper that is cancelled: a response that is
\* being read is left at the next chunk, one that has not come is not.
CloseService ==
    /\ run.pc \in {"requesting", "streaming"} /\ changes < MaxChanges
    /\ changes' = changes + 1 /\ routes' = {}
    /\ stream' = [stream EXCEPT !.cancelled = stream.pc = "open"]
    /\ UNCHANGED run

\* The end of an attempt: with an answer, or with an error.
Settled(r) ==
    /\ stream' = NoStream
    /\ run' = IF Validated(r).error # "none" THEN [Validated(r) EXCEPT !.pc = "failed"]
              ELSE [r EXCEPT !.pc = "done", !.answer =
                     [finish |-> r.finish, parts |-> r.parts,
                      calls |-> IF r.finish = "max-tokens" THEN <<>> ELSE r.calls]]

\* prepare_call finds an adapter, and the stream begins.
Asked(model) ==
    \E protocol \in routes :
        /\ stream' = [NoStream EXCEPT !.pc = "open", !.model = model, !.protocol = protocol]
        /\ run' = [run EXCEPT !.pc = "streaming"]

\* prepare_call refuses, or the provider refuses the request.
Refusals == {code \in Codes : routes = {} => code = "unknown"}

\* stream_with_fallback: the last attempt of the primary, without any output.
CanFallback(code) ==
    /\ run.attempt = MaxAttempts /\ stream.model = "primary"
    /\ run.fed = <<>> /\ code = "rate_limit"

\* An error finish of the stream, with what it sent before it.
Errs(chunks, code) ==
    LET r == FeedAll(run, chunks) IN
    IF chunks = <<>> /\ CanFallback(code)
    THEN /\ stream' = [NoStream EXCEPT !.pc = "closing"]
         /\ run' = [run EXCEPT !.pc = "streaming", !.primary = code]
    ELSE Settled(FeedAll(r, <<Finish(IF run.primary = "none" THEN code ELSE run.primary)>>))

Request ==
    /\ run.pc = "requesting"
    /\ Asked("primary") \/ \E code \in Refusals : Errs(<<>>, code)
    /\ UNCHANGED <<routes, changes>>

\* The primary is closed; the backup is asked once.
RequestBackup ==
    /\ stream.pc = "closing"
    /\ \/ Asked("backup")
       \/ Refusals # {} /\ Settled(Feed(run, Finish(run.primary)))
    /\ UNCHANGED <<routes, changes>>

-----------------------------------------------------------------------------
(* The adapters.  A provider sends events; each becomes some chunks.       *)

Opened(st) ==
    (IF st.text > 0 THEN 1 ELSE 0) + Cardinality({k \in DOMAIN st.tools : st.tools[k].index > 0})
Reads == stream.pc = "open" /\ ~stream.cancelled
Sends(st, chunks) ==
    LET r == FeedAll(run, chunks) IN
    IF r.error # "none" THEN Settled(r) ELSE stream' = st /\ run' = r

TextDelta ==
    /\ Reads
    /\ IF stream.text > 0 THEN Sends(stream, <<Delta(stream.text, "text")>>)
       ELSE LET i == Opened(stream) + 1
            IN  Sends([stream EXCEPT !.text = i], <<Start(i, "text"), Delta(i, "text")>>)
    /\ UNCHANGED <<routes, changes>>

\* A chunk for the tool's arguments, which also opens its block.
WithDelta(st, k) ==
    IF st.tools[k].index > 0 THEN Sends(st, <<Delta(st.tools[k].index, "tool")>>)
    ELSE LET i == Opened(st) + 1
         IN  Sends([st EXCEPT !.tools[k].index = i], <<Start(i, "tool"), Delta(i, "tool")>>)

\* The event of a tool call that may be its first.
Touched(k) ==
    IF k \in DOMAIN stream.tools THEN stream ELSE [stream EXCEPT !.tools = Append(@, NoTool)]
Places == 1 .. (IF Len(stream.tools) < MaxTools THEN Len(stream.tools) + 1 ELSE MaxTools)
Later == [none |-> {"none", "part", "whole"}, part |-> {"part", "whole"}, whole |-> {"whole"}]

\* _ToolCallAccumulator.feed: arguments wait until the id has come.
ToolDelta(k) ==
    /\ Reads /\ stream.protocol = "completions"
    /\ \E id, name \in BOOLEAN, args \in Later[Touched(k).tools[k].args] :
          LET old == Touched(k).tools[k]
              new == [old EXCEPT !.id = @ \/ id, !.name = @ \/ name, !.args = args]
              st  == [Touched(k) EXCEPT !.tools[k] = new]
              unsent == args # "none" /\ (args # old.args \/ old.index = 0)
          IN  /\ st # stream
              /\ IF new.id /\ unsent THEN WithDelta(st, k) ELSE Sends(st, <<>>)
    /\ UNCHANGED <<routes, changes>>

\* OutputItemAdded, arguments of it, OutputItemDone with the whole item.
ItemAdded(k) ==
    /\ Reads /\ stream.protocol = "responses" /\ ~Touched(k).tools[k].id
    /\ Sends([Touched(k) EXCEPT !.tools[k].id = TRUE, !.tools[k].name = TRUE], <<>>)
    /\ UNCHANGED <<routes, changes>>

ArgumentsDelta(k) ==
    /\ Reads /\ stream.protocol = "responses" /\ ~Touched(k).tools[k].done
    /\ \E args \in Later[Touched(k).tools[k].args] \ {"none"} :
          WithDelta([Touched(k) EXCEPT !.tools[k].args = args], k)
    /\ UNCHANGED <<routes, changes>>

ItemDone(k) ==
    /\ Reads /\ stream.protocol = "responses" /\ ~Touched(k).tools[k].done
    /\ \E args \in {"none", "whole"} :
          LET old == Touched(k).tools[k]
              i   == IF old.index > 0 THEN old.index ELSE Opened(stream) + 1
              st  == [Touched(k) EXCEPT
                        !.tools[k] = [id |-> TRUE, name |-> TRUE, args |-> args, index |-> i, done |-> TRUE],
                        !.finish = IF @ = "none" THEN "tool-calls" ELSE @]
          IN  /\ args = "none" => old.args = "none"
              /\ Sends(st, (IF old.index > 0 THEN <<>> ELSE <<Start(i, "tool")>>) \o <<End(i, "tool", args)>>)
    /\ UNCHANGED <<routes, changes>>

\* finish_reason, or ResponseCompleted with its status.
Completed ==
    /\ Reads
    /\ \E kind \in Finishes \cup {"none"} :
          LET tools == stream.protocol = "responses" /\ stream.finish = "tool-calls"
          IN  /\ stream.protocol = "responses" => kind # "tool-calls"
              /\ stream' = [stream EXCEPT !.finish =
                              IF kind = "none" \/ (tools /\ kind = "stop") THEN @ ELSE kind]
              /\ stream' # stream
    /\ UNCHANGED <<routes, changes, run>>

TextEnd == IF stream.text > 0 THEN <<End(stream.text, "text", "none")>> ELSE <<>>

\* Completions close their blocks at the end.  A call that has its id and its
\* name but never had arguments has no block: the adapter fails.  A call
\* without a name is passed over and its block stays open.
Named == {k \in DOMAIN stream.tools : stream.tools[k].id /\ stream.tools[k].name}
ToolEnds ==
    [j \in 1 .. Cardinality(Named) |->
        LET k == CHOOSE k \in Named : Cardinality({m \in Named : m <= k}) = j
        IN  End(stream.tools[k].index, "tool", stream.tools[k].args)]
HasOutput == stream.text > 0 \/ stream.tools # <<>>

EndOfCompletions ==
    LET blockless == {k \in Named : stream.tools[k].index = 0}
    IN  IF blockless # {} THEN Errs(TextEnd, "unknown")
        ELSE IF stream.finish \in Finishes
        THEN Settled(FeedAll(run, TextEnd \o ToolEnds \o <<Finish(stream.finish)>>))
        ELSE IF HasOutput THEN Settled(FeedAll(run, TextEnd \o ToolEnds \o <<Finish("stop")>>))
        ELSE Errs(<<>>, "unknown")

EndOfResponses ==
    IF stream.finish \in Finishes THEN Settled(FeedAll(run, TextEnd \o <<Finish(stream.finish)>>))
    ELSE Errs(TextEnd, "unknown")

\* The response ends, or the adapter was told to leave it; either way what
\* has come so far is finished in the same manner.
Ends ==
    /\ stream.pc = "open"
    /\ IF stream.protocol = "completions" THEN EndOfCompletions ELSE EndOfResponses
    /\ UNCHANGED <<routes, changes>>

Breaks(code) ==
    /\ Reads
    /\ Errs(<<>>, code)
    /\ UNCHANGED <<routes, changes>>

-----------------------------------------------------------------------------
(* ReasoningExecutor.stream after a failure.                               *)

\* Mutation: the next attempt goes on with the lists of the last.
KeepingParts(r) == [r EXCEPT !.pc = "requesting", !.attempt = @ + 1, !.fed = <<>>, !.error = "none"]

\* An attempt starts with empty lists and an assembler of its own.
NextAttempt(r) == [NewRun EXCEPT !.attempt = r.attempt + 1]

\* llm/error: the configured recovery has a rule for some codes, otherwise
\* the runtime knows what is worth another attempt.
Decide(retry) ==
    /\ run.pc = "failed"
    /\ retry => run.attempt < MaxAttempts
    /\ run' = IF retry THEN [run EXCEPT !.pc = "sleeping"]
              ELSE [run EXCEPT !.pc = "done", !.answer = [finish |-> "error", parts |-> run.parts, calls |-> <<>>]]
    /\ UNCHANGED <<routes, changes, stream>>

Retry ==
    /\ run.pc = "sleeping"
    /\ run' = NextAttempt(run)
    /\ UNCHANGED <<routes, changes, stream>>

\* The task is cancelled at an await: the texts so far are kept.
Cancel ==
    /\ run.pc \in {"requesting", "streaming", "failed", "sleeping"}
    /\ run' = [run EXCEPT !.pc = "done", !.answer =
          [finish |-> "cancelled", parts |-> IF run.pc = "streaming" THEN run.parts ELSE {}, calls |-> <<>>]]
    /\ stream' = NoStream
    /\ UNCHANGED <<routes, changes>>

Next ==
    \/ ChangeRoutes \/ CloseService \/ Request \/ RequestBackup
    \/ TextDelta \/ Completed \/ Ends
    \/ \E k \in Places : ToolDelta(k) \/ ItemAdded(k) \/ ArgumentsDelta(k) \/ ItemDone(k)
    \/ \E code \in Codes : Breaks(code)
    \/ \E retry \in BOOLEAN : Decide(retry)
    \/ Retry \/ Cancel
Spec == Init /\ [][Next]_vars

-----------------------------------------------------------------------------
\* What the turn keeps of the model is of one model and of one attempt, the
\* last: no text and no call of an attempt that failed, or of the model the
\* other has replaced.  And it is all of it: an answer has every call whose
\* block was opened, unless the answer was cut short, when it has none
\* (stream_with_fallback, BlockAssembler, the retries of ReasoningExecutor).
AnswerIsOneStream ==
    LET answer  == run.answer
        sources == answer.parts \cup {answer.calls[k].from : k \in DOMAIN answer.calls}
        blocks  == {i \in DOMAIN run.fed : run.fed[i].kind = "tool"}
    IN  /\ \A s, t \in sources : s = t /\ s[2] = run.attempt
        /\ answer.finish \in {"stop", "tool-calls"} => Len(answer.calls) = Cardinality(blocks)
        /\ answer.finish \in {"max-tokens", "error", "cancelled"} => answer.calls = <<>>
=============================================================================
