----------------------------- MODULE LlmRequests -----------------------------
(***************************************************************************)
(* What is sent to the model.  The context of the Agent is a list of       *)
(* messages; one of the assistant gathers the blocks of several rounds of  *)
(* a turn, with gaps where tools were interrupted.  It is unfolded to the  *)
(* messages of the chat protocol, put right there, and for the Responses   *)
(* protocol turned into items.                                             *)
(*                                                                         *)
(* Contents are left out; text, thinking, hints, calls and results are     *)
(* told apart.  Left out too: the system message, which is the first and   *)
(* alone, and raw reasoning items, which stand where thinking does.        *)
(***************************************************************************)
EXTENDS Naturals, FiniteSets, Sequences, SequencesExt

CONSTANTS
    ToolCalls,
    MaxBlocks   \* bound on the blocks of a context

VARIABLE context    \* AgentState.context: messages of a role and blocks

vars == <<context>>

Block(kind, call) == [kind |-> kind, call |-> call]
Text == Block("text", "none")
Said(role, blocks) == [role |-> role, blocks |-> blocks]

Holds(b) == {m \in DOMAIN context : b \in ToSet(context[m].blocks)}
Size == FoldLeft(LAMBDA n, m : n + Len(m.blocks), 0, context)

TypeOK ==
    /\ Size <= MaxBlocks
    /\ \A m \in DOMAIN context : context[m].role \in {"user", "assistant"} /\ context[m].blocks # <<>>

Init == context = <<>>

-----------------------------------------------------------------------------
(* MessageContext: how the context grows                                   *)

AddUser ==
    /\ Size < MaxBlocks
    /\ context' = Append(context, Said("user", <<Text>>))

\* append_reply_blocks: to the message of the reply, or a new one.
AppendBlock(b, fresh) ==
    /\ Size < MaxBlocks
    /\ IF ~fresh /\ context # <<>> /\ Last(context).role = "assistant"
       THEN context' = [context EXCEPT ![Len(context)].blocks = Append(@, b)]
       ELSE context' = Append(context, Said("assistant", <<b>>))

AddReply(kind, fresh) == AppendBlock(Block(kind, "none"), fresh)
AddCall(c, fresh) == Holds(Block("call", c)) = {} /\ AppendBlock(Block("call", c), fresh)

\* A result goes to the message of its call, whatever has come after it.
AddToolResult(c) ==
    /\ Size < MaxBlocks /\ Holds(Block("result", c)) = {}
    /\ \E m \in Holds(Block("call", c)) :
          context' = [context EXCEPT ![m].blocks = Append(@, Block("result", c))]

Next ==
    \/ AddUser
    \/ \E fresh \in BOOLEAN :
          \/ \E kind \in {"text", "thinking", "hint"} : AddReply(kind, fresh)
          \/ \E c \in ToolCalls : AddCall(c, fresh)
    \/ \E c \in ToolCalls : AddToolResult(c)
Spec == Init /\ [][Next]_vars

-----------------------------------------------------------------------------
(* _msg_to_dicts and to_openai_message                                     *)

Wire(role, text, thinking, calls, call) ==
    [role |-> role, text |-> text, thinking |-> thinking, calls |-> calls, call |-> call]
ToolMessage(c) == Wire("tool", TRUE, FALSE, <<>>, c)
UserMessage == Wire("user", TRUE, FALSE, <<>>, "none")

\* The indices of a set, in their order.
InOrder(S) == [k \in 1 .. Cardinality(S) |-> CHOOSE i \in S : Cardinality({j \in S : j <= i}) = k]

\* Results and hints are messages of their own.
Alone(blocks) == {i \in DOMAIN blocks : blocks[i].kind \in {"hint", "result"}}

\* The blocks that are merged with block i, from there to the next that is alone.
Part(blocks, i) == {j \in i .. Len(blocks) : i .. j \cap Alone(blocks) = {}}

Merged(role, blocks, part) ==
    LET calls == InOrder({j \in part : blocks[j].kind = "call"})
    IN  Wire(role, \E j \in part : blocks[j].kind = "text", \E j \in part : blocks[j].kind = "thinking",
             [k \in DOMAIN calls |-> blocks[calls[k]].call], "none")

\* The message that begins at block i.
Beginning(message, i) ==
    CASE message.blocks[i].kind = "hint"   -> UserMessage
      [] message.blocks[i].kind = "result" -> ToolMessage(message.blocks[i].call)
      [] OTHER -> Merged(message.role, message.blocks, Part(message.blocks, i))

\* One begins where a block is alone, after such a block, and with the first.
Beginnings(blocks) == {i \in DOMAIN blocks : i = 1 \/ {i - 1, i} \cap Alone(blocks) # {}}

Unfolded(message) ==
    LET begin == InOrder(Beginnings(message.blocks))
    IN  [k \in DOMAIN begin |-> Beginning(message, begin[k])]

ChatMessages == FlattenSeq([m \in DOMAIN context |-> Unfolded(context[m])])

-----------------------------------------------------------------------------
(* _normalize_chat_messages                                                *)

\* The results that directly follow message h.
Following(ms, h) ==
    {i \in h + 1 .. Len(ms) : \A j \in h + 1 .. i : ms[j].role = "tool"}

\* Mutation: some result is enough.
CompleteIfAny(ms, h) ==
    /\ ms[h].role = "assistant" /\ ms[h].calls # <<>>
    /\ {ms[i].call : i \in Following(ms, h)} \cap ToSet(ms[h].calls) # {}

\* complete_pair: exactly one result for each of the calls.
Complete(ms, h) ==
    /\ ms[h].role = "assistant" /\ ms[h].calls # <<>>
    /\ Cardinality(Following(ms, h)) = Len(ms[h].calls)
    /\ {ms[i].call : i \in Following(ms, h)} = ToSet(ms[h].calls)

\* Calls that are not paired are taken out of their message; what has no
\* content is not sent, nor a result that is left over.
Normalised(ms, keepsThinking) ==
    LET stripped == [h \in DOMAIN ms |-> IF Complete(ms, h) THEN ms[h] ELSE [ms[h] EXCEPT !.calls = <<>>]]
        payload(m) == m.text \/ m.calls # <<>> \/ (keepsThinking /\ m.thinking)
        paired(i) == \E h \in 1 .. i - 1 : i \in Following(ms, h) /\ Complete(ms, h)
        kept(i) == CASE ms[i].role = "tool"      -> paired(i)
                     [] ms[i].role = "assistant" -> payload(stripped[i])
                     [] OTHER                    -> TRUE
        indices == InOrder({i \in DOMAIN ms : kept(i)})
    IN  [k \in DOMAIN indices |-> stripped[indices[k]]]

-----------------------------------------------------------------------------
(* _convert_messages_to_responses_input                                    *)

Item(kind, call) == Block(kind, call)

Items(m, reasoning) ==
    CASE m.role = "user" -> <<Item("user", "none")>>
      [] m.role = "tool" -> <<Item("output", m.call)>>
      [] m.role = "assistant" ->
           (IF reasoning /\ m.thinking THEN <<Item("reasoning", "none")>> ELSE <<>>)
           \o (IF m.text \/ (m.calls = <<>> /\ ~(reasoning /\ m.thinking))
               THEN <<Item("assistant", "none")>> ELSE <<>>)
           \o [k \in DOMAIN m.calls |-> Item("function_call", m.calls[k])]

ResponsesInput(reasoning) ==
    LET ms == Normalised(ChatMessages, reasoning)
    IN  FlattenSeq([k \in DOMAIN ms |-> Items(ms[k], reasoning)])

-----------------------------------------------------------------------------
\* Every request is one that providers accept, whatever gaps a cancellation,
\* a crash or a failed attempt has left in the context: a call is followed by
\* its result and a result stands for a call that was just made, both once,
\* and no message is empty.  And nothing the user or a hint has said is left
\* out (_normalize_chat_messages, _convert_messages_to_responses_input).
RequestsAreWellFormed ==
    LET chat == Normalised(ChatMessages, FALSE)
        users(seq) == Cardinality({i \in DOMAIN seq : seq[i].role = "user"})
    IN  /\ \A h \in DOMAIN chat :
              /\ LET n == Len(chat[h].calls)
                 IN  h + n <= Len(chat) /\ ToSet(chat[h].calls) = {chat[h + k].call : k \in 1 .. n}
              /\ chat[h].role = "tool" =>
                    \E a \in 1 .. h - 1 : chat[h].call \in ToSet(chat[a].calls)
              /\ chat[h].role = "assistant" => chat[h].text \/ chat[h].calls # <<>>
        /\ users(chat) = users(ChatMessages)
        /\ \A reasoning \in BOOLEAN :
              LET items == ResponsesInput(reasoning)
                  at(kind, c) == {i \in DOMAIN items : items[i] = Item(kind, c)}
              IN  \A c \in ToolCalls :
                    /\ Cardinality(at("function_call", c)) = Cardinality(at("output", c))
                    /\ \A i \in at("function_call", c), j \in at("output", c) : i < j
                    /\ Cardinality(at("output", c)) <= 1
=============================================================================
