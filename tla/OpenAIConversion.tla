--------------------------- MODULE OpenAIConversion ---------------------------
(***************************************************************************)
(* How a conversation in the Anthropic form is rewritten for an upstream   *)
(* that speaks OpenAI chat: AnthropicToOpenAIConverter.convert_messages in *)
(* src/core/anthropic/conversion.py.  OpenAI has no text after the tool    *)
(* calls of a message, so what an assistant said after its first call is   *)
(* held back until the results of the calls have been replayed.            *)
(*                                                                         *)
(* A message has a role, a form (one string, or a list of blocks) and may  *)
(* carry a reasoning of its own.  What matters of a block is its kind, the *)
(* id of the call it makes or answers, and its place <<message, block>>;   *)
(* <<message, 0>> is the place of the message's own reasoning.             *)
(***************************************************************************)
EXTENDS QueueOps, SequencesExt

CONSTANTS MessageSet,   \* the messages of which conversations are made
          CallIds,      \* the ids of calls in them
          MaxMessages   \* bound on the length of a conversation

\* What the interface of the client promises: a string is text; the model calls and a
\* user returns results.
AnyId == CallIds \cup {""}
Kinds == {"text", "thinking", "redacted_thinking", "tool_use", "tool_result", "image", "document", "server_tool"}
ASSUME MessagesAssumption ==
    /\ MaxMessages \in Nat
    /\ MessageSet \subseteq [role : {"user", "assistant"}, form : {"string", "list"}, reasoning : BOOLEAN,
                             blocks : Seq([kind : Kinds, id : AnyId])]
    /\ \A msg \in MessageSet : \A i \in DOMAIN msg.blocks :
          LET kind == msg.blocks[i].kind
          IN  /\ msg.form = "string" => kind = "text"
              /\ kind = "tool_use" => msg.role = "assistant"
              /\ kind = "tool_result" => msg.role = "user"

VARIABLES mode,     \* ReasoningReplayMode
          input,    \* the messages converted so far
          output,   \* result: the OpenAI messages
          pending,  \* _PendingAfterTools: ids still unanswered, blocks held back
          phase     \* "converting", "done" or "refused"

conversionVars == <<mode, input, output, pending, phase>>

Modes == {"disabled", "think_tags", "reasoning_content"}
NoPending == [ids |-> {}, blocks |-> <<>>, own |-> <<>>]
Forbidden == [assistant |-> {"image", "server_tool"}, user |-> {"image"}]

ConversionInit ==
    /\ mode \in Modes /\ input = <<>> /\ output = <<>> /\ pending = NoPending /\ phase = "converting"

-----------------------------------------------------------------------------

IsCall(b) == b.kind = "tool_use"
Held == pending.blocks # <<>>
Places(blocks) == [i \in DOMAIN blocks |-> blocks[i].at]
OfKind(blocks, kinds) == Without(blocks, {b \in ToSet(blocks) : b.kind \notin kinds})
FirstCall(blocks) ==
    CHOOSE i \in DOMAIN blocks : IsCall(blocks[i]) /\ \A j \in DOMAIN blocks : IsCall(blocks[j]) => i <= j

Message(role, text, calls, reasoning) ==
    [role |-> role, text |-> text, calls |-> calls, reasoning |-> reasoning, for |-> ""]

\* _convert_assistant_message: thinking is shown in tags, replayed as reasoning
\* unless the message has a reasoning of its own, or dropped.
Assistant(blocks, own) ==
    LET shown == IF mode = "think_tags" THEN {"text", "thinking"} ELSE {"text"}
    IN  Message("assistant", Places(OfKind(blocks, shown)), <<>>,
                CASE mode # "reasoning_content" -> <<>>
                  [] mode = "reasoning_content" /\ own # <<>> -> own
                  [] mode = "reasoning_content" /\ own = <<>> -> Places(OfKind(blocks, {"thinking"})))

\* _deferred_post_tool_to_messages
Deferred == IF Held THEN <<Assistant(pending.blocks, pending.own)>> ELSE <<>>

\* _deferred_post_tool_blocks
AfterFirstCall(blocks) ==
    Without(SubSeq(blocks, FirstCall(blocks) + 1, Len(blocks)), {b \in ToSet(blocks) : IsCall(b)})

\* _convert_assistant_message_with_split
WithCalls(blocks, own) ==
    LET calls == OfKind(blocks, {"tool_use"})
    IN  [Assistant(SubSeq(blocks, 1, FirstCall(blocks) - 1), own) EXCEPT !.calls = [i \in DOMAIN calls |-> calls[i].id]]

\* An assistant's list: what an earlier message held back is given up first.
ConvertAssistant(m) ==
    /\ m.role = "assistant" /\ m.form = "list"
    /\ LET calls == OfKind(m.blocks, {"tool_use"})
           held  == IF calls = <<>> THEN <<>> ELSE AfterFirstCall(m.blocks)
       IN  /\ output' = output \o Deferred \o
                 <<IF calls = <<>> THEN Assistant(m.blocks, m.own) ELSE WithCalls(m.blocks, m.own)>>
           /\ pending' = IF held = <<>> THEN NoPending
                         ELSE [ids |-> {calls[i].id : i \in DOMAIN calls} \ {""}, blocks |-> held, own |-> m.own]

\* One string.  A user's makes the converter give up what it held back.
ConvertString(m) ==
    LET own == IF m.role = "assistant" THEN m.own ELSE <<>>
    IN  /\ m.form = "string"
        /\ output' = output \o (IF m.role = "user" THEN Deferred ELSE <<>>) \o
              <<Message(m.role, (IF mode = "think_tags" THEN own ELSE <<>>) \o Places(m.blocks), <<>>,
                        IF mode = "reasoning_content" THEN own ELSE <<>>)>>
        /\ pending' = IF m.role = "user" THEN NoPending ELSE pending

Flush(texts) == IF texts = <<>> THEN <<>> ELSE <<Message("user", texts, <<>>, <<>>)>>

\* A result ends the text before it and may be followed by what was held back.
AddResult(acc, b, more) ==
    [acc EXCEPT !.out = @ \o Flush(acc.texts) \o <<[Message("tool", <<b.at>>, <<>>, <<>>) EXCEPT !.for = b.id]>> \o more,
                !.texts = <<>>, !.ids = @ \ {b.id}]

\* Mutant: the first result is taken for the last.
ResultUncounted(acc, b) == AddResult(acc, b, IF acc.injecting THEN Deferred ELSE <<>>)

\* In _convert_user_message_with_injection what was held back follows each result
\* after which no call is unanswered.
Result(acc, b) == AddResult(acc, b, IF acc.injecting /\ acc.ids \ {b.id} = {} THEN Deferred ELSE <<>>)

\* One block of a user's list.  Other kinds, documents among them, are passed over.
Block(acc, b) ==
    CASE b.kind = "text" -> [acc EXCEPT !.texts = Append(@, b.at)]
      [] b.kind = "tool_result" -> Result(acc, b)
      [] OTHER -> acc

\* The blocks of a list, one after the other.
AfterBlocks(start, blocks) ==
    LET acc[i \in 0..Len(blocks)] == IF i = 0 THEN start ELSE Block(acc[i - 1], blocks[i])
    IN  acc[Len(blocks)]

\* A user's list: with calls unanswered what is held back is put among the
\* results; with none it comes first.
ConvertUser(m) ==
    LET injecting == Held /\ pending.ids # {}
        start == [out |-> IF injecting THEN <<>> ELSE Deferred, texts |-> <<>>, ids |-> pending.ids, injecting |-> injecting]
        end   == AfterBlocks(start, m.blocks)
    IN  /\ m.role = "user" /\ m.form = "list"
        /\ output' = output \o end.out \o Flush(end.texts)
        /\ pending' = IF injecting /\ end.ids # {} THEN [pending EXCEPT !.ids = end.ids] ELSE NoPending

Refused(m) == m.form = "list" /\ \E i \in DOMAIN m.blocks : m.blocks[i].kind \in Forbidden[m.role]

\* One turn of the loop.  A kind that cannot be converted is an error of the request.
Convert(msg) ==
    LET n == Len(input) + 1
        m == [role |-> msg.role, form |-> msg.form, own |-> IF msg.reasoning THEN <<<<n, 0>>>> ELSE <<>>,
              blocks |-> [i \in DOMAIN msg.blocks |-> [kind |-> msg.blocks[i].kind, id |-> msg.blocks[i].id, at |-> <<n, i>>]]]
    IN  /\ phase = "converting" /\ n <= MaxMessages
        /\ input' = Append(input, m)
        /\ IF Refused(m) THEN phase' = "refused" /\ UNCHANGED <<output, pending>>
           ELSE UNCHANGED phase /\ (ConvertAssistant(m) \/ ConvertString(m) \/ ConvertUser(m))
        /\ UNCHANGED mode

\* The end of the loop.
Finish ==
    /\ phase = "converting" /\ input # <<>> /\ phase' = "done"
    /\ output' = output \o Deferred
    /\ UNCHANGED <<mode, input, pending>>

ConversionNext == (\E msg \in MessageSet : Convert(msg)) \/ Finish

ConversionSpec == ConversionInit /\ [][ConversionNext]_conversionVars

-----------------------------------------------------------------------------

Calls(m) == {m.blocks[i].id : i \in {j \in DOMAIN m.blocks : IsCall(m.blocks[j])}}
Results(m) == OfKind(m.blocks, {"tool_result"})
ShownKinds == IF mode = "think_tags" THEN {"text", "thinking"} ELSE {"text"}

\* The calls of a message have names and are answered at the beginning of the next
\* message, which answers nothing else.
Answered(conversation) ==
    \A n \in DOMAIN conversation :
        LET m == conversation[n]
            calls == IF n = 1 THEN {} ELSE Calls(conversation[n - 1])
            results == Results(m)
        IN  /\ "" \notin Calls(m)
            /\ Cardinality({results[i].id : i \in DOMAIN results}) = Len(results)
            /\ {results[i].id : i \in DOMAIN results} = calls
            /\ calls # {} => m.role = "user" /\ \A i \in 1..Len(results) : m.blocks[i].kind = "tool_result"

\* What a message gives the upstream, in order: what an assistant says up to its
\* first call; a user's results, what the message before said after its first
\* call, and the rest of the user's text.
Early(m) == {b \in ToSet(m.blocks) : \A i \in DOMAIN m.blocks : IsCall(m.blocks[i]) => b.at[2] < i}
SaidAfter(conversation, n) ==
    LET m == conversation[n]
    IN  IF n \in DOMAIN conversation THEN Places(OfKind(Without(m.blocks, Early(m)), ShownKinds)) ELSE <<>>
Contribution(conversation, n) ==
    LET m == conversation[n]
    IN  IF m.role = "assistant" THEN Places(OfKind(Without(m.blocks, ToSet(m.blocks) \ Early(m)), ShownKinds))
        ELSE Places(Results(m)) \o SaidAfter(conversation, n - 1) \o Places(OfKind(m.blocks, {"text"}))

\* The texts and results of messages; what is shown of a message's own reasoning is
\* none of them.
Spoken(text) == Without(text, Nat \X {0})
Told(messages) == FlattenSeq([i \in DOMAIN messages |-> Spoken(messages[i].text)])
Times(p, messages) == Cardinality({i \in DOMAIN Told(messages) : Told(messages)[i] = p})

\* In a conversation whose calls are answered, the upstream is told everything
\* once, in the order of the conversation, except that what an assistant said
\* after its first call comes after the results: no text is lost, repeated or
\* put between a call and its result.
ToldInOrder ==
    phase = "done" /\ Answered(input) =>
        Told(output) = FlattenSeq([n \in DOMAIN input |-> Contribution(input, n)]) \o SaidAfter(input, Len(input))

\* A result, after message n, that answers no named call of it or answers one again.
Surplus(n) ==
    LET answers(k) == {i \in DOMAIN input[k].blocks : input[k].blocks[i].kind = "tool_result"}
        id(k, i) == input[k].blocks[i].id
    IN  \E k \in n + 1..Len(input) : \E i \in answers(k) :
            \/ id(k, i) \notin Calls(input[n]) \ {""}
            \/ \E h \in n + 1..k : \E j \in answers(h) : id(h, j) = id(k, i) /\ (h < k \/ j < i)

\* In any conversation, answered or not, no text and no result is lost, and
\* text is repeated only if a message answers again when all is answered.
NothingLost ==
    phase = "done" =>
        \A n \in DOMAIN input : \A i \in DOMAIN input[n].blocks :
            input[n].blocks[i].kind \in {"text", "tool_result"} =>
                LET times == Times(<<n, i>>, output)
                IN  times > 0 /\ (times > 1 => Surplus(n))

\* The conversion tells the upstream what was said: all of it, once, in order.
ToldFaithfully == ToldInOrder /\ NothingLost
=============================================================================
