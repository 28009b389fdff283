---------------------------- MODULE DeepSeekRequest ----------------------------
(***************************************************************************)
(* What DeepSeek is sent of a conversation (build_request_body in          *)
(* src/providers/deepseek/request.py).  Its interface knows no attachments *)
(* and no server tools, and while it thinks it wants the thinking that led *)
(* to a tool call back.                                                    *)
(*                                                                         *)
(* A message has a role, a form (one string, or a list of blocks) and      *)
(* perhaps a reasoning_content.  A block has a kind, an id by which it is  *)
(* recognised, and contents: the kinds of the parts of a tool result, one  *)
(* part of a thinking that is not empty.  A result is a list of parts or   *)
(* one string.  Messages whose content is one string are never changed,    *)
(* except that their reasoning_content is removed.                         *)
(***************************************************************************)
EXTENDS QueueOps, SequencesExt

CONSTANTS Turns,      \* messages as clients send them
          BlockIds,   \* what is in their blocks
          MaxTurns    \* bound on the length of a conversation

Attachments == {"image", "document"}
Unsupported == Attachments \cup {"server_tool_use", "web_search_tool_result", "web_fetch_tool_result"}
ThinkingHints == {"effort", "clear_thinking"}   \* in output_config and context_management
Hints == ThinkingHints \cup {"format", "clear_tool_uses"}
Omitted == "attachment omitted"
OmittedBlock == [kind |-> "text", id |-> Omitted, form |-> "string", contents |-> <<>>]

\* What the interface of the client promises: a string is text; the model thinks and
\* calls, a user shows attachments and returns results; only thinking and the lists of
\* results have contents.
BlockKinds == Unsupported \cup {"text", "thinking", "redacted_thinking", "tool_use", "tool_result"}
PartKinds == Unsupported \cup {"text", Omitted}
TurnBlocks == [kind : BlockKinds, id : BlockIds \cup {Omitted}, form : {"string", "list"}, contents : Seq(PartKinds)]
TurnMessages == [role : {"user", "assistant"}, form : {"string", "list"}, reasoning : BOOLEAN, blocks : Seq(TurnBlocks)]
Promised(m, b) ==
    /\ m.form = "string" => b.kind = "text"
    /\ b.kind \in {"thinking", "redacted_thinking"} => m.role = "assistant"
    /\ b.kind \in Attachments => m.role = "user"
    /\ CASE b.kind = "thinking" -> ToSet(b.contents) \subseteq {"text"}
         [] b.kind = "tool_result" /\ b.form = "list" -> ToSet(b.contents) \subseteq {"text"} \cup Unsupported
         [] OTHER -> b.contents = <<>>

ASSUME TurnsAssumption ==
    /\ MaxTurns \in Nat /\ Turns \subseteq TurnMessages
    /\ \A m \in Turns : \A i \in DOMAIN m.blocks : Promised(m, m.blocks[i])

VARIABLES asked,    \* the request of the client
          built     \* what came of it: a body, NotBuilt or Refusal

deepSeekVars == <<asked, built>>

NotBuilt == [outcome |-> "none"]
Refusal == [outcome |-> "refused"]

\* foreign: there are MCP servers or listed server tools; enabled: the settings of the
\* proxy; thinking and hints: what the client asks for.
DeepSeekInit ==
    /\ built = NotBuilt
    /\ asked \in [foreign : BOOLEAN, enabled : BOOLEAN, thinking : BOOLEAN, hints : {{}, Hints}, messages : {<<>>}]

-----------------------------------------------------------------------------

EachList(messages, Op(_)) == [n \in DOMAIN messages |-> IF messages[n].form = "list" THEN Op(messages[n]) ELSE messages[n]]
EachBlock(m, Op(_)) == [m EXCEPT !.blocks = [i \in DOMAIN @ |-> Op(@[i])]]
HasKind(m, kind) == \E i \in DOMAIN m.blocks : m.blocks[i].kind = kind
OfKinds(m, kinds) == {b \in ToSet(m.blocks) : b.kind \in kinds}

\* _strip_unsupported_attachment_blocks: what nothing is left of says so.
StripResult(b) ==
    LET rest == Without(b.contents, Attachments)
    IN  IF b.kind = "tool_result" /\ b.form = "list"
        THEN [b EXCEPT !.contents = IF rest = <<>> THEN <<Omitted>> ELSE rest] ELSE b
StripMessage(m) ==
    LET rest == Without(m.blocks, OfKinds(m, Attachments))
    IN  EachBlock([m EXCEPT !.blocks = IF rest = <<>> /\ m.blocks # <<>> THEN <<OmittedBlock>> ELSE rest], StripResult)
StripAttachments(messages) == EachList(messages, StripMessage)

\* _validate_deepseek_native_request_dict
Rejected(messages) ==
    \/ asked.foreign
    \/ \E n \in DOMAIN messages : messages[n].form = "list" /\
          \E i \in DOMAIN messages[n].blocks :
             LET b == messages[n].blocks[i]
             IN  \/ b.kind \in Unsupported
                 \/ b.kind = "tool_result" /\ b.form = "list" /\ ToSet(b.contents) \cap Unsupported # {}

\* _has_tool_history
HasToolHistory(messages) ==
    \E n \in DOMAIN messages : LET m == messages[n] IN
        m.form = "list" /\ HasKind(m, IF m.role = "assistant" THEN "tool_use" ELSE "tool_result")

\* _has_replayable_thinking_before_tool_use: before the first call there is thinking,
\* and the last of it is not empty.
ThinkingAndCalls(m) == Without(m.blocks, ToSet(m.blocks) \ OfKinds(m, {"thinking", "tool_use"}))
Replayable(m) ==
    LET t == ThinkingAndCalls(m)
    IN  /\ m.role = "assistant" /\ m.form = "list"
        /\ \E call \in 2..Len(t) : /\ t[call].kind = "tool_use" /\ t[call - 1].contents # <<>>
                                   /\ \A i \in 1..call - 1 : t[i].kind = "thinking"

\* sanitize_deepseek_messages_for_native: an assistant's list that becomes empty
\* becomes an empty string.
SanitizeMessage(m, thinking) ==
    LET dropped == IF thinking THEN {"redacted_thinking"} ELSE {"thinking", "redacted_thinking"}
        rest == Without(m.blocks, OfKinds(m, dropped))
    IN  IF m.role # "assistant" THEN m
        ELSE [m EXCEPT !.blocks = rest, !.form = IF rest = <<>> THEN "string" ELSE "list"]

\* _normalize_tool_result_content
NormalizeMessage(m) == EachBlock(m, LAMBDA b : IF b.kind = "tool_result" THEN [b EXCEPT !.form = "string"] ELSE b)

\* _strip_reasoning_content_when_native
WithoutReasoningContent(messages) == [n \in DOMAIN messages |-> [messages[n] EXCEPT !.reasoning = FALSE]]

Body(messages) ==
    LET unsafe    == HasToolHistory(messages) /\ \A n \in DOMAIN messages : ~Replayable(messages[n])
        effective == asked.enabled /\ ~unsafe
        Sanitize(m) == SanitizeMessage(m, effective)
        sanitized == EachList(messages, Sanitize)
    IN  [outcome  |-> "built",
         thinking |-> effective /\ asked.thinking,
         hints    |-> IF asked.enabled /\ unsafe THEN asked.hints \ ThinkingHints ELSE asked.hints,
         messages |-> WithoutReasoningContent(EachList(sanitized, NormalizeMessage))]

\* Mutant: the request is judged before its attachments are stripped.
BuildJudgesFirst ==
    /\ asked.messages # <<>> /\ built = NotBuilt
    /\ built' = IF Rejected(asked.messages) THEN Refusal ELSE Body(StripAttachments(asked.messages))
    /\ UNCHANGED asked

Build ==
    /\ asked.messages # <<>> /\ built = NotBuilt
    /\ LET messages == StripAttachments(asked.messages)
       IN  built' = IF Rejected(messages) THEN Refusal ELSE Body(messages)
    /\ UNCHANGED asked

\* The conversation goes on.  Client and model speak in turn.
Speak(m) ==
    LET n == Len(asked.messages) + 1
    IN  /\ n <= MaxTurns /\ m.role = (IF n % 2 = 1 THEN "user" ELSE "assistant")
        /\ asked' = [asked EXCEPT !.messages = Append(@, m)]
        /\ built' = NotBuilt

DeepSeekNext == (\E m \in Turns : Speak(m)) \/ Build

DeepSeekSpec == DeepSeekInit /\ [][DeepSeekNext]_deepSeekVars

-----------------------------------------------------------------------------

\* What must reach the model of a message: its texts, calls and results, and what
\* the results say.
Unessential(m) == {b \in ToSet(m.blocks) : b.kind \notin {"text", "tool_use", "tool_result"} \/ b.id = Omitted}
Core(m) ==
    LET essential == Without(m.blocks, Unessential(m))
    IN  [i \in DOMAIN essential |-> <<essential[i].kind, essential[i].id,
                                     Without(essential[i].contents, ToSet(essential[i].contents) \ {"text"})>>]
Everywhere(messages) ==
    UNION {ToSet([i \in DOMAIN messages[n].blocks |-> messages[n].blocks[i].kind])
             \cup UNION {ToSet(messages[n].blocks[i].contents) : i \in DOMAIN messages[n].blocks} : n \in DOMAIN messages}
ServerKinds == Unsupported \ Attachments

\* Attachments never make a request fail, and whatever is stripped, disabled or
\* rewritten, the messages of the body are those of the client, with their texts,
\* calls and results in order, no kind that DeepSeek does not know at any depth, and
\* nothing sent empty that had contents other than thinking.
ConversationKept ==
    /\ built = Refusal => asked.foreign \/ Everywhere(asked.messages) \cap ServerKinds # {}
    /\ built.outcome = "built" =>
         /\ Everywhere(built.messages) \cap (Unsupported \cup {"redacted_thinking"}) = {}
         /\ Len(built.messages) = Len(asked.messages)
         /\ \A n \in DOMAIN built.messages :
               LET old == asked.messages[n]  new == built.messages[n]
               IN  /\ new.role = old.role /\ Core(new) = Core(old) /\ ~new.reasoning
                   /\ new.blocks = <<>> => \A i \in DOMAIN old.blocks :
                                              old.blocks[i].kind \in {"thinking", "redacted_thinking"}
                   /\ \A i \in DOMAIN new.blocks : new.blocks[i].kind = "tool_result" =>
                         /\ new.blocks[i].form = "string"
                         /\ new.blocks[i].contents = <<>> => new.blocks[i] \in ToSet(old.blocks)

\* DeepSeek is asked to think about a conversation with tools only if the thinking
\* before some call is in the body itself; if the proxy turns thinking off for want
\* of it, no thinking of an assistant and no hint to think is left behind.
ThinkingConsistent ==
    built.outcome = "built" /\ asked.enabled /\ HasToolHistory(built.messages) =>
        \/ \E n \in DOMAIN built.messages : Replayable(built.messages[n])
        \/ /\ ~built.thinking /\ built.hints \cap ThinkingHints = {}
           /\ \A n \in DOMAIN built.messages : built.messages[n].role = "assistant" => ~HasKind(built.messages[n], "thinking")

\* The body is the client's conversation, and agrees with itself about thinking.
DeepSeekServed == ConversationKept /\ ThinkingConsistent
=============================================================================
