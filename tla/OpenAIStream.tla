----------------------------- MODULE OpenAIStream -----------------------------
(***************************************************************************)
(* The translation of an OpenAI chat stream to Anthropic events:           *)
(* OpenAIChatTransport._stream_response_impl (src/providers/               *)
(* openai_compat.py) over SSEBuilder and ContentBlockManager               *)
(* (src/core/anthropic/sse.py).                                            *)
(*                                                                         *)
(* A chunk of the upstream is taken apart into its items, in the order in  *)
(* which the code handles them; each is one step that emits events, which  *)
(* the client receives one by one before the next item is read.  A tool    *)
(* name is a sequence of pieces, and the arguments of a tool call are      *)
(* Whole pieces of which only all together are valid JSON.                 *)
(***************************************************************************)
EXTENDS StreamContract, FiniteSets, SequencesExt

CONSTANTS
    Tools,         \* tool call indexes the upstream uses
    Pieces,        \* pieces of tool names
    Task,          \* the name of the Task tool: a sequence of pieces
    Whole,         \* number of pieces of the arguments of one call
    MaxItems       \* bound on the items of a stream

ASSUME OpenAIAssumption ==
    /\ Tools \subseteq Nat /\ Whole \in Nat \ {0} /\ MaxItems \in Nat
    /\ Task \in Seq(Pieces)

VARIABLES
    sse,           \* SSEBuilder, ContentBlockManager, and the events not yet received
    items,         \* items read
    thinking,      \* thinking_enabled
    openai,        \* "reading", "finished" or "failed"
    openaiClient   \* what the client has received

openaiVars == <<sse, items, thinking, openai, openaiClient>>

\* ToolCallState; shown is the name its block was started with, got and gave
\* count the argument pieces received and sent on.
NewTool == [block |-> None, name |-> <<>>, shown |-> <<>>, started |-> FALSE, held |-> 0, sent |-> FALSE,
            pre |-> 0, got |-> 0, gave |-> 0]

NewBuilder == [next |-> 0, thinking |-> None, text |-> None, thinkingOn |-> FALSE,
               textOn |-> FALSE, tools |-> <<>>, wroteText |-> FALSE, heuristic |-> FALSE,
               out |-> <<MessageStart>>]

OpenAIInit ==
    /\ sse = NewBuilder /\ items = 0 /\ thinking \in BOOLEAN
    /\ openai = "reading" /\ openaiClient = NewClient

-----------------------------------------------------------------------------
(* The builder: each operator maps a builder to the builder after it.      *)

Emit(b, e) == [b EXCEPT !.out = Append(@, e)]

StopThinking(b) == IF b.thinkingOn THEN Emit([b EXCEPT !.thinkingOn = FALSE], Stop(b.thinking)) ELSE b
StopText(b) == IF b.textOn THEN Emit([b EXCEPT !.textOn = FALSE], Stop(b.text)) ELSE b
CloseContentBlocks(b) == StopText(StopThinking(b))

StartThinking(b) ==
    Emit([b EXCEPT !.thinking = b.next, !.next = @ + 1, !.thinkingOn = TRUE], Start(b.next, "thinking"))
StartText(b) ==
    Emit([b EXCEPT !.text = b.next, !.next = @ + 1, !.textOn = TRUE], Start(b.next, "text"))

\* Mutant: a text block opens beside the thinking block that is open.
EnsureTextBeside(b) == IF b.textOn THEN b ELSE StartText([b EXCEPT !.thinkingOn = FALSE])

EnsureThinking(b) == LET c == StopText(b) IN IF c.thinkingOn THEN c ELSE StartThinking(c)
EnsureText(b) == LET c == StopThinking(b) IN IF c.textOn THEN c ELSE StartText(c)

WriteThinking(b) == LET c == EnsureThinking(b) IN Emit(c, Delta(c.thinking, "thinking"))
WriteText(b, blank) ==
    LET c == EnsureText(b) IN Emit([c EXCEPT !.wroteText = @ \/ ~blank], Delta(c.text, "text"))

\* _iter_heuristic_tool_use_sse
HeuristicTool(b) ==
    LET c == CloseContentBlocks(b) IN
    [c EXCEPT !.next = @ + 1, !.heuristic = TRUE,
              !.out = @ \o <<Start(c.next, "tool_use"), Delta(c.next, "tool_use"), Stop(c.next)>>]

\* close_all_blocks: the blocks of the started calls, in some order; which
\* one, no property tells apart.
StartedBlocks(b) == {b.tools[i].block : i \in {j \in DOMAIN b.tools : b.tools[j].started}}
CloseAllBlocks(b) ==
    [CloseContentBlocks(b) EXCEPT !.out = @ \o SetToSeq({Stop(k) : k \in StartedBlocks(b)})]

\* register_tool_name: a piece extends the name, repeats it or follows it.
MergeName(prev, name) ==
    IF prev = <<>> \/ IsPrefix(prev, name) THEN name
    ELSE IF IsPrefix(name, prev) THEN prev ELSE prev \o name

SendArgs(b, i, n) ==
    Emit([b EXCEPT !.tools[i].gave = @ + n], Delta(b.tools[i].block, "tool_use"))

\* _emit_tool_arg_delta: the arguments of Task are held back until they are
\* valid JSON, and nothing more is sent after that.
EmitToolArgDelta(b, i, n) ==
    LET t == b.tools[i]
        c == [b EXCEPT !.tools[i].held = @ + n]
    IN  IF n = 0 \/ (t.name = Task /\ t.sent) THEN b
        ELSE IF t.name # Task THEN SendArgs(b, i, n)
        ELSE IF t.held + n < Whole THEN c
        ELSE SendArgs([c EXCEPT !.tools[i].held = 0, !.tools[i].sent = TRUE], i, t.held + n)

\* start_tool_block
StartTool(b, i) ==
    Emit([b EXCEPT !.next = @ + 1, !.tools[i].block = b.next, !.tools[i].started = TRUE,
                   !.tools[i].shown = b.tools[i].name],
         Start(b.next, "tool_use"))

\* Mutant: the arguments that came before the name are forgotten.
ProcessToolCallForgets(b, i, name, n) ==
    LET t  == IF i \in DOMAIN b.tools THEN b.tools[i] ELSE NewTool
        c1 == [b EXCEPT !.tools = WithBlock(@, i, [t EXCEPT !.name = MergeName(@, name), !.got = @ + n])]
        c2 == IF c1.tools[i].started \/ c1.tools[i].name = <<>> THEN c1 ELSE StartTool(c1, i)
    IN  IF c2.tools[i].started THEN EmitToolArgDelta(c2, i, n) ELSE c2

\* _process_tool_call: a tool block starts with the first piece of its name;
\* arguments that come before wait for it.
ProcessToolCall(b, i, name, n) ==
    LET t  == IF i \in DOMAIN b.tools THEN b.tools[i] ELSE NewTool
        c1 == [b EXCEPT !.tools = WithBlock(@, i,
                  [t EXCEPT !.name = IF name = <<>> THEN @ ELSE MergeName(@, name), !.got = @ + n])]
        c2 == IF c1.tools[i].started \/ c1.tools[i].name = <<>> THEN c1
              ELSE EmitToolArgDelta([StartTool(c1, i) EXCEPT !.tools[i].pre = 0], i, t.pre)
    IN  IF c2.tools[i].started THEN EmitToolArgDelta(c2, i, n)
        ELSE [c2 EXCEPT !.tools[i].pre = @ + n]

\* _flush_task_arg_buffers: arguments that never became valid JSON are sent
\* as "{}", which stands for none of their pieces.
FlushTaskArgs(b) ==
    LET buffered == {i \in DOMAIN b.tools : b.tools[i].held # 0 /\ ~b.tools[i].sent}
    IN  [b EXCEPT !.tools = [i \in DOMAIN @ |-> IF i \in buffered THEN [@[i] EXCEPT !.held = 0, !.sent = TRUE] ELSE @[i]],
                  !.out = @ \o SetToSeq({Delta(b.tools[i].block, "tool_use") : i \in buffered})]

HasStartedTool(b) == \E i \in DOMAIN b.tools : b.tools[i].started

\* A stream without content, or with thinking only, gets a blank text.
Fill(b) ==
    IF \/ b.text = None /\ b.thinking = None /\ ~HasStartedTool(b)
       \/ ~HasStartedTool(b) /\ ~b.wroteText /\ b.thinking # None
    THEN WriteText(b, TRUE) ELSE b

-----------------------------------------------------------------------------

Item(b) ==
    /\ openai = "reading" /\ sse.out = <<>> /\ items < MaxItems
    /\ sse' = b /\ items' = items + 1
    /\ UNCHANGED <<thinking, openai, openaiClient>>

\* reasoning_content, or what the think-tag parser takes for thinking.
Reasoning == thinking /\ Item(WriteThinking(sse))

\* Text that is left when the heuristic parser has taken its tool calls out ...
Text(blank) == Item(WriteText(sse, blank))

\* ... and such a tool call.
HeuristicToolCall == Item(HeuristicTool(sse))

\* A native tool call; a negative index means a new one.
ToolCall(given, name, n) ==
    LET i == IF given < 0 THEN Cardinality(DOMAIN sse.tools) ELSE given
        t == IF i \in DOMAIN sse.tools THEN sse.tools[i] ELSE NewTool
    IN  /\ i \in Tools /\ (name # <<>> \/ n > 0)
        /\ t.got + n <= Whole /\ Len(MergeName(t.name, name)) <= Len(Task)
        /\ Item(ProcessToolCall(CloseContentBlocks(sse), i, name, n))

\* The upstream ends: the stream is filled up and closed.  What the two
\* parsers still held is an item like any other, read just before.
StreamFinishes ==
    /\ openai = "reading" /\ sse.out = <<>>
    /\ LET b == CloseAllBlocks(FlushTaskArgs(Fill(sse)))
       IN  sse' = [b EXCEPT !.out = @ \o <<MessageDelta, MessageStop>>]
    /\ openai' = "finished"
    /\ UNCHANGED <<items, thinking, openaiClient>>

\* The upstream call or stream fails.
Fail ==
    /\ openai = "reading" /\ sse.out = <<>>
    /\ LET b == CloseAllBlocks(sse)
           c == IF HasStartedTool(b) THEN Emit(b, TopLevelError)
                ELSE [b EXCEPT !.out = @ \o ErrorBlock(b.next), !.next = @ + 1]
       IN  sse' = [c EXCEPT !.out = @ \o <<MessageDelta, MessageStop>>]
    /\ openai' = "failed"
    /\ UNCHANGED <<items, thinking, openaiClient>>

\* The client receives an event; the response ends after the last one.
Receive ==
    /\ sse.out # <<>>
    /\ openaiClient' = After(openaiClient, Head(sse.out))
    /\ sse' = [sse EXCEPT !.out = Tail(@)]
    /\ UNCHANGED <<items, thinking, openai>>

End ==
    /\ sse.out = <<>> /\ openai # "reading" /\ openaiClient.over = "no"
    /\ openaiClient' = [openaiClient EXCEPT !.over = "ended"]
    /\ UNCHANGED <<sse, items, thinking, openai>>

\* The name in one item of a tool call: none, all of "Task", or another piece.
Names == {<<>>, Task} \cup {<<p>> : p \in Pieces}

OpenAINext ==
    \/ Reasoning \/ HeuristicToolCall \/ (\E blank \in BOOLEAN : Text(blank))
    \/ \E i \in Tools \cup {-1}, name \in Names, n \in 0..Whole : ToolCall(i, name, n)
    \/ StreamFinishes \/ Fail \/ Receive \/ End

OpenAISpec == OpenAIInit /\ [][OpenAINext]_openaiVars

-----------------------------------------------------------------------------

\* A response that was not cut short passes on all arguments of a tool call,
\* once: those of Task only when they are complete, all others as they came.
\* (A call whose name grows into "Task" after its block was started with the
\* first piece mixes both: the client has the wrong name and loses arguments.)
ArgumentsKept ==
    openai = "finished" =>
        \A i \in DOMAIN sse.tools :
            LET t == sse.tools[i]
            IN  t.started /\ t.shown = t.name => t.gave = t.got \/ (t.name = Task /\ t.got < Whole)

\* A response that was not cut short says something besides its thinking.
NeverSilent ==
    openai = "finished" => sse.text # None \/ HasStartedTool(sse) \/ sse.heuristic

\* The client sees a stream that obeys the contract, and is never left with
\* thinking alone.
OpenAIClient == INSTANCE BlockStream WITH client <- openaiClient
OpenAIContract == OpenAIClient!Spec /\ []NeverSilent
=============================================================================
