----------------------------- MODULE MCComponents -----------------------------
(***************************************************************************)
(* The components that need no fairness, for TLC: the streams of providers *)
(* and web tools, the parsers, the conversion of a request and what NIM    *)
(* and DeepSeek are sent of it, the stored trees, the transcript, and the  *)
(* start and shutdown of the program.  They share no state in these        *)
(* modules, but for NimRequest, which sends what OpenAIConversion made:    *)
(* each behaviour runs one part, while the others stay at one initial      *)
(* state, and the states of the parts add up instead of multiplying.       *)
(***************************************************************************)
EXTENDS OpenAIStream, NativeStream, WebToolStream, ThinkTags, MCHeuristicTools, OpenAIConversion,
        NimRequest, DeepSeekRequest, TreePersistence, Transcript, AppLifecycle

VARIABLE part

Parts == {"openai", "native", "web", "think", "heuristic", "conversion", "nim", "deepseek", "persistence",
          "transcript", "lifecycle"}

-----------------------------------------------------------------------------

MCTask == <<1, 2>>
MCOpenTag == <<"<", "t", ">">>
MCCloseTag == <<"<", "/", "t", ">">>

\* Messages with up to two of the usual blocks, and longer ones that mix them.
B(kind, id) == [kind |-> kind, id |-> id]
Word == B("text", "")
Lists(S) == UNION {[1..k -> S] : k \in 1..2}
List(role, reasoning, list) == [role |-> role, form |-> "list", reasoning |-> reasoning, blocks |-> list]
String(role, reasoning) == [role |-> role, form |-> "string", reasoning |-> reasoning, blocks |-> <<Word>>]
LongLists ==
    {<<B("thinking", ""), Word, B("tool_use", "a"), B("thinking", ""), B("tool_use", "b"), Word>>,
     <<B("tool_use", "a"), Word, B("tool_use", "")>>, <<B("server_tool", ""), B("tool_use", "a")>>}
UserBlocks ==
    Lists({Word, B("tool_result", "a"), B("tool_result", "b")})
      \cup {<<B("tool_result", "b"), B("tool_result", "a"), Word, B("document", "")>>, <<B("image", "")>>}
MCMessageSet ==
    {List("assistant", FALSE, b) : b \in Lists({Word, B("tool_use", "a")}) \cup LongLists}
      \cup {List("assistant", TRUE, b) : b \in LongLists}
      \cup {List("user", FALSE, b) : b \in UserBlocks}
      \cup {String("user", FALSE), String("assistant", FALSE), String("assistant", TRUE)}

\* Messages of conversations that are sent to NIM.
NimMessages ==
    {List("assistant", TRUE, b) : b \in {<<Word, B("tool_use", "a")>>, <<B("tool_use", "a"), B("tool_use", "b"), Word>>}}
      \cup {List("user", FALSE, b) :
              b \in {<<B("tool_result", "a")>>, <<B("tool_result", "a"), Word>>, <<B("tool_result", "b"), B("tool_result", "a"), Word>>}}
      \cup {String("user", FALSE)}
MCOwnExtras == {{}, {"chat_template_kwargs"}, {"reasoning_budget", "chat_template"}}
NimConversion == (\E msg \in NimMessages : Convert(msg)) \/ Finish

\* Turns of a conversation with DeepSeek.
D(kind, id, form, contents) == [kind |-> kind, id |-> id, form |-> form, contents |-> contents]
Said == D("text", "w", "string", <<>>)
Thought == D("thinking", "t", "string", <<"text">>)
NoThought == D("thinking", "e", "string", <<>>)
Redacted == D("redacted_thinking", "r", "string", <<>>)
CallOf(id) == D("tool_use", id, "string", <<>>)
ResultOf(id, contents) == D("tool_result", id, "list", contents)
Picture == D("image", "i", "string", <<>>)
Turn(role, list) == [role |-> role, form |-> "list", reasoning |-> FALSE, blocks |-> list]
MCTurns ==
    {Turn("user", b) : b \in {<<Picture>>, <<ResultOf("a", <<"text", "document">>), Picture, Said>>,
                              <<ResultOf("a", <<"image">>)>>, <<D("tool_result", "a", "string", <<>>), Said>>}}
      \cup {Turn("assistant", b) : b \in {<<Said>>, <<Thought>>, <<Thought, CallOf("a")>>, <<Thought, NoThought, CallOf("a")>>,
                                         <<CallOf("b"), Thought, CallOf("a")>>, <<Redacted, CallOf("a")>>,
                                         <<NoThought, Thought, Said, CallOf("a"), CallOf("b")>>,
                                         <<D("server_tool_use", "s", "string", <<>>), Said>>}}
      \cup {[role |-> "assistant", form |-> "string", reasoning |-> TRUE, blocks |-> <<Said>>]}

-----------------------------------------------------------------------------

SomeRequest == [messages |-> TRUE, openaiChat |-> TRUE, forced |-> "no", named |-> FALSE, listed |-> FALSE,
                canned |-> FALSE, webTools |-> TRUE, private |-> FALSE]

\* What differs between the initial states of a part is chosen for the part that
\* runs only.
ComponentsInit ==
    /\ part \in Parts
    /\ IF part = "openai" THEN TRUE ELSE thinking = TRUE
    /\ IF part = "native" THEN TRUE ELSE settings = [thinking |-> TRUE, openRouter |-> TRUE]
    /\ IF part = "web" THEN TRUE ELSE request = SomeRequest
    /\ IF part = "heuristic" THEN TRUE ELSE text = Call
    /\ IF part \in {"conversion", "nim"} THEN TRUE ELSE mode = "disabled"
    /\ IF part = "transcript" THEN TRUE ELSE style = "named"
    /\ IF part = "lifecycle" THEN TRUE ELSE platform = "none" /\ configured = {}
    /\ OpenAIInit /\ NativeInit /\ WebInit /\ ThinkInit /\ HeuristicInit /\ ConversionInit
    /\ NimInit /\ DeepSeekInit /\ (part # "deepseek" => asked.foreign /\ asked.enabled /\ asked.thinking /\ asked.hints = {})
    /\ PersistInit /\ TranscriptInit /\ LifeInit

requestVars == <<conversionVars, nimVars, deepSeekVars>>

ComponentsNext ==
    \/ /\ part = "openai" /\ OpenAINext
       /\ UNCHANGED <<part, nativeVars, webVars, thinkVars, heuristicVars, requestVars,
                      persistVars, transcriptVars, lifeVars>>
    \/ /\ part = "native" /\ NativeNext
       /\ UNCHANGED <<part, openaiVars, webVars, thinkVars, heuristicVars, requestVars,
                      persistVars, transcriptVars, lifeVars>>
    \/ /\ part = "web" /\ WebNext
       /\ UNCHANGED <<part, openaiVars, nativeVars, thinkVars, heuristicVars, requestVars,
                      persistVars, transcriptVars, lifeVars>>
    \/ /\ part = "think" /\ ThinkNext
       /\ UNCHANGED <<part, openaiVars, nativeVars, webVars, heuristicVars, requestVars,
                      persistVars, transcriptVars, lifeVars>>
    \/ /\ part = "heuristic" /\ HeuristicNext
       /\ UNCHANGED <<part, openaiVars, nativeVars, webVars, thinkVars, requestVars,
                      persistVars, transcriptVars, lifeVars>>
    \/ /\ part = "conversion" /\ ConversionNext
       /\ UNCHANGED <<part, openaiVars, nativeVars, webVars, thinkVars, heuristicVars, nimVars, deepSeekVars,
                      persistVars, transcriptVars, lifeVars>>
    \/ /\ part = "nim" /\ (NimNext \/ (NimConversion /\ UNCHANGED nimVars))
       /\ UNCHANGED <<part, openaiVars, nativeVars, webVars, thinkVars, heuristicVars, deepSeekVars,
                      persistVars, transcriptVars, lifeVars>>
    \/ /\ part = "deepseek" /\ DeepSeekNext
       /\ UNCHANGED <<part, openaiVars, nativeVars, webVars, thinkVars, heuristicVars, conversionVars, nimVars,
                      persistVars, transcriptVars, lifeVars>>
    \/ /\ part = "persistence" /\ PersistNext
       /\ UNCHANGED <<part, openaiVars, nativeVars, webVars, thinkVars, heuristicVars,
                      requestVars, transcriptVars, lifeVars>>
    \/ /\ part = "transcript" /\ TranscriptNext
       /\ UNCHANGED <<part, openaiVars, nativeVars, webVars, thinkVars, heuristicVars,
                      requestVars, persistVars, lifeVars>>
    \/ /\ part = "lifecycle" /\ LifeNext
       /\ UNCHANGED <<part, openaiVars, nativeVars, webVars, thinkVars, heuristicVars,
                      requestVars, persistVars, transcriptVars>>

componentVars == <<part, openaiVars, nativeVars, webVars, thinkVars, heuristicVars, requestVars,
                   persistVars, transcriptVars, lifeVars>>

ComponentsSpec == ComponentsInit /\ [][ComponentsNext]_componentVars
=============================================================================
