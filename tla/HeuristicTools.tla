---------------------------- MODULE HeuristicTools ----------------------------
(***************************************************************************)
(* HeuristicToolParser (src/core/anthropic/tools.py), which takes the tool *)
(* calls that a model wrote into its text out of that text, while the text *)
(* arrives in pieces.  A token stands for a piece of text that the parser  *)
(* looks for: "dot" is the bullet, "func" and "par" are "<function=" and   *)
(* "<parameter=", "name" is a name and its ">", "/par" the closing tag,    *)
(* "<|" and "|>" enclose a control token, "web" is the name of a web tool  *)
(* and "json" its input, "x" any other text.  Tokens are known by their    *)
(* positions in the whole text, so that none is taken for another.         *)
(***************************************************************************)
EXTENDS QueueOps, SequencesExt

CONSTANTS Texts,      \* the texts, sequences of tokens
          Patience    \* tokens the parser waits for a function after a bullet (100 characters)

\* A bullet and the beginning of a function are not longer than what the parser waits for.
Tokens == {"dot", "func", "name", "par", "/par", "x", "<|", "|>", "web", "json"}
ASSUME TextsAssumption == Texts \subseteq Seq(Tokens) /\ Patience \in Nat /\ Patience >= 2

VARIABLES text,       \* the text that will have been fed
          fed,        \* how much of it was
          parser,     \* HeuristicToolParser
          shown,      \* the positions handed out as text
          tools,      \* the tool calls handed out, each the set of positions in its parameters
          flushed

heuristicVars == <<text, fed, parser, shown, tools, flushed>>

\* buffer holds positions; args are those in the parameters of the current call.
NewParser == [mode |-> "text", buffer |-> <<>>, args |-> {}, out |-> <<>>, calls |-> <<>>, going |-> TRUE]

HeuristicInit ==
    /\ text \in Texts /\ fed = 0 /\ flushed = FALSE
    /\ parser = NewParser /\ shown = <<>> /\ tools = <<>>

-----------------------------------------------------------------------------

AfterN(s, n) == SubSeq(s, n + 1, Len(s))
FirstN(s, n) == SubSeq(s, 1, n)

EndsTag == {"name", "/par", "|>"}                  \* tokens that end with ">"
BeginsTag == {"func", "par", "/par", "<|"}         \* tokens that begin with "<"

\* The first place after n where the buffer has one of these tokens, or 0.
NextOf(buffer, n, wanted) ==
    LET at == {i \in n + 1..Len(buffer) : text[buffer[i]] \in wanted}
    IN  IF at = {} THEN 0 ELSE CHOOSE i \in at : \A j \in at : i <= j
LastOf(buffer, token) == SelectLastInSeq(buffer, LAMBDA k : text[k] = token)

\* _strip_control_tokens: "<|", something without a "|" or ">", "|>".
InControl(buffer) ==
    {k \in DOMAIN buffer : \E i \in 1..k, j \in k..Len(buffer) :
        /\ i + 1 < j /\ text[buffer[i]] = "<|" /\ text[buffer[j]] = "|>"
        /\ \A m \in i + 1..j - 1 : text[buffer[m]] \notin EndsTag \cup {"<|"}}
Strip(buffer) == Without(buffer, {buffer[i] : i \in InControl(buffer)})

\* The inputs of web calls: each name makes a call with the next input after it.
Inputs(buffer) ==
    {j \in DOMAIN buffer : text[buffer[j]] = "json" /\ \E i \in 1..j - 1 :
        text[buffer[i]] = "web" /\ \A k \in i..j - 1 : text[buffer[k]] # "json"}

\* _extract_web_tool_json_calls: the text around the calls goes with them.
WebCalls(p) ==
    LET found == Without(p.buffer, {p.buffer[i] : i \in DOMAIN p.buffer \ Inputs(p.buffer)})
    IN  IF found = <<>> THEN p ELSE [p EXCEPT !.buffer = <<>>, !.calls = [i \in DOMAIN found |-> {found[i]}]]

\* A first part of the buffer is handed out.
Show(p, n) == [p EXCEPT !.out = @ \o FirstN(p.buffer, n), !.buffer = AfterN(@, n)]
Wait(p) == [p EXCEPT !.going = FALSE]

\* TEXT: up to a bullet, or up to the beginning of a control token (unless that
\* is all there is), or everything.
InText(p) ==
    LET dot  == NextOf(p.buffer, 0, {"dot"})
        ctl  == LastOf(p.buffer, "<|")
        tail == ctl > 1 /\ NextOf(p.buffer, ctl, {"|>"}) = 0
    IN  IF dot > 0 THEN [Show(p, dot - 1) EXCEPT !.mode = "matching"]
        ELSE Wait(Show(p, IF tail THEN ctl - 1 ELSE Len(p.buffer)))

\* Where "<bullet><function=name>" ends, or 0.
FunctionEnd(buffer) ==
    LET at == {i \in 1..Len(buffer) - 1 : /\ text[buffer[i]] = "dot" /\ text[buffer[i + 1]] = "func"
                                           /\ NextOf(buffer, i + 1, EndsTag) > 0}
    IN  IF at = {} THEN 0 ELSE NextOf(buffer, (CHOOSE i \in at : \A j \in at : i <= j) + 1, EndsTag)

\* MATCHING_FUNCTION
Matching(p) ==
    LET end == FunctionEnd(p.buffer)
    IN  IF end > 0 THEN [p EXCEPT !.buffer = AfterN(@, end), !.args = {}, !.mode = "params"]
        ELSE IF Len(p.buffer) > Patience THEN [Show(p, 1) EXCEPT !.mode = "text"]
        ELSE Wait(p)

\* The first parameter, if it is complete: the text before it is handed out.  It
\* lasts to the next closing tag, wherever that is.
TakeParam(p) ==
    LET start == NextOf(p.buffer, 0, {"par"})
        key   == NextOf(p.buffer, start, EndsTag)
        close == NextOf(p.buffer, key, {"/par"})
        end   == IF close > 0 THEN close ELSE Len(p.buffer)
    IN  IF start = 0 \/ key = 0 \/ (close = 0 /\ text[p.buffer[key]] # "/par") THEN p
        ELSE [Show(p, start - 1) EXCEPT !.buffer = AfterN(p.buffer, end),
                                        !.args = @ \cup {p.buffer[i] : i \in start..end}]
TakeParams(p) ==
    LET taken[n \in 0..Len(p.buffer)] == IF n = 0 THEN p ELSE TakeParam(taken[n - 1])
    IN  taken[Len(p.buffer)]

CompleteCall(p) == [p EXCEPT !.calls = Append(@, p.args), !.mode = "text"]

\* Mutant: the text that ends a call is taken with it.
ParametersEatText(p) ==
    LET q   == TakeParams(p)
        dot == NextOf(q.buffer, 0, {"dot"})
    IN  IF dot > 0 THEN CompleteCall(Show(q, dot - 1))
        ELSE IF q.buffer # <<>> /\ text[q.buffer[1]] \notin BeginsTag
        THEN CompleteCall([q EXCEPT !.buffer = <<>>])
        ELSE Wait(q)

\* PARSING_PARAMETERS: a bullet ends the call, and so does text that is not the
\* beginning of a tag.
Parameters(p) ==
    LET q   == TakeParams(p)
        dot == NextOf(q.buffer, 0, {"dot"})
    IN  IF dot > 0 THEN CompleteCall(Show(q, dot - 1))
        ELSE IF q.buffer # <<>> /\ text[q.buffer[1]] \notin BeginsTag /\ NextOf(q.buffer, 0, {"par"}) = 0
        THEN CompleteCall(Show(q, Len(q.buffer)))
        ELSE Wait(q)

\* The loop of feed: what is done in one turn of it, and the turns.
Stage(p, mode, done) == IF p.going /\ p.mode = mode THEN done ELSE p
Round(p) ==
    LET q == Stage(p, "text", InText(p))
        r == Stage(q, "matching", Matching(q))
    IN  Stage(r, "params", Parameters(r))
Loop(p) ==
    LET round[n \in 0..2 * Len(text) + 2] == IF n = 0 THEN p ELSE Round(round[n - 1])
    IN  round[2 * Len(text) + 2]

HandOut(p) ==
    /\ parser' = [p EXCEPT !.out = <<>>, !.calls = <<>>, !.going = TRUE]
    /\ shown' = shown \o p.out
    /\ tools' = tools \o p.calls

\* feed, with the next n tokens.
HeuristicFeed(n) ==
    /\ ~flushed /\ fed + n <= Len(text)
    /\ fed' = fed + n
    /\ HandOut(Loop(WebCalls([parser EXCEPT !.buffer = Strip(@ \o [i \in 1..n |-> fed + i])])))
    /\ UNCHANGED <<text, flushed>>

\* flush: the call in progress, with a last parameter that was not closed.
HeuristicFlush ==
    /\ ~flushed /\ fed = Len(text) /\ flushed' = TRUE
    /\ LET p     == [parser EXCEPT !.buffer = Strip(@)]
           start == NextOf(p.buffer, 0, {"par"})
           key   == NextOf(p.buffer, start, EndsTag)
           open  == IF start = 0 \/ key = 0 THEN {} ELSE {p.buffer[i] : i \in start..Len(p.buffer)}
       IN  HandOut(IF p.mode # "params" THEN p
                   ELSE [CompleteCall([p EXCEPT !.args = @ \cup open]) EXCEPT !.buffer = <<>>])
    /\ UNCHANGED <<text, fed>>

HeuristicNext == HeuristicFlush \/ \E n \in 1..Len(text) : HeuristicFeed(n)
HeuristicSpec == HeuristicInit /\ [][HeuristicNext]_heuristicVars

-----------------------------------------------------------------------------

Given == UNION {tools[i] : i \in DOMAIN tools}

\* What is handed out keeps the order of the text, and nothing comes twice: not
\* in the text, not in two calls, not in the text and in a call.
OnceInOrder ==
    /\ \A i, j \in DOMAIN shown : i < j => shown[i] < shown[j]
    /\ \A i, j \in DOMAIN tools : i # j => tools[i] \cap tools[j] = {}
    /\ ToSet(shown) \cap Given = {}

\* The positions of whole functions and parameters.
Begun == {i \in 1..Len(text) - 2 : text[i] = "dot" /\ text[i + 1] = "func" /\ text[i + 2] = "name"}
Functions == UNION {d..d + 2 : d \in Begun}
Parameter == UNION {i..i + 3 : i \in {j \in 1..Len(text) - 3 :
    SubSeq(text, j, j + 3) = <<"par", "name", "x", "/par">>}}

\* Plain text is missing at the end only if the text has a web call, or a
\* bullet, or the beginning of a tag or control token, that is no part of a
\* whole function or parameter.  (What the buffer holds then is not handed out
\* by flush, nor when a later bullet has a function.)
TextKept ==
    flushed => \A k \in 1..Len(text) :
        \/ text[k] # "x" \/ k \in ToSet(shown) \cup Given
        \/ \E i \in 1..Len(text) : \/ text[i] = "json"
                                   \/ text[i] \in BeginsTag \cup {"dot"} /\ i \notin Functions \cup Parameter

\* No control tokens and no web calls, and every tag is a whole one.
TagsWhole ==
    \A k \in 1..Len(text) : /\ text[k] \notin {"<|", "web"} /\ (text[k] = "func" => k - 1 \in Begun)
                            /\ text[k] = "par" => k < Len(text) /\ text[k + 1] = "name"

\* However the text is cut, every whole function is a call of its own, or else was
\* handed out as text, because the parser looks for a parameter of the call before it
\* beyond the bullet; or it is what a parameter says.
CallsFound ==
    flushed /\ TagsWhole =>
        /\ Len(tools) = Cardinality(Begun \ (ToSet(shown) \cup Given))
        /\ \A d \in Begun \cap ToSet(shown) : \E i \in Begun, j \in d..Len(text) : i < d /\ text[j] = "par"
        /\ \A d \in Begun \cap Given : \E i \in 1..d, j \in d..Len(text) : text[i] = "par" /\ text[j] = "/par"

\* What the docstring of the parser promises (tools.py:26-28), and test_garbage_interleaved
\* expects of two calls: each whole function that is not inside a parameter is a call.
EveryCallConverted == flushed /\ TagsWhole => Len(tools) = Cardinality(Begun \ Given)

\* Text and calls share out what was fed: nothing twice, nothing out of order, no
\* plain text lost but where flush is known to lose it, and no whole call missed.
ToolTextParsed == OnceInOrder /\ TextKept /\ CallsFound
=============================================================================
