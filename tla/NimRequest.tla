------------------------------ MODULE NimRequest ------------------------------
(***************************************************************************)
(* What NVIDIA NIM is sent, and sent again: _create_stream in              *)
(* src/providers/openai_compat.py with the downgrades of                   *)
(* src/providers/nvidia_nim.  The conversation is the one OpenAIConversion *)
(* has converted; the extras of a body are what extra_body may hold that a *)
(* model behind NIM does not know.                                         *)
(***************************************************************************)
EXTENDS OpenAIConversion

CONSTANTS OwnExtras,   \* what requests and settings bring of the extras: a set of sets
          MaxNamed     \* bound on the number of complaints of one answer

VARIABLES firstBody,    \* the body that was sent first
          lastBody,     \* the body that was sent last
          complaints,   \* what the answer to the first one names
          reply         \* "none", "awaited", "rejected", "awaited again", "streaming" or "error"

nimVars == <<firstBody, lastBody, complaints, reply>>

NoBody == [extras |-> {}, messages |-> <<>>]
Budgets == {"reasoning_budget", "kwargs.reasoning_budget"}
Extras == Budgets \cup {"chat_template", "chat_template_kwargs"}

ASSUME ExtrasAssumption == OwnExtras \subseteq SUBSET Extras /\ MaxNamed \in Nat

NimInit == firstBody = NoBody /\ lastBody = NoBody /\ complaints = {} /\ reply = "none"

\* build_request_body: with thinking the template's arguments hold a budget,
\* whatever else the request and the settings bring.
RequestExtras ==
    {own \cup (IF mode = "reasoning_content" THEN {"chat_template_kwargs", "kwargs.reasoning_budget"} ELSE {}) : own \in OwnExtras}

SendFirst ==
    /\ phase = "done" /\ mode # "think_tags" /\ reply = "none"
    /\ \E extras \in RequestExtras, system \in {<<>>, <<Message("system", <<>>, <<>>, <<>>)>>} :
           lastBody' = [extras |-> extras, messages |-> system \o output]
    /\ firstBody' = lastBody' /\ reply' = "awaited"
    /\ UNCHANGED complaints

-----------------------------------------------------------------------------

UserAfterTool(messages, i) == i < Len(messages) /\ messages[i].role = "tool" /\ messages[i + 1].role = "user"

\* What a model may refuse in a body.
Offences(b) ==
    b.extras \cup (IF \E i \in DOMAIN b.messages : b.messages[i].reasoning # <<>> THEN {"reasoning_content"} ELSE {})
             \cup (IF \E i \in DOMAIN b.messages : UserAfterTool(b.messages, i) THEN {"unexpected role"} ELSE {})

\* What clone_body_merge_tool_into_user makes of a message that is not taken into the
\* one before: a result takes in the user message after it, and after the first such
\* merge assistants lose their calls.
MergedMessage(messages, i) ==
    LET m == messages[i]
    IN  IF UserAfterTool(messages, i) THEN [messages[i + 1] EXCEPT !.text = @ \o m.text]
        ELSE IF m.role = "assistant" /\ \E j \in 1..i : UserAfterTool(messages, j) THEN [m EXCEPT !.calls = <<>>]
        ELSE m

\* clone_body_merge_tool_into_user
Merged(b) ==
    LET n == Len(b.messages)
        left == Without([i \in 1..n |-> i], {i \in 1..n : i > 1 /\ UserAfterTool(b.messages, i - 1)})
    IN  IF n < 3 THEN b ELSE [b EXCEPT !.messages = [k \in DOMAIN left |-> MergedMessage(b.messages, left[k])]]

WithoutReasoning(b) == [b EXCEPT !.messages = [i \in DOMAIN @ |-> [@[i] EXCEPT !.reasoning = <<>>]]]

\* Which of the complaints _get_retry_request_body acts on: it looks for words, and
\* those of the template are in the name of its arguments.
ActedOn ==
    CASE complaints \cap Budgets # {} -> "budget"
      [] complaints \cap Budgets = {} /\ complaints \cap {"chat_template", "chat_template_kwargs"} # {} -> "template"
      [] complaints \cap Extras = {} /\ "reasoning_content" \in complaints -> "reasoning"
      [] complaints = {"unexpected role"} -> "roles"
      [] complaints = {} -> "none"

\* Mutant: only the budget beside the arguments of the template is removed.
DowngradedOutside(b) ==
    CASE ActedOn = "budget" -> [b EXCEPT !.extras = @ \ {"reasoning_budget"}]
      [] ActedOn = "template" -> [b EXCEPT !.extras = @ \ {"chat_template"}]
      [] ActedOn = "reasoning" -> WithoutReasoning(b)
      [] ActedOn = "roles" -> Merged(b)
      [] ActedOn = "none" -> b

\* The first field named is removed, and no other: the same body stands for None.
Downgraded(b) ==
    CASE ActedOn = "budget" -> [b EXCEPT !.extras = @ \ Budgets]
      [] ActedOn = "template" -> [b EXCEPT !.extras = @ \ {"chat_template"}]
      [] ActedOn = "reasoning" -> WithoutReasoning(b)
      [] ActedOn = "roles" -> Merged(b)
      [] ActedOn = "none" -> b

Accepted == /\ reply \in {"awaited", "awaited again"} /\ reply' = "streaming"
            /\ UNCHANGED <<firstBody, lastBody, complaints>>

\* A bad request, which names some of what the model does not accept, or other things.
RejectFirst ==
    /\ reply = "awaited" /\ reply' = "rejected"
    /\ complaints' \in SUBSET Offences(lastBody) /\ Cardinality(complaints') <= MaxNamed
    /\ UNCHANGED <<firstBody, lastBody>>

\* The one retry, if anything was removed.
SendAgain ==
    /\ reply = "rejected"
    /\ lastBody' = Downgraded(lastBody)
    /\ reply' = IF lastBody' = lastBody THEN "error" ELSE "awaited again"
    /\ UNCHANGED <<firstBody, complaints>>

RejectAgain == /\ reply = "awaited again" /\ reply' = "error"
               /\ UNCHANGED <<firstBody, lastBody, complaints>>

NimStep == SendFirst \/ Accepted \/ RejectFirst \/ SendAgain \/ RejectAgain
NimNext == NimStep /\ UNCHANGED conversionVars

NimSpec ==
    /\ ConversionInit /\ NimInit
    /\ [][NimNext \/ (ConversionNext /\ UNCHANGED nimVars)]_<<conversionVars, nimVars>>

-----------------------------------------------------------------------------

SeveralResultsBeforeUser ==
    \E i \in 2..Len(firstBody.messages) : UserAfterTool(firstBody.messages, i) /\ firstBody.messages[i - 1].role = "tool"

\* The body that is sent again still tells the model all texts and results, each as
\* often as before, and is without what it was downgraded for: no budget is left in
\* a corner, and no user message follows a result, unless several results came
\* before that message, of which the merge takes one only.
RetryKeepsConversation ==
    reply \in {"awaited again", "streaming", "error"} =>
        /\ \A p \in ToSet(Told(firstBody.messages)) \cup ToSet(Told(lastBody.messages)) :
               Times(p, lastBody.messages) = Times(p, firstBody.messages)
        /\ lastBody.extras \subseteq firstBody.extras
        /\ lastBody # firstBody =>
               CASE ActedOn = "budget" -> lastBody.extras \cap Budgets = {}
                 [] ActedOn = "template" -> "chat_template" \notin lastBody.extras
                 [] ActedOn = "reasoning" -> "reasoning_content" \notin Offences(lastBody)
                 [] ActedOn = "roles" -> "unexpected role" \in Offences(lastBody) => SeveralResultsBeforeUser
=============================================================================
