--------------------------- MODULE StreamContract ---------------------------
(***************************************************************************)
(* The events of an Anthropic message stream, and what a client keeps of   *)
(* them: src/core/anthropic/stream_contracts.py and the formatting half of *)
(* src/core/anthropic/sse.py.  The content of an event is left out.        *)
(***************************************************************************)
EXTENDS Integers, Sequences

None == -1                       \* "no block": no index is negative

MessageStart == [type |-> "message_start"]
MessageDelta == [type |-> "message_delta"]
MessageStop  == [type |-> "message_stop"]
TopLevelError == [type |-> "error"]
Start(i, kind) == [type |-> "content_block_start", index |-> i, kind |-> kind]
Delta(i, kind) == [type |-> "content_block_delta", index |-> i, kind |-> kind]
Stop(i)        == [type |-> "content_block_stop", index |-> i]

\* A text block that carries an error message.
ErrorBlock(i) == <<Start(i, "text"), Delta(i, "text"), Stop(i)>>

\* Start- and stop-only blocks (_NO_DELTA_BLOCK_KINDS).
NoDeltaKinds == {"server_tool_use", "tool_result", "redacted_thinking"}

\* What the client keeps: the open blocks with their kinds, the indexes seen,
\* the last event, and how the response ended ("no" while it lasts).
NewClient == [open |-> <<>>, seen |-> {}, last |-> [type |-> "none"], over |-> "no"]

WithBlock(open, i, kind) == [j \in DOMAIN open \cup {i} |-> IF j = i THEN kind ELSE open[j]]
WithoutBlock(open, i) == [j \in DOMAIN open \ {i} |-> open[j]]

\* The client after event e.
After(client, e) ==
    [client EXCEPT !.last = e,
                   !.open = IF e.type = "content_block_start" THEN WithBlock(@, e.index, e.kind)
                            ELSE IF e.type = "content_block_stop" THEN WithoutBlock(@, e.index)
                            ELSE @,
                   !.seen = IF e.type = "content_block_start" THEN @ \cup {e.index} ELSE @]

\* What assert_anthropic_stream_contract demands of e.
Legal(client, e) ==
    /\ client.over = "no"
    /\ (e.type = "message_start") <=> (client.last.type = "none")
    /\ e.type = "content_block_start" => e.index \notin client.seen
    /\ e.type = "content_block_delta" => /\ e.index \in DOMAIN client.open
                                         /\ client.open[e.index] = e.kind
                                         /\ e.kind \notin NoDeltaKinds
    /\ e.type = "content_block_stop" => e.index \in DOMAIN client.open

\* ... and of a stream that has ended.
Complete(client) ==
    client.last = MessageStop /\ DOMAIN client.open = {} /\ client.seen # {}
=============================================================================
