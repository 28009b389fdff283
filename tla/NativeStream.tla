----------------------------- MODULE NativeStream -----------------------------
(***************************************************************************)
(* The relay of an Anthropic event stream: the block policy that renumbers *)
(* blocks, hides thinking and repairs overlaps (src/core/anthropic/        *)
(* native_sse_block_policy.py), the tracker of what was emitted            *)
(* (emitted_sse_tracker.py), and the stream of AnthropicMessagesTransport  *)
(* and OpenRouterProvider with the error tails they send.                  *)
(*                                                                         *)
(* What the upstream may do is as bad as the policy is written for: blocks *)
(* overlap, starts of text and tool blocks are missing, stops come twice,  *)
(* and the connection may break at any moment.  It uses a block index for  *)
(* one block, and stops what it started before message_stop.               *)
(***************************************************************************)
EXTENDS StreamContract, QueueOps, SequencesExt

CONSTANTS Upstream,      \* block indexes of the upstream
          NativeKinds,   \* kinds of its blocks
          MaxEvents      \* bound on its events

ASSUME NativeAssumption == Upstream \subseteq Nat /\ MaxEvents \in Nat

VARIABLES
    blocks,        \* the upstream's blocks: "new", "open" or "stopped", and their kinds
    upstream,      \* "idle", "begun", "stopped" (message_stop was sent), "over"
    events,        \* block events read
    policy,        \* NativeSseBlockPolicyState
    tracker,       \* EmittedNativeSseTracker
    settings,          \* thinking_enabled, and whether the provider is OpenRouter
    out,           \* events yielded and not yet received
    nativeClient   \* what the client has received

nativeVars == <<blocks, upstream, events, policy, tracker, settings, out, nativeClient>>

Fresh == [known |-> FALSE, down |-> None, isOpen |-> FALSE]

NativeInit ==
    /\ blocks = [u \in Upstream |-> [state |-> "new", kind |-> "none"]]
    /\ upstream = "idle" /\ events = 0
    /\ policy = [next |-> 0, by |-> [u \in Upstream |-> Fresh], dropped |-> {}, suppressed |-> {},
                 stopped |-> FALSE]
    /\ tracker = [stack |-> <<>>, max |-> -1]
    /\ settings \in [thinking : BOOLEAN, openRouter : BOOLEAN]
    /\ out = <<>> /\ nativeClient = NewClient

-----------------------------------------------------------------------------
(* The policy: each case maps it to its new state and the events to yield. *)

Hidden(kind) == ~settings.thinking /\ kind \in {"thinking", "redacted_thinking"}

IsOpen(p, u) == p.by[u].isOpen
Segment(p, u) == [p EXCEPT !.next = @ + 1, !.by[u] = [known |-> TRUE, down |-> p.next, isOpen |-> TRUE]]

\* _synthetic_close_other_open_blocks
CloseOthers(p, u) ==
    LET others == {v \in Upstream \ {u} : IsOpen(p, v)}
    IN  [policy |-> [p EXCEPT !.by = [v \in Upstream |->
                                         IF v \in others THEN [p.by[v] EXCEPT !.isOpen = FALSE] ELSE p.by[v]],
                              !.suppressed = @ \cup others],
         yield |-> SetToSeq({Stop(p.by[v].down) : v \in others})]

PolicyStart(p, u, kind) ==
    IF Hidden(kind) THEN [policy |-> [p EXCEPT !.dropped = @ \cup {u}], yield |-> <<>>]
    ELSE LET c == CloseOthers(p, u)
         IN  [policy |-> Segment(c.policy, u), yield |-> Append(c.yield, Start(c.policy.next, kind))]

\* A delta for a block that is not open (closed for another one, or never
\* started) opens a block of its own; a thinking delta never started is passed on.
PolicyDelta(p, u, kind) ==
    IF u \in p.dropped \/ Hidden(kind) THEN [policy |-> p, yield |-> <<>>]
    ELSE IF IsOpen(p, u) THEN [policy |-> p, yield |-> <<Delta(p.by[u].down, kind)>>]
    ELSE IF ~p.by[u].known /\ kind = "thinking" THEN [policy |-> p, yield |-> <<Delta(u, kind)>>]
    ELSE [policy |-> Segment([p EXCEPT !.suppressed = @ \ {u}], u),
          yield  |-> <<Start(p.next, kind), Delta(p.next, kind)>>]

\* A stop is passed on once; one that was already sent for another block's
\* sake, or comes twice, is dropped.
PolicyStop(p, u) ==
    IF u \in p.dropped THEN [policy |-> p, yield |-> <<>>]
    ELSE IF u \in p.suppressed THEN [policy |-> [p EXCEPT !.suppressed = @ \ {u}], yield |-> <<>>]
    ELSE IF IsOpen(p, u) THEN [policy |-> [p EXCEPT !.by[u].isOpen = FALSE], yield |-> <<Stop(p.by[u].down)>>]
    ELSE IF p.by[u].known \/ ~settings.thinking THEN [policy |-> p, yield |-> <<>>]
    ELSE [policy |-> p, yield |-> <<Stop(u)>>]

-----------------------------------------------------------------------------
(* The tracker.                                                            *)

\* Mutant: a stop is looked for on the top of the stack only.
ObserveTop(t, e) ==
    IF e.type = "content_block_start"
    THEN [stack |-> Append(t.stack, e.index), max |-> IF e.index > t.max THEN e.index ELSE t.max]
    ELSE IF e.type = "content_block_stop" /\ t.stack # <<>> /\ t.stack[Len(t.stack)] = e.index
    THEN [t EXCEPT !.stack = SubSeq(@, 1, Len(@) - 1)]
    ELSE t

Observe(t, e) ==
    IF e.type = "content_block_start"
    THEN [stack |-> Append(t.stack, e.index), max |-> IF e.index > t.max THEN e.index ELSE t.max]
    ELSE IF e.type = "content_block_stop" THEN [t EXCEPT !.stack = Without(@, {e.index})]
    ELSE t

-----------------------------------------------------------------------------

\* An event of the upstream that the provider transforms and yields.
Relay(transformed) ==
    LET result == IF settings.openRouter /\ policy.stopped THEN [policy |-> policy, yield |-> <<>>]
                  ELSE transformed
    IN  /\ upstream \in {"begun", "stopped"} /\ out = <<>>
        /\ policy' = result.policy /\ out' = result.yield
        /\ UNCHANGED <<tracker, settings, nativeClient>>

BlockEvent(u, state, kind) ==
    /\ upstream = "begun" /\ events < MaxEvents
    /\ blocks' = [blocks EXCEPT ![u] = [state |-> state, kind |-> kind]]
    /\ events' = events + 1
    /\ UNCHANGED upstream

UpstreamBegins ==
    /\ upstream = "idle" /\ upstream' = "begun"
    /\ out' = <<MessageStart>>
    /\ UNCHANGED <<blocks, events, policy, tracker, settings, nativeClient>>

BlockStarts(u, kind) ==
    /\ blocks[u].state = "new"
    /\ BlockEvent(u, "open", kind) /\ Relay(PolicyStart(policy, u, kind))

BlockDelta(u, kind) ==
    /\ kind \notin NoDeltaKinds
    /\ \/ blocks[u] = [state |-> "open", kind |-> kind]
       \/ blocks[u].state = "new" /\ kind # "thinking"
    /\ BlockEvent(u, "open", kind) /\ Relay(PolicyDelta(policy, u, kind))

BlockStops(u) ==
    /\ blocks[u].state # "new"
    /\ BlockEvent(u, "stopped", blocks[u].kind) /\ Relay(PolicyStop(policy, u))

\* message_stop, when at least one visible block was sent.
UpstreamStops ==
    /\ upstream = "begun" /\ upstream' = "stopped"
    /\ \A u \in Upstream : blocks[u].state # "open"
    /\ \E u \in Upstream : blocks[u].state = "stopped" /\ ~Hidden(blocks[u].kind)
    /\ Relay([policy |-> [policy EXCEPT !.stopped = settings.openRouter],
              yield |-> <<MessageDelta, MessageStop>>])
    /\ UNCHANGED <<blocks, events>>

\* iter_midstream_error_tail, after the open blocks were closed.
ErrorTail(t) ==
    [n \in DOMAIN t.stack |-> Stop(Reverse(t.stack)[n])]
        \o ErrorBlock(t.max + 1) \o <<MessageDelta, MessageStop>>

\* The request is refused, or the connection breaks, also after message_stop.
UpstreamFails ==
    /\ upstream # "over" /\ out = <<>>
    /\ out' = IF upstream = "idle" THEN <<MessageStart>> \o ErrorBlock(0) \o <<MessageDelta, MessageStop>>
              ELSE ErrorTail(tracker)
    /\ upstream' = "over"
    /\ UNCHANGED <<blocks, events, policy, tracker, settings, nativeClient>>

UpstreamCloses ==
    /\ upstream = "stopped" /\ out = <<>>
    /\ upstream' = "over"
    /\ UNCHANGED <<blocks, events, policy, tracker, settings, out, nativeClient>>

\* An event is yielded; the tracker has read it just before, unless it is the
\* transport's own.
NativeReceive ==
    /\ out # <<>>
    /\ nativeClient' = After(nativeClient, Head(out)) /\ out' = Tail(out)
    /\ tracker' = IF upstream = "over" THEN tracker ELSE Observe(tracker, Head(out))
    /\ UNCHANGED <<blocks, upstream, events, policy, settings>>

NativeEnd ==
    /\ upstream = "over" /\ out = <<>> /\ nativeClient.over = "no"
    /\ nativeClient' = [nativeClient EXCEPT !.over = "ended"]
    /\ UNCHANGED <<blocks, upstream, events, policy, tracker, settings, out>>

NativeNext ==
    \/ UpstreamBegins \/ UpstreamStops \/ UpstreamFails \/ UpstreamCloses \/ NativeReceive \/ NativeEnd
    \/ \E u \in Upstream : BlockStops(u) \/ \E kind \in NativeKinds : BlockStarts(u, kind) \/ BlockDelta(u, kind)

NativeSpec == NativeInit /\ [][NativeNext]_nativeVars

-----------------------------------------------------------------------------

\* No event of a hidden block reaches the client.
ThinkingHidden ==
    ~settings.thinking => \A i \in DOMAIN nativeClient.open :
        nativeClient.open[i] \notin {"thinking", "redacted_thinking"}

\* The client sees a stream that obeys the contract, also when the upstream's
\* blocks overlap and when its connection breaks, and no block that is hidden.
NativeClient == INSTANCE BlockStream WITH client <- nativeClient
NativeContract == NativeClient!Spec /\ []ThinkingHidden
=============================================================================
