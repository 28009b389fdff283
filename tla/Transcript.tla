------------------------------ MODULE Transcript ------------------------------
(***************************************************************************)
(* What the user reads in the status message while Claude works: the       *)
(* segments of TranscriptBuffer (src/messaging/transcript.py), cut to the  *)
(* length of a message, and sent by ThrottledTranscriptEditor              *)
(* (src/messaging/ui_updates.py).                                          *)
(*                                                                         *)
(* Claude may call the tool Task, which starts a subagent; what subagents  *)
(* say is kept out of the transcript, by a stack of the Task calls that    *)
(* are not answered.  Some upstreams give calls no id, or one that the     *)
(* result does not repeat.  The CLI is started without partial messages,   *)
(* so the events are whole blocks and not the deltas of a stream.          *)
(***************************************************************************)
EXTENDS Naturals, Sequences, FiniteSets, FiniteSetsExt, SequencesExt

CONSTANTS Subtasks,        \* the Task calls, 1..n in the order they are made
          Styles,       \* how an upstream names its calls: see CallId and ResultId
          Lengths,      \* lengths of rendered segments
          MaxSegments,  \* bound on segments
          Limit,        \* limit_chars
          Marker,       \* length of the truncation marker
          StatusLength, \* length of the status line
          MinTail       \* the smallest rest of a segment that is worth showing

ASSUME TranscriptAssumption ==
    /\ IsFiniteSet(Subtasks) /\ Subtasks = 1..Cardinality(Subtasks) /\ Lengths \subseteq Nat
    /\ {MaxSegments, Limit, Marker, StatusLength, MinTail} \subseteq Nat
    /\ Marker + StatusLength <= Limit

VARIABLES style,     \* element of Styles
          task,      \* of each Task: "none", "running" or "over"
          stack,     \* _subagent_stack
          segments,  \* _segments: who it is from (0: Claude itself) and its length
          display,     \* _last_displayed_text, as Render gives it
          node,     \* "running" or "over"
          disorder   \* whether an answer came that was taken for another Task's (history)

transcriptVars == <<style, task, stack, segments, display, node, disorder>>

Running == {t \in Subtasks : task[t] = "running"}
Synthetic(depth) == <<"__task_", depth>>
IsSynthetic(id) == id[1] = "__task_"

\* The ids of a Task's call and of its result, and of another tool's; <<>> is none.
CallId(t) == CASE style = "named" -> <<"t", t>> [] style = "prefixed" -> <<"t">> \o [i \in 1..t |-> 0] [] OTHER -> <<>>
ResultId(t) == IF style = "unnamed_call" THEN <<"task", t>> ELSE CallId(t)
ToolId == CASE style = "named" -> <<"u">> [] style = "prefixed" -> <<"t">> \o [i \in 1..9 |-> 0]
            [] style = "unnamed_call" -> <<"u">> [] OTHER -> <<>>
LooksLikeTask(id) == id[1] = "task"

NothingShown == [first |-> 0, tail |-> 0, length |-> 0]

TranscriptInit ==
    /\ style \in Styles /\ task = [t \in Subtasks |-> "none"] /\ stack = <<>> /\ segments = <<>>
    /\ display = NothingShown /\ node = "running" /\ disorder = FALSE

-----------------------------------------------------------------------------

RoughlyMatch(a, b) == a # <<>> /\ b # <<>> /\ (IsPrefix(a, b) \/ IsPrefix(b, a))

\* Mutant: only the newest Task can end.
PopTopOnly(id) == IF stack # <<>> /\ RoughlyMatch(Last(stack), id) THEN Front(stack) ELSE stack

\* _subagent_pop: down to the newest entry that matches; without an id, the top if
\* that has none of its own either.
Pop(id) ==
    LET found == {i \in DOMAIN stack : RoughlyMatch(stack[i], id)}
    IN  CASE id # <<>> /\ found # {} -> SubSeq(stack, 1, Max(found) - 1)
          [] id = <<>> /\ stack # <<>> /\ IsSynthetic(Last(stack)) -> Front(stack)
          [] OTHER -> stack

\* A tool_result: an id that no Task has, but which reads like a Task's, ends the
\* newest Task without an id.
AfterResult(id) ==
    IF Pop(id) = stack /\ id # <<>> /\ stack # <<>> /\ IsSynthetic(Last(stack)) /\ LooksLikeTask(id)
    THEN Front(stack) ELSE Pop(id)

-----------------------------------------------------------------------------

\* Length of the segments from i on, joined by line ends.
FromSegment(segs, i) ==
    FoldLeft(LAMBDA sum, s : sum + s.length + 1, 0, SubSeq(segs, i, Len(segs))) - 1

\* What is left for the rest of one segment.
Budget == Limit - Marker - StatusLength

\* TranscriptBuffer.render: the newest segments that fit; else the end of the
\* newest one; else the marker and the status.
Render(segs) ==
    LET n == Len(segs)
        fit == {i \in 1..n : Marker + FromSegment(segs, i) + StatusLength <= Limit}
        cut == [first |-> n, tail |-> Budget - 3, length |-> Marker + Budget + StatusLength]
    IN  CASE n = 0 -> [first |-> 1, tail |-> 0, length |-> StatusLength]
          [] n > 0 /\ FromSegment(segs, 1) + StatusLength <= Limit ->
                [first |-> 1, tail |-> 0, length |-> FromSegment(segs, 1) + StatusLength]
          [] OTHER ->
                IF fit # {} THEN [first |-> Min(fit), tail |-> 0, length |-> Marker + FromSegment(segs, Min(fit)) + StatusLength]
                ELSE IF Budget > MinTail /\ cut.length <= Limit THEN cut
                ELSE [first |-> n + 1, tail |-> 0, length |-> Marker + StatusLength]

-----------------------------------------------------------------------------

Add(from) == \E l \in Lengths : segments' = Append(segments, [from |-> from, length |-> l])

\* An edit of the status message: between two of them a second passes, unless it is forced.
Edit(forced) == (~forced /\ UNCHANGED display) \/ display' = Render(segments')

Working == node = "running" /\ Len(segments) < MaxSegments

\* Claude (0) or a subagent says or thinks something: kept only outside of Tasks.
Say(from) ==
    /\ Working /\ from \in Running \cup {0}
    /\ IF stack = <<>> THEN Add(from) ELSE UNCHANGED segments
    /\ UNCHANGED <<style, task, stack, node, disorder>>
    /\ Edit(FALSE)

\* A Task is called.
TaskCalled(t) ==
    /\ Working /\ task[t] = "none" /\ \A u \in 1..t - 1 : task[u] # "none"
    /\ task' = [task EXCEPT ![t] = "running"]
    /\ stack' = Append(stack, IF CallId(t) = <<>> THEN Synthetic(Len(stack) + 1) ELSE CallId(t))
    /\ Add(0)
    /\ UNCHANGED <<style, node, disorder>>
    /\ Edit(FALSE)

\* A Task is answered; it may have been called before another that still runs.
TaskAnswered(t) ==
    /\ Working /\ task[t] = "running"
    /\ task' = [task EXCEPT ![t] = "over"]
    /\ stack' = AfterResult(ResultId(t))
    /\ disorder' = (disorder \/ \E u \in Running : u > t)
    /\ UNCHANGED <<style, segments, node>>
    /\ Edit(FALSE)

\* Another tool's result.  (Its call only changes the line of the Task it belongs to;
\* results are not displayed.)
ToolResult ==
    /\ Working /\ stack' = AfterResult(ToolId)
    /\ disorder' = (disorder \/ ToolId = <<>> \/ \E t \in Running : RoughlyMatch(ToolId, CallId(t)))
    /\ UNCHANGED <<style, task, segments, node>>
    /\ Edit(FALSE)

\* The node is over: complete, failed or stopped.  The last edit is forced; an
\* error is a segment of its own, and so is "Done." when there is no other.
NodeOver ==
    /\ node = "running" /\ node' = "over"
    /\ Add(0) \/ (segments # <<>> /\ UNCHANGED segments)
    /\ UNCHANGED <<style, task, stack, disorder>>
    /\ Edit(TRUE)

TranscriptNext ==
    \/ \E from \in Subtasks \cup {0} : Say(from)
    \/ \E t \in Subtasks : TaskCalled(t) \/ TaskAnswered(t)
    \/ ToolResult \/ NodeOver

TranscriptSpec == TranscriptInit /\ [][TranscriptNext]_transcriptVars

-----------------------------------------------------------------------------

\* When no Task runs Claude is heard: no unanswered entry stays on the stack, in
\* whatever order Tasks are answered and however upstreams name them.
NeverMuted == Running = {} => stack = <<>>

\* What a subagent says is shown only when an answer was taken for another
\* Task's: Tasks answered out of order, or ids that are missing or begin alike.
SubagentsQuiet == \A i \in DOMAIN segments : segments[i].from # 0 => disorder

\* When the node is over the message shows the newest segment, whole or its end if
\* there is room for one, and is never longer than the platform allows.
NewestShown ==
    node = "over" =>
        /\ display.length <= Limit
        /\ Limit - Marker - StatusLength > MinTail => display.first <= Len(segments)
        /\ display.first = Len(segments) /\ Len(segments) > 1 =>
              Marker + StatusLength + segments[Len(segments)].length + segments[Len(segments) - 1].length + 1 > Limit

\* The user can read what Claude does: muted while Tasks run and not after, and
\* the newest of it in view.
TranscriptReadable == NeverMuted /\ SubagentsQuiet /\ NewestShown
=============================================================================
