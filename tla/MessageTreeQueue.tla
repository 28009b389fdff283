---------------------------- MODULE MessageTreeQueue ----------------------------
(*****************************************************************************)
(* One conversation of the messaging bot: a tree of messages, the FIFO queue *)
(* of the messages that wait, and the asyncio tasks that process them one    *)
(* after the other (messaging/trees/, and the handlers that drive it).       *)
(*                                                                           *)
(* The program runs on one event loop, and a coroutine gives up the loop     *)
(* only where it really waits.  No critical section of the tree lock or of   *)
(* the manager lock waits, so each of them, and each run of code between two *)
(* waits, is one action here.  The waits are: sending the status message of  *)
(* a reply, between the lookup of its parent and its insertion; deleting the *)
(* chat messages of a branch, between cancelling and removing it; the time   *)
(* between create_task and the first step of the task; the wait for the next *)
(* event of the CLI; the clean-up of a cancelled task; and remove_session.   *)
(*                                                                           *)
(* A message has at most one task, so a task is named by its message.  What  *)
(* is abstracted: the texts, the status messages and the UI edits (a status  *)
(* message id resolves to its node), the CLI session itself (only "its id is *)
(* known" matters here), and the snapshots given to the session store.       *)
(*****************************************************************************)
EXTENDS Naturals, Sequences, FiniteSets, QueueOps

CONSTANTS
    Node,      \* the messages of this conversation
    Root,      \* the message that opens it
    NoNode,    \* None
    Commands   \* the commands that users give

ASSUME NodeAssumption == Root \in Node /\ NoNode \notin Node

ASSUME CommandAssumption ==
    Commands \subseteq {"stop", "stop_all", "clear_branch", "clear_all"}

VARIABLES
    \* the tree and its place in the repository
    registered,     \* the repository knows the tree
    nodes,          \* _nodes: the messages in the tree
    parent,         \* parent_id (children_ids is its inverse)
    state,          \* state of each MessageNode; "absent" before it is created
    \* the queue of the tree
    queue,          \* _queue
    isProcessing,   \* _is_processing
    currentNode,    \* _current_node_id
    currentTask,    \* _current_task
    \* the coroutines
    task,           \* where the process_node task of each message stands
    hasTree,        \* tasks whose local variable tree is not None
    captured,       \* tasks whose captured_session_id is not None
    reply,          \* where the handler of each incoming message stands
    clearing,       \* branches that a /clear is deleting the messages of
    clearingAll     \* a global /clear is deleting messages

treeVars  == <<registered, nodes, parent, state>>
queueVars == <<queue, isProcessing, currentNode, currentTask>>
cmdVars   == <<clearing, clearingAll>>
vars      == <<treeVars, queueVars, task, hasTree, captured, reply, cmdVars>>

Settled   == {"COMPLETED", "ERROR"}
NodeState == {"absent", "PENDING", "IN_PROGRESS"} \cup Settled

(* "doomed": cancelled before its first step, "never": and so it never ran.  *)
(* "unwinding": CancelledError is on its way; "closing": in remove_session.  *)
LiveStates == {"created", "running", "unwinding", "closing"}
TaskState  == {"none", "doomed", "never", "done"} \cup LiveStates

Live == {n \in Node : task[n] \in LiveStates}

TypeOK ==
    /\ registered \in BOOLEAN
    /\ nodes \subseteq Node
    /\ parent \in [Node -> Node \cup {NoNode}]
    /\ state \in [Node -> NodeState]
    /\ queue \in Seq(Node)
    /\ isProcessing \in BOOLEAN
    /\ currentNode \in Node \cup {NoNode}
    /\ currentTask \in Node \cup {NoNode}
    /\ task \in [Node -> TaskState]
    /\ hasTree \subseteq Node
    /\ captured \subseteq Node
    /\ reply \in [Node -> {"idle", "awaiting", "over"}]
    /\ clearing \subseteq Node
    /\ clearingAll \in BOOLEAN

Init ==
    /\ registered = FALSE
    /\ nodes = {}
    /\ parent = [n \in Node |-> NoNode]
    /\ state = [n \in Node |-> "absent"]
    /\ queue = << >>
    /\ isProcessing = FALSE
    /\ currentNode = NoNode
    /\ currentTask = NoNode
    /\ task = [n \in Node |-> "none"]
    /\ hasTree = {}
    /\ captured = {}
    /\ reply = [n \in Node |-> "idle"]
    /\ clearing = {}
    /\ clearingAll = FALSE

-----------------------------------------------------------------------------
(* The queue. *)

Queued == {queue[i] : i \in DOMAIN queue}

(* The tree. *)

(* get_descendants: n and everything below it. *)
Descendants(n) ==
    {m \in nodes : \A S \in SUBSET nodes :
        (n \in S /\ \A c \in nodes : parent[c] \in S => c \in S) => m \in S}

(* get_pending_children: what hangs on n through PENDING nodes only. *)
PendingChildren(n) ==
    {m \in nodes : \A S \in SUBSET nodes :
        (\A c \in nodes :
            state[c] = "PENDING" /\ parent[c] \in S \cup {n} => c \in S) => m \in S}

(* update_state, called through the tree that the task of n holds. *)
UpdateState(st, n, s) ==
    IF n \in hasTree \cap nodes THEN [st EXCEPT ![n] = s] ELSE st

(* mark_node_error with propagate_to_children: it asks the repository again. *)
MarkNodeError(n) ==
    IF registered /\ n \in hasTree \cap nodes
    THEN [m \in Node |-> IF m \in {n} \cup PendingChildren(n) THEN "ERROR" ELSE state[m]]
    ELSE state

(* Task.cancel() on the current task, if it is not done. *)
CancelCurrentTask ==
    [n \in Node |-> IF n # currentTask THEN task[n]
                    ELSE CASE task[n] = "created" -> "doomed"
                           [] task[n] = "running" -> "unwinding"
                           [] OTHER -> task[n]]

(* Mutant of EnqueueAndStart: the newest message goes first. *)
EnqueueInFront(n) ==
    /\ queue' = IF isProcessing THEN << n >> \o queue ELSE queue
    /\ task' = IF isProcessing THEN task ELSE [task EXCEPT ![n] = "created"]
    /\ currentNode' = IF isProcessing THEN currentNode ELSE n
    /\ currentTask' = IF isProcessing THEN currentTask ELSE n
    /\ isProcessing' = TRUE

(* enqueue_and_start. *)
EnqueueAndStart(n) ==
    \/ /\ isProcessing
       /\ queue' = Append(queue, n)
       /\ UNCHANGED <<isProcessing, currentNode, currentTask, task>>
    \/ /\ ~ isProcessing
       /\ isProcessing' = TRUE
       /\ currentNode' = n
       /\ currentTask' = n
       /\ task' = [task EXCEPT ![n] = "created"]
       /\ UNCHANGED queue

(* Mutant of ProcessNext: the head is read and stays in the queue. *)
ProcessNextPeeks(n) ==
    /\ queue # << >>
    /\ task' = [task EXCEPT ![n] = "done", ![Head(queue)] = "created"]
    /\ isProcessing' = TRUE
    /\ currentNode' = Head(queue)
    /\ currentTask' = Head(queue)
    /\ UNCHANGED queue

(* _process_next, in the task of n, which ends with it. *)
ProcessNext(n) ==
    \/ /\ queue = << >>
       /\ isProcessing' = FALSE
       /\ currentNode' = NoNode
       /\ task' = [task EXCEPT ![n] = "done"]
       /\ UNCHANGED <<queue, currentTask>>
    \/ /\ queue # << >>
       /\ queue' = Tail(queue)
       /\ isProcessing' = TRUE
       /\ currentNode' = Head(queue)
       /\ IF Head(queue) \in nodes
          THEN /\ currentTask' = Head(queue)
               /\ task' = [task EXCEPT ![n] = "done", ![Head(queue)] = "created"]
          ELSE /\ task' = [task EXCEPT ![n] = "done"]
               /\ UNCHANGED currentTask

-----------------------------------------------------------------------------
(* Incoming messages. *)

(* The first message: create_tree, then enqueue. *)
NewConversation ==
    /\ reply[Root] = "idle"
    /\ reply' = [reply EXCEPT ![Root] = "over"]
    /\ registered' = TRUE
    /\ nodes' = {Root}
    /\ state' = [state EXCEPT ![Root] = "PENDING"]
    /\ EnqueueAndStart(Root)
    /\ UNCHANGED <<parent, hasTree, captured, cmdVars>>

(* A reply finds its parent in the tree and waits for its status message. *)
ReplyArrives(n, p) ==
    /\ reply[n] = "idle" /\ n # Root
    /\ registered /\ p \in nodes
    /\ reply' = [reply EXCEPT ![n] = "awaiting"]
    /\ parent' = [parent EXCEPT ![n] = p]
    /\ UNCHANGED <<registered, nodes, state, queueVars, task, hasTree, captured, cmdVars>>

(* Mutant of ReplyAdded: the parent found before the wait is taken for granted. *)
ReplyAddedUnchecked(n) ==
    /\ reply[n] = "awaiting" /\ registered
    /\ reply' = [reply EXCEPT ![n] = "over"]
    /\ nodes' = nodes \cup {n}
    /\ state' = [state EXCEPT ![n] = "PENDING"]
    /\ EnqueueAndStart(n)
    /\ UNCHANGED <<registered, parent, hasTree, captured, cmdVars>>

(* The status message is sent: add_to_tree, then enqueue. *)
ReplyAdded(n) ==
    /\ reply[n] = "awaiting"
    /\ registered /\ parent[n] \in nodes
    /\ reply' = [reply EXCEPT ![n] = "over"]
    /\ nodes' = nodes \cup {n}
    /\ state' = [state EXCEPT ![n] = "PENDING"]
    /\ EnqueueAndStart(n)
    /\ UNCHANGED <<registered, parent, hasTree, captured, cmdVars>>

(* The status message failed, or the parent is gone and add_to_tree raises. *)
ReplyLost(n) ==
    /\ reply[n] = "awaiting"
    /\ reply' = [reply EXCEPT ![n] = "over"]
    /\ UNCHANGED <<treeVars, queueVars, task, hasTree, captured, cmdVars>>

-----------------------------------------------------------------------------
(* The task of a message. *)

(* Mutant of TaskSkip: an early return, without _process_next. *)
TaskSkipStops(n) ==
    /\ task[n] = "created" /\ state[n] = "ERROR"
    /\ task' = [task EXCEPT ![n] = "done"]
    /\ UNCHANGED <<treeVars, queueVars, hasTree, captured, reply, cmdVars>>

(* First step of a task whose node is in ERROR already: go on to the next. *)
TaskSkip(n) ==
    /\ task[n] = "created" /\ state[n] = "ERROR"
    /\ ProcessNext(n)
    /\ UNCHANGED <<treeVars, hasTree, captured, reply, cmdVars>>

(* Mutant of TaskStart: the state of the node is not looked at. *)
TaskStartUnchecked(n) ==
    /\ task[n] = "created"
    /\ task' = [task EXCEPT ![n] = "running"]
    /\ hasTree' = hasTree \cup {n}
    /\ state' = [state EXCEPT ![n] = "IN_PROGRESS"]
    /\ UNCHANGED <<registered, nodes, parent, queueVars, captured, reply, cmdVars>>

(* First step of a task.  get_or_create_session may return the live session  *)
(* of the parent, whose id is then known from the start.                     *)
TaskStart(n) ==
    /\ task[n] = "created" /\ state[n] # "ERROR"
    /\ task' = [task EXCEPT ![n] = "running"]
    /\ hasTree' = IF registered /\ n \in nodes THEN hasTree \cup {n} ELSE hasTree
    /\ state' = IF registered /\ n \in nodes
                THEN [state EXCEPT ![n] = "IN_PROGRESS"] ELSE state
    /\ \/ captured' = captured
       \/ n \in hasTree' /\ parent[n] \in captured /\ captured' = captured \cup {n}
    /\ UNCHANGED <<registered, nodes, parent, queueVars, reply, cmdVars>>

(* get_or_create_session refuses, or the processor itself raises: the node   *)
(* fails, its children do not.                                               *)
TaskRefused(n) ==
    /\ task[n] = "running"
    /\ task' = [task EXCEPT ![n] = "closing"]
    /\ state' = UpdateState(state, n, "ERROR")
    /\ UNCHANGED <<registered, nodes, parent, queueVars, hasTree, captured, reply, cmdVars>>

(* session_info: the id of the session is known. *)
SessionInfo(n) ==
    /\ task[n] = "running" /\ n \notin captured
    /\ captured' = captured \cup {n}
    /\ state' = UpdateState(state, n, "IN_PROGRESS")
    /\ UNCHANGED <<registered, nodes, parent, queueVars, task, hasTree, reply, cmdVars>>

(* An error event of the CLI, or its stderr.  The stream goes on. *)
ErrorEvent(n) ==
    /\ task[n] = "running"
    /\ state' = MarkNodeError(n)
    /\ UNCHANGED <<registered, nodes, parent, queueVars, task, hasTree, captured, reply, cmdVars>>

(* The exit event, the last of the stream.  A failure is parsed into an      *)
(* error followed by a complete; a complete counts once the session is known.*)
Exit(n, ok) ==
    LET afterError == IF ok THEN state ELSE MarkNodeError(n)
    IN  /\ task[n] = "running"
        /\ state' = IF n \in captured THEN UpdateState(afterError, n, "COMPLETED")
                                      ELSE afterError
        /\ task' = [task EXCEPT ![n] = "closing"]
        /\ UNCHANGED <<registered, nodes, parent, queueVars, hasTree, captured, reply, cmdVars>>

(* An exception while the events are handled. *)
TaskFails(n) ==
    /\ task[n] = "running"
    /\ state' = MarkNodeError(n)
    /\ task' = [task EXCEPT ![n] = "closing"]
    /\ UNCHANGED <<registered, nodes, parent, queueVars, hasTree, captured, reply, cmdVars>>

(* CancelledError reaches the handler, after the CLI process was stopped. *)
TaskUnwinds(n) ==
    /\ task[n] = "unwinding"
    /\ state' = UpdateState(state, n, "ERROR")
    /\ task' = [task EXCEPT ![n] = "closing"]
    /\ UNCHANGED <<registered, nodes, parent, queueVars, hasTree, captured, reply, cmdVars>>

(* remove_session is over: clear_current_node, then _process_next. *)
TaskEnds(n) ==
    /\ task[n] = "closing"
    /\ ProcessNext(n)
    /\ UNCHANGED <<treeVars, hasTree, captured, reply, cmdVars>>

(* A task cancelled before its first step runs nothing, not even finally. *)
TaskDiscarded(n) ==
    /\ task[n] = "doomed"
    /\ task' = [task EXCEPT ![n] = "never"]
    /\ UNCHANGED <<treeVars, queueVars, hasTree, captured, reply, cmdVars>>

-----------------------------------------------------------------------------
(* Commands. *)

(* Mutant of CancelNode: the node keeps its state. *)
CancelNodeKeepsState(n) ==
    /\ "stop" \in Commands
    /\ registered /\ n \in nodes /\ state[n] \notin Settled
    /\ task' = IF currentNode = n THEN CancelCurrentTask ELSE task
    /\ queue' = Without(queue, {n})
    /\ UNCHANGED <<treeVars, isProcessing, currentNode, currentTask, hasTree, captured,
                   reply, cmdVars>>

(* Mutant of CancelNode: cancelling the current node frees the tree. *)
CancelNodeFreesTree(n) ==
    /\ "stop" \in Commands
    /\ registered /\ n \in nodes /\ state[n] \notin Settled
    /\ task' = IF currentNode = n THEN CancelCurrentTask ELSE task
    /\ isProcessing' = (isProcessing /\ currentNode # n)
    /\ state' = [state EXCEPT ![n] = "ERROR"]
    /\ queue' = Without(queue, {n})
    /\ UNCHANGED <<registered, nodes, parent, currentNode, currentTask, hasTree, captured,
                   reply, cmdVars>>

(* /stop in reply to a message: cancel_node. *)
CancelNode(n) ==
    /\ "stop" \in Commands
    /\ registered /\ n \in nodes /\ state[n] \notin Settled
    /\ task' = IF currentNode = n THEN CancelCurrentTask ELSE task
    /\ queue' = Without(queue, {n})
    /\ state' = [state EXCEPT ![n] = "ERROR"]
    /\ UNCHANGED <<registered, nodes, parent, isProcessing, currentNode, currentTask,
                   hasTree, captured, reply, cmdVars>>

(* cancel_tree: what /stop and /clear do to a whole tree. *)
CancelTree ==
    /\ task' = CancelCurrentTask
    /\ state' = [n \in Node |->
                    IF n \in nodes /\ (state[n] \notin Settled \/ n \in Queued)
                    THEN "ERROR" ELSE state[n]]
    /\ queue' = << >>
    /\ isProcessing' = FALSE
    /\ currentNode' = NoNode
    /\ UNCHANGED currentTask

(* /stop on its own: stop_all_tasks. *)
StopAll ==
    /\ "stop_all" \in Commands
    /\ registered
    /\ CancelTree
    /\ UNCHANGED <<registered, nodes, parent, hasTree, captured, reply, cmdVars>>

(* /clear in reply to a message, first part: cancel_branch. *)
CancelBranch(b) ==
    LET unsettled == {n \in Descendants(b) : state[n] \notin Settled}
    IN  /\ "clear_branch" \in Commands
        /\ registered /\ b \in nodes \ clearing
        /\ clearing' = clearing \cup {b}
        /\ task' = IF currentNode \in unsettled THEN CancelCurrentTask ELSE task
        /\ queue' = Without(queue, unsettled \ {currentNode})
        /\ state' = [n \in Node |-> IF n \in unsettled THEN "ERROR" ELSE state[n]]
        /\ UNCHANGED <<registered, nodes, parent, isProcessing, currentNode, currentTask,
                       hasTree, captured, reply, clearingAll>>

(* Second part, when the messages are deleted: remove_branch of a subtree. *)
RemoveBranch(b) ==
    /\ b \in clearing /\ registered /\ b \in nodes \ {Root}
    /\ clearing' = clearing \ {b}
    /\ nodes' = nodes \ Descendants(b)
    /\ UNCHANGED <<registered, parent, state, queueVars, task, hasTree, captured, reply,
                   clearingAll>>

(* Second part for the root: cancel_tree, then remove_tree. *)
RemoveTree ==
    /\ Root \in clearing /\ registered
    /\ clearing' = clearing \ {Root}
    /\ CancelTree
    /\ registered' = FALSE
    /\ UNCHANGED <<nodes, parent, hasTree, captured, reply, clearingAll>>

(* Second part when the tree or the branch is gone already. *)
NothingToRemove(b) ==
    /\ b \in clearing /\ ~ (registered /\ b \in nodes)
    /\ clearing' = clearing \ {b}
    /\ UNCHANGED <<treeVars, queueVars, task, hasTree, captured, reply, clearingAll>>

(* /clear on its own, first part: stop_all_tasks. *)
ClearAll ==
    /\ "clear_all" \in Commands
    /\ registered /\ ~ clearingAll
    /\ clearingAll' = TRUE
    /\ CancelTree
    /\ UNCHANGED <<registered, nodes, parent, hasTree, captured, reply, clearing>>

(* Second part: a new, empty queue manager replaces the old one. *)
ReplaceTreeQueue ==
    /\ clearingAll
    /\ clearingAll' = FALSE
    /\ registered' = FALSE
    /\ UNCHANGED <<nodes, parent, state, queueVars, task, hasTree, captured, reply, clearing>>

-----------------------------------------------------------------------------
TaskStep(n) ==
    \/ TaskSkip(n)
    \/ TaskStart(n)
    \/ TaskRefused(n)
    \/ SessionInfo(n)
    \/ ErrorEvent(n)
    \/ \E ok \in BOOLEAN : Exit(n, ok)
    \/ TaskFails(n)
    \/ TaskUnwinds(n)
    \/ TaskEnds(n)
    \/ TaskDiscarded(n)

Incoming(n) ==
    \/ \E p \in Node : ReplyArrives(n, p)
    \/ ReplyAdded(n)
    \/ ReplyLost(n)

Command ==
    \/ \E n \in Node : CancelNode(n) \/ CancelBranch(n) \/ RemoveBranch(n) \/ NothingToRemove(n)
    \/ StopAll
    \/ RemoveTree
    \/ ClearAll
    \/ ReplaceTreeQueue

Next ==
    \/ NewConversation
    \/ \E n \in Node : Incoming(n) \/ TaskStep(n)
    \/ Command

Spec == Init /\ [][Next]_vars

(* The event loop runs every ready coroutine, the CLI process of a running   *)
(* task exits in the end, and a platform call returns.                       *)
Fairness ==
    /\ \A n \in Node :
        /\ WF_vars(TaskSkip(n)) /\ WF_vars(TaskStart(n)) /\ WF_vars(TaskUnwinds(n))
        /\ WF_vars(TaskEnds(n)) /\ WF_vars(TaskDiscarded(n))
        /\ WF_vars(\E ok \in BOOLEAN : Exit(n, ok))
        /\ WF_vars(ReplyAdded(n) \/ ReplyLost(n))
        /\ WF_vars(RemoveBranch(n) \/ NothingToRemove(n))
    /\ WF_vars(RemoveTree) /\ WF_vars(ReplaceTreeQueue)

FairSpec == Spec /\ Fairness

-----------------------------------------------------------------------------
(* Failed or cancelled before its task took its first step. *)
Stopped(n) == state[n] = "ERROR" /\ task[n] \in {"none", "created"}

(* Properties that hold whatever the commands. *)

(* No lost wake-up: while a message waits in the queue the tree counts as    *)
(* busy, so a new message never starts ahead of it and a task or a stalled   *)
(* head is there to blame (enqueue_and_start, _process_next, cancel_tree).   *)
QueueServed == queue # << >> => isProcessing

(* No accepted message is forgotten: a PENDING node of a known tree is in the*)
(* queue or has a task that is about to start (handler tail, cancellations). *)
PendingAccounted ==
    registered =>
        \A n \in nodes : state[n] = "PENDING" => n \in Queued \/ task[n] = "created"

(* A busy tree without a task is stalled for good.  That happens in two ways *)
(* only: the current task was cancelled before its first step, or the id at  *)
(* the head of the queue had been removed from the tree.                     *)
StallExplained ==
    isProcessing /\ Live = {} =>
        \/ currentNode \notin nodes
        \/ task[currentNode] \in {"doomed", "never"}

(* The tree stays a tree: a reply whose parent was cleared while its status  *)
(* message was being sent never enters it (add_to_tree checks again).        *)
TreeConnected ==
    \A n \in nodes : n = Root \/ parent[n] \in nodes

(* A message gets one task at most: no id is queued, dequeued or started     *)
(* twice, through cancellations and skipped tasks.                           *)
NeverReprocessed ==
    [][\A n \in Node : task[n] # "none" /\ task[n] # "created" => task'[n] # "created"]_vars

(* A message that was stopped, or whose parent failed, before its turn came  *)
(* stays stopped: nothing puts it back to PENDING or sends it to the CLI,    *)
(* whatever else happens before the queue reaches it (process_node).         *)
StoppedNeverRuns ==
    [][\A n \in Node : Stopped(n) => Stopped(n)' \/ task'[n] \in {"done", "doomed"}]_vars

(* Properties that hold as long as no command stops a whole tree. *)

(* Ordered processing: at most one message of the tree is being processed.   *)
OneWorker == \A m, n \in Live : m = n

(* A reply is processed after the message it replies to, whose session it    *)
(* forks: once it has a task, its parent neither runs nor waits.             *)
ParentFirst == \A n \in Live : parent[n] \notin Live \cup Queued

Serial == INSTANCE SerialQueue WITH
    Message <- Node,
    waiting <- queue,
    active  <- Live,
    over    <- {n \in Node : reply[n] = "over"} \ (Queued \cup Live)

(* The conversation is a serial queue. *)
SerialSpec == Serial!Spec

(* Without reply-scoped commands, every accepted message is dealt with. *)
EveryMessageServed ==
    \A n \in Node : n \in nodes ~> task[n] \in {"done", "never"} \/ state[n] = "ERROR"

(* Properties that the documentation states and the code does not keep. *)

(* "Check if tree is currently processing a message". *)
BusyMeansProcessing == isProcessing => Live # {}

(* "Per-tree queue ensures ordered processing". *)
NoOverlap == \A m, n \in Node : task[m] = "running" /\ task[n] = "running" => m = n

(* A node whose processing failed is never COMPLETED ("Processing finished   *)
(* successfully").                                                           *)
FailedNeverCompletes ==
    [][\A n \in nodes : state[n] = "ERROR" => state'[n] # "COMPLETED"]_vars
=============================================================================
