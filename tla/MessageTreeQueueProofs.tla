------------------------- MODULE MessageTreeQueueProofs -------------------------
(*****************************************************************************)
(* Theorems about a conversation of any number of messages: type             *)
(* correctness, and the safety invariants that TLC checks on small           *)
(* conversations, for any set of commands that the statement allows.  Each   *)
(* strengthens its invariant with what makes it inductive, and uses type     *)
(* correctness.                                                              *)
(*****************************************************************************)
EXTENDS MessageTreeQueue, DataLemmas

(* Cancelling the current task keeps the tasks well typed. *)
LEMMA CancelCurrentTaskType ==
  ASSUME TypeOK
  PROVE  CancelCurrentTask \in [Node -> TaskState]
BY DEF TypeOK, CancelCurrentTask, TaskState, LiveStates

(* The states that the handlers compute are states. *)
LEMMA UpdateStateType ==
  ASSUME TypeOK, NEW n \in Node, NEW st \in [Node -> NodeState], NEW s \in NodeState
  PROVE  UpdateState(st, n, s) \in [Node -> NodeState]
BY DEF UpdateState

LEMMA MarkNodeErrorType ==
  ASSUME TypeOK, NEW n \in Node
  PROVE  MarkNodeError(n) \in [Node -> NodeState]
<1> DEFINE marked == {n} \cup PendingChildren(n)
<1>1. [m \in Node |-> IF m \in marked THEN "ERROR" ELSE state[m]] \in [Node -> NodeState]
  <2> HIDE DEF marked
  <2> QED
    BY DEF TypeOK, NodeState, Settled
<1> HIDE DEF marked
<1>2. CASE registered /\ n \in hasTree \cap nodes
  BY <1>1, <1>2 DEF MarkNodeError, marked
<1>3. CASE ~ (registered /\ n \in hasTree \cap nodes)
  BY <1>3 DEF MarkNodeError, TypeOK
<1> QED
  BY <1>2, <1>3

(* The variables that enqueue_and_start and _process_next assign stay typed. *)
QueueTypeOK ==
    /\ queue \in Seq(Node)
    /\ isProcessing \in BOOLEAN
    /\ currentNode \in Node \cup {NoNode}
    /\ currentTask \in Node \cup {NoNode}
    /\ task \in [Node -> TaskState]

LEMMA EnqueueAndStartType ==
  ASSUME TypeOK, NEW n \in Node, EnqueueAndStart(n)
  PROVE  QueueTypeOK'
<1>1. CASE isProcessing
  <2>1. Append(queue, n) \in Seq(Node)
    BY DEF TypeOK
  <2> QED
    BY <1>1, <2>1 DEF EnqueueAndStart, QueueTypeOK, TypeOK
<1>2. CASE ~ isProcessing
  BY <1>2 DEF EnqueueAndStart, QueueTypeOK, TypeOK, TaskState, LiveStates
<1> QED
  BY <1>1, <1>2

LEMMA ProcessNextType ==
  ASSUME TypeOK, NEW n \in Node, ProcessNext(n)
  PROVE  QueueTypeOK'
<1>1. [task EXCEPT ![n] = "done"] \in [Node -> TaskState]
  BY DEF TypeOK, TaskState
<1>2. CASE queue = << >>
  BY <1>1, <1>2 DEF ProcessNext, QueueTypeOK, TypeOK
<1>3. CASE queue # << >>
  <2>1. Head(queue) \in Node /\ Tail(queue) \in Seq(Node)
    BY <1>3 DEF TypeOK
  <2>2. [task EXCEPT ![n] = "done", ![Head(queue)] = "created"] \in [Node -> TaskState]
    BY <2>1 DEF TypeOK, TaskState, LiveStates
  <2> QED
    BY <1>1, <1>3, <2>1, <2>2 DEF ProcessNext, QueueTypeOK, TypeOK
<1> QED
  BY <1>2, <1>3

LEMMA CancelTreeType ==
  ASSUME TypeOK, CancelTree
  PROVE  QueueTypeOK' /\ state' \in [Node -> NodeState]
<1>1. << >> \in Seq(Node)
  OBVIOUS
<1>2. CancelCurrentTask \in [Node -> TaskState]
  BY CancelCurrentTaskType
<1> QED
  BY <1>1, <1>2 DEF CancelTree, QueueTypeOK, TypeOK, NodeState, Settled

-----------------------------------------------------------------------------
(* Every variable keeps its type, in a conversation of any size. *)
THEOREM TypeCorrect == Spec => []TypeOK
<1>1. Init => TypeOK
  <2> SUFFICES ASSUME Init PROVE TypeOK
    OBVIOUS
  <2>1. << >> \in Seq(Node)
    OBVIOUS
  <2> QED
    BY <2>1 DEF Init, TypeOK, NodeState, TaskState
<1>2. TypeOK /\ [Next]_vars => TypeOK'
  <2> SUFFICES ASSUME TypeOK, [Next]_vars PROVE TypeOK'
    OBVIOUS
  <2>1. CASE NewConversation
    <3>1. QueueTypeOK'
      BY <2>1, EnqueueAndStartType, NodeAssumption DEF NewConversation
    <3> QED
      BY <2>1, <3>1, NodeAssumption
      DEF NewConversation, QueueTypeOK, TypeOK, cmdVars, NodeState
  <2>2. ASSUME NEW n \in Node, Incoming(n) PROVE TypeOK'
    <3>1. ASSUME NEW p \in Node, ReplyArrives(n, p) PROVE TypeOK'
      BY <3>1 DEF ReplyArrives, TypeOK, queueVars, cmdVars
    <3>2. CASE ReplyAdded(n)
      <4>1. QueueTypeOK'
        BY <3>2, EnqueueAndStartType DEF ReplyAdded
      <4> QED
        BY <3>2, <4>1 DEF ReplyAdded, QueueTypeOK, TypeOK, cmdVars, NodeState
    <3>3. CASE ReplyLost(n)
      BY <3>3 DEF ReplyLost, TypeOK, treeVars, queueVars, cmdVars
    <3> QED
      BY <2>2, <3>1, <3>2, <3>3 DEF Incoming
  <2>3. ASSUME NEW n \in Node, TaskStep(n) PROVE TypeOK'
    <3>1. CASE TaskSkip(n) \/ TaskEnds(n)
      <4>1. QueueTypeOK'
        BY <3>1, ProcessNextType DEF TaskSkip, TaskEnds
      <4> QED
        BY <3>1, <4>1 DEF TaskSkip, TaskEnds, QueueTypeOK, TypeOK, treeVars, cmdVars
    <3>2. CASE TaskStart(n)
      BY <3>2 DEF TaskStart, TypeOK, queueVars, cmdVars, TaskState, LiveStates, NodeState
    <3>3. CASE TaskRefused(n) \/ TaskUnwinds(n)
      <4>1. UpdateState(state, n, "ERROR") \in [Node -> NodeState]
        BY UpdateStateType DEF TypeOK, NodeState, Settled
      <4> QED
        BY <3>3, <4>1
        DEF TaskRefused, TaskUnwinds, TypeOK, queueVars, cmdVars, TaskState, LiveStates
    <3>4. CASE SessionInfo(n)
      <4>1. UpdateState(state, n, "IN_PROGRESS") \in [Node -> NodeState]
        BY UpdateStateType DEF TypeOK, NodeState
      <4> QED
        BY <3>4, <4>1 DEF SessionInfo, TypeOK, queueVars, cmdVars
    <3>5. CASE ErrorEvent(n) \/ TaskFails(n)
      <4>1. MarkNodeError(n) \in [Node -> NodeState]
        BY MarkNodeErrorType
      <4> QED
        BY <3>5, <4>1 DEF ErrorEvent, TaskFails, TypeOK, queueVars, cmdVars, TaskState, LiveStates
    <3>6. ASSUME NEW ok \in BOOLEAN, Exit(n, ok) PROVE TypeOK'
      <4> DEFINE afterError == IF ok THEN state ELSE MarkNodeError(n)
      <4>1. afterError \in [Node -> NodeState]
        BY MarkNodeErrorType DEF TypeOK
      <4> HIDE DEF afterError
      <4>2. UpdateState(afterError, n, "COMPLETED") \in [Node -> NodeState]
        BY <4>1, UpdateStateType DEF NodeState, Settled
      <4>3. state' = (IF n \in captured THEN UpdateState(afterError, n, "COMPLETED") ELSE afterError)
        BY <3>6 DEF Exit, afterError
      <4>4. state' \in [Node -> NodeState]
        BY <4>1, <4>2, <4>3
      <4> QED
        BY <3>6, <4>4 DEF Exit, TypeOK, queueVars, cmdVars, TaskState, LiveStates
    <3>7. CASE TaskDiscarded(n)
      BY <3>7 DEF TaskDiscarded, TypeOK, treeVars, queueVars, cmdVars, TaskState
    <3> QED
      BY <2>3, <3>1, <3>2, <3>3, <3>4, <3>5, <3>6, <3>7 DEF TaskStep
  <2>4. CASE Command
    <3>1. ASSUME NEW n \in Node, CancelNode(n) PROVE TypeOK'
      <4>1. CancelCurrentTask \in [Node -> TaskState]
        BY CancelCurrentTaskType
      <4>2. Without(queue, {n}) \in Seq(Node)
        BY WithoutIsSeq DEF TypeOK
      <4> QED
        BY <3>1, <4>1, <4>2 DEF CancelNode, TypeOK, cmdVars, NodeState, Settled
    <3>2. ASSUME NEW n \in Node, CancelBranch(n) PROVE TypeOK'
      <4> DEFINE unsettled == {m \in Descendants(n) : state[m] \notin Settled}
      <4>1. CancelCurrentTask \in [Node -> TaskState]
        BY CancelCurrentTaskType
      <4> HIDE DEF unsettled
      <4>2. Without(queue, unsettled \ {currentNode}) \in Seq(Node)
        BY WithoutIsSeq DEF TypeOK
      <4>3. [m \in Node |-> IF m \in unsettled THEN "ERROR" ELSE state[m]] \in [Node -> NodeState]
        BY DEF TypeOK, NodeState, Settled
      <4>4. /\ queue' = Without(queue, unsettled \ {currentNode})
            /\ state' = [m \in Node |-> IF m \in unsettled THEN "ERROR" ELSE state[m]]
            /\ task' \in {task, CancelCurrentTask}
        BY <3>2 DEF CancelBranch, unsettled
      <4>5. clearing' \subseteq Node
        BY <3>2 DEF CancelBranch, TypeOK
      <4> QED
        BY <3>2, <4>1, <4>2, <4>3, <4>4, <4>5 DEF CancelBranch, TypeOK
    <3>3. ASSUME NEW n \in Node, RemoveBranch(n) PROVE TypeOK'
      BY <3>3 DEF RemoveBranch, TypeOK, queueVars
    <3>4. ASSUME NEW n \in Node, NothingToRemove(n) PROVE TypeOK'
      BY <3>4 DEF NothingToRemove, TypeOK, treeVars, queueVars
    <3>5. CASE StopAll \/ ClearAll \/ RemoveTree
      <4>1. QueueTypeOK' /\ state' \in [Node -> NodeState]
        BY <3>5, CancelTreeType DEF StopAll, ClearAll, RemoveTree
      <4> QED
        BY <3>5, <4>1 DEF StopAll, ClearAll, RemoveTree, QueueTypeOK, TypeOK, cmdVars
    <3>6. CASE ReplaceTreeQueue
      BY <3>6 DEF ReplaceTreeQueue, TypeOK, queueVars
    <3> QED
      BY <2>4, <3>1, <3>2, <3>3, <3>4, <3>5, <3>6 DEF Command
  <2>5. CASE UNCHANGED vars
    BY <2>5 DEF vars, treeVars, queueVars, cmdVars, TypeOK
  <2> QED
    BY <2>1, <2>2, <2>3, <2>4, <2>5 DEF Next
<1> QED
  BY <1>1, <1>2, PTL DEF Spec

-----------------------------------------------------------------------------

(* What the building blocks of the actions do to the queue and the tasks. *)

LEMMA EnqueueAndStartEffect ==
  ASSUME TypeOK, NEW n \in Node, EnqueueAndStart(n)
  PROVE  /\ isProcessing'
         /\ Queued' \subseteq Queued \cup {n}
         /\ isProcessing => /\ Live' = Live /\ queue' = Append(queue, n)
                            /\ UNCHANGED <<currentNode, currentTask, task>>
         /\ ~ isProcessing => /\ Live' = Live \cup {n} /\ queue' = queue
                              /\ currentNode' = n /\ currentTask' = n
                              /\ task' = [task EXCEPT ![n] = "created"]
<1>1. CASE isProcessing
  <2>1. queue' = Append(queue, n) /\ isProcessing'
    BY <1>1 DEF EnqueueAndStart
  <2>2. \A i \in DOMAIN queue' : queue'[i] = n \/ (i \in DOMAIN queue /\ queue'[i] = queue[i])
    BY <2>1 DEF TypeOK
  <2>3. Queued' \subseteq Queued \cup {n}
    BY <2>2 DEF Queued
  <2> QED
    BY <1>1, <2>1, <2>3 DEF EnqueueAndStart, Live
<1>2. CASE ~ isProcessing
  <2>1. /\ isProcessing' /\ queue' = queue /\ currentNode' = n /\ currentTask' = n
        /\ task' = [task EXCEPT ![n] = "created"]
    BY <1>2 DEF EnqueueAndStart
  <2>2. Live' = Live \cup {n}
    BY <2>1 DEF Live, LiveStates, TypeOK
  <2> QED
    BY <1>2, <2>1, <2>2 DEF Queued
<1> QED
  BY <1>1, <1>2

LEMMA ProcessNextEffect ==
  ASSUME TypeOK, NEW n \in Node, ProcessNext(n)
  PROVE  /\ Queued' \subseteq Queued
         /\ task'[n] = "done" \/ (queue # << >> /\ Head(queue) = n)
         /\ \A m \in Node \ {n} :
                \/ task'[m] = task[m]
                \/ task'[m] = "created" /\ queue # << >> /\ m = Head(queue)
         /\ queue = << >> => queue' = << >> /\ ~ isProcessing' /\ Live' = Live \ {n}
         /\ queue # << >> =>
              /\ isProcessing' /\ currentNode' = Head(queue) /\ Head(queue) \in Queued
              /\ queue' = Tail(queue)
              /\ Head(queue) \in nodes => /\ currentTask' = Head(queue)
                                          /\ Live' = (Live \ {n}) \cup {Head(queue)}
              /\ Head(queue) \notin nodes => Live' = Live \ {n}
<1>1. CASE queue = << >>
  <2>1. queue' = << >> /\ ~ isProcessing' /\ task' = [task EXCEPT ![n] = "done"]
    BY <1>1 DEF ProcessNext
  <2>2. Live' = Live \ {n}
    BY <2>1 DEF Live, LiveStates, TypeOK
  <2> QED
    BY <1>1, <2>1, <2>2 DEF Queued, TypeOK
<1>2. CASE queue # << >>
  <2>1. queue' = Tail(queue) /\ isProcessing' /\ currentNode' = Head(queue)
    BY <1>2 DEF ProcessNext
  <2>2. Len(queue) \in Nat /\ Len(queue) >= 1 /\ Head(queue) = queue[1] /\ 1 \in DOMAIN queue
    BY <1>2 DEF TypeOK
  <2>3. \A i \in DOMAIN queue' : i + 1 \in DOMAIN queue /\ queue'[i] = queue[i + 1]
    BY <1>2, <2>1 DEF TypeOK
  <2>4. Queued' \subseteq Queued /\ Head(queue) \in Queued
    BY <2>2, <2>3 DEF Queued
  <2>5. Head(queue) \in Node
    BY <1>2 DEF TypeOK
  <2>6. CASE Head(queue) \in nodes
    <3>1. /\ currentTask' = Head(queue)
          /\ task' = [task EXCEPT ![n] = "done", ![Head(queue)] = "created"]
      BY <1>2, <2>6 DEF ProcessNext
    <3>2. Live' = (Live \ {n}) \cup {Head(queue)}
      BY <2>5, <3>1 DEF Live, LiveStates, TypeOK
    <3> QED
      BY <1>2, <2>1, <2>4, <2>5, <2>6, <3>1, <3>2 DEF TypeOK
  <2>7. CASE Head(queue) \notin nodes
    <3>1. task' = [task EXCEPT ![n] = "done"]
      BY <1>2, <2>7 DEF ProcessNext
    <3>2. Live' = Live \ {n}
      BY <3>1 DEF Live, LiveStates, TypeOK
    <3> QED
      BY <1>2, <2>1, <2>4, <2>7, <3>1, <3>2 DEF TypeOK
  <2> QED
    BY <2>6, <2>7
<1> QED
  BY <1>1, <1>2

LEMMA CancelCurrentTaskEffect ==
  ASSUME TypeOK, task' = CancelCurrentTask
  PROVE  /\ Live' \subseteq Live
         /\ \A n \in Live \ Live' : n = currentTask /\ task'[n] = "doomed"
         /\ \A n \in Node : n \notin Live => task'[n] = task[n]
BY DEF CancelCurrentTask, Live, LiveStates, TypeOK

LEMMA WithoutEffect ==
  ASSUME TypeOK, NEW S, queue' = Without(queue, S)
  PROVE  Queued' \subseteq Queued /\ (queue = << >> => queue' = << >>)
<1>1. /\ queue' \in Seq(Node)
      /\ \A i \in DOMAIN queue' : \E j \in DOMAIN queue : queue'[i] = queue[j]
  BY WithoutIsSeq DEF TypeOK
<1>2. Queued' \subseteq Queued
  BY <1>1 DEF Queued
<1>3. ASSUME queue = << >>
      PROVE  queue' = << >>
  <2>1. DOMAIN queue = {}
    BY <1>3
  <2>2. DOMAIN queue' = {}
    BY <1>1, <2>1
  <2>3. Len(queue') = 0
    BY <1>1, <2>2
  <2> QED
    BY <1>1, <2>3
<1> QED
  BY <1>2, <1>3

(* A step of a task that is not its last. *)
TaskMoves(n) ==
    \/ TaskStart(n) \/ TaskRefused(n) \/ SessionInfo(n) \/ ErrorEvent(n)
    \/ TaskFails(n) \/ TaskUnwinds(n) \/ TaskDiscarded(n)
    \/ \E ok \in BOOLEAN : Exit(n, ok)

LEMMA TaskStepCases ==
  ASSUME NEW n \in Node, TaskStep(n)
  PROVE  TaskSkip(n) \/ TaskEnds(n) \/ TaskMoves(n)
BY DEF TaskStep, TaskMoves

LEMMA TaskMovesEffect ==
  ASSUME TypeOK, NEW n \in Node, TaskMoves(n)
  PROVE  /\ Live' = Live
         /\ UNCHANGED <<registered, nodes, queueVars, reply, cmdVars>>
         /\ task[n] # "none" /\ task'[n] \notin {"none", "created"}
         /\ task[n] \in {"doomed", "never"} => task'[n] \in {"doomed", "never"}
         /\ \A m \in Node \ {n} : task'[m] = task[m]
<1>1. /\ UNCHANGED <<registered, nodes, queueVars, reply, cmdVars>>
      /\ \/ task' = task /\ task[n] = "running"
         \/ n \in Live /\ \E s \in {"running", "closing"} : task' = [task EXCEPT ![n] = s]
         \/ task[n] = "doomed" /\ task' = [task EXCEPT ![n] = "never"]
  BY DEF TaskMoves, TaskStart, TaskRefused, SessionInfo, ErrorEvent, TaskFails, TaskUnwinds,
         TaskDiscarded, Exit, Live, LiveStates, TypeOK, treeVars, cmdVars, queueVars
<1>2. CASE task' = task /\ task[n] = "running"
  BY <1>1, <1>2 DEF Live
<1>3. CASE n \in Live /\ \E s \in {"running", "closing"} : task' = [task EXCEPT ![n] = s]
  BY <1>1, <1>3 DEF Live, LiveStates, TaskState, TypeOK
<1>4. CASE task[n] = "doomed" /\ task' = [task EXCEPT ![n] = "never"]
  BY <1>1, <1>4 DEF Live, LiveStates, TaskState, TypeOK
<1> QED
  BY <1>1, <1>2, <1>3, <1>4

-----------------------------------------------------------------------------
(* No lost wake-up: a waiting message keeps the tree busy, whatever the      *)
(* commands.  The invariant is inductive together with type correctness.     *)
THEOREM QueueServedCorrect == Spec => []QueueServed
<1>1. Init => QueueServed
  BY DEF Init, QueueServed
<1>2. TypeOK /\ QueueServed /\ [Next]_vars => QueueServed'
  <2> SUFFICES ASSUME TypeOK, QueueServed, [Next]_vars PROVE QueueServed'
    OBVIOUS
  <2>1. CASE NewConversation
    BY <2>1, EnqueueAndStartEffect, NodeAssumption DEF NewConversation, QueueServed
  <2>2. ASSUME NEW n \in Node, Incoming(n) PROVE QueueServed'
    <3>1. CASE ReplyAdded(n)
      BY <3>1, EnqueueAndStartEffect DEF ReplyAdded, QueueServed
    <3>2. CASE UNCHANGED queueVars
      BY <3>2 DEF queueVars, QueueServed
    <3> QED
      BY <2>2, <3>1, <3>2 DEF Incoming, ReplyArrives, ReplyLost
  <2>3. ASSUME NEW n \in Node, TaskStep(n) PROVE QueueServed'
    <3>1. CASE TaskSkip(n) \/ TaskEnds(n)
      BY <3>1, ProcessNextEffect DEF TaskSkip, TaskEnds, QueueServed
    <3>2. CASE TaskMoves(n)
      BY <3>2, TaskMovesEffect DEF queueVars, QueueServed
    <3> QED
      BY <2>3, <3>1, <3>2, TaskStepCases
  <2>4. CASE Command
    <3>1. ASSUME NEW n \in Node, CancelNode(n) \/ CancelBranch(n) PROVE QueueServed'
      <4>1. isProcessing' = isProcessing /\ \E S : queue' = Without(queue, S)
        BY <3>1 DEF CancelNode, CancelBranch
      <4> QED
        BY <4>1, WithoutEffect DEF QueueServed
    <3>2. CASE StopAll \/ ClearAll \/ RemoveTree
      BY <3>2 DEF StopAll, ClearAll, RemoveTree, CancelTree, QueueServed
    <3>3. CASE UNCHANGED queueVars
      BY <3>3 DEF queueVars, QueueServed
    <3> QED
      BY <2>4, <3>1, <3>2, <3>3 DEF Command, RemoveBranch, NothingToRemove, ReplaceTreeQueue
  <2>5. CASE UNCHANGED vars
    BY <2>5 DEF vars, queueVars, QueueServed
  <2> QED
    BY <2>1, <2>2, <2>3, <2>4, <2>5 DEF Next
<1> QED
  BY <1>1, <1>2, TypeCorrect, PTL DEF Spec

-----------------------------------------------------------------------------
(* What makes OneWorker inductive: a known tree with a live task is busy, so *)
(* nothing starts beside the task; a tree that is not known takes no message *)
(* and its queue is empty, so nothing starts after it either.                *)
OneWorkerInv ==
    /\ ~ clearingAll
    /\ ~ registered => queue = << >>
    /\ reply[Root] = "idle" => ~ registered /\ Live = {}
    /\ registered /\ Live # {} => isProcessing
    /\ OneWorker

LEMMA OneWorkerInvCorrect ==
  ASSUME "stop_all" \notin Commands, "clear_all" \notin Commands
  PROVE  Spec => []OneWorkerInv
<1>1. Init => OneWorkerInv
  <2> SUFFICES ASSUME Init PROVE OneWorkerInv
    OBVIOUS
  <2>1. Live = {}
    BY DEF Init, Live, LiveStates
  <2> QED
    BY <2>1 DEF Init, OneWorkerInv, OneWorker
<1>2. TypeOK /\ OneWorkerInv /\ [Next]_vars => OneWorkerInv'
  <2> SUFFICES ASSUME TypeOK, OneWorkerInv, [Next]_vars PROVE OneWorkerInv'
    OBVIOUS
  <2> USE DEF OneWorkerInv, OneWorker
  <2>1. CASE NewConversation
    BY <2>1, EnqueueAndStartEffect, NodeAssumption DEF NewConversation, cmdVars, TypeOK
  <2>2. ASSUME NEW n \in Node, Incoming(n) PROVE OneWorkerInv'
    <3>1. ASSUME NEW p \in Node, ReplyArrives(n, p) PROVE OneWorkerInv'
      BY <3>1 DEF ReplyArrives, queueVars, cmdVars, TypeOK, Live
    <3>2. CASE ReplyAdded(n)
      <4>1. reply'[Root] = reply[Root] \/ reply'[Root] = "over"
        BY <3>2, NodeAssumption DEF ReplyAdded, TypeOK
      <4> QED
        BY <3>2, <4>1, EnqueueAndStartEffect DEF ReplyAdded, cmdVars
    <3>3. CASE ReplyLost(n)
      BY <3>3 DEF ReplyLost, treeVars, queueVars, cmdVars, TypeOK, Live
    <3> QED
      BY <2>2, <3>1, <3>2, <3>3 DEF Incoming
  <2>3. ASSUME NEW n \in Node, TaskStep(n) PROVE OneWorkerInv'
    <3>1. CASE TaskSkip(n) \/ TaskEnds(n)
      <4>1. n \in Live /\ ProcessNext(n) /\ UNCHANGED <<registered, clearingAll, reply>>
        BY <3>1 DEF TaskSkip, TaskEnds, Live, LiveStates, treeVars, cmdVars
      <4>2. Live = {n}
        BY <4>1
      <4> QED
        BY <4>1, <4>2, ProcessNextEffect
    <3>2. CASE TaskMoves(n)
      BY <3>2, TaskMovesEffect DEF queueVars, cmdVars
    <3> QED
      BY <2>3, <3>1, <3>2, TaskStepCases
  <2>4. CASE Command
    <3>1. ASSUME NEW n \in Node, CancelNode(n) \/ CancelBranch(n) PROVE OneWorkerInv'
      <4>1. /\ UNCHANGED <<registered, isProcessing, reply, clearingAll>>
            /\ \E S : queue' = Without(queue, S)
            /\ task' = task \/ task' = CancelCurrentTask
        BY <3>1 DEF CancelNode, CancelBranch, cmdVars
      <4>2. Live' \subseteq Live
        BY <4>1, CancelCurrentTaskEffect DEF Live
      <4>3. queue = << >> => queue' = << >>
        BY <4>1, WithoutEffect
      <4> QED
        BY <4>1, <4>2, <4>3
    <3>2. CASE RemoveTree
      <4>1. /\ UNCHANGED <<reply, clearingAll>> /\ ~ registered' /\ queue' = << >>
            /\ task' = CancelCurrentTask
        BY <3>2 DEF RemoveTree, CancelTree
      <4>2. Live' \subseteq Live
        BY <4>1, CancelCurrentTaskEffect
      <4> QED
        BY <4>1, <4>2
    <3>3. ASSUME NEW n \in Node, RemoveBranch(n) \/ NothingToRemove(n) PROVE OneWorkerInv'
      BY <3>3 DEF RemoveBranch, NothingToRemove, treeVars, queueVars, Live
    <3> QED
      BY <2>4, <3>1, <3>2, <3>3 DEF Command, StopAll, ClearAll, ReplaceTreeQueue
  <2>5. CASE UNCHANGED vars
    BY <2>5 DEF vars, treeVars, queueVars, cmdVars, Live
  <2> QED
    BY <2>1, <2>2, <2>3, <2>4, <2>5 DEF Next
<1> QED
  BY <1>1, <1>2, TypeCorrect, PTL DEF Spec

(* Ordered processing: as long as no command stops every tree at once, a     *)
(* conversation never has two live tasks, even while a cancelled one unwinds.*)
THEOREM OneWorkerCorrect ==
  ASSUME "stop_all" \notin Commands, "clear_all" \notin Commands
  PROVE  Spec => []OneWorker
<1>1. OneWorkerInv => OneWorker
  BY DEF OneWorkerInv
<1> QED
  BY <1>1, OneWorkerInvCorrect, PTL

-----------------------------------------------------------------------------
(* The life of a message: unknown until its handler inserts it, then in the  *)
(* queue or with a task, never both, and never twice in the queue.           *)
LifeInv ==
    /\ \A n \in Node : reply[n] # "over" =>
            task[n] = "none" /\ state[n] = "absent" /\ n \notin Queued /\ n \notin nodes
    /\ \A n \in Queued : task[n] = "none"
    /\ \A i, j \in DOMAIN queue : queue[i] = queue[j] => i = j
    /\ reply[Root] = "idle" => ~ isProcessing /\ \A n \in Node : reply[n] = "idle"

(* What a step does to the states of the nodes. *)
NodeStatesStep ==
    \A m \in Node :
        \/ state'[m] = state[m]
        \/ m \in nodes /\ state'[m] \in {"IN_PROGRESS", "COMPLETED", "ERROR"}

LEMMA UpdateStateEffect ==
  ASSUME TypeOK, NEW n \in Node, NEW st \in [Node -> NodeState], NEW s
  PROVE  \A m \in Node : \/ UpdateState(st, n, s)[m] = st[m]
                         \/ m = n /\ n \in nodes /\ UpdateState(st, n, s)[m] = s
BY DEF UpdateState

LEMMA MarkNodeErrorEffect ==
  ASSUME TypeOK, NEW n \in Node
  PROVE  \A m \in Node : \/ MarkNodeError(n)[m] = state[m]
                         \/ m \in nodes /\ MarkNodeError(n)[m] = "ERROR"
<1> DEFINE marked == {n} \cup PendingChildren(n)
<1>1. PendingChildren(n) \subseteq nodes
  BY DEF PendingChildren
<1>2. CASE registered /\ n \in hasTree \cap nodes
  <2>1. marked \subseteq nodes
    BY <1>1, <1>2
  <2>2. MarkNodeError(n) = [m \in Node |-> IF m \in marked THEN "ERROR" ELSE state[m]]
    BY <1>2 DEF MarkNodeError
  <2> HIDE DEF marked
  <2> QED
    BY <2>1, <2>2
<1>3. CASE ~ (registered /\ n \in hasTree \cap nodes)
  BY <1>3 DEF MarkNodeError
<1> QED
  BY <1>2, <1>3

LEMMA TaskMovesStates ==
  ASSUME TypeOK, NEW n \in Node, TaskMoves(n)
  PROVE  /\ NodeStatesStep
         /\ \A m \in Node \ {n} : state'[m] = state[m] \/ state'[m] = "ERROR"
<1>1. CASE TaskStart(n)
  BY <1>1 DEF TaskStart, NodeStatesStep, TypeOK
<1>2. CASE TaskRefused(n) \/ TaskUnwinds(n) \/ SessionInfo(n)
  <2>1. \E s \in {"IN_PROGRESS", "ERROR"} : state' = UpdateState(state, n, s)
    BY <1>2 DEF TaskRefused, TaskUnwinds, SessionInfo
  <2>2. state \in [Node -> NodeState]
    BY DEF TypeOK
  <2> QED
    BY <2>1, <2>2, UpdateStateEffect DEF NodeStatesStep
<1>3. CASE ErrorEvent(n) \/ TaskFails(n)
  <2>1. state' = MarkNodeError(n)
    BY <1>3 DEF ErrorEvent, TaskFails
  <2> QED
    BY <2>1, MarkNodeErrorEffect DEF NodeStatesStep
<1>4. CASE TaskDiscarded(n)
  BY <1>4 DEF TaskDiscarded, treeVars, NodeStatesStep
<1>5. ASSUME NEW ok \in BOOLEAN, Exit(n, ok)
      PROVE  /\ NodeStatesStep
             /\ \A m \in Node \ {n} : state'[m] = state[m] \/ state'[m] = "ERROR"
  <2> DEFINE afterError == IF ok THEN state ELSE MarkNodeError(n)
  <2>1. afterError \in [Node -> NodeState]
    BY MarkNodeErrorType DEF TypeOK
  <2>2. \A m \in Node : afterError[m] = state[m] \/ (m \in nodes /\ afterError[m] = "ERROR")
    BY MarkNodeErrorEffect
  <2>3. state' = IF n \in captured THEN UpdateState(afterError, n, "COMPLETED") ELSE afterError
    BY <1>5 DEF Exit
  <2> HIDE DEF afterError
  <2>4. \A m \in Node : \/ UpdateState(afterError, n, "COMPLETED")[m] = afterError[m]
                        \/ /\ m = n /\ n \in nodes
                           /\ UpdateState(afterError, n, "COMPLETED")[m] = "COMPLETED"
    BY <2>1, UpdateStateEffect
  <2> QED
    BY <2>2, <2>3, <2>4 DEF NodeStatesStep
<1> QED
  BY <1>1, <1>2, <1>3, <1>4, <1>5 DEF TaskMoves

(* A command changes the state of nodes of the tree, to ERROR. *)
StatesOnlyFail ==
    \A m \in Node : state'[m] = state[m] \/ (m \in nodes /\ state'[m] = "ERROR")

LEMMA CommandStates ==
  ASSUME TypeOK, Command
  PROVE  StatesOnlyFail
<1>1. ASSUME NEW n \in Node, CancelNode(n)
      PROVE  StatesOnlyFail
  BY <1>1 DEF CancelNode, TypeOK, StatesOnlyFail
<1>2. ASSUME NEW n \in Node, CancelBranch(n)
      PROVE  StatesOnlyFail
  <2> DEFINE unsettled == {m \in Descendants(n) : state[m] \notin Settled}
  <2>1. unsettled \subseteq nodes
    BY DEF Descendants
  <2>2. state' = [m \in Node |-> IF m \in unsettled THEN "ERROR" ELSE state[m]]
    BY <1>2 DEF CancelBranch
  <2> HIDE DEF unsettled
  <2> QED
    BY <2>1, <2>2 DEF StatesOnlyFail
<1>3. ASSUME CancelTree
      PROVE  StatesOnlyFail
  BY <1>3 DEF CancelTree, StatesOnlyFail
<1>4. ASSUME UNCHANGED state
      PROVE  StatesOnlyFail
  BY <1>4 DEF StatesOnlyFail
<1> QED
  BY <1>1, <1>2, <1>3, <1>4
  DEF Command, StopAll, RemoveTree, ClearAll, ReplaceTreeQueue, RemoveBranch,
      NothingToRemove, treeVars

(* What a command does to the tasks, the queue and the tree. *)
LEMMA CommandEffect ==
  ASSUME TypeOK, Command
  PROVE  /\ nodes' \subseteq nodes /\ (registered' => registered)
         /\ UNCHANGED <<parent, reply, currentTask>>
         /\ (isProcessing' => isProcessing /\ currentNode' = currentNode)
         /\ queue' \in {queue, << >>} \/ \E S : queue' = Without(queue, S)
         /\ task' \in {task, CancelCurrentTask}
<1>1. ASSUME NEW n \in Node, CancelNode(n) \/ CancelBranch(n)
      PROVE  /\ UNCHANGED <<registered, nodes, parent, reply, isProcessing, currentNode, currentTask>>
             /\ \E S : queue' = Without(queue, S)
             /\ task' \in {task, CancelCurrentTask}
  BY <1>1 DEF CancelNode, CancelBranch
<1>2. ASSUME StopAll \/ RemoveTree \/ ClearAll
      PROVE  /\ UNCHANGED <<nodes, parent, reply, currentTask>> /\ (registered' => registered)
             /\ ~ isProcessing' /\ queue' = << >> /\ task' = CancelCurrentTask
  BY <1>2 DEF StopAll, RemoveTree, ClearAll, CancelTree
<1>3. ASSUME NEW n \in Node, RemoveBranch(n) \/ NothingToRemove(n) \/ ReplaceTreeQueue
      PROVE  /\ UNCHANGED <<parent, reply, queueVars, task>>
             /\ nodes' \subseteq nodes /\ (registered' => registered)
  BY <1>3 DEF RemoveBranch, NothingToRemove, ReplaceTreeQueue, treeVars
<1> QED
  BY <1>1, <1>2, <1>3, NodeAssumption DEF Command, queueVars

Distinct(q) == \A i, j \in DOMAIN q : q[i] = q[j] => i = j

LEMMA AppendDistinct ==
  ASSUME NEW M, NEW q \in Seq(M), NEW e \in M, Distinct(q), \A i \in DOMAIN q : q[i] # e
  PROVE  Distinct(Append(q, e))
BY DEF Distinct

LEMMA TailDistinct ==
  ASSUME NEW M, NEW q \in Seq(M), q # << >>, Distinct(q)
  PROVE  /\ Distinct(Tail(q))
         /\ \A i \in DOMAIN Tail(q) : Tail(q)[i] # Head(q)
<1>1. /\ Len(q) \in Nat \ {0} /\ DOMAIN q = 1 .. Len(q) /\ Head(q) = q[1]
      /\ DOMAIN Tail(q) = 1 .. Len(q) - 1
      /\ \A i \in DOMAIN Tail(q) : Tail(q)[i] = q[i + 1]
  OBVIOUS
<1>2. \A i \in DOMAIN Tail(q) : i \in Int /\ i + 1 \in DOMAIN q /\ i + 1 # 1 /\ 1 \in DOMAIN q
  BY <1>1
<1> QED
  BY <1>1, <1>2 DEF Distinct

LEMMA LifeInvInductive ==
  ASSUME TypeOK, LifeInv, [Next]_vars
  PROVE  LifeInv'
<1> USE DEF LifeInv
<1>0. Distinct(queue)
  BY DEF Distinct
<1>1. CASE NewConversation
  <2>1. \A n \in Node : /\ task[n] = "none" /\ state[n] = "absent" /\ reply[n] = "idle"
                        /\ n \notin Queued
    BY <1>1 DEF NewConversation
  <2>2. queue' = queue /\ task' = [task EXCEPT ![Root] = "created"]
    BY <1>1, EnqueueAndStartEffect, NodeAssumption DEF NewConversation
  <2>3. Queued' = Queued /\ Queued \subseteq Node
    BY <2>2 DEF Queued, TypeOK
  <2>4. /\ nodes' = {Root} /\ state' = [state EXCEPT ![Root] = "PENDING"]
        /\ reply' = [reply EXCEPT ![Root] = "over"]
    BY <1>1 DEF NewConversation
  <2>5. reply'[Root] = "over" /\ \A n \in Node : n # Root => n \notin nodes'
                /\ state'[n] = "absent" /\ task'[n] = "none" /\ n \notin Queued'
    BY <2>1, <2>2, <2>3, <2>4, NodeAssumption DEF TypeOK
  <2>6. Queued' = {}
    BY <2>1, <2>3
  <2> QED
    BY <1>0, <2>2, <2>5, <2>6 DEF Distinct
<1>2. ASSUME NEW n \in Node, Incoming(n) PROVE LifeInv'
  <2>1. ASSUME NEW p \in Node, ReplyArrives(n, p) PROVE LifeInv'
    <3>1. reply[Root] # "idle"
      BY <2>1 DEF ReplyArrives
    <3> QED
      BY <2>1, <3>1, NodeAssumption DEF ReplyArrives, TypeOK, queueVars, Queued
  <2>2. CASE ReplyAdded(n)
    <3>1. /\ n \notin Queued /\ task[n] = "none" /\ reply[Root] # "idle"
          /\ \A i \in DOMAIN queue : queue[i] # n
      BY <2>2 DEF ReplyAdded, Queued
    <3>2. /\ nodes' = nodes \cup {n} /\ state' = [state EXCEPT ![n] = "PENDING"]
          /\ reply' = [reply EXCEPT ![n] = "over"] /\ EnqueueAndStart(n)
      BY <2>2 DEF ReplyAdded
    <3>3. reply'[Root] # "idle" /\ reply'[n] = "over"
      BY <3>1, <3>2, NodeAssumption DEF TypeOK
    <3>4. CASE isProcessing
      <4>1. Queued' \subseteq Queued \cup {n} /\ queue' = Append(queue, n) /\ task' = task
        BY <3>2, <3>4, EnqueueAndStartEffect
      <4>2. Distinct(queue')
        BY <1>0, <3>1, <4>1, AppendDistinct DEF TypeOK
      <4> QED
        BY <3>1, <3>2, <3>3, <4>1, <4>2 DEF Distinct, TypeOK
    <3>5. CASE ~ isProcessing
      <4>1. queue' = queue /\ task' = [task EXCEPT ![n] = "created"]
        BY <3>2, <3>5, EnqueueAndStartEffect
      <4>2. Queued' = Queued /\ Queued \subseteq Node
        BY <4>1 DEF Queued, TypeOK
      <4> QED
        BY <3>1, <3>2, <3>3, <4>1, <4>2 DEF TypeOK
    <3> QED
      BY <3>4, <3>5
  <2>3. CASE ReplyLost(n)
    <3>1. reply[Root] # "idle" /\ reply' = [reply EXCEPT ![n] = "over"]
      BY <2>3 DEF ReplyLost
    <3> QED
      BY <2>3, <3>1, NodeAssumption DEF ReplyLost, TypeOK, treeVars, queueVars, Queued
  <2> QED
    BY <1>2, <2>1, <2>2, <2>3 DEF Incoming
<1>3. ASSUME NEW n \in Node, TaskStep(n) PROVE LifeInv'
  <2>1. CASE TaskSkip(n) \/ TaskEnds(n)
    <3>1. /\ ProcessNext(n) /\ UNCHANGED <<treeVars, reply>>
          /\ task[n] # "none" /\ reply[n] = "over" /\ reply[Root] # "idle" /\ n \notin Queued
      BY <2>1 DEF TaskSkip, TaskEnds
    <3>2. CASE queue = << >>
      <4>1. queue' = << >> /\ task'[n] = "done" /\ \A m \in Node \ {n} : task'[m] = task[m]
        BY <3>1, <3>2, ProcessNextEffect
      <4>2. Queued' = {}
        BY <4>1 DEF Queued
      <4> QED
        BY <3>1, <4>1, <4>2 DEF treeVars
    <3>3. CASE queue # << >>
      <4>1. /\ queue' = Tail(queue) /\ Queued' \subseteq Queued /\ Head(queue) \in Queued
            /\ \A m \in Node \ {n} : task'[m] = task[m] \/ m = Head(queue)
        BY <3>1, <3>3, ProcessNextEffect
      <4>2. Distinct(queue') /\ \A i \in DOMAIN queue' : queue'[i] # Head(queue)
        BY <1>0, <3>3, <4>1, TailDistinct DEF TypeOK
      <4>3. Head(queue) \notin Queued' /\ n \notin Queued'
        BY <3>1, <4>1, <4>2 DEF Queued
      <4>4. Queued' \subseteq Node /\ \A m \in Queued' : task'[m] = "none"
        <5>1. Queued \subseteq Node
          BY DEF Queued, TypeOK
        <5> QED
          BY <4>1, <4>3, <5>1
      <4>5. reply[Head(queue)] = "over"
        BY <4>1 DEF Queued, TypeOK
      <4>6. \A m \in Node : reply[m] # "over" => task'[m] = "none" /\ m \notin Queued'
        BY <3>1, <4>1, <4>5
      <4> QED
        BY <3>1, <4>2, <4>4, <4>6 DEF Distinct, treeVars
    <3> QED
      BY <3>2, <3>3
  <2>2. CASE TaskMoves(n)
    <3>1. /\ UNCHANGED <<nodes, queue, isProcessing, reply>> /\ task[n] # "none"
          /\ \A m \in Node \ {n} : task'[m] = task[m]
      BY <2>2, TaskMovesEffect DEF queueVars
    <3>2. \A m \in Node : state'[m] = state[m] \/ m \in nodes
      BY <2>2, TaskMovesStates DEF NodeStatesStep
    <3>3. Queued' = Queued /\ Queued \subseteq Node
      BY <3>1 DEF Queued, TypeOK
    <3> QED
      BY <3>1, <3>2, <3>3
  <2> QED
    BY <1>3, <2>1, <2>2, TaskStepCases
<1>4. CASE Command
  <2>1. /\ nodes' \subseteq nodes /\ UNCHANGED reply /\ (isProcessing' => isProcessing)
        /\ queue' \in {queue, << >>} \/ \E S : queue' = Without(queue, S)
        /\ task' \in {task, CancelCurrentTask}
    BY <1>4, CommandEffect
  <2>2. \A m \in Node : state'[m] = state[m] \/ m \in nodes
    BY <1>4, CommandStates DEF StatesOnlyFail
  <2>3. \A m \in Node : task[m] = "none" => task'[m] = "none"
    BY <2>1 DEF CancelCurrentTask, TypeOK
  <2>4. Queued' \subseteq Queued /\ Queued \subseteq Node /\ Distinct(queue')
    <3>1. Queued \subseteq Node
      BY DEF Queued, TypeOK
    <3>2. CASE queue' \in {queue, << >>}
      BY <1>0, <3>1, <3>2 DEF Queued, Distinct
    <3>3. ASSUME NEW S, queue' = Without(queue, S)
          PROVE  Queued' \subseteq Queued /\ Distinct(queue')
      <4>1. Distinct(Without(queue, S))
        BY <1>0, WithoutKeeps DEF Distinct, TypeOK
      <4> QED
        BY <3>3, <4>1, WithoutEffect
    <3> QED
      BY <2>1, <3>1, <3>2, <3>3
  <2> QED
    BY <2>1, <2>2, <2>3, <2>4 DEF Distinct
<1>5. CASE UNCHANGED vars
  BY <1>5 DEF vars, treeVars, queueVars, cmdVars, Queued
<1> QED
  BY <1>1, <1>2, <1>3, <1>4, <1>5 DEF Next

LEMMA InitLife == Init => LifeInv
<1> SUFFICES ASSUME Init PROVE LifeInv
  OBVIOUS
<1>1. Queued = {}
  BY DEF Init, Queued
<1> QED
  BY <1>1 DEF Init, LifeInv

-----------------------------------------------------------------------------
(* The node and the task that a busy tree names belong together. *)
BusyInv ==
    /\ ~ isProcessing => currentNode = NoNode
    /\ isProcessing => currentNode \in Node /\ reply[currentNode] = "over"
    /\ isProcessing /\ currentNode \in nodes => currentTask = currentNode
    /\ StallExplained

LEMMA BusyInvInductive ==
  ASSUME TypeOK, LifeInv, BusyInv, [Next]_vars
  PROVE  BusyInv'
<1> USE DEF BusyInv, StallExplained
<1>1. CASE NewConversation
  <2>1. ~ isProcessing /\ reply'[Root] = "over"
    BY <1>1, NodeAssumption DEF NewConversation, LifeInv, TypeOK
  <2>2. isProcessing' /\ currentNode' = Root /\ currentTask' = Root /\ Live' = Live \cup {Root}
    BY <1>1, <2>1, EnqueueAndStartEffect, NodeAssumption DEF NewConversation
  <2> QED
    BY <2>1, <2>2, NodeAssumption
<1>2. ASSUME NEW n \in Node, Incoming(n) PROVE BusyInv'
  <2>1. ASSUME NEW p \in Node, ReplyArrives(n, p) PROVE BusyInv'
    BY <2>1 DEF ReplyArrives, queueVars, Live, TypeOK
  <2>2. CASE ReplyAdded(n)
    <3>1. /\ nodes' = nodes \cup {n} /\ EnqueueAndStart(n)
          /\ reply[n] # "over" /\ reply' = [reply EXCEPT ![n] = "over"]
      BY <2>2 DEF ReplyAdded
    <3>2. CASE isProcessing
      <4>1. Live' = Live /\ isProcessing' /\ UNCHANGED <<currentNode, currentTask, task>>
        BY <3>1, <3>2, EnqueueAndStartEffect
      <4> QED
        BY <3>1, <3>2, <4>1 DEF TypeOK
    <3>3. CASE ~ isProcessing
      <4>1. isProcessing' /\ currentNode' = n /\ currentTask' = n /\ Live' = Live \cup {n}
        BY <3>1, <3>3, EnqueueAndStartEffect
      <4> QED
        BY <3>1, <4>1 DEF TypeOK
    <3> QED
      BY <3>2, <3>3
  <2>3. CASE ReplyLost(n)
    BY <2>3 DEF ReplyLost, treeVars, queueVars, Live, TypeOK
  <2> QED
    BY <1>2, <2>1, <2>2, <2>3 DEF Incoming
<1>3. ASSUME NEW n \in Node, TaskStep(n) PROVE BusyInv'
  <2>1. CASE TaskSkip(n) \/ TaskEnds(n)
    <3>1. ProcessNext(n) /\ UNCHANGED <<nodes, reply>>
      BY <2>1 DEF TaskSkip, TaskEnds, treeVars
    <3>2. CASE queue = << >>
      <4>1. ~ isProcessing' /\ currentNode' = NoNode
        BY <3>1, <3>2 DEF ProcessNext
      <4> QED
        BY <4>1
    <3>3. CASE queue # << >>
      <4>1. /\ isProcessing' /\ currentNode' = Head(queue) /\ Head(queue) \in Queued
            /\ Head(queue) \in nodes => currentTask' = Head(queue) /\ Head(queue) \in Live'
        BY <3>1, <3>3, ProcessNextEffect
      <4>2. Head(queue) \in Node /\ reply[Head(queue)] = "over"
        BY <4>1 DEF LifeInv, Queued, TypeOK
      <4> QED
        BY <3>1, <4>1, <4>2
    <3> QED
      BY <3>2, <3>3
  <2>2. CASE TaskMoves(n)
    <3>1. /\ Live' = Live /\ UNCHANGED <<nodes, isProcessing, currentNode, currentTask, reply>>
          /\ \A m \in Node : task[m] \in {"doomed", "never"} => task'[m] \in {"doomed", "never"}
      BY <2>2, TaskMovesEffect DEF queueVars
    <3> QED
      BY <3>1
  <2> QED
    BY <1>3, <2>1, <2>2, TaskStepCases
<1>4. CASE Command
  <2>1. /\ nodes' \subseteq nodes /\ UNCHANGED <<reply, currentTask>>
        /\ (isProcessing' => isProcessing /\ currentNode' = currentNode)
        /\ task' \in {task, CancelCurrentTask}
    BY <1>4, CommandEffect
  <2>2. ~ isProcessing' => currentNode' = NoNode
    BY <1>4 DEF Command, CancelNode, CancelBranch, RemoveBranch, NothingToRemove, StopAll,
                RemoveTree, ClearAll, CancelTree, ReplaceTreeQueue, queueVars
  <2>3. CASE task' = task
    BY <2>1, <2>2, <2>3 DEF Live
  <2>4. CASE task' = CancelCurrentTask
    <3>1. /\ \A n \in Live \ Live' : n = currentTask /\ task'[n] = "doomed"
          /\ \A n \in Node : n \notin Live => task'[n] = task[n]
      BY <2>4, CancelCurrentTaskEffect
    <3> QED
      BY <2>1, <2>2, <3>1
  <2> QED
    BY <2>1, <2>3, <2>4
<1>5. CASE UNCHANGED vars
  BY <1>5 DEF vars, treeVars, queueVars, cmdVars, Live
<1> QED
  BY <1>1, <1>2, <1>3, <1>4, <1>5 DEF Next

LEMMA InitBusy == Init => BusyInv
BY DEF Init, BusyInv, StallExplained

(* A stalled tree has one of the two known causes: no other schedule of      *)
(* replies, tasks and commands leaves a tree busy with nobody working.       *)
THEOREM StallExplainedCorrect == Spec => []StallExplained
<1>1. TypeOK /\ LifeInv /\ BusyInv /\ [Next]_vars => LifeInv' /\ BusyInv'
  BY LifeInvInductive, BusyInvInductive
<1>2. BusyInv => StallExplained
  BY DEF BusyInv
<1> QED
  BY <1>1, <1>2, InitLife, InitBusy, TypeCorrect, PTL DEF Spec

-----------------------------------------------------------------------------
(* No message gets a second task: what makes it inductive is that a message  *)
(* is never both in the queue and with a task, and never twice in the queue. *)
THEOREM NeverReprocessedCorrect == Spec => NeverReprocessed
<1> DEFINE A == \A n \in Node :
                    task[n] # "none" /\ task[n] # "created" => task'[n] # "created"
<1>1. TypeOK /\ LifeInv /\ [Next]_vars => LifeInv' /\ [A]_vars
  <2> SUFFICES ASSUME TypeOK, LifeInv, Next PROVE A
    BY LifeInvInductive
  <2> SUFFICES ASSUME NEW m \in Node, task[m] # "none", task'[m] = "created"
               PROVE  task[m] = "created"
    OBVIOUS
  <2>1. ASSUME NEW n \in Node, EnqueueAndStart(n), task[n] = "none"
        PROVE  task[m] = "created"
    BY <2>1 DEF EnqueueAndStart, TypeOK
  <2>2. CASE NewConversation
    <3>1. task[Root] = "none"
      BY <2>2, NodeAssumption DEF NewConversation, LifeInv
    <3> QED
      BY <2>1, <2>2, <3>1, NodeAssumption DEF NewConversation
  <2>3. ASSUME NEW n \in Node, Incoming(n) PROVE task[m] = "created"
    <3>1. CASE ReplyAdded(n)
      <4>1. task[n] = "none"
        BY <3>1 DEF ReplyAdded, LifeInv
      <4> QED
        BY <2>1, <3>1, <4>1 DEF ReplyAdded
    <3> QED
      BY <2>3, <3>1 DEF Incoming, ReplyArrives, ReplyLost
  <2>4. ASSUME NEW n \in Node, TaskStep(n) PROVE task[m] = "created"
    <3>1. CASE TaskSkip(n) \/ TaskEnds(n)
      <4>1. ProcessNext(n) /\ task[n] # "none"
        BY <3>1 DEF TaskSkip, TaskEnds
      <4>2. queue # << >> => Head(queue) \in Queued
        BY <4>1, ProcessNextEffect
      <4>3. queue # << >> => task[Head(queue)] = "none"
        BY <4>2 DEF LifeInv
      <4>4. CASE m = n
        <5>1. task'[n] = "done"
          BY <4>1, <4>3, ProcessNextEffect
        <5> QED
          BY <4>4, <5>1
      <4>5. CASE m # n
        <5>1. task'[m] = task[m]
          BY <4>1, <4>3, <4>5, ProcessNextEffect
        <5> QED
          BY <5>1
      <4> QED
        BY <4>4, <4>5
    <3>2. CASE TaskMoves(n)
      <4>1. task'[n] # "created" /\ \A k \in Node \ {n} : task'[k] = task[k]
        BY <3>2, TaskMovesEffect
      <4> QED
        BY <4>1
    <3> QED
      BY <2>4, <3>1, <3>2, TaskStepCases
  <2>5. CASE Command
    <3>1. task' \in {task, CancelCurrentTask}
      BY <2>5, CommandEffect
    <3> QED
      BY <3>1 DEF CancelCurrentTask, TypeOK
  <2> QED
    BY <2>2, <2>3, <2>4, <2>5 DEF Next
<1> QED
  BY <1>1, InitLife, TypeCorrect, PTL DEF Spec, NeverReprocessed

-----------------------------------------------------------------------------
(* A message that was stopped before its turn never reaches the CLI: nothing *)
(* makes a node that failed PENDING again before its task has looked at it.  *)
THEOREM StoppedNeverRunsCorrect == Spec => StoppedNeverRuns
<1> DEFINE A == \A n \in Node : Stopped(n) => Stopped(n)' \/ task'[n] \in {"done", "doomed"}
<1>1. TypeOK /\ LifeInv /\ [Next]_vars => LifeInv' /\ [A]_vars
  <2> SUFFICES ASSUME TypeOK, LifeInv, Next, NEW m \in Node, Stopped(m)
               PROVE  Stopped(m)' \/ task'[m] \in {"done", "doomed"}
    BY LifeInvInductive
  <2> USE DEF Stopped
  <2>0. reply[m] = "over"
    BY DEF LifeInv
  <2>1. CASE NewConversation
    <3>1. m # Root /\ EnqueueAndStart(Root) /\ state' = [state EXCEPT ![Root] = "PENDING"]
      BY <2>0, <2>1 DEF NewConversation
    <3> QED
      BY <3>1 DEF EnqueueAndStart, TypeOK
  <2>2. ASSUME NEW n \in Node, Incoming(n)
        PROVE  Stopped(m)' \/ task'[m] \in {"done", "doomed"}
    <3>1. CASE ReplyAdded(n)
      <4>1. m # n /\ EnqueueAndStart(n) /\ state' = [state EXCEPT ![n] = "PENDING"]
        BY <2>0, <3>1 DEF ReplyAdded
      <4> QED
        BY <4>1 DEF EnqueueAndStart, TypeOK
    <3> QED
      BY <2>2, <3>1 DEF Incoming, ReplyArrives, ReplyLost, treeVars
  <2>3. ASSUME NEW n \in Node, TaskStep(n)
        PROVE  Stopped(m)' \/ task'[m] \in {"done", "doomed"}
    <3>1. CASE TaskSkip(n) \/ TaskEnds(n)
      <4>1. ProcessNext(n) /\ state' = state
        BY <3>1 DEF TaskSkip, TaskEnds, treeVars
      <4>2. m # n => task'[m] \in {task[m], "created"}
        BY <4>1, ProcessNextEffect
      <4>3. m = n => task'[m] \in {"done", "created"}
        BY <4>1 DEF ProcessNext, TypeOK
      <4> QED
        BY <4>1, <4>2, <4>3
    <3>2. CASE TaskMoves(n)
      <4>1. m # n
        BY <3>2 DEF TaskMoves, TaskStart, TaskRefused, SessionInfo, ErrorEvent, TaskFails,
                    TaskUnwinds, TaskDiscarded, Exit
      <4>2. task'[m] = task[m] /\ state'[m] = "ERROR"
        BY <3>2, <4>1, TaskMovesEffect, TaskMovesStates
      <4> QED
        BY <4>2
    <3> QED
      BY <2>3, <3>1, <3>2, TaskStepCases
  <2>4. CASE Command
    <3>1. state'[m] = "ERROR"
      BY <2>4, CommandStates DEF StatesOnlyFail
    <3>2. task' \in {task, CancelCurrentTask}
      BY <2>4, CommandEffect
    <3> QED
      BY <3>1, <3>2 DEF CancelCurrentTask, TypeOK
  <2> QED
    BY <2>1, <2>2, <2>3, <2>4 DEF Next
<1> QED
  BY <1>1, InitLife, TypeCorrect, PTL DEF Spec, StoppedNeverRuns

-----------------------------------------------------------------------------
(* The nodes of a tree are closed under parents: the branch that /clear      *)
(* removes is downward closed, and a reply is checked again on insertion.    *)
THEOREM TreeConnectedCorrect == Spec => []TreeConnected
<1>1. Init => TreeConnected
  BY DEF Init, TreeConnected
<1>2. TypeOK /\ LifeInv /\ TreeConnected /\ [Next]_vars => LifeInv' /\ TreeConnected'
  <2> SUFFICES ASSUME TypeOK, LifeInv, TreeConnected, [Next]_vars PROVE TreeConnected'
    BY LifeInvInductive
  <2>1. CASE UNCHANGED <<nodes, parent>>
    BY <2>1 DEF TreeConnected
  <2>2. CASE NewConversation
    BY <2>2 DEF NewConversation, TreeConnected
  <2>3. ASSUME NEW n \in Node, NEW p \in Node, ReplyArrives(n, p) PROVE TreeConnected'
    <3>1. n \notin nodes /\ nodes' = nodes /\ parent' = [parent EXCEPT ![n] = p]
      BY <2>3 DEF ReplyArrives, LifeInv
    <3> QED
      BY <3>1 DEF TreeConnected, TypeOK
  <2>4. ASSUME NEW n \in Node, ReplyAdded(n) PROVE TreeConnected'
    BY <2>4 DEF ReplyAdded, TreeConnected
  <2>5. ASSUME NEW b \in Node, RemoveBranch(b) PROVE TreeConnected'
    <3>1. nodes' = nodes \ Descendants(b) /\ parent' = parent
      BY <2>5 DEF RemoveBranch
    <3>2. ASSUME NEW n \in nodes, parent[n] \in Descendants(b)
          PROVE  n \in Descendants(b)
      BY <3>2 DEF Descendants
    <3> QED
      BY <3>1, <3>2 DEF TreeConnected
  <2>6. ASSUME NEW n \in Node, TaskStep(n) PROVE TreeConnected'
    <3>1. UNCHANGED <<nodes, parent>>
      BY <2>6 DEF TaskStep, TaskSkip, TaskStart, TaskRefused, SessionInfo, ErrorEvent, Exit,
                  TaskFails, TaskUnwinds, TaskEnds, TaskDiscarded, treeVars
    <3> QED
      BY <2>1, <3>1
  <2>7. CASE Command
    <3>1. (\E b \in Node : RemoveBranch(b)) \/ UNCHANGED <<nodes, parent>>
      BY <2>7 DEF Command, CancelNode, CancelBranch, NothingToRemove, StopAll, RemoveTree,
                  ClearAll, ReplaceTreeQueue, treeVars
    <3> QED
      BY <2>1, <2>5, <3>1
  <2> QED
    BY <2>1, <2>2, <2>3, <2>4, <2>6, <2>7
    DEF Next, Incoming, ReplyLost, treeVars, vars
<1> QED
  BY <1>1, <1>2, InitLife, TypeCorrect, PTL DEF Spec

-----------------------------------------------------------------------------
(* Removing the members of S from the queue keeps all the others waiting. *)
LEMMA WithoutOthers ==
  ASSUME TypeOK, NEW S, queue' = Without(queue, S), NEW m \in Queued, m \notin S
  PROVE  m \in Queued'
BY WithoutKeeps DEF Queued, TypeOK

LEMMA PendingCommand ==
  ASSUME TypeOK, BusyInv, PendingAccounted, Command
  PROVE  PendingAccounted'
<1> SUFFICES ASSUME registered', NEW m \in nodes', state'[m] = "PENDING"
             PROVE  m \in Queued' \/ task'[m] = "created"
  BY DEF PendingAccounted
<1>1. registered /\ m \in nodes /\ m \in Node /\ state[m] = "PENDING"
  BY CommandEffect, CommandStates DEF StatesOnlyFail, TypeOK
<1>2. m \in Queued \/ task[m] = "created"
  BY <1>1 DEF PendingAccounted
<1>3. currentNode = m => currentTask = m
  BY <1>1, NodeAssumption DEF BusyInv
<1>4. ASSUME NEW n \in Node, CancelNode(n) PROVE m \in Queued' \/ task'[m] = "created"
  <2>1. m # n
    BY <1>4 DEF CancelNode, TypeOK
  <2>2. m \in Queued => m \in Queued'
    BY <1>4, <2>1, WithoutOthers DEF CancelNode
  <2>3. currentNode = n => currentTask = n
    BY <1>4, NodeAssumption DEF BusyInv, CancelNode
  <2>4. task'[m] = task[m]
    BY <1>1, <1>4, <2>1, <2>3 DEF CancelNode, CancelCurrentTask
  <2> QED
    BY <1>2, <2>2, <2>4
<1>5. ASSUME NEW b \in Node, CancelBranch(b) PROVE m \in Queued' \/ task'[m] = "created"
  <2> DEFINE unsettled == {n \in Descendants(b) : state[n] \notin Settled}
  <2>1. /\ queue' = Without(queue, unsettled \ {currentNode})
        /\ state' = [n \in Node |-> IF n \in unsettled THEN "ERROR" ELSE state[n]]
        /\ task' = IF currentNode \in unsettled THEN CancelCurrentTask ELSE task
    BY <1>5 DEF CancelBranch
  <2>2. unsettled \subseteq nodes
    BY DEF Descendants
  <2> HIDE DEF unsettled
  <2>3. m \notin unsettled
    BY <1>1, <2>1
  <2>4. m \in Queued => m \in Queued'
    BY <2>1, <2>3, WithoutOthers
  <2>5. currentNode \in unsettled => currentTask = currentNode
    BY <2>2, NodeAssumption DEF BusyInv, TypeOK
  <2>6. task'[m] = task[m]
    BY <1>1, <2>1, <2>3, <2>5 DEF CancelCurrentTask
  <2> QED
    BY <1>2, <2>4, <2>6
<1>6. CASE StopAll \/ ClearAll \/ RemoveTree
  <2>1. state'[m] = "ERROR"
    BY <1>1, <1>6 DEF StopAll, ClearAll, RemoveTree, CancelTree, Settled
  <2> QED
    BY <2>1
<1>7. CASE UNCHANGED <<queue, task>>
  BY <1>2, <1>7 DEF Queued
<1> QED
  BY <1>4, <1>5, <1>6, <1>7
  DEF Command, RemoveBranch, NothingToRemove, ReplaceTreeQueue, queueVars

(* No accepted message is forgotten: a PENDING node of a known tree waits in *)
(* the queue or has a task about to start, whatever else is stopped, cleared *)
(* or removed around it.                                                     *)
THEOREM PendingAccountedCorrect == Spec => []PendingAccounted
<1>1. Init => PendingAccounted
  BY DEF Init, PendingAccounted
<1>2. TypeOK /\ LifeInv /\ BusyInv /\ PendingAccounted /\ [Next]_vars
        => LifeInv' /\ BusyInv' /\ PendingAccounted'
  <2> SUFFICES ASSUME TypeOK, LifeInv, BusyInv, PendingAccounted, [Next]_vars
               PROVE  PendingAccounted'
    BY LifeInvInductive, BusyInvInductive
  <2>1. ASSUME NEW n \in Node, n \notin nodes, EnqueueAndStart(n),
               nodes' = nodes \cup {n} \/ nodes' = {n},
               registered \/ nodes' = {n},
               state' = [state EXCEPT ![n] = "PENDING"]
        PROVE  PendingAccounted'
    <3> SUFFICES ASSUME NEW m \in nodes', state'[m] = "PENDING"
                 PROVE  m \in Queued' \/ task'[m] = "created"
      BY DEF PendingAccounted
    <3>1. m # n => m \in Queued \/ task[m] = "created"
      BY <2>1 DEF PendingAccounted, TypeOK
    <3>2. CASE isProcessing
      <4>1. queue' = Append(queue, n) /\ task' = task
        BY <2>1, <3>2, EnqueueAndStartEffect
      <4>2. /\ \A i \in DOMAIN queue : i \in DOMAIN queue' /\ queue'[i] = queue[i]
            /\ Len(queue) + 1 \in DOMAIN queue' /\ queue'[Len(queue) + 1] = n
        BY <4>1 DEF TypeOK
      <4>3. Queued \subseteq Queued' /\ n \in Queued'
        BY <4>2 DEF Queued
      <4> QED
        BY <3>1, <4>1, <4>3
    <3>3. CASE ~ isProcessing
      <4>1. queue' = queue /\ task' = [task EXCEPT ![n] = "created"]
        BY <2>1, <3>3, EnqueueAndStartEffect
      <4> QED
        BY <2>1, <3>1, <4>1 DEF Queued, TypeOK
    <3> QED
      BY <3>2, <3>3
  <2>2. CASE NewConversation
    <3>1. Root \notin nodes
      BY <2>2, NodeAssumption DEF NewConversation, LifeInv
    <3> QED
      BY <2>1, <2>2, <3>1, NodeAssumption DEF NewConversation
  <2>3. ASSUME NEW n \in Node, Incoming(n) PROVE PendingAccounted'
    <3>1. CASE ReplyAdded(n)
      <4>1. n \notin nodes
        BY <3>1 DEF ReplyAdded, LifeInv
      <4> QED
        BY <2>1, <3>1, <4>1 DEF ReplyAdded
    <3> QED
      BY <2>3, <3>1 DEF Incoming, ReplyArrives, ReplyLost, treeVars, queueVars, Queued,
                        PendingAccounted
  <2>4. ASSUME NEW n \in Node, TaskStep(n) PROVE PendingAccounted'
    <3>1. CASE TaskSkip(n) \/ TaskEnds(n)
      <4>1. /\ ProcessNext(n) /\ UNCHANGED <<registered, nodes, state>>
            /\ task[n] = "created" => state[n] = "ERROR"
        BY <3>1 DEF TaskSkip, TaskEnds, treeVars
      <4> SUFFICES ASSUME registered, NEW m \in nodes, state[m] = "PENDING"
                   PROVE  m \in Queued' \/ task'[m] = "created"
        BY <4>1 DEF PendingAccounted
      <4>2. m \in Node /\ (m \in Queued \/ task[m] = "created")
        BY DEF PendingAccounted, TypeOK
      <4>3. CASE task[m] = "created"
        BY <4>1, <4>2, <4>3, ProcessNextEffect
      <4>4. CASE m \in Queued
        <5>1. queue # << >>
          BY <4>4 DEF Queued
        <5>2. PICK i \in DOMAIN queue : queue[i] = m
          BY <4>4 DEF Queued
        <5>3. CASE i = 1
          <6>1. Head(queue) = m
            BY <5>1, <5>2, <5>3 DEF TypeOK
          <6>2. task' = [task EXCEPT ![n] = "done", ![m] = "created"]
            BY <4>1, <5>1, <6>1 DEF ProcessNext
          <6> QED
            BY <4>2, <6>2 DEF TypeOK
        <5>4. CASE i # 1
          <6>1. queue' = Tail(queue)
            BY <4>1, <5>1, ProcessNextEffect
          <6>2. i - 1 \in DOMAIN queue' /\ queue'[i - 1] = m
            BY <5>1, <5>2, <5>4, <6>1 DEF TypeOK
          <6> QED
            BY <6>2 DEF Queued
        <5> QED
          BY <5>3, <5>4
      <4> QED
        BY <4>2, <4>3, <4>4
    <3>2. CASE TaskMoves(n)
      <4>1. /\ UNCHANGED <<registered, nodes, queue>> /\ NodeStatesStep
            /\ \A k \in Node \ {n} : task'[k] = task[k]
        BY <3>2, TaskMovesEffect, TaskMovesStates DEF queueVars
      <4>2. task[n] = "created" /\ registered /\ n \in nodes => state'[n] = "IN_PROGRESS"
        BY <3>2 DEF TaskMoves, TaskStart, TaskRefused, SessionInfo, ErrorEvent, TaskFails,
                    TaskUnwinds, TaskDiscarded, Exit, TypeOK
      <4>3. nodes \subseteq Node /\ Queued' = Queued
        BY <4>1 DEF TypeOK, Queued
      <4> QED
        BY <4>1, <4>2, <4>3 DEF PendingAccounted, NodeStatesStep
    <3> QED
      BY <2>4, <3>1, <3>2, TaskStepCases
  <2>5. CASE Command
    BY <2>5, PendingCommand
  <2>6. CASE UNCHANGED vars
    BY <2>6 DEF vars, treeVars, queueVars, Queued, PendingAccounted
  <2> QED
    BY <2>2, <2>3, <2>4, <2>5, <2>6 DEF Next
<1> QED
  BY <1>1, <1>2, InitLife, InitBusy, TypeCorrect, PTL DEF Spec

-----------------------------------------------------------------------------
(* What makes ParentFirst inductive: a message replies to one that is in the *)
(* tree already, and stands behind it in the queue.                          *)
ParentInv ==
    /\ \A n \in Node : parent[n] # n
    /\ \A n \in Node : parent[n] # NoNode => reply[parent[n]] = "over"
    /\ \A i, j \in DOMAIN queue : parent[queue[i]] = queue[j] => j < i
    /\ ParentFirst

LEMMA InitParent == Init => ParentInv
<1> SUFFICES ASSUME Init PROVE ParentInv
  OBVIOUS
<1>1. Live = {}
  BY DEF Init, Live, LiveStates
<1> QED
  BY <1>1, NodeAssumption DEF Init, ParentInv, ParentFirst

(* A message that is accepted replies to none that comes later. *)
LEMMA AcceptedParent ==
  ASSUME TypeOK, LifeInv, QueueServed, ParentInv, NEW n \in Node, EnqueueAndStart(n),
         reply[n] # "over", reply' = [reply EXCEPT ![n] = "over"], parent' = parent,
         ~ isProcessing => Live = {}
  PROVE  ParentInv'
<1> USE DEF ParentInv, ParentFirst
<1>1. \A m \in Node : parent[m] # n
  BY NodeAssumption
<1>2. \A m \in Node : parent'[m] # m /\ (parent'[m] # NoNode => reply'[parent'[m]] = "over")
  BY DEF TypeOK
<1>3. CASE isProcessing
  <2>1. Live' = Live /\ queue' = Append(queue, n) /\ Queued' \subseteq Queued \cup {n}
    BY <1>3, EnqueueAndStartEffect
  <2>2. Len(queue) \in Nat /\ DOMAIN queue = 1 .. Len(queue) /\ \A i \in DOMAIN queue : queue[i] \in Node
    BY DEF TypeOK
  <2>3. DOMAIN queue' = 1 .. Len(queue) + 1 /\ queue'[Len(queue) + 1] = n
        /\ \A i \in DOMAIN queue : queue'[i] = queue[i]
    BY <2>1, <2>2 DEF TypeOK
  <2>4. ASSUME NEW i \in DOMAIN queue', NEW j \in DOMAIN queue', parent'[queue'[i]] = queue'[j]
        PROVE  j < i
    <3>1. CASE j \in DOMAIN queue /\ i \in DOMAIN queue
      BY <2>3, <2>4, <3>1
    <3>2. CASE j \in DOMAIN queue /\ i = Len(queue) + 1
      BY <2>2, <3>2
    <3>3. CASE j = Len(queue) + 1
      BY <1>1, <2>2, <2>3, <2>4, <3>3
    <3> QED
      BY <2>2, <2>3, <3>1, <3>2, <3>3
  <2>5. ParentFirst'
    BY <1>1, <2>1 DEF Live
  <2> QED
    BY <1>2, <2>4, <2>5
<1>4. CASE ~ isProcessing
  <2>1. queue = << >>
    BY <1>4 DEF QueueServed
  <2>2. Live' = {n} /\ queue' = queue
    BY <1>4, EnqueueAndStartEffect
  <2>3. Queued' = {}
    BY <2>1, <2>2 DEF Queued
  <2> QED
    BY <1>1, <1>2, <2>1, <2>2, <2>3
<1> QED
  BY <1>3, <1>4

LEMMA ParentInvInductive ==
  ASSUME TypeOK, LifeInv, QueueServed, OneWorkerInv, ParentInv, [Next]_vars
  PROVE  ParentInv'
<1>1. CASE NewConversation
  <2>1. /\ reply[Root] # "over" /\ ~ isProcessing /\ Live = {} /\ parent' = parent
        /\ EnqueueAndStart(Root) /\ reply' = [reply EXCEPT ![Root] = "over"]
    BY <1>1 DEF NewConversation, LifeInv, OneWorkerInv
  <2> QED
    BY <2>1, AcceptedParent, NodeAssumption
<1>2. ASSUME NEW n \in Node, Incoming(n) PROVE ParentInv'
  <2>1. ASSUME NEW p \in Node, ReplyArrives(n, p) PROVE ParentInv'
    <3>1. /\ n \notin Queued /\ n \notin Live /\ reply[n] # "over" /\ reply[p] = "over"
          /\ parent' = [parent EXCEPT ![n] = p] /\ reply' = [reply EXCEPT ![n] = "awaiting"]
          /\ UNCHANGED <<queue, task>>
      BY <2>1 DEF ReplyArrives, LifeInv, Live, LiveStates, queueVars
    <3>2. /\ Live' = Live /\ Live \subseteq Node /\ Queued' = Queued
          /\ \A i \in DOMAIN queue : queue[i] \in Node /\ queue[i] # n
      BY <3>1 DEF Live, Queued, TypeOK
    <3> QED
      BY <3>1, <3>2 DEF ParentInv, ParentFirst, TypeOK
  <2>2. CASE ReplyAdded(n)
    <3>1. /\ reply[n] # "over" /\ registered /\ parent' = parent
          /\ EnqueueAndStart(n) /\ reply' = [reply EXCEPT ![n] = "over"]
      BY <2>2 DEF ReplyAdded
    <3>2. ~ isProcessing => Live = {}
      BY <3>1 DEF OneWorkerInv
    <3> QED
      BY <3>1, <3>2, AcceptedParent
  <2>3. CASE ReplyLost(n)
    BY <2>3 DEF ReplyLost, treeVars, queueVars, Live, Queued, ParentInv, ParentFirst, TypeOK
  <2> QED
    BY <1>2, <2>1, <2>2, <2>3 DEF Incoming
<1>3. ASSUME NEW n \in Node, TaskStep(n) PROVE ParentInv'
  <2>1. CASE TaskSkip(n) \/ TaskEnds(n)
    <3>1. ProcessNext(n) /\ n \in Live /\ UNCHANGED <<parent, reply>>
      BY <2>1 DEF TaskSkip, TaskEnds, treeVars, Live, LiveStates
    <3>2. Live = {n}
      BY <3>1 DEF OneWorkerInv, OneWorker
    <3>3. CASE queue = << >>
      <4>1. queue' = << >> /\ Live' = {}
        BY <3>1, <3>2, <3>3, ProcessNextEffect
      <4> QED
        BY <3>1, <4>1 DEF ParentInv, ParentFirst
    <3>4. CASE queue # << >>
      <4>1. queue' = Tail(queue) /\ Live' \subseteq {Head(queue)}
        BY <3>1, <3>2, <3>4, ProcessNextEffect
      <4>2. /\ Len(queue) \in Nat \ {0} /\ DOMAIN queue = 1 .. Len(queue) /\ Head(queue) = queue[1]
            /\ DOMAIN queue' = 1 .. Len(queue) - 1
            /\ \A i \in DOMAIN queue' : queue'[i] = queue[i + 1]
        BY <3>4, <4>1 DEF TypeOK
      <4>3. \A i \in DOMAIN queue' : i \in Nat \ {0} /\ i + 1 \in DOMAIN queue
        BY <4>2
      <4>4. 1 \in DOMAIN queue /\ Head(queue) \in Node
        BY <4>2 DEF TypeOK
      <4>5. \A i, j \in DOMAIN queue' : parent'[queue'[i]] = queue'[j] => j < i
        BY <3>1, <4>2, <4>3 DEF ParentInv
      <4>6. parent[Head(queue)] \notin Queued'
        <5> SUFFICES ASSUME NEW j \in DOMAIN queue', parent[queue[1]] = queue'[j]
                     PROVE  FALSE
          BY <4>2 DEF Queued
        <5>1. parent[queue[1]] = queue[j + 1] /\ j + 1 \in DOMAIN queue
          BY <4>2, <4>3
        <5>2. j + 1 < 1
          BY <4>4, <5>1 DEF ParentInv
        <5> QED
          BY <4>3, <5>2
      <4>7. ParentFirst'
        BY <3>1, <4>1, <4>4, <4>6 DEF ParentFirst, ParentInv
      <4> QED
        BY <3>1, <4>5, <4>7 DEF ParentInv
    <3> QED
      BY <3>3, <3>4
  <2>2. CASE TaskMoves(n)
    <3>1. Live' = Live /\ UNCHANGED <<queue, reply>>
      BY <2>2, TaskMovesEffect DEF queueVars
    <3>2. parent' = parent
      BY <2>2 DEF TaskMoves, TaskStart, TaskRefused, SessionInfo, ErrorEvent, TaskFails,
                  TaskUnwinds, TaskDiscarded, Exit, treeVars
    <3> QED
      BY <3>1, <3>2 DEF ParentInv, ParentFirst, Queued
  <2> QED
    BY <1>3, <2>1, <2>2, TaskStepCases
<1>4. CASE Command
  <2>1. /\ UNCHANGED <<parent, reply>>
        /\ queue' \in {queue, << >>} \/ \E S : queue' = Without(queue, S)
        /\ task' \in {task, CancelCurrentTask}
    BY <1>4, CommandEffect
  <2>2. Live' \subseteq Live
    BY <2>1, CancelCurrentTaskEffect DEF Live
  <2>3. /\ Queued' \subseteq Queued
        /\ \A i, j \in DOMAIN queue' : parent[queue'[i]] = queue'[j] => j < i
    <3>1. CASE queue' \in {queue, << >>}
      BY <3>1 DEF Queued, ParentInv
    <3>2. ASSUME NEW S, queue' = Without(queue, S),
                 NEW i \in DOMAIN queue', NEW j \in DOMAIN queue', parent[queue'[i]] = queue'[j]
          PROVE  j < i
      <4>1. i \in Int /\ j \in Int
        BY <3>2, WithoutIsSeq DEF TypeOK
      <4>2. i # j
        <5>1. queue'[i] \in Node
          BY <3>2, WithoutIsSeq DEF TypeOK
        <5> QED
          BY <3>2, <5>1 DEF ParentInv
      <4>3. ~ (i < j)
        <5> SUFFICES ASSUME i < j PROVE FALSE
          OBVIOUS
        <5>1. PICK a, b \in DOMAIN queue : a < b /\ queue'[i] = queue[a] /\ queue'[j] = queue[b]
          BY <3>2, WithoutKeeps DEF TypeOK
        <5>2. b < a
          BY <3>2, <5>1 DEF ParentInv
        <5>3. a \in Int /\ b \in Int
          BY DEF TypeOK
        <5> QED
          BY <5>1, <5>2, <5>3
      <4> QED
        BY <4>1, <4>2, <4>3
    <3> QED
      BY <2>1, <3>1, <3>2, WithoutEffect
  <2> QED
    BY <2>1, <2>2, <2>3 DEF ParentInv, ParentFirst
<1>5. CASE UNCHANGED vars
  BY <1>5 DEF vars, treeVars, queueVars, Live, Queued, ParentInv, ParentFirst
<1> QED
  BY <1>1, <1>2, <1>3, <1>4, <1>5 DEF Next

(* A reply never runs beside, or before, the message whose session it forks, *)
(* through cancellations and removals of branches.                           *)
THEOREM ParentFirstCorrect ==
  ASSUME "stop_all" \notin Commands, "clear_all" \notin Commands
  PROVE  Spec => []ParentFirst
<1>1. TypeOK /\ LifeInv /\ QueueServed /\ OneWorkerInv /\ ParentInv /\ [Next]_vars
        => LifeInv' /\ ParentInv'
  BY LifeInvInductive, ParentInvInductive
<1>2. ParentInv => ParentFirst
  BY DEF ParentInv
<1> QED
  BY <1>1, <1>2, InitLife, InitParent, TypeCorrect, QueueServedCorrect, OneWorkerInvCorrect, PTL
  DEF Spec

-----------------------------------------------------------------------------
(* The refinement: what the serial queue knows is what was accepted or lost. *)
Heard == {n \in Node : reply[n] = "over"}

LEMMA KnownIsHeard ==
  ASSUME TypeOK, LifeInv
  PROVE  Serial!Known = Heard /\ Serial!Waiting = Queued /\ Queued \subseteq Heard /\ Live \subseteq Heard
         /\ Queued \cap Live = {}
<1>1. Serial!Waiting = Queued
  BY DEF Serial!Waiting, Queued
<1>2. Queued \subseteq Heard /\ Live \subseteq Heard /\ Queued \cap Live = {}
  BY DEF LifeInv, Live, LiveStates, Heard, Queued, TypeOK
<1>3. Serial!Known = Queued \cup Live \cup (Heard \ (Queued \cup Live))
  BY <1>1 DEF Serial!Known, Heard
<1> QED
  BY <1>1, <1>2, <1>3

SerialStep == Serial!Next \/ UNCHANGED <<queue, Live, Heard \ (Queued \cup Live)>>

LEMMA AcceptIsAccept ==
  ASSUME TypeOK, LifeInv, LifeInv', QueueServed, NEW n \in Node, EnqueueAndStart(n),
         reply[n] # "over", reply' = [reply EXCEPT ![n] = "over"], ~ isProcessing => Live = {}
  PROVE  Serial!Accept(n)
<1>1. n \notin Serial!Known /\ Heard' = Heard \cup {n}
  BY KnownIsHeard DEF Heard, TypeOK
<1>2. Queued \subseteq Heard /\ Live \subseteq Heard /\ n \notin Heard
  BY KnownIsHeard DEF Heard
<1>3. CASE isProcessing
  <2>1. queue' = Append(queue, n) /\ Live' = Live
    BY <1>3, EnqueueAndStartEffect
  <2>2. Queued' = Queued \cup {n}
    <3>1. /\ Len(queue) \in Nat /\ DOMAIN queue = 1 .. Len(queue)
          /\ DOMAIN queue' = 1 .. Len(queue) + 1 /\ queue'[Len(queue) + 1] = n
          /\ \A i \in DOMAIN queue : queue'[i] = queue[i]
      BY <2>1 DEF TypeOK
    <3>2. DOMAIN queue' = DOMAIN queue \cup {Len(queue) + 1}
      BY <3>1
    <3> QED
      BY <3>1, <3>2 DEF Queued
  <2>3. Heard' \ (Queued' \cup Live') = Heard \ (Queued \cup Live)
    BY <1>1, <1>2, <2>1, <2>2
  <2> QED
    BY <1>1, <2>1, <2>3 DEF Serial!Accept, Heard
<1>4. CASE ~ isProcessing
  <2>1. queue = << >> /\ Live = {}
    BY <1>4 DEF QueueServed
  <2>2. queue' = queue /\ Live' = {n}
    BY <1>4, <2>1, EnqueueAndStartEffect
  <2>3. Queued' = Queued
    BY <2>2 DEF Queued
  <2>4. Heard' \ (Queued' \cup Live') = Heard \ (Queued \cup Live)
    BY <1>1, <1>2, <2>1, <2>2, <2>3
  <2> QED
    BY <1>1, <2>1, <2>2, <2>4 DEF Serial!Accept, Heard
<1> QED
  BY <1>3, <1>4

LEMMA ProcessNextIsAdvance ==
  ASSUME TypeOK, LifeInv, OneWorkerInv, NEW n \in Live, ProcessNext(n), reply' = reply
  PROVE  Serial!Advance
<1>1. Live = {n} /\ n \in Node
  BY DEF OneWorkerInv, OneWorker, Live
<1>2. Serial!Known = Heard /\ Heard' = Heard
  BY KnownIsHeard DEF Heard
<1>3. Heard' \ (Queued' \cup Live') = (Serial!Known \ Live') \ {queue'[i] : i \in DOMAIN queue'}
  BY <1>2 DEF Queued
<1>4. CASE queue = << >>
  <2>1. queue' = queue /\ Live' = {}
    BY <1>1, <1>4, ProcessNextEffect
  <2> QED
    BY <1>1, <1>3, <1>4, <2>1 DEF Serial!Advance, Heard
<1>5. CASE queue # << >>
  <2>1. queue' = Tail(queue) /\ Live' \in {{}, {Head(queue)}}
    BY <1>1, <1>5, ProcessNextEffect
  <2> QED
    BY <1>1, <1>3, <1>5, <2>1 DEF Serial!Advance, Heard
<1> QED
  BY <1>4, <1>5

LEMMA CommandIsWithdraw ==
  ASSUME TypeOK, LifeInv, Command
  PROVE  \E S \in SUBSET Node : Serial!Withdraw(S)
<1>1. /\ reply' = reply
      /\ queue' \in {queue, << >>} \/ \E S : queue' = Without(queue, S)
      /\ task' \in {task, CancelCurrentTask}
  BY CommandEffect
<1>2. Live' \subseteq Live /\ Live \subseteq Node /\ Queued \subseteq Node
  BY <1>1, CancelCurrentTaskEffect DEF Live, Queued, TypeOK
<1>3. /\ queue' \in Seq(Node) /\ Queued' \subseteq Queued
      /\ \A i, j \in DOMAIN queue' : i < j =>
            \E a, b \in DOMAIN queue : a < b /\ queue'[i] = queue[a] /\ queue'[j] = queue[b]
  <2>1. CASE queue' = queue
    BY <2>1 DEF Queued, TypeOK
  <2>2. CASE queue' = << >>
    BY <2>2 DEF Queued
  <2>3. ASSUME NEW S, queue' = Without(queue, S)
        PROVE  /\ queue' \in Seq(Node) /\ Queued' \subseteq Queued
               /\ \A i, j \in DOMAIN queue' : i < j =>
                     \E a, b \in DOMAIN queue : a < b /\ queue'[i] = queue[a] /\ queue'[j] = queue[b]
    <3>1. queue' \in Seq(Node) /\ Queued' \subseteq Queued
      BY <2>3, WithoutIsSeq, WithoutEffect DEF TypeOK
    <3> QED
      BY <2>3, <3>1, WithoutKeeps DEF TypeOK
  <2> QED
    BY <1>1, <2>1, <2>2, <2>3
<1>4. /\ Serial!Waiting = Queued /\ Queued \cap Live = {}
      /\ Queued \subseteq Heard /\ Live \subseteq Heard /\ Heard' = Heard
  BY <1>1, KnownIsHeard DEF Heard
<1>5. PICK S : S = (Queued \ Queued') \cup (Live \ Live')
  OBVIOUS
<1>6. /\ S \subseteq Queued \cup Live /\ S \in SUBSET Node
      /\ Queued' = Queued \ S /\ Live' = Live \ S
      /\ Heard' \ (Queued' \cup Live') = (Heard \ (Queued \cup Live)) \cup S
  BY <1>2, <1>3, <1>4, <1>5
<1>7. {queue'[i] : i \in DOMAIN queue'} = Queued \ S
  BY <1>6 DEF Queued
<1>8. Serial!Withdraw(S)
  BY <1>3, <1>4, <1>6, <1>7 DEF Serial!Withdraw, Heard
<1> QED
  BY <1>6, <1>8

LEMMA SerialSimulation ==
  ASSUME TypeOK, LifeInv, LifeInv', QueueServed, OneWorkerInv, [Next]_vars
  PROVE  SerialStep
<1>1. CASE NewConversation
  <2>1. /\ reply[Root] # "over" /\ ~ isProcessing /\ Live = {}
        /\ EnqueueAndStart(Root) /\ reply' = [reply EXCEPT ![Root] = "over"]
    BY <1>1 DEF NewConversation, LifeInv, OneWorkerInv
  <2>2. Serial!Accept(Root)
    BY <2>1, AcceptIsAccept, NodeAssumption
  <2> QED
    BY <2>2, NodeAssumption DEF SerialStep, Serial!Next
<1>2. ASSUME NEW n \in Node, Incoming(n) PROVE SerialStep
  <2>1. ASSUME NEW p \in Node, ReplyArrives(n, p) PROVE SerialStep
    <3>1. reply[n] # "over" /\ reply' = [reply EXCEPT ![n] = "awaiting"] /\ UNCHANGED <<queue, task>>
      BY <2>1 DEF ReplyArrives, queueVars
    <3>2. Heard' = Heard /\ Live' = Live /\ Queued' = Queued
      BY <3>1 DEF Heard, Live, Queued, TypeOK
    <3> QED
      BY <3>1, <3>2 DEF SerialStep
  <2>2. CASE ReplyAdded(n)
    <3>1. /\ reply[n] # "over" /\ registered
          /\ EnqueueAndStart(n) /\ reply' = [reply EXCEPT ![n] = "over"]
      BY <2>2 DEF ReplyAdded
    <3>2. ~ isProcessing => Live = {}
      BY <3>1 DEF OneWorkerInv
    <3>3. Serial!Accept(n)
      BY <3>1, <3>2, AcceptIsAccept
    <3> QED
      BY <3>3 DEF SerialStep, Serial!Next
  <2>3. CASE ReplyLost(n)
    <3>1. reply[n] # "over" /\ reply' = [reply EXCEPT ![n] = "over"] /\ UNCHANGED <<queue, task>>
      BY <2>3 DEF ReplyLost, queueVars
    <3>2. Heard' = Heard \cup {n} /\ n \notin Heard /\ Live' = Live /\ Queued' = Queued
      BY <3>1 DEF Heard, Live, Queued, TypeOK
    <3>3. n \notin Serial!Known /\ n \notin Queued /\ n \notin Live
      BY <3>2, KnownIsHeard
    <3>4. Heard' \ (Queued' \cup Live') = (Heard \ (Queued \cup Live)) \cup {n}
      BY <3>2, <3>3
    <3>5. Serial!Refuse(n)
      BY <3>1, <3>2, <3>3, <3>4 DEF Serial!Refuse, Heard
    <3> QED
      BY <3>5 DEF SerialStep, Serial!Next
  <2> QED
    BY <1>2, <2>1, <2>2, <2>3 DEF Incoming
<1>3. ASSUME NEW n \in Node, TaskStep(n) PROVE SerialStep
  <2>1. CASE TaskSkip(n) \/ TaskEnds(n)
    <3>1. ProcessNext(n) /\ n \in Live /\ reply' = reply
      BY <2>1 DEF TaskSkip, TaskEnds, Live, LiveStates
    <3> QED
      BY <3>1, ProcessNextIsAdvance DEF SerialStep, Serial!Next
  <2>2. CASE TaskMoves(n)
    <3>1. Live' = Live /\ UNCHANGED <<queue, reply>>
      BY <2>2, TaskMovesEffect DEF queueVars
    <3> QED
      BY <3>1 DEF SerialStep, Heard, Queued
  <2> QED
    BY <1>3, <2>1, <2>2, TaskStepCases
<1>4. CASE Command
  BY <1>4, CommandIsWithdraw DEF SerialStep, Serial!Next
<1>5. CASE UNCHANGED vars
  BY <1>5 DEF vars, treeVars, queueVars, Live, Queued, Heard, SerialStep
<1> QED
  BY <1>1, <1>2, <1>3, <1>4, <1>5 DEF Next

(* The conversation is a serial queue: whatever replies, tasks and commands  *)
(* do, each of their steps is a step of SerialQueue or invisible to it.      *)
THEOREM ImplementsSerial ==
  ASSUME "stop_all" \notin Commands, "clear_all" \notin Commands
  PROVE  Spec => SerialSpec
<1>1. Init => Serial!Init
  <2> SUFFICES ASSUME Init PROVE Serial!Init
    OBVIOUS
  <2>1. Live = {} /\ {n \in Node : reply[n] = "over"} = {}
    BY DEF Init, Live, LiveStates
  <2> QED
    BY <2>1 DEF Init, Serial!Init
<1>2. TypeOK /\ LifeInv /\ QueueServed /\ OneWorkerInv /\ [Next]_vars
        => LifeInv' /\ [Serial!Next]_<<queue, Live, {n \in Node : reply[n] = "over"} \ (Queued \cup Live)>>
  BY LifeInvInductive, SerialSimulation DEF SerialStep, Heard
<1> QED
  BY <1>1, <1>2, InitLife, TypeCorrect, QueueServedCorrect, OneWorkerInvCorrect, PTL
  DEF Spec, SerialSpec, Serial!Spec
=============================================================================
