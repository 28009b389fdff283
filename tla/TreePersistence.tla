--------------------------- MODULE TreePersistence ---------------------------
(***************************************************************************)
(* The conversation trees in memory, in the session store and on disk: how *)
(* they are kept in step while messages arrive, are processed, stopped and *)
(* cleared, and what a restart makes of them.  TreeRepository and          *)
(* TreeQueueManager (src/messaging/trees/queue_manager.py), the tree       *)
(* methods of SessionStore (src/messaging/session.py), and                 *)
(* AppRuntime._restore_tree_state (src/api/runtime.py).                    *)
(*                                                                         *)
(* When a message is processed is the module MessageTreeQueue's subject;   *)
(* here a pending node may start at any time.  When the disk is written    *)
(* is SessionStore's; here it may be written, or the program killed, at    *)
(* any time.  A node has two ids: its message's and its status message's.  *)
(***************************************************************************)
EXTENDS Naturals, FiniteSets

CONSTANTS Messages,     \* 1..n, in the order they arrive
          MaxRestarts   \* bound on restarts

ASSUME PersistenceAssumption ==
    IsFiniteSet(Messages) /\ Messages = 1..Cardinality(Messages) /\ MaxRestarts \in Nat

VARIABLES
    root,         \* the root of each message's tree; 0 if it has not arrived
    parentOf,     \* parent_id, or 0
    born,         \* the run of the program in which the message arrived
    status,       \* state of each node
    inTree,       \* nodes that their tree object holds
    withSession,  \* nodes whose session id is known
    active,       \* nodes whose task runs and was not cancelled
    manager,      \* roots of the trees in TreeQueueManager
    index,        \* its _node_to_tree: root by id, or 0
    stored,       \* SessionStore._trees: the states of the saved nodes by root
    storedIndex,  \* SessionStore._node_to_tree
    disk,         \* the file
    clearing,     \* 0; a node whose branch is being cleared; or Everything
    caught,       \* messages that arrived during a global /clear
    run           \* number of the current run of the program

nodeVars  == <<root, parentOf, born>>
memVars   == <<status, inTree, withSession, active, manager, index>>
storeVars == <<stored, storedIndex>>
persistVars == <<nodeVars, memVars, storeVars, disk, clearing, caught, run>>

Ids == Messages \X {"node", "status"}
Everything == Cardinality(Messages) + 1
NoTree == [m \in Messages |-> "none"]
NoIndex == [i \in Ids |-> 0]
Unsettled == {"pending", "in_progress"}

PersistInit ==
    /\ root = [m \in Messages |-> 0] /\ parentOf = [m \in Messages |-> 0] /\ born = [m \in Messages |-> 0]
    /\ status = NoTree /\ inTree = {} /\ withSession = {} /\ active = {}
    /\ manager = {} /\ index = NoIndex
    /\ stored = [r \in Messages |-> NoTree] /\ storedIndex = NoIndex
    /\ disk = [trees |-> stored, index |-> NoIndex]
    /\ clearing = 0 /\ caught = {} /\ run = 1

-----------------------------------------------------------------------------

Arrived == {m \in Messages : root[m] # 0}
Tree(r) == {m \in inTree : root[m] = r}

\* resolve_parent_node_id finds a node for an id.
Resolves(id) == index[id] \in manager /\ id[1] \in inTree /\ root[id[1]] = index[id]

\* The node and its descendants.
Branch(m) ==
    LET below[n \in 0..Cardinality(Messages)] ==
            IF n = 0 THEN {m} ELSE below[n - 1] \cup {c \in inTree : parentOf[c] \in below[n - 1]}
    IN  below[Cardinality(Messages)]

\* MessageTree.to_dict, with the nodes and states after a step.
Saved(nodes, states, r) == [m \in Messages |-> IF m \in nodes /\ root'[m] = r THEN states[m] ELSE "none"]

\* save_tree after a step, for the trees of these roots.
Save(roots) ==
    /\ stored' = [r \in Messages |-> IF r \in roots THEN Saved(inTree', status', r) ELSE stored[r]]
    /\ storedIndex' = [i \in Ids |->
          IF i[2] = "node" /\ i[1] \in inTree' /\ root'[i[1]] \in roots THEN root'[i[1]] ELSE storedIndex[i]]

\* Mutant: the store does not learn the id of the status message.
RegisterNodeOnly(m, r) ==
    /\ index' = [i \in Ids |-> IF i[1] = m THEN r ELSE index[i]]
    /\ stored' = [stored EXCEPT ![r] = Saved(inTree', status', r)]
    /\ storedIndex' = [storedIndex EXCEPT ![<<m, "node">>] = r]

\* The new node is registered under both ids, and its tree saved.
Register(m, r) ==
    /\ index' = [i \in Ids |-> IF i[1] = m THEN r ELSE index[i]]
    /\ stored' = [stored EXCEPT ![r] = Saved(inTree', status', r)]
    /\ storedIndex' = [i \in Ids |-> IF i[1] = m THEN r ELSE storedIndex[i]]

\* A message arrives: a reply to an id that is found joins its tree; any other
\* message begins a tree.  (What may happen between the two is in MessageTreeQueue.)
Arrive(m, id) ==
    /\ root[m] = 0 /\ \A n \in 1..m - 1 : root[n] # 0
    /\ LET r == IF Resolves(id) THEN index[id] ELSE m
       IN  /\ root' = [root EXCEPT ![m] = r]
           /\ parentOf' = [parentOf EXCEPT ![m] = IF r = m THEN 0 ELSE id[1]]
           /\ status' = [status EXCEPT ![m] = "pending"] /\ inTree' = inTree \cup {m}
           /\ manager' = manager \cup {r}
           /\ Register(m, r)
    /\ born' = [born EXCEPT ![m] = run]
    /\ caught' = IF clearing = Everything THEN caught \cup {m} ELSE caught
    /\ UNCHANGED <<withSession, active, disk, clearing, run>>

\* Its task starts.
Begin(m) ==
    /\ m \in inTree /\ status[m] = "pending"
    /\ status' = [status EXCEPT ![m] = "in_progress"] /\ active' = active \cup {m}
    /\ UNCHANGED <<nodeVars, inTree, withSession, manager, index, storeVars, disk, clearing, caught, run>>

\* handle_session_info_event and the complete event: the state is set and the
\* task's own tree saved, whether or not the manager still has it.
Progress(m, new) ==
    /\ m \in active
    /\ IF new = "completed" THEN m \in withSession ELSE m \notin withSession
    /\ status' = IF m \in inTree THEN [status EXCEPT ![m] = new] ELSE status
    /\ withSession' = withSession \cup {m}
    /\ UNCHANGED <<nodeVars, inTree, active, manager, index, disk, clearing, caught, run>>
    /\ Save({root[m]})

PendingBelow(m) == {c \in Branch(m) : status[c] = "pending"}

\* An error event, or an exception: the node and the pending nodes under it
\* fail, if the manager still finds the node.  Nothing is saved.
Fails(m) ==
    /\ m \in active
    /\ status' = [c \in Messages |->
          IF index[<<m, "node">>] \in manager /\ m \in inTree /\ c \in {m} \cup PendingBelow(m)
          THEN "error" ELSE status[c]]
    /\ UNCHANGED <<nodeVars, inTree, withSession, active, manager, index, storeVars, disk, clearing, caught, run>>

TaskOver(m) ==
    /\ m \in active /\ active' = active \ {m}
    /\ UNCHANGED <<nodeVars, status, inTree, withSession, manager, index, storeVars, disk, clearing, caught, run>>

\* Unsettled nodes are cancelled, and the trees they are in saved if the manager
\* has them.  Cancelling a whole tree ends its task even when its node is settled.
CancelNodes(nodes, tasks) ==
    LET hit == {m \in nodes : status[m] \in Unsettled}
    IN  /\ status' = [m \in Messages |-> IF m \in hit THEN "error" ELSE status[m]]
        /\ active' = active \ (hit \cup tasks)
        /\ UNCHANGED <<nodeVars, inTree, withSession, manager, index, disk, caught, run>>
        /\ Save({root[m] : m \in hit} \cap manager)

\* /stop in reply to a message.
StopNode(m) ==
    /\ \E kind \in {"node", "status"} : Resolves(<<m, kind>>)
    /\ status[m] \in Unsettled
    /\ CancelNodes({m}, {})
    /\ UNCHANGED clearing

\* /clear in reply to a message: its branch is cancelled; then the messages are
\* deleted from the chat ...
ClearBranch(m) ==
    /\ clearing = 0 /\ \E kind \in {"node", "status"} : Resolves(<<m, kind>>)
    /\ CancelNodes(Branch(m), {})
    /\ clearing' = m

\* ... and the branch, or all of the tree, is removed.  Only the ids of messages
\* are unregistered, not those of status messages.
WithoutNodes(ix, nodes) == [i \in Ids |-> IF i[2] = "node" /\ i[1] \in nodes THEN 0 ELSE ix[i]]

BranchCleared ==
    LET m == clearing
        gone == IF root[m] = m THEN Tree(m) ELSE Branch(m)
    IN  /\ clearing \in Messages /\ clearing' = 0
        /\ UNCHANGED <<nodeVars, withSession, disk, caught, run>>
        /\ index' = WithoutNodes(index, gone)
        /\ \/ /\ root[m] = m
              /\ status' = [c \in Messages |-> IF c \in gone /\ status[c] \in Unsettled THEN "error" ELSE status[c]]
              /\ active' = {c \in active : root[c] # m}
              /\ manager' = manager \ {m} /\ UNCHANGED inTree
              /\ stored' = [stored EXCEPT ![m] = NoTree]
              /\ storedIndex' = WithoutNodes(storedIndex, gone)
           \/ /\ root[m] # m
              /\ inTree' = inTree \ gone /\ UNCHANGED <<status, active, manager>>
              /\ stored' = [stored EXCEPT ![root[m]] = Saved(inTree \ gone, status, root[m])]
              /\ storedIndex' = WithoutNodes(storedIndex, gone)

\* A global /clear stops everything; then the messages are deleted ...
ClearAll ==
    /\ clearing = 0 /\ clearing' = Everything
    /\ CancelNodes({m \in inTree : root[m] \in manager}, {m \in Messages : root[m] \in manager})

\* Mutant: the manager is emptied, the store is not.
AllClearedInMemory ==
    /\ clearing = Everything /\ clearing' = 0
    /\ manager' = {} /\ index' = NoIndex
    /\ UNCHANGED <<nodeVars, status, inTree, withSession, active, storeVars, disk, caught, run>>

\* ... and store, file and manager are emptied.
AllCleared ==
    /\ clearing = Everything /\ clearing' = 0
    /\ stored' = [r \in Messages |-> NoTree] /\ storedIndex' = NoIndex
    /\ disk' = [trees |-> stored', index |-> storedIndex']
    /\ manager' = {} /\ index' = NoIndex
    /\ UNCHANGED <<nodeVars, status, inTree, withSession, active, caught, run>>

\* The store is written: by its timer, or by the flush of a shutdown.
WriteStore ==
    /\ disk # [trees |-> stored, index |-> storedIndex]
    /\ disk' = [trees |-> stored, index |-> storedIndex]
    /\ UNCHANGED <<nodeVars, memVars, storeVars, clearing, caught, run>>

\* cleanup_stale_nodes, for one state.
Cleaned(s) == IF s \in Unsettled THEN "error" ELSE s

\* The program is killed, or ends, and starts again: trees and index come from
\* the file; if a node had to be cleaned up, the store gets the result.
Restart ==
    LET roots == {r \in Messages : disk.trees[r] # NoTree}
        restored(r) == [m \in Messages |-> Cleaned(disk.trees[r][m])]
    IN  /\ run <= MaxRestarts /\ run' = run + 1
        /\ inTree' = {m \in Messages : \E r \in roots : disk.trees[r][m] # "none"}
        /\ status' = [m \in Messages |-> IF m \in inTree' THEN restored(root[m])[m] ELSE status[m]]
        /\ manager' = roots
        /\ index' = IF roots = {} THEN NoIndex ELSE disk.index
        /\ active' = {} /\ clearing' = 0
        /\ stored' = [r \in Messages |-> IF r \in roots THEN restored(r) ELSE NoTree]
        /\ storedIndex' = disk.index
        /\ UNCHANGED <<nodeVars, withSession, disk, caught>>

PersistNext ==
    \/ \E m \in Messages : \/ \E id \in Ids : id[1] < m /\ Arrive(m, id)
                           \/ Arrive(m, <<m, "node">>)
                           \/ Begin(m) \/ (\E new \in {"in_progress", "completed"} : Progress(m, new))
                           \/ Fails(m) \/ TaskOver(m) \/ StopNode(m) \/ ClearBranch(m)
    \/ BranchCleared \/ ClearAll \/ AllCleared \/ WriteStore \/ Restart

PersistSpec == PersistInit /\ [][PersistNext]_persistVars

-----------------------------------------------------------------------------

Here(m) == m \in inTree /\ root[m] \in manager

\* A node that waits or is processed belongs to this run of the program: none
\* of an earlier run is taken for one that will still be answered.
SettledAfterRestart == \A m \in Messages : Here(m) /\ status[m] \in Unsettled => born[m] = run

\* A tree one of whose messages arrived while a global /clear deleted the chat.
Caught(r) == \E m \in caught : root[m] = r

\* Every node of a tree can be replied to, by its message and by its status
\* message, now and after a restart from what the store has; but for the trees
\* that a global /clear missed, whose status messages nobody knows any more.
Repliable ==
    \A m \in Messages : Here(m) /\ ~Caught(root[m]) =>
        /\ Resolves(<<m, "node">>) /\ Resolves(<<m, "status">>)
        /\ stored[root[m]][m] # "none"
        /\ storedIndex[<<m, "node">>] = root[m] /\ storedIndex[<<m, "status">>] = root[m]

\* The store has a tree that the manager has not only if one of its messages
\* arrived while a global /clear was deleting the chat: its task then saves the
\* tree again after everything was emptied, and a restart brings it back.
GhostsExplained ==
    \A r \in Messages : stored[r] # NoTree /\ r \notin manager => Caught(r)

\* A restart finds the conversations as they were left: every node can be
\* replied to, and none waits for a task that is gone.
Recoverable == SettledAfterRestart /\ Repliable
=============================================================================
