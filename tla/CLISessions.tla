----------------------------- MODULE CLISessions -----------------------------
(***************************************************************************)
(* The Claude CLI processes of the bot: the session manager and its lock   *)
(* (src/cli/manager.py), the sessions (src/cli/session.py), the registry   *)
(* of process ids (src/cli/process_registry.py), the part of               *)
(* _process_node_impl that uses them, and the shutdown of the application. *)
(*                                                                         *)
(* A task starts at most one process and creates at most one CLISession,   *)
(* so both are named by the task.  The manager's lock is held over the     *)
(* stopping of a session and over nothing else that waits.                 *)
(***************************************************************************)
EXTENDS Naturals, Sequences, FiniteSets

CONSTANT Tasks

ASSUME SessionAssumption == IsFiniteSet(Tasks) /\ Tasks = 1..Cardinality(Tasks)

VARIABLES
    \* CLISessionManager
    lock,        \* holder of _lock: a task, Stopper or None
    stopping,    \* the sessions that the holder of the lock has yet to stop
    dying,       \* the process whose end it waits for
    sessions,    \* _sessions
    pending,     \* _pending_sessions
    toReal,      \* _temp_to_real
    toTemp,      \* _real_to_temp
    \* process_node tasks
    pc,
    tree,        \* the conversation, named by its first task
    resumes,     \* parent_session_id, which is resumed and forked, or None
    session,     \* cli_session
    captured,    \* captured_session_id
    temp,        \* temp_session_id
    cancelled,   \* tasks that were cancelled
    abandoned,   \* tasks that left their start_task generator suspended
    recorded,    \* the session id in the node of each task
    \* CLISession and the operating system
    process,     \* the process of each task
    current,     \* CLISession.process: the task that started it
    cliLock,     \* holder of CLISession._cli_lock
    pids,        \* process_registry._pids
    \* the application
    app,         \* "up"; "down" and "stopped" (AppRuntime.shutdown before and after its
                 \* stop_all); "exiting" (the loop cancels its tasks); "ended"
    doomed       \* tasks that the ending loop still has to cancel

lockVars == <<lock, stopping, dying>>
managerVars == <<sessions, pending, toReal, toTemp>>
taskVars    == <<tree, resumes, session, captured, temp, cancelled, abandoned, recorded>>
procVars    == <<process, current, cliLock, pids>>
sessionVars == <<lockVars, managerVars, pc, taskVars, procVars, app, doomed>>

\* Session ids: the one the CLI reports to a task, and the temporary one of a
\* new conversation.  A reply uses the id it resumes as its temporary id.
Real(t) == 2 * t
Temp(t) == 2 * t - 1
SessionIds == {Real(t) : t \in Tasks} \cup {Temp(t) : t \in Tasks}

None == 0
Stopper == Cardinality(Tasks) + 1   \* stop_all, as the holder of the lock
Alive == {p \in Tasks : process[p] \in {"live", "term"}}

SessionsTypeOK ==
    /\ lock \in Tasks \cup {Stopper, None}
    /\ stopping \in Seq(Tasks) /\ dying \in Tasks \cup {None}
    /\ sessions \in [SessionIds -> Tasks \cup {None}] /\ pending \in [SessionIds -> Tasks \cup {None}]
    /\ toReal \in [SessionIds -> SessionIds \cup {None}] /\ toTemp \in [SessionIds -> SessionIds \cup {None}]
    /\ pc \in [Tasks -> {"idle", "getting", "waiting", "spawning", "reading", "registering",
                         "stopping", "closing", "dropping", "removing", "done"}]
    /\ tree \in [Tasks -> Tasks \cup {None}] /\ session \in [Tasks -> Tasks \cup {None}]
    /\ resumes \in [Tasks -> SessionIds \cup {None}] /\ recorded \in [Tasks -> SessionIds \cup {None}]
    /\ captured \in [Tasks -> SessionIds \cup {None}] /\ temp \in [Tasks -> SessionIds \cup {None}]
    /\ cancelled \subseteq Tasks /\ abandoned \subseteq Tasks
    /\ process \in [Tasks -> {"none", "live", "term", "dead"}]
    /\ current \in [Tasks -> Tasks \cup {None}] /\ cliLock \in [Tasks -> Tasks \cup {None}]
    /\ pids \subseteq Tasks
    /\ app \in {"up", "down", "stopped", "exiting", "ended"}
    /\ doomed \subseteq Tasks

SessionsInit ==
    /\ lock = None /\ stopping = <<>> /\ dying = None
    /\ sessions = [i \in SessionIds |-> None] /\ pending = [i \in SessionIds |-> None]
    /\ toReal = [i \in SessionIds |-> None] /\ toTemp = [i \in SessionIds |-> None]
    /\ pc = [t \in Tasks |-> "idle"] /\ tree = [t \in Tasks |-> None]
    /\ resumes = [t \in Tasks |-> None] /\ session = [t \in Tasks |-> None]
    /\ captured = [t \in Tasks |-> None] /\ temp = [t \in Tasks |-> None]
    /\ cancelled = {} /\ abandoned = {} /\ recorded = [t \in Tasks |-> None]
    /\ process = [t \in Tasks |-> "none"] /\ current = [t \in Tasks |-> None]
    /\ cliLock = [t \in Tasks |-> None] /\ pids = {}
    /\ app = "up" /\ doomed = {}

Goto(t, where) == pc' = [pc EXCEPT ![t] = where]

-----------------------------------------------------------------------------
(* A task, from get_or_create_session to remove_session.                   *)

\* A message becomes the task t, in a conversation and with the id that the
\* node of its parent has.
Enter(t, root, id) ==
    /\ app \in {"up", "down", "stopped"} /\ pc[t] = "idle"
    /\ tree' = [tree EXCEPT ![t] = root] /\ resumes' = [resumes EXCEPT ![t] = id]
    /\ Goto(t, "getting")
    /\ UNCHANGED <<lockVars, managerVars, session, captured, temp, cancelled, abandoned, recorded,
                   procVars, app, doomed>>

\* Mutant: a reply does not wait for the conversation to be free.
StartBeside(t, u) ==
    \/ u = None /\ Enter(t, t, None)
    \/ u # None /\ recorded[u] # None /\ Enter(t, tree[u], recorded[u])

\* A message starts a conversation, or replies to one whose session id is
\* known, when every earlier task of the conversation ended (or was cancelled:
\* a global /stop frees the tree while its task unwinds).
Start(t, u) ==
    \/ u = None /\ Enter(t, t, None)
    \/ /\ u # None /\ recorded[u] # None
       /\ \A v \in Tasks : tree[v] = tree[u] => pc[v] = "done" \/ v \in cancelled
       /\ Enter(t, tree[u], recorded[u])

Known == {i \in SessionIds : sessions[i] # None \/ pending[i] # None}
Found(i) == IF sessions[i] # None THEN sessions[i] ELSE pending[i]

\* The session id that a task asks for: the one to resume, or a temporary one.
Given(t) == IF resumes[t] # None THEN resumes[t] ELSE Temp(t)

\* get_or_create_session.
GetOrCreate(t) ==
    /\ pc[t] = "getting" /\ lock = None
    /\ LET known == resumes[t] # None
           given == Given(t)
           id    == IF known /\ toReal[given] # None THEN toReal[given] ELSE given
       IN  \/ /\ known /\ id \in Known
              /\ session' = [session EXCEPT ![t] = Found(id)]
              /\ captured' = [captured EXCEPT ![t] = id]
              /\ UNCHANGED <<pending, temp>>
           \/ /\ known => id \notin Known
              /\ pending' = [pending EXCEPT ![given] = t]
              /\ session' = [session EXCEPT ![t] = t]
              /\ temp' = [temp EXCEPT ![t] = given]
              /\ UNCHANGED captured
    /\ Goto(t, "waiting")
    /\ UNCHANGED <<lockVars, sessions, toReal, toTemp, tree, resumes, cancelled, abandoned, recorded, procVars,
                   app, doomed>>

\* start_task gets the lock of its session and asks for the process.
Spawn(t) ==
    /\ pc[t] = "waiting" /\ cliLock[session[t]] = None
    /\ cliLock' = [cliLock EXCEPT ![session[t]] = t]
    /\ Goto(t, "spawning")
    /\ UNCHANGED <<lockVars, managerVars, taskVars, process, current, pids, app, doomed>>

\* create_subprocess_exec returns; the pid is registered.
Spawned(t) ==
    /\ pc[t] = "spawning"
    /\ process' = [process EXCEPT ![t] = "live"]
    /\ current' = [current EXCEPT ![session[t]] = t]
    /\ pids' = pids \cup {t}
    /\ Goto(t, "reading")
    /\ UNCHANGED <<lockVars, managerVars, taskVars, cliLock, app, doomed>>

\* The finally of start_task.
LeaveGenerator(t) ==
    /\ cliLock' = [cliLock EXCEPT ![session[t]] = None]
    /\ pids' = IF current[session[t]] = None THEN pids ELSE pids \ {current[session[t]]}

\* create_subprocess_exec raises.
SpawnFails(t) ==
    /\ pc[t] = "spawning"
    /\ LeaveGenerator(t)
    /\ Goto(t, "closing")
    /\ UNCHANGED <<lockVars, managerVars, taskVars, process, current, app, doomed>>

\* The CLI reports its session id.  A task that got an existing session does
\* nothing with it; another one registers it, for which it needs the lock.
SessionInfo(t) ==
    /\ pc[t] = "reading" /\ process[t] = "live" /\ temp[t] # None
    /\ Goto(t, "registering")
    /\ UNCHANGED <<lockVars, managerVars, taskVars, procVars, app, doomed>>

\* register_real_session_id and the rest of handle_session_info_event, which
\* does not look at whether it found the temporary id.
RegisterSession(t) ==
    /\ pc[t] = "registering" /\ lock = None
    /\ \/ /\ pending[temp[t]] # None
          /\ pending' = [pending EXCEPT ![temp[t]] = None]
          /\ sessions' = [sessions EXCEPT ![Real(t)] = pending[temp[t]]]
          /\ toReal' = [toReal EXCEPT ![temp[t]] = Real(t)]
          /\ toTemp' = [toTemp EXCEPT ![Real(t)] = temp[t]]
       \/ pending[temp[t]] = None /\ UNCHANGED managerVars
    /\ captured' = [captured EXCEPT ![t] = Real(t)]
    /\ temp' = [temp EXCEPT ![t] = None]
    /\ recorded' = [recorded EXCEPT ![t] = Real(t)]
    /\ Goto(t, "reading")
    /\ UNCHANGED <<lockVars, tree, resumes, session, cancelled, abandoned, procVars, app, doomed>>

\* The process has ended and the complete event is handled: the node gets the
\* id of the session that its task got, be it shared.
Completed(t) ==
    /\ pc[t] = "reading" /\ process[t] = "dead" /\ captured[t] # None
    /\ recorded' = [recorded EXCEPT ![t] = captured[t]]
    /\ UNCHANGED <<lockVars, managerVars, pc, tree, resumes, session, captured, temp, cancelled, abandoned,
                   procVars, app, doomed>>

\* End of output: the generator ends, and the task comes to its finally.
Exited(t) ==
    /\ pc[t] = "reading" /\ process[t] = "dead"
    /\ LeaveGenerator(t)
    /\ Goto(t, "closing")
    /\ UNCHANGED <<lockVars, managerVars, taskVars, process, current, app, doomed>>

OwnId(t) == IF captured[t] # None THEN captured[t] ELSE temp[t]

\* CLISession.stop sends SIGTERM to the process of the session, if it runs ...
Terminate(s) ==
    process' = [p \in Tasks |-> IF p = current[s] /\ process[p] = "live" THEN "term" ELSE process[p]]

\* ... and when that process is dead, after a SIGKILL if need be, unregisters
\* the one the session has then.
Unregister(s) == pids' = pids \ {current[s]}
Unlock == lock' = None /\ stopping' = <<>> /\ dying' = None

\* The end of remove_session for a registered session: its index goes too.
DropIndex(i) ==
    /\ toTemp' = [toTemp EXCEPT ![i] = None]
    /\ toReal' = [j \in SessionIds |-> IF j = toTemp[i] THEN None ELSE toReal[j]]

\* remove_session(i) by task t pops a session, or finds none, and stops it with
\* the lock held.
Pop(t, i) ==
    LET s == IF pending[i] # None THEN pending[i] ELSE sessions[i]
    IN  /\ i # None => lock = None
        /\ \/ i \notin Known /\ UNCHANGED <<sessions, pending, process>>
           \/ /\ i \in Known /\ Terminate(s)
              /\ IF pending[i] # None
                 THEN pending' = [pending EXCEPT ![i] = None] /\ UNCHANGED sessions
                 ELSE sessions' = [sessions EXCEPT ![i] = None] /\ UNCHANGED pending
        /\ IF i \in Known /\ current[s] \in Alive
           THEN /\ lock' = t /\ stopping' = <<s>> /\ dying' = current[s]
                /\ Goto(t, IF pending[i] # None THEN "dropping" ELSE "removing")
                /\ UNCHANGED <<toReal, toTemp>>
           ELSE /\ Goto(t, "done") /\ UNCHANGED lockVars
                /\ IF i \in Known /\ pending[i] = None THEN DropIndex(i)
                   ELSE UNCHANGED <<toReal, toTemp>>

\* remove_session in the finally of the task.
RemoveSession(t) ==
    /\ pc[t] = "closing" /\ Pop(t, OwnId(t))
    /\ UNCHANGED <<taskVars, current, cliLock, pids, app, doomed>>

\* Mutant: the index of the session is left.
SessionRemovedIndexed(t) ==
    /\ pc[t] \in {"dropping", "removing"} /\ process[dying] = "dead"
    /\ Unregister(Head(stopping)) /\ Unlock
    /\ Goto(t, "done")
    /\ UNCHANGED <<managerVars, taskVars, process, current, cliLock, app, doomed>>

\* Mutant: the lock is kept.
SessionRemovedLocked(t) ==
    /\ pc[t] \in {"dropping", "removing"} /\ process[dying] = "dead"
    /\ Unregister(Head(stopping))
    /\ IF pc[t] = "removing" THEN DropIndex(OwnId(t)) ELSE UNCHANGED <<toReal, toTemp>>
    /\ Goto(t, "done")
    /\ UNCHANGED <<lockVars, sessions, pending, taskVars, process, current, cliLock, app, doomed>>

\* The process is dead: the session is removed, and the lock is free.
SessionRemoved(t) ==
    /\ pc[t] \in {"dropping", "removing"} /\ process[dying] = "dead"
    /\ Unregister(Head(stopping)) /\ Unlock
    /\ IF pc[t] = "removing" THEN DropIndex(OwnId(t)) ELSE UNCHANGED <<toReal, toTemp>>
    /\ Goto(t, "done")
    /\ UNCHANGED <<sessions, pending, taskVars, process, current, cliLock, app, doomed>>

-----------------------------------------------------------------------------
(* Cancellation of a task.                                                 *)

\* What CancelledError does to task t.
Interrupt(t) ==
    \/ /\ pc[t] = "getting" /\ Goto(t, "closing")
       /\ UNCHANGED <<lockVars, process, current, cliLock, pids, abandoned>>
    \* Waiting for the lock of the session: nothing was taken.
    \/ /\ pc[t] = "waiting" /\ Goto(t, "closing")
       /\ UNCHANGED <<lockVars, process, current, cliLock, pids, abandoned>>
    \* asyncio kills the process it was about to return.
    \/ /\ pc[t] = "spawning" /\ Goto(t, "closing")
       /\ LeaveGenerator(t)
       /\ UNCHANGED <<lockVars, process, current, abandoned>>
    \* In the generator: `await asyncio.shield(self.stop())`.
    \/ /\ pc[t] = "reading" /\ Goto(t, "stopping")
       /\ Terminate(session[t])
       /\ UNCHANGED <<lockVars, current, cliLock, pids, abandoned>>
    \* In the body of the loop: the generator is left where it is.
    \/ /\ pc[t] \in {"reading", "registering"} /\ Goto(t, "closing")
       /\ abandoned' = abandoned \cup {t}
       /\ UNCHANGED <<lockVars, process, current, cliLock, pids>>
    \* Once more, in the shield: the finally of the generator does not wait.
    \/ /\ pc[t] = "stopping" /\ Goto(t, "closing")
       /\ LeaveGenerator(t)
       /\ UNCHANGED <<lockVars, process, current, abandoned>>
    \* In the finally of the task, waiting for the lock, or for the process.
    \/ /\ pc[t] = "closing" /\ Goto(t, "done")
       /\ UNCHANGED <<lockVars, process, current, cliLock, pids, abandoned>>
    \* There the session is popped, and its index stays.
    \/ /\ pc[t] \in {"dropping", "removing"} /\ Goto(t, "done")
       /\ Unlock
       /\ UNCHANGED <<process, current, cliLock, pids, abandoned>>

\* /stop and /clear, or the end of the event loop, which cancels every task once.
Cancel(t) ==
    /\ app # "ended" /\ (app = "exiting" => t \in doomed)
    /\ Interrupt(t)
    /\ cancelled' = cancelled \cup {t}
    /\ doomed' = doomed \ {t}
    /\ UNCHANGED <<managerVars, tree, resumes, session, captured, temp, recorded, app>>

\* The shielded stop has returned; CancelledError goes on.
StopReturns(t) ==
    /\ pc[t] = "stopping" /\ process[t] = "dead"
    /\ LeaveGenerator(t)
    /\ Goto(t, "closing")
    /\ UNCHANGED <<lockVars, managerVars, taskVars, process, current, app, doomed>>

\* The garbage collector, or shutdown_asyncgens, closes an abandoned generator,
\* whose finally waits for the end of stderr.
Collect(t) ==
    /\ t \in abandoned /\ process[t] = "dead"
    /\ LeaveGenerator(t)
    /\ abandoned' = abandoned \ {t}
    /\ UNCHANGED <<lockVars, managerVars, pc, tree, resumes, session, captured, temp, cancelled, recorded,
                   process, current, app, doomed>>

\* A process ends by itself, by the signal it got, or by SIGKILL.
Die(p) ==
    /\ p \in Alive
    /\ process' = [process EXCEPT ![p] = "dead"]
    /\ UNCHANGED <<lockVars, managerVars, pc, taskVars, current, cliLock, pids, app, doomed>>

-----------------------------------------------------------------------------
(* stop_all, and the end of the application.                               *)

InOrder(S) == CHOOSE q \in [1..Cardinality(S) -> S] : \A x \in S : \E i \in DOMAIN q : q[i] = x
Managed == {s \in Tasks : \E i \in SessionIds : s \in {sessions[i], pending[i]}}

\* stop_all gets the lock: from a global /stop or /clear, or in shutdown.
StopAll ==
    /\ lock = None /\ app \in {"up", "down"}
    /\ lock' = Stopper
    /\ stopping' = InOrder(Managed)
    /\ UNCHANGED <<dying, managerVars, pc, taskVars, procVars, app, doomed>>

\* It stops one session after the other ...
StopNext ==
    /\ lock = Stopper /\ stopping # <<>>
    /\ LET s == Head(stopping)
       IN  \/ /\ dying = None /\ current[s] \in Alive
              /\ Terminate(s) /\ dying' = current[s]
              /\ UNCHANGED <<stopping, pids>>
           \/ /\ dying = None /\ current[s] \notin Alive
              /\ stopping' = Tail(stopping)
              /\ UNCHANGED <<dying, process, pids>>
           \/ /\ dying # None /\ process[dying] = "dead"
              /\ Unregister(s) /\ dying' = None /\ stopping' = Tail(stopping)
              /\ UNCHANGED process
    /\ UNCHANGED <<lock, managerVars, pc, taskVars, current, cliLock, app, doomed>>

\* ... and forgets them all.  In shutdown that may be the stop_all of shutdown.
AllStopped ==
    /\ lock = Stopper /\ stopping = <<>>
    /\ sessions' = [i \in SessionIds |-> None] /\ pending' = [i \in SessionIds |-> None]
    /\ toReal' = [i \in SessionIds |-> None] /\ toTemp' = [i \in SessionIds |-> None]
    /\ Unlock
    /\ app' \in IF app = "down" THEN {"down", "stopped"} ELSE {app}
    /\ UNCHANGED <<pc, taskVars, procVars, doomed>>

\* AppRuntime.shutdown begins.
ShutDown ==
    /\ app = "up" /\ app' = "down"
    /\ UNCHANGED <<lockVars, managerVars, pc, taskVars, procVars, doomed>>

\* best_effort: its stop_all, still waiting for the lock or in progress, is
\* given up after five seconds.
StopTimesOut ==
    /\ app = "down" /\ app' = "stopped"
    /\ (lock = Stopper /\ Unlock) \/ UNCHANGED lockVars
    /\ UNCHANGED <<managerVars, pc, taskVars, procVars, doomed>>

\* The server returns: the event loop cancels every task there is, a stop_all
\* included ...
LoopEnds ==
    /\ app = "stopped" /\ app' = "exiting"
    /\ doomed' = {t \in Tasks : pc[t] \notin {"idle", "done"}}
    /\ IF lock = Stopper THEN Unlock ELSE UNCHANGED lockVars
    /\ UNCHANGED <<managerVars, pc, taskVars, procVars>>

\* Mutant: nobody kills what is left.
ExitWithoutKill ==
    /\ app = "exiting" /\ \A t \in Tasks : pc[t] \in {"idle", "done"}
    /\ app' = "ended" /\ abandoned' = {} /\ pids' = {}
    /\ UNCHANGED <<lockVars, managerVars, pc, tree, resumes, session, captured, temp, cancelled, recorded,
                   process, current, cliLock, doomed>>

\* ... waits for them, and kill_all_best_effort kills the registered processes.
Exit ==
    /\ app = "exiting" /\ \A t \in Tasks : pc[t] \in {"idle", "done"}
    /\ process' = [p \in Tasks |-> IF p \in pids /\ p \in Alive THEN "dead" ELSE process[p]]
    /\ app' = "ended" /\ abandoned' = {} /\ pids' = {}
    /\ UNCHANGED <<lockVars, managerVars, pc, tree, resumes, session, captured, temp, cancelled, recorded,
                   current, cliLock, doomed>>

SessionsNext ==
    \/ \E t \in Tasks, u \in Tasks \cup {None} : Start(t, u)
    \/ \E t \in Tasks : \/ GetOrCreate(t) \/ Spawn(t) \/ Spawned(t) \/ SpawnFails(t)
                        \/ SessionInfo(t) \/ RegisterSession(t) \/ Completed(t) \/ Exited(t)
                        \/ RemoveSession(t) \/ SessionRemoved(t) \/ Cancel(t) \/ StopReturns(t) \/ Collect(t) \/ Die(t)
    \/ StopAll \/ StopNext \/ AllStopped \/ ShutDown \/ StopTimesOut \/ LoopEnds \/ Exit

\* Steps that cannot be put off: the time limits of best_effort and of stop()
\* (SIGKILL after SIGTERM), the end of the loop, and the clean-up of a task
\* (asyncio.Lock is fair, and each task takes the lock once to clean up).
SessionsFairness ==
    /\ WF_sessionVars(StopTimesOut) /\ WF_sessionVars(LoopEnds) /\ WF_sessionVars(Exit)
    /\ \A t \in Tasks : /\ WF_sessionVars(app = "exiting" /\ Cancel(t))
                         /\ WF_sessionVars(RemoveSession(t)) /\ WF_sessionVars(SessionRemoved(t))
                         /\ WF_sessionVars(StopReturns(t))
                         /\ WF_sessionVars(process[t] = "term" /\ Die(t))

SessionsSpec == SessionsInit /\ [][SessionsNext]_sessionVars /\ SessionsFairness

-----------------------------------------------------------------------------

\* The two indexes of the manager are inverse to each other and lead to live
\* entries, unless the task that removed one is at it or was cancelled at it: a
\* temporary id never resolves to a session that was removed.
IndexesAgree ==
    \A i, j \in SessionIds : toReal[i] = j \/ toTemp[j] = i =>
        \/ toReal[i] = j /\ toTemp[j] = i /\ sessions[j] # None
        \/ \E t \in Tasks : captured[t] = j /\ (pc[t] = "removing" \/ (pc[t] = "done" /\ t \in cancelled))

\* The manager's dictionaries hold nothing that outlives its task, unless that
\* task was cancelled (a second time, in its clean-up).
NoLeak ==
    \A i \in Known :
        \E t \in Tasks : /\ i \in {captured[t], temp[t]}
                         /\ pc[t] \notin {"idle", "done"} \/ t \in cancelled

\* When the program has ended no CLI runs on that was not told to stop, save
\* where two cancelled tasks shared a session: the clean-up of one can then
\* unregister the process of the other.
NoSurvivor ==
    app = "ended" => \A p \in Tasks : process[p] = "live" =>
        \E t \in Tasks \ {p} : session[t] = session[p] /\ {t, p} \subseteq cancelled

\* A task's clean-up stops the process of another task only in its own
\* conversation, and where one of them was cancelled before it cleaned up.
StopsOwn ==
    [][\A t, p \in Tasks :
          RemoveSession(t) /\ process[p] = "live" /\ process'[p] = "term" /\ t # p =>
              tree[t] = tree[p] /\ cancelled \cap {t, p} # {}]_sessionVars

\* A shutdown ends, whatever tasks, locks and CLI processes it meets.
ShutdownEnds == app = "down" ~> app = "ended"

\* The manager knows the sessions of the tasks that run, by both of their ids, and
\* no others.
SessionsKnown == SessionsTypeOK /\ IndexesAgree /\ NoLeak
=============================================================================
