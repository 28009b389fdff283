------------------------ MODULE MessagingRateLimiter ------------------------
(***************************************************************************)
(* MessagingRateLimiter (src/messaging/limiter.py), through which the      *)
(* Discord and Telegram adapters send, edit and delete messages, and what  *)
(* the adapters do around it: one worker, a FIFO queue of keys, the latest *)
(* call for each key, and the futures of everybody who asked for it.       *)
(*                                                                         *)
(* A call is numbered by when it was asked for, so of two edits of one     *)
(* message the greater one has the newer text.  The condition is never     *)
(* held over an await, so what runs between two waits is one action.  The  *)
(* waits: the new task of a fire-and-forget, the pause, the window, the    *)
(* platform, a back-off, the future.  There is no clock: a sleep ends when *)
(* it likes, so what holds here holds for all durations.  The window       *)
(* itself is the module SlidingWindow.                                     *)
(***************************************************************************)
EXTENDS Integers, Sequences, FiniteSets

CONSTANTS Calls,          \* 1..n, the calls in the order they are asked for
          Keys,           \* dedup keys ("edit:<chat>:<message>", ...)
          MaxRetries,     \* max_retries of fire_and_forget
          PlatformTries   \* max_retries of TelegramPlatform._with_retry; 1 for Discord

ASSUME LimiterAssumption == /\ Calls \subseteq Nat \ {0}
                            /\ MaxRetries \in Nat
                            /\ PlatformTries \in Nat \ {0}

VARIABLES
    asked,        \* calls asked for so far
    keyOf,        \* the key of each
    way,          \* "await", "forget" (fire_and_forget) or "relay" (in a task of its own)
    ready,        \* new tasks the event loop has yet to start, and the tasks they still start
    caller,       \* where the one who asked stands
    attempt,      \* retries of a fire_and_forget so far
    queue,        \* _queue_list
    entry,        \* _queue_map: the latest function of each queued key and the futures
    worker,       \* where _worker stands
    hand,         \* the entry it took
    tries,        \* tries the platform has left for it
    paused,       \* _paused_until is in the future
    shown         \* the last call the platform carried out for each key

callerVars == <<asked, keyOf, way, caller, attempt>>
queueVars  == <<queue, entry>>
workerVars == <<worker, hand, tries>>
limiterVars == <<callerVars, ready, queueVars, workerVars, paused, shown>>

Nothing == [func |-> 0, futures |-> {}]
Entries == [func : Calls \cup {0}, futures : SUBSET Calls]

LimiterTypeOK ==
    /\ asked \subseteq Calls
    /\ keyOf \in [Calls -> Keys]
    /\ way \in [Calls -> {"await", "forget", "relay"}]
    /\ ready \in Seq(Calls \X {1, 2})
    /\ caller \in [Calls -> {"none", "starting", "waiting", "backoff", "answered", "failed", "gone"}]
    /\ attempt \in [Calls -> 0..MaxRetries]
    /\ queue \in Seq(Keys)
    /\ entry \in [Keys -> Entries]
    /\ worker \in {"idle", "paused", "throttled", "calling", "backoff", "stopped"}
    /\ hand \in Entries
    /\ tries \in 0..PlatformTries
    /\ paused \in BOOLEAN
    /\ shown \in [Keys -> Calls \cup {0}]

LimiterInit ==
    /\ asked = {}
    /\ keyOf \in [Calls -> Keys] /\ way \in [Calls -> {"await", "forget", "relay"}]
    /\ ready = <<>>
    /\ caller = [c \in Calls |-> "none"] /\ attempt = [c \in Calls |-> 0]
    /\ queue = <<>> /\ entry = [k \in Keys |-> Nothing]
    /\ worker = "idle" /\ hand = Nothing /\ tries = 0
    /\ paused = FALSE
    /\ shown = [k \in Keys |-> 0]

-----------------------------------------------------------------------------
(* Asking.                                                                 *)

\* Mutant: the entry is replaced together with its futures.
EnqueueForgets(c) ==
    LET k == keyOf[c]
    IN  /\ entry' = [entry EXCEPT ![k] = [func |-> c, futures |-> {c}]]
        /\ queue' = IF entry[k] = Nothing THEN Append(queue, k) ELSE queue

\* enqueue and _enqueue_internal_multi: a queued key keeps its place and its
\* futures, and gets the new function.
Enqueue(c) ==
    LET k == keyOf[c]
    IN  /\ entry' = [entry EXCEPT ![k] = [func |-> c, futures |-> @.futures \cup {c}]]
        /\ queue' = IF entry[k] = Nothing THEN Append(queue, k) ELSE queue

\* An adapter is asked to send, edit or delete (queue_send_message and the
\* others), and the caller waits for the call: it enters the queue at once.
AskAndAwait(c) ==
    /\ c \notin asked /\ (\A d \in Calls : d < c => d \in asked) /\ way[c] = "await"
    /\ asked' = asked \cup {c}
    /\ caller' = [caller EXCEPT ![c] = "waiting"]
    /\ Enqueue(c)
    /\ UNCHANGED <<keyOf, way, ready, attempt, workerVars, paused, shown>>

\* Or nobody waits: a fire-and-forget enters the queue when its task starts; a
\* relayed one (platform.fire_and_forget around queue_edit_message) one task later.
AskInBackground(c) ==
    /\ c \notin asked /\ (\A d \in Calls : d < c => d \in asked) /\ way[c] # "await"
    /\ asked' = asked \cup {c}
    /\ caller' = [caller EXCEPT ![c] = "starting"]
    /\ ready' = Append(ready, <<c, IF way[c] = "relay" THEN 2 ELSE 1>>)
    /\ UNCHANGED <<keyOf, way, attempt, queueVars, workerVars, paused, shown>>

\* Mutant: the newest task is started first.
StartTaskNewest ==
    /\ ready # <<>>
    /\ LET n == Len(ready)
           c == ready[n][1]
       IN  /\ ready' = SubSeq(ready, 1, n - 1)
           /\ caller' = [caller EXCEPT ![c] = "waiting"]
           /\ Enqueue(c)
    /\ UNCHANGED <<asked, keyOf, way, attempt, workerVars, paused, shown>>

\* The event loop starts the oldest new task.
StartTask ==
    /\ ready # <<>>
    /\ LET c == Head(ready)[1]
       IN  \/ /\ Head(ready)[2] = 2
              /\ ready' = Append(Tail(ready), <<c, 1>>)
              /\ UNCHANGED <<caller, queueVars>>
           \/ /\ Head(ready)[2] = 1
              /\ ready' = Tail(ready)
              /\ caller' = [caller EXCEPT ![c] = "waiting"]
              /\ Enqueue(c)
    /\ UNCHANGED <<asked, keyOf, way, attempt, workerVars, paused, shown>>

\* The end of the back-off of a fire_and_forget: the same function again.
Retry(c) ==
    /\ caller[c] = "backoff"
    /\ attempt' = [attempt EXCEPT ![c] = @ + 1]
    /\ caller' = [caller EXCEPT ![c] = "waiting"]
    /\ Enqueue(c)
    /\ UNCHANGED <<asked, keyOf, way, ready, workerVars, paused, shown>>

\* The task that awaits a call is cancelled, and with it the future.
Abandon(c) ==
    /\ caller[c] = "waiting" /\ way[c] = "await"
    /\ caller' = [caller EXCEPT ![c] = "gone"]
    /\ UNCHANGED <<asked, keyOf, way, attempt, ready, queueVars, workerVars, paused, shown>>

-----------------------------------------------------------------------------
(* The worker.                                                             *)

\* `async with self.limiter`: the call may be made, or the worker sleeps until
\* the window has room.
Acquire ==
    \/ worker' = "calling" /\ tries' = PlatformTries
    \/ worker' = "throttled" /\ UNCHANGED tries

TakeHead ==
    /\ worker = "idle" /\ queue # <<>>
    /\ hand' = entry[Head(queue)]
    /\ entry' = [entry EXCEPT ![Head(queue)] = Nothing]
    /\ queue' = Tail(queue)
    /\ UNCHANGED <<callerVars, ready, paused, shown>>

\* Mutant: the pause is not looked at.
TakeUnpaused == TakeHead /\ Acquire

\* The worker takes the oldest key, and sleeps while a FloodWait lasts.
Take ==
    /\ TakeHead
    /\ \/ paused /\ worker' = "paused" /\ UNCHANGED tries
       \/ ~paused /\ Acquire

\* The end of the sleep for a FloodWait, or for the window.
WorkerWakes ==
    /\ \/ worker = "paused" /\ ~paused
       \/ worker = "throttled"
    /\ Acquire
    /\ UNCHANGED <<callerVars, ready, queueVars, hand, paused, shown>>

\* What the futures of the taken entry get: a result, or an exception, after
\* which a fire_and_forget backs off if the error is transient and it has
\* retries left.  A future that is done already gets nothing.
Settle(outcome, transient) ==
    caller' = [c \in Calls |->
        IF c \notin hand.futures \/ caller[c] # "waiting" THEN caller[c]
        ELSE IF outcome = "failed" /\ transient /\ way[c] # "await" /\ attempt[c] < MaxRetries
             THEN "backoff"
        ELSE outcome]

WorkerFree == worker' = "idle" /\ hand' = Nothing /\ tries' = 0

CarriedOut == shown' = [shown EXCEPT ![keyOf[hand.func]] = hand.func]

\* The platform carries the call out.
CallSucceeds ==
    /\ worker = "calling"
    /\ CarriedOut
    /\ Settle("answered", FALSE)
    /\ WorkerFree
    /\ UNCHANGED <<asked, keyOf, way, attempt, ready, queueVars, paused>>

\* A network error or a timeout (perhaps of a call that was carried out) with
\* tries left, or a RetryAfter, which leaves one more: the adapter sleeps and
\* calls again, inside the worker's call and without the window.
PlatformRetries ==
    /\ worker = "calling" /\ tries > 1
    /\ CarriedOut \/ UNCHANGED shown
    /\ tries' \in {tries - 1, 1}
    /\ worker' = "backoff"
    /\ UNCHANGED <<callerVars, ready, queueVars, hand, paused>>

PlatformCallsAgain ==
    /\ worker = "backoff"
    /\ worker' = "calling"
    /\ UNCHANGED <<callerVars, ready, queueVars, hand, tries, paused, shown>>

\* Mutant: after a FloodWait the futures get nothing.
CallFailsSilently(flood, transient) ==
    /\ worker = "calling"
    /\ CarriedOut \/ UNCHANGED shown
    /\ IF flood THEN UNCHANGED caller ELSE Settle("failed", transient)
    /\ paused' = (paused \/ flood)
    /\ WorkerFree
    /\ UNCHANGED <<asked, keyOf, way, attempt, ready, queueVars>>

\* The call raises.  The text of the error decides, independently, whether it
\* is a FloodWait and whether it is transient.
CallFails(flood, transient) ==
    /\ worker = "calling"
    /\ CarriedOut \/ UNCHANGED shown
    /\ Settle("failed", transient)
    /\ paused' = (paused \/ flood)
    /\ WorkerFree
    /\ UNCHANGED <<asked, keyOf, way, attempt, ready, queueVars>>

\* The time of the FloodWait has passed.
PauseOver ==
    /\ paused /\ paused' = FALSE
    /\ UNCHANGED <<callerVars, ready, queueVars, workerVars, shown>>

\* shutdown: the worker is cancelled wherever it waits; nobody is told.
Shutdown ==
    /\ worker # "stopped" /\ worker' = "stopped"
    /\ UNCHANGED <<callerVars, ready, queueVars, hand, tries, paused, shown>>

CallEnds   == CallSucceeds \/ \E flood, transient \in BOOLEAN : CallFails(flood, transient)

LimiterNext ==
    \/ \E c \in Calls : AskAndAwait(c) \/ AskInBackground(c) \/ Retry(c) \/ Abandon(c)
    \/ StartTask \/ Take \/ WorkerWakes \/ CallSucceeds \/ PlatformRetries \/ PlatformCallsAgain
    \/ \E flood, transient \in BOOLEAN : CallFails(flood, transient)
    \/ PauseOver \/ Shutdown

\* The event loop runs what is ready, sleeps end (a throttled worker finds room
\* in the end: nobody else takes from its window), and the platform's client
\* has timeouts.
LimiterFairness ==
    /\ WF_limiterVars(StartTask) /\ WF_limiterVars(PauseOver)
    /\ WF_limiterVars(Take) /\ WF_limiterVars(WorkerWakes /\ worker' = "calling")
    /\ WF_limiterVars(PlatformCallsAgain) /\ WF_limiterVars(CallEnds)
    /\ \A c \in Calls : WF_limiterVars(Retry(c))

LimiterSpec == LimiterInit /\ [][LimiterNext]_limiterVars /\ LimiterFairness

-----------------------------------------------------------------------------

\* Nobody is forgotten: the queue holds each key of the map once, and whoever
\* waits for an answer has its future in the map under its key or in the
\* worker's hand - and nowhere twice - for as long as the limiter runs.
NobodyForgotten ==
    /\ \A i, j \in 1..Len(queue) : queue[i] = queue[j] => i = j
    /\ \A k \in Keys : (entry[k] # Nothing) <=> (\E i \in 1..Len(queue) : queue[i] = k)
    /\ \A c \in Calls : caller[c] = "waiting" =>
          \/ c \in entry[keyOf[c]].futures /\ c \notin hand.futures
          \/ c \in hand.futures /\ c \notin entry[keyOf[c]].futures /\ keyOf[hand.func] = keyOf[c]

\* A FloodWait pauses the worker: it starts no call before the pause is over.
\* (The adapter's own retries belong to a call that was started before.)
PauseHonoured ==
    [][worker' = "calling" /\ worker \in {"idle", "paused", "throttled"} => ~paused]_limiterVars

\* An older text replaces a newer one on the screen only if it came late: by a
\* retry, through a task of a task, or behind one that was asked for directly.
StaleOnlyIfLate ==
    [][\A k \in Keys : shown'[k] < shown[k] =>
          attempt[shown'[k]] > 0 \/ way[shown'[k]] = "relay"
          \/ way[shown[k]] = "await"]_limiterVars

\* Whoever waits for a call is answered in the end, unless the limiter is shut
\* down first; a fire-and-forget is given up on after its retries.
EventuallyAnswered ==
    \A c \in Calls : (c \in asked) ~> (caller[c] \in {"answered", "failed", "gone"} \/ worker = "stopped")

=============================================================================
