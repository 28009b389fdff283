----------------------------- MODULE TaskProofs -----------------------------
(***************************************************************************)
(* The tasks that run side by side: the calls of the messaging limiter,    *)
(* voice notes and the CLI sessions, for any number of them.               *)
(*                                                                         *)
(* Nobody who waits for a call is forgotten: that needs to be known        *)
(* together with what makes a future belong to one key only (EntriesOwn,   *)
(* HandOwn) and with whose future can be in the queue or in the worker's   *)
(* hand at all: not that of a call whose task is starting or backs off,    *)
(* which will enter the queue later (NotYet).  No call starts during a     *)
(* pause.  An older text comes back to the screen only if it came late:    *)
(* calls enter the queue in their order but for those (EnteredFirst), so   *)
(* once the later of two has been taken or shown the earlier one is        *)
(* nowhere on its way (NoReturn).                                          *)
(*                                                                         *)
(* A cancelled voice note is never handled: it has to be known that a note *)
(* of which the user was told is no longer pending, that its keys come and *)
(* go together, and that nothing is pending that was not announced.        *)
(*                                                                         *)
(* The session manager knows the sessions of its tasks by both of their    *)
(* ids: that needs a conversation to have one task at work (OneAtWork),    *)
(* ids and sessions to stay in their conversation (Families), and the lock *)
(* to be held from the pop of a session to the end of its process          *)
(* (LockHeld).  No CLI survives the program, because a task whose process  *)
(* runs has the lock of its session (Generators), so that nobody's         *)
(* generator unregisters it, and because the process that is waited for    *)
(* under the lock is that of a cancelled task or still that of its session *)
(* (DyingInv).                                                             *)
(***************************************************************************)
EXTENDS MessagingRateLimiter, VoiceNotes, CLISessions, TLAPS, FiniteSetTheorems

\* The functions and the futures of an entry were asked for under its key.
EntriesOwn ==
    \A k \in Keys : entry[k] # Nothing =>
        /\ entry[k].func \in Calls /\ keyOf[entry[k].func] = k
        /\ \A c \in entry[k].futures : keyOf[c] = k
HandOwn ==
    /\ worker = "idle" => hand = Nothing
    /\ hand # Nothing =>
        /\ hand.func \in Calls
        /\ \A c \in hand.futures : keyOf[c] = keyOf[hand.func]

\* Each new task is that of one starting call, and their futures are nowhere yet.
Starting ==
    /\ \A i \in 1..Len(ready) : ready[i][1] \in asked /\ caller[ready[i][1]] = "starting"
    /\ \A i, j \in 1..Len(ready) : ready[i][1] = ready[j][1] => i = j
NotYet ==
    \A c \in Calls :
        /\ c \notin asked => caller[c] = "none"
        /\ caller[c] \in {"none", "starting", "backoff"} =>
              c \notin entry[keyOf[c]].futures /\ c \notin hand.futures

\* The worker waits for the window only when there is no pause.
ThrottledUnpaused == worker = "throttled" => ~paused

\* Who backs off has retries left.
RetriesLeft == \A c \in Calls : caller[c] = "backoff" => attempt[c] < MaxRetries

LimiterInv ==
    /\ LimiterTypeOK /\ RetriesLeft /\ NobodyForgotten /\ EntriesOwn /\ HandOwn /\ Starting /\ NotYet /\ ThrottledUnpaused

-----------------------------------------------------------------------------
(* Types.                                                                  *)

LEMMA NothingEntry == Nothing \in Entries
  BY DEF Nothing, Entries

LEMMA LimiterTypeInit == LimiterInit => LimiterTypeOK
<1> SUFFICES ASSUME LimiterInit PROVE LimiterTypeOK
  OBVIOUS
<1>1. PlatformTries \in Nat /\ 0 \in 0..PlatformTries /\ 0 \in 0..MaxRetries
  BY LimiterAssumption
<1>2. <<>> \in Seq(Keys) /\ <<>> \in Seq(Calls \X {1, 2})
  OBVIOUS
<1>3. /\ caller = [c \in Calls |-> "none"] /\ attempt = [c \in Calls |-> 0]
      /\ entry = [k \in Keys |-> Nothing] /\ shown = [k \in Keys |-> 0]
  BY DEF LimiterInit
<1>4. /\ caller \in [Calls -> {"none", "starting", "waiting", "backoff", "answered", "failed", "gone"}]
      /\ attempt \in [Calls -> 0..MaxRetries]
      /\ entry \in [Keys -> Entries] /\ shown \in [Keys -> Calls \cup {0}]
  BY <1>1, <1>3, NothingEntry
<1> QED BY <1>1, <1>2, <1>4, NothingEntry DEF LimiterInit, LimiterTypeOK

\* A call enters the queue.
LEMMA EnqueueType ==
    ASSUME LimiterTypeOK, NEW c \in Calls, Enqueue(c)
    PROVE  entry' \in [Keys -> Entries] /\ queue' \in Seq(Keys)
<1>1. keyOf[c] \in Keys /\ entry[keyOf[c]] \in Entries
  BY DEF LimiterTypeOK
<1>2. [func |-> c, futures |-> entry[keyOf[c]].futures \cup {c}] \in Entries
  BY <1>1 DEF Entries
<1>3. entry' = [entry EXCEPT ![keyOf[c]] = [func |-> c, futures |-> entry[keyOf[c]].futures \cup {c}]]
  BY <1>1 DEF Enqueue, LimiterTypeOK
<1>4. entry' \in [Keys -> Entries]
  BY <1>1, <1>2, <1>3 DEF LimiterTypeOK
<1>5. queue' \in Seq(Keys)
  BY <1>1 DEF Enqueue, LimiterTypeOK
<1> QED BY <1>4, <1>5

LEMMA TakeHeadType ==
    ASSUME LimiterTypeOK, TakeHead
    PROVE  hand' \in Entries /\ entry' \in [Keys -> Entries] /\ queue' \in Seq(Keys)
<1>1. Head(queue) \in Keys /\ Tail(queue) \in Seq(Keys)
  BY DEF TakeHead, LimiterTypeOK
<1> QED BY <1>1, NothingEntry DEF TakeHead, LimiterTypeOK

LEMMA LimiterTypeStep == ASSUME LimiterTypeOK, RetriesLeft, [LimiterNext]_limiterVars PROVE LimiterTypeOK'
<1> USE LimiterAssumption
<1>0. 0 \in 0..PlatformTries /\ 1 \in 0..PlatformTries /\ PlatformTries \in 0..PlatformTries
  OBVIOUS
<1>1. CASE UNCHANGED limiterVars
  BY <1>1 DEF LimiterTypeOK, limiterVars, callerVars, queueVars, workerVars
<1>2. ASSUME NEW c \in Calls, AskAndAwait(c) PROVE LimiterTypeOK'
  BY <1>2, EnqueueType DEF AskAndAwait, LimiterTypeOK, workerVars
<1>3. ASSUME NEW c \in Calls, AskInBackground(c) PROVE LimiterTypeOK'
  <2>1. ready' \in Seq(Calls \X {1, 2})
    BY <1>3 DEF AskInBackground, LimiterTypeOK
  <2> QED BY <1>3, <2>1 DEF AskInBackground, LimiterTypeOK, queueVars, workerVars
<1>4. ASSUME NEW c \in Calls, Retry(c) PROVE LimiterTypeOK'
  <2>1. attempt[c] + 1 \in 0..MaxRetries
    BY <1>4 DEF Retry, RetriesLeft, LimiterTypeOK
  <2> QED BY <1>4, <2>1, EnqueueType DEF Retry, LimiterTypeOK, workerVars
<1>5. ASSUME NEW c \in Calls, Abandon(c) PROVE LimiterTypeOK'
  BY <1>5 DEF Abandon, LimiterTypeOK, queueVars, workerVars
<1>6. CASE StartTask
  <2> DEFINE c == Head(ready)[1]
  <2>1. c \in Calls /\ Tail(ready) \in Seq(Calls \X {1, 2})
    BY <1>6 DEF StartTask, LimiterTypeOK
  <2>2. CASE ready' = Append(Tail(ready), <<c, 1>>) /\ UNCHANGED <<caller, queueVars>>
    BY <1>6, <2>1, <2>2 DEF StartTask, LimiterTypeOK, queueVars, workerVars
  <2>3. CASE ready' = Tail(ready) /\ caller' = [caller EXCEPT ![c] = "waiting"] /\ Enqueue(c)
    BY <1>6, <2>1, <2>3, EnqueueType DEF StartTask, LimiterTypeOK, workerVars
  <2> QED BY <1>6, <2>2, <2>3 DEF StartTask
<1>7. CASE Take
  BY <1>0, <1>7, TakeHeadType DEF Take, TakeHead, Acquire, LimiterTypeOK, callerVars
<1>8. CASE WorkerWakes
  BY <1>0, <1>8 DEF WorkerWakes, Acquire, LimiterTypeOK, callerVars, queueVars
<1>9. ASSUME NEW outcome \in {"answered", "failed"}, NEW transient, Settle(outcome, transient)
      PROVE  caller' \in [Calls -> {"none", "starting", "waiting", "backoff", "answered", "failed", "gone"}]
  BY <1>9 DEF Settle, LimiterTypeOK
<1>10. ASSUME worker = "calling", CarriedOut \/ UNCHANGED shown, hand.func \in Calls \cup {0}
       PROVE  shown' \in [Keys -> Calls \cup {0}]
  BY <1>10 DEF CarriedOut, LimiterTypeOK
<1>11. hand.func \in Calls \cup {0}
  BY DEF LimiterTypeOK, Entries
<1>12. CASE CallSucceeds
  BY <1>0, <1>9, <1>10, <1>11, <1>12, NothingEntry DEF CallSucceeds, WorkerFree, LimiterTypeOK, queueVars
<1>13. CASE PlatformRetries
  <2>1. tries - 1 \in 0..PlatformTries
    BY <1>13 DEF PlatformRetries, LimiterTypeOK
  <2> QED BY <1>0, <1>10, <1>11, <1>13, <2>1 DEF PlatformRetries, LimiterTypeOK, callerVars, queueVars
<1>14. CASE PlatformCallsAgain
  BY <1>14 DEF PlatformCallsAgain, LimiterTypeOK, callerVars, queueVars
<1>15. ASSUME NEW flood \in BOOLEAN, NEW transient \in BOOLEAN, CallFails(flood, transient) PROVE LimiterTypeOK'
  <2>1. paused' \in BOOLEAN
    BY <1>15 DEF CallFails, LimiterTypeOK
  <2> QED BY <1>0, <1>9, <1>10, <1>11, <1>15, <2>1, NothingEntry DEF CallFails, WorkerFree, LimiterTypeOK, queueVars
<1>16. CASE PauseOver
  BY <1>16 DEF PauseOver, LimiterTypeOK, callerVars, queueVars, workerVars
<1>17. CASE Shutdown
  BY <1>17 DEF Shutdown, LimiterTypeOK, callerVars, queueVars
<1> QED BY <1>1, <1>2, <1>3, <1>4, <1>5, <1>6, <1>7, <1>8, <1>12, <1>13, <1>14, <1>15, <1>16, <1>17 DEF LimiterNext

LEMMA RetriesLeftStep ==
    ASSUME LimiterTypeOK, RetriesLeft, [LimiterNext]_limiterVars PROVE RetriesLeft'
<1>1. ASSUME NEW c \in Calls, caller'[c] = "backoff" PROVE attempt'[c] < MaxRetries
  <2>1. \/ caller[c] = "backoff" \/ attempt[c] < MaxRetries
    BY <1>1 DEF LimiterNext, limiterVars, callerVars, LimiterTypeOK, AskAndAwait, AskInBackground, Retry, Abandon,
                StartTask, Take, TakeHead, WorkerWakes, CallSucceeds, PlatformRetries, PlatformCallsAgain, CallFails,
                Settle, PauseOver, Shutdown
  <2>2. attempt'[c] = attempt[c]
    BY <1>1 DEF LimiterNext, limiterVars, callerVars, LimiterTypeOK, AskAndAwait, AskInBackground, Retry, Abandon,
                StartTask, Take, TakeHead, WorkerWakes, CallSucceeds, PlatformRetries, PlatformCallsAgain, CallFails,
                PauseOver, Shutdown
  <2> QED BY <2>1, <2>2 DEF RetriesLeft
<1> QED BY <1>1 DEF RetriesLeft

-----------------------------------------------------------------------------
(* Whose future is where.                                                  *)

FuturesInv == NobodyForgotten /\ EntriesOwn /\ HandOwn /\ NotYet

\* A call that was nowhere enters the queue.
LEMMA EnqueueKeeps ==
    ASSUME LimiterTypeOK, FuturesInv, NEW c \in Calls, caller[c] \in {"none", "starting", "backoff"},
           Enqueue(c), caller' = [caller EXCEPT ![c] = "waiting"],
           asked' = asked \cup {c}, UNCHANGED <<keyOf, hand, worker>>
    PROVE  FuturesInv'
<1> DEFINE k == keyOf[c]
<1>1. /\ k \in Keys /\ queue \in Seq(Keys)
      /\ c \notin entry[k].futures /\ c \notin hand.futures
  BY DEF LimiterTypeOK, FuturesInv, NotYet
<1>2. /\ entry'[k] = [func |-> c, futures |-> entry[k].futures \cup {c}]
      /\ \A l \in Keys \ {k} : entry'[l] = entry[l]
  BY <1>1 DEF Enqueue, LimiterTypeOK
<1>3. entry'[k] # Nothing
  <2>1. c # 0
    BY LimiterAssumption
  <2> QED BY <1>2, <2>1 DEF Nothing
<1>4. /\ \A i, j \in 1..Len(queue') : queue'[i] = queue'[j] => i = j
      /\ \A l \in Keys : (entry'[l] # Nothing) <=> (\E i \in 1..Len(queue') : queue'[i] = l)
  <2>1. /\ \A i, j \in 1..Len(queue) : queue[i] = queue[j] => i = j
        /\ \A l \in Keys : (entry[l] # Nothing) <=> (\E i \in 1..Len(queue) : queue[i] = l)
    BY DEF FuturesInv, NobodyForgotten
  <2>2. CASE entry[k] # Nothing
    <3>1. queue' = queue
      BY <2>2 DEF Enqueue
    <3> QED BY <1>2, <1>3, <2>1, <2>2, <3>1
  <2>3. CASE entry[k] = Nothing
    <3>1. queue' = Append(queue, k)
      BY <2>3 DEF Enqueue
    <3>2. /\ Len(queue') = Len(queue) + 1 /\ queue'[Len(queue) + 1] = k
          /\ \A i \in 1..Len(queue) : queue'[i] = queue[i]
      BY <1>1, <3>1
    <3>3. \A i \in 1..Len(queue) : queue[i] # k
      BY <1>1, <2>1, <2>3
    <3>4. Len(queue) \in Nat
      BY <1>1
    <3>5. \A i \in 1..Len(queue') : i \in 1..Len(queue) \/ i = Len(queue) + 1
      BY <3>2, <3>4
    <3>6. Len(queue) + 1 \in 1..Len(queue') /\ \A i \in 1..Len(queue) : i \in 1..Len(queue')
      BY <3>2, <3>4
    <3>7. \A i, j \in 1..Len(queue') : queue'[i] = queue'[j] => i = j
      BY <2>1, <3>2, <3>3, <3>5
    <3>8. ASSUME NEW l \in Keys PROVE (entry'[l] # Nothing) <=> (\E i \in 1..Len(queue') : queue'[i] = l)
      <4>1. CASE l = k
        BY <1>3, <3>2, <3>6, <4>1
      <4>2. CASE l # k
        <5>1. (\E i \in 1..Len(queue') : queue'[i] = l) <=> (\E i \in 1..Len(queue) : queue[i] = l)
          BY <3>2, <3>5, <3>6, <4>2
        <5> QED BY <1>2, <2>1, <4>2, <5>1
      <4> QED BY <4>1, <4>2
    <3> QED BY <3>7, <3>8
  <2> QED BY <2>2, <2>3
<1>5. EntriesOwn'
  <2> SUFFICES ASSUME NEW l \in Keys, entry'[l] # Nothing
               PROVE  /\ entry'[l].func \in Calls /\ keyOf[entry'[l].func] = l
                      /\ \A d \in entry'[l].futures : keyOf[d] = l
    BY DEF EntriesOwn
  <2>1. CASE l # k
    BY <1>2, <2>1 DEF FuturesInv, EntriesOwn
  <2>2. CASE l = k
    <3>1. \A d \in entry[k].futures : keyOf[d] = k
      BY <1>1 DEF FuturesInv, EntriesOwn, Nothing
    <3> QED BY <1>2, <2>2, <3>1
  <2> QED BY <2>1, <2>2
<1>6. HandOwn'
  BY DEF FuturesInv, HandOwn
<1>7. ASSUME NEW d \in Calls \ {c}
      PROVE  /\ caller'[d] = caller[d]
             /\ d \in entry'[keyOf[d]].futures <=> d \in entry[keyOf[d]].futures
  <2>1. keyOf[d] \in Keys /\ caller'[d] = caller[d]
    BY DEF LimiterTypeOK
  <2>2. CASE keyOf[d] = k
    BY <1>2, <2>1, <2>2
  <2>3. CASE keyOf[d] # k
    BY <1>2, <2>1, <2>3
  <2> QED BY <2>1, <2>2, <2>3
<1>8. caller'[c] = "waiting" /\ c \in entry'[keyOf[c]].futures /\ c \notin hand'.futures
  BY <1>1, <1>2 DEF LimiterTypeOK
<1>9. NobodyForgotten'
  BY <1>4, <1>7, <1>8 DEF FuturesInv, NobodyForgotten
<1>10. NotYet'
  BY <1>7, <1>8 DEF FuturesInv, NotYet
<1> QED BY <1>5, <1>6, <1>9, <1>10 DEF FuturesInv

\* The worker takes the first entry.
LEMMA TakeHeadKeeps ==
    ASSUME LimiterTypeOK, FuturesInv, TakeHead, worker' # "idle" PROVE FuturesInv'
<1> DEFINE k == Head(queue)
<1>1. /\ queue \in Seq(Keys) /\ queue # <<>> /\ k \in Keys /\ k = queue[1] /\ Len(queue) \in Nat /\ 1 \in 1..Len(queue)
      /\ queue' = Tail(queue) /\ Len(queue') = Len(queue) - 1
      /\ \A i \in 1..Len(queue') : queue'[i] = queue[i + 1] /\ i + 1 \in 1..Len(queue)
  BY DEF TakeHead, LimiterTypeOK
<1>2. hand = Nothing /\ hand' = entry[k]
  BY DEF FuturesInv, HandOwn, TakeHead
<1>3. entry'[k] = Nothing /\ \A l \in Keys \ {k} : entry'[l] = entry[l]
  BY <1>1 DEF TakeHead, LimiterTypeOK
<1>4. UNCHANGED <<keyOf, caller, asked>>
  BY DEF TakeHead, callerVars
<1>5. /\ \A i, j \in 1..Len(queue) : queue[i] = queue[j] => i = j
      /\ \A l \in Keys : (entry[l] # Nothing) <=> (\E i \in 1..Len(queue) : queue[i] = l)
  BY DEF FuturesInv, NobodyForgotten
<1>6. entry[k] # Nothing
  BY <1>1, <1>5
<1>7. \A i, j \in 1..Len(queue') : queue'[i] = queue'[j] => i = j
  BY <1>1, <1>5
<1>8. ASSUME NEW l \in Keys PROVE (entry'[l] # Nothing) <=> (\E i \in 1..Len(queue') : queue'[i] = l)
  <2>1. CASE l = k
    <3>1. \A i \in 1..Len(queue') : queue'[i] # k
      BY <1>1, <1>5
    <3> QED BY <1>3, <2>1, <3>1
  <2>2. CASE l # k
    <3>1. ASSUME NEW i \in 1..Len(queue), queue[i] = l PROVE \E j \in 1..Len(queue') : queue'[j] = l
      <4>1. i - 1 \in 1..Len(queue') /\ queue'[i - 1] = queue[i]
        BY <1>1, <2>2, <3>1
      <4> QED BY <3>1, <4>1
    <3>2. ASSUME NEW i \in 1..Len(queue'), queue'[i] = l PROVE \E j \in 1..Len(queue) : queue[j] = l
      BY <1>1, <3>2
    <3> QED BY <1>3, <1>5, <2>2, <3>1, <3>2
  <2> QED BY <2>1, <2>2
<1>9. EntriesOwn'
  BY <1>3, <1>4 DEF FuturesInv, EntriesOwn
<1>10. HandOwn'
  BY <1>1, <1>2, <1>4, <1>6 DEF FuturesInv, HandOwn, EntriesOwn
<1>11. Nothing.futures = {}
  BY DEF Nothing
<1>12. ASSUME NEW c \in Calls
       PROVE  /\ keyOf[c] = k => (c \in hand'.futures <=> c \in entry[keyOf[c]].futures)
              /\ keyOf[c] = k => c \notin entry'[keyOf[c]].futures
              /\ keyOf[c] # k => c \notin hand'.futures
              /\ keyOf[c] # k => (c \in entry'[keyOf[c]].futures <=> c \in entry[keyOf[c]].futures)
              /\ c \notin hand.futures
  <2>1. keyOf[c] \in Keys
    BY DEF LimiterTypeOK
  <2> QED BY <1>1, <1>2, <1>3, <1>6, <1>11, <2>1 DEF FuturesInv, EntriesOwn
<1>13. ASSUME NEW c \in Calls, caller'[c] = "waiting"
       PROVE  \/ c \in entry'[keyOf'[c]].futures /\ c \notin hand'.futures
              \/ c \in hand'.futures /\ c \notin entry'[keyOf'[c]].futures /\ keyOf'[hand'.func] = keyOf'[c]
  <2>1. c \in entry[keyOf[c]].futures
    BY <1>4, <1>12, <1>13 DEF FuturesInv, NobodyForgotten
  <2>2. keyOf[hand'.func] = k
    BY <1>1, <1>2, <1>6 DEF FuturesInv, EntriesOwn
  <2> QED BY <1>4, <1>12, <2>1, <2>2
<1>14. NobodyForgotten'
  BY <1>7, <1>8, <1>13 DEF NobodyForgotten
<1>15. NotYet'
  BY <1>4, <1>12 DEF FuturesInv, NotYet
<1> QED BY <1>9, <1>10, <1>14, <1>15 DEF FuturesInv

\* A call ends: the futures of the worker's hand are settled.
LEMMA SettleKeeps ==
    ASSUME LimiterTypeOK, FuturesInv, NEW outcome \in {"answered", "failed"}, NEW transient \in BOOLEAN,
           Settle(outcome, transient), WorkerFree, UNCHANGED <<asked, keyOf, queueVars>>
    PROVE  FuturesInv'
<1>1. hand' = Nothing /\ hand'.futures = {}
  BY DEF WorkerFree, Nothing
<1>2. ASSUME NEW c \in Calls
      PROVE  /\ caller'[c] # caller[c] => c \in hand.futures /\ caller[c] = "waiting" /\ caller'[c] \in {"backoff", outcome}
             /\ caller[c] = "waiting" /\ c \in hand.futures => caller'[c] # "waiting"
  BY DEF Settle
<1>3. EntriesOwn' /\ HandOwn'
  BY <1>1 DEF FuturesInv, EntriesOwn, HandOwn, queueVars
<1>4. ASSUME NEW c \in Calls, caller'[c] = "waiting" PROVE c \in entry[keyOf[c]].futures
  <2>1. caller[c] = "waiting" /\ c \notin hand.futures
    BY <1>2, <1>4
  <2> QED BY <2>1 DEF FuturesInv, NobodyForgotten
<1>5. NobodyForgotten'
  BY <1>1, <1>4 DEF FuturesInv, NobodyForgotten, queueVars
<1>6. ASSUME NEW c \in Calls, caller'[c] \in {"none", "starting", "backoff"} PROVE c \notin entry[keyOf[c]].futures
  <2>1. CASE caller'[c] = caller[c]
    BY <1>6, <2>1 DEF FuturesInv, NotYet
  <2>2. CASE caller'[c] # caller[c]
    BY <1>2, <2>2 DEF FuturesInv, NobodyForgotten
  <2> QED BY <2>1, <2>2
<1>7. ASSUME NEW c \in Calls, c \notin asked PROVE caller'[c] = "none"
  BY <1>2, <1>7 DEF FuturesInv, NotYet
<1>8. NotYet'
  BY <1>1, <1>6, <1>7 DEF NotYet, queueVars
<1> QED BY <1>3, <1>5, <1>8 DEF FuturesInv

-----------------------------------------------------------------------------
(* The steps of the limiter.                                               *)

LEMMA LimiterInitInv == LimiterInit => LimiterInv
<1> SUFFICES ASSUME LimiterInit PROVE LimiterInv
  OBVIOUS
<1>1. /\ queue = <<>> /\ ready = <<>> /\ asked = {} /\ hand = Nothing /\ worker = "idle"
      /\ Nothing.futures = {}
      /\ \A k \in Keys : entry[k] = Nothing
      /\ \A c \in Calls : caller[c] = "none" /\ keyOf[c] \in Keys
  BY DEF LimiterInit, Nothing
<1> QED BY <1>1, LimiterTypeInit DEF LimiterInv, NobodyForgotten, EntriesOwn, HandOwn, Starting, NotYet, RetriesLeft,
                                     ThrottledUnpaused

\* A task of a call that has none yet.
LEMMA AppendTask ==
    ASSUME NEW s \in Seq(Calls \X {1, 2}), NEW c \in Calls, NEW n \in {1, 2},
           \A i, j \in 1..Len(s) : s[i][1] = s[j][1] => i = j,
           \A i \in 1..Len(s) : s[i][1] # c
    PROVE  LET t == Append(s, <<c, n>>)
           IN  /\ \A i \in 1..Len(t) : t[i][1] = c \/ \E j \in 1..Len(s) : t[i][1] = s[j][1]
               /\ \A i, j \in 1..Len(t) : t[i][1] = t[j][1] => i = j
<1> DEFINE t == Append(s, <<c, n>>)
<1>1. /\ Len(s) \in Nat /\ Len(t) = Len(s) + 1 /\ t[Len(s) + 1] = <<c, n>>
      /\ \A i \in 1..Len(s) : t[i] = s[i]
  OBVIOUS
<1> HIDE DEF t
<1>2. ASSUME NEW i \in 1..Len(t)
      PROVE  (i \in 1..Len(s) /\ t[i][1] = s[i][1]) \/ (i = Len(s) + 1 /\ t[i][1] = c)
  <2>1. CASE i = Len(s) + 1
    <3>1. t[i] = <<c, n>>
      BY <1>1, <2>1
    <3>2. t[i][1] = c
      BY <3>1
    <3> QED BY <2>1, <3>2
  <2>2. CASE i # Len(s) + 1
    <3>1. i \in 1..Len(s)
      BY <1>1, <2>2
    <3> QED BY <1>1, <3>1
  <2> QED BY <2>1, <2>2
<1>3. ASSUME NEW i \in 1..Len(t), NEW j \in 1..Len(t), t[i][1] = t[j][1] PROVE i = j
  <2>1. CASE i \in 1..Len(s) /\ t[i][1] = s[i][1]
    <3>1. j \in 1..Len(s) /\ t[j][1] = s[j][1]
      BY <1>2, <1>3, <2>1
    <3> QED BY <1>3, <2>1, <3>1
  <2>2. CASE i = Len(s) + 1 /\ t[i][1] = c
    BY <1>2, <1>3, <2>2
  <2> QED BY <1>2, <2>1, <2>2
<1>4. \A i \in 1..Len(t) : t[i][1] = c \/ \E j \in 1..Len(s) : t[i][1] = s[j][1]
  BY <1>2
<1> QED BY <1>3, <1>4 DEF t

\* New tasks start in the order of their creation; a relayed one makes another.
LEMMA StartingStep ==
    ASSUME LimiterInv, [LimiterNext]_limiterVars PROVE Starting'
<1> USE DEF LimiterInv, LimiterTypeOK
<1>1. ASSUME UNCHANGED ready, asked \subseteq asked', \A c \in Calls : caller[c] = "starting" => caller'[c] = "starting"
      PROVE  Starting'
  <2>1. \A i \in 1..Len(ready) : ready[i][1] \in Calls
    OBVIOUS
  <2> QED BY <1>1, <2>1 DEF Starting
<1>2. ASSUME NEW c \in Calls, AskInBackground(c) PROVE Starting'
  <2>1. /\ c \notin asked /\ asked' = asked \cup {c} /\ caller'[c] = "starting"
        /\ \A d \in Calls \ {c} : caller'[d] = caller[d]
    BY <1>2 DEF AskInBackground
  <2>2. PICK n \in {1, 2} : ready' = Append(ready, <<c, n>>)
    BY <1>2 DEF AskInBackground
  <2>3. \A i \in 1..Len(ready) : ready[i][1] \in Calls /\ ready[i][1] # c /\ ready[i][1] \in asked /\ caller[ready[i][1]] = "starting"
    BY <2>1 DEF Starting
  <2>4. \A i, j \in 1..Len(ready) : ready[i][1] = ready[j][1] => i = j
    BY DEF Starting
  <2>5. /\ \A i \in 1..Len(ready') : ready'[i][1] = c \/ \E j \in 1..Len(ready) : ready'[i][1] = ready[j][1]
        /\ \A i, j \in 1..Len(ready') : ready'[i][1] = ready'[j][1] => i = j
    BY SMTT(40), <2>2, <2>3, <2>4, AppendTask
  <2>6. \A i \in 1..Len(ready') : ready'[i][1] \in asked' /\ caller'[ready'[i][1]] = "starting"
    BY <2>1, <2>3, <2>5
  <2> QED BY <2>5, <2>6 DEF Starting
<1>3. CASE StartTask
  <2> DEFINE c == Head(ready)[1]
  <2>1. /\ ready \in Seq(Calls \X {1, 2}) /\ ready # <<>> /\ c = ready[1][1] /\ c \in Calls
        /\ Len(ready) \in Nat /\ 1 \in 1..Len(ready)
        /\ Tail(ready) \in Seq(Calls \X {1, 2}) /\ Len(Tail(ready)) = Len(ready) - 1
        /\ \A i \in 1..Len(Tail(ready)) : Tail(ready)[i] = ready[i + 1] /\ i + 1 \in 1..Len(ready)
    BY <1>3 DEF StartTask
  <2>2. /\ \A i \in 1..Len(Tail(ready)) :
              Tail(ready)[i][1] # c /\ Tail(ready)[i][1] \in asked /\ caller[Tail(ready)[i][1]] = "starting"
        /\ \A i, j \in 1..Len(Tail(ready)) : Tail(ready)[i][1] = Tail(ready)[j][1] => i = j
        /\ caller[c] = "starting" /\ c \in asked
    BY <2>1 DEF Starting
  <2>3. CASE ready' = Append(Tail(ready), <<c, 1>>) /\ UNCHANGED caller
    <3>1. UNCHANGED asked
      BY <1>3 DEF StartTask
    <3> DEFINE s == Tail(ready)
    <3>2. /\ s \in Seq(Calls \X {1, 2}) /\ c \in Calls /\ 1 \in {1, 2} /\ ready' = Append(s, <<c, 1>>)
          /\ \A i, j \in 1..Len(s) : s[i][1] = s[j][1] => i = j
          /\ \A i \in 1..Len(s) : s[i][1] # c
      BY <2>1, <2>2, <2>3
    <3> HIDE DEF c, s
    <3>3. /\ \A i \in 1..Len(ready') : ready'[i][1] = c \/ \E j \in 1..Len(s) : ready'[i][1] = s[j][1]
          /\ \A i, j \in 1..Len(ready') : ready'[i][1] = ready'[j][1] => i = j
      BY ONLY <3>2, AppendTask
    <3>4. \A i \in 1..Len(ready') : ready'[i][1] \in asked /\ caller[ready'[i][1]] = "starting"
      <4>1. /\ \A j \in 1..Len(s) : s[j][1] \in asked /\ caller[s[j][1]] = "starting"
            /\ c \in asked /\ caller[c] = "starting"
        BY <2>2 DEF s
      <4> QED BY ONLY <3>3, <4>1
    <3> QED BY <2>3, <3>1, <3>3, <3>4 DEF Starting
  <2>4. CASE ready' = Tail(ready) /\ caller' = [caller EXCEPT ![c] = "waiting"]
    <3>1. UNCHANGED asked
      BY <1>3 DEF StartTask
    <3>2. \A i \in 1..Len(Tail(ready)) : Tail(ready)[i][1] \in Calls
      BY <2>1
    <3> HIDE DEF c
    <3> QED BY <2>1, <2>2, <2>4, <3>1, <3>2 DEF Starting
  <2> QED BY <1>3, <2>3, <2>4 DEF StartTask, queueVars
<1>4. ASSUME NEW c \in Calls, AskAndAwait(c) \/ Retry(c) \/ Abandon(c) PROVE Starting'
  <2>1. caller[c] # "starting"
    BY <1>4 DEF AskAndAwait, Retry, Abandon, NotYet
  <2> QED BY <1>1, <1>4, <2>1 DEF AskAndAwait, Retry, Abandon
<1>5. CASE CallSucceeds \/ \E flood, transient \in BOOLEAN : CallFails(flood, transient)
  BY <1>1, <1>5 DEF CallSucceeds, CallFails, Settle
<1>6. CASE Take \/ WorkerWakes \/ PlatformRetries \/ PlatformCallsAgain \/ PauseOver \/ Shutdown \/ UNCHANGED limiterVars
  BY <1>1, <1>6 DEF Take, TakeHead, WorkerWakes, PlatformRetries, PlatformCallsAgain, PauseOver, Shutdown,
                    limiterVars, callerVars
<1> QED BY <1>2, <1>3, <1>4, <1>5, <1>6 DEF LimiterNext

LEMMA FuturesStep ==
    ASSUME LimiterInv, [LimiterNext]_limiterVars PROVE FuturesInv'
<1>0. LimiterTypeOK /\ FuturesInv
  BY DEF LimiterInv, FuturesInv
<1>1. ASSUME UNCHANGED <<queueVars, hand, keyOf>>, worker' = "idle" => worker = "idle",
             asked \subseteq asked',
             \A c \in Calls :
                /\ caller'[c] = "waiting" => caller[c] = "waiting"
                /\ c \notin asked' => caller'[c] = "none"
                /\ caller'[c] \in {"none", "starting", "backoff"} => caller[c] \in {"none", "starting", "backoff"}
      PROVE  FuturesInv'
  BY <1>0, <1>1 DEF FuturesInv, NobodyForgotten, EntriesOwn, HandOwn, NotYet, queueVars
<1>2. ASSUME NEW c \in Calls, AskAndAwait(c) PROVE FuturesInv'
  <2>1. caller[c] = "none"
    BY <1>0, <1>2 DEF AskAndAwait, FuturesInv, NotYet
  <2> QED BY <1>0, <1>2, <2>1, EnqueueKeeps DEF AskAndAwait, workerVars
<1>3. ASSUME NEW c \in Calls, AskInBackground(c) PROVE FuturesInv'
  <2>1. caller[c] = "none"
    BY <1>0, <1>3 DEF AskInBackground, FuturesInv, NotYet
  <2>2. \A d \in Calls : d \notin asked' => caller'[d] = "none"
    BY <1>0, <1>3 DEF AskInBackground, LimiterTypeOK, FuturesInv, NotYet
  <2> QED BY <1>0, <1>1, <1>3, <2>1, <2>2 DEF AskInBackground, LimiterTypeOK, workerVars
<1>4. ASSUME NEW c \in Calls, Retry(c) PROVE FuturesInv'
  <2>1. c \in asked
    BY <1>0, <1>4 DEF Retry, FuturesInv, NotYet
  <2> QED BY <1>0, <1>4, <2>1, EnqueueKeeps DEF Retry, workerVars
<1>5. ASSUME NEW c \in Calls, Abandon(c) PROVE FuturesInv'
  <2>1. \A d \in Calls : d \notin asked' => caller'[d] = "none"
    BY <1>0, <1>5 DEF Abandon, LimiterTypeOK, FuturesInv, NotYet
  <2> QED BY <1>0, <1>1, <1>5, <2>1 DEF Abandon, LimiterTypeOK, workerVars
<1>6. CASE StartTask
  <2> DEFINE c == Head(ready)[1]
  <2>1. c \in Calls /\ c \in asked /\ caller[c] = "starting"
    <3>1. Head(ready) = ready[1] /\ 1 \in 1..Len(ready) /\ ready[1][1] \in Calls
      BY <1>0, <1>6 DEF StartTask, LimiterTypeOK
    <3> QED BY <3>1 DEF LimiterInv, Starting
  <2>2. CASE UNCHANGED <<caller, queueVars>>
    <3>1. \A d \in Calls : d \notin asked => caller[d] = "none"
      BY <1>0 DEF FuturesInv, NotYet
    <3> QED BY <1>1, <1>6, <2>2, <3>1 DEF StartTask, workerVars
  <2>3. CASE caller' = [caller EXCEPT ![c] = "waiting"] /\ Enqueue(c)
    BY <1>0, <1>6, <2>1, <2>3, EnqueueKeeps DEF StartTask, workerVars
  <2> QED BY <1>6, <2>2, <2>3 DEF StartTask
<1>7. CASE Take
  BY <1>0, <1>7, TakeHeadKeeps DEF Take, Acquire
<1>8. CASE CallSucceeds
  BY <1>0, <1>8, SettleKeeps DEF CallSucceeds
<1>9. ASSUME NEW flood \in BOOLEAN, NEW transient \in BOOLEAN, CallFails(flood, transient) PROVE FuturesInv'
  BY <1>0, <1>9, SettleKeeps DEF CallFails
<1>10. CASE WorkerWakes \/ PlatformRetries \/ PlatformCallsAgain \/ PauseOver \/ Shutdown \/ UNCHANGED limiterVars
  <2>1. UNCHANGED <<queueVars, hand, callerVars>> /\ (worker' = "idle" => worker = "idle")
    BY <1>10 DEF WorkerWakes, Acquire, PlatformRetries, PlatformCallsAgain, PauseOver, Shutdown, limiterVars, workerVars
  <2>2. \A d \in Calls : d \notin asked => caller[d] = "none"
    BY <1>0 DEF FuturesInv, NotYet
  <2> QED BY <1>1, <2>1, <2>2 DEF callerVars
<1> QED BY <1>2, <1>3, <1>4, <1>5, <1>6, <1>7, <1>8, <1>9, <1>10 DEF LimiterNext

LEMMA ThrottledStep == ASSUME LimiterInv, [LimiterNext]_limiterVars PROVE ThrottledUnpaused'
  BY DEF LimiterInv, ThrottledUnpaused, LimiterNext, limiterVars, workerVars, AskAndAwait, AskInBackground, Retry, Abandon,
         StartTask, Take, TakeHead, Acquire, WorkerWakes, CallSucceeds, WorkerFree, PlatformRetries, PlatformCallsAgain,
         CallFails, PauseOver, Shutdown

LEMMA LimiterStep == ASSUME LimiterInv, [LimiterNext]_limiterVars PROVE LimiterInv'
  BY LimiterTypeStep, RetriesLeftStep, FuturesStep, StartingStep, ThrottledStep DEF LimiterInv, FuturesInv

\* What the limiter's variables hold, for any number of calls, keys and retries.
THEOREM LimiterTypeCorrect == LimiterSpec => []LimiterTypeOK
<1>1. LimiterInv => LimiterTypeOK BY DEF LimiterInv
<1> QED BY LimiterInitInv, LimiterStep, <1>1, PTL DEF LimiterSpec

\* Whoever waits for a call has its future in the queue or in the worker's hand, in
\* one of them only, whatever is queued, replaced, retried or cancelled.
THEOREM NobodyForgottenCorrect == LimiterSpec => []NobodyForgotten
<1>1. LimiterInv => NobodyForgotten BY DEF LimiterInv
<1> QED BY LimiterInitInv, LimiterStep, <1>1, PTL DEF LimiterSpec

\* No call is started while a FloodWait lasts.
THEOREM PauseHonouredCorrect == LimiterSpec => PauseHonoured
<1>1. ASSUME LimiterInv, [LimiterNext]_limiterVars
      PROVE  [worker' = "calling" /\ worker \in {"idle", "paused", "throttled"} => ~paused]_limiterVars
  BY <1>1 DEF LimiterInv, ThrottledUnpaused, LimiterNext, limiterVars, workerVars, AskAndAwait, AskInBackground, Retry,
              Abandon, StartTask, Take, TakeHead, Acquire, WorkerWakes, CallSucceeds, WorkerFree, PlatformRetries,
              PlatformCallsAgain, CallFails, PauseOver, Shutdown
<1> QED BY LimiterInitInv, LimiterStep, <1>1, PTL DEF LimiterSpec, PauseHonoured

-----------------------------------------------------------------------------
(* Which of two calls of one key comes later.                              *)

\* Calls are asked for in their order.
AskedInOrder == \A c \in asked, d \in Calls : d < c => d \in asked

\* A new task is that of a call nobody waits for; it is on its first lap unless
\* it is relayed; one that is not relayed is behind those of all earlier calls.
NewTasks ==
    /\ \A i \in 1..Len(ready) : ready[i][2] = 2 => way[ready[i][1]] = "relay"
    /\ \A i, j \in 1..Len(ready) : i < j /\ way[ready[j][1]] # "relay" => ready[i][1] < ready[j][1]
    /\ \A c \in Calls : caller[c] = "starting" =>
          way[c] # "await" /\ \E i \in 1..Len(ready) : ready[i][1] = c

\* A call has been in the queue once: it was asked for and its task has started.
Entered(c) == c \in asked /\ caller[c] # "starting"

\* The earlier of two calls enters first, unless it is relayed or the later one
\* is awaited and so passes the tasks that are starting.
EnteredFirst ==
    \A c, d \in Calls : Entered(d) /\ way[d] # "await" /\ c < d /\ way[c] # "relay" => Entered(c)

\* Only what has entered is in the queue, in the worker's hand or on the screen.
OnlyEntered ==
    /\ \A k \in Keys : entry[k] # Nothing => Entered(entry[k].func)
    /\ \A k \in Keys : shown[k] # 0 => Entered(shown[k]) /\ keyOf[shown[k]] = k
    /\ hand # Nothing => Entered(hand.func)
HandFull == worker \notin {"idle", "stopped"} => hand # Nothing

\* Once the later of two calls has been taken or shown, the earlier one is neither
\* in the queue nor in the hand, unless it came late.
Behind(c, d) ==
    /\ c < d /\ keyOf[c] = keyOf[d]
    /\ way[c] # "relay" /\ attempt[c] = 0 /\ way[d] # "await"
NoReturn ==
    \A c, d \in Calls : Behind(c, d) =>
        /\ shown[keyOf[d]] = d => hand.func # c /\ entry[keyOf[c]].func # c
        /\ hand.func = d => entry[keyOf[c]].func # c

OrderInv == AskedInOrder /\ NewTasks /\ EnteredFirst /\ OnlyEntered /\ HandFull /\ NoReturn

LEMMA OrderInit == LimiterInit => OrderInv
<1> SUFFICES ASSUME LimiterInit PROVE OrderInv
  OBVIOUS
<1>1. /\ asked = {} /\ Len(ready) = 0 /\ ready = <<>> /\ hand = Nothing /\ worker = "idle" /\ Nothing.func = 0
      /\ \A k \in Keys : entry[k] = Nothing /\ shown[k] = 0
      /\ \A c \in Calls : caller[c] = "none" /\ keyOf[c] \in Keys /\ c # 0
  BY LimiterAssumption DEF LimiterInit, Nothing
<1>2. AskedInOrder /\ NewTasks /\ EnteredFirst /\ OnlyEntered /\ HandFull
  BY <1>1 DEF AskedInOrder, NewTasks, EnteredFirst, Entered, OnlyEntered, HandFull
<1>3. NoReturn
  BY <1>1 DEF NoReturn, Behind
<1> QED BY <1>2, <1>3 DEF OrderInv

\* A call that has entered has entered for ever.
LEMMA EnteredStays ==
    ASSUME LimiterInv, [LimiterNext]_limiterVars, NEW c \in Calls, Entered(c) PROVE Entered(c)'
<1>1. ASSUME UNCHANGED asked, caller'[c] # "starting" PROVE Entered(c)'
  BY <1>1 DEF Entered
<1>2. ASSUME NEW d \in Calls, AskAndAwait(d) PROVE Entered(c)'
  BY <1>2 DEF AskAndAwait, Entered, LimiterInv, LimiterTypeOK
<1>3. ASSUME NEW d \in Calls, AskInBackground(d) PROVE Entered(c)'
  BY <1>3 DEF AskInBackground, Entered, LimiterInv, LimiterTypeOK
<1>4. ASSUME NEW d \in Calls, Retry(d) \/ Abandon(d) PROVE Entered(c)'
  BY <1>4 DEF Retry, Abandon, Entered, LimiterInv, LimiterTypeOK
<1>5. CASE StartTask
  BY <1>5 DEF StartTask, Entered, LimiterInv, LimiterTypeOK
<1>6. CASE CallSucceeds \/ \E flood, transient \in BOOLEAN : CallFails(flood, transient)
  BY <1>6 DEF CallSucceeds, CallFails, Settle, Entered
<1>7. CASE Take \/ WorkerWakes \/ PlatformRetries \/ PlatformCallsAgain \/ PauseOver \/ Shutdown \/ UNCHANGED limiterVars
  BY <1>7 DEF Take, TakeHead, WorkerWakes, PlatformRetries, PlatformCallsAgain, PauseOver, Shutdown,
              limiterVars, callerVars, Entered
<1> QED BY <1>2, <1>3, <1>4, <1>5, <1>6, <1>7 DEF LimiterNext

LEMMA AskedStep ==
    ASSUME LimiterInv, AskedInOrder, [LimiterNext]_limiterVars PROVE AskedInOrder'
<1>1. CASE UNCHANGED asked
  BY <1>1 DEF AskedInOrder
<1>2. ASSUME NEW c \in Calls, AskAndAwait(c) \/ AskInBackground(c) PROVE AskedInOrder'
  BY <1>2 DEF AskAndAwait, AskInBackground, AskedInOrder
<1> QED BY <1>1, <1>2 DEF LimiterNext, limiterVars, callerVars, Retry, Abandon, StartTask, Take, TakeHead, WorkerWakes,
                          CallSucceeds, CallFails, PlatformRetries, PlatformCallsAgain, PauseOver, Shutdown

\* A new task goes to the end: it is relayed, or it is that of the latest call so far.
LEMMA AppendInOrder ==
    ASSUME NEW s \in Seq(Calls \X {1, 2}), NEW c \in Calls, NEW n \in {1, 2}, NEW w,
           \A i \in 1..Len(s) : s[i][2] = 2 => w[s[i][1]] = "relay",
           \A i, j \in 1..Len(s) : i < j /\ w[s[j][1]] # "relay" => s[i][1] < s[j][1],
           n = 2 => w[c] = "relay",
           w[c] = "relay" \/ \A i \in 1..Len(s) : s[i][1] < c
    PROVE  LET t == Append(s, <<c, n>>)
           IN  /\ \A i \in 1..Len(t) : t[i][2] = 2 => w[t[i][1]] = "relay"
               /\ \A i, j \in 1..Len(t) : i < j /\ w[t[j][1]] # "relay" => t[i][1] < t[j][1]
               /\ \E i \in 1..Len(t) : t[i][1] = c
               /\ \A i \in 1..Len(s) : \E j \in 1..Len(t) : t[j][1] = s[i][1]
<1> DEFINE t == Append(s, <<c, n>>)
<1> DEFINE l == Len(s) + 1
<1>1. /\ Len(s) \in Nat /\ Len(t) = l /\ t[l] = <<c, n>> /\ l \in 1..Len(t)
      /\ \A i \in 1..Len(s) : t[i] = s[i] /\ i \in 1..Len(t)
      /\ \A i \in 1..Len(t) : i \in 1..Len(s) \/ i = l
  OBVIOUS
<1>2. t[l][1] = c /\ t[l][2] = n
  BY <1>1
<1> HIDE DEF t
<1>3. ASSUME NEW i \in 1..Len(t), t[i][2] = 2 PROVE w[t[i][1]] = "relay"
  <2>1. CASE i \in 1..Len(s)
    BY <1>1, <1>3, <2>1
  <2>2. CASE i = l
    BY <1>2, <1>3, <2>2
  <2> QED BY <1>1, <2>1, <2>2
<1>4. ASSUME NEW i \in 1..Len(t), NEW j \in 1..Len(t), i < j, w[t[j][1]] # "relay" PROVE t[i][1] < t[j][1]
  <2>1. i \in 1..Len(s) /\ t[i] = s[i]
    BY <1>1, <1>4
  <2>2. CASE j \in 1..Len(s)
    <3>1. t[j] = s[j]
      BY <1>1, <2>2
    <3> QED BY <1>4, <2>1, <2>2, <3>1
  <2>3. CASE j = l
    <3>1. t[j][1] = c /\ s[i][1] < c
      BY <1>2, <1>4, <2>1, <2>3
    <3> QED BY <2>1, <3>1
  <2> QED BY <1>1, <2>2, <2>3
<1>5. \A i \in 1..Len(s) : \E j \in 1..Len(t) : t[j][1] = s[i][1]
  BY <1>1
<1>6. \E i \in 1..Len(t) : t[i][1] = c
  BY <1>1, <1>2
<1> QED BY <1>3, <1>4, <1>5, <1>6 DEF t

LEMMA NewTasksStep ==
    ASSUME LimiterInv, AskedInOrder, NewTasks, [LimiterNext]_limiterVars PROVE NewTasks'
<1>1. ASSUME UNCHANGED <<ready, way>>, \A c \in Calls : caller'[c] = "starting" => caller[c] = "starting"
      PROVE  NewTasks'
  BY <1>1 DEF NewTasks
<1>2. ASSUME NEW c \in Calls, AskInBackground(c) PROVE NewTasks'
  <2>1. /\ c \notin asked /\ way[c] # "await" /\ UNCHANGED way
        /\ \A d \in Calls \ {c} : caller'[d] = caller[d]
    BY <1>2 DEF AskInBackground
  <2>2. PICK n \in {1, 2} : ready' = Append(ready, <<c, n>>) /\ (n = 2 => way[c] = "relay")
    BY <1>2 DEF AskInBackground
  <2>3. \A i \in 1..Len(ready) : ready[i][1] < c
    <3>1. \A i \in 1..Len(ready) : ready[i][1] \in asked /\ ready[i][1] \in Nat
      BY LimiterAssumption DEF LimiterInv, LimiterTypeOK, Starting
    <3>2. \A d \in asked : ~(c < d) /\ d # c /\ c \in Nat
      BY <2>1, LimiterAssumption DEF AskedInOrder
    <3> QED BY <3>1, <3>2
  <2>4. /\ \A i \in 1..Len(ready) : ready[i][2] = 2 => way[ready[i][1]] = "relay"
        /\ \A i, j \in 1..Len(ready) : i < j /\ way[ready[j][1]] # "relay" => ready[i][1] < ready[j][1]
        /\ ready \in Seq(Calls \X {1, 2})
    BY DEF NewTasks, LimiterInv, LimiterTypeOK
  <2>5. /\ \A i \in 1..Len(ready') : ready'[i][2] = 2 => way[ready'[i][1]] = "relay"
        /\ \A i, j \in 1..Len(ready') : i < j /\ way[ready'[j][1]] # "relay" => ready'[i][1] < ready'[j][1]
        /\ \E i \in 1..Len(ready') : ready'[i][1] = c
        /\ \A i \in 1..Len(ready) : \E j \in 1..Len(ready') : ready'[j][1] = ready[i][1]
    BY <2>2, <2>3, <2>4, AppendInOrder
  <2>6. ASSUME NEW d \in Calls, caller'[d] = "starting"
        PROVE  way[d] # "await" /\ \E i \in 1..Len(ready') : ready'[i][1] = d
    <3>1. CASE d = c
      BY <2>1, <2>5, <3>1
    <3>2. CASE d # c
      <4>1. way[d] # "await" /\ \E i \in 1..Len(ready) : ready[i][1] = d
        BY <2>1, <2>6, <3>2 DEF NewTasks
      <4> QED BY <2>5, <4>1
    <3> QED BY <3>1, <3>2
  <2> QED BY <2>1, <2>5, <2>6 DEF NewTasks
<1>3. CASE StartTask
  <2> DEFINE c == Head(ready)[1]
  <2> DEFINE s == Tail(ready)
  <2>1. /\ ready \in Seq(Calls \X {1, 2}) /\ ready # <<>> /\ c = ready[1][1] /\ c \in Calls
        /\ Len(ready) \in Nat /\ 1 \in 1..Len(ready) /\ Head(ready)[2] = ready[1][2]
        /\ s \in Seq(Calls \X {1, 2}) /\ Len(s) = Len(ready) - 1
        /\ \A i \in 1..Len(s) : s[i] = ready[i + 1] /\ i + 1 \in 1..Len(ready)
        /\ \A i \in 1..Len(ready) : i = 1 \/ (i - 1 \in 1..Len(s) /\ s[i - 1] = ready[i])
    BY <1>3 DEF StartTask, LimiterInv, LimiterTypeOK
  <2>2. UNCHANGED <<way, asked>>
    BY <1>3 DEF StartTask
  <2>3. \/ Head(ready)[2] = 2 /\ ready' = Append(s, <<c, 1>>) /\ UNCHANGED caller
        \/ ready' = s /\ caller' = [caller EXCEPT ![c] = "waiting"]
    BY <1>3 DEF StartTask
  <2>4. /\ \A i \in 1..Len(s) : s[i][2] = 2 => way[s[i][1]] = "relay"
        /\ \A i, j \in 1..Len(s) : i < j /\ way[s[j][1]] # "relay" => s[i][1] < s[j][1]
    BY <2>1 DEF NewTasks
  <2>5. \A d \in Calls : caller[d] = "starting" =>
           way[d] # "await" /\ (d = c \/ \E i \in 1..Len(s) : s[i][1] = d)
    <3>1. ASSUME NEW d \in Calls, caller[d] = "starting"
          PROVE  way[d] # "await" /\ (d = c \/ \E i \in 1..Len(s) : s[i][1] = d)
      <4>1. PICK i \in 1..Len(ready) : ready[i][1] = d
        BY <3>1 DEF NewTasks
      <4>2. CASE i = 1
        BY <2>1, <3>1, <4>1, <4>2 DEF NewTasks
      <4>3. CASE i # 1
        <5>1. i - 1 \in 1..Len(s) /\ s[i - 1] = ready[i]
          BY <2>1, <4>3
        <5> QED BY <3>1, <4>1, <5>1 DEF NewTasks
      <4> QED BY <4>2, <4>3
    <3> QED BY <3>1
  <2>6. Head(ready)[2] = 2 => way[c] = "relay"
    BY <2>1 DEF NewTasks
  <2> HIDE DEF c, s
  <2>7. CASE Head(ready)[2] = 2 /\ ready' = Append(s, <<c, 1>>) /\ UNCHANGED caller
    <3>0. /\ s \in Seq(Calls \X {1, 2}) /\ c \in Calls /\ 1 \in {1, 2} /\ ready' = Append(s, <<c, 1>>)
          /\ 1 # 2 /\ way[c] = "relay"
      BY <2>1, <2>6, <2>7
    <3>1. /\ \A i \in 1..Len(ready') : ready'[i][2] = 2 => way[ready'[i][1]] = "relay"
          /\ \A i, j \in 1..Len(ready') : i < j /\ way[ready'[j][1]] # "relay" => ready'[i][1] < ready'[j][1]
          /\ \E i \in 1..Len(ready') : ready'[i][1] = c
          /\ \A i \in 1..Len(s) : \E j \in 1..Len(ready') : ready'[j][1] = s[i][1]
      BY ONLY <2>4, <3>0, AppendInOrder
    <3>2. \A d \in Calls : caller[d] = "starting" =>
             way[d] # "await" /\ \E i \in 1..Len(ready') : ready'[i][1] = d
      BY ONLY <2>5, <3>1
    <3> QED BY <2>2, <2>7, <3>1, <3>2 DEF NewTasks
  <2>8. CASE ready' = s /\ caller' = [caller EXCEPT ![c] = "waiting"]
    <3>1. \A d \in Calls : caller'[d] = "starting" => caller[d] = "starting" /\ d # c
      BY <2>1, <2>8 DEF LimiterInv, LimiterTypeOK
    <3> QED BY <2>2, <2>4, <2>5, <2>8, <3>1 DEF NewTasks
  <2> QED BY <2>3, <2>7, <2>8
<1>4. ASSUME NEW c \in Calls, AskAndAwait(c) \/ Retry(c) \/ Abandon(c) PROVE NewTasks'
  BY <1>1, <1>4 DEF AskAndAwait, Retry, Abandon, LimiterInv, LimiterTypeOK
<1>5. CASE CallSucceeds \/ \E flood, transient \in BOOLEAN : CallFails(flood, transient)
  BY <1>1, <1>5 DEF CallSucceeds, CallFails, Settle
<1>6. CASE Take \/ WorkerWakes \/ PlatformRetries \/ PlatformCallsAgain \/ PauseOver \/ Shutdown \/ UNCHANGED limiterVars
  BY <1>1, <1>6 DEF Take, TakeHead, WorkerWakes, PlatformRetries, PlatformCallsAgain, PauseOver, Shutdown,
                    limiterVars, callerVars
<1> QED BY <1>2, <1>3, <1>4, <1>5, <1>6 DEF LimiterNext

\* What makes a call enter: it is asked for by somebody who awaits it, or its task starts.
LEMMA Entering ==
    ASSUME LimiterInv, [LimiterNext]_limiterVars, NEW c \in Calls, ~Entered(c), Entered(c)'
    PROVE  \/ AskAndAwait(c)
           \/ StartTask /\ c = ready[1][1] /\ 1 \in 1..Len(ready) /\ c \in asked
<1>1. ASSUME UNCHANGED asked, caller[c] = "starting" => caller'[c] = "starting" PROVE FALSE
  BY <1>1 DEF Entered
<1>2. ASSUME NEW d \in Calls, AskAndAwait(d) PROVE d = c
  BY <1>2 DEF AskAndAwait, Entered, LimiterInv, LimiterTypeOK
<1>3. ASSUME NEW d \in Calls, AskInBackground(d) PROVE FALSE
  BY <1>3 DEF AskInBackground, Entered, LimiterInv, LimiterTypeOK
<1>4. ASSUME NEW d \in Calls, Retry(d) \/ Abandon(d) PROVE FALSE
  BY <1>1, <1>4 DEF Retry, Abandon, LimiterInv, LimiterTypeOK
<1>5. CASE StartTask
  <2>1. Head(ready) = ready[1] /\ 1 \in 1..Len(ready)
    BY <1>5 DEF StartTask, LimiterInv, LimiterTypeOK
  <2> QED BY <1>5, <2>1 DEF StartTask, Entered, LimiterInv, LimiterTypeOK
<1>6. CASE CallSucceeds \/ \E flood, transient \in BOOLEAN : CallFails(flood, transient)
  BY <1>1, <1>6 DEF CallSucceeds, CallFails, Settle
<1>7. CASE Take \/ WorkerWakes \/ PlatformRetries \/ PlatformCallsAgain \/ PauseOver \/ Shutdown \/ UNCHANGED limiterVars
  BY <1>1, <1>7 DEF Take, TakeHead, WorkerWakes, PlatformRetries, PlatformCallsAgain, PauseOver, Shutdown,
                    limiterVars, callerVars
<1> QED BY <1>2, <1>3, <1>4, <1>5, <1>6, <1>7 DEF LimiterNext

LEMMA KeysAndWays == ASSUME [LimiterNext]_limiterVars PROVE UNCHANGED <<keyOf, way>>
  BY DEF LimiterNext, limiterVars, callerVars, AskAndAwait, AskInBackground, Retry, Abandon, StartTask, Take, TakeHead,
         WorkerWakes, CallSucceeds, CallFails, PlatformRetries, PlatformCallsAgain, PauseOver, Shutdown

LEMMA EnteredFirstStep ==
    ASSUME LimiterInv, OrderInv, [LimiterNext]_limiterVars PROVE EnteredFirst'
<1>1. ASSUME NEW c \in Calls, NEW d \in Calls, Entered(d)', way[d] # "await", c < d, way[c] # "relay"
      PROVE  Entered(c)'
  <2>1. CASE Entered(d)
    BY <1>1, <2>1, EnteredStays DEF OrderInv, EnteredFirst
  <2>2. CASE ~Entered(d)
    <3>1. d = ready[1][1] /\ 1 \in 1..Len(ready) /\ d \in asked
      BY <1>1, <2>2, Entering DEF AskAndAwait
    <3>2. c \in asked /\ c \in Nat /\ d \in Nat
      BY <1>1, <3>1, LimiterAssumption DEF OrderInv, AskedInOrder
    <3>3. CASE caller[c] = "starting"
      <4>1. PICK j \in 1..Len(ready) : ready[j][1] = c
        BY <3>3 DEF OrderInv, NewTasks
      <4>2. j # 1 /\ 1 < j
        BY <1>1, <3>1, <3>2, <4>1
      <4>3. d < c
        BY <1>1, <3>1, <4>1, <4>2 DEF OrderInv, NewTasks
      <4> QED BY <1>1, <3>2, <4>3
    <3>4. CASE caller[c] # "starting"
      BY <3>2, <3>4, EnteredStays DEF Entered
    <3> QED BY <3>3, <3>4
  <2> QED BY <2>1, <2>2
<1> QED BY <1>1, KeysAndWays DEF EnteredFirst

\* A call enters the queue, for the first time or as a retry.
LEMMA EnqueueOrder ==
    ASSUME LimiterInv, OrderInv, NEW c \in Calls, Enqueue(c), Entered(c)',
           UNCHANGED <<keyOf, way, worker, hand, shown>>,
           \A d \in Calls : (Entered(d) => Entered(d)') /\ (attempt'[d] = 0 => attempt[d] = 0),
           ~Entered(c) \/ attempt'[c] # 0
    PROVE  OnlyEntered' /\ HandFull' /\ NoReturn'
<1>1. /\ keyOf[c] \in Keys /\ entry'[keyOf[c]].func = c
      /\ \A k \in Keys \ {keyOf[c]} : entry'[k] = entry[k]
      /\ \A d \in Calls : keyOf[d] \in Keys /\ d # 0 /\ (keyOf[d] = keyOf[c] => entry'[keyOf[d]].func = c)
  BY LimiterAssumption DEF Enqueue, LimiterInv, LimiterTypeOK
<1>2. /\ \A k \in Keys : entry[k] # Nothing => entry[k].func \in Calls
      /\ \A k \in Keys : shown[k] # 0 => shown[k] \in Calls
      /\ hand # Nothing => hand.func \in Calls
  BY DEF LimiterInv, LimiterTypeOK, EntriesOwn, HandOwn
<1>3. OnlyEntered' /\ HandFull'
  BY <1>1, <1>2 DEF OrderInv, OnlyEntered, HandFull
<1>4. ASSUME NEW b \in Calls, NEW d \in Calls, Behind(b, d)'
      PROVE  /\ shown[keyOf[d]] = d => hand.func # b /\ entry'[keyOf[b]].func # b
             /\ hand.func = d => entry'[keyOf[b]].func # b
  <2>1. Behind(b, d)
    BY <1>4 DEF Behind
  <2>2. /\ shown[keyOf[d]] = d => hand.func # b /\ entry[keyOf[b]].func # b
        /\ hand.func = d => entry[keyOf[b]].func # b
    BY <2>1 DEF OrderInv, NoReturn
  <2>3. CASE b = c
    <3>1. ~Entered(c)
      BY <1>4, <2>3 DEF Behind
    <3>2. ~Entered(d)
      BY <2>1, <2>3, <3>1 DEF OrderInv, EnteredFirst, Behind
    <3>3. hand # Nothing \/ hand.func = 0
      BY DEF Nothing
    <3>4. hand.func # d /\ shown[keyOf[d]] # d
      BY <1>1, <3>2, <3>3 DEF OrderInv, OnlyEntered
    <3> QED BY <3>4
  <2>4. CASE b # c
    <3>1. entry'[keyOf[b]].func = c \/ entry'[keyOf[b]] = entry[keyOf[b]]
      BY <1>1
    <3> QED BY <2>2, <2>4, <3>1
  <2> QED BY <2>3, <2>4
<1>5. NoReturn'
  BY <1>4 DEF NoReturn
<1> QED BY <1>3, <1>5

\* The worker takes the entry of the oldest key.
LEMMA TakeOrder ==
    ASSUME LimiterInv, OrderInv, Take, \A d \in Calls : Entered(d) => Entered(d)'
    PROVE  OnlyEntered' /\ HandFull' /\ NoReturn'
<1> DEFINE k == Head(queue)
<1>1. k = queue[1] /\ 1 \in 1..Len(queue) /\ k \in Keys
  BY DEF Take, TakeHead, LimiterInv, LimiterTypeOK
<1>2. entry[k] # Nothing
  BY <1>1 DEF LimiterInv, NobodyForgotten
<1>3. /\ hand' = entry[k] /\ UNCHANGED <<keyOf, way, attempt, shown>>
      /\ entry' = [entry EXCEPT ![k] = Nothing]
  BY DEF Take, TakeHead, callerVars
<1>4. /\ \A l \in Keys : entry[l] # Nothing => entry[l].func \in Calls /\ keyOf[entry[l].func] = l
      /\ \A l \in Keys : shown[l] # 0 => shown[l] \in Calls
      /\ \A d \in Calls : keyOf[d] \in Keys /\ d # 0
      /\ Nothing.func = 0
  BY LimiterAssumption DEF LimiterInv, LimiterTypeOK, EntriesOwn, Nothing
<1> HIDE DEF k
<1>5. entry'[k] = Nothing /\ \A l \in Keys \ {k} : entry'[l] = entry[l]
  BY <1>1, <1>3 DEF LimiterInv, LimiterTypeOK
<1>6. OnlyEntered' /\ HandFull'
  BY <1>1, <1>2, <1>3, <1>4, <1>5 DEF OrderInv, OnlyEntered, HandFull
<1>7. ASSUME NEW b \in Calls, NEW d \in Calls, Behind(b, d)'
      PROVE  /\ shown[keyOf[d]] = d => entry[k].func # b /\ entry'[keyOf[b]].func # b
             /\ entry[k].func = d => entry'[keyOf[b]].func # b
  <2>1. Behind(b, d)
    BY <1>3, <1>7 DEF Behind
  <2>2. shown[keyOf[d]] = d => entry[keyOf[b]].func # b
    BY <2>1 DEF OrderInv, NoReturn
  <2>3. entry[k].func = b => k = keyOf[b]
    BY <1>1, <1>2, <1>4
  <2>4. entry[k].func = d => k = keyOf[b]
    BY <1>1, <1>2, <1>4, <2>1 DEF Behind
  <2>5. entry'[keyOf[b]].func = b => entry[keyOf[b]].func = b /\ keyOf[b] # k
    BY <1>4, <1>5
  <2> QED BY <2>2, <2>3, <2>4, <2>5
<1>8. NoReturn'
  BY <1>3, <1>7 DEF NoReturn
<1> QED BY <1>6, <1>8

\* The platform is called, or the call ends.
LEMMA CarryOrder ==
    ASSUME LimiterInv, OrderInv, worker = "calling", CarriedOut \/ UNCHANGED shown,
           UNCHANGED <<keyOf, way, attempt, entry>>,
           UNCHANGED hand \/ WorkerFree, \A d \in Calls : Entered(d) => Entered(d)'
    PROVE  OnlyEntered' /\ HandFull' /\ NoReturn'
<1>1. hand # Nothing /\ hand.func \in Calls /\ Entered(hand.func)
  BY DEF OrderInv, HandFull, OnlyEntered, LimiterInv, HandOwn
<1>2. /\ \A l \in Keys : entry[l] # Nothing => entry[l].func \in Calls
      /\ \A l \in Keys : shown[l] # 0 => shown[l] \in Calls
      /\ \A d \in Calls : keyOf[d] \in Keys /\ d # 0 /\ d \in Nat
      /\ Nothing.func = 0
  BY LimiterAssumption DEF LimiterInv, LimiterTypeOK, EntriesOwn, Nothing
<1>3. \A l \in Keys : shown'[l] = shown[l] \/ (shown'[l] = hand.func /\ keyOf[hand.func] = l)
  BY DEF CarriedOut, LimiterInv, LimiterTypeOK
<1>4. hand' = hand \/ (hand' = Nothing /\ worker' = "idle")
  BY DEF WorkerFree
<1>5. OnlyEntered'
  BY <1>1, <1>2, <1>3, <1>4 DEF OrderInv, OnlyEntered
<1>6. HandFull'
  BY <1>1, <1>4 DEF HandFull
<1>7. ASSUME NEW b \in Calls, NEW d \in Calls, Behind(b, d)
      PROVE  /\ shown'[keyOf[d]] = d => hand'.func # b /\ entry[keyOf[b]].func # b
             /\ hand'.func = d => entry[keyOf[b]].func # b
  <2>1. /\ shown[keyOf[d]] = d => hand.func # b /\ entry[keyOf[b]].func # b
        /\ hand.func = d => entry[keyOf[b]].func # b
        /\ b # d
    BY <1>2, <1>7 DEF OrderInv, NoReturn, Behind
  <2>2. shown'[keyOf[d]] = d => shown[keyOf[d]] = d \/ hand.func = d
    BY <1>2, <1>3
  <2>3. hand'.func = hand.func \/ hand'.func = 0
    BY <1>2, <1>4
  <2>4. b # 0 /\ d # 0
    BY <1>2
  <2> QED BY <2>1, <2>2, <2>3, <2>4
<1>8. \A b, d \in Calls : Behind(b, d)' <=> Behind(b, d)
  BY DEF Behind
<1>9. NoReturn'
  BY <1>7, <1>8 DEF NoReturn
<1> QED BY <1>5, <1>6, <1>9

LEMMA LateStep ==
    ASSUME LimiterInv, OrderInv, [LimiterNext]_limiterVars PROVE OnlyEntered' /\ HandFull' /\ NoReturn'
<1>1. \A d \in Calls : Entered(d) => Entered(d)'
  BY EnteredStays
<1>2. ASSUME UNCHANGED <<keyOf, way, attempt, entry, hand, shown>>,
             worker' \in {"idle", "stopped", worker} \/ worker \notin {"idle", "stopped"}
      PROVE  OnlyEntered' /\ HandFull' /\ NoReturn'
  <2>1. /\ \A l \in Keys : entry[l] # Nothing => entry[l].func \in Calls
        /\ \A l \in Keys : shown[l] # 0 => shown[l] \in Calls
        /\ hand # Nothing => hand.func \in Calls
    BY DEF LimiterInv, LimiterTypeOK, EntriesOwn, HandOwn
  <2>2. OnlyEntered' /\ HandFull'
    BY <1>1, <1>2, <2>1 DEF OrderInv, OnlyEntered, HandFull
  <2>3. \A b, d \in Calls : Behind(b, d)' <=> Behind(b, d)
    BY <1>2 DEF Behind
  <2>4. NoReturn'
    BY <1>2, <2>3 DEF OrderInv, NoReturn
  <2> QED BY <2>2, <2>4
<1>3. ASSUME NEW c \in Calls, AskAndAwait(c) PROVE OnlyEntered' /\ HandFull' /\ NoReturn'
  <2>1. ~Entered(c) /\ Entered(c)' /\ Enqueue(c) /\ UNCHANGED <<keyOf, way, worker, hand, shown, attempt>>
    BY <1>3 DEF AskAndAwait, Entered, workerVars, LimiterInv, LimiterTypeOK
  <2> QED BY <1>1, <2>1, EnqueueOrder
<1>4. ASSUME NEW c \in Calls, Retry(c) PROVE OnlyEntered' /\ HandFull' /\ NoReturn'
  <2>1. Entered(c)' /\ Enqueue(c) /\ UNCHANGED <<keyOf, way, worker, hand, shown>>
    BY <1>4 DEF Retry, Entered, workerVars, LimiterInv, LimiterTypeOK, NotYet
  <2>2. /\ attempt'[c] = attempt[c] + 1 /\ attempt[c] \in Nat
        /\ \A d \in Calls : attempt'[d] = 0 => attempt[d] = 0
    BY <1>4, LimiterAssumption DEF Retry, LimiterInv, LimiterTypeOK
  <2>3. attempt'[c] # 0
    BY <2>2
  <2> QED BY <1>1, <2>1, <2>2, <2>3, EnqueueOrder
<1>5. CASE StartTask
  <2>1. PICK c \in Calls : c = Head(ready)[1] /\ caller[c] = "starting" /\ c \in asked
    <3>1. Head(ready) = ready[1] /\ 1 \in 1..Len(ready) /\ ready[1][1] \in Calls
      BY <1>5 DEF StartTask, LimiterInv, LimiterTypeOK
    <3> QED BY <3>1 DEF LimiterInv, Starting
  <2>2. UNCHANGED <<asked, keyOf, way, attempt, worker, hand, shown>>
    BY <1>5 DEF StartTask, workerVars
  <2>3. CASE UNCHANGED queueVars
    BY <1>2, <2>2, <2>3 DEF queueVars
  <2>4. CASE caller' = [caller EXCEPT ![c] = "waiting"] /\ Enqueue(c)
    <3>1. ~Entered(c) /\ Entered(c)'
      BY <2>1, <2>2, <2>4 DEF Entered, LimiterInv, LimiterTypeOK
    <3> QED BY <1>1, <2>1, <2>2, <2>4, <3>1, EnqueueOrder
  <2> QED BY <1>5, <2>1, <2>3, <2>4 DEF StartTask
<1>6. CASE Take
  BY <1>1, <1>6, TakeOrder
<1>7. CASE CallSucceeds
  BY <1>1, <1>7, CarryOrder DEF CallSucceeds, queueVars
<1>8. ASSUME NEW flood \in BOOLEAN, NEW transient \in BOOLEAN, CallFails(flood, transient)
      PROVE  OnlyEntered' /\ HandFull' /\ NoReturn'
  BY <1>1, <1>8, CarryOrder DEF CallFails, queueVars
<1>9. CASE PlatformRetries
  BY <1>1, <1>9, CarryOrder DEF PlatformRetries, queueVars, callerVars
<1>10. ASSUME NEW c \in Calls, AskInBackground(c) \/ Abandon(c) PROVE OnlyEntered' /\ HandFull' /\ NoReturn'
  BY <1>2, <1>10 DEF AskInBackground, Abandon, queueVars, workerVars
<1>11. CASE WorkerWakes \/ PlatformCallsAgain \/ PauseOver \/ Shutdown \/ UNCHANGED limiterVars
  BY <1>2, <1>11 DEF WorkerWakes, PlatformCallsAgain, PauseOver, Shutdown, limiterVars, callerVars, queueVars, workerVars
<1> QED BY <1>3, <1>4, <1>5, <1>6, <1>7, <1>8, <1>9, <1>10, <1>11 DEF LimiterNext

LEMMA OrderStep == ASSUME LimiterInv, OrderInv, [LimiterNext]_limiterVars PROVE OrderInv'
  BY AskedStep, NewTasksStep, EnteredFirstStep, LateStep DEF OrderInv

\* Only a call that came late takes an older text back to the screen, whatever is
\* queued, replaced, retried or cancelled meanwhile.
THEOREM StaleOnlyIfLateCorrect == LimiterSpec => StaleOnlyIfLate
<1> DEFINE Late == \A k \in Keys : shown'[k] < shown[k] =>
                      attempt[shown'[k]] > 0 \/ way[shown'[k]] = "relay" \/ way[shown[k]] = "await"
<1>1. ASSUME LimiterInv, OrderInv, [LimiterNext]_limiterVars PROVE [Late]_limiterVars
  <2>1. CASE UNCHANGED shown
    <3>1. ASSUME NEW k \in Keys PROVE ~(shown'[k] < shown[k])
      <4>1. shown[k] \in Calls \cup {0}
        BY <1>1 DEF LimiterInv, LimiterTypeOK
      <4>2. Calls \subseteq Nat /\ 0 \in Nat
        BY LimiterAssumption
      <4>3. shown[k] \in Nat
        BY <4>1, <4>2, Zenon
      <4> QED BY <2>1, <4>3
    <3> QED BY <3>1
  <2>2. CASE worker = "calling" /\ CarriedOut
    <3>1. hand.func \in Calls
      BY <1>1, <2>2 DEF OrderInv, HandFull, LimiterInv, HandOwn
    <3>2. ASSUME NEW k \in Keys, shown'[k] < shown[k]
          PROVE  attempt[shown'[k]] > 0 \/ way[shown'[k]] = "relay" \/ way[shown[k]] = "await"
      <4>1. /\ shown[k] \in Calls \cup {0} /\ \A c \in Calls : c \in Nat /\ c # 0 /\ attempt[c] \in Nat
            /\ shown \in [Keys -> Calls \cup {0}]
        BY <1>1, LimiterAssumption DEF LimiterInv, LimiterTypeOK
      <4>2. shown'[k] = hand.func /\ keyOf[hand.func] = k
        BY <2>2, <3>2, <4>1 DEF CarriedOut
      <4>3. shown[k] \in Calls
        BY <3>1, <3>2, <4>1, <4>2
      <4>4. keyOf[shown[k]] = k
        BY <1>1, <4>1, <4>3 DEF OrderInv, OnlyEntered
      <4>5. ~Behind(hand.func, shown[k])
        BY <1>1, <3>1, <4>3, <4>4 DEF OrderInv, NoReturn
      <4> QED BY <3>1, <3>2, <4>1, <4>2, <4>4, <4>5 DEF Behind
    <3> QED BY <3>2
  <2>3. UNCHANGED shown \/ (worker = "calling" /\ CarriedOut)
    BY <1>1 DEF LimiterNext, limiterVars, AskAndAwait, AskInBackground, Retry, Abandon, StartTask, Take, TakeHead,
                WorkerWakes, CallSucceeds, CallFails, PlatformRetries, PlatformCallsAgain, PauseOver, Shutdown
  <2> QED BY <2>1, <2>2, <2>3
<1> QED BY LimiterInitInv, LimiterStep, OrderInit, OrderStep, <1>1, PTL DEF LimiterSpec, StaleOnlyIfLate

-----------------------------------------------------------------------------

\* Who was told is out of the registry, and has come as far as the transcription.
ToldForgotten ==
    \A n \in told : NoteKeys(n) \cap registry = {} /\ note[n] \in {"transcribing", "failed", "dropped"}

VoiceInv == VoiceTypeOK /\ PendingPaired /\ ToldForgotten

LEMMA NoteKeysDisjoint ==
    \A m, n : m # n => NoteKeys(m) \cap NoteKeys(n) = {}
  BY DEF NoteKeys

LEMMA VoiceInitInv == VoiceInit => VoiceInv
  BY DEF VoiceInit, VoiceInv, VoiceTypeOK, PendingPaired, ToldForgotten, NoteKeys

\* Of the notes, an action changes one, and of the registry, only the keys of that one.
LEMMA VoiceTypeStep == ASSUME VoiceTypeOK, [VoiceNext]_voiceVars PROVE VoiceTypeOK'
<1> SUFFICES ASSUME VoiceNext PROVE VoiceTypeOK'
  BY DEF VoiceTypeOK, voiceVars
<1> PICK n \in Notes : \/ NoteArrives(n) \/ Announced(n) \/ TranscriptionFails(n) \/ Transcribed(n)
                       \/ Handled(n) \/ (\E key \in NoteKeys(n) : Clear(n, key))
  BY DEF VoiceNext
<1>1. /\ note' \in [Notes -> {"none", "refused", "announcing", "transcribing", "failed", "handling", "handled", "dropped"}]
      /\ told' \subseteq Notes
  BY DEF VoiceTypeOK, NoteArrives, Announced, TranscriptionFails, Transcribed, Handled, Clear, Becomes
<1>2. registry' \subseteq registry \cup NoteKeys(n)
  BY DEF NoteArrives, Announced, TranscriptionFails, Transcribed, Handled, Clear, Forgotten
<1> QED BY <1>1, <1>2 DEF VoiceTypeOK

LEMMA VoiceStep == ASSUME VoiceInv, [VoiceNext]_voiceVars PROVE VoiceInv'
<1>1. CASE UNCHANGED voiceVars
  BY <1>1 DEF VoiceInv, VoiceTypeOK, PendingPaired, ToldForgotten, voiceVars
<1>2. CASE VoiceNext
  <2>1. VoiceTypeOK' BY VoiceTypeStep DEF VoiceInv
  <2> PICK n \in Notes : \/ NoteArrives(n) \/ Announced(n) \/ TranscriptionFails(n) \/ Transcribed(n)
                         \/ Handled(n) \/ (\E key \in NoteKeys(n) : Clear(n, key))
    BY <1>2 DEF VoiceNext
  <2>2. CASE NoteArrives(n)
    BY <2>1, <2>2 DEF NoteArrives, Becomes, VoiceInv, VoiceTypeOK, PendingPaired, ToldForgotten
  <2>3. CASE Announced(n)
    <3>1. n \notin told /\ NoteKeys(n) \cap registry = {}
      BY <2>3 DEF Announced, VoiceInv, PendingPaired, ToldForgotten
    <3>2. PendingPaired' /\ ToldForgotten'
      <4> SUFFICES ASSUME NEW m \in Notes
                   PROVE  /\ NoteKeys(m) \cap registry' # {} => NoteKeys(m) \subseteq registry' /\ note'[m] \in {"transcribing", "failed"}
                          /\ m \in told' => NoteKeys(m) \cap registry' = {} /\ note'[m] \in {"transcribing", "failed", "dropped"}
        BY <2>1 DEF PendingPaired, ToldForgotten, VoiceTypeOK
      <4>1. CASE m = n
        BY <2>3, <3>1, <4>1 DEF Announced, Becomes, VoiceInv, VoiceTypeOK
      <4>2. CASE m # n
        <5>1. note'[m] = note[m] /\ told' = told
          BY <2>3, <4>2 DEF Announced, Becomes, VoiceInv, VoiceTypeOK
        <5>2. NoteKeys(m) \cap registry' = NoteKeys(m) \cap registry
          BY <2>3, <4>2, NoteKeysDisjoint DEF Announced
        <5> QED BY <5>1, <5>2 DEF VoiceInv, PendingPaired, ToldForgotten
      <4> QED BY <4>1, <4>2
    <3> QED BY <2>1, <3>2 DEF VoiceInv
  <2>4. CASE TranscriptionFails(n)
    BY <2>1, <2>4 DEF TranscriptionFails, Becomes, VoiceInv, VoiceTypeOK, PendingPaired, ToldForgotten
  <2>5. CASE Transcribed(n) \/ (\E key \in NoteKeys(n) : Clear(n, key))
    <3>1. /\ NoteKeys(n) \cap registry' = {}
          /\ \A m \in Notes \ {n} : NoteKeys(m) \cap registry' = NoteKeys(m) \cap registry /\ note'[m] = note[m]
      <4>1. registry' = registry \ NoteKeys(n) \/ (registry' = registry /\ NoteKeys(n) \cap registry = {})
        BY <2>5 DEF Transcribed, Clear, Forgotten, VoiceInv, PendingPaired, NoteKeys
      <4>2. \A m \in Notes \ {n} : note'[m] = note[m]
        BY <2>5 DEF Transcribed, Clear, Becomes, VoiceInv, VoiceTypeOK
      <4> QED BY <4>1, <4>2, NoteKeysDisjoint
    <3>2. /\ told' \subseteq told \cup {n}
          /\ n \in told' => note'[n] \in {"transcribing", "failed", "dropped"}
      <4>1. CASE Transcribed(n)
        BY <4>1 DEF Transcribed, Becomes, VoiceInv, VoiceTypeOK, ToldForgotten, NoteKeys
      <4>2. CASE \E key \in NoteKeys(n) : Clear(n, key)
        BY <4>2 DEF Clear, VoiceInv, PendingPaired
      <4> QED BY <2>5, <4>1, <4>2
    <3>3. PendingPaired'
      BY <3>1 DEF VoiceInv, PendingPaired
    <3>4. ToldForgotten'
      BY <2>1, <3>1, <3>2 DEF VoiceInv, VoiceTypeOK, ToldForgotten
    <3> QED BY <2>1, <3>3, <3>4 DEF VoiceInv
  <2>6. CASE Handled(n)
    BY <2>1, <2>6 DEF Handled, Becomes, VoiceInv, VoiceTypeOK, PendingPaired, ToldForgotten
  <2> QED BY <2>2, <2>3, <2>4, <2>5, <2>6
<1> QED BY <1>1, <1>2

\* The registry of pending voice notes holds both keys of a note or neither, and
\* only those of notes that are transcribed or failed.
THEOREM PendingPairedCorrect == VoiceSpec => []PendingPaired
<1>1. VoiceInv => PendingPaired BY DEF VoiceInv
<1> QED BY VoiceInitInv, VoiceStep, <1>1, PTL DEF VoiceSpec

\* A note of which /clear said that it was cancelled is never handled as a message.
THEOREM CancelledStaysCorrect == VoiceSpec => []CancelledStays
<1>1. VoiceInv => CancelledStays BY DEF VoiceInv, ToldForgotten, CancelledStays
<1> QED BY VoiceInitInv, VoiceStep, <1>1, PTL DEF VoiceSpec

-----------------------------------------------------------------------------

(***************************************************************************)
(* The inductive invariant.                                                *)
(***************************************************************************)

Ended(t) == pc[t] = "done" \/ t \in cancelled
AtWork == {"waiting", "spawning", "reading", "registering"}

\* How far a task has come, and what its local variables say of that.
LifeOf(t) ==
    /\ pc[t] = "idle" <=> tree[t] = None
    /\ pc[t] \in {"idle", "getting"} =>
          session[t] = None /\ captured[t] = None /\ temp[t] = None /\ recorded[t] = None
    /\ t \in cancelled => pc[t] \in {"stopping", "closing", "dropping", "removing", "done"}
    /\ pc[t] = "stopping" => t \in cancelled
    /\ pc[t] \in AtWork \cup {"stopping"} => session[t] # None
    /\ pc[t] \in AtWork \cup {"closing"} /\ t \notin cancelled => captured[t] # None \/ temp[t] # None
    /\ pc[t] = "registering" => temp[t] # None
    /\ captured[t] # None => temp[t] = None
    /\ temp[t] # None => temp[t] = Given(t)
    /\ recorded[t] # None => recorded[t] = captured[t]

Lives == \A t \in Tasks : LifeOf(t)

\* A conversation has one task at a time that is not over or on its way out.
OneAtWork ==
    /\ \A t \in Tasks : tree[t] # None => tree[tree[t]] = tree[t]
    /\ \A t, v \in Tasks : t # v /\ tree[t] = tree[v] /\ tree[t] # None => Ended(t) \/ Ended(v)

\* The session id i was reported to a task of the conversation.
IssuedIn(i, root) == \E v \in Tasks : i = Real(v) /\ captured[v] = Real(v) /\ tree[v] = root

\* i resolves, or resolved, to the id j of a task that asked for i.
Names(i, j) == \E t \in Tasks : j = Real(t) /\ captured[t] = j /\ i = Given(t)

\* Ids and sessions stay in their conversation ...
TaskKeys(t) ==
    /\ resumes[t] # None => IssuedIn(resumes[t], tree[t])
    /\ captured[t] # None => IssuedIn(captured[t], tree[t])
    /\ session[t] # None => tree[session[t]] = tree[t]
    /\ temp[t] # None => sessions[temp[t]] = None

\* ... and an id is a key of one dictionary at most, and not a temporary one
\* while it is that of a session.
StoredKeys(i) ==
    /\ sessions[i] # None => IssuedIn(i, tree[sessions[i]])
    /\ pending[i] # None =>
          /\ sessions[i] = None /\ tree[pending[i]] # None
          /\ IssuedIn(i, tree[pending[i]]) \/ \E v \in Tasks : i = Temp(v) /\ tree[v] = tree[pending[i]]
    /\ toReal[i] # None => sessions[i] = None

Families ==
    /\ \A t \in Tasks : TaskKeys(t)
    /\ \A i \in SessionIds : StoredKeys(i)
    /\ \A i, j \in SessionIds : toReal[i] = j \/ toTemp[j] = i => Names(i, j)

\* The lock is held by the task that stops a session, which it has popped, or by
\* stop_all.
LockHeld ==
    /\ \A t \in Tasks : /\ pc[t] \in {"dropping", "removing"} <=> lock = t
                        /\ lock = t => OwnId(t) # None /\ OwnId(t) \notin Known /\ dying # None
                        /\ pc[t] = "removing" => captured[t] # None
    /\ dying # None => lock # None /\ stopping # <<>>
    /\ app \in {"exiting", "ended"} => lock # Stopper

\* The index agrees with the dictionary, but for entries whose session is popped.
Left(j) == \E t \in Tasks : captured[t] = j /\ (pc[t] = "removing" \/ (pc[t] = "done" /\ t \in cancelled))
Linked(i, j) == toReal[i] = j /\ toTemp[j] = i /\ sessions[j] # None
IndexInv ==
    /\ \A i, j \in SessionIds : toReal[i] = j \/ toTemp[j] = i => Linked(i, j) \/ (sessions[j] = None /\ Left(j))
    /\ \A t \in Tasks : pc[t] = "removing" =>
          \A i \in SessionIds : toReal[i] = captured[t] <=> toTemp[captured[t]] = i
    /\ \A t \in Tasks : temp[t] # None /\ pc[t] \in AtWork =>
          toReal[temp[t]] = None \/ sessions[toReal[temp[t]]] = None

(* The keys of the manager's dictionaries are distinct.                    *)

LEMMA KeyFacts ==
    /\ None \notin Tasks /\ None \notin SessionIds /\ Stopper \notin Tasks /\ Stopper # None
    /\ \A t \in Tasks : Real(t) \in SessionIds /\ Temp(t) \in SessionIds
    /\ \A t, u \in Tasks : /\ Real(t) = Real(u) => t = u
                           /\ Temp(t) = Temp(u) => t = u
                           /\ Real(t) # Temp(u)
    /\ \A i \in SessionIds : \E t \in Tasks : i = Real(t) \/ i = Temp(t)
<1>1. Cardinality(Tasks) \in Nat /\ Tasks = 1..Cardinality(Tasks)
  BY SessionAssumption, FS_CardinalityType
<1>2. \A t \in Tasks : t \in Nat /\ t > 0 /\ t <= Cardinality(Tasks)
  BY <1>1
<1> QED BY <1>1, <1>2 DEF None, SessionIds, Stopper, Real, Temp

(* Types.                                                                  *)

LEMMA InOrderType == ASSUME NEW S \in SUBSET Tasks PROVE InOrder(S) \in Seq(Tasks)
<1>1. IsFiniteSet(S)
  BY SessionAssumption, FS_Subset
<1>2. Cardinality(S) \in Nat /\ \E f \in [1..Cardinality(S) -> S] : \A x \in S : \E i \in 1..Cardinality(S) : f[i] = x
  BY <1>1, FS_CardinalityType DEF ExistsBijection, Bijection, Injection, Surjection
<1>3. \E q \in [1..Cardinality(S) -> S] : \A x \in S : \E i \in DOMAIN q : q[i] = x
  BY <1>2
<1>4. InOrder(S) \in [1..Cardinality(S) -> S]
  BY <1>3 DEF InOrder
<1> QED BY <1>2, <1>4

LEMMA GeneratorTypes == ASSUME SessionsTypeOK, NEW t \in Tasks, LeaveGenerator(t)
    PROVE cliLock' \in [Tasks -> Tasks \cup {None}] /\ pids' \subseteq Tasks
  BY DEF SessionsTypeOK, LeaveGenerator

LEMMA TerminateTypes == ASSUME SessionsTypeOK, NEW s, Terminate(s)
    PROVE process' \in [Tasks -> {"none", "live", "term", "dead"}]
  BY DEF SessionsTypeOK, Terminate

LEMMA UnlockTypes == Unlock => lock' = None /\ stopping' \in Seq(Tasks) /\ dying' = None
  BY DEF Unlock

LEMMA DropTypes == ASSUME SessionsTypeOK, NEW i, DropIndex(i)
    PROVE toReal' \in [SessionIds -> SessionIds \cup {None}] /\ toTemp' \in [SessionIds -> SessionIds \cup {None}]
  BY DEF SessionsTypeOK, DropIndex

LEMMA GivenType == ASSUME SessionsTypeOK, NEW t \in Tasks PROVE Given(t) \in SessionIds
  BY KeyFacts DEF SessionsTypeOK, Given

LEMMA PopTypes == ASSUME SessionsTypeOK, NEW t \in Tasks, RemoveSession(t) PROVE SessionsTypeOK'
<1> DEFINE i == OwnId(t)
           s == IF pending[i] # None THEN pending[i] ELSE sessions[i]
<1>1. \/ UNCHANGED <<sessions, pending, process>>
      \/ /\ i \in Known /\ Terminate(s)
         /\ IF pending[i] # None
            THEN pending' = [pending EXCEPT ![i] = None] /\ UNCHANGED sessions
            ELSE sessions' = [sessions EXCEPT ![i] = None] /\ UNCHANGED pending
  BY DEF RemoveSession, Pop
<1>2. \/ /\ i \in Known /\ current[s] \in Alive
         /\ lock' = t /\ stopping' = <<s>> /\ dying' = current[s]
         /\ Goto(t, IF pending[i] # None THEN "dropping" ELSE "removing")
         /\ UNCHANGED <<toReal, toTemp>>
      \/ /\ Goto(t, "done") /\ UNCHANGED lockVars
         /\ (DropIndex(i) \/ UNCHANGED <<toReal, toTemp>>)
  BY DEF RemoveSession, Pop
<1>3. i \in Known => s \in Tasks
  BY DEF Known, SessionsTypeOK
<1> UNCHANGED <<taskVars, current, cliLock, pids, app, doomed>>
  BY DEF RemoveSession
<1> HIDE DEF i, s
<1>4. /\ sessions' \in [SessionIds -> Tasks \cup {None}] /\ pending' \in [SessionIds -> Tasks \cup {None}]
      /\ process' \in [Tasks -> {"none", "live", "term", "dead"}]
  BY <1>1, TerminateTypes DEF SessionsTypeOK
<1>5. /\ lock' \in Tasks \cup {Stopper, None} /\ stopping' \in Seq(Tasks) /\ dying' \in Tasks \cup {None}
  <2>1. CASE i \in Known /\ lock' = t /\ stopping' = <<s>> /\ dying' = current[s] /\ current[s] \in Alive
    BY <2>1, <1>3 DEF Alive
  <2>2. CASE UNCHANGED lockVars
    BY <2>2 DEF SessionsTypeOK, lockVars
  <2> QED BY <1>2, <2>1, <2>2
<1>6. pc' \in [Tasks -> {"idle", "getting", "waiting", "spawning", "reading", "registering",
                         "stopping", "closing", "dropping", "removing", "done"}]
  BY <1>2 DEF SessionsTypeOK, Goto
<1>7. toReal' \in [SessionIds -> SessionIds \cup {None}] /\ toTemp' \in [SessionIds -> SessionIds \cup {None}]
  BY <1>2, DropTypes DEF SessionsTypeOK
<1> QED BY <1>4, <1>5, <1>6, <1>7 DEF SessionsTypeOK, taskVars

LEMMA InterruptTypes == ASSUME SessionsTypeOK, NEW t \in Tasks, Cancel(t) PROVE SessionsTypeOK'
<1> UNCHANGED <<managerVars, tree, resumes, session, captured, temp, recorded, app>> /\ cancelled' = cancelled \cup {t}
    /\ doomed' = doomed \ {t} /\ Interrupt(t)
  BY DEF Cancel
<1>1. /\ lock' \in Tasks \cup {Stopper, None} /\ stopping' \in Seq(Tasks) /\ dying' \in Tasks \cup {None}
  BY UnlockTypes DEF SessionsTypeOK, lockVars, Interrupt
<1>2. pc' \in [Tasks -> {"idle", "getting", "waiting", "spawning", "reading", "registering",
                         "stopping", "closing", "dropping", "removing", "done"}]
  BY DEF SessionsTypeOK, Goto, Interrupt
<1>3. process' \in [Tasks -> {"none", "live", "term", "dead"}]
  BY TerminateTypes DEF SessionsTypeOK, Interrupt
<1>4. cliLock' \in [Tasks -> Tasks \cup {None}] /\ pids' \subseteq Tasks
  BY GeneratorTypes DEF SessionsTypeOK, Interrupt
<1>5. abandoned' \subseteq Tasks /\ current' = current
  BY DEF SessionsTypeOK, Interrupt
<1> QED BY <1>1, <1>2, <1>3, <1>4, <1>5 DEF SessionsTypeOK, managerVars

LEMMA SessionsTypeInit == SessionsInit => SessionsTypeOK
  BY DEF SessionsInit, SessionsTypeOK

LEMMA SessionsTypeStep == ASSUME SessionsTypeOK, Lives, [SessionsNext]_sessionVars PROVE SessionsTypeOK'
<1> USE DEF SessionsTypeOK
<1>1. ASSUME NEW t \in Tasks, NEW u \in Tasks \cup {None}, Start(t, u) PROVE SessionsTypeOK'
  <2>1. PICK root \in Tasks, id \in SessionIds \cup {None} : Enter(t, root, id)
    <3>1. CASE u = None
      BY <1>1, <3>1 DEF Start
    <3>2. CASE u # None /\ tree[u] = None
      BY <1>1, <3>2 DEF Start, Lives, LifeOf
    <3>3. CASE u # None /\ tree[u] # None
      BY <1>1, <3>3 DEF Start
    <3> QED BY <3>1, <3>2, <3>3
  <2>2. /\ pc' = [pc EXCEPT ![t] = "getting"] /\ tree' = [tree EXCEPT ![t] = root] /\ resumes' = [resumes EXCEPT ![t] = id]
        /\ UNCHANGED <<lockVars, managerVars, session, captured, temp, cancelled, abandoned, recorded, procVars, app, doomed>>
    BY <2>1 DEF Enter, Goto
  <2> QED BY <2>2 DEF lockVars, managerVars, procVars
<1>2. ASSUME NEW t \in Tasks, GetOrCreate(t) PROVE SessionsTypeOK'
  <2>1. \A i \in Known : Found(i) \in Tasks /\ i \in SessionIds
    BY DEF Known, Found
  <2>2. \E id \in SessionIds :
                            \/ /\ Found(id) \in Tasks /\ session' = [session EXCEPT ![t] = Found(id)]
                               /\ captured' = [captured EXCEPT ![t] = id] /\ UNCHANGED <<pending, temp>>
                            \/ /\ pending' = [pending EXCEPT ![id] = t] /\ session' = [session EXCEPT ![t] = t]
                               /\ temp' = [temp EXCEPT ![t] = id] /\ UNCHANGED captured
    BY <1>2, <2>1, GivenType DEF GetOrCreate
  <2>3. /\ pc' = [pc EXCEPT ![t] = "waiting"]
        /\ UNCHANGED <<lockVars, sessions, toReal, toTemp, tree, resumes, cancelled, abandoned, recorded, procVars, app, doomed>>
    BY <1>2 DEF GetOrCreate, Goto
  <2>4. /\ session' \in [Tasks -> Tasks \cup {None}] /\ captured' \in [Tasks -> SessionIds \cup {None}]
        /\ temp' \in [Tasks -> SessionIds \cup {None}] /\ pending' \in [SessionIds -> Tasks \cup {None}]
    <3> PICK id \in SessionIds :
               \/ /\ Found(id) \in Tasks /\ session' = [session EXCEPT ![t] = Found(id)]
                  /\ captured' = [captured EXCEPT ![t] = id] /\ UNCHANGED <<pending, temp>>
               \/ /\ pending' = [pending EXCEPT ![id] = t] /\ session' = [session EXCEPT ![t] = t]
                  /\ temp' = [temp EXCEPT ![t] = id] /\ UNCHANGED captured
      BY <2>2
    <3>1. CASE /\ Found(id) \in Tasks /\ session' = [session EXCEPT ![t] = Found(id)]
               /\ captured' = [captured EXCEPT ![t] = id] /\ UNCHANGED <<pending, temp>>
      BY <3>1
    <3>2. CASE /\ pending' = [pending EXCEPT ![id] = t] /\ session' = [session EXCEPT ![t] = t]
               /\ temp' = [temp EXCEPT ![t] = id] /\ UNCHANGED captured
      BY <3>2
    <3> QED BY <3>1, <3>2
  <2> QED BY <2>3, <2>4 DEF lockVars, procVars
<1>3. ASSUME NEW t \in Tasks, Spawn(t) \/ Spawned(t) \/ SessionInfo(t) \/ Completed(t) PROVE SessionsTypeOK'
  <2>1. CASE Spawn(t)
    BY <2>1 DEF Spawn, Goto, lockVars, managerVars, taskVars
  <2>2. CASE Spawned(t)
    BY <2>2 DEF Spawned, Goto, lockVars, managerVars, taskVars
  <2>3. CASE SessionInfo(t)
    BY <2>3 DEF SessionInfo, Goto, lockVars, managerVars, taskVars, procVars
  <2>4. CASE Completed(t)
    BY <2>4 DEF Completed, lockVars, managerVars, procVars
  <2> QED BY <1>3, <2>1, <2>2, <2>3, <2>4
<1>4. ASSUME NEW t \in Tasks, SpawnFails(t) \/ Exited(t) \/ StopReturns(t) \/ Collect(t) PROVE SessionsTypeOK'
  BY <1>4, GeneratorTypes DEF SpawnFails, Exited, StopReturns, Collect, Goto, lockVars, managerVars, taskVars
<1>5. ASSUME NEW t \in Tasks, RegisterSession(t) PROVE SessionsTypeOK'
  <2>1. /\ pc' = [pc EXCEPT ![t] = "reading"] /\ captured' = [captured EXCEPT ![t] = Real(t)] /\ temp' = [temp EXCEPT ![t] = None]
        /\ recorded' = [recorded EXCEPT ![t] = Real(t)]
        /\ UNCHANGED <<lockVars, tree, resumes, session, cancelled, abandoned, procVars, app, doomed>>
    BY <1>5 DEF RegisterSession, Goto
  <2>2. \/ /\ pending[temp[t]] # None /\ pending' = [pending EXCEPT ![temp[t]] = None]
           /\ sessions' = [sessions EXCEPT ![Real(t)] = pending[temp[t]]]
           /\ toReal' = [toReal EXCEPT ![temp[t]] = Real(t)] /\ toTemp' = [toTemp EXCEPT ![Real(t)] = temp[t]]
        \/ UNCHANGED managerVars
    BY <1>5 DEF RegisterSession
  <2>3. Real(t) \in SessionIds /\ temp[t] \in SessionIds
    BY <1>5, KeyFacts DEF RegisterSession, Lives, LifeOf
  <2>4. /\ sessions' \in [SessionIds -> Tasks \cup {None}] /\ pending' \in [SessionIds -> Tasks \cup {None}]
        /\ toReal' \in [SessionIds -> SessionIds \cup {None}] /\ toTemp' \in [SessionIds -> SessionIds \cup {None}]
    <3>1. CASE ~UNCHANGED managerVars
      <4>0. pending[temp[t]] # None
        BY <2>2, <3>1
      <4>2. pending \in [SessionIds -> Tasks \cup {None}]
        OBVIOUS
      <4>1. pending[temp[t]] \in Tasks
        BY ONLY <2>3, <4>0, <4>2
      <4>3. /\ pending' = [pending EXCEPT ![temp[t]] = None]
            /\ sessions' = [sessions EXCEPT ![Real(t)] = pending[temp[t]]]
            /\ toReal' = [toReal EXCEPT ![temp[t]] = Real(t)] /\ toTemp' = [toTemp EXCEPT ![Real(t)] = temp[t]]
        BY <2>2, <3>1
      <4> QED BY <2>3, <4>1, <4>3
    <3>2. CASE UNCHANGED managerVars
      BY <3>2 DEF managerVars
    <3> QED BY <2>2, <3>1, <3>2
  <2> QED BY <2>1, <2>3, <2>4 DEF lockVars, procVars
<1>6. ASSUME NEW t \in Tasks, RemoveSession(t) PROVE SessionsTypeOK'
  BY <1>6, PopTypes
<1>7. ASSUME NEW t \in Tasks, SessionRemoved(t) PROVE SessionsTypeOK'
  BY <1>7, UnlockTypes, DropTypes DEF SessionRemoved, Unregister, Goto, taskVars
<1>8. ASSUME NEW t \in Tasks, Cancel(t) PROVE SessionsTypeOK'
  BY <1>8, InterruptTypes
<1>9. ASSUME NEW t \in Tasks, Die(t) PROVE SessionsTypeOK'
  BY <1>9 DEF Die, lockVars, managerVars, taskVars
<1>10. CASE StopAll
  <2>1. Managed \in SUBSET Tasks
    BY DEF Managed
  <2> QED BY <1>10, <2>1, InOrderType DEF StopAll, managerVars, taskVars, procVars
<1>11. CASE StopNext
  <2>1. Tail(stopping) \in Seq(Tasks)
    BY <1>11 DEF StopNext
  <2>2. stopping' \in Seq(Tasks) /\ dying' \in Tasks \cup {None} /\ pids' \subseteq Tasks
    BY <1>11, <2>1 DEF StopNext, Unregister, Alive
  <2>3. process' \in [Tasks -> {"none", "live", "term", "dead"}]
    BY <1>11, TerminateTypes DEF StopNext
  <2> QED BY <1>11, <2>2, <2>3 DEF StopNext, managerVars, taskVars
<1>12. CASE AllStopped \/ ShutDown \/ StopTimesOut \/ LoopEnds
  BY <1>12, UnlockTypes DEF AllStopped, ShutDown, StopTimesOut, LoopEnds, lockVars, managerVars, taskVars, procVars
<1>13. CASE Exit
  BY <1>13 DEF Exit, lockVars, managerVars
<1>14. CASE UNCHANGED sessionVars
  BY <1>14 DEF sessionVars, lockVars, managerVars, taskVars, procVars
<1> QED BY <1>1, <1>2, <1>3, <1>4, <1>5, <1>6, <1>7, <1>8, <1>9, <1>10, <1>11, <1>12, <1>13, <1>14 DEF SessionsNext

(***************************************************************************)
(* A step changes the local variables of at most one task.                 *)
(***************************************************************************)

Others(t) == \A v \in Tasks \ {t} :
    /\ pc'[v] = pc[v] /\ tree'[v] = tree[v] /\ resumes'[v] = resumes[v] /\ session'[v] = session[v]
    /\ captured'[v] = captured[v] /\ temp'[v] = temp[v] /\ recorded'[v] = recorded[v]
    /\ v \in cancelled' <=> v \in cancelled
Nobody == UNCHANGED <<pc, tree, resumes, session, captured, temp, recorded, cancelled>>

StepOf(t) ==
    \/ (\E u \in Tasks \cup {None} : Start(t, u)) \/ GetOrCreate(t) \/ Spawn(t) \/ Spawned(t) \/ SpawnFails(t)
    \/ SessionInfo(t) \/ RegisterSession(t) \/ Completed(t) \/ Exited(t)
    \/ RemoveSession(t) \/ SessionRemoved(t) \/ Cancel(t) \/ StopReturns(t)
StepOfNobody ==
    \/ \E t \in Tasks : Collect(t) \/ Die(t)
    \/ StopAll \/ StopNext \/ AllStopped \/ ShutDown \/ StopTimesOut \/ LoopEnds \/ Exit \/ UNCHANGED sessionVars

LEMMA SessionsCases == [SessionsNext]_sessionVars => (\E t \in Tasks : StepOf(t)) \/ StepOfNobody
  BY DEF SessionsNext, StepOf, StepOfNobody

LEMMA NobodyMoves == StepOfNobody => Nobody
<1>1. ASSUME NEW t \in Tasks, Collect(t) \/ Die(t) PROVE Nobody
  BY <1>1 DEF Collect, Die, Nobody, taskVars
<1>2. CASE StopAll \/ StopNext \/ AllStopped
  BY <1>2 DEF StopAll, StopNext, AllStopped, Nobody, taskVars
<1>3. CASE ShutDown \/ StopTimesOut \/ LoopEnds \/ Exit
  BY <1>3 DEF ShutDown, StopTimesOut, LoopEnds, Exit, Nobody, taskVars
<1>4. CASE UNCHANGED sessionVars
  BY <1>4 DEF sessionVars, Nobody, taskVars
<1> QED BY <1>1, <1>2, <1>3, <1>4 DEF StepOfNobody

LEMMA OthersStay == ASSUME SessionsTypeOK, NEW t \in Tasks, StepOf(t) PROVE Others(t)
<1>0. /\ pc \in [Tasks -> {"idle", "getting", "waiting", "spawning", "reading", "registering",
                         "stopping", "closing", "dropping", "removing", "done"}]
      /\ tree \in [Tasks -> Tasks \cup {None}] /\ session \in [Tasks -> Tasks \cup {None}]
      /\ resumes \in [Tasks -> SessionIds \cup {None}] /\ recorded \in [Tasks -> SessionIds \cup {None}]
      /\ captured \in [Tasks -> SessionIds \cup {None}] /\ temp \in [Tasks -> SessionIds \cup {None}]
  BY DEF SessionsTypeOK
<1>1. CASE \E u \in Tasks \cup {None} : Start(t, u)
  <2>1. PICK root, id : Enter(t, root, id)
    BY <1>1 DEF Start
  <2> QED BY <1>0, <2>1 DEF Enter, Goto, Others
<1>2. CASE GetOrCreate(t)
  BY <1>0, <1>2 DEF GetOrCreate, Goto, Others
<1>3. CASE Spawn(t) \/ Spawned(t) \/ SpawnFails(t) \/ SessionInfo(t)
  BY <1>0, <1>3 DEF Spawn, Spawned, SpawnFails, SessionInfo, Goto, Others, taskVars
<1>4. CASE RegisterSession(t) \/ Completed(t)
  BY <1>0, <1>4 DEF RegisterSession, Completed, Goto, Others
<1>5. CASE Exited(t) \/ SessionRemoved(t) \/ StopReturns(t)
  BY <1>0, <1>5 DEF Exited, SessionRemoved, StopReturns, Goto, Others, taskVars
<1>6. CASE RemoveSession(t)
  <2>1. UNCHANGED taskVars /\ \E where : Goto(t, where)
    BY <1>6 DEF RemoveSession, Pop
  <2> QED BY <1>0, <2>1 DEF Goto, Others, taskVars
<1>7. CASE Cancel(t)
  <2>1. /\ \E where : Goto(t, where)
        /\ cancelled' = cancelled \cup {t}
        /\ UNCHANGED <<tree, resumes, session, captured, temp, recorded>>
    BY <1>7 DEF Cancel, Interrupt
  <2> QED BY <1>0, <2>1 DEF Goto, Others
<1> QED BY <1>1, <1>2, <1>3, <1>4, <1>5, <1>6, <1>7 DEF StepOf

\* A task gets the session found under the id it asked for, or creates one under
\* that id.
Lookup(t) == IF toReal[Given(t)] # None THEN toReal[Given(t)] ELSE Given(t)

Shares(t) ==
    /\ resumes[t] # None /\ Lookup(t) \in Known /\ Found(Lookup(t)) \in Tasks
    /\ session' = [session EXCEPT ![t] = Found(Lookup(t))] /\ captured' = [captured EXCEPT ![t] = Lookup(t)]
    /\ UNCHANGED <<pending, temp>>
Creates(t) ==
    /\ resumes[t] # None => Lookup(t) \notin Known
    /\ pending' = [pending EXCEPT ![Given(t)] = t] /\ session' = [session EXCEPT ![t] = t]
    /\ temp' = [temp EXCEPT ![t] = Given(t)]
    /\ UNCHANGED captured

LEMMA Gets == ASSUME SessionsTypeOK, NEW t \in Tasks, GetOrCreate(t)
    PROVE /\ Shares(t) \/ Creates(t)
          /\ pc[t] = "getting" /\ lock = None /\ pc' = [pc EXCEPT ![t] = "waiting"]
          /\ Given(t) \in SessionIds /\ Lookup(t) \in SessionIds
          /\ UNCHANGED <<lockVars, sessions, toReal, toTemp, tree, resumes, cancelled, abandoned, recorded, procVars, app, doomed>>
<1>1. \A i \in Known : Found(i) \in Tasks
  BY DEF Known, Found, SessionsTypeOK
<1>2. Given(t) \in SessionIds /\ Lookup(t) \in SessionIds
  BY GivenType DEF Lookup, SessionsTypeOK
<1>3. CASE resumes[t] # None
  <2>1. (IF resumes[t] # None /\ toReal[Given(t)] # None THEN toReal[Given(t)] ELSE Given(t)) = Lookup(t)
    BY <1>3 DEF Lookup
  <2>2. Shares(t) \/ Creates(t)
    BY <1>1, <1>3, <2>1 DEF GetOrCreate, Shares, Creates
  <2> QED BY <1>2, <2>2 DEF GetOrCreate, Goto
<1>4. CASE resumes[t] = None
  <2>1. Creates(t)
    BY <1>4 DEF GetOrCreate, Creates
  <2> QED BY <1>2, <2>1 DEF GetOrCreate, Goto
<1> QED BY <1>3, <1>4

LEMMA LivesInit == SessionsInit => Lives
  BY DEF SessionsInit, Lives, LifeOf, AtWork

LEMMA LivesStep == ASSUME SessionsTypeOK, Lives, [SessionsNext]_sessionVars PROVE Lives'
<1>0. SessionsTypeOK'
  BY SessionsTypeStep
<1>1. CASE StepOfNobody
  BY <1>1, NobodyMoves DEF Nobody, Lives, LifeOf, Given
<1>2. ASSUME NEW t \in Tasks, StepOf(t) PROVE Lives'
  <2>1. \A v \in Tasks \ {t} : LifeOf(v)'
    BY <1>2, OthersStay DEF Others, Lives, LifeOf, Given
  <2>2. LifeOf(t)
    BY DEF Lives
  <2>3. LifeOf(t)'
    <3>1. CASE \E u \in Tasks \cup {None} : Start(t, u)
      <4>1. PICK root, id : Enter(t, root, id)
        BY <3>1 DEF Start
      <4>2. root # None
        BY <3>1, <4>1, KeyFacts DEF Start, Enter, Lives, LifeOf, SessionsTypeOK
      <4> QED BY <2>2, <4>1, <4>2 DEF Enter, Goto, LifeOf, AtWork, SessionsTypeOK
    <3>2. CASE GetOrCreate(t)
      <4>1. /\ session'[t] # None
            /\ \/ temp'[t] = Given(t) /\ temp'[t] # None /\ captured'[t] = None
               \/ captured'[t] # None /\ temp'[t] = None
        <5>1. session[t] = None /\ captured[t] = None /\ temp[t] = None
          BY <2>2, <3>2, Gets DEF LifeOf
        <5>4. /\ session \in [Tasks -> Tasks \cup {None}] /\ captured \in [Tasks -> SessionIds \cup {None}]
              /\ temp \in [Tasks -> SessionIds \cup {None}]
          BY DEF SessionsTypeOK
        <5>5. Given(t) # None /\ Lookup(t) # None /\ None \notin Tasks
          BY <3>2, Gets, KeyFacts
        <5>2. CASE Shares(t)
          BY <5>1, <5>2, <5>4, <5>5 DEF Shares
        <5>3. CASE Creates(t)
          BY <5>1, <5>3, <5>4, <5>5 DEF Creates
        <5> QED BY <3>2, <5>2, <5>3, Gets
      <4>2. /\ pc[t] = "getting" /\ pc'[t] = "waiting" /\ Given(t)' = Given(t)
            /\ UNCHANGED <<tree, resumes, recorded, cancelled>>
        BY <3>2 DEF GetOrCreate, Goto, Given, SessionsTypeOK
      <4> QED BY <2>2, <4>1, <4>2 DEF LifeOf, AtWork
    <3>3. CASE Spawn(t) \/ Spawned(t) \/ SpawnFails(t) \/ SessionInfo(t)
      BY <2>2, <3>3 DEF Spawn, Spawned, SpawnFails, SessionInfo, Goto, LifeOf, Given, AtWork, SessionsTypeOK, taskVars
    <3>4. CASE RegisterSession(t)
      BY <2>2, <3>4, KeyFacts DEF RegisterSession, Goto, LifeOf, Given, AtWork, SessionsTypeOK
    <3>5. CASE Completed(t)
      BY <2>2, <3>5 DEF Completed, LifeOf, Given, AtWork, SessionsTypeOK
    <3>6. CASE Exited(t) \/ SessionRemoved(t) \/ StopReturns(t)
      <4>1. /\ UNCHANGED taskVars
            /\ \/ pc[t] = "reading" /\ pc'[t] = "closing"
               \/ pc[t] = "stopping" /\ pc'[t] = "closing"
               \/ pc[t] \in {"dropping", "removing"} /\ pc'[t] = "done"
        BY <3>6 DEF Exited, SessionRemoved, StopReturns, Goto, SessionsTypeOK
      <4> QED BY <2>2, <4>1 DEF LifeOf, Given, AtWork, taskVars
    <3>7. CASE RemoveSession(t)
      <4>1. UNCHANGED taskVars /\ pc[t] = "closing" /\ pc'[t] \in {"done", "dropping", "removing"}
        BY <3>7 DEF RemoveSession, Pop, Goto, SessionsTypeOK
      <4> QED BY <2>2, <4>1 DEF LifeOf, Given, AtWork, taskVars
    <3>8. CASE Cancel(t)
      <4>1. /\ pc[t] # "idle" /\ pc'[t] \in {"stopping", "closing", "done"} /\ (pc'[t] = "stopping" => pc[t] = "reading")
            /\ cancelled' = cancelled \cup {t}
            /\ UNCHANGED <<tree, resumes, session, captured, temp, recorded>>
        BY <3>8 DEF Cancel, Interrupt, Goto, SessionsTypeOK
      <4> QED BY <2>2, <4>1 DEF LifeOf, Given, AtWork
    <3> QED BY <1>2, <3>1, <3>2, <3>3, <3>4, <3>5, <3>6, <3>7, <3>8 DEF StepOf
  <2> QED BY <2>1, <2>3 DEF Lives
<1> QED BY <1>1, <1>2, SessionsCases

\* What a task has once, it keeps.
Stable(v) ==
    /\ pc[v] # "idle" => pc'[v] # "idle" /\ tree'[v] = tree[v] /\ resumes'[v] = resumes[v] /\ Given(v)' = Given(v)
    /\ session[v] # None => session'[v] = session[v]
    /\ captured[v] # None => captured'[v] = captured[v]
    /\ recorded[v] # None => recorded'[v] = recorded[v]
    /\ v \in cancelled => v \in cancelled'
    /\ pc[v] = "done" => pc'[v] = "done"

LEMMA AllStable == ASSUME SessionsTypeOK, Lives, [SessionsNext]_sessionVars PROVE \A v \in Tasks : Stable(v)
<1>1. CASE StepOfNobody
  BY <1>1, NobodyMoves DEF Nobody, Stable, Given
<1>2. ASSUME NEW t \in Tasks, StepOf(t) PROVE \A v \in Tasks : Stable(v)
  <2>1. \A v \in Tasks \ {t} : Stable(v)
    BY <1>2, OthersStay DEF Others, Stable, Given
  <2>2. LifeOf(t)
    BY DEF Lives
  <2>3. Stable(t)
    <3>1. CASE \E u \in Tasks \cup {None} : Start(t, u)
      <4>1. PICK root, id : Enter(t, root, id)
        BY <3>1 DEF Start
      <4> QED BY <2>2, <4>1 DEF Enter, Goto, LifeOf, Stable
    <3>2. CASE GetOrCreate(t)
      <4>1. session[t] = None /\ captured[t] = None /\ recorded[t] = None /\ pc[t] = "getting"
        BY <2>2, <3>2, Gets DEF LifeOf
      <4>2. pc'[t] = "waiting" /\ UNCHANGED <<tree, resumes, cancelled>>
        BY <3>2, Gets DEF SessionsTypeOK
      <4> QED BY <4>1, <4>2 DEF Stable, Given
    <3>3. CASE Spawn(t) \/ Spawned(t) \/ SpawnFails(t) \/ SessionInfo(t)
      BY <3>3 DEF Spawn, Spawned, SpawnFails, SessionInfo, Goto, Stable, Given, SessionsTypeOK, taskVars
    <3>4. CASE RegisterSession(t)
      <4>1. captured[t] = None /\ recorded[t] = None /\ pc[t] = "registering"
        BY <2>2, <3>4 DEF LifeOf, RegisterSession
      <4>2. pc'[t] = "reading" /\ UNCHANGED <<tree, resumes, session, cancelled>>
        BY <3>4 DEF RegisterSession, Goto, SessionsTypeOK
      <4> QED BY <4>1, <4>2 DEF Stable, Given
    <3>5. CASE Completed(t)
      BY <2>2, <3>5 DEF Completed, LifeOf, Stable, Given, SessionsTypeOK
    <3>6. CASE Exited(t) \/ SessionRemoved(t) \/ StopReturns(t)
      BY <3>6 DEF Exited, SessionRemoved, StopReturns, Goto, Stable, Given, SessionsTypeOK, taskVars
    <3>7. CASE RemoveSession(t)
      <4>1. UNCHANGED taskVars /\ pc[t] = "closing" /\ pc'[t] \in {"done", "dropping", "removing"}
        BY <3>7 DEF RemoveSession, Pop, Goto, SessionsTypeOK
      <4> QED BY <4>1 DEF Stable, Given, taskVars
    <3>8. CASE Cancel(t)
      <4>1. /\ pc[t] \notin {"idle", "done"} /\ pc'[t] \in {"stopping", "closing", "done"}
            /\ cancelled' = cancelled \cup {t}
            /\ UNCHANGED <<tree, resumes, session, captured, temp, recorded>>
        BY <3>8 DEF Cancel, Interrupt, Goto, SessionsTypeOK
      <4> QED BY <4>1 DEF Stable, Given
    <3> QED BY <1>2, <3>1, <3>2, <3>3, <3>4, <3>5, <3>6, <3>7, <3>8 DEF StepOf
  <2> QED BY <2>1, <2>3
<1> QED BY <1>1, <1>2, SessionsCases

LEMMA OneAtWorkInit == SessionsInit => OneAtWork
  BY DEF SessionsInit, OneAtWork

\* Only a start puts a task into a conversation, and there every other is over.
LEMMA OneAtWorkStep ==
    ASSUME SessionsTypeOK, Lives, OneAtWork, [SessionsNext]_sessionVars PROVE OneAtWork'
<1>0. \A v \in Tasks : Stable(v)
  BY AllStable
<1>1. CASE tree' = tree
  BY <1>0, <1>1 DEF OneAtWork, Stable, Ended
<1>2. ASSUME NEW t \in Tasks, NEW u \in Tasks \cup {None}, Start(t, u) PROVE OneAtWork'
  <2>1. PICK root, id : /\ Enter(t, root, id)
                        /\ \/ u = None /\ root = t
                           \/ /\ u # None /\ recorded[u] # None /\ root = tree[u]
                              /\ \A v \in Tasks : tree[v] = tree[u] => pc[v] = "done" \/ v \in cancelled
    BY <1>2 DEF Start
  <2>2. pc[t] = "idle" /\ tree' = [tree EXCEPT ![t] = root] /\ tree[t] = None
    BY <2>1 DEF Enter, Lives, LifeOf
  <2>3. \A v \in Tasks \ {t} : tree'[v] = tree[v]
    BY <2>2 DEF SessionsTypeOK
  <2>4. tree'[t] = root
    BY <2>2 DEF SessionsTypeOK
  <2>5. \A v \in Tasks \ {t} : tree[v] = root /\ root # None => Ended(v)'
    <3>1. CASE u = None
      BY <2>1, <2>2, <3>1 DEF OneAtWork, SessionsTypeOK
    <3>2. CASE u # None
      BY <1>0, <2>1, <3>2 DEF Stable, Ended
    <3> QED BY <3>1, <3>2
  <2>6. root # None => root \in Tasks /\ tree'[root] = root
    <3>1. CASE u = None
      BY <2>1, <2>4, <3>1
    <3>2. CASE u # None
      BY <2>1, <2>2, <2>3, <3>2 DEF OneAtWork, SessionsTypeOK
    <3> QED BY <3>1, <3>2
  <2>7. \A v \in Tasks : tree'[v] # None => tree'[v] \in Tasks /\ tree'[tree'[v]] = tree'[v]
    BY <2>2, <2>3, <2>4, <2>6 DEF OneAtWork, SessionsTypeOK
  <2>8. \A v, w \in Tasks : v # w /\ tree'[v] = tree'[w] /\ tree'[v] # None => Ended(v)' \/ Ended(w)'
    BY <1>0, <2>3, <2>4, <2>5 DEF OneAtWork, Stable, Ended
  <2> QED BY <2>7, <2>8 DEF OneAtWork
<1>3. tree' = tree \/ \E t \in Tasks, u \in Tasks \cup {None} : Start(t, u)
  <2>1. CASE StepOfNobody
    BY <2>1, NobodyMoves DEF Nobody
  <2>2. ASSUME NEW t \in Tasks, StepOf(t) PROVE tree' = tree \/ \E u \in Tasks \cup {None} : Start(t, u)
    <3>1. GetOrCreate(t) => tree' = tree
      BY Gets
    <3>2. Spawn(t) \/ Spawned(t) \/ SpawnFails(t) \/ SessionInfo(t) \/ Exited(t) \/ StopReturns(t) => tree' = tree
      BY DEF Spawn, Spawned, SpawnFails, SessionInfo, Exited, StopReturns, taskVars
    <3>3. RegisterSession(t) \/ Completed(t) \/ RemoveSession(t) \/ SessionRemoved(t) \/ Cancel(t) => tree' = tree
      BY DEF RegisterSession, Completed, RemoveSession, SessionRemoved, Cancel, taskVars
    <3> QED BY <2>2, <3>1, <3>2, <3>3 DEF StepOf
  <2> QED BY <2>1, <2>2, SessionsCases
<1> QED BY <1>1, <1>2, <1>3

(***************************************************************************)
(* Whose the ids are.                                                      *)
(***************************************************************************)

LEMMA IssuedOnce == ASSUME NEW i, NEW a, NEW b, IssuedIn(i, a), IssuedIn(i, b) PROVE a = b
  BY KeyFacts DEF IssuedIn

IssuedNext(i, root) == \E v \in Tasks : i = Real(v) /\ captured'[v] = Real(v) /\ tree'[v] = root
NamesNext(i, j) == \E t \in Tasks : j = Real(t) /\ captured'[t] = j /\ i = Given(t)'

LEMMA IssuedStays ==
    ASSUME SessionsTypeOK, Lives, \A v \in Tasks : Stable(v)
    PROVE  /\ \A i, a : IssuedIn(i, a) => IssuedNext(i, a)
           /\ \A i, j : Names(i, j) => NamesNext(i, j)
<1>1. \A v \in Tasks : captured[v] = Real(v) =>
          captured'[v] = Real(v) /\ tree'[v] = tree[v] /\ Given(v)' = Given(v)
  BY KeyFacts DEF Stable, Lives, LifeOf
<1>2. \A i, a : IssuedIn(i, a) => IssuedNext(i, a)
  BY <1>1 DEF IssuedIn, IssuedNext
<1>3. \A i, j : Names(i, j) => NamesNext(i, j)
  BY <1>1 DEF Names, NamesNext
<1> QED BY <1>2, <1>3

LEMMA IssuedInTree == ASSUME SessionsTypeOK, Lives, NEW i, NEW a, IssuedIn(i, a) PROVE a # None
  BY KeyFacts DEF IssuedIn, Lives, LifeOf

\* The manager only forgets, and the tasks keep their ids.
Forgets ==
    /\ UNCHANGED <<tree, resumes, session, captured, temp>>
    /\ \A i \in SessionIds : /\ sessions'[i] \in {None, sessions[i]} /\ pending'[i] \in {None, pending[i]}
                             /\ toReal'[i] \in {None, toReal[i]} /\ toTemp'[i] \in {None, toTemp[i]}

LEMMA Forgetful ==
    ASSUME SessionsTypeOK, Lives, [SessionsNext]_sessionVars
    PROVE  \/ Forgets
           \/ \E t \in Tasks : GetOrCreate(t) \/ RegisterSession(t) \/ \E u \in Tasks \cup {None} : Start(t, u)
<1>1. ASSUME NEW t \in Tasks, Spawn(t) \/ Spawned(t) \/ SpawnFails(t) \/ SessionInfo(t) \/ Exited(t) \/ StopReturns(t) PROVE Forgets
  BY <1>1 DEF Spawn, Spawned, SpawnFails, SessionInfo, Exited, StopReturns, taskVars, managerVars, Forgets
<1>2. ASSUME NEW t \in Tasks, Completed(t) \/ Cancel(t) \/ Collect(t) \/ Die(t) PROVE Forgets
  BY <1>2 DEF Completed, Cancel, Collect, Die, taskVars, managerVars, Forgets
<1>3. ASSUME NEW i, DropIndex(i) PROVE \A j \in SessionIds : toReal'[j] \in {None, toReal[j]} /\ toTemp'[j] \in {None, toTemp[j]}
  BY <1>3 DEF DropIndex, SessionsTypeOK
<1>4. ASSUME NEW t \in Tasks, RemoveSession(t) PROVE Forgets
  <2>1. /\ UNCHANGED sessions \/ sessions' = [sessions EXCEPT ![OwnId(t)] = None]
        /\ UNCHANGED pending \/ pending' = [pending EXCEPT ![OwnId(t)] = None]
        /\ DropIndex(OwnId(t)) \/ UNCHANGED <<toReal, toTemp>>
        /\ UNCHANGED taskVars
    BY <1>4 DEF RemoveSession, Pop
  <2>2. \A i \in SessionIds : sessions'[i] \in {None, sessions[i]} /\ pending'[i] \in {None, pending[i]}
    BY <2>1 DEF SessionsTypeOK
  <2> QED BY <2>1, <2>2, <1>3 DEF taskVars, Forgets
<1>5. ASSUME NEW t \in Tasks, SessionRemoved(t) PROVE Forgets
  BY <1>3, <1>5 DEF SessionRemoved, taskVars, Forgets
<1>6. CASE StopAll \/ StopNext \/ ShutDown \/ StopTimesOut \/ LoopEnds \/ Exit
  BY <1>6 DEF StopAll, StopNext, ShutDown, StopTimesOut, LoopEnds, Exit, taskVars, managerVars, Forgets
<1>7. CASE AllStopped
  BY <1>7 DEF AllStopped, taskVars, Forgets
<1>8. CASE UNCHANGED sessionVars
  BY <1>8 DEF sessionVars, taskVars, managerVars, Forgets
<1> QED BY <1>1, <1>2, <1>4, <1>5, <1>6, <1>7, <1>8 DEF SessionsNext

LEMMA FamiliesInit == SessionsInit => Families
  BY KeyFacts DEF SessionsInit, Families, TaskKeys, StoredKeys, Names

\* An entry of the index leads from the id that was asked for to the one of the
\* task that asked, and that task is of the conversation the id belongs to.
LEMMA NamesInFamily ==
    ASSUME SessionsTypeOK, Lives, Families, NEW i \in SessionIds, NEW j \in SessionIds, Names(i, j), NEW a, IssuedIn(i, a)
    PROVE  IssuedIn(j, a)
<1>1. PICK t \in Tasks : j = Real(t) /\ captured[t] = j /\ i = Given(t)
  BY DEF Names
<1>2. resumes[t] # None /\ i = resumes[t]
  BY <1>1, KeyFacts DEF IssuedIn, Given
<1>3. IssuedIn(i, tree[t])
  BY <1>2 DEF Families, TaskKeys
<1>4. tree[t] = a
  BY <1>3, IssuedOnce
<1> QED BY <1>1, <1>4 DEF IssuedIn

\* Families in the next state, conjunct by conjunct.
LEMMA FamiliesNext ==
    ASSUME \A t \in Tasks :
              /\ resumes'[t] # None => IssuedNext(resumes'[t], tree'[t])
              /\ captured'[t] # None => IssuedNext(captured'[t], tree'[t])
              /\ session'[t] # None => tree'[session'[t]] = tree'[t]
              /\ temp'[t] # None => sessions'[temp'[t]] = None,
           \A i \in SessionIds :
              /\ sessions'[i] # None => IssuedNext(i, tree'[sessions'[i]])
              /\ pending'[i] # None =>
                    /\ sessions'[i] = None /\ tree'[pending'[i]] # None
                    /\ IssuedNext(i, tree'[pending'[i]]) \/ \E v \in Tasks : i = Temp(v) /\ tree'[v] = tree'[pending'[i]]
              /\ toReal'[i] # None => sessions'[i] = None,
           \A i, j \in SessionIds : toReal'[i] = j \/ toTemp'[j] = i => NamesNext(i, j)
    PROVE  Families'
  BY DEF Families, TaskKeys, StoredKeys, Names, NamesNext, IssuedIn, IssuedNext

\* The tree of a session in a dictionary does not change.
LEMMA TreesStay ==
    ASSUME SessionsTypeOK, Lives, Families, \A v \in Tasks : Stable(v)
    PROVE  /\ \A v \in Tasks : tree[v] # None => tree'[v] = tree[v]
           /\ \A i \in SessionIds : sessions[i] # None => tree'[sessions[i]] = tree[sessions[i]]
           /\ \A i \in SessionIds : pending[i] # None => tree'[pending[i]] = tree[pending[i]]
           /\ \A t \in Tasks : session[t] # None => tree'[session[t]] = tree[session[t]]
           /\ \A t \in Tasks : pc[t] # "idle" => tree[t] # None
<1>1. \A v \in Tasks : tree[v] # None => tree'[v] = tree[v]
  BY DEF Stable, Lives, LifeOf
<1>2. \A t \in Tasks : pc[t] # "idle" => tree[t] # None
  BY DEF Lives, LifeOf
<1>3. ASSUME NEW i \in SessionIds, sessions[i] # None PROVE tree'[sessions[i]] = tree[sessions[i]]
  <2>1. sessions[i] \in Tasks /\ tree[sessions[i]] # None
    BY <1>3, IssuedInTree DEF SessionsTypeOK, Families, StoredKeys
  <2> QED BY <1>1, <2>1
<1>4. ASSUME NEW i \in SessionIds, pending[i] # None PROVE tree'[pending[i]] = tree[pending[i]]
  <2>1. pending[i] \in Tasks /\ tree[pending[i]] # None
    BY <1>4 DEF SessionsTypeOK, Families, StoredKeys
  <2> QED BY <1>1, <2>1
<1>5. ASSUME NEW t \in Tasks, session[t] # None PROVE tree'[session[t]] = tree[session[t]]
  <2>1. session[t] \in Tasks /\ pc[t] # "idle" /\ tree[session[t]] = tree[t]
    BY <1>5 DEF SessionsTypeOK, Lives, LifeOf, Families, TaskKeys
  <2> QED BY <1>1, <1>2, <2>1
<1> QED BY <1>1, <1>2, <1>3, <1>4, <1>5

LEMMA FamiliesForget ==
    ASSUME SessionsTypeOK, Lives, Families, \A v \in Tasks : Stable(v), Forgets
    PROVE  Families'
<1>1. ASSUME NEW t \in Tasks
      PROVE  /\ resumes'[t] # None => IssuedNext(resumes'[t], tree'[t])
             /\ captured'[t] # None => IssuedNext(captured'[t], tree'[t])
             /\ session'[t] # None => tree'[session'[t]] = tree'[t]
             /\ temp'[t] # None => sessions'[temp'[t]] = None
  <2>1. TaskKeys(t) /\ UNCHANGED <<tree, resumes, session, captured, temp>>
    BY DEF Families, Forgets
  <2>2. temp[t] # None => temp[t] \in SessionIds
    BY DEF SessionsTypeOK
  <2> QED BY <2>1, <2>2, IssuedStays DEF TaskKeys, Forgets
<1>2. ASSUME NEW i \in SessionIds
      PROVE  /\ sessions'[i] # None => IssuedNext(i, tree'[sessions'[i]])
             /\ pending'[i] # None =>
                    /\ sessions'[i] = None /\ tree'[pending'[i]] # None
                    /\ IssuedNext(i, tree'[pending'[i]]) \/ \E v \in Tasks : i = Temp(v) /\ tree'[v] = tree'[pending'[i]]
             /\ toReal'[i] # None => sessions'[i] = None
  <2>1. StoredKeys(i) /\ tree' = tree
    BY DEF Families, Forgets
  <2>2. sessions'[i] \in {None, sessions[i]} /\ pending'[i] \in {None, pending[i]} /\ toReal'[i] \in {None, toReal[i]}
    BY DEF Forgets
  <2> QED BY <2>1, <2>2, IssuedStays DEF StoredKeys
<1>3. ASSUME NEW i \in SessionIds, NEW j \in SessionIds, toReal'[i] = j \/ toTemp'[j] = i PROVE NamesNext(i, j)
  <2>1. toReal[i] = j \/ toTemp[j] = i
    BY <1>3, KeyFacts DEF Forgets
  <2> QED BY <2>1, IssuedStays DEF Families
<1> QED BY <1>1, <1>2, <1>3, FamiliesNext

LEMMA FamiliesStart ==
    ASSUME SessionsTypeOK, Lives, Families, \A v \in Tasks : Stable(v),
           NEW t \in Tasks, NEW u \in Tasks \cup {None}, Start(t, u)
    PROVE  Families'
<1>1. PICK root, id : /\ Enter(t, root, id) /\ root # None
                      /\ id # None => IssuedIn(id, root)
  <2>1. CASE u = None
    BY <2>1, KeyFacts DEF Start
  <2>2. CASE u # None
    <3>1. u \in Tasks /\ recorded[u] # None /\ recorded[u] = captured[u] /\ tree[u] # None
      BY <2>2 DEF Start, Lives, LifeOf
    <3>2. IssuedIn(recorded[u], tree[u])
      BY <3>1 DEF Families, TaskKeys
    <3> QED BY <2>2, <3>1, <3>2 DEF Start
  <2> QED BY <2>1, <2>2
<1>2. /\ tree' = [tree EXCEPT ![t] = root] /\ resumes' = [resumes EXCEPT ![t] = id] /\ pc[t] = "idle"
      /\ UNCHANGED <<sessions, pending, toReal, toTemp, session, captured, temp>>
  BY <1>1 DEF Enter, managerVars
<1>3. /\ session[t] = None /\ captured[t] = None /\ temp[t] = None /\ tree'[t] = root /\ resumes'[t] = id
      /\ \A v \in Tasks \ {t} : tree'[v] = tree[v] /\ resumes'[v] = resumes[v]
  BY <1>2 DEF SessionsTypeOK, Lives, LifeOf
<1>4. ASSUME NEW v \in Tasks
      PROVE  /\ resumes'[v] # None => IssuedNext(resumes'[v], tree'[v])
             /\ captured'[v] # None => IssuedNext(captured'[v], tree'[v])
             /\ session'[v] # None => tree'[session'[v]] = tree'[v]
             /\ temp'[v] # None => sessions'[temp'[v]] = None
  <2>1. CASE v = t
    BY <1>1, <1>2, <1>3, <2>1, IssuedStays
  <2>2. CASE v # t
    <3>1. session[v] # None => tree'[session[v]] = tree[session[v]]
      BY TreesStay
    <3>2. TaskKeys(v)
      BY DEF Families
    <3> QED BY <1>2, <1>3, <2>2, <3>1, <3>2, IssuedStays DEF TaskKeys
  <2> QED BY <2>1, <2>2
<1>5. ASSUME NEW i \in SessionIds
      PROVE  /\ sessions'[i] # None => IssuedNext(i, tree'[sessions'[i]])
             /\ pending'[i] # None =>
                    /\ sessions'[i] = None /\ tree'[pending'[i]] # None
                    /\ IssuedNext(i, tree'[pending'[i]]) \/ \E v \in Tasks : i = Temp(v) /\ tree'[v] = tree'[pending'[i]]
             /\ toReal'[i] # None => sessions'[i] = None
  <2>1. StoredKeys(i)
    BY DEF Families
  <2>2. /\ sessions[i] # None => tree'[sessions[i]] = tree[sessions[i]]
        /\ pending[i] # None => tree'[pending[i]] = tree[pending[i]]
        /\ \A v \in Tasks : tree[v] # None => tree'[v] = tree[v]
    BY TreesStay
  <2> QED BY <1>2, <2>1, <2>2, IssuedStays DEF StoredKeys
<1>6. ASSUME NEW i \in SessionIds, NEW j \in SessionIds, toReal'[i] = j \/ toTemp'[j] = i PROVE NamesNext(i, j)
  BY <1>2, <1>6, IssuedStays DEF Families
<1> QED BY <1>4, <1>5, <1>6, FamiliesNext

\* The key that a task asks for is of its conversation.
LEMMA GivenInFamily ==
    ASSUME SessionsTypeOK, Families, NEW t \in Tasks
    PROVE  /\ Given(t) \in SessionIds
           /\ resumes[t] # None => Given(t) = resumes[t] /\ IssuedIn(Given(t), tree[t])
           /\ resumes[t] = None => Given(t) = Temp(t)
  BY GivenType DEF Given, Families, TaskKeys

LEMMA NotIssued == \A t \in Tasks : \A a : ~IssuedIn(Temp(t), a)
  BY KeyFacts DEF IssuedIn

\* No task asks for an id that was not reported yet.
LEMMA NotYetGiven ==
    ASSUME SessionsTypeOK, Families, NEW t \in Tasks, captured[t] = None
    PROVE  /\ \A v \in Tasks : Given(v) # Real(t)
           /\ \A a : ~IssuedIn(Real(t), a)
           /\ sessions[Real(t)] = None /\ pending[Real(t)] = None
           /\ toReal[Real(t)] = None /\ toTemp[Real(t)] = None
           /\ \A i \in SessionIds : toReal[i] # Real(t)
<1>1. \A a : ~IssuedIn(Real(t), a)
  BY KeyFacts DEF IssuedIn
<1>2. \A v \in Tasks : Given(v) # Real(t)
  BY <1>1, GivenInFamily, KeyFacts
<1>3. Real(t) \in SessionIds
  BY KeyFacts
<1>4. sessions[Real(t)] = None /\ pending[Real(t)] = None
  BY <1>1, <1>3, KeyFacts DEF Families, StoredKeys
<1>5. \A i \in SessionIds : toReal[i] # Real(t) /\ toTemp[Real(t)] # i
  BY <1>3, KeyFacts DEF Families, Names
<1>6. \A j \in SessionIds : toReal[Real(t)] # j
  BY <1>2, <1>3 DEF Families, Names
<1> QED BY <1>1, <1>2, <1>3, <1>4, <1>5, <1>6 DEF SessionsTypeOK

LEMMA FamiliesGet ==
    ASSUME SessionsTypeOK, Lives, Families, \A v \in Tasks : Stable(v), NEW t \in Tasks, GetOrCreate(t)
    PROVE  Families'
<1>1. /\ Given(t) \in SessionIds /\ Lookup(t) \in SessionIds
      /\ UNCHANGED <<sessions, toReal, toTemp, tree, resumes>> /\ tree[t] # None
  BY Gets DEF Lives, LifeOf
<1>2. resumes[t] # None => IssuedIn(Lookup(t), tree[t])
  <2>1. resumes[t] # None => IssuedIn(Given(t), tree[t])
    BY GivenInFamily
  <2>2. toReal[Given(t)] # None => toReal[Given(t)] \in SessionIds /\ Names(Given(t), toReal[Given(t)])
    BY <1>1 DEF SessionsTypeOK, Families
  <2> QED BY <1>1, <2>1, <2>2, NamesInFamily DEF Lookup
<1>3. CASE Shares(t)
  <2>1. /\ resumes[t] # None /\ Lookup(t) \in Known /\ Found(Lookup(t)) \in Tasks
        /\ session' = [session EXCEPT ![t] = Found(Lookup(t))] /\ captured' = [captured EXCEPT ![t] = Lookup(t)]
        /\ UNCHANGED <<pending, temp>>
    BY <1>3 DEF Shares
  <2>2. tree[Found(Lookup(t))] = tree[t]
    <3>1. StoredKeys(Lookup(t))
      BY <1>1 DEF Families
    <3>2. CASE sessions[Lookup(t)] # None
      BY <1>2, <2>1, <3>1, <3>2, IssuedOnce DEF Found, StoredKeys
    <3>3. CASE sessions[Lookup(t)] = None
      <4>1. IssuedIn(Lookup(t), tree[pending[Lookup(t)]]) \/ \E v \in Tasks : Lookup(t) = Temp(v)
        BY <2>1, <3>1, <3>3 DEF Known, StoredKeys
      <4>2. IssuedIn(Lookup(t), tree[pending[Lookup(t)]])
        BY <1>2, <2>1, <4>1, NotIssued
      <4> QED BY <1>2, <2>1, <3>3, <4>2, IssuedOnce DEF Found
    <3> QED BY <3>2, <3>3
  <2>3. ASSUME NEW v \in Tasks
        PROVE  /\ resumes'[v] # None => IssuedNext(resumes'[v], tree'[v])
               /\ captured'[v] # None => IssuedNext(captured'[v], tree'[v])
               /\ session'[v] # None => tree'[session'[v]] = tree'[v]
               /\ temp'[v] # None => sessions'[temp'[v]] = None
    <3>1. TaskKeys(v)
      BY DEF Families
    <3>2. CASE v = t
      <4>1. captured'[t] = Lookup(t) /\ session'[t] = Found(Lookup(t))
        BY <2>1 DEF SessionsTypeOK
      <4> QED BY <1>1, <1>2, <2>1, <2>2, <3>1, <3>2, <4>1, IssuedStays DEF TaskKeys
    <3>3. CASE v # t
      <4>1. captured'[v] = captured[v] /\ session'[v] = session[v]
        BY <2>1, <3>3 DEF SessionsTypeOK
      <4> QED BY <1>1, <2>1, <3>1, <4>1, IssuedStays DEF TaskKeys
    <3> QED BY <3>2, <3>3
  <2>4. ASSUME NEW i \in SessionIds
        PROVE  /\ sessions'[i] # None => IssuedNext(i, tree'[sessions'[i]])
               /\ pending'[i] # None =>
                    /\ sessions'[i] = None /\ tree'[pending'[i]] # None
                    /\ IssuedNext(i, tree'[pending'[i]]) \/ \E v \in Tasks : i = Temp(v) /\ tree'[v] = tree'[pending'[i]]
               /\ toReal'[i] # None => sessions'[i] = None
    <3>1. StoredKeys(i)
      BY DEF Families
    <3> QED BY <1>1, <2>1, <3>1, IssuedStays DEF StoredKeys
  <2>5. ASSUME NEW i \in SessionIds, NEW j \in SessionIds, toReal'[i] = j \/ toTemp'[j] = i PROVE NamesNext(i, j)
    BY <1>1, <2>5, IssuedStays DEF Families
  <2> QED BY <2>3, <2>4, <2>5, FamiliesNext
<1>4. CASE Creates(t)
  <2>1. /\ resumes[t] # None => Lookup(t) \notin Known
        /\ pending' = [pending EXCEPT ![Given(t)] = t] /\ session' = [session EXCEPT ![t] = t]
        /\ temp' = [temp EXCEPT ![t] = Given(t)] /\ captured' = captured
    BY <1>4 DEF Creates
  <2>2. sessions[Given(t)] = None
    <3>1. StoredKeys(Given(t))
      BY <1>1 DEF Families
    <3>2. CASE resumes[t] = None
      BY <3>1, <3>2, GivenInFamily, NotIssued DEF StoredKeys
    <3>3. CASE resumes[t] # None /\ toReal[Given(t)] # None
      BY <3>1, <3>3 DEF StoredKeys
    <3>4. CASE resumes[t] # None /\ toReal[Given(t)] = None
      BY <1>1, <2>1, <3>4 DEF Lookup, Known
    <3> QED BY <3>2, <3>3, <3>4
  <2>3. ASSUME NEW v \in Tasks
        PROVE  /\ resumes'[v] # None => IssuedNext(resumes'[v], tree'[v])
               /\ captured'[v] # None => IssuedNext(captured'[v], tree'[v])
               /\ session'[v] # None => tree'[session'[v]] = tree'[v]
               /\ temp'[v] # None => sessions'[temp'[v]] = None
    <3>1. TaskKeys(v)
      BY DEF Families
    <3>2. CASE v = t
      <4>1. temp'[t] = Given(t) /\ session'[t] = t
        BY <2>1 DEF SessionsTypeOK
      <4> QED BY <1>1, <2>1, <2>2, <3>1, <3>2, <4>1, IssuedStays DEF TaskKeys
    <3>3. CASE v # t
      <4>1. temp'[v] = temp[v] /\ session'[v] = session[v]
        BY <2>1, <3>3 DEF SessionsTypeOK
      <4> QED BY <1>1, <2>1, <3>1, <4>1, IssuedStays DEF TaskKeys
    <3> QED BY <3>2, <3>3
  <2>4. ASSUME NEW i \in SessionIds
        PROVE  /\ sessions'[i] # None => IssuedNext(i, tree'[sessions'[i]])
               /\ pending'[i] # None =>
                    /\ sessions'[i] = None /\ tree'[pending'[i]] # None
                    /\ IssuedNext(i, tree'[pending'[i]]) \/ \E v \in Tasks : i = Temp(v) /\ tree'[v] = tree'[pending'[i]]
               /\ toReal'[i] # None => sessions'[i] = None
    <3>1. StoredKeys(i)
      BY DEF Families
    <3>2. CASE i = Given(t)
      <4>1. pending'[i] = t
        BY <1>1, <2>1, <3>2 DEF SessionsTypeOK
      <4>2. IssuedIn(i, tree[t]) \/ i = Temp(t)
        BY <3>2, GivenInFamily
      <4> QED BY <1>1, <2>2, <3>1, <3>2, <4>1, <4>2, IssuedStays DEF StoredKeys
    <3>3. CASE i # Given(t)
      <4>1. pending'[i] = pending[i]
        BY <2>1, <3>3 DEF SessionsTypeOK
      <4> QED BY <1>1, <3>1, <4>1, IssuedStays DEF StoredKeys
    <3> QED BY <3>2, <3>3
  <2>5. ASSUME NEW i \in SessionIds, NEW j \in SessionIds, toReal'[i] = j \/ toTemp'[j] = i PROVE NamesNext(i, j)
    BY <1>1, <2>5, IssuedStays DEF Families
  <2> QED BY <2>3, <2>4, <2>5, FamiliesNext
<1> QED BY <1>3, <1>4, Gets

\* What registering does, in one place.
Registers(t) ==
    /\ pending[temp[t]] \in Tasks /\ pending' = [pending EXCEPT ![temp[t]] = None]
    /\ sessions' = [sessions EXCEPT ![Real(t)] = pending[temp[t]]]
    /\ toReal' = [toReal EXCEPT ![temp[t]] = Real(t)] /\ toTemp' = [toTemp EXCEPT ![Real(t)] = temp[t]]

LEMMA RegisterDoes ==
    ASSUME SessionsTypeOK, Lives, NEW t \in Tasks, RegisterSession(t)
    PROVE  /\ pc[t] = "registering" /\ temp[t] = Given(t) /\ temp[t] \in SessionIds /\ captured[t] = None /\ lock = None
           /\ t \notin cancelled /\ tree[t] # None
           /\ Registers(t) \/ (pending[temp[t]] = None /\ UNCHANGED <<sessions, pending, toReal, toTemp>>)
           /\ captured' = [captured EXCEPT ![t] = Real(t)] /\ temp' = [temp EXCEPT ![t] = None]
           /\ pc' = [pc EXCEPT ![t] = "reading"]
           /\ UNCHANGED <<lockVars, tree, resumes, session, cancelled, abandoned, procVars, app, doomed>>
<1>1. pc[t] = "registering"
  BY DEF RegisterSession
<1>2. /\ temp[t] = Given(t) /\ temp[t] \in SessionIds /\ captured[t] = None
      /\ t \notin cancelled /\ tree[t] # None
  BY <1>1 DEF Lives, LifeOf, SessionsTypeOK
<1>3. pending[temp[t]] # None => pending[temp[t]] \in Tasks
  BY <1>2 DEF SessionsTypeOK
<1> QED BY <1>1, <1>2, <1>3 DEF RegisterSession, Registers, Goto, managerVars

LEMMA FamiliesRegister ==
    ASSUME SessionsTypeOK, Lives, Families, \A v \in Tasks : Stable(v), NEW t \in Tasks, RegisterSession(t)
    PROVE  Families'
<1> DEFINE g == temp[t]
           s == pending[g]
<1>1. /\ g = Given(t) /\ g \in SessionIds /\ captured[t] = None /\ tree[t] # None
      /\ captured' = [captured EXCEPT ![t] = Real(t)] /\ temp' = [temp EXCEPT ![t] = None]
      /\ UNCHANGED <<tree, resumes, session>>
  BY RegisterDoes
<1>2. /\ \A v \in Tasks : Given(v) # Real(t)
      /\ sessions[Real(t)] = None /\ pending[Real(t)] = None
      /\ toReal[Real(t)] = None /\ Real(t) \in SessionIds
  BY <1>1, NotYetGiven, KeyFacts
<1>3. /\ captured'[t] = Real(t) /\ temp'[t] = None
      /\ \A v \in Tasks \ {t} : captured'[v] = captured[v] /\ temp'[v] = temp[v]
  BY <1>1 DEF SessionsTypeOK
<1>4. IssuedNext(Real(t), tree[t])
  BY <1>1, <1>3 DEF IssuedNext
<1>5. g # Real(t) /\ sessions[g] = None
  BY <1>1, <1>2, KeyFacts DEF Families, TaskKeys
<1>6. \/ /\ s \in Tasks /\ pending' = [pending EXCEPT ![g] = None] /\ sessions' = [sessions EXCEPT ![Real(t)] = s]
         /\ toReal' = [toReal EXCEPT ![g] = Real(t)] /\ toTemp' = [toTemp EXCEPT ![Real(t)] = g]
      \/ s = None /\ UNCHANGED <<sessions, pending, toReal, toTemp>>
  BY RegisterDoes DEF Registers
<1>7. s # None => tree[s] = tree[t]
  <2>1. ASSUME s # None PROVE IssuedIn(g, tree[s]) \/ \E v \in Tasks : g = Temp(v) /\ tree[v] = tree[s]
    BY <1>1, <2>1 DEF Families, StoredKeys
  <2>2. (resumes[t] # None /\ IssuedIn(g, tree[t])) \/ (resumes[t] = None /\ g = Temp(t))
    BY <1>1, GivenInFamily
  <2> HIDE DEF g, s
  <2> QED BY <2>1, <2>2, IssuedOnce, NotIssued, KeyFacts
<1> HIDE DEF g, s
<1>8. ASSUME NEW i \in SessionIds
      PROVE  /\ sessions'[i] = IF i = Real(t) /\ s # None THEN s ELSE sessions[i]
             /\ pending'[i] \in {None, pending[i]}
             /\ toReal'[i] = IF i = g /\ s # None THEN Real(t) ELSE toReal[i]
             /\ toTemp'[i] = IF i = Real(t) /\ s # None THEN g ELSE toTemp[i]
  <2>1. /\ sessions \in [SessionIds -> Tasks \cup {None}] /\ pending \in [SessionIds -> Tasks \cup {None}]
        /\ toReal \in [SessionIds -> SessionIds \cup {None}] /\ toTemp \in [SessionIds -> SessionIds \cup {None}]
    BY DEF SessionsTypeOK
  <2>2. CASE s = None
    BY <1>6, <2>2, KeyFacts
  <2>3. CASE s # None
    BY <1>2, <1>1, <1>6, <2>1, <2>3
  <2> QED BY <2>2, <2>3
<1>9. ASSUME NEW v \in Tasks
      PROVE  /\ resumes'[v] # None => IssuedNext(resumes'[v], tree'[v])
             /\ captured'[v] # None => IssuedNext(captured'[v], tree'[v])
             /\ session'[v] # None => tree'[session'[v]] = tree'[v]
             /\ temp'[v] # None => sessions'[temp'[v]] = None
  <2>1. TaskKeys(v)
    BY DEF Families
  <2>2. CASE v = t
    BY <1>1, <1>3, <1>4, <2>1, <2>2, IssuedStays DEF TaskKeys
  <2>3. CASE v # t
    <3>1. temp[v] # None => temp[v] \in SessionIds /\ temp[v] # Real(t)
      BY <1>2 DEF SessionsTypeOK, Lives, LifeOf
    <3>2. temp[v] # None => sessions'[temp[v]] = None
      BY <1>8, <2>1, <3>1 DEF TaskKeys
    <3> QED BY <1>1, <1>3, <2>1, <2>3, <3>2, IssuedStays DEF TaskKeys
  <2> QED BY <2>2, <2>3
<1>10. ASSUME NEW i \in SessionIds
       PROVE  /\ sessions'[i] # None => IssuedNext(i, tree'[sessions'[i]])
              /\ pending'[i] # None =>
                    /\ sessions'[i] = None /\ tree'[pending'[i]] # None
                    /\ IssuedNext(i, tree'[pending'[i]]) \/ \E v \in Tasks : i = Temp(v) /\ tree'[v] = tree'[pending'[i]]
              /\ toReal'[i] # None => sessions'[i] = None
  <2>1. StoredKeys(i)
    BY DEF Families
  <2>2. CASE i = Real(t)
    <3>1. pending'[i] = None /\ toReal'[i] = None /\ sessions'[i] \in {None, s}
      BY <1>2, <1>5, <1>8, <2>2
    <3>2. s # None => IssuedNext(i, tree'[s])
      BY <1>1, <1>4, <1>7, <2>2
    <3> QED BY <3>1, <3>2
  <2>3. CASE i # Real(t)
    <3>1. sessions'[i] = sessions[i] /\ pending'[i] \in {None, pending[i]} /\ (toReal'[i] = toReal[i] \/ i = g)
      BY <1>8, <2>3
    <3> QED BY <1>1, <1>5, <2>1, <3>1, IssuedStays DEF StoredKeys
  <2> QED BY <2>2, <2>3
<1>11. ASSUME NEW i \in SessionIds, NEW j \in SessionIds, toReal'[i] = j \/ toTemp'[j] = i PROVE NamesNext(i, j)
  <2>1. (toReal[i] = j \/ toTemp[j] = i) \/ (i = g /\ j = Real(t))
    BY <1>8, <1>11
  <2>2. CASE toReal[i] = j \/ toTemp[j] = i
    BY <2>2, IssuedStays DEF Families
  <2>3. CASE i = g /\ j = Real(t)
    BY <1>1, <1>3, <2>3 DEF NamesNext, Given
  <2> QED BY <2>1, <2>2, <2>3
<1> QED BY <1>9, <1>10, <1>11, FamiliesNext

LEMMA FamiliesStep ==
    ASSUME SessionsTypeOK, Lives, Families, [SessionsNext]_sessionVars PROVE Families'
  BY AllStable, Forgetful, FamiliesForget, FamiliesStart, FamiliesGet, FamiliesRegister

(***************************************************************************)
(* The lock.                                                               *)
(***************************************************************************)

Popped(t) == IF pending[OwnId(t)] # None THEN pending[OwnId(t)] ELSE sessions[OwnId(t)]

\* remove_session finds nothing, a pending session, or a registered one; the last
\* is that of a task which knows its session id.
PopsNothing(t) ==
    /\ OwnId(t) \notin Known /\ pc' = [pc EXCEPT ![t] = "done"]
    /\ UNCHANGED <<lockVars, managerVars, process>>
PopsPending(t) ==
    /\ OwnId(t) \in Known /\ lock = None /\ pending[OwnId(t)] # None /\ sessions[OwnId(t)] = None /\ Terminate(Popped(t))
    /\ pending' = [pending EXCEPT ![OwnId(t)] = None] /\ UNCHANGED <<sessions, toReal, toTemp>>
PopsSession(t) ==
    /\ OwnId(t) \in Known /\ lock = None /\ pending[OwnId(t)] = None /\ sessions[OwnId(t)] # None /\ Terminate(Popped(t))
    /\ captured[t] # None /\ OwnId(t) = captured[t]
    /\ sessions' = [sessions EXCEPT ![OwnId(t)] = None] /\ UNCHANGED pending
AndWaits(t, where) ==
    /\ current[Popped(t)] \in Alive /\ lock' = t /\ stopping' = <<Popped(t)>> /\ dying' = current[Popped(t)]
    /\ pc' = [pc EXCEPT ![t] = where] /\ UNCHANGED <<toReal, toTemp>>
AndReturns(t) ==
    /\ current[Popped(t)] \notin Alive /\ pc' = [pc EXCEPT ![t] = "done"] /\ UNCHANGED lockVars

LEMMA PopDoes ==
    ASSUME SessionsTypeOK, Lives, Families, NEW t \in Tasks, RemoveSession(t)
    PROVE  /\ pc[t] = "closing" /\ UNCHANGED <<taskVars, current, cliLock, pids, app, doomed>>
           /\ OwnId(t) \in Known => Popped(t) \in Tasks /\ OwnId(t) \in SessionIds
           /\ \/ PopsNothing(t)
              \/ PopsPending(t) /\ (AndWaits(t, "dropping") \/ AndReturns(t))
              \/ PopsSession(t) /\ (AndWaits(t, "removing") \/ (AndReturns(t) /\ DropIndex(OwnId(t))))
<1>1. pc[t] = "closing" /\ UNCHANGED <<taskVars, current, cliLock, pids, app, doomed>> /\ Pop(t, OwnId(t))
  BY DEF RemoveSession
<1>2. CASE OwnId(t) \notin Known
  <2>1. PopsNothing(t)
    BY <1>1, <1>2 DEF Pop, PopsNothing, Goto, managerVars
  <2> QED BY <1>1, <1>2, <2>1
<1>3. CASE OwnId(t) \in Known
  <2>1. OwnId(t) \in SessionIds /\ OwnId(t) # None /\ StoredKeys(OwnId(t))
    BY <1>3, KeyFacts DEF Known, Families
  <2>2. lock = None /\ Terminate(Popped(t))
    BY <1>1, <1>3, <2>1 DEF Pop, Popped
  <2>3. CASE pending[OwnId(t)] # None
    <3>1. PopsPending(t)
      BY <1>1, <1>3, <2>1, <2>2, <2>3 DEF Pop, PopsPending, StoredKeys
    <3>2. AndWaits(t, "dropping") \/ AndReturns(t)
      BY <1>1, <1>3, <2>3 DEF Pop, Popped, Goto, AndWaits, AndReturns
    <3>3. Popped(t) \in Tasks
      BY <2>1, <2>3 DEF Popped, SessionsTypeOK
    <3> QED BY <1>1, <2>1, <3>1, <3>2, <3>3
  <2>4. CASE pending[OwnId(t)] = None
    <3>1. sessions[OwnId(t)] # None
      BY <1>3, <2>4 DEF Known
    <3>2. captured[t] # None /\ OwnId(t) = captured[t]
      BY <2>1, <3>1 DEF OwnId, Families, TaskKeys
    <3>3. PopsSession(t)
      BY <1>1, <1>3, <2>2, <2>4, <3>1, <3>2 DEF Pop, PopsSession
    <3>4. AndWaits(t, "removing") \/ (AndReturns(t) /\ DropIndex(OwnId(t)))
      BY <1>1, <1>3, <2>4 DEF Pop, Popped, Goto, AndWaits, AndReturns
    <3>5. Popped(t) \in Tasks
      BY <2>1, <2>4, <3>1 DEF Popped, SessionsTypeOK
    <3> QED BY <1>1, <2>1, <3>3, <3>4, <3>5
  <2> QED BY <2>3, <2>4
<1> QED BY <1>2, <1>3

LEMMA KnownShrinks == ASSUME Forgets PROVE Known' \subseteq Known /\ \A t \in Tasks : OwnId(t)' = OwnId(t)
<1>1. Known' \subseteq Known
  BY DEF Forgets, Known
<1> QED BY <1>1 DEF Forgets, OwnId

LEMMA LockHeldInit == SessionsInit => LockHeld
  BY KeyFacts DEF SessionsInit, LockHeld

\* A step that leaves the lock alone, and no task there or away from there.
LEMMA LockKept ==
    ASSUME SessionsTypeOK, LockHeld, Forgets, UNCHANGED lockVars,
           \A t \in Tasks : /\ pc'[t] \in {"dropping", "removing"} <=> pc[t] \in {"dropping", "removing"}
                            /\ pc'[t] = "removing" => pc[t] = "removing",
           app' \in {"exiting", "ended"} => lock # Stopper
    PROVE  LockHeld'
<1>1. /\ lock' = lock /\ stopping' = stopping /\ dying' = dying /\ captured' = captured
      /\ Known' \subseteq Known /\ \A t \in Tasks : OwnId(t)' = OwnId(t)
  BY KnownShrinks DEF lockVars, Forgets
<1> QED BY <1>1 DEF LockHeld

\* A step after which nobody holds the lock.
LEMMA LockFree ==
    ASSUME lock' = None, dying' = None, \A t \in Tasks : pc'[t] \notin {"dropping", "removing"}
    PROVE  LockHeld'
  BY KeyFacts DEF LockHeld

LEMMA LockHeldStep ==
    ASSUME SessionsTypeOK, Lives, Families, LockHeld, [SessionsNext]_sessionVars PROVE LockHeld'
<1>0. pc \in [Tasks -> {"idle", "getting", "waiting", "spawning", "reading", "registering",
                         "stopping", "closing", "dropping", "removing", "done"}]
  BY DEF SessionsTypeOK
<1>1. ASSUME NEW t \in Tasks, GetOrCreate(t) \/ RegisterSession(t) \/ \E u \in Tasks \cup {None} : Start(t, u) PROVE LockHeld'
  <2>1. CASE \E u \in Tasks \cup {None} : Start(t, u)
    <3>1. PICK root, id : Enter(t, root, id)
      BY <2>1 DEF Start
    <3>2. /\ UNCHANGED <<lockVars, managerVars, captured, temp, app>> /\ pc[t] = "idle" /\ pc' = [pc EXCEPT ![t] = "getting"]
      BY <3>1 DEF Enter, Goto
    <3>3. /\ Known' = Known /\ \A v \in Tasks : OwnId(v)' = OwnId(v)
      BY <3>2 DEF managerVars, Known, OwnId
    <3> QED BY <1>0, <3>2, <3>3 DEF LockHeld, lockVars
  <2>2. CASE GetOrCreate(t) \/ RegisterSession(t)
    <3>1. /\ lock = None /\ UNCHANGED lockVars /\ UNCHANGED app
          /\ pc[t] \in AtWork \cup {"getting"} /\ (pc' = [pc EXCEPT ![t] = "waiting"] \/ pc' = [pc EXCEPT ![t] = "reading"])
      BY <2>2, Gets, RegisterDoes DEF AtWork
    <3>2. lock' = None /\ dying' = None
      BY <3>1 DEF LockHeld, lockVars
    <3>3. \A v \in Tasks : pc[v] \notin {"dropping", "removing"}
      BY <3>1, KeyFacts DEF LockHeld
    <3>4. \A v \in Tasks : pc'[v] \notin {"dropping", "removing"}
      BY <1>0, <3>1, <3>3
    <3> QED BY <3>2, <3>4, LockFree
  <2> QED BY <1>1, <2>1, <2>2
<1>2. ASSUME Forgets PROVE LockHeld'
  <2>1. ASSUME NEW t \in Tasks, Spawn(t) \/ Spawned(t) \/ SpawnFails(t) \/ SessionInfo(t) \/ Exited(t) \/ StopReturns(t) PROVE LockHeld'
    <3>1. UNCHANGED <<lockVars, app>> /\ pc[t] \notin {"dropping", "removing"}
          /\ \E where \in {"spawning", "reading", "closing", "registering"} : pc' = [pc EXCEPT ![t] = where]
      BY <2>1 DEF Spawn, Spawned, SpawnFails, SessionInfo, Exited, StopReturns, Goto
    <3> QED BY <1>0, <1>2, <3>1, LockKept DEF LockHeld
  <2>2. ASSUME NEW t \in Tasks, Completed(t) \/ Collect(t) \/ Die(t) PROVE LockHeld'
    <3>1. UNCHANGED <<lockVars, pc, app>>
      BY <2>2 DEF Completed, Collect, Die
    <3> QED BY <1>2, <3>1, LockKept DEF LockHeld
  <2>3. ASSUME NEW t \in Tasks, RemoveSession(t) PROVE LockHeld'
    <3>1. pc[t] = "closing" /\ app' = app
      BY <2>3, PopDoes
    <3>2. CASE pc' = [pc EXCEPT ![t] = "done"] /\ UNCHANGED lockVars
      BY <1>0, <1>2, <3>1, <3>2, LockKept DEF LockHeld
    <3>3. CASE (PopsPending(t) /\ AndWaits(t, "dropping")) \/ (PopsSession(t) /\ AndWaits(t, "removing"))
      <4>1. /\ lock = None /\ lock' = t /\ stopping' = <<Popped(t)>> /\ dying' = current[Popped(t)] /\ dying' \in Tasks
            /\ OwnId(t) \in Known
        BY <3>3 DEF PopsPending, PopsSession, AndWaits, Alive
      <4>2. \A v \in Tasks : pc[v] \notin {"dropping", "removing"}
        BY <4>1, KeyFacts DEF LockHeld
      <4>3. /\ pc'[t] \in {"dropping", "removing"} /\ (pc'[t] = "removing" => captured'[t] # None)
            /\ \A v \in Tasks \ {t} : pc'[v] = pc[v]
        BY <1>0, <1>2, <3>3 DEF PopsSession, AndWaits, Forgets
      <4>4. OwnId(t)' = OwnId(t) /\ OwnId(t) # None /\ OwnId(t) \in SessionIds
        BY <1>2, <2>3, <4>1, KnownShrinks, PopDoes, KeyFacts
      <4>5. sessions'[OwnId(t)] = None /\ pending'[OwnId(t)] = None
        BY <3>3, <4>4 DEF PopsPending, PopsSession, SessionsTypeOK
      <4>6. OwnId(t)' \notin Known'
        BY <4>4, <4>5 DEF Known
      <4>7. stopping' # <<>> /\ dying' # None /\ lock' # None /\ lock' # Stopper
        BY <4>1, KeyFacts
      <4>8. ASSUME NEW v \in Tasks
            PROVE  /\ pc'[v] \in {"dropping", "removing"} <=> lock' = v
                   /\ lock' = v => OwnId(v)' # None /\ OwnId(v)' \notin Known' /\ dying' # None
                   /\ pc'[v] = "removing" => captured'[v] # None
        <5>1. CASE v = t
          BY <4>1, <4>3, <4>4, <4>6, <4>7, <5>1
        <5>2. CASE v # t
          BY <4>1, <4>2, <4>3, <5>2
        <5> QED BY <5>1, <5>2
      <4> QED BY <4>7, <4>8 DEF LockHeld
    <3> QED BY <2>3, <3>2, <3>3, PopDoes DEF PopsNothing, AndReturns
  <2>4. ASSUME NEW t \in Tasks, SessionRemoved(t) PROVE LockHeld'
    <3>1. lock' = None /\ dying' = None /\ pc' = [pc EXCEPT ![t] = "done"] /\ pc[t] \in {"dropping", "removing"}
      BY <2>4 DEF SessionRemoved, Unlock, Goto
    <3>2. \A v \in Tasks \ {t} : pc[v] \notin {"dropping", "removing"}
      BY <3>1, KeyFacts DEF LockHeld
    <3> QED BY <1>0, <3>1, <3>2, LockFree
  <2>5. ASSUME NEW t \in Tasks, Cancel(t) PROVE LockHeld'
    <3>1. CASE pc[t] \in {"dropping", "removing"}
      <4>1. lock' = None /\ dying' = None /\ pc' = [pc EXCEPT ![t] = "done"]
        BY <2>5, <3>1 DEF Cancel, Interrupt, Unlock, Goto
      <4>2. \A v \in Tasks \ {t} : pc[v] \notin {"dropping", "removing"}
        BY <3>1, KeyFacts DEF LockHeld
      <4> QED BY <1>0, <4>1, <4>2, LockFree
    <3>2. CASE pc[t] \notin {"dropping", "removing"}
      <4>1. UNCHANGED <<lockVars, app>> /\ \E where \in {"closing", "stopping", "done"} : pc' = [pc EXCEPT ![t] = where]
        BY <2>5, <3>2 DEF Cancel, Interrupt, Goto
      <4> QED BY <1>0, <1>2, <3>2, <4>1, LockKept DEF LockHeld
    <3> QED BY <3>1, <3>2
  <2>6. CASE ShutDown \/ Exit
    <3>1. UNCHANGED <<lockVars, pc>> /\ (app' \in {"exiting", "ended"} => app = "exiting")
      BY <2>6 DEF ShutDown, Exit
    <3> QED BY <1>2, <3>1, LockKept DEF LockHeld
  <2>7. CASE StopTimesOut \/ LoopEnds
    <3>1. pc' = pc /\ (UNCHANGED lockVars \/ (lock = Stopper /\ Unlock)) /\ (app' \in {"exiting", "ended"} => lock # Stopper \/ Unlock)
      BY <2>7 DEF StopTimesOut, LoopEnds
    <3>2. CASE lock = Stopper /\ Unlock
      <4>1. lock' = None /\ dying' = None
        BY <3>2 DEF Unlock
      <4>2. \A v \in Tasks : pc'[v] \notin {"dropping", "removing"}
        BY <3>1, <3>2, KeyFacts DEF LockHeld
      <4> QED BY <4>1, <4>2, LockFree
    <3>3. CASE UNCHANGED lockVars /\ (app' \in {"exiting", "ended"} => lock # Stopper)
      BY <1>2, <3>1, <3>3, LockKept
    <3>4. UNCHANGED lockVars /\ Unlock => lock = None
      BY DEF Unlock, lockVars
    <3> QED BY <3>1, <3>2, <3>3, <3>4, KeyFacts
  <2>8. CASE StopAll \/ StopNext
    <3>1. /\ lock' = Stopper /\ pc' = pc /\ app' = app /\ app \notin {"exiting", "ended"}
          /\ \A t \in Tasks : lock # t
      BY <2>8, KeyFacts DEF StopAll, StopNext, LockHeld
    <3>2. dying' # None => stopping' # <<>>
      <4>1. CASE StopAll
        <5>1. dying' = None
          BY <4>1 DEF StopAll, LockHeld
        <5> QED BY <5>1
      <4>2. CASE StopNext
        <5>1. dying' = None \/ (stopping' = stopping /\ stopping # <<>>)
          BY <4>2 DEF StopNext
        <5> QED BY <5>1
      <4> QED BY <2>8, <4>1, <4>2
    <3> QED BY <3>1, <3>2, KeyFacts DEF LockHeld
  <2>9. CASE AllStopped
    <3>1. lock' = None /\ dying' = None /\ pc' = pc /\ lock = Stopper
      BY <2>9 DEF AllStopped, Unlock
    <3>2. \A v \in Tasks : pc'[v] \notin {"dropping", "removing"}
      BY <3>1, KeyFacts DEF LockHeld
    <3> QED BY <3>1, <3>2, LockFree
  <2>10. CASE UNCHANGED sessionVars
    <3>1. UNCHANGED <<lockVars, pc, app>>
      BY <2>10 DEF sessionVars
    <3> QED BY <1>2, <3>1, LockKept DEF LockHeld
  <2>11. CASE \E t \in Tasks : GetOrCreate(t) \/ RegisterSession(t) \/ \E u \in Tasks \cup {None} : Start(t, u)
    BY <1>1, <2>11
  <2> QED BY <2>1, <2>2, <2>3, <2>4, <2>5, <2>6, <2>7, <2>8, <2>9, <2>10, <2>11 DEF SessionsNext
<1> QED BY <1>1, <1>2, Forgetful

(***************************************************************************)
(* The index.                                                              *)
(***************************************************************************)

LEMMA IndexInit == SessionsInit => IndexInv
  BY KeyFacts DEF SessionsInit, IndexInv

\* A task stays on its way out, unless it lets the lock go by coming to an end.
LeftStays == \A t \in Tasks : pc[t] = "removing" => pc'[t] = "removing" \/ (pc'[t] = "done" /\ t \in cancelled')
NoNewcomer == \A t \in Tasks : /\ pc'[t] = "removing" => pc[t] = "removing"
                               /\ pc'[t] \in AtWork => pc[t] \in AtWork

LEMMA LeftKept ==
    ASSUME \A v \in Tasks : Stable(v), LeftStays
    PROVE  \A j \in SessionIds : Left(j) => \E t \in Tasks :
              captured'[t] = j /\ (pc'[t] = "removing" \/ (pc'[t] = "done" /\ t \in cancelled'))
  BY KeyFacts DEF Left, LeftStays, Stable

\* Nothing happens to the dictionary and the index.
LEMMA IndexKept ==
    ASSUME SessionsTypeOK, Lives, IndexInv, \A v \in Tasks : Stable(v), LeftStays, NoNewcomer,
           UNCHANGED <<sessions, toReal, toTemp, captured, temp>>
    PROVE  IndexInv'
<1>1. \A j \in SessionIds : Left(j) => Left(j)'
  BY LeftKept DEF Left
<1>2. \A i, j \in SessionIds : Linked(i, j)' <=> Linked(i, j)
  BY DEF Linked
<1> QED BY <1>1, <1>2 DEF IndexInv, NoNewcomer

LEMMA IndexGet ==
    ASSUME SessionsTypeOK, Lives, Families, LockHeld, IndexInv, \A v \in Tasks : Stable(v),
           NEW t \in Tasks, GetOrCreate(t)
    PROVE  IndexInv'
<1>1. /\ UNCHANGED <<sessions, toReal, toTemp, cancelled>> /\ pc' = [pc EXCEPT ![t] = "waiting"] /\ pc[t] = "getting"
      /\ captured[t] = None /\ temp[t] = None /\ Lookup(t) \in SessionIds /\ Given(t) \in SessionIds
  BY Gets DEF Lives, LifeOf
<1>2. \A v \in Tasks \ {t} : captured'[v] = captured[v] /\ temp'[v] = temp[v] /\ pc'[v] = pc[v]
  BY <1>1, Gets DEF Shares, Creates, SessionsTypeOK
<1>3. pc'[t] = "waiting"
  BY <1>1 DEF SessionsTypeOK
<1>4. \A j \in SessionIds : Left(j) => Left(j)'
  BY <1>1, <1>2, KeyFacts DEF Left
<1>5. \A i, j \in SessionIds : Linked(i, j)' <=> Linked(i, j)
  BY <1>1 DEF Linked
<1>6. temp'[t] # None => toReal[temp'[t]] = None \/ sessions[toReal[temp'[t]]] = None
  <2>1. CASE Shares(t)
    BY <1>1, <2>1 DEF Shares
  <2>2. CASE Creates(t) /\ resumes[t] # None
    <3>1. temp'[t] = Given(t) /\ Lookup(t) \notin Known
      BY <2>2 DEF Creates, SessionsTypeOK
    <3> QED BY <1>1, <3>1 DEF Lookup, Known
  <2>3. CASE Creates(t) /\ resumes[t] = None
    <3>1. temp'[t] = Given(t) /\ Given(t) = Temp(t)
      BY <2>3, GivenInFamily DEF Creates, SessionsTypeOK
    <3>2. ASSUME NEW j \in SessionIds, toReal[Temp(t)] = j PROVE FALSE
      <4>1. PICK v \in Tasks : j = Real(v) /\ captured[v] = j /\ Temp(t) = Given(v)
        BY <1>1, <3>1, <3>2 DEF Families, Names
      <4>2. v = t
        BY <4>1, GivenInFamily, NotIssued, KeyFacts
      <4> QED BY <1>1, <3>2, <4>1, <4>2, KeyFacts
    <3>3. toReal[Temp(t)] = None
      BY <1>1, <3>1, <3>2 DEF SessionsTypeOK
    <3> QED BY <3>1, <3>3
  <2> QED BY <2>1, <2>2, <2>3, Gets
<1>7. \A v \in Tasks : temp'[v] # None /\ pc'[v] \in AtWork => toReal[temp'[v]] = None \/ sessions[toReal[temp'[v]]] = None
  BY <1>2, <1>6 DEF IndexInv
<1>8. \A v \in Tasks : pc'[v] = "removing" => pc[v] = "removing" /\ captured'[v] = captured[v]
  BY <1>2, <1>3
<1> QED BY <1>1, <1>4, <1>5, <1>7, <1>8 DEF IndexInv

\* Two tasks at work do not ask for the same id.
LEMMA GivenOnce ==
    ASSUME SessionsTypeOK, Lives, Families, OneAtWork, NEW t \in Tasks, NEW v \in Tasks, t # v,
           pc[t] \in AtWork, pc[v] \in AtWork
    PROVE  Given(t) # Given(v)
<1>1. ~Ended(t) /\ ~Ended(v) /\ tree[t] # None /\ tree[v] # None
  BY DEF Lives, LifeOf, Ended, AtWork
<1>2. tree[t] # tree[v]
  BY <1>1 DEF OneAtWork
<1>3. CASE resumes[t] = None \/ resumes[v] = None
  BY <1>3, GivenInFamily, NotIssued, KeyFacts
<1>4. CASE resumes[t] # None /\ resumes[v] # None
  BY <1>2, <1>4, GivenInFamily, IssuedOnce
<1> QED BY <1>3, <1>4

LEMMA IndexRegister ==
    ASSUME SessionsTypeOK, Lives, OneAtWork, Families, LockHeld, IndexInv, \A v \in Tasks : Stable(v),
           NEW t \in Tasks, RegisterSession(t)
    PROVE  IndexInv'
<1> DEFINE g == temp[t]
           s == pending[g]
<1>1. /\ g = Given(t) /\ g \in SessionIds /\ captured[t] = None /\ lock = None /\ pc[t] \in AtWork /\ g # None
      /\ captured' = [captured EXCEPT ![t] = Real(t)] /\ temp' = [temp EXCEPT ![t] = None]
      /\ pc' = [pc EXCEPT ![t] = "reading"] /\ cancelled' = cancelled
  BY RegisterDoes, KeyFacts DEF AtWork
<1>2. /\ \A v \in Tasks : Given(v) # Real(t)
      /\ toReal[Real(t)] = None /\ toTemp[Real(t)] = None /\ Real(t) \in SessionIds
      /\ \A i \in SessionIds : toReal[i] # Real(t)
  BY <1>1, NotYetGiven, KeyFacts
<1>3. /\ captured'[t] = Real(t) /\ temp'[t] = None /\ pc'[t] = "reading"
      /\ \A v \in Tasks \ {t} : captured'[v] = captured[v] /\ temp'[v] = temp[v] /\ pc'[v] = pc[v]
  BY <1>1 DEF SessionsTypeOK
<1>4. \A v \in Tasks : pc[v] # "removing"
  BY <1>1, KeyFacts DEF LockHeld
<1>5. \A j \in SessionIds : Left(j) => j # Real(t) /\ Left(j)'
  <2>1. ASSUME NEW j \in SessionIds, Left(j) PROVE j # Real(t) /\ Left(j)'
    <3>1. PICK v \in Tasks : captured[v] = j /\ pc[v] = "done" /\ v \in cancelled
      BY <1>4, <2>1 DEF Left
    <3>2. v # t /\ IssuedIn(j, tree[v])
      BY <1>1, <3>1, KeyFacts DEF Families, TaskKeys, AtWork
    <3>3. j # Real(t)
      BY <1>1, <3>2, NotYetGiven
    <3> QED BY <1>1, <1>3, <3>1, <3>2, <3>3 DEF Left
  <2> QED BY <2>1
<1>6. toReal[g] = None \/ sessions[toReal[g]] = None
  BY <1>1 DEF IndexInv
<1>7. \A v \in Tasks \ {t} : temp[v] # None /\ pc[v] \in AtWork => temp[v] # g /\ temp[v] \in SessionIds
  BY <1>1, GivenOnce DEF Lives, LifeOf, SessionsTypeOK
<1>8. \/ /\ s \in Tasks /\ s # None /\ sessions' = [sessions EXCEPT ![Real(t)] = s]
         /\ toReal' = [toReal EXCEPT ![g] = Real(t)] /\ toTemp' = [toTemp EXCEPT ![Real(t)] = g]
      \/ UNCHANGED <<sessions, toReal, toTemp>>
  BY RegisterDoes, KeyFacts DEF Registers
<1> HIDE DEF g, s
<1>9. CASE UNCHANGED <<sessions, toReal, toTemp>>
  <2>1. LeftStays
    BY <1>4 DEF LeftStays
  <2>2. \A i, j \in SessionIds : Linked(i, j)' <=> Linked(i, j)
    BY <1>9 DEF Linked
  <2>3. \A v \in Tasks : temp'[v] # None /\ pc'[v] \in AtWork => toReal[temp'[v]] = None \/ sessions[toReal[temp'[v]]] = None
    BY <1>3 DEF IndexInv
  <2>4. \A v \in Tasks : pc'[v] # "removing"
    BY <1>3, <1>4
  <2> QED BY <1>5, <1>9, <2>2, <2>3, <2>4 DEF IndexInv
<1>10. CASE /\ s \in Tasks /\ s # None /\ sessions' = [sessions EXCEPT ![Real(t)] = s]
            /\ toReal' = [toReal EXCEPT ![g] = Real(t)] /\ toTemp' = [toTemp EXCEPT ![Real(t)] = g]
  <2>1. /\ \A i \in SessionIds : sessions'[i] = IF i = Real(t) THEN s ELSE sessions[i]
        /\ \A i \in SessionIds : toReal'[i] = IF i = g THEN Real(t) ELSE toReal[i]
        /\ \A i \in SessionIds : toTemp'[i] = IF i = Real(t) THEN g ELSE toTemp[i]
    BY <1>1, <1>2, <1>10 DEF SessionsTypeOK
  <2>2. ASSUME NEW i \in SessionIds, NEW j \in SessionIds, toReal'[i] = j \/ toTemp'[j] = i
        PROVE  Linked(i, j)' \/ (sessions'[j] = None /\ Left(j)')
    <3>1. CASE j = Real(t)
      <4>1. i = g
        BY <1>2, <2>1, <2>2, <3>1
      <4> QED BY <1>1, <1>10, <2>1, <3>1, <4>1 DEF Linked
    <3>2. CASE j # Real(t)
      <4>1. toReal[i] = j \/ toTemp[j] = i
        BY <2>1, <2>2, <3>2
      <4>2. Linked(i, j) \/ (sessions[j] = None /\ Left(j))
        BY <4>1 DEF IndexInv
      <4>3. CASE Linked(i, j)
        <5>1. i # g
          BY <1>6, <4>3, KeyFacts DEF Linked
        <5> QED BY <2>1, <3>2, <4>3, <5>1 DEF Linked
      <4>4. CASE sessions[j] = None /\ Left(j)
        BY <1>5, <2>1, <3>2, <4>4
      <4> QED BY <4>2, <4>3, <4>4
    <3> QED BY <3>1, <3>2
  <2>3. ASSUME NEW v \in Tasks, temp'[v] # None, pc'[v] \in AtWork
        PROVE  toReal'[temp'[v]] = None \/ sessions'[toReal'[temp'[v]]] = None
    <3>1. v # t /\ temp'[v] = temp[v] /\ temp[v] # None /\ pc[v] \in AtWork
      BY <1>3, <2>3
    <3>2. temp[v] # g /\ temp[v] \in SessionIds
      BY <1>7, <3>1
    <3>3. toReal'[temp[v]] = toReal[temp[v]] /\ toReal[temp[v]] # Real(t)
      BY <1>2, <2>1, <3>2
    <3>4. toReal[temp[v]] = None \/ (toReal[temp[v]] \in SessionIds /\ sessions[toReal[temp[v]]] = None)
      BY <3>1, <3>2 DEF IndexInv, SessionsTypeOK
    <3> QED BY <2>1, <3>1, <3>3, <3>4
  <2>4. \A v \in Tasks : pc'[v] # "removing"
    BY <1>3, <1>4
  <2> QED BY <2>2, <2>3, <2>4 DEF IndexInv
<1> QED BY <1>8, <1>9, <1>10

\* remove_session by a task that has the lock, or gets it.
LEMMA IndexPop ==
    ASSUME SessionsTypeOK, Lives, Families, LockHeld, IndexInv, \A v \in Tasks : Stable(v),
           NEW t \in Tasks, RemoveSession(t)
    PROVE  IndexInv'
<1> PICK c : c = OwnId(t)
  OBVIOUS
<1>1. pc[t] = "closing" /\ captured' = captured /\ temp' = temp /\ cancelled' = cancelled
  BY PopDoes DEF taskVars
<1>2. \E where \in {"done", "dropping", "removing"} : pc' = [pc EXCEPT ![t] = where]
  BY PopDoes DEF PopsNothing, AndWaits, AndReturns
<1>3. /\ \A v \in Tasks \ {t} : pc'[v] = pc[v]
      /\ pc'[t] \in {"done", "dropping", "removing"}
  BY <1>2 DEF SessionsTypeOK
<1>4. LeftStays
  BY <1>1, <1>3 DEF LeftStays
<1>5. \A j \in SessionIds : Left(j) => Left(j)'
  BY <1>4, LeftKept DEF Left
<1>6. CASE ~PopsSession(t)
  <2>1. UNCHANGED <<sessions, toReal, toTemp>> /\ pc'[t] # "removing"
    <3>1. CASE PopsNothing(t)
      BY <1>1, <3>1 DEF PopsNothing, managerVars, SessionsTypeOK
    <3>2. CASE PopsPending(t) /\ AndWaits(t, "dropping")
      BY <1>1, <3>2 DEF PopsPending, AndWaits, SessionsTypeOK
    <3>3. CASE PopsPending(t) /\ AndReturns(t)
      BY <1>1, <3>3 DEF PopsPending, AndReturns, SessionsTypeOK
    <3> QED BY <1>6, <3>1, <3>2, <3>3, PopDoes
  <2>2. NoNewcomer
    BY <1>3, <2>1 DEF NoNewcomer, AtWork
  <2> QED BY <1>1, <1>4, <2>1, <2>2, IndexKept
<1>7. CASE PopsSession(t)
  <2>1. /\ c \in SessionIds /\ lock = None /\ sessions[c] # None /\ captured[t] = c
        /\ \A i \in SessionIds : sessions'[i] = IF i = c THEN None ELSE sessions[i]
    BY <1>7, PopDoes DEF PopsSession, SessionsTypeOK
  <2>2. \A v \in Tasks : pc[v] # "removing"
    BY <2>1, KeyFacts DEF LockHeld
  <2>3. \A i \in SessionIds : toReal[i] = c \/ toTemp[c] = i => toReal[i] = c /\ toTemp[c] = i
    BY <2>1 DEF IndexInv, Linked
  <2>4. CASE AndWaits(t, "removing")
    <3>1. pc'[t] = "removing" /\ toReal' = toReal /\ toTemp' = toTemp
      BY <2>4 DEF AndWaits, SessionsTypeOK
    <3>2. Left(c)'
      BY <1>1, <2>1, <3>1 DEF Left
    <3>3. ASSUME NEW i \in SessionIds, NEW j \in SessionIds, toReal'[i] = j \/ toTemp'[j] = i
          PROVE  Linked(i, j)' \/ (sessions'[j] = None /\ Left(j)')
      <4>1. Linked(i, j) \/ (sessions[j] = None /\ Left(j))
        BY <3>1, <3>3 DEF IndexInv
      <4> QED BY <1>5, <2>1, <3>1, <3>2, <4>1 DEF Linked
    <3>4. \A v \in Tasks : pc'[v] = "removing" => \A i \in SessionIds : toReal'[i] = captured'[v] <=> toTemp'[captured'[v]] = i
      BY <1>1, <1>3, <2>1, <2>2, <2>3, <3>1
    <3>5. ASSUME NEW v \in Tasks, temp'[v] # None, pc'[v] \in AtWork
          PROVE  toReal'[temp'[v]] = None \/ sessions'[toReal'[temp'[v]]] = None
      <4>1. pc[v] \in AtWork /\ temp[v] # None /\ temp[v] \in SessionIds
        BY <1>1, <1>3, <3>5 DEF AtWork, SessionsTypeOK
      <4>2. toReal[temp[v]] = None \/ (toReal[temp[v]] \in SessionIds /\ sessions[toReal[temp[v]]] = None)
        BY <4>1 DEF IndexInv, SessionsTypeOK
      <4> QED BY <1>1, <2>1, <3>1, <4>2
    <3> QED BY <3>3, <3>4, <3>5 DEF IndexInv
  <2>5. CASE AndReturns(t) /\ DropIndex(c)
    <3>1. /\ pc'[t] = "done"
          /\ \A j \in SessionIds : toTemp'[j] = IF j = c THEN None ELSE toTemp[j]
          /\ \A i \in SessionIds : toReal'[i] = IF i = toTemp[c] THEN None ELSE toReal[i]
      BY <2>1, <2>5 DEF AndReturns, DropIndex, SessionsTypeOK
    <3>3. ASSUME NEW i \in SessionIds, NEW j \in SessionIds, toReal'[i] = j \/ toTemp'[j] = i
          PROVE  Linked(i, j)' \/ (sessions'[j] = None /\ Left(j)')
      <4>1. j # c /\ (toReal[i] = j \/ toTemp[j] = i)
        BY <2>3, <3>1, <3>3, KeyFacts
      <4>2. Linked(i, j) \/ (sessions[j] = None /\ Left(j))
        BY <4>1 DEF IndexInv
      <4>3. Linked(i, j) => i # toTemp[c]
        BY <2>3, <4>1 DEF Linked
      <4> QED BY <1>5, <2>1, <3>1, <4>1, <4>2, <4>3 DEF Linked
    <3>4. \A v \in Tasks : pc'[v] # "removing"
      BY <1>3, <2>2, <3>1
    <3>5. ASSUME NEW v \in Tasks, temp'[v] # None, pc'[v] \in AtWork
          PROVE  toReal'[temp'[v]] = None \/ sessions'[toReal'[temp'[v]]] = None
      <4>1. pc[v] \in AtWork /\ temp[v] # None /\ temp[v] \in SessionIds
        BY <1>1, <1>3, <3>5 DEF AtWork, SessionsTypeOK
      <4>2. toReal[temp[v]] = None \/ (toReal[temp[v]] \in SessionIds /\ sessions[toReal[temp[v]]] = None)
        BY <4>1 DEF IndexInv, SessionsTypeOK
      <4> QED BY <1>1, <2>1, <3>1, <4>1, <4>2
    <3> QED BY <3>3, <3>4, <3>5 DEF IndexInv
  <2>6. AndWaits(t, "removing") \/ (AndReturns(t) /\ DropIndex(OwnId(t)))
    BY <1>7, PopDoes DEF PopsNothing, PopsPending, PopsSession
  <2> QED BY <2>4, <2>5, <2>6
<1> QED BY <1>6, <1>7

\* The end of a removal: nothing is left that leads to the session.
LEMMA IndexRemoved ==
    ASSUME SessionsTypeOK, Lives, Families, LockHeld, IndexInv, \A v \in Tasks : Stable(v),
           NEW t \in Tasks, SessionRemoved(t)
    PROVE  IndexInv'
<1> PICK c : c = OwnId(t)
  OBVIOUS
<1>1. /\ pc[t] \in {"dropping", "removing"} /\ lock = t /\ pc' = [pc EXCEPT ![t] = "done"]
      /\ UNCHANGED <<sessions, captured, temp, cancelled>>
  BY DEF SessionRemoved, Goto, taskVars, LockHeld
<1>2. /\ pc'[t] = "done" /\ \A v \in Tasks \ {t} : pc'[v] = pc[v] /\ pc[v] # "removing"
  BY <1>1, KeyFacts DEF SessionsTypeOK, LockHeld
<1>3. c \notin Known /\ (pc[t] = "removing" => captured[t] = c /\ c \in SessionIds)
  BY <1>1 DEF LockHeld, OwnId, SessionsTypeOK
<1>4. \A v \in Tasks : pc'[v] # "removing" /\ (pc'[v] \in AtWork => pc[v] \in AtWork)
  BY <1>2 DEF AtWork
<1>5. CASE pc[t] = "dropping"
  <2>1. UNCHANGED <<toReal, toTemp>>
    BY <1>5 DEF SessionRemoved
  <2>2. LeftStays /\ NoNewcomer
    BY <1>2, <1>4, <1>5 DEF LeftStays, NoNewcomer
  <2> QED BY <1>1, <2>1, <2>2, IndexKept
<1>6. CASE pc[t] = "removing"
  <2>1. /\ \A j \in SessionIds : toTemp'[j] = IF j = c THEN None ELSE toTemp[j]
        /\ \A i \in SessionIds : toReal'[i] = IF i = toTemp[c] THEN None ELSE toReal[i]
    BY ZenonT(60), <1>3, <1>6 DEF SessionRemoved, DropIndex, SessionsTypeOK
  <2>2. \A i \in SessionIds : toReal[i] = c <=> toTemp[c] = i
    BY <1>3, <1>6 DEF IndexInv
  <2>3. \A j \in SessionIds \ {c} : Left(j) => Left(j)'
    BY <1>1, <1>2, <1>3, <1>6 DEF Left
  <2>4. ASSUME NEW i \in SessionIds, NEW j \in SessionIds, toReal'[i] = j \/ toTemp'[j] = i
        PROVE  Linked(i, j)' \/ (sessions'[j] = None /\ Left(j)')
    <3>1. j # c /\ (toReal[i] = j \/ toTemp[j] = i)
      BY <2>1, <2>2, <2>4, KeyFacts
    <3>2. Linked(i, j) \/ (sessions[j] = None /\ Left(j))
      BY <3>1 DEF IndexInv
    <3>3. Linked(i, j) => i # toTemp[c]
      BY <2>2, <3>1 DEF Linked
    <3> QED BY <1>1, <2>1, <2>3, <3>1, <3>2, <3>3 DEF Linked
  <2>5. ASSUME NEW v \in Tasks, temp'[v] # None, pc'[v] \in AtWork
        PROVE  toReal'[temp'[v]] = None \/ sessions'[toReal'[temp'[v]]] = None
    <3>1. pc[v] \in AtWork /\ temp'[v] = temp[v] /\ temp[v] # None /\ temp[v] \in SessionIds
      BY <1>1, <1>4, <2>5 DEF SessionsTypeOK
    <3>2. toReal[temp[v]] = None \/ sessions[toReal[temp[v]]] = None
      BY <3>1 DEF IndexInv
    <3> QED BY <1>1, <2>1, <3>1, <3>2
  <2> QED BY <1>4, <2>4, <2>5 DEF IndexInv
<1> QED BY <1>1, <1>5, <1>6

LEMMA IndexStep ==
    ASSUME SessionsTypeOK, Lives, OneAtWork, Families, LockHeld, IndexInv, [SessionsNext]_sessionVars PROVE IndexInv'
<1>0. \A v \in Tasks : Stable(v)
  BY AllStable
<1>1. ASSUME NEW t \in Tasks, GetOrCreate(t) \/ RegisterSession(t) \/ RemoveSession(t) \/ SessionRemoved(t) PROVE IndexInv'
  BY <1>0, <1>1, IndexGet, IndexRegister, IndexPop, IndexRemoved
<1>2. ASSUME UNCHANGED <<sessions, toReal, toTemp, captured, temp>>, LeftStays, NoNewcomer PROVE IndexInv'
  BY <1>0, <1>2, IndexKept
<1>3. ASSUME NEW t \in Tasks, NEW u \in Tasks \cup {None}, Start(t, u) PROVE IndexInv'
  <2>1. PICK root, id : Enter(t, root, id)
    BY <1>3 DEF Start
  <2>2. UNCHANGED <<sessions, toReal, toTemp, captured, temp>> /\ pc[t] = "idle" /\ pc' = [pc EXCEPT ![t] = "getting"]
    BY <2>1 DEF Enter, Goto, managerVars
  <2> QED BY <1>2, <2>2 DEF LeftStays, NoNewcomer, AtWork, SessionsTypeOK
<1>4. ASSUME NEW t \in Tasks, Spawn(t) \/ Spawned(t) \/ SpawnFails(t) \/ SessionInfo(t) \/ Exited(t) \/ StopReturns(t) PROVE IndexInv'
  <2>1. UNCHANGED <<sessions, toReal, toTemp, captured, temp>>
    BY <1>4 DEF Spawn, Spawned, SpawnFails, SessionInfo, Exited, StopReturns, managerVars, taskVars
  <2>2. \/ pc[t] \in AtWork /\ \E where \in {"spawning", "reading", "closing", "registering"} : pc' = [pc EXCEPT ![t] = where]
        \/ pc[t] = "stopping" /\ pc' = [pc EXCEPT ![t] = "closing"]
    BY <1>4 DEF Spawn, Spawned, SpawnFails, SessionInfo, Exited, StopReturns, Goto, AtWork
  <2> QED BY <1>2, <2>1, <2>2 DEF LeftStays, NoNewcomer, AtWork, SessionsTypeOK
<1>5. ASSUME NEW t \in Tasks, Completed(t) \/ Collect(t) \/ Die(t) PROVE IndexInv'
  <2>1. UNCHANGED <<sessions, toReal, toTemp, captured, temp, pc>>
    BY <1>5 DEF Completed, Collect, Die, managerVars, taskVars
  <2> QED BY <1>2, <2>1 DEF LeftStays, NoNewcomer
<1>6. ASSUME NEW t \in Tasks, Cancel(t) PROVE IndexInv'
  <2>1. UNCHANGED <<sessions, toReal, toTemp, captured, temp>> /\ cancelled' = cancelled \cup {t}
    BY <1>6 DEF Cancel, managerVars
  <2>2. \/ pc[t] # "removing" /\ \E where \in {"closing", "stopping", "done"} : pc' = [pc EXCEPT ![t] = where]
        \/ pc[t] = "removing" /\ pc' = [pc EXCEPT ![t] = "done"]
    BY <1>6 DEF Cancel, Interrupt, Goto
  <2> QED BY <1>2, <2>1, <2>2 DEF LeftStays, NoNewcomer, AtWork, SessionsTypeOK
<1>7. CASE StopAll \/ StopNext \/ ShutDown \/ StopTimesOut \/ LoopEnds \/ Exit \/ UNCHANGED sessionVars
  <2>1. UNCHANGED <<sessions, toReal, toTemp, captured, temp, pc>>
    BY <1>7 DEF StopAll, StopNext, ShutDown, StopTimesOut, LoopEnds, Exit, sessionVars, managerVars, taskVars
  <2> QED BY <1>2, <2>1 DEF LeftStays, NoNewcomer
<1>8. CASE AllStopped
  <2>1. /\ lock = Stopper /\ pc' = pc /\ UNCHANGED <<captured, temp>>
        /\ \A i \in SessionIds : toReal'[i] = None /\ toTemp'[i] = None
    BY <1>8 DEF AllStopped, taskVars
  <2>2. \A v \in Tasks : pc'[v] # "removing"
    BY <2>1, KeyFacts DEF LockHeld
  <2>3. \A v \in Tasks : temp'[v] # None => temp'[v] \in SessionIds
    BY <2>1 DEF SessionsTypeOK
  <2> QED BY <2>1, <2>2, <2>3, KeyFacts DEF IndexInv
<1> QED BY <1>1, <1>3, <1>4, <1>5, <1>6, <1>7, <1>8 DEF SessionsNext

(***************************************************************************)
(* No leak.                                                                *)
(***************************************************************************)

\* The task that answers for the id i.
Busy(t) == pc[t] \notin {"idle", "done"} \/ t \in cancelled
BusyNext(t) == pc'[t] \notin {"idle", "done"} \/ t \in cancelled'

LEMMA LeakInit == SessionsInit => NoLeak
  BY DEF SessionsInit, NoLeak, Known

LEMMA LeakKept ==
    ASSUME NoLeak, Lives, Known' \subseteq Known, UNCHANGED <<captured, temp>>,
           \A t \in Tasks : Busy(t) => BusyNext(t) \/ OwnId(t) \notin Known'
    PROVE  NoLeak'
<1>1. ASSUME NEW i \in Known' PROVE \E t \in Tasks : i \in {captured'[t], temp'[t]} /\ BusyNext(t)
  <2>1. PICK t \in Tasks : i \in {captured[t], temp[t]} /\ Busy(t)
    BY <1>1 DEF NoLeak, Busy
  <2>2. i # None
    BY <1>1, KeyFacts DEF Known
  <2>3. OwnId(t) = i
    BY <2>1, <2>2 DEF OwnId, Lives, LifeOf
  <2> QED BY <1>1, <2>1, <2>3
<1> QED BY <1>1 DEF NoLeak, BusyNext

LEMMA LeakStep ==
    ASSUME SessionsTypeOK, Lives, Families, LockHeld, NoLeak, [SessionsNext]_sessionVars PROVE NoLeak'
<1>0. /\ pc \in [Tasks -> {"idle", "getting", "waiting", "spawning", "reading", "registering",
                         "stopping", "closing", "dropping", "removing", "done"}]
      /\ sessions \in [SessionIds -> Tasks \cup {None}] /\ pending \in [SessionIds -> Tasks \cup {None}]
      /\ captured \in [Tasks -> SessionIds \cup {None}] /\ temp \in [Tasks -> SessionIds \cup {None}]
  BY DEF SessionsTypeOK
<1>1. ASSUME NEW t \in Tasks, NEW u \in Tasks \cup {None}, Start(t, u) PROVE NoLeak'
  <2>1. PICK root, id : Enter(t, root, id)
    BY <1>1 DEF Start
  <2>2. Known' = Known /\ UNCHANGED <<captured, temp, cancelled>> /\ pc' = [pc EXCEPT ![t] = "getting"]
    BY <2>1 DEF Enter, Goto, managerVars, Known
  <2> QED BY <1>0, <2>2, LeakKept DEF Busy, BusyNext
<1>2. ASSUME NEW t \in Tasks, GetOrCreate(t) PROVE NoLeak'
  <2>1. /\ pc'[t] = "waiting" /\ captured[t] = None /\ temp[t] = None
        /\ \A v \in Tasks \ {t} : pc'[v] = pc[v]
        /\ UNCHANGED <<sessions, cancelled>>
    BY <1>0, <1>2, Gets DEF Lives, LifeOf
  <2>2. ASSUME NEW i \in Known' PROVE \E v \in Tasks : i \in {captured'[v], temp'[v]} /\ BusyNext(v)
    <3>1. CASE i \in Known
      <4>1. PICK v \in Tasks : i \in {captured[v], temp[v]} /\ Busy(v)
        BY <3>1 DEF NoLeak, Busy
      <4>2. v # t
        BY <2>1, <3>1, <4>1, KeyFacts DEF Known
      <4>3. captured'[v] = captured[v] /\ temp'[v] = temp[v]
        BY <1>0, <1>2, <4>2, Gets DEF Shares, Creates
      <4> QED BY <2>1, <4>1, <4>2, <4>3 DEF Busy, BusyNext
    <3>2. CASE i \notin Known
      <4>1. i = Given(t) /\ Creates(t)
        BY <1>0, <1>2, <2>1, <2>2, <3>2, Gets DEF Shares, Creates, Known
      <4> QED BY <1>0, <2>1, <4>1 DEF Creates, BusyNext
    <3> QED BY <3>1, <3>2
  <2> QED BY <2>2 DEF NoLeak, BusyNext
<1>3. ASSUME NEW t \in Tasks, RegisterSession(t) PROVE NoLeak'
  <2> PICK g \in SessionIds : g = temp[t]
    BY <1>3, RegisterDoes
  <2>1. /\ pc'[t] = "reading" /\ captured'[t] = Real(t) /\ captured[t] = None
        /\ \A v \in Tasks \ {t} : pc'[v] = pc[v] /\ captured'[v] = captured[v] /\ temp'[v] = temp[v]
        /\ cancelled' = cancelled
    BY <1>0, <1>3, RegisterDoes
  <2>2. sessions[g] = None /\ g # None
    BY <1>3, RegisterDoes, KeyFacts DEF Families, TaskKeys
  <2>3. pending'[g] = None /\ \A i \in SessionIds \ {g, Real(t)} : sessions'[i] = sessions[i] /\ pending'[i] = pending[i]
    BY <1>0, <1>3, RegisterDoes DEF Registers
  <2>4. g # Real(t) => sessions'[g] = sessions[g]
    BY <1>0, <1>3, RegisterDoes DEF Registers
  <2>5. \A i \in Known' : i = Real(t) \/ (i \in Known /\ i # g)
    BY <2>2, <2>3, <2>4 DEF Known
  <2>6. ASSUME NEW i \in Known' PROVE \E v \in Tasks : i \in {captured'[v], temp'[v]} /\ BusyNext(v)
    <3>1. CASE i = Real(t)
      BY <2>1, <3>1 DEF BusyNext
    <3>2. CASE i \in Known /\ i # g
      <4>1. PICK v \in Tasks : i \in {captured[v], temp[v]} /\ Busy(v)
        BY <3>2 DEF NoLeak, Busy
      <4>2. v # t
        BY <2>1, <3>2, <4>1, KeyFacts DEF Known
      <4> QED BY <2>1, <4>1, <4>2 DEF Busy, BusyNext
    <3> QED BY <2>5, <3>1, <3>2
  <2> QED BY <2>6 DEF NoLeak, BusyNext
<1>4. ASSUME Forgets PROVE NoLeak'
  <2>0. Known' \subseteq Known /\ UNCHANGED <<captured, temp>>
    BY <1>4, KnownShrinks DEF Forgets
  <2>1. ASSUME NEW t \in Tasks, Spawn(t) \/ Spawned(t) \/ SpawnFails(t) \/ SessionInfo(t) \/ Exited(t) \/ StopReturns(t) PROVE NoLeak'
    <3>1. cancelled' = cancelled /\ \E where \in {"spawning", "reading", "closing", "registering"} : pc' = [pc EXCEPT ![t] = where]
      BY <2>1 DEF Spawn, Spawned, SpawnFails, SessionInfo, Exited, StopReturns, Goto, taskVars
    <3> QED BY <1>0, <2>0, <3>1, LeakKept DEF Busy, BusyNext
  <2>2. ASSUME NEW t \in Tasks, RemoveSession(t) PROVE NoLeak'
    <3>1. cancelled' = cancelled /\ \A v \in Tasks \ {t} : pc'[v] = pc[v]
      BY <1>0, <2>2, PopDoes DEF PopsNothing, AndWaits, AndReturns, taskVars
    <3>2. OwnId(t) \notin Known'
      <4>1. CASE PopsNothing(t)
        BY <2>0, <4>1 DEF PopsNothing
      <4>2. CASE PopsPending(t) \/ PopsSession(t)
        BY <1>0, <2>2, <4>2, PopDoes DEF PopsPending, PopsSession, Known
      <4> QED BY <2>2, <4>1, <4>2, PopDoes
    <3> QED BY <2>0, <3>1, <3>2, LeakKept DEF Busy, BusyNext
  <2>3. ASSUME NEW t \in Tasks, SessionRemoved(t) PROVE NoLeak'
    <3>1. cancelled' = cancelled /\ lock = t /\ \A v \in Tasks \ {t} : pc'[v] = pc[v]
      BY <1>0, <2>3 DEF SessionRemoved, Goto, taskVars, LockHeld
    <3> QED BY <2>0, <3>1, LeakKept DEF Busy, BusyNext, LockHeld
  <2>4. ASSUME NEW t \in Tasks, Cancel(t) PROVE NoLeak'
    <3>1. cancelled' = cancelled \cup {t} /\ \E where : pc' = [pc EXCEPT ![t] = where]
      BY <2>4 DEF Cancel, Interrupt, Goto
    <3> QED BY <1>0, <2>0, <3>1, LeakKept DEF Busy, BusyNext
  <2>5. ASSUME NEW t \in Tasks, Completed(t) \/ Collect(t) \/ Die(t) PROVE NoLeak'
    <3>1. UNCHANGED <<pc, cancelled>>
      BY <2>5 DEF Completed, Collect, Die, taskVars
    <3> QED BY <2>0, <3>1, LeakKept DEF Busy, BusyNext
  <2>6. CASE StopAll \/ StopNext \/ AllStopped \/ ShutDown \/ StopTimesOut \/ LoopEnds \/ Exit \/ UNCHANGED sessionVars
    <3>1. UNCHANGED <<pc, cancelled>>
      BY <2>6 DEF StopAll, StopNext, AllStopped, ShutDown, StopTimesOut, LoopEnds, Exit, sessionVars, taskVars
    <3> QED BY <2>0, <3>1, LeakKept DEF Busy, BusyNext
  <2>7. CASE \E t \in Tasks : GetOrCreate(t) \/ RegisterSession(t) \/ \E u \in Tasks \cup {None} : Start(t, u)
    BY <1>1, <1>2, <1>3, <2>7
  <2> QED BY <2>1, <2>2, <2>3, <2>4, <2>5, <2>6, <2>7 DEF SessionsNext
<1> QED BY <1>1, <1>2, <1>3, <1>4, Forgetful

\* What every state of the session manager satisfies, and the locks and the
\* generators of the sessions aside.
ManagerInv == SessionsTypeOK /\ Lives /\ OneAtWork /\ Families /\ LockHeld /\ IndexInv /\ NoLeak

LEMMA ManagerStep == ManagerInv /\ [SessionsNext]_sessionVars => ManagerInv'
  BY SessionsTypeStep, LivesStep, OneAtWorkStep, FamiliesStep, LockHeldStep, IndexStep, LeakStep DEF ManagerInv

LEMMA ManagerInit == SessionsInit => ManagerInv
  BY SessionsTypeInit, LivesInit, OneAtWorkInit, FamiliesInit, LockHeldInit, IndexInit, LeakInit DEF ManagerInv

\* What the session manager has in its dictionaries, and who holds its lock.
THEOREM ManagerInvariant == SessionsSpec => []ManagerInv
<1> QED BY ManagerInit, ManagerStep, PTL DEF SessionsSpec

\* At all times the manager knows the sessions of the tasks that run, by both of
\* their ids, and no others.
THEOREM SessionsKnownCorrect == SessionsSpec => []SessionsKnown
<1>1. IndexInv => IndexesAgree
  BY DEF IndexInv, IndexesAgree, Left, Linked
<1>2. ManagerInv => SessionsKnown
  BY <1>1 DEF ManagerInv, SessionsKnown
<1> QED BY <1>2, ManagerInvariant, PTL

(***************************************************************************)
(* Processes.                                                              *)
(***************************************************************************)

Early == {"idle", "getting", "waiting", "spawning"}
AtIt == {"reading", "registering"}

ProcessOf(t) ==
    /\ pc[t] \in Early => process[t] = "none"
    /\ process[t] \in {"live", "term"} => pc[t] \in AtIt \/ t \in cancelled
CurrentOf(s) == current[s] # None => session[current[s]] = s /\ process[current[s]] # "none"

\* A process belongs to a task that reads it or was cancelled, and is that of the
\* session of its task.
Processes == (\A t \in Tasks : ProcessOf(t)) /\ (\A s \in Tasks : CurrentOf(s))

\* Processes get nearer to their end only.
CalmOf(p) == \/ process'[p] = process[p]
             \/ process[p] = "live" /\ process'[p] = "term"
             \/ process[p] \in {"live", "term"} /\ process'[p] = "dead"
Calm == (\A p \in Tasks : CalmOf(p)) /\ current' = current

LEMMA TerminateCalms ==
    ASSUME NEW s, Terminate(s) PROVE \A p \in Tasks : CalmOf(p) /\ (p = current[s] => process'[p] # "live")
  BY DEF Terminate, CalmOf

LEMMA ProcessMoves ==
    ASSUME SessionsTypeOK, [SessionsNext]_sessionVars
    PROVE  Calm \/ \E t \in Tasks : Spawned(t)
<1>1. ASSUME NEW t \in Tasks, NEW u \in Tasks \cup {None}, Start(t, u) PROVE Calm
  <2>1. PICK root, id : Enter(t, root, id)
    BY <1>1 DEF Start
  <2> QED BY <2>1 DEF Enter, Calm, CalmOf, procVars
<1>2. ASSUME UNCHANGED <<process, current>> PROVE Calm
  BY <1>2 DEF Calm, CalmOf
<1>3. ASSUME NEW t \in Tasks,
             GetOrCreate(t) \/ Spawn(t) \/ SpawnFails(t) \/ SessionInfo(t) \/ RegisterSession(t) \/ Completed(t)
             PROVE Calm
  BY <1>2, <1>3 DEF GetOrCreate, Spawn, SpawnFails, SessionInfo, RegisterSession, Completed, procVars
<1>4. ASSUME NEW t \in Tasks, Exited(t) \/ SessionRemoved(t) \/ StopReturns(t) \/ Collect(t) PROVE Calm
  BY <1>2, <1>4 DEF Exited, SessionRemoved, StopReturns, Collect
<1>5. ASSUME NEW s, Terminate(s), UNCHANGED current PROVE Calm
  BY <1>5, TerminateCalms DEF Calm
<1>6. ASSUME NEW t \in Tasks, RemoveSession(t) PROVE Calm
  <2>1. current' = current /\ (process' = process \/ \E s : Terminate(s))
    BY <1>6 DEF RemoveSession, Pop
  <2> QED BY <1>2, <1>5, <2>1
<1>7. ASSUME NEW t \in Tasks, Cancel(t) PROVE Calm
  <2>1. current' = current /\ (process' = process \/ \E s : Terminate(s))
    BY <1>7 DEF Cancel, Interrupt
  <2> QED BY <1>2, <1>5, <2>1
<1>8. ASSUME NEW p \in Tasks, Die(p) PROVE Calm
  BY <1>8 DEF Die, Alive, Calm, CalmOf, SessionsTypeOK
<1>9. CASE StopNext
  <2>1. current' = current /\ (process' = process \/ \E s : Terminate(s))
    BY <1>9 DEF StopNext
  <2> QED BY <1>2, <1>5, <2>1
<1>10. CASE StopAll \/ AllStopped \/ ShutDown \/ StopTimesOut \/ LoopEnds \/ UNCHANGED sessionVars
  BY <1>2, <1>10 DEF StopAll, AllStopped, ShutDown, StopTimesOut, LoopEnds, sessionVars, procVars
<1>11. CASE Exit
  BY <1>11 DEF Exit, Alive, Calm, CalmOf
<1> QED BY <1>1, <1>3, <1>4, <1>6, <1>7, <1>8, <1>9, <1>10, <1>11 DEF SessionsNext

\* A task has no process before it gets there, and leaves it when it is dead or
\* by its cancellation.
Follows(v) ==
    /\ pc'[v] \in Early => pc[v] \in Early
    /\ pc[v] \in AtIt => pc'[v] \in AtIt \/ v \in cancelled' \/ (process[v] = "dead" /\ process' = process)

LEMMA AllFollow == ASSUME SessionsTypeOK, Lives, [SessionsNext]_sessionVars PROVE \A v \in Tasks : Follows(v)
<1>1. CASE StepOfNobody
  BY <1>1, NobodyMoves DEF Nobody, Follows
<1>2. ASSUME NEW t \in Tasks, StepOf(t) PROVE \A v \in Tasks : Follows(v)
  <2>1. \A v \in Tasks \ {t} : Follows(v)
    BY <1>2, OthersStay DEF Others, Follows
  <2>2. Follows(t)
    <3>1. CASE \E u \in Tasks \cup {None} : Start(t, u)
      <4>1. PICK root, id : Enter(t, root, id)
        BY <3>1 DEF Start
      <4> QED BY <4>1 DEF Enter, Follows, Early, AtIt
    <3>2. CASE GetOrCreate(t)
      BY <3>2, Gets DEF Follows, Early, AtIt
    <3>3. CASE Spawn(t) \/ Spawned(t) \/ SpawnFails(t) \/ SessionInfo(t)
      BY <3>3 DEF Spawn, Spawned, SpawnFails, SessionInfo, Goto, Follows, Early, AtIt, SessionsTypeOK
    <3>4. CASE RegisterSession(t) \/ Completed(t)
      BY <3>4 DEF RegisterSession, Completed, Goto, Follows, Early, AtIt, SessionsTypeOK
    <3>5. CASE Exited(t) \/ SessionRemoved(t) \/ StopReturns(t)
      BY <3>5 DEF Exited, SessionRemoved, StopReturns, Goto, Follows, Early, AtIt, SessionsTypeOK
    <3>6. CASE RemoveSession(t)
      <4>1. pc[t] = "closing" /\ pc'[t] \in {"done", "dropping", "removing"}
        BY <3>6 DEF RemoveSession, Pop, Goto, SessionsTypeOK
      <4> QED BY <4>1 DEF Follows, Early, AtIt
    <3>7. CASE Cancel(t)
      <4>1. pc'[t] \in {"stopping", "closing", "done"} /\ t \in cancelled'
        BY <3>7 DEF Cancel, Interrupt, Goto, SessionsTypeOK
      <4> QED BY <4>1 DEF Follows, Early, AtIt
    <3> QED BY <1>2, <3>1, <3>2, <3>3, <3>4, <3>5, <3>6, <3>7 DEF StepOf
  <2> QED BY <2>1, <2>2
<1> QED BY <1>1, <1>2, SessionsCases

LEMMA ProcessesInit == SessionsInit => Processes
  BY DEF SessionsInit, Processes, ProcessOf, CurrentOf

LEMMA ProcessesStep ==
    ASSUME SessionsTypeOK, Lives, Processes, [SessionsNext]_sessionVars PROVE Processes'
<1>0. \A v \in Tasks : Stable(v) /\ Follows(v)
  BY AllStable, AllFollow
<1>1. CASE Calm
  <2>1. ASSUME NEW t \in Tasks PROVE ProcessOf(t)'
    <3>1. ProcessOf(t) /\ Follows(t) /\ Stable(t) /\ CalmOf(t)
      BY <1>0, <1>1 DEF Processes, Calm
    <3> QED BY <3>1 DEF ProcessOf, Follows, Stable, CalmOf
  <2>2. ASSUME NEW s \in Tasks PROVE CurrentOf(s)'
    <3> PICK q : q = current[s]
      OBVIOUS
    <3>1. CASE q # None
      <4>1. q \in Tasks /\ session[q] = s /\ process[q] # "none"
        BY <3>1 DEF Processes, CurrentOf, SessionsTypeOK
      <4>2. session'[q] = s
        BY <1>0, <4>1, KeyFacts DEF Stable
      <4>3. process'[q] # "none" /\ current'[s] = q
        BY <1>1, <4>1 DEF Calm, CalmOf
      <4> QED BY <4>2, <4>3 DEF CurrentOf
    <3>2. CASE q = None
      BY <1>1, <3>2 DEF Calm, CurrentOf
    <3> QED BY <3>1, <3>2
  <2> QED BY <2>1, <2>2 DEF Processes
<1>2. ASSUME NEW t \in Tasks, Spawned(t) PROVE Processes'
  <2>1. /\ pc[t] = "spawning" /\ session[t] \in Tasks /\ session' = session
        /\ \A v \in Tasks : /\ process'[v] = IF v = t THEN "live" ELSE process[v]
                            /\ current'[v] = IF v = session[t] THEN t ELSE current[v]
        /\ pc'[t] = "reading"
    BY <1>2 DEF Spawned, Goto, Lives, LifeOf, AtWork, SessionsTypeOK, taskVars
  <2>2. ASSUME NEW v \in Tasks PROVE ProcessOf(v)'
    <3>1. CASE v = t
      BY <2>1, <3>1 DEF ProcessOf, Early, AtIt
    <3>2. CASE v # t
      <4>1. ProcessOf(v) /\ Follows(v) /\ Stable(v) /\ process'[v] = process[v]
        BY <1>0, <2>1, <3>2 DEF Processes
      <4>2. pc[v] \in AtIt => pc'[v] \in AtIt \/ v \in cancelled' \/ process[v] = "dead"
        BY <4>1 DEF Follows
      <4> QED BY <4>1, <4>2 DEF ProcessOf, Follows, Stable
    <3> QED BY <3>1, <3>2
  <2>3. ASSUME NEW s \in Tasks PROVE CurrentOf(s)'
    <3>1. current[s] # None => current[s] \in Tasks
      BY DEF SessionsTypeOK
    <3>2. CASE s = session[t]
      BY <2>1, <3>2 DEF CurrentOf
    <3>3. CASE s # session[t]
      BY <2>1, <3>1, <3>3 DEF Processes, CurrentOf
    <3> QED BY <3>2, <3>3
  <2> QED BY <2>2, <2>3 DEF Processes
<1> QED BY <1>1, <1>2, ProcessMoves

\* Each process is that of a session, and of the task that reads from it or left it.
THEOREM ProcessesInvariant == SessionsSpec => [](ManagerInv /\ Processes)
<1>1. ManagerInv /\ Processes /\ [SessionsNext]_sessionVars => (ManagerInv /\ Processes)'
  BY ManagerStep, ProcessesStep DEF ManagerInv
<1> QED BY <1>1, ManagerInit, ProcessesInit, PTL DEF SessionsSpec

\* The session that a task removes is one of its conversation.
LEMMA PoppedInTree ==
    ASSUME SessionsTypeOK, Lives, Families, NEW t \in Tasks, OwnId(t) \in Known
    PROVE  Popped(t) \in Tasks => tree[Popped(t)] = tree[t]
<1> SUFFICES ASSUME Popped(t) \in Tasks PROVE tree[Popped(t)] = tree[t]
  OBVIOUS
<1> PICK i \in SessionIds : i = OwnId(t)
  BY DEF Known
<1>1. i # None /\ StoredKeys(i) /\ TaskKeys(t) /\ LifeOf(t)
  BY KeyFacts DEF Families, Lives
<1>2. CASE captured[t] # None
  <2>1. IssuedIn(i, tree[t])
    BY <1>1, <1>2 DEF OwnId, TaskKeys
  <2>2. IssuedIn(i, tree[Popped(t)])
    <3>1. \A v \in Tasks : i # Temp(v)
      BY <2>1, NotIssued
    <3> QED BY <1>1, <3>1 DEF Popped, StoredKeys, Known
  <2> QED BY <2>1, <2>2, IssuedOnce
<1>3. CASE captured[t] = None
  <2>1. i = temp[t] /\ i = Given(t) /\ sessions[i] = None
    BY <1>1, <1>3 DEF OwnId, LifeOf, TaskKeys
  <2>2. Popped(t) = pending[i] /\ pending[i] # None
    BY <1>1, <2>1 DEF Popped, Known
  <2>3. CASE resumes[t] # None
    <3>1. IssuedIn(i, tree[t])
      BY <2>1, <2>3, GivenInFamily
    <3>2. \A v \in Tasks : i # Temp(v)
      BY <3>1, NotIssued
    <3>3. IssuedIn(i, tree[Popped(t)])
      BY <1>1, <2>2, <3>2 DEF StoredKeys
    <3> QED BY <3>1, <3>3, IssuedOnce
  <2>4. CASE resumes[t] = None
    <3>1. i = Temp(t)
      BY <2>1, <2>4, GivenInFamily
    <3>2. \A a : ~IssuedIn(i, a)
      BY <3>1, NotIssued
    <3>3. PICK v \in Tasks : i = Temp(v) /\ tree[v] = tree[pending[i]]
      BY <1>1, <2>2, <3>2 DEF StoredKeys
    <3>4. v = t
      BY <3>1, <3>3, KeyFacts
    <3> QED BY <2>2, <3>3, <3>4
  <2> QED BY <2>3, <2>4
<1> QED BY <1>2, <1>3

\* The clean-up of a task stops another task's process only in its own
\* conversation, and where one of the two was cancelled.
THEOREM StopsOwnCorrect == SessionsSpec => StopsOwn
<1>1. ASSUME ManagerInv, Processes, [SessionsNext]_sessionVars, NEW t \in Tasks, NEW p \in Tasks,
             RemoveSession(t), process[p] = "live", process'[p] = "term", t # p
      PROVE  tree[t] = tree[p] /\ cancelled \cap {t, p} # {}
  <2>1. SessionsTypeOK /\ Lives /\ OneAtWork /\ Families
    BY <1>1 DEF ManagerInv
  <2>2. pc[t] = "closing" /\ OwnId(t) \in Known /\ Popped(t) \in Tasks /\ Terminate(Popped(t))
    BY <1>1, <2>1, PopDoes DEF PopsNothing, PopsPending, PopsSession
  <2>3. p = current[Popped(t)]
    BY <1>1, <2>2 DEF Terminate
  <2>4. session[p] = Popped(t)
    BY <1>1, <2>2, <2>3, KeyFacts DEF Processes, CurrentOf
  <2>5. tree[Popped(t)] = tree[p]
    BY <2>1, <2>2, <2>4, KeyFacts DEF Families, TaskKeys
  <2>6. tree[t] = tree[p]
    BY <2>1, <2>2, <2>5, PoppedInTree
  <2>7. tree[t] # None
    BY <2>1, <2>2 DEF Lives, LifeOf
  <2>8. Ended(t) \/ Ended(p)
    BY <1>1, <2>1, <2>6, <2>7 DEF OneAtWork
  <2>9. pc[p] \in AtIt \/ p \in cancelled
    BY <1>1 DEF Processes, ProcessOf
  <2>10. t \in cancelled \/ p \in cancelled
    BY <2>2, <2>8, <2>9 DEF Ended, AtIt
  <2> QED BY <2>6, <2>10
<1>2. ManagerInv /\ Processes /\ [SessionsNext]_sessionVars =>
        [\A t, p \in Tasks :
            RemoveSession(t) /\ process[p] = "live" /\ process'[p] = "term" /\ t # p =>
                tree[t] = tree[p] /\ cancelled \cap {t, p} # {}]_sessionVars
  BY <1>1
<1> QED BY <1>2, ProcessesInvariant, PTL DEF SessionsSpec, StopsOwn

(***************************************************************************)
(* Generators and registered process ids.                                  *)
(***************************************************************************)

\* A task in its generator, or one that left it suspended, has the lock of its
\* session, whose process is its own; no other task has a process that runs.
Holds(t) == pc[t] \in {"spawning", "reading", "registering", "stopping"} \/ t \in abandoned
GeneratorOf(t) ==
    /\ Holds(t) => cliLock[session[t]] = t
    /\ Holds(t) /\ pc[t] # "spawning" => current[session[t]] = t
    /\ process[t] = "live" => pc[t] \in AtIt \/ t \in abandoned
    /\ pc[t] = "stopping" => process[t] # "live"
Suspended(t) == t \in abandoned => pc[t] \in {"closing", "dropping", "removing", "done"} /\ session[t] # None

Generators ==
    /\ \A t \in Tasks : Suspended(t)
    /\ app = "ended" => abandoned = {} /\ \A t \in Tasks : pc[t] \in {"idle", "done"}
    /\ app # "ended" => \A t \in Tasks : GeneratorOf(t)

\* A task that holds the lock of its session has one.
LEMMA HolderHasSession ==
    ASSUME SessionsTypeOK, Lives, Generators, NEW t \in Tasks, Holds(t) PROVE session[t] \in Tasks
  BY DEF SessionsTypeOK, Lives, LifeOf, AtWork, Generators, Suspended, Holds

LEMMA GeneratorsInit == SessionsInit => Generators
  BY DEF SessionsInit, Generators, GeneratorOf, Suspended, Holds

\* The ways of a task into its generator and out of it.
Quiet(v) == /\ Holds(v)' <=> Holds(v)
            /\ pc'[v] = "spawning" <=> pc[v] = "spawning"
            /\ pc'[v] \in AtIt <=> pc[v] \in AtIt
            /\ pc'[v] = "stopping" <=> pc[v] = "stopping"
            /\ v \in abandoned' <=> v \in abandoned
Enters(t) ==
    /\ pc[t] = "waiting" /\ cliLock[session[t]] = None /\ pc' = [pc EXCEPT ![t] = "spawning"]
    /\ cliLock' = [cliLock EXCEPT ![session[t]] = t]
    /\ UNCHANGED <<current, process, pids, abandoned, app>>
Leaves(t) ==
    /\ app # "ended" /\ Holds(t) /\ LeaveGenerator(t) /\ process[t] # "live"
    /\ UNCHANGED <<process, current, app>>
    /\ \/ pc[t] \in {"spawning", "reading", "stopping"} /\ pc' = [pc EXCEPT ![t] = "closing"] /\ UNCHANGED abandoned
       \/ t \in abandoned /\ pc' = pc /\ abandoned' = abandoned \ {t}
Stops(t) ==
    /\ pc[t] = "reading" /\ pc' = [pc EXCEPT ![t] = "stopping"] /\ Terminate(session[t])
    /\ UNCHANGED <<current, cliLock, pids, abandoned, app>>
Abandons(t) ==
    /\ pc[t] \in AtIt /\ pc' = [pc EXCEPT ![t] = "closing"] /\ abandoned' = abandoned \cup {t}
    /\ UNCHANGED <<process, current, cliLock, pids, app>>

\* What a step leaves as it is.
LEMMA GeneratorKept ==
    ASSUME SessionsTypeOK, Lives, Generators, app = "ended" => app' = "ended",
           NEW v \in Tasks, Stable(v), CalmOf(v), Quiet(v),
           app # "ended" /\ Holds(v) =>
               cliLock'[session[v]] = cliLock[session[v]] /\ current'[session[v]] = current[session[v]]
    PROVE  app' # "ended" => GeneratorOf(v)'
<1> SUFFICES ASSUME app # "ended", app' # "ended" PROVE GeneratorOf(v)'
  OBVIOUS
<1>1. GeneratorOf(v)
  BY DEF Generators
<1>2. process'[v] = "live" => process[v] = "live"
  BY DEF CalmOf
<1>3. Holds(v) => session'[v] = session[v]
  BY HolderHasSession, KeyFacts DEF Stable
<1>4. CASE Holds(v)
  BY <1>1, <1>2, <1>3, <1>4 DEF GeneratorOf, Quiet
<1>5. CASE ~Holds(v)
  BY <1>1, <1>2, <1>5 DEF GeneratorOf, Quiet
<1> QED BY <1>4, <1>5

\* Two tasks do not hold the lock of one session.
LEMMA OneHolder ==
    ASSUME Generators, app # "ended", NEW t \in Tasks, NEW v \in Tasks, Holds(t), Holds(v), session[t] = session[v]
    PROVE  t = v
  BY DEF Generators, GeneratorOf

\* A task whose process runs holds the lock.
LEMMA LiveHolds == ASSUME Generators, app # "ended", NEW t \in Tasks, process[t] = "live" PROVE Holds(t)
  BY DEF Generators, GeneratorOf, Holds, AtIt

\* The finally of a generator unregisters no process that runs.
LEMMA LeavesDead ==
    ASSUME SessionsTypeOK, Lives, Processes, Generators, NEW t \in Tasks, Leaves(t)
    PROVE  /\ session[t] \in Tasks
           /\ current[session[t]] # None => process[current[session[t]]] # "live"
           /\ \A p \in Tasks : process[p] = "live" => (p \in pids' <=> p \in pids)
<1>1. session[t] \in Tasks /\ app # "ended" /\ Holds(t) /\ process[t] # "live"
  BY HolderHasSession DEF Leaves
<1>2. ASSUME current[session[t]] # None PROVE process[current[session[t]]] # "live"
  <2> PICK q \in Tasks : q = current[session[t]]
    BY <1>1, <1>2 DEF SessionsTypeOK
  <2>1. session[q] = session[t]
    BY <1>1, <1>2 DEF Processes, CurrentOf
  <2>2. process[q] = "live" => q = t
    BY <1>1, <2>1, LiveHolds, OneHolder
  <2> QED BY <1>1, <2>2
<1> QED BY <1>1, <1>2 DEF Leaves, LeaveGenerator

Late == {"closing", "dropping", "removing", "done"}
Still ==
    /\ UNCHANGED <<cliLock, current, abandoned>> /\ \A v \in Tasks : Quiet(v)
    /\ app' = "ended" => app = "ended" /\ pc' = pc
    /\ app = "ended" => app' = "ended"

LEMMA LateStays ==
    ASSUME SessionsTypeOK, [SessionsNext]_sessionVars PROVE \A v \in Tasks : pc[v] \in Late => pc'[v] \in Late
<1>1. CASE StepOfNobody
  BY <1>1, NobodyMoves DEF Nobody
<1>2. ASSUME NEW t \in Tasks, StepOf(t) PROVE \A v \in Tasks : pc[v] \in Late => pc'[v] \in Late
  <2>1. \A v \in Tasks \ {t} : pc'[v] = pc[v]
    BY <1>2, OthersStay DEF Others
  <2>2. pc[t] \in Late => pc'[t] \in Late
    <3>1. CASE \E u \in Tasks \cup {None} : Start(t, u)
      <4>1. PICK root, id : Enter(t, root, id)
        BY <3>1 DEF Start
      <4> QED BY <4>1 DEF Enter, Late
    <3>2. CASE GetOrCreate(t) \/ Spawn(t) \/ Spawned(t) \/ SpawnFails(t)
      BY <3>2 DEF GetOrCreate, Spawn, Spawned, SpawnFails, Late
    <3>3. CASE SessionInfo(t) \/ RegisterSession(t) \/ Completed(t) \/ Exited(t) \/ StopReturns(t)
      BY <3>3 DEF SessionInfo, RegisterSession, Completed, Exited, StopReturns, Late
    <3>4. CASE RemoveSession(t) \/ SessionRemoved(t)
      BY <3>4 DEF RemoveSession, SessionRemoved, Pop, Goto, Late, SessionsTypeOK
    <3>5. CASE Cancel(t)
      BY <3>5 DEF Cancel, Interrupt, Goto, Late, SessionsTypeOK
    <3> QED BY <1>2, <3>1, <3>2, <3>3, <3>4, <3>5 DEF StepOf
  <2> QED BY <2>1, <2>2
<1> QED BY <1>1, <1>2, SessionsCases

LEMMA StillMove ==
    ASSUME SessionsTypeOK, Generators, NEW t \in Tasks, NEW where, pc[t] \notin {"idle", "done"} \/ app # "ended",
           UNCHANGED <<cliLock, current, abandoned, app>>, pc' = [pc EXCEPT ![t] = where],
           \/ pc[t] \in AtIt /\ where \in AtIt
           \/ {pc[t], where} \cap {"spawning", "reading", "registering", "stopping"} = {}
    PROVE  Still
<1>1. app # "ended"
  BY DEF Generators
<1>2. /\ pc'[t] = where /\ \A v \in Tasks \ {t} : pc'[v] = pc[v]
  BY DEF SessionsTypeOK
<1>3. ASSUME NEW v \in Tasks PROVE Quiet(v)
  <2>1. CASE v = t
    BY <1>2, <2>1 DEF Quiet, Holds, AtIt
  <2>2. CASE v # t
    BY <1>2, <2>2 DEF Quiet, Holds
  <2> QED BY <2>1, <2>2
<1> QED BY <1>1, <1>3 DEF Still

LEMMA GeneratorCases ==
    ASSUME SessionsTypeOK, Lives, Processes, Generators, LockHeld, [SessionsNext]_sessionVars
    PROVE  \/ Still \/ Exit
           \/ \E t \in Tasks : Enters(t) \/ Spawned(t) \/ Leaves(t) \/ Stops(t) \/ Abandons(t)
<1>0. \A t \in Tasks : pc[t] \notin {"idle", "done"} => app # "ended"
  BY DEF Generators
<1>1. ASSUME NEW t \in Tasks, NEW u \in Tasks \cup {None}, Start(t, u) PROVE Still
  <2>1. PICK root, id : Enter(t, root, id)
    BY <1>1 DEF Start
  <2>2. /\ app # "ended" /\ pc[t] = "idle" /\ pc' = [pc EXCEPT ![t] = "getting"]
        /\ UNCHANGED <<cliLock, current, abandoned, app>>
    BY <2>1 DEF Enter, Goto, procVars
  <2> QED BY <2>2, StillMove
<1>2. ASSUME NEW t \in Tasks, GetOrCreate(t) PROVE Still
  <2>1. /\ pc[t] = "getting" /\ pc' = [pc EXCEPT ![t] = "waiting"] /\ UNCHANGED <<cliLock, current, abandoned, app>>
    BY <1>2 DEF GetOrCreate, Goto, procVars
  <2> QED BY <2>1, StillMove
<1>3. ASSUME NEW t \in Tasks, Spawn(t) PROVE Enters(t)
  BY <1>3 DEF Spawn, Enters, Goto, taskVars
<1>4. ASSUME NEW t \in Tasks, SpawnFails(t) \/ Exited(t) \/ StopReturns(t) PROVE Leaves(t)
  <2>1. pc[t] \in {"spawning", "reading", "stopping"} /\ process[t] # "live"
    BY <1>4 DEF SpawnFails, Exited, StopReturns, Processes, ProcessOf, Early
  <2> QED BY <1>0, <1>4, <2>1 DEF SpawnFails, Exited, StopReturns, Leaves, Holds, Goto, taskVars
<1>5. ASSUME NEW t \in Tasks, SessionInfo(t) \/ RegisterSession(t) PROVE Still
  <2>1. PICK where \in AtIt : pc' = [pc EXCEPT ![t] = where]
    BY <1>5 DEF SessionInfo, RegisterSession, Goto, AtIt
  <2>2. pc[t] \in AtIt /\ UNCHANGED <<cliLock, current, abandoned, app>>
    BY <1>5 DEF SessionInfo, RegisterSession, AtIt, taskVars, procVars
  <2> QED BY <2>1, <2>2, StillMove DEF AtIt
<1>6. ASSUME UNCHANGED <<pc, cliLock, current, abandoned>>, app' = "ended" <=> app = "ended" PROVE Still
  BY <1>6 DEF Still, Quiet, Holds
<1>7. ASSUME NEW t \in Tasks, Completed(t) \/ Die(t) PROVE Still
  BY <1>6, <1>7 DEF Completed, Die, taskVars, procVars
<1>8. ASSUME NEW t \in Tasks, RemoveSession(t) PROVE Still
  <2>1. PICK where \in {"done", "dropping", "removing"} : pc' = [pc EXCEPT ![t] = where]
    BY <1>8 DEF RemoveSession, Pop, Goto
  <2>2. pc[t] = "closing" /\ UNCHANGED <<cliLock, current, abandoned, app>>
    BY <1>8 DEF RemoveSession, taskVars
  <2> QED BY <2>1, <2>2, StillMove
<1>9. ASSUME NEW t \in Tasks, SessionRemoved(t) PROVE Still
  <2>1. /\ pc[t] \in {"dropping", "removing"} /\ pc' = [pc EXCEPT ![t] = "done"]
        /\ UNCHANGED <<cliLock, current, abandoned, app>>
    BY <1>9 DEF SessionRemoved, Goto, taskVars
  <2> QED BY <2>1, StillMove
<1>10. ASSUME NEW t \in Tasks, Cancel(t) PROVE Still \/ Leaves(t) \/ Stops(t) \/ Abandons(t)
  <2>0. app # "ended" /\ app' = app
    BY <1>10 DEF Cancel
  <2>1. CASE pc[t] \in {"getting", "waiting", "closing", "dropping", "removing"}
    <3>1. PICK where \in {"closing", "done"} : pc' = [pc EXCEPT ![t] = where]
      BY <1>10, <2>1 DEF Cancel, Interrupt, Goto
    <3>2. UNCHANGED <<cliLock, current, abandoned>>
      BY <1>10, <2>1 DEF Cancel, Interrupt
    <3> QED BY <2>0, <2>1, <3>1, <3>2, StillMove
  <2>2. CASE pc[t] \in {"spawning", "stopping"}
    <3>1. process[t] # "live"
      BY <2>0, <2>2 DEF Processes, ProcessOf, Early, Generators, GeneratorOf
    <3>2. LeaveGenerator(t) /\ pc' = [pc EXCEPT ![t] = "closing"] /\ UNCHANGED <<process, current, abandoned>>
      BY <1>10, <2>2 DEF Cancel, Interrupt, Goto
    <3> QED BY <2>0, <2>2, <3>1, <3>2 DEF Leaves, Holds
  <2>3. CASE pc[t] \in AtIt
    BY <1>10, <2>0, <2>3 DEF Cancel, Interrupt, Goto, Stops, Abandons, AtIt
  <2> QED BY <1>10, <2>1, <2>2, <2>3 DEF Cancel, Interrupt, AtIt
<1>11. ASSUME NEW t \in Tasks, Collect(t) PROVE Leaves(t)
  <2>1. app # "ended"
    BY <1>11 DEF Collect, Generators
  <2> QED BY <1>11, <2>1 DEF Collect, Leaves, Holds
<1>12. CASE StopAll \/ AllStopped \/ ShutDown \/ StopTimesOut \/ LoopEnds \/ UNCHANGED sessionVars
  BY <1>6, <1>12 DEF StopAll, AllStopped, ShutDown, StopTimesOut, LoopEnds, sessionVars, taskVars, procVars
<1>13. CASE StopNext
  BY <1>6, <1>13 DEF StopNext, taskVars
<1> QED BY <1>1, <1>2, <1>3, <1>4, <1>5, <1>7, <1>8, <1>9, <1>10, <1>11, <1>12, <1>13 DEF SessionsNext

LEMMA GeneratorsStep ==
    ASSUME SessionsTypeOK, Lives, Processes, Generators, LockHeld, [SessionsNext]_sessionVars PROVE Generators'
<1>0. (\A v \in Tasks : Stable(v)) /\ (\A v \in Tasks : pc[v] \in Late => pc'[v] \in Late)
  BY AllStable, LateStays
<1>1. ASSUME NEW v \in Tasks, v \in abandoned PROVE pc'[v] \in Late /\ session'[v] # None
  BY <1>0, <1>1 DEF Generators, Suspended, Stable, Late
<1>2. CASE Still
  <2>1. Calm
    <3>1. \A t \in Tasks : ~Spawned(t)
      BY <1>2 DEF Still, Quiet, Spawned, Goto, SessionsTypeOK
    <3> QED BY <3>1, ProcessMoves
  <2>2. \A v \in Tasks : app' # "ended" => GeneratorOf(v)'
    BY <1>0, <1>2, <2>1, GeneratorKept DEF Still, Calm
  <2>3. \A v \in Tasks : Suspended(v)'
    BY <1>1, <1>2 DEF Still, Suspended, Late
  <2> QED BY <1>2, <2>2, <2>3 DEF Still, Generators
<1>3. ASSUME NEW t \in Tasks, Spawned(t) PROVE Generators'
  <2>1. /\ pc[t] = "spawning" /\ pc'[t] = "reading" /\ session' = session /\ UNCHANGED <<cliLock, abandoned, app>>
        /\ \A v \in Tasks \ {t} : pc'[v] = pc[v] /\ process'[v] = process[v]
        /\ current' = [current EXCEPT ![session[t]] = t]
    BY <1>3 DEF Spawned, Goto, SessionsTypeOK, taskVars
  <2>2. app # "ended" /\ Holds(t) /\ session[t] \in Tasks
    BY <2>1, HolderHasSession DEF Generators, Holds
  <2>3. ASSUME NEW v \in Tasks, v # t PROVE GeneratorOf(v)'
    <3>1. Quiet(v) /\ CalmOf(v)
      BY <2>1, <2>3 DEF Quiet, CalmOf, Holds
    <3>2. Holds(v) => session[v] # session[t]
      BY <2>2, <2>3, OneHolder
    <3> QED BY <1>0, <2>1, <2>2, <3>1, <3>2, GeneratorKept
  <2>4. GeneratorOf(t)'
    <3>1. cliLock'[session[t]] = t /\ current'[session[t]] = t
      BY <2>1, <2>2 DEF Generators, GeneratorOf, SessionsTypeOK
    <3> QED BY <2>1, <3>1 DEF GeneratorOf, AtIt
  <2>5. \A v \in Tasks : Suspended(v)'
    BY <1>1, <2>1 DEF Suspended, Late
  <2> QED BY <2>1, <2>2, <2>3, <2>4, <2>5 DEF Generators
<1>4. ASSUME NEW t \in Tasks, Enters(t) PROVE Generators'
  <2>1. /\ pc[t] = "waiting" /\ pc'[t] = "spawning" /\ UNCHANGED <<current, process, abandoned, app>>
        /\ \A v \in Tasks \ {t} : pc'[v] = pc[v]
        /\ session[t] \in Tasks /\ session'[t] = session[t] /\ cliLock[session[t]] = None
        /\ cliLock' = [cliLock EXCEPT ![session[t]] = t]
    BY <1>0, <1>4 DEF Enters, Lives, LifeOf, AtWork, Stable, SessionsTypeOK
  <2>2. app # "ended" /\ t \notin abandoned /\ process[t] = "none"
    BY <2>1 DEF Generators, Suspended, Processes, ProcessOf, Early
  <2>3. ASSUME NEW v \in Tasks, v # t PROVE GeneratorOf(v)'
    <3>1. Quiet(v) /\ CalmOf(v)
      BY <2>1, <2>3 DEF Quiet, CalmOf, Holds
    <3>2. Holds(v) => session[v] # session[t]
      BY <2>1, <2>2, KeyFacts DEF Generators, GeneratorOf
    <3> QED BY <1>0, <2>1, <2>2, <3>1, <3>2, GeneratorKept
  <2>4. GeneratorOf(t)'
    <3>1. cliLock'[session'[t]] = t
      BY <2>1 DEF SessionsTypeOK
    <3> QED BY <2>1, <2>2, <3>1 DEF GeneratorOf, AtIt
  <2>5. \A v \in Tasks : Suspended(v)'
    BY <1>1, <2>1 DEF Suspended, Late
  <2> QED BY <2>1, <2>2, <2>3, <2>4, <2>5 DEF Generators
<1>5. ASSUME NEW t \in Tasks, Leaves(t) PROVE Generators'
  <2>1. /\ app # "ended" /\ Holds(t) /\ process[t] # "live" /\ UNCHANGED <<process, current, app>>
        /\ session[t] \in Tasks /\ cliLock' = [cliLock EXCEPT ![session[t]] = None]
        /\ abandoned' \subseteq abandoned
        /\ \A v \in Tasks \ {t} : pc'[v] = pc[v] /\ (v \in abandoned' <=> v \in abandoned)
    BY <1>5, HolderHasSession DEF Leaves, LeaveGenerator, SessionsTypeOK
  <2>2. pc'[t] \in Late /\ t \notin abandoned'
    <3>1. CASE t \in abandoned
      BY <1>1, <1>5, <3>1 DEF Leaves, Generators, Suspended
    <3>2. CASE t \notin abandoned
      BY <1>5, <3>2 DEF Leaves, Late, SessionsTypeOK
    <3> QED BY <3>1, <3>2
  <2>3. ASSUME NEW v \in Tasks, v # t PROVE GeneratorOf(v)'
    <3>1. Quiet(v) /\ CalmOf(v)
      BY <2>1, <2>3 DEF Quiet, CalmOf, Holds
    <3>2. Holds(v) => session[v] # session[t]
      BY <2>1, <2>3, OneHolder
    <3> QED BY <1>0, <2>1, <3>1, <3>2, GeneratorKept
  <2>4. GeneratorOf(t)'
    BY <2>1, <2>2 DEF GeneratorOf, Holds, Late
  <2>5. \A v \in Tasks : Suspended(v)'
    BY <1>1, <2>1 DEF Suspended, Late
  <2> QED BY <2>1, <2>3, <2>4, <2>5 DEF Generators
<1>6. ASSUME NEW t \in Tasks, Stops(t) PROVE Generators'
  <2>1. /\ pc[t] = "reading" /\ pc'[t] = "stopping" /\ UNCHANGED <<cliLock, current, abandoned, app>>
        /\ \A v \in Tasks \ {t} : pc'[v] = pc[v]
        /\ \A v \in Tasks : CalmOf(v) /\ (v = current[session[t]] => process'[v] # "live")
    BY <1>6, TerminateCalms DEF Stops, SessionsTypeOK
  <2>2. app # "ended" /\ Holds(t) /\ t \notin abandoned
    BY <2>1 DEF Generators, Suspended, Holds
  <2>3. ASSUME NEW v \in Tasks, v # t PROVE GeneratorOf(v)'
    <3>1. Quiet(v)
      BY <2>1, <2>3 DEF Quiet, Holds
    <3> QED BY <1>0, <2>1, <2>2, <3>1, GeneratorKept
  <2>4. GeneratorOf(t)'
    <3>1. session'[t] = session[t] /\ cliLock[session[t]] = t /\ current[session[t]] = t
      BY <1>0, <2>1, <2>2, HolderHasSession, KeyFacts DEF Stable, Generators, GeneratorOf
    <3> QED BY <2>1, <3>1 DEF GeneratorOf
  <2>5. \A v \in Tasks : Suspended(v)'
    BY <1>1, <2>1 DEF Suspended, Late
  <2> QED BY <2>1, <2>2, <2>3, <2>4, <2>5 DEF Generators
<1>7. ASSUME NEW t \in Tasks, Abandons(t) PROVE Generators'
  <2>1. /\ pc[t] \in AtIt /\ pc'[t] = "closing" /\ UNCHANGED <<process, cliLock, current, app>>
        /\ \A v \in Tasks \ {t} : pc'[v] = pc[v] /\ (v \in abandoned' <=> v \in abandoned)
        /\ abandoned' = abandoned \cup {t}
    BY <1>7 DEF Abandons, SessionsTypeOK
  <2>2. app # "ended" /\ Holds(t) /\ session[t] \in Tasks /\ session'[t] = session[t]
    <3>1. app # "ended" /\ Holds(t)
      BY <2>1 DEF Generators, Holds, AtIt
    <3> QED BY <1>0, <3>1, HolderHasSession, KeyFacts DEF Stable
  <2>3. ASSUME NEW v \in Tasks, v # t PROVE GeneratorOf(v)'
    <3>1. Quiet(v) /\ CalmOf(v)
      BY <2>1, <2>3 DEF Quiet, CalmOf, Holds
    <3> QED BY <1>0, <2>1, <2>2, <3>1, GeneratorKept
  <2>4. GeneratorOf(t)'
    <3>1. cliLock[session[t]] = t /\ current[session[t]] = t
      BY <2>1, <2>2 DEF Generators, GeneratorOf, AtIt
    <3> QED BY <2>1, <2>2, <3>1 DEF GeneratorOf, Holds
  <2>5. \A v \in Tasks : Suspended(v)'
    BY <1>1, <2>1, <2>2, KeyFacts DEF Suspended, Late
  <2> QED BY <2>1, <2>2, <2>3, <2>4, <2>5 DEF Generators
<1>8. CASE Exit
  BY <1>8 DEF Exit, Generators, Suspended
<1> QED BY <1>2, <1>3, <1>4, <1>5, <1>6, <1>7, <1>8, GeneratorCases

(***************************************************************************)
(* The process that is waited for, and the registered ones.                *)
(***************************************************************************)

\* Who stops a session waits for a process that got its signal, of a task that
\* was cancelled or has the session for itself until it is removed.
DyingInv ==
    dying # None =>
        /\ session[dying] = Head(stopping) /\ process[dying] # "live"
        /\ dying \in cancelled \/ (pc[dying] \in AtIt \cup {"closing"} /\ current[Head(stopping)] = dying)

\* A process that runs is registered, unless two tasks have its session.
Registered ==
    /\ app = "ended" => pids = {}
    /\ \A p \in Tasks : process[p] = "live" /\ p \notin pids =>
          \E t \in cancelled \ {p} : session[t] = session[p]

LEMMA SessionFixed ==
    ASSUME SessionsTypeOK, Lives, [SessionsNext]_sessionVars
    PROVE  \A v \in Tasks : pc[v] # "getting" => session'[v] = session[v]
<1>1. CASE StepOfNobody
  BY <1>1, NobodyMoves DEF Nobody
<1>2. ASSUME NEW t \in Tasks, StepOf(t) PROVE \A v \in Tasks : pc[v] # "getting" => session'[v] = session[v]
  <2>1. \A v \in Tasks \ {t} : session'[v] = session[v]
    BY <1>2, OthersStay DEF Others
  <2>2. pc[t] # "getting" => session' = session
    <3>1. CASE \E u \in Tasks \cup {None} : Start(t, u)
      BY <3>1 DEF Start, Enter
    <3>2. CASE GetOrCreate(t) \/ RegisterSession(t) \/ Completed(t)
      BY <3>2 DEF GetOrCreate, RegisterSession, Completed
    <3>3. CASE Spawn(t) \/ Spawned(t) \/ SpawnFails(t) \/ SessionInfo(t) \/ Exited(t)
      BY <3>3 DEF Spawn, Spawned, SpawnFails, SessionInfo, Exited, taskVars
    <3>4. CASE RemoveSession(t) \/ SessionRemoved(t) \/ Cancel(t) \/ StopReturns(t)
      BY <3>4 DEF RemoveSession, SessionRemoved, Cancel, StopReturns, taskVars
    <3> QED BY <1>2, <3>1, <3>2, <3>3, <3>4 DEF StepOf
  <2> QED BY <2>1, <2>2
<1> QED BY <1>1, <1>2, SessionsCases

\* While the lock is held no task cleans up, unless it is cancelled.
LEMMA Waits ==
    ASSUME SessionsTypeOK, Lives, lock # None, [SessionsNext]_sessionVars
    PROVE  \A v \in Tasks \ cancelled : pc[v] \in AtIt \cup {"closing"} =>
               pc'[v] \in AtIt \cup {"closing"} \/ v \in cancelled'
<1>1. CASE StepOfNobody
  BY <1>1, NobodyMoves DEF Nobody
<1>2. ASSUME NEW t \in Tasks, StepOf(t), NEW v \in Tasks \ cancelled, pc[v] \in AtIt \cup {"closing"}
      PROVE  pc'[v] \in AtIt \cup {"closing"} \/ v \in cancelled'
  <2>1. CASE v # t
    BY <1>2, <2>1, OthersStay DEF Others
  <2>2. CASE v = t
    <3>1. CASE \E u \in Tasks \cup {None} : Start(t, u)
      BY <1>2, <2>2, <3>1 DEF Start, Enter, AtIt
    <3>2. CASE GetOrCreate(t) \/ RegisterSession(t) \/ Completed(t)
      BY <1>2, <2>2, <3>2 DEF GetOrCreate, RegisterSession, Completed, Goto, AtIt, SessionsTypeOK
    <3>3. CASE Spawn(t) \/ Spawned(t) \/ SpawnFails(t) \/ SessionInfo(t) \/ Exited(t) \/ StopReturns(t)
      BY <1>2, <2>2, <3>3 DEF Spawn, Spawned, SpawnFails, SessionInfo, Exited, StopReturns, Goto, AtIt, SessionsTypeOK
    <3>4. ~RemoveSession(t)
      <4>1. pc[t] = "closing" => OwnId(t) # None
        BY <1>2, <2>2 DEF Lives, LifeOf, OwnId
      <4> QED BY <4>1 DEF RemoveSession, Pop
    <3>5. CASE SessionRemoved(t)
      BY <1>2, <2>2, <3>5 DEF SessionRemoved, AtIt
    <3>6. CASE Cancel(t)
      BY <1>2, <2>2, <3>6 DEF Cancel
    <3> QED BY <1>2, <3>1, <3>2, <3>3, <3>4, <3>5, <3>6 DEF StepOf
  <2> QED BY <2>1, <2>2
<1> QED BY <1>1, <1>2, SessionsCases

\* A session whose process runs is stopped.
Signals ==
    \E s \in Tasks :
        /\ current[s] \in Alive /\ Terminate(s) /\ dying' = current[s] /\ Head(stopping') = s
        /\ UNCHANGED <<current, session, cancelled>>
        /\ \A v \in Tasks : pc[v] \in AtIt => pc'[v] = pc[v]

LEMMA DyingCases ==
    ASSUME SessionsTypeOK, Lives, Families, LockHeld, [SessionsNext]_sessionVars
    PROVE  dying' = None \/ UNCHANGED <<dying, stopping>> \/ Signals
<1>1. ASSUME NEW t \in Tasks, NEW u \in Tasks \cup {None}, Start(t, u) PROVE UNCHANGED <<dying, stopping>>
  BY <1>1 DEF Start, Enter, lockVars
<1>2. ASSUME NEW t \in Tasks, GetOrCreate(t) \/ Spawn(t) \/ Spawned(t) \/ SpawnFails(t) \/ SessionInfo(t) \/ RegisterSession(t)
      PROVE UNCHANGED <<dying, stopping>>
  BY <1>2 DEF GetOrCreate, Spawn, Spawned, SpawnFails, SessionInfo, RegisterSession, lockVars
<1>3. ASSUME NEW t \in Tasks, Completed(t) \/ Exited(t) \/ StopReturns(t) \/ Collect(t) \/ Die(t)
      PROVE UNCHANGED <<dying, stopping>>
  BY <1>3 DEF Completed, Exited, StopReturns, Collect, Die, lockVars
<1>4. ASSUME NEW t \in Tasks, RemoveSession(t) PROVE UNCHANGED <<dying, stopping>> \/ Signals
  <2>1. pc[t] = "closing" /\ UNCHANGED <<current, session, cancelled>> /\ (OwnId(t) \in Known => Popped(t) \in Tasks)
    BY <1>4, PopDoes DEF taskVars
  <2>2. CASE UNCHANGED lockVars
    BY <2>2 DEF lockVars
  <2>3. ASSUME NEW where, AndWaits(t, where), OwnId(t) \in Known, Terminate(Popped(t)) PROVE Signals
    <3>1. \A v \in Tasks \ {t} : pc'[v] = pc[v]
      BY <2>3 DEF AndWaits, SessionsTypeOK
    <3> QED BY <2>1, <2>3, <3>1 DEF AndWaits, Signals, AtIt
  <2> QED BY <1>4, <2>2, <2>3, PopDoes DEF PopsNothing, PopsPending, PopsSession, AndReturns
<1>5. ASSUME NEW t \in Tasks, SessionRemoved(t) \/ Cancel(t) PROVE dying' = None \/ UNCHANGED <<dying, stopping>>
  BY <1>5 DEF SessionRemoved, Cancel, Interrupt, Unlock, lockVars
<1>6. CASE StopAll
  BY <1>6 DEF StopAll, LockHeld
<1>7. CASE StopNext
  <2>1. Head(stopping) \in Tasks
    BY <1>7 DEF StopNext, SessionsTypeOK
  <2>2. UNCHANGED <<current, session, cancelled, pc>>
    BY <1>7 DEF StopNext, taskVars
  <2>3. \/ dying' = None
        \/ /\ current[Head(stopping)] \in Alive /\ Terminate(Head(stopping)) /\ dying' = current[Head(stopping)]
           /\ stopping' = stopping
    BY <1>7 DEF StopNext
  <2> QED BY <2>1, <2>2, <2>3 DEF Signals
<1>8. CASE AllStopped \/ ShutDown \/ StopTimesOut \/ LoopEnds \/ Exit \/ UNCHANGED sessionVars
  BY <1>8 DEF AllStopped, ShutDown, StopTimesOut, LoopEnds, Exit, sessionVars, Unlock, lockVars
<1> QED BY <1>1, <1>2, <1>3, <1>4, <1>5, <1>6, <1>7, <1>8 DEF SessionsNext

LEMMA DyingStep ==
    ASSUME SessionsTypeOK, Lives, OneAtWork, Families, LockHeld, Processes, DyingInv, [SessionsNext]_sessionVars
    PROVE  DyingInv'
<1>0. (\A v \in Tasks : Stable(v)) /\ (Calm \/ \E t \in Tasks : Spawned(t))
  BY AllStable, ProcessMoves
<1>1. CASE dying' = None
  BY <1>1 DEF DyingInv
<1>2. CASE Signals
  <2> PICK s \in Tasks :
        /\ current[s] \in Alive /\ Terminate(s) /\ dying' = current[s] /\ Head(stopping') = s
        /\ UNCHANGED <<current, session, cancelled>>
        /\ \A v \in Tasks : pc[v] \in AtIt => pc'[v] = pc[v]
    BY <1>2 DEF Signals
  <2> PICK q \in Tasks : q = current[s]
    BY DEF Alive
  <2>1. session[q] = s
    BY KeyFacts DEF Processes, CurrentOf
  <2>2. process'[q] # "live"
    BY TerminateCalms
  <2>3. pc[q] \in AtIt \/ q \in cancelled
    BY DEF Processes, ProcessOf, Alive
  <2> QED BY <2>1, <2>2, <2>3 DEF DyingInv
<1>3. CASE UNCHANGED <<dying, stopping>> /\ dying # None
  <2> PICK d \in Tasks, h \in Tasks : d = dying /\ h = Head(stopping)
    BY <1>3 DEF SessionsTypeOK, LockHeld
  <2>1. /\ session[d] = h /\ process[d] # "live" /\ lock # None
        /\ d \in cancelled \/ (pc[d] \in AtIt \cup {"closing"} /\ current[h] = d)
    BY <1>3 DEF DyingInv, LockHeld
  <2>2. pc[d] \notin Early
    BY <2>1 DEF Lives, LifeOf, Early, AtIt
  <2>3. session'[d] = h /\ Head(stopping') = h
    BY <1>0, <1>3, <2>1, KeyFacts DEF Stable
  <2>4. process'[d] # "live"
    <3>1. CASE Calm
      BY <2>1, <3>1 DEF Calm, CalmOf
    <3>2. ASSUME NEW t \in Tasks, Spawned(t) PROVE process'[d] # "live"
      <4>1. t # d /\ process' = [process EXCEPT ![t] = "live"]
        BY <2>2, <3>2 DEF Spawned, Early
      <4> QED BY <2>1, <4>1 DEF SessionsTypeOK
    <3> QED BY <1>0, <3>1, <3>2
  <2>5. CASE d \in cancelled
    BY <1>0, <1>3, <2>3, <2>4, <2>5 DEF DyingInv, Stable
  <2>6. CASE d \notin cancelled
    <3>1. pc'[d] \in AtIt \cup {"closing"} \/ d \in cancelled'
      BY <2>1, <2>6, Waits
    <3>2. current'[h] = d
      <4>1. CASE Calm
        BY <2>1, <2>6, <4>1 DEF Calm
      <4>2. ASSUME NEW t \in Tasks, Spawned(t) PROVE current'[h] = d
        <5>1. pc[t] = "spawning" /\ current' = [current EXCEPT ![session[t]] = t] /\ t # d
          BY <2>2, <4>2 DEF Spawned, Early
        <5>2. ~Ended(t) /\ ~Ended(d) /\ tree[t] # None
          BY <2>1, <2>6, <5>1 DEF Ended, Lives, LifeOf, AtIt
        <5>3. session[t] # h
          <6>1. session[t] = h => tree[t] = tree[d]
            BY <2>1, KeyFacts DEF Families, TaskKeys
          <6> QED BY <5>1, <5>2, <6>1 DEF OneAtWork
        <5> QED BY <2>1, <2>6, <5>1, <5>3 DEF SessionsTypeOK
      <4> QED BY <1>0, <4>1, <4>2
    <3> QED BY <1>3, <2>3, <2>4, <3>1, <3>2 DEF DyingInv
  <2> QED BY <2>5, <2>6
<1> QED BY <1>1, <1>2, <1>3, DyingCases

\* The process of a session whose stopping ends is unregistered.
Unregisters ==
    /\ dying # None /\ process[dying] = "dead" /\ UNCHANGED <<process, app>>
    /\ pids' = pids \ {current[Head(stopping)]}

LEMMA PidCases ==
    ASSUME SessionsTypeOK, Lives, Processes, Generators, LockHeld, [SessionsNext]_sessionVars
    PROVE  \/ pids' = pids /\ (app' = "ended" => app = "ended")
           \/ Unregisters \/ Exit \/ \E t \in Tasks : Spawned(t) \/ Leaves(t)
<1>1. ASSUME NEW t \in Tasks, NEW u \in Tasks \cup {None}, Start(t, u) PROVE pids' = pids /\ app' = app
  BY <1>1 DEF Start, Enter, procVars
<1>2. ASSUME NEW t \in Tasks, GetOrCreate(t) \/ Spawn(t) \/ SessionInfo(t) \/ RegisterSession(t) \/ Completed(t)
                              \/ RemoveSession(t) \/ Die(t)
      PROVE pids' = pids /\ app' = app
  BY <1>2 DEF GetOrCreate, Spawn, SessionInfo, RegisterSession, Completed, RemoveSession, Die, procVars
<1>3. ASSUME NEW t \in Tasks, SpawnFails(t) \/ Exited(t) \/ StopReturns(t) \/ Collect(t) PROVE Leaves(t)
  <2>1. \/ pc[t] \in {"spawning", "reading", "stopping"} /\ pc' = [pc EXCEPT ![t] = "closing"] /\ UNCHANGED abandoned
        \/ t \in abandoned /\ pc' = pc /\ abandoned' = abandoned \ {t}
    BY <1>3 DEF SpawnFails, Exited, StopReturns, Collect, Goto, taskVars
  <2>2. app # "ended"
    BY <2>1 DEF Generators
  <2>3. process[t] # "live"
    BY <1>3 DEF SpawnFails, Exited, StopReturns, Collect, Processes, ProcessOf, Early
  <2>4. LeaveGenerator(t) /\ UNCHANGED <<process, current, app>>
    BY <1>3 DEF SpawnFails, Exited, StopReturns, Collect
  <2> QED BY <2>1, <2>2, <2>3, <2>4 DEF Leaves, Holds
<1>4. ASSUME NEW t \in Tasks, SessionRemoved(t) PROVE Unregisters
  BY <1>4 DEF SessionRemoved, Unregister, Unregisters, LockHeld
<1>5. ASSUME NEW t \in Tasks, Cancel(t) PROVE (pids' = pids /\ app' = app) \/ Leaves(t)
  <2>1. app # "ended" /\ app' = app
    BY <1>5 DEF Cancel
  <2>2. CASE pc[t] \in {"spawning", "stopping"}
    <3>1. process[t] # "live"
      BY <2>1, <2>2 DEF Processes, ProcessOf, Early, Generators, GeneratorOf
    <3>2. LeaveGenerator(t) /\ pc' = [pc EXCEPT ![t] = "closing"] /\ UNCHANGED <<process, current, abandoned>>
      BY <1>5, <2>2 DEF Cancel, Interrupt, Goto
    <3> QED BY <2>1, <2>2, <3>1, <3>2 DEF Leaves, Holds
  <2>3. CASE pc[t] \notin {"spawning", "stopping"}
    BY <1>5, <2>1, <2>3 DEF Cancel, Interrupt
  <2> QED BY <2>2, <2>3
<1>6. CASE StopNext
  BY <1>6 DEF StopNext, Unregister, Unregisters
<1>7. CASE StopAll \/ AllStopped \/ ShutDown \/ StopTimesOut \/ LoopEnds \/ UNCHANGED sessionVars
  BY <1>7 DEF StopAll, AllStopped, ShutDown, StopTimesOut, LoopEnds, sessionVars, procVars
<1> QED BY <1>1, <1>2, <1>3, <1>4, <1>5, <1>6, <1>7 DEF SessionsNext

LEMMA RegisteredStep ==
    ASSUME SessionsTypeOK, Lives, Families, Processes, Generators, LockHeld, DyingInv, Registered,
           [SessionsNext]_sessionVars
    PROVE  Registered'
<1>0. /\ \A v \in Tasks : Stable(v) /\ Follows(v)
      /\ \A v \in Tasks : pc[v] # "getting" => session'[v] = session[v]
      /\ Calm \/ \E t \in Tasks : Spawned(t)
  BY AllStable, AllFollow, SessionFixed, ProcessMoves
<1>1. cancelled \subseteq Tasks /\ cancelled \subseteq cancelled'
  BY <1>0 DEF SessionsTypeOK, Stable
<1>2. ASSUME NEW p \in Tasks, process[p] = "live", NEW t \in cancelled \ {p}, session[t] = session[p]
      PROVE  \E v \in cancelled' \ {p} : session'[v] = session'[p]
  <2>1. pc[p] # "getting" /\ pc[t] # "getting"
    BY <1>1, <1>2 DEF Processes, ProcessOf, Early, Lives, LifeOf
  <2> QED BY <1>0, <1>1, <1>2, <2>1
<1>3. ASSUME Calm, \A p \in Tasks : process[p] = "live" /\ p \notin pids' =>
                       p \notin pids \/ process'[p] # "live" \/ \E t \in cancelled \ {p} : session[t] = session[p]
      PROVE  \A p \in Tasks : process'[p] = "live" /\ p \notin pids' => \E t \in cancelled' \ {p} : session'[t] = session'[p]
  <2>1. \A p \in Tasks : process'[p] = "live" => process[p] = "live"
    BY <1>3 DEF Calm, CalmOf
  <2> QED BY <1>2, <1>3, <2>1 DEF Registered
<1>4. ASSUME NEW t \in Tasks, Spawned(t) PROVE Registered'
  <2>1. /\ pc[t] = "spawning" /\ pids' = pids \cup {t} /\ app' = app
        /\ \A v \in Tasks \ {t} : process'[v] = process[v]
    BY <1>4 DEF Spawned, SessionsTypeOK
  <2>2. app # "ended"
    BY <2>1 DEF Generators
  <2> QED BY <1>2, <2>1, <2>2 DEF Registered
<1>5. CASE Calm /\ pids' = pids /\ (app' = "ended" => app = "ended")
  <2>1. \A p \in Tasks : process'[p] = "live" /\ p \notin pids' => \E t \in cancelled' \ {p} : session'[t] = session'[p]
    BY <1>3, <1>5
  <2> QED BY <1>5, <2>1 DEF Registered
<1>6. CASE Calm /\ Unregisters
  <2> PICK d \in Tasks, h \in Tasks : d = dying /\ h = Head(stopping)
    BY <1>6 DEF SessionsTypeOK, LockHeld, Unregisters
  <2>1. session[d] = h /\ process[d] = "dead" /\ (d \in cancelled \/ current[h] = d)
    BY <1>6 DEF DyingInv, Unregisters
  <2>2. ASSUME NEW p \in Tasks, process[p] = "live", p \notin pids', p \in pids
        PROVE  \E t \in cancelled \ {p} : session[t] = session[p]
    <3>1. p = current[h] /\ p # d
      BY <1>6, <2>1, <2>2 DEF Unregisters
    <3>2. session[p] = h
      BY <3>1, KeyFacts DEF Processes, CurrentOf
    <3> QED BY <2>1, <3>1, <3>2
  <2>3. \A p \in Tasks : process'[p] = "live" /\ p \notin pids' => \E t \in cancelled' \ {p} : session'[t] = session'[p]
    BY <1>3, <1>6, <2>2
  <2> QED BY <1>6, <2>3 DEF Registered, Unregisters
<1>7. ASSUME Calm, NEW t \in Tasks, Leaves(t) PROVE Registered'
  <2>1. \A p \in Tasks : process'[p] = "live" /\ p \notin pids' => \E v \in cancelled' \ {p} : session'[v] = session'[p]
    BY <1>3, <1>7, LeavesDead
  <2> QED BY <1>7, <2>1 DEF Registered, Leaves
<1>8. CASE Calm /\ Exit
  <2>1. \A p \in Tasks : process[p] = "live" => p \notin pids \/ process'[p] # "live"
    BY <1>8 DEF Exit, Alive
  <2>2. \A p \in Tasks : process'[p] = "live" /\ p \notin pids' => \E t \in cancelled' \ {p} : session'[t] = session'[p]
    BY <1>3, <1>8, <2>1
  <2> QED BY <1>8, <2>2 DEF Registered, Exit
<1> QED BY <1>0, <1>4, <1>5, <1>6, <1>7, <1>8, PidCases

(***************************************************************************)
(* Theorems.                                                               *)
(***************************************************************************)

SessionsInv == ManagerInv /\ Processes /\ Generators /\ DyingInv /\ Registered

\* Manager, processes, suspended generators and registered pids at once.
THEOREM SessionsInvariant == SessionsSpec => []SessionsInv
<1>1. SessionsInit => SessionsInv
  <2>1. SessionsInit => DyingInv /\ Registered
    BY DEF SessionsInit, DyingInv, Registered
  <2> QED BY <2>1, ManagerInit, ProcessesInit, GeneratorsInit DEF SessionsInv
<1>2. SessionsInv /\ [SessionsNext]_sessionVars => SessionsInv'
  <2> SUFFICES ASSUME SessionsInv, [SessionsNext]_sessionVars PROVE SessionsInv'
    OBVIOUS
  <2>1. SessionsTypeOK /\ Lives /\ OneAtWork /\ Families /\ LockHeld
    BY DEF SessionsInv, ManagerInv
  <2> QED BY <2>1, ManagerStep, ProcessesStep, GeneratorsStep, DyingStep, RegisteredStep DEF SessionsInv
<1> QED BY <1>1, <1>2, PTL DEF SessionsSpec

\* When the program has ended no CLI runs on, save where two cancelled tasks
\* shared its session.
THEOREM NoSurvivorCorrect == SessionsSpec => []NoSurvivor
<1>1. ASSUME SessionsInv, app = "ended", NEW p \in Tasks, process[p] = "live"
      PROVE  \E t \in Tasks \ {p} : session[t] = session[p] /\ {t, p} \subseteq cancelled
  <2>1. p \in cancelled
    BY <1>1 DEF SessionsInv, Generators, Processes, ProcessOf, Early, AtIt
  <2>2. p \notin pids /\ cancelled \subseteq Tasks
    BY <1>1 DEF SessionsInv, Registered, ManagerInv, SessionsTypeOK
  <2>3. PICK t \in cancelled \ {p} : session[t] = session[p]
    BY <1>1, <2>2 DEF SessionsInv, Registered
  <2> QED BY <2>1, <2>2, <2>3
<1>2. SessionsInv => NoSurvivor
  BY <1>1 DEF NoSurvivor
<1> QED BY <1>2, SessionsInvariant, PTL
=============================================================================
