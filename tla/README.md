# Verification of the messaging bot and the provider proxy

The repository holds *free-claude-code*: a proxy that speaks the Anthropic API to clients and some other
protocol to model providers, and a Discord/Telegram bot that runs Claude CLI sessions through that proxy.
It also holds several unrelated demonstration applications. This directory models the parts of the
proxy and the bot whose correctness depends on the order in which things happen or on the state a
sequence of inputs leaves behind: conversations and their queues, their storage, the limits on calls, the CLI
processes, the streams sent to clients, the requests sent to providers, and the start and end of the program.
Everything is asyncio code on one event loop, except for the timer threads of the session store.

## 1. Inventory

### Parts, their state and their operations

| Part (source) | State | Operations | Hard behaviour | What makes it correct |
|---|---|---|---|---|
| Message tree (`messaging/trees/data.py`) | nodes, parents, node states, FIFO queue, busy flag, current node, current task | add, update, enqueue, dequeue, remove branch, cancel | every caller suspends between looking and acting | the tree stays a tree; the queue is never left without a server; a node settles once |
| Repository, processor, manager (`messaging/trees/queue_manager.py`) | the known trees, id to tree | create, reply, enqueue and start, process next, propagate errors, cancel node/branch/tree/all, remove, register, restore | cancelling a task in each of its phases; a task that outlives its tree | one worker per tree, FIFO, nothing forgotten, every node found by both of its ids |
| Handler, commands, event pipeline (`handler.py`, `commands.py`, `node_event_pipeline.py`, `event_parser.py`) | coroutines of messages and commands | message, reply, `/stop`, `/clear`, CLI events | the waits inside each handler | stopped messages stay stopped; failures stay failures |
| Session store (`messaging/session.py`) | trees, id index, message log; dirty flag; timer; the file | mutations, debounced save, flush, clear, load | timer threads that write outside the lock, failing writes, restarts | no change forgotten; cleared data stays cleared |
| Sliding window (`core/rate_limit.py`) | deque of acquisition times | acquire | boundary of the window | at most N acquisitions in a window |
| Provider limiter (`providers/rate_limit.py`, `error_mapping.py`) | window, blocked-until, semaphore | wait, block, retry with back-off, slot | state read before a sleep and used after it; many ways for a stream to end | the window and the slots hold; a block stops those who look |
| Streaming transports (`openai_compat.py`, `anthropic_messages.py`, `open_router/`) | one stream: open blocks, tool calls, parsers | relay, translate, fail, disconnect | errors in mid-stream; names and arguments in pieces | a well-formed event stream that keeps tool arguments |
| Block policy and emitted tracker (`core/anthropic/`) | index maps, open blocks | start, delta, stop, drop, close | upstreams that overlap blocks or forget starts | each block opened is closed once, hidden ones not at all |
| Think-tag and tool parsers (`core/anthropic/thinking.py`, `tools.py`) | buffer and mode | feed, flush | a tag cut anywhere | the chunk boundaries do not matter |
| Conversion and request bodies (`conversion.py`, `nvidia_nim/`, `deepseek/`) | blocks held back until tool results came; the body that was rejected | convert, retry downgraded, sanitize | results late, in any order, or never; histories that mix turns | the upstream is told all that was said, once, in order |
| HTTP API and web tools (`api/services.py`, `api/web_tools/`) | one request; one egress with its redirects | route, refuse, search, fetch | each hop is resolved again | only checked addresses are connected to; the answer is well-formed |
| Messaging limiter (`messaging/limiter.py`) | queue of keys, latest call per key, waiting futures, pause | enqueue with merging, worker, retry, shutdown | a retry of an old update after a newer one | newest update wins; every waiter answered |
| CLI sessions (`cli/manager.py`, `session.py`, `process_registry.py`) | sessions by real and temporary id, processes, pids | get or create, register, remove, stop all | removal against creation, shared sessions, shutdown | no session or process leaks |
| Transcript, status edits (`transcript.py`, `ui_updates.py`) | stack of open Task calls, segments, last text shown | apply, render, throttle | parallel Tasks with missing or rewritten ids | Claude's own words come back into view |
| Voice notes (`voice.py`, adapters) | pending notes | register, cancel, complete | `/clear` during transcription | a cancelled note is not handled |
| Runtime, registry (`api/runtime.py`, `providers/registry.py`) | owned resources, open providers | startup, shutdown, restore of trees, background refresh | order of steps that fail or run out of time | messages find the restored trees; nothing outlives the shutdown unnoticed |
| Rendering, configuration, smoke suite, other applications | none, or read-only | – | – | not behavioural |

`PROJECT.json` lists the same parts file by file, with those that are left out and why.

### How they interact

A platform adapter calls the **handler** for every message. The handler consults the **tree manager**, waits for
a status message to be sent (through the **messaging limiter**), then adds the node and enqueues it. The
**processor** starts one task per tree; the task obtains a **CLI session**, feeds its events through the
**pipeline** into the node's state and the **transcript**, and ends by starting the next message. Every visible
change is saved in the **session store**. The CLI calls back into the proxy's **HTTP API**, which answers web tools
itself or **converts** the request and opens a **stream** to a provider through the **provider limiter**.
Commands (`/stop`, `/clear`) run beside all of that and cancel tasks at any suspension. The **runtime** starts all of
it and takes it down, step by step, each step with a time limit.

## 2. Modules

| Module | Models | Notes |
|---|---|---|
| `MessageTreeQueue` | one conversation: tree, queue, tasks, commands | 23 kinds of step; variables are the attributes of `MessageTree` plus the place of every coroutine |
| `SerialQueue` | abstract: what a conversation promises | waiting, active, over |
| `QueueOps` | removal of ids from the queue (`_SnapshotQueue`) | |
| `TreePersistence` | trees in memory, in the store's index, in the file; restart and restore | timing is left to the two modules next to it |
| `SessionStore` | `SessionStore`'s way to disk | the content is a version number |
| `SlidingWindow` | `StrictSlidingWindowLimiter` | both a component and the abstract specification of the next one |
| `ProviderRateLimiter` | `GlobalRateLimiter` as the transports use it | extends `SlidingWindow` |
| `StreamContract`, `BlockStream` | the events of a response, the contract that the repository's tests check, and a client who receives them | abstract specification of the three streams below |
| `OpenAIStream` | `OpenAIChatTransport` over `SSEBuilder` and `ContentBlockManager` | `openaiClient` is the client of a `BlockStream` |
| `NativeStream` | `AnthropicMessagesTransport`, OpenRouter, block policy, emitted tracker | the same with `nativeClient` |
| `WebToolStream` | `create_message`, egress policy, DNS, redirects, the stream of the answer | the same with `webClient` |
| `ThinkTags`, `HeuristicTools` | the two text parsers | one character or token may be a chunk of its own |
| `OpenAIConversion` | `convert_messages` with what it holds back | |
| `NimRequest` | the first and second body sent to NVIDIA NIM | extends `OpenAIConversion`: sends what that made |
| `DeepSeekRequest` | `build_request_body` for DeepSeek | |
| `MessagingRateLimiter` | `MessagingRateLimiter` with the adapters' retries | |
| `CLISessions` | session manager, sessions, pid registry, the part of a task that uses them, shutdown | |
| `VoiceNotes` | pending notes, both adapters, `/clear` | |
| `Transcript` | `TranscriptBuffer` and the edits of the status message | |
| `AppLifecycle` | `AppRuntime`, provider registry, platform connection | |
| `MC...` | instances for TLC | symmetry sets, texts; `MCTasks` and `MCComponents` combine modules |
| `DataLemmas` | facts about data that the proofs share | induction, recursive functions, `Without`, `FlattenSeq`, counting |
| `MessageTreeQueueProofs` | proofs about conversations | |
| `ProviderRateLimiterProofs` | proofs about the sliding window and the provider limiter | |
| `SessionStoreProofs` | proofs about the session store | |
| `TaskProofs` | proofs about the messaging limiter, voice notes and CLI sessions | |
| `StreamProofs` | proofs about the three streams and the parser of think tags | |
| `ConversionProofs` | proofs about the conversion and the requests to DeepSeek and NVIDIA NIM | |
| `RuntimeProofs` | proofs about the life of the program, the stored trees and the transcript | |

**One action, one uninterrupted run.** asyncio switches coroutines only where one really suspends, and no
critical section of the tree lock, the manager lock, the window's lock or the limiter's condition suspends. So an
action is everything a coroutine does between two suspensions: for instance `TaskEnds` is the whole of
`process_node`'s `finally` (clear the current node, dequeue, create the next task), and `Enter` is taking the slot,
looking at the block, popping the deque and either calling or going to sleep. The lock of the CLI session manager *is*
held over waits and is a variable. In the session store the threads are real: an action is a critical section of its
lock, or the `os.replace` that ends a write. In the streams an action is what the code does with one item of the
upstream; the events it yields wait in a sequence and reach the client one by one, so that a disconnection can fall
between any two.

**`MessageTreeQueue`.** A message is a model value and has at most one task, so tasks are named by messages.
`task[n]` is `created` between `create_task` and the first step; a cancellation then makes it `doomed` and it
ends as `never`, because asyncio throws into a coroutine that has not started and its `finally` does not
run. `running` waits for CLI events, `unwinding` has a `CancelledError` on its way, `closing` is in
`remove_session`. `hasTree` are the tasks whose local variable `tree` is set, `captured` those that know their
session id: both decide which events change the node. `reply` holds a reply between the lookup of its parent
and its insertion; `clearing` and `clearingAll` hold a `/clear` between cancelling and removing, while chat
messages are deleted. `Exit(n, FALSE)` applies the error and then the complete that the parser makes of a
failed exit.

**`TreePersistence`.** Several trees, every node under two ids (its message's and its status message's), in three places:
`manager`/`inTree`/`index`, `stored`/`storedIndex`, `disk`. A restart reads the file back and marks what was unfinished
(`cleanup_stale_nodes`). `caught` is history: messages that arrived while a global `/clear` was deleting the chat.

**`SessionStore`.** `mem`, `disk` and the snapshots are numbers of changes, and a `clear_all` is a change like
any other. Each timer thread is `armed` (waiting), `fired` (past the one look at its cancellation), `saving`, or
off; the event loop's thread writes in `flush_pending_save` and `clear_all`. `latest`, `promised`, `failed` and
`raced` are history: they say what was promised and name the two ways the code knowingly or unknowingly
gives up on it.

**`ProviderRateLimiter`.** `pc[r]` says in which sleep or call a stream is: `queued` for a slot, `blocked`
in the reactive wait, `throttled` in the proactive one, `backoff` after a 429, `calling`, `streaming`, or
`failing` while the error events are sent. `unaware` is history: who was past the reactive check and
asleep when the present block was set. A stream's local variables are forgotten when it ends, which
changes nothing but the number of states.

**Streams.** A client is a record of what it keeps of the events: open blocks with their kinds, indexes seen, the last
event, how the response ended. `OpenAIStream`'s tool names are sequences of pieces and arguments a count of pieces, of
which only all together are valid JSON; that is what the special treatment of `Task` needs. `NativeStream`'s upstream may
overlap its blocks, omit starts of text and tool blocks, stop twice, and break off anywhere; it uses an index for one
block and stops what it started before `message_stop` (see section 7 for what happens otherwise).

**Requests.** A block is its kind, the id of the call it makes or answers, and its place in the client's conversation, so
"told once, in order" is a statement about places. `NimRequest` holds the complaint of the first answer and derives the
second body; `DeepSeekRequest` applies the passes of `build_request_body` in their order.

**`MessagingRateLimiter`.** Calls are numbered in the order they are asked for. `entry[k]` is the latest function
of a key with the futures of all who were merged into it; `hand` is what the worker took. The duration of a sleep is left
open, so what holds here holds for all durations. The window of the worker is `SlidingWindow`.

**`CLISessions`.** `lock` and `cliLock` are the two asyncio locks; `stop()` is split at its waits. `abandoned` are
tasks that left their generator suspended: Python closes it at some later time (`Collect`), and its `finally` then
unregisters the process the session object has *by then*. A task belongs to a conversation (`tree`, named by its first
task) and a reply starts only when every earlier task of that conversation is over or was cancelled, which is what
`MessageTreeQueue` guarantees and the sharing of sessions depends on; it resumes the id in the node of its parent
(`resumes`, from `recorded`, which a node gets when its session is registered or its CLI has completed). A reply to a
node without an id needs no session of its conversation, so it is modelled as the first task of another one, which
only adds behaviours.

**Composition.** `CLISessions`, `VoiceNotes`, `SessionStore` and `MessagingRateLimiter` share no variable in these modules, nor do the
eleven parts of `MCComponents`, but for `NimRequest`, which reads `OpenAIConversion`'s output. `MCTasks` and
`MCComponents` therefore run one part per behaviour (`part`), the others staying at one initial state: the states add up
instead of multiplying, and every property is checked over the whole instance of its own part.
`ProviderRateLimiter` EXTENDS `SlidingWindow` and `NimRequest` EXTENDS `OpenAIConversion`: these interact.

## 3. Runs

| Run | Checks | Bounds | Shows |
|---|---|---|---|
| `tree_safety` | `QueueServed` `PendingAccounted` `StallExplained` `TreeConnected` `NeverReprocessed` `StoppedNeverRuns` | 3 messages, all commands | whatever commands do, no message is lost track of or handled twice, and stalls have known causes |
| `tree_serial` | `OneWorker` `ParentFirst` `SerialSpec` | 4 messages, reply-scoped commands | a conversation implements the serial FIFO queue |
| `tree_liveness` | `EveryMessageServed` | 3 messages, global commands | every accepted message is dealt with |
| `provider_limiter` | `WindowRespected` `SlotsBalanced` `WindowSpec` `BlockHonoured` | 3 streams, 2 slots, 2 calls in 2 units, 1 retry, clock to 5 | window, slots and blocks hold through retries, errors and disconnections |
| `tasks` | limiter: `NobodyForgotten` `PauseHonoured` `StaleOnlyIfLate` `EventuallyAnswered`; sessions: `SessionsKnown` `NoSurvivor` `StopsOwn` `ShutdownEnds`; voice: `CancelledStays`; store: `ChangeTracked` `SavePending` `EventuallySaved` | 2 calls, 2 keys, 1 retry, 2 tries of the adapter; 2 tasks; 2 notes; 3 changes, 3 timer threads, failing writes, restarts | nobody waits for ever, no CLI outlives the program unnoticed, what was cancelled stays cancelled, no change is forgotten and the file settles |
| `components` | `OpenAIContract` `ArgumentsKept` `NativeContract` `WebContract` `OutboundPermitted` `PiecesDoNotMatter` `ToolTextParsed` `ToldFaithfully` `RetryKeepsConversation` `DeepSeekServed` `Recoverable` `GhostsExplained` `TranscriptReadable` `LifecycleOrdered` | below | well-formed streams that keep the conversation; stored trees can be replied to; start and end in order |
| `tree_overlap` | `NoOverlap` violated | | finding 1 |
| `tree_stall` | `BusyMeansProcessing` violated | | finding 2 |
| `tree_failed_completes` | `FailedNeverCompletes` violated | | finding 3 |
| `session_stale` | `ClearedStaysCleared` violated | | finding 4 |
| `provider_block` | `AllPaused` violated | | finding 5 |
| `tool_calls` | `EveryCallConverted` violated | two calls with a parameter each | finding 6 |

Type invariants are not among the runs' properties where they are proved (section 5). The largest runs are `tree_serial`
(724,000 states), `components` (591,000) and `tasks` (224,000).

**Bounds of the conversation and provider runs.** Three messages are a root and two replies: enough for one that
runs, one that waits and one that arrives while a command is half done, and for the second reply to hang on the first or
on the root. The serial run takes a fourth so that a queue of two can be reordered beside a running message. Several
conversations share nothing but `/stop` and `/clear` on their own, which act on each tree alike, so one tree is enough.
In the limiter the clock covers two windows and a whole exhausted block (3 units), so that every sleep ends within it;
`MaxTime` does nothing but stop the clock.

**Bounds of `tasks`.** Two calls with one key show a merge, a retry behind a later call and a future in the worker's hand
beside one in the queue; with two keys, the order of the queue. `MaxRetries = 1` distinguishes a retry from giving up,
and so does `PlatformTries = 2` for the adapter's loop. Two tasks are the one that owns a session and the one that forks
it, which is where sessions are shared; two notes, one that is cancelled while the other is transcribed.
Three timer threads are an old writer, a stale callback and a fresh timer at once, and one more is the event loop's; three
changes arm all of them (`MaxChanges` does nothing but stop the changes).

**Bounds of `components`.** Each names the case it admits.

| Part | Bounds | Enough for |
|---|---|---|
| `OpenAIStream` | `MaxItems = 3`, 2 tool calls, `Task` named in 2 pieces, `Whole = 2` pieces of arguments | text, then a call, then its rest or another call; a name or an argument that ends too early; a failure after each |
| `NativeStream` | `MaxEvents = 5`, 2 indexes, 4 kinds | two blocks that overlap with a delta of the older one after the newer began |
| `WebToolStream` | `MaxRedirects = 1`, `MaxBody = 3`, two public and one private address | a second hop that resolves elsewhere, a body at and over its limit |
| `ThinkTags` | all texts of 5 characters over an alphabet of 5, every division | a closing tag with one more character, an orphan of each tag, and every prefix of both |
| `HeuristicTools` | `MCTexts`: a whole call with one parameter, and a function between two words, with one or two tokens missing or added; two calls in a row with one token missing or added; a call whose parameter contains another, with one token added; every division; `Patience = 3` | tags cut anywhere, unfinished and repeated calls, control tokens and web calls in the midst of a call; a bullet the parser gives up on |
| `OpenAIConversion` | `MaxMessages = 3`, two `CallIds`, lists of one or two blocks and some of up to six | calls, then results in two messages or in the other order; results for unknown calls |
| `NimRequest` | `MaxMessages = 3`, `OwnExtras`, `MaxNamed = 2` complaints at once | two complaints of which one is acted on |
| `DeepSeekRequest` | `MaxTurns = 4` turns from `MCTurns`, whose blocks have the ids in `BlockIds` | two assistant turns with calls, with their results between them |
| `TreePersistence` | 2 messages, 1 restart | two trees, or one with a reply, before and after the restart |
| `Transcript` | 2 Tasks, 4 segments, lengths 3 and 30 against `Limit = 24` | Tasks nested and ending in either order; segments that fit, and one longer than a message |
| `AppLifecycle` | 2 providers, all platforms, `ConnectTries = 3` | a provider opened by the refresh beside one that is closed; a retry that succeeds or is the last |

Deadlock is not checked because each of these systems may come to rest: all messages handled, no change, all
streams ended, the program down.

**Fairness.** `tree_liveness`: the event loop runs ready coroutines (weak fairness of every task step and of the
second half of a handler), a platform call returns, and the CLI process exits in the end. The last is an assumption
about the CLI, not about this code, which sets it no time limit; without it a conversation may wait for ever, and so
may the real one. Nothing forces messages, commands or CLI errors to happen. `Fairness` of the store: timers fire, their
threads get the lock, a write ends with success or failure. Changes, clears, flushes and restarts are never forced.
`LimiterFairness`: new tasks start, pauses and back-offs end, the platform's client answers or fails (it has timeouts),
and the throttled worker finds room, because it alone takes from its window. `SessionsFairness`: the time limits of
`best_effort` and of `stop()` (SIGKILL after SIGTERM), the end of the loop, and a task's clean-up; the CLI is not assumed
to end by itself, and no task is assumed to go on. The provider limiter has no liveness property: it promises no order,
and a throttled stream can be overtaken by newcomers for as long as they come.

**Mutants.** Every property of a passing run has a definition in its module named after the mistake it
stands for (`TaskSkipStops`, `DisconnectLeaks`, `EnqueueForgets`, `CleanBesideRefresh`, ...): with that definition in
place of the real one the property fails under the same configuration.

## 4. Findings

1. **A global `/stop` lets two messages overlap** (`queue_manager.py:568`). `cancel_tree` marks the tree free while
   the task it cancelled is still stopping its CLI process; the next message starts beside it. Without global
   commands there is at most one task (`OneWorkerCorrect`, proved).
2. **A `/stop` that comes too early hangs the conversation** (`queue_manager.py:599`). If it cancels a task before its first
   step, `process_node`'s `finally` never runs and the tree stays busy. `StallExplained` shows that the only
   other way to stall is the removal of a branch whose id is still queued.
3. **A failed CLI run can end as COMPLETED** (`event_parser.py:173`). A non-zero exit is parsed into an error and then a
   complete; the complete wins once the session id is known.
4. **Cleared conversations can come back** (`session.py:149`). A timer thread that is writing when `clear_all` is called
   replaces the emptied file afterwards. The same race leaves an ordinary change unsaved; `ChangeTracked` shows that
   there is no other way to lose one.
5. **A 429 does not pause all requests** (`providers/rate_limit.py:144`). The block is looked at once, before the sleep in the
   proactive limiter. `BlockHonoured` says who may slip through: the streams already asleep then, once each.

6. **Two calls in one piece of text become one** (`core/anthropic/tools.py:143`). The loop that takes a call's parameters
   searches the whole buffer: when the next call is there already, its bullet and function are handed out as text and its
   parameter goes to the first call. `ToolTextParsed` shows that a call that is not inside a parameter is missed in this
   way only, and only where a parameter begins after it.

**Exceptions the properties name.** Where the code does not do what one would wish, and no text of the repository says
otherwise, the property states the exception and shows that it is the only one:

- a message that arrives while a global `/clear` deletes the chat brings its tree back into the store (`GhostsExplained`);
- the clean-up of a task that shares a session, where one of the two was cancelled, unregisters, or stops, the other's
  process; that happens within one conversation only (`NoSurvivor`, `StopsOwn`);
- an older text replaces a newer one on the screen after a retry, through the task that starts a task
  (`way = "relay"`), or behind a call that was awaited directly (`StaleOnlyIfLate`);
- callers of the messaging limiter are not answered after its shutdown (`EventuallyAnswered`);
- a tool name that grows into `Task` after its block was opened loses arguments (`ArgumentsKept`);
- the second body for NIM merges a user message into the last of several tool results only, so a model that refuses a
  user message after a result refuses it again (`RetryKeepsConversation`);
- text that the tool parser holds when the stream ends, after a lone bullet, a `<|` or an unfinished parameter, is lost, and
  so is all that stands around a web call; a whole call inside another's parameter is part of it (`ToolTextParsed`);
- a tool result beyond those asked for makes the conversion tell held-back text twice (`ToldFaithfully`);
- a thinking block in any message of a DeepSeek request keeps thinking enabled though other calls have lost theirs
  (`DeepSeekServed`);
- a Telegram application that started and never came to poll, a platform that took too long to stop, and providers
  that a clean-up which ran out of time had not reached, are left open (`LifecycleOrdered`).

## 5. What is proved

TLAPS checks these for every value of the constants that satisfies the assumptions named in the modules
(`NodeAssumption`, `CommandAssumption`, `WindowAssumption`, `ProviderAssumption`, `StoreAssumption`,
`LimiterAssumption`, `SessionAssumption`, `WebAssumption`, `NativeAssumption`, `OpenAIAssumption`, `LifecycleAssumption`,
`PersistenceAssumption`, `TranscriptAssumption`, `TagAssumption`, `MessagesAssumption`, `ExtrasAssumption`,
`TurnsAssumption`, `TextsAssumption`). They say what the constructors enforce, that numbers are natural, that tasks and messages are numbered
1 to n, and that sets are finite where a cardinality is taken. `TagAssumption` says how the two think tags begin and
where that character is. `MessagesAssumption` and `TurnsAssumption` say what the client's protocol promises of a message:
a string is text, the model calls tools and thinks, the user returns results. `TextsAssumption` says that texts are sequences
of the tokens and that the parser waits for more than a bullet and the beginning of a function.

Induction over data cannot be cited from the library, whose theorems take a predicate. `DataLemmas` states it with a *set* in
the predicate's place: a set of naturals, or of sequences, that holds the first and with each element the next holds all
(`Induction`, `SequencesFromTheEnd`), from the library's proof that `<` on the naturals is well founded. From it follow that
recursively defined functions exist (`Iteration`, `Recursion`), which a recursive definition in TLA+ does not guarantee,
and what the model's and the community modules' operators compute: `Without` keeps the order of what it leaves,
`FlattenSeq` joins, `Times` adds up.

- **Conversations.** `TypeCorrect`; `QueueServedCorrect`, `PendingAccountedCorrect`, `StallExplainedCorrect`,
  `TreeConnectedCorrect`, `NeverReprocessedCorrect`, `StoppedNeverRunsCorrect` under every command; `OneWorkerCorrect`,
  `ParentFirstCorrect` and the refinement `ImplementsSerial` when no command stops a whole tree. The properties are not
  inductive alone. The strengthening follows the life of a message: its place (not yet arrived, in the queue, with a task,
  over) determines whether it is in the tree and where it is queued, ids in the queue are distinct and have no task
  (`LifeInv`); a busy tree has a current node, and the current task is its task or a dead one (`BusyInv`); without
  tree-wide commands the live task, if any, is the current node's (`OneWorkerInv`), and the parent of an accepted message
  was accepted before it and is over once the message has its turn (`ParentInv`). Each action has one lemma that says what
  it does to the queue, the live tasks and the states, and one step in each invariant's proof. For `ImplementsSerial` an
  arriving message maps to `Accept` or `Refuse`, the end of a task to `Advance`, a command to `Withdraw`, all else to a
  stutter. What removing ids does to a queue, to its members, their distinctness and their order, is in `DataLemmas`.
- **Sliding window.** `WindowCorrect`: the deque is always the end of the history of acquisitions, and everything
  before it is a window old (`WindowInv`); so the acquisition that is `Limit` before a new one has been popped.
- **Provider limiter.** `ImplementsWindow`: each of its steps is a step of the window or leaves it alone; hence
  `CallsRespectWindow`. `SlotsCorrect` counts the streams that hold a slot and needs the types
  (`ProviderTypeCorrect`), which need `AttemptsLeft` (a stream backs off only with attempts left).
  `BlockHonouredCorrect` rests on `AwareInv`: a stream that is not in `unaware` sleeps to the end of the block at least, or
  was throttled after it.
- **Session store.** `ChangeTrackedCorrect`, `SavePendingCorrect`, `StoreTypeCorrect`: the invariant adds that no
  snapshot being written is newer than memory (`SnapshotsOld`), so a write that makes the file differ from memory again
  is exactly a race.
- **Messaging limiter.** `LimiterTypeCorrect`, `NobodyForgottenCorrect`, `PauseHonouredCorrect`,
  `StaleOnlyIfLateCorrect`. The invariant (`LimiterInv`) adds that the futures of an entry were asked for under its key, in
  the queue (`EntriesOwn`) and in the worker's hand (`HandOwn`); that a call whose task is starting or backs off is in
  neither (`NotYet`), so that entering the queue cannot put a future in two places; and that the worker waits for its
  window only when there is no pause. For the order of texts there is a second one (`OrderInv`): tasks of
  fire-and-forgets start in the order in which they were created (`NewTasks`), so of two calls the earlier enters the queue first
  unless it is relayed or the later one is awaited (`EnteredFirst`); and once the later one has been taken or shown, the
  earlier one is neither in the queue nor in the hand unless it is retried (`NoReturn`).
- **Voice notes.** `CancelledStaysCorrect` and `PendingPairedCorrect`, on both platforms: the invariant (`VoiceInv`)
  adds that the two keys of a note come and go together and that a note the user was told of is out of the registry.
- **CLI sessions.** `SessionsKnownCorrect`, `StopsOwnCorrect`, `NoSurvivorCorrect` (`SessionsInvariant`), for any number of
  tasks. What the manager has (`ManagerInv`) depends on the conversations: one task of each is at work (`OneAtWork`), so no two
  tasks register under one id, and ids and sessions stay in their conversation (`Families`), so no task removes those of
  another. Between the pop of a session and the end of its process the index and the dictionaries disagree (`IndexInv`);
  the lock, which is held all that time (`LockHeld`), keeps others from looking. That every process is told to stop rests
  on the generators: a task whose process runs holds the lock of its session (`Generators`), so only a cancelled task that
  shared the session can have unregistered it (`Registered`), and whoever is stopped under the manager's lock has had its
  signal and is cancelled or still the session's current process (`DyingInv`).
- **Streams.** `OpenAIContractCorrect`, `NativeContractCorrect` and `WebContractCorrect`: what the client receives
  implements `BlockStream`, for every number of blocks, tools, items and redirects. The events on their way are a
  sequence, so the invariants (`OpenAIInv`, `NativeInv`, `WebStreamInv`) say of it: received one after another each event is
  legal, and then the client has open the blocks that the producer has (`Can`). A yielded event extends such a sequence and
  a received one shortens it; the blocks an error tail closes, in whatever order, are a lemma of their own.
  `NativeInv` adds how the policy's indexes relate to the upstream's (`PolicyOK`, `OpenAs`). `ArgumentsKeptCorrect` needs to
  know of every tool call, while the stream is read, how many pieces came and were sent or held (`AllKept`).
  `OutboundPermittedCorrect`: from the check of a host to the connection, the addresses are those that were checked
  (`WebOutboundInv`).
- **Think tags.** `PiecesDoNotMatterHolds`: for all texts, divisions and tags as assumed. What one should read is a
  function defined by recursion on the text (`Meaning`), so first that function is shown to exist. The invariant
  (`ThinkInv`) is the property for everything that may still come: what was handed out, followed by what one reads of the
  buffer and any continuation `x`, is what one reads of all that was fed and `x`; and the buffer is stuck (`Stuck`), it
  cannot be decided without more. Induction on the text shows that the parser decides only what no continuation can change.
- **Tool parser.** `ToolTextParsedHolds`, for all texts, all divisions and any `Patience`. The invariant (`HeuristicInv`)
  holds of the parser between two pieces and inside its loops (`ParserInv`): what was handed out is in order and comes
  before what is in the buffer (`Ordered`). If the tags of a text are whole and it has no control token and no web call
  (`Plain`), the buffer is all that was fed after some place (`Contiguous`), and each whole function before that place is
  one call, or text because of a parameter further on, or in a parameter (`CallsInv`). If moreover every bullet and tag is
  part of a whole function or parameter (`Neat`), no text was dropped (`TextInv`). Every branch of a turn keeps this
  (`Kept...`), so by induction the inner loop over parameters does, and the outer one; a measure of buffer and mode
  (`Turns`) shows that the turns the model gives the outer loop suffice, and then the buffer has nothing that its mode could
  take (`AtRest`), so `flush` drops no function that is whole.
- **DeepSeek.** `DeepSeekServedHolds` for every conversation and every setting. The builder removes blocks and changes
  others, one pass after another. The core of a message (its texts, calls and results) is an image of what is left when
  other blocks are removed; removing twice is removing once, and removal and change commute (`WithoutTwice`,
  `ImageTwice`), so each pass leaves the core alone. `DeepSeekInv` says that the body is the outcome of the passes.
- **Conversion.** `ToldFaithfullyHolds` for every conversation and every mode, in two parts. `LostInv`: a text or
  result is counted in what is told and what is held back together (`Total`); a message adds each of its own once, and
  what was held back a second time only if a user answers a call that was answered already. `OrderInv`: while every message
  answers the calls of the one before, what is told is what the messages give, one after the other (`AllGiven`), and
  what is held back is what the last of them said after its first call (`SaidIn`). Both go through a user's list block by
  block, by induction, as the code's loop does (`FoldWell`, `FoldOrder`).
- **NVIDIA NIM.** `RetryKeepsConversationHolds` for every set of complaints: the last body is the first one or what its
  downgrade makes of it (`NimInv`), and each downgrade removes what it is for. The hard one is the merge of tool results into
  user messages: by induction on the conversation (`RemadeIsWell`) it moves what it merges and loses nothing, and a
  user message after a result is left only where several results came before it.
- **Persistence.** `RecoverableCorrect` and `GhostsExplainedCorrect` from `PersistInv`: the trees in memory are formed as
  the messages say (`TreesFormed`), a node that waits is of this run and its tree is in the manager or was missed by a global
  `/clear` (`AliveKnown`), and the index agrees with the trees in the store and, separately, in the file (`Indexed`): the
  file becomes the store at a restart.
- **Transcript.** `TranscriptReadableCorrect` from `TranscriptInv`: with usable ids the stack holds unanswered calls in
  their order (`StackNamed`), otherwise no more entries than there are unanswered calls (`StackCounted`), and in both cases
  exactly those while no result was taken for another's, so when all Tasks are over it is empty.
- **Life of the program.** `LifecycleOrderedCorrect`: the link to the platform follows the step of the runtime
  (`LinkFollowsStep`), which is why the handler is there only after the restore, and providers that are open while the
  registry closes them are those still on its list (`ClosingAll`), because the refresh is over by then.

Every safety property that a passing run checks is the property of one of these theorems. Only model-checked are the
liveness properties (`EveryMessageServed`, `EventuallySaved`, `EventuallyAnswered`, `ShutdownEnds`), which need reasoning
about fairness and ENABLED that the prover does not support.

## 6. What is not modelled

Not at all: **rendering** (regular expressions and tables without state), **configuration** (read once), the **smoke suite
and scripts**, and the **other applications** in the repository, which share no code with the proxy.

Of the modelled parts:

- texts, layout, the wording of errors and status messages, and which chat messages `/clear` deletes;
- the chat's message log with its cap, counts and statistics;
- the replacement of a provider limiter whose configuration changed while streams of the old one run; the FIFO order of
  the semaphore (any waiter may be next, which only adds behaviours); early wake-ups by less than the clock's resolution;
- HTTP clients, headers, addresses, token counts and estimates, JSON formatting;
- the filter of earlier turns' thinking in the native adapters; Kimi and Azure, which send the plain conversion; tools,
  `tool_choice` and system prompts, which are mapped field by field;
- the parsers of search results and HTML; the canned answers' texts; model lists and the catalogue;
- the command line of the CLI; the partial (delta) events that this CLI is not asked for;
- which users and chats are allowed, and how messages are built.

External, modelled from how the code calls them: python-telegram-bot and discord.py, uvicorn's lifespan, the CLI process,
transcription, DNS and HTTP servers, the upstream providers.

## 7. Observed beside the models

Behaviours met while modelling that no run is about, because an upstream or a client has to break its own protocol
first, or because they are visible in the code without a model:

- `native_sse_block_policy.py`: an upstream that starts a second block at an index without stopping the first, or ends
  without stopping a block, passes a block that is never closed; an error after `message_stop` sends a second tail.
- `nvidia_nim/request.py:219`: the assistant message before the first merged result keeps its `tool_calls`, and every
  later one loses them whether its results are merged or not; the docstring (lines 184–187) says they are removed from the
  one that precedes a merged result.
- `conversion.py`: a `document` block of a user is dropped silently, while an image is refused.
- `api/services.py`: a server tool that is forced but not listed by its name reaches an upstream that speaks OpenAI chat.
- `telegram.py`: handlers run one after the other, so a `/clear` cannot reach a note while it is being transcribed; a
  failed transcription leaves the note's two registry entries; a retry after `start_polling` failed cannot succeed,
  because the application runs already. `discord.py`: a start that times out leaves the client's task running.

- `core/anthropic/tools.py:132`: a bullet whose function's name makes the buffer longer than 100 characters is given up as text
  though the function may be whole one piece later; `Patience` stands for that length, counted in tokens.

## 8. Plan

Done, in this order: conversations with `SerialQueue`; the windows and limiters; the store; the messaging limiter, CLI
sessions and voice notes; the streams with `BlockStream`; parsers, conversion and request bodies; persistence and restart;
transcript; life of the program; and the proofs of every safety property. What is left:

1. Re-scoping of the provider limiter, with streams of both scopes at once.
2. `native_messages_request.py`: the thinking of earlier turns block by block, beside `DeepSeekRequest`.
3. `TreePersistence` composed with `SessionStore`, so that what a restart reads is a snapshot of its timers.
