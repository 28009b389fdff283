------------------------ MODULE ProviderRateLimiter ------------------------
(***************************************************************************)
(* GlobalRateLimiter (src/providers/rate_limit.py) as the two streaming    *)
(* transports use it (src/providers/openai_compat.py,                      *)
(* src/providers/anthropic_messages.py): a stream holds a concurrency slot *)
(* for its whole life; every attempt to open the upstream stream waits for *)
(* the end of a reactive block, then for a place in the sliding window; a  *)
(* 429 blocks everybody and is retried after a delay; an exhausted retry   *)
(* is mapped to an error that blocks everybody for longer.                 *)
(*                                                                         *)
(* Everything runs on one event loop: a coroutine runs until it really     *)
(* suspends, so what it does between two suspensions is one action.  The   *)
(* semaphore's FIFO order is abstracted to "some waiter".                  *)
(***************************************************************************)
EXTENDS SlidingWindow, FiniteSets

CONSTANTS Requests,        \* the streams the API opens
          Slots,           \* max_concurrency
          MaxRetries,      \* max_retries
          BaseDelay, MaxDelay, Jitter,
          ExhaustedBlock   \* seconds map_error blocks for after the last 429

ASSUME ProviderAssumption ==
    /\ IsFiniteSet(Requests)
    /\ Slots \in Nat \ {0}
    /\ {MaxRetries, BaseDelay, MaxDelay, Jitter, ExhaustedBlock} \subseteq Nat

VARIABLES pc,            \* where each stream is
          attempt,       \* the loop variable of execute_with_retry
          altered,       \* the requests sent again in a changed form
          wake,          \* when the sleep a stream is in ends
          free,          \* the semaphore's value
          blockedUntil,  \* _blocked_until
          unaware        \* history: the streams that were past the reactive
                         \* check when the current block was set

vars == <<windowVars, pc, attempt, altered, wake, free, blockedUntil, unaware>>

Asleep  == {"blocked", "throttled", "backoff"}
Holding == {"calling", "streaming", "failing"} \union Asleep
Control == {"idle", "queued", "done"} \union Holding

TypeOK == /\ WindowTypeOK
          /\ pc \in [Requests -> Control]
          /\ attempt \in [Requests -> 0..MaxRetries]
          /\ altered \subseteq Requests
          /\ wake \in [Requests -> Nat]
          /\ free \in 0..Slots
          /\ blockedUntil \in Nat
          /\ unaware \subseteq Requests

Init == /\ WindowInit
        /\ pc = [r \in Requests |-> "idle"]
        /\ attempt = [r \in Requests |-> 0]
        /\ altered = {}
        /\ wake = [r \in Requests |-> 0]
        /\ free = Slots
        /\ blockedUntil = 0
        /\ unaware = {}

SleepUntil(r, where, t) == /\ pc' = [pc EXCEPT ![r] = where]
                           /\ wake' = [wake EXCEPT ![r] = t]

GoTo(r, where) == SleepUntil(r, where, 0)

\* The coroutine is over, and its local variables with it.
End(r) == /\ GoTo(r, "done")
          /\ attempt' = [attempt EXCEPT ![r] = 0]
          /\ altered' = altered \ {r}

\* min(base_delay * 2 ** attempt, max_delay) plus a random jitter.
Delays(a) == LET full == IF BaseDelay * 2^a < MaxDelay THEN BaseDelay * 2^a ELSE MaxDelay
             IN  {d \in 0..(MaxDelay + Jitter) : full <= d /\ d <= full + Jitter}

\* One pass of the limiter's loop: the call starts, or the stream sleeps.
AcquireProactiveSlot(r) ==
    /\ \/ Grant /\ GoTo(r, "calling")
       \/ Throttle /\ SleepUntil(r, "throttled", WakeTime')
    /\ UNCHANGED <<blockedUntil, unaware>>

\* wait_if_blocked up to its first suspension.
WaitIfBlocked(r) ==
    \/ /\ now < blockedUntil
       /\ SleepUntil(r, "blocked", blockedUntil)
       /\ UNCHANGED <<windowVars, blockedUntil, unaware>>
    \/ now >= blockedUntil /\ AcquireProactiveSlot(r)

SetBlocked(seconds) ==
    /\ blockedUntil' = now + seconds
    /\ unaware' = {r \in Requests : pc[r] \in {"blocked", "throttled"}}

\* A new stream finds the slots taken.
WaitForSlot(r) == /\ pc[r] = "idle" /\ free = 0
                  /\ GoTo(r, "queued")
                  /\ UNCHANGED <<windowVars, attempt, altered, free, blockedUntil, unaware>>

\* A stream gets its slot and begins its first attempt.
Enter(r) == /\ pc[r] \in {"idle", "queued"} /\ free > 0
            /\ free' = free - 1
            /\ WaitIfBlocked(r)
            /\ UNCHANGED <<attempt, altered>>

\* The sleep of wait_if_blocked ends: it goes on to the proactive limiter.
WakeFromBlock(r) == /\ pc[r] = "blocked" /\ now >= wake[r]
                    /\ AcquireProactiveSlot(r)
                    /\ UNCHANGED <<attempt, altered, free>>

\* Mutant: the stream takes its place without looking at the window again.
WakeFromThrottleTrusting(r) == /\ pc[r] = "throttled" /\ now >= wake[r]
                               /\ times' = Append(times, now)
                               /\ granted' = Append(granted, now)
                               /\ GoTo(r, "calling")
                               /\ UNCHANGED <<now, attempt, altered, free, blockedUntil, unaware>>

\* The sleep inside acquire() ends: it tries again.
WakeFromThrottle(r) == /\ pc[r] = "throttled" /\ now >= wake[r]
                       /\ AcquireProactiveSlot(r)
                       /\ UNCHANGED <<attempt, altered, free>>

\* Mutant: the next attempt skips the reactive check.
WakeFromBackoffUnchecked(r) == /\ pc[r] = "backoff" /\ now >= wake[r]
                               /\ attempt' = [attempt EXCEPT ![r] = @ + 1]
                               /\ AcquireProactiveSlot(r)
                               /\ UNCHANGED <<altered, free>>

\* The delay after a 429 ends: the next attempt begins.
WakeFromBackoff(r) == /\ pc[r] = "backoff" /\ now >= wake[r]
                      /\ attempt' = [attempt EXCEPT ![r] = @ + 1]
                      /\ WaitIfBlocked(r)
                      /\ UNCHANGED <<altered, free>>

\* The upstream answers with a stream.
Opened(r) == /\ pc[r] = "calling"
             /\ GoTo(r, "streaming")
             /\ UNCHANGED <<windowVars, attempt, altered, free, blockedUntil, unaware>>

\* The upstream answers 429 and attempts are left.
RateLimited(r) ==
    /\ pc[r] = "calling" /\ attempt[r] < MaxRetries
    /\ \E delay \in Delays(attempt[r]) :
           SetBlocked(delay) /\ SleepUntil(r, "backoff", now + delay)
    /\ UNCHANGED <<windowVars, attempt, altered, free>>

\* The last attempt is answered 429: map_error blocks and the error is sent.
RetriesExhausted(r) ==
    /\ pc[r] = "calling" /\ attempt[r] = MaxRetries
    /\ SetBlocked(ExhaustedBlock)
    /\ GoTo(r, "failing")
    /\ UNCHANGED <<windowVars, attempt, altered, free>>

\* Any other error of the call or of the open stream: the error is sent while
\* the slot is held.
Fails(r) == /\ pc[r] \in {"calling", "streaming"}
            /\ GoTo(r, "failing")
            /\ UNCHANGED <<windowVars, attempt, altered, free, blockedUntil, unaware>>

\* A rejected request is sent once more in a changed form
\* (_get_retry_request_body): a second execute_with_retry.
RetryWithOtherBody(r) == /\ pc[r] = "calling" /\ r \notin altered
                         /\ altered' = altered \union {r}
                         /\ attempt' = [attempt EXCEPT ![r] = 0]
                         /\ WaitIfBlocked(r)
                         /\ UNCHANGED free

\* The stream or its error is sent to the end: the slot is released.
Finish(r) == /\ pc[r] \in {"streaming", "failing"}
             /\ End(r)
             /\ free' = free + 1
             /\ UNCHANGED <<windowVars, blockedUntil, unaware>>

\* Mutant: the slot of a stream whose client goes away is not released.
DisconnectLeaks(r) ==
    /\ pc[r] \in {"queued"} \union Holding
    /\ End(r)
    /\ UNCHANGED <<windowVars, free, blockedUntil, unaware>>

\* The client goes away: CancelledError or GeneratorExit at the suspension.
Disconnect(r) ==
    /\ pc[r] \in {"queued"} \union Holding
    /\ End(r)
    /\ free' = IF pc[r] \in Holding THEN free + 1 ELSE free
    /\ UNCHANGED <<windowVars, blockedUntil, unaware>>

Time == Tick /\ UNCHANGED <<pc, attempt, altered, wake, free, blockedUntil, unaware>>

Next == \/ Time
        \/ \E r \in Requests :
              \/ WaitForSlot(r) \/ Enter(r)
              \/ WakeFromBlock(r) \/ WakeFromThrottle(r) \/ WakeFromBackoff(r)
              \/ Opened(r) \/ RateLimited(r) \/ RetriesExhausted(r) \/ Fails(r)
              \/ RetryWithOtherBody(r) \/ Finish(r) \/ Disconnect(r)

Spec == Init /\ [][Next]_vars

-----------------------------------------------------------------------------

\* A slot is held by exactly the streams between their entry and their end,
\* however they end (concurrency_slot's finally): no slot leaks, and never more
\* than Slots streams are open upstream.
SlotsBalanced == free = Slots - Cardinality({r \in Requests : pc[r] \in Holding})

\* Who may call the upstream during a reactive block: only a stream that was
\* already past the check of wait_if_blocked, and asleep, when the block was set.
\* A stream that arrives or retries later waits for the end of the block.
BlockHonoured ==
    [][(granted' # granted /\ now < blockedUntil)
          => \E r \in unaware : pc[r] \in {"blocked", "throttled"} /\ pc'[r] = "calling"]_vars

\* What the class promises ("pauses all requests when a 429 is hit"): no call
\* starts during a reactive block.  The code does not look at the block again
\* after the sleeps of wait_if_blocked.
AllPaused == [][granted' # granted => now >= blockedUntil]_vars

=============================================================================
