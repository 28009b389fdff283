--------------------------- MODULE SlidingWindow ---------------------------
(***************************************************************************)
(* StrictSlidingWindowLimiter (src/core/rate_limit.py): the deque of the   *)
(* last acquisition times behind every provider request and every          *)
(* messaging call.  acquire() runs without suspending between reading the  *)
(* clock and either appending to the deque or choosing how long to sleep   *)
(* (its asyncio.Lock is never held over an await), so one pass of its loop *)
(* is one action.  The callers that pass through it are the business of    *)
(* the modules that extend this one.                                       *)
(*                                                                         *)
(* granted is a history variable: the time of every acquisition so far.    *)
(***************************************************************************)
EXTENDS Integers, Sequences

CONSTANTS Limit,      \* rate_limit: acquisitions per window
          Window,     \* rate_window, in clock units
          MaxTime     \* bound on the clock, for model checking only

\* The constructor raises ValueError for anything else.
ASSUME WindowAssumption == /\ Limit \in Nat \ {0}
                           /\ Window \in Nat \ {0}
                           /\ MaxTime \in Nat

VARIABLES now,        \* time.monotonic()
          times,      \* _times
          granted

windowVars == <<now, times, granted>>

WindowTypeOK == /\ now \in Nat
                /\ times \in Seq(Nat)
                /\ granted \in Seq(Nat)

WindowInit == now = 0 /\ times = <<>> /\ granted = <<>>

\* The popleft loop removes the first n times: all of them are out of the
\* window, and it stopped at one that is not.
Expired(n) == /\ \A i \in 1..n : times[i] <= now - Window
              /\ n < Len(times) => times[n + 1] > now - Window

Kept(n) == SubSeq(times, n + 1, Len(times))

\* Mutant: the window is full one acquisition too late.
GrantOneMore == /\ \E n \in 0..Len(times) :
                       /\ Expired(n)
                       /\ Len(Kept(n)) <= Limit
                       /\ times' = Append(Kept(n), now)
                /\ granted' = Append(granted, now)
                /\ UNCHANGED now

\* acquire() finds room and returns.
Grant == /\ \E n \in 0..Len(times) :
                /\ Expired(n)
                /\ Len(Kept(n)) < Limit
                /\ times' = Append(Kept(n), now)
         /\ granted' = Append(granted, now)
         /\ UNCHANGED now

\* acquire() finds the window full; the caller sleeps until WakeTime'.
Throttle == /\ \E n \in 0..Len(times) :
                   /\ Expired(n)
                   /\ Len(Kept(n)) >= Limit
                   /\ times' = Kept(n)
            /\ UNCHANGED <<now, granted>>

\* The oldest acquisition leaves the window.
WakeTime == times[1] + Window

Tick == /\ now < MaxTime
        /\ now' = now + 1
        /\ UNCHANGED <<times, granted>>

WindowNext == Grant \/ Throttle \/ Tick

WindowSpec == WindowInit /\ [][WindowNext]_windowVars

-----------------------------------------------------------------------------

\* What the class promises ("at most rate_limit acquisitions in any interval of
\* length rate_window"): any acquisition and the Limit-th one after it are at
\* least a window apart.
WindowRespected ==
    \A i \in 1..Len(granted) :
        i + Limit <= Len(granted) => granted[i + Limit] - granted[i] >= Window

=============================================================================
