--------------------- MODULE ProviderRateLimiterProofs ---------------------
(***************************************************************************)
(* The sliding window grants at most Limit acquisitions in any window, for *)
(* every limit and window; the provider limiter implements it, balances    *)
(* its slots, and lets only streams that were already asleep call during a *)
(* block, for any number of streams, slots, retries and any delays.        *)
(*                                                                         *)
(* The deque of the window is always the end of the history of             *)
(* acquisitions, and whatever was popped from it is a window old: that is  *)
(* the inductive invariant, and a new acquisition meets the Limit-th one   *)
(* before it among the popped ones.                                        *)
(***************************************************************************)
EXTENDS ProviderRateLimiter, TLAPS, SequenceTheorems, FiniteSetTheorems

\* The length of the history that is no longer in the deque.
Gone == Len(granted) - Len(times)

WindowInv ==
    /\ WindowTypeOK
    /\ Len(times) <= Len(granted)
    /\ \A i \in 1..Len(times) : times[i] = granted[Gone + i]
    /\ \A i \in 1..Len(granted) : granted[i] <= now
    /\ \A i \in 1..Len(granted) : i <= Gone => granted[i] <= now - Window
    /\ WindowRespected

\* Dropping the first n elements of a sequence of times.
LEMMA KeptFacts ==
    ASSUME times \in Seq(Nat), NEW n \in 0..Len(times)
    PROVE  /\ Kept(n) \in Seq(Nat)
           /\ Len(Kept(n)) = Len(times) - n
           /\ \A i \in 1..Len(times) - n : Kept(n)[i] = times[n + i]
<1>1. Len(times) \in Nat /\ n + 1 \in Int /\ Len(times) \in Int
    BY LenProperties
<1>2. \A i \in (n + 1)..Len(times) : times[i] \in Nat
    BY <1>1, ElementOfSeq
<1>3. /\ SubSeq(times, n + 1, Len(times)) \in Seq(Nat)
      /\ Len(SubSeq(times, n + 1, Len(times)))
           = IF n + 1 <= Len(times) THEN Len(times) - (n + 1) + 1 ELSE 0
      /\ \A i \in 1..(Len(times) - (n + 1) + 1) :
             SubSeq(times, n + 1, Len(times))[i] = times[n + 1 + i - 1]
    BY <1>1, <1>2, SubSeqProperties
<1>4. QED
    BY <1>1, <1>3 DEF Kept

\* Appending a time at the end of a sequence of times.
LEMMA AppendFacts ==
    ASSUME NEW s \in Seq(Nat), NEW t \in Nat
    PROVE  /\ Append(s, t) \in Seq(Nat)
           /\ Len(Append(s, t)) = Len(s) + 1
           /\ \A i \in 1..Len(s) : Append(s, t)[i] = s[i]
           /\ Append(s, t)[Len(s) + 1] = t
    OBVIOUS

\* The deque after the popleft loop still satisfies the invariant.
LEMMA PoppedFacts ==
    ASSUME WindowInv, NEW n \in 0..Len(times), Expired(n)
    PROVE  /\ Len(Kept(n)) = Len(times) - n
           /\ Len(Kept(n)) <= Len(granted)
           /\ \A i \in 1..Len(Kept(n)) : Kept(n)[i] = granted[Len(granted) - Len(Kept(n)) + i]
           /\ \A i \in 1..Len(granted) : i <= Len(granted) - Len(Kept(n)) => granted[i] <= now - Window
<1>1. times \in Seq(Nat) /\ granted \in Seq(Nat) /\ Len(times) \in Nat /\ Len(granted) \in Nat
    BY LenProperties DEF WindowInv, WindowTypeOK
<1>2. /\ Len(Kept(n)) = Len(times) - n
      /\ \A i \in 1..Len(times) - n : Kept(n)[i] = times[n + i]
    BY <1>1, KeptFacts
<1>3. \A i \in 1..Len(Kept(n)) : Kept(n)[i] = granted[Len(granted) - Len(Kept(n)) + i]
    <2> TAKE i \in 1..Len(Kept(n))
    <2>1. n + i \in 1..Len(times)
        BY <1>1, <1>2
    <2>2. times[n + i] = granted[Gone + (n + i)]
        BY <2>1 DEF WindowInv
    <2>3. Gone + (n + i) = Len(granted) - Len(Kept(n)) + i
        BY <1>1, <1>2 DEF Gone
    <2>4. QED
        BY <1>1, <1>2, <2>2, <2>3
<1>4. \A i \in 1..Len(granted) : i <= Len(granted) - Len(Kept(n)) => granted[i] <= now - Window
    <2> SUFFICES ASSUME NEW i \in 1..Len(granted), i <= Len(granted) - Len(Kept(n))
                 PROVE  granted[i] <= now - Window
        OBVIOUS
    <2>1. CASE i <= Gone
        BY <2>1 DEF WindowInv
    <2>2. CASE ~(i <= Gone)
        <3>1. Gone \in Int /\ i - Gone \in 1..n /\ i - Gone \in 1..Len(times)
            BY <1>1, <1>2, <2>2 DEF Gone, WindowInv
        <3>2. times[i - Gone] = granted[Gone + (i - Gone)]
            BY <3>1 DEF WindowInv
        <3>3. times[i - Gone] <= now - Window
            BY <3>1 DEF Expired
        <3>4. QED
            BY <3>1, <3>2, <3>3
    <2>3. QED
        BY <2>1, <2>2
<1>5. QED
    BY <1>1, <1>2, <1>3, <1>4 DEF WindowInv

LEMMA WindowInvInit == WindowInit => WindowInv
    BY WindowAssumption, EmptySeq DEF WindowInit, WindowInv, WindowTypeOK, WindowRespected, Gone

LEMMA GrantKeepsInv == WindowInv /\ Grant => WindowInv'
<1> SUFFICES ASSUME WindowInv, Grant
             PROVE  WindowInv'
    OBVIOUS
<1> PICK n \in 0..Len(times) : /\ Expired(n)
                               /\ Len(Kept(n)) < Limit
                               /\ times' = Append(Kept(n), now)
    BY DEF Grant
<1> DEFINE k == Len(Kept(n))
           g == Len(granted)
<1>1. /\ now \in Nat /\ times \in Seq(Nat) /\ granted \in Seq(Nat)
      /\ g \in Nat /\ Limit \in Nat /\ Limit > 0 /\ Window \in Nat /\ Window > 0
      /\ \A i \in 1..g : granted[i] \in Nat
    BY WindowAssumption, LenProperties, ElementOfSeq DEF WindowInv, WindowTypeOK
<1>2. Kept(n) \in Seq(Nat) /\ k \in Nat
    BY <1>1, KeptFacts, LenProperties
<1>3. /\ k <= g /\ k < Limit
      /\ \A i \in 1..k : Kept(n)[i] = granted[g - k + i]
      /\ \A i \in 1..g : i <= g - k => granted[i] <= now - Window
    BY PoppedFacts
<1>4. /\ times' \in Seq(Nat) /\ Len(times') = k + 1
      /\ \A i \in 1..k : times'[i] = Kept(n)[i]
      /\ times'[k + 1] = now
    BY <1>1, <1>2, AppendFacts
<1>5. /\ granted' \in Seq(Nat) /\ Len(granted') = g + 1
      /\ \A i \in 1..g : granted'[i] = granted[i]
      /\ granted'[g + 1] = now
    BY <1>1, AppendFacts DEF Grant
<1>6. now' = now
    BY DEF Grant
<1>7. Gone' = g - k
    BY <1>1, <1>2, <1>4, <1>5 DEF Gone
<1> HIDE DEF k, g
<1>8. WindowTypeOK'
    BY <1>1, <1>4, <1>5, <1>6 DEF WindowTypeOK
<1>9. \A i \in 1..Len(times') : times'[i] = granted'[Gone' + i]
    <2> TAKE i \in 1..Len(times')
    <2>1. CASE i = k + 1
        BY <1>1, <1>2, <1>4, <1>5, <1>7, <2>1
    <2>2. CASE i # k + 1
        <3>1. i \in 1..k /\ g - k + i \in 1..g
            BY <1>1, <1>2, <1>3, <1>4, <2>2
        <3>2. QED
            BY <1>3, <1>4, <1>5, <1>7, <3>1
    <2>3. QED
        BY <2>1, <2>2
<1>10. \A i \in 1..Len(granted') : granted'[i] <= now'
    <2>1. \A i \in 1..g : granted[i] <= now
        BY DEF WindowInv, g
    <2> SUFFICES ASSUME NEW i \in 1..(g + 1)
                 PROVE  granted'[i] <= now
        BY <1>5, <1>6
    <2>2. CASE i = g + 1
        BY <1>1, <1>5, <2>2
    <2>3. CASE i # g + 1
        <3>1. i \in 1..g
            BY <1>1, <2>3
        <3>2. QED
            BY <1>5, <2>1, <3>1
    <2>4. QED
        BY <2>2, <2>3
<1>11. \A i \in 1..Len(granted') : i <= Gone' => granted'[i] <= now' - Window
    <2> SUFFICES ASSUME NEW i \in 1..(g + 1), i <= g - k
                 PROVE  granted'[i] <= now - Window
        BY <1>5, <1>6, <1>7
    <2>1. i \in 1..g
        BY <1>1, <1>2
    <2>2. granted'[i] = granted[i]
        BY <1>5, <2>1
    <2>3. QED
        BY <1>3, <2>1, <2>2
<1>12. \A i \in 1..Len(granted') :
           i + Limit <= Len(granted') => granted'[i + Limit] - granted'[i] >= Window
    <2> SUFFICES ASSUME NEW i \in 1..(g + 1), i + Limit <= g + 1
                 PROVE  granted'[i + Limit] - granted'[i] >= Window
        BY <1>5
    <2>1. i \in 1..g /\ granted'[i] = granted[i] /\ granted[i] \in Nat
        BY <1>1, <1>5
    <2>2. CASE i + Limit = g + 1
        <3>1. i <= g - k
            BY <1>1, <1>2, <1>3, <2>2
        <3>2. granted[i] <= now - Window
            BY <1>3, <2>1, <3>1
        <3>3. granted'[i + Limit] = now
            BY <1>5, <2>2
        <3>4. QED
            BY <1>1, <2>1, <3>2, <3>3
    <2>3. CASE i + Limit # g + 1
        <3>1. i + Limit \in 1..g
            BY <1>1, <2>3
        <3>2. granted[i + Limit] - granted[i] >= Window
            BY <1>1, <2>1, <3>1 DEF WindowInv, WindowRespected, g
        <3>3. QED
            BY <1>5, <2>1, <3>1, <3>2
    <2>4. QED
        BY <2>2, <2>3
<1>13. Len(times') <= Len(granted')
    BY <1>1, <1>2, <1>3, <1>4, <1>5
<1>14. WindowRespected'
    BY <1>12 DEF WindowRespected
<1>15. QED
    BY <1>8, <1>9, <1>10, <1>11, <1>13, <1>14 DEF WindowInv

LEMMA ThrottleKeepsInv == WindowInv /\ Throttle => WindowInv'
<1> SUFFICES ASSUME WindowInv, Throttle
             PROVE  WindowInv'
    OBVIOUS
<1> PICK n \in 0..Len(times) : Expired(n) /\ times' = Kept(n)
    BY DEF Throttle
<1>1. now' = now /\ granted' = granted
    BY DEF Throttle
<1>2. times' \in Seq(Nat)
    BY KeptFacts DEF WindowInv, WindowTypeOK
<1>3. /\ Len(times') <= Len(granted)
      /\ \A i \in 1..Len(times') : times'[i] = granted[Len(granted) - Len(times') + i]
      /\ \A i \in 1..Len(granted) : i <= Len(granted) - Len(times') => granted[i] <= now - Window
    BY PoppedFacts
<1>4. QED
    BY <1>1, <1>2, <1>3 DEF WindowInv, WindowTypeOK, WindowRespected, Gone

LEMMA TickKeepsInv == WindowInv /\ Tick => WindowInv'
<1> SUFFICES ASSUME WindowInv, Tick
             PROVE  WindowInv'
    OBVIOUS
<1>1. now \in Nat /\ now' = now + 1 /\ times' = times /\ granted' = granted /\ Gone' = Gone
    BY DEF WindowInv, WindowTypeOK, Tick, Gone
<1>2. \A i \in 1..Len(granted) : granted[i] \in Nat
    BY ElementOfSeq DEF WindowInv, WindowTypeOK
<1>3. Window \in Nat
    BY WindowAssumption
<1>4. \A i \in 1..Len(granted) : /\ granted[i] <= now'
                                 /\ i <= Gone => granted[i] <= now' - Window
    BY <1>1, <1>2, <1>3 DEF WindowInv
<1>5. QED
    BY <1>1, <1>4 DEF WindowInv, WindowTypeOK, WindowRespected

\* Any step of the limiter, or of a system that implements it.
LEMMA WindowStep == WindowInv /\ [WindowNext]_windowVars => WindowInv'
<1> SUFFICES ASSUME WindowInv, [WindowNext]_windowVars
             PROVE  WindowInv'
    OBVIOUS
<1>1. CASE UNCHANGED windowVars
    BY <1>1 DEF windowVars, WindowInv, WindowTypeOK, WindowRespected, Gone
<1>2. QED
    BY <1>1, GrantKeepsInv, ThrottleKeepsInv, TickKeepsInv DEF WindowNext

\* At most Limit acquisitions in any window, for every limit and window.
THEOREM WindowCorrect == WindowSpec => []WindowRespected
<1>1. WindowInv => WindowRespected
    BY DEF WindowInv
<1>2. QED
    BY <1>1, WindowInvInit, WindowStep, PTL DEF WindowSpec

-----------------------------------------------------------------------------

LEMMA DelaysAreNat == \A a : Delays(a) \subseteq Nat
<1>1. MaxDelay \in Nat /\ Jitter \in Nat
    BY ProviderAssumption
<1>2. 0..(MaxDelay + Jitter) \subseteq Nat
    BY <1>1
<1>3. QED
    BY <1>2 DEF Delays

-----------------------------------------------------------------------------
(* Every step is a step of the window, or leaves it alone. *)

LEMMA AcquireIsWindowStep ==
    ASSUME NEW r, AcquireProactiveSlot(r)
    PROVE  WindowNext
    BY DEF AcquireProactiveSlot, WindowNext

LEMMA WaitIsWindowStep ==
    ASSUME NEW r, WaitIfBlocked(r)
    PROVE  [WindowNext]_windowVars
    BY AcquireIsWindowStep DEF WaitIfBlocked

LEMMA StepIsWindowStep == [Next]_vars => [WindowNext]_windowVars
<1> SUFFICES ASSUME [Next]_vars
             PROVE  [WindowNext]_windowVars
    OBVIOUS
<1>1. CASE UNCHANGED vars
    BY <1>1 DEF vars
<1>2. CASE Time
    BY <1>2 DEF Time, WindowNext
<1>3. ASSUME NEW r \in Requests,
             \/ Enter(r)
             \/ WakeFromBackoff(r)
             \/ RetryWithOtherBody(r)
      PROVE  [WindowNext]_windowVars
    BY <1>3, WaitIsWindowStep DEF Enter, WakeFromBackoff, RetryWithOtherBody
<1>4. ASSUME NEW r \in Requests, WakeFromBlock(r) \/ WakeFromThrottle(r)
      PROVE  [WindowNext]_windowVars
    BY <1>4, AcquireIsWindowStep DEF WakeFromBlock, WakeFromThrottle
<1>5. ASSUME NEW r \in Requests,
             \/ WaitForSlot(r) \/ Opened(r) \/ RateLimited(r) \/ RetriesExhausted(r)
             \/ Fails(r) \/ Finish(r) \/ Disconnect(r)
      PROVE  UNCHANGED windowVars
    BY <1>5 DEF WaitForSlot, Opened, RateLimited, RetriesExhausted, Fails, Finish, Disconnect
<1>6. QED
    BY <1>1, <1>2, <1>3, <1>4, <1>5 DEF Next

\* Opening streams through the limiter, with retries, is a use of the sliding
\* window and nothing else.
THEOREM ImplementsWindow == Spec => WindowSpec
<1>1. Init => WindowInit
    BY DEF Init
<1>2. QED
    BY <1>1, StepIsWindowStep, PTL DEF Spec, WindowSpec

\* Hence at most Limit calls of the upstream in any window, retries included.
THEOREM CallsRespectWindow == Spec => []WindowRespected
    BY ImplementsWindow, WindowCorrect, PTL

-----------------------------------------------------------------------------
(* What one pass of the limiter does to the stream that takes it. *)

LEMMA AcquireMoves ==
    ASSUME TypeOK, NEW r \in Requests, AcquireProactiveSlot(r)
    PROVE  /\ \E where \in {"calling", "throttled"} : pc' = [pc EXCEPT ![r] = where]
           /\ wake' \in [Requests -> Nat]
           /\ UNCHANGED <<now, blockedUntil, unaware>>
           /\ granted' # granted => pc' = [pc EXCEPT ![r] = "calling"]
<1>1. CASE Grant /\ GoTo(r, "calling") /\ UNCHANGED <<blockedUntil, unaware>>
    BY <1>1 DEF Grant, GoTo, SleepUntil, TypeOK
<1>2. CASE Throttle /\ SleepUntil(r, "throttled", WakeTime') /\ UNCHANGED <<blockedUntil, unaware>>
    <2>1. PICK n \in 0..Len(times) : Len(Kept(n)) >= Limit /\ times' = Kept(n)
        BY <1>2 DEF Throttle
    <2>2. times' \in Seq(Nat)
        BY <2>1, KeptFacts DEF TypeOK, WindowTypeOK
    <2>3. 1 \in 1..Len(times')
        BY <2>1, <2>2, WindowAssumption, LenProperties
    <2>4. times'[1] \in Nat
        BY <2>2, <2>3, ElementOfSeq
    <2>5. WakeTime' \in Nat
        BY <2>4, WindowAssumption DEF WakeTime
    <2>6. UNCHANGED <<now, granted>>
        BY <1>2 DEF Throttle
    <2>7. QED
        BY <1>2, <2>5, <2>6 DEF SleepUntil, TypeOK
<1>3. QED
    BY <1>1, <1>2 DEF AcquireProactiveSlot

LEMMA WaitMoves ==
    ASSUME TypeOK, NEW r \in Requests, WaitIfBlocked(r)
    PROVE  /\ \E where \in {"calling", "throttled", "blocked"} : pc' = [pc EXCEPT ![r] = where]
           /\ wake' \in [Requests -> Nat]
           /\ UNCHANGED <<now, blockedUntil, unaware>>
           /\ \/ /\ wake' = [wake EXCEPT ![r] = blockedUntil]
                 /\ pc' = [pc EXCEPT ![r] = "blocked"]
                 /\ granted' = granted
              \/ now >= blockedUntil /\ AcquireProactiveSlot(r)
<1>1. CASE AcquireProactiveSlot(r) /\ now >= blockedUntil
    BY <1>1, AcquireMoves
<1>2. CASE /\ SleepUntil(r, "blocked", blockedUntil)
           /\ UNCHANGED <<windowVars, blockedUntil, unaware>>
    BY <1>2 DEF SleepUntil, TypeOK, windowVars
<1>3. QED
    BY <1>1, <1>2 DEF WaitIfBlocked

-----------------------------------------------------------------------------
(* Slots. *)

Held == {r \in Requests : pc[r] \in Holding}

\* A stream that takes, keeps or gives back a slot.
LEMMA HeldMoves ==
    ASSUME TypeOK, NEW r \in Requests, NEW where, pc' = [pc EXCEPT ![r] = where]
    PROVE  /\ Cardinality(Held) \in Nat
           /\ (pc[r] \notin Holding /\ where \in Holding) => Cardinality(Held') = Cardinality(Held) + 1
           /\ (pc[r] \in Holding /\ where \notin Holding) => Cardinality(Held') = Cardinality(Held) - 1
           /\ (pc[r] \in Holding <=> where \in Holding) => Held' = Held
<1>1. IsFiniteSet(Held)
    BY ProviderAssumption, FS_Subset DEF Held
<1>2. Cardinality(Held) \in Nat
    BY <1>1, FS_CardinalityType
<1>3. \A q \in Requests : pc'[q] = IF q = r THEN where ELSE pc[q]
    BY DEF TypeOK
<1>4. (pc[r] \notin Holding /\ where \in Holding) => Cardinality(Held') = Cardinality(Held) + 1
    <2>1. (pc[r] \notin Holding /\ where \in Holding) => (Held' = Held \union {r} /\ r \notin Held)
        BY <1>3 DEF Held
    <2>2. QED
        BY <1>1, <2>1, FS_AddElement
<1>5. (pc[r] \in Holding /\ where \notin Holding) => Cardinality(Held') = Cardinality(Held) - 1
    <2>1. (pc[r] \in Holding /\ where \notin Holding) => (Held' = Held \ {r} /\ r \in Held)
        BY <1>3 DEF Held
    <2>2. QED
        BY <1>1, <2>1, FS_RemoveElement
<1>6. (pc[r] \in Holding <=> where \in Holding) => Held' = Held
    BY <1>3 DEF Held
<1>7. QED
    BY <1>2, <1>4, <1>5, <1>6

SlotsInv == TypeOK /\ SlotsBalanced

\* The streams that hold a slot, and the semaphore, move together.
LEMMA SlotsStep ==
    ASSUME SlotsInv, Next
    PROVE  SlotsBalanced' /\ free' \in 0..Slots
<1>1. /\ TypeOK /\ free = Slots - Cardinality(Held) /\ free \in 0..Slots /\ Slots \in Nat
      /\ SlotsBalanced' <=> free' = Slots - Cardinality(Held')
    BY ProviderAssumption DEF SlotsInv, SlotsBalanced, Held, TypeOK
<1>0. "idle" \notin Holding /\ "queued" \notin Holding /\ "done" \notin Holding
    BY DEF Holding, Asleep
<1>2. CASE Time
    <2>1. pc' = pc /\ free' = free
        BY <1>2 DEF Time
    <2>2. QED
        BY <1>1, <2>1 DEF Held
<1>3. ASSUME NEW r \in Requests,
             \/ WakeFromBlock(r) \/ WakeFromThrottle(r) \/ WakeFromBackoff(r)
             \/ Opened(r) \/ RateLimited(r) \/ RetriesExhausted(r) \/ Fails(r)
             \/ RetryWithOtherBody(r)
      PROVE  SlotsBalanced' /\ free' \in 0..Slots
    <2>1. free' = free /\ pc[r] \in Holding
        BY <1>3 DEF WakeFromBlock, WakeFromThrottle, WakeFromBackoff, Opened, RateLimited,
                    RetriesExhausted, Fails, RetryWithOtherBody, Holding, Asleep
    <2>2. \E where \in Holding : pc' = [pc EXCEPT ![r] = where]
        <3>1. CASE WakeFromBlock(r) \/ WakeFromThrottle(r)
            BY <1>1, <3>1, AcquireMoves DEF WakeFromBlock, WakeFromThrottle, Holding, Asleep
        <3>2. CASE WakeFromBackoff(r) \/ RetryWithOtherBody(r)
            BY <1>1, <3>2, WaitMoves DEF WakeFromBackoff, RetryWithOtherBody, Holding, Asleep
        <3>3. CASE Opened(r) \/ RateLimited(r) \/ RetriesExhausted(r) \/ Fails(r)
            BY <3>3 DEF Opened, RateLimited, RetriesExhausted, Fails, GoTo, SleepUntil, Holding, Asleep
        <3>4. QED
            BY <1>3, <3>1, <3>2, <3>3
    <2>3. Held' = Held
        BY <1>1, <2>1, <2>2, HeldMoves
    <2>4. QED
        BY <1>1, <2>1, <2>3
<1>4. ASSUME NEW r \in Requests, WaitForSlot(r)
      PROVE  SlotsBalanced' /\ free' \in 0..Slots
    <2>1. /\ free' = free /\ pc[r] = "idle"
          /\ pc' = [pc EXCEPT ![r] = "queued"]
        BY <1>4 DEF WaitForSlot, GoTo, SleepUntil
    <2>2. Held' = Held
        BY <1>0, <1>1, <2>1, HeldMoves
    <2>3. QED
        BY <1>1, <2>1, <2>2
<1>5. ASSUME NEW r \in Requests, Enter(r)
      PROVE  SlotsBalanced' /\ free' \in 0..Slots
    <2>1. free' = free - 1 /\ free > 0 /\ pc[r] \notin Holding
        BY <1>5 DEF Enter, Holding, Asleep
    <2>2. \E where \in Holding : pc' = [pc EXCEPT ![r] = where]
        BY <1>1, <1>5, WaitMoves DEF Enter, Holding, Asleep
    <2>3. Cardinality(Held') = Cardinality(Held) + 1 /\ Cardinality(Held) \in Nat
        BY <1>1, <2>1, <2>2, HeldMoves
    <2>4. QED
        BY <1>1, <2>1, <2>3
<1>6. ASSUME NEW r \in Requests, Finish(r) \/ (Disconnect(r) /\ pc[r] \in Holding)
      PROVE  SlotsBalanced' /\ free' \in 0..Slots
    <2>1. /\ free' = free + 1 /\ pc[r] \in Holding
          /\ pc' = [pc EXCEPT ![r] = "done"]
        BY <1>6 DEF Finish, Disconnect, End, GoTo, SleepUntil, Holding, Asleep
    <2>2. /\ Cardinality(Held') = Cardinality(Held) - 1
          /\ Cardinality(Held) \in Nat
        BY <1>0, <1>1, <2>1, HeldMoves
    <2>3. Cardinality(Held') \in Nat
        BY <1>1, <2>1, HeldMoves, FS_Subset, FS_CardinalityType, ProviderAssumption DEF Held
    <2>4. QED
        BY <1>1, <2>1, <2>2, <2>3
<1>7. ASSUME NEW r \in Requests, Disconnect(r), pc[r] \notin Holding
      PROVE  SlotsBalanced' /\ free' \in 0..Slots
    <2>1. free' = free /\ pc' = [pc EXCEPT ![r] = "done"]
        BY <1>7 DEF Disconnect, End, GoTo, SleepUntil
    <2>2. Held' = Held
        BY <1>0, <1>1, <1>7, <2>1, HeldMoves
    <2>3. QED
        BY <1>1, <2>1, <2>2
<1>8. QED
    BY <1>2, <1>3, <1>4, <1>5, <1>6, <1>7 DEF Next

-----------------------------------------------------------------------------
(* Types. *)

LocalTypes == /\ pc \in [Requests -> Control]
              /\ attempt \in [Requests -> 0..MaxRetries]
              /\ altered \subseteq Requests
              /\ wake \in [Requests -> Nat]
              /\ blockedUntil \in Nat
              /\ unaware \subseteq Requests

\* A stream that moves to a place of Control and sleeps until a natural.
LEMMA SleepTypes ==
    ASSUME TypeOK, NEW r \in Requests, NEW where \in Control, NEW t \in Nat,
           SleepUntil(r, where, t)
    PROVE  pc' \in [Requests -> Control] /\ wake' \in [Requests -> Nat]
    BY DEF SleepUntil, TypeOK

\* Why the attempt counter stays in range: a stream backs off only while it has
\* attempts left.
AttemptsLeft == \A r \in Requests : pc[r] = "backoff" => attempt[r] < MaxRetries

LEMMA LocalTypesStep ==
    ASSUME TypeOK, AttemptsLeft, Next
    PROVE  LocalTypes'
<1>0. /\ {"idle", "queued", "done", "calling", "streaming", "failing",
          "blocked", "throttled", "backoff"} \subseteq Control
      /\ MaxRetries \in Nat /\ ExhaustedBlock \in Nat /\ now \in Nat /\ 0 \in Nat
    BY ProviderAssumption DEF Control, Holding, Asleep, TypeOK, WindowTypeOK
<1>1. CASE Time
    BY <1>1 DEF Time, TypeOK, LocalTypes
<1>2. ASSUME NEW r \in Requests, WakeFromBlock(r) \/ WakeFromThrottle(r)
      PROVE  LocalTypes'
    <2>1. AcquireProactiveSlot(r) /\ UNCHANGED <<attempt, altered>>
        BY <1>2 DEF WakeFromBlock, WakeFromThrottle
    <2>2. QED
        BY <1>0, <2>1, AcquireMoves DEF TypeOK, LocalTypes
<1>3. ASSUME NEW r \in Requests, Enter(r) \/ WakeFromBackoff(r) \/ RetryWithOtherBody(r)
      PROVE  LocalTypes'
    <2>1. CASE Enter(r)
        BY <1>0, <2>1, WaitMoves DEF Enter, TypeOK, LocalTypes
    <2>2. CASE RetryWithOtherBody(r)
        <3>1. /\ attempt' \in [Requests -> 0..MaxRetries]
              /\ altered' \subseteq Requests
            BY <1>0, <2>2 DEF RetryWithOtherBody, TypeOK
        <3>2. QED
            BY <1>0, <2>2, <3>1, WaitMoves DEF RetryWithOtherBody, TypeOK, LocalTypes
    <2>3. CASE WakeFromBackoff(r)
        <3>1. attempt[r] < MaxRetries /\ attempt[r] \in 0..MaxRetries
            BY <2>3 DEF WakeFromBackoff, AttemptsLeft, TypeOK
        <3>2. attempt' \in [Requests -> 0..MaxRetries]
            BY <1>0, <2>3, <3>1 DEF WakeFromBackoff, TypeOK
        <3>3. QED
            BY <1>0, <2>3, <3>2, WaitMoves DEF WakeFromBackoff, TypeOK, LocalTypes
    <2>4. QED
        BY <1>3, <2>1, <2>2, <2>3
<1>4. ASSUME NEW r \in Requests, RateLimited(r)
      PROVE  LocalTypes'
    <2>1. PICK delay \in Nat : SetBlocked(delay) /\ SleepUntil(r, "backoff", now + delay)
        BY <1>4, DelaysAreNat DEF RateLimited
    <2>2. QED
        BY <1>0, <1>4, <2>1, SleepTypes DEF RateLimited, SetBlocked, TypeOK, LocalTypes
<1>5. ASSUME NEW r \in Requests, RetriesExhausted(r)
      PROVE  LocalTypes'
    BY <1>0, <1>5, SleepTypes DEF RetriesExhausted, GoTo, SetBlocked, TypeOK, LocalTypes
<1>6. ASSUME NEW r \in Requests, WaitForSlot(r) \/ Opened(r) \/ Fails(r)
      PROVE  LocalTypes'
    BY <1>0, <1>6, SleepTypes DEF WaitForSlot, Opened, Fails, GoTo, TypeOK, LocalTypes
<1>7. ASSUME NEW r \in Requests, Finish(r) \/ Disconnect(r)
      PROVE  LocalTypes'
    <2>1. End(r) /\ UNCHANGED <<blockedUntil, unaware>>
        BY <1>7 DEF Finish, Disconnect
    <2>2. attempt' \in [Requests -> 0..MaxRetries] /\ altered' \subseteq Requests
        BY <1>0, <2>1 DEF End, TypeOK
    <2>3. QED
        BY <1>0, <2>1, <2>2, SleepTypes DEF End, GoTo, TypeOK, LocalTypes
<1>8. QED
    BY <1>1, <1>2, <1>3, <1>4, <1>5, <1>6, <1>7 DEF Next

LEMMA AttemptsLeftStep ==
    ASSUME TypeOK, AttemptsLeft, Next
    PROVE  AttemptsLeft'
<1> SUFFICES ASSUME NEW q \in Requests, pc'[q] = "backoff"
             PROVE  attempt'[q] < MaxRetries
    BY DEF AttemptsLeft
<1>1. CASE Time
    BY <1>1 DEF Time, AttemptsLeft
<1>2. ASSUME NEW r \in Requests, WakeFromBlock(r) \/ WakeFromThrottle(r)
      PROVE  attempt'[q] < MaxRetries
    <2>1. AcquireProactiveSlot(r) /\ attempt' = attempt
        BY <1>2 DEF WakeFromBlock, WakeFromThrottle
    <2>2. pc[q] = "backoff"
        BY <2>1, AcquireMoves DEF TypeOK
    <2>3. QED
        BY <2>1, <2>2 DEF AttemptsLeft
<1>3. ASSUME NEW r \in Requests, Enter(r) \/ WakeFromBackoff(r) \/ RetryWithOtherBody(r)
      PROVE  attempt'[q] < MaxRetries
    <2>1. WaitIfBlocked(r) /\ (q # r => attempt'[q] = attempt[q])
        BY <1>3 DEF Enter, WakeFromBackoff, RetryWithOtherBody, TypeOK
    <2>2. q # r /\ pc[q] = "backoff"
        BY <2>1, WaitMoves DEF TypeOK
    <2>3. QED
        BY <2>1, <2>2 DEF AttemptsLeft
<1>4. ASSUME NEW r \in Requests, RateLimited(r)
      PROVE  attempt'[q] < MaxRetries
    BY <1>4 DEF RateLimited, SleepUntil, AttemptsLeft, TypeOK
<1>5. ASSUME NEW r \in Requests,
             \/ WaitForSlot(r) \/ Opened(r) \/ RetriesExhausted(r) \/ Fails(r)
             \/ Finish(r) \/ Disconnect(r)
      PROVE  attempt'[q] < MaxRetries
    <2>1. pc[q] = "backoff" /\ attempt'[q] = attempt[q]
        BY <1>5 DEF WaitForSlot, Opened, RetriesExhausted, Fails, Finish, Disconnect, End, GoTo,
                    SleepUntil, TypeOK
    <2>2. QED
        BY <2>1 DEF AttemptsLeft
<1>6. QED
    BY <1>1, <1>2, <1>3, <1>4, <1>5 DEF Next

-----------------------------------------------------------------------------
(* Reactive blocks. *)

\* A stream that was not asleep past the check when the block was set sleeps to
\* the end of the block at least, or took its place after the block was over.
AwareInv == \A r \in Requests \ unaware :
                /\ pc[r] = "blocked" => wake[r] >= blockedUntil
                /\ pc[r] = "throttled" => now >= blockedUntil

\* A stream that passes the limiter outside a block, or aware of none.
LEMMA AcquireKeepsAware ==
    ASSUME TypeOK, AwareInv, NEW r \in Requests, AcquireProactiveSlot(r),
           r \notin unaware => now >= blockedUntil
    PROVE  AwareInv'
<1>1. PICK where \in {"calling", "throttled"} : pc' = [pc EXCEPT ![r] = where]
    BY AcquireMoves
<1>2. UNCHANGED <<now, blockedUntil, unaware>>
    BY AcquireMoves
<1>3. \A q \in Requests : q # r => wake'[q] = wake[q]
    BY DEF AcquireProactiveSlot, GoTo, SleepUntil, TypeOK
<1>4. QED
    BY <1>1, <1>2, <1>3 DEF AwareInv, TypeOK

LEMMA AwareStep ==
    ASSUME TypeOK, AwareInv, Next
    PROVE  AwareInv'
<1>1. CASE Time
    BY <1>1 DEF Time, Tick, AwareInv, TypeOK, WindowTypeOK
<1>2. ASSUME NEW r \in Requests, WakeFromBlock(r) \/ WakeFromThrottle(r)
      PROVE  AwareInv'
    <2>1. AcquireProactiveSlot(r)
        BY <1>2 DEF WakeFromBlock, WakeFromThrottle
    <2>2. r \notin unaware => now >= blockedUntil
        BY <1>2 DEF WakeFromBlock, WakeFromThrottle, AwareInv, TypeOK, WindowTypeOK
    <2>3. QED
        BY <2>1, <2>2, AcquireKeepsAware
<1>3. ASSUME NEW r \in Requests, Enter(r) \/ WakeFromBackoff(r) \/ RetryWithOtherBody(r)
      PROVE  AwareInv'
    <2>1. WaitIfBlocked(r)
        BY <1>3 DEF Enter, WakeFromBackoff, RetryWithOtherBody
    <2>2. CASE now >= blockedUntil /\ AcquireProactiveSlot(r)
        BY <2>2, AcquireKeepsAware
    <2>3. CASE /\ wake' = [wake EXCEPT ![r] = blockedUntil]
               /\ pc' = [pc EXCEPT ![r] = "blocked"]
        <3>1. UNCHANGED <<now, blockedUntil, unaware>>
            BY <2>1, WaitMoves
        <3>2. QED
            BY <2>3, <3>1 DEF AwareInv, TypeOK
    <2>4. QED
        BY <2>1, <2>2, <2>3, WaitMoves
<1>4. ASSUME NEW r \in Requests, RateLimited(r) \/ RetriesExhausted(r)
      PROVE  AwareInv'
    <2>1. unaware' = {q \in Requests : pc[q] \in {"blocked", "throttled"}}
        BY <1>4 DEF RateLimited, RetriesExhausted, SetBlocked
    <2>2. \A q \in Requests : pc'[q] \in {"blocked", "throttled"} => pc[q] = pc'[q]
        BY <1>4 DEF RateLimited, RetriesExhausted, GoTo, SleepUntil, TypeOK
    <2>3. QED
        BY <2>1, <2>2 DEF AwareInv
<1>5. ASSUME NEW r \in Requests,
             WaitForSlot(r) \/ Opened(r) \/ Fails(r) \/ Finish(r) \/ Disconnect(r)
      PROVE  AwareInv'
    <2>1. UNCHANGED <<now, blockedUntil, unaware>>
        BY <1>5 DEF WaitForSlot, Opened, Fails, Finish, Disconnect, windowVars
    <2>2. \A q \in Requests : \/ pc'[q] = pc[q] /\ wake'[q] = wake[q]
                              \/ pc'[q] \notin {"blocked", "throttled"}
        BY <1>5 DEF WaitForSlot, Opened, Fails, Finish, Disconnect, End, GoTo, SleepUntil, TypeOK
    <2>3. QED
        BY <2>1, <2>2 DEF AwareInv
<1>6. QED
    BY <1>1, <1>2, <1>3, <1>4, <1>5 DEF Next

\* A call that starts in a block is one of the unaware streams'.
LEMMA CallsInBlock ==
    ASSUME TypeOK, AwareInv, Next, granted' # granted, now < blockedUntil
    PROVE  \E r \in unaware : pc[r] \in {"blocked", "throttled"} /\ pc'[r] = "calling"
<1>0. now \in Nat /\ blockedUntil \in Nat
    BY DEF TypeOK, WindowTypeOK
<1>1. CASE Time
    BY <1>1 DEF Time, Tick
<1>2. ASSUME NEW r \in Requests, WakeFromBlock(r) \/ WakeFromThrottle(r)
      PROVE  \E q \in unaware : pc[q] \in {"blocked", "throttled"} /\ pc'[q] = "calling"
    <2>1. AcquireProactiveSlot(r) /\ pc[r] \in {"blocked", "throttled"}
        BY <1>2 DEF WakeFromBlock, WakeFromThrottle
    <2>2. r \in unaware
        BY <1>0, <1>2 DEF WakeFromBlock, WakeFromThrottle, AwareInv, TypeOK
    <2>3. pc'[r] = "calling"
        BY <2>1, AcquireMoves DEF TypeOK
    <2>4. QED
        BY <2>1, <2>2, <2>3
<1>3. ASSUME NEW r \in Requests, Enter(r) \/ WakeFromBackoff(r) \/ RetryWithOtherBody(r)
      PROVE  FALSE
    <2>1. WaitIfBlocked(r)
        BY <1>3 DEF Enter, WakeFromBackoff, RetryWithOtherBody
    <2>2. QED
        BY <1>0, <2>1, WaitMoves
<1>4. ASSUME NEW r \in Requests,
             \/ WaitForSlot(r) \/ Opened(r) \/ RateLimited(r) \/ RetriesExhausted(r)
             \/ Fails(r) \/ Finish(r) \/ Disconnect(r)
      PROVE  FALSE
    BY <1>4 DEF WaitForSlot, Opened, RateLimited, RetriesExhausted, Fails, Finish, Disconnect,
                windowVars
<1>5. QED
    BY <1>1, <1>2, <1>3, <1>4 DEF Next

-----------------------------------------------------------------------------
(* The inductive invariant and the theorems. *)

ProviderInv == WindowInv /\ TypeOK /\ AttemptsLeft /\ SlotsBalanced /\ AwareInv

LEMMA ProviderInvInit == Init => ProviderInv
<1> SUFFICES ASSUME Init
             PROVE  ProviderInv
    OBVIOUS
<1>1. WindowInv
    BY WindowInvInit DEF Init
<1>2. TypeOK /\ AttemptsLeft /\ AwareInv
    BY <1>1, ProviderAssumption DEF Init, TypeOK, WindowInv, AttemptsLeft, AwareInv, Control
<1>3. {r \in Requests : pc[r] \in Holding} = {}
    BY DEF Init, Holding, Asleep
<1>4. SlotsBalanced
    BY <1>3, FS_EmptySet, ProviderAssumption DEF Init, SlotsBalanced
<1>5. QED
    BY <1>1, <1>2, <1>4 DEF ProviderInv

LEMMA ProviderInvStep == ProviderInv /\ [Next]_vars => ProviderInv'
<1> SUFFICES ASSUME ProviderInv, [Next]_vars
             PROVE  ProviderInv'
    OBVIOUS
<1>1. WindowInv'
    BY StepIsWindowStep, WindowStep DEF ProviderInv
<1>2. CASE UNCHANGED vars
    BY <1>1, <1>2 DEF vars, windowVars, ProviderInv, TypeOK, WindowTypeOK, AttemptsLeft,
                      SlotsBalanced, AwareInv
<1>3. CASE Next
    <2>1. LocalTypes' /\ AttemptsLeft' /\ AwareInv'
        BY <1>3, LocalTypesStep, AttemptsLeftStep, AwareStep DEF ProviderInv
    <2>2. SlotsBalanced' /\ free' \in 0..Slots
        BY <1>3, SlotsStep DEF ProviderInv, SlotsInv
    <2>3. TypeOK'
        BY <1>1, <2>1, <2>2 DEF TypeOK, LocalTypes, WindowInv
    <2>4. QED
        BY <1>1, <2>1, <2>2, <2>3 DEF ProviderInv
<1>4. QED
    BY <1>2, <1>3

LEMMA ProviderInvariant == Spec => []ProviderInv
    BY ProviderInvInit, ProviderInvStep, PTL DEF Spec

\* Every variable of the provider limiter keeps its type.
THEOREM ProviderTypeCorrect == Spec => []TypeOK
<1>1. ProviderInv => TypeOK
    BY DEF ProviderInv
<1>2. QED
    BY <1>1, ProviderInvariant, PTL

\* No concurrency slot leaks, for any number of streams and slots.
THEOREM SlotsCorrect == Spec => []SlotsBalanced
<1>1. ProviderInv => SlotsBalanced
    BY DEF ProviderInv
<1>2. QED
    BY <1>1, ProviderInvariant, PTL

\* Only streams that slept past the reactive check when a block was set call
\* the upstream during it.
THEOREM BlockHonouredCorrect == Spec => BlockHonoured
<1>1. ProviderInv /\ [Next]_vars
        => [(granted' # granted /\ now < blockedUntil)
              => \E r \in unaware : pc[r] \in {"blocked", "throttled"} /\ pc'[r] = "calling"]_vars
    BY CallsInBlock DEF ProviderInv
<1>2. QED
    BY <1>1, ProviderInvariant, PTL DEF Spec, BlockHonoured
=============================================================================
