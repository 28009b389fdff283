------------------------- MODULE SessionStoreProofs -------------------------
(***************************************************************************)
(* The store never forgets a change and never leaves one without a timer,  *)
(* for any number of timer threads.  The inductive invariant adds to the   *)
(* two properties that a snapshot being written is never newer than        *)
(* memory: hence a write that makes the file differ from memory again has  *)
(* overtaken nothing newer than itself, unless it is the recorded race.    *)
(***************************************************************************)
EXTENDS SessionStore, TLAPS

SnapshotsOld == \A t \in Threads : stage[t] \in Writing => snap[t] <= mem

StoreInv == /\ TypeOK
            /\ mem <= latest /\ disk <= latest
            /\ SnapshotsOld
            /\ ChangeTracked
            /\ SavePending

\* The parts of the type invariant, one variable at a time.
LEMMA Types ==
    ASSUME TypeOK
    PROVE  /\ mem \in 0..MaxChanges /\ latest \in 0..MaxChanges
           /\ disk \in 0..MaxChanges /\ promised \in 0..MaxChanges
           /\ dirty \in BOOLEAN /\ ending \in BOOLEAN
           /\ failed \in BOOLEAN /\ raced \in BOOLEAN
           /\ stage \in [Threads -> Stages]
           /\ snap \in [Threads -> 0..MaxChanges]
           /\ saveTimer = NoTimer \/ (saveTimer \in Timers /\ stage[saveTimer] \in {"armed", "fired"})
    BY DEF TypeOK

\* What cancelling the referenced timer leaves of the threads.
LEMMA CancelledFacts ==
    ASSUME TypeOK
    PROVE  /\ Cancelled \in [Threads -> Stages]
           /\ \A t \in Threads : Cancelled[t] \in Writing <=> stage[t] \in Writing
           /\ \A t \in Threads : Cancelled[t] \in Writing => Cancelled[t] = stage[t]
    BY Types DEF Cancelled, Stages, Writing

LEMMA StoreInvInit == Init => StoreInv
<1> SUFFICES ASSUME Init
             PROVE  StoreInv
    OBVIOUS
<1>1. TypeOK
    <2>1. 0 \in 0..MaxChanges
        BY StoreAssumption
    <2>2. stage \in [Threads -> Stages] /\ snap \in [Threads -> 0..MaxChanges]
        BY <2>1 DEF Init, Stages
    <2>3. {mem, latest, disk, promised} = {0} /\ {dirty, ending, failed, raced} = {FALSE}
        BY DEF Init
    <2>4. QED
        BY <2>1, <2>2, <2>3 DEF Init, TypeOK
<1>2. SnapshotsOld /\ ChangeTracked /\ SavePending
    BY DEF Init, SnapshotsOld, ChangeTracked, SavePending, Writing
<1>3. QED
    BY <1>1, <1>2 DEF Init, StoreInv

LEMMA ChangeKeepsInv ==
    ASSUME StoreInv, Change
    PROVE  StoreInv'
<1>1. TypeOK /\ mem <= latest /\ disk <= latest /\ SnapshotsOld
    BY DEF StoreInv
<1>2. PICK t \in Timers : /\ stage' = [Cancelled EXCEPT ![t] = "armed"]
                          /\ saveTimer' = t
    BY DEF Change, ScheduleSave
<1>3. /\ dirty' = TRUE /\ failed' = FALSE
      /\ mem' = latest + 1 /\ latest' = latest + 1 /\ latest < MaxChanges
      /\ UNCHANGED <<disk, ending, snap, promised, raced>>
    BY DEF Change, ScheduleSave, NewContent
<1>4. t \in Threads /\ stage'[t] = "armed" /\ stage' \in [Threads -> Stages]
    BY <1>1, <1>2, CancelledFacts DEF Threads, Stages
<1>5. latest + 1 \in 0..MaxChanges
    BY <1>1, <1>3, Types, StoreAssumption
<1>6. TypeOK'
    BY <1>1, <1>2, <1>3, <1>4, <1>5, Types DEF TypeOK
<1>7. SnapshotsOld'
    <2> SUFFICES ASSUME NEW q \in Threads, stage'[q] \in Writing
                 PROVE  snap'[q] <= mem'
        BY DEF SnapshotsOld
    <2>1. stage[q] \in Writing
        BY <1>1, <1>2, <1>4, CancelledFacts DEF Writing
    <2>2. snap[q] <= mem /\ snap[q] \in 0..MaxChanges
        BY <1>1, <2>1, Types DEF SnapshotsOld
    <2>3. QED
        BY <1>1, <1>3, <2>2, Types, StoreAssumption
<1>8. ChangeTracked' /\ SavePending'
    BY <1>2, <1>3, <1>4 DEF ChangeTracked, SavePending
<1>9. mem' <= latest' /\ disk' <= latest'
    BY <1>1, <1>3, Types
<1>10. QED
    BY <1>6, <1>7, <1>8, <1>9 DEF StoreInv

\* Either flush: the event loop starts to write what memory is then.
LEMMA FlushKeepsInv ==
    ASSUME StoreInv, NEW where \in {"flushing", "clearing"}, FlushSave(where),
           mem <= mem', mem' <= latest', mem' \in 0..MaxChanges, latest' \in 0..MaxChanges,
           latest <= latest', ending' \in BOOLEAN, UNCHANGED <<disk, promised, raced>>
    PROVE  StoreInv'
<1>1. TypeOK /\ SnapshotsOld /\ disk <= latest
    BY DEF StoreInv
<1>2. /\ stage' = [Cancelled EXCEPT ![Main] = where]
      /\ snap' = [snap EXCEPT ![Main] = mem']
      /\ saveTimer' = NoTimer /\ dirty' = FALSE /\ failed' = FALSE
    BY DEF FlushSave
<1>3. /\ Main \in Threads /\ stage' \in [Threads -> Stages]
      /\ stage'[Main] = where /\ where \in Writing
      /\ snap' \in [Threads -> 0..MaxChanges] /\ snap'[Main] = mem'
    BY <1>1, <1>2, CancelledFacts, Types DEF Threads, Stages, Writing
<1>4. TypeOK'
    BY <1>1, <1>2, <1>3, Types DEF TypeOK
<1>5. SnapshotsOld'
    <2> SUFFICES ASSUME NEW q \in Threads, stage'[q] \in Writing
                 PROVE  snap'[q] <= mem'
        BY DEF SnapshotsOld
    <2>1. CASE q = Main
        BY <1>3, <2>1
    <2>2. CASE q # Main
        <3>1. stage[q] \in Writing /\ snap'[q] = snap[q]
            BY <1>1, <1>2, <2>2, CancelledFacts, Types
        <3>2. snap[q] <= mem
            BY <1>1, <3>1 DEF SnapshotsOld
        <3>3. QED
            BY <1>1, <3>1, <3>2, Types
    <2>3. QED
        BY <2>1, <2>2
<1>6. ChangeTracked'
    BY <1>3 DEF ChangeTracked
<1>7. SavePending'
    BY <1>2 DEF SavePending
<1>8. disk' <= latest'
    BY <1>1, Types
<1>9. QED
    BY <1>4, <1>5, <1>6, <1>7, <1>8 DEF StoreInv

LEMMA FireKeepsInv ==
    ASSUME StoreInv, NEW t \in Timers, Fire(t)
    PROVE  StoreInv'
<1>1. TypeOK /\ SnapshotsOld /\ ChangeTracked /\ SavePending /\ mem <= latest /\ disk <= latest
    BY DEF StoreInv
<1>2. /\ stage[t] = "armed" /\ stage' = [stage EXCEPT ![t] = "fired"]
      /\ UNCHANGED <<mem, latest, disk, dirty, saveTimer, ending, snap, promised, failed, raced>>
    BY DEF Fire
<1>3. t \in Threads /\ stage' \in [Threads -> Stages] /\ stage'[t] = "fired"
    BY <1>1, <1>2, Types DEF Threads, Stages
<1>4. \A q \in Threads : /\ q # t => stage'[q] = stage[q]
                         /\ stage'[q] \in Writing <=> stage[q] \in Writing
    BY <1>1, <1>2, <1>3, Types DEF Writing
<1>5. saveTimer \in Timers => stage'[saveTimer] \in {"armed", "fired"}
    BY <1>1, <1>3, <1>4, Types, StoreAssumption DEF Threads
<1>6. TypeOK'
    BY <1>1, <1>2, <1>3, <1>5, Types DEF TypeOK
<1>7. SnapshotsOld' /\ ChangeTracked'
    BY <1>1, <1>2, <1>4 DEF SnapshotsOld, ChangeTracked
<1>8. SavePending'
    BY <1>1, <1>2, <1>3, <1>4 DEF SavePending
<1>9. QED
    BY <1>1, <1>2, <1>6, <1>7, <1>8 DEF StoreInv

LEMMA SaveFromTimerKeepsInv ==
    ASSUME StoreInv, NEW t \in Timers, SaveFromTimer(t)
    PROVE  StoreInv'
<1>1. TypeOK /\ SnapshotsOld /\ ChangeTracked /\ SavePending /\ mem <= latest /\ disk <= latest
    BY DEF StoreInv
<1>2. /\ t \in Threads /\ stage[t] = "fired" /\ saveTimer' = NoTimer
      /\ UNCHANGED <<mem, latest, disk, ending, promised, raced>>
    BY DEF SaveFromTimer, Threads
<1>3. CASE dirty
    <2>1. /\ stage' = [stage EXCEPT ![t] = "saving"] /\ snap' = [snap EXCEPT ![t] = mem]
          /\ dirty' = FALSE /\ failed' = FALSE
        BY <1>3 DEF SaveFromTimer
    <2>2. /\ stage' \in [Threads -> Stages] /\ stage'[t] = "saving" /\ "saving" \in Writing
          /\ snap' \in [Threads -> 0..MaxChanges] /\ snap'[t] = mem
          /\ \A q \in Threads : q # t => stage'[q] = stage[q] /\ snap'[q] = snap[q]
        BY <1>1, <1>2, <2>1, Types DEF Stages, Writing
    <2>3. TypeOK'
        BY <1>1, <1>2, <2>1, <2>2, Types DEF TypeOK
    <2>4. mem <= mem
        BY <1>1, Types
    <2>5. SnapshotsOld'
        BY <1>1, <1>2, <2>2, <2>4 DEF SnapshotsOld
    <2>6. ChangeTracked' /\ SavePending'
        BY <1>2, <2>1, <2>2 DEF ChangeTracked, SavePending
    <2>7. QED
        BY <1>1, <1>2, <2>3, <2>5, <2>6 DEF StoreInv
<1>4. CASE ~dirty
    <2>1. stage' = [stage EXCEPT ![t] = "off"] /\ UNCHANGED <<snap, dirty, failed>>
        BY <1>4 DEF SaveFromTimer
    <2>2. /\ stage' \in [Threads -> Stages]
          /\ \A q \in Threads : stage'[q] = IF q = t THEN "off" ELSE stage[q]
        BY <1>1, <1>2, <2>1, Types DEF Stages
    <2>3. TypeOK'
        BY <1>1, <1>2, <2>1, <2>2, Types DEF TypeOK
    <2>4. \A q \in Threads : stage'[q] \in Writing <=> stage[q] \in Writing
        BY <1>2, <2>2 DEF Writing
    <2>5. SnapshotsOld' /\ ChangeTracked' /\ SavePending'
        BY <1>1, <1>2, <1>4, <2>1, <2>4 DEF SnapshotsOld, ChangeTracked, SavePending
    <2>6. QED
        BY <1>1, <1>2, <2>3, <2>5 DEF StoreInv
<1>5. QED
    BY <1>3, <1>4

\* The end of a write, one way or the other.
LEMMA WriteEnds ==
    ASSUME TypeOK, NEW t \in Threads, stage[t] \in Writing,
           stage' = [stage EXCEPT ![t] = "off"]
    PROVE  /\ stage' \in [Threads -> Stages]
           /\ \A q \in Threads : q # t => stage'[q] = stage[q]
           /\ \A q \in Threads : stage'[q] \in Writing => q # t
           /\ \A q \in Timers : stage[q] \in {"armed", "fired"} => stage'[q] = stage[q]
    BY Types DEF Stages, Writing, Threads

LEMMA ReplaceFileKeepsInv ==
    ASSUME StoreInv, NEW t \in Threads, ReplaceFile(t)
    PROVE  StoreInv'
<1>1. TypeOK /\ SnapshotsOld /\ ChangeTracked /\ SavePending /\ mem <= latest /\ disk <= latest
    BY DEF StoreInv
<1>2. /\ stage[t] \in Writing /\ stage' = [stage EXCEPT ![t] = "off"] /\ disk' = snap[t]
      /\ promised' \in {promised, snap[t]}
      /\ raced' = (disk' # mem /\ (raced \/ snap[t] < disk))
      /\ UNCHANGED <<mem, latest, dirty, saveTimer, ending, snap, failed>>
    BY DEF ReplaceFile
<1>3. snap[t] \in 0..MaxChanges /\ snap[t] <= mem /\ raced' \in BOOLEAN
    BY <1>1, <1>2, Types DEF SnapshotsOld
<1>4. saveTimer \in Timers => stage'[saveTimer] \in {"armed", "fired"}
    BY <1>1, <1>2, WriteEnds, Types, StoreAssumption
<1>5. TypeOK'
    BY <1>1, <1>2, <1>3, <1>4, WriteEnds, Types DEF TypeOK
<1>6. SnapshotsOld' /\ SavePending'
    BY <1>1, <1>2, WriteEnds DEF SnapshotsOld, SavePending
<1>7. ChangeTracked'
    <2>1. CASE snap[t] = mem
        BY <1>2, <2>1 DEF ChangeTracked
    <2>2. CASE snap[t] # mem /\ disk = mem
        <3>1. snap[t] < disk
            BY <1>1, <1>3, <2>2, Types
        <3>2. raced'
            BY <1>2, <2>2, <3>1
        <3>3. QED
            BY <3>2 DEF ChangeTracked
    <2>3. CASE snap[t] # mem /\ dirty
        BY <1>2, <2>3 DEF ChangeTracked
    <2>4. CASE snap[t] # mem /\ raced
        BY <1>2, <2>4 DEF ChangeTracked
    <2>5. CASE snap[t] # mem /\ \E q \in Threads : stage[q] \in Writing /\ snap[q] = mem
        BY <1>1, <1>2, <2>5, WriteEnds DEF ChangeTracked
    <2>6. QED
        BY <1>1, <2>1, <2>2, <2>3, <2>4, <2>5 DEF ChangeTracked
<1>8. disk' <= latest'
    BY <1>1, <1>2, <1>3, Types
<1>9. QED
    BY <1>1, <1>2, <1>5, <1>6, <1>7, <1>8 DEF StoreInv

LEMMA WriteFailsKeepsInv ==
    ASSUME StoreInv, NEW t \in Threads, WriteFails(t)
    PROVE  StoreInv'
<1>1. TypeOK /\ SnapshotsOld /\ mem <= latest /\ disk <= latest
    BY DEF StoreInv
<1>2. /\ stage[t] \in Writing /\ stage' = [stage EXCEPT ![t] = "off"]
      /\ dirty' = TRUE /\ failed' = TRUE
      /\ UNCHANGED <<mem, latest, disk, saveTimer, ending, snap, promised, raced>>
    BY DEF WriteFails
<1>3. saveTimer \in Timers => stage'[saveTimer] \in {"armed", "fired"}
    BY <1>1, <1>2, WriteEnds, Types, StoreAssumption
<1>4. TypeOK'
    BY <1>1, <1>2, <1>3, WriteEnds, Types DEF TypeOK
<1>5. SnapshotsOld' /\ ChangeTracked' /\ SavePending'
    BY <1>1, <1>2, WriteEnds DEF SnapshotsOld, ChangeTracked, SavePending
<1>6. QED
    BY <1>1, <1>2, <1>4, <1>5 DEF StoreInv

LEMMA RestartKeepsInv ==
    ASSUME StoreInv, Restart
    PROVE  StoreInv'
<1>1. TypeOK /\ disk <= latest
    BY DEF StoreInv
<1>2. TypeOK' /\ mem' <= latest' /\ disk' <= latest'
    BY <1>1, Types DEF Restart, TypeOK, Stages
<1>3. \A t \in Threads : stage'[t] \notin Writing
    BY DEF Restart, Writing
<1>4. SnapshotsOld' /\ ChangeTracked' /\ SavePending'
    BY <1>3 DEF Restart, SnapshotsOld, ChangeTracked, SavePending
<1>5. QED
    BY <1>2, <1>4 DEF StoreInv

-----------------------------------------------------------------------------
(* The inductive step and the theorems. *)

LEMMA StoreInvStep == StoreInv /\ [Next]_vars => StoreInv'
<1> SUFFICES ASSUME StoreInv, [Next]_vars
             PROVE  StoreInv'
    OBVIOUS
<1>1. TypeOK /\ mem <= latest
    BY DEF StoreInv
<1>2. CASE UNCHANGED vars
    BY <1>2 DEF vars, StoreInv, TypeOK, SnapshotsOld, ChangeTracked, SavePending
<1>3. CASE ClearAll
    <2>1. /\ mem' = latest + 1 /\ latest' = latest + 1 /\ latest < MaxChanges
          /\ FlushSave("clearing") /\ UNCHANGED <<disk, ending, promised, raced>>
        BY <1>3 DEF ClearAll, NewContent
    <2>2. /\ mem <= mem' /\ mem' <= latest' /\ latest <= latest'
          /\ mem' \in 0..MaxChanges /\ latest' \in 0..MaxChanges /\ ending' \in BOOLEAN
        BY <1>1, <2>1, Types, StoreAssumption
    <2>3. QED
        BY <2>1, <2>2, FlushKeepsInv
<1>4. CASE FlushPendingSave
    <2>1. /\ mem' = mem /\ latest' = latest /\ ending' = TRUE
          /\ FlushSave("flushing") /\ UNCHANGED <<disk, promised, raced>>
        BY <1>4 DEF FlushPendingSave
    <2>2. /\ mem <= mem' /\ mem' <= latest' /\ latest <= latest'
          /\ mem' \in 0..MaxChanges /\ latest' \in 0..MaxChanges /\ ending' \in BOOLEAN
        BY <1>1, <2>1, Types
    <2>3. QED
        BY <2>1, <2>2, FlushKeepsInv
<1>5. QED
    BY <1>2, <1>3, <1>4, ChangeKeepsInv, FireKeepsInv, SaveFromTimerKeepsInv,
       ReplaceFileKeepsInv, WriteFailsKeepsInv, RestartKeepsInv DEF Next, TimerStep

LEMMA StoreInvariant == Spec => []StoreInv
    BY StoreInvInit, StoreInvStep, PTL DEF Spec

\* Every variable keeps its type, and the referenced timer is always one whose
\* callback has not yet run under the lock.
THEOREM StoreTypeCorrect == Spec => []TypeOK
<1>1. StoreInv => TypeOK
    BY DEF StoreInv
<1>2. QED
    BY <1>1, StoreInvariant, PTL

\* No change is forgotten, however many timers, failed writes and restarts
\* there are.
THEOREM ChangeTrackedCorrect == Spec => []ChangeTracked
<1>1. StoreInv => ChangeTracked
    BY DEF StoreInv
<1>2. QED
    BY <1>1, StoreInvariant, PTL

\* No change is left without a timer, unless its write failed.
THEOREM SavePendingCorrect == Spec => []SavePending
<1>1. StoreInv => SavePending
    BY DEF StoreInv
<1>2. QED
    BY <1>1, StoreInvariant, PTL

=============================================================================
