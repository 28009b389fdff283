---------------------------- MODULE SessionStore ----------------------------
(***************************************************************************)
(* How SessionStore (src/messaging/session.py) brings its content to disk: *)
(* every change arms a debounce timer, whose thread writes a snapshot      *)
(* outside the lock; clear_all and the flush at shutdown write at once, in *)
(* the thread of the event loop.  The lock makes every block of code under *)
(* it one action; the writes run beside everything else.                   *)
(*                                                                         *)
(* The content (trees, node mapping, message log) is abstracted to the     *)
(* number of the change that made it, 0 being the empty store.  A timer    *)
(* thread that has been cancelled after its wait ended still runs its      *)
(* callback: threading.Timer looks at the cancellation once.               *)
(***************************************************************************)
EXTENDS Integers

CONSTANTS Timers,      \* timer threads, reused once they have ended
          Main,        \* the thread of the event loop
          NoTimer,     \* None
          MaxChanges,  \* bound on the changes, for model checking only
          Failures     \* whether a write may fail

ASSUME StoreAssumption == /\ Main \notin Timers /\ NoTimer \notin Timers
                          /\ MaxChanges \in Nat
                          /\ Failures \in BOOLEAN

Threads == Timers \union {Main}

VARIABLES mem,        \* the change memory is at
          latest,     \* history: the last change made by any run of the process
          disk,       \* the change the file is at
          dirty,      \* _dirty
          saveTimer,  \* _save_timer
          ending,   \* the shutdown of the process has begun
          stage,      \* where each thread is
          snap,       \* the snapshot each thread writes
          promised,   \* history: the last clear_all that returned with its
                      \* file written
          failed,     \* history: a write failed and nothing was scheduled since
          raced       \* history: an older snapshot replaced a newer file

vars == <<mem, latest, disk, dirty, saveTimer, ending, stage, snap, promised, failed, raced>>

Writing == {"saving", "flushing", "clearing"}
Stages  == {"off", "armed", "fired"} \union Writing

TypeOK == /\ {mem, latest, disk, promised} \subseteq 0..MaxChanges
          /\ {dirty, ending, failed, raced} \subseteq BOOLEAN
          /\ stage \in [Threads -> Stages]
          /\ \/ saveTimer = NoTimer
             \/ saveTimer \in Timers /\ stage[saveTimer] \in {"armed", "fired"}
          /\ snap \in [Threads -> 0..MaxChanges]

Init == /\ mem = 0 /\ latest = 0 /\ disk = 0 /\ promised = 0
        /\ dirty = FALSE /\ ending = FALSE /\ failed = FALSE /\ raced = FALSE
        /\ saveTimer = NoTimer
        /\ stage = [t \in Threads |-> "off"]
        /\ snap = [t \in Threads |-> 0]

\* The stages once the referenced timer is cancelled: it ends if it still waits.
Cancelled == [t \in Threads |->
                IF t = saveTimer /\ stage[t] = "armed" THEN "off" ELSE stage[t]]

\* Mutant: the content changes and nobody is told.
ScheduleSaveSilently == /\ saveTimer' = saveTimer
                        /\ UNCHANGED <<dirty, stage, failed>>

ScheduleSave == /\ dirty' = TRUE
                /\ \E t \in Timers :
                      /\ Cancelled[t] = "off"
                      /\ stage' = [Cancelled EXCEPT ![t] = "armed"]
                      /\ saveTimer' = t
                /\ failed' = FALSE

NewContent == /\ latest < MaxChanges
              /\ latest' = latest + 1
              /\ mem' = latest + 1

\* Mutant: the flush cancels the timer but leaves the store dirty.
FlushSaveKeepsDirty(where) == /\ stage[Main] = "off"
                              /\ stage' = [Cancelled EXCEPT ![Main] = where]
                              /\ snap' = [snap EXCEPT ![Main] = mem']
                              /\ saveTimer' = NoTimer
                              /\ UNCHANGED <<dirty, failed>>

\* _flush_save under the lock; the event loop then writes the snapshot.
FlushSave(where) == /\ stage[Main] = "off"
                    /\ stage' = [Cancelled EXCEPT ![Main] = where]
                    /\ snap' = [snap EXCEPT ![Main] = mem']
                    /\ saveTimer' = NoTimer
                    /\ dirty' = FALSE
                    /\ failed' = FALSE

\* Any of the mutating methods: save_tree, register_node, record_message_id,
\* remove_node_mappings, remove_tree, sync_from_tree_data.
Change == /\ stage[Main] = "off"
          /\ NewContent
          /\ ScheduleSave
          /\ UNCHANGED <<disk, ending, snap, promised, raced>>

ClearAll == /\ NewContent
            /\ FlushSave("clearing")
            /\ UNCHANGED <<disk, ending, promised, raced>>

\* AppRuntime.shutdown flushes once, before it stops the platform and the CLI
\* sessions: changes may still follow.
FlushPendingSave == /\ ~ending
                    /\ ending' = TRUE
                    /\ UNCHANGED <<mem, latest>>
                    /\ FlushSave("flushing")
                    /\ UNCHANGED <<disk, promised, raced>>

\* The debounce time is over and the thread was not cancelled: it goes for the
\* lock.
Fire(t) == /\ stage[t] = "armed"
           /\ stage' = [stage EXCEPT ![t] = "fired"]
           /\ UNCHANGED <<mem, latest, disk, dirty, saveTimer, ending, snap, promised, failed, raced>>

\* _save_from_timer under the lock.  It drops the reference to the timer even
\* when that is a later one.
SaveFromTimer(t) ==
    /\ stage[t] = "fired"
    /\ IF dirty
       THEN /\ stage' = [stage EXCEPT ![t] = "saving"]
            /\ snap' = [snap EXCEPT ![t] = mem]
            /\ dirty' = FALSE
            /\ failed' = FALSE
       ELSE /\ stage' = [stage EXCEPT ![t] = "off"]
            /\ UNCHANGED <<snap, dirty, failed>>
    /\ saveTimer' = NoTimer
    /\ UNCHANGED <<mem, latest, disk, ending, promised, raced>>

\* Mutant: the store is marked clean when the write is over, not when it begins.
ReplaceFileThenClean(t) ==
    /\ stage[t] \in Writing
    /\ disk' = snap[t]
    /\ stage' = [stage EXCEPT ![t] = "off"]
    /\ dirty' = FALSE
    /\ promised' = IF stage[t] = "clearing" THEN snap[t] ELSE promised
    /\ raced' = (disk' # mem /\ (raced \/ snap[t] < disk))
    /\ UNCHANGED <<mem, latest, saveTimer, ending, snap, failed>>

\* os.replace: the snapshot becomes the file.
ReplaceFile(t) ==
    /\ stage[t] \in Writing
    /\ disk' = snap[t]
    /\ stage' = [stage EXCEPT ![t] = "off"]
    /\ promised' = IF stage[t] = "clearing" THEN snap[t] ELSE promised
    /\ raced' = (disk' # mem /\ (raced \/ snap[t] < disk))
    /\ UNCHANGED <<mem, latest, dirty, saveTimer, ending, snap, failed>>

\* The write raises: the store is dirty again, but nothing is scheduled.
WriteFails(t) ==
    /\ Failures /\ stage[t] \in Writing
    /\ stage' = [stage EXCEPT ![t] = "off"]
    /\ dirty' = TRUE
    /\ failed' = TRUE
    /\ UNCHANGED <<mem, latest, disk, saveTimer, ending, snap, promised, raced>>

\* The process ends, by a crash or at the end of its shutdown (the timer threads
\* are daemons), and the next one loads the file.
Restart == /\ mem' = disk
           /\ dirty' = FALSE /\ ending' = FALSE /\ failed' = FALSE /\ raced' = FALSE
           /\ saveTimer' = NoTimer
           /\ stage' = [t \in Threads |-> "off"]
           /\ UNCHANGED <<latest, disk, snap, promised>>

TimerStep(t) == Fire(t) \/ SaveFromTimer(t)

Next == \/ Change \/ ClearAll \/ FlushPendingSave \/ Restart
        \/ \E t \in Timers : TimerStep(t)
        \/ \E t \in Threads : ReplaceFile(t) \/ WriteFails(t)

Spec == Init /\ [][Next]_vars

\* Timers fire, threads get the lock, and writes end.  Nothing makes anybody
\* change, clear, flush or restart.
Fairness == /\ \A t \in Timers : WF_vars(TimerStep(t))
            /\ \A t \in Threads : WF_vars(ReplaceFile(t) \/ WriteFails(t))

FairSpec == Spec /\ Fairness

-----------------------------------------------------------------------------

\* No change is forgotten: what the file does not have yet is marked dirty or on
\* its way to the file, whatever changed while a write was running.  The only
\* exception is a file that a slower, older write replaced.
ChangeTracked == \/ disk = mem
                 \/ dirty
                 \/ \E t \in Threads : stage[t] \in Writing /\ snap[t] = mem
                 \/ raced

\* A dirty store has a timer that will save it, even though callbacks of
\* cancelled timers drop the reference to later ones.  The only exception is a
\* failed write, which waits for the next change.
SavePending == \/ ~dirty
               \/ \E t \in Timers : stage[t] \in {"armed", "fired"}
               \/ failed

\* When the changes end, the file becomes and stays what memory is, unless the
\* last write failed or an older write overtook it.
EventuallySaved == <>[](disk = mem \/ failed \/ raced)

\* What clear_all promises ("persist an empty store"): what it cleared never
\* comes back, not even after a restart.  A timer thread that was already
\* writing when it was called brings it back.
ClearedStaysCleared == mem >= promised

=============================================================================
