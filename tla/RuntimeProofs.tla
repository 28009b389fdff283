--------------------------- MODULE RuntimeProofs ---------------------------
(***************************************************************************)
(* The start and shutdown of the program, the trees it stores, and the     *)
(* transcript, for any number of providers, messages, restarts and tasks;  *)
(* and the parser that finds tool calls in text, for every text.           *)
(*                                                                         *)
(* The handler of messages is set after the trees are restored only        *)
(* because the platform's link follows the step of the runtime (LifeInv).  *)
(* A node can be replied to after a restart because the store and the file *)
(* have it under both of its ids, and it is of this run because whatever   *)
(* waits was cancelled, or is in a tree that the manager has or a global   *)
(* /clear missed (PersistInv).                                             *)
(*                                                                         *)
(* The parser keeps an account of what it was fed (ParserInv): everything  *)
(* handed out comes before everything in its buffer, what left the buffer  *)
(* is a first part of the text, and the whole functions in that part are   *)
(* calls, text or in a parameter.  Each turn of its loops keeps it, and    *)
(* the loop ends with nothing left to find (AtRest).                       *)
(***************************************************************************)
EXTENDS AppLifecycle, TreePersistence, Transcript, HeuristicTools, DataLemmas, TLAPS

\* What every variable may hold.
LifeTypeOK ==
    /\ provider \in [Providers -> {"absent", "open", "closed", "left"}]
    /\ listing \subseteq Providers /\ configured \subseteq Providers
    /\ step \in {"new", "validating", "undoing", "warming", "restoring", "connecting", "serving",
                 "stop_platform", "clean", "closing", "closing_failed", "off", "refused"}
    /\ refresh \in {"none", "created", "running", "over"}
    /\ link \in {"none", "started", "connecting", "up", "dead", "closed"}
    /\ connects \in Nat /\ restored \in BOOLEAN /\ handler \in BOOLEAN /\ failed \in BOOLEAN

\* The platform has the handler only when the trees are back.
HandlerAfterTrees == (handler => restored) /\ MessagesSeeRestored

\* Before the platform is started it has no connection, ...
LinkFollowsStep ==
    /\ step \in {"new", "validating", "undoing", "warming", "restoring", "closing_failed", "refused"} => link = "none"
    /\ platform = "none" => link = "none"
    /\ step \in {"restoring", "connecting", "stop_platform"} => platform # "none"
    /\ platform # "discord" => link \notin {"connecting", "dead"}
    /\ link = "started" => platform = "telegram"
\* ... and when the shutdown is past it, it is closed, or its stop() failed.
LinkStopped ==
    step \in {"clean", "closing", "off"} =>
        link \in {"none", "closed"} \/ "platform" \in late \/ (platform = "telegram" /\ link = "started")

\* While providers are closed, no one is opened: the refresh is over, and those
\* that are open are those still to be closed.
ClosingAll ==
    /\ step \in {"new", "validating", "undoing"} => refresh = "none"
    /\ step \in {"closing", "closing_failed", "off", "refused"} => refresh \in {"none", "over"}
    /\ step \in {"closing", "closing_failed"} => \A p \in Providers : provider[p] = "open" => p \in listing
    /\ step \in {"off", "refused"} => \A p \in Providers : provider[p] # "open"
    /\ \A p \in Providers : provider[p] = "left" => "providers" \in late

LifeInv == LifeTypeOK /\ HandlerAfterTrees /\ LinkFollowsStep /\ LinkStopped /\ ClosingAll

LEMMA LifeInitInv == LifeInit => LifeInv
<1> SUFFICES ASSUME LifeInit PROVE LifeInv
  OBVIOUS
<1>1. LifeTypeOK BY DEF LifeInit, LifeTypeOK
<1>2. HandlerAfterTrees BY DEF LifeInit, HandlerAfterTrees, MessagesSeeRestored
<1>3. LinkFollowsStep BY DEF LifeInit, LinkFollowsStep
<1>4. LinkStopped BY DEF LifeInit, LinkStopped
<1>5. ClosingAll BY DEF LifeInit, ClosingAll
<1> QED BY <1>1, <1>2, <1>3, <1>4, <1>5 DEF LifeInv

LEMMA LifeStep == LifeInv /\ [LifeNext]_lifeVars => LifeInv'
<1> SUFFICES ASSUME LifeInv, [LifeNext]_lifeVars PROVE LifeInv'
  OBVIOUS
<1> USE DEF LifeInv, LifeTypeOK, HandlerAfterTrees, MessagesSeeRestored, LinkFollowsStep, LinkStopped, ClosingAll,
        lifeVars, linkVars, regVars, fixed
<1>1. CASE UNCHANGED lifeVars
  <2>1. LifeTypeOK' BY <1>1
  <2>2. (HandlerAfterTrees /\ LinkFollowsStep /\ LinkStopped)' BY <1>1
  <2>3. ClosingAll' BY <1>1
  <2> QED BY <2>1, <2>2, <2>3
<1>2. CASE Validate
  <2>1. PICK made \in SUBSET configured : Open(made) /\ listing' = made /\ failed' = (made # configured)
    BY <1>2 DEF Validate
  <2>2. step = "new" /\ step' = "validating" /\ UNCHANGED <<fixed, refresh, linkVars, late>>
    BY <1>2 DEF Validate
  <2>3. LifeTypeOK' BY <2>1, <2>2 DEF Open
  <2>4. ClosingAll' BY <2>1, <2>2 DEF Open
  <2> QED BY <2>2, <2>3, <2>4
<1>3. ASSUME NEW p \in Providers, Listed(p) PROVE LifeInv' BY <1>3 DEF Listed
<1>4. ASSUME NEW p \in Providers, ResolveProvider(p) PROVE LifeInv' BY ZenonT(60), <1>4 DEF ResolveProvider, Open
<1>5. ASSUME NEW p \in Providers, CloseProvider(p) PROVE LifeInv' BY ZenonT(60), <1>5 DEF CloseProvider, Closing
<1>6. CASE Validated BY <1>6 DEF Validated
<1>7. CASE Warm BY <1>7 DEF Warm
<1>8. CASE RefreshRuns BY ZenonT(60), <1>8 DEF RefreshRuns, Open
<1>9. CASE RefreshEnds BY ZenonT(60), <1>9 DEF RefreshEnds
<1>10. CASE Restore BY <1>10 DEF Restore
<1>11. CASE TelegramConnects BY <1>11 DEF TelegramConnects
<1>12. CASE TelegramFails 
  <2>1. LifeTypeOK' BY <1>12 DEF TelegramFails
  <2>2. (LinkFollowsStep /\ LinkStopped)' BY <1>12 DEF TelegramFails
  <2>3. (HandlerAfterTrees /\ ClosingAll)' BY <1>12 DEF TelegramFails
  <2> QED BY <2>1, <2>2, <2>3
<1>13. CASE DiscordStarts BY <1>13 DEF DiscordStarts
<1>14. CASE DiscordConnects BY ZenonT(60), <1>14 DEF DiscordConnects
<1>15. CASE DiscordAwaited BY <1>15 DEF DiscordAwaited
<1>16. CASE MessageArrives BY <1>16 DEF MessageArrives
<1>17. CASE ShutdownBegins BY <1>17 DEF ShutdownBegins
<1>18. CASE StopPlatform BY <1>18 DEF StopPlatform
<1>19. CASE Clean BY <1>19 DEF Clean
<1>20. CASE Closed BY <1>20 DEF Closed, Closing
<1> QED
  BY <1>1, <1>2, <1>3, <1>4, <1>5, <1>6, <1>7, <1>8, <1>9, <1>10, <1>11, <1>12, <1>13, <1>14, <1>15, <1>16,
     <1>17, <1>18, <1>19, <1>20 DEF LifeNext

\* No message is handled before the trees are back, and only what NothingOutlives
\* names is open after the shutdown, whichever steps fail or run out of time.
THEOREM LifecycleOrderedCorrect == LifeSpec => []LifecycleOrdered
<1>1. LifeInv => LifecycleOrdered
  BY DEF LifeInv, LifeTypeOK, HandlerAfterTrees, LinkFollowsStep, LinkStopped, ClosingAll, LifecycleOrdered, NothingOutlives
<1> QED BY LifeInitInv, LifeStep, <1>1, PTL DEF LifeSpec

-----------------------------------------------------------------------------

States == {"none", "pending", "in_progress", "completed", "error"}
Indexes == [Ids -> Messages \cup {0}]
Files == [Messages -> [Messages -> States]]

PersistTypeOK ==
    /\ root \in [Messages -> Messages \cup {0}] /\ parentOf \in [Messages -> Messages \cup {0}]
    /\ born \in [Messages -> Nat] /\ run \in Nat
    /\ status \in [Messages -> States]
    /\ inTree \subseteq Messages /\ active \subseteq Messages /\ manager \subseteq Messages /\ caught \subseteq Messages
    /\ index \in Indexes /\ stored \in Files /\ storedIndex \in Indexes
    /\ disk \in [trees : Files, index : Indexes]
    /\ clearing \in Messages \cup {0, Everything}

\* Trees have the roots that their messages say, and a reply is in the tree of
\* the message it replies to.
TreesFormed ==
    /\ \A m \in Messages : root[m] # 0 => root[root[m]] = root[m]
    /\ \A m \in inTree : root[m] # 0 /\ status[m] # "none"
    /\ \A m \in Messages : parentOf[m] # 0 => root[parentOf[m]] # 0 /\ root[m] = root[parentOf[m]]
    /\ manager \subseteq {root[m] : m \in Messages} /\ \A m \in caught : root[m] # 0
    /\ clearing \in Messages => root[clearing] \in manager

\* A node that waits, or whose task runs, is of this run, and its tree is known
\* or was missed by a global /clear; while one is going on, it was missed by that.
Alive(m) == m \in active \/ (m \in inTree /\ status[m] \in Unsettled)
AliveKnown ==
    \A m \in Messages : Alive(m) =>
        /\ Here(m) => born[m] = run
        /\ root[m] \in manager \/ Caught(root[m])
        /\ clearing = Everything => Caught(root[m])

\* The nodes of a saved tree are indexed under both of their ids, where the
\* tree was not missed by a global /clear.
Indexed(trees, ix) ==
    \A r, m \in Messages : trees[r][m] # "none" =>
        /\ root[m] = r
        /\ ~Caught(r) => ix[<<m, "node">>] = r /\ ix[<<m, "status">>] = r

PersistInv ==
    /\ PersistTypeOK /\ TreesFormed /\ AliveKnown
    /\ Indexed(stored, storedIndex) /\ Indexed(disk.trees, disk.index)
    /\ Repliable /\ GhostsExplained

-----------------------------------------------------------------------------

LEMMA EverythingApart == Everything \notin Messages /\ Everything # 0 /\ 0 \notin Messages
<1>1. Cardinality(Messages) \in Nat
  BY PersistenceAssumption, FS_CardinalityType
<1> DEFINE n == Cardinality(Messages)
<1>2. Messages = 1 .. n /\ Everything = n + 1
  BY PersistenceAssumption DEF Everything
<1> HIDE DEF n
<1> QED BY <1>1, <1>2 DEF n

LEMMA IdsOf == \A m \in Messages : <<m, "node">> \in Ids /\ <<m, "status">> \in Ids
  BY DEF Ids

\* The states that a saved tree keeps.
LEMMA SavedStates ==
  ASSUME NEW nodes, NEW states \in [Messages -> States], NEW r
  PROVE  /\ Saved(nodes, states, r) \in [Messages -> States]
         /\ \A m \in Messages : Saved(nodes, states, r)[m] = IF m \in nodes /\ root'[m] = r THEN states[m] ELSE "none"
  BY DEF Saved, States

\* Saving trees that the manager has, or that a global /clear missed.
LEMMA SaveKeeps ==
  ASSUME PersistInv, NEW roots, Save(roots), \A r \in Messages \cap roots : r \in manager \/ Caught(r),
         root' = root, inTree' = inTree, manager' = manager, index' = index, caught' = caught,
         status' \in [Messages -> States], \A m \in inTree : status'[m] # "none"
  PROVE  /\ stored' \in Files /\ storedIndex' \in Indexes
         /\ Indexed(stored, storedIndex)' /\ Repliable' /\ GhostsExplained'
<1> USE DEF PersistInv, PersistTypeOK
<1>1. \A r : Caught(r)' <=> Caught(r)
  BY DEF Caught
<1>2. \A m \in Messages : Here(m)' <=> Here(m)
  BY DEF Here
<1>3. \A r, m \in Messages :
        stored'[r][m] = IF r \in roots THEN (IF m \in inTree /\ root[m] = r THEN status'[m] ELSE "none") ELSE stored[r][m]
  <2>1. \A r \in Messages : stored'[r] = IF r \in roots THEN Saved(inTree', status', r) ELSE stored[r]
    BY DEF Save
  <2> QED BY <2>1, SavedStates
<1>4. stored' \in Files
  BY SavedStates DEF Save, Files
<1>5. \A m \in Messages :
        /\ storedIndex'[<<m, "node">>] = IF m \in inTree /\ root[m] \in roots THEN root[m] ELSE storedIndex[<<m, "node">>]
        /\ storedIndex'[<<m, "status">>] = storedIndex[<<m, "status">>]
  BY IdsOf DEF Save
<1>6. storedIndex' \in Indexes
  <2>1. \A i \in Ids : i[1] \in Messages BY DEF Ids
  <2>2. \A i \in Ids : i[1] \in inTree => root[i[1]] \in Messages \cup {0} BY <2>1
  <2> QED BY <2>2 DEF Save, Indexes
<1>7. ASSUME NEW r \in Messages, NEW m \in Messages, stored'[r][m] # "none"
      PROVE  root[m] = r /\ (~Caught(r) => storedIndex'[<<m, "node">>] = r /\ storedIndex'[<<m, "status">>] = r)
  <2>1. CASE r \in roots
    <3>1. m \in inTree /\ root[m] = r BY <1>3, <1>7, <2>1
    <3>2. ~Caught(r) => Here(m) BY <2>1, <3>1 DEF Here
    <3> QED BY <1>5, <2>1, <3>1, <3>2 DEF Repliable
  <2>2. CASE r \notin roots
    <3>1. stored[r][m] # "none" BY <1>3, <1>7, <2>2
    <3> QED BY <1>5, <3>1, <2>2 DEF Indexed
  <2> QED BY <2>1, <2>2
<1>8. Indexed(stored, storedIndex)'
  BY <1>1, <1>7 DEF Indexed
<1>9. Repliable'
  <2> SUFFICES ASSUME NEW m \in Messages, Here(m), ~Caught(root[m])
               PROVE  /\ Resolves(<<m, "node">>)' /\ Resolves(<<m, "status">>)' /\ stored'[root[m]][m] # "none"
                      /\ storedIndex'[<<m, "node">>] = root[m] /\ storedIndex'[<<m, "status">>] = root[m]
    BY <1>1, <1>2 DEF Repliable
  <2>1. /\ Resolves(<<m, "node">>) /\ Resolves(<<m, "status">>) /\ stored[root[m]][m] # "none"
        /\ storedIndex[<<m, "node">>] = root[m] /\ storedIndex[<<m, "status">>] = root[m]
    BY DEF Repliable
  <2>2. m \in inTree /\ root[m] \in Messages BY DEF Here
  <2> QED BY <1>3, <1>5, <2>1, <2>2 DEF Resolves
<1>10. GhostsExplained'
  <2> SUFFICES ASSUME NEW r \in Messages, stored'[r] # NoTree, r \notin manager PROVE Caught(r)
    BY <1>1 DEF GhostsExplained, NoTree
  <2>1. CASE r \in roots BY <2>1
  <2>2. CASE r \notin roots
    <3>1. stored'[r] = stored[r] BY <2>2 DEF Save
    <3> QED BY <3>1 DEF GhostsExplained
  <2> QED BY <2>1, <2>2
<1> QED BY <1>4, <1>6, <1>8, <1>9, <1>10

\* A step of the tasks or of a command that changes states, and perhaps saves.
StatesChange ==
    /\ root' = root /\ parentOf' = parentOf /\ born' = born /\ inTree' = inTree /\ manager' = manager /\ index' = index
    /\ disk' = disk /\ caught' = caught /\ run' = run /\ active' \subseteq Messages
    /\ status' \in [Messages -> States] /\ \A m \in inTree : status'[m] # "none"
    /\ \A m \in Messages : Alive(m)' => Alive(m)
    /\ \/ UNCHANGED storeVars
       \/ \E roots : Save(roots) /\ \A r \in Messages \cap roots : r \in manager \/ Caught(r)
    /\ \/ clearing' = clearing
       \/ clearing' \in Messages /\ root[clearing'] \in manager
       \/ clearing' = Everything /\ \A m \in Messages : Alive(m)' => Caught(root[m])

LEMMA StatesKeep ==
  ASSUME PersistInv, StatesChange
  PROVE  PersistInv'
<1> USE DEF StatesChange
<1>1. \A r : Caught(r)' <=> Caught(r)
  BY DEF Caught
<1>2. \A m \in Messages : Here(m)' <=> Here(m)
  BY DEF Here
<1>3. stored' \in Files /\ storedIndex' \in Indexes /\ Indexed(stored, storedIndex)' /\ Repliable' /\ GhostsExplained'
  <2>1. CASE UNCHANGED storeVars
    <3>1. Indexed(stored, storedIndex)'
      BY <1>1, <2>1 DEF PersistInv, Indexed, storeVars
    <3>2. Repliable'
      BY <1>1, <1>2, <2>1 DEF PersistInv, Repliable, Resolves, storeVars
    <3>3. GhostsExplained'
      BY <1>1, <2>1 DEF PersistInv, GhostsExplained, storeVars
    <3> QED BY <2>1, <3>1, <3>2, <3>3 DEF PersistInv, PersistTypeOK, storeVars
  <2>2. ASSUME NEW roots, Save(roots), \A r \in Messages \cap roots : r \in manager \/ Caught(r)
        PROVE  stored' \in Files /\ storedIndex' \in Indexes /\ Indexed(stored, storedIndex)' /\ Repliable' /\ GhostsExplained'
    BY <2>2, SaveKeeps
  <2> QED BY <2>1, <2>2
<1>4. PersistTypeOK'
  BY <1>3 DEF PersistInv, PersistTypeOK
<1>5. TreesFormed'
  <2>1. clearing' \in Messages => root[clearing'] \in manager
    BY EverythingApart DEF PersistInv, TreesFormed
  <2> QED BY <2>1 DEF PersistInv, TreesFormed
<1>6. AliveKnown'
  <2>1. clearing' = Everything => \A m \in Messages : Alive(m)' => Caught(root[m])
    BY EverythingApart DEF PersistInv, AliveKnown
  <2> QED BY <1>1, <1>2, <2>1 DEF PersistInv, AliveKnown
<1>7. Indexed(disk.trees, disk.index)'
  BY <1>1 DEF PersistInv, Indexed
<1> QED BY <1>3, <1>4, <1>5, <1>6, <1>7 DEF PersistInv

\* The branch below a node is a part of its tree.
LEMMA BranchInTree ==
  ASSUME PersistInv, NEW m \in Messages
  PROVE  \A c \in Branch(m) : c \in Messages /\ (root[m] # 0 => root[c] = root[m])
<1> DEFINE N == Cardinality(Messages)
           Below(S) == S \cup {c \in inTree : parentOf[c] \in S}
           Levels(f, k) == f = [n \in 0 .. k |-> IF n = 0 THEN {m} ELSE Below(f[n - 1])]
<1>1. N \in Nat
  BY PersistenceAssumption, FS_CardinalityType
<1> HIDE DEF N
<1>2. \A k \in Nat : \E f : Levels(f, k)
  <2> DEFINE T == {k \in Nat : ~\E f : Levels(f, k)}
  <2> SUFFICES ASSUME T # {} PROVE FALSE
    OBVIOUS
  <2>1. PICK k \in T : \A j \in T : k <= j
    BY LeastNatural
  <2>2. CASE k = 0
    <3> DEFINE f == [n \in 0 .. 0 |-> {m}]
    <3>1. f = [n \in 0 .. 0 |-> IF n = 0 THEN {m} ELSE Below(f[n - 1])]
      OBVIOUS
    <3> QED BY <2>2, <3>1
  <2>3. CASE k # 0
    <3>1. k - 1 \in Nat /\ k - 1 \notin T /\ k \in Nat
      <4>1. k \in Nat OBVIOUS
      <4> HIDE DEF T
      <4>2. ~(k <= k - 1) /\ k - 1 \in Nat BY <2>3, <4>1
      <4> QED BY <2>1, <4>1, <4>2
    <3>2. PICK g : Levels(g, k - 1)
      BY <3>1
    <3> DEFINE f == [n \in 0 .. k |-> IF n = k THEN Below(g[k - 1]) ELSE g[n]]
               F(n) == IF n = 0 THEN {m} ELSE Below(f[n - 1])
    <3>3. ASSUME NEW n \in 0 .. k PROVE f[n] = F(n)
      <4>1. CASE n = k BY <2>3, <3>1, <4>1
      <4>2. CASE n # k
        <5>1. n \in 0 .. k - 1 BY <3>1, <4>2
        <5>2. g[n] = IF n = 0 THEN {m} ELSE Below(g[n - 1]) BY <3>2, <5>1
        <5>3. n # 0 => n - 1 \in 0 .. k /\ n - 1 # k BY <5>1, <3>1
        <5> QED BY <4>2, <5>2, <5>3
      <4> QED BY <4>1, <4>2
    <3>4. f = [n \in 0 .. k |-> F(n)]
      <4>1. f = [n \in 0 .. k |-> f[n]] OBVIOUS
      <4> HIDE DEF f
      <4> QED BY <3>3, <4>1
    <3>5. Levels(f, k)
      BY <3>4
    <3> HIDE DEF f, F, Levels
    <3> QED BY <3>5
  <2> QED BY <2>2, <2>3
<1>3. PICK below : Levels(below, N) /\ Branch(m) = below[N]
  <2> DEFINE b == CHOOSE f : Levels(f, N)
  <2>1. \E f : Levels(f, N)
    <3> HIDE DEF Levels
    <3> QED BY <1>1, <1>2
  <2>2. Levels(b, N)
    <3> HIDE DEF Levels
    <3> QED BY <2>1
  <2>3. Branch(m) = b[N]
    BY DEF Branch, N
  <2> HIDE DEF b
  <2> QED BY <2>2, <2>3
<1>4. \A n \in 0 .. N : \A c \in below[n] : c \in Messages /\ (root[m] # 0 => root[c] = root[m])
  <2> DEFINE Inside(n) == \A c \in below[n] : c \in Messages /\ (root[m] # 0 => root[c] = root[m])
             T == {n \in 0 .. N : ~Inside(n)}
  <2> SUFFICES ASSUME T # {} PROVE FALSE
    OBVIOUS
  <2>0. T \in SUBSET Nat
    BY <1>1
  <2>1. PICK n \in T : \A j \in T : n <= j
    <3> HIDE DEF T
    <3> QED BY <2>0, LeastNatural
  <2>2. n \in 0 .. N /\ ~Inside(n)
    OBVIOUS
  <2>3. below[n] = IF n = 0 THEN {m} ELSE Below(below[n - 1])
    BY <1>3, <2>2
  <2>4. CASE n = 0
    BY <2>2, <2>3, <2>4
  <2>5. CASE n # 0
    <3>1. n - 1 \in 0 .. N /\ n - 1 \notin T
      BY <1>1, <2>1, <2>2, <2>5
    <3>2. Inside(n - 1)
      BY <3>1
    <3>3. \A c \in inTree : parentOf[c] \in below[n - 1] => c \in Messages /\ (root[m] # 0 => root[c] = root[m])
      BY <3>2, EverythingApart DEF PersistInv, PersistTypeOK, TreesFormed
    <3> QED BY <2>2, <2>3, <2>5, <3>2, <3>3
  <2> QED BY <2>4, <2>5
<1> QED BY <1>1, <1>3, <1>4

LEMMA PersistInitInv == PersistInit => PersistInv
<1> SUFFICES ASSUME PersistInit PROVE PersistInv
  OBVIOUS
<1> USE DEF PersistInit
<1>1. NoTree \in [Messages -> States] /\ NoIndex \in Indexes
  BY DEF NoTree, States, NoIndex, Indexes
<1>2. stored \in Files /\ disk \in [trees : Files, index : Indexes] /\ disk.trees = stored
  BY <1>1 DEF Files
<1>3. PersistTypeOK
  BY <1>1, <1>2 DEF PersistTypeOK
<1>4. TreesFormed /\ AliveKnown
  BY EverythingApart DEF TreesFormed, AliveKnown, Alive, Here
<1>5. \A r, m \in Messages : stored[r][m] = "none"
  BY DEF NoTree
<1>6. Indexed(stored, storedIndex) /\ Indexed(disk.trees, disk.index)
  BY <1>2, <1>5 DEF Indexed
<1>7. Repliable /\ GhostsExplained
  BY DEF Repliable, GhostsExplained, Here
<1> QED BY <1>3, <1>4, <1>6, <1>7 DEF PersistInv

\* Nodes are cancelled, whichever they are.
LEMMA CancelKeeps ==
  ASSUME PersistInv, NEW nodes, NEW tasks, CancelNodes(nodes, tasks)
  PROVE  /\ root' = root /\ parentOf' = parentOf /\ born' = born /\ inTree' = inTree /\ manager' = manager /\ index' = index
         /\ disk' = disk /\ caught' = caught /\ run' = run /\ active' \subseteq Messages
         /\ status' \in [Messages -> States] /\ \A m \in inTree : status'[m] # "none"
         /\ \A m \in Messages : Alive(m)' => Alive(m) /\ (m \in tasks => m \in inTree \ nodes)
         /\ \E roots : Save(roots) /\ \A r \in Messages \cap roots : r \in manager \/ Caught(r)
<1>1. status' \in [Messages -> States] /\ \A m \in inTree : status'[m] # "none"
  BY DEF CancelNodes, PersistInv, PersistTypeOK, TreesFormed, States
<1>2. \A m \in Messages : Alive(m)' => Alive(m) /\ (m \in tasks => m \in inTree \ nodes)
  BY DEF CancelNodes, Alive, PersistInv, PersistTypeOK, Unsettled, memVars
<1>3. \E roots : Save(roots) /\ \A r \in Messages \cap roots : r \in manager \/ Caught(r)
  BY DEF CancelNodes
<1> QED BY <1>1, <1>2, <1>3 DEF CancelNodes, nodeVars, PersistInv, PersistTypeOK

\* Two states of a step that leaves all trees as they are.
LEMMA PersistStates ==
  ASSUME PersistInv, NEW m \in Messages,
         \/ Begin(m) \/ (\E new \in {"in_progress", "completed"} : Progress(m, new)) \/ Fails(m) \/ TaskOver(m)
         \/ StopNode(m) \/ ClearBranch(m)
  PROVE  PersistInv'
<1> USE DEF PersistInv, PersistTypeOK
<1>1. CASE Begin(m)
  <2>1. StatesChange
    BY <1>1 DEF Begin, StatesChange, nodeVars, storeVars, States, TreesFormed, Alive, Unsettled
  <2> QED BY <2>1, StatesKeep
<1>2. ASSUME NEW new \in {"in_progress", "completed"}, Progress(m, new) PROVE PersistInv'
  <2>1. Alive(m)
    BY <1>2 DEF Progress, Alive
  <2>2. \A r \in Messages \cap {root[m]} : r \in manager \/ Caught(r)
    BY <2>1 DEF AliveKnown
  <2>3. status' \in [Messages -> States] /\ \A c \in inTree : status'[c] # "none"
    BY <1>2 DEF Progress, States, TreesFormed
  <2>4. \A c \in Messages : Alive(c)' => Alive(c)
    BY <1>2, <2>1 DEF Progress, Alive
  <2>5. StatesChange
    BY <1>2, <2>2, <2>3, <2>4 DEF Progress, StatesChange, nodeVars
  <2> QED BY <2>5, StatesKeep
<1>3. CASE Fails(m)
  <2>1. status' \in [Messages -> States] /\ \A c \in inTree : status'[c] # "none"
    BY <1>3 DEF Fails, States, TreesFormed
  <2>2. \A c \in Messages : Alive(c)' => Alive(c)
    BY <1>3 DEF Fails, Alive, Unsettled
  <2>3. StatesChange
    BY <1>3, <2>1, <2>2 DEF Fails, StatesChange, nodeVars
  <2> QED BY <2>3, StatesKeep
<1>4. CASE TaskOver(m)
  <2>1. StatesChange
    BY <1>4 DEF TaskOver, StatesChange, nodeVars, storeVars, TreesFormed, Alive
  <2> QED BY <2>1, StatesKeep
<1>5. CASE StopNode(m)
  <2>1. CancelNodes({m}, {}) /\ clearing' = clearing
    BY <1>5 DEF StopNode
  <2>2. StatesChange
    BY <2>1, CancelKeeps DEF StatesChange
  <2> QED BY <2>2, StatesKeep
<1>6. CASE ClearBranch(m)
  <2>1. CancelNodes(Branch(m), {}) /\ clearing' = m
    BY <1>6 DEF ClearBranch
  <2>2. root[m] \in manager
    BY <1>6 DEF ClearBranch, Resolves
  <2>3. StatesChange
    BY <2>1, <2>2, CancelKeeps DEF StatesChange
  <2> QED BY <2>3, StatesKeep
<1> QED BY <1>1, <1>2, <1>3, <1>4, <1>5, <1>6

\* A global /clear cancels what the manager has: what is left was missed by one.
LEMMA ClearAllKeeps ==
  ASSUME PersistInv, ClearAll
  PROVE  PersistInv'
<1> DEFINE nodes == {c \in inTree : root[c] \in manager}
           tasks == {c \in Messages : root[c] \in manager}
<1>1. CancelNodes(nodes, tasks) /\ clearing' = Everything
  BY DEF ClearAll
<1>2. \A c \in Messages : Alive(c)' => Alive(c) /\ (c \in tasks => c \in inTree \ nodes)
  BY <1>1, CancelKeeps
<1>3. \A c \in Messages : Alive(c)' => Caught(root[c])
  BY <1>2 DEF PersistInv, AliveKnown
<1> HIDE DEF nodes, tasks
<1>4. StatesChange
  BY <1>1, <1>3, CancelKeeps DEF StatesChange
<1> QED BY <1>4, StatesKeep

LEMMA ArriveKeeps ==
  ASSUME PersistInv, NEW m \in Messages, NEW id \in Ids, Arrive(m, id)
  PROVE  PersistInv'
<1> DEFINE r == IF Resolves(id) THEN index[id] ELSE m
<1> USE DEF PersistInv, PersistTypeOK
<1>1. /\ root[m] = 0 /\ root' = [root EXCEPT ![m] = r] /\ parentOf' = [parentOf EXCEPT ![m] = IF r = m THEN 0 ELSE id[1]]
      /\ status' = [status EXCEPT ![m] = "pending"] /\ inTree' = inTree \cup {m} /\ manager' = manager \cup {r}
      /\ born' = [born EXCEPT ![m] = run] /\ caught' = IF clearing = Everything THEN caught \cup {m} ELSE caught
      /\ active' = active /\ disk' = disk /\ clearing' = clearing /\ run' = run
      /\ index' = [i \in Ids |-> IF i[1] = m THEN r ELSE index[i]]
      /\ stored' = [stored EXCEPT ![r] = Saved(inTree', status', r)]
      /\ storedIndex' = [i \in Ids |-> IF i[1] = m THEN r ELSE storedIndex[i]]
  BY DEF Arrive, Register
<1>2. /\ r \in Messages /\ (r = m \/ r \in manager)
      /\ Resolves(id) => id[1] \in inTree /\ root[id[1]] = r /\ r # m /\ root[r] = r
      /\ m \notin manager /\ m \notin inTree
  <2>1. m \notin manager
    <3>1. \A c \in Messages : root[c] # m
      BY <1>1, EverythingApart DEF TreesFormed
    <3> QED BY <3>1 DEF TreesFormed
  <2>2. Resolves(id) => id[1] \in inTree /\ root[id[1]] = index[id] /\ index[id] \in manager
    BY DEF Resolves
  <2>3. m \notin inTree
    BY <1>1 DEF TreesFormed
  <2>4. Resolves(id) => root[index[id]] = index[id]
    BY <2>2, EverythingApart DEF TreesFormed
  <2> QED BY <2>1, <2>2, <2>3, <2>4
<1> HIDE DEF r
<1>3. /\ \A c \in Messages : root'[c] = IF c = m THEN r ELSE root[c]
      /\ \A c \in Messages : parentOf'[c] = IF c = m THEN (IF r = m THEN 0 ELSE id[1]) ELSE parentOf[c]
      /\ \A c \in Messages : status'[c] = IF c = m THEN "pending" ELSE status[c]
      /\ \A c \in Messages : born'[c] = IF c = m THEN run ELSE born[c]
      /\ \A c \in Messages : /\ index'[<<c, "node">>] = IF c = m THEN r ELSE index[<<c, "node">>]
                             /\ index'[<<c, "status">>] = IF c = m THEN r ELSE index[<<c, "status">>]
      /\ \A c \in Messages : /\ storedIndex'[<<c, "node">>] = IF c = m THEN r ELSE storedIndex[<<c, "node">>]
                             /\ storedIndex'[<<c, "status">>] = IF c = m THEN r ELSE storedIndex[<<c, "status">>]
  BY <1>1, IdsOf
<1>0. inTree' = inTree \cup {m} /\ manager' = manager \cup {r}
  BY <1>1
<1>4. \A q : Caught(q) => Caught(q)'
  BY <1>1, <1>3 DEF Caught, TreesFormed
<1>5. status' \in [Messages -> States]
  BY <1>1 DEF States
<1>6. /\ \A q, c \in Messages :
          stored'[q][c] = IF q = r THEN (IF c \in inTree' /\ root'[c] = r THEN status'[c] ELSE "none") ELSE stored[q][c]
      /\ stored' \in Files
  <2>1. Saved(inTree', status', r) \in [Messages -> States]
    BY <1>5, SavedStates
  <2>2. \A c \in Messages : Saved(inTree', status', r)[c] = IF c \in inTree' /\ root'[c] = r THEN status'[c] ELSE "none"
    BY DEF Saved
  <2> HIDE DEF States
  <2> QED BY <1>1, <1>2, <2>1, <2>2 DEF Files
<1>7. \A c \in Messages : (c # m => root[c] # m) /\ (root[c] \in Messages => c # m)
  BY <1>1, EverythingApart DEF TreesFormed
<1>8. \A c \in Messages : c # m => (Here(c)' <=> Here(c))
  BY <1>1, <1>2, <1>3, <1>7 DEF Here
<1>9. PersistTypeOK'
  <2>1. root' \in [Messages -> Messages \cup {0}] /\ born' \in [Messages -> Nat]
    BY <1>1, <1>2
  <2>2. \A i \in Ids : i[1] \in Messages
    BY DEF Ids
  <2>3. index' \in Indexes /\ storedIndex' \in Indexes
    BY <1>1, <1>2, <2>2 DEF Indexes
  <2>4. parentOf' \in [Messages -> Messages \cup {0}]
    BY <1>1, <2>2
  <2> QED BY <1>1, <1>2, <1>5, <1>6, <2>1, <2>3, <2>4
<1>10. TreesFormed'
  <2>1. r # m => root[r] = r
    BY <1>2, EverythingApart DEF TreesFormed
  <2>2. ASSUME NEW c \in Messages, root'[c] # 0 PROVE root'[root'[c]] = root'[c]
    <3>1. CASE c = m BY <1>2, <1>3, <2>1, <3>1
    <3>2. CASE c # m BY <1>3, <1>7, <2>2, <3>2 DEF TreesFormed
    <3> QED BY <3>1, <3>2
  <2>3. \A c \in inTree' : root'[c] # 0 /\ status'[c] # "none"
    BY <1>1, <1>2, <1>3, EverythingApart DEF TreesFormed
  <2>4. ASSUME NEW c \in Messages, parentOf'[c] # 0 PROVE root'[parentOf'[c]] # 0 /\ root'[c] = root'[parentOf'[c]]
    <3>1. CASE c = m
      <4>1. r # m /\ parentOf'[c] = id[1] /\ root'[c] = r
        BY <1>3, <2>4, <3>1
      <4>2. Resolves(id)
        BY <4>1 DEF r
      <4>3. id[1] \in inTree /\ root[id[1]] = r /\ id[1] # m
        BY <1>2, <4>2
      <4> QED BY <1>2, <1>3, <4>1, <4>3, EverythingApart
    <3>2. CASE c # m
      <4>1. parentOf'[c] = parentOf[c] /\ parentOf[c] \in Messages
        BY <1>3, <2>4, <3>2
      <4>2. root[parentOf[c]] # 0 /\ root[c] = root[parentOf[c]]
        BY <2>4, <4>1 DEF TreesFormed
      <4> QED BY <1>1, <1>3, <3>2, <4>1, <4>2
    <3> QED BY <3>1, <3>2
  <2>5. manager' \subseteq {root'[c] : c \in Messages}
    <3>1. \A q \in manager : \E c \in Messages : root[c] = q /\ c # m
      BY <1>7 DEF TreesFormed
    <3> QED BY <1>1, <1>3, <3>1
  <2>6. clearing' \in Messages => root'[clearing'] \in manager'
    BY <1>1, <1>3, <1>7 DEF TreesFormed
  <2>7. \A c \in caught' : root'[c] # 0
    BY <1>1, <1>2, <1>3, EverythingApart DEF TreesFormed
  <2> QED BY <2>2, <2>3, <2>4, <2>5, <2>6, <2>7 DEF TreesFormed
<1>11. AliveKnown'
  <2>1. ASSUME NEW c \in Messages, Alive(c)', c # m
        PROVE (Here(c)' => born'[c] = run') /\ (root'[c] \in manager' \/ Caught(root[c])')
              /\ (clearing' = Everything => Caught(root[c])')
    <3>1. Alive(c)
      BY <1>1, <1>3, <2>1 DEF Alive
    <3>2. (Here(c) => born[c] = run) /\ (root[c] \in manager \/ Caught(root[c])) /\ (clearing = Everything => Caught(root[c]))
      BY <3>1 DEF AliveKnown
    <3>3. root'[c] = root[c] /\ born'[c] = born[c] /\ (Here(c)' <=> Here(c))
      BY <1>3, <1>8, <2>1
    <3> QED BY <1>1, <1>4, <3>2, <3>3
  <2>2. clearing = Everything => Caught(root[m])'
    BY <1>1 DEF Caught
  <2>3. born'[m] = run' /\ root'[m] \in manager'
    BY <1>1, <1>3
  <2> QED BY <1>1, <2>1, <2>2, <2>3 DEF AliveKnown
<1>12. ASSUME NEW c \in Messages, c # m, Here(c), ~Caught(root[c])
       PROVE  /\ Resolves(<<c, "node">>) /\ Resolves(<<c, "status">>) /\ stored[root[c]][c] # "none"
              /\ storedIndex[<<c, "node">>] = root[c] /\ storedIndex[<<c, "status">>] = root[c]
  BY <1>12 DEF Repliable
<1>13. Indexed(stored, storedIndex)'
  <2> SUFFICES ASSUME NEW q \in Messages, NEW c \in Messages, stored'[q][c] # "none"
               PROVE  root'[c] = q /\ (~Caught(q)' => storedIndex'[<<c, "node">>] = q /\ storedIndex'[<<c, "status">>] = q)
    BY DEF Indexed
  <2>1. CASE q # r
    <3>1. stored[q][c] # "none" BY <1>6, <2>1
    <3>2. root[c] = q BY <3>1 DEF Indexed
    <3>3. c # m BY <1>7, <3>2
    <3>4. ~Caught(q) => storedIndex[<<c, "node">>] = q /\ storedIndex[<<c, "status">>] = q BY <3>1 DEF Indexed
    <3> QED BY <1>3, <1>4, <3>2, <3>3, <3>4
  <2>2. CASE q = r /\ c = m
    BY <1>3, <2>2
  <2>3. CASE q = r /\ c # m
    <3>0. c \in inTree' /\ root'[c] = r BY <1>6, <2>3
    <3>1. c \in inTree /\ root[c] = r /\ root'[c] = r BY <1>0, <1>3, <2>3, <3>0
    <3>2. Here(c) BY <1>2, <1>7, <2>3, <3>1 DEF Here
    <3> QED BY <1>3, <1>4, <1>12, <2>3, <3>1, <3>2
  <2> QED BY <2>1, <2>2, <2>3
<1>14. Indexed(disk.trees, disk.index)'
  <2> SUFFICES ASSUME NEW q \in Messages, NEW c \in Messages, disk.trees[q][c] # "none"
               PROVE  root'[c] = q /\ (~Caught(q)' => disk.index[<<c, "node">>] = q /\ disk.index[<<c, "status">>] = q)
    BY <1>1 DEF Indexed
  <2>1. root[c] = q /\ (~Caught(q) => disk.index[<<c, "node">>] = q /\ disk.index[<<c, "status">>] = q)
    BY DEF Indexed
  <2>2. c # m BY <1>7, <2>1
  <2> QED BY <1>3, <1>4, <2>1, <2>2
<1>15. Repliable'
  <2> SUFFICES ASSUME NEW c \in Messages, Here(c)', ~Caught(root[c])'
               PROVE  /\ Resolves(<<c, "node">>)' /\ Resolves(<<c, "status">>)' /\ stored'[root'[c]][c] # "none"
                      /\ storedIndex'[<<c, "node">>] = root'[c] /\ storedIndex'[<<c, "status">>] = root'[c]
    BY DEF Repliable
  <2>1. CASE c = m
    <3>1. root'[m] = r /\ index'[<<m, "node">>] = r /\ index'[<<m, "status">>] = r
      BY <1>3
    <3>2. stored'[r][m] = "pending"
      BY ZenonT(60), <1>1, <1>2, <1>3, <1>6
    <3>3. Resolves(<<m, "node">>)' /\ Resolves(<<m, "status">>)'
      BY <1>0, <3>1 DEF Resolves
    <3> QED BY <1>3, <2>1, <3>1, <3>2, <3>3
  <2>2. CASE c # m
    <3>1. root'[c] = root[c] /\ Here(c) /\ c \in inTree
      BY <1>3, <1>8, <2>2 DEF Here
    <3>2. ~Caught(root[c])
      BY <1>4, <3>1
    <3>3. /\ Resolves(<<c, "node">>) /\ Resolves(<<c, "status">>) /\ stored[root[c]][c] # "none"
          /\ storedIndex[<<c, "node">>] = root[c] /\ storedIndex[<<c, "status">>] = root[c]
      BY <1>12, <2>2, <3>1, <3>2
    <3>4. Resolves(<<c, "node">>)' /\ Resolves(<<c, "status">>)'
      BY <1>0, <1>3, <2>2, <3>1, <3>3 DEF Resolves
    <3>5. stored'[root[c]][c] # "none"
      <4>1. status'[c] # "none" /\ c \in inTree' /\ root[c] \in Messages
        BY <1>0, <1>3, <2>2, <3>1 DEF TreesFormed, Here
      <4> QED BY <1>6, <3>1, <3>3, <4>1
    <3> QED BY <1>3, <2>2, <3>1, <3>3, <3>4, <3>5
  <2> QED BY <2>1, <2>2
<1>16. GhostsExplained'
  <2> SUFFICES ASSUME NEW q \in Messages, stored'[q] # NoTree, q \notin manager' PROVE Caught(q)'
    BY DEF GhostsExplained, NoTree
  <2>1. q # r /\ q \notin manager BY <1>1
  <2>2. stored'[q] = stored[q] BY <1>1, <2>1
  <2> QED BY <1>4, <2>1, <2>2 DEF GhostsExplained
<1> QED BY <1>9, <1>10, <1>11, <1>13, <1>14, <1>15, <1>16 DEF PersistInv

LEMMA BranchClearedKeeps ==
  ASSUME PersistInv, BranchCleared
  PROVE  PersistInv'
<1> DEFINE m == clearing
           gone == IF root[m] = m THEN Tree(m) ELSE Branch(m)
<1> USE DEF PersistInv, PersistTypeOK
<1>1. /\ m \in Messages /\ clearing' = 0 /\ root' = root /\ parentOf' = parentOf /\ born' = born
      /\ disk' = disk /\ caught' = caught /\ run' = run /\ root[m] \in manager
      /\ index' = WithoutNodes(index, gone) /\ storedIndex' = WithoutNodes(storedIndex, gone)
  BY DEF BranchCleared, nodeVars, TreesFormed
<1>2. \A c \in gone : c \in Messages /\ root[c] = root[m]
  <2>1. CASE root[m] = m
    BY <2>1 DEF Tree
  <2>2. CASE root[m] # m
    BY <1>1, <2>2, BranchInTree, EverythingApart
  <2> QED BY <2>1, <2>2
<1>3. \/ /\ root[m] = m /\ gone = Tree(m)
         /\ status' = [c \in Messages |-> IF c \in gone /\ status[c] \in Unsettled THEN "error" ELSE status[c]]
         /\ active' = {c \in active : root[c] # m} /\ manager' = manager \ {m} /\ inTree' = inTree
         /\ stored' = [stored EXCEPT ![m] = NoTree]
      \/ /\ root[m] # m
         /\ status' = status /\ active' = active /\ manager' = manager /\ inTree' = inTree \ gone
         /\ stored' = [stored EXCEPT ![root[m]] = Saved(inTree \ gone, status, root[m])]
  BY DEF BranchCleared
<1> HIDE DEF gone
<1>4. \A q : Caught(q)' <=> Caught(q)
  BY <1>1 DEF Caught
<1>5. status' \in [Messages -> States] /\ \A c \in inTree' : c \in inTree /\ status'[c] # "none"
  BY <1>3 DEF States, TreesFormed
<1>6. /\ \A k \in Messages : /\ index'[<<k, "node">>] = IF k \in gone THEN 0 ELSE index[<<k, "node">>]
                             /\ index'[<<k, "status">>] = index[<<k, "status">>]
                             /\ storedIndex'[<<k, "node">>] = IF k \in gone THEN 0 ELSE storedIndex[<<k, "node">>]
                             /\ storedIndex'[<<k, "status">>] = storedIndex[<<k, "status">>]
      /\ index' \in Indexes /\ storedIndex' \in Indexes
  BY <1>1, IdsOf DEF WithoutNodes, Indexes
<1>7. /\ stored' \in Files
      /\ \A q, c \in Messages : stored'[q][c] # "none" =>
            c \notin gone /\ (stored[q][c] # "none" \/ (q = root[m] /\ c \in inTree /\ root[c] = q))
      /\ \A q \in Messages : q # root[m] => stored'[q] = stored[q]
      /\ root[m] = m => stored'[m] = NoTree
      /\ root[m] # m => \A c \in Messages : c \in inTree \ gone /\ root[c] = root[m] => stored'[root[m]][c] = status[c]
  <2>1. CASE root[m] = m
    <3>1. NoTree \in [Messages -> States] /\ \A c \in Messages : NoTree[c] = "none"
      BY DEF NoTree, States
    <3>2. stored' = [stored EXCEPT ![m] = NoTree]
      BY <1>3, <2>1
    <3>3. stored' \in Files
      BY <1>1, <3>1, <3>2 DEF Files
    <3>4. \A q, c \in Messages : stored[q][c] # "none" => root[c] = q
      BY DEF Indexed
    <3>5. \A q, c \in Messages : stored'[q][c] # "none" => q # m /\ stored[q][c] # "none"
      BY <1>1, <3>1, <3>2 DEF Files
    <3> QED BY <1>1, <1>2, <2>1, <3>2, <3>3, <3>4, <3>5 DEF Files
  <2>2. CASE root[m] # m
    <3> DEFINE s == Saved(inTree \ gone, status, root[m])
    <3>1. s \in [Messages -> States]
      BY SavedStates
    <3>2. \A c \in Messages : s[c] = IF c \in inTree \ gone /\ root[c] = root[m] THEN status[c] ELSE "none"
      BY <1>1 DEF Saved
    <3>3. stored' = [stored EXCEPT ![root[m]] = s]
      BY <1>3, <2>2
    <3> HIDE DEF s
    <3>4. stored' \in Files
      BY <1>1, <3>1, <3>3 DEF Files
    <3>5. \A q, c \in Messages : stored[q][c] # "none" => root[c] = q
      BY DEF Indexed
    <3> QED BY <1>1, <1>2, <2>2, <3>2, <3>3, <3>4, <3>5 DEF Files
  <2> QED BY <2>1, <2>2
<1>8. PersistTypeOK'
  BY <1>1, <1>3, <1>5, <1>6, <1>7
<1>9. TreesFormed'
  BY <1>1, <1>3, <1>5, EverythingApart DEF TreesFormed
<1>10. \A c \in Messages : Alive(c)' => Alive(c) /\ (root[m] = m => root[c] # m)
  BY <1>1, <1>3 DEF Alive, Tree, Unsettled
<1>11. \A c \in Messages : Here(c)' => Here(c) /\ c \notin gone
  <2> SUFFICES ASSUME NEW c \in Messages, Here(c)' PROVE Here(c) /\ c \notin gone
    OBVIOUS
  <2>1. CASE root[m] = m
    BY <1>1, <1>2, <1>3, <2>1 DEF Here
  <2>2. CASE root[m] # m
    BY <1>1, <1>3, <2>2 DEF Here
  <2> QED BY <2>1, <2>2
<1>12. AliveKnown'
  BY <1>1, <1>3, <1>4, <1>10, <1>11, EverythingApart DEF AliveKnown
<1>13. Indexed(disk.trees, disk.index)'
  BY <1>1, <1>4 DEF Indexed
<1>14. Indexed(stored, storedIndex)'
  <2> SUFFICES ASSUME NEW q \in Messages, NEW c \in Messages, stored'[q][c] # "none"
               PROVE  root[c] = q /\ (~Caught(q) => storedIndex'[<<c, "node">>] = q /\ storedIndex'[<<c, "status">>] = q)
    BY <1>1, <1>4 DEF Indexed
  <2>1. CASE stored[q][c] # "none" /\ c \notin gone
    BY <1>6, <2>1 DEF Indexed
  <2>2. CASE q = root[m] /\ c \in inTree /\ c \notin gone /\ root[c] = q
    <3>1. Here(c) BY <1>1, <2>2 DEF Here
    <3> QED BY <1>6, <2>2, <3>1 DEF Repliable
  <2> QED BY <1>7, <2>1, <2>2
<1>15. Repliable'
  <2> SUFFICES ASSUME NEW c \in Messages, Here(c)', ~Caught(root[c])
               PROVE  /\ Resolves(<<c, "node">>)' /\ Resolves(<<c, "status">>)' /\ stored'[root[c]][c] # "none"
                      /\ storedIndex'[<<c, "node">>] = root[c] /\ storedIndex'[<<c, "status">>] = root[c]
    BY <1>1, <1>4 DEF Repliable
  <2>1. /\ Resolves(<<c, "node">>) /\ Resolves(<<c, "status">>) /\ stored[root[c]][c] # "none"
        /\ storedIndex[<<c, "node">>] = root[c] /\ storedIndex[<<c, "status">>] = root[c]
    BY <1>11 DEF Repliable
  <2>2. c \notin gone /\ root[c] \in manager' /\ c \in inTree' /\ root[c] \in Messages /\ c \in inTree
    BY <1>1, <1>11 DEF Here
  <2>3. Resolves(<<c, "node">>)' /\ Resolves(<<c, "status">>)'
    BY <1>1, <1>6, <2>1, <2>2 DEF Resolves
  <2>4. stored'[root[c]][c] # "none"
    <3>1. CASE root[c] = root[m] /\ root[m] = m
      BY <1>3, <2>2, <3>1
    <3>2. CASE root[c] = root[m] /\ root[m] # m
      BY <1>7, <2>2, <3>2 DEF TreesFormed
    <3>3. CASE root[c] # root[m]
      BY <1>7, <2>1, <2>2, <3>3
    <3> QED BY <3>1, <3>2, <3>3
  <2> QED BY <1>6, <2>1, <2>2, <2>3, <2>4
<1>16. GhostsExplained'
  <2> SUFFICES ASSUME NEW q \in Messages, stored'[q] # NoTree, q \notin manager' PROVE Caught(q)
    BY <1>4 DEF GhostsExplained, NoTree
  <2>1. q \notin manager /\ q # root[m]
    BY <1>1, <1>3, <1>7
  <2> QED BY <1>7, <2>1 DEF GhostsExplained
<1> QED BY <1>8, <1>9, <1>12, <1>13, <1>14, <1>15, <1>16 DEF PersistInv

LEMMA StoreEmptiedOrWritten ==
  ASSUME PersistInv, AllCleared \/ WriteStore
  PROVE  PersistInv'
<1> USE DEF PersistInv, PersistTypeOK
<1>1. NoTree \in [Messages -> States] /\ NoIndex \in Indexes /\ \A c \in Messages : NoTree[c] = "none"
  BY DEF NoTree, States, NoIndex, Indexes
<1>2. CASE AllCleared
  <2>1. /\ clearing = Everything /\ clearing' = 0 /\ root' = root /\ parentOf' = parentOf /\ born' = born /\ status' = status
        /\ inTree' = inTree /\ active' = active /\ caught' = caught /\ run' = run
        /\ stored' = [r \in Messages |-> NoTree] /\ storedIndex' = NoIndex
        /\ disk' = [trees |-> stored', index |-> storedIndex'] /\ manager' = {} /\ index' = NoIndex
    BY <1>2 DEF AllCleared, nodeVars
  <2>2. stored' \in Files /\ \A q, c \in Messages : stored'[q][c] = "none"
    BY <1>1, <2>1 DEF Files
  <2>3. disk' \in [trees : Files, index : Indexes] /\ disk'.trees = stored' /\ disk'.index = storedIndex'
    BY <1>1, <2>1, <2>2
  <2>4. PersistTypeOK'
    BY <1>1, <2>1, <2>2, <2>3
  <2>5. TreesFormed'
    BY <2>1, EverythingApart DEF TreesFormed
  <2>6. \A q : Caught(q)' <=> Caught(q)
    BY <2>1 DEF Caught
  <2>7. \A c \in Messages : ~Here(c)'
    BY <2>1 DEF Here
  <2>8. AliveKnown'
    BY <2>1, <2>6, <2>7, EverythingApart DEF AliveKnown, Alive
  <2>9. Indexed(stored, storedIndex)' /\ Indexed(disk.trees, disk.index)'
    BY <2>2, <2>3 DEF Indexed
  <2>10. Repliable' /\ GhostsExplained'
    BY <2>1, <2>7 DEF Repliable, GhostsExplained, NoTree
  <2> QED BY <2>4, <2>5, <2>8, <2>9, <2>10 DEF PersistInv
<1>3. CASE WriteStore
  <2>1. /\ UNCHANGED <<root, parentOf, born, status, inTree, active, manager, index, stored, storedIndex, clearing, caught, run>>
        /\ disk' = [trees |-> stored, index |-> storedIndex]
    BY <1>3 DEF WriteStore, nodeVars, memVars, storeVars
  <2>2. disk' \in [trees : Files, index : Indexes] /\ disk'.trees = stored /\ disk'.index = storedIndex
    BY <2>1
  <2>3. PersistTypeOK'
    BY <2>1, <2>2
  <2>4. TreesFormed' /\ AliveKnown' /\ Repliable' /\ GhostsExplained'
    BY <2>1 DEF TreesFormed, AliveKnown, Alive, Here, Caught, Repliable, Resolves, GhostsExplained, NoTree
  <2>5. Indexed(stored, storedIndex)' /\ Indexed(disk.trees, disk.index)'
    BY <2>1, <2>2 DEF Indexed, Caught
  <2> QED BY <2>3, <2>4, <2>5 DEF PersistInv
<1> QED BY <1>2, <1>3

LEMMA RestartKeeps ==
  ASSUME PersistInv, Restart
  PROVE  PersistInv'
<1> DEFINE roots == {r \in Messages : disk.trees[r] # NoTree}
           rebuilt(r) == [m \in Messages |-> Cleaned(disk.trees[r][m])]
<1> USE DEF PersistInv, PersistTypeOK
<1>1. /\ run' = run + 1 /\ root' = root /\ parentOf' = parentOf /\ born' = born /\ disk' = disk /\ caught' = caught
      /\ inTree' = {m \in Messages : \E r \in roots : disk.trees[r][m] # "none"}
      /\ status' = [m \in Messages |-> IF m \in inTree' THEN rebuilt(root[m])[m] ELSE status[m]]
      /\ manager' = roots /\ index' = (IF roots = {} THEN NoIndex ELSE disk.index) /\ active' = {} /\ clearing' = 0
      /\ stored' = [r \in Messages |-> IF r \in roots THEN rebuilt(r) ELSE NoTree] /\ storedIndex' = disk.index
  BY DEF Restart, nodeVars
<1>2. /\ disk.trees \in Files /\ disk.index \in Indexes /\ NoTree \in [Messages -> States] /\ NoIndex \in Indexes
      /\ \A c \in Messages : NoTree[c] = "none"
  BY DEF NoTree, States, NoIndex, Indexes
<1>3. \A q, c \in Messages : disk.trees[q][c] \in States
  BY <1>2 DEF Files
<1>4. \A s \in States : Cleaned(s) \in States /\ (Cleaned(s) = "none" <=> s = "none") /\ Cleaned(s) \notin Unsettled
  BY DEF Cleaned, Unsettled, States
<1>5. \A q, c \in Messages : disk.trees[q][c] # "none" =>
        q \in roots /\ root[c] = q /\ (~Caught(q) => disk.index[<<c, "node">>] = q /\ disk.index[<<c, "status">>] = q)
  BY <1>2 DEF Indexed
<1>6. \A q \in roots : \E c \in Messages : disk.trees[q][c] # "none" /\ root[c] = q
  <2> TAKE q \in roots
  <2>1. disk.trees[q] = [c \in Messages |-> disk.trees[q][c]]
    BY <1>2 DEF Files
  <2>2. PICK c \in Messages : disk.trees[q][c] # "none"
    BY <2>1 DEF NoTree
  <2>3. q \in Messages /\ root[c] = q
    BY <1>5, <2>2
  <2> QED BY <2>2, <2>3
<1>7. \A c \in inTree' : c \in Messages /\ root[c] \in roots /\ disk.trees[root[c]][c] # "none"
  BY ZenonT(60), <1>1, <1>5
<1> HIDE DEF roots
<1>8. \A q, c \in Messages : stored'[q][c] = IF q \in roots THEN Cleaned(disk.trees[q][c]) ELSE "none"
  BY <1>1, <1>2
<1>9. \A q \in Messages : stored'[q] \in [Messages -> States]
  BY <1>1, <1>2, <1>3, <1>4
<1>10. stored' \in Files
  <2> HIDE DEF States
  <2> QED BY <1>1, <1>9 DEF Files
<1>11. \A c \in Messages : status'[c] = IF c \in inTree' THEN Cleaned(disk.trees[root[c]][c]) ELSE status[c]
  BY <1>1
<1>12. status' \in [Messages -> States]
  <2>1. \A c \in Messages : status'[c] \in States
    BY <1>3, <1>4, <1>7, <1>11 DEF roots
  <2> HIDE DEF States
  <2> QED BY <1>1, <2>1
<1>13. PersistTypeOK'
  BY <1>1, <1>2, <1>10, <1>12 DEF roots
<1>14. TreesFormed'
  <2>1. \A c \in inTree' : root[c] # 0 /\ status'[c] # "none"
    BY <1>3, <1>4, <1>7, <1>11, EverythingApart DEF roots
  <2>2. roots \subseteq {root[c] : c \in Messages}
    BY <1>6
  <2> QED BY <1>1, <2>1, <2>2, EverythingApart DEF TreesFormed
<1>15. \A q : Caught(q)' <=> Caught(q)
  BY <1>1 DEF Caught
<1>16. AliveKnown'
  <2>1. \A c \in Messages : ~Alive(c)'
    BY <1>1, <1>3, <1>4, <1>7, <1>11 DEF Alive, roots
  <2> QED BY <2>1 DEF AliveKnown
<1>17. Indexed(stored, storedIndex)'
  <2>1. \A q, c \in Messages : stored'[q][c] # "none" => disk.trees[q][c] # "none"
    BY <1>3, <1>4, <1>8
  <2> QED BY <1>1, <1>5, <1>15, <2>1 DEF Indexed
<1>18. Indexed(disk.trees, disk.index)'
  BY <1>1, <1>15 DEF Indexed
<1>19. Repliable'
  <2> SUFFICES ASSUME NEW c \in Messages, Here(c)', ~Caught(root[c])
               PROVE  /\ Resolves(<<c, "node">>)' /\ Resolves(<<c, "status">>)' /\ stored'[root[c]][c] # "none"
                      /\ storedIndex'[<<c, "node">>] = root[c] /\ storedIndex'[<<c, "status">>] = root[c]
    BY <1>1, <1>15 DEF Repliable
  <2>1. c \in inTree' /\ root[c] \in roots /\ root[c] \in Messages /\ disk.trees[root[c]][c] # "none"
    BY <1>7 DEF Here, roots
  <2>2. index' = disk.index /\ index'[<<c, "node">>] = root[c] /\ index'[<<c, "status">>] = root[c]
    BY <1>1, <1>5, <2>1
  <2>3. stored'[root[c]][c] # "none"
    BY <1>3, <1>4, <1>8, <2>1
  <2> QED BY <1>1, <2>1, <2>2, <2>3 DEF Resolves
<1>20. GhostsExplained'
  BY <1>1, <1>2 DEF GhostsExplained, NoTree
<1> QED BY <1>13, <1>14, <1>16, <1>17, <1>18, <1>19, <1>20 DEF PersistInv

LEMMA PersistStep == PersistInv /\ [PersistNext]_persistVars => PersistInv'
<1> SUFFICES ASSUME PersistInv, [PersistNext]_persistVars PROVE PersistInv'
  OBVIOUS
<1>1. ASSUME NEW m \in Messages, NEW id \in Ids, Arrive(m, id) PROVE PersistInv'
  BY <1>1, ArriveKeeps
<1>2. ASSUME NEW m \in Messages,
             \/ Begin(m) \/ (\E new \in {"in_progress", "completed"} : Progress(m, new)) \/ Fails(m) \/ TaskOver(m)
             \/ StopNode(m) \/ ClearBranch(m)
      PROVE  PersistInv'
  BY <1>2, PersistStates
<1>3. CASE ClearAll
  BY <1>3, ClearAllKeeps
<1>4. CASE BranchCleared \/ AllCleared \/ WriteStore \/ Restart
  BY <1>4, BranchClearedKeeps, StoreEmptiedOrWritten, RestartKeeps
<1>5. CASE UNCHANGED persistVars
  BY <1>5 DEF persistVars, nodeVars, memVars, storeVars, PersistInv, PersistTypeOK, TreesFormed, AliveKnown, Alive, Here,
              Caught, Indexed, Repliable, Resolves, GhostsExplained, NoTree
<1> QED BY <1>1, <1>2, <1>3, <1>4, <1>5, IdsOf DEF PersistNext

\* What memory, the index and the file have of each tree fits together, through
\* commands, saves and restarts.
THEOREM PersistInvariant == PersistSpec => []PersistInv
<1>1. PersistInit => PersistInv
  BY PersistInitInv
<1>2. PersistInv /\ [PersistNext]_persistVars => PersistInv'
  BY PersistStep
<1> QED BY <1>1, <1>2, PTL DEF PersistSpec

\* A restart finds the conversations as they were left.
THEOREM RecoverableCorrect == PersistSpec => []Recoverable
<1>1. PersistInv => Recoverable
  BY DEF PersistInv, AliveKnown, Alive, Here, Recoverable, SettledAfterRestart
<1> QED BY <1>1, PersistInvariant, PTL

\* A restart brings back no tree that a global /clear removed, unless one of its
\* messages arrived while that was deleting the chat.
THEOREM GhostsExplainedCorrect == PersistSpec => []GhostsExplained
<1>1. PersistInv => GhostsExplained
  BY DEF PersistInv
<1> QED BY <1>1, PersistInvariant, PTL

-----------------------------------------------------------------------------

\* The ids of calls.
Named(t) == <<"t", t>>
Zeros(n) == <<"t">> \o [i \in 1..n |-> 0]
StackIds == {Named(t) : t \in Nat} \cup {Zeros(n) : n \in Nat} \cup {Synthetic(d) : d \in Nat}

TranscriptTypeOK ==
    /\ style \in Styles /\ task \in [Subtasks -> {"none", "running", "over"}]
    /\ stack \in Seq(StackIds) /\ segments \in Seq([from : Subtasks \cup {0}, length : Lengths])
    /\ node \in {"running", "over"} /\ disorder \in BOOLEAN
    /\ \A t, u \in Subtasks : u < t /\ task[t] # "none" => task[u] # "none"

\* Where calls have names, the stack holds calls that are not answered, in order,
\* and all of them as long as nothing was taken for something else.
StackNamed ==
    /\ \A i \in 1..Len(stack) : \E t \in Running : stack[i] = Named(t)
    /\ \A i, j \in 1..Len(stack) : \A t, u \in Running : i < j /\ stack[i] = Named(t) /\ stack[j] = Named(u) => t < u
    /\ ~disorder => \A t \in Running : \E i \in 1..Len(stack) : stack[i] = Named(t)

\* Elsewhere it has no more entries than calls that are not answered.
StackCounted ==
    /\ Len(stack) <= Cardinality(Running)
    /\ ~disorder => Len(stack) = Cardinality(Running)
    /\ \A i \in 1..Len(stack) : IF style = "prefixed" THEN \E n \in Nat : stack[i] = Zeros(n) ELSE \E d \in Nat : stack[i] = Synthetic(d)

TranscriptInv ==
    /\ TranscriptTypeOK
    /\ IF style = "named" THEN StackNamed ELSE StackCounted
    /\ SubagentsQuiet /\ NewestShown

-----------------------------------------------------------------------------

LEMMA SubtasksFinite ==
  /\ Subtasks \subseteq Nat /\ 0 \notin Subtasks
  /\ \A S \in SUBSET Subtasks : IsFiniteSet(S) /\ Cardinality(S) \in Nat
<1> DEFINE n == Cardinality(Subtasks)
<1>1. n \in Nat /\ IsFiniteSet(Subtasks) /\ Subtasks = 1 .. n
  BY TranscriptAssumption, FS_CardinalityType
<1> HIDE DEF n
<1>2. Subtasks \subseteq Nat /\ 0 \notin Subtasks
  BY <1>1
<1>3. \A S \in SUBSET Subtasks : IsFiniteSet(S) /\ Cardinality(S) \in Nat
  BY <1>1, FS_Subset, FS_CardinalityType
<1> QED BY <1>2, <1>3

\* A set of indexes has a greatest and a least element.
LEMMA MaxMin ==
  ASSUME NEW n \in Nat, NEW S \in SUBSET (1 .. n), S # {}
  PROVE  /\ Max(S) \in S /\ \A k \in S : k <= Max(S)
         /\ Min(S) \in S /\ \A k \in S : Min(S) <= k
<1>1. \E m \in S : \A k \in S : m <= k
  BY LeastNatural
<1>2. \E m \in S : \A k \in S : k <= m
  <2> DEFINE T == {n - k : k \in S}
  <2>0. \A k \in S : k \in 1 .. n /\ n - k \in Nat
    OBVIOUS
  <2>1. T \in SUBSET Nat /\ T # {}
    BY <2>0
  <2> HIDE DEF T
  <2>2. PICK d \in T : \A e \in T : d <= e
    BY <2>1, LeastNatural
  <2>3. PICK m \in S : d = n - m
    BY DEF T
  <2>4. \A k \in S : n - m <= n - k
    BY <2>2, <2>3 DEF T
  <2> QED BY <2>4
<1>3. Min(S) \in S /\ \A k \in S : Min(S) <= k
  BY <1>1 DEF Min
<1>4. Max(S) \in S /\ \A k \in S : k <= Max(S)
  <2>1. \E m \in S : \A k \in S : m >= k
    BY <1>2
  <2>2. Max(S) \in S /\ \A k \in S : Max(S) >= k
    BY <2>1 DEF Max
  <2> QED BY <2>2
<1> QED BY <1>3, <1>4

\* Ids with names match when they are the same.
LEMMA NamedMatch ==
  /\ \A t, u \in Nat : RoughlyMatch(Named(t), Named(u)) <=> t = u
  /\ \A t \in Nat : ~RoughlyMatch(Named(t), <<"u">>) /\ ~IsSynthetic(Named(t))
<1>1. ASSUME NEW t \in Nat, NEW u \in Nat PROVE IsPrefix(Named(t), Named(u)) <=> t = u
  BY DEF IsPrefix, Named
<1>2. ASSUME NEW t \in Nat PROVE ~IsPrefix(Named(t), <<"u">>) /\ ~IsPrefix(<<"u">>, Named(t))
  BY DEF IsPrefix, Named
<1>3. \A t \in Nat : Named(t) # <<>> /\ ~IsSynthetic(Named(t))
  BY DEF Named, IsSynthetic
<1> QED BY <1>1, <1>2, <1>3 DEF RoughlyMatch

LEMMA ZerosIs ==
  ASSUME NEW n \in Nat
  PROVE  /\ Zeros(n) \in Seq({"t", 0}) /\ Len(Zeros(n)) = n + 1
         /\ Zeros(n)[1] = "t" /\ \A i \in 2 .. n + 1 : Zeros(n)[i] = 0
  BY DEF Zeros

\* Ids that begin alike match.
LEMMA ZerosMatch ==
  /\ \A m, n \in Nat : RoughlyMatch(Zeros(m), Zeros(n))
  /\ \A n \in Nat : ~IsSynthetic(Zeros(n)) /\ Zeros(n) # <<>>
<1>1. ASSUME NEW m \in Nat, NEW n \in Nat, m <= n PROVE IsPrefix(Zeros(m), Zeros(n))
  <2>1. Len(Zeros(m)) = m + 1 /\ Len(Zeros(n)) = n + 1 /\ Len(Zeros(m)) \in Nat
    BY ZerosIs
  <2>2. ASSUME NEW i \in 1 .. m + 1 PROVE Zeros(m)[i] = Zeros(n)[i]
    <3>1. CASE i = 1 BY <3>1, ZerosIs
    <3>2. CASE i # 1
      <4>1. i \in 2 .. m + 1 /\ i \in 2 .. n + 1 BY <1>1, <3>2
      <4>2. Zeros(m)[i] = 0 BY <4>1, ZerosIs
      <4>3. Zeros(n)[i] = 0 BY <4>1, ZerosIs
      <4> QED BY <4>2, <4>3
    <3> QED BY <3>1, <3>2
  <2>3. SubSeq(Zeros(m), 1, m + 1) = [i \in 1 .. m + 1 |-> Zeros(m)[i]]
    BY ZerosIs DEF SubSeq
  <2>4. SubSeq(Zeros(n), 1, m + 1) = [i \in 1 .. m + 1 |-> Zeros(n)[i]]
    BY ZerosIs DEF SubSeq
  <2>5. [i \in 1 .. m + 1 |-> Zeros(m)[i]] = [i \in 1 .. m + 1 |-> Zeros(n)[i]]
    BY <2>2
  <2>6. SubSeq(Zeros(m), 1, Len(Zeros(m))) = SubSeq(Zeros(n), 1, Len(Zeros(m)))
    BY <2>1, <2>3, <2>4, <2>5
  <2>7. Len(Zeros(m)) <= Len(Zeros(n))
    BY <1>1, <2>1
  <2> QED BY <2>6, <2>7 DEF IsPrefix
<1>2. \A n \in Nat : ~IsSynthetic(Zeros(n)) /\ Zeros(n) # <<>>
  BY SMTT(40), ZerosIs DEF IsSynthetic
<1> QED BY <1>1, <1>2 DEF RoughlyMatch

LEMMA SyntheticMatch ==
  /\ \A d, t \in Nat : ~RoughlyMatch(Synthetic(d), <<"task", t>>) /\ ~RoughlyMatch(Synthetic(d), <<"u">>)
  /\ \A d \in Nat : IsSynthetic(Synthetic(d)) /\ ~RoughlyMatch(Synthetic(d), <<>>)
<1>1. ASSUME NEW d \in Nat, NEW t \in Nat PROVE ~IsPrefix(Synthetic(d), <<"task", t>>) /\ ~IsPrefix(<<"task", t>>, Synthetic(d))
  BY DEF IsPrefix, Synthetic
<1>2. ASSUME NEW d \in Nat PROVE ~IsPrefix(Synthetic(d), <<"u">>) /\ ~IsPrefix(<<"u">>, Synthetic(d))
  BY DEF IsPrefix, Synthetic
<1>3. \A d \in Nat : IsSynthetic(Synthetic(d))
  BY DEF IsSynthetic, Synthetic
<1> QED BY <1>1, <1>2, <1>3 DEF RoughlyMatch

-----------------------------------------------------------------------------

\* A result with the name of an unanswered Task takes the stack back to its call;
\* any other leaves it.
LEMMA NamedPop ==
  ASSUME TranscriptTypeOK, StackNamed, style = "named", NEW t \in Subtasks
  PROVE  /\ \A i \in 1 .. Len(stack) : stack[i] = Named(t) => AfterResult(ResultId(t)) = SubSeq(stack, 1, i - 1)
         /\ (\A i \in 1 .. Len(stack) : stack[i] # Named(t)) => AfterResult(ResultId(t)) = stack
         /\ AfterResult(ToolId) = stack
<1>1. ResultId(t) = Named(t) /\ ToolId = <<"u">> /\ Named(t) # <<>> /\ t \in Nat
  BY SubtasksFinite DEF ResultId, CallId, ToolId, Named
<1>2. stack \in Seq(StackIds) /\ Len(stack) \in Nat /\ DOMAIN stack = 1 .. Len(stack)
  BY DEF TranscriptTypeOK
<1>3. \A i \in 1 .. Len(stack) : \E u \in Nat : stack[i] = Named(u)
  BY SubtasksFinite DEF StackNamed, Running
<1>4. stack # <<>> => ~IsSynthetic(Last(stack))
  <2>1. stack # <<>> => Len(stack) \in 1 .. Len(stack)
    BY <1>2
  <2> QED BY <1>3, <2>1, NamedMatch DEF Last
<1>5. \A id : AfterResult(id) = Pop(id)
  BY <1>4 DEF AfterResult
<1>6. \A u \in Nat : Named(u) = Named(t) => u = t
  BY DEF Named
<1>7. \A i \in 1 .. Len(stack) : (RoughlyMatch(stack[i], Named(t)) <=> stack[i] = Named(t)) /\ ~RoughlyMatch(stack[i], <<"u">>)
  BY <1>1, <1>3, <1>6, NamedMatch
<1>8. ASSUME NEW i \in 1 .. Len(stack), stack[i] = Named(t) PROVE Pop(Named(t)) = SubSeq(stack, 1, i - 1)
  <2> DEFINE found == {k \in DOMAIN stack : RoughlyMatch(stack[k], Named(t))}
  <2>1. t \in Running
    <3>1. PICK u \in Running : stack[i] = Named(u)
      BY DEF StackNamed
    <3> QED BY <1>6, <1>8, <3>1, SubtasksFinite DEF Running
  <2>2. \A k \in 1 .. Len(stack) : stack[k] = Named(t) => k = i
    <3>1. \A k, l \in 1 .. Len(stack) : k < l /\ stack[k] = Named(t) /\ stack[l] = Named(t) => t < t
      BY <2>1 DEF StackNamed
    <3> QED BY <1>1, <1>8, <3>1
  <2>3. found = {i}
    BY <1>2, <1>7, <1>8, <2>2
  <2>4. Max(found) = i
    BY <1>2, <2>3, MaxMin
  <2>5. Pop(Named(t)) = IF Named(t) # <<>> /\ found # {} THEN SubSeq(stack, 1, Max(found) - 1)
                        ELSE IF Named(t) = <<>> /\ stack # <<>> /\ IsSynthetic(Last(stack)) THEN Front(stack) ELSE stack
    BY DEF Pop
  <2> HIDE DEF found
  <2> QED BY <1>1, <2>3, <2>4, <2>5
<1>9. ASSUME NEW id, id # <<>>, \A k \in 1 .. Len(stack) : ~RoughlyMatch(stack[k], id) PROVE Pop(id) = stack
  <2>1. {k \in DOMAIN stack : RoughlyMatch(stack[k], id)} = {}
    BY <1>2, <1>9
  <2> QED BY <1>9, <2>1 DEF Pop
<1>10. (\A i \in 1 .. Len(stack) : stack[i] # Named(t)) => Pop(Named(t)) = stack
  BY <1>1, <1>7, <1>9
<1>11. Pop(<<"u">>) = stack
  BY <1>7, <1>9
<1> QED BY <1>1, <1>5, <1>8, <1>10, <1>11

\* Elsewhere a Task's result takes the newest entry away, and another tool's does
\* so at most.
LEMMA CountedPop ==
  ASSUME TranscriptTypeOK, StackCounted, style # "named"
  PROVE  /\ \A t \in Subtasks : AfterResult(ResultId(t)) = IF stack = <<>> THEN stack ELSE Front(stack)
         /\ \/ AfterResult(ToolId) = stack
            \/ /\ stack # <<>> /\ AfterResult(ToolId) = Front(stack)
               /\ ToolId = <<>> \/ (style = "prefixed" /\ ToolId = Zeros(9))
<1>1. stack \in Seq(StackIds) /\ Len(stack) \in Nat /\ DOMAIN stack = 1 .. Len(stack)
  BY DEF TranscriptTypeOK
<1>2. CASE style = "prefixed"
  <2>1. ASSUME NEW n \in Nat PROVE AfterResult(Zeros(n)) = IF stack = <<>> THEN stack ELSE Front(stack)
    <3> DEFINE found == {k \in DOMAIN stack : RoughlyMatch(stack[k], Zeros(n))}
    <3>1. found = 1 .. Len(stack)
      BY <1>1, <1>2, ZerosMatch DEF StackCounted
    <3>2. Pop(Zeros(n)) = IF found # {} THEN SubSeq(stack, 1, Max(found) - 1) ELSE stack
      BY ZerosMatch DEF Pop
    <3> HIDE DEF found
    <3>3. Pop(Zeros(n)) = IF stack = <<>> THEN stack ELSE Front(stack)
      <4>1. CASE stack = <<>>
        BY <3>1, <3>2, <4>1
      <4>2. CASE stack # <<>>
        <5>1. Len(stack) \in found /\ found # {} /\ found \in SUBSET (1 .. Len(stack))
          <6>1. Len(stack) \in 1 .. Len(stack)
            BY <1>1, <4>2
          <6> QED BY <3>1, <6>1
        <5>2. Max(found) = Len(stack)
          <6>1. Max(found) \in found /\ \A k \in found : k <= Max(found)
            BY <1>1, <5>1, MaxMin
          <6> QED BY <1>1, <3>1, <5>1, <6>1
        <5> QED BY <3>2, <4>2, <5>1, <5>2 DEF Front
      <4> QED BY <4>1, <4>2
    <3>4. stack # <<>> => ~IsSynthetic(Last(stack))
      <4>1. stack # <<>> => Len(stack) \in 1 .. Len(stack)
        BY <1>1
      <4> QED BY <1>2, <4>1, ZerosMatch DEF Last, StackCounted
    <3> QED BY <3>3, <3>4 DEF AfterResult
  <2>2. \A t \in Subtasks : ResultId(t) = Zeros(t) /\ t \in Nat
    BY <1>2, SubtasksFinite DEF ResultId, CallId, Zeros
  <2>3. ToolId = Zeros(9)
    BY <1>2 DEF ToolId, Zeros
  <2> QED BY <1>2, <2>1, <2>2, <2>3
<1>3. CASE style # "prefixed"
  <2>1. stack # <<>> => \E d \in Nat : Last(stack) = Synthetic(d)
    <3>1. stack # <<>> => Len(stack) \in 1 .. Len(stack)
      BY <1>1
    <3> QED BY <1>3, <3>1 DEF Last, StackCounted
  <2>2. ASSUME NEW id, id # <<>>, \A d \in Nat : ~RoughlyMatch(Synthetic(d), id) PROVE Pop(id) = stack
    <3>1. {k \in DOMAIN stack : RoughlyMatch(stack[k], id)} = {}
      BY <1>1, <1>3, <2>2 DEF StackCounted
    <3> QED BY <2>2, <3>1 DEF Pop
  <2>3. Pop(<<>>) = IF stack = <<>> THEN stack ELSE Front(stack)
    BY <2>1, SyntheticMatch DEF Pop
  <2>4. CASE style = "unnamed_call"
    <3>1. \A t \in Subtasks : ResultId(t) = <<"task", t>> /\ t \in Nat
      BY <2>4, SubtasksFinite DEF ResultId
    <3>2. ToolId = <<"u">>
      BY <2>4 DEF ToolId
    <3>3. ASSUME NEW t \in Subtasks PROVE AfterResult(ResultId(t)) = IF stack = <<>> THEN stack ELSE Front(stack)
      <4>1. Pop(<<"task", t>>) = stack /\ <<"task", t>> # <<>> /\ LooksLikeTask(<<"task", t>>)
        BY <2>2, <3>1, SyntheticMatch DEF LooksLikeTask
      <4> QED BY <2>1, <3>1, <4>1, SyntheticMatch DEF AfterResult
    <3>4. AfterResult(<<"u">>) = stack
      <4>1. Pop(<<"u">>) = stack /\ ~LooksLikeTask(<<"u">>)
        BY <2>2, SyntheticMatch DEF LooksLikeTask
      <4> QED BY <4>1 DEF AfterResult
    <3> QED BY <3>2, <3>3, <3>4
  <2>5. CASE style # "unnamed_call"
    <3>1. \A t \in Subtasks : ResultId(t) = <<>>
      BY <1>3, <2>5 DEF ResultId, CallId
    <3>2. ToolId = <<>>
      BY <1>3, <2>5 DEF ToolId
    <3>3. AfterResult(<<>>) = IF stack = <<>> THEN stack ELSE Front(stack)
      BY <2>3 DEF AfterResult
    <3> QED BY <3>1, <3>2, <3>3
  <2> QED BY <2>4, <2>5
<1> QED BY <1>2, <1>3

-----------------------------------------------------------------------------

\* How long the newest two segments are.
LEMMA PairLength ==
  ASSUME NEW S, NEW segs \in Seq([from : S, length : Nat]), Len(segs) > 1
  PROVE  FromSegment(segs, Len(segs) - 1) = segs[Len(segs) - 1].length + segs[Len(segs)].length + 1
<1> DEFINE n == Len(segs)
           pair == SubSeq(segs, n - 1, n)
           Iter(f) == f = [s \in SUBSET {1, 2} |-> IF s = {} THEN 0 ELSE f[s \ {Max(s)}] + pair[Max(s)].length + 1]
<1>1. n \in Nat /\ n > 1 /\ n \in 1 .. n /\ n - 1 \in 1 .. n
  OBVIOUS
<1>2. segs[n] \in [from : S, length : Nat] /\ segs[n - 1] \in [from : S, length : Nat]
  <2> DEFINE R == [from : S, length : Nat]
  <2>1. segs \in Seq(R)
    OBVIOUS
  <2> HIDE DEF R
  <2>2. segs[n] \in R /\ segs[n - 1] \in R
    BY <1>1, <2>1
  <2> QED BY <2>2 DEF R
<1> DEFINE a == segs[n - 1].length
           b == segs[n].length
<1>3. a \in Nat /\ b \in Nat
  BY <1>2
<1>4. pair[1] = segs[n - 1] /\ pair[2] = segs[n] /\ DOMAIN pair = {1, 2}
  BY <1>1 DEF SubSeq
<1>5. Max({1}) = 1 /\ Max({2}) = 2 /\ Max({1, 2}) = 2
  BY DEF Max
<1>0. {1} \ {Max({1})} = {} /\ {2} \ {Max({2})} = {} /\ {1, 2} \ {Max({1, 2})} = {1}
  BY <1>5
<1>6. FromSegment(segs, n - 1) = (CHOOSE f : Iter(f))[{1, 2}] - 1
  BY <1>4 DEF FromSegment, FoldLeft, MapThenFoldSet
<1>7. pair[1].length = a /\ pair[2].length = b
  BY <1>4
<1> HIDE DEF pair, a, b
<1>8. \A s \in SUBSET {1, 2} : s = {} \/ s = {1} \/ s = {2} \/ s = {1, 2}
  OBVIOUS
<1>9. \E f : Iter(f)
  <2> DEFINE g == [s \in SUBSET {1, 2} |-> IF s = {} THEN 0 ELSE IF s = {1} THEN a + 1 ELSE IF s = {2} THEN b + 1 ELSE a + 1 + b + 1]
             G(s) == IF s = {} THEN 0 ELSE g[s \ {Max(s)}] + pair[Max(s)].length + 1
  <2>1. g[{}] = 0 /\ g[{1}] = a + 1 /\ g[{2}] = b + 1 /\ g[{1, 2}] = a + 1 + b + 1
    OBVIOUS
  <2>3. g = [s \in SUBSET {1, 2} |-> g[s]]
    OBVIOUS
  <2> HIDE DEF g
  <2>4. G({}) = 0 /\ G({1}) = a + 1 /\ G({2}) = b + 1 /\ G({1, 2}) = a + 1 + b + 1
    <3>1. G({}) = 0
      OBVIOUS
    <3>2. G({1}) = g[{}] + a + 1
      BY <1>0, <1>5, <1>7
    <3>3. G({2}) = g[{}] + b + 1
      BY <1>0, <1>5, <1>7
    <3>4. G({1, 2}) = g[{1}] + b + 1
      BY <1>0, <1>5, <1>7
    <3> HIDE DEF G
    <3> QED BY <1>3, <2>1, <3>1, <3>2, <3>3, <3>4
  <2> HIDE DEF G
  <2>5. \A s \in SUBSET {1, 2} : g[s] = G(s)
    BY <1>8, <2>1, <2>4
  <2>6. g = [s \in SUBSET {1, 2} |-> G(s)]
    BY <2>3, <2>5
  <2>7. Iter(g)
    BY <2>6 DEF G
  <2> QED BY <2>7
<1> DEFINE f == CHOOSE f : Iter(f)
<1>10. Iter(f)
  BY <1>9
<1> HIDE DEF f
<1>11. \A s \in SUBSET {1, 2} : f[s] = IF s = {} THEN 0 ELSE f[s \ {Max(s)}] + pair[Max(s)].length + 1
  BY <1>10
<1>12. f[{}] = 0
  BY <1>11
<1>13. f[{1}] = a + 1
  <2>1. f[{1}] = f[{}] + a + 1
    BY <1>0, <1>5, <1>7, <1>11
  <2> QED BY <1>3, <1>12, <2>1
<1>14. f[{1, 2}] = a + 1 + b + 1
  <2>1. f[{1, 2}] = f[{1}] + b + 1
    BY <1>0, <1>5, <1>7, <1>11
  <2> QED BY <1>3, <1>13, <2>1
<1>15. FromSegment(segs, n - 1) = a + b + 1
  BY <1>3, <1>6, <1>14 DEF f
<1> QED BY <1>15 DEF a, b

\* What is shown of segments: enough of them, and not more than fits.
LEMMA RenderedWell ==
  ASSUME NEW S, NEW segs \in Seq([from : S, length : Nat]), Len(segs) > 0
  PROVE  /\ Render(segs).length <= Limit
         /\ Limit - Marker - StatusLength > MinTail => Render(segs).first <= Len(segs)
         /\ Render(segs).first = Len(segs) /\ Len(segs) > 1 =>
               Marker + StatusLength + segs[Len(segs)].length + segs[Len(segs) - 1].length + 1 > Limit
<1> DEFINE n == Len(segs)
           fit == {i \in 1 .. n : Marker + FromSegment(segs, i) + StatusLength <= Limit}
           whole == [first |-> 1, tail |-> 0, length |-> FromSegment(segs, 1) + StatusLength]
           part == [first |-> Min(fit), tail |-> 0, length |-> Marker + FromSegment(segs, Min(fit)) + StatusLength]
           cut == [first |-> n, tail |-> Budget - 3, length |-> Marker + Budget + StatusLength]
           none == [first |-> n + 1, tail |-> 0, length |-> Marker + StatusLength]
<1>1. n \in Nat /\ n > 0 /\ Limit \in Nat /\ Marker \in Nat /\ StatusLength \in Nat /\ MinTail \in Nat /\ Marker + StatusLength <= Limit
  BY TranscriptAssumption
<1>2. Render(segs) = IF FromSegment(segs, 1) + StatusLength <= Limit THEN whole
                     ELSE IF fit # {} THEN part ELSE IF Budget > MinTail /\ cut.length <= Limit THEN cut ELSE none
  BY <1>1 DEF Render
<1>3. cut.first = n /\ cut.length = Limit /\ Budget = Limit - Marker - StatusLength
  BY <1>1 DEF Budget
<1>4. n > 1 /\ n - 1 \notin fit => Marker + StatusLength + segs[n].length + segs[n - 1].length + 1 > Limit
  <2> SUFFICES ASSUME n > 1, n - 1 \notin fit
               PROVE  Marker + StatusLength + segs[n].length + segs[n - 1].length + 1 > Limit
    OBVIOUS
  <2>1. FromSegment(segs, n - 1) = segs[n - 1].length + segs[n].length + 1
    BY PairLength
  <2>2. n \in 1 .. n /\ n - 1 \in 1 .. n
    BY <1>1
  <2>3. segs[n].length \in Nat /\ segs[n - 1].length \in Nat
    <3> DEFINE R == [from : S, length : Nat]
    <3>1. segs \in Seq(R)
      OBVIOUS
    <3> HIDE DEF R
    <3>2. segs[n] \in R /\ segs[n - 1] \in R
      BY <2>2, <3>1
    <3> QED BY <3>2 DEF R
  <2>4. ~(Marker + FromSegment(segs, n - 1) + StatusLength <= Limit)
    BY <2>2
  <2> DEFINE a == segs[n - 1].length
             b == segs[n].length
  <2>5. a \in Nat /\ b \in Nat /\ ~(Marker + (a + b + 1) + StatusLength <= Limit)
    BY <2>1, <2>3, <2>4
  <2> HIDE DEF a, b, n, fit
  <2>6. Marker + StatusLength + b + a + 1 > Limit
    BY <1>1, <2>5
  <2> QED BY <2>6 DEF a, b
<1>5. fit # {} => Min(fit) \in fit /\ Min(fit) \in 1 .. n /\ \A k \in fit : Min(fit) <= k
  BY <1>1, MaxMin
<1>6. CASE FromSegment(segs, 1) + StatusLength <= Limit
  <2>1. Render(segs).first = 1 /\ Render(segs).length <= Limit
    BY <1>2, <1>6
  <2> QED BY <1>1, <2>1
<1>7. CASE ~(FromSegment(segs, 1) + StatusLength <= Limit) /\ fit # {}
  <2>1. Render(segs).first = Min(fit) /\ Render(segs).length = Marker + FromSegment(segs, Min(fit)) + StatusLength
    BY <1>2, <1>7
  <2>2. Render(segs).length <= Limit
    BY <1>5, <1>7, <2>1
  <2>3. Min(fit) = n => n - 1 \notin fit
    <3> HIDE DEF fit
    <3>1. Min(fit) = n /\ n - 1 \in fit => n <= n - 1
      BY <1>5
    <3> QED BY <1>1, <3>1
  <2> HIDE DEF fit
  <2> QED BY <1>1, <1>4, <1>5, <1>7, <2>1, <2>2, <2>3
<1>8. CASE ~(FromSegment(segs, 1) + StatusLength <= Limit) /\ fit = {}
  <2>1. n - 1 \notin fit
    BY <1>8
  <2>2. CASE Budget > MinTail
    <3>1. Render(segs) = cut
      BY <1>1, <1>2, <1>3, <1>8, <2>2
    <3> HIDE DEF cut, fit
    <3> QED BY <1>1, <1>3, <1>4, <2>1, <3>1
  <2>3. CASE ~(Budget > MinTail)
    <3>1. Render(segs) = none
      BY <1>2, <1>8, <2>3
    <3>2. Render(segs).first = n + 1 /\ Render(segs).length = Marker + StatusLength
      BY <3>1
    <3>3. ~(Limit - Marker - StatusLength > MinTail)
      BY <1>3, <2>3
    <3>4. Render(segs).first # n
      BY <1>1, <3>2
    <3> HIDE DEF n, fit, cut, none, whole, part
    <3>5. Render(segs).length <= Limit
      BY <1>1, <3>2
    <3> QED BY <3>3, <3>4, <3>5 DEF n
  <2> QED BY <2>2, <2>3
<1> QED BY <1>6, <1>7, <1>8

-----------------------------------------------------------------------------

LEMMA TranscriptInitInv == TranscriptInit => TranscriptInv
<1> SUFFICES ASSUME TranscriptInit PROVE TranscriptInv
  OBVIOUS
<1> USE DEF TranscriptInit
<1>1. Running = {} /\ Len(stack) = 0
  BY DEF Running
<1>2. Cardinality(Running) = 0
  BY <1>1, FS_EmptySet
<1>3. TranscriptTypeOK
  <2>1. \A S : <<>> \in Seq(S)
    OBVIOUS
  <2>2. task \in [Subtasks -> {"none", "running", "over"}] /\ \A t \in Subtasks : task[t] = "none"
    OBVIOUS
  <2> QED BY <2>1, <2>2 DEF TranscriptTypeOK
<1>4. StackNamed
  BY <1>1 DEF StackNamed
<1>5. StackCounted
  BY <1>1, <1>2 DEF StackCounted
<1>6. SubagentsQuiet /\ NewestShown
  BY DEF SubagentsQuiet, NewestShown
<1> QED BY <1>3, <1>4, <1>5, <1>6 DEF TranscriptInv

\* While nothing was taken for something else, an empty stack means no subagent.
LEMMA EmptyStackQuiet ==
  ASSUME TranscriptInv, stack = <<>>
  PROVE  disorder \/ Running = {}
<1>1. Len(stack) = 0
  OBVIOUS
<1>2. CASE style = "named"
  BY <1>1, <1>2 DEF TranscriptInv, StackNamed
<1>3. CASE style # "named"
  <2>1. ~disorder => Cardinality(Running) = 0
    BY <1>1, <1>3 DEF TranscriptInv, StackCounted
  <2>2. IsFiniteSet(Running)
    BY SubtasksFinite DEF Running
  <2> QED BY <2>1, <2>2, FS_EmptySet
<1> QED BY <1>2, <1>3

\* The segment that a step may add.
LEMMA AddKeeps ==
  ASSUME TranscriptTypeOK, NEW from \in Subtasks \cup {0}, Add(from)
  PROVE  /\ segments' \in Seq([from : Subtasks \cup {0}, length : Lengths])
         /\ Len(segments') = Len(segments) + 1 /\ segments' # <<>>
         /\ \A i \in DOMAIN segments' : (i \in DOMAIN segments /\ segments'[i] = segments[i]) \/ segments'[i].from = from
<1>1. PICK l \in Lengths : segments' = Append(segments, [from |-> from, length |-> l])
  BY DEF Add
<1> DEFINE R == [from : Subtasks \cup {0}, length : Lengths]
           s == [from |-> from, length |-> l]
<1>2. segments \in Seq(R) /\ s \in R /\ s.from = from
  BY DEF TranscriptTypeOK
<1> HIDE DEF R, s
<1>3. segments' = Append(segments, s)
  BY <1>1 DEF s
<1>4. segments' \in Seq(R) /\ Len(segments') = Len(segments) + 1 /\ segments' # <<>>
  BY <1>2, <1>3
<1>5. ASSUME NEW i \in DOMAIN segments' PROVE (i \in DOMAIN segments /\ segments'[i] = segments[i]) \/ segments'[i].from = from
  BY <1>2, <1>3
<1> QED BY <1>4, <1>5 DEF R

LEMMA SayKeeps ==
  ASSUME TranscriptInv, NEW from \in Subtasks \cup {0}, Say(from)
  PROVE  TranscriptInv'
<1>1. UNCHANGED <<style, task, stack, node, disorder>> /\ node = "running" /\ from \in Running \cup {0}
  BY DEF Say, Working
<1>2. TranscriptTypeOK'
  <2>1. segments' \in Seq([from : Subtasks \cup {0}, length : Lengths])
    BY AddKeeps DEF Say, TranscriptInv, TranscriptTypeOK
  <2> QED BY <1>1, <2>1 DEF TranscriptInv, TranscriptTypeOK
<1>3. SubagentsQuiet'
  <2>1. stack = <<>> /\ from # 0 => disorder
    BY <1>1, EmptyStackQuiet
  <2>2. CASE stack = <<>>
    <3>1. \A i \in DOMAIN segments' : (i \in DOMAIN segments /\ segments'[i] = segments[i]) \/ segments'[i].from = from
      BY <2>2, AddKeeps DEF Say, TranscriptInv
    <3> QED BY <1>1, <2>1, <2>2, <3>1 DEF TranscriptInv, SubagentsQuiet
  <2>3. CASE stack # <<>>
    BY <1>1, <2>3 DEF Say, TranscriptInv, SubagentsQuiet
  <2> QED BY <2>2, <2>3
<1>4. (IF style = "named" THEN StackNamed ELSE StackCounted)'
  BY <1>1 DEF TranscriptInv, StackNamed, StackCounted, Running
<1>5. NewestShown'
  BY <1>1 DEF NewestShown
<1> QED BY <1>2, <1>3, <1>4, <1>5 DEF TranscriptInv

LEMMA TaskCalledKeeps ==
  ASSUME TranscriptInv, NEW t \in Subtasks, TaskCalled(t)
  PROVE  TranscriptInv'
<1> DEFINE entry == IF CallId(t) = <<>> THEN Synthetic(Len(stack) + 1) ELSE CallId(t)
<1>1. /\ UNCHANGED <<style, node, disorder>> /\ node = "running" /\ task[t] = "none" /\ \A u \in 1 .. t - 1 : task[u] # "none"
      /\ task' = [task EXCEPT ![t] = "running"] /\ stack' = Append(stack, entry) /\ Add(0)
  BY DEF TaskCalled, Working
<1>2. /\ task \in [Subtasks -> {"none", "running", "over"}] /\ stack \in Seq(StackIds) /\ Len(stack) \in Nat
      /\ \A u, v \in Subtasks : u < v /\ task[v] # "none" => task[u] # "none"
  BY DEF TranscriptInv, TranscriptTypeOK
<1>3. t \in Nat /\ t # 0 /\ Subtasks \subseteq Nat /\ 0 \notin Subtasks
  BY SubtasksFinite
<1>4. IF style = "named" THEN entry = Named(t) ELSE IF style = "prefixed" THEN entry = Zeros(t) ELSE entry = Synthetic(Len(stack) + 1)
  BY <1>3, ZerosMatch, NamedMatch DEF CallId, Named, Zeros
<1>5. entry \in StackIds
  BY <1>2, <1>3, <1>4 DEF StackIds
<1> HIDE DEF entry
<1>6. stack' \in Seq(StackIds) /\ Len(stack') = Len(stack) + 1 /\ stack'[Len(stack) + 1] = entry /\ \A i \in 1 .. Len(stack) : stack'[i] = stack[i]
  BY <1>1, <1>2, <1>5
<1>7. Running' = Running \cup {t} /\ t \notin Running /\ Running \subseteq Subtasks
  BY <1>1, <1>2 DEF Running
<1>8. \A u \in Running : u < t /\ u \in Nat
  BY <1>1, <1>2, <1>3 DEF Running
<1>9. TranscriptTypeOK'
  <2>1. segments' \in Seq([from : Subtasks \cup {0}, length : Lengths])
    BY <1>1, AddKeeps DEF TranscriptInv
  <2>2. task' \in [Subtasks -> {"none", "running", "over"}] /\ \A u \in Subtasks : task'[u] = IF u = t THEN "running" ELSE task[u]
    BY <1>1, <1>2
  <2>3. \A u, v \in Subtasks : u < v /\ task'[v] # "none" => task'[u] # "none"
    <3> SUFFICES ASSUME NEW u \in Subtasks, NEW v \in Subtasks, u < v, task'[v] # "none", u # t PROVE task[u] # "none"
      BY <2>2
    <3>1. CASE v = t
      BY <1>1, <1>3, <3>1
    <3>2. CASE v # t
      BY <1>2, <2>2, <3>2
    <3> QED BY <3>1, <3>2
  <2> QED BY <1>1, <1>6, <2>1, <2>2, <2>3 DEF TranscriptInv, TranscriptTypeOK
<1>10. SubagentsQuiet'
  <2>1. \A i \in DOMAIN segments' : (i \in DOMAIN segments /\ segments'[i] = segments[i]) \/ segments'[i].from = 0
    BY <1>1, AddKeeps DEF TranscriptInv
  <2> QED BY <1>1, <2>1 DEF TranscriptInv, SubagentsQuiet
<1>11. NewestShown'
  BY <1>1 DEF NewestShown
<1>12. CASE style = "named"
  <2>1. StackNamed /\ entry = Named(t)
    BY <1>4, <1>12 DEF TranscriptInv
  <2>2. \A i \in 1 .. Len(stack') : i \in 1 .. Len(stack) \/ i = Len(stack) + 1
    BY <1>2, <1>6
  <2>3. \A u, v \in Nat : Named(u) = Named(v) => u = v
    BY DEF Named
  <2>4. ASSUME NEW i \in 1 .. Len(stack') PROVE \E u \in Running' : stack'[i] = Named(u)
    BY <1>6, <1>7, <2>1, <2>2 DEF StackNamed
  <2>5. ASSUME NEW i \in 1 .. Len(stack'), NEW j \in 1 .. Len(stack'), NEW u \in Running', NEW v \in Running',
               i < j, stack'[i] = Named(u), stack'[j] = Named(v)
        PROVE  u < v
    <3>1. i \in 1 .. Len(stack)
      BY <1>2, <1>6, <2>5
    <3>2. PICK w \in Running : stack[i] = Named(w)
      BY <2>1, <3>1 DEF StackNamed
    <3>3. u = w
      BY <1>3, <1>6, <1>7, <1>8, <2>3, <2>5, <3>1, <3>2
    <3>4. CASE j = Len(stack) + 1
      <4>1. v = t
        BY <1>3, <1>6, <1>7, <1>8, <2>1, <2>3, <2>5, <3>4
      <4> QED BY <1>8, <3>3, <4>1
    <3>5. CASE j \in 1 .. Len(stack)
      <4>1. PICK x \in Running : stack[j] = Named(x)
        BY <2>1, <3>5 DEF StackNamed
      <4>2. v = x
        BY <1>3, <1>6, <1>7, <1>8, <2>3, <2>5, <3>5, <4>1
      <4> QED BY <2>1, <2>5, <3>1, <3>2, <3>3, <3>5, <4>1, <4>2 DEF StackNamed
    <3> QED BY <2>2, <3>4, <3>5
  <2>6. ASSUME ~disorder', NEW u \in Running' PROVE \E i \in 1 .. Len(stack') : stack'[i] = Named(u)
    <3>1. CASE u = t
      <4>1. Len(stack) + 1 \in 1 .. Len(stack')
        BY <1>2, <1>6
      <4> QED BY <1>6, <2>1, <3>1, <4>1
    <3>2. CASE u # t
      <4>1. PICK i \in 1 .. Len(stack) : stack[i] = Named(u)
        BY <1>1, <1>7, <2>1, <2>6, <3>2 DEF StackNamed
      <4>2. i \in 1 .. Len(stack')
        BY <1>2, <1>6
      <4> QED BY <1>6, <4>1, <4>2
    <3> QED BY <3>1, <3>2
  <2>7. StackNamed'
    BY <2>4, <2>5, <2>6 DEF StackNamed
  <2> QED BY <1>1, <1>9, <1>10, <1>11, <1>12, <2>7 DEF TranscriptInv
<1>13. CASE style # "named"
  <2>1. StackCounted
    BY <1>13 DEF TranscriptInv
  <2>2. IsFiniteSet(Running) /\ Cardinality(Running') = Cardinality(Running) + 1 /\ Cardinality(Running) \in Nat
    BY <1>7, SubtasksFinite, FS_AddElement
  <2>3. \A i \in 1 .. Len(stack') : i \in 1 .. Len(stack) \/ i = Len(stack) + 1
    BY <1>2, <1>6
  <2>4. IF style = "prefixed" THEN \E n \in Nat : entry = Zeros(n) ELSE \E d \in Nat : entry = Synthetic(d)
    BY <1>2, <1>3, <1>4, <1>13
  <2>5. ASSUME NEW i \in 1 .. Len(stack')
        PROVE  IF style = "prefixed" THEN \E n \in Nat : stack'[i] = Zeros(n) ELSE \E d \in Nat : stack'[i] = Synthetic(d)
    BY <1>6, <2>1, <2>3, <2>4 DEF StackCounted
  <2>6. Len(stack') <= Cardinality(Running') /\ (~disorder' => Len(stack') = Cardinality(Running'))
    BY <1>1, <1>2, <1>6, <2>1, <2>2 DEF StackCounted
  <2>7. StackCounted'
    BY <1>1, <2>5, <2>6 DEF StackCounted
  <2> QED BY <1>1, <1>9, <1>10, <1>11, <1>13, <2>7 DEF TranscriptInv
<1> QED BY <1>12, <1>13

\* The stack without its newest entry.
LEMMA FrontIs ==
  ASSUME NEW S, NEW s \in Seq(S), s # <<>>
  PROVE  /\ Front(s) \in Seq(S) /\ Len(Front(s)) = Len(s) - 1 /\ Len(s) \in Nat /\ Len(s) > 0
         /\ \A i \in 1 .. Len(s) - 1 : Front(s)[i] = s[i] /\ i \in 1 .. Len(s)
<1>1. Len(s) \in Nat /\ Len(s) > 0
  OBVIOUS
<1>2. Front(s) = [i \in 1 .. Len(s) - 1 |-> s[i]]
  BY <1>1 DEF Front, SubSeq
<1>3. \A i \in 1 .. Len(s) - 1 : i \in 1 .. Len(s) /\ s[i] \in S
  BY <1>1
<1>4. Front(s) \in Seq(S) /\ Len(Front(s)) = Len(s) - 1
  BY <1>1, <1>2, <1>3
<1> QED BY <1>1, <1>2, <1>3, <1>4

LEMMA ResultKeeps ==
  ASSUME TranscriptInv, (\E t \in Subtasks : TaskAnswered(t)) \/ ToolResult
  PROVE  TranscriptInv'
<1>1. UNCHANGED <<style, segments, node>> /\ node = "running"
  BY DEF TaskAnswered, ToolResult, Working
<1>2. /\ task \in [Subtasks -> {"none", "running", "over"}] /\ stack \in Seq(StackIds) /\ Len(stack) \in Nat /\ disorder \in BOOLEAN
      /\ \A u, v \in Subtasks : u < v /\ task[v] # "none" => task[u] # "none"
  BY DEF TranscriptInv, TranscriptTypeOK
<1>3. NewestShown'
  BY <1>1 DEF NewestShown
<1>4. /\ task' \in [Subtasks -> {"none", "running", "over"}] /\ disorder' \in BOOLEAN /\ (disorder => disorder')
      /\ \A u, v \in Subtasks : u < v /\ task'[v] # "none" => task'[u] # "none"
  BY <1>2 DEF TaskAnswered, ToolResult
<1>5. SubagentsQuiet'
  BY <1>1, <1>4 DEF TranscriptInv, SubagentsQuiet
<1>6. stack' \in Seq(StackIds) => TranscriptTypeOK'
  BY <1>1, <1>4 DEF TranscriptInv, TranscriptTypeOK
<1>7. CASE style = "named"
  <2>1. TranscriptTypeOK /\ StackNamed
    BY <1>7 DEF TranscriptInv
  <2>2. ASSUME NEW t \in Subtasks, TaskAnswered(t) PROVE stack' \in Seq(StackIds) /\ StackNamed'
    <3>1. /\ t \in Running /\ Running' = Running \ {t} /\ stack' = AfterResult(ResultId(t))
          /\ ~disorder' => ~disorder /\ \A u \in Running : ~(u > t)
      BY <1>2, <2>2 DEF TaskAnswered, Running
    <3>2. \A u, v \in Nat : Named(u) = Named(v) => u = v
      BY DEF Named
    <3>3. Running \subseteq Nat /\ Running' \subseteq Running
      BY <3>1, SubtasksFinite DEF Running
    <3>4. CASE \A i \in 1 .. Len(stack) : stack[i] # Named(t)
      <4>1. stack' = stack
        BY <1>7, <2>1, <3>1, <3>4, NamedPop
      <4>2. disorder
        BY <2>1, <3>1, <3>4 DEF StackNamed
      <4>3. ASSUME NEW i \in 1 .. Len(stack) PROVE \E u \in Running' : stack[i] = Named(u)
        BY <2>1, <3>1, <3>4 DEF StackNamed
      <4> QED BY <1>2, <1>4, <2>1, <3>3, <4>1, <4>2, <4>3 DEF StackNamed
    <3>5. ASSUME NEW i \in 1 .. Len(stack), stack[i] = Named(t) PROVE stack' \in Seq(StackIds) /\ StackNamed'
      <4>1. stack' = SubSeq(stack, 1, i - 1)
        BY <1>7, <2>1, <3>1, <3>5, NamedPop
      <4>2. stack' \in Seq(StackIds) /\ Len(stack') = i - 1 /\ \A j \in 1 .. i - 1 : stack'[j] = stack[j] /\ j \in 1 .. Len(stack)
        BY <1>2, <4>1
      <4>3. ASSUME NEW j \in 1 .. Len(stack') PROVE \E u \in Running' : stack'[j] = Named(u)
        <5>1. PICK u \in Running : stack[j] = Named(u)
          BY <2>1, <4>2 DEF StackNamed
        <5>2. j < i
          BY <1>2, <4>2
        <5>3. u < t
          BY <2>1, <3>1, <3>5, <4>2, <5>1, <5>2 DEF StackNamed
        <5> QED BY <3>1, <3>3, <4>2, <5>1, <5>3
      <4>4. \A j, k \in 1 .. Len(stack') : \A u, v \in Running' : j < k /\ stack'[j] = Named(u) /\ stack'[k] = Named(v) => u < v
        BY <2>1, <3>3, <4>2 DEF StackNamed
      <4>5. ASSUME ~disorder', NEW u \in Running' PROVE \E j \in 1 .. Len(stack') : stack'[j] = Named(u)
        <5>1. PICK k \in 1 .. Len(stack) : stack[k] = Named(u)
          BY <2>1, <3>1, <4>5 DEF StackNamed
        <5>2. u \in Nat /\ t \in Nat /\ u # t /\ ~(u > t) /\ u \in Running
          BY <3>1, <3>3, <4>5
        <5>3. k # i
          BY <3>2, <3>5, <5>1, <5>2
        <5>4. ~(k > i)
          <6>1. k > i => t < u
            BY <2>1, <3>1, <3>5, <5>1, <5>2 DEF StackNamed
          <6> QED BY <5>2, <6>1
        <5>5. k \in 1 .. Len(stack') /\ k \in 1 .. i - 1
          BY <1>2, <4>2, <5>3, <5>4
        <5> QED BY <4>2, <5>1, <5>5
      <4> QED BY <4>2, <4>3, <4>4, <4>5 DEF StackNamed
    <3> QED BY <3>4, <3>5
  <2>3. ASSUME ToolResult PROVE stack' \in Seq(StackIds) /\ StackNamed'
    <3>1. stack' = stack
      <4>1. CASE Subtasks # {}
        BY <1>7, <2>1, <2>3, <4>1, NamedPop DEF ToolResult
      <4>2. CASE Subtasks = {}
        <5>1. Len(stack) = 0 /\ stack = <<>>
          BY <1>2, <2>1, <4>2 DEF StackNamed, Running
        <5>2. \A id : Pop(id) = stack
          BY <5>1 DEF Pop
        <5> QED BY <2>3, <5>1, <5>2 DEF ToolResult, AfterResult
      <4> QED BY <4>1, <4>2
    <3>2. Running' = Running
      BY <2>3 DEF ToolResult, Running
    <3> QED BY <1>2, <1>4, <2>1, <3>1, <3>2 DEF StackNamed
  <2> QED BY <1>1, <1>3, <1>5, <1>6, <1>7, <2>2, <2>3 DEF TranscriptInv
<1>8. CASE style # "named"
  <2>1. TranscriptTypeOK /\ StackCounted
    BY <1>8 DEF TranscriptInv
  <2>2. IsFiniteSet(Running) /\ Cardinality(Running) \in Nat /\ Running \subseteq Subtasks
    BY SubtasksFinite DEF Running
  <2>3. /\ stack = <<>> => Len(stack) = 0
        /\ stack # <<>> => /\ Front(stack) \in Seq(StackIds) /\ Len(Front(stack)) = Len(stack) - 1 /\ Len(stack) > 0
                           /\ \A i \in 1 .. Len(Front(stack)) : Front(stack)[i] = stack[i] /\ i \in 1 .. Len(stack)
    BY <1>2, FrontIs
  <2>4. ASSUME NEW t \in Subtasks, TaskAnswered(t) PROVE stack' \in Seq(StackIds) /\ StackCounted'
    <3>1. t \in Running /\ Running' = Running \ {t} /\ stack' = AfterResult(ResultId(t))
      BY <1>2, <2>4 DEF TaskAnswered, Running
    <3>2. Cardinality(Running') = Cardinality(Running) - 1 /\ Cardinality(Running) > 0 /\ Cardinality(Running') \in Nat
      <4>1. Cardinality(Running \ {t}) = Cardinality(Running) - 1 /\ Cardinality(Running) # 0
        BY <2>2, <3>1, FS_RemoveElement, FS_EmptySet
      <4> QED BY <2>2, <3>1, <4>1
    <3>3. stack' = IF stack = <<>> THEN stack ELSE Front(stack)
      BY <1>8, <2>1, <3>1, CountedPop
    <3>4. stack' \in Seq(StackIds) /\ \A i \in 1 .. Len(stack') : stack'[i] = stack[i] /\ i \in 1 .. Len(stack)
      BY <1>2, <2>3, <3>3
    <3>5. Len(stack') <= Cardinality(Running') /\ (~disorder' => Len(stack') = Cardinality(Running'))
      BY <1>2, <1>4, <2>1, <2>2, <2>3, <3>2, <3>3 DEF StackCounted
    <3> QED BY <1>1, <2>1, <3>4, <3>5 DEF StackCounted
  <2>5. ASSUME ToolResult PROVE stack' \in Seq(StackIds) /\ StackCounted'
    <3>1. Running' = Running /\ stack' = AfterResult(ToolId)
          /\ (~disorder' => ~disorder /\ ToolId # <<>> /\ \A t \in Running : ~RoughlyMatch(ToolId, CallId(t)))
      BY <2>5 DEF ToolResult, Running
    <3>2. CASE stack' = stack
      BY <1>1, <1>2, <1>4, <2>1, <3>1, <3>2 DEF StackCounted
    <3>3. CASE stack' # stack
      <4>1. stack # <<>> /\ stack' = Front(stack) /\ (ToolId = <<>> \/ (style = "prefixed" /\ ToolId = Zeros(9)))
        BY <1>8, <2>1, <3>1, <3>3, CountedPop
      <4>2. PICK t : t \in Running
        <5>1. Cardinality(Running) # 0
          BY <1>2, <2>1, <2>2, <2>3, <4>1 DEF StackCounted
        <5> QED BY <2>2, <5>1, FS_EmptySet
      <4>3. style = "prefixed" => CallId(t) = Zeros(t) /\ t \in Nat
        BY <2>2, <4>2, SubtasksFinite DEF CallId, Zeros
      <4>4. disorder'
        BY <3>1, <4>1, <4>2, <4>3, ZerosMatch
      <4>5. stack' \in Seq(StackIds) /\ \A i \in 1 .. Len(stack') : stack'[i] = stack[i] /\ i \in 1 .. Len(stack)
        BY <2>3, <4>1
      <4>6. Len(stack') <= Cardinality(Running')
        BY <1>2, <2>1, <2>2, <2>3, <3>1, <4>1 DEF StackCounted
      <4> QED BY <1>1, <2>1, <4>4, <4>5, <4>6 DEF StackCounted
    <3> QED BY <3>2, <3>3
  <2> QED BY <1>1, <1>3, <1>5, <1>6, <1>8, <2>4, <2>5 DEF TranscriptInv
<1> QED BY <1>7, <1>8

LEMMA NodeOverKeeps ==
  ASSUME TranscriptInv, NodeOver
  PROVE  TranscriptInv'
<1>1. /\ UNCHANGED <<style, task, stack, disorder>> /\ node' = "over" /\ display' = Render(segments')
      /\ Add(0) \/ (segments # <<>> /\ segments' = segments)
  BY DEF NodeOver, Edit
<1>2. /\ segments' \in Seq([from : Subtasks \cup {0}, length : Lengths]) /\ segments' # <<>>
      /\ \A i \in DOMAIN segments' : (i \in DOMAIN segments /\ segments'[i] = segments[i]) \/ segments'[i].from = 0
  <2>1. CASE Add(0)
    BY <2>1, AddKeeps DEF TranscriptInv
  <2>2. CASE segments # <<>> /\ segments' = segments
    BY <2>2 DEF TranscriptInv, TranscriptTypeOK
  <2> QED BY <1>1, <2>1, <2>2
<1>3. TranscriptTypeOK'
  BY <1>1, <1>2 DEF TranscriptInv, TranscriptTypeOK
<1>4. SubagentsQuiet'
  BY <1>1, <1>2 DEF TranscriptInv, SubagentsQuiet
<1>5. (IF style = "named" THEN StackNamed ELSE StackCounted)'
  BY <1>1 DEF TranscriptInv, StackNamed, StackCounted, Running
<1>6. NewestShown'
  <2> DEFINE S == Subtasks \cup {0}
             segs == segments'
  <2>1. segs \in Seq([from : S, length : Nat]) /\ Len(segs) > 0
    <3>1. [from : S, length : Lengths] \subseteq [from : S, length : Nat]
      BY TranscriptAssumption
    <3> DEFINE R == [from : S, length : Lengths]
               Q == [from : S, length : Nat]
    <3>2. segs \in Seq(R) /\ segs # <<>> /\ R \subseteq Q
      BY <1>2, <3>1
    <3> HIDE DEF R, Q, segs
    <3>3. segs \in Seq(Q) /\ Len(segs) > 0
      BY <3>2
    <3> QED BY <3>3 DEF Q
  <2> HIDE DEF S, segs
  <2>2. /\ Render(segs).length <= Limit
        /\ Limit - Marker - StatusLength > MinTail => Render(segs).first <= Len(segs)
        /\ Render(segs).first = Len(segs) /\ Len(segs) > 1 =>
              Marker + StatusLength + segs[Len(segs)].length + segs[Len(segs) - 1].length + 1 > Limit
    BY <2>1, RenderedWell
  <2> QED BY <1>1, <2>2 DEF NewestShown, segs
<1> QED BY <1>3, <1>4, <1>5, <1>6 DEF TranscriptInv

LEMMA TranscriptStep == TranscriptInv /\ [TranscriptNext]_transcriptVars => TranscriptInv'
<1> SUFFICES ASSUME TranscriptInv, [TranscriptNext]_transcriptVars PROVE TranscriptInv'
  OBVIOUS
<1>1. CASE UNCHANGED transcriptVars
  <2>1. UNCHANGED <<style, task, stack, segments, display, node, disorder>>
    BY <1>1 DEF transcriptVars
  <2>2. TranscriptTypeOK'
    BY <2>1 DEF TranscriptInv, TranscriptTypeOK
  <2>3. (IF style = "named" THEN StackNamed ELSE StackCounted)'
    BY <2>1 DEF TranscriptInv, StackNamed, StackCounted, Running
  <2>4. SubagentsQuiet' /\ NewestShown'
    BY <2>1 DEF TranscriptInv, SubagentsQuiet, NewestShown
  <2> QED BY <2>2, <2>3, <2>4 DEF TranscriptInv
<1>2. CASE TranscriptNext
  BY <1>2, SayKeeps, TaskCalledKeeps, ResultKeeps, NodeOverKeeps DEF TranscriptNext
<1> QED BY <1>1, <1>2

\* The stack of open Task calls never holds more of them than are unanswered, and
\* exactly those while no result was taken for that of another call.
THEOREM TranscriptInvariant == TranscriptSpec => []TranscriptInv
<1>1. TranscriptInit => TranscriptInv
  BY TranscriptInitInv
<1>2. TranscriptInv /\ [TranscriptNext]_transcriptVars => TranscriptInv'
  BY TranscriptStep
<1> QED BY <1>1, <1>2, PTL DEF TranscriptSpec

\* The user can read what Claude does: muted while Tasks run and not after, and
\* the newest of it in view; however upstreams name their calls.
THEOREM TranscriptReadableCorrect == TranscriptSpec => []TranscriptReadable
<1>1. TranscriptInv => NeverMuted
  <2> SUFFICES ASSUME TranscriptInv, Running = {} PROVE stack = <<>>
    BY DEF NeverMuted
  <2>1. stack \in Seq(StackIds)
    BY DEF TranscriptInv, TranscriptTypeOK
  <2>2. Len(stack) = 0
    <3>1. CASE style = "named"
      <4>1. \A i \in 1 .. Len(stack) : FALSE
        BY <3>1 DEF TranscriptInv, StackNamed
      <4> QED BY <2>1, <4>1
    <3>2. CASE style # "named"
      <4>1. Cardinality(Running) = 0
        BY FS_EmptySet
      <4> QED BY <2>1, <3>2, <4>1 DEF TranscriptInv, StackCounted
    <3> QED BY <3>1, <3>2
  <2> QED BY <2>1, <2>2
<1>2. TranscriptInv => TranscriptReadable
  BY <1>1 DEF TranscriptInv, TranscriptReadable
<1> QED BY <1>2, TranscriptInvariant, PTL

-----------------------------------------------------------------------------

(* What a parser holds.                                                      *)
Parsers == [mode : {"text", "matching", "params"}, buffer : Seq(Nat), args : SUBSET Nat, out : Seq(Nat),
            calls : Seq(SUBSET Nat), going : BOOLEAN]

(* The parser with all that was handed out so far.                           *)
Told(p) == [p EXCEPT !.out = shown \o @, !.calls = tools \o @]

(* What a call takes out of the buffer, and where one begins.                *)
Take(p, n) == [p EXCEPT !.buffer = AfterN(@, n), !.args = @ \cup {p.buffer[i] : i \in 1..n}]
BeginCall(p, n) == [p EXCEPT !.buffer = AfterN(@, n), !.args = {}, !.mode = "params"]

(* Positions only grow, and none is in two places.                           *)
Increasing(q) == \A i, j \in DOMAIN q : i < j => q[i] < q[j]
GivenBy(p) == UNION {p.calls[i] : i \in DOMAIN p.calls}
InCalls(p) == GivenBy(p) \cup (IF p.mode = "params" THEN p.args ELSE {})
Handed(p) == ToSet(p.out) \cup p.args \cup GivenBy(p)

Ordered(p) ==
    /\ Increasing(p.buffer) /\ Increasing(p.out)
    /\ \A h \in Handed(p), i \in DOMAIN p.buffer : h < p.buffer[i]
    /\ \A i, j \in DOMAIN p.calls : i # j => p.calls[i] \cap p.calls[j] = {}
    /\ p.mode = "params" => p.args \cap GivenBy(p) = {}
    /\ ToSet(p.out) \cap (p.args \cup GivenBy(p)) = {}

(* The end of what was handed out or dropped.                                *)
Cut(p, f) == f - Len(p.buffer)
Contiguous(p, f) == Len(p.buffer) <= f /\ \A i \in 1..Len(p.buffer) : p.buffer[i] = Cut(p, f) + i

(* Texts of which every function is accounted for, and those all of whose text *)
(* is.                                                                       *)
Plain ==
    /\ \A k \in 1..Len(text) : /\ text[k] # "<|" /\ (text[k] = "func" => k - 1 \in Begun)
                               /\ text[k] = "par" => k < Len(text) /\ text[k + 1] = "name"
    /\ (\A k \in 1..Len(text) : text[k] # "web") \/ (\A k \in 1..Len(text) : text[k] # "json")
Neat == \A k \in 1..Len(text) : text[k] # "json" /\ (text[k] \in BeginsTag \cup {"dot"} => k \in Functions \cup Parameter)

(* Functions that were found, up to the cut.                                 *)
Found(p, f) == {d \in Begun : d <= Cut(p, f) /\ d \notin ToSet(p.out) \cup InCalls(p)}
Beyond(d) == \E i \in Begun, j \in d..Len(text) : i < d /\ text[j] = "par"
Within(d) == \E i \in 1..d, j \in d..Len(text) : text[i] = "par" /\ text[j] = "/par"
CallsInv(p, f) ==
    /\ \A d \in Begun : d <= Cut(p, f) => d + 2 <= Cut(p, f)
    /\ Cardinality(Found(p, f)) = Len(p.calls) + (IF p.mode = "params" THEN 1 ELSE 0)
    /\ p.mode = "params" => \E i \in Begun : i <= Cut(p, f)
    /\ \A d \in Begun : (d \in ToSet(p.out) => Beyond(d)) /\ (d \in InCalls(p) => Within(d))

(* No plain text was dropped; a bullet waits for its function.               *)
TextInv(p, f) ==
    /\ \A k \in 1..Cut(p, f) : text[k] = "x" => k \in ToSet(p.out) \cup InCalls(p)
    /\ p.mode = "matching" => p.buffer # <<>> /\ text[p.buffer[1]] = "dot"
    /\ p.mode = "params" /\ Cut(p, f) < Len(text) => text[Cut(p, f) + 1] \notin {"func", "/par"}

(* Nothing but what was fed.                                                 *)
Bounded(p, f) == Handed(p) \cup ToSet(p.buffer) \subseteq 1..f

(* The whole account, of f tokens.                                           *)
ParserInv(p, f) ==
    /\ Ordered(p) /\ Bounded(p, f)
    /\ Plain => Contiguous(p, f) /\ CallsInv(p, f)
    /\ Neat => TextInv(p, f)

(* The loop has come to its end.                                             *)
NoParameter(b) ==
    LET start == NextOf(b, 0, {"par"})
        key   == NextOf(b, start, EndsTag)
        close == NextOf(b, key, {"/par"})
    IN  start = 0 \/ key = 0 \/ (close = 0 /\ text[b[key]] # "/par")
AtRest(p) ==
    /\ p.mode = "text" => p.buffer = <<>>
    /\ p.mode = "matching" => FunctionEnd(p.buffer) = 0
    /\ p.mode = "params" => /\ NoParameter(p.buffer) /\ NextOf(p.buffer, 0, {"dot"}) = 0
                            /\ \/ p.buffer = <<>> \/ text[p.buffer[1]] \in BeginsTag \/ NextOf(p.buffer, 0, {"par"}) > 0

-----------------------------------------------------------------------------

(* The rest and the beginning of a sequence.                                 *)
LEMMA AfterFirst ==
  ASSUME NEW S, NEW b \in Seq(S), NEW n \in 0..Len(b)
  PROVE  /\ AfterN(b, n) \in Seq(S) /\ Len(AfterN(b, n)) = Len(b) - n
         /\ \A i \in 1..Len(b) - n : AfterN(b, n)[i] = b[n + i]
         /\ FirstN(b, n) \in Seq(S) /\ Len(FirstN(b, n)) = n
         /\ \A i \in 1..n : FirstN(b, n)[i] = b[i]
         /\ DOMAIN AfterN(b, n) = 1..Len(b) - n /\ DOMAIN FirstN(b, n) = 1..n
<1>1. Len(b) \in Nat /\ n \in Nat /\ n <= Len(b) /\ \A i \in 1..Len(b) : b[i] \in S
  OBVIOUS
<1>2. \A i \in n + 1..Len(b) : b[i] \in S
  BY <1>1
<1>3. /\ SubSeq(b, n + 1, Len(b)) \in Seq(S)
      /\ Len(SubSeq(b, n + 1, Len(b))) = IF n + 1 <= Len(b) THEN Len(b) - (n + 1) + 1 ELSE 0
      /\ \A i \in 1..Len(b) - (n + 1) + 1 : SubSeq(b, n + 1, Len(b))[i] = b[n + 1 + i - 1]
  BY <1>1, <1>2, SubSeqProperties
<1>4. \A i \in 1..n : b[i] \in S
  BY <1>1
<1>5. /\ SubSeq(b, 1, n) \in Seq(S)
      /\ Len(SubSeq(b, 1, n)) = IF 1 <= n THEN n - 1 + 1 ELSE 0
      /\ \A i \in 1..n - 1 + 1 : SubSeq(b, 1, n)[i] = b[1 + i - 1]
  BY <1>1, <1>4, SubSeqProperties
<1>6. Len(SubSeq(b, n + 1, Len(b))) = Len(b) - n /\ Len(SubSeq(b, 1, n)) = n
  BY <1>1, <1>3, <1>5
<1>7. \A i \in 1..Len(b) - n : SubSeq(b, n + 1, Len(b))[i] = b[n + i]
  <2>1. TAKE i \in 1..Len(b) - n
  <2>2. i \in 1..Len(b) - (n + 1) + 1 /\ n + 1 + i - 1 = n + i
    BY <1>1
  <2> QED
    BY <1>3, <2>2
<1>8. \A i \in 1..n : SubSeq(b, 1, n)[i] = b[i]
  <2>1. TAKE i \in 1..n
  <2>2. i \in 1..n - 1 + 1 /\ 1 + i - 1 = i
    BY <1>1
  <2> QED
    BY <1>5, <2>2
<1>9. DOMAIN SubSeq(b, n + 1, Len(b)) = 1..Len(b) - n /\ DOMAIN SubSeq(b, 1, n) = 1..n
  BY <1>3, <1>5, <1>6
<1> QED
  BY <1>3, <1>5, <1>6, <1>7, <1>8, <1>9 DEF AfterN, FirstN

(* The first part of a buffer,                                               *)
LEMMA FirstLength ==
  ASSUME NEW b \in Seq(Nat), NEW n \in 0..Len(b)
  PROVE  DOMAIN FirstN(b, n) = 1..n /\ \A i \in 1..n : FirstN(b, n)[i] = b[i]
<1>1. DOMAIN FirstN(b, n) = 1..n
  BY AfterFirst
<1>2. \A i \in 1..n : FirstN(b, n)[i] = b[i]
  BY AfterFirst
<1> QED
  BY <1>1, <1>2

(* and what is left of it.                                                    *)
LEMMA AfterLength ==
  ASSUME NEW b \in Seq(Nat), NEW n \in 0..Len(b)
  PROVE  /\ Len(AfterN(b, n)) = Len(b) - n /\ AfterN(b, n) \in Seq(Nat)
         /\ \A i \in 1..Len(b) - n : AfterN(b, n)[i] = b[n + i]
<1>1. Len(AfterN(b, n)) = Len(b) - n /\ AfterN(b, n) \in Seq(Nat)
  BY AfterFirst
<1>2. \A i \in 1..Len(b) - n : AfterN(b, n)[i] = b[n + i]
  BY AfterFirst
<1> QED
  BY <1>1, <1>2

(* What the search for a token finds is the first of its kind.               *)
LEMMA NextOfFinds ==
  ASSUME NEW b \in Seq(Nat), NEW n \in Nat, NEW wanted
  PROVE  LET r == NextOf(b, n, wanted)
         IN  /\ r \in Nat
             /\ r = 0 => \A i \in 1..Len(b) : n < i => text[b[i]] \notin wanted
             /\ r # 0 => /\ n < r /\ r <= Len(b) /\ text[b[r]] \in wanted
                         /\ \A i \in 1..Len(b) : n < i /\ i < r => text[b[i]] \notin wanted
<1> DEFINE at == {i \in n + 1..Len(b) : text[b[i]] \in wanted}
           c == CHOOSE i \in at : \A j \in at : i <= j
<1>1. Len(b) \in Nat
  OBVIOUS
<1>2. NextOf(b, n, wanted) = IF at = {} THEN 0 ELSE c
  BY DEF NextOf
<1>3. CASE at = {}
  <2>1. \A i \in 1..Len(b) : n < i => i \in n + 1..Len(b)
    BY <1>1
  <2> QED
    BY <1>2, <1>3, <2>1
<1>4. CASE at # {}
  <2>1. at \in SUBSET Nat
    BY <1>1
  <2>2. \E m \in at : \A k \in at : m <= k
    <3> HIDE DEF at
    <3> QED
      BY <1>4, <2>1, LeastNatural
  <2>3. c \in at /\ \A j \in at : c <= j
    BY <2>2
  <2>4. c \in n + 1..Len(b) /\ text[b[c]] \in wanted
    BY <2>3
  <2>5. \A i \in 1..Len(b) : n < i /\ i < c => text[b[i]] \notin wanted
    <3>1. SUFFICES ASSUME NEW i \in 1..Len(b), n < i, i < c, text[b[i]] \in wanted
                   PROVE  FALSE
      OBVIOUS
    <3>2. i \in at
      BY <1>1, <3>1
    <3>3. c <= i
      BY <2>3, <3>2
    <3> HIDE DEF c
    <3> QED
      BY <1>1, <2>4, <3>1, <3>3
  <2> HIDE DEF c
  <2>6. c \in Nat /\ c # 0 /\ n < c /\ c <= Len(b)
    BY <1>1, <2>4
  <2>7. NextOf(b, n, wanted) = c
    BY <1>2, <1>4
  <2> QED
    BY <2>4, <2>5, <2>6, <2>7
<1> QED
  BY <1>3, <1>4

(* What the search for a function finds is the first of them.                *)
Heads(b, i) == text[b[i]] = "dot" /\ text[b[i + 1]] = "func" /\ NextOf(b, i + 1, EndsTag) > 0
(* The end of the first bullet and function, if there is one.                *)
LEMMA FunctionEndFinds ==
  ASSUME NEW b \in Seq(Nat)
  PROVE  /\ FunctionEnd(b) \in Nat
         /\ FunctionEnd(b) = 0 => \A i \in 1..Len(b) - 1 : ~Heads(b, i)
         /\ FunctionEnd(b) # 0 => \E i \in 1..Len(b) - 1 :
               /\ Heads(b, i) /\ FunctionEnd(b) = NextOf(b, i + 1, EndsTag)
               /\ \A a \in 1..Len(b) - 1 : a < i => ~Heads(b, a)
<1> DEFINE at == {i \in 1..Len(b) - 1 : Heads(b, i)}
           c == CHOOSE i \in at : \A j \in at : i <= j
<1>1. Len(b) \in Nat
  OBVIOUS
<1>2. FunctionEnd(b) = IF at = {} THEN 0 ELSE NextOf(b, c + 1, EndsTag)
  BY DEF FunctionEnd, Heads
<1>3. CASE at = {}
  BY <1>2, <1>3
<1>4. CASE at # {}
  <2>1. at \in SUBSET Nat
    BY <1>1
  <2>2. \E m \in at : \A k \in at : m <= k
    <3> HIDE DEF at
    <3> QED
      BY <1>4, <2>1, LeastNatural
  <2>3. c \in at /\ \A j \in at : c <= j
    BY <2>2
  <2>4. c \in 1..Len(b) - 1 /\ Heads(b, c)
    BY <2>3
  <2>5. \A a \in 1..Len(b) - 1 : a < c => ~Heads(b, a)
    <3>1. SUFFICES ASSUME NEW a \in 1..Len(b) - 1, a < c, Heads(b, a)
                   PROVE  FALSE
      OBVIOUS
    <3>2. a \in at
      BY <3>1
    <3>3. c <= a
      BY <2>3, <3>2
    <3> HIDE DEF c
    <3> QED
      BY <1>1, <2>4, <3>1, <3>3
  <2> HIDE DEF c
  <2>6. NextOf(b, c + 1, EndsTag) \in Nat /\ NextOf(b, c + 1, EndsTag) # 0
    <3>1. NextOf(b, c + 1, EndsTag) > 0
      BY <2>4 DEF Heads
    <3>2. c + 1 \in Nat
      BY <1>1, <2>4
    <3>3. NextOf(b, c + 1, EndsTag) \in Nat
      BY <3>2, NextOfFinds
    <3> QED
      BY <3>1, <3>3
  <2>7. FunctionEnd(b) = NextOf(b, c + 1, EndsTag)
    BY <1>2, <1>4
  <2> QED
    BY <2>4, <2>5, <2>6, <2>7
<1> QED
  BY <1>3, <1>4

(* The search for the last token of a kind.                                  *)
LEMMA LastOfFinds ==
  ASSUME NEW b \in Seq(Nat), NEW token
  PROVE  /\ LastOf(b, token) \in 0..Len(b)
         /\ LastOf(b, token) # 0 => text[b[LastOf(b, token)]] = token
<1> DEFINE I == {i \in 1..Len(b) : text[b[i]] = token}
           J == {Len(b) - i : i \in I}
           c == CHOOSE x \in I : \A y \in I : x >= y
<1>1. Len(b) \in Nat
  OBVIOUS
<1>2. LastOf(b, token) = IF I # {} THEN c ELSE 0
  BY DEF LastOf, SelectLastInSeq, Max
<1>3. CASE I = {}
  BY <1>1, <1>2, <1>3
<1>4. CASE I # {}
  <2>1. J \in SUBSET Nat /\ J # {}
    BY <1>1, <1>4
  <2>2. PICK m \in J : \A k \in J : m <= k
    <3> HIDE DEF J
    <3> QED
      BY <2>1, LeastNatural
  <2>3. PICK x \in I : m = Len(b) - x
    BY <2>2
  <2>4. \A y \in I : x >= y
    <3>1. TAKE y \in I
    <3>2. Len(b) - y \in J
      OBVIOUS
    <3>3. m <= Len(b) - y
      BY <2>2, <3>2
    <3>4. x \in Int /\ y \in Int
      BY <1>1
    <3> QED
      BY <1>1, <2>3, <3>3, <3>4
  <2>5. c \in I
    BY <2>3, <2>4
  <2>6. c \in 1..Len(b) /\ text[b[c]] = token
    BY <2>5
  <2> HIDE DEF c
  <2>7. LastOf(b, token) = c
    BY <1>2, <1>4
  <2> QED
    BY <1>1, <2>6, <2>7
<1> QED
  BY <1>3, <1>4

-----------------------------------------------------------------------------

(* Two sequences one after the other increase if both do and the first is    *)
(* below the second.                                                         *)
LEMMA IncreasingConcat ==
  ASSUME NEW q \in Seq(Nat), NEW r \in Seq(Nat), Increasing(q), Increasing(r),
         \A i \in DOMAIN q, j \in DOMAIN r : q[i] < r[j]
  PROVE  Increasing(q \o r)
<1>1. /\ q \o r \in Seq(Nat) /\ Len(q \o r) = Len(q) + Len(r) /\ Len(q) \in Nat /\ Len(r) \in Nat
      /\ \A i \in 1..Len(q) + Len(r) : (q \o r)[i] = IF i <= Len(q) THEN q[i] ELSE r[i - Len(q)]
  BY ConcatProperties
<1>2. DOMAIN (q \o r) = 1..Len(q) + Len(r) /\ DOMAIN q = 1..Len(q) /\ DOMAIN r = 1..Len(r)
  BY <1>1
<1>3. SUFFICES ASSUME NEW i \in 1..Len(q) + Len(r), NEW j \in 1..Len(q) + Len(r), i < j
               PROVE  (q \o r)[i] < (q \o r)[j]
  BY <1>2 DEF Increasing
<1> DEFINE w == q \o r
<1>4. w[i] = (IF i <= Len(q) THEN q[i] ELSE r[i - Len(q)]) /\ w[j] = IF j <= Len(q) THEN q[j] ELSE r[j - Len(q)]
  BY <1>1
<1> HIDE DEF w
<1>5. CASE j <= Len(q)
  <2>1. i \in DOMAIN q /\ j \in DOMAIN q /\ w[i] = q[i] /\ w[j] = q[j]
    BY <1>1, <1>2, <1>3, <1>4, <1>5
  <2> QED
    BY <1>3, <2>1 DEF Increasing, w
<1>6. CASE j > Len(q) /\ i <= Len(q)
  <2>1. i \in DOMAIN q /\ j - Len(q) \in DOMAIN r /\ w[i] = q[i] /\ w[j] = r[j - Len(q)]
    BY <1>1, <1>2, <1>3, <1>4, <1>6
  <2> QED
    BY <2>1 DEF w
<1>7. CASE i > Len(q)
  <2>1. /\ i - Len(q) \in DOMAIN r /\ j - Len(q) \in DOMAIN r /\ i - Len(q) < j - Len(q)
        /\ w[i] = r[i - Len(q)] /\ w[j] = r[j - Len(q)]
    BY <1>1, <1>2, <1>3, <1>4, <1>7
  <2> QED
    BY <2>1 DEF Increasing, w
<1> QED
  BY <1>1, <1>5, <1>6, <1>7

(* What is in two sequences.                                                 *)
LEMMA ConcatElements ==
  ASSUME NEW S, NEW q \in Seq(S), NEW r \in Seq(S)
  PROVE  ToSet(q \o r) = ToSet(q) \cup ToSet(r)
<1>1. /\ q \o r \in Seq(S) /\ Len(q \o r) = Len(q) + Len(r) /\ Len(q) \in Nat /\ Len(r) \in Nat
      /\ \A i \in 1..Len(q) + Len(r) : (q \o r)[i] = IF i <= Len(q) THEN q[i] ELSE r[i - Len(q)]
  BY ConcatProperties
<1>2. DOMAIN (q \o r) = 1..Len(q) + Len(r) /\ DOMAIN q = 1..Len(q) /\ DOMAIN r = 1..Len(r)
  BY <1>1
<1> DEFINE w == q \o r
<1>3. ASSUME NEW x \in ToSet(w) PROVE x \in ToSet(q) \cup ToSet(r)
  <2>1. PICK i \in 1..Len(q) + Len(r) : x = w[i]
    BY <1>2 DEF ToSet
  <2>2. CASE i <= Len(q)
    BY <1>1, <1>2, <2>1, <2>2 DEF ToSet
  <2>3. CASE i > Len(q)
    <3>1. i - Len(q) \in 1..Len(r) /\ x = r[i - Len(q)]
      BY <1>1, <2>1, <2>3
    <3> QED
      BY <1>2, <3>1 DEF ToSet
  <2> QED
    BY <1>1, <2>2, <2>3
<1>4. ASSUME NEW x \in ToSet(q) PROVE x \in ToSet(w)
  <2>1. PICK i \in 1..Len(q) : x = q[i]
    BY <1>2 DEF ToSet
  <2>2. i \in 1..Len(q) + Len(r) /\ w[i] = x
    BY <1>1, <2>1
  <2> QED
    BY <1>2, <2>2 DEF ToSet
<1>5. ASSUME NEW x \in ToSet(r) PROVE x \in ToSet(w)
  <2>1. PICK i \in 1..Len(r) : x = r[i]
    BY <1>2 DEF ToSet
  <2>2. i + Len(q) \in 1..Len(q) + Len(r) /\ ~(i + Len(q) <= Len(q)) /\ i + Len(q) - Len(q) = i
    BY <1>1, <2>1
  <2>3. w[i + Len(q)] = x
    BY <1>1, <2>1, <2>2
  <2> QED
    BY <1>2, <2>2, <2>3 DEF ToSet
<1> QED
  BY <1>3, <1>4, <1>5

(* One part of an increasing sequence.                                       *)
LEMMA IncreasingParts ==
  ASSUME NEW b \in Seq(Nat), NEW n \in 0..Len(b), Increasing(b)
  PROVE  /\ Increasing(AfterN(b, n)) /\ Increasing(FirstN(b, n))
         /\ \A i \in DOMAIN FirstN(b, n), j \in DOMAIN AfterN(b, n) : FirstN(b, n)[i] < AfterN(b, n)[j]
         /\ ToSet(FirstN(b, n)) = {b[i] : i \in 1..n}
<1>1. Len(b) \in Nat /\ n \in Nat /\ n <= Len(b) /\ DOMAIN b = 1..Len(b)
  OBVIOUS
<1> DEFINE r == AfterN(b, n)
           q == FirstN(b, n)
<1>2. /\ r \in Seq(Nat) /\ Len(r) = Len(b) - n /\ \A i \in 1..Len(b) - n : r[i] = b[n + i]
      /\ q \in Seq(Nat) /\ Len(q) = n /\ \A i \in 1..n : q[i] = b[i]
  BY AfterFirst
<1> HIDE DEF r, q
<1>3. DOMAIN r = 1..Len(b) - n /\ DOMAIN q = 1..n
  BY <1>2
<1>4. Increasing(r)
  <2>1. SUFFICES ASSUME NEW i \in 1..Len(b) - n, NEW j \in 1..Len(b) - n, i < j
                 PROVE  r[i] < r[j]
    BY <1>3 DEF Increasing
  <2>2. n + i \in 1..Len(b) /\ n + j \in 1..Len(b) /\ n + i < n + j
    BY <1>1, <2>1
  <2>3. b[n + i] < b[n + j]
    BY <1>1, <2>2 DEF Increasing
  <2> QED
    BY <1>2, <2>3
<1>5. Increasing(q)
  <2>1. SUFFICES ASSUME NEW i \in 1..n, NEW j \in 1..n, i < j
                 PROVE  q[i] < q[j]
    BY <1>3 DEF Increasing
  <2>2. i \in 1..Len(b) /\ j \in 1..Len(b)
    BY <1>1
  <2>3. b[i] < b[j]
    BY <1>1, <2>1, <2>2 DEF Increasing
  <2> QED
    BY <1>2, <2>3
<1>6. ASSUME NEW i \in 1..n, NEW j \in 1..Len(b) - n
      PROVE  q[i] < r[j]
  <2>1. i \in 1..Len(b) /\ n + j \in 1..Len(b) /\ i < n + j
    BY <1>1
  <2>2. b[i] < b[n + j]
    BY <1>1, <2>1 DEF Increasing
  <2> QED
    BY <1>2, <2>2
<1>7. ToSet(q) = {b[i] : i \in 1..n}
  <2>1. ToSet(q) = {q[i] : i \in 1..n}
    BY <1>3 DEF ToSet
  <2> QED
    BY <1>2, <2>1
<1> QED
  BY <1>3, <1>4, <1>5, <1>6, <1>7 DEF r, q

(* Both parts consist of elements of the sequence.                           *)
LEMMA PartsOf ==
  ASSUME NEW b \in Seq(Nat), NEW n \in 0..Len(b)
  PROVE  /\ \A j \in DOMAIN AfterN(b, n) : \E k \in DOMAIN b : AfterN(b, n)[j] = b[k]
         /\ \A j \in DOMAIN FirstN(b, n) : \E k \in DOMAIN b : FirstN(b, n)[j] = b[k]
<1>1. /\ DOMAIN AfterN(b, n) = 1..Len(b) - n /\ DOMAIN FirstN(b, n) = 1..n
      /\ \A i \in 1..Len(b) - n : AfterN(b, n)[i] = b[n + i]
      /\ \A i \in 1..n : FirstN(b, n)[i] = b[i]
  BY AfterFirst
<1>2. (\A i \in 1..Len(b) - n : n + i \in DOMAIN b) /\ \A i \in 1..n : i \in DOMAIN b
  OBVIOUS
<1> QED
  BY <1>1, <1>2

(* What shows the first n positions of the buffer keeps the order.           *)
LEMMA ShowOrdered ==
  ASSUME NEW p \in Parsers, NEW n \in 0..Len(p.buffer), Ordered(p)
  PROVE  Show(p, n) \in Parsers /\ Ordered(Show(p, n))
<1> DEFINE b == p.buffer
           q == FirstN(b, n)
           r == AfterN(b, n)
           s == Show(p, n)
<1>1. /\ b \in Seq(Nat) /\ p.out \in Seq(Nat) /\ p.mode \in {"text", "matching", "params"} /\ p.going \in BOOLEAN
      /\ p.args \in SUBSET Nat /\ p.calls \in Seq(SUBSET Nat) /\ n \in 0..Len(b)
      /\ Increasing(b) /\ Increasing(p.out)
  BY DEF Parsers, Ordered
<1>2. s = [p EXCEPT !.out = p.out \o q, !.buffer = r]
  BY DEF Show
<1>3. q \in Seq(Nat) /\ r \in Seq(Nat)
  BY <1>1, AfterFirst
<1>4. /\ Increasing(r) /\ Increasing(q) /\ ToSet(q) = {b[i] : i \in 1..n}
      /\ \A i \in DOMAIN q, j \in DOMAIN r : q[i] < r[j]
  BY <1>1, IncreasingParts
<1>5. ToSet(p.out \o q) = ToSet(p.out) \cup ToSet(q) /\ p.out \o q \in Seq(Nat)
  BY <1>1, <1>3, ConcatElements, ConcatProperties
<1>6. s \in Parsers /\ s.out = p.out \o q /\ s.buffer = r /\ s.args = p.args /\ s.calls = p.calls /\ s.mode = p.mode
  BY <1>1, <1>2, <1>3, <1>5 DEF Parsers
<1>7. \A i \in DOMAIN q : q[i] \in ToSet(q) /\ \E k \in DOMAIN b : q[i] = b[k]
  <2>1. \A i \in DOMAIN q : \E k \in DOMAIN b : q[i] = b[k]
    BY <1>1, PartsOf
  <2>2. \A i \in DOMAIN q : q[i] \in ToSet(q)
    BY DEF ToSet
  <2> QED
    BY <2>1, <2>2
<1>8. \A j \in DOMAIN r : \E k \in DOMAIN b : r[j] = b[k]
  BY <1>1, PartsOf
<1> HIDE DEF b, q, r, s
<1>9. \A h \in Handed(p), k \in DOMAIN b : h < b[k]
  BY DEF Ordered, b
<1>10. Handed(s) = Handed(p) \cup ToSet(q) /\ GivenBy(s) = GivenBy(p)
  BY <1>5, <1>6 DEF Handed, GivenBy
<1>11. Increasing(p.out \o q)
  <2>1. \A i \in DOMAIN p.out, j \in DOMAIN q : p.out[i] < q[j]
    BY <1>7, <1>9 DEF Handed, ToSet
  <2> QED
    BY <1>1, <1>3, <1>4, <2>1, IncreasingConcat
<1>12. ASSUME NEW h \in Handed(s), NEW j \in DOMAIN r
       PROVE  h < r[j]
  <2>1. CASE h \in Handed(p)
    BY <1>8, <1>9, <2>1
  <2>2. CASE h \in ToSet(q)
    BY <1>4, <2>2 DEF ToSet
  <2> QED
    BY <1>10, <2>1, <2>2
<1>13. ToSet(q) \cap (p.args \cup GivenBy(p)) = {}
  <2>1. SUFFICES ASSUME NEW h \in ToSet(q), h \in p.args \cup GivenBy(p) PROVE FALSE
    OBVIOUS
  <2>2. PICK k \in DOMAIN b : h = b[k]
    BY <1>7 DEF ToSet
  <2>3. h < b[k] /\ b[k] \in Nat
    BY <1>1, <1>9, <2>1 DEF Handed
  <2> QED
    BY <2>2, <2>3
<1>14. ToSet(s.out) \cap (s.args \cup GivenBy(s)) = {}
  BY <1>5, <1>6, <1>10, <1>13 DEF Ordered
<1> QED
  BY <1>4, <1>6, <1>10, <1>11, <1>12, <1>14 DEF Ordered, s

(* What a call takes is in order.                                            *)
LEMMA TakeOrdered ==
  ASSUME NEW p \in Parsers, NEW n \in 0..Len(p.buffer), Ordered(p)
  PROVE  Take(p, n) \in Parsers /\ Ordered(Take(p, n))
<1> DEFINE b == p.buffer
           q == {b[i] : i \in 1..n}
           r == AfterN(b, n)
           s == Take(p, n)
<1>1. /\ b \in Seq(Nat) /\ p.out \in Seq(Nat) /\ p.mode \in {"text", "matching", "params"} /\ p.going \in BOOLEAN
      /\ p.args \in SUBSET Nat /\ p.calls \in Seq(SUBSET Nat) /\ n \in 0..Len(b)
      /\ Increasing(b) /\ Increasing(p.out)
  BY DEF Parsers, Ordered
<1>2. s = [p EXCEPT !.buffer = r, !.args = p.args \cup q]
  BY DEF Take
<1>3. r \in Seq(Nat)
  BY <1>1, AfterFirst
<1>4. Increasing(r) /\ ToSet(FirstN(b, n)) = q /\ \A i \in DOMAIN FirstN(b, n), j \in DOMAIN r : FirstN(b, n)[i] < r[j]
  BY <1>1, IncreasingParts
<1>5. 1..n \subseteq 1..Len(b) /\ DOMAIN b = 1..Len(b)
  BY <1>1
<1>6. q \subseteq Nat /\ \A h \in q : \E k \in DOMAIN b : h = b[k]
  <2>1. \A i \in 1..n : i \in DOMAIN b /\ b[i] \in Nat
    BY <1>1, <1>5
  <2> HIDE DEF b
  <2> QED
    BY <2>1
<1>7. \A h \in q, j \in DOMAIN r : h < r[j]
  BY <1>4 DEF ToSet
<1>8. \A j \in DOMAIN r : \E k \in DOMAIN b : r[j] = b[k]
  BY <1>1, PartsOf
<1> HIDE DEF b, q, r, s
<1>9. s \in Parsers /\ s.out = p.out /\ s.buffer = r /\ s.args = p.args \cup q /\ s.calls = p.calls /\ s.mode = p.mode
  BY <1>1, <1>2, <1>3, <1>6 DEF Parsers
<1>10. \A h \in Handed(p), k \in DOMAIN b : h < b[k]
  BY DEF Ordered, b
<1>11. Handed(s) = Handed(p) \cup q /\ GivenBy(s) = GivenBy(p)
  BY <1>9 DEF Handed, GivenBy
<1>12. ASSUME NEW h \in Handed(s), NEW j \in DOMAIN r
       PROVE  h < r[j]
  BY <1>7, <1>8, <1>10, <1>11
<1>13. q \cap Handed(p) = {}
  <2>1. SUFFICES ASSUME NEW h \in q, h \in Handed(p) PROVE FALSE
    OBVIOUS
  <2>2. PICK k \in DOMAIN b : h = b[k]
    BY <1>6
  <2>3. h < b[k] /\ b[k] \in Nat
    BY <1>1, <1>10, <2>1
  <2> QED
    BY <2>2, <2>3
<1>14. ToSet(s.out) \cap (s.args \cup GivenBy(s)) = {}
  BY <1>9, <1>11, <1>13 DEF Ordered, Handed
<1>15. s.mode = "params" => s.args \cap GivenBy(s) = {}
  BY <1>9, <1>11, <1>13 DEF Ordered, Handed
<1> QED
  BY <1>1, <1>4, <1>9, <1>12, <1>14, <1>15 DEF Ordered, s

(* So does the beginning of a call.                                          *)
LEMMA BeginOrdered ==
  ASSUME NEW p \in Parsers, NEW n \in 0..Len(p.buffer), Ordered(p)
  PROVE  BeginCall(p, n) \in Parsers /\ Ordered(BeginCall(p, n))
<1> DEFINE b == p.buffer
           r == AfterN(b, n)
           s == BeginCall(p, n)
<1>1. /\ b \in Seq(Nat) /\ p.out \in Seq(Nat) /\ p.going \in BOOLEAN
      /\ p.calls \in Seq(SUBSET Nat) /\ n \in 0..Len(b)
      /\ Increasing(b) /\ Increasing(p.out)
  BY DEF Parsers, Ordered
<1>2. s = [p EXCEPT !.buffer = r, !.args = {}, !.mode = "params"]
  BY DEF BeginCall
<1>3. r \in Seq(Nat) /\ Increasing(r)
  BY <1>1, AfterFirst, IncreasingParts
<1>8. \A j \in DOMAIN r : \E k \in DOMAIN b : r[j] = b[k]
  BY <1>1, PartsOf
<1> HIDE DEF b, r, s
<1>9. s \in Parsers /\ s.out = p.out /\ s.buffer = r /\ s.args = {} /\ s.calls = p.calls /\ s.mode = "params"
  BY <1>1, <1>2, <1>3 DEF Parsers
<1>10. \A h \in Handed(p), k \in DOMAIN b : h < b[k]
  BY DEF Ordered, b
<1>11. Handed(s) \subseteq Handed(p) /\ GivenBy(s) = GivenBy(p)
  BY <1>9 DEF Handed, GivenBy
<1>12. ASSUME NEW h \in Handed(s), NEW j \in DOMAIN r
       PROVE  h < r[j]
  BY <1>8, <1>10, <1>11
<1>14. ToSet(s.out) \cap (s.args \cup GivenBy(s)) = {} /\ s.args \cap GivenBy(s) = {}
  BY <1>9, <1>11 DEF Ordered
<1> QED
  BY <1>1, <1>3, <1>9, <1>12, <1>14 DEF Ordered, s

(* And its end.                                                              *)
LEMMA CompleteOrdered ==
  ASSUME NEW p \in Parsers, p.mode = "params", Ordered(p)
  PROVE  /\ CompleteCall(p) \in Parsers /\ Ordered(CompleteCall(p))
         /\ GivenBy(CompleteCall(p)) = GivenBy(p) \cup p.args
<1> DEFINE s == CompleteCall(p)
           c == Append(p.calls, p.args)
           n == Len(p.calls)
<1>1. /\ p.buffer \in Seq(Nat) /\ p.out \in Seq(Nat) /\ p.going \in BOOLEAN
      /\ p.calls \in Seq(SUBSET Nat) /\ p.args \in SUBSET Nat
  BY DEF Parsers
<1>2. s = [p EXCEPT !.calls = c, !.mode = "text"]
  BY DEF CompleteCall
<1>3. /\ c \in Seq(SUBSET Nat) /\ n \in Nat /\ Len(c) = n + 1 /\ c[n + 1] = p.args /\ \A i \in 1..n : c[i] = p.calls[i]
      /\ DOMAIN c = 1..n + 1 /\ DOMAIN p.calls = 1..n
  BY <1>1
<1> HIDE DEF s, c, n
<1>4. s \in Parsers /\ s.out = p.out /\ s.buffer = p.buffer /\ s.args = p.args /\ s.calls = c /\ s.mode = "text"
  BY <1>1, <1>2, <1>3 DEF Parsers
<1>5. GivenBy(s) = GivenBy(p) \cup p.args
  <2>1. \A i \in DOMAIN c : (i \in DOMAIN p.calls /\ c[i] = p.calls[i]) \/ i = n + 1
    BY <1>3
  <2>2. \A i \in DOMAIN p.calls : i \in DOMAIN c /\ c[i] = p.calls[i]
    BY <1>3
  <2>3. n + 1 \in DOMAIN c
    BY <1>3
  <2>4. ASSUME NEW x \in GivenBy(s) PROVE x \in GivenBy(p) \cup p.args
    <3>1. PICK i \in DOMAIN c : x \in c[i]
      BY <1>4 DEF GivenBy
    <3> QED
      BY <1>3, <2>1, <3>1 DEF GivenBy
  <2>5. ASSUME NEW x \in GivenBy(p) PROVE x \in GivenBy(s)
    <3>1. PICK i \in DOMAIN p.calls : x \in p.calls[i]
      BY DEF GivenBy
    <3> QED
      BY <1>4, <2>2, <3>1 DEF GivenBy
  <2>6. p.args \subseteq GivenBy(s)
    BY <1>3, <1>4, <2>3 DEF GivenBy
  <2> QED
    BY <2>4, <2>5, <2>6
<1>6. ASSUME NEW i \in DOMAIN c, NEW j \in DOMAIN c, i # j
      PROVE  c[i] \cap c[j] = {}
  <2>1. \A k \in 1..n : p.calls[k] \subseteq GivenBy(p)
    BY <1>3 DEF GivenBy
  <2>2. \A k \in 1..n : c[k] \cap c[n + 1] = {}
    BY <1>3, <2>1 DEF Ordered
  <2>3. CASE i = n + 1
    <3>1. j \in 1..n
      BY <1>3, <1>6, <2>3
    <3> QED
      BY <2>2, <2>3, <3>1
  <2>4. CASE j = n + 1
    <3>1. i \in 1..n
      BY <1>3, <1>6, <2>4
    <3> QED
      BY <2>2, <2>4, <3>1
  <2>5. CASE i # n + 1 /\ j # n + 1
    <3>1. i \in 1..n /\ j \in 1..n
      BY <1>3, <2>5
    <3> QED
      BY <1>3, <1>6, <3>1 DEF Ordered
  <2> QED
    BY <2>3, <2>4, <2>5
<1>7. Handed(s) = Handed(p)
  BY <1>4, <1>5 DEF Handed
<1> QED
  BY <1>4, <1>5, <1>6, <1>7 DEF Ordered, s

(* The order does not depend on what the parser does next.                   *)
LEMMA OrderedAnyway ==
  ASSUME NEW p \in Parsers, Ordered(p), NEW g \in BOOLEAN, NEW m \in {"text", "matching"}
  PROVE  /\ [p EXCEPT !.going = g] \in Parsers /\ Ordered([p EXCEPT !.going = g])
         /\ [p EXCEPT !.mode = m] \in Parsers /\ Ordered([p EXCEPT !.mode = m])
<1> DEFINE q == [p EXCEPT !.going = g]
           r == [p EXCEPT !.mode = m]
<1>1. q \in Parsers /\ q.out = p.out /\ q.buffer = p.buffer /\ q.args = p.args /\ q.calls = p.calls /\ q.mode = p.mode
  BY DEF Parsers
<1>2. r \in Parsers /\ r.out = p.out /\ r.buffer = p.buffer /\ r.args = p.args /\ r.calls = p.calls /\ r.mode = m
  BY DEF Parsers
<1> HIDE DEF q, r
<1>3. Ordered(q)
  BY <1>1 DEF Ordered, Handed, GivenBy
<1>4. Ordered(r)
  BY <1>2 DEF Ordered, Handed, GivenBy
<1> QED
  BY <1>1, <1>2, <1>3, <1>4 DEF q, r

-----------------------------------------------------------------------------

(* A contiguous buffer stays so, and what leaves it is the next n positions.  *)
LEMMA CutMoves ==
  ASSUME NEW f \in Nat, NEW p \in Parsers, Contiguous(p, f), NEW n \in 0..Len(p.buffer),
         NEW q \in Parsers, q.buffer = AfterN(p.buffer, n)
  PROVE  /\ Cut(p, f) \in Nat /\ Cut(q, f) = Cut(p, f) + n /\ Cut(q, f) <= f /\ Contiguous(q, f)
         /\ {p.buffer[i] : i \in 1..n} = Cut(p, f) + 1..Cut(p, f) + n
         /\ ToSet(FirstN(p.buffer, n)) = Cut(p, f) + 1..Cut(p, f) + n
<1> DEFINE b == p.buffer
           c == Cut(p, f)
<1>1. b \in Seq(Nat) /\ Len(b) \in Nat /\ n \in Nat /\ n <= Len(b)
  BY DEF Parsers
<1>2. c \in Nat /\ c = f - Len(b) /\ \A i \in 1..Len(b) : b[i] = c + i
  <2>1. Len(p.buffer) <= f /\ \A i \in 1..Len(p.buffer) : p.buffer[i] = Cut(p, f) + i
    BY DEF Contiguous
  <2>2. Cut(p, f) = f - Len(p.buffer)
    BY DEF Cut
  <2>3. c = f - Len(b) /\ \A i \in 1..Len(b) : b[i] = c + i
    BY <2>1, <2>2
  <2>4. f - Len(b) \in Nat
    BY <1>1, <2>1
  <2> QED
    BY <2>3, <2>4
<1>3. /\ q.buffer \in Seq(Nat) /\ Len(q.buffer) = Len(b) - n /\ \A i \in 1..Len(b) - n : q.buffer[i] = b[n + i]
      /\ DOMAIN FirstN(b, n) = 1..n /\ \A i \in 1..n : FirstN(b, n)[i] = b[i]
  <2>1. n \in 0..Len(b)
    OBVIOUS
  <2>2. q.buffer = AfterN(b, n)
    OBVIOUS
  <2> HIDE DEF b
  <2>3. PICK r : r = AfterN(b, n)
    OBVIOUS
  <2>4. r \in Seq(Nat) /\ Len(r) = Len(b) - n /\ \A i \in 1..Len(b) - n : r[i] = b[n + i]
    BY <1>1, <2>1, <2>3, AfterLength
  <2>5. DOMAIN FirstN(b, n) = 1..n /\ \A i \in 1..n : FirstN(b, n)[i] = b[i]
    BY <1>1, <2>1, FirstLength
  <2> QED
    BY <2>2, <2>3, <2>4, <2>5
<1> HIDE DEF b, c
<1>4. Cut(q, f) = c + n /\ Cut(q, f) <= f
  BY <1>1, <1>2, <1>3 DEF Cut
<1>5. \A i \in 1..Len(b) - n : q.buffer[i] = c + n + i
  <2>1. TAKE i \in 1..Len(b) - n
  <2>2. n + i \in 1..Len(b)
    BY <1>1
  <2> QED
    BY <1>1, <1>2, <1>3, <2>2
<1>6. Contiguous(q, f)
  BY <1>1, <1>2, <1>3, <1>4, <1>5 DEF Contiguous
<1>7. {b[i] : i \in 1..n} = c + 1..c + n
  <2>1. \A i \in 1..n : b[i] = c + i
    BY <1>1, <1>2
  <2>2. ASSUME NEW x \in {b[i] : i \in 1..n} PROVE x \in c + 1..c + n
    BY <1>1, <1>2, <2>1
  <2>3. ASSUME NEW x \in c + 1..c + n PROVE x \in {b[i] : i \in 1..n}
    <3>1. x - c \in 1..n /\ c + (x - c) = x
      BY <1>1, <1>2
    <3>2. b[x - c] = x
      BY <2>1, <3>1
    <3> QED
      BY <3>1, <3>2
  <2> QED
    BY <2>2, <2>3
<1>8. ToSet(FirstN(b, n)) = {b[i] : i \in 1..n}
  <2>1. ToSet(FirstN(b, n)) = {FirstN(b, n)[i] : i \in 1..n}
    BY <1>3 DEF ToSet
  <2> QED
    BY <1>3, <2>1
<1> QED
  BY <1>2, <1>4, <1>6, <1>7, <1>8 DEF b, c

(* Functions begin at finitely many positions.                               *)
LEMMA BegunFinite ==
  ASSUME text \in Seq(Tokens)
  PROVE  Begun \in SUBSET Nat /\ IsFiniteSet(Begun) /\ \A p, f : IsFiniteSet(Found(p, f))
<1>1. Begun \in SUBSET (1..Len(text)) /\ Len(text) \in Nat
  BY DEF Begun
<1>2. IsFiniteSet(1..Len(text))
  BY <1>1, FS_Interval
<1>3. IsFiniteSet(Begun)
  BY <1>1, <1>2, FS_Subset
<1>4. \A p, f : Found(p, f) \in SUBSET Begun
  BY DEF Found
<1>5. \A p, f : IsFiniteSet(Found(p, f))
  BY <1>3, <1>4, FS_Subset
<1> QED
  BY <1>1, <1>3, <1>5

(* What Show does to the parts of the parser.                                *)
LEMMA ShowParts ==
  ASSUME NEW p \in Parsers, NEW n \in 0..Len(p.buffer)
  PROVE  LET q == Show(p, n)
         IN  /\ q \in Parsers /\ q.buffer = AfterN(p.buffer, n) /\ q.out = p.out \o FirstN(p.buffer, n)
             /\ ToSet(q.out) = ToSet(p.out) \cup ToSet(FirstN(p.buffer, n))
             /\ q.args = p.args /\ q.calls = p.calls /\ q.mode = p.mode /\ q.going = p.going
             /\ InCalls(q) = InCalls(p) /\ GivenBy(q) = GivenBy(p)
<1> DEFINE q == Show(p, n)
<1>1. /\ p.buffer \in Seq(Nat) /\ p.out \in Seq(Nat) /\ p.mode \in {"text", "matching", "params"} /\ p.going \in BOOLEAN
      /\ p.args \in SUBSET Nat /\ p.calls \in Seq(SUBSET Nat)
  BY DEF Parsers
<1>2. AfterN(p.buffer, n) \in Seq(Nat) /\ FirstN(p.buffer, n) \in Seq(Nat)
  BY <1>1, AfterFirst
<1>3. q = [p EXCEPT !.out = p.out \o FirstN(p.buffer, n), !.buffer = AfterN(p.buffer, n)]
  BY DEF Show
<1>4. p.out \o FirstN(p.buffer, n) \in Seq(Nat) /\ ToSet(p.out \o FirstN(p.buffer, n)) = ToSet(p.out) \cup ToSet(FirstN(p.buffer, n))
  BY <1>1, <1>2, ConcatElements, ConcatProperties
<1> HIDE DEF q
<1>5. /\ q \in Parsers /\ q.buffer = AfterN(p.buffer, n) /\ q.out = p.out \o FirstN(p.buffer, n)
      /\ q.args = p.args /\ q.calls = p.calls /\ q.mode = p.mode /\ q.going = p.going
  BY <1>1, <1>2, <1>3, <1>4 DEF Parsers
<1>6. InCalls(q) = InCalls(p) /\ GivenBy(q) = GivenBy(p)
  BY <1>5 DEF InCalls, GivenBy
<1> QED
  BY <1>4, <1>5, <1>6 DEF q

(* Taking: the parts of the parser.                                          *)
LEMMA TakeParts ==
  ASSUME NEW p \in Parsers, NEW n \in 0..Len(p.buffer)
  PROVE  LET q == Take(p, n)
         IN  /\ q \in Parsers /\ q.buffer = AfterN(p.buffer, n) /\ q.args = p.args \cup {p.buffer[i] : i \in 1..n}
             /\ q.out = p.out /\ q.calls = p.calls /\ q.mode = p.mode /\ q.going = p.going
             /\ GivenBy(q) = GivenBy(p)
<1> DEFINE q == Take(p, n)
           S == {p.buffer[i] : i \in 1..n}
<1>1. /\ p.buffer \in Seq(Nat) /\ p.out \in Seq(Nat) /\ p.mode \in {"text", "matching", "params"} /\ p.going \in BOOLEAN
      /\ p.args \in SUBSET Nat /\ p.calls \in Seq(SUBSET Nat)
  BY DEF Parsers
<1>2. AfterN(p.buffer, n) \in Seq(Nat) /\ S \in SUBSET Nat
  <2>1. \A i \in 1..n : p.buffer[i] \in Nat
    BY <1>1
  <2> QED
    BY <1>1, <2>1, AfterFirst
<1>3. q = [p EXCEPT !.args = p.args \cup S, !.buffer = AfterN(p.buffer, n)]
  BY DEF Take
<1> HIDE DEF q, S
<1>4. /\ q \in Parsers /\ q.buffer = AfterN(p.buffer, n) /\ q.args = p.args \cup S
      /\ q.out = p.out /\ q.calls = p.calls /\ q.mode = p.mode /\ q.going = p.going
  BY <1>1, <1>2, <1>3 DEF Parsers
<1>5. GivenBy(q) = GivenBy(p)
  BY <1>4 DEF GivenBy
<1> QED
  BY <1>4, <1>5 DEF q, S

(* Beginning a call: the parts of the parser.                                *)
LEMMA BeginParts ==
  ASSUME NEW p \in Parsers, NEW n \in 0..Len(p.buffer)
  PROVE  LET q == BeginCall(p, n)
         IN  /\ q \in Parsers /\ q.buffer = AfterN(p.buffer, n) /\ q.args = {}
             /\ q.out = p.out /\ q.calls = p.calls /\ q.mode = "params" /\ q.going = p.going
             /\ GivenBy(q) = GivenBy(p) /\ InCalls(q) = GivenBy(p)
<1> DEFINE q == BeginCall(p, n)
<1>1. /\ p.buffer \in Seq(Nat) /\ p.out \in Seq(Nat) /\ p.going \in BOOLEAN /\ p.calls \in Seq(SUBSET Nat)
  BY DEF Parsers
<1>2. AfterN(p.buffer, n) \in Seq(Nat)
  BY <1>1, AfterFirst
<1>3. q = [p EXCEPT !.args = {}, !.buffer = AfterN(p.buffer, n), !.mode = "params"]
  BY DEF BeginCall
<1> HIDE DEF q
<1>4. /\ q \in Parsers /\ q.buffer = AfterN(p.buffer, n) /\ q.args = {}
      /\ q.out = p.out /\ q.calls = p.calls /\ q.mode = "params" /\ q.going = p.going
  BY <1>1, <1>2, <1>3 DEF Parsers
<1>5. GivenBy(q) = GivenBy(p) /\ InCalls(q) = GivenBy(p)
  BY <1>4 DEF GivenBy, InCalls
<1> QED
  BY <1>4, <1>5 DEF q

(* Completing a call: the parts of the parser.                               *)
LEMMA CompleteParts ==
  ASSUME NEW p \in Parsers, p.mode = "params", Ordered(p)
  PROVE  LET q == CompleteCall(p)
         IN  /\ q \in Parsers /\ q.buffer = p.buffer /\ q.args = p.args /\ q.out = p.out
             /\ q.calls = Append(p.calls, p.args) /\ q.mode = "text" /\ q.going = p.going
             /\ InCalls(q) = InCalls(p) /\ Len(q.calls) = Len(p.calls) + 1
<1> DEFINE q == CompleteCall(p)
<1>1. /\ p.buffer \in Seq(Nat) /\ p.out \in Seq(Nat) /\ p.going \in BOOLEAN /\ p.calls \in Seq(SUBSET Nat)
      /\ p.args \in SUBSET Nat
  BY DEF Parsers
<1>2. q = [p EXCEPT !.calls = Append(p.calls, p.args), !.mode = "text"]
  BY DEF CompleteCall
<1>3. q \in Parsers /\ GivenBy(q) = GivenBy(p) \cup p.args
  BY CompleteOrdered
<1> HIDE DEF q
<1>4. /\ q.buffer = p.buffer /\ q.args = p.args /\ q.out = p.out
      /\ q.calls = Append(p.calls, p.args) /\ q.mode = "text" /\ q.going = p.going
  BY <1>1, <1>2 DEF Parsers
<1>5. InCalls(q) = InCalls(p)
  BY <1>3, <1>4 DEF InCalls
<1>6. Len(q.calls) = Len(p.calls) + 1
  BY <1>1, <1>4
<1> QED
  BY <1>3, <1>4, <1>5, <1>6 DEF q

(* Handing out text keeps the account of the functions, if those in the text *)
(* are whole and there is a reason for them to be there.                     *)
LEMMA ShowCalls ==
  ASSUME NEW f \in Nat, NEW p \in Parsers, NEW n \in 0..Len(p.buffer), text \in Seq(Tokens),
         Contiguous(p, f), CallsInv(p, f),
         \A d \in Begun : Cut(p, f) < d /\ d <= Cut(p, f) + n => d + 2 <= Cut(p, f) + n /\ Beyond(d)
  PROVE  Contiguous(Show(p, n), f) /\ CallsInv(Show(p, n), f) /\ Cut(Show(p, n), f) = Cut(p, f) + n
<1> DEFINE q == Show(p, n)
           c == Cut(p, f)
<1>1. /\ q \in Parsers /\ q.buffer = AfterN(p.buffer, n) /\ ToSet(q.out) = ToSet(p.out) \cup ToSet(FirstN(p.buffer, n))
      /\ q.calls = p.calls /\ q.mode = p.mode /\ InCalls(q) = InCalls(p)
  BY ShowParts
<1>2. /\ c \in Nat /\ Cut(q, f) = c + n /\ Contiguous(q, f) /\ ToSet(FirstN(p.buffer, n)) = c + 1..c + n
  BY <1>1, CutMoves
<1>3. n \in Nat
  BY DEF Parsers
<1>4. Begun \in SUBSET Nat
  BY BegunFinite
<1>5. \A d \in Begun : c < d /\ d <= c + n => d + 2 <= c + n /\ Beyond(d)
  OBVIOUS
<1>6. \A d \in Begun : d \in c + 1..c + n <=> c < d /\ d <= c + n
  BY <1>2, <1>3, <1>4
<1> HIDE DEF q, c
<1>7. \A d \in Begun : d <= c => d + 2 <= c
  BY DEF CallsInv, c
<1>8. \A d \in Begun : d <= c + n => d + 2 <= c + n
  BY <1>2, <1>3, <1>4, <1>5, <1>7
<1>9. Found(q, f) = Found(p, f)
  <2>1. ASSUME NEW d \in Begun
        PROVE  d <= c + n /\ d \notin c + 1..c + n <=> d <= c
    <3>1. d \in Nat
      BY <1>4
    <3> QED
      BY <1>2, <1>3, <3>1
  <2> QED
    BY <1>1, <1>2, <2>1 DEF Found, c
<1>10. \A d \in Begun : (d \in ToSet(q.out) => Beyond(d)) /\ (d \in InCalls(q) => Within(d))
  BY <1>1, <1>2, <1>5, <1>6 DEF CallsInv
<1>11. q.mode = "params" => \E i \in Begun : i <= c + n
  BY <1>1, <1>2, <1>3, <1>4 DEF CallsInv, c
<1>12. CallsInv(q, f)
  BY <1>1, <1>2, <1>8, <1>9, <1>10, <1>11 DEF CallsInv
<1> QED
  BY <1>2, <1>12 DEF q, c

(* So does taking a parameter.                                               *)
LEMMA TakeCalls ==
  ASSUME NEW f \in Nat, NEW p \in Parsers, NEW n \in 0..Len(p.buffer), text \in Seq(Tokens), p.mode = "params",
         Contiguous(p, f), CallsInv(p, f),
         \A d \in Begun : Cut(p, f) < d /\ d <= Cut(p, f) + n => d + 2 <= Cut(p, f) + n /\ Within(d)
  PROVE  Contiguous(Take(p, n), f) /\ CallsInv(Take(p, n), f) /\ Cut(Take(p, n), f) = Cut(p, f) + n
<1> DEFINE q == Take(p, n)
           c == Cut(p, f)
<1>1. /\ q \in Parsers /\ q.buffer = AfterN(p.buffer, n) /\ q.args = p.args \cup {p.buffer[i] : i \in 1..n}
      /\ q.out = p.out /\ q.calls = p.calls /\ q.mode = p.mode /\ GivenBy(q) = GivenBy(p)
  BY TakeParts
<1>2. /\ c \in Nat /\ Cut(q, f) = c + n /\ Contiguous(q, f) /\ {p.buffer[i] : i \in 1..n} = c + 1..c + n
  BY <1>1, CutMoves
<1>3. n \in Nat
  BY DEF Parsers
<1>4. Begun \in SUBSET Nat
  BY BegunFinite
<1>5. \A d \in Begun : c < d /\ d <= c + n => d + 2 <= c + n /\ Within(d)
  OBVIOUS
<1>6. \A d \in Begun : d \in c + 1..c + n <=> c < d /\ d <= c + n
  BY <1>2, <1>3, <1>4
<1> HIDE DEF q, c
<1>7. \A d \in Begun : d <= c => d + 2 <= c
  BY DEF CallsInv, c
<1>8. \A d \in Begun : d <= c + n => d + 2 <= c + n
  BY <1>2, <1>3, <1>4, <1>5, <1>7
<1>9. InCalls(q) = InCalls(p) \cup (c + 1..c + n)
  BY <1>1, <1>2 DEF InCalls
<1>10. Found(q, f) = Found(p, f)
  <2>1. ASSUME NEW d \in Begun
        PROVE  d <= c + n /\ d \notin c + 1..c + n <=> d <= c
    <3>1. d \in Nat
      BY <1>4
    <3> QED
      BY <1>2, <1>3, <3>1
  <2> QED
    BY <1>1, <1>2, <1>9, <2>1 DEF Found, c
<1>11. \A d \in Begun : (d \in ToSet(q.out) => Beyond(d)) /\ (d \in InCalls(q) => Within(d))
  BY <1>1, <1>5, <1>6, <1>9 DEF CallsInv
<1>12. q.mode = "params" => \E i \in Begun : i <= c + n
  BY <1>1, <1>2, <1>3, <1>4 DEF CallsInv, c
<1>13. CallsInv(q, f)
  BY <1>1, <1>2, <1>8, <1>10, <1>11, <1>12 DEF CallsInv
<1> QED
  BY <1>2, <1>13 DEF q, c

(* A call that begins is one more function found.                            *)
LEMMA BeginCalls ==
  ASSUME NEW f \in Nat, NEW p \in Parsers, NEW n \in 0..Len(p.buffer), text \in Seq(Tokens), p.mode = "matching",
         Ordered(p), Contiguous(p, f), CallsInv(p, f),
         NEW e \in Begun, Cut(p, f) < e, Cut(p, f) + n = e + 2,
         \A d \in Begun : Cut(p, f) < d /\ d <= Cut(p, f) + n => d = e
  PROVE  Contiguous(BeginCall(p, n), f) /\ CallsInv(BeginCall(p, n), f) /\ Cut(BeginCall(p, n), f) = Cut(p, f) + n
<1> DEFINE q == BeginCall(p, n)
           c == Cut(p, f)
<1>1. /\ q \in Parsers /\ q.buffer = AfterN(p.buffer, n)
      /\ q.out = p.out /\ q.calls = p.calls /\ q.mode = "params" /\ InCalls(q) = GivenBy(p)
  BY BeginParts
<1>2. c \in Nat /\ Cut(q, f) = c + n /\ Contiguous(q, f)
  BY <1>1, CutMoves
<1>3. n \in Nat /\ Len(p.calls) \in Nat
  BY DEF Parsers
<1>4. Begun \in SUBSET Nat /\ IsFiniteSet(Found(p, f))
  BY BegunFinite
<1>5. \A d \in Begun : c < d /\ d <= c + n => d = e
  OBVIOUS
<1>6. InCalls(p) = GivenBy(p)
  BY DEF InCalls
<1>7. e \notin ToSet(p.out) \cup GivenBy(p)
  <2>1. e - c \in 1..n /\ n <= Len(p.buffer) /\ Len(p.buffer) \in Nat
    BY <1>2, <1>3, <1>4 DEF Parsers
  <2>2. e - c \in DOMAIN p.buffer /\ p.buffer[e - c] = e
    <3>1. p.buffer \in Seq(Nat) /\ e - c \in 1..Len(p.buffer)
      BY <1>2, <1>3, <1>4, <2>1 DEF Parsers
    <3>2. p.buffer[e - c] = c + (e - c)
      BY <3>1 DEF Contiguous
    <3>3. c \in Int /\ e \in Int
      BY <1>2, <1>4
    <3>4. c + (e - c) = e
      <4> HIDE DEF c
      <4> QED
        BY <3>3
    <3>5. DOMAIN p.buffer = 1..Len(p.buffer)
      BY <3>1
    <3> QED
      BY <3>1, <3>2, <3>4, <3>5
  <2>3. \A h \in Handed(p) : h < e
    BY <2>2 DEF Ordered
  <2>4. e \notin Handed(p)
    BY <1>4, <2>3
  <2> QED
    BY <2>4 DEF Handed
<1>8. c < e /\ c + n = e + 2
  OBVIOUS
<1> HIDE DEF q, c
<1>9. \A d \in Begun : d <= c => d + 2 <= c
  BY DEF CallsInv, c
<1>10. \A d \in Begun : d <= c + n => d + 2 <= c + n
  BY <1>2, <1>3, <1>4, <1>5, <1>8, <1>9
<1>11. Found(q, f) = Found(p, f) \cup {e} /\ e \notin Found(p, f)
  <2>1. \A d \in Begun : d <= c + n <=> d <= c \/ d = e
    BY <1>2, <1>3, <1>4, <1>5, <1>8
  <2>2. ~(e <= c)
    BY <1>2, <1>4, <1>8
  <2> QED
    BY <1>1, <1>2, <1>6, <1>7, <2>1, <2>2 DEF Found, c
<1>12. Cardinality(Found(q, f)) = Cardinality(Found(p, f)) + 1
  BY <1>4, <1>11, FS_AddElement
<1>13. \A d \in Begun : (d \in ToSet(q.out) => Beyond(d)) /\ (d \in InCalls(q) => Within(d))
  BY <1>1, <1>6 DEF CallsInv
<1>14. \E i \in Begun : i <= c + n
  BY <1>2, <1>3, <1>4, <1>8
<1>15. Cardinality(Found(q, f)) = Len(q.calls) + 1
  BY <1>1, <1>3, <1>12 DEF CallsInv
<1>16. CallsInv(q, f)
  BY <1>1, <1>2, <1>10, <1>13, <1>14, <1>15 DEF CallsInv
<1> QED
  BY <1>2, <1>16 DEF q, c

(* When it is complete it is a call.                                         *)
LEMMA CompleteCalls ==
  ASSUME NEW f \in Nat, NEW p \in Parsers, text \in Seq(Tokens), p.mode = "params", Ordered(p), Contiguous(p, f), CallsInv(p, f)
  PROVE  Contiguous(CompleteCall(p), f) /\ CallsInv(CompleteCall(p), f) /\ Cut(CompleteCall(p), f) = Cut(p, f)
<1> DEFINE q == CompleteCall(p)
<1>1. /\ q \in Parsers /\ q.buffer = p.buffer /\ q.out = p.out /\ q.mode = "text"
      /\ InCalls(q) = InCalls(p) /\ Len(q.calls) = Len(p.calls) + 1
  BY CompleteParts
<1>2. Len(p.calls) \in Nat
  BY DEF Parsers
<1> HIDE DEF q
<1>3. Cut(q, f) = Cut(p, f) /\ Contiguous(q, f)
  BY <1>1 DEF Cut, Contiguous
<1>4. Found(q, f) = Found(p, f)
  BY <1>1, <1>3 DEF Found
<1>5. CallsInv(q, f)
  BY <1>1, <1>2, <1>3, <1>4 DEF CallsInv
<1> QED
  BY <1>3, <1>5 DEF q

(* The account depends on the parts only, and not on what comes next.         *)
LEMMA CallsAnyway ==
  ASSUME NEW f \in Nat, NEW p \in Parsers, NEW q \in Parsers, q.buffer = p.buffer, q.out = p.out, q.args = p.args,
         q.calls = p.calls, p.mode = q.mode \/ (p.mode # "params" /\ q.mode # "params"),
         Contiguous(p, f), CallsInv(p, f)
  PROVE  Contiguous(q, f) /\ CallsInv(q, f) /\ Cut(q, f) = Cut(p, f)
<1>1. Cut(q, f) = Cut(p, f) /\ Contiguous(q, f)
  BY DEF Cut, Contiguous
<1>2. InCalls(q) = InCalls(p) /\ (q.mode = "params" <=> p.mode = "params")
  BY DEF InCalls, GivenBy
<1>3. Found(q, f) = Found(p, f)
  BY <1>1, <1>2 DEF Found
<1> QED
  BY <1>1, <1>2, <1>3 DEF CallsInv

-----------------------------------------------------------------------------

(* Whole functions and parameters, by where they begin.                      *)
IsFunction(d) == d >= 1 /\ d + 2 <= Len(text) /\ text[d] = "dot" /\ text[d + 1] = "func" /\ text[d + 2] = "name"
IsParameter(k) == /\ k >= 1 /\ k + 3 <= Len(text)
                  /\ text[k] = "par" /\ text[k + 1] = "name" /\ text[k + 2] = "x" /\ text[k + 3] = "/par"

(* Where functions begin.                                                    *)
LEMMA BegunIs ==
  ASSUME text \in Seq(Tokens)
  PROVE  \A d \in Int : d \in Begun <=> IsFunction(d)
<1>1. Len(text) \in Nat
  OBVIOUS
<1>2. TAKE d \in Int
<1>3. d \in 1..Len(text) - 2 <=> d >= 1 /\ d + 2 <= Len(text)
  BY <1>1
<1> QED
  BY <1>3 DEF Begun, IsFunction

(* The tokens of whole functions and parameters.                             *)
LEMMA FunctionTokens ==
  ASSUME text \in Seq(Tokens), NEW k \in 1..Len(text), k \in Functions
  PROVE  /\ text[k] \in {"dot", "func", "name"} /\ (text[k] = "dot" => k \in Begun)
         /\ text[k] = "func" => k - 1 \in Begun
<1>1. PICK d \in Begun : k \in d..d + 2
  BY DEF Functions
<1>2. d \in Int /\ k \in Int
  BY DEF Begun
<1>3. IsFunction(d)
  BY <1>2, BegunIs
<1>4. k = d \/ k = d + 1 \/ k = d + 2
  BY <1>1, <1>2
<1>5. CASE k = d
  BY <1>3, <1>5 DEF IsFunction
<1>6. CASE k = d + 1
  <2>1. k - 1 = d
    BY <1>2, <1>6
  <2> QED
    BY <1>3, <1>6, <2>1 DEF IsFunction
<1>7. CASE k = d + 2
  BY <1>3, <1>7 DEF IsFunction
<1> QED
  BY <1>4, <1>5, <1>6, <1>7

(* What a token of a whole parameter may be.                                 *)
LEMMA ParameterTokens ==
  ASSUME text \in Seq(Tokens), NEW k \in 1..Len(text), k \in Parameter
  PROVE  /\ text[k] \in {"par", "name", "x", "/par"} /\ (text[k] = "par" => IsParameter(k))
         /\ text[k] = "/par" => IsParameter(k - 3)
<1>1. PICK j \in 1..Len(text) - 3 : SubSeq(text, j, j + 3) = <<"par", "name", "x", "/par">> /\ k \in j..j + 3
  BY DEF Parameter
<1>2. j \in Int /\ Len(text) \in Nat /\ 1 <= j /\ j + 3 <= Len(text) /\ k \in Int
  BY <1>1
<1>3. \A i \in j..j + 3 : text[i] \in Tokens
  BY <1>2
<1>4. \A i \in 1..j + 3 - j + 1 : SubSeq(text, j, j + 3)[i] = text[j + i - 1]
  BY <1>2, <1>3, SubSeqProperties
<1>5. /\ 1 \in 1..j + 3 - j + 1 /\ 2 \in 1..j + 3 - j + 1 /\ 3 \in 1..j + 3 - j + 1 /\ 4 \in 1..j + 3 - j + 1
      /\ j + 1 - 1 = j /\ j + 2 - 1 = j + 1 /\ j + 3 - 1 = j + 2 /\ j + 4 - 1 = j + 3
  BY <1>2
<1> DEFINE s == SubSeq(text, j, j + 3)
<1>6. s[1] = text[j] /\ s[2] = text[j + 1] /\ s[3] = text[j + 2] /\ s[4] = text[j + 3]
  BY <1>4, <1>5
<1>7. s = <<"par", "name", "x", "/par">>
  BY <1>1
<1> HIDE DEF s
<1>8. text[j] = "par" /\ text[j + 1] = "name" /\ text[j + 2] = "x" /\ text[j + 3] = "/par"
  BY <1>6, <1>7
<1>9. IsParameter(j)
  BY <1>2, <1>8 DEF IsParameter
<1>10. k = j \/ k = j + 1 \/ k = j + 2 \/ k = j + 3
  BY <1>1, <1>2
<1>11. k = j + 3 => k - 3 = j
  BY <1>2
<1> QED
  BY <1>8, <1>9, <1>10, <1>11

(* In a neat text every bullet and tag is where it belongs.                  *)
LEMMA NeatMeans ==
  ASSUME text \in Seq(Tokens), Neat, NEW k \in 1..Len(text)
  PROVE  /\ text[k] \notin {"<|", "json"} /\ (text[k] = "dot" => k \in Begun) /\ (text[k] = "func" => k - 1 \in Begun)
         /\ (text[k] = "par" => IsParameter(k)) /\ (text[k] = "/par" => IsParameter(k - 3))
<1>1. text[k] # "json" /\ (text[k] \in BeginsTag \cup {"dot"} => k \in Functions \cup Parameter)
  BY DEF Neat
<1>2. BeginsTag \cup {"dot"} = {"func", "par", "/par", "<|", "dot"}
  BY DEF BeginsTag
<1> QED
  BY <1>1, <1>2, FunctionTokens, ParameterTokens

(* A neat text is plain.                                                     *)
LEMMA NeatIsPlain ==
  ASSUME text \in Seq(Tokens), Neat
  PROVE  Plain
<1>1. ASSUME NEW k \in 1..Len(text)
      PROVE  /\ text[k] # "<|" /\ text[k] # "json" /\ (text[k] = "func" => k - 1 \in Begun)
             /\ text[k] = "par" => k < Len(text) /\ text[k + 1] = "name"
  <2>1. k \in Int /\ Len(text) \in Nat
    OBVIOUS
  <2>2. text[k] = "par" => k + 3 <= Len(text) /\ text[k + 1] = "name"
    BY NeatMeans DEF IsParameter
  <2>3. text[k] \notin {"<|", "json"} /\ (text[k] = "func" => k - 1 \in Begun)
    BY NeatMeans
  <2> QED
    BY <2>1, <2>2, <2>3
<1> QED
  BY <1>1 DEF Plain

(* Handing out text keeps the account of the text.                           *)
LEMMA ShowText ==
  ASSUME NEW f \in Nat, NEW p \in Parsers, NEW n \in 0..Len(p.buffer), Contiguous(p, f), TextInv(p, f),
         p.mode # "matching", p.mode = "params" /\ Cut(p, f) + n < Len(text) => text[Cut(p, f) + n + 1] \notin {"func", "/par"}
  PROVE  TextInv(Show(p, n), f)
<1> DEFINE q == Show(p, n)
           c == Cut(p, f)
<1>1. /\ q \in Parsers /\ q.buffer = AfterN(p.buffer, n) /\ ToSet(q.out) = ToSet(p.out) \cup ToSet(FirstN(p.buffer, n))
      /\ q.mode = p.mode /\ InCalls(q) = InCalls(p)
  BY ShowParts
<1>2. c \in Nat /\ Cut(q, f) = c + n /\ ToSet(FirstN(p.buffer, n)) = c + 1..c + n
  BY <1>1, CutMoves
<1>3. n \in Nat
  BY DEF Parsers
<1>4. p.mode = "params" /\ c + n < Len(text) => text[c + n + 1] \notin {"func", "/par"}
  OBVIOUS
<1>5. \A k \in 1..c : text[k] = "x" => k \in ToSet(p.out) \cup InCalls(p)
  BY DEF TextInv
<1> HIDE DEF q, c
<1>6. \A k \in 1..c + n : k \in 1..c \/ k \in c + 1..c + n
  BY <1>2, <1>3
<1>7. \A k \in 1..c + n : text[k] = "x" => k \in ToSet(q.out) \cup InCalls(q)
  BY <1>1, <1>2, <1>5, <1>6
<1> QED
  BY <1>1, <1>2, <1>4, <1>7 DEF TextInv, q

(* So does taking a parameter,                                               *)
LEMMA TakeText ==
  ASSUME NEW f \in Nat, NEW p \in Parsers, NEW n \in 0..Len(p.buffer), Contiguous(p, f), TextInv(p, f),
         p.mode = "params", Cut(p, f) + n < Len(text) => text[Cut(p, f) + n + 1] \notin {"func", "/par"}
  PROVE  TextInv(Take(p, n), f)
<1> DEFINE q == Take(p, n)
           c == Cut(p, f)
<1>1. /\ q \in Parsers /\ q.buffer = AfterN(p.buffer, n) /\ q.args = p.args \cup {p.buffer[i] : i \in 1..n}
      /\ q.out = p.out /\ q.mode = p.mode /\ GivenBy(q) = GivenBy(p)
  BY TakeParts
<1>2. c \in Nat /\ Cut(q, f) = c + n /\ {p.buffer[i] : i \in 1..n} = c + 1..c + n
  BY <1>1, CutMoves
<1>3. n \in Nat
  BY DEF Parsers
<1>4. c + n < Len(text) => text[c + n + 1] \notin {"func", "/par"}
  OBVIOUS
<1>5. \A k \in 1..c : text[k] = "x" => k \in ToSet(p.out) \cup InCalls(p)
  BY DEF TextInv
<1> HIDE DEF q, c
<1>6. \A k \in 1..c + n : k \in 1..c \/ k \in c + 1..c + n
  BY <1>2, <1>3
<1>7. InCalls(q) = InCalls(p) \cup (c + 1..c + n)
  BY <1>1, <1>2 DEF InCalls
<1>8. \A k \in 1..c + n : text[k] = "x" => k \in ToSet(q.out) \cup InCalls(q)
  BY <1>1, <1>5, <1>6, <1>7
<1> QED
  BY <1>1, <1>2, <1>4, <1>8 DEF TextInv, q

(* the beginning of a call, in which there is no text,                       *)
LEMMA BeginText ==
  ASSUME NEW f \in Nat, NEW p \in Parsers, NEW n \in 0..Len(p.buffer), Contiguous(p, f), TextInv(p, f),
         p.mode = "matching", \A k \in 1..n : text[Cut(p, f) + k] # "x",
         Cut(p, f) + n < Len(text) => text[Cut(p, f) + n + 1] \notin {"func", "/par"}
  PROVE  TextInv(BeginCall(p, n), f)
<1> DEFINE q == BeginCall(p, n)
           c == Cut(p, f)
<1>1. /\ q \in Parsers /\ q.buffer = AfterN(p.buffer, n)
      /\ q.out = p.out /\ q.mode = "params" /\ InCalls(q) = GivenBy(p)
  BY BeginParts
<1>2. c \in Nat /\ Cut(q, f) = c + n
  BY <1>1, CutMoves
<1>3. n \in Nat
  BY DEF Parsers
<1>4. /\ c + n < Len(text) => text[c + n + 1] \notin {"func", "/par"}
      /\ \A k \in 1..n : text[c + k] # "x"
  OBVIOUS
<1>5. InCalls(p) = GivenBy(p)
  BY DEF InCalls
<1>6. \A k \in 1..c : text[k] = "x" => k \in ToSet(p.out) \cup InCalls(p)
  BY DEF TextInv
<1> HIDE DEF q, c
<1>7. ASSUME NEW k \in 1..c + n, text[k] = "x"
      PROVE  k \in 1..c
  <2>1. SUFFICES ASSUME k > c PROVE FALSE
    BY <1>2, <1>3
  <2>2. k - c \in 1..n /\ c + (k - c) = k
    BY <1>2, <1>3, <2>1
  <2>3. text[c + (k - c)] # "x"
    BY <1>4, <2>2
  <2> QED
    BY <1>7, <2>2, <2>3
<1>8. \A k \in 1..c + n : text[k] = "x" => k \in ToSet(q.out) \cup InCalls(q)
  BY <1>1, <1>5, <1>6, <1>7
<1> QED
  BY <1>1, <1>2, <1>4, <1>8 DEF TextInv, q

(* and the end of a call.                                                    *)
LEMMA CompleteText ==
  ASSUME NEW f \in Nat, NEW p \in Parsers, p.mode = "params", Ordered(p), TextInv(p, f)
  PROVE  TextInv(CompleteCall(p), f)
<1> DEFINE q == CompleteCall(p)
<1>1. /\ q \in Parsers /\ q.buffer = p.buffer /\ q.out = p.out /\ q.mode = "text" /\ InCalls(q) = InCalls(p)
  BY CompleteParts
<1> HIDE DEF q
<1>2. Cut(q, f) = Cut(p, f)
  BY <1>1 DEF Cut
<1>3. \A k \in 1..Cut(q, f) : text[k] = "x" => k \in ToSet(q.out) \cup InCalls(q)
  BY <1>1, <1>2 DEF TextInv
<1>4. TextInv(q, f)
  BY <1>1, <1>3 DEF TextInv
<1> QED
  BY <1>4 DEF q

(* The account of the text does not depend on what the parser waits for.     *)
LEMMA TextAnyway ==
  ASSUME NEW f \in Nat, NEW p \in Parsers, NEW q \in Parsers, q.buffer = p.buffer, q.out = p.out, q.args = p.args,
         q.calls = p.calls,
         q.mode = p.mode \/ (p.mode # "params" /\ (q.mode = "text" \/ (q.mode = "matching" /\ q.buffer # <<>> /\ text[q.buffer[1]] = "dot"))),
         TextInv(p, f)
  PROVE  TextInv(q, f)
<1>1. Cut(q, f) = Cut(p, f)
  BY DEF Cut
<1>2. InCalls(q) = InCalls(p) /\ (q.mode = "params" <=> p.mode = "params")
  BY DEF InCalls, GivenBy
<1>3. \A k \in 1..Cut(q, f) : text[k] = "x" => k \in ToSet(q.out) \cup InCalls(q)
  BY <1>1, <1>2 DEF TextInv
<1>4. q.mode = "matching" => q.buffer # <<>> /\ text[q.buffer[1]] = "dot"
  BY DEF TextInv
<1>5. q.mode = "params" /\ Cut(q, f) < Len(text) => text[Cut(q, f) + 1] \notin {"func", "/par"}
  BY <1>1, <1>2 DEF TextInv
<1> QED
  BY <1>3, <1>4, <1>5 DEF TextInv

(* All that was handed out so far, and the next thing handed out.            *)
LEMMA ToldParts ==
  ASSUME NEW p \in Parsers, shown \in Seq(Nat), tools \in Seq(SUBSET Nat)
  PROVE  /\ Told(p) \in Parsers /\ Told(p).buffer = p.buffer /\ Told(p).mode = p.mode /\ Told(p).args = p.args
         /\ Told(p).going = p.going /\ Told(p).out = shown \o p.out /\ Told(p).calls = tools \o p.calls
<1>1. /\ p.buffer \in Seq(Nat) /\ p.out \in Seq(Nat) /\ p.mode \in {"text", "matching", "params"} /\ p.going \in BOOLEAN
      /\ p.args \in SUBSET Nat /\ p.calls \in Seq(SUBSET Nat)
  BY DEF Parsers
<1>2. shown \o p.out \in Seq(Nat) /\ tools \o p.calls \in Seq(SUBSET Nat)
  <2>1. shown \o p.out \in Seq(Nat)
    BY <1>1, ConcatProperties
  <2>2. tools \o p.calls \in Seq(SUBSET Nat)
    BY <1>1, ConcatProperties
  <2> QED
    BY <2>1, <2>2
<1> QED
  BY <1>1, <1>2 DEF Told, Parsers

(* Positions may be joined in any order.                                     *)
LEMMA PositionsAssociative ==
  ASSUME NEW a \in Seq(Nat), NEW b \in Seq(Nat), NEW c \in Seq(Nat)
  PROVE  (a \o b) \o c = a \o (b \o c)
BY ConcatAssociative

(* What is handed out now comes after all that was handed out before.        *)
LEMMA ToldShow ==
  ASSUME NEW p \in Parsers, shown \in Seq(Nat), tools \in Seq(SUBSET Nat), NEW n \in 0..Len(p.buffer)
  PROVE  Told(Show(p, n)) = Show(Told(p), n)
<1>1. /\ p.buffer \in Seq(Nat) /\ p.out \in Seq(Nat)
  BY DEF Parsers
<1>2. FirstN(p.buffer, n) \in Seq(Nat)
  BY <1>1, AfterFirst
<1>3. PICK a \in Seq(Nat), b \in Seq(Nat), c \in Seq(Nat) : a = shown /\ b = p.out /\ c = FirstN(p.buffer, n)
  BY <1>1, <1>2
<1>4. (a \o b) \o c = a \o (b \o c)
  BY PositionsAssociative
<1>5. (shown \o p.out) \o FirstN(p.buffer, n) = shown \o (p.out \o FirstN(p.buffer, n))
  BY <1>3, <1>4
<1> QED
  BY <1>5 DEF Told, Show, Parsers

(* What a call takes is no part of that.                                     *)
LEMMA ToldTake ==
  ASSUME NEW p \in Parsers, NEW n, shown \in Seq(Nat), tools \in Seq(SUBSET Nat)
  PROVE  Told(Take(p, n)) = Take(Told(p), n) /\ Told(BeginCall(p, n)) = BeginCall(Told(p), n)
<1>1. Told(p).buffer = p.buffer /\ Told(p).args = p.args
  BY ToldParts
<1>2. Told(Take(p, n)) = [Told(p) EXCEPT !.buffer = AfterN(p.buffer, n), !.args = p.args \cup {p.buffer[i] : i \in 1..n}]
  BY DEF Told, Take, Parsers
<1>3. Take(Told(p), n) = [Told(p) EXCEPT !.buffer = AfterN(p.buffer, n), !.args = p.args \cup {p.buffer[i] : i \in 1..n}]
  BY <1>1 DEF Take
<1>4. Told(BeginCall(p, n)) = BeginCall(Told(p), n)
  BY DEF Told, BeginCall, Parsers
<1> QED
  BY <1>2, <1>3, <1>4

(* A call that ends comes after the earlier calls.                           *)
LEMMA ToldComplete ==
  ASSUME NEW p \in Parsers, tools \in Seq(SUBSET Nat)
  PROVE  Told(CompleteCall(p)) = CompleteCall(Told(p))
<1>1. p.calls \in Seq(SUBSET Nat) /\ p.args \in SUBSET Nat
  BY DEF Parsers
<1>2. tools \o Append(p.calls, p.args) = Append(tools \o p.calls, p.args)
  BY <1>1, ConcatAppend
<1> QED
  BY <1>2 DEF Told, CompleteCall, Parsers

(* The other fields have nothing to do with it.                              *)
LEMMA ToldAnyway ==
  ASSUME NEW p \in Parsers, NEW g, NEW m
  PROVE  Told([p EXCEPT !.going = g]) = [Told(p) EXCEPT !.going = g] /\ Told([p EXCEPT !.mode = m]) = [Told(p) EXCEPT !.mode = m]
BY DEF Told, Parsers

-----------------------------------------------------------------------------

(* The parts of a buffer are of the buffer.                                  *)
LEMMA PartsWithin ==
  ASSUME NEW b \in Seq(Nat), NEW n \in 0..Len(b)
  PROVE  /\ ToSet(FirstN(b, n)) \subseteq ToSet(b) /\ ToSet(AfterN(b, n)) \subseteq ToSet(b)
         /\ {b[i] : i \in 1..n} \subseteq ToSet(b)
<1>1. \A i \in 1..n : i \in DOMAIN b
  OBVIOUS
<1> QED
  BY <1>1, PartsOf DEF ToSet

(* Nothing but what was fed is ever handed out or held.                      *)
LEMMA BoundedMoves ==
  ASSUME NEW f \in Nat, NEW p \in Parsers, Bounded(p, f), NEW n \in 0..Len(p.buffer)
  PROVE  Bounded(Show(p, n), f) /\ Bounded(Take(p, n), f) /\ Bounded(BeginCall(p, n), f)
<1>1. p.buffer \in Seq(Nat)
  BY DEF Parsers
<1>2. /\ ToSet(FirstN(p.buffer, n)) \subseteq ToSet(p.buffer) /\ ToSet(AfterN(p.buffer, n)) \subseteq ToSet(p.buffer)
      /\ {p.buffer[i] : i \in 1..n} \subseteq ToSet(p.buffer)
  BY <1>1, PartsWithin
<1>3. ToSet(p.out) \cup p.args \cup GivenBy(p) \cup ToSet(p.buffer) \subseteq 1..f
  BY DEF Bounded, Handed
<1>4. Bounded(Show(p, n), f)
  <2>1. PICK q : q = Show(p, n)
    OBVIOUS
  <2>2. /\ q.buffer = AfterN(p.buffer, n) /\ ToSet(q.out) = ToSet(p.out) \cup ToSet(FirstN(p.buffer, n))
        /\ q.args = p.args /\ GivenBy(q) = GivenBy(p)
    BY <2>1, ShowParts
  <2>3. ToSet(q.out) \cup q.args \cup GivenBy(q) \cup ToSet(q.buffer) \subseteq 1..f
    BY <1>2, <1>3, <2>2
  <2> QED
    BY <2>1, <2>3 DEF Bounded, Handed
<1>5. Bounded(Take(p, n), f)
  <2>1. PICK q : q = Take(p, n)
    OBVIOUS
  <2>2. /\ q.buffer = AfterN(p.buffer, n) /\ q.out = p.out
        /\ q.args = p.args \cup {p.buffer[i] : i \in 1..n} /\ GivenBy(q) = GivenBy(p)
    BY <2>1, TakeParts
  <2>3. ToSet(q.out) \cup q.args \cup GivenBy(q) \cup ToSet(q.buffer) \subseteq 1..f
    BY <1>2, <1>3, <2>2
  <2> QED
    BY <2>1, <2>3 DEF Bounded, Handed
<1>6. Bounded(BeginCall(p, n), f)
  <2>1. PICK q : q = BeginCall(p, n)
    OBVIOUS
  <2>2. q.buffer = AfterN(p.buffer, n) /\ q.out = p.out /\ q.args = {} /\ GivenBy(q) = GivenBy(p)
    BY <2>1, BeginParts
  <2>3. ToSet(q.out) \cup q.args \cup GivenBy(q) \cup ToSet(q.buffer) \subseteq 1..f
    BY <1>2, <1>3, <2>2
  <2> QED
    BY <2>1, <2>3 DEF Bounded, Handed
<1> QED
  BY <1>4, <1>5, <1>6

(* Neither the end of a call nor a change of mode adds a position.           *)
LEMMA BoundedAnyway ==
  ASSUME NEW f \in Nat, NEW p \in Parsers, Bounded(p, f), Ordered(p)
  PROVE  /\ p.mode = "params" => Bounded(CompleteCall(p), f)
         /\ \A g, m : Bounded([p EXCEPT !.going = g], f) /\ Bounded([p EXCEPT !.mode = m], f)
<1>1. ToSet(p.out) \cup p.args \cup GivenBy(p) \cup ToSet(p.buffer) \subseteq 1..f
  BY DEF Bounded, Handed
<1>2. ASSUME p.mode = "params"
      PROVE  Bounded(CompleteCall(p), f)
  <2>1. PICK q : q = CompleteCall(p)
    OBVIOUS
  <2>2. q.buffer = p.buffer /\ q.out = p.out /\ q.args = p.args /\ GivenBy(q) = GivenBy(p) \cup p.args
    BY <1>2, <2>1, CompleteParts, CompleteOrdered
  <2>3. ToSet(q.out) \cup q.args \cup GivenBy(q) \cup ToSet(q.buffer) \subseteq 1..f
    BY <1>1, <2>2
  <2> QED
    BY <2>1, <2>3 DEF Bounded, Handed
<1>3. ASSUME NEW g, NEW m
      PROVE  Bounded([p EXCEPT !.going = g], f) /\ Bounded([p EXCEPT !.mode = m], f)
  BY <1>1 DEF Bounded, Handed, GivenBy, Parsers
<1> QED
  BY <1>2, <1>3

-----------------------------------------------------------------------------

(* The types of what was handed out, and what a parser that goes on from there *)
(* has to satisfy.                                                           *)
Ground == text \in Seq(Tokens) /\ shown \in Seq(Nat) /\ tools \in Seq(SUBSET Nat)
Kept(p, f) == p \in Parsers /\ ParserInv(Told(p), f)

(* Handing out text keeps the parser's account,                              *)
LEMMA KeptShow ==
  ASSUME Ground, NEW f \in Nat, NEW p, Kept(p, f), NEW n \in 0..Len(p.buffer),
         Plain => \A d \in Begun : Cut(p, f) < d /\ d <= Cut(p, f) + n => d + 2 <= Cut(p, f) + n /\ Beyond(d),
         Neat => /\ p.mode # "matching"
                 /\ p.mode = "params" /\ Cut(p, f) + n < Len(text) => text[Cut(p, f) + n + 1] \notin {"func", "/par"}
  PROVE  Kept(Show(p, n), f)
<1>1. p \in Parsers /\ shown \in Seq(Nat) /\ tools \in Seq(SUBSET Nat) /\ text \in Seq(Tokens) /\ ParserInv(Told(p), f)
  BY DEF Kept, Ground
<1>2. PICK t : t = Told(p)
  OBVIOUS
<1>3. t \in Parsers /\ t.buffer = p.buffer /\ t.mode = p.mode
  BY <1>1, <1>2, ToldParts
<1>4. Show(p, n) \in Parsers /\ Told(Show(p, n)) = Show(t, n)
  BY <1>1, <1>2, ToldShow, ShowParts
<1>5. Cut(t, f) = Cut(p, f)
  BY <1>3 DEF Cut
<1>6. n \in 0..Len(t.buffer) /\ Ordered(t) /\ Bounded(t, f)
  BY <1>1, <1>2, <1>3 DEF ParserInv
<1>7. Ordered(Show(t, n)) /\ Bounded(Show(t, n), f)
  BY <1>3, <1>6, ShowOrdered, BoundedMoves
<1>8. ASSUME Plain
      PROVE  Contiguous(t, f) /\ CallsInv(t, f) /\ Contiguous(Show(t, n), f) /\ CallsInv(Show(t, n), f)
  <2>1. Contiguous(t, f) /\ CallsInv(t, f)
    BY <1>1, <1>2, <1>8 DEF ParserInv
  <2>2. \A d \in Begun : Cut(t, f) < d /\ d <= Cut(t, f) + n => d + 2 <= Cut(t, f) + n /\ Beyond(d)
    BY <1>5, <1>8
  <2> QED
    BY <1>1, <1>3, <1>6, <2>1, <2>2, ShowCalls
<1>9. ASSUME Neat
      PROVE  TextInv(Show(t, n), f)
  <2>1. Plain
    BY <1>1, <1>9, NeatIsPlain
  <2>2. TextInv(t, f)
    BY <1>1, <1>2, <1>9 DEF ParserInv
  <2>3. /\ t.mode # "matching"
        /\ t.mode = "params" /\ Cut(t, f) + n < Len(text) => text[Cut(t, f) + n + 1] \notin {"func", "/par"}
    BY <1>3, <1>5, <1>9
  <2> QED
    BY <1>3, <1>6, <1>8, <2>1, <2>2, <2>3, ShowText
<1> QED
  BY <1>4, <1>7, <1>8, <1>9 DEF Kept, ParserInv

(* and so do taking a parameter,                                             *)
LEMMA KeptTake ==
  ASSUME Ground, NEW f \in Nat, NEW p, Kept(p, f), p.mode = "params", NEW n \in 0..Len(p.buffer),
         Plain => \A d \in Begun : Cut(p, f) < d /\ d <= Cut(p, f) + n => d + 2 <= Cut(p, f) + n /\ Within(d),
         Neat => (Cut(p, f) + n < Len(text) => text[Cut(p, f) + n + 1] \notin {"func", "/par"})
  PROVE  Kept(Take(p, n), f)
<1>1. p \in Parsers /\ shown \in Seq(Nat) /\ tools \in Seq(SUBSET Nat) /\ text \in Seq(Tokens) /\ ParserInv(Told(p), f)
  BY DEF Kept, Ground
<1>2. PICK t : t = Told(p)
  OBVIOUS
<1>3. t \in Parsers /\ t.buffer = p.buffer /\ t.mode = "params"
  BY <1>1, <1>2, ToldParts
<1>4. Take(p, n) \in Parsers /\ Told(Take(p, n)) = Take(t, n)
  BY <1>1, <1>2, ToldTake, TakeParts
<1>5. Cut(t, f) = Cut(p, f)
  BY <1>3 DEF Cut
<1>6. n \in 0..Len(t.buffer) /\ Ordered(t) /\ Bounded(t, f)
  BY <1>1, <1>2, <1>3 DEF ParserInv
<1>7. Ordered(Take(t, n)) /\ Bounded(Take(t, n), f)
  BY <1>3, <1>6, TakeOrdered, BoundedMoves
<1>8. ASSUME Plain
      PROVE  Contiguous(t, f) /\ CallsInv(t, f) /\ Contiguous(Take(t, n), f) /\ CallsInv(Take(t, n), f)
  <2>1. Contiguous(t, f) /\ CallsInv(t, f)
    BY <1>1, <1>2, <1>8 DEF ParserInv
  <2>2. \A d \in Begun : Cut(t, f) < d /\ d <= Cut(t, f) + n => d + 2 <= Cut(t, f) + n /\ Within(d)
    BY <1>5, <1>8
  <2> QED
    BY <1>1, <1>3, <1>6, <2>1, <2>2, TakeCalls
<1>9. ASSUME Neat
      PROVE  TextInv(Take(t, n), f)
  <2>1. Plain
    BY <1>1, <1>9, NeatIsPlain
  <2>2. TextInv(t, f)
    BY <1>1, <1>2, <1>9 DEF ParserInv
  <2>3. Cut(t, f) + n < Len(text) => text[Cut(t, f) + n + 1] \notin {"func", "/par"}
    BY <1>5, <1>9
  <2> QED
    BY <1>3, <1>6, <1>8, <2>1, <2>2, <2>3, TakeText
<1> QED
  BY <1>4, <1>7, <1>8, <1>9 DEF Kept, ParserInv

(* the beginning of a call,                                                  *)
LEMMA KeptBegin ==
  ASSUME Ground, NEW f \in Nat, NEW p, Kept(p, f), p.mode = "matching", NEW n \in 0..Len(p.buffer),
         Plain => \E e \in Begun : /\ Cut(p, f) < e /\ Cut(p, f) + n = e + 2
                                   /\ \A d \in Begun : Cut(p, f) < d /\ d <= Cut(p, f) + n => d = e,
         Neat => /\ \A k \in 1..n : text[Cut(p, f) + k] # "x"
                 /\ Cut(p, f) + n < Len(text) => text[Cut(p, f) + n + 1] \notin {"func", "/par"}
  PROVE  Kept(BeginCall(p, n), f)
<1>1. p \in Parsers /\ shown \in Seq(Nat) /\ tools \in Seq(SUBSET Nat) /\ text \in Seq(Tokens) /\ ParserInv(Told(p), f)
  BY DEF Kept, Ground
<1>2. PICK t : t = Told(p)
  OBVIOUS
<1>3. t \in Parsers /\ t.buffer = p.buffer /\ t.mode = "matching"
  BY <1>1, <1>2, ToldParts
<1>4. BeginCall(p, n) \in Parsers /\ Told(BeginCall(p, n)) = BeginCall(t, n)
  BY <1>1, <1>2, ToldTake, BeginParts
<1>5. Cut(t, f) = Cut(p, f)
  BY <1>3 DEF Cut
<1>6. n \in 0..Len(t.buffer) /\ Ordered(t) /\ Bounded(t, f)
  BY <1>1, <1>2, <1>3 DEF ParserInv
<1>7. Ordered(BeginCall(t, n)) /\ Bounded(BeginCall(t, n), f)
  BY <1>3, <1>6, BeginOrdered, BoundedMoves
<1>8. ASSUME Plain
      PROVE  Contiguous(t, f) /\ CallsInv(t, f) /\ Contiguous(BeginCall(t, n), f) /\ CallsInv(BeginCall(t, n), f)
  <2>1. Contiguous(t, f) /\ CallsInv(t, f)
    BY <1>1, <1>2, <1>8 DEF ParserInv
  <2>2. PICK e \in Begun : /\ Cut(t, f) < e /\ Cut(t, f) + n = e + 2
                           /\ \A d \in Begun : Cut(t, f) < d /\ d <= Cut(t, f) + n => d = e
    BY <1>5, <1>8
  <2> QED
    BY <1>1, <1>3, <1>6, <2>1, <2>2, BeginCalls
<1>9. ASSUME Neat
      PROVE  TextInv(BeginCall(t, n), f)
  <2>1. Plain
    BY <1>1, <1>9, NeatIsPlain
  <2>2. TextInv(t, f)
    BY <1>1, <1>2, <1>9 DEF ParserInv
  <2>3. /\ \A k \in 1..n : text[Cut(t, f) + k] # "x"
        /\ Cut(t, f) + n < Len(text) => text[Cut(t, f) + n + 1] \notin {"func", "/par"}
    BY <1>5, <1>9
  <2> QED
    BY <1>3, <1>6, <1>8, <2>1, <2>2, <2>3, BeginText
<1> QED
  BY <1>4, <1>7, <1>8, <1>9 DEF Kept, ParserInv

(* its end,                                                                  *)
LEMMA KeptComplete ==
  ASSUME Ground, NEW f \in Nat, NEW p, Kept(p, f), p.mode = "params"
  PROVE  Kept(CompleteCall(p), f)
<1>1. p \in Parsers /\ shown \in Seq(Nat) /\ tools \in Seq(SUBSET Nat) /\ text \in Seq(Tokens) /\ ParserInv(Told(p), f)
  BY DEF Kept, Ground
<1>2. PICK t : t = Told(p)
  OBVIOUS
<1>3. t \in Parsers /\ t.mode = "params" /\ Ordered(t) /\ Bounded(t, f)
  BY <1>1, <1>2, ToldParts DEF ParserInv
<1>4. Told(CompleteCall(p)) = CompleteCall(t)
  BY <1>1, <1>2, ToldComplete
<1>5. CompleteCall(p) \in Parsers
  <2>1. p.calls \in Seq(SUBSET Nat) /\ p.args \in SUBSET Nat
    BY <1>1 DEF Parsers
  <2>2. Append(p.calls, p.args) \in Seq(SUBSET Nat)
    BY <2>1, AppendProperties
  <2> QED
    BY <1>1, <2>2 DEF CompleteCall, Parsers
<1>6. Ordered(CompleteCall(t)) /\ Bounded(CompleteCall(t), f)
  BY <1>3, CompleteOrdered, BoundedAnyway
<1>7. ASSUME Plain
      PROVE  Contiguous(CompleteCall(t), f) /\ CallsInv(CompleteCall(t), f)
  <2>1. Contiguous(t, f) /\ CallsInv(t, f)
    BY <1>1, <1>2, <1>7 DEF ParserInv
  <2> QED
    BY <1>1, <1>3, <2>1, CompleteCalls
<1>8. ASSUME Neat
      PROVE  TextInv(CompleteCall(t), f)
  <2>1. TextInv(t, f)
    BY <1>1, <1>2, <1>8 DEF ParserInv
  <2> QED
    BY <1>3, <2>1, CompleteText
<1> QED
  BY <1>4, <1>5, <1>6, <1>7, <1>8 DEF Kept, ParserInv

(* a wait for more,                                                          *)
LEMMA KeptWait ==
  ASSUME Ground, NEW f \in Nat, NEW p, Kept(p, f)
  PROVE  Kept(Wait(p), f)
<1>1. p \in Parsers /\ shown \in Seq(Nat) /\ tools \in Seq(SUBSET Nat) /\ text \in Seq(Tokens) /\ ParserInv(Told(p), f)
  BY DEF Kept, Ground
<1>2. PICK t : t = Told(p)
  OBVIOUS
<1>3. t \in Parsers /\ Ordered(t) /\ Bounded(t, f)
  BY <1>1, <1>2, ToldParts DEF ParserInv
<1>4. PICK q : q = [t EXCEPT !.going = FALSE]
  OBVIOUS
<1>5. Told(Wait(p)) = q /\ Wait(p) \in Parsers
  BY <1>1, <1>2, <1>4, ToldAnyway DEF Wait, Parsers
<1>6. q \in Parsers /\ Ordered(q) /\ Bounded(q, f)
  BY <1>3, <1>4, OrderedAnyway, BoundedAnyway
<1>7. q.buffer = t.buffer /\ q.out = t.out /\ q.args = t.args /\ q.calls = t.calls /\ q.mode = t.mode
  BY <1>3, <1>4 DEF Parsers
<1>8. ASSUME Plain
      PROVE  Contiguous(q, f) /\ CallsInv(q, f)
  <2>1. Contiguous(t, f) /\ CallsInv(t, f)
    BY <1>1, <1>2, <1>8 DEF ParserInv
  <2> QED
    BY <1>3, <1>6, <1>7, <2>1, CallsAnyway
<1>9. ASSUME Neat
      PROVE  TextInv(q, f)
  <2>1. TextInv(t, f)
    BY <1>1, <1>2, <1>9 DEF ParserInv
  <2> QED
    BY <1>3, <1>6, <1>7, <2>1, TextAnyway
<1> QED
  BY <1>5, <1>6, <1>8, <1>9 DEF Kept, ParserInv

(* and the change between text and a bullet that may begin a call.           *)
LEMMA KeptMode ==
  ASSUME Ground, NEW f \in Nat, NEW p, Kept(p, f), p.mode # "params", NEW m \in {"text", "matching"},
         m = "matching" => p.buffer # <<>> /\ text[p.buffer[1]] = "dot"
  PROVE  Kept([p EXCEPT !.mode = m], f)
<1>1. p \in Parsers /\ shown \in Seq(Nat) /\ tools \in Seq(SUBSET Nat) /\ text \in Seq(Tokens) /\ ParserInv(Told(p), f)
  BY DEF Kept, Ground
<1>2. PICK t : t = Told(p)
  OBVIOUS
<1>3. t \in Parsers /\ Ordered(t) /\ Bounded(t, f) /\ t.mode = p.mode /\ t.buffer = p.buffer
  BY <1>1, <1>2, ToldParts DEF ParserInv
<1>4. PICK q : q = [t EXCEPT !.mode = m]
  OBVIOUS
<1>5. Told([p EXCEPT !.mode = m]) = q /\ [p EXCEPT !.mode = m] \in Parsers
  BY <1>1, <1>2, <1>4, ToldAnyway DEF Parsers
<1>6. q \in Parsers /\ Ordered(q) /\ Bounded(q, f)
  BY <1>3, <1>4, OrderedAnyway, BoundedAnyway
<1>7. q.buffer = t.buffer /\ q.out = t.out /\ q.args = t.args /\ q.calls = t.calls /\ q.mode = m
  BY <1>3, <1>4 DEF Parsers
<1>8. ASSUME Plain
      PROVE  Contiguous(q, f) /\ CallsInv(q, f)
  <2>1. Contiguous(t, f) /\ CallsInv(t, f)
    BY <1>1, <1>2, <1>8 DEF ParserInv
  <2> QED
    BY <1>3, <1>6, <1>7, <2>1, CallsAnyway
<1>9. ASSUME Neat
      PROVE  TextInv(q, f)
  <2>1. TextInv(t, f)
    BY <1>1, <1>2, <1>9 DEF ParserInv
  <2> QED
    BY <1>3, <1>6, <1>7, <2>1, TextAnyway
<1> QED
  BY <1>5, <1>6, <1>8, <1>9 DEF Kept, ParserInv

-----------------------------------------------------------------------------

(* Where the tokens of the buffer are, in a plain text.                      *)
LEMMA Positions ==
  ASSUME Ground, NEW f \in 0..Len(text), NEW p, Kept(p, f), Plain
  PROVE  /\ Cut(p, f) \in Nat /\ Len(p.buffer) \in Nat /\ Cut(p, f) + Len(p.buffer) = f
         /\ \A i \in 1..Len(p.buffer) : p.buffer[i] = Cut(p, f) + i /\ Cut(p, f) + i \in 1..Len(text)
         /\ \A k \in Int : Cut(p, f) < k /\ k <= f => /\ k - Cut(p, f) \in 1..Len(p.buffer) /\ k \in 1..Len(text)
                                                       /\ p.buffer[k - Cut(p, f)] = k
<1>1. p \in Parsers /\ ParserInv(Told(p), f) /\ shown \in Seq(Nat) /\ tools \in Seq(SUBSET Nat) /\ Len(text) \in Nat /\ f \in Nat
  BY DEF Kept, Ground
<1>2. Contiguous(Told(p), f) /\ Told(p).buffer = p.buffer
  BY <1>1, ToldParts DEF ParserInv
<1>3. Len(p.buffer) \in Nat /\ Len(p.buffer) <= f
  BY <1>1, <1>2 DEF Contiguous, Parsers
<1> DEFINE c == f - Len(p.buffer)
<1>4. Cut(p, f) = c /\ Cut(Told(p), f) = c
  BY <1>2 DEF Cut
<1>5. \A i \in 1..Len(p.buffer) : p.buffer[i] = c + i
  BY <1>2, <1>4 DEF Contiguous
<1>6. c \in Nat /\ c + Len(p.buffer) = f
  BY <1>1, <1>3
<1> HIDE DEF c
<1>7. \A i \in 1..Len(p.buffer) : c + i \in 1..Len(text)
  BY <1>1, <1>3, <1>6
<1>8. ASSUME NEW k \in Int, c < k, k <= f
      PROVE  k - c \in 1..Len(p.buffer) /\ k \in 1..Len(text) /\ p.buffer[k - c] = k
  <2>1. k - c \in 1..Len(p.buffer) /\ k \in 1..Len(text) /\ c + (k - c) = k
    BY <1>1, <1>3, <1>6, <1>8
  <2> QED
    BY <1>5, <2>1
<1> QED
  BY <1>3, <1>4, <1>5, <1>6, <1>7, <1>8

(* Without a bullet there is no function.                                    *)
LEMMA NoFunctions ==
  ASSUME Ground, NEW f \in 0..Len(text), NEW p, Kept(p, f), Plain, NEW n \in 0..Len(p.buffer),
         \A i \in 1..n : text[p.buffer[i]] # "dot"
  PROVE  \A d \in Begun : ~(Cut(p, f) < d /\ d <= Cut(p, f) + n)
<1>1. SUFFICES ASSUME NEW d \in Begun, Cut(p, f) < d, d <= Cut(p, f) + n PROVE FALSE
  OBVIOUS
<1>2. /\ Cut(p, f) \in Nat /\ Len(p.buffer) \in Nat /\ Cut(p, f) + Len(p.buffer) = f
      /\ \A i \in 1..Len(p.buffer) : p.buffer[i] = Cut(p, f) + i
  BY Positions
<1>3. d \in Int /\ text[d] = "dot"
  BY DEF Begun
<1>4. PICK c \in Nat, m \in Nat : c = Cut(p, f) /\ m = Len(p.buffer)
  BY <1>2
<1>5. n \in 0..m /\ c < d /\ d <= c + n
  BY <1>1, <1>4
<1>6. d - c \in 1..n /\ d - c \in 1..m /\ c + (d - c) = d
  BY <1>3, <1>4, <1>5
<1>7. p.buffer[d - c] = d
  BY <1>2, <1>4, <1>6
<1> QED
  BY <1>3, <1>6, <1>7

(* The types of the fields.                                                  *)
LEMMA Buffers ==
  ASSUME NEW f, NEW p, Kept(p, f)
  PROVE  p \in Parsers /\ p.buffer \in Seq(Nat) /\ Len(p.buffer) \in Nat /\ p.mode \in {"text", "matching", "params"} /\ p.going \in BOOLEAN
BY DEF Kept, Parsers

(* What is left when a first part was handed out.                            *)
LEMMA ShowLeaves ==
  ASSUME NEW f, NEW p, Kept(p, f), NEW n \in 0..Len(p.buffer)
  PROVE  /\ Show(p, n).buffer = AfterN(p.buffer, n) /\ Len(Show(p, n).buffer) = Len(p.buffer) - n
         /\ \A i \in 1..Len(p.buffer) - n : Show(p, n).buffer[i] = p.buffer[n + i]
         /\ Show(p, n).mode = p.mode /\ Show(p, n).going = p.going
<1>1. p \in Parsers /\ p.buffer \in Seq(Nat)
  BY Buffers
<1>2. Show(p, n).buffer = AfterN(p.buffer, n) /\ Show(p, n).mode = p.mode /\ Show(p, n).going = p.going
  BY <1>1, ShowParts
<1>3. Len(AfterN(p.buffer, n)) = Len(p.buffer) - n /\ \A i \in 1..Len(p.buffer) - n : AfterN(p.buffer, n)[i] = p.buffer[n + i]
  <2>1. PICK b \in Seq(Nat) : b = p.buffer /\ n \in 0..Len(b)
    BY <1>1
  <2>2. Len(AfterN(b, n)) = Len(b) - n
    BY <2>1, AfterFirst
  <2>3. \A i \in 1..Len(b) - n : AfterN(b, n)[i] = b[n + i]
    BY <2>1, AfterFirst
  <2> QED
    BY <2>1, <2>2, <2>3
<1> QED
  BY <1>2, <1>3

(* TEXT: it goes on with a bullet, or nothing is left in a plain text.       *)
LEMMA InTextKeeps ==
  ASSUME Ground, NEW f \in 0..Len(text), NEW p, Kept(p, f), p.mode = "text"
  PROVE  /\ Kept(InText(p), f)
         /\ \/ InText(p).mode = "matching" /\ InText(p).going = p.going /\ Len(InText(p).buffer) <= Len(p.buffer)
            \/ InText(p).mode = "text" /\ InText(p).going = FALSE /\ (Plain => InText(p).buffer = <<>>)
<1>1. /\ p \in Parsers /\ p.buffer \in Seq(Nat) /\ Len(p.buffer) \in Nat /\ f \in Nat
  BY Buffers DEF Ground
<1> DEFINE dot == NextOf(p.buffer, 0, {"dot"})
           ctl == LastOf(p.buffer, "<|")
           tail == ctl > 1 /\ NextOf(p.buffer, ctl, {"|>"}) = 0
<1>2. /\ dot \in Nat /\ (dot = 0 => \A i \in 1..Len(p.buffer) : 0 < i => text[p.buffer[i]] # "dot")
      /\ dot # 0 => /\ 0 < dot /\ dot <= Len(p.buffer) /\ text[p.buffer[dot]] = "dot"
                    /\ \A i \in 1..Len(p.buffer) : 0 < i /\ i < dot => text[p.buffer[i]] # "dot"
  BY <1>1, NextOfFinds
<1>3. ctl \in 0..Len(p.buffer) /\ (ctl # 0 => text[p.buffer[ctl]] = "<|")
  BY <1>1, LastOfFinds
<1>4. InText(p) = IF dot > 0 THEN [Show(p, dot - 1) EXCEPT !.mode = "matching"]
                  ELSE Wait(Show(p, IF tail THEN ctl - 1 ELSE Len(p.buffer)))
  BY DEF InText
<1>5. CASE dot > 0
  <2> HIDE DEF dot
  <2>1. PICK n \in 0..Len(p.buffer) : n = dot - 1
    BY <1>1, <1>2, <1>5
  <2>2. n < Len(p.buffer) /\ n \in Nat /\ \A i \in 1..n : text[p.buffer[i]] # "dot"
    BY <1>1, <1>2, <1>5, <2>1
  <2>3. Plain => \A d \in Begun : Cut(p, f) < d /\ d <= Cut(p, f) + n => d + 2 <= Cut(p, f) + n /\ Beyond(d)
    BY <2>2, NoFunctions
  <2>4. PICK q : q = Show(p, n)
    OBVIOUS
  <2>5. Kept(q, f)
    BY <1>1, <2>3, <2>4, KeptShow
  <2>6. q.mode = "text" /\ q.going = p.going /\ Len(q.buffer) = Len(p.buffer) - n /\ q.buffer[1] = p.buffer[n + 1]
    <3>1. q.mode = "text" /\ q.going = p.going /\ Len(q.buffer) = Len(p.buffer) - n
      BY <2>4, ShowLeaves
    <3>2. \A i \in 1..Len(p.buffer) - n : q.buffer[i] = p.buffer[n + i]
      BY <2>4, ShowLeaves
    <3>3. 1 \in 1..Len(p.buffer) - n
      BY <1>1, <2>2
    <3> QED
      BY <3>1, <3>2, <3>3
  <2>7. q.buffer # <<>> /\ text[q.buffer[1]] = "dot" /\ Len(q.buffer) <= Len(p.buffer)
    <3>1. Len(q.buffer) # 0 /\ n + 1 = dot /\ Len(q.buffer) <= Len(p.buffer)
      BY <1>1, <1>2, <2>1, <2>2, <2>6
    <3> QED
      BY <1>2, <1>5, <2>6, <3>1
  <2>8. Kept([q EXCEPT !.mode = "matching"], f)
    BY <1>1, <2>5, <2>6, <2>7, KeptMode
  <2>9. InText(p) = [q EXCEPT !.mode = "matching"]
    BY <1>4, <1>5, <2>1, <2>4
  <2>10. /\ [q EXCEPT !.mode = "matching"].mode = "matching" /\ [q EXCEPT !.mode = "matching"].going = q.going
         /\ [q EXCEPT !.mode = "matching"].buffer = q.buffer
    BY <2>5, Buffers DEF Parsers
  <2> QED
    BY <2>6, <2>7, <2>8, <2>9, <2>10
<1>6. CASE dot = 0
  <2>1. PICK n \in 0..Len(p.buffer) : n = IF tail THEN ctl - 1 ELSE Len(p.buffer)
    BY <1>1, <1>3
  <2>2. \A i \in 1..n : text[p.buffer[i]] # "dot"
    BY <1>1, <1>2, <1>6
  <2>3. Plain => \A d \in Begun : Cut(p, f) < d /\ d <= Cut(p, f) + n => d + 2 <= Cut(p, f) + n /\ Beyond(d)
    BY <2>2, NoFunctions
  <2>4. PICK q : q = Show(p, n)
    OBVIOUS
  <2>5. Kept(q, f) /\ q.mode = "text" /\ Len(q.buffer) = Len(p.buffer) - n
    BY <1>1, <2>3, <2>4, KeptShow, ShowLeaves
  <2>6. InText(p) = Wait(q) /\ Kept(Wait(q), f)
    BY <1>1, <1>4, <1>6, <2>1, <2>4, <2>5, KeptWait
  <2>7. Wait(q).mode = "text" /\ Wait(q).going = FALSE /\ Wait(q).buffer = q.buffer
    BY <2>5, Buffers DEF Wait, Parsers
  <2>8. ASSUME Plain
        PROVE  q.buffer = <<>>
    <3>1. ctl = 0
      <4>1. SUFFICES ASSUME ctl # 0 PROVE FALSE
        OBVIOUS
      <4>2. ctl \in 1..Len(p.buffer) /\ text[p.buffer[ctl]] = "<|"
        BY <1>1, <1>3, <4>1
      <4>3. PICK k \in 1..Len(text) : k = p.buffer[ctl]
        BY <2>8, <4>2, Positions
      <4> QED
        BY <2>8, <4>2, <4>3 DEF Plain
    <3>2. n = Len(p.buffer)
      BY <2>1, <3>1
    <3>3. q.buffer \in Seq(Nat) /\ Len(q.buffer) = 0
      BY <1>1, <2>5, <3>2, Buffers
    <3> QED
      BY <3>3, EmptySeq
  <2> QED
    BY <2>6, <2>7, <2>8
<1> QED
  BY <1>2, <1>5, <1>6

-----------------------------------------------------------------------------

(* A function that the buffer holds as a whole.                              *)
LEMMA WholeFunctionHeads ==
  ASSUME Ground, NEW f \in 0..Len(text), NEW p, Kept(p, f), Plain, NEW d \in Begun, Cut(p, f) < d, d + 2 <= f
  PROVE  d - Cut(p, f) \in 1..Len(p.buffer) - 1 /\ Heads(p.buffer, d - Cut(p, f))
<1>1. /\ Cut(p, f) \in Nat /\ Len(p.buffer) \in Nat /\ Cut(p, f) + Len(p.buffer) = f
      /\ \A i \in 1..Len(p.buffer) : p.buffer[i] = Cut(p, f) + i
  BY Positions
<1>2. d \in Int /\ f \in Nat /\ text[d] = "dot" /\ text[d + 1] = "func" /\ text[d + 2] = "name"
  BY DEF Begun, Ground
<1>3. PICK c \in Nat, m \in Nat : c = Cut(p, f) /\ m = Len(p.buffer) /\ c + m = f /\ c < d /\ d + 2 <= f
  BY <1>1
<1>4. PICK i \in Int : i = d - c
  BY <1>2, <1>3
<1>5. /\ i \in 1..m - 1 /\ i \in 1..m /\ i + 1 \in 1..m /\ i + 2 \in 1..m
      /\ c + i = d /\ c + (i + 1) = d + 1 /\ c + (i + 2) = d + 2
  <2>1. c + i = d
    BY <1>2, <1>3, <1>4
  <2>2. 1 <= i
    BY <1>2, <1>3, <1>4
  <2>3. i + 2 <= m
    BY <1>2, <1>3, <1>4
  <2>4. c + (i + 1) = d + 1 /\ c + (i + 2) = d + 2
    BY <1>2, <1>3, <2>1
  <2> QED
    BY <1>3, <2>1, <2>2, <2>3, <2>4
<1>5a. p.buffer[i] = d /\ p.buffer[i + 1] = d + 1 /\ p.buffer[i + 2] = d + 2
  BY <1>1, <1>3, <1>5
<1>6. p.buffer \in Seq(Nat) /\ i + 1 \in Nat
  BY <1>5, Buffers
<1>7. "name" \in EndsTag
  BY DEF EndsTag
<1>8. NextOf(p.buffer, i + 1, EndsTag) \in Nat /\ NextOf(p.buffer, i + 1, EndsTag) # 0
  <2>1. NextOf(p.buffer, i + 1, EndsTag) \in Nat
    BY <1>6, NextOfFinds
  <2>2. SUFFICES ASSUME NextOf(p.buffer, i + 1, EndsTag) = 0 PROVE FALSE
    BY <2>1
  <2>3. \A j \in 1..Len(p.buffer) : i + 1 < j => text[p.buffer[j]] \notin EndsTag
    BY <1>6, <2>2, NextOfFinds
  <2>4. i + 2 \in 1..Len(p.buffer) /\ i + 1 < i + 2
    BY <1>3, <1>5
  <2> QED
    BY <1>2, <1>5a, <1>7, <2>3, <2>4
<1>9. NextOf(p.buffer, i + 1, EndsTag) > 0
  BY <1>8
<1>10. Heads(p.buffer, i)
  BY <1>2, <1>5a, <1>9 DEF Heads
<1> QED
  BY <1>3, <1>4, <1>5, <1>10

(* The first function of a buffer, in a plain text.                          *)
LEMMA FirstFunction ==
  ASSUME Ground, NEW f \in 0..Len(text), NEW p, Kept(p, f), Plain, FunctionEnd(p.buffer) # 0
  PROVE  \E e \in Begun : /\ Cut(p, f) < e /\ Cut(p, f) + FunctionEnd(p.buffer) = e + 2
                          /\ \A d \in Begun : Cut(p, f) < d /\ d <= Cut(p, f) + FunctionEnd(p.buffer) => d = e
<1>1. PICK c \in Nat : c = Cut(p, f) /\ Len(p.buffer) \in Nat /\ c + Len(p.buffer) = f
  BY Positions
<1>2. f \in Nat /\ p.buffer \in Seq(Nat) /\ text \in Seq(Tokens)
  BY Buffers DEF Ground
<1> DEFINE end == FunctionEnd(p.buffer)
<1>3. PICK i \in 1..Len(p.buffer) - 1 : /\ Heads(p.buffer, i) /\ end = NextOf(p.buffer, i + 1, EndsTag)
                                        /\ \A a \in 1..Len(p.buffer) - 1 : a < i => ~Heads(p.buffer, a)
  BY <1>2, FunctionEndFinds
<1>4. i \in 1..Len(p.buffer) /\ i + 1 \in 1..Len(p.buffer) /\ i + 1 \in Nat
  BY <1>1, <1>3
<1>5. text[p.buffer[i + 1]] = "func"
  BY <1>3 DEF Heads
<1>6. p.buffer[i + 1] = c + (i + 1) /\ c + (i + 1) \in 1..Len(text)
  BY <1>1, <1>4, Positions
<1>7. c + (i + 1) - 1 \in Begun /\ c + (i + 1) - 1 = c + i
  <2>1. PICK k \in 1..Len(text) : k = c + (i + 1)
    BY <1>6
  <2>2. text[k] = "func"
    BY <1>5, <1>6, <2>1
  <2>3. k - 1 \in Begun
    BY <2>2 DEF Plain
  <2> QED
    BY <1>1, <1>3, <2>1, <2>3
<1>8. PICK e \in Begun : e = c + i
  BY <1>7
<1>9. text[e] = "dot" /\ text[e + 1] = "func" /\ text[e + 2] = "name"
  BY DEF Begun
<1>10. /\ end \in Nat /\ i + 1 < end /\ end <= Len(p.buffer)
       /\ \A j \in 1..Len(p.buffer) : i + 1 < j /\ j < end => text[p.buffer[j]] \notin EndsTag
  <2>1. PICK r : r = NextOf(p.buffer, i + 1, EndsTag) /\ r = end
    BY <1>3
  <2>2. r # 0
    BY <2>1
  <2>3. /\ r \in Nat /\ i + 1 < r /\ r <= Len(p.buffer)
        /\ \A j \in 1..Len(p.buffer) : i + 1 < j /\ j < r => text[p.buffer[j]] \notin EndsTag
    BY <1>2, <1>4, <2>1, <2>2, NextOfFinds
  <2> QED
    BY <2>1, <2>3
<1> HIDE DEF end
<1>11. end = i + 2
  <2>1. i + 2 \in 1..Len(p.buffer) /\ i + 2 <= end /\ c + (i + 2) = e + 2
    BY <1>1, <1>3, <1>8, <1>10
  <2>2. p.buffer[i + 2] = e + 2
    BY <1>1, <2>1, Positions
  <2>3. "name" \in EndsTag
    BY DEF EndsTag
  <2>4. SUFFICES ASSUME i + 2 < end PROVE FALSE
    BY <1>10, <2>1
  <2>5. text[p.buffer[i + 2]] \notin EndsTag
    BY <1>3, <1>10, <2>1, <2>4
  <2> QED
    BY <1>9, <2>2, <2>3, <2>5
<1>12. c < e /\ c + end = e + 2 /\ e + 2 <= f
  <2>1. i \in Nat /\ i >= 1 /\ i + 2 <= Len(p.buffer)
    BY <1>1, <1>3, <1>10, <1>11
  <2>2. PICK m \in Nat : m = Len(p.buffer) /\ c + m = f /\ i + 2 <= m
    BY <1>1, <2>1
  <2> QED
    BY <1>2, <1>8, <1>11, <2>1, <2>2
<1>13. ASSUME NEW d \in Begun, c < d, d <= c + end
       PROVE  d = e
  <2>1. d \in Int /\ text[d] = "dot" /\ e \in Int
    BY DEF Begun
  <2>2. CASE d < e
    <3>1. d + 2 <= f
      BY <1>2, <1>12, <2>1, <2>2
    <3>2. d - c \in 1..Len(p.buffer) - 1 /\ Heads(p.buffer, d - c)
      BY <1>1, <1>13, <3>1, WholeFunctionHeads
    <3>3. d - c < i
      BY <1>1, <1>3, <1>8, <2>1, <2>2
    <3> QED
      BY <1>3, <3>2, <3>3
  <2>3. CASE d > e
    <3>1. d = e + 1 \/ d = e + 2
      BY <1>12, <1>13, <2>1, <2>3
    <3> QED
      BY <1>9, <2>1, <3>1
  <2> QED
    BY <2>1, <2>2, <2>3
<1> QED
  BY <1>1, <1>12, <1>13 DEF end

-----------------------------------------------------------------------------

(* The mode and the text that is handed out change independently.            *)
LEMMA ChangesCommute ==
  ASSUME NEW p \in Parsers, NEW x, NEW y, NEW m
  PROVE  [[p EXCEPT !.out = x, !.buffer = y] EXCEPT !.mode = m] = [[p EXCEPT !.mode = m] EXCEPT !.out = x, !.buffer = y]
BY DEF Parsers

(* A function ends within the buffer.                                        *)
LEMMA FunctionEndWithin ==
  ASSUME NEW b \in Seq(Nat)
  PROVE  FunctionEnd(b) \in 0..Len(b)
<1>1. FunctionEnd(b) \in Nat /\ Len(b) \in Nat
  BY FunctionEndFinds
<1>2. CASE FunctionEnd(b) = 0
  BY <1>1, <1>2
<1>3. CASE FunctionEnd(b) # 0
  <2>1. PICK i \in 1..Len(b) - 1 : FunctionEnd(b) = NextOf(b, i + 1, EndsTag)
    BY <1>3, FunctionEndFinds
  <2>2. PICK r : r = NextOf(b, i + 1, EndsTag)
    OBVIOUS
  <2>3. i + 1 \in Nat
    BY <1>1, <2>1
  <2>4. r # 0 => r <= Len(b)
    BY <2>2, <2>3, NextOfFinds
  <2> QED
    BY <1>1, <1>3, <2>1, <2>2, <2>4
<1> QED
  BY <1>2, <1>3

(* In a neat text the parser waits for a function only when one begins.      *)
LEMMA WaitsForFunction ==
  ASSUME Ground, NEW f \in 0..Len(text), NEW p, Kept(p, f), Neat, p.mode = "matching"
  PROVE  /\ 1 \in 1..Len(p.buffer) /\ p.buffer[1] = Cut(p, f) + 1 /\ Cut(p, f) + 1 \in 1..Len(text)
         /\ Cut(p, f) + 1 \in Begun
<1>1. p \in Parsers /\ ParserInv(Told(p), f) /\ shown \in Seq(Nat) /\ tools \in Seq(SUBSET Nat) /\ text \in Seq(Tokens)
      /\ p.buffer \in Seq(Nat)
  BY Buffers DEF Kept, Ground
<1>2. Told(p).buffer = p.buffer /\ Told(p).mode = "matching"
  BY <1>1, ToldParts
<1>3. p.buffer # <<>> /\ text[p.buffer[1]] = "dot"
  BY <1>1, <1>2 DEF ParserInv, TextInv
<1>4. 1 \in 1..Len(p.buffer)
  BY <1>1, <1>3, EmptySeq
<1>5. Plain
  BY <1>1, NeatIsPlain
<1>6. p.buffer[1] = Cut(p, f) + 1 /\ Cut(p, f) + 1 \in 1..Len(text)
  BY <1>4, <1>5, Positions
<1>7. PICK k \in 1..Len(text) : k = Cut(p, f) + 1 /\ text[k] = "dot"
  BY <1>3, <1>6
<1>8. k \in Begun
  BY <1>1, <1>7, NeatMeans
<1> QED
  BY <1>4, <1>6, <1>7, <1>8

(* After a function comes neither another one nor the end of a parameter.    *)
LEMMA AfterFunction ==
  ASSUME Ground, Neat, NEW d \in Begun, d + 2 < Len(text)
  PROVE  text[d + 3] \notin {"func", "/par"}
<1>1. Len(text) \in Nat /\ text \in Seq(Tokens)
  BY DEF Ground
<1>2. d \in Int /\ d >= 1 /\ text[d] = "dot" /\ text[d + 1] = "func" /\ text[d + 2] = "name"
  BY <1>1 DEF Begun
<1>3. PICK k \in 1..Len(text) : k = d + 3 /\ k - 1 = d + 2 /\ k - 3 = d
  BY <1>1, <1>2
<1>4. text[k] = "func" => k - 1 \in Begun
  BY <1>1, NeatMeans
<1>5. text[k] = "/par" => IsParameter(k - 3)
  BY <1>1, NeatMeans
<1>6. text[k] # "func"
  BY <1>2, <1>3, <1>4 DEF Begun
<1>7. text[k] # "/par"
  BY <1>2, <1>3, <1>5 DEF IsParameter
<1> QED
  BY <1>3, <1>6, <1>7

(* Nor does one come after a parameter.                                      *)
LEMMA AfterParameter ==
  ASSUME Ground, Neat, NEW k \in 1..Len(text), text[k] = "/par", k < Len(text)
  PROVE  text[k + 1] \notin {"func", "/par"}
<1>1. Len(text) \in Nat /\ text \in Seq(Tokens)
  BY DEF Ground
<1>2. PICK j \in 1..Len(text) : j = k + 1 /\ j - 1 = k /\ j - 3 + 2 = k
  BY <1>1
<1>3. text[j] = "func" => j - 1 \in Begun
  BY <1>1, NeatMeans
<1>4. text[j] = "/par" => IsParameter(j - 3)
  BY <1>1, NeatMeans
<1>5. text[j] # "func"
  BY <1>2, <1>3 DEF Begun
<1>6. text[j] # "/par"
  BY <1>2, <1>4 DEF IsParameter
<1> QED
  BY <1>2, <1>5, <1>6

(* MATCHING_FUNCTION: a call begins, or a bullet is text, or it waits.       *)
LEMMA MatchingKeeps ==
  ASSUME Ground, NEW f \in 0..Len(text), NEW p, Kept(p, f), p.mode = "matching"
  PROVE  /\ Kept(Matching(p), f)
         /\ \/ Matching(p).mode \in {"params", "text"} /\ Matching(p).going = p.going /\ Len(Matching(p).buffer) < Len(p.buffer)
            \/ Matching(p).mode = "matching" /\ Matching(p).going = FALSE /\ FunctionEnd(Matching(p).buffer) = 0
<1>1. /\ p \in Parsers /\ p.buffer \in Seq(Nat) /\ Len(p.buffer) \in Nat /\ f \in Nat /\ text \in Seq(Tokens) /\ Len(text) \in Nat
  BY Buffers DEF Ground
<1>2. PICK end \in 0..Len(p.buffer) : end = FunctionEnd(p.buffer)
  BY <1>1, FunctionEndWithin
<1>3. Patience \in Nat /\ Patience >= 2
  BY TextsAssumption
<1>4. CASE end # 0
  <2>1. Matching(p) = BeginCall(p, end)
    BY <1>1, <1>2, <1>4 DEF Matching, BeginCall
  <2>2. ASSUME Plain
        PROVE  \E e \in Begun : /\ Cut(p, f) < e /\ Cut(p, f) + end = e + 2
                                /\ \A d \in Begun : Cut(p, f) < d /\ d <= Cut(p, f) + end => d = e
    BY <1>2, <1>4, <2>2, FirstFunction
  <2>3. ASSUME Neat
        PROVE  /\ \A k \in 1..end : text[Cut(p, f) + k] # "x"
               /\ Cut(p, f) + end < Len(text) => text[Cut(p, f) + end + 1] \notin {"func", "/par"}
    <3>1. Plain
      BY <1>1, <2>3, NeatIsPlain
    <3>2. PICK c \in Nat : c = Cut(p, f) /\ c + 1 \in Begun
      BY <2>3, <3>1, WaitsForFunction, Positions
    <3>3. PICK e \in Begun : /\ c < e /\ c + end = e + 2
                             /\ \A d \in Begun : c < d /\ d <= c + end => d = e
      BY <2>2, <3>1, <3>2
    <3>4. c + 1 = e
      <4>1. c < c + 1 /\ c + 1 <= c + end
        BY <1>1, <1>2, <1>4, <3>2
      <4> QED
        BY <3>2, <3>3, <4>1
    <3>5. end = 3
      BY <1>1, <1>2, <3>2, <3>3, <3>4
    <3>6. text[e] = "dot" /\ text[e + 1] = "func" /\ text[e + 2] = "name"
      BY DEF Begun
    <3>7. c + 2 = e + 1 /\ c + 3 = e + 2 /\ c + end + 1 = e + 3
      BY <3>2, <3>4, <3>5
    <3>8. ASSUME NEW k \in 1..end
          PROVE  text[c + k] # "x"
      <4>1. k = 1 \/ k = 2 \/ k = 3
        BY <3>5
      <4> QED
        BY <3>4, <3>6, <3>7, <4>1
    <3>9. ASSUME c + end < Len(text)
          PROVE  text[c + end + 1] \notin {"func", "/par"}
      <4>1. e + 2 < Len(text)
        BY <3>3, <3>9
      <4> QED
        BY <2>3, <3>7, <4>1, AfterFunction
    <3> QED
      BY <3>2, <3>8, <3>9
  <2>4. Kept(BeginCall(p, end), f)
    BY <1>1, <2>2, <2>3, KeptBegin
  <2>5. /\ BeginCall(p, end).mode = "params" /\ BeginCall(p, end).going = p.going
        /\ BeginCall(p, end).buffer = AfterN(p.buffer, end)
    BY <1>1, BeginParts
  <2>6. Len(AfterN(p.buffer, end)) < Len(p.buffer)
    <3>1. Len(AfterN(p.buffer, end)) = Len(p.buffer) - end
      BY <1>1, AfterLength
    <3> QED
      BY <1>1, <1>4, <3>1
  <2> QED
    BY <2>1, <2>4, <2>5, <2>6
<1>5. CASE end = 0 /\ Len(p.buffer) > Patience
  <2>1. PICK q : q = [p EXCEPT !.mode = "text"]
    OBVIOUS
  <2>2. Kept(q, f) /\ q.buffer = p.buffer /\ q.mode = "text" /\ q.going = p.going
    BY <1>1, <2>1, KeptMode DEF Parsers
  <2>3. 1 \in 0..Len(q.buffer) /\ Len(p.buffer) >= 3
    BY <1>1, <1>3, <1>5, <2>2
  <2>4. ASSUME Plain, NEW d \in Begun, Cut(q, f) < d, d <= Cut(q, f) + 1
        PROVE  d + 2 <= Cut(q, f) + 1 /\ Beyond(d)
    <3>1. PICK c \in Nat, m \in Nat : c = Cut(q, f) /\ m = Len(p.buffer) /\ c + m = f
      BY <2>2, <2>4, Positions
    <3>2. d \in Int /\ d = c + 1 /\ d + 2 <= f
      <4>1. d \in Int
        BY DEF Begun
      <4>2. d = c + 1
        BY <2>4, <3>1, <4>1
      <4> QED
        BY <2>3, <3>1, <4>1, <4>2
    <3>3. d - Cut(q, f) \in 1..Len(q.buffer) - 1 /\ Heads(q.buffer, d - Cut(q, f))
      BY <2>2, <2>4, <3>2, WholeFunctionHeads
    <3>4. \A i \in 1..Len(p.buffer) - 1 : ~Heads(p.buffer, i)
      BY <1>1, <1>2, <1>5, FunctionEndFinds
    <3> QED
      BY <2>2, <3>3, <3>4
  <2>5. Kept(Show(q, 1), f)
    BY <1>1, <2>2, <2>3, <2>4, KeptShow
  <2>6. Matching(p) = Show(q, 1)
    <3>1. Matching(p) = [Show(p, 1) EXCEPT !.mode = "text"]
      BY <1>2, <1>5 DEF Matching
    <3>2. q.buffer = p.buffer /\ q.out = p.out
      BY <1>1, <2>1 DEF Parsers
    <3>3. Show(q, 1) = [q EXCEPT !.out = p.out \o FirstN(p.buffer, 1), !.buffer = AfterN(p.buffer, 1)]
      BY <3>2 DEF Show
    <3>4. Show(p, 1) = [p EXCEPT !.out = p.out \o FirstN(p.buffer, 1), !.buffer = AfterN(p.buffer, 1)]
      BY DEF Show
    <3> QED
      BY <1>1, <2>1, <3>1, <3>3, <3>4, ChangesCommute
  <2>7. Show(q, 1).mode = "text" /\ Show(q, 1).going = p.going /\ Len(Show(q, 1).buffer) = Len(p.buffer) - 1
    BY <2>2, <2>3, ShowLeaves
  <2> QED
    BY <1>1, <2>5, <2>6, <2>7
<1>6. CASE end = 0 /\ ~(Len(p.buffer) > Patience)
  <2>1. Matching(p) = Wait(p)
    BY <1>2, <1>6 DEF Matching
  <2>2. Kept(Wait(p), f) /\ Wait(p).mode = "matching" /\ Wait(p).going = FALSE /\ Wait(p).buffer = p.buffer
    BY <1>1, KeptWait DEF Wait, Parsers
  <2> QED
    BY <1>2, <1>6, <2>1, <2>2
<1> QED
  BY <1>4, <1>5, <1>6

-----------------------------------------------------------------------------

(* The parsers that take the parameters of a call.                           *)
Params(f) == {p \in Parsers : ParserInv(Told(p), f) /\ p.mode = "params" /\ p.going}

(* What a call took, after what was handed out.                              *)
LEMMA ShowThenTake ==
  ASSUME NEW p \in Parsers, NEW s \in 1..Len(p.buffer), NEW e \in s..Len(p.buffer)
  PROVE  Take(Show(p, s - 1), e - s + 1) =
            [Show(p, s - 1) EXCEPT !.buffer = AfterN(p.buffer, e), !.args = @ \cup {p.buffer[i] : i \in s..e}]
<1>1. p.buffer \in Seq(Nat) /\ Len(p.buffer) \in Nat /\ s - 1 \in 0..Len(p.buffer) /\ s \in Nat /\ e \in Nat /\ s <= e /\ e <= Len(p.buffer)
  BY DEF Parsers
<1>2. PICK b \in Seq(Nat), n \in 0..Len(p.buffer) : b = p.buffer /\ n = s - 1 /\ n \in 0..Len(b)
  BY <1>1
<1>3. PICK r \in Seq(Nat) : r = AfterN(b, n) /\ Len(r) = Len(b) - n /\ \A i \in 1..Len(b) - n : r[i] = b[n + i]
  BY <1>2, AfterLength
<1>4. PICK k \in 0..Len(r) : k = e - s + 1 /\ n + k = e
  BY <1>1, <1>2, <1>3
<1>5. AfterN(r, k) = AfterN(b, e)
  <2>1. AfterN(r, k) \in Seq(Nat) /\ Len(AfterN(r, k)) = Len(r) - k /\ \A i \in 1..Len(r) - k : AfterN(r, k)[i] = r[k + i]
    BY AfterLength
  <2>2. e \in 0..Len(b)
    BY <1>1, <1>2
  <2>3. AfterN(b, e) \in Seq(Nat) /\ Len(AfterN(b, e)) = Len(b) - e /\ \A i \in 1..Len(b) - e : AfterN(b, e)[i] = b[e + i]
    BY <2>2, AfterLength
  <2>4. Len(r) - k = Len(b) - e
    BY <1>1, <1>2, <1>3, <1>4
  <2>5. ASSUME NEW i \in 1..Len(b) - e
        PROVE  r[k + i] = b[e + i]
    <3>1. PICK j \in 1..Len(b) - n : j = k + i /\ n + j = e + i
      BY <1>1, <1>2, <1>4
    <3> QED
      BY <1>3, <3>1
  <2>6. PICK u \in Seq(Nat), v \in Seq(Nat) : u = AfterN(r, k) /\ v = AfterN(b, e)
    BY <2>1, <2>3
  <2>7. Len(u) = Len(v) /\ \A i \in 1..Len(u) : u[i] = v[i]
    BY <2>1, <2>3, <2>4, <2>5, <2>6
  <2> QED
    BY <2>6, <2>7, SeqEqual
<1>6. {r[i] : i \in 1..k} = {b[i] : i \in s..e}
  <2>1. ASSUME NEW i \in 1..k
        PROVE  r[i] \in {b[j] : j \in s..e}
    <3>1. PICK j \in s..e : j = n + i
      BY <1>1, <1>2, <1>4
    <3>2. i \in 1..Len(b) - n
      BY <1>1, <1>2, <1>3, <1>4
    <3> QED
      BY <1>3, <3>1, <3>2
  <2>2. ASSUME NEW j \in s..e
        PROVE  b[j] \in {r[i] : i \in 1..k}
    <3>1. PICK i \in 1..k : j = n + i
      BY <1>1, <1>2, <1>4
    <3>2. i \in 1..Len(b) - n
      BY <1>1, <1>2, <1>3, <1>4
    <3> QED
      BY <1>3, <3>1, <3>2
  <2> QED
    BY <2>1, <2>2
<1>7. PICK q : q = Show(p, n)
  OBVIOUS
<1>8. q \in Parsers /\ q.buffer = r /\ q.args = p.args
  BY <1>2, <1>3, <1>7, ShowParts
<1>9. Take(q, k) = [q EXCEPT !.buffer = AfterN(b, e), !.args = p.args \cup {b[i] : i \in s..e}]
  BY <1>5, <1>6, <1>8 DEF Take
<1>10. [q EXCEPT !.buffer = AfterN(b, e), !.args = @ \cup {b[i] : i \in s..e}]
          = [q EXCEPT !.buffer = AfterN(b, e), !.args = p.args \cup {b[i] : i \in s..e}]
  BY <1>8
<1> QED
  BY <1>2, <1>4, <1>7, <1>9, <1>10

(* The tag of a parameter comes after the function, not inside it.           *)
LEMMA PartOfFunction ==
  ASSUME Ground, NEW d \in Begun, NEW k \in Int, d <= k, text[k] \in {"par", "/par"}
  PROVE  d + 2 <= k - 1 /\ d + 2 < k
<1>1. d \in Int /\ text[d] = "dot" /\ text[d + 1] = "func" /\ text[d + 2] = "name"
  BY DEF Begun
<1>2. k # d /\ k # d + 1 /\ k # d + 2
  BY <1>1
<1> QED
  BY <1>1, <1>2

(* A call takes one parameter after the other, until there is no whole one.  *)
LEMMA TakeParamKeeps ==
  ASSUME Ground, NEW f \in 0..Len(text), NEW p \in Params(f)
  PROVE  /\ TakeParam(p) \in Params(f)
         /\ Len(TakeParam(p).buffer) <= Len(p.buffer)
         /\ (NoParameter(p.buffer) /\ TakeParam(p) = p) \/ Len(TakeParam(p).buffer) < Len(p.buffer)
<1>1. Kept(p, f) /\ p.mode = "params" /\ p.going
  BY DEF Params, Kept
<1>2. p \in Parsers /\ p.buffer \in Seq(Nat) /\ Len(p.buffer) \in Nat /\ f \in Nat /\ text \in Seq(Tokens) /\ Len(text) \in Nat
  BY <1>1, Buffers DEF Ground
<1> DEFINE start == NextOf(p.buffer, 0, {"par"})
           key   == NextOf(p.buffer, start, EndsTag)
           close == NextOf(p.buffer, key, {"/par"})
           end   == IF close > 0 THEN close ELSE Len(p.buffer)
           none  == start = 0 \/ key = 0 \/ (close = 0 /\ text[p.buffer[key]] # "/par")
<1>3. NoParameter(p.buffer) <=> none
  BY DEF NoParameter
<1>4. TakeParam(p) = IF none THEN p
                     ELSE [Show(p, start - 1) EXCEPT !.buffer = AfterN(p.buffer, end), !.args = @ \cup {p.buffer[i] : i \in start..end}]
  BY DEF TakeParam
<1>5. /\ start \in Nat
      /\ start # 0 => 0 < start /\ start <= Len(p.buffer) /\ text[p.buffer[start]] = "par"
  BY <1>2, NextOfFinds
<1>6. /\ key \in Nat
      /\ key # 0 => /\ start < key /\ key <= Len(p.buffer) /\ text[p.buffer[key]] \in EndsTag
                    /\ \A i \in 1..Len(p.buffer) : start < i /\ i < key => text[p.buffer[i]] \notin EndsTag
  <2> HIDE DEF start
  <2> QED
    BY <1>2, <1>5, NextOfFinds
<1>7. /\ close \in Nat
      /\ close # 0 => key < close /\ close <= Len(p.buffer) /\ text[p.buffer[close]] = "/par"
  <2> HIDE DEF key
  <2> QED
    BY <1>2, <1>6, NextOfFinds
<1> HIDE DEF start, key, close
<1>8. CASE none
  BY <1>2, <1>3, <1>4, <1>8
<1>9. CASE ~none
  <2>1. start \in 1..Len(p.buffer) /\ end \in start..Len(p.buffer) /\ start < end
    BY <1>2, <1>5, <1>6, <1>7, <1>9
  <2>2. PICK s \in 1..Len(p.buffer), e \in 1..Len(p.buffer) : s = start /\ e = end /\ s < e /\ e \in s..Len(p.buffer)
    BY <1>2, <2>1
  <2>3. PICK n \in 0..Len(p.buffer) : n = s - 1
    BY <1>2
  <2>4. PICK q : q = Show(p, n)
    OBVIOUS
  <2>5. PICK k \in Nat : k = e - s + 1 /\ n + k = e
    <3>1. s \in Nat /\ e \in Nat /\ s < e /\ n \in Nat
      BY <1>2, <2>2, <2>3
    <3>2. e - s + 1 \in Nat /\ n + (e - s + 1) = e
      BY <2>3, <3>1
    <3> QED
      BY <3>2
  <2>6. TakeParam(p) = Take(q, k)
    BY <1>2, <1>4, <1>9, <2>2, <2>3, <2>4, <2>5, ShowThenTake
  <2>7. ASSUME Plain
        PROVE  /\ Cut(p, f) \in Nat /\ Cut(p, f) + s \in 1..Len(text) /\ Cut(p, f) + e \in 1..Len(text)
               /\ text[Cut(p, f) + s] = "par" /\ text[Cut(p, f) + e] = "/par" /\ close # 0
    <3>1. /\ Cut(p, f) \in Nat /\ Len(p.buffer) \in Nat /\ Cut(p, f) + Len(p.buffer) = f
          /\ \A i \in 1..Len(p.buffer) : p.buffer[i] = Cut(p, f) + i /\ Cut(p, f) + i \in 1..Len(text)
      BY <1>1, <2>7, Positions
    <3>2. PICK c \in Nat : c = Cut(p, f)
      BY <3>1
    <3>3. e \in 1..Len(p.buffer)
      BY <1>2, <2>2
    <3>4. c + s \in 1..Len(text) /\ c + e \in 1..Len(text) /\ p.buffer[s] = c + s /\ p.buffer[e] = c + e
      BY <3>1, <3>2, <3>3
    <3>5. text[c + s] = "par"
      BY <1>5, <1>9, <2>2, <3>4
    <3>6. text[c + s + 1] = "name"
      <4>1. PICK j \in 1..Len(text) : j = c + s
        BY <3>4
      <4>2. text[j] = "par" => text[j + 1] = "name"
        BY <2>7 DEF Plain
      <4> QED
        BY <3>5, <4>1, <4>2
    <3>7. key = s + 1
      <4>1. key \in Nat /\ s < key /\ key <= Len(p.buffer)
        BY <1>6, <1>9, <2>2
      <4>2. s + 1 \in 1..Len(p.buffer) /\ c + (s + 1) = c + s + 1
        BY <1>2, <4>1
      <4>3. p.buffer[s + 1] = c + s + 1
        BY <3>1, <3>2, <4>2
      <4>4. "name" \in EndsTag
        BY DEF EndsTag
      <4>5. SUFFICES ASSUME s + 1 < key PROVE FALSE
        BY <1>2, <4>1, <4>2
      <4>6. text[p.buffer[s + 1]] \notin EndsTag
        BY <1>6, <1>9, <2>2, <4>2, <4>5
      <4> QED
        BY <3>6, <4>3, <4>4, <4>6
    <3>8. p.buffer[key] = c + s + 1
      <4>1. s + 1 \in 1..Len(p.buffer) /\ c + (s + 1) = c + s + 1
        BY <1>2, <2>2
      <4> QED
        BY <3>1, <3>2, <3>7, <4>1
    <3>9. close # 0
      BY <1>9, <3>6, <3>8
    <3>10. e = close
      BY <1>7, <2>2, <3>9
    <3>11. text[c + e] = "/par"
      BY <1>7, <3>4, <3>9, <3>10
    <3> QED
      BY <3>2, <3>4, <3>5, <3>9, <3>11
  <2>8. ASSUME Plain, NEW d \in Begun, Cut(p, f) < d, d <= Cut(p, f) + n
        PROVE  d + 2 <= Cut(p, f) + n /\ Beyond(d)
    <3>1. PICK c \in Nat : c = Cut(p, f) /\ c + s \in 1..Len(text) /\ text[c + s] = "par"
      BY <2>7, <2>8
    <3>2. d \in Int /\ d <= c + s /\ c + s \in Int /\ c + s - 1 = c + n
      BY <1>2, <2>3, <2>8, <3>1 DEF Begun
    <3>3. d + 2 <= c + s - 1
      BY <3>1, <3>2, PartOfFunction
    <3>4. \E i \in Begun : i <= c
      <4>1. CallsInv(Told(p), f) /\ Cut(Told(p), f) = c /\ Told(p).mode = "params"
        <5>1. CallsInv(Told(p), f) /\ shown \in Seq(Nat) /\ tools \in Seq(SUBSET Nat)
          BY <1>1, <2>8 DEF Kept, ParserInv, Ground
        <5>2. Told(p).buffer = p.buffer /\ Told(p).mode = p.mode
          BY <1>2, <5>1, ToldParts
        <5> QED
          BY <1>1, <3>1, <5>1, <5>2 DEF Cut
      <4> QED
        BY <4>1 DEF CallsInv
    <3>5. PICK i \in Begun : i <= c /\ i \in Int
      BY <3>4 DEF Begun
    <3>6. i < d /\ c + s \in d..Len(text)
      BY <2>8, <3>1, <3>2, <3>5
    <3>7. Beyond(d)
      BY <3>1, <3>5, <3>6 DEF Beyond
    <3> QED
      BY <3>1, <3>2, <3>3, <3>7
  <2>9. ASSUME Neat
        PROVE  /\ p.mode # "matching"
               /\ p.mode = "params" /\ Cut(p, f) + n < Len(text) => text[Cut(p, f) + n + 1] \notin {"func", "/par"}
    <3>1. Plain
      BY <1>2, <2>9, NeatIsPlain
    <3>2. PICK c \in Nat : c = Cut(p, f) /\ text[c + s] = "par"
      BY <2>7, <3>1
    <3>3. c + n + 1 = c + s
      BY <1>2, <2>3, <3>2
    <3> QED
      BY <1>1, <3>2, <3>3
  <2>10. Kept(q, f)
    BY <1>1, <1>2, <2>4, <2>8, <2>9, KeptShow
  <2>11. q.mode = "params" /\ q.going /\ Len(q.buffer) = Len(p.buffer) - n /\ q.buffer = AfterN(p.buffer, n)
    BY <1>1, <2>4, ShowLeaves
  <2>12. k \in 0..Len(q.buffer)
    BY <1>2, <2>2, <2>3, <2>5, <2>11
  <2>13. Plain => Cut(q, f) = Cut(p, f) + n /\ Cut(q, f) + k = Cut(p, f) + e
    <3>1. SUFFICES ASSUME Plain PROVE Cut(q, f) = Cut(p, f) + n /\ Cut(q, f) + k = Cut(p, f) + e
      OBVIOUS
    <3>2. PICK c \in Nat : c = Cut(p, f)
      BY <2>7, <3>1
    <3>3. Cut(q, f) = c + n
      BY <1>2, <2>11, <3>2 DEF Cut
    <3>4. n \in Nat /\ e \in Nat
      BY <1>2, <2>2
    <3> QED
      BY <2>5, <3>2, <3>3, <3>4
  <2>14. ASSUME Plain, NEW d \in Begun, Cut(q, f) < d, d <= Cut(q, f) + k
         PROVE  d + 2 <= Cut(q, f) + k /\ Within(d)
    <3>1. PICK c \in Nat : /\ c = Cut(p, f) /\ c + s \in 1..Len(text) /\ text[c + s] = "par"
                           /\ c + e \in 1..Len(text) /\ text[c + e] = "/par"
      BY <2>7, <2>14
    <3>2. d \in Int /\ c + n < d /\ d <= c + e /\ c + s \in Int /\ c + e \in Int
      BY <2>13, <2>14, <3>1 DEF Begun
    <3>3. d + 2 < c + e
      BY <3>1, <3>2, PartOfFunction
    <3>4. c + s \in 1..d /\ c + e \in d..Len(text)
      BY <1>2, <2>3, <3>1, <3>2
    <3>5. Within(d)
      BY <3>1, <3>4 DEF Within
    <3>6. d + 2 <= c + e
      BY <3>2, <3>3
    <3> QED
      BY <2>13, <2>14, <3>1, <3>5, <3>6
  <2>15. ASSUME Neat, Cut(q, f) + k < Len(text)
         PROVE  text[Cut(q, f) + k + 1] \notin {"func", "/par"}
    <3>1. Plain
      BY <1>2, <2>15, NeatIsPlain
    <3>2. PICK j \in 1..Len(text) : j = Cut(p, f) + e /\ text[j] = "/par"
      BY <2>7, <3>1
    <3>3. j < Len(text) /\ Cut(q, f) + k + 1 = j + 1
      BY <2>13, <2>15, <3>1, <3>2
    <3> QED
      BY <2>15, <3>2, <3>3, AfterParameter
  <2>16. Kept(Take(q, k), f)
    BY <1>2, <2>10, <2>11, <2>12, <2>14, <2>15, KeptTake
  <2>17. Take(q, k).mode = "params" /\ Take(q, k).going /\ Take(q, k).buffer = AfterN(q.buffer, k)
    BY <2>10, <2>11, <2>12, Buffers, TakeParts
  <2>18. Len(AfterN(q.buffer, k)) = Len(q.buffer) - k
    BY <2>10, <2>12, Buffers, AfterLength
  <2>19. Len(Take(q, k).buffer) < Len(p.buffer)
    <3>1. s \in Nat /\ e \in Nat /\ n \in Nat /\ e > 0
      BY <1>2, <2>2
    <3>2. Len(Take(q, k).buffer) = Len(p.buffer) - n - k
      BY <2>11, <2>17, <2>18
    <3>3. Len(p.buffer) - n - k = Len(p.buffer) - e
      <4>1. n + k = e /\ k \in Nat
        BY <2>5
      <4>2. PICK m \in Int : m = Len(p.buffer)
        BY <1>2
      <4>3. m - n - k = m - (n + k)
        BY <3>1, <4>1
      <4> QED
        BY <4>1, <4>2, <4>3
    <3> QED
      BY <1>2, <3>1, <3>2, <3>3
  <2>20. Len(Take(q, k).buffer) <= Len(p.buffer)
    BY <1>2, <2>11, <2>12, <2>17, <2>18
  <2> QED
    BY <2>6, <2>16, <2>17, <2>19, <2>20 DEF Kept, Params
<1> QED
  BY <1>8, <1>9

-----------------------------------------------------------------------------

(* The loop that takes the parameters is a function from the number of turns. *)
LEMMA TakeParamsLoop ==
  ASSUME Ground, NEW f \in 0..Len(text), NEW p \in Params(f)
  PROVE  \E g : /\ \A i \in 0..Len(p.buffer) : g[i] \in Params(f)
                /\ g[0] = p /\ \A i \in 1..Len(p.buffer) : g[i] = TakeParam(g[i - 1])
                /\ TakeParams(p) = g[Len(p.buffer)]
<1> DEFINE n == Len(p.buffer)
           IsLoop(g) == g = [i \in 0..n |-> IF i = 0 THEN p ELSE TakeParam(g[i - 1])]
           loop == CHOOSE g : IsLoop(g)
<1>1. n \in Nat
  BY DEF Params, Parsers
<1>2. TakeParams(p) = loop[n]
  BY DEF TakeParams
<1> HIDE DEF n
<1>3. \E g : IsLoop(g)
  <2> DEFINE st == [i \in Nat |-> [v \in Params(f) |-> TakeParam(v)]]
  <2>1. \A v \in Params(f) : TakeParam(v) \in Params(f)
    BY TakeParamKeeps
  <2>2. st \in [Nat -> [Params(f) -> Params(f)]]
    BY <2>1
  <2>3. PICK g : Iterates(g, Params(f), p, st)
    <3> HIDE DEF st
    <3> QED
      BY <2>2, Iteration
  <2>4. g \in [Nat -> Params(f)] /\ g[0] = p /\ \A i \in Nat : g[i + 1] = st[i][g[i]]
    BY <2>3 DEF Iterates
  <2>5. \A i \in Nat : g[i + 1] = TakeParam(g[i])
    BY <2>4
  <2> HIDE DEF st
  <2>6. \A i \in 1..n : g[i] = TakeParam(g[i - 1])
    <3>1. TAKE i \in 1..n
    <3>2. PICK k \in Nat : k = i - 1 /\ k + 1 = i
      BY <1>1
    <3>3. g[k + 1] = TakeParam(g[k])
      BY <2>5
    <3> QED
      BY <3>2, <3>3
  <2> DEFINE h == [i \in 0..n |-> g[i]]
  <2>7. ASSUME NEW i \in 0..n
        PROVE  h[i] = IF i = 0 THEN p ELSE TakeParam(h[i - 1])
    <3>1. CASE i = 0
      BY <2>4, <3>1
    <3>2. CASE i # 0
      <4>1. i \in 1..n /\ i - 1 \in 0..n
        BY <1>1, <3>2
      <4> QED
        BY <2>6, <3>2, <4>1
    <3> QED
      BY <3>1, <3>2
  <2>8. h = [i \in 0..n |-> h[i]]
    OBVIOUS
  <2> HIDE DEF h
  <2>9. h = [i \in 0..n |-> IF i = 0 THEN p ELSE TakeParam(h[i - 1])]
    BY <2>7, <2>8
  <2> QED
    BY <2>9
<1>4. IsLoop(loop)
  <2> HIDE DEF IsLoop
  <2> QED
    BY <1>3
<1> HIDE DEF loop
<1>5. \A i \in 0..n : loop[i] = IF i = 0 THEN p ELSE TakeParam(loop[i - 1])
  BY <1>4
<1>6. loop[0] = p
  <2>1. 0 \in 0..n
    BY <1>1
  <2> QED
    BY <1>5, <2>1
<1>7. ASSUME NEW i \in 1..n
      PROVE  loop[i] = TakeParam(loop[i - 1])
  <2>1. i \in 0..n /\ i # 0
    BY <1>1
  <2> QED
    BY <1>5, <2>1
<1>8. \A i \in 0..n : loop[i] \in Params(f)
  <2> DEFINE S == {i \in Nat : i \in 0..n => loop[i] \in Params(f)}
  <2>1. 0 \in S
    BY <1>6
  <2>2. ASSUME NEW i \in Nat, i \in S
        PROVE  i + 1 \in S
    <3>1. SUFFICES ASSUME i + 1 \in 0..n PROVE loop[i + 1] \in Params(f)
      OBVIOUS
    <3>2. i \in 0..n /\ i + 1 \in 1..n /\ i + 1 - 1 = i
      BY <1>1, <3>1
    <3>3. loop[i] \in Params(f) /\ loop[i + 1] = TakeParam(loop[i])
      BY <1>7, <2>2, <3>2
    <3> QED
      BY <3>3, TakeParamKeeps
  <2>3. \A i \in Nat : i \in S
    <3> HIDE DEF S
    <3> QED
      BY <2>1, <2>2, Induction
  <2> QED
    BY <1>1, <2>3
<1> QED
  BY <1>2, <1>6, <1>7, <1>8 DEF n

(* Without a whole parameter nothing is taken.                               *)
LEMMA TakesNothing ==
  ASSUME NEW p, NoParameter(p.buffer)
  PROVE  TakeParam(p) = p
BY DEF TakeParam, NoParameter

(* It takes all the whole parameters there are.                              *)
LEMMA TakeParamsKeeps ==
  ASSUME Ground, NEW f \in 0..Len(text), NEW p \in Params(f)
  PROVE  TakeParams(p) \in Params(f) /\ NoParameter(TakeParams(p).buffer) /\ Len(TakeParams(p).buffer) <= Len(p.buffer)
<1>1. PICK g : /\ \A i \in 0..Len(p.buffer) : g[i] \in Params(f)
               /\ g[0] = p /\ \A i \in 1..Len(p.buffer) : g[i] = TakeParam(g[i - 1])
               /\ TakeParams(p) = g[Len(p.buffer)]
  BY TakeParamsLoop
<1>2. PICK n \in Nat : n = Len(p.buffer)
  BY DEF Params, Parsers
<1>3. \A i \in 0..n : Len(g[i].buffer) \in Nat
  BY <1>1, <1>2 DEF Params, Parsers
<1> DEFINE Good(i) == \/ NoParameter(g[i].buffer) /\ Len(g[i].buffer) <= n
                      \/ Len(g[i].buffer) + i <= n
           S == {i \in Nat : i \in 0..n => Good(i)}
<1>4. 0 \in S
  BY <1>1, <1>2
<1>5. ASSUME NEW i \in Nat, i \in S
      PROVE  i + 1 \in S
  <2>1. SUFFICES ASSUME i + 1 \in 0..n PROVE Good(i + 1)
    <3> HIDE DEF Good
    <3> QED
      OBVIOUS
  <2>2. i \in 0..n /\ i + 1 \in 1..n /\ i + 1 - 1 = i /\ Good(i)
    BY <1>2, <1>5, <2>1
  <2>3. PICK q \in Params(f) : q = g[i]
    BY <1>1, <1>2, <2>2
  <2>4. g[i + 1] = TakeParam(q)
    BY <1>1, <1>2, <2>2, <2>3
  <2>5. /\ (NoParameter(q.buffer) /\ TakeParam(q) = q) \/ Len(TakeParam(q).buffer) < Len(q.buffer)
        /\ Len(TakeParam(q).buffer) <= Len(q.buffer)
    BY TakeParamKeeps
  <2>6. Len(q.buffer) \in Nat /\ Len(g[i + 1].buffer) \in Nat
    BY <1>3, <2>1, <2>2, <2>3
  <2>7. CASE NoParameter(q.buffer) /\ TakeParam(q) = q
    <3>1. Len(q.buffer) <= n
      BY <2>2, <2>3, <2>6
    <3> QED
      BY <2>4, <2>7, <3>1
  <2>8. CASE Len(TakeParam(q).buffer) < Len(q.buffer)
    <3>1. CASE NoParameter(q.buffer)
      BY <2>5, <2>7, <2>8, <3>1, TakesNothing
    <3>2. CASE ~NoParameter(q.buffer)
      <4>1. PICK a \in Nat, b \in Nat : a = Len(q.buffer) /\ b = Len(TakeParam(q).buffer) /\ b < a
        BY <2>4, <2>6, <2>8
      <4>2. a + i <= n
        BY <2>2, <2>3, <3>2, <4>1
      <4>3. b < a
        BY <4>1
      <4>4. b + (i + 1) <= n
        BY <4>2, <4>3
      <4> QED
        BY <2>4, <4>1, <4>4
    <3> QED
      BY <3>1, <3>2
  <2> QED
    BY <2>5, <2>7, <2>8
<1>6. \A i \in Nat : i \in S
  <2> HIDE DEF S
  <2> QED
    BY <1>4, <1>5, Induction
<1>7. Good(n) /\ n \in 0..n
  BY <1>6
<1>8. PICK q \in Params(f) : q = TakeParams(p) /\ q = g[n]
  BY <1>1, <1>2, <1>7
<1>9. NoParameter(q.buffer)
  <2>1. SUFFICES ASSUME Len(q.buffer) + n <= n PROVE NoParameter(q.buffer)
    BY <1>7, <1>8
  <2>2. Len(q.buffer) = 0 /\ q.buffer \in Seq(Nat)
    BY <1>2, <1>3, <1>7, <1>8, <2>1 DEF Params, Parsers
  <2>3. NextOf(q.buffer, 0, {"par"}) = 0
    BY <2>2, NextOfFinds
  <2> QED
    BY <2>3 DEF NoParameter
<1>10. Len(q.buffer) <= n
  <2>1. PICK a \in Nat : a = Len(q.buffer)
    BY <1>3, <1>7, <1>8
  <2>2. a <= n \/ a + n <= n
    BY <1>7, <1>8, <2>1
  <2> QED
    BY <2>1, <2>2
<1> QED
  BY <1>2, <1>8, <1>9, <1>10

-----------------------------------------------------------------------------

(* The fields that the end of a call changes are not those of text.          *)
LEMMA CompleteCommutes ==
  ASSUME NEW p \in Parsers, NEW x, NEW y, NEW z
  PROVE  [[p EXCEPT !.out = x, !.buffer = y] EXCEPT !.calls = z, !.mode = "text"]
            = [[p EXCEPT !.calls = z, !.mode = "text"] EXCEPT !.out = x, !.buffer = y]
BY DEF Parsers

(* So a call may end before the text that follows it is handed out, or after.*)
LEMMA CompleteThenShow ==
  ASSUME NEW p \in Parsers, NEW n
  PROVE  CompleteCall(Show(p, n)) = Show(CompleteCall(p), n)
<1> DEFINE x == p.out \o FirstN(p.buffer, n)
           y == AfterN(p.buffer, n)
           z == Append(p.calls, p.args)
<1>1. PICK q, r : q = Show(p, n) /\ r = CompleteCall(p)
  OBVIOUS
<1>2. q = [p EXCEPT !.out = x, !.buffer = y]
  BY <1>1 DEF Show
<1>3. r = [p EXCEPT !.calls = z, !.mode = "text"]
  BY <1>1 DEF CompleteCall
<1>4. q.calls = p.calls /\ q.args = p.args
  BY <1>2 DEF Parsers
<1>5. r.out = p.out /\ r.buffer = p.buffer
  BY <1>3 DEF Parsers
<1>6. CompleteCall(q) = [q EXCEPT !.calls = z, !.mode = "text"]
  BY <1>4 DEF CompleteCall
<1>7. Show(r, n) = [r EXCEPT !.out = x, !.buffer = y]
  BY <1>5 DEF Show
<1> HIDE DEF x, y, z
<1>8. CompleteCall(q) = Show(r, n)
  BY <1>2, <1>3, <1>6, <1>7, CompleteCommutes
<1> QED
  BY <1>1, <1>8

(* A call that ends, with what was before its end handed out.                *)
LEMMA CallEnds ==
  ASSUME Ground, NEW f \in 0..Len(text), NEW q \in Params(f), NEW n \in 0..Len(q.buffer),
         \A i \in 1..n : text[q.buffer[i]] # "dot"
  PROVE  LET r == CompleteCall(Show(q, n))
         IN  Kept(r, f) /\ r.mode = "text" /\ r.going /\ Len(r.buffer) <= Len(q.buffer)
<1>1. Kept(q, f) /\ q.mode = "params" /\ q.going /\ q \in Parsers /\ Len(q.buffer) \in Nat /\ f \in Nat
  BY DEF Params, Kept, Parsers, Ground
<1>2. PICK c : c = CompleteCall(q)
  OBVIOUS
<1>3. Kept(c, f)
  BY <1>1, <1>2, KeptComplete
<1>4. c.buffer = q.buffer /\ c.mode = "text" /\ c.going = q.going
  BY <1>1, <1>2 DEF CompleteCall, Parsers
<1>5. Plain => \A d \in Begun : Cut(c, f) < d /\ d <= Cut(c, f) + n => d + 2 <= Cut(c, f) + n /\ Beyond(d)
  BY <1>3, <1>4, NoFunctions
<1>6. Kept(Show(c, n), f)
  BY <1>1, <1>3, <1>4, <1>5, KeptShow
<1>7. Show(c, n).mode = "text" /\ Show(c, n).going /\ Len(Show(c, n).buffer) = Len(q.buffer) - n
  <2>1. n \in 0..Len(c.buffer)
    BY <1>4
  <2>2. Show(c, n).mode = c.mode /\ Show(c, n).going = c.going /\ Len(Show(c, n).buffer) = Len(c.buffer) - n
    BY <1>3, <2>1, ShowLeaves
  <2> QED
    BY <1>1, <1>4, <2>2
<1>8. Len(Show(c, n).buffer) <= Len(q.buffer)
  BY <1>1, <1>7
<1> QED
  BY <1>1, <1>2, <1>6, <1>7, <1>8, CompleteThenShow

(* PARSING_PARAMETERS: the call ends, or the parser waits for the rest of it. *)
LEMMA ParametersKeeps ==
  ASSUME Ground, NEW f \in 0..Len(text), NEW p \in Params(f)
  PROVE  /\ Kept(Parameters(p), f)
         /\ \/ Parameters(p).mode = "text" /\ Parameters(p).going /\ Len(Parameters(p).buffer) <= Len(p.buffer)
            \/ Parameters(p).mode = "params" /\ Parameters(p).going = FALSE /\ AtRest(Parameters(p))
<1>1. PICK q \in Params(f) : q = TakeParams(p) /\ NoParameter(q.buffer) /\ Len(q.buffer) <= Len(p.buffer)
  BY TakeParamsKeeps
<1>2. /\ Kept(q, f) /\ q.mode = "params" /\ q.going /\ q \in Parsers /\ q.buffer \in Seq(Nat) /\ Len(q.buffer) \in Nat
      /\ Len(p.buffer) \in Nat /\ f \in Nat
  BY DEF Params, Kept, Parsers, Ground
<1> DEFINE dot == NextOf(q.buffer, 0, {"dot"})
           ends == q.buffer # <<>> /\ text[q.buffer[1]] \notin BeginsTag /\ NextOf(q.buffer, 0, {"par"}) = 0
<1>3. /\ dot \in Nat
      /\ dot = 0 => \A i \in 1..Len(q.buffer) : 0 < i => text[q.buffer[i]] \notin {"dot"}
      /\ dot # 0 => /\ 0 < dot /\ dot <= Len(q.buffer)
                    /\ \A i \in 1..Len(q.buffer) : 0 < i /\ i < dot => text[q.buffer[i]] \notin {"dot"}
  BY <1>2, NextOfFinds
<1>4. Parameters(p) = IF dot > 0 THEN CompleteCall(Show(q, dot - 1))
                      ELSE IF ends THEN CompleteCall(Show(q, Len(q.buffer))) ELSE Wait(q)
  BY <1>1 DEF Parameters
<1>5. CASE dot > 0
  <2> HIDE DEF dot
  <2>1. PICK n \in 0..Len(q.buffer) : n = dot - 1
    BY <1>2, <1>3, <1>5
  <2>2. \A i \in 1..n : text[q.buffer[i]] # "dot"
    BY <1>2, <1>3, <1>5, <2>1
  <2>3. PICK r : r = CompleteCall(Show(q, n))
    OBVIOUS
  <2>4. Kept(r, f) /\ r.mode = "text" /\ r.going /\ Len(r.buffer) <= Len(q.buffer)
    BY <2>2, <2>3, CallEnds
  <2>5. Len(r.buffer) <= Len(p.buffer)
    BY <1>1, <1>2, <2>4, Buffers
  <2>6. Parameters(p) = r
    BY <1>4, <1>5, <2>1, <2>3
  <2> QED
    BY <2>4, <2>5, <2>6
<1>6. CASE dot = 0 /\ ends
  <2>1. PICK n \in 0..Len(q.buffer) : n = Len(q.buffer)
    BY <1>2
  <2>2. \A i \in 1..n : text[q.buffer[i]] # "dot"
    <3>1. \A i \in 1..Len(q.buffer) : 0 < i => text[q.buffer[i]] \notin {"dot"}
      BY <1>3, <1>6
    <3>2. \A i \in 1..n : i \in 1..Len(q.buffer) /\ 0 < i
      BY <1>2, <2>1
    <3> QED
      BY <3>1, <3>2
  <2>3. PICK r : r = CompleteCall(Show(q, n))
    OBVIOUS
  <2>4. Kept(r, f) /\ r.mode = "text" /\ r.going /\ Len(r.buffer) <= Len(q.buffer)
    BY <2>2, <2>3, CallEnds
  <2>5. Len(r.buffer) <= Len(p.buffer)
    BY <1>1, <1>2, <2>4, Buffers
  <2>6. Parameters(p) = r
    BY <1>4, <1>6, <2>1, <2>3
  <2> QED
    BY <2>4, <2>5, <2>6
<1>7. CASE dot = 0 /\ ~ends
  <2>1. Parameters(p) = Wait(q) /\ Kept(Wait(q), f)
    BY <1>2, <1>4, <1>7, KeptWait
  <2>2. Wait(q).mode = "params" /\ Wait(q).going = FALSE /\ Wait(q).buffer = q.buffer
    BY <1>2 DEF Wait, Parsers
  <2>3. NextOf(q.buffer, 0, {"par"}) \in Nat
    BY <1>2, NextOfFinds
  <2>4. q.buffer = <<>> \/ text[q.buffer[1]] \in BeginsTag \/ NextOf(q.buffer, 0, {"par"}) > 0
    BY <1>7, <2>3
  <2>5. AtRest(Wait(q))
    BY <1>1, <1>7, <2>2, <2>4 DEF AtRest
  <2> QED
    BY <2>1, <2>2, <2>5
<1> QED
  BY <1>3, <1>5, <1>6, <1>7

-----------------------------------------------------------------------------

(* The parsers in the loop of feed.                                          *)
Looping(f) == {p \in Parsers : ParserInv(Told(p), f) /\ (Plain /\ ~p.going => AtRest(p))}
Turns(p) == IF p.going THEN Len(p.buffer) + (IF p.mode = "text" THEN 1 ELSE 2) ELSE 0

(* How many turns of the loop are left at most.                              *)
LEMMA TurnsIs ==
  ASSUME NEW p, Len(p.buffer) \in Nat
  PROVE  /\ Turns(p) \in Nat /\ (p.going => Turns(p) > 0 /\ Turns(p) >= Len(p.buffer) + 1)
         /\ (p.going /\ p.mode = "text" => Turns(p) = Len(p.buffer) + 1)
         /\ (p.going /\ p.mode # "text" => Turns(p) = Len(p.buffer) + 2)
         /\ Turns(p) <= Len(p.buffer) + 2 /\ (~p.going => Turns(p) = 0)
<1>1. PICK m \in Nat : m = Len(p.buffer)
  OBVIOUS
<1>2. Turns(p) = IF p.going THEN m + (IF p.mode = "text" THEN 1 ELSE 2) ELSE 0
  BY <1>1 DEF Turns
<1>3. CASE ~p.going
  BY <1>1, <1>2, <1>3
<1>4. CASE p.going /\ p.mode = "text"
  <2>1. Turns(p) = m + 1
    BY <1>2, <1>4
  <2> QED
    BY <1>1, <1>4, <2>1
<1>5. CASE p.going /\ p.mode # "text"
  <2>1. Turns(p) = m + 2
    BY <1>2, <1>5
  <2> QED
    BY <1>1, <1>5, <2>1
<1> QED
  BY <1>3, <1>4, <1>5

(* What is left to do gets less with each turn of the loop.                  *)
LEMMA RoundKeeps ==
  ASSUME Ground, NEW f \in 0..Len(text), NEW p \in Looping(f)
  PROVE  Round(p) \in Looping(f) /\ (p.going => Turns(Round(p)) < Turns(p)) /\ (~p.going => Round(p) = p)
<1>1. Kept(p, f) /\ p \in Parsers /\ (Plain /\ ~p.going => AtRest(p))
  BY DEF Looping, Kept
<1>2. p.going \in BOOLEAN /\ p.mode \in {"text", "matching", "params"} /\ Len(p.buffer) \in Nat
  BY <1>1, Buffers
<1> DEFINE q == Stage(p, "text", InText(p))
           r == Stage(q, "matching", Matching(q))
           s == Stage(r, "params", Parameters(r))
<1>3. Round(p) = s
  BY DEF Round
<1>4. CASE ~p.going
  <2>1. q = p /\ r = p /\ s = p
    BY <1>4 DEF Stage
  <2> QED
    BY <1>3, <1>4, <2>1
<1>5. CASE p.going
  <2>1. /\ Kept(q, f) /\ q.mode \in {"text", "matching", "params"}
        /\ \/ q.mode # "text" /\ q.going /\ Len(q.buffer) <= Len(p.buffer) /\ (p.mode # "text" => q = p)
           \/ q.mode = "text" /\ q.going = FALSE /\ (Plain => q.buffer = <<>>)
    <3>1. CASE p.mode = "text"
      <4>1. q = InText(p)
        BY <1>5, <3>1 DEF Stage
      <4> HIDE DEF q
      <4>2. /\ Kept(q, f)
            /\ \/ q.mode = "matching" /\ q.going = p.going /\ Len(q.buffer) <= Len(p.buffer)
               \/ q.mode = "text" /\ q.going = FALSE /\ (Plain => q.buffer = <<>>)
        BY <1>1, <3>1, <4>1, InTextKeeps
      <4> QED
        BY <1>5, <3>1, <4>2
    <3>2. CASE p.mode # "text"
      <4>1. q = p
        BY <3>2 DEF Stage
      <4> HIDE DEF q
      <4> QED
        BY <1>1, <1>2, <1>5, <3>2, <4>1
    <3> QED
      BY <3>1, <3>2
  <2>2. Len(q.buffer) \in Nat
    BY <2>1, Buffers
  <2>3. CASE q.mode = "text" /\ q.going = FALSE /\ (Plain => q.buffer = <<>>)
    <3>1. r = q /\ s = q
      BY <2>3 DEF Stage
    <3> HIDE DEF q, r, s
    <3>2. AtRest(q) \/ ~Plain
      BY <2>3 DEF AtRest
    <3>3. Turns(q) = 0 /\ Turns(p) > 0
      BY <1>2, <1>5, <2>2, <2>3, TurnsIs
    <3> QED
      BY <1>3, <1>5, <2>1, <3>1, <3>2, <3>3 DEF Looping, Kept
  <2>4. CASE q.mode # "text" /\ q.going /\ Len(q.buffer) <= Len(p.buffer) /\ (p.mode # "text" => q = p)
    <3>0. Len(q.buffer) + 1 <= Turns(p) /\ (p.mode # "text" => Len(q.buffer) + 2 <= Turns(p))
      <4> HIDE DEF q
      <4> QED
        <5>1. PICK a \in Nat, b \in Nat : a = Len(p.buffer) /\ b = Len(q.buffer) /\ b <= a
          BY <1>2, <2>2, <2>4
        <5>2. Turns(p) \in Nat /\ Turns(p) >= a + 1 /\ (p.mode # "text" => Turns(p) = a + 2)
          BY <1>2, <1>5, <5>1, TurnsIs
        <5>3. b + 1 <= Turns(p) /\ (p.mode # "text" => b + 2 <= Turns(p))
          BY <5>1, <5>2
        <5> QED
          BY <5>1, <5>3
    <3>1. /\ Kept(r, f) /\ r.mode \in {"text", "matching", "params"}
          /\ \/ r.mode = "text" /\ r.going /\ Len(r.buffer) < Len(q.buffer)
             \/ r.mode = "matching" /\ r.going = FALSE /\ FunctionEnd(r.buffer) = 0
             \/ r.mode = "params" /\ r.going /\ (Len(r.buffer) < Len(q.buffer) \/ (r = q /\ p.mode # "text"))
      <4>1. CASE q.mode = "matching"
        <5>1. r = Matching(q)
          BY <2>4, <4>1 DEF Stage
        <5> HIDE DEF q, r
        <5>2. /\ Kept(r, f)
              /\ \/ r.mode \in {"params", "text"} /\ r.going = q.going /\ Len(r.buffer) < Len(q.buffer)
                 \/ r.mode = "matching" /\ r.going = FALSE /\ FunctionEnd(r.buffer) = 0
          BY <2>1, <4>1, <5>1, MatchingKeeps
        <5> QED
          BY <2>4, <5>2
      <4>2. CASE q.mode = "params"
        <5>1. r = q
          BY <4>2 DEF Stage
        <5>2. p.mode # "text"
          <6>1. SUFFICES ASSUME p.mode = "text" PROVE FALSE
            OBVIOUS
          <6>2. q = InText(p)
            BY <1>5, <6>1 DEF Stage
          <6>3. q.mode \in {"matching", "text"}
            <7> HIDE DEF q
            <7> QED
              BY <1>1, <6>1, <6>2, InTextKeeps
          <6> QED
            BY <4>2, <6>3
        <5> HIDE DEF q, r
        <5> QED
          BY <2>1, <2>4, <4>2, <5>1, <5>2
      <4> QED
        BY <2>1, <2>4, <4>1, <4>2
    <3>2. Len(r.buffer) \in Nat
      BY <3>1, Buffers
    <3>3. CASE r.mode = "text" /\ r.going /\ Len(r.buffer) < Len(q.buffer)
      <4>1. s = r
        BY <3>3 DEF Stage
      <4> HIDE DEF q, r, s
      <4>2. Turns(s) = Len(r.buffer) + 1
        BY <3>3, <4>1 DEF Turns
      <4>3. Turns(s) < Turns(p)
        <5>1. PICK a \in Nat, b \in Nat : a = Len(r.buffer) /\ b = Len(q.buffer) /\ a < b
          BY <2>2, <3>2, <3>3
        <5>2. Turns(p) \in Nat
          BY <1>2, <1>5, TurnsIs
        <5>3. b + 1 <= Turns(p) /\ Turns(s) = a + 1
          BY <3>0, <4>2, <5>1
        <5>4. a + 1 < b + 1
          BY <5>1
        <5> QED
          BY <5>1, <5>2, <5>3, <5>4
      <4> QED
        BY <1>3, <1>5, <3>1, <3>3, <4>1, <4>3 DEF Looping, Kept
    <3>4. CASE r.mode = "matching" /\ r.going = FALSE /\ FunctionEnd(r.buffer) = 0
      <4>1. s = r
        BY <3>4 DEF Stage
      <4> HIDE DEF q, r, s
      <4>2. AtRest(r)
        BY <3>4 DEF AtRest
      <4>3. Turns(s) = 0 /\ Turns(p) > 0
        BY <1>2, <1>5, <3>2, <3>4, <4>1, TurnsIs
      <4> QED
        BY <1>3, <1>5, <3>1, <4>1, <4>2, <4>3 DEF Looping, Kept
    <3>5. CASE r.mode = "params" /\ r.going /\ (Len(r.buffer) < Len(q.buffer) \/ (r = q /\ p.mode # "text"))
      <4>1. s = Parameters(r)
        BY <3>5 DEF Stage
      <4> HIDE DEF q, r, s
      <4>2. r \in Params(f)
        BY <3>1, <3>5 DEF Params, Kept
      <4>3. /\ Kept(s, f)
            /\ \/ s.mode = "text" /\ s.going /\ Len(s.buffer) <= Len(r.buffer)
               \/ s.mode = "params" /\ s.going = FALSE /\ AtRest(s)
        BY <4>1, <4>2, ParametersKeeps
      <4>4. Turns(p) \in Nat /\ Turns(p) > 0 /\ Len(s.buffer) \in Nat
        BY <1>2, <1>5, <4>3, Buffers, TurnsIs
      <4>5. CASE s.mode = "text" /\ s.going /\ Len(s.buffer) <= Len(r.buffer)
        <5>1. PICK a \in Nat, b \in Nat, c \in Nat : a = Len(r.buffer) /\ b = Len(q.buffer) /\ c = Len(s.buffer)
          BY <2>2, <3>2, <4>4
        <5>2. Turns(s) = c + 1 /\ c <= a
          BY <4>5, <5>1 DEF Turns
        <5>3. a + 2 <= Turns(p)
          <6>1. CASE Len(r.buffer) < Len(q.buffer)
            <7>1. a < b /\ b + 1 <= Turns(p)
              BY <3>0, <5>1, <6>1
            <7> QED
              BY <4>4, <7>1
          <6>2. CASE r = q /\ p.mode # "text"
            BY <3>0, <5>1, <6>2
          <6> QED
            BY <3>5, <6>1, <6>2
        <5>4. Turns(s) < Turns(p)
          BY <4>4, <5>2, <5>3
        <5> QED
          BY <1>3, <1>5, <4>3, <4>5, <5>4 DEF Looping, Kept
      <4>6. CASE s.mode = "params" /\ s.going = FALSE /\ AtRest(s)
        <5>1. Turns(s) = 0
          BY <4>6 DEF Turns
        <5> QED
          BY <1>3, <1>5, <4>3, <4>4, <4>6, <5>1 DEF Looping, Kept
      <4> QED
        BY <4>3, <4>5, <4>6
    <3> QED
      BY <3>1, <3>3, <3>4, <3>5
  <2> QED
    BY <2>1, <2>3, <2>4
<1> QED
  BY <1>2, <1>4, <1>5

-----------------------------------------------------------------------------

(* The loop of feed is a function from the number of turns.                  *)
LEMMA RoundLoop ==
  ASSUME Ground, NEW f \in 0..Len(text), NEW p \in Looping(f)
  PROVE  \E g : /\ \A i \in 0..2 * Len(text) + 2 : g[i] \in Looping(f)
                /\ g[0] = p /\ \A i \in 1..2 * Len(text) + 2 : g[i] = Round(g[i - 1])
                /\ Loop(p) = g[2 * Len(text) + 2]
<1> DEFINE n == 2 * Len(text) + 2
           IsLoop(g) == g = [i \in 0..n |-> IF i = 0 THEN p ELSE Round(g[i - 1])]
           loop == CHOOSE g : IsLoop(g)
<1>1. n \in Nat
  BY DEF Ground
<1>2. Loop(p) = loop[n]
  BY DEF Loop
<1> HIDE DEF n
<1>3. \E g : IsLoop(g)
  <2> DEFINE st == [i \in Nat |-> [v \in Looping(f) |-> Round(v)]]
  <2>1. \A v \in Looping(f) : Round(v) \in Looping(f)
    BY RoundKeeps
  <2>2. st \in [Nat -> [Looping(f) -> Looping(f)]]
    BY <2>1
  <2>3. PICK g : Iterates(g, Looping(f), p, st)
    <3> HIDE DEF st
    <3> QED
      BY <2>2, Iteration
  <2>4. g \in [Nat -> Looping(f)] /\ g[0] = p /\ \A i \in Nat : g[i + 1] = st[i][g[i]]
    BY <2>3 DEF Iterates
  <2>5. \A i \in Nat : g[i + 1] = Round(g[i])
    BY <2>4
  <2> HIDE DEF st
  <2>6. \A i \in 1..n : g[i] = Round(g[i - 1])
    <3>1. TAKE i \in 1..n
    <3>2. PICK k \in Nat : k = i - 1 /\ k + 1 = i
      BY <1>1
    <3>3. g[k + 1] = Round(g[k])
      BY <2>5
    <3> QED
      BY <3>2, <3>3
  <2> DEFINE h == [i \in 0..n |-> g[i]]
  <2>7. ASSUME NEW i \in 0..n
        PROVE  h[i] = IF i = 0 THEN p ELSE Round(h[i - 1])
    <3>1. CASE i = 0
      BY <2>4, <3>1
    <3>2. CASE i # 0
      <4>1. i \in 1..n /\ i - 1 \in 0..n
        BY <1>1, <3>2
      <4> QED
        BY <2>6, <3>2, <4>1
    <3> QED
      BY <3>1, <3>2
  <2>8. h = [i \in 0..n |-> h[i]]
    OBVIOUS
  <2> HIDE DEF h
  <2>9. h = [i \in 0..n |-> IF i = 0 THEN p ELSE Round(h[i - 1])]
    BY <2>7, <2>8
  <2> QED
    BY <2>9
<1>4. IsLoop(loop)
  <2> HIDE DEF IsLoop
  <2> QED
    BY <1>3
<1> HIDE DEF loop
<1>5. \A i \in 0..n : loop[i] = IF i = 0 THEN p ELSE Round(loop[i - 1])
  BY <1>4
<1>6. loop[0] = p
  <2>1. 0 \in 0..n
    BY <1>1
  <2> QED
    BY <1>5, <2>1
<1>7. ASSUME NEW i \in 1..n
      PROVE  loop[i] = Round(loop[i - 1])
  <2>1. i \in 0..n /\ i # 0
    BY <1>1
  <2> QED
    BY <1>5, <2>1
<1>8. \A i \in 0..n : loop[i] \in Looping(f)
  <2> DEFINE S == {i \in Nat : i \in 0..n => loop[i] \in Looping(f)}
  <2>1. 0 \in S
    BY <1>6
  <2>2. ASSUME NEW i \in Nat, i \in S
        PROVE  i + 1 \in S
    <3>1. SUFFICES ASSUME i + 1 \in 0..n PROVE loop[i + 1] \in Looping(f)
      OBVIOUS
    <3>2. i \in 0..n /\ i + 1 \in 1..n /\ i + 1 - 1 = i
      BY <1>1, <3>1
    <3>3. loop[i] \in Looping(f) /\ loop[i + 1] = Round(loop[i])
      BY <1>7, <2>2, <3>2
    <3> QED
      BY <3>3, RoundKeeps
  <2>3. \A i \in Nat : i \in S
    <3> HIDE DEF S
    <3> QED
      BY <2>1, <2>2, Induction
  <2> QED
    BY <1>1, <2>3
<1> QED
  BY <1>2, <1>6, <1>7, <1>8 DEF n

(* It comes to an end, where the parser can only wait.                       *)
LEMMA LoopKeeps ==
  ASSUME Ground, NEW f \in 0..Len(text), NEW p, Kept(p, f), p.going
  PROVE  Kept(Loop(p), f) /\ (Plain => AtRest(Loop(p)))
<1>1. p \in Looping(f) /\ Len(p.buffer) \in Nat /\ Len(text) \in Nat /\ f \in Nat
  BY Buffers DEF Looping, Kept, Ground
<1>2. PICK n \in Nat : n = 2 * Len(text) + 2
  BY <1>1
<1>3. PICK g : /\ \A i \in 0..n : g[i] \in Looping(f)
               /\ g[0] = p /\ \A i \in 1..n : g[i] = Round(g[i - 1])
               /\ Loop(p) = g[n]
  BY <1>1, <1>2, RoundLoop
<1>4. Loop(p) \in Looping(f)
  BY <1>3
<1> DEFINE Good(i) == ~g[i].going \/ Turns(g[i]) + i <= Turns(p)
           S == {i \in Nat : i \in 0..n => Good(i)}
<1>5. 0 \in S
  <2>1. Turns(p) \in Nat
    BY <1>1, TurnsIs
  <2>2. Turns(g[0]) + 0 <= Turns(p)
    BY <1>3, <2>1
  <2> QED
    BY <2>2
<1>6. ASSUME NEW i \in Nat, i \in S
      PROVE  i + 1 \in S
  <2>1. SUFFICES ASSUME i + 1 \in 0..n PROVE Good(i + 1)
    <3> HIDE DEF Good
    <3> QED
      OBVIOUS
  <2>2. i \in 0..n /\ i + 1 \in 1..n /\ i + 1 - 1 = i /\ Good(i)
    BY <1>2, <1>6, <2>1
  <2>3. PICK q \in Looping(f) : q = g[i]
    BY <1>3, <2>2
  <2>4. g[i + 1] = Round(q)
    BY <1>3, <2>2, <2>3
  <2>5. (q.going => Turns(Round(q)) < Turns(q)) /\ (~q.going => Round(q) = q) /\ Round(q) \in Looping(f)
    BY RoundKeeps
  <2>6. CASE ~q.going
    BY <2>4, <2>5, <2>6
  <2>7. CASE q.going
    <3>1. Len(q.buffer) \in Nat /\ Len(Round(q).buffer) \in Nat
      BY <2>5 DEF Looping, Parsers
    <3>2. PICK a \in Nat, b \in Nat, m \in Nat : a = Turns(q) /\ b = Turns(Round(q)) /\ m = Turns(p)
      BY <1>1, <3>1, TurnsIs
    <3>3. b < a
      BY <2>5, <2>7, <3>2
    <3>4. a + i <= m
      BY <2>2, <2>3, <2>7, <3>2
    <3>5. b + (i + 1) <= m
      BY <3>3, <3>4
    <3> QED
      BY <2>4, <3>2, <3>5
  <2> QED
    BY <2>6, <2>7
<1>7. \A i \in Nat : i \in S
  <2> HIDE DEF S
  <2> QED
    BY <1>5, <1>6, Induction
<1>8. Good(n)
  <2>1. n \in S /\ n \in 0..n
    BY <1>7
  <2> QED
    BY <2>1
<1>9. ASSUME Plain
      PROVE  AtRest(Loop(p))
  <2>1. PICK q \in Looping(f) : q = g[n] /\ q = Loop(p)
    BY <1>3, <1>4
  <2>2. ~q.going
    <3>1. SUFFICES ASSUME q.going PROVE FALSE
      OBVIOUS
    <3>2. Turns(q) \in Nat /\ Turns(q) > 0
      <4>1. Len(q.buffer) \in Nat
        BY DEF Looping, Parsers
      <4> QED
        BY <3>1, <4>1, TurnsIs
    <3>3. Turns(q) + n <= Turns(p)
      BY <1>8, <2>1, <3>1
    <3>4. Turns(p) \in Nat /\ Turns(p) <= Len(p.buffer) + 2
      BY <1>1, TurnsIs
    <3>5. Len(p.buffer) <= f
      <4>1. Cut(p, f) \in Nat /\ Cut(p, f) + Len(p.buffer) = f
        BY <1>9, Positions
      <4> QED
        BY <1>1, <4>1
    <3>6. PICK m \in Nat, l \in Nat : m = Len(p.buffer) /\ l = Len(text) /\ m <= l
      BY <1>1, <3>5
    <3>7. Turns(q) + (2 * l + 2) <= l + 2
      BY <1>2, <3>2, <3>3, <3>4, <3>6
    <3> QED
      BY <3>2, <3>6, <3>7
  <2> QED
    BY <1>9, <2>1, <2>2 DEF Looping
<1> QED
  BY <1>4, <1>9 DEF Looping, Kept

-----------------------------------------------------------------------------

(* Less in the buffer leaves the order as it is.                             *)
LEMMA LessInBuffer ==
  ASSUME NEW f \in Nat, NEW p \in Parsers, Ordered(p), Bounded(p, f), NEW w \in Seq(Nat), Increasing(w),
         ToSet(w) \subseteq ToSet(p.buffer)
  PROVE  LET q == [p EXCEPT !.buffer = w] IN q \in Parsers /\ Ordered(q) /\ Bounded(q, f)
<1>1. PICK q : q = [p EXCEPT !.buffer = w]
  OBVIOUS
<1>2. /\ q \in Parsers /\ q.buffer = w /\ q.out = p.out /\ q.args = p.args /\ q.calls = p.calls /\ q.mode = p.mode
  BY <1>1 DEF Parsers
<1>3. GivenBy(q) = GivenBy(p) /\ Handed(q) = Handed(p)
  BY <1>2 DEF GivenBy, Handed
<1>4. ASSUME NEW h \in Handed(p), NEW i \in DOMAIN w
      PROVE  h < w[i]
  <2>1. w[i] \in ToSet(w)
    BY DEF ToSet
  <2>2. PICK j \in DOMAIN p.buffer : w[i] = p.buffer[j]
    BY <2>1 DEF ToSet
  <2> QED
    BY <2>2 DEF Ordered
<1>5. Ordered(q)
  BY <1>2, <1>3, <1>4 DEF Ordered
<1>6. Bounded(q, f)
  BY <1>2, <1>3 DEF Bounded
<1> QED
  BY <1>1, <1>2, <1>5, <1>6

(* What stays of a sequence without some of it stays in order.               *)
LEMMA WithoutOrdered ==
  ASSUME NEW b \in Seq(Nat), Increasing(b), NEW S
  PROVE  Without(b, S) \in Seq(Nat) /\ Increasing(Without(b, S)) /\ ToSet(Without(b, S)) \subseteq ToSet(b)
<1>1. PICK w : w = Without(b, S)
  OBVIOUS
<1>2. w \in Seq(Nat) /\ \A i \in DOMAIN w : \E j \in DOMAIN b : w[i] = b[j]
  BY <1>1, WithoutIsSeq
<1>3. \A i, j \in DOMAIN w : i < j => \E k, m \in DOMAIN b : k < m /\ w[i] = b[k] /\ w[j] = b[m]
  BY <1>1, WithoutKeeps
<1>4. Increasing(w)
  BY <1>3 DEF Increasing
<1>5. ToSet(w) \subseteq ToSet(b)
  BY <1>2 DEF ToSet
<1> QED
  BY <1>1, <1>2, <1>4, <1>5

(* Control tokens go, and in a plain text there are none.                    *)
LEMMA StripKeeps ==
  ASSUME Ground, NEW f \in 0..Len(text), NEW p, Kept(p, f)
  PROVE  Kept([p EXCEPT !.buffer = Strip(@)], f) /\ (Plain => [p EXCEPT !.buffer = Strip(@)] = p)
<1>1. /\ p \in Parsers /\ p.buffer \in Seq(Nat) /\ ParserInv(Told(p), f) /\ shown \in Seq(Nat) /\ tools \in Seq(SUBSET Nat)
      /\ f \in Nat /\ text \in Seq(Tokens)
  BY Buffers DEF Kept, Ground
<1>2. PICK t : t = Told(p)
  OBVIOUS
<1>3. t \in Parsers /\ t.buffer = p.buffer /\ Ordered(t) /\ Bounded(t, f)
  BY <1>1, <1>2, ToldParts DEF ParserInv
<1>4. PICK w : w = Strip(p.buffer)
  OBVIOUS
<1>5. w \in Seq(Nat) /\ Increasing(w) /\ ToSet(w) \subseteq ToSet(p.buffer)
  <2>1. Increasing(p.buffer)
    BY <1>3 DEF Ordered
  <2> QED
    BY <1>1, <1>4, <2>1, WithoutOrdered DEF Strip
<1>6. PICK q : q = [p EXCEPT !.buffer = w] /\ q = [p EXCEPT !.buffer = Strip(@)]
  BY <1>4
<1>7. q \in Parsers /\ Told(q) = [t EXCEPT !.buffer = w]
  <2>1. q \in Parsers
    BY <1>1, <1>5, <1>6 DEF Parsers
  <2>2. Told(q) = [t EXCEPT !.buffer = w]
    BY <1>1, <1>2, <1>6 DEF Told, Parsers
  <2> QED
    BY <2>1, <2>2
<1>8. Ordered(Told(q)) /\ Bounded(Told(q), f)
  BY <1>1, <1>3, <1>5, <1>7, LessInBuffer
<1>9. ASSUME Plain
      PROVE  q = p
  <2>1. \A i \in DOMAIN p.buffer : text[p.buffer[i]] # "<|"
    <3>1. TAKE i \in DOMAIN p.buffer
    <3>2. i \in 1..Len(p.buffer)
      BY <1>1
    <3>3. PICK k \in 1..Len(text) : k = p.buffer[i]
      BY <1>9, <3>2, Positions
    <3> QED
      BY <1>9, <3>3 DEF Plain
  <2>2. ASSUME NEW k \in InControl(p.buffer)
        PROVE  FALSE
    <3>1. k \in DOMAIN p.buffer /\ \E i \in 1..k : text[p.buffer[i]] = "<|"
      BY DEF InControl
    <3>2. PICK i \in 1..k : text[p.buffer[i]] = "<|"
      BY <3>1
    <3>3. i \in DOMAIN p.buffer
      BY <1>1, <3>1
    <3> QED
      BY <2>1, <3>2, <3>3
  <2>3. {p.buffer[i] : i \in InControl(p.buffer)} = {}
    BY <2>2
  <2>4. Without(p.buffer, {}) = p.buffer
    BY <1>1, WithoutNothing
  <2>5. w = p.buffer
    BY <1>4, <2>3, <2>4 DEF Strip
  <2> QED
    BY <1>1, <1>6, <2>5 DEF Parsers
<1>10. /\ Plain => ParserInv(Told(q), f)
       /\ ~Plain => ParserInv(Told(q), f)
  <2>1. Neat => Plain
    BY <1>1, NeatIsPlain
  <2> QED
    BY <1>1, <1>8, <1>9, <2>1 DEF ParserInv
<1> QED
  BY <1>6, <1>7, <1>9, <1>10 DEF Kept

-----------------------------------------------------------------------------

(* What is in a sequence of calls.                                           *)
Joined(c) == UNION {c[i] : i \in DOMAIN c}

(* Calls that are added to those that were handed out.                       *)
LEMMA CallsAdded ==
  ASSUME NEW q \in Seq(SUBSET Nat), NEW c \in Seq(SUBSET Nat)
  PROVE  /\ q \o c \in Seq(SUBSET Nat) /\ Len(q \o c) = Len(q) + Len(c)
         /\ \A i \in DOMAIN (q \o c) : (i \in DOMAIN q /\ (q \o c)[i] = q[i]) \/ (i - Len(q) \in DOMAIN c /\ (q \o c)[i] = c[i - Len(q)])
         /\ Joined(q \o c) = Joined(q) \cup Joined(c)
<1>1. PICK w : w = q \o c
  OBVIOUS
<1>2. /\ w \in Seq(SUBSET Nat) /\ Len(w) = Len(q) + Len(c) /\ Len(q) \in Nat /\ Len(c) \in Nat
      /\ \A i \in 1..Len(q) + Len(c) : w[i] = IF i <= Len(q) THEN q[i] ELSE c[i - Len(q)]
  BY <1>1, ConcatProperties
<1>3. DOMAIN w = 1..Len(q) + Len(c) /\ DOMAIN q = 1..Len(q) /\ DOMAIN c = 1..Len(c)
  BY <1>2
<1>4. PICK a \in Nat, b \in Nat : a = Len(q) /\ b = Len(c)
  BY <1>2
<1>5. ASSUME NEW i \in 1..a + b
      PROVE  (i \in 1..a /\ w[i] = q[i]) \/ (i - a \in 1..b /\ w[i] = c[i - a])
  <2>1. w[i] = IF i <= a THEN q[i] ELSE c[i - a]
    BY <1>2, <1>4
  <2>2. CASE i <= a
    BY <2>1, <2>2
  <2>3. CASE ~(i <= a)
    <3>1. i - a \in 1..b
      BY <2>3
    <3> QED
      BY <2>1, <2>3, <3>1
  <2> QED
    BY <2>2, <2>3
<1>6. Joined(w) = Joined(q) \cup Joined(c)
  <2>1. ASSUME NEW i \in 1..a
        PROVE  i \in 1..a + b /\ w[i] = q[i]
    <3>1. i \in 1..a + b /\ i <= a
      OBVIOUS
    <3>2. i \in 1..Len(q) + Len(c) /\ i <= Len(q)
      BY <1>4, <3>1
    <3> QED
      BY <1>2, <3>1, <3>2
  <2>2. ASSUME NEW i \in 1..b
        PROVE  a + i \in 1..a + b /\ w[a + i] = c[i]
    <3>1. PICK j \in 1..a + b : j = a + i /\ ~(j <= a) /\ j - a = i
      OBVIOUS
    <3>2. j \in 1..Len(q) + Len(c) /\ ~(j <= Len(q)) /\ j - Len(q) = i
      BY <1>4, <3>1
    <3>3. w[j] = c[j - Len(q)]
      BY <1>2, <3>2
    <3> QED
      BY <3>1, <3>2, <3>3
  <2>3. ASSUME NEW x \in Joined(w)
        PROVE  x \in Joined(q) \cup Joined(c)
    <3>1. PICK i \in 1..a + b : x \in w[i]
      BY <1>3, <1>4 DEF Joined
    <3>2. CASE i \in 1..a /\ w[i] = q[i]
      BY <1>3, <1>4, <3>1, <3>2 DEF Joined
    <3>3. CASE i - a \in 1..b /\ w[i] = c[i - a]
      BY <1>3, <1>4, <3>1, <3>3 DEF Joined
    <3> QED
      BY <1>5, <3>2, <3>3
  <2>4. ASSUME NEW x \in Joined(q)
        PROVE  x \in Joined(w)
    <3>1. PICK i \in 1..a : x \in q[i]
      BY <1>3, <1>4 DEF Joined
    <3> QED
      BY <1>3, <1>4, <2>1, <3>1 DEF Joined
  <2>5. ASSUME NEW x \in Joined(c)
        PROVE  x \in Joined(w)
    <3>1. PICK i \in 1..b : x \in c[i]
      BY <1>3, <1>4 DEF Joined
    <3> QED
      BY <1>3, <1>4, <2>2, <3>1 DEF Joined
  <2> QED
    BY <2>3, <2>4, <2>5
<1>7. DOMAIN w = 1..a + b /\ DOMAIN q = 1..a /\ DOMAIN c = 1..b
  BY <1>3, <1>4
<1>8. \A i \in DOMAIN w : (i \in DOMAIN q /\ w[i] = q[i]) \/ (i - Len(q) \in DOMAIN c /\ w[i] = c[i - Len(q)])
  BY <1>4, <1>5, <1>7
<1> QED
  BY <1>1, <1>2, <1>6, <1>8

(* Inputs of web calls are new, and each is one call.                        *)
LEMMA WebKeeps ==
  ASSUME Ground, NEW f \in 0..Len(text), NEW p, Kept(p, f), p.calls = <<>>
  PROVE  Kept(WebCalls(p), f) /\ WebCalls(p).going = p.going /\ (Plain => WebCalls(p) = p)
<1>1. /\ p \in Parsers /\ p.buffer \in Seq(Nat) /\ ParserInv(Told(p), f) /\ shown \in Seq(Nat) /\ tools \in Seq(SUBSET Nat)
      /\ f \in Nat /\ text \in Seq(Tokens)
  BY Buffers DEF Kept, Ground
<1> DEFINE S == {p.buffer[i] : i \in DOMAIN p.buffer \ Inputs(p.buffer)}
<1>2. PICK found : found = Without(p.buffer, S)
  OBVIOUS
<1>3. PICK t : t = Told(p)
  OBVIOUS
<1>4. /\ t \in Parsers /\ t.buffer = p.buffer /\ t.mode = p.mode /\ t.args = p.args /\ Ordered(t) /\ Bounded(t, f)
      /\ t.out = shown \o p.out
  BY <1>1, <1>3, ToldParts DEF ParserInv
<1>5. t.calls = tools
  <2>1. t.calls = tools \o <<>>
    BY <1>1, <1>3, ToldParts
  <2> QED
    BY <1>1, <2>1, ConcatEmptySeq
<1>6. found \in Seq(Nat) /\ ToSet(found) \subseteq ToSet(p.buffer)
  <2>1. Increasing(p.buffer)
    BY <1>4 DEF Ordered
  <2> QED
    BY <1>1, <1>2, <2>1, WithoutOrdered
<1>7. Increasing(found)
  <2>1. Increasing(p.buffer)
    BY <1>4 DEF Ordered
  <2> QED
    BY <1>1, <1>2, <2>1, WithoutOrdered
<1>8. CASE found = <<>>
  <2>1. WebCalls(p) = p
    BY <1>2, <1>8 DEF WebCalls
  <2> QED
    BY <2>1
<1>9. CASE found # <<>>
  <2> DEFINE c == [i \in DOMAIN found |-> {found[i]}]
  <2>1. WebCalls(p) = [p EXCEPT !.buffer = <<>>, !.calls = c]
    BY <1>2, <1>9 DEF WebCalls
  <2>2. c \in Seq(SUBSET Nat) /\ DOMAIN c = DOMAIN found /\ \A i \in DOMAIN found : c[i] = {found[i]}
    <3>1. Len(found) \in Nat /\ DOMAIN found = 1..Len(found) /\ \A i \in 1..Len(found) : found[i] \in Nat
      BY <1>6
    <3>2. c = [i \in 1..Len(found) |-> {found[i]}]
      BY <3>1
    <3>3. \A i \in 1..Len(found) : {found[i]} \in SUBSET Nat
      BY <3>1
    <3>4. c \in Seq(SUBSET Nat)
      BY <3>1, <3>2, <3>3, IsASeq
    <3> QED
      BY <3>4
  <2> HIDE DEF c
  <2>3. PICK q : q = [p EXCEPT !.buffer = <<>>, !.calls = c]
    OBVIOUS
  <2>4. q \in Parsers /\ q.buffer = <<>> /\ q.mode = p.mode /\ q.args = p.args /\ q.out = p.out /\ q.calls = c /\ q.going = p.going
    <3>1. <<>> \in Seq(Nat)
      BY EmptySeq
    <3> QED
      BY <1>1, <2>2, <2>3, <3>1 DEF Parsers
  <2>5. PICK r : r = Told(q)
    OBVIOUS
  <2>6. /\ r \in Parsers /\ r.buffer = <<>> /\ r.mode = t.mode /\ r.args = t.args /\ r.out = t.out
        /\ r.calls = tools \o c
    BY <1>1, <1>4, <2>4, <2>5, ToldParts
  <2>7. /\ \A i \in DOMAIN r.calls : \/ i \in DOMAIN tools /\ r.calls[i] = tools[i]
                                     \/ i - Len(tools) \in DOMAIN c /\ r.calls[i] = c[i - Len(tools)]
        /\ GivenBy(r) = GivenBy(t) \cup Joined(c)
        /\ r.calls \in Seq(SUBSET Nat) /\ Len(r.calls) = Len(tools) + Len(c)
    <3>1. PICK z \in Seq(SUBSET Nat), y \in Seq(SUBSET Nat) : z = tools /\ y = c
      BY <1>1, <2>2
    <3>2. z \o y \in Seq(SUBSET Nat) /\ Len(z \o y) = Len(z) + Len(y)
      BY CallsAdded
    <3>3. \A i \in DOMAIN (z \o y) : (i \in DOMAIN z /\ (z \o y)[i] = z[i]) \/ (i - Len(z) \in DOMAIN y /\ (z \o y)[i] = y[i - Len(z)])
      BY CallsAdded
    <3>4. Joined(z \o y) = Joined(z) \cup Joined(y)
      BY CallsAdded
    <3>5. r.calls = z \o y /\ t.calls = z
      BY <1>5, <2>6, <3>1
    <3>6. GivenBy(r) = Joined(r.calls) /\ GivenBy(t) = Joined(t.calls)
      BY DEF GivenBy, Joined
    <3>7. GivenBy(r) = GivenBy(t) \cup Joined(y)
      BY <3>4, <3>5, <3>6
    <3> QED
      BY <3>1, <3>2, <3>3, <3>5, <3>7
  <2>8. Joined(c) = ToSet(found)
    BY <2>2 DEF ToSet, Joined
  <2>9. \A x \in ToSet(found) : x \notin Handed(t) /\ x \in Nat
    <3>1. TAKE x \in ToSet(found)
    <3>2. PICK j \in DOMAIN p.buffer : x = p.buffer[j]
      BY <1>6 DEF ToSet
    <3>3. p.buffer[j] \in Nat
      BY <1>1
    <3>4. \A h \in Handed(t) : h < p.buffer[j]
      BY <1>4 DEF Ordered
    <3>5. ~(p.buffer[j] < p.buffer[j])
      BY <3>3
    <3> QED
      BY <3>2, <3>3, <3>4, <3>5
  <2>10. \A i \in DOMAIN tools : tools[i] \subseteq GivenBy(t)
    BY <1>5 DEF GivenBy
  <2>11. \A i, j \in DOMAIN r.calls : i # j => r.calls[i] \cap r.calls[j] = {}
    <3>1. TAKE i \in DOMAIN r.calls, j \in DOMAIN r.calls
    <3>2. HAVE i # j
    <3>3. i \in Int /\ j \in Int /\ Len(tools) \in Int
      BY <1>1, <2>7
    <3>4. CASE i \in DOMAIN tools /\ r.calls[i] = tools[i] /\ j \in DOMAIN tools /\ r.calls[j] = tools[j]
      BY <1>4, <1>5, <3>2, <3>4 DEF Ordered
    <3>5. \A k \in DOMAIN c : c[k] \cap GivenBy(t) = {}
      <4>1. TAKE k \in DOMAIN c
      <4>2. c[k] \subseteq ToSet(found)
        BY <2>2 DEF ToSet
      <4> QED
        BY <2>9, <4>2 DEF Handed
    <3>6. CASE i \in DOMAIN tools /\ r.calls[i] = tools[i] /\ j - Len(tools) \in DOMAIN c /\ r.calls[j] = c[j - Len(tools)]
      BY <2>10, <3>5, <3>6
    <3>7. CASE j \in DOMAIN tools /\ r.calls[j] = tools[j] /\ i - Len(tools) \in DOMAIN c /\ r.calls[i] = c[i - Len(tools)]
      BY <2>10, <3>5, <3>7
    <3>8. CASE i - Len(tools) \in DOMAIN c /\ r.calls[i] = c[i - Len(tools)] /\ j - Len(tools) \in DOMAIN c /\ r.calls[j] = c[j - Len(tools)]
      <4>1. PICK k \in DOMAIN found, m \in DOMAIN found : k = i - Len(tools) /\ m = j - Len(tools)
        BY <2>2, <3>8
      <4>2. k # m /\ k \in Int /\ m \in Int
        BY <3>2, <3>3, <4>1
      <4>3. k < m \/ m < k
        BY <4>2
      <4>4. found[k] \in Nat /\ found[m] \in Nat
        BY <1>6
      <4>5. found[k] # found[m]
        <5>1. found[k] < found[m] \/ found[m] < found[k]
          BY <1>7, <4>3 DEF Increasing
        <5> QED
          BY <4>4, <5>1
      <4>6. r.calls[i] = {found[k]} /\ r.calls[j] = {found[m]}
        BY <2>2, <3>8, <4>1
      <4> QED
        BY <4>5, <4>6
    <3> QED
      BY <2>7, <3>4, <3>6, <3>7, <3>8
  <2>12. GivenBy(r) = GivenBy(t) \cup ToSet(found) /\ Handed(r) = Handed(t) \cup ToSet(found)
    BY <2>6, <2>7, <2>8 DEF Handed
  <2>13. /\ r.mode = "params" => r.args \cap GivenBy(r) = {}
         /\ ToSet(r.out) \cap (r.args \cup GivenBy(r)) = {}
    <3>1. /\ t.mode = "params" => t.args \cap GivenBy(t) = {}
          /\ ToSet(t.out) \cap (t.args \cup GivenBy(t)) = {}
      BY <1>4 DEF Ordered
    <3>2. ToSet(found) \cap (ToSet(t.out) \cup t.args \cup GivenBy(t)) = {}
      BY <2>9 DEF Handed
    <3> QED
      BY <2>6, <2>12, <3>1, <3>2
  <2>14. Increasing(r.buffer) /\ Increasing(r.out) /\ \A h \in Handed(r), i \in DOMAIN r.buffer : h < r.buffer[i]
    <3>1. DOMAIN r.buffer = {}
      BY <2>6
    <3> QED
      BY <1>4, <2>6, <3>1 DEF Increasing, Ordered
  <2>15. Ordered(r)
    BY <2>11, <2>13, <2>14 DEF Ordered
  <2>16. Bounded(r, f)
    <3>1. ToSet(r.buffer) = {}
      BY <2>6 DEF ToSet
    <3> QED
      BY <1>4, <1>6, <2>12, <3>1 DEF Bounded
  <2>17. ~Plain
    <3>1. SUFFICES ASSUME Plain PROVE FALSE
      OBVIOUS
    <3>2. 1 \in DOMAIN found
      BY <1>6, <1>9, EmptySeq
    <3>3. found[1] \notin S /\ \E j \in DOMAIN p.buffer : found[1] = p.buffer[j]
      <4>1. \A i \in DOMAIN Without(p.buffer, S) :
               Without(p.buffer, S)[i] \notin S /\ \E j \in DOMAIN p.buffer : Without(p.buffer, S)[i] = p.buffer[j]
        <5> HIDE DEF S
        <5> QED
          BY <1>1, WithoutIsSeq
      <4> HIDE DEF S
      <4> QED
        BY <1>2, <3>2, <4>1
    <3>4. PICK j \in DOMAIN p.buffer : found[1] = p.buffer[j] /\ j \in Inputs(p.buffer)
      BY <3>3
    <3>5. text[p.buffer[j]] = "json" /\ \E i \in 1..j - 1 : text[p.buffer[i]] = "web"
      BY <3>4 DEF Inputs
    <3>6. PICK i \in 1..j - 1 : text[p.buffer[i]] = "web"
      BY <3>5
    <3>7. i \in 1..Len(p.buffer) /\ j \in 1..Len(p.buffer)
      <4>1. PICK b \in Seq(Nat) : b = p.buffer
        BY <1>1
      <4>2. PICK n \in Nat : n = Len(b)
        BY <4>1
      <4>3. j \in 1..n
        <5>1. DOMAIN b = 1..n
          BY <4>1, <4>2
        <5> QED
          BY <4>1, <5>1
      <4>4. i \in 1..n
        BY <4>2, <4>3
      <4> QED
        BY <4>1, <4>2, <4>3, <4>4
    <3>8. PICK k \in 1..Len(text), m \in 1..Len(text) : k = p.buffer[i] /\ m = p.buffer[j]
      <4>1. \A x \in 1..Len(p.buffer) : p.buffer[x] \in 1..Len(text)
        BY <3>1, Positions
      <4> QED
        BY <3>7, <4>1
    <3> QED
      BY <3>1, <3>5, <3>6, <3>8 DEF Plain
  <2>18. ~Neat
    BY <1>1, <2>17, NeatIsPlain
  <2>19. Kept(q, f)
    BY <2>4, <2>5, <2>15, <2>16, <2>17, <2>18 DEF Kept, ParserInv
  <2> QED
    BY <2>1, <2>3, <2>4, <2>17, <2>19
<1> QED
  BY <1>8, <1>9

-----------------------------------------------------------------------------

(* The positions in two buffers that are joined.                             *)
LEMMA PositionsJoined ==
  ASSUME NEW q \in Seq(Nat), NEW r \in Seq(Nat)
  PROVE  /\ q \o r \in Seq(Nat) /\ Len(q \o r) = Len(q) + Len(r)
         /\ \A i \in 1..Len(q) + Len(r) : (q \o r)[i] = IF i <= Len(q) THEN q[i] ELSE r[i - Len(q)]
BY ConcatProperties

(* What is fed comes after all that was fed before.                          *)
LEMMA FeedMore ==
  ASSUME Ground, NEW f \in Nat, NEW p, Kept(p, f), NEW n \in Nat, f + n <= Len(text)
  PROVE  Kept([p EXCEPT !.buffer = @ \o [i \in 1..n |-> f + i]], f + n)
<1>1. /\ p \in Parsers /\ p.buffer \in Seq(Nat) /\ ParserInv(Told(p), f) /\ shown \in Seq(Nat) /\ tools \in Seq(SUBSET Nat)
      /\ text \in Seq(Tokens) /\ f + n \in Nat
  BY Buffers DEF Kept, Ground
<1> DEFINE more == [i \in 1..n |-> f + i]
<1>2. more \in Seq(Nat) /\ Len(more) = n /\ DOMAIN more = 1..n /\ \A i \in 1..n : more[i] = f + i
  OBVIOUS
<1>3. PICK t : t = Told(p)
  OBVIOUS
<1>4. t \in Parsers /\ t.buffer = p.buffer /\ Ordered(t) /\ Bounded(t, f)
  BY <1>1, <1>3, ToldParts DEF ParserInv
<1> HIDE DEF more
<1>5. PICK w : w = p.buffer \o more
  OBVIOUS
<1>6. PICK m \in Nat : m = Len(p.buffer)
  BY <1>1
<1>7. /\ w \in Seq(Nat) /\ Len(w) = m + n /\ DOMAIN w = 1..m + n
      /\ \A i \in 1..m + n : w[i] = IF i <= m THEN p.buffer[i] ELSE more[i - m]
  <2>1. /\ w \in Seq(Nat) /\ Len(w) = Len(p.buffer) + Len(more)
        /\ \A i \in 1..Len(p.buffer) + Len(more) : w[i] = IF i <= Len(p.buffer) THEN p.buffer[i] ELSE more[i - Len(p.buffer)]
    BY <1>1, <1>2, <1>5, PositionsJoined
  <2>2. DOMAIN w = 1..Len(w)
    BY <2>1
  <2> QED
    BY <1>2, <1>6, <2>1, <2>2
<1>8. PICK q : q = [p EXCEPT !.buffer = w]
  OBVIOUS
<1>9. q \in Parsers /\ Told(q) = [t EXCEPT !.buffer = w]
  <2>1. q \in Parsers
    BY <1>1, <1>7, <1>8 DEF Parsers
  <2>2. Told(q) = [t EXCEPT !.buffer = w]
    BY <1>1, <1>3, <1>8 DEF Told, Parsers
  <2> QED
    BY <2>1, <2>2
<1>10. PICK r : r = Told(q)
  OBVIOUS
<1>11. /\ r \in Parsers /\ r.buffer = w /\ r.out = t.out /\ r.args = t.args /\ r.calls = t.calls /\ r.mode = t.mode
  BY <1>4, <1>7, <1>9, <1>10 DEF Parsers
<1>12. GivenBy(r) = GivenBy(t) /\ Handed(r) = Handed(t) /\ InCalls(r) = InCalls(t)
  BY <1>11 DEF GivenBy, Handed, InCalls
<1>13. Handed(t) \subseteq 1..f /\ \A i \in DOMAIN p.buffer : p.buffer[i] \in 1..f
  BY <1>4 DEF Bounded, ToSet
<1>14. Increasing(w)
  <2>1. Increasing(p.buffer)
    BY <1>4 DEF Ordered
  <2>2. Increasing(more)
    BY <1>2 DEF Increasing
  <2>3. \A i \in DOMAIN p.buffer, j \in DOMAIN more : p.buffer[i] < more[j]
    <3>1. TAKE i \in DOMAIN p.buffer, j \in DOMAIN more
    <3>2. p.buffer[i] \in 1..f /\ more[j] = f + j /\ j \in 1..n
      BY <1>2, <1>13
    <3> QED
      BY <3>2
  <2> QED
    BY <1>1, <1>2, <1>5, <2>1, <2>2, <2>3, IncreasingConcat
<1>15. ASSUME NEW i \in 1..m + n
       PROVE  (\A h \in Handed(t) : h < w[i]) /\ w[i] \in 1..f + n
  <2>1. CASE i <= m
    <3>1. i \in DOMAIN p.buffer /\ w[i] = p.buffer[i]
      <4>1. i \in 1..m
        BY <1>6, <1>15, <2>1
      <4>2. DOMAIN p.buffer = 1..m
        BY <1>1, <1>6
      <4>3. w[i] = p.buffer[i]
        BY <1>7, <1>15, <2>1
      <4> QED
        BY <4>1, <4>2, <4>3
    <3>2. \A h \in Handed(t) : h < p.buffer[i]
      BY <1>4, <3>1 DEF Ordered
    <3>3. p.buffer[i] \in 1..f
      BY <1>13, <3>1
    <3> QED
      BY <3>1, <3>2, <3>3
  <2>2. CASE ~(i <= m)
    <3>1. PICK j \in 1..n : j = i - m
      BY <2>2
    <3>2. w[i] = f + j
      BY <1>2, <1>7, <2>2, <3>1
    <3>3. \A h \in Handed(t) : h \in 1..f
      BY <1>13
    <3> QED
      BY <3>2, <3>3
  <2> QED
    BY <2>1, <2>2
<1>16. Ordered(r)
  BY <1>4, <1>7, <1>11, <1>12, <1>14, <1>15 DEF Ordered
<1>17. Bounded(r, f + n)
  <2>1. \A h \in Handed(t) : h \in 1..f + n
    <3>1. TAKE h \in Handed(t)
    <3>2. h \in 1..f
      BY <1>13
    <3> QED
      BY <3>2
  <2>2. \A x \in ToSet(w) : x \in 1..f + n
    BY <1>7, <1>15 DEF ToSet
  <2> QED
    BY <1>11, <1>12, <2>1, <2>2 DEF Bounded
<1>18. Cut(r, f + n) = Cut(t, f)
  <2>1. Len(r.buffer) = m + n /\ Len(t.buffer) = m
    BY <1>4, <1>6, <1>7, <1>11
  <2>2. Cut(r, f + n) = f + n - (m + n) /\ Cut(t, f) = f - m
    BY <2>1 DEF Cut
  <2> QED
    BY <2>2
<1>19. ASSUME Plain
       PROVE  Contiguous(r, f + n) /\ CallsInv(r, f + n)
  <2>1. Contiguous(t, f) /\ CallsInv(t, f)
    BY <1>1, <1>3, <1>19 DEF ParserInv
  <2>2. Contiguous(r, f + n)
    <3>1. m <= f /\ \A i \in 1..m : p.buffer[i] = Cut(t, f) + i
      BY <1>4, <1>6, <2>1 DEF Contiguous
    <3>2. PICK c \in Nat : c = Cut(t, f) /\ c + m = f
      <4>1. Cut(t, f) = f - m
        BY <1>4, <1>6 DEF Cut
      <4>2. f - m \in Nat /\ f - m + m = f
        BY <3>1
      <4> QED
        BY <4>1, <4>2
    <3>3. ASSUME NEW i \in 1..m + n
          PROVE  w[i] = c + i
      <4>1. CASE i <= m
        <5>1. i \in 1..m
          BY <4>1
        <5> QED
          BY <1>7, <3>1, <3>2, <4>1, <5>1
      <4>2. CASE ~(i <= m)
        <5>1. PICK j \in 1..n : j = i - m /\ f + j = c + i
          BY <3>2, <4>2
        <5>2. w[i] = f + j
          BY <1>2, <1>7, <4>2, <5>1
        <5> QED
          BY <5>1, <5>2
      <4> QED
        BY <4>1, <4>2
    <3>4. Len(r.buffer) = m + n /\ m + n <= f + n
      BY <1>7, <1>11, <3>1
    <3>5. \A i \in 1..Len(r.buffer) : r.buffer[i] = Cut(r, f + n) + i
      BY <1>11, <1>18, <3>2, <3>3, <3>4
    <3>6. Len(r.buffer) <= f + n
      BY <3>4
    <3> QED
      BY <3>5, <3>6 DEF Contiguous
  <2>3. Found(r, f + n) = Found(t, f)
    BY <1>11, <1>12, <1>18 DEF Found
  <2>4. CallsInv(r, f + n)
    BY <1>11, <1>12, <1>18, <2>1, <2>3 DEF CallsInv
  <2> QED
    BY <2>2, <2>4
<1>20. ASSUME Neat
       PROVE  TextInv(r, f + n)
  <2>1. TextInv(t, f)
    BY <1>1, <1>3, <1>20 DEF ParserInv
  <2>2. \A k \in 1..Cut(r, f + n) : text[k] = "x" => k \in ToSet(r.out) \cup InCalls(r)
    BY <1>11, <1>12, <1>18, <2>1 DEF TextInv
  <2>3. r.mode = "matching" => r.buffer # <<>> /\ text[r.buffer[1]] = "dot"
    <3>1. SUFFICES ASSUME r.mode = "matching" PROVE r.buffer # <<>> /\ text[r.buffer[1]] = "dot"
      OBVIOUS
    <3>2. p.buffer # <<>> /\ text[p.buffer[1]] = "dot"
      BY <1>4, <1>11, <2>1, <3>1 DEF TextInv
    <3>3. m # 0
      BY <1>1, <1>6, <3>2, EmptySeq
    <3>4. 1 \in 1..m + n /\ 1 <= m /\ m + n # 0
      BY <3>3
    <3>5. w[1] = p.buffer[1] /\ w # <<>>
      BY <1>7, <3>4
    <3> QED
      BY <1>11, <3>2, <3>5
  <2>4. r.mode = "params" /\ Cut(r, f + n) < Len(text) => text[Cut(r, f + n) + 1] \notin {"func", "/par"}
    BY <1>11, <1>18, <2>1 DEF TextInv
  <2> QED
    BY <2>2, <2>3, <2>4 DEF TextInv
<1>21. Kept(q, f + n)
  BY <1>9, <1>10, <1>16, <1>17, <1>19, <1>20 DEF Kept, ParserInv
<1>22. q = [p EXCEPT !.buffer = @ \o [i \in 1..n |-> f + i]]
  BY <1>5, <1>8 DEF more
<1> QED
  BY <1>21, <1>22

-----------------------------------------------------------------------------

(* What the account says depends on the text, and on nothing else of the state. *)
LEMMA TextStays ==
  ASSUME text' = text
  PROVE  /\ Begun' = Begun /\ (Plain' <=> Plain) /\ (Neat' <=> Neat) /\ (TagsWhole' <=> TagsWhole)
         /\ \A q, f : ParserInv(q, f)' <=> ParserInv(q, f)
         /\ \A q : AtRest(q)' <=> AtRest(q)
<1>1. Begun' = Begun /\ Functions' = Functions /\ Parameter' = Parameter
  BY DEF Begun, Functions, Parameter
<1>2. (Plain' <=> Plain) /\ (Neat' <=> Neat) /\ (TagsWhole' <=> TagsWhole)
  BY <1>1 DEF Plain, Neat, TagsWhole
<1>3. ASSUME NEW b, NEW n, NEW wanted
      PROVE  NextOf(b, n, wanted)' = NextOf(b, n, wanted)
  BY DEF NextOf
<1>4. ASSUME NEW q, NEW f
      PROVE  ParserInv(q, f)' <=> ParserInv(q, f)
  <2>1. CallsInv(q, f)' <=> CallsInv(q, f)
    BY <1>1 DEF CallsInv, Found, Beyond, Within
  <2>2. TextInv(q, f)' <=> TextInv(q, f)
    BY DEF TextInv
  <2> QED
    BY <1>2, <2>1, <2>2 DEF ParserInv
<1>5. ASSUME NEW b
      PROVE  (FunctionEnd(b)' = FunctionEnd(b)) /\ (NoParameter(b)' <=> NoParameter(b))
  <2>1. FunctionEnd(b)' = FunctionEnd(b)
    BY DEF FunctionEnd, NextOf
  <2>2. NoParameter(b)' <=> NoParameter(b)
    BY DEF NoParameter, NextOf
  <2> QED
    BY <2>1, <2>2
<1>6. ASSUME NEW q
      PROVE  AtRest(q)' <=> AtRest(q)
  BY <1>3, <1>5 DEF AtRest
<1> QED
  BY <1>1, <1>2, <1>4, <1>6

-----------------------------------------------------------------------------

(* What the call in progress has taken.                                      *)
ArgsNow(p) == IF p.mode = "params" THEN p.args ELSE {}

(* Between two calls of feed there is nothing to hand out.                   *)
LEMMA NothingToTell ==
  ASSUME Ground, NEW p \in Parsers, p.out = <<>>, p.calls = <<>>
  PROVE  /\ Told(p) \in Parsers /\ Told(p).out = shown /\ Told(p).calls = tools /\ Told(p).buffer = p.buffer
         /\ Told(p).args = p.args /\ Told(p).mode = p.mode
         /\ GivenBy(Told(p)) = Given /\ InCalls(Told(p)) = Given \cup ArgsNow(p)
<1>1. shown \in Seq(Nat) /\ tools \in Seq(SUBSET Nat)
  BY DEF Ground
<1>2. shown \o <<>> = shown /\ tools \o <<>> = tools
  <2>1. shown \o <<>> = shown
    BY <1>1, ConcatEmptySeq
  <2>2. tools \o <<>> = tools
    BY <1>1, ConcatEmptySeq
  <2> QED
    BY <2>1, <2>2
<1>3. PICK t : t = Told(p)
  OBVIOUS
<1>4. /\ t \in Parsers /\ t.buffer = p.buffer /\ t.mode = p.mode /\ t.args = p.args
      /\ t.out = shown \o p.out /\ t.calls = tools \o p.calls
  BY <1>1, <1>3, ToldParts
<1>5. t.out = shown /\ t.calls = tools
  BY <1>2, <1>4
<1>6. GivenBy(t) = Given /\ InCalls(t) = Given \cup ArgsNow(p)
  BY <1>4, <1>5 DEF GivenBy, Given, InCalls, ArgsNow
<1> QED
  BY <1>3, <1>4, <1>5, <1>6

(* When all was fed the parser holds no whole function,                      *)
LEMMA NoneHeld ==
  ASSUME Ground, NEW p, Kept(p, Len(text)), AtRest(p), Plain
  PROVE  \A d \in Begun : d <= Cut(p, Len(text))
<1>1. SUFFICES ASSUME NEW d \in Begun, ~(d <= Cut(p, Len(text))) PROVE FALSE
  OBVIOUS
<1>2. /\ p \in Parsers /\ p.buffer \in Seq(Nat) /\ Len(p.buffer) \in Nat /\ Len(text) \in Nat /\ Len(text) \in 0..Len(text)
      /\ p.mode \in {"text", "matching", "params"}
  BY Buffers DEF Ground
<1>3. PICK c \in Nat : c = Cut(p, Len(text)) /\ c + Len(p.buffer) = Len(text)
  BY <1>2, Positions
<1>4. d \in Int /\ d + 2 <= Len(text) /\ c < d /\ d <= c + Len(p.buffer)
  <2>1. d \in Int /\ d + 2 <= Len(text)
    BY <1>2 DEF Begun
  <2> QED
    BY <1>1, <1>2, <1>3, <2>1
<1>5. CASE p.mode = "text"
  <2>1. Len(p.buffer) = 0
    BY <1>5, EmptySeq DEF AtRest
  <2> QED
    BY <1>3, <1>4, <2>1
<1>6. CASE p.mode = "matching"
  <2>1. FunctionEnd(p.buffer) = 0
    BY <1>6 DEF AtRest
  <2>2. \A i \in 1..Len(p.buffer) - 1 : ~Heads(p.buffer, i)
    BY <1>2, <2>1, FunctionEndFinds
  <2>3. d - Cut(p, Len(text)) \in 1..Len(p.buffer) - 1 /\ Heads(p.buffer, d - Cut(p, Len(text)))
    BY <1>2, <1>3, <1>4, WholeFunctionHeads
  <2> QED
    BY <2>2, <2>3
<1>7. CASE p.mode = "params"
  <2>1. NextOf(p.buffer, 0, {"dot"}) = 0
    BY <1>7 DEF AtRest
  <2>2. \A i \in 1..Len(p.buffer) : 0 < i => text[p.buffer[i]] \notin {"dot"}
    BY <1>2, <2>1, NextOfFinds
  <2>3. PICK n \in 0..Len(p.buffer) : n = Len(p.buffer)
    BY <1>2
  <2>4. \A i \in 1..n : text[p.buffer[i]] # "dot"
    BY <2>2, <2>3
  <2>5. ~(Cut(p, Len(text)) < d /\ d <= Cut(p, Len(text)) + n)
    BY <1>2, <2>4, NoFunctions
  <2> QED
    BY <1>3, <1>4, <2>3, <2>5
<1> QED
  BY <1>2, <1>5, <1>6, <1>7

(* and a neat text leaves it nothing.                                        *)
LEMMA NothingHeld ==
  ASSUME Ground, NEW p, Kept(p, Len(text)), AtRest(p), Neat
  PROVE  Cut(p, Len(text)) = Len(text)
<1>1. /\ p \in Parsers /\ p.buffer \in Seq(Nat) /\ Len(p.buffer) \in Nat /\ Len(text) \in Nat /\ Len(text) \in 0..Len(text)
      /\ p.mode \in {"text", "matching", "params"} /\ text \in Seq(Tokens) /\ shown \in Seq(Nat) /\ tools \in Seq(SUBSET Nat)
  BY Buffers DEF Ground
<1>2. Plain
  BY <1>1, NeatIsPlain
<1>3. /\ Cut(p, Len(text)) \in Nat /\ Cut(p, Len(text)) + Len(p.buffer) = Len(text)
      /\ \A i \in 1..Len(p.buffer) : p.buffer[i] = Cut(p, Len(text)) + i /\ Cut(p, Len(text)) + i \in 1..Len(text)
  BY <1>1, <1>2, Positions
<1>4. PICK c \in Nat, m \in Nat : c = Cut(p, Len(text)) /\ m = Len(p.buffer) /\ c + m = Len(text)
  BY <1>1, <1>3
<1>5. \A i \in 1..m : p.buffer[i] = c + i /\ c + i \in 1..Len(text)
  BY <1>3, <1>4
<1>6. SUFFICES ASSUME m # 0 PROVE FALSE
  BY <1>4
<1>7. 1 \in 1..m /\ p.buffer # <<>>
  BY <1>1, <1>4, <1>6, EmptySeq
<1>8. CASE p.mode = "text"
  BY <1>7, <1>8 DEF AtRest
<1>9. CASE p.mode = "matching"
  <2>1. c + 1 \in Begun
    BY <1>1, <1>4, <1>9, WaitsForFunction
  <2>2. c + 1 <= c
    BY <1>2, <1>4, <2>1, NoneHeld
  <2> QED
    BY <2>2
<1>10. CASE p.mode = "params"
  <2> DEFINE start == NextOf(p.buffer, 0, {"par"})
             key   == NextOf(p.buffer, start, EndsTag)
             close == NextOf(p.buffer, key, {"/par"})
  <2>1. start \in Nat /\ (start # 0 => start <= Len(p.buffer) /\ text[p.buffer[start]] = "par")
    BY <1>1, NextOfFinds
  <2>2. start # 0
    <3>1. SUFFICES ASSUME start = 0 PROVE FALSE
      OBVIOUS
    <3>2. \A i \in 1..Len(p.buffer) : 0 < i => text[p.buffer[i]] \notin {"par"}
      BY <1>1, <3>1, NextOfFinds
    <3>3. text[p.buffer[1]] # "par"
      BY <1>4, <1>7, <3>2
    <3>4. text[p.buffer[1]] \in BeginsTag
      BY <1>7, <1>10, <3>1 DEF AtRest
    <3>5. p.buffer[1] = c + 1 /\ c + 1 \in 1..Len(text)
      BY <1>5, <1>7
    <3>6. PICK k \in 1..Len(text) : k = c + 1
      BY <3>5
    <3>7. text[k] # "<|"
      BY <1>2 DEF Plain
    <3>8. text[c + 1] \notin {"func", "/par"}
      <4>1. ParserInv(Told(p), Len(text)) /\ Told(p).buffer = p.buffer /\ Told(p).mode = "params"
        BY <1>1, <1>10, ToldParts DEF Kept
      <4>2. TextInv(Told(p), Len(text))
        BY <4>1 DEF ParserInv
      <4>3. Cut(Told(p), Len(text)) = c
        BY <1>4, <4>1 DEF Cut
      <4>4. c < Len(text)
        BY <1>4, <1>6
      <4> QED
        BY <4>1, <4>2, <4>3, <4>4 DEF TextInv
    <3> QED
      BY <3>3, <3>4, <3>5, <3>6, <3>7, <3>8 DEF BeginsTag
  <2>3. start \in 1..m /\ text[p.buffer[start]] = "par"
    BY <1>4, <2>1, <2>2
  <2> HIDE DEF start
  <2>4. /\ key \in Nat
        /\ key = 0 => \A i \in 1..Len(p.buffer) : start < i => text[p.buffer[i]] \notin EndsTag
        /\ key # 0 => \A i \in 1..Len(p.buffer) : start < i /\ i < key => text[p.buffer[i]] \notin EndsTag
    BY <1>1, <2>1, NextOfFinds
  <2> HIDE DEF key
  <2>5. close = 0 => \A i \in 1..Len(p.buffer) : key < i => text[p.buffer[i]] \notin {"/par"}
    BY <1>1, <2>4, NextOfFinds
  <2>6. start = 0 \/ key = 0 \/ close = 0
    BY <1>10 DEF AtRest, NoParameter, start, key
  <2> HIDE DEF close
  <2>7. PICK k \in 1..Len(text) : k = c + start /\ text[k] = "par"
    BY <1>5, <2>3
  <2>8. IsParameter(k)
    BY <1>1, <2>7, NeatMeans
  <2>9. k + 3 <= Len(text) /\ text[k + 1] = "name" /\ text[k + 3] = "/par"
    BY <2>8 DEF IsParameter
  <2>10. start + 1 \in 1..m /\ start + 3 \in 1..m /\ c + (start + 1) = k + 1 /\ c + (start + 3) = k + 3
    <3>1. PICK s \in Nat : s = start
      BY <2>1
    <3>2. PICK n \in Nat : n = Len(text)
      BY <1>1
    <3>3. k = c + s /\ k + 3 <= n /\ c + m = n /\ s >= 1
      BY <1>4, <2>3, <2>7, <2>9, <3>1, <3>2
    <3>4. s + 3 <= m
      BY <3>1, <3>2, <3>3
    <3>5. s + 1 \in 1..m /\ s + 3 \in 1..m
      BY <3>1, <3>3, <3>4
    <3>6. c + (s + 1) = k + 1 /\ c + (s + 3) = k + 3
      BY <3>1, <3>3
    <3> QED
      BY <3>1, <3>5, <3>6
  <2>11. p.buffer[start + 1] = k + 1 /\ p.buffer[start + 3] = k + 3
    BY <1>5, <2>10
  <2>12. start + 1 \in 1..Len(p.buffer) /\ start + 3 \in 1..Len(p.buffer) /\ start < start + 1
    BY <1>4, <2>3, <2>10
  <2>13. text[p.buffer[start + 1]] \in EndsTag
    BY <2>9, <2>11 DEF EndsTag
  <2>14. key # 0
    BY <2>4, <2>12, <2>13
  <2>15. ~(start + 1 < key)
    BY <2>4, <2>12, <2>13, <2>14
  <2>16. key < start + 3
    BY <2>3, <2>4, <2>15
  <2>17. close # 0
    BY <2>5, <2>9, <2>11, <2>12, <2>16
  <2> QED
    BY <2>2, <2>6, <2>14, <2>17
<1> QED
  BY <1>1, <1>8, <1>9, <1>10

(* So all the plain text was handed out,                                     *)
LEMMA TextHandedOut ==
  ASSUME Ground, NEW p, Kept(p, Len(text)), AtRest(p), p.out = <<>>, p.calls = <<>>, Neat
  PROVE  \A k \in 1..Len(text) : text[k] = "x" => k \in ToSet(shown) \cup Given \cup ArgsNow(p)
<1>1. p \in Parsers /\ ParserInv(Told(p), Len(text))
  BY DEF Kept
<1>2. PICK t : t = Told(p)
  OBVIOUS
<1>3. t.out = shown /\ InCalls(t) = Given \cup ArgsNow(p) /\ t.buffer = p.buffer
  BY <1>1, <1>2, NothingToTell
<1>4. Cut(t, Len(text)) = Len(text)
  BY <1>3, NothingHeld DEF Cut
<1>5. TextInv(t, Len(text))
  BY <1>1, <1>2 DEF ParserInv
<1> QED
  BY <1>3, <1>4, <1>5 DEF TextInv

(* and every function was found.                                             *)
LEMMA FunctionsFound ==
  ASSUME Ground, NEW p, Kept(p, Len(text)), AtRest(p), p.out = <<>>, p.calls = <<>>, Plain
  PROVE  /\ Cardinality(Begun \ (ToSet(shown) \cup Given \cup ArgsNow(p))) = Len(tools) + (IF p.mode = "params" THEN 1 ELSE 0)
         /\ \A d \in Begun : /\ (d \in ToSet(shown) => Beyond(d)) /\ (d \in Given \cup ArgsNow(p) => Within(d))
                             /\ d \notin ToSet(p.buffer)
<1>1. p \in Parsers /\ ParserInv(Told(p), Len(text)) /\ p.buffer \in Seq(Nat) /\ Len(text) \in 0..Len(text)
  BY Buffers DEF Kept, Ground
<1>2. PICK t : t = Told(p)
  OBVIOUS
<1>3. t.out = shown /\ t.calls = tools /\ InCalls(t) = Given \cup ArgsNow(p) /\ t.buffer = p.buffer /\ t.mode = p.mode
  BY <1>1, <1>2, NothingToTell
<1>4. Cut(t, Len(text)) = Cut(p, Len(text))
  BY <1>3 DEF Cut
<1>5. CallsInv(t, Len(text))
  BY <1>1, <1>2 DEF ParserInv
<1>6. \A d \in Begun : d <= Cut(t, Len(text))
  BY <1>4, NoneHeld
<1>7. Found(t, Len(text)) = Begun \ (ToSet(shown) \cup Given \cup ArgsNow(p))
  BY <1>3, <1>6 DEF Found
<1>8. Cardinality(Begun \ (ToSet(shown) \cup Given \cup ArgsNow(p))) = Len(tools) + (IF p.mode = "params" THEN 1 ELSE 0)
  BY <1>3, <1>5, <1>7 DEF CallsInv
<1>9. ASSUME NEW d \in Begun
      PROVE  d \notin ToSet(p.buffer)
  <2>1. SUFFICES ASSUME NEW i \in DOMAIN p.buffer, d = p.buffer[i] PROVE FALSE
    BY DEF ToSet
  <2>2. Cut(p, Len(text)) \in Nat /\ i \in 1..Len(p.buffer) /\ p.buffer[i] = Cut(p, Len(text)) + i
    BY <1>1, Positions
  <2>3. d <= Cut(p, Len(text)) /\ i > 0 /\ i \in Nat
    BY <1>1, <1>4, <1>6, <2>2
  <2> QED
    BY <2>1, <2>2, <2>3
<1> QED
  BY <1>3, <1>5, <1>8, <1>9 DEF CallsInv

-----------------------------------------------------------------------------

(* What is handed out stays in the account.                                  *)
LEMMA KeptHandOut ==
  ASSUME Ground, text' = text, NEW f \in Nat, NEW p, Kept(p, f), HandOut(p)
  PROVE  /\ Ground' /\ Kept(parser, f)'
         /\ parser'.out = <<>> /\ parser'.calls = <<>> /\ parser'.going = TRUE
         /\ (AtRest(p) => AtRest(parser)')
<1>1. p \in Parsers /\ shown \in Seq(Nat) /\ tools \in Seq(SUBSET Nat) /\ text \in Seq(Tokens) /\ ParserInv(Told(p), f)
  BY DEF Kept, Ground
<1>2. PICK z : z = [p EXCEPT !.out = <<>>, !.calls = <<>>, !.going = TRUE]
  OBVIOUS
<1>3. parser' = z /\ shown' = shown \o p.out /\ tools' = tools \o p.calls
  BY <1>2 DEF HandOut
<1>4. /\ z \in Parsers /\ z.out = <<>> /\ z.calls = <<>> /\ z.going = TRUE
      /\ z.buffer = p.buffer /\ z.mode = p.mode /\ z.args = p.args
  <2>1. \A o, c, g : LET y == [p EXCEPT !.out = o, !.calls = c, !.going = g]
                     IN  /\ y.out = o /\ y.calls = c /\ y.going = g
                         /\ y.buffer = p.buffer /\ y.mode = p.mode /\ y.args = p.args
    BY <1>1 DEF Parsers
  <2>2. ASSUME NEW o \in Seq(Nat), NEW c \in Seq(SUBSET Nat), NEW g \in BOOLEAN
        PROVE  [p EXCEPT !.out = o, !.calls = c, !.going = g] \in Parsers
    BY <1>1 DEF Parsers
  <2>3. z \in Parsers
    BY <1>2, <2>2, EmptySeq
  <2> QED
    BY <1>2, <2>1, <2>3
<1>5. p.out \in Seq(Nat) /\ p.calls \in Seq(SUBSET Nat)
  BY <1>1 DEF Parsers
<1>6. shown' \in Seq(Nat) /\ tools' \in Seq(SUBSET Nat)
  <2>1. shown \o p.out \in Seq(Nat)
    BY <1>1, <1>5, ConcatProperties
  <2>2. tools \o p.calls \in Seq(SUBSET Nat)
    BY <1>1, <1>5, ConcatProperties
  <2> QED
    BY <1>3, <2>1, <2>2
<1>7. Ground'
  BY <1>1, <1>6 DEF Ground
<1>8. PICK t : t = Told(p)
  OBVIOUS
<1>9. PICK q : q = [t EXCEPT !.going = TRUE]
  OBVIOUS
<1>10. t \in Parsers /\ Ordered(t) /\ Bounded(t, f) /\ t.out = shown' /\ t.calls = tools' /\ t.buffer = p.buffer
  BY <1>1, <1>3, <1>8, ToldParts DEF ParserInv
<1>11. q \in Parsers /\ Ordered(q) /\ Bounded(q, f)
  BY <1>9, <1>10, OrderedAnyway, BoundedAnyway
<1>12. q.buffer = t.buffer /\ q.out = t.out /\ q.args = t.args /\ q.calls = t.calls /\ q.mode = t.mode
  BY <1>9, <1>10 DEF Parsers
<1>13. ParserInv(q, f)
  <2>1. ASSUME Plain
        PROVE  Contiguous(q, f) /\ CallsInv(q, f)
    <3>1. Contiguous(t, f) /\ CallsInv(t, f)
      BY <1>1, <1>8, <2>1 DEF ParserInv
    <3> QED
      BY <1>10, <1>11, <1>12, <3>1, CallsAnyway
  <2>2. ASSUME Neat
        PROVE  TextInv(q, f)
    <3>1. TextInv(t, f)
      BY <1>1, <1>8, <2>2 DEF ParserInv
    <3> QED
      BY <1>10, <1>11, <1>12, <3>1, TextAnyway
  <2> QED
    BY <1>11, <2>1, <2>2 DEF ParserInv
<1>14. Told(parser)' = q
  <2>1. Told(parser)' = [z EXCEPT !.out = shown' \o z.out, !.calls = tools' \o z.calls]
    BY <1>3, <1>4 DEF Told, Parsers
  <2>2. shown' \o z.out = shown' /\ tools' \o z.calls = tools'
    BY <1>4, <1>6, ConcatEmptySeq
  <2>3. q = [z EXCEPT !.out = shown', !.calls = tools']
    BY <1>1, <1>2, <1>3, <1>8, <1>9 DEF Told, Parsers
  <2> QED
    BY <2>1, <2>2, <2>3
<1>15. ParserInv(q, f)'
  BY <1>13, TextStays
<1>16. Kept(parser, f)'
  <2>1. parser' \in Parsers
    BY <1>3, <1>4
  <2> QED
    BY <1>14, <1>15, <2>1 DEF Kept, Parsers
<1>17. ASSUME AtRest(p)
       PROVE  AtRest(parser)'
  <2>1. AtRest(z)
    BY <1>4, <1>17 DEF AtRest
  <2>2. AtRest(z)'
    BY <2>1, TextStays
  <2> QED
    BY <1>3, <2>2
<1> QED
  BY <1>3, <1>4, <1>7, <1>16, <1>17

-----------------------------------------------------------------------------

(* What a call of feed or flush leaves to the next.                          *)
HeuristicInv ==
    /\ Ground /\ fed \in 0..Len(text) /\ flushed \in BOOLEAN
    /\ ~flushed => /\ Kept(parser, fed) /\ parser.out = <<>> /\ parser.calls = <<>> /\ parser.going = TRUE
                   /\ Plain => AtRest(parser)
    /\ flushed => ToolTextParsed

(* At first nothing was fed.                                                 *)
LEMMA HeuristicStarts == HeuristicInit => HeuristicInv
<1> SUFFICES ASSUME HeuristicInit PROVE HeuristicInv
  OBVIOUS
<1>1. /\ text \in Seq(Tokens) /\ fed = 0 /\ flushed = FALSE /\ shown = <<>> /\ tools = <<>> /\ parser = NewParser
  BY TextsAssumption DEF HeuristicInit
<1>2. Ground /\ fed \in 0..Len(text)
  BY <1>1, EmptySeq DEF Ground
<1>3. NewParser \in Parsers
  BY EmptySeq DEF NewParser, Parsers
<1>4. Told(NewParser) = NewParser
  <2>1. /\ Told(NewParser) \in Parsers /\ Told(NewParser).buffer = NewParser.buffer /\ Told(NewParser).mode = NewParser.mode
        /\ Told(NewParser).args = NewParser.args /\ Told(NewParser).going = NewParser.going
        /\ Told(NewParser).out = shown \o NewParser.out /\ Told(NewParser).calls = tools \o NewParser.calls
    BY <1>2, <1>3, ToldParts DEF Ground
  <2>2. NewParser.out = shown /\ NewParser.calls = tools
    BY <1>1 DEF NewParser
  <2>3. shown \o NewParser.out = shown /\ tools \o NewParser.calls = tools
    BY <1>1, <1>2, <2>2, ConcatEmptySeq DEF Ground
  <2>4. \A x, y \in Parsers : /\ x.buffer = y.buffer /\ x.mode = y.mode /\ x.args = y.args
                               /\ x.going = y.going /\ x.out = y.out /\ x.calls = y.calls => x = y
    <3>1. ASSUME NEW x \in Parsers, NEW y \in Parsers, x.buffer = y.buffer, x.mode = y.mode, x.args = y.args,
                 x.going = y.going, x.out = y.out, x.calls = y.calls
          PROVE  x = y
      BY <3>1, SMTT(60) DEF Parsers
    <3> QED
      BY <3>1
  <2> QED
    BY <1>3, <2>1, <2>2, <2>3, <2>4
<1>5. DOMAIN <<>> = {} /\ Len(<<>>) = 0
  OBVIOUS
<1>6. GivenBy(NewParser) = {} /\ ToSet(NewParser.out) = {} /\ ToSet(NewParser.buffer) = {} /\ NewParser.args = {} /\ InCalls(NewParser) = {}
  BY <1>5 DEF GivenBy, InCalls, ToSet, NewParser
<1>7. Ordered(NewParser) /\ Bounded(NewParser, 0)
  <2>1. NewParser.buffer = <<>> /\ NewParser.out = <<>> /\ NewParser.calls = <<>> /\ NewParser.mode = "text"
    BY DEF NewParser
  <2> QED
    BY <1>5, <1>6, <2>1 DEF Ordered, Bounded, Handed, Increasing
<1>8. Cut(NewParser, 0) = 0
  <2>1. NewParser.buffer = <<>> /\ NewParser.buffer \in Seq(Nat)
    BY <1>3 DEF NewParser, Parsers
  <2>2. Len(NewParser.buffer) = 0
    BY <2>1, EmptySeq
  <2> QED
    BY <2>2 DEF Cut
<1>9. Contiguous(NewParser, 0)
  BY <1>5, <1>8 DEF Contiguous, NewParser
<1>10. CallsInv(NewParser, 0)
  <2>1. \A d \in Begun : ~(d <= 0)
    BY <1>2 DEF Begun, Ground
  <2>2. Found(NewParser, 0) = {}
    BY <1>8, <2>1 DEF Found
  <2>3. Cardinality({}) = 0
    BY FS_EmptySet
  <2>4. NewParser.mode = "text" /\ Len(NewParser.calls) = 0
    BY <1>5 DEF NewParser
  <2> QED
    <3>1. \A d \in Begun : ~(d <= Cut(NewParser, 0))
      BY <1>8, <2>1
    <3>2. \A d \in Begun : d \notin ToSet(NewParser.out) /\ d \notin InCalls(NewParser)
      BY <1>6
    <3>3. Cardinality(Found(NewParser, 0)) = Len(NewParser.calls) + (IF NewParser.mode = "params" THEN 1 ELSE 0)
      <4>1. Len(NewParser.calls) + 0 = 0
        BY <2>4
      <4> QED
        BY <2>2, <2>3, <2>4, <4>1
    <3>4. NewParser.mode # "params"
      BY <2>4
    <3> QED
      BY <3>1, <3>2, <3>3, <3>4 DEF CallsInv
<1>11. TextInv(NewParser, 0)
  BY <1>8 DEF TextInv, NewParser
<1>12. AtRest(NewParser)
  BY DEF AtRest, NewParser
<1>13. Kept(NewParser, 0)
  BY <1>3, <1>4, <1>7, <1>9, <1>10, <1>11 DEF Kept, ParserInv
<1>14. NewParser.out = <<>> /\ NewParser.calls = <<>> /\ NewParser.going = TRUE
  BY DEF NewParser
<1> QED
  BY <1>1, <1>2, <1>12, <1>13, <1>14 DEF HeuristicInv

(* feed, wherever the text is cut.                                           *)
LEMMA FeedKeeps ==
  ASSUME HeuristicInv, NEW n \in 1..Len(text), HeuristicFeed(n)
  PROVE  HeuristicInv'
<1>1. /\ Ground /\ fed \in Nat /\ Len(text) \in Nat /\ n \in Nat /\ fed + n <= Len(text) /\ fed + n \in 0..Len(text)
      /\ text' = text /\ flushed' = flushed /\ ~flushed /\ fed' = fed + n
      /\ Kept(parser, fed) /\ parser.out = <<>> /\ parser.calls = <<>> /\ parser.going = TRUE /\ parser \in Parsers
  BY DEF HeuristicInv, HeuristicFeed, Ground, Kept
<1>0. PICK f \in 0..Len(text) : f = fed + n
  BY <1>1
<1>2. PICK m : m = [parser EXCEPT !.buffer = @ \o [i \in 1..n |-> fed + i]]
  OBVIOUS
<1>3. Kept(m, f)
  BY <1>0, <1>1, <1>2, FeedMore
<1>4. m.calls = <<>> /\ m.going = TRUE
  BY <1>1, <1>2 DEF Parsers
<1>5. PICK s : s = [m EXCEPT !.buffer = Strip(@)]
  OBVIOUS
<1>6. Kept(s, f)
  BY <1>1, <1>3, <1>5, StripKeeps
<1>7. s.calls = <<>> /\ s.going = TRUE
  BY <1>3, <1>4, <1>5 DEF Kept, Parsers
<1>8. s = [parser EXCEPT !.buffer = Strip(@ \o [i \in 1..n |-> fed + i])]
  BY <1>1, <1>2, <1>5 DEF Parsers
<1>9. Kept(WebCalls(s), f) /\ WebCalls(s).going
  BY <1>1, <1>6, <1>7, WebKeeps
<1>10. PICK p : p = Loop(WebCalls(s))
  OBVIOUS
<1>11. Kept(p, f) /\ (Plain => AtRest(p))
  BY <1>1, <1>9, <1>10, LoopKeeps
<1>12. HandOut(p)
  BY <1>8, <1>10 DEF HeuristicFeed
<1>13. /\ Ground' /\ Kept(parser, f)'
       /\ parser'.out = <<>> /\ parser'.calls = <<>> /\ parser'.going = TRUE
       /\ (AtRest(p) => AtRest(parser)')
  <2>1. f \in Nat /\ Ground /\ text' = text
    BY <1>1
  <2>2. Kept(p, f) /\ HandOut(p)
    BY <1>11, <1>12
  <2>3. Kept(parser, f)'
    BY <2>1, <2>2, KeptHandOut
  <2>4. Ground' /\ (AtRest(p) => AtRest(parser)')
    BY <2>1, <2>2, KeptHandOut
  <2>5. parser'.out = <<>> /\ parser'.calls = <<>> /\ parser'.going = TRUE
    BY <2>1, <2>2, KeptHandOut
  <2> QED
    BY <2>3, <2>4, <2>5
<1>14. Kept(parser, fed)'
  BY <1>0, <1>1, <1>13
<1>15. Plain' => AtRest(parser)'
  BY <1>1, <1>11, <1>13, TextStays
<1> QED
  BY <1>1, <1>13, <1>14, <1>15 DEF HeuristicInv

-----------------------------------------------------------------------------

(* What flush hands out: the call in progress, with what the buffer holds.   *)
LEMMA LastCall ==
  ASSUME Ground, NEW s \in Parsers, s.out = <<>>, s.calls = <<>>, NEW o, o \subseteq ToSet(s.buffer),
         HandOut(IF s.mode # "params" THEN s ELSE [CompleteCall([s EXCEPT !.args = @ \cup o]) EXCEPT !.buffer = <<>>])
  PROVE  /\ shown' = shown /\ tools' \in Seq(SUBSET Nat)
         /\ s.mode # "params" => tools' = tools
         /\ s.mode = "params" => tools' = Append(tools, s.args \cup o)
<1>1. shown \in Seq(Nat) /\ tools \in Seq(SUBSET Nat) /\ s.args \in SUBSET Nat /\ s.buffer \in Seq(Nat)
  BY DEF Ground, Parsers
<1>2. shown \o <<>> = shown /\ tools \o <<>> = tools
  <2>1. shown \o <<>> = shown
    BY <1>1, ConcatEmptySeq
  <2>2. tools \o <<>> = tools
    BY <1>1, ConcatEmptySeq
  <2> QED
    BY <2>1, <2>2
<1>3. s.args \cup o \in SUBSET Nat
  <2>1. ToSet(s.buffer) \subseteq Nat
    BY <1>1 DEF ToSet
  <2> QED
    BY <1>1, <2>1
<1>4. CASE s.mode # "params"
  <2>1. shown' = shown \o s.out /\ tools' = tools \o s.calls
    BY <1>4 DEF HandOut
  <2> QED
    BY <1>1, <1>2, <1>4, <2>1
<1>5. CASE s.mode = "params"
  <2>1. PICK a \in SUBSET Nat : a = s.args \cup o
    BY <1>3
  <2>2. PICK z : z = [CompleteCall([s EXCEPT !.args = a]) EXCEPT !.buffer = <<>>]
    OBVIOUS
  <2>3. HandOut(z)
    BY <1>5, <2>1, <2>2
  <2>4. z.out = <<>> /\ z.calls = Append(<<>>, a)
    <3>1. PICK y : y = [s EXCEPT !.args = a]
      OBVIOUS
    <3>2. y.out = s.out /\ y.calls = s.calls /\ y.args = a /\ y \in Parsers
      BY <3>1 DEF Parsers
    <3>3. PICK x : x = CompleteCall(y)
      OBVIOUS
    <3>4. x.out = y.out /\ x.calls = Append(y.calls, y.args)
      BY <3>2, <3>3 DEF CompleteCall, Parsers
    <3>5. z = [x EXCEPT !.buffer = <<>>]
      BY <2>2, <3>1, <3>3
    <3>6. z.out = x.out /\ z.calls = x.calls
      BY <3>2, <3>3, <3>5 DEF CompleteCall, Parsers
    <3> QED
      BY <3>2, <3>4, <3>6
  <2>5. shown' = shown \o <<>> /\ tools' = tools \o Append(<<>>, a)
    BY <2>3, <2>4 DEF HandOut
  <2>6. tools \o Append(<<>>, a) = Append(tools \o <<>>, a)
    BY <1>1, <2>1, EmptySeq, ConcatAppend
  <2>7. Append(tools, a) \in Seq(SUBSET Nat)
    BY <1>1, <2>1, AppendProperties
  <2> QED
    BY <1>2, <1>5, <2>1, <2>5, <2>6, <2>7
<1> QED
  BY <1>4, <1>5

(* flush, with the call in progress.                                         *)
LEMMA FlushKeeps ==
  ASSUME HeuristicInv, HeuristicFlush
  PROVE  HeuristicInv'
<1>1. /\ Ground /\ Len(text) \in Nat /\ fed \in Nat /\ fed = Len(text) /\ Len(text) \in 0..Len(text)
      /\ text' = text /\ flushed' = TRUE /\ fed' = fed /\ text \in Seq(Tokens)
      /\ Kept(parser, Len(text)) /\ parser.out = <<>> /\ parser.calls = <<>> /\ parser \in Parsers
      /\ (Plain => AtRest(parser))
  <2>1. Ground /\ text \in Seq(Tokens) /\ fed \in 0..Len(text)
    BY DEF HeuristicInv, Ground
  <2>2. ~flushed /\ fed = Len(text) /\ text' = text /\ flushed' = TRUE /\ fed' = fed
    BY DEF HeuristicFlush
  <2>3. /\ Kept(parser, fed) /\ parser.out = <<>> /\ parser.calls = <<>>
        /\ (Plain => AtRest(parser))
    BY <2>2 DEF HeuristicInv
  <2>4. parser \in Parsers
    BY <2>3 DEF Kept
  <2>5. Len(text) \in Nat /\ Len(text) \in 0..Len(text)
    BY <2>1
  <2> QED
    BY <2>1, <2>2, <2>3, <2>4, <2>5
<1>2. PICK s : s = [parser EXCEPT !.buffer = Strip(@)]
  OBVIOUS
<1>3. Kept(s, Len(text)) /\ (Plain => s = parser) /\ s \in Parsers
  BY <1>1, <1>2, StripKeeps DEF Kept
<1>4. s.out = <<>> /\ s.calls = <<>>
  BY <1>1, <1>2 DEF Parsers
<1>5. PICK o : o = LET start == NextOf(s.buffer, 0, {"par"})
                       key   == NextOf(s.buffer, start, EndsTag)
                   IN  IF start = 0 \/ key = 0 THEN {} ELSE {s.buffer[i] : i \in start..Len(s.buffer)}
  OBVIOUS
<1>6. o \subseteq ToSet(s.buffer)
  <2>1. s.buffer \in Seq(Nat)
    BY <1>3 DEF Parsers
  <2>2. NextOf(s.buffer, 0, {"par"}) \in Nat
    BY <2>1, NextOfFinds
  <2>3. PICK n \in Nat : n = NextOf(s.buffer, 0, {"par"})
    BY <2>2
  <2>4. o \subseteq {} \/ (n # 0 /\ o = {s.buffer[i] : i \in n..Len(s.buffer)})
    BY <1>5, <2>3
  <2>5. n # 0 => \A i \in n..Len(s.buffer) : i \in DOMAIN s.buffer
    BY <2>1
  <2> QED
    BY <2>4, <2>5 DEF ToSet
<1>7. HandOut(IF s.mode # "params" THEN s ELSE [CompleteCall([s EXCEPT !.args = @ \cup o]) EXCEPT !.buffer = <<>>])
  BY <1>2, <1>5 DEF HeuristicFlush
<1>8. /\ shown' = shown /\ tools' \in Seq(SUBSET Nat)
      /\ s.mode # "params" => tools' = tools
      /\ s.mode = "params" => tools' = Append(tools, s.args \cup o)
  BY <1>1, <1>3, <1>4, <1>6, <1>7, LastCall
<1>9. tools \in Seq(SUBSET Nat) /\ shown \in Seq(Nat)
  BY <1>1 DEF Ground
<1>10. PICK last : last = IF s.mode = "params" THEN s.args \cup o ELSE {}
  OBVIOUS
<1>11. Given' = Given \cup last
  <2>1. CASE s.mode # "params"
    BY <1>8, <1>10, <2>1 DEF Given
  <2>2. CASE s.mode = "params"
    <3>1. /\ Len(tools') = Len(tools) + 1 /\ tools'[Len(tools) + 1] = last
          /\ \A i \in 1..Len(tools) : tools'[i] = tools[i]
      BY <1>8, <1>9, <1>10, <2>2, AppendProperties
    <3>2. DOMAIN tools' = 1..Len(tools) + 1 /\ DOMAIN tools = 1..Len(tools) /\ Len(tools) \in Nat
      BY <1>8, <1>9, <3>1
    <3>3. ASSUME NEW k
          PROVE  k \in Given' <=> k \in Given \cup last
      BY <3>1, <3>2 DEF Given
    <3> QED
      BY <3>3
  <2> QED
    BY <2>1, <2>2
<1>12. PICK t : t = Told(s)
  OBVIOUS
<1>13. /\ t.out = shown /\ t.calls = tools /\ t.buffer = s.buffer /\ t.args = s.args /\ t.mode = s.mode
       /\ GivenBy(t) = Given
  BY <1>1, <1>3, <1>4, <1>12, NothingToTell
<1>14. Ordered(t)
  BY <1>3, <1>12 DEF Kept, ParserInv
<1>15. /\ ToSet(shown) \cap last = {} /\ Given \cap last = {}
  <2>1. \A h \in ToSet(shown) \cup s.args \cup Given : h \notin ToSet(s.buffer)
    <3>1. SUFFICES ASSUME NEW h \in ToSet(shown) \cup s.args \cup Given, NEW i \in DOMAIN s.buffer, h = s.buffer[i] PROVE FALSE
      BY DEF ToSet
    <3>2. h < s.buffer[i]
      BY <1>13, <1>14 DEF Ordered, Handed
    <3>3. s.buffer[i] \in Nat
      BY <1>3 DEF Parsers
    <3> QED
      BY <3>1, <3>2, <3>3
  <2>2. ToSet(shown) \cap s.args = {} /\ (s.mode = "params" => s.args \cap Given = {})
    BY <1>13, <1>14 DEF Ordered
  <2> QED
    BY <1>6, <1>10, <2>1, <2>2
<1>16. OnceInOrder'
  <2>1. \A i, j \in DOMAIN shown' : i < j => shown'[i] < shown'[j]
    BY <1>8, <1>13, <1>14 DEF Ordered, Increasing
  <2>2. ToSet(shown') \cap Given' = {}
    BY <1>8, <1>11, <1>13, <1>14, <1>15 DEF Ordered
  <2>3. ASSUME NEW i \in DOMAIN tools', NEW j \in DOMAIN tools', i # j
        PROVE  tools'[i] \cap tools'[j] = {}
    <3>1. \A k, l \in DOMAIN tools : k # l => tools[k] \cap tools[l] = {}
      BY <1>13, <1>14 DEF Ordered
    <3>2. CASE s.mode # "params"
      BY <1>8, <2>3, <3>1, <3>2
    <3>3. CASE s.mode = "params"
      <4>1. /\ Len(tools') = Len(tools) + 1 /\ tools'[Len(tools) + 1] = last
            /\ \A k \in 1..Len(tools) : tools'[k] = tools[k]
        BY <1>8, <1>9, <1>10, <3>3, AppendProperties
      <4>2. DOMAIN tools' = 1..Len(tools) + 1 /\ DOMAIN tools = 1..Len(tools) /\ Len(tools) \in Nat
        BY <1>8, <1>9, <4>1
      <4>3. \A k \in DOMAIN tools : tools[k] \cap last = {}
        BY <1>15 DEF Given
      <4> QED
        BY <2>3, <3>1, <4>1, <4>2, <4>3
    <3> QED
      BY <3>2, <3>3
  <2> QED
    BY <2>1, <2>2, <2>3 DEF OnceInOrder, ToSet
<1>17. ArgsNow(s) \subseteq last /\ last \subseteq ArgsNow(s) \cup ToSet(s.buffer)
  BY <1>6, <1>10 DEF ArgsNow
<1>18. TextKept'
  <2>1. CASE Neat
    <3>1. s = parser /\ AtRest(s)
      BY <1>1, <1>3, <2>1, NeatIsPlain
    <3>2. \A k \in 1..Len(text) : text[k] = "x" => k \in ToSet(shown) \cup Given \cup ArgsNow(s)
      BY <1>1, <1>3, <1>4, <2>1, <3>1, TextHandedOut
    <3>3. \A k \in 1..Len(text') : text'[k] # "x" \/ k \in ToSet(shown') \cup Given'
      BY <1>1, <1>8, <1>11, <1>17, <3>2
    <3> QED
      BY <3>3 DEF TextKept, ToSet
  <2>2. CASE ~Neat
    <3>1. \E i \in 1..Len(text) : \/ text[i] = "json"
                                  \/ text[i] \in BeginsTag \cup {"dot"} /\ i \notin Functions \cup Parameter
      BY <2>2 DEF Neat
    <3>2. Functions' = Functions /\ Parameter' = Parameter
      BY <1>1 DEF Functions, Parameter, Begun
    <3> QED
      BY <1>1, <3>1, <3>2 DEF TextKept
  <2> QED
    BY <2>1, <2>2
<1>19. CallsFound'
  <2>1. SUFFICES ASSUME TagsWhole' PROVE CallsFound'
    BY DEF CallsFound
  <2>2. Plain /\ Begun' = Begun
    <3>1. TagsWhole /\ Begun' = Begun
      BY <1>1, <2>1, TextStays
    <3> QED
      BY <3>1 DEF Plain, TagsWhole
  <2>3. s = parser /\ AtRest(s)
    BY <1>1, <1>3, <2>2
  <2>4. /\ Cardinality(Begun \ (ToSet(shown) \cup Given \cup ArgsNow(s))) = Len(tools) + (IF s.mode = "params" THEN 1 ELSE 0)
        /\ \A d \in Begun : /\ (d \in ToSet(shown) => Beyond(d)) /\ (d \in Given \cup ArgsNow(s) => Within(d))
                            /\ d \notin ToSet(s.buffer)
    BY <1>1, <1>3, <1>4, <2>2, <2>3, FunctionsFound
  <2>5. \A d \in Begun : d \in Given' <=> d \in Given \cup ArgsNow(s)
    BY <1>11, <1>17, <2>4
  <2>6. Begun \ (ToSet(shown) \cup Given \cup ArgsNow(s)) = Begun \ (ToSet(shown) \cup Given')
    BY <2>5
  <2>7. Len(tools') = Len(tools) + (IF s.mode = "params" THEN 1 ELSE 0)
    <3>1. CASE s.mode # "params"
      BY <1>8, <1>9, <3>1
    <3>2. CASE s.mode = "params"
      <4>1. s.args \cup o \in SUBSET Nat
        BY <1>3, <1>6 DEF Parsers, ToSet
      <4> QED
        BY <1>8, <1>9, <3>2, <4>1, AppendProperties
    <3> QED
      BY <3>1, <3>2
  <2>8. Len(tools') = Cardinality(Begun' \ (ToSet(shown') \cup Given'))
    BY <1>8, <2>2, <2>4, <2>6, <2>7
  <2>9. /\ \A d \in Begun' \cap ToSet(shown') : \E i \in Begun', j \in d..Len(text') : i < d /\ text'[j] = "par"
        /\ \A d \in Begun' \cap Given' : \E i \in 1..d, j \in d..Len(text') : text'[i] = "par" /\ text'[j] = "/par"
    BY <1>1, <1>8, <2>2, <2>4, <2>5 DEF Beyond, Within
  <2> QED
    BY <2>8, <2>9 DEF CallsFound, ToSet
<1>20. Ground'
  BY <1>1, <1>8, <1>9 DEF Ground
<1>21. fed' \in 0..Len(text') /\ flushed' \in BOOLEAN
  BY <1>1
<1> QED
  BY <1>1, <1>16, <1>18, <1>19, <1>20, <1>21 DEF HeuristicInv, ToolTextParsed

(* Text and calls share out what was fed, however it was cut.                *)
THEOREM ToolTextParsedHolds == HeuristicSpec => []ToolTextParsed
<1>1. HeuristicInit => HeuristicInv
  BY HeuristicStarts
<1>2. HeuristicInv /\ [HeuristicNext]_heuristicVars => HeuristicInv'
  <2> SUFFICES ASSUME HeuristicInv, [HeuristicNext]_heuristicVars PROVE HeuristicInv'
    OBVIOUS
  <2>1. CASE HeuristicFlush
    BY <2>1, FlushKeeps
  <2>2. ASSUME NEW n \in 1..Len(text), HeuristicFeed(n)
        PROVE  HeuristicInv'
    BY <2>2, FeedKeeps
  <2>3. CASE UNCHANGED heuristicVars
    <3>1. text' = text /\ fed' = fed /\ parser' = parser /\ shown' = shown /\ tools' = tools /\ flushed' = flushed
      BY <2>3 DEF heuristicVars
    <3>2. (Kept(parser, fed)' <=> Kept(parser, fed)) /\ (Plain' <=> Plain) /\ (AtRest(parser)' <=> AtRest(parser))
      <4>1. \A q, f : ParserInv(q, f)' <=> ParserInv(q, f)
        BY <3>1, TextStays
      <4>2. \A q : AtRest(q)' <=> AtRest(q)
        BY <3>1, TextStays
      <4>3. Told(parser)' = Told(parser)
        BY <3>1 DEF Told
      <4>4. (Plain' <=> Plain)
        BY <3>1, TextStays
      <4>5. AtRest(parser)' <=> AtRest(parser)
        BY <3>1, <4>2
      <4>6. Kept(parser, fed)' <=> Kept(parser, fed)
        BY <3>1, <4>1, <4>3 DEF Kept, Parsers
      <4> QED
        BY <4>4, <4>5, <4>6
    <3>3. ToolTextParsed' <=> ToolTextParsed
      BY <3>1 DEF ToolTextParsed, OnceInOrder, TextKept, CallsFound, TagsWhole, Given, Begun, Functions, Parameter
    <3>4. Ground' <=> Ground
      BY <3>1 DEF Ground
    <3> QED
      BY <3>1, <3>2, <3>3, <3>4 DEF HeuristicInv
  <2> QED
    BY <2>1, <2>2, <2>3 DEF HeuristicNext
<1>3. HeuristicInv => ToolTextParsed
  <2>1. SUFFICES ASSUME HeuristicInv PROVE ToolTextParsed
    OBVIOUS
  <2>2. CASE flushed
    BY <2>1, <2>2 DEF HeuristicInv
  <2>3. CASE ~flushed
    <3>1. Ground /\ Kept(parser, fed) /\ parser.out = <<>> /\ parser.calls = <<>> /\ parser \in Parsers
      BY <2>1, <2>3 DEF HeuristicInv, Kept
    <3>2. PICK t : t = Told(parser)
      OBVIOUS
    <3>3. t.out = shown /\ t.calls = tools /\ GivenBy(t) = Given
      BY <3>1, <3>2, NothingToTell
    <3>4. Ordered(t)
      BY <3>1, <3>2 DEF Kept, ParserInv
    <3>5. OnceInOrder
      BY <3>3, <3>4 DEF OnceInOrder, Ordered, Increasing
    <3> QED
      BY <2>3, <3>5 DEF ToolTextParsed, TextKept, CallsFound
  <2> QED
    BY <2>2, <2>3 DEF HeuristicInv
<1> QED
  BY <1>1, <1>2, <1>3, PTL DEF HeuristicSpec
=============================================================================
