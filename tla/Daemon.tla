-------------------------------- MODULE Daemon --------------------------------
(***************************************************************************)
(* The radar daemon: the store of internal/state, the refresher, resetter  *)
(* and refresh loop of cmd/radar, and the connection handlers of           *)
(* internal/server, running concurrently over one store and one file.      *)
(*                                                                         *)
(* A task is the pull request it was built from, so the store's list is a  *)
(* subset of Refs.  The acknowledgement of a task lives in the Metadata    *)
(* map of its source ref.  Copies of the list are shallow: a copy and the  *)
(* store share these maps until the store's tasks are replaced, which      *)
(* snap[p].shared records.                                                 *)
(***************************************************************************)
CONSTANTS
    Handlers,    \* the goroutines that serve client connections
    Loop,        \* the goroutine that runs refreshLoop
    Refs,        \* the tasks a collection can find
    Droppable,   \* those that acknowledging removes: github_pr_activity
                 \* without unresolved review threads
    Methods,     \* the requests clients send
    DiskFaults,  \* may a file operation fail?
    Free,        \* a mutex nobody holds
    NoFile,      \* a file that does not exist
    Empty,       \* a file truncated and not yet written
    Torn         \* a file holding a mix of two writes

Procs == Handlers \cup {Loop}

ASSUME DaemonAssumption ==
    /\ Loop \notin Handlers
    /\ Free \notin Procs
    /\ Droppable \subseteq Refs
    /\ Methods \subseteq {"tasks", "refresh", "reset", "ack"}
    /\ DiskFaults \in BOOLEAN

\* What a complete tasks.json holds.
Contents == [tasks : SUBSET Refs, acks : SUBSET Refs]

ASSUME FileAssumption ==
    /\ {NoFile, Empty, Torn} \cap Contents = {}
    /\ NoFile \notin {Empty, Torn}

VARIABLES
    up,        \* is the daemon running?
    items,     \* Store.items
    acks,      \* refs whose current Metadata map is acknowledged
    sources,   \* Store.sources: {what the last collection found}, or empty
    storeMu,   \* the writer inside Acknowledge, or Free
    collMu,    \* holder of collectionMu, or Free
    recent,    \* lastRefresh is less than five minutes ago
    pc,        \* where each goroutine is
    req,       \* the request it serves
    arg,       \* the task it acknowledges, or what its collection found
    snap,      \* its latest shallow copy of the store's tasks
    path,      \* contents of tasks.json
    tmp,       \* contents of tasks.json.tmp
    fd         \* the file each goroutine has open for writing

storeVars == <<items, acks, sources>>
diskVars  == <<path, tmp, fd>>
vars == <<up, items, acks, sources, storeMu, collMu, recent,
          pc, req, arg, snap, path, tmp, fd>>

Copies == [tasks : SUBSET Refs, acks : SUBSET Refs, shared : BOOLEAN]

\* Where a goroutine is between the copy of Save and its return.
Saving == {"copy", "marshal", "open", "write", "rename"}

\* Where a goroutine holds collectionMu, unless it saves an acknowledgement.
Collecting == {"remove", "clear", "snapshot", "ingest", "collect", "sources",
               "unlock"}

TypeOK ==
    /\ up \in BOOLEAN
    /\ items \subseteq Refs
    /\ acks \subseteq Refs
    /\ sources \subseteq SUBSET Refs
    /\ storeMu \in Handlers \cup {Free}
    /\ collMu \in Procs \cup {Free}
    /\ recent \in BOOLEAN
    /\ pc \in [Procs -> {"idle", "lock", "acklock", "ack", "view", "encode"}
                        \cup Collecting \cup Saving]
    /\ req \in [Procs -> {"tasks", "refresh", "reset", "ack", "tick"}]
    /\ arg \in [Procs -> SUBSET Refs]
    /\ snap \in [Procs -> Copies]
    /\ path \in Contents \cup {NoFile, Empty, Torn}
    /\ tmp \in Contents \cup {NoFile, Empty, Torn}
    /\ fd \in [Procs -> {"none", "tmp", "path", "gone"}]

-----------------------------------------------------------------------------
(* Shallow copies of the store's tasks.                                    *)

NoCopy == [tasks |-> {}, acks |-> {}, shared |-> FALSE]

\* copy(items, s.items): the maps are those of the store.
ShallowCopy == [tasks |-> items, acks |-> {}, shared |-> TRUE]

\* The acknowledgements p finds in the maps of its copy.
AcksSeen(p) ==
    IF snap[p].shared THEN acks \cap snap[p].tasks ELSE snap[p].acks

\* A copy that nobody writes to any more.
Detached(p) ==
    [tasks |-> snap[p].tasks, acks |-> AcksSeen(p), shared |-> FALSE]

\* The copies once the store's tasks have been replaced.
AllDetached == [q \in Procs |-> Detached(q)]

-----------------------------------------------------------------------------
(* Requests and the loop's ticks.                                          *)

Goto(p, label) == pc' = [pc EXCEPT ![p] = label]

Receive(h) ==
    /\ up /\ pc[h] = "idle"
    /\ \E m \in Methods :
          /\ req' = [req EXCEPT ![h] = m]
          /\ \/ m = "tasks" /\ Goto(h, "view") /\ UNCHANGED arg
             \/ m \in {"refresh", "reset"} /\ Goto(h, "lock") /\ UNCHANGED arg
             \/ /\ m = "ack"
                /\ Goto(h, "acklock")
                /\ \E r \in Refs : arg' = [arg EXCEPT ![h] = {r}]
    /\ UNCHANGED <<up, storeVars, storeMu, collMu, recent, snap, diskVars>>

Tick ==
    /\ up /\ pc[Loop] = "idle"
    /\ Goto(Loop, "lock")
    /\ UNCHANGED <<up, storeVars, storeMu, collMu, recent, req, arg, snap,
                   diskVars>>

\* Five minutes have passed since lastRefresh.
Elapse ==
    /\ up /\ recent
    /\ recent' = FALSE
    /\ UNCHANGED <<up, storeVars, storeMu, collMu, pc, req, arg, snap,
                   diskVars>>

-----------------------------------------------------------------------------
(* The refresher and the resetter.                                         *)

\* collectionMu is one mutex, shared by the refresher and the resetter.
MayLockPerCaller(p) ==
    collMu = Free \/ (collMu \in Procs /\ req[p] # req[collMu])
MayLock(p) == collMu = Free

\* Where refresher's early return leaves the goroutine.
SkipTickLocked(p) == Goto(p, "idle")
SkipTick(p) == Goto(p, "unlock")

\* mu.Lock(); a tick that comes too early goes straight to the unlock.
Acquire(p) ==
    /\ pc[p] = "lock" /\ MayLock(p)
    /\ collMu' = p
    /\ \/ req[p] = "reset" /\ Goto(p, "remove") /\ UNCHANGED recent
       \/ req[p] = "tick" /\ recent /\ SkipTick(p) /\ UNCHANGED recent
       \/ /\ req[p] = "refresh" \/ (req[p] = "tick" /\ ~recent)
          /\ recent' = TRUE
          /\ Goto(p, "snapshot")
    /\ UNCHANGED <<up, storeVars, storeMu, req, arg, snap, diskVars>>

\* What store.Tasks() hands to the refresher.
PreviousDeep == [tasks |-> items, acks |-> acks \cap items, shared |-> FALSE]
Previous == ShallowCopy

\* previous := store.Tasks()
TakePrevious(p) ==
    /\ pc[p] = "snapshot" /\ storeMu = Free
    /\ snap' = [snap EXCEPT ![p] = Previous]
    /\ Goto(p, "ingest")
    /\ UNCHANGED <<up, storeVars, storeMu, collMu, recent, req, arg, diskVars>>

\* The file Reset deletes.
UnlinkTmp == tmp' = NoFile /\ UNCHANGED <<path, fd>>
Unlink ==
    /\ path' = NoFile
    /\ fd' = [q \in Procs |-> IF fd[q] = "path" THEN "gone" ELSE fd[q]]
    /\ UNCHANGED tmp

\* Reset failed: resetter returns, and its deferred call unlocks.
GiveUpLocked(p) == Goto(p, "idle") /\ UNCHANGED collMu
GiveUp(p) == Goto(p, "idle") /\ collMu' = Free

\* os.Remove of Reset; a failure is returned at once.
Remove(p) ==
    /\ pc[p] = "remove"
    /\ \/ Unlink /\ Goto(p, "clear") /\ UNCHANGED collMu
       \/ DiskFaults /\ GiveUp(p) /\ UNCHANGED diskVars
    /\ UNCHANGED <<up, storeVars, storeMu, recent, req, arg, snap>>

\* The locked part of Reset; the collection that follows gets no previous.
Clear(p) ==
    /\ pc[p] = "clear" /\ storeMu = Free
    /\ items' = {}
    /\ acks' = {}
    /\ sources' = {}
    /\ snap' = [AllDetached EXCEPT ![p] = NoCopy]
    /\ Goto(p, "ingest")
    /\ UNCHANGED <<up, storeMu, collMu, recent, req, arg, diskVars>>

\* activityStateFromPrevious: the collection reads the acknowledgements.
ReadActivity(p) ==
    /\ pc[p] = "ingest"
    /\ snap' = [snap EXCEPT ![p] = Detached(p)]
    /\ Goto(p, "collect")
    /\ UNCHANGED <<up, storeVars, storeMu, collMu, recent, req, arg, diskVars>>

\* Where SetTasks goes on: it always saves.
AfterSetTasksIfAny(p) == Goto(p, IF items' = {} THEN "sources" ELSE "copy")
AfterSetTasks(p) == Goto(p, "copy")

\* The collection ends, with any tasks, and SetTasks replaces the list.
Install(p) ==
    /\ pc[p] = "collect" /\ storeMu = Free
    /\ \E found \in SUBSET Refs :
          /\ items' = found
          /\ acks' = snap[p].acks \cap found
          /\ arg' = [arg EXCEPT ![p] = found]
    /\ snap' = [AllDetached EXCEPT ![p] = NoCopy]
    /\ AfterSetTasks(p)
    /\ UNCHANGED <<up, sources, storeMu, collMu, recent, req, diskVars>>

\* The statuses that SetSources stores.
NewSourcesOfTick(p) == IF req[p] = "tick" THEN {arg[p]} ELSE sources
NewSources(p) == {arg[p]}

SetSources(p) ==
    /\ pc[p] = "sources" /\ storeMu = Free
    /\ sources' = NewSources(p)
    /\ Goto(p, "unlock")
    /\ UNCHANGED <<up, items, acks, storeMu, collMu, recent, req, arg, snap,
                   diskVars>>

\* The deferred mu.Unlock().
Release(p) ==
    /\ pc[p] = "unlock"
    /\ collMu' = Free
    /\ arg' = [arg EXCEPT ![p] = {}]
    /\ Goto(p, IF p = Loop THEN "idle" ELSE "view")
    /\ UNCHANGED <<up, storeVars, storeMu, recent, req, snap, diskVars>>

-----------------------------------------------------------------------------
(* Save, called by SetTasks and by Acknowledge without any mutex.          *)

\* Save returned: a handler answers its ack, a collection goes on.
SaveReturns(p) ==
    /\ Goto(p, IF req[p] = "ack" THEN "view" ELSE "sources")
    /\ fd' = [fd EXCEPT ![p] = "none"]
    /\ snap' = [snap EXCEPT ![p] = NoCopy]

SaveCopy(p) ==
    /\ pc[p] = "copy" /\ storeMu = Free
    /\ snap' = [snap EXCEPT ![p] = ShallowCopy]
    /\ Goto(p, "marshal")
    /\ UNCHANGED <<up, storeVars, storeMu, collMu, recent, req, arg, diskVars>>

\* json.MarshalIndent reads the shared maps after the lock is gone.
Marshal(p) ==
    /\ pc[p] = "marshal"
    /\ snap' = [snap EXCEPT ![p] = Detached(p)]
    /\ Goto(p, "open")
    /\ UNCHANGED <<up, storeVars, storeMu, collMu, recent, req, arg, diskVars>>

\* What is written to the file: not what else a goroutine knows of its copy.
EncodedWhole(p) == snap[p]
Encoded(p) == [tasks |-> snap[p].tasks, acks |-> snap[p].acks]

\* os.WriteFile opens with O_CREATE and O_TRUNC: another writer of the same
\* temporary file keeps writing to the same inode.
TruncateInPlace(p) ==
    path' = Empty /\ fd' = [fd EXCEPT ![p] = "path"] /\ UNCHANGED tmp
Truncate(p) ==
    tmp' = Empty /\ fd' = [fd EXCEPT ![p] = "tmp"] /\ UNCHANGED path

OpenTmp(p) ==
    /\ pc[p] = "open"
    /\ \/ Truncate(p) /\ Goto(p, "write") /\ UNCHANGED snap
       \/ DiskFaults /\ SaveReturns(p) /\ UNCHANGED <<path, tmp>>
    /\ UNCHANGED <<up, storeVars, storeMu, collMu, recent, req, arg>>

\* What writing data from offset 0 may leave in a file: a shorter write over
\* a longer one keeps the old tail.
Overlaid(old, data) == IF old \in {Empty, data} THEN {data} ELSE {data, Torn}

\* The file under p's descriptor now holds c.
Stored(p, c) ==
    /\ tmp' = IF fd[p] = "tmp" THEN c ELSE tmp
    /\ path' = IF fd[p] = "path" THEN c ELSE path

WriteTmp(p) ==
    /\ pc[p] = "write"
    /\ LET old == IF fd[p] = "path" THEN path ELSE tmp IN
       \/ /\ \E c \in Overlaid(old, Encoded(p)) : Stored(p, c)
          /\ Goto(p, "rename")
          /\ UNCHANGED <<fd, snap>>
       \/ DiskFaults /\ Stored(p, Torn) /\ SaveReturns(p)
    /\ UNCHANGED <<up, storeVars, storeMu, collMu, recent, req, arg>>

\* os.Rename; it fails if another Save has renamed the file away.  Open
\* descriptors follow their inodes; those of the replaced file are orphaned.
RenameTmp(p) ==
    /\ pc[p] = "rename"
    /\ \/ /\ tmp # NoFile
          /\ path' = tmp
          /\ tmp' = NoFile
          /\ fd' = [q \in Procs |->
                       IF q = p THEN "none"
                       ELSE CASE fd[q] = "path" -> "gone"
                              [] fd[q] = "tmp"  -> "path"
                              [] OTHER          -> fd[q]]
          /\ Goto(p, IF req[p] = "ack" THEN "view" ELSE "sources")
          /\ snap' = [snap EXCEPT ![p] = NoCopy]
       \/ /\ tmp = NoFile \/ DiskFaults
          /\ SaveReturns(p)
          /\ UNCHANGED <<path, tmp>>
    /\ UNCHANGED <<up, storeVars, storeMu, collMu, recent, req, arg>>

-----------------------------------------------------------------------------
(* Acknowledge, and the answer every request ends with.                    *)

AckLock(p) ==
    /\ pc[p] = "acklock" /\ storeMu = Free
    /\ storeMu' = p
    /\ Goto(p, "ack")
    /\ UNCHANGED <<up, storeVars, collMu, recent, req, arg, snap, diskVars>>

\* The locked part of Acknowledge; nothing is saved for an unknown task.
Acknowledge(p) ==
    /\ pc[p] = "ack"
    /\ acks' = acks \cup (arg[p] \cap items)
    /\ items' = items \ (arg[p] \cap Droppable)
    /\ storeMu' = Free
    /\ arg' = [arg EXCEPT ![p] = {}]
    /\ Goto(p, IF arg[p] \cap items = {} THEN "view" ELSE "copy")
    /\ UNCHANGED <<up, sources, collMu, recent, req, snap, diskVars>>

\* store.Tasks() for the response.
View(p) ==
    /\ pc[p] = "view" /\ storeMu = Free
    /\ snap' = [snap EXCEPT ![p] = ShallowCopy]
    /\ Goto(p, "encode")
    /\ UNCHANGED <<up, storeVars, storeMu, collMu, recent, req, arg, diskVars>>

\* encoder.Encode reads the shared maps after the lock is gone.
Encode(p) ==
    /\ pc[p] = "encode"
    /\ snap' = [snap EXCEPT ![p] = NoCopy]
    /\ Goto(p, "idle")
    /\ UNCHANGED <<up, storeVars, storeMu, collMu, recent, req, arg, diskVars>>

-----------------------------------------------------------------------------
(* The process: killed at any point, started again on what is on disk.     *)

\* Everything a process holds in memory when it starts.
FreshProcess ==
    /\ storeMu' = Free /\ collMu' = Free
    /\ recent' = FALSE
    /\ sources' = {}
    /\ req' = [p \in Procs |-> "tick"]
    /\ arg' = [p \in Procs |-> {}]
    /\ snap' = [p \in Procs |-> NoCopy]
    /\ fd' = [p \in Procs |-> "none"]

Crash ==
    /\ up
    /\ up' = FALSE
    /\ items' = {} /\ acks' = {}
    /\ pc' = [p \in Procs |-> "idle"]
    /\ FreshProcess
    /\ UNCHANGED <<path, tmp>>

\* What Load makes of tasks.json: a file it cannot read counts as empty.
Loaded ==
    IF path \in Contents THEN path ELSE [tasks |-> {}, acks |-> {}]

\* The tasks the store starts with.
InitialNone == items' = {} /\ acks' = {}
Initial == items' = Loaded.tasks /\ acks' = Loaded.acks

\* NewStore and the loop's immediate first refresh.
Boot ==
    /\ ~up
    /\ up' = TRUE
    /\ Initial
    /\ pc' = [p \in Procs |-> IF p = Loop THEN "lock" ELSE "idle"]
    /\ FreshProcess
    /\ UNCHANGED <<path, tmp>>

-----------------------------------------------------------------------------
Init ==
    /\ up = FALSE
    /\ items = {} /\ acks = {}
    /\ sources = {}
    /\ storeMu = Free /\ collMu = Free
    /\ recent = FALSE
    /\ pc = [p \in Procs |-> "idle"]
    /\ req = [p \in Procs |-> "tick"]
    /\ arg = [p \in Procs |-> {}]
    /\ snap = [p \in Procs |-> NoCopy]
    /\ path = NoFile /\ tmp = NoFile
    /\ fd = [p \in Procs |-> "none"]

Collection(p) ==
    \/ Acquire(p) \/ TakePrevious(p) \/ Remove(p) \/ Clear(p)
    \/ ReadActivity(p) \/ Install(p) \/ SetSources(p) \/ Release(p)

Save(p) ==
    \/ SaveCopy(p) \/ Marshal(p) \/ OpenTmp(p) \/ WriteTmp(p) \/ RenameTmp(p)

Answer(p) == AckLock(p) \/ Acknowledge(p) \/ View(p) \/ Encode(p)

Step(p) == Collection(p) \/ Save(p) \/ Answer(p)

Next ==
    \/ \E h \in Handlers : Receive(h)
    \/ \E p \in Procs : Step(p)
    \/ Tick \/ Elapse \/ Crash \/ Boot

Spec == Init /\ [][Next]_vars

\* sync.Mutex hands the lock to a goroutine that has waited too long, so a
\* goroutine that can move again and again does; the ticker, the clock and
\* whoever starts the daemon never stop for good.
Fairness ==
    /\ \A p \in Procs : SF_vars(Step(p))
    /\ WF_vars(Tick) /\ WF_vars(Elapse) /\ WF_vars(Boot)

FairSpec == Spec /\ Fairness

-----------------------------------------------------------------------------
(* Properties.  The runs say for which requests each of them holds.        *)

\* Between emptying the store and installing the new collection, a reset is
\* alone with the store: nothing it was asked to forget comes back into memory,
\* whatever refreshes, ticks and acknowledgements are under way.
\* (resetter holds collectionMu from Reset to SetSources.)
ResetIsolated ==
    \A p \in Procs :
        req[p] = "reset" /\ pc[p] \in {"ingest", "collect"} =>
            items = {} /\ acks = {}

\* Tasks and source statuses are set under two separate locks, yet once nobody
\* collects they belong together: every stored task was found by the collection
\* whose statuses are stored.  (SetTasks and SetSources in refresher, resetter.)
QuietSources ==
    collMu = Free => \A found \in sources : items \subseteq found

\* No goroutine reads a Metadata map, through a shallow copy it took under the
\* store's lock, while Acknowledge writes that map.  (The Go runtime ends the
\* process when it sees a map read and written at once.)
NoMapRace ==
    \A p, q \in Procs :
        pc[p] = "ack" /\ pc[q] \in {"ingest", "marshal", "encode"} /\ snap[q].shared =>
            arg[p] \cap items \cap snap[q].tasks = {}

\* Every request is answered, or the daemon dies first: the two mutexes are
\* never left locked and no two goroutines wait for each other.  (deferred
\* Unlock in refresher and resetter, the explicit ones in Store.)
RequestsAnswered ==
    \A h \in Handlers : pc[h] # "idle" ~> pc[h] = "idle"

\* A daemon that stays up collects for ever, although every tick that meets a
\* recent refresh is skipped and no request may come.  (refreshLoop and the
\* five minute check of refresher.)
PeriodicRefresh ==
    <>[]up => []<>(\E p \in Procs : req[p] \in {"tick", "refresh"} /\ pc[p] = "collect")
=============================================================================
