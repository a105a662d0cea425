----------------------------- MODULE Daemon_proofs -----------------------------
(***************************************************************************)
(* Theorems about Daemon, for any number of connections and any tasks.     *)
(* First the memory: the types, the isolation of a reset, and the          *)
(* agreement of the stored tasks with the stored source statuses, which    *)
(* need to know who holds collectionMu.  Then, for DaemonHistory, which    *)
(* acknowledgements a collection may lose.  Last the file, in DaemonFile:  *)
(* tasks.json is whole, current and deleted when it has to be, but for     *)
(* what Saves that met or failed have caused, and the daemon implements    *)
(* DurableTasks.                                                           *)
(***************************************************************************)
EXTENDS DaemonHistory, DaemonFile, TLAPS

-----------------------------------------------------------------------------
(* The inductive invariant.                                                *)

InCollection(p) == pc[p] \in Collecting \/ (pc[p] \in Saving /\ req[p] # "ack")

\* A goroutine between the two ends of a collection holds collectionMu.
Exclusion == \A p \in Procs : InCollection(p) => collMu = p

\* Where a goroutine is agrees with what it was asked for.
RequestsMatch ==
    /\ req[Loop] = "tick"
    /\ \A p \in Procs :
          /\ pc[p] \in {"acklock", "ack"} => req[p] = "ack"
          /\ pc[p] = "snapshot" => req[p] # "reset"
          /\ pc[p] \in Collecting => req[p] # "ack"

DownIdle == ~up => \A p \in Procs : pc[p] = "idle"

\* Between SetTasks and SetSources.
Between(p) == pc[p] \in Saving \cup {"sources"} /\ req[p] # "ack"

\* The stored tasks were found by the collection whose statuses are stored, or
\* by the one that is about to store its own.
SourcesFollow ==
    /\ \A p \in Procs : Between(p) => items \subseteq arg[p]
    /\ (\A p \in Procs : ~Between(p)) =>
          \A found \in sources : items \subseteq found

Control == Exclusion /\ RequestsMatch /\ DownIdle

IInv == TypeOK /\ Control /\ ResetIsolated /\ SourcesFollow

USE DEF Procs, Goto, storeVars, diskVars, Saving, Collecting, IInv, Control

-----------------------------------------------------------------------------
(* Copies keep their type.                                                 *)

LEMMA DetachedType == ASSUME TypeOK, NEW p \in Procs PROVE Detached(p) \in Copies
  BY DEF Detached, AcksSeen, TypeOK, Copies

LEMMA NoCopyType == NoCopy \in Copies
  BY DEF NoCopy, Copies

LEMMA ShallowCopyType == TypeOK => ShallowCopy \in Copies
  BY DEF ShallowCopy, TypeOK, Copies

-----------------------------------------------------------------------------
(* Every action preserves the invariant.                                   *)

LEMMA InitInv == Init => IInv
<1>1. Init => TypeOK
  BY NoCopyType DEF Init, TypeOK
<1>2. Init => Control /\ ResetIsolated /\ SourcesFollow
  BY DEF Init, Exclusion, InCollection, RequestsMatch, DownIdle, ResetIsolated,
     SourcesFollow
<1> QED
  BY <1>1, <1>2

LEMMA ReceiveInv ==
    ASSUME IInv, NEW h \in Handlers, Receive(h) PROVE IInv'
<1>1. TypeOK'
  BY DEF Receive, TypeOK
<1>2. Control'
  BY DaemonAssumption DEF Receive, Exclusion, InCollection, RequestsMatch,
     DownIdle, TypeOK
<1>3. ResetIsolated'
  BY DEF Receive, ResetIsolated, TypeOK
<1>4. SourcesFollow'
  BY DEF Receive, SourcesFollow, Between, TypeOK
<1> QED
  BY <1>1, <1>2, <1>3, <1>4

LEMMA TickInv ==
    ASSUME IInv, Tick PROVE IInv'
<1>1. TypeOK'
  BY DEF Tick, TypeOK
<1>2. Control'
  BY DEF Tick, Exclusion, InCollection, RequestsMatch, DownIdle
<1>3. ResetIsolated'
  BY DEF Tick, ResetIsolated
<1>4. SourcesFollow'
  BY DEF Tick, SourcesFollow, Between
<1> QED
  BY <1>1, <1>2, <1>3, <1>4

LEMMA ElapseInv ==
    ASSUME IInv, Elapse PROVE IInv'
<1>1. TypeOK'
  BY DEF Elapse, TypeOK
<1>2. Control'
  BY DEF Elapse, Exclusion, InCollection, RequestsMatch, DownIdle
<1>3. ResetIsolated'
  BY DEF Elapse, ResetIsolated
<1>4. SourcesFollow'
  BY DEF Elapse, SourcesFollow, Between
<1> QED
  BY <1>1, <1>2, <1>3, <1>4

LEMMA AcquireInv ==
    ASSUME IInv, NEW p \in Procs, Acquire(p) PROVE IInv'
<1>1. TypeOK'
  BY DEF Acquire, SkipTick, TypeOK
<1>2. Control'
  BY DaemonAssumption DEF Acquire, MayLock, SkipTick, Exclusion, InCollection,
     RequestsMatch, DownIdle, TypeOK
<1>3. ResetIsolated'
  BY DEF Acquire, SkipTick, ResetIsolated, TypeOK
<1>4. SourcesFollow'
  BY DEF Acquire, SkipTick, SourcesFollow, Between, TypeOK
<1> QED
  BY <1>1, <1>2, <1>3, <1>4

LEMMA TakePreviousInv ==
    ASSUME IInv, NEW p \in Procs, TakePrevious(p) PROVE IInv'
<1>1. TypeOK'
  BY ShallowCopyType DEF TakePrevious, Previous, TypeOK
<1>2. Control'
  BY DEF TakePrevious, Exclusion, InCollection, RequestsMatch, DownIdle
<1>3. ResetIsolated'
  BY DEF TakePrevious, ResetIsolated, RequestsMatch
<1>4. SourcesFollow'
  BY DEF TakePrevious, SourcesFollow, Between
<1> QED
  BY <1>1, <1>2, <1>3, <1>4

LEMMA RemoveInv ==
    ASSUME IInv, NEW p \in Procs, Remove(p) PROVE IInv'
<1>1. TypeOK'
  BY DEF Remove, Unlink, GiveUp, TypeOK
<1>2. Control'
  BY DEF Remove, GiveUp, Exclusion, InCollection, RequestsMatch, DownIdle,
     TypeOK
<1>3. ResetIsolated'
  BY DEF Remove, GiveUp, ResetIsolated, TypeOK
<1>4. SourcesFollow'
  BY DEF Remove, GiveUp, SourcesFollow, Between, TypeOK
<1> QED
  BY <1>1, <1>2, <1>3, <1>4

LEMMA ClearInv ==
    ASSUME IInv, NEW p \in Procs, Clear(p) PROVE IInv'
<1>1. TypeOK'
  BY DetachedType, NoCopyType DEF Clear, AllDetached, TypeOK
<1>2. Control'
  BY DEF Clear, Exclusion, InCollection, RequestsMatch, DownIdle
<1>3. ResetIsolated'
  BY DEF Clear, ResetIsolated
<1>4. SourcesFollow'
  BY DEF Clear, SourcesFollow
<1> QED
  BY <1>1, <1>2, <1>3, <1>4

LEMMA ReadActivityInv ==
    ASSUME IInv, NEW p \in Procs, ReadActivity(p) PROVE IInv'
<1>1. TypeOK'
  BY DetachedType DEF ReadActivity, TypeOK
<1>2. Control'
  BY DEF ReadActivity, Exclusion, InCollection, RequestsMatch, DownIdle
<1>3. ResetIsolated'
  BY DEF ReadActivity, ResetIsolated
<1>4. SourcesFollow'
  BY DEF ReadActivity, SourcesFollow, Between
<1> QED
  BY <1>1, <1>2, <1>3, <1>4

LEMMA InstallInv ==
    ASSUME IInv, NEW p \in Procs, Install(p) PROVE IInv'
<1>1. TypeOK'
  <2>1. snap' \in [Procs -> Copies]
    BY DetachedType, NoCopyType DEF Install, AllDetached
  <2>2. items' \subseteq Refs /\ acks' \subseteq Refs
    BY DEF Install
  <2>3. arg' \in [Procs -> SUBSET Refs]
    BY DEF Install, TypeOK
  <2> QED
    BY <2>1, <2>2, <2>3 DEF Install, AfterSetTasks, TypeOK
<1>2. Control'
  BY DEF Install, AfterSetTasks, Exclusion, InCollection, RequestsMatch,
     DownIdle
<1>3. ResetIsolated'
  BY DEF Install, AfterSetTasks, ResetIsolated, Exclusion, InCollection, TypeOK
<1>4. SourcesFollow'
  <2>1. \A q \in Procs \ {p} : ~Between(q)'
    BY DEF Install, AfterSetTasks, Exclusion, InCollection, Between
  <2>2. items' \subseteq arg'[p]
    BY DEF Install, TypeOK
  <2>3. req[p] # "ack" => Between(p)'
    BY DEF Install, AfterSetTasks, Between, TypeOK
  <2>4. req[p] # "ack"
    BY DEF Install, RequestsMatch
  <2> QED
    BY <2>1, <2>2, <2>3, <2>4 DEF SourcesFollow
<1> QED
  BY <1>1, <1>2, <1>3, <1>4

LEMMA SetSourcesInv ==
    ASSUME IInv, NEW p \in Procs, SetSources(p) PROVE IInv'
<1>1. TypeOK'
  BY DEF SetSources, NewSources, TypeOK
<1>2. Control'
  BY DEF SetSources, Exclusion, InCollection, RequestsMatch, DownIdle
<1>3. ResetIsolated'
  BY DEF SetSources, ResetIsolated
<1>4. SourcesFollow'
  <2>1. \A q \in Procs : ~Between(q)'
    BY DEF SetSources, Exclusion, InCollection, Between, TypeOK
  <2>2. Between(p)
    BY DEF SetSources, RequestsMatch, Between
  <2>3. \A found \in sources' : items' \subseteq found
    BY <2>2 DEF SetSources, NewSources, SourcesFollow
  <2> QED
    BY <2>1, <2>3 DEF SourcesFollow
<1> QED
  BY <1>1, <1>2, <1>3, <1>4

LEMMA ReleaseInv ==
    ASSUME IInv, NEW p \in Procs, Release(p) PROVE IInv'
<1>1. TypeOK'
  BY DEF Release, TypeOK
<1>2. Control'
  BY DEF Release, Exclusion, InCollection, RequestsMatch, DownIdle, TypeOK
<1>3. ResetIsolated'
  BY DEF Release, ResetIsolated
<1>4. SourcesFollow'
  BY DEF Release, SourcesFollow, Between
<1> QED
  BY <1>1, <1>2, <1>3, <1>4

LEMMA SaveCopyInv ==
    ASSUME IInv, NEW p \in Procs, SaveCopy(p) PROVE IInv'
<1>1. TypeOK'
  BY ShallowCopyType DEF SaveCopy, TypeOK
<1>2. Control'
  BY DEF SaveCopy, Exclusion, InCollection, RequestsMatch, DownIdle
<1>3. ResetIsolated'
  BY DEF SaveCopy, ResetIsolated
<1>4. SourcesFollow'
  BY DEF SaveCopy, SourcesFollow, Between
<1> QED
  BY <1>1, <1>2, <1>3, <1>4

LEMMA MarshalInv ==
    ASSUME IInv, NEW p \in Procs, Marshal(p) PROVE IInv'
<1>1. TypeOK'
  BY DetachedType DEF Marshal, TypeOK
<1>2. Control'
  BY DEF Marshal, Exclusion, InCollection, RequestsMatch, DownIdle
<1>3. ResetIsolated'
  BY DEF Marshal, ResetIsolated
<1>4. SourcesFollow'
  BY DEF Marshal, SourcesFollow, Between
<1> QED
  BY <1>1, <1>2, <1>3, <1>4

LEMMA OpenTmpInv ==
    ASSUME IInv, NEW p \in Procs, OpenTmp(p) PROVE IInv'
<1>1. TypeOK'
  <2>1. CASE Truncate(p) /\ Goto(p, "write") /\ UNCHANGED snap
    BY <2>1 DEF OpenTmp, Truncate, TypeOK
  <2>2. CASE SaveReturns(p) /\ UNCHANGED <<path, tmp>>
    BY <2>2, NoCopyType DEF OpenTmp, SaveReturns, TypeOK
  <2> QED
    BY <2>1, <2>2 DEF OpenTmp
<1>2. Control'
  BY DEF OpenTmp, SaveReturns, Exclusion, InCollection, RequestsMatch, DownIdle,
     TypeOK
<1>3. ResetIsolated'
  BY DEF OpenTmp, SaveReturns, ResetIsolated, TypeOK
<1>4. SourcesFollow'
  BY DEF OpenTmp, SaveReturns, SourcesFollow, Between, TypeOK
<1> QED
  BY <1>1, <1>2, <1>3, <1>4

LEMMA WriteTmpInv ==
    ASSUME IInv, NEW p \in Procs, WriteTmp(p) PROVE IInv'
<1>1. TypeOK'
  <2>1. Encoded(p) \in Contents
    BY DEF Encoded, TypeOK, Copies, Contents
  <2>2. ASSUME NEW c \in Contents \cup {Torn}, Stored(p, c)
        PROVE  {path', tmp'} \subseteq Contents \cup {NoFile, Empty, Torn}
    BY <2>2 DEF Stored, TypeOK
  <2>3. {path', tmp'} \subseteq Contents \cup {NoFile, Empty, Torn}
    BY <2>1, <2>2 DEF WriteTmp, Overlaid
  <2>4. CASE Goto(p, "rename") /\ UNCHANGED <<fd, snap>>
    BY <2>3, <2>4 DEF WriteTmp, TypeOK
  <2>5. CASE SaveReturns(p)
    BY <2>3, <2>5, NoCopyType DEF WriteTmp, SaveReturns, TypeOK
  <2> QED
    BY <2>4, <2>5 DEF WriteTmp
<1>2. Control'
  BY DEF WriteTmp, SaveReturns, Exclusion, InCollection, RequestsMatch,
     DownIdle, TypeOK
<1>3. ResetIsolated'
  BY DEF WriteTmp, SaveReturns, ResetIsolated, TypeOK
<1>4. SourcesFollow'
  BY DEF WriteTmp, SaveReturns, SourcesFollow, Between, TypeOK
<1> QED
  BY <1>1, <1>2, <1>3, <1>4

LEMMA RenameTmpInv ==
    ASSUME IInv, NEW p \in Procs, RenameTmp(p) PROVE IInv'
<1>1. TypeOK'
  <2>1. pc' \in [Procs -> {"idle", "lock", "acklock", "ack", "view", "encode"}
                            \cup Collecting \cup Saving]
    BY DEF RenameTmp, SaveReturns, TypeOK
  <2>2. snap' \in [Procs -> Copies]
    BY NoCopyType DEF RenameTmp, SaveReturns, TypeOK
  <2>3. {path', tmp'} \subseteq Contents \cup {NoFile, Empty, Torn}
    BY DEF RenameTmp, TypeOK
  <2>4. fd' \in [Procs -> {"none", "tmp", "path", "gone"}]
    <3>1. CASE UNCHANGED <<path, tmp>> /\ SaveReturns(p)
      BY <3>1 DEF SaveReturns, TypeOK
    <3>2. CASE fd' = [q \in Procs |->
                         IF q = p THEN "none"
                         ELSE CASE fd[q] = "path" -> "gone"
                                [] fd[q] = "tmp"  -> "path"
                                [] OTHER          -> fd[q]]
      BY <3>2 DEF TypeOK
    <3> QED
      BY <3>1, <3>2 DEF RenameTmp
  <2> QED
    BY <2>1, <2>2, <2>3, <2>4 DEF RenameTmp, TypeOK
<1>2. Control'
  BY DEF RenameTmp, SaveReturns, Exclusion, InCollection, RequestsMatch,
     DownIdle, TypeOK
<1>3. ResetIsolated'
  BY DEF RenameTmp, SaveReturns, ResetIsolated, TypeOK
<1>4. SourcesFollow'
  BY DEF RenameTmp, SaveReturns, SourcesFollow, Between, TypeOK
<1> QED
  BY <1>1, <1>2, <1>3, <1>4

LEMMA AckLockInv ==
    ASSUME IInv, NEW p \in Procs, AckLock(p) PROVE IInv'
<1>1. TypeOK'
  BY DEF AckLock, TypeOK, RequestsMatch
<1>2. Control'
  BY DEF AckLock, Exclusion, InCollection, RequestsMatch, DownIdle
<1>3. ResetIsolated'
  BY DEF AckLock, ResetIsolated
<1>4. SourcesFollow'
  BY DEF AckLock, SourcesFollow, Between
<1> QED
  BY <1>1, <1>2, <1>3, <1>4

LEMMA AcknowledgeInv ==
    ASSUME IInv, NEW p \in Procs, Acknowledge(p) PROVE IInv'
<1>1. TypeOK'
  BY DEF Acknowledge, TypeOK
<1>2. Control'
  BY DEF Acknowledge, Exclusion, InCollection, RequestsMatch, DownIdle
<1>3. ResetIsolated'
  BY DEF Acknowledge, ResetIsolated
<1>4. SourcesFollow'
  BY DEF Acknowledge, SourcesFollow, Between, RequestsMatch
<1> QED
  BY <1>1, <1>2, <1>3, <1>4

LEMMA ViewInv ==
    ASSUME IInv, NEW p \in Procs, View(p) PROVE IInv'
<1>1. TypeOK'
  BY ShallowCopyType DEF View, TypeOK
<1>2. Control'
  BY DEF View, Exclusion, InCollection, RequestsMatch, DownIdle
<1>3. ResetIsolated'
  BY DEF View, ResetIsolated
<1>4. SourcesFollow'
  BY DEF View, SourcesFollow, Between
<1> QED
  BY <1>1, <1>2, <1>3, <1>4

LEMMA EncodeInv ==
    ASSUME IInv, NEW p \in Procs, Encode(p) PROVE IInv'
<1>1. TypeOK'
  BY NoCopyType DEF Encode, TypeOK
<1>2. Control'
  BY DEF Encode, Exclusion, InCollection, RequestsMatch, DownIdle
<1>3. ResetIsolated'
  BY DEF Encode, ResetIsolated
<1>4. SourcesFollow'
  BY DEF Encode, SourcesFollow, Between
<1> QED
  BY <1>1, <1>2, <1>3, <1>4

LEMMA CrashInv ==
    ASSUME IInv, Crash PROVE IInv'
<1>1. TypeOK'
  BY NoCopyType DEF Crash, FreshProcess, TypeOK
<1>2. Control'
  BY DEF Crash, FreshProcess, Exclusion, InCollection, RequestsMatch, DownIdle
<1>3. ResetIsolated'
  BY DEF Crash, ResetIsolated
<1>4. SourcesFollow'
  BY DEF Crash, SourcesFollow
<1> QED
  BY <1>1, <1>2, <1>3, <1>4

LEMMA BootInv ==
    ASSUME IInv, Boot PROVE IInv'
<1>1. TypeOK'
  BY NoCopyType DEF Boot, Initial, Loaded, FreshProcess, TypeOK, Contents
<1>2. Control'
  BY DEF Boot, FreshProcess, Exclusion, InCollection, RequestsMatch, DownIdle
<1>3. ResetIsolated'
  BY DEF Boot, ResetIsolated
<1>4. SourcesFollow'
  BY DEF Boot, FreshProcess, SourcesFollow, Between
<1> QED
  BY <1>1, <1>2, <1>3, <1>4

LEMMA StutterInv == IInv /\ UNCHANGED vars => IInv'
  BY DEF vars, TypeOK, Exclusion, InCollection, RequestsMatch, DownIdle,
     ResetIsolated, SourcesFollow, Between

LEMMA NextInv == IInv /\ [Next]_vars => IInv'
<1> SUFFICES ASSUME IInv, [Next]_vars PROVE IInv'
  OBVIOUS
<1>1. CASE \E h \in Handlers : Receive(h)
  BY <1>1, ReceiveInv
<1>2. ASSUME NEW p \in Procs, Collection(p) PROVE IInv'
  BY <1>2, AcquireInv, TakePreviousInv, RemoveInv, ClearInv, ReadActivityInv,
     InstallInv, SetSourcesInv, ReleaseInv DEF Collection
<1>3. ASSUME NEW p \in Procs, Save(p) PROVE IInv'
  BY <1>3, SaveCopyInv, MarshalInv, OpenTmpInv, WriteTmpInv, RenameTmpInv
     DEF Save
<1>4. ASSUME NEW p \in Procs, Answer(p) PROVE IInv'
  BY <1>4, AckLockInv, AcknowledgeInv, ViewInv, EncodeInv DEF Answer
<1>5. CASE Tick \/ Elapse \/ Crash \/ Boot
  BY <1>5, TickInv, ElapseInv, CrashInv, BootInv
<1>6. CASE UNCHANGED vars
  BY <1>6, StutterInv
<1> QED
  BY <1>1, <1>2, <1>3, <1>4, <1>5, <1>6 DEF Next, Step

-----------------------------------------------------------------------------
(* The theorems.                                                           *)

\* Whoever is between the ends of a collection holds collectionMu, in every
\* reachable state, crashes, failing disks and acknowledgements included.
THEOREM Invariance == Spec => []IInv
<1>1. Init => IInv
  BY InitInv
<1>2. IInv /\ [Next]_vars => IInv'
  BY NextInv
<1> QED
  BY <1>1, <1>2, PTL DEF Spec

\* Every variable of the daemon keeps its type.
THEOREM TypeCorrect == Spec => []TypeOK
<1>1. IInv => TypeOK
  OBVIOUS
<1> QED
  BY <1>1, Invariance, PTL

\* Nothing comes back into memory between the emptying of the store by a reset
\* and the end of its collection.  (resetter and collectionMu.)
THEOREM ResetsAreIsolated == Spec => []ResetIsolated
<1>1. IInv => ResetIsolated
  OBVIOUS
<1> QED
  BY <1>1, Invariance, PTL

\* Once nobody collects, the stored tasks were found by the collection whose
\* source statuses are stored.  (SetTasks, SetSources.)
THEOREM SourcesMatchTasks == Spec => []QuietSources
<1>1. IInv => QuietSources
  <2> SUFFICES ASSUME IInv, collMu = Free
               PROVE  \A found \in sources : items \subseteq found
    BY DEF QuietSources
  <2>1. \A p \in Procs : ~Between(p)
    BY DaemonAssumption DEF Between, Exclusion, InCollection
  <2> QED
    BY <2>1 DEF SourcesFollow
<1> QED
  BY <1>1, Invariance, PTL

-----------------------------------------------------------------------------
(* Acknowledgements while a collection is under way, in DaemonHistory.     *)

\* Until the collection reads the acknowledgements it has the store's own maps
\* of every task; afterwards it has every acknowledgement that is not late.
ReadsMaps(p) == pc[p] = "ingest" => items = {} \/ (snap[p].shared /\ items \subseteq snap[p].tasks)
HasRead(p) == pc[p] = "collect" => acks \cap items \subseteq snap[p].acks \cup late
DownEmpty == ~up => items = {}
HInv == DownEmpty /\ \A p \in Procs : ReadsMaps(p) /\ HasRead(p)

\* Steps of one goroutine that leave the store and its list of late ones alone.
LEMMA SideStep ==
    ASSUME HInv, NEW p \in Procs, UNCHANGED <<up, items, acks, late>>,
           \A q \in Procs \ {p} : pc'[q] = pc[q] /\ snap'[q] = snap[q],
           pc'[p] \notin {"ingest", "collect"}
    PROVE  HInv'
  BY DEF HInv, DownEmpty, ReadsMaps, HasRead

LEMMA SideSteps ==
    ASSUME IInv, HInv, UNCHANGED late, NEW p \in Procs,
           \/ p \in Handlers /\ Receive(p)
           \/ p = Loop /\ Tick
           \/ Acquire(p) \/ Remove(p) \/ SetSources(p) \/ Release(p)
           \/ Save(p) \/ AckLock(p) \/ View(p) \/ Encode(p)
    PROVE  HInv'
<1>1. CASE p \in Handlers /\ Receive(p)
  BY <1>1, SideStep DEF Receive, TypeOK
<1>2. CASE p = Loop /\ Tick
  BY <1>2, SideStep DEF Tick, TypeOK
<1>3. CASE Acquire(p) \/ Remove(p)
  BY <1>3, SideStep DEF Acquire, SkipTick, Remove, GiveUp, TypeOK
<1>4. CASE SetSources(p) \/ Release(p) \/ AckLock(p) \/ View(p) \/ Encode(p)
  BY <1>4, SideStep DEF SetSources, Release, AckLock, View, Encode, TypeOK
<1>5. CASE SaveCopy(p) \/ Marshal(p)
  BY <1>5, SideStep DEF SaveCopy, Marshal, TypeOK
<1>6. CASE OpenTmp(p) \/ WriteTmp(p) \/ RenameTmp(p)
  BY <1>6, SideStep DEF OpenTmp, WriteTmp, RenameTmp, SaveReturns, TypeOK
<1> QED
  BY <1>1, <1>2, <1>3, <1>4, <1>5, <1>6 DEF Save

\* Who collects is alone, and the daemon runs.
LEMMA AloneCollecting ==
    ASSUME IInv, NEW p \in Procs, pc[p] \in Collecting
    PROVE  up /\ \A q \in Procs \ {p} : pc[q] \notin Collecting
  BY DEF Exclusion, InCollection, DownIdle

LEMMA HistoryStep == IInv /\ HInv /\ [HNext]_<<vars, late>> => HInv'
<1> SUFFICES ASSUME IInv, HInv, [HNext]_<<vars, late>> PROVE HInv'
  OBVIOUS
<1>1. CASE UNCHANGED <<vars, late>>
  BY <1>1 DEF vars, HInv, DownEmpty, ReadsMaps, HasRead
<1>2. ASSUME NEW p \in Procs, Acknowledge(p), late' = late \cup (IF Committed THEN Acked(p) ELSE {})
      PROVE  HInv'
  <2>1. /\ acks' = acks \cup Acked(p) /\ items' \subseteq items /\ UNCHANGED <<up, snap>>
        /\ pc'[p] \notin {"ingest", "collect"} /\ \A q \in Procs \ {p} : pc'[q] = pc[q]
    BY <1>2 DEF Acknowledge, Acked, TypeOK
  <2>2. ASSUME NEW q \in Procs, pc'[q] = "collect" PROVE acks' \cap items' \subseteq snap[q].acks \cup late'
    <3>1. pc[q] = "collect" /\ Committed
      BY <2>1, <2>2 DEF Committed
    <3>2. acks \cap items \subseteq snap[q].acks \cup late
      BY <3>1 DEF HInv, HasRead
    <3> QED
      BY <1>2, <2>1, <3>1, <3>2
  <2>3. ASSUME NEW q \in Procs, pc'[q] = "ingest"
        PROVE  items' = {} \/ (snap[q].shared /\ items' \subseteq snap[q].tasks)
    BY <2>1, <2>3 DEF HInv, ReadsMaps
  <2> QED
    BY <2>1, <2>2, <2>3 DEF HInv, DownEmpty, ReadsMaps, HasRead
<1>3. ASSUME NEW p \in Procs, Install(p), late' = {} PROVE HInv'
  <2>1. /\ up' = up /\ up
        /\ \A q \in Procs : pc'[q] \notin {"ingest", "collect"}
    BY <1>3, AloneCollecting DEF Install, AfterSetTasks, TypeOK
  <2> QED
    BY <2>1 DEF HInv, DownEmpty, ReadsMaps, HasRead
<1>4. CASE Crash /\ late' = {}
  BY <1>4 DEF Crash, HInv, DownEmpty, ReadsMaps, HasRead
<1>5. CASE Elapse /\ UNCHANGED late
  BY <1>5 DEF Elapse, HInv, DownEmpty, ReadsMaps, HasRead
<1>6. CASE Boot /\ UNCHANGED late
  BY <1>6 DEF Boot, HInv, DownEmpty, ReadsMaps, HasRead
<1>7. ASSUME NEW p \in Procs, TakePrevious(p), UNCHANGED late PROVE HInv'
  <2>1. \A q \in Procs \ {p} : pc'[q] = pc[q] /\ snap'[q] = snap[q] /\ pc[q] \notin {"ingest", "collect"}
    BY <1>7, AloneCollecting DEF TakePrevious, TypeOK
  <2>2. pc'[p] = "ingest" /\ snap'[p].shared /\ snap'[p].tasks = items /\ UNCHANGED <<up, items, acks>>
    BY <1>7 DEF TakePrevious, Previous, ShallowCopy, TypeOK
  <2> QED
    BY <2>1, <2>2 DEF HInv, DownEmpty, ReadsMaps, HasRead
<1>8. ASSUME NEW p \in Procs, Clear(p), UNCHANGED late PROVE HInv'
  <2>1. \A q \in Procs : items' = {} /\ pc'[q] = "collect" => FALSE
    BY <1>8, AloneCollecting DEF Clear, TypeOK
  <2>2. items' = {}
    BY <1>8 DEF Clear
  <2> QED
    BY <2>1, <2>2 DEF HInv, DownEmpty, ReadsMaps, HasRead
<1>9. ASSUME NEW p \in Procs, ReadActivity(p), UNCHANGED late PROVE HInv'
  <2>1. \A q \in Procs \ {p} : pc'[q] = pc[q] /\ pc[q] \notin {"ingest", "collect"}
    BY <1>9, AloneCollecting DEF ReadActivity, TypeOK
  <2>2. /\ pc'[p] = "collect" /\ snap'[p].acks = AcksSeen(p) /\ UNCHANGED <<up, items, acks>>
        /\ pc[p] = "ingest"
    BY <1>9 DEF ReadActivity, Detached, TypeOK
  <2>3. acks \cap items \subseteq AcksSeen(p)
    BY <2>2 DEF HInv, ReadsMaps, AcksSeen
  <2> QED
    BY <2>1, <2>2, <2>3 DEF HInv, DownEmpty, ReadsMaps, HasRead
<1>10. CASE Tick /\ UNCHANGED late
  BY <1>10, SideSteps
<1>11. ASSUME NEW h \in Handlers, Receive(h), UNCHANGED late PROVE HInv'
  BY <1>11, SideSteps
<1> QED
  BY <1>1, <1>2, <1>3, <1>4, <1>5, <1>6, <1>7, <1>8, <1>9, <1>10, <1>11, SideSteps DEF HNext

LEMMA HistoryInit == HInit => IInv /\ HInv
<1>1. HInit => HInv
  BY DEF HInit, Init, HInv, DownEmpty, ReadsMaps, HasRead
<1> QED
  BY <1>1, InitInv DEF HInit

\* The history variable changes nothing of the daemon.
LEMMA HistoryIsDaemon == [HNext]_<<vars, late>> => [Next]_vars
  BY DEF HNext, Next, Step, Collection, Save, Answer

\* A collection loses no acknowledgement but those that came between its reading of the
\* old ones and its installing of the new list.
THEOREM OnlyLateOnesAreLost == HSpec => OnlyLateAcksAreLost
<1>1. HInit => IInv /\ HInv
  BY HistoryInit
<1>2. IInv /\ HInv /\ [HNext]_<<vars, late>> => (IInv /\ HInv)'
  BY HistoryIsDaemon, NextInv, HistoryStep
<1>3. ASSUME IInv, HInv, HNext, NEW r \in acks \cap items \cap items' PROVE r \in acks' \/ r \in late
  <2>1. CASE acks \subseteq acks'
    BY <1>3, <2>1
  <2>2. ASSUME NEW p \in Procs, Install(p) PROVE r \in acks' \/ r \in late
    BY <1>3, <2>2 DEF Install, HInv, HasRead, TypeOK
  <2>3. CASE Crash \/ Boot
    BY <1>3, <2>3 DEF Crash, Boot, HInv, DownEmpty
  <2>4. CASE \E p \in Procs : Clear(p)
    BY <1>3, <2>4 DEF Clear
  <2>5. \/ \E p \in Procs : Install(p) \/ Clear(p)
        \/ Crash \/ Boot
        \/ acks \subseteq acks'
    <3>1. \A p \in Procs : Save(p) => acks' = acks
      BY DEF Save, SaveCopy, Marshal, OpenTmp, WriteTmp, RenameTmp
    <3>2. \A p \in Procs : Receive(p) \/ View(p) \/ Encode(p) \/ AckLock(p) => acks' = acks
      BY DEF Receive, View, Encode, AckLock
    <3>3. \A p \in Procs : Acquire(p) \/ TakePrevious(p) \/ Remove(p) \/ ReadActivity(p)
                            \/ SetSources(p) \/ Release(p) => acks' = acks
      BY DEF Acquire, SkipTick, TakePrevious, Remove, GiveUp, ReadActivity, SetSources, Release
    <3>4. Tick \/ Elapse => acks' = acks
      BY DEF Tick, Elapse
    <3>5. \A p \in Procs : Acknowledge(p) => acks \subseteq acks'
      BY DEF Acknowledge
    <3> QED
      BY <1>3, <3>1, <3>2, <3>3, <3>4, <3>5 DEF HNext
  <2> QED
    BY <2>1, <2>2, <2>3, <2>4, <2>5
<1>4. IInv /\ HInv /\ [HNext]_<<vars, late>> =>
        [\A r \in acks \cap items \cap items' : r \in acks' \/ r \in late]_<<vars, late>>
  BY <1>3
<1> QED
  BY <1>1, <1>2, <1>4, PTL DEF HSpec, OnlyLateAcksAreLost

-----------------------------------------------------------------------------
(* The file: an inductive invariant next to IInv, in DaemonFile.           *)

\* An acknowledgement belongs to a task, in every copy and in both files.
Listed ==
    /\ \A p \in Procs : snap[p].acks \subseteq snap[p].tasks
    /\ path \in Contents => path.acks \subseteq path.tasks
    /\ tmp \in Contents => tmp.acks \subseteq tmp.tasks

\* Only who writes or renames has a file open.
Descriptors == \A p \in Procs : pc[p] \notin {"write", "rename"} => fd[p] = "none"

\* Two who use the file at once have met.
Apart == \A p, q \in Procs : Uses(p) /\ Uses(q) /\ ~meeting => p = q
Meetings == meeting => mixed /\ behind

\* How far a Save or a Reset that is alone has come.
LoneAt(p) ==
    /\ pc[p] = "marshal" => snap[p].shared /\ snap[p].tasks = items
    /\ pc[p] \in {"open", "write", "rename"} => Encoded(p) = Memory
    /\ pc[p] = "write" => fd[p] = "tmp" /\ tmp = Empty
    /\ pc[p] = "rename" => tmp = Memory
    /\ pc[p] = "clear" => path = NoFile
LoneSave == ~meeting => \A p \in Procs : LoneAt(p)

\* Who still saves when a reset has cleared the store had begun before.
Resetting(p) == req[p] = "reset" /\ pc[p] \in {"ingest", "collect"}
Forgets == \A p \in Procs : Resetting(p) => (mixed \/ path = NoFile) /\ (InUse => meeting)

Flags == meeting \in BOOLEAN /\ mixed \in BOOLEAN /\ behind \in BOOLEAN

DInv ==
    /\ Flags /\ Listed /\ Descriptors /\ Apart /\ Meetings
    /\ LoneSave /\ Forgets /\ DiskNeverTorn /\ QuietDiskCurrent

USE DEF DInv

\* What a step records.
LEMMA Recording ==
    ASSUME Flags, Recorded
    PROVE  /\ Flags'
           /\ Meet' => meeting'
           /\ meeting /\ InUse' => meeting'
           /\ meeting' => Meet' \/ (meeting /\ InUse')
           /\ meeting' => mixed' /\ behind'
           /\ mixed /\ ~mixed' => Succeeds /\ ~meeting
           /\ behind /\ ~behind' => (Succeeds /\ ~meeting) \/ (up' /\ ~up)
           /\ Fails => behind'
           /\ behind' => meeting' \/ Fails \/ behind
  BY DEF Flags, Recorded, Alone

\* Two who use the file after a step.
LEMMA ApartNext ==
    ASSUME Flags, Recorded
    PROVE  Apart' /\ Meetings'
<1>1. ASSUME NEW p \in Procs, NEW q \in Procs, Uses(p)', Uses(q)', p # q PROVE meeting'
  BY <1>1, Recording DEF Meet
<1> QED
  BY <1>1, Recording DEF Apart, Meetings

LEMMA MemoryType == IInv => Memory \in Contents /\ Memory.acks \subseteq Memory.tasks
  BY DEF TypeOK, Memory, Contents

LEMMA DInit == FInit => DInv
<1> SUFFICES ASSUME FInit PROVE DInv
  OBVIOUS
<1> USE DEF FInit, Init
<1>1. Flags /\ Descriptors /\ Apart /\ Meetings
  BY DEF Flags, Descriptors, Apart, Uses, Meetings
<1>2. Listed /\ DiskNeverTorn
  BY FileAssumption DEF Listed, NoCopy, DiskNeverTorn
<1>3. LoneSave /\ Forgets /\ QuietDiskCurrent
  BY DEF LoneSave, LoneAt, Forgets, Resetting, QuietDiskCurrent
<1> QED
  BY <1>1, <1>2, <1>3

-----------------------------------------------------------------------------
(* The kinds of steps.                                                     *)

\* Steps that leave the memory, the file and whoever uses it alone.
LEMMA CalmStep ==
    ASSUME IInv, DInv, Recorded, UNCHANGED <<up, items, acks, path, tmp, fd>>,
           \A q \in Procs : \/ pc'[q] = pc[q] /\ snap'[q] = snap[q]
                            \/ /\ pc[q] \notin Saving \cup {"clear"}
                               /\ pc'[q] \notin Saving \cup {"clear"}
                               /\ snap'[q].acks \subseteq snap'[q].tasks,
           \A q \in Procs : Resetting(q)' => Resetting(q)
    PROVE  DInv'
<1>1. \A q \in Procs : Uses(q)' <=> Uses(q)
  BY DEF Uses
<1>2. ~Succeeds /\ ~Fails /\ ~(up' /\ ~up)
  BY DEF Succeeds, Fails, Renames
<1>3. Flags' /\ Apart' /\ Meetings'
  BY Recording, ApartNext
<1>4. InUse' <=> InUse
  BY <1>1 DEF InUse
<1>5. Listed' /\ Descriptors'
  BY DEF Listed, Descriptors
<1>6. LoneSave'
  <2> SUFFICES ASSUME ~meeting', NEW q \in Procs PROVE LoneAt(q)'
    BY DEF LoneSave
  <2>1. CASE Uses(q)
    <3>1. LoneAt(q)
      BY <1>1, <2>1, Recording DEF LoneSave, InUse
    <3> QED
      BY <2>1, <3>1 DEF LoneAt, Uses, Encoded, Memory
  <2>2. CASE ~Uses(q)
    BY <1>1, <2>2 DEF Uses, LoneAt
  <2> QED
    BY <2>1, <2>2
<1>7. Forgets'
  BY <1>2, <1>4, Recording DEF Forgets
<1>8. DiskNeverTorn' /\ QuietDiskCurrent'
  BY <1>2, <1>4, Recording DEF DiskNeverTorn, QuietDiskCurrent, Loaded, Memory
<1> QED
  BY <1>3, <1>5, <1>6, <1>7, <1>8

\* Somebody begins to use the file.
LEMMA EnterStep ==
    ASSUME IInv, DInv, Recorded, NEW p \in Procs, NEW to \in {"copy", "clear"},
           pc[p] \notin Saving \cup {"clear"}, pc' = [pc EXCEPT ![p] = to],
           path' \in {path, NoFile}, to = "clear" => path' = NoFile, tmp' = tmp,
           UNCHANGED <<up, req>>, Listed', Descriptors',
           \A q \in Procs : Resetting(q) => q = p
    PROVE  DInv'
<1>1. pc'[p] = to /\ \A q \in Procs \ {p} : pc'[q] = pc[q]
  BY DEF TypeOK
<1>2. ~Succeeds
  BY <1>1 DEF Succeeds, Renames
<1>3. Flags' /\ Apart' /\ Meetings'
  BY Recording, ApartNext
<1>4. Uses(p)' /\ InUse'
  BY <1>1 DEF Uses, InUse
<1>5. LoneSave'
  <2> SUFFICES ASSUME ~meeting', NEW q \in Procs PROVE LoneAt(q)'
    BY DEF LoneSave
  <2>1. CASE q = p
    BY <1>1, <2>1 DEF LoneAt
  <2>2. CASE q # p
    <3>1. ~Uses(q)'
      BY <1>3, <1>4, <2>2 DEF Apart
    <3> QED
      BY <3>1 DEF Uses, LoneAt
  <2> QED
    BY <2>1, <2>2
<1>6. Forgets'
  BY <1>1 DEF Forgets, Resetting
<1>7. DiskNeverTorn' /\ QuietDiskCurrent'
  BY <1>2, <1>4, Recording, FileAssumption DEF DiskNeverTorn, QuietDiskCurrent
<1> QED
  BY <1>3, <1>5, <1>6, <1>7

\* Somebody who uses the file goes on, or ends: what has to be shown is what
\* happens if it is alone.
LEMMA UseStep ==
    ASSUME IInv, DInv, Recorded, NEW p \in Procs, NEW to,
           pc[p] \in Saving \cup {"clear"}, pc' = [pc EXCEPT ![p] = to],
           UNCHANGED <<up, req>>, Listed', Descriptors',
           ~meeting =>
              /\ path' \in Contents \cup {NoFile} \/ (path' = path /\ ~Succeeds)
              /\ to \in Saving \cup {"clear"} => LoneAt(p)'
              /\ to \notin Saving \cup {"clear"} => Loaded' = Memory' \/ Fails
              /\ to = "ingest" => path' = NoFile,
           to # "collect"
    PROVE  DInv'
<1>1. pc'[p] = to /\ \A q \in Procs \ {p} : pc'[q] = pc[q]
  BY DEF TypeOK
<1>2. Flags' /\ Apart' /\ Meetings'
  BY Recording, ApartNext
<1>3. Uses(p) /\ InUse /\ (Uses(p)' <=> to \in Saving \cup {"clear"})
  BY <1>1 DEF Uses, InUse
\* If somebody else uses it as well, they have met, and that is not over.
<1>4. \A q \in Procs \ {p} : Uses(q)' => meeting /\ meeting'
  <2> SUFFICES ASSUME NEW q \in Procs \ {p}, Uses(q)' PROVE meeting /\ meeting'
    OBVIOUS
  <2>1. Uses(q)
    BY <1>1 DEF Uses
  <2>2. meeting
    BY <1>3, <2>1 DEF Apart
  <2> QED
    BY <2>2, Recording DEF InUse
<1>5. (~mixed' => ~meeting) /\ (~behind' /\ up => ~meeting)
  BY Recording DEF Meetings
<1>6. LoneSave'
  <2> SUFFICES ASSUME ~meeting', NEW q \in Procs PROVE LoneAt(q)'
    BY DEF LoneSave
  <2>1. CASE q = p /\ to \in Saving \cup {"clear"}
    BY <1>3, <2>1, Recording DEF InUse
  <2>2. CASE ~Uses(q)'
    BY <2>2 DEF Uses, LoneAt
  <2> QED
    BY <1>3, <1>4, <2>1, <2>2
<1>7. Forgets'
  <2> SUFFICES ASSUME NEW q \in Procs, Resetting(q)'
               PROVE  (mixed' \/ path' = NoFile) /\ (InUse' => meeting')
    BY DEF Forgets
  <2>1. CASE q = p
    <3>1. to = "ingest"
      BY <1>1, <2>1 DEF Resetting
    <3>2. InUse' => meeting'
      BY <1>3, <1>4, <3>1 DEF InUse
    <3> QED
      BY <1>5, <3>1, <3>2
  <2>2. CASE q # p
    <3>1. meeting
      BY <1>1, <1>3, <2>2 DEF Forgets, Resetting
    <3> QED
      BY <1>5, <3>1, Recording
  <2> QED
    BY <2>1, <2>2
<1>8. DiskNeverTorn'
  BY <1>5, Recording, FileAssumption DEF DiskNeverTorn
<1>9. QuietDiskCurrent'
  BY <1>3, <1>5, Recording DEF QuietDiskCurrent, InUse
<1> QED
  BY <1>2, <1>6, <1>7, <1>8, <1>9

-----------------------------------------------------------------------------
(* Every action is of one of these kinds, or starts or ends the daemon.    *)

LEMMA DetachedListed == ASSUME Listed, NEW q \in Procs PROVE Detached(q).acks \subseteq Detached(q).tasks
  BY DEF Detached, AcksSeen, Listed

LEMMA ShallowListed == ShallowCopy.acks \subseteq ShallowCopy.tasks /\ NoCopy.acks \subseteq NoCopy.tasks
  BY DEF ShallowCopy, NoCopy

LEMMA CalmSteps ==
    ASSUME IInv, DInv, Recorded, NEW p \in Procs,
           \/ p \in Handlers /\ Receive(p)
           \/ p = Loop /\ Tick
           \/ Acquire(p) \/ TakePrevious(p) \/ (Remove(p) /\ pc'[p] # "clear")
           \/ ReadActivity(p) \/ SetSources(p) \/ Release(p) \/ AckLock(p)
           \/ (Acknowledge(p) /\ arg[p] \cap items = {}) \/ View(p) \/ Encode(p)
    PROVE  DInv'
<1>1. \A q \in Procs : snap[q].acks \subseteq snap[q].tasks
  BY DEF Listed
<1>2. CASE p \in Handlers /\ Receive(p)
  BY <1>1, <1>2, CalmStep DEF Receive, Resetting, TypeOK
<1>3. CASE p = Loop /\ Tick
  BY <1>1, <1>3, CalmStep DEF Tick, Resetting, TypeOK
<1>4. CASE Acquire(p)
  BY <1>1, <1>4, CalmStep DEF Acquire, SkipTick, Resetting, TypeOK
<1>5. CASE TakePrevious(p)
  BY <1>1, <1>5, ShallowListed, CalmStep DEF TakePrevious, Previous, Resetting, RequestsMatch, TypeOK
<1>6. CASE Remove(p) /\ pc'[p] # "clear"
  BY <1>1, <1>6, CalmStep DEF Remove, GiveUp, Resetting, TypeOK
<1>7. CASE ReadActivity(p)
  BY <1>1, <1>7, DetachedListed, CalmStep DEF ReadActivity, Resetting, TypeOK
<1>8. CASE SetSources(p)
  BY <1>1, <1>8, CalmStep DEF SetSources, Resetting, TypeOK
<1>9. CASE Release(p)
  BY <1>1, <1>9, CalmStep DEF Release, Resetting, TypeOK
<1>10. CASE AckLock(p)
  BY <1>1, <1>10, CalmStep DEF AckLock, Resetting, TypeOK
<1>11. CASE Acknowledge(p) /\ arg[p] \cap items = {}
  <2>1. UNCHANGED <<items, acks>>
    BY <1>11 DEF Acknowledge
  <2> QED
    BY <1>1, <1>11, <2>1, CalmStep DEF Acknowledge, Resetting, TypeOK
<1>12. CASE View(p)
  BY <1>1, <1>12, ShallowListed, CalmStep DEF View, Resetting, TypeOK
<1>13. CASE Encode(p)
  BY <1>1, <1>13, ShallowListed, CalmStep DEF Encode, Resetting, TypeOK
<1> QED
  BY <1>2, <1>3, <1>4, <1>5, <1>6, <1>7, <1>8, <1>9, <1>10, <1>11, <1>12, <1>13

\* A collection installs its list, an acknowledgement changes a task, or a reset has
\* removed the file.
LEMMA EnterSteps ==
    ASSUME IInv, DInv, Recorded, NEW p \in Procs,
           \/ Install(p)
           \/ Acknowledge(p) /\ arg[p] \cap items # {}
           \/ Remove(p) /\ pc'[p] = "clear"
    PROVE  DInv'
<1>1. \A q \in Procs : Resetting(q) => collMu = q /\ items = {}
  BY DEF Resetting, Exclusion, InCollection, ResetIsolated
<1>2. CASE Install(p)
  <2>1. Listed'
    BY <1>2, DetachedListed, ShallowListed DEF Install, AllDetached, Listed
  <2>2. Descriptors'
    BY <1>2 DEF Install, AfterSetTasks, Descriptors, TypeOK
  <2>3. collMu = p
    BY <1>2 DEF Install, Exclusion, InCollection
  <2> QED
    BY <1>1, <1>2, <2>1, <2>2, <2>3, EnterStep DEF Install, AfterSetTasks
<1>3. CASE Acknowledge(p) /\ arg[p] \cap items # {}
  <2>1. Listed' /\ Descriptors'
    BY <1>3 DEF Acknowledge, Listed, Descriptors, TypeOK
  <2> QED
    BY <1>1, <1>3, <2>1, EnterStep DEF Acknowledge
<1>4. CASE Remove(p) /\ pc'[p] = "clear"
  <2>1. Unlink /\ pc' = [pc EXCEPT ![p] = "clear"]
    BY <1>4 DEF Remove, GiveUp, TypeOK
  <2>2. Listed'
    BY <1>4, <2>1, FileAssumption DEF Remove, Unlink, Listed
  <2>3. Descriptors'
    BY <1>4, <2>1 DEF Remove, Unlink, Descriptors, TypeOK
  <2>4. collMu = p
    BY <1>4 DEF Remove, Exclusion, InCollection
  <2> QED
    BY <1>1, <1>4, <2>1, <2>2, <2>3, <2>4, EnterStep DEF Remove, Unlink
<1> QED
  BY <1>2, <1>3, <1>4

\* Which steps of a goroutine that uses the file are no success, and which a failure.
LEMMA NoSuccess ==
    ASSUME TypeOK, NEW p \in Procs, NEW to, pc' = [pc EXCEPT ![p] = to],
           pc[p] # "clear", pc[p] # "rename" \/ tmp' # NoFile \/ tmp = NoFile
    PROVE  ~Succeeds
  BY DEF Succeeds, Renames, TypeOK

LEMMA Failing ==
    ASSUME TypeOK, up', NEW p \in Procs, NEW to, pc' = [pc EXCEPT ![p] = to],
           pc[p] \in Saving, to \notin Saving,
           pc[p] # "rename" \/ tmp' # NoFile \/ tmp = NoFile
    PROVE  Fails
  BY DEF Fails, Renames, TypeOK

LEMMA SaveSteps ==
    ASSUME IInv, DInv, Recorded, NEW p \in Procs, Save(p)
    PROVE  DInv'
<1>0. up
  BY DEF DownIdle, Save, SaveCopy, Marshal, OpenTmp, WriteTmp, RenameTmp
<1> DEFINE home == IF req[p] = "ack" THEN "view" ELSE "sources"
<1>h. home \in {"view", "sources"}
  OBVIOUS
<1> HIDE DEF home
<1>1. CASE SaveCopy(p)
  <2>1. Listed' /\ Descriptors'
    BY <1>1, ShallowListed DEF SaveCopy, Listed, Descriptors, TypeOK
  <2>2. LoneAt(p)'
    BY <1>1 DEF SaveCopy, ShallowCopy, LoneAt, TypeOK
  <2>3. ~Succeeds
    BY <1>1, NoSuccess DEF SaveCopy
  <2> QED
    BY <1>1, <2>1, <2>2, <2>3, UseStep DEF SaveCopy
<1>2. CASE Marshal(p)
  <2>1. Listed' /\ Descriptors'
    BY <1>2, DetachedListed DEF Marshal, Listed, Descriptors, TypeOK
  <2>2. ~meeting => LoneAt(p)'
    BY <1>2 DEF Marshal, LoneSave, LoneAt, Detached, AcksSeen, Encoded, Memory, TypeOK
  <2>3. ~Succeeds
    BY <1>2, NoSuccess DEF Marshal
  <2> QED
    BY <1>2, <2>1, <2>2, <2>3, UseStep DEF Marshal
<1>3. CASE OpenTmp(p) /\ Truncate(p) /\ Goto(p, "write") /\ UNCHANGED snap
  <2>1. Listed' /\ Descriptors'
    BY <1>3, FileAssumption DEF OpenTmp, Truncate, Listed, Descriptors, TypeOK
  <2>2. ~meeting => LoneAt(p)'
    BY <1>3 DEF OpenTmp, Truncate, LoneSave, LoneAt, Encoded, Memory, TypeOK
  <2>3. ~Succeeds
    BY <1>3, NoSuccess DEF OpenTmp
  <2> QED
    BY <1>3, <2>1, <2>2, <2>3, UseStep DEF OpenTmp, Truncate
<1>4. CASE OpenTmp(p) /\ SaveReturns(p) /\ UNCHANGED <<path, tmp>>
  <2>1. Listed' /\ Descriptors'
    BY <1>4, ShallowListed DEF OpenTmp, SaveReturns, Listed, Descriptors, TypeOK
  <2>2. pc' = [pc EXCEPT ![p] = home]
    BY <1>4 DEF SaveReturns, home
  <2>3. up' /\ pc[p] \in Saving /\ home \notin Saving /\ tmp' = tmp
    BY <1>0, <1>4, <1>h DEF OpenTmp
  <2>4. Fails
    BY <2>2, <2>3, Failing
  <2>5. ~Succeeds
    BY <2>2, <2>3, NoSuccess
  <2> QED
    BY <1>4, <1>h, <2>1, <2>2, <2>4, <2>5, UseStep DEF OpenTmp
<1>5. CASE WriteTmp(p)
  <2> DEFINE old == IF fd[p] = "path" THEN path ELSE tmp
  <2>1. PICK c \in {Encoded(p), Torn} :
           /\ Stored(p, c)
           /\ \/ /\ c \in Overlaid(old, Encoded(p))
                 /\ Goto(p, "rename") /\ UNCHANGED <<fd, snap>>
              \/ SaveReturns(p)
    BY <1>5 DEF WriteTmp, Overlaid
  <2>2. c \in Contents => c.acks \subseteq c.tasks
    BY FileAssumption DEF Encoded, Listed
  <2>3. path' \in {path, c} /\ tmp' \in {tmp, c}
    BY <2>1 DEF Stored
  <2>4. \A q \in Procs : snap'[q] \in {snap[q], NoCopy}
    BY <2>1 DEF SaveReturns, TypeOK
  <2>5. Listed'
    BY <2>2, <2>3, <2>4, ShallowListed DEF Listed
  <2>6. Descriptors'
    BY <1>5, <2>1 DEF WriteTmp, SaveReturns, Descriptors, TypeOK
  <2>7. ~meeting => path' = path /\ tmp' = c
    BY <1>5, <2>1 DEF WriteTmp, LoneSave, LoneAt, Stored
  <2>8. CASE Goto(p, "rename") /\ UNCHANGED <<fd, snap>> /\ c \in Overlaid(old, Encoded(p))
    <3>1. ~meeting => Encoded(p) = Memory /\ fd[p] = "tmp" /\ tmp = Empty
      BY <1>5 DEF WriteTmp, LoneSave, LoneAt
    <3>2. ~meeting => c = Encoded(p)
      BY <2>8, <3>1 DEF Overlaid
    <3>3. ~meeting => LoneAt(p)'
      BY <1>5, <2>7, <2>8, <3>1, <3>2 DEF WriteTmp, LoneAt, Encoded, Memory, TypeOK
    <3>4. ~Succeeds
      BY <1>5, <2>8, NoSuccess DEF WriteTmp
    <3> QED
      BY <1>5, <2>5, <2>6, <2>7, <2>8, <3>3, <3>4, UseStep DEF WriteTmp
  <2>9. CASE SaveReturns(p)
    <3>1. pc' = [pc EXCEPT ![p] = home]
      BY <2>9 DEF SaveReturns, home
    <3>2. up' /\ pc[p] = "write" /\ home \notin Saving
      BY <1>0, <1>5, <1>h DEF WriteTmp
    <3>3. Fails
      BY <3>1, <3>2, Failing
    <3>4. ~Succeeds
      BY <3>1, <3>2, NoSuccess
    <3> QED
      BY <1>5, <1>h, <2>5, <2>6, <2>7, <3>1, <3>3, <3>4, UseStep DEF WriteTmp
  <2> QED
    BY <2>1, <2>8, <2>9
<1>6. CASE RenameTmp(p) /\ tmp # NoFile /\ tmp' = NoFile /\ path' = tmp
           /\ Goto(p, home) /\ snap' = [snap EXCEPT ![p] = NoCopy]
           /\ fd' = [q \in Procs |->
                       IF q = p THEN "none"
                       ELSE CASE fd[q] = "path" -> "gone"
                              [] fd[q] = "tmp"  -> "path"
                              [] OTHER          -> fd[q]]
  <2>1. Listed'
    BY <1>6, ShallowListed, FileAssumption DEF RenameTmp, Listed, TypeOK
  <2>2. Descriptors'
    BY <1>6 DEF RenameTmp, Descriptors, TypeOK
  <2>3. ~meeting => path' = Memory
    BY <1>6 DEF RenameTmp, LoneSave, LoneAt
  <2>4. ~meeting => path' \in Contents /\ Loaded' = Memory'
    BY <1>6, <2>3, MemoryType DEF RenameTmp, Loaded, Memory
  <2> QED
    BY <1>6, <2>1, <2>2, <2>4, UseStep DEF RenameTmp
<1>7. CASE RenameTmp(p) /\ SaveReturns(p) /\ UNCHANGED <<path, tmp>>
  <2>1. Listed' /\ Descriptors'
    BY <1>7, ShallowListed DEF RenameTmp, SaveReturns, Listed, Descriptors, TypeOK
  <2>2. pc' = [pc EXCEPT ![p] = home]
    BY <1>7 DEF SaveReturns, home
  <2>3. up' /\ pc[p] \in Saving /\ home \notin Saving /\ tmp' = tmp
    BY <1>0, <1>7, <1>h DEF RenameTmp
  <2>4. Fails
    BY <2>2, <2>3, Failing
  <2>5. ~Succeeds
    BY <2>2, <2>3, NoSuccess
  <2> QED
    BY <1>7, <1>h, <2>1, <2>2, <2>4, <2>5, UseStep DEF RenameTmp
<1>8. OpenTmp(p) => (OpenTmp(p) /\ Truncate(p) /\ Goto(p, "write") /\ UNCHANGED snap)
                     \/ (OpenTmp(p) /\ SaveReturns(p) /\ UNCHANGED <<path, tmp>>)
  BY DEF OpenTmp
<1> QED
  BY <1>1, <1>2, <1>3, <1>4, <1>5, <1>6, <1>7, <1>8 DEF Save, RenameTmp, home

LEMMA ClearStep ==
    ASSUME IInv, DInv, Recorded, NEW p \in Procs, Clear(p)
    PROVE  DInv'
<1>1. Listed'
  BY DetachedListed, ShallowListed DEF Clear, AllDetached, Listed
<1>2. Descriptors'
  BY DEF Clear, Descriptors, TypeOK
<1>3. ~meeting => path' = NoFile
  BY DEF Clear, LoneSave, LoneAt
<1>4. ~meeting => Loaded' = Memory'
  BY <1>3, FileAssumption DEF Clear, Loaded, Memory
<1> QED
  BY <1>1, <1>2, <1>3, <1>4, UseStep DEF Clear

LEMMA ProcessSteps ==
    ASSUME IInv, DInv, Recorded, Crash \/ Boot
    PROVE  DInv'
<1>1. \A q \in Procs : ~Uses(q)' /\ ~Resetting(q)'
  BY DEF Crash, Boot, FreshProcess, Uses, Resetting
<1>2. Flags' /\ Apart' /\ Meetings' /\ ~InUse'
  BY <1>1, Recording, ApartNext DEF InUse
<1>3. Listed' /\ Descriptors'
  BY ShallowListed DEF Crash, Boot, FreshProcess, Listed, Descriptors
<1>4. LoneSave' /\ Forgets'
  BY <1>1 DEF LoneSave, LoneAt, Uses, Forgets
<1>5. QuietDiskCurrent'
  BY DEF Crash, Boot, Initial, QuietDiskCurrent, Memory, Loaded, Listed, Contents
<1>6. DiskNeverTorn'
  <2>1. ~Succeeds
    BY DEF Crash, Boot, FreshProcess, Succeeds, Renames
  <2> QED
    BY <2>1, Recording DEF DiskNeverTorn, Crash, Boot
<1> QED
  BY <1>2, <1>3, <1>4, <1>5, <1>6

LEMMA DNext == IInv /\ DInv /\ [FNext]_fileVars => DInv'
<1> SUFFICES ASSUME IInv, DInv, [FNext]_fileVars PROVE DInv'
  OBVIOUS
<1>1. CASE UNCHANGED fileVars
  <2>1. UNCHANGED <<Flags, Listed, Descriptors, Apart, Meetings>>
    BY <1>1 DEF fileVars, vars, Flags, Listed, Descriptors, Apart, Uses, Meetings
  <2>2. UNCHANGED <<LoneSave, Forgets, DiskNeverTorn, QuietDiskCurrent>>
    BY <1>1 DEF fileVars, vars, LoneSave, LoneAt, Encoded, Memory, Forgets, Resetting, InUse,
       Uses, DiskNeverTorn, QuietDiskCurrent, Loaded
  <2> QED
    BY <2>1, <2>2
<1>2. ASSUME Recorded, NEW p \in Procs, Step(p) PROVE DInv'
  BY <1>2, CalmSteps, EnterSteps, SaveSteps, ClearStep DEF Step, Collection, Answer
<1>3. ASSUME Recorded, NEW h \in Handlers, Receive(h) PROVE DInv'
  BY <1>3, CalmSteps
<1>4. CASE Recorded /\ Tick
  BY <1>4, CalmSteps
<1>5. CASE Recorded /\ Elapse
  BY <1>5, CalmStep DEF Elapse, Resetting
<1>6. CASE Recorded /\ (Crash \/ Boot)
  BY <1>6, ProcessSteps
<1> QED
  BY <1>1, <1>2, <1>3, <1>4, <1>5, <1>6 DEF FNext, Next

-----------------------------------------------------------------------------
(* What the file promises.                                                 *)

\* The history variables change nothing of the daemon.
LEMMA FileIsDaemon == [FNext]_fileVars => [Next]_vars
  BY DEF FNext, fileVars

\* Whatever clients ask for and whenever file operations fail: what tasks.json and
\* its temporary file hold, who has which of them open, and how far a lone Save or
\* Reset has come.
THEOREM DiskInvariance == FSpec => [](IInv /\ DInv)
<1>1. FInit => IInv /\ DInv
  BY InitInv, DInit DEF FInit
<1>2. IInv /\ DInv /\ [FNext]_fileVars => (IInv /\ DInv)'
  BY FileIsDaemon, NextInv, DNext
<1> QED
  BY <1>1, <1>2, PTL DEF FSpec

\* Whatever file operation fails and whenever the daemon dies, tasks.json is absent
\* or one complete snapshot, unless two goroutines have used it at once and nobody
\* has written it alone since.
THEOREM FileIsWhole == FSpec => []DiskNeverTorn
  BY DiskInvariance, PTL

\* The file nobody uses is what is in memory, unless Saves have met or one has failed
\* since it was last written alone or loaded.
THEOREM FileIsCurrent == FSpec => []QuietDiskCurrent
  BY DiskInvariance, PTL

\* While a reset collects, the state it deleted is not on disk, unless a Save was under
\* way when it removed the file or cleared the store.
THEOREM ResetsForget == FSpec => []ResetForgetsDisk
<1>1. DInv => ResetForgetsDisk
  BY DEF Forgets, Resetting, ResetForgetsDisk
<1> QED
  BY <1>1, DiskInvariance, PTL

-----------------------------------------------------------------------------
(* The daemon implements DurableTasks.                                     *)

LEMMA StoredIsLoaded == Durable!Stored = Loaded
  BY DEF Durable!Stored, Loaded

Seen == <<up, Memory, path, ~behind>>

\* Steps that change neither the memory nor the file.
LEMMA UnseenStep ==
    ASSUME Flags, Flags', Recorded, up, up', ~Succeeds, Memory' = Memory, path' = path
    PROVE  [Durable!Next]_Seen
<1>1. CASE behind'
  BY <1>1 DEF Durable!Next, Durable!Disturb
<1>2. CASE ~behind'
  <2>1. ~behind /\ ~up' = ~up
    BY <1>2, Recording
  <2>2. ~behind' <=> ~behind
    BY <1>2, <2>1
  <2> QED
    BY <2>1, <2>2 DEF Seen, Flags
<1> QED
  BY <1>1, <1>2

\* While the daemon runs there is nothing to show of a step after which it is behind.
LEMMA BehindStep ==
    ASSUME up, up', behind' PROVE [Durable!Next]_Seen
  BY DEF Durable!Next, Durable!Disturb

\* A step after which the daemon is not behind was made alone.
LEMMA LoneStep ==
    ASSUME IInv, DInv, Recorded, up, ~behind', NEW p \in Procs, Uses(p) \/ Uses(p)'
    PROVE  /\ ~meeting
           /\ \A q \in Procs \ {p} : pc'[q] = pc[q] => ~Uses(q)
<1>1. ~meeting /\ ~meeting'
  BY Recording DEF Meetings
<1>2. ASSUME NEW q \in Procs \ {p}, pc'[q] = pc[q], Uses(q) PROVE FALSE
  <2>1. Uses(q)'
    BY <1>2 DEF Uses
  <2>2. CASE Uses(p)
    BY <1>1, <1>2, <2>2 DEF Apart
  <2>3. CASE Uses(p)'
    BY <1>1, <2>1, <2>3, Recording DEF Meet
  <2> QED
    BY <2>2, <2>3
<1> QED
  BY <1>1, <1>2

\* The steps of a running daemon's goroutines.
LEMMA ServingStep ==
    ASSUME IInv, DInv, IInv', DInv', Recorded, NEW p \in Procs,
           \/ p \in Handlers /\ Receive(p)
           \/ p = Loop /\ Tick
           \/ Step(p)
    PROVE  [Durable!Next]_Seen
<1>1. up /\ up'
  <2>1. up
    <3>1. Step(p) => pc[p] # "idle"
      BY DEF Step, Collection, Save, Answer, Acquire, TakePrevious, Remove, Clear, ReadActivity,
         Install, SetSources, Release, SaveCopy, Marshal, OpenTmp, WriteTmp, RenameTmp, AckLock,
         Acknowledge, View, Encode
    <3> QED
      BY <3>1 DEF DownIdle, Receive, Tick
  <2>2. up' = up
    BY DEF Receive, Tick, Step, Collection, Save, Answer, Acquire, TakePrevious, Remove, Clear,
       ReadActivity, Install, SetSources, Release, SaveCopy, Marshal, OpenTmp, WriteTmp, RenameTmp,
       AckLock, Acknowledge, View, Encode
  <2> QED
    BY <2>1, <2>2
<1>2. CASE behind'
  BY <1>1, <1>2, BehindStep
<1>3. ASSUME ~behind', UNCHANGED <<items, acks, path>>, ~Succeeds PROVE [Durable!Next]_Seen
  BY <1>1, <1>3, UnseenStep DEF Memory
<1>4. CASE ~behind' /\ \/ p \in Handlers /\ Receive(p)
                       \/ p = Loop /\ Tick
                       \/ Acquire(p) \/ TakePrevious(p) \/ ReadActivity(p) \/ SetSources(p)
                       \/ Release(p) \/ AckLock(p) \/ View(p) \/ Encode(p)
  <2>1. UNCHANGED <<items, acks, path, tmp>>
    BY <1>4 DEF Receive, Tick, Acquire, SkipTick, TakePrevious, ReadActivity, SetSources, Release,
       AckLock, View, Encode
  <2>2. pc[p] \notin {"clear", "rename"} /\ \A q \in Procs \ {p} : pc'[q] = pc[q]
    BY <1>4 DEF Receive, Tick, Acquire, SkipTick, TakePrevious, ReadActivity, SetSources, Release,
       AckLock, View, Encode, TypeOK
  <2>3. ~Succeeds
    BY <2>1, <2>2 DEF Succeeds, Renames
  <2> QED
    BY <1>3, <1>4, <2>1, <2>3
<1>5. CASE ~behind' /\ (SaveCopy(p) \/ Marshal(p) \/ OpenTmp(p))
  <2>1. UNCHANGED <<items, acks, path>>
    BY <1>5 DEF SaveCopy, Marshal, OpenTmp, Truncate
  <2>2. pc[p] \notin {"clear", "rename"} /\ \A q \in Procs \ {p} : pc'[q] = pc[q]
    BY <1>5 DEF SaveCopy, Marshal, OpenTmp, SaveReturns, TypeOK
  <2>3. ~Succeeds
    BY <2>2 DEF Succeeds, Renames
  <2> QED
    BY <1>3, <1>5, <2>1, <2>3
<1>6. CASE ~behind' /\ WriteTmp(p)
  <2>1. ~meeting
    BY <1>1, <1>6, LoneStep DEF WriteTmp, Uses
  <2>2. fd[p] = "tmp"
    BY <1>6, <2>1 DEF WriteTmp, LoneSave, LoneAt
  <2>3. UNCHANGED <<items, acks, path>>
    BY <1>6, <2>2 DEF WriteTmp, Stored
  <2>4. pc[p] = "write" /\ \A q \in Procs \ {p} : pc'[q] = pc[q]
    BY <1>6 DEF WriteTmp, SaveReturns, TypeOK
  <2>5. ~Succeeds
    BY <2>4, <2>1 DEF Succeeds, Renames
  <2> QED
    BY <1>3, <1>6, <2>3, <2>5
<1>7. CASE ~behind' /\ RenameTmp(p)
  <2>1. ~meeting
    BY <1>1, <1>7, LoneStep DEF RenameTmp, Uses
  <2>2. tmp = Memory /\ UNCHANGED <<items, acks>>
    BY <1>7, <2>1 DEF RenameTmp, LoneSave, LoneAt
  <2>3. ~Fails
    BY <1>7, Recording
  <2>4. path' = Memory
    BY <1>1, <1>7, <2>2, <2>3, Failing, FileAssumption, MemoryType DEF RenameTmp, SaveReturns
  <2>5. Memory' = Memory
    BY <2>2 DEF Memory
  <2>6. CASE behind
    BY <1>1, <1>7, <2>4, <2>5, <2>6 DEF Durable!Next, Durable!Restore
  <2>7. CASE ~behind
    BY <1>1, <1>7, <2>4, <2>5, <2>7 DEF Durable!Next, Durable!Persist, Durable!Surely
  <2> QED
    BY <2>6, <2>7
<1>8. CASE ~behind' /\ Clear(p)
  <2>1. ~meeting
    BY <1>1, <1>8, LoneStep DEF Clear, Uses
  <2>2. path = NoFile /\ path' = NoFile
    BY <1>8, <2>1 DEF Clear, LoneSave, LoneAt
  <2>3. Memory' = [tasks |-> {}, acks |-> {}]
    BY <1>8 DEF Clear, Memory
  <2>4. CASE behind
    BY <1>1, <1>8, <2>2, <2>3, <2>4 DEF Durable!Next, Durable!Restore
  <2>5. CASE ~behind
    BY <1>1, <1>8, <2>2, <2>3, <2>5 DEF Durable!Next, Durable!Forget, Durable!Surely
  <2> QED
    BY <2>4, <2>5
<1>9. CASE ~behind' /\ Remove(p)
  <2>1. pc[p] = "remove" /\ \A q \in Procs \ {p} : pc'[q] = pc[q]
    BY <1>9 DEF Remove, GiveUp, TypeOK
  <2>2. ~Succeeds
    BY <2>1 DEF Succeeds, Renames
  <2>3. ~behind
    BY <1>1, <1>9, <2>2, Recording
  <2>4. UNCHANGED <<items, acks>> /\ path' \in {path, NoFile}
    BY <1>9 DEF Remove, Unlink
  <2>5. Memory' = Memory
    BY <2>4 DEF Memory
  <2>6. CASE path' = path
    BY <1>3, <1>9, <2>2, <2>4, <2>6
  <2>7. CASE path' = NoFile
    BY <1>1, <1>9, <2>3, <2>5, <2>7 DEF Durable!Next, Durable!Delete, Durable!Surely
  <2> QED
    BY <2>4, <2>6, <2>7
<1>10. CASE ~behind' /\ (Install(p) \/ Acknowledge(p))
  <2>1. /\ path' = path
        /\ pc[p] \in {"collect", "ack"} /\ \A q \in Procs \ {p} : pc'[q] = pc[q]
    BY <1>10 DEF Install, AfterSetTasks, Acknowledge, TypeOK
  <2>2. ~Succeeds
    BY <2>1 DEF Succeeds, Renames
  <2>3. ~behind
    BY <1>1, <1>10, <2>2, Recording
  <2>4. CASE pc'[p] = "copy"
    <3>1. \A q \in Procs \ {p} : ~Uses(q)
      BY <1>1, <1>10, <2>1, <2>4, LoneStep DEF Uses
    <3>2. ~InUse
      BY <2>1, <3>1 DEF InUse, Uses
    <3>3. Durable!Stored = Memory
      BY <1>1, <2>3, <3>2, StoredIsLoaded DEF QuietDiskCurrent
    <3>4. Memory' \in Contents
      BY DEF TypeOK, Memory, Contents
    <3> QED
      BY <1>1, <1>10, <2>1, <2>3, <3>3, <3>4 DEF Durable!Next, Durable!Change, Durable!Surely
  <2>5. CASE pc'[p] # "copy"
    <3>1. Acknowledge(p) /\ arg[p] \cap items = {}
      BY <1>10, <2>5 DEF Install, AfterSetTasks, Acknowledge, TypeOK
    <3>2. UNCHANGED <<items, acks>>
      BY <3>1 DEF Acknowledge
    <3> QED
      BY <1>3, <1>10, <2>1, <2>2, <3>2
  <2> QED
    BY <2>4, <2>5
<1> QED
  BY <1>2, <1>4, <1>5, <1>6, <1>7, <1>8, <1>9, <1>10 DEF Step, Collection, Save, Answer

LEMMA DurableStep ==
    ASSUME IInv, DInv, IInv', DInv', [FNext]_fileVars
    PROVE  [Durable!Next]_Seen
<1>1. CASE UNCHANGED fileVars
  BY <1>1 DEF fileVars, vars, Seen, Memory
<1>2. CASE Recorded /\ Boot
  <2>1. Memory' = Loaded
    BY <1>2 DEF Boot, Initial, Loaded, Memory, Listed, Contents
  <2>2. ~InUse' /\ ~Meet' /\ ~Fails
    BY <1>2 DEF Boot, InUse, Meet, Uses, Fails, DownIdle
  <2>3. ~behind'
    BY <1>2, <2>2 DEF Recorded, Boot
  <2> QED
    BY <1>2, <2>1, <2>3, StoredIsLoaded DEF Boot, Durable!Next, Durable!Start
<1>3. CASE Recorded /\ Crash
  <2>1. ~InUse' /\ ~Meet' /\ ~Fails /\ ~Succeeds
    BY <1>3 DEF Crash, InUse, Meet, Uses, Fails, Succeeds, Renames
  <2>2. behind' = behind
    BY <1>3, <2>1 DEF Recorded, Crash, Flags
  <2>3. Memory' = [tasks |-> {}, acks |-> {}]
    BY <1>3 DEF Crash, Memory
  <2>4. up /\ ~up' /\ path' = path
    BY <1>3 DEF Crash
  <2>5. Durable!Stop
    BY <2>2, <2>3, <2>4 DEF Durable!Stop
  <2> QED
    BY <2>5 DEF Durable!Next
<1>4. CASE Recorded /\ Elapse
  <2>1. up /\ up' /\ Memory' = Memory /\ path' = path
    BY <1>4 DEF Elapse, Memory
  <2>2. ~Succeeds
    BY <1>4 DEF Elapse, Succeeds, Renames
  <2> QED
    BY <1>4, <2>1, <2>2, UnseenStep
<1>5. CASE Recorded /\ Tick
  BY <1>5, ServingStep
<1>6. ASSUME Recorded, NEW h \in Handlers, Receive(h) PROVE [Durable!Next]_Seen
  BY <1>6, ServingStep
<1>7. ASSUME Recorded, NEW p \in Procs, Step(p) PROVE [Durable!Next]_Seen
  BY <1>7, ServingStep
<1>8. CASE FNext
  BY <1>2, <1>3, <1>4, <1>5, <1>6, <1>7, <1>8 DEF FNext, Next
<1> QED
  BY <1>1, <1>8

\* Seen from its memory and its file, the daemon is DurableTasks, whatever clients ask
\* for, file operations fail, and whenever it dies: but for saves that meet or fail, a
\* reset deletes before it forgets, and a crash loses at most one change.
THEOREM DaemonIsDurable == FSpec => DurableRefinement
<1>1. FInit => Durable!Init
  BY DEF FInit, Init, Durable!Init, Memory
<1>2. IInv /\ DInv /\ (IInv /\ DInv)' /\ [FNext]_fileVars => [Durable!Next]_Seen
  BY DurableStep
<1>3. FSpec => [][Durable!Next]_Seen
  BY <1>2, DiskInvariance, PTL DEF FSpec
<1> QED
  BY <1>1, <1>3, PTL DEF FSpec, DurableRefinement, Durable!Spec, Seen
=============================================================================
