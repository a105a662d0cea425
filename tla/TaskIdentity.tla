----------------------------- MODULE TaskIdentity -----------------------------
(***************************************************************************)
(* How tasks keep their IDs from one collection to the next: the done      *)
(* resolution of internal/github (ResolveDonePullRequests), which appends  *)
(* to the linked tasks of a collection, and assignTaskIDs of               *)
(* internal/state, which SetTasks runs over the result.                    *)
(*                                                                         *)
(* A collection holds collectionMu from the copy of the previous tasks to  *)
(* SetTasks, so the list it resolves against is the list it assigns        *)
(* against: items.  Acknowledging changes neither a task's ID nor its refs.*)
(***************************************************************************)
EXTENDS Naturals, Sequences

CONSTANTS
    Refs,           \* IDs of source refs
    PullRequests,   \* those of GitHub pull requests
    Keys,           \* ticket keys
    Collections,    \* what a collection can link: sequences of tasks without ID
    IdBound         \* no ID above this one is given out (bounds the model)

Kinds == {"own", "other", "done"}

\* id = 0 is a task that has no ID yet.  The order of refs decides which ID is
\* taken; that of the keys depends on Go's map iteration, so they are a set.
Task == [kind : Kinds, refs : Seq(Refs), keys : SUBSET Keys, id : Nat]

ASSUME IdentityAssumption ==
    /\ PullRequests \subseteq Refs
    /\ Collections \subseteq Seq(Task)
    /\ \A c \in Collections : \A k \in DOMAIN c :
          /\ c[k].id = 0
          /\ c[k].kind # "done"
          /\ c[k].refs # <<>>
    /\ IdBound \in Nat

VARIABLES
    items,      \* Store.items
    next,       \* the tasks of the collection under way
    assigned,   \* those that assignTaskIDs has given an ID
    maxID,      \* maxID of assignTaskIDs
    pc,         \* idle, resolve or assign
    j           \* index of the resolution loop in items

vars == <<items, next, assigned, maxID, pc, j>>

RefsOf(t) == {t.refs[n] : n \in DOMAIN t.refs}

TypeOK ==
    /\ items \in Seq(Task)
    /\ next \in Seq(Task)
    /\ assigned \in Seq(Task)
    /\ maxID \in Nat
    /\ pc \in {"idle", "resolve", "assign"}
    /\ j \in Nat \ {0}

-----------------------------------------------------------------------------
(* Done resolution.                                                        *)

\* The pull requests among the refs of the active tasks.  Done tasks are
\* appended to next only after them, and theirs do not count as active.
ActivePullRequests ==
    UNION {RefsOf(next[k]) \cap PullRequests :
              k \in {n \in DOMAIN next : next[n].kind # "done"}}

\* One collection of the refresher, given the tasks linked by it.
Collect ==
    /\ pc = "idle"
    /\ \E c \in Collections :
          /\ \A i \in DOMAIN items : items[i].id + Len(items) + Len(c) <= IdBound
          /\ next' = c
    /\ pc' = "resolve"
    /\ j' = 1
    /\ UNCHANGED <<items, assigned, maxID>>

\* One collection of the resetter, which has emptied the store.
Reset ==
    /\ pc = "idle"
    /\ items' = <<>>
    /\ \E c \in Collections : Len(c) <= IdBound /\ next' = c
    /\ pc' = "resolve"
    /\ j' = 1
    /\ UNCHANGED <<assigned, maxID>>

Resolving == pc = "resolve" /\ j <= Len(items)

NextTask(tasks) == next' = tasks /\ j' = j + 1 /\ UNCHANGED <<items, assigned, maxID, pc>>

\* A done task stays, with its ID, as long as the day it was done.
KeepDone ==
    /\ Resolving
    /\ items[j].kind = "done"
    /\ NextTask(Append(next, items[j]))

\* The done task made of a task: a new one, without ID.
ResolvedByReason(t) == [t EXCEPT !.kind = "merged today", !.id = 0]
Resolved(t) == [t EXCEPT !.kind = "done", !.id = 0]

\* A task of mine whose pull request is gone from the active ones, and which
\* GitHub says was closed today, becomes a new done task.
ResolveDone ==
    /\ Resolving
    /\ items[j].kind = "own"
    /\ RefsOf(items[j]) \cap PullRequests # {}
    /\ RefsOf(items[j]) \cap PullRequests \cap ActivePullRequests = {}
    /\ NextTask(Append(next, Resolved(items[j])))

\* Any task may leave no done task behind: not mine, still active, done before
\* today, closed before today, still open, or beyond what GitHub could tell
\* because the collection was incomplete, the budget low or the fetch failed.
SkipTask ==
    /\ Resolving
    /\ NextTask(next)

-----------------------------------------------------------------------------
(* assignTaskIDs.                                                          *)

\* maxID is the largest ID of the store's tasks.
IsMaxOfLast(m) ==
    m = IF items = <<>> THEN 0 ELSE items[Len(items)].id
IsMax(m) ==
    /\ \A i \in DOMAIN items : items[i].id <= m
    /\ m = 0 \/ \E i \in DOMAIN items : items[i].id = m

BeginAssign ==
    /\ pc = "resolve" /\ j > Len(items)
    /\ \E m \in 0 .. IdBound : IsMax(m) /\ maxID' = m
    /\ assigned' = <<>>
    /\ pc' = "assign"
    /\ UNCHANGED <<items, next, j>>

\* The map used.
UsedLast == {assigned[k].id : k \in {Len(assigned)} \cap DOMAIN assigned}
Used == {assigned[k].id : k \in DOMAIN assigned}

\* bySourceRef[r] and byKey[key]: the last task that has it wins.
BySourceRef(r) ==
    {items[i].id : i \in {n \in DOMAIN items :
        /\ r \in RefsOf(items[n])
        /\ \A m \in DOMAIN items : m > n => r \notin RefsOf(items[m])}}

ByKey(key) ==
    {items[i].id : i \in {n \in DOMAIN items :
        /\ key \in items[n].keys
        /\ \A m \in DOMAIN items : m > n => key \notin items[m].keys}}

\* The positions of the refs of t that still have an ID to give.
OpenRefs(t) == {n \in DOMAIN t.refs : BySourceRef(t.refs[n]) \ Used # {}}

\* matchingTaskID, first loop: the first ref with an unused ID decides.
MatchByRef(t) ==
    UNION {BySourceRef(t.refs[n]) \ Used :
              n \in {n \in OpenRefs(t) : \A m \in OpenRefs(t) : n <= m}}

\* matchingTaskID, second loop.
MatchByKeyNever(t) == {}
MatchByKey(t) == UNION {ByKey(key) \ Used : key \in t.keys}

Matching(t) == IF OpenRefs(t) # {} THEN MatchByRef(t) ELSE MatchByKey(t)

Assigning == pc = "assign" /\ Len(assigned) < Len(next)

Current == next[Len(assigned) + 1]

Give(id) == assigned' = Append(assigned, [Current EXCEPT !.id = id])

\* A carried done task keeps its ID, even if a task before it has taken it.
AssignCarried ==
    /\ Assigning /\ Current.id # 0
    /\ Give(Current.id)
    /\ UNCHANGED <<items, next, maxID, pc, j>>

AssignMatched ==
    /\ Assigning /\ Current.id = 0
    /\ \E id \in Matching(Current) : Give(id)
    /\ UNCHANGED <<items, next, maxID, pc, j>>

AssignFresh ==
    /\ Assigning /\ Current.id = 0
    /\ OpenRefs(Current) = {} /\ MatchByKey(Current) = {}
    /\ maxID' = maxID + 1
    /\ Give(maxID + 1)
    /\ UNCHANGED <<items, next, pc, j>>

\* s.items = assigned.
Finish ==
    /\ pc = "assign" /\ Len(assigned) = Len(next)
    /\ items' = assigned
    /\ next' = <<>> /\ assigned' = <<>> /\ maxID' = 0 /\ j' = 1
    /\ pc' = "idle"

-----------------------------------------------------------------------------
Init ==
    /\ items = <<>> /\ next = <<>> /\ assigned = <<>>
    /\ maxID = 0 /\ pc = "idle" /\ j = 1

Next ==
    \/ Collect \/ Reset
    \/ KeepDone \/ ResolveDone \/ SkipTask
    \/ BeginAssign \/ AssignCarried \/ AssignMatched \/ AssignFresh \/ Finish

Spec == Init /\ [][Next]_vars

-----------------------------------------------------------------------------
(* Properties.                                                             *)

Related(s, t) == RefsOf(s) \cap RefsOf(t) # {} \/ s.keys \cap t.keys # {}

\* Two tasks never have one ID unless one of them is done: neither the tasks a
\* collection finds nor those it newly resolves steal each other's ID, however
\* they share refs and ticket keys.  (The map used in assignTaskIDs.)
ActiveIdsUnique ==
    \A i, k \in DOMAIN items :
        i # k /\ items[i].id = items[k].id =>
            "done" \in {items[i].kind, items[k].kind}

\* An ID that is still in use after a collection designates what it designated
\* before it: its new holder shares a ref or a ticket key with an old one.  The
\* user who acknowledges or opens an ID meanwhile reaches a related task.
\* (maxID and the two maps of assignTaskIDs.)
MeaningKept ==
    \A i \in DOMAIN items, k \in DOMAIN items' :
        items[i].id = items'[k].id =>
            \E m \in DOMAIN items :
                items[m].id = items[i].id /\ Related(items[m], items'[k])

IdKeepsMeaning == [][MeaningKept]_items

\* The old task at i and the new one at k are related to each other and to no
\* other task, and no other old task has the ID of the one at i.
OnlyEachOther(i, k) ==
    /\ Related(items[i], items'[k])
    /\ \A m \in DOMAIN items \ {i} :
          ~Related(items[m], items'[k]) /\ items[m].id # items[i].id
    /\ \A m \in DOMAIN items' \ {k} : ~Related(items[i], items'[m])

\* A task keeps its ID whenever it is clear which one it is, whatever else
\* comes, goes or becomes done in the same collection.  (assignTaskIDs matches
\* new projections against the previous tasks by source ref and ticket key.)
ClearIdsKept ==
    \A i \in DOMAIN items, k \in DOMAIN items' :
        OnlyEachOther(i, k) => items'[k].id = items[i].id

ClearTasksKeepIds == [][ClearIdsKept]_items
=============================================================================
