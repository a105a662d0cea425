-------------------------- MODULE TaskIdentity_proofs --------------------------
(***************************************************************************)
(* What TaskIdentity guarantees about IDs, for every set of collections.   *)
(***************************************************************************)
EXTENDS TaskIdentity, TLAPS

\* Append to a sequence, as the loops of this module use it.
LEMMA AppendFacts ==
    ASSUME NEW S, NEW s \in Seq(S), NEW e \in S
    PROVE  /\ Append(s, e) \in Seq(S)
           /\ Len(Append(s, e)) = Len(s) + 1
           /\ DOMAIN Append(s, e) = 1 .. Len(s) + 1
           /\ DOMAIN s = 1 .. Len(s)
           /\ Len(s) \in Nat
           /\ \A k \in 1 .. Len(s) : Append(s, e)[k] = s[k]
           /\ Append(s, e)[Len(s) + 1] = e
  OBVIOUS

\* Every task has a source ref: that is how it is found again.
HaveRefs ==
    /\ \A i \in DOMAIN items : items[i].refs # <<>>
    /\ \A k \in DOMAIN next : next[k].refs # <<>>

\* Only done tasks enter the assignment with an ID, and the store still holds
\* them.
CarriedAreDone ==
    \A k \in DOMAIN next : next[k].id # 0 =>
        next[k].kind = "done" /\ \E i \in DOMAIN items : items[i] = next[k]

\* Assigning changes nothing but the ID of a task without one.
AssignedMirrorsNext ==
    /\ Len(assigned) <= Len(next)
    /\ \A k \in DOMAIN assigned :
          /\ assigned[k].kind = next[k].kind
          /\ assigned[k].refs = next[k].refs
          /\ assigned[k].keys = next[k].keys
          /\ next[k].id # 0 => assigned[k].id = next[k].id

\* The IDs given by the loop, carried ones aside, are distinct.
GivenDiffer ==
    \A k, l \in DOMAIN assigned :
        k # l /\ next[k].id = 0 /\ next[l].id = 0 =>
            assigned[k].id # assigned[l].id

\* maxID bounds every ID there is.
MaxBounds ==
    /\ \A i \in DOMAIN items : items[i].id <= maxID
    /\ \A k \in DOMAIN assigned : assigned[k].id <= maxID

\* No task of the store has the ID of the k-th assigned task or a higher one.
IsFresh(k) == \A i \in DOMAIN items : items[i].id < assigned[k].id

\* An ID comes from a related task of the store, or it is new.
Provenance ==
    \A k \in DOMAIN assigned :
        \/ IsFresh(k)
        \/ \E i \in DOMAIN items :
              items[i].id = assigned[k].id /\ Related(items[i], next[k])

\* A task gets a new ID only if each task it is related to is not the only one,
\* or has lost its ID to another task.
FreshOnlyIfNeeded ==
    \A k \in DOMAIN assigned : IsFresh(k) =>
        \A i \in DOMAIN items : Related(items[i], next[k]) =>
            \/ \E m \in DOMAIN items : m # i /\ Related(items[m], next[k])
            \/ \E l \in DOMAIN assigned : l # k /\ assigned[l].id = items[i].id

AssignInv ==
    pc = "assign" =>
        /\ AssignedMirrorsNext
        /\ GivenDiffer
        /\ MaxBounds
        /\ Provenance
        /\ FreshOnlyIfNeeded

\* Between two collections nothing is under way.
IdleInv == pc = "idle" => next = <<>>

IInv ==
    /\ TypeOK
    /\ HaveRefs
    /\ CarriedAreDone
    /\ IdleInv
    /\ ActiveIdsUnique
    /\ AssignInv

-----------------------------------------------------------------------------
LEMMA TaskFacts ==
    ASSUME NEW t \in Task
    PROVE  /\ t.kind \in Kinds /\ t.refs \in Seq(Refs)
           /\ t.keys \in SUBSET Keys /\ t.id \in Nat
           /\ \A id \in Nat :
                 /\ [t EXCEPT !.id = id] \in Task
                 /\ [t EXCEPT !.id = id].id = id
                 /\ [t EXCEPT !.id = id].kind = t.kind
                 /\ [t EXCEPT !.id = id].refs = t.refs
                 /\ [t EXCEPT !.id = id].keys = t.keys
  BY DEF Task

\* One round of the loop of assignTaskIDs, whatever ID it gives.
LEMMA OneRound ==
    ASSUME TypeOK, Assigning, NEW id \in Nat, Give(id)
    PROVE  /\ assigned' \in Seq(Task)
           /\ Len(assigned') = Len(assigned) + 1
           /\ Len(assigned') <= Len(next)
           /\ Len(assigned) \in Nat
           /\ DOMAIN assigned = 1 .. Len(assigned)
           /\ DOMAIN assigned' = 1 .. Len(assigned) + 1
           /\ \A k \in 1 .. Len(assigned) : assigned'[k] = assigned[k]
           /\ Len(assigned) + 1 \in DOMAIN next
           /\ Current \in Task
           /\ assigned'[Len(assigned) + 1].id = id
           /\ assigned'[Len(assigned) + 1].kind = Current.kind
           /\ assigned'[Len(assigned) + 1].refs = Current.refs
           /\ assigned'[Len(assigned) + 1].keys = Current.keys
<1> DEFINE n == Len(assigned) + 1
           e == [Current EXCEPT !.id = id]
<1>1. n \in DOMAIN next /\ Current \in Task
  BY DEF TypeOK, Assigning, Current
<1>2. /\ e \in Task /\ e.id = id /\ e.kind = Current.kind
      /\ e.refs = Current.refs /\ e.keys = Current.keys
  BY <1>1, TaskFacts
<1>3. assigned' = Append(assigned, e)
  BY DEF Give
<1> HIDE DEF e
<1>4. /\ assigned' \in Seq(Task)
      /\ DOMAIN assigned' = 1 .. n
      /\ Len(assigned') = n
      /\ DOMAIN assigned = 1 .. Len(assigned)
      /\ Len(assigned) \in Nat
      /\ \A k \in 1 .. Len(assigned) : assigned'[k] = assigned[k]
      /\ assigned'[n] = e
  BY <1>2, <1>3, AppendFacts DEF TypeOK
<1>5. Len(assigned') <= Len(next)
  BY <1>4 DEF TypeOK, Assigning
<1> QED BY <1>1, <1>2, <1>4, <1>5

\* The ID a round takes from the maps is unused and that of a related task.
LEMMA MatchedFacts ==
    ASSUME NEW t \in Task, NEW id \in Matching(t)
    PROVE  /\ id \notin Used
           /\ \E i \in DOMAIN items : items[i].id = id /\ Related(items[i], t)
<1>1. CASE OpenRefs(t) # {}
  <2>1. PICK n \in OpenRefs(t) : id \in BySourceRef(t.refs[n]) \ Used
    BY <1>1 DEF Matching, MatchByRef
  <2>2. n \in DOMAIN t.refs
    BY <2>1 DEF OpenRefs
  <2>3. PICK i \in DOMAIN items : t.refs[n] \in RefsOf(items[i]) /\ items[i].id = id
    BY <2>1 DEF BySourceRef
  <2>4. t.refs[n] \in RefsOf(t)
    BY <2>2 DEF RefsOf
  <2> QED BY <2>1, <2>3, <2>4 DEF Related
<1>2. CASE OpenRefs(t) = {}
  <2>1. PICK key \in t.keys : id \in ByKey(key) \ Used
    BY <1>2 DEF Matching, MatchByKey
  <2>2. PICK i \in DOMAIN items : key \in items[i].keys /\ items[i].id = id
    BY <2>1 DEF ByKey
  <2> QED BY <2>1, <2>2 DEF Related
<1> QED BY <1>1, <1>2

-----------------------------------------------------------------------------
(* The invariant is inductive.                                             *)

LEMMA InitInv == Init => IInv
<1> SUFFICES ASSUME Init PROVE IInv
  OBVIOUS
<1>1. TypeOK
  BY DEF Init, TypeOK
<1>2. DOMAIN items = {} /\ DOMAIN next = {} /\ pc = "idle" /\ next = <<>>
  BY DEF Init
<1> QED
  BY <1>1, <1>2 DEF IInv, HaveRefs, CarriedAreDone, IdleInv, ActiveIdsUnique, AssignInv

\* Collect and Reset start from tasks without IDs.
LEMMA CollectionFacts ==
    ASSUME NEW c \in Collections
    PROVE  /\ c \in Seq(Task)
           /\ \A k \in DOMAIN c : c[k].id = 0 /\ c[k].refs # <<>>
  BY IdentityAssumption

LEMMA CollectInv == IInv /\ Collect => IInv'
<1> SUFFICES ASSUME IInv, Collect PROVE IInv'
  OBVIOUS
<1>1. PICK c \in Collections : next' = c
  BY DEF Collect
<1>2. TypeOK'
  BY <1>1, CollectionFacts DEF IInv, Collect, TypeOK
<1>3. HaveRefs' /\ CarriedAreDone'
  BY <1>1, CollectionFacts DEF IInv, Collect, HaveRefs, CarriedAreDone
<1>4. ActiveIdsUnique'
  BY DEF IInv, Collect, ActiveIdsUnique
<1>5. IdleInv' /\ AssignInv'
  BY DEF Collect, IdleInv, AssignInv
<1> QED BY <1>2, <1>3, <1>4, <1>5 DEF IInv

LEMMA ResetInv == IInv /\ Reset => IInv'
<1> SUFFICES ASSUME IInv, Reset PROVE IInv'
  OBVIOUS
<1>1. PICK c \in Collections : next' = c
  BY DEF Reset
<1>2. items' = <<>> /\ DOMAIN items' = {}
  BY DEF Reset
<1>3. TypeOK'
  BY <1>1, <1>2, CollectionFacts DEF IInv, Reset, TypeOK
<1>4. HaveRefs' /\ CarriedAreDone'
  BY <1>1, <1>2, CollectionFacts DEF HaveRefs, CarriedAreDone
<1>5. ActiveIdsUnique'
  BY <1>2 DEF ActiveIdsUnique
<1>6. IdleInv' /\ AssignInv'
  BY DEF Reset, IdleInv, AssignInv
<1> QED BY <1>3, <1>4, <1>5, <1>6 DEF IInv

\* The resolution loop appends at most one task, that has refs, and an ID only
\* if it is a done task of the store.
LEMMA AppendInv ==
    ASSUME IInv, pc = "resolve", NEW e \in Task, NextTask(Append(next, e)),
           e.refs # <<>>,
           e.id # 0 => e.kind = "done" /\ \E i \in DOMAIN items : items[i] = e
    PROVE  IInv'
<1>1. /\ next' = Append(next, e) /\ j' = j + 1
      /\ UNCHANGED <<items, assigned, maxID, pc>>
  BY DEF NextTask
<1>2. /\ next' \in Seq(Task)
      /\ DOMAIN next' = 1 .. Len(next) + 1
      /\ DOMAIN next = 1 .. Len(next)
      /\ Len(next) \in Nat
      /\ \A k \in 1 .. Len(next) : next'[k] = next[k]
      /\ next'[Len(next) + 1] = e
  BY <1>1, AppendFacts DEF IInv, TypeOK
<1>3. TypeOK'
  BY <1>1, <1>2 DEF IInv, TypeOK
<1>4. \A k \in DOMAIN next' :
         (k \in DOMAIN next /\ next'[k] = next[k]) \/ next'[k] = e
  BY <1>2
<1>5. HaveRefs' /\ CarriedAreDone'
  BY <1>1, <1>4 DEF IInv, HaveRefs, CarriedAreDone
<1>6. ActiveIdsUnique' /\ IdleInv' /\ AssignInv'
  BY <1>1 DEF IInv, ActiveIdsUnique, IdleInv, AssignInv
<1> QED BY <1>3, <1>5, <1>6 DEF IInv

LEMMA ResolveInv == IInv /\ (KeepDone \/ ResolveDone \/ SkipTask) => IInv'
<1> SUFFICES ASSUME IInv, KeepDone \/ ResolveDone \/ SkipTask PROVE IInv'
  OBVIOUS
<1>1. /\ pc = "resolve" /\ j \in DOMAIN items
      /\ items[j] \in Task /\ items[j].refs # <<>>
  BY DEF IInv, TypeOK, HaveRefs, KeepDone, ResolveDone, SkipTask, Resolving
<1>2. CASE KeepDone
  BY <1>1, <1>2, AppendInv DEF KeepDone
<1>3. CASE ResolveDone
  <2> DEFINE e == [items[j] EXCEPT !.kind = "done", !.id = 0]
  <2>1. e \in Task /\ e.id = 0 /\ e.refs = items[j].refs
    BY <1>1 DEF Task, Kinds
  <2>2. NextTask(Append(next, e))
    BY <1>3 DEF ResolveDone, Resolved
  <2> QED BY <1>1, <2>1, <2>2, AppendInv
<1>4. CASE SkipTask
  <2>1. UNCHANGED <<items, next, assigned, maxID, pc>> /\ j' = j + 1
    BY <1>4 DEF SkipTask, NextTask
  <2>2. TypeOK'
    BY <2>1 DEF IInv, TypeOK
  <2>3. HaveRefs' /\ CarriedAreDone' /\ ActiveIdsUnique' /\ IdleInv' /\ AssignInv'
    BY <1>1, <2>1
    DEF IInv, HaveRefs, CarriedAreDone, ActiveIdsUnique, IdleInv, AssignInv
  <2> QED BY <2>2, <2>3 DEF IInv
<1> QED BY <1>2, <1>3, <1>4

LEMMA BeginAssignInv == IInv /\ BeginAssign => IInv'
<1> SUFFICES ASSUME IInv, BeginAssign PROVE IInv'
  OBVIOUS
<1>1. /\ assigned' = <<>> /\ DOMAIN assigned' = {} /\ Len(assigned') = 0
      /\ UNCHANGED <<items, next, j>> /\ pc' = "assign"
  BY DEF BeginAssign
<1>2. PICK m \in 0 .. IdBound : IsMax(m) /\ maxID' = m
  BY DEF BeginAssign
<1>3. TypeOK'
  BY <1>1, <1>2, IdentityAssumption DEF IInv, TypeOK
<1>4. HaveRefs' /\ CarriedAreDone' /\ ActiveIdsUnique' /\ IdleInv'
  BY <1>1 DEF IInv, HaveRefs, CarriedAreDone, ActiveIdsUnique, IdleInv
<1>5. AssignedMirrorsNext'
  BY <1>1, <1>3 DEF AssignedMirrorsNext, TypeOK
<1>6. MaxBounds'
  BY <1>1, <1>2 DEF IsMax, MaxBounds
<1>7. GivenDiffer' /\ Provenance' /\ FreshOnlyIfNeeded'
  BY <1>1 DEF GivenDiffer, Provenance, FreshOnlyIfNeeded
<1> QED BY <1>3, <1>4, <1>5, <1>6, <1>7 DEF IInv, AssignInv

\* One round of assignTaskIDs keeps the invariant if the ID it gives is carried
\* with the task, or else is not yet used, is at most maxID, and is either that
\* of a related task or a new one that had to be given.
LEMMA RoundInv ==
    ASSUME IInv, Assigning, NEW id \in Nat, Give(id),
           UNCHANGED <<items, next, pc, j>>,
           maxID' \in Nat, maxID <= maxID', id <= maxID',
           Current.id # 0 => id = Current.id,
           Current.id = 0 => id \notin Used,
           \/ \A i \in DOMAIN items : items[i].id < id
           \/ \E i \in DOMAIN items :
                 items[i].id = id /\ Related(items[i], Current),
           (\A i \in DOMAIN items : items[i].id < id) =>
               \A i \in DOMAIN items : Related(items[i], Current) =>
                   \/ \E m \in DOMAIN items : m # i /\ Related(items[m], Current)
                   \/ items[i].id \in Used
    PROVE  IInv'
<1>0. PICK n : n = Len(assigned) + 1
  OBVIOUS
<1>1. /\ assigned' \in Seq(Task)
      /\ Len(assigned') <= Len(next)
      /\ DOMAIN assigned' = DOMAIN assigned \cup {n}
      /\ n \notin DOMAIN assigned
      /\ \A k \in DOMAIN assigned : assigned'[k] = assigned[k]
      /\ n \in DOMAIN next /\ Current = next[n]
      /\ assigned'[n].id = id
      /\ assigned'[n].kind = next[n].kind
      /\ assigned'[n].refs = next[n].refs
      /\ assigned'[n].keys = next[n].keys
  <2>1. TypeOK
    BY DEF IInv
  <2>2. /\ Len(assigned) \in Nat
        /\ DOMAIN assigned = 1 .. Len(assigned)
        /\ DOMAIN assigned' = 1 .. Len(assigned) + 1
    BY <2>1, OneRound
  <2>3. DOMAIN assigned' = DOMAIN assigned \cup {n} /\ n \notin DOMAIN assigned
    BY <1>0, <2>2
  <2> QED BY <1>0, <2>1, <2>2, <2>3, OneRound DEF Current
<1>2. /\ AssignedMirrorsNext /\ GivenDiffer /\ MaxBounds /\ Provenance
      /\ FreshOnlyIfNeeded /\ TypeOK /\ pc = "assign"
  BY DEF IInv, AssignInv, Assigning
<1>3. \A k \in DOMAIN assigned : assigned[k].id \in Nat /\ assigned[k].id \in Used
  BY <1>2, TaskFacts DEF TypeOK, Used
<1>4. \A i \in DOMAIN items : items[i].id \in Nat
  BY <1>2, TaskFacts DEF TypeOK
<1>5. TypeOK'
  BY <1>1, <1>2 DEF TypeOK
<1>6. HaveRefs' /\ CarriedAreDone' /\ ActiveIdsUnique' /\ IdleInv'
  BY DEF IInv, HaveRefs, CarriedAreDone, ActiveIdsUnique, IdleInv
<1>7. AssignedMirrorsNext'
  BY <1>1, <1>2 DEF AssignedMirrorsNext
<1>8. GivenDiffer'
  <2> SUFFICES ASSUME NEW k \in DOMAIN assigned', NEW l \in DOMAIN assigned',
                      k # l, next[k].id = 0, next[l].id = 0
               PROVE  assigned'[k].id # assigned'[l].id
    BY DEF GivenDiffer
  <2>1. CASE k \in DOMAIN assigned /\ l \in DOMAIN assigned
    BY <1>1, <1>2, <2>1 DEF GivenDiffer
  <2>2. CASE k = n /\ l \in DOMAIN assigned
    BY <1>1, <1>3, <2>2
  <2>3. CASE l = n /\ k \in DOMAIN assigned
    BY <1>1, <1>3, <2>3
  <2> QED BY <1>1, <2>1, <2>2, <2>3
<1>9. MaxBounds'
  <2>1. \A i \in DOMAIN items : items[i].id <= maxID'
    BY <1>2, <1>4 DEF MaxBounds, TypeOK
  <2>2. \A k \in DOMAIN assigned' : assigned'[k].id <= maxID'
    BY <1>1, <1>2, <1>3 DEF MaxBounds, TypeOK
  <2> QED BY <2>1, <2>2 DEF MaxBounds
<1>10. /\ \A k \in DOMAIN assigned : IsFresh(k)' <=> IsFresh(k)
       /\ IsFresh(n)' <=> \A i \in DOMAIN items : items[i].id < id
  BY <1>1 DEF IsFresh
<1>11. Provenance'
  <2> SUFFICES ASSUME NEW k \in DOMAIN assigned'
               PROVE  \/ IsFresh(k)'
                      \/ \E i \in DOMAIN items :
                            items[i].id = assigned'[k].id /\ Related(items[i], next[k])
    BY DEF Provenance, Related, RefsOf
  <2>1. CASE k \in DOMAIN assigned
    BY <1>1, <1>2, <1>10, <2>1 DEF Provenance
  <2>2. CASE k = n
    BY <1>1, <1>10, <2>2
  <2> QED BY <1>1, <2>1, <2>2
<1>12. FreshOnlyIfNeeded'
  <2>0. \A i, k : Related(items[i], next[k])' <=> Related(items[i], next[k])
    BY DEF Related, RefsOf
  <2> SUFFICES ASSUME NEW k \in DOMAIN assigned', IsFresh(k)',
                      NEW i \in DOMAIN items, Related(items[i], next[k])
               PROVE  \/ \E m \in DOMAIN items : m # i /\ Related(items[m], next[k])
                      \/ \E l \in DOMAIN assigned' :
                            l # k /\ assigned'[l].id = items[i].id
    BY <2>0 DEF FreshOnlyIfNeeded
  <2>1. CASE k \in DOMAIN assigned
    BY <1>1, <1>2, <1>10, <2>1 DEF FreshOnlyIfNeeded
  <2>2. CASE k = n
    BY <1>1, <1>10, <2>2 DEF Used
  <2> QED BY <1>1, <2>1, <2>2
<1> QED BY <1>5, <1>6, <1>7, <1>8, <1>9, <1>11, <1>12 DEF IInv, AssignInv

LEMMA AssignCarriedInv == IInv /\ AssignCarried => IInv'
<1> SUFFICES ASSUME IInv, AssignCarried PROVE IInv'
  OBVIOUS
<1>1. Len(assigned) + 1 \in DOMAIN next /\ Current \in Task
  BY DEF IInv, TypeOK, AssignCarried, Assigning, Current
<1>2. PICK i \in DOMAIN items : items[i] = Current
  BY <1>1 DEF IInv, CarriedAreDone, AssignCarried, Current
<1>3. items[i].id <= maxID /\ Related(items[i], Current)
  <2>1. PICK r : r \in RefsOf(Current)
    <3>1. Current.refs # <<>> /\ Current.refs \in Seq(Refs)
      BY <1>1, <1>2 DEF IInv, HaveRefs, Task
    <3>2. 1 \in DOMAIN Current.refs
      BY <3>1
    <3> QED BY <3>2 DEF RefsOf
  <2> QED
    BY <1>2, <2>1 DEF IInv, AssignInv, MaxBounds, AssignCarried, Assigning, Related
<1>4. Current.id \in Nat /\ items[i].id = Current.id /\ ~(items[i].id < Current.id)
  BY <1>1, <1>2, TaskFacts
<1>5. /\ Assigning /\ Give(Current.id) /\ Current.id # 0
      /\ UNCHANGED <<items, next, pc, j>> /\ maxID' = maxID /\ maxID \in Nat
  BY DEF AssignCarried, IInv, TypeOK
<1> QED BY <1>2, <1>3, <1>4, <1>5, RoundInv

LEMMA AssignMatchedInv == IInv /\ AssignMatched => IInv'
<1> SUFFICES ASSUME IInv, AssignMatched PROVE IInv'
  OBVIOUS
<1>1. Len(assigned) + 1 \in DOMAIN next /\ Current \in Task
  BY DEF IInv, TypeOK, AssignMatched, Assigning, Current
<1>2. PICK id \in Matching(Current) : Give(id)
  BY DEF AssignMatched
<1>3. PICK i \in DOMAIN items : items[i].id = id /\ Related(items[i], Current)
  BY <1>1, <1>2, MatchedFacts
<1>4. id \notin Used
  BY <1>1, <1>2, MatchedFacts
<1>5. id \in Nat /\ id <= maxID /\ ~(items[i].id < id)
  <2>1. items[i] \in Task /\ items[i].id \in Nat
    BY TaskFacts DEF IInv, TypeOK
  <2>2. MaxBounds
    BY DEF IInv, AssignInv, AssignMatched, Assigning
  <2> QED BY <1>3, <2>1, <2>2 DEF MaxBounds
<1>6. /\ Assigning /\ Current.id = 0
      /\ UNCHANGED <<items, next, pc, j>> /\ maxID' = maxID /\ maxID \in Nat
  BY DEF AssignMatched, IInv, TypeOK
<1> QED BY <1>2, <1>3, <1>4, <1>5, <1>6, RoundInv

\* When nothing matches, each task that is the only one related to t has lost
\* its ID.
LEMMA NothingMatches ==
    ASSUME TypeOK, NEW t \in Task, OpenRefs(t) = {}, MatchByKey(t) = {},
           NEW i \in DOMAIN items, Related(items[i], t),
           \A m \in DOMAIN items : m # i => ~Related(items[m], t)
    PROVE  items[i].id \in Used
<1>0. \A m \in DOMAIN items : m > i => m # i
  BY DEF TypeOK
<1>1. CASE RefsOf(items[i]) \cap RefsOf(t) # {}
  <2>1. PICK n \in DOMAIN t.refs : t.refs[n] \in RefsOf(items[i])
    BY <1>1 DEF RefsOf
  <2>2. \A m \in DOMAIN items : m # i => t.refs[n] \notin RefsOf(items[m])
    BY DEF Related, RefsOf
  <2>3. items[i].id \in BySourceRef(t.refs[n])
    BY <1>0, <2>1, <2>2 DEF BySourceRef
  <2> QED BY <2>1, <2>3 DEF OpenRefs
<1>2. CASE items[i].keys \cap t.keys # {}
  <2>1. PICK key \in t.keys : key \in items[i].keys
    BY <1>2
  <2>2. \A m \in DOMAIN items : m # i => key \notin items[m].keys
    BY <2>1 DEF Related
  <2>3. items[i].id \in ByKey(key)
    BY <1>0, <2>1, <2>2 DEF ByKey
  <2> QED BY <2>1, <2>3 DEF MatchByKey
<1> QED BY <1>1, <1>2 DEF Related

LEMMA AssignFreshInv == IInv /\ AssignFresh => IInv'
<1> SUFFICES ASSUME IInv, AssignFresh PROVE IInv'
  OBVIOUS
<1>1. Len(assigned) + 1 \in DOMAIN next /\ Current \in Task
  BY DEF IInv, TypeOK, AssignFresh, Assigning, Current
<1>2. /\ Assigning /\ Current.id = 0 /\ Give(maxID + 1)
      /\ OpenRefs(Current) = {} /\ MatchByKey(Current) = {}
      /\ UNCHANGED <<items, next, pc, j>> /\ maxID' = maxID + 1 /\ maxID \in Nat
  BY DEF AssignFresh, IInv, TypeOK
<1>3. /\ \A i \in DOMAIN items : items[i].id < maxID + 1
      /\ maxID + 1 \notin Used
  <2>1. MaxBounds /\ TypeOK
    BY <1>2 DEF IInv, AssignInv, Assigning
  <2>2. \A i \in DOMAIN items : items[i].id \in Nat /\ items[i].id <= maxID
    BY <2>1, TaskFacts DEF TypeOK, MaxBounds
  <2>3. \A k \in DOMAIN assigned : assigned[k].id \in Nat /\ assigned[k].id <= maxID
    BY <2>1, TaskFacts DEF TypeOK, MaxBounds
  <2> QED BY <1>2, <2>2, <2>3 DEF Used
<1>4. \A i \in DOMAIN items : Related(items[i], Current) =>
          \/ \E m \in DOMAIN items : m # i /\ Related(items[m], Current)
          \/ items[i].id \in Used
  BY <1>1, <1>2, NothingMatches DEF IInv
<1>5. /\ maxID + 1 \in Nat /\ maxID' \in Nat /\ maxID <= maxID'
      /\ maxID + 1 <= maxID'
  BY <1>2
<1> QED BY <1>2, <1>3, <1>4, <1>5, RoundInv

\* What holds of the list that replaces the store's.
LEMMA FinishFacts ==
    ASSUME IInv, Finish
    PROVE  /\ items' = assigned /\ assigned \in Seq(Task)
           /\ DOMAIN assigned = DOMAIN next
           /\ AssignedMirrorsNext /\ GivenDiffer /\ Provenance
           /\ FreshOnlyIfNeeded /\ CarriedAreDone
           /\ \A i \in DOMAIN items : items[i].id \in Nat
           /\ \A k \in DOMAIN assigned : assigned[k].id \in Nat
           /\ \A i \in DOMAIN items, k \in DOMAIN assigned :
                 Related(items[i], items'[k]) <=> Related(items[i], next[k])
<1>1. /\ items' = assigned /\ assigned \in Seq(Task)
      /\ AssignedMirrorsNext /\ GivenDiffer /\ Provenance
      /\ FreshOnlyIfNeeded /\ CarriedAreDone /\ TypeOK
      /\ Len(assigned) = Len(next)
  BY DEF IInv, TypeOK, AssignInv, Finish
<1>2. DOMAIN assigned = DOMAIN next
  BY <1>1 DEF TypeOK
<1>3. /\ \A i \in DOMAIN items : items[i].id \in Nat
      /\ \A k \in DOMAIN assigned : assigned[k].id \in Nat
  BY <1>1, TaskFacts DEF TypeOK
<1>4. \A i \in DOMAIN items, k \in DOMAIN assigned :
         Related(items[i], items'[k]) <=> Related(items[i], next[k])
  <2> TAKE i \in DOMAIN items, k \in DOMAIN assigned
  <2>1. assigned[k].refs = next[k].refs /\ assigned[k].keys = next[k].keys
    BY <1>1 DEF AssignedMirrorsNext
  <2>2. RefsOf(assigned[k]) = RefsOf(next[k])
    BY <2>1 DEF RefsOf
  <2> QED BY <1>1, <2>1, <2>2 DEF Related
<1> QED BY <1>1, <1>2, <1>3, <1>4

LEMMA FinishInv == IInv /\ Finish => IInv'
<1> SUFFICES ASSUME IInv, Finish PROVE IInv'
  OBVIOUS
<1>1. /\ items' = assigned /\ next' = <<>> /\ DOMAIN next' = {}
      /\ assigned' = <<>> /\ maxID' = 0 /\ j' = 1 /\ pc' = "idle"
  BY DEF Finish
<1>2. TypeOK'
  BY <1>1, FinishFacts DEF TypeOK
<1>3. HaveRefs'
  BY <1>1, FinishFacts DEF IInv, HaveRefs, AssignedMirrorsNext
<1>4. CarriedAreDone' /\ IdleInv' /\ AssignInv'
  BY <1>1 DEF CarriedAreDone, IdleInv, AssignInv
<1>5. ActiveIdsUnique'
  <2> SUFFICES ASSUME NEW i \in DOMAIN assigned, NEW k \in DOMAIN assigned,
                      i # k, assigned[i].id = assigned[k].id
               PROVE  "done" \in {assigned[i].kind, assigned[k].kind}
    BY <1>1 DEF ActiveIdsUnique
  <2>1. next[i].id # 0 \/ next[k].id # 0
    BY FinishFacts DEF GivenDiffer
  <2>2. next[i].kind = "done" \/ next[k].kind = "done"
    BY <2>1, FinishFacts DEF CarriedAreDone
  <2> QED BY <2>2, FinishFacts DEF AssignedMirrorsNext
<1> QED BY <1>2, <1>3, <1>4, <1>5 DEF IInv

LEMMA StutterInv == IInv /\ UNCHANGED vars => IInv'
<1> SUFFICES ASSUME IInv, UNCHANGED vars PROVE IInv'
  OBVIOUS
<1>1. TypeOK'
  BY DEF IInv, TypeOK, vars
<1>2. HaveRefs' /\ CarriedAreDone' /\ IdleInv' /\ ActiveIdsUnique'
  BY DEF IInv, HaveRefs, CarriedAreDone, IdleInv, ActiveIdsUnique, vars
<1>3. AssignInv'
  <2>1. AssignedMirrorsNext' <=> AssignedMirrorsNext
    BY DEF AssignedMirrorsNext, vars
  <2>2. GivenDiffer' <=> GivenDiffer
    BY DEF GivenDiffer, vars
  <2>3. MaxBounds' <=> MaxBounds
    BY DEF MaxBounds, vars
  <2>4. Provenance' <=> Provenance
    BY DEF Provenance, IsFresh, Related, RefsOf, vars
  <2>5. FreshOnlyIfNeeded' <=> FreshOnlyIfNeeded
    BY DEF FreshOnlyIfNeeded, IsFresh, Related, RefsOf, vars
  <2> QED BY <2>1, <2>2, <2>3, <2>4, <2>5 DEF IInv, AssignInv, vars
<1> QED BY <1>1, <1>2, <1>3 DEF IInv

LEMMA NextInv == IInv /\ [Next]_vars => IInv'
<1> SUFFICES ASSUME IInv, [Next]_vars PROVE IInv'
  OBVIOUS
<1>1. CASE Collect
  BY <1>1, CollectInv
<1>2. CASE Reset
  BY <1>2, ResetInv
<1>3. CASE KeepDone \/ ResolveDone \/ SkipTask
  BY <1>3, ResolveInv
<1>4. CASE BeginAssign
  BY <1>4, BeginAssignInv
<1>5. CASE AssignCarried
  BY <1>5, AssignCarriedInv
<1>6. CASE AssignMatched
  BY <1>6, AssignMatchedInv
<1>7. CASE AssignFresh
  BY <1>7, AssignFreshInv
<1>8. CASE Finish
  BY <1>8, FinishInv
<1>9. CASE UNCHANGED vars
  BY <1>9, StutterInv
<1> QED
  BY <1>1, <1>2, <1>3, <1>4, <1>5, <1>6, <1>7, <1>8, <1>9 DEF Next

\* The invariant holds in every reachable state, for any set of collections.
THEOREM Invariance == Spec => []IInv
<1>1. Init => IInv
  BY InitInv
<1>2. IInv /\ [Next]_vars => IInv'
  BY NextInv
<1> QED BY <1>1, <1>2, PTL DEF Spec

\* Every variable keeps its type through resolution and assignment.
THEOREM TypeCorrect == Spec => []TypeOK
<1>1. IInv => TypeOK
  BY DEF IInv
<1> QED BY <1>1, Invariance, PTL

\* Two tasks with one ID are never both active, whatever refs and keys the tasks
\* of any sequence of collections share.  (The map used in assignTaskIDs.)
THEOREM ActiveIdsAreUnique == Spec => []ActiveIdsUnique
<1>1. IInv => ActiveIdsUnique
  BY DEF IInv
<1> QED BY <1>1, Invariance, PTL

-----------------------------------------------------------------------------
(* What one collection does to the IDs of the one before.                  *)

\* Only Finish and Reset replace the list.
LEMMA ListChanges ==
    Next /\ items' # items => Finish \/ items' = <<>>
  BY DEF Next, Collect, Reset, KeepDone, ResolveDone, SkipTask, NextTask,
         BeginAssign, AssignCarried, AssignMatched, AssignFresh

LEMMA StepKeepsMeaning == IInv /\ [Next]_vars => [MeaningKept]_items
<1> SUFFICES ASSUME IInv, Next, items' # items PROVE MeaningKept
  BY DEF vars
<1>1. CASE items' = <<>>
  BY <1>1 DEF MeaningKept
<1>2. CASE Finish
  <2> SUFFICES ASSUME NEW i \in DOMAIN items, NEW k \in DOMAIN assigned,
                      items[i].id = assigned[k].id
               PROVE  \E m \in DOMAIN items :
                         items[m].id = items[i].id /\ Related(items[m], items'[k])
    BY <1>2, FinishFacts DEF MeaningKept
  <2>1. ~IsFresh(k)
    BY <1>2, FinishFacts DEF IsFresh
  <2>2. \E m \in DOMAIN items :
           items[m].id = assigned[k].id /\ Related(items[m], next[k])
    BY <1>2, <2>1, FinishFacts DEF Provenance
  <2> QED BY <1>2, <2>2, FinishFacts
<1> QED BY <1>1, <1>2, ListChanges

\* An ID in use before and after a collection designates related tasks: it is
\* never handed to an unrelated one.  (maxID and the maps of assignTaskIDs.)
THEOREM IdsKeepTheirMeaning == Spec => IdKeepsMeaning
<1>1. IInv /\ [Next]_vars => [MeaningKept]_items
  BY StepKeepsMeaning
<1> QED BY <1>1, Invariance, PTL DEF Spec, IdKeepsMeaning

LEMMA StepKeepsClearIds == IInv /\ [Next]_vars => [ClearIdsKept]_items
<1> SUFFICES ASSUME IInv, Next, items' # items PROVE ClearIdsKept
  BY DEF vars
<1>1. CASE items' = <<>>
  BY <1>1 DEF ClearIdsKept
<1>2. CASE Finish
  <2> SUFFICES ASSUME NEW i \in DOMAIN items, NEW k \in DOMAIN assigned,
                      OnlyEachOther(i, k)
               PROVE  assigned[k].id = items[i].id
    BY <1>2, FinishFacts DEF ClearIdsKept
  <2>1. /\ Related(items[i], next[k])
        /\ \A m \in DOMAIN items :
              m # i => ~Related(items[m], next[k]) /\ items[m].id # items[i].id
        /\ \A l \in DOMAIN assigned : l # k => ~Related(items[i], next[l])
    BY <1>2, FinishFacts DEF OnlyEachOther
  <2>2. CASE ~IsFresh(k)
    BY <1>2, <2>1, <2>2, FinishFacts DEF Provenance
  <2>3. CASE IsFresh(k)
    <3>1. PICK l \in DOMAIN assigned : l # k /\ assigned[l].id = items[i].id
      BY <1>2, <2>1, <2>3, FinishFacts DEF FreshOnlyIfNeeded
    <3>2. ~IsFresh(l)
      BY <1>2, <3>1, FinishFacts DEF IsFresh
    <3>3. PICK m \in DOMAIN items :
             items[m].id = assigned[l].id /\ Related(items[m], next[l])
      BY <1>2, <3>2, FinishFacts DEF Provenance
    <3> QED BY <2>1, <3>1, <3>3
  <2> QED BY <2>2, <2>3
<1> QED BY <1>1, <1>2, ListChanges

\* A task keeps its ID through a collection whenever it is related to just one
\* old task and that one to just it.  (matchingTaskID of internal/state.)
THEOREM ClearTasksKeepTheirIds == Spec => ClearTasksKeepIds
<1>1. IInv /\ [Next]_vars => [ClearIdsKept]_items
  BY StepKeepsClearIds
<1> QED BY <1>1, Invariance, PTL DEF Spec, ClearTasksKeepIds
=============================================================================
