--------------------- MODULE TrackedPullRequests_proofs ---------------------
(***************************************************************************)
(* Theorems about TrackedPullRequests, for any pull requests, groups and   *)
(* lifetime of the cache, and any number of changes, crashes and failures: *)
(* what is added is not older than the cache allows, and all that the      *)
(* cache has and the rules match is shown.                                 *)
(***************************************************************************)
EXTENDS TrackedPullRequests, TLAPS

Ages == 0 .. TTL + 1
Entries == [age : Ages, prs : SUBSET PRs]

-----------------------------------------------------------------------------
(* The inductive invariant.                                                *)

\* An entry is at least as old as the closing of what it lists.
AsOld(e, opened, closed) == \A pr \in e.prs : pr \in opened \/ closed[pr] <= e.age
Kept(entries, opened, closed) ==
    /\ entries \in [Groups -> Entries \cup {None}]
    /\ \A g \in Groups : entries[g] # None => AsOld(entries[g], opened, closed)
Caches == Kept(cache, open, closedFor) /\ (disk # Torn => Kept(disk, open, closedFor))
Types ==
    /\ open \subseteq PRs /\ closedFor \in [PRs -> Ages]
    /\ found \subseteq PRs
    /\ step \in {"write", "written"} => todo = {}
\* Groups that have had their turn are complete.
Wants(g) == {pr \in Cached(g) : Matches(rules, g, pr)}
Complete == step # "idle" /\ ~broke => \A g \in Groups \ todo : Wants(g) \subseteq found
IInv == Types /\ Caches /\ Complete

\* A group without an entry has nothing, one with an entry has pull requests.
LEMMA Listing ==
    ASSUME Kept(cache, open, closedFor), NEW g \in Groups
    PROVE  /\ cache[g] # None => cache[g] \in Entries
           /\ Cached(g) \subseteq PRs
BY DEF Kept, Cached, Entries

\* Ages are counted up to the first that is too old, in the same way everywhere.
LEMMA Aging ==
    /\ \A a \in Ages : Older(a) \in Ages
    /\ \A a, b \in Ages : a <= b => Older(a) <= Older(b)
BY TrackedAssumption DEF TrackedAssumption, Ages, Older

\* Add misses none that it is given: a pull request with the same key is the same.
LEMMA Adding ==
    ASSUME NEW items \in SUBSET PRs, NEW config, NEW g, NEW prs \in SUBSET PRs
    PROVE  /\ items \subseteq Add(items, config, g, prs)
           /\ Add(items, config, g, prs) \subseteq items \cup prs
           /\ \A pr \in prs : Matches(config, g, pr) => pr \in Add(items, config, g, prs)
<1>1. ASSUME NEW pr \in prs, Key(pr) \in {Key(i) : i \in items} PROVE pr \in items
  BY <1>1, TrackedAssumption DEF TrackedAssumption, Key
<1> QED
  BY <1>1 DEF Add

\* A search returns open pull requests only, all of them or not.
LEMMA Answering ==
    ASSUME NEW g \in Groups, NEW prs \in Answers(g)
    PROVE  prs \subseteq open
BY DEF Answers, Of

\* It holds when the daemon starts.
LEMMA Initially == Init => IInv
<1> SUFFICES ASSUME Init PROVE IInv
  OBVIOUS
<1>1. TTL + 1 \in Ages
  BY TrackedAssumption DEF TrackedAssumption, Ages
<1>2. Kept(NoEntries, open, closedFor)
  BY DEF Kept, NoEntries
<1> QED
  BY <1>1, <1>2 DEF Init, IInv, Types, Caches, Complete

\* What is kept stays kept while pull requests open and close ...
LEMMA Changing ==
    ASSUME Types, NEW entries, Kept(entries, open, closedFor), NEW pr \in PRs, Opens(pr) \/ Closes(pr)
    PROVE  Kept(entries, open', closedFor')
<1>1. ASSUME NEW g \in Groups, entries[g] # None, NEW p \in entries[g].prs
      PROVE  p \in open' \/ closedFor'[p] <= entries[g].age
  <2>1. p \in PRs /\ entries[g].age \in Ages /\ (p \in open \/ closedFor[p] <= entries[g].age)
    BY <1>1 DEF Kept, AsOld, Entries
  <2>2. CASE Opens(pr)
    BY <2>1, <2>2 DEF Opens
  <2>3. CASE Closes(pr)
    <3>1. open' = open \ {pr} /\ closedFor' = [closedFor EXCEPT ![pr] = 0]
      BY <2>3 DEF Closes
    <3>2. CASE p = pr
      BY <2>1, <3>1, <3>2, TrackedAssumption DEF Types, Ages, TrackedAssumption
    <3>3. CASE p # pr
      BY <2>1, <3>1, <3>3 DEF Types
    <3> QED
      BY <3>2, <3>3
  <2> QED
    BY <2>2, <2>3
<1> QED
  BY <1>1 DEF Kept, AsOld

\* ... and while time passes for it as for them.
LEMMA Passing ==
    ASSUME Types, NEW entries, Kept(entries, open, closedFor)
    PROVE  /\ Kept(Aged(entries), open, [pr \in PRs |-> Older(closedFor[pr])])
           /\ \A g \in Groups : IF entries[g] = None THEN Aged(entries)[g] = None
                               ELSE Aged(entries)[g] # None /\ Aged(entries)[g].prs = entries[g].prs
<1> DEFINE older(e) == [e EXCEPT !.age = Older(@)]
<1>1. ASSUME NEW g \in Groups, entries[g] # None
      PROVE  /\ older(entries[g]) \in Entries
             /\ older(entries[g]).prs = entries[g].prs
             /\ older(entries[g]).age = Older(entries[g].age)
  <2>1. entries[g] \in Entries
    BY <1>1 DEF Kept
  <2> QED
    BY <2>1, Aging DEF Entries
<1>2. Aged(entries) = [g \in Groups |-> IF entries[g] = None THEN None ELSE older(entries[g])]
  BY DEF Aged
<1> HIDE DEF older
<1>3. ASSUME NEW g \in Groups, entries[g] # None
      PROVE  older(entries[g]) # None /\ AsOld(older(entries[g]), open, [pr \in PRs |-> Older(closedFor[pr])])
  <2>1. older(entries[g]) # None
    BY <1>1, <1>3, TrackedAssumption DEF TrackedAssumption, Entries, Ages
  <2>2. entries[g] \in Entries /\ AsOld(entries[g], open, closedFor)
    BY <1>3 DEF Kept
  <2>3. ASSUME NEW p \in entries[g].prs, p \notin open
        PROVE  [pr \in PRs |-> Older(closedFor[pr])][p] <= Older(entries[g].age)
    <3>1. p \in PRs /\ closedFor[p] \in Ages /\ entries[g].age \in Ages /\ closedFor[p] <= entries[g].age
      BY <2>2, <2>3 DEF Entries, Types, AsOld
    <3> QED
      BY <3>1, Aging
  <2> QED
    BY <1>1, <1>3, <2>1, <2>3 DEF AsOld
<1>4. \A g \in Groups : Aged(entries)[g] = IF entries[g] = None THEN None ELSE older(entries[g])
  BY <1>2
<1>5. Aged(entries) \in [Groups -> Entries \cup {None}]
  BY <1>1, <1>2
<1>6. Kept(Aged(entries), open, [pr \in PRs |-> Older(closedFor[pr])])
  BY <1>3, <1>4, <1>5 DEF Kept
<1> QED
  BY <1>1, <1>3, <1>4, <1>6

\* Every step keeps it.
LEMMA Stepping == IInv /\ [Next]_vars => IInv'
<1> SUFFICES ASSUME IInv, [Next]_vars PROVE IInv'
  OBVIOUS
<1> USE DEF world, collection
<1>0. Types /\ Caches /\ Complete
  BY DEF IInv
<1>1. CASE UNCHANGED vars
  BY <1>0, <1>1 DEF vars, IInv, Types, Caches, Complete, Wants, Cached, Matches
<1>2. ASSUME NEW pr \in PRs, Opens(pr) \/ Closes(pr) PROVE IInv'
  <2>1. /\ UNCHANGED <<cfg, disk, step, rules, cache, todo, found, broke>>
        /\ open' \subseteq PRs /\ closedFor' \in [PRs -> Ages]
    BY <1>0, <1>2, TrackedAssumption DEF Opens, Closes, Types, Ages, TrackedAssumption
  <2>2. Types' /\ Complete'
    BY <1>0, <2>1 DEF Types, Complete, Wants, Cached
  <2>3. Caches'
    BY <1>0, <1>2, <2>1, Changing DEF Caches
  <2> QED
    BY <2>2, <2>3 DEF IInv
<1>3. CASE Edit
  BY <1>0, <1>3 DEF Edit, IInv, Types, Caches, Complete, Wants, Cached, Matches
<1>4. CASE Tick
  <2>1. closedFor' \in [PRs -> Ages]
    BY <1>0, <1>4, Aging DEF Tick, Types
  <2>2. Types'
    BY <1>0, <1>4, <2>1 DEF Tick, Types
  <2>3. Caches'
    BY <1>0, <1>4, Passing DEF Tick, Caches
  <2>4. Complete'
    <3>1. \A g \in Groups : Cached(g)' = Cached(g)
      BY <1>0, <1>4, Passing DEF Tick, Caches, Cached
    <3> QED
      BY <1>0, <1>4, <3>1 DEF Tick, Complete, Wants
  <2> QED
    BY <2>2, <2>3, <2>4 DEF IInv
<1>5. CASE Begin
  <2>1. Kept(NoEntries, open, closedFor)
    BY DEF Kept, NoEntries
  <2>2. Caches'
    BY <1>0, <1>5, <2>1 DEF Begin, Caches, Read
  <2>3. ASSUME NEW g \in Groups \ todo' PROVE Wants(g)' = {}
    BY <1>5, <2>3 DEF Begin, Wants, Matches, GroupedTrackingTargets
  <2> QED
    BY <1>0, <1>5, <2>2, <2>3 DEF Begin, IInv, Types, Complete
<1>6. CASE Skip
  BY <1>0, <1>6 DEF Skip, IInv, Types, Caches, Complete, Wants, Cached
\* Whatever a group gets, it is in the cache by then, and in the items.
<1>7. ASSUME NEW g \in Groups, NEW prs \in SUBSET PRs, Turn(g), Found(g, prs), Cached(g)' = prs,
             \A h \in Groups \ {g} : cache'[h] = cache[h],
             Kept(cache', open, closedFor)
      PROVE  IInv'
  <2>1. /\ step = "search" /\ UNCHANGED <<open, closedFor, disk, step, rules, broke>>
        /\ todo' = todo \ {g} /\ found' = Add(found, rules, g, prs)
    BY <1>7 DEF Turn, Found
  <2>2. /\ found \subseteq found' /\ found' \subseteq PRs
        /\ \A pr \in prs : Matches(rules, g, pr) => pr \in found'
    BY <1>0, <2>1, Adding DEF Types
  <2>3. ASSUME ~broke', NEW h \in Groups \ todo' PROVE Wants(h)' \subseteq found'
    <3>1. CASE h = g
      BY <1>7, <2>1, <2>2, <3>1 DEF Wants
    <3>2. CASE h # g
      <4>1. Wants(h)' = Wants(h)
        BY <1>7, <2>1, <2>3, <3>2 DEF Wants, Cached
      <4> QED
        BY <1>0, <2>1, <2>2, <2>3, <3>2, <4>1 DEF Complete
    <3> QED
      BY <3>1, <3>2
  <2> QED
    BY <1>0, <1>7, <2>1, <2>2, <2>3 DEF IInv, Types, Caches, Complete
<1>8. ASSUME NEW g \in Groups, Go(g) PROVE IInv'
  <2>1. CASE UseCache(g)
    BY <1>0, <1>7, <2>1, Listing DEF UseCache, Cached, Caches
  <2>2. CASE Search(g)
    <3>0. PICK prs \in Answers(g) :
            cache' = [cache EXCEPT ![g] = [age |-> 0, prs |-> prs]] /\ Found(g, prs)
      BY <2>2 DEF Search
    <3>1. prs \subseteq open /\ prs \subseteq PRs
      BY <1>0, Answering DEF Types
    <3> DEFINE e == [age |-> 0, prs |-> prs]
    <3>2. e \in Entries /\ e # None /\ AsOld(e, open, closedFor) /\ e.prs = prs
      BY <3>1, TrackedAssumption DEF Entries, Ages, AsOld, TrackedAssumption
    <3>3. cache' = [cache EXCEPT ![g] = e] /\ Turn(g) /\ Found(g, prs)
      BY <2>2, <3>0 DEF Search, Due
    <3> HIDE DEF e
    <3>4. cache'[g] = e /\ \A h \in Groups \ {g} : cache'[h] = cache[h]
      BY <1>0, <3>3 DEF Caches, Kept
    <3>5. Cached(g)' = prs
      BY <3>2, <3>4 DEF Cached
    <3>6. Kept(cache', open, closedFor)
      BY <1>0, <3>2, <3>3, <3>4 DEF Caches, Kept
    <3> QED
      BY <1>7, <3>1, <3>3, <3>4, <3>5, <3>6
  <2>3. CASE UseStale(g)
    <3>1. cache' = cache
      BY <1>0, <2>3 DEF UseStale, Stale, Caches, Kept
    <3> QED
      BY <1>0, <1>7, <2>3, <3>1, Listing DEF UseStale, Due, Cached, Caches
  <2>4. CASE NoBudget(g)
    BY <1>0, <1>7, <2>4 DEF NoBudget, Due, Cached, Caches
  <2>5. CASE SearchFails(g)
    BY <1>0, <2>5 DEF SearchFails, Due, Turn, IInv, Types, Caches, Complete
  <2> QED
    BY <1>8, <2>1, <2>2, <2>3, <2>4, <2>5 DEF Go
<1>9. CASE Truncate
  BY <1>0, <1>9 DEF Truncate, Move, IInv, Types, Caches, Complete, Wants, Cached
<1>10. CASE Write
  BY <1>0, <1>10 DEF Write, Move, IInv, Types, Caches, Complete, Wants, Cached
<1>11. CASE WriteFails
  BY <1>0, <1>11 DEF WriteFails, Move, IInv, Types, Caches, Complete, Wants, Cached
<1>12. CASE Publish \/ Crash
  <2>1. Over /\ UNCHANGED <<open, closedFor, disk>>
    BY <1>12 DEF Publish, Crash
  <2>2. Kept(NoEntries, open, closedFor)
    BY DEF Kept, NoEntries
  <2> QED
    BY <1>0, <2>1, <2>2 DEF Over, IInv, Types, Caches, Complete
<1> QED
  BY <1>1, <1>2, <1>3, <1>4, <1>5, <1>6, <1>8, <1>9, <1>10, <1>11, <1>12 DEF Next, Collect

\* It holds always.
LEMMA Invariance == Spec => []IInv
<1>1. Init => IInv
  BY Initially
<1>2. IInv /\ [Next]_vars => IInv'
  BY Stepping
<1> QED
  BY <1>1, <1>2, PTL DEF Spec

\* What FetchRulePullRequests adds is open or was within the lifetime of the cache, unless
\* a search was due and did not answer.
THEOREM NothingOlder == Spec => BoundedlyStale
<1>1. ASSUME IInv, [Next]_vars, NEW pr \in found' \ found
      PROVE  pr \in open \/ closedFor[pr] <= TTL \/ Refused
  <2>1. found' = {} \/ found' = found \/ \E g \in Groups : UseCache(g) \/ Search(g) \/ UseStale(g) \/ NoBudget(g)
    BY <1>1 DEF Next, vars, Opens, Closes, Edit, Tick, Collect, Begin, Skip, Go, SearchFails, Truncate,
                Write, WriteFails, Publish, Crash, Over, Move, collection
  <2>2. PICK g \in Groups : UseCache(g) \/ Search(g) \/ UseStale(g) \/ NoBudget(g)
    BY <1>1, <2>1
  <2>3. CASE UseCache(g)
    <3>1. pr \in cache[g].prs
      BY <1>1, <2>3 DEF UseCache, Found, Add
    <3>2. /\ cache[g] \in Entries /\ AsOld(cache[g], open, closedFor)
          /\ ~(cache[g].age > TTL)
      BY <1>1, <2>3 DEF UseCache, Expired, IInv, Caches, Kept
    <3> QED
      BY <1>1, <3>1, <3>2, TrackedAssumption DEF AsOld, Entries, Ages, IInv, Types, TrackedAssumption
  <2>4. CASE Search(g)
    BY <1>1, <2>4, Answering DEF Search, Found, Add
  <2>5. CASE UseStale(g)
    BY <2>5 DEF Refused
  <2>6. CASE NoBudget(g)
    BY <1>1, <2>6 DEF NoBudget, Found, Add
  <2> QED
    BY <2>2, <2>3, <2>4, <2>5, <2>6
<1>2. IInv /\ [Next]_vars =>
        [\A pr \in found' \ found : pr \in open \/ closedFor[pr] <= TTL \/ Refused]_vars
  BY <1>1
<1> QED
  BY <1>2, Invariance, PTL DEF Spec, BoundedlyStale

\* What the cache has and the rules match is among the tasks that are published.
THEOREM NoneMissing == Spec => CompleteUnlessBroken
<1>1. ASSUME IInv, Publish, NEW g \in Groups, NEW pr \in PRs, pr \in Cached(g), Matches(rules, g, pr)
      PROVE  broke \/ pr \in shown' \cup Own
  <2>1. step # "idle" /\ todo = {} /\ shown' = found \ Own
    BY <1>1 DEF Publish, IInv, Types, AppendMissingPullRequests
  <2> QED
    BY <1>1, <2>1 DEF IInv, Complete, Wants
<1>2. IInv /\ [Next]_vars =>
        [Publish => \A g \in Groups, pr \in PRs :
          pr \in Cached(g) /\ Matches(rules, g, pr) => broke \/ pr \in shown' \cup Own]_vars
  BY <1>1
<1> QED
  BY <1>2, Invariance, PTL DEF Spec, CompleteUnlessBroken
=============================================================================
