------------------------ MODULE TrackedPullRequests ------------------------
(* Pull requests that filters.json tracks (internal/github/tracked.go): one *)
(* search per owner and author, kept for half an hour in a file of its own, *)
(* which is written in place.  Searches may be refused or fail, the daemon  *)
(* may die, GitHub and the rules change meanwhile.                          *)
EXTENDS Naturals, Sequences, FiniteSets, SequencesExt, Functions

CONSTANTS PRs,        \* [owner, repo, number, author]
          Own,        \* pull requests that are among the tasks anyway
          GroupOrder, \* all pairs of owner and user, sorted
          Configs,    \* contents of filters.json: sets of rules
          Wild,      \* a wildcard in place of an owner or a user
          None, Torn, \* no entry; a file cut off while it was written
          SearchLimit, \* gh search returns so many pull requests and no more
          TTL,        \* trackedPullRequestCacheTTL in ticks
          MaxChanges, \* bound: pull requests opened and closed, edits
          MaxFaults   \* bound: crashes and failing writes

\* The repository and the number name a pull request.
ASSUME TrackedAssumption ==
    /\ TTL \in Nat /\ SearchLimit \in Nat /\ None \notin [age : Nat, prs : SUBSET PRs]
    /\ \A p, q \in PRs : p.repo = q.repo /\ p.number = q.number => p = q

VARIABLES
    open,      \* pull requests open at GitHub
    closedFor, \* pull request -> ticks since it was open
    cfg,       \* filters.json
    disk,      \* github-tracked-prs.json
    step,      \* of the collection under way
    rules,     \* filters.json as the collection has read it
    cache,     \* the file's content in memory
    changed,   \* cacheChanged
    todo,      \* groups to come
    found,     \* items
    broke,     \* history: the loop was left before its end
    shown,     \* the tracked pull requests among the daemon's tasks
    changes, faults
vars == <<open, closedFor, cfg, disk, step, rules, cache, changed, todo, found, broke, shown, changes, faults>>
world == <<open, closedFor, cfg, changes>>
collection == <<step, rules, cache, changed, todo, found, broke>>

Groups == ToSet(GroupOrder)
NoEntries == [g \in Groups |-> None]

----------------------------------------------------------------------------
(* Targets.                                                                 *)
Tracking(rule) == rule.action \notin {"", "mute"}
TrackingTargets(config) ==
    UNION {{[owner |-> p.owner, repos |-> p.repos, user |-> u] : p \in rule.repos, u \in rule.users}
            : rule \in {r \in config : Tracking(r)}}
Exact(t) == t.owner # Wild /\ t.user # Wild
TargetsOf(config, g) ==
    {t \in TrackingTargets(config) : Exact(t) /\ t.owner = g.owner /\ t.user = g.user}
GroupedTrackingTargets(config) == {g \in Groups : TargetsOf(config, g) # {}}
Matches(config, g, pr) ==
    pr.author = g.user /\ \E t \in TargetsOf(config, g) : pr.repo \in t.repos

(* Tasks: a repository and number once, and none that there is already.     *)
\* mutant
NumberOnly(pr) == pr.number
Key(pr) == <<pr.repo, pr.number>>
Add(items, config, g, prs) ==
    items \cup {pr \in prs : Matches(config, g, pr) /\ Key(pr) \notin {Key(i) : i \in items}}
AppendMissingPullRequests(items) == items \ Own

----------------------------------------------------------------------------
Init ==
    /\ open \in {{}, PRs} /\ closedFor = [pr \in PRs |-> TTL + 1]
    /\ cfg \in Configs /\ disk = NoEntries
    /\ step = "idle" /\ rules = {} /\ cache = NoEntries /\ changed = FALSE
    /\ todo = {} /\ found = {} /\ broke = FALSE
    /\ shown = {}
    /\ changes = 0 /\ faults = 0

Opens(pr) ==
    /\ pr \notin open /\ changes < MaxChanges
    /\ open' = open \cup {pr} /\ changes' = changes + 1
    /\ UNCHANGED <<closedFor, cfg, disk, collection, shown, faults>>
Closes(pr) ==
    /\ pr \in open /\ changes < MaxChanges
    /\ open' = open \ {pr} /\ changes' = changes + 1
    /\ closedFor' = [closedFor EXCEPT ![pr] = 0]
    /\ UNCHANGED <<cfg, disk, collection, shown, faults>>
Edit ==
    /\ changes < MaxChanges
    /\ cfg' \in Configs \ {cfg} /\ changes' = changes + 1
    /\ UNCHANGED <<open, closedFor, disk, collection, shown, faults>>

\* Time, in parts of the lifetime; what is older than it is all the same.
Older(age) == IF age <= TTL THEN age + 1 ELSE age
Aged(entries) == [g \in Groups |-> IF entries[g] = None THEN None ELSE [entries[g] EXCEPT !.age = Older(@)]]
Tick ==
    /\ disk' = IF disk = Torn THEN Torn ELSE Aged(disk)
    /\ cache' = Aged(cache)
    /\ closedFor' = [pr \in PRs |-> Older(closedFor[pr])]
    /\ UNCHANGED <<open, cfg, step, rules, changed, todo, found, broke, shown, changes, faults>>

----------------------------------------------------------------------------
(* FetchRulePullRequests.                                                   *)
\* What cannot be parsed counts as empty.
Read(file) == IF file = Torn THEN NoEntries ELSE file
Begin ==
    /\ step = "idle"
    /\ step' = "search"
    /\ rules' = cfg
    /\ cache' = Read(disk)
    /\ changed' = FALSE
    /\ todo' = GroupedTrackingTargets(cfg)
    /\ found' = {} /\ broke' = FALSE
    /\ UNCHANGED <<world, disk, shown, faults>>
\* GitHub's part of the collection ends before: paused, or its first query failed.
Skip ==
    /\ step = "idle"
    /\ shown' = {}
    /\ UNCHANGED <<world, disk, collection, faults>>

\* mutant
NeverExpired(entry) == FALSE
Expired(entry) == entry.age > TTL
\* mutant
Renewed(entry) == [entry EXCEPT !.age = 0]
Stale(entry) == entry
Place(g) == CHOOSE n \in DOMAIN GroupOrder : GroupOrder[n] = g
Turn(g) == step = "search" /\ g \in todo /\ \A h \in todo : Place(g) <= Place(h)
Found(g, prs) ==
    /\ found' = Add(found, rules, g, prs)
    /\ todo' = todo \ {g}
    /\ UNCHANGED <<world, disk, step, rules, broke, shown, faults>>

UseCache(g) ==
    /\ Turn(g)
    /\ cache[g] # None /\ ~Expired(cache[g])
    /\ Found(g, cache[g].prs)
    /\ UNCHANGED <<cache, changed>>
Due(g) == Turn(g) /\ (cache[g] # None => Expired(cache[g]))
Of(prs, g) == {pr \in prs : pr.owner = g.owner /\ pr.author = g.user}
Crowded(g) == Cardinality(Of(open, g)) > SearchLimit
\* Of more than it returns, GitHub chooses.
Answers(g) ==
    IF Crowded(g) THEN {prs \in SUBSET Of(open, g) : Cardinality(prs) = SearchLimit}
                  ELSE {Of(open, g)}
Search(g) ==
    /\ Due(g)
    /\ \E prs \in Answers(g) :
          /\ cache' = [cache EXCEPT ![g] = [age |-> 0, prs |-> prs]]
          /\ Found(g, prs)
    /\ changed' = TRUE
\* No budget, or the search fails: the entry serves although it is old ...
UseStale(g) ==
    /\ Due(g) /\ cache[g] # None
    /\ cache' = [cache EXCEPT ![g] = Stale(@)]
    /\ Found(g, cache[g].prs)
    /\ UNCHANGED changed
\* ... without one, a group without budget has no pull requests ...
NoBudget(g) ==
    /\ Due(g) /\ cache[g] = None
    /\ Found(g, {})
    /\ UNCHANGED <<cache, changed>>
\* ... and a search that fails ends the loop.
SearchFails(g) ==
    /\ Due(g) /\ cache[g] = None
    /\ todo' = {} /\ broke' = TRUE
    /\ UNCHANGED <<world, disk, step, rules, cache, changed, found, shown, faults>>

Move(to) == step' = to /\ UNCHANGED <<world, rules, cache, changed, todo, found, broke, shown>>
\* os.WriteFile cuts the file off and then fills it.
Truncate ==
    /\ step = "search" /\ todo = {} /\ changed
    /\ disk' = Torn
    /\ Move("write") /\ UNCHANGED faults
Write ==
    /\ step = "write"
    /\ disk' = cache
    /\ Move("written") /\ UNCHANGED faults
WriteFails ==
    /\ step = "write" \/ (step = "search" /\ todo = {} /\ changed)
    /\ faults < MaxFaults /\ faults' = faults + 1
    /\ Move("written") /\ UNCHANGED disk
\* The collection's variables end with it.
Over ==
    /\ step' = "idle" /\ rules' = {} /\ cache' = NoEntries /\ changed' = FALSE
    /\ todo' = {} /\ found' = {} /\ broke' = FALSE
Publish ==
    /\ step = "written" \/ (step = "search" /\ todo = {} /\ ~changed)
    /\ shown' = AppendMissingPullRequests(found)
    /\ Over
    /\ UNCHANGED <<world, disk, faults>>

\* The next daemon loads the tasks that the last one has saved.
Crash ==
    /\ step # "idle" /\ faults < MaxFaults
    /\ Over /\ faults' = faults + 1
    /\ UNCHANGED <<world, disk, shown>>

Go(g) == UseCache(g) \/ Search(g) \/ UseStale(g) \/ NoBudget(g) \/ SearchFails(g)
Collect == Begin \/ Skip \/ (\E g \in Groups : Go(g)) \/ Truncate \/ Write \/ WriteFails \/ Publish
Next ==
    \/ \E pr \in PRs : Opens(pr) \/ Closes(pr)
    \/ Edit \/ Tick
    \/ Collect \/ Crash
Spec == Init /\ [][Next]_vars
\* Collections go on, and GitHub's part of them is not always left out.
FairSpec ==
    /\ Spec
    /\ WF_vars(Tick) /\ WF_vars(Collect) /\ SF_vars(Begin)

----------------------------------------------------------------------------
(* Except where a search was due and did not answer, nothing is added that  *)
(* has been closed for longer than the cache may keep it.                   *)
Refused == \E g \in Groups : UseStale(g)
BoundedlyStale ==
    [][\A pr \in found' \ found : pr \in open \/ closedFor[pr] <= TTL \/ Refused]_vars

(* Every pull request that the cache has and the rules match is shown,      *)
(* whatever group or number others have, unless a failing search for a      *)
(* group without an entry has ended the loop.                               *)
Cached(g) == IF cache[g] = None THEN {} ELSE cache[g].prs
CompleteUnlessBroken ==
    [][Publish => \A g \in Groups, pr \in PRs :
          pr \in Cached(g) /\ Matches(rules, g, pr) => broke \/ pr \in shown' \cup Own]_vars

(* Whatever was torn, refused or cached: when GitHub and the rules stay as  *)
(* they are, exactly the open pull requests of a group that are tracked are *)
(* shown, again and again, if its searches do not fail for ever and those   *)
(* of earlier groups do not for ever end the loop; or a part of them, where *)
(* more are open than a search returns.                                     *)
Wanted(g) == {pr \in Of(open, g) \ Own : Matches(cfg, g, pr)}
Settled(g) ==
    IF Crowded(g) THEN Of(shown, g) \subseteq Wanted(g) ELSE Of(shown, g) = Wanted(g)
EndsBefore(g) == \E h \in Groups : Place(h) < Place(g) /\ SearchFails(h)
SettledIsShown ==
    \A g \in Groups : SF_vars(Search(g)) /\ <>[][~EndsBefore(g)]_vars => []<>Settled(g)
============================================================================
