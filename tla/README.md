# radar.nvim: models, checks and proofs

Radar is a daemon, one per user, that collects the pull requests, issues,
worktrees and tmux sessions its user should look at, keeps them as *tasks* in
memory and in `tasks.json`, and serves them to Neovim and to the command line
over a Unix socket.  This directory holds TLA+ modules of its core, the TLC
configurations that check them and TLAPS proofs.  `PROJECT.json` lists for every
definition the lines it models, for every property a plausible bug that breaks
it, and what the code gets wrong.

    tlc -workers 2 -config daemon_store.cfg MCDaemonHistory
    tlc -workers 2 -config process_safe.cfg DaemonProcess
    tlapm Daemon_proofs.tla

## The system

| part | state | operations | meets |
|---|---|---|---|
| store (`internal/state`) | tasks, source statuses, `tasks.json` | Load, SetTasks, Save, Reset, Acknowledge, Tasks, SetSources | one RWMutex; the file has none |
| daemon (`cmd/radar`) | `collectionMu`, `lastRefresh` | refresher, resetter, refreshLoop | calls the collector and the store |
| server (`internal/server`) | a goroutine per connection | `tasks`, `summary`, `refresh`, `reset`, `ack:<id>` | calls the refresher, the resetter, the store |
| collector (`internal/collector`) | none | Collect: ingest, link, reconcile | runs the sources in turn, gets the previous tasks |
| GitHub (`internal/github`) | `rateState`, tracked cache file | one GraphQL query, `gh api user`, searches, fetches of vanished pull requests | `gh` processes of 15 s at most |
| linker, filters | none | Link; Apply | pure functions of tasks and files |
| Jira, git, tmux | none | Ingest | command output |
| process, socket (`internal/process`, `runDaemon`) | pid file, socket | start, check, listen, stop, restart | other daemons, other programs with its number |
| Neovim plugin (`lua/radar`) | tasks and counts shown, IDs announced | poll, refresh, reset, acknowledge, start a daemon | the socket, through one `radar` command per request |

What is hard in it: connections, ticks and resets are concurrent and share one
list whose copies are shallow; saves are not serialised; the daemon may be killed
between any two file operations; a collection works for minutes on a list that is
acknowledged meanwhile; identities pass from list to list by matching, with
conflicts; decisions on GitHub's budget rest on limits that are minutes old, and
on a mutex that is held during a call; daemons know of each other only through a
pid file and a socket path, neither of which is locked; a Neovim session has
several requests under way and takes their answers as they come.

What makes each part correct:

* store and daemon: a reset forgets everything and nothing survives it; what is
  in memory is what a restart would load; no acknowledgement is lost; nobody
  waits for ever; refreshes go on for ever;
* identity: an ID names one task, and the same one as long as it exists;
* rate limits: budgets keep their reserve, pauses end, a collection ends;
* pull requests: what vanished because it was closed today becomes done, once,
  and nothing else does; an acknowledged comment does not come back, a later one
  does;
* tracked pull requests: what is shown is open, or was when the cache was filled;
  nothing the cache has is missing; settled rules and pull requests are shown;
* linker and filters: what belongs together is in one task, nothing is lost, the
  last matching rule decides;
* process: at most one daemon serves, the pid file names it and the socket is its
  own, stop ends it, and whoever needs a daemon gets one;
* plugin: it comes to show what is served, its counts fit its list, and a task is
  announced once.

## Modules

| module | models |
|---|---|
| `Daemon` | store, refresher, resetter, refresh loop and connection handlers over one file; crash and restart |
| `DaemonHistory` | `Daemon` with a history variable for late acknowledgements |
| `DaemonFile` | `Daemon` with history variables for saves that meet or fail, and what `tasks.json` promises |
| `DurableTasks` | what the store and its file promise, seen from outside |
| `TaskIdentity` | `ResolveDonePullRequests` and `assignTaskIDs` from collection to collection |
| `PullRequest` | one pull request of the user: attention, acknowledgements, done, from collection to collection |
| `RateLimit` | `ratelimit.go` and the calls one collection after the other makes |
| `TrackedPullRequests` | `tracked.go`: rules, groups, the cache and its file, searches |
| `DaemonProcess` | several daemons, one pid file and one socket: start, stop, restart, failures |
| `Linking` | `internal/linker`: two passes over the refs, then the groups of those that are left |
| `Filtering` | `internal/filters`: wildcards, rules and lists |
| `Views` | what `Apply` and `Summary` make of a list, given the action for each task |
| `Projection` | `Linking` followed by `Filtering`: from the sources to what is served |
| `ServedView` | one Neovim session's requests, its list, counts and announcements, over an abstract store |
| `MCDaemon`, `MCDaemonHistory`, `MCDaemonFile`, `MCTaskIdentity`, `MCRateLimit`, `MCProjection`, `MCServedView`, `MCTrackedPullRequests` | instances for TLC |
| `Daemon_proofs`, `TaskIdentity_proofs`, `PullRequest_proofs`, `RateLimit_proofs`, `TrackedPullRequests_proofs`, `DaemonProcess_proofs`, `Projection_proofs`, `ServedView_proofs` | theorems about the module of that name; `Daemon_proofs` also those of `DaemonHistory` and `DaemonFile`, with the refinement of `DurableTasks`, `Projection_proofs` those of `Linking` and `Filtering` |

`DaemonHistory` and `DaemonFile` extend `Daemon`; `DaemonFile` instantiates
`DurableTasks`; `Projection`
extends `Linking` and `Filtering`, which extends `Views`; `ServedView` extends
`Views`.  A definition that says "mutant" above it is no part of a specification:
it is a bug that `PROJECT.json` puts in the place of the one that follows.

### Daemon

A goroutine (a connection handler or the loop) is a process with a program
counter; an action is what it does between two points where another goroutine
can interfere: taking a mutex, a section under the store's mutex, reading shared
maps after the unlock, one file operation.  A task is the pull request it stands
for, a list a set of them.  The acknowledgement lives in the `Metadata` map of a
source ref, and `acks` is the set of maps that hold one.  `Tasks` and `Save` copy
the slice and not the maps: `snap[p].shared` says that a copy still looks into the
store's maps, and every action that replaces the store's tasks detaches the
copies (`AllDetached`).

Files are inodes: `fd` says whether a writer's descriptor is of the temporary
file, of the file that has since been renamed to `tasks.json`, or of one nobody
can reach.  `os.WriteFile` is two steps, truncation and writing; writing over
what another writer has put there leaves the new content, or a mix (`Torn`).  With
`DiskFaults` any operation may fail, a write after a part of it.

`Acknowledge` marks the maps and removes a task in `Droppable`.  A collection is
`ReadActivity`, which reads the old acknowledgements, followed by `Install` with
any result.  A response is one copy here; how its summary and its list are read
one after the other is in `ServedView`.

Acknowledgements save without `collectionMu`, so that saves of theirs and of a
collection, or a save and a reset, can be in the file at once and leave it torn or
old, and a save may fail.  `DaemonFile` lets all of this happen and remembers it:
`meeting` says that two have used the file since it was last unused, `mixed` that
nobody has written it alone since two did, and `behind` that two have met, or a save
has failed, and neither a lone save or reset nor a start from the file has made up for
it.  What the file promises holds but for `mixed` and `behind`, and they end with the
next save or reset that is alone and succeeds.

`DurableTasks` has a list in memory, a file, and whether the two are `sure`; its steps
are Change, Persist, Delete, Forget, Stop and Start, Disturb, which ends the
certainty, and Restore, which brings it back.  `DurableRefinement` maps memory,
`tasks.json` and `~behind` to them and hides mutexes, goroutines and the temporary
file.

### TaskIdentity

`Collect` and `Reset` start with a list of linked tasks out of `Collections`; the
loop of `ResolveDonePullRequests` then adds done tasks (old ones with their ID,
new ones without); the loop of `assignTaskIDs` gives IDs.  All of this runs under
`collectionMu` on one list of previous tasks, so it is sequential here.  GitHub's
answer on a vanished pull request, the day, and every failure are the choice
between `ResolveDone` or `KeepDone` and `SkipTask`.  The order of source refs is
kept, because it decides; that of ticket keys is not, because metadata are
iterated in Go's random order.  The removal of a task by an acknowledgement is
left out: it only applies to tasks without unresolved threads, and the activity
tasks of `activityPullRequestItems` always have some.

### PullRequest

One pull request at GitHub (open, its last closing, the times of the comments of
others, whether others have unresolved threads) and at Radar (its own task, its
done tasks).  A collection is `Begin`, `Query`, `ReadPrevious`, `Resolve` and
`Install`; GitHub and the user act between any two of them.  `Skip` and `KeepOnly`
are all that can fail: a paused or failing source, an incomplete collection, no core
budget, a failed fetch.  `Reset` is a collection that starts from nothing and forgets
acknowledgements and done tasks.  The previous tasks share their metadata maps with
the store, so `PreviousAck` and `Install` read the acknowledgements of the moment
and not those of `Begin`.  A task keeps the kind of `github_own_pr`; requested
reviews and activity tasks, for which other threads count, are left out, and so
is a pull request without a description, whose ref has no map to share.

The history variables are `acked`, what the user has acknowledged and nothing has
lost; `known`, the comments behind the own task; `pending` and `faulty`, today's
closing that a collection had to find, and whether it could.

### RateLimit

GitHub is a budget and a window per resource; `seen`, `seenReset` and `fetched`
are the cached answer of `gh api rate_limit`.  Time is in minutes.  A collection
goes through GraphQL, `gh api user`, one search per tracked group, and the
fetches of vanished pull requests; each but the second passes `GatePaused`,
`GateOpen`, `FetchLimits`, `Admit` or `RefuseLowBudget`.  Any call may fail; a
call without budget is refused, and `ghJSON` pauses search or core.  `SpendElsewhere`
is any other program of the user.  A granted call takes its `Price`, which need not be
the `Cost` that was reserved: what the query of `notifications.go:92-142` takes (three
searches of 50, with threads and comments in each) is some 40 points by GitHub's
formula, and `ratelimit.go:101` reserves 10.  `overrun` is history: what calls have
taken beyond their reserve since the limits were last fetched.  An answer of `gh api
rate_limit` may leave out resources, which are then zero (`Answers`); the pause then
ends in 15 minutes.  The five seconds added to a reset time are
less than the unit and are left out.

### TrackedPullRequests

A rule is an action, patterns (an owner and the repositories it stands for) and
users; `filters.json` is a set of rules.  `GroupedTrackingTargets` leaves the pairs
of owner and user to search for, in their order.  A collection reads the file and
the cache, takes each group from the cache (`UseCache`), from a search (`Search`),
which returns at most `SearchLimit` pull requests (`--limit 100`), no matter
which, from an entry that is too old (`UseStale`), or not at all (`NoBudget`,
`SearchFails`, which ends the loop), writes the cache in place if it has changed,
and publishes what it found.  Time is in parts of the life of a cache entry;
whatever is older than that is one age.  `rules`, `cache`, `todo` and `found` are
the collection's local variables; a crash drops them and leaves the file as it
is.  `closedFor` and `broke` are history.

Two things are as the code has them and not as one may wish: of an owner and user with
more open pull requests than a search returns, some are never shown (`Crowded`), and a
group that never gets an answer and has no entry ends the loop for those behind it.
`SettledIsShown` says so: it is about each group by itself, only asks that a crowded
group shows nothing else than what it should, and has as its premise that the group's
own search is not refused for ever and that no earlier group ends the loop for ever.

### DaemonProcess

Every process number is free, some other program, or a `radar daemon` at one of
its steps: `Check` and `AlreadyRunning` are what `runDaemon` makes of the pid
file, `TruncatePID` and `WritePID` the two halves of `os.WriteFile`, `Unlink` and
`Listen` the start of `ListenAndServe`.  Numbers are used again.  Nothing is
cleaned up when a daemon ends: `fatal` is `os.Exit`, and a signal has no handler;
only a failing `Accept` closes the listener, which removes the socket path.
Where there is no `/proc`, every running process counts as a daemon, and so does a
process that is ending, whose command line is empty.  A stopper is a run of
`radar stop` or `radar restart`: `Terminate`, the polls (`Gone`), `Kill`, `Return`.
Clients without an answer start daemons (`Retry`).  `raced` remembers that two
starts were between the check and the end of `WritePID` at once: from then on the
code promises little, and most properties say nothing.  Until then the daemon that
serves is the one in the pid file and has the socket path to itself
(`ServingIsNamed`).

### Linking, Filtering, Views, Projection

One call of `Link` is one behaviour, and each round of its loops a step.  In the
two passes a round is one ref for every task (`LinkByTicket`, `LinkByPath`), where
the code has one task for every ref; no task's round reads another task, so the
loops may be exchanged.  What a task matches by is computed before its inner loop:
`start` holds the tasks as they were when the pass began.  Then `FindLoose` and
`sourceRefGroups`: `OpenGroup` or `SkipUsed` for each ref, `Visit` for each in the
queue, whose order is left open, `CloseGroup` when it is empty.  `actionFor` goes
through lists and rules from the first to the last, a recursive function on their
positions.  Tickets are values
whose spelling `KeyOf` maps to the key; a path is the sequence of its elements, so
that a prefix is a directory above.  `Filtering` has `wildcardMatch` over sequences
of characters, as the search for one piece after the other that it is;
`Projection` compares it with what a star means.  `normalize` takes white space off
both ends and lower-cases; `Plain` says what that makes of the spelling of an action.
`Projection` edits `filters.json` over the linked tasks.

### ServedView

Each request of the session is a process: sent, copied, filtered, answered; an
acknowledgement marks, reads the summary, reads the list.  The store is a list
whose IDs are given as `assignTaskIDs` gives them to tasks that are matched by
what they are about; an acknowledgement removes a task, makes it `in_progress`
(`Calmed`: the user's own without unresolved threads), or leaves it; collections,
resets by others, and edits of `filters.json` go on meanwhile, and the file may be
unreadable (`Broken`).  A command that fails is tried once more if it was a `tasks`.
`last`, `steady`, `crossed` and `fromAck` are history: which list was announced last,
what has been in the view since, which answers were under way when another one was
used.

## Runs

| run | shows |
|---|---|
| `daemon_store` | two connections and the loop, all requests: types; a reset is alone with the store; tasks and statuses belong together when nobody collects; an acknowledgement is lost only between the reading of the old ones and `SetTasks` |
| `daemon_durable` | refreshes, resets, acknowledgements, failing file operations and crashes: until saves meet or fail, and again after the next one that is alone and succeeds, the file is whole, current when nobody uses it, and gone during a reset; the daemon implements `DurableTasks` |
| `daemon_liveness` | with failing file operations and crashes: requests are answered, collections go on |
| `daemon_race` | violation: a map is written by `Acknowledge` while a copy is read |
| `identity_safe` | types; active IDs are unique; an ID keeps its meaning; an unmistakable task keeps its ID |
| `ratelimit_safe` | types; searches keep their reserve, and GraphQL but for what queries take beyond it; pauses are bounded; collections end, or get stuck in one known place |
| `ratelimit_stuck` | violation: that place |
| `pr_safe` | types; acknowledgements pass from task to task; attention if and only if something is unread; a closing becomes and stays done if the first collection after it meets no failure |
| `tracked_safe` | nothing outlasts its cache entry unless a search was refused; all the cache has is shown unless a failing search ended the loop; settled pull requests and rules are shown again and again, group by group, if the group's searches answer |
| `process_safe` | types; one daemon, named by the pid file, with the socket as its own, and stopped by a stop, unless starts overlap; clients get a daemon in the end, unless a race has left a deaf one or the number is another program's |
| `projection` | types; a ref is in a task if and only if they are related; groups are the components of the relation; nothing is lost; a star stands for any text; the last rule decides |
| `served_view` | types; counts fit the list; nothing that stays is announced twice and nothing new is missed; the session comes to show what is served |

Why the runs are large enough:

* `daemon_*`: every property relates at most a collection, an acknowledgement and
  a third goroutine; two handlers and the loop are three, so that any two of
  refresh, reset, tick and acknowledgement overlap with a third.  One task
  suffices where sets of tasks are replaced as a whole: with and without it, and with
  and without its acknowledgement, there are three contents of the file.  The durable
  run has two handlers and the loop for two saves and a reset; there an
  acknowledgement marks the task and does not remove it (`Droppable` is empty), which
  differs only in what the next content is.  The liveness run has one handler and the
  loop: a wait needs two.
* `identity_*`: two pull requests, an issue they share, a worktree and two
  ticket keys, so that tasks compete by ref and by key, and seven IDs (`IdBound`):
  a collection begins only if all its tasks and the done ones could get fresh IDs
  below it, which leaves room for a full collection of three and, of the smaller
  ones, for several that match nothing.
* `ratelimit_*`: windows of 1 and 3 minutes around a cache of 2, so that a window
  ends within and after the life of the cache; a pause of 3; limits of 4 and 2 with a
  minimum of 1, spent within two or three collections; a query takes twice its
  reserve; an answer names all resources or none; `MaxTime` 5 starts at the life of
  the cache and lets one window of 3 end.  The clock stops there and so do the
  windows; a collection does not need the clock.
* `pr_*`: days of 2 and `MaxTime` 3: a midnight, and two moments of one day after it;
  two comments, so that one is acknowledged and
  the next is new, or both come in one moment; opened again with one done task
  (`MaxDone` 2), so that a second closing meets the first.

* `tracked_safe`: two groups, so that one can fail before the other; two
  repositories in one of them, and one number in both; a pull request that is a
  task anyway; a rule with wildcards, which searches for nothing, and one that
  mutes.  One group may have three open and a search returns two (`SearchLimit`).
  A life of one tick tells fresh, due and expired apart; two changes open, close or
  edit after the start, at which any may be open (`MaxChanges`); one fault
  (`MaxFaults`), since a torn file counts as an empty one, from where everything may
  happen again.
* `process_safe`: four numbers: the one in the pid file, two daemons that start at
  once (`MaxStarting` 2, one after a race) and one more; one stopper, as two stops
  of one daemon differ from one only in who sees it gone; one mishap
  (`MaxMishaps`): a crash at any step, a failing `Accept`, or a daemon that gets the
  number in the pid file.  Other programs take one number at a time.
* `projection`: up to five of eight refs and up to two tasks: a chain of three
  refs, its link in any place, next to a task that takes one of them; ignored
  branches, directories in one another, the root, tickets in two spellings.  All
  patterns of up to four characters, stars included, on all names of up to four.
  White space is in patterns and names of up to three.
  Two rules after the lists (`MaxRules`): any rule is behind another or a list.
  The file is edited when there are at most two refs (`MaxEdited`); the
  served tasks do not depend on the rest.
* `served_view`: two requests under way, so that answers cross; two things, one
  that an acknowledgement removes; two changes, two acknowledgements and one lost
  answer (`MaxChanges`, `MaxAcks`, `MaxFaults`): a reset and a collection give
  an ID away twice.

Deadlock is checked in all runs but `ratelimit_*`, where the stuck collection is
a finding and the properties look beyond it, and `projection`, where linking ends.

## Fairness

`FairSpec` of `Daemon` assumes strong fairness of each goroutine's steps: a
goroutine that is enabled again and again, if only because a mutex is free again
and again, moves.  Go's `sync.Mutex` guarantees it (a waiter of more than 1 ms is
handed the lock) and `sync.RWMutex` blocks new readers behind a waiting writer.
Weak fairness stands for the ticker, the clock, and for whoever starts the daemon
again.  Nothing makes requests come or crashes stop.  In `RateLimit`, weak fairness
of `Collecting` says that `gh` ends or is killed after 15 s.

In `DaemonProcess` a daemon's steps are weakly fair, nothing in a start waits.
`Retry` is strongly fair: the plugin polls by a timer and starts a daemon when it
gets no answer, but a number may not be free at every moment.  `Vacate` says that
a number nobody refers to is freed, as there are only four.  Stoppers, crashes and
other programs owe nothing.  In `ServedView` each request's steps are weakly fair:
the timer sends, the daemon answers (`RequestsAnswered` of `Daemon`), `vim.schedule`
runs the callback; changes, acknowledgements and faults are bounded, so they end.
In `TrackedPullRequests` collections go on (`PeriodicRefresh` of `Daemon`) and time
passes, both weakly fair, and a collection is not for ever left out before it comes to
the groups.  That a group's search succeeds again and again if it is tried again and
again is no assumption of the specification but the premise of `SettledIsShown`, for
that group alone; a search that is refused for ever lets an old entry serve for ever.

`RequestsAnswered` and `PeriodicRefresh` take it that each step of a collection ends,
which `ratelimit_stuck` refutes for one of them: when `gh api rate_limit` is answered
with a refusal, the collection holds `collectionMu` for ever, and refreshes, resets and
ticks wait for it.

## Proofs

`TaskIdentity_proofs` proves for any sets of refs and keys, any collections and any
bound:

* `TypeCorrect`, `ActiveIdsAreUnique`: the types, and that no two tasks have one ID
  unless one of them is done;
* `IdsKeepTheirMeaning`: an ID that is used before and after a step of the list
  belongs to related tasks (a shared ref or ticket key);
* `ClearTasksKeepTheirIds`: if an old task and a new one are related to each other
  and to nothing else, the ID passes on.

They rest on `IInv`, proved inductive in `Invariance`.  None of the properties is
inductive: within a round of `assignTaskIDs` one must know that what is assigned
so far mirrors the list (`AssignedMirrorsNext`), that IDs given in this round
differ (`GivenDiffer`), that `maxID` bounds all old IDs and all given ones
(`MaxBounds`), where each given ID comes from (`Provenance`), that a fresh one is
only given where nothing matched (`FreshOnlyIfNeeded`), and that only done tasks
come with an ID (`CarriedAreDone`).  The assumption used is `IdentityAssumption`:
what a collection links has refs, no ID and is not done.

`Daemon_proofs` proves for any connections, requests, tasks and sources, with or
without failing file operations and crashes:

* `TypeCorrect`;
* `ResetsAreIsolated`: between clearing the store and its collection's `SetTasks` a
  reset is alone with the store;
* `SourcesMatchTasks`: when nobody holds `collectionMu`, tasks and statuses are of
  one collection.

The inductive invariant `IInv` is about control, not data.  `ResetIsolated` and
`QuietSources` only mention one process; to keep them one must know that it holds
`collectionMu` exactly in the steps of a collection (`Exclusion`, `InCollection`),
that a request and the step it has come to fit together (`RequestsMatch`), that a
daemon that is down has no goroutines (`DownIdle`), and what the holder of the
mutex has installed between `SetTasks` and `SetSources` (`Between`,
`SourcesFollow`).  The assumption used is `DaemonAssumption`.

`OnlyLateOnesAreLost` is about `DaemonHistory`, by the same invariant and `HInv`: a
collection that has not yet read the old acknowledgements looks into the store's maps
(`ReadsMaps`), and what one that has does not know of is in `late` (`HasRead`).

The theorems about the file are about `DaemonFile` and hold for any connections,
requests, tasks, collections, failures and crashes:

* `FileIsWhole`: the file is a complete snapshot or absent at every moment, unless two
  have used it at once and nobody has written it alone since;
* `FileIsCurrent`: when nobody uses it, it is what a restart should load, unless saves
  have met or failed and nobody has written it alone since;
* `ResetsForget`: it is absent while a reset collects, unless a save was under way when
  the reset removed it or cleared the store;
* `DaemonIsDurable`: every step of the daemon is a step of `DurableTasks`, or one that
  neither its memory nor its file shows.

`DInv` says that as long as two have not met there is at most one that uses the file
(`Apart`), and follows its save: the copy is the memory, the temporary file is empty
and then the memory, and nobody has another file open (`LoneSave`, `Descriptors`).
Once two have met nothing is known of the temporary file and of `tasks.json`, until
nobody uses them: a meeting is mixed and behind (`Meetings`), and a save that begins
later truncates whatever the temporary file has become.  During a reset the file is
gone, and an acknowledgement finds no task in the cleared store, so that whoever uses
the file now has met the reset (`Forgets`).  `FileAssumption` says that a missing, an
empty and a torn file are no complete ones.

`PullRequest_proofs` proves the four invariants of `pr_safe` for any comments, days and
failures.  An acknowledgement is behind the own task, in a done one of the day, or in
the hands of a collection; `IInv` says which (`AckKept`, `KeptUpward`), that nothing is
of the future and no acknowledgement is later than the comment it does not cover
(`Past`, `AckBeforeLatest`), that a task asks for attention as the comments behind it
say (`Fitting`), and how far a closing has come (`PendingOnItsWay`).  The own task, the
answer and the closing are sets of at most one, and there is always a newest done
task, for which it cites facts about finite sets and well-founded orders.

`RateLimit_proofs` proves `ReserveKept` and `PauseBounded` for any limits, windows,
prices, reserves and lives of the cache.  The cached budget without what was reserved
since is never more than what GitHub has and what calls took beyond their reserve, as
long as only Radar spends (`Estimated`); where the price is no more than the reserve,
as for searches, nothing is taken beyond it; and a window seen in the cache ends no later
than the current one does (`ResetsGrow`), from which the pauses are bounded.

`DaemonProcess_proofs` proves `OneDaemon`, `ServingIsNamed` and `StopReachesAll` for any
number of processes and stoppers, with any number of mishaps.  Until two starts
overlap, the pid file follows the daemon from step to step (`FileFollows`), and so
does the socket (`SocketFollows`); from that it is alone (`Alone`), and what a stop
owes is what the pid file named (`OwedFollow`).

`Projection_proofs` proves for any lists of tasks and refs, in any order, and any
number of rules:

* `AttachedAreRelated`: which refs a task of GitHub is given;
* `NothingIsLost`: where every ref is in the end;
* `GroupsAreConnections`: two of the refs that are left are in one group if and only
  if every set of refs with all their relatives has both or neither;
* `LastRuleWins`: what a new rule changes in what is served;
* `SearchFits`: that `wildcardMatch` accepts a name if and only if the stars of the
  pattern can be replaced by texts that make it the name;
* `TypeCorrect`.

`LInv` follows the two passes: after n refs a task has what tickets, and then what
paths, bring of the first n (`Brought`).  In the groups it is the invariant of any
graph search: what has left the queue has no relative outside (`Closed`), what is in
a group is connected (`Together`), and the queue has refs of one group (`OneQueue`);
and a ref whose group is closed is in exactly one task made of a group (`HeldOnce`).
`LinkingAssumption` says that tasks and refs are lists, and that an ID tells refs
apart; `ProjectionAssumption` that GitHub gives a known attention and that the lists
of the file come without rules.  The file is whole at every step (`FileOK`), and what
the rules say after the last one is found by induction on their number (`LoopSame`).

For `SearchFits` the pieces are what the characters read so far make of them
(`SplitBy`), and `Rows` shows character by character that the table which defines the
meaning has, for a part of the pattern and a part of the name, what the complete pieces
and the last one reach (`Reached`).  A star needs that the first end of a piece is all
that matters for what comes behind (`FirstEnd`), which is why the code need not try
another; `LastPiece` is about `strings.HasSuffix`, asked of the whole name and not of
what is left of it.  `FilteringAssumption` says that lower-casing keeps a star a star
and makes none.

`ServedView_proofs` proves `TypeOK`, `CountsMatchItems` and `AnnouncedOnce` for any
requests under way, things and tasks, and any number of changes, acknowledgements and
lost answers.  `IInv` adds that a finished answer counts what it lists
(`AnswersCount`), that the IDs seen are those of the list that `fetch` used last
(`SeenIsLast`), and that what has stayed in the view is in it and in every answer under
way that has not been crossed (`SteadyServed`).  Filtering and acknowledging go through
a list of any length with `FlattenSeq`; that the whole has the elements of the parts
(`Flattened`) is proved by induction on their number.

`TrackedPullRequests_proofs` proves `BoundedlyStale` and `CompleteUnlessBroken` for any
groups, rules, lives of an entry and failures.  The first needs that what an entry
lists, in the file or in memory, is open or has been closed for no longer than the
entry is old (`Caches`); the second that whatever the cache has for a group that has
had its turn, and the rules match, is found (`Complete`).

Lists and rules are of any length in these proofs: what a recursive function makes of
them is proved by taking the least position at which the claim fails.

Model checked only: all liveness (`RequestsAnswered`, `PeriodicRefresh`,
`CollectionEndsOrStuck`, `ServedOrBlocked`, `Converges`, `SettledIsShown`), which is out
of the prover's reach.

## What the code gets wrong

Two violation runs, with their documentation in `PROJECT.json`: `daemon_race`, a race
on metadata maps, for which the Go runtime ends the process, and `ratelimit_stuck`, a
self deadlock in `rateLimits`.  Met on the way and without a run; some of them are
what the preconditions of the properties leave out:

Store and daemon

* saves of `SetTasks` and `Acknowledge` are not serialised: the file may be torn, old,
  or come back after a reset;
* an acknowledgement without a new comment takes the daemon's clock, and covers
  comments made since the last collection, which the user has not seen.

Identity and pull requests

* a done task and an active one can have the same ID, so that `ack:<id>` finds either;
* two tasks about one pull request swap and churn their IDs;
* a closed pull request is forgotten if the first collection after it fails.

GitHub

* a refused GraphQL query pauses core, so that the next refresh repeats it;
* cached limits whose window is over refuse once more, and the status then names
  Go's zero time as the end of the pause;
* the query takes some 40 points and 10 are reserved, so that with less than that
  above the minimum the reserve of the GraphQL budget is not kept;
* the core budget has no reserve that holds, since `gh api user` is not checked and
  one check stands for any number of fetches;
* of more than 100 open pull requests of one owner and user, the search returns 100,
  and nothing says that there are more;
* a failing search for a group without a cache entry ends the loop, and the later
  groups lose even what the cache has for them;
* `expandRepoPatternBestEffort` with its repository cache, `FetchReviewRequests`,
  `FetchAuthoredPullRequests` and `fetchNotifications` are called from nowhere; the
  README (line 185) and ARCHITECTURE (line 143) describe the first of them.

Process

* two starts at once may leave two daemons; if the one named in the pid file has lost
  the socket to the other, which then ends, no new one starts until a stop;
* where there is no `/proc`, a number that has passed to another program keeps
  daemons from starting, and a stop signals that program;
* `restart` does not wait for the effect of Kill, and what it starts may find the
  old daemon and leave: then there is none until the next request;
* a daemon whose `Accept` fails removes the socket of another one.

Linker, filters, plugin

* paths match both ways, so that a session in the home directory joins every task
  with a worktree below it;
* an unreadable `filters.json` serves everything that was muted;
* an answer to `ack` is not filtered, and its counts may not fit its list;
* answers out of order announce a task again;
* after a reset, numbers start again: a task may go unannounced because its number was
  announced before, and an acknowledgement may reach another task.

## Not modelled

* Jira, git and tmux: parsing of command output; they return source refs, which
  `Linking` takes as any.  Jira's two fallbacks and its fetch per vanished issue run
  in sequence within one step.
* Requested reviews and the activity tasks of other pull requests in `PullRequest`:
  other threads count for their attention.
* Rendering, the reload of a binary that has changed, and the jump to tmux
  sessions in the plugin; the command line's output; logging; the text of statuses.
* GraphQL answers and their pages, the regular expression for tickets, times below
  a minute.
* `daemonPIDsFromPS`, which is called from nowhere.

What `PROJECT.json` tells among the hazards and no property covers, because the code
does not prevent it and no line of it says that it does: a done and an active task with one ID; an ID that
is given away while an `ack` for it is on its way; a refused GraphQL query that is
repeated at once; a core budget without a reserve; and the signal that a stop sends to
another program which has taken the number.

## Plan

Every invariant and action property of the runs that pass is proved.  What is left:

1. Requested reviews and activity tasks as kinds of `PullRequest`, with the threads
   that count for each, and `AcksSurvive` and `ClosedBecomesDone` for all of them.
2. Jira's fallbacks and done issues, next to those of GitHub.
