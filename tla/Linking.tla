------------------------------ MODULE Linking ------------------------------
(* internal/linker: how source refs (Jira issues, worktrees, tmux sessions) *)
(* are put into GitHub's tasks and into tasks of their own.  One call of    *)
(* Link is one behaviour: two passes over the refs, then the groups, which  *)
(* a search through related refs builds one after the other.                *)
EXTENDS Naturals, Sequences, FiniteSets, SequencesExt

CONSTANTS TaskLists,      \* what GitHub's Ingest may return
          RefLists,       \* the source refs of the other sources, in their order
          KeyOf,          \* ticket as spelled in a text -> its upper case form
          IgnoredBranches \* "", main, master, develop, dev

\* A list of tasks as GitHub's Ingest makes them, and one of refs.
IsTask(t) ==
    /\ t = [tickets |-> t.tickets, repo |-> t.repo, user |-> t.user,
            attention |-> t.attention, refs |-> t.refs]
    /\ t.refs \in Seq(ToSet(t.refs)) /\ t.refs # <<>>
\* An ID has the source's name and what tells the source's refs apart.
IdsIdentify(S) == \A e, f \in S : e.id = f.id => e = f
ASSUME LinkingAssumption ==
    \A list \in RefLists :
        /\ list \in Seq(ToSet(list))
        /\ \A j, k \in DOMAIN list : list[j].id = list[k].id => j = k
        /\ \A given \in TaskLists :
              /\ given \in Seq(ToSet(given)) /\ \A i \in DOMAIN given : IsTask(given[i])
              /\ IdsIdentify(ToSet(list) \cup UNION {ToSet(given[i].refs) : i \in DOMAIN given})

VARIABLES tasks,   \* input: the tasks
          refs,    \* input: the source refs
          items,   \* the tasks with what has been put into them
          step,    \* what comes next
          at,      \* the ref whose turn it is
          start,   \* the tasks when the pass began
          loose,   \* indices of refs that no task has
          groupOf, \* ref -> the first ref of its group, 0 if it is in none yet
          queue,   \* refs that were found and not visited
          group    \* the refs of the group that is being built
input == <<tasks, refs>>
search == <<groupOf, queue, group>>
vars == <<input, items, step, at, start, loose, search>>

Keys(tickets) == {KeyOf[t] : t \in tickets}
Ids(list) == {list[i].id : i \in DOMAIN list}
\* cleanLinkPath: the root is no path to link by.
Clean(paths) == paths \ {<<>>}

RefKeys(r) == Keys(r.tickets)
TaskKeys(t) == Keys(t.tickets) \cup UNION {RefKeys(t.refs[i]) : i \in DOMAIN t.refs}
RefPaths(r) == Clean(r.paths)
TaskPaths(t) == UNION {RefPaths(t.refs[i]) : i \in DOMAIN t.refs}

KeysMatch(a, b) == a \cap b # {}
SameOrNested(p, q) == IsPrefix(p, q) \/ IsPrefix(q, p)
PathsMatch(a, b) == \E p \in a, q \in b : SameOrNested(p, q)
Related(r, s) == KeysMatch(RefKeys(r), RefKeys(s)) \/ PathsMatch(RefPaths(r), RefPaths(s))

Ignored(r) == r.source = "git" /\ r.kind = "worktree" /\ r.branch \in IgnoredBranches

----------------------------------------------------------------------------
Init ==
    /\ tasks \in TaskLists /\ refs \in RefLists
    /\ items = tasks
    /\ step = "ticket" /\ at = 1 /\ start = tasks
    /\ loose = {} /\ groupOf = [k \in DOMAIN refs |-> 0] /\ queue = {} /\ group = <<>>

AppendSourceRef(list, r) == IF r.id \in Ids(list) THEN list ELSE Append(list, r)
\* One round of the loop over the refs, for every task; the code does one task
\* after the other, of which none depends on another.
Attach(matching) ==
    /\ items' = [i \in DOMAIN items |->
                    IF i \in matching THEN [items[i] EXCEPT !.refs = AppendSourceRef(@, refs[at])]
                    ELSE items[i]]
    /\ at' = at + 1
    /\ UNCHANGED <<input, step, start, loose, search>>
NextPass(name) ==
    /\ at > Len(refs)
    /\ step' = name /\ at' = 1 /\ start' = items
    /\ UNCHANGED <<input, items, search>>

\* What is in the task decides before the first ref is added.
LinkByTicket ==
    /\ step = "ticket" /\ at <= Len(refs)
    /\ Attach({i \in DOMAIN start : KeysMatch(TaskKeys(start[i]), RefKeys(refs[at]))})
TicketsDone == step = "ticket" /\ NextPass("path") /\ UNCHANGED loose

\* mutant
PathsBefore(i) == TaskPaths(tasks[i])
PathsOf(i) == TaskPaths(start[i])
LinkByPath ==
    /\ step = "path" /\ at <= Len(refs)
    /\ Attach({i \in DOMAIN start : PathsMatch(PathsOf(i), RefPaths(refs[at]))})

Attached == UNION {Ids(items[i].refs) : i \in DOMAIN items}
\* mutant
UnattachedButFirst == {k \in DOMAIN refs \ {1} : refs[k].id \notin Attached /\ ~Ignored(refs[k])}
Unattached == {k \in DOMAIN refs : refs[k].id \notin Attached /\ ~Ignored(refs[k])}
FindLoose == step = "path" /\ NextPass("group") /\ loose' = Unattached

\* sourceRefGroups: every ref that is not used yet begins a group.
Ungrouped == {k \in loose : groupOf[k] = 0}
OpenGroup ==
    /\ step = "group" /\ at \in Ungrouped
    /\ groupOf' = [groupOf EXCEPT ![at] = at]
    /\ queue' = {at} /\ group' = <<>>
    /\ step' = "search"
    /\ UNCHANGED <<input, items, at, start, loose>>
SkipUsed ==
    /\ step = "group" /\ at \in DOMAIN refs \ Ungrouped
    /\ at' = at + 1
    /\ UNCHANGED <<input, items, step, start, loose, search>>

\* mutant
FoundBehind(k) == {j \in Ungrouped : k < j /\ Related(refs[k], refs[j])}
Found(k) == {j \in Ungrouped : Related(refs[k], refs[j])}
\* The order in which the queue is emptied is left open.
Visit(k) ==
    /\ step = "search" /\ k \in queue
    /\ group' = Append(group, refs[k])
    /\ groupOf' = [j \in DOMAIN refs |-> IF j \in Found(k) THEN at ELSE groupOf[j]]
    /\ queue' = (queue \ {k}) \cup Found(k)
    /\ UNCHANGED <<input, items, step, at, start, loose>>

\* mutant
MembersBehind == Tail(group)
Members == group
TaskFromSourceRefs(k) ==
    [tickets |-> {}, repo |-> refs[k].repo, user |-> <<>>, attention |-> "in_progress", refs |-> Members]
CloseGroup ==
    /\ step = "search" /\ queue = {}
    /\ items' = Append(items, TaskFromSourceRefs(at))
    /\ step' = "group" /\ at' = at + 1
    /\ UNCHANGED <<input, start, loose, search>>
Finish ==
    /\ step = "group" /\ at > Len(refs)
    /\ step' = "done"
    /\ UNCHANGED <<input, items, at, start, loose, search>>

Link ==
    \/ LinkByTicket \/ TicketsDone \/ LinkByPath \/ FindLoose
    \/ OpenGroup \/ SkipUsed \/ (\E k \in DOMAIN refs : Visit(k)) \/ CloseGroup
    \/ Finish
Spec == Init /\ [][Link]_vars

----------------------------------------------------------------------------
(* The positions of refs: which tasks have them, which group they are in.   *)
PositionsOK ==
    /\ loose \subseteq DOMAIN refs /\ queue \subseteq loose
    /\ groupOf \in [DOMAIN refs -> 0..Len(refs)]
    /\ step \in {"ticket", "path", "group", "search", "done"}
    /\ at \in 1..Len(refs) + 1

(* A ref is in a task of GitHub if and only if they have a ticket in        *)
(* common, or a path of the task, or of what the ticket brought, holds the  *)
(* ref's or is in it; in particular, what is left over belongs to no task.  *)
Own(i, r) == r.id \in Ids(tasks[i].refs)
ByTicket(i, r) == KeysMatch(TaskKeys(tasks[i]), RefKeys(r))
ByPath(i, r) ==
    \E e \in ToSet(tasks[i].refs) \cup ToSet(refs) :
        (Own(i, e) \/ ByTicket(i, e)) /\ PathsMatch(RefPaths(e), RefPaths(r))
AttachedIfRelated ==
    step \in {"group", "search", "done"} =>
        \A i \in DOMAIN tasks, k \in DOMAIN refs :
            refs[k].id \in Ids(items[i].refs) <=>
                Own(i, refs[k]) \/ ByTicket(i, refs[k]) \/ ByPath(i, refs[k])

(* Nothing is lost: in the end every ref is in a task of GitHub, or in      *)
(* exactly one task of its own, or a worktree on an ignored branch.         *)
Holders(k) == {i \in DOMAIN items : refs[k].id \in Ids(items[i].refs)}
NothingLost ==
    step = "done" =>
        \A k \in DOMAIN refs :
            \/ Holders(k) # {} /\ Holders(k) \subseteq DOMAIN tasks
            \/ Cardinality(Holders(k)) = 1
            \/ Ignored(refs[k])
=============================================================================
