-------------------------- MODULE Projection_proofs --------------------------
(* Theorems about Link and filters.json, for any lists of tasks and of refs *)
(* and any number of rules: which refs a task is given, how what is left    *)
(* over is grouped, that nothing is lost, which rule decides, and what a    *)
(* pattern matches.  The inductive invariant follows the two passes and the *)
(* search through the groups; what the rules say is proved by induction on  *)
(* their number, what a pattern matches by one on its characters.           *)
EXTENDS Projection, TLAPS, FiniteSetTheorems, SequenceTheorems, WellFoundedInduction

-----------------------------------------------------------------------------
(* The inductive invariant.                                                *)

Input == tasks \in TaskLists /\ refs \in RefLists

Grouped == {k \in loose : groupOf[k] # 0}
Later == step \in {"group", "search", "done"}

Positions ==
    /\ step \in {"ticket", "path", "group", "search", "done"}
    /\ at \in 1 .. Len(refs) + 1 /\ (step = "search" => at <= Len(refs))
    /\ loose \subseteq DOMAIN refs /\ queue \subseteq Grouped
    /\ groupOf \in [DOMAIN refs -> {0} \cup DOMAIN refs]

\* What is queued belongs to the group that is being built.
OneQueue ==
    /\ step = "search" => at \in loose /\ groupOf[at] = at /\ \A k \in queue : groupOf[k] = at
    /\ step # "search" => queue = {}

\* A group has the name of its first member; whatever the loop has passed is grouped.
Named ==
    /\ \A k \in DOMAIN refs \ loose : groupOf[k] = 0
    /\ \A k \in Grouped :
          /\ groupOf[k] \in Grouped /\ groupOf[groupOf[k]] = groupOf[k]
          /\ groupOf[k] < at \/ (step = "search" /\ groupOf[k] = at)
Passed ==
    /\ ~Later => loose = {}
    /\ \A k \in loose : k < at \/ step = "done" => groupOf[k] # 0

\* Whoever has been visited has all its relatives in its group.
Closed ==
    \A j \in Grouped \ queue, k \in loose :
        Related(refs[j], refs[k]) => groupOf[k] = groupOf[j]

\* Nothing is put together that is not connected.
Together == \A j, k \in Grouped : groupOf[j] = groupOf[k] => Connected(j, k)

\* Every ref there is.
AllRefs == ToSet(refs) \cup UNION {ToSet(tasks[i].refs) : i \in DOMAIN tasks}
IsList(list) == list \in Seq(ToSet(list))
Item(t) == IsTask(t) /\ ToSet(t.refs) \subseteq AllRefs /\ t.attention \in Attentions

\* What tickets bring into task i of the first n refs, and paths of what tickets brought.
TicketRefs(i, n) == ToSet(tasks[i].refs) \cup {refs[k] : k \in {m \in 1 .. n : ByTicket(i, refs[m])}}
PathRefs(i, n) ==
    TicketRefs(i, Len(refs)) \cup
    {refs[k] : k \in {m \in 1 .. n :
                 \E e \in TicketRefs(i, Len(refs)) : PathsMatch(RefPaths(e), RefPaths(refs[m]))}}

Shapes ==
    /\ IsList(items) /\ \A i \in DOMAIN items : Item(items[i])
    /\ IsList(start) /\ \A i \in DOMAIN start : Item(start[i])
    /\ ~Later => Len(start) = Len(tasks) /\ Len(items) = Len(tasks)
    /\ Len(tasks) <= Len(items)

Brought ==
    \A i \in DOMAIN tasks :
       /\ step = "ticket" => start[i] = tasks[i] /\ ToSet(items[i].refs) = TicketRefs(i, at - 1)
       /\ step = "path" => /\ ToSet(start[i].refs) = TicketRefs(i, Len(refs))
                           /\ ToSet(items[i].refs) = PathRefs(i, at - 1)
       /\ Later => ToSet(items[i].refs) = PathRefs(i, Len(refs))

\* What no task of GitHub has and is not ignored is left over.
Has(n, k) == refs[k] \in ToSet(items[n].refs)
LeftOver ==
    Later => loose = {k \in DOMAIN refs : ~Ignored(refs[k]) /\ \A i \in DOMAIN tasks : ~Has(i, k)}

\* The group under way has what has been visited; a ref whose group is closed is
\* in one task made of a group, and no other ref is in any.
Visited ==
    step = "search" =>
        /\ IsList(group)
        /\ ToSet(group) = {refs[k] : k \in {j \in loose : groupOf[j] = at /\ j \notin queue}}
InTask(k) == k \in Grouped /\ groupOf[k] < at
HeldBy(n, k) == n \in DOMAIN items /\ n > Len(tasks) /\ Has(n, k)
HeldOnce ==
    Later => \A k \in DOMAIN refs :
                IF InTask(k) THEN \E n \in Nat : HeldBy(n, k) /\ \A m \in Nat : HeldBy(m, k) => m = n
                ELSE \A n \in Nat : ~HeldBy(n, k)

Groups == Positions /\ OneQueue /\ Named /\ Passed /\ Closed /\ Together
Held == Shapes /\ Brought /\ LeftOver /\ Visited /\ HeldOnce
LInv == Input /\ Groups /\ Held

-----------------------------------------------------------------------------
(* Lists and IDs.                                                          *)

LEMMA Appended ==
    ASSUME NEW list, IsList(list), NEW r
    PROVE  /\ IsList(Append(list, r)) /\ ToSet(Append(list, r)) = ToSet(list) \cup {r}
           /\ Len(Append(list, r)) = Len(list) + 1 /\ Len(list) \in Nat
           /\ DOMAIN list = 1 .. Len(list)
           /\ \A i \in 1 .. Len(list) : Append(list, r)[i] = list[i]
           /\ Append(list, r)[Len(list) + 1] = r
<1> DEFINE S == ToSet(list) \cup {r}
           new == Append(list, r)
<1>1. list \in Seq(S) /\ Len(list) \in Nat /\ DOMAIN list = 1 .. Len(list)
  BY DEF IsList, ToSet
<1>2. /\ new \in Seq(S) /\ Len(new) = Len(list) + 1 /\ DOMAIN new = 1 .. Len(list) + 1
      /\ \A i \in 1 .. Len(list) : new[i] = list[i]
      /\ new[Len(list) + 1] = r
  <2> HIDE DEF S
  <2>1. r \in S
    BY DEF S
  <2> QED
    BY <1>1, <2>1
<1>3. \A x : x \in ToSet(new) <=> x \in ToSet(list) \/ x = r
  <2> HIDE DEF new, S
  <2>1. \A i : i \in 1 .. Len(list) + 1 <=> i \in 1 .. Len(list) \/ i = Len(list) + 1
    BY <1>1
  <2> QED
    BY <1>1, <1>2, <2>1 DEF ToSet
<1>4. ToSet(new) = S
  BY <1>3
<1> QED
  BY <1>1, <1>2, <1>4 DEF IsList

LEMMA ListElements ==
    ASSUME NEW list, IsList(list)
    PROVE  /\ Len(list) \in Nat /\ DOMAIN list = 1 .. Len(list)
           /\ \A i \in DOMAIN list : list[i] \in ToSet(list)
           /\ \A x \in ToSet(list) : \E i \in DOMAIN list : x = list[i]
  BY DEF IsList, ToSet

\* What the inputs are.
LEMMA Inputs ==
    ASSUME Input
    PROVE  /\ IsList(refs) /\ \A j, k \in DOMAIN refs : refs[j].id = refs[k].id => j = k
           /\ IsList(tasks) /\ \A i \in DOMAIN tasks : Item(tasks[i])
           /\ IdsIdentify(AllRefs)
           /\ \A k \in DOMAIN refs : refs[k] \in AllRefs
<1>1. IsList(refs) /\ \A j, k \in DOMAIN refs : refs[j].id = refs[k].id => j = k
  BY LinkingAssumption DEF Input, IsList
<1>2. IsList(tasks) /\ \A i \in DOMAIN tasks : IsTask(tasks[i])
  BY LinkingAssumption DEF Input, IsList
<1>3. IdsIdentify(AllRefs)
  BY LinkingAssumption, Zenon DEF Input, AllRefs
<1>4. \A i \in DOMAIN tasks : ToSet(tasks[i].refs) \subseteq AllRefs /\ tasks[i].attention \in Attentions
  BY ProjectionAssumption DEF AllRefs, Input
<1>5. \A k \in DOMAIN refs : refs[k] \in AllRefs
  BY DEF AllRefs, ToSet
<1> QED
  BY <1>1, <1>2, <1>3, <1>4, <1>5 DEF Item

\* A list has a ref or its ID, that is the same.
LEMMA IdIsRef ==
    ASSUME Input, NEW list, IsList(list), ToSet(list) \subseteq AllRefs, NEW r \in AllRefs
    PROVE  r.id \in Ids(list) <=> r \in ToSet(list)
<1>1. Ids(list) = {x.id : x \in ToSet(list)}
  BY DEF Ids, ToSet
<1> QED
  BY <1>1, Inputs DEF IdsIdentify

LEMMA AppendedRef ==
    ASSUME Input, NEW list, IsList(list), ToSet(list) \subseteq AllRefs, NEW r \in AllRefs
    PROVE  /\ IsList(AppendSourceRef(list, r))
           /\ ToSet(AppendSourceRef(list, r)) = ToSet(list) \cup {r}
           /\ list # <<>> => AppendSourceRef(list, r) # <<>>
<1>1. CASE r.id \in Ids(list)
  BY <1>1, IdIsRef DEF AppendSourceRef
<1>2. CASE r.id \notin Ids(list)
  <2>1. Append(list, r) # <<>>
    BY Appended
  <2> QED
    BY <1>2, <2>1, Appended DEF AppendSourceRef
<1> QED
  BY <1>1, <1>2

\* The refs that a task has decide what it matches.
LEMMA PathsOfRefs ==
    ASSUME NEW t, IsList(t.refs), NEW r
    PROVE  PathsMatch(TaskPaths(t), RefPaths(r)) <=> \E e \in ToSet(t.refs) : PathsMatch(RefPaths(e), RefPaths(r))
  BY DEF PathsMatch, TaskPaths, ToSet

-----------------------------------------------------------------------------
(* The groups.                                                             *)

\* Relatedness goes both ways.
LEMMA RelatedSymmetric ==
    \A r, s : Related(r, s) => Related(s, r)
  BY DEF Related, KeysMatch, PathsMatch, SameOrNested

\* Being connected is an equivalence that relatives are in.
LEMMA Reflexive == \A j : Connected(j, j)
  BY DEF Connected

LEMMA Symmetric ==
    ASSUME NEW j \in loose, NEW k \in loose, Connected(j, k) PROVE Connected(k, j)
<1> SUFFICES ASSUME NEW S \in SUBSET loose, WithRelatives(S), k \in S PROVE j \in S
  BY DEF Connected
<1> DEFINE rest == loose \ S
<1>1. WithRelatives(rest)
  BY RelatedSymmetric DEF WithRelatives
<1>2. j \in rest => k \in rest
  BY <1>1 DEF Connected
<1> QED
  BY <1>2

LEMMA Transitive ==
    ASSUME NEW j, NEW k, NEW l, Connected(j, k), Connected(k, l) PROVE Connected(j, l)
  BY DEF Connected

LEMMA RelativesConnected ==
    ASSUME NEW j \in loose, NEW k \in loose, Related(refs[j], refs[k])
    PROVE  Connected(j, k) /\ Connected(k, j)
<1>1. Connected(j, k)
  BY DEF Connected, WithRelatives
<1> QED
  BY <1>1, Symmetric

LEMMA ConnectedStays ==
    ASSUME UNCHANGED <<refs, loose>> PROVE \A j, k : Connected(j, k)' <=> Connected(j, k)
  BY DEF Connected, WithRelatives

LEMMA SameConnections ==
    ASSUME UNCHANGED <<refs, loose, groupOf>> PROVE Together' <=> Together
  BY ConnectedStays DEF Together, Grouped

LEMMA RefsDomain ==
    ASSUME Input PROVE Len(refs) \in Nat /\ DOMAIN refs = 1 .. Len(refs)
  BY Inputs DEF IsList

\* As long as there are no groups.
LEMMA NoGroups ==
    ASSUME Input, Groups, ~Later
    PROVE  loose = {} /\ Grouped = {} /\ queue = {} /\ \A k \in DOMAIN refs : groupOf[k] = 0
  BY DEF Groups, Passed, Grouped, Named, Positions

LEMMA EarlyGroups ==
    ASSUME Input, Groups, LinkByTicket \/ LinkByPath \/ TicketsDone PROVE Groups'
<1>1. /\ UNCHANGED <<refs, loose, groupOf, queue>> /\ ~Later /\ step' \in {"ticket", "path"}
      /\ at' \in 1 .. Len(refs) + 1
  BY RefsDomain DEF LinkByTicket, LinkByPath, TicketsDone, Attach, NextPass, input, search, Later,
     Groups, Positions
<1>2. Positions' /\ OneQueue'
  BY <1>1, NoGroups DEF Groups, Positions, OneQueue, Grouped
<1>3. Named' /\ Passed' /\ Closed'
  BY <1>1, NoGroups DEF Groups, Named, Passed, Closed, Grouped
<1> QED
  BY <1>1, <1>2, <1>3, SameConnections DEF Groups

LEMMA FindLooseGroups ==
    ASSUME Input, Groups, FindLoose PROVE Groups'
<1>1. /\ UNCHANGED <<refs, groupOf, queue>> /\ ~Later /\ step' = "group" /\ at' = 1
      /\ loose' \subseteq DOMAIN refs
  BY DEF FindLoose, NextPass, input, search, Later, Unattached
<1>2. Grouped' = {}
  BY <1>1, NoGroups DEF Grouped
<1>3. Positions' /\ OneQueue'
  BY <1>1, <1>2, NoGroups, RefsDomain DEF Groups, Positions, OneQueue
<1>4. Named' /\ Closed' /\ Together'
  BY <1>1, <1>2, NoGroups DEF Named, Closed, Together
<1>5. Passed'
  BY <1>1, RefsDomain DEF Passed, Later
<1> QED
  BY <1>3, <1>4, <1>5 DEF Groups

LEMMA SkipUsedGroups ==
    ASSUME Input, Groups, SkipUsed \/ Finish PROVE Groups'
<1>1. /\ UNCHANGED <<refs, loose, groupOf, queue>> /\ step = "group" /\ step' \in {"group", "done"}
      /\ at' \in {at, at + 1} /\ at' \in 1 .. Len(refs) + 1 /\ Later /\ Later'
  BY RefsDomain DEF SkipUsed, Finish, input, search, Later, Groups, Positions
<1>2. Positions' /\ OneQueue' /\ Closed'
  BY <1>1 DEF Groups, Positions, OneQueue, Closed, Grouped
<1>3. Named'
  <2>1. \A k \in Grouped : groupOf[k] < at'
    BY <1>1, RefsDomain DEF Groups, Named, Positions, Grouped
  <2> QED
    BY <1>1, <2>1 DEF Groups, Named, Grouped
<1>4. Passed'
  BY <1>1, RefsDomain DEF SkipUsed, Finish, Ungrouped, Groups, Passed, Positions
<1> QED
  BY <1>1, <1>2, <1>3, <1>4, SameConnections DEF Groups

LEMMA CloseGroupGroups ==
    ASSUME Input, Groups, CloseGroup PROVE Groups'
<1>1. /\ UNCHANGED <<refs, loose, groupOf, queue>> /\ step = "search" /\ step' = "group"
      /\ at' = at + 1 /\ at' \in 1 .. Len(refs) + 1 /\ Later /\ Later' /\ queue = {}
  BY RefsDomain DEF CloseGroup, input, search, Later, Groups, Positions
<1>2. Positions' /\ OneQueue' /\ Closed'
  BY <1>1 DEF Groups, Positions, OneQueue, Closed, Grouped
<1>3. Named'
  <2>1. \A k \in Grouped : groupOf[k] < at'
    BY <1>1, RefsDomain DEF Groups, Named, Positions, Grouped
  <2> QED
    BY <1>1, <2>1 DEF Groups, Named, Grouped
<1>4. Passed'
  BY <1>1, RefsDomain DEF Groups, Passed, Positions, OneQueue
<1> QED
  BY <1>1, <1>2, <1>3, <1>4, SameConnections DEF Groups

LEMMA OpenGroupGroups ==
    ASSUME Input, Groups, OpenGroup PROVE Groups'
<1>1. /\ UNCHANGED <<refs, loose, at>> /\ Later /\ Later'
      /\ queue = {} /\ queue' = {at} /\ at \in loose /\ groupOf[at] = 0
      /\ at \in DOMAIN refs /\ step = "group" /\ step' = "search"
      /\ groupOf' = [groupOf EXCEPT ![at] = at]
  BY DEF OpenGroup, Ungrouped, Groups, Positions, OneQueue, input, Later
<1>2. /\ Grouped' = Grouped \cup {at} /\ groupOf'[at] = at
      /\ \A j \in Grouped : groupOf'[j] = groupOf[j] /\ groupOf[j] # at
  BY <1>1, RefsDomain DEF Groups, Grouped, Positions, Named
<1>3. Positions' /\ OneQueue'
  <2>1. groupOf' \in [DOMAIN refs -> {0} \cup DOMAIN refs]
    BY <1>1 DEF Groups, Positions
  <2>2. at \in 1 .. Len(refs) + 1 /\ at <= Len(refs)
    BY <1>1, RefsDomain
  <2>3. queue' \subseteq Grouped' /\ OneQueue'
    BY <1>1, <1>2 DEF OneQueue
  <2> QED
    BY <1>1, <2>1, <2>2, <2>3 DEF Groups, Positions
<1>4. Named'
  BY <1>1, <1>2 DEF Groups, Named, Positions
<1>5. Passed'
  BY <1>1, <1>2, RefsDomain DEF Groups, Passed, Grouped, Positions
<1>6. Closed'
  <2> SUFFICES ASSUME NEW i \in Grouped, NEW j \in loose, Related(refs[i], refs[j])
               PROVE  groupOf'[j] = groupOf'[i]
    BY <1>1, <1>2 DEF Closed
  <2>1. groupOf[j] = groupOf[i] /\ groupOf[i] # 0
    BY <1>1 DEF Groups, Closed, Grouped
  <2> QED
    BY <1>1, <1>2, <2>1 DEF Grouped
<1>7. Together'
  <2> SUFFICES ASSUME NEW i \in Grouped', NEW j \in Grouped', groupOf'[i] = groupOf'[j]
               PROVE  Connected(i, j)
    BY <1>1, ConnectedStays DEF Together
  <2>1. CASE i \in Grouped /\ j \in Grouped
    BY <1>2, <2>1 DEF Groups, Together
  <2>2. CASE i = at \/ j = at
    <3>1. i = j
      BY <1>2, <2>2
    <3> QED
      BY <3>1, Reflexive
  <2> QED
    BY <1>2, <2>1, <2>2
<1> QED
  BY <1>3, <1>4, <1>5, <1>6, <1>7 DEF Groups

LEMMA VisitGroups ==
    ASSUME Input, Groups, NEW k \in DOMAIN refs, Visit(k) PROVE Groups'
<1> DEFINE F == Found(k)
<1>1. /\ UNCHANGED <<refs, loose, step, at>> /\ step = "search" /\ Later /\ Later'
      /\ k \in queue /\ k \in Grouped /\ queue' = (queue \ {k}) \cup F
      /\ groupOf' = [j \in DOMAIN refs |-> IF j \in F THEN groupOf[k] ELSE groupOf[j]]
      /\ groupOf[k] = at /\ at \in loose /\ groupOf[at] = at
  BY DEF Visit, Groups, Positions, OneQueue, input, Later
<1>2. /\ F \subseteq loose \ Grouped
      /\ \A j \in loose \ Grouped : Related(refs[k], refs[j]) => j \in F
      /\ \A j \in F : Related(refs[k], refs[j])
  BY DEF Found, Ungrouped, Grouped
<1> HIDE DEF F
<1>3. /\ Grouped' = Grouped \cup F
      /\ \A j \in Grouped : groupOf'[j] = groupOf[j]
      /\ \A j \in F : groupOf'[j] = groupOf[k]
  BY <1>1, <1>2 DEF Grouped, Groups, Positions
<1>4. Positions' /\ OneQueue'
  BY <1>1, <1>2, <1>3 DEF Groups, Positions, OneQueue, Grouped
<1>5. Passed'
  BY <1>1, <1>3 DEF Groups, Passed, Grouped, Positions
<1>6. Named'
  <2>1. \A j \in DOMAIN refs \ loose : groupOf'[j] = 0
    BY <1>1, <1>2 DEF Groups, Named
  <2> QED
    BY <1>1, <1>3, <2>1 DEF Groups, Named
<1>7. Closed'
  <2> SUFFICES ASSUME NEW i \in Grouped' \ queue', NEW j \in loose, Related(refs[i], refs[j])
               PROVE  groupOf'[j] = groupOf'[i]
    BY <1>1 DEF Closed
  <2>1. i \in Grouped /\ (i = k \/ i \notin queue)
    BY <1>1, <1>3
  <2>2. CASE i # k
    <3>1. groupOf[j] = groupOf[i] /\ j \in Grouped
      BY <2>1, <2>2 DEF Groups, Closed, Grouped
    <3> QED
      BY <1>3, <2>1, <3>1
  <2>3. CASE i = k
    <3>1. CASE j \notin Grouped
      BY <1>2, <1>3, <2>1, <2>3, <3>1
    \* Whoever is grouped is queued, or visited and has k as a relative.
    <3>2. CASE j \in Grouped /\ j \in queue
      BY <1>1, <1>3, <2>1, <2>3, <3>2 DEF Groups, OneQueue
    <3>3. CASE j \in Grouped \ queue
      BY <1>1, <1>3, <2>1, <2>3, <3>3, RelatedSymmetric DEF Groups, Closed, Grouped
    <3> QED
      BY <3>1, <3>2, <3>3
  <2> QED
    BY <2>2, <2>3
<1>8. Together'
  <2> SUFFICES ASSUME NEW i \in Grouped', NEW j \in Grouped', groupOf'[i] = groupOf'[j]
               PROVE  Connected(i, j)
    BY <1>1, ConnectedStays DEF Together
  <2>1. \A h \in F : Connected(h, k) /\ Connected(k, h)
    BY <1>1, <1>2, RelativesConnected DEF Grouped
  <2>2. CASE i \in Grouped /\ j \in Grouped
    BY <1>3, <2>2 DEF Groups, Together
  <2>3. CASE i \in F /\ j \in Grouped
    <3>1. Connected(k, j)
      BY <1>1, <1>3, <2>3 DEF Groups, Together
    <3> QED
      BY <2>1, <2>3, <3>1, Transitive
  <2>4. CASE i \in Grouped /\ j \in F
    <3>1. Connected(i, k)
      BY <1>1, <1>3, <2>4 DEF Groups, Together
    <3> QED
      BY <2>1, <2>4, <3>1, Transitive
  <2>5. CASE i \in F /\ j \in F
    BY <2>1, <2>5, Transitive
  <2> QED
    BY <1>3, <2>2, <2>3, <2>4, <2>5
<1> QED
  BY <1>4, <1>5, <1>6, <1>7, <1>8 DEF Groups

-----------------------------------------------------------------------------
(* The tasks.                                                              *)

\* One round of a pass.
LEMMA AttachStep ==
    ASSUME Input, Held, ~Later, at \in DOMAIN refs, NEW matching, Attach(matching)
    PROVE  /\ Shapes'
           /\ \A i \in DOMAIN tasks :
                 ToSet(items'[i].refs) = ToSet(items[i].refs) \cup (IF i \in matching THEN {refs[at]} ELSE {})
<1>1. /\ Len(items) \in Nat /\ DOMAIN items = 1 .. Len(items) /\ Len(tasks) = Len(items)
      /\ DOMAIN tasks = DOMAIN items
      /\ UNCHANGED <<tasks, refs, start, step>> /\ (Later' <=> Later) /\ AllRefs' = AllRefs
      /\ refs[at] \in AllRefs
  BY Inputs, ListElements DEF Held, Shapes, Attach, input, Later, AllRefs
<1> DEFINE new(i) == IF i \in matching
                     THEN [items[i] EXCEPT !.refs = AppendSourceRef(items[i].refs, refs[at])] ELSE items[i]
<1>2. items' = [i \in DOMAIN items |-> new(i)]
  BY DEF Attach
<1>3. ASSUME NEW i \in DOMAIN items
      PROVE  /\ Item(new(i))
             /\ ToSet(new(i).refs) = ToSet(items[i].refs) \cup (IF i \in matching THEN {refs[at]} ELSE {})
  <2>1. /\ Item(items[i]) /\ IsList(items[i].refs) /\ ToSet(items[i].refs) \subseteq AllRefs
        /\ items[i].refs # <<>>
    BY <1>3 DEF Held, Shapes, Item, IsTask, IsList
  <2>2. CASE i \notin matching
    BY <2>1, <2>2
  <2>3. CASE i \in matching
    <3> DEFINE list == AppendSourceRef(items[i].refs, refs[at])
    <3>1. /\ IsList(list) /\ ToSet(list) = ToSet(items[i].refs) \cup {refs[at]}
          /\ list # <<>>
      BY <1>1, <2>1, AppendedRef
    <3> HIDE DEF list
    <3>2. [items[i] EXCEPT !.refs = list] =
            [tickets |-> items[i].tickets, repo |-> items[i].repo, user |-> items[i].user,
             attention |-> items[i].attention, refs |-> list]
      BY <2>1 DEF Item, IsTask
    <3>3. new(i) = [items[i] EXCEPT !.refs = list]
      BY <2>3 DEF list
    <3> QED
      BY <1>1, <2>1, <2>3, <3>1, <3>2, <3>3 DEF Item, IsTask, IsList
  <2> QED
    BY <2>2, <2>3
<1> HIDE DEF new
<1>4. /\ DOMAIN items' = 1 .. Len(items) /\ \A i \in 1 .. Len(items) : items'[i] = new(i)
  BY <1>1, <1>2
<1>5. IsList(items') /\ Len(items') = Len(items)
  <2>1. items' \in [1 .. Len(items) -> ToSet(items')]
    BY <1>2, <1>4, <1>1 DEF ToSet
  <2> QED
    BY <1>1, <2>1 DEF IsList
<1>6. \A i \in DOMAIN items' : IsTask(items'[i]) /\ ToSet(items'[i].refs) \subseteq AllRefs /\ items'[i].attention \in Attentions
  BY <1>3, <1>4, <1>1 DEF Item
<1>7. \A i \in DOMAIN start : IsTask(start[i]) /\ ToSet(start[i].refs) \subseteq AllRefs /\ start[i].attention \in Attentions
  BY DEF Held, Shapes, Item
<1>8. Shapes'
  BY <1>1, <1>5, <1>6, <1>7 DEF Held, Shapes, Item
<1> QED
  BY <1>1, <1>3, <1>4, <1>8

LEMMA NextRef ==
    ASSUME Input, NEW n \in DOMAIN refs, NEW i
    PROVE  /\ TicketRefs(i, n) = TicketRefs(i, n - 1) \cup (IF ByTicket(i, refs[n]) THEN {refs[n]} ELSE {})
           /\ PathRefs(i, n) = PathRefs(i, n - 1) \cup
                (IF \E e \in TicketRefs(i, Len(refs)) : PathsMatch(RefPaths(e), RefPaths(refs[n]))
                 THEN {refs[n]} ELSE {})
<1>1. \A m : m \in 1 .. n <=> m \in 1 .. n - 1 \/ m = n
  BY RefsDomain
<1> QED
  BY <1>1 DEF TicketRefs, PathRefs

LEMMA SameInput ==
    ASSUME UNCHANGED <<tasks, refs>>
    PROVE  /\ Brought' <=>
              \A i \in DOMAIN tasks :
                 /\ step' = "ticket" => start'[i] = tasks[i] /\ ToSet(items'[i].refs) = TicketRefs(i, at' - 1)
                 /\ step' = "path" => /\ ToSet(start'[i].refs) = TicketRefs(i, Len(refs))
                                      /\ ToSet(items'[i].refs) = PathRefs(i, at' - 1)
                 /\ Later' => ToSet(items'[i].refs) = PathRefs(i, Len(refs))
  BY DEF Brought, TicketRefs, PathRefs, ByTicket

LEMMA TicketHeld ==
    ASSUME Input, Groups, Held, LinkByTicket PROVE Held'
<1> DEFINE matching == {i \in DOMAIN start : KeysMatch(TaskKeys(start[i]), RefKeys(refs[at]))}
<1>1. /\ UNCHANGED <<tasks, refs, step, start, loose>> /\ step = "ticket" /\ ~Later /\ ~Later'
      /\ at \in DOMAIN refs /\ at' = at + 1 /\ Attach(matching)
  BY RefsDomain DEF LinkByTicket, Attach, input, Later, Groups, Positions
<1>2. /\ Shapes'
      /\ \A i \in DOMAIN tasks :
            ToSet(items'[i].refs) = ToSet(items[i].refs) \cup (IF i \in matching THEN {refs[at]} ELSE {})
  <2> HIDE DEF matching
  <2> QED
    BY <1>1, AttachStep
<1>3. ASSUME NEW i \in DOMAIN tasks PROVE i \in matching <=> ByTicket(i, refs[at])
  BY <1>1, ListElements, Inputs DEF Held, Brought, Shapes, ByTicket
<1> HIDE DEF matching
<1>4. \A i \in DOMAIN tasks : ToSet(items'[i].refs) = TicketRefs(i, at)
  <2> SUFFICES ASSUME NEW i \in DOMAIN tasks PROVE ToSet(items'[i].refs) = TicketRefs(i, at)
    OBVIOUS
  <2>1. ToSet(items[i].refs) = TicketRefs(i, at - 1)
    BY <1>1 DEF Held, Brought
  <2>2. TicketRefs(i, at) = TicketRefs(i, at - 1) \cup (IF ByTicket(i, refs[at]) THEN {refs[at]} ELSE {})
    BY <1>1, NextRef
  <2> QED
    BY <1>2, <1>3, <2>1, <2>2
<1>5. Brought'
  <2>1. at' - 1 = at /\ at \in Nat
    BY <1>1, RefsDomain
  <2>2. \A i \in DOMAIN tasks : start'[i] = tasks[i]
    BY <1>1 DEF Held, Brought
  <2> QED
    BY <1>1, <1>4, <2>1, <2>2, SameInput DEF Later
<1> QED
  BY <1>1, <1>2, <1>5 DEF Held, LeftOver, Visited, HeldOnce, Later

LEMMA PathHeld ==
    ASSUME Input, Groups, Held, LinkByPath PROVE Held'
<1> DEFINE matching == {i \in DOMAIN start : PathsMatch(PathsOf(i), RefPaths(refs[at]))}
<1>1. /\ UNCHANGED <<tasks, refs, step, start, loose>> /\ step = "path" /\ ~Later /\ ~Later'
      /\ at \in DOMAIN refs /\ at' = at + 1 /\ Attach(matching)
  BY RefsDomain DEF LinkByPath, Attach, input, Later, Groups, Positions
<1>2. /\ Shapes'
      /\ \A i \in DOMAIN tasks :
            ToSet(items'[i].refs) = ToSet(items[i].refs) \cup (IF i \in matching THEN {refs[at]} ELSE {})
  <2> HIDE DEF matching
  <2> QED
    BY <1>1, AttachStep
<1>3. ASSUME NEW i \in DOMAIN tasks
      PROVE  i \in matching <=>
                \E e \in TicketRefs(i, Len(refs)) : PathsMatch(RefPaths(e), RefPaths(refs[at]))
  <2>1. i \in DOMAIN start /\ IsList(start[i].refs) /\ ToSet(start[i].refs) = TicketRefs(i, Len(refs))
    BY <1>1, ListElements, Inputs DEF Held, Brought, Shapes, Item, IsTask, IsList
  <2> QED
    BY <2>1, PathsOfRefs DEF PathsOf
<1> HIDE DEF matching
<1>4. \A i \in DOMAIN tasks : ToSet(items'[i].refs) = PathRefs(i, at)
  <2> SUFFICES ASSUME NEW i \in DOMAIN tasks PROVE ToSet(items'[i].refs) = PathRefs(i, at)
    OBVIOUS
  <2>1. ToSet(items[i].refs) = PathRefs(i, at - 1)
    BY <1>1 DEF Held, Brought
  <2>2. PathRefs(i, at) = PathRefs(i, at - 1) \cup
          (IF \E e \in TicketRefs(i, Len(refs)) : PathsMatch(RefPaths(e), RefPaths(refs[at])) THEN {refs[at]} ELSE {})
    BY <1>1, NextRef
  <2> QED
    BY <1>2, <1>3, <2>1, <2>2
<1>5. Brought'
  <2>1. at' - 1 = at /\ at \in Nat
    BY <1>1, RefsDomain
  <2>2. \A i \in DOMAIN tasks : ToSet(start'[i].refs) = TicketRefs(i, Len(refs))
    BY <1>1 DEF Held, Brought
  <2> QED
    BY <1>1, <1>4, <2>1, <2>2, SameInput DEF Later
<1> QED
  BY <1>1, <1>2, <1>5 DEF Held, LeftOver, Visited, HeldOnce, Later

LEMMA TicketsDoneHeld ==
    ASSUME Input, Groups, Held, TicketsDone PROVE Held'
<1>1. /\ UNCHANGED <<tasks, refs, items, loose>> /\ step = "ticket" /\ step' = "path" /\ ~Later /\ ~Later'
      /\ at = Len(refs) + 1 /\ at' = 1 /\ start' = items /\ AllRefs' = AllRefs /\ Len(refs) \in Nat
  BY RefsDomain DEF TicketsDone, NextPass, input, Later, Groups, Positions, AllRefs
<1>2. Shapes'
  <2>1. \A i \in DOMAIN items : IsTask(items[i]) /\ ToSet(items[i].refs) \subseteq AllRefs /\ items[i].attention \in Attentions
    BY DEF Held, Shapes, Item
  <2> QED
    BY <1>1, <2>1 DEF Held, Shapes, Item
<1>3. \A i \in DOMAIN tasks : ToSet(items[i].refs) = TicketRefs(i, Len(refs)) /\ PathRefs(i, 0) = TicketRefs(i, Len(refs))
  <2>1. at - 1 = Len(refs)
    BY <1>1
  <2>2. \A i \in DOMAIN tasks : ToSet(items[i].refs) = TicketRefs(i, Len(refs))
    BY <1>1, <2>1 DEF Held, Brought
  <2> QED
    BY <2>2 DEF PathRefs
<1>4. Brought'
  <2>1. at' - 1 = 0
    BY <1>1
  <2>2. \A i \in DOMAIN tasks :
           ToSet(start'[i].refs) = TicketRefs(i, Len(refs)) /\ ToSet(items'[i].refs) = PathRefs(i, at' - 1)
    BY <1>1, <1>3, <2>1
  <2> QED
    BY <1>1, <2>2, SameInput DEF Later
<1> QED
  BY <1>1, <1>2, <1>4 DEF Held, LeftOver, Visited, HeldOnce, Later

LEMMA FindLooseHeld ==
    ASSUME Input, Groups, Held, FindLoose PROVE Held'
<1>1. /\ UNCHANGED <<tasks, refs, items, groupOf>> /\ step = "path" /\ step' = "group" /\ ~Later /\ Later'
      /\ at = Len(refs) + 1 /\ start' = items /\ AllRefs' = AllRefs /\ Len(refs) \in Nat
      /\ loose' = Unattached
  BY RefsDomain DEF FindLoose, NextPass, input, search, Later, Groups, Positions, AllRefs
<1>2. Shapes'
  <2>1. \A i \in DOMAIN items : IsTask(items[i]) /\ ToSet(items[i].refs) \subseteq AllRefs /\ items[i].attention \in Attentions
    BY DEF Held, Shapes, Item
  <2> QED
    BY <1>1, <2>1 DEF Held, Shapes, Item
<1>3. Brought'
  <2>1. at - 1 = Len(refs)
    BY <1>1
  <2>2. \A i \in DOMAIN tasks : ToSet(items[i].refs) = PathRefs(i, Len(refs))
    BY <1>1, <2>1 DEF Held, Brought
  <2> QED
    BY <1>1, <2>2, SameInput DEF Later
<1>4. DOMAIN items = DOMAIN tasks /\ DOMAIN items = 1 .. Len(tasks)
  BY <1>1, ListElements, Inputs DEF Held, Shapes
<1>5. LeftOver'
  <2>1. ASSUME NEW k \in DOMAIN refs, NEW i \in DOMAIN items
        PROVE  refs[k].id \in Ids(items[i].refs) <=> Has(i, k)
    <3>1. IsList(items[i].refs) /\ ToSet(items[i].refs) \subseteq AllRefs /\ refs[k] \in AllRefs
      BY <2>1, Inputs DEF Held, Shapes, Item, IsTask, IsList
    <3> QED
      BY <3>1, IdIsRef DEF Has
  <2>2. \A k \in DOMAIN refs : refs[k].id \notin Attached <=> \A i \in DOMAIN tasks : ~Has(i, k)
    BY <1>4, <2>1 DEF Attached
  <2>3. \A i, k : Has(i, k)' <=> Has(i, k)
    BY <1>1 DEF Has
  <2>4. \A k \in DOMAIN refs : Ignored(refs[k])' <=> Ignored(refs[k])
    BY <1>1
  <2> QED
    BY <1>1, <2>2, <2>3, <2>4 DEF LeftOver, Unattached
<1>6. HeldOnce'
  <2>1. \A k : ~InTask(k)'
    BY <1>1, NoGroups DEF InTask, Grouped, Unattached
  <2>2. \A n \in Nat : n \notin DOMAIN items' \/ ~(n > Len(tasks'))
    BY <1>1, <1>4, ListElements, Inputs
  <2> QED
    BY <2>1, <2>2 DEF HeldOnce, HeldBy
<1> QED
  BY <1>1, <1>2, <1>3, <1>5, <1>6 DEF Held, Visited

\* Steps of the search that touch no list.
LEMMA SameLists ==
    ASSUME Input, Groups, Held, UNCHANGED <<tasks, refs, items, start, loose>>, Later, Later',
           \A k \in DOMAIN refs : InTask(k)' <=> InTask(k)
    PROVE  Shapes' /\ Brought' /\ LeftOver' /\ HeldOnce'
<1>1. Shapes'
  <2>1. \A i \in DOMAIN items : IsTask(items[i]) /\ ToSet(items[i].refs) \subseteq AllRefs /\ items[i].attention \in Attentions
    BY DEF Held, Shapes, Item
  <2>2. \A i \in DOMAIN start : IsTask(start[i]) /\ ToSet(start[i].refs) \subseteq AllRefs /\ start[i].attention \in Attentions
    BY DEF Held, Shapes, Item
  <2> QED
    BY <2>1, <2>2 DEF Held, Shapes, Item, AllRefs
<1>2. Brought'
  BY SameInput DEF Held, Brought, Later
<1>3. LeftOver' /\ HeldOnce'
  BY DEF Held, LeftOver, HeldOnce, HeldBy, Has
<1> QED
  BY <1>1, <1>2, <1>3

LEMMA SkipUsedHeld ==
    ASSUME Input, Groups, Held, SkipUsed \/ Finish PROVE Held'
<1>1. /\ UNCHANGED <<tasks, refs, items, start, loose, groupOf>> /\ step = "group" /\ step' # "search"
      /\ at' \in {at, at + 1} /\ Later /\ Later'
  BY DEF SkipUsed, Finish, input, search, Later
<1>2. \A k \in DOMAIN refs : InTask(k)' <=> InTask(k)
  BY <1>1, RefsDomain DEF InTask, Grouped, Groups, Named, Positions
<1> QED
  BY <1>1, <1>2, SameLists DEF Held, Visited

LEMMA OpenGroupHeld ==
    ASSUME Input, Groups, Held, OpenGroup PROVE Held'
<1>1. /\ UNCHANGED <<tasks, refs, items, start, loose, at>> /\ step = "group" /\ Later /\ Later'
      /\ groupOf' = [groupOf EXCEPT ![at] = at] /\ groupOf[at] = 0 /\ at \in loose /\ at \in DOMAIN refs
      /\ queue' = {at} /\ group' = <<>>
  BY DEF OpenGroup, Ungrouped, input, Later, Groups, Positions
<1>2. \A k \in Grouped : groupOf[k] # at
  BY <1>1 DEF Groups, Named, Grouped
<1>3. \A k \in loose : k # at => groupOf'[k] = groupOf[k] /\ groupOf[k] # at
  BY <1>1, <1>2, RefsDomain DEF Grouped, Groups, Positions
<1>4. \A k \in DOMAIN refs : InTask(k)' <=> InTask(k)
  <2>1. groupOf'[at] = at /\ ~(at < at)
    BY <1>1, RefsDomain DEF Groups, Positions
  <2> QED
    BY <1>1, <1>3, <2>1 DEF InTask, Grouped
<1>5. Visited'
  <2>1. ToSet(group') = {} /\ IsList(group')
    BY <1>1 DEF ToSet, IsList
  <2>2. {j \in loose' : groupOf'[j] = at' /\ j \notin queue'} = {}
    BY <1>1, <1>3
  <2> QED
    BY <2>1, <2>2 DEF Visited
<1> QED
  BY <1>1, <1>4, <1>5, SameLists DEF Held

LEMMA VisitHeld ==
    ASSUME Input, Groups, Held, NEW k \in DOMAIN refs, Visit(k) PROVE Held'
<1>1. /\ UNCHANGED <<tasks, refs, items, start, loose, at, step>> /\ step = "search" /\ Later /\ Later'
      /\ group' = Append(group, refs[k]) /\ k \in queue /\ k \in loose /\ groupOf[k] = at
      /\ queue' = (queue \ {k}) \cup Found(k)
      /\ groupOf' = [j \in DOMAIN refs |-> IF j \in Found(k) THEN at ELSE groupOf[j]]
  BY DEF Visit, input, Later, Groups, Positions, OneQueue, Grouped
<1>2. \A j \in Found(k) : groupOf[j] = 0 /\ j \in loose /\ j # k
  <2>1. groupOf[k] # 0
    BY <1>1 DEF Groups, Positions, Grouped
  <2> QED
    BY <2>1 DEF Found, Ungrouped
<1>3. \A j \in DOMAIN refs : InTask(j)' <=> InTask(j)
  <2>1. ~(at < at) /\ at # 0
    BY <1>1, RefsDomain DEF Groups, Positions
  <2> QED
    BY <1>1, <1>2, <2>1 DEF InTask, Grouped, Groups, Positions
<1>4. Visited'
  <2>1. IsList(group') /\ ToSet(group') = ToSet(group) \cup {refs[k]}
    BY <1>1, Appended DEF Held, Visited
  <2>2. \A j \in loose : groupOf'[j] = at /\ j \notin queue' <=> (groupOf[j] = at /\ j \notin queue) \/ j = k
    BY <1>1, <1>2 DEF Groups, Positions
  <2>3. ToSet(group') = {refs[i] : i \in {j \in loose : groupOf'[j] = at /\ j \notin queue'}}
    BY <1>1, <2>1, <2>2 DEF Held, Visited
  <2> QED
    BY <1>1, <2>1, <2>3 DEF Visited
<1> QED
  BY <1>1, <1>3, <1>4, SameLists DEF Held

LEMMA CloseGroupHeld ==
    ASSUME Input, Groups, Held, CloseGroup PROVE Held'
<1> DEFINE t == TaskFromSourceRefs(at)
           N == Len(items)
<1>1. /\ UNCHANGED <<tasks, refs, start, loose, groupOf>> /\ step = "search" /\ step' = "group" /\ Later /\ Later'
      /\ items' = Append(items, t) /\ at' = at + 1 /\ queue = {} /\ AllRefs' = AllRefs
      /\ at \in loose /\ at \in DOMAIN refs /\ groupOf[at] = at
  BY DEF CloseGroup, input, search, Later, AllRefs, Groups, Positions, OneQueue
<1>2. /\ t = [tickets |-> {}, repo |-> refs[at].repo, user |-> <<>>, attention |-> "in_progress", refs |-> group]
      /\ IsList(group) /\ ToSet(group) = {refs[k] : k \in {j \in loose : groupOf[j] = at}}
      /\ group # <<>>
  <2>1. IsList(group) /\ ToSet(group) = {refs[k] : k \in {j \in loose : groupOf[j] = at}}
    BY <1>1 DEF Held, Visited
  <2>2. group # <<>>
    BY <1>1, <2>1 DEF ToSet
  <2> QED
    BY <2>1, <2>2 DEF TaskFromSourceRefs, Members
<1>3. Item(t)
  <2>1. ToSet(group) \subseteq AllRefs
    BY <1>2, Inputs DEF Groups, Positions
  <2> HIDE DEF t
  <2> QED
    BY <1>2, <2>1 DEF Item, IsTask, IsList, Attentions
<1> HIDE DEF t
<1>4. /\ IsList(items') /\ Len(items') = N + 1 /\ N \in Nat /\ DOMAIN items = 1 .. N /\ DOMAIN items' = 1 .. N + 1
      /\ \A i \in 1 .. N : items'[i] = items[i]
      /\ items'[N + 1] = t /\ Len(tasks) \in Nat /\ Len(tasks) <= N /\ DOMAIN tasks = 1 .. Len(tasks)
  BY <1>1, Appended, ListElements, Inputs DEF Held, Shapes
<1> HIDE DEF N
<1>5. Shapes'
  <2>1. \A i \in 1 .. N : IsTask(items[i]) /\ ToSet(items[i].refs) \subseteq AllRefs /\ items[i].attention \in Attentions
    BY <1>4 DEF Held, Shapes, Item
  <2>2. \A i \in 1 .. N + 1 : i \in 1 .. N \/ i = N + 1
    BY <1>4
  <2>3. \A i \in DOMAIN items' : IsTask(items'[i]) /\ ToSet(items'[i].refs) \subseteq AllRefs /\ items'[i].attention \in Attentions
    BY <1>3, <1>4, <2>1, <2>2 DEF Item
  <2>4. \A i \in DOMAIN start : IsTask(start[i]) /\ ToSet(start[i].refs) \subseteq AllRefs /\ start[i].attention \in Attentions
    BY DEF Held, Shapes, Item
  <2>5. Len(tasks) <= Len(items')
    BY <1>4
  <2> QED
    BY <1>1, <1>4, <2>3, <2>4, <2>5 DEF Held, Shapes, Item
<1>6. \A i \in DOMAIN tasks : i \in 1 .. N /\ items'[i] = items[i]
  BY <1>4
<1>7. Brought'
  BY <1>1, <1>6, SameInput DEF Held, Brought, Later
<1>8. LeftOver'
  <2>1. \A i \in DOMAIN tasks : \A k : Has(i, k)' <=> Has(i, k)
    BY <1>1, <1>6 DEF Has
  <2> QED
    BY <1>1, <2>1 DEF Held, LeftOver
<1>9. HeldOnce'
  <2>1. ASSUME NEW k \in DOMAIN refs PROVE InTask(k)' <=> InTask(k) \/ (k \in loose /\ groupOf[k] = at)
    BY <1>1, RefsDomain DEF InTask, Grouped, Groups, Named, Positions
  <2>2. ASSUME NEW k \in DOMAIN refs, NEW n \in Nat
        PROVE  HeldBy(n, k)' <=> HeldBy(n, k) \/ (n = N + 1 /\ k \in loose /\ groupOf[k] = at)
    <3>1. CASE n \in 1 .. N
      BY <1>1, <1>4, <3>1 DEF HeldBy, Has
    <3>2. CASE n = N + 1
      <4>1. n \notin DOMAIN items /\ n \in DOMAIN items' /\ n > Len(tasks)
        BY <1>4, <3>2
      <4>2. ToSet(items'[n].refs) = ToSet(group)
        BY <1>2, <1>4, <3>2
      <4>3. refs[k] \in ToSet(group) <=> k \in loose /\ groupOf[k] = at
        BY <1>2, Inputs DEF Groups, Positions
      <4> QED
        BY <1>1, <3>2, <4>1, <4>2, <4>3 DEF HeldBy, Has
    <3>3. CASE n \notin 1 .. N + 1
      BY <1>4, <3>3 DEF HeldBy
    <3> QED
      BY <1>4, <3>1, <3>2, <3>3
  <2>3. \A k : k \in loose /\ groupOf[k] = at => ~InTask(k)
    BY <1>1, RefsDomain DEF InTask
  <2> SUFFICES ASSUME NEW k \in DOMAIN refs
               PROVE  IF InTask(k)' THEN \E n \in Nat : HeldBy(n, k)' /\ \A m \in Nat : HeldBy(m, k)' => m = n
                      ELSE \A n \in Nat : ~HeldBy(n, k)'
    BY <1>1 DEF HeldOnce
  <2>4. IF InTask(k) THEN \E n \in Nat : HeldBy(n, k) /\ \A m \in Nat : HeldBy(m, k) => m = n
        ELSE \A n \in Nat : ~HeldBy(n, k)
    BY <1>1 DEF Held, HeldOnce
  <2>5. CASE k \in loose /\ groupOf[k] = at
    <3>1. N + 1 \in Nat /\ InTask(k)' /\ ~InTask(k)
      BY <1>4, <2>1, <2>3, <2>5
    <3>2. \A m \in Nat : HeldBy(m, k)' <=> m = N + 1
      BY <2>2, <2>4, <2>5, <3>1
    <3> QED
      BY <3>1, <3>2
  <2>6. CASE ~(k \in loose /\ groupOf[k] = at)
    BY <2>1, <2>2, <2>4, <2>6
  <2> QED
    BY <2>5, <2>6
<1> QED
  BY <1>1, <1>5, <1>7, <1>8, <1>9 DEF Held, Visited

-----------------------------------------------------------------------------
(* The theorems about the linker.                                          *)

LEMMA InitInv == PInit => LInv
<1> SUFFICES ASSUME PInit PROVE LInv
  OBVIOUS
<1>1. /\ Input /\ items = tasks /\ start = tasks /\ step = "ticket" /\ at = 1 /\ ~Later
      /\ loose = {} /\ queue = {} /\ groupOf = [k \in DOMAIN refs |-> 0]
  BY DEF PInit, Init, Input, Later
<1>2. Groups
  BY <1>1, RefsDomain DEF Groups, Positions, OneQueue, Named, Passed, Closed, Together, Grouped
<1>3. Shapes
  BY <1>1, Inputs, ListElements DEF Shapes
<1>4. Brought
  BY <1>1 DEF Brought, TicketRefs
<1> QED
  BY <1>1, <1>2, <1>3, <1>4 DEF LInv, Held, LeftOver, Visited, HeldOnce

LEMMA NextInv == LInv /\ [PNext]_pvars => LInv'
<1> SUFFICES ASSUME LInv, [PNext]_pvars PROVE LInv'
  OBVIOUS
<1>1. Input /\ Groups /\ Held
  BY DEF LInv
<1>2. Link \/ UNCHANGED vars
  BY DEF PNext, Linked, SetLists, MuteRepo, AddRule, pvars
<1>3. Input'
  BY <1>1, <1>2 DEF Link, LinkByTicket, LinkByPath, TicketsDone, FindLoose, Attach, NextPass, OpenGroup,
     SkipUsed, Visit, CloseGroup, Finish, input, vars, Input
<1>4. CASE UNCHANGED vars
  <2>1. Groups'
    <3>1. Positions' /\ OneQueue' /\ Named' /\ Passed' /\ Closed'
      BY <1>1, <1>4 DEF vars, input, search, Groups, Positions, OneQueue, Named, Passed, Closed, Grouped, Later
    <3> QED
      BY <1>1, <1>4, <3>1, SameConnections DEF vars, input, search, Groups
  <2>2. Held'
    <3>1. /\ UNCHANGED <<tasks, refs, items, step, at, start, loose, groupOf, queue, group>>
          /\ Later' <=> Later
      BY <1>4 DEF vars, input, search, Later
    <3>2. Shapes'
      BY <1>1, <3>1 DEF Held, Shapes, Item, AllRefs
    <3>3. Brought'
      BY <1>1, <3>1, SameInput DEF Held, Brought
    <3>4. LeftOver' /\ Visited' /\ HeldOnce'
      BY <1>1, <3>1 DEF Held, LeftOver, Has, Visited, HeldOnce, HeldBy, InTask, Grouped
    <3> QED
      BY <3>2, <3>3, <3>4 DEF Held
  <2> QED
    BY <1>3, <2>1, <2>2 DEF LInv
<1>5. CASE LinkByTicket
  BY <1>1, <1>3, <1>5, EarlyGroups, TicketHeld DEF LInv
<1>6. CASE TicketsDone
  BY <1>1, <1>3, <1>6, EarlyGroups, TicketsDoneHeld DEF LInv
<1>7. CASE LinkByPath
  BY <1>1, <1>3, <1>7, EarlyGroups, PathHeld DEF LInv
<1>8. CASE FindLoose
  BY <1>1, <1>3, <1>8, FindLooseGroups, FindLooseHeld DEF LInv
<1>9. CASE OpenGroup
  BY <1>1, <1>3, <1>9, OpenGroupGroups, OpenGroupHeld DEF LInv
<1>10. CASE SkipUsed \/ Finish
  BY <1>1, <1>3, <1>10, SkipUsedGroups, SkipUsedHeld DEF LInv
<1>11. ASSUME NEW k \in DOMAIN refs, Visit(k) PROVE LInv'
  BY <1>1, <1>3, <1>11, VisitGroups, VisitHeld DEF LInv
<1>12. CASE CloseGroup
  BY <1>1, <1>3, <1>12, CloseGroupGroups, CloseGroupHeld DEF LInv
<1> QED
  BY <1>2, <1>4, <1>5, <1>6, <1>7, <1>8, <1>9, <1>10, <1>11, <1>12 DEF Link

\* Link, at every step and for any lists of tasks and refs: what each task has been
\* given, which refs are left over, and how far their groups have come.
THEOREM LinkInvariance == PSpec => []LInv
  BY InitInv, NextInv, PTL DEF PSpec

\* The refs that no task has are in one group if and only if the relation connects
\* them, however many there are and in whatever order the sources return them.
\* (sourceRefGroups.)
THEOREM GroupsAreConnections == PSpec => []GroupsAreComponents
<1>1. LInv => GroupsAreComponents
  <2> SUFFICES ASSUME LInv, step = "done", NEW j \in loose, NEW k \in loose
               PROVE  groupOf[j] = groupOf[k] <=> Connected(j, k)
    BY DEF GroupsAreComponents
  <2>1. loose \subseteq Grouped \ queue
    BY DEF LInv, Groups, Passed, OneQueue, Grouped
  <2>2. ASSUME Connected(j, k) PROVE groupOf[j] = groupOf[k]
    <3> DEFINE own == {l \in loose : groupOf[l] = groupOf[j]}
    <3>1. WithRelatives(own)
      BY <2>1 DEF WithRelatives, LInv, Groups, Closed
    <3> QED
      BY <2>2, <3>1 DEF Connected
  <2> QED
    BY <2>1, <2>2 DEF LInv, Groups, Together
<1> QED
  BY <1>1, LinkInvariance, PTL

\* A task has exactly the refs that share a ticket with it, and those with a path
\* around or in one of its own or of what tickets brought, whatever the order of
\* the refs.  (linkSourceRefsByTicket, linkSourceRefsByPath.)
THEOREM AttachedAreRelated == PSpec => []AttachedIfRelated
<1>1. LInv => AttachedIfRelated
  <2> SUFFICES ASSUME LInv, Later, NEW i \in DOMAIN tasks, NEW k \in DOMAIN refs
               PROVE  refs[k].id \in Ids(items[i].refs) <=>
                         Own(i, refs[k]) \/ ByTicket(i, refs[k]) \/ ByPath(i, refs[k])
    BY DEF AttachedIfRelated, Later
  <2>1. /\ IsList(items[i].refs) /\ ToSet(items[i].refs) \subseteq AllRefs /\ refs[k] \in AllRefs
        /\ IsList(tasks[i].refs) /\ ToSet(tasks[i].refs) \subseteq AllRefs /\ Input
        /\ ToSet(items[i].refs) = PathRefs(i, Len(refs))
    <3>1. Input /\ Shapes /\ Brought
      BY DEF LInv, Held
    <3>2. i \in DOMAIN items
      BY <3>1, Inputs, ListElements DEF Shapes
    <3>3. Item(items[i]) /\ Item(tasks[i]) /\ refs[k] \in AllRefs
      BY <3>1, <3>2, Inputs DEF Shapes
    <3> QED
      BY <3>1, <3>3 DEF Item, IsTask, IsList, Brought
  <2>2. /\ refs[k].id \in Ids(items[i].refs) <=> refs[k] \in ToSet(items[i].refs)
        /\ \A e \in AllRefs : Own(i, e) <=> e \in ToSet(tasks[i].refs)
    BY <2>1, IdIsRef DEF Own
  <2>3. \A e : e \in TicketRefs(i, Len(refs)) <=>
                 e \in ToSet(tasks[i].refs) \/ (e \in ToSet(refs) /\ ByTicket(i, e))
    BY <2>1, RefsDomain DEF TicketRefs, ToSet
  <2>4. ByPath(i, refs[k]) <=>
          \E e \in TicketRefs(i, Len(refs)) : PathsMatch(RefPaths(e), RefPaths(refs[k]))
    <3>1. ToSet(tasks[i].refs) \subseteq AllRefs /\ ToSet(refs) \subseteq AllRefs
      BY <2>1 DEF AllRefs
    <3>2. \A e : e \in TicketRefs(i, Len(refs)) <=>
                   /\ e \in ToSet(tasks[i].refs) \cup ToSet(refs)
                   /\ Own(i, e) \/ ByTicket(i, e)
      <4>1. \A e \in ToSet(tasks[i].refs) \cup ToSet(refs) : Own(i, e) <=> e \in ToSet(tasks[i].refs)
        BY <2>2, <3>1
      <4> QED
        BY <2>3, <4>1
    <3> QED
      BY <3>2 DEF ByPath
  <2>5. refs[k] \in PathRefs(i, Len(refs)) <=>
          refs[k] \in TicketRefs(i, Len(refs)) \/ ByPath(i, refs[k])
    BY <2>1, <2>4, RefsDomain DEF PathRefs
  <2>6. refs[k] \in ToSet(refs)
    BY DEF ToSet
  <2> QED
    BY <2>1, <2>2, <2>3, <2>5, <2>6
<1> QED
  BY <1>1, LinkInvariance, PTL

\* Nothing is lost on the way: every ref is in tasks of GitHub, or in exactly one
\* task of its own, or a worktree on an ignored branch.  (Link.)
THEOREM NothingIsLost == PSpec => []NothingLost
<1>1. LInv => NothingLost
  <2> SUFFICES ASSUME LInv, step = "done", NEW k \in DOMAIN refs, ~Ignored(refs[k])
               PROVE  \/ Holders(k) # {} /\ Holders(k) \subseteq DOMAIN tasks
                      \/ Cardinality(Holders(k)) = 1
    BY DEF NothingLost
  <2>1. /\ Later /\ DOMAIN items = 1 .. Len(items) /\ Len(items) \in Nat
        /\ DOMAIN tasks = 1 .. Len(tasks) /\ Len(tasks) \in Nat /\ Len(tasks) <= Len(items)
    BY Inputs, ListElements DEF LInv, Held, Shapes, Later
  <2>2. \A n \in DOMAIN items : n \in Holders(k) <=> Has(n, k)
    <3>1. \A n \in DOMAIN items : IsList(items[n].refs) /\ ToSet(items[n].refs) \subseteq AllRefs
      BY DEF LInv, Held, Shapes, Item, IsTask, IsList
    <3>2. refs[k] \in AllRefs /\ Input
      BY Inputs DEF LInv
    <3> QED
      BY <3>1, <3>2, IdIsRef DEF Holders, Has
  <2>3. Holders(k) \subseteq DOMAIN items
    BY DEF Holders
  <2>4. \A n \in DOMAIN items \ DOMAIN tasks : n \in Nat /\ (Has(n, k) <=> HeldBy(n, k))
    BY <2>1 DEF HeldBy
  <2>5. CASE k \in loose
    <3>1. InTask(k)
      <4>1. groupOf[k] # 0 /\ k \in Grouped
        BY <2>5 DEF LInv, Groups, Passed, Grouped
      <4> QED
        BY <4>1 DEF LInv, Groups, Named, InTask
    <3>2. PICK n \in Nat : HeldBy(n, k) /\ \A m \in Nat : HeldBy(m, k) => m = n
      BY <2>1, <3>1 DEF LInv, Held, HeldOnce
    <3>3. \A i \in DOMAIN tasks : ~Has(i, k)
      BY <2>1, <2>5 DEF LInv, Held, LeftOver
    <3>4. n \in DOMAIN items /\ Has(n, k)
      BY <3>2 DEF HeldBy
    <3>5. Holders(k) = {n}
      BY <2>2, <2>3, <2>4, <3>2, <3>3, <3>4
    <3> QED
      BY <3>5, FS_Singleton
  <2>6. CASE k \notin loose
    <3>1. PICK i \in DOMAIN tasks : Has(i, k)
      BY <2>1, <2>6 DEF LInv, Held, LeftOver
    <3>2. \A n \in Nat : ~HeldBy(n, k)
      BY <2>1, <2>6 DEF LInv, Held, HeldOnce, InTask, Grouped
    <3>3. i \in DOMAIN items
      BY <2>1
    <3> QED
      BY <2>2, <2>3, <2>4, <3>1, <3>2, <3>3
  <2> QED
    BY <2>5, <2>6
<1> QED
  BY <1>1, LinkInvariance, PTL

-----------------------------------------------------------------------------
(* The file of filters.                                                    *)

Chars == DOMAIN Lower
Texts == Seq(Chars)
FileOK ==
    /\ cfg = [muteRepos |-> cfg.muteRepos, muteUsers |-> cfg.muteUsers,
              lowRepos |-> cfg.lowRepos, lowUsers |-> cfg.lowUsers, rules |-> cfg.rules]
    /\ IsList(cfg.rules) /\ Len(cfg.rules) <= MaxRules
    /\ Listed(cfg) \subseteq Texts

LEMMA Bounds == MaxRules \in Nat
  BY ProjectionAssumption

\* A file without rules.
LEMMA NoRules ==
    ASSUME NEW a \in SUBSET Texts, NEW b \in SUBSET Texts, NEW c \in SUBSET Texts,
           NEW d \in SUBSET Texts,
           cfg' = [muteRepos |-> a, muteUsers |-> b, lowRepos |-> c, lowUsers |-> d, rules |-> <<>>]
    PROVE  FileOK'
<1>1. IsList(<<>>) /\ Len(<<>>) = 0 /\ MaxRules \in Nat
  BY Bounds DEF IsList
<1>2. cfg'.rules = <<>> /\ Listed(cfg') \subseteq Texts
  BY DEF Listed
<1> QED
  BY <1>1, <1>2 DEF FileOK

LEMMA FileInit == PInit => FileOK
<1>1. IsList(<<>>) /\ Len(<<>>) = 0 /\ MaxRules \in Nat
  BY Bounds DEF IsList
<1>2. Listed(NoFilters) = {}
  BY DEF Listed, NoFilters
<1> QED
  BY <1>1, <1>2 DEF PInit, NoFilters, FileOK

LEMMA FileNext == FileOK /\ [PNext]_pvars => FileOK'
<1> SUFFICES ASSUME FileOK, [PNext]_pvars PROVE FileOK'
  OBVIOUS
<1>1. CASE UNCHANGED cfg
  BY <1>1 DEF FileOK
<1>2. ASSUME NEW l \in Lists, SetLists(l) PROVE FileOK'
  <2>1. cfg' = l
    BY <1>2 DEF SetLists
  <2>2. cfg' = [muteRepos |-> l.muteRepos, muteUsers |-> l.muteUsers,
                lowRepos |-> l.lowRepos, lowUsers |-> l.lowUsers, rules |-> <<>>]
    BY <2>1, ProjectionAssumption
  <2>3. /\ l.muteRepos \subseteq Texts /\ l.muteUsers \subseteq Texts
        /\ l.lowRepos \subseteq Texts /\ l.lowUsers \subseteq Texts
    BY ProjectionAssumption DEF Listed, Texts, Chars
  <2> QED
    BY <2>2, <2>3, NoRules
<1>3. ASSUME NEW p \in Patterns, MuteRepo(p) PROVE FileOK'
  <2>1. cfg' = [muteRepos |-> {p}, muteUsers |-> {}, lowRepos |-> {}, lowUsers |-> {}, rules |-> <<>>]
    BY <1>3 DEF MuteRepo, NoFilters
  <2>2. {p} \subseteq Texts /\ {} \subseteq Texts
    BY ProjectionAssumption DEF Texts, Chars
  <2> QED
    BY <2>1, <2>2, NoRules
<1>4. ASSUME NEW rule \in Rules, AddRule(rule) PROVE FileOK'
  <2> DEFINE new == Append(cfg.rules, rule)
  <2>1. /\ IsList(new) /\ Len(new) = Len(cfg.rules) + 1
        /\ Len(cfg.rules) \in Nat
    BY Appended DEF FileOK
  <2>2. cfg' = [cfg EXCEPT !.rules = new] /\ Len(cfg.rules) < MaxRules
    BY <1>4 DEF AddRule
  <2> HIDE DEF new
  <2>3. cfg' = [muteRepos |-> cfg.muteRepos, muteUsers |-> cfg.muteUsers,
                lowRepos |-> cfg.lowRepos, lowUsers |-> cfg.lowUsers, rules |-> new]
    BY <2>2 DEF FileOK
  <2>4. Len(new) <= MaxRules /\ cfg'.rules = new /\ Listed(cfg') = Listed(cfg)
    BY <2>1, <2>2, <2>3, Bounds DEF Listed
  <2> QED
    BY <2>1, <2>3, <2>4 DEF FileOK
<1> QED
  BY <1>1, <1>2, <1>3, <1>4 DEF PNext, Linked, pvars

THEOREM FileIsWhole == PSpec => []FileOK
  BY FileInit, FileNext, PTL DEF PSpec

\* Every variable keeps its type, no task is without refs, and every group has the
\* position of a ref.
THEOREM TypeCorrect == PSpec => []TypeOK
<1>1. LInv /\ FileOK => TypeOK
  <2> SUFFICES ASSUME LInv, FileOK PROVE TypeOK
    OBVIOUS
  <2>1. DOMAIN refs = 1 .. Len(refs) /\ Len(refs) \in Nat
    BY RefsDomain DEF LInv
  <2>2. PositionsOK
    <3>1. groupOf \in [DOMAIN refs -> 0 .. Len(refs)]
      BY <2>1 DEF LInv, Groups, Positions
    <3> QED
      BY <3>1 DEF LInv, Groups, Positions, PositionsOK, Grouped
  <2>3. \A i \in DOMAIN items : items[i].attention \in Attentions /\ items[i].refs # <<>>
    BY DEF LInv, Held, Shapes, Item, IsTask
  <2> QED
    BY <2>2, <2>3 DEF TypeOK, FileOK
<1> QED
  BY <1>1, LinkInvariance, FileIsWhole, PTL

-----------------------------------------------------------------------------
(* Numbers, and what is computed round by round.                           *)

\* The order of the numbers, as a set of pairs.
Less == {ss \in Nat \X Nat : ss[1] < ss[2]}
\* It is well-founded.
LEMMA LessWellFounded == IsWellFoundedOn(Less, Nat)
  BY NatLessThanWellFounded DEF Less, OpToRel

\* Every set of numbers has a least one.
LEMMA Least ==
    ASSUME NEW S \in SUBSET Nat, S # {}
    PROVE  \E x \in S : \A y \in S : x <= y
<1>1. \E x \in S : \A y \in S : ~ (<<y, x>> \in Less)
  BY LessWellFounded, WFMin, Zenon
<1>2. PICK x \in S : \A y \in S : ~ (<<y, x>> \in Less)
  BY <1>1
<1>3. \A y \in S : ~(y < x)
  BY <1>2 DEF Less
<1> QED
  BY <1>3

\* Induction on numbers.
LEMMA Induct ==
    ASSUME NEW N \in Nat, NEW S, 0 \in S,
           \A n \in 1 .. N : n - 1 \in S => n \in S
    PROVE  \A n \in 0 .. N : n \in S
<1> SUFFICES ASSUME NEW m \in 0 .. N, m \notin S PROVE FALSE
  OBVIOUS
<1> DEFINE Bad == {n \in 0 .. N : n \notin S}
<1>1. PICK x \in Bad : \A y \in Bad : x <= y
  <2>1. Bad \subseteq Nat /\ Bad # {}
    OBVIOUS
  <2> HIDE DEF Bad
  <2> QED
    BY <2>1, Least
<1>2. x # 0 /\ x \in 1 .. N /\ x - 1 \in 0 .. N
  BY <1>1
<1>3. x - 1 \in S
  BY <1>1, <1>2
<1> QED
  BY <1>1, <1>2, <1>3

\* k has what is computed after each round.
Loops(k, N, base, round) == k[0] = base /\ \A n \in 1 .. N : k[n] = round[<<n, k[n - 1]>>]
\* A loop that starts with base and takes V to V is a function.
LEMMA Recursion ==
    ASSUME NEW N, N \in Nat, NEW V, NEW base, base \in V, NEW round, round \in [(1 .. N) \X V -> V]
    PROVE  \E k \in [0 .. N -> V] : Loops(k, N, base, round)
<1> DEFINE Upto(n) == \E k \in [0 .. n -> V] :
                         k = [m \in 0 .. n |-> IF m = 0 THEN base ELSE round[<<m, k[m - 1]>>]]
           S == {n \in 0 .. N : Upto(n)}
<1>1. Upto(0)
  <2> DEFINE k == [m \in 0 .. 0 |-> base]
  <2>1. k \in [0 .. 0 -> V]
    OBVIOUS
  <2>2. k = [m \in 0 .. 0 |-> IF m = 0 THEN base ELSE round[<<m, k[m - 1]>>]]
    OBVIOUS
  <2> QED
    BY <2>1, <2>2
<1>2. ASSUME NEW n \in 1 .. N, Upto(n - 1) PROVE Upto(n)
  <2>1. PICK j \in [0 .. n - 1 -> V] :
          j = [m \in 0 .. n - 1 |-> IF m = 0 THEN base ELSE round[<<m, j[m - 1]>>]]
    BY <1>2
  <2> DEFINE k == [m \in 0 .. n |-> IF m = n THEN round[<<n, j[n - 1]>>] ELSE j[m]]
  <2>2. \A m \in 0 .. n - 1 : k[m] = j[m]
    OBVIOUS
  <2>3. k \in [0 .. n -> V]
    OBVIOUS
  <2>4. ASSUME NEW m \in 0 .. n PROVE k[m] = IF m = 0 THEN base ELSE round[<<m, k[m - 1]>>]
    <3>1. CASE m = n
      <4>1. n - 1 \in 0 .. n - 1 /\ k[n - 1] = j[n - 1]
        BY <2>2
      <4> QED
        BY <3>1, <4>1
    <3>2. CASE m = 0
      BY <3>2, <2>1
    <3>3. CASE m # n /\ m # 0
      <4>1. m \in 0 .. n - 1 /\ m - 1 \in 0 .. n - 1
        BY <3>3
      <4>2. j[m] = round[<<m, j[m - 1]>>]
        BY <2>1, <3>3, <4>1
      <4> QED
        BY <2>2, <3>3, <4>1, <4>2
    <3> QED
      BY <3>1, <3>2, <3>3
  <2>5. k = [m \in 0 .. n |-> IF m = 0 THEN base ELSE round[<<m, k[m - 1]>>]]
    <3> HIDE DEF k
    <3> QED
      BY <2>3, <2>4
  <2> QED
    BY <2>3, <2>5
<1>3. \A n \in 0 .. N : n \in S
  <2>1. 0 \in S
    BY <1>1
  <2>2. \A n \in 1 .. N : n - 1 \in S => n \in S
    <3> HIDE DEF Upto
    <3> QED
      BY <1>2
  <2> HIDE DEF S
  <2> QED
    BY <2>1, <2>2, Induct
<1>4. Upto(N)
  BY <1>3
<1>5. PICK k \in [0 .. N -> V] :
        k = [m \in 0 .. N |-> IF m = 0 THEN base ELSE round[<<m, k[m - 1]>>]]
  BY <1>4
<1>6. k[0] = base /\ \A n \in 1 .. N : k[n] = round[<<n, k[n - 1]>>]
  BY <1>5
<1> QED
  BY <1>6 DEF Loops

-----------------------------------------------------------------------------
(* The rules, one after the other.                                         *)

\* f[n] is what the first n rules say.
LoopOver(f, t, rules) ==
    f = [n \in 0 .. Len(rules) |->
            IF n = 0 THEN "keep"
            ELSE IF MatchesRule(t, rules[n]) THEN NormalizeAction(rules[n].action)
            ELSE f[n - 1]]

LEMMA LoopStep ==
    ASSUME NEW t, NEW rules, Len(rules) \in Nat, NEW f, LoopOver(f, t, rules)
    PROVE  /\ f[0] = "keep"
           /\ \A n \in 1 .. Len(rules) :
                 f[n] = IF MatchesRule(t, rules[n]) THEN NormalizeAction(rules[n].action) ELSE f[n - 1]
<1> DEFINE body == [n \in 0 .. Len(rules) |->
                       IF n = 0 THEN "keep"
                       ELSE IF MatchesRule(t, rules[n]) THEN NormalizeAction(rules[n].action)
                       ELSE f[n - 1]]
<1>1. f = body
  BY DEF LoopOver
<1>2. \A n \in 0 .. Len(rules) :
        body[n] = IF n = 0 THEN "keep"
                  ELSE IF MatchesRule(t, rules[n]) THEN NormalizeAction(rules[n].action)
                  ELSE f[n - 1]
  OBVIOUS
<1> HIDE DEF body
<1>3. 0 \in 0 .. Len(rules) /\ \A n \in 1 .. Len(rules) : n \in 0 .. Len(rules) /\ n # 0
  OBVIOUS
<1> QED
  BY <1>1, <1>2, <1>3

\* The last rule that matches says it, if there is one.
LEMMA LoopEnds ==
    ASSUME NEW t, NEW rules, Len(rules) \in Nat PROVE \E f : LoopOver(f, t, rules)
<1> DEFINE N == Len(rules)
           Hits(n) == {m \in 1 .. n : MatchesRule(t, rules[m])}
           Greatest(n) == CHOOSE m \in Hits(n) : \A h \in Hits(n) : h <= m
           f == [n \in 0 .. N |-> IF Hits(n) = {} THEN "keep" ELSE NormalizeAction(rules[Greatest(n)].action)]
<1>1. f[0] = "keep"
  <2>1. Hits(0) = {}
    OBVIOUS
  <2> HIDE DEF Hits, Greatest
  <2> QED
    BY <2>1
<1>2. ASSUME NEW n \in 1 .. N
      PROVE  f[n] = IF MatchesRule(t, rules[n]) THEN NormalizeAction(rules[n].action) ELSE f[n - 1]
  <2>1. CASE MatchesRule(t, rules[n])
    <3>1. n \in Hits(n) /\ \A h \in Hits(n) : h <= n /\ h \in Nat
      BY <2>1
    <3>2. Greatest(n) = n
      <4> HIDE DEF Hits
      <4> QED
        BY <3>1
    <3>3. f[n] = NormalizeAction(rules[n].action)
      <4> HIDE DEF Hits, Greatest
      <4> QED
        BY <3>1, <3>2
    <3> QED
      BY <2>1, <3>3
  <2>2. CASE ~MatchesRule(t, rules[n])
    <3>1. Hits(n) = Hits(n - 1) /\ n - 1 \in 0 .. N /\ n \in 0 .. N
      BY <2>2
    <3>2. Greatest(n) = Greatest(n - 1)
      <4> HIDE DEF Hits
      <4> QED
        BY <3>1
    <3>3. f[n] = f[n - 1]
      <4> HIDE DEF Hits, Greatest
      <4> QED
        BY <3>1, <3>2
    <3> QED
      BY <2>2, <3>3
  <2> QED
    BY <2>1, <2>2
<1>3. f = [n \in 0 .. N |->
             IF n = 0 THEN "keep"
             ELSE IF MatchesRule(t, rules[n]) THEN NormalizeAction(rules[n].action)
             ELSE f[n - 1]]
  <2> DEFINE body(n) == IF n = 0 THEN "keep"
                        ELSE IF MatchesRule(t, rules[n]) THEN NormalizeAction(rules[n].action)
                        ELSE f[n - 1]
  <2>1. \A n \in 0 .. N : f[n] = body(n)
    <3> HIDE DEF f
    <3> QED
      BY <1>1, <1>2
  <2>2. f = [n \in 0 .. N |-> f[n]]
    <3> HIDE DEF Hits, Greatest
    <3> QED
      OBVIOUS
  <2>3. [n \in 0 .. N |-> f[n]] = [n \in 0 .. N |-> body(n)]
    <3> HIDE DEF f, body
    <3> QED
      BY <2>1
  <2> HIDE DEF f
  <2> QED
    BY <2>2, <2>3
<1> QED
  BY <1>3 DEF LoopOver

\* Rules that come later do not change what the first ones say.
LEMMA LoopSame ==
    ASSUME NEW t, NEW a, NEW b, Len(a) \in Nat, Len(b) \in Nat, Len(a) <= Len(b),
           \A n \in 1 .. Len(a) : a[n] = b[n],
           NEW f, LoopOver(f, t, a), NEW g, LoopOver(g, t, b)
    PROVE  f[Len(a)] = g[Len(a)]
<1> SUFFICES ASSUME f[Len(a)] # g[Len(a)] PROVE FALSE
  OBVIOUS
<1> DEFINE Bad == {n \in 0 .. Len(a) : f[n] # g[n]}
<1>1. Bad \in SUBSET Nat /\ Bad # {}
  OBVIOUS
<1>2. PICK x \in Bad : \A y \in Bad : x <= y
  <2> HIDE DEF Bad
  <2> QED
    BY <1>1, Least
<1>3. x \in 0 .. Len(a) /\ f[x] # g[x]
  OBVIOUS
<1>4. x # 0
  BY <1>3, LoopStep
<1>5. x \in 1 .. Len(a) /\ x \in 1 .. Len(b) /\ x - 1 \in 0 .. Len(a)
  BY <1>3, <1>4
<1>6. f[x - 1] = g[x - 1]
  <2>1. ~(x <= x - 1)
    BY <1>5
  <2> QED
    BY <1>2, <1>5, <2>1
<1>7. /\ f[x] = IF MatchesRule(t, a[x]) THEN NormalizeAction(a[x].action) ELSE f[x - 1]
      /\ g[x] = IF MatchesRule(t, b[x]) THEN NormalizeAction(b[x].action) ELSE g[x - 1]
  BY <1>5, LoopStep
<1> QED
  BY <1>3, <1>5, <1>6, <1>7

\* The lists come before the rules.
LEMMA Joined ==
    ASSUME NEW T, NEW p \in Seq(T), NEW s \in Seq(T)
    PROVE  /\ Len(p \o s) = Len(p) + Len(s)
           /\ \A n \in 1 .. Len(p) + Len(s) : (p \o s)[n] = IF n <= Len(p) THEN p[n] ELSE s[n - Len(p)]
<1>1. p \o s \in Seq(T) /\ Len(p \o s) = Len(p) + Len(s)
  OBVIOUS
<1>2. \A n \in 1 .. Len(p) + Len(s) : (p \o s)[n] = IF n <= Len(p) THEN p[n] ELSE s[n - Len(p)]
  OBVIOUS
<1> QED
  BY <1>1, <1>2

\* What a rule at the end of the file changes.
LEMMA RuleAdded ==
    ASSUME NEW t, NEW c, IsList(c.rules), NEW rule, NEW d, d.rules = Append(c.rules, rule),
           d.muteRepos = c.muteRepos, d.muteUsers = c.muteUsers,
           d.lowRepos = c.lowRepos, d.lowUsers = c.lowUsers
    PROVE  ActionFor(t, d) =
             IF MatchesRule(t, rule) THEN NormalizeAction(rule.action) ELSE ActionFor(t, c)
<1> DEFINE four == << Rule(c.muteRepos, {}, "mute"), Rule({}, c.muteUsers, "mute"),
                      Rule(c.lowRepos, {}, "deprioritize"), Rule({}, c.lowUsers, "deprioritize") >>
           a == AllRules(c)
           b == AllRules(d)
           f == CHOOSE k : LoopOver(k, t, a)
           g == CHOOSE k : LoopOver(k, t, b)
<1>1. a = four \o c.rules /\ b = four \o Append(c.rules, rule)
  BY DEF AllRules
<1>2. /\ Len(a) \in Nat /\ Len(b) = Len(a) + 1 /\ b[Len(b)] = rule
      /\ \A n \in 1 .. Len(a) : a[n] = b[n]
  <2>1. PICK T : T = ToSet(c.rules) \cup {rule} \cup {four[1], four[2], four[3], four[4]}
    OBVIOUS
  <2>2. four \in Seq(T) /\ Len(four) = 4
    BY <2>1
  <2> HIDE DEF four
  <2>3. c.rules \in Seq(T) /\ Len(c.rules) \in Nat /\ rule \in T
    BY <2>1 DEF IsList
  <2>4. /\ Append(c.rules, rule) \in Seq(T) /\ Len(Append(c.rules, rule)) = Len(c.rules) + 1
        /\ \A n \in 1 .. Len(c.rules) : Append(c.rules, rule)[n] = c.rules[n]
        /\ Append(c.rules, rule)[Len(c.rules) + 1] = rule
    BY <2>3, Appended
  <2> HIDE DEF a, b
  <2>5. /\ Len(a) = 4 + Len(c.rules)
        /\ \A n \in 1 .. 4 + Len(c.rules) : a[n] = IF n <= 4 THEN four[n] ELSE c.rules[n - 4]
    <3> DEFINE s == c.rules
    <3>1. s \in Seq(T) /\ a = four \o s
      BY <1>1, <2>3
    <3> HIDE DEF s
    <3>2. /\ Len(four \o s) = Len(four) + Len(s)
          /\ \A n \in 1 .. Len(four) + Len(s) :
                (four \o s)[n] = IF n <= Len(four) THEN four[n] ELSE s[n - Len(four)]
      BY <2>2, <3>1, Joined, Zenon
    <3>3. /\ Len(a) = 4 + Len(s)
          /\ \A n \in 1 .. 4 + Len(s) : a[n] = IF n <= 4 THEN four[n] ELSE s[n - 4]
      BY <2>2, <3>1, <3>2, Zenon
    <3> QED
      BY <3>3 DEF s
  <2>6. /\ Len(b) = 5 + Len(c.rules)
        /\ \A n \in 1 .. 5 + Len(c.rules) : b[n] = IF n <= 4 THEN four[n] ELSE Append(c.rules, rule)[n - 4]
    <3> DEFINE s == Append(c.rules, rule)
    <3>1. s \in Seq(T) /\ b = four \o s /\ Len(s) = Len(c.rules) + 1
      BY <1>1, <2>4
    <3> HIDE DEF s
    <3>2. /\ Len(four \o s) = Len(four) + Len(s)
          /\ \A n \in 1 .. Len(four) + Len(s) :
                (four \o s)[n] = IF n <= Len(four) THEN four[n] ELSE s[n - Len(four)]
      BY <2>2, <3>1, Joined, Zenon
    <3>3. /\ Len(b) = 4 + Len(s)
          /\ \A n \in 1 .. 4 + Len(s) : b[n] = IF n <= 4 THEN four[n] ELSE s[n - 4]
      BY <2>2, <3>1, <3>2, Zenon
    <3>4. 4 + Len(s) = 5 + Len(c.rules)
      BY <2>3, <3>1
    <3> QED
      BY <3>3, <3>4 DEF s
  <2>7. ASSUME NEW n \in 1 .. Len(a) PROVE a[n] = b[n]
    <3>1. n \in 1 .. 4 + Len(c.rules) /\ n \in 1 .. 5 + Len(c.rules)
      BY <2>3, <2>5
    <3>2. CASE n <= 4
      BY <3>1, <3>2, <2>5, <2>6
    <3>3. CASE ~(n <= 4)
      <4>1. n - 4 \in 1 .. Len(c.rules)
        BY <3>1, <3>3, <2>3
      <4> QED
        BY <3>1, <3>3, <4>1, <2>4, <2>5, <2>6
    <3> QED
      BY <3>2, <3>3
  <2>8. b[Len(b)] = rule
    <3>1. /\ 5 + Len(c.rules) \in 1 .. 5 + Len(c.rules) /\ ~(5 + Len(c.rules) <= 4)
          /\ 5 + Len(c.rules) - 4 = Len(c.rules) + 1
      BY <2>3
    <3> QED
      BY <3>1, <2>4, <2>6
  <2> QED
    BY <2>3, <2>5, <2>6, <2>7, <2>8
<1>3. ActionFor(t, c) = f[Len(a)] /\ ActionFor(t, d) = g[Len(b)]
  BY DEF ActionFor, LoopOver
<1> HIDE DEF a, b
<1>4. LoopOver(f, t, a) /\ LoopOver(g, t, b)
  <2>1. Len(a) \in Nat /\ Len(b) \in Nat
    BY <1>2
  <2>2. (\E k : LoopOver(k, t, a)) /\ \E k : LoopOver(k, t, b)
    BY <2>1, LoopEnds
  <2> QED
    BY <2>2
<1> HIDE DEF f, g
<1>5. g[Len(b)] = IF MatchesRule(t, rule) THEN NormalizeAction(rule.action) ELSE g[Len(a)]
  <2>1. Len(b) \in Nat /\ Len(b) \in 1 .. Len(b) /\ Len(b) - 1 = Len(a)
    BY <1>2
  <2> QED
    BY <1>2, <1>4, <2>1, LoopStep
<1>6. f[Len(a)] = g[Len(a)]
  BY <1>2, <1>4, LoopSame
<1> QED
  BY <1>3, <1>5, <1>6

\* One task is served as its action says.
LEMMA ServedOne ==
    ASSUME NEW t, NEW c PROVE Apply(<<t>>, c) = Acted(t, ActionFor(t, c))
<1> DEFINE s == Acted(t, ActionFor(t, c))
           parts == [i \in DOMAIN <<t>> |-> Acted(<<t>>[i], [j \in DOMAIN <<t>> |-> ActionFor(<<t>>[j], c)][i])]
<1>1. Apply(<<t>>, c) = FlattenSeq(parts)
  BY DEF Apply, ApplyActions
<1>2. parts = <<s>>
  OBVIOUS
<1> HIDE DEF parts, s
<1>3. FlattenSeq(<<s>>) = s
  <2> DEFINE IsFlatten(k) == k = [i \in 1 .. Len(<<s>>) |-> IF i = 1 THEN <<s>>[i] ELSE k[i - 1] \o <<s>>[i]]
  <2>1. Len(<<s>>) = 1 /\ <<s>>[1] = s
    OBVIOUS
  <2>2. \A k : IsFlatten(k) => k[1] = s
    <3> SUFFICES ASSUME NEW k, IsFlatten(k) PROVE k[1] = s
      OBVIOUS
    <3> DEFINE body == [i \in 1 .. Len(<<s>>) |-> IF i = 1 THEN <<s>>[i] ELSE k[i - 1] \o <<s>>[i]]
    <3>1. k = body
      OBVIOUS
    <3>2. body[1] = s
      BY <2>1
    <3> HIDE DEF body
    <3> QED
      BY <3>1, <3>2
  <2>3. IsFlatten([i \in 1 .. 1 |-> s])
    BY <2>1
  <2>4. FlattenSeq(<<s>>) = (CHOOSE k : IsFlatten(k))[1]
    BY <2>1 DEF FlattenSeq
  <2> HIDE DEF IsFlatten
  <2> QED
    BY <2>2, <2>3, <2>4
<1> QED
  BY <1>1, <1>2, <1>3 DEF s

\* A rule that the user adds decides on the tasks it matches and changes nothing
\* else, whatever the lists and the rules before it are.  (Match, Apply.)
THEOREM LastRuleWins == PSpec => LastRuleDecides
<1>1. ASSUME FileOK, NEW rule \in Rules, AddRule(rule), NEW i \in DOMAIN items
      PROVE  Served(items[i], cfg') =
                 IF MatchesRule(items[i], rule) THEN Verdict(items[i], rule)
                 ELSE Served(items[i], cfg)
  <2>1. /\ IsList(cfg.rules)
        /\ cfg = [muteRepos |-> cfg.muteRepos, muteUsers |-> cfg.muteUsers,
                  lowRepos |-> cfg.lowRepos, lowUsers |-> cfg.lowUsers, rules |-> cfg.rules]
        /\ cfg' = [cfg EXCEPT !.rules = Append(@, rule)]
    BY <1>1 DEF FileOK, AddRule
  <2>2. /\ cfg'.rules = Append(cfg.rules, rule)
        /\ cfg'.muteRepos = cfg.muteRepos /\ cfg'.muteUsers = cfg.muteUsers
        /\ cfg'.lowRepos = cfg.lowRepos /\ cfg'.lowUsers = cfg.lowUsers
    BY <2>1
  <2> DEFINE t == items[i]
  <2>3. Served(t, cfg') = Apply(<<t>>, cfg')
    BY DEF Served
  <2>4. ActionFor(t, cfg') =
          IF MatchesRule(t, rule) THEN NormalizeAction(rule.action) ELSE ActionFor(t, cfg)
    BY <2>1, <2>2, RuleAdded
  <2>5. NormalizeAction(rule.action) \in Actions
    BY DEF NormalizeAction, Actions
  <2>6. Verdict(t, rule) = Acted(t, NormalizeAction(rule.action))
    BY <2>5 DEF Verdict, Acted, Actions
  <2>7. Apply(<<t>>, cfg') = Acted(t, ActionFor(t, cfg')) /\ Served(t, cfg) = Acted(t, ActionFor(t, cfg))
    BY ServedOne DEF Served
  <2> HIDE DEF t
  <2>8. Served(t, cfg') =
          IF MatchesRule(t, rule) THEN Verdict(t, rule) ELSE Served(t, cfg)
    BY <2>3, <2>4, <2>6, <2>7
  <2> QED
    BY <2>8 DEF t
<1>2. FileOK /\ [PNext]_pvars =>
        [\A rule \in Rules : AddRule(rule) =>
            \A i \in DOMAIN items :
                Served(items[i], cfg') =
                    IF MatchesRule(items[i], rule) THEN Verdict(items[i], rule)
                    ELSE Served(items[i], cfg)]_pvars
  BY <1>1
<1> QED
  BY <1>2, FileIsWhole, PTL DEF PSpec, LastRuleDecides

-----------------------------------------------------------------------------
(* Patterns.                                                               *)

Pieces == {t \in Seq(Texts) : Len(t) > 0}

LEMMA Extending ==
    ASSUME NEW t \in Pieces, NEW c \in Chars
    PROVE  /\ Extend(t, c) \in Pieces /\ Len(t) \in Nat \ {0} /\ t[Len(t)] \in Texts
           /\ c = "*" => /\ Len(Extend(t, c)) = Len(t) + 1 /\ Extend(t, c)[Len(t) + 1] = <<>>
                         /\ \A n \in 1 .. Len(t) : Extend(t, c)[n] = t[n]
           /\ c # "*" => /\ Len(Extend(t, c)) = Len(t) /\ Extend(t, c)[Len(t)] = Append(t[Len(t)], c)
                         /\ \A n \in 1 .. Len(t) - 1 : Extend(t, c)[n] = t[n]
<1>1. t \in Seq(Texts) /\ Len(t) \in Nat \ {0} /\ t[Len(t)] \in Texts
  BY DEF Pieces
<1>2. CASE c = "*"
  <2>1. <<>> \in Texts /\ Extend(t, c) = Append(t, <<>>)
    BY <1>2 DEF Extend, Texts
  <2> HIDE DEF Texts
  <2>2. Append(t, <<>>) \in Seq(Texts) /\ Len(Append(t, <<>>)) = Len(t) + 1
    BY <1>1, <2>1
  <2>3. Append(t, <<>>)[Len(t) + 1] = <<>> /\ \A n \in 1 .. Len(t) : Append(t, <<>>)[n] = t[n]
    BY <1>1, <2>1
  <2> QED
    BY <1>1, <1>2, <2>1, <2>2, <2>3 DEF Pieces
<1>3. CASE c # "*"
  <2> DEFINE a == Append(t[Len(t)], c)
  <2>1. a \in Texts
    BY <1>1 DEF Texts
  <2>2. Extend(t, c) = [t EXCEPT ![Len(t)] = a]
    BY <1>3 DEF Extend
  <2> HIDE DEF a, Texts
  <2>3. /\ [t EXCEPT ![Len(t)] = a] \in Seq(Texts)
        /\ Len([t EXCEPT ![Len(t)] = a]) = Len(t)
        /\ [t EXCEPT ![Len(t)] = a][Len(t)] = a
        /\ \A n \in 1 .. Len(t) - 1 : [t EXCEPT ![Len(t)] = a][n] = t[n]
    BY <1>1, <2>1
  <2> QED
    BY <1>1, <1>3, <2>2, <2>3 DEF Pieces, a
<1> QED
  BY <1>2, <1>3

\* s[i] has the pieces of the first i characters.
SplitBy(s, x) ==
    /\ s \in [0 .. Len(x) -> Pieces]
    /\ s[0] = << <<>> >> /\ \A n \in 1 .. Len(x) : s[n] = Extend(s[n - 1], x[n])

LEMMA Splitting ==
    ASSUME NEW x \in Texts
    PROVE  \E s : SplitBy(s, x) /\ Split(x) = s[Len(x)]
<1> DEFINE L == Len(x)
           base == << <<>> >>
           Is(f) == f = [i \in 0 .. L |-> IF i = 0 THEN base ELSE Extend(f[i - 1], x[i])]
           round == [a \in (1 .. L) \X Pieces |-> Extend(a[2], x[a[1]])]
<1>1. L \in Nat /\ \A n \in 1 .. L : x[n] \in Chars
  BY DEF Texts
<1>2. base \in Pieces
  <2>1. <<>> \in Texts
    BY DEF Texts
  <2> HIDE DEF Texts
  <2> QED
    BY <2>1 DEF Pieces
<1>3. \A n \in 1 .. L : \A t \in Pieces : Extend(t, x[n]) \in Pieces
  BY <1>1, Extending
<1>4. round \in [(1 .. L) \X Pieces -> Pieces] /\ \A n \in 1 .. L : \A t \in Pieces : round[<<n, t>>] = Extend(t, x[n])
  <2> HIDE DEF L
  <2> QED
    BY <1>3
<1> HIDE DEF L, base, round
<1>5. PICK k \in [0 .. L -> Pieces] : k[0] = base /\ \A n \in 1 .. L : k[n] = round[<<n, k[n - 1]>>]
  <2>1. \E k \in [0 .. L -> Pieces] : Loops(k, L, base, round)
    BY <1>1, <1>2, <1>4, Recursion
  <2> QED
    BY <2>1 DEF Loops
<1>6. Is(k)
  <2>1. ASSUME NEW i \in 0 .. L PROVE k[i] = IF i = 0 THEN base ELSE Extend(k[i - 1], x[i])
    <3>1. CASE i = 0
      BY <1>5, <3>1
    <3>2. CASE i # 0
      <4>1. i \in 1 .. L /\ i - 1 \in 0 .. L
        BY <1>1, <3>2
      <4> QED
        BY <1>4, <1>5, <3>2, <4>1
    <3> QED
      BY <3>1, <3>2
  <2>2. k = [i \in 0 .. L |-> k[i]]
    BY <1>5
  <2> QED
    BY <2>1, <2>2
<1> DEFINE s == CHOOSE f : Is(f)
<1>7. Is(s)
  <2> HIDE DEF Is
  <2> QED
    BY <1>6
<1>8. Split(x) = s[L]
  BY DEF Split, L, base
<1> HIDE DEF s
<1>9. /\ s[0] = base
      /\ \A n \in 1 .. L : s[n] = Extend(s[n - 1], x[n])
  <2> DEFINE body == [i \in 0 .. L |-> IF i = 0 THEN base ELSE Extend(s[i - 1], x[i])]
  <2>1. s = body
    BY <1>7
  <2>2. body[0] = base /\ \A n \in 1 .. L : body[n] = Extend(s[n - 1], x[n])
    BY <1>1
  <2> HIDE DEF body
  <2> QED
    BY <2>1, <2>2
<1>10. \A n \in 0 .. L : s[n] \in Pieces
  <2> DEFINE S == {n \in 0 .. L : s[n] \in Pieces}
  <2>1. 0 \in S
    BY <1>1, <1>2, <1>9
  <2>2. \A n \in 1 .. L : n - 1 \in S => n \in S
    BY <1>1, <1>3, <1>9
  <2>3. \A n \in 0 .. L : n \in S
    <3> HIDE DEF S
    <3> QED
      BY <1>1, <2>1, <2>2, Induct
  <2> QED
    BY <2>3
<1>11. s \in [0 .. L -> Pieces]
  <2>1. s = [n \in 0 .. L |-> s[n]]
    BY <1>7
  <2> QED
    BY <1>10, <2>1
<1> QED
  BY <1>8, <1>9, <1>11 DEF SplitBy, L, base

\* Pieces that are complete stay as they are.
Extends(t, u) == Len(u) <= Len(t) /\ \A n \in 1 .. Len(u) - 1 : t[n] = u[n]
LEMMA PiecesStay ==
    ASSUME NEW x \in Texts, NEW s, SplitBy(s, x), NEW m \in 0 .. Len(x)
    PROVE  Extends(s[Len(x)], s[m])
<1> DEFINE P(i) == Extends(s[i], s[m])
           S == {i \in 0 .. Len(x) : i < m \/ P(i)}
<1>1. Len(x) \in Nat /\ \A i \in 1 .. Len(x) : x[i] \in Chars
  BY DEF Texts
<1>2. \A i \in 0 .. Len(x) : s[i] \in Pieces /\ Len(s[i]) \in Nat \ {0}
  BY Extending DEF SplitBy, Pieces
<1>3. P(m)
  BY <1>2 DEF Extends
<1>4. ASSUME NEW i \in 1 .. Len(x), i - 1 \in S PROVE i \in S
  <2>1. CASE i <= m
    BY <1>1, <1>3, <2>1
  <2>2. CASE i > m
    <3>1. P(i - 1) /\ i - 1 \in 0 .. Len(x)
      BY <1>1, <1>4, <2>2
    <3>2. s[i] = Extend(s[i - 1], x[i]) /\ s[i - 1] \in Pieces /\ x[i] \in Chars
      BY <1>1, <1>2, <3>1 DEF SplitBy
    <3> DEFINE t == s[i - 1]
    <3> HIDE DEF t
    <3>3. Extends(Extend(t, x[i]), t)
      <4>1. t \in Pieces /\ x[i] \in Chars
        BY <3>2 DEF t
      <4>2. CASE x[i] = "*"
        <5>1. Len(Extend(t, x[i])) = Len(t) + 1 /\ Len(t) \in Nat
              /\ \A n \in 1 .. Len(t) : Extend(t, x[i])[n] = t[n]
          BY <4>1, <4>2, Extending
        <5> QED
          BY <5>1 DEF Extends
      <4>3. CASE x[i] # "*"
        <5>1. Len(Extend(t, x[i])) = Len(t) /\ Len(t) \in Nat
              /\ \A n \in 1 .. Len(t) - 1 : Extend(t, x[i])[n] = t[n]
          BY <4>1, <4>3, Extending
        <5> QED
          BY <5>1 DEF Extends
      <4> QED
        BY <4>2, <4>3
    <3>4. Len(s[i]) \in Nat /\ Len(t) \in Nat /\ Len(s[m]) \in Nat
      BY <1>2, <3>1 DEF t
    <3>5. Extends(s[i], t) /\ Extends(t, s[m])
      BY <3>1, <3>2, <3>3 DEF t
    <3>6. P(i)
      BY <3>4, <3>5 DEF Extends
    <3> QED
      BY <1>1, <3>6
  <2> QED
    BY <1>1, <2>1, <2>2
<1>5. 0 \in S
  BY <1>1, <1>3
<1>6. \A i \in 0 .. Len(x) : i \in S
  <2> HIDE DEF S
  <2> QED
    BY <1>1, <1>4, <1>5, Induct
<1>7. Len(x) \in 0 .. Len(x) /\ ~(Len(x) < m)
  BY <1>1
<1>8. P(Len(x))
  BY <1>6, <1>7
<1> QED
  BY <1>8

\* Without a star there is one piece.
LEMMA OnePiece ==
    ASSUME NEW x \in Texts, ~HasStar(x), NEW s, SplitBy(s, x)
    PROVE  Len(s[Len(x)]) = 1 /\ s[Len(x)][1] = x
<1> DEFINE P(i) == /\ Len(s[i]) = 1 /\ Len(s[i][1]) = i
                   /\ \A n \in 1 .. i : s[i][1][n] = x[n]
           S == {i \in 0 .. Len(x) : P(i)}
<1>1. Len(x) \in Nat /\ \A i \in 1 .. Len(x) : x[i] \in Chars /\ x[i] # "*"
  BY DEF Texts, HasStar
<1>2. \A i \in 0 .. Len(x) : s[i] \in Pieces
  BY DEF SplitBy
<1>3. 0 \in S
  <2>1. Len(<< <<>> >>) = 1 /\ << <<>> >>[1] = <<>> /\ Len(<<>>) = 0
    OBVIOUS
  <2>2. s[0] = << <<>> >> /\ 0 \in 0 .. Len(x)
    BY <1>1 DEF SplitBy
  <2>3. P(0)
    BY <2>1, <2>2
  <2> QED
    BY <2>2, <2>3
<1>4. ASSUME NEW i \in 1 .. Len(x), i - 1 \in S PROVE i \in S
  <2>1. i - 1 \in 0 .. Len(x) /\ P(i - 1)
    BY <1>4
  <2> DEFINE t == s[i - 1]
  <2>2. s[i] = Extend(t, x[i]) /\ t \in Pieces /\ x[i] \in Chars /\ x[i] # "*"
    BY <1>1, <1>2, <2>1 DEF SplitBy
  <2> HIDE DEF t
  <2>3. Len(t) = 1 /\ Len(t[1]) = i - 1 /\ \A n \in 1 .. i - 1 : t[1][n] = x[n]
    BY <2>1 DEF t
  <2>4. Len(s[i]) = 1 /\ s[i][1] = Append(t[1], x[i]) /\ t[1] \in Texts
    BY <2>2, <2>3, Extending
  <2>5. Len(Append(t[1], x[i])) = i /\ \A n \in 1 .. i : Append(t[1], x[i])[n] = x[n]
    <3> DEFINE u == t[1]
    <3>1. u \in Texts /\ Len(u) = i - 1 /\ \A n \in 1 .. i - 1 : u[n] = x[n]
      BY <2>3, <2>4
    <3> HIDE DEF u
    <3>2. Len(Append(u, x[i])) = i /\ \A n \in 1 .. i : Append(u, x[i])[n] = x[n]
      BY <1>1, <2>2, <3>1 DEF Texts
    <3> QED
      BY <3>2 DEF u
  <2> QED
    BY <1>1, <2>4, <2>5
<1>5. \A i \in 0 .. Len(x) : i \in S
  <2> HIDE DEF S
  <2> QED
    BY <1>1, <1>3, <1>4, Induct
<1>6. P(Len(x)) /\ s[Len(x)] \in Pieces
  BY <1>1, <1>2, <1>5
<1>7. s[Len(x)][1] \in Texts
  BY <1>6 DEF Pieces
<1> QED
  BY <1>6, <1>7 DEF Texts

-----------------------------------------------------------------------------
(* Pieces in a name.                                                       *)

\* The piece is in v behind its first a characters.
Stands(piece, v, a) ==
    a + Len(piece) <= Len(v) /\ \A m \in 1 .. Len(piece) : v[a + m] = piece[m]

LEMMA Slice ==
    ASSUME NEW piece \in Texts, NEW v \in Texts, NEW a \in Nat, a + Len(piece) <= Len(v)
    PROVE  SubSeq(v, a + 1, a + Len(piece)) = piece <=> Stands(piece, v, a)
<1> DEFINE n == Len(piece)
           s == SubSeq(v, a + 1, a + n)
<1>1. n \in Nat /\ Len(v) \in Nat /\ a + n <= Len(v) /\ v \in Seq(Chars) /\ piece \in Seq(Chars)
  BY DEF Texts
<1> HIDE DEF n
<1>2. a + 1 \in 1 .. Len(v) + 1 /\ a + n \in (a + 1) - 1 .. Len(v)
  BY <1>1
<1>3. /\ s \in Seq(Chars) /\ Len(s) = a + n - (a + 1) + 1
      /\ \A m \in 1 .. a + n - (a + 1) + 1 : s[m] = v[a + 1 + m - 1]
  BY <1>1, <1>2, SubSeqProperties
<1> HIDE DEF s
<1>4. Len(s) = n /\ \A m \in 1 .. n : s[m] = v[a + m]
  <2>1. a + n - (a + 1) + 1 = n
    BY <1>1
  <2>2. \A m \in 1 .. n : a + 1 + m - 1 = a + m
    OBVIOUS
  <2> QED
    BY <1>3, <2>1, <2>2
<1>5. s = piece <=> \A m \in 1 .. n : s[m] = piece[m]
  <2>1. Len(piece) = n
    BY DEF n
  <2> QED
    BY <1>1, <1>3, <1>4, <2>1
<1> QED
  BY <1>4, <1>5, <1>1 DEF Stands, n, s

LEMMA Occurring ==
    ASSUME NEW piece \in Texts, NEW v \in Texts, NEW from \in 0 .. Len(v)
    PROVE  /\ Occurrences(piece, v, from) \subseteq 0 .. Len(v)
           /\ \A a \in 0 .. Len(v) :
                 a \in Occurrences(piece, v, from) <=> from <= a /\ Stands(piece, v, a)
<1>1. Len(piece) \in Nat /\ Len(v) \in Nat
  BY DEF Texts
<1>2. ASSUME NEW a \in 0 .. Len(v)
      PROVE  a \in Occurrences(piece, v, from) <=> from <= a /\ Stands(piece, v, a)
  <2>1. CASE a + Len(piece) <= Len(v)
    <3>1. SubSeq(v, a + 1, a + Len(piece)) = piece <=> Stands(piece, v, a)
      BY <2>1, <1>1, Slice
    <3>2. a \in from .. Len(v) - Len(piece) <=> from <= a
      BY <1>1, <2>1
    <3> QED
      BY <3>1, <3>2 DEF Occurrences
  <2>2. CASE ~(a + Len(piece) <= Len(v))
    <3>1. a \notin from .. Len(v) - Len(piece)
      BY <1>1, <2>2
    <3> QED
      BY <2>2, <3>1 DEF Occurrences, Stands
  <2> QED
    BY <2>1, <2>2
<1>3. from .. Len(v) - Len(piece) \subseteq 0 .. Len(v)
  BY <1>1
<1> QED
  BY <1>2, <1>3 DEF Occurrences

\* An end of the piece at j or before, in its place.
Fit(piece, v, from, first, j) ==
    /\ from # Lost
    /\ \E a \in 0 .. Len(v) :
          from <= a /\ (first => a = 0) /\ Stands(piece, v, a) /\ a + Len(piece) <= j
FitsFrom(end, piece, v, from, first) ==
    \A j \in 0 .. Len(v) : end # Lost /\ end <= j <=> Fit(piece, v, from, first, j)

\* The first end is all that matters for what comes behind.
LEMMA FirstEnd ==
    ASSUME NEW piece \in Texts, NEW v \in Texts, NEW from \in {Lost} \cup 0 .. Len(v),
           NEW first \in BOOLEAN, first => from = 0
    PROVE  /\ Behind(piece, v, from, first) \in {Lost} \cup 0 .. Len(v)
           /\ FitsFrom(Behind(piece, v, from, first), piece, v, from, first)
<1> DEFINE end == Behind(piece, v, from, first)
           found == Occurrences(piece, v, from)
<1>1. Len(piece) \in Nat /\ Len(v) \in Nat /\ Lost \notin Nat
  BY DEF Texts, Lost
<1>2. CASE from = Lost
  BY <1>2 DEF Behind, FitsFrom, Fit
<1>3. CASE from # Lost /\ piece = <<>>
  <2>1. end = from /\ from \in 0 .. Len(v)
    BY <1>3 DEF Behind
  <2>2. Len(piece) = 0 /\ \A a \in 0 .. Len(v) : Stands(piece, v, a)
    BY <1>1, <1>3 DEF Stands
  <2>3. ASSUME NEW j \in 0 .. Len(v) PROVE from <= j <=> Fit(piece, v, from, first, j)
    BY <1>1, <1>3, <2>1, <2>2 DEF Fit
  <2> HIDE DEF end
  <2> QED
    BY <1>1, <1>3, <2>1, <2>3 DEF FitsFrom, end
<1>4. CASE from # Lost /\ piece # <<>>
  <2>1. from \in 0 .. Len(v) /\ found \subseteq 0 .. Len(v)
    BY <1>4, Occurring
  <2>2. \A a \in 0 .. Len(v) : a \in found <=> from <= a /\ Stands(piece, v, a)
    BY <2>1, Occurring
  <2>3. end = IF found = {} \/ (first /\ 0 \notin found) THEN Lost ELSE Min(found) + Len(piece)
    BY <1>4 DEF Behind
  <2> HIDE DEF end, found
  <2>4. CASE found = {} \/ (first /\ 0 \notin found)
    <3>1. end = Lost
      BY <2>3, <2>4
    <3>2. ASSUME NEW j \in 0 .. Len(v) PROVE ~Fit(piece, v, from, first, j)
      BY <2>2, <2>4 DEF Fit
    <3> QED
      BY <3>1, <3>2 DEF FitsFrom, end
  <2>5. CASE ~(found = {} \/ (first /\ 0 \notin found))
    <3>1. PICK x \in found : \A y \in found : x <= y
      <4>1. found \in SUBSET Nat /\ found # {}
        BY <2>1, <2>5
      <4> QED
        BY <4>1, Least
    <3>2. Min(found) \in found /\ \A y \in found : Min(found) <= y
      BY <3>1 DEF Min
    <3> DEFINE b == Min(found)
    <3> HIDE DEF b
    <3>3. b \in 0 .. Len(v) /\ b \in found /\ \A y \in found : b <= y
      BY <2>1, <3>2 DEF b
    <3>4. from <= b /\ Stands(piece, v, b) /\ (first => b = 0) /\ end = b + Len(piece)
      BY <2>2, <2>3, <2>5, <3>3 DEF b
    <3>5. end \in 0 .. Len(v) /\ end # Lost
      BY <1>1, <3>3, <3>4 DEF Stands
    <3>6. ASSUME NEW j \in 0 .. Len(v) PROVE end <= j <=> Fit(piece, v, from, first, j)
      <4>1. ASSUME end <= j PROVE Fit(piece, v, from, first, j)
        BY <1>4, <3>3, <3>4, <4>1 DEF Fit
      <4>2. ASSUME Fit(piece, v, from, first, j) PROVE end <= j
        <5>1. PICK a \in 0 .. Len(v) : from <= a /\ Stands(piece, v, a) /\ a + Len(piece) <= j
          BY <4>2 DEF Fit
        <5>2. b <= a
          BY <2>2, <3>3, <5>1
        <5> QED
          BY <1>1, <3>3, <3>4, <5>1, <5>2
      <4> QED
        BY <4>1, <4>2
    <3> QED
      BY <3>5, <3>6 DEF FitsFrom, end
  <2> QED
    BY <2>4, <2>5
<1> QED
  BY <1>2, <1>3, <1>4

\* What has been reached when the pieces t have been gone through, the last but
\* one of which ends at q: any j where the last one ends, in its place.
Reached(t, q, v, j) ==
    /\ q # Lost
    /\ \E a \in 0 .. Len(v) :
          q <= a /\ (Len(t) = 1 => a = 0) /\ Stands(t[Len(t)], v, a) /\ a + Len(t[Len(t)]) = j

LEMMA Longer ==
    ASSUME NEW piece \in Texts, NEW c \in Chars, NEW v \in Texts, NEW a \in 0 .. Len(v)
    PROVE  Stands(Append(piece, c), v, a) <=>
             a + Len(piece) + 1 <= Len(v) /\ Stands(piece, v, a) /\ v[a + Len(piece) + 1] = c
<1> DEFINE n == Len(piece)
           p == Append(piece, c)
<1>1. /\ n \in Nat /\ Len(v) \in Nat /\ Len(p) = n + 1 /\ p[n + 1] = c
      /\ \A m \in 1 .. n : p[m] = piece[m]
  BY DEF Texts
<1> HIDE DEF p
<1>2. Len(piece) = n
  OBVIOUS
<1> HIDE DEF n
<1>3. \A m : m \in 1 .. n + 1 <=> m \in 1 .. n \/ m = n + 1
  BY <1>1
<1>4. a + (n + 1) = a + n + 1
  BY <1>1
<1> QED
  BY <1>1, <1>2, <1>3, <1>4 DEF Stands, p

LEMMA CharacterStep ==
    ASSUME NEW t \in Pieces, NEW c \in Chars, c # "*", NEW v \in Texts,
           NEW q \in {Lost} \cup 0 .. Len(v), NEW j \in 0 .. Len(v)
    PROVE  Reached(Extend(t, c), q, v, j) <=> j > 0 /\ v[j] = c /\ Reached(t, q, v, j - 1)
<1> DEFINE piece == t[Len(t)]
           n == Len(piece)
           p == Append(piece, c)
<1>1. Len(Extend(t, c)) = Len(t) /\ Extend(t, c)[Len(t)] = p /\ piece \in Texts
  BY Extending
<1>2. n \in Nat /\ Len(v) \in Nat /\ Len(p) = n + 1
  BY <1>1 DEF Texts
<1> HIDE DEF piece
<1>3. Reached(Extend(t, c), q, v, j) <=>
        q # Lost /\ \E a \in 0 .. Len(v) :
                       q <= a /\ (Len(t) = 1 => a = 0) /\ Stands(p, v, a) /\ a + Len(p) = j
  BY <1>1 DEF Reached
<1>4. Reached(t, q, v, j - 1) <=>
        q # Lost /\ \E a \in 0 .. Len(v) :
                       q <= a /\ (Len(t) = 1 => a = 0) /\ Stands(piece, v, a) /\ a + n = j - 1
  BY DEF Reached, piece
<1>5. \A a \in 0 .. Len(v) :
        Stands(p, v, a) <=> a + n + 1 <= Len(v) /\ Stands(piece, v, a) /\ v[a + n + 1] = c
  BY <1>1, Longer
<1> HIDE DEF n, p
<1>6. ASSUME NEW a \in 0 .. Len(v)
      PROVE  Stands(p, v, a) /\ a + Len(p) = j <=>
               j > 0 /\ v[j] = c /\ Stands(piece, v, a) /\ a + n = j - 1
  <2>1. a + Len(p) = j <=> a + n = j - 1
    BY <1>2
  <2>2. a + n = j - 1 => j > 0 /\ a + n + 1 = j /\ j <= Len(v)
    BY <1>2
  <2> QED
    BY <1>5, <2>1, <2>2
<1> QED
  BY <1>3, <1>4, <1>6

LEMMA StarStep ==
    ASSUME NEW t \in Pieces, NEW v \in Texts, "*" \in Chars, NEW q \in {Lost} \cup 0 .. Len(v),
           Len(t) = 1 => q = 0, NEW j \in 0 .. Len(v)
    PROVE  Reached(Extend(t, "*"), Behind(t[Len(t)], v, q, Len(t) = 1), v, j) <=>
             \E k \in 0 .. j : Reached(t, q, v, k)
<1> DEFINE piece == t[Len(t)]
           end == Behind(piece, v, q, Len(t) = 1)
<1>1. /\ Len(t) \in Nat \ {0} /\ Len(v) \in Nat /\ piece \in Texts
      /\ Len(Extend(t, "*")) = Len(t) + 1 /\ Extend(t, "*")[Len(t) + 1] = <<>>
  BY Extending DEF Texts
<1>2. Len(piece) \in Nat
  BY <1>1 DEF Texts
<1>3. end \in {Lost} \cup 0 .. Len(v) /\ FitsFrom(end, piece, v, q, Len(t) = 1)
  BY <1>1, FirstEnd
<1> HIDE DEF end
<1>4. Reached(Extend(t, "*"), end, v, j) <=> end # Lost /\ end <= j
  <2>1. \A a \in 0 .. Len(v) : Stands(<<>>, v, a) /\ a + Len(<<>>) = a
    BY <1>1 DEF Stands
  <2>2. Len(t) + 1 # 1
    BY <1>1
  <2> QED
    BY <1>1, <1>3, <2>1, <2>2 DEF Reached
<1>5. end # Lost /\ end <= j <=> Fit(piece, v, q, Len(t) = 1, j)
  BY <1>3 DEF FitsFrom
<1>6. Fit(piece, v, q, Len(t) = 1, j) <=> \E k \in 0 .. j : Reached(t, q, v, k)
  <2>1. ASSUME Fit(piece, v, q, Len(t) = 1, j) PROVE \E k \in 0 .. j : Reached(t, q, v, k)
    <3>1. PICK a \in 0 .. Len(v) : /\ q <= a /\ (Len(t) = 1 => a = 0) /\ Stands(piece, v, a)
                                   /\ a + Len(piece) <= j
      BY <2>1 DEF Fit
    <3>2. a + Len(piece) \in 0 .. j /\ q # Lost
      BY <1>2, <2>1, <3>1 DEF Fit
    <3>3. Reached(t, q, v, a + Len(piece))
      BY <3>1, <3>2 DEF Reached
    <3> QED
      BY <3>2, <3>3
  <2>2. ASSUME NEW k \in 0 .. j, Reached(t, q, v, k) PROVE Fit(piece, v, q, Len(t) = 1, j)
    BY <2>2 DEF Reached, Fit
  <2> QED
    BY <2>1, <2>2
<1> QED
  BY <1>4, <1>5, <1>6 DEF end

\* The end of every piece, in its place.
EndsBy(e, parts, v) ==
    /\ e \in [0 .. Len(parts) -> {Lost} \cup 0 .. Len(v)]
    /\ e[0] = 0
    /\ \A n \in 1 .. Len(parts) : e[n] = Behind(parts[n], v, e[n - 1], n = 1)
EndsOf(parts, v) ==
    CHOOSE pos : pos = [n \in 0 .. Len(parts) |->
                           IF n = 0 THEN 0 ELSE Behind(parts[n], v, pos[n - 1], n = 1)]

LEMMA Ending ==
    ASSUME NEW parts \in Seq(Texts), NEW v \in Texts
    PROVE  EndsBy(EndsOf(parts, v), parts, v)
<1> DEFINE N == Len(parts)
           V == {Lost} \cup 0 .. Len(v)
           Is(f) == f = [n \in 0 .. N |-> IF n = 0 THEN 0 ELSE Behind(parts[n], v, f[n - 1], n = 1)]
           \* The first piece is looked for at the beginning.
           round == [a \in (1 .. N) \X V |->
                        IF a[1] = 1 THEN Behind(parts[1], v, 0, TRUE)
                        ELSE Behind(parts[a[1]], v, a[2], FALSE)]
<1>1. N \in Nat /\ 0 \in V /\ \A n \in 1 .. N : parts[n] \in Texts
  BY DEF Texts
<1>2. /\ \A n \in 1 .. N : \A q \in V : Behind(parts[n], v, q, FALSE) \in V
      /\ \A n \in 1 .. N : Behind(parts[n], v, 0, TRUE) \in V
  BY <1>1, FirstEnd
<1> HIDE DEF N, V
<1>3. /\ round \in [(1 .. N) \X V -> V]
      /\ \A n \in 1 .. N : \A q \in V :
            round[<<n, q>>] = IF n = 1 THEN Behind(parts[1], v, 0, TRUE) ELSE Behind(parts[n], v, q, FALSE)
  BY <1>2
<1> HIDE DEF round
<1>4. PICK k \in [0 .. N -> V] : k[0] = 0 /\ \A n \in 1 .. N : k[n] = round[<<n, k[n - 1]>>]
  <2>1. \E k \in [0 .. N -> V] : Loops(k, N, 0, round)
    BY <1>1, <1>3, Recursion
  <2> QED
    BY <2>1 DEF Loops
<1>5. \A n \in 1 .. N : k[n] = Behind(parts[n], v, k[n - 1], n = 1)
  <2> SUFFICES ASSUME NEW n \in 1 .. N PROVE k[n] = Behind(parts[n], v, k[n - 1], n = 1)
    OBVIOUS
  <2>1. n - 1 \in 0 .. N /\ k[n - 1] \in V
    BY <1>1, <1>4
  <2>2. CASE n = 1
    <3>1. k[n] = Behind(parts[1], v, 0, TRUE) /\ k[n - 1] = 0
      <4>1. n - 1 = 0
        BY <2>2
      <4>2. k[n] = round[<<n, k[n - 1]>>]
        BY <1>4
      <4>3. round[<<n, k[n - 1]>>] = Behind(parts[1], v, 0, TRUE)
        BY <1>3, <2>1, <2>2, Zenon
      <4> QED
        BY <1>4, <4>1, <4>2, <4>3
    <3>2. k[n] = Behind(parts[n], v, k[n - 1], TRUE)
      BY <2>2, <3>1
    <3>3. (n = 1) = TRUE
      BY <2>2
    <3> QED
      BY <3>2, <3>3
  <2>3. CASE n # 1
    <3>1. k[n] = Behind(parts[n], v, k[n - 1], FALSE) /\ (n = 1) = FALSE
      BY <1>3, <1>4, <2>1, <2>3
    <3> QED
      BY <3>1
  <2> QED
    BY <2>2, <2>3
<1>6. Is(k)
  <2>1. ASSUME NEW n \in 0 .. N
        PROVE  k[n] = IF n = 0 THEN 0 ELSE Behind(parts[n], v, k[n - 1], n = 1)
    <3>1. n = 0 \/ n \in 1 .. N
      BY <1>1
    <3> QED
      BY <1>4, <1>5, <3>1
  <2>2. k = [n \in 0 .. N |-> k[n]]
    BY <1>4
  <2> QED
    BY <2>1, <2>2
<1> DEFINE e == CHOOSE f : Is(f)
<1>7. Is(e)
  <2> HIDE DEF Is
  <2> QED
    BY <1>6
<1>8. EndsOf(parts, v) = e
  BY DEF EndsOf, N
<1> HIDE DEF e
<1>9. e[0] = 0 /\ \A n \in 1 .. N : e[n] = Behind(parts[n], v, e[n - 1], n = 1)
  <2> DEFINE body == [n \in 0 .. N |-> IF n = 0 THEN 0 ELSE Behind(parts[n], v, e[n - 1], n = 1)]
  <2>1. e = body
    BY <1>7
  <2>2. body[0] = 0 /\ \A n \in 1 .. N : body[n] = Behind(parts[n], v, e[n - 1], n = 1)
    BY <1>1
  <2> HIDE DEF body
  <2> QED
    BY <2>1, <2>2
<1>10. \A n \in 0 .. N : e[n] \in V
  <2> DEFINE S == {n \in 0 .. N : e[n] \in V}
  <2>1. 0 \in S
    BY <1>1, <1>9
  <2>2. ASSUME NEW n \in 1 .. N, n - 1 \in S PROVE n \in S
    <3>1. CASE n = 1
      <4>1. e[n] = Behind(parts[n], v, 0, TRUE)
        <5>1. n - 1 = 0 /\ (n = 1) = TRUE
          BY <3>1
        <5> QED
          BY <1>9, <5>1
      <4> QED
        BY <1>1, <1>2, <4>1
    <3>2. CASE n # 1
      <4>1. e[n] = Behind(parts[n], v, e[n - 1], FALSE) /\ e[n - 1] \in V
        <5>1. (n = 1) = FALSE
          BY <3>2
        <5> QED
          BY <1>9, <2>2, <5>1
      <4> QED
        BY <1>1, <1>2, <4>1
    <3> QED
      BY <3>1, <3>2
  <2>3. \A n \in 0 .. N : n \in S
    <3> HIDE DEF S
    <3> QED
      BY <1>1, <2>1, <2>2, Induct
  <2> QED
    BY <2>3
<1>11. e \in [0 .. N -> V]
  <2>1. e = [n \in 0 .. N |-> e[n]]
    BY <1>7
  <2> QED
    BY <1>10, <2>1
<1> QED
  BY <1>8, <1>9, <1>11 DEF EndsBy, N, V

LEMMA Normal ==
    ASSUME NEW p \in Texts
    PROVE  /\ Lowered(p) \in Texts /\ Len(Lowered(p)) = Len(p)
           /\ \A i \in 1 .. Len(p) : Lowered(p)[i] = Lower[p[i]] /\ p[i] \in Chars
           /\ \A i \in 1 .. Len(p) : Lowered(p)[i] = "*" <=> p[i] = "*"
<1>1. p \in Seq(Chars) /\ Len(p) \in Nat /\ DOMAIN p = 1 .. Len(p) /\ \A i \in 1 .. Len(p) : p[i] \in Chars
  BY DEF Texts
<1>2. \A c \in Chars : Lower[c] \in Chars /\ (Lower[c] = "*" <=> c = "*")
  BY FilteringAssumption DEF Chars
<1>3. Lowered(p) = [i \in 1 .. Len(p) |-> Lower[p[i]]]
  BY <1>1 DEF Lowered
<1>4. [i \in 1 .. Len(p) |-> Lower[p[i]]] \in Seq(Chars)
  BY <1>1, <1>2
<1> QED
  BY <1>1, <1>2, <1>3, <1>4 DEF Texts

\* The rows of the table that tells what a pattern fits.
FitsRows(f, p, v) ==
    f = [i \in 0 .. Len(p) |->
            [j \in 0 .. Len(v) |->
                IF i = 0 THEN j = 0
                ELSE IF p[i] = "*" THEN \E k \in 0 .. j : f[i - 1][k]
                ELSE j > 0 /\ Lower[p[i]] = Lower[v[j]] /\ f[i - 1][j - 1]]]

\* The table has what the search for the pieces reaches.
LEMMA Rows ==
    ASSUME NEW p \in Texts, NEW v \in Texts, NEW s, SplitBy(s, Lowered(p)),
           NEW e, EndsBy(e, s[Len(p)], Lowered(v))
    PROVE  Fits(p, v) <=> Reached(s[Len(p)], e[Len(s[Len(p)]) - 1], Lowered(v), Len(v))
<1> DEFINE x == Lowered(p)
           u == Lowered(v)
           L == Len(p)
           M == Len(v)
           q(i) == e[Len(s[i]) - 1]
           W(i, j) == Reached(s[i], q(i), u, j)
<1>1. /\ x \in Texts /\ u \in Texts /\ Len(x) = L /\ Len(u) = M /\ L \in Nat /\ M \in Nat
      /\ \A i \in 1 .. L : x[i] = Lower[p[i]] /\ (x[i] = "*" <=> p[i] = "*") /\ x[i] \in Chars
      /\ \A j \in 1 .. M : u[j] = Lower[v[j]]
  BY Normal DEF Texts
<1> HIDE DEF x, u
<1>2. /\ s[0] = << <<>> >> /\ \A i \in 1 .. L : s[i] = Extend(s[i - 1], x[i])
      /\ \A i \in 0 .. L : s[i] \in Pieces /\ Len(s[i]) \in Nat \ {0}
      /\ \A i \in 0 .. L : Extends(s[L], s[i])
  <2>1. SplitBy(s, x) /\ Len(x) = L
    BY <1>1 DEF x
  <2>2. \A i \in 0 .. L : s[i] \in Pieces
    BY <2>1 DEF SplitBy
  <2>3. \A i \in 0 .. L : Len(s[i]) \in Nat \ {0}
    BY <2>2 DEF Pieces
  <2>4. \A i \in 0 .. L : Extends(s[L], s[i])
    <3> HIDE DEF L
    <3> QED
      BY <1>1, <2>1, PiecesStay
  <2> QED
    BY <2>1, <2>2, <2>3, <2>4 DEF SplitBy
<1>3. /\ e[0] = 0 /\ \A n \in 0 .. Len(s[L]) : e[n] \in {Lost} \cup 0 .. Len(u)
      /\ \A n \in 1 .. Len(s[L]) : e[n] = Behind(s[L][n], u, e[n - 1], n = 1)
  BY DEF EndsBy, u
<1> HIDE DEF L, M
<1>4. ASSUME NEW i \in 0 .. L
      PROVE  Len(s[i]) - 1 \in 0 .. Len(s[L]) /\ q(i) \in {Lost} \cup 0 .. Len(u)
  <2>1. Len(s[i]) <= Len(s[L]) /\ Len(s[i]) \in Nat \ {0} /\ Len(s[L]) \in Nat
    BY <1>1, <1>2 DEF Extends
  <2>2. Len(s[i]) - 1 \in 0 .. Len(s[L])
    BY <2>1
  <2> QED
    BY <1>3, <2>2
<1>5. ASSUME NEW j \in 0 .. M PROVE W(0, j) <=> j = 0
  <2>1. Len(<< <<>> >>) = 1 /\ << <<>> >>[1] = <<>> /\ Len(<<>>) = 0 /\ 0 # Lost
    BY DEF Lost
  <2>2. Stands(<<>>, u, 0) /\ q(0) = 0
    BY <1>1, <1>2, <1>3, <2>1 DEF Stands
  <2>3. W(0, j) <=> \E a \in 0 .. Len(u) : 0 <= a /\ a = 0 /\ Stands(<<>>, u, a) /\ a + 0 = j
    BY <1>2, <2>1, <2>2, Zenon DEF Reached
  <2> QED
    BY <1>1, <2>2, <2>3
<1>6. ASSUME NEW i \in 1 .. L, p[i] = "*", NEW j \in 0 .. M
      PROVE  W(i, j) <=> \E k \in 0 .. j : W(i - 1, k)
  <2> DEFINE t == s[i - 1]
             n == Len(t)
  <2>1. /\ i - 1 \in 0 .. L /\ i \in 0 .. L /\ t \in Pieces /\ n \in Nat \ {0}
        /\ s[i] = Extend(t, "*") /\ "*" \in Chars /\ j \in 0 .. Len(u)
    BY <1>1, <1>2, <1>6
  <2> HIDE DEF t
  <2>2. Len(s[i]) = n + 1 /\ s[i][n] = t[n]
    BY <2>1, Extending
  <2> HIDE DEF n
  <2>3. n \in 1 .. Len(s[L]) /\ s[L][n] = t[n]
    <3>1. Extends(s[L], s[i]) /\ Len(s[L]) \in Nat
      BY <1>1, <1>2, <2>1
    <3> QED
      BY <2>1, <2>2, <3>1 DEF Extends
  <2>4. q(i) = e[n] /\ q(i - 1) = e[n - 1] /\ e[n] = Behind(t[n], u, e[n - 1], n = 1)
    <3>1. n + 1 - 1 = n
      BY <2>1
    <3>2. e[n] = Behind(s[L][n], u, e[n - 1], n = 1)
      BY <1>3, <2>3
    <3>3. e[n] = Behind(t[n], u, e[n - 1], n = 1)
      BY <2>3, <3>2, Zenon
    <3> QED
      BY <2>2, <3>1, <3>3 DEF t, n
  <2>5. q(i - 1) \in {Lost} \cup 0 .. Len(u) /\ (n = 1 => q(i - 1) = 0)
    <3>1. n = 1 => n - 1 = 0
      OBVIOUS
    <3> QED
      BY <1>3, <1>4, <2>1, <2>4, <3>1
  <2> DEFINE b == q(i - 1)
  <2>6. Reached(Extend(t, "*"), Behind(t[Len(t)], u, b, Len(t) = 1), u, j) <=>
          \E k \in 0 .. j : Reached(t, b, u, k)
    <3> HIDE DEF b
    <3>1. b \in {Lost} \cup 0 .. Len(u) /\ (Len(t) = 1 => b = 0)
      BY <2>5 DEF b, n
    <3> QED
      BY <1>1, <2>1, <3>1, StarStep
  <2> QED
    BY <2>1, <2>4, <2>6 DEF n, t
<1>7. ASSUME NEW i \in 1 .. L, p[i] # "*", NEW j \in 0 .. M
      PROVE  W(i, j) <=> j > 0 /\ Lower[p[i]] = Lower[v[j]] /\ W(i - 1, j - 1)
  <2> DEFINE t == s[i - 1]
             b == q(i - 1)
  <2>1. /\ i - 1 \in 0 .. L /\ t \in Pieces /\ x[i] \in Chars /\ x[i] # "*"
        /\ s[i] = Extend(t, x[i]) /\ j \in 0 .. Len(u) /\ b \in {Lost} \cup 0 .. Len(u)
    BY <1>1, <1>2, <1>4, <1>7
  <2>2. q(i) = b
    <3> HIDE DEF t
    <3>1. Len(s[i]) = Len(t)
      BY <2>1, Extending
    <3> QED
      BY <3>1 DEF t
  <2> HIDE DEF t, b
  <2>3. Reached(Extend(t, x[i]), b, u, j) <=> j > 0 /\ u[j] = x[i] /\ Reached(t, b, u, j - 1)
    BY <1>1, <2>1, CharacterStep
  <2>4. j > 0 => (u[j] = x[i] <=> Lower[p[i]] = Lower[v[j]])
    BY <1>1
  <2>5. W(i, j) <=> Reached(Extend(t, x[i]), b, u, j)
    BY <2>1, <2>2
  <2>6. W(i - 1, j - 1) <=> Reached(t, b, u, j - 1)
    BY DEF t, b
  <2> QED
    BY <2>3, <2>4, <2>5, <2>6
<1> HIDE DEF W
<1> DEFINE Row(f, i, j) == IF i = 0 THEN j = 0
                           ELSE IF p[i] = "*" THEN \E k \in 0 .. j : f[i - 1][k]
                           ELSE j > 0 /\ Lower[p[i]] = Lower[v[j]] /\ f[i - 1][j - 1]
           Is(f) == f = [i \in 0 .. L |-> [j \in 0 .. M |-> Row(f, i, j)]]
           w == [i \in 0 .. L |-> [j \in 0 .. M |-> W(i, j)]]
\* One row of a table follows from the one before.
<1>8. ASSUME NEW f, NEW i \in 0 .. L, NEW j \in 0 .. M,
             i # 0 => \A k \in 0 .. M : f[i - 1][k] <=> W(i - 1, k)
      PROVE  Row(f, i, j) <=> W(i, j)
  <2>1. CASE i = 0
    BY <1>5, <2>1
  <2>2. CASE i # 0 /\ p[i] = "*"
    <3>1. i \in 1 .. L /\ \A k \in 0 .. j : k \in 0 .. M
      BY <1>1, <2>2
    <3>2. W(i, j) <=> \E k \in 0 .. j : W(i - 1, k)
      BY <1>6, <2>2, <3>1
    <3>3. Row(f, i, j) <=> \E k \in 0 .. j : f[i - 1][k]
      BY <2>2
    <3> HIDE DEF Row
    <3> QED
      BY <1>8, <2>2, <3>1, <3>2, <3>3
  <2>3. CASE i # 0 /\ p[i] # "*"
    <3>1. i \in 1 .. L /\ (j > 0 => j - 1 \in 0 .. M)
      BY <1>1, <2>3
    <3>2. W(i, j) <=> j > 0 /\ Lower[p[i]] = Lower[v[j]] /\ W(i - 1, j - 1)
      BY <1>7, <2>3, <3>1
    <3>3. Row(f, i, j) <=> j > 0 /\ Lower[p[i]] = Lower[v[j]] /\ f[i - 1][j - 1]
      BY <2>3
    <3> HIDE DEF Row
    <3> QED
      BY <1>8, <2>3, <3>1, <3>2, <3>3
  <2> QED
    BY <2>1, <2>2, <2>3
<1> HIDE DEF Row
<1>9. Is(w)
  <2>1. \A i \in 0 .. L : \A j \in 0 .. M : w[i][j] <=> W(i, j)
    OBVIOUS
  <2> HIDE DEF w
  <2>2. ASSUME NEW i \in 0 .. L, NEW j \in 0 .. M PROVE Row(w, i, j) <=> W(i, j)
    <3>1. i # 0 => i - 1 \in 0 .. L
      BY <1>1
    <3> QED
      BY <1>8, <2>1, <3>1
  <2>3. \A i \in 0 .. L : [j \in 0 .. M |-> W(i, j)] = [j \in 0 .. M |-> Row(w, i, j)]
    <3>1. \A i \in 0 .. L : \A j \in 0 .. M : W(i, j) \in BOOLEAN
      BY Zenon DEF W, Reached
    <3>2. \A i \in 0 .. L : \A j \in 0 .. M : Row(w, i, j) \in BOOLEAN
      BY DEF Row
    <3>3. \A i \in 0 .. L : \A j \in 0 .. M : W(i, j) = Row(w, i, j)
      BY <2>2, <3>1, <3>2
    <3> QED
      BY <3>3, Zenon
  <2>4. [i \in 0 .. L |-> [j \in 0 .. M |-> W(i, j)]] = [i \in 0 .. L |-> [j \in 0 .. M |-> Row(w, i, j)]]
    BY <2>3
  <2> QED
    BY <2>4 DEF w
<1> HIDE DEF w
<1> DEFINE table == CHOOSE f : Is(f)
<1>10. Is(table)
  <2> HIDE DEF Is
  <2> QED
    BY <1>9
<1>11. Fits(p, v) <=> table[L][M]
  BY DEF Fits, Row, L, M
<1> HIDE DEF table
<1>12. \A i \in 0 .. L : \A j \in 0 .. M : table[i][j] <=> Row(table, i, j)
  <2> DEFINE body == [i \in 0 .. L |-> [j \in 0 .. M |-> Row(table, i, j)]]
  <2>1. table = body
    BY <1>10
  <2>2. \A i \in 0 .. L : \A j \in 0 .. M : body[i][j] <=> Row(table, i, j)
    OBVIOUS
  <2> HIDE DEF body
  <2> QED
    BY <2>1, <2>2
<1>13. \A i \in 0 .. L : \A j \in 0 .. M : table[i][j] <=> W(i, j)
  <2> DEFINE P(i) == \A j \in 0 .. M : table[i][j] <=> W(i, j)
             S == {i \in 0 .. L : P(i)}
  <2>1. ASSUME NEW i \in 0 .. L, i # 0 => P(i - 1) PROVE P(i)
    BY <1>8, <1>12, <2>1
  <2> HIDE DEF P
  <2>2. 0 \in S /\ \A i \in 1 .. L : i - 1 \in S => i \in S
    <3>1. 0 \in 0 .. L /\ \A i \in 1 .. L : i \in 0 .. L
      BY <1>1
    <3> QED
      BY <2>1, <3>1
  <2>3. \A i \in 0 .. L : i \in S
    <3> HIDE DEF S
    <3> QED
      BY <1>1, <2>2, Induct
  <2> QED
    BY <2>3 DEF P
<1>14. L \in 0 .. L /\ M \in 0 .. M
  BY <1>1
<1> QED
  BY <1>11, <1>13, <1>14 DEF W, L, M, u

LEMMA Suffix ==
    ASSUME NEW piece \in Texts, NEW v \in Texts
    PROVE  IsSuffix(piece, v) <=>
             Len(piece) <= Len(v) /\ Stands(piece, v, Len(v) - Len(piece))
<1> DEFINE n == Len(piece)
           M == Len(v)
           rp == Reverse(piece)
           rv == Reverse(v)
<1>1. /\ n \in Nat /\ M \in Nat
      /\ \A m \in 1 .. n : piece[m] \in Chars
      /\ \A m \in 1 .. M : v[m] \in Chars
  BY DEF Texts
<1>2. rp \in Texts /\ Len(rp) = n /\ \A m \in 1 .. n : rp[m] = piece[n - m + 1]
  <2>1. \A m \in 1 .. n : n - m + 1 \in 1 .. n
    BY <1>1
  <2>2. [m \in 1 .. n |-> piece[n - m + 1]] \in Seq(Chars)
    BY <1>1, <2>1
  <2> QED
    BY <1>1, <2>2 DEF Reverse, Texts
<1>3. rv \in Texts /\ Len(rv) = M /\ \A m \in 1 .. M : rv[m] = v[M - m + 1]
  <2>1. \A m \in 1 .. M : M - m + 1 \in 1 .. M
    BY <1>1
  <2>2. [m \in 1 .. M |-> v[M - m + 1]] \in Seq(Chars)
    BY <1>1, <2>1
  <2> QED
    BY <1>1, <2>2 DEF Reverse, Texts
<1> HIDE DEF rp, rv
<1>4. SubSeq(rp, 0 + 1, 0 + n) = rp
  <2>1. Stands(rp, rp, 0)
    BY <1>1, <1>2 DEF Stands
  <2> QED
    BY <1>1, <1>2, <2>1, Slice
<1>5. n <= M => (SubSeq(rv, 0 + 1, 0 + n) = rp <=> \A m \in 1 .. n : rv[m] = rp[m])
  <2>1. n <= M => (SubSeq(rv, 0 + 1, 0 + n) = rp <=> Stands(rp, rv, 0))
    BY <1>1, <1>2, <1>3, Slice
  <2>2. n <= M => (Stands(rp, rv, 0) <=> \A m \in 1 .. n : rv[m] = rp[m])
    BY <1>1, <1>2, <1>3 DEF Stands
  <2> QED
    BY <2>1, <2>2
<1>6. IsSuffix(piece, v) <=> n <= M /\ \A m \in 1 .. n : rv[m] = rp[m]
  <2>1. IsSuffix(piece, v) <=> n <= M /\ SubSeq(rp, 1, n) = SubSeq(rv, 1, n)
    BY <1>2, <1>3 DEF IsSuffix, IsPrefix, rp, rv
  <2>2. 0 + 1 = 1 /\ 0 + n = n
    BY <1>1
  <2> QED
    BY <1>4, <1>5, <2>1, <2>2
<1>7. n <= M => ((\A m \in 1 .. n : rv[m] = rp[m]) <=> \A m \in 1 .. n : v[M - n + m] = piece[m])
  <2>1. ASSUME n <= M, \A m \in 1 .. n : rv[m] = rp[m], NEW m \in 1 .. n
        PROVE  v[M - n + m] = piece[m]
    <3>1. n - m + 1 \in 1 .. n /\ n - (n - m + 1) + 1 = m
          /\ M - (n - m + 1) + 1 = M - n + m /\ n - m + 1 \in 1 .. M
      BY <1>1, <2>1
    <3> QED
      BY <1>2, <1>3, <2>1, <3>1
  <2>2. ASSUME n <= M, \A m \in 1 .. n : v[M - n + m] = piece[m], NEW m \in 1 .. n
        PROVE  rv[m] = rp[m]
    <3>1. n - m + 1 \in 1 .. n /\ M - n + (n - m + 1) = M - m + 1 /\ m \in 1 .. M
      BY <1>1, <2>2
    <3>2. v[M - n + (n - m + 1)] = piece[n - m + 1]
      BY <2>2, <3>1
    <3> QED
      BY <1>2, <1>3, <3>1, <3>2
  <2> QED
    BY <2>1, <2>2
<1>8. n <= M => (Stands(piece, v, M - n) <=> \A m \in 1 .. n : v[M - n + m] = piece[m])
  BY <1>1 DEF Stands
<1> QED
  BY <1>6, <1>7, <1>8

\* A pattern with a star has two pieces or more.
LEMMA StarSplits ==
    ASSUME NEW x \in Texts, HasStar(x), NEW s, SplitBy(s, x)
    PROVE  Len(s[Len(x)]) >= 2
<1>1. Len(x) \in Nat /\ DOMAIN x = 1 .. Len(x)
  BY DEF Texts
<1>2. PICK i \in 1 .. Len(x) : x[i] = "*"
  BY <1>1 DEF HasStar
<1>3. i \in 0 .. Len(x) /\ i - 1 \in 0 .. Len(x) /\ Len(x) \in 0 .. Len(x) /\ x[i] \in Chars
  BY <1>1 DEF Texts
<1>4. s[i - 1] \in Pieces /\ s[i] = Extend(s[i - 1], x[i])
  BY <1>1, <1>3 DEF SplitBy
<1>5. Len(s[i]) = Len(s[i - 1]) + 1 /\ Len(s[i - 1]) \in Nat \ {0}
  BY <1>2, <1>3, <1>4, Extending
<1>6. Len(s[i]) <= Len(s[Len(x)])
  BY <1>3, PiecesStay DEF Extends
<1>7. Len(s[Len(x)]) \in Nat
  BY <1>3 DEF SplitBy, Pieces
<1> QED
  BY <1>5, <1>6, <1>7

\* The last piece is found behind the others and ends the name, whenever there is room.
LEMMA LastPiece ==
    ASSUME NEW t \in Pieces, NEW v \in Texts, NEW e, EndsBy(e, t, v), Len(t) >= 2
    PROVE  e[Len(t)] # Lost /\ LastPieceFits(t[Len(t)], v) <=> Reached(t, e[Len(t) - 1], v, Len(v))
<1> DEFINE N == Len(t)
           last == t[N]
           q == e[N - 1]
           n == Len(last)
           M == Len(v)
<1>1. N \in Nat /\ last \in Texts /\ n \in Nat /\ M \in Nat /\ (N = 1) = FALSE
  BY DEF Pieces, Texts
<1>2. N - 1 \in 0 .. N /\ N \in 1 .. N
  BY <1>1
<1>3. q \in {Lost} \cup 0 .. M /\ e[N] = Behind(last, v, q, N = 1)
  BY <1>2 DEF EndsBy
<1>4. e[N] = Behind(last, v, q, FALSE)
  BY <1>1, <1>3
<1>5. e[N] \in {Lost} \cup 0 .. M /\ FitsFrom(e[N], last, v, q, FALSE)
  BY <1>1, <1>3, <1>4, FirstEnd
<1>6. e[N] # Lost <=> Fit(last, v, q, FALSE, M)
  <2>1. M \in 0 .. M /\ (e[N] # Lost => e[N] <= M)
    BY <1>1, <1>5
  <2> QED
    BY <1>5, <2>1 DEF FitsFrom
<1>7. LastPieceFits(last, v) <=> n <= M /\ Stands(last, v, M - n)
  BY <1>1, Suffix DEF LastPieceFits
<1> HIDE DEF N, last, q, n, M
<1>8. Reached(t, q, v, M) <=>
        q # Lost /\ \E a \in 0 .. M : q <= a /\ Stands(last, v, a) /\ a + n = M
  BY <1>1 DEF Reached, N, last, n, M
<1>9. Fit(last, v, q, FALSE, M) <=>
        q # Lost /\ \E a \in 0 .. M : q <= a /\ Stands(last, v, a) /\ a + n <= M
  BY DEF Fit, M, n
<1>10. ASSUME e[N] # Lost, LastPieceFits(last, v) PROVE Reached(t, q, v, M)
  <2>1. q # Lost /\ q \in 0 .. M
    BY <1>3, <1>6, <1>9, <1>10
  <2>2. PICK a \in 0 .. M : q <= a /\ a + n <= M
    BY <1>6, <1>9, <1>10
  <2>3. M - n \in 0 .. M /\ q <= M - n /\ (M - n) + n = M
    BY <1>1, <2>1, <2>2
  <2> QED
    BY <1>7, <1>8, <1>10, <2>1, <2>3
<1>11. ASSUME Reached(t, q, v, M) PROVE e[N] # Lost /\ LastPieceFits(last, v)
  <2>1. PICK a \in 0 .. M : q <= a /\ Stands(last, v, a) /\ a + n = M
    BY <1>8, <1>11
  <2>2. a = M - n /\ n <= M /\ a + n <= M
    BY <1>1, <2>1
  <2> QED
    BY <1>6, <1>7, <1>8, <1>9, <1>11, <2>1, <2>2
<1> QED
  BY <1>10, <1>11 DEF N, last, q, M

\* The only piece of a pattern without a star is the name.
LEMMA NoStar ==
    ASSUME NEW t \in Pieces, NEW x \in Texts, NEW v \in Texts, Len(t) = 1, t[1] = x
    PROVE  x = v <=> Reached(t, 0, v, Len(v))
<1>1. /\ Len(x) \in Nat /\ Len(v) \in Nat /\ 0 # Lost
      /\ x = [m \in 1 .. Len(x) |-> x[m]] /\ v = [m \in 1 .. Len(v) |-> v[m]]
  BY DEF Texts, Lost
<1>2. Reached(t, 0, v, Len(v)) <=> Stands(x, v, 0) /\ Len(x) = Len(v)
  <2>1. 0 \in 0 .. Len(v) /\ 0 <= 0 /\ 0 + Len(x) = Len(x)
    BY <1>1
  <2>2. Reached(t, 0, v, Len(v)) <=>
          \E a \in 0 .. Len(v) : 0 <= a /\ a = 0 /\ Stands(x, v, a) /\ a + Len(x) = Len(v)
    BY <1>1, Zenon DEF Reached
  <2>3. ASSUME Reached(t, 0, v, Len(v)) PROVE Stands(x, v, 0) /\ Len(x) = Len(v)
    <3>1. PICK a \in 0 .. Len(v) : a = 0 /\ Stands(x, v, a) /\ a + Len(x) = Len(v)
      BY <2>2, <2>3
    <3> QED
      BY <2>1, <3>1
  <2>4. Stands(x, v, 0) /\ Len(x) = Len(v) => Reached(t, 0, v, Len(v))
    BY <2>1, <2>2
  <2> QED
    BY <2>3, <2>4
<1>3. Stands(x, v, 0) /\ Len(x) = Len(v) => x = v
  <2> SUFFICES ASSUME Stands(x, v, 0), Len(x) = Len(v) PROVE x = v
    OBVIOUS
  <2>1. \A m \in 1 .. Len(x) : v[m] = x[m]
    BY <1>1 DEF Stands
  <2> QED
    BY <1>1, <2>1
<1>4. x = v => Stands(x, v, 0)
  BY <1>1 DEF Stands
<1> QED
  BY <1>2, <1>3, <1>4

\* What is left without the blanks around it is a text.
LEMMA Trimmed ==
    ASSUME NEW s \in Texts
    PROVE  Trim(s) \in Texts
<1> DEFINE kept == {i \in DOMAIN s : s[i] \notin Blanks}
<1>1. Len(s) \in Nat /\ DOMAIN s = 1 .. Len(s) /\ \A i \in 1 .. Len(s) : s[i] \in Chars
  BY DEF Texts
<1>2. CASE kept = {}
  BY <1>2 DEF Trim, Texts
<1>3. CASE kept # {}
  <2>1. Min(kept) \in 1 .. Len(s)
    <3>1. \E x \in kept : \A y \in kept : x <= y
      <4>1. kept \in SUBSET Nat
        BY <1>1
      <4> HIDE DEF kept
      <4> QED
        BY <1>3, <4>1, Least
    <3>2. Min(kept) \in kept
      <4> HIDE DEF kept
      <4> QED
        BY <3>1 DEF Min
    <3> QED
      BY <1>1, <3>2
  <2>2. Max(kept) \in 1 .. Len(s)
    <3> DEFINE behind == {Len(s) - i : i \in kept}
    <3>1. behind \in SUBSET Nat /\ behind # {}
      BY <1>1, <1>3
    <3>2. PICK d \in behind : \A e \in behind : d <= e
      <4> HIDE DEF behind
      <4> QED
        BY <3>1, Least
    <3>3. PICK x \in kept : d = Len(s) - x
      BY <3>2
    <3>4. \A y \in kept : x >= y
      <4>1. \A y \in kept : Len(s) - y \in behind
        OBVIOUS
      <4>2. \A y \in kept : y \in 1 .. Len(s)
        BY <1>1
      <4> HIDE DEF behind
      <4> QED
        BY <1>1, <3>2, <3>3, <4>1, <4>2
    <3>5. Max(kept) \in kept
      <4> HIDE DEF kept
      <4> QED
        BY <3>4 DEF Max
    <3> QED
      BY <1>1, <3>5
  <2> HIDE DEF kept
  <2>3. SubSeq(s, Min(kept), Max(kept)) \in Seq(Chars)
    BY <1>1, <2>1, <2>2
  <2> QED
    BY <1>3, <2>3 DEF Trim, Texts, kept
<1> QED
  BY <1>2, <1>3

\* What the search accepts is what the pattern fits.
LEMMA Matching ==
    ASSUME NEW p \in Texts, NEW v \in Texts
    PROVE  WildcardMatch(p, v) <=>
             Trim(p) # <<>> /\ Trim(v) # <<>> /\ Fits(Trim(p), Trim(v))
<1> DEFINE a == Trim(p)
           b == Trim(v)
           x == Lowered(a)
           u == Lowered(b)
           L == Len(a)
<1>0. a \in Texts /\ b \in Texts
  BY Trimmed
<1> HIDE DEF a, b
<1>1. x \in Texts /\ u \in Texts /\ Len(x) = L /\ Len(u) = Len(b) /\ L \in Nat /\ Len(b) \in Nat
  BY <1>0, Normal DEF Texts
<1>2. PICK s : SplitBy(s, x) /\ Split(x) = s[L]
  BY <1>1, Splitting
<1> DEFINE parts == s[L]
           N == Len(parts)
<1>3. parts \in Pieces /\ parts \in Seq(Texts) /\ N \in Nat \ {0}
  BY <1>1, <1>2 DEF SplitBy, Pieces
<1> DEFINE e == EndsOf(parts, u)
<1>4. EndsBy(e, parts, u)
  BY <1>1, <1>3, Ending
<1>5. WildcardMatch(p, v) <=>
        /\ x # <<>> /\ u # <<>>
        /\ IF ~HasStar(x) THEN x = u ELSE e[N] # Lost /\ LastPieceFits(parts[N], u)
  BY <1>2 DEF WildcardMatch, Normalize, EndsOf, a, b
<1> HIDE DEF e
<1>6. Fits(a, b) <=> Reached(parts, e[N - 1], u, Len(u))
  BY <1>0, <1>1, <1>2, <1>4, Rows
<1>7. (x # <<>> <=> a # <<>>) /\ (u # <<>> <=> b # <<>>)
  <2>1. /\ x # <<>> <=> Len(x) # 0
        /\ a # <<>> <=> Len(a) # 0
        /\ u # <<>> <=> Len(u) # 0
        /\ b # <<>> <=> Len(b) # 0
    BY <1>0, <1>1 DEF Texts
  <2> QED
    BY <1>1, <2>1
<1>8. HasStar(x) => (WildcardMatch(p, v) <=> a # <<>> /\ b # <<>> /\ Fits(a, b))
  <2> SUFFICES ASSUME HasStar(x) PROVE WildcardMatch(p, v) <=> a # <<>> /\ b # <<>> /\ Fits(a, b)
    OBVIOUS
  <2>1. N >= 2
    BY <1>1, <1>2, StarSplits
  <2>2. e[N] # Lost /\ LastPieceFits(parts[N], u) <=> Reached(parts, e[N - 1], u, Len(u))
    BY <1>1, <1>3, <1>4, <2>1, LastPiece
  <2> QED
    BY <1>5, <1>6, <1>7, <2>2
<1>9. ~HasStar(x) => (WildcardMatch(p, v) <=> a # <<>> /\ b # <<>> /\ Fits(a, b))
  <2> SUFFICES ASSUME ~HasStar(x) PROVE WildcardMatch(p, v) <=> a # <<>> /\ b # <<>> /\ Fits(a, b)
    OBVIOUS
  <2>1. N = 1 /\ parts[1] = x
    BY <1>1, <1>2, OnePiece
  <2>2. e[N - 1] = 0
    BY <1>4, <2>1 DEF EndsBy
  <2>3. x = u <=> Reached(parts, e[N - 1], u, Len(u))
    BY <1>1, <1>3, <2>1, <2>2, NoStar
  <2> QED
    BY <1>5, <1>6, <1>7, <2>3
<1> QED
  BY <1>8, <1>9 DEF a, b

\* Whatever the patterns and the names: the search for pieces, one behind the other and
\* each where it is first found, finds a match whenever there is one (filters.wildcardMatch).
THEOREM SearchFits == PSpec => []WildcardsFit
<1>1. FileOK => WildcardsFit
  <2> SUFFICES ASSUME FileOK, NEW p \in Listed(cfg), NEW v \in Names
               PROVE  WildcardMatch(p, v) <=>
                        Trim(p) # <<>> /\ Trim(v) # <<>> /\ Fits(Trim(p), Trim(v))
    BY DEF WildcardsFit
  <2>1. p \in Texts /\ v \in Texts
    BY ProjectionAssumption DEF FileOK, Texts, Chars
  <2> QED
    BY <2>1, Matching
<1> QED
  BY <1>1, FileIsWhole, PTL
=============================================================================
