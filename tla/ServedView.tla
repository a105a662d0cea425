----------------------------- MODULE ServedView -----------------------------
(* What one Neovim session shows, counts and announces (lua/radar/init.lua) *)
(* of what the daemon serves (server.handle).  Requests run side by side:   *)
(* each is a process of its own, and its answer is used when it comes.      *)
(* Collections, resets by other clients and edits of filters.json go on     *)
(* meanwhile.                                                               *)
EXTENDS Views

CONSTANTS Things,     \* what tasks are about
          Urgency,    \* thing -> the attention its task is collected with
          Droppable,  \* things whose task an acknowledgement removes
          Calmed,     \* things it makes in_progress: the user's own pull requests
                      \* without unresolved review threads
          Configs,    \* contents of filters.json: what is muted, what is lowered
          Broken,     \* a filters.json that cannot be read
          Requests,   \* requests under way at a time
          MaxChanges, \* bound: collections and edits
          MaxAcks,    \* bound: acknowledgements
          MaxFaults   \* bound: requests without an answer

ASSUME ServedAssumption ==
    /\ IsFiniteSet(Things) /\ Urgency \in [Things -> Attentions]
    /\ Droppable \cap Calmed = {}
    /\ Configs \subseteq [mute : SUBSET Things, low : SUBSET Things]

VARIABLES
    held,    \* the store's list
    cfg,     \* filters.json
    req,     \* the requests
    items,   \* the plugin's state.items
    summary, \* the plugin's state.summary
    seen,    \* the plugin's seen_items; Unknown before the first list
    changes, acks, faults,
    last,    \* history: the list that fetch used last
    steady,  \* history: tasks that have been in the view since fetch listed them
    fromAck  \* history: the list shown is that of an ack
env == <<held, cfg, changes>>
client == <<items, summary, seen>>
history == <<last, steady, fromAck>>
vars == <<held, cfg, req, items, summary, seen, changes, acks, faults, last, steady, fromAck>>

Unknown == {0}   \* seen_items_initialized is false; IDs start with 1
Task(thing, id) == [id |-> id, thing |-> thing, attention |-> Urgency[thing]]
IdsOf(list) == {list[i].id : i \in DOMAIN list}
Named(list) == {[id |-> list[i].id, thing |-> list[i].thing] : i \in DOMAIN list}

\* filteredTasks: with a file that cannot be read, everything is served.
Action(t, c) == IF t.thing \in c.mute THEN "mute" ELSE IF t.thing \in c.low THEN "deprioritize" ELSE "keep"
Filtered(list, c) == IF c = Broken THEN list ELSE ApplyActions(list, [i \in DOMAIN list |-> Action(list[i], c)])
View == Filtered(held, cfg)

Idle == [at |-> "idle"]
Init ==
    /\ held = <<>> /\ cfg \in Configs
    /\ req = [r \in Requests |-> Idle]
    /\ items = <<>> /\ summary = Summary(<<>>) /\ seen = Unknown
    /\ changes = 0 /\ acks = 0 /\ faults = 0
    /\ last = <<>> /\ steady = {} /\ fromAck = FALSE

----------------------------------------------------------------------------
(* The daemon.                                                              *)
Lists == {s \in SeqOf(Things, Cardinality(Things)) : IsInjective(s)}
\* mutant
FreshFromZero(old, n) == Max(IdsOf(old) \cup {0}) + n - 1
Fresh(old, n) == Max(IdsOf(old) \cup {0}) + n
\* assignTaskIDs: a task keeps its ID; others get IDs above all that there were.
Assigned(things, old) ==
    LET of(thing) == {t \in ToSet(old) : t.thing = thing}
        new == {i \in DOMAIN things : of(things[i]) = {}}
        id(i) == IF i \in new THEN Fresh(old, Cardinality({j \in new : j <= i}))
                 ELSE (CHOOSE t \in of(things[i]) : TRUE).id
    IN  [i \in DOMAIN things |-> Task(things[i], id(i))]
StillSteady == steady' = steady \cap Named(View')
\* A collection; after a reset it starts from nothing.
Collect ==
    /\ changes < MaxChanges
    /\ \E things \in Lists, old \in {held, <<>>} : held' = Assigned(things, old)
    /\ held' # held
    /\ changes' = changes + 1
    /\ UNCHANGED <<cfg, req, client, acks, faults, last, fromAck>>
    /\ StillSteady
Edit ==
    /\ changes < MaxChanges
    /\ cfg' \in (Configs \cup {Broken}) \ {cfg}
    /\ changes' = changes + 1
    /\ UNCHANGED <<held, req, client, acks, faults, last, fromAck>>
    /\ StillSteady

\* `tasks`: the list is copied, then the file is read.
Copy(r) ==
    /\ req[r].at = "sent"
    /\ req' = [req EXCEPT ![r] = [at |-> "copied", retried |-> req[r].retried, list |-> held, crossed |-> FALSE]]
    /\ UNCHANGED <<env, client, acks, faults, history>>
\* mutant
CountedAll(copied, served) == Summary(copied)
Counted(copied, served) == Summary(served)
Filter(r) ==
    /\ req[r].at = "copied"
    /\ \E served \in {Filtered(req[r].list, cfg)} :
          req' = [req EXCEPT ![r] = [at |-> "answer", retried |-> req[r].retried, list |-> served,
                                     count |-> Counted(req[r].list, served), crossed |-> req[r].crossed]]
    /\ UNCHANGED <<env, client, acks, faults, history>>

\* `ack`: Acknowledge, then the summary, then the list, neither of them filtered.
AckedTask(t) ==
    IF t.thing \in Droppable THEN <<>>
    ELSE IF t.thing \in Calmed THEN <<[t EXCEPT !.attention = "in_progress"]>>
    ELSE <<t>>
Acknowledged(list, id) ==
    FlattenSeq([i \in DOMAIN list |-> IF list[i].id = id THEN AckedTask(list[i]) ELSE <<list[i]>>])
Acknowledge(r) ==
    /\ req[r].at = "ack"
    /\ held' = Acknowledged(held, req[r].id)
    /\ req' = [req EXCEPT ![r] = [at |-> "acked"]]
    /\ UNCHANGED <<cfg, changes, client, acks, faults, last, fromAck>>
    /\ StillSteady
AckSummary(r) ==
    /\ req[r].at = "acked"
    /\ req' = [req EXCEPT ![r] = [at |-> "ackCount", count |-> Summary(held)]]
    /\ UNCHANGED <<env, client, acks, faults, history>>
AckTasks(r) ==
    /\ req[r].at = "ackCount"
    /\ req' = [req EXCEPT ![r] = [at |-> "ackAnswer", count |-> req[r].count, list |-> held]]
    /\ UNCHANGED <<env, client, acks, faults, history>>

----------------------------------------------------------------------------
(* The plugin.                                                              *)
Send(r) ==
    /\ req[r].at = "idle"
    /\ req' = [req EXCEPT ![r] = [at |-> "sent", retried |-> FALSE]]
    /\ UNCHANGED <<env, client, acks, faults, history>>
\* <CR> on a line.
SendAck(r) ==
    /\ req[r].at = "idle" /\ acks < MaxAcks
    /\ \E id \in IdsOf(items) : req' = [req EXCEPT ![r] = [at |-> "ack", id |-> id]]
    /\ acks' = acks + 1
    /\ UNCHANGED <<env, client, faults, history>>

\* The radar command fails: fetch tries once more, the acknowledgement does not.
Fail(r) ==
    /\ req[r].at # "idle" /\ faults < MaxFaults
    /\ faults' = faults + 1
    /\ req' = [req EXCEPT ![r] = IF req[r].at \in {"sent", "copied", "answer"} /\ ~req[r].retried
                                 THEN [at |-> "sent", retried |-> TRUE] ELSE Idle]
    /\ UNCHANGED <<env, client, acks, history>>

\* Answers under way when another one is used have crossed with it.
Underway(q) == req[q].at \in {"copied", "answer"}
AfterUse(r) ==
    [q \in Requests |-> IF q = r THEN Idle
                        ELSE IF Underway(q) THEN [req[q] EXCEPT !.crossed = TRUE] ELSE req[q]]
\* notify_new_items
Announced(list) == {t \in ToSet(list) : seen # Unknown /\ t.id \notin seen}
\* mutant
SeenLast(list) == {t.id : t \in Announced(list)}
Seen(list) == IdsOf(list)
\* mutant
ShownUnlessEmpty(list) == IF list = <<>> THEN items ELSE list
Shown(list) == list
UseAnswer(r) ==
    /\ req[r].at = "answer"
    /\ summary' = req[r].count
    /\ items' = Shown(req[r].list)
    /\ seen' = Seen(req[r].list)
    /\ req' = AfterUse(r)
    /\ last' = req[r].list
    /\ steady' = (Named(req[r].list) \cup IF req[r].crossed THEN {} ELSE steady) \cap Named(View)
    /\ fromAck' = FALSE
    /\ UNCHANGED <<env, acks, faults>>
\* mutant
SeenAfterAck(list) == IdsOf(list)
StillSeen(list) == seen
UseAck(r) ==
    /\ req[r].at = "ackAnswer"
    /\ summary' = req[r].count
    /\ items' = req[r].list
    /\ seen' = StillSeen(req[r].list)
    /\ req' = [req EXCEPT ![r] = Idle]
    /\ fromAck' = TRUE
    /\ UNCHANGED <<env, acks, faults, last, steady>>

Serve(r) == Copy(r) \/ Filter(r) \/ Acknowledge(r) \/ AckSummary(r) \/ AckTasks(r)
Use(r) == UseAnswer(r) \/ UseAck(r)
Next ==
    \/ Collect \/ Edit
    \/ \E r \in Requests : Serve(r) \/ Send(r) \/ SendAck(r) \/ Fail(r) \/ Use(r)
Spec == Init /\ [][Next]_vars
\* The timer polls, the daemon answers, vim.schedule runs the callback.
Progress(r) == Send(r) \/ Serve(r) \/ Use(r)
FairSpec == Spec /\ \A r \in Requests : WF_vars(Progress(r))

----------------------------------------------------------------------------
(* What is listed are tasks with IDs from 1 on, at every stage of a request *)
(* and in the plugin; what is counted and seen fits them.                   *)
Tasks == [id : Nat \ {0}, thing : Things, attention : Attentions]
Counts == [Attentions -> Nat]
States ==
    [at : {"idle", "acked"}] \cup [at : {"sent"}, retried : BOOLEAN]
    \cup [at : {"copied"}, retried : BOOLEAN, list : Seq(Tasks), crossed : BOOLEAN]
    \cup [at : {"answer"}, retried : BOOLEAN, list : Seq(Tasks), count : Counts, crossed : BOOLEAN]
    \cup [at : {"ack"}, id : Nat \ {0}] \cup [at : {"ackCount"}, count : Counts]
    \cup [at : {"ackAnswer"}, count : Counts, list : Seq(Tasks)]
TypeOK ==
    /\ held \in Seq(Tasks) /\ cfg \in Configs \cup {Broken}
    /\ req \in [Requests -> States]
    /\ items \in Seq(Tasks) /\ summary \in Counts
    /\ seen = Unknown \/ seen \subseteq Nat \ {0}
    /\ last \in Seq(Tasks) /\ steady \subseteq [id : Nat \ {0}, thing : Things]

(* What is counted is what is shown, although tasks, summary and filters    *)
(* are read one after the other, unless an ack has answered last, which     *)
(* reads its summary and its list from the store one after the other.       *)
CountsMatchItems == fromAck \/ summary = Summary(items)

(* A list announces every task whose ID was not in the list before, even if *)
(* an ack has shown it meanwhile; and it announces nothing twice that has   *)
(* stayed in the view since, unless answers have crossed in between.        *)
AnnouncedOnce ==
    [][\A r \in Requests : UseAnswer(r) /\ seen # Unknown =>
          \A t \in ToSet(req[r].list) :
              /\ t.id \notin IdsOf(last) => t \in Announced(req[r].list)
              /\ [id |-> t.id, thing |-> t.thing] \in steady => t \notin Announced(req[r].list)]_vars

(* When the changes end, the session comes to show what the daemon serves.  *)
Converges == <>[](items = View /\ summary = Summary(items))
============================================================================
