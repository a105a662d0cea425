------------------------------ MODULE PullRequest ------------------------------
(***************************************************************************)
(* One pull request of the user, from collection to collection: how        *)
(* internal/github turns GitHub's answers and the acknowledgements of the  *)
(* previous tasks into an own or a done task, and what Acknowledge of      *)
(* internal/state changes meanwhile.  GitHub changes between any two calls *)
(* of a collection.                                                        *)
(*                                                                         *)
(* Times are the RFC 3339 strings of the code, which it compares; 0 is the *)
(* empty string.  The Metadata maps are shared by the previous tasks and   *)
(* the store, so a collection reads the acknowledgements of the moment;    *)
(* the pull request has a description, so that its ref has a map.          *)
(***************************************************************************)
EXTENDS Naturals, FiniteSets, FiniteSetsExt

CONSTANTS
    Day,          \* the length of a day
    MaxTime,      \* bound on the clock
    MaxComments,  \* bound on the number of comments
    MaxDone       \* bound on the done tasks with which it is opened again

ASSUME PullRequestAssumption ==
    /\ Day \in Nat \ {0} /\ MaxTime \in Nat \ {0}
    /\ MaxComments \in Nat /\ MaxDone \in Nat

VARIABLES
    clock,
    open,       \* GitHub: is the pull request open?
    closedAt,   \* GitHub: when it was last closed
    comments,   \* GitHub: times of the comments and reviews of others
    threads,    \* GitHub: has it unresolved review threads of others?
    own,        \* the store: its own task, or none
    done,       \* the store: its done tasks
    pc,         \* where the collection is
    answer,     \* what the query said of it, if it was in the answer
    found,      \* the task made of that
    kept,       \* the done tasks that stay, by their DoneAt
    closing,    \* the DoneAt of the new done task, if any
    acked,      \* history: what the user has acknowledged in time
    known,      \* history: the comments behind the own task
    pending,    \* history: today's closing that a collection had to resolve, or 0
    faulty      \* history: did a call of that collection fail?

remote == <<open, closedAt, comments, threads>>
collection == <<answer, found, kept, closing>>
history == <<acked, known, pending, faulty>>
vars == <<clock, remote, own, done, pc, collection, history>>

Answers == [comments : SUBSET Nat, threads : BOOLEAN]

\* ack and latest are general_comments_ack_at and latest_general_comment_at.
OwnTask == [attention : {"attention", "in_progress"}, threads : BOOLEAN,
            ack : Nat, latest : Nat]
DoneTask == [at : Nat, ack : Nat, latest : Nat]

TypeOK ==
    /\ clock \in 1 .. MaxTime
    /\ open \in BOOLEAN /\ threads \in BOOLEAN
    /\ closedAt \in Nat
    /\ comments \subseteq 1 .. MaxTime
    /\ \A t \in own : t \in OwnTask
    /\ \A d \in done : d \in DoneTask
    /\ Cardinality(own) <= 1 /\ Cardinality(answer) <= 1
    /\ Cardinality(found) <= 1 /\ Cardinality(closing) <= 1
    /\ pc \in {"idle", "query", "read", "resolve", "keep", "install"}
    /\ \A a \in answer : a \in Answers
    /\ \A t \in found : t \in OwnTask
    /\ kept \subseteq Nat /\ closing \subseteq Nat

Latest(times) == Max(times \cup {0})

IsToday(time) == time # 0 /\ time \div Day = clock \div Day

-----------------------------------------------------------------------------
(* GitHub and its users.                                                   *)

Elapse ==
    /\ clock < MaxTime
    /\ clock' = clock + 1
    /\ pending' = IF clock' % Day = 0 THEN 0 ELSE pending
    /\ UNCHANGED <<remote, own, done, pc, collection, acked, known, faulty>>

Comment ==
    /\ Cardinality(comments) < MaxComments
    /\ comments' = comments \cup {clock}
    /\ UNCHANGED <<clock, open, closedAt, threads, own, done, pc, collection, history>>

Thread ==
    /\ threads' = ~threads
    /\ UNCHANGED <<clock, open, closedAt, comments, own, done, pc, collection, history>>

Close ==
    /\ open
    /\ open' = FALSE /\ closedAt' = clock
    /\ UNCHANGED <<clock, comments, threads, own, done, pc, collection, history>>

Reopen ==
    /\ ~open /\ Cardinality(done) < MaxDone
    /\ open' = TRUE
    /\ pending' = 0
    /\ UNCHANGED <<clock, closedAt, comments, threads, own, done, pc, collection,
                   acked, known, faulty>>

-----------------------------------------------------------------------------
(* A collection.                                                           *)

Begin ==
    /\ pc = "idle"
    /\ pc' = "query"
    /\ \/ /\ own # {} /\ ~open /\ IsToday(closedAt)
          /\ pending' = closedAt /\ faulty' = FALSE
       \/ /\ ~(own # {} /\ ~open /\ IsToday(closedAt))
          /\ UNCHANGED <<pending, faulty>>
    /\ UNCHANGED <<clock, remote, own, done, collection, acked, known>>

\* The resetter forgets every task and collects without previous ones.
Reset ==
    /\ pc = "idle"
    /\ own' = {} /\ done' = {}
    /\ pc' = "query"
    /\ acked' = 0 /\ known' = {} /\ pending' = 0
    /\ UNCHANGED <<clock, remote, collection, faulty>>

\* The answer to pullRequestsGraphQLQuery; it holds open pull requests only.
Query ==
    /\ pc = "query"
    /\ answer' = IF open THEN {[comments |-> comments, threads |-> threads]} ELSE {}
    /\ pc' = "read"
    /\ UNCHANGED <<clock, remote, own, done, found, kept, closing, history>>

Failed == faulty' = (faulty \/ (own # {} /\ pending # 0))

\* GitHub is paused, or the query or the request of the login fails: the
\* collection goes on without pull requests.
Skip ==
    /\ pc \in {"query", "read"}
    /\ found' = {}
    /\ pc' = "keep"
    /\ Failed
    /\ UNCHANGED <<clock, remote, own, done, answer, kept, closing, acked, known,
                   pending>>

\* activityStateFromPrevious: the latest acknowledgement of any previous task.
AckOfOwn == Latest({t.ack : t \in own})
PreviousAck == Latest({t.ack : t \in own} \cup {d.ack : d \in done})

\* detectActivity: comments later than the acknowledgement are new.
NewOrSameComments(a) == {c \in a.comments : c >= PreviousAck}
NewComments(a) == {c \in a.comments : c > PreviousAck}

\* authoredPullRequestTasks, applyActivity and setActivityMetadata.
Projected(a) ==
    [attention |-> IF a.threads \/ NewComments(a) # {} THEN "attention" ELSE "in_progress",
     threads   |-> a.threads,
     ack       |-> PreviousAck,
     latest    |-> Latest(NewComments(a))]

ReadPrevious ==
    /\ pc = "read"
    /\ found' = {Projected(a) : a \in answer}
    /\ pc' = "resolve"
    /\ UNCHANGED <<clock, remote, own, done, answer, kept, closing, history>>

\* The done tasks that stay: those of today.
TodaysDone == {d.at : d \in {d \in done : IsToday(d.at)}}

\* The own task has no active successor, even if it has been done before.
VanishedOnce == own # {} /\ found = {} /\ done = {}
Vanished == own # {} /\ found = {}

\* ResolveDonePullRequests fetches a vanished pull request, which may have been
\* opened again since the query, and keeps it only if it was closed today.
Resolve ==
    /\ pc = "resolve"
    /\ kept' = TodaysDone
    /\ closing' = IF Vanished /\ ~open /\ IsToday(closedAt) THEN {closedAt} ELSE {}
    /\ pc' = "install"
    /\ UNCHANGED <<clock, remote, own, done, answer, found, history>>

\* keepTodaysDoneTasks after an incomplete collection or without core budget;
\* a failed fetch comes to the same.
KeepOnly ==
    /\ pc \in {"resolve", "keep"}
    /\ kept' = TodaysDone
    /\ closing' = {}
    /\ pc' = "install"
    /\ Failed
    /\ UNCHANGED <<clock, remote, own, done, answer, found, acked, known, pending>>

\* SetTasks.  The new done task has the maps of the own task it replaces.
Install ==
    /\ pc = "install"
    /\ own' = found
    /\ done' = {d \in done : d.at \in kept} \cup
               {[at |-> time, ack |-> t.ack, latest |-> t.latest] :
                   time \in closing, t \in own}
    /\ known' = UNION {a.comments : a \in IF found = {} THEN {} ELSE answer}
    /\ acked' = IF found = {} /\ closing = {} /\ (own # {} \/ kept = {})
                THEN 0 ELSE acked
    /\ pc' = "idle"
    /\ answer' = {} /\ found' = {} /\ kept' = {} /\ closing' = {}
    /\ UNCHANGED <<clock, remote, pending, faulty>>

-----------------------------------------------------------------------------
(* Acknowledge.                                                            *)

\* The acknowledged time: that of the latest new comment, or else this moment.
AckTime(t) == IF t.latest # 0 THEN t.latest ELSE clock

\* What of the own task is overwritten by the collection under way.
Overtaken == pc \in {"resolve", "install"} /\ found # {}

Acknowledged(t) == [t EXCEPT !.ack = AckTime(t),
                             !.attention = IF t.threads THEN @ ELSE "in_progress"]

\* The loop puts the changed task in the place of the old one.
AddedTo(t) == {t, Acknowledged(t)}
Replacing(t) == {Acknowledged(t)}

AcknowledgeOwn ==
    /\ \E t \in own :
          /\ own' = Replacing(t)
          /\ acked' = IF Overtaken THEN acked ELSE Latest({acked, AckTime(t)})
    /\ UNCHANGED <<clock, remote, done, pc, collection, known, pending, faulty>>

AcknowledgeDone ==
    /\ \E d \in done :
          done' = (done \ {d}) \cup {[d EXCEPT !.ack = AckTime(d)]}
    /\ UNCHANGED <<clock, remote, own, pc, collection, history>>

-----------------------------------------------------------------------------
Init ==
    /\ clock = 1
    /\ open = TRUE /\ closedAt = 0 /\ comments = {} /\ threads = FALSE
    /\ own = {} /\ done = {}
    /\ pc = "idle"
    /\ answer = {} /\ found = {} /\ kept = {} /\ closing = {}
    /\ acked = 0 /\ known = {} /\ pending = 0 /\ faulty = FALSE

Next ==
    \/ Elapse \/ Comment \/ Thread \/ Close \/ Reopen
    \/ Begin \/ Reset \/ Query \/ Skip \/ ReadPrevious \/ Resolve \/ KeepOnly \/ Install
    \/ AcknowledgeOwn \/ AcknowledgeDone

Spec == Init /\ [][Next]_vars

-----------------------------------------------------------------------------
(* Properties.                                                             *)

\* What the user has acknowledged stays acknowledged, from one own task to the
\* next and, through a done task of the same day, to that of a pull request
\* opened again; only an acknowledgement that the collection under way has
\* overtaken, a reset, or a collection that lost the task, takes it back.
\* (activityStateFromPrevious, donePullRequestSourceRefs.)
AcksSurvive == \A t \in own : t.ack >= acked

\* The own task asks for attention if and only if there is an unresolved thread
\* or a comment, among those its collection saw, later than its acknowledgement.
\* (applyActivity and Acknowledge, which change the two independently.)
UnreadGetsAttention ==
    \A t \in own :
        t.attention = "attention" <=> t.threads \/ \E c \in known : c > t.ack

\* Once a collection has begun after a tracked pull request was closed today, and
\* none of its calls has failed, the pull request is done when the collection is
\* over, and stays so for the day or until it is opened again or the user resets,
\* whatever fails in later ones.  (ResolveDonePullRequests, keepTodaysDoneTasks.)
Resolved == \E d \in done : d.at = pending
ClosedBecomesDone == pc = "idle" /\ pending # 0 /\ ~faulty => Resolved
=============================================================================
