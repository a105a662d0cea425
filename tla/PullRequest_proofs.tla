------------------------- MODULE PullRequest_proofs -------------------------
(***************************************************************************)
(* Theorems about PullRequest, for days of any length and any number of    *)
(* comments, closings and collections: acknowledgements survive, what is   *)
(* unread gets attention, and a closing becomes done.                      *)
(***************************************************************************)
EXTENDS PullRequest, TLAPS, FiniteSetTheorems, WellFoundedInduction

-----------------------------------------------------------------------------
(* The inductive invariant.                                                *)

Types == TypeOK /\ acked \in Nat /\ pending \in Nat /\ faulty \in BOOLEAN

Single(S) == \A x, y \in S : x = y
AtMostOne == Single(own) /\ Single(answer) /\ Single(found) /\ Single(closing)

\* What a collection has found so far agrees with where it is.
Places ==
    /\ pc \in {"idle", "query"} => answer = {}
    /\ pc \notin {"resolve", "install"} => found = {}
    /\ found # {} => answer # {}
    /\ pc # "install" => kept = {} /\ closing = {}
    /\ closing # {} => own # {} /\ found = {}

Tasks == own \cup found \cup done

\* Nothing is of the future, and the done tasks are of earlier closings.
Past ==
    /\ comments \subseteq 1 .. clock /\ known \subseteq 1 .. clock
    /\ \A a \in answer : a.comments \subseteq 1 .. clock
    /\ \A t \in Tasks : t.ack <= clock /\ t.latest <= clock
    /\ closedAt <= clock
    /\ \A d \in done : d.at <= closedAt
    /\ \A c \in closing : c <= closedAt /\ \A d \in done : d.at <= c

\* What is new is newer than what is acknowledged.
AckBeforeLatest == \A t \in Tasks : t.latest = 0 \/ t.ack <= t.latest

\* A task asks for attention as the comments behind it say, and knows the latest of
\* those it has not acknowledged.
Fits(t, times) ==
    /\ t.attention = "attention" <=> t.threads \/ \E c \in times : c > t.ack
    /\ t.latest # 0 => \A c \in times : c <= t.latest
Fitting ==
    /\ \A t \in own : Fits(t, known)
    /\ \A t \in found, a \in answer : Fits(t, a.comments)

\* Where the acknowledgement is when there is no own task: in the newest done one.
Newest(d) == \A e \in done : e.at <= d.at
AckKept ==
    /\ AcksSurvive
    /\ \A t \in found : t.ack >= acked
    /\ own = {} /\ acked # 0 => \E d \in done : Newest(d) /\ d.ack >= acked

\* With a done task every later one is kept.
Ats == {d.at : d \in done}
KeptUpward ==
    pc = "install" => /\ kept \subseteq Ats
                      /\ \A x \in kept, y \in Ats : x <= y => y \in kept

\* A closing that has to be found is the last one, of today, and no collection that
\* began after it has the pull request in its answer.
PendingIsNow ==
    pending # 0 => /\ ~open /\ closedAt = pending /\ IsToday(pending)
                   /\ pc # "query" => answer = {}

\* It is found already, or is about to be.
PendingOnItsWay ==
    pending # 0 /\ ~faulty =>
        CASE pc = "install" -> pending \in kept \cup closing
          [] pc \in {"idle", "keep"} -> pending \in Ats
          [] OTHER -> pending \in Ats \/ own # {}

IInv ==
    /\ Types /\ AtMostOne /\ Places /\ Past /\ AckBeforeLatest
    /\ Fitting /\ AckKept /\ KeptUpward /\ PendingIsNow /\ PendingOnItsWay

USE DEF IInv, remote, collection, history

-----------------------------------------------------------------------------
(* The latest of some times, days, and sets of at most one element.        *)

Less == {p \in Nat \X Nat : p[1] < p[2]}

LEMMA LessWellFounded == IsWellFoundedOn(Less, Nat)
  BY NatLessThanWellFounded DEF OpToRel, Less

LEMMA LatestIsMax ==
    ASSUME NEW n \in Nat, NEW S \in SUBSET (0 .. n)
    PROVE  /\ Latest(S) \in S \cup {0} /\ Latest(S) \in 0 .. n
           /\ \A x \in S : x <= Latest(S)
<1> DEFINE U == S \cup {0}
           T == {n - x : x \in U}
<1>1. T \subseteq Nat /\ T # {}
  <2>1. n - 0 \in T
    OBVIOUS
  <2> QED
    BY <2>1
<1>2. PICK m \in T : \A y \in T : ~ (<<y, m>> \in Less)
  <2> HIDE DEF T
  <2> QED
    BY <1>1, LessWellFounded, WFMin, Zenon
<1>3. \A y \in T : ~(y < m)
  BY <1>1, <1>2 DEF Less
<1>4. \E x \in U : \A y \in U : x >= y
  BY <1>3
<1>5. Latest(S) = CHOOSE x \in U : \A y \in U : x >= y
  BY DEF Latest, Max
<1>6. Latest(S) \in U /\ \A y \in U : Latest(S) >= y
  BY <1>4, <1>5
<1>7. U \subseteq 0 .. n
  OBVIOUS
<1> QED
  BY <1>6, <1>7

LEMMA SameDay ==
    ASSUME NEW time \in Nat, NEW D \in Nat \ {0}, (time + 1) % D # 0
    PROVE  (time + 1) \div D = time \div D
  OBVIOUS

LEMMA LaterDay ==
    ASSUME NEW x \in Nat, NEW y \in Nat, x <= y, NEW D \in Nat \ {0}
    PROVE  x \div D \in Nat /\ x \div D <= y \div D
  OBVIOUS

LEMMA SingleIsSmall == ASSUME NEW S, Single(S) PROVE Cardinality(S) <= 1
<1>1. CASE S = {}
  BY <1>1, FS_EmptySet
<1>2. CASE S # {}
  <2>1. PICK x \in S : S = {x}
    BY <1>2 DEF Single
  <2> QED
    BY <2>1, FS_Singleton
<1> QED
  BY <1>1, <1>2

-----------------------------------------------------------------------------
(* GitHub and its users.                                                   *)

LEMMA InitInv == Init => IInv
<1> SUFFICES ASSUME Init PROVE IInv
  OBVIOUS
<1>1. Types
  <2>1. open \in BOOLEAN /\ threads \in BOOLEAN /\ faulty \in BOOLEAN
    BY DEF Init
  <2>2. Cardinality({}) <= 1
    BY FS_EmptySet
  <2> QED
    BY <2>1, <2>2, PullRequestAssumption DEF Init, Types, TypeOK
<1>2. AtMostOne /\ Places /\ Past /\ AckBeforeLatest /\ Fitting /\ KeptUpward
  BY DEF Init, AtMostOne, Single, Places, Past, Tasks, AckBeforeLatest, Fitting, KeptUpward
<1>3. AckKept /\ PendingIsNow /\ PendingOnItsWay
  BY DEF Init, AckKept, AcksSurvive, PendingIsNow, PendingOnItsWay
<1> QED
  BY <1>1, <1>2, <1>3

\* Midnight lets go of what was closed the day before.
LEMMA ElapseInv ==
    ASSUME IInv, Elapse PROVE IInv'
<1>1. Types' /\ clock \in Nat
  BY PullRequestAssumption DEF Elapse, Types, TypeOK
<1>2. AtMostOne' /\ Places' /\ AckBeforeLatest' /\ Fitting' /\ AckKept' /\ KeptUpward'
  BY DEF Elapse, AtMostOne, Single, Places, Tasks, AckBeforeLatest, Fitting, Fits,
     AckKept, AcksSurvive, Newest, KeptUpward, Ats
<1>3. Past'
  <2>1. 1 .. clock \subseteq 1 .. clock'
    BY <1>1 DEF Elapse
  <2>2. \A t \in Tasks : t.ack \in Nat /\ t.latest \in Nat
    BY DEF Tasks, Types, TypeOK, OwnTask, DoneTask
  <2> QED
    BY <1>1, <2>1, <2>2 DEF Elapse, Past, Tasks, Types, TypeOK
<1>4. PendingIsNow'
  <2>1. ASSUME pending' # 0 PROVE IsToday(pending)'
    <3>1. pending' = pending /\ (clock + 1) % Day # 0 /\ IsToday(pending)
      BY <2>1 DEF Elapse, PendingIsNow
    <3> QED
      BY <1>1, <3>1, SameDay, PullRequestAssumption DEF Elapse, IsToday
  <2> QED
    BY <2>1 DEF Elapse, PendingIsNow
<1>5. PendingOnItsWay'
  BY DEF Elapse, PendingOnItsWay, Ats
<1> QED
  BY <1>1, <1>2, <1>3, <1>4, <1>5

LEMMA CommentInv ==
    ASSUME IInv, Comment \/ Thread PROVE IInv'
<1>1. Types'
  BY DEF Comment, Thread, Types, TypeOK
<1>2. AtMostOne' /\ Places' /\ AckBeforeLatest' /\ Fitting' /\ AckKept' /\ KeptUpward'
  BY DEF Comment, Thread, AtMostOne, Single, Places, Tasks, AckBeforeLatest, Fitting, Fits,
     AckKept, AcksSurvive, Newest, KeptUpward, Ats
<1>3. Past'
  <2>1. comments' \subseteq 1 .. clock
    <3>1. clock \in 1 .. clock
      BY PullRequestAssumption DEF Types, TypeOK
    <3>2. comments' \subseteq comments \cup {clock}
      BY DEF Comment, Thread
    <3> QED
      BY <3>1, <3>2 DEF Past
  <2> QED
    BY <2>1 DEF Comment, Thread, Past, Tasks
<1>4. PendingIsNow' /\ PendingOnItsWay'
  BY DEF Comment, Thread, PendingIsNow, PendingOnItsWay, IsToday, Ats
<1> QED
  BY <1>1, <1>2, <1>3, <1>4

\* While a closing is pending the pull request is closed.
LEMMA CloseInv ==
    ASSUME IInv, Close \/ Reopen PROVE IInv'
<1>1. Types'
  <2>1. open' \in BOOLEAN
    BY DEF Close, Reopen
  <2>2. closedAt' \in Nat /\ pending' \in Nat
    BY PullRequestAssumption DEF Close, Reopen, Types, TypeOK
  <2> QED
    BY <2>1, <2>2 DEF Close, Reopen, Types, TypeOK
<1>2. AtMostOne' /\ Places' /\ AckBeforeLatest' /\ Fitting' /\ AckKept' /\ KeptUpward'
  BY DEF Close, Reopen, AtMostOne, Single, Places, Tasks, AckBeforeLatest, Fitting, Fits,
     AckKept, AcksSurvive, Newest, KeptUpward, Ats
<1>3. Past'
  <2>1. closedAt <= closedAt' /\ closedAt' <= clock /\ closedAt' \in Nat
    BY PullRequestAssumption DEF Close, Reopen, Past, Types, TypeOK
  <2>2. \A d \in done : d.at <= closedAt'
    BY <2>1 DEF Past, Types, TypeOK, DoneTask
  <2>3. \A c \in closing : c <= closedAt'
    <3>1. \A c \in closing : c \in Nat /\ c <= closedAt
      BY DEF Past, Types, TypeOK
    <3> QED
      BY <2>1, <3>1 DEF Types, TypeOK
  <2> QED
    BY <2>1, <2>2, <2>3 DEF Close, Reopen, Past, Tasks
<1>4. pending' = 0
  BY DEF Close, Reopen, PendingIsNow
<1> QED
  BY <1>1, <1>2, <1>3, <1>4 DEF PendingIsNow, PendingOnItsWay

-----------------------------------------------------------------------------
(* A collection.                                                           *)

LEMMA BeginInv ==
    ASSUME IInv, Begin PROVE IInv'
<1>1. Types'
  BY DEF Begin, Types, TypeOK
<1>2. AtMostOne' /\ Places' /\ Past' /\ AckBeforeLatest' /\ Fitting' /\ AckKept' /\ KeptUpward'
  BY DEF Begin, AtMostOne, Single, Places, Past, Tasks, AckBeforeLatest, Fitting, Fits,
     AckKept, AcksSurvive, Newest, KeptUpward, Ats
<1>3. PendingIsNow' /\ PendingOnItsWay'
  BY DEF Begin, PendingIsNow, PendingOnItsWay, IsToday, Ats
<1> QED
  BY <1>1, <1>2, <1>3

LEMMA ResetInv ==
    ASSUME IInv, Reset PROVE IInv'
<1>1. Types'
  BY FS_EmptySet DEF Reset, Types, TypeOK
<1>2. AtMostOne' /\ Places' /\ AckBeforeLatest' /\ Fitting' /\ AckKept' /\ KeptUpward'
  BY DEF Reset, AtMostOne, Single, Places, Tasks, AckBeforeLatest, Fitting, Fits, AckKept,
     AcksSurvive, Newest, KeptUpward, Ats
<1>3. Past'
  BY DEF Reset, Past, Tasks, Places
<1>4. PendingIsNow' /\ PendingOnItsWay'
  BY DEF Reset, PendingIsNow, PendingOnItsWay
<1> QED
  BY <1>1, <1>2, <1>3, <1>4

LEMMA QueryInv ==
    ASSUME IInv, Query PROVE IInv'
<1>1. Types' /\ Single(answer)'
  <2>1. Single(answer)' /\ \A a \in answer' : a \in Answers
    <3> DEFINE said == [comments |-> comments, threads |-> threads]
    <3>1. said \in Answers
      BY DEF Types, TypeOK, Answers
    <3> HIDE DEF said
    <3>2. answer' \subseteq {said}
      BY DEF Query, said
    <3> QED
      BY <3>1, <3>2 DEF Single
  <2>2. Cardinality(answer') <= 1
    BY <2>1, SingleIsSmall DEF Single
  <2> QED
    BY <2>1, <2>2 DEF Query, Types, TypeOK
<1>2. AtMostOne' /\ Places' /\ AckBeforeLatest' /\ Fitting' /\ AckKept' /\ KeptUpward'
  BY <1>1 DEF Query, AtMostOne, Single, Places, Tasks, AckBeforeLatest, Fitting, Fits,
     AckKept, AcksSurvive, Newest, KeptUpward, Ats
<1>3. Past'
  BY DEF Query, Past, Tasks
<1>4. PendingIsNow' /\ PendingOnItsWay'
  BY DEF Query, PendingIsNow, PendingOnItsWay, IsToday, Ats
<1> QED
  BY <1>1, <1>2, <1>3, <1>4

LEMMA SkipInv ==
    ASSUME IInv, Skip PROVE IInv'
<1>1. found = {} /\ found' = {}
  BY DEF Skip, Places
<1>2. Types'
  BY <1>1 DEF Skip, Failed, Types, TypeOK
<1>3. AtMostOne' /\ Places' /\ Past' /\ AckBeforeLatest' /\ Fitting' /\ AckKept' /\ KeptUpward'
  BY <1>1 DEF Skip, AtMostOne, Single, Places, Past, Tasks, AckBeforeLatest, Fitting, Fits,
     AckKept, AcksSurvive, Newest, KeptUpward, Ats
<1>4. PendingIsNow' /\ PendingOnItsWay'
  BY DEF Skip, Failed, Places, PendingIsNow, PendingOnItsWay, IsToday, Ats, Types
<1> QED
  BY <1>2, <1>3, <1>4

\* The new task takes over the latest acknowledgement there is.
LEMMA PreviousAckIsMax ==
    ASSUME IInv
    PROVE  /\ PreviousAck \in 0 .. clock
           /\ \A t \in own : t.ack <= PreviousAck
           /\ \A d \in done : d.ack <= PreviousAck
<1> DEFINE S == {t.ack : t \in own} \cup {d.ack : d \in done}
<1>1. S \in SUBSET (0 .. clock) /\ clock \in Nat
  BY DEF Past, Tasks, Types, TypeOK, OwnTask, DoneTask
<1>2. PreviousAck = Latest(S)
  BY DEF PreviousAck
<1>3. /\ Latest(S) \in 0 .. clock
      /\ \A x \in S : x <= Latest(S)
  <2> HIDE DEF S
  <2> QED
    BY <1>1, LatestIsMax
<1> QED
  BY <1>2, <1>3

\* The task that is made of an answer.
LEMMA ProjectedFits ==
    ASSUME IInv, NEW a \in answer
    PROVE  LET t == Projected(a)
           IN  /\ t \in OwnTask /\ Fits(t, a.comments)
               /\ t.ack = PreviousAck /\ t.ack <= clock /\ t.latest <= clock
               /\ t.latest = 0 \/ t.ack <= t.latest
<1>1. a.comments \subseteq 1 .. clock /\ a.threads \in BOOLEAN /\ clock \in Nat
  BY DEF Past, Types, TypeOK, Answers
<1>2. PreviousAck \in 0 .. clock
  BY PreviousAckIsMax
<1>3. NewComments(a) \in SUBSET (0 .. clock)
  BY <1>1 DEF NewComments
<1> DEFINE L == Latest(NewComments(a))
<1>4. /\ L \in NewComments(a) \cup {0} /\ L \in 0 .. clock
      /\ \A c \in NewComments(a) : c <= L
  BY <1>1, <1>3, LatestIsMax
<1> HIDE DEF L
<1>5. Projected(a) = [attention |-> IF a.threads \/ NewComments(a) # {} THEN "attention" ELSE "in_progress",
                      threads |-> a.threads, ack |-> PreviousAck, latest |-> L]
  BY DEF Projected, L
<1>6. \A c \in a.comments : c \in NewComments(a) <=> c > PreviousAck
  BY DEF NewComments
<1>7. L # 0 => L > PreviousAck
  BY <1>4 DEF NewComments
<1>8. NewComments(a) \subseteq a.comments
  BY DEF NewComments
<1>9. L # 0 => \A c \in a.comments : c <= L
  <2> SUFFICES ASSUME L # 0, NEW c \in a.comments PROVE c <= L
    OBVIOUS
  <2>1. CASE c > PreviousAck
    BY <1>4, <1>6, <2>1
  <2>2. CASE ~(c > PreviousAck)
    BY <1>1, <1>2, <1>4, <1>7, <2>2
  <2> QED
    BY <2>1, <2>2
<1> DEFINE t == Projected(a)
<1>10. t \in OwnTask
  BY <1>1, <1>2, <1>4, <1>5 DEF OwnTask
<1>11. Fits(t, a.comments)
  <2>1. (t.attention = "attention") <=> (a.threads \/ NewComments(a) # {})
    BY <1>5
  <2>2. NewComments(a) # {} <=> \E c \in a.comments : c > PreviousAck
    BY <1>6, <1>8
  <2>3. t.threads = a.threads /\ t.ack = PreviousAck /\ t.latest = L
    BY <1>5
  <2> QED
    BY <1>9, <2>1, <2>2, <2>3 DEF Fits
<1> QED
  BY <1>1, <1>2, <1>4, <1>5, <1>7, <1>10, <1>11

LEMMA ReadPreviousInv ==
    ASSUME IInv, ReadPrevious PROVE IInv'
<1>1. \A t \in found' : \E a \in answer : t = Projected(a)
  BY DEF ReadPrevious
<1>2. Single(found)'
  BY <1>1 DEF AtMostOne, Single
<1>3. \A t \in found' : t \in OwnTask /\ t.ack <= clock /\ t.latest <= clock /\ t.ack = PreviousAck
                       /\ (t.latest = 0 \/ t.ack <= t.latest)
  BY <1>1, ProjectedFits
<1>4. Types'
  <2>1. Cardinality(found') <= 1
    BY <1>2, SingleIsSmall DEF Single
  <2> QED
    BY <1>3, <2>1 DEF ReadPrevious, Types, TypeOK
<1>5. AtMostOne' /\ Places' /\ KeptUpward'
  BY <1>2 DEF ReadPrevious, AtMostOne, Single, Places, KeptUpward
<1>6. Past' /\ AckBeforeLatest'
  BY <1>3 DEF ReadPrevious, Past, AckBeforeLatest, Tasks
<1>7. Fitting'
  <2>1. ASSUME NEW t \in found', NEW a \in answer PROVE Fits(t, a.comments)
    <3>1. t = Projected(a)
      BY <1>1 DEF AtMostOne, Single
    <3> QED
      BY <3>1, ProjectedFits
  <2> QED
    BY <2>1 DEF ReadPrevious, Fitting, Fits
<1>8. AckKept'
  <2>1. acked <= PreviousAck
    <3>1. CASE own # {}
      BY <3>1, PreviousAckIsMax DEF AckKept, AcksSurvive, Types, TypeOK, OwnTask
    <3>2. CASE own = {} /\ acked # 0
      BY <3>2, PreviousAckIsMax DEF AckKept, Types, TypeOK, DoneTask
    <3>3. CASE acked = 0
      BY <3>3, PreviousAckIsMax
    <3> QED
      BY <3>1, <3>2, <3>3
  <2>2. \A t \in found' : t.ack >= acked
    BY <1>3, <2>1, PreviousAckIsMax DEF Types
  <2> QED
    BY <2>2 DEF ReadPrevious, AckKept, AcksSurvive, Newest
<1>9. PendingIsNow' /\ PendingOnItsWay'
  BY DEF ReadPrevious, PendingIsNow, PendingOnItsWay, IsToday, Ats
<1> QED
  BY <1>4, <1>5, <1>6, <1>7, <1>8, <1>9
\* Of today's done tasks none is left out, and a pending closing is one of today.
LEMMA KeptToday ==
    ASSUME IInv
    PROVE  /\ TodaysDone \subseteq Ats
           /\ \A x \in TodaysDone, y \in Ats : x <= y => y \in TodaysDone
           /\ pending # 0 /\ pending \in Ats => pending \in TodaysDone
<1>1. \A d \in done : d.at \in Nat /\ d.at <= clock
  BY PullRequestAssumption DEF Past, Types, TypeOK, DoneTask
<1>2. TodaysDone = {x \in Ats : IsToday(x)}
  BY DEF TodaysDone, Ats
<1>3. ASSUME NEW x \in TodaysDone, NEW y \in Ats, x <= y PROVE IsToday(y)
  <2>1. x \in Nat /\ y \in Nat /\ y <= clock /\ clock \in Nat /\ x # 0 /\ x \div Day = clock \div Day
    BY <1>1, <1>2 DEF Ats, IsToday, Types, TypeOK
  <2>2. x \div Day <= y \div Day /\ y \div Day <= clock \div Day
    BY <1>3, <2>1, LaterDay, PullRequestAssumption
  <2>3. x \div Day \in Nat /\ y \div Day \in Nat
    BY <2>1, LaterDay, PullRequestAssumption
  <2> QED
    BY <1>3, <2>1, <2>2, <2>3 DEF IsToday
<1> QED
  BY <1>2, <1>3 DEF PendingIsNow

LEMMA ResolveInv ==
    ASSUME IInv, Resolve PROVE IInv'
<1>1. closing' \subseteq {closedAt} /\ (closing' # {} => own # {} /\ found = {})
  BY DEF Resolve, Vanished
<1>2. TodaysDone \subseteq Nat
  BY KeptToday DEF Ats, Types, TypeOK, DoneTask
<1>3. Types'
  <2>1. Cardinality(closing') <= 1
    BY <1>1, SingleIsSmall DEF Single
  <2>2. closing' \subseteq Nat
    BY <1>1 DEF Types, TypeOK
  <2> QED
    BY <1>2, <2>1, <2>2 DEF Resolve, Types, TypeOK
<1>4. AtMostOne' /\ Places'
  BY <1>1 DEF Resolve, AtMostOne, Single, Places
<1>5. Past'
  BY <1>1 DEF Resolve, Past, Tasks, Types, TypeOK
<1>6. AckBeforeLatest' /\ Fitting' /\ AckKept'
  BY DEF Resolve, Tasks, AckBeforeLatest, Fitting, Fits, AckKept, AcksSurvive, Newest
<1>7. KeptUpward'
  BY KeptToday DEF Resolve, KeptUpward, Ats
<1>8. PendingIsNow'
  BY DEF Resolve, PendingIsNow, IsToday
<1>9. PendingOnItsWay'
  <2> SUFFICES ASSUME pending # 0, ~faulty PROVE pending \in TodaysDone \cup closing'
    BY DEF Resolve, PendingOnItsWay
  <2>1. CASE pending \in Ats
    BY <2>1, KeptToday
  <2>2. CASE own # {}
    BY <2>2 DEF Resolve, Vanished, PendingIsNow, Places
  <2> QED
    BY <2>1, <2>2 DEF Resolve, PendingOnItsWay
<1> QED
  BY <1>3, <1>4, <1>5, <1>6, <1>7, <1>8, <1>9

LEMMA KeepOnlyInv ==
    ASSUME IInv, KeepOnly PROVE IInv'
<1>1. TodaysDone \subseteq Nat
  BY KeptToday DEF Ats, Types, TypeOK, DoneTask
<1>2. Types'
  <2>1. Cardinality({}) <= 1
    BY FS_EmptySet
  <2>2. faulty' \in BOOLEAN
    BY DEF KeepOnly, Failed, Types
  <2> QED
    BY <1>1, <2>1, <2>2 DEF KeepOnly, Types, TypeOK
<1>3. AtMostOne' /\ Places' /\ Past' /\ AckBeforeLatest' /\ Fitting' /\ AckKept'
  BY DEF KeepOnly, AtMostOne, Single, Places, Past, Tasks, AckBeforeLatest, Fitting, Fits,
     AckKept, AcksSurvive, Newest
<1>4. KeptUpward'
  BY KeptToday DEF KeepOnly, KeptUpward, Ats
<1>5. PendingIsNow'
  BY DEF KeepOnly, PendingIsNow, IsToday
<1>6. PendingOnItsWay'
  <2> SUFFICES ASSUME pending # 0, ~faulty' PROVE pending \in TodaysDone
    BY DEF KeepOnly, PendingOnItsWay
  <2>1. own = {} /\ ~faulty
    BY DEF KeepOnly, Failed, Types
  <2> QED
    BY <2>1, KeptToday DEF KeepOnly, PendingOnItsWay
<1> QED
  BY <1>2, <1>3, <1>4, <1>5, <1>6

\* What Install makes of the done tasks.
LEMMA InstallInv ==
    ASSUME IInv, Install PROVE IInv'
<1> DEFINE Old == {d \in done : d.at \in kept}
           New == {[at |-> time, ack |-> t.ack, latest |-> t.latest] : time \in closing, t \in own}
<1>0. done' = Old \cup New
  BY DEF Install
<1>1. \A d \in done' : \/ d \in done /\ d.at \in kept
                      \/ \E t \in own : d.at \in closing /\ d.ack = t.ack /\ d.latest = t.latest
  BY <1>0
<1>2. /\ \A d \in done : d.at \in kept => d \in done'
      /\ \A time \in closing, t \in own : [at |-> time, ack |-> t.ack, latest |-> t.latest] \in done'
  <2>1. \A d \in done : d.at \in kept => d \in Old
    OBVIOUS
  <2>2. \A time \in closing, t \in own : [at |-> time, ack |-> t.ack, latest |-> t.latest] \in New
    OBVIOUS
  <2> HIDE DEF Old, New
  <2>3. \A d \in done : d.at \in kept => d \in done'
    BY <1>0, <2>1
  <2>4. \A time \in closing, t \in own : [at |-> time, ack |-> t.ack, latest |-> t.latest] \in done'
    BY <1>0, <2>2
  <2> QED
    BY <2>3, <2>4
<1> HIDE DEF Old, New
<1>3. own' = found /\ found' = {} /\ answer' = {} /\ kept' = {} /\ closing' = {} /\ pc' = "idle"
  BY DEF Install
<1>4. known' \subseteq 1 .. clock
  BY DEF Install, Past
<1>5. Types'
  <2>1. \A d \in done' : d \in DoneTask
    BY DEF Install, Types, TypeOK, OwnTask, DoneTask
  <2>2. Cardinality({}) <= 1
    BY FS_EmptySet
  <2>3. acked' \in Nat
    BY DEF Install, Types
  <2> QED
    BY <1>3, <2>1, <2>2, <2>3 DEF Install, Types, TypeOK
<1>6. AtMostOne' /\ Places' /\ KeptUpward'
  BY <1>3 DEF AtMostOne, Single, Places, KeptUpward
<1>7. Past' /\ AckBeforeLatest'
  <2>1. \A d \in done' : d.ack <= clock /\ d.latest <= clock /\ (d.latest = 0 \/ d.ack <= d.latest)
                        /\ d.at <= closedAt
    BY <1>1 DEF Past, AckBeforeLatest, Tasks
  <2> QED
    BY <1>3, <1>4, <2>1 DEF Install, Past, AckBeforeLatest, Tasks
<1>8. Fitting'
  <2>1. ASSUME NEW t \in found PROVE Fits(t, known')
    <3>1. PICK a \in answer : answer = {a}
      BY <2>1 DEF Places, AtMostOne, Single
    <3>2. known' = a.comments
      BY <2>1, <3>1 DEF Install
    <3> QED
      BY <2>1, <3>2 DEF Fitting
  <2> QED
    BY <1>3, <2>1 DEF Fitting, Fits
<1>9. AckKept'
  <2>1. \A t \in own' : t.ack >= acked'
    BY <1>3 DEF Install, AckKept, Types, TypeOK, OwnTask
  <2>2. ASSUME own' = {}, acked' # 0 PROVE (\E d \in done : Newest(d) /\ d.ack >= acked)'
    <3>1. found = {} /\ acked' = acked
      BY <1>3, <2>2 DEF Install
    <3>2. CASE closing # {}
      <4>1. PICK time \in closing : \A d \in done : d.at <= time
        BY <3>2 DEF Past
      <4>2. PICK t \in own : t.ack >= acked
        BY <3>2 DEF Places, AckKept, AcksSurvive
      <4> DEFINE new == [at |-> time, ack |-> t.ack, latest |-> t.latest]
      <4>3. \A e \in done' : e.at <= time
        <5>1. \A c \in closing : c = time
          BY DEF AtMostOne, Single
        <5>2. time \in Nat
          BY DEF Types, TypeOK
        <5>3. ASSUME NEW e \in done' PROVE e.at <= time
          <6>1. CASE e \in done
            BY <4>1, <6>1
          <6>2. CASE e.at \in closing
            <7>1. e.at = time
              BY <5>1, <6>2, Zenon
            <7> QED
              BY <5>2, <7>1
          <6> QED
            BY <1>1, <6>1, <6>2
        <5> QED
          BY <5>3
      <4>4. new \in done' /\ new.at = time /\ new.ack = t.ack
        BY <1>2
      <4> QED
        BY <3>1, <4>2, <4>3, <4>4 DEF Newest
    <3>3. CASE closing = {}
      <4>1. own = {} /\ kept # {}
        BY <2>2, <3>1, <3>3 DEF Install
      <4>2. PICK d \in done : Newest(d) /\ d.ack >= acked
        BY <2>2, <3>1, <4>1 DEF AckKept
      <4>3. d.at \in kept
        BY <4>1, <4>2 DEF Install, KeptUpward, Ats, Newest
      <4>4. d \in done' /\ \A e \in done' : e \in done
        BY <1>1, <1>2, <3>3, <4>3
      <4> QED
        BY <3>1, <4>2, <4>4 DEF Newest
    <3> QED
      BY <3>2, <3>3
  <2> QED
    BY <1>3, <2>1, <2>2 DEF AckKept, AcksSurvive
<1>10. PendingIsNow'
  BY <1>3 DEF Install, PendingIsNow, IsToday
<1>11. PendingOnItsWay'
  <2> SUFFICES ASSUME pending # 0, ~faulty PROVE pending \in Ats'
    BY <1>3 DEF Install, PendingOnItsWay
  <2>1. pending \in kept \cup closing
    BY DEF Install, PendingOnItsWay
  <2>2. CASE pending \in kept
    BY <1>2, <2>2 DEF Install, KeptUpward, Ats
  <2>3. CASE pending \in closing
    <3>1. PICK t \in own : TRUE
      BY <2>3 DEF Places
    <3>2. [at |-> pending, ack |-> t.ack, latest |-> t.latest] \in done'
      BY <1>2, <2>3, <3>1
    <3> QED
      BY <3>2 DEF Ats
  <2> QED
    BY <2>1, <2>2, <2>3
<1> QED
  BY <1>5, <1>6, <1>7, <1>8, <1>9, <1>10, <1>11

-----------------------------------------------------------------------------
(* Acknowledge.                                                            *)

\* An acknowledgement only moves forward, and covers all that was behind the task.
LEMMA AckTimeCovers ==
    ASSUME IInv, NEW t \in Tasks
    PROVE  /\ AckTime(t) \in Nat /\ AckTime(t) <= clock /\ t.ack <= AckTime(t)
           /\ t.latest = 0 \/ AckTime(t) = t.latest
<1>1. t.ack \in Nat /\ t.latest \in Nat /\ clock \in Nat
  BY DEF Tasks, Types, TypeOK, OwnTask, DoneTask
<1> QED
  BY <1>1 DEF AckTime, Past, AckBeforeLatest

LEMMA AcknowledgeOwnInv ==
    ASSUME IInv, AcknowledgeOwn PROVE IInv'
<1>1. PICK t \in own : /\ own' = {Acknowledged(t)}
                       /\ acked' = IF Overtaken THEN acked ELSE Latest({acked, AckTime(t)})
  BY DEF AcknowledgeOwn, Replacing
<1> DEFINE u == Acknowledged(t)
<1>2. t \in OwnTask /\ t \in Tasks /\ Fits(t, known) /\ t.ack >= acked
  BY DEF Types, TypeOK, Tasks, Fitting, AckKept, AcksSurvive
<1>3. /\ AckTime(t) \in Nat /\ AckTime(t) <= clock /\ t.ack <= AckTime(t)
      /\ t.latest = 0 \/ AckTime(t) = t.latest
  BY <1>2, AckTimeCovers
<1>4. /\ u \in OwnTask /\ u.ack = AckTime(t) /\ u.latest = t.latest /\ u.threads = t.threads
      /\ u.attention = IF t.threads THEN t.attention ELSE "in_progress"
  BY <1>2, <1>3 DEF Acknowledged, OwnTask
<1> HIDE DEF u
<1>5. own' = {u}
  BY <1>1 DEF u
<1>6. acked' \in Nat /\ acked' <= AckTime(t) /\ (found # {} => acked' = acked)
  <2>1. acked \in 0 .. AckTime(t) /\ AckTime(t) \in 0 .. AckTime(t)
    BY <1>2, <1>3 DEF Types, OwnTask
  <2>2. Latest({acked, AckTime(t)}) \in 0 .. AckTime(t)
    BY <1>3, <2>1, LatestIsMax
  <2>3. found # {} => Overtaken
    BY DEF Overtaken, Places, Types, TypeOK
  <2> QED
    BY <1>1, <1>3, <2>1, <2>2, <2>3
<1>7. UNCHANGED <<clock, remote, done, pc, collection, known, pending, faulty>>
  BY DEF AcknowledgeOwn
<1>8. Types'
  <2>1. Cardinality(own') <= 1
    BY <1>5, FS_Singleton
  <2> QED
    BY <1>4, <1>5, <1>6, <1>7, <2>1 DEF Types, TypeOK
<1>9. AtMostOne' /\ Places' /\ KeptUpward'
  BY <1>5, <1>7 DEF AtMostOne, Single, Places, KeptUpward, Ats
<1>10. Past' /\ AckBeforeLatest'
  <2>1. u.ack <= clock /\ u.latest <= clock /\ (u.latest = 0 \/ u.ack <= u.latest)
    BY <1>2, <1>3, <1>4 DEF Past, OwnTask
  <2> QED
    BY <1>5, <1>7, <2>1 DEF Past, AckBeforeLatest, Tasks
<1>11. Fitting'
  <2>1. \A c \in known : ~(c > u.ack)
    <3>1. \A c \in known : c \in Nat /\ c <= clock
      BY DEF Past, Types, TypeOK
    <3>2. CASE t.latest # 0
      BY <1>2, <1>3, <1>4, <3>1, <3>2 DEF Fits, OwnTask
    <3>3. CASE t.latest = 0
      BY <1>3, <1>4, <3>1, <3>3 DEF AckTime, Types, TypeOK
    <3> QED
      BY <3>2, <3>3
  <2>2. Fits(u, known)
    BY <1>2, <1>4, <2>1 DEF Fits
  <2> QED
    BY <1>5, <1>7, <2>2 DEF Fitting, Fits
<1>12. AckKept'
  BY <1>4, <1>5, <1>6, <1>7 DEF AckKept, AcksSurvive
<1>13. PendingIsNow' /\ PendingOnItsWay'
  BY <1>5, <1>7 DEF PendingIsNow, PendingOnItsWay, IsToday, Ats
<1> QED
  BY <1>8, <1>9, <1>10, <1>11, <1>12, <1>13

LEMMA AcknowledgeDoneInv ==
    ASSUME IInv, AcknowledgeDone PROVE IInv'
<1>1. PICK d \in done : done' = (done \ {d}) \cup {[d EXCEPT !.ack = AckTime(d)]}
  BY DEF AcknowledgeDone
<1> DEFINE u == [d EXCEPT !.ack = AckTime(d)]
<1>2. d \in DoneTask /\ d \in Tasks
  BY DEF Types, TypeOK, Tasks
<1>3. /\ AckTime(d) \in Nat /\ AckTime(d) <= clock /\ d.ack <= AckTime(d)
      /\ d.latest = 0 \/ AckTime(d) = d.latest
  BY <1>2, AckTimeCovers
<1>4. u \in DoneTask /\ u.ack = AckTime(d) /\ u.latest = d.latest /\ u.at = d.at
  BY <1>2, <1>3 DEF DoneTask
<1>5. done' = (done \ {d}) \cup {u}
  BY <1>1
<1> HIDE DEF u
<1>6. Ats' = Ats
  BY <1>4, <1>5 DEF Ats
<1>7. UNCHANGED <<clock, remote, own, pc, collection, history>>
  BY DEF AcknowledgeDone
<1>8. Types'
  BY <1>4, <1>5, <1>7 DEF Types, TypeOK
<1>9. AtMostOne' /\ Places' /\ Fitting' /\ KeptUpward'
  BY <1>6, <1>7 DEF AtMostOne, Single, Places, Fitting, Fits, KeptUpward
<1>10. Past' /\ AckBeforeLatest'
  <2>1. /\ u.ack <= clock /\ u.latest <= clock /\ (u.latest = 0 \/ u.ack <= u.latest)
        /\ u.at <= closedAt /\ \A c \in closing : u.at <= c
    BY <1>2, <1>3, <1>4 DEF Past, DoneTask
  <2> QED
    BY <1>5, <1>7, <2>1 DEF Past, AckBeforeLatest, Tasks
<1>11. AckKept'
  <2>1. ASSUME own = {}, acked # 0 PROVE (\E e \in done : Newest(e) /\ e.ack >= acked)'
    <3>1. PICK e \in done : Newest(e) /\ e.ack >= acked
      BY <2>1 DEF AckKept
    <3>2. \A x \in done' : x.at <= e.at
      BY <1>4, <1>5, <3>1 DEF Newest
    <3>3. CASE e = d
      BY <1>2, <1>3, <1>4, <1>5, <1>7, <3>1, <3>2, <3>3 DEF Newest, Types, DoneTask
    <3>4. CASE e # d
      BY <1>5, <1>7, <3>1, <3>2, <3>4 DEF Newest
    <3> QED
      BY <3>3, <3>4
  <2> QED
    BY <1>7, <2>1 DEF AckKept, AcksSurvive
<1>12. PendingIsNow' /\ PendingOnItsWay'
  BY <1>6, <1>7 DEF PendingIsNow, PendingOnItsWay, IsToday
<1> QED
  BY <1>8, <1>9, <1>10, <1>11, <1>12

-----------------------------------------------------------------------------
(* The theorems.                                                           *)

LEMMA NextInv == IInv /\ [Next]_vars => IInv'
<1> SUFFICES ASSUME IInv, [Next]_vars PROVE IInv'
  OBVIOUS
<1>1. CASE Elapse \/ Comment \/ Thread \/ Close \/ Reopen
  BY <1>1, ElapseInv, CommentInv, CloseInv
<1>2. CASE Begin \/ Reset \/ Query \/ Skip \/ ReadPrevious
  BY <1>2, BeginInv, ResetInv, QueryInv, SkipInv, ReadPreviousInv
<1>3. CASE Resolve \/ KeepOnly \/ Install
  BY <1>3, ResolveInv, KeepOnlyInv, InstallInv
<1>4. CASE AcknowledgeOwn \/ AcknowledgeDone
  BY <1>4, AcknowledgeOwnInv, AcknowledgeDoneInv
<1>5. CASE UNCHANGED vars
  <2>1. Types' /\ AtMostOne' /\ Places' /\ Past' /\ AckBeforeLatest'
    BY <1>5 DEF vars, Types, TypeOK, AtMostOne, Single, Places, Past, AckBeforeLatest, Tasks
  <2>2. Fitting' /\ AckKept' /\ KeptUpward' /\ PendingIsNow' /\ PendingOnItsWay'
    BY <1>5 DEF vars, Fitting, Fits, AckKept, AcksSurvive, Newest, KeptUpward, Ats,
       PendingIsNow, PendingOnItsWay, IsToday
  <2> QED
    BY <2>1, <2>2
<1> QED
  BY <1>1, <1>2, <1>3, <1>4, <1>5 DEF Next

\* Where an acknowledgement is while there is no own task, what the comments behind a
\* task say of it, and how far a closing has come, in every reachable state.
THEOREM Invariance == Spec => []IInv
<1>1. Init => IInv
  BY InitInv
<1>2. IInv /\ [Next]_vars => IInv'
  BY NextInv
<1> QED
  BY <1>1, <1>2, PTL DEF Spec

\* Every variable keeps its type: there is never more than one own task.
THEOREM TypeCorrect == Spec => []TypeOK
<1>1. IInv => TypeOK
  BY DEF Types
<1> QED
  BY <1>1, Invariance, PTL

\* What the user has acknowledged stays so, from task to task and through the done
\* tasks of a day, but for what a collection under way overtakes or loses.
\* (activityStateFromPrevious, ResolveDonePullRequests.)
THEOREM AcknowledgementsSurvive == Spec => []AcksSurvive
<1>1. IInv => AcksSurvive
  BY DEF AckKept
<1> QED
  BY <1>1, Invariance, PTL

\* A task asks for attention if and only if a thread is unresolved or a comment its
\* collection saw is unread.  (applyActivity, Acknowledge.)
THEOREM AttentionMeansUnread == Spec => []UnreadGetsAttention
<1>1. IInv => UnreadGetsAttention
  BY DEF Fitting, Fits, UnreadGetsAttention
<1> QED
  BY <1>1, Invariance, PTL

\* What was closed today is done after the first collection that began later, unless
\* that one met a failure.  (ResolveDonePullRequests, keepTodaysDoneTasks.)
THEOREM ClosingsAreFound == Spec => []ClosedBecomesDone
<1>1. IInv => ClosedBecomesDone
  BY DEF PendingOnItsWay, ClosedBecomesDone, Resolved, Ats
<1> QED
  BY <1>1, Invariance, PTL
=============================================================================
