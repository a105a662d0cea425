------------------------- MODULE ServedView_proofs -------------------------
(***************************************************************************)
(* Theorems about ServedView, for any number of requests under way, lists  *)
(* of any length and any number of changes, acknowledgements and faults:   *)
(* what the plugin counts is what it shows, and it announces every task    *)
(* once.  The lists are filtered by loops; what a loop does to a list of   *)
(* any length is proved by induction on its length.                        *)
(***************************************************************************)
EXTENDS ServedView, TLAPS, FiniteSetTheorems, WellFoundedInduction

-----------------------------------------------------------------------------
(* Loops.                                                                  *)

\* The order of the numbers, as a set of pairs.
Less == {ss \in Nat \X Nat : ss[1] < ss[2]}
\* It is well-founded.
LEMMA LessWellFounded == IsWellFoundedOn(Less, Nat)
  BY NatLessThanWellFounded DEF Less, OpToRel

\* Every set of numbers has a least one.
LEMMA Least ==
    ASSUME NEW S \in SUBSET Nat, S # {}
    PROVE  \E x \in S : \A y \in S : x <= y
<1>1. \E x \in S : \A y \in S : ~ (<<y, x>> \in Less)
  BY LessWellFounded, WFMin, Zenon
<1>2. PICK x \in S : \A y \in S : ~ (<<y, x>> \in Less)
  BY <1>1
<1>3. \A y \in S : ~(y < x)
  BY <1>2 DEF Less
<1> QED
  BY <1>3

\* Induction on numbers.
LEMMA Induct ==
    ASSUME NEW N \in Nat, NEW S, 0 \in S,
           \A n \in 1 .. N : n - 1 \in S => n \in S
    PROVE  \A n \in 0 .. N : n \in S
<1> SUFFICES ASSUME NEW m \in 0 .. N, m \notin S PROVE FALSE
  OBVIOUS
<1> DEFINE Bad == {n \in 0 .. N : n \notin S}
<1>1. PICK x \in Bad : \A y \in Bad : x <= y
  <2>1. Bad \subseteq Nat /\ Bad # {}
    OBVIOUS
  <2> HIDE DEF Bad
  <2> QED
    BY <2>1, Least
<1>2. x # 0 /\ x \in 1 .. N /\ x - 1 \in 0 .. N
  BY <1>1
<1>3. x - 1 \in S
  BY <1>1, <1>2
<1> QED
  BY <1>1, <1>2, <1>3

\* k has what is computed after each round.
Loops(k, N, base, step) == k[0] = base /\ \A n \in 1 .. N : k[n] = step[<<n, k[n - 1]>>]
\* A loop that starts with base and takes V to V is a function.
LEMMA Recursion ==
    ASSUME NEW N, N \in Nat, NEW V, NEW base, base \in V, NEW step, step \in [(1 .. N) \X V -> V]
    PROVE  \E k \in [0 .. N -> V] : Loops(k, N, base, step)
<1> DEFINE Upto(n) == \E k \in [0 .. n -> V] :
                         k = [m \in 0 .. n |-> IF m = 0 THEN base ELSE step[<<m, k[m - 1]>>]]
           S == {n \in 0 .. N : Upto(n)}
<1>1. Upto(0)
  <2> DEFINE k == [m \in 0 .. 0 |-> base]
  <2>1. k \in [0 .. 0 -> V]
    OBVIOUS
  <2>2. k = [m \in 0 .. 0 |-> IF m = 0 THEN base ELSE step[<<m, k[m - 1]>>]]
    OBVIOUS
  <2> QED
    BY <2>1, <2>2
<1>2. ASSUME NEW n \in 1 .. N, Upto(n - 1) PROVE Upto(n)
  <2>1. PICK j \in [0 .. n - 1 -> V] :
          j = [m \in 0 .. n - 1 |-> IF m = 0 THEN base ELSE step[<<m, j[m - 1]>>]]
    BY <1>2
  <2> DEFINE k == [m \in 0 .. n |-> IF m = n THEN step[<<n, j[n - 1]>>] ELSE j[m]]
  <2>2. \A m \in 0 .. n - 1 : k[m] = j[m]
    OBVIOUS
  <2>3. k \in [0 .. n -> V]
    OBVIOUS
  <2>4. ASSUME NEW m \in 0 .. n PROVE k[m] = IF m = 0 THEN base ELSE step[<<m, k[m - 1]>>]
    <3>1. CASE m = n
      <4>1. n - 1 \in 0 .. n - 1 /\ k[n - 1] = j[n - 1]
        BY <2>2
      <4> QED
        BY <3>1, <4>1
    <3>2. CASE m = 0
      BY <3>2, <2>1
    <3>3. CASE m # n /\ m # 0
      <4>1. m \in 0 .. n - 1 /\ m - 1 \in 0 .. n - 1
        BY <3>3
      <4>2. j[m] = step[<<m, j[m - 1]>>]
        BY <2>1, <3>3, <4>1
      <4> QED
        BY <2>2, <3>3, <4>1, <4>2
    <3> QED
      BY <3>1, <3>2, <3>3
  <2>5. k = [m \in 0 .. n |-> IF m = 0 THEN base ELSE step[<<m, k[m - 1]>>]]
    <3> HIDE DEF k
    <3> QED
      BY <2>3, <2>4
  <2> QED
    BY <2>3, <2>5
<1>3. \A n \in 0 .. N : n \in S
  <2>1. 0 \in S
    BY <1>1
  <2>2. \A n \in 1 .. N : n - 1 \in S => n \in S
    <3> HIDE DEF Upto
    <3> QED
      BY <1>2
  <2> HIDE DEF S
  <2> QED
    BY <2>1, <2>2, Induct
<1>4. Upto(N)
  BY <1>3
<1>5. PICK k \in [0 .. N -> V] :
        k = [m \in 0 .. N |-> IF m = 0 THEN base ELSE step[<<m, k[m - 1]>>]]
  BY <1>4
<1>6. k[0] = base /\ \A n \in 1 .. N : k[n] = step[<<n, k[n - 1]>>]
  BY <1>5
<1> QED
  BY <1>6 DEF Loops


-----------------------------------------------------------------------------
(* FlattenSeq is such a loop: what is in the parts is in the whole.        *)

LEMMA Concat ==
    ASSUME NEW T, NEW s \in Seq(T), NEW t \in Seq(T)
    PROVE  /\ s \o t \in Seq(T)
           /\ \A x : x \in ToSet(s \o t) <=> x \in ToSet(s) \/ x \in ToSet(t)
<1>1. s \o t \in Seq(T) /\ Len(s \o t) = Len(s) + Len(t)
  OBVIOUS
<1>2. \A i \in 1 .. Len(s) + Len(t) :
        (s \o t)[i] = IF i <= Len(s) THEN s[i] ELSE t[i - Len(s)]
  OBVIOUS
<1>3. ASSUME NEW x, x \in ToSet(s) PROVE x \in ToSet(s \o t)
  <2>1. PICK i \in 1 .. Len(s) : x = s[i]
    BY <1>3 DEF ToSet
  <2>2. i \in 1 .. Len(s) + Len(t) /\ (s \o t)[i] = x
    BY <2>1, <1>2
  <2> QED
    BY <1>1, <2>2 DEF ToSet
<1>4. ASSUME NEW x, x \in ToSet(t) PROVE x \in ToSet(s \o t)
  <2>1. PICK i \in 1 .. Len(t) : x = t[i]
    BY <1>4 DEF ToSet
  <2>2. Len(s) + i \in 1 .. Len(s) + Len(t) /\ (s \o t)[Len(s) + i] = x
    BY <2>1, <1>2
  <2> QED
    BY <1>1, <2>2 DEF ToSet
<1>5. ASSUME NEW x, x \in ToSet(s \o t) PROVE x \in ToSet(s) \/ x \in ToSet(t)
  <2>1. PICK i \in 1 .. Len(s) + Len(t) : x = (s \o t)[i]
    BY <1>1, <1>5 DEF ToSet
  <2>2. CASE i <= Len(s)
    BY <2>1, <2>2, <1>2 DEF ToSet
  <2>3. CASE i > Len(s)
    <3>1. i - Len(s) \in 1 .. Len(t) /\ x = t[i - Len(s)]
      BY <2>1, <2>3, <1>2
    <3> QED
      BY <3>1 DEF ToSet
  <2> QED
    BY <2>2, <2>3
<1> QED
  BY <1>1, <1>3, <1>4, <1>5

\* The recursive function of FlattenSeq is the loop.
LEMMA FlattenLoop ==
    ASSUME NEW T, NEW seqs \in Seq(Seq(T))
    PROVE  \E k \in [0 .. Len(seqs) -> Seq(T)] :
              /\ k[0] = <<>>
              /\ \A n \in 1 .. Len(seqs) : k[n] = k[n - 1] \o seqs[n]
              /\ FlattenSeq(seqs) = k[Len(seqs)]
<1> DEFINE N == Len(seqs)
           step == [a \in (1 .. N) \X Seq(T) |-> a[2] \o seqs[a[1]]]
           IsFlatten(k) == k = [i \in 1 .. N |-> IF i = 1 THEN seqs[i] ELSE k[i - 1] \o seqs[i]]
<1>1. N \in Nat /\ <<>> \in Seq(T) /\ \A n \in 1 .. N : seqs[n] \in Seq(T)
  OBVIOUS
<1>2. step \in [(1 .. N) \X Seq(T) -> Seq(T)]
  <2> HIDE DEF N
  <2> QED
    BY <1>1, Concat
<1>3. \A n \in 1 .. N : \A s \in Seq(T) : step[<<n, s>>] = s \o seqs[n]
  <2> HIDE DEF N
  <2> QED
    OBVIOUS
<1>4. PICK k \in [0 .. N -> Seq(T)] : k[0] = <<>> /\ \A n \in 1 .. N : k[n] = step[<<n, k[n - 1]>>]
  <2> HIDE DEF N, step
  <2>1. \E k \in [0 .. N -> Seq(T)] : Loops(k, N, <<>>, step)
    BY <1>1, <1>2, Recursion
  <2> QED
    BY <2>1 DEF Loops
<1>5. \A n \in 1 .. N : k[n - 1] \in Seq(T) /\ k[n] = k[n - 1] \o seqs[n]
  <2> SUFFICES ASSUME NEW n \in 1 .. N PROVE k[n - 1] \in Seq(T) /\ k[n] = k[n - 1] \o seqs[n]
    OBVIOUS
  <2> HIDE DEF N, step
  <2>1. n - 1 \in 0 .. N
    BY <1>1
  <2>2. k[n - 1] \in Seq(T)
    BY <2>1, <1>4
  <2> QED
    BY <2>2, <1>3, <1>4
<1>6. CASE N = 0
  BY <1>4, <1>5, <1>6 DEF FlattenSeq
<1>7. CASE N # 0
  <2> DEFINE j == [i \in 1 .. N |-> k[i]]
  <2>1. k[1] = seqs[1]
    <3>1. k[1] = <<>> \o seqs[1] /\ seqs[1] \in Seq(T)
      <4> HIDE DEF N, step
      <4>1. 1 \in 1 .. N /\ 1 - 1 = 0
        BY <1>1, <1>7
      <4> QED
        BY <4>1, <1>1, <1>4, <1>5
    <3> QED
      BY <3>1
  <2>2. IsFlatten(j)
    <3>1. \A i \in 1 .. N : k[i] = IF i = 1 THEN seqs[i] ELSE j[i - 1] \o seqs[i]
      <4> SUFFICES ASSUME NEW i \in 1 .. N, i # 1 PROVE k[i] = j[i - 1] \o seqs[i]
        BY <2>1
      <4> HIDE DEF N, step
      <4>1. i - 1 \in 1 .. N
        BY <1>1
      <4> QED
        BY <4>1, <1>5
    <3> HIDE DEF N, step
    <3> QED
      BY <3>1
  <2>3. ASSUME NEW f, IsFlatten(f) PROVE f[N] = k[N]
    <3> DEFINE body == [i \in 1 .. N |-> IF i = 1 THEN seqs[i] ELSE f[i - 1] \o seqs[i]]
               S == {n \in 0 .. N : n = 0 \/ f[n] = k[n]}
    <3>1. f = body
      BY <2>3
    <3>2. \A i \in 1 .. N : body[i] = IF i = 1 THEN seqs[i] ELSE f[i - 1] \o seqs[i]
      <4> HIDE DEF N
      <4> QED
        OBVIOUS
    <3>3. \A i \in 1 .. N : f[i] = IF i = 1 THEN seqs[i] ELSE f[i - 1] \o seqs[i]
      <4> HIDE DEF body
      <4> QED
        BY <3>1, <3>2
    <3> HIDE DEF IsFlatten, body, step, N
    <3>4. ASSUME NEW n \in 1 .. N, n - 1 \in S PROVE n \in S
      <4>1. n - 1 \in 0 .. N /\ n \in 0 .. N
        BY <1>1
      <4>2. CASE n = 1
        BY <4>1, <4>2, <3>3, <2>1
      <4>3. CASE n # 1
        <5>1. f[n - 1] = k[n - 1]
          BY <3>4, <4>3, <1>1
        <5> QED
          BY <5>1, <4>1, <4>3, <3>3, <1>5
      <4> QED
        BY <4>2, <4>3
    <3>5. 0 \in S
      BY <1>1
    <3>6. \A n \in 0 .. N : n \in S
      <4> HIDE DEF S
      <4> QED
        BY <3>4, <3>5, <1>1, Induct
    <3> QED
      BY <3>6, <1>1, <1>7
  <2>4. IsFlatten(CHOOSE f : IsFlatten(f))
    <3> HIDE DEF IsFlatten, j
    <3> QED
      BY <2>2
  <2>5. FlattenSeq(seqs) = (CHOOSE f : IsFlatten(f))[N]
    BY <1>7 DEF FlattenSeq
  <2>6. FlattenSeq(seqs) = k[N]
    <3> HIDE DEF IsFlatten
    <3> QED
      BY <2>3, <2>4, <2>5
  <2> QED
    BY <2>6, <1>4, <1>5
<1> QED
  BY <1>6, <1>7

\* By induction on the number of parts.
LEMMA Flattened ==
    ASSUME NEW T, NEW seqs \in Seq(Seq(T))
    PROVE  /\ FlattenSeq(seqs) \in Seq(T)
           /\ \A x : x \in ToSet(FlattenSeq(seqs)) <=> \E i \in 1 .. Len(seqs) : x \in ToSet(seqs[i])
<1>1. PICK k \in [0 .. Len(seqs) -> Seq(T)] :
              /\ k[0] = <<>>
              /\ \A n \in 1 .. Len(seqs) : k[n] = k[n - 1] \o seqs[n]
              /\ FlattenSeq(seqs) = k[Len(seqs)]
  BY FlattenLoop
<1> DEFINE N == Len(seqs)
           In(n) == \A x : x \in ToSet(k[n]) <=> \E i \in 1 .. n : x \in ToSet(seqs[i])
           S == {n \in 0 .. N : In(n)}
<1>2. N \in Nat
  OBVIOUS
<1>3. 0 \in S
  BY <1>1, <1>2 DEF ToSet
<1>4. ASSUME NEW n \in 1 .. N, In(n - 1) PROVE In(n)
  <2>0. n - 1 \in 0 .. N
    BY <1>2
  <2>1. k[n - 1] \in Seq(T) /\ seqs[n] \in Seq(T) /\ k[n] = k[n - 1] \o seqs[n]
    <3>1. n \in 1 .. Len(seqs) /\ n - 1 \in 0 .. Len(seqs)
      BY <2>0
    <3>2. seqs[n] \in Seq(T)
      BY <3>1
    <3> HIDE DEF N
    <3> QED
      BY <3>1, <3>2, <1>1
  <2>2. \A x : x \in ToSet(k[n]) <=> x \in ToSet(k[n - 1]) \/ x \in ToSet(seqs[n])
    BY <2>1, Concat
  <2>3. \A i : i \in 1 .. n <=> i \in 1 .. (n - 1) \/ i = n
    BY <1>2
  <2> HIDE DEF N
  <2> QED
    BY <1>4, <2>2, <2>3
<1>5. \A n \in 0 .. N : n \in S
  <2>1. \A n \in 1 .. N : n - 1 \in S => n \in S
    <3> HIDE DEF In
    <3> QED
      BY <1>2, <1>4
  <2> HIDE DEF S
  <2> QED
    BY <1>2, <1>3, <2>1, Induct
<1>6. In(N)
  BY <1>2, <1>5
<1> QED
  BY <1>1, <1>2, <1>6

-----------------------------------------------------------------------------
(* Lists of tasks: counted, filtered, acknowledged, given IDs.             *)

\* Numbers of tasks.
LEMMA Counting ==
    ASSUME NEW list \in Seq(Tasks)
    PROVE  Summary(list) \in Counts
<1>1. SUFFICES ASSUME NEW a \in Attentions
               PROVE  Cardinality({i \in DOMAIN list : list[i].attention = a}) \in Nat
  BY DEF Summary, Counts
<1>2. IsFiniteSet(1 .. Len(list)) /\ DOMAIN list = 1 .. Len(list)
  BY FS_Interval
<1>3. IsFiniteSet({i \in DOMAIN list : list[i].attention = a})
  BY <1>2, FS_Subset
<1> QED
  BY <1>3, FS_CardinalityType

\* What is said of a list by its positions, said of its tasks.
LEMMA Placing ==
    ASSUME NEW list \in Seq(Tasks)
    PROVE  /\ \A t \in ToSet(list) : t \in Tasks
           /\ \A i \in 1 .. Len(list) : list[i] \in Tasks
           /\ \A p : p \in Named(list) <=> \E t \in ToSet(list) : p = [id |-> t.id, thing |-> t.thing]
           /\ \A n : n \in IdsOf(list) <=> \E t \in ToSet(list) : n = t.id
           /\ IdsOf(list) \subseteq Nat \ {0}
           /\ Named(list) \subseteq [id : Nat \ {0}, thing : Things]
           /\ \A p \in Named(list) : p.id \in IdsOf(list)
<1>1. DOMAIN list = 1 .. Len(list) /\ \A i \in 1 .. Len(list) : list[i] \in Tasks
  OBVIOUS
<1>2. \A t \in Tasks : t.id \in Nat \ {0} /\ t.thing \in Things
  BY DEF Tasks
<1> QED
  BY <1>1, <1>2 DEF ToSet, Named, IdsOf

\* What filters.json hides.
Muted(thing, c) == c # Broken /\ thing \in c.mute
\* A task is served, perhaps with less attention, unless it is muted.
LEMMA Serving ==
    ASSUME NEW list \in Seq(Tasks), NEW c
    PROVE  /\ Filtered(list, c) \in Seq(Tasks)
           /\ \A p : p \in Named(Filtered(list, c)) <=> p \in Named(list) /\ ~Muted(p.thing, c)
<1>1. CASE c = Broken
  BY <1>1 DEF Filtered, Muted
<1>2. CASE c # Broken
  <2> DEFINE act(t) == Acted(t, Action(t, c))
             seqs == [i \in DOMAIN list |-> act(list[i])]
  <2>1. ASSUME NEW t \in Tasks
        PROVE  /\ act(t) \in Seq(Tasks)
               /\ Muted(t.thing, c) => ToSet(act(t)) = {}
               /\ ~Muted(t.thing, c) => ToSet(act(t)) # {}
               /\ \A u \in ToSet(act(t)) : u.id = t.id /\ u.thing = t.thing
    <3>1. Deprioritized(t) \in Tasks /\ Deprioritized(t).id = t.id /\ Deprioritized(t).thing = t.thing
      BY DEF Deprioritized, Tasks, Attentions
    <3>2. ToSet(<<>>) = {} /\ \A u : ToSet(<<u>>) = {u}
      BY DEF ToSet
    <3>3. act(t) = IF t.thing \in c.mute THEN <<>>
                   ELSE IF t.thing \in c.low THEN <<Deprioritized(t)>> ELSE <<t>>
      BY DEF Acted, Action
    <3> HIDE DEF act
    <3>4. CASE t.thing \in c.mute
      BY <3>2, <3>3, <3>4, <1>2 DEF Muted
    <3>5. CASE t.thing \notin c.mute /\ t.thing \in c.low
      <4>1. act(t) = <<Deprioritized(t)>> /\ act(t) \in Seq(Tasks)
        BY <3>1, <3>3, <3>5
      <4>2. ToSet(act(t)) = {Deprioritized(t)}
        BY <4>1, <3>2
      <4> QED
        BY <4>1, <4>2, <3>1, <3>5 DEF Muted
    <3>6. CASE t.thing \notin c.mute /\ t.thing \notin c.low
      BY <3>2, <3>3, <3>6, <1>2 DEF Muted
    <3> QED
      BY <3>4, <3>5, <3>6
  <2>2. seqs = [i \in 1 .. Len(list) |-> act(list[i])]
    OBVIOUS
  <2>3. Filtered(list, c) = FlattenSeq(seqs)
    <3>1. \A i \in DOMAIN list : [j \in DOMAIN list |-> Action(list[j], c)][i] = Action(list[i], c)
      OBVIOUS
    <3> QED
      BY <3>1, <1>2 DEF Filtered, ApplyActions
  <2> HIDE DEF act
  <2>4. seqs \in Seq(Seq(Tasks)) /\ Len(seqs) = Len(list) /\ \A i \in 1 .. Len(list) : seqs[i] = act(list[i])
    BY <2>1, <2>2, Placing
  <2>5. /\ FlattenSeq(seqs) \in Seq(Tasks)
        /\ \A t : t \in ToSet(FlattenSeq(seqs)) <=> \E i \in 1 .. Len(list) : t \in ToSet(seqs[i])
    <3> HIDE DEF seqs
    <3> QED
      BY <2>4, Flattened
  <2> HIDE DEF seqs
  <2>6. ASSUME NEW p, p \in Named(Filtered(list, c)) PROVE p \in Named(list) /\ ~Muted(p.thing, c)
    <3>1. PICK t \in ToSet(Filtered(list, c)) : p = [id |-> t.id, thing |-> t.thing]
      BY <2>3, <2>5, <2>6, Placing
    <3>2. PICK i \in 1 .. Len(list) : t \in ToSet(act(list[i]))
      BY <2>3, <2>4, <2>5
    <3>3. list[i] \in Tasks /\ list[i] \in ToSet(list)
      BY DEF ToSet
    <3> QED
      BY <3>1, <3>2, <3>3, <2>1, Placing
  <2>7. ASSUME NEW p, p \in Named(list), ~Muted(p.thing, c) PROVE p \in Named(Filtered(list, c))
    <3>1. PICK i \in 1 .. Len(list) : p = [id |-> list[i].id, thing |-> list[i].thing]
      BY <2>7 DEF Named
    <3>2. list[i] \in Tasks
      OBVIOUS
    <3>3. PICK u \in ToSet(act(list[i])) : u.id = p.id /\ u.thing = p.thing
      BY <3>1, <3>2, <2>1, <2>7
    <3>4. u \in ToSet(Filtered(list, c)) /\ p = [id |-> u.id, thing |-> u.thing]
      BY <3>1, <3>3, <2>3, <2>4, <2>5
    <3> QED
      BY <3>4, <2>3, <2>5, Placing
  <2> QED
    BY <2>3, <2>5, <2>6, <2>7
<1> QED
  BY <1>1, <1>2

\* What is acknowledged leaves the list or stays in it as a task.
LEMMA Acknowledging ==
    ASSUME NEW list \in Seq(Tasks), NEW id
    PROVE  Acknowledged(list, id) \in Seq(Tasks)
<1> DEFINE put(t) == IF t.id = id THEN AckedTask(t) ELSE <<t>>
           seqs == [i \in 1 .. Len(list) |-> put(list[i])]
<1>1. ASSUME NEW t \in Tasks PROVE put(t) \in Seq(Tasks)
  <2>1. [t EXCEPT !.attention = "in_progress"] \in Tasks
    BY DEF Tasks, Attentions
  <2> QED
    BY <2>1 DEF AckedTask
<1>2. Acknowledged(list, id) = FlattenSeq(seqs)
  BY DEF Acknowledged
<1> HIDE DEF put
<1>3. seqs \in Seq(Seq(Tasks))
  BY <1>1, Placing
<1> HIDE DEF seqs
<1> QED
  BY <1>2, <1>3, Flattened

\* A bounded set of numbers has a greatest one.
LEMMA Highest ==
    ASSUME NEW N \in Nat, NEW f, \A i \in 1 .. N : f[i] \in Nat
    PROVE  Max({f[i] : i \in 1 .. N} \cup {0}) \in Nat
<1> DEFINE R(n) == {f[i] : i \in 1 .. n} \cup {0}
           High(n) == \E x \in R(n) : \A y \in R(n) : x >= y
           G == {n \in 0 .. N : High(n)}
<1>1. High(0)
  <2>1. R(0) = {0}
    OBVIOUS
  <2> HIDE DEF R
  <2> QED
    BY <2>1
<1>2. ASSUME NEW n \in 1 .. N, High(n - 1) PROVE High(n)
  <2>1. PICK x \in R(n - 1) : \A y \in R(n - 1) : x >= y
    BY <1>2
  <2>2. R(n) = R(n - 1) \cup {f[n]} /\ R(n) \subseteq Nat
    OBVIOUS
  <2> HIDE DEF R
  <2>3. CASE f[n] >= x
    BY <2>1, <2>2, <2>3
  <2>4. CASE ~(f[n] >= x)
    BY <2>1, <2>2, <2>4
  <2> QED
    BY <2>3, <2>4
<1>3. \A n \in 0 .. N : n \in G
  <2> HIDE DEF High
  <2>1. 0 \in G /\ \A n \in 1 .. N : n - 1 \in G => n \in G
    BY <1>1, <1>2
  <2> HIDE DEF G
  <2> QED
    BY <2>1, Induct
<1>4. High(N) /\ R(N) \subseteq Nat
  BY <1>3
<1>5. Max(R(N)) \in R(N) /\ \A x \in R(N) : Max(R(N)) >= x
  <2> HIDE DEF R
  <2> QED
    BY <1>4 DEF Max
<1> QED
  BY <1>4, <1>5

\* A collection makes tasks, with IDs from 1 on.
LEMMA Assigning ==
    ASSUME NEW things \in Lists, NEW old \in Seq(Tasks)
    PROVE  Assigned(things, old) \in Seq(Tasks)
<1> DEFINE of(thing) == {t \in ToSet(old) : t.thing = thing}
           new == {i \in DOMAIN things : of(things[i]) = {}}
           id(i) == IF i \in new THEN Fresh(old, Cardinality({j \in new : j <= i}))
                    ELSE (CHOOSE t \in of(things[i]) : TRUE).id
<1>1. things \in Seq(Things)
  <2>1. Cardinality(Things) \in Nat
    BY ServedAssumption, FS_CardinalityType DEF ServedAssumption
  <2>2. PICK n \in Nat : things \in [1 .. n -> Things]
    BY <2>1 DEF Lists, SeqOf
  <2> QED
    BY <2>2
<1>2. Max(IdsOf(old) \cup {0}) \in Nat
  <2> DEFINE f == [i \in 1 .. Len(old) |-> old[i].id]
  <2>1. \A i \in 1 .. Len(old) : f[i] \in Nat
    BY Placing DEF Tasks
  <2>2. IdsOf(old) = {f[i] : i \in 1 .. Len(old)}
    BY DEF IdsOf
  <2>3. Len(old) \in Nat
    OBVIOUS
  <2> HIDE DEF f
  <2>4. Max({f[i] : i \in 1 .. Len(old)} \cup {0}) \in Nat
    BY <2>1, <2>3, Highest
  <2> QED
    BY <2>2, <2>4
<1>3. ASSUME NEW i \in DOMAIN things PROVE id(i) \in Nat \ {0}
  <2>1. CASE i \in new
    <3>1. IsFiniteSet(DOMAIN things)
      BY <1>1, FS_Interval
    <3>2. IsFiniteSet({j \in new : j <= i}) /\ i \in {j \in new : j <= i}
      BY <3>1, <2>1, <1>1, FS_Subset
    <3> HIDE DEF new
    <3>3. Cardinality({j \in new : j <= i}) \in Nat /\ Cardinality({j \in new : j <= i}) # 0
      BY <3>2, FS_CardinalityType, FS_EmptySet
    <3> QED
      BY <2>1, <3>3, <1>2 DEF Fresh
  <2>2. CASE i \notin new
    <3>1. (CHOOSE t \in of(things[i]) : TRUE) \in of(things[i])
      BY <2>2
    <3>2. (CHOOSE t \in of(things[i]) : TRUE) \in Tasks
      BY <3>1, Placing
    <3> HIDE DEF of, new
    <3> QED
      BY <2>2, <3>2 DEF Tasks
  <2> QED
    BY <2>1, <2>2
<1>4. Assigned(things, old) = [i \in DOMAIN things |-> Task(things[i], id(i))]
  BY DEF Assigned
<1> HIDE DEF id
<1>5. \A i \in DOMAIN things : Task(things[i], id(i)) \in Tasks
  BY <1>1, <1>3, ServedAssumption DEF ServedAssumption, Task, Tasks
<1> QED
  BY <1>1, <1>4, <1>5


-----------------------------------------------------------------------------
(* The inductive invariant.                                                *)

\* An answer counts what it lists.
AnswersCount == \A r \in Requests : req[r].at = "answer" => req[r].count = Summary(req[r].list)
\* What has been seen is the list that fetch used last, and what has stayed in
\* the view since was in it.
SeenIsLast ==
    /\ seen = Unknown \/ seen = IdsOf(last)
    /\ \A p \in steady : p.id \in IdsOf(last)
\* It is in every answer under way that has not been crossed.
SteadyServed ==
    /\ steady \subseteq Named(View)
    /\ \A r \in Requests : Underway(r) /\ ~req[r].crossed => steady \subseteq Named(req[r].list)
IInv == TypeOK /\ CountsMatchItems /\ AnswersCount /\ SeenIsLast /\ SteadyServed

\* What a request has at which stage.
LEMMA Stages ==
    ASSUME NEW q \in States
    PROVE  /\ q.at \in {"idle", "sent", "copied", "answer", "ack", "acked", "ackCount", "ackAnswer"}
           /\ q.at = "sent" => q.retried \in BOOLEAN
           /\ q.at = "copied" => q \in [at : {"copied"}, retried : BOOLEAN, list : Seq(Tasks), crossed : BOOLEAN]
           /\ q.at = "answer" =>
                q \in [at : {"answer"}, retried : BOOLEAN, list : Seq(Tasks), count : Counts, crossed : BOOLEAN]
           /\ q.at = "ack" => q.id \in Nat \ {0}
           /\ q.at = "ackCount" => q.count \in Counts
           /\ q.at = "ackAnswer" => q.count \in Counts /\ q.list \in Seq(Tasks)
BY DEF States

\* It holds when the session starts.
LEMMA Initially == Init => IInv
<1> SUFFICES ASSUME Init PROVE IInv
  OBVIOUS
<1>1. <<>> \in Seq(Tasks) /\ Summary(<<>>) \in Counts
  <2>1. <<>> \in Seq(Tasks)
    OBVIOUS
  <2> QED
    BY <2>1, Counting
<1>2. TypeOK
  BY <1>1 DEF Init, TypeOK, Idle, States
<1>3. CountsMatchItems /\ AnswersCount
  BY DEF Init, CountsMatchItems, AnswersCount, Idle
<1>4. SeenIsLast /\ SteadyServed
  BY DEF Init, SeenIsLast, SteadyServed, Underway, Idle
<1> QED
  BY <1>2, <1>3, <1>4 DEF IInv

\* A change of the view, while requests only come to their start or go on without an answer.
LEMMA ViewChanges ==
    ASSUME IInv, held' \in Seq(Tasks), cfg' \in Configs \cup {Broken},
           req' \in [Requests -> States],
           \A r \in Requests : req'[r] = req[r] \/ req'[r].at \in {"idle", "sent", "ack", "acked", "ackCount", "ackAnswer"},
           StillSteady, UNCHANGED <<client, last, fromAck>>
    PROVE  IInv'
<1>1. steady' \subseteq steady /\ steady' \subseteq Named(View')
  BY DEF StillSteady
<1>2. TypeOK'
  BY <1>1 DEF IInv, TypeOK, client
<1>3. CountsMatchItems' /\ AnswersCount'
  BY DEF IInv, CountsMatchItems, AnswersCount, client
<1>4. SeenIsLast'
  BY <1>1 DEF IInv, SeenIsLast, client
<1>5. SteadyServed'
  BY <1>1 DEF IInv, SteadyServed, Underway
<1> QED
  BY <1>2, <1>3, <1>4, <1>5 DEF IInv

\* The same where the view stays.
LEMMA ViewStays ==
    ASSUME IInv, UNCHANGED <<held, cfg>>, req' \in [Requests -> States],
           \A r \in Requests : req'[r] = req[r] \/ req'[r].at \in {"idle", "sent", "ack", "acked", "ackCount", "ackAnswer"},
           UNCHANGED <<client, history>>
    PROVE  IInv'
<1>1. StillSteady
  BY DEF IInv, SteadyServed, StillSteady, View, history
<1> QED
  BY <1>1, ViewChanges DEF IInv, TypeOK, history

\* Every step keeps it.
LEMMA Stepping == IInv /\ [Next]_vars => IInv'
<1> SUFFICES ASSUME IInv, [Next]_vars PROVE IInv'
  OBVIOUS
<1> USE DEF env
<1>0. TypeOK
  BY DEF IInv
<1>1. CASE UNCHANGED vars
  <2>1. StillSteady
    BY <1>1 DEF IInv, SteadyServed, StillSteady, View, vars
  <2> QED
    BY <1>1, ViewStays DEF vars, IInv, TypeOK, client, history
<1>2. CASE Collect
  <2>1. PICK things \in Lists, old \in {held, <<>>} : held' = Assigned(things, old)
    BY <1>2 DEF Collect
  <2>2. old \in Seq(Tasks)
    <3>1. held \in Seq(Tasks) /\ <<>> \in Seq(Tasks)
      BY <1>0 DEF TypeOK
    <3> QED
      BY <2>1, <3>1
  <2>3. held' \in Seq(Tasks)
    BY <2>1, <2>2, Assigning
  <2> QED
    BY <1>0, <1>2, <2>3, ViewChanges DEF Collect, TypeOK
<1>3. CASE Edit
  BY <1>0, <1>3, ViewChanges DEF Edit, TypeOK
<1>4. ASSUME NEW r \in Requests, Copy(r) PROVE IInv'
  <2>1. req[r].retried \in BOOLEAN
    BY <1>0, <1>4, Stages DEF Copy, TypeOK
  <2> DEFINE q == [at |-> "copied", retried |-> req[r].retried, list |-> held, crossed |-> FALSE]
  <2>2. q \in States
    BY <2>1, <1>0 DEF TypeOK, States
  <2>3. req' = [req EXCEPT ![r] = q] /\ UNCHANGED <<held, cfg, client, history>>
    BY <1>4 DEF Copy
  <2>4. steady \subseteq Named(held)
    <3>1. held \in Seq(Tasks) /\ steady \subseteq Named(Filtered(held, cfg))
      BY <1>0 DEF IInv, SteadyServed, View, TypeOK
    <3> QED
      BY <3>1, Serving
  <2>5. q.at = "copied" /\ q.list = held
    OBVIOUS
  <2> HIDE DEF q
  <2>6. req' \in [Requests -> States] /\ req'[r] = q /\ \A p \in Requests \ {r} : req'[p] = req[p]
    BY <2>2, <2>3, <1>0 DEF TypeOK
  <2>7. TypeOK'
    BY <2>3, <2>6, <1>0 DEF TypeOK, client, history
  <2>8. CountsMatchItems' /\ AnswersCount' /\ SeenIsLast'
    BY <2>3, <2>5, <2>6 DEF IInv, CountsMatchItems, AnswersCount, SeenIsLast, client, history
  <2>9. SteadyServed'
    BY <2>3, <2>4, <2>5, <2>6 DEF IInv, SteadyServed, Underway, View, history
  <2> QED
    BY <2>7, <2>8, <2>9 DEF IInv
<1>5. ASSUME NEW r \in Requests, Filter(r) PROVE IInv'
  <2> DEFINE served == Filtered(req[r].list, cfg)
             q == [at |-> "answer", retried |-> req[r].retried, list |-> served,
                   count |-> Counted(req[r].list, served), crossed |-> req[r].crossed]
  <2>1. /\ req[r].list \in Seq(Tasks) /\ req[r].retried \in BOOLEAN /\ req[r].crossed \in BOOLEAN
        /\ req[r].at = "copied"
    BY <1>0, <1>5, Stages DEF Filter, TypeOK
  <2>2. served \in Seq(Tasks) /\ Summary(served) \in Counts
    BY <2>1, Serving, Counting
  <2>3. req' = [req EXCEPT ![r] = q] /\ UNCHANGED <<held, cfg, client, history>>
    BY <1>5 DEF Filter
  <2>4. ASSUME ~req[r].crossed PROVE steady \subseteq Named(served)
    <3>1. held \in Seq(Tasks) /\ steady \subseteq Named(Filtered(held, cfg)) /\ steady \subseteq Named(req[r].list)
      BY <1>0, <2>1, <2>4 DEF IInv, SteadyServed, View, TypeOK, Underway
    <3>2. \A p \in steady : ~Muted(p.thing, cfg)
      BY <3>1, Serving
    <3> QED
      BY <2>1, <3>1, <3>2, Serving
  <2>5. q.at = "answer" /\ q.list = served /\ q.count = Summary(served) /\ q.crossed = req[r].crossed
    BY DEF Counted
  <2>6. q \in States
    BY <2>1, <2>2 DEF States, Counted
  <2> HIDE DEF q, served
  <2>7. req' \in [Requests -> States] /\ req'[r] = q /\ \A p \in Requests \ {r} : req'[p] = req[p]
    BY <2>3, <2>6, <1>0 DEF TypeOK
  <2>8. TypeOK'
    BY <2>3, <2>7, <1>0 DEF TypeOK, client, history
  <2>9. CountsMatchItems' /\ AnswersCount' /\ SeenIsLast'
    BY <2>3, <2>5, <2>7 DEF IInv, CountsMatchItems, AnswersCount, SeenIsLast, client, history
  <2>10. SteadyServed'
    BY <2>3, <2>4, <2>5, <2>7 DEF IInv, SteadyServed, Underway, View, history
  <2> QED
    BY <2>8, <2>9, <2>10 DEF IInv
<1>6. ASSUME NEW r \in Requests, Acknowledge(r) PROVE IInv'
  <2>1. held' \in Seq(Tasks)
    BY <1>0, <1>6, Acknowledging DEF Acknowledge, TypeOK
  <2>2. [at |-> "acked"] \in States
    BY DEF States
  <2>3. req' \in [Requests -> States] /\ \A p \in Requests : req'[p] = req[p] \/ req'[p].at = "acked"
    BY <1>0, <1>6, <2>2 DEF Acknowledge, TypeOK
  <2> QED
    BY <1>0, <1>6, <2>1, <2>3, ViewChanges DEF Acknowledge, TypeOK
<1>7. ASSUME NEW r \in Requests, AckSummary(r) \/ AckTasks(r) \/ Send(r) \/ SendAck(r) \/ Fail(r) PROVE IInv'
  <2>1. UNCHANGED <<held, cfg, client, history>>
    BY <1>7 DEF AckSummary, AckTasks, Send, SendAck, Fail
  <2>2. \E q \in States : /\ q.at \in {"idle", "sent", "ack", "acked", "ackCount", "ackAnswer"}
                          /\ req' = [req EXCEPT ![r] = q]
    <3>1. CASE AckSummary(r)
      <4>1. Summary(held) \in Counts
        BY <1>0, Counting DEF TypeOK
      <4> QED
        BY <3>1, <4>1 DEF AckSummary, States
    <3>2. CASE AckTasks(r)
      <4>1. req[r].count \in Counts
        BY <1>0, <3>2, Stages DEF TypeOK, AckTasks
      <4> QED
        BY <3>2, <4>1, <1>0 DEF AckTasks, States, TypeOK
    <3>3. CASE Send(r)
      BY <3>3 DEF Send, States
    <3>4. CASE SendAck(r)
      <4>1. PICK id \in IdsOf(items) : req' = [req EXCEPT ![r] = [at |-> "ack", id |-> id]]
        BY <3>4 DEF SendAck
      <4>2. id \in Nat \ {0}
        BY <1>0, <4>1, Placing DEF TypeOK
      <4> QED
        BY <4>1, <4>2 DEF States
    <3>5. CASE Fail(r)
      <4>1. Idle \in States /\ [at |-> "sent", retried |-> TRUE] \in States
        BY DEF Idle, States
      <4> QED
        BY <3>5, <4>1 DEF Fail, Idle
    <3> QED
      BY <1>7, <3>1, <3>2, <3>3, <3>4, <3>5
  <2>3. req' \in [Requests -> States]
    BY <1>0, <2>2 DEF TypeOK
  <2>4. \A p \in Requests : req'[p] = req[p] \/ req'[p].at \in {"idle", "sent", "ack", "acked", "ackCount", "ackAnswer"}
    BY <1>0, <2>2 DEF TypeOK
  <2> QED
    BY <2>1, <2>3, <2>4, ViewStays
<1>8. ASSUME NEW r \in Requests, UseAnswer(r) PROVE IInv'
  <2> DEFINE Crosses(p) ==
               /\ req'[p].crossed /\ req'[p].at = req[p].at
               /\ req[p].at = "answer" => req'[p].count = req[p].count /\ req'[p].list = req[p].list
  <2>1. /\ req[r].list \in Seq(Tasks) /\ req[r].count \in Counts
        /\ req[r].count = Summary(req[r].list)
        /\ ~req[r].crossed => steady \subseteq Named(req[r].list)
    BY <1>0, <1>8, Stages DEF UseAnswer, TypeOK, IInv, AnswersCount, SteadyServed, Underway
  <2>2. /\ summary' = req[r].count /\ items' = req[r].list /\ seen' = IdsOf(req[r].list)
        /\ last' = req[r].list /\ UNCHANGED <<held, cfg>>
        /\ steady' \subseteq Named(req[r].list) /\ steady' \subseteq Named(View)
    BY <1>8, <2>1 DEF UseAnswer, Shown, Seen
  <2>3. /\ IdsOf(req[r].list) \subseteq Nat \ {0}
        /\ Named(req[r].list) \subseteq [id : Nat \ {0}, thing : Things]
        /\ \A p \in Named(req[r].list) : p.id \in IdsOf(req[r].list)
    BY <2>1, Placing
  <2>4. /\ req' \in [Requests -> States]
        /\ \A p \in Requests : \/ ~Underway(p)'
                               \/ Crosses(p)
    <3>1. \A p \in Requests : req[p] \in States
      BY <1>0 DEF TypeOK
    <3>2. ASSUME NEW p \in Requests, p # r, Underway(p)
          PROVE  /\ [req[p] EXCEPT !.crossed = TRUE] \in States
                 /\ [req[p] EXCEPT !.crossed = TRUE].crossed
                 /\ [req[p] EXCEPT !.crossed = TRUE].at = req[p].at
                 /\ req[p].at = "answer" => /\ [req[p] EXCEPT !.crossed = TRUE].count = req[p].count
                                            /\ [req[p] EXCEPT !.crossed = TRUE].list = req[p].list
      <4>1. CASE req[p].at = "copied"
        <5>1. req[p] \in [at : {"copied"}, retried : BOOLEAN, list : Seq(Tasks), crossed : BOOLEAN]
          BY <3>1, <4>1, Stages
        <5>2. [req[p] EXCEPT !.crossed = TRUE] \in
                [at : {"copied"}, retried : BOOLEAN, list : Seq(Tasks), crossed : BOOLEAN]
          BY <5>1
        <5> QED
          BY <4>1, <5>1, <5>2 DEF States
      <4>2. CASE req[p].at = "answer"
        <5>1. req[p] \in [at : {"answer"}, retried : BOOLEAN, list : Seq(Tasks), count : Counts, crossed : BOOLEAN]
          BY <3>1, <4>2, Stages
        <5>2. [req[p] EXCEPT !.crossed = TRUE] \in
                [at : {"answer"}, retried : BOOLEAN, list : Seq(Tasks), count : Counts, crossed : BOOLEAN]
          BY <5>1
        <5> QED
          BY <4>2, <5>1, <5>2 DEF States
      <4> QED
        BY <3>2, <4>1, <4>2 DEF Underway
    <3>3. Idle \in States /\ Idle.at = "idle"
      BY DEF Idle, States
    <3>4. req' = [p \in Requests |-> IF p = r THEN Idle
                        ELSE IF Underway(p) THEN [req[p] EXCEPT !.crossed = TRUE] ELSE req[p]]
      BY <1>8 DEF UseAnswer, AfterUse
    <3>5. ASSUME NEW p \in Requests
          PROVE  req'[p] = IF p = r THEN Idle
                           ELSE IF Underway(p) THEN [req[p] EXCEPT !.crossed = TRUE] ELSE req[p]
      BY <3>4
    <3>6. req' \in [Requests -> States]
      BY <3>1, <3>2, <3>3, <3>4
    <3>7. ASSUME NEW p \in Requests
          PROVE  ~Underway(p)' \/ Crosses(p)
      <4>1. CASE p = r
        BY <3>3, <3>5, <4>1 DEF Underway
      <4>2. CASE p # r /\ Underway(p)
        BY <3>2, <3>5, <4>2 DEF Underway
      <4>3. CASE p # r /\ ~Underway(p)
        BY <3>5, <4>3 DEF Underway
      <4> QED
        BY <4>1, <4>2, <4>3
    <3> QED
      BY <3>6, <3>7
  <2>5. TypeOK'
    BY <1>0, <2>1, <2>2, <2>3, <2>4 DEF TypeOK
  <2>6. CountsMatchItems' /\ SeenIsLast'
    BY <2>1, <2>2, <2>3 DEF CountsMatchItems, SeenIsLast
  <2>7. AnswersCount'
    <3> SUFFICES ASSUME NEW p \in Requests, req'[p].at = "answer"
                 PROVE  req'[p].count = Summary(req'[p].list)
      BY DEF AnswersCount
    <3>1. Underway(p)'
      BY DEF Underway
    <3>2. req'[p].at = req[p].at /\ req'[p].count = req[p].count /\ req'[p].list = req[p].list
      BY <2>4, <3>1 DEF Underway
    <3> QED
      BY <3>2 DEF IInv, AnswersCount
  <2>8. SteadyServed'
    <3>1. View' = View
      BY <2>2 DEF View
    <3>2. ASSUME NEW p \in Requests, Underway(p)' PROVE req'[p].crossed
      BY <2>4, <3>2 DEF Underway
    <3> QED
      BY <2>2, <3>1, <3>2 DEF SteadyServed
  <2> QED
    BY <2>5, <2>6, <2>7, <2>8 DEF IInv
<1>9. ASSUME NEW r \in Requests, UseAck(r) PROVE IInv'
  <2>1. req[r].count \in Counts /\ req[r].list \in Seq(Tasks)
    BY <1>0, <1>9, Stages DEF UseAck, TypeOK
  <2>2. Idle \in States /\ Idle.at = "idle"
    BY DEF Idle, States
  <2>3. req' \in [Requests -> States] /\ \A p \in Requests : req'[p] = req[p] \/ req'[p].at = "idle"
    BY <1>0, <1>9, <2>2 DEF UseAck, TypeOK
  <2>4. /\ summary' = req[r].count /\ items' = req[r].list /\ seen' = seen /\ fromAck' = TRUE
        /\ UNCHANGED <<held, cfg, last, steady>>
    BY <1>9 DEF UseAck, StillSeen
  <2>5. TypeOK'
    BY <1>0, <2>1, <2>3, <2>4 DEF TypeOK
  <2>6. CountsMatchItems' /\ SeenIsLast' /\ AnswersCount'
    BY <2>3, <2>4 DEF IInv, CountsMatchItems, SeenIsLast, AnswersCount
  <2>7. SteadyServed'
    BY <2>3, <2>4 DEF IInv, SteadyServed, Underway, View
  <2> QED
    BY <2>5, <2>6, <2>7 DEF IInv
<1> QED
  BY <1>1, <1>2, <1>3, <1>4, <1>5, <1>6, <1>7, <1>8, <1>9 DEF Next, Serve, Use

-----------------------------------------------------------------------------
(* The theorems.                                                           *)

\* It holds always.
LEMMA Invariance == Spec => []IInv
<1>1. Init => IInv
  BY Initially
<1>2. IInv /\ [Next]_vars => IInv'
  BY Stepping
<1> QED
  BY <1>1, <1>2, PTL DEF Spec

\* Requests carry lists and counts of tasks, whatever answers, fails or changes.
THEOREM Typed == Spec => []TypeOK
<1>1. IInv => TypeOK
  BY DEF IInv
<1> QED
  BY <1>1, Invariance, PTL

\* The statusline's numbers are those of the list shown, unless an ack has answered last.
THEOREM CountsAreOfItems == Spec => []CountsMatchItems
<1>1. IInv => CountsMatchItems
  BY DEF IInv
<1> QED
  BY <1>1, Invariance, PTL

\* notify_new_items misses no new ID, and announces nothing twice that has stayed in
\* the view.
THEOREM NewsOnce == Spec => AnnouncedOnce
<1>1. ASSUME IInv, NEW r \in Requests, UseAnswer(r), seen # Unknown, NEW t \in ToSet(req[r].list)
      PROVE  /\ t.id \notin IdsOf(last) => t \in Announced(req[r].list)
             /\ [id |-> t.id, thing |-> t.thing] \in steady => t \notin Announced(req[r].list)
  BY <1>1 DEF IInv, SeenIsLast, Announced
<1>2. IInv /\ [Next]_vars =>
        [\A r \in Requests : UseAnswer(r) /\ seen # Unknown =>
          \A t \in ToSet(req[r].list) :
              /\ t.id \notin IdsOf(last) => t \in Announced(req[r].list)
              /\ [id |-> t.id, thing |-> t.thing] \in steady => t \notin Announced(req[r].list)]_vars
  BY <1>1
<1> QED
  BY <1>2, Invariance, PTL DEF Spec, AnnouncedOnce
=============================================================================
