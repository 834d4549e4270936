------------------------- MODULE TimerManager_proofs -------------------------
(* The sorted list of timers, proved for every number of threads, every    *)
(* table size, every set of intervals, and for an unbounded clock: the     *)
(* bound MaxNow is any number.                                             *)
EXTENDS TimerManager, SequenceTheorems, TLAPS

\* What the code relies on whenever timerMutex_ is free, of any list q.
Sorted(q) == \A i, j \in 1 .. Len(q) :
               i <= j => q[i].nextCallTime <= q[j].nextCallTime
Unique(q) == \A i, j \in 1 .. Len(q) : q[i].id = q[j].id => i = j
ListOK(q) == q \in Seq(Timer) /\ Unique(q) /\ Sorted(q)
NoneHas(q, id) == \A i \in 1 .. Len(q) : q[i].id # id
-----------------------------------------------------------------------------
(* Sequences.                                                              *)

LEMMA ListIsSequence ==
  ASSUME NEW q, ListOK(q)
  PROVE  q \in Seq(Timer)
BY DEF ListOK

\* What InsertAt returns, element by element.
LEMMA InsertAtElements ==
  ASSUME NEW q \in Seq(Timer), NEW k \in 1 .. Len(q) + 1, NEW x \in Timer
  PROVE  /\ InsertAt(q, k, x) \in Seq(Timer)
         /\ Len(InsertAt(q, k, x)) = Len(q) + 1
         /\ \A i \in 1 .. k - 1 : InsertAt(q, k, x)[i] = q[i]
         /\ InsertAt(q, k, x)[k] = x
         /\ \A i \in k + 1 .. Len(q) + 1 : InsertAt(q, k, x)[i] = q[i - 1]
<1> DEFINE a == SubSeq(q, 1, k - 1)
           c == SubSeq(q, k, Len(q))
<1>1. Len(q) \in Nat /\ k \in Nat
  OBVIOUS
<1>2. a \in Seq(Timer) /\ Len(a) = k - 1 /\ \A i \in 1 .. k - 1 : a[i] = q[i]
  BY <1>1
<1>3. c \in Seq(Timer) /\ Len(c) = Len(q) - k + 1
      /\ \A i \in 1 .. Len(q) - k + 1 : c[i] = q[k + i - 1]
  BY <1>1
<1> HIDE DEF a, c
<1>4. InsertAt(q, k, x) = a \o <<x>> \o c
  BY DEF InsertAt, a, c
<1>x. <<x>> \in Seq(Timer) /\ Len(<<x>>) = 1 /\ <<x>>[1] = x
  OBVIOUS
<1>5. /\ a \o <<x>> \in Seq(Timer) /\ Len(a \o <<x>>) = k
      /\ \A i \in 1 .. k : (a \o <<x>>)[i] = IF i < k THEN q[i] ELSE x
  <2>1. /\ a \o <<x>> \in Seq(Timer) /\ Len(a \o <<x>>) = Len(a) + Len(<<x>>)
        /\ \A i \in 1 .. Len(a) + Len(<<x>>) :
             (a \o <<x>>)[i] = IF i <= Len(a) THEN a[i] ELSE <<x>>[i - Len(a)]
    BY <1>2, <1>x, ConcatProperties, Zenon
  <2> QED
    BY <1>1, <1>2, <1>x, <2>1
<1>6. /\ (a \o <<x>>) \o c \in Seq(Timer)
      /\ Len((a \o <<x>>) \o c) = Len(q) + 1
      /\ \A i \in 1 .. Len(q) + 1 :
           ((a \o <<x>>) \o c)[i] = IF i <= k THEN (a \o <<x>>)[i] ELSE c[i - k]
  <2> DEFINE ax == a \o <<x>>
  <2>0. ax \in Seq(Timer) /\ Len(ax) = k
    BY <1>5
  <2> HIDE DEF ax
  <2>1. /\ ax \o c \in Seq(Timer) /\ Len(ax \o c) = Len(ax) + Len(c)
        /\ \A i \in 1 .. Len(ax) + Len(c) :
             (ax \o c)[i] = IF i <= Len(ax) THEN ax[i] ELSE c[i - Len(ax)]
    BY <1>3, <2>0, ConcatProperties, Zenon
  <2>2. Len(ax) + Len(c) = Len(q) + 1
    BY <1>1, <1>3, <2>0
  <2> QED
    BY <2>0, <2>1, <2>2 DEF ax
<1> DEFINE ax == a \o <<x>>
           w  == ax \o c
<1>7. /\ w = InsertAt(q, k, x) /\ w \in Seq(Timer) /\ Len(w) = Len(q) + 1
      /\ \A i \in 1 .. Len(q) + 1 : w[i] = IF i <= k THEN ax[i] ELSE c[i - k]
      /\ \A i \in 1 .. k : ax[i] = IF i < k THEN q[i] ELSE x
  <2>1. w = InsertAt(q, k, x)
    BY <1>1, <1>2, <1>3, <1>4, <1>x, ConcatAssociative
  <2> QED
    BY <1>5, <1>6, <2>1
<1> HIDE DEF ax, w
<1>8. \A i \in 1 .. k - 1 : w[i] = q[i]
  BY <1>1, <1>7
<1>9. w[k] = x
  BY <1>1, <1>7
<1>10. ASSUME NEW i \in k + 1 .. Len(q) + 1
       PROVE  w[i] = q[i - 1]
  <2>1. w[i] = c[i - k]
    BY <1>1, <1>7
  <2>2. i - k \in 1 .. Len(q) - k + 1 /\ k + (i - k) - 1 = i - 1
    BY <1>1
  <2>3. c[i - k] = q[i - 1]
    BY <1>3, <2>2
  <2> QED
    BY <2>1, <2>3
<1> QED
  BY <1>7, <1>8, <1>9, <1>10

\* What RemoveAt returns, element by element.
LEMMA RemoveAtElements ==
  ASSUME NEW q \in Seq(Timer), NEW k \in 1 .. Len(q)
  PROVE  /\ RemoveAt(q, k) \in Seq(Timer)
         /\ Len(RemoveAt(q, k)) = Len(q) - 1
         /\ \A i \in 1 .. Len(q) - 1 :
              RemoveAt(q, k)[i] = IF i < k THEN q[i] ELSE q[i + 1]
<1> DEFINE a == SubSeq(q, 1, k - 1)
           c == SubSeq(q, k + 1, Len(q))
<1>1. Len(q) \in Nat /\ k \in Nat
  OBVIOUS
<1>2. a \in Seq(Timer) /\ Len(a) = k - 1 /\ \A i \in 1 .. k - 1 : a[i] = q[i]
  BY <1>1
<1>3. c \in Seq(Timer) /\ Len(c) = Len(q) - k
      /\ \A i \in 1 .. Len(q) - k : c[i] = q[k + i]
  BY <1>1
<1> HIDE DEF a, c
<1>4. RemoveAt(q, k) = a \o c
  BY DEF RemoveAt, a, c
<1>5. /\ a \o c \in Seq(Timer) /\ Len(a \o c) = Len(q) - 1
      /\ \A i \in 1 .. Len(q) - 1 :
           (a \o c)[i] = IF i <= k - 1 THEN a[i] ELSE c[i - (k - 1)]
  <2>1. /\ a \o c \in Seq(Timer) /\ Len(a \o c) = Len(a) + Len(c)
        /\ \A i \in 1 .. Len(a) + Len(c) :
             (a \o c)[i] = IF i <= Len(a) THEN a[i] ELSE c[i - Len(a)]
    BY <1>2, <1>3, ConcatProperties, Zenon
  <2>2. Len(a) + Len(c) = Len(q) - 1
    BY <1>1, <1>2, <1>3
  <2> QED
    BY <1>2, <2>1, <2>2
<1> DEFINE w == a \o c
<1>6. w = RemoveAt(q, k) /\ w \in Seq(Timer) /\ Len(w) = Len(q) - 1
      /\ \A i \in 1 .. Len(q) - 1 :
           w[i] = IF i <= k - 1 THEN a[i] ELSE c[i - (k - 1)]
  BY <1>4, <1>5
<1> HIDE DEF w
<1>7. ASSUME NEW i \in 1 .. Len(q) - 1
      PROVE  w[i] = IF i < k THEN q[i] ELSE q[i + 1]
  <2>1. CASE i < k
    <3>1. i \in 1 .. k - 1 /\ w[i] = a[i]
      BY <1>1, <1>6, <2>1
    <3> QED
      BY <1>1, <1>2, <2>1, <3>1
  <2>2. CASE i >= k
    <3>0. i \in 1 .. Len(q) - 1 /\ ~(i <= k - 1)
      BY <1>1, <2>2
    <3>1. w[i] = c[i - (k - 1)]
      <4>1. w[i] = IF i <= k - 1 THEN a[i] ELSE c[i - (k - 1)]
        BY <1>6, <3>0, Zenon
      <4> QED
        BY <3>0, <4>1, Zenon
    <3>2. i - (k - 1) \in 1 .. Len(q) - k /\ k + (i - (k - 1)) = i + 1
      BY <1>1, <2>2
    <3>3. c[i - (k - 1)] = q[i + 1]
      BY <1>3, <3>2
    <3> QED
      BY <1>1, <2>2, <3>1, <3>3
  <2> QED
    BY <1>1, <2>1, <2>2
<1> QED
  BY <1>6, <1>7

\* Tail drops the first element.
LEMMA TailElements ==
  ASSUME NEW S, NEW q \in Seq(S), q # << >>
  PROVE  /\ Tail(q) \in Seq(S)
         /\ Len(Tail(q)) = Len(q) - 1
         /\ \A i \in 1 .. Len(q) - 1 : Tail(q)[i] = q[i + 1]
         /\ Len(q) \in Nat \ {0} /\ q[1] \in S
  OBVIOUS
-----------------------------------------------------------------------------
(* The list operations of the manager keep the list in order.              *)

\* Insertion of a timer with an id of its own.
LEMMA InsertKeeps ==
  ASSUME NEW q, ListOK(q), NEW t \in Timer, NoneHas(q, t.id),
         NEW k \in 1 .. Len(q) + 1, IsInsertPosition(q, t, k)
  PROVE  ListOK(InsertAt(q, k, t))
<1> DEFINE r == InsertAt(q, k, t)
<1>1. q \in Seq(Timer) /\ Len(q) \in Nat /\ \A i \in 1 .. Len(q) : q[i] \in Timer
  BY DEF ListOK
<1>2. /\ r \in Seq(Timer) /\ Len(r) = Len(q) + 1
      /\ \A i \in 1 .. k - 1 : r[i] = q[i]
      /\ r[k] = t
      /\ \A i \in k + 1 .. Len(q) + 1 : r[i] = q[i - 1]
  <2>1. q \in Seq(Timer)
    BY <1>1
  <2>2. r \in Seq(Timer) /\ Len(r) = Len(q) + 1
    BY <2>1, InsertAtElements
  <2>3. \A i \in 1 .. k - 1 : r[i] = q[i]
    BY <2>1, InsertAtElements
  <2>4. r[k] = t
    BY <2>1, InsertAtElements
  <2>5. \A i \in k + 1 .. Len(q) + 1 : r[i] = q[i - 1]
    BY <2>1, InsertAtElements
  <2> QED
    BY <2>2, <2>3, <2>4, <2>5
<1> HIDE DEF r
<1>3. ASSUME NEW i \in 1 .. Len(r), NEW j \in 1 .. Len(r), r[i].id = r[j].id
      PROVE  i = j
  <2>1. CASE i = k
    <3>1. r[i] = t
      BY <1>1, <1>2, <2>1
    <3>2. j < k => j \in 1 .. Len(q) /\ r[j] = q[j]
      BY <1>1, <1>2
    <3>3. j > k => j - 1 \in 1 .. Len(q) /\ r[j] = q[j - 1]
      BY <1>1, <1>2
    <3>4. \A m \in 1 .. Len(q) : q[m].id # t.id
      BY DEF NoneHas
    <3>5. ~(j < k) /\ ~(j > k)
      BY <1>3, <3>1, <3>2, <3>3, <3>4
    <3>6. j \in Int /\ k \in Int
      BY <1>1, <1>2
    <3> QED
      BY <2>1, <3>5, <3>6
  <2>2. CASE j = k
    <3>1. r[j] = t
      BY <1>1, <1>2, <2>2
    <3>2. i < k => i \in 1 .. Len(q) /\ r[i] = q[i]
      BY <1>1, <1>2
    <3>3. i > k => i - 1 \in 1 .. Len(q) /\ r[i] = q[i - 1]
      BY <1>1, <1>2
    <3>4. \A m \in 1 .. Len(q) : q[m].id # t.id
      BY DEF NoneHas
    <3>5. ~(i < k) /\ ~(i > k)
      BY <1>3, <3>1, <3>2, <3>3, <3>4
    <3>6. i \in Int /\ k \in Int
      BY <1>1, <1>2
    <3> QED
      BY <2>2, <3>5, <3>6
  <2>3. CASE i # k /\ j # k
    <3> DEFINE I == IF i < k THEN i ELSE i - 1
               J == IF j < k THEN j ELSE j - 1
    <3>1. I \in 1 .. Len(q) /\ r[i] = q[I]
      BY <1>1, <1>2, <2>3
    <3>2. J \in 1 .. Len(q) /\ r[j] = q[J]
      BY <1>1, <1>2, <2>3
    <3>3. I = J
      BY <1>3, <3>1, <3>2 DEF ListOK, Unique
    <3> QED
      BY <1>1, <1>2, <2>3, <3>3
  <2> QED
    BY <2>1, <2>2, <2>3
<1>4. ASSUME NEW i \in 1 .. Len(r), NEW j \in 1 .. Len(r), i <= j
      PROVE  r[i].nextCallTime <= r[j].nextCallTime
  <2>0. t.nextCallTime \in Int
        /\ \A m \in 1 .. Len(q) : q[m].nextCallTime \in Int
    BY <1>1 DEF Timer
  <2>1. CASE j < k
    <3>1. r[i] = q[i] /\ r[j] = q[j] /\ i \in 1 .. Len(q) /\ j \in 1 .. Len(q)
      BY <1>1, <1>2, <1>4, <2>1
    <3> QED
      BY <1>4, <3>1 DEF ListOK, Sorted
  <2>2. CASE i < k /\ j = k
    BY <1>1, <1>2, <2>0, <2>2 DEF IsInsertPosition
  <2>3. CASE i = k /\ j = k
    <3>1. r[k] = t
      BY <1>2
    <3>2. r[i] = t /\ r[j] = t
      BY <2>3, <3>1, Zenon
    <3> QED
      BY <2>0, <3>2
  <2>4. CASE i = k /\ j > k
    <3>0. k \in 1 .. Len(q) /\ j - 1 \in 1 .. Len(q) /\ k <= j - 1
      <4>1. Len(q) \in Nat /\ Len(r) = Len(q) + 1
        BY <1>1, <1>2
      <4> QED
        BY <2>4, <4>1
    <3>a. r[i] = t
      <4>1. i = k
        BY <2>4
      <4>2. r[k] = t
        BY <1>2
      <4> QED
        BY <4>1, <4>2, Zenon
    <3>b. j \in k + 1 .. Len(q) + 1
      BY <1>2, <2>4
    <3>c. r[j] = q[j - 1]
      BY <1>2, <3>b
    <3>1. r[i] = t /\ r[j] = q[j - 1] /\ k \in 1 .. Len(q) /\ j - 1 \in 1 .. Len(q)
          /\ k <= j - 1
      BY <3>0, <3>a, <3>c
    <3>2. q[k].nextCallTime <= q[j - 1].nextCallTime
      BY <3>1 DEF ListOK, Sorted
    <3>3. t.nextCallTime < q[k].nextCallTime
      BY <1>1, <2>0, <3>0 DEF IsInsertPosition
    <3>4. t.nextCallTime <= q[j - 1].nextCallTime
      BY <2>0, <3>0, <3>2, <3>3
    <3> QED
      BY <3>1, <3>4
  <2>5. CASE i < k /\ j > k
    <3>1. r[i] = q[i] /\ r[j] = q[j - 1] /\ i \in 1 .. Len(q)
          /\ j - 1 \in 1 .. Len(q) /\ i <= j - 1
      BY <1>1, <1>2, <2>5
    <3> QED
      BY <3>1 DEF ListOK, Sorted
  <2>6. CASE i > k
    <3>1. r[i] = q[i - 1] /\ r[j] = q[j - 1] /\ i - 1 \in 1 .. Len(q)
          /\ j - 1 \in 1 .. Len(q) /\ i - 1 <= j - 1
      BY <1>1, <1>2, <1>4, <2>6
    <3> QED
      BY <3>1 DEF ListOK, Sorted
  <2> QED
    BY <1>1, <1>2, <1>4, <2>1, <2>2, <2>3, <2>4, <2>5, <2>6
<1> QED
  BY <1>2, <1>3, <1>4 DEF ListOK, Unique, Sorted, r

\* Removal; and the id is free afterwards.
LEMMA RemoveKeeps ==
  ASSUME NEW q, ListOK(q), NEW k \in 1 .. Len(q)
  PROVE  /\ ListOK(RemoveAt(q, k))
         /\ NoneHas(RemoveAt(q, k), q[k].id)
         /\ q[k] \in Timer
<1> DEFINE r == RemoveAt(q, k)
<1>1. q \in Seq(Timer) /\ Len(q) \in Nat /\ \A i \in 1 .. Len(q) : q[i] \in Timer
  BY DEF ListOK
<1>2. r \in Seq(Timer) /\ Len(r) = Len(q) - 1
      /\ \A i \in 1 .. Len(q) - 1 : r[i] = IF i < k THEN q[i] ELSE q[i + 1]
  BY <1>1, RemoveAtElements
<1> HIDE DEF r
<1>6. ASSUME NEW i \in 1 .. Len(r)
      PROVE  \/ i < k /\ i \in 1 .. Len(q) /\ r[i] = q[i]
             \/ i >= k /\ i + 1 \in 1 .. Len(q) /\ r[i] = q[i + 1]
  BY <1>1, <1>2
<1>7. Len(r) \in Nat /\ k \in Nat
  BY <1>1, <1>2
<1>3. Unique(r)
  <2> SUFFICES ASSUME NEW i \in 1 .. Len(r), NEW j \in 1 .. Len(r), r[i].id = r[j].id
               PROVE  i = j
    BY DEF Unique
  <2>1. \A m, n \in 1 .. Len(q) : q[m].id = q[n].id => m = n
    BY DEF ListOK, Unique
  <2>2. CASE i < k
    <3>1. i \in 1 .. Len(q) /\ r[i] = q[i]
      BY <1>6, <1>7, <2>2
    <3> QED
      BY <1>6, <1>7, <2>1, <2>2, <3>1
  <2>3. CASE i >= k
    <3>1. i + 1 \in 1 .. Len(q) /\ r[i] = q[i + 1]
      BY <1>6, <1>7, <2>3
    <3>2. CASE j < k /\ j \in 1 .. Len(q) /\ r[j] = q[j]
      <4>1. j = i + 1
        BY <2>1, <3>1, <3>2
      <4> QED
        BY <1>7, <2>3, <3>2, <4>1
    <3>3. CASE j + 1 \in 1 .. Len(q) /\ r[j] = q[j + 1]
      <4>1. j + 1 = i + 1
        BY <2>1, <3>1, <3>3
      <4> QED
        BY <1>7, <4>1
    <3> QED
      BY <1>6, <3>2, <3>3
  <2> QED
    BY <1>7, <2>2, <2>3
<1>4. Sorted(r)
  <2> SUFFICES ASSUME NEW i \in 1 .. Len(r), NEW j \in 1 .. Len(r), i <= j
               PROVE  r[i].nextCallTime <= r[j].nextCallTime
    BY DEF Sorted
  <2>1. \A m, n \in 1 .. Len(q) : m <= n => q[m].nextCallTime <= q[n].nextCallTime
    BY DEF ListOK, Sorted
  <2>2. CASE i < k
    <3>1. i \in 1 .. Len(q) /\ r[i] = q[i]
      BY <1>6, <1>7, <2>2
    <3>2. CASE j \in 1 .. Len(q) /\ r[j] = q[j]
      BY <2>1, <3>1, <3>2
    <3>3. CASE j >= k /\ j + 1 \in 1 .. Len(q) /\ r[j] = q[j + 1]
      <4>1. i <= j + 1
        BY <1>7
      <4> QED
        BY <2>1, <3>1, <3>3, <4>1
    <3> QED
      BY <1>6, <3>2, <3>3
  <2>3. CASE i >= k
    <3>1. i + 1 \in 1 .. Len(q) /\ r[i] = q[i + 1]
      BY <1>6, <1>7, <2>3
    <3>2. j + 1 \in 1 .. Len(q) /\ r[j] = q[j + 1] /\ i + 1 <= j + 1
      BY <1>6, <1>7, <2>3
    <3> QED
      BY <2>1, <3>1, <3>2
  <2> QED
    BY <1>7, <2>2, <2>3
<1>5. NoneHas(r, q[k].id)
  BY <1>1, <1>2 DEF ListOK, Unique, NoneHas
<1> QED
  BY <1>1, <1>2, <1>3, <1>4, <1>5 DEF ListOK, r

\* The same for the head, which ProcessTimersInternal takes off.
LEMMA TailKeeps ==
  ASSUME NEW q, ListOK(q), q # << >>
  PROVE  /\ ListOK(Tail(q))
         /\ NoneHas(Tail(q), q[1].id)
         /\ q[1] \in Timer
<1>1. q \in Seq(Timer) /\ Len(q) \in Nat /\ \A i \in 1 .. Len(q) : q[i] \in Timer
  BY DEF ListOK
<1>2. Tail(q) \in Seq(Timer) /\ Len(Tail(q)) = Len(q) - 1 /\ Len(q) # 0
      /\ (\A i \in 1 .. Len(q) - 1 : Tail(q)[i] = q[i + 1]) /\ q[1] \in Timer
  BY <1>1, TailElements
<1>3. Unique(Tail(q))
  BY <1>1, <1>2 DEF ListOK, Unique
<1>4. Sorted(Tail(q))
  BY <1>1, <1>2 DEF ListOK, Sorted
<1>5. NoneHas(Tail(q), q[1].id)
  BY <1>1, <1>2 DEF ListOK, Unique, NoneHas
<1> QED
  BY <1>2, <1>3, <1>4, <1>5 DEF ListOK

\* A timer that is called again, or restarted, keeps its id.
LEMMA SameTimer ==
  ASSUME NEW t \in Timer
  PROVE  /\ AfterCall(t) \in Timer /\ AfterCall(t).id = t.id
         /\ \A time \in Int : Restarted(t, time) \in Timer
                              /\ Restarted(t, time).id = t.id
<1>1. AfterCall(t) \in Timer /\ AfterCall(t).id = t.id
  <2> DEFINE c == t.callbackCount + 1
             n == t.nextCallTime + t.intervalMs
  <2>1. c \in Nat /\ n \in Int
    BY DEF Timer
  <2>2. AfterCall(t) = [t EXCEPT !.callbackCount = c, !.nextCallTime = n]
    BY DEF AfterCall
  <2> HIDE DEF c, n
  <2> QED
    BY <2>1, <2>2 DEF Timer
<1>2. ASSUME NEW time \in Int
      PROVE  Restarted(t, time) \in Timer /\ Restarted(t, time).id = t.id
  <2> DEFINE c == 0
             n == time + t.intervalMs
  <2>1. c \in Nat /\ n \in Int
    BY DEF Timer
  <2>2. Restarted(t, time) = [t EXCEPT !.callbackCount = c, !.nextCallTime = n]
    BY DEF Restarted
  <2> HIDE DEF c, n
  <2> QED
    BY <2>1, <2>2 DEF Timer
<1> QED
  BY <1>1, <1>2
-----------------------------------------------------------------------------
(* The invariant.                                                          *)

ListInv == TypeOK /\ UniqueIds /\ SortedByDueTime

LEMMA ListInvIsListOK == ListInv => ListOK(timers_)
  BY DEF ListInv, TypeOK, UniqueIds, SortedByDueTime, ListOK, Unique, Sorted

\* A call under way holds a well-formed request.
LEMMA CallUnderWay ==
  ASSUME TypeOK, NEW th \in Threads, call[th] # NoCall
  PROVE  /\ call[th].intervalMs \in Int /\ call[th].repeatCount \in Int
         /\ call[th].nextCallTime \in Int /\ call[th].name \in AnyName
<1>1. call[th] \in Request
  BY DEF TypeOK
<1> QED
  BY <1>1, ThreadAssumption DEF Request

\* The four operations that change the list.
LEMMA EndAddKeepsList ==
  ASSUME ListInv, NEW th \in Threads, EndAdd(th)
  PROVE  ListOK(timers_')
<1>1. ListOK(timers_)
  BY ListInvIsListOK
<1>2. PICK id \in TimerIds :
        /\ IsNextTimerId(id)
        /\ InsertTimerInternal(timers_,
             [id |-> id, intervalMs |-> call[th].intervalMs,
              repeatCount |-> call[th].repeatCount, callbackCount |-> 0,
              nextCallTime |-> call[th].nextCallTime, name |-> call[th].name])
  BY DEF EndAdd
<1> DEFINE t == [id |-> id, intervalMs |-> call[th].intervalMs,
                 repeatCount |-> call[th].repeatCount, callbackCount |-> 0,
                 nextCallTime |-> call[th].nextCallTime, name |-> call[th].name]
<1>3. t \in Timer /\ t.id = id
  <2>1. call[th] # NoCall
    BY DEF EndAdd
  <2>2. /\ call[th].intervalMs \in Int /\ call[th].repeatCount \in Int
        /\ call[th].nextCallTime \in Int /\ call[th].name \in AnyName
    BY <2>1, CallUnderWay DEF ListInv
  <2> QED
    BY <2>2 DEF Timer
<1>4. InsertTimerInternal(timers_, t)
  BY <1>2
<1> HIDE DEF t
<1>5. PICK k \in 1 .. Len(timers_) + 1 :
        IsInsertPosition(timers_, t, k) /\ timers_' = InsertAt(timers_, k, t)
  BY <1>4 DEF InsertTimerInternal
<1>6. NoneHas(timers_, t.id)
  BY <1>2, <1>3 DEF NoneHas, IsNextTimerId, IsUsed
<1> QED
  BY <1>1, <1>3, <1>5, <1>6, InsertKeeps

LEMMA RemoveKeepsList ==
  ASSUME ListInv, NEW timerId, NEW name, RemoveTimerInternal(timerId, name)
  PROVE  ListOK(timers_')
<1>1. PICK k \in 1 .. Len(timers_) : timers_' = RemoveAt(timers_, k)
  BY DEF RemoveTimerInternal
<1> QED
  BY <1>1, ListInvIsListOK, RemoveKeeps

LEMMA ResetKeepsList ==
  ASSUME ListInv, NEW timerId, ResetTimerInternal(timerId)
  PROVE  ListOK(timers_')
<1>1. PICK k \in 1 .. Len(timers_) :
        InsertTimerInternal(RemoveAt(timers_, k), Restarted(timers_[k], now))
  BY DEF ResetTimerInternal
<1> DEFINE q == RemoveAt(timers_, k)
           t == Restarted(timers_[k], now)
<1>2. ListOK(q) /\ NoneHas(q, timers_[k].id) /\ timers_[k] \in Timer
  BY ListInvIsListOK, RemoveKeeps
<1>3. t \in Timer /\ t.id = timers_[k].id
  <2>1. now \in Int
    BY DEF ListInv, TypeOK
  <2> QED
    BY <1>2, <2>1, SameTimer
<1> HIDE DEF q, t
<1>4. PICK m \in 1 .. Len(q) + 1 :
        IsInsertPosition(q, t, m) /\ timers_' = InsertAt(q, m, t)
  BY <1>1 DEF InsertTimerInternal, q, t
<1> QED
  BY <1>2, <1>3, <1>4, InsertKeeps

LEMMA CollectKeepsList ==
  ASSUME ListInv, CollectTimer
  PROVE  ListOK(timers_')
<1>1. timers_ # << >>
  BY DEF CollectTimer, HeadIsDue
<1>2. /\ ListOK(Tail(timers_)) /\ NoneHas(Tail(timers_), timers_[1].id)
      /\ timers_[1] \in Timer
  BY <1>1, ListInvIsListOK, TailKeeps
<1>3. CASE IsLastCall(timers_[1])
  BY <1>2, <1>3 DEF CollectTimer
<1>4. CASE ~ IsLastCall(timers_[1])
  <2> DEFINE q == Tail(timers_)
             t == AfterCall(timers_[1])
  <2>1. t \in Timer /\ t.id = timers_[1].id
    BY <1>2, SameTimer
  <2>2. ListOK(q) /\ NoneHas(q, timers_[1].id)
    BY <1>2
  <2> HIDE DEF q, t
  <2>3. InsertTimerInternal(q, t)
    BY <1>4 DEF CollectTimer, q, t
  <2>4. PICK m \in 1 .. Len(q) + 1 :
          IsInsertPosition(q, t, m) /\ timers_' = InsertAt(q, m, t)
    BY <2>3 DEF InsertTimerInternal
  <2> QED
    BY <2>1, <2>2, <2>4, InsertKeeps
<1> QED
  BY <1>3, <1>4

\* AddTimer, AddLongTimer and AddPluginTimer are all BeginAdd.
LEMMA AddsBegin ==
  ASSUME \/ \E th \in Threads : AddTimer(th) \/ AddLongTimer(th)
         \/ AddPluginTimer
  PROVE  \E th \in Threads, ms \in Int, n \in RepeatCounts, name \in AnyName :
           BeginAdd(th, ms, n, name)
<1>1. \A ms \in Requested : Clamp(ms) \in Int /\ ClampLong(ms) \in Int
  BY ThreadAssumption, TimerAssumption DEF Clamp, ClampLong
<1>2. CASE \E th \in Threads : AddTimer(th)
  BY <1>1, <1>2 DEF AddTimer
<1>3. CASE \E th \in Threads : AddLongTimer(th)
  BY <1>1, <1>3 DEF AddLongTimer
<1>4. CASE AddPluginTimer
  <2>1. Worker \in Threads /\ Names \subseteq AnyName /\ RawIntervals \subseteq Int
    BY ThreadAssumption DEF Threads, AnyName
  <2> QED
    BY <1>4, <2>1 DEF AddPluginTimer
<1> QED
  BY <1>2, <1>3, <1>4

\* Every step keeps the list in order: it is one of the four, or leaves the
\* list alone.
LEMMA StepKeepsList ==
  ASSUME ListInv, [Next]_vars
  PROVE  ListOK(timers_')
<1>0. ListOK(timers_)
  BY ListInvIsListOK
<1>1. CASE timers_' = timers_
  BY <1>0, <1>1
<1>2. CASE \E th \in Threads : EndAdd(th)
  BY <1>2, EndAddKeepsList
<1>3. CASE CallManager
  BY <1>3, RemoveKeepsList, ResetKeepsList DEF CallManager
<1>4. CASE CollectTimer
  BY <1>4, CollectKeepsList
<1>5. \/ timers_' = timers_ \/ (\E th \in Threads : EndAdd(th))
      \/ CallManager \/ CollectTimer
  <2>1. CASE \/ \E th \in Threads : AddTimer(th) \/ AddLongTimer(th)
             \/ AddPluginTimer
    BY <2>1, AddsBegin DEF BeginAdd
  <2>2. CASE UNCHANGED vars \/ Tick \/ WakeForEvent
             \/ \E th \in Threads : AddFails(th)
    BY <2>2 DEF vars, Tick, WakeForEvent, AddFails
  <2>3. CASE Loop
    BY <2>3 DEF Loop, EnterEpollWait, WakeForTimeout, HandlersReturn,
       StartProcessTimers, EndCollect, CallNext, CallbackReturns,
       HandlePendingEvents, LoopAgain
  <2> QED
    BY <2>1, <2>2, <2>3 DEF Next
<1> QED
  BY <1>1, <1>2, <1>3, <1>4, <1>5

\* The rest of the type invariant, for the steps that write it.
LEMMA StepKeepsTypes ==
  ASSUME TypeOK, timers_' \in Seq(Timer), [Next]_vars
  PROVE  TypeOK'
<1>0. /\ now \in Nat /\ nowTime \in Nat /\ call \in [Threads -> Request \union {NoCall}]
      /\ wpc \in LoopStates /\ wakeAt \in Nat \union {Never}
      /\ count \in {0, 1} /\ pending \in BOOLEAN /\ callbacks \in Seq(Callback)
      /\ timers_ \in Seq(Timer)
  BY DEF TypeOK
<1>1. CASE UNCHANGED vars
  BY <1>0, <1>1 DEF vars, loopVars, TypeOK
<1>2. CASE Tick
  BY <1>0, <1>2 DEF Tick, loopVars, TypeOK
<1>3. CASE WakeForEvent
  BY <1>0, <1>3 DEF WakeForEvent, LoopStates, TypeOK
<1>4. CASE CallManager
  BY <1>0, <1>4 DEF CallManager, RemoveTimerInternal, ResetTimerInternal, loopVars,
     TypeOK
<1>5. CASE \/ \E th \in Threads : AddTimer(th) \/ AddLongTimer(th)
           \/ AddPluginTimer
  <2>1. PICK th \in Threads, ms \in Int, n \in RepeatCounts, name \in AnyName :
          BeginAdd(th, ms, n, name)
    BY <1>5, AddsBegin
  <2>2. [intervalMs |-> ms, repeatCount |-> n, nextCallTime |-> now + ms,
         name |-> name] \in Request
    BY <1>0 DEF Request
  <2>3. call' \in [Threads -> Request \union {NoCall}]
    BY <1>0, <2>1, <2>2 DEF BeginAdd
  <2> QED
    BY <1>0, <2>1, <2>3 DEF BeginAdd, loopVars, TypeOK
<1>6. CASE \E th \in Threads : EndAdd(th) \/ AddFails(th)
  <2>1. PICK th \in Threads : EndAdd(th) \/ AddFails(th)
    BY <1>6
  <2>2. call' \in [Threads -> Request \union {NoCall}]
    BY <1>0, <2>1 DEF EndAdd, AddFails
  <2> QED
    BY <1>0, <2>1, <2>2 DEF EndAdd, AddFails, loopVars, TypeOK
<1>7. CASE EnterEpollWait
  <2>1. timers_ # << >> => timers_[1].nextCallTime \in Int
    <3>1. timers_ # << >> => timers_[1] \in Timer
      BY <1>0
    <3> QED
      BY <3>1 DEF Timer
  <2>2. CalcNextDelayInternal = -1 \/ CalcNextDelayInternal \in Nat
    BY <1>0, <2>1 DEF CalcNextDelayInternal
  <2>3. wakeAt' \in Nat \union {Never}
    BY <1>0, <1>7, <2>2 DEF EnterEpollWait, MIN_TIMEOUT_DELAY
  <2> QED
    BY <1>0, <1>7, <2>3 DEF EnterEpollWait, LoopStates, TypeOK
<1>8. CASE WakeForTimeout \/ HandlersReturn
  BY <1>0, <1>8 DEF WakeForTimeout, HandlersReturn, StartProcessTimers, LoopStates,
     TypeOK
<1>9. CASE CollectTimer
  <2>1. timers_[1] \in Timer
    BY <1>0, <1>9 DEF CollectTimer, HeadIsDue
  <2>2. [name |-> timers_[1].name, at |-> timers_[1].nextCallTime] \in Callback
    BY <2>1 DEF Timer, Callback
  <2>3. callbacks' \in Seq(Callback)
    BY <1>0, <1>9, <2>2 DEF CollectTimer
  <2> QED
    BY <1>0, <1>9, <2>3 DEF CollectTimer, TypeOK
<1>10. CASE EndCollect
  BY <1>0, <1>10 DEF EndCollect, LoopStates, TypeOK
<1>11. CASE CallNext
  BY <1>0, <1>11 DEF CallNext, LoopStates, TypeOK
<1>12. CASE CallbackReturns \/ HandlePendingEvents \/ LoopAgain
  BY <1>0, <1>12 DEF CallbackReturns, HandlePendingEvents, LoopAgain, LoopStates,
     TypeOK
<1> QED
  BY <1>1, <1>2, <1>3, <1>4, <1>5, <1>6, <1>7, <1>8, <1>9, <1>10, <1>11, <1>12
     DEF Next, Loop

\* The list stays well typed, sorted and without a double id in every
\* behaviour of TimerManager.
THEOREM ListInvariant == Spec => []ListInv
<1>1. Init => ListInv
  <2> SUFFICES ASSUME Init PROVE ListInv
    OBVIOUS
  <2>1. TypeOK
    <3>1. timers_ \in Seq(Timer) /\ callbacks \in Seq(Callback)
      BY DEF Init
    <3> QED
      BY <3>1 DEF Init, TypeOK, LoopStates
  <2> QED
    BY <2>1 DEF Init, ListInv, UniqueIds, SortedByDueTime
<1>2. ListInv /\ [Next]_vars => ListInv'
  <2> SUFFICES ASSUME ListInv, [Next]_vars PROVE ListInv'
    OBVIOUS
  <2>1. ListOK(timers_')
    BY StepKeepsList
  <2>2. TypeOK'
    BY <2>1, StepKeepsTypes DEF ListInv, ListOK
  <2>3. UniqueIds' /\ SortedByDueTime'
    BY <2>1 DEF UniqueIds, SortedByDueTime, ListOK, Unique, Sorted
  <2> QED
    BY <2>2, <2>3 DEF ListInv
<1> QED
  BY <1>1, <1>2, PTL DEF Spec

\* Every variable of the manager, of its callers and of the loop keeps its
\* type: no operation stores a malformed timer or an impossible delay.
THEOREM TypeCorrect == Spec => []TypeOK
  BY ListInvariant, PTL DEF ListInv

\* At no time do two armed timers have the same id, whichever threads add
\* them and however ids are reused: RemoveTimer and ResetTimer are exact.
THEOREM IdsStayUnique == Spec => []UniqueIds
  BY ListInvariant, PTL DEF ListInv

\* The list is sorted at all times, so that looking at its head is enough
\* for CalcNextDelay and for ProcessTimersInternal.
THEOREM ListStaysSorted == Spec => []SortedByDueTime
  BY ListInvariant, PTL DEF ListInv
-----------------------------------------------------------------------------
(* Sleeping, where the worker alone adds timers.                           *)

SleepInv ==
  /\ ListInv
  /\ SleepCoversTimers
  /\ call[Worker] # NoCall => wpc \in CodeRuns

\* The delay reaches up to the head, so no timer is due before it ends.
LEMMA DelayCovers ==
  ASSUME ListInv, EnterEpollWait
  PROVE  SleepCoversTimers'
<1>1. SUFFICES ASSUME NEW i \in 1 .. Len(timers_)
               PROVE  /\ wakeAt' # Never
                      /\ \/ wakeAt' <= timers_[i].nextCallTime + MIN_TIMEOUT_DELAY
                         \/ wakeAt' <= now + MIN_TIMEOUT_DELAY
  BY DEF EnterEpollWait, SleepCoversTimers
<1>2. timers_ \in Seq(Timer) /\ now \in Nat
  BY DEF ListInv, TypeOK
<1>3. 1 \in 1 .. Len(timers_) /\ timers_ # << >>
  BY <1>1, <1>2
<1>4. timers_[1].nextCallTime \in Int /\ timers_[i].nextCallTime \in Int
  <2>1. timers_[1] \in Timer /\ timers_[i] \in Timer
    BY <1>1, <1>2, <1>3
  <2> QED
    BY <2>1 DEF Timer
<1>5. timers_[1].nextCallTime <= timers_[i].nextCallTime
  BY <1>1, <1>3 DEF ListInv, SortedByDueTime
<1>6. \/ wakeAt' = now + 1 \/ wakeAt' = now
      \/ now < timers_[1].nextCallTime /\ wakeAt' = timers_[1].nextCallTime
  BY <1>2, <1>3, <1>4 DEF EnterEpollWait, CalcNextDelayInternal, MIN_TIMEOUT_DELAY
<1>7. wakeAt' \in Nat
  BY <1>2, <1>4, <1>6
<1> QED
  BY <1>2, <1>4, <1>5, <1>6, <1>7, ThreadAssumption DEF MIN_TIMEOUT_DELAY

\* While the worker sleeps, no other step touches what its sleep covers.
LEMMA SleepKept ==
  ASSUME Others = {}, SleepInv, Next, ~ EnterEpollWait
  PROVE  SleepCoversTimers'
<1>0. Threads = {Worker} /\ now \in Nat
      /\ timers_ \in Seq(Timer) /\ wakeAt \in Nat \union {Never}
  BY DEF Threads, SleepInv, ListInv, TypeOK
<1>1. CASE Tick
  <2>1. now' = now + 1 /\ timers_' = timers_ /\ wakeAt' = wakeAt /\ wpc' = wpc
    BY <1>1 DEF Tick, loopVars
  <2>2. SUFFICES ASSUME wpc = "epoll", NEW i \in 1 .. Len(timers_)
                 PROVE  /\ wakeAt # Never
                        /\ \/ wakeAt <= timers_[i].nextCallTime + MIN_TIMEOUT_DELAY
                           \/ wakeAt <= now + 1 + MIN_TIMEOUT_DELAY
    BY <2>1 DEF SleepCoversTimers
  <2>3. /\ wakeAt # Never
        /\ \/ wakeAt <= timers_[i].nextCallTime + MIN_TIMEOUT_DELAY
           \/ wakeAt <= now + MIN_TIMEOUT_DELAY
    BY <2>2 DEF SleepInv, SleepCoversTimers
  <2> QED
    BY <1>0, <2>3 DEF MIN_TIMEOUT_DELAY
<1>2. CASE CallManager
  BY <1>2 DEF CallManager, RemoveTimerInternal, ResetTimerInternal, MayCall,
     CodeRuns, loopVars, SleepCoversTimers
<1>3. CASE \/ \E th \in Threads : AddTimer(th) \/ AddLongTimer(th)
           \/ AddPluginTimer
  <2>1. PICK th \in Threads, ms \in Int, n \in RepeatCounts, name \in AnyName :
          BeginAdd(th, ms, n, name)
    BY <1>3, AddsBegin
  <2>2. wpc \in CodeRuns /\ wpc' = wpc
    BY <1>0, <2>1 DEF BeginAdd, MayCall, loopVars
  <2> QED
    BY <2>2 DEF CodeRuns, SleepCoversTimers
<1>4. CASE \E th \in Threads : EndAdd(th) \/ AddFails(th)
  <2>1. call[Worker] # NoCall /\ wpc' = wpc
    BY <1>0, <1>4 DEF EndAdd, AddFails, loopVars
  <2> QED
    BY <2>1 DEF SleepInv, CodeRuns, SleepCoversTimers
<1>5. CASE WakeForEvent
  BY <1>5 DEF WakeForEvent, SleepCoversTimers
<1>6. CASE Loop
  <2>1. wpc' # "epoll"
    BY <1>6 DEF Loop, WakeForTimeout, HandlersReturn, StartProcessTimers,
       CollectTimer, EndCollect, CallNext, CallbackReturns, HandlePendingEvents,
       LoopAgain
  <2> QED
    BY <2>1 DEF SleepCoversTimers
<1> QED
  BY <1>1, <1>2, <1>3, <1>4, <1>5, <1>6 DEF Next

\* A call of the worker is under way only where its code runs.
LEMMA WorkerCallKept ==
  ASSUME TypeOK, call[Worker] # NoCall => wpc \in CodeRuns, Next
  PROVE  call'[Worker] # NoCall => wpc' \in CodeRuns
<1>0. Worker \in Threads
  BY DEF Threads
<1>1. CASE Tick \/ WakeForEvent
  BY <1>1 DEF Tick, WakeForEvent, loopVars, CodeRuns
<1>2. CASE CallManager
  BY <1>2 DEF CallManager, RemoveTimerInternal, ResetTimerInternal, loopVars
<1>3. CASE \/ \E th \in Threads : AddTimer(th) \/ AddLongTimer(th)
           \/ AddPluginTimer
  <2>1. PICK th \in Threads, ms \in Int, n \in RepeatCounts, name \in AnyName :
          BeginAdd(th, ms, n, name)
    BY <1>3, AddsBegin
  <2>2. wpc' = wpc /\ (th = Worker => wpc \in CodeRuns)
        /\ (th # Worker => call'[Worker] = call[Worker])
    BY <1>0, <2>1 DEF BeginAdd, MayCall, loopVars, TypeOK
  <2> QED
    BY <2>2
<1>4. CASE \E th \in Threads : EndAdd(th) \/ AddFails(th)
  <2>1. PICK th \in Threads : EndAdd(th) \/ AddFails(th)
    BY <1>4
  <2>2. wpc' = wpc /\ (call'[Worker] = NoCall \/ call'[Worker] = call[Worker])
    BY <1>0, <2>1 DEF EndAdd, AddFails, loopVars, TypeOK
  <2> QED
    BY <2>2
<1>5. CASE Loop
  BY <1>5 DEF Loop, EnterEpollWait, WakeForTimeout, HandlersReturn,
     StartProcessTimers, CollectTimer, EndCollect, CallNext, CallbackReturns,
     HandlePendingEvents, LoopAgain, CodeRuns
<1> QED
  BY <1>1, <1>2, <1>3, <1>4, <1>5 DEF Next

\* Where the worker alone adds timers, it never sleeps beyond a timer: each
\* change of the list happens before the delay is computed again.
THEOREM SleepNeverTooLong ==
  ASSUME Others = {}
  PROVE  Spec => []SleepCoversTimers
<1>1. Spec => []ListInv
  BY ListInvariant
<1>2. Init /\ ListInv => SleepInv
  BY DEF Init, SleepInv, SleepCoversTimers, Threads
<1>3. SleepInv /\ ListInv' /\ [Next]_vars => SleepInv'
  <2> SUFFICES ASSUME SleepInv, ListInv', [Next]_vars PROVE SleepInv'
    OBVIOUS
  <2>1. CASE UNCHANGED vars
    BY <2>1 DEF vars, loopVars, SleepInv, SleepCoversTimers
  <2>2. CASE Next
    <3>1. SleepCoversTimers'
      BY <2>2, DelayCovers, SleepKept DEF SleepInv
    <3>2. call'[Worker] # NoCall => wpc' \in CodeRuns
      BY <2>2, WorkerCallKept DEF SleepInv, ListInv
    <3> QED
      BY <3>1, <3>2 DEF SleepInv
  <2> QED
    BY <2>1, <2>2
<1>4. SleepInv => SleepCoversTimers
  BY DEF SleepInv
<1> QED
  BY <1>1, <1>2, <1>3, <1>4, PTL DEF Spec
-----------------------------------------------------------------------------
(* TimerManager implements TimerTable.                                     *)

\* The set of timers after the list operations.
LEMMA InsertSet ==
  ASSUME NEW q \in Seq(Timer), NEW t \in Timer, NEW k \in 1 .. Len(q) + 1
  PROVE  ToSet(InsertAt(q, k, t)) = ToSet(q) \union {t}
<1> DEFINE r == InsertAt(q, k, t)
<1>1. /\ r \in Seq(Timer) /\ Len(r) = Len(q) + 1 /\ r[k] = t
      /\ \A i \in 1 .. k - 1 : r[i] = q[i]
      /\ \A i \in k + 1 .. Len(q) + 1 : r[i] = q[i - 1]
  <2>1. r \in Seq(Timer) /\ Len(r) = Len(q) + 1
    BY InsertAtElements
  <2>2. \A i \in 1 .. k - 1 : r[i] = q[i]
    BY InsertAtElements
  <2>3. r[k] = t
    BY InsertAtElements
  <2>4. \A i \in k + 1 .. Len(q) + 1 : r[i] = q[i - 1]
    BY InsertAtElements
  <2> QED
    BY <2>1, <2>2, <2>3, <2>4
<1>2. \A i \in k + 1 .. Len(q) + 1 : r[i] = q[i - 1]
  BY <1>1
<1>3. Len(q) \in Nat /\ DOMAIN q = 1 .. Len(q) /\ DOMAIN r = 1 .. Len(q) + 1
  BY <1>1
<1> HIDE DEF r
<1>4. ASSUME NEW i \in 1 .. Len(q) + 1 PROVE r[i] \in ToSet(q) \union {t}
  <2>1. CASE i < k
    <3>1. i \in 1 .. Len(q) /\ r[i] = q[i]
      BY <1>1, <1>3, <2>1
    <3> QED
      BY <1>3, <3>1 DEF ToSet
  <2>2. CASE i > k
    <3>1. i - 1 \in 1 .. Len(q) /\ r[i] = q[i - 1]
      BY <1>2, <1>3, <2>2
    <3> QED
      BY <1>3, <3>1 DEF ToSet
  <2> QED
    BY <1>1, <2>1, <2>2
<1>5. ASSUME NEW j \in 1 .. Len(q) PROVE q[j] \in ToSet(r)
  <2>1. CASE j < k
    <3>1. j \in 1 .. Len(q) + 1 /\ q[j] = r[j]
      BY <1>1, <1>3, <2>1
    <3> QED
      BY <1>3, <3>1 DEF ToSet
  <2>2. CASE j >= k
    <3>1. j + 1 \in 1 .. Len(q) + 1 /\ j + 1 \in k + 1 .. Len(q) + 1
          /\ (j + 1) - 1 = j
      BY <1>3, <2>2
    <3>2. q[j] = r[j + 1]
      BY <1>2, <3>1
    <3> QED
      BY <1>3, <3>1, <3>2 DEF ToSet
  <2> QED
    BY <1>3, <2>1, <2>2
<1>6. t \in ToSet(r)
  BY <1>1, <1>3 DEF ToSet
<1>7. ToSet(r) \subseteq ToSet(q) \union {t}
  BY <1>3, <1>4 DEF ToSet
<1>8. ToSet(q) \subseteq ToSet(r)
  BY <1>3, <1>5 DEF ToSet
<1>9. ToSet(r) = ToSet(q) \union {t}
  BY <1>6, <1>7, <1>8
<1> QED
  BY <1>9 DEF r

LEMMA RemoveSet ==
  ASSUME NEW q, ListOK(q), NEW k \in 1 .. Len(q)
  PROVE  ToSet(RemoveAt(q, k)) = ToSet(q) \ {q[k]}
<1> DEFINE r == RemoveAt(q, k)
<1> HIDE DEF r
<1>1. q \in Seq(Timer) /\ Len(q) \in Nat /\ DOMAIN q = 1 .. Len(q)
  <2>1. q \in Seq(Timer)
    BY ListIsSequence
  <2> QED
    BY <2>1
<1>2. r \in Seq(Timer) /\ Len(r) = Len(q) - 1
      /\ \A i \in 1 .. Len(q) - 1 : r[i] = IF i < k THEN q[i] ELSE q[i + 1]
  BY <1>1, RemoveAtElements, Zenon DEF r
<1>3. NoneHas(r, q[k].id)
  BY RemoveKeeps DEF r
<1>4. DOMAIN r = 1 .. Len(q) - 1
  BY <1>2
<1>5. ASSUME NEW i \in 1 .. Len(q) - 1 PROVE r[i] \in ToSet(q) /\ r[i] # q[k]
  <2>1. \E j \in 1 .. Len(q) : r[i] = q[j]
    BY <1>1, <1>2
  <2>2. r[i].id # q[k].id
    BY <1>2, <1>3 DEF NoneHas
  <2> QED
    BY <1>1, <2>1, <2>2 DEF ToSet
<1>6. ASSUME NEW j \in 1 .. Len(q), q[j] # q[k] PROVE q[j] \in ToSet(r)
  <2>1. CASE j < k
    <3>1. j \in 1 .. Len(q) - 1 /\ r[j] = q[j]
      BY <1>1, <1>2, <2>1
    <3> QED
      BY <1>4, <3>1 DEF ToSet
  <2>2. CASE j > k
    <3>1. j - 1 \in 1 .. Len(q) - 1 /\ (j - 1) + 1 = j /\ ~ (j - 1 < k)
      BY <1>1, <2>2
    <3>2. r[j - 1] = q[j]
      BY <1>2, <3>1
    <3> QED
      BY <1>4, <3>1, <3>2 DEF ToSet
  <2> QED
    BY <1>1, <1>6, <2>1, <2>2
<1>7. ToSet(r) \subseteq ToSet(q) \ {q[k]}
  BY <1>4, <1>5 DEF ToSet
<1>8. ToSet(q) \ {q[k]} \subseteq ToSet(r)
  BY <1>1, <1>6 DEF ToSet
<1>9. ToSet(r) = ToSet(q) \ {q[k]}
  BY <1>7, <1>8
<1> QED
  BY <1>9 DEF r

LEMMA TailSet ==
  ASSUME NEW q, ListOK(q), q # << >>
  PROVE  ToSet(Tail(q)) = ToSet(q) \ {q[1]} /\ q[1] \in ToSet(q)
<1>1. q \in Seq(Timer) /\ Len(q) \in Nat \ {0} /\ DOMAIN q = 1 .. Len(q)
  BY DEF ListOK
<1>2. Tail(q) \in Seq(Timer) /\ Len(Tail(q)) = Len(q) - 1
      /\ \A i \in 1 .. Len(q) - 1 : Tail(q)[i] = q[i + 1]
  BY <1>1, TailElements
<1>3. NoneHas(Tail(q), q[1].id)
  BY TailKeeps
<1> DEFINE r == Tail(q)
<1>4. /\ DOMAIN r = 1 .. Len(q) - 1 /\ Len(r) = Len(q) - 1
      /\ (\A i \in 1 .. Len(q) - 1 : r[i] = q[i + 1]) /\ NoneHas(r, q[1].id)
  BY <1>2, <1>3
<1> HIDE DEF r
<1>5. ASSUME NEW i \in 1 .. Len(q) - 1 PROVE r[i] \in ToSet(q) /\ r[i] # q[1]
  <2>1. i + 1 \in 1 .. Len(q) /\ r[i] = q[i + 1]
    BY <1>1, <1>4
  <2>2. r[i].id # q[1].id
    BY <1>4 DEF NoneHas
  <2> QED
    BY <1>1, <2>1, <2>2 DEF ToSet
<1>6. ASSUME NEW j \in 1 .. Len(q), q[j] # q[1] PROVE q[j] \in ToSet(r)
  <2>1. j - 1 \in 1 .. Len(q) - 1 /\ (j - 1) + 1 = j
    BY <1>1, <1>6
  <2>2. r[j - 1] = q[j]
    BY <1>4, <2>1
  <2> QED
    BY <1>4, <2>1, <2>2 DEF ToSet
<1>7. 1 \in DOMAIN q
  BY <1>1
<1>8. ToSet(r) = ToSet(q) \ {q[1]}
  BY <1>1, <1>4, <1>5, <1>6 DEF ToSet
<1> QED
  BY <1>7, <1>8 DEF ToSet, r

\* Refinement step by step.  A request never asks for a time later than one
\* interval from now, since the clock only advances.
CallTimes == \A th \in Threads :
  call[th] # NoCall => call[th].nextCallTime <= now + call[th].intervalMs

LEMMA CallTimesKept ==
  ASSUME TypeOK, CallTimes, [Next]_vars
  PROVE  CallTimes'
<1>0. now \in Nat /\ call \in [Threads -> Request \union {NoCall}]
  BY DEF TypeOK
<1>1. CASE call' = call /\ now' = now
  BY <1>1 DEF CallTimes
<1>2. CASE Tick
  <2>1. SUFFICES ASSUME NEW th \in Threads, call[th] # NoCall
                 PROVE  call[th].nextCallTime <= now + 1 + call[th].intervalMs
    BY <1>2 DEF CallTimes, Tick
  <2>2. call[th].nextCallTime <= now + call[th].intervalMs
    BY <2>1 DEF CallTimes
  <2> QED
    BY <1>0, <2>1, <2>2, CallUnderWay
<1>3. CASE \/ \E th \in Threads : AddTimer(th) \/ AddLongTimer(th)
           \/ AddPluginTimer
  <2>1. PICK th \in Threads, ms \in Int, n \in RepeatCounts, name \in AnyName :
          BeginAdd(th, ms, n, name)
    BY <1>3, AddsBegin
  <2>2. /\ now' = now /\ \A u \in Threads : u # th => call'[u] = call[u]
        /\ call'[th].nextCallTime = now + ms /\ call'[th].intervalMs = ms
    BY <1>0, <2>1 DEF BeginAdd
  <2> QED
    BY <1>0, <2>2 DEF CallTimes
<1>4. CASE \E th \in Threads : EndAdd(th) \/ AddFails(th)
  <2>1. PICK th \in Threads : EndAdd(th) \/ AddFails(th)
    BY <1>4
  <2>2. /\ now' = now /\ call'[th] = NoCall
        /\ \A u \in Threads : u # th => call'[u] = call[u]
    BY <1>0, <2>1 DEF EndAdd, AddFails
  <2> QED
    BY <2>2 DEF CallTimes
<1>5. CASE UNCHANGED vars \/ WakeForEvent \/ CallManager
  <2>1. call' = call /\ now' = now
    BY <1>5 DEF vars, WakeForEvent, CallManager, RemoveTimerInternal,
       ResetTimerInternal
  <2> QED
    BY <1>1, <2>1
<1>6. CASE Loop
  <2>1. call' = call /\ now' = now
    BY <1>6 DEF Loop, EnterEpollWait, WakeForTimeout, HandlersReturn,
       StartProcessTimers, CollectTimer, EndCollect, CallNext, CallbackReturns,
       HandlePendingEvents, LoopAgain
  <2> QED
    BY <1>1, <2>1
<1> QED
  BY <1>2, <1>3, <1>4, <1>5, <1>6 DEF Next

\* An addition arms a timer under a new id.
LEMMA EndAddRefines ==
  ASSUME ListInv, CallTimes, NEW th \in Threads, EndAdd(th)
  PROVE  Table!Next
<1>1. timers_ \in Seq(Timer) /\ DOMAIN timers_ = 1 .. Len(timers_)
  BY DEF ListInv, TypeOK
<1>2. PICK id \in TimerIds :
        /\ IsNextTimerId(id)
        /\ InsertTimerInternal(timers_,
             [id |-> id, intervalMs |-> call[th].intervalMs,
              repeatCount |-> call[th].repeatCount, callbackCount |-> 0,
              nextCallTime |-> call[th].nextCallTime, name |-> call[th].name])
  BY DEF EndAdd
<1> DEFINE t == [id |-> id, intervalMs |-> call[th].intervalMs,
                 repeatCount |-> call[th].repeatCount, callbackCount |-> 0,
                 nextCallTime |-> call[th].nextCallTime, name |-> call[th].name]
<1>3. /\ t \in Timer /\ t.id = id /\ t.callbackCount = 0
      /\ t.nextCallTime <= now + t.intervalMs
  <2>1. call[th] # NoCall
    BY DEF EndAdd
  <2>2. /\ call[th].intervalMs \in Int /\ call[th].repeatCount \in Int
        /\ call[th].nextCallTime \in Int /\ call[th].name \in AnyName
    BY <2>1, CallUnderWay DEF ListInv
  <2>3. call[th].nextCallTime <= now + call[th].intervalMs
    BY <2>1 DEF CallTimes
  <2> QED
    BY <2>2, <2>3 DEF Timer
<1>4. InsertTimerInternal(timers_, t)
  BY <1>2
<1> HIDE DEF t
<1>5. PICK k \in 1 .. Len(timers_) + 1 : timers_' = InsertAt(timers_, k, t)
  BY <1>4 DEF InsertTimerInternal
<1>6. ToSet(timers_)' = ToSet(timers_) \union {t}
  <2>1. ToSet(InsertAt(timers_, k, t)) = ToSet(timers_) \union {t}
    BY <1>1, <1>3, InsertSet
  <2> QED
    BY <1>5, <2>1 DEF ToSet
<1>7. \A u \in ToSet(timers_) : u.id # t.id
  BY <1>1, <1>2, <1>3 DEF ToSet, IsNextTimerId, IsUsed
<1>8. Phase # "firing" /\ Phase' = Phase
  BY DEF EndAdd, MutexFree, Phase, loopVars
<1>9. Table!Arm(t)
  BY <1>3, <1>6, <1>7, <1>8 DEF Table!Arm, EndAdd, loopVars
<1>10. t \in Table!Timer /\ t \in ToSet(timers_)'
  BY <1>3, <1>6 DEF Timer, Table!Timer, AnyName, Table!AnyName, TimerIds,
     Table!TimerIds
<1> QED
  BY <1>9, <1>10 DEF Table!Next

\* Removal disarms, a reset rearms.
LEMMA CallManagerRefines ==
  ASSUME ListInv, CallManager
  PROVE  Table!Next
<1>1. /\ timers_ \in Seq(Timer) /\ DOMAIN timers_ = 1 .. Len(timers_)
      /\ ListOK(timers_) /\ now \in Int
  BY ListInvIsListOK DEF ListInv, TypeOK
<1>2. ASSUME NEW timerId, NEW name, RemoveTimerInternal(timerId, name)
      PROVE  Table!Next
  <2>1. PICK k \in 1 .. Len(timers_) : timers_' = RemoveAt(timers_, k)
    BY <1>2 DEF RemoveTimerInternal
  <2>2. ToSet(RemoveAt(timers_, k)) = ToSet(timers_) \ {timers_[k]}
    BY <1>1, RemoveSet
  <2>3. ToSet(timers_)' = ToSet(timers_) \ {timers_[k]}
        /\ timers_[k] \in ToSet(timers_)
    BY <1>1, <2>1, <2>2 DEF ToSet
  <2>4. Phase # "firing" /\ Phase' = Phase
    BY <1>2 DEF RemoveTimerInternal, MayCall, CodeRuns, Phase, loopVars
  <2>5. Table!Disarm(timers_[k])
    BY <1>2, <2>3, <2>4 DEF Table!Disarm, RemoveTimerInternal, loopVars
  <2> QED
    BY <2>3, <2>5 DEF Table!Next
<1>3. ASSUME NEW timerId, ResetTimerInternal(timerId)
      PROVE  Table!Next
  <2>1. PICK k \in 1 .. Len(timers_) :
          InsertTimerInternal(RemoveAt(timers_, k), Restarted(timers_[k], now))
    BY <1>3 DEF ResetTimerInternal
  <2> DEFINE q == RemoveAt(timers_, k)
             t == Restarted(timers_[k], now)
  <2>2. ToSet(q) = ToSet(timers_) \ {timers_[k]}
    BY <1>1, RemoveSet
  <2>3. q \in Seq(Timer) /\ timers_[k] \in Timer
    BY <1>1, RemoveKeeps DEF ListOK
  <2>4. t \in Timer
    BY <1>1, <2>3, SameTimer
  <2>t. t = Table!Restarted(timers_[k], now)
    BY DEF Restarted, Table!Restarted
  <2> HIDE DEF q, t
  <2>5. PICK m \in 1 .. Len(q) + 1 : timers_' = InsertAt(q, m, t)
    BY <2>1 DEF InsertTimerInternal, q, t
  <2>6. ToSet(InsertAt(q, m, t)) = ToSet(q) \union {t}
    BY <2>3, <2>4, InsertSet
  <2>7. ToSet(timers_)' = (ToSet(timers_) \ {timers_[k]}) \union {t}
        /\ timers_[k] \in ToSet(timers_)
    BY <1>1, <2>2, <2>5, <2>6 DEF ToSet
  <2>8. Phase # "firing" /\ Phase' = Phase
    BY <1>3 DEF ResetTimerInternal, MayCall, CodeRuns, Phase, loopVars
  <2>9. Table!Rearm(timers_[k])
    BY <1>3, <2>t, <2>7, <2>8 DEF Table!Rearm, ResetTimerInternal, loopVars
  <2> QED
    BY <2>7, <2>9 DEF Table!Next
<1> QED
  BY <1>2, <1>3 DEF CallManager

\* The head of the list is an armed timer that is due first.
LEMMA CollectRefines ==
  ASSUME ListInv, CollectTimer
  PROVE  Table!Next
<1> DEFINE h == timers_[1]
           q == Tail(timers_)
<1>1. /\ timers_ \in Seq(Timer) /\ DOMAIN timers_ = 1 .. Len(timers_)
      /\ Len(timers_) \in Nat /\ ListOK(timers_) /\ timers_ # << >>
      /\ h.nextCallTime <= nowTime
  BY ListInvIsListOK DEF ListInv, TypeOK, CollectTimer, HeadIsDue
<1>2. /\ ToSet(q) = ToSet(timers_) \ {h} /\ h \in ToSet(timers_)
      /\ q \in Seq(Timer) /\ h \in Timer
  BY <1>1, TailSet, TailKeeps DEF ListOK
<1>3. \A u \in ToSet(timers_) : h.nextCallTime <= u.nextCallTime
  <2>1. 1 \in 1 .. Len(timers_)
    BY <1>1
  <2>2. ASSUME NEW i \in 1 .. Len(timers_)
        PROVE  timers_[1].nextCallTime <= timers_[i].nextCallTime
    BY <2>1 DEF ListInv, SortedByDueTime
  <2> QED
    BY <1>1, <2>2 DEF ToSet
<1>4. /\ callbacks' = Append(callbacks, [name |-> h.name, at |-> h.nextCallTime])
      /\ UNCHANGED <<now, Phase, nowTime>> /\ Phase = "firing"
  BY DEF CollectTimer, Phase
<1>5. /\ IsLastCall(h) <=> Table!IsLastCall(h)
      /\ AfterCall(h) = Table!AfterCall(h)
  BY DEF IsLastCall, Table!IsLastCall, AfterCall, Table!AfterCall
<1>6. ToSet(timers_)' = (ToSet(timers_) \ {h}) \union
                          (IF IsLastCall(h) THEN {} ELSE {AfterCall(h)})
  <2>1. CASE IsLastCall(h)
    <3>1. timers_' = q
      BY <2>1 DEF CollectTimer
    <3>2. ToSet(timers_)' = ToSet(q)
      BY <3>1 DEF ToSet
    <3> QED
      BY <1>2, <2>1, <3>2
  <2>2. CASE ~ IsLastCall(h)
    <3> DEFINE t == AfterCall(h)
    <3>1. t \in Timer
      BY <1>2, SameTimer
    <3>2. InsertTimerInternal(q, t)
      BY <2>2 DEF CollectTimer
    <3> HIDE DEF q, t
    <3>3. PICK m \in 1 .. Len(q) + 1 : timers_' = InsertAt(q, m, t)
      BY <3>2 DEF InsertTimerInternal
    <3>4. ToSet(InsertAt(q, m, t)) = ToSet(q) \union {t}
      BY <1>2, <3>1, InsertSet
    <3>5. ToSet(timers_)' = ToSet(q) \union {t}
      BY <3>3, <3>4 DEF ToSet
    <3> QED
      BY <1>2, <2>2, <3>5 DEF t
  <2> QED
    BY <2>1, <2>2
<1> HIDE DEF h, q
<1>7. Table!Fire(h)
  BY <1>1, <1>3, <1>4, <1>5, <1>6 DEF Table!Fire
<1> QED
  BY <1>2, <1>7 DEF Table!Next

\* A round closes when the head, and so every timer, is still to come.
LEMMA EndCollectRefines ==
  ASSUME ListInv, EndCollect
  PROVE  Table!Next
<1>1. /\ timers_ \in Seq(Timer) /\ DOMAIN timers_ = 1 .. Len(timers_)
      /\ Len(timers_) \in Nat /\ nowTime \in Nat
  BY DEF ListInv, TypeOK
<1>2. ASSUME NEW i \in 1 .. Len(timers_)
      PROVE  timers_[i].nextCallTime > nowTime
  <2>1. 1 \in 1 .. Len(timers_) /\ timers_ # << >>
    BY <1>1
  <2>2. timers_[1].nextCallTime \in Int /\ timers_[i].nextCallTime \in Int
    <3>1. timers_[1] \in Timer /\ timers_[i] \in Timer
      BY <1>1, <2>1
    <3> QED
      BY <3>1 DEF Timer
  <2>3. timers_[1].nextCallTime <= timers_[i].nextCallTime
    BY <2>1 DEF ListInv, SortedByDueTime
  <2>4. ~ (timers_[1].nextCallTime <= nowTime)
    BY <2>1 DEF EndCollect, HeadIsDue
  <2> QED
    BY <1>1, <2>2, <2>3, <2>4
<1>3. \A t \in ToSet(timers_) : t.nextCallTime > nowTime
  BY <1>1, <1>2 DEF ToSet
<1>4. /\ Phase = "firing" /\ Phase' = "calling" /\ nowTime' = 0
      /\ UNCHANGED <<ToSet(timers_), now, callbacks>>
  BY DEF EndCollect, Phase
<1> QED
  BY <1>3, <1>4 DEF Table!CloseRound, Table!Next

\* The other steps of the loop open a round, call back, or do nothing that
\* TimerTable sees.
LEMMA LoopRefines ==
  ASSUME ListInv, Loop, ~ CollectTimer, ~ EndCollect
  PROVE  [Table!Next]_(Table!vars)
<1>1. timers_' = timers_ /\ now' = now
  BY DEF Loop, EnterEpollWait, WakeForTimeout, HandlersReturn,
     StartProcessTimers, CallNext, CallbackReturns, HandlePendingEvents, LoopAgain
<1>2. ToSet(timers_)' = ToSet(timers_)
  BY <1>1
<1>3. CASE EnterEpollWait \/ CallbackReturns
  <2>1. UNCHANGED <<Phase, nowTime, callbacks>>
    BY <1>3 DEF EnterEpollWait, CallbackReturns, Phase
  <2> QED
    BY <1>1, <1>2, <2>1 DEF Table!vars
<1>4. CASE WakeForTimeout \/ HandlersReturn
  <2>1. Phase = "open" /\ Phase' = "firing" /\ nowTime' = now
        /\ callbacks' = callbacks
    BY <1>4 DEF WakeForTimeout, HandlersReturn, StartProcessTimers, Phase
  <2> QED
    BY <1>1, <1>2, <2>1 DEF Table!OpenRound, Table!Next
<1>5. CASE CallNext
  <2>1. /\ Phase = "calling" /\ Phase' = "calling" /\ nowTime' = nowTime
        /\ callbacks # << >> /\ callbacks' = Tail(callbacks)
    BY <1>5 DEF CallNext, Phase
  <2> QED
    BY <1>1, <1>2, <2>1 DEF Table!CallBack, Table!Next
<1>6. CASE HandlePendingEvents
  <2>1. /\ Phase = "calling" /\ Phase' = "open" /\ nowTime' = nowTime
        /\ callbacks = << >> /\ callbacks' = callbacks
    BY <1>6 DEF HandlePendingEvents, Phase
  <2> QED
    BY <1>1, <1>2, <2>1 DEF Table!Reopen, Table!Next
<1>7. CASE LoopAgain
  <2>1. CASE wpc = "run"
    <3>1. /\ Phase = "calling" /\ Phase' = "open" /\ nowTime' = nowTime
          /\ callbacks = << >> /\ callbacks' = callbacks
      BY <1>7, <2>1 DEF LoopAgain, Phase
    <3> QED
      BY <1>1, <1>2, <3>1 DEF Table!Reopen, Table!Next
  <2>2. CASE wpc = "pending"
    <3>1. UNCHANGED <<Phase, nowTime, callbacks>>
      BY <1>7, <2>2 DEF LoopAgain, Phase
    <3> QED
      BY <1>1, <1>2, <3>1 DEF Table!vars
  <2>3. wpc = "run" \/ wpc = "pending"
    BY <1>7 DEF LoopAgain
  <2> QED
    BY <2>1, <2>2, <2>3
<1> QED
  BY <1>3, <1>4, <1>5, <1>6, <1>7 DEF Loop

\* TimerManager implements TimerTable: for every number of threads, timers
\* and intervals, due timers fire earliest first, a round leaves none behind,
\* and an id is never given to two armed timers.
THEOREM Refinement == Spec => ImplementsTimerTable
<1>1. Init => CallTimes /\ Table!Init
  BY DEF Init, CallTimes, Table!Init, ToSet, Phase
<1>2. ListInv /\ CallTimes /\ [Next]_vars => CallTimes'
  BY CallTimesKept DEF ListInv
<1>3. ListInv /\ CallTimes /\ [Next]_vars => [Table!Next]_(Table!vars)
  <2> SUFFICES ASSUME ListInv, CallTimes, [Next]_vars
               PROVE  [Table!Next]_(Table!vars)
    OBVIOUS
  <2>1. CASE \/ UNCHANGED vars \/ WakeForEvent \/ \E th \in Threads : AddFails(th)
             \/ \E th \in Threads : AddTimer(th) \/ AddLongTimer(th)
             \/ AddPluginTimer
    <3>1. CASE \/ \E th \in Threads : AddTimer(th) \/ AddLongTimer(th)
               \/ AddPluginTimer
      <4>1. UNCHANGED <<timers_, now, wpc, nowTime, callbacks>>
        BY <3>1, AddsBegin DEF BeginAdd, loopVars
      <4> QED
        BY <4>1 DEF Table!vars, Phase
    <3>2. CASE UNCHANGED vars \/ \E th \in Threads : AddFails(th)
      <4>1. UNCHANGED <<timers_, now, wpc, nowTime, callbacks>>
        BY <3>2 DEF vars, AddFails, loopVars
      <4> QED
        BY <4>1 DEF Table!vars, Phase
    <3>3. CASE WakeForEvent
      BY <3>3 DEF WakeForEvent, Table!vars, Phase
    <3> QED
      BY <2>1, <3>1, <3>2, <3>3
  <2>2. CASE Tick
    <3>1. /\ now' = now + 1 /\ UNCHANGED <<timers_, wpc, nowTime, callbacks>>
      BY <2>2 DEF Tick, loopVars
    <3> QED
      BY <3>1 DEF Table!Tick, Table!Next, Phase
  <2>3. CASE \E th \in Threads : EndAdd(th)
    BY <2>3, EndAddRefines
  <2>4. CASE CallManager
    BY <2>4, CallManagerRefines
  <2>5. CASE Loop
    BY <2>5, CollectRefines, EndCollectRefines, LoopRefines
  <2> QED
    BY <2>1, <2>2, <2>3, <2>4, <2>5 DEF Next
<1>4. Spec => []ListInv
  BY ListInvariant
<1> QED
  BY <1>1, <1>2, <1>3, <1>4, PTL DEF Spec, ImplementsTimerTable, Table!Spec
=============================================================================
