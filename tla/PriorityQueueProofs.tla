------------------------- MODULE PriorityQueueProofs -------------------------
(***************************************************************************)
(* The heap of the shared priority queue, for every set of objects and     *)
(* threads and every bound: shift-up and shift-down, written as the        *)
(* recursive functions of SharedPriorityQueue, keep the order of the heap  *)
(* and its objects; so does every step of the threads, and the queue       *)
(* implements AbstractPriorityQueue.  It holds until remove! uses a vector *)
(* that put! has replaced (stale).                                         *)
(***************************************************************************)
EXTENDS SharedPriorityQueue, InductionLemmas, FiniteSetTheorems, TLAPS

(***************************************************************************)
(* Vectors and what they hold.                                             *)
(***************************************************************************)
Vec(n) == [1..n -> Int]

\* The position that shift-up compares j with.
Parent(j) == (j - 1) \div 2

\* Where x is in a vector, and how often.
Places(v, x) == {i \in DOMAIN v : v[i] = x}
Count(v, x) == Cardinality(Places(v, x))
One(b) == IF b THEN 1 ELSE 0

\* The parent of a position is before it, and the position one of its two children.
LEMMA ParentPlace ==
  ASSUME NEW j \in Nat, j > 0
  PROVE  /\ Parent(j) \in Nat /\ Parent(j) < j
         /\ (j = 2 * Parent(j) + 1 \/ j = 2 * Parent(j) + 2)
BY DEF Parent

\* Parents are in the order of their children.
LEMMA ParentOrder ==
  ASSUME NEW i \in Nat, NEW j \in Nat, 0 < i, i <= j
  PROVE  Parent(i) <= Parent(j)
BY DEF Parent

\* Positions of a vector, counted from 0.
LEMMA VecAt ==
  ASSUME NEW n \in Nat, NEW v \in Vec(n), NEW i \in 0..(n - 1)
  PROVE  i + 1 \in 1..n /\ v[i + 1] \in Int
BY DEF Vec

\* Vector w is v with a at position j.
Written(n, v, j, a, w) ==
  /\ w \in Vec(n) /\ w[j + 1] = a
  /\ \A i \in 0..(n - 1) : i # j => w[i + 1] = v[i + 1]

\* Writing an element of a vector.
LEMMA VecExcept ==
  ASSUME NEW n \in Nat, NEW v \in Vec(n), NEW j \in 0..(n - 1), NEW a \in Int
  PROVE  Written(n, v, j, a, [v EXCEPT ![j + 1] = a])
BY DEF Vec, Written

\* The vector is a finite function, so what it holds can be counted.
LEMMA PlacesFinite ==
  ASSUME NEW n \in Nat, NEW v \in Vec(n), NEW x
  PROVE  IsFiniteSet(Places(v, x)) /\ Count(v, x) \in Nat
<1>1. IsFiniteSet(1..n)
  BY FS_Interval
<1>2. Places(v, x) \subseteq 1..n
  BY DEF Places, Vec
<1>3. IsFiniteSet(Places(v, x))
  BY <1>1, <1>2, FS_Subset, Zenon
<1> QED
  BY <1>3, FS_CardinalityType, Zenon DEF Count

\* Writing one element takes one from the count of the old and adds one to the new.
LEMMA CountExcept ==
  ASSUME NEW n \in Nat, NEW v \in Vec(n), NEW i \in 1..n, NEW a \in Int, NEW x
  PROVE  Count([v EXCEPT ![i] = a], x) + One(v[i] = x) = Count(v, x) + One(a = x)
<1> DEFINE w == [v EXCEPT ![i] = a]
           Others == Places(v, x) \ {i}
<1>1. w \in Vec(n)
  BY DEF Vec
<1>2. IsFiniteSet(Places(v, x)) /\ IsFiniteSet(Others)
  <2>1. IsFiniteSet(Places(v, x))
    BY PlacesFinite, Zenon
  <2> QED
    BY <2>1, FS_RemoveElement, Zenon
<1>3. /\ v[i] = x => Places(v, x) = Others \cup {i}
      /\ v[i] # x => Places(v, x) = Others
      /\ a = x => Places(w, x) = Others \cup {i}
      /\ a # x => Places(w, x) = Others
  <2>1. i \in DOMAIN v /\ DOMAIN v = DOMAIN w /\ w[i] = a /\ \A k \in DOMAIN v : k # i => w[k] = v[k]
    BY DEF Vec
  <2> HIDE DEF w
  <2> QED
    BY <2>1, Zenon DEF Places
<1>4. Cardinality(Others \cup {i}) = Cardinality(Others) + 1 /\ Cardinality(Others) \in Nat
  <2>1. i \notin Others
    OBVIOUS
  <2> HIDE DEF Others
  <2>2. Cardinality(Others) \in Nat
    BY <1>2, FS_CardinalityType, Zenon
  <2>3. Cardinality(Others \cup {i}) = Cardinality(Others) + 1
    BY <1>2, <2>1, FS_AddElement, Zenon
  <2> QED
    BY <2>2, <2>3, Zenon
<1> HIDE DEF w, Others
<1>5. Count(v, x) = Cardinality(Others) + One(v[i] = x)
  BY <1>3, <1>4 DEF Count, One
<1>6. Count(w, x) = Cardinality(Others) + One(a = x)
  BY <1>3, <1>4 DEF Count, One
<1>7. One(v[i] = x) \in Nat /\ One(a = x) \in Nat
  BY DEF One
<1> QED
  BY <1>4, <1>5, <1>6, <1>7 DEF w

(***************************************************************************)
(* Sifting up.                                                             *)
(***************************************************************************)
\* Vector es has objects in heap order at the first j positions.
HeapUpto(es, j) ==
  /\ \A i \in 1..j : es[i] \in Objects
  /\ \A i \in 1..(j - 1) : es[Parent(i) + 1] <= es[i + 1]

\* One step of shift_up at position j, where r comes from its parent.
UpFrom(es, j, o, r) ==
  IF j > 0 /\ o < es[Parent(j) + 1]
  THEN [r EXCEPT ![j + 1] = es[Parent(j) + 1]]
  ELSE [es EXCEPT ![j + 1] = o]

\* What shift_up makes of es from position j.
SiftedUp(n, es, j, o, r) ==
  /\ r \in Vec(n)
  /\ \A i \in 0..j : r[i + 1] \in Objects
  /\ \A i \in (j + 1)..(n - 1) : r[i + 1] = es[i + 1]
  /\ \A i \in 1..j : r[Parent(i) + 1] <= r[i + 1]
  /\ \A i \in 0..(j - 1) : r[i + 1] <= es[i + 1]
  /\ r[j + 1] = o \/ (j > 0 /\ r[j + 1] = es[Parent(j) + 1])
  /\ \A x : Count(r, x) + One(es[j + 1] = x) = Count(es, x) + One(o = x)

\* shift-up where the object is not before its parent: it is put there.
LEMMA UpStops ==
  ASSUME NEW n \in Nat, NEW es \in Vec(n), NEW j \in 0..(n - 1), NEW o \in Objects,
         HeapUpto(es, j), ~(j > 0 /\ o < es[Parent(j) + 1])
  PROVE  SiftedUp(n, es, j, o, [es EXCEPT ![j + 1] = o])
<1> DEFINE r == [es EXCEPT ![j + 1] = o]
<1>0. o \in Int /\ j + 1 \in 1..n
  BY ObjectsAssumption
<1>1. r \in Vec(n) /\ r[j + 1] = o /\ \A i \in 0..(n - 1) : i # j => r[i + 1] = es[i + 1]
  <2>1. Written(n, es, j, o, r)
    BY <1>0, VecExcept, Zenon
  <2> HIDE DEF r
  <2> QED
    BY <2>1, Zenon DEF Written
<1>2. \A x : Count(r, x) + One(es[j + 1] = x) = Count(es, x) + One(o = x)
  BY <1>0, CountExcept
<1> HIDE DEF r
<1>3. \A i \in 0..j : r[i + 1] \in Objects
  BY <1>1 DEF HeapUpto
<1>4. ASSUME NEW i \in 1..j PROVE r[Parent(i) + 1] <= r[i + 1]
  <2>1. Parent(i) \in Nat /\ Parent(i) < i
    BY ParentPlace
  <2>2. r[Parent(i) + 1] = es[Parent(i) + 1]
    BY <1>1, <2>1
  <2>3. CASE i = j
    <3>1. es[Parent(j) + 1] \in Int
      BY <2>1, <2>3 DEF Vec
    <3> QED
      BY <1>0, <1>1, <2>2, <2>3, <3>1
  <2>4. CASE i # j
    <3>1. i \in 1..(j - 1) /\ r[i + 1] = es[i + 1]
      BY <1>1, <2>4
    <3> QED
      BY <2>2, <3>1 DEF HeapUpto
  <2> QED
    BY <2>3, <2>4
<1>5. \A i \in 0..(j - 1) : r[i + 1] <= es[i + 1]
  BY <1>1 DEF Vec
<1>6. \A i \in (j + 1)..(n - 1) : r[i + 1] = es[i + 1]
  BY <1>1
<1> QED
  BY <1>1, <1>2, <1>3, <1>4, <1>5, <1>6, Zenon DEF SiftedUp, r

\* shift-up where the object is before its parent: the parent moves down, and the
\* rest of the shift is the one from the parent's position.
LEMMA UpMoves ==
  ASSUME NEW n \in Nat, NEW es \in Vec(n), NEW j \in 0..(n - 1), NEW o \in Objects,
         HeapUpto(es, j), j > 0, o < es[Parent(j) + 1],
         NEW q, SiftedUp(n, es, Parent(j), o, q)
  PROVE  SiftedUp(n, es, j, o, [q EXCEPT ![j + 1] = es[Parent(j) + 1]])
<1> DEFINE p == Parent(j)
           r == [q EXCEPT ![j + 1] = es[p + 1]]
<1>0. /\ o \in Int /\ j + 1 \in 1..n /\ p \in 0..(j - 1) /\ p + 1 \in 1..n /\ p + 1 \in 1..j
      /\ es[p + 1] \in Int /\ es[p + 1] \in Objects
  <2>1. p \in Nat /\ p < j
    BY ParentPlace
  <2> HIDE DEF p
  <2>2. o \in Int /\ j + 1 \in 1..n /\ p \in 0..(j - 1) /\ p + 1 \in 1..n /\ p + 1 \in 1..j
    BY <2>1, ObjectsAssumption
  <2> QED
    BY <2>2 DEF Vec, HeapUpto
<1>1. /\ q \in Vec(n)
      /\ \A i \in 0..p : q[i + 1] \in Objects
      /\ \A i \in (p + 1)..(n - 1) : q[i + 1] = es[i + 1]
      /\ \A i \in 1..p : q[Parent(i) + 1] <= q[i + 1]
      /\ \A i \in 0..(p - 1) : q[i + 1] <= es[i + 1]
      /\ q[p + 1] = o \/ (p > 0 /\ q[p + 1] = es[Parent(p) + 1])
      /\ \A x : Count(q, x) + One(es[p + 1] = x) = Count(es, x) + One(o = x)
  BY Zenon DEF SiftedUp
<1>2. r \in Vec(n) /\ r[j + 1] = es[p + 1] /\ \A i \in 0..(n - 1) : i # j => r[i + 1] = q[i + 1]
  <2>1. Written(n, q, j, es[p + 1], r)
    BY <1>0, <1>1, VecExcept, Zenon
  <2> HIDE DEF r
  <2> QED
    BY <2>1, Zenon DEF Written
<1>3. q[p + 1] <= es[p + 1]
  <2>1. CASE q[p + 1] = o
    BY <1>0, <2>1
  <2>2. CASE p > 0 /\ q[p + 1] = es[Parent(p) + 1]
    <3>1. p \in 1..(j - 1)
      BY <1>0, <2>2
    <3> QED
      BY <2>2, <3>1 DEF HeapUpto
  <2> QED
    BY <1>1, <2>1, <2>2
<1>4. \A x : Count(r, x) + One(es[j + 1] = x) = Count(es, x) + One(o = x)
  <2> SUFFICES ASSUME NEW x PROVE Count(r, x) + One(es[j + 1] = x) = Count(es, x) + One(o = x)
    BY Zenon
  <2>1. Count(r, x) + One(q[j + 1] = x) = Count(q, x) + One(es[p + 1] = x)
    BY <1>0, <1>1, CountExcept
  <2>2. q[j + 1] = es[j + 1]
    <3> HIDE DEF p
    <3> QED
      BY <1>0, <1>1
  <2>3. Count(r, x) \in Nat /\ Count(q, x) \in Nat /\ Count(es, x) \in Nat
    BY <1>1, <1>2, PlacesFinite, Zenon
  <2>4. One(es[j + 1] = x) \in Nat /\ One(es[p + 1] = x) \in Nat /\ One(o = x) \in Nat
    BY DEF One
  <2> HIDE DEF r, p
  <2> QED
    BY <1>1, <2>1, <2>2, <2>3, <2>4
<1> HIDE DEF r
<1>5. ASSUME NEW i \in 0..j PROVE r[i + 1] \in Objects
  <2>1. CASE i = j
    BY <1>0, <1>2, <2>1
  <2>2. CASE i # j /\ i <= p
    <3> HIDE DEF p
    <3> QED
      BY <1>0, <1>1, <1>2, <2>2
  <2>3. CASE i # j /\ i > p
    <3> HIDE DEF p
    <3>1. r[i + 1] = es[i + 1] /\ i + 1 \in 1..j
      BY <1>0, <1>1, <1>2, <2>3
    <3> QED
      BY <3>1 DEF HeapUpto
  <2> QED
    BY <1>0, <2>1, <2>2, <2>3
<1>6. ASSUME NEW i \in 1..j PROVE r[Parent(i) + 1] <= r[i + 1]
  <2>1. Parent(i) \in Nat /\ Parent(i) < i /\ Parent(i) <= p
    BY ParentPlace, ParentOrder
  <2>2. r[Parent(i) + 1] = q[Parent(i) + 1] /\ Parent(i) \in 0..(n - 1)
    BY <1>2, <2>1
  <2>3. q[Parent(i) + 1] <= es[Parent(i) + 1] /\ q[Parent(i) + 1] \in Int /\ es[Parent(i) + 1] \in Int
    <3> HIDE DEF p
    <3>1. Parent(i) = p \/ Parent(i) \in 0..(p - 1)
      BY <1>0, <2>1
    <3>2. q[Parent(i) + 1] \in Int /\ es[Parent(i) + 1] \in Int
      BY <1>1, <2>2, VecAt, Zenon
    <3> QED
      BY <1>1, <1>3, <3>1, <3>2
  <2>4. CASE i = j
    BY <1>2, <1>3, <2>2, <2>4
  <2>5. CASE i # j /\ i <= p
    <3> HIDE DEF p
    <3>1. i \in 1..p /\ i \in 0..(n - 1)
      BY <1>0, <2>5
    <3> QED
      BY <1>1, <1>2, <2>2, <2>5, <3>1
  <2>6. CASE i # j /\ i > p
    <3> HIDE DEF p
    <3>1. i \in 1..(j - 1) /\ i \in (p + 1)..(n - 1) /\ i \in 0..(n - 1)
      BY <1>0, <2>6
    <3>2. r[i + 1] = es[i + 1] /\ es[i + 1] \in Int
      BY <1>1, <1>2, <2>6, <3>1 DEF Vec
    <3>3. es[Parent(i) + 1] <= es[i + 1]
      BY <3>1 DEF HeapUpto
    <3> QED
      BY <2>2, <2>3, <3>2, <3>3
  <2> QED
    BY <1>0, <2>4, <2>5, <2>6
<1>7. ASSUME NEW i \in 0..(j - 1) PROVE r[i + 1] <= es[i + 1]
  <2> HIDE DEF p
  <2>1. r[i + 1] = q[i + 1] /\ es[i + 1] \in Int
    BY <1>2 DEF Vec
  <2>2. i \in 0..(p - 1) \/ i = p \/ i \in (p + 1)..(n - 1)
    BY <1>0
  <2> QED
    BY <1>1, <1>3, <2>1, <2>2
<1>8. ASSUME NEW i \in (j + 1)..(n - 1) PROVE r[i + 1] = es[i + 1]
  <2> HIDE DEF p
  <2>1. i \in 0..(n - 1) /\ i # j /\ i \in (p + 1)..(n - 1)
    BY <1>0
  <2> QED
    BY <1>1, <1>2, <2>1
<1>9. j > 0 /\ r[j + 1] = es[Parent(j) + 1]
  BY <1>2
<1> QED
  BY <1>2, <1>4, <1>5, <1>6, <1>7, <1>8, <1>9, Zenon DEF SiftedUp, r

\* The recursion that shift_up is defined by has a solution.
LEMMA UpEquation ==
  ASSUME NEW n \in Nat, NEW es \in Vec(n), NEW k \in 0..(n - 1), NEW o \in Int
  PROVE  \E h : h = [j \in 0..k |-> UpFrom(es, j, o, h[Parent(j)])]
<1> DEFINE D == 0..k
           T == Vec(n)
           Stop == {j \in D : ~(j > 0 /\ o < es[Parent(j) + 1])}
           next == [j \in D |-> Parent(j)]
           rank == [j \in D |-> j]
           base == [j \in D |-> [es EXCEPT ![j + 1] = o]]
           g == [x \in D \X T |-> IF x[1] \in Stop THEN es
                                  ELSE [x[2] EXCEPT ![x[1] + 1] = es[Parent(x[1]) + 1]]]
<1>1. k \in Nat /\ rank \in [D -> 0..k]
  OBVIOUS
<1>2. base \in [D -> T]
  <2> SUFFICES ASSUME NEW j \in D PROVE [es EXCEPT ![j + 1] = o] \in T
    BY Zenon
  <2> QED
    BY DEF Vec
<1>3. \A j \in D : j \notin Stop => Parent(j) \in D /\ Parent(j) < j /\ es[Parent(j) + 1] \in Int
  <2> SUFFICES ASSUME NEW j \in D, j > 0
               PROVE  Parent(j) \in D /\ Parent(j) < j /\ es[Parent(j) + 1] \in Int
    BY Zenon
  <2>1. Parent(j) \in Nat /\ Parent(j) < j
    BY ParentPlace
  <2>2. Parent(j) \in D /\ Parent(j) + 1 \in 1..n
    BY <2>1
  <2> QED
    BY <2>1, <2>2 DEF Vec
<1>4. Descends(D, Stop, next, rank)
  <2> HIDE DEF D, Stop
  <2> QED
    BY <1>3, Zenon DEF Descends
<1>5. g \in [D \X T -> T]
  <2>1. ASSUME NEW j \in D, j \notin Stop, NEW v \in T
        PROVE  [v EXCEPT ![j + 1] = es[Parent(j) + 1]] \in T
    BY <1>3, <2>1 DEF Vec
  <2> HIDE DEF D, Stop, T
  <2>2. es \in T
    BY Zenon DEF T
  <2> QED
    BY <2>1, <2>2
<1>6. PICK h \in [D -> T] : Solves(h, D, Stop, base, next, g)
  <2> HIDE DEF D, T, Stop, next, rank, base, g
  <2> QED
    BY <1>1, <1>2, <1>4, <1>5, RankedRecursion, Zenon
<1>7. ASSUME NEW j \in D PROVE h[j] = UpFrom(es, j, o, h[Parent(j)])
  <2>1. h[j] = IF j \in Stop THEN base[j] ELSE g[<<j, h[next[j]]>>]
    BY <1>6, Zenon DEF Solves
  <2>2. CASE j \in Stop
    <3>1. h[j] = [es EXCEPT ![j + 1] = o]
      BY <2>1, <2>2, Zenon
    <3> QED
      BY <2>2, <3>1, Zenon DEF UpFrom
  <2>3. CASE j \notin Stop
    <3>1. h[Parent(j)] \in T /\ next[j] = Parent(j)
      BY <1>3, <2>3, Zenon
    <3>2. <<j, h[Parent(j)]>> \in D \X T /\ h[j] = g[<<j, h[Parent(j)]>>]
      BY <2>1, <2>3, <3>1, Zenon
    <3>3. g[<<j, h[Parent(j)]>>] = [h[Parent(j)] EXCEPT ![j + 1] = es[Parent(j) + 1]]
      <4> HIDE DEF D, T, Stop
      <4> QED
        BY <2>3, <3>2
    <3> QED
      BY <2>3, <3>2, <3>3, Zenon DEF UpFrom
  <2> QED
    BY <2>2, <2>3
<1>8. h = [j \in D |-> UpFrom(es, j, o, h[Parent(j)])]
  BY <1>6, <1>7, Zenon
<1> QED
  BY <1>8, Zenon

\* shift-up keeps the order, and the objects, of the heap in front of k.
LEMMA ShiftUp ==
  ASSUME NEW n \in Nat, NEW es \in Vec(n), NEW k \in 0..(n - 1), NEW o \in Objects,
         HeapUpto(es, k)
  PROVE  SiftedUp(n, es, k, o, shift_up(es, k, o))
<1> DEFINE h[j \in 0..k] == UpFrom(es, j, o, h[Parent(j)])
           S == {j \in 0..k : SiftedUp(n, es, j, o, h[j])}
<1>0. o \in Int /\ k \in Nat /\ k \in 0..k
  BY ObjectsAssumption
<1>1. h = [j \in 0..k |-> UpFrom(es, j, o, h[Parent(j)])]
  BY <1>0, UpEquation, Zenon
<1>2. shift_up(es, k, o) = h[k]
  BY DEF shift_up, UpFrom, Parent
<1> HIDE DEF h
<1>3. ASSUME NEW j \in 0..k, \A i \in 0..(j - 1) : i \in S PROVE j \in S
  <2>1. h[j] = UpFrom(es, j, o, h[Parent(j)])
    BY <1>1, Zenon
  <2>2. HeapUpto(es, j) /\ j \in 0..(n - 1)
    BY DEF HeapUpto
  <2>3. CASE j > 0 /\ o < es[Parent(j) + 1]
    <3>1. Parent(j) \in 0..(j - 1)
      BY <2>3, ParentPlace
    <3>2. SiftedUp(n, es, Parent(j), o, h[Parent(j)])
      BY <1>3, <3>1, Zenon
    <3>3. h[j] = [h[Parent(j)] EXCEPT ![j + 1] = es[Parent(j) + 1]]
      BY <2>1, <2>3, Zenon DEF UpFrom
    <3>4. SiftedUp(n, es, j, o, [h[Parent(j)] EXCEPT ![j + 1] = es[Parent(j) + 1]])
      BY <2>2, <2>3, <3>2, UpMoves, Zenon
    <3> QED
      BY <3>3, <3>4, Zenon
  <2>4. CASE ~(j > 0 /\ o < es[Parent(j) + 1])
    <3>1. h[j] = [es EXCEPT ![j + 1] = o]
      BY <2>1, <2>4, Zenon DEF UpFrom
    <3>2. SiftedUp(n, es, j, o, [es EXCEPT ![j + 1] = o])
      BY <2>2, <2>4, UpStops, Zenon
    <3> QED
      BY <3>1, <3>2, Zenon
  <2> QED
    BY <2>3, <2>4
<1>4. 0..k \subseteq S
  <2> HIDE DEF S
  <2> QED
    BY <1>0, <1>3, StrongInduction, Zenon
<1> QED
  BY <1>0, <1>2, <1>4, Zenon

(***************************************************************************)
(* Sifting down.                                                           *)
(***************************************************************************)
\* Vector es has objects in heap order below position j.
HeapBelow(es, size, j) ==
  /\ \A i \in (j + 1)..(size - 1) : es[i + 1] \in Objects
  /\ \A i \in 1..(size - 1) : Parent(i) > j => es[Parent(i) + 1] <= es[i + 1]

\* The child that shift_down compares with.
Child(es, size, j) ==
  IF (2 * j + 1) + 1 < size /\ es[(2 * j + 1) + 1] > es[((2 * j + 1) + 1) + 1]
  THEN (2 * j + 1) + 1 ELSE 2 * j + 1

\* One step of shift_down at position j, where r comes from its child.
DownFrom(es, size, j, x, r) ==
  IF j < size \div 2 /\ x > es[Child(es, size, j) + 1]
  THEN [r EXCEPT ![j + 1] = es[Child(es, size, j) + 1]]
  ELSE [es EXCEPT ![j + 1] = x]

\* What shift_down makes of es from position j.
SiftedDown(n, size, es, j, x, r) ==
  /\ r \in Vec(n)
  /\ \A i \in j..(size - 1) : r[i + 1] \in Objects
  /\ \A i \in 0..(n - 1) : i < j \/ i >= size => r[i + 1] = es[i + 1]
  /\ \A i \in 1..(size - 1) : Parent(i) >= j => r[Parent(i) + 1] <= r[i + 1]
  /\ \A i \in (j + 1)..(size - 1) : es[i + 1] <= r[i + 1]
  /\ \/ r[j + 1] = x
     \/ r[j + 1] < x /\ \E c \in (j + 1)..(size - 1) : Parent(c) = j /\ r[j + 1] = es[c + 1]
  /\ \A y : Count(r, y) + One(es[j + 1] = y) = Count(es, y) + One(x = y)

\* The child that shift-down compares with is the smaller of the two.
LEMMA ChildPlace ==
  ASSUME NEW n \in Nat, NEW size \in 0..n, NEW es \in Vec(n), NEW j \in Nat,
         j < size \div 2
  PROVE  /\ Child(es, size, j) \in (j + 1)..(size - 1) /\ Parent(Child(es, size, j)) = j
         /\ es[Child(es, size, j) + 1] \in Int
         /\ \A i \in 1..(size - 1) : Parent(i) = j => es[Child(es, size, j) + 1] <= es[i + 1]
<1> DEFINE c == Child(es, size, j)
           l == 2 * j + 1
           r == 2 * j + 2
<1>1. l \in (j + 1)..(size - 1) /\ Parent(l) = j /\ Parent(r) = j /\ r \in Nat
  BY DEF Parent
<1>2. c = (IF r < size /\ es[l + 1] > es[r + 1] THEN r ELSE l)
  <2>1. (2 * j + 1) + 1 = r
    OBVIOUS
  <2> QED
    BY <2>1, Zenon DEF Child
<1>3. es[l + 1] \in Int /\ (r < size => es[r + 1] \in Int /\ r \in (j + 1)..(size - 1))
  BY <1>1 DEF Vec
<1>4. ASSUME NEW i \in 1..(size - 1), Parent(i) = j
      PROVE  i = l \/ (i = r /\ r < size)
  BY <1>4, ParentPlace
<1> HIDE DEF c, l, r
<1>5. c \in (j + 1)..(size - 1) /\ Parent(c) = j /\ es[c + 1] \in Int
  BY <1>1, <1>2, <1>3, Zenon
<1>6. es[c + 1] <= es[l + 1] /\ (r < size => es[c + 1] <= es[r + 1])
  BY <1>2, <1>3
<1>7. \A i \in 1..(size - 1) : Parent(i) = j => es[c + 1] <= es[i + 1]
  BY <1>4, <1>6, Zenon
<1> QED
  BY <1>5, <1>7, Zenon DEF c

\* Only the positions of the first half have children.
LEMMA NoChild ==
  ASSUME NEW size \in Nat, NEW i \in 1..(size - 1)
  PROVE  Parent(i) < size \div 2
BY DEF Parent

\* shift-down where no child is before the object: it is put there.
LEMMA DownStops ==
  ASSUME NEW n \in Nat, NEW size \in 0..n, NEW es \in Vec(n), NEW j \in 0..(size - 1),
         NEW x \in Objects, HeapBelow(es, size, j),
         ~(j < size \div 2 /\ x > es[Child(es, size, j) + 1])
  PROVE  SiftedDown(n, size, es, j, x, [es EXCEPT ![j + 1] = x])
<1> DEFINE r == [es EXCEPT ![j + 1] = x]
<1>0. x \in Int /\ j + 1 \in 1..n /\ j \in 0..(n - 1)
  BY ObjectsAssumption
<1>1. r \in Vec(n) /\ r[j + 1] = x /\ \A i \in 0..(n - 1) : i # j => r[i + 1] = es[i + 1]
  <2>1. Written(n, es, j, x, r)
    BY <1>0, VecExcept, Zenon
  <2> HIDE DEF r
  <2> QED
    BY <2>1, Zenon DEF Written
<1>2. \A y : Count(r, y) + One(es[j + 1] = y) = Count(es, y) + One(x = y)
  BY <1>0, CountExcept
<1> HIDE DEF r
<1>3. \A i \in j..(size - 1) : r[i + 1] \in Objects
  BY <1>1 DEF HeapBelow
<1>4. ASSUME NEW i \in 1..(size - 1), Parent(i) >= j PROVE r[Parent(i) + 1] <= r[i + 1]
  <2>1. Parent(i) \in Nat /\ Parent(i) < i
    BY ParentPlace
  <2>2. r[i + 1] = es[i + 1] /\ es[i + 1] \in Int
    <3>1. i \in 0..(n - 1) /\ i # j
      BY <1>4, <2>1
    <3> QED
      BY <1>1, <3>1, VecAt, Zenon
  <2>3. CASE Parent(i) = j
    <3>1. j < size \div 2
      BY <2>3, NoChild
    <3>2. es[Child(es, size, j) + 1] <= es[i + 1] /\ es[Child(es, size, j) + 1] \in Int
      BY <2>3, <3>1, ChildPlace
    <3> QED
      BY <1>0, <1>1, <2>2, <2>3, <3>1, <3>2
  <2>4. CASE Parent(i) # j
    <3>1. Parent(i) > j /\ r[Parent(i) + 1] = es[Parent(i) + 1]
      BY <1>1, <1>4, <2>1, <2>4
    <3> QED
      BY <2>2, <3>1 DEF HeapBelow
  <2> QED
    BY <2>3, <2>4
<1>5. \A i \in (j + 1)..(size - 1) : es[i + 1] <= r[i + 1]
  BY <1>1 DEF Vec
<1>6. \A i \in 0..(n - 1) : i < j \/ i >= size => r[i + 1] = es[i + 1]
  BY <1>1
<1> QED
  BY <1>1, <1>2, <1>3, <1>4, <1>5, <1>6, Zenon DEF SiftedDown, r

\* shift-down where a child is before the object: the child moves up, and the rest
\* of the shift is the one from the child's position.
LEMMA DownMoves ==
  ASSUME NEW n \in Nat, NEW size \in 0..n, NEW es \in Vec(n), NEW j \in 0..(size - 1),
         NEW x \in Objects, HeapBelow(es, size, j), j < size \div 2,
         NEW c, c = Child(es, size, j), x > es[c + 1],
         NEW q, SiftedDown(n, size, es, c, x, q)
  PROVE  SiftedDown(n, size, es, j, x, [q EXCEPT ![j + 1] = es[c + 1]])
<1> DEFINE r == [q EXCEPT ![j + 1] = es[c + 1]]
<1>0. /\ x \in Int /\ j \in Nat /\ j + 1 \in 1..n
      /\ c \in (j + 1)..(size - 1) /\ c \in Nat /\ c > j /\ c < size /\ Parent(c) = j
      /\ es[c + 1] \in Int /\ es[c + 1] \in Objects
      /\ \A i \in 1..(size - 1) : Parent(i) = j => es[c + 1] <= es[i + 1]
  <2>1. x \in Int /\ j \in Nat /\ j + 1 \in 1..n
    BY ObjectsAssumption
  <2>2. /\ c \in (j + 1)..(size - 1) /\ Parent(c) = j /\ es[c + 1] \in Int
        /\ \A i \in 1..(size - 1) : Parent(i) = j => es[c + 1] <= es[i + 1]
    BY <2>1, ChildPlace, Zenon
  <2>3. es[c + 1] \in Objects /\ c \in Nat /\ c > j /\ c < size
    BY <2>2 DEF HeapBelow
  <2> QED
    BY <2>1, <2>2, <2>3, Zenon
<1>1. /\ q \in Vec(n)
      /\ \A i \in c..(size - 1) : q[i + 1] \in Objects
      /\ \A i \in 0..(n - 1) : i < c \/ i >= size => q[i + 1] = es[i + 1]
      /\ \A i \in 1..(size - 1) : Parent(i) >= c => q[Parent(i) + 1] <= q[i + 1]
      /\ \A i \in (c + 1)..(size - 1) : es[i + 1] <= q[i + 1]
      /\ \/ q[c + 1] = x
         \/ q[c + 1] < x /\ \E d \in (c + 1)..(size - 1) : Parent(d) = c /\ q[c + 1] = es[d + 1]
      /\ \A y : Count(q, y) + One(es[c + 1] = y) = Count(es, y) + One(x = y)
  BY Zenon DEF SiftedDown
<1>2. r \in Vec(n) /\ r[j + 1] = es[c + 1] /\ \A i \in 0..(n - 1) : i # j => r[i + 1] = q[i + 1]
  <2>1. j \in 0..(n - 1)
    BY <1>0
  <2>2. Written(n, q, j, es[c + 1], r)
    BY <1>0, <1>1, <2>1, VecExcept, Zenon
  <2> HIDE DEF r
  <2> QED
    BY <2>2, Zenon DEF Written
<1>3. es[c + 1] <= q[c + 1]
  <2>1. CASE q[c + 1] = x
    BY <1>0, <2>1
  <2>2. CASE \E d \in (c + 1)..(size - 1) : Parent(d) = c /\ q[c + 1] = es[d + 1]
    <3>1. PICK d \in (c + 1)..(size - 1) : Parent(d) = c /\ q[c + 1] = es[d + 1]
      BY <2>2, Zenon
    <3>2. d \in 1..(size - 1)
      BY <1>0
    <3> QED
      BY <1>0, <3>1, <3>2, Zenon DEF HeapBelow
  <2> QED
    BY <1>1, <2>1, <2>2, Zenon
<1>4. \A y : Count(r, y) + One(es[j + 1] = y) = Count(es, y) + One(x = y)
  <2> SUFFICES ASSUME NEW y PROVE Count(r, y) + One(es[j + 1] = y) = Count(es, y) + One(x = y)
    BY Zenon
  <2>1. Count(r, y) + One(q[j + 1] = y) = Count(q, y) + One(es[c + 1] = y)
    BY <1>0, <1>1, CountExcept
  <2>2. q[j + 1] = es[j + 1]
    BY <1>0, <1>1
  <2>3. Count(r, y) \in Nat /\ Count(q, y) \in Nat /\ Count(es, y) \in Nat
    BY <1>1, <1>2, PlacesFinite, Zenon
  <2>4. One(es[j + 1] = y) \in Nat /\ One(es[c + 1] = y) \in Nat /\ One(x = y) \in Nat
    BY DEF One
  <2> HIDE DEF r
  <2> QED
    BY <1>1, <2>1, <2>2, <2>3, <2>4
<1> HIDE DEF r
<1>5. ASSUME NEW i \in j..(size - 1) PROVE r[i + 1] \in Objects
  <2>1. CASE i = j
    BY <1>0, <1>2, <2>1
  <2>2. CASE i > j /\ i < c
    <3>1. r[i + 1] = es[i + 1]
      BY <1>0, <1>1, <1>2, <2>2
    <3> QED
      BY <2>2, <3>1 DEF HeapBelow
  <2>3. CASE i >= c
    BY <1>0, <1>1, <1>2, <2>3
  <2> QED
    BY <1>0, <2>1, <2>2, <2>3
<1>6. ASSUME NEW i \in (j + 1)..(size - 1) PROVE es[i + 1] <= r[i + 1]
  <2>1. r[i + 1] = q[i + 1] /\ es[i + 1] \in Int
    BY <1>2 DEF Vec
  <2>2. i \in 0..(n - 1) /\ (i < c \/ i = c \/ i \in (c + 1)..(size - 1))
    BY <1>0
  <2> QED
    BY <1>1, <1>3, <2>1, <2>2
<1>7. ASSUME NEW i \in 1..(size - 1), Parent(i) >= j PROVE r[Parent(i) + 1] <= r[i + 1]
  <2>1. Parent(i) \in Nat /\ Parent(i) < i
    BY ParentPlace
  <2>2. i \in (j + 1)..(size - 1) /\ i \in 0..(n - 1) /\ r[i + 1] \in Int /\ es[i + 1] \in Int
    <3>1. i \in (j + 1)..(size - 1) /\ i \in 0..(n - 1)
      BY <1>7, <2>1
    <3>2. r \in Vec(n)
      BY <1>2
    <3> HIDE DEF r
    <3>3. r[i + 1] \in Int /\ es[i + 1] \in Int
      BY <3>1, <3>2, VecAt, Zenon
    <3> QED
      BY <3>1, <3>3
  <2>3. es[i + 1] <= r[i + 1]
    BY <1>6, <2>2, Zenon
  <2>4. CASE Parent(i) = j
    <3>1. es[c + 1] <= es[i + 1]
      BY <1>0, <2>4, Zenon
    <3> QED
      BY <1>0, <1>2, <2>2, <2>3, <2>4, <3>1
  <2>5. CASE Parent(i) > j /\ Parent(i) < c
    <3>0. Parent(i) \in 0..(n - 1) /\ Parent(i) # j
      BY <2>1, <2>5
    <3>1. r[Parent(i) + 1] = es[Parent(i) + 1] /\ es[Parent(i) + 1] \in Int
      BY <1>1, <1>2, <2>5, <3>0, VecAt, Zenon
    <3>2. es[Parent(i) + 1] <= es[i + 1]
      BY <2>5 DEF HeapBelow
    <3> QED
      BY <2>2, <2>3, <3>1, <3>2
  <2>6. CASE Parent(i) >= c
    <3>1. r[Parent(i) + 1] = q[Parent(i) + 1] /\ r[i + 1] = q[i + 1]
      BY <1>0, <1>2, <2>1, <2>2, <2>6
    <3> QED
      BY <1>1, <2>6, <3>1
  <2> QED
    BY <1>0, <1>7, <2>1, <2>4, <2>5, <2>6
<1>8. ASSUME NEW i \in 0..(n - 1), i < j \/ i >= size PROVE r[i + 1] = es[i + 1]
  BY <1>0, <1>1, <1>2, <1>8
<1>9. r[j + 1] < x /\ \E d \in (j + 1)..(size - 1) : Parent(d) = j /\ r[j + 1] = es[d + 1]
  <2>1. es[c + 1] < x
    BY <1>0
  <2> QED
    BY <1>0, <1>2, <2>1, Zenon
<1> QED
  BY <1>2, <1>4, <1>5, <1>6, <1>7, <1>8, <1>9, Zenon DEF SiftedDown, r

\* The recursion that shift_down is defined by has a solution.
LEMMA DownEquation ==
  ASSUME NEW n \in Nat, NEW size \in 0..n, NEW es \in Vec(n), NEW x \in Int
  PROVE  \E h : h = [j \in 0..(size - 1) |-> DownFrom(es, size, j, x, h[Child(es, size, j)])]
<1> DEFINE D == 0..(size - 1)
           T == Vec(n)
           C(j) == Child(es, size, j)
           Stop == {j \in D : ~(j < size \div 2 /\ x > es[C(j) + 1])}
           next == [j \in D |-> C(j)]
           rank == [j \in D |-> size - j]
           base == [j \in D |-> [es EXCEPT ![j + 1] = x]]
           g == [y \in D \X T |-> IF y[1] \in Stop THEN es
                                  ELSE [y[2] EXCEPT ![y[1] + 1] = es[C(y[1]) + 1]]]
<1>1. size \in Nat /\ rank \in [D -> 0..size] /\ \A j \in D : j \in 0..(n - 1)
  OBVIOUS
<1>2. base \in [D -> T]
  <2> SUFFICES ASSUME NEW j \in D PROVE [es EXCEPT ![j + 1] = x] \in T
    BY Zenon
  <2>1. Written(n, es, j, x, [es EXCEPT ![j + 1] = x])
    BY <1>1, VecExcept, Zenon
  <2> QED
    BY <2>1, Zenon DEF Written
<1>3. ASSUME NEW j \in D, j \notin Stop
      PROVE  C(j) \in D /\ size - C(j) < size - j /\ es[C(j) + 1] \in Int
  <2>1. j \in Nat /\ j < size \div 2
    BY <1>3
  <2>2. C(j) \in (j + 1)..(size - 1) /\ es[C(j) + 1] \in Int
    BY <2>1, ChildPlace, Zenon
  <2> HIDE DEF C
  <2> QED
    BY <2>1, <2>2
<1> HIDE DEF C
<1>4. Descends(D, Stop, next, rank)
  <2> HIDE DEF D, Stop
  <2> QED
    BY <1>3, Zenon DEF Descends
<1>5. g \in [D \X T -> T]
  <2>1. ASSUME NEW j \in D, j \notin Stop, NEW v \in T
        PROVE  [v EXCEPT ![j + 1] = es[C(j) + 1]] \in T
    <3>1. Written(n, v, j, es[C(j) + 1], [v EXCEPT ![j + 1] = es[C(j) + 1]])
      BY <1>1, <1>3, <2>1, VecExcept, Zenon
    <3> QED
      BY <3>1, Zenon DEF Written
  <2> HIDE DEF D, Stop, T
  <2>2. es \in T
    BY Zenon DEF T
  <2> QED
    BY <2>1, <2>2
<1>6. PICK h \in [D -> T] : Solves(h, D, Stop, base, next, g)
  <2> HIDE DEF D, T, Stop, next, rank, base, g
  <2> QED
    BY <1>1, <1>2, <1>4, <1>5, RankedRecursion, Zenon
<1>7. ASSUME NEW j \in D PROVE h[j] = DownFrom(es, size, j, x, h[C(j)])
  <2>1. h[j] = IF j \in Stop THEN base[j] ELSE g[<<j, h[next[j]]>>]
    BY <1>6, Zenon DEF Solves
  <2>2. CASE j \in Stop
    <3>1. h[j] = [es EXCEPT ![j + 1] = x]
      BY <2>1, <2>2, Zenon
    <3> QED
      BY <2>2, <3>1, Zenon DEF DownFrom, C
  <2>3. CASE j \notin Stop
    <3>1. h[C(j)] \in T /\ next[j] = C(j)
      BY <1>3, <2>3, Zenon
    <3>2. <<j, h[C(j)]>> \in D \X T /\ h[j] = g[<<j, h[C(j)]>>]
      BY <2>1, <2>3, <3>1, Zenon
    <3>3. g[<<j, h[C(j)]>>] = [h[C(j)] EXCEPT ![j + 1] = es[C(j) + 1]]
      <4> HIDE DEF D, T, Stop
      <4> QED
        BY <2>3, <3>2
    <3> QED
      BY <2>3, <3>2, <3>3, Zenon DEF DownFrom, C
  <2> QED
    BY <2>2, <2>3
<1>8. h = [j \in D |-> DownFrom(es, size, j, x, h[C(j)])]
  BY <1>6, <1>7, Zenon
<1> QED
  BY <1>8, Zenon DEF C

\* shift-down keeps the order, and the objects, of the heap below k.
LEMMA ShiftDown ==
  ASSUME NEW n \in Nat, NEW size \in 0..n, NEW es \in Vec(n), NEW k \in 0..(size - 1),
         NEW x \in Objects, HeapBelow(es, size, k)
  PROVE  SiftedDown(n, size, es, k, x, shift_down(es, size, k, x))
<1> DEFINE h[j \in 0..(size - 1)] == DownFrom(es, size, j, x, h[Child(es, size, j)])
           S == {j \in 0..(size - 1) : j >= k => SiftedDown(n, size, es, j, x, h[j])}
<1>0. x \in Int /\ size - 1 \in Nat /\ k >= k
  BY ObjectsAssumption
<1>1. h = [j \in 0..(size - 1) |-> DownFrom(es, size, j, x, h[Child(es, size, j)])]
  BY <1>0, DownEquation, Zenon
<1>2. shift_down(es, size, k, x) = h[k]
  BY DEF shift_down, DownFrom, Child
<1> HIDE DEF h
<1>3. ASSUME NEW j \in 0..(size - 1), \A i \in (j + 1)..(size - 1) : i \in S PROVE j \in S
  <2> SUFFICES ASSUME j >= k PROVE SiftedDown(n, size, es, j, x, h[j])
    BY Zenon
  <2> DEFINE c == Child(es, size, j)
  <2>1. h[j] = DownFrom(es, size, j, x, h[c])
    BY <1>1, Zenon
  <2>2. HeapBelow(es, size, j)
    <3>1. \A i \in (j + 1)..(size - 1) : i \in (k + 1)..(size - 1)
      OBVIOUS
    <3>2. \A i \in 1..(size - 1) : Parent(i) > j => Parent(i) > k
      <4> SUFFICES ASSUME NEW i \in 1..(size - 1), Parent(i) > j PROVE Parent(i) > k
        BY Zenon
      <4>1. Parent(i) \in Nat
        BY ParentPlace
      <4> QED
        BY <4>1
    <3> QED
      BY <3>1, <3>2, Zenon DEF HeapBelow
  <2>3. CASE j < size \div 2 /\ x > es[c + 1]
    <3>0. j \in Nat
      OBVIOUS
    <3>1. c \in (j + 1)..(size - 1)
      BY <2>3, <3>0, ChildPlace, Zenon
    <3> HIDE DEF c
    <3>2. c >= k
      BY <3>1
    <3>3. SiftedDown(n, size, es, c, x, h[c])
      BY <1>3, <3>1, <3>2, Zenon
    <3>4. h[j] = [h[c] EXCEPT ![j + 1] = es[c + 1]]
      BY <2>1, <2>3, Zenon DEF DownFrom, c
    <3>5. SiftedDown(n, size, es, j, x, [h[c] EXCEPT ![j + 1] = es[c + 1]])
      BY <2>2, <2>3, <3>3, DownMoves, Zenon DEF c
    <3> QED
      BY <3>4, <3>5, Zenon
  <2>4. CASE ~(j < size \div 2 /\ x > es[c + 1])
    <3>1. h[j] = [es EXCEPT ![j + 1] = x]
      BY <2>1, <2>4, Zenon DEF DownFrom
    <3>2. SiftedDown(n, size, es, j, x, [es EXCEPT ![j + 1] = x])
      BY <2>2, <2>4, DownStops, Zenon
    <3> QED
      BY <3>1, <3>2, Zenon
  <2> QED
    BY <2>3, <2>4
<1>4. 0..(size - 1) \subseteq S
  <2> HIDE DEF S
  <2> QED
    BY <1>0, <1>3, StrongDownwardInduction, Zenon
<1> QED
  BY <1>0, <1>2, <1>4, Zenon

(***************************************************************************)
(* What the operations make of a heap.                                     *)
(***************************************************************************)
\* The objects of vector v are at its first size positions, in heap order.
IsHeap(n, v, size) ==
  /\ n \in Nat /\ v \in Vec(n) /\ size \in 0..n
  /\ \A i \in 1..n : v[i] \in Objects <=> i <= size
  /\ \A k \in 1..(size - 1) : v[Parent(k) + 1] <= v[k + 1]

\* Vectors v and w hold the same objects; w one more, o; w one less.
SameObjects(v, w) == \A x \in Objects : Count(w, x) = Count(v, x)
\* Vector w has the objects of v, and o once more.
OneMore(v, w, o) == \A x \in Objects : Count(w, x) = Count(v, x) + One(o = x)

\* The fill of a vector and what no register holds are no objects.
LEMMA NoObject == Empty \notin Objects /\ Unset \notin Objects /\ Empty \in Int /\ Unset \in Int
BY ObjectsAssumption DEF Empty, Unset

\* A heap is one up to its size.
LEMMA HeapIsUpto ==
  ASSUME NEW n, NEW v, NEW size, IsHeap(n, v, size)
  PROVE  HeapUpto(v, size)
BY DEF IsHeap, HeapUpto

\* The vector of a heap with an object sifted up from its end.
LEMMA PutHeap ==
  ASSUME NEW n, NEW v, NEW size, IsHeap(n, v, size), size < n, NEW o \in Objects,
         NEW r, SiftedUp(n, v, size, o, r)
  PROVE  IsHeap(n, r, size + 1) /\ OneMore(v, r, o)
<1>1. n \in Nat /\ v \in Vec(n) /\ size \in 0..(n - 1) /\ size \in Nat /\ size + 1 \in 1..n
  BY DEF IsHeap
<1>2. /\ r \in Vec(n)
      /\ \A i \in 0..size : r[i + 1] \in Objects
      /\ \A i \in (size + 1)..(n - 1) : r[i + 1] = v[i + 1]
      /\ \A i \in 1..size : r[Parent(i) + 1] <= r[i + 1]
      /\ \A x : Count(r, x) + One(v[size + 1] = x) = Count(v, x) + One(o = x)
  BY Zenon DEF SiftedUp
<1>3. ASSUME NEW i \in 1..n PROVE r[i] \in Objects <=> i <= size + 1
  <2>1. i - 1 \in 0..size \/ i - 1 \in (size + 1)..(n - 1)
    BY <1>1
  <2>2. (i - 1) + 1 = i
    OBVIOUS
  <2>3. CASE i - 1 \in 0..size
    <3>1. i <= size + 1
      BY <1>1, <2>3
    <3> QED
      BY <1>2, <2>2, <2>3, <3>1
  <2>4. CASE i - 1 \in (size + 1)..(n - 1)
    <3>1. ~(i <= size + 1) /\ ~(i <= size)
      BY <1>1, <2>4
    <3>2. r[i] = v[i]
      BY <1>2, <2>2, <2>4
    <3> QED
      BY <3>1, <3>2, Zenon DEF IsHeap
  <2> QED
    BY <2>1, <2>3, <2>4
<1>4. \A k \in 1..((size + 1) - 1) : r[Parent(k) + 1] <= r[k + 1]
  <2>1. (size + 1) - 1 = size
    BY <1>1
  <2> QED
    BY <1>2, <2>1
<1>5. ASSUME NEW x \in Objects PROVE Count(r, x) = Count(v, x) + One(o = x)
  <2>1. v[size + 1] # x
    <3>1. ~(size + 1 <= size)
      BY <1>1
    <3>2. v[size + 1] \notin Objects
      BY <1>1, <3>1, Zenon DEF IsHeap
    <3> QED
      BY <3>2
  <2>2. One(v[size + 1] = x) = 0
    BY <2>1, Zenon DEF One
  <2>3. Count(r, x) \in Nat /\ Count(v, x) \in Nat
    BY <1>1, <1>2, PlacesFinite, Zenon
  <2> QED
    BY <1>2, <2>2, <2>3
<1>6. size + 1 \in 0..n
  BY <1>1
<1> QED
  BY <1>1, <1>2, <1>3, <1>4, <1>5, <1>6, Zenon DEF IsHeap, OneMore

\* grow copies the heap to a longer vector.
LEMMA GrowHeap ==
  ASSUME NEW n, NEW v, NEW size, IsHeap(n, v, size), size >= n
  PROVE  \E m : IsHeap(m, grow(v, size), size) /\ size < m /\ SameObjects(v, grow(v, size))
<1> DEFINE m == size + (IF size < 64 THEN size + 2 ELSE size \div 2)
           r == grow(v, size)
<1>1. size = n /\ n \in Nat /\ m \in Nat /\ n < m
  BY DEF IsHeap
<1>2. r = [i \in 1..m |-> IF i <= size THEN v[i] ELSE Unset]
  BY Zenon DEF grow
<1> HIDE DEF m, r
<1>3. r \in Vec(m)
  <2>1. ASSUME NEW i \in 1..m PROVE (IF i <= size THEN v[i] ELSE Unset) \in Int
    <3>1. i <= size => i \in 1..n
      BY <1>1
    <3> QED
      BY <3>1, NoObject, Zenon DEF IsHeap, Vec
  <2> QED
    BY <1>2, <2>1, Zenon DEF Vec
<1>4. \A i \in 1..n : i \in 1..m /\ r[i] = v[i]
  BY <1>1, <1>2
<1>5. \A i \in 1..m : i \notin 1..n => r[i] = Unset /\ ~(i <= size)
  BY <1>1, <1>2
<1>6. \A i \in 1..m : r[i] \in Objects <=> i <= size
  BY <1>4, <1>5, NoObject, Zenon DEF IsHeap
<1>7. ASSUME NEW k \in 1..(size - 1) PROVE r[Parent(k) + 1] <= r[k + 1]
  <2>1. Parent(k) \in Nat /\ Parent(k) < k
    BY <1>1, ParentPlace
  <2>2. Parent(k) + 1 \in 1..n /\ k + 1 \in 1..n
    BY <1>1, <2>1
  <2> QED
    BY <1>4, <2>2, Zenon DEF IsHeap
<1>8. ASSUME NEW x \in Objects PROVE Count(r, x) = Count(v, x)
  <2>1. DOMAIN r = 1..m /\ DOMAIN v = 1..n
    BY <1>3, Zenon DEF Vec, IsHeap
  <2>2. Places(r, x) = Places(v, x)
    BY <1>4, <1>5, <2>1, NoObject, Zenon DEF Places
  <2> QED
    BY <2>2, Zenon DEF Count
<1>9. size \in 0..m
  BY <1>1
<1> QED
  BY <1>1, <1>3, <1>6, <1>7, <1>8, <1>9, Zenon DEF IsHeap, SameObjects, r

\* The root of a heap holds a least object.
LEMMA LeastFirst ==
  ASSUME NEW n, NEW v, NEW size, IsHeap(n, v, size), NEW k \in 0..(size - 1)
  PROVE  v[1] <= v[k + 1]
<1> DEFINE S == {j \in 0..(size - 1) : v[1] <= v[j + 1]}
<1>0. n \in Nat /\ v \in Vec(n) /\ size \in Nat /\ size <= n /\ size - 1 \in Nat
  BY DEF IsHeap
<1>1. ASSUME NEW j \in 0..(size - 1), \A i \in 0..(j - 1) : i \in S PROVE j \in S
  <2>1. v[1] \in Int /\ v[j + 1] \in Int /\ j \in 0..(n - 1)
    BY <1>0 DEF Vec
  <2>2. CASE j = 0
    BY <2>1, <2>2
  <2>3. CASE j > 0
    <3>1. Parent(j) \in 0..(j - 1) /\ Parent(j) \in 0..(n - 1) /\ j \in 1..(size - 1)
      BY <1>0, <2>1, <2>3, ParentPlace
    <3>2. v[1] <= v[Parent(j) + 1] /\ v[Parent(j) + 1] \in Int
      BY <1>0, <1>1, <3>1, VecAt, Zenon
    <3>3. v[Parent(j) + 1] <= v[j + 1]
      BY <3>1, Zenon DEF IsHeap
    <3> QED
      BY <2>1, <3>2, <3>3
  <2> QED
    BY <2>2, <2>3
<1> HIDE DEF S
<1>2. 0..(size - 1) \subseteq S
  BY <1>0, <1>1, StrongInduction, Zenon
<1> QED
  BY <1>2, Zenon DEF S

\* A heap without its last object, of which position i still has to be sifted up.
NearlyHeap(n, r, s, i) ==
  /\ n \in Nat /\ r \in Vec(n) /\ s \in 0..n /\ i \in 0..(s - 1)
  /\ \A j \in 1..n : r[j] \in Objects <=> j <= s
  /\ \A k \in 1..(s - 1) : k # i => r[Parent(k) + 1] <= r[k + 1]
  /\ i > 0 => \A k \in 1..(s - 1) : Parent(k) = i => r[Parent(i) + 1] <= r[k + 1]

\* The vector in which the last object of heap v was replaced by the empty marker.
LastCleared(n, v, s, es) ==
  /\ es \in Vec(n) /\ es[s + 1] = Empty
  /\ \A i \in 0..(n - 1) : i # s => es[i + 1] = v[i + 1]
  /\ \A x \in Objects : Count(es, x) + One(v[s + 1] = x) = Count(v, x)

\* The vector of a heap without its last object.
LEMMA ClearLast ==
  ASSUME NEW n, NEW v, NEW size, IsHeap(n, v, size), size > 0
  PROVE  LastCleared(n, v, size - 1, [v EXCEPT ![(size - 1) + 1] = Empty])
<1> DEFINE s == size - 1
           es == [v EXCEPT ![s + 1] = Empty]
<1>1. n \in Nat /\ v \in Vec(n) /\ s \in 0..(n - 1) /\ s + 1 \in 1..n
  BY DEF IsHeap
<1> HIDE DEF s
<1>2. Written(n, v, s, Empty, es)
  BY <1>1, VecExcept, NoObject, Zenon
<1>3. ASSUME NEW x \in Objects PROVE Count(es, x) + One(v[s + 1] = x) = Count(v, x)
  <2>1. Count(es, x) + One(v[s + 1] = x) = Count(v, x) + One(Empty = x)
    BY <1>1, CountExcept, NoObject
  <2>2. One(Empty = x) = 0
    <3>1. Empty # x
      BY NoObject
    <3> QED
      BY <3>1, Zenon DEF One
  <2>3. Count(v, x) \in Nat
    BY <1>1, PlacesFinite, Zenon
  <2> HIDE DEF es
  <2> QED
    BY <2>1, <2>2, <2>3
<1> HIDE DEF es
<1>4. LastCleared(n, v, s, es)
  BY <1>2, <1>3, Zenon DEF LastCleared, Written
<1> QED
  BY <1>4, Zenon DEF es, s

\* The last object was the one to be removed.
LEMMA ClearedHeap ==
  ASSUME NEW n, NEW v, NEW size, IsHeap(n, v, size), NEW s, s = size - 1, s >= 0,
         NEW es, LastCleared(n, v, s, es)
  PROVE  IsHeap(n, es, s) /\ OneMore(es, v, v[s + 1])
<1>1. n \in Nat /\ v \in Vec(n) /\ s \in 0..(n - 1) /\ s \in 0..n /\ size = s + 1
  BY DEF IsHeap
<1>2. /\ es \in Vec(n) /\ es[s + 1] = Empty
      /\ \A i \in 0..(n - 1) : i # s => es[i + 1] = v[i + 1]
      /\ \A x \in Objects : Count(es, x) + One(v[s + 1] = x) = Count(v, x)
  BY Zenon DEF LastCleared
<1>3. ASSUME NEW i \in 1..n PROVE es[i] \in Objects <=> i <= s
  <2>1. i - 1 \in 0..(n - 1) /\ (i - 1) + 1 = i
    BY <1>1
  <2>2. CASE i = s + 1
    <3>1. ~(i <= s)
      BY <1>1, <2>2
    <3> QED
      BY <1>2, <2>2, <3>1, NoObject, Zenon
  <2>3. CASE i # s + 1
    <3>1. i - 1 # s /\ (i <= s <=> i <= size)
      BY <1>1, <2>3
    <3>2. es[i] = v[i]
      BY <1>2, <2>1, <3>1
    <3> QED
      BY <3>1, <3>2, Zenon DEF IsHeap
  <2> QED
    BY <2>2, <2>3
<1>4. ASSUME NEW k \in 1..(s - 1) PROVE es[Parent(k) + 1] <= es[k + 1]
  <2>1. Parent(k) \in Nat /\ Parent(k) < k
    BY <1>1, ParentPlace
  <2>2. Parent(k) \in 0..(n - 1) /\ Parent(k) # s /\ k \in 0..(n - 1) /\ k # s /\ k \in 1..(size - 1)
    BY <1>1, <2>1
  <2> QED
    BY <1>2, <2>2, Zenon DEF IsHeap
<1>5. \A x \in Objects : Count(v, x) = Count(es, x) + One(v[s + 1] = x)
  BY <1>2
<1> QED
  BY <1>1, <1>2, <1>3, <1>4, <1>5, Zenon DEF IsHeap, OneMore

\* What shift-down needs of that vector, for every position.
LEMMA ClearedBelow ==
  ASSUME NEW n, NEW v, NEW size, IsHeap(n, v, size), NEW s, s = size - 1,
         NEW es, LastCleared(n, v, s, es), NEW i \in 0..(s - 1)
  PROVE  HeapBelow(es, s, i) /\ v[s + 1] \in Objects /\ s \in 0..n
<1>1. n \in Nat /\ v \in Vec(n) /\ s \in 0..(n - 1) /\ s \in 0..n /\ size = s + 1 /\ s + 1 \in 1..n
  BY DEF IsHeap
<1>2. IsHeap(n, es, s)
  <2>1. s >= 0
    BY <1>1
  <2> QED
    BY <2>1, ClearedHeap, Zenon
<1>3. v[s + 1] \in Objects
  <2>1. s + 1 <= size
    BY <1>1
  <2> QED
    BY <1>1, <2>1, Zenon DEF IsHeap
<1>4. \A k \in (i + 1)..(s - 1) : es[k + 1] \in Objects
  <2> SUFFICES ASSUME NEW k \in (i + 1)..(s - 1) PROVE es[k + 1] \in Objects
    OBVIOUS
  <2>1. k + 1 \in 1..n /\ k + 1 <= s
    BY <1>1
  <2> QED
    BY <1>2, <2>1, Zenon DEF IsHeap
<1> QED
  BY <1>1, <1>2, <1>3, <1>4, Zenon DEF IsHeap, HeapBelow

\* The last object sifted down from position i of the heap.
LEMMA DownHeap ==
  ASSUME NEW n, NEW v, NEW size, IsHeap(n, v, size), NEW s, s = size - 1,
         NEW es, LastCleared(n, v, s, es), NEW i \in 0..(s - 1),
         NEW r, SiftedDown(n, s, es, i, v[s + 1], r)
  PROVE  /\ NearlyHeap(n, r, s, i) /\ OneMore(r, v, v[i + 1])
         /\ i = 0 \/ r[i + 1] # v[s + 1] => IsHeap(n, r, s)
<1>1. n \in Nat /\ v \in Vec(n) /\ s \in 0..(n - 1) /\ s \in 0..n /\ size = s + 1 /\ s + 1 \in 1..n
  BY DEF IsHeap
<1>2. /\ es \in Vec(n) /\ es[s + 1] = Empty
      /\ \A k \in 0..(n - 1) : k # s => es[k + 1] = v[k + 1]
      /\ \A x \in Objects : Count(es, x) + One(v[s + 1] = x) = Count(v, x)
  BY Zenon DEF LastCleared
<1>3. IsHeap(n, es, s)
  <2>1. s >= 0
    BY <1>1
  <2> QED
    BY <2>1, ClearedHeap, Zenon
<1>4. /\ r \in Vec(n)
      /\ \A k \in i..(s - 1) : r[k + 1] \in Objects
      /\ \A k \in 0..(n - 1) : k < i \/ k >= s => r[k + 1] = es[k + 1]
      /\ \A k \in 1..(s - 1) : Parent(k) >= i => r[Parent(k) + 1] <= r[k + 1]
      /\ \A k \in (i + 1)..(s - 1) : es[k + 1] <= r[k + 1]
      /\ \/ r[i + 1] = v[s + 1]
         \/ \E c \in (i + 1)..(s - 1) : Parent(c) = i /\ r[i + 1] = es[c + 1]
      /\ \A x : Count(r, x) + One(es[i + 1] = x) = Count(es, x) + One(v[s + 1] = x)
  BY Zenon DEF SiftedDown
<1>5. ASSUME NEW k \in 1..n PROVE r[k] \in Objects <=> k <= s
  <2>1. (k - 1) + 1 = k /\ (k - 1 \in i..(s - 1) \/ (k - 1 \in 0..(n - 1) /\ (k - 1 < i \/ k - 1 >= s)))
    BY <1>1
  <2>2. CASE k - 1 \in i..(s - 1)
    <3>1. k <= s
      BY <1>1, <2>2
    <3> QED
      BY <1>4, <2>1, <2>2, <3>1
  <2>3. CASE k - 1 \in 0..(n - 1) /\ (k - 1 < i \/ k - 1 >= s)
    <3>1. r[k] = es[k]
      BY <1>4, <2>1, <2>3
    <3> QED
      BY <1>3, <3>1, Zenon DEF IsHeap
  <2> QED
    BY <2>1, <2>2, <2>3
\* Above position i the vector is as it was.
<1>6. ASSUME NEW k \in 1..(s - 1), Parent(k) < i
      PROVE  /\ r[Parent(k) + 1] = es[Parent(k) + 1] /\ es[Parent(k) + 1] \in Int
             /\ es[Parent(k) + 1] <= es[k + 1] /\ es[k + 1] \in Int /\ r[k + 1] \in Int
  <2>1. Parent(k) \in Nat /\ Parent(k) < k
    BY <1>1, ParentPlace
  <2>2. Parent(k) \in 0..(n - 1) /\ k \in 0..(n - 1)
    BY <1>1, <2>1
  <2>3. r[Parent(k) + 1] = es[Parent(k) + 1]
    BY <1>4, <1>6, <2>2, Zenon
  <2>4. es[Parent(k) + 1] \in Int /\ es[k + 1] \in Int /\ r[k + 1] \in Int
    BY <1>1, <1>2, <1>4, <2>2, VecAt, Zenon
  <2> QED
    BY <1>3, <2>3, <2>4, Zenon DEF IsHeap
<1>7. ASSUME NEW k \in 1..(s - 1), k # i PROVE r[Parent(k) + 1] <= r[k + 1]
  <2>1. Parent(k) \in Nat
    BY <1>1, ParentPlace
  <2>2. CASE Parent(k) >= i
    BY <1>4, <2>2, Zenon
  <2>3. CASE Parent(k) < i
    <3>1. es[k + 1] <= r[k + 1]
      <4>1. k \in 0..(n - 1) /\ (k < i \/ k \in (i + 1)..(s - 1))
        BY <1>1, <1>7
      <4>2. CASE k < i
        <5>1. r[k + 1] = es[k + 1]
          BY <1>4, <4>1, <4>2, Zenon
        <5> QED
          BY <1>6, <2>3, <5>1
      <4>3. CASE k \in (i + 1)..(s - 1)
        BY <1>4, <4>3, Zenon
      <4> QED
        BY <4>1, <4>2, <4>3, Zenon
    <3> QED
      BY <1>6, <2>3, <3>1
  <2> QED
    BY <2>1, <2>2, <2>3
<1>8. ASSUME i > 0, NEW k \in 1..(s - 1), Parent(k) = i
      PROVE  r[Parent(i) + 1] <= es[k + 1] /\ es[k + 1] <= r[k + 1] /\ es[k + 1] \in Int
             /\ r[Parent(i) + 1] \in Int /\ r[k + 1] \in Int
  <2>1. i \in 1..(s - 1) /\ Parent(i) < i /\ k \in (i + 1)..(s - 1) /\ k \in 0..(n - 1)
    BY <1>1, <1>8, ParentPlace
  <2>2. /\ r[Parent(i) + 1] = es[Parent(i) + 1] /\ es[Parent(i) + 1] \in Int
        /\ es[Parent(i) + 1] <= es[i + 1] /\ es[i + 1] \in Int
    BY <1>6, <2>1, Zenon
  <2>3. es[i + 1] <= es[k + 1]
    BY <1>3, <1>8, Zenon DEF IsHeap
  <2>4. es[k + 1] \in Int /\ r[k + 1] \in Int
    BY <1>1, <1>2, <1>4, <2>1, VecAt, Zenon
  <2>5. es[k + 1] <= r[k + 1]
    BY <1>4, <2>1, Zenon
  <2> QED
    BY <2>2, <2>3, <2>4, <2>5
<1>9. NearlyHeap(n, r, s, i)
  <2>1. i > 0 => \A k \in 1..(s - 1) : Parent(k) = i => r[Parent(i) + 1] <= r[k + 1]
    BY <1>8
  <2> QED
    BY <1>1, <1>4, <1>5, <1>7, <2>1, Zenon DEF NearlyHeap
<1>10. ASSUME i = 0 \/ r[i + 1] # v[s + 1] PROVE IsHeap(n, r, s)
  <2>1. ASSUME NEW k \in 1..(s - 1), k = i PROVE r[Parent(k) + 1] <= r[k + 1]
    <3>1. i > 0 /\ r[i + 1] # v[s + 1]
      BY <1>10, <2>1
    <3>2. PICK c \in (i + 1)..(s - 1) : Parent(c) = i /\ r[i + 1] = es[c + 1]
      BY <1>4, <3>1, Zenon
    <3>3. c \in 1..(s - 1)
      BY <1>1
    <3> QED
      BY <1>8, <2>1, <3>1, <3>2, <3>3, Zenon
  <2> QED
    BY <1>1, <1>4, <1>5, <1>7, <2>1, Zenon DEF IsHeap
<1>11. OneMore(r, v, v[i + 1])
  <2> SUFFICES ASSUME NEW x \in Objects PROVE Count(v, x) = Count(r, x) + One(v[i + 1] = x)
    BY Zenon DEF OneMore
  <2>1. es[i + 1] = v[i + 1]
    BY <1>1, <1>2
  <2>2. Count(r, x) \in Nat /\ Count(es, x) \in Nat /\ Count(v, x) \in Nat
    BY <1>1, <1>2, <1>4, PlacesFinite, Zenon
  <2>3. One(v[s + 1] = x) \in Nat /\ One(v[i + 1] = x) \in Nat
    BY DEF One
  <2> QED
    BY <1>2, <1>4, <2>1, <2>2, <2>3
<1> QED
  BY <1>9, <1>10, <1>11, Zenon

\* The object at i sifted up after it was sifted down to no other place.
LEMMA UpHeap ==
  ASSUME NEW n, NEW q, NEW s, NEW i, NearlyHeap(n, q, s, i), NEW r,
         SiftedUp(n, q, i, q[i + 1], r)
  PROVE  IsHeap(n, r, s) /\ SameObjects(q, r)
<1>1. /\ n \in Nat /\ q \in Vec(n) /\ s \in 0..n /\ i \in 0..(s - 1)
      /\ \A j \in 1..n : q[j] \in Objects <=> j <= s
      /\ \A k \in 1..(s - 1) : k # i => q[Parent(k) + 1] <= q[k + 1]
      /\ i > 0 => \A k \in 1..(s - 1) : Parent(k) = i => q[Parent(i) + 1] <= q[k + 1]
  BY Zenon DEF NearlyHeap
<1>2. /\ r \in Vec(n)
      /\ \A k \in 0..i : r[k + 1] \in Objects
      /\ \A k \in (i + 1)..(n - 1) : r[k + 1] = q[k + 1]
      /\ \A k \in 1..i : r[Parent(k) + 1] <= r[k + 1]
      /\ \A k \in 0..(i - 1) : r[k + 1] <= q[k + 1]
      /\ r[i + 1] = q[i + 1] \/ (i > 0 /\ r[i + 1] = q[Parent(i) + 1])
      /\ \A x : Count(r, x) + One(q[i + 1] = x) = Count(q, x) + One(q[i + 1] = x)
  BY Zenon DEF SiftedUp
<1>3. ASSUME NEW k \in 1..n PROVE r[k] \in Objects <=> k <= s
  <2>1. (k - 1) + 1 = k /\ (k - 1 \in 0..i \/ k - 1 \in (i + 1)..(n - 1))
    BY <1>1
  <2>2. CASE k - 1 \in 0..i
    <3>1. k <= s
      BY <1>1, <2>2
    <3> QED
      BY <1>2, <2>1, <2>2, <3>1
  <2>3. CASE k - 1 \in (i + 1)..(n - 1)
    <3>1. r[k] = q[k]
      BY <1>2, <2>1, <2>3
    <3> QED
      BY <1>1, <3>1, Zenon
  <2> QED
    BY <2>1, <2>2, <2>3
<1>4. ASSUME NEW k \in 1..(s - 1) PROVE r[Parent(k) + 1] <= r[k + 1]
  <2>1. Parent(k) \in Nat /\ Parent(k) < k
    BY <1>1, ParentPlace
  <2>2. CASE k <= i
    <3>1. k \in 1..i
      BY <1>1, <2>2
    <3> QED
      BY <1>2, <3>1, Zenon
  <2>3. CASE k > i
    <3>1. k \in (i + 1)..(n - 1) /\ k # i /\ Parent(k) \in 0..(n - 1) /\ k \in 0..(n - 1)
      BY <1>1, <2>1, <2>3
    <3>2. r[k + 1] = q[k + 1] /\ q[Parent(k) + 1] <= q[k + 1]
      BY <1>1, <1>2, <3>1, Zenon
    <3>3. q[k + 1] \in Int /\ q[Parent(k) + 1] \in Int /\ r[Parent(k) + 1] \in Int
      BY <1>1, <1>2, <3>1, VecAt, Zenon
    <3>4. CASE Parent(k) = i
      BY <1>1, <1>2, <3>2, <3>4, Zenon
    <3>5. CASE Parent(k) < i
      <4>1. Parent(k) \in 0..(i - 1)
        BY <1>1, <2>1, <3>5
      <4>2. r[Parent(k) + 1] <= q[Parent(k) + 1]
        BY <1>2, <4>1, Zenon
      <4> QED
        BY <3>2, <3>3, <4>2
    <3>6. CASE Parent(k) > i
      <4>1. Parent(k) \in (i + 1)..(n - 1)
        BY <1>1, <3>1, <3>6
      <4> QED
        BY <1>2, <3>2, <4>1, Zenon
    <3> QED
      BY <1>1, <2>1, <3>4, <3>5, <3>6
  <2> QED
    BY <1>1, <2>2, <2>3
<1>5. ASSUME NEW x \in Objects PROVE Count(r, x) = Count(q, x)
  <2>1. Count(r, x) \in Nat /\ Count(q, x) \in Nat
    BY <1>1, <1>2, PlacesFinite, Zenon
  <2>2. One(q[i + 1] = x) \in Nat
    BY DEF One
  <2> QED
    BY <1>2, <2>1, <2>2
<1> QED
  BY <1>1, <1>2, <1>3, <1>4, <1>5, Zenon DEF IsHeap, SameObjects

(***************************************************************************)
(* The bag of the objects.                                                 *)
(***************************************************************************)
MembersOf(b) == UNION {{o} \X (1..b[o]) : o \in Objects}

\* The members of a bag.
LEMMA InMembers ==
  ASSUME NEW b, NEW p
  PROVE  p \in MembersOf(b) <=> \E o \in Objects : \E i \in 1..b[o] : p = <<o, i>>
BY DEF MembersOf

\* Bag c is bag b with one more o.
LEMMA MembersGrow ==
  ASSUME NEW b \in [Objects -> Nat], NEW c \in [Objects -> Nat], NEW o \in Objects,
         \A x \in Objects : c[x] = b[x] + One(o = x)
  PROVE  MembersOf(c) = MembersOf(b) \cup {<<o, c[o]>>} /\ <<o, c[o]>> \notin MembersOf(b)
<1>1. c[o] = b[o] + 1 /\ \A x \in Objects : x # o => c[x] = b[x]
  <2>1. One(o = o) = 1 /\ \A x : x # o => One(o = x) = 0
    BY DEF One
  <2>2. ASSUME NEW x \in Objects, x # o PROVE c[x] = b[x]
    <3>1. c[x] = b[x] + 0
      BY <2>1, <2>2
    <3> QED
      BY <3>1
  <2> QED
    BY <2>1, <2>2
<1>2. 1..c[o] = 1..b[o] \cup {c[o]} /\ c[o] \notin 1..b[o]
  BY <1>1
<1>3. \A x, y, i, j : <<x, i>> = <<y, j>> <=> x = y /\ i = j
  OBVIOUS
<1>4. <<o, c[o]>> \notin MembersOf(b)
  <2> SUFFICES ASSUME NEW x \in Objects, NEW i \in 1..b[x], <<o, c[o]>> = <<x, i>> PROVE FALSE
    BY InMembers
  <2>1. x = o /\ i = c[o]
    BY <1>3, Zenon
  <2> QED
    BY <1>2, <2>1
<1>5. ASSUME NEW p PROVE p \in MembersOf(c) <=> p \in MembersOf(b) \cup {<<o, c[o]>>}
  <2>1. ASSUME p \in MembersOf(c) PROVE p \in MembersOf(b) \cup {<<o, c[o]>>}
    <3>0. PICK x \in Objects : \E i \in 1..c[x] : p = <<x, i>>
      BY <2>1, InMembers
    <3>1. PICK i \in 1..c[x] : p = <<x, i>>
      BY <3>0, Zenon
    <3>2. CASE x = o
      <4>1. i \in 1..b[o] \/ i = c[o]
        BY <1>2, <3>2
      <4> QED
        BY <3>1, <3>2, <4>1, InMembers, Zenon
    <3>3. CASE x # o
      <4>1. i \in 1..b[x]
        BY <1>1, <3>3
      <4> QED
        BY <3>1, <4>1, InMembers, Zenon
    <3> QED
      BY <3>2, <3>3
  <2>2. ASSUME p \in MembersOf(b) PROVE p \in MembersOf(c)
    <3>0. PICK x \in Objects : \E i \in 1..b[x] : p = <<x, i>>
      BY <2>2, InMembers
    <3>1. PICK i \in 1..b[x] : p = <<x, i>>
      BY <3>0, Zenon
    <3>2. i \in 1..c[x]
      <4>1. CASE x = o
        BY <1>2, <4>1
      <4>2. CASE x # o
        BY <1>1, <4>2
      <4> QED
        BY <4>1, <4>2
    <3> QED
      BY <3>1, <3>2, InMembers, Zenon
  <2>3. <<o, c[o]>> \in MembersOf(c)
    <3>1. c[o] \in 1..c[o]
      BY <1>2
    <3> QED
      BY <3>1, InMembers, Zenon
  <2> QED
    BY <2>1, <2>2, <2>3, Zenon
<1> QED
  BY <1>4, <1>5, Zenon

\* Bag b holds k objects.
Holds(b, k) == IsFiniteSet(MembersOf(b)) /\ Cardinality(MembersOf(b)) = k

\* One object more, or less, in a bag.
LEMMA HoldsMore ==
  ASSUME NEW b \in [Objects -> Nat], NEW c \in [Objects -> Nat], NEW o \in Objects,
         \A x \in Objects : c[x] = b[x] + One(o = x), NEW k \in Nat
  PROVE  (Holds(b, k) => Holds(c, k + 1)) /\ (Holds(c, k) => Holds(b, k - 1))
<1> DEFINE p == <<o, c[o]>>
<1>1. MembersOf(c) = MembersOf(b) \cup {p} /\ p \notin MembersOf(b)
  BY MembersGrow, Zenon
<1> HIDE DEF p
<1>2. ASSUME IsFiniteSet(MembersOf(b))
      PROVE  /\ IsFiniteSet(MembersOf(c)) /\ Cardinality(MembersOf(b)) \in Nat
             /\ Cardinality(MembersOf(c)) = Cardinality(MembersOf(b)) + 1
  <2>1. Cardinality(MembersOf(b)) \in Nat
    BY <1>2, FS_CardinalityType, Zenon
  <2>2. /\ IsFiniteSet(MembersOf(b) \cup {p})
        /\ Cardinality(MembersOf(b) \cup {p})
             = IF p \in MembersOf(b) THEN Cardinality(MembersOf(b)) ELSE Cardinality(MembersOf(b)) + 1
    BY <1>2, FS_AddElement, Zenon
  <2> QED
    BY <1>1, <2>1, <2>2, Zenon
<1>3. IsFiniteSet(MembersOf(c)) => IsFiniteSet(MembersOf(b))
  BY <1>1, FS_Subset, Zenon
<1>4. Holds(b, k) => Holds(c, k + 1)
  BY <1>2, Zenon DEF Holds
<1>5. ASSUME Holds(c, k) PROVE Holds(b, k - 1)
  <2>1. IsFiniteSet(MembersOf(b)) /\ Cardinality(MembersOf(c)) = k
    BY <1>3, <1>5, Zenon DEF Holds
  <2>2. Cardinality(MembersOf(b)) = k - 1
    BY <1>2, <2>1
  <2> QED
    BY <2>1, <2>2, Zenon DEF Holds
<1> QED
  BY <1>4, <1>5

\* The empty bag.
LEMMA HoldsNothing ==
  ASSUME NEW b, \A x \in Objects : b[x] = 0
  PROVE  Holds(b, 0)
<1>1. MembersOf(b) = {}
  <2>1. 1..0 = {}
    OBVIOUS
  <2> QED
    BY <2>1, InMembers, Zenon
<1> QED
  BY <1>1, FS_EmptySet, Zenon DEF Holds

(***************************************************************************)
(* The vector in the field elements.                                       *)
(***************************************************************************)
LEMMA VecIsSeq ==
  ASSUME NEW n \in Nat, NEW v \in Vec(n)
  PROVE  v \in Seq(Int) /\ Len(v) = n /\ DOMAIN v = 1..n
BY DEF Vec

\* A sequence of numbers is a vector.
LEMMA SeqIsVec ==
  ASSUME NEW v \in Seq(Int)
  PROVE  Len(v) \in Nat /\ v \in Vec(Len(v)) /\ DOMAIN v = 1..Len(v)
BY DEF Vec

\* A function on 1..n is a sequence.
LEMMA FunctionIsSeq ==
  ASSUME NEW n \in Nat, NEW T, NEW f \in [1..n -> T]
  PROVE  f \in Seq(T) /\ Len(f) = n
OBVIOUS

\* The vectors that a thread may hold, the field elements the last of them.
VectorsOK == vectors \in Seq(Seq(Int)) /\ Es \in Nat /\ Es > 0

\* The field elements is the newest vector.
LEMMA ElementsOK ==
  ASSUME VectorsOK
  PROVE  Es \in 1..Es /\ Es \in 1..Len(vectors) /\ elements \in Seq(Int) /\ elements = vectors[Es]
BY DEF VectorsOK, Es, elements

\* The content of a vector.
ContentOf(v) == [o \in Objects |-> Count(v, o)]

\* The content of a vector counts every object.
LEMMA ContentType ==
  ASSUME NEW v \in Seq(Int)
  PROVE  ContentOf(v) \in [Objects -> Nat]
<1>1. \A o \in Objects : Count(v, o) \in Nat
  BY SeqIsVec, PlacesFinite, Zenon
<1> QED
  BY <1>1, Zenon DEF ContentOf

\* The content as AbstractPriorityQueue sees it.
LEMMA ContentIsCount ==
  ASSUME NEW v \in Seq(Int)
  PROVE  [o \in Objects |-> Cardinality({k \in 1..Len(v) : v[k] = o})] = ContentOf(v)
<1>1. DOMAIN v = 1..Len(v)
  BY SeqIsVec, Zenon
<1> QED
  BY <1>1, Zenon DEF ContentOf, Count, Places

\* Writing the field elements.
LEMMA Replaced ==
  ASSUME VectorsOK, NEW v \in Seq(Int), vectors' = [vectors EXCEPT ![Es] = v]
  PROVE  VectorsOK' /\ elements' = v
BY DEF VectorsOK, Es, elements

\* The collector keeps the vector in the field elements.
LEMMA CollectedLast ==
  ASSUME NEW vs \in Seq(Seq(Int)), Len(vs) > 0, vectors' = Collected(vs)
  PROVE  VectorsOK' /\ elements' = vs[Len(vs)]
<1>1. Len(vs) \in Nat /\ Len(vs) \in 1..Len(vs) /\ <<>> \in Seq(Int) /\ \A i \in 1..Len(vs) : vs[i] \in Seq(Int)
  OBVIOUS
<1>2. vectors' = [i \in 1..Len(vs) |->
        IF i = Len(vs) \/ \E t \in PqThreads : pqPc[t] = "rlock" /\ pqReg[t] = i THEN vs[i] ELSE <<>>]
  BY Zenon DEF Collected
<1>3. vectors' \in [1..Len(vs) -> Seq(Int)] /\ vectors'[Len(vs)] = vs[Len(vs)]
  BY <1>1, <1>2, Zenon
<1>4. vectors' \in Seq(Seq(Int)) /\ Len(vectors') = Len(vs)
  BY <1>1, <1>3, FunctionIsSeq, Zenon
<1> QED
  BY <1>1, <1>3, <1>4 DEF VectorsOK, Es, elements

(***************************************************************************)
(* The inductive invariant.                                                *)
(***************************************************************************)
\* The vector is a heap of count objects.
HeapInv ==
  /\ VectorsOK /\ count \in Nat /\ bound \in Int
  /\ IsHeap(Len(elements), elements, count)
  /\ Holds(Content, count)

\* Where a thread holds the mutex, and that get! then still finds the object it saw.
PqHolding == {"gw", "gtest", "gdeq", "user", "raised"}
\* Where a thread can be.
PqPlaces == PqHolding \cup {"idle", "glock", "gwait", "grelock", "gto", "gto2",
                            "plock", "pwait", "rlock"}

\* Who is at a place that holds the mutex holds it, and get! takes from a queue that
\* is not empty.
LockInv ==
  /\ pqPc \in [PqThreads -> PqPlaces]
  /\ \A t \in PqThreads : /\ pqPc[t] \in PqHolding => pqLock = t
                          /\ pqPc[t] = "gdeq" => count > 0

\* The inductive invariant.
PqInv == ~stale => HeapInv /\ LockInv

\* The contents before and after a step are those of the vectors.
LEMMA Contents ==
  ASSUME VectorsOK, VectorsOK'
  PROVE  /\ Content = ContentOf(elements) /\ Content' = ContentOf(elements')
         /\ Content \in [Objects -> Nat] /\ Content' \in [Objects -> Nat]
<1>1. elements \in Seq(Int) /\ elements' \in Seq(Int)
  BY DEF VectorsOK, Es, elements
<1>2. Content = ContentOf(elements) /\ Content' = ContentOf(elements')
  BY <1>1, ContentIsCount, Zenon DEF Content
<1>3. ContentOf(elements) \in [Objects -> Nat] /\ ContentOf(elements') \in [Objects -> Nat]
  BY <1>1, ContentType, Zenon
<1> HIDE DEF Content
<1> QED
  BY <1>2, <1>3, Zenon

\* A step that leaves a heap with one object more.
LEMMA Added ==
  ASSUME HeapInv, NEW o \in Objects, VectorsOK', count' = count + 1, bound' = bound,
         NEW n, IsHeap(n, elements', count + 1), OneMore(elements, elements', o)
  PROVE  HeapInv' /\ Content' = [Content EXCEPT ![o] = @ + 1]
<1> DEFINE b == Content
           c == Content'
<1>1. VectorsOK /\ count \in Nat /\ count + 1 \in Nat /\ bound \in Int /\ Holds(b, count)
  BY DEF HeapInv
<1>2. /\ b \in [Objects -> Nat] /\ c \in [Objects -> Nat]
      /\ b = ContentOf(elements) /\ c = ContentOf(elements')
  BY <1>1, Contents, Zenon
<1>3. \A x \in Objects : c[x] = b[x] + One(o = x)
  <2>1. \A x \in Objects : ContentOf(elements')[x] = ContentOf(elements)[x] + One(o = x)
    BY Zenon DEF ContentOf, OneMore
  <2> HIDE DEF Content
  <2> QED
    BY <1>2, <2>1, Zenon
<1> HIDE DEF Content
<1>4. Holds(c, count + 1)
  <2>1. b \in [Objects -> Nat] /\ c \in [Objects -> Nat]
    BY <1>2
  <2> HIDE DEF b, c
  <2>2. (Holds(b, count) => Holds(c, count + 1))
    BY <1>1, <1>3, <2>1, HoldsMore, Zenon
  <2> QED
    BY <1>1, <2>2, Zenon
<1>5. n = Len(elements')
  BY VecIsSeq, Zenon DEF IsHeap
<1>6. HeapInv'
  BY <1>1, <1>4, <1>5, Zenon DEF HeapInv
<1>7. \A x \in Objects : c[x] = IF x = o THEN b[o] + 1 ELSE b[x]
  BY <1>2, <1>3 DEF One
<1> QED
  BY <1>2, <1>6, <1>7

\* A step that leaves a heap with one object less.
LEMMA Taken ==
  ASSUME HeapInv, NEW o \in Objects, VectorsOK', count' = count - 1, bound' = bound, count > 0,
         NEW n, IsHeap(n, elements', count - 1), OneMore(elements', elements, o)
  PROVE  HeapInv' /\ PriorityQueue!RemoveOne(o)
<1> DEFINE b == Content
           c == Content'
<1>1. VectorsOK /\ count \in Nat /\ count - 1 \in Nat /\ bound \in Int /\ Holds(b, count)
  BY DEF HeapInv
<1>2. /\ b \in [Objects -> Nat] /\ c \in [Objects -> Nat]
      /\ b = ContentOf(elements) /\ c = ContentOf(elements')
  BY <1>1, Contents, Zenon
<1>3. \A x \in Objects : b[x] = c[x] + One(o = x)
  <2>1. \A x \in Objects : ContentOf(elements)[x] = ContentOf(elements')[x] + One(o = x)
    BY Zenon DEF ContentOf, OneMore
  <2> HIDE DEF Content
  <2> QED
    BY <1>2, <2>1, Zenon
<1> HIDE DEF Content
<1>4. Holds(c, count - 1)
  <2>1. b \in [Objects -> Nat] /\ c \in [Objects -> Nat]
    BY <1>2
  <2> HIDE DEF b, c
  <2>2. (Holds(b, count) => Holds(c, count - 1))
    BY <1>1, <1>3, <2>1, HoldsMore, Zenon
  <2> QED
    BY <1>1, <2>2, Zenon
<1>5. n = Len(elements')
  BY VecIsSeq, Zenon DEF IsHeap
<1>6. HeapInv'
  BY <1>1, <1>4, <1>5, Zenon DEF HeapInv
<1>7. b[o] > 0 /\ \A x \in Objects : c[x] = IF x = o THEN b[o] - 1 ELSE b[x]
  BY <1>2, <1>3 DEF One
<1>8. c = [b EXCEPT ![o] = @ - 1]
  BY <1>2, <1>7
<1> QED
  BY <1>6, <1>7, <1>8, Zenon DEF PriorityQueue!RemoveOne

(***************************************************************************)
(* The steps that change the heap.                                         *)
(***************************************************************************)
LEMMA ClearStep ==
  ASSUME HeapInv, NEW t \in PqThreads, PqClear(t)
  PROVE  HeapInv' /\ PriorityQueue!Clear
<1> DEFINE n == Len(elements)
           v == [i \in 1..n |-> IF i <= count THEN Empty ELSE elements[i]]
<1>1. VectorsOK /\ count \in Nat /\ bound \in Int /\ IsHeap(n, elements, count)
  BY Zenon DEF HeapInv
<1>2. elements \in Seq(Int) /\ elements = vectors[Es] /\ n \in Nat /\ elements \in Vec(n)
  BY <1>1, ElementsOK, SeqIsVec, Zenon
<1>3. vectors' = [vectors EXCEPT ![Es] = v] /\ count' = 0 /\ bound' = bound
  BY <1>2 DEF PqClear, pqRest
<1> HIDE DEF n
<1>4. v \in Vec(n) /\ \A i \in 1..n : v[i] = IF i <= count THEN Empty ELSE elements[i]
  <2>1. \A i \in 1..n : elements[i] \in Int
    BY <1>2, Zenon DEF Vec
  <2> QED
    BY <2>1, NoObject, Zenon DEF Vec
<1> HIDE DEF v
<1>5. v \in Seq(Int) /\ DOMAIN v = 1..n
  BY <1>2, <1>4, VecIsSeq, Zenon
<1>6. VectorsOK' /\ elements' = v
  BY <1>1, <1>3, <1>5, Replaced, Zenon
<1>7. \A i \in 1..n : v[i] \notin Objects
  BY <1>1, <1>4, NoObject, Zenon DEF IsHeap
<1>8. IsHeap(n, v, 0)
  <2>1. 0 \in 0..n /\ 1..(0 - 1) = {} /\ \A i \in 1..n : ~(i <= 0)
    BY <1>2
  <2> QED
    BY <1>2, <1>4, <1>7, <2>1, Zenon DEF IsHeap
<1>9. \A x \in Objects : Count(v, x) = 0
  <2> SUFFICES ASSUME NEW x \in Objects PROVE Count(v, x) = 0
    OBVIOUS
  <2>1. Places(v, x) = {}
    BY <1>5, <1>7, Zenon DEF Places
  <2> QED
    BY <2>1, FS_EmptySet, Zenon DEF Count
<1> DEFINE c == Content'
<1>10. c = [o \in Objects |-> 0]
  <2>1. c = ContentOf(v)
    BY <1>1, <1>6, Contents, Zenon
  <2> HIDE DEF c
  <2> QED
    BY <1>9, <2>1, Zenon DEF ContentOf
<1>11. Holds(c, 0)
  <2> HIDE DEF c
  <2>1. \A x \in Objects : c[x] = 0
    BY <1>10, Zenon
  <2> QED
    BY <2>1, HoldsNothing, Zenon
<1>12. n = Len(v)
  BY <1>2, <1>4, VecIsSeq, Zenon
<1>13. HeapInv'
  <2> HIDE DEF Content
  <2>1. 0 \in Nat
    OBVIOUS
  <2> QED
    BY <1>1, <1>3, <1>6, <1>8, <1>11, <1>12, <2>1, Zenon DEF HeapInv
<1> HIDE DEF Content
<1> QED
  BY <1>10, <1>13, Zenon DEF PriorityQueue!Clear

\* The vector that put! sifts the object up in.
LEMMA PutVector ==
  ASSUME NEW n, NEW v, NEW size, IsHeap(n, v, size), size < n, NEW o \in Objects
  PROVE  SiftedUp(n, v, size, o,
                  IF size = 0 THEN [v EXCEPT ![1] = o] ELSE shift_up(v, size, o))
<1>1. n \in Nat /\ v \in Vec(n) /\ size \in 0..(n - 1)
  BY DEF IsHeap
<1>2. HeapUpto(v, size)
  BY HeapIsUpto, Zenon
<1>3. CASE size = 0
  <2>1. ~(0 > 0 /\ o < v[Parent(0) + 1])
    OBVIOUS
  <2>2. SiftedUp(n, v, 0, o, [v EXCEPT ![0 + 1] = o])
    BY <1>1, <1>2, <1>3, <2>1, UpStops, Zenon
  <2>3. 0 + 1 = 1
    OBVIOUS
  <2> QED
    BY <1>3, <2>2, <2>3, Zenon
<1>4. CASE size # 0
  <2>1. SiftedUp(n, v, size, o, shift_up(v, size, o))
    BY <1>1, <1>2, ShiftUp, Zenon
  <2> QED
    BY <1>4, <2>1, Zenon
<1> QED
  BY <1>3, <1>4

\* put!: the heap gets the object, in a longer vector if it must.
LEMMA PutStep ==
  ASSUME HeapInv, NEW t \in PqThreads, NEW o \in Objects, PqPut(t, o)
  PROVE  HeapInv' /\ PriorityQueue!Put(o)
<1> DEFINE vs == IF count >= Len(elements) THEN Append(vectors, grow(elements, count)) ELSE vectors
           k == Len(vs)
           v == vs[k]
           w == IF count = 0 THEN [v EXCEPT ![1] = o] ELSE shift_up(v, count, o)
<1>1. /\ VectorsOK /\ count \in Nat /\ bound \in Int /\ IsHeap(Len(elements), elements, count)
      /\ Holds(Content, count)
  BY Zenon DEF HeapInv
<1>2. elements \in Seq(Int) /\ vectors \in Seq(Seq(Int)) /\ Es \in Nat /\ Es > 0
  BY <1>1, ElementsOK, Zenon DEF VectorsOK
<1>3. /\ vectors' = Collected([vs EXCEPT ![k] = w])
      /\ count' = count + 1 /\ bound' = bound /\ ~PqMustWait
  BY DEF PqPut
<1>4. /\ vs \in Seq(Seq(Int)) /\ k \in Nat /\ k > 0
      /\ \E n : IsHeap(n, v, count) /\ count < n /\ SameObjects(elements, v)
  <2>1. CASE count >= Len(elements)
    <3> DEFINE g == grow(elements, count)
    <3>1. PICK m : IsHeap(m, g, count) /\ count < m /\ SameObjects(elements, g)
      BY <1>1, <2>1, GrowHeap, Zenon
    <3> HIDE DEF g
    <3>2. g \in Seq(Int)
      BY <3>1, VecIsSeq, Zenon DEF IsHeap
    <3>3. vs = Append(vectors, g)
      BY <2>1, Zenon DEF g
    <3> HIDE DEF vs
    <3>4. vs \in Seq(Seq(Int)) /\ k \in Nat /\ k > 0 /\ v = g
      BY <1>2, <3>2, <3>3 DEF Es
    <3> QED
      BY <3>1, <3>4, Zenon
  <2>2. CASE ~(count >= Len(elements))
    <3>1. vs = vectors
      BY <2>2, Zenon
    <3> HIDE DEF vs
    <3>2. k = Es /\ v = elements
      BY <3>1, Zenon DEF Es, elements
    <3>3. count < Len(elements)
      BY <1>1, <1>2, <2>2
    <3>4. SameObjects(elements, elements)
      BY Zenon DEF SameObjects
    <3> QED
      BY <1>1, <1>2, <3>1, <3>2, <3>3, <3>4, Zenon
  <2> QED
    BY <2>1, <2>2
<1>5. PICK n : IsHeap(n, v, count) /\ count < n /\ SameObjects(elements, v)
  BY <1>4, Zenon
<1> HIDE DEF vs
<1>6. SiftedUp(n, v, count, o, w)
  BY <1>5, PutVector, Zenon
<1> HIDE DEF w, v, k
<1>7. IsHeap(n, w, count + 1) /\ OneMore(v, w, o)
  BY <1>5, <1>6, PutHeap, Zenon
<1>8. OneMore(elements, w, o)
  BY <1>5, <1>7, Zenon DEF OneMore, SameObjects
<1>9. VectorsOK' /\ elements' = w
  <2>1. w \in Seq(Int)
    BY <1>7, VecIsSeq, Zenon DEF IsHeap
  <2> DEFINE ws == [vs EXCEPT ![k] = w]
  <2>2. ws \in Seq(Seq(Int)) /\ Len(ws) = k /\ ws[Len(ws)] = w
    BY <1>4, <2>1 DEF k
  <2>3. vectors' = Collected(ws) /\ Len(ws) > 0
    BY <1>3, <1>4, <2>2, Zenon
  <2> HIDE DEF ws
  <2> QED
    BY <2>2, <2>3, CollectedLast, Zenon
<1>10. HeapInv' /\ Content' = [Content EXCEPT ![o] = @ + 1]
  BY <1>3, <1>7, <1>8, <1>9, Added, Zenon
<1>11. bound > 0 => count < bound
  BY <1>1, <1>3 DEF PqMustWait, PqOverflows
<1>12. PriorityQueue!Members = MembersOf(Content)
  BY Zenon DEF PriorityQueue!Members, MembersOf
<1>13. PriorityQueue!Cardinality(PriorityQueue!Members) = count
  <2>1. PriorityQueue!Cardinality(PriorityQueue!Members) = Cardinality(PriorityQueue!Members)
    BY Zenon DEF PriorityQueue!Cardinality, Cardinality
  <2> QED
    BY <1>1, <1>12, <2>1, Zenon DEF Holds
<1> HIDE DEF Content
<1> QED
  BY <1>10, <1>11, <1>13, Zenon DEF PriorityQueue!Put

\* The least object of the queue.
LEMMA RootIsMin ==
  ASSUME HeapInv, count > 0
  PROVE  elements[1] \in Objects /\ PriorityQueue!Held # {} /\ PriorityQueue!Min(PriorityQueue!Held) = elements[1]
<1> DEFINE n == Len(elements)
           H == PriorityQueue!Held
<1>1. VectorsOK /\ count \in Nat /\ IsHeap(n, elements, count)
  BY Zenon DEF HeapInv
<1>2. elements \in Seq(Int) /\ n \in Nat /\ elements \in Vec(n) /\ DOMAIN elements = 1..n
  BY <1>1, ElementsOK, SeqIsVec, Zenon
<1>3. 1 \in 1..n /\ 1 <= count /\ count <= n
  BY <1>1, <1>2 DEF IsHeap
<1>4. elements[1] \in Objects
  BY <1>1, <1>3, Zenon DEF IsHeap
<1>5. Content = ContentOf(elements)
  BY <1>2, ContentIsCount, Zenon DEF Content
<1>6. \A x \in Objects : x \in H <=> Count(elements, x) > 0
  <2>1. \A x \in Objects : Content[x] = Count(elements, x)
    BY <1>5, Zenon DEF ContentOf
  <2> HIDE DEF Content
  <2> QED
    BY <2>1, Zenon DEF PriorityQueue!Held
<1>7. H \subseteq Objects
  BY Zenon DEF PriorityQueue!Held
<1> HIDE DEF H
<1>8. ASSUME NEW x \in Objects PROVE x \in H <=> Places(elements, x) # {}
  <2>1. IsFiniteSet(Places(elements, x)) /\ Count(elements, x) \in Nat
    BY <1>2, PlacesFinite, Zenon
  <2>2. Count(elements, x) = 0 <=> Places(elements, x) = {}
    BY <2>1, FS_EmptySet, Zenon DEF Count
  <2> QED
    BY <1>6, <2>1, <2>2
<1>9. elements[1] \in H
  BY <1>2, <1>3, <1>4, <1>8, Zenon DEF Places
<1>10. ASSUME NEW x \in H PROVE elements[1] <= x
  <2>1. PICK i \in 1..n : elements[i] = x
    BY <1>2, <1>7, <1>8, Zenon DEF Places
  <2>2. i <= count
    BY <1>1, <1>7, <2>1, Zenon DEF IsHeap
  <2>3. i - 1 \in 0..(count - 1) /\ (i - 1) + 1 = i
    BY <1>1, <2>2
  <2> QED
    BY <1>1, <2>1, <2>3, LeastFirst
<1>11. \A x \in H : x \in Int
  BY <1>7, ObjectsAssumption
<1>12. ASSUME NEW y \in H, \A x \in H : y <= x PROVE y = elements[1]
  <2>1. y <= elements[1] /\ elements[1] <= y
    BY <1>9, <1>10, <1>12, Zenon
  <2> QED
    BY <1>9, <1>11, <2>1
<1>13. PriorityQueue!Min(H) = elements[1]
  BY <1>9, <1>10, <1>12, Zenon DEF PriorityQueue!Min
<1> QED
  BY <1>4, <1>9, <1>13, Zenon DEF H

\* get! takes the root, a least object, and sifts the last object down from it.
LEMMA TakeStep ==
  ASSUME HeapInv, NEW t \in PqThreads, PqGetTake(t), count > 0
  PROVE  HeapInv' /\ PriorityQueue!Get
<1> DEFINE n == Len(elements)
           s == count - 1
           x == elements[s + 1]
           es == [elements EXCEPT ![s + 1] = Empty]
           w == IF s = 0 THEN es ELSE shift_down(es, s, 0, x)
<1>1. VectorsOK /\ count \in Nat /\ bound \in Int /\ IsHeap(n, elements, count)
  BY Zenon DEF HeapInv
<1>2. vectors' = [vectors EXCEPT ![Es] = w] /\ count' = count - 1 /\ bound' = bound
  BY DEF PqGetTake, pqRest
<1>3. LastCleared(n, elements, s, es)
  BY <1>1, ClearLast, Zenon
<1>4. s >= 0 /\ s \in Nat /\ s = count - 1 /\ n \in Nat /\ 0 + 1 = 1
  BY <1>1 DEF IsHeap
<1> HIDE DEF s, es
<1>5. IsHeap(n, w, s) /\ OneMore(w, elements, elements[1])
  <2>1. CASE s = 0
    <3>1. IsHeap(n, es, s) /\ OneMore(es, elements, elements[s + 1])
      BY <1>1, <1>3, <1>4, ClearedHeap, Zenon
    <3> QED
      BY <1>4, <2>1, <3>1, Zenon
  <2>2. CASE s # 0
    <3>0. 0 \in 0..(s - 1)
      <4>1. \A a \in Nat : a # 0 => 0 \in 0..(a - 1)
        OBVIOUS
      <4> QED
        BY <1>4, <2>2, <4>1, Zenon
    <3>1. HeapBelow(es, s, 0) /\ x \in Objects /\ s \in 0..n
      BY <1>1, <1>3, <1>4, <3>0, ClearedBelow, Zenon
    <3>2. es \in Vec(n)
      BY <1>3, Zenon DEF LastCleared
    <3> DEFINE r == shift_down(es, s, 0, x)
    <3>3. SiftedDown(n, s, es, 0, x, r)
      BY <1>4, <3>0, <3>1, <3>2, ShiftDown, Zenon
    <3> HIDE DEF r
    <3>4. IsHeap(n, r, s) /\ OneMore(r, elements, elements[0 + 1])
      BY <1>1, <1>3, <1>4, <3>0, <3>3, DownHeap, Zenon
    <3> QED
      BY <1>4, <2>2, <3>4, Zenon DEF r
  <2> QED
    BY <2>1, <2>2
<1> HIDE DEF w
<1>6. w \in Seq(Int)
  BY <1>5, VecIsSeq, Zenon DEF IsHeap
<1>7. VectorsOK' /\ elements' = w
  BY <1>1, <1>2, <1>6, Replaced, Zenon
<1>8. /\ elements[1] \in Objects /\ PriorityQueue!Held # {}
      /\ PriorityQueue!Min(PriorityQueue!Held) = elements[1]
  BY RootIsMin, Zenon
<1>9. HeapInv' /\ PriorityQueue!RemoveOne(elements[1])
  BY <1>2, <1>4, <1>5, <1>7, <1>8, Taken, Zenon
<1> QED
  BY <1>8, <1>9, Zenon DEF PriorityQueue!Get

\* The first position that remove! finds is one of them.
LEMMA MinIsMember ==
  ASSUME NEW S, S \subseteq Nat, S # {}
  PROVE  Min(S) \in S
<1>1. \E x \in S : \A y \in S : x <= y
  BY Least, Zenon
<1> QED
  BY <1>1, Zenon DEF Min

\* What shift-up needs of a heap whose object at i may be before its parent.
LEMMA NearlyUpto ==
  ASSUME NEW n, NEW q, NEW s, NEW i, NearlyHeap(n, q, s, i)
  PROVE  HeapUpto(q, i) /\ n \in Nat /\ q \in Vec(n) /\ i \in 0..(n - 1) /\ q[i + 1] \in Objects
<1>1. /\ n \in Nat /\ q \in Vec(n) /\ s \in 0..n /\ i \in 0..(s - 1)
      /\ \A j \in 1..n : q[j] \in Objects <=> j <= s
      /\ \A k \in 1..(s - 1) : k # i => q[Parent(k) + 1] <= q[k + 1]
  BY Zenon DEF NearlyHeap
<1>2. \A j \in 1..(i + 1) : q[j] \in Objects
  BY <1>1
<1>3. \A k \in 1..(i - 1) : k \in 1..(s - 1) /\ k # i
  BY <1>1
<1>4. i \in 0..(n - 1) /\ i + 1 \in 1..(i + 1) /\ \A j \in 1..i : j \in 1..(i + 1)
  BY <1>1
<1> QED
  BY <1>1, <1>2, <1>3, <1>4, Zenon DEF HeapUpto

\* What remove-at makes of a heap.
LEMMA RemoveVector ==
  ASSUME NEW n, NEW v, NEW size, IsHeap(n, v, size), NEW s, s = size - 1,
         NEW es, LastCleared(n, v, s, es), NEW i \in 0..s,
         NEW d, i # s => d = shift_down(es, s, i, v[s + 1]),
         NEW w, w = IF i = s THEN es
                    ELSE IF d[i + 1] = v[s + 1] THEN shift_up(d, i, v[s + 1]) ELSE d
  PROVE  IsHeap(n, w, s) /\ OneMore(w, v, v[i + 1])
<1>1. s >= 0 /\ s \in Nat /\ n \in Nat
  BY DEF IsHeap
<1>2. CASE i = s
  <2>1. IsHeap(n, es, s) /\ OneMore(es, v, v[s + 1])
    BY <1>1, ClearedHeap, Zenon
  <2> QED
    BY <1>2, <2>1, Zenon
<1>3. CASE i # s
  <2>1. i \in 0..(s - 1)
    BY <1>1, <1>3
  <2>2. HeapBelow(es, s, i) /\ v[s + 1] \in Objects /\ s \in 0..n
    BY <2>1, ClearedBelow, Zenon
  <2>3. es \in Vec(n)
    BY Zenon DEF LastCleared
  <2>4. SiftedDown(n, s, es, i, v[s + 1], d)
    BY <1>1, <1>3, <2>1, <2>2, <2>3, ShiftDown, Zenon
  <2>5. /\ NearlyHeap(n, d, s, i) /\ OneMore(d, v, v[i + 1])
        /\ d[i + 1] # v[s + 1] => IsHeap(n, d, s)
    BY <2>1, <2>4, DownHeap, Zenon
  <2>6. CASE d[i + 1] = v[s + 1]
    <3>1. w = shift_up(d, i, d[i + 1])
      BY <1>3, <2>6, Zenon
    <3>2. HeapUpto(d, i) /\ d \in Vec(n) /\ i \in 0..(n - 1) /\ d[i + 1] \in Objects
      BY <2>5, NearlyUpto, Zenon
    <3>3. SiftedUp(n, d, i, d[i + 1], w)
      BY <1>1, <3>1, <3>2, ShiftUp, Zenon
    <3>4. IsHeap(n, w, s) /\ SameObjects(d, w)
      BY <2>5, <3>3, UpHeap, Zenon
    <3>5. OneMore(w, v, v[i + 1])
      BY <2>5, <3>4, Zenon DEF OneMore, SameObjects
    <3> QED
      BY <3>4, <3>5
  <2>7. CASE d[i + 1] # v[s + 1]
    BY <1>3, <2>5, <2>7, Zenon
  <2> QED
    BY <2>6, <2>7
<1> QED
  BY <1>2, <1>3

\* The last of two writes to one place counts.
LEMMA ExceptTwice ==
  ASSUME NEW f, NEW a \in DOMAIN f, NEW x, NEW y
  PROVE  /\ [f EXCEPT ![a] = x][a] = x
         /\ [[f EXCEPT ![a] = x] EXCEPT ![a] = y] = [f EXCEPT ![a] = y]
BY Zenon

\* remove! takes one of the object out of the heap, if the vector that it searched is
\* still the one in the field elements.
LEMMA RemoveStep ==
  ASSUME HeapInv, NEW t \in PqThreads, NEW o \in Objects, PqRemove(t, o), ~stale'
  PROVE  HeapInv' /\ PriorityQueue!RemoveOne(o)
<1> DEFINE n == Len(elements)
           s == count - 1
           i == Min(Stops(vectors[Es], o))
           m == elements[s + 1]
           es == [elements EXCEPT ![s + 1] = Empty]
           d == shift_down(es, s, i, m)
           w == IF i = s THEN es ELSE IF d[i + 1] = m THEN shift_up(d, i, m) ELSE d
<1>1. VectorsOK /\ count \in Nat /\ bound \in Int /\ IsHeap(n, elements, count)
  BY Zenon DEF HeapInv
<1>2. pqReg[t] = Es
  BY Zenon DEF PqRemove
<1>3. /\ Stops(vectors[Es], o) # {} /\ vectors[Es][i + 1] = o
      /\ vectors' = RemovedAt(Es, i) /\ count' = count - 1 /\ bound' = bound
  BY <1>2 DEF PqRemove, pqRest
<1>4. Es \in DOMAIN vectors /\ vectors[Es] = elements /\ elements[i + 1] = o
  BY <1>1, <1>3, ElementsOK DEF VectorsOK, Es
<1>5. i \in 0..s
  <2>1. Stops(vectors[Es], o) \subseteq 0..(count - 1) /\ Stops(vectors[Es], o) \subseteq Nat
    BY DEF Stops
  <2> QED
    BY <1>3, <2>1, MinIsMember, Zenon
<1> HIDE DEF i
<1>6. count > 0 /\ s = count - 1
  BY <1>1, <1>5
<1>7. LastCleared(n, elements, s, es)
  BY <1>1, <1>6, ClearLast, Zenon
<1>8. IsHeap(n, w, s) /\ OneMore(w, elements, o)
  <2> HIDE DEF s, es, d
  <2>1. i # s => d = shift_down(es, s, i, elements[s + 1])
    BY Zenon DEF d
  <2>2. IsHeap(n, w, s) /\ OneMore(w, elements, elements[i + 1])
    BY <1>1, <1>5, <1>6, <1>7, <2>1, RemoveVector, ZenonT(40)
  <2> QED
    BY <1>4, <2>2, Zenon
<1>9. vectors' = [vectors EXCEPT ![Es] = w]
  <2> DEFINE cleared == [vectors EXCEPT ![Es] = es]
             down == [vectors EXCEPT ![Es] = d]
  <2>1. cleared[Es] = es /\ down[Es] = d
    BY <1>4, ExceptTwice, Zenon
  <2>2. [cleared EXCEPT ![Es] = d] = down
    BY <1>4, ExceptTwice, Zenon
  <2>3. [down EXCEPT ![Es] = shift_up(d, i, m)] = [vectors EXCEPT ![Es] = shift_up(d, i, m)]
    BY <1>4, ExceptTwice, Zenon
  <2>4. [vectors EXCEPT ![Es][s + 1] = Empty] = cleared
    BY <1>4, Zenon
  <2>5. vectors' = CASE i = s -> cleared
                     [] i # s /\ down[Es][i + 1] = m -> [down EXCEPT ![Es] = shift_up(d, i, m)]
                     [] OTHER -> down
    BY <1>3, <1>4, <2>1, <2>2, <2>4, Zenon DEF RemovedAt
  <2> HIDE DEF cleared, down, s, es, d
  <2>6. CASE i = s
    BY <2>5, <2>6, Zenon DEF cleared
  <2>7. CASE i # s /\ d[i + 1] = m
    BY <2>1, <2>3, <2>5, <2>7, Zenon
  <2>8. CASE i # s /\ d[i + 1] # m
    BY <2>1, <2>5, <2>8, Zenon DEF down
  <2> QED
    BY <2>6, <2>7, <2>8
<1> HIDE DEF w
<1>10. w \in Seq(Int)
  BY <1>8, VecIsSeq, Zenon DEF IsHeap
<1>11. VectorsOK' /\ elements' = w
  BY <1>1, <1>9, <1>10, Replaced, Zenon
<1> QED
  BY <1>3, <1>6, <1>8, <1>11, Taken, Zenon

(***************************************************************************)
(* Where the threads are.                                                  *)
(***************************************************************************)
\* Thread t goes to p; another stays, or is woken outside the critical sections.
Moves(t, p) ==
  /\ pqPc' \in [PqThreads -> PqPlaces] /\ pqPc'[t] = p
  /\ \A u \in PqThreads :
       u # t => pqPc'[u] = pqPc[u] \/ (pqPc[u] \notin PqHolding /\ pqPc'[u] \notin PqHolding)

\* A thread goes to p.
LEMMA GotoMoves ==
  ASSUME LockInv, NEW t \in PqThreads, NEW p \in PqPlaces, PqGoto(t, p)
  PROVE  Moves(t, p)
BY DEF LockInv, PqGoto, Moves

\* A thread goes to p and wakes up those that wait at from.
LEMMA BroadcastMoves ==
  ASSUME LockInv, NEW t \in PqThreads, NEW p \in PqPlaces,
         NEW from \in PqPlaces, NEW to \in PqPlaces, PqBroadcast(from, to, t, p),
         from \notin PqHolding, to \notin PqHolding
  PROVE  Moves(t, p)
<1>1. pqPc \in [PqThreads -> PqPlaces]
  BY DEF LockInv
<1>2. pqPc' \in [PqThreads -> PqPlaces]
  BY <1>1, Zenon DEF PqBroadcast
<1>3. \A u \in PqThreads : pqPc'[u] = IF u = t THEN p ELSE IF pqPc[u] = from THEN to ELSE pqPc[u]
  BY Zenon DEF PqBroadcast
<1> QED
  BY <1>2, <1>3, Zenon DEF Moves

\* No thread but the one that moves leaves the taking of an object.
LEMMA NobodyTakes ==
  ASSUME NEW t \in PqThreads, NEW p, Moves(t, p), pqPc[t] # "gdeq"
  PROVE  ~ \E u \in PqThreads : pqPc[u] = "gdeq" /\ pqPc'[u] = "idle"
BY DEF Moves, PqHolding

\* One thread at a time is at a place that holds the mutex, and get! has seen an
\* object when it takes one.
LEMMA LockStep ==
  ASSUME LockInv, NEW t \in PqThreads, NEW p, Moves(t, p),
         p \in PqHolding => pqLock' = t,
         p = "gdeq" => count' > 0,
         \/ pqLock = Nobody
         \/ pqPc[t] \in PqHolding
         \/ pqLock' = pqLock /\ count' = count
  PROVE  LockInv'
<1>1. pqPc' \in [PqThreads -> PqPlaces]
  BY Zenon DEF Moves
<1>2. ASSUME NEW u \in PqThreads
      PROVE  (pqPc'[u] \in PqHolding => pqLock' = u) /\ (pqPc'[u] = "gdeq" => count' > 0)
  <2>0. "gdeq" \in PqHolding
    BY Zenon DEF PqHolding
  <2>1. CASE u = t
    BY <2>1, Zenon DEF Moves
  <2>2. CASE u # t /\ pqPc'[u] \notin PqHolding
    BY <2>0, <2>2, Zenon
  <2>3. CASE u # t /\ pqPc'[u] \in PqHolding
    <3>1. pqPc'[u] = pqPc[u] /\ pqLock = u
      BY <2>3, Zenon DEF Moves, LockInv
    <3>2. pqLock # Nobody /\ pqPc[t] \notin PqHolding
      BY <2>3, <3>1, PqAssumption, Zenon DEF LockInv
    <3> QED
      BY <3>1, <3>2, Zenon DEF LockInv
  <2> QED
    BY <2>1, <2>2, <2>3
<1> QED
  BY <1>1, <1>2, Zenon DEF LockInv

(***************************************************************************)
(* The steps.                                                              *)
(***************************************************************************)
\* A step of the abstract queue, or none.
PqImplements ==
  \/ stale'
  \/ IF \E t \in PqThreads : pqPc[t] = "gdeq" /\ pqPc'[t] = "idle"
     THEN PriorityQueue!Get /\ UNCHANGED bound
     ELSE PriorityQueue!Next \/ UNCHANGED <<Content, bound>>

\* A step that leaves the heap alone.
LEMMA HeapStays ==
  ASSUME HeapInv, UNCHANGED <<vectors, count, bound>>
  PROVE  HeapInv' /\ UNCHANGED <<Content, bound>>
<1>1. elements' = elements
  BY Zenon DEF elements, Es
<1>2. VectorsOK'
  BY Zenon DEF HeapInv, VectorsOK, Es
<1>3. Content' = Content
  BY <1>1, Zenon DEF Content
<1> HIDE DEF Content
<1> QED
  BY <1>1, <1>2, <1>3, Zenon DEF HeapInv

\* The steps that leave the heap alone.
LEMMA StillStep ==
  ASSUME HeapInv, LockInv, NEW t \in PqThreads, NEW p, Moves(t, p),
         UNCHANGED <<vectors, count, bound>>,
         pqPc[t] # "gdeq",
         p \in PqHolding => pqLock' = t,
         p = "gdeq" => count > 0,
         pqLock = Nobody \/ pqPc[t] \in PqHolding \/ pqLock' = pqLock
  PROVE  PqInv' /\ PqImplements
<1>1. HeapInv' /\ UNCHANGED <<Content, bound>>
  BY HeapStays, Zenon
<1>2. LockInv'
  BY LockStep, Zenon
<1>3. ~ \E u \in PqThreads : pqPc[u] = "gdeq" /\ pqPc'[u] = "idle"
  BY NobodyTakes, Zenon
<1> HIDE DEF Content
<1> QED
  BY <1>1, <1>2, <1>3, Zenon DEF PqInv, PqImplements

\* The steps of get! that take nothing.
LEMMA GetSteps ==
  ASSUME HeapInv, LockInv, NEW t \in PqThreads,
         \/ PqCallGet(t) \/ PqGetLock(t) \/ PqGetAnnounce(t) \/ PqGetTest(t)
         \/ PqGetRelock(t)
         \/ PqGetTimeout(t) \/ PqGetTimeoutRead(t) \/ PqGetTimeoutWrite(t)
  PROVE  PqInv' /\ PqImplements
<1> USE DEF PqHolding, PqPlaces, pqRest
<1>1. CASE PqCallGet(t)
  BY <1>1, GotoMoves, StillStep, Zenon DEF PqCallGet
<1>2. CASE PqGetLock(t)
  BY <1>2, GotoMoves, StillStep, Zenon DEF PqGetLock
<1>3. CASE PqGetAnnounce(t)
  BY <1>3, BroadcastMoves, StillStep, Zenon DEF PqGetAnnounce, LockInv
<1>4. CASE PqGetTest(t)
  <2>1. pqPc[t] = "gtest" /\ pqLock = t /\ UNCHANGED <<vectors, count, bound>>
    BY <1>4, Zenon DEF PqGetTest, LockInv
  <2>2. CASE count = 0
    BY <1>4, <2>1, <2>2, GotoMoves, StillStep, Zenon DEF PqGetTest
  <2>3. CASE count # 0
    <3>1. count > 0
      BY <2>3 DEF HeapInv
    <3> QED
      BY <1>4, <2>1, <2>3, <3>1, GotoMoves, StillStep, Zenon DEF PqGetTest
  <2> QED
    BY <2>2, <2>3
<1>5. CASE PqGetRelock(t)
  BY <1>5, GotoMoves, StillStep, Zenon DEF PqGetRelock
<1>6. CASE PqGetTimeout(t)
  BY <1>6, GotoMoves, StillStep, Zenon DEF PqGetTimeout
<1>7. CASE PqGetTimeoutRead(t)
  BY <1>7, GotoMoves, StillStep, Zenon DEF PqGetTimeoutRead
<1>8. CASE PqGetTimeoutWrite(t)
  BY <1>8, GotoMoves, StillStep, Zenon DEF PqGetTimeoutWrite
<1> QED
  BY <1>1, <1>2, <1>3, <1>4, <1>5, <1>6, <1>7, <1>8, Zenon

\* The other steps that leave the heap alone.
LEMMA OtherSteps ==
  ASSUME HeapInv, LockInv, NEW t \in PqThreads,
         \/ PqCallPut(t) \/ PqPutWait(t) \/ PqPutTimeout(t) \/ PqCallRemove(t)
         \/ \E o \in Objects : PqRemoveNothing(t, o)
         \/ PqUserLock(t) \/ PqUserUnlock(t) \/ PqSpuriousWakeup(t)
  PROVE  PqInv' /\ PqImplements
<1> USE DEF PqHolding, PqPlaces, pqRest
<1>1. CASE PqCallPut(t)
  BY <1>1, GotoMoves, StillStep, Zenon DEF PqCallPut
<1>2. CASE PqPutWait(t)
  BY <1>2, GotoMoves, StillStep, Zenon DEF PqPutWait
<1>3. CASE PqPutTimeout(t)
  BY <1>3, GotoMoves, StillStep, Zenon DEF PqPutTimeout
<1>4. CASE PqCallRemove(t)
  BY <1>4, GotoMoves, StillStep, Zenon DEF PqCallRemove
<1>5. ASSUME NEW o \in Objects, PqRemoveNothing(t, o) PROVE PqInv' /\ PqImplements
  BY <1>5, GotoMoves, StillStep, Zenon DEF PqRemoveNothing
<1>6. CASE PqUserLock(t)
  BY <1>6, GotoMoves, StillStep, Zenon DEF PqUserLock
<1>7. CASE PqUserUnlock(t)
  BY <1>7, GotoMoves, StillStep, Zenon DEF PqUserUnlock
<1>8. CASE PqSpuriousWakeup(t)
  BY <1>8, GotoMoves, StillStep, Zenon DEF PqSpuriousWakeup
<1> QED
  BY <1>1, <1>2, <1>3, <1>4, <1>5, <1>6, <1>7, <1>8, Zenon

\* get! takes an object of the abstract queue.
LEMMA TakingStep ==
  ASSUME HeapInv, LockInv, NEW t \in PqThreads, PqGetTake(t)
  PROVE  PqInv' /\ PqImplements
<1>1. /\ pqPc[t] = "gdeq" /\ pqLock' = Nobody /\ PqGoto(t, "idle") /\ bound' = bound
  BY DEF PqGetTake, pqRest
<1>2. /\ count > 0 /\ pqPc[t] \in PqHolding /\ "idle" \notin PqHolding
      /\ "idle" \in PqPlaces
  BY <1>1 DEF LockInv, PqHolding, PqPlaces
<1>3. HeapInv' /\ PriorityQueue!Get
  BY <1>2, TakeStep, Zenon
<1>4. Moves(t, "idle") /\ "idle" # "gdeq"
  BY <1>1, <1>2, GotoMoves, Zenon
<1>5. LockInv'
  BY <1>2, <1>4, LockStep, Zenon
<1>6. pqPc'[t] = "idle"
  BY <1>4, Zenon DEF Moves
<1> QED
  BY <1>1, <1>3, <1>5, <1>6, ZenonT(40) DEF PqInv, PqImplements

\* put!, remove! and clear! are steps of the abstract queue too.
LEMMA ChangingStep ==
  ASSUME HeapInv, LockInv, NEW t \in PqThreads, Moves(t, "idle") \/ UNCHANGED pqPc,
         pqLock = Nobody, pqPc[t] # "gdeq", ~stale' => HeapInv' /\ PriorityQueue!Next
  PROVE  PqInv' /\ PqImplements
<1>1. "idle" \notin PqHolding /\ "idle" # "gdeq"
  BY DEF PqHolding
<1>2. CASE Moves(t, "idle")
  <2>1. LockInv' /\ ~ \E u \in PqThreads : pqPc[u] = "gdeq" /\ pqPc'[u] = "idle"
    BY <1>1, <1>2, LockStep, NobodyTakes, Zenon
  <2> QED
    BY <2>1, Zenon DEF PqInv, PqImplements
<1>3. CASE UNCHANGED pqPc
  <2>1. \A u \in PqThreads : pqPc[u] \notin PqHolding
    BY PqAssumption, Zenon DEF LockInv
  <2>2. "gdeq" \in PqHolding
    BY Zenon DEF PqHolding
  <2>3. LockInv' /\ ~ \E u \in PqThreads : pqPc[u] = "gdeq" /\ pqPc'[u] = "idle"
    BY <1>3, <2>1, <2>2, Zenon DEF LockInv
  <2> QED
    BY <2>3, Zenon DEF PqInv, PqImplements
<1> QED
  BY <1>2, <1>3

\* put!, remove! and clear!.
LEMMA HeapSteps ==
  ASSUME HeapInv, LockInv, NEW t \in PqThreads,
         PqClear(t) \/ \E o \in Objects : PqPut(t, o) \/ PqRemove(t, o)
  PROVE  PqInv' /\ PqImplements
<1>0. /\ "pwait" \notin PqHolding /\ "plock" \notin PqHolding
      /\ "gwait" \notin PqHolding /\ "grelock" \notin PqHolding
      /\ {"pwait", "plock", "gwait", "grelock", "idle"} \subseteq PqPlaces
  BY DEF PqHolding, PqPlaces
<1>1. CASE PqClear(t)
  <2>1. UNCHANGED pqPc /\ pqLock = Nobody /\ pqPc[t] # "gdeq" /\ bound' = bound
    BY <1>1 DEF PqClear, pqRest
  <2>2. HeapInv' /\ PriorityQueue!Next
    BY <1>1, <2>1, ClearStep, Zenon DEF PriorityQueue!Next
  <2> QED
    BY <2>1, <2>2, ChangingStep, Zenon
<1>2. ASSUME NEW o \in Objects, PqPut(t, o) PROVE PqInv' /\ PqImplements
  <2>1. PqWakeReaders(t) /\ pqLock = Nobody /\ pqPc[t] # "gdeq" /\ bound' = bound
    BY <1>2 DEF PqPut
  <2>2. HeapInv' /\ PriorityQueue!Next
    BY <1>2, <2>1, PutStep, Zenon DEF PriorityQueue!Next
  <2>3. Moves(t, "idle")
    BY <1>0, <2>1, GotoMoves, BroadcastMoves, Zenon DEF PqWakeReaders
  <2> QED
    BY <2>1, <2>2, <2>3, ChangingStep, Zenon
<1>3. ASSUME NEW o \in Objects, PqRemove(t, o) PROVE PqInv' /\ PqImplements
  <2>1. /\ PqBroadcast("pwait", "plock", t, "idle")
        /\ pqLock = Nobody /\ pqPc[t] # "gdeq" /\ bound' = bound
    BY <1>3 DEF PqRemove, pqRest
  <2>2. ~stale' => HeapInv' /\ PriorityQueue!Next
    BY <1>3, <2>1, RemoveStep, Zenon DEF PriorityQueue!Next
  <2>3. Moves(t, "idle")
    BY <1>0, <2>1, BroadcastMoves, Zenon
  <2> QED
    BY <2>1, <2>2, <2>3, ChangingStep, ZenonT(40)
<1> QED
  BY <1>1, <1>2, <1>3, Zenon

\* Every step keeps the invariant and is a step, or a stutter, of the abstract queue.
LEMMA PqNextStep ==
  ASSUME PqInv, PqNext
  PROVE  PqInv' /\ PqImplements
<1>1. HeapInv /\ LockInv
  BY Zenon DEF PqInv, PqNext
<1>2. PICK t \in PqThreads :
        \/ \/ PqCallGet(t) \/ PqGetLock(t) \/ PqGetAnnounce(t) \/ PqGetTest(t)
           \/ PqGetRelock(t)
           \/ PqGetTimeout(t) \/ PqGetTimeoutRead(t) \/ PqGetTimeoutWrite(t)
        \/ PqGetTake(t)
        \/ \/ PqCallPut(t) \/ PqPutWait(t) \/ PqPutTimeout(t) \/ PqCallRemove(t)
           \/ \E o \in Objects : PqRemoveNothing(t, o)
           \/ PqUserLock(t) \/ PqUserUnlock(t) \/ PqSpuriousWakeup(t)
        \/ PqClear(t) \/ \E o \in Objects : PqPut(t, o) \/ PqRemove(t, o)
        \/ \E o \in Objects : PqRemoveRaises(t, o)
  BY Zenon DEF PqNext
<1>3. CASE \E o \in Objects : PqRemoveRaises(t, o)
  <2>1. stale'
    BY <1>3 DEF PqRemoveRaises
  <2> QED
    BY <2>1, Zenon DEF PqInv, PqImplements
<1> QED
  BY <1>1, <1>2, <1>3, GetSteps, TakingStep, OtherSteps, HeapSteps, Zenon

\* Stuttering.
LEMMA PqStays ==
  ASSUME PqInv, UNCHANGED pqVars
  PROVE  PqInv'
<1>1. HeapInv => HeapInv'
  BY HeapStays, Zenon DEF pqVars
<1>2. LockInv => LockInv'
  BY Zenon DEF pqVars, LockInv
<1> QED
  BY <1>1, <1>2, Zenon DEF pqVars, PqInv

\* make-shared-priority-queue makes an empty heap.
LEMMA PqStart ==
  ASSUME PqInit
  PROVE  PqInv
<1> DEFINE n == IF bound >= 0 THEN bound ELSE Capacity
           v == [i \in 1..n |-> Empty]
<1>1. bound \in Int /\ n \in Nat
  BY PqAssumption DEF PqInit
<1> HIDE DEF n
<1>2. v \in Vec(n) /\ \A i \in 1..n : v[i] = Empty
  <2>1. Empty \in Int
    BY DEF Empty
  <2> QED
    BY <2>1, Zenon DEF Vec
<1>3. vectors = <<v>> /\ count = 0
  BY Zenon DEF PqInit, n
<1> HIDE DEF v
<1>4. v \in Seq(Int) /\ Len(v) = n /\ DOMAIN v = 1..n
  BY <1>1, <1>2, VecIsSeq, Zenon
<1>5. VectorsOK /\ elements = v
  BY <1>3, <1>4 DEF VectorsOK, Es, elements
<1>6. \A i \in 1..n : v[i] \notin Objects
  BY <1>2, NoObject, Zenon
<1>7. IsHeap(n, v, 0)
  <2>1. 0 \in 0..n /\ 1..(0 - 1) = {} /\ \A i \in 1..n : ~(i <= 0)
    BY <1>1
  <2> QED
    BY <1>1, <1>2, <1>6, <2>1, Zenon DEF IsHeap
<1>8. Holds(Content, 0)
  <2>1. \A x \in Objects : Content[x] = 0
    <3> SUFFICES ASSUME NEW x \in Objects PROVE Content[x] = 0
      OBVIOUS
    <3>1. {k \in 1..Len(elements) : elements[k] = x} = {}
      BY <1>4, <1>5, <1>6, Zenon
    <3> QED
      BY <3>1, FS_EmptySet, Zenon DEF Content
  <2> HIDE DEF Content
  <2> QED
    BY <2>1, HoldsNothing, Zenon
<1>9. LockInv
  BY Zenon DEF PqInit, LockInv, PqHolding, PqPlaces
<1>10. 0 \in Nat
  OBVIOUS
<1> QED
  BY <1>1, <1>3, <1>4, <1>5, <1>7, <1>8, <1>9, <1>10, Zenon DEF PqInv, HeapInv

\* The inductive invariant of the shared priority queue.
LEMMA PqInvHolds == PqSpec => []PqInv
<1>1. PqInit => PqInv
  BY PqStart
<1>2. PqInv /\ [PqNext]_pqVars => PqInv'
  BY PqNextStep, PqStays, Zenon
<1> QED
  BY <1>1, <1>2, PTL DEF PqSpec

\* Whatever the threads put, get, remove and clear, and whenever they are interrupted,
\* no child is before its parent in the vector of the queue (until remove! uses a vector
\* that put! has replaced), so that get! returns a least object.
THEOREM PqHeapOrdered == PqSpec => []HeapOrdered
<1>1. PqInv => HeapOrdered
  <2> SUFFICES ASSUME PqInv, ~stale PROVE HeapOrdered
    BY Zenon DEF HeapOrdered
  <2>1. IsHeap(Len(elements), elements, count)
    BY Zenon DEF PqInv, HeapInv
  <2> QED
    BY <2>1 DEF IsHeap, HeapOrdered, Parent
<1> QED
  BY <1>1, PqInvHolds, PTL

\* The threads and the vector implement a bag of objects from which get! takes a least
\* one: put! adds its object, remove! takes one, clear! all, and no other step changes it.
THEOREM PqRefinement == PqSpec => ImplementsPriorityQueue
<1>1. PqInv /\ [PqNext]_pqVars => [PqImplements]_pqVars
  BY PqNextStep, Zenon
<1>2. PqSpec => [][PqImplements]_pqVars
  BY <1>1, PqInvHolds, PTL DEF PqSpec
<1> QED
  BY <1>2, Zenon DEF ImplementsPriorityQueue, PqImplements
==============================================================================
