--------------------------- MODULE InductionLemmas ---------------------------
(***************************************************************************)
(* Induction over the natural numbers and over sequences, with a set in    *)
(* place of a predicate, and what it says about functions that are defined *)
(* by recursion.                                                           *)
(***************************************************************************)
EXTENDS Integers, Sequences, WellFoundedInduction, TLAPS

\* A set of natural numbers that is not empty has a least one.
LEMMA Least ==
  ASSUME NEW S, S \subseteq Nat, S # {}
  PROVE  \E x \in S : \A y \in S : x <= y
<1> DEFINE R == OpToRel(<, Nat)
<1>1. R = {p \in Nat \X Nat : p[1] < p[2]}
  BY DEF OpToRel
<1>2. IsWellFoundedOn(R, Nat)
  BY NatLessThanWellFounded
<1> HIDE DEF R
<1>3. PICK x \in S : \A y \in S : <<y, x>> \notin R
  BY <1>2, WFMin, Zenon
<1>4. \A y \in S : x <= y
  <2> SUFFICES ASSUME NEW y \in S, ~(x <= y) PROVE FALSE
    OBVIOUS
  <2>1. x \in Nat /\ y \in Nat /\ y < x
    OBVIOUS
  <2>2. <<y, x>> \in Nat \X Nat /\ <<y, x>>[1] < <<y, x>>[2]
    BY <2>1
  <2>3. <<y, x>> \in R
    BY <1>1, <2>2, Zenon
  <2> QED
    BY <1>3, <2>3
<1> QED
  BY <1>4

LEMMA Predecessor ==
  ASSUME NEW n \in Nat, NEW k \in 1..n
  PROVE  k - 1 \in 0..(n - 1) /\ k - 1 \in 0..n /\ ~(k <= k - 1) /\ (k - 1) + 1 = k
OBVIOUS

\* A set with 0 and the successor of each of its members below n has n.
LEMMA Induction ==
  ASSUME NEW n \in Nat, NEW S, 0 \in S, \A k \in 0..(n - 1) : k \in S => k + 1 \in S
  PROVE  n \in S
<1> SUFFICES ASSUME n \notin S PROVE FALSE
  OBVIOUS
<1> DEFINE Out == {k \in 0..n : k \notin S}
<1>0. Out \subseteq Nat /\ Out # {}
  <2>1. n \in 0..n
    OBVIOUS
  <2> QED
    BY <2>1
<1>1. PICK k \in Out : \A m \in Out : k <= m
  <2> HIDE DEF Out
  <2> QED
    BY <1>0, Least, Zenon
<1>2. k \in 1..n /\ k \notin S
  OBVIOUS
<1>3. k - 1 \in 0..(n - 1) /\ k - 1 \in 0..n /\ ~(k <= k - 1) /\ (k - 1) + 1 = k
  BY <1>2, Predecessor, Zenon
<1>4. k - 1 \in S
  BY <1>1, <1>3, Zenon
<1> QED
  BY <1>2, <1>3, <1>4

\* A set with n and the predecessor of each of its members up to n has 1..n.
LEMMA DownwardInduction ==
  ASSUME NEW n \in Nat, NEW S, n \in S, \A k \in 1..(n - 1) : k + 1 \in S => k \in S
  PROVE  1..n \subseteq S
<1> SUFFICES ASSUME NEW m \in 1..n PROVE m \in S
  OBVIOUS
<1> DEFINE Down == {k \in 0..(n - m) : n - k \in S}
<1>1. 0 \in Down
  OBVIOUS
<1>2. \A k \in 0..(n - m - 1) : k \in Down => k + 1 \in Down
  <2> SUFFICES ASSUME NEW k \in 0..(n - m - 1), k \in Down PROVE k + 1 \in Down
    OBVIOUS
  <2>1. n - (k + 1) \in 1..(n - 1) /\ (n - (k + 1)) + 1 = n - k
    OBVIOUS
  <2>2. n - (k + 1) \in S
    BY <2>1
  <2> QED
    BY <2>2
<1>3. n - m \in Nat
  OBVIOUS
<1> HIDE DEF Down
<1>4. n - m \in Down
  BY <1>1, <1>2, <1>3, Induction
<1> QED
  BY <1>4 DEF Down

\* Induction from all that is smaller, and from all that is larger.
LEMMA StrongInduction ==
  ASSUME NEW n \in Nat, NEW S, \A k \in 0..n : (\A j \in 0..(k - 1) : j \in S) => k \in S
  PROVE  0..n \subseteq S
<1> SUFFICES ASSUME ~(0..n \subseteq S) PROVE FALSE
  OBVIOUS
<1> DEFINE Out == {k \in 0..n : k \notin S}
<1>1. Out \subseteq Nat /\ Out # {}
  OBVIOUS
<1>2. \A k \in 0..n : \A j \in 0..(k - 1) : j \in 0..n /\ ~(k <= j)
  OBVIOUS
<1> HIDE DEF Out
<1>3. PICK k \in Out : \A m \in Out : k <= m
  BY <1>1, Least, Zenon
<1>4. k \in 0..n /\ k \notin S
  BY Zenon DEF Out
<1>5. ASSUME NEW j \in 0..(k - 1) PROVE j \in S
  BY <1>2, <1>3, <1>4, Zenon DEF Out
<1> QED
  BY <1>4, <1>5, Zenon

LEMMA StrongDownwardInduction ==
  ASSUME NEW n \in Nat, NEW S, \A k \in 0..n : (\A j \in (k + 1)..n : j \in S) => k \in S
  PROVE  0..n \subseteq S
<1> DEFINE M == {k \in 0..n : n - k \in S}
<1>1. ASSUME NEW k \in 0..n, \A j \in 0..(k - 1) : j \in M PROVE k \in M
  <2>1. n - k \in 0..n
    OBVIOUS
  <2>2. ASSUME NEW j \in ((n - k) + 1)..n PROVE j \in S
    <3>1. n - j \in 0..(k - 1) /\ n - (n - j) = j
      OBVIOUS
    <3> QED
      BY <1>1, <3>1, Zenon
  <2>3. n - k \in S
    BY <2>1, <2>2, Zenon
  <2> QED
    BY <2>3, Zenon
<1> HIDE DEF M
<1>2. 0..n \subseteq M
  BY <1>1, StrongInduction, Zenon
<1>3. ASSUME NEW k \in 0..n PROVE k \in S
  <2>1. n - k \in 0..n /\ n - (n - k) = k
    OBVIOUS
  <2>2. n - k \in M
    BY <1>2, <2>1, Zenon
  <2> QED
    BY <2>1, <2>2, Zenon DEF M
<1> QED
  BY <1>3, Zenon

\* The recursion equation.
Solves(f, D, Stop, base, next, g) ==
  \A c \in D : f[c] = IF c \in Stop THEN base[c] ELSE g[<<c, f[next[c]]>>]

\* A recursion over D that stops or goes on to a smaller rank.
Descends(D, Stop, next, rank) ==
  \A c \in D : c \notin Stop => next[c] \in D /\ rank[next[c]] < rank[c]

\* Such a recursion equation has a solution.
LEMMA RankedRecursion ==
  ASSUME NEW n \in Nat, NEW D, NEW T, NEW Stop, NEW next, NEW rank \in [D -> 0..n],
         NEW base \in [D -> T], NEW g \in [D \X T -> T], Descends(D, Stop, next, rank)
  PROVE  \E f \in [D -> T] : Solves(f, D, Stop, base, next, g)
<1> DEFINE Eq(f, c) == f[c] = IF c \in Stop THEN base[c] ELSE g[<<c, f[next[c]]>>]
           S == {k \in 0..(n + 1) : \E f \in [D -> T] : \A c \in D : rank[c] < k => Eq(f, c)}
<1>0. n + 1 \in Nat /\ \A c \in D : rank[c] \in Nat /\ rank[c] < n + 1 /\ ~(rank[c] < 0)
  OBVIOUS
<1>1. 0 \in S
  <2>1. \A c \in D : rank[c] < 0 => Eq(base, c)
    BY <1>0, Zenon
  <2>2. 0 \in 0..(n + 1)
    OBVIOUS
  <2> QED
    BY <2>1, <2>2, Zenon
<1>2. ASSUME NEW k \in 0..((n + 1) - 1), k \in S PROVE k + 1 \in S
  <2>1. PICK f \in [D -> T] : \A c \in D : rank[c] < k => Eq(f, c)
    BY <1>2, Zenon
  <2> DEFINE v(c) == IF c \in Stop THEN base[c] ELSE g[<<c, f[next[c]]>>]
             h == [c \in D |-> IF rank[c] = k THEN v(c) ELSE f[c]]
  <2>2. ASSUME NEW c \in D PROVE v(c) \in T
    <3>1. CASE c \in Stop
      BY <3>1, Zenon
    <3>2. CASE c \notin Stop
      <4>1. next[c] \in D
        BY <3>2, Zenon DEF Descends
      <4>2. <<c, f[next[c]]>> \in D \X T
        BY <4>1, Zenon
      <4> QED
        BY <3>2, <4>2, Zenon
    <3> QED
      BY <3>1, <3>2, Zenon
  <2>3. h \in [D -> T]
    <3> HIDE DEF v
    <3> QED
      BY <2>2, Zenon
  <2>4. ASSUME NEW c \in D, rank[c] < k + 1 PROVE Eq(h, c)
    <3>1. \A a, b \in Nat : (a < k + 1 => a = k \/ a < k) /\ (a < b /\ b < k + 1 => a # k)
      OBVIOUS
    <3>2. c \notin Stop => h[next[c]] = f[next[c]]
      BY <1>0, <2>4, <3>1, Zenon DEF Descends
    <3>3. CASE rank[c] = k
      BY <3>2, <3>3, Zenon
    <3>4. CASE rank[c] # k
      <4>1. rank[c] < k
        BY <1>0, <2>4, <3>1, <3>4, Zenon
      <4> QED
        BY <2>1, <3>2, <3>4, <4>1, Zenon
    <3> QED
      BY <3>3, <3>4, Zenon
  <2>5. k + 1 \in 0..(n + 1)
    OBVIOUS
  <2> HIDE DEF h, Eq
  <2> QED
    BY <2>3, <2>4, <2>5, Zenon
<1>3. n + 1 \in S
  <2> HIDE DEF S
  <2> QED
    BY <1>0, <1>1, <1>2, Induction, Zenon
<1>4. PICK f \in [D -> T] : \A c \in D : rank[c] < n + 1 => Eq(f, c)
  BY <1>3, Zenon
<1> QED
  BY <1>0, <1>4, Zenon DEF Solves

\* A recursion over D stops, or goes on to a larger number.
Advances(n, D, Stop, next) ==
  \A c \in D : c \notin Stop =>
    c \in 1..n /\ next[c] \in D /\ (next[c] \notin Stop => c < next[c])

LEMMA Recursion ==
  ASSUME NEW n \in Nat, NEW D, NEW T, NEW Stop, NEW next, NEW base, NEW g,
         Advances(n, D, Stop, next), base \in [D -> T], g \in [D \X T -> T]
  PROVE  \E f \in [D -> T] : Solves(f, D, Stop, base, next, g)
<1> DEFINE rank == [c \in D |-> IF c \in Stop THEN 0 ELSE (n + 1) - c]
<1>1. \A c \in 1..n : (n + 1) - c \in 0..n /\ 0 < (n + 1) - c
  OBVIOUS
<1>2. 0 \in 0..n /\ \A c, d \in 1..n : c < d => (n + 1) - d < (n + 1) - c
  OBVIOUS
<1>3. rank \in [D -> 0..n]
  BY <1>1, <1>2, Zenon DEF Advances
<1>4. Descends(D, Stop, next, rank)
  BY <1>1, <1>2, Zenon DEF Advances, Descends
<1> HIDE DEF rank
<1> QED
  BY <1>3, <1>4, RankedRecursion, Zenon

\* A recursion equation along the numbers up to n, and that it has a solution.
Iterates(h, n, base, g) == h[0] = base /\ \A i \in 1..n : h[i] = g[<<i, h[i - 1]>>]

LEMMA Iteration ==
  ASSUME NEW n \in Nat, NEW T, NEW base \in T, NEW g \in [(1..n) \X T -> T]
  PROVE  \E h \in [0..n -> T] : Iterates(h, n, base, g)
<1> DEFINE S == {k \in 0..n : \E h \in [0..n -> T] : Iterates(h, k, base, g)}
<1>1. 0 \in S
  <2>1. Iterates([i \in 0..n |-> base], 0, base, g)
    BY DEF Iterates
  <2>2. [i \in 0..n |-> base] \in [0..n -> T] /\ 0 \in 0..n
    OBVIOUS
  <2> QED
    BY <2>1, <2>2, Zenon
<1>2. ASSUME NEW k \in 0..(n - 1), k \in S PROVE k + 1 \in S
  <2>1. PICK h \in [0..n -> T] : Iterates(h, k, base, g)
    BY <1>2, Zenon
  <2> DEFINE v == g[<<k + 1, h[k]>>]
             e == [h EXCEPT ![k + 1] = v]
  <2>2. k + 1 \in 1..n /\ k + 1 \in 0..n /\ k \in 0..n /\ k + 1 # 0
    OBVIOUS
  <2>3. v \in T
    <3>1. <<k + 1, h[k]>> \in (1..n) \X T
      BY <2>2
    <3> QED
      BY <3>1, Zenon
  <2>4. e \in [0..n -> T]
    BY <2>3, Zenon
  <2>5. \A i \in 0..n : e[i] = IF i = k + 1 THEN v ELSE h[i]
    BY Zenon
  <2>6. ASSUME NEW i \in 1..(k + 1) PROVE e[i] = g[<<i, e[i - 1]>>]
    <3>1. i \in 0..n /\ i - 1 \in 0..n /\ i - 1 # k + 1 /\ (i = k + 1 => i - 1 = k) /\ (i # k + 1 => i \in 1..k)
      BY <2>2
    <3> HIDE DEF e
    <3>2. e[i - 1] = h[i - 1]
      BY <2>5, <3>1, Zenon
    <3>3. CASE i = k + 1
      BY <2>5, <3>1, <3>2, <3>3, Zenon
    <3>4. CASE i # k + 1
      BY <2>1, <2>5, <3>1, <3>2, <3>4, Zenon DEF Iterates
    <3> QED
      BY <3>3, <3>4
  <2>7. e[0] = base
    <3>1. 0 \in 0..n
      OBVIOUS
    <3> HIDE DEF e
    <3> QED
      BY <2>1, <2>2, <2>5, <3>1, Zenon DEF Iterates
  <2> HIDE DEF e
  <2> QED
    BY <2>2, <2>4, <2>6, <2>7, Zenon DEF Iterates
<1> HIDE DEF S
<1>3. n \in S
  BY <1>1, <1>2, Induction
<1> QED
  BY <1>3, Zenon DEF S

\* A sequence with one element more.
LEMMA Appended ==
  ASSUME NEW S, NEW s \in Seq(S), NEW x \in S
  PROVE  /\ Append(s, x) \in Seq(S) /\ Len(Append(s, x)) = Len(s) + 1
         /\ Len(s) \in Nat /\ Len(s) + 1 \in 1..(Len(s) + 1)
         /\ Append(s, x)[Len(s) + 1] = x
         /\ \A i \in 1..Len(s) : i \in 1..(Len(s) + 1) /\ Append(s, x)[i] = s[i]
OBVIOUS

\* A set with the empty sequence that Append does not leave has every sequence.
LEMMA SequenceInduction ==
  ASSUME NEW S, NEW P, <<>> \in P,
         \A s \in Seq(S) : s \in P => \A x \in S : Append(s, x) \in P
  PROVE  Seq(S) \subseteq P
<1> SUFFICES ASSUME NEW t \in Seq(S) PROVE t \in P
  OBVIOUS
<1> DEFINE n == Len(t)
           N == {k \in 0..n : \A s \in Seq(S) : Len(s) = k => s \in P}
<1>0. n \in Nat /\ n \in 0..n
  OBVIOUS
<1>1. 0 \in N
  <2>1. \A s \in Seq(S) : Len(s) = 0 => s = <<>>
    OBVIOUS
  <2> QED
    BY <1>0, <2>1
<1>2. ASSUME NEW k \in 0..(n - 1), k \in N PROVE k + 1 \in N
  <2>1. k + 1 \in 0..n /\ k \in Nat
    BY <1>0
  <2>2. ASSUME NEW s \in Seq(S), Len(s) = k + 1 PROVE s \in P
    <3> DEFINE f == [i \in 1..k |-> s[i]]
    <3>1. f \in Seq(S) /\ Len(f) = k /\ s[k + 1] \in S /\ s = Append(f, s[k + 1])
      BY <2>1, <2>2
    <3> HIDE DEF f
    <3>2. f \in P
      BY <1>2, <3>1, Zenon
    <3>3. Append(f, s[k + 1]) \in P
      BY <3>1, <3>2, Zenon
    <3> QED
      BY <3>1, <3>3, Zenon
  <2> QED
    BY <2>1, <2>2, Zenon
<1>3. n \in N
  <2> HIDE DEF n, N
  <2> QED
    BY <1>0, <1>1, <1>2, Induction, Zenon
<1> QED
  BY <1>3, Zenon
=============================================================================
