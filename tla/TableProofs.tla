---------------------------- MODULE TableProofs ----------------------------
(***************************************************************************)
(* The LRU cache and the hash tables, for every set of keys and every      *)
(* size.  A cache keeps the keys that were used last (CacheKeepsRecent).   *)
(* A table finds what was last set, counts its keys and iterates over each *)
(* of them once, however often it grew (HashTablesExact): an entry is in   *)
(* the chain that the hash value of its key leads to, and growing moves it *)
(* to the chain that it leads to among more buckets.                       *)
(***************************************************************************)
EXTENDS LruCache, HashTable, InductionLemmas, FiniteSetTheorems, TLAPS

(***************************************************************************)
(* What remove leaves of a list.                                           *)
(***************************************************************************)
KeepKey(q, x, K) == IF x \in K THEN q ELSE Append(q, x)

\* The recursion of KeysOutside.
KeepsUpto(h, s, K) ==
  /\ h[0] = <<>>
  /\ \A i \in 0..(Len(s) - 1) : h[i + 1] = KeepKey(h[i], s[i + 1], K)

\* What that recursion computes.
LEMMA OutsideSteps ==
  ASSUME NEW S, NEW s \in Seq(S), NEW K
  PROVE  \E h : KeepsUpto(h, s, K) /\ KeysOutside(s, K) = h[Len(s)]
<1> DEFINE n == Len(s)
           T == Seq(S)
           g == [x \in (1..n) \X T |-> KeepKey(x[2], s[x[1]], K)]
           Eq(h) == h = [i \in 0..n |-> IF i = 0 THEN <<>>
                                        ELSE IF s[i] \in K THEN h[i - 1] ELSE Append(h[i - 1], s[i])]
<1>1. n \in Nat /\ <<>> \in T /\ \A i \in 1..n : s[i] \in S
  OBVIOUS
<1>2. g \in [(1..n) \X T -> T]
  <2> SUFFICES ASSUME NEW i \in 1..n, NEW q \in T PROVE KeepKey(q, s[i], K) \in T
    OBVIOUS
  <2> QED
    BY <1>1, Appended, Zenon DEF KeepKey
<1>3. \A i \in 1..n, q \in T : g[<<i, q>>] = KeepKey(q, s[i], K)
  OBVIOUS
<1> HIDE DEF n, T, g
<1>4. PICK h \in [0..n -> T] : Iterates(h, n, <<>>, g)
  BY <1>1, <1>2, Iteration, Zenon
<1>5. \A i \in 0..n : i # 0 => i \in 1..n /\ i - 1 \in 0..n
  BY <1>1
<1>6. ASSUME NEW i \in 0..n
      PROVE  h[i] = IF i = 0 THEN <<>> ELSE IF s[i] \in K THEN h[i - 1] ELSE Append(h[i - 1], s[i])
  BY <1>3, <1>4, <1>5, Zenon DEF Iterates, KeepKey
<1>7. Eq(h)
  BY <1>4, <1>6, Zenon
<1> DEFINE kept == CHOOSE h0 : Eq(h0)
<1>8. Eq(kept)
  BY <1>7, Zenon
<1>9. KeysOutside(s, K) = kept[n]
  BY Zenon DEF KeysOutside, n
<1> HIDE DEF kept
<1>10. kept[0] = <<>>
  BY <1>1, <1>8
<1>11. ASSUME NEW i \in 0..(n - 1) PROVE kept[i + 1] = KeepKey(kept[i], s[i + 1], K)
  <2>1. i + 1 \in 0..n /\ i + 1 # 0 /\ (i + 1) - 1 = i
    BY <1>1
  <2> QED
    BY <1>8, <2>1, Zenon DEF KeepKey
<1> QED
  BY <1>9, <1>10, <1>11, Zenon DEF KeepsUpto, n

\* remove of an empty list.
LEMMA OutsideEmpty ==
  ASSUME NEW K
  PROVE  KeysOutside(<<>>, K) = <<>>
<1>1. <<>> \in Seq({}) /\ Len(<<>>) = 0
  OBVIOUS
<1> QED
  BY <1>1, OutsideSteps, Zenon DEF KeepsUpto

\* remove of a list with one more key.
LEMMA OutsideAppend ==
  ASSUME NEW S, NEW s \in Seq(S), NEW x \in S, NEW K
  PROVE  KeysOutside(Append(s, x), K) = KeepKey(KeysOutside(s, K), x, K)
<1> DEFINE n == Len(s)
           t == Append(s, x)
<1>1. /\ n \in Nat /\ t \in Seq(S) /\ Len(t) = n + 1 /\ t[n + 1] = x
      /\ \A i \in 1..n : t[i] = s[i]
  OBVIOUS
<1>2. PICK h : KeepsUpto(h, s, K) /\ KeysOutside(s, K) = h[n]
  BY OutsideSteps, Zenon
<1>3. PICK f : KeepsUpto(f, t, K) /\ KeysOutside(t, K) = f[n + 1]
  BY <1>1, OutsideSteps, Zenon
<1> DEFINE N == {k \in 0..n : f[k] = h[k]}
<1>4. 0 \in N
  BY <1>1, <1>2, <1>3 DEF KeepsUpto
<1>5. ASSUME NEW k \in 0..(n - 1), k \in N PROVE k + 1 \in N
  <2>1. k + 1 \in 0..n /\ k + 1 \in 1..n /\ k \in 0..((n + 1) - 1)
    BY <1>1
  <2>2. f[k + 1] = KeepKey(f[k], s[k + 1], K)
    BY <1>1, <1>3, <2>1, Zenon DEF KeepsUpto
  <2> QED
    BY <1>2, <1>5, <2>1, <2>2, Zenon DEF KeepsUpto
<1>6. n \in N
  <2> HIDE DEF N, n, t
  <2> QED
    BY <1>1, <1>4, <1>5, Induction, Zenon
<1>7. n \in 0..((n + 1) - 1)
  BY <1>1
<1>8. f[n + 1] = KeepKey(f[n], x, K)
  BY <1>1, <1>3, <1>7, Zenon DEF KeepsUpto
<1> QED
  BY <1>2, <1>3, <1>6, <1>8, Zenon

\* The keys of a list with one more key.
LEMMA AppendRange ==
  ASSUME NEW S, NEW s \in Seq(S), NEW x \in S
  PROVE  Range(Append(s, x)) = Range(s) \cup {x}
<1> DEFINE t == Append(s, x)
<1>1. /\ DOMAIN t = 1..Len(s) \cup {Len(s) + 1} /\ DOMAIN s = 1..Len(s)
      /\ t[Len(s) + 1] = x
  OBVIOUS
<1>2. \A i \in 1..Len(s) : t[i] = s[i]
  OBVIOUS
<1> HIDE DEF t
<1>3. ASSUME NEW y PROVE y \in Range(t) <=> y \in Range(s) \cup {x}
  BY <1>1, <1>2, Zenon DEF Range
<1> QED
  BY <1>3, Zenon DEF t

\* An empty list has no key.
LEMMA EmptyRange == Range(<<>>) = {} /\ \A S : <<>> \in Seq(S)
BY DEF Range

\* remove leaves the keys that it should not remove.
LEMMA OutsideRange ==
  ASSUME NEW S, NEW s \in Seq(S), NEW K
  PROVE  KeysOutside(s, K) \in Seq(S) /\ Range(KeysOutside(s, K)) = Range(s) \ K
<1> DEFINE P == {r \in Seq(S) : /\ KeysOutside(r, K) \in Seq(S)
                                /\ Range(KeysOutside(r, K)) = Range(r) \ K}
<1>1. <<>> \in P
  BY OutsideEmpty, EmptyRange, Zenon
<1>2. ASSUME NEW r \in Seq(S), r \in P, NEW x \in S PROVE Append(r, x) \in P
  <2> DEFINE q == KeysOutside(r, K)
  <2>1. q \in Seq(S) /\ Range(q) = Range(r) \ K
    BY <1>2, Zenon
  <2>2. KeysOutside(Append(r, x), K) = KeepKey(q, x, K)
    BY OutsideAppend, Zenon
  <2> HIDE DEF q
  <2>3. Append(r, x) \in Seq(S) /\ Range(Append(r, x)) = Range(r) \cup {x}
    BY AppendRange
  <2>4. Append(q, x) \in Seq(S) /\ Range(Append(q, x)) = Range(q) \cup {x}
    BY <2>1, AppendRange
  <2>5. KeepKey(q, x, K) \in Seq(S) /\ Range(KeepKey(q, x, K)) = (Range(r) \cup {x}) \ K
    <3>1. CASE x \in K
      BY <2>1, <3>1, Zenon DEF KeepKey
    <3>2. CASE x \notin K
      BY <2>1, <2>4, <3>2, Zenon DEF KeepKey
    <3> QED
      BY <3>1, <3>2
  <2> QED
    BY <2>2, <2>3, <2>5, Zenon
<1>3. Seq(S) \subseteq P
  <2> HIDE DEF P
  <2> QED
    BY <1>1, <1>2, SequenceInduction, Zenon
<1> QED
  BY <1>3, Zenon

\* No key is twice in a list.
Once(s) == \A i, j \in 1..Len(s) : s[i] = s[j] => i = j

\* A key that is not in the list can be added.
LEMMA OnceAppend ==
  ASSUME NEW S, NEW s \in Seq(S), NEW x \in S
  PROVE  Once(Append(s, x)) <=> Once(s) /\ x \notin Range(s)
<1>1. Range(s) = {s[i] : i \in 1..Len(s)} /\ Len(s) \in Nat
  BY DEF Range
<1>2. ASSUME Once(Append(s, x)) PROVE Once(s) /\ x \notin Range(s)
  BY <1>1, <1>2, Appended DEF Once
<1>3. ASSUME Once(s), x \notin Range(s) PROVE Once(Append(s, x))
  BY <1>1, <1>3, Appended DEF Once
<1> QED
  BY <1>2, <1>3, Zenon

\* remove leaves no key twice.
LEMMA OutsideOnce ==
  ASSUME NEW S, NEW s \in Seq(S), NEW K, Once(s)
  PROVE  Once(KeysOutside(s, K))
<1> DEFINE P == {r \in Seq(S) : Once(r) => Once(KeysOutside(r, K))}
<1>1. <<>> \in P
  BY OutsideEmpty, EmptyRange, Zenon
<1>2. ASSUME NEW r \in Seq(S), r \in P, NEW x \in S PROVE Append(r, x) \in P
  <2> DEFINE q == KeysOutside(r, K)
  <2>1. q \in Seq(S) /\ Range(q) = Range(r) \ K
    BY OutsideRange, Zenon
  <2>2. KeysOutside(Append(r, x), K) = KeepKey(q, x, K)
    BY OutsideAppend, Zenon
  <2>3. Once(r) => Once(q)
    BY <1>2, Zenon
  <2> HIDE DEF q
  <2>4. Append(r, x) \in Seq(S)
    BY Appended, Zenon
  <2>5. Once(Append(r, x)) => Once(r) /\ x \notin Range(r)
    BY OnceAppend, Zenon
  <2>6. Once(q) /\ x \notin Range(q) => Once(Append(q, x))
    BY <2>1, OnceAppend, Zenon
  <2>7. Once(Append(r, x)) => Once(KeepKey(q, x, K))
    BY <2>1, <2>3, <2>5, <2>6, Zenon DEF KeepKey
  <2> QED
    BY <2>2, <2>4, <2>7, Zenon
<1>3. Seq(S) \subseteq P
  <2> HIDE DEF P
  <2> QED
    BY <1>1, <1>2, SequenceInduction, Zenon
<1> QED
  BY <1>3, Zenon

\* Adding a key to two lists.
LEMMA Concatenated ==
  ASSUME NEW S, NEW p \in Seq(S), NEW q \in Seq(S), NEW x \in S
  PROVE  /\ p \o q \in Seq(S) /\ p \o <<>> = p
         /\ p \o Append(q, x) = Append(p \o q, x)
<1>1. p \o q \in Seq(S) /\ p \o <<>> = p
  OBVIOUS
<1>2. p \o Append(q, x) = Append(p \o q, x)
  OBVIOUS
<1> QED
  BY <1>1, <1>2

\* remove of two lists.
LEMMA OutsideConcat ==
  ASSUME NEW S, NEW p \in Seq(S), NEW q \in Seq(S), NEW K
  PROVE  KeysOutside(p \o q, K) = KeysOutside(p, K) \o KeysOutside(q, K)
<1> DEFINE f == KeysOutside(p, K)
           P == {r \in Seq(S) : KeysOutside(p \o r, K) = f \o KeysOutside(r, K)}
<1>0. f \in Seq(S)
  BY OutsideRange, Zenon
<1>1. <<>> \in P
  <2>1. p \o <<>> = p /\ f \o <<>> = f
    BY <1>0
  <2> QED
    BY <2>1, OutsideEmpty, EmptyRange, Zenon
<1>2. ASSUME NEW r \in Seq(S), r \in P, NEW x \in S PROVE Append(r, x) \in P
  <2> DEFINE g == KeysOutside(r, K)
  <2>1. g \in Seq(S)
    BY OutsideRange, Zenon
  <2>2. KeysOutside(p \o r, K) = f \o g
    BY <1>2, Zenon
  <2> HIDE DEF f
  <2>3. p \o r \in Seq(S) /\ p \o Append(r, x) = Append(p \o r, x)
    BY Concatenated
  <2>4. KeysOutside(Append(p \o r, x), K) = KeepKey(f \o g, x, K)
    BY <2>2, <2>3, OutsideAppend, Zenon
  <2>5. KeysOutside(Append(r, x), K) = KeepKey(g, x, K)
    BY OutsideAppend, Zenon
  <2> HIDE DEF g
  <2>6. f \o Append(g, x) = Append(f \o g, x)
    BY <1>0, <2>1
  <2>7. KeepKey(f \o g, x, K) = f \o KeepKey(g, x, K)
    BY <2>6, Zenon DEF KeepKey
  <2>8. Append(r, x) \in Seq(S)
    BY Appended, Zenon
  <2> QED
    BY <2>3, <2>4, <2>5, <2>7, <2>8, Zenon
<1>3. Seq(S) \subseteq P
  <2> HIDE DEF P
  <2> QED
    BY <1>1, <1>2, SequenceInduction, Zenon
<1> QED
  BY <1>3, Zenon

\* The keys of a list without its first.
LEMMA HeadTail ==
  ASSUME NEW S, NEW q \in Seq(S), q # <<>>
  PROVE  /\ Head(q) \in S /\ Tail(q) \in Seq(S) /\ q = <<Head(q)>> \o Tail(q)
         /\ Range(q) = {Head(q)} \cup Range(Tail(q))
         /\ Once(q) => Head(q) \notin Range(Tail(q))
<1> DEFINE r == Tail(q)
           n == Len(q)
<1>1. Head(q) = q[1] /\ Head(q) \in S /\ r \in Seq(S) /\ Len(r) = n - 1 /\ n \in Nat /\ n > 0
  OBVIOUS
<1>2. \A i \in 1..(n - 1) : r[i] = q[i + 1]
  OBVIOUS
<1>3. q = <<Head(q)>> \o r
  OBVIOUS
<1>4. DOMAIN q = 1..n /\ DOMAIN r = 1..(n - 1)
  BY <1>1
<1> HIDE DEF r, n
<1>5. ASSUME NEW y PROVE y \in Range(q) <=> y \in {q[1]} \cup Range(r)
  <2>1. ASSUME y \in Range(q) PROVE y \in {q[1]} \cup Range(r)
    <3>1. PICK i \in 1..n : y = q[i]
      BY <1>4, <2>1, Zenon DEF Range
    <3>2. i = 1 \/ (i - 1 \in 1..(n - 1) /\ (i - 1) + 1 = i)
      BY <1>1
    <3> QED
      BY <1>2, <1>4, <3>1, <3>2, Zenon DEF Range
  <2>2. ASSUME y \in {q[1]} \cup Range(r) PROVE y \in Range(q)
    <3>1. \A i \in 1..(n - 1) : i + 1 \in 1..n
      BY <1>1
    <3>2. 1 \in 1..n
      BY <1>1
    <3> QED
      BY <1>2, <1>4, <2>2, <3>1, <3>2, Zenon DEF Range
  <2> QED
    BY <2>1, <2>2
<1>6. ASSUME Once(q), Head(q) \in Range(r) PROVE FALSE
  <2>1. PICK i \in 1..(n - 1) : q[1] = r[i]
    BY <1>1, <1>4, <1>6, Zenon DEF Range
  <2>2. i + 1 \in 1..n /\ 1 \in 1..n /\ i + 1 # 1
    BY <1>1
  <2> QED
    BY <1>2, <1>6, <2>1, <2>2, Zenon DEF Once, n
<1> QED
  BY <1>1, <1>3, <1>5, <1>6, Zenon DEF r

(***************************************************************************)
(* The cache.                                                              *)
(***************************************************************************)
\* The list is the end of the history.
Ends(q, u) == \E p \in Seq(CacheKeys) : u = p \o q

\* What holds of every cache.
CacheTypes ==
  /\ queue \in Seq(CacheKeys) /\ used \in Seq(CacheKeys) /\ staleKey \in BOOLEAN
  /\ storage \subseteq Range(queue) /\ IsFiniteSet(storage)
  /\ Once(used)

\* The inductive invariant: the list of the cache has its keys, and is the end of the
\* history of the keys in use.
CacheInv ==
  /\ CacheTypes
  /\ ~staleKey => /\ Cardinality(storage) <= MaxSize
                  /\ Range(queue) = storage
                  /\ Ends(queue, used)

\* The end of a history without repeats has none.
LEMMA EndsOnce ==
  ASSUME NEW q \in Seq(CacheKeys), NEW u, Ends(q, u), Once(u)
  PROVE  Once(q)
<1>1. PICK p \in Seq(CacheKeys) : u = p \o q
  BY Zenon DEF Ends
<1>2. \A i \in 1..Len(q) : Len(p) + i \in 1..Len(u) /\ u[Len(p) + i] = q[i]
  BY <1>1
<1>3. \A i, j \in 1..Len(q) : Len(p) + i = Len(p) + j => i = j
  BY <1>1
<1> QED
  BY <1>2, <1>3, Zenon DEF Once

\* A key is removed from the list and from the history.
LEMMA EndsOutside ==
  ASSUME NEW q \in Seq(CacheKeys), NEW u, Ends(q, u), NEW K
  PROVE  Ends(KeysOutside(q, K), KeysOutside(u, K))
<1>1. PICK p \in Seq(CacheKeys) : u = p \o q
  BY Zenon DEF Ends
<1>2. KeysOutside(p, K) \in Seq(CacheKeys)
  BY OutsideRange, Zenon
<1>3. KeysOutside(p \o q, K) = KeysOutside(p, K) \o KeysOutside(q, K)
  BY OutsideConcat
<1> QED
  BY <1>1, <1>2, <1>3, Zenon DEF Ends

\* A key is used.
LEMMA EndsAppend ==
  ASSUME NEW q \in Seq(CacheKeys), NEW u, Ends(q, u), NEW k \in CacheKeys
  PROVE  Ends(Append(q, k), Append(u, k))
<1>1. PICK p \in Seq(CacheKeys) : u = p \o q
  BY Zenon DEF Ends
<1>2. p \o Append(q, k) = Append(p \o q, k)
  BY Concatenated
<1> QED
  BY <1>1, <1>2, Zenon DEF Ends

\* The key that was not used for the longest time is dropped.
LEMMA EndsTail ==
  ASSUME NEW q \in Seq(CacheKeys), NEW u, Ends(q, u), q # <<>>
  PROVE  Ends(Tail(q), u)
<1>1. PICK p \in Seq(CacheKeys) : u = p \o q
  BY Zenon DEF Ends
<1>2. Head(q) \in CacheKeys /\ Tail(q) \in Seq(CacheKeys) /\ q = <<Head(q)>> \o Tail(q)
  BY HeadTail, Zenon
<1>3. Append(p, Head(q)) \in Seq(CacheKeys) /\ p \o (<<Head(q)>> \o Tail(q)) = Append(p, Head(q)) \o Tail(q)
  BY <1>2
<1> QED
  BY <1>1, <1>2, <1>3, Zenon DEF Ends

\* What re-order makes of a list.
LEMMA Reordered ==
  ASSUME NEW q \in Seq(CacheKeys), NEW k \in CacheKeys
  PROVE  /\ re_order(q, k) \in Seq(CacheKeys)
         /\ Range(re_order(q, k)) = Range(q) \cup {k}
         /\ Once(q) => Once(re_order(q, k))
         /\ \A u \in Seq(CacheKeys) : Ends(q, u) => Ends(re_order(q, k), re_order(u, k))
<1> DEFINE r == KeysOutside(q, {k})
<1>1. r \in Seq(CacheKeys) /\ Range(r) = Range(q) \ {k}
  BY OutsideRange, Zenon
<1>2. Once(q) => Once(r)
  BY OutsideOnce, Zenon
<1>3. re_order(q, k) = Append(r, k)
  BY Zenon DEF re_order
<1>4. ASSUME NEW u \in Seq(CacheKeys), Ends(q, u) PROVE Ends(re_order(q, k), re_order(u, k))
  <2>1. Ends(r, KeysOutside(u, {k}))
    BY <1>4, EndsOutside, Zenon
  <2> QED
    BY <1>1, <2>1, EndsAppend, Zenon DEF re_order
<1> HIDE DEF r
<1>5. Append(r, k) \in Seq(CacheKeys) /\ Range(Append(r, k)) = Range(r) \cup {k}
  BY <1>1, AppendRange
<1>6. Once(r) => Once(Append(r, k))
  BY <1>1, OnceAppend, Zenon
<1>7. Range(r) \cup {k} = Range(q) \cup {k}
  BY <1>1, Zenon
<1> QED
  BY <1>2, <1>3, <1>4, <1>5, <1>6, <1>7, Zenon

\* What remove! leaves of the list.
LEMMA RemovedInPlace ==
  ASSUME NEW q \in Seq(CacheKeys), NEW K
  PROVE  InPlace(q, K) \in Seq(CacheKeys) /\ Range(q) \ K \subseteq Range(InPlace(q, K))
<1>1. CASE q = <<>>
  BY <1>1, EmptyRange, Zenon DEF InPlace
<1>2. CASE q # <<>>
  <2> DEFINE h == Head(q)
             r == KeysOutside(Tail(q), K)
             t == <<h>> \o r
  <2>1. h \in CacheKeys /\ Tail(q) \in Seq(CacheKeys) /\ Range(q) = {h} \cup Range(Tail(q))
    BY <1>2, HeadTail, Zenon
  <2>2. r \in Seq(CacheKeys) /\ Range(r) = Range(Tail(q)) \ K
    BY <2>1, OutsideRange, Zenon
  <2>3. InPlace(q, K) = t
    BY <1>2, Zenon DEF InPlace
  <2> HIDE DEF h, r
  <2>4. t \in Seq(CacheKeys) /\ t # <<>> /\ Head(t) = h /\ Tail(t) = r
    BY <2>1, <2>2
  <2> HIDE DEF t
  <2>5. Range(t) = {h} \cup Range(r)
    BY <2>4, HeadTail, Zenon
  <2> QED
    BY <2>1, <2>2, <2>3, <2>4, <2>5, Zenon
<1> QED
  BY <1>1, <1>2

\* A set that loses a member it had, and gains one, is no larger.
LEMMA Exchanged ==
  ASSUME NEW A, IsFiniteSet(A), NEW h \in A, NEW k
  PROVE  /\ IsFiniteSet((A \ {h}) \cup {k})
         /\ Cardinality((A \ {h}) \cup {k}) <= Cardinality(A)
<1> DEFINE B == A \ {h}
<1>1. IsFiniteSet(B) /\ Cardinality(B) = Cardinality(A) - 1 /\ Cardinality(A) \in Nat
  BY FS_RemoveElement, FS_CardinalityType
<1> HIDE DEF B
<1>2. /\ IsFiniteSet(B \cup {k})
      /\ Cardinality(B \cup {k}) = IF k \in B THEN Cardinality(B) ELSE Cardinality(B) + 1
  BY <1>1, FS_AddElement, Zenon
<1>3. Cardinality(B \cup {k}) <= Cardinality(A)
  BY <1>1, <1>2
<1> QED
  BY <1>2, <1>3, Zenon DEF B

\* cache-put! adds the key, and drops the first of the list when the cache is full.
LEMMA PutKeepsRecent ==
  ASSUME CacheInv, NEW k \in CacheKeys, cache_put(k)
  PROVE  CacheInv'
<1> DEFINE full == Cardinality(storage) + 1 > MaxSize
           left == IF full THEN storage \ {Head(queue)} ELSE storage
           rest == IF full THEN Tail(queue) ELSE queue
<1>1. /\ storage' = left \cup {k} /\ queue' = re_order(rest, k)
      /\ used' = re_order(used, k) /\ staleKey' = staleKey
  BY Zenon DEF cache_put
<1>2. /\ queue \in Seq(CacheKeys) /\ used \in Seq(CacheKeys) /\ staleKey \in BOOLEAN
      /\ storage \subseteq Range(queue) /\ IsFiniteSet(storage) /\ Once(used)
  BY Zenon DEF CacheInv, CacheTypes
<1>3. MaxSize \in Nat /\ MaxSize > 0 /\ Cardinality(storage) \in Nat
  BY <1>2, CacheAssumption, FS_CardinalityType
<1>4. full => queue # <<>>
  <2>1. full => Cardinality(storage) # 0
    BY <1>3
  <2>2. full => storage # {}
    BY <2>1, FS_EmptySet, Zenon
  <2> QED
    BY <1>2, <2>2, EmptyRange, Zenon
<1>5. rest \in Seq(CacheKeys) /\ left \subseteq Range(rest)
  <2>1. CASE full
    <3>1. Tail(queue) \in Seq(CacheKeys) /\ Range(queue) = {Head(queue)} \cup Range(Tail(queue))
      BY <1>2, <1>4, <2>1, HeadTail, Zenon
    <3> QED
      BY <1>2, <2>1, <3>1, Zenon
  <2>2. CASE ~full
    BY <1>2, <2>2, Zenon
  <2> QED
    BY <2>1, <2>2
<1>6. IsFiniteSet(left \cup {k})
  <2>1. IsFiniteSet(left)
    BY <1>2, FS_Subset, Zenon
  <2> QED
    BY <2>1, FS_AddElement, Zenon
<1>7. ASSUME ~staleKey
      PROVE  Cardinality(left \cup {k}) <= MaxSize /\ Range(rest) = left /\ Ends(rest, used)
  <2>1. Cardinality(storage) <= MaxSize /\ Range(queue) = storage /\ Ends(queue, used)
    BY <1>7, Zenon DEF CacheInv
  <2>2. CASE full
    <3>1. Head(queue) \in storage /\ Head(queue) \notin Range(Tail(queue))
          /\ Range(queue) = {Head(queue)} \cup Range(Tail(queue))
      BY <1>2, <1>4, <2>1, <2>2, EndsOnce, HeadTail, ZenonT(40)
    <3>2. Cardinality((storage \ {Head(queue)}) \cup {k}) <= Cardinality(storage)
      BY <1>2, <3>1, Exchanged, Zenon
    <3>3. Cardinality((storage \ {Head(queue)}) \cup {k}) \in Nat
      BY <1>6, <2>2, FS_CardinalityType, Zenon
    <3>4. Cardinality((storage \ {Head(queue)}) \cup {k}) <= MaxSize
      BY <1>3, <2>1, <3>2, <3>3
    <3>5. Range(Tail(queue)) = storage \ {Head(queue)}
      BY <2>1, <3>1, Zenon
    <3>6. Ends(Tail(queue), used)
      BY <1>2, <1>4, <2>1, <2>2, EndsTail, Zenon
    <3> QED
      BY <2>2, <3>4, <3>5, <3>6, Zenon
  <2>3. CASE ~full
    <3>1. Cardinality(storage \cup {k}) = IF k \in storage THEN Cardinality(storage) ELSE Cardinality(storage) + 1
      BY <1>2, FS_AddElement, Zenon
    <3>2. Cardinality(storage \cup {k}) <= MaxSize
      BY <1>3, <2>3, <3>1
    <3> QED
      BY <2>1, <2>3, <3>2, Zenon
  <2> QED
    BY <2>2, <2>3
<1> HIDE DEF left, rest
<1>8. /\ queue' \in Seq(CacheKeys) /\ Range(queue') = Range(rest) \cup {k}
      /\ Ends(rest, used) => Ends(queue', used')
  BY <1>1, <1>2, <1>5, Reordered, Zenon
<1>9. used' \in Seq(CacheKeys) /\ Once(used')
  BY <1>1, <1>2, Reordered, Zenon
<1>10. CacheTypes'
  BY <1>1, <1>2, <1>5, <1>6, <1>8, <1>9, Zenon DEF CacheTypes
<1> QED
  BY <1>1, <1>7, <1>8, <1>10, Zenon DEF CacheInv

\* cache-get moves the key to the end of the list.
LEMMA GetKeepsRecent ==
  ASSUME CacheInv, NEW k \in CacheKeys, cache_get(k)
  PROVE  CacheInv'
<1>1. /\ k \in storage /\ storage' = storage /\ queue' = re_order(queue, k)
      /\ used' = re_order(used, k) /\ staleKey' = staleKey
  BY Zenon DEF cache_get
<1>2. /\ queue \in Seq(CacheKeys) /\ used \in Seq(CacheKeys) /\ staleKey \in BOOLEAN
      /\ storage \subseteq Range(queue) /\ IsFiniteSet(storage) /\ Once(used)
  BY Zenon DEF CacheInv, CacheTypes
<1>3. /\ queue' \in Seq(CacheKeys) /\ Range(queue') = Range(queue) \cup {k}
      /\ Ends(queue, used) => Ends(queue', used')
  BY <1>1, <1>2, Reordered, Zenon
<1>4. used' \in Seq(CacheKeys) /\ Once(used')
  BY <1>1, <1>2, Reordered, Zenon
<1>5. Range(queue') = Range(queue)
  BY <1>1, <1>2, <1>3, Zenon
<1>6. CacheTypes'
  BY <1>1, <1>2, <1>3, <1>4, <1>5, Zenon DEF CacheTypes
<1> QED
  BY <1>1, <1>3, <1>5, <1>6, Zenon DEF CacheInv

\* cache-evict! removes the key from the storage and from the list.
LEMMA EvictKeepsRecent ==
  ASSUME CacheInv, NEW k \in CacheKeys, cache_evict(k)
  PROVE  CacheInv'
<1>1. /\ storage' = storage \ {k} /\ queue' = InPlace(queue, {k})
      /\ used' = KeysOutside(used, {k})
      /\ staleKey' = (staleKey \/ InPlace(queue, {k}) # KeysOutside(queue, {k}))
  BY Zenon DEF cache_evict
<1>2. /\ queue \in Seq(CacheKeys) /\ used \in Seq(CacheKeys) /\ staleKey \in BOOLEAN
      /\ storage \subseteq Range(queue) /\ IsFiniteSet(storage) /\ Once(used)
  BY Zenon DEF CacheInv, CacheTypes
<1>3. queue' \in Seq(CacheKeys) /\ Range(queue) \ {k} \subseteq Range(queue')
  BY <1>1, <1>2, RemovedInPlace, Zenon
<1>4. used' \in Seq(CacheKeys) /\ Once(used')
  BY <1>1, <1>2, OutsideRange, OutsideOnce, Zenon
<1>5. IsFiniteSet(storage')
  BY <1>1, <1>2, FS_Subset, Zenon
<1>6. CacheTypes'
  <2>1. storage' \subseteq Range(queue')
    BY <1>1, <1>2, <1>3, Zenon
  <2>2. staleKey' \in BOOLEAN
    BY <1>1, <1>2
  <2> QED
    BY <1>3, <1>4, <1>5, <2>1, <2>2, Zenon DEF CacheTypes
<1>7. ASSUME ~staleKey'
      PROVE  Cardinality(storage') <= MaxSize /\ Range(queue') = storage' /\ Ends(queue', used')
  <2>1. ~staleKey /\ queue' = KeysOutside(queue, {k})
    BY <1>1, <1>7, Zenon
  <2>2. Cardinality(storage) <= MaxSize /\ Range(queue) = storage /\ Ends(queue, used)
    BY <2>1, Zenon DEF CacheInv
  <2>3. Range(queue') = storage' /\ Ends(queue', used')
    <3>1. Range(KeysOutside(queue, {k})) = Range(queue) \ {k}
      BY <1>2, OutsideRange, Zenon
    <3>2. Ends(KeysOutside(queue, {k}), KeysOutside(used, {k}))
      BY <1>2, <2>2, EndsOutside, Zenon
    <3> QED
      BY <1>1, <2>1, <2>2, <3>1, <3>2, Zenon
  <2>4. Cardinality(storage') <= Cardinality(storage)
    BY <1>1, <1>2, FS_Subset, Zenon
  <2>5. Cardinality(storage') \in Nat /\ Cardinality(storage) \in Nat /\ MaxSize \in Nat
    BY <1>2, <1>5, FS_CardinalityType, CacheAssumption
  <2> QED
    BY <2>2, <2>3, <2>4, <2>5
<1> QED
  BY <1>6, <1>7, Zenon DEF CacheInv

\* cache-clear! removes every key.
LEMMA ClearKeepsRecent ==
  ASSUME CacheInv, cache_clear
  PROVE  CacheInv'
<1>1. /\ storage' = {} /\ queue' = InPlace(queue, storage)
      /\ used' = KeysOutside(used, storage)
      /\ staleKey' = (staleKey \/ storage # {})
  BY Zenon DEF cache_clear
<1>2. /\ queue \in Seq(CacheKeys) /\ used \in Seq(CacheKeys) /\ staleKey \in BOOLEAN
      /\ Once(used)
  BY Zenon DEF CacheInv, CacheTypes
<1>3. queue' \in Seq(CacheKeys)
  BY <1>1, <1>2, RemovedInPlace, Zenon
<1>4. used' \in Seq(CacheKeys) /\ Once(used')
  BY <1>1, <1>2, OutsideRange, OutsideOnce, Zenon
<1>5. IsFiniteSet({}) /\ Cardinality({}) = 0
  BY FS_EmptySet, Zenon
<1>6. CacheTypes'
  <2>1. staleKey' \in BOOLEAN
    BY <1>1, <1>2
  <2> QED
    BY <1>1, <1>3, <1>4, <1>5, <2>1, Zenon DEF CacheTypes
<1>7. ASSUME ~staleKey'
      PROVE  Cardinality(storage') <= MaxSize /\ Range(queue') = storage' /\ Ends(queue', used')
  <2>1. ~staleKey /\ storage = {}
    BY <1>1, <1>7, Zenon
  <2>2. Range(queue) = {}
    BY <2>1, Zenon DEF CacheInv
  <2>3. queue = <<>>
    <3>1. queue # <<>> => Range(queue) = {Head(queue)} \cup Range(Tail(queue))
      BY <1>2, HeadTail, Zenon
    <3> QED
      BY <2>2, <3>1, Zenon
  <2>4. queue' = <<>>
    BY <1>1, <2>3, Zenon DEF InPlace
  <2>5. used' = used' \o <<>>
    BY <1>4
  <2>6. 0 <= MaxSize
    BY CacheAssumption
  <2> QED
    BY <1>1, <1>4, <1>5, <2>4, <2>5, <2>6, EmptyRange, Zenon DEF Ends
<1> QED
  BY <1>6, <1>7, Zenon DEF CacheInv

\* The inductive invariant of the cache.
LEMMA CacheInvHolds == CacheSpec => []CacheInv
<1>1. CacheInit => CacheInv
  <2> SUFFICES ASSUME CacheInit PROVE CacheInv
    OBVIOUS
  <2>1. storage = {} /\ queue = <<>> /\ used = <<>> /\ ~staleKey /\ staleKey \in BOOLEAN
    BY Zenon DEF CacheInit
  <2>2. Once(<<>>) /\ <<>> \o <<>> = <<>> /\ 0 <= MaxSize
    BY CacheAssumption DEF Once
  <2>3. IsFiniteSet({}) /\ Cardinality({}) = 0
    BY FS_EmptySet, Zenon
  <2>4. Ends(<<>>, <<>>)
    BY <2>2, EmptyRange, Zenon DEF Ends
  <2>5. CacheTypes
    BY <2>1, <2>2, <2>3, EmptyRange, Zenon DEF CacheTypes
  <2> QED
    BY <2>1, <2>2, <2>3, <2>4, <2>5, EmptyRange, Zenon DEF CacheInv
<1>2. CacheInv /\ [CacheNext]_cacheVars => CacheInv'
  <2> SUFFICES ASSUME CacheInv, [CacheNext]_cacheVars PROVE CacheInv'
    OBVIOUS
  <2>1. CASE CacheNext
    BY <2>1, PutKeepsRecent, GetKeepsRecent, EvictKeepsRecent, ClearKeepsRecent, Zenon
      DEF CacheNext
  <2>2. CASE UNCHANGED cacheVars
    BY <2>2, Zenon DEF cacheVars, CacheInv, CacheTypes
  <2> QED
    BY <2>1, <2>2
<1> QED
  BY <1>1, <1>2, PTL DEF CacheSpec

\* Whatever was put, got, evicted and cleared, the cache has at most max-size keys, and
\* they are the ones used last, in the order of their last use (until cache-evict! or
\* cache-clear! leaves the first key in the list).
THEOREM CacheKeepsRecent == CacheSpec => []KeepsRecent
<1>1. CacheInv => KeepsRecent
  <2> SUFFICES ASSUME CacheInv PROVE KeepsRecent
    OBVIOUS
  <2>1. storage \subseteq Range(queue) /\ queue \in Seq(CacheKeys)
    BY Zenon DEF CacheInv, CacheTypes
  <2>2. ASSUME Ends(queue, used)
        PROVE  queue = SubSeq(used, Len(used) - Len(queue) + 1, Len(used))
    <3>1. PICK p \in Seq(CacheKeys) : used = p \o queue
      BY <2>2, Zenon DEF Ends
    <3> QED
      BY <2>1, <3>1
  <2> QED
    BY <2>1, <2>2, Zenon DEF CacheInv, KeepsRecent
<1> QED
  BY <1>1, CacheInvHolds, PTL

(***************************************************************************)
(* Powers of two, and the buckets that hash values lead to.                *)
(***************************************************************************)
LEMMA Pow2Above ==
  ASSUME NEW n \in Nat
  PROVE  Pow2(n) \in Nat /\ Pow2(n) > n
<1> DEFINE g == [x \in (1..n) \X Nat |-> 2 * x[2]]
           Eq(h) == h = [i \in 0..n |-> IF i = 0 THEN 1 ELSE 2 * h[i - 1]]
<1>1. g \in [(1..n) \X Nat -> Nat] /\ 1 \in Nat
  OBVIOUS
<1>2. \A i \in 1..n, q \in Nat : g[<<i, q>>] = 2 * q
  OBVIOUS
<1> HIDE DEF g
<1>3. PICK h \in [0..n -> Nat] : Iterates(h, n, 1, g)
  BY <1>1, Iteration, Zenon
<1>4. \A i \in 0..n : i # 0 => i \in 1..n /\ i - 1 \in 0..n
  OBVIOUS
<1>5. ASSUME NEW i \in 0..n PROVE h[i] = IF i = 0 THEN 1 ELSE 2 * h[i - 1]
  <2>1. CASE i = 0
    BY <1>3, <2>1, Zenon DEF Iterates
  <2>2. CASE i # 0
    <3>1. i \in 1..n /\ h[i - 1] \in Nat
      BY <1>3, <1>4, <2>2, Zenon
    <3>2. h[i] = g[<<i, h[i - 1]>>]
      BY <1>3, <3>1, Zenon DEF Iterates
    <3>3. g[<<i, h[i - 1]>>] = 2 * h[i - 1]
      BY <1>2, <3>1, Zenon
    <3> QED
      BY <2>2, <3>2, <3>3
  <2> QED
    BY <2>1, <2>2
<1>6. Eq(h)
  BY <1>3, <1>5, Zenon
<1> DEFINE p == CHOOSE h0 : Eq(h0)
<1>7. Eq(p)
  BY <1>6, Zenon
<1>8. Pow2(n) = p[n]
  BY Zenon DEF Pow2
<1> HIDE DEF p
<1>9. p[0] = 1 /\ \A i \in 0..(n - 1) : p[i + 1] = 2 * p[i]
  BY <1>7
<1> HIDE DEF Eq
<1> DEFINE N == {k \in 0..n : p[k] \in Nat /\ p[k] > k}
<1>10. 0 \in N
  BY <1>9
<1>11. ASSUME NEW k \in 0..(n - 1), k \in N PROVE k + 1 \in N
  BY <1>9, <1>11
<1>12. n \in N
  <2> HIDE DEF N
  <2> QED
    BY <1>10, <1>11, Induction, Zenon
<1> QED
  BY <1>8, <1>12, Zenon

\* A power of two is positive.
LEMMA Pow2Type ==
  ASSUME NEW n \in Nat
  PROVE  Pow2(n) \in Nat /\ Pow2(n) > 0
BY Pow2Above

\* A set of numbers has a least one.
LEMMA SmallestMember ==
  ASSUME NEW S, S \subseteq Nat, S # {}
  PROVE  Min(S) \in S
<1>1. \E x \in S : \A y \in S : x <= y
  BY Least, Zenon
<1> QED
  BY <1>1, Zenon DEF Min

\* round2up finds a power of two.
LEMMA RoundedUp ==
  ASSUME NEW val \in Nat
  PROVE  round2up(val) \in Nat
<1> DEFINE S == {n \in 0..val : Pow2(n) >= val}
<1>1. val \in S
  BY Pow2Above
<1>2. S \subseteq Nat
  OBVIOUS
<1>3. Min(S) \in S
  <2> HIDE DEF S
  <2> QED
    BY <1>1, <1>2, SmallestMember, Zenon
<1> QED
  BY <1>2, <1>3, Zenon DEF round2up

\* HASH2INDEX returns the index of a bucket.
LEMMA IndexType ==
  ASSUME NEW l \in Nat, NEW x \in Nat
  PROVE  HASH2INDEX(l, x) \in Buckets(l)
<1> DEFINE s == IF l < HashBits THEN HashBits - l ELSE 0
           q == Pow2(s)
           m == Pow2(HashBits)
           b == Pow2(l)
<1>1. HashBits \in Nat
  BY HashAssumption
<1>2. s \in Nat
  BY <1>1
<1>3. q \in Nat /\ q > 0 /\ m \in Nat /\ m > 0 /\ b \in Nat /\ b > 0
  <2> HIDE DEF s
  <2> QED
    BY <1>1, <1>2, Pow2Type, Zenon
<1>4. HASH2INDEX(l, x) = ((x + x \div q) % m) % b /\ Buckets(l) = 0..(b - 1)
  BY Zenon DEF HASH2INDEX, Buckets
<1> HIDE DEF q, m, b
<1>5. x \div q \in Nat
  BY <1>3
<1>6. (x + x \div q) % m \in Nat
  BY <1>3, <1>5
<1>7. ((x + x \div q) % m) % b \in 0..(b - 1)
  BY <1>3, <1>6
<1> QED
  BY <1>4, <1>7, Zenon

(***************************************************************************)
(* Chains.                                                                 *)
(***************************************************************************)
Entries == [key : HashKeys, hash : HashCodes, value : HashValues \cup {NoValue}]

\* No key is twice in a chain.
KeyedOnce(c) == \A i, j \in 1..Len(c) : c[i].key = c[j].key => i = j

\* Some entries have the value v for k; NoValue stands for none.
FindsIn(E, k, v) ==
  IF v = NoValue THEN \A e \in E : e.key # k ELSE \E e \in E : e.key = k /\ e.value = v

\* The entries of a chain.
LEMMA InRange ==
  ASSUME NEW S, NEW c \in Seq(S)
  PROVE  \A e : e \in Range(c) <=> \E n \in 1..Len(c) : c[n] = e
<1>1. DOMAIN c = 1..Len(c)
  OBVIOUS
<1> QED
  BY <1>1, Zenon DEF Range

\* They are of the type of its entries.
LEMMA RangeType ==
  ASSUME NEW S, NEW c \in Seq(S)
  PROVE  Range(c) \subseteq S
BY DEF Range

\* Hash values are numbers.
LEMMA HashType ==
  /\ \A k \in HashKeys : Hash[k] \in HashCodes /\ Hash[k] \in Nat
  /\ \A x \in HashCodes : x \in Nat
  /\ 0 \in HashCodes
<1>1. HashBits \in Nat /\ Hash \in [HashKeys -> HashCodes]
  BY HashAssumption
<1>2. Pow2(HashBits) \in Nat /\ Pow2(HashBits) > 0
  BY <1>1, Pow2Type, Zenon
<1>3. \A x \in HashCodes : x \in Nat
  BY <1>2 DEF HashCodes
<1>4. 0 \in HashCodes
  BY <1>2 DEF HashCodes
<1> QED
  BY <1>1, <1>3, <1>4, Zenon

\* A chain with an entry in front.
LEMMA Linked ==
  ASSUME NEW c \in Seq(Entries), NEW e \in Entries
  PROVE  /\ <<e>> \o c \in Seq(Entries)
         /\ Range(<<e>> \o c) = {e} \cup Range(c)
         /\ KeyedOnce(c) /\ (\A x \in Range(c) : x.key # e.key) => KeyedOnce(<<e>> \o c)
<1> DEFINE r == <<e>> \o c
           n == Len(c)
<1>1. r \in Seq(Entries) /\ Len(r) = n + 1 /\ n \in Nat
  OBVIOUS
<1>2. r[1] = e /\ \A i \in 1..n : r[i + 1] = c[i]
  OBVIOUS
<1> HIDE DEF r, n
<1>3. \A i \in 1..(n + 1) : i = 1 \/ (i - 1 \in 1..n /\ (i - 1) + 1 = i)
  BY <1>1
<1>4. 1 \in 1..(n + 1) /\ \A i \in 1..n : i + 1 \in 1..(n + 1)
  BY <1>1
<1>5. \A i \in 1..(n + 1) : i = 1 \/ (i - 1 \in 1..n /\ r[i] = c[i - 1])
  BY <1>2, <1>3, Zenon
<1>6. ASSUME NEW x PROVE x \in Range(r) <=> x \in {e} \cup Range(c)
  <2>1. x \in Range(r) <=> \E i \in 1..(n + 1) : r[i] = x
    BY <1>1, InRange, Zenon
  <2>2. x \in Range(c) <=> \E i \in 1..n : c[i] = x
    BY InRange, Zenon DEF n
  <2> QED
    BY <1>2, <1>4, <1>5, <2>1, <2>2, Zenon
<1>7. ASSUME KeyedOnce(c), \A x \in Range(c) : x.key # e.key PROVE KeyedOnce(r)
  <2> SUFFICES ASSUME NEW i \in 1..(n + 1), NEW j \in 1..(n + 1), r[i].key = r[j].key PROVE i = j
    BY <1>1, Zenon DEF KeyedOnce
  <2>1. \A a \in 1..n : c[a] \in Range(c)
    BY InRange, Zenon DEF n
  <2>2. \A a, b \in 1..n : c[a].key = c[b].key => a = b
    BY <1>7, Zenon DEF KeyedOnce, n
  <2>3. ASSUME i # 1, j # 1 PROVE i - 1 = j - 1
    <3>1. i - 1 \in 1..n /\ r[i] = c[i - 1] /\ j - 1 \in 1..n /\ r[j] = c[j - 1]
      BY <1>5, <2>3, Zenon
    <3>2. c[i - 1].key = c[j - 1].key
      BY <3>1, Zenon
    <3> QED
      BY <2>2, <3>1, <3>2, Zenon
  <2>4. i = 1 <=> j = 1
    BY <1>2, <1>5, <1>7, <2>1, Zenon
  <2> QED
    BY <2>3, <2>4
<1> QED
  BY <1>1, <1>6, <1>7, Zenon DEF r

\* Where an entry for k is in a chain.
LEMMA Positioned ==
  ASSUME NEW c \in Seq(Entries), NEW k
  PROVE  \/ Position(c, k) = 0 /\ \A e \in Range(c) : e.key # k
         \/ /\ Position(c, k) \in 1..Len(c) /\ Position(c, k) # 0
            /\ c[Position(c, k)].key = k
<1> DEFINE found == {n \in 1..Len(c) : c[n].key = k}
<1>1. DOMAIN c = 1..Len(c) /\ found \subseteq Nat
  OBVIOUS
<1>2. Position(c, k) = IF found = {} THEN 0 ELSE Min(found)
  BY <1>1, Zenon DEF Position
<1>3. CASE found = {}
  <2>1. \A n \in 1..Len(c) : c[n].key # k
    BY <1>3, Zenon
  <2>2. \A e : e \in Range(c) <=> \E n \in 1..Len(c) : c[n] = e
    BY InRange, Zenon
  <2> QED
    BY <1>2, <1>3, <2>1, <2>2, Zenon
<1>4. CASE found # {}
  <2>1. Min(found) \in found
    <3> HIDE DEF found
    <3> QED
      BY <1>1, <1>4, SmallestMember, Zenon
  <2>2. Min(found) # 0
    BY <2>1
  <2> QED
    BY <1>2, <1>4, <2>1, <2>2, Zenon
<1> QED
  BY <1>3, <1>4

\* A chain with another value in its entry p.
LEMMA Valued ==
  ASSUME NEW c \in Seq(Entries), NEW p \in 1..Len(c), NEW v \in HashValues \cup {NoValue}
  PROVE  LET r == [c EXCEPT ![p].value = v]
         IN  /\ r \in Seq(Entries) /\ Len(r) = Len(c)
             /\ \A i \in 1..Len(c) : i # p => r[i] = c[i]
             /\ r[p].key = c[p].key /\ r[p].hash = c[p].hash /\ r[p].value = v
<1> DEFINE e == [c[p] EXCEPT !.value = v]
<1>1. c[p] \in Entries
  OBVIOUS
<1>2. e \in Entries /\ e.key = c[p].key /\ e.hash = c[p].hash /\ e.value = v
  BY <1>1 DEF Entries
<1>3. [c EXCEPT ![p].value = v] = [c EXCEPT ![p] = e]
  BY Zenon
<1> HIDE DEF e
<1>4. /\ [c EXCEPT ![p] = e] \in Seq(Entries) /\ Len([c EXCEPT ![p] = e]) = Len(c)
      /\ \A i \in 1..Len(c) : i # p => [c EXCEPT ![p] = e][i] = c[i]
      /\ [c EXCEPT ![p] = e][p] = e
  BY <1>2
<1> QED
  BY <1>2, <1>3, <1>4, Zenon

\* What that chain finds.
LEMMA ValuedFinds ==
  ASSUME NEW c \in Seq(Entries), NEW p \in 1..Len(c), NEW v \in HashValues, KeyedOnce(c),
         NEW r \in Seq(Entries), Len(r) = Len(c),
         \A i \in 1..Len(c) : i # p => r[i] = c[i],
         r[p].key = c[p].key, r[p].value = v
  PROVE  /\ KeyedOnce(r) /\ FindsIn(Range(r), c[p].key, v)
         /\ \A k : k # c[p].key => \A x : FindsIn(Range(c), k, x) => FindsIn(Range(r), k, x)
<1>1. \A i \in 1..Len(c) : r[i].key = c[i].key
  BY Zenon
<1>2. KeyedOnce(r)
  BY <1>1, Zenon DEF KeyedOnce
<1>3. \A e : e \in Range(c) <=> \E n \in 1..Len(c) : c[n] = e
  BY InRange, Zenon
<1>4. \A e : e \in Range(r) <=> \E n \in 1..Len(c) : r[n] = e
  <2>1. \A e : e \in Range(r) <=> \E n \in 1..Len(r) : r[n] = e
    BY InRange, Zenon
  <2> QED
    BY <2>1, Zenon
<1>5. v # NoValue
  BY HashAssumption, Zenon
<1>6. FindsIn(Range(r), c[p].key, v)
  BY <1>4, <1>5, Zenon DEF FindsIn
<1>7. ASSUME NEW k, k # c[p].key PROVE \A e : e.key = k => (e \in Range(c) <=> e \in Range(r))
  BY <1>1, <1>3, <1>4, <1>7, ZenonT(40)
<1>8. ASSUME NEW k, k # c[p].key, NEW x, FindsIn(Range(c), k, x) PROVE FindsIn(Range(r), k, x)
  BY <1>7, <1>8, Zenon DEF FindsIn
<1> QED
  BY <1>2, <1>6, <1>8, Zenon

\* A chain without its entry p.
LEMMA UnlinkedType ==
  ASSUME NEW c \in Seq(Entries), NEW p \in 1..Len(c)
  PROVE  /\ Unlinked(c, p) \in Seq(Entries)
         /\ \A e \in Range(Unlinked(c, p)) : e \in Range(c)
         /\ KeyedOnce(c) => KeyedOnce(Unlinked(c, p)) /\ FindsIn(Range(Unlinked(c, p)), c[p].key, NoValue)
         /\ \A k : k # c[p].key => \A x : FindsIn(Range(c), k, x) => FindsIn(Range(Unlinked(c, p)), k, x)
<1> DEFINE n == Len(c)
           r == Unlinked(c, p)
           at(j) == IF j < p THEN j ELSE j + 1
<1>1. n \in Nat /\ \A j \in 1..(n - 1) : at(j) \in 1..n /\ at(j) # p
  OBVIOUS
<1>2. \A i \in 1..n : i # p => \E j \in 1..(n - 1) : at(j) = i
  <2> SUFFICES ASSUME NEW i \in 1..n, i # p PROVE \E j \in 1..(n - 1) : at(j) = i
    OBVIOUS
  <2>1. CASE i < p
    <3>1. i \in 1..(n - 1) /\ at(i) = i
      BY <1>1, <2>1
    <3> QED
      BY <3>1, Zenon
  <2>2. CASE ~(i < p)
    <3>1. i - 1 \in 1..(n - 1) /\ at(i - 1) = i
      BY <1>1, <2>2
    <3> QED
      BY <3>1, Zenon
  <2> QED
    BY <2>1, <2>2
<1>3. \A i, j \in 1..(n - 1) : at(i) = at(j) => i = j
  BY <1>1
<1>4. /\ r \in Seq(Entries) /\ Len(r) = n - 1
      /\ \A j \in 1..(n - 1) : r[j] = c[at(j)]
  <2>1. r = [j \in 1..(n - 1) |-> c[at(j)]]
    BY Zenon DEF Unlinked
  <2>2. \A j \in 1..(n - 1) : c[at(j)] \in Entries
    BY <1>1
  <2>3. n - 1 \in Nat
    BY <1>1
  <2> HIDE DEF at, r
  <2> QED
    BY <2>1, <2>2, <2>3
<1> HIDE DEF at, r, n
<1>5. \A e : e \in Range(r) <=> \E j \in 1..(n - 1) : r[j] = e
  BY <1>4, InRange, Zenon
<1>6. \A e : e \in Range(c) <=> \E i \in 1..n : c[i] = e
  BY InRange, Zenon DEF n
<1>7. \A e \in Range(r) : e \in Range(c)
  BY <1>1, <1>4, <1>5, <1>6, Zenon
<1>8. ASSUME KeyedOnce(c) PROVE KeyedOnce(r) /\ FindsIn(Range(r), c[p].key, NoValue)
  <2>1. \A i, j \in 1..n : c[i].key = c[j].key => i = j
    BY <1>8, Zenon DEF KeyedOnce, n
  <2>2. ASSUME NEW i \in 1..(n - 1), NEW j \in 1..(n - 1), r[i].key = r[j].key PROVE i = j
    <3>1. r[i] = c[at(i)] /\ r[j] = c[at(j)] /\ at(i) \in 1..n /\ at(j) \in 1..n
      BY <1>1, <1>4, Zenon
    <3>2. at(i) = at(j)
      BY <2>1, <2>2, <3>1, Zenon
    <3> QED
      BY <1>3, <3>2, Zenon
  <2>3. p \in 1..n
    BY Zenon DEF n
  <2>4. \A j \in 1..(n - 1) : r[j].key # c[p].key
    BY <1>1, <1>4, <2>1, <2>3, Zenon
  <2>5. KeyedOnce(r)
    BY <1>4, <2>2, Zenon DEF KeyedOnce
  <2>6. FindsIn(Range(r), c[p].key, NoValue)
    BY <1>5, <2>4, Zenon DEF FindsIn
  <2> QED
    BY <2>5, <2>6
<1>9. ASSUME NEW k, k # c[p].key, NEW e, e.key = k, e \in Range(c) PROVE e \in Range(r)
  <2>1. PICK i \in 1..n : c[i] = e
    BY <1>6, <1>9, Zenon
  <2>2. i # p
    BY <1>9, <2>1, Zenon
  <2>3. PICK j \in 1..(n - 1) : at(j) = i
    BY <1>2, <2>2, Zenon
  <2> QED
    BY <1>4, <1>5, <2>1, <2>3, Zenon
<1>10. ASSUME NEW k, k # c[p].key, NEW x, FindsIn(Range(c), k, x) PROVE FindsIn(Range(r), k, x)
  BY <1>7, <1>9, <1>10, Zenon DEF FindsIn
<1> QED
  BY <1>4, <1>7, <1>8, <1>10, Zenon DEF r

\* What a chain with an entry in front finds.
LEMMA LinkedFinds ==
  ASSUME NEW E, NEW e, e.value # NoValue
  PROVE  /\ FindsIn({e} \cup E, e.key, e.value)
         /\ \A k : k # e.key => \A x : FindsIn(E, k, x) => FindsIn({e} \cup E, k, x)
<1>1. FindsIn({e} \cup E, e.key, e.value)
  BY Zenon DEF FindsIn
<1>2. ASSUME NEW k, k # e.key, NEW x, FindsIn(E, k, x) PROVE FindsIn({e} \cup E, k, x)
  BY <1>2, Zenon DEF FindsIn
<1> QED
  BY <1>1, <1>2, Zenon

(***************************************************************************)
(* Tables, and their entries in the order of the iteration.                *)
(***************************************************************************)
Cores == UNION {[log2 : {l}, buckets : [Buckets(l) -> Seq(Entries)], count : Int,
                 immutable : BOOLEAN] : l \in Nat}

\* The fields of a table.
LEMMA CoreFields ==
  ASSUME NEW core \in Cores
  PROVE  /\ core.log2 \in Nat /\ core.buckets \in [Buckets(core.log2) -> Seq(Entries)]
         /\ core.count \in Int /\ core.immutable \in BOOLEAN
         /\ core = [log2 |-> core.log2, buckets |-> core.buckets, count |-> core.count,
                    immutable |-> core.immutable]
<1>1. PICK l \in Nat : core \in [log2 : {l}, buckets : [Buckets(l) -> Seq(Entries)], count : Int,
                                 immutable : BOOLEAN]
  BY Zenon DEF Cores
<1>2. core.log2 = l /\ core.buckets \in [Buckets(l) -> Seq(Entries)]
  BY <1>1
<1> QED
  BY <1>1, <1>2

\* A table with such fields.
LEMMA MakeCore ==
  ASSUME NEW l \in Nat, NEW b \in [Buckets(l) -> Seq(Entries)], NEW n \in Int, NEW im \in BOOLEAN
  PROVE  /\ [log2 |-> l, buckets |-> b, count |-> n, immutable |-> im] \in Cores
         /\ [log2 |-> l, buckets |-> b, count |-> n, immutable |-> im].log2 = l
         /\ [log2 |-> l, buckets |-> b, count |-> n, immutable |-> im].buckets = b
         /\ [log2 |-> l, buckets |-> b, count |-> n, immutable |-> im].count = n
         /\ [log2 |-> l, buckets |-> b, count |-> n, immutable |-> im].immutable = im
<1>1. [log2 |-> l, buckets |-> b, count |-> n, immutable |-> im]
        \in [log2 : {l}, buckets : [Buckets(l) -> Seq(Entries)], count : Int, immutable : BOOLEAN]
  OBVIOUS
<1>2. [log2 |-> l, buckets |-> b, count |-> n, immutable |-> im] \in Cores
  BY <1>1, Zenon DEF Cores
<1> QED
  BY <1>2

\* Every entry is in the chain that the hash value of its key leads to, once.
Placed(l, b) ==
  \A i \in Buckets(l) :
    KeyedOnce(b[i]) /\ \A e \in Range(b[i]) : HASH2INDEX(l, Hash[e.key]) = i

\* One chain after another.
LEMMA Joined ==
  ASSUME NEW p \in Seq(Entries), NEW q \in Seq(Entries)
  PROVE  /\ p \o q \in Seq(Entries) /\ Range(p \o q) = Range(p) \cup Range(q)
         /\ KeyedOnce(p) /\ KeyedOnce(q) /\ (\A x \in Range(p), y \in Range(q) : x.key # y.key)
              => KeyedOnce(p \o q)
<1> DEFINE r == p \o q
           m == Len(p)
           n == Len(q)
<1>1. r \in Seq(Entries) /\ Len(r) = m + n /\ m \in Nat /\ n \in Nat
  OBVIOUS
<1>2. (\A i \in 1..m : r[i] = p[i]) /\ \A j \in 1..n : r[m + j] = q[j]
  OBVIOUS
<1>3. (\A e : e \in Range(p) <=> \E i \in 1..m : p[i] = e)
      /\ (\A e : e \in Range(q) <=> \E i \in 1..n : q[i] = e)
  BY InRange, Zenon
<1>4. \A e : e \in Range(r) <=> \E i \in 1..Len(r) : r[i] = e
  BY <1>1, InRange, Zenon
<1> HIDE DEF r, m, n
<1>5. \A i \in 1..(m + n) : i \in 1..m \/ (i - m \in 1..n /\ m + (i - m) = i)
  BY <1>1
<1>6. (\A i \in 1..m : i \in 1..(m + n)) /\ \A j \in 1..n : m + j \in 1..(m + n)
  BY <1>1
<1>7. \A i \in 1..(m + n) : \/ i \in 1..m /\ r[i] = p[i] /\ r[i] \in Range(p)
                            \/ i - m \in 1..n /\ r[i] = q[i - m] /\ r[i] \in Range(q)
  <2> SUFFICES ASSUME NEW i \in 1..(m + n)
               PROVE  \/ i \in 1..m /\ r[i] = p[i] /\ r[i] \in Range(p)
                      \/ i - m \in 1..n /\ r[i] = q[i - m] /\ r[i] \in Range(q)
    BY Zenon
  <2>1. CASE i \in 1..m
    <3>1. r[i] = p[i] /\ p[i] \in Range(p)
      BY <1>2, <1>3, <2>1, Zenon
    <3> QED
      BY <2>1, <3>1
  <2>2. CASE i - m \in 1..n /\ m + (i - m) = i
    <3>1. r[m + (i - m)] = q[i - m] /\ q[i - m] \in Range(q)
      BY <1>2, <1>3, <2>2, Zenon
    <3>2. r[i] = q[i - m]
      BY <2>2, <3>1, Zenon
    <3> QED
      BY <2>2, <3>1, <3>2
  <2> QED
    BY <1>5, <2>1, <2>2, Zenon
<1>8. ASSUME NEW e PROVE e \in Range(r) <=> e \in Range(p) \cup Range(q)
  <2>1. e \in Range(r) <=> \E i \in 1..(m + n) : r[i] = e
    BY <1>1, <1>4, Zenon
  <2>2. ASSUME e \in Range(r) PROVE e \in Range(p) \/ e \in Range(q)
    BY <1>7, <2>1, <2>2, Zenon
  <2>3. ASSUME e \in Range(p) PROVE e \in Range(r)
    <3>1. PICK i \in 1..m : p[i] = e
      BY <1>3, <2>3, Zenon
    <3>2. i \in 1..(m + n) /\ r[i] = e
      BY <1>2, <1>6, <3>1, Zenon
    <3> QED
      BY <2>1, <3>2, Zenon
  <2>4. ASSUME e \in Range(q) PROVE e \in Range(r)
    <3>1. PICK j \in 1..n : q[j] = e
      BY <1>3, <2>4, Zenon
    <3>2. m + j \in 1..(m + n) /\ r[m + j] = e
      BY <1>2, <1>6, <3>1, Zenon
    <3> QED
      BY <2>1, <3>2, Zenon
  <2> QED
    BY <2>2, <2>3, <2>4, Zenon
<1>9. ASSUME KeyedOnce(p), KeyedOnce(q), \A x \in Range(p), y \in Range(q) : x.key # y.key
      PROVE  KeyedOnce(r)
  <2> SUFFICES ASSUME NEW i \in 1..(m + n), NEW j \in 1..(m + n), r[i].key = r[j].key PROVE i = j
    BY <1>1, Zenon DEF KeyedOnce
  <2>1. CASE i \in 1..m /\ r[i] = p[i] /\ r[i] \in Range(p)
    <3>1. j \in 1..m /\ r[j] = p[j]
      BY <1>7, <1>9, <2>1, Zenon
    <3>2. p[i].key = p[j].key
      BY <2>1, <3>1, Zenon
    <3> QED
      BY <1>9, <2>1, <3>1, <3>2, Zenon DEF KeyedOnce, m
  <2>2. CASE i - m \in 1..n /\ r[i] = q[i - m] /\ r[i] \in Range(q)
    <3>1. j - m \in 1..n /\ r[j] = q[j - m]
      BY <1>7, <1>9, <2>2, Zenon
    <3>2. q[i - m].key = q[j - m].key
      BY <2>2, <3>1, Zenon
    <3>3. i - m = j - m
      BY <1>9, <2>2, <3>1, <3>2, Zenon DEF KeyedOnce, n
    <3> QED
      BY <1>1, <3>3
  <2> QED
    BY <1>7, <2>1, <2>2, Zenon
<1> QED
  BY <1>1, <1>8, <1>9, Zenon DEF r

\* The recursion that the iteration is defined by.
LEMMA IteratedSteps ==
  ASSUME NEW core \in Cores
  PROVE  \E u : /\ u[0] = <<>> /\ Iterated(core) = u[Pow2(core.log2)]
                /\ \A i \in 0..(Pow2(core.log2) - 1) : u[i + 1] = u[i] \o core.buckets[i]
<1> DEFINE n == Pow2(core.log2)
           b == core.buckets
           T == Seq(Entries)
           g == [x \in (1..n) \X T |-> x[2] \o b[x[1] - 1]]
           Eq(h) == h = [i \in 0..n |-> IF i = 0 THEN <<>> ELSE h[i - 1] \o b[i - 1]]
<1>1. n \in Nat /\ <<>> \in T
  BY CoreFields, Pow2Type
<1>2. \A i \in 1..n : b[i - 1] \in T
  <2>1. \A i \in 1..n : i - 1 \in Buckets(core.log2)
    BY <1>1 DEF Buckets
  <2> QED
    BY <2>1, CoreFields, Zenon
<1> HIDE DEF n, b
<1>3. \A i \in 1..n, q \in T : g[<<i, q>>] = q \o b[i - 1]
  BY Zenon
<1>4. g \in [(1..n) \X T -> T]
  <2>1. \A i \in 1..n, q \in T : q \o b[i - 1] \in T
    BY <1>2, Joined
  <2> HIDE DEF T
  <2> QED
    BY <2>1
<1> HIDE DEF T, g
<1>5. PICK h \in [0..n -> T] : Iterates(h, n, <<>>, g)
  BY <1>1, <1>4, Iteration, Zenon
<1>6. \A i \in 0..n : i # 0 => i \in 1..n /\ i - 1 \in 0..n
  BY <1>1
<1>7. ASSUME NEW i \in 0..n PROVE h[i] = IF i = 0 THEN <<>> ELSE h[i - 1] \o b[i - 1]
  <2>1. CASE i = 0
    BY <1>5, <2>1, Zenon DEF Iterates
  <2>2. CASE i # 0
    <3>1. i \in 1..n /\ h[i - 1] \in T
      BY <1>5, <1>6, <2>2, Zenon
    <3>2. h[i] = g[<<i, h[i - 1]>>] /\ g[<<i, h[i - 1]>>] = h[i - 1] \o b[i - 1]
      BY <1>3, <1>5, <3>1, Zenon DEF Iterates
    <3> QED
      BY <2>2, <3>2, Zenon
  <2> QED
    BY <2>1, <2>2, Zenon
<1>8. Eq(h)
  BY <1>5, <1>7, Zenon
<1> DEFINE u == CHOOSE h0 : Eq(h0)
<1>9. Eq(u)
  BY <1>8, Zenon
<1>10. Iterated(core) = u[n]
  BY Zenon DEF Iterated, n, b
<1> HIDE DEF u
<1>11. u[0] = <<>>
  BY <1>1, <1>9
<1>12. ASSUME NEW i \in 0..(n - 1) PROVE u[i + 1] = u[i] \o b[i]
  <2>1. i + 1 \in 0..n /\ i + 1 # 0 /\ (i + 1) - 1 = i
    BY <1>1
  <2> QED
    BY <1>9, <2>1, Zenon
<1> QED
  BY <1>10, <1>11, <1>12, Zenon DEF n, b

\* The iteration returns the entries of every chain, and no key twice.
LEMMA IteratedAll ==
  ASSUME NEW core \in Cores
  PROVE  /\ Iterated(core) \in Seq(Entries)
         /\ \A e : e \in Range(Iterated(core)) <=>
                     \E i \in Buckets(core.log2) : e \in Range(core.buckets[i])
         /\ Placed(core.log2, core.buckets) => KeyedOnce(Iterated(core))
<1> DEFINE n == Pow2(core.log2)
           b == core.buckets
           P == Placed(core.log2, core.buckets)
<1>1. n \in Nat /\ Buckets(core.log2) = 0..(n - 1) /\ \A i \in 0..(n - 1) : b[i] \in Seq(Entries)
  <2>1. n \in Nat /\ Buckets(core.log2) = 0..(n - 1)
    BY CoreFields, Pow2Type, Zenon DEF Buckets
  <2> QED
    BY <2>1, CoreFields, Zenon
<1>2. PICK u : /\ u[0] = <<>> /\ Iterated(core) = u[n]
               /\ \A i \in 0..(n - 1) : u[i + 1] = u[i] \o b[i]
  BY IteratedSteps, Zenon
<1>3. P => \A i \in 0..(n - 1) : KeyedOnce(b[i]) /\ \A e \in Range(b[i]) : HASH2INDEX(core.log2, Hash[e.key]) = i
  BY <1>1, Zenon DEF Placed
<1> HIDE DEF n, b, P
<1> DEFINE In(k) == \A e : e \in Range(u[k]) <=> \E i \in 0..(k - 1) : e \in Range(b[i])
           N == {k \in 0..n : u[k] \in Seq(Entries) /\ In(k) /\ (P => KeyedOnce(u[k]))}
<1>4. 0 \in N
  <2>1. <<>> \in Seq(Entries) /\ Range(<<>>) = {} /\ KeyedOnce(<<>>) /\ 0..(0 - 1) = {} /\ 0 \in 0..n
    BY <1>1 DEF Range, KeyedOnce
  <2> QED
    BY <1>2, <2>1, Zenon
<1>5. ASSUME NEW k \in 0..(n - 1), k \in N PROVE k + 1 \in N
  <2>1. k + 1 \in 0..n /\ 0..((k + 1) - 1) = 0..(k - 1) \cup {k} /\ 0..(k - 1) \subseteq 0..(n - 1)
    BY <1>1
  <2>2. u[k] \in Seq(Entries) /\ In(k) /\ (P => KeyedOnce(u[k]))
    BY <1>5, Zenon
  <2>3. b[k] \in Seq(Entries) /\ u[k + 1] = u[k] \o b[k]
    BY <1>1, <1>2, ZenonT(40)
  <2>4. /\ u[k] \o b[k] \in Seq(Entries) /\ Range(u[k] \o b[k]) = Range(u[k]) \cup Range(b[k])
        /\ KeyedOnce(u[k]) /\ KeyedOnce(b[k]) /\ (\A x \in Range(u[k]), y \in Range(b[k]) : x.key # y.key)
              => KeyedOnce(u[k] \o b[k])
    BY <2>2, <2>3, Joined
  <2>5. In(k + 1)
    BY <2>1, <2>2, <2>3, <2>4, Zenon
  <2>6. ASSUME P PROVE KeyedOnce(u[k + 1])
    <3>1. \A i \in 0..(k - 1) : i # k
      OBVIOUS
    <3>2. \A x \in Range(u[k]), y \in Range(b[k]) : x.key # y.key
      <4> SUFFICES ASSUME NEW x \in Range(u[k]), NEW y \in Range(b[k]), x.key = y.key PROVE FALSE
        BY Zenon
      <4>1. PICK i \in 0..(k - 1) : x \in Range(b[i])
        BY <2>2, Zenon
      <4>2. HASH2INDEX(core.log2, Hash[x.key]) = i /\ HASH2INDEX(core.log2, Hash[y.key]) = k
        BY <1>3, <2>1, <2>6, <4>1, Zenon
      <4> QED
        BY <3>1, <4>1, <4>2, Zenon
    <3> QED
      BY <1>3, <2>2, <2>3, <2>4, <2>6, <3>2, ZenonT(40)
  <2> HIDE DEF In
  <2> QED
    BY <2>1, <2>3, <2>4, <2>5, <2>6, Zenon
<1>6. n \in N
  <2> HIDE DEF N
  <2> QED
    BY <1>1, <1>4, <1>5, Induction, Zenon
<1>7. u[n] \in Seq(Entries) /\ In(n) /\ (P => KeyedOnce(u[n]))
  BY <1>6, Zenon
<1> QED
  BY <1>1, <1>2, <1>7, Zenon DEF P, b

\* A table with one more entry.
LEMMA MovedType ==
  ASSUME NEW l \in Nat, NEW b \in [Buckets(l) -> Seq(Entries)], NEW e \in Entries
  PROVE  /\ HASH2INDEX(l, e.hash) \in Buckets(l)
         /\ Moved(b, l, e) \in [Buckets(l) -> Seq(Entries)]
         /\ Moved(b, l, e)[HASH2INDEX(l, e.hash)] = <<e>> \o b[HASH2INDEX(l, e.hash)]
         /\ \A i \in Buckets(l) : i # HASH2INDEX(l, e.hash) => Moved(b, l, e)[i] = b[i]
<1> DEFINE x == HASH2INDEX(l, e.hash)
           c == <<e>> \o b[x]
<1>1. e.hash \in Nat
  <2>1. e.hash \in HashCodes
    BY DEF Entries
  <2> QED
    BY <2>1, HashType, Zenon
<1>2. x \in Buckets(l)
  BY <1>1, IndexType, Zenon
<1>3. c \in Seq(Entries)
  <2>1. b[x] \in Seq(Entries)
    BY <1>2, Zenon
  <2> QED
    BY <2>1, Linked
<1>4. Moved(b, l, e) = [b EXCEPT ![x] = c]
  BY Zenon DEF Moved
<1> HIDE DEF x, c
<1>5. /\ [b EXCEPT ![x] = c] \in [Buckets(l) -> Seq(Entries)] /\ [b EXCEPT ![x] = c][x] = c
      /\ \A i \in Buckets(l) : i # x => [b EXCEPT ![x] = c][i] = b[i]
  BY <1>2, <1>3, Zenon
<1> QED
  BY <1>2, <1>4, <1>5, Zenon DEF x, c

\* The recursion that moves the entries.
LEMMA RehashedSteps ==
  ASSUME NEW core \in Cores, NEW l \in Nat, NEW all \in Seq(Entries), all = Iterated(core)
  PROVE  \E u \in [0..Len(all) -> [Buckets(l) -> Seq(Entries)]] :
            /\ u[0] = [i \in Buckets(l) |-> <<>>] /\ Rehashed(core, l, l) = u[Len(all)]
            /\ \A i \in 0..(Len(all) - 1) : u[i + 1] = Moved(u[i], l, all[i + 1])
<1> DEFINE n == Len(all)
           T == [Buckets(l) -> Seq(Entries)]
           base == [i \in Buckets(l) |-> <<>>]
           g == [x \in (1..n) \X T |-> Moved(x[2], l, all[x[1]])]
           Eq(h) == h = [i \in 0..n |-> IF i = 0 THEN base ELSE Moved(h[i - 1], l, all[i])]
<1>1. n \in Nat /\ base \in T /\ \A i \in 1..n : all[i] \in Entries
  OBVIOUS
<1>2. Rehashed(core, l, l) = (CHOOSE h0 : Eq(h0))[n]
  BY Zenon DEF Rehashed
<1> HIDE DEF n, base
<1>3. \A i \in 1..n, q \in T : g[<<i, q>>] = Moved(q, l, all[i])
  <2> HIDE DEF T
  <2> QED
    OBVIOUS
<1>4. g \in [(1..n) \X T -> T]
  <2>1. \A i \in 1..n, q \in T : Moved(q, l, all[i]) \in T
    BY <1>1, MovedType, Zenon
  <2> HIDE DEF T
  <2> QED
    BY <2>1
<1> HIDE DEF T, g
<1>5. PICK h \in [0..n -> T] : Iterates(h, n, base, g)
  BY <1>1, <1>4, Iteration, Zenon
<1>6. \A i \in 0..n : i # 0 => i \in 1..n /\ i - 1 \in 0..n
  BY <1>1
<1>7. ASSUME NEW i \in 0..n PROVE h[i] = IF i = 0 THEN base ELSE Moved(h[i - 1], l, all[i])
  <2>1. CASE i = 0
    BY <1>5, <2>1, Zenon DEF Iterates
  <2>2. CASE i # 0
    <3>1. i \in 1..n /\ h[i - 1] \in T
      BY <1>5, <1>6, <2>2, Zenon
    <3>2. h[i] = g[<<i, h[i - 1]>>] /\ g[<<i, h[i - 1]>>] = Moved(h[i - 1], l, all[i])
      BY <1>3, <1>5, <3>1, Zenon DEF Iterates
    <3> QED
      BY <2>2, <3>2, Zenon
  <2> QED
    BY <2>1, <2>2
<1>8. Eq(h)
  BY <1>5, <1>7, Zenon
<1> DEFINE u == CHOOSE h0 : Eq(h0)
<1>9. Eq(u)
  BY <1>8, Zenon
<1>10. Rehashed(core, l, l) = u[n]
  BY <1>2
<1> HIDE DEF u
<1>11. u[0] = base
  BY <1>1, <1>9
<1>12. ASSUME NEW i \in 0..(n - 1) PROVE u[i + 1] = Moved(u[i], l, all[i + 1])
  <2>1. i + 1 \in 0..n /\ i + 1 # 0 /\ (i + 1) - 1 = i
    BY <1>1
  <2> QED
    BY <1>9, <2>1, Zenon
<1>13. u \in [0..n -> T]
  <2> DEFINE N == {i \in 0..n : u[i] \in T}
  <2>1. 0 \in N
    BY <1>1, <1>11
  <2>2. ASSUME NEW i \in 0..(n - 1), i \in N PROVE i + 1 \in N
    <3>1. i + 1 \in 0..n /\ all[i + 1] \in Entries
      BY <1>1
    <3>2. u[i] \in [Buckets(l) -> Seq(Entries)]
      BY <2>2, Zenon DEF T
    <3>3. Moved(u[i], l, all[i + 1]) \in T
      BY <3>1, <3>2, MovedType, Zenon DEF T
    <3> QED
      BY <1>12, <3>1, <3>3, Zenon
  <2>3. ASSUME NEW m \in 0..n PROVE m \in N
    <3>1. m \in Nat /\ \A i \in 0..(m - 1) : i \in 0..(n - 1)
      BY <1>1
    <3>2. \A i \in 0..(m - 1) : i \in N => i + 1 \in N
      BY <2>2, <3>1, Zenon
    <3> HIDE DEF N
    <3> QED
      BY <2>1, <3>1, <3>2, Induction, Zenon
  <2>4. \A m \in 0..n : u[m] \in T
    BY <2>3, Zenon
  <2> QED
    BY <1>9, <2>4, Zenon
<1> QED
  BY <1>10, <1>11, <1>12, <1>13, Zenon DEF n, base, T

\* The new chains have the entries, each where its hash value leads.
LEMMA RehashedAll ==
  ASSUME NEW core \in Cores, NEW l \in Nat, NEW all \in Seq(Entries), all = Iterated(core)
  PROVE  /\ Rehashed(core, l, l) \in [Buckets(l) -> Seq(Entries)]
         /\ \A i \in Buckets(l) : \A e :
              e \in Range(Rehashed(core, l, l)[i]) <=> e \in Range(all) /\ HASH2INDEX(l, e.hash) = i
         /\ KeyedOnce(all) => \A i \in Buckets(l) : KeyedOnce(Rehashed(core, l, l)[i])
<1> DEFINE n == Len(all)
           T == [Buckets(l) -> Seq(Entries)]
<1>1. n \in Nat /\ \A i \in 1..n : all[i] \in Entries
  OBVIOUS
<1>2. PICK u \in [0..n -> T] :
         /\ u[0] = [i \in Buckets(l) |-> <<>>] /\ Rehashed(core, l, l) = u[n]
         /\ \A i \in 0..(n - 1) : u[i + 1] = Moved(u[i], l, all[i + 1])
  BY RehashedSteps, Zenon
<1>3. \A e : e \in Range(all) <=> \E j \in 1..n : all[j] = e
  BY InRange, Zenon
<1>4. KeyedOnce(all) => \A i, j \in 1..n : all[i].key = all[j].key => i = j
  BY Zenon DEF KeyedOnce
<1> HIDE DEF n
<1> DEFINE In(k) == \A i \in Buckets(l) : \A e : e \in Range(u[k][i]) <=>
                       \E j \in 1..k : all[j] = e /\ HASH2INDEX(l, e.hash) = i
           OnceIn(k) == \A i \in Buckets(l) : KeyedOnce(u[k][i])
           N == {k \in 0..n : In(k) /\ (KeyedOnce(all) => OnceIn(k))}
<1>5. 0 \in N
  <2>1. Range(<<>>) = {} /\ KeyedOnce(<<>>) /\ 1..0 = {} /\ 0 \in 0..n
    BY <1>1 DEF Range, KeyedOnce
  <2>2. \A i \in Buckets(l) : u[0][i] = <<>>
    BY <1>2, Zenon
  <2> QED
    BY <2>1, <2>2, Zenon
<1>6. ASSUME NEW k \in 0..(n - 1), k \in N PROVE k + 1 \in N
  <2> DEFINE e == all[k + 1]
             x == HASH2INDEX(l, e.hash)
  <2>1. /\ k + 1 \in 0..n /\ k \in 0..n /\ k + 1 \in 1..n /\ 1..(k + 1) = 1..k \cup {k + 1}
        /\ \A j \in 1..k : j \in 1..n /\ j # k + 1
    BY <1>1
  <2>2. In(k) /\ (KeyedOnce(all) => OnceIn(k))
    BY <1>6, Zenon
  <2>3. u[k] \in T /\ e \in Entries
    BY <1>1, <1>2, <2>1, Zenon
  <2>4. /\ x \in Buckets(l) /\ u[k + 1][x] = <<e>> \o u[k][x]
        /\ \A i \in Buckets(l) : i # x => u[k + 1][i] = u[k][i]
    <3>1. u[k + 1] = Moved(u[k], l, e)
      BY <1>2, Zenon
    <3>2. u[k] \in [Buckets(l) -> Seq(Entries)]
      BY <2>3, ZenonT(40)
    <3> HIDE DEF e
    <3>3. /\ x \in Buckets(l) /\ Moved(u[k], l, e)[x] = <<e>> \o u[k][x]
          /\ \A i \in Buckets(l) : i # x => Moved(u[k], l, e)[i] = u[k][i]
      BY <2>3, <3>2, MovedType, Zenon
    <3> QED
      BY <3>1, <3>3, Zenon
  <2>5. u[k][x] \in Seq(Entries)
    BY <2>3, <2>4, Zenon
  <2> HIDE DEF x, T
  <2>6. /\ Range(<<e>> \o u[k][x]) = {e} \cup Range(u[k][x])
        /\ KeyedOnce(u[k][x]) /\ (\A y \in Range(u[k][x]) : y.key # e.key) => KeyedOnce(<<e>> \o u[k][x])
    <3> HIDE DEF e
    <3> QED
      BY <2>3, <2>5, Linked, Zenon
  <2>7. In(k + 1)
    <3> SUFFICES ASSUME NEW i \in Buckets(l), NEW y
                 PROVE  y \in Range(u[k + 1][i]) <=>
                           \E j \in 1..(k + 1) : all[j] = y /\ HASH2INDEX(l, y.hash) = i
      BY Zenon
    <3>1. y \in Range(u[k][i]) <=> \E j \in 1..k : all[j] = y /\ HASH2INDEX(l, y.hash) = i
      BY <2>2, Zenon
    <3>2. (\E j \in 1..(k + 1) : all[j] = y /\ HASH2INDEX(l, y.hash) = i)
             <=> y \in Range(u[k][i]) \/ (e = y /\ HASH2INDEX(l, y.hash) = i)
      BY <2>1, <3>1, Zenon
    <3>3. y \in Range(u[k + 1][i]) <=> y \in Range(u[k][i]) \/ (e = y /\ x = i)
      <4> HIDE DEF e
      <4>1. CASE i = x
        <5>1. Range(u[k + 1][i]) = {e} \cup Range(u[k][i])
          BY <2>4, <2>6, <4>1, Zenon
        <5> QED
          BY <4>1, <5>1, Zenon
      <4>2. CASE i # x
        BY <2>4, <4>2, Zenon
      <4> QED
        BY <4>1, <4>2
    <3> QED
      BY <3>2, <3>3, Zenon DEF x
  <2>8. ASSUME KeyedOnce(all) PROVE OnceIn(k + 1)
    <3>1. \A y \in Range(u[k][x]) : y.key # e.key
      <4> SUFFICES ASSUME NEW y \in Range(u[k][x]) PROVE y.key # e.key
        BY Zenon
      <4>1. PICK j \in 1..k : all[j] = y
        BY <2>2, <2>4, Zenon
      <4>2. j \in 1..n /\ j # k + 1 /\ k + 1 \in 1..n
        BY <2>1, <4>1, Zenon
      <4>3. all[j].key # all[k + 1].key
        BY <1>4, <2>8, <4>2, Zenon
      <4> QED
        BY <4>1, <4>3, Zenon
    <3>2. KeyedOnce(u[k + 1][x])
      BY <2>2, <2>4, <2>6, <2>8, <3>1, Zenon
    <3> QED
      BY <2>2, <2>4, <2>8, <3>2, Zenon
  <2> HIDE DEF In, OnceIn
  <2> QED
    BY <2>1, <2>7, <2>8, Zenon
<1>7. n \in N
  <2> HIDE DEF N
  <2> QED
    BY <1>1, <1>5, <1>6, Induction, Zenon
<1>8. In(n) /\ (KeyedOnce(all) => OnceIn(n)) /\ u[n] \in T
  <2>1. n \in 0..n
    BY <1>1
  <2> QED
    BY <1>2, <1>7, <2>1, Zenon
<1> DEFINE b == Rehashed(core, l, l)
<1>9. b = u[n]
  BY <1>2, Zenon
<1> HIDE DEF b
<1>10. b \in T /\ (KeyedOnce(all) => \A i \in Buckets(l) : KeyedOnce(b[i]))
  BY <1>8, <1>9, Zenon
<1>11. ASSUME NEW i \in Buckets(l), NEW e
       PROVE  e \in Range(b[i]) <=> e \in Range(all) /\ HASH2INDEX(l, e.hash) = i
  <2>1. e \in Range(b[i]) <=> \E j \in 1..n : all[j] = e /\ HASH2INDEX(l, e.hash) = i
    BY <1>8, <1>9, Zenon
  <2> QED
    BY <1>3, <2>1, Zenon
<1> QED
  BY <1>10, <1>11, Zenon DEF b

(***************************************************************************)
(* What a table should find, and what it counts.                           *)
(***************************************************************************)
Wanted == [HashKeys -> HashValues \cup {NoValue}]

\* The keys that a table should have.
Present(w) == {k \in HashKeys : w[k] # NoValue}

\* Every key is found, where it is looked for, with its value.
Holds(l, b, w) ==
  /\ Placed(l, b)
  /\ \A k \in HashKeys : FindsIn(Range(b[HASH2INDEX(l, Hash[k])]), k, w[k])

\* The count is that of the keys.
Counts(n, w) == IsFiniteSet(Present(w)) /\ n = Cardinality(Present(w))

\* A table that is as it should be.
Good(core, w) == Holds(core.log2, core.buckets, w) /\ Counts(core.count, w)

\* The entries have the hash values of their keys.
Remembers(l, b) == \A i \in Buckets(l) : \A e \in Range(b[i]) : e.hash = Hash[e.key]

\* A key leads to a bucket.
LEMMA KeyIndex ==
  ASSUME NEW l \in Nat, NEW k \in HashKeys
  PROVE  HASH2INDEX(l, Hash[k]) \in Buckets(l)
<1>1. Hash[k] \in Nat
  BY HashType, Zenon
<1> QED
  BY <1>1, IndexType, Zenon

\* The model's Forgotten is about the entries of the chains.
LEMMA Forgets ==
  ASSUME NEW core \in Cores
  PROVE  ~Forgotten(core) <=> Remembers(core.log2, core.buckets)
BY IteratedAll, Zenon DEF Forgotten, Remembers

\* A table finds something for a key when its chain has the key.
LEMMA FindsKey ==
  ASSUME NEW c \in Seq(Entries), NEW k, NEW v, FindsIn(Range(c), k, v)
  PROVE  /\ Position(c, k) = 0 => v = NoValue
         /\ Position(c, k) # 0 => v # NoValue
         /\ Position(c, k) # 0 /\ KeyedOnce(c) => c[Position(c, k)].value = v
<1> DEFINE p == Position(c, k)
<1>1. \/ p = 0 /\ \A e \in Range(c) : e.key # k
      \/ p \in 1..Len(c) /\ p # 0 /\ c[p].key = k
  BY Positioned, Zenon
<1>2. \A e : e \in Range(c) <=> \E i \in 1..Len(c) : c[i] = e
  BY InRange, Zenon
<1> HIDE DEF p
<1>3. p = 0 => v = NoValue
  BY <1>1, Zenon DEF FindsIn
<1>4. p # 0 => v # NoValue
  BY <1>1, <1>2, Zenon DEF FindsIn
<1>5. ASSUME p # 0, KeyedOnce(c) PROVE c[p].value = v
  <2>1. PICK e \in Range(c) : e.key = k /\ e.value = v
    BY <1>4, <1>5, Zenon DEF FindsIn
  <2>2. PICK i \in 1..Len(c) : c[i] = e
    BY <1>2, <2>1, Zenon
  <2>3. c[i].key = c[p].key /\ p \in 1..Len(c)
    BY <1>1, <1>5, <2>1, <2>2, Zenon
  <2>4. i = p
    BY <1>5, <2>3, Zenon DEF KeyedOnce
  <2> QED
    BY <2>1, <2>2, <2>4, Zenon
<1> QED
  BY <1>3, <1>4, <1>5, Zenon DEF p

\* One chain is replaced, by one that differs in what it finds for one key.
LEMMA ChainHolds ==
  ASSUME NEW l \in Nat, NEW b \in [Buckets(l) -> Seq(Entries)], NEW w \in Wanted, Holds(l, b, w),
         NEW k \in HashKeys, NEW v \in HashValues \cup {NoValue}, NEW x, x = HASH2INDEX(l, Hash[k]),
         NEW c \in Seq(Entries), KeyedOnce(c), FindsIn(Range(c), k, v),
         \A e \in Range(c) : HASH2INDEX(l, Hash[e.key]) = x,
         \A o : o # k => \A y : FindsIn(Range(b[x]), o, y) => FindsIn(Range(c), o, y)
  PROVE  /\ Holds(l, [b EXCEPT ![x] = c], [w EXCEPT ![k] = v])
         /\ [b EXCEPT ![x] = c] \in [Buckets(l) -> Seq(Entries)]
         /\ [w EXCEPT ![k] = v] \in Wanted
<1> DEFINE d == [b EXCEPT ![x] = c]
           z == [w EXCEPT ![k] = v]
<1>1. x \in Buckets(l)
  BY KeyIndex, Zenon
<1>2. d \in [Buckets(l) -> Seq(Entries)] /\ d[x] = c /\ \A i \in Buckets(l) : i # x => d[i] = b[i]
  BY <1>1, Zenon
<1>3. z \in Wanted /\ z[k] = v /\ \A o \in HashKeys : o # k => z[o] = w[o]
  BY Zenon DEF Wanted
<1> HIDE DEF d, z
<1>4. Placed(l, d)
  <2> SUFFICES ASSUME NEW i \in Buckets(l)
               PROVE  KeyedOnce(d[i]) /\ \A e \in Range(d[i]) : HASH2INDEX(l, Hash[e.key]) = i
    BY Zenon DEF Placed
  <2>1. CASE i = x
    BY <1>2, <2>1, Zenon
  <2>2. CASE i # x
    <3>1. d[i] = b[i]
      BY <1>2, <2>2, Zenon
    <3>2. KeyedOnce(b[i]) /\ \A e \in Range(b[i]) : HASH2INDEX(l, Hash[e.key]) = i
      BY ZenonT(40) DEF Holds, Placed
    <3> QED
      BY <3>1, <3>2, Zenon
  <2> QED
    BY <2>1, <2>2
<1>5. ASSUME NEW o \in HashKeys PROVE FindsIn(Range(d[HASH2INDEX(l, Hash[o])]), o, z[o])
  <2>1. HASH2INDEX(l, Hash[o]) \in Buckets(l)
    BY KeyIndex, Zenon
  <2>2. FindsIn(Range(b[HASH2INDEX(l, Hash[o])]), o, w[o])
    BY Zenon DEF Holds
  <2>3. CASE o = k
    BY <1>2, <1>3, <2>3, Zenon
  <2>4. CASE o # k /\ HASH2INDEX(l, Hash[o]) = x
    BY <1>2, <1>3, <2>2, <2>4, Zenon
  <2>5. CASE o # k /\ HASH2INDEX(l, Hash[o]) # x
    <3>1. d[HASH2INDEX(l, Hash[o])] = b[HASH2INDEX(l, Hash[o])] /\ z[o] = w[o]
      BY <1>2, <1>3, <2>1, <2>5, Zenon
    <3> QED
      BY <2>2, <3>1, Zenon
  <2> QED
    BY <2>3, <2>4, <2>5
<1> QED
  BY <1>2, <1>3, <1>4, <1>5, Zenon DEF Holds, d, z

\* The number of keys, as one gets another value.
LEMMA Counted ==
  ASSUME NEW w \in Wanted, IsFiniteSet(Present(w)), NEW k \in HashKeys, NEW v
  PROVE  /\ IsFiniteSet(Present([w EXCEPT ![k] = v]))
         /\ v # NoValue /\ w[k] = NoValue
              => Cardinality(Present([w EXCEPT ![k] = v])) = Cardinality(Present(w)) + 1
         /\ v # NoValue /\ w[k] # NoValue => Present([w EXCEPT ![k] = v]) = Present(w)
         /\ v = NoValue /\ w[k] # NoValue
              => Cardinality(Present([w EXCEPT ![k] = v])) = Cardinality(Present(w)) - 1
         /\ v = NoValue /\ w[k] = NoValue => [w EXCEPT ![k] = v] = w
<1> DEFINE z == [w EXCEPT ![k] = v]
           P == Present(w)
           Q == Present(z)
<1>1. z[k] = v /\ \A o \in HashKeys : o # k => z[o] = w[o]
  BY Zenon DEF Wanted
<1>2. v = NoValue /\ w[k] = NoValue => z = w
  BY Zenon DEF Wanted
<1> HIDE DEF z
<1>3. \A o : o \in Q <=> o \in HashKeys /\ z[o] # NoValue
  BY Zenon DEF Present
<1>4. \A o : o \in P <=> o \in HashKeys /\ w[o] # NoValue
  BY Zenon DEF Present
<1> HIDE DEF P, Q
<1>5. v # NoValue /\ w[k] = NoValue => Q = P \cup {k} /\ k \notin P
  BY <1>1, <1>3, <1>4, Zenon
<1>6. v # NoValue /\ w[k] # NoValue => Q = P
  BY <1>1, <1>3, <1>4, Zenon
<1>7. v = NoValue /\ w[k] # NoValue => Q = P \ {k} /\ k \in P
  BY <1>1, <1>3, <1>4, Zenon
<1>8. IsFiniteSet(P)
  BY Zenon DEF P
<1>9. IsFiniteSet(P \cup {k}) /\ (k \notin P => Cardinality(P \cup {k}) = Cardinality(P) + 1)
  BY <1>8, FS_AddElement
<1>10. IsFiniteSet(P \ {k}) /\ (k \in P => Cardinality(P \ {k}) = Cardinality(P) - 1)
  BY <1>8, FS_RemoveElement
<1>11. IsFiniteSet(Q)
  <2>1. CASE v = NoValue /\ w[k] = NoValue
    BY <1>2, <1>8, <2>1, Zenon DEF P, Q
  <2>2. CASE ~(v = NoValue /\ w[k] = NoValue)
    BY <1>5, <1>6, <1>7, <1>8, <1>9, <1>10, <2>2, Zenon
  <2> QED
    BY <2>1, <2>2
<1>12. /\ v # NoValue /\ w[k] = NoValue => Cardinality(Q) = Cardinality(P) + 1
       /\ v = NoValue /\ w[k] # NoValue => Cardinality(Q) = Cardinality(P) - 1
  BY <1>5, <1>7, <1>9, <1>10, Zenon
<1> QED
  BY <1>2, <1>6, <1>11, <1>12, Zenon DEF P, Q, z

\* More buckets: nothing is lost when the entries have their hash values.
LEMMA ExtendedKeeps ==
  ASSUME NEW core \in Cores
  PROVE  /\ Extended(core) \in Cores
         /\ Extended(core).log2 = core.log2 + ExtendBits /\ Extended(core).count = core.count
         /\ Extended(core).immutable = core.immutable
         /\ Remembers(core.log2, core.buckets)
              => /\ Remembers(Extended(core).log2, Extended(core).buckets)
                 /\ \A w \in Wanted : Good(core, w) => Good(Extended(core), w)
<1> DEFINE l == core.log2 + ExtendBits
           b == Rehashed(core, l, l)
           all == Iterated(core)
<1>1. /\ core.log2 \in Nat /\ core.buckets \in [Buckets(core.log2) -> Seq(Entries)]
      /\ core.count \in Int /\ core.immutable \in BOOLEAN
      /\ core = [log2 |-> core.log2, buckets |-> core.buckets, count |-> core.count,
                 immutable |-> core.immutable]
  BY CoreFields, Zenon
<1>2. l \in Nat
  <2>1. ExtendBits \in Nat
    BY HashAssumption
  <2> QED
    BY <1>1, <2>1
<1>3. Extended(core) = [log2 |-> l, buckets |-> b, count |-> core.count, immutable |-> core.immutable]
  <2>1. Extended(core) = [core EXCEPT !.log2 = l, !.buckets = b]
    BY Zenon DEF Extended
  <2> HIDE DEF l, b
  <2> QED
    BY <1>1, <2>1, Zenon
<1>4. /\ all \in Seq(Entries)
      /\ \A e : e \in Range(all) <=> \E i \in Buckets(core.log2) : e \in Range(core.buckets[i])
      /\ Placed(core.log2, core.buckets) => KeyedOnce(all)
  BY IteratedAll, Zenon
<1> HIDE DEF l
<1>5. /\ b \in [Buckets(l) -> Seq(Entries)]
      /\ \A i \in Buckets(l) : \A e :
           e \in Range(b[i]) <=> e \in Range(all) /\ HASH2INDEX(l, e.hash) = i
      /\ KeyedOnce(all) => \A i \in Buckets(l) : KeyedOnce(b[i])
  BY <1>2, <1>4, RehashedAll, Zenon
<1> HIDE DEF b, all
<1>6. /\ Extended(core) \in Cores /\ Extended(core).log2 = l /\ Extended(core).buckets = b
      /\ Extended(core).count = core.count /\ Extended(core).immutable = core.immutable
  BY <1>1, <1>2, <1>3, <1>5, MakeCore
<1>7. ASSUME Remembers(core.log2, core.buckets)
      PROVE  Remembers(l, b) /\ \A w \in Wanted : Good(core, w) => Good(Extended(core), w)
  <2>1. \A e \in Range(all) : e.hash = Hash[e.key]
    BY <1>4, <1>7, Zenon DEF Remembers
  <2>2. Remembers(l, b)
    BY <1>5, <2>1, Zenon DEF Remembers
  <2>3. ASSUME NEW w \in Wanted, Good(core, w) PROVE Good(Extended(core), w)
    <3>1. Placed(core.log2, core.buckets) /\ Counts(core.count, w)
      BY <2>3, Zenon DEF Good, Holds
    <3>2. Placed(l, b)
      <4>1. \A i \in Buckets(l) : KeyedOnce(b[i])
        BY <1>4, <1>5, <3>1, Zenon
      <4>2. \A i \in Buckets(l) : \A e \in Range(b[i]) : HASH2INDEX(l, Hash[e.key]) = i
        BY <1>5, <2>1, Zenon
      <4> QED
        BY <4>1, <4>2, Zenon DEF Placed
    <3>3. ASSUME NEW k \in HashKeys PROVE FindsIn(Range(b[HASH2INDEX(l, Hash[k])]), k, w[k])
      <4> DEFINE x == HASH2INDEX(core.log2, Hash[k])
                 y == HASH2INDEX(l, Hash[k])
      <4>1. x \in Buckets(core.log2) /\ y \in Buckets(l)
        BY <1>1, <1>2, KeyIndex, Zenon
      <4>2. FindsIn(Range(core.buckets[x]), k, w[k])
        BY <2>3, Zenon DEF Good, Holds
      <4>3. ASSUME NEW e, e.key = k PROVE e \in Range(core.buckets[x]) <=> e \in Range(b[y])
        <5>1. ASSUME e \in Range(core.buckets[x]) PROVE e \in Range(b[y])
          <6>1. e \in Range(all)
            BY <1>4, <4>1, <5>1, Zenon
          <6>2. HASH2INDEX(l, e.hash) = y
            BY <2>1, <4>3, <6>1, Zenon
          <6> QED
            BY <1>5, <4>1, <6>1, <6>2, Zenon
        <5>2. ASSUME e \in Range(b[y]) PROVE e \in Range(core.buckets[x])
          <6>1. PICK i \in Buckets(core.log2) : e \in Range(core.buckets[i])
            BY <1>4, <1>5, <4>1, <5>2, Zenon
          <6>2. HASH2INDEX(core.log2, Hash[e.key]) = i
            BY <3>1, <6>1, Zenon DEF Placed
          <6> QED
            BY <4>3, <6>1, <6>2, Zenon
        <5> QED
          BY <5>1, <5>2
      <4> HIDE DEF x, y
      <4>4. FindsIn(Range(b[y]), k, w[k])
        BY <4>2, <4>3, Zenon DEF FindsIn
      <4> QED
        BY <4>4 DEF y
    <3> QED
      BY <1>6, <3>1, <3>2, <3>3, Zenon DEF Good, Holds
  <2> QED
    BY <2>2, <2>3, Zenon
<1> QED
  BY <1>6, <1>7, Zenon DEF l

\* What hashtable-ref returns.
LEMMA GoodRef ==
  ASSUME NEW core \in Cores, NEW w \in Wanted, Holds(core.log2, core.buckets, w), NEW k \in HashKeys
  PROVE  Sg_HashTableRef(core, k) = w[k]
<1> DEFINE x == HASH2INDEX(core.log2, Hash[k])
           c == core.buckets[x]
<1>1. x \in Buckets(core.log2) /\ c \in Seq(Entries)
  <2>1. core.log2 \in Nat /\ core.buckets \in [Buckets(core.log2) -> Seq(Entries)]
    BY CoreFields, Zenon
  <2>2. x \in Buckets(core.log2)
    BY <2>1, KeyIndex, Zenon
  <2> QED
    BY <2>1, <2>2, Zenon
<1>2. KeyedOnce(c) /\ FindsIn(Range(c), k, w[k])
  BY <1>1, Zenon DEF Holds, Placed
<1>3. Sg_HashTableRef(core, k) = IF Position(c, k) = 0 THEN NoValue ELSE c[Position(c, k)].value
  BY Zenon DEF Sg_HashTableRef, Index
<1> HIDE DEF c
<1>4. /\ Position(c, k) = 0 => w[k] = NoValue
      /\ Position(c, k) # 0 => c[Position(c, k)].value = w[k]
  BY <1>1, <1>2, FindsKey, Zenon
<1> QED
  BY <1>3, <1>4, Zenon

\* What hashtable-ref may return.
LEMMA RefType ==
  ASSUME NEW core \in Cores, NEW k \in HashKeys
  PROVE  Sg_HashTableRef(core, k) \in HashValues \cup {NoValue}
<1> DEFINE c == core.buckets[HASH2INDEX(core.log2, Hash[k])]
           p == Position(c, k)
<1>1. c \in Seq(Entries)
  <2>1. core.log2 \in Nat /\ core.buckets \in [Buckets(core.log2) -> Seq(Entries)]
    BY CoreFields, Zenon
  <2>2. HASH2INDEX(core.log2, Hash[k]) \in Buckets(core.log2)
    BY <2>1, KeyIndex, Zenon
  <2> QED
    BY <2>1, <2>2, Zenon
<1>2. Sg_HashTableRef(core, k) = IF p = 0 THEN NoValue ELSE c[p].value
  BY Zenon DEF Sg_HashTableRef, Index
<1> HIDE DEF c
<1>3. p = 0 \/ p \in 1..Len(c)
  BY <1>1, Positioned, Zenon
<1> HIDE DEF p
<1>4. p # 0 => c[p] \in Entries
  BY <1>1, <1>3
<1>5. p # 0 => c[p].value \in HashValues \cup {NoValue}
  BY <1>4 DEF Entries
<1> QED
  BY <1>2, <1>5, Zenon

\* A table with other chains and another count.
LEMMA CoreChanged ==
  ASSUME NEW core \in Cores, NEW d, NEW m
  PROVE  [core EXCEPT !.buckets = d, !.count = m]
           = [log2 |-> core.log2, buckets |-> d, count |-> m, immutable |-> core.immutable]
<1> DEFINE c == [core EXCEPT !.buckets = d]
<1>1. core = [log2 |-> core.log2, buckets |-> core.buckets, count |-> core.count,
              immutable |-> core.immutable]
  BY CoreFields, Zenon
<1>2. c = [log2 |-> core.log2, buckets |-> d, count |-> core.count, immutable |-> core.immutable]
  BY <1>1
<1>3. [core EXCEPT !.buckets = d, !.count = m] = [c EXCEPT !.count = m]
  OBVIOUS
<1> HIDE DEF c
<1>4. [c EXCEPT !.count = m]
        = [log2 |-> core.log2, buckets |-> d, count |-> m, immutable |-> core.immutable]
  BY <1>2
<1> QED
  BY <1>3, <1>4, Zenon

\* The table of insert_entry before it may get more buckets.
Entered(core, k, v) ==
  [core EXCEPT !.buckets = Moved(@, core.log2, [key |-> k, hash |-> Hash[k], value |-> v]),
               !.count = @ + 1]

\* A new key is found, and the others as before.
LEMMA EnteredKeeps ==
  ASSUME NEW core \in Cores, NEW k \in HashKeys, NEW v \in HashValues \cup {NoValue},
         Position(core.buckets[Index(core, k)], k) = 0
  PROVE  /\ Entered(core, k, v) \in Cores /\ Entered(core, k, v).log2 = core.log2
         /\ Remembers(core.log2, core.buckets)
              => Remembers(core.log2, Entered(core, k, v).buckets)
         /\ v \in HashValues => \A w \in Wanted :
              Good(core, w) => Good(Entered(core, k, v), [w EXCEPT ![k] = v])
<1> DEFINE l == core.log2
           b == core.buckets
           e == [key |-> k, hash |-> Hash[k], value |-> v]
           x == HASH2INDEX(l, Hash[k])
           c == <<e>> \o b[x]
           d == Moved(b, l, e)
           new == Entered(core, k, v)
<1>1. /\ l \in Nat /\ b \in [Buckets(l) -> Seq(Entries)]
      /\ core.count \in Int /\ core.immutable \in BOOLEAN
      /\ core = [log2 |-> l, buckets |-> b, count |-> core.count, immutable |-> core.immutable]
  BY CoreFields, Zenon
<1>2. e \in Entries /\ e.key = k /\ e.hash = Hash[k] /\ e.value = v
  <2>1. Hash[k] \in HashCodes
    BY HashType, Zenon
  <2> QED
    BY <2>1 DEF Entries
<1>3. new = [log2 |-> l, buckets |-> d, count |-> core.count + 1, immutable |-> core.immutable]
  <2> DEFINE m == core.count + 1
  <2>1. new = [core EXCEPT !.buckets = d, !.count = m]
    BY Zenon DEF Entered
  <2> HIDE DEF l, b, d, m, new
  <2>2. new = [log2 |-> l, buckets |-> d, count |-> m, immutable |-> core.immutable]
    BY <2>1, CoreChanged, Zenon DEF l
  <2> QED
    BY <2>2, Zenon DEF m
<1>4. Position(b[x], k) = 0
  BY Zenon DEF Index
<1> HIDE DEF l, b, e, new
<1>5. /\ x \in Buckets(l) /\ d \in [Buckets(l) -> Seq(Entries)] /\ d[x] = c
      /\ \A i \in Buckets(l) : i # x => d[i] = b[i]
  <2>1. /\ HASH2INDEX(l, e.hash) \in Buckets(l) /\ d \in [Buckets(l) -> Seq(Entries)]
        /\ d[HASH2INDEX(l, e.hash)] = <<e>> \o b[HASH2INDEX(l, e.hash)]
        /\ \A i \in Buckets(l) : i # HASH2INDEX(l, e.hash) => d[i] = b[i]
    BY <1>1, <1>2, MovedType, Zenon
  <2> HIDE DEF d
  <2> QED
    BY <1>2, <2>1, ZenonT(40)
<1>6. d = [b EXCEPT ![x] = c]
  <2>1. d = [b EXCEPT ![HASH2INDEX(l, e.hash)] = <<e>> \o b[HASH2INDEX(l, e.hash)]]
    BY Zenon DEF Moved
  <2> QED
    BY <1>2, <2>1, Zenon
<1> HIDE DEF d
<1>7. new \in Cores /\ new.log2 = l /\ new.buckets = d /\ new.count = core.count + 1
  <2>1. core.count + 1 \in Int
    BY <1>1
  <2> QED
    BY <1>1, <1>3, <1>5, <2>1, MakeCore, Zenon
<1>8. b[x] \in Seq(Entries)
  BY <1>1, <1>5, Zenon
<1>9. \A y \in Range(b[x]) : y.key # k
  BY <1>4, <1>8, Positioned, Zenon
<1> HIDE DEF x
<1>10. /\ c \in Seq(Entries) /\ Range(c) = {e} \cup Range(b[x])
       /\ KeyedOnce(b[x]) => KeyedOnce(c)
  <2>1. /\ c \in Seq(Entries) /\ Range(c) = {e} \cup Range(b[x])
        /\ KeyedOnce(b[x]) /\ (\A y \in Range(b[x]) : y.key # e.key) => KeyedOnce(c)
    BY <1>2, <1>8, Linked
  <2> QED
    BY <1>2, <1>9, <2>1, ZenonT(40)
<1> HIDE DEF c
<1>11. ASSUME Remembers(l, b) PROVE Remembers(l, d)
  <2> SUFFICES ASSUME NEW i \in Buckets(l), NEW y \in Range(d[i]) PROVE y.hash = Hash[y.key]
    BY Zenon DEF Remembers
  <2>1. y = e \/ y \in Range(b[i])
    BY <1>5, <1>10, Zenon
  <2> QED
    BY <1>2, <1>11, <2>1, Zenon DEF Remembers
<1>12. ASSUME v \in HashValues, NEW w \in Wanted, Good(core, w)
       PROVE  Good(new, [w EXCEPT ![k] = v])
  <2>1. Holds(l, b, w) /\ Counts(core.count, w)
    BY <1>12, Zenon DEF Good, l, b
  <2>2. KeyedOnce(b[x]) /\ (\A y \in Range(b[x]) : HASH2INDEX(l, Hash[y.key]) = x)
        /\ FindsIn(Range(b[x]), k, w[k])
    BY <1>5, <2>1, Zenon DEF Holds, Placed, x
  <2>3. w[k] = NoValue /\ v # NoValue
    <3>1. v # NoValue
      BY <1>12, HashAssumption, Zenon
    <3>2. w[k] = NoValue
      BY <1>4, <1>8, <2>2, FindsKey, Zenon DEF x
    <3> QED
      BY <3>1, <3>2
  <2>4. FindsIn(Range(c), k, v)
        /\ \A o : o # k => \A y : FindsIn(Range(b[x]), o, y) => FindsIn(Range(c), o, y)
    <3>1. /\ FindsIn({e} \cup Range(b[x]), e.key, e.value)
          /\ \A o : o # e.key => \A y : FindsIn(Range(b[x]), o, y) => FindsIn({e} \cup Range(b[x]), o, y)
      BY <1>2, <2>3, LinkedFinds, Zenon
    <3> QED
      BY <1>2, <1>10, <3>1, Zenon
  <2>5. \A y \in Range(c) : HASH2INDEX(l, Hash[y.key]) = x
    BY <1>2, <1>10, <2>2, Zenon DEF x
  <2>6. Holds(l, d, [w EXCEPT ![k] = v])
    <3>1. x = HASH2INDEX(l, Hash[k])
      BY DEF x
    <3> QED
      BY <1>1, <1>6, <1>10, <2>1, <2>2, <2>4, <2>5, <3>1, ChainHolds, Zenon
  <2>7. Counts(core.count + 1, [w EXCEPT ![k] = v])
    <3>1. IsFiniteSet(Present(w)) /\ core.count = Cardinality(Present(w))
      BY <2>1, Zenon DEF Counts
    <3>2. /\ IsFiniteSet(Present([w EXCEPT ![k] = v]))
          /\ Cardinality(Present([w EXCEPT ![k] = v])) = Cardinality(Present(w)) + 1
      BY <2>3, <3>1, Counted, Zenon
    <3> QED
      BY <3>1, <3>2, Zenon DEF Counts
  <2> QED
    BY <1>7, <2>6, <2>7, Zenon DEF Good
<1> QED
  BY <1>7, <1>11, <1>12, Zenon DEF new, l, b

\* The table with another value for a key that it has.
LEMMA RevaluedKeeps ==
  ASSUME NEW core \in Cores, NEW k \in HashKeys, NEW v \in HashValues \cup {NoValue},
         NEW x, x = Index(core, k), NEW n, n = Position(core.buckets[x], k), n # 0
  PROVE  LET new == [core EXCEPT !.buckets[x][n].value = v]
         IN  /\ new \in Cores /\ new.log2 = core.log2
             /\ Remembers(core.log2, core.buckets) => Remembers(core.log2, new.buckets)
             /\ v \in HashValues => \A w \in Wanted :
                  Good(core, w) => Good(new, [w EXCEPT ![k] = v])
<1> DEFINE l == core.log2
           b == core.buckets
           p == b[x]
           c == [p EXCEPT ![n].value = v]
           d == [b EXCEPT ![x] = c]
           new == [core EXCEPT !.buckets[x][n].value = v]
<1>1. /\ l \in Nat /\ b \in [Buckets(l) -> Seq(Entries)]
      /\ core.count \in Int /\ core.immutable \in BOOLEAN
      /\ core = [log2 |-> l, buckets |-> b, count |-> core.count, immutable |-> core.immutable]
  BY CoreFields, Zenon
<1>2. x = HASH2INDEX(l, Hash[k]) /\ x \in Buckets(l)
  <2>1. x = HASH2INDEX(l, Hash[k])
    BY Zenon DEF Index
  <2> QED
    BY <1>1, <2>1, KeyIndex, Zenon
<1>3. new = [log2 |-> l, buckets |-> d, count |-> core.count, immutable |-> core.immutable]
  <2>1. new = [core EXCEPT !.buckets = d]
    BY Zenon
  <2> HIDE DEF l, b, d, new
  <2> QED
    BY <1>1, <2>1
<1> HIDE DEF l, b, new
<1>4. p \in Seq(Entries)
  BY <1>1, <1>2, Zenon
<1>5. n \in 1..Len(p) /\ p[n].key = k
  <2>1. n = Position(p, k)
    BY DEF b
  <2> HIDE DEF p
  <2> QED
    BY <1>4, <2>1, Positioned, Zenon
<1> HIDE DEF p
<1>6. /\ c \in Seq(Entries) /\ Len(c) = Len(p) /\ \A i \in 1..Len(p) : i # n => c[i] = p[i]
      /\ c[n].key = p[n].key /\ c[n].hash = p[n].hash /\ c[n].value = v
  BY <1>4, <1>5, Valued
<1> HIDE DEF c
<1>7. d \in [Buckets(l) -> Seq(Entries)] /\ d[x] = c /\ \A i \in Buckets(l) : i # x => d[i] = b[i]
  BY <1>1, <1>2, <1>6, Zenon
<1>8. new \in Cores /\ new.log2 = l /\ new.buckets = d /\ new.count = core.count
  <2> HIDE DEF d
  <2> QED
    BY <1>1, <1>3, <1>7, MakeCore
<1>9. \A y : y \in Range(p) <=> \E i \in 1..Len(p) : p[i] = y
  BY <1>4, InRange, Zenon
<1>10. \A y : y \in Range(c) <=> \E i \in 1..Len(p) : c[i] = y
  <2>1. \A y : y \in Range(c) <=> \E i \in 1..Len(c) : c[i] = y
    BY <1>6, InRange, Zenon
  <2> QED
    BY <1>6, <2>1, Zenon
<1>11. \A y \in Range(c) : \E z \in Range(p) : y.key = z.key /\ y.hash = z.hash
  <2> SUFFICES ASSUME NEW y \in Range(c) PROVE \E z \in Range(p) : y.key = z.key /\ y.hash = z.hash
    BY Zenon
  <2>1. PICK i \in 1..Len(p) : c[i] = y
    BY <1>10, Zenon
  <2>2. p[i] \in Range(p)
    BY <1>9, Zenon
  <2>3. c[i].key = p[i].key /\ c[i].hash = p[i].hash
    BY <1>6, Zenon
  <2> QED
    BY <2>1, <2>2, <2>3, Zenon
<1>12. ASSUME Remembers(l, b) PROVE Remembers(l, d)
  <2> SUFFICES ASSUME NEW i \in Buckets(l), NEW y \in Range(d[i]) PROVE y.hash = Hash[y.key]
    BY Zenon DEF Remembers
  <2>1. CASE i = x
    <3>1. PICK z \in Range(p) : y.key = z.key /\ y.hash = z.hash
      BY <1>7, <1>11, <2>1, Zenon
    <3>2. z.hash = Hash[z.key]
      BY <1>2, <1>12, Zenon DEF Remembers, p
    <3> QED
      BY <3>1, <3>2, Zenon
  <2>2. CASE i # x
    BY <1>7, <1>12, <2>2, Zenon DEF Remembers
  <2> QED
    BY <2>1, <2>2
<1>13. ASSUME v \in HashValues, NEW w \in Wanted, Good(core, w)
       PROVE  Good(new, [w EXCEPT ![k] = v])
  <2>1. Holds(l, b, w) /\ Counts(core.count, w)
    BY <1>13, Zenon DEF Good, l, b
  <2>2. KeyedOnce(p) /\ (\A y \in Range(p) : HASH2INDEX(l, Hash[y.key]) = x)
        /\ FindsIn(Range(p), k, w[k])
    BY <1>2, <2>1, Zenon DEF Holds, Placed, p
  <2>3. w[k] # NoValue /\ v # NoValue
    <3>1. v # NoValue
      BY <1>13, HashAssumption, Zenon
    <3>2. Position(p, k) # 0
      BY DEF p, b
    <3>3. w[k] # NoValue
      BY <1>4, <2>2, <3>2, FindsKey, Zenon
    <3> QED
      BY <3>1, <3>3
  <2>4. /\ KeyedOnce(c) /\ FindsIn(Range(c), p[n].key, v)
        /\ \A o : o # p[n].key => \A y : FindsIn(Range(p), o, y) => FindsIn(Range(c), o, y)
    <3>1. c \in Seq(Entries) /\ Len(c) = Len(p) /\ \A i \in 1..Len(p) : i # n => c[i] = p[i]
      BY <1>6, Zenon
    <3>2. c[n].key = p[n].key /\ c[n].value = v /\ KeyedOnce(p)
      BY <1>6, <2>2, Zenon
    <3> QED
      BY <1>4, <1>5, <1>13, <3>1, <3>2, ValuedFinds, Zenon
  <2>5. /\ KeyedOnce(c) /\ FindsIn(Range(c), k, v)
        /\ \A o : o # k => \A y : FindsIn(Range(b[x]), o, y) => FindsIn(Range(c), o, y)
    BY <1>5, <2>4, Zenon DEF p
  <2>6. \A y \in Range(c) : HASH2INDEX(l, Hash[y.key]) = x
    BY <1>11, <2>2, Zenon
  <2>7. Holds(l, d, [w EXCEPT ![k] = v])
    BY <1>1, <1>2, <1>6, <2>1, <2>5, <2>6, ChainHolds, Zenon
  <2>8. Counts(core.count, [w EXCEPT ![k] = v])
    <3>1. IsFiniteSet(Present(w)) /\ core.count = Cardinality(Present(w))
      BY <2>1, Zenon DEF Counts
    <3>2. Present([w EXCEPT ![k] = v]) = Present(w)
      BY <2>3, <3>1, Counted, Zenon
    <3> QED
      BY <3>1, <3>2, Zenon DEF Counts
  <2> QED
    BY <1>8, <2>7, <2>8, Zenon DEF Good
<1> QED
  BY <1>8, <1>12, <1>13, Zenon DEF new, l, b

\* hashtable-set! makes the table find the value, and the other keys as before; a
\* table that grows must know the hash values of its entries.
LEMMA SetKeeps ==
  ASSUME NEW core \in Cores, NEW k \in HashKeys, NEW v \in HashValues \cup {NoValue}
  PROVE  LET new == Set(core, k, v)
         IN  /\ new \in Cores /\ new.log2 >= core.log2
             /\ Remembers(core.log2, core.buckets) => Remembers(new.log2, new.buckets)
             /\ v \in HashValues /\ (Remembers(core.log2, core.buckets) \/ new.log2 = core.log2)
                  => \A w \in Wanted : Good(core, w) => Good(new, [w EXCEPT ![k] = v])
<1> DEFINE new == Set(core, k, v)
           x == Index(core, k)
           n == Position(core.buckets[x], k)
           in == Entered(core, k, v)
           re == [core EXCEPT !.buckets[x][n].value = v]
<1>1. core.log2 \in Nat /\ core.log2 >= core.log2 /\ ExtendBits \in Nat \ {0}
  <2>1. core.log2 \in Nat /\ ExtendBits \in Nat \ {0}
    BY CoreFields, HashAssumption
  <2> QED
    BY <2>1
<1>2. CASE n # 0
  <2>1. /\ re \in Cores /\ re.log2 = core.log2
        /\ Remembers(core.log2, core.buckets) => Remembers(core.log2, re.buckets)
        /\ v \in HashValues => \A w \in Wanted : Good(core, w) => Good(re, [w EXCEPT ![k] = v])
    BY <1>2, RevaluedKeeps, Zenon
  <2>2. new = re
    BY <1>2, Zenon DEF Set
  <2> HIDE DEF re, new, n, x
  <2> QED
    BY <1>1, <2>1, <2>2, Zenon DEF new
<1>3. CASE n = 0
  <2>1. /\ in \in Cores /\ in.log2 = core.log2
        /\ Remembers(core.log2, core.buckets) => Remembers(core.log2, in.buckets)
        /\ v \in HashValues => \A w \in Wanted : Good(core, w) => Good(in, [w EXCEPT ![k] = v])
    BY <1>3, EnteredKeeps, Zenon
  <2>2. new = IF TooManyChains(in) THEN Extended(in) ELSE in
    BY <1>3, Zenon DEF Set, insert_entry, Entered
  <2> HIDE DEF in, new, n, x
  <2>3. CASE ~TooManyChains(in)
    <3>1. new = in
      BY <2>2, <2>3, Zenon
    <3> QED
      BY <1>1, <2>1, <3>1, Zenon DEF new
  <2>4. CASE TooManyChains(in)
    <3>1. new = Extended(in)
      BY <2>2, <2>4, Zenon
    <3>2. /\ new \in Cores /\ new.log2 = core.log2 + ExtendBits
          /\ Remembers(core.log2, in.buckets)
               => /\ Remembers(new.log2, new.buckets)
                  /\ \A w \in Wanted : Good(in, w) => Good(new, w)
      BY <2>1, <3>1, ExtendedKeeps, Zenon
    <3>3. new.log2 >= core.log2 /\ new.log2 # core.log2
      <4> HIDE DEF new
      <4> QED
        BY <1>1, <3>2
    <3>4. ASSUME NEW w \in Wanted, v \in HashValues PROVE [w EXCEPT ![k] = v] \in Wanted
      BY <3>4, Zenon DEF Wanted
    <3> QED
      BY <2>1, <3>2, <3>3, <3>4, Zenon DEF new
  <2> QED
    BY <2>3, <2>4
<1> QED
  BY <1>2, <1>3

\* hashtable-delete! makes the table find nothing for the key.
LEMMA DeleteKeeps ==
  ASSUME NEW core \in Cores, NEW k \in HashKeys
  PROVE  LET new == Delete(core, k)
         IN  /\ new \in Cores
             /\ \A w \in Wanted : Good(core, w) => Good(new, [w EXCEPT ![k] = NoValue])
<1> DEFINE l == core.log2
           b == core.buckets
           x == HASH2INDEX(l, Hash[k])
           p == b[x]
           n == Position(p, k)
           c == Unlinked(p, n)
           d == [b EXCEPT ![x] = c]
           m == core.count - 1
           new == Delete(core, k)
<1>1. l \in Nat /\ b \in [Buckets(l) -> Seq(Entries)] /\ core.count \in Int /\ core.immutable \in BOOLEAN
  BY CoreFields, Zenon
<1>2. x \in Buckets(l) /\ p \in Seq(Entries)
  <2>1. x \in Buckets(l)
    BY <1>1, KeyIndex, Zenon
  <2> QED
    BY <1>1, <2>1, Zenon
<1>3. new = IF n = 0 THEN core ELSE [core EXCEPT !.buckets = d, !.count = m]
  BY Zenon DEF Delete, Index
<1>4. ASSUME NEW w \in Wanted, Good(core, w)
      PROVE  /\ KeyedOnce(p) /\ \A y \in Range(p) : HASH2INDEX(l, Hash[y.key]) = x
             /\ (n = 0 => w[k] = NoValue) /\ (n # 0 => w[k] # NoValue)
             /\ Holds(l, b, w) /\ IsFiniteSet(Present(w)) /\ core.count = Cardinality(Present(w))
  <2>1. Holds(l, b, w) /\ IsFiniteSet(Present(w)) /\ core.count = Cardinality(Present(w))
    BY <1>4, Zenon DEF Good, Counts
  <2>2. KeyedOnce(p) /\ (\A y \in Range(p) : HASH2INDEX(l, Hash[y.key]) = x)
        /\ FindsIn(Range(p), k, w[k])
    BY <1>2, <2>1, Zenon DEF Holds, Placed
  <2> HIDE DEF p
  <2>3. (n = 0 => w[k] = NoValue) /\ (n # 0 => w[k] # NoValue)
    BY <1>2, <2>2, FindsKey, Zenon
  <2> QED
    BY <2>1, <2>2, <2>3, Zenon
<1>5. CASE n = 0
  <2>1. new = core
    BY <1>3, <1>5, Zenon
  <2>2. ASSUME NEW w \in Wanted, Good(core, w) PROVE [w EXCEPT ![k] = NoValue] = w
    <3>1. w[k] = NoValue
      BY <1>4, <1>5, <2>2, Zenon
    <3> QED
      BY <3>1, Zenon DEF Wanted
  <2> QED
    BY <2>1, <2>2, Zenon
<1>6. CASE n # 0
  <2>1. n \in 1..Len(p) /\ p[n].key = k
    <3> HIDE DEF p
    <3> QED
      BY <1>2, <1>6, Positioned, Zenon
  <2>2. new = [log2 |-> l, buckets |-> d, count |-> m, immutable |-> core.immutable]
    <3>1. new = [core EXCEPT !.buckets = d, !.count = m]
      BY <1>3, <1>6, Zenon
    <3> HIDE DEF d, m, new
    <3> QED
      BY <3>1, CoreChanged, Zenon
  <2> HIDE DEF new, p, n, x, l, b
  <2>3. /\ c \in Seq(Entries)
        /\ \A e \in Range(c) : e \in Range(p)
        /\ KeyedOnce(p) => KeyedOnce(c) /\ FindsIn(Range(c), p[n].key, NoValue)
        /\ \A o : o # p[n].key => \A y : FindsIn(Range(p), o, y) => FindsIn(Range(c), o, y)
    BY <1>2, <2>1, UnlinkedType, Zenon
  <2> HIDE DEF c
  <2>4. d \in [Buckets(l) -> Seq(Entries)] /\ m \in Int
    <3>1. d \in [Buckets(l) -> Seq(Entries)]
      BY <1>1, <1>2, <2>3, Zenon
    <3>2. m \in Int
      BY <1>1
    <3> QED
      BY <3>1, <3>2
  <2>5. new \in Cores /\ new.log2 = l /\ new.buckets = d /\ new.count = m
    <3> HIDE DEF d, m
    <3> QED
      BY <1>1, <2>2, <2>4, MakeCore
  <2>6. ASSUME NEW w \in Wanted, Good(core, w) PROVE Good(new, [w EXCEPT ![k] = NoValue])
    <3>1. /\ KeyedOnce(p) /\ \A y \in Range(p) : HASH2INDEX(l, Hash[y.key]) = x
          /\ w[k] # NoValue
          /\ Holds(l, b, w) /\ IsFiniteSet(Present(w)) /\ core.count = Cardinality(Present(w))
      BY <1>4, <1>6, <2>6, Zenon
    <3>2. \A y \in Range(c) : HASH2INDEX(l, Hash[y.key]) = x
      BY <2>3, <3>1, Zenon
    <3>3. /\ KeyedOnce(c) /\ FindsIn(Range(c), k, NoValue)
          /\ \A o : o # k => \A y : FindsIn(Range(b[x]), o, y) => FindsIn(Range(c), o, y)
      BY <2>1, <2>3, <3>1, Zenon DEF p
    <3>4. Holds(l, d, [w EXCEPT ![k] = NoValue])
      <4>1. x = HASH2INDEX(l, Hash[k]) /\ NoValue \in HashValues \cup {NoValue}
        BY Zenon DEF x
      <4> QED
        BY <1>1, <2>3, <3>1, <3>2, <3>3, <4>1, ChainHolds, Zenon
    <3>5. /\ IsFiniteSet(Present([w EXCEPT ![k] = NoValue]))
          /\ Cardinality(Present([w EXCEPT ![k] = NoValue])) = m
      <4>1. /\ IsFiniteSet(Present([w EXCEPT ![k] = NoValue]))
            /\ Cardinality(Present([w EXCEPT ![k] = NoValue])) = Cardinality(Present(w)) - 1
        BY <3>1, Counted, Zenon
      <4> QED
        BY <3>1, <4>1, Zenon
    <3> QED
      BY <2>5, <3>4, <3>5, Zenon DEF Good, Counts
  <2> QED
    BY <2>5, <2>6, Zenon DEF new
<1> QED
  BY <1>5, <1>6

(***************************************************************************)
(* New, cleared and copied tables.                                         *)
(***************************************************************************)
LEMMA EmptyTable ==
  ASSUME NEW l \in Nat, NEW im \in BOOLEAN
  PROVE  LET core == [log2 |-> l, buckets |-> [i \in Buckets(l) |-> <<>>], count |-> 0,
                      immutable |-> im]
         IN  core \in Cores /\ Good(core, Nothing)
<1> DEFINE b == [i \in Buckets(l) |-> <<>>]
           core == [log2 |-> l, buckets |-> b, count |-> 0, immutable |-> im]
<1>1. b \in [Buckets(l) -> Seq(Entries)] /\ (\A i \in Buckets(l) : b[i] = <<>>) /\ 0 \in Int
  <2>1. <<>> \in Seq(Entries)
    OBVIOUS
  <2> QED
    BY <2>1
<1> HIDE DEF b
<1>2. core \in Cores /\ core.log2 = l /\ core.buckets = b /\ core.count = 0
  BY <1>1, MakeCore
<1> HIDE DEF core
<1>3. Range(<<>>) = {} /\ KeyedOnce(<<>>)
  BY DEF Range, KeyedOnce
<1>4. Placed(l, b)
  BY <1>1, <1>3, Zenon DEF Placed
<1>5. ASSUME NEW k \in HashKeys PROVE FindsIn(Range(b[HASH2INDEX(l, Hash[k])]), k, Nothing[k])
  <2>1. HASH2INDEX(l, Hash[k]) \in Buckets(l)
    BY KeyIndex, Zenon
  <2>2. Range(b[HASH2INDEX(l, Hash[k])]) = {} /\ Nothing[k] = NoValue
    BY <1>1, <1>3, <2>1, Zenon DEF Nothing
  <2> QED
    BY <2>2, Zenon DEF FindsIn
<1>6. Counts(0, Nothing)
  <2>1. Present(Nothing) = {}
    BY Zenon DEF Present, Nothing
  <2> QED
    BY <2>1, FS_EmptySet, Zenon DEF Counts
<1>7. Good(core, Nothing)
  BY <1>2, <1>4, <1>5, <1>6, Zenon DEF Good, Holds
<1> QED
  BY <1>2, <1>7, Zenon DEF core, b

\* hash_core_init makes an empty table.
LEMMA InitKeeps ==
  ASSUME NEW size \in Nat
  PROVE  hash_core_init(size) \in Cores /\ Good(hash_core_init(size), Nothing)
<1> DEFINE l == IF size # 0 THEN round2up(size) ELSE DefaultLog2
<1>1. l \in Nat
  <2>1. DefaultLog2 \in Nat
    BY HashAssumption
  <2> QED
    BY <2>1, RoundedUp, Zenon
<1>2. hash_core_init(size) = [log2 |-> l, buckets |-> [i \in Buckets(l) |-> <<>>], count |-> 0,
                              immutable |-> FALSE]
  BY Zenon DEF hash_core_init
<1>3. FALSE \in BOOLEAN
  OBVIOUS
<1> HIDE DEF l
<1> QED
  BY <1>1, <1>2, <1>3, EmptyTable, Zenon

\* hashtable-clear! makes the table empty, with the buckets it has or others.
LEMMA ClearKeeps ==
  ASSUME NEW core \in Cores, NEW k \in Nat
  PROVE  Sg_HashCoreClear(core, k) \in Cores /\ Good(Sg_HashCoreClear(core, k), Nothing)
<1>1. CASE k > 0
  BY <1>1, InitKeeps, Zenon DEF Sg_HashCoreClear
<1>2. CASE ~(k > 0)
  <2> DEFINE l == core.log2
             b == core.buckets
             d == [i \in Buckets(l) |-> <<>>]
             new == Sg_HashCoreClear(core, k)
  <2>1. l \in Nat /\ b \in [Buckets(l) -> Seq(Entries)] /\ core.immutable \in BOOLEAN
    BY CoreFields, Zenon
  <2>2. DOMAIN b = Buckets(l)
    BY <2>1, Zenon
  <2>3. new = [core EXCEPT !.buckets = [i \in DOMAIN b |-> <<>>], !.count = 0]
    BY <1>2, Zenon DEF Sg_HashCoreClear
  <2>4. new = [core EXCEPT !.buckets = d, !.count = 0]
    BY <2>2, <2>3, Zenon
  <2>5. new = [log2 |-> l, buckets |-> d, count |-> 0, immutable |-> core.immutable]
    <3> HIDE DEF d, new
    <3> QED
      BY <2>4, CoreChanged, Zenon
  <2> HIDE DEF new, l
  <2>6. new \in Cores /\ Good(new, Nothing)
    BY <2>1, <2>5, EmptyTable
  <2> QED
    BY <2>6 DEF new
<1> QED
  BY <1>1, <1>2

\* A copied chain finds the same.
LEMMA FreshChain ==
  ASSUME NEW c \in Seq(Entries), NEW r, r = [n \in DOMAIN c |-> [c[n] EXCEPT !.hash = 0]]
  PROVE  /\ r \in Seq(Entries) /\ (KeyedOnce(c) => KeyedOnce(r))
         /\ \A y \in Range(r) : \E z \in Range(c) : y.key = z.key
         /\ \A k, v : FindsIn(Range(c), k, v) => FindsIn(Range(r), k, v)
<1> DEFINE n == Len(c)
<1>1. n \in Nat /\ DOMAIN c = 1..n /\ \A i \in 1..n : c[i] \in Entries
  OBVIOUS
<1>2. 0 \in HashCodes
  BY HashType, Zenon
<1> HIDE DEF n
<1>3. ASSUME NEW i \in 1..n
      PROVE  [c[i] EXCEPT !.hash = 0] \in Entries /\ [c[i] EXCEPT !.hash = 0].key = c[i].key
             /\ [c[i] EXCEPT !.hash = 0].value = c[i].value
  <2>1. c[i] \in Entries
    BY <1>1, Zenon
  <2> QED
    BY <1>2, <2>1, Zenon DEF Entries
<1>4. \A i \in 1..n : r[i] = [c[i] EXCEPT !.hash = 0]
  BY <1>1, Zenon
<1>5. \A i \in 1..n : r[i] \in Entries /\ r[i].key = c[i].key /\ r[i].value = c[i].value
  BY <1>3, <1>4, Zenon
<1>6. r \in Seq(Entries) /\ Len(r) = n
  <2>1. r = [i \in 1..n |-> r[i]]
    BY <1>1, Zenon
  <2> QED
    BY <1>1, <1>5, <2>1
<1>7. \A y : y \in Range(r) <=> \E i \in 1..n : r[i] = y
  BY <1>6, InRange, Zenon
<1>8. \A y : y \in Range(c) <=> \E i \in 1..n : c[i] = y
  BY InRange, Zenon DEF n
<1>9. ASSUME KeyedOnce(c) PROVE KeyedOnce(r)
  <2>1. \A i, j \in 1..n : c[i].key = c[j].key => i = j
    BY <1>9, Zenon DEF KeyedOnce, n
  <2>2. ASSUME NEW i \in 1..n, NEW j \in 1..n, r[i].key = r[j].key PROVE i = j
    <3>1. r[i].key = c[i].key /\ r[j].key = c[j].key
      BY <1>5, Zenon
    <3>2. c[i].key = c[j].key
      BY <2>2, <3>1, Zenon
    <3> QED
      BY <2>1, <3>2, Zenon
  <2> QED
    BY <1>6, <2>2, Zenon DEF KeyedOnce
<1>10. ASSUME NEW y \in Range(r) PROVE \E z \in Range(c) : y.key = z.key /\ y.value = z.value
  <2>1. PICK i \in 1..n : r[i] = y
    BY <1>7, Zenon
  <2> QED
    BY <1>5, <1>8, <2>1, Zenon
<1>11. ASSUME NEW z \in Range(c) PROVE \E y \in Range(r) : y.key = z.key /\ y.value = z.value
  <2>1. PICK i \in 1..n : c[i] = z
    BY <1>8, Zenon
  <2>2. r[i] \in Range(r)
    BY <1>7, Zenon
  <2>3. r[i].key = c[i].key /\ r[i].value = c[i].value
    BY <1>5, Zenon
  <2>4. r[i].key = z.key /\ r[i].value = z.value
    BY <2>1, <2>3, Zenon
  <2> QED
    BY <2>2, <2>4, Zenon
<1>12. ASSUME NEW k, NEW v, FindsIn(Range(c), k, v) PROVE FindsIn(Range(r), k, v)
  <2>1. CASE v = NoValue
    BY <1>10, <1>12, <2>1, ZenonT(40) DEF FindsIn
  <2>2. CASE v # NoValue
    <3>1. PICK z \in Range(c) : z.key = k /\ z.value = v
      BY <1>12, <2>2, Zenon DEF FindsIn
    <3>2. PICK y \in Range(r) : y.key = z.key /\ y.value = z.value
      BY <1>11, Zenon
    <3>3. y.key = k /\ y.value = v
      BY <3>1, <3>2, Zenon
    <3> QED
      BY <2>2, <3>3, Zenon DEF FindsIn
  <2> QED
    BY <2>1, <2>2
<1> QED
  BY <1>6, <1>9, <1>10, <1>12, Zenon

\* A copy finds what the table finds, though its entries have no hash values.
LEMMA CopyKeeps ==
  ASSUME NEW core \in Cores, NEW mutable \in BOOLEAN
  PROVE  LET new == Sg_HashCoreCopy(core, mutable)
         IN  /\ new \in Cores
             /\ \A w \in Wanted : Good(core, w) => Good(new, w)
<1> DEFINE l == core.log2
           b == core.buckets
           d == [i \in DOMAIN b |-> [n \in DOMAIN b[i] |-> [b[i][n] EXCEPT !.hash = 0]]]
           im == ~mutable
           new == Sg_HashCoreCopy(core, mutable)
<1>1. /\ l \in Nat /\ b \in [Buckets(l) -> Seq(Entries)] /\ core.count \in Int
      /\ core = [log2 |-> l, buckets |-> b, count |-> core.count, immutable |-> core.immutable]
  BY CoreFields, Zenon
<1>2. new = [core EXCEPT !.buckets = d, !.immutable = im]
  BY Zenon DEF Sg_HashCoreCopy
<1>3. DOMAIN b = Buckets(l) /\ im \in BOOLEAN
  <2>1. DOMAIN b = Buckets(l)
    BY <1>1, Zenon
  <2> QED
    BY <2>1
<1>4. \A i \in Buckets(l) : d[i] = [n \in DOMAIN b[i] |-> [b[i][n] EXCEPT !.hash = 0]]
  BY <1>3, Zenon
<1>5. ASSUME NEW i \in Buckets(l)
      PROVE  /\ d[i] \in Seq(Entries) /\ (KeyedOnce(b[i]) => KeyedOnce(d[i]))
             /\ \A y \in Range(d[i]) : \E z \in Range(b[i]) : y.key = z.key
             /\ \A k, v : FindsIn(Range(b[i]), k, v) => FindsIn(Range(d[i]), k, v)
  <2>1. b[i] \in Seq(Entries) /\ d[i] = [n \in DOMAIN b[i] |-> [b[i][n] EXCEPT !.hash = 0]]
    BY <1>1, <1>4, Zenon
  <2> HIDE DEF d, b
  <2> QED
    BY <2>1, FreshChain, Zenon
<1>6. d \in [Buckets(l) -> Seq(Entries)]
  BY <1>3, <1>5, Zenon
<1> HIDE DEF d, new, im, l, b
<1>7. new = [log2 |-> l, buckets |-> d, count |-> core.count, immutable |-> im]
  <2> DEFINE c == [core EXCEPT !.buckets = d]
  <2>1. c = [log2 |-> l, buckets |-> d, count |-> core.count, immutable |-> core.immutable]
    BY <1>1
  <2>2. new = [c EXCEPT !.immutable = im]
    BY <1>2
  <2> HIDE DEF c
  <2> QED
    BY <2>1, <2>2
<1>8. new \in Cores /\ new.log2 = l /\ new.buckets = d /\ new.count = core.count
  BY <1>1, <1>3, <1>6, <1>7, MakeCore
<1>9. ASSUME NEW w \in Wanted, Good(core, w) PROVE Good(new, w)
  <2>1. Holds(l, b, w) /\ Counts(core.count, w)
    BY <1>9, Zenon DEF Good, l, b
  <2>2. Placed(l, d)
    <3> SUFFICES ASSUME NEW i \in Buckets(l)
                 PROVE  KeyedOnce(d[i]) /\ \A y \in Range(d[i]) : HASH2INDEX(l, Hash[y.key]) = i
      BY Zenon DEF Placed
    <3>1. KeyedOnce(b[i]) /\ \A z \in Range(b[i]) : HASH2INDEX(l, Hash[z.key]) = i
      BY <2>1, Zenon DEF Holds, Placed
    <3>2. KeyedOnce(d[i]) /\ \A y \in Range(d[i]) : \E z \in Range(b[i]) : y.key = z.key
      BY <1>5, <3>1, Zenon
    <3>3. ASSUME NEW y \in Range(d[i]) PROVE HASH2INDEX(l, Hash[y.key]) = i
      <4>1. PICK z \in Range(b[i]) : y.key = z.key
        BY <3>2, Zenon
      <4>2. HASH2INDEX(l, Hash[z.key]) = i
        BY <3>1, Zenon
      <4> QED
        BY <4>1, <4>2, Zenon
    <3> QED
      BY <3>2, <3>3, Zenon
  <2>3. ASSUME NEW k \in HashKeys PROVE FindsIn(Range(d[HASH2INDEX(l, Hash[k])]), k, w[k])
    <3>1. HASH2INDEX(l, Hash[k]) \in Buckets(l) /\ FindsIn(Range(b[HASH2INDEX(l, Hash[k])]), k, w[k])
      BY <1>1, <2>1, KeyIndex, Zenon DEF Holds
    <3> QED
      BY <1>5, <3>1, Zenon
  <2> QED
    BY <1>8, <2>1, <2>2, <2>3, Zenon DEF Good, Holds
<1> QED
  BY <1>8, <1>9, Zenon DEF new

(***************************************************************************)
(* The keys of a table.                                                    *)
(***************************************************************************)
LEMMA KeysType ==
  ASSUME NEW core \in Cores
  PROVE  /\ Sg_HashTableKeys(core) \in Seq(HashKeys)
         /\ Len(Sg_HashTableKeys(core)) = Len(Iterated(core))
         /\ \A i \in 1..Len(Iterated(core)) : Sg_HashTableKeys(core)[i] = Iterated(core)[i].key
<1> DEFINE all == Iterated(core)
           keys == Sg_HashTableKeys(core)
<1>1. all \in Seq(Entries)
  BY IteratedAll, Zenon
<1>2. keys = [i \in DOMAIN all |-> all[i].key]
  BY Zenon DEF Sg_HashTableKeys
<1> HIDE DEF all, keys
<1>3. DOMAIN all = 1..Len(all) /\ Len(all) \in Nat /\ \A i \in 1..Len(all) : all[i].key \in HashKeys
  <2>1. DOMAIN all = 1..Len(all) /\ Len(all) \in Nat /\ \A i \in 1..Len(all) : all[i] \in Entries
    BY <1>1
  <2>2. \A e \in Entries : e.key \in HashKeys
    BY DEF Entries
  <2> QED
    BY <2>1, <2>2, Zenon
<1>4. keys = [i \in 1..Len(all) |-> all[i].key]
  BY <1>2, <1>3, Zenon
<1>5. keys \in Seq(HashKeys) /\ Len(keys) = Len(all) /\ \A i \in 1..Len(all) : keys[i] = all[i].key
  BY <1>3, <1>4
<1> QED
  BY <1>5 DEF all, keys

\* hashtable-keys returns each key of the table once, as many as it counts.
LEMMA KeysAre ==
  ASSUME NEW core \in Cores, NEW w \in Wanted, Good(core, w)
  PROVE  /\ Range(Sg_HashTableKeys(core)) = Present(w)
         /\ IsInjective(Sg_HashTableKeys(core))
         /\ core.count = Len(Sg_HashTableKeys(core))
<1> DEFINE all == Iterated(core)
           keys == Sg_HashTableKeys(core)
           n == Len(all)
           P == Present(w)
<1>1. keys \in Seq(HashKeys) /\ Len(keys) = n /\ \A i \in 1..n : keys[i] = all[i].key
  BY KeysType, Zenon
<1>2. /\ all \in Seq(Entries)
      /\ \A e : e \in Range(all) <=> \E i \in Buckets(core.log2) : e \in Range(core.buckets[i])
      /\ Placed(core.log2, core.buckets) => KeyedOnce(all)
  BY IteratedAll, Zenon
<1>3. /\ Placed(core.log2, core.buckets)
      /\ \A k \in HashKeys : FindsIn(Range(core.buckets[HASH2INDEX(core.log2, Hash[k])]), k, w[k])
      /\ core.count = Cardinality(P)
  BY Zenon DEF Good, Holds, Counts
<1>4. core.log2 \in Nat
  BY CoreFields, Zenon
<1> HIDE DEF all, keys, n
<1>5. n \in Nat /\ DOMAIN keys = 1..n
  <2>1. n \in Nat
    BY <1>2 DEF n
  <2>2. DOMAIN keys = 1..Len(keys)
    BY <1>1
  <2> QED
    BY <1>1, <2>1, <2>2, Zenon
<1>6. \A k : k \in Range(keys) <=> \E i \in 1..n : keys[i] = k
  <2>1. \A k : k \in Range(keys) <=> \E i \in 1..Len(keys) : keys[i] = k
    BY <1>1, InRange, Zenon
  <2> QED
    BY <1>1, <2>1, Zenon
<1>7. \A e : e \in Range(all) <=> \E i \in 1..n : all[i] = e
  BY <1>2, InRange, Zenon DEF n
<1>8. \A k : k \in Range(keys) <=> \E e \in Range(all) : e.key = k
  <2> SUFFICES ASSUME NEW k PROVE k \in Range(keys) <=> \E e \in Range(all) : e.key = k
    BY Zenon
  <2>1. ASSUME k \in Range(keys) PROVE \E e \in Range(all) : e.key = k
    <3>1. PICK i \in 1..n : keys[i] = k
      BY <1>6, <2>1, Zenon
    <3>2. all[i] \in Range(all) /\ all[i].key = k
      BY <1>1, <1>7, <3>1, Zenon
    <3> QED
      BY <3>2, Zenon
  <2>2. ASSUME NEW e \in Range(all), e.key = k PROVE k \in Range(keys)
    <3>1. PICK i \in 1..n : all[i] = e
      BY <1>7, Zenon
    <3>2. keys[i] = k
      BY <1>1, <2>2, <3>1, Zenon
    <3> QED
      BY <1>6, <3>2, Zenon
  <2> QED
    BY <2>1, <2>2, Zenon
<1>9. ASSUME NEW k \in HashKeys PROVE k \in Range(keys) <=> w[k] # NoValue
  <2> DEFINE x == HASH2INDEX(core.log2, Hash[k])
  <2>1. x \in Buckets(core.log2) /\ FindsIn(Range(core.buckets[x]), k, w[k])
    BY <1>3, <1>4, KeyIndex, Zenon
  <2>2. w[k] # NoValue <=> \E e \in Range(core.buckets[x]) : e.key = k
    BY <2>1, Zenon DEF FindsIn
  <2>3. (\E e \in Range(core.buckets[x]) : e.key = k) => \E e \in Range(all) : e.key = k
    BY <1>2, <2>1, Zenon
  <2>4. ASSUME NEW e \in Range(all), e.key = k PROVE e \in Range(core.buckets[x])
    <3>1. PICK i \in Buckets(core.log2) : e \in Range(core.buckets[i])
      BY <1>2, Zenon
    <3>2. HASH2INDEX(core.log2, Hash[e.key]) = i
      BY <1>3, <3>1, Zenon DEF Placed
    <3> QED
      BY <2>4, <3>1, <3>2, Zenon
  <2> QED
    BY <1>8, <2>2, <2>3, <2>4, Zenon
<1>10. Range(keys) \subseteq HashKeys
  BY <1>1, RangeType, Zenon
<1>11. Range(keys) = P
  BY <1>9, <1>10, Zenon DEF Present
<1>12. IsInjective(keys)
  <2>1. \A i, j \in 1..n : all[i].key = all[j].key => i = j
    BY <1>2, <1>3, Zenon DEF KeyedOnce, n
  <2>2. ASSUME NEW i \in 1..n, NEW j \in 1..n, keys[i] = keys[j] PROVE i = j
    <3>1. all[i].key = all[j].key
      BY <1>1, <2>2, Zenon
    <3> QED
      BY <2>1, <3>1, Zenon
  <2> QED
    BY <1>5, <2>2, Zenon DEF IsInjective
<1>13. Cardinality(P) = n
  <2>1. keys \in [1..n -> P]
    <3>1. \A i \in 1..n : keys[i] \in P
      BY <1>6, <1>11, Zenon
    <3>2. keys = [i \in 1..n |-> keys[i]]
      BY <1>1, <1>5
    <3> QED
      BY <3>1, <3>2, Zenon
  <2>2. \A k \in P : \E i \in 1..n : keys[i] = k
    BY <1>6, <1>11, Zenon
  <2>3. keys \in Bijection(1..n, P)
    BY <1>12, <2>1, <2>2, Zenon DEF Bijection, Injection, Surjection
  <2>4. ExistsBijection(1..n, P)
    BY <2>3, Zenon DEF ExistsBijection
  <2> HIDE DEF P
  <2> QED
    BY <1>5, <2>4, FS_CountingElements, Zenon
<1> QED
  BY <1>1, <1>3, <1>11, <1>12, <1>13, Zenon DEF keys

(***************************************************************************)
(* Adding the entries of another table.                                    *)
(***************************************************************************)
LEMMA AddAllSteps ==
  ASSUME NEW dst \in Cores, NEW src \in Cores, NEW keys \in Seq(HashKeys), keys = Sg_HashTableKeys(src)
  PROVE  \E u \in [0..Len(keys) -> Cores] :
            /\ u[0] = dst /\ AddAll(dst, src) = u[Len(keys)]
            /\ \A i \in 0..(Len(keys) - 1) :
                 u[i + 1] = Set(u[i], keys[i + 1], Sg_HashTableRef(src, keys[i + 1]))
<1> DEFINE n == Len(keys)
           ref(i) == Sg_HashTableRef(src, keys[i])
           g == [x \in (1..n) \X Cores |-> Set(x[2], keys[x[1]], ref(x[1]))]
           Eq(h) == h = [i \in 0..n |-> IF i = 0 THEN dst ELSE Set(h[i - 1], keys[i], ref(i))]
<1>1. n \in Nat /\ \A i \in 1..n : keys[i] \in HashKeys
  OBVIOUS
<1>2. AddAll(dst, src) = (CHOOSE h0 : Eq(h0))[n]
  BY Zenon DEF AddAll
<1>3. \A i \in 1..n : ref(i) \in HashValues \cup {NoValue}
  BY <1>1, RefType, Zenon
<1> HIDE DEF n, ref
<1>4. \A i \in 1..n, q \in Cores : g[<<i, q>>] = Set(q, keys[i], ref(i))
  OBVIOUS
<1>5. \A i \in 1..n, q \in Cores : Set(q, keys[i], ref(i)) \in Cores
  BY <1>1, <1>3, SetKeeps, Zenon
<1>6. g \in [(1..n) \X Cores -> Cores]
  BY <1>5
<1> HIDE DEF g
<1>7. PICK h \in [0..n -> Cores] : Iterates(h, n, dst, g)
  BY <1>1, <1>6, Iteration, Zenon
<1>8. \A i \in 0..n : i # 0 => i \in 1..n /\ i - 1 \in 0..n
  BY <1>1
<1>9. ASSUME NEW i \in 0..n PROVE h[i] = IF i = 0 THEN dst ELSE Set(h[i - 1], keys[i], ref(i))
  <2>1. CASE i = 0
    BY <1>7, <2>1, Zenon DEF Iterates
  <2>2. CASE i # 0
    <3>1. i \in 1..n /\ h[i - 1] \in Cores
      BY <1>7, <1>8, <2>2, Zenon
    <3>2. h[i] = g[<<i, h[i - 1]>>] /\ g[<<i, h[i - 1]>>] = Set(h[i - 1], keys[i], ref(i))
      BY <1>4, <1>7, <3>1, Zenon DEF Iterates
    <3> QED
      BY <2>2, <3>2, Zenon
  <2> QED
    BY <2>1, <2>2
<1>10. Eq(h)
  BY <1>7, <1>9, Zenon
<1> DEFINE u == CHOOSE h0 : Eq(h0)
<1>11. Eq(u)
  BY <1>10, Zenon
<1>12. AddAll(dst, src) = u[n]
  BY <1>2
<1> HIDE DEF u
<1>13. u[0] = dst
  BY <1>1, <1>11
<1>14. ASSUME NEW i \in 0..(n - 1) PROVE u[i + 1] = Set(u[i], keys[i + 1], ref(i + 1))
  <2>1. i + 1 \in 0..n /\ i + 1 # 0 /\ (i + 1) - 1 = i
    BY <1>1
  <2> QED
    BY <1>11, <2>1, Zenon
<1>15. u \in [0..n -> Cores]
  <2> DEFINE N == {i \in 0..n : u[i] \in Cores}
  <2>1. 0 \in N
    BY <1>1, <1>13
  <2>2. ASSUME NEW i \in 0..(n - 1), i \in N PROVE i + 1 \in N
    <3>1. i + 1 \in 0..n /\ i + 1 \in 1..n
      BY <1>1
    <3>2. u[i] \in Cores
      BY <2>2, Zenon
    <3> QED
      BY <1>5, <1>14, <3>1, <3>2, Zenon
  <2>3. ASSUME NEW m \in 0..n PROVE m \in N
    <3>1. m \in Nat /\ \A i \in 0..(m - 1) : i \in 0..(n - 1)
      BY <1>1
    <3>2. \A i \in 0..(m - 1) : i \in N => i + 1 \in N
      BY <2>2, <3>1, Zenon
    <3> HIDE DEF N
    <3> QED
      BY <2>1, <3>1, <3>2, Induction, Zenon
  <2>4. \A m \in 0..n : u[m] \in Cores
    BY <2>3, Zenon
  <2> QED
    BY <1>11, <2>4, Zenon
<1> QED
  BY <1>12, <1>13, <1>14, <1>15, Zenon DEF n, ref

\* The entries of the source are added to those of the destination.
LEMMA AddAllKeeps ==
  ASSUME NEW dst \in Cores, NEW src \in Cores
  PROVE  /\ AddAll(dst, src) \in Cores
         /\ \A wd \in Wanted, ws \in Wanted :
              Good(dst, wd) /\ Good(src, ws)
              /\ (~Forgotten(dst) \/ AddAll(dst, src).log2 = dst.log2)
                => Good(AddAll(dst, src),
                        [k \in HashKeys |-> IF ws[k] = NoValue THEN wd[k] ELSE ws[k]])
<1> DEFINE keys == Sg_HashTableKeys(src)
           n == Len(keys)
           ref(i) == Sg_HashTableRef(src, keys[i])
<1>1. keys \in Seq(HashKeys)
  BY KeysType, Zenon
<1>2. PICK u \in [0..n -> Cores] :
         /\ u[0] = dst /\ AddAll(dst, src) = u[n]
         /\ \A i \in 0..(n - 1) : u[i + 1] = Set(u[i], keys[i + 1], ref(i + 1))
  BY <1>1, AddAllSteps, ZenonT(40)
<1> HIDE DEF keys
<1>3. n \in Nat /\ \A i \in 1..n : keys[i] \in HashKeys
  BY <1>1
<1>4. \A i \in 1..n : ref(i) \in HashValues \cup {NoValue}
  BY <1>3, RefType, Zenon
<1>5. \A k : k \in Range(keys) <=> \E i \in 1..n : keys[i] = k
  BY <1>1, InRange, Zenon
<1> HIDE DEF n
<1>6. AddAll(dst, src) \in Cores
  <2>1. n \in 0..n
    BY <1>3
  <2> QED
    BY <1>2, <2>1, Zenon
<1>7. ASSUME NEW wd \in Wanted, NEW ws \in Wanted, Good(dst, wd), Good(src, ws),
             ~Forgotten(dst) \/ AddAll(dst, src).log2 = dst.log2
      PROVE  Good(AddAll(dst, src), [k \in HashKeys |-> IF ws[k] = NoValue THEN wd[k] ELSE ws[k]])
  <2> DEFINE Added(i) == {keys[j] : j \in 1..i}
             W(i) == [k \in HashKeys |-> IF k \in Added(i) THEN ws[k] ELSE wd[k]]
             R(c) == Remembers(c.log2, c.buckets)
             Free(c) == R(dst) \/ c.log2 = dst.log2
             Step(i) == u[i].log2 >= dst.log2 /\ (R(dst) => R(u[i])) /\ (Free(u[i]) => Good(u[i], W(i)))
             N == {i \in 0..n : Step(i)}
  <2>1. Range(keys) = Present(ws)
    BY <1>7, KeysAre, Zenon DEF keys
  <2>2. \A i \in 1..n : ref(i) = ws[keys[i]] /\ ws[keys[i]] \in HashValues
    <3> SUFFICES ASSUME NEW i \in 1..n PROVE ref(i) = ws[keys[i]] /\ ws[keys[i]] \in HashValues
      BY Zenon
    <3>1. keys[i] \in Present(ws)
      BY <1>5, <2>1, Zenon
    <3>2. keys[i] \in HashKeys /\ ws[keys[i]] # NoValue
      BY <3>1, Zenon DEF Present
    <3>3. ws[keys[i]] \in HashValues
      BY <3>2, Zenon DEF Wanted
    <3>4. Holds(src.log2, src.buckets, ws)
      BY <1>7, Zenon DEF Good
    <3>5. ref(i) = ws[keys[i]]
      BY <3>2, <3>4, GoodRef, Zenon
    <3> QED
      BY <3>3, <3>5
  <2>3. \A i \in 0..n : W(i) \in Wanted
    BY Zenon DEF Wanted
  <2>4. dst.log2 \in Nat /\ \A i \in 0..n : u[i].log2 \in Nat
    BY <1>2, CoreFields, Zenon
  <2>5. 0 \in N
    <3>1. 0 \in 0..n /\ 1..0 = {} /\ dst.log2 >= dst.log2
      BY <1>3, <2>4
    <3>2. W(0) = [k \in HashKeys |-> wd[k]]
      BY <3>1, Zenon
    <3>3. wd = [k \in HashKeys |-> wd[k]]
      BY Zenon DEF Wanted
    <3>4. Good(u[0], W(0))
      BY <1>2, <1>7, <3>2, <3>3, Zenon
    <3> HIDE DEF W, R
    <3> QED
      BY <1>2, <3>1, <3>4, Zenon
  <2>6. ASSUME NEW i \in 0..(n - 1), i \in N PROVE i + 1 \in N
    <3>1. i + 1 \in 0..n /\ i + 1 \in 1..n /\ i \in 0..n /\ 1..(i + 1) = 1..i \cup {i + 1}
      BY <1>3
    <3>2. Step(i)
      BY <2>6, Zenon
    <3> DEFINE k == keys[i + 1]
               v == ref(i + 1)
               a == u[i]
               c == u[i + 1]
    <3>3. k \in HashKeys /\ v \in HashValues /\ v \in HashValues \cup {NoValue} /\ v = ws[k]
      BY <1>3, <2>2, <3>1, Zenon
    <3>4. a \in Cores /\ c = Set(a, k, v)
      BY <1>2, <3>1, Zenon
    <3> HIDE DEF W, k, v, a, c
    <3>5. /\ c.log2 >= a.log2 /\ (R(a) => R(c))
          /\ R(a) \/ c.log2 = a.log2
               => \A w \in Wanted : Good(a, w) => Good(c, [w EXCEPT ![k] = v])
      BY <3>3, <3>4, SetKeeps, Zenon
    <3>6. W(i + 1) = [W(i) EXCEPT ![k] = v]
      <4>1. Added(i + 1) = Added(i) \cup {k}
        BY <3>1, Zenon DEF k
      <4>2. \A o \in HashKeys : W(i + 1)[o] = IF o = k THEN v ELSE W(i)[o]
        BY <3>3, <4>1, Zenon DEF W
      <4>3. W(i) = [o \in HashKeys |-> W(i)[o]] /\ W(i + 1) = [o \in HashKeys |-> W(i + 1)[o]]
        BY Zenon DEF W
      <4> QED
        BY <4>2, <4>3, Zenon
    <3>7. c.log2 >= dst.log2 /\ (c.log2 = dst.log2 => a.log2 = dst.log2 /\ c.log2 = a.log2)
      <4>1. a.log2 >= dst.log2 /\ dst.log2 \in Nat /\ a.log2 \in Nat /\ c.log2 \in Nat
        BY <2>4, <3>1, <3>2, Zenon DEF a, c
      <4> QED
        BY <3>5, <4>1
    <3>8. (R(dst) => R(a)) /\ (Free(a) => Good(a, W(i)))
      BY <3>2, Zenon DEF a
    <3>9. W(i) \in Wanted
      BY <2>3, <3>1, Zenon
    <3> HIDE DEF R
    <3>10. ASSUME Free(c) PROVE Good(c, W(i + 1))
      <4>1. Free(a) /\ (R(a) \/ c.log2 = a.log2)
        BY <3>7, <3>8, <3>10, Zenon
      <4>2. Good(a, W(i))
        BY <3>8, <4>1, Zenon
      <4> QED
        BY <3>5, <3>6, <3>9, <4>1, <4>2, Zenon
    <3>11. R(dst) => R(c)
      BY <3>5, <3>8, Zenon
    <3>12. Step(i + 1)
      BY <3>7, <3>10, <3>11, Zenon DEF c
    <3> HIDE DEF Step
    <3> QED
      BY <3>1, <3>12, Zenon
  <2>7. n \in N
    <3> HIDE DEF N
    <3> QED
      BY <1>3, <2>5, <2>6, Induction, Zenon
  <2>8. Good(u[n], W(n))
    <3>1. Step(n)
      BY <2>7, Zenon
    <3>2. Free(u[n])
      BY <1>2, <1>7, Forgets, Zenon
    <3> HIDE DEF W, Free
    <3> QED
      BY <3>1, <3>2, Zenon
  <2>9. W(n) = [k \in HashKeys |-> IF ws[k] = NoValue THEN wd[k] ELSE ws[k]]
    <3>1. \A k \in HashKeys : k \in Added(n) <=> ws[k] # NoValue
      <4>1. \A k : k \in Added(n) <=> k \in Range(keys)
        BY <1>5, Zenon
      <4> QED
        BY <2>1, <4>1, Zenon DEF Present
    <3> HIDE DEF Added
    <3> QED
      BY <3>1, Zenon
  <2> QED
    BY <1>2, <2>8, <2>9, Zenon
<1> QED
  BY <1>6, <1>7, Zenon

(***************************************************************************)
(* The inductive invariant.                                                *)
(***************************************************************************)
HashInv ==
  /\ ht \in [Tables -> Cores]
  /\ wanted \in [Tables -> Wanted]
  /\ misplaced \in [Tables -> BOOLEAN]
  /\ \A t \in Tables : ~misplaced[t] => Good(ht[t], wanted[t])

\* New tables.
LEMMA HashInvStart == HashInit => HashInv
<1> SUFFICES ASSUME HashInit PROVE HashInv
  OBVIOUS
<1>1. \A size \in InitSizes : hash_core_init(size) \in Cores /\ Good(hash_core_init(size), Nothing)
  <2>1. \A size \in InitSizes : size \in Nat
    BY HashAssumption
  <2> QED
    BY <2>1, InitKeeps, Zenon
<1>2. ASSUME NEW t \in Tables PROVE ht[t] \in Cores /\ Good(ht[t], Nothing)
  <2>1. PICK size \in InitSizes : ht[t] = hash_core_init(size)
    BY Zenon DEF HashInit
  <2> QED
    BY <1>1, <2>1, Zenon
<1>3. ht \in [Tables -> Cores]
  BY <1>2, Zenon DEF HashInit
<1>4. Nothing \in Wanted
  BY Zenon DEF Nothing, Wanted
<1>5. wanted \in [Tables -> Wanted] /\ \A t \in Tables : wanted[t] = Nothing
  BY <1>4, Zenon DEF HashInit
<1>6. misplaced \in [Tables -> BOOLEAN]
  BY Zenon DEF HashInit
<1> QED
  BY <1>2, <1>3, <1>5, <1>6, Zenon DEF HashInv

\* A step that gives one table another state.
LEMMA BecomesStep ==
  ASSUME HashInv, NEW t \in Tables, NEW core \in Cores, NEW w \in Wanted, NEW bad \in BOOLEAN,
         ~bad => Good(core, w), TableBecomes(t, core, w, bad)
  PROVE  HashInv'
<1>1. /\ ht \in [Tables -> Cores] /\ wanted \in [Tables -> Wanted]
      /\ misplaced \in [Tables -> BOOLEAN]
      /\ \A s \in Tables : ~misplaced[s] => Good(ht[s], wanted[s])
  BY Zenon DEF HashInv
<1>2. /\ ht' = [ht EXCEPT ![t] = core] /\ wanted' = [wanted EXCEPT ![t] = w]
      /\ misplaced' = [misplaced EXCEPT ![t] = bad]
  BY Zenon DEF TableBecomes
<1>3. /\ ht' \in [Tables -> Cores] /\ wanted' \in [Tables -> Wanted]
      /\ misplaced' \in [Tables -> BOOLEAN]
  BY <1>1, <1>2, Zenon
<1>4. ASSUME NEW s \in Tables, ~misplaced'[s] PROVE Good(ht'[s], wanted'[s])
  <2>1. CASE s = t
    <3>1. ht'[s] = core /\ wanted'[s] = w /\ misplaced'[s] = bad
      BY <1>1, <1>2, <2>1, Zenon
    <3> QED
      BY <1>4, <3>1, Zenon
  <2>2. CASE s # t
    <3>1. ht'[s] = ht[s] /\ wanted'[s] = wanted[s] /\ misplaced'[s] = misplaced[s]
      BY <1>1, <1>2, <2>2, Zenon
    <3> QED
      BY <1>1, <1>4, <3>1, Zenon
  <2> QED
    BY <2>1, <2>2
<1>5. \A s \in Tables : ~misplaced'[s] => Good(ht'[s], wanted'[s])
  BY <1>4, ZenonT(40)
<1>6. (\A s \in Tables : ~misplaced[s] => Good(ht[s], wanted[s]))'
  BY <1>5 DEF Good, Holds, Counts, Placed, Present
<1> QED
  BY <1>3, <1>6, Zenon DEF HashInv

\* A program calls hashtable-set!.
LEMMA SetStep ==
  ASSUME HashInv, NEW t \in Tables, NEW k \in HashKeys, NEW v \in HashValues, HashTableSet(t, k, v)
  PROVE  HashInv'
<1> DEFINE core == Set(ht[t], k, v)
           w == [wanted[t] EXCEPT ![k] = v]
           bad == Misplaces(t, core)
<1>1. /\ ht[t] \in Cores /\ wanted[t] \in Wanted /\ misplaced[t] \in BOOLEAN
      /\ ~misplaced[t] => Good(ht[t], wanted[t])
  BY Zenon DEF HashInv
<1>2. /\ core \in Cores
      /\ Remembers(ht[t].log2, ht[t].buckets) \/ core.log2 = ht[t].log2
           => \A z \in Wanted : Good(ht[t], z) => Good(core, [z EXCEPT ![k] = v])
  BY <1>1, SetKeeps, Zenon
<1>3. w \in Wanted
  BY <1>1, Zenon DEF Wanted
<1>4. bad \in BOOLEAN
  BY <1>1, Zenon DEF Misplaces
<1>5. TableBecomes(t, core, w, bad)
  BY Zenon DEF HashTableSet
<1>6. ASSUME ~bad PROVE Good(core, w)
  <2>1. ~misplaced[t] /\ (core.log2 = ht[t].log2 \/ ~Forgotten(ht[t]))
    BY <1>6, Zenon DEF Misplaces
  <2>2. core.log2 = ht[t].log2 \/ Remembers(ht[t].log2, ht[t].buckets)
    BY <1>1, <2>1, Forgets, Zenon
  <2> QED
    BY <1>1, <1>2, <2>1, <2>2, Zenon
<1> HIDE DEF core, w, bad
<1> QED
  BY <1>2, <1>3, <1>4, <1>5, <1>6, BecomesStep, Zenon

\* A program calls hashtable-delete!.
LEMMA DeleteStep ==
  ASSUME HashInv, NEW t \in Tables, NEW k \in HashKeys, HashTableDelete(t, k)
  PROVE  HashInv'
<1> DEFINE core == Delete(ht[t], k)
           w == [wanted[t] EXCEPT ![k] = NoValue]
<1>1. /\ ht[t] \in Cores /\ wanted[t] \in Wanted /\ misplaced[t] \in BOOLEAN
      /\ ~misplaced[t] => Good(ht[t], wanted[t])
  BY Zenon DEF HashInv
<1>2. core \in Cores /\ \A z \in Wanted : Good(ht[t], z) => Good(core, [z EXCEPT ![k] = NoValue])
  BY <1>1, DeleteKeeps, Zenon
<1>3. w \in Wanted
  BY <1>1, Zenon DEF Wanted
<1>4. TableBecomes(t, core, w, misplaced[t])
  BY Zenon DEF HashTableDelete
<1>5. ~misplaced[t] => Good(core, w)
  BY <1>1, <1>2, Zenon
<1> HIDE DEF core, w
<1> QED
  BY <1>1, <1>2, <1>3, <1>4, <1>5, BecomesStep, Zenon

\* A program calls hashtable-copy.
LEMMA CopyStep ==
  ASSUME HashInv, NEW t \in Tables, NEW s \in Tables, NEW mutable \in BOOLEAN,
         HashTableCopy(t, s, mutable)
  PROVE  HashInv'
<1> DEFINE core == Sg_HashCoreCopy(ht[s], mutable)
<1>1. /\ ht[s] \in Cores /\ wanted[s] \in Wanted /\ misplaced[s] \in BOOLEAN
      /\ ~misplaced[s] => Good(ht[s], wanted[s])
  BY Zenon DEF HashInv
<1>2. core \in Cores /\ \A z \in Wanted : Good(ht[s], z) => Good(core, z)
  BY <1>1, CopyKeeps, Zenon
<1>3. TableBecomes(t, core, wanted[s], misplaced[s])
  BY Zenon DEF HashTableCopy
<1>4. ~misplaced[s] => Good(core, wanted[s])
  BY <1>1, <1>2, Zenon
<1> HIDE DEF core
<1> QED
  BY <1>1, <1>2, <1>3, <1>4, BecomesStep, Zenon

\* A program calls hashtable-clear!.
LEMMA ClearStep ==
  ASSUME HashInv, NEW t \in Tables, NEW k \in Nat, HashTableClear(t, k)
  PROVE  HashInv'
<1> DEFINE core == Sg_HashCoreClear(ht[t], k)
<1>1. core \in Cores /\ Good(core, Nothing)
  <2>1. ht[t] \in Cores
    BY Zenon DEF HashInv
  <2> QED
    BY <2>1, ClearKeeps, Zenon
<1>2. Nothing \in Wanted /\ FALSE \in BOOLEAN
  BY Zenon DEF Nothing, Wanted
<1>3. TableBecomes(t, core, Nothing, FALSE)
  BY Zenon DEF HashTableClear
<1> HIDE DEF core
<1> QED
  BY <1>1, <1>2, <1>3, BecomesStep, Zenon

\* A program adds the entries of one table to another.
LEMMA AddAllStep ==
  ASSUME HashInv, NEW t \in Tables, NEW s \in Tables, HashTableAddAll(t, s)
  PROVE  HashInv'
<1> DEFINE core == AddAll(ht[t], ht[s])
           w == [k \in HashKeys |-> IF wanted[s][k] = NoValue THEN wanted[t][k] ELSE wanted[s][k]]
           bad == misplaced[s] \/ Misplaces(t, core)
<1>1. /\ ht[t] \in Cores /\ wanted[t] \in Wanted /\ (~misplaced[t] => Good(ht[t], wanted[t]))
      /\ ht[s] \in Cores /\ wanted[s] \in Wanted /\ (~misplaced[s] => Good(ht[s], wanted[s]))
  BY Zenon DEF HashInv
<1>2. /\ core \in Cores
      /\ \A wd \in Wanted, ws \in Wanted :
           Good(ht[t], wd) /\ Good(ht[s], ws) /\ (~Forgotten(ht[t]) \/ core.log2 = ht[t].log2)
             => Good(core, [k \in HashKeys |-> IF ws[k] = NoValue THEN wd[k] ELSE ws[k]])
  BY <1>1, AddAllKeeps, Zenon
<1>3. w \in Wanted
  BY <1>1, Zenon DEF Wanted
<1>4. bad \in BOOLEAN
  OBVIOUS
<1>5. TableBecomes(t, core, w, bad)
  BY Zenon DEF HashTableAddAll
<1>6. ASSUME ~bad PROVE Good(core, w)
  <2>1. ~misplaced[s] /\ ~misplaced[t] /\ (core.log2 = ht[t].log2 \/ ~Forgotten(ht[t]))
    BY <1>6, Zenon DEF Misplaces
  <2>2. Good(ht[t], wanted[t]) /\ Good(ht[s], wanted[s])
    BY <1>1, <2>1, Zenon
  <2> HIDE DEF core
  <2> QED
    BY <1>1, <1>2, <2>1, <2>2, Zenon
<1> HIDE DEF core, w, bad
<1> QED
  BY <1>2, <1>3, <1>4, <1>5, <1>6, BecomesStep, Zenon

\* Every step keeps the invariant.
LEMMA HashInvStep == HashInv /\ [HashNext]_hashVars => HashInv'
<1> SUFFICES ASSUME HashInv, [HashNext]_hashVars PROVE HashInv'
  OBVIOUS
<1>1. CASE UNCHANGED hashVars
  <2>1. ht' = ht /\ wanted' = wanted /\ misplaced' = misplaced
    BY <1>1, Zenon DEF hashVars
  <2> QED
    BY <2>1, Zenon DEF HashInv
<1>2. CASE HashNext
  <2>1. PICK t \in Tables :
           \/ \E k \in HashKeys : \/ HashTableDelete(t, k)
                                  \/ \E v \in HashValues : HashTableSet(t, k, v)
           \/ \E k \in InitSizes \cup {0} : HashTableClear(t, k)
           \/ \E s \in Tables \ {t} : \/ HashTableAddAll(t, s)
                                      \/ \E mutable \in BOOLEAN : HashTableCopy(t, s, mutable)
    BY <1>2, Zenon DEF HashNext
  <2>2. \A k \in InitSizes \cup {0} : k \in Nat
    BY HashAssumption
  <2> QED
    BY <2>1, <2>2, DeleteStep, SetStep, ClearStep, AddAllStep, CopyStep, Zenon
<1> QED
  BY <1>1, <1>2

\* The inductive invariant of the tables.
LEMMA HashInvHolds == HashSpec => []HashInv
BY HashInvStart, HashInvStep, PTL DEF HashSpec

\* What the invariant says of a table.
LEMMA GoodExact ==
  ASSUME HashInv, NEW t \in Tables, ~misplaced[t]
  PROVE  Exact(t)
<1>1. ht[t] \in Cores /\ wanted[t] \in Wanted /\ Good(ht[t], wanted[t])
  BY Zenon DEF HashInv
<1>2. Holds(ht[t].log2, ht[t].buckets, wanted[t])
  BY <1>1, Zenon DEF Good
<1>3. \A k \in HashKeys : Sg_HashTableRef(ht[t], k) = wanted[t][k]
  BY <1>1, <1>2, GoodRef, Zenon
<1>4. /\ Range(Sg_HashTableKeys(ht[t])) = Present(wanted[t])
      /\ IsInjective(Sg_HashTableKeys(ht[t]))
      /\ ht[t].count = Len(Sg_HashTableKeys(ht[t]))
  BY <1>1, KeysAre, Zenon
<1> QED
  BY <1>3, <1>4, Zenon DEF Exact, Present

\* Whatever a program sets, deletes, copies, clears and adds, however the keys hash and
\* however often the tables grow, hashtable-ref, hashtable-size and hashtable-keys agree
\* with what was last set, until a table with copied entries grows.
THEOREM HashTablesExact == HashSpec => []TablesExact
<1>1. HashInv => TablesExact
  BY GoodExact, Zenon DEF TablesExact
<1> QED
  BY <1>1, HashInvHolds, PTL
============================================================================
