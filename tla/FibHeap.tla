------------------------------- MODULE FibHeap -------------------------------
(***************************************************************************)
(* The Fibonacci heap of sitelib/util/heap.scm: rings of doubly linked     *)
(* entries, each with a ring of children, whose roots are joined by degree *)
(* only when the least entry is extracted, and cut off their parents when  *)
(* their key decreases.                                                    *)
(*                                                                         *)
(* es, a function on the entries that exist, is the memory; a heap is its  *)
(* field min, and its size.                                                *)
(***************************************************************************)
EXTENDS Integers, Sequences, FiniteSets, FiniteSetsExt, SequencesExt

CONSTANTS Heaps,      \* the heaps
          Entries,    \* 1..n: how many entries there are at once
          HeapKeys,   \* positive integers, which compare orders
          MaxSets,    \* bound: how many entries are ever made
          MaxChanges, \* bound: how often a key is decreased or an entry deleted
          Prefills,   \* how many entries one heap may begin with
          NoEntry     \* #f

ASSUME HeapAssumption ==
  /\ HeapKeys \subseteq Nat \ {0} /\ Entries \subseteq Nat
  /\ Prefills \subseteq Nat /\ 0 \in Prefills
  /\ MaxSets \in Nat /\ MaxChanges \in Nat /\ NoEntry \notin Nat

VARIABLES es,      \* the entries of the heaps
          mins,    \* the field min of each heap
          sizes,   \* the field size of each heap
          held,    \* history: the entries that were put in each heap and not taken
          sets,    \* how many entries have been made
          changes  \* how many keys were decreased and entries deleted

heapVars == <<es, mins, sizes, held, sets, changes>>

\* The key +minimum+, which entry-compare puts below all others.
Minimum == 0

make_entry(e, k) == [key |-> k, next |-> e, prev |-> e, parent |-> NoEntry,
                     child |-> NoEntry, degree |-> 0, marked |-> FALSE]

\* %merge-entry!: the rings of one and two become one ring.
Spliced(m, one, two) ==
  LET n1 == m[one].next
      n2 == m[two].next
  IN  [m EXCEPT ![one].next = n2, ![n2].prev = one, ![two].next = n1, ![n1].prev = two]

\* merge-entry!: the memory, and the smaller of the two as min.
merge_entry(m, one, two) ==
  CASE one = NoEntry -> [m |-> m, min |-> two]
    [] one # NoEntry /\ two = NoEntry -> [m |-> m, min |-> one]
    [] OTHER -> [m |-> Spliced(m, one, two),
                 min |-> IF m[one].key < m[two].key THEN one ELSE two]

RECURSIVE RingFrom(_, _, _)
RingFrom(m, first, e) ==
  <<e>> \o (IF m[e].next = first THEN <<>> ELSE RingFrom(m, first, m[e].next))

\* The ring of e, from e on.
Ring(m, e) == IF e = NoEntry THEN <<>> ELSE RingFrom(m, e, e)

\* The neighbours of e in its ring are linked around it.
Bypassed(m, e) == [m EXCEPT ![m[e].next].prev = m[e].prev, ![m[e].prev].next = m[e].next]

-----------------------------------------------------------------------------
(* heap-extract-min! *)

HungUnder(merged, min, max) ==
  [merged.m EXCEPT ![min].child = merged.min, ![max].parent = min,
                   ![max].marked = FALSE, ![min].degree = @ + 1]

\* Root max becomes a child of root min.
Joined(m, min, max) ==
  HungUnder(merge_entry([Bypassed(m, max) EXCEPT ![max].next = max, ![max].prev = max],
                        m[min].child, max),
            min, max)

RECURSIVE Consolidated(_, _, _, _)

JoinedInto(m, min, table, rest, lesser, greater, degree) ==
  Consolidated(Joined(m, lesser, greater), min, [table EXCEPT ![degree] = NoEntry],
               <<lesser>> \o rest)

\* Mutated: the least root is replaced only by a smaller one.
VisitStrictly(m, min, table, rest, cur, other, degree) ==
  CASE other = NoEntry ->
         Consolidated(m, IF m[cur].key < m[min].key THEN cur ELSE min,
                      [table EXCEPT ![degree] = cur], rest)
    [] other # NoEntry /\ m[other].key < m[cur].key ->
         JoinedInto(m, min, table, rest, other, cur, degree)
    [] OTHER -> JoinedInto(m, min, table, rest, cur, other, degree)

\* The root cur meets other, the root of its degree that was visited before.
Visit(m, min, table, rest, cur, other, degree) ==
  CASE other = NoEntry ->
         Consolidated(m, IF m[cur].key <= m[min].key THEN cur ELSE min,
                      [table EXCEPT ![degree] = cur], rest)
    [] other # NoEntry /\ m[other].key < m[cur].key ->
         JoinedInto(m, min, table, rest, other, cur, degree)
    [] OTHER -> JoinedInto(m, min, table, rest, cur, other, degree)

\* merge: the roots in toVisit are joined with the root of their degree in the table.
Consolidated(m, min, table, toVisit) ==
  IF toVisit = <<>> THEN [m |-> m, min |-> min]
  ELSE Visit(m, min, table, Tail(toVisit), Head(toVisit),
             table[m[Head(toVisit)].degree], m[Head(toVisit)].degree)

Discarded(m, e) == [x \in DOMAIN m \ {e} |-> m[x]]

\* The entries in the set S become roots.
Orphaned(m, S) == [x \in DOMAIN m |-> IF x \in S THEN [m[x] EXCEPT !.parent = NoEntry] ELSE m[x]]

ConsolidatedRoots(roots) ==
  IF roots.min = NoEntry THEN roots
  ELSE Consolidated(roots.m, roots.min, [d \in 0..Cardinality(Entries) |-> NoEntry],
                    Ring(roots.m, roots.min))

WithoutEntry(r, e) == [r EXCEPT !.m = Discarded(@, e)]

\* The least entry is unlinked, its children become roots, and roots are joined.
extract_min(m, min) ==
  LET alone == m[min].next = min
      children == ToSet(Ring(m, m[min].child))
  IN  WithoutEntry(
        ConsolidatedRoots(
          merge_entry(Orphaned(IF alone THEN m ELSE Bypassed(m, min), children),
                      IF alone THEN NoEntry ELSE m[min].next, m[min].child)),
        min)

-----------------------------------------------------------------------------
(* heap-decrease-key! and heap-delete! *)

RECURSIVE cut_node(_, _, _)

\* p loses a child: it is cut too if it had lost one before.
CutUp(root, p) ==
  IF root.m[p].marked THEN cut_node(root.m, root.min, p)
  ELSE [root EXCEPT !.m[p].marked = TRUE]

\* The child pointer of p goes on to the next child if it leads to e.
ChildMoved(m, p, e) ==
  IF m[p].child # e THEN m
  ELSE [m EXCEPT ![p].child = IF m[e].next = e THEN NoEntry ELSE m[e].next]

Alone(m, p, e) ==
  [ChildMoved(IF m[e].next = e THEN m ELSE Bypassed(m, e), p, e)
     EXCEPT ![p].degree = @ - 1, ![e].prev = e, ![e].next = e]

CutFrom(m, min, e, p) ==
  IF p = NoEntry THEN [m |-> m, min |-> min]
  ELSE [CutUp(merge_entry(Alone(m, p, e), min, e), p) EXCEPT !.m[e].parent = NoEntry]

\* e leaves its parent p for the ring of roots; p too if it had lost a child before.
cut_node(m, min, e) == CutFrom([m EXCEPT ![e].marked = FALSE], min, e, m[e].parent)

\* The key of e has become k: e is cut if its parent's is no longer smaller.
CutIfLess(m, min, e, k) ==
  IF m[e].parent # NoEntry /\ k <= m[m[e].parent].key THEN cut_node(m, min, e)
  ELSE [m |-> m, min |-> min]

\* Mutated: min stays what it was, except for the key that is to be deleted.
OnlyMinimum(r, e, k) == [r EXCEPT !.min = IF k = Minimum THEN e ELSE @]

LeastOf(r, e, k) == [r EXCEPT !.min = IF k <= r.m[@].key THEN e ELSE @]

decrease_key_unchecked(m, min, e, k) ==
  LeastOf(CutIfLess([m EXCEPT ![e].key = k], min, e, k), e, k)

RECURSIVE do_nodes(_, _, _)

\* The entry found in a ring, or else below one of its entries, the first before the
\* others and these from the end.
Found(ring, here, below) ==
  LET found == {i \in DOMAIN ring : below[i] # NoEntry}
  IN  CASE here # {} -> ring[Min(here)]
        [] here = {} /\ 1 \in found -> below[1]
        [] here = {} /\ found # {} /\ 1 \notin found -> below[Max(found)]
        [] OTHER -> NoEntry

SearchRing(m, ring, k) ==
  Found(ring, {i \in DOMAIN ring : m[ring[i]].key = k},
        [i \in DOMAIN ring |-> do_nodes(m, m[ring[i]].child, k)])

\* heap-search: the keys of a ring first, then the children, from its end.
do_nodes(m, node, k) == SearchRing(m, Ring(m, node), k)

-----------------------------------------------------------------------------
\* The memory and min after heap-set! of entry e with key k.
With(m, min, e, k) ==
  merge_entry([x \in DOMAIN m \cup {e} |-> IF x = e THEN make_entry(e, k) ELSE m[x]], min, e)

ExtractMin(r) == extract_min(r.m, r.min)

\* The heap after n entries of the greatest key, and then a smaller one extracted.
Filled(n) ==
  LET add(r, e, k) == With(r.m, r.min, e, k)
      empty == [m |-> <<>>, min |-> NoEntry]
  IN  IF n = 0 THEN empty
      ELSE ExtractMin(add(FoldLeft(LAMBDA r, e : add(r, e, Max(HeapKeys)), empty,
                                   [i \in 1..n |-> i]),
                          n + 1, Minimum))

FilledInit(filled, n, first) ==
  /\ es = filled.m
  /\ mins = [h \in Heaps |-> IF h = first THEN filled.min ELSE NoEntry]
  /\ sizes = [h \in Heaps |-> IF h = first THEN n ELSE 0]
  /\ held = [h \in Heaps |-> IF h = first THEN 1..n ELSE {}]
  /\ sets = IF n = 0 THEN 0 ELSE MaxSets
  /\ changes = 0

\* The heaps are empty, or one has been filled and joined into trees.
HeapInit == \E n \in Prefills : FilledInit(Filled(n), n, CHOOSE h \in Heaps : TRUE)

Free == Min(Entries \ DOMAIN es)

\* The memory becomes r.m, and the least entry of h is r.min.
HeapBecomes(h, r) == es' = r.m /\ mins' = [mins EXCEPT ![h] = r.min]

heap_set(h, k) ==
  /\ sets < MaxSets /\ Entries # DOMAIN es
  /\ HeapBecomes(h, With(es, mins[h], Free, k))
  /\ sizes' = [sizes EXCEPT ![h] = @ + 1]
  /\ held' = [held EXCEPT ![h] = @ \cup {Free}]
  /\ sets' = sets + 1
  /\ UNCHANGED changes

heap_extract_min(h) ==
  /\ mins[h] # NoEntry
  /\ HeapBecomes(h, extract_min(es, mins[h]))
  /\ sizes' = [sizes EXCEPT ![h] = @ - 1]
  /\ held' = [held EXCEPT ![h] = @ \ {mins[h]}]
  /\ UNCHANGED <<sets, changes>>

heap_decrease_key(h, e, k) ==
  /\ changes < MaxChanges
  /\ e \in held[h] /\ k <= es[e].key
  /\ HeapBecomes(h, decrease_key_unchecked(es, mins[h], e, k))
  /\ changes' = changes + 1
  /\ UNCHANGED <<sizes, held, sets>>

\* The key becomes +minimum+ and the least entry is extracted.
heap_delete(h, e) ==
  /\ changes < MaxChanges
  /\ e \in held[h]
  /\ HeapBecomes(h, ExtractMin(decrease_key_unchecked(es, mins[h], e, Minimum)))
  /\ sizes' = [sizes EXCEPT ![h] = @ - 1]
  /\ held' = [held EXCEPT ![h] = @ \ {e}]
  /\ changes' = changes + 1
  /\ UNCHANGED sets

heap_clear(h) ==
  /\ mins[h] # NoEntry
  /\ es' = [x \in DOMAIN es \ held[h] |-> es[x]]
  /\ mins' = [mins EXCEPT ![h] = NoEntry]
  /\ sizes' = [sizes EXCEPT ![h] = 0]
  /\ held' = [held EXCEPT ![h] = {}]
  /\ UNCHANGED <<sets, changes>>

heap_merge(h, g) ==
  /\ h # g /\ mins[g] # NoEntry
  /\ LET merged == merge_entry(es, mins[h], mins[g])
     IN  es' = merged.m /\ mins' = [mins EXCEPT ![h] = merged.min, ![g] = NoEntry]
  /\ sizes' = [sizes EXCEPT ![h] = @ + sizes[g], ![g] = 0]
  /\ held' = [held EXCEPT ![h] = @ \cup held[g], ![g] = {}]
  /\ UNCHANGED <<sets, changes>>

HeapNext ==
  \E h \in Heaps :
    \/ \E k \in HeapKeys : heap_set(h, k)
    \/ heap_extract_min(h) \/ heap_clear(h)
    \/ \E e \in Entries : heap_delete(h, e) \/ \E k \in HeapKeys : heap_decrease_key(h, e, k)
    \/ \E g \in Heaps : heap_merge(h, g)

(***************************************************************************)
(* Properties.                                                             *)
(***************************************************************************)
RECURSIVE Under(_)
\* The entries in the ring of e and below it.
Under(e) == LET ring == ToSet(Ring(es, e))
            IN  ring \cup UNION {Under(es[x].child) : x \in ring}

\* Whatever was joined, cut, merged and extracted, every heap reaches exactly its
\* entries, as many as its size says; next and prev are inverse; the children of an
\* entry know it as their parent and its degree is their number; roots have none.
RingsIntact ==
  /\ \A e \in DOMAIN es :
       LET children == ToSet(Ring(es, es[e].child))
       IN  /\ es[es[e].next].prev = e
           /\ es[e].degree = Cardinality(children)
           /\ \A c \in children : es[c].parent = e
  /\ \A h \in Heaps :
       /\ Under(mins[h]) = held[h] /\ sizes[h] = Cardinality(held[h])
       /\ \A r \in ToSet(Ring(es, mins[h])) : es[r].parent = NoEntry

\* heap-min is a least entry of its heap, although only the ring of the roots is ever
\* compared, and only when an entry is extracted; heap-search finds an entry exactly
\* for the keys that are in the heap.
HeapExact ==
  \A h \in Heaps :
    /\ \A e \in held[h] : es[mins[h]].key <= es[e].key
    /\ \A k \in HeapKeys :
         LET e == do_nodes(es, mins[h], k)
             with == {x \in held[h] : es[x].key = k}
         IN  IF with = {} THEN e = NoEntry ELSE e \in with
=============================================================================
