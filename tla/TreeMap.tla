------------------------------- MODULE TreeMap -------------------------------
(***************************************************************************)
(* A tree map of src/src/treemap.c under the calls of a client, with an    *)
(* iterator that holds a pointer to the entry it has returned last.        *)
(***************************************************************************)
EXTENDS RBTree, FiniteSets, FiniteSetsExt

CONSTANTS Keys,   \* integers, which compare orders
          NoIter  \* there is no iterator

ASSUME KeysAssumption ==
  Keys \subseteq Nat \ {0} /\ IsFiniteSet(Keys) /\ NoIter \notin Int \cup {NULL}

VARIABLES tm,         \* the root and the nodes of the map
          entryCount, \* the field of that name
          iter,       \* an iterator of a client
          present,    \* history: the keys that are set and not deleted
          deletes     \* history: one was deleted since the map was empty

treeVars == <<tm, entryCount, iter, present, deletes>>

TreeInit ==
  /\ tm = EmptyTree
  /\ entryCount = 0
  /\ iter = NoIter
  /\ present = {}
  /\ deletes = FALSE

TreeMapSet(k) ==
  /\ tm' = IF get_entry(tm, k) = NULL THEN rb_set(tm, k) ELSE tm
  /\ entryCount' = IF get_entry(tm, k) = NULL THEN entryCount + 1 ELSE entryCount
  /\ present' = present \cup {k}
  /\ UNCHANGED <<iter, deletes>>

TreeMapDelete(k) ==
  /\ get_entry(tm, k) # NULL
  /\ tm' = delete_entry(tm, k)
  /\ entryCount' = entryCount - 1
  /\ iter' = IF iter = NoIter THEN NoIter
             ELSE [iter EXCEPT !.e = AfterDeletion(tm, @, k), !.disturbed = TRUE]
  /\ present' = present \ {k}
  /\ deletes' = (tm'.root # NULL)

\* Bound: an iterator of the cleared map is dropped.  It would go on in the old nodes.
TreeMapClear ==
  /\ tm.root # NULL
  /\ tm' = EmptyTree
  /\ entryCount' = 0
  /\ iter' = NoIter
  /\ present' = {}
  /\ deletes' = FALSE

IterInit(d) ==
  /\ iter' = [e |-> NULL, end |-> FALSE, dir |-> d, disturbed |-> FALSE]
  /\ UNCHANGED <<tm, entryCount, present, deletes>>

\* rb_iter_next if dir is right, rb_iter_reverse_next if it is left.
IterNext ==
  /\ iter # NoIter /\ ~iter.end
  /\ LET e == CASE iter.e = NULL -> get_first_entry(tm, Other(iter.dir))
                [] iter.e = Gone -> NULL
                [] OTHER -> neighbour(tm, iter.e, iter.dir)
     IN  iter' = [iter EXCEPT !.e = e, !.end = (e = NULL), !.disturbed = FALSE]
  /\ UNCHANGED <<tm, entryCount, present, deletes>>

TreeNext ==
  \/ \E k \in Keys : TreeMapSet(k) \/ TreeMapDelete(k)
  \/ TreeMapClear
  \/ \E d \in {"left", "right"} : IterInit(d)
  \/ IterNext

(***************************************************************************)
(* Properties.                                                             *)
(***************************************************************************)
RECURSIVE Below(_)
\* The keys of the nodes at and below p.
Below(p) == IF p = NULL THEN {}
            ELSE {p} \cup Below(tm.nodes[p].left) \cup Below(tm.nodes[p].right)

\* The nodes form a search tree of exactly the keys that are in the map, entryCount of
\* them, whose parent pointers are the inverse of the child pointers.
SearchTree ==
  /\ Below(tm.root) = present /\ entryCount = Cardinality(present)
  /\ parent_of(tm, tm.root) = NULL
  /\ \A p \in present :
       /\ \A l \in Below(tm.nodes[p].left) : l < p
       /\ \A r \in Below(tm.nodes[p].right) : r > p
       /\ \A d \in {"left", "right"} :
            tm.nodes[p][d] # NULL => parent_of(tm, tm.nodes[p][d]) = p

\* treemap-ref, treemap-higher-entry, treemap-lower-entry, treemap-first-entry and
\* treemap-last-entry find what they would find in the set of the keys.
Navigation ==
  LET least(S) == IF S = {} THEN NULL ELSE Min(S)
      greatest(S) == IF S = {} THEN NULL ELSE Max(S)
  IN  /\ get_first_entry(tm, "left") = least(present)
      /\ get_first_entry(tm, "right") = greatest(present)
      /\ \A k \in Keys :
           /\ get_entry(tm, k) = IF k \in present THEN k ELSE NULL
           /\ get_beyond_entry(tm, k, "right") = least({n \in present : n > k})
           /\ get_beyond_entry(tm, k, "left") = greatest({n \in present : n < k})

\* After any sets, deletes and clears the tree is a search tree of the keys in the map,
\* and all searches find in it what is there, although deletions get the colours wrong.
TreeMapExact == SearchTree /\ Navigation

RECURSIVE BlackHeight(_)
\* How many black nodes there are on every path down from p; -1 if that differs.
BlackHeight(p) ==
  IF p = NULL THEN 0
  ELSE LET l == BlackHeight(tm.nodes[p].left)
           r == BlackHeight(tm.nodes[p].right)
       IN  IF l # r \/ l = -1 THEN -1
           ELSE l + (IF tm.nodes[p].color = BLACK THEN 1 ELSE 0)

\* Until an entry is deleted the tree is a red-black tree: the root is black, no
\* red node has a red parent, and every path has as many black nodes.
RedBlackUntilDelete ==
  ~deletes => /\ color_of(tm, tm.root) = BLACK
              /\ \A p \in present : color_of(tm, p) = RED =>
                                      color_of(tm, tm.nodes[p].parent) = BLACK
              /\ BlackHeight(tm.root) # -1

\* An iterator goes to the next key in its order, and to the end after the last one,
\* whatever has been inserted since its last step, unless an entry was deleted.
IterationInOrder ==
  [][iter # NoIter /\ iter' # NoIter /\ ~iter.disturbed /\ ~iter.end
     /\ (iter'.end \/ iter'.e \notin {NULL, iter.e}) /\ UNCHANGED tm =>
       LET later == {k \in present : iter.e = NULL
                       \/ IF iter.dir = "right" THEN k > iter.e ELSE k < iter.e}
       IN  iter'.e = IF later = {} THEN NULL
                     ELSE IF iter.dir = "right" THEN Min(later) ELSE Max(later)]_treeVars
=============================================================================
