------------------------------- MODULE RBTree -------------------------------
(***************************************************************************)
(* The red-black tree of src/src/rbtree.c: a binary search tree with       *)
(* parent pointers and red and black nodes, as a value that the operations *)
(* take and return.                                                        *)
(*                                                                         *)
(* A node is named by its key.  left and right are the fields of a node,   *)
(* so that the code's mirror images are one definition with a direction.   *)
(* A NULL that the code follows without a test is a function applied       *)
(* outside its domain, which ends a run with an error.                     *)
(***************************************************************************)
EXTENDS Integers

CONSTANT NULL

ASSUME NullAssumption == NULL \notin Int

BLACK == "black"
RED == "red"
Other(d) == IF d = "left" THEN "right" ELSE "left"

\* An entry that is no longer in the tree; its pointers are NULL.
Gone == 0

EmptyTree == [root |-> NULL, nodes |-> <<>>]

\* Keys are positive, and 0 is the value of an entry that has been made and not set.
new_node(p) == [color |-> BLACK, parent |-> p, left |-> NULL, right |-> NULL, value |-> 0]

parent_of(t, p) == IF p = NULL THEN NULL ELSE t.nodes[p].parent
child_of(t, p, d) == IF p = NULL THEN NULL ELSE t.nodes[p][d]
color_of(t, p) == IF p = NULL THEN BLACK ELSE t.nodes[p].color
set_color(t, p, c) == IF p = NULL THEN t ELSE [t EXCEPT !.nodes[p].color = c]

\* Node n takes the place of node p below p's parent g.
Relink(t, g, p, n) ==
  IF g = NULL THEN [t EXCEPT !.root = n]
  ELSE IF t.nodes[g].left = p THEN [t EXCEPT !.nodes[g].left = n]
  ELSE [t EXCEPT !.nodes[g].right = n]

\* Mutated: the child that moves over keeps its parent.
RotateKeepsParent(t, p, d) ==
  IF p = NULL THEN t
  ELSE LET r == t.nodes[p][Other(d)]
           over == t.nodes[r][d]
           t1 == Relink(t, t.nodes[p].parent, p, r)
       IN  [t1 EXCEPT !.nodes[p][Other(d)] = over,
                      !.nodes[r].parent = t.nodes[p].parent,
                      !.nodes[r][d] = p, !.nodes[p].parent = r]

\* rotate_left if d is left, rotate_right if it is right.
rotate(t, p, d) ==
  IF p = NULL THEN t
  ELSE LET r == t.nodes[p][Other(d)]
           over == t.nodes[r][d]
           t1 == IF over = NULL THEN t ELSE [t EXCEPT !.nodes[over].parent = p]
           t2 == Relink(t1, t.nodes[p].parent, p, r)
       IN  [t2 EXCEPT !.nodes[p][Other(d)] = over,
                      !.nodes[r].parent = t.nodes[p].parent,
                      !.nodes[r][d] = p, !.nodes[p].parent = r]

-----------------------------------------------------------------------------
(* Walking. *)

RECURSIVE Furthest(_, _, _)
Furthest(t, p, d) ==
  IF t.nodes[p][d] = NULL THEN p ELSE Furthest(t, t.nodes[p][d], d)

\* The first ancestor of ch that it does not reach in direction d.
RECURSIVE Ancestor(_, _, _)
Ancestor(t, ch, d) ==
  LET p == t.nodes[ch].parent
  IN  IF p # NULL /\ ch = t.nodes[p][d] THEN Ancestor(t, p, d) ELSE p

\* Mutated: only the parent can be the next entry, not an entry above it.
NeighbourParent(t, p, d) ==
  LET up == t.nodes[p].parent
  IN  CASE t.nodes[p][d] # NULL -> Furthest(t, t.nodes[p][d], Other(d))
        [] t.nodes[p][d] = NULL /\ up # NULL /\ t.nodes[up][Other(d)] = p -> up
        [] OTHER -> NULL

\* successor if d is right, predecessor if it is left.
neighbour(t, p, d) ==
  IF t.nodes[p][d] # NULL THEN Furthest(t, t.nodes[p][d], Other(d))
  ELSE Ancestor(t, p, d)

\* get_first_left_entry and get_first_right_entry.
get_first_entry(t, d) == IF t.root = NULL THEN NULL ELSE Furthest(t, t.root, d)

RECURSIVE Search(_, _, _)
Search(t, p, k) ==
  IF p = NULL \/ k = p THEN p
  ELSE Search(t, t.nodes[p][IF k < p THEN "left" ELSE "right"], k)

get_entry(t, k) == Search(t, t.root, k)

\* get_higher_entry if d is right, get_lower_entry if it is left: from p down to
\* where k would be, beyond an entry equal to it.
RECURSIVE BeyondFrom(_, _, _, _)

BeyondFrom(t, p, k, d) ==
  LET closer == IF d = "right" THEN k < p ELSE k > p
      next == t.nodes[p][IF closer THEN Other(d) ELSE d]
  IN  CASE next # NULL -> BeyondFrom(t, next, k, d)
        [] next = NULL /\ closer -> p
        [] OTHER -> Ancestor(t, p, d)

get_beyond_entry(t, k, d) ==
  IF t.root = NULL THEN NULL ELSE BeyondFrom(t, t.root, k, d)

-----------------------------------------------------------------------------
(* Insertion. *)

RECURSIVE FixInsertion(_, _)

\* x is an outer grandchild of g, on side d, and its uncle is black.
OuterGrandchild(t, x, p, g, d) ==
  FixInsertion(rotate(set_color(set_color(t, p, BLACK), g, RED), g, Other(d)), x)

Rotated(t, x, d) ==
  OuterGrandchild(t, x, parent_of(t, x), parent_of(t, parent_of(t, x)), d)

\* The parent p of x is on side d of g, and y is on the other side.
FixUncle(t, x, p, g, y, d) ==
  CASE color_of(t, y) = RED ->
         FixInsertion(set_color(set_color(set_color(t, p, BLACK), y, BLACK), g, RED), g)
    [] color_of(t, y) = BLACK /\ x = child_of(t, p, Other(d)) -> Rotated(rotate(t, p, d), p, d)
    [] OTHER -> Rotated(t, x, d)

FixSide(t, x, p, g, d) == FixUncle(t, x, p, g, child_of(t, g, Other(d)), d)

FixUnder(t, x, p, g) ==
  FixSide(t, x, p, g, IF p = child_of(t, g, "left") THEN "left" ELSE "right")

FixInsertion(t, x) ==
  IF x = NULL \/ t.root = x \/ color_of(t, parent_of(t, x)) = BLACK THEN t
  ELSE FixUnder(t, x, parent_of(t, x), parent_of(t, parent_of(t, x)))

\* Mutated: the root may stay red.
RootStays(t, x) == FixInsertion(set_color(t, x, RED), x)

BlackRoot(t) == set_color(t, t.root, BLACK)

fix_after_insertion(t, x) == BlackRoot(FixInsertion(set_color(t, x, RED), x))

RECURSIVE LeafFor(_, _, _)
LeafFor(t, p, k) ==
  LET next == t.nodes[p][IF k < p THEN "left" ELSE "right"]
  IN  IF next = NULL THEN p ELSE LeafFor(t, next, k)

WithNode(t, k, p) ==
  [t EXCEPT !.nodes = [n \in DOMAIN @ \cup {k} |-> IF n = k THEN new_node(p) ELSE @[n]]]

\* rb_set of a key that has no entry; the first node is black as it is made.
rb_set(t, k) ==
  IF t.root = NULL THEN [WithNode(t, k, NULL) EXCEPT !.root = k]
  ELSE LET p == LeafFor(t, t.root, k)
           side == IF k < p THEN "left" ELSE "right"
       IN  fix_after_insertion([WithNode(t, k, p) EXCEPT !.nodes[p][side] = k], k)

-----------------------------------------------------------------------------
(* Deletion. *)

RECURSIVE fix_after_deletion(_, _)

\* The sibling is black and its child away from x is red.
LastRotation(t, p, sib, d) ==
  rotate(set_color(set_color(set_color(t, sib, color_of(t, p)), p, BLACK),
                   child_of(t, sib, Other(d)), BLACK),
         p, d)

FarRed(t, p, d) == LastRotation(t, p, child_of(t, p, Other(d)), d)

\* A black sibling with black children becomes red on one side only, and x is not
\* made black at the end.
FixNephews(t, p, sib, near, far, d) ==
  IF color_of(t, near) = BLACK /\ color_of(t, far) = BLACK
  THEN fix_after_deletion(IF d = "left" THEN t ELSE set_color(t, sib, RED), p)
  ELSE FarRed(IF color_of(t, far) = RED THEN t
              ELSE rotate(set_color(set_color(t, near, BLACK), sib, RED), sib, Other(d)),
              p, d)

FixSibling(t, p, sib, d) ==
  FixNephews(t, p, sib, child_of(t, sib, d), child_of(t, sib, Other(d)), d)

BlackSibling(t, x, d) ==
  FixSibling(t, parent_of(t, x), child_of(t, parent_of(t, x), Other(d)), d)

\* A red sibling rotates up, so that x has a black one.
SiblingUp(t, p, sib, d) ==
  IF color_of(t, sib) = BLACK THEN t
  ELSE rotate(set_color(set_color(t, sib, BLACK), p, RED), p, d)

FixOnSide(t, x, p, d) == BlackSibling(SiblingUp(t, p, child_of(t, p, Other(d)), d), x, d)

fix_after_deletion(t, x) ==
  IF x = t.root \/ color_of(t, x) = RED THEN t
  ELSE FixOnSide(t, x, parent_of(t, x),
                 IF x = child_of(t, parent_of(t, x), "left") THEN "left" ELSE "right")

\* p and s exchange their keys and values, hence their names.
Exchanged(t, p, s) ==
  LET name(n) == IF n = p THEN s ELSE IF n = s THEN p ELSE n
  IN  [root |-> name(t.root),
       nodes |-> [n \in DOMAIN t.nodes |->
                    LET m == t.nodes[name(n)]
                    IN  [color |-> m.color, parent |-> name(m.parent),
                         left |-> name(m.left), right |-> name(m.right),
                         value |-> t.nodes[n].value]]]

Without(t, p) == [t EXCEPT !.nodes = [n \in DOMAIN @ \ {p} |-> @[n]]]

TwoChildren(t, p) == t.nodes[p].left # NULL /\ t.nodes[p].right # NULL

\* The only child of p, or NULL.
Replacement(t, p) == IF t.nodes[p].left # NULL THEN t.nodes[p].left ELSE t.nodes[p].right

Replaced(t, p, rep) ==
  Relink([t EXCEPT !.nodes[rep].parent = t.nodes[p].parent], t.nodes[p].parent, p, rep)

\* p, a leaf, is taken from under its parent.
CutLeaf(t, p) == Relink(t, t.nodes[p].parent, p, NULL)

\* The node p has at most one child, rep, which replaces it before the colours are
\* fixed; a leaf is unlinked only after that.
UnlinkFor(t, p, rep) ==
  LET fixed(u, x) == IF t.nodes[p].color = BLACK THEN fix_after_deletion(u, x) ELSE u
  IN  CASE rep # NULL -> Without(fixed(Replaced(t, p, rep), rep), p)
        [] rep = NULL /\ t.nodes[p].parent = NULL -> EmptyTree
        [] OTHER -> Without(CutLeaf(fixed(t, p), p), p)

Unlink(t, p) == UnlinkFor(t, p, Replacement(t, p))

\* A node with two children takes over the key of its successor, whose node goes.
delete_entry(t, p) ==
  Unlink(IF TwoChildren(t, p) THEN Exchanged(t, p, neighbour(t, p, "right")) ELSE t, p)

\* What a pointer to entry e points to once p is deleted.
AfterDeletion(t, e, p) ==
  LET s == neighbour(t, p, "right")
  IN  CASE TwoChildren(t, p) /\ e = p -> s
        [] TwoChildren(t, p) /\ e = s -> Gone
        [] ~TwoChildren(t, p) /\ e = p -> Gone
        [] OTHER -> e
=============================================================================
