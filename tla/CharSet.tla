------------------------------- MODULE CharSet -------------------------------
(***************************************************************************)
(* Character sets: src/src/charset.c, and the difference and intersection  *)
(* of src/src/regex.c.  The characters below SmallChars are an array of    *)
(* flags; the others are ranges in a red-black tree, under their first     *)
(* character and with their last one as value.                             *)
(*                                                                         *)
(* The code goes on reading an entry that it has deleted.  If the entry    *)
(* had two children, its node has the key and the value of the next entry  *)
(* by then (delete_entry).  An operation that does so has slipped.         *)
(***************************************************************************)
EXTENDS RBTree, FiniteSets, FiniteSetsExt, SequencesExt

CONSTANTS SmallChars, \* SG_CHAR_SET_SMALL_CHARS
          CharMax,    \* SG_CHAR_MAX
          OtherSets,  \* the sets of characters that a second char-set has
          MaxCharOps  \* bound: how many operations change the char-set

ASSUME CharAssumption ==
  /\ SmallChars \in Nat \ {0} /\ CharMax \in Nat /\ SmallChars < CharMax
  /\ OtherSets \subseteq SUBSET (0..CharMax) /\ MaxCharOps \in Nat

VARIABLES cs,      \* the char-set
          charOps, \* how often it was changed
          exact    \* history: the characters it should have

charVars == <<cs, charOps, exact>>

Chars == 0..CharMax

\* slip is no field of the code: an operation on this char-set has slipped.
make_charset == [small |-> {}, large |-> EmptyTree, slip |-> FALSE]

EntryValue(t, k) == t.nodes[k].value
WithValue(t, k, v) == [t EXCEPT !.nodes[k].value = v]

\* Sg_TreeMapCoreSet.
CoreSet(t, k, v) == WithValue(IF get_entry(t, k) = NULL THEN rb_set(t, k) ELSE t, k, v)

DeletedAs(t, k, now) ==
  [t |-> delete_entry(t, k), key |-> now, value |-> EntryValue(t, now), slip |-> now # k]

\* Sg_TreeMapDelete, and what the pointer to the deleted entry then leads to.
Deleted(t, k) ==
  DeletedAs(t, k, IF TwoChildren(t, k) THEN neighbour(t, k, "right") ELSE k)

-----------------------------------------------------------------------------
RECURSIVE Absorb(_, _, _, _, _)

\* Mutated: the end of a longer range is forgotten.
AbsorbedTruncated(d, slip, e, to) == Absorb(d.t, slip \/ d.slip, e, d.key, to)

\* The range d has been deleted for e, which may go on to the end of d.
Absorbed(d, slip, e, to) ==
  IF d.value > to THEN [t |-> WithValue(d.t, e, d.value), slip |-> slip \/ d.slip]
  ELSE Absorb(d.t, slip \/ d.slip, e, d.key, to)

AbsorbNext(t, slip, e, hi, to) ==
  IF hi = NULL \/ (hi # NULL /\ hi > to + 1) THEN [t |-> WithValue(t, e, to), slip |-> slip]
  ELSE Absorbed(Deleted(t, hi), slip, e, to)

\* The ranges after e that begin within or right after it are deleted, and the last
\* of them may extend it.
Absorb(t, slip, e, hiKey, to) ==
  AbsorbNext(t, slip, e, get_beyond_entry(t, hiKey, "right"), to)

WithLarge(c, r) == [c EXCEPT !.large = r.t, !.slip = r.slip]

\* The range from e on ends at to or later.
ExtendedTo(c, t, e, to) ==
  IF EntryValue(t, e) >= to THEN [c EXCEPT !.large = t]
  ELSE WithLarge(c, Absorb(t, c.slip, e, e, to))

AddLarge(c, from, to) ==
  LET lo == get_beyond_entry(c.large, from, "left")
      here == get_entry(c.large, from) # NULL
      joins == ~here /\ lo # NULL /\ EntryValue(c.large, lo) >= from - 1
  IN  ExtendedTo(c, IF here \/ joins THEN c.large ELSE CoreSet(c.large, from, 0),
               IF joins THEN lo ELSE from, to)

Sg_CharSetAddRange(c, from, to) ==
  LET filled == [c EXCEPT !.small = @ \cup (from..Min({to, SmallChars - 1}))]
  IN  CASE to < from -> c
        [] from <= to /\ to < SmallChars -> filled
        [] OTHER -> AddLarge(filled, Max({from, SmallChars}), to)

RECURSIVE InOrder(_, _)
\* The entries that an iterator of the tree returns from p on.
InOrder(t, p) ==
  IF p = NULL THEN <<>>
  ELSE <<[from |-> p, to |-> EntryValue(t, p)]>> \o InOrder(t, neighbour(t, p, "right"))

Entries_of(t) == InOrder(t, get_first_entry(t, "left"))

AddRanges(c, ranges) ==
  FoldLeft(LAMBDA acc, r : Sg_CharSetAddRange(acc, r.from, r.to), c, ranges)

Sg_CharSetAdd(dest, src) ==
  AddRanges([dest EXCEPT !.small = @ \cup src.small], Entries_of(src.large))

RECURSIVE Gaps(_, _, _)

\* The range d has been deleted; last is the end of the one before it.
GapBefore(d, slip, last) ==
  Gaps(IF last < d.key - 1 THEN CoreSet(d.t, last + 1, d.key - 1) ELSE d.t,
       slip \/ d.slip, d.value)

GapsFrom(t, slip, last, e) ==
  CASE e # NULL -> GapBefore(Deleted(t, e), slip, last)
    [] e = NULL /\ last < CharMax -> [t |-> CoreSet(t, last + 1, CharMax), slip |-> slip]
    [] OTHER -> [t |-> t, slip |-> slip]

\* Each range is replaced by the gap before it.
Gaps(t, slip, last) == GapsFrom(t, slip, last, get_beyond_entry(t, last, "right"))

Sg_CharSetComplement(c) ==
  WithLarge([c EXCEPT !.small = (0..SmallChars - 1) \ @],
            Gaps(c.large, c.slip, SmallChars - 1))

Sg_CharSetContains(c, ch) ==
  IF ch < SmallChars THEN ch \in c.small
  ELSE LET l == get_beyond_entry(c.large, ch, "left")
       IN  \/ get_entry(c.large, ch) # NULL
           \/ l # NULL /\ EntryValue(c.large, l) >= ch

Sg_CharSetEq(x, y) == x.small = y.small /\ Entries_of(x.large) = Entries_of(y.large)

\* The characters of a set from the least on.
InOrderOf(S) == SelectSeq([i \in 1..CharMax + 1 |-> i - 1], LAMBDA c : c \in S)

\* The maximal ranges of a set of characters, in order.
RangesOf(S) ==
  LET first == InOrderOf({c \in S : c - 1 \notin S})
      end(c) == Min({d \in S : d >= c /\ d + 1 \notin S})
  IN  [i \in DOMAIN first |-> [from |-> first[i], to |-> end(first[i])]]

Sg_CharSetRanges(c) == RangesOf(c.small) \o Entries_of(c.large)

-----------------------------------------------------------------------------
(* Difference and intersection of regex.c. *)

\* What the range from..to leaves of the range r.
Remains(r, from, to) ==
  LET starts == r.from <= from /\ from <= r.to
      ends == r.from <= to /\ to <= r.to
      before == <<[from |-> r.from, to |-> from - 1]>>
      after == <<[from |-> to + 1, to |-> r.to]>>
      covered == ~starts /\ ~ends /\ from < r.from /\ r.to < to
  IN  IF covered THEN <<>>
      ELSE IF ~starts /\ ~ends THEN <<r>>
      ELSE (IF ends /\ to # r.to THEN after ELSE <<>>)
             \o (IF starts /\ r.from # from THEN before ELSE <<>>)

sub_range(ranges, from, to) ==
  FlattenSeq([i \in DOMAIN ranges |-> Remains(ranges[i], from, to)])

cset_diff(base, cset) ==
  AddRanges([make_charset EXCEPT !.slip = base.slip \/ cset.slip],
            FoldLeft(LAMBDA ranges, r : sub_range(ranges, r.from, r.to),
                     Sg_CharSetRanges(base), Sg_CharSetRanges(cset)))

cset_intersect(x, y) == cset_diff(x, Sg_CharSetComplement(y))

-----------------------------------------------------------------------------
\* A char-set of the characters S, made by adding them one by one.
CharSetOf(S) ==
  FoldLeft(LAMBDA c, ch : Sg_CharSetAddRange(c, ch, ch), make_charset, InOrderOf(S))

CharInit ==
  /\ cs = make_charset
  /\ charOps = 0
  /\ exact = {}

\* The char-set becomes c, and should have the characters S.
Becomes(c, S) ==
  /\ charOps < MaxCharOps
  /\ cs' = c
  /\ charOps' = charOps + 1
  /\ exact' = S

AddRange(from, to) == Becomes(Sg_CharSetAddRange(cs, from, to), exact \cup (from..to))
Complement == Becomes(Sg_CharSetComplement(cs), Chars \ exact)
Union(S) == Becomes(Sg_CharSetAdd(cs, CharSetOf(S)), exact \cup S)
Difference(S) == Becomes(cset_diff(cs, CharSetOf(S)), exact \ S)
Intersection(S) == Becomes(cset_intersect(cs, CharSetOf(S)), exact \cap S)

CharNext ==
  \/ \E from, to \in Chars : AddRange(from, to)
  \/ Complement
  \/ \E S \in OtherSets : Union(S) \/ Difference(S) \/ Intersection(S)

(***************************************************************************)
(* Properties.                                                             *)
(***************************************************************************)
Members(c) == {ch \in Chars : Sg_CharSetContains(c, ch)}

\* Until an operation slips, char-set-contains? tells exactly the characters that
\* were added and not taken away, on both sides of the border between the two halves,
\* and char-set= finds the char-set equal to the one made by adding them one by one,
\* although it compares ranges and not characters.
CharSetExact ==
  ~cs.slip => Members(cs) = exact /\ Sg_CharSetEq(cs, CharSetOf(exact))

=============================================================================
