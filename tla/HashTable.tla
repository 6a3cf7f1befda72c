------------------------------ MODULE HashTable ------------------------------
(***************************************************************************)
(* Hash tables: src/src/hashtable.c.  A bucket is a chain of entries; a    *)
(* table with too long chains gets more buckets, and its entries are moved *)
(* to them by the hash values that they keep.                              *)
(*                                                                         *)
(* A copy does not keep the hash values: its entries have the zero of      *)
(* fresh memory.  Such a table misplaces them once it gets more buckets.   *)
(***************************************************************************)
EXTENDS Integers, Sequences, FiniteSets, Functions, FiniteSetsExt

CONSTANTS Tables,      \* the variables of a program that hold a table
          HashKeys,
          HashValues,
          Hash,        \* the hash value of each key
          HashBits,    \* the width of a hash value (32)
          MaxAvgChain, \* MAX_AVG_CHAIN_LIMIS
          ExtendBits,  \* EXTEND_BITS
          DefaultLog2, \* DEFAULT_BUCKET_COUNT is 2 ^ DefaultLog2
          InitSizes,   \* the sizes that a table is made with or cleared to
          NoValue,
          MaxHashOps   \* bound: how many operations change the tables

\* 2 to the power of n.
Pow2(n) == LET p[i \in 0..n] == IF i = 0 THEN 1 ELSE 2 * p[i - 1]
           IN  p[n]

HashCodes == 0..Pow2(HashBits) - 1

ASSUME HashAssumption ==
  /\ {HashBits, MaxAvgChain, ExtendBits} \subseteq Nat \ {0}
  /\ Hash \in [HashKeys -> HashCodes]
  /\ InitSizes \subseteq Nat /\ DefaultLog2 \in Nat /\ MaxHashOps \in Nat
  /\ NoValue \notin HashValues

VARIABLES ht,        \* the table in each variable
          hashOps,   \* how many operations were made
          wanted,    \* history: what each table should associate with each key
          misplaced  \* history: the table grew with a hash value missing

hashVars == <<ht, hashOps, wanted, misplaced>>

-----------------------------------------------------------------------------
round2up(val) == Min({n \in 0..val : Pow2(n) >= val})

Buckets(log2) == 0..Pow2(log2) - 1

hash_core_init(size) ==
  LET log2 == IF size # 0 THEN round2up(size) ELSE DefaultLog2
  IN  [log2 |-> log2, buckets |-> [i \in Buckets(log2) |-> <<>>], count |-> 0,
       immutable |-> FALSE]

\* With one bucket the code shifts by the whole width; the mask leaves 0 of any result.
\* No table has more than 2 to the power of HashBits buckets.
HASH2INDEX(log2, hash) ==
  LET shift == IF log2 < HashBits THEN HashBits - log2 ELSE 0
  IN  ((hash + hash \div Pow2(shift)) % Pow2(HashBits)) % Pow2(log2)

\* The entries in the order of hash_iter_init and hash_iter_next.
Iterated(core) ==
  LET n == Pow2(core.log2)
      upto[i \in 0..n] == IF i = 0 THEN <<>> ELSE upto[i - 1] \o core.buckets[i - 1]
  IN  upto[n]

Sg_HashTableKeys(core) ==
  LET all == Iterated(core)
  IN  [i \in DOMAIN all |-> all[i].key]

\* The chains, with the entry in front of the one that its hash value leads to.
Moved(chains, log2, e) == [chains EXCEPT ![HASH2INDEX(log2, e.hash)] = <<e>> \o @]

\* The entries of core moved to that many buckets, by their hash values and bits.
Rehashed(core, log2, bits) ==
  LET all == Iterated(core)
      upto[n \in 0..Len(all)] ==
        IF n = 0 THEN [i \in Buckets(log2) |-> <<>>] ELSE Moved(upto[n - 1], bits, all[n])
  IN  upto[Len(all)]

\* Mutated: the entries are moved by the old number of bits.
ExtendedByOldBits(core) ==
  LET log2 == core.log2 + ExtendBits
  IN  [core EXCEPT !.log2 = log2, !.buckets = Rehashed(core, log2, core.log2)]

Extended(core) ==
  LET log2 == core.log2 + ExtendBits
  IN  [core EXCEPT !.log2 = log2, !.buckets = Rehashed(core, log2, log2)]

TooManyChains(core) == core.count > Pow2(core.log2) * MaxAvgChain

insert_entry(core, k, v) ==
  LET e == [key |-> k, hash |-> Hash[k], value |-> v]
      new == [core EXCEPT !.buckets = Moved(@, core.log2, e), !.count = @ + 1]
  IN  IF TooManyChains(new) THEN Extended(new) ELSE new

\* The bucket in which general_access looks for k.
Index(core, k) == HASH2INDEX(core.log2, Hash[k])

\* Where it finds k in the chain of that bucket; 0 if it does not.
Position(chain, k) ==
  LET found == {n \in DOMAIN chain : chain[n].key = k}
  IN  IF found = {} THEN 0 ELSE Min(found)

Sg_HashTableRef(core, k) ==
  LET chain == core.buckets[Index(core, k)]
      n == Position(chain, k)
  IN  IF n = 0 THEN NoValue ELSE chain[n].value

\* Sg_HashTableSet without flags.
Set(core, k, v) ==
  LET i == Index(core, k)
      n == Position(core.buckets[i], k)
  IN  IF n = 0 THEN insert_entry(core, k, v)
      ELSE [core EXCEPT !.buckets[i][n].value = v]

\* The chain without its entry n.
Unlinked(chain, n) == [j \in 1..Len(chain) - 1 |-> IF j < n THEN chain[j] ELSE chain[j + 1]]

Delete(core, k) ==
  LET i == Index(core, k)
      n == Position(core.buckets[i], k)
  IN  IF n = 0 THEN core
      ELSE [core EXCEPT !.buckets[i] = Unlinked(@, n), !.count = @ - 1]

Sg_HashCoreCopy(core, mutable) ==
  LET fresh(e) == [e EXCEPT !.hash = 0]
  IN  [core EXCEPT !.buckets = [i \in DOMAIN @ |-> [n \in DOMAIN @[i] |-> fresh(@[i][n])]],
                   !.immutable = ~mutable]

Sg_HashCoreClear(core, k) ==
  IF k > 0 THEN hash_core_init(k)
  ELSE [core EXCEPT !.buckets = [i \in DOMAIN @ |-> <<>>], !.count = 0]

AddAll(dst, src) ==
  LET keys == Sg_HashTableKeys(src)
      upto[n \in 0..Len(keys)] ==
        IF n = 0 THEN dst
        ELSE Set(upto[n - 1], keys[n], Sg_HashTableRef(src, keys[n]))
  IN  upto[Len(keys)]

-----------------------------------------------------------------------------
Nothing == [k \in HashKeys |-> NoValue]

HashInit ==
  /\ ht \in [Tables -> {hash_core_init(size) : size \in InitSizes}]
  /\ hashOps = 0
  /\ wanted = [t \in Tables |-> Nothing]
  /\ misplaced = [t \in Tables |-> FALSE]

\* A hash value of the table that is not its key's.
Forgotten(core) == \E e \in Range(Iterated(core)) : e.hash # Hash[e.key]

\* Table t becomes core, and should associate what w says.
TableBecomes(t, core, w, bad) ==
  /\ hashOps < MaxHashOps
  /\ hashOps' = hashOps + 1
  /\ ht' = [ht EXCEPT ![t] = core]
  /\ wanted' = [wanted EXCEPT ![t] = w]
  /\ misplaced' = [misplaced EXCEPT ![t] = bad]

\* Whether a change of t to core moves, or has moved, entries without hash value.
Misplaces(t, core) ==
  misplaced[t] \/ (core.log2 # ht[t].log2 /\ Forgotten(ht[t]))

HashTableSet(t, k, v) ==
  /\ ~ht[t].immutable
  /\ LET core == Set(ht[t], k, v)
     IN  TableBecomes(t, core, [wanted[t] EXCEPT ![k] = v], Misplaces(t, core))

HashTableDelete(t, k) ==
  /\ ~ht[t].immutable
  /\ TableBecomes(t, Delete(ht[t], k), [wanted[t] EXCEPT ![k] = NoValue], misplaced[t])

HashTableCopy(t, s, mutable) ==
  TableBecomes(t, Sg_HashCoreCopy(ht[s], mutable), wanted[s], misplaced[s])

HashTableClear(t, k) ==
  /\ ~ht[t].immutable
  /\ TableBecomes(t, Sg_HashCoreClear(ht[t], k), Nothing, FALSE)

HashTableAddAll(t, s) ==
  /\ ~ht[t].immutable
  /\ LET core == AddAll(ht[t], ht[s])
         w == [k \in HashKeys |-> IF wanted[s][k] = NoValue THEN wanted[t][k]
                                  ELSE wanted[s][k]]
     IN  TableBecomes(t, core, w, misplaced[s] \/ Misplaces(t, core))

HashNext ==
  \E t \in Tables :
    \/ \E k \in HashKeys : \/ HashTableDelete(t, k)
                           \/ \E v \in HashValues : HashTableSet(t, k, v)
    \/ \E k \in InitSizes \cup {0} : HashTableClear(t, k)
    \/ \E s \in Tables \ {t} : \/ HashTableAddAll(t, s)
                               \/ \E mutable \in BOOLEAN : HashTableCopy(t, s, mutable)

HashSpec == HashInit /\ [][HashNext]_hashVars

(***************************************************************************)
(* Properties.                                                             *)
(***************************************************************************)
\* The table finds what was last set for each key, counts its keys, and its iteration
\* returns each of them once.
Exact(t) ==
  LET keys == Sg_HashTableKeys(ht[t])
  IN  /\ \A k \in HashKeys : Sg_HashTableRef(ht[t], k) = wanted[t][k]
      /\ Range(keys) = {k \in HashKeys : wanted[t][k] # NoValue}
      /\ IsInjective(keys)
      /\ ht[t].count = Len(keys)

\* Until a table with copied entries grows, whatever was set, deleted, cleared, added
\* from another table and copied, and however often the tables grew, hashtable-ref,
\* hashtable-size and hashtable-keys agree with what was last set.
TablesExact == \A t \in Tables : ~misplaced[t] => Exact(t)

\* hashtable-ref returns the value associated with the key, of a table that is a
\* copy too.  It does not once the copy has grown.
CopyFindsItsKeys ==
  \A t \in Tables, k \in HashKeys : Sg_HashTableRef(ht[t], k) = wanted[t][k]
=============================================================================
