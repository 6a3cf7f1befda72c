------------------------------ MODULE LruCache ------------------------------
(***************************************************************************)
(* The cache of sitelib/cache/apis.scm with the replacement of             *)
(* sitelib/cache/lru.scm: a hash table, and a list of its keys with the    *)
(* one used longest ago in front.                                          *)
(*                                                                         *)
(* cache-evict! ignores the result of remove!, so the list keeps an        *)
(* evicted key that is its first: the key is stale.                        *)
(***************************************************************************)
EXTENDS Integers, Sequences, Functions, FiniteSets

CONSTANTS CacheKeys, MaxSize

ASSUME CacheAssumption == MaxSize \in Nat \ {0}

VARIABLES storage,  \* the keys of the hash table
          queue,
          used,     \* history: the keys used and not evicted, the last used last
          staleKey  \* history: a stale key was left in the list

cacheVars == <<storage, queue, used, staleKey>>

\* remove, of the keys in K.
KeysOutside(s, K) ==
  LET kept[i \in 0..Len(s)] ==
        IF i = 0 THEN <<>>
        ELSE IF s[i] \in K THEN kept[i - 1] ELSE Append(kept[i - 1], s[i])
  IN  kept[Len(s)]

\* Mutated: the key's old place in the list is kept.
ReorderKeepsOld(q, k) == Append(q, k)

re_order(q, k) == Append(KeysOutside(q, {k}), k)

\* remove! on the list that the slot holds: its first pair stays.
InPlace(q, K) == IF q = <<>> THEN q ELSE <<Head(q)>> \o KeysOutside(Tail(q), K)

CacheInit ==
  /\ storage = {}
  /\ queue = <<>>
  /\ used = <<>>
  /\ staleKey = FALSE

\* cache-put!, with the cache-pop! that makes room.
cache_put(k) ==
  LET full == Cardinality(storage) + 1 > MaxSize
      left == IF full THEN storage \ {Head(queue)} ELSE storage
      rest == IF full THEN Tail(queue) ELSE queue
  IN  /\ storage' = left \cup {k}
      /\ queue' = re_order(rest, k)
      /\ used' = re_order(used, k)
      /\ UNCHANGED staleKey

cache_get(k) ==
  /\ k \in storage
  /\ queue' = re_order(queue, k)
  /\ used' = re_order(used, k)
  /\ UNCHANGED <<storage, staleKey>>

cache_evict(k) ==
  /\ queue' = InPlace(queue, {k})
  /\ storage' = storage \ {k}
  /\ used' = KeysOutside(used, {k})
  /\ staleKey' = (staleKey \/ InPlace(queue, {k}) # KeysOutside(queue, {k}))

\* cache-clear! evicts the keys of the hash table in some order; the first pair of the
\* list stays throughout.
cache_clear ==
  /\ queue' = InPlace(queue, storage)
  /\ storage' = {}
  /\ used' = KeysOutside(used, storage)
  /\ staleKey' = (staleKey \/ storage # {})

CacheNext ==
  \/ \E k \in CacheKeys : cache_put(k) \/ cache_get(k) \/ cache_evict(k)
  \/ cache_clear

CacheSpec == CacheInit /\ [][CacheNext]_cacheVars

(***************************************************************************)
(* Properties.                                                             *)
(***************************************************************************)
\* Every cached key is in the list, so that a full cache always finds a key to drop.
\* Until a stale key is left, the cache never holds more than max-size keys, its list
\* has each of them once, and none was used before one that was dropped.
KeepsRecent ==
  /\ storage \subseteq Range(queue)
  /\ ~staleKey => /\ Cardinality(storage) <= MaxSize
                  /\ Range(queue) = storage
                  /\ queue = SubSeq(used, Len(used) - Len(queue) + 1, Len(used))

=============================================================================
