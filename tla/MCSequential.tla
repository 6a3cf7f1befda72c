---------------------------- MODULE MCSequential ----------------------------
(* The parts without concurrency: arithmetic, the tree map, the heap,          *)
(* char-sets, hash tables and the cache, one of them in each behaviour.  The   *)
(* others stay as they begin.                                                  *)
EXTENDS MCNumber, TreeMap, FibHeap, CharSet, MCHashTable, LruCache

CONSTANTS h1, h2

VARIABLE subject

MCHeaps == {h1, h2}

MCOtherSets == {{}, {1, 2}, {2, 4, 6, 8}, 3..7}

NoNumbers == LET zero == SG_MAKE_INT(0)
             IN  /\ x = zero /\ y = zero /\ op = [name |-> "none", arg |-> 0] /\ r = None
                 /\ fullShift = 0

SeqInit ==
  /\ subject \in {"number", "tree", "heap", "charset", "hashtable", "cache"}
  /\ TreeInit /\ HeapInit /\ CharInit /\ HashInit /\ CacheInit
  /\ subject # "heap" => es = <<>>
  /\ subject # "hashtable" => \A t \in Tables : ht[t].log2 = 0
  /\ IF subject = "number" THEN NumberInit ELSE NoNumbers

SeqNext ==
  /\ \/ subject = "number" /\ NumberNext
        /\ UNCHANGED <<treeVars, heapVars, charVars, hashVars, cacheVars>>
     \/ subject = "tree" /\ TreeNext
        /\ UNCHANGED <<vars, heapVars, charVars, hashVars, cacheVars>>
     \/ subject = "heap" /\ HeapNext
        /\ UNCHANGED <<vars, treeVars, charVars, hashVars, cacheVars>>
     \/ subject = "charset" /\ CharNext
        /\ UNCHANGED <<vars, treeVars, heapVars, hashVars, cacheVars>>
     \/ subject = "hashtable" /\ HashNext
        /\ UNCHANGED <<vars, treeVars, heapVars, charVars, cacheVars>>
     \/ subject = "cache" /\ CacheNext
        /\ UNCHANGED <<vars, treeVars, heapVars, charVars, hashVars>>
  /\ UNCHANGED subject
=============================================================================
