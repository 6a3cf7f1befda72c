---------------------------- MODULE MCHashTable ----------------------------
EXTENDS HashTable

\* Keys 1 and 3 have the same hash value; the index of key 2 wraps around.
MCHash == [k \in HashKeys |-> <<6, 15, 6, 1>>[k]]
=============================================================================
