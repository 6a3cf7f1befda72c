---------------------------- MODULE MCSharedQueue ----------------------------
(* Three threads and a queue of up to three elements: two of them can contend   *)
(* for an element or for room while the third one changes the queue.           *)
EXTENDS SharedQueue, TLC

CONSTANTS t1, t2, t3, a, b

MCThreads == {t1, t2, t3}
NoMaintainers == {}
MCValues == {a, b}
Symmetric == Permutations(MCThreads) \cup Permutations(MCValues)

Unbounded == {-1}
=============================================================================
