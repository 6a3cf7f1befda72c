------------------------------ MODULE MCThreads ------------------------------
(* The mutex and the thread of ext/threads, one of them in each behaviour.     *)
(* Three threads and one condition variable use the mutex: a holder, a waiter, *)
(* and one that takes the mutex between a notification and the woken thread.   *)
EXTENDS SgMutex, MCSgThread

CONSTANTS t1, t2, t3, cv1

VARIABLE part   \* which of the two runs

MCThreads3 == {t1, t2, t3}
MCCVs == {cv1}

\* The other one stays as it begins.
AllInit ==
  /\ MutexInit /\ Init
  /\ \/ part = "mutex"
     \/ part = "thread" /\ ~forced

AllNext ==
  \/ part = "mutex" /\ MutexNext /\ UNCHANGED <<vars, part>>
  \/ part = "thread" /\ Next /\ UNCHANGED <<mutexVars, part>>

\* No fair action of the other one is enabled as it begins.
FairAll ==
  AllInit /\ [][AllNext]_<<vars, mutexVars, part>> /\ Fairness /\ MutexFairness
=============================================================================
