------------------------------ MODULE MCQueues ------------------------------
(* The shared queue and the shared priority queue, one of them in each         *)
(* behaviour.  Two threads and six objects of three kinds are enough for the   *)
(* vector of the priority queue to grow twice and for a removal to sift up.    *)
EXTENDS MCSharedQueue, SharedPriorityQueue

CONSTANTS p1, p2

VARIABLE part   \* which of the two runs

MCPqThreads == {p1, p2}
MCPqMaxLengths == {-1, 0, 2}
MCPqMaxPuts == [m \in MCPqMaxLengths |-> IF m = -1 THEN 6 ELSE 3]
MCPqMaxTimeouts == [m \in MCPqMaxLengths |-> IF m = -1 THEN 0 ELSE 1]

\* The other one stays as it begins, with one max-length.
AllInit ==
  /\ Init /\ PqInit
  /\ \/ part = "queue" /\ bound = -1
     \/ part = "priority" /\ maxLength = 1

AllNext ==
  /\ \/ part = "queue" /\ Next /\ UNCHANGED pqVars
     \/ part = "priority" /\ PqNext /\ UNCHANGED vars
  /\ UNCHANGED part

\* The fairness of FairSpec.
FairAll ==
  /\ AllInit /\ [][AllNext]_<<vars, pqVars, part>>
  /\ \A t \in Threads : WF_vars(Continue(t))
=============================================================================
