CONSTANTS
  t1 = t1
  t2 = t2
  t3 = t3
  a = a
  b = b
  Threads <- MCThreads
  Maintainers = {t1}
  Values <- MCValues
  MaxLengths = {0, 1, 3}
  MaxPuts = 3
  MaxTimeouts = 1
  NoThread = NoThread
  Nil = Nil
  p1 = p1
  p2 = p2
  PqThreads <- MCPqThreads
  Objects = {1, 2, 3}
  PqMaxLengths <- MCPqMaxLengths
  Capacity = 2
  PqMaxPuts <- MCPqMaxPuts
  PqMaxTimeouts <- MCPqMaxTimeouts
  Nobody = Nobody
SPECIFICATION FairAll
INVARIANTS ListIntact ReadersServed HeapOrdered
PROPERTIES ImplementsAbstractQueue ElementIsTaken ImplementsPriorityQueue
CHECK_DEADLOCK FALSE
