SPECIFICATION FairAll
CONSTANTS
  t1 = t1
  t2 = t2
  t3 = t3
  cv1 = cv1
  Threads <- MCThreads3
  CVs <- MCCVs
  NoOwner = NoOwner
  NoCV = NoCV
  Controllers = {c1, c2}
  NoThread = NoThread
  Target = Target
  Ops <- AllOps
  Forced = TRUE
INVARIANTS MutualExclusion NoLostWakeup RequestIsNoticed StoppedIsStill StoppedHasInspector JoinTellsTheEnd
PROPERTIES FreeMutexIsTaken ImplementsAbstractMutex JoinReturns TerminationHappens
CHECK_DEADLOCK FALSE
