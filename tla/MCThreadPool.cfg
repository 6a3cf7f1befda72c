CONSTANTS
  N = 2
  Clients = {c1, c2}
  Managers = {c1}
  MaxTasks = 3
  MaxTerminations = 1
  NoQueue = NoQueue
SPECIFICATION FairSpec
INVARIANTS IdleThreadIsListed ReleaseRunsTasks
PROPERTIES TaskIsRun PushReturns WaitAllWaitsWhileIdling
CHECK_DEADLOCK FALSE
