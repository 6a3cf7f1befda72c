CONSTANTS
  N = 1
  Clients = {c1}
  Managers = {c1}
  MaxTasks = 2
  MaxTerminations = 0
  NoQueue = NoQueue
SPECIFICATION Spec
INVARIANT WaitAllWaits
CHECK_DEADLOCK FALSE
