CONSTANTS
  c1 = c1
  c2 = c2
  Clients <- MCClients
  Worker = Worker
  Nobody = Nobody
  Delays = {0, 1}
  MaxTasks = 2
  MaxTime = 1
  Tolerated <- NoSlips
SPECIFICATION FairSpec
INVARIANT TasksAccounted
PROPERTIES StartsProperly DueTaskRuns CallsReturn
CHECK_DEADLOCK FALSE
