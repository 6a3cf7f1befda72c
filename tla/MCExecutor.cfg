CONSTANTS
  f1 = f1
  f2 = f2
  c1 = c1
  c2 = c2
  Futures <- MCFutures
  Clients <- MCClients
  Submitters <- OneClient
  NoThread = NoThread
  N = 1
  Handlers <- AllHandlers
  Retries = 0
  Watched <- OneFuture
  Timed <- OwnThreads
SPECIFICATION FairSpec
INVARIANTS GetTellsResult ListedIsUnfinished ShutdownTerminates
PROPERTIES GetReturns PlaceIsFreed
CHECK_DEADLOCK FALSE
