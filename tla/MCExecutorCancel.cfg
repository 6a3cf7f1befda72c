CONSTANTS
  f1 = f1
  f2 = f2
  c1 = c1
  c2 = c2
  Futures <- OneFuture
  Clients <- OneClient
  Submitters <- OneClient
  NoThread = NoThread
  N = 1
  Handlers <- SimpleOnly
  Retries = 0
  Watched <- OneFuture
  Timed = {}
SPECIFICATION Spec
INVARIANTS CancelledRaises
CHECK_DEADLOCK FALSE
