CONSTANTS
  t1 = t1
  t2 = t2
  t3 = t3
  a = a
  b = b
  Threads <- MCThreads
  Maintainers <- NoMaintainers
  Values <- MCValues
  MaxLengths <- Unbounded
  MaxPuts = 2
  MaxTimeouts = 2
  NoThread = NoThread
  Nil = Nil
SPECIFICATION Spec
SYMMETRY Symmetric
INVARIANT NoReaderSleepsOnElement
CHECK_DEADLOCK FALSE
