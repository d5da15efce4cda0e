\* Close while a submitter waits for a worker (pool_test.go:231).
CONSTANTS
  Clients = {c1, c2}
  Timed = {}
  Closers = {k1}
  Adjusters = {}
  PreIniters = {}
  Workers = {w1}
  Sizes <- MCSizes
  MinIdle = 1
  MaxIdle = 1
  ReleaseTimer = FALSE
  WordSize = 16
  Free = Free
  None = None
SPECIFICATION FairSpec
PROPERTY DoReturns
CHECK_DEADLOCK FALSE
