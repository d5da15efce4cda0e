\* More submitters than workers, alone and with each of the other calls.
CONSTANTS
  Clients = {c1, c2, c3}
  Timed = {c3}
  Closers = {k1}
  Adjusters = {a1}
  PreIniters = {i1}
  Workers = {w1, w2}
  Sizes <- MCSizes
  MinIdle = 1
  MaxIdle = 2
  ReleaseTimer = FALSE
  WordSize = 16
  Free = Free
  None = None
SPECIFICATION CallsFairSpec
PROPERTY CallsReturn
\* The calls end.
CHECK_DEADLOCK FALSE
