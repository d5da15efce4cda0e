\* Two calls and a node limited to one connection.
CONSTANTS
  k1 = k1  k2 = k2  r1 = r1  r2 = r2
  None = None
  Keys = {k1, k2}
  Runners = {r1, r2}
  Admins = {}
  Asked <- AskOne
  Strategy <- Mixed
  MaxConns <- LimitOne
  Weights = {1}
  First <- Both
  Cooldown = 1
  Outcomes = {"ok"}
  MaxGen = 1
  MaxOps = 0
  Beside = 1
  MaxTime = 1
  IdxPeriod = 2
SPECIFICATION Spec
INVARIANT CountsAreConnections
\* The calls end.
CHECK_DEADLOCK FALSE
