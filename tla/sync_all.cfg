\* Each component on its own; the instances are told apart in MCSync.
CONSTANTS
  \* Coalescer: three callers, five calls, a function that may panic.
  Callers = {c1, c2, c3}
  MaxCalls = 5
  MayPanic = TRUE
  \* WaitGroup: two functions at a time, of three.
  Tasks = {"t1", "t2", "t3"}
  Limit = 2
  MaxWaits = 2
  \* Chan: seven values, buffers of two.
  Buf = 2
  MaxSends = 7
  \* Promises: up to two sources, a reader, two contexts.
  Sources = 2
  Readers = {11}
  Parents = {21, 22}
  \* Dedup: two callers, two requests, room for one.
  Askers = {q1, q2}
  Requests = {"x", "y"}
  MaxCacheSize = 1
  Windows = {0, 1}
  MaxNow = 1
  \* CronJobs: two jobs, or one and two passes at a time.
  Jobs = {"a", "b"}
  Times = {{2, 3}}
  Crews = {{"a", "b", "loop"}, {"a", "loop", "caller"}}
  Passers = {"loop", "caller"}
  Second = 2
  Horizon = 3
  \* Balancer: two calls by different strategies, a node limited to one connection
  \* and one without a limit; or one call beside two operations on the nodes; or three
  \* administrators alone.
  k1 = k1  k2 = k2  r1 = r1  r2 = r2
  None = None
  Keys = {k1, k2}
  Runners = {r1, r2}
  Admins = {a1, a2, a3}
  Asked <- AskAll
  Strategy <- Mixed
  MaxConns <- OneLimited
  Weights = {0, 1}
  First <- Both
  Cooldown = 0
  Outcomes = {"ok", "error", "bad error"}
  MaxGen = 3
  MaxOps = 4
  Beside = 1
  MaxTime = 2
  IdxPeriod = 2
  \* WebRequests: two requests.
  Visits = {"v1", "v2"}
  Sites <- MCSites
  Buffers = {"x", "y"}
  ContextNames = {1, 2, 3, 4}
SPECIFICATION SyncFairSpec
INVARIANTS SyncTypes OneAtATime EveryRunHasACall NoCallForgotten
  WaitAnswersForAll ChanInOrder PromiseHonest DedupSound RunsOnTime AnswersAreOwn
  LimitHolds NoneUncounted KeysMatchNodes
PROPERTY WaitsEnd
\* The calls end and the operations are used up.
CHECK_DEADLOCK FALSE
