\* Each component on its own; the instances are told apart in MCPoolServices.
CONSTANTS
  \* WorkPool: submitters, Close, AdjustSize, PreInit and release timers.
  Clients = {c1, c2, c3}
  Timed = {c2}
  Closers = {k1}
  Adjusters = {a1}
  PreIniters = {i1}
  Workers = {w1, w2, w3}
  Sizes <- MCSizes
  MinIdle = 1
  MaxIdle = 2
  ReleaseTimer = TRUE
  WordSize = 16
  Free = Free
  None = None
  \* Injector: two requests, one panic, one later registration.
  Askers = {q1, q2}
  DiTypes = {"a", "b", "c", "i", "s"}
  Implements <- MCImplements
  Providers <- MCProviders
  Layouts <- MCLayouts
  Wishes <- MCWishes
  MaxFaults = 1
  MaxNews = 1
  \* Locale: two languages, two callers, two loads.
  Tongues = {"en", "fr"}
  DefaultLang = "en"
  Words = {"hello"}
  Speakers = {s1, s2}
  MaxLoads = 2
  MaxTemplates = 1
  \* Cleaner: Set and Close by one goroutine each, a cleaner and its successor.
  Setters = {t1}
  Closes = {x1}
  Mask = 0
  Expiration = 1
  IdleAfter = 1
  Thresholds <- MCThresholds
  Inflation = 1000000
  MaxClock = 2
  MaxStarts = 2
  IdxWrap = 2
  \* MemLimiter: two callers and the monitor, two checks.
  MemUsers = {u1, u2}
  MonitorLoop = monitor
  Usages = {5, 8, 9}
  MemLimits = {10, 20}
  PauseThreshold = 85
  PrevLimit = 99
  MaxMemChecks = 2
  \* WebServer: three servers of two engines, two runs, a goroutine that calls Shutdown.
  Engines = {"site", "admin"}
  Addrs <- MCAddrs
  Shutters = {p1}
  Main = main
  MaxActive = 1
  MaxRuns = 2
SPECIFICATION PoolServicesSpec
INVARIANTS WorkerLimit UsedNumCountsWorkers OneOwner NoLostWakeup
  ActiveNumCountsTasks WaitMeansDone CloseDrains ServicesSound
PROPERTY ImplementsTaskPool
\* The calls end and the operations are used up.
CHECK_DEADLOCK FALSE
