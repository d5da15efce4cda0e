\* Each component on its own; the instances are told apart in MCData.
CONSTANTS
  \* HashMap: two calls at a time, with an index of two slots that may grow once.
  Threads = {t1, t2}
  HashOf <- MCHash
  HashSpace = 8
  MaxElems = 3
  MaxGrown = 2
  MaxMetas = 3
  Modes = {"alone", "sets", "grow"}
  \* FastCache: three keys, lists of two and of one.
  FKeys = {"a", "b", "c"}
  Cap = 2
  Cap2 = 1
  TwoLevels = {TRUE, FALSE}
  FLives = {1}
  Never = 9
  MaxSize = 4
  \* Sessions: two requests, a deletion, one identifier, two objects.
  Visitors = {v1, v2}
  Deleters = {d1}
  Ids = {"i"}
  Objects = {"o1", "o2"}
  SeMaxTime = 3
  Life = 1
  Situations = {"requests", "collect"}
  \* MemFile: four lines over two days, a failing write, two restarts.
  Uses = {"log", "store"}
  MaxWrites = 4
  MaxDays = 2
  MaxFails = 1
  MaxStarts = 3
  \* Limiter
  Guests = {"g1", "g2"}
  Setups <- MCSetups
  LimMaxTime = 3
  \* TokenBucket: two calls at a time, fractions of a token.
  Askings = {"p", "q"}
  BucketKeys = {"a"}
  Rates = {1, 3}
  Capacities = {1, 2}
  Period = 2
  TbMaxTime = 2
  \* CronExpr: two years of two months, two of each unit of the clock.
  YearMax = 2
  MonthMax = 2
  ClockMax = 1
  Cases <- MCCases
  Starts <- MCStarts
  \* RouteTree: three registrations.
  RouteCalls <- MCCalls
  Urls <- MCUrls
  Digits = {"1"}
  ParamValues = {"1", "b"}
  MaxRoutes = 3
  \* EventStream: two events, a cut, a heartbeat, two connections.
  LastEvent = 2
  MaxCuts = 1
  MaxPings = 1
  MaxDials = 2
  RetryNums = {1}
  \* JsonText: two edits.
  Documents <- MCDocuments
  SetPaths <- MCSetPaths
  SetValues <- MCSetValues
  GetPaths <- MCGetPaths
  Query <- MCQuery
  Selector <- MCSelector
  NumberOf <- MCNumberOf
  MaxEdits = 2
SPECIFICATION DataSpec
INVARIANTS MapKeeps CacheSound OneHolder FlushedInOrder CountsVisits NeverAhead NextIsNext RoutesSound
  StreamSound DocumentsSound
\* Bounded clocks and numbers of calls end.
CHECK_DEADLOCK FALSE
