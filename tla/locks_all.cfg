\* Each component on its own; the instances are told apart in MCLocks.
CONSTANTS
  \* RBMutex: three readers, two writers, two slots.
  Readers = {r1, r2, r3}
  Writers = {v1, v2}
  Slots = {s1, s2}
  NoHolder = NoHolder
  \* Table: two callers, two calls on one key, two checks at a time.
  Keys = {key1}
  TableCallers = {t1, t2}
  Checkers = {x1, x2}
  Ids = {n1, n2, n3}
  Lives = {0, 1}
  MaxLife = 2
  MaxCalls = 2
  MayKeep = TRUE
  LoaderUses = TRUE
  Nothing = Nothing
SPECIFICATION LocksFairSpec
INVARIANTS LocksTypes StateAgrees WritersExclude FollowedUp
PROPERTIES WaitsEnd ImplementsRWLock
\* A table without items has nothing more to do.
CHECK_DEADLOCK FALSE
