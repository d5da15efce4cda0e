# zlsgo: a verification development

zlsgo (`github.com/sohaha/zlsgo`) is a Go library of some thirty packages. Most
of its functions are sequential conversions; its own core logic, and nearly all
that is hard to test in it, is in the packages that share state between
goroutines. This directory models those in TLA+, checks them with TLC on small
instances and proves what matters most with TLAPS for every instance. Sections
3 to 9 take the modules one by one, section 10 says what the checks found,
section 11 what is proved and what is not modelled, section 12 what is left.

Line numbers refer to the files under `src/`.

## 1. Inventory

Component | State | Operations | Interacts with | Hard behaviour
--- | --- | --- | --- | ---
`zpool/pool.go` work pool | idle queue, `usedNum`, `activeNum`, `minIdle`, `closed`, worker goroutines | Do, DoWithTimeout, Close, AdjustSize (Pause, Continue), PreInit, Wait, Cap | submitters, worker goroutines, release timers, panics | two locks and two counters changed at different moments; timers against closing
`zpool/balancer.go` balancer | nodes with `total`, `failedAt`, weights | Add, Remove, Mark, Run, RunByKeys, WalkNodes | RBMutex, DoRetry | test-then-increment of connection limits, cool-down, retries
`zsync/mutex.go` RBMutex | packed `state` word, reader slots, an RWMutex, writer momentum | Lock, Unlock, RLock, RUnlock | used by the balancer and by `zarray` | fast readers and announced writers
`zsync/coalescer.go` | `running`, `pending` | the returned function | any callback | calls that arrive as an execution ends
`zsync/waitgroup.go` | counter, limit channel, first error, panics | Go, GoTry, Add, Done, Wait | goroutines | limits, errors and panics
`zsync/promise*.go` | result, `done` channel, sticky context error | Done, Then, Catch, Finally, All, Race, Any | contexts | cancellation racing with completion
`zsync/content.go` | merged context's err and done | MergeContext, cancel | several contexts | which cancellation wins
`zsync/seqlock.go` | sequence number, pointer | Write, Read | several writers | parity with two writers
`zcache/fast`, `zcache/table.go` | LRU buckets, sizes, cleaner level; table, expiry timer | Set, Get, Delete, ProvideGet, cleaner; Add, MustGet | callbacks, timers, finalizers | stale entries, single flight, callbacks outside the lock
`zarray/hashmap.go`, `list.go` | lock-free sorted list, index, counters | Set, Get, Delete, grow | RBMutex-free atomics | lost inserts next to deleted elements
`zhttp/dedup.go` | in-flight entries | Do, cleanup, Clear | HTTP calls | expiry and eviction of calls in flight, panics
`zutil/chan.go` | two channels and a buffer | In, Out, Close, Len | senders, receivers, a pump goroutine | closing with items in the buffer
`zutil/once.go`, `retry.go`, `mem.go` | done flag; attempt number; pause flag | OnceWithError, Guard, DoRetry, MemoryLimiter | callbacks | retry after failure, off-by-one attempts, stale callbacks
`znet/limiter` | tokens, rings of visit times | Allow, AllowVisit, cleanup | requests | rounding, ring indices, several rules
`znet/session/memory.go` | session table, object pool | Get, New, Renew, Collect, persistence | requests | re-use of an object that a request still holds
`znet/context.go`, `router.go`, `render.go`, `handler.go` | contexts and buffers in pools, chain of handlers, body | ServeHTTP, Next, Abort, Recovery, renders | requests | what one request leaves in an object that the next one takes
`znet/timeout`, `znet/cache` | copy of the context; entries of the cache | the middlewares | the rest of the chain, in a goroutine | late answers, answers that several share
`znet/sse.go`, `zhttp/sse.go` | a channel of one event, stop flag; last id, current event, retries left | NewSSE, Send, Push, Stop; SSE, OnMessage, Close | a connection; a client goroutine that reconnects | broken connections: what came twice, or not at all
`znet/web.go` | servers, shutdown group | RunContext, StartUp, Shutdown | signals, net/http | a shutdown during the start or another shutdown
`zdi` | values, providers, runs in flight, a parent | Get, Invoke, Resolve, Apply, Map, Provide | providers, singleflight | shared runs, panics, nested injectors
`zlocale/i18n.go` | languages, translations, templates, current language | Load, T, SetLanguage, RemoveLanguage | RBMutex | a language goes during a call
`znet/tree.go`, `router.go`, `utils.go` | trees of nodes with handlers and middleware, names | GET, Group, ..., Find, matching, GenerateURL | none | order and overlap of registrations, match order
`ztime/cron` | job table | Add, Remove, Run, Stop, ForceRun | timers | a job run twice or after Stop
`zfile/memory.go` | buffer, sync timer | Write, Sync, Close | file system | a write while the buffer is being saved
`zstring/snowflake.go` | last time, sequence | ID | clock | clock going back, sequence overflow
`zjson/get.go`, `set.go`, `json.go` | none; the text of a document | Get, Set, SetRaw, Delete, Valid | none | edits that cut and join a text: commas, padding, new containers
`zlog`, `zcli`, `zshell`, `zpprof`, the rest of `zjson`, `ztype`, `zreflect`, `zvalid`, `zerror`, the rest of `zarray`, `zstring`, `ztime`, `zfile`, `zhttp`, `znet` | little or none that is shared | conversions, formatting, I/O | | not modelled: sequential text and reflection

The components with state, and what makes each correct:

- **Work pool.** No more goroutines than `New`'s maximum; a worker is in the
  queue or in the hands of one caller, never both; no submitter sleeps while a
  worker is free; `Wait` and `Close` return when, and only when, the work is
  over; every call returns.
- **RBMutex.** Writers exclude everybody; the bias bit and the count of
  announced writers agree; nobody starves.
- **Coalescer.** One execution at a time; a call is followed by an execution.
- **Balancer.** A node never has more connections than its limit; its count
  is that of its connections, also when the node is removed while it is called;
  retries end.
- **Table cache.** An item that can expire has a timer or a check that will see
  it; an expired item goes and a fresh one stays; callbacks may use the table.
- **WaitGroup, Promise, merged context, SeqLock, Once, retry.** At most `limit`
  functions at work; a promise is fulfilled once and its handlers run once;
  `Read` never returns half a value; a failed `OnceWithError` may run again.
- **Fast cache, lock-free map, deduplication.** What was stored is found until
  it is deleted or evicted; one loader per key; a waiter gets an answer.
- **Web requests, timeout, response cache.** Each request is answered once, with
  what was made for it.
- **Event stream.** However often the connection is made again, events come in
  order and none twice.
- **Router.** A URL finds the route registered for it, whatever else is registered.
- **JSON text.** After any edits it is valid and says what they add up to, and
  `Get` finds on the text what is in the tree.
- **Injector, languages, cleaner, memory limiter, servers.** A value is made once;
  a translation is the best there is; what was started ends when it is told to.
- **Channel, limiter, session store, cron, memory file, snowflake.**
  Nothing that was accepted is lost or handed out twice, and every
  waiter is woken.

How they interact: the balancer takes an RBMutex and the retry loop of `zutil`;
`zarray`'s hash map and `zcache`'s tables are used by `zlocale`, `zdi`, `zhttp`
and `znet/session`; the work pool stands alone and runs the callers' functions
on its own goroutines. All sharing is by memory: mutexes, atomics, channels and
`time.AfterFunc` callbacks; the one
network protocol is the event stream, and what survives the process are files:
`MemFile` has their crashes and restarts.

## 2. Conventions

A step is what the code does without another goroutine being able to see it:
one atomic operation, one channel operation, or one critical section. A
critical section is split where it waits inside, or where it reads something
that is not protected by its lock. `pc[p]` (or `at`, `visit`, `pass`...) says
where goroutine `p` stands, by a name for what it does next. Calls that never
return to a caller in the code (a panic that escapes) end in a label of their
own. Definitions commented *mutant* are faulty variants that the specification
does not use; `PROJECT.json` lists, for every property, one that breaks it, and
gives for every definition the lines it was taken from.

Module | Models | Proofs | Runs
--- | --- | --- | ---
`WorkPool`, `TaskPool` (its promise) | `zpool/pool.go` | `WorkPool_proofs` | services_all, pool_returns, pool_close_deadlock
`RBMutex`, `RWLock` (its promise) | `zsync/mutex.go` | `Locks_proofs` | locks_all, rb_overlap
`Table` | `zcache/table.go`, `item.go` | `Locks_proofs` | locks_all
`Coalescer` | `zsync/coalescer.go` | `Sync_proofs` | sync_all, coal_lost
`Balancer` | `zpool/balancer.go`, the loop of `zutil/retry.go` | `Balancer_proofs` | sync_all, bal_leak
`WaitGroup` | `zsync/waitgroup.go` | `Sync_proofs` | sync_all
`Chan` | `zutil/chan.go` | `Sync_proofs` | sync_all
`Promises` | `zsync/promise.go`, `promise_extension.go`, `content.go` | `Sync_proofs` | sync_all
`Dedup` | `zhttp/dedup.go` | `Sync_proofs` | sync_all
`CronJobs` | `ztime/cron/cron.go` | `Sync_proofs` | sync_all
`CronExpr` | `ztime/cron/cronexpr.go` | | data_all
`HashMap` | `zarray/hashmap.go`, `list.go` | | data_all, map_grow
`FastCache` | `zcache/fast/utils.go`, `lru.go` | | data_all
`Sessions` | `znet/session/memory.go`, `session.go` | `Data_proofs` | data_all
`MemFile` | `zfile/memory.go`, the append of `handle.go`, `zlog/file.go`, the snapshots of `session/memory.go` | | data_all, snapshot_lost
`Limiter` | `znet/limiter/rule.go`, `queue.go`, `limiter.go` | | data_all
`TokenBucket` | `znet/limiter/token_bucket.go` | `Data_proofs` | data_all
`WebRequests` | requests in `znet`: `router.go`, `utils.go`, `context.go`, `render.go`, `handler.go`, `timeout/timeout.go`, `context_clone.go`, `cache/cache.go` | `WebRequests_proofs` | sync_all, params_foreign
`RouteTree` | the router: `znet/tree.go`, `router.go`, `utils.go` | | data_all
`EventStream` | `znet/sse.go`, `zhttp/sse.go` | `Data_proofs` | data_all
`JsonText` | `zjson/get.go`, `set.go`, `json.go` | | data_all
`Injector` | `zdi/inject.go`, `bind.go`, `lazy.go`, `di.go` | `Services_proofs` | services_all
`Locale` | `zlocale/i18n.go` | `Upkeep_proofs` | services_all
`Cleaner` | the cleaner goroutine of `zcache/fast/lru.go` | `Upkeep_proofs` | services_all
`MemLimiter` | `zutil/mem.go` | `Upkeep_proofs` | services_all
`WebServer` | start and stop in `znet/web.go` | `Services_proofs` | services_all
`MCWorkPool`, `MCPoolCalls`, `MCBalancer`, `MCHashMap`, `MCWebRequests` | instances: sets that a configuration file cannot write | |
`MCLocks`, `MCSync`, `MCData`, `MCPoolServices` | the instances checked together | | locks_all, sync_all, data_all, services_all
`MCServices` | the five services together, a part of `MCPoolServices` | `Services_proofs` | services_all

**The composite runs.** `MCLocks`, `MCSync`, `MCData` and `MCPoolServices` check components that
share nothing side by side: the variable `part` chooses one of them in the
initial state, only that one moves, and the variables of the others keep one
initial value. The states of the composite are thus the sum, not the product,
of those of the components, and every invariant of a component is checked on
exactly the behaviours it has alone. Where liveness is checked, the fairness
each module states (`CoFairSpec`, `WGFairSpec`, ...) is written with one
formula for the i-th goroutine of whatever component runs (`Goroutine(i)`,
`Waiter(i)`, `Runner(i)`) under the variables of that component (`PartVars`):
since `part` never changes, along any behaviour each formula is the formula of
that one goroutine. `WaitsEnd` likewise has one line for each thing that
somebody waits for.

## 3. The work pool

`WorkPool` follows three sorts of callers and the workers. `mu` is the write
lock of `wp.mu`; `queue` and `parked` are `wp.queue.list` and the goroutines
waiting on the present `wp.queue.ready` channel, which a push into an empty
queue closes. `held[p]` is the worker a caller has popped or started. `wpc[w]`
is a worker's goroutine: in its `select`, busy, finished with a job, leaving, or
not there. `job` and `task` say whose task a worker runs and what became of it.

- `Do` and `DoWithTimeout`: `DoIsClosed`, `DoLock`, then `DoRefuse`,
  `DoTakeIdle`, `DoSpawn` or `DoQueue`; `pop` is `PopTake`, `PopLook`,
  `PopPark`, `PopGiveUp`; then `DoReadClosed`, `DoGiveBack`, and the
  rendezvous `DoRun`, or `DoUndo` on every error path.
- `Close`, `AdjustSize` (and so `Pause` and `Continue`) and `PreInit` share the
  loops of the code: `ShrinkNext`, `Pop`, `StopWorker`, `ShrinkDone`, and
  `GrowSpawn`, `GrowPush`, `GrowDone`.
- The goroutine: `WorkerFinish` (a return or a panic), `WorkerPush`,
  `WorkerRelease` (the timer) and `WorkerLeave`. `Uint` is the conversion to
  an unsigned word. `Wait` and `Cap` only read; `WaitMeansDone` and
  `UsedNumCountsWorkers` are about what they read.

**services_all**, of which the pool is one part (three submitters, one of them with
a deadline, one `Close`, one `AdjustSize` with a negative, a zero and a large
size, one `PreInit`, release timers, two workers at most and three names for
them): `WorkerLimit`, `UsedNumCountsWorkers`, `OneOwner`, `NoLostWakeup`, `ActiveNumCountsTasks`,
`WaitMeansDone`, `CloseDrains`, and `ImplementsTaskPool`, the refinement to the
pool without workers and locks. Two workers and three submitters are the least
with which one submitter must wait while two jobs run; each sort of caller
occurs once, so that every pair of operations meets. Two `Close` calls are
left out as their meeting is a panic (section 10). Workers, and the submitters
without a deadline, are interchangeable: `NamesInOrder` gives out their names in
one order, here and in pool_returns. The type invariant `TypeOK` is proved
and no property of a run.

**pool_returns** (three submitters, one of them with a deadline, on at most two
workers) asks whether calls return: `CallsReturn` says that every `Do`,
`Close`, `AdjustSize` and `PreInit` does. Who calls is chosen in the initial
state (`calling`): the submitters alone; with one of the other three, who may
come before, between or after them; with `Close` and `AdjustSize`, which both
wait for workers with the lock held; or two of them with one of each other
sort. A `Close` that always came would end every wait and hide a wait that has
no other end. Three submitters on two workers always leave one that waits in
`pop`, and a pool with `AdjustSize` has `Close` or `AdjustSize` waiting there
too. Two kinds of state are excepted, as nothing leaves them: the deadlock of the
next run (`Jammed`), and submitters that wait in a pool whose workers
`AdjustSize(0)`, which `Pause` is, has stopped (`Paused`; another call would
wake them). Without either exception TLC shows the state at once. The
release timers are off: with them a submitter may be stranded (section 10).

**pool_close_deadlock** (violation of `DoReturns`): a submitter that waited and
was handed a worker takes `wp.mu` for reading (pool.go:248), while `Close` or
`AdjustSize` holds it and waits for that same worker. Neither ever goes on.

*Fairness.* Strong for each caller: a `sync.Mutex` turns to starvation mode
after a millisecond and an `RWMutex` serves writers and readers in turn, so that who is
often able to go on goes on. Weak for the worker goroutines, with which we
assume that a job returns. Nothing is assumed of the release timer.

*Proved*, for any callers, workers, sizes and maxima that meet
`PoolAssumption`: `TypeCorrect`, `NeverTooManyWorkers` (`WorkerLimit`) and
`CapCounts` (`UsedNumCountsWorkers`). `WorkerLimit` is not inductive:
`usedNum` is tested against the maximum, not the number of goroutines, and a
`Close` in progress has already subtracted a goroutine that still runs. The invariant `IInv`
adds that exactness of `usedNum` (as an equality of cardinalities), that only
the holder of `mu` can be in the part of a call that adds or subtracts a
worker (`LockHeld`), and that whoever is about to hand over or stop a worker
has one (`HoldsWorker`). As the subtraction and the test happen under one
lock, at the test nobody else is between the two.

The second part of `WorkPool_proofs` is what the pool promises its callers, for the same
constants: `EachWorkerHasOneOwner` (`OneOwner`), `NoWakeupIsLost`
(`NoLostWakeup`), `ActiveNumIsExact` (`ActiveNumCountsTasks`), `WaitIsRight`
(`WaitMeansDone`), `CloseHasDrained` (`CloseDrains`) and the refinement
`PoolImplementsTaskPool`. Its invariant `TInv` is `IInv` and, part by part:

- *Whose a worker is* (`Owners`): a worker is queued at most once and held by at
  most one caller, never both, and who is queued or held waits in its
  `select`; a worker that waits has an owner. A caller that has lost or handed
  over its worker holds nothing (`HeldNone`), which every later pop rests on.
- *Who waits*: nobody waits on `ready` while the queue has a worker. A push
  into an empty queue wakes all of them, and who looks at the queue and waits
  does so in one critical section of the queue.
- *Whose a task is* (`Tasks`): a task that a job runs was accepted and belongs to one
  job; a busy worker runs one and a task that runs has a worker, so that the
  number of running tasks is that of busy workers, and `activeNum` that of
  callers and jobs between its increment and its decrement.
- *What a Close has done* (`Flags`): `closed` is set while a Close is on its
  way, and who found the pool open and is about to start a worker still has the lock
  under which it looked. As a Close drains one
  worker for each that `usedNum` counted, none is left to run a job
  when it returns.

For the refinement a hand-over (`DoRun`) is `Begin`, the end of a job
(`WorkerFinish`) `End`, and the last step of a Close (`ShrinkDone`) `Drain`;
every other step is a stutter. That no more than the maximum of tasks run is
`WorkerLimit` by way of the map from busy workers onto running tasks. TLC found
all of `TInv` to hold on the instance of services_all before it was proved.

## 4. The reader-biased lock

`bias` and `writers` are the two halves of `mu.state`; `counter[s]` a slot's
counter; `rwReaders` and `rwWriter` the embedded `sync.RWMutex`, with a writer
that waits keeping new readers out; `token[r]` the slot in a reader's token;
`unseen[w]` the slots a scanning writer has yet to see at zero. Which
slot a reader gets depends on the processor it runs on: any slot. `RLock` is
`LoadState` then `RLockFast` or `RLockSlow`; `Lock` is `Announce`,
`RWLockBegin`, `RWLockEnd`, `Scan`, `ScanDone`; `Unlock` is `RWUnlock` and
`Leave`, in the order of the code. No slots at all is the zero value.
`writerMomentum` is left out, as `BiasOrWriters`, a half of `StateAgrees`, shows the branch that reads it
(mutex.go:106-125) to be unreachable.

**locks_all** (three readers, two writers, two slots): the lock's two halves agree
with the goroutines (`StateAgrees`, which is `BiasOrWriters` and `CountersExact`), writers exclude writers
and slow readers (`WritersExclude`), what is left when fast readers are not
counted is a read-write lock (`ImplementsRWLock`), and nobody starves
(`WaitsEnd`). Two writers are needed for the bias to be
restored wrongly, two slots for a scan to be out of date at the second, three
readers for one to be in by each slot and one by the slow way.

**rb_overlap** (violation of `MutualExclusion`): a reader loads the state, a
writer announces itself, scans and enters, and the reader adds one to its slot
and enters beside it. The code has the second look at the state that would
prevent it (mutex.go:119), but only in the branch that is never taken.

*Fairness.* `WF` of every step of a lock or unlock in progress; `SF` of the two
entries of the `RWMutex`, which lets the readers that wait in after each
writer, and serves writers in turn. Nobody is assumed to come.

*Proved*, for any finite sets of readers, writers and slots: `TypeCorrect`,
`StateConsistent` (`StateAgrees`), `WriterAlone`, `NoFastBesideWriter`,
`Implements` (the refinement to `RWLock`), and `ZeroValueExcludes`: with no
slots, the zero value that `znet/web.go:56` uses, even `MutualExclusion` holds.
The invariant adds to those properties who stands where in the RWMutex
(`RWHeld`), that a token is held only inside (`TokenInside`) and that fast
readers exist only where there are slots (`FastHasSlots`). For the refinement a writer
enters with the last load of its scan and leaves with `RWUnlock`; the steps
of fast readers are stuttering.

## 5. The coalescer

The call that raises `running` is the runner: `Enter`, `Start`, then `Return`
or `Panic`, `RunAgain` while `pending` is not zero, `NoMore`, `Release`. Any other
is `FindBusy` and `AddPending`. `calls`, `runs` and `owed` are history.

**sync_all** (three callers, five calls, a function that may panic): one
execution at a time also after panics (`OneAtATime`), no execution without a
call (`EveryRunHasACall`), every call that was not followed by an execution is
still on record (`NoCallForgotten`), and a mark that is there when the function
returns is served (`WaitsEnd`). Three callers let one run while
two others race to mark; with five calls the runner goes round several times.
*Fairness*: `WF` of what has begun.

**coal_lost** (violation of `NoCallLost`): a call between the runner's last
look at `pending` and its release of `running` leaves a mark that nobody sees
until somebody calls again.

*Proved*, for any finite set of callers and any number of calls:
`CoTypeCorrect`, `RunsOneAtATime`, `RunsHaveCalls`, `CallsOnRecord`. The
invariant is their conjunction. What it takes is the arithmetic of how a move from one label
to another changes the sizes of both sets (`CoAtMoves`).

## 6. The balancer

`nodes` and `nodeKeys` are the map and the list of keys; a node is a key and
how often `Add` has made it, as a call may hold a node that was removed.
`total`, `failedAt` and `weight` are the node's fields. A call of `RunByKeys` is `Begin`, `GetNodes`,
then rounds of `Attempt`, `Pick`, `Test` (which drops a full node from the
copied list), `Take`, `TestAgain`, `Call`, `End`, `Refresh` and `Failed`. `Pick` has
round robin, least connections (the first of the least scores) and any index,
which stands for random and weighted choice; `PickPanics` is the division
by a weight of zero. `AddLook` and `AddInsert`, `Remove`, `Mark`, `SetWeight` and the walk
(`WalkBegin`, `WalkLook`, `WalkSet`, `WalkEnd`) are the other operations. What
happens under `mu` is one step: `RBMutex` says when that lock excludes, and
the race it has (section 4) is not modelled a second time here. The default retry interval is
no more than a delay.

**sync_all** (two calls with different strategies, two nodes of which one is
limited to one connection): the limit holds although it is tested before the
count is raised (`LimitHolds`), no connection goes uncounted, also when its
node was removed and added again (`NoneUncounted`), and
calls return (`WaitsEnd`). *Bounds*: `FewOps` 2 operations on the nodes by one
administrator (a removal and an addition are the least that replace a node), and `Beside` 1
call in the behaviours that have them, as two calls and two operations together
are too many states; behaviours without operations have two calls. The weights 0
and 1 are the one that panics and the default. `MaxTime` 2 with a cool-down of
0 lets a node cool down until the next tick and come back. `IdxPeriod` 2 is a multiple of the possible numbers of
nodes, so that wrapping the index there changes nothing. *Fairness*: `WF`
of a call that has begun (retries are bounded by the number of nodes), with
which we assume that callbacks return; nothing of `Tick` or the operations.

The part `"nodes"` of the same run has three administrators at once and no calls:
list and map agree although `Add` looks for the key in a critical section of its own and must look again
when it has the lock (`KeysMatchNodes`). *Bounds*: four operations (`MaxOps`), and three
nodes for a key (`MaxGen`): a `Remove`, two calls of `Add` that both found the key
absent, so that the later one meets the other's node (`~StillAbsent` in `AddInsert`), and
one more that comes before, between or after them. A new node weighs 1 there, as no
weight touches list or map. The mutant leaves the second
look out.

**bal_leak** (violation of `CountsAreConnections`): `selectNode` lets in a
call too many and the second test turns it away without lowering the count
again; after one refusal the limit of one is used up for ever.

*Proved*, for any runners, keys, limits and strategies: `CountsCover`
(`NoneUncounted`) and `LimitsHold` (`LimitHolds`). The second needs the first:
a call that passes `TestAgain` saw `total <= max`, and `total` is at least
the number of calls that hold the node, itself included. `KeysAreNodes`
(`KeysMatchNodes`) has an invariant of its own, which says that the list holds
each key once: without that a `Remove`, which takes out the first it finds, would
leave a key without a node. The second test of `Add`, inside the critical
section that inserts, keeps it.

## 7. The cache table

`items` maps keys to names in `heap`, where an item has its lifespan, its age
and the time since its last access; `timer` is what is left of the clean-up
timer, and `Tick` moves all clocks together. `lock` is the table's mutex where
a critical section waits inside it for an item's lock, which only the loader of
`MustGet` holds for long (`loading`). `Set`, `AddLook`, `Insert`, `Added`,
`MustGet`, `LoaderLocks`, `Load`, `UndoAdd`, `Get`, `Touch`, `Read`, `Clear` are the callers;
`DeleteLock`, `DeleteUnlock`, `Callback`, `DeleteNow`, `Keep` the deletion that callers and
checks share; `CheckLock`, `Scan`, `Sweep` one goroutine of `expirationCheck`;
`TimerFires` starts one. `kept` is history: a callback refused the deletion.

**locks_all** (one key, two callers, two calls, two checks at a time,
callbacks that may refuse): an item that can expire always has a timer or
somebody on the way who will look at it (`FollowedUp`), an item whose time is
over goes, and calls return although callbacks and loaders use the table
(`WaitsEnd`). A loader may ask for the table's lock (`LoaderUses` TRUE, the label
`"using"`) or not. It can then deadlock with a `Delete` or a check that waits
for its item with the table locked: `TableJammed` is that state, which nothing
leaves, and `WaitsEnd` excepts it and no other (section 10). *Bounds*: lifespans of 0 and 1 tick and ages up to
`MaxLife` 2, which tells apart fresh, due and doubled; three names, for the
item in the table, the one to replace it, and one that a check still holds;
`MaxCalls` 2, as two calls and two checks already give all pairs of
operations on one item. With one key several deadlines never compete for the
timer; that choice is `Smallest`, a minimum. *Fairness*:
`SF` of a caller or check that has begun (they wait for mutexes), of the
timer, `WF` of time; loaders and callbacks return.

*Proved*, for any keys, callers, checks, lifespans and names:
`ExpiryIsFollowedUp` (`FollowedUp`). The run has one key, where deadlines never
compete for the timer; the theorem has any number. The invariant `TaInv` adds
that an item is under one key (`OneKeyEach`), so that an insertion or a deletion
by a goroutine that holds the item touches that key alone; that an interval
that is not zero goes with a timer or a scan on its way (`IntervalHasTimer`), which
is why `Added` may leave out the check when the new lifespan is no shorter than
the interval; that who is about to delete knows the key of its item
(`DeletesKey`); and that a check that looks for work has none in hand
(`SweepsEmpty`). A scan puts an item on its list or
finds time left, and the smallest of these times is what it sets the timer to.

## 8. Groups, channels, promises, shared requests, jobs, web requests

All in **sync_all**, with the coalescer and the balancer.

**WaitGroup.** `task[t]` follows a function from the call of `Go` (`WGGo`,
`Acquire` of a place in `ch`, `AddOne`) through its goroutine (`FnReturns` or
`FnPanics`, `KeepError`, `ReleaseSlot`, `DoneOne`); functions may themselves
call `Go`. `WaitAnswersForAll`: when `Wait` comes back all that was started is
over, also what running functions started, at most `Limit` of them ran at a time,
and it returns an error exactly if one of them panicked. Three functions and a
limit of two: one waits for a place, and one may be started by another.
`WaitsEnd`: `Wait` returns, unless every place is held by a function that
itself waits for one (`Jammed`: section 10). *Proved*, for any finite set of
functions and any limit: `WaitIsAnswered` (`WaitAnswersForAll`). The counter and
the places taken are the sizes of sets of functions (`CountsExact`); a function
that calls `Go` is itself counted until that call has counted the new one
(`CallersCounted`), so the counter cannot reach zero while anything is yet to come.

**Chan.** The pump goroutine between `in`, `q` and `out` in its phases:
`PumpTakes`, `PumpGives`, `PumpShuts`, then `Drain` and `Flush`; `Close` is
`CloseFlag`, `CloseIn`, `CloseSignal`. `ChanInOrder`: nothing that `in`
accepted is lost, doubled or overtaken, also across `Close`, and `out` is
closed only when all of it is there. `WaitsEnd`: with a receiver, what
was accepted comes out, and the end of a closed channel is seen. Seven values
through buffers of two fill `in`, `q` and `out` at once. *Proved*, for any sizes
of the buffers and any number of values: `ChanKeepsOrder` (`ChanInOrder`). What is
on the way, from `out` back to `in`, is numbered without a gap behind what was
received (`OnTheWay`), and each phase of the pump knows which of the buffers are empty
(`PumpKnows`), so that the value it carries past the others is the oldest.

**Promises.** Source promises and the one (`D`) that Then, PromiseAll,
PromiseRace or PromiseAny makes of them, under a merged context that is
cancelled in two steps (`MonitorErr`, `MonitorClose`, as in content.go). A call of
`Done` takes either branch of its `select` when both are ready. Sources need
not settle. `PromiseHonest`: what each kind promises of its outcome, and no
error is lost, so that a cancelled promise is not taken for a fulfilled
one. `WaitsEnd`: D settles when its sources or its context do, and `Done` returns.
The two parent contexts are alike, so `ParentsInOrder` of `MCSync` cancels them in one order.
*Proved*, for any sources, readers and every kind: `PromisesAreHonest`
(`PromiseHonest`). The invariant says that outcomes and answers are never taken
back and that what the combining goroutine has noted so far is true of the
sources it has heard (`DHonest`).

**Dedup.** `entries` is the table, `cell` the entries, which live on while
somebody waits for one after it has left the table. `Fetch` is `Do` up to the
release of the lock, with `cleanup` in it (which entries an iteration over a Go
map meets is a choice); `Join` finds an entry; `Answered` (by an answer or an error, which the code keeps alike), `Panics`,
`Shared` are the rest. `DedupSound`: the table keeps to its limit, and
who waits does so for a request of its own kind that somebody is still making
unless it has panicked. `WaitsEnd`: who waits is answered, unless it has
panicked. Room for one entry and two requests give every eviction. *Proved*,
for any callers, requests and table size: `DedupIsSound` (`DedupSound`). An
entry that somebody uses keeps its request, one that is open has the call that
will fill it, and there is always an entry that nobody uses, by
counting the callers.

**CronJobs.** The table of jobs and the passes of `ForceRun` over it, by the
loop and by other callers, cut at each use of `job.mu` (`Look`, `FireJob`,
`Measure`), with `AddJob`, `RemoveJob`, `CronStop`, and the loop's sleep of a
second at most. `RunsOnTime`: unless passes overlap, a job runs at its time or
later and never twice for one time, and its next time is the first after the
pass. `WaitsEnd`: a job whose time has come runs, unless the loop is stopped.
*Proved*, for any jobs, passes and expressions: `CronRunsOnTime` (`RunsOnTime`).
That the next time is the first after the last start holds even when passes
overlap; that a job is not started early does not, and needs that the pass that
saw it due is still alone when it starts it.

**WebRequests.** A request takes a context from the pool or a new one
(`ServeHTTP`), and runs its chain: `context[c].left` is what is left of it,
`proc[p].frames` which middlewares are on the goroutine's stack, with
the end of the chain (`NextEnds`), a panic on its way up (`Unwinds`) and the return into each
frame (`RecoveryEnds`, `CacheSet`, `TimeoutDone`). The
timeout makes a copy of the context and a goroutine of its own for the rest of
the chain, the `"child"` of the request; the cache finds, leads or waits
(`proc[p].got`). A body leads to an array, and `bytesOf` says for which request
its bytes were made: contexts in the pool, entries of the cache and copies may lead
to one array, which is what there is to get wrong. The sites (`MCSites`) put two
requests on every kind of route: with a pattern and enough middleware for an
append in place, with Recovery, the cache, the timeout and several at a time,
with handlers that render, write to a pooled buffer, err or panic.
`AnswersAreOwn`: each is answered with what was made for it, or what it
shares by the cache, or the page that belongs to its code. `WaitsEnd`: each is
answered. The site of the next run is left out of this one (`MCWebRequests`).
*Proved*, for any requests, contexts and buffers, and any site that fits:
`AnswersStayOwn` (`AnswersAreOwn`). The invariant (`RqInv`) says where each goroutine
may be with which context (`Placed`), that nobody shares a context and one is always
left (`Apart`, `Enough`), and whose bytes each array holds: with neither cache nor timeout,
or with one of them, an array that a context leads to is written by one request
only, and with both, everybody's bytes are the same (`ArraysApart`). A step of one goroutine moves that
goroutine and hands something to those who wait for it (`Goes`); that the others
stay where they may be is one lemma (`OthersPlaced`). `SiteFits` is what the
theorem asks of the routes, and every site of `MCSites` meets it:

- a name is one route (`SiteTyped`); no two requests are for a route with room for
  its handler behind the middleware (`OwnSlots`: params_foreign shows why);
- one request at most writes by `GetWriter` (`OneWriter`), and the cache and the timeout
  meet only where all requests are for one route (`CacheOrTimeout`): the two
  defects of section 10;
- a ware that panics is not below the cache, and neither such a ware nor a handler
  that panics below the cache is beside a timeout or a ware that aborts (`PanicsAlone`): the page
  that Recovery rendered stays in the context, and what the rest of the chain
  then answers would be sent with that page.

Of the names it asks that they are not those of the model's own values, and that there are
contexts for all requests and the copies of their timeouts (`NamesFit`): the code makes
one whenever the pool is empty.

**params_foreign** (violation of `ParamsAreOwn`): two requests for one route
append their handlers in place behind the middleware they share, and the first
runs the handler of the second, with its parameters.

*Fairness.* `WF` of each goroutine that has begun something and, for `Chan`, of
a receiver; promises that settle are those of the sources that do; for
`CronJobs`, of time. Functions handed in (`fn`) return or panic.

## 9. Stores, limiters, expressions, streams and services

All in **data_all**, safety only.

**HashMap.** `link`, `deleted` and `keyOf` are the list, `metas` the indexes
(the last one is the present; calls hold on to an old one). A walk is one
step, and the compare-and-swap that follows is another, with its failure:
`Set`, `Inject`, `Add` or `AddFails`, `Count`, `Index`; `Grow`, `GrowFill`,
`GrowStore`, `GrowAgain`; `Delete`, `Find`, `MarkDeleted`, `Unload`,
`Unindex`, `Uncount`; `Clear` in its three stores. `mode` says which calls may
overlap. `MapKeeps`: while none overlap, or only Sets of keys of different
hashes or of one key that need no new index, the list holds the keys
the calls left in it, each once, and `get` finds the same unless a slot is
just being brought up to date; also with an index being replaced the list is
in the order of the hashes and its length is `numItems` when all is quiet. What
fails beyond that is in section 10. Three keys, of which two fall in one slot
of the first index, and a growth from two slots.

**map_grow** (violation of `SetIsFound`): a Set puts its element in an index
that `Grow` has filled already to replace: when both are over, `get` does not
find the key.

**FastCache.** A bucket of the two-level LRU cache down to the links in its
arrays (`Adjust` is `adjust`, in the order of its assignments), with put,
get (which moves an item to the second list), delete, expiry, and what
`forEach` and `cleanExpired` do. `CacheSound`: links and index stay sound,
`size` is never below the number of live items, and the first list holds
nothing but the last value set for a key. Three keys for a list of two and a
list of one: every put may throw out, and deleted nodes are used again.

**Sessions.** Objects of a pool under identifiers, cut where a call leaves a
lock or the map: requests (`Arrive`, `Check`, `PoolGet`, `Fill`, `StoreNew`,
`Serve`, `RenewLoad`, `RenewSet`), `Delete`, which an unlucky `Get` starts in a
goroutine of its own, and `Collect`. `OneHolder`: unless Collect overlaps a
Delete, an object is in one place only, so that two calls of `New` never get
the same, and what the map leads to bears its identifier. *Proved*, for any
objects, identifiers and requests: `SessionsHaveOneHolder` (`OneHolder`). The pool,
the map, the requests, the Deletes and what Collect has found are the
holders of an object; each step hands an object from one of them to at most one other
(`HandsOn`), and who holds one by its identifier finds it there (`BearsItsName`).

**MemFile.** The buffer with the array behind it (a `Sync` hands on a slice that
later writes fill again), `Sync` in three steps by the loop and by `Close`,
failing writes, the daily change of name, and the snapshots of the session
store with crashes, whole or torn, and restarts. `FlushedInOrder`: unless
something is written during a flush, files, slices in hand and buffer hold
every chunk once and in order, but for those that a failed write or a crash
took.

**snapshot_lost** (violation of `RestartFindsSnapshot`): the second snapshot
is appended to the first, and the file is no JSON any more.

**Limiter.** A rule's rings of times, handed out by index, freed when empty and
moved to the front of a shorter table. `CountsVisits`: a rule knows of each key
exactly the visits that still count, whatever happens to its ring. Four keys for
one estimated ring make the table grow and shrink; two guests pass through two
rules, one after the other.

**TokenBucket.** Beside each bucket an exact one, in fractions of a token:
`NeverAhead`: no bucket lets in more than an exact one at the greatest rate set
since it was filled last. *Proved*, for any buckets, rates and capacities:
`BucketsNeverAhead` (`NeverAhead`). The lemma under it is `WholeTokens`: the whole
tokens counted for an interval are no more than the interval brings, so
rounding and the restarted clock only ever lose.

**CronExpr.** Parse and Next over small calendars: four months, the first of any
length and beginning on any weekday, and every form of the two day fields; one
calendar with texts that move every other field. `NextIsNext`: the time found
matches the text, is later, and none in between does; the reference says what a
text admits without the lists the code makes of it.

**RouteTree.** `HandleCall` is a registration: groups, names, duplicates, and
the way down the tree (`TreeAdd`). `FindHandle` is the search for a URL, with
`TreeFind` and `URLMatch`, in the order of the code (which sibling comes
first is the order of a Go map: any). `RoutesSound` has four parts. A
URL that is registered is found, for the last call that registered it, before any
pattern (`ExactFirst`; a URL of the any-method tree too, when no route of the own method serves it).
What is found serves the URL, and something is found if any route serves it, but for what
the search does not try (`FoundIfServed`, `NotTried`): it tries no pattern for
`/`; none for a URL that is the beginning of another route and has no slash at its end (`/a`
beside `/a/b`, `/a/b` beside `/a/b/`); and once a route begins with the URL's first segment, only those
that do. These are misses of the code (section 10), stated
on the registered paths and not on the tree. Handlers keep their middleware (`WaresFit`) and
names lead to their routes (`NamesLead`). Three registrations out of
twenty calls, and twenty-five URLs: each pair of forms meets above,
below and at the same node, in both orders. The mutant leaves the slash at the end of a URL
out of the search's condition.

**JsonText.** The text of a document as a sequence of tokens, and on it what the
code does: `Get` with the path language (`Named`, `ForEachOf` for `#.key`, `Queried`, selectors,
`@reverse`, pipes), `Edited` (`appendRawPaths`) with the commas that `Deleted` takes
out, the containers that `Build` makes and the padding of `Inserted`, and the shorter way
of `Options.Optimistic`. Beside it runs the tree that the edits should
make (`SetIn`, `DeletedFrom`), and `Answers` says what a path means on a tree. `JsonSound`
(in the run `DocumentsSound`, which asks it where this part runs):
after any edits the text is valid, is a text of that tree, and `Get`
agrees with `Answers` for every path, but for the defects of section 10.
Five documents, two edits out of eighty, thirty-four paths to get.

**EventStream.** Both ends of a stream of events and the connection between them.
The server: an application that sends in the two steps of `SendByte`
(`SendLooks`, `SendPuts`) into a channel of one, `Stop` in its two steps, the heartbeat,
and `Push`, which writes what it takes from the channel as lines. The network:
`CutOff` loses any end of what is on its way. The client: its goroutine reads a
line at a time (`ReadLine`), keeps the event it is in the middle of and the last
identifier, hands events to `OnMessage` (`Emitted`), and asks again with
`Last-Event-ID` (`Retry`, `Dials`). `StreamSound`: events come in order and
none twice over any number of connections, and over those that neither break
nor have a heartbeat the i-th call is for the i-th event, whole and under its own identifier. Two events, a
cut at any line, a heartbeat anywhere and two connections.
*Proved* for any number of each: `StreamIsSound`. `SsInv` puts everything in one line: what
was heard, the event in hand (`HeardInOrder`, `Emits`), the lines on the wire, the
channel and `next` (`Comes`) follow each other, and data on the wire stands behind its
identifier, so that a cut anywhere leaves an order to resume from. For the calm
part `NothingMissing` counts the lines that were read and says of each on the wire that it is
the one of that number; a stream that ends then ends between two events, and
the request after it names the last one heard. TLC checked `SsInv` (1.35 million states)
before it was proved.

In **services_all**, for the components that others start, use and stop
(`ServicesSound` asks of each what its own module states):

**Injector.** A goroutine is a stack of `Get`s (`frames`): `Look`; `Do`, which joins
the run of the provider that is in flight or starts one; `Check`, `Args` (one `Get` for
each argument), `Store`, `Land`; `Again`; `Scan` for an implementing type and, with the
read lock kept, the parent; `Back`. `Given` is what is registered at the start.
`InjectorSound`: while nobody registers anything
anew, each provider makes its values once, however often it panics before and whoever
asks together, all get the same, and what somebody provides is never missing. Two
requests of three kinds, a provider of two values and one that takes both, in one
injector or a parent and its child, one panic, one registration. *Proved*, for any
askers, types, providers and requests that meet `OneProvider`: `EachValueOnce`
(`InjectorSound`). `OneProvider` says that no two providers make the same type
in one injector, and that none is registered in both. Without it the property fails: where f makes
a and b, and g, registered later, makes a, a request for b has f make a second value of a. The
invariant (`DiInv`) says of a goroutine's stack what lies on what (`Stack`); that a
provider in flight has exactly one `Get` that runs it, in all the stacks
(`OwnersOnce`, `OwnersFly`, `FlightsOwned`); and, while nobody registers, that of each type
there is either the provider or its first value (`Supplies`), that a provider which
has made its values stands before `Store` or all of them are there (`MadeOnce`), and what each
`Get` knows at its place (`FrameRight`). A step puts a frame on a stack, changes the top one or
takes it off, and each is shown once to keep who owns what (`Reshapes`).

**Locale.** Languages with what was loaded in each, the calls of `T` cut at every lock,
and a language's templates. `LocaleSound`: a word that the language has is answered in it
unless it is removed during the call, one that the default language has is never answered
bare, the current language exists (unless it goes while it is chosen), and the count
that bounds the templates is exact. Two languages, two callers, two loads: a text for
both languages, or one that is replaced, or removed and loaded again.
*Proved*, for any languages, words, callers, loads and maximum of templates:
`TranslationsSound` (`LocaleSound`). No load serves two languages (`OneCodeEach`), and for each call of `T`
the invariant says what it has a right to where it stands: a language that had the word
when the call began has it still, and the call reads in no other (`Granted`).

**Cleaner.** `Set` starts it, it stops itself, `Close` stops it, by a flag, a level and a
channel that are read beside the mutex; a goroutine for each channel. `CleanerSound`:
unless a Close meets a Set or another Close, or follows a Set that followed a Close before a tick,
one goroutine listens to the channel
when `cleanerOn` says so and none otherwise. One of each sort of caller, two starts, two
sets of thresholds, with the clock's unit as it is. After such a meeting, of which
`CleanerSound` says nothing for good, the run follows only Close to its end (`OnlyCloseEnds`). *Proved*, for any callers, starts,
thresholds and buckets: `OneCleanerRuns` (`CleanerSound`). The invariant adds that there
is a channel exactly while `cleanerOn` is set, that a Close behind its stop finds it off, as
nobody starts a cleaner meanwhile (`CloseFindsNone`), and that closed channels have been
used, so that a new one is not closed.

**MemLimiter.** Refreshes by callers and by the monitor, callbacks that return late,
`UpdateLimit` in its two steps, `Start` and `Stop`. `LimiterSound`: what is paused is the
decision of the newest check that took one, never that of an older callback; the peak
is a bound; after `Stop` the runtime has its former limit and no monitor runs. Two
callers and two checks. *Proved*, for any callers, usages and limits and any number of
checks: `LimiterIsSound` (`LimiterSound`). A number belongs to one check, which decides once
at most (`SaysOnce`); a limit on its way to the runtime is the limiter's, and nobody else
carries one (`LimitOnItsWay`); `wg` counts the one monitor (`OneMonitor`).

**WebServer.** `RunContext` starts the servers of every engine one engine at a time,
stops them when its context ends, and `Shutdown` does so from any goroutine. `ServersStop`:
the count that a shutdown waits for is that of the servers it has yet to stop, all
that work are known, and from its end on none does, the hooks having run once for each
address. Three servers of two engines, two runs, one caller of `Shutdown`. *Proved*, for
any engines, addresses, runs and callers: `ServersAllStop` (`ServersStop`). Who stops the
servers has a list of those left, each once (`OnceEach`), whose length is the count, and every
other server has ended (`Stops`). While the servers are made `srvs` and the
count grow by one engine at a time (`Fills`), and the two do not overlap (`InTurn`).

`ServicesAreSound` (`ServicesSound`) joins the five: since `part` never changes, the
invariant of the composite is that of the component that runs.

## 10. What the checks found

Seven runs end in a violation, each of a sentence of the repository's own
comments or tests (`PROJECT.json`, findings): pool_close_deadlock,
rb_overlap, coal_lost, bal_leak, map_grow, snapshot_lost, params_foreign.

**Known defects** seen while modelling, which no run states, as nothing in
the repository promises otherwise, as they end the behaviour, or as a property
above has to leave them out:

- *WorkPool.* `Close` called twice at once closes `closeCh` twice: the second
  call panics with `wp.mu` held (pool.go:275). A release timer that fires after
  `Close` has counted its worker off (pool.go:401) counts it off again:
  `usedNum` is minus one, `Cap` reports 2^64-1, and `Close` waits for a worker
  that is gone. The timer takes the last worker out of the queue and lowers
  `usedNum` afterwards: a submitter in between sees neither a worker nor room
  for one, and waits for a push that nobody makes (pool.go:399). `AdjustSize(0)` and
  `Pause` stop the workers that submitters wait for: these wait until another
  call pushes one (`Paused`).
- *Balancer.* `Add` accepts a weight of zero, which `SetWeight` refuses; least
  connections then divides by it (balancer.go:154, 311; `PickPanics`).
  `WalkNodes` reads the map without the lock after its callback, and writes
  back a failure time decided on what it read before (balancer.go:440).
- *Table.* Keys found expired are deleted after the lock was released, with
  what was set in between (table.go:150, 243). Two calls of `Add` for one key
  may both answer true (table.go:265-283). A loader of `MustGet` that fails
  deletes the key whatever it holds by now, and those that waited for its item
  read the empty value without an error (table.go:319). Every check doubles the
  lifespan of a renewed item (table.go:124). An item that a callback has kept is
  looked at again only when something else starts a check. A loader that uses
  the table can deadlock with a `Delete` or a check that waits for its item with
  the table locked (table.go:110, 218; `TableJammed`), and one that asks for its own
  key waits for itself, which is not modelled.
- *WaitGroup.* Functions that call `Go` at the limit wait for each other for ever
  (waitgroup.go:51; `Jammed`).
- *Chan.* `Len` is wrong once the channel is closed: `Drain` and `Flush` do not
  count.
- *Dedup.* If the shared request panics, who waits for it waits for ever
  (dedup.go:135). Requests in flight are evicted and replaced when expired, so
  that two equal ones are sent at once (dedup.go:178). An error is shared until
  the entry expires.
- *CronJobs.* Overlapping passes may run a job twice for one time; a job with
  no time left has the zero time as its next, and runs at every pass.
- *CronExpr.* An inverted range gives an empty list: no next time, or an index
  out of range. Months and weekdays with a leading zero are not in the tables
  of tokens. A `*` hides an error in a later entry. `Next` writes
  `actualDaysOfMonthList` of the shared expression without a lock.
- *HashMap.* Between the mark of a deleted element and the update of its slot
  `get` misses the other keys of the part. Two Sets of colliding keys may leave
  one unfindable. An element inserted behind one that is marked and cut out in
  the meantime is lost. A hash of zero is that of the list's head.
- *FastCache.* `cleanExpired` and `forEach` stop at the first expired node, as
  `delete` has moved it to the end. An expired item that `get` meets is
  marked without lowering `size`, and in the first level is served once more;
  the second level may hold a value older than the last one set, which is served
  after the newer one is gone.
- *Sessions.* The Delete that `Get` starts for an expired session may run after the
  `New` that follows, and resets the session in its handler's hands
  (memory.go:178). Collect and a Delete of the same object put it in the pool twice;
  Collect deletes by identifier a session renewed since it looked, and resets
  one that a request holds.
- *MemFile.* `Sync` hands `WriteFile` a slice that aliases the buffer: a write
  during the flush overwrites it. Two Syncs that both find no file truncate
  each other's. A failed write loses its chunks, as the buffer is empty already.
- *TokenBucket.* A refill that makes less than a token still starts its clock
  again, so that a caller that keeps asking is never let in
  (token_bucket.go:29-33). `SetRate` applies the new rate to the time before; buckets are
  never removed.
- *WebRequests.* `GetWriter` puts its buffer back in the pool before its bytes
  are written (render.go:241). After a panic the rest of the chain still
  runs: the deferred write calls `Next`, and so does whoever called Recovery. The
  cache stores answers of 504 and 500 like any other.
  A body that is an entry of the cache goes back to the pool with its context,
  and the next request that is copied back from a timeout writes over it
  (cache.go:69, utils.go:495, context_clone.go:76).
- *EventStream.* The client never leaves the state that a heartbeat puts it in, as
  the blank line behind it resets everything else, and drops all events that follow
  on that connection (zhttp/sse.go:211-236). When the goroutine ends it closes the channel, and `fn` is called
  with nil (zhttp/sse.go:69-81). An event cut in the middle is lost or comes under a
  wrong identifier: the last identifier is taken before the event is handed on, and what
  there is of the event is kept for the next connection. A second line of data
  is made an event of its own. `Err` is never written. The `break` in the
  `select` (zhttp/sse.go:184) leaves only the `select`.
- *RouteTree.* Once `/a/b` is registered, `/a` is not found although `/:x`
  matches it, as `Find` returns what lies below `/a`; nor is `/a/b` once `/a/b/` is, although `/a/:x`
  matches (utils.go:304). Once any route begins with `a`, `/a/1` is not looked for under `/:x/1`. `/a/:x/` never matches with its slash. `/*` does
  not serve `/`. Registering `/a/` after `/a` is no duplicate, and the new
  handler keeps the old one's middleware. The name of a refused duplicate goes to the next
  route. `GenerateURL` checks `:id` against the default pattern. Which of two
  siblings that match is taken is the order of a Go map.
- *JsonText.* `arrayOrMap` has a case for `r` where it means `t` (get.go:528):
  an array with `true` in it that `Set` pads is written with `rue`. `Set` of any index in an
  empty array writes one null before the value (set.go:354). `#.key` below an
  index also collects from the value that follows the array, as the last place it
  notes is the bracket, which `parseAny` skips (get.go:1396, 1553). A query for all that
  matches nothing is not passed on to a pipe. `@reverse` of an object repeats its last key,
  as `ForEach` hands out one key each time (get.go:2638). A
  selector without its closing bracket, as in `[a`, panics (get.go:1814). With `Optimistic` and
  `ReplaceInPlace`, a string that needs escapes and is short enough makes
  the result nil without an error (json.go:108). `Res.Set` and `Res.Delete` empty the
  document when they fail (get.go:440-448). `Filter` takes a key for a path,
  so that one with a dot in it becomes two (json.go:51).
- *Injector.* Providers that need each other's values, or their own, wait for
  themselves for ever (inject.go:134). A panic of the parent's provider leaves the
  child's lock read-locked (inject.go:188). A provider of two values overwrites one that
  was mapped since, or that another provider has made. An interface is looked for only among values that were made already.
  Closures of one literal have the same key, and share a run that is not theirs (inject.go:199).
- *Locale.* `SetLanguage` may set a language that is removed after it looked (i18n.go:171).
- *Cleaner.* `Clock` counts nanoseconds by the thousand, and `clean` takes them for
  milliseconds (lru.go:339): with the default thresholds the first idle tick stops the
  cleaner. At the reduced level only every other bucket is ever cleaned (lru.go:376). A
  cleaner that is not lazy is never started again. Get and Delete are no activity.
  Close, Set and Close before the next tick leave `cleanerOn` set with a closed channel:
  no cleaner is ever started again.
- *MemLimiter.* Overlapping calls of `UpdateLimit`, or one and `Stop`, may leave the runtime
  with another limit than the last; `Start` during `Stop` may leave a monitor behind
  or panic; the pause is set though the collection has made room (mem.go:243).
- *WebServer.* `Shutdown` during the start, or during another shutdown, waits for ever or
  panics, as `srvs` and the count are shared without a lock (web.go:529-555). Hooks run
  once for every address.
- *Snowflake.* A clock that goes back resets the sequence before the identifier
  is refused (snowflake.go:86): numbers may come again.

## 11. What is proved, checked only, and not modelled

*Proved.* The theorems of sections 3 to 8, and those on `Sessions`, `TokenBucket`, `EventStream` and the five
services in section 9, hold for every value of the constants
that meets the modules' `ASSUME`s, and rest on nothing else (`AnswersStayOwn` names two
hypotheses of its own); TLC evaluates
these on the instances. The inductive invariants were checked by TLC as
invariants before they were proved.

*Only model-checked.* Liveness (under fairness, and with `ENABLED`, it is out of
the prover's reach): `WaitsEnd`, `CallsReturn`. `HashMap`, whose
invariant is a safety property that nobody has proved yet. `CronExpr`,
`RouteTree`, `JsonText`, `Limiter`, `MemFile` and `FastCache`
are about what recursive definitions, folds and filters make of data, where a proof
would need induction over data with a library the provers cannot use.

*Not modelled, for good.* Conversions, text, reflection, formatting and wrappers
of the standard library (`ztype`, `zreflect`, `zvalid`, layout and repair in `zjson`, most of
`zstring`, `zarray`, `ztime`, `zfile`, `zhttp`, `zlog`, `zcli`, `zshell`,
`zpprof`): sequential code over bytes and types, with no state that outlives a
call, for which a model would be a second implementation. Data is abstract
everywhere: keys, tasks, values and routes' segments are model values or members of small sets.
The weak memory of the machine is not modelled: Go's atomics are sequentially
consistent, and the unlocked map read of `WalkNodes` is taken as one read.

## 12. What is left

- Not modelled yet: `zsync/seqlock.go` and `zstring/snowflake.go`.
- Proofs: `MapKeeps` of `HashMap` for the calls that do not overlap.
- Abstract specifications worth stating: an unbounded queue for `Chan`, an atomic
  map for `HashMap` (which it implements only in the modes of `MapKeeps`).
