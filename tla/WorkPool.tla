------------------------------ MODULE WorkPool ------------------------------
(***************************************************************************)
(* The goroutine pool of zpool/pool.go.                                    *)
(*                                                                         *)
(* Do takes an idle worker from the FIFO queue, or starts one while        *)
(* usedNum < maxIdle, or parks in queue.pop until a worker is pushed.      *)
(* Close, AdjustSize and PreInit hold wp.mu while they start workers, or   *)
(* pop them and stop them.  A worker goroutine runs one job at a time,     *)
(* queues itself again, and leaves when its release timer finds it idle.   *)
(*                                                                         *)
(* A critical section of the queue's own mutex, an atomic operation on a   *)
(* counter and a rendezvous on an unbuffered channel are one action each.  *)
(* mu is the write lock of wp.mu; a read lock around one read is an action *)
(* that needs mu to be free.  Mutants are the definitions marked so.       *)
(***************************************************************************)
EXTENDS Integers, FiniteSets, Sequences

CONSTANTS
    Clients, Timed,  \* the calls of Do, and those of them that are DoWithTimeout
    Closers, Adjusters, PreIniters,  \* the calls of Close, AdjustSize, PreInit
    Workers,         \* identities for the worker structs
    Sizes,           \* the arguments AdjustSize may be given
    MinIdle, MaxIdle,  \* New's arguments, after its lower bounds
    ReleaseTimer,    \* whether a release timer may fire during the behaviour
    WordSize,        \* 2^64 of the machine: where the conversion to uint wraps
    Free, None       \* wp.mu is not held; no worker, no client

Callers == Clients \cup Closers \cup Adjusters \cup PreIniters
Shrinkers == Closers \cup Adjusters

ASSUME PoolAssumption ==
    /\ MinIdle \in Nat \ {0} /\ MaxIdle \in Nat /\ MinIdle <= MaxIdle
    /\ WordSize \in Nat /\ WordSize > 2 * MaxIdle
    /\ ReleaseTimer \in BOOLEAN /\ Sizes \subseteq Int /\ Timed \subseteq Clients
    /\ IsFiniteSet(Workers) /\ IsFiniteSet(Callers) /\ Cardinality(Workers) >= MaxIdle
    /\ Clients \cap (Shrinkers \cup PreIniters) = {}
    /\ Closers \cap (Adjusters \cup PreIniters) = {} /\ Adjusters \cap PreIniters = {}
    /\ Free \notin Callers /\ None \notin Workers \cup Clients

VARIABLES
    mu, closed, minIdle, usedNum, activeNum,  \* the fields of WorkPool
    queue,   \* wp.queue.list
    parked,  \* the callers that wait on the channel that is now wp.queue.ready
    pc,      \* where each caller stands in its call
    held,    \* the worker a caller popped or started, or None
    wpc,     \* where each worker's goroutine stands; "none": no goroutine
    job,     \* the task a worker runs (its submitter), or None
    task,    \* history: what has become of each submitter's task
    result   \* what Do returned: "none" yet, "ok", "closed" or "timeout"

lists == <<queue, parked>>
counts == <<usedNum, activeNum>>
works == <<wpc, job, task>>
vars == <<mu, closed, minIdle, counts, lists, pc, held, works, result>>

\* The conversion uint(x) of an int64.
Uint(x) == IF x >= 0 THEN x ELSE x + WordSize

Live == {w \in Workers : wpc[w] # "none"}
Queued == {queue[i] : i \in 1..Len(queue)}

Init ==
    /\ mu = Free /\ closed = FALSE /\ minIdle = MinIdle
    /\ usedNum = 0 /\ activeNum = 0 /\ queue = <<>> /\ parked = {}
    /\ pc = [p \in Callers |-> CASE p \in Clients -> "do" [] p \in Closers -> "close"
                                 [] p \in Adjusters -> "adjust" [] OTHER -> "preinit"]
    /\ held = [p \in Callers |-> None]
    /\ wpc = [w \in Workers |-> "none"] /\ job = [w \in Workers |-> None]
    /\ task = [c \in Clients |-> "new"] /\ result = [c \in Clients |-> "none"]

Go(p, from, to) == pc[p] = from /\ pc' = [pc EXCEPT ![p] = to]
Lock(p) == mu = Free /\ mu' = p
Hold(p, w) == held' = [held EXCEPT ![p] = w]
Answer(c, r) == result' = [result EXCEPT ![c] = r]

-----------------------------------------------------------------------------
(* workerQueue.                                                            *)

\* push ignores a worker that is queued already; the first worker put in an
\* empty queue wakes everyone who waits on ready.
PushSilently(w) == queue' = Append(queue, w) /\ UNCHANGED parked   \* mutant: no wake-up
Push(w) ==
    /\ queue' = IF w \in Queued THEN queue ELSE Append(queue, w)
    /\ parked' = IF queue = <<>> THEN {} ELSE parked

\* remove takes a worker out of the middle of the list, if it is there.
RemoveOrNot(w) == queue' = SelectSeq(queue, LAMBDA v : v # w)   \* mutant: leaves anyway
Remove(w) ==
    \E k \in 1..Len(queue) :
        /\ queue[k] = w
        /\ queue' = [i \in 1..(Len(queue) - 1) |-> IF i < k THEN queue[i] ELSE queue[i + 1]]

TryPop(p) == queue # <<>> /\ queue' = Tail(queue) /\ Hold(p, Head(queue))

\* pop: try, look at the list once more under the lock, wait on ready, again.
PopTake(p) ==
    /\ Go(p, "pop", IF p \in Clients THEN "popped" ELSE "stop") /\ TryPop(p)
    /\ UNCHANGED <<mu, closed, minIdle, counts, parked, works, result>>

PopLook(p) ==
    /\ \/ queue = <<>> /\ Go(p, "pop", "look")
       \/ queue # <<>> /\ Go(p, "look", "pop")
       \/ p \notin parked /\ Go(p, "wait", "pop")
    /\ UNCHANGED <<mu, closed, minIdle, counts, lists, held, works, result>>

StillEmptyUnchecked == TRUE   \* mutant: ready is taken without the second look
StillEmpty == queue = <<>>

PopPark(p) ==
    /\ Go(p, "look", "wait") /\ StillEmpty
    /\ parked' = parked \cup {p}
    /\ UNCHANGED <<mu, closed, minIdle, counts, queue, held, works, result>>

\* The context's deadline or closeCh ends the wait of a submitter; Close and
\* AdjustSize call pop(nil, nil), which only a push can end.
PopGiveUp(c) ==
    /\ Go(c, "wait", "undo")
    /\ (c \in Timed /\ Answer(c, "timeout")) \/ (closed /\ Answer(c, "closed"))
    /\ parked' = parked \ {c}
    /\ UNCHANGED <<mu, closed, minIdle, counts, queue, held, works>>

Pop(p) == PopTake(p) \/ PopLook(p) \/ PopPark(p)

-----------------------------------------------------------------------------
(* A worker goroutine.                                                     *)

\* workers.Get and go createGoroutines: the struct of a stopped worker or a
\* new one, which is the same to all that follows.
Spawn(p) ==
    \E w \in Workers :
        /\ wpc[w] = "none" /\ wpc' = [wpc EXCEPT ![w] = "select"]
        /\ usedNum' = usedNum + 1 /\ Hold(p, w)

\* A job that panics ends like one that returns: the recovery starts a new
\* goroutine for the worker.
AfterJob(outcome) == "finished"

WorkerFinish(w) ==
    /\ wpc[w] = "busy" /\ activeNum' = activeNum - 1
    /\ \E outcome \in {"finished", "panicked"} :
           /\ task' = [task EXCEPT ![job[w]] = outcome]
           /\ wpc' = [wpc EXCEPT ![w] = AfterJob(outcome)]
    /\ job' = [job EXCEPT ![w] = None]
    /\ UNCHANGED <<mu, closed, minIdle, usedNum, lists, pc, held, result>>

WorkerPush(w) ==
    /\ wpc[w] = "finished" /\ wpc' = [wpc EXCEPT ![w] = "select"] /\ Push(w)
    /\ UNCHANGED <<mu, closed, minIdle, counts, pc, held, job, task, result>>

\* The timer fires; a worker that is not in the queue only resets it.
WorkerRelease(w) ==
    /\ ReleaseTimer /\ wpc[w] = "select" /\ wpc' = [wpc EXCEPT ![w] = "leaving"] /\ Remove(w)
    /\ UNCHANGED <<mu, closed, minIdle, counts, parked, pc, held, job, task, result>>

LeaveUncounted(w) == wpc[w] = "leaving" /\ UNCHANGED usedNum   \* mutant
Leave(w) == wpc[w] = "leaving" /\ usedNum' = usedNum - 1
WorkerLeave(w) ==
    /\ Leave(w) /\ wpc' = [wpc EXCEPT ![w] = "none"]
    /\ UNCHANGED <<mu, closed, minIdle, activeNum, lists, pc, held, job, task, result>>

WorkerStep(w) == WorkerFinish(w) \/ WorkerPush(w) \/ WorkerLeave(w)

-----------------------------------------------------------------------------
(* Do and DoWithTimeout.                                                   *)

DoIsClosed(c) ==
    /\ mu = Free
    /\ \/ closed /\ Go(c, "do", "done") /\ Answer(c, "closed") /\ UNCHANGED activeNum
       \/ ~closed /\ Go(c, "do", "lock") /\ activeNum' = activeNum + 1 /\ UNCHANGED result
    /\ UNCHANGED <<mu, closed, minIdle, usedNum, lists, held, works>>

DoLock(c) ==
    /\ Go(c, "lock", "locked") /\ Lock(c)
    /\ UNCHANGED <<closed, minIdle, counts, lists, held, works, result>>

DoRefuse(c) ==
    /\ Go(c, "locked", "undo") /\ closed /\ mu' = Free /\ Answer(c, "closed")
    /\ UNCHANGED <<closed, minIdle, counts, lists, held, works>>

DoTakeIdle(c) ==
    /\ Go(c, "locked", "send") /\ ~closed /\ TryPop(c) /\ mu' = Free
    /\ UNCHANGED <<closed, minIdle, counts, parked, works, result>>

DoNoneIdle(c) ==
    /\ Go(c, "locked", "none idle") /\ ~closed /\ queue = <<>>
    /\ UNCHANGED <<mu, closed, minIdle, counts, lists, held, works, result>>

RoomForOneMore == Uint(usedNum) <= MaxIdle   \* mutant
RoomForOne == Uint(usedNum) < MaxIdle

DoSpawn(c) ==
    /\ Go(c, "none idle", "send") /\ RoomForOne /\ Spawn(c) /\ mu' = Free
    /\ UNCHANGED <<closed, minIdle, activeNum, lists, job, task, result>>

DoQueue(c) ==
    /\ Go(c, "none idle", "pop") /\ ~RoomForOne /\ mu' = Free
    /\ UNCHANGED <<closed, minIdle, counts, lists, held, works, result>>

\* After a wait closed is read again, under the read lock, before the job is
\* handed over.
NotReadAgain(c) == Go(c, "popped", "send")   \* mutant
ReadAgain(c) == Go(c, "popped", IF closed THEN "give back" ELSE "send")

DoReadClosed(c) ==
    /\ mu = Free /\ ReadAgain(c)
    /\ UNCHANGED <<mu, closed, minIdle, counts, lists, held, works, result>>

DoGiveBack(c) ==
    /\ Go(c, "give back", "undo") /\ Push(held[c]) /\ Hold(c, None) /\ Answer(c, "closed")
    /\ UNCHANGED <<mu, closed, minIdle, counts, works>>

Undone == activeNum' = activeNum   \* mutant: the error paths forget activeNum
UndoneTwice == activeNum' = activeNum - 2   \* mutant: they lower it twice
Undo == activeNum' = activeNum - 1

DoUndo(c) ==
    /\ Go(c, "undo", "done") /\ Undo
    /\ UNCHANGED <<mu, closed, minIdle, usedNum, lists, held, works, result>>

\* w.jobQueue <- fn meets the receive in the worker's select.
DoRun(c) ==
    /\ Go(c, "send", "done") /\ wpc[held[c]] = "select"
    /\ wpc' = [wpc EXCEPT ![held[c]] = "busy"] /\ job' = [job EXCEPT ![held[c]] = c]
    /\ task' = [task EXCEPT ![c] = "running"] /\ Hold(c, None) /\ Answer(c, "ok")
    /\ UNCHANGED <<mu, closed, minIdle, counts, lists>>

DoStep(c) ==
    \/ DoIsClosed(c) \/ DoLock(c) \/ DoRefuse(c) \/ DoTakeIdle(c) \/ DoNoneIdle(c)
    \/ DoSpawn(c) \/ DoQueue(c) \/ Pop(c) \/ PopGiveUp(c) \/ DoReadClosed(c)
    \/ DoGiveBack(c) \/ DoUndo(c) \/ DoRun(c)

-----------------------------------------------------------------------------
(* Close, AdjustSize and PreInit.                                          *)

\* Close and PreInit first look at closed without the lock they then take.
FirstIsClosed(p) ==
    /\ mu = Free
    /\ \/ Go(p, "close", IF closed THEN "done" ELSE "close lock")
       \/ Go(p, "preinit", IF closed THEN "done" ELSE "preinit lock")
    /\ UNCHANGED <<mu, closed, minIdle, counts, lists, held, works, result>>

\* close(wp.closeCh) panics when another Close came first, and nothing then
\* releases wp.mu.
CloseLock(k) ==
    /\ Go(k, "close lock", IF closed THEN "panicked" ELSE "closing")
    /\ Lock(k) /\ closed' = TRUE
    /\ UNCHANGED <<minIdle, counts, lists, held, works, result>>

\* Close goes on until usedNum is zero, AdjustSize while it is above minIdle.
ShrinkNext(p) ==
    /\ \/ Go(p, "closing", "pop") /\ Uint(usedNum) > 0
       \/ Go(p, "shrink", "pop") /\ Uint(usedNum) > minIdle
    /\ usedNum' = usedNum - 1
    /\ UNCHANGED <<mu, closed, minIdle, activeNum, lists, held, works, result>>

\* worker.stop <- struct{}{} meets the receive in the worker's select.
StopWorker(p) ==
    /\ Go(p, "stop", IF p \in Closers THEN "closing" ELSE "shrink")
    /\ wpc[held[p]] = "select" /\ wpc' = [wpc EXCEPT ![held[p]] = "none"] /\ Hold(p, None)
    /\ UNCHANGED <<mu, closed, minIdle, counts, lists, job, task, result>>

AllStoppedUnchecked == TRUE   \* mutant: Close does not wait for the busy workers
AllStopped == Uint(usedNum) = 0

ShrinkDone(p) ==
    /\ \/ Go(p, "closing", "closed") /\ AllStopped
       \/ Go(p, "shrink", "done") /\ Uint(usedNum) <= minIdle
    /\ mu' = Free
    /\ UNCHANGED <<closed, minIdle, counts, lists, held, works, result>>

\* The new size is uint(workSize), so a negative one is cut to maxIdle too.
SizeAsGiven(n) == n   \* mutant
NewSize(n) == IF n < 0 \/ n > MaxIdle THEN MaxIdle ELSE n

AdjustLock(a, n) ==
    /\ mu = Free
    /\ \/ closed /\ Go(a, "adjust", "done") /\ UNCHANGED <<mu, minIdle>>
       \/ /\ ~closed /\ Lock(a) /\ minIdle' = NewSize(n)
          /\ Go(a, "adjust", IF n > 0 /\ minIdle < NewSize(n) THEN "grow" ELSE "shrink")
    /\ UNCHANGED <<closed, counts, lists, held, works, result>>

\* PreInit does not look at closed again once it has the lock.
PreInitLock(i) ==
    /\ Go(i, "preinit lock", "grow") /\ Lock(i)
    /\ UNCHANGED <<closed, minIdle, counts, lists, held, works, result>>

\* The growing loop of AdjustSize and PreInit.
GrowSpawn(p) ==
    /\ Go(p, "grow", "grow push") /\ Uint(usedNum) < minIdle /\ Spawn(p)
    /\ UNCHANGED <<mu, closed, minIdle, activeNum, lists, job, task, result>>

GrowPush(p) ==
    /\ Go(p, "grow push", "grow") /\ Push(held[p]) /\ Hold(p, None)
    /\ UNCHANGED <<mu, closed, minIdle, counts, works, result>>

GrowDone(p) ==
    /\ Uint(usedNum) >= minIdle
    /\ \/ p \in Adjusters /\ Go(p, "grow", "shrink") /\ UNCHANGED mu
       \/ p \in PreIniters /\ Go(p, "grow", "done") /\ mu' = Free
    /\ UNCHANGED <<closed, minIdle, counts, lists, held, works, result>>

Shrink(p) == ShrinkNext(p) \/ Pop(p) \/ StopWorker(p) \/ ShrinkDone(p)
Grow(p) == GrowSpawn(p) \/ GrowPush(p) \/ GrowDone(p)

CloseStep(k) == FirstIsClosed(k) \/ CloseLock(k) \/ Shrink(k)
AdjustStep(a) == (\E n \in Sizes : AdjustLock(a, n)) \/ Grow(a) \/ Shrink(a)
PreInitStep(i) == FirstIsClosed(i) \/ PreInitLock(i) \/ Grow(i)

Next ==
    \/ \E c \in Clients : DoStep(c)
    \/ \E k \in Closers : CloseStep(k)
    \/ \E a \in Adjusters : AdjustStep(a)
    \/ \E i \in PreIniters : PreInitStep(i)
    \/ \E w \in Workers : WorkerStep(w) \/ WorkerRelease(w)

Spec == Init /\ [][Next]_vars

(* The Go scheduler runs every goroutine that can run, and a sync.RWMutex  *)
(* and a sync.Mutex serve a waiter before the goroutines that come long    *)
(* after it, hence strong fairness of a caller.  A job returns in the end. *)
(* Nothing is assumed of the release timer.                                *)
Fairness ==
    /\ \A c \in Clients : SF_vars(DoStep(c))
    /\ \A k \in Closers : SF_vars(CloseStep(k))
    /\ \A a \in Adjusters : SF_vars(AdjustStep(a))
    /\ \A i \in PreIniters : SF_vars(PreInitStep(i))
    /\ \A w \in Workers : WF_vars(WorkerStep(w))

FairSpec == Spec /\ Fairness

-----------------------------------------------------------------------------
CallerStates ==
    {"do", "lock", "locked", "none idle", "pop", "look", "wait", "popped", "send",
     "give back", "undo", "done", "close", "close lock", "closing", "stop", "closed",
     "panicked", "adjust", "grow", "grow push", "shrink", "preinit", "preinit lock"}

\* Every variable stays in its range; minIdle never exceeds New's maximum.
TypeOK ==
    /\ mu \in Callers \cup {Free} /\ closed \in BOOLEAN /\ minIdle \in 0..MaxIdle
    /\ usedNum \in Int /\ activeNum \in Int
    /\ queue \in Seq(Workers) /\ parked \subseteq Callers
    /\ pc \in [Callers -> CallerStates] /\ held \in [Callers -> Workers \cup {None}]
    /\ wpc \in [Workers -> {"none", "select", "busy", "finished", "leaving"}]
    /\ job \in [Workers -> Clients \cup {None}]
    /\ task \in [Clients -> {"new", "running", "finished", "panicked"}]
    /\ result \in [Clients -> {"none", "ok", "closed", "timeout"}]

\* The callers inside the part of Close or AdjustSize that has taken one off
\* usedNum and has not yet stopped a worker for it.
Stopping == {p \in Shrinkers : pc[p] \in {"pop", "look", "wait", "stop"}}

\* No interleaving of submitters, timers, resizing and closing ever has more
\* goroutines than New's max (pool.go:232 and the loops at 326 and 348).
WorkerLimit == Cardinality(Live) <= MaxIdle

\* usedNum, which Cap reports, counts the goroutines there are, less the one
\* that Close or AdjustSize is about to stop.
UsedNumCountsWorkers == usedNum = Cardinality(Live) - Cardinality(Stopping)

\* A worker goroutine that waits for work is in the queue once or in the hands
\* of exactly one caller: none is handed two jobs, queued while a caller has
\* it, popped after it left, or lost outside the queue.
OneOwner ==
    /\ \A i, j \in 1..Len(queue) : queue[i] = queue[j] => i = j
    /\ \A p, q \in Callers : held[p] = held[q] /\ held[p] # None => p = q
    /\ \A p \in Callers : held[p] # None => wpc[held[p]] = "select" /\ held[p] \notin Queued
    /\ \A w \in Workers :
          wpc[w] = "select" <=> w \in Queued \/ \E p \in Callers : held[p] = w

\* pop's second look at the list: nobody sleeps on ready while there is a
\* worker to take.
NoLostWakeup == parked # {} => queue = <<>>

\* activeNum, which Wait polls, counts the calls of Do in progress and the
\* jobs that run: no error path forgets its Sub or repeats it, and it never
\* goes below zero, which uint would turn into a Wait without end.
ActiveNumCountsTasks ==
    activeNum = Cardinality({c \in Clients : pc[c] \notin {"do", "done"}})
                + Cardinality({w \in Workers : wpc[w] = "busy"})

\* When Wait reads zero and returns, every task that Do had accepted is over.
WaitReturns == Uint(activeNum) = 0
WaitMeansDone ==
    WaitReturns => \A c \in Clients : result[c] = "ok" => task[c] \in {"finished", "panicked"}

\* When Close has returned no job runs and none is about to be handed over.
CloseDrains ==
    (\E k \in Closers : pc[k] = "closed") =>
        (\A w \in Workers : wpc[w] # "busy") /\ (\A c \in Clients : pc[c] # "send")

\* Every call of Do returns: no submitter is left waiting for a worker.
DoReturns == \A c \in Clients : <>(pc[c] = "done")

\* The pool does what TaskPool, with no workers and no locks in it, promises.
Promise == INSTANCE TaskPool WITH
    Tasks <- Clients, Limit <- MaxIdle, drained <- \E k \in Closers : pc[k] = "closed"
ImplementsTaskPool == Promise!Spec
=============================================================================
